---------------------------- MODULE CallsProofs ----------------------------
(* What the list of calls keeps to for every number of calls and of closures waiting.

   The invariant is about what is on its way.  A place is the list itself (0) or a message
   to the GUI thread (1, 2, ...), and says which cores it brings into the list. *)
EXTENDS Calls, QueueFacts

USE NoCoreAssumption

Places(q) == 0 .. Len(q)

\* The cores a message puts in the list.
Brings(m) ==
  IF m.kind = "reset" THEN Range(m.calls)
  ELSE IF m.kind = "callCreated" THEN {m.core} ELSE {}

\* The cores a place brings.
Brought(l, q, i) == IF i = 0 THEN Range(l) ELSE Brings(q[i])

TellsRelease(m) == m.kind = "state" /\ m.state = "Released"

\* getCalls() has each call that goes on, once.
LiveAreGiven(s, n) ==
  /\ \A i, j \in DOMAIN n : n[i] = n[j] => i = j
  /\ \A c \in Calls : c \in Range(n) <=> s[c] \in Live

\* At most one call has the line, or is getting it back.
HasLine(s, c) == s[c] \in {"StreamsRunning", "Resuming"}
OneHasTheLine(s) == \A c, d \in Calls : HasLine(s, c) /\ HasLine(s, d) => c = d

\* A core is of a call there has been, and of a snapshot there has been.
CoresAreOfCalls(s, cs, g) == \A k \in cs : s[k.call] # "Idle" /\ k.gen <= g

\* What comes into the list is a core that is still there,
BroughtAreThere(l, cs, q) == \A i \in Places(q) : Brought(l, q, i) \subseteq cs

\* comes once,
BroughtOnce(l, q) ==
  \A i, j \in Places(q) : i < j => Brought(l, q, i) \cap Brought(l, q, j) = {}

\* and leaves again if the call was released.
ReleasedWillLeave(s, l, q) ==
  \A i \in Places(q) : \A k \in Brought(l, q, i) : s[k.call] = "Released" =>
    \E j \in DOMAIN q : j > i /\ q[j] = StateNews(k, "Released")

\* Nothing brings a call back after its release.
ReleasedStayOut(s, q) ==
  \A i \in DOMAIN q : TellsRelease(q[i]) =>
    /\ s[q[i].core.call] = "Released"
    /\ \A j \in DOMAIN q : j > i => \A k \in Brings(q[j]) : k.call # q[i].core.call

\* callCreated is the first that brings the call.
CreatedAreNew(l, q) ==
  \A i \in Places(q), j \in DOMAIN q : i < j /\ q[j].kind = "callCreated" =>
    \A k \in Brought(l, q, i) : k.call # q[j].core.call

\* No two entries are of one call.
OneEach(l) == \A i, j \in DOMAIN l : l[i].call = l[j].call => i = j

\* A snapshot has each call once, and its current call is one of them.
SnapshotsAreSound(q) ==
  \A i \in DOMAIN q : q[i].kind = "reset" =>
    OneEach(q[i].calls) /\ (q[i].current = NoCore \/ q[i].current \in Range(q[i].calls))

\* The newest core of a call that goes on is in the list, or will be, and no snapshot
\* that is queued takes it out again.
NewestStands(n, cs, l, q) ==
  \A c \in Range(n) : \E i \in Places(q) : \E k \in Brought(l, q, i) :
    /\ k.call = c /\ \A j \in DOMAIN q : j > i => q[j].kind # "reset"
    /\ \A o \in cs : o.call = c => o.gen <= k.gen

\* What OnBusy() hears.
TakesTheLine(m) ==
  m.kind = "state" /\ m.state \in {"StreamsRunning", "Resuming", "OutgoingProgress"}

Shows(cur, c) == cur # NoCore /\ cur.call = c

\* The message at i is of a core that the list has when it is heard.
HeardInList(l, q, i) ==
  \E p \in Places(q) :
    /\ p < i /\ q[i].core \in Brought(l, q, p)
    /\ \A j \in DOMAIN q : p < j /\ j < i => q[j].kind # "reset"

\* Place i makes c the current call.
MakesCurrent(l, cur, q, i, c) ==
  \/ i = 0 /\ Shows(cur, c)
  \/ i # 0 /\ q[i].kind = "reset" /\ Shows(q[i].current, c)
  \/ i # 0 /\ TakesTheLine(q[i]) /\ q[i].core.call = c /\ HeardInList(l, q, i)

\* A message that may make another the current call.
Disturbs(m, c) ==
  TakesTheLine(m) \/ m.kind = "lastCallEnded" \/ (m.kind = "reset" /\ ~Shows(m.current, c))

\* The call that runs is current, or some message makes it so, and none after that
\* makes another.
RunningWillShow(s, l, cur, q) ==
  \A c \in Calls : s[c] = "StreamsRunning" =>
    \E i \in Places(q) :
      MakesCurrent(l, cur, q, i, c) /\ \A j \in DOMAIN q : j > i => ~Disturbs(q[j], c)

\* What the state of the calls, the cores and the messages have to do with each other.
Told(s, n, cs, g, l, cur, q) ==
  /\ CoresAreOfCalls(s, cs, g)
  /\ BroughtAreThere(l, cs, q) /\ BroughtOnce(l, q)
  /\ ReleasedWillLeave(s, l, q) /\ ReleasedStayOut(s, q)
  /\ CreatedAreNew(l, q) /\ SnapshotsAreSound(q)
  /\ NewestStands(n, cs, l, q) /\ RunningWillShow(s, l, cur, q)

\* What decides haveCall, and how.
Says(m) == m.kind \in {"reset", "lastCallEnded"}
SaysCalls(m) == m.kind = "reset" /\ m.calls # <<>>

\* Another snapshot is asked for, or will be.
UpdateDue(q, mq) ==
  \/ \E i \in DOMAIN mq : mq[i].kind = "update"
  \/ \E i \in DOMAIN q : q[i].kind = "firstCallStarted"

\* Unless a snapshot is due, the last word on whether there is a call is right.
LastWordIsRight(n, have, q, mq) ==
  ~UpdateDue(q, mq) =>
    \A i \in Places(q) :
      (i = 0 \/ Says(q[i])) /\ (\A j \in DOMAIN q : j > i => ~Says(q[j])) =>
        ((i = 0 /\ have) \/ (i # 0 /\ SaysCalls(q[i])) <=> n # <<>>)

\* A number that is dialled, or waits for the account, is not a call yet, and is not
\* dialled twice.
DialsAreNew(s, reg, ws, mq) ==
  /\ reg => ws = <<>>
  /\ \A i, j \in DOMAIN ws : ws[i] = ws[j] => i = j
  /\ \A i \in DOMAIN ws : s[ws[i]] = "Idle"
  /\ \A i \in DOMAIN mq : mq[i].kind = "dial" => s[mq[i].call] = "Idle" /\ mq[i].call \notin Range(ws)
  /\ \A i, j \in DOMAIN mq : mq[i].kind = "dial" /\ mq[j].kind = "dial" /\ mq[i].call = mq[j].call => i = j

\* The inductive invariant.
IInv ==
  /\ TypeOK /\ CurrentIsListed /\ CallsListedOnce
  /\ LiveAreGiven(sdk, getCalls) /\ OneHasTheLine(sdk)
  /\ Told(sdk, getCalls, cores, snapshots, list, current, guiQ)
  /\ LastWordIsRight(getCalls, haveCall, guiQ, modelQ)
  /\ DialsAreNew(sdk, registered, waits, modelQ)

-----------------------------------------------------------------------------
(* Messages *)

\* What each message to the GUI thread carries.
LEMMA NewsParts ==
  /\ \A m \in News :
       /\ m.kind \in {"firstCallStarted", "lastCallEnded", "callCreated", "state", "reset"}
       /\ m.kind = "callCreated" => m.core \in Cores
       /\ m.kind = "state" => m.core \in Cores /\ m.state \in States
       /\ m.kind = "reset" => /\ m.calls \in Seq(Cores) /\ m.current \in Cores \union {NoCore}
                              /\ m.states \in [Calls -> States]
  /\ \A what \in {"firstCallStarted", "lastCallEnded"} : [kind |-> what] \in News
  /\ \A k \in Cores : [kind |-> "callCreated", core |-> k] \in News
  /\ \A k \in Cores, s \in States : StateNews(k, s) \in News
  /\ \A l \in Seq(Cores), k \in Cores \union {NoCore}, s \in [Calls -> States] :
       [kind |-> "reset", calls |-> l, states |-> s, current |-> k] \in News
<1>1. \A m \in News :
        \/ m \in [kind : {"firstCallStarted", "lastCallEnded"}]
        \/ m \in [kind : {"callCreated"}, core : Cores]
        \/ m \in [kind : {"state"}, core : Cores, state : States]
        \/ m \in [kind : {"reset"}, calls : Seq(Cores), current : Cores \union {NoCore},
                  states : [Calls -> States]]
  BY DEF News
<1>2. ASSUME NEW m \in News
      PROVE  /\ m.kind \in {"firstCallStarted", "lastCallEnded", "callCreated", "state", "reset"}
             /\ m.kind = "callCreated" => m.core \in Cores
             /\ m.kind = "state" => m.core \in Cores /\ m.state \in States
             /\ m.kind = "reset" => /\ m.calls \in Seq(Cores) /\ m.current \in Cores \union {NoCore}
                                    /\ m.states \in [Calls -> States]
  <2>1. CASE m \in [kind : {"firstCallStarted", "lastCallEnded"}]
    BY <2>1
  <2>2. CASE m \in [kind : {"callCreated"}, core : Cores]
    BY <2>2
  <2>3. CASE m \in [kind : {"state"}, core : Cores, state : States]
    BY <2>3
  <2>4. CASE m \in [kind : {"reset"}, calls : Seq(Cores), current : Cores \union {NoCore},
                    states : [Calls -> States]]
    BY <2>4
  <2>5. QED
    BY <1>1, <2>1, <2>2, <2>3, <2>4
<1>3. QED
  BY <1>2 DEF News, StateNews

\* What each closure for the linphone thread carries.
LEMMA WorkParts ==
  /\ \A m \in Work :
       /\ m.kind \in {"update", "dial", "accept", "hold", "resume", "terminate"}
       /\ m.kind # "update" => m.call \in Calls
  /\ [kind |-> "update"] \in Work
  /\ \A what \in {"dial", "accept", "hold", "resume", "terminate"}, c \in Calls :
       [kind |-> what, call |-> c] \in Work
BY DEF Work

\* What a message of a core's state says.
LEMMA StateParts ==
  ASSUME NEW k, NEW s
  PROVE  /\ StateNews(k, s).kind = "state" /\ StateNews(k, s).core = k
         /\ StateNews(k, s).state = s
BY DEF StateNews

\* What messages bring.
LEMMA BringsParts ==
  ASSUME NEW m \in News
  PROVE  /\ m.kind = "reset" => Brings(m) = Range(m.calls)
         /\ m.kind = "callCreated" => Brings(m) = {m.core}
         /\ m.kind \notin {"reset", "callCreated"} => Brings(m) = {}
         /\ Brings(m) \subseteq Cores
<1>1. CASE m.kind = "reset"
  <2>1. m.calls \in Seq(Cores)
    BY <1>1, NewsParts
  <2>2. Range(m.calls) \subseteq Cores
    BY <2>1 DEF Range
  <2>3. QED
    BY <1>1, <2>2 DEF Brings
<1>2. CASE m.kind = "callCreated"
  BY <1>2, NewsParts DEF Brings
<1>3. CASE m.kind \notin {"reset", "callCreated"}
  BY <1>3 DEF Brings
<1>4. QED
  BY <1>1, <1>2, <1>3

-----------------------------------------------------------------------------
(* Queues that grow *)

\* A queue that only grew.
Extends(q, r) == Len(q) <= Len(r) /\ \A i \in DOMAIN q : r[i] = q[i]

\* The places of a queue that has grown, and what they bring.
Grows(l, q, r) ==
  /\ Len(q) \in Nat /\ Len(r) \in Nat /\ DOMAIN q = 1 .. Len(q) /\ DOMAIN r = 1 .. Len(r)
  /\ \A i \in DOMAIN q : i \in DOMAIN r /\ r[i] = q[i]
  /\ \A i \in Places(q) : i \in Places(r) /\ Brought(l, r, i) = Brought(l, q, i)
  /\ \A i \in DOMAIN r : i \in DOMAIN q \/ i > Len(q)
  /\ \A i \in Places(r) :
       i \in Places(q) \/ (i \in DOMAIN r /\ i > Len(q) /\ Brought(l, r, i) = Brings(r[i]))
  /\ \A i \in Places(q), j \in DOMAIN r : j > Len(q) => j > i

\* A queue that extends another grows.
LEMMA GrownPlaces ==
  ASSUME NEW q \in Seq(News), NEW r \in Seq(News), Extends(q, r), NEW l
  PROVE  Grows(l, q, r)
<1>1. /\ Len(q) \in Nat /\ Len(r) \in Nat /\ DOMAIN q = 1 .. Len(q) /\ DOMAIN r = 1 .. Len(r)
      /\ Len(q) <= Len(r) /\ \A i \in DOMAIN q : r[i] = q[i]
  BY DEF Extends
<1>2. DOMAIN q \subseteq DOMAIN r /\ Places(q) \subseteq Places(r)
  BY <1>1 DEF Places
<1>3. ASSUME NEW i \in Places(q) PROVE Brought(l, r, i) = Brought(l, q, i)
  <2>1. i = 0 \/ i \in DOMAIN q
    BY <1>1 DEF Places
  <2>2. QED
    BY <1>1, <2>1 DEF Brought
<1>4. \A i \in DOMAIN r : i \in DOMAIN q \/ i > Len(q)
  BY <1>1
<1>5. ASSUME NEW i \in Places(r), i \notin Places(q)
      PROVE  i \in DOMAIN r /\ i > Len(q) /\ Brought(l, r, i) = Brings(r[i])
  BY <1>1, <1>5 DEF Places, Brought
<1>6. \A i \in Places(q), j \in DOMAIN r : j > Len(q) => j > i
  BY <1>1 DEF Places
<1>7. QED
  BY <1>1, <1>2, <1>3, <1>4, <1>5, <1>6 DEF Grows

\* Messages that bring nothing leave what the queue brings.
LEMMA NothingBrought ==
  ASSUME NEW q \in Seq(News), NEW r \in Seq(News), Extends(q, r), NEW l, NEW cs, NEW n, NEW m,
         \A i \in DOMAIN r : i > Len(q) => r[i].kind \notin {"reset", "callCreated"},
         BroughtAreThere(l, cs, q), BroughtOnce(l, q), CreatedAreNew(l, q), SnapshotsAreSound(q),
         NewestStands(n, cs, l, q), Range(m) \subseteq Range(n)
  PROVE  /\ BroughtAreThere(l, cs, r) /\ BroughtOnce(l, r) /\ CreatedAreNew(l, r)
         /\ SnapshotsAreSound(r) /\ NewestStands(m, cs, l, r)
<1>g. Grows(l, q, r)
  BY GrownPlaces
<1>1. /\ \A i \in Places(q) : i \in Places(r) /\ Brought(l, r, i) = Brought(l, q, i)
      /\ \A i \in DOMAIN q : i \in DOMAIN r /\ r[i] = q[i]
      /\ \A i \in DOMAIN r : i \in DOMAIN q \/ i > Len(q)
  BY <1>g DEF Grows
<1>k. \A i \in DOMAIN r : r[i].kind \in {"reset", "callCreated"} => i \in DOMAIN q
  BY <1>1
<1>2. \A i \in Places(r) : i \in Places(q) \/ Brought(l, r, i) = {}
  <2>1. SUFFICES ASSUME NEW i \in DOMAIN r, i > Len(q) PROVE Brings(r[i]) = {}
    BY <1>g DEF Grows
  <2>2. r[i] \in News
    OBVIOUS
  <2>3. QED
    BY <2>1, <2>2, BringsParts
<1>3. BroughtAreThere(l, cs, r)
  BY <1>1, <1>2 DEF BroughtAreThere
<1>4. BroughtOnce(l, r)
  BY <1>1, <1>2 DEF BroughtOnce
<1>5. CreatedAreNew(l, r)
  BY <1>1, <1>2, <1>k DEF CreatedAreNew
<1>6. SnapshotsAreSound(r)
  BY <1>1, <1>k DEF SnapshotsAreSound
<1>7. NewestStands(m, cs, l, r)
  <2>1. SUFFICES ASSUME NEW c \in Range(m)
                 PROVE  \E i \in Places(r) : \E k \in Brought(l, r, i) :
                          /\ k.call = c /\ \A j \in DOMAIN r : j > i => r[j].kind # "reset"
                          /\ \A o \in cs : o.call = c => o.gen <= k.gen
    BY DEF NewestStands
  <2>2. PICK i \in Places(q) : \E k \in Brought(l, q, i) :
          /\ k.call = c /\ \A j \in DOMAIN q : j > i => q[j].kind # "reset"
          /\ \A o \in cs : o.call = c => o.gen <= k.gen
    BY <2>1 DEF NewestStands
  <2>3. \A j \in DOMAIN r : j > i => r[j].kind # "reset"
    BY <1>1, <1>k, <2>2
  <2>4. QED
    BY <1>1, <2>2, <2>3
<1>8. QED
  BY <1>3, <1>4, <1>5, <1>6, <1>7

-----------------------------------------------------------------------------
(* What the SDK does, told to the GUI thread *)

\* What made a call current does so when the queue has grown.
LEMMA MakesGrown ==
  ASSUME NEW q, NEW r, NEW l, NEW cur, Grows(l, q, r), NEW i \in Places(q), NEW d,
         MakesCurrent(l, cur, q, i, d)
  PROVE  MakesCurrent(l, cur, r, i, d)
<1>1. CASE i = 0
  BY <1>1 DEF MakesCurrent
<1>2. CASE i # 0
  <2>1. i \in DOMAIN q /\ r[i] = q[i] /\ i <= Len(q)
    BY <1>2 DEF Grows, Places
  <2>2. HeardInList(l, q, i) => HeardInList(l, r, i)
    <3>1. SUFFICES ASSUME HeardInList(l, q, i) PROVE HeardInList(l, r, i)
      OBVIOUS
    <3>2. PICK p \in Places(q) :
            /\ p < i /\ q[i].core \in Brought(l, q, p)
            /\ \A j \in DOMAIN q : p < j /\ j < i => q[j].kind # "reset"
      BY <3>1 DEF HeardInList
    <3>3. p \in Places(r) /\ r[i].core \in Brought(l, r, p)
      BY <2>1, <3>2 DEF Grows
    <3>4. \A j \in DOMAIN r : j < i => j \in DOMAIN q /\ r[j] = q[j]
      BY <2>1 DEF Grows
    <3>5. QED
      BY <3>2, <3>3, <3>4 DEF HeardInList
  <2>3. QED
    BY <1>2, <2>1, <2>2 DEF MakesCurrent
<1>3. QED
  BY <1>1, <1>2

\* The messages that Notify adds: one for each core of the call, the newest last.
Heard(cs, q, r, c, s) ==
  /\ Extends(q, r)
  /\ \A i \in DOMAIN r : i > Len(q) => \E k \in cs : k.call = c /\ r[i] = StateNews(k, s)
  /\ \A k \in cs : k.call = c => \E i \in DOMAIN r : i > Len(q) /\ r[i] = StateNews(k, s)
  /\ \A i, j \in DOMAIN r : i > Len(q) /\ i < j => r[i].core.gen < r[j].core.gen

\* A call that changes state, and whose cores are told, leaves all told.
LEMMA StateIsTold ==
  ASSUME NEW s \in [Calls -> States], NEW n, NEW m, NEW cs \in SUBSET Cores, NEW g, NEW l, NEW cur,
         NEW q \in Seq(News), NEW r \in Seq(News), NEW c \in Calls, NEW st \in States,
         Told(s, n, cs, g, l, cur, q), LiveAreGiven([s EXCEPT ![c] = st], m), Range(m) \subseteq Range(n),
         Heard(cs, q, r, c, st), s[c] \notin {"Idle", "Released"}, st # "Idle",
         TakesTheLine(StateNews(NoCore, st)) => \A d \in Calls \ {c} : s[d] # "StreamsRunning"
  PROVE  Told([s EXCEPT ![c] = st], m, cs, g, l, cur, r)
<1> DEFINE t == [s EXCEPT ![c] = st]
<1>p. /\ CoresAreOfCalls(s, cs, g)
      /\ BroughtAreThere(l, cs, q) /\ BroughtOnce(l, q)
      /\ ReleasedWillLeave(s, l, q) /\ ReleasedStayOut(s, q)
      /\ CreatedAreNew(l, q) /\ SnapshotsAreSound(q)
      /\ NewestStands(n, cs, l, q) /\ RunningWillShow(s, l, cur, q)
  BY DEF Told
<1>t. t[c] = st /\ \A d \in Calls \ {c} : t[d] = s[d]
  OBVIOUS
<1>h. /\ Extends(q, r)
      /\ \A i \in DOMAIN r : i > Len(q) =>
           /\ r[i].kind = "state" /\ r[i].state = st
           /\ r[i].core \in cs /\ r[i].core.call = c
      /\ \A k \in cs : k.call = c => \E i \in DOMAIN r : i > Len(q) /\ r[i] = StateNews(k, st)
      /\ \A i, j \in DOMAIN r : i > Len(q) /\ i < j => r[i].core.gen < r[j].core.gen
  BY StateParts DEF Heard
<1>f. Grows(l, q, r)
  BY <1>h, GrownPlaces
<1>g. /\ \A i \in Places(q) : i \in Places(r) /\ Brought(l, r, i) = Brought(l, q, i)
      /\ \A i \in DOMAIN q : i \in DOMAIN r /\ r[i] = q[i]
      /\ \A i \in DOMAIN r : i \in DOMAIN q \/ i > Len(q)
      /\ \A i \in Places(q), j \in DOMAIN r : j > Len(q) => j > i
  BY <1>f DEF Grows
<1>k. \A k \in cs : k.call \in Calls
  BY DEF Cores
<1>n. \A i \in DOMAIN r : i > Len(q) => Brings(r[i]) = {}
  <2>1. \A i \in DOMAIN r : r[i] \in News
    OBVIOUS
  <2>2. QED
    BY <1>h, <2>1, BringsParts
<1>b. \A i \in Places(r) : i \in Places(q) \/ Brought(l, r, i) = {}
  BY <1>f, <1>n DEF Grows
<1> HIDE DEF t
<1>1. CoresAreOfCalls(t, cs, g)
  BY <1>p, <1>t, <1>k DEF CoresAreOfCalls
<1>2. /\ BroughtAreThere(l, cs, r) /\ BroughtOnce(l, r) /\ CreatedAreNew(l, r)
      /\ SnapshotsAreSound(r) /\ NewestStands(m, cs, l, r)
  BY <1>p, <1>h, NothingBrought
<1>3. ReleasedWillLeave(t, l, r)
  <2>1. SUFFICES ASSUME NEW i \in Places(q), NEW k \in Brought(l, q, i), t[k.call] = "Released"
                 PROVE  \E j \in DOMAIN r : j > i /\ r[j] = StateNews(k, "Released")
    BY <1>g, <1>b DEF ReleasedWillLeave
  <2>2. k \in cs
    BY <1>p, <2>1 DEF BroughtAreThere
  <2>3. CASE k.call = c
    <3>1. PICK j \in DOMAIN r : j > Len(q) /\ r[j] = StateNews(k, st)
      BY <1>h, <2>2, <2>3
    <3>2. QED
      BY <1>g, <1>t, <2>1, <2>3, <3>1
  <2>4. CASE k.call # c
    <3>1. s[k.call] = "Released"
      BY <1>t, <1>k, <2>1, <2>2, <2>4
    <3>2. PICK j \in DOMAIN q : j > i /\ q[j] = StateNews(k, "Released")
      BY <1>p, <2>1, <3>1 DEF ReleasedWillLeave
    <3>3. QED
      BY <1>g, <3>2
  <2>5. QED
    BY <2>3, <2>4
<1>4. ReleasedStayOut(t, r)
  <2>1. SUFFICES ASSUME NEW i \in DOMAIN r, TellsRelease(r[i])
                 PROVE  /\ t[r[i].core.call] = "Released"
                        /\ \A j \in DOMAIN r : j > i => \A k \in Brings(r[j]) : k.call # r[i].core.call
    BY DEF ReleasedStayOut
  <2>2. CASE i \in DOMAIN q
    <3>1. q[i].core.call \in Calls /\ r[i] = q[i]
      <4>1. q[i] \in News /\ r[i] = q[i]
        BY <1>g, <2>2
      <4>2. q[i].core \in Cores
        BY <2>1, <4>1, NewsParts DEF TellsRelease
      <4>3. QED
        BY <4>1, <4>2 DEF Cores
    <3>2. /\ s[q[i].core.call] = "Released"
          /\ \A j \in DOMAIN q : j > i => \A k \in Brings(q[j]) : k.call # q[i].core.call
      BY <1>p, <2>1, <2>2, <3>1 DEF ReleasedStayOut
    <3>3. q[i].core.call # c
      BY <3>2
    <3>4. QED
      BY <1>t, <1>g, <1>n, <3>1, <3>2, <3>3
  <2>3. CASE i > Len(q)
    <3>1. t[r[i].core.call] = "Released"
      BY <1>h, <1>t, <2>1, <2>3 DEF TellsRelease
    <3>2. \A j \in DOMAIN r : j > i => j > Len(q)
      BY <1>f, <2>3 DEF Grows
    <3>3. QED
      BY <1>n, <3>1, <3>2
  <2>4. QED
    BY <1>g, <2>2, <2>3
<1>5. RunningWillShow(t, l, cur, r)
  <2>1. SUFFICES ASSUME NEW d \in Calls, t[d] = "StreamsRunning"
                 PROVE  \E i \in Places(r) :
                          /\ MakesCurrent(l, cur, r, i, d)
                          /\ \A j \in DOMAIN r : j > i => ~Disturbs(r[j], d)
    BY DEF RunningWillShow
  <2>2. CASE d = c
    <3>1. st = "StreamsRunning" /\ TakesTheLine(StateNews(NoCore, st))
      BY <1>t, <2>1, <2>2, StateParts DEF TakesTheLine
    <3>2. c \in Range(n)
      <4>1. c \in Range(m)
        BY <1>t, <3>1 DEF LiveAreGiven, Live, t
      <4>2. QED
        BY <4>1
    <3>a. PICK p \in Places(q) : \E k \in Brought(l, q, p) :
            /\ k.call = c /\ \A j \in DOMAIN q : j > p => q[j].kind # "reset"
            /\ \A o \in cs : o.call = c => o.gen <= k.gen
      BY <1>p, <3>2 DEF NewestStands
    <3>3. PICK k \in Brought(l, q, p) :
            /\ k.call = c /\ \A j \in DOMAIN q : j > p => q[j].kind # "reset"
            /\ \A o \in cs : o.call = c => o.gen <= k.gen
      BY <3>a
    <3>4. k \in cs
      BY <1>p, <3>3 DEF BroughtAreThere
    <3>5. PICK i \in DOMAIN r : i > Len(q) /\ r[i] = StateNews(k, st)
      BY <1>h, <3>3, <3>4
    <3>6. MakesCurrent(l, cur, r, i, d)
      <4>1. TakesTheLine(r[i]) /\ r[i].core = k /\ r[i].core.call = c
        BY <3>1, <3>3, <3>5, StateParts DEF TakesTheLine
      <4>2. p \in Places(r) /\ p < i /\ k \in Brought(l, r, p)
        BY <1>g, <3>3, <3>5
      <4>3. \A j \in DOMAIN r : p < j /\ j < i => r[j].kind # "reset"
        BY <1>g, <1>h, <3>3
      <4>4. HeardInList(l, r, i)
        BY <4>1, <4>2, <4>3 DEF HeardInList
      <4>5. i # 0
        BY <1>f, <3>5 DEF Grows
      <4>6. QED
        BY <2>2, <4>1, <4>4, <4>5 DEF MakesCurrent
    <3>7. \A j \in DOMAIN r : ~(j > i)
      <4>1. SUFFICES ASSUME NEW j \in DOMAIN r, j > i PROVE FALSE
        OBVIOUS
      <4>2. j > Len(q)
        BY <1>f, <3>5, <4>1 DEF Grows
      <4>3. r[j].core \in cs /\ r[j].core.call = c /\ r[j].core.gen <= k.gen
        BY <1>h, <3>3, <4>2
      <4>4. k.gen < r[j].core.gen
        BY <1>h, <3>5, <4>1, StateParts
      <4>5. k.gen \in Nat /\ r[j].core.gen \in Nat
        BY <3>4, <4>3 DEF Cores
      <4>6. QED
        BY <4>3, <4>4, <4>5
    <3>8. i \in Places(r)
      BY <1>f DEF Grows, Places
    <3>9. QED
      BY <3>6, <3>7, <3>8
  <2>3. CASE d # c
    <3>1. s[d] = "StreamsRunning" /\ ~TakesTheLine(StateNews(NoCore, st))
      BY <1>t, <2>1, <2>3
    <3>2. PICK i \in Places(q) : /\ MakesCurrent(l, cur, q, i, d)
                                 /\ \A j \in DOMAIN q : j > i => ~Disturbs(q[j], d)
      BY <1>p, <3>1 DEF RunningWillShow
    <3>3. \A j \in DOMAIN r : j > Len(q) => ~Disturbs(r[j], d)
      BY <1>h, <3>1, StateParts DEF Disturbs, TakesTheLine
    <3>4. \A j \in DOMAIN r : j > i => ~Disturbs(r[j], d)
      BY <1>g, <3>2, <3>3
    <3>5. MakesCurrent(l, cur, r, i, d)
      BY <1>f, <3>2, MakesGrown
    <3>6. QED
      BY <1>g, <3>4, <3>5
  <2>4. QED
    BY <2>2, <2>3
<1>6. QED
  BY <1>1, <1>2, <1>3, <1>4, <1>5 DEF Told, t

\* A queue with one more message extends it.
LEMMA OneMore ==
  ASSUME NEW q \in Seq(News), NEW m \in News, NEW l
  PROVE  /\ Append(q, m) \in Seq(News) /\ Extends(q, Append(q, m)) /\ Grows(l, q, Append(q, m))
         /\ Len(q) + 1 \in DOMAIN Append(q, m) /\ Append(q, m)[Len(q) + 1] = m /\ Len(q) + 1 # 0
         /\ Len(q) + 1 \in Places(Append(q, m)) /\ Brought(l, Append(q, m), Len(q) + 1) = Brings(m)
         /\ \A i \in DOMAIN Append(q, m) : i \in DOMAIN q \/ i = Len(q) + 1
         /\ \A i \in Places(Append(q, m)) : i \in Places(q) \/ i = Len(q) + 1
         /\ \A i \in Places(q) : i < Len(q) + 1
         /\ \A i \in DOMAIN Append(q, m) : ~(i > Len(q) + 1)
         /\ \A i \in DOMAIN q : i < Len(q) + 1
<1> DEFINE r == Append(q, m)
<1>1. /\ r \in Seq(News) /\ DOMAIN q = 1 .. Len(q) /\ DOMAIN r = 1 .. Len(q) + 1
      /\ Len(q) \in Nat /\ Len(r) = Len(q) + 1 /\ r[Len(q) + 1] = m
      /\ \A i \in DOMAIN q : r[i] = q[i]
  BY Appended
<1> HIDE DEF r
<1>2. Extends(q, r)
  BY <1>1 DEF Extends
<1>3. Grows(l, q, r)
  BY <1>1, <1>2, GrownPlaces
<1>4. Len(q) + 1 \in DOMAIN r /\ Len(q) + 1 # 0 /\ Len(q) + 1 \in Places(r)
  BY <1>1 DEF Places
<1>5. Brought(l, r, Len(q) + 1) = Brings(m)
  BY <1>1, <1>4 DEF Brought
<1>6. /\ \A i \in DOMAIN r : i \in DOMAIN q \/ i = Len(q) + 1
      /\ \A i \in DOMAIN r : ~(i > Len(q) + 1)
      /\ \A i \in DOMAIN q : i < Len(q) + 1
  BY <1>1
<1>7. /\ \A i \in Places(r) : i \in Places(q) \/ i = Len(q) + 1
      /\ \A i \in Places(q) : i < Len(q) + 1
  BY <1>1 DEF Places
<1>8. QED
  BY <1>1, <1>2, <1>3, <1>4, <1>5, <1>6, <1>7 DEF r

\* A new call that is announced leaves all told.
LEMMA CreationIsTold ==
  ASSUME NEW s \in [Calls -> States], NEW n, NEW o, NEW cs \in SUBSET Cores, NEW g \in Nat, NEW l,
         NEW cur, NEW q \in Seq(News), NEW c \in Calls, NEW st \in Ringing, NEW k \in Cores,
         k = [call |-> c, gen |-> 0], Told(s, n, cs, g, l, cur, q), s[c] = "Idle",
         Range(o) \subseteq Range(n) \union {c}
  PROVE  Told([s EXCEPT ![c] = st], o, cs \union {k}, g, l, cur,
              Append(q, [kind |-> "callCreated", core |-> k]))
<1> DEFINE t == [s EXCEPT ![c] = st]
           m == [kind |-> "callCreated", core |-> k]
           r == Append(q, m)
           new == Len(q) + 1
<1>m. m \in News /\ m.kind = "callCreated" /\ m.core = k /\ Brings(m) = {k}
  <2>1. m \in News /\ m.kind = "callCreated" /\ m.core = k
    BY NewsParts
  <2>2. QED
    BY <2>1, BringsParts
<1>k. k.call = c /\ k.gen = 0 /\ \A o1 \in cs : o1.call \in Calls
  BY DEF Cores
<1>t. t[c] = st /\ \A d \in Calls \ {c} : t[d] = s[d]
  BY DEF Ringing
<1>s. st # "Released" /\ st # "Idle" /\ st # "StreamsRunning"
  BY DEF Ringing
<1>p. /\ CoresAreOfCalls(s, cs, g)
      /\ BroughtAreThere(l, cs, q) /\ BroughtOnce(l, q)
      /\ ReleasedWillLeave(s, l, q) /\ ReleasedStayOut(s, q)
      /\ CreatedAreNew(l, q) /\ SnapshotsAreSound(q)
      /\ NewestStands(n, cs, l, q) /\ RunningWillShow(s, l, cur, q)
  BY DEF Told
<1> HIDE DEF m
<1>f. /\ r \in Seq(News) /\ Grows(l, q, r)
      /\ new \in DOMAIN r /\ r[new] = m /\ new # 0
      /\ new \in Places(r) /\ Brought(l, r, new) = Brings(m)
      /\ \A i \in DOMAIN r : i \in DOMAIN q \/ i = new
      /\ \A i \in Places(r) : i \in Places(q) \/ i = new
      /\ \A i \in Places(q) : i < new
      /\ \A i \in DOMAIN r : ~(i > new)
      /\ \A i \in DOMAIN q : i < new
  BY <1>m, OneMore
<1> HIDE DEF t, r, new
<1>g. /\ \A i \in Places(q) : i \in Places(r) /\ Brought(l, r, i) = Brought(l, q, i)
      /\ \A i \in DOMAIN q : i \in DOMAIN r /\ r[i] = q[i]
  BY <1>f DEF Grows
<1>c. \A i \in Places(q) : \A o1 \in Brought(l, q, i) : o1 \in cs /\ o1.call # c /\ o1.call \in Calls
  BY <1>p, <1>k DEF BroughtAreThere, CoresAreOfCalls
<1>1. CoresAreOfCalls(t, cs \union {k}, g)
  BY <1>p, <1>t, <1>k, <1>s DEF CoresAreOfCalls
<1>2. BroughtAreThere(l, cs \union {k}, r)
  BY <1>p, <1>m, <1>f, <1>g DEF BroughtAreThere
<1>3. BroughtOnce(l, r)
  <2>1. SUFFICES ASSUME NEW i \in Places(r), NEW j \in Places(r), i < j
                 PROVE  Brought(l, r, i) \cap Brought(l, r, j) = {}
    BY DEF BroughtOnce
  <2>2. i \in Places(q)
    BY <1>f, <2>1 DEF Places, new, Grows
  <2>3. CASE j = new
    BY <1>m, <1>k, <1>f, <1>g, <1>c, <2>2, <2>3
  <2>4. CASE j \in Places(q)
    BY <1>p, <1>g, <2>1, <2>2, <2>4 DEF BroughtOnce
  <2>5. QED
    BY <1>f, <2>3, <2>4
<1>4. ReleasedWillLeave(t, l, r)
  <2>1. SUFFICES ASSUME NEW i \in Places(r), NEW o1 \in Brought(l, r, i), t[o1.call] = "Released"
                 PROVE  \E j \in DOMAIN r : j > i /\ r[j] = StateNews(o1, "Released")
    BY DEF ReleasedWillLeave
  <2>2. o1.call # c
    BY <1>t, <1>s, <2>1
  <2>3. i \in Places(q)
    BY <1>m, <1>k, <1>f, <2>1, <2>2
  <2>4. PICK j \in DOMAIN q : j > i /\ q[j] = StateNews(o1, "Released")
    BY <1>p, <1>t, <1>g, <1>c, <2>1, <2>2, <2>3 DEF ReleasedWillLeave
  <2>5. QED
    BY <1>g, <2>4
<1>5. ReleasedStayOut(t, r)
  <2>1. SUFFICES ASSUME NEW i \in DOMAIN r, TellsRelease(r[i])
                 PROVE  /\ t[r[i].core.call] = "Released"
                        /\ \A j \in DOMAIN r : j > i => \A o1 \in Brings(r[j]) : o1.call # r[i].core.call
    BY DEF ReleasedStayOut
  <2>2. i \in DOMAIN q
    BY <1>m, <1>f, <2>1 DEF TellsRelease
  <2>3. r[i] = q[i] /\ q[i].core.call \in Calls
    <3>1. q[i] \in News /\ r[i] = q[i]
      BY <1>g, <2>2
    <3>2. q[i].core \in Cores
      BY <2>1, <3>1, NewsParts DEF TellsRelease
    <3>3. QED
      BY <3>1, <3>2 DEF Cores
  <2>4. /\ s[q[i].core.call] = "Released"
        /\ \A j \in DOMAIN q : j > i => \A o1 \in Brings(q[j]) : o1.call # q[i].core.call
    BY <1>p, <2>1, <2>2, <2>3 DEF ReleasedStayOut
  <2>5. q[i].core.call # c
    BY <2>4
  <2>6. QED
    BY <1>m, <1>k, <1>t, <1>f, <1>g, <2>3, <2>4, <2>5
<1>6. CreatedAreNew(l, r)
  <2>1. SUFFICES ASSUME NEW i \in Places(r), NEW j \in DOMAIN r, i < j, r[j].kind = "callCreated"
                 PROVE  \A o1 \in Brought(l, r, i) : o1.call # r[j].core.call
    BY DEF CreatedAreNew
  <2>2. i \in Places(q)
    BY <1>f, <2>1 DEF Places, new, Grows
  <2>3. CASE j = new
    BY <1>m, <1>k, <1>f, <1>g, <1>c, <2>2, <2>3
  <2>4. CASE j \in DOMAIN q
    BY <1>p, <1>g, <2>1, <2>2, <2>4 DEF CreatedAreNew
  <2>5. QED
    BY <1>f, <2>3, <2>4
<1>7. SnapshotsAreSound(r)
  BY <1>p, <1>m, <1>f, <1>g DEF SnapshotsAreSound
<1>8. NewestStands(o, cs \union {k}, l, r)
  <2>1. SUFFICES ASSUME NEW d \in Range(n) \union {c}
                 PROVE  \E i \in Places(r) : \E o1 \in Brought(l, r, i) :
                          /\ o1.call = d /\ \A j \in DOMAIN r : j > i => r[j].kind # "reset"
                          /\ \A o2 \in cs \union {k} : o2.call = d => o2.gen <= o1.gen
    BY DEF NewestStands
  <2>2. CASE d = c
    <3>1. \A o2 \in cs \union {k} : o2.call = c => o2 = k
      BY <1>p DEF CoresAreOfCalls
    <3>2. k.gen <= k.gen
      BY <1>k
    <3>3. QED
      BY <1>m, <1>k, <1>f, <2>2, <3>1, <3>2
  <2>3. CASE d # c
    <3>1. PICK i \in Places(q) : \E o1 \in Brought(l, q, i) :
                          /\ o1.call = d /\ \A j \in DOMAIN q : j > i => q[j].kind # "reset"
                          /\ \A o2 \in cs : o2.call = d => o2.gen <= o1.gen
      BY <1>p, <2>1, <2>3 DEF NewestStands
    <3>2. \A j \in DOMAIN r : j > i => r[j].kind # "reset"
      BY <1>m, <1>f, <1>g, <3>1
    <3>3. QED
      BY <1>k, <1>g, <2>3, <3>1, <3>2
  <2>4. QED
    BY <2>2, <2>3
<1>9. RunningWillShow(t, l, cur, r)
  <2>1. SUFFICES ASSUME NEW d \in Calls, t[d] = "StreamsRunning"
                 PROVE  \E i \in Places(r) :
                          /\ MakesCurrent(l, cur, r, i, d)
                          /\ \A j \in DOMAIN r : j > i => ~Disturbs(r[j], d)
    BY DEF RunningWillShow
  <2>2. s[d] = "StreamsRunning"
    BY <1>t, <1>s, <2>1
  <2>3. PICK i \in Places(q) : /\ MakesCurrent(l, cur, q, i, d)
                               /\ \A j \in DOMAIN q : j > i => ~Disturbs(q[j], d)
    BY <1>p, <2>2 DEF RunningWillShow
  <2>4. MakesCurrent(l, cur, r, i, d)
    BY <1>f, <2>3, MakesGrown
  <2>5. ~Disturbs(m, d)
    BY <1>m DEF Disturbs, TakesTheLine
  <2>6. QED
    BY <1>f, <1>g, <2>3, <2>4, <2>5
<1>10. QED
  BY <1>1, <1>2, <1>3, <1>4, <1>5, <1>6, <1>7, <1>8, <1>9 DEF Told, t, r, m

\* The first call and the end of the last, told.
LEMMA FirstAndLastAreTold ==
  ASSUME NEW s, NEW n, NEW cs, NEW g, NEW l, NEW cur, NEW q \in Seq(News), NEW m \in News,
         Told(s, n, cs, g, l, cur, q),
         \/ m.kind = "firstCallStarted"
         \/ m.kind = "lastCallEnded" /\ \A d \in Calls : s[d] # "StreamsRunning"
  PROVE  Told(s, n, cs, g, l, cur, Append(q, m))
<1> DEFINE r == Append(q, m)
           new == Len(q) + 1
<1>p. /\ CoresAreOfCalls(s, cs, g)
      /\ BroughtAreThere(l, cs, q) /\ BroughtOnce(l, q)
      /\ ReleasedWillLeave(s, l, q) /\ ReleasedStayOut(s, q)
      /\ CreatedAreNew(l, q) /\ SnapshotsAreSound(q)
      /\ NewestStands(n, cs, l, q) /\ RunningWillShow(s, l, cur, q)
  BY DEF Told
<1>f. /\ r \in Seq(News) /\ Grows(l, q, r) /\ Extends(q, r)
      /\ r[new] = m /\ Brought(l, r, new) = Brings(m)
      /\ \A i \in DOMAIN r : i \in DOMAIN q \/ i = new
      /\ \A i \in Places(r) : i \in Places(q) \/ i = new
  BY OneMore
<1>m. Brings(m) = {} /\ m.kind \in {"firstCallStarted", "lastCallEnded"}
  BY BringsParts
<1> HIDE DEF r
<1>g. /\ \A i \in Places(q) : i \in Places(r) /\ Brought(l, r, i) = Brought(l, q, i)
      /\ \A i \in DOMAIN q : i \in DOMAIN r /\ r[i] = q[i]
      /\ \A i \in DOMAIN r : i > Len(q) => i = new
  BY <1>f DEF Grows
<1> HIDE DEF new
<1>1. /\ BroughtAreThere(l, cs, r) /\ BroughtOnce(l, r) /\ CreatedAreNew(l, r)
      /\ SnapshotsAreSound(r) /\ NewestStands(n, cs, l, r)
  <2>1. \A i \in DOMAIN r : i > Len(q) => r[i].kind \notin {"reset", "callCreated"}
    BY <1>m, <1>f, <1>g
  <2>2. QED
    BY <1>p, <1>f, <2>1, NothingBrought
<1>2. ReleasedWillLeave(s, l, r)
  BY <1>p, <1>m, <1>f, <1>g DEF ReleasedWillLeave
<1>3. ReleasedStayOut(s, r)
  BY <1>p, <1>m, <1>f, <1>g DEF ReleasedStayOut, TellsRelease
<1>4. RunningWillShow(s, l, cur, r)
  <2>1. SUFFICES ASSUME NEW d \in Calls, s[d] = "StreamsRunning"
                 PROVE  \E i \in Places(r) :
                          /\ MakesCurrent(l, cur, r, i, d)
                          /\ \A j \in DOMAIN r : j > i => ~Disturbs(r[j], d)
    BY DEF RunningWillShow
  <2>3. PICK i \in Places(q) : /\ MakesCurrent(l, cur, q, i, d)
                               /\ \A j \in DOMAIN q : j > i => ~Disturbs(q[j], d)
    BY <1>p, <2>1 DEF RunningWillShow
  <2>4. MakesCurrent(l, cur, r, i, d)
    BY <1>f, <2>3, MakesGrown
  <2>5. ~Disturbs(m, d)
    BY <1>m, <2>1 DEF Disturbs, TakesTheLine
  <2>6. QED
    BY <1>f, <1>g, <2>3, <2>4, <2>5
<1>5. QED
  BY <1>p, <1>1, <1>2, <1>3, <1>4 DEF Told, r

\* The cores of a snapshot.
Fresh(n, g) == [i \in DOMAIN n |-> [call |-> n[i], gen |-> g]]

\* A snapshot has one core for each call that goes on.
LEMMA FreshCores ==
  ASSUME NEW n \in Seq(Calls), NEW g \in Nat
  PROVE  /\ Fresh(n, g) \in Seq(Cores) /\ Range(Fresh(n, g)) \subseteq Cores
         /\ DOMAIN Fresh(n, g) = DOMAIN n /\ \A i \in DOMAIN n : Fresh(n, g)[i].call = n[i]
         /\ \A k \in Range(Fresh(n, g)) : k.call \in Range(n) /\ k.gen = g
         /\ \A c \in Range(n) : [call |-> c, gen |-> g] \in Range(Fresh(n, g))
         /\ Fresh(n, g) = <<>> <=> n = <<>>
<1>1. \A i \in DOMAIN n : [call |-> n[i], gen |-> g] \in Cores
  BY DEF Cores
<1>2. Fresh(n, g) \in Seq(Cores) /\ Len(Fresh(n, g)) = Len(n)
  BY <1>1 DEF Fresh
<1>3. /\ DOMAIN Fresh(n, g) = DOMAIN n
      /\ \A i \in DOMAIN n : Fresh(n, g)[i] = [call |-> n[i], gen |-> g]
  BY DEF Fresh
<1>4. /\ \A k \in Range(Fresh(n, g)) : k.call \in Range(n) /\ k.gen = g
      /\ \A c \in Range(n) : [call |-> c, gen |-> g] \in Range(Fresh(n, g))
  BY <1>3 DEF Range
<1>5. Range(Fresh(n, g)) \subseteq Cores
  BY <1>1, <1>3 DEF Range
<1>6. Fresh(n, g) = <<>> <=> n = <<>>
  BY <1>2
<1>7. QED
  BY <1>2, <1>3, <1>4, <1>5, <1>6

\* A snapshot that is posted leaves all told.
LEMMA SnapshotIsTold ==
  ASSUME NEW s \in [Calls -> States], NEW n \in Seq(Calls), NEW cs \in SUBSET Cores, NEW g \in Nat,
         NEW l, NEW cur, NEW q \in Seq(News), NEW k,
         Told(s, n, cs, g, l, cur, q), LiveAreGiven(s, n),
         k = NoCore \/ k \in Range(Fresh(n, g + 1)),
         \A d \in Calls : s[d] = "StreamsRunning" => Shows(k, d)
  PROVE  Told(s, n, cs \union Range(Fresh(n, g + 1)), g + 1, l, cur,
              Append(q, [kind |-> "reset", calls |-> Fresh(n, g + 1), states |-> s, current |-> k]))
<1> DEFINE fresh == Fresh(n, g + 1)
           m == [kind |-> "reset", calls |-> fresh, states |-> s, current |-> k]
           r == Append(q, m)
           new == Len(q) + 1
<1>n. /\ fresh \in Seq(Cores) /\ Range(fresh) \subseteq Cores
      /\ DOMAIN fresh = DOMAIN n /\ \A i \in DOMAIN n : fresh[i].call = n[i]
      /\ \A o \in Range(fresh) : o.call \in Range(n) /\ o.gen = g + 1
      /\ \A c \in Range(n) : [call |-> c, gen |-> g + 1] \in Range(fresh)
  <2>1. g + 1 \in Nat
    OBVIOUS
  <2>2. QED
    BY <2>1, FreshCores
<1>l. /\ \A i, j \in DOMAIN n : n[i] = n[j] => i = j
      /\ \A c \in Range(n) : c \in Calls /\ s[c] # "Idle" /\ s[c] # "Released"
  <2>1. Range(n) \subseteq Calls
    BY DEF Range
  <2>2. QED
    BY <2>1 DEF LiveAreGiven, Live, Ringing
<1>m. m \in News /\ m.kind = "reset" /\ m.calls = fresh /\ m.current = k /\ Brings(m) = Range(fresh)
  <2>1. k \in Cores \union {NoCore}
    BY <1>n
  <2>2. m \in News
    BY <1>n, <2>1, NewsParts
  <2>3. m.kind = "reset" /\ m.calls = fresh /\ m.current = k
    OBVIOUS
  <2>4. QED
    BY <2>2, <2>3, BringsParts
<1>c. Shows(k, 0) \in BOOLEAN /\ (k = NoCore \/ k \in Range(fresh))
  BY DEF Shows
<1>p. /\ CoresAreOfCalls(s, cs, g)
      /\ BroughtAreThere(l, cs, q) /\ BroughtOnce(l, q)
      /\ ReleasedWillLeave(s, l, q) /\ ReleasedStayOut(s, q)
      /\ CreatedAreNew(l, q) /\ SnapshotsAreSound(q)
      /\ NewestStands(n, cs, l, q) /\ RunningWillShow(s, l, cur, q)
  BY DEF Told
<1> HIDE DEF m, fresh
<1>f. /\ r \in Seq(News) /\ Grows(l, q, r)
      /\ new \in DOMAIN r /\ r[new] = m /\ new # 0
      /\ new \in Places(r) /\ Brought(l, r, new) = Brings(m)
      /\ \A i \in DOMAIN r : i \in DOMAIN q \/ i = new
      /\ \A i \in Places(r) : i \in Places(q) \/ i = new
      /\ \A i \in Places(q) : i < new
      /\ \A i \in DOMAIN r : ~(i > new)
      /\ \A i \in DOMAIN q : i < new
  BY <1>m, OneMore
<1>o. \A i, j \in Places(r) : i < j => i \in Places(q) /\ (j \in Places(q) \/ j = new)
  BY <1>f DEF Places, Grows
<1> HIDE DEF r, new
<1>g. /\ \A i \in Places(q) : i \in Places(r) /\ Brought(l, r, i) = Brought(l, q, i)
      /\ \A i \in DOMAIN q : i \in DOMAIN r /\ r[i] = q[i]
  BY <1>f DEF Grows
<1>k. /\ \A o \in cs : o.gen \in Nat /\ o.gen <= g /\ o.gen < g + 1 /\ o \notin Range(fresh)
      /\ \A o \in cs \union Range(fresh) : o.gen <= g + 1
  <2>1. \A o \in cs : o.gen \in Nat /\ o.gen <= g
    BY <1>p DEF CoresAreOfCalls, Cores
  <2>2. \A o \in cs : o.gen < g + 1 /\ o.gen # g + 1 /\ o.gen <= g + 1
    BY <2>1
  <2>3. g + 1 <= g + 1
    OBVIOUS
  <2>4. QED
    BY <1>n, <2>1, <2>2, <2>3
<1>1. CoresAreOfCalls(s, cs \union Range(fresh), g + 1)
  BY <1>p, <1>n, <1>l, <1>k DEF CoresAreOfCalls
<1>2. BroughtAreThere(l, cs \union Range(fresh), r)
  BY <1>p, <1>m, <1>f, <1>g DEF BroughtAreThere
<1>3. BroughtOnce(l, r)
  <2>1. SUFFICES ASSUME NEW i \in Places(r), NEW j \in Places(r), i < j
                 PROVE  Brought(l, r, i) \cap Brought(l, r, j) = {}
    BY DEF BroughtOnce
  <2>2. i \in Places(q) /\ (j \in Places(q) \/ j = new)
    BY <1>o, <2>1
  <2>3. CASE j = new
    <3>1. Brought(l, r, i) \subseteq cs /\ Brought(l, r, j) = Range(fresh)
      BY <1>p, <1>m, <1>f, <1>g, <2>2, <2>3 DEF BroughtAreThere
    <3>2. QED
      BY <1>k, <3>1
  <2>4. CASE j \in Places(q)
    BY <1>p, <1>g, <2>1, <2>2, <2>4 DEF BroughtOnce
  <2>5. QED
    BY <2>2, <2>3, <2>4
<1>4. ReleasedWillLeave(s, l, r)
  <2>1. SUFFICES ASSUME NEW i \in Places(r), NEW o \in Brought(l, r, i), s[o.call] = "Released"
                 PROVE  \E j \in DOMAIN r : j > i /\ r[j] = StateNews(o, "Released")
    BY DEF ReleasedWillLeave
  <2>2. i \in Places(q)
    BY <1>m, <1>n, <1>l, <1>f, <2>1
  <2>3. PICK j \in DOMAIN q : j > i /\ q[j] = StateNews(o, "Released")
    BY <1>p, <1>g, <2>1, <2>2 DEF ReleasedWillLeave
  <2>4. QED
    BY <1>g, <2>3
<1>5. ReleasedStayOut(s, r)
  <2>1. SUFFICES ASSUME NEW i \in DOMAIN r, TellsRelease(r[i])
                 PROVE  /\ s[r[i].core.call] = "Released"
                        /\ \A j \in DOMAIN r : j > i => \A o \in Brings(r[j]) : o.call # r[i].core.call
    BY DEF ReleasedStayOut
  <2>2. i \in DOMAIN q
    BY <1>m, <1>f, <2>1 DEF TellsRelease
  <2>3. /\ s[q[i].core.call] = "Released" /\ r[i] = q[i]
        /\ \A j \in DOMAIN q : j > i => \A o \in Brings(q[j]) : o.call # q[i].core.call
    BY <1>p, <1>g, <2>1, <2>2 DEF ReleasedStayOut
  <2>4. \A o \in Range(fresh) : o.call # q[i].core.call
    BY <1>n, <1>l, <2>3
  <2>5. QED
    BY <1>m, <1>f, <1>g, <2>3, <2>4
<1>6. CreatedAreNew(l, r)
  <2>1. SUFFICES ASSUME NEW i \in Places(r), NEW j \in DOMAIN r, i < j, r[j].kind = "callCreated"
                 PROVE  \A o \in Brought(l, r, i) : o.call # r[j].core.call
    BY DEF CreatedAreNew
  <2>2. j \in DOMAIN q
    BY <1>m, <1>f, <2>1
  <2>3. i \in Places(q)
    <3>1. j \in Places(r)
      BY <1>f, <2>1 DEF Places, Grows
    <3>2. QED
      BY <1>o, <2>1, <3>1
  <2>4. QED
    BY <1>p, <1>g, <2>1, <2>2, <2>3 DEF CreatedAreNew
<1>7. SnapshotsAreSound(r)
  <2>1. OneEach(m.calls)
    BY <1>m, <1>n, <1>l DEF OneEach
  <2>2. QED
    BY <1>p, <1>m, <1>c, <1>f, <1>g, <2>1 DEF SnapshotsAreSound
<1>8. NewestStands(n, cs \union Range(fresh), l, r)
  <2>1. SUFFICES ASSUME NEW c \in Range(n)
                 PROVE  \E i \in Places(r) : \E o \in Brought(l, r, i) :
                          /\ o.call = c /\ \A j \in DOMAIN r : j > i => r[j].kind # "reset"
                          /\ \A o2 \in cs \union Range(fresh) : o2.call = c => o2.gen <= o.gen
    BY DEF NewestStands
  <2>2. [call |-> c, gen |-> g + 1] \in Brought(l, r, new)
    BY <1>m, <1>n, <1>f
  <2>3. QED
    BY <1>k, <1>f, <2>2
<1>9. RunningWillShow(s, l, cur, r)
  <2>1. SUFFICES ASSUME NEW d \in Calls, s[d] = "StreamsRunning"
                 PROVE  \E i \in Places(r) :
                          /\ MakesCurrent(l, cur, r, i, d)
                          /\ \A j \in DOMAIN r : j > i => ~Disturbs(r[j], d)
    BY DEF RunningWillShow
  <2>2. MakesCurrent(l, cur, r, new, d)
    BY <1>m, <1>f, <2>1 DEF MakesCurrent
  <2>3. QED
    BY <1>f, <2>2
<1>10. QED
  BY <1>1, <1>2, <1>3, <1>4, <1>5, <1>6, <1>7, <1>8, <1>9 DEF Told, r, m, fresh

-----------------------------------------------------------------------------
(* The linphone thread's worlds *)

\* What a turn of the linphone thread works on.
Worlds == [sdk : [Calls -> States], calls : Seq(Calls), cores : SUBSET Cores, guiQ : Seq(News)]

\* What the invariant asks of a world, with the closures mq waiting.
Sound(w, mq) ==
  /\ w \in Worlds
  /\ LiveAreGiven(w.sdk, w.calls) /\ OneHasTheLine(w.sdk)
  /\ Told(w.sdk, w.calls, w.cores, snapshots, list, current, w.guiQ)
  /\ LastWordIsRight(w.calls, haveCall, w.guiQ, mq)

\* Every core of a call hears of its state, once and the oldest first.
LEMMA NoticeIsHeard ==
  ASSUME snapshots \in Nat, NEW w \in Worlds, NEW c \in Calls, NEW st \in States,
         \A k \in w.cores : k.gen <= snapshots
  PROVE  /\ w.guiQ \o Notice(w, c, st) \in Seq(News)
         /\ Heard(w.cores, w.guiQ, w.guiQ \o Notice(w, c, st), c, st)
<1> DEFINE S == {g \in 0 .. snapshots : [call |-> c, gen |-> g] \in w.cores}
           gens == Ascending(S)
           n == Cardinality(S)
           new == [i \in DOMAIN gens |-> StateNews([call |-> c, gen |-> gens[i]], st)]
           q == w.guiQ
           r == q \o new
<1>1. Notice(w, c, st) = new
  BY DEF Notice
<1>2. S \in SUBSET Int /\ IsFiniteSet(S)
  <2>1. 0 \in Int /\ snapshots \in Int
    OBVIOUS
  <2>2. IsFiniteSet(0 .. snapshots)
    BY <2>1, FS_Interval
  <2>3. S \subseteq 0 .. snapshots
    OBVIOUS
  <2>4. IsFiniteSet(S)
    BY <2>2, <2>3, FS_Subset
  <2>5. QED
    BY <2>3, <2>4
<1>3. /\ gens \in [1 .. n -> S] /\ n \in Nat
      /\ \A g \in S : \E i \in 1 .. n : gens[i] = g
      /\ \A i, j \in 1 .. n : i < j <=> gens[i] < gens[j]
  BY <1>2, Sorted
<1>s. \A g \in S : g \in Nat /\ [call |-> c, gen |-> g] \in w.cores
  OBVIOUS
<1>k. \A o \in w.cores : o.call = c => o.gen \in S /\ o = [call |-> c, gen |-> o.gen]
  <2>1. SUFFICES ASSUME NEW o \in w.cores, o.call = c
                 PROVE  o.gen \in S /\ o = [call |-> c, gen |-> o.gen]
    OBVIOUS
  <2>2. o \in Cores
    BY DEF Worlds
  <2>3. o = [call |-> c, gen |-> o.gen] /\ o.gen \in Nat
    BY <2>1, <2>2 DEF Cores
  <2>4. o.gen <= snapshots
    OBVIOUS
  <2>5. QED
    BY <2>3, <2>4
<1> HIDE DEF S, n, gens
<1>4. DOMAIN gens = 1 .. n
  BY <1>3
<1>5. \A i \in 1 .. n : new[i] = StateNews([call |-> c, gen |-> gens[i]], st)
  BY <1>4
<1>6. new \in Seq(News) /\ Len(new) = n /\ DOMAIN new = 1 .. n
  <2>1. \A i \in 1 .. n : new[i] \in News
    <3>1. \A i \in 1 .. n : [call |-> c, gen |-> gens[i]] \in Cores
      BY <1>3, <1>s DEF Cores
    <3>2. \A k \in Cores : StateNews(k, st) \in News
      BY NewsParts
    <3>3. QED
      BY <1>5, <3>1, <3>2
  <2>2. new \in [1 .. n -> News]
    BY <1>4, <2>1
  <2>3. QED
    BY <1>3, <2>2
<1> HIDE DEF new
<1>7. q \in Seq(News)
  BY DEF Worlds
<1>8. /\ r \in Seq(News) /\ Len(r) = Len(q) + n /\ Len(q) \in Nat
      /\ DOMAIN q = 1 .. Len(q) /\ DOMAIN r = 1 .. Len(q) + n
      /\ \A i \in DOMAIN q : r[i] = q[i]
      /\ \A i \in 1 .. n : r[Len(q) + i] = new[i]
  <2>1. /\ r \in Seq(News) /\ Len(r) = Len(q) + Len(new) /\ Len(q) \in Nat
        /\ DOMAIN q = 1 .. Len(q) /\ DOMAIN r = 1 .. Len(q) + Len(new)
        /\ \A i \in DOMAIN q : r[i] = q[i]
        /\ \A i \in DOMAIN new : r[Len(q) + i] = new[i]
    <3>1. new \in Seq(News) /\ q \in Seq(News)
      BY <1>6, <1>7
    <3> HIDE DEF q
    <3>2. QED
      BY ONLY <3>1, Joined DEF r
  <2>2. QED
    BY <1>6, <2>1
<1> HIDE DEF q, r
<1>9. \A i \in DOMAIN r : i > Len(q) => i - Len(q) \in 1 .. n /\ i = Len(q) + (i - Len(q))
  BY <1>3, <1>8
<1>10. \A i \in DOMAIN r : i > Len(q) =>
         r[i] = StateNews([call |-> c, gen |-> gens[i - Len(q)]], st)
  BY <1>5, <1>8, <1>9
<1>11. Extends(q, r)
  BY <1>3, <1>8 DEF Extends
<1>12. \A i \in DOMAIN r : i > Len(q) => \E k \in w.cores : k.call = c /\ r[i] = StateNews(k, st)
  <2>1. SUFFICES ASSUME NEW i \in DOMAIN r, i > Len(q)
                 PROVE  \E k \in w.cores : k.call = c /\ r[i] = StateNews(k, st)
    OBVIOUS
  <2>2. [call |-> c, gen |-> gens[i - Len(q)]] \in w.cores
    BY <1>3, <1>s, <1>9, <2>1
  <2>3. QED
    BY <1>10, <2>1, <2>2
<1>13. \A k \in w.cores : k.call = c => \E i \in DOMAIN r : i > Len(q) /\ r[i] = StateNews(k, st)
  <2>1. SUFFICES ASSUME NEW k \in w.cores, k.call = c
                 PROVE  \E i \in DOMAIN r : i > Len(q) /\ r[i] = StateNews(k, st)
    OBVIOUS
  <2>2. PICK i \in 1 .. n : gens[i] = k.gen
    BY <1>3, <1>k, <2>1
  <2>3. r[Len(q) + i] = StateNews(k, st)
    BY <1>5, <1>8, <1>k, <2>1, <2>2
  <2>4. Len(q) + i \in DOMAIN r /\ Len(q) + i > Len(q)
    BY <1>3, <1>8
  <2>5. QED
    BY <2>3, <2>4
<1>14. \A i, j \in DOMAIN r : i > Len(q) /\ i < j => r[i].core.gen < r[j].core.gen
  <2>1. SUFFICES ASSUME NEW i \in DOMAIN r, NEW j \in DOMAIN r, i > Len(q), i < j
                 PROVE  r[i].core.gen < r[j].core.gen
    OBVIOUS
  <2>2. j > Len(q) /\ i - Len(q) < j - Len(q)
    BY <1>8, <2>1
  <2>3. gens[i - Len(q)] < gens[j - Len(q)]
    BY <1>3, <1>9, <2>1, <2>2
  <2>4. \A a \in DOMAIN r : a > Len(q) => r[a].core.gen = gens[a - Len(q)]
    <3>1. SUFFICES ASSUME NEW a \in DOMAIN r, a > Len(q) PROVE r[a].core.gen = gens[a - Len(q)]
      OBVIOUS
    <3>2. r[a].core = [call |-> c, gen |-> gens[a - Len(q)]]
      BY <1>10, <3>1 DEF StateNews
    <3>3. QED
      BY <3>2
  <2>5. QED
    BY <2>1, <2>2, <2>3, <2>4
<1>15. Heard(w.cores, q, r, c, st)
  BY <1>11, <1>12, <1>13, <1>14 DEF Heard
<1>16. QED
  BY <1>1, <1>8, <1>15 DEF q, r

\* Messages that say nothing of whether there is a call leave the last word.
LEMMA WordStands ==
  ASSUME NEW q \in Seq(News), NEW r \in Seq(News), Extends(q, r), NEW mq, NEW have, NEW n, NEW m,
         \A i \in DOMAIN r : i > Len(q) => r[i].kind \in {"state", "callCreated"},
         n = <<>> <=> m = <<>>, LastWordIsRight(n, have, q, mq)
  PROVE  LastWordIsRight(m, have, r, mq)
<1>g. Grows(0, q, r)
  BY GrownPlaces
<1>1. /\ \A i \in DOMAIN q : i \in DOMAIN r /\ r[i] = q[i]
      /\ \A i \in DOMAIN r : i \in DOMAIN q \/ i > Len(q)
      /\ \A i \in Places(q) : i \in Places(r)
      /\ \A i \in Places(r) : i \in Places(q) \/ (i \in DOMAIN r /\ i > Len(q))
      /\ \A i \in Places(q) : i = 0 \/ i \in DOMAIN q
      /\ \A i \in DOMAIN q : i # 0
      /\ \A i \in DOMAIN r : i # 0
  BY <1>g DEF Grows, Places
<1>2. SUFFICES ASSUME ~UpdateDue(r, mq), NEW i \in Places(r), i = 0 \/ Says(r[i]),
                      \A j \in DOMAIN r : j > i => ~Says(r[j])
               PROVE  (i = 0 /\ have) \/ (i # 0 /\ SaysCalls(r[i])) <=> m # <<>>
  BY DEF LastWordIsRight
<1>3. ~UpdateDue(q, mq)
  BY <1>1, <1>2 DEF UpdateDue
<1>4. i \in Places(q)
  <2>1. CASE i = 0
    BY <1>g, <2>1 DEF Grows, Places
  <2>2. CASE i # 0
    BY <1>1, <1>2, <2>2 DEF Says
  <2>3. QED
    BY <2>1, <2>2
<1>5. i = 0 \/ r[i] = q[i]
  BY <1>1, <1>4
<1>6. (i = 0 \/ Says(q[i])) /\ \A j \in DOMAIN q : j > i => ~Says(q[j])
  BY <1>1, <1>2, <1>5
<1>7. (i = 0 /\ have) \/ (i # 0 /\ SaysCalls(q[i])) <=> n # <<>>
  BY <1>3, <1>4, <1>6 DEF LastWordIsRight
<1>8. QED
  BY <1>5, <1>7

\* A world in which a call has changed state.
LEMMA Notified ==
  ASSUME snapshots \in Nat, NEW w \in Worlds, NEW c \in Calls, NEW st \in States,
         \A k \in w.cores : k.gen <= snapshots
  PROVE  /\ Notify(w, c, st) \in Worlds
         /\ Notify(w, c, st).sdk = [w.sdk EXCEPT ![c] = st]
         /\ Notify(w, c, st).calls = w.calls /\ Notify(w, c, st).cores = w.cores
         /\ Heard(w.cores, w.guiQ, Notify(w, c, st).guiQ, c, st)
<1> DEFINE r == w.guiQ \o Notice(w, c, st)
<1>1. r \in Seq(News) /\ Heard(w.cores, w.guiQ, r, c, st)
  BY NoticeIsHeard
<1>2. Notify(w, c, st) = [w EXCEPT !.sdk = [w.sdk EXCEPT ![c] = st], !.guiQ = r]
  BY DEF Notify, Worlds
<1> HIDE DEF r
<1>3. /\ w = [sdk |-> w.sdk, calls |-> w.calls, cores |-> w.cores, guiQ |-> w.guiQ]
      /\ w.sdk \in [Calls -> States] /\ w.calls \in Seq(Calls) /\ w.cores \in SUBSET Cores
  BY DEF Worlds
<1>4. Notify(w, c, st) = [sdk |-> [w.sdk EXCEPT ![c] = st], calls |-> w.calls, cores |-> w.cores,
                          guiQ |-> r]
  BY <1>2, <1>3
<1>5. [w.sdk EXCEPT ![c] = st] \in [Calls -> States]
  BY <1>3
<1>6. QED
  BY <1>1, <1>3, <1>4, <1>5 DEF Worlds

\* What a sound world has.
LEMMA SoundParts ==
  ASSUME NEW w, NEW mq, Sound(w, mq)
  PROVE  /\ w \in Worlds
         /\ w.sdk \in [Calls -> States] /\ w.calls \in Seq(Calls) /\ w.cores \in SUBSET Cores
         /\ w.guiQ \in Seq(News)
         /\ LiveAreGiven(w.sdk, w.calls) /\ OneHasTheLine(w.sdk)
         /\ \A k \in w.cores : k.gen <= snapshots
         /\ Told(w.sdk, w.calls, w.cores, snapshots, list, current, w.guiQ)
         /\ LastWordIsRight(w.calls, haveCall, w.guiQ, mq)
BY DEF Sound, Worlds, Told, CoresAreOfCalls

\* The calls not created yet are the same.
SameIdle(w, v) == \A d \in Calls : v.sdk[d] = "Idle" <=> w.sdk[d] = "Idle"

\* Nobody but c has the line.
LineIsFor(s, c) == \A d \in Calls \ {c} : ~HasLine(s, d)

\* What a call's cores are told says nothing of whether there is a call.
LEMMA StateNewsSayNothing ==
  ASSUME NEW cs, NEW q \in Seq(News), NEW r \in Seq(News), NEW c, NEW st, Heard(cs, q, r, c, st),
         NEW mq, NEW have, NEW n, NEW m, n = <<>> <=> m = <<>>, LastWordIsRight(n, have, q, mq)
  PROVE  LastWordIsRight(m, have, r, mq)
<1>1. Extends(q, r) /\ \A i \in DOMAIN r : i > Len(q) => r[i].kind \in {"state", "callCreated"}
  BY StateParts DEF Heard
<1>2. QED
  BY <1>1, WordStands

\* A call that goes on changes its state, or one that has ended is released.
LEMMA StateIsSound ==
  ASSUME snapshots \in Nat, NEW w, NEW mq, Sound(w, mq), NEW c \in Calls, NEW st \in States,
         w.sdk[c] \notin {"Idle", "Released"}, st # "Idle", w.sdk[c] \in Live <=> st \in Live,
         st \in {"StreamsRunning", "Resuming", "OutgoingProgress"} => LineIsFor(w.sdk, c)
  PROVE  /\ Sound(Notify(w, c, st), mq) /\ SameIdle(w, Notify(w, c, st))
         /\ Notify(w, c, st).sdk = [w.sdk EXCEPT ![c] = st]
         /\ Notify(w, c, st).calls = w.calls
<1> DEFINE v == Notify(w, c, st)
           t == [w.sdk EXCEPT ![c] = st]
<1>1. /\ w \in Worlds
      /\ w.sdk \in [Calls -> States] /\ w.calls \in Seq(Calls) /\ w.cores \in SUBSET Cores
      /\ w.guiQ \in Seq(News)
      /\ LiveAreGiven(w.sdk, w.calls) /\ OneHasTheLine(w.sdk)
      /\ \A k \in w.cores : k.gen <= snapshots
      /\ Told(w.sdk, w.calls, w.cores, snapshots, list, current, w.guiQ)
      /\ LastWordIsRight(w.calls, haveCall, w.guiQ, mq)
  BY SoundParts
<1>2. /\ v \in Worlds /\ v.sdk = t /\ v.calls = w.calls /\ v.cores = w.cores
      /\ Heard(w.cores, w.guiQ, v.guiQ, c, st)
  BY <1>1, Notified
<1> HIDE DEF v
<1>3. v.guiQ \in Seq(News)
  BY <1>2 DEF Worlds
<1>t. t[c] = st /\ \A d \in Calls \ {c} : t[d] = w.sdk[d]
  BY <1>1
<1> HIDE DEF t
<1>4. LiveAreGiven(t, w.calls)
  BY <1>1, <1>t DEF LiveAreGiven
<1>5. OneHasTheLine(t)
  BY <1>1, <1>t DEF OneHasTheLine, HasLine, LineIsFor
<1>6. TakesTheLine(StateNews(NoCore, st)) => \A d \in Calls \ {c} : w.sdk[d] # "StreamsRunning"
  <2>1. TakesTheLine(StateNews(NoCore, st)) => st \in {"StreamsRunning", "Resuming", "OutgoingProgress"}
    BY StateParts DEF TakesTheLine
  <2>2. QED
    BY <2>1 DEF LineIsFor, HasLine
<1>7. Told(t, w.calls, w.cores, snapshots, list, current, v.guiQ)
  <2>1. LiveAreGiven([w.sdk EXCEPT ![c] = st], w.calls)
    BY <1>4 DEF t
  <2>2. Told([w.sdk EXCEPT ![c] = st], w.calls, w.cores, snapshots, list, current, v.guiQ)
    BY <1>1, <1>2, <1>3, <1>6, <2>1, StateIsTold
  <2>3. QED
    BY <2>2 DEF t
<1>8. LastWordIsRight(w.calls, haveCall, v.guiQ, mq)
  BY <1>1, <1>2, <1>3, StateNewsSayNothing
<1>9. SameIdle(w, v)
  BY <1>2, <1>t DEF SameIdle
<1>10. Sound(v, mq)
  BY <1>2, <1>4, <1>5, <1>7, <1>8 DEF Sound
<1>11. QED
  BY <1>2, <1>9, <1>10 DEF v, t

\* Whoever has the line is put on hold.
LEMMA TakeLineIsSound ==
  ASSUME snapshots \in Nat, NEW w, NEW mq, Sound(w, mq), NEW c \in Calls
  PROVE  /\ Sound(TakeLine(w, c), mq) /\ SameIdle(w, TakeLine(w, c))
         /\ TakeLine(w, c).sdk[c] = w.sdk[c] /\ LineIsFor(TakeLine(w, c).sdk, c)
         /\ TakeLine(w, c).calls = w.calls
<1> DEFINE busy == {d \in Calls \ {c} : w.sdk[d] \in {"StreamsRunning", "Resuming"}}
<1>1. w.sdk \in [Calls -> States] /\ OneHasTheLine(w.sdk)
  BY SoundParts
<1>2. CASE busy = {}
  <2>1. TakeLine(w, c) = w
    BY <1>2 DEF TakeLine
  <2>2. QED
    BY <1>2, <2>1 DEF SameIdle, LineIsFor, HasLine
<1>3. CASE busy # {}
  <2> DEFINE d == CHOOSE e \in busy : TRUE
  <2>1. d \in busy /\ TakeLine(w, c) = Notify(w, d, "Paused")
    BY <1>3 DEF TakeLine
  <2>2. d \in Calls /\ d # c /\ w.sdk[d] \in {"StreamsRunning", "Resuming"}
    BY <2>1
  <2> HIDE DEF d, busy
  <2>3. "Paused" \in States /\ "Paused" \in Live /\ w.sdk[d] \in Live
    BY <2>2 DEF States, Live
  <2>4. /\ Sound(TakeLine(w, c), mq) /\ SameIdle(w, TakeLine(w, c))
        /\ TakeLine(w, c).sdk = [w.sdk EXCEPT ![d] = "Paused"]
        /\ TakeLine(w, c).calls = w.calls
    BY <2>1, <2>2, <2>3, StateIsSound
  <2>5. LineIsFor(TakeLine(w, c).sdk, c)
    BY <1>1, <2>2, <2>4 DEF LineIsFor, OneHasTheLine, HasLine
  <2>6. QED
    BY <1>1, <2>2, <2>4, <2>5
<1>4. QED
  BY <1>2, <1>3

\* What creating a call makes of a world: k is the core, and q the queue with the
\* announcement.
Creates(w, c, k, q, u) ==
  /\ u \in Worlds /\ k \in Cores /\ q \in Seq(News)
  /\ u.sdk = w.sdk /\ u.cores = w.cores \union {k} /\ u.calls = Append(w.calls, c)
  /\ w.calls = <<>> => u.guiQ = Append(q, [kind |-> "firstCallStarted"])
  /\ w.calls # <<>> => u.guiQ = q

\* Create creates a call.
LEMMA Created ==
  ASSUME NEW w \in Worlds, NEW c \in Calls, NEW k, k = [call |-> c, gen |-> 0],
         NEW q, q = Append(w.guiQ, [kind |-> "callCreated", core |-> k])
  PROVE  Creates(w, c, k, q, Create(w, c))
<1>1. /\ w = [sdk |-> w.sdk, calls |-> w.calls, cores |-> w.cores, guiQ |-> w.guiQ]
      /\ w.sdk \in [Calls -> States] /\ w.calls \in Seq(Calls) /\ w.cores \in SUBSET Cores
      /\ w.guiQ \in Seq(News)
  BY DEF Worlds
<1>2. k \in Cores
  BY DEF Cores
<1>3. [kind |-> "callCreated", core |-> k] \in News /\ [kind |-> "firstCallStarted"] \in News
  BY <1>2, NewsParts
<1>4. q \in Seq(News) /\ Append(q, [kind |-> "firstCallStarted"]) \in Seq(News)
  BY <1>1, <1>3
<1> DEFINE u == [sdk |-> w.sdk, calls |-> Append(w.calls, c), cores |-> w.cores \union {k},
                 guiQ |-> q]
           f == [sdk |-> w.sdk, calls |-> Append(w.calls, c), cores |-> w.cores \union {k},
                 guiQ |-> Append(q, [kind |-> "firstCallStarted"])]
<1>5. /\ w.calls = <<>> => Create(w, c) = f
      /\ w.calls # <<>> => Create(w, c) = u
  BY <1>1 DEF Create, Post
<1>6. Append(w.calls, c) \in Seq(Calls) /\ w.cores \union {k} \in SUBSET Cores
  BY <1>1, <1>2
<1>7. u \in Worlds /\ f \in Worlds
  BY <1>1, <1>4, <1>6 DEF Worlds
<1>8. /\ u.sdk = w.sdk /\ u.cores = w.cores \union {k} /\ u.calls = Append(w.calls, c) /\ u.guiQ = q
      /\ f.sdk = w.sdk /\ f.cores = w.cores \union {k} /\ f.calls = Append(w.calls, c)
      /\ f.guiQ = Append(q, [kind |-> "firstCallStarted"])
  OBVIOUS
<1> HIDE DEF u, f
<1>9. QED
  BY <1>2, <1>4, <1>5, <1>7, <1>8 DEF Creates

\* A call begins: it is announced, and its core hears of its state.
LEMMA BeginIsSound ==
  ASSUME snapshots \in Nat, NEW w, NEW mq, Sound(w, mq), NEW c \in Calls, NEW st \in Ringing,
         w.sdk[c] = "Idle", st = "OutgoingProgress" => LineIsFor(w.sdk, c)
  PROVE  /\ Sound(Notify(Create(w, c), c, st), mq)
         /\ Notify(Create(w, c), c, st).sdk = [w.sdk EXCEPT ![c] = st]
<1> DEFINE u == Create(w, c)
           v == Notify(u, c, st)
           t == [w.sdk EXCEPT ![c] = st]
           k == [call |-> c, gen |-> 0]
           first == [kind |-> "firstCallStarted"]
           q == Append(w.guiQ, [kind |-> "callCreated", core |-> k])
<1>1. /\ w \in Worlds
      /\ w.sdk \in [Calls -> States] /\ w.calls \in Seq(Calls) /\ w.cores \in SUBSET Cores
      /\ w.guiQ \in Seq(News)
      /\ LiveAreGiven(w.sdk, w.calls) /\ OneHasTheLine(w.sdk)
      /\ \A o \in w.cores : o.gen <= snapshots
      /\ Told(w.sdk, w.calls, w.cores, snapshots, list, current, w.guiQ)
      /\ LastWordIsRight(w.calls, haveCall, w.guiQ, mq)
  BY SoundParts
<1>q. k = [call |-> c, gen |-> 0] /\ q = Append(w.guiQ, [kind |-> "callCreated", core |-> k])
  OBVIOUS
<1> HIDE DEF k, q, v, t
<1>2. /\ u \in Worlds /\ k \in Cores /\ q \in Seq(News)
      /\ u.sdk = w.sdk /\ u.cores = w.cores \union {k} /\ u.calls = Append(w.calls, c)
      /\ w.calls = <<>> => u.guiQ = Append(q, first)
      /\ w.calls # <<>> => u.guiQ = q
  <2>1. Creates(w, c, k, q, u)
    BY <1>1, <1>q, Created
  <2>2. QED
    BY <2>1 DEF Creates
<1>3. st \in States /\ st \in Live /\ st # "Idle" /\ st # "Released"
  BY DEF States, Live, Ringing
<1>4. \A o \in u.cores : o.gen <= snapshots
  <2>1. k.gen = 0 /\ 0 <= snapshots
    BY <1>q
  <2>2. QED
    BY <1>1, <1>2, <2>1
<1> HIDE DEF u
<1>5. /\ v \in Worlds /\ v.sdk = t /\ v.calls = u.calls /\ v.cores = u.cores
      /\ Heard(u.cores, u.guiQ, v.guiQ, c, st)
  <2>1. /\ Notify(u, c, st) \in Worlds /\ Notify(u, c, st).sdk = [u.sdk EXCEPT ![c] = st]
        /\ Notify(u, c, st).calls = u.calls /\ Notify(u, c, st).cores = u.cores
        /\ Heard(u.cores, u.guiQ, Notify(u, c, st).guiQ, c, st)
    <3>1. u \in Worlds /\ st \in States
      BY <1>2, <1>3
    <3>2. QED
      BY ONLY snapshots \in Nat, c \in Calls, <3>1, <1>4, Notified
  <2>2. v = Notify(u, c, st)
    BY DEF v
  <2>3. v.sdk = t
    BY <1>2, <2>1, <2>2 DEF t
  <2>4. QED
    BY <2>1, <2>2, <2>3
<1>6. u.guiQ \in Seq(News) /\ v.guiQ \in Seq(News) /\ u.cores \in SUBSET Cores
  BY <1>2, <1>5 DEF Worlds
<1>t. t[c] = st /\ \A d \in Calls \ {c} : t[d] = w.sdk[d]
  BY <1>1 DEF t
<1>7. /\ Range(u.calls) = Range(w.calls) \union {c} /\ u.calls # <<>>
      /\ DOMAIN w.calls = 1 .. Len(w.calls) /\ DOMAIN u.calls = 1 .. Len(w.calls) + 1
      /\ \A i \in DOMAIN w.calls : u.calls[i] = w.calls[i]
      /\ u.calls[Len(w.calls) + 1] = c /\ Len(w.calls) \in Nat
      /\ \A i \in DOMAIN u.calls : i \in DOMAIN w.calls \/ i = Len(w.calls) + 1
  <2>1. /\ DOMAIN w.calls = 1 .. Len(w.calls) /\ DOMAIN u.calls = 1 .. Len(w.calls) + 1
        /\ \A i \in DOMAIN w.calls : u.calls[i] = w.calls[i]
        /\ u.calls[Len(w.calls) + 1] = c /\ Len(w.calls) \in Nat
        /\ Len(u.calls) = Len(w.calls) + 1
    BY <1>1, <1>2, Appended
  <2>2. Range(u.calls) = Range(w.calls) \union {c}
    BY <2>1 DEF Range
  <2>3. QED
    BY <2>1, <2>2
<1>8. LiveAreGiven(t, u.calls)
  <2>1. c \notin Range(w.calls)
    BY <1>1 DEF LiveAreGiven, Live, Ringing
  <2>2. \A i \in DOMAIN w.calls : w.calls[i] # c
    BY <2>1 DEF Range
  <2>3. \A i, j \in DOMAIN u.calls : u.calls[i] = u.calls[j] => i = j
    BY <1>1, <1>7, <2>2 DEF LiveAreGiven
  <2>4. \A d \in Calls : d \in Range(u.calls) <=> t[d] \in Live
    BY <1>1, <1>3, <1>7, <1>t DEF LiveAreGiven
  <2>5. QED
    BY <2>3, <2>4 DEF LiveAreGiven
<1>9. OneHasTheLine(t)
  BY <1>1, <1>t DEF OneHasTheLine, HasLine, Ringing
<1>10. Told(t, u.calls, u.cores, snapshots, list, current, q)
  <2>1. Range(u.calls) \subseteq Range(w.calls) \union {c}
    BY <1>7
  <2>2. Told([w.sdk EXCEPT ![c] = st], u.calls, w.cores \union {k}, snapshots, list, current,
             Append(w.guiQ, [kind |-> "callCreated", core |-> k]))
    BY <1>1, <1>2, <1>q, <2>1, CreationIsTold
  <2>3. QED
    BY <1>2, <1>q, <2>2 DEF t
<1>11. first \in News /\ first.kind = "firstCallStarted"
  BY NewsParts
<1> HIDE DEF first
<1>12. Told(t, u.calls, u.cores, snapshots, list, current, u.guiQ)
  <2>1. Told(t, u.calls, u.cores, snapshots, list, current, Append(q, first))
    BY <1>2, <1>10, <1>11, FirstAndLastAreTold
  <2>2. QED
    BY <1>2, <1>10, <2>1
<1>13. TakesTheLine(StateNews(NoCore, st)) => \A d \in Calls \ {c} : t[d] # "StreamsRunning"
  <2>1. TakesTheLine(StateNews(NoCore, st)) => st = "OutgoingProgress"
    BY StateParts DEF TakesTheLine, Ringing
  <2>2. QED
    BY <1>t, <2>1 DEF LineIsFor, HasLine
<1>14. Told(t, u.calls, u.cores, snapshots, list, current, v.guiQ)
  <2>1. t \in [Calls -> States] /\ [t EXCEPT ![c] = st] = t
    BY <1>1, <1>3 DEF t
  <2>2. LiveAreGiven([t EXCEPT ![c] = st], u.calls)
    BY <1>8, <2>1
  <2>3. Told([t EXCEPT ![c] = st], u.calls, u.cores, snapshots, list, current, v.guiQ)
    BY <1>3, <1>5, <1>6, <1>12, <1>13, <1>t, <2>1, <2>2, StateIsTold
  <2>4. QED
    BY <2>1, <2>3
<1>15. LastWordIsRight(u.calls, haveCall, v.guiQ, mq)
  <2>1. CASE w.calls = <<>>
    <3>1. /\ Len(q) + 1 \in DOMAIN u.guiQ /\ u.guiQ[Len(q) + 1] = first
      BY <1>2, <1>11, <2>1, OneMore
    <3>2. Grows(list, u.guiQ, v.guiQ)
      BY <1>5, <1>6, GrownPlaces DEF Heard
    <3>3. Len(q) + 1 \in DOMAIN v.guiQ /\ v.guiQ[Len(q) + 1] = first
      BY <3>1, <3>2 DEF Grows
    <3>4. UpdateDue(v.guiQ, mq)
      BY <1>11, <3>3 DEF UpdateDue
    <3>5. QED
      BY <3>4 DEF LastWordIsRight
  <2>2. CASE w.calls # <<>>
    <3> DEFINE m == [kind |-> "callCreated", core |-> k]
    <3>1. m \in News /\ m.kind = "callCreated" /\ q = Append(w.guiQ, m)
      BY <1>2, <1>q, NewsParts
    <3> HIDE DEF m
    <3>2. Extends(w.guiQ, q) /\ \A i \in DOMAIN q : i > Len(w.guiQ) => q[i].kind = "callCreated"
      <4>1. /\ Extends(w.guiQ, Append(w.guiQ, m)) /\ Append(w.guiQ, m)[Len(w.guiQ) + 1] = m
            /\ \A i \in DOMAIN Append(w.guiQ, m) : i \in DOMAIN w.guiQ \/ i = Len(w.guiQ) + 1
        BY <1>1, <3>1, OneMore
      <4>2. \A i \in DOMAIN w.guiQ : ~(i > Len(w.guiQ))
        BY <1>1
      <4>3. QED
        BY <3>1, <4>1, <4>2
    <3>3. LastWordIsRight(u.calls, haveCall, q, mq)
      BY <1>1, <1>2, <1>7, <2>2, <3>2, WordStands
    <3>4. QED
      BY <1>2, <1>5, <1>6, <2>2, <3>3, StateNewsSayNothing
  <2>3. QED
    BY <2>1, <2>2
<1>16. Sound(v, mq)
  BY <1>5, <1>8, <1>9, <1>14, <1>15 DEF Sound
<1>17. QED
  BY <1>5, <1>16 DEF v, u, t

\* A sequence without one of its values.
LEMMA Left ==
  ASSUME NEW T, NEW q \in Seq(T), NEW x
  PROVE  /\ Without(q, x) \in Seq(T) /\ Range(Without(q, x)) = Range(q) \ {x}
         /\ (\A i, j \in DOMAIN q : q[i] = q[j] => i = j) =>
              \A i, j \in DOMAIN Without(q, x) : Without(q, x)[i] = Without(q, x)[j] => i = j
         /\ OneEach(q) => OneEach(Without(q, x))
         /\ Without(q, x) = <<>> <=> Range(q) \subseteq {x}
         /\ Without(q, x) # <<>> => Without(q, x)[1] \in Range(q) \ {x}
<1> DEFINE S == {i \in DOMAIN q : q[i] # x}
           r == Without(q, x)
<1>1. r = Entries(q, S) /\ S \in SUBSET DOMAIN q
  BY DEF Without
<1>s. \A i \in DOMAIN q : i \in S <=> q[i] # x
  OBVIOUS
<1> HIDE DEF S, r
<1>2. /\ r \in Seq(T) /\ DOMAIN r = 1 .. Len(r) /\ Len(r) \in Nat
      /\ \A i \in DOMAIN r : Ascending(S)[i] \in S /\ r[i] = q[Ascending(S)[i]]
      /\ \A s \in S : \E i \in DOMAIN r : Ascending(S)[i] = s
      /\ \A i, j \in DOMAIN r : i < j <=> Ascending(S)[i] < Ascending(S)[j]
      /\ Range(r) = {q[s] : s \in S}
  BY <1>1, Filtered
<1>3. Range(r) = Range(q) \ {x}
  BY <1>1, <1>2, <1>s DEF Range
<1>4. ASSUME NEW i \in DOMAIN r, NEW j \in DOMAIN r, Ascending(S)[i] = Ascending(S)[j]
      PROVE  i = j
  <2>1. ~(i < j) /\ ~(j < i)
    <3>1. Ascending(S)[i] \in Int /\ Ascending(S)[j] \in Int
      BY <1>1, <1>2
    <3>2. ~(Ascending(S)[i] < Ascending(S)[j]) /\ ~(Ascending(S)[j] < Ascending(S)[i])
      BY <1>4, <3>1
    <3>3. QED
      BY <1>2, <3>2
  <2>2. QED
    BY <1>2, <2>1
<1>5. ASSUME \A i, j \in DOMAIN q : q[i] = q[j] => i = j
      PROVE  \A i, j \in DOMAIN r : r[i] = r[j] => i = j
  BY <1>1, <1>2, <1>4, <1>5
<1>6. ASSUME OneEach(q) PROVE OneEach(r)
  <2>1. \A i, j \in DOMAIN r : r[i].call = r[j].call => Ascending(S)[i] = Ascending(S)[j]
    BY <1>1, <1>2, <1>6 DEF OneEach
  <2>2. QED
    BY <1>4, <2>1 DEF OneEach
<1>7. r # <<>> => r[1] \in Range(r)
  BY <1>2 DEF Range
<1>8. r = <<>> <=> Range(r) = {}
  <2>1. r = <<>> => Range(r) = {}
    BY DEF Range
  <2>2. QED
    BY <1>7, <2>1
<1>9. QED
  BY <1>2, <1>3, <1>5, <1>6, <1>7, <1>8 DEF r

\* A call ends and is no longer given.
LEMMA EndIsSound ==
  ASSUME snapshots \in Nat, NEW w, NEW mq, Sound(w, mq), NEW c \in Calls, w.sdk[c] \in Live
  PROVE  Sound(End(w, c), mq) /\ SameIdle(w, End(w, c))
<1> DEFINE n == Without(w.calls, c)
           v == [w EXCEPT !.calls = n]
           u == Notify(v, c, "End")
           t == [w.sdk EXCEPT ![c] = "End"]
           last == [kind |-> "lastCallEnded"]
           e == End(w, c)
<1>1. /\ w \in Worlds
      /\ w.sdk \in [Calls -> States] /\ w.calls \in Seq(Calls) /\ w.cores \in SUBSET Cores
      /\ w.guiQ \in Seq(News)
      /\ LiveAreGiven(w.sdk, w.calls) /\ OneHasTheLine(w.sdk)
      /\ \A k \in w.cores : k.gen <= snapshots
      /\ Told(w.sdk, w.calls, w.cores, snapshots, list, current, w.guiQ)
      /\ LastWordIsRight(w.calls, haveCall, w.guiQ, mq)
  BY SoundParts
<1>2. /\ n \in Seq(Calls) /\ Range(n) = Range(w.calls) \ {c}
      /\ (\A i, j \in DOMAIN w.calls : w.calls[i] = w.calls[j] => i = j) =>
           \A i, j \in DOMAIN n : n[i] = n[j] => i = j
      /\ n = <<>> <=> Range(w.calls) \subseteq {c}
  BY <1>1, Left
<1> HIDE DEF n
<1>3. "End" \in States /\ "End" \notin Live /\ "End" # "Idle"
      /\ "Idle" \notin Live /\ "Released" \notin Live /\ "StreamsRunning" \in Live
  BY DEF States, Live, Ringing
<1>4. /\ v \in Worlds /\ v.sdk = w.sdk /\ v.calls = n /\ v.cores = w.cores /\ v.guiQ = w.guiQ
  BY <1>1, <1>2 DEF Worlds
<1>5. e = IF u.calls = <<>> THEN [u EXCEPT !.guiQ = Append(u.guiQ, last)] ELSE u
  BY DEF End, Post, n
<1>l. last \in News /\ last.kind = "lastCallEnded"
  BY NewsParts
<1> HIDE DEF v, u, t, last, e
<1>6. u \in Worlds /\ u.sdk = t /\ u.calls = n /\ u.cores = w.cores
      /\ Heard(w.cores, w.guiQ, u.guiQ, c, "End")
  <2>1. \A k \in v.cores : k.gen <= snapshots
    BY <1>1, <1>4
  <2>2. /\ u \in Worlds /\ u.sdk = [v.sdk EXCEPT ![c] = "End"] /\ u.calls = v.calls
        /\ u.cores = v.cores /\ Heard(v.cores, v.guiQ, u.guiQ, c, "End")
    BY <1>3, <1>4, <2>1, Notified DEF u
  <2>3. QED
    BY <1>4, <2>2 DEF t
<1>7. u.guiQ \in Seq(News)
  BY <1>6 DEF Worlds
<1>t. t \in [Calls -> States] /\ t[c] = "End" /\ \A d \in Calls \ {c} : t[d] = w.sdk[d]
  BY <1>1, <1>3 DEF t
<1>8. LiveAreGiven(t, n)
  BY <1>1, <1>2, <1>3, <1>t DEF LiveAreGiven
<1>9. OneHasTheLine(t)
  BY <1>1, <1>t DEF OneHasTheLine, HasLine
<1>10. Told(t, n, w.cores, snapshots, list, current, u.guiQ)
  <2>1. LiveAreGiven([w.sdk EXCEPT ![c] = "End"], n) /\ Range(n) \subseteq Range(w.calls)
    BY <1>2, <1>8 DEF t
  <2>2. ~TakesTheLine(StateNews(NoCore, "End")) /\ w.sdk[c] \notin {"Idle", "Released"}
    BY <1>3, StateParts DEF TakesTheLine
  <2>3. Told([w.sdk EXCEPT ![c] = "End"], n, w.cores, snapshots, list, current, u.guiQ)
    BY <1>1, <1>3, <1>6, <1>7, <2>1, <2>2, StateIsTold
  <2>4. QED
    BY <2>3 DEF t
<1>11. CASE n = <<>>
  <2> DEFINE r == Append(u.guiQ, last)
  <2>1. e = [u EXCEPT !.guiQ = r]
    BY <1>5, <1>6, <1>11
  <2> HIDE DEF r
  <2>2. r \in Seq(News)
    BY <1>7, <1>l DEF r
  <2>3. e \in Worlds /\ e.sdk = t /\ e.calls = n /\ e.cores = w.cores /\ e.guiQ = r
    BY <1>6, <2>1, <2>2 DEF Worlds
  <2>4. \A d \in Calls : t[d] # "StreamsRunning"
    <3>1. Range(n) = {}
      BY <1>11 DEF Range
    <3>2. QED
      BY <1>3, <1>8, <3>1 DEF LiveAreGiven
  <2>5. Told(t, n, w.cores, snapshots, list, current, r)
    BY <1>7, <1>10, <1>l, <2>4, FirstAndLastAreTold DEF r
  <2>6. LastWordIsRight(n, haveCall, r, mq)
    <3>1. /\ Len(u.guiQ) + 1 \in DOMAIN r /\ r[Len(u.guiQ) + 1] = last
          /\ \A i \in Places(r) : i \in Places(u.guiQ) \/ i = Len(u.guiQ) + 1
          /\ \A i \in Places(u.guiQ) : i < Len(u.guiQ) + 1
      BY <1>7, <1>l, OneMore DEF r
    <3>2. SUFFICES ASSUME NEW i \in Places(r), \A j \in DOMAIN r : j > i => ~Says(r[j])
                   PROVE  ~((i = 0 /\ haveCall) \/ (i # 0 /\ SaysCalls(r[i])))
      BY <1>11 DEF LastWordIsRight
    <3>3. Says(last) /\ ~SaysCalls(last)
      BY <1>l DEF Says, SaysCalls
    <3>4. ~(Len(u.guiQ) + 1 > i)
      BY <3>1, <3>2, <3>3
    <3>5. i = Len(u.guiQ) + 1 /\ i # 0
      <4>1. i = Len(u.guiQ) + 1
        <5>1. \A a \in Places(u.guiQ) : Len(u.guiQ) + 1 > a
          BY <3>1 DEF Places
        <5>2. QED
          BY <3>1, <3>4, <5>1
      <4>2. Len(u.guiQ) \in Nat
        BY <1>7
      <4>3. QED
        BY <4>1, <4>2
    <3>6. QED
      BY <3>1, <3>3, <3>5
  <2>7. Sound(e, mq)
    BY <1>8, <1>9, <2>3, <2>5, <2>6 DEF Sound
  <2>8. QED
    BY <1>3, <1>t, <2>3, <2>7 DEF SameIdle, e
<1>12. CASE n # <<>>
  <2>1. e = u
    BY <1>5, <1>6, <1>12
  <2>2. w.calls # <<>>
    <3>1. w.calls = <<>> => Range(w.calls) = {}
      BY DEF Range
    <3>2. QED
      BY <1>2, <1>12, <3>1
  <2>3. LastWordIsRight(n, haveCall, u.guiQ, mq)
    BY <1>1, <1>6, <1>7, <1>12, <2>2, StateNewsSayNothing
  <2>4. Sound(e, mq)
    BY <1>6, <1>8, <1>9, <1>10, <2>1, <2>3 DEF Sound
  <2>5. QED
    BY <1>3, <1>t, <1>6, <2>1, <2>4 DEF SameIdle, e
<1>13. QED
  BY <1>11, <1>12

\* A call gets the line, and a call that is dialled begins.
LEMMA RunIsSound ==
  ASSUME snapshots \in Nat, NEW w, NEW mq, Sound(w, mq), NEW c \in Calls, NEW st \in Live,
         st # "OutgoingProgress", w.sdk[c] \in Live
  PROVE  /\ Sound(Notify(TakeLine(w, c), c, st), mq)
         /\ SameIdle(w, Notify(TakeLine(w, c), c, st))
<1> DEFINE v == TakeLine(w, c)
<1>1. Sound(v, mq) /\ SameIdle(w, v) /\ v.sdk[c] = w.sdk[c] /\ LineIsFor(v.sdk, c)
  BY TakeLineIsSound
<1> HIDE DEF v
<1>2. /\ st \in States /\ st # "Idle" /\ v.sdk[c] \notin {"Idle", "Released"}
      /\ v.sdk[c] \in Live <=> st \in Live
  BY <1>1 DEF States, Live, Ringing
<1>3. Sound(Notify(v, c, st), mq) /\ SameIdle(v, Notify(v, c, st))
  BY <1>1, <1>2, StateIsSound
<1>4. QED
  BY <1>1, <1>3 DEF v, SameIdle

\* After the calls of S are dialled, only they are calls besides those that were.
Dialled(w, v, S) == \A d \in Calls : v.sdk[d] = "Idle" <=> w.sdk[d] = "Idle" /\ d \notin S

\* A call is dialled.
LEMMA InviteIsSound ==
  ASSUME snapshots \in Nat, NEW w, NEW mq, Sound(w, mq), NEW c \in Calls, w.sdk[c] = "Idle"
  PROVE  Sound(Invite(w, c), mq) /\ Dialled(w, Invite(w, c), {c})
<1> DEFINE v == TakeLine(w, c)
           u == Invite(w, c)
<1>1. Sound(v, mq) /\ SameIdle(w, v) /\ v.sdk[c] = "Idle" /\ LineIsFor(v.sdk, c)
  BY TakeLineIsSound
<1>2. u = Notify(Create(v, c), c, "OutgoingProgress")
  BY DEF Invite
<1> HIDE DEF u, v
<1>3. "OutgoingProgress" \in Ringing
  BY DEF Ringing
<1>4. Sound(u, mq) /\ u.sdk = [v.sdk EXCEPT ![c] = "OutgoingProgress"]
  BY <1>1, <1>2, <1>3, BeginIsSound
<1>5. v.sdk \in [Calls -> States]
  BY <1>1, SoundParts
<1>6. Dialled(w, u, {c})
  BY <1>1, <1>4, <1>5 DEF Dialled, SameIdle
<1>7. QED
  BY <1>4, <1>6 DEF u

\* The recursive function of Redialled is there: each call is dialled in the world the
\* last one left.
LEMMA RedialledIsThere ==
  ASSUME NEW ws \in Seq(Calls)
  PROVE  \E f : /\ Redialled(ws) = f[Len(ws)] /\ f[0] = World
                /\ \A i \in 1 .. Len(ws) : f[i] = Invite(f[i - 1], ws[i])
<1> DEFINE n == Len(ws)
           G(g, i) == IF i = 0 THEN World ELSE Invite(g[i - 1], ws[i])
           Is(g, k) == g = [i \in 0 .. k |-> G(g, i)]
           after == CHOOSE g : Is(g, n)
           S == {k \in Nat : ~ \E g : Is(g, k)}
<1>1. Redialled(ws) = after[n]
  BY DEF Redialled
<1>2. n \in Nat
  OBVIOUS
<1>3. ASSUME NEW k \in Nat, NEW g, k = 0 \/ Is(g, k - 1) PROVE \E h : Is(h, k)
  <2> DEFINE h == [i \in 0 .. k |-> IF i = 0 THEN World
                                   ELSE IF i = k THEN Invite(g[k - 1], ws[k]) ELSE g[i]]
  <2>1. \A i \in 0 .. k : h[i] = G(h, i)
    <3>1. CASE k = 0
      BY <3>1
    <3>2. CASE k # 0
      <4>1. \A i \in 0 .. k - 1 : g[i] = G(g, i)
        BY <1>3, <3>2
      <4>2. \A i \in 0 .. k - 1 : h[i] = g[i]
        BY <4>1
      <4>3. \A i \in 1 .. k : i - 1 \in 0 .. k - 1
        OBVIOUS
      <4>4. \A i \in 1 .. k : i # k => i \in 0 .. k - 1
        OBVIOUS
      <4>5. \A i \in 1 .. k : h[i] = Invite(h[i - 1], ws[i])
        <5>1. SUFFICES ASSUME NEW i \in 1 .. k PROVE h[i] = Invite(h[i - 1], ws[i])
          OBVIOUS
        <5>2. h[i - 1] = g[i - 1]
          BY <4>2, <4>3
        <5>3. CASE i = k
          BY <3>2, <5>2, <5>3
        <5>4. CASE i # k
          BY <4>1, <4>2, <4>4, <5>2, <5>4
        <5>5. QED
          BY <5>3, <5>4
      <4>6. h[0] = World
        OBVIOUS
      <4> HIDE DEF h
      <4>7. QED
        BY <4>5, <4>6
    <3>3. QED
      BY <3>1, <3>2
  <2>2. h = [i \in 0 .. k |-> h[i]]
    OBVIOUS
  <2> HIDE DEF h
  <2>3. [i \in 0 .. k |-> h[i]] = [i \in 0 .. k |-> G(h, i)]
    BY <2>1
  <2>4. QED
    BY <2>2, <2>3
<1>4. S = {}
  <2>1. SUFFICES ASSUME S # {} PROVE FALSE
    OBVIOUS
  <2>2. PICK k \in S : \A m \in S : k <= m
    <3>1. S \in SUBSET Nat
      OBVIOUS
    <3> HIDE DEF S
    <3>2. QED
      BY <2>1, <3>1, LeastNumber
  <2>3. k \in Nat /\ ~ \E g : Is(g, k)
    OBVIOUS
  <2>4. k # 0 => k - 1 \in Nat /\ k - 1 \notin S
    <3> HIDE DEF S
    <3>1. QED
      BY <2>2, <2>3
  <2>5. k # 0 => \E g : Is(g, k - 1)
    BY <2>4
  <2> HIDE DEF Is, S
  <2>6. QED
    BY <1>3, <2>3, <2>5
<1>5. Is(after, n)
  <2>1. \E g : Is(g, n)
    BY <1>2, <1>4
  <2> HIDE DEF Is, n
  <2>2. QED
    BY <2>1
<1>6. \A i \in 0 .. n : after[i] = G(after, i)
  <2> HIDE DEF after
  <2>1. QED
    BY <1>5
<1>7. /\ after[0] = World
      /\ \A i \in 1 .. n : after[i] = Invite(after[i - 1], ws[i])
  <2> HIDE DEF after
  <2>1. QED
    BY <1>2, <1>6
<1>8. QED
  <2> HIDE DEF after
  <2>1. QED
    BY <1>1, <1>7

\* The numbers that wait are all dialled, whatever their number.
LEMMA RedialledIsSound ==
  ASSUME snapshots \in Nat, NEW mq, Sound(World, mq), NEW ws \in Seq(Calls),
         \A i, j \in DOMAIN ws : ws[i] = ws[j] => i = j, \A i \in DOMAIN ws : sdk[ws[i]] = "Idle"
  PROVE  Sound(Redialled(ws), mq) /\ Dialled(World, Redialled(ws), Range(ws))
<1> DEFINE n == Len(ws)
           first(i) == {ws[j] : j \in 1 .. i}
<1>1. PICK f : /\ Redialled(ws) = f[n] /\ f[0] = World
               /\ \A i \in 1 .. n : f[i] = Invite(f[i - 1], ws[i])
  BY RedialledIsThere
<1>2. n \in Nat /\ DOMAIN ws = 1 .. n /\ \A i \in 1 .. n : ws[i] \in Calls
  OBVIOUS
<1> DEFINE Good(i) == Sound(f[i], mq) /\ Dialled(World, f[i], first(i))
           S == {i \in 0 .. n : ~Good(i)}
<1> HIDE DEF n
<1>3. Good(0)
  <2>1. first(0) = {}
    OBVIOUS
  <2>2. Dialled(World, World, {})
    BY DEF Dialled
  <2>3. QED
    BY <1>1, <2>1, <2>2
<1>4. ASSUME NEW i \in 1 .. n, Good(i - 1) PROVE Good(i)
  <2> DEFINE w == f[i - 1]
  <2>1. Sound(w, mq) /\ Dialled(World, w, first(i - 1)) /\ ws[i] \in Calls
    BY <1>2, <1>4
  <2>2. ws[i] \notin first(i - 1)
    <3>1. \A j \in 1 .. i - 1 : j \in 1 .. n /\ j # i
      BY <1>2
    <3>2. \A j \in 1 .. i - 1 : ws[j] # ws[i]
      BY <1>2, <3>1
    <3>3. QED
      BY <3>2
  <2>3. sdk[ws[i]] = "Idle" /\ World.sdk = sdk
    BY <1>2 DEF World
  <2>4. w.sdk[ws[i]] = "Idle"
    BY <2>1, <2>2, <2>3 DEF Dialled
  <2>5. f[i] = Invite(w, ws[i])
    BY <1>1
  <2>6. first(i) = first(i - 1) \union {ws[i]}
    <3>1. 1 .. i = 1 .. i - 1 \union {i}
      BY <1>2
    <3>2. QED
      BY <3>1
  <2> HIDE DEF w, first
  <2>7. Sound(f[i], mq) /\ Dialled(w, f[i], {ws[i]})
    BY <2>1, <2>4, <2>5, InviteIsSound
  <2>8. Dialled(World, f[i], first(i))
    BY <2>1, <2>6, <2>7 DEF Dialled
  <2>9. QED
    BY <2>7, <2>8
<1>5. S = {}
  <2>1. SUFFICES ASSUME S # {} PROVE FALSE
    OBVIOUS
  <2>2. PICK k \in S : \A m \in S : k <= m
    <3>1. S \in SUBSET Nat
      OBVIOUS
    <3> HIDE DEF S
    <3>2. QED
      BY <2>1, <3>1, LeastNumber
  <2> HIDE DEF Good
  <2>3. k \in 0 .. n /\ ~Good(k)
    OBVIOUS
  <2>4. k # 0
    BY <1>3, <2>3
  <2>5. k \in 1 .. n /\ k - 1 \in 0 .. n /\ ~(k <= k - 1)
    BY <1>2, <2>3, <2>4
  <2>6. k - 1 \notin S
    <3> HIDE DEF S
    <3>1. QED
      BY <2>2, <2>5
  <2>7. Good(k - 1)
    BY <2>5, <2>6
  <2>8. QED
    BY <1>4, <2>3, <2>5, <2>7
<1>6. Good(n)
  <2> HIDE DEF Good
  <2>1. n \in 0 .. n
    BY <1>2
  <2>2. QED
    BY <1>5, <2>1
<1>7. first(n) = Range(ws)
  BY <1>2 DEF Range
<1>8. QED
  BY <1>1, <1>6, <1>7

-----------------------------------------------------------------------------
(* What waits to be dialled *)

\* A closure is taken.
LEMMA DialTaken ==
  ASSUME NEW s, NEW reg, NEW ws, NEW mq \in Seq(Work), mq # <<>>, DialsAreNew(s, reg, ws, mq)
  PROVE  /\ DialsAreNew(s, reg, ws, Tail(mq))
         /\ Head(mq).kind = "dial" =>
              /\ s[Head(mq).call] = "Idle" /\ Head(mq).call \notin Range(ws)
              /\ \A i \in DOMAIN Tail(mq) :
                   Tail(mq)[i].kind = "dial" => Tail(mq)[i].call # Head(mq).call
<1> DEFINE r == Tail(mq)
<1>1. /\ r \in Seq(Work) /\ Head(mq) = mq[1] /\ 1 \in DOMAIN mq
      /\ \A i \in DOMAIN r : i + 1 \in DOMAIN mq /\ i + 1 # 1 /\ r[i] = mq[i + 1]
      /\ \A i, j \in DOMAIN r : i + 1 = j + 1 => i = j
  BY Advanced
<1> HIDE DEF r
<1>2. QED
  BY <1>1 DEF DialsAreNew, r

\* A closure is posted: if it dials a number, nobody has dialled it.
LEMMA DialPosted ==
  ASSUME NEW s, NEW reg, NEW ws, NEW mq \in Seq(Work), NEW m \in Work, DialsAreNew(s, reg, ws, mq),
         m.kind = "dial" => /\ s[m.call] = "Idle" /\ m.call \notin Range(ws)
                            /\ \A i \in DOMAIN mq : mq[i] # [kind |-> "dial", call |-> m.call]
  PROVE  DialsAreNew(s, reg, ws, Append(mq, m))
<1> DEFINE r == Append(mq, m)
           new == Len(mq) + 1
<1>1. /\ r \in Seq(Work) /\ r[new] = m
      /\ \A i \in DOMAIN mq : r[i] = mq[i]
      /\ \A i \in DOMAIN r : i \in DOMAIN mq \/ i = new
  BY Appended
<1> HIDE DEF r, new
<1>2. \A i \in DOMAIN mq : mq[i].kind = "dial" => mq[i] = [kind |-> "dial", call |-> mq[i].call]
  <2>1. \A o \in Work : o.kind = "dial" => o = [kind |-> "dial", call |-> o.call]
    BY DEF Work
  <2>2. \A i \in DOMAIN mq : mq[i] \in Work
    OBVIOUS
  <2>3. QED
    BY <2>1, <2>2
<1>3. m.kind = "dial" => \A i \in DOMAIN mq : mq[i].kind = "dial" => mq[i].call # m.call
  BY <1>2
<1>4. \A i \in DOMAIN r : r[i].kind = "dial" => s[r[i].call] = "Idle" /\ r[i].call \notin Range(ws)
  BY <1>1 DEF DialsAreNew
<1>5. \A i, j \in DOMAIN r :
        r[i].kind = "dial" /\ r[j].kind = "dial" /\ r[i].call = r[j].call => i = j
  BY <1>1, <1>3 DEF DialsAreNew
<1>6. QED
  BY <1>4, <1>5 DEF DialsAreNew, r

\* Calls that begin are none of those that wait.
LEMMA DialsStay ==
  ASSUME NEW w, NEW v, NEW S, Dialled(w, v, S), NEW reg, NEW ws \in Seq(Calls), NEW mq \in Seq(Work),
         DialsAreNew(w.sdk, reg, ws, mq), S \cap Range(ws) = {},
         \A i \in DOMAIN mq : mq[i].kind = "dial" => mq[i].call \notin S
  PROVE  DialsAreNew(v.sdk, reg, ws, mq)
<1>1. \A i \in DOMAIN ws : ws[i] \in Calls /\ ws[i] \in Range(ws)
  BY DEF Range
<1>2. \A i \in DOMAIN mq : mq[i].kind = "dial" => mq[i].call \in Calls
  <2>1. \A i \in DOMAIN mq : mq[i] \in Work
    OBVIOUS
  <2>2. QED
    BY <2>1, WorkParts
<1>3. \A i \in DOMAIN ws : v.sdk[ws[i]] = "Idle"
  BY <1>1 DEF Dialled, DialsAreNew
<1>4. \A i \in DOMAIN mq : mq[i].kind = "dial" => v.sdk[mq[i].call] = "Idle"
  BY <1>2 DEF Dialled, DialsAreNew
<1>5. QED
  BY <1>3, <1>4 DEF DialsAreNew

-----------------------------------------------------------------------------
(* The steps of the linphone thread *)

\* The world a step begins with is sound.
LEMMA WorldIsSound ==
  ASSUME IInv
  PROVE  Sound(World, modelQ) /\ World.sdk = sdk /\ snapshots \in Nat
<1>1. /\ World.sdk = sdk /\ World.calls = getCalls /\ World.cores = cores /\ World.guiQ = guiQ
      /\ World = [sdk |-> sdk, calls |-> getCalls, cores |-> cores, guiQ |-> guiQ]
  BY DEF World
<1>2. sdk \in [Calls -> States] /\ getCalls \in Seq(Calls) /\ cores \in SUBSET Cores
      /\ guiQ \in Seq(News) /\ snapshots \in Nat
  BY DEF IInv, TypeOK
<1>3. World \in Worlds
  BY <1>1, <1>2 DEF Worlds
<1>4. QED
  BY <1>1, <1>2, <1>3 DEF Sound, IInv

\* A closure other than an update is taken.
LEMMA WordTaken ==
  ASSUME NEW w, NEW mq \in Seq(Work), mq # <<>>, Head(mq).kind # "update", Sound(w, mq)
  PROVE  Sound(w, Tail(mq))
<1>1. /\ Head(mq) = mq[1] /\ DOMAIN mq = 1 .. Len(mq) /\ DOMAIN Tail(mq) = 1 .. Len(mq) - 1
      /\ \A i \in DOMAIN Tail(mq) : Tail(mq)[i] = mq[i + 1]
      /\ Len(mq) \in Nat
  BY Advanced
<1>2. ASSUME NEW i \in DOMAIN mq, mq[i].kind = "update"
      PROVE  \E j \in DOMAIN Tail(mq) : Tail(mq)[j].kind = "update"
  <2>1. i # 1
    BY <1>1, <1>2
  <2>2. i - 1 \in DOMAIN Tail(mq) /\ (i - 1) + 1 = i
    BY <1>1, <2>1
  <2>3. Tail(mq)[i - 1] = mq[i]
    BY <1>1, <2>2
  <2>4. QED
    BY <1>2, <2>2, <2>3
<1>3. ~UpdateDue(w.guiQ, Tail(mq)) => ~UpdateDue(w.guiQ, mq)
  BY <1>2 DEF UpdateDue
<1>4. QED
  BY <1>3 DEF Sound, LastWordIsRight

\* A step that makes a sound world of the calls keeps the invariant.
LEMMA NextWorld ==
  ASSUME IInv, NEW w, Becomes(w), Sound(w, modelQ'), UNCHANGED <<snapshots, guiVars>>,
         modelQ' \in Seq(Work), registered' \in BOOLEAN, waits' \in Seq(Calls),
         DialsAreNew(w.sdk, registered', waits', modelQ')
  PROVE  IInv'
<1>1. sdk' = w.sdk /\ getCalls' = w.calls /\ cores' = w.cores /\ guiQ' = w.guiQ
      /\ snapshots' = snapshots /\ list' = list /\ current' = current /\ haveCall' = haveCall
      /\ heard' = heard
  BY DEF Becomes, guiVars
<1>2. /\ w \in Worlds
      /\ LiveAreGiven(w.sdk, w.calls) /\ OneHasTheLine(w.sdk)
      /\ Told(w.sdk, w.calls, w.cores, snapshots, list, current, w.guiQ)
      /\ LastWordIsRight(w.calls, haveCall, w.guiQ, modelQ')
  BY DEF Sound
<1>3. Listed' \subseteq cores'
  <2>1. BroughtAreThere(list, w.cores, w.guiQ) /\ w.guiQ \in Seq(News)
    BY <1>2 DEF Told, Worlds
  <2>2. 0 \in Places(w.guiQ) /\ Brought(list, w.guiQ, 0) = Range(list)
    BY <2>1 DEF Places, Brought
  <2>3. Range(list) \subseteq w.cores
    BY <2>1, <2>2 DEF BroughtAreThere
  <2>4. QED
    BY <1>1, <2>3 DEF Listed
<1>4. TypeOK'
  <2>1. /\ sdk' \in [Calls -> States] /\ getCalls' \in Seq(Calls) /\ cores' \subseteq Cores
        /\ guiQ' \in Seq(News)
    BY <1>1, <1>2 DEF Worlds
  <2>2. /\ heard' \in [Calls -> States] /\ haveCall' \in BOOLEAN /\ snapshots' \in Nat
        /\ list' \in Seq(Cores) /\ current' \in Cores \union {NoCore}
    BY <1>1 DEF IInv, TypeOK
  <2>3. QED
    BY <1>3, <2>1, <2>2 DEF TypeOK
<1>5. CurrentIsListed' /\ CallsListedOnce'
  BY <1>1 DEF IInv, CurrentIsListed, CallsListedOnce, Listed
<1>6. /\ LiveAreGiven(sdk', getCalls') /\ OneHasTheLine(sdk')
      /\ Told(sdk', getCalls', cores', snapshots', list', current', guiQ')
      /\ LastWordIsRight(getCalls', haveCall', guiQ', modelQ')
      /\ DialsAreNew(sdk', registered', waits', modelQ')
  BY <1>1, <1>2
<1>7. QED
  BY <1>4, <1>5, <1>6 DEF IInv

\* A number that is not used yet.
LEMMA UnusedParts ==
  ASSUME IInv, NEW c \in Calls, Unused(c)
  PROVE  /\ sdk[c] = "Idle" /\ c \notin Range(waits)
         /\ \A i \in DOMAIN modelQ : modelQ[i].kind = "dial" => modelQ[i].call # c
<1>1. \A o \in Work : o.kind = "dial" => o = [kind |-> "dial", call |-> o.call]
  BY DEF Work
<1>2. \A i \in DOMAIN modelQ : modelQ[i] \in Work
  BY DEF IInv, TypeOK
<1>3. QED
  BY <1>1, <1>2 DEF Unused

\* What the invariant says of what is left alone by most steps of the linphone thread.
LEMMA PlacedParts ==
  ASSUME IInv
  PROVE  /\ modelQ \in Seq(Work) /\ waits \in Seq(Calls) /\ registered \in BOOLEAN
         /\ DialsAreNew(sdk, registered, waits, modelQ)
BY DEF IInv, TypeOK

\* A step of a call that is none of those that wait, and that others do not become.
LEMMA PlainWorld ==
  ASSUME IInv, NEW w, Becomes(w), Sound(w, modelQ), NEW S, Dialled(World, w, S),
         S \cap Range(waits) = {}, \A i \in DOMAIN modelQ : modelQ[i].kind = "dial" => modelQ[i].call \notin S,
         UNCHANGED <<modelQ, guiVars>>, Unplaced
  PROVE  IInv'
<1>1. /\ modelQ \in Seq(Work) /\ waits \in Seq(Calls) /\ registered \in BOOLEAN
      /\ DialsAreNew(sdk, registered, waits, modelQ)
  BY PlacedParts
<1>2. World.sdk = sdk
  BY WorldIsSound
<1>3. DialsAreNew(w.sdk, registered, waits, modelQ)
  BY <1>1, <1>2, DialsStay
<1>4. modelQ' = modelQ /\ registered' = registered /\ waits' = waits
      /\ UNCHANGED <<snapshots, guiVars>>
  BY DEF Unplaced
<1>5. QED
  BY <1>1, <1>3, <1>4, NextWorld

\* A step after which the same calls are idle.
LEMMA IdleStays ==
  ASSUME NEW w, NEW v, SameIdle(w, v)
  PROVE  Dialled(w, v, {})
BY DEF SameIdle, Dialled

\* A call comes in.
LEMMA IncomingCallStep ==
  ASSUME IInv, NEW c \in Calls, IncomingCall(c)
  PROVE  IInv'
<1> DEFINE w == Notify(Create(World, c), c, "IncomingReceived")
<1>1. Sound(World, modelQ) /\ World.sdk = sdk /\ snapshots \in Nat
  BY WorldIsSound
<1>2. /\ sdk[c] = "Idle" /\ c \notin Range(waits)
      /\ \A i \in DOMAIN modelQ : modelQ[i].kind = "dial" => modelQ[i].call # c
  BY UnusedParts DEF IncomingCall
<1>3. Sound(w, modelQ) /\ w.sdk = [sdk EXCEPT ![c] = "IncomingReceived"]
  <2>1. "IncomingReceived" \in Ringing
    BY DEF Ringing
  <2>2. QED
    BY <1>1, <1>2, <2>1, BeginIsSound
<1>4. Becomes(w) /\ UNCHANGED <<modelQ, guiVars>> /\ Unplaced
  BY DEF IncomingCall
<1> HIDE DEF w
<1>5. Dialled(World, w, {c})
  <2>1. sdk \in [Calls -> States]
    BY DEF IInv, TypeOK
  <2>2. QED
    BY <1>1, <1>2, <1>3, <2>1 DEF Dialled
<1>6. QED
  BY <1>2, <1>3, <1>4, <1>5, PlainWorld

\* A call is answered by the other side.
LEMMA AnsweredStep ==
  ASSUME IInv, NEW c \in Calls, Answered(c)
  PROVE  IInv'
<1> DEFINE w == Run(World, c)
<1>1. Sound(World, modelQ) /\ World.sdk = sdk /\ snapshots \in Nat
  BY WorldIsSound
<1>2. sdk[c] \in Live /\ "StreamsRunning" \in Live
  BY DEF Answered, Live, Ringing
<1>3. Sound(w, modelQ) /\ SameIdle(World, w)
  BY <1>1, <1>2, RunIsSound DEF Run
<1>4. Becomes(w) /\ UNCHANGED <<modelQ, guiVars>> /\ Unplaced
  BY DEF Answered
<1> HIDE DEF w
<1>5. Dialled(World, w, {})
  BY <1>3, IdleStays
<1>6. QED
  BY <1>3, <1>4, <1>5, PlainWorld

\* A call that was being resumed runs.
LEMMA ResumedStep ==
  ASSUME IInv, NEW c \in Calls, Resumed(c)
  PROVE  IInv'
<1> DEFINE w == Notify(World, c, "StreamsRunning")
<1>1. Sound(World, modelQ) /\ World.sdk = sdk /\ snapshots \in Nat
  BY WorldIsSound
<1>2. sdk[c] = "Resuming" /\ "Resuming" \in Live /\ "StreamsRunning" \in Live
      /\ "StreamsRunning" \in States
  BY DEF Resumed, Live, States
<1>3. LineIsFor(sdk, c)
  BY <1>2 DEF IInv, LineIsFor, OneHasTheLine, HasLine
<1>4. Sound(w, modelQ) /\ SameIdle(World, w)
  BY <1>1, <1>2, <1>3, StateIsSound
<1>5. Becomes(w) /\ UNCHANGED <<modelQ, guiVars>> /\ Unplaced
  BY DEF Resumed
<1> HIDE DEF w
<1>6. Dialled(World, w, {})
  BY <1>4, IdleStays
<1>7. QED
  BY <1>4, <1>5, <1>6, PlainWorld

\* The other side ends a call.
LEMMA RemoteEndsStep ==
  ASSUME IInv, NEW c \in Calls, RemoteEnds(c)
  PROVE  IInv'
<1> DEFINE w == End(World, c)
<1>1. Sound(World, modelQ) /\ World.sdk = sdk /\ snapshots \in Nat
  BY WorldIsSound
<1>2. Sound(w, modelQ) /\ SameIdle(World, w)
  BY <1>1, EndIsSound DEF RemoteEnds
<1>3. Becomes(w) /\ UNCHANGED <<modelQ, guiVars>> /\ Unplaced
  BY DEF RemoteEnds
<1> HIDE DEF w
<1>4. Dialled(World, w, {})
  BY <1>2, IdleStays
<1>5. QED
  BY <1>2, <1>3, <1>4, PlainWorld

\* The SDK releases a call that has ended.
LEMMA ReleasedStep ==
  ASSUME IInv, NEW c \in Calls, Released(c)
  PROVE  IInv'
<1> DEFINE w == Notify(World, c, "Released")
<1>1. Sound(World, modelQ) /\ World.sdk = sdk /\ snapshots \in Nat
  BY WorldIsSound
<1>2. sdk[c] = "End" /\ "End" \notin Live /\ "Released" \notin Live /\ "Released" \in States
  BY DEF Released, Live, States, Ringing
<1>3. Sound(w, modelQ) /\ SameIdle(World, w)
  BY <1>1, <1>2, StateIsSound
<1>4. Becomes(w) /\ UNCHANGED <<modelQ, guiVars>> /\ Unplaced
  BY DEF Released
<1> HIDE DEF w
<1>5. Dialled(World, w, {})
  BY <1>3, IdleStays
<1>6. QED
  BY <1>3, <1>4, <1>5, PlainWorld

\* The account is registered, or no longer.
LEMMA RegistrationChangedStep ==
  ASSUME IInv, RegistrationChanged
  PROVE  IInv' /\ (registered' => Dialled(World, Redialled(waits), Range(waits))
                                  /\ sdk' = Redialled(waits).sdk)
<1>1. Sound(World, modelQ) /\ World.sdk = sdk /\ snapshots \in Nat
  BY WorldIsSound
<1>2. /\ modelQ \in Seq(Work) /\ waits \in Seq(Calls) /\ registered \in BOOLEAN
      /\ DialsAreNew(sdk, registered, waits, modelQ)
  BY PlacedParts
<1>3. modelQ' = modelQ /\ UNCHANGED <<snapshots, guiVars>> /\ registered' = ~registered
  BY DEF RegistrationChanged
<1>4. CASE registered'
  <2> DEFINE w == Redialled(waits)
  <2>1. waits' = <<>> /\ Becomes(w)
    BY <1>4 DEF RegistrationChanged
  <2>2. /\ \A i, j \in DOMAIN waits : waits[i] = waits[j] => i = j
        /\ \A i \in DOMAIN waits : sdk[waits[i]] = "Idle"
    BY <1>2 DEF DialsAreNew
  <2>3. Sound(w, modelQ) /\ Dialled(World, w, Range(waits))
    BY <1>1, <1>2, <2>2, RedialledIsSound
  <2>4. sdk' = w.sdk
    BY <2>1 DEF Becomes
  <2> HIDE DEF w
  <2>5. DialsAreNew(w.sdk, TRUE, <<>>, modelQ)
    <3>1. \A i \in DOMAIN modelQ : modelQ[i].kind = "dial" => modelQ[i].call \in Calls
      <4>1. \A i \in DOMAIN modelQ : modelQ[i] \in Work
        BY <1>2
      <4>2. QED
        BY <4>1, WorkParts
    <3>2. \A i \in DOMAIN modelQ : modelQ[i].kind = "dial" => w.sdk[modelQ[i].call] = "Idle"
      BY <1>1, <1>2, <2>3, <3>1 DEF DialsAreNew, Dialled
    <3>3. Range(<<>>) = {} /\ DOMAIN <<>> = {}
      BY DEF Range
    <3>4. QED
      BY <1>2, <3>2, <3>3 DEF DialsAreNew
  <2>6. <<>> \in Seq(Calls) /\ registered' = TRUE
    BY <1>2, <1>3, <1>4
  <2>7. IInv'
    BY <1>2, <1>3, <2>1, <2>3, <2>5, <2>6, NextWorld
  <2>8. QED
    BY <2>3, <2>4, <2>7 DEF w
<1>5. CASE ~registered'
  <2>1. waits' = waits /\ Becomes(World)
    BY <1>5 DEF RegistrationChanged, Becomes, World
  <2>2. registered' = FALSE /\ registered = TRUE
    BY <1>2, <1>3, <1>5
  <2>3. DialsAreNew(sdk, FALSE, waits, modelQ)
    BY <1>2 DEF DialsAreNew
  <2>4. IInv'
    BY <1>1, <1>2, <1>3, <2>1, <2>2, <2>3, NextWorld
  <2>5. QED
    BY <1>5, <2>4
<1>6. QED
  BY <1>4, <1>5

\* The linphone thread takes a closure that is not an update.
LEMMA TakeParts ==
  ASSUME IInv, NEW kind, kind \in {"dial", "accept", "hold", "resume", "terminate"}, Take(kind)
  PROVE  /\ modelQ # <<>> /\ Head(modelQ).kind = kind /\ modelQ' = Tail(modelQ)
         /\ modelQ' \in Seq(Work) /\ Call \in Calls
         /\ Sound(World, modelQ')
         /\ DialsAreNew(sdk, registered, waits, modelQ')
<1>1. modelQ # <<>> /\ Head(modelQ).kind = kind /\ modelQ' = Tail(modelQ)
  BY DEF Take
<1>2. modelQ \in Seq(Work) /\ DialsAreNew(sdk, registered, waits, modelQ)
  BY PlacedParts
<1>3. modelQ' \in Seq(Work) /\ Head(modelQ) \in Work
  BY <1>1, <1>2, Advanced
<1>4. Call \in Calls
  BY <1>1, <1>3, WorkParts DEF Call
<1>5. Sound(World, modelQ')
  BY <1>1, <1>2, WorldIsSound, WordTaken
<1>6. DialsAreNew(sdk, registered, waits, modelQ')
  BY <1>1, <1>2, DialTaken
<1>7. QED
  BY <1>1, <1>3, <1>4, <1>5, <1>6

\* The number of a closure is dialled, or waits for the account.
LEMMA DialCallStep ==
  ASSUME IInv, DialCall
  PROVE  IInv'
<1>1. Sound(World, modelQ) /\ World.sdk = sdk /\ snapshots \in Nat
  BY WorldIsSound
<1>2. /\ modelQ # <<>> /\ Head(modelQ).kind = "dial" /\ modelQ' = Tail(modelQ)
      /\ modelQ' \in Seq(Work) /\ Call \in Calls
      /\ Sound(World, modelQ')
      /\ DialsAreNew(sdk, registered, waits, modelQ')
  BY TakeParts DEF DialCall
<1>3. /\ modelQ \in Seq(Work) /\ waits \in Seq(Calls) /\ registered \in BOOLEAN
      /\ DialsAreNew(sdk, registered, waits, modelQ)
  BY PlacedParts
<1>4. /\ sdk[Call] = "Idle" /\ Call \notin Range(waits)
      /\ \A i \in DOMAIN modelQ' : modelQ'[i].kind = "dial" => modelQ'[i].call # Call
  BY <1>2, <1>3, DialTaken DEF Call
<1>5. registered' = registered /\ UNCHANGED <<snapshots, guiVars>>
  BY DEF DialCall
<1>6. CASE registered
  <2> DEFINE w == Invite(World, Call)
  <2>1. Becomes(w) /\ waits' = waits
    BY <1>6 DEF DialCall
  <2>2. Sound(w, modelQ') /\ Dialled(World, w, {Call})
    BY <1>1, <1>2, <1>4, InviteIsSound
  <2> HIDE DEF w
  <2>3. DialsAreNew(w.sdk, registered, waits, modelQ')
    <3>1. DialsAreNew(World.sdk, registered, waits, modelQ')
      BY <1>1, <1>2
    <3>2. /\ {Call} \cap Range(waits) = {}
          /\ \A i \in DOMAIN modelQ' : modelQ'[i].kind = "dial" => modelQ'[i].call \notin {Call}
      BY <1>4
    <3>3. QED
      BY <1>2, <1>3, <2>2, <3>1, <3>2, DialsStay
  <2>4. QED
    BY <1>2, <1>3, <1>5, <2>1, <2>2, <2>3, NextWorld
<1>7. CASE ~registered
  <2>1. waits' = Append(waits, Call) /\ Becomes(World)
    BY <1>7 DEF DialCall, Wait, Becomes, World
  <2> DEFINE ws == Append(waits, Call)
             new == Len(waits) + 1
  <2>2. /\ ws \in Seq(Calls) /\ ws[new] = Call /\ new \in DOMAIN ws
        /\ \A i \in DOMAIN waits : i \in DOMAIN ws /\ ws[i] = waits[i]
        /\ \A i \in DOMAIN ws : i \in DOMAIN waits \/ i = new
    BY <1>2, <1>3, Appended
  <2> HIDE DEF ws, new
  <2>3. \A i \in DOMAIN waits : waits[i] # Call
    BY <1>4 DEF Range
  <2>4. Range(ws) = Range(waits) \union {Call}
    BY <2>2 DEF Range
  <2>5. DialsAreNew(sdk, registered, ws, modelQ')
    <3>1. /\ \A i, j \in DOMAIN ws : ws[i] = ws[j] => i = j
          /\ \A i \in DOMAIN ws : sdk[ws[i]] = "Idle"
      BY <1>2, <1>4, <2>2, <2>3 DEF DialsAreNew
    <3>2. QED
      BY <1>2, <1>4, <1>7, <2>4, <3>1 DEF DialsAreNew
  <2>6. QED
    BY <1>1, <1>2, <1>3, <1>5, <2>1, <2>2, <2>5, NextWorld DEF ws
<1>8. QED
  BY <1>6, <1>7

\* A command is carried out on the state the call is in by now.
LEMMA CommandStep ==
  ASSUME IInv, NEW kind \in Commands, Command(kind)
  PROVE  IInv'
<1> DEFINE w == IF ~May(kind) THEN World
                ELSE CASE kind = "accept"    -> Run(World, Call)
                       [] kind = "hold"      -> Notify(World, Call, "Paused")
                       [] kind = "resume"    -> Notify(TakeLine(World, Call), Call, "Resuming")
                       [] kind = "terminate" -> End(World, Call)
<1>1. Sound(World, modelQ) /\ World.sdk = sdk /\ snapshots \in Nat
  BY WorldIsSound
<1>2. /\ modelQ # <<>> /\ Head(modelQ).kind = kind /\ modelQ' = Tail(modelQ)
      /\ modelQ' \in Seq(Work) /\ Call \in Calls
      /\ Sound(World, modelQ')
      /\ DialsAreNew(sdk, registered, waits, modelQ')
  BY TakeParts DEF Command, Commands
<1>3. Becomes(w) /\ UNCHANGED guiVars /\ Unplaced
  BY DEF Command
<1>4. Sound(w, modelQ') /\ SameIdle(World, w)
  <2>1. CASE ~May(kind)
    BY <1>2, <2>1 DEF SameIdle
  <2>2. CASE May(kind) /\ kind = "accept"
    <3>1. sdk[Call] \in Live /\ "StreamsRunning" \in Live
      BY <2>2 DEF May, Live, Ringing
    <3>2. w = Notify(TakeLine(World, Call), Call, "StreamsRunning")
      BY <2>2 DEF Run
    <3>3. QED
      BY <1>1, <1>2, <3>1, <3>2, RunIsSound
  <2>3. CASE May(kind) /\ kind = "hold"
    <3>1. sdk[Call] = "StreamsRunning" /\ sdk[Call] \in Live /\ "Paused" \in Live
          /\ "Paused" \in States
      BY <2>3 DEF May, Live, States
    <3>2. w = Notify(World, Call, "Paused")
      BY <2>3
    <3>3. World.sdk[Call] \notin {"Idle", "Released"} /\ (World.sdk[Call] \in Live <=> "Paused" \in Live)
      BY <1>1, <3>1
    <3>4. Sound(Notify(World, Call, "Paused"), modelQ') /\ SameIdle(World, Notify(World, Call, "Paused"))
      BY <1>1, <1>2, <3>1, <3>3, StateIsSound
    <3>5. QED
      BY <3>2, <3>4
  <2>4. CASE May(kind) /\ kind = "resume"
    <3>1. sdk[Call] \in Live /\ "Resuming" \in Live
      BY <2>4 DEF May, Live
    <3>2. w = Notify(TakeLine(World, Call), Call, "Resuming")
      BY <2>4
    <3>3. QED
      BY <1>1, <1>2, <3>1, <3>2, RunIsSound
  <2>5. CASE May(kind) /\ kind = "terminate"
    <3>1. sdk[Call] \in Live /\ w = End(World, Call)
      BY <2>5 DEF May
    <3>2. QED
      BY <1>1, <1>2, <3>1, EndIsSound
  <2>6. QED
    BY <2>1, <2>2, <2>3, <2>4, <2>5 DEF Commands
<1> HIDE DEF w
<1>5. Dialled(World, w, {})
  BY <1>4, IdleStays
<1>6. /\ waits \in Seq(Calls) /\ registered \in BOOLEAN
      /\ waits' = waits /\ registered' = registered /\ UNCHANGED <<snapshots, guiVars>>
  BY <1>3, PlacedParts DEF Unplaced
<1>7. DialsAreNew(w.sdk, registered, waits, modelQ')
  <2>1. DialsAreNew(World.sdk, registered, waits, modelQ')
    BY <1>1, <1>2
  <2>2. /\ {} \cap Range(waits) = {}
        /\ \A i \in DOMAIN modelQ' : modelQ'[i].kind = "dial" => modelQ'[i].call \notin {}
    OBVIOUS
  <2>3. QED
    BY <1>2, <1>5, <1>6, <2>1, <2>2, DialsStay
<1>8. QED
  BY <1>2, <1>3, <1>4, <1>6, <1>7, NextWorld

\* The queue's last message, if it says whether there is a call, is the last word.
LEMMA LastSays ==
  ASSUME NEW q \in Seq(News), NEW m \in News, Says(m), NEW n, NEW have, NEW mq,
         SaysCalls(m) <=> n # <<>>
  PROVE  LastWordIsRight(n, have, Append(q, m), mq)
<1> DEFINE r == Append(q, m)
           new == Len(q) + 1
<1>1. /\ new \in DOMAIN r /\ r[new] = m /\ new # 0
      /\ \A i \in Places(r) : i \in Places(q) \/ i = new
      /\ \A i \in Places(q) : i < new
  BY OneMore
<1>2. \A i \in Places(q) : new > i
  <2>1. Places(q) \subseteq Nat /\ new \in Nat
    BY DEF Places
  <2>2. QED
    BY <1>1, <2>1
<1> HIDE DEF r, new
<1>3. SUFFICES ASSUME NEW i \in Places(r), \A j \in DOMAIN r : j > i => ~Says(r[j])
               PROVE  (i = 0 /\ have) \/ (i # 0 /\ SaysCalls(r[i])) <=> n # <<>>
  BY DEF LastWordIsRight, r
<1>4. i = new
  BY <1>1, <1>2, <1>3
<1>5. QED
  BY <1>1, <1>4

\* A snapshot of the calls is taken.
LEMMA SnapshotStep ==
  ASSUME IInv, Snapshot
  PROVE  IInv'
<1> DEFINE fresh == Fresh(getCalls, snapshots + 1)
<1>1. /\ modelQ \in Seq(Work) /\ waits \in Seq(Calls) /\ registered \in BOOLEAN
      /\ DialsAreNew(sdk, registered, waits, modelQ)
  BY PlacedParts
<1>2. /\ sdk \in [Calls -> States] /\ getCalls \in Seq(Calls) /\ cores \in SUBSET Cores
      /\ snapshots \in Nat /\ guiQ \in Seq(News)
      /\ LiveAreGiven(sdk, getCalls) /\ OneHasTheLine(sdk)
      /\ Told(sdk, getCalls, cores, snapshots, list, current, guiQ)
  BY DEF IInv, TypeOK
<1>3. /\ modelQ # <<>> /\ modelQ' = Tail(modelQ) /\ snapshots' = snapshots + 1
      /\ UNCHANGED <<sdk, getCalls, registered, waits, list, current, haveCall, heard>>
  BY DEF Snapshot, Take, guiVars
<1>4. modelQ' \in Seq(Work) /\ DialsAreNew(sdk, registered, waits, modelQ')
  BY <1>1, <1>3, Advanced, DialTaken
<1>5. PICK c \in CurrentCalls :
        /\ cores' = cores \union Range(fresh)
        /\ guiQ' = Append(guiQ, [kind |-> "reset", calls |-> fresh, states |-> sdk,
                                 current |-> IF c = NoCore THEN NoCore
                                             ELSE [call |-> c, gen |-> snapshots + 1]])
  BY <1>3 DEF Snapshot, Fresh
<1> DEFINE k == IF c = NoCore THEN NoCore ELSE [call |-> c, gen |-> snapshots + 1]
           m == [kind |-> "reset", calls |-> fresh, states |-> sdk, current |-> k]
<1>6. /\ fresh \in Seq(Cores) /\ Range(fresh) \subseteq Cores
      /\ \A d \in Range(getCalls) : [call |-> d, gen |-> snapshots + 1] \in Range(fresh)
      /\ fresh = <<>> <=> getCalls = <<>>
  <2>1. snapshots + 1 \in Nat
    BY <1>2
  <2>2. QED
    BY <1>2, <2>1, FreshCores
<1> HIDE DEF fresh
<1>7. k = NoCore \/ k \in Range(fresh)
  BY <1>6 DEF CurrentCalls
<1>8. ASSUME NEW d \in Calls, sdk[d] = "StreamsRunning" PROVE Shows(k, d)
  <2>1. d \in Range(getCalls)
    BY <1>2, <1>8 DEF LiveAreGiven, Live
  <2>2. \A e \in Range(getCalls) : sdk[e] = "StreamsRunning" => e = d
    <3>1. Range(getCalls) \subseteq Calls
      BY <1>2 DEF Range
    <3>2. QED
      BY <1>2, <1>8, <3>1 DEF OneHasTheLine, HasLine
  <2>3. c = d /\ d # NoCore
    BY <1>8, <2>1, <2>2 DEF CurrentCalls
  <2>4. k = [call |-> d, gen |-> snapshots + 1] /\ k \in Cores
    BY <1>6, <2>1, <2>3
  <2>5. k # NoCore
    BY <2>4
  <2>6. QED
    BY <2>4, <2>5 DEF Shows
<1> HIDE DEF k
<1>9. m \in News /\ m.kind = "reset" /\ m.calls = fresh
  <2>1. k \in Cores \union {NoCore}
    BY <1>6, <1>7
  <2>2. QED
    BY <1>2, <1>6, <2>1, NewsParts
<1>10. guiQ' = Append(guiQ, m)
  BY <1>5 DEF k
<1>11. Told(sdk, getCalls, cores', snapshots', list, current, guiQ')
  <2>1. k = NoCore \/ k \in Range(Fresh(getCalls, snapshots + 1))
    BY <1>7 DEF fresh
  <2>2. Told(sdk, getCalls, cores \union Range(Fresh(getCalls, snapshots + 1)), snapshots + 1, list,
             current, Append(guiQ, [kind |-> "reset", calls |-> Fresh(getCalls, snapshots + 1),
                                    states |-> sdk, current |-> k]))
    BY <1>2, <1>8, <2>1, SnapshotIsTold
  <2>3. QED
    BY <1>3, <1>5, <1>10, <2>2 DEF fresh
<1> HIDE DEF m
<1>12. LastWordIsRight(getCalls, haveCall, guiQ', modelQ')
  <2>1. Says(m) /\ (SaysCalls(m) <=> getCalls # <<>>)
    BY <1>6, <1>9 DEF Says, SaysCalls
  <2>2. QED
    BY <1>2, <1>9, <1>10, <2>1, LastSays
<1>13. TypeOK'
  <2>1. guiQ' \in Seq(News)
    BY <1>2, <1>9, <1>10
  <2>2. cores' \subseteq Cores /\ cores \subseteq cores'
    BY <1>2, <1>5, <1>6
  <2>3. /\ sdk' \in [Calls -> States] /\ heard' \in [Calls -> States]
        /\ getCalls' \in Seq(Calls) /\ waits' \in Seq(Calls)
        /\ registered' \in BOOLEAN /\ haveCall' \in BOOLEAN /\ snapshots' \in Nat
        /\ list' \in Seq(Cores) /\ current' \in Cores \union {NoCore} /\ Listed' \subseteq cores
    BY <1>3 DEF IInv, TypeOK, Listed
  <2>4. QED
    BY <1>4, <2>1, <2>2, <2>3 DEF TypeOK
<1>14. CurrentIsListed' /\ CallsListedOnce'
  BY <1>3 DEF IInv, CurrentIsListed, CallsListedOnce, Listed
<1>15. QED
  BY <1>2, <1>3, <1>4, <1>11, <1>12, <1>13, <1>14 DEF IInv

-----------------------------------------------------------------------------
(* The steps of the user *)

\* A closure is posted to the linphone thread.
LEMMA AskStep ==
  ASSUME IInv, NEW m \in Work, modelQ' = Append(modelQ, m),
         UNCHANGED <<modelVars, cores, guiQ, guiVars>>,
         m.kind = "dial" => /\ sdk[m.call] = "Idle" /\ m.call \notin Range(waits)
                            /\ \A i \in DOMAIN modelQ : modelQ[i] # [kind |-> "dial", call |-> m.call]
  PROVE  IInv'
<1>1. /\ modelQ \in Seq(Work) /\ waits \in Seq(Calls) /\ registered \in BOOLEAN
      /\ DialsAreNew(sdk, registered, waits, modelQ)
  BY PlacedParts
<1>2. Sound(World, modelQ) /\ World.sdk = sdk
  BY WorldIsSound
<1>3. /\ modelQ' \in Seq(Work)
      /\ \A i \in DOMAIN modelQ : i \in DOMAIN modelQ' /\ modelQ'[i] = modelQ[i]
  BY <1>1, Appended
<1>4. Becomes(World) /\ registered' = registered /\ waits' = waits
      /\ UNCHANGED <<snapshots, guiVars>>
  BY DEF Becomes, World, modelVars
<1>5. ~UpdateDue(World.guiQ, modelQ') => ~UpdateDue(World.guiQ, modelQ)
  BY <1>3 DEF UpdateDue
<1>6. Sound(World, modelQ')
  BY <1>2, <1>5 DEF Sound, LastWordIsRight
<1>7. DialsAreNew(sdk, registered, waits, modelQ')
  BY <1>1, DialPosted
<1>8. QED
  BY <1>1, <1>2, <1>3, <1>4, <1>6, <1>7, NextWorld

\* The user dials a number nobody has dialled.
LEMMA DialStep ==
  ASSUME IInv, NEW c \in Calls, Dial(c)
  PROVE  IInv'
<1> DEFINE m == [kind |-> "dial", call |-> c]
<1>1. m \in Work /\ m.kind = "dial" /\ m.call = c
  BY WorkParts
<1>2. /\ modelQ' = Append(modelQ, m) /\ UNCHANGED <<modelVars, cores, guiQ, guiVars>>
      /\ sdk[c] = "Idle" /\ c \notin Range(waits)
      /\ \A i \in DOMAIN modelQ : modelQ[i] # m
  BY DEF Dial, Ask, Unused
<1>3. \A i \in DOMAIN modelQ : modelQ[i] # [kind |-> "dial", call |-> m.call]
  BY <1>1, <1>2
<1> HIDE DEF m
<1>4. QED
  BY <1>1, <1>2, <1>3, AskStep

\* The user presses a button of a call.
LEMMA PressStep ==
  ASSUME IInv, NEW kind \in Commands, NEW c \in Calls, Press(kind, c)
  PROVE  IInv'
<1> DEFINE m == [kind |-> kind, call |-> c]
<1>1. m \in Work /\ m.kind # "dial"
  BY WorkParts DEF Commands
<1>2. modelQ' = Append(modelQ, m) /\ UNCHANGED <<modelVars, cores, guiQ, guiVars>>
  BY DEF Press, Ask
<1> HIDE DEF m
<1>3. QED
  BY <1>1, <1>2, AskStep

-----------------------------------------------------------------------------
(* The GUI thread takes a message *)

\* A queue r is q without its first message: the places of r are one further on in q.
Follows(l1, l, q, r) ==
  /\ q # <<>> /\ 1 \in DOMAIN q /\ 0 \in Places(q) /\ 1 \in Places(q) /\ 0 \in Places(r)
  /\ DOMAIN q \subseteq Nat /\ Places(q) \subseteq Nat /\ DOMAIN r \subseteq Nat /\ Places(r) \subseteq Nat
  /\ \A j \in DOMAIN r : j + 1 \in DOMAIN q /\ r[j] = q[j + 1] /\ j >= 1
  /\ \A j \in DOMAIN q : j = 1 \/ (j - 1 \in DOMAIN r /\ r[j - 1] = q[j] /\ j >= 2)
  /\ \A i \in Places(r) : i = 0 \/ (i + 1 \in Places(q) /\ Brought(l1, r, i) = Brought(l, q, i + 1))
  /\ \A i \in Places(q) :
       i \in {0, 1} \/ (i - 1 \in Places(r) /\ Brought(l1, r, i - 1) = Brought(l, q, i) /\ i >= 2)
  /\ Brought(l1, r, 0) = Range(l1) /\ Brought(l, q, 0) = Range(l) /\ Brought(l, q, 1) = Brings(q[1])

\* The rest of a queue follows it.
LEMMA TailFollows ==
  ASSUME NEW q \in Seq(News), q # <<>>, NEW l, NEW l1
  PROVE  Follows(l1, l, q, Tail(q))
<1> DEFINE r == Tail(q)
<1>1. /\ DOMAIN q = 1 .. Len(q) /\ DOMAIN r = 1 .. Len(q) - 1
      /\ Len(q) \in Nat \ {0} /\ Len(r) = Len(q) - 1
      /\ \A i \in DOMAIN r : r[i] = q[i + 1]
  BY Advanced
<1> HIDE DEF r
<1>2. /\ 1 \in DOMAIN q /\ 0 \in Places(q) /\ 1 \in Places(q) /\ 0 \in Places(r)
      /\ DOMAIN q \subseteq Nat /\ Places(q) \subseteq Nat /\ DOMAIN r \subseteq Nat /\ Places(r) \subseteq Nat
  BY <1>1 DEF Places
<1>3. \A j \in DOMAIN r : j + 1 \in DOMAIN q /\ r[j] = q[j + 1] /\ j >= 1
  BY <1>1
<1>4. \A j \in DOMAIN q : j = 1 \/ (j - 1 \in DOMAIN r /\ r[j - 1] = q[j] /\ j >= 2)
  <2>1. SUFFICES ASSUME NEW j \in DOMAIN q, j # 1
                 PROVE  j - 1 \in DOMAIN r /\ r[j - 1] = q[j] /\ j >= 2
    OBVIOUS
  <2>2. j - 1 \in DOMAIN r /\ (j - 1) + 1 = j /\ j >= 2
    BY <1>1, <2>1
  <2>3. r[j - 1] = q[(j - 1) + 1]
    BY <1>1, <2>2
  <2>4. QED
    BY <2>2, <2>3
<1>5. \A i \in Places(r) : i = 0 \/ (i + 1 \in Places(q) /\ Brought(l1, r, i) = Brought(l, q, i + 1))
  <2>1. SUFFICES ASSUME NEW i \in Places(r), i # 0
                 PROVE  i + 1 \in Places(q) /\ Brought(l1, r, i) = Brought(l, q, i + 1)
    OBVIOUS
  <2>2. i \in DOMAIN r /\ i + 1 \in Places(q) /\ i + 1 # 0
    BY <1>1, <2>1 DEF Places
  <2>3. QED
    BY <1>3, <2>1, <2>2 DEF Brought
<1>6. \A i \in Places(q) :
       i \in {0, 1} \/ (i - 1 \in Places(r) /\ Brought(l1, r, i - 1) = Brought(l, q, i) /\ i >= 2)
  <2>1. SUFFICES ASSUME NEW i \in Places(q), i # 0, i # 1
                 PROVE  i - 1 \in Places(r) /\ Brought(l1, r, i - 1) = Brought(l, q, i) /\ i >= 2
    OBVIOUS
  <2>2. i \in DOMAIN q /\ i - 1 \in Places(r) /\ i - 1 # 0 /\ i >= 2
    BY <1>1, <2>1 DEF Places
  <2>3. QED
    BY <1>4, <2>1, <2>2 DEF Brought
<1>7. Brought(l1, r, 0) = Range(l1) /\ Brought(l, q, 0) = Range(l) /\ Brought(l, q, 1) = Brings(q[1])
  BY DEF Brought
<1>8. QED
  BY <1>2, <1>3, <1>4, <1>5, <1>6, <1>7 DEF Follows, r

\* What taking the first message does: the list gets what it brings, and loses something
\* only to a snapshot or to a release.
Advances(s, l, cs, cur, q, l1, cs1, cur1) ==
  /\ Range(l1) \subseteq Range(l) \union Brings(q[1]) /\ Brings(q[1]) \subseteq Range(l1)
  /\ q[1].kind # "reset" =>
       \A k \in Range(l) : k \in Range(l1) \/ (TellsRelease(q[1]) /\ k = q[1].core)
  /\ cs1 \subseteq cs
  /\ \A k \in cs : k \in cs1 \/
       (k \notin Range(l1) /\ (k \in Range(l) \/ (TellsRelease(q[1]) /\ k = q[1].core)))
  /\ TellsRelease(q[1]) => q[1].core \notin Range(l1)
  /\ \A c \in Calls : s[c] = "StreamsRunning" =>
       (((Shows(cur, c) /\ ~Disturbs(q[1], c)) \/ MakesCurrent(l, cur, q, 1, c)) => Shows(cur1, c))

\* A message that is taken leaves all told.
LEMMA AdvanceIsTold ==
  ASSUME NEW s \in [Calls -> States], NEW n \in Seq(Calls), NEW cs \in SUBSET Cores, NEW g, NEW l,
         NEW cur, NEW q \in Seq(News), q # <<>>, NEW l1, NEW cs1, NEW cur1,
         LiveAreGiven(s, n), Told(s, n, cs, g, l, cur, q),
         Advances(s, l, cs, cur, q, l1, cs1, cur1)
  PROVE  Told(s, n, cs1, g, l1, cur1, Tail(q))
<1> DEFINE r == Tail(q)
           m == q[1]
<1>p. /\ CoresAreOfCalls(s, cs, g)
      /\ BroughtAreThere(l, cs, q) /\ BroughtOnce(l, q)
      /\ ReleasedWillLeave(s, l, q) /\ ReleasedStayOut(s, q)
      /\ CreatedAreNew(l, q) /\ SnapshotsAreSound(q)
      /\ NewestStands(n, cs, l, q) /\ RunningWillShow(s, l, cur, q)
  BY DEF Told
<1>a. /\ Range(l1) \subseteq Range(l) \union Brings(m) /\ Brings(m) \subseteq Range(l1)
      /\ m.kind # "reset" => \A k \in Range(l) : k \in Range(l1) \/ (TellsRelease(m) /\ k = m.core)
      /\ cs1 \subseteq cs
      /\ \A k \in cs : k \in cs1 \/
           (k \notin Range(l1) /\ (k \in Range(l) \/ (TellsRelease(m) /\ k = m.core)))
      /\ TellsRelease(m) => m.core \notin Range(l1)
      /\ \A c \in Calls : s[c] = "StreamsRunning" =>
           (((Shows(cur, c) /\ ~Disturbs(m, c)) \/ MakesCurrent(l, cur, q, 1, c)) => Shows(cur1, c))
  BY DEF Advances
<1>f. Follows(l1, l, q, r)
  BY TailFollows
<1> HIDE DEF r
<1>d. /\ 1 \in DOMAIN q /\ 0 \in Places(q) /\ 1 \in Places(q) /\ 0 \in Places(r)
      /\ DOMAIN q \subseteq Nat /\ Places(q) \subseteq Nat /\ DOMAIN r \subseteq Nat /\ Places(r) \subseteq Nat
      /\ \A j \in DOMAIN r : j + 1 \in DOMAIN q /\ r[j] = q[j + 1] /\ j >= 1
      /\ \A j \in DOMAIN q : j = 1 \/ (j - 1 \in DOMAIN r /\ r[j - 1] = q[j] /\ j >= 2)
  BY <1>f DEF Follows
<1>b. /\ \A i \in Places(r) : i = 0 \/ (i + 1 \in Places(q) /\ Brought(l1, r, i) = Brought(l, q, i + 1))
      /\ \A i \in Places(q) :
           i \in {0, 1} \/ (i - 1 \in Places(r) /\ Brought(l1, r, i - 1) = Brought(l, q, i) /\ i >= 2)
      /\ Brought(l1, r, 0) = Range(l1) /\ Brought(l, q, 0) = Range(l) /\ Brought(l, q, 1) = Brings(m)
  BY <1>f DEF Follows
<1>m. m.kind = "state" => m.core \in Cores
  <2>1. m \in News
    BY <1>d
  <2>2. QED
    BY <2>1, NewsParts
<1>r. TellsRelease(m) => /\ s[m.core.call] = "Released" /\ m.core.call \in Calls
                         /\ \A j \in DOMAIN q : j > 1 => \A k \in Brings(q[j]) : k.call # m.core.call
  <2>1. TellsRelease(m) => m.core.call \in Calls
    BY <1>m DEF TellsRelease, Cores
  <2>2. QED
    BY <1>p, <1>d, <2>1 DEF ReleasedStayOut
\* Where a core of the list was before.
<1>z. \A k \in Range(l1) : k \in Brought(l, q, 0) \/ k \in Brought(l, q, 1)
  BY <1>a, <1>b
<1> HIDE DEF m
<1>1. CoresAreOfCalls(s, cs1, g)
  BY <1>p, <1>a DEF CoresAreOfCalls
<1>2. BroughtAreThere(l1, cs1, r)
  <2>1. SUFFICES ASSUME NEW i \in Places(r), NEW k \in Brought(l1, r, i) PROVE k \in cs1
    BY DEF BroughtAreThere
  <2>2. CASE i = 0
    <3>1. k \in Range(l1) /\ k \in cs
      BY <1>p, <1>z, <1>b, <1>d, <2>1, <2>2 DEF BroughtAreThere
    <3>2. QED
      BY <1>a, <3>1
  <2>3. CASE i # 0
    <3>1. i + 1 \in Places(q) /\ k \in Brought(l, q, i + 1) /\ k \in cs /\ 0 < i + 1 /\ i + 1 > 1
      <4>1. i + 1 \in Places(q) /\ k \in Brought(l, q, i + 1)
        BY <1>b, <2>1, <2>3
      <4>2. 0 < i + 1 /\ i + 1 > 1
        BY <1>d, <2>3
      <4>3. QED
        BY <1>p, <4>1, <4>2 DEF BroughtAreThere
    <3>2. k \notin Range(l)
      BY <1>p, <1>b, <1>d, <3>1 DEF BroughtOnce
    <3>3. ~(TellsRelease(m) /\ k = m.core)
      <4>1. i + 1 \in DOMAIN q /\ k \in Brings(q[i + 1])
        <5>1. i + 1 # 0 /\ i \in DOMAIN r
          BY <1>d, <2>3, <3>1 DEF Places
        <5>2. QED
          BY <1>d, <3>1, <5>1 DEF Brought
      <4>2. QED
        BY <1>r, <3>1, <4>1
    <3>4. QED
      BY <1>a, <3>1, <3>2, <3>3
  <2>4. QED
    BY <2>2, <2>3
<1>3. BroughtOnce(l1, r)
  <2>1. SUFFICES ASSUME NEW i \in Places(r), NEW j \in Places(r), i < j
                 PROVE  Brought(l1, r, i) \cap Brought(l1, r, j) = {}
    BY DEF BroughtOnce
  <2>2. /\ j # 0 /\ j + 1 \in Places(q) /\ Brought(l1, r, j) = Brought(l, q, j + 1)
        /\ 0 < j + 1 /\ 1 < j + 1 /\ i + 1 < j + 1
    <3>1. i \in Nat /\ j \in Nat
      BY <1>d
    <3>2. j # 0 /\ 0 < j + 1 /\ 1 < j + 1 /\ i + 1 < j + 1
      BY <2>1, <3>1
    <3>3. QED
      BY <1>b, <3>2
  <2>3. CASE i = 0
    <3>1. Brought(l, q, 0) \cap Brought(l, q, j + 1) = {} /\ Brought(l, q, 1) \cap Brought(l, q, j + 1) = {}
      BY <1>p, <1>d, <2>2 DEF BroughtOnce
    <3>2. QED
      BY <1>b, <1>z, <2>2, <2>3, <3>1
  <2>4. CASE i # 0
    <3>1. i + 1 \in Places(q) /\ Brought(l1, r, i) = Brought(l, q, i + 1)
      BY <1>b, <2>4
    <3>2. QED
      BY <1>p, <2>2, <3>1 DEF BroughtOnce
  <2>5. QED
    BY <2>3, <2>4
<1>4. ReleasedWillLeave(s, l1, r)
  <2>1. SUFFICES ASSUME NEW i \in Places(r), NEW k \in Brought(l1, r, i), s[k.call] = "Released"
                 PROVE  \E j \in DOMAIN r : j > i /\ r[j] = StateNews(k, "Released")
    BY DEF ReleasedWillLeave
  <2>2. PICK p \in Places(q) : k \in Brought(l, q, p) /\ ((i = 0 /\ p \in {0, 1}) \/ (i # 0 /\ p = i + 1))
    <3>1. CASE i = 0
      <4>1. k \in Range(l1)
        BY <1>b, <2>1, <3>1
      <4>2. k \in Brought(l, q, 0) \/ k \in Brought(l, q, 1)
        BY <1>z, <4>1
      <4>3. 0 \in Places(q) /\ 1 \in Places(q)
        BY <1>d
      <4>4. QED
        BY <3>1, <4>2, <4>3
    <3>2. CASE i # 0
      BY <1>b, <2>1, <3>2
    <3>3. QED
      BY <3>1, <3>2
  <2>3. PICK j \in DOMAIN q : j > p /\ q[j] = StateNews(k, "Released")
    BY <1>p, <2>1, <2>2 DEF ReleasedWillLeave
  <2>4. j # 1
    <3>1. SUFFICES ASSUME j = 1 PROVE FALSE
      OBVIOUS
    <3>2. TellsRelease(m) /\ m.core = k
      BY <2>3, <3>1, StateParts DEF TellsRelease, m
    <3>3. i = 0
      <4>1. i \in Nat /\ p \in Nat
        BY <1>d
      <4>2. ~(1 > i + 1) \/ i = 0
        BY <4>1
      <4>3. QED
        BY <2>2, <2>3, <3>1, <4>2
    <3>4. QED
      BY <1>a, <1>b, <2>1, <3>2, <3>3
  <2>5. j - 1 \in DOMAIN r /\ r[j - 1] = q[j] /\ j - 1 > i
    <3>1. j - 1 \in DOMAIN r /\ r[j - 1] = q[j] /\ j >= 2
      BY <1>d, <2>4
    <3>2. i \in Nat /\ p \in Nat /\ j \in Nat
      BY <1>d
    <3>3. j - 1 > i
      BY <2>2, <2>3, <3>1, <3>2
    <3>4. QED
      BY <3>1, <3>3
  <2>6. QED
    BY <2>3, <2>5
<1>5. ReleasedStayOut(s, r)
  <2>1. SUFFICES ASSUME NEW i \in DOMAIN r, TellsRelease(r[i])
                 PROVE  /\ s[r[i].core.call] = "Released"
                        /\ \A j \in DOMAIN r : j > i => \A k \in Brings(r[j]) : k.call # r[i].core.call
    BY DEF ReleasedStayOut
  <2>2. i + 1 \in DOMAIN q /\ r[i] = q[i + 1]
    BY <1>d
  <2>3. /\ s[q[i + 1].core.call] = "Released"
        /\ \A j \in DOMAIN q : j > i + 1 => \A k \in Brings(q[j]) : k.call # q[i + 1].core.call
    BY <1>p, <2>1, <2>2 DEF ReleasedStayOut
  <2>4. \A j \in DOMAIN r : j > i => j + 1 > i + 1 /\ j + 1 \in DOMAIN q /\ r[j] = q[j + 1]
    BY <1>d
  <2>5. QED
    BY <2>2, <2>3, <2>4
<1>6. CreatedAreNew(l1, r)
  <2>1. SUFFICES ASSUME NEW i \in Places(r), NEW j \in DOMAIN r, i < j, r[j].kind = "callCreated",
                        NEW k \in Brought(l1, r, i)
                 PROVE  k.call # r[j].core.call
    BY DEF CreatedAreNew
  <2>2. j + 1 \in DOMAIN q /\ r[j] = q[j + 1] /\ 0 < j + 1 /\ 1 < j + 1 /\ i + 1 < j + 1
    <3>1. i \in Nat /\ j \in Nat /\ j >= 1
      BY <1>d
    <3>2. 0 < j + 1 /\ 1 < j + 1 /\ i + 1 < j + 1
      BY <2>1, <3>1
    <3>3. QED
      BY <1>d, <3>2
  <2>3. \E p \in Places(q) : p < j + 1 /\ k \in Brought(l, q, p)
    <3>1. CASE i = 0
      BY <1>z, <1>b, <1>d, <2>1, <2>2, <3>1
    <3>2. CASE i # 0
      BY <1>b, <2>1, <2>2, <3>2
    <3>3. QED
      BY <3>1, <3>2
  <2>4. QED
    BY <1>p, <2>1, <2>2, <2>3 DEF CreatedAreNew
<1>7. SnapshotsAreSound(r)
  BY <1>p, <1>d DEF SnapshotsAreSound
\* What the list kept.
<1>k. ASSUME NEW k \in Cores, k \in Range(l), m.kind # "reset", s[k.call] # "Released" PROVE k \in Range(l1)
  BY <1>a, <1>r, <1>k
<1>8. NewestStands(n, cs1, l1, r)
  <2>1. SUFFICES ASSUME NEW c \in Range(n)
                 PROVE  \E i \in Places(r) : \E k \in Brought(l1, r, i) :
                          /\ k.call = c /\ \A j \in DOMAIN r : j > i => r[j].kind # "reset"
                          /\ \A o \in cs1 : o.call = c => o.gen <= k.gen
    BY DEF NewestStands
  <2>2. PICK i \in Places(q) : \E k \in Brought(l, q, i) :
          /\ k.call = c /\ \A j \in DOMAIN q : j > i => q[j].kind # "reset"
          /\ \A o \in cs : o.call = c => o.gen <= k.gen
    BY <1>p DEF NewestStands
  <2>3. PICK k \in Brought(l, q, i) :
          /\ k.call = c /\ \A j \in DOMAIN q : j > i => q[j].kind # "reset"
          /\ \A o \in cs : o.call = c => o.gen <= k.gen
    BY <2>2
  <2>4. k \in Cores
    BY <1>p DEF BroughtAreThere
  <2>5. \A o \in cs1 : o.call = c => o.gen <= k.gen
    BY <1>a, <2>3
  <2>6. CASE i \in {0, 1}
    <3>1. k \in Range(l1)
      <4>1. CASE i = 1
        BY <1>a, <1>b, <2>3, <4>1
      <4>2. CASE i = 0
        <5>1. m.kind # "reset"
          BY <1>d, <2>3, <4>2 DEF m
        <5>2. s[k.call] # "Released"
          <6>1. c \in Calls
            BY DEF Range
          <6>2. QED
            BY <2>3, <6>1 DEF LiveAreGiven, Live, Ringing
        <5>3. QED
          BY <1>b, <1>k, <2>3, <2>4, <4>2, <5>1, <5>2
      <4>3. QED
        BY <2>6, <4>1, <4>2
    <3>2. \A j \in DOMAIN r : j > 0 => r[j].kind # "reset"
      <4>1. \A j \in DOMAIN r : j + 1 > 1 /\ j + 1 > 0
        BY <1>d
      <4>2. QED
        BY <1>d, <2>3, <2>6, <4>1
    <3>3. QED
      BY <1>b, <1>d, <2>3, <2>5, <3>1, <3>2
  <2>7. CASE i \notin {0, 1}
    <3>1. i - 1 \in Places(r) /\ k \in Brought(l1, r, i - 1)
      BY <1>b, <2>3, <2>7
    <3>2. \A j \in DOMAIN r : j > i - 1 => j + 1 > i
      BY <1>d
    <3>3. \A j \in DOMAIN r : j > i - 1 => r[j].kind # "reset"
      BY <1>d, <2>3, <3>2
    <3>4. QED
      BY <2>3, <2>5, <3>1, <3>3
  <2>8. QED
    BY <2>6, <2>7
<1>9. RunningWillShow(s, l1, cur1, r)
  <2>1. SUFFICES ASSUME NEW c \in Calls, s[c] = "StreamsRunning"
                 PROVE  \E i \in Places(r) :
                          /\ MakesCurrent(l1, cur1, r, i, c)
                          /\ \A j \in DOMAIN r : j > i => ~Disturbs(r[j], c)
    BY DEF RunningWillShow
  <2>2. PICK i \in Places(q) : /\ MakesCurrent(l, cur, q, i, c)
                               /\ \A j \in DOMAIN q : j > i => ~Disturbs(q[j], c)
    BY <1>p, <2>1 DEF RunningWillShow
  <2>3. CASE i \in {0, 1}
    <3>1. Shows(cur1, c)
      <4>1. CASE i = 0
        <5>1. Shows(cur, c) /\ ~Disturbs(m, c)
          BY <1>d, <2>2, <4>1 DEF MakesCurrent, m
        <5>2. QED
          BY <1>a, <2>1, <5>1
      <4>2. CASE i = 1
        BY <1>a, <2>1, <2>2, <4>2
      <4>3. QED
        BY <2>3, <4>1, <4>2
    <3>2. \A j \in DOMAIN r : ~Disturbs(r[j], c)
      <4>1. \A j \in DOMAIN r : j + 1 > 1 /\ j + 1 > 0
        BY <1>d
      <4>2. QED
        BY <1>d, <2>2, <2>3, <4>1
    <3>3. MakesCurrent(l1, cur1, r, 0, c)
      BY <3>1 DEF MakesCurrent
    <3>4. QED
      BY <1>d, <3>2, <3>3
  <2>4. CASE i \notin {0, 1}
    <3>1. i - 1 \in Places(r) /\ i \in DOMAIN q /\ i - 1 \in DOMAIN r /\ r[i - 1] = q[i] /\ i >= 2
      <4>1. i - 1 \in Places(r) /\ i >= 2 /\ i \in DOMAIN q
        BY <1>b, <2>4 DEF Places
      <4>2. QED
        BY <1>d, <2>4, <4>1
    <3>2. \A j \in DOMAIN r : j > i - 1 => ~Disturbs(r[j], c)
      <4>1. \A j \in DOMAIN r : j > i - 1 => j + 1 > i
        BY <1>d
      <4>2. QED
        BY <1>d, <2>2, <4>1
    <3>3. CASE q[i].kind = "reset" /\ Shows(q[i].current, c)
      <4>1. i - 1 # 0
        BY <1>d, <3>1
      <4>2. MakesCurrent(l1, cur1, r, i - 1, c)
        BY <3>1, <3>3, <4>1 DEF MakesCurrent
      <4>3. QED
        BY <3>1, <3>2, <4>2
    <3>4. CASE TakesTheLine(q[i]) /\ q[i].core.call = c /\ HeardInList(l, q, i)
      <4>1. PICK p \in Places(q) :
              /\ p < i /\ q[i].core \in Brought(l, q, p)
              /\ \A j \in DOMAIN q : p < j /\ j < i => q[j].kind # "reset"
        BY <3>4 DEF HeardInList
      <4>2. q[i].core \in Cores
        BY <1>p, <4>1 DEF BroughtAreThere
      <4>3. CASE p \in {0, 1}
        <5>1. q[i].core \in Range(l1)
          <6>1. CASE p = 1
            BY <1>a, <1>b, <4>1, <6>1
          <6>2. CASE p = 0
            <7>1. 0 < 1 /\ 1 < i
              BY <1>d, <3>1
            <7>2. m.kind # "reset"
              BY <1>d, <4>1, <6>2, <7>1 DEF m
            <7>3. QED
              BY <1>b, <1>k, <2>1, <3>4, <4>1, <4>2, <6>2, <7>2
          <6>3. QED
            BY <4>3, <6>1, <6>2
        <5>2. \A j \in DOMAIN r : 0 < j /\ j < i - 1 => r[j].kind # "reset"
          <6>1. \A j \in DOMAIN r : j < i - 1 => p < j + 1 /\ j + 1 < i
            BY <1>d, <4>3
          <6>2. QED
            BY <1>d, <4>1, <6>1
        <5>3. 0 < i - 1
          BY <1>d, <3>1
        <5>4. HeardInList(l1, r, i - 1)
          BY <1>b, <1>d, <3>1, <5>1, <5>2, <5>3 DEF HeardInList
        <5>5. MakesCurrent(l1, cur1, r, i - 1, c)
          <6>1. i - 1 # 0
            BY <5>3
          <6>2. QED
            BY <3>1, <3>4, <5>4, <6>1 DEF MakesCurrent
        <5>6. QED
          BY <3>1, <3>2, <5>5
      <4>4. CASE p \notin {0, 1}
        <5>1. p - 1 \in Places(r) /\ q[i].core \in Brought(l1, r, p - 1)
          BY <1>b, <4>1, <4>4
        <5>2. \A j \in DOMAIN r : p - 1 < j /\ j < i - 1 => r[j].kind # "reset"
          <6>1. \A j \in DOMAIN r : p - 1 < j /\ j < i - 1 => p < j + 1 /\ j + 1 < i
            BY <1>d
          <6>2. QED
            BY <1>d, <4>1, <6>1
        <5>3. p - 1 < i - 1 /\ i - 1 # 0
          <6>1. i \in Nat /\ p \in Nat /\ i >= 2 /\ p < i
            BY <1>d, <3>1, <4>1
          <6>2. QED
            BY <6>1
        <5>4. HeardInList(l1, r, i - 1)
          BY <3>1, <5>1, <5>2, <5>3 DEF HeardInList
        <5>5. MakesCurrent(l1, cur1, r, i - 1, c)
          BY <3>1, <3>4, <5>3, <5>4 DEF MakesCurrent
        <5>6. QED
          BY <3>1, <3>2, <5>5
      <4>5. QED
        BY <4>3, <4>4
    <3>5. QED
      BY <2>2, <2>4, <3>3, <3>4 DEF MakesCurrent
  <2>5. QED
    BY <2>3, <2>4
<1>10. QED
  BY <1>1, <1>2, <1>3, <1>4, <1>5, <1>6, <1>7, <1>8, <1>9 DEF Told, r

\* The last word after a message is taken.
LEMMA WordHeard ==
  ASSUME NEW q \in Seq(News), q # <<>>, NEW mq, NEW mr, NEW n, NEW have, NEW have1,
         LastWordIsRight(n, have, q, mq),
         ~UpdateDue(Tail(q), mr) => ~UpdateDue(q, mq),
         Says(q[1]) => (have1 <=> SaysCalls(q[1])), ~Says(q[1]) => (have1 <=> have)
  PROVE  LastWordIsRight(n, have1, Tail(q), mr)
<1> DEFINE r == Tail(q)
<1>f. Follows(0, 0, q, r)
  BY TailFollows
<1> HIDE DEF r
<1>1. SUFFICES ASSUME ~UpdateDue(r, mr), NEW i \in Places(r), i = 0 \/ Says(r[i]),
                      \A j \in DOMAIN r : j > i => ~Says(r[j])
               PROVE  (i = 0 /\ have1) \/ (i # 0 /\ SaysCalls(r[i])) <=> n # <<>>
  BY DEF LastWordIsRight, r
<1>d. /\ 1 \in DOMAIN q /\ 0 \in Places(q) /\ 1 \in Places(q)
      /\ DOMAIN q \subseteq Nat /\ DOMAIN r \subseteq Nat /\ Places(r) \subseteq Nat
      /\ \A j \in DOMAIN r : j + 1 \in DOMAIN q /\ r[j] = q[j + 1] /\ j >= 1
      /\ \A j \in DOMAIN q : j = 1 \/ (j - 1 \in DOMAIN r /\ r[j - 1] = q[j] /\ j >= 2)
      /\ \A p \in Places(r) : p = 0 \/ (p + 1 \in Places(q) /\ p \in DOMAIN r)
  BY <1>f DEF Follows, Places
<1>2. ~UpdateDue(q, mq)
  BY <1>1 DEF r
<1>3. \A p \in Places(q) :
        (p = 0 \/ Says(q[p])) /\ (\A j \in DOMAIN q : j > p => ~Says(q[j])) =>
          ((p = 0 /\ have) \/ (p # 0 /\ SaysCalls(q[p])) <=> n # <<>>)
  BY <1>2 DEF LastWordIsRight
<1>4. \A j \in DOMAIN q : j > i + 1 => ~Says(q[j])
  <2>1. SUFFICES ASSUME NEW j \in DOMAIN q, j > i + 1 PROVE ~Says(q[j])
    OBVIOUS
  <2>2. j # 1 /\ j - 1 > i
    BY <1>d, <2>1
  <2>3. QED
    BY <1>1, <1>d, <2>2
<1>5. CASE i = 0
  <2>1. \A j \in DOMAIN q : j > 1 => ~Says(q[j])
    BY <1>4, <1>5
  <2>2. CASE Says(q[1])
    <3>1. SaysCalls(q[1]) <=> n # <<>>
      BY <1>d, <1>3, <2>1, <2>2
    <3>2. QED
      BY <1>5, <2>2, <3>1
  <2>3. CASE ~Says(q[1])
    <3>1. \A j \in DOMAIN q : j > 0 => ~Says(q[j])
      BY <1>d, <2>1, <2>3
    <3>2. have <=> n # <<>>
      BY <1>d, <1>3, <3>1
    <3>3. QED
      BY <1>5, <2>3, <3>2
  <2>4. QED
    BY <2>2, <2>3
<1>6. CASE i # 0
  <2>1. i + 1 \in Places(q) /\ i + 1 # 0 /\ r[i] = q[i + 1]
    BY <1>d, <1>6
  <2>2. SaysCalls(q[i + 1]) <=> n # <<>>
    BY <1>1, <1>3, <1>4, <1>6, <2>1
  <2>3. QED
    BY <1>6, <2>1, <2>2
<1>7. QED
  BY <1>5, <1>6

\* A message other than the first call's start leaves an update due that was, whatever
\* is posted meanwhile.
LEMMA DueStays ==
  ASSUME NEW q \in Seq(News), q # <<>>, q[1].kind # "firstCallStarted", NEW mq, NEW mr,
         \A i \in DOMAIN mq : i \in DOMAIN mr /\ mr[i] = mq[i]
  PROVE  ~UpdateDue(Tail(q), mr) => ~UpdateDue(q, mq)
<1>1. \A j \in DOMAIN q : j = 1 \/ (j - 1 \in DOMAIN Tail(q) /\ Tail(q)[j - 1] = q[j])
  BY TailFollows DEF Follows
<1>2. QED
  BY <1>1 DEF UpdateDue

\* A step of the GUI thread that takes its message well keeps the invariant.
LEMMA NextGui ==
  ASSUME IInv, guiQ # <<>>, guiQ' = Tail(guiQ), UNCHANGED modelVars,
         list' \in Seq(Cores), current' \in Cores \union {NoCore},
         heard' \in [Calls -> States], haveCall' \in BOOLEAN,
         CurrentIsListed', CallsListedOnce',
         \/ modelQ' = modelQ
         \/ \E m \in Work : m.kind # "dial" /\ modelQ' = Append(modelQ, m),
         Advances(sdk, list, cores, current, guiQ, list', cores', current'),
         LastWordIsRight(getCalls, haveCall', Tail(guiQ), modelQ')
  PROVE  IInv'
<1>1. /\ sdk' = sdk /\ getCalls' = getCalls /\ registered' = registered /\ waits' = waits
      /\ snapshots' = snapshots
  BY DEF modelVars
<1>2. /\ sdk \in [Calls -> States] /\ getCalls \in Seq(Calls) /\ cores \in SUBSET Cores
      /\ guiQ \in Seq(News) /\ modelQ \in Seq(Work) /\ waits \in Seq(Calls)
      /\ registered \in BOOLEAN /\ snapshots \in Nat
      /\ LiveAreGiven(sdk, getCalls) /\ OneHasTheLine(sdk)
      /\ Told(sdk, getCalls, cores, snapshots, list, current, guiQ)
      /\ DialsAreNew(sdk, registered, waits, modelQ)
  BY DEF IInv, TypeOK
<1>3. Told(sdk, getCalls, cores', snapshots, list', current', guiQ')
  <2>1. Told(sdk, getCalls, cores', snapshots, list', current', Tail(guiQ))
    BY <1>2, AdvanceIsTold
  <2>2. QED
    BY <2>1
<1>4. modelQ' \in Seq(Work) /\ DialsAreNew(sdk, registered, waits, modelQ')
  <2>1. CASE modelQ' = modelQ
    BY <1>2, <2>1
  <2>2. CASE \E m \in Work : m.kind # "dial" /\ modelQ' = Append(modelQ, m)
    <3>1. PICK m \in Work : m.kind # "dial" /\ modelQ' = Append(modelQ, m)
      BY <2>2
    <3>2. QED
      BY <1>2, <3>1, DialPosted, Appended
  <2>3. QED
    BY <2>1, <2>2
<1>5. guiQ' \in Seq(News) /\ cores' \subseteq Cores
  BY <1>2, Advanced DEF Advances
<1>6. Listed' \subseteq cores'
  <2>1. BroughtAreThere(list', cores', guiQ')
    BY <1>3 DEF Told
  <2>2. 0 \in Places(guiQ') /\ Brought(list', guiQ', 0) = Range(list')
    BY <1>5 DEF Places, Brought
  <2>3. QED
    BY <2>1, <2>2 DEF BroughtAreThere, Listed
<1>7. TypeOK'
  BY <1>1, <1>2, <1>4, <1>5, <1>6 DEF TypeOK
<1>8. LastWordIsRight(getCalls', haveCall', guiQ', modelQ')
  BY <1>1
<1>9. QED
  BY <1>1, <1>2, <1>3, <1>4, <1>7, <1>8 DEF IInv

\* What a step of the GUI thread begins with.
LEMMA HearParts ==
  ASSUME IInv, NEW kind, Hear(kind)
  PROVE  /\ guiQ \in Seq(News) /\ guiQ # <<>> /\ guiQ' = Tail(guiQ) /\ Head(guiQ) = guiQ[1]
         /\ guiQ[1] \in News /\ guiQ[1].kind = kind /\ 1 \in DOMAIN guiQ /\ modelQ \in Seq(Work)
         /\ list \in Seq(Cores) /\ current \in Cores \union {NoCore} /\ Range(list) \subseteq cores
         /\ heard \in [Calls -> States] /\ haveCall \in BOOLEAN /\ cores \subseteq Cores
         /\ (current = NoCore \/ current \in Range(list)) /\ OneEach(list)
         /\ LastWordIsRight(getCalls, haveCall, guiQ, modelQ)
         /\ Told(sdk, getCalls, cores, snapshots, list, current, guiQ)
<1>1. guiQ \in Seq(News) /\ guiQ # <<>> /\ guiQ' = Tail(guiQ) /\ Head(guiQ).kind = kind
  BY DEF Hear, IInv, TypeOK
<1>2. Head(guiQ) = guiQ[1] /\ Head(guiQ) \in News /\ 1 \in DOMAIN guiQ
  BY <1>1, Advanced
<1>3. /\ list \in Seq(Cores) /\ current \in Cores \union {NoCore} /\ Range(list) \subseteq cores
      /\ heard \in [Calls -> States] /\ haveCall \in BOOLEAN /\ cores \subseteq Cores
      /\ modelQ \in Seq(Work)
  BY DEF IInv, TypeOK, Listed
<1>4. (current = NoCore \/ current \in Range(list)) /\ OneEach(list)
  BY DEF IInv, CurrentIsListed, CallsListedOnce, OneEach, Listed
<1>5. /\ LastWordIsRight(getCalls, haveCall, guiQ, modelQ)
      /\ Told(sdk, getCalls, cores, snapshots, list, current, guiQ)
  BY DEF IInv
<1>6. QED
  BY <1>1, <1>2, <1>3, <1>4, <1>5

\* With the closures and the word on calls as they are, the last word stays right.
LEMMA WordOfOther ==
  ASSUME IInv, NEW kind, Hear(kind), kind \in {"callCreated", "state"},
         haveCall' = haveCall, \A i \in DOMAIN modelQ : i \in DOMAIN modelQ' /\ modelQ'[i] = modelQ[i]
  PROVE  LastWordIsRight(getCalls, haveCall', Tail(guiQ), modelQ')
<1>1. /\ guiQ \in Seq(News) /\ guiQ # <<>> /\ guiQ[1].kind = kind
      /\ LastWordIsRight(getCalls, haveCall, guiQ, modelQ)
  BY HearParts
<1>2. ~Says(guiQ[1]) /\ guiQ[1].kind # "firstCallStarted"
  BY <1>1 DEF Says
<1>3. ~UpdateDue(Tail(guiQ), modelQ') => ~UpdateDue(guiQ, modelQ)
  BY <1>1, <1>2, DueStays
<1>4. QED
  BY <1>1, <1>2, <1>3, WordHeard

\* A call is created: its core comes into the list.
LEMMA OnCallCreatedStep ==
  ASSUME IInv, OnCallCreated
  PROVE  IInv'
<1> DEFINE m == guiQ[1]
           k == m.core
<1>1. /\ guiQ \in Seq(News) /\ guiQ # <<>> /\ guiQ' = Tail(guiQ) /\ Head(guiQ) = m
      /\ m \in News /\ m.kind = "callCreated" /\ 1 \in DOMAIN guiQ /\ modelQ \in Seq(Work)
      /\ list \in Seq(Cores) /\ current \in Cores \union {NoCore} /\ Range(list) \subseteq cores
      /\ heard \in [Calls -> States] /\ haveCall \in BOOLEAN /\ cores \subseteq Cores
      /\ (current = NoCore \/ current \in Range(list)) /\ OneEach(list)
      /\ Told(sdk, getCalls, cores, snapshots, list, current, guiQ)
  BY HearParts DEF OnCallCreated
<1>2. k \in Cores /\ Brings(m) = {k} /\ Core = k
  BY <1>1, NewsParts, BringsParts DEF Core
<1>3. /\ current' = (IF list = <<>> THEN k ELSE current) /\ list' = Append(list, k)
      /\ heard' = [heard EXCEPT ![k.call] = "Idle"]
      /\ UNCHANGED <<modelVars, cores, modelQ, haveCall>>
  BY <1>2 DEF OnCallCreated
<1> HIDE DEF k
<1>4. /\ list' \in Seq(Cores) /\ DOMAIN list' = 1 .. Len(list) + 1 /\ DOMAIN list = 1 .. Len(list)
      /\ Len(list) \in Nat /\ list'[Len(list) + 1] = k
      /\ \A i \in DOMAIN list : list'[i] = list[i]
  BY <1>1, <1>2, <1>3, Appended
<1>5. /\ Range(list') = Range(list) \union {k}
      /\ \A i \in DOMAIN list' : i \in DOMAIN list \/ i = Len(list) + 1
  BY <1>4 DEF Range
<1>6. \A i \in DOMAIN list : list[i].call # k.call
  <2>1. CreatedAreNew(list, guiQ)
    BY <1>1 DEF Told
  <2>2. Follows(list, list, guiQ, Tail(guiQ))
    BY <1>1, TailFollows
  <2>3. 0 \in Places(guiQ) /\ Brought(list, guiQ, 0) = Range(list) /\ 0 < 1
    BY <2>2 DEF Follows
  <2>4. \A o \in Range(list) : o.call # k.call
    BY <1>1, <2>1, <2>3 DEF CreatedAreNew, k
  <2>5. QED
    BY <2>4 DEF Range
<1>7. CallsListedOnce'
  <2>1. \A i, j \in DOMAIN list' : list'[i].call = list'[j].call => i = j
    BY <1>1, <1>4, <1>5, <1>6 DEF OneEach
  <2>2. QED
    BY <2>1 DEF CallsListedOnce
<1>8. CurrentIsListed' /\ current' \in Cores \union {NoCore}
  BY <1>1, <1>2, <1>3, <1>5 DEF CurrentIsListed, Listed
<1>9. heard' \in [Calls -> States]
  BY <1>1, <1>3 DEF States
<1>10. Advances(sdk, list, cores, current, guiQ, list', cores', current')
  <2>1. ~TellsRelease(m) /\ ~TakesTheLine(m)
    BY <1>1 DEF TellsRelease, TakesTheLine
  <2>2. \A c \in Calls : ~MakesCurrent(list, current, guiQ, 1, c)
    BY <1>1, <2>1 DEF MakesCurrent
  <2>3. \A c \in Calls : Shows(current, c) => Shows(current', c)
    <3>1. current # NoCore => list # <<>>
      <4>1. list = <<>> => Range(list) = {}
        BY DEF Range
      <4>2. QED
        BY <1>1, <4>1
    <3>2. QED
      BY <1>3, <3>1 DEF Shows
  <2>4. QED
    BY <1>2, <1>3, <1>5, <2>1, <2>2, <2>3 DEF Advances
<1>11. LastWordIsRight(getCalls, haveCall', Tail(guiQ), modelQ')
  BY <1>3, WordOfOther DEF OnCallCreated
<1>12. QED
  BY <1>1, <1>3, <1>4, <1>7, <1>8, <1>9, <1>10, <1>11, NextGui

\* The first call starts: the list asks for a snapshot.
LEMMA OnFirstCallStartedStep ==
  ASSUME IInv, OnFirstCallStarted
  PROVE  IInv'
<1> DEFINE m == guiQ[1]
           ask == [kind |-> "update"]
<1>1. /\ guiQ \in Seq(News) /\ guiQ # <<>> /\ guiQ' = Tail(guiQ)
      /\ m \in News /\ m.kind = "firstCallStarted" /\ modelQ \in Seq(Work)
      /\ list \in Seq(Cores) /\ current \in Cores \union {NoCore}
      /\ heard \in [Calls -> States] /\ haveCall \in BOOLEAN
  BY HearParts DEF OnFirstCallStarted
<1>2. ask \in Work /\ ask.kind # "dial"
  BY WorkParts
<1>3. /\ modelQ' = Append(modelQ, ask)
      /\ UNCHANGED <<modelVars, cores, list, current, haveCall, heard>>
  BY DEF OnFirstCallStarted, guiVars
<1>4. CurrentIsListed' /\ CallsListedOnce'
  BY <1>3 DEF IInv, CurrentIsListed, CallsListedOnce, Listed
<1>5. Advances(sdk, list, cores, current, guiQ, list', cores', current')
  <2>1. ~TellsRelease(m) /\ ~TakesTheLine(m) /\ Brings(m) = {}
    BY <1>1, BringsParts DEF TellsRelease, TakesTheLine
  <2>2. \A c \in Calls : ~MakesCurrent(list, current, guiQ, 1, c)
    BY <1>1, <2>1 DEF MakesCurrent
  <2>3. QED
    BY <1>3, <2>1, <2>2 DEF Advances
<1>6. LastWordIsRight(getCalls, haveCall', Tail(guiQ), modelQ')
  <2>1. \E i \in DOMAIN modelQ' : modelQ'[i] = ask
    <3>1. /\ DOMAIN Append(modelQ, ask) = 1 .. Len(modelQ) + 1 /\ Len(modelQ) \in Nat
          /\ Append(modelQ, ask)[Len(modelQ) + 1] = ask
      BY <1>1, <1>2, Appended
    <3>2. Len(modelQ) + 1 \in 1 .. Len(modelQ) + 1
      BY <3>1
    <3>3. QED
      BY <1>3, <3>1, <3>2
  <2>2. UpdateDue(Tail(guiQ), modelQ')
    BY <2>1 DEF UpdateDue
  <2>3. QED
    BY <2>2 DEF LastWordIsRight
<1> HIDE DEF ask
<1>7. list' \in Seq(Cores) /\ current' \in Cores \union {NoCore}
      /\ heard' \in [Calls -> States] /\ haveCall' \in BOOLEAN
  BY <1>1, <1>3
<1>8. QED
  BY <1>1, <1>2, <1>3, <1>4, <1>5, <1>6, <1>7, NextGui

\* The last call has ended.
LEMMA OnLastCallEndedStep ==
  ASSUME IInv, OnLastCallEnded
  PROVE  IInv'
<1> DEFINE m == guiQ[1]
<1>1. /\ guiQ \in Seq(News) /\ guiQ # <<>> /\ guiQ' = Tail(guiQ)
      /\ m \in News /\ m.kind = "lastCallEnded" /\ modelQ \in Seq(Work)
      /\ list \in Seq(Cores) /\ heard \in [Calls -> States]
      /\ LastWordIsRight(getCalls, haveCall, guiQ, modelQ)
  BY HearParts DEF OnLastCallEnded
<1>2. /\ haveCall' = FALSE /\ current' = NoCore
      /\ UNCHANGED <<modelVars, cores, modelQ, list, heard>>
  BY DEF OnLastCallEnded
<1>3. CurrentIsListed' /\ CallsListedOnce'
  BY <1>2 DEF IInv, CurrentIsListed, CallsListedOnce
<1>4. Advances(sdk, list, cores, current, guiQ, list', cores', current')
  <2>1. /\ ~TellsRelease(m) /\ ~TakesTheLine(m) /\ Brings(m) = {}
        /\ \A c \in Calls : Disturbs(m, c)
    BY <1>1, BringsParts DEF TellsRelease, TakesTheLine, Disturbs
  <2>2. \A c \in Calls : ~MakesCurrent(list, current, guiQ, 1, c)
    BY <1>1, <2>1 DEF MakesCurrent
  <2>3. QED
    BY <1>2, <2>1, <2>2 DEF Advances
<1>5. LastWordIsRight(getCalls, haveCall', Tail(guiQ), modelQ')
  <2>1. Says(m) /\ ~SaysCalls(m) /\ m.kind # "firstCallStarted"
    BY <1>1 DEF Says, SaysCalls
  <2>2. ~UpdateDue(Tail(guiQ), modelQ') => ~UpdateDue(guiQ, modelQ)
    BY <1>1, <1>2, <2>1, DueStays
  <2>3. QED
    BY <1>1, <1>2, <2>1, <2>2, WordHeard
<1>6. QED
  BY <1>1, <1>2, <1>3, <1>4, <1>5, NextGui

\* A snapshot takes the place of the list.
LEMMA OnResetStep ==
  ASSUME IInv, OnReset
  PROVE  IInv'
<1> DEFINE m == guiQ[1]
<1>1. /\ guiQ \in Seq(News) /\ guiQ # <<>> /\ guiQ' = Tail(guiQ) /\ Head(guiQ) = m
      /\ m \in News /\ m.kind = "reset" /\ 1 \in DOMAIN guiQ /\ modelQ \in Seq(Work)
      /\ list \in Seq(Cores)
      /\ LastWordIsRight(getCalls, haveCall, guiQ, modelQ)
      /\ Told(sdk, getCalls, cores, snapshots, list, current, guiQ)
  BY HearParts DEF OnReset
<1>2. /\ m.calls \in Seq(Cores) /\ m.current \in Cores \union {NoCore}
      /\ m.states \in [Calls -> States] /\ Brings(m) = Range(m.calls)
  BY <1>1, NewsParts, BringsParts
<1>3. /\ list' = m.calls /\ haveCall' = (m.calls # <<>>) /\ current' = m.current
      /\ heard' = m.states /\ UNCHANGED <<modelVars, modelQ>>
      /\ \E held \in {{}, {current}} : cores' = cores \ (Listed \ (held \union Range(list')))
  BY <1>1 DEF OnReset, ListAfter
<1>4. OneEach(m.calls) /\ (m.current = NoCore \/ m.current \in Range(m.calls))
  BY <1>1 DEF Told, SnapshotsAreSound
<1>5. CurrentIsListed' /\ CallsListedOnce'
  BY <1>3, <1>4 DEF CurrentIsListed, CallsListedOnce, Listed, OneEach
<1>6. Advances(sdk, list, cores, current, guiQ, list', cores', current')
  <2>1. ~TellsRelease(m) /\ ~TakesTheLine(m)
    BY <1>1 DEF TellsRelease, TakesTheLine
  <2>2. \A c \in Calls : MakesCurrent(list, current, guiQ, 1, c) => Shows(m.current, c)
    BY <1>1, <2>1 DEF MakesCurrent
  <2>3. \A c \in Calls : ~Disturbs(m, c) => Shows(m.current, c)
    BY <1>1 DEF Disturbs
  <2>4. /\ cores' \subseteq cores
        /\ \A k \in cores : k \in cores' \/ (k \notin Range(list') /\ k \in Range(list))
    BY <1>3 DEF Listed
  <2>5. Range(list') = Brings(m)
    BY <1>2, <1>3
  <2>6. QED
    BY <1>1, <1>3, <2>1, <2>2, <2>3, <2>4, <2>5 DEF Advances
<1>7. LastWordIsRight(getCalls, haveCall', Tail(guiQ), modelQ')
  <2>1. Says(m) /\ (haveCall' <=> SaysCalls(m)) /\ m.kind # "firstCallStarted"
    BY <1>1, <1>3 DEF Says, SaysCalls
  <2>2. ~UpdateDue(Tail(guiQ), modelQ') => ~UpdateDue(guiQ, modelQ)
    BY <1>1, <1>3, <2>1, DueStays
  <2>3. QED
    BY <1>1, <2>1, <2>2, WordHeard
<1>8. haveCall' \in BOOLEAN
  BY <1>3
<1>9. QED
  BY <1>1, <1>2, <1>3, <1>5, <1>6, <1>7, <1>8, NextGui

\* A core is told its state: what does not depend on which.
LEMMA HearStateParts ==
  ASSUME IInv, NEW states, HearState(states)
  PROVE  /\ Hear("state") /\ Core = guiQ[1].core /\ Core \in Cores /\ guiQ[1].state \in states
         /\ heard' \in [Calls -> States] /\ Brings(guiQ[1]) = {}
         /\ guiQ[1].kind = "state"
         /\ \A c : MakesCurrent(list, current, guiQ, 1, c) =>
              TakesTheLine(guiQ[1]) /\ Core.call = c /\ Core \in Range(list)
<1> DEFINE m == guiQ[1]
<1>1. Hear("state") /\ Head(guiQ).state \in states
  BY DEF HearState
<1>2. /\ guiQ # <<>> /\ Head(guiQ) = m /\ m \in News /\ m.kind = "state" /\ guiQ \in Seq(News)
      /\ heard \in [Calls -> States]
  BY <1>1, HearParts
<1>3. Core = m.core /\ Core \in Cores /\ m.state \in States /\ Brings(m) = {}
  BY <1>2, NewsParts, BringsParts DEF Core
<1>4. heard' \in [Calls -> States]
  BY <1>2, <1>3 DEF HearState
<1>5. ASSUME NEW c, MakesCurrent(list, current, guiQ, 1, c)
      PROVE  TakesTheLine(m) /\ Core.call = c /\ Core \in Range(list)
  <2>1. TakesTheLine(m) /\ m.core.call = c /\ HeardInList(list, guiQ, 1)
    BY <1>2, <1>5 DEF MakesCurrent
  <2>2. \E p \in Places(guiQ) : p < 1 /\ m.core \in Brought(list, guiQ, p)
    BY <2>1 DEF HeardInList
  <2>3. m.core \in Brought(list, guiQ, 0)
    <3>1. \A p \in Places(guiQ) : p < 1 => p = 0
      BY DEF Places
    <3>2. QED
      BY <2>2, <3>1
  <2>4. QED
    BY <1>3, <2>1, <2>3 DEF Brought
<1>6. QED
  BY <1>1, <1>2, <1>3, <1>4, <1>5

\* A state that the list does not depend on, or of a core that is gone.
LEMMA OnOtherStateStep ==
  ASSUME IInv, OnOtherState
  PROVE  IInv'
<1> DEFINE m == guiQ[1]
<1>1. PICK states : HearState(states) /\ (Core \notin cores \/ states = {"IncomingReceived", "Paused", "End"})
  BY DEF OnOtherState
<1>2. /\ Hear("state") /\ Core = m.core /\ Core \in Cores /\ m.state \in states
      /\ heard' \in [Calls -> States] /\ Brings(m) = {} /\ m.kind = "state"
      /\ \A c : MakesCurrent(list, current, guiQ, 1, c) =>
           TakesTheLine(m) /\ Core.call = c /\ Core \in Range(list)
  BY <1>1, HearStateParts
<1>3. /\ guiQ \in Seq(News) /\ guiQ # <<>> /\ guiQ' = Tail(guiQ)
      /\ list \in Seq(Cores) /\ current \in Cores \union {NoCore} /\ Range(list) \subseteq cores
      /\ haveCall \in BOOLEAN
  BY <1>2, HearParts
<1>4. UNCHANGED <<modelVars, cores, modelQ, list, current, haveCall>>
  BY DEF OnOtherState
<1>5. CurrentIsListed' /\ CallsListedOnce'
  BY <1>4 DEF IInv, CurrentIsListed, CallsListedOnce, Listed
<1>6. TellsRelease(m) => Core \notin Range(list)
  BY <1>1, <1>2, <1>3 DEF TellsRelease
<1>7. \A c : ~MakesCurrent(list, current, guiQ, 1, c)
  BY <1>1, <1>2, <1>3 DEF TakesTheLine
<1>8. Advances(sdk, list, cores, current, guiQ, list', cores', current')
  BY <1>2, <1>4, <1>6, <1>7 DEF Advances
<1>9. LastWordIsRight(getCalls, haveCall', Tail(guiQ), modelQ')
  BY <1>2, <1>4, WordOfOther
<1>10. QED
  BY <1>2, <1>3, <1>4, <1>5, <1>8, <1>9, NextGui

\* A call that has the line, or is dialled, becomes the current one.
LEMMA OnBusyStep ==
  ASSUME IInv, OnBusy
  PROVE  IInv'
<1> DEFINE m == guiQ[1]
           states == {"StreamsRunning", "Resuming", "OutgoingProgress"}
<1>1. HearState(states)
  BY DEF OnBusy
<1>2. /\ Hear("state") /\ Core = m.core /\ Core \in Cores /\ m.state \in states
      /\ heard' \in [Calls -> States] /\ Brings(m) = {} /\ m.kind = "state"
      /\ \A c : MakesCurrent(list, current, guiQ, 1, c) =>
           TakesTheLine(m) /\ Core.call = c /\ Core \in Range(list)
  BY <1>1, HearStateParts
<1>3. /\ guiQ \in Seq(News) /\ guiQ # <<>> /\ guiQ' = Tail(guiQ)
      /\ list \in Seq(Cores) /\ haveCall \in BOOLEAN
  BY <1>2, HearParts
<1>4. /\ UNCHANGED <<modelVars, cores, modelQ, list, haveCall>>
      /\ current' = IF Core \in Range(list) THEN Core ELSE NoCore
  BY DEF OnBusy, Busy, Listed
<1>5. CurrentIsListed' /\ CallsListedOnce' /\ current' \in Cores \union {NoCore}
  BY <1>2, <1>4 DEF IInv, CurrentIsListed, CallsListedOnce, Listed
<1>6. ~TellsRelease(m) /\ TakesTheLine(m)
  BY <1>2 DEF TellsRelease, TakesTheLine
<1>7. \A c \in Calls : /\ Disturbs(m, c)
                       /\ MakesCurrent(list, current, guiQ, 1, c) => Shows(current', c)
  BY <1>2, <1>4, <1>6 DEF Disturbs, Shows
<1>8. Advances(sdk, list, cores, current, guiQ, list', cores', current')
  BY <1>2, <1>4, <1>6, <1>7 DEF Advances
<1>9. LastWordIsRight(getCalls, haveCall', Tail(guiQ), modelQ')
  BY <1>2, <1>4, WordOfOther
<1>10. QED
  BY <1>2, <1>3, <1>4, <1>5, <1>8, <1>9, NextGui

\* A call is released: its core leaves, and the next call is resumed if it was current.
LEMMA OnReleasedStep ==
  ASSUME IInv, OnReleased
  PROVE  IInv'
<1> DEFINE m == guiQ[1]
           rest == Without(list, Core)
           others == Without(list, current)
<1>1. HearState({"Released"})
  BY DEF OnReleased
<1>2. /\ Hear("state") /\ Core = m.core /\ Core \in Cores /\ m.state \in {"Released"}
      /\ heard' \in [Calls -> States] /\ Brings(m) = {} /\ m.kind = "state"
      /\ \A c : MakesCurrent(list, current, guiQ, 1, c) =>
           TakesTheLine(m) /\ Core.call = c /\ Core \in Range(list)
  BY <1>1, HearStateParts
<1>3. /\ guiQ \in Seq(News) /\ guiQ # <<>> /\ guiQ' = Tail(guiQ) /\ 1 \in DOMAIN guiQ
      /\ modelQ \in Seq(Work)
      /\ list \in Seq(Cores) /\ current \in Cores \union {NoCore} /\ Range(list) \subseteq cores
      /\ haveCall \in BOOLEAN /\ cores \subseteq Cores
      /\ (current = NoCore \/ current \in Range(list)) /\ OneEach(list)
      /\ Told(sdk, getCalls, cores, snapshots, list, current, guiQ)
  BY <1>2, HearParts
<1>4. cores' = cores \ {Core} /\ UNCHANGED <<modelVars, haveCall>>
  BY DEF OnReleased
<1>5. TellsRelease(m) /\ ~TakesTheLine(m) /\ sdk[Core.call] = "Released"
  <2>1. TellsRelease(m) /\ ~TakesTheLine(m)
    BY <1>2 DEF TellsRelease, TakesTheLine
  <2>2. QED
    BY <1>2, <1>3, <2>1 DEF Told, ReleasedStayOut
<1>6. \A c : ~MakesCurrent(list, current, guiQ, 1, c)
  BY <1>2, <1>5
<1>7. ASSUME NEW c \in Calls, sdk[c] = "StreamsRunning", Shows(current, c) PROVE Core # current
  BY <1>5, <1>7 DEF Shows
<1>r. /\ rest \in Seq(Cores) /\ Range(rest) = Range(list) \ {Core} /\ OneEach(rest)
  BY <1>3, Left
<1>o. others # <<>> => others[1] \in Range(list) \ {current}
  BY <1>3, Left
<1> HIDE DEF rest, others
<1>n. NextCall = IF others = <<>> THEN NoCore ELSE others[1]
  BY DEF NextCall, others
<1>8. CASE Core \in Range(list)
  <2>1. /\ current' = (IF Core = current THEN NextCall ELSE current) /\ list' = rest
        /\ IF Core = current /\ NextCall # NoCore THEN Ask("resume", NextCall.call)
           ELSE modelQ' = modelQ
    BY <1>8 DEF OnReleased, HandOver, CurrentWithout, ListWithout, Listed, rest
  <2>2. NextCall = NoCore \/ NextCall \in Range(list) \ {current}
    BY <1>n, <1>o
  <2>3. current' \in Cores \union {NoCore} /\ CurrentIsListed'
    <3>1. current' = NoCore \/ current' \in Range(rest)
      BY <1>3, <1>r, <2>1, <2>2
    <3>2. QED
      BY <1>r, <1>3, <2>1, <3>1 DEF CurrentIsListed, Listed
  <2>4. CallsListedOnce'
    BY <1>r, <2>1 DEF CallsListedOnce, OneEach
  <2>5. modelQ' = modelQ \/ \E o \in Work : o.kind # "dial" /\ modelQ' = Append(modelQ, o)
    <3>1. CASE Core = current /\ NextCall # NoCore
      <4>1. NextCall \in Cores
        BY <1>3, <2>2, <3>1
      <4>2. NextCall.call \in Calls
        BY <4>1 DEF Cores
      <4>3. [kind |-> "resume", call |-> NextCall.call] \in Work
        BY <4>2, WorkParts
      <4>4. modelQ' = Append(modelQ, [kind |-> "resume", call |-> NextCall.call])
        BY <2>1, <3>1 DEF Ask
      <4>5. QED
        BY <4>3, <4>4
    <3>2. CASE ~(Core = current /\ NextCall # NoCore)
      BY <2>1, <3>2
    <3>3. QED
      BY <3>1, <3>2
  <2>6. \A i \in DOMAIN modelQ : i \in DOMAIN modelQ' /\ modelQ'[i] = modelQ[i]
    BY <1>3, <2>5, Appended
  <2>7. Advances(sdk, list, cores, current, guiQ, list', cores', current')
    <3>1. \A c \in Calls : sdk[c] = "StreamsRunning" => (Shows(current, c) => Shows(current', c))
      BY <1>7, <2>1
    <3>2. QED
      BY <1>2, <1>4, <1>5, <1>6, <1>r, <2>1, <3>1 DEF Advances
  <2>8. LastWordIsRight(getCalls, haveCall', Tail(guiQ), modelQ')
    BY <1>2, <1>4, <2>6, WordOfOther
  <2>9. QED
    BY <1>2, <1>3, <1>4, <1>r, <2>1, <2>3, <2>4, <2>5, <2>7, <2>8, NextGui
<1>9. CASE Core \notin Range(list)
  <2>1. UNCHANGED <<modelQ, current, list>>
    BY <1>9 DEF OnReleased, Listed
  <2>2. CurrentIsListed' /\ CallsListedOnce'
    BY <2>1 DEF IInv, CurrentIsListed, CallsListedOnce, Listed
  <2>3. Advances(sdk, list, cores, current, guiQ, list', cores', current')
    BY <1>2, <1>4, <1>5, <1>6, <1>9, <2>1 DEF Advances
  <2>4. LastWordIsRight(getCalls, haveCall', Tail(guiQ), modelQ')
    BY <1>2, <1>4, <2>1, WordOfOther
  <2>5. QED
    BY <1>2, <1>3, <1>4, <2>1, <2>2, <2>3, <2>4, NextGui
<1>10. QED
  BY <1>8, <1>9

-----------------------------------------------------------------------------
(* The theorems *)

\* With nothing queued the list is the only place.
LEMMA OnlyTheList ==
  /\ Places(<<>>) = {0} /\ DOMAIN <<>> = {} /\ Range(<<>>) = {}
  /\ \A l : Brought(l, <<>>, 0) = Range(l)
BY DEF Places, Brought, Range

\* Before the first call nothing is told.
LEMMA InitIInv ==
  ASSUME Init
  PROVE  IInv
<1>1. /\ sdk = [c \in Calls |-> "Idle"] /\ heard = [c \in Calls |-> "Idle"]
      /\ getCalls = <<>> /\ waits = <<>> /\ registered \in BOOLEAN
      /\ cores = {} /\ snapshots = 0
      /\ modelQ = <<[kind |-> "update"]>> /\ guiQ = <<>>
      /\ list = <<>> /\ current = NoCore /\ haveCall = FALSE
  BY DEF Init
<1>2. /\ Places(guiQ) = {0} /\ DOMAIN guiQ = {} /\ Range(list) = {} /\ Brought(list, guiQ, 0) = {}
      /\ Range(getCalls) = {} /\ DOMAIN waits = {} /\ DOMAIN getCalls = {} /\ DOMAIN list = {}
  BY <1>1, OnlyTheList
<1>3. [kind |-> "update"] \in Work /\ \A c \in Calls : sdk[c] = "Idle"
  BY <1>1, WorkParts
<1>4. TypeOK
  <2>1. sdk \in [Calls -> States] /\ heard \in [Calls -> States]
    BY <1>1 DEF States
  <2>2. modelQ \in Seq(Work)
    BY <1>1, <1>3
  <2>3. Listed = {}
    BY <1>2 DEF Listed
  <2>4. /\ getCalls \in Seq(Calls) /\ waits \in Seq(Calls) /\ guiQ \in Seq(News)
        /\ list \in Seq(Cores)
    BY <1>1
  <2>5. QED
    BY <1>1, <2>1, <2>2, <2>3, <2>4 DEF TypeOK
<1>5. CurrentIsListed /\ CallsListedOnce
  BY <1>1, <1>2 DEF CurrentIsListed, CallsListedOnce
<1>6. LiveAreGiven(sdk, getCalls) /\ OneHasTheLine(sdk)
  BY <1>2, <1>3 DEF LiveAreGiven, OneHasTheLine, HasLine, Live, Ringing
<1>7. Told(sdk, getCalls, cores, snapshots, list, current, guiQ)
  <2>1. CoresAreOfCalls(sdk, cores, snapshots) /\ BroughtAreThere(list, cores, guiQ)
    BY <1>1, <1>2 DEF CoresAreOfCalls, BroughtAreThere
  <2>2. BroughtOnce(list, guiQ) /\ ReleasedWillLeave(sdk, list, guiQ) /\ ReleasedStayOut(sdk, guiQ)
    BY <1>2 DEF BroughtOnce, ReleasedWillLeave, ReleasedStayOut
  <2>3. /\ CreatedAreNew(list, guiQ) /\ SnapshotsAreSound(guiQ)
        /\ NewestStands(getCalls, cores, list, guiQ)
    BY <1>2 DEF CreatedAreNew, SnapshotsAreSound, NewestStands
  <2>4. RunningWillShow(sdk, list, current, guiQ)
    BY <1>3 DEF RunningWillShow
  <2>5. QED
    BY <2>1, <2>2, <2>3, <2>4 DEF Told
<1>8. LastWordIsRight(getCalls, haveCall, guiQ, modelQ)
  BY <1>1, <1>2 DEF LastWordIsRight
<1>9. DialsAreNew(sdk, registered, waits, modelQ)
  <2>1. \A i \in DOMAIN modelQ : modelQ[i].kind = "update"
    BY <1>1
  <2>2. QED
    BY <1>1, <1>2, <2>1 DEF DialsAreNew
<1>10. QED
  BY <1>4, <1>5, <1>6, <1>7, <1>8, <1>9 DEF IInv

\* Every step keeps the invariant.
LEMMA NextIInv ==
  ASSUME IInv, [Next]_vars
  PROVE  IInv'
<1>1. CASE Gui
  BY <1>1, OnCallCreatedStep, OnFirstCallStartedStep, OnLastCallEndedStep, OnResetStep,
     OnOtherStateStep, OnBusyStep, OnReleasedStep DEF Gui
<1>2. CASE Linphone
  BY <1>2, DialCallStep, SnapshotStep, CommandStep DEF Linphone
<1>3. CASE Network
  BY <1>3, RegistrationChangedStep, IncomingCallStep, AnsweredStep, ResumedStep, RemoteEndsStep,
     ReleasedStep DEF Network
<1>4. CASE User
  BY <1>4, DialStep, PressStep DEF User
<1>5. CASE UNCHANGED vars
  <2>1. /\ UNCHANGED <<sdk, getCalls, registered, waits, snapshots, cores, modelQ, guiQ>>
        /\ UNCHANGED <<list, current, haveCall, heard>>
    BY <1>5 DEF vars, modelVars, guiVars
  <2>2. TypeOK' /\ CurrentIsListed' /\ CallsListedOnce'
    BY <2>1 DEF IInv, TypeOK, CurrentIsListed, CallsListedOnce, Listed
  <2>3. QED
    BY <2>1, <2>2 DEF IInv
<1>6. QED
  BY <1>1, <1>2, <1>3, <1>4, <1>5 DEF Next

\* The inductive invariant: what is on its way to the list agrees with the calls.
THEOREM Invariance == Spec => []IInv
<1>1. Init => IInv
  BY InitIInv
<1>2. IInv /\ [Next]_vars => IInv'
  BY NextIInv
<1>3. QED
  BY <1>1, <1>2, PTL DEF Spec

\* The calls, the cores, the queues and the list keep their types, and no listed core is
\* one that is gone.
THEOREM TypeSafety == Spec => []TypeOK
<1>1. IInv => TypeOK
  BY DEF IInv
<1>2. QED
  BY <1>1, Invariance, PTL

\* The current call is one of the list, however releases, snapshots and answers cross
\* (CallList.cpp:135).
THEOREM CurrentSafety == Spec => []CurrentIsListed
<1>1. IInv => CurrentIsListed
  BY DEF IInv
<1>2. QED
  BY <1>1, Invariance, PTL

\* No call is listed twice, though callCreated appends without a look (CallList.cpp:135).
THEOREM OnceSafety == Spec => []CallsListedOnce
<1>1. IInv => CallsListedOnce
  BY DEF IInv
<1>2. QED
  BY <1>1, Invariance, PTL

\* With nothing on its way the list shows what the SDK has, and haveCall says so.
THEOREM ListSafety == Spec => []QuietListIsTrue
<1>1. IInv => QuietListIsTrue
  <2>1. SUFFICES ASSUME IInv, modelQ = <<>>, guiQ = <<>>
                 PROVE  LET shown == {k.call : k \in Listed}
                        IN  /\ Range(getCalls) \subseteq shown
                            /\ \A c \in shown : sdk[c] # "Released"
                            /\ haveCall = (getCalls # <<>>)
    BY DEF QuietListIsTrue, Quiet
  <2>2. /\ Places(guiQ) = {0} /\ DOMAIN guiQ = {} /\ DOMAIN modelQ = {}
        /\ Brought(list, guiQ, 0) = Listed
    BY <2>1, OnlyTheList DEF Listed
  <2>3. /\ NewestStands(getCalls, cores, list, guiQ) /\ ReleasedWillLeave(sdk, list, guiQ)
        /\ LastWordIsRight(getCalls, haveCall, guiQ, modelQ) /\ haveCall \in BOOLEAN
    BY <2>1 DEF IInv, Told, TypeOK
  <2>4. \A c \in Range(getCalls) : \E k \in Listed : k.call = c
    BY <2>2, <2>3 DEF NewestStands
  <2>5. \A k \in Listed : sdk[k.call] # "Released"
    BY <2>2, <2>3 DEF ReleasedWillLeave
  <2>6. haveCall <=> getCalls # <<>>
    <3>1. ~UpdateDue(guiQ, modelQ)
      BY <2>2 DEF UpdateDue
    <3>2. QED
      BY <2>2, <2>3, <3>1 DEF LastWordIsRight
  <2>7. QED
    BY <2>3, <2>4, <2>5, <2>6
<1>2. QED
  BY <1>1, Invariance, PTL

\* With nothing on its way the current call is the one that has the line.
THEOREM RunningSafety == Spec => []QuietCurrentRuns
<1>1. IInv => QuietCurrentRuns
  <2>1. SUFFICES ASSUME IInv, guiQ = <<>>, NEW c \in Calls, sdk[c] = "StreamsRunning"
                 PROVE  current # NoCore /\ current.call = c
    BY DEF QuietCurrentRuns, Quiet
  <2>2. Places(guiQ) = {0}
    BY <2>1, OnlyTheList
  <2>3. RunningWillShow(sdk, list, current, guiQ)
    BY <2>1 DEF IInv, Told
  <2>4. MakesCurrent(list, current, guiQ, 0, c)
    BY <2>1, <2>2, <2>3 DEF RunningWillShow
  <2>5. QED
    BY <2>4 DEF MakesCurrent, Shows
<1>2. QED
  BY <1>1, Invariance, PTL

\* Only the account and the dialling change what waits for the account.
LEMMA WaitsStay ==
  ASSUME [Next]_vars, ~RegistrationChanged, ~DialCall
  PROVE  registered' = registered /\ waits' = waits
<1>1. CASE Gui
  BY <1>1 DEF Gui, OnCallCreated, OnFirstCallStarted, OnLastCallEnded, OnReset, OnOtherState,
              OnBusy, OnReleased, modelVars
<1>2. CASE Linphone
  BY <1>2 DEF Linphone, Snapshot, Command, Unplaced
<1>3. CASE Network
  BY <1>3 DEF Network, IncomingCall, Answered, Resumed, RemoteEnds, Released, Unplaced
<1>4. CASE User
  BY <1>4 DEF User, Dial, Press, modelVars
<1>5. CASE UNCHANGED vars
  BY <1>5 DEF vars, modelVars
<1>6. QED
  BY <1>1, <1>2, <1>3, <1>4, <1>5 DEF Next

\* A number that waits for the account is called once the account is registered, and
\* waits on until then, whatever their number (ToolModel.cpp:426).
THEOREM DialSafety == Spec => DialsArePlaced
<1> DEFINE Placed == \A c \in Range(waits) : IF registered' THEN sdk'[c] # "Idle" ELSE c \in Range(waits')
<1>1. IInv /\ [Next]_vars => [Placed]_vars
  <2>1. SUFFICES ASSUME IInv, [Next]_vars, NEW c \in Range(waits)
                 PROVE  IF registered' THEN sdk'[c] # "Idle" ELSE c \in Range(waits')
    OBVIOUS
  <2>2. /\ waits \in Seq(Calls) /\ registered \in BOOLEAN /\ (registered => waits = <<>>)
    BY <2>1 DEF IInv, TypeOK, DialsAreNew
  <2>3. c \in Calls /\ ~registered
    <3>1. c \in Calls
      BY <2>2 DEF Range
    <3>2. registered => Range(waits) = {}
      BY <2>2, OnlyTheList
    <3>3. QED
      BY <3>1, <3>2
  <2>4. CASE RegistrationChanged
    <3>1. registered'
      BY <2>3, <2>4 DEF RegistrationChanged
    <3>2. Dialled(World, Redialled(waits), Range(waits)) /\ sdk' = Redialled(waits).sdk
      BY <2>1, <2>4, <3>1, RegistrationChangedStep
    <3>3. sdk'[c] # "Idle"
      BY <2>3, <3>2 DEF Dialled
    <3>4. QED
      BY <3>1, <3>3
  <2>5. CASE DialCall
    <3>1. registered' = registered /\ waits' = Append(waits, Call)
      BY <2>3, <2>5 DEF DialCall, Wait
    <3>2. Call \in Calls
      BY <2>1, <2>5, TakeParts DEF DialCall
    <3>3. c \in Range(Append(waits, Call))
      <4>1. PICK i \in DOMAIN waits : waits[i] = c
        BY DEF Range
      <4>2. i \in DOMAIN Append(waits, Call) /\ Append(waits, Call)[i] = c
        BY <2>2, <3>2, <4>1, Appended
      <4>3. QED
        BY <4>2 DEF Range
    <3>4. QED
      BY <2>3, <3>1, <3>3
  <2>6. CASE ~RegistrationChanged /\ ~DialCall
    BY <2>1, <2>3, <2>6, WaitsStay
  <2>7. QED
    BY <2>4, <2>5, <2>6
<1>2. QED
  BY <1>1, Invariance, PTL DEF Spec, DialsArePlaced

=============================================================================
