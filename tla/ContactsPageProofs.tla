------------------------- MODULE ContactsPageProofs -------------------------
(* The types and the safety properties of ContactsPage, whatever the books, the runs of
   refresh() and the bounds.

   First what is in a queue that grows or is worked off, what its last word on the fetch is,
   and what the list shows as its events run; then that the page is well typed, that its
   first fetches are counted exactly, and that no refresh that waits shares its run with an
   agent.  On these rests the rest: its indicators have their watchdogs, what it says of the
   fetch is so, the empty state does not flash, and the list it settles on is current. *)
EXTENDS ContactsPage, QueueFacts

Books == [Lists -> Contents]

\* What each event carries.
LEMMA EventParts ==
  /\ \A e \in Events :
       /\ e.do \in {"created", "initialized", "unchanged", "synchronized",
                    "results", "fetching", "finished"}
       /\ e.do = "results" => e.found \in Books
       /\ e.do = "fetching" => e.value \in BOOLEAN
       /\ e.do = "finished" => e.batch \in Batches /\ e.succeeded \in BOOLEAN
  /\ \A what \in {"created", "initialized", "unchanged", "synchronized"} : [do |-> what] \in Events
  /\ \A books \in Books : [do |-> "results", found |-> books] \in Events
  /\ \A b \in BOOLEAN : Fetching(b) \in Events
  /\ \A b \in Batches, ok \in BOOLEAN :
       [do |-> "finished", batch |-> b, succeeded |-> ok] \in Events
BY DEF Events, Fetching, Books

\* What each task carries.
LEMMA TaskParts ==
  /\ \A t \in Tasks :
       /\ t.do \in {"createSearch", "readFetching", "search", "refresh"}
       /\ t.do = "refresh" => t.batch \in Batches
  /\ \A what \in {"createSearch", "readFetching", "search"} : [do |-> what] \in Tasks
  /\ \A b \in Batches : [do |-> "refresh", batch |-> b] \in Tasks
BY DEF Tasks

\* What is in a queue that grows, or whose head is taken.
LEMMA Queued ==
  ASSUME NEW S, NEW q \in Seq(S), NEW what
  PROVE  /\ \A e \in S : InQueue(Append(q, e), what) <=> InQueue(q, what) \/ e.do = what
         /\ q # <<>> => (InQueue(q, what) <=> InQueue(Tail(q), what) \/ Head(q).do = what)
<1>1. ASSUME NEW e \in S
      PROVE  InQueue(Append(q, e), what) <=> InQueue(q, what) \/ e.do = what
  BY Appended DEF InQueue
<1>2. ASSUME q # <<>>
      PROVE  InQueue(q, what) <=> InQueue(Tail(q), what) \/ Head(q).do = what
  <2>1. \A i \in DOMAIN q : i = 1 \/ i - 1 \in DOMAIN Tail(q)
    BY <1>2, Advanced
  <2>2. \A i \in DOMAIN Tail(q) : i + 1 \in DOMAIN q /\ Tail(q)[i] = q[i + 1]
    BY <1>2, Advanced
  <2>3. 1 \in DOMAIN q /\ Head(q) = q[1]
    BY <1>2, Advanced
  <2>4. \A i \in DOMAIN q : i = 1 \/ q[i] = Tail(q)[i - 1]
    BY <1>2, <2>1, Advanced
  <2>5. QED
    BY <2>1, <2>2, <2>3, <2>4 DEF InQueue
<1>3. QED
  BY <1>1, <1>2

\* The last word on the fetch that is on its way is right if this is the count.
LastChangeIs(q, count) ==
  \A i \in DOMAIN q :
    q[i].do = "fetching" /\ (\A j \in DOMAIN q : j > i => q[j].do # "fetching")
      => (q[i].value <=> count > 0)

\* A change that is posted becomes the last word; anything else leaves it.
LEMMA LastChangeAppend ==
  ASSUME NEW q \in Seq(Events), NEW count \in Nat
  PROVE  /\ \A e \in Events : e.do # "fetching" /\ LastChangeIs(q, count)
                                => LastChangeIs(Append(q, e), count)
         /\ LastChangeIs(Append(q, Fetching(count > 0)), count)
         /\ count > 0 => LastChangeIs(Append(q, Fetching(TRUE)), count)
         /\ count = 0 => LastChangeIs(Append(q, Fetching(FALSE)), count)
<1>1. ASSUME NEW e \in Events, e.do # "fetching", LastChangeIs(q, count)
      PROVE  LastChangeIs(Append(q, e), count)
  <2>1. SUFFICES ASSUME NEW i \in DOMAIN Append(q, e), Append(q, e)[i].do = "fetching",
                        \A j \in DOMAIN Append(q, e) : j > i => Append(q, e)[j].do # "fetching"
                 PROVE  Append(q, e)[i].value <=> count > 0
    BY DEF LastChangeIs
  <2>2. i \in DOMAIN q /\ Append(q, e)[i] = q[i]
    BY <1>1, <2>1, Appended
  <2>3. \A j \in DOMAIN q : j > i => q[j].do # "fetching"
    BY <2>1, Appended
  <2>4. QED
    BY <1>1, <2>1, <2>2, <2>3 DEF LastChangeIs
<1>2. ASSUME NEW b \in BOOLEAN, b <=> count > 0
      PROVE  LastChangeIs(Append(q, Fetching(b)), count)
  <2> DEFINE e == Fetching(b)
  <2>a. e \in Events /\ e.do = "fetching" /\ (e.value <=> b)
    BY EventParts DEF Fetching
  <2> HIDE DEF e
  <2>1. SUFFICES ASSUME NEW i \in DOMAIN Append(q, e),
                        \A j \in DOMAIN Append(q, e) : j > i => Append(q, e)[j].do # "fetching"
                 PROVE  Append(q, e)[i].value <=> count > 0
    BY DEF LastChangeIs, e
  <2>2. i = Len(q) + 1
    BY <2>a, <2>1, Appended
  <2>3. Append(q, e)[i] = e
    BY <2>a, <2>2, Appended
  <2>4. QED
    BY <1>2, <2>a, <2>3
<1>3. LastChangeIs(Append(q, Fetching(count > 0)), count)
  <2>1. (count > 0) \in BOOLEAN
    OBVIOUS
  <2>2. QED
    BY <1>2, <2>1
<1>4. ASSUME count > 0 PROVE LastChangeIs(Append(q, Fetching(TRUE)), count)
  BY <1>2, <1>4
<1>5. ASSUME count = 0 PROVE LastChangeIs(Append(q, Fetching(FALSE)), count)
  <2>1. FALSE <=> count > 0
    BY <1>5
  <2>2. QED
    BY <1>2, <2>1
<1>6. QED
  BY <1>1, <1>3, <1>4, <1>5

\* The last word stays the last as the queue is worked off, until it is said.
LEMMA LastChangeTail ==
  ASSUME NEW q \in Seq(Events), NEW count, q # <<>>, LastChangeIs(q, count)
  PROVE  /\ LastChangeIs(Tail(q), count)
         /\ Head(q).do = "fetching" /\ ~InQueue(Tail(q), "fetching")
              => (Head(q).value <=> count > 0)
<1>1. LastChangeIs(Tail(q), count)
  <2>1. SUFFICES ASSUME NEW i \in DOMAIN Tail(q), Tail(q)[i].do = "fetching",
                        \A j \in DOMAIN Tail(q) : j > i => Tail(q)[j].do # "fetching"
                 PROVE  Tail(q)[i].value <=> count > 0
    BY DEF LastChangeIs
  <2>2. i + 1 \in DOMAIN q /\ Tail(q)[i] = q[i + 1]
    BY Advanced
  <2>3. ASSUME NEW j \in DOMAIN q, j > i + 1 PROVE q[j].do # "fetching"
    <3>1. j - 1 \in DOMAIN Tail(q) /\ j - 1 > i /\ Tail(q)[j - 1] = q[j]
      BY <2>3, Advanced
    <3>2. QED
      BY <2>1, <3>1
  <2>4. QED
    BY <2>1, <2>2, <2>3 DEF LastChangeIs
<1>2. ASSUME Head(q).do = "fetching", ~InQueue(Tail(q), "fetching")
      PROVE  Head(q).value <=> count > 0
  <2>1. 1 \in DOMAIN q /\ Head(q) = q[1]
    BY Advanced
  <2>2. ASSUME NEW j \in DOMAIN q, j > 1 PROVE q[j].do # "fetching"
    <3>1. j - 1 \in DOMAIN Tail(q) /\ Tail(q)[j - 1] = q[j]
      BY <2>2, Advanced
    <3>2. QED
      BY <1>2, <3>1 DEF InQueue
  <2>3. QED
    BY <1>2, <2>1, <2>2 DEF LastChangeIs
<1>3. QED
  BY <1>1, <1>2

\* Any count that is zero when this one is will do.
LEMMA SameChange ==
  ASSUME NEW q, NEW count, NEW other, LastChangeIs(q, count), count > 0 <=> other > 0
  PROVE  LastChangeIs(q, other)
BY DEF LastChangeIs

\* The list shows these books once the first i events have run.
After(q, s, i, books) ==
  \/ /\ \A j \in 1 .. i : q[j].do # "results"
     /\ books = s
  \/ \E k \in 1 .. i :
       /\ q[k].do = "results" /\ books = q[k].found
       /\ \A j \in k + 1 .. i : q[j].do # "results"

\* What the list shows once the head of the queue has run.
Showing(q, s) == IF Head(q).do = "results" THEN Head(q).found ELSE s

\* What is appended leaves what the list shows up to there, and results replace it.
LEMMA AfterAppend ==
  ASSUME NEW q \in Seq(Events), NEW s, NEW e \in Events, NEW books
  PROVE  /\ \A i \in 0 .. Len(q) : After(Append(q, e), s, i, books) => After(q, s, i, books)
         /\ e.do = "results" => (After(Append(q, e), s, Len(q) + 1, books) => books = e.found)
         /\ e.do # "results" => (After(Append(q, e), s, Len(q) + 1, books)
                                   => After(q, s, Len(q), books))
<1> DEFINE n == Len(q)
           r == Append(q, e)
<1>a. n \in Nat /\ r[n + 1] = e /\ \A j \in 1 .. n : r[j] = q[j]
  BY Appended
<1> HIDE DEF n, r
<1>1. ASSUME NEW i \in 0 .. n, After(r, s, i, books)
      PROVE  After(q, s, i, books)
  <2>1. \A j \in 1 .. i : r[j] = q[j]
    BY <1>a
  <2>2. CASE (\A j \in 1 .. i : r[j].do # "results") /\ books = s
    BY <2>1, <2>2 DEF After
  <2>3. ASSUME NEW k \in 1 .. i, r[k].do = "results", books = r[k].found,
               \A j \in k + 1 .. i : r[j].do # "results"
        PROVE  After(q, s, i, books)
    <3>1. \A j \in k + 1 .. i : j \in 1 .. i
      BY <1>a
    <3>2. q[k].do = "results" /\ books = q[k].found /\ \A j \in k + 1 .. i : q[j].do # "results"
      BY <2>1, <2>3, <3>1
    <3>3. QED
      BY <3>2 DEF After
  <2>4. QED
    BY <1>1, <2>2, <2>3 DEF After
<1>2. ASSUME e.do = "results", After(r, s, n + 1, books)
      PROVE  books = e.found
  <2>1. n + 1 \in 1 .. n + 1 /\ \A k \in 1 .. n : n + 1 \in k + 1 .. n + 1
    BY <1>a
  <2>2. \A k \in 1 .. n + 1 : k = n + 1 \/ k \in 1 .. n
    BY <1>a
  <2>3. QED
    BY <1>a, <1>2, <2>1, <2>2 DEF After
<1>3. ASSUME e.do # "results", After(r, s, n + 1, books)
      PROVE  After(q, s, n, books)
  <2>1. \A j \in 1 .. n : j \in 1 .. n + 1 /\ r[j] = q[j]
    BY <1>a
  <2>2. \A k \in 1 .. n + 1 : k = n + 1 \/ k \in 1 .. n
    BY <1>a
  <2>3. CASE (\A j \in 1 .. n + 1 : r[j].do # "results") /\ books = s
    BY <2>1, <2>3 DEF After
  <2>4. ASSUME NEW k \in 1 .. n + 1, r[k].do = "results", books = r[k].found,
               \A j \in k + 1 .. n + 1 : r[j].do # "results"
        PROVE  After(q, s, n, books)
    <3>1. k \in 1 .. n
      BY <1>a, <1>3, <2>2, <2>4
    <3>2. \A j \in k + 1 .. n : j \in k + 1 .. n + 1 /\ j \in 1 .. n
      BY <1>a, <3>1
    <3>3. q[k].do = "results" /\ books = q[k].found /\ \A j \in k + 1 .. n : q[j].do # "results"
      BY <2>1, <2>4, <3>1, <3>2
    <3>4. QED
      BY <3>1, <3>3 DEF After
  <2>5. QED
    BY <1>3, <2>3, <2>4 DEF After
<1>4. QED
  BY <1>1, <1>2, <1>3 DEF n, r

\* Running the head does not change what the list shows later.
LEMMA AfterTail ==
  ASSUME NEW q \in Seq(Events), q # <<>>, NEW s, NEW books, NEW i \in 0 .. Len(q) - 1,
         After(Tail(q), Showing(q, s), i, books)
  PROVE  After(q, s, i + 1, books)
<1>1. /\ Len(q) \in Nat \ {0} /\ Head(q) = q[1]
      /\ \A j \in 1 .. i : Tail(q)[j] = q[j + 1]
  BY Advanced
<1>a. i \in Nat /\ 1 \in 1 .. i + 1
  BY <1>1
<1>2. CASE (\A j \in 1 .. i : Tail(q)[j].do # "results") /\ books = Showing(q, s)
  <2>1. ASSUME NEW j \in 2 .. i + 1 PROVE q[j].do # "results"
    <3>1. j - 1 \in 1 .. i /\ (j - 1) + 1 = j
      BY <1>a
    <3>2. QED
      BY <1>1, <1>2, <3>1
  <2>2. CASE q[1].do = "results"
    <3>1. books = q[1].found
      BY <1>1, <1>2, <2>2 DEF Showing
    <3>2. \A j \in 1 + 1 .. i + 1 : q[j].do # "results"
      BY <2>1
    <3>3. QED
      BY <1>a, <2>2, <3>1, <3>2 DEF After
  <2>3. CASE q[1].do # "results"
    <3>1. books = s
      BY <1>1, <1>2, <2>3 DEF Showing
    <3>2. \A j \in 1 .. i + 1 : j = 1 \/ j \in 2 .. i + 1
      BY <1>a
    <3>3. QED
      BY <2>1, <2>3, <3>1, <3>2 DEF After
  <2>4. QED
    BY <2>2, <2>3
<1>3. ASSUME NEW k \in 1 .. i, Tail(q)[k].do = "results", books = Tail(q)[k].found,
             \A j \in k + 1 .. i : Tail(q)[j].do # "results"
      PROVE  After(q, s, i + 1, books)
  <2>1. k + 1 \in 1 .. i + 1 /\ q[k + 1].do = "results" /\ books = q[k + 1].found
    BY <1>1, <1>3, <1>a
  <2>2. ASSUME NEW j \in (k + 1) + 1 .. i + 1 PROVE q[j].do # "results"
    <3>1. j - 1 \in k + 1 .. i /\ j - 1 \in 1 .. i /\ (j - 1) + 1 = j
      BY <1>a
    <3>2. QED
      BY <1>1, <1>3, <3>1
  <2>3. QED
    BY <2>1, <2>2 DEF After
<1>4. QED
  BY <1>2, <1>3 DEF After

\* Results that nothing of a fetch or a sync follows leave the list among these books.
Landed(q, s, good) ==
  \A i \in DOMAIN q :
    /\ q[i].do \in {"results", "unchanged"}
    /\ \A j \in DOMAIN q : j > i => q[j].do \notin {"fetching", "synchronized"}
    => \A books \in Books : After(q, s, i, books) => books \in good

\* What has to hold of an event for the queue to stay right with it.
LEMMA LandedAppend ==
  ASSUME NEW q \in Seq(Events), NEW s, NEW e \in Events, NEW good
  PROVE  /\ e.do \in {"fetching", "synchronized"} => Landed(Append(q, e), s, good)
         /\ /\ Landed(q, s, good)
            /\ e.do = "results" => e.found \in good
            /\ e.do = "unchanged" =>
                 \A books \in Books : After(q, s, Len(q), books) => books \in good
            => Landed(Append(q, e), s, good)
<1> DEFINE n == Len(q)
           r == Append(q, e)
<1>a. /\ n \in Nat /\ DOMAIN q = 1 .. n /\ DOMAIN r = 1 .. n + 1
      /\ r[n + 1] = e /\ \A j \in 1 .. n : r[j] = q[j]
  BY Appended
<1>b. /\ \A i \in 0 .. n, books \in Books : After(r, s, i, books) => After(q, s, i, books)
      /\ \A books \in Books : e.do = "results" /\ After(r, s, n + 1, books) => books = e.found
      /\ \A books \in Books : e.do # "results" /\ After(r, s, n + 1, books) => After(q, s, n, books)
  BY AfterAppend
<1> HIDE DEF n, r
<1>1. ASSUME e.do \in {"fetching", "synchronized"} PROVE Landed(r, s, good)
  <2>1. SUFFICES ASSUME NEW i \in DOMAIN r, r[i].do \in {"results", "unchanged"},
                        \A j \in DOMAIN r : j > i => r[j].do \notin {"fetching", "synchronized"}
                 PROVE  FALSE
    BY DEF Landed
  <2>2. i # n + 1
    BY <1>1, <1>a, <2>1
  <2>3. n + 1 \in DOMAIN r /\ n + 1 > i
    BY <1>a, <2>2
  <2>4. QED
    BY <1>1, <1>a, <2>1, <2>3
<1>2. ASSUME Landed(q, s, good), e.do = "results" => e.found \in good,
             e.do = "unchanged" =>
               \A books \in Books : After(q, s, n, books) => books \in good
      PROVE  Landed(r, s, good)
  <2>1. SUFFICES ASSUME NEW i \in DOMAIN r, r[i].do \in {"results", "unchanged"},
                        \A j \in DOMAIN r : j > i => r[j].do \notin {"fetching", "synchronized"},
                        NEW books \in Books, After(r, s, i, books)
                 PROVE  books \in good
    BY DEF Landed
  <2>2. CASE i = n + 1
    <3>1. CASE e.do = "results"
      BY <1>2, <1>b, <2>1, <2>2, <3>1
    <3>2. CASE e.do = "unchanged"
      BY <1>2, <1>b, <2>1, <2>2, <3>2
    <3>3. QED
      BY <1>a, <2>1, <2>2, <3>1, <3>2
  <2>3. CASE i # n + 1
    <3>1. i \in 1 .. n /\ i \in 0 .. n
      BY <1>a, <2>3
    <3>2. q[i].do \in {"results", "unchanged"} /\ After(q, s, i, books)
      BY <1>a, <1>b, <2>1, <3>1
    <3>3. \A j \in DOMAIN q : j > i => q[j].do \notin {"fetching", "synchronized"}
      BY <1>a, <2>1
    <3>4. QED
      BY <1>2, <1>a, <3>1, <3>2, <3>3 DEF Landed
  <2>4. QED
    BY <2>2, <2>3
<1>3. QED
  BY <1>1, <1>2 DEF n, r

\* Running the head keeps the rest of the queue right.
LEMMA LandedTail ==
  ASSUME NEW q \in Seq(Events), q # <<>>, NEW s, NEW good, Landed(q, s, good)
  PROVE  Landed(Tail(q), Showing(q, s), good)
<1>1. SUFFICES ASSUME NEW i \in DOMAIN Tail(q), Tail(q)[i].do \in {"results", "unchanged"},
                      \A j \in DOMAIN Tail(q) : j > i =>
                        Tail(q)[j].do \notin {"fetching", "synchronized"},
                      NEW books \in Books, After(Tail(q), Showing(q, s), i, books)
               PROVE  books \in good
  BY DEF Landed
<1>2. i \in 0 .. Len(q) - 1 /\ i + 1 \in DOMAIN q /\ Tail(q)[i] = q[i + 1]
  BY Advanced
<1>3. After(q, s, i + 1, books)
  BY <1>1, <1>2, AfterTail
<1>4. ASSUME NEW j \in DOMAIN q, j > i + 1 PROVE q[j].do \notin {"fetching", "synchronized"}
  <2>1. j - 1 \in DOMAIN Tail(q) /\ j - 1 > i /\ Tail(q)[j - 1] = q[j]
    BY <1>2, <1>4, Advanced
  <2>2. QED
    BY <1>1, <2>1
<1>5. QED
  BY <1>1, <1>2, <1>3, <1>4 DEF Landed

-----------------------------------------------------------------------------

(* The linphone thread touches none of the page's state. *)
LEMMA LinphoneLeavesThePage == Linphone => UNCHANGED <<connected, guiVars>>
BY DEF Linphone, CreateSearch, ReadFetching, Search, StartRefresh, TimerSync, Provision,
       AddByHand, SyncReports, AgentHears, SearchReports

\* The initial states are well typed.
LEMMA InitTypes == Init => TypeOK
<1> SUFFICES ASSUME Init PROVE TypeOK
  OBVIOUS
<1>1. shown \in [Lists -> Contents] /\ stored \in [Lists -> Contents] /\ lists \subseteq Lists
  BY EmptyAssumption DEF Init
<1>2. coreQ \in Seq(Events) /\ modelQ \in Seq(Tasks)
  BY DEF Init
<1>3. QED
  BY <1>1, <1>2 DEF Init, TypeOK

\* The agents of one run, in the form the count needs.
New(on, batch, books) == {[list |-> l, first |-> books[l] = Empty, batch |-> batch] : l \in on}

\* A run of agents that starts keeps the types and adds one agent for each list.
LEMMA StartTypes ==
  ASSUME TypeOK, NEW on \in SUBSET Lists, NEW batch \in Batches \union {Announced},
         Start(on, batch, stored)
  PROVE  /\ agents' = agents \union New(on, batch, stored)
         /\ agents' \subseteq Agents
         /\ fetches' = fetches + Cardinality({l \in on : stored[l] = Empty}) /\ fetches' \in Nat
         /\ coreQ' \in Seq(Events)
<1> DEFINE empty == {l \in on : stored[l] = Empty}
<1>1. agents' = agents \union New(on, batch, stored)
  <2>1. \A l \in on : (l \in empty) = (stored[l] = Empty)
    OBVIOUS
  <2>2. {[list |-> l, first |-> l \in empty, batch |-> batch] : l \in on} = New(on, batch, stored)
    <3> HIDE DEF empty
    <3>1. QED
      BY <2>1 DEF New
  <2>3. QED
    BY <2>2 DEF Start
<1>2. New(on, batch, stored) \subseteq Agents
  <2>1. SUFFICES ASSUME NEW l \in on
                 PROVE  [list |-> l, first |-> stored[l] = Empty, batch |-> batch] \in Agents
    BY DEF New
  <2>2. (stored[l] = Empty) \in BOOLEAN /\ l \in Lists
    OBVIOUS
  <2>3. QED
    BY <2>2 DEF Agents
<1>3. IsFiniteSet(empty) /\ Cardinality(empty) \in Nat
  BY ListsAssumption, FS_Subset, FS_CardinalityType
<1>4. coreQ' = coreQ \/ coreQ' = Append(coreQ, Fetching(TRUE))
  BY DEF Start
<1>5. fetches' = fetches + Cardinality(empty)
  BY DEF Start
<1>6. coreQ' \in Seq(Events)
  <2>1. coreQ \in Seq(Events) /\ Fetching(TRUE) \in Events
    BY EventParts DEF TypeOK
  <2>2. Append(coreQ, Fetching(TRUE)) \in Seq(Events)
    BY <2>1, Appended
  <2>3. QED
    BY <1>4, <2>1, <2>2
<1>7. agents' \subseteq Agents
  BY <1>1, <1>2 DEF TypeOK
<1>8. fetches' \in Nat
  <2>1. fetches \in Nat
    BY DEF TypeOK
  <2> HIDE DEF empty
  <2>2. QED
    BY <1>3, <1>5, <2>1
<1>9. QED
  BY <1>1, <1>5, <1>6, <1>7, <1>8

\* The types of the page, of the queues and of the linphone thread's state.
PageTypes ==
  /\ connected \in BOOLEAN /\ loaded \in BOOLEAN /\ syncing \in BOOLEAN /\ lastFailed \in BOOLEAN
  /\ fetching \in BOOLEAN /\ awaiting \in BOOLEAN /\ searching \in BOOLEAN /\ gaveUp \in BOOLEAN
  /\ timers \subseteq Watchdogs
  /\ shown \in [Lists -> Contents]

QueueTypes == coreQ \in Seq(Events) /\ modelQ \in Seq(Tasks)

ServiceTypes ==
  /\ lists \subseteq Lists
  /\ stored \in [Lists -> Contents]
  /\ agents \subseteq Agents
  /\ anyFailed \subseteq Batches
  /\ reporting \in [list : Lists, succeeded : BOOLEAN] \union {Nothing}
  /\ fetches \in Nat /\ requests \in Nat
  /\ lastHash \in [Lists -> {Hashed[c] : c \in Contents}] \union {Nothing}

\* The types, in the three parts that steps keep.
LEMMA TypeParts ==
  /\ TypeOK <=> PageTypes /\ QueueTypes /\ ServiceTypes
  /\ TypeOK' <=> PageTypes' /\ QueueTypes' /\ ServiceTypes'
BY DEF TypeOK, PageTypes, QueueTypes, ServiceTypes

\* The hash of the books is one of the hashes there are.
LEMMA HashType == TypeOK => Hash(stored) \in [Lists -> {Hashed[c] : c \in Contents}]
BY DEF TypeOK, Hash

\* Every agent starts on some list, and no run starts twice on one.
Starts ==
  \E on \in SUBSET Lists, batch \in Batches \union {Announced} :
    /\ Start(on, batch, stored)
    /\ \A a \in agents : a.list \in on => a.batch # batch
    /\ \/ batch = Announced /\ UNCHANGED modelQ
       \/ Take("refresh") /\ batch = Head(modelQ).batch
    /\ lists' \in SUBSET Lists /\ anyFailed' \in SUBSET anyFailed
    /\ Idle /\ UNCHANGED <<connected, guiVars, stored, reporting, requests, lastHash>>

\* A refresh with no list to sync is over.
NothingToRefresh ==
  /\ Take("refresh")
  /\ coreQ' = Append(coreQ, [do |-> "finished", batch |-> Head(modelQ).batch, succeeded |-> TRUE])
  /\ anyFailed' \in SUBSET anyFailed
  /\ UNCHANGED <<connected, guiVars, lists, stored, agents, reporting, fetches, requests, lastHash>>

\* The refreshes that wait, and the agents, are of different runs.
Apart(q, waiting) ==
  \A i \in DOMAIN q : q[i].do = "refresh" =>
    /\ \A a \in waiting : a.batch # q[i].batch
    /\ \A j \in DOMAIN q : j # i /\ q[j].do = "refresh" => q[j].batch # q[i].batch

\* Each refresh that waits has a run of its own.
RunsAreApart == Apart(modelQ, agents)

\* The task that is taken is the head of the queue.
LEMMA HeadTask ==
  ASSUME TypeOK, NEW what, Take(what)
  PROVE  /\ modelQ # <<>> /\ modelQ \in Seq(Tasks) /\ modelQ' = Tail(modelQ) /\ Idle
         /\ modelQ' \in Seq(Tasks) /\ Head(modelQ) \in Tasks /\ Head(modelQ).do = what
         /\ 1 \in DOMAIN modelQ /\ Head(modelQ) = modelQ[1]
BY Advanced DEF TypeOK, Take

\* The timer, provisioning and a refresh with lists to sync all start a run.
LEMMA TheStarts ==
  ASSUME TypeOK, RunsAreApart
  PROVE  /\ StartRefresh => Starts \/ NothingToRefresh
         /\ TimerSync => Starts
         /\ \A l \in Lists : Provision(l) => Starts
<1>1. ASSUME StartRefresh PROVE Starts \/ NothingToRefresh
  <2> DEFINE batch == Head(modelQ).batch
  <2>1. Take("refresh")
    BY <1>1 DEF StartRefresh
  <2>2. batch \in Batches /\ Head(modelQ) = modelQ[1] /\ 1 \in DOMAIN modelQ
        /\ Head(modelQ).do = "refresh"
    BY <2>1, HeadTask, TaskParts
  <2>3. \A a \in agents : a.batch # batch
    BY <2>2 DEF RunsAreApart, Apart
  <2>4. anyFailed' \in SUBSET anyFailed
    BY <1>1 DEF StartRefresh
  <2>5. CASE lists = {}
    BY <1>1, <2>1, <2>4, <2>5 DEF StartRefresh, NothingToRefresh
  <2>6. CASE lists # {}
    <3>1. Start(lists, batch, stored) /\ lists' = lists
      BY <1>1, <2>6 DEF StartRefresh
    <3>2. lists \in SUBSET Lists
      BY DEF TypeOK
    <3>3. Idle /\ UNCHANGED <<connected, guiVars, stored, reporting, requests, lastHash>>
      BY <1>1, <2>1 DEF StartRefresh, Take
    <3> HIDE DEF batch
    <3>4. batch \in Batches \union {Announced} /\ Take("refresh") /\ batch = Head(modelQ).batch
      BY <2>1, <2>2 DEF batch
    <3>5. QED
      BY <2>3, <2>4, <3>1, <3>2, <3>3, <3>4 DEF Starts
  <2>7. QED
    BY <2>5, <2>6
<1>2. ASSUME TimerSync PROVE Starts
  <2>1. /\ Start(lists, Announced, stored) /\ lists' = lists /\ anyFailed' = anyFailed
        /\ \A a \in agents : a.batch # Announced
        /\ Idle /\ UNCHANGED modelQ
        /\ UNCHANGED <<connected, guiVars, stored, reporting, requests, lastHash>>
    BY <1>2 DEF TimerSync
  <2>2. lists \in SUBSET Lists
    BY DEF TypeOK
  <2>3. QED
    BY <2>1, <2>2 DEF Starts
<1>3. ASSUME NEW l \in Lists, Provision(l) PROVE Starts
  <2>1. /\ Start({l}, Announced, stored) /\ lists' = lists \union {l} /\ anyFailed' = anyFailed
        /\ \A a \in agents : a.list = l => a.batch # Announced
        /\ Idle /\ UNCHANGED modelQ
        /\ UNCHANGED <<connected, guiVars, stored, reporting, requests, lastHash>>
    BY <1>3 DEF Provision
  <2>2. {l} \in SUBSET Lists /\ lists' \in SUBSET Lists
    BY <2>1 DEF TypeOK
  <2>3. \A a \in agents : a.list \in {l} => a.batch # Announced
    BY <2>1
  <2>4. QED
    BY <2>1, <2>2, <2>3 DEF Starts
<1>4. QED
  BY <1>1, <1>2, <1>3

\* What the completion of an agent posts is one event or none.
LEMMA CompletedType ==
  ASSUME TypeOK, NEW a \in agents, reporting # Nothing
  PROVE  \/ Completed(a) = <<>>
         \/ \E e \in Events : Completed(a) = <<e>> /\ e.do \in {"synchronized", "finished"}
<1>1. a.batch \in Batches \union {Announced} /\ reporting.succeeded \in BOOLEAN
  BY DEF TypeOK, Agents
<1>2. CASE a.batch = Announced
  BY <1>2, EventParts DEF Completed
<1>3. CASE a.batch # Announced
  <2> DEFINE ok == reporting.succeeded /\ a.batch \notin anyFailed
             e == [do |-> "finished", batch |-> a.batch, succeeded |-> ok]
  <2>1. a.batch \in Batches /\ ok \in BOOLEAN
    BY <1>1, <1>3
  <2>2. e \in Events
    <3> HIDE DEF ok
    <3>1. QED
      BY <2>1, EventParts
  <2>3. e.do = "finished"
    OBVIOUS
  <2>4. Completed(a) \in {<<>>, <<e>>}
    BY <1>3 DEF Completed
  <2>5. QED
    BY <2>2, <2>3, <2>4
<1>4. QED
  BY <1>2, <1>3

\* The GUI thread touches none of the linphone thread's state.
LEMMA GuiLeavesTheServices == Gui => UNCHANGED <<syncVars, requests, lastHash>>
BY DEF Gui, GuiQueue, Construct, Created, Initialized, Results, Unchanged, Processed,
       FetchingChanged, Synchronized, Finished, SyncWatchdog, OnSyncFinished, LoadWatchdog,
       FetchWatchdog, Refresh, DateChanged

\* What the GUI thread takes from its queue, and what it asks for.
LEMMA GuiQueues ==
  ASSUME TypeOK, Gui
  PROVE  /\ \/ UNCHANGED coreQ
            \/ coreQ # <<>> /\ coreQ' = Tail(coreQ)
            \/ Created
         /\ \/ UNCHANGED modelQ
            \/ modelQ' = Append(modelQ, [do |-> "search"])
            \/ Construct
            \/ Refresh
<1>1. CASE Construct
  BY <1>1 DEF Construct
<1>2. CASE Created
  BY <1>2 DEF Created
<1>3. CASE Initialized
  BY <1>3 DEF Initialized, Next1
<1>4. CASE Results \/ Unchanged
  BY <1>4 DEF Results, Unchanged, Processed, Next1
<1>5. CASE FetchingChanged
  BY <1>5 DEF FetchingChanged, FetchOver, ForceUpdate, Next1
<1>6. CASE Synchronized
  BY <1>6 DEF Synchronized, ForceUpdate, Next1
<1>7. CASE Finished \/ SyncWatchdog
  <2>1. modelQ' = modelQ \/ modelQ' = Append(modelQ, [do |-> "search"])
    BY <1>7 DEF Finished, SyncWatchdog, OnSyncFinished, ForceUpdate
  <2>2. UNCHANGED coreQ \/ (coreQ # <<>> /\ coreQ' = Tail(coreQ))
    <3>1. CASE Finished
      BY <3>1 DEF Finished, Next1
    <3>2. CASE SyncWatchdog
      BY <3>2 DEF SyncWatchdog, OnSyncFinished
    <3>3. QED
      BY <1>7, <3>1, <3>2
  <2>3. QED
    BY <2>1, <2>2
<1>8. CASE LoadWatchdog \/ FetchWatchdog
  BY <1>8 DEF LoadWatchdog, FetchWatchdog
<1>9. CASE Refresh
  BY <1>9 DEF Refresh
<1>10. CASE DateChanged
  BY <1>10 DEF DateChanged, ForceUpdate
<1>11. QED
  BY <1>1, <1>2, <1>3, <1>4, <1>5, <1>6, <1>7, <1>8, <1>9, <1>10 DEF Gui, GuiQueue

\* A step keeps the types of the page's state.
LEMMA PageTypesNext == TypeOK /\ [Next]_vars => PageTypes'
<1> SUFFICES ASSUME TypeOK, [Next]_vars PROVE PageTypes'
  OBVIOUS
<1>t. PageTypes
  BY TypeParts
<1> USE DEF PageTypes, Watchdogs
<1>1. CASE Linphone
  BY <1>t, <1>1, LinphoneLeavesThePage DEF guiVars
<1>2. CASE Construct
  BY <1>t, <1>2 DEF Construct, LoadWatch
<1>3. CASE Created \/ Synchronized \/ DateChanged
  BY <1>t, <1>3 DEF Created, Synchronized, DateChanged, guiVars
<1>4. CASE Initialized
  BY <1>t, <1>4 DEF Initialized
<1>5. CASE Results \/ Unchanged
  <2>1. shown' \in [Lists -> Contents]
    <3>1. CASE Unchanged
      BY <1>t, <3>1 DEF Unchanged
    <3>2. CASE Results
      <4>1. coreQ # <<>> /\ Head(coreQ).do = "results" /\ shown' = Head(coreQ).found
        BY <3>2 DEF Results, Next1
      <4>2. Head(coreQ) \in Events
        BY <4>1, Advanced DEF TypeOK
      <4>3. QED
        BY <4>1, <4>2, EventParts DEF Books
    <3>3. QED
      BY <1>5, <3>1, <3>2
  <2>2. Processed
    BY <1>5 DEF Results, Unchanged
  <2>3. timers' \subseteq timers
    BY <2>2 DEF Processed
  <2>4. QED
    BY <1>t, <2>1, <2>2, <2>3 DEF Processed
<1>6. CASE FetchingChanged
  <2>1. UNCHANGED <<connected, loaded, syncing, lastFailed, searching, shown>>
    BY <1>6 DEF FetchingChanged
  <2>2. /\ timers' = timers \/ timers' = timers \union {"fetch"}
        /\ fetching' = fetching \/ fetching' = TRUE
        /\ awaiting' = awaiting \/ awaiting' = TRUE \/ awaiting' = FALSE
        /\ gaveUp' = gaveUp \/ gaveUp' = FALSE
    BY <1>6 DEF FetchingChanged, FetchOver
  <2>3. QED
    BY <1>t, <2>1, <2>2
<1>7. CASE Finished \/ SyncWatchdog
  <2>1. PICK ok \in BOOLEAN : OnSyncFinished(ok)
    <3>1. CASE SyncWatchdog
      BY <3>1 DEF SyncWatchdog
    <3>2. CASE Finished
      <4>1. coreQ # <<>> /\ Head(coreQ).do = "finished" /\ OnSyncFinished(Head(coreQ).succeeded)
        BY <3>2 DEF Finished, Next1
      <4>2. Head(coreQ) \in Events
        BY <4>1, Advanced DEF TypeOK
      <4>3. QED
        BY <4>1, <4>2, EventParts
    <3>3. QED
      BY <1>7, <3>1, <3>2
  <2>2. QED
    BY <1>t, <2>1 DEF OnSyncFinished
<1>8. CASE LoadWatchdog
  BY <1>t, <1>8 DEF LoadWatchdog
<1>9. CASE FetchWatchdog
  BY <1>t, <1>9 DEF FetchWatchdog
<1>10. CASE Refresh
  BY <1>t, <1>10 DEF Refresh, SyncWatch
<1>11. CASE UNCHANGED vars
  BY <1>t, <1>11 DEF vars, guiVars
<1>12. QED
  BY <1>1, <1>2, <1>3, <1>4, <1>5, <1>6, <1>7, <1>8, <1>9, <1>10, <1>11
  DEF Next, Gui, GuiQueue

\* Posting a list of one event, or of none.
LEMMA OneMore ==
  ASSUME NEW S, NEW q \in Seq(S), NEW e \in S
  PROVE  q \o <<e>> = Append(q, e) /\ q \o <<>> = q
OBVIOUS

\* What an agent that hears of its sync posts, one event after the other.
LEMMA HearingPosts ==
  ASSUME TypeOK, NEW a \in agents, AgentHears(a)
  PROVE  \E q \in Seq(Events) :
           /\ \/ q = coreQ /\ Completed(a) = <<>>
              \/ \E e \in Events : /\ q = Append(coreQ, e) /\ Completed(a) = <<e>>
                                   /\ e.do \in {"synchronized", "finished"}
           /\ coreQ' = IF a.first /\ fetches = 1 THEN Append(q, Fetching(FALSE)) ELSE q
           /\ coreQ' \in Seq(Events)
<1> DEFINE q == coreQ \o Completed(a)
<1>1. coreQ \in Seq(Events) /\ Fetching(FALSE) \in Events
  BY EventParts DEF TypeOK
<1>2. /\ q \in Seq(Events)
      /\ \/ q = coreQ /\ Completed(a) = <<>>
         \/ \E e \in Events : /\ q = Append(coreQ, e) /\ Completed(a) = <<e>>
                              /\ e.do \in {"synchronized", "finished"}
  <2>1. reporting # Nothing
    BY DEF AgentHears
  <2>2. CASE Completed(a) = <<>>
    BY <1>1, <2>2
  <2>3. ASSUME NEW e \in Events, Completed(a) = <<e>>, e.do \in {"synchronized", "finished"}
        PROVE  q \in Seq(Events) /\ q = Append(coreQ, e)
    BY <1>1, <2>3
  <2>4. QED
    BY <2>1, <2>2, <2>3, CompletedType
<1>3. coreQ' = q \o (IF a.first /\ fetches = 1 THEN <<Fetching(FALSE)>> ELSE <<>>)
  BY DEF AgentHears
<1> HIDE DEF q
<1>4. coreQ' = IF a.first /\ fetches = 1 THEN Append(q, Fetching(FALSE)) ELSE q
  <2>1. q \in Seq(Events)
    BY <1>2
  <2>2. q \o <<Fetching(FALSE)>> = Append(q, Fetching(FALSE)) /\ q \o <<>> = q
    BY <1>1, <2>1, OneMore
  <2>3. CASE a.first /\ fetches = 1
    BY <1>3, <2>2, <2>3
  <2>4. CASE ~(a.first /\ fetches = 1)
    BY <1>3, <2>2, <2>4
  <2>5. QED
    BY <2>3, <2>4
<1>5. coreQ' \in Seq(Events)
  BY <1>1, <1>2, <1>4, Appended
<1>6. QED
  BY <1>2, <1>4, <1>5

\* A step keeps the types of the queues.
LEMMA QueueTypesNext == TypeOK /\ RunsAreApart /\ [Next]_vars => QueueTypes'
<1> SUFFICES ASSUME TypeOK, RunsAreApart, [Next]_vars PROVE QueueTypes'
  OBVIOUS
<1>q. coreQ \in Seq(Events) /\ modelQ \in Seq(Tasks)
  BY DEF TypeOK
<1> USE DEF QueueTypes
<1>1. CASE CreateSearch
  <2>1. modelQ' \in Seq(Tasks) /\ coreQ' = Append(coreQ, [do |-> "created"])
    BY <1>1, HeadTask DEF CreateSearch
  <2>2. QED
    BY <1>q, <2>1, EventParts, Appended
<1>2. CASE ReadFetching
  <2>1. modelQ' \in Seq(Tasks) /\ coreQ' = Append(coreQ, Fetching(fetches > 0))
    BY <1>2, HeadTask DEF ReadFetching
  <2>2. Fetching(fetches > 0) \in Events
    <3>1. (fetches > 0) \in BOOLEAN
      OBVIOUS
    <3>2. QED
      BY <3>1, EventParts
  <2>3. QED
    BY <1>q, <2>1, <2>2, Appended
<1>3. CASE Search
  BY <1>q, <1>3, HeadTask DEF Search
<1>4. CASE Starts
  <2>1. modelQ' \in Seq(Tasks)
    BY <1>q, <1>4, HeadTask DEF Starts
  <2>2. QED
    BY <1>4, <2>1, StartTypes DEF Starts
<1>5. CASE NothingToRefresh
  <2>1. modelQ' \in Seq(Tasks) /\ Head(modelQ).batch \in Batches
    BY <1>5, HeadTask, TaskParts DEF NothingToRefresh
  <2>2. [do |-> "finished", batch |-> Head(modelQ).batch, succeeded |-> TRUE] \in Events
    BY <2>1, EventParts
  <2>3. QED
    BY <1>5, <1>q, <2>1, <2>2, Appended DEF NothingToRefresh
<1>6. CASE \E l \in Lists : AddByHand(l)
  BY <1>6, <1>q DEF AddByHand
<1>7. CASE \E l \in Lists, ok \in BOOLEAN : SyncReports(l, ok)
  BY <1>7, <1>q DEF SyncReports
<1>8. CASE \E a \in agents : AgentHears(a)
  <2>1. PICK a \in agents : AgentHears(a)
    BY <1>8
  <2>2. modelQ' = modelQ
    BY <2>1 DEF AgentHears
  <2>3. QED
    BY <1>q, <2>1, <2>2, HearingPosts
<1>9. CASE SearchReports
  <2>1. UNCHANGED modelQ /\ \E e \in Events : coreQ' = Append(coreQ, e)
    <3>1. stored \in Books
      BY DEF TypeOK, Books
    <3>2. QED
      BY <1>9, <3>1, EventParts DEF SearchReports
  <2>2. QED
    BY <1>q, <2>1, Appended
<1>10. CASE Gui
  <2>1. coreQ' \in Seq(Events)
    <3>1. CASE Created
      <4>1. coreQ # <<>> /\ coreQ' = Append(Tail(coreQ), [do |-> "initialized"])
        BY <3>1 DEF Created
      <4>2. Tail(coreQ) \in Seq(Events)
        BY <1>q, <4>1, Advanced
      <4>3. QED
        BY <4>1, <4>2, EventParts, Appended
    <3>2. QED
      BY <1>q, <1>10, <3>1, GuiQueues, Advanced
  <2>2. modelQ' \in Seq(Tasks)
    <3>1. CASE Construct
      <4>1. Asked \in Seq(Tasks)
        BY TaskParts DEF Asked
      <4>2. modelQ' = modelQ \o Asked
        BY <3>1 DEF Construct
      <4>3. QED
        BY <1>q, <4>1, <4>2
    <3>2. CASE Refresh
      BY <1>q, <3>2, TaskParts, Appended DEF Refresh
    <3>3. QED
      BY <1>q, <1>10, <3>1, <3>2, GuiQueues, TaskParts, Appended
  <2>3. QED
    BY <2>1, <2>2
<1>11. CASE UNCHANGED vars
  BY <1>11, <1>q DEF vars
<1>12. QED
  BY <1>1, <1>2, <1>3, <1>4, <1>5, <1>6, <1>7, <1>8, <1>9, <1>10, <1>11, TheStarts
  DEF Next, Linphone

\* A step keeps the types of the linphone thread's state.
LEMMA ServiceTypesNext == TypeOK /\ RunsAreApart /\ [Next]_vars => ServiceTypes'
<1> SUFFICES ASSUME TypeOK, RunsAreApart, [Next]_vars PROVE ServiceTypes'
  OBVIOUS
<1>t. ServiceTypes
  BY TypeParts
<1> USE DEF ServiceTypes
<1>1. CASE CreateSearch \/ ReadFetching
  BY <1>t, <1>1 DEF CreateSearch, ReadFetching, syncVars
<1>2. CASE Search
  BY <1>t, <1>2 DEF Search, syncVars
<1>3. CASE Starts
  <2>1. agents' \subseteq Agents /\ fetches' \in Nat
    BY <1>3, StartTypes DEF Starts
  <2>2. lists' \in SUBSET Lists /\ anyFailed' \in SUBSET anyFailed
        /\ UNCHANGED <<stored, reporting, requests, lastHash>>
    BY <1>3 DEF Starts
  <2>3. QED
    BY <1>t, <2>1, <2>2
<1>4. CASE NothingToRefresh
  <2>1. anyFailed' \in SUBSET anyFailed
    BY <1>4 DEF NothingToRefresh
  <2>2. UNCHANGED <<lists, stored, agents, reporting, fetches, requests, lastHash>>
    BY <1>4 DEF NothingToRefresh
  <2>3. QED
    BY <1>t, <2>1, <2>2
<1>5. ASSUME NEW l \in Lists, AddByHand(l) PROVE ServiceTypes'
  <2>1. lists' = lists \union {l}
        /\ agents' = agents \union {[list |-> l, first |-> FALSE, batch |-> Announced]}
    BY <1>5 DEF AddByHand
  <2>2. [list |-> l, first |-> FALSE, batch |-> Announced] \in Agents
    BY DEF Agents
  <2>3. UNCHANGED <<stored, anyFailed, reporting, fetches, requests, lastHash>>
    BY <1>5 DEF AddByHand
  <2>4. QED
    BY <1>t, <2>1, <2>2, <2>3
<1>6. ASSUME NEW l \in Lists, NEW ok \in BOOLEAN, SyncReports(l, ok) PROVE ServiceTypes'
  <2>1. stored' = stored \/ \E c \in Contents : stored' = [stored EXCEPT ![l] = c]
    BY <1>6 DEF SyncReports
  <2>2. stored' \in [Lists -> Contents]
    BY <1>t, <2>1
  <2>3. UNCHANGED <<lists, agents, anyFailed, fetches, requests, lastHash>>
    BY <1>6 DEF SyncReports
  <2>4. reporting' \in [list : Lists, succeeded : BOOLEAN]
    BY <1>6 DEF SyncReports
  <2>5. QED
    BY <1>t, <2>2, <2>3, <2>4
<1>7. ASSUME NEW a \in agents, AgentHears(a) PROVE ServiceTypes'
  <2>1. a.batch \in Batches \union {Announced}
    BY <1>t DEF Agents
  <2>2. anyFailed' \subseteq Batches
    BY <1>t, <1>7, <2>1 DEF AgentHears
  <2>3. agents' \subseteq Agents /\ reporting' \in {reporting, Nothing}
    BY <1>t, <1>7 DEF AgentHears
  <2>4. fetches' \in Nat
    BY <1>t, <1>7 DEF AgentHears, Counted
  <2>5. UNCHANGED <<lists, stored, requests, lastHash>>
    BY <1>7 DEF AgentHears
  <2>6. QED
    BY <1>t, <2>2, <2>3, <2>4, <2>5
<1>8. CASE SearchReports
  <2>1. requests' \in Nat /\ lastHash' = Hash(stored)
    BY <1>t, <1>8 DEF SearchReports
  <2>2. UNCHANGED <<lists, stored, agents, anyFailed, reporting, fetches>>
    BY <1>8 DEF SearchReports, syncVars
  <2>3. QED
    BY <1>t, <2>1, <2>2, HashType
<1>9. CASE Gui
  BY <1>t, <1>9, GuiLeavesTheServices DEF syncVars
<1>10. CASE UNCHANGED vars
  BY <1>t, <1>10 DEF vars, syncVars
<1>11. QED
  BY <1>1, <1>2, <1>3, <1>4, <1>5, <1>6, <1>7, <1>8, <1>9, <1>10, TheStarts
  DEF Next, Linphone

\* A step keeps every type.
LEMMA TypesNext == TypeOK /\ RunsAreApart /\ [Next]_vars => TypeOK'
BY PageTypesNext, QueueTypesNext, ServiceTypesNext, TypeParts

-----------------------------------------------------------------------------
(* The count of first fetches, and the runs of refresh() *)

\* The agents of a first fetch.
First == {a \in agents : a.first}

\* fetches counts them.
FetchesAreCounted ==
  /\ IsFiniteSet(agents)
  /\ fetches = Cardinality(First)

\* Renaming the elements of a finite set does not change their number.
LEMMA Renamed ==
  ASSUME NEW S, NEW T, IsFiniteSet(S), NEW f \in [S -> T],
         \A x, y \in S : f[x] = f[y] => x = y,
         \A t \in T : \E x \in S : f[x] = t
  PROVE  IsFiniteSet(T) /\ Cardinality(T) = Cardinality(S)
<1>1. f \in Bijection(S, T)
  BY Fun_IsBij
<1>2. ExistsBijection(S, T)
  BY <1>1 DEF ExistsBijection
<1>3. QED
  BY <1>2, FS_Bijection

\* The agents of a run are as many as its lists, and the first fetches as the empty ones.
LEMMA NewAgents ==
  ASSUME NEW on \in SUBSET Lists, NEW batch, NEW books
  PROVE  LET firsts == {a \in New(on, batch, books) : a.first}
             empty == {l \in on : books[l] = Empty}
         IN  /\ IsFiniteSet(New(on, batch, books))
             /\ IsFiniteSet(firsts) /\ IsFiniteSet(empty)
             /\ Cardinality(firsts) = Cardinality(empty)
<1> DEFINE new == New(on, batch, books)
           firsts == {a \in new : a.first}
           empty == {l \in on : books[l] = Empty}
           agent == [l \in on |-> [list |-> l, first |-> books[l] = Empty, batch |-> batch]]
           fetch == [l \in empty |-> agent[l]]
<1>1. IsFiniteSet(on) /\ IsFiniteSet(empty)
  BY ListsAssumption, FS_Subset
<1>2. IsFiniteSet(new)
  <2>1. agent \in [on -> new]
    BY DEF New
  <2>2. \A x, y \in on : agent[x] = agent[y] => x = y
    OBVIOUS
  <2>3. \A t \in new : \E x \in on : agent[x] = t
    BY DEF New
  <2> HIDE DEF agent, new
  <2>4. QED
    BY <1>1, <2>1, <2>2, <2>3, Renamed
<1>3. IsFiniteSet(firsts) /\ Cardinality(firsts) = Cardinality(empty)
  <2>1. fetch \in [empty -> firsts]
    BY DEF New
  <2>2. \A x, y \in empty : fetch[x] = fetch[y] => x = y
    OBVIOUS
  <2>3. ASSUME NEW t \in firsts PROVE \E x \in empty : fetch[x] = t
    <3>1. PICK l \in on : t = [list |-> l, first |-> books[l] = Empty, batch |-> batch]
      BY DEF New
    <3>2. t.first
      OBVIOUS
    <3>3. l \in empty
      BY <3>1, <3>2
    <3>4. QED
      BY <3>1, <3>3
  <2> HIDE DEF fetch, firsts, empty
  <2>4. QED
    BY <1>1, <2>1, <2>2, <2>3, Renamed
<1>4. QED
  BY <1>1, <1>2, <1>3

\* What a step may do to the agents: nothing, start some, add one that fetches nothing,
\* or end one.
LEMMA AgentSteps ==
  ASSUME TypeOK, RunsAreApart, [Next]_vars
  PROVE  \/ Starts
         \/ \E l \in Lists : AddByHand(l)
         \/ \E a \in agents : AgentHears(a)
         \/ UNCHANGED <<agents, fetches>>
<1>1. CASE Gui \/ UNCHANGED vars
  BY <1>1, GuiLeavesTheServices DEF vars, syncVars
<1>2. CASE Linphone
  BY <1>2, TheStarts
  DEF Linphone, CreateSearch, ReadFetching, Search, NothingToRefresh, SyncReports,
      SearchReports, syncVars
<1>3. QED
  BY <1>1, <1>2 DEF Next

\* The count stays exact: a start adds one for each empty list, the end of a first fetch takes one.
LEMMA CountNext == TypeOK /\ RunsAreApart /\ FetchesAreCounted /\ [Next]_vars => FetchesAreCounted'
<1> SUFFICES ASSUME TypeOK, RunsAreApart, FetchesAreCounted, [Next]_vars
             PROVE  FetchesAreCounted'
  OBVIOUS
<1>f. IsFiniteSet(First) /\ Cardinality(First) \in Nat /\ First \subseteq agents
  BY FS_Subset, FS_CardinalityType DEF FetchesAreCounted, First
<1>1. CASE Starts
  <2>1. PICK on \in SUBSET Lists, batch \in Batches \union {Announced} :
          Start(on, batch, stored) /\ \A a \in agents : a.list \in on => a.batch # batch
    BY <1>1 DEF Starts
  <2> DEFINE new == New(on, batch, stored)
             firsts == {a \in new : a.first}
             empty == {l \in on : stored[l] = Empty}
  <2>2. agents' = agents \union new /\ fetches' = fetches + Cardinality(empty)
    BY <2>1, StartTypes
  <2>3. /\ IsFiniteSet(new) /\ IsFiniteSet(firsts)
        /\ Cardinality(firsts) = Cardinality(empty)
    BY NewAgents
  <2>4. First' = First \union firsts
    <3> HIDE DEF new
    <3>1. QED
      BY <2>2 DEF First
  <2>5. First \cap firsts = {}
    BY <2>1 DEF First, New
  <2> HIDE DEF new, firsts, empty
  <2>6. IsFiniteSet(agents')
    BY <2>2, <2>3, FS_Union DEF FetchesAreCounted
  <2>7. Cardinality(First') = Cardinality(First) + Cardinality(firsts) - Cardinality(First \cap firsts)
    BY <1>f, <2>3, <2>4, FS_Union
  <2>8. Cardinality(firsts) \in Nat /\ Cardinality(First \cap firsts) = 0
    BY <2>3, <2>5, FS_CardinalityType, FS_EmptySet
  <2>9. QED
    BY <1>f, <2>2, <2>3, <2>6, <2>7, <2>8 DEF FetchesAreCounted
<1>2. ASSUME NEW l \in Lists, AddByHand(l) PROVE FetchesAreCounted'
  <2> DEFINE x == [list |-> l, first |-> FALSE, batch |-> Announced]
  <2>1. agents' = agents \union {x} /\ fetches' = fetches
    BY <1>2 DEF AddByHand
  <2>2. First' = First
    BY <2>1 DEF First
  <2> HIDE DEF x
  <2>3. QED
    BY <2>1, <2>2, FS_AddElement DEF FetchesAreCounted
<1>3. ASSUME NEW a \in agents, AgentHears(a) PROVE FetchesAreCounted'
  <2>1. agents' = agents \ {a} /\ fetches' = Counted(a)
    BY <1>3 DEF AgentHears
  <2>2. First' = First \ {a}
    BY <2>1 DEF First
  <2>3. IsFiniteSet(agents')
    BY <2>1, FS_RemoveElement DEF FetchesAreCounted
  <2>4. Cardinality(First') = IF a \in First THEN Cardinality(First) - 1 ELSE Cardinality(First)
    BY <1>f, <2>2, FS_RemoveElement
  <2>5. a.first <=> a \in First
    BY DEF First
  <2>6. a.first => fetches > 0
    <3>1. a.first => First # {}
      BY <2>5
    <3>2. QED
      BY <1>f, <3>1, FS_EmptySet DEF FetchesAreCounted
  <2>7. fetches' = Cardinality(First')
    BY <1>f, <2>1, <2>4, <2>5, <2>6 DEF Counted, FetchesAreCounted
  <2>8. QED
    BY <2>3, <2>7 DEF FetchesAreCounted
<1>4. CASE UNCHANGED <<agents, fetches>>
  BY <1>4 DEF FetchesAreCounted, First
<1>5. QED
  BY <1>1, <1>2, <1>3, <1>4, AgentSteps

\* The count is zero exactly when no agent makes a first fetch.
LEMMA Counts ==
  ASSUME TypeOK, FetchesAreCounted
  PROVE  /\ fetches \in Nat
         /\ fetches = 0 <=> \A a \in agents : ~a.first
<1>1. IsFiniteSet(First)
  BY FS_Subset DEF FetchesAreCounted, First
<1>2. Cardinality(First) = 0 <=> First = {}
  BY <1>1, FS_EmptySet
<1>3. First = {} <=> \A a \in agents : ~a.first
  BY DEF First
<1>4. QED
  BY <1>2, <1>3 DEF FetchesAreCounted, TypeOK

\* A refresh of a run of its own keeps the runs apart.
LEMMA ApartAppend ==
  ASSUME NEW q \in Seq(Tasks), NEW waiting, NEW t \in Tasks, Apart(q, waiting),
         t.do = "refresh" =>
           /\ \A a \in waiting : a.batch # t.batch
           /\ \A i \in DOMAIN q : q[i].do = "refresh" => q[i].batch # t.batch
  PROVE  Apart(Append(q, t), waiting)
<1> DEFINE r == Append(q, t)
<1>a. DOMAIN q = 1 .. Len(q) /\ DOMAIN r = 1 .. Len(q) + 1 /\ r[Len(q) + 1] = t
      /\ Len(q) \in Nat /\ \A i \in DOMAIN q : r[i] = q[i]
  BY Appended
<1> HIDE DEF r
<1>1. \A i \in DOMAIN r : (i \in DOMAIN q /\ r[i] = q[i]) \/ (i \notin DOMAIN q /\ r[i] = t)
  BY <1>a
<1>2. \A i, j \in DOMAIN r : i \notin DOMAIN q /\ j \notin DOMAIN q => i = j
  BY <1>a
<1>3. SUFFICES ASSUME NEW i \in DOMAIN r, r[i].do = "refresh"
               PROVE  /\ \A a \in waiting : a.batch # r[i].batch
                      /\ \A j \in DOMAIN r : j # i /\ r[j].do = "refresh" => r[j].batch # r[i].batch
  BY DEF Apart, r
<1>4. \A a \in waiting : a.batch # r[i].batch
  BY <1>1, <1>3 DEF Apart
<1>5. ASSUME NEW j \in DOMAIN r, j # i, r[j].do = "refresh" PROVE r[j].batch # r[i].batch
  BY <1>1, <1>2, <1>3, <1>5 DEF Apart
<1>6. QED
  BY <1>4, <1>5

\* A refresh that is taken leaves the others, none of its run.
LEMMA ApartTail ==
  ASSUME NEW q \in Seq(Tasks), q # <<>>, NEW waiting, Apart(q, waiting)
  PROVE  /\ Apart(Tail(q), waiting)
         /\ Head(q).do = "refresh" =>
              \A i \in DOMAIN Tail(q) : Tail(q)[i].do = "refresh" => Tail(q)[i].batch # Head(q).batch
<1>1. /\ 1 \in DOMAIN q /\ Head(q) = q[1]
      /\ \A i \in DOMAIN Tail(q) : i + 1 \in DOMAIN q /\ i + 1 # 1 /\ Tail(q)[i] = q[i + 1]
      /\ \A i, j \in DOMAIN Tail(q) : i # j => i + 1 # j + 1
  BY Advanced
<1>2. QED
  BY <1>1 DEF Apart

\* The runs stay apart: refresh() picks one that no agent and no waiting refresh has.
LEMMA RunsNext == TypeOK /\ RunsAreApart /\ [Next]_vars => RunsAreApart'
<1> SUFFICES ASSUME TypeOK, RunsAreApart, [Next]_vars
             PROVE  RunsAreApart'
  OBVIOUS
<1>q. modelQ \in Seq(Tasks) /\ Apart(modelQ, agents)
  BY DEF TypeOK, RunsAreApart
<1>1. CASE CreateSearch \/ ReadFetching \/ Search
  <2>1. modelQ # <<>> /\ modelQ' = Tail(modelQ) /\ agents' = agents
    BY <1>1 DEF CreateSearch, ReadFetching, Search, Take, syncVars
  <2>2. QED
    BY <1>q, <2>1, ApartTail DEF RunsAreApart
<1>2. CASE Starts
  <2>1. PICK on \in SUBSET Lists, batch \in Batches \union {Announced} :
          /\ Start(on, batch, stored)
          /\ \/ batch = Announced /\ UNCHANGED modelQ
             \/ Take("refresh") /\ batch = Head(modelQ).batch
    BY <1>2 DEF Starts
  <2>2. agents' = agents \union New(on, batch, stored)
    BY <2>1, StartTypes
  <2>3. \A a \in New(on, batch, stored) : a.batch = batch
    BY DEF New
  <2>4. /\ Apart(modelQ', agents)
        /\ \A i \in DOMAIN modelQ' : modelQ'[i].do = "refresh" => modelQ'[i].batch # batch
    <3>1. CASE batch = Announced /\ UNCHANGED modelQ
      <4>1. \A i \in DOMAIN modelQ : modelQ[i] \in Tasks
        BY <1>q
      <4>2. QED
        BY <1>q, <3>1, <4>1, TaskParts, BatchesAssumption DEF Announced
    <3>2. CASE Take("refresh") /\ batch = Head(modelQ).batch
      <4>1. modelQ # <<>> /\ Head(modelQ).do = "refresh" /\ modelQ' = Tail(modelQ)
        BY <3>2 DEF Take
      <4>2. QED
        BY <1>q, <3>2, <4>1, ApartTail
    <3>3. QED
      BY <2>1, <3>1, <3>2
  <2>5. QED
    BY <2>2, <2>3, <2>4 DEF RunsAreApart, Apart
<1>3. CASE NothingToRefresh
  <2>1. modelQ # <<>> /\ modelQ' = Tail(modelQ) /\ agents' = agents
    BY <1>3 DEF NothingToRefresh, Take
  <2>2. QED
    BY <1>q, <2>1, ApartTail DEF RunsAreApart
<1>4. ASSUME NEW l \in Lists, AddByHand(l) PROVE RunsAreApart'
  <2>1. modelQ' = modelQ
        /\ agents' = agents \union {[list |-> l, first |-> FALSE, batch |-> Announced]}
    BY <1>4 DEF AddByHand
  <2>2. \A i \in DOMAIN modelQ : modelQ[i].do = "refresh" => modelQ[i].batch # Announced
    <3>1. \A i \in DOMAIN modelQ : modelQ[i] \in Tasks
      BY <1>q
    <3>2. QED
      BY <3>1, TaskParts, BatchesAssumption DEF Announced
  <2>3. QED
    BY <1>q, <2>1, <2>2 DEF RunsAreApart, Apart
<1>5. CASE \/ \E l \in Lists, ok \in BOOLEAN : SyncReports(l, ok)
           \/ \E a \in agents : AgentHears(a)
           \/ SearchReports
  <2>1. modelQ' = modelQ /\ agents' \subseteq agents
    BY <1>5 DEF SyncReports, AgentHears, SearchReports, syncVars
  <2>2. QED
    BY <1>q, <2>1 DEF RunsAreApart, Apart
<1>6. CASE Gui
  <2>1. agents' = agents
    BY <1>6, GuiLeavesTheServices DEF syncVars
  <2>2. CASE Construct
    <3> DEFINE x == [do |-> "createSearch"]
               y == [do |-> "readFetching"]
    <3>1. modelQ' = Append(Append(modelQ, x), y)
      <4>1. modelQ' = modelQ \o <<x, y>>
        BY <2>2 DEF Construct, Asked
      <4>2. x \in Tasks /\ y \in Tasks
        BY TaskParts
      <4> HIDE DEF x, y
      <4>3. QED
        BY <1>q, <4>1, <4>2
    <3>2. x \in Tasks /\ y \in Tasks /\ x.do # "refresh" /\ y.do # "refresh"
      BY TaskParts
    <3> HIDE DEF x, y
    <3>3. Append(modelQ, x) \in Seq(Tasks) /\ Apart(Append(modelQ, x), agents)
      BY <1>q, <3>2, ApartAppend, Appended
    <3>4. QED
      BY <2>1, <3>1, <3>2, <3>3, ApartAppend DEF RunsAreApart
  <2>3. CASE Refresh
    <3>1. PICK b \in Batches \ InUse : modelQ' = Append(modelQ, [do |-> "refresh", batch |-> b])
      BY <2>3 DEF Refresh
    <3>2. \A a \in agents : a.batch # b
      BY <3>1 DEF InUse
    <3>3. \A i \in DOMAIN modelQ : modelQ[i].do = "refresh" => modelQ[i].batch # b
      BY <3>1 DEF InUse
    <3>4. [do |-> "refresh", batch |-> b] \in Tasks
      BY <3>1, TaskParts
    <3>5. QED
      BY <1>q, <2>1, <3>1, <3>2, <3>3, <3>4, ApartAppend DEF RunsAreApart
  <2>4. CASE modelQ' = Append(modelQ, [do |-> "search"])
    BY <1>q, <2>1, <2>4, TaskParts, ApartAppend DEF RunsAreApart
  <2>5. CASE UNCHANGED modelQ
    BY <1>q, <2>1, <2>5 DEF RunsAreApart
  <2>6. QED
    BY <1>6, <2>2, <2>3, <2>4, <2>5, GuiQueues
<1>7. CASE UNCHANGED vars
  BY <1>7, <1>q DEF vars, syncVars, RunsAreApart
<1>8. QED
  BY <1>1, <1>2, <1>3, <1>4, <1>5, <1>6, <1>7, TheStarts DEF Next, Linphone

-----------------------------------------------------------------------------
(* The page *)

\* At first no indicator is on.
LEMMA InitialTimers == Init => SpinnersAreWatched
BY DEF Init, SpinnersAreWatched

\* What raises an indicator starts its watchdog, what stops a watchdog lowers its indicator.
LEMMA TimersStep == SpinnersAreWatched /\ [Next]_vars => SpinnersAreWatched'
<1> SUFFICES ASSUME SpinnersAreWatched, [Next]_vars
             PROVE  SpinnersAreWatched'
  OBVIOUS
<1> USE DEF SpinnersAreWatched, guiVars
<1>1. CASE Linphone
  BY <1>1, LinphoneLeavesThePage
<1>2. CASE Construct
  BY <1>2 DEF Construct, LoadWatch
<1>3. CASE Created
  BY <1>3 DEF Created
<1>4. CASE Initialized
  BY <1>4 DEF Initialized
<1>5. CASE Processed
  \* What is taken off the timers is what the page stops showing.
  <2>1. CASE awaiting
    BY <1>5, <2>1 DEF Processed
  <2>2. CASE ~awaiting
    BY <1>5, <2>2 DEF Processed
  <2> QED
    BY <2>1, <2>2
<1>6. CASE Results \/ Unchanged
  BY <1>5, <1>6 DEF Results, Unchanged
<1>7. CASE FetchingChanged
  <2>1. CASE fetching' = TRUE /\ timers' = timers \union {"fetch"}
    BY <1>7, <2>1 DEF FetchingChanged
  <2>2. CASE UNCHANGED <<fetching, timers>>
    BY <1>7, <2>2 DEF FetchingChanged
  <2> QED
    BY <1>7, <2>1, <2>2 DEF FetchingChanged, FetchOver
<1>8. CASE Synchronized
  BY <1>8 DEF Synchronized
<1>9. CASE Finished \/ SyncWatchdog
  <2>1. /\ syncing' = FALSE /\ timers' = timers \ {"sync"}
        /\ UNCHANGED <<connected, loaded, fetching>>
    BY <1>9 DEF Finished, SyncWatchdog, OnSyncFinished
  <2> QED
    BY <2>1
<1>10. CASE LoadWatchdog
  BY <1>10 DEF LoadWatchdog
<1>11. CASE FetchWatchdog
  BY <1>11 DEF FetchWatchdog
<1>12. CASE Refresh
  BY <1>12 DEF Refresh, SyncWatch
<1>13. CASE DateChanged
  BY <1>13 DEF DateChanged
<1>14. CASE UNCHANGED vars
  BY <1>14 DEF vars
<1> QED
  BY <1>1, <1>2, <1>3, <1>4, <1>6, <1>7, <1>8, <1>9, <1>10, <1>11, <1>12, <1>13, <1>14
  DEF Next, Gui, GuiQueue

(* Each indicator that is on has its watchdog running (ContactsCore.hpp:99-110): whatever
   the linphone thread fails to do, some timer will stop the spinner. *)
THEOREM SpinnerSafety == Spec => []SpinnersAreWatched
<1> QED
  BY InitialTimers, TimersStep, PTL DEF Spec
-----------------------------------------------------------------------------
(* What the page says of the fetch *)

\* Before it is used the page has asked for nothing and been told nothing of a search.
BeforeThePage ==
  ~connected =>
    /\ ~searching /\ ~awaiting /\ modelQ = <<>>
    /\ ~InQueue(coreQ, "created") /\ ~InQueue(coreQ, "initialized")

\* The last change that is queued is the last there was.
LastChangeIsQueued == LastChangeIs(coreQ, fetches)

\* Results are awaited only while the page says that it fetches.
AwaitsTheFetched == awaiting => fetching

\* With no change queued, the page says what is so.
PageAgrees ==
  ~InQueue(coreQ, "fetching") =>
    /\ awaiting => fetches = 0
    /\ connected /\ ~InQueue(modelQ, "readFetching") =>
         /\ fetches > 0 => fetching \/ gaveUp
         /\ fetches = 0 => fetching = awaiting

\* The first fetch is announced, and so is the end of the last.
LEMMA StartAnnounces ==
  ASSUME TypeOK, NEW on \in SUBSET Lists, NEW batch \in Batches \union {Announced},
         Start(on, batch, stored)
  PROVE  \/ coreQ' = Append(coreQ, Fetching(TRUE)) /\ fetches = 0 /\ fetches' > 0
         \/ coreQ' = coreQ /\ (fetches' > 0 <=> fetches > 0) /\ (fetches = 0 <=> fetches' = 0)
<1> DEFINE empty == {l \in on : stored[l] = Empty}
<1>1. IsFiniteSet(empty)
  BY ListsAssumption, FS_Subset
<1>2. Cardinality(empty) \in Nat /\ (Cardinality(empty) = 0 <=> empty = {})
  BY <1>1, FS_CardinalityType, FS_EmptySet
<1>3. /\ fetches' = fetches + Cardinality(empty) /\ fetches \in Nat
      /\ coreQ' = IF fetches = 0 /\ empty # {} THEN Append(coreQ, Fetching(TRUE)) ELSE coreQ
  BY DEF Start, TypeOK
<1> HIDE DEF empty
<1>4. CASE fetches = 0 /\ empty # {}
  <2>1. coreQ' = Append(coreQ, Fetching(TRUE))
    BY <1>3, <1>4
  <2>2. fetches' > 0
    BY <1>2, <1>3, <1>4
  <2>3. QED
    BY <1>4, <2>1, <2>2
<1>5. CASE ~(fetches = 0 /\ empty # {})
  <2>1. coreQ' = coreQ
    BY <1>3, <1>5
  <2>2. (fetches' > 0 <=> fetches > 0) /\ (fetches = 0 <=> fetches' = 0)
    BY <1>2, <1>3, <1>5
  <2>3. QED
    BY <2>1, <2>2
<1>6. QED
  BY <1>4, <1>5

\* Every change on the linphone thread is announced last.
LEMMA ChangesAreAnnounced ==
  ASSUME TypeOK, RunsAreApart, FetchesAreCounted, LastChangeIsQueued, Linphone
  PROVE  /\ LastChangeIsQueued'
         /\ InQueue(coreQ, "fetching") => InQueue(coreQ', "fetching")
         /\ \/ InQueue(coreQ', "fetching")
            \/ /\ fetches = 0 <=> fetches' = 0
               /\ InQueue(modelQ, "readFetching") => InQueue(modelQ', "readFetching")
<1>q. /\ coreQ \in Seq(Events) /\ modelQ \in Seq(Tasks)
      /\ LastChangeIs(coreQ, fetches) /\ fetches \in Nat
  BY DEF TypeOK, LastChangeIsQueued
<1>n. \A e \in Events :
        /\ InQueue(coreQ, "fetching") => InQueue(Append(coreQ, e), "fetching")
        /\ e.do = "fetching" => InQueue(Append(coreQ, e), "fetching")
        /\ e.do # "fetching" => LastChangeIs(Append(coreQ, e), fetches)
  BY <1>q, Queued, LastChangeAppend
<1>v. \A b \in BOOLEAN : Fetching(b) \in Events /\ Fetching(b).do = "fetching"
  BY EventParts DEF Fetching
<1>t. ASSUME NEW what, Take(what), what # "readFetching", InQueue(modelQ, "readFetching")
      PROVE  InQueue(modelQ', "readFetching")
  <2>1. modelQ # <<>> /\ modelQ' = Tail(modelQ) /\ Head(modelQ).do = what
    BY <1>t, HeadTask
  <2>2. InQueue(modelQ, "readFetching") <=>
          InQueue(Tail(modelQ), "readFetching") \/ Head(modelQ).do = "readFetching"
    BY <1>q, <2>1, Queued
  <2>3. QED
    BY <1>t, <2>1, <2>2
<1> DEFINE LastIsRight == LastChangeIs(coreQ', fetches')
           Keeps == InQueue(coreQ, "fetching") => InQueue(coreQ', "fetching")
           SameCount == fetches = 0 <=> fetches' = 0
           StillAsked == InQueue(modelQ, "readFetching") => InQueue(modelQ', "readFetching")
           Goal == LastIsRight /\ Keeps /\ (InQueue(coreQ', "fetching") \/ (SameCount /\ StillAsked))
<1>s. SUFFICES Goal
  BY DEF LastChangeIsQueued
<1> HIDE DEF LastIsRight, Keeps, SameCount, StillAsked, Goal
<1>e. ASSUME NEW e \in Events, e.do # "fetching", coreQ' = Append(coreQ, e), fetches' = fetches,
             StillAsked
      PROVE  Goal
  <2>1. LastChangeIs(Append(coreQ, e), fetches)
    BY <1>e, <1>n
  <2>2. LastIsRight
    BY <1>e, <2>1 DEF LastIsRight
  <2>3. Keeps
    BY <1>e, <1>n DEF Keeps
  <2>4. SameCount
    BY <1>e DEF SameCount
  <2>5. QED
    BY <1>e, <2>2, <2>3, <2>4 DEF Goal
<1>u. ASSUME coreQ' = coreQ, fetches' = fetches, StillAsked
      PROVE  Goal
  <2>1. LastIsRight
    BY <1>q, <1>u DEF LastIsRight
  <2>2. Keeps
    BY <1>u DEF Keeps
  <2>3. SameCount
    BY <1>u DEF SameCount
  <2>4. QED
    BY <1>u, <2>1, <2>2, <2>3 DEF Goal
<1>1. CASE CreateSearch
  <2>1. Take("createSearch") /\ coreQ' = Append(coreQ, [do |-> "created"]) /\ fetches' = fetches
    BY <1>1 DEF CreateSearch, syncVars
  <2>2. [do |-> "created"] \in Events /\ [do |-> "created"].do # "fetching"
    BY EventParts
  <2>3. StillAsked
    BY <1>t, <2>1 DEF StillAsked
  <2>4. QED
    BY <1>e, <2>1, <2>2, <2>3
<1>2. CASE ReadFetching
  <2>1. coreQ' = Append(coreQ, Fetching(fetches > 0)) /\ fetches' = fetches
    BY <1>2 DEF ReadFetching, syncVars
  <2>2. (fetches > 0) \in BOOLEAN
    OBVIOUS
  <2>3. Fetching(fetches > 0) \in Events /\ Fetching(fetches > 0).do = "fetching"
    BY <1>v, <2>2
  <2>4. LastChangeIs(Append(coreQ, Fetching(fetches > 0)), fetches)
    BY <1>q, LastChangeAppend
  <2>5. LastIsRight
    BY <2>1, <2>4 DEF LastIsRight
  <2>6. InQueue(coreQ', "fetching")
    BY <1>n, <2>1, <2>3
  <2>7. QED
    BY <2>5, <2>6 DEF Goal, Keeps
<1>3. CASE Search
  <2>1. Take("search") /\ coreQ' = coreQ /\ fetches' = fetches
    BY <1>3 DEF Search, syncVars
  <2>2. StillAsked
    BY <1>t, <2>1 DEF StillAsked
  <2>3. QED
    BY <1>u, <2>1, <2>2
<1>4. CASE Starts
  <2>1. PICK on \in SUBSET Lists, batch \in Batches \union {Announced} : Start(on, batch, stored)
    BY <1>4 DEF Starts
  <2>2. StillAsked
    BY <1>4, <1>t DEF Starts, StillAsked
  <2>3. fetches' \in Nat
    BY <2>1, StartTypes
  <2>4. CASE coreQ' = Append(coreQ, Fetching(TRUE)) /\ fetches = 0 /\ fetches' > 0
    <3>1. LastChangeIs(Append(coreQ, Fetching(TRUE)), fetches')
      BY <1>q, <2>3, <2>4, LastChangeAppend
    <3>2. LastIsRight
      BY <2>4, <3>1 DEF LastIsRight
    <3>3. InQueue(coreQ', "fetching")
      BY <1>n, <1>v, <2>4
    <3>4. QED
      BY <3>2, <3>3 DEF Goal, Keeps
  <2>5. CASE coreQ' = coreQ /\ (fetches' > 0 <=> fetches > 0) /\ (fetches = 0 <=> fetches' = 0)
    <3>1. LastChangeIs(coreQ, fetches')
      BY <1>q, <2>5, SameChange
    <3>2. LastIsRight
      BY <2>5, <3>1 DEF LastIsRight
    <3>3. Keeps
      BY <2>5 DEF Keeps
    <3>4. SameCount
      BY <2>5 DEF SameCount
    <3>5. QED
      BY <2>2, <3>2, <3>3, <3>4 DEF Goal
  <2>6. QED
    BY <2>1, <2>4, <2>5, StartAnnounces
<1>5. CASE NothingToRefresh
  <2> DEFINE e == [do |-> "finished", batch |-> Head(modelQ).batch, succeeded |-> TRUE]
  <2>1. Take("refresh") /\ coreQ' = Append(coreQ, e) /\ fetches' = fetches
    BY <1>5 DEF NothingToRefresh
  <2>2. e \in Events /\ e.do # "fetching"
    <3>1. Head(modelQ).batch \in Batches
      BY <2>1, HeadTask, TaskParts
    <3>2. QED
      BY <3>1, EventParts
  <2>3. StillAsked
    BY <1>t, <2>1 DEF StillAsked
  <2> HIDE DEF e
  <2>4. QED
    BY <1>e, <2>1, <2>2, <2>3
<1>6. CASE \/ \E l \in Lists : AddByHand(l)
           \/ \E l \in Lists, ok \in BOOLEAN : SyncReports(l, ok)
  <2>1. coreQ' = coreQ /\ modelQ' = modelQ /\ fetches' = fetches
    BY <1>6 DEF AddByHand, SyncReports
  <2>2. StillAsked
    BY <2>1 DEF StillAsked
  <2>3. QED
    BY <1>u, <2>1, <2>2
<1>7. ASSUME NEW a \in agents, AgentHears(a) PROVE Goal
  <2>1. PICK q \in Seq(Events) :
          /\ \/ q = coreQ
             \/ \E e \in Events : q = Append(coreQ, e) /\ e.do \in {"synchronized", "finished"}
          /\ coreQ' = IF a.first /\ fetches = 1 THEN Append(q, Fetching(FALSE)) ELSE q
    BY <1>7, HearingPosts
  <2>2. LastChangeIs(q, fetches) /\ (InQueue(coreQ, "fetching") => InQueue(q, "fetching"))
    <3>1. CASE q = coreQ
      BY <1>q, <3>1
    <3>2. ASSUME NEW e \in Events, q = Append(coreQ, e), e.do \in {"synchronized", "finished"}
          PROVE  LastChangeIs(q, fetches) /\ (InQueue(coreQ, "fetching") => InQueue(q, "fetching"))
      BY <1>n, <3>2
    <3>3. QED
      BY <2>1, <3>1, <3>2
  <2>3. fetches' = Counted(a) /\ modelQ' = modelQ
    BY <1>7 DEF AgentHears
  <2>4. CASE a.first /\ fetches = 1
    <3>1. fetches' = 0
      BY <2>3, <2>4 DEF Counted
    <3>2. coreQ' = Append(q, Fetching(FALSE))
      BY <2>1, <2>4
    <3>3. LastChangeIs(Append(q, Fetching(FALSE)), 0)
      BY LastChangeAppend
    <3>4. LastIsRight
      BY <3>1, <3>2, <3>3 DEF LastIsRight
    <3>5. InQueue(Append(q, Fetching(FALSE)), "fetching")
      BY <1>v, Queued
    <3>6. InQueue(coreQ', "fetching")
      BY <3>2, <3>5
    <3>7. QED
      BY <3>4, <3>6 DEF Goal, Keeps
  <2>5. CASE ~(a.first /\ fetches = 1)
    <3>1. coreQ' = q
      BY <2>1, <2>5
    <3>2. a.first => fetches # 0
      BY Counts
    <3>3. (fetches > 0 <=> fetches' > 0) /\ SameCount
      BY <1>q, <2>3, <2>5, <3>2 DEF Counted, SameCount
    <3>4. LastChangeIs(q, fetches')
      BY <2>2, <3>3, SameChange
    <3>5. LastIsRight /\ Keeps
      BY <2>2, <3>1, <3>4 DEF LastIsRight, Keeps
    <3>6. StillAsked
      BY <2>3 DEF StillAsked
    <3>7. QED
      BY <3>3, <3>5, <3>6 DEF Goal
  <2>6. QED
    BY <2>4, <2>5
<1>8. CASE SearchReports
  <2>1. fetches' = fetches /\ modelQ' = modelQ
    BY <1>8 DEF SearchReports, syncVars
  <2>2. \E e \in Events : coreQ' = Append(coreQ, e) /\ e.do # "fetching"
    <3>1. stored \in Books
      BY DEF TypeOK, Books
    <3>2. QED
      BY <1>8, <3>1, EventParts DEF SearchReports
  <2>3. StillAsked
    BY <2>1 DEF StillAsked
  <2>4. QED
    BY <1>e, <2>1, <2>2, <2>3
<1>9. QED
  BY <1>1, <1>2, <1>3, <1>4, <1>5, <1>6, <1>7, <1>8, TheStarts DEF Linphone

\* The last word on the fetch stays right as the linphone thread posts and the page listens.
LEMMA LastChangeNext ==
  TypeOK /\ RunsAreApart /\ FetchesAreCounted /\ LastChangeIsQueued /\ [Next]_vars
    => LastChangeIsQueued'
<1> SUFFICES ASSUME TypeOK, RunsAreApart, FetchesAreCounted, LastChangeIsQueued, [Next]_vars
             PROVE  LastChangeIsQueued'
  OBVIOUS
<1>q. coreQ \in Seq(Events) /\ fetches \in Nat /\ LastChangeIs(coreQ, fetches)
  BY DEF TypeOK, LastChangeIsQueued
<1>1. CASE Linphone
  BY <1>1, ChangesAreAnnounced
<1>2. CASE Gui
  <2>1. fetches' = fetches
    BY <1>2, GuiLeavesTheServices DEF syncVars
  <2>2. LastChangeIs(coreQ', fetches)
    <3>1. CASE Created
      <4>1. coreQ # <<>> /\ coreQ' = Append(Tail(coreQ), [do |-> "initialized"])
        BY <3>1 DEF Created
      <4>2. Tail(coreQ) \in Seq(Events) /\ LastChangeIs(Tail(coreQ), fetches)
        BY <1>q, <4>1, LastChangeTail, Advanced
      <4>3. [do |-> "initialized"] \in Events /\ [do |-> "initialized"].do # "fetching"
        BY EventParts
      <4>4. QED
        BY <1>q, <4>1, <4>2, <4>3, LastChangeAppend
    <3>2. QED
      BY <1>2, <1>q, <3>1, GuiQueues, LastChangeTail
  <2>3. QED
    BY <2>1, <2>2 DEF LastChangeIsQueued
<1>3. CASE UNCHANGED vars
  BY <1>3, <1>q DEF vars, syncVars, LastChangeIsQueued
<1>4. QED
  BY <1>1, <1>2, <1>3 DEF Next

\* Nothing reaches the search before the page is used.
LEMMA BeforeNext == TypeOK /\ RunsAreApart /\ BeforeThePage /\ [Next]_vars => BeforeThePage'
<1> SUFFICES ASSUME TypeOK, RunsAreApart, BeforeThePage, [Next]_vars, ~connected'
             PROVE  /\ ~searching' /\ ~awaiting' /\ modelQ' = <<>>
                    /\ ~InQueue(coreQ', "created") /\ ~InQueue(coreQ', "initialized")
  BY DEF BeforeThePage
<1>c. ~connected
  BY LinphoneLeavesThePage
  DEF Next, Gui, GuiQueue, Construct, Created, Initialized, Results, Unchanged, Processed,
      FetchingChanged, Synchronized, Finished, SyncWatchdog, OnSyncFinished, LoadWatchdog,
      FetchWatchdog, Refresh, DateChanged, vars
<1>q. /\ coreQ \in Seq(Events) /\ modelQ = <<>> /\ ~searching /\ ~awaiting
      /\ ~InQueue(coreQ, "created") /\ ~InQueue(coreQ, "initialized")
  BY <1>c DEF TypeOK, BeforeThePage
<1> DEFINE Told(q) == InQueue(q, "created") \/ InQueue(q, "initialized")
<1>n. ASSUME NEW q \in Seq(Events), ~Told(q)
      PROVE  /\ \A e \in Events : e.do \notin {"created", "initialized"} => ~Told(Append(q, e))
             /\ q # <<>> => ~Told(Tail(q)) /\ Head(q).do \notin {"created", "initialized"}
  BY <1>n, Queued
<1>t. ~\E what : Take(what)
  BY <1>q DEF Take
<1>1. CASE Linphone
  <2>1. UNCHANGED <<searching, awaiting>>
    BY <1>1, LinphoneLeavesThePage DEF guiVars
  <2>2. CASE Starts
    <3>1. modelQ' = modelQ
      BY <1>t, <2>2 DEF Starts
    <3>2. coreQ' = coreQ \/ coreQ' = Append(coreQ, Fetching(TRUE))
      BY <2>2 DEF Starts, Start
    <3>3. Fetching(TRUE) \in Events /\ Fetching(TRUE).do = "fetching"
      BY EventParts DEF Fetching
    <3>4. QED
      BY <1>n, <1>q, <2>1, <3>1, <3>2, <3>3
  <2>3. CASE \/ \E l \in Lists : AddByHand(l)
             \/ \E l \in Lists, ok \in BOOLEAN : SyncReports(l, ok)
    BY <1>q, <2>1, <2>3 DEF AddByHand, SyncReports
  <2>4. ASSUME NEW a \in agents, AgentHears(a)
        PROVE  modelQ' = <<>> /\ ~Told(coreQ')
    <3>1. PICK q \in Seq(Events) :
            /\ \/ q = coreQ
               \/ \E e \in Events : q = Append(coreQ, e) /\ e.do \in {"synchronized", "finished"}
            /\ coreQ' = IF a.first /\ fetches = 1 THEN Append(q, Fetching(FALSE)) ELSE q
      BY <2>4, HearingPosts
    <3>2. ~Told(q)
      BY <1>n, <1>q, <3>1
    <3>3. Fetching(FALSE) \in Events /\ Fetching(FALSE).do = "fetching"
      BY EventParts DEF Fetching
    <3>4. ~Told(Append(q, Fetching(FALSE)))
      BY <1>n, <3>2, <3>3
    <3>5. modelQ' = modelQ
      BY <2>4 DEF AgentHears
    <3>6. QED
      BY <1>q, <3>1, <3>2, <3>4, <3>5
  <2>5. CASE SearchReports
    <3>1. modelQ' = modelQ
      BY <2>5 DEF SearchReports
    <3>2. \E e \in Events : coreQ' = Append(coreQ, e) /\ e.do \in {"results", "unchanged"}
      <4>1. stored \in Books
        BY DEF TypeOK, Books
      <4>2. QED
        BY <2>5, <4>1, EventParts DEF SearchReports
    <3>3. ~Told(coreQ')
      BY <1>n, <1>q, <3>2
    <3>4. QED
      BY <1>q, <2>1, <3>1, <3>3
  <2>6. ~(CreateSearch \/ ReadFetching \/ Search \/ NothingToRefresh)
    BY <1>t DEF CreateSearch, ReadFetching, Search, NothingToRefresh
  <2>7. QED
    BY <1>1, <1>q, <2>1, <2>2, <2>3, <2>4, <2>5, <2>6, TheStarts DEF Linphone
<1>2. CASE Gui
  <2>1. ~Created /\ ~Initialized /\ ~Construct /\ ~Refresh /\ ~DateChanged
    <3>1. coreQ # <<>> => Head(coreQ).do \notin {"created", "initialized"}
      BY <1>n, <1>q
    <3>2. ~Created /\ ~Initialized
      BY <3>1 DEF Created, Initialized, Next1
    <3>3. ~Construct
      BY DEF Construct
    <3>4. QED
      BY <1>c, <3>2, <3>3 DEF Refresh, DateChanged
  <2>2. ~Told(coreQ')
    <3>1. coreQ' = coreQ \/ (coreQ # <<>> /\ coreQ' = Tail(coreQ))
      BY <1>2, <2>1, GuiQueues
    <3>2. QED
      BY <1>n, <1>q, <3>1
  <2>3. ~searching' /\ ~awaiting' /\ modelQ' = <<>>
    <3>1. CASE Results \/ Unchanged
      BY <1>q, <3>1 DEF Results, Unchanged, Processed
    <3>2. CASE FetchingChanged
      BY <1>c, <1>q, <3>2 DEF FetchingChanged
    <3>3. CASE Synchronized
      BY <1>c, <1>q, <3>3 DEF Synchronized, guiVars
    <3>4. CASE Finished \/ SyncWatchdog
      BY <1>q, <3>4 DEF Finished, SyncWatchdog, OnSyncFinished, ForceUpdate
    <3>5. CASE LoadWatchdog \/ FetchWatchdog
      BY <1>q, <3>5 DEF LoadWatchdog, FetchWatchdog
    <3>6. QED
      BY <1>2, <2>1, <3>1, <3>2, <3>3, <3>4, <3>5 DEF Gui, GuiQueue
  <2>4. QED
    BY <2>2, <2>3
<1>3. CASE UNCHANGED vars
  BY <1>3, <1>q DEF vars, guiVars
<1>4. QED
  BY <1>1, <1>2, <1>3 DEF Next

\* Results are awaited only while the page still says that it fetches.
LEMMA AwaitsNext == AwaitsTheFetched /\ [Next]_vars => AwaitsTheFetched'
<1> SUFFICES ASSUME AwaitsTheFetched, [Next]_vars PROVE AwaitsTheFetched'
  OBVIOUS
<1> USE DEF AwaitsTheFetched
<1>1. CASE Linphone \/ UNCHANGED vars
  BY <1>1, LinphoneLeavesThePage DEF vars, guiVars
<1>2. CASE Results \/ Unchanged
  BY <1>2 DEF Results, Unchanged, Processed
<1>3. CASE FetchingChanged
  <2>1. (awaiting' = awaiting /\ fetching' = fetching) \/ awaiting' = FALSE \/ (fetching /\ fetching' = fetching)
    BY <1>3 DEF FetchingChanged, FetchOver
  <2>2. QED
    BY <2>1
<1>4. CASE FetchWatchdog
  BY <1>4 DEF FetchWatchdog
<1>5. CASE Finished \/ SyncWatchdog
  BY <1>5 DEF Finished, SyncWatchdog, OnSyncFinished
<1>6. CASE Construct \/ Created \/ Initialized \/ Synchronized \/ LoadWatchdog \/ Refresh \/ DateChanged
  BY <1>6 DEF Construct, Created, Initialized, Synchronized, LoadWatchdog, Refresh, DateChanged, guiVars
<1>7. QED
  BY <1>1, <1>2, <1>3, <1>4, <1>5, <1>6 DEF Next, Gui, GuiQueue

\* The GUI thread's other steps say nothing of the fetch.
LEMMA OtherGui ==
  ASSUME Gui
  PROVE  \/ Construct \/ Created \/ Results \/ Unchanged \/ FetchingChanged \/ FetchWatchdog
         \/ /\ UNCHANGED <<connected, fetching, awaiting, gaveUp, shown>>
            /\ \/ UNCHANGED coreQ
               \/ /\ coreQ # <<>> /\ coreQ' = Tail(coreQ)
                  /\ Head(coreQ).do \in {"initialized", "synchronized", "finished"}
<1>1. CASE Initialized
  BY <1>1 DEF Initialized, Next1
<1>2. CASE Synchronized
  BY <1>2 DEF Synchronized, Next1, guiVars
<1>3. CASE Finished
  BY <1>3 DEF Finished, Next1, OnSyncFinished
<1>4. CASE SyncWatchdog
  BY <1>4 DEF SyncWatchdog, OnSyncFinished
<1>5. CASE LoadWatchdog \/ Refresh \/ DateChanged
  BY <1>5 DEF LoadWatchdog, Refresh, DateChanged, guiVars
<1>6. QED
  BY <1>1, <1>2, <1>3, <1>4, <1>5 DEF Gui, GuiQueue

\* The page agrees with the count once no change is queued: after each change it hears, and after results.
LEMMA PageNext ==
  TypeOK /\ RunsAreApart /\ FetchesAreCounted /\ LastChangeIsQueued /\ BeforeThePage
    /\ AwaitsTheFetched /\ PageAgrees /\ [Next]_vars => PageAgrees'
<1> SUFFICES ASSUME TypeOK, RunsAreApart, FetchesAreCounted, LastChangeIsQueued, BeforeThePage,
                    AwaitsTheFetched, PageAgrees, [Next]_vars, ~InQueue(coreQ', "fetching")
             PROVE  /\ awaiting' => fetches' = 0
                    /\ connected' /\ ~InQueue(modelQ', "readFetching") =>
                         /\ fetches' > 0 => fetching' \/ gaveUp'
                         /\ fetches' = 0 => fetching' = awaiting'
  BY DEF PageAgrees
<1>q. /\ coreQ \in Seq(Events) /\ modelQ \in Seq(Tasks) /\ fetches \in Nat
      /\ LastChangeIs(coreQ, fetches) /\ fetching \in BOOLEAN /\ awaiting \in BOOLEAN
  BY DEF TypeOK, LastChangeIsQueued
<1>p. ~InQueue(coreQ, "fetching") =>
        /\ awaiting => fetches = 0
        /\ connected /\ ~InQueue(modelQ, "readFetching") =>
             /\ fetches > 0 => fetching \/ gaveUp
             /\ fetches = 0 => fetching = awaiting
  BY DEF PageAgrees
<1>1. CASE Linphone
  <2>1. /\ ~InQueue(coreQ, "fetching")
        /\ fetches = 0 <=> fetches' = 0
        /\ InQueue(modelQ, "readFetching") => InQueue(modelQ', "readFetching")
    BY <1>1, ChangesAreAnnounced
  <2>2. UNCHANGED <<connected, fetching, awaiting, gaveUp>>
    BY <1>1, LinphoneLeavesThePage DEF guiVars
  <2>3. fetches' > 0 => fetches > 0
    BY <1>q, <2>1
  <2>4. QED
    BY <1>p, <2>1, <2>2, <2>3
<1>2. CASE Gui
  <2>1. fetches' = fetches
    BY <1>2, GuiLeavesTheServices DEF syncVars
  <2>2. CASE Construct
    <3> DEFINE read == [do |-> "readFetching"]
    <3>1. InQueue(modelQ', "readFetching")
      <4>1. modelQ' = modelQ \o <<[do |-> "createSearch"], read>>
        BY <2>2 DEF Construct, Asked
      <4>2. read \in Tasks /\ [do |-> "createSearch"] \in Tasks
        BY TaskParts
      <4>3. /\ Len(modelQ) + 2 \in DOMAIN modelQ' /\ modelQ'[Len(modelQ) + 2] = read
        <5> HIDE DEF read
        <5>1. QED
          BY <1>q, <4>1, <4>2
      <4>4. QED
        BY <4>3 DEF InQueue
    <3>2. coreQ' = coreQ /\ awaiting' = awaiting
      BY <2>2 DEF Construct
    <3>3. QED
      BY <1>p, <2>1, <3>1, <3>2
  <2>3. CASE Created
    <3>1. coreQ # <<>> /\ Head(coreQ).do = "created"
          /\ coreQ' = Append(Tail(coreQ), [do |-> "initialized"])
      BY <2>3 DEF Created
    <3>2. Tail(coreQ) \in Seq(Events) /\ [do |-> "initialized"] \in Events
      BY <1>q, <3>1, Advanced, EventParts
    <3>3. ~InQueue(Tail(coreQ), "fetching")
      BY <3>1, <3>2, Queued
    <3>4. ~InQueue(coreQ, "fetching")
      BY <1>q, <3>1, <3>3, Queued
    <3>5. UNCHANGED <<connected, fetching, awaiting, gaveUp, modelQ>>
      BY <2>3 DEF Created, guiVars
    <3>6. QED
      BY <1>p, <2>1, <3>4, <3>5
  <2>4. CASE Results \/ Unchanged
    <3>1. coreQ # <<>> /\ Head(coreQ).do \in {"results", "unchanged"} /\ coreQ' = Tail(coreQ)
      BY <2>4 DEF Results, Unchanged, Next1
    <3>2. ~InQueue(coreQ, "fetching")
      BY <1>q, <3>1, Queued
    <3>3. /\ awaiting' = FALSE /\ fetching' = (fetching /\ ~awaiting)
          /\ UNCHANGED <<connected, gaveUp, modelQ>>
      BY <2>4 DEF Results, Unchanged, Processed
    <3>4. CASE awaiting
      <4>1. fetches' = 0 /\ ~(fetches' > 0)
        BY <1>p, <2>1, <3>2, <3>4
      <4>2. fetching' = FALSE
        BY <3>3, <3>4
      <4>3. QED
        BY <3>3, <4>1, <4>2
    <3>5. CASE ~awaiting
      <4>1. fetching' = fetching
        BY <1>q, <3>3, <3>5
      <4>2. awaiting = FALSE
        BY <1>q, <3>5
      <4>3. QED
        BY <1>p, <2>1, <3>2, <3>3, <4>1, <4>2
    <3>6. QED
      BY <3>4, <3>5
  <2>5. CASE FetchingChanged
    <3>1. coreQ # <<>> /\ Head(coreQ).do = "fetching" /\ coreQ' = Tail(coreQ)
      BY <2>5 DEF FetchingChanged, Next1
    <3>2. Head(coreQ).value <=> fetches > 0
      BY <1>q, <3>1, LastChangeTail
    <3>3. CASE ~connected
      BY <2>1, <2>5, <3>3 DEF FetchingChanged, FetchOver, BeforeThePage
    <3>4. CASE connected /\ Head(coreQ).value
      <4>1. awaiting' = FALSE /\ fetching' = TRUE
        BY <2>5, <3>4 DEF FetchingChanged
      <4>2. fetches' # 0
        BY <1>q, <2>1, <3>2, <3>4
      <4>3. QED
        BY <4>1, <4>2
    <3>5. CASE connected /\ ~Head(coreQ).value /\ ~fetching
      <4>1. fetches' = 0 /\ ~(fetches' > 0)
        BY <1>q, <2>1, <3>2, <3>5
      <4>2. fetching' = fetching /\ awaiting' = awaiting
        BY <2>5, <3>5 DEF FetchingChanged
      <4>3. QED
        BY <1>q, <3>5, <4>1, <4>2 DEF AwaitsTheFetched
    <3>6. CASE connected /\ ~Head(coreQ).value /\ fetching
      <4>1. fetches' = 0 /\ ~(fetches' > 0)
        BY <1>q, <2>1, <3>2, <3>6
      <4>2. fetching' = fetching /\ awaiting' = TRUE
        BY <2>5, <3>6 DEF FetchingChanged, FetchOver
      <4>3. QED
        BY <1>q, <3>6, <4>1, <4>2
    <3>7. QED
      BY <3>3, <3>4, <3>5, <3>6
  <2>6. CASE FetchWatchdog
    BY <2>6 DEF FetchWatchdog
  <2>7. CASE /\ UNCHANGED <<connected, fetching, awaiting, gaveUp, shown>>
             /\ \/ UNCHANGED coreQ
                \/ /\ coreQ # <<>> /\ coreQ' = Tail(coreQ)
                   /\ Head(coreQ).do \in {"initialized", "synchronized", "finished"}
             /\ ~Construct
    <3>1. ~InQueue(coreQ, "fetching")
      <4>1. CASE UNCHANGED coreQ
        BY <4>1
      <4>2. CASE /\ coreQ # <<>> /\ coreQ' = Tail(coreQ)
                 /\ Head(coreQ).do \in {"initialized", "synchronized", "finished"}
        BY <1>q, <4>2, Queued
      <4>3. QED
        BY <2>7, <4>1, <4>2
    <3>2. InQueue(modelQ, "readFetching") => InQueue(modelQ', "readFetching")
      <4>1. CASE Refresh
        BY <1>q, <4>1, TaskParts, Queued DEF Refresh
      <4>2. CASE modelQ' = Append(modelQ, [do |-> "search"])
        BY <1>q, <4>2, TaskParts, Queued
      <4>3. QED
        BY <1>2, <2>7, <4>1, <4>2, GuiQueues
    <3>3. QED
      BY <1>p, <2>1, <2>7, <3>1, <3>2
  <2>8. QED
    BY <1>2, <2>2, <2>3, <2>4, <2>5, <2>6, <2>7, OtherGui
<1>3. CASE UNCHANGED vars
  BY <1>3, <1>p DEF vars, guiVars, syncVars
<1>4. QED
  BY <1>1, <1>2, <1>3 DEF Next

-----------------------------------------------------------------------------
(* What the books hold and the list shows *)

\* A sync of this list has succeeded, and some of its listeners have yet to hear.
Landing(l) == reporting # Nothing /\ reporting.list = l /\ reporting.succeeded

\* An agent of a refresh that found contacts in its list.
Later(a) == ~a.first /\ a.batch # Announced

\* While a sync is being reported, an agent of its list has yet to hear.
ReportIsHeard == reporting # Nothing => \E a \in agents : a.list = reporting.list

\* Outside a report, the lists of such agents hold something.
LaterAreOfFullBooks ==
  \A a \in agents : Later(a) /\ ~Landing(a.list) => stored[a.list] # Empty

\* The lists that show something of every book that holds something, but for one whose
\* first contacts have just come and are still to be announced.
Full == {books \in Books :
  \A l \in Lists :
    stored[l] # Empty /\ (Landing(l) => \E a \in agents : a.list = l /\ Later(a)) => books[l] # Empty}

\* With no fetch under way, what lands shows them.
FetchedLand == fetches = 0 => Landed(coreQ, shown, Full)

\* The last results on their way, or on show, have the hash of the last ones.
Hashes(q, s, hash) == \A books \in Books : After(q, s, Len(q), books) => Hash(books) = hash
HashIsOfTheLast == lastHash # Nothing => Hashes(coreQ, shown, lastHash)

\* While the books differ from the last results, something is left to search them.
Pending ==
  \/ InQueue(modelQ, "search") \/ requests > 0
  \/ InQueue(coreQ, "synchronized") \/ InQueue(coreQ, "finished") \/ lastFailed
  \/ \E a \in agents : a.batch # Announced
  \/ reporting # Nothing /\ reporting.succeeded

\* The list on show is current, or is going to be.
StaleIsPending == searching /\ lastHash # Hash(stored) => Pending

\* A report goes on while an agent of its list has yet to hear, and no longer.
LEMMA HeardNext == TypeOK /\ RunsAreApart /\ ReportIsHeard /\ [Next]_vars => ReportIsHeard'
<1> SUFFICES ASSUME TypeOK, RunsAreApart, ReportIsHeard, [Next]_vars PROVE ReportIsHeard'
  OBVIOUS
<1> USE DEF ReportIsHeard
<1>1. CASE reporting' = Nothing
  BY <1>1
<1>2. ASSUME NEW l \in Lists, NEW ok \in BOOLEAN, SyncReports(l, ok) PROVE ReportIsHeard'
  BY <1>2 DEF SyncReports
<1>3. ASSUME NEW a \in agents, AgentHears(a) PROVE ReportIsHeard'
  BY <1>3 DEF AgentHears
<1>4. CASE reporting' = reporting /\ agents \subseteq agents'
  BY <1>4
<1>5. CASE Gui \/ UNCHANGED vars
  BY <1>4, <1>5, GuiLeavesTheServices DEF vars, syncVars
<1>6. CASE Starts
  BY <1>4, <1>6 DEF Starts, Start
<1>7. CASE CreateSearch \/ ReadFetching \/ Search \/ NothingToRefresh \/ SearchReports
  BY <1>4, <1>7 DEF CreateSearch, ReadFetching, Search, NothingToRefresh, SearchReports, syncVars
<1>8. CASE \E l \in Lists : AddByHand(l)
  BY <1>4, <1>8 DEF AddByHand
<1>9. QED
  BY <1>2, <1>3, <1>5, <1>6, <1>7, <1>8, TheStarts DEF Next, Linphone

\* The lists of later agents keep their contacts until a sync empties or replaces them.
LEMMA LaterNext ==
  TypeOK /\ RunsAreApart /\ LaterAreOfFullBooks /\ [Next]_vars => LaterAreOfFullBooks'
<1> SUFFICES ASSUME TypeOK, RunsAreApart, LaterAreOfFullBooks, [Next]_vars,
                    NEW b \in agents', ~b.first, b.batch # Announced, ~(Landing(b.list)')
             PROVE  stored'[b.list] # Empty
  BY DEF LaterAreOfFullBooks, Later
<1> USE DEF Landing
<1>1. CASE b \in agents /\ ~Landing(b.list) /\ stored' = stored
  BY <1>1 DEF LaterAreOfFullBooks, Later
<1>2. ASSUME NEW l \in Lists, NEW ok \in BOOLEAN, SyncReports(l, ok)
      PROVE  stored'[b.list] # Empty
  <2>1. b \in agents /\ ~Landing(b.list)
    BY <1>2 DEF SyncReports, Idle
  <2>2. CASE b.list = l
    <3>1. ok = FALSE /\ stored' = stored
      <4>1. reporting' = [list |-> l, succeeded |-> ok] /\ reporting' # Nothing
        BY <1>2, NothingAssumption DEF SyncReports
      <4>2. ~ok
        BY <2>2, <4>1
      <4>3. QED
        BY <1>2, <4>2 DEF SyncReports
    <3>2. QED
      BY <1>1, <2>1, <3>1
  <2>3. CASE b.list # l
    <3>1. stored'[b.list] = stored[b.list]
      <4>1. b.list \in Lists
        BY <2>1 DEF TypeOK, Agents
      <4>2. QED
        BY <1>2, <2>3, <4>1 DEF SyncReports, TypeOK
    <3>2. QED
      BY <1>1, <2>1, <3>1 DEF LaterAreOfFullBooks, Later
  <2>4. QED
    BY <2>2, <2>3
<1>3. ASSUME NEW a \in agents, AgentHears(a) PROVE stored'[b.list] # Empty
  <2>1. b \in agents \ {a} /\ stored' = stored /\ a.list = reporting.list
    BY <1>3 DEF AgentHears
  <2>2. ~Landing(b.list)
    <3>1. CASE b.list = a.list
      BY <1>3, <2>1, <3>1 DEF AgentHears
    <3>2. CASE b.list # a.list
      BY <2>1, <3>2
    <3>3. QED
      BY <3>1, <3>2
  <2>3. QED
    BY <1>1, <2>1, <2>2
<1>4. CASE UNCHANGED <<agents, stored, reporting>>
  BY <1>1, <1>4
<1>5. CASE Gui \/ UNCHANGED vars
  BY <1>4, <1>5, GuiLeavesTheServices DEF vars, syncVars
<1>6. CASE Starts
  <2>1. PICK on \in SUBSET Lists, batch \in Batches \union {Announced} : Start(on, batch, stored)
    BY <1>6 DEF Starts
  <2>2. agents' = agents \union New(on, batch, stored)
    BY <2>1, StartTypes
  <2>3. stored' = stored /\ reporting' = reporting
    BY <1>6 DEF Starts
  <2>4. CASE b \in New(on, batch, stored)
    <3>1. PICK l \in on : b = [list |-> l, first |-> stored[l] = Empty, batch |-> batch]
      BY <2>4 DEF New
    <3>2. b.list = l /\ (b.first <=> stored[l] = Empty)
      BY <3>1
    <3>3. QED
      BY <2>3, <3>2
  <2>5. CASE b \in agents
    BY <1>1, <2>3, <2>5
  <2>6. QED
    BY <2>2, <2>4, <2>5
<1>7. CASE CreateSearch \/ ReadFetching \/ Search \/ NothingToRefresh \/ SearchReports
  BY <1>4, <1>7 DEF CreateSearch, ReadFetching, Search, NothingToRefresh, SearchReports, syncVars
<1>8. ASSUME NEW l \in Lists, AddByHand(l) PROVE stored'[b.list] # Empty
  <2>1. b \in agents /\ stored' = stored /\ reporting' = reporting
    BY <1>8 DEF AddByHand
  <2>2. QED
    BY <1>1, <2>1
<1>9. QED
  BY <1>2, <1>3, <1>5, <1>6, <1>7, <1>8, TheStarts DEF Next, Linphone

\* What the linphone thread posts, other than agents that hear and search reports.
LEMMA OtherPosts ==
  ASSUME TypeOK, RunsAreApart, Linphone
  PROVE  \/ SearchReports
         \/ \E a \in agents : AgentHears(a)
         \/ /\ lastHash' = lastHash
            /\ \/ coreQ' = coreQ
               \/ \E e \in Events :
                    coreQ' = Append(coreQ, e) /\ e.do \in {"created", "fetching", "finished"}
<1>1. CASE CreateSearch
  <2>1. [do |-> "created"] \in Events
    BY EventParts
  <2>2. QED
    BY <1>1, <2>1 DEF CreateSearch
<1>2. CASE ReadFetching
  <2>1. coreQ' = Append(coreQ, Fetching(fetches > 0)) /\ lastHash' = lastHash
    BY <1>2 DEF ReadFetching
  <2>2. (fetches > 0) \in BOOLEAN
    OBVIOUS
  <2>3. Fetching(fetches > 0) \in Events
    BY <2>2, EventParts
  <2>4. Fetching(fetches > 0).do = "fetching"
    BY DEF Fetching
  <2>5. QED
    BY <2>1, <2>3, <2>4
<1>3. CASE Search \/ (\E l \in Lists : AddByHand(l)) \/ \E l \in Lists, ok \in BOOLEAN : SyncReports(l, ok)
  BY <1>3 DEF Search, AddByHand, SyncReports
<1>4. CASE Starts
  <2>1. coreQ' = coreQ \/ coreQ' = Append(coreQ, Fetching(TRUE))
    BY <1>4 DEF Starts, Start
  <2>2. Fetching(TRUE) \in Events /\ Fetching(TRUE).do = "fetching"
    BY EventParts DEF Fetching
  <2>3. lastHash' = lastHash
    BY <1>4 DEF Starts
  <2>4. QED
    BY <2>1, <2>2, <2>3
<1>5. CASE NothingToRefresh
  <2> DEFINE e == [do |-> "finished", batch |-> Head(modelQ).batch, succeeded |-> TRUE]
  <2>1. Head(modelQ).batch \in Batches
    BY <1>5, HeadTask, TaskParts DEF NothingToRefresh
  <2>2. e \in Events /\ e.do = "finished"
    BY <2>1, EventParts
  <2>3. coreQ' = Append(coreQ, e) /\ lastHash' = lastHash
    BY <1>5 DEF NothingToRefresh
  <2> HIDE DEF e
  <2>4. QED
    BY <2>2, <2>3
<1>6. QED
  BY <1>1, <1>2, <1>3, <1>4, <1>5, TheStarts DEF Linphone

\* What the GUI thread does to the list.
LEMMA GuiShows ==
  ASSUME TypeOK, Gui
  PROVE  \/ coreQ' = coreQ /\ shown' = shown
         \/ /\ coreQ # <<>> /\ shown' = Showing(coreQ, shown)
            /\ \/ coreQ' = Tail(coreQ)
               \/ coreQ' = Append(Tail(coreQ), [do |-> "initialized"])
<1>1. CASE Construct
  BY <1>1 DEF Construct
<1>2. CASE Created
  BY <1>2 DEF Created, guiVars, Showing
<1>3. CASE Results
  BY <1>3 DEF Results, Next1, Showing
<1>4. CASE Unchanged
  BY <1>4 DEF Unchanged, Next1, Showing
<1>5. CASE FetchingChanged
  BY <1>5 DEF FetchingChanged, Next1, Showing
<1>6. CASE FetchWatchdog
  BY <1>6 DEF FetchWatchdog
<1>7. CASE \/ UNCHANGED <<shown, coreQ>>
           \/ /\ shown' = shown /\ coreQ # <<>> /\ coreQ' = Tail(coreQ)
              /\ Head(coreQ).do \in {"initialized", "synchronized", "finished"}
  BY <1>7 DEF Showing
<1>8. QED
  BY <1>1, <1>2, <1>3, <1>4, <1>5, <1>6, <1>7, OtherGui

\* The hash of what is shown last is kept as the queue grows and is worked off.
LEMMA HashesAppend ==
  ASSUME NEW q \in Seq(Events), NEW s, NEW e \in Events, NEW hash
  PROVE  /\ Hashes(q, s, hash) /\ e.do # "results" => Hashes(Append(q, e), s, hash)
         /\ e.do = "results" /\ Hash(e.found) = hash => Hashes(Append(q, e), s, hash)
<1>1. Len(Append(q, e)) = Len(q) + 1
  BY Appended
<1>2. \A books \in Books :
        /\ e.do = "results" => (After(Append(q, e), s, Len(q) + 1, books) => books = e.found)
        /\ e.do # "results" => (After(Append(q, e), s, Len(q) + 1, books)
                                  => After(q, s, Len(q), books))
  BY AfterAppend
<1>3. QED
  BY <1>1, <1>2 DEF Hashes

\* Running the head keeps the hash of what is shown last.
LEMMA HashesTail ==
  ASSUME NEW q \in Seq(Events), q # <<>>, NEW s, NEW hash, Hashes(q, s, hash)
  PROVE  Hashes(Tail(q), Showing(q, s), hash)
<1>1. Len(q) \in Nat \ {0} /\ Len(Tail(q)) = Len(q) - 1
  BY Advanced
<1>2. Len(q) - 1 \in 0 .. Len(q) - 1 /\ (Len(q) - 1) + 1 = Len(q)
  BY <1>1
<1>3. \A books \in Books :
        After(Tail(q), Showing(q, s), Len(q) - 1, books) => After(q, s, (Len(q) - 1) + 1, books)
  BY <1>2, AfterTail
<1>4. QED
  BY <1>1, <1>2, <1>3 DEF Hashes

\* Only a search that reports changes what is shown last, and it sets the hash.
LEMMA HashNext == TypeOK /\ RunsAreApart /\ HashIsOfTheLast /\ [Next]_vars => HashIsOfTheLast'
<1> SUFFICES ASSUME TypeOK, RunsAreApart, HashIsOfTheLast, [Next]_vars, lastHash' # Nothing
             PROVE  Hashes(coreQ', shown', lastHash')
  BY DEF HashIsOfTheLast, Hashes
<1>q. coreQ \in Seq(Events) /\ stored \in Books
  BY DEF TypeOK, Books
<1>p. lastHash # Nothing => Hashes(coreQ, shown, lastHash)
  BY DEF HashIsOfTheLast
<1>1. CASE SearchReports
  <2>1. /\ lastHash' = Hash(stored) /\ shown' = shown
        /\ coreQ' = Append(coreQ, IF lastHash = Hash(stored) THEN [do |-> "unchanged"]
                                  ELSE [do |-> "results", found |-> stored])
    BY <1>1 DEF SearchReports, guiVars
  <2>2. CASE lastHash = Hash(stored)
    <3>1. [do |-> "unchanged"] \in Events /\ [do |-> "unchanged"].do # "results"
      BY EventParts
    <3>2. Hashes(Append(coreQ, [do |-> "unchanged"]), shown, lastHash)
      BY <1>p, <1>q, <2>1, <2>2, <3>1, HashesAppend
    <3>3. QED
      BY <2>1, <2>2, <3>2
  <2>3. CASE lastHash # Hash(stored)
    <3> DEFINE e == [do |-> "results", found |-> stored]
    <3>1. e \in Events /\ e.do = "results" /\ e.found = stored
      BY <1>q, EventParts
    <3>2. coreQ' = Append(coreQ, e)
      BY <2>1, <2>3
    <3> HIDE DEF e
    <3>3. QED
      BY <1>q, <2>1, <3>1, <3>2, HashesAppend
  <2>4. QED
    BY <2>2, <2>3
<1>2. ASSUME NEW a \in agents, AgentHears(a) PROVE Hashes(coreQ', shown', lastHash')
  <2>1. PICK q \in Seq(Events) :
          /\ \/ q = coreQ
             \/ \E e \in Events : q = Append(coreQ, e) /\ e.do \in {"synchronized", "finished"}
          /\ coreQ' = IF a.first /\ fetches = 1 THEN Append(q, Fetching(FALSE)) ELSE q
    BY <1>2, HearingPosts
  <2>2. lastHash' = lastHash /\ shown' = shown
    BY <1>2 DEF AgentHears, guiVars
  <2>3. Hashes(q, shown, lastHash)
    <3>1. ASSUME NEW e \in Events, q = Append(coreQ, e), e.do \in {"synchronized", "finished"}
          PROVE  Hashes(q, shown, lastHash)
      BY <1>p, <1>q, <2>2, <3>1, HashesAppend
    <3>2. QED
      BY <1>p, <2>1, <2>2, <3>1
  <2>4. Fetching(FALSE) \in Events /\ Fetching(FALSE).do # "results"
    BY EventParts DEF Fetching
  <2>5. Hashes(Append(q, Fetching(FALSE)), shown, lastHash)
    BY <2>3, <2>4, HashesAppend
  <2>6. QED
    BY <2>1, <2>2, <2>3, <2>5
<1>3. CASE /\ lastHash' = lastHash /\ shown' = shown
           /\ \/ coreQ' = coreQ
              \/ \E e \in Events :
                   coreQ' = Append(coreQ, e) /\ e.do \in {"created", "fetching", "finished"}
  BY <1>p, <1>q, <1>3, HashesAppend
<1>4. CASE Linphone
  BY <1>1, <1>2, <1>3, <1>4, OtherPosts, LinphoneLeavesThePage DEF guiVars
<1>5. CASE Gui
  <2>1. lastHash' = lastHash
    BY <1>5, GuiLeavesTheServices
  <2>2. CASE coreQ' = coreQ /\ shown' = shown
    BY <1>p, <2>1, <2>2
  <2>3. CASE coreQ # <<>> /\ shown' = Showing(coreQ, shown)
    <3>1. Tail(coreQ) \in Seq(Events) /\ Hashes(Tail(coreQ), shown', lastHash')
      BY <1>p, <1>q, <2>1, <2>3, HashesTail, Advanced
    <3>2. [do |-> "initialized"] \in Events /\ [do |-> "initialized"].do # "results"
      BY EventParts
    <3>3. Hashes(Append(Tail(coreQ), [do |-> "initialized"]), shown', lastHash')
      BY <3>1, <3>2, HashesAppend
    <3>4. QED
      BY <1>5, <2>2, <3>1, <3>3, GuiShows
  <2>4. QED
    BY <1>5, <2>2, <2>3, GuiShows
<1>6. CASE UNCHANGED vars
  BY <1>6, <1>p DEF vars, guiVars
<1>7. QED
  BY <1>4, <1>5, <1>6 DEF Next

\* A queue that is right for some lists is right for more.
LEMMA LandedMore ==
  ASSUME NEW q, NEW s, NEW good, NEW more, good \subseteq more, Landed(q, s, good)
  PROVE  Landed(q, s, more)
BY DEF Landed

\* Outside a callback, the books that hold something are those to be shown.
LEMMA FullWhenIdle ==
  ASSUME Idle
  PROVE  Full = {books \in Books : \A l \in Lists : stored[l] # Empty => books[l] # Empty}
BY DEF Idle, Full, Landing

\* A sync asks no more of the list than was asked before it: the contacts it brings to a
\* book that was empty are still to be announced.
LEMMA SyncAsksNoMore ==
  ASSUME TypeOK, LaterAreOfFullBooks, NEW sync \in Lists, NEW ok \in BOOLEAN,
         SyncReports(sync, ok)
  PROVE  Full \subseteq Full'
<1>1. SUFFICES ASSUME NEW books \in Full, NEW l \in Lists, stored'[l] # Empty,
                      Landing(l)' => \E a \in agents : a.list = l /\ Later(a)
               PROVE  books[l] # Empty
  <2>1. agents' = agents
    BY DEF SyncReports
  <2>2. Full' = {books \in Books : \A l \in Lists :
          stored'[l] # Empty /\ (Landing(l)' => \E a \in agents : a.list = l /\ Later(a))
            => books[l] # Empty}
    BY <2>1 DEF Full, Later, Books
  <2>3. QED
    BY <2>2 DEF Full
<1>2. Idle /\ reporting' = [list |-> sync, succeeded |-> ok] /\ reporting' # Nothing
  BY NothingAssumption DEF SyncReports
<1>3. \A m \in Lists : stored[m] # Empty => books[m] # Empty
  BY <1>1, <1>2, FullWhenIdle
<1>4. CASE l = sync /\ ok
  <2>1. Landing(l)'
    BY <1>2, <1>4 DEF Landing
  <2>2. PICK a \in agents : a.list = l /\ Later(a)
    BY <1>1, <2>1
  <2>3. stored[l] # Empty
    BY <1>2, <2>2 DEF LaterAreOfFullBooks, Landing, Idle
  <2>4. QED
    BY <1>3, <2>3
<1>5. CASE ~(l = sync /\ ok)
  <2>1. stored'[l] = stored[l]
    BY <1>5 DEF SyncReports, TypeOK
  <2>2. QED
    BY <1>1, <1>3, <2>1
<1>6. QED
  BY <1>4, <1>5

\* Nor does an agent that hears of it, unless it announces the sync itself.
LEMMA HearingAsksNoMore ==
  ASSUME TypeOK, NEW a \in agents, AgentHears(a), ~a.first,
         ~(a.batch = Announced /\ reporting.succeeded)
  PROVE  Full \subseteq Full'
<1>0. /\ reporting # Nothing /\ reporting.list = a.list /\ stored' = stored
      /\ agents' = agents \ {a} /\ reporting' \in {reporting, Nothing}
  BY DEF AgentHears
<1>1. SUFFICES ASSUME NEW books \in Full, NEW l \in Lists, stored[l] # Empty,
                      Landing(l)' => \E b \in agents \ {a} : b.list = l /\ Later(b)
               PROVE  books[l] # Empty
  <2>1. Full' = {books \in Books : \A l \in Lists :
          stored[l] # Empty /\ (Landing(l)' => \E b \in agents \ {a} : b.list = l /\ Later(b))
            => books[l] # Empty}
    BY <1>0 DEF Full, Later, Books
  <2>2. QED
    BY <2>1 DEF Full
<1>2. Landing(l) => \E b \in agents : b.list = l /\ Later(b)
  <2>1. ASSUME Landing(l) PROVE a.list = l /\ Later(a)
    BY <1>0, <2>1 DEF Landing, Later
  <2>2. QED
    BY <2>1
<1>3. QED
  BY <1>1, <1>2 DEF Full

\* With no fetch under way, whatever lands on the list shows the books that hold something.
LEMMA FetchedNext ==
  TypeOK /\ RunsAreApart /\ FetchesAreCounted /\ LaterAreOfFullBooks /\ HashIsOfTheLast
    /\ FetchedLand /\ [Next]_vars => FetchedLand'
<1> SUFFICES ASSUME TypeOK, RunsAreApart, FetchesAreCounted, LaterAreOfFullBooks,
                    HashIsOfTheLast, FetchedLand, [Next]_vars, fetches' = 0
             PROVE  Landed(coreQ', shown', Full')
  <2>1. FetchedLand' <=> (fetches' = 0 => Landed(coreQ', shown', Full'))
    BY DEF FetchedLand, Landed, After, Books
  <2>2. QED
    BY <2>1
<1>q. coreQ \in Seq(Events) /\ stored \in Books /\ fetches \in Nat
  BY DEF TypeOK, Books
<1>p. fetches = 0 => Landed(coreQ, shown, Full)
  BY DEF FetchedLand
<1>o. ASSUME NEW e \in Events, e.do \notin {"results", "unchanged"}, coreQ' = Append(coreQ, e),
             shown' = shown, fetches = 0, Full \subseteq Full'
      PROVE  Landed(coreQ', shown', Full')
  BY <1>p, <1>q, <1>o, LandedMore, LandedAppend
<1>s. ASSUME coreQ' = coreQ, shown' = shown, fetches = 0, Full \subseteq Full'
      PROVE  Landed(coreQ', shown', Full')
  BY <1>p, <1>s, LandedMore
<1>w. ASSUME UNCHANGED <<stored, reporting>>, Idle \/ agents' = agents
      PROVE  Full' = Full
  BY <1>w DEF Full, Landing, Later, Idle, Books
<1>1. CASE Linphone
  <2>s. shown' = shown
    BY <1>1, LinphoneLeavesThePage DEF guiVars
  <2>1. CASE SearchReports
    <3>0. Idle /\ fetches' = fetches /\ Full' = Full
      BY <1>w, <2>1 DEF SearchReports, syncVars
    <3>1. Full = {books \in Books : \A l \in Lists : stored[l] # Empty => books[l] # Empty}
      BY <3>0, FullWhenIdle
    <3>2. coreQ' = Append(coreQ, IF lastHash = Hash(stored) THEN [do |-> "unchanged"]
                                 ELSE [do |-> "results", found |-> stored])
      BY <2>1 DEF SearchReports
    <3>3. CASE lastHash = Hash(stored)
      <4>1. [do |-> "unchanged"] \in Events /\ [do |-> "unchanged"].do = "unchanged"
        BY EventParts
      <4>2. lastHash # Nothing
        BY <3>3, HashType, HashedAssumption
      <4>3. ASSUME NEW books \in Books, After(coreQ, shown, Len(coreQ), books)
            PROVE  books \in Full
        <5>1. Hash(books) = Hash(stored)
          BY <3>3, <4>2, <4>3 DEF HashIsOfTheLast, Hashes
        <5>2. ASSUME NEW l \in Lists, stored[l] # Empty PROVE books[l] # Empty
          <6>1. Hashed[books[l]] = Hashed[stored[l]]
            <7>1. Hash(books)[l] = Hash(stored)[l]
              BY <5>1
            <7>2. QED
              BY <7>1 DEF Hash
          <6>2. stored[l] \in Contents
            BY DEF TypeOK
          <6>3. QED
            BY <5>2, <6>1, <6>2, HashedAssumption
        <5>3. QED
          BY <3>1, <5>2
      <4>4. Landed(Append(coreQ, [do |-> "unchanged"]), shown, Full)
        BY <1>p, <1>q, <3>0, <4>1, <4>3, LandedAppend
      <4>5. QED
        BY <2>s, <3>0, <3>2, <3>3, <4>4
    <3>4. CASE lastHash # Hash(stored)
      <4> DEFINE e == [do |-> "results", found |-> stored]
      <4>1. e \in Events /\ e.do = "results" /\ e.found = stored
        BY <1>q, EventParts
      <4>2. coreQ' = Append(coreQ, e)
        BY <3>2, <3>4
      <4> HIDE DEF e
      <4>3. stored \in Full
        BY <1>q, <3>1
      <4>4. Landed(Append(coreQ, e), shown, Full)
        BY <1>p, <1>q, <3>0, <4>1, <4>3, LandedAppend
      <4>5. QED
        BY <2>s, <3>0, <4>2, <4>4
    <3>5. QED
      BY <3>3, <3>4
  <2>2. ASSUME NEW a \in agents, AgentHears(a) PROVE Landed(coreQ', shown', Full')
    <3>1. PICK q \in Seq(Events) :
            /\ \/ q = coreQ /\ Completed(a) = <<>>
               \/ \E e \in Events : /\ q = Append(coreQ, e) /\ Completed(a) = <<e>>
                                    /\ e.do \in {"synchronized", "finished"}
            /\ coreQ' = IF a.first /\ fetches = 1 THEN Append(q, Fetching(FALSE)) ELSE q
      BY <2>2, HearingPosts
    <3>2. CASE a.first /\ fetches = 1
      <4>1. Fetching(FALSE) \in Events /\ Fetching(FALSE).do = "fetching"
        BY EventParts DEF Fetching
      <4>2. Landed(Append(q, Fetching(FALSE)), shown, Full')
        BY <4>1, LandedAppend
      <4>3. QED
        BY <2>s, <3>1, <3>2, <4>2
    <3>3. CASE ~(a.first /\ fetches = 1)
      <4>1. coreQ' = q
        BY <3>1, <3>3
      <4>2. fetches' = Counted(a)
        BY <2>2 DEF AgentHears
      <4>3. a.first => fetches # 0
        BY Counts
      <4>4. ~a.first /\ fetches = 0
        <5>1. CASE a.first
          BY <1>q, <3>3, <4>2, <4>3, <5>1 DEF Counted
        <5>2. CASE ~a.first
          BY <4>2, <5>2 DEF Counted
        <5>3. QED
          BY <5>1, <5>2
      <4>5. CASE a.batch = Announced /\ reporting.succeeded
        <5>1. Completed(a) = <<[do |-> "synchronized"]>>
          BY <4>5 DEF Completed
        <5>2. [do |-> "synchronized"] \in Events /\ [do |-> "synchronized"].do = "synchronized"
          BY EventParts
        <5>3. q = Append(coreQ, [do |-> "synchronized"])
          BY <3>1, <5>1
        <5>4. Landed(Append(coreQ, [do |-> "synchronized"]), shown, Full')
          BY <1>q, <5>2, LandedAppend
        <5>5. QED
          BY <2>s, <4>1, <5>3, <5>4
      <4>6. CASE ~(a.batch = Announced /\ reporting.succeeded)
        <5>1. Full \subseteq Full'
          BY <2>2, <4>4, <4>6, HearingAsksNoMore
        <5>2. QED
          BY <1>o, <1>s, <2>s, <3>1, <4>1, <4>4, <5>1
      <4>7. QED
        BY <4>5, <4>6
    <3>4. QED
      BY <3>2, <3>3
  <2>3. ASSUME NEW l \in Lists, NEW ok \in BOOLEAN, SyncReports(l, ok)
        PROVE  Landed(coreQ', shown', Full')
    <3>1. coreQ' = coreQ /\ fetches = 0
      BY <2>3 DEF SyncReports
    <3>2. Full \subseteq Full'
      BY <2>3, SyncAsksNoMore
    <3>3. QED
      BY <1>s, <2>s, <3>1, <3>2
  <2>4. CASE Starts
    <3>1. PICK on \in SUBSET Lists, batch \in Batches \union {Announced} : Start(on, batch, stored)
      BY <2>4 DEF Starts
    <3>2. coreQ' = coreQ /\ fetches = 0
      <4>1. fetches = 0
        <5>1. fetches' = 0 => fetches = 0
          BY <1>q, <3>1, StartAnnounces
        <5>2. QED
          BY <5>1
      <4>2. ~(fetches' > 0)
        OBVIOUS
      <4>3. QED
        BY <3>1, <4>1, <4>2, StartAnnounces
    <3>3. Full' = Full
      BY <1>w, <2>4 DEF Starts
    <3>4. QED
      BY <1>s, <2>s, <3>2, <3>3
  <2>5. CASE CreateSearch \/ ReadFetching \/ Search \/ NothingToRefresh \/ \E l \in Lists : AddByHand(l)
    <3>1. fetches = 0 /\ lastHash' = lastHash
      BY <2>5 DEF CreateSearch, ReadFetching, Search, NothingToRefresh, AddByHand, syncVars
    <3>2. Full' = Full
      <4>1. UNCHANGED <<stored, reporting>> /\ (Idle \/ agents' = agents)
        BY <2>5 DEF CreateSearch, ReadFetching, Search, NothingToRefresh, AddByHand, syncVars
      <4>2. QED
        BY <1>w, <4>1
    <3>3. \/ coreQ' = coreQ
          \/ \E e \in Events :
               coreQ' = Append(coreQ, e) /\ e.do \in {"created", "fetching", "finished"}
          \/ SearchReports \/ \E a \in agents : AgentHears(a)
      BY <1>1, OtherPosts
    <3>4. QED
      BY <1>o, <1>s, <2>s, <2>1, <2>2, <3>1, <3>2, <3>3
  <2>6. QED
    BY <1>1, <2>1, <2>2, <2>3, <2>4, <2>5, TheStarts DEF Linphone
<1>2. CASE Gui
  <2>1. fetches' = fetches /\ Full' = Full
    <3>1. UNCHANGED <<stored, reporting, agents, fetches>>
      BY <1>2, GuiLeavesTheServices DEF syncVars
    <3>2. QED
      BY <1>w, <3>1
  <2>2. CASE coreQ' = coreQ /\ shown' = shown
    BY <1>p, <2>1, <2>2
  <2>3. CASE coreQ # <<>> /\ shown' = Showing(coreQ, shown)
    <3>1. Tail(coreQ) \in Seq(Events) /\ Landed(Tail(coreQ), shown', Full')
      BY <1>p, <1>q, <2>1, <2>3, LandedTail, Advanced
    <3>2. [do |-> "initialized"] \in Events /\ [do |-> "initialized"].do = "initialized"
      BY EventParts
    <3>3. Landed(Append(Tail(coreQ), [do |-> "initialized"]), shown', Full')
      BY <3>1, <3>2, LandedAppend
    <3>4. QED
      BY <1>2, <2>2, <3>1, <3>3, GuiShows
  <2>4. QED
    BY <1>2, <2>2, <2>3, GuiShows
<1>3. CASE UNCHANGED vars
  <2>1. UNCHANGED <<stored, reporting, agents, fetches, coreQ, shown>>
    BY <1>3 DEF vars, guiVars, syncVars
  <2>2. QED
    BY <1>p, <1>w, <2>1
<1>4. QED
  BY <1>1, <1>2, <1>3 DEF Next

\* A refresh whose agent hears ends, or has another agent.
LEMMA RunGoesOn ==
  ASSUME NEW a \in agents, AgentHears(a), a.batch # Announced
  PROVE  \/ \E b \in agents' : b.batch # Announced
         \/ \E e \in {[do |-> "finished", batch |-> a.batch,
                       succeeded |-> reporting.succeeded /\ a.batch \notin anyFailed]} :
              Completed(a) = <<e>>
<1>1. agents' = agents \ {a}
  BY DEF AgentHears
<1>2. CASE \A b \in agents \ {a} : b.batch # a.batch
  BY <1>2 DEF Completed
<1>3. CASE \E b \in agents \ {a} : b.batch = a.batch
  BY <1>1, <1>3
<1>4. QED
  BY <1>2, <1>3

\* Whatever changes a book, or takes a search away, leaves another search to come.
LEMMA StaleNext ==
  TypeOK /\ RunsAreApart /\ BeforeThePage /\ StaleIsPending /\ [Next]_vars => StaleIsPending'
<1> SUFFICES ASSUME TypeOK, RunsAreApart, BeforeThePage, StaleIsPending, [Next]_vars,
                    searching', lastHash' # Hash(stored')
             PROVE  Pending'
  <2>1. Hash(stored)' = Hash(stored')
    BY DEF Hash
  <2>2. QED
    BY <2>1 DEF StaleIsPending
<1>q. coreQ \in Seq(Events) /\ modelQ \in Seq(Tasks) /\ requests \in Nat
  BY DEF TypeOK
<1>p. ASSUME UNCHANGED <<searching, stored, lastHash>> PROVE Pending
  BY <1>p DEF StaleIsPending
<1>m. /\ \A what : Take(what) /\ what # "search" /\ InQueue(modelQ, "search") => InQueue(modelQ', "search")
      /\ \A t \in Tasks : InQueue(modelQ, "search") => InQueue(Append(modelQ, t), "search")
      /\ InQueue(Append(modelQ, [do |-> "search"]), "search")
  <2>1. ASSUME NEW what, Take(what), what # "search", InQueue(modelQ, "search")
        PROVE  InQueue(modelQ', "search")
    <3>1. modelQ # <<>> /\ modelQ' = Tail(modelQ) /\ Head(modelQ).do = what
      BY <2>1, HeadTask
    <3>2. InQueue(modelQ, "search") <=>
            InQueue(Tail(modelQ), "search") \/ Head(modelQ).do = "search"
      BY <1>q, <3>1, Queued
    <3>3. QED
      BY <2>1, <3>1, <3>2
  <2>2. \A t \in Tasks : InQueue(Append(modelQ, t), "search") <=>
                           InQueue(modelQ, "search") \/ t.do = "search"
    BY <1>q, Queued
  <2>3. [do |-> "search"] \in Tasks /\ [do |-> "search"].do = "search"
    BY TaskParts
  <2>4. QED
    BY <2>1, <2>2, <2>3
<1> DEFINE Heard(q) == InQueue(q, "synchronized") \/ InQueue(q, "finished")
<1>c. ASSUME NEW q \in Seq(Events)
      PROVE  /\ \A e \in Events : Heard(Append(q, e)) <=> Heard(q) \/ e.do \in {"synchronized", "finished"}
             /\ q # <<>> => (Heard(q) <=> Heard(Tail(q)) \/ Head(q).do \in {"synchronized", "finished"})
  BY <1>c, Queued
<1> HIDE DEF Heard
<1>P. /\ Pending <=> \/ InQueue(modelQ, "search") \/ requests > 0
                     \/ Heard(coreQ) \/ lastFailed
                     \/ \E a \in agents : a.batch # Announced
                     \/ reporting # Nothing /\ reporting.succeeded
      /\ Pending' <=> \/ InQueue(modelQ', "search") \/ requests' > 0
                      \/ Heard(coreQ') \/ lastFailed'
                      \/ \E a \in agents' : a.batch # Announced
                      \/ reporting' # Nothing /\ reporting'.succeeded
  BY DEF Pending, InQueue, Heard
<1>1. CASE Linphone
  <2>s. UNCHANGED <<searching, lastFailed>>
    BY <1>1, LinphoneLeavesThePage DEF guiVars
  <2>1. CASE SearchReports
    <3>1. lastHash' = Hash(stored')
      BY <2>1 DEF SearchReports, syncVars
    <3>2. QED
      BY <3>1
  <2>2. ASSUME NEW a \in agents, AgentHears(a) PROVE Pending'
    <3>1. PICK q \in Seq(Events) :
            /\ \/ q = coreQ /\ Completed(a) = <<>>
               \/ \E e \in Events : /\ q = Append(coreQ, e) /\ Completed(a) = <<e>>
                                    /\ e.do \in {"synchronized", "finished"}
            /\ coreQ' = IF a.first /\ fetches = 1 THEN Append(q, Fetching(FALSE)) ELSE q
      BY <2>2, HearingPosts
    <3>2. Fetching(FALSE) \in Events
      BY EventParts
    <3>3. Heard(q) => Heard(coreQ')
      BY <1>c, <3>1, <3>2
    <3>4. Heard(coreQ) => Heard(q)
      BY <1>c, <1>q, <3>1
    <3>5. Completed(a) # <<>> => Heard(q)
      BY <1>c, <1>q, <3>1
    <3>6. /\ Pending /\ reporting # Nothing /\ agents' = agents \ {a}
          /\ modelQ' = modelQ /\ requests' = requests
      BY <1>p, <2>2, <2>s DEF AgentHears
    <3>7. CASE a.batch # Announced
      <4>1. CASE \E b \in agents' : b.batch # Announced
        BY <1>P, <4>1
      <4>2. CASE \E e : Completed(a) = <<e>>
        <5>1. Completed(a) # <<>>
          BY <4>2
        <5>2. QED
          BY <1>P, <3>3, <3>5, <5>1
      <4>3. QED
        BY <2>2, <3>7, <4>1, <4>2, RunGoesOn
    <3>8. CASE a.batch = Announced /\ reporting.succeeded
      BY <1>P, <3>3, <3>5, <3>8 DEF Completed
    <3>9. CASE a.batch = Announced /\ ~reporting.succeeded
      BY <1>P, <2>s, <3>3, <3>4, <3>6, <3>9
    <3>10. QED
      BY <3>7, <3>8, <3>9
  <2>3. ASSUME NEW l \in Lists, NEW ok \in BOOLEAN, SyncReports(l, ok) PROVE Pending'
    <3>1. /\ reporting' = [list |-> l, succeeded |-> ok] /\ reporting' # Nothing /\ Idle
          /\ UNCHANGED <<coreQ, modelQ, agents, requests, lastHash>>
      BY <2>3, NothingAssumption DEF SyncReports
    <3>2. CASE ok
      BY <1>P, <3>1, <3>2
    <3>3. CASE ~ok
      <4>1. Pending
        BY <1>p, <2>3, <2>s, <3>1, <3>3 DEF SyncReports
      <4>2. QED
        BY <1>P, <2>s, <3>1, <4>1 DEF Idle
    <3>4. QED
      BY <3>2, <3>3
  <2>4. CASE Search
    <3>1. requests' > 0
      BY <1>q, <2>4 DEF Search
    <3>2. QED
      BY <1>P, <3>1
  <2>5. CASE NothingToRefresh
    <3> DEFINE e == [do |-> "finished", batch |-> Head(modelQ).batch, succeeded |-> TRUE]
    <3>1. Head(modelQ).batch \in Batches
      BY <2>5, HeadTask, TaskParts DEF NothingToRefresh
    <3>2. e \in Events /\ e.do = "finished"
      BY <3>1, EventParts
    <3>3. coreQ' = Append(coreQ, e)
      BY <2>5 DEF NothingToRefresh
    <3> HIDE DEF e
    <3>4. Heard(coreQ')
      BY <1>c, <1>q, <3>2, <3>3
    <3>5. QED
      BY <1>P, <3>4
  <2>6. CASE /\ Starts \/ CreateSearch \/ ReadFetching \/ \E l \in Lists : AddByHand(l)
             /\ ~SearchReports /\ ~\E a \in agents : AgentHears(a)
    <3>1. UNCHANGED <<stored, reporting, requests, lastHash>>
      BY <2>6 DEF Starts, CreateSearch, ReadFetching, AddByHand, syncVars
    <3>2. agents \subseteq agents'
      BY <2>6 DEF Starts, Start, CreateSearch, ReadFetching, AddByHand, syncVars
    <3>3. InQueue(modelQ, "search") => InQueue(modelQ', "search")
      BY <1>m, <2>6 DEF Starts, CreateSearch, ReadFetching, AddByHand
    <3>4. Heard(coreQ) => Heard(coreQ')
      <4>1. \/ coreQ' = coreQ
            \/ \E e \in Events : coreQ' = Append(coreQ, e)
        BY <1>1, <2>6, OtherPosts
      <4>2. ASSUME NEW e \in Events PROVE Heard(coreQ) => Heard(Append(coreQ, e))
        BY <1>c, <1>q
      <4>3. QED
        BY <4>1, <4>2
    <3>5. Pending
      BY <1>p, <2>s, <3>1
    <3>6. QED
      BY <1>P, <2>s, <3>1, <3>2, <3>3, <3>4, <3>5
  <2>7. QED
    BY <1>1, <2>1, <2>2, <2>3, <2>4, <2>5, <2>6, TheStarts DEF Linphone
<1>2. CASE Gui
  <2>1. UNCHANGED <<stored, agents, reporting, requests, lastHash>>
    BY <1>2, GuiLeavesTheServices DEF syncVars
  <2>2. InQueue(modelQ, "search") => InQueue(modelQ', "search")
    <3>1. CASE Construct
      <4>1. modelQ' = modelQ \o Asked
        BY <3>1 DEF Construct
      <4>2. Asked \in Seq(Tasks)
        BY TaskParts DEF Asked
      <4>3. \A i \in DOMAIN modelQ : i \in DOMAIN modelQ' /\ modelQ'[i] = modelQ[i]
        BY <1>q, <4>1, <4>2
      <4>4. QED
        BY <4>3 DEF InQueue
    <3>2. CASE Refresh
      BY <1>m, <3>2, TaskParts DEF Refresh
    <3>3. QED
      BY <1>2, <1>m, <3>1, <3>2, GuiQueues, TaskParts
  <2>3. CASE InQueue(modelQ', "search") \/ lastFailed'
    BY <1>P, <2>3
  <2>4. CASE Synchronized
    <3>1. searching
      BY <2>4 DEF Synchronized, guiVars
    <3>2. connected
      BY <3>1 DEF BeforeThePage
    <3>3. modelQ' = Append(modelQ, [do |-> "search"])
      BY <2>4, <3>1, <3>2 DEF Synchronized, ForceUpdate
    <3>4. QED
      BY <1>m, <2>3, <3>3
  <2>5. ASSUME NEW ok, OnSyncFinished(ok) PROVE Pending'
    <3>1. CASE ok
      <4>1. searching
        BY <2>5 DEF OnSyncFinished
      <4>2. modelQ' = Append(modelQ, [do |-> "search"])
        BY <2>5, <3>1, <4>1 DEF OnSyncFinished, ForceUpdate
      <4>3. QED
        BY <1>m, <2>3, <4>2
    <3>2. CASE ~ok
      BY <2>3, <2>5, <3>2 DEF OnSyncFinished
    <3>3. QED
      BY <3>1, <3>2
  <2>6. CASE Finished \/ SyncWatchdog
    BY <2>5, <2>6 DEF Finished, SyncWatchdog
  <2>7. CASE Initialized
    BY <1>m, <2>3, <2>7 DEF Initialized
  <2>8. CASE /\ UNCHANGED <<searching, lastFailed>>
             /\ \/ coreQ' = coreQ
                \/ /\ coreQ # <<>> /\ Head(coreQ).do \notin {"synchronized", "finished"}
                   /\ \/ coreQ' = Tail(coreQ)
                      \/ coreQ' = Append(Tail(coreQ), [do |-> "initialized"])
    <3>1. Pending
      BY <1>p, <2>1, <2>8
    <3>2. Heard(coreQ) => Heard(coreQ')
      <4>1. coreQ # <<>> => Tail(coreQ) \in Seq(Events)
        BY <1>q, Advanced
      <4>2. [do |-> "initialized"] \in Events
        BY EventParts
      <4>3. CASE coreQ # <<>> /\ Head(coreQ).do \notin {"synchronized", "finished"}
        <5>1. Heard(coreQ) => Heard(Tail(coreQ))
          BY <1>c, <1>q, <4>3
        <5>2. Heard(Tail(coreQ)) => Heard(Append(Tail(coreQ), [do |-> "initialized"]))
          BY <1>c, <4>1, <4>2, <4>3
        <5>3. CASE coreQ' = Tail(coreQ)
          BY <5>1, <5>3
        <5>4. CASE coreQ' = Append(Tail(coreQ), [do |-> "initialized"])
          BY <5>1, <5>2, <5>4
        <5>5. CASE coreQ' = coreQ
          BY <5>5
        <5>6. QED
          BY <2>8, <5>3, <5>4, <5>5
      <4>4. CASE coreQ' = coreQ
        BY <4>4
      <4>5. QED
        BY <2>8, <4>3, <4>4
    <3>3. QED
      BY <1>P, <2>1, <2>2, <2>8, <3>1, <3>2
  <2>9. CASE Construct \/ LoadWatchdog \/ FetchWatchdog \/ Refresh \/ DateChanged
    BY <2>8, <2>9 DEF Construct, LoadWatchdog, FetchWatchdog, Refresh, DateChanged, guiVars
  <2>10. CASE Created
    BY <2>8, <2>10 DEF Created, guiVars
  <2>11. CASE Results \/ Unchanged
    BY <2>8, <2>11 DEF Results, Unchanged, Processed, Next1
  <2>12. CASE FetchingChanged
    BY <2>8, <2>12 DEF FetchingChanged, Next1
  <2>13. QED
    BY <1>2, <2>4, <2>6, <2>7, <2>9, <2>10, <2>11, <2>12 DEF Gui, GuiQueue
<1>3. CASE UNCHANGED vars
  <2>1. /\ UNCHANGED <<searching, lastFailed, stored, lastHash, coreQ, modelQ, agents, requests>>
        /\ UNCHANGED reporting
    BY <1>3 DEF vars, guiVars, syncVars
  <2>2. QED
    BY <1>p, <1>P, <2>1
<1>4. QED
  BY <1>1, <1>2, <1>3 DEF Next
-----------------------------------------------------------------------------
(* The invariant *)

IInv ==
  /\ TypeOK
  /\ RunsAreApart /\ FetchesAreCounted
  /\ BeforeThePage /\ LastChangeIsQueued /\ AwaitsTheFetched /\ PageAgrees
  /\ ReportIsHeard /\ LaterAreOfFullBooks /\ FetchedLand
  /\ HashIsOfTheLast /\ StaleIsPending

\* The invariant holds at first.
LEMMA InitIInv == Init => IInv
<1> SUFFICES ASSUME Init PROVE IInv
  OBVIOUS
<1>1. coreQ = <<>> /\ modelQ = <<>> /\ agents = {} /\ reporting = Nothing
      /\ fetches = 0 /\ lastHash = Nothing
      /\ ~connected /\ ~searching /\ ~awaiting /\ ~fetching
  BY DEF Init
<1>2. TypeOK
  BY InitTypes
<1>3. FetchesAreCounted
  <2>1. First = {}
    BY <1>1 DEF First
  <2>2. QED
    BY <1>1, <2>1, FS_EmptySet DEF FetchesAreCounted
<1>4. DOMAIN coreQ = {} /\ DOMAIN modelQ = {}
  BY <1>1
<1>5. RunsAreApart /\ BeforeThePage /\ LastChangeIsQueued
  BY <1>1, <1>4 DEF RunsAreApart, Apart, BeforeThePage, LastChangeIsQueued, LastChangeIs, InQueue
<1>6. AwaitsTheFetched /\ PageAgrees
  BY <1>1 DEF AwaitsTheFetched, PageAgrees
<1>7. ReportIsHeard /\ LaterAreOfFullBooks
  BY <1>1 DEF ReportIsHeard, LaterAreOfFullBooks
<1>8. FetchedLand
  BY <1>4 DEF FetchedLand, Landed
<1>9. HashIsOfTheLast /\ StaleIsPending
  BY <1>1 DEF HashIsOfTheLast, StaleIsPending
<1>10. QED
  BY <1>2, <1>3, <1>5, <1>6, <1>7, <1>8, <1>9 DEF IInv

\* Each part is kept by a step from the parts it rests on.
LEMMA IInvNext == IInv /\ [Next]_vars => IInv'
BY TypesNext, RunsNext, CountNext, BeforeNext, LastChangeNext, AwaitsNext, PageNext,
   HeardNext, LaterNext, FetchedNext, HashNext, StaleNext DEF IInv

(* The inductive invariant from which the theorems below follow: types, exact counts, the last word on
   the fetch, and searches that are still to come. *)
THEOREM Invariance == Spec => []IInv
<1>1. IInv /\ [Next]_vars => IInv'
  BY IInvNext
<1>2. QED
  BY <1>1, InitIInv, PTL DEF Spec

(* Every variable keeps its type, whatever the books and the bounds. *)
THEOREM TypeSafety == Spec => []TypeOK
<1>1. IInv => TypeOK
  BY DEF IInv
<1>2. QED
  BY <1>1, Invariance, PTL

(* The change that follows the read is queued behind it (ContactsCore.cpp:98-100): once
   what was posted about the fetch has run, the page says what is so. *)
THEOREM FetchingSafety == Spec => []FetchingIsTrue
<1>1. IInv => FetchingIsTrue
  <2>1. SUFFICES ASSUME IInv, connected, ~InQueue(coreQ, "fetching"),
                        ~InQueue(modelQ, "readFetching")
                 PROVE  /\ (\E a \in agents : a.first) => (fetching /\ ~awaiting) \/ gaveUp
                        /\ (\A a \in agents : ~a.first) => fetching = awaiting
    BY DEF FetchingIsTrue
  <2>2. fetches \in Nat /\ (fetches = 0 <=> \A a \in agents : ~a.first)
    BY <2>1, Counts DEF IInv
  <2>3. /\ awaiting => fetches = 0
        /\ fetches > 0 => fetching \/ gaveUp
        /\ fetches = 0 => fetching = awaiting
    BY <2>1 DEF IInv, PageAgrees
  <2>4. ASSUME \E a \in agents : a.first PROVE (fetching /\ ~awaiting) \/ gaveUp
    <3>1. fetches > 0 /\ fetches # 0
      BY <2>2, <2>4
    <3>2. QED
      BY <2>3, <3>1
  <2>5. QED
    BY <2>2, <2>3, <2>4
<1>2. QED
  BY <1>1, Invariance, PTL

(* When nothing is left to run, the list shows the names and addresses that the books
   hold, unless the last refresh failed (ContactsCore.hpp:54). *)
THEOREM SettledSafety == Spec => []SettledListIsCurrent
<1>1. IInv => SettledListIsCurrent
  <2>1. SUFFICES ASSUME IInv, Settled, ~lastFailed PROVE Hash(shown) = Hash(stored)
    BY DEF SettledListIsCurrent
  <2>2. /\ TypeOK /\ HashIsOfTheLast /\ StaleIsPending
        /\ searching /\ coreQ = <<>> /\ modelQ = <<>> /\ requests = 0 /\ reporting = Nothing
        /\ \A a \in agents : a.batch = Announced
    BY <2>1 DEF IInv, Settled, Idle
  <2>3. lastHash = Hash(stored)
    <3>1. ~InQueue(modelQ, "search") /\ ~InQueue(coreQ, "synchronized") /\ ~InQueue(coreQ, "finished")
      <4>1. DOMAIN coreQ = {} /\ DOMAIN modelQ = {}
        BY <2>2
      <4>2. QED
        BY <4>1 DEF InQueue
    <3>2. ~(requests > 0)
      BY <2>2
    <3>3. ~Pending
      BY <2>1, <2>2, <3>1, <3>2 DEF Pending
    <3>4. QED
      BY <2>2, <3>3 DEF StaleIsPending
  <2>4. lastHash # Nothing
    BY <2>2, <2>3, HashType, HashedAssumption
  <2>5. After(coreQ, shown, Len(coreQ), shown)
    <3>1. Len(coreQ) = 0
      BY <2>2
    <3>2. QED
      BY <3>1 DEF After
  <2>6. shown \in Books
    BY <2>2 DEF TypeOK, Books
  <2>7. QED
    BY <2>2, <2>3, <2>4, <2>5, <2>6 DEF HashIsOfTheLast, Hashes
<1>2. QED
  BY <1>1, Invariance, PTL

(* The page stops saying that it fetches only with the fetched contacts in the list
   (contacts-list.md:56-58): no list that reads "empty" shows in between. *)
THEOREM EmptyStateSafety == Spec => EmptyStateDoesNotFlash
<1> DEFINE Flash == fetching /\ ~fetching' /\ ~FetchWatchdog =>
       \/ InQueue(coreQ', "fetching") \/ InQueue(coreQ', "synchronized")
       \/ \A l \in Lists : stored[l] # Empty /\ (\A a \in agents : a.list # l) => shown'[l] # Empty
<1>1. IInv /\ [Next]_vars => [Flash]_vars
  <2>1. SUFFICES ASSUME IInv, [Next]_vars, fetching, ~fetching', ~FetchWatchdog,
                        ~InQueue(coreQ', "fetching"), ~InQueue(coreQ', "synchronized"),
                        NEW l \in Lists, stored[l] # Empty, \A a \in agents : a.list # l
                 PROVE  shown'[l] # Empty
    OBVIOUS
  <2>2. Results \/ Unchanged
    <3>1. ~Linphone /\ ~UNCHANGED vars
      BY <2>1, LinphoneLeavesThePage DEF vars, guiVars
    <3>2. ~(Construct \/ Created \/ Initialized \/ Synchronized \/ Finished \/ SyncWatchdog
            \/ LoadWatchdog \/ Refresh \/ DateChanged)
      BY <2>1 DEF Construct, Created, Initialized, Synchronized, Finished, SyncWatchdog,
                  OnSyncFinished, LoadWatchdog, Refresh, DateChanged, guiVars
    <3>3. ~FetchingChanged
      BY <2>1 DEF FetchingChanged, FetchOver
    <3>4. QED
      BY <2>1, <3>1, <3>2, <3>3 DEF Next, Gui, GuiQueue
  <2>3. /\ coreQ # <<>> /\ Head(coreQ).do \in {"results", "unchanged"} /\ coreQ' = Tail(coreQ)
        /\ shown' = Showing(coreQ, shown)
    BY <2>2 DEF Results, Unchanged, Next1, Showing
  <2>4. coreQ \in Seq(Events) /\ shown \in Books
    BY <2>1 DEF IInv, TypeOK, Books
  <2>5. ~InQueue(coreQ, "fetching")
    BY <2>1, <2>3, <2>4, Queued
  <2>6. fetches = 0
    <3>1. awaiting
      BY <2>1, <2>2 DEF Results, Unchanged, Processed
    <3>2. QED
      BY <2>1, <2>5, <3>1 DEF IInv, PageAgrees
  <2>7. Landed(coreQ, shown, Full)
    BY <2>1, <2>6 DEF IInv, FetchedLand
  <2>8. After(coreQ, shown, 1, shown')
    BY <2>3, <2>4, Advanced DEF After, Showing
  <2>9. shown' \in Books
    BY <2>3, <2>4, Advanced, EventParts DEF Showing
  <2>10. 1 \in DOMAIN coreQ /\ coreQ[1].do \in {"results", "unchanged"}
    BY <2>3, <2>4, Advanced
  <2>11. ASSUME NEW j \in DOMAIN coreQ, j > 1
         PROVE  coreQ[j].do \notin {"fetching", "synchronized"}
    <3>1. j - 1 \in DOMAIN Tail(coreQ) /\ Tail(coreQ)[j - 1] = coreQ[j]
      BY <2>3, <2>4, <2>11, Advanced
    <3>2. QED
      BY <2>1, <2>3, <3>1 DEF InQueue
  <2>12. shown' \in Full
    BY <2>7, <2>8, <2>9, <2>10, <2>11 DEF Landed
  <2>13. ~Landing(l)
    BY <2>1 DEF Landing, IInv, ReportIsHeard
  <2>14. QED
    BY <2>1, <2>12, <2>13 DEF Full
<1> HIDE DEF Flash
<1>2. Spec => [][Flash]_vars
  BY <1>1, Invariance, PTL DEF Spec
<1>3. QED
  BY <1>2 DEF EmptyStateDoesNotFlash, Flash
=============================================================================
