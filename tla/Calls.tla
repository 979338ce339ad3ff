------------------------------- MODULE Calls -------------------------------
(* The calls on show (core/call/CallList.cpp), the cores that carry them (CallCore.cpp),
   holding and resuming (CallModel.cpp), and dialling (ToolModel::createCall).

   The linphone thread runs the SDK and the closures the GUI thread posts to it; the GUI
   thread keeps the list and runs the closures posted back.  Each queue is run in order.

   A call has one core from callCreated and another from every snapshot of lUpdate().  An
   old core that a view still holds hears of its call like the one in the list.

   The SDK is modelled from how it is used here: at most one call has the line, and one
   that takes it puts the other on hold; a call leaves getCalls() when it ends, and is
   released later. *)
EXTENDS Picking, Functions

CONSTANTS
  Calls,      \* the calls there can be, each taken or dialled once
  NoCore,     \* nullptr
  MaxWork     \* a bound on the closures waiting when the user or the network does something

Cores == [call : Calls, gen : Nat]   \* gen 0 from callCreated, then the snapshots in turn

ASSUME NoCoreAssumption == NoCore \notin Cores /\ NoCore \notin Calls

VARIABLES
  sdk,        \* the state of each call in the SDK
  getCalls,   \* core->getCalls(), in the order the calls were created
  registered, \* the default account is registered
  waits,      \* the numbers createCall() has connected to accountRegistrationStateChanged
  cores,      \* the CallCores there are, those on their way to the GUI included
  snapshots,  \* how many snapshots lUpdate() has made
  modelQ,     \* closures posted to the linphone thread
  guiQ,       \* closures posted to the GUI thread
  list,       \* mList
  current,    \* mCurrentCall
  haveCall,   \* mHaveCall
  heard       \* the state the listed core of each call is in

modelVars == <<sdk, getCalls, registered, waits, snapshots>>
guiVars == <<list, current, haveCall, heard>>
vars == <<modelVars, cores, modelQ, guiQ, guiVars>>

Ringing == {"OutgoingProgress", "IncomingReceived"}
Live == Ringing \union {"StreamsRunning", "Paused", "Resuming"}
States == Live \union {"Idle", "End", "Released"}

Work == [kind : {"update"}] \union
        [kind : {"dial", "accept", "hold", "resume", "terminate"}, call : Calls]
News == [kind : {"firstCallStarted", "lastCallEnded"}] \union
        [kind : {"callCreated"}, core : Cores] \union
        [kind : {"state"}, core : Cores, state : States] \union
        [kind : {"reset"}, calls : Seq(Cores), current : Cores \union {NoCore},
         states : [Calls -> States]]

Listed == Range(list)

TypeOK ==
  /\ sdk \in [Calls -> States] /\ heard \in [Calls -> States]
  /\ getCalls \in Seq(Calls) /\ waits \in Seq(Calls)
  /\ registered \in BOOLEAN /\ haveCall \in BOOLEAN
  /\ cores \subseteq Cores /\ snapshots \in Nat
  /\ modelQ \in Seq(Work) /\ guiQ \in Seq(News)
  /\ list \in Seq(Cores) /\ current \in Cores \union {NoCore}
  /\ Listed \subseteq cores

\* CallList::setSelf() has asked for the calls.
Init ==
  /\ sdk = [c \in Calls |-> "Idle"] /\ heard = [c \in Calls |-> "Idle"]
  /\ getCalls = <<>> /\ waits = <<>> /\ registered \in BOOLEAN
  /\ cores = {} /\ snapshots = 0
  /\ modelQ = <<[kind |-> "update"]>> /\ guiQ = <<>>
  /\ list = <<>> /\ current = NoCore /\ haveCall = FALSE

-----------------------------------------------------------------------------
(* The SDK.  A world is what one turn of the linphone thread works on: the calls, the
   cores that listen to them, and what has been posted to the GUI thread. *)

World == [sdk |-> sdk, calls |-> getCalls, cores |-> cores, guiQ |-> guiQ]

Becomes(w) == sdk' = w.sdk /\ getCalls' = w.calls /\ cores' = w.cores /\ guiQ' = w.guiQ

Post(w, news) == [w EXCEPT !.guiQ = Append(@, news)]

\* A call changes state, and its cores hear of it, the oldest first.
StateNews(k, s) == [kind |-> "state", core |-> k, state |-> s]
Notice(w, c, s) ==
  LET gens == Ascending({g \in 0 .. snapshots : [call |-> c, gen |-> g] \in w.cores})
  IN  [i \in DOMAIN gens |-> StateNews([call |-> c, gen |-> gens[i]], s)]
Notify(w, c, s) == [w EXCEPT !.sdk[c] = s, !.guiQ = @ \o Notice(w, c, s)]

\* Who has the line is put on hold.
TakeLine(w, c) ==
  LET busy == {d \in Calls \ {c} : w.sdk[d] \in {"StreamsRunning", "Resuming"}}
  IN  IF busy = {} THEN w ELSE Notify(w, CHOOSE d \in busy : TRUE, "Paused")

\* callCreated, and firstCallStarted if there was none.
Create(w, c) ==
  LET core == [call |-> c, gen |-> 0]
      created == Post([w EXCEPT !.calls = Append(@, c), !.cores = @ \union {core}],
                      [kind |-> "callCreated", core |-> core])
  IN  IF w.calls = <<>> THEN Post(created, [kind |-> "firstCallStarted"]) ELSE created

\* inviteAddressWithParams()
Invite(w, c) == Notify(Create(TakeLine(w, c), c), c, "OutgoingProgress")

Run(w, c) == Notify(TakeLine(w, c), c, "StreamsRunning")

Without(q, x) == Entries(q, {i \in DOMAIN q : q[i] # x})

\* A call ends and leaves getCalls(); lastCallEnded if it was the last.
End(w, c) ==
  LET ended == Notify([w EXCEPT !.calls = Without(@, c)], c, "End")
  IN  IF ended.calls = <<>> THEN Post(ended, [kind |-> "lastCallEnded"]) ELSE ended

Quiet == modelQ = <<>> /\ guiQ = <<>>
Room == Len(modelQ) + Len(guiQ) < MaxWork

\* A number nobody has dialled yet.
Unused(c) ==
  /\ sdk[c] = "Idle" /\ c \notin Range(waits)
  /\ \A i \in DOMAIN modelQ : modelQ[i] # [kind |-> "dial", call |-> c]

Unplaced == UNCHANGED <<registered, waits, snapshots>>

IncomingCall(c) ==
  /\ Room /\ Unused(c)
  /\ Becomes(Notify(Create(World, c), c, "IncomingReceived"))
  /\ UNCHANGED <<modelQ, guiVars>> /\ Unplaced

Answered(c) ==
  /\ Room /\ sdk[c] = "OutgoingProgress"
  /\ Becomes(Run(World, c))
  /\ UNCHANGED <<modelQ, guiVars>> /\ Unplaced

Resumed(c) ==
  /\ sdk[c] = "Resuming"
  /\ Becomes(Notify(World, c, "StreamsRunning"))
  /\ UNCHANGED <<modelQ, guiVars>> /\ Unplaced

RemoteEnds(c) ==
  /\ Room /\ sdk[c] \in Live
  /\ Becomes(End(World, c))
  /\ UNCHANGED <<modelQ, guiVars>> /\ Unplaced

Released(c) ==
  /\ sdk[c] = "End"
  /\ Becomes(Notify(World, c, "Released"))
  /\ UNCHANGED <<modelQ, guiVars>> /\ Unplaced

\* Mutant: only the number dialled last waits.
WaitAlone(c) == waits' = <<c>>

\* createCall() connects itself to the next change of registration.
Wait(c) == waits' = Append(waits, c)

\* The numbers are dialled one after the other.
Redialled(numbers) ==
  LET after[i \in 0 .. Len(numbers)] ==
        IF i = 0 THEN World ELSE Invite(after[i - 1], numbers[i])
  IN  after[Len(numbers)]

\* accountRegistrationStateChanged.  Every number that waits is dialled again, in turn,
\* and waits again if the account is still not registered.
RegistrationChanged ==
  /\ Room
  /\ registered' = ~registered
  /\ IF registered'
     THEN waits' = <<>> /\ Becomes(Redialled(waits))
     ELSE UNCHANGED <<waits, sdk, getCalls, cores, guiQ>>
  /\ UNCHANGED <<modelQ, guiVars, snapshots>>

-----------------------------------------------------------------------------
(* The linphone thread runs a closure *)

Take(kind) == modelQ # <<>> /\ Head(modelQ).kind = kind /\ modelQ' = Tail(modelQ)
Call == Head(modelQ).call

\* ToolModel::createCall() for Utils::createCall(), which tells the user of a failure.
DialCall ==
  /\ Take("dial")
  /\ IF registered
     THEN Becomes(Invite(World, Call)) /\ UNCHANGED waits
     ELSE Wait(Call) /\ UNCHANGED <<sdk, getCalls, cores, guiQ>>
  /\ UNCHANGED <<registered, snapshots, guiVars>>

\* What the SDK accepts of the state the call is in by now.
May(kind) ==
  CASE kind = "accept"    -> sdk[Call] = "IncomingReceived"
    [] kind = "hold"      -> sdk[Call] = "StreamsRunning"
    [] kind = "resume"    -> sdk[Call] = "Paused"
    [] kind = "terminate" -> sdk[Call] \in Live

\* CallModel::accept(), setPaused() and terminate().
Command(kind) ==
  /\ Take(kind)
  /\ Becomes(IF ~May(kind) THEN World
             ELSE CASE kind = "accept"    -> Run(World, Call)
                    [] kind = "hold"      -> Notify(World, Call, "Paused")
                    [] kind = "resume"    -> Notify(TakeLine(World, Call), Call, "Resuming")
                    [] kind = "terminate" -> End(World, Call))
  /\ UNCHANGED guiVars /\ Unplaced

\* core->getCurrentCall(): the call that runs, else what the SDK makes of the others.
CurrentCalls ==
  LET running == {c \in Range(getCalls) : sdk[c] = "StreamsRunning"}
  IN  IF running # {} THEN running
      ELSE {c \in Range(getCalls) : sdk[c] # "Paused"} \union {NoCore}

\* The body of lUpdate: a new core for every call.
Snapshot ==
  /\ Take("update")
  /\ snapshots' = snapshots + 1
  /\ LET fresh == [i \in DOMAIN getCalls |-> [call |-> getCalls[i], gen |-> snapshots']]
     IN  /\ cores' = cores \union Range(fresh)
         /\ \E c \in CurrentCalls :
              guiQ' = Append(guiQ,
                        [kind |-> "reset", calls |-> fresh, states |-> sdk,
                         current |-> IF c = NoCore THEN NoCore
                                     ELSE [call |-> c, gen |-> snapshots']])
  /\ UNCHANGED <<sdk, getCalls, registered, waits, guiVars>>

-----------------------------------------------------------------------------
(* The GUI thread *)

Hear(kind) == guiQ # <<>> /\ Head(guiQ).kind = kind /\ guiQ' = Tail(guiQ)
Core == Head(guiQ).core

\* The user, through the core of a listed call or the dial pad.
Ask(kind, c) == modelQ' = Append(modelQ, [kind |-> kind, call |-> c])

Dial(c) ==
  /\ Room /\ Unused(c)
  /\ Ask("dial", c)
  /\ UNCHANGED <<modelVars, cores, guiQ, guiVars>>

Press(kind, c) ==
  /\ Room /\ \E k \in Listed : k.call = c
  /\ CASE kind = "accept"    -> heard[c] = "IncomingReceived"
       [] kind = "hold"      -> heard[c] = "StreamsRunning"
       [] kind = "resume"    -> heard[c] = "Paused"
       [] kind = "terminate" -> heard[c] \in Live
  /\ Ask(kind, c)
  /\ UNCHANGED <<modelVars, cores, guiQ, guiVars>>

OnCallCreated ==
  /\ Hear("callCreated")
  /\ current' = IF list = <<>> THEN Core ELSE current
  /\ list' = Append(list, Core)
  /\ heard' = [heard EXCEPT ![Core.call] = "Idle"]
  /\ UNCHANGED <<modelVars, cores, modelQ, haveCall>>

\* Mutant: the list goes by callCreated alone.
OnFirstCallStartedIgnored ==
  /\ Hear("firstCallStarted")
  /\ UNCHANGED <<modelVars, cores, modelQ, guiVars>>

OnFirstCallStarted ==
  /\ Hear("firstCallStarted")
  /\ modelQ' = Append(modelQ, [kind |-> "update"])
  /\ UNCHANGED <<modelVars, cores, guiVars>>

OnLastCallEnded ==
  /\ Hear("lastCallEnded")
  /\ haveCall' = FALSE /\ current' = NoCore
  /\ UNCHANGED <<modelVars, cores, modelQ, list, heard>>

\* Mutant: the snapshot is added to the rows there are.
ListAfterAdded(calls) == list \o calls

\* resetData()
ListAfter(calls) == calls

\* The end of lUpdate.  The window of the calls may hold on to the core it shows.
OnReset ==
  /\ Hear("reset")
  /\ LET calls == Head(guiQ).calls
     IN  /\ list' = ListAfter(calls)
         /\ haveCall' = (calls # <<>>)
         /\ current' = Head(guiQ).current
         /\ heard' = Head(guiQ).states
         /\ \E held \in {{}, {current}} : cores' = cores \ (Listed \ (held \union Range(list')))
  /\ UNCHANGED <<modelVars, modelQ>>

\* setState() of a core that is still there, which the list may have or have dropped.
HearState(states) ==
  /\ Hear("state") /\ Head(guiQ).state \in states
  /\ heard' = IF Core \in Listed THEN [heard EXCEPT ![Core.call] = Head(guiQ).state] ELSE heard

\* Nothing in the list depends on the other states, nor on a core that is gone.
OnOtherState ==
  /\ \/ HearState({"IncomingReceived", "Paused", "End"})
     \/ HearState(States) /\ Core \notin cores
  /\ UNCHANGED <<modelVars, cores, modelQ, list, current, haveCall>>

\* Mutant: a call that takes the line does not take the place of the current one.
BusyIfNone == IF current = NoCore /\ Core \in Listed THEN Core ELSE current

\* A core the list has dropped has no row to be current.
Busy == IF Core \in Listed THEN Core ELSE NoCore

\* A call that has the line, or is dialled, becomes the current one.
OnBusy ==
  /\ HearState({"StreamsRunning", "Resuming", "OutgoingProgress"}) /\ Core \in cores
  /\ current' = Busy
  /\ UNCHANGED <<modelVars, cores, modelQ, list, haveCall>>

\* getNextCall()
NextCall ==
  LET others == Without(list, current)
  IN  IF others = <<>> THEN NoCore ELSE others[1]

\* Mutant: the call that ended stays the current one.
CurrentWithoutUnmoved(core) == current

\* The current call once a listed one is released.
CurrentWithout(core) == IF core = current THEN NextCall ELSE current

\* Mutant: only the current call leaves the list.
ListWithoutCurrent(core) == IF core = current THEN Without(list, core) ELSE list

ListWithout(core) == Without(list, core)

\* Mutant: the next call is shown and not resumed.
HandOverShown == UNCHANGED modelQ

\* The end of the current call resumes the next one.
HandOver ==
  IF Core = current /\ NextCall # NoCore THEN Ask("resume", NextCall.call) ELSE UNCHANGED modelQ

\* A released call leaves the list; a core the list has dropped changes nothing.
OnReleased ==
  /\ HearState({"Released"}) /\ Core \in cores
  /\ cores' = cores \ {Core}
  /\ IF Core \in Listed
     THEN HandOver /\ current' = CurrentWithout(Core) /\ list' = ListWithout(Core)
     ELSE UNCHANGED <<modelQ, current, list>>
  /\ UNCHANGED <<modelVars, haveCall>>

-----------------------------------------------------------------------------

Gui == OnCallCreated \/ OnFirstCallStarted \/ OnLastCallEnded \/ OnReset
         \/ OnOtherState \/ OnBusy \/ OnReleased

Commands == {"accept", "hold", "resume", "terminate"}
Linphone == DialCall \/ Snapshot \/ \E kind \in Commands : Command(kind)

Network ==
  \/ RegistrationChanged
  \/ \E c \in Calls : IncomingCall(c) \/ Answered(c) \/ Resumed(c) \/ RemoteEnds(c) \/ Released(c)

User == \E c \in Calls : Dial(c) \/ \E kind \in Commands : Press(kind, c)

Next == Gui \/ Linphone \/ Network \/ User

\* Both event loops run on, and the SDK releases a call that has ended.
Spec ==
  /\ Init /\ [][Next]_vars
  /\ WF_vars(Gui) /\ WF_vars(Linphone)
  /\ \A c \in Calls : WF_vars(Released(c)) /\ WF_vars(Resumed(c))

-----------------------------------------------------------------------------
(* Properties *)

\* The current call is one of the list (CallList.cpp:135): no view works on a call that
\* has left it.
CurrentIsListed == current = NoCore \/ current \in Listed

\* No call is listed twice, though the list has no check of its own (CallList.cpp:135).
CallsListedOnce ==
  \A i, j \in DOMAIN list : list[i].call = list[j].call => i = j

\* With nothing on its way the list shows every call of the SDK and none it has released,
\* and haveCall says whether there is one.
QuietListIsTrue ==
  Quiet =>
    LET shown == {k.call : k \in Listed}
    IN  /\ Range(getCalls) \subseteq shown
        /\ \A c \in shown : sdk[c] # "Released"
        /\ haveCall = (getCalls # <<>>)

\* With nothing on its way the current call is the one that has the line, however the
\* ends, answers and resumes of several calls crossed.
QuietCurrentRuns ==
  Quiet => \A c \in Calls : sdk[c] = "StreamsRunning" => current # NoCore /\ current.call = c

\* A number that waits for the account waits on, in spite of others dialled meanwhile,
\* until the account is registered, and is called then.
DialsArePlaced ==
  [][\A c \in Range(waits) : IF registered' THEN sdk'[c] # "Idle" ELSE c \in Range(waits')]_vars

\* "Call could not be created" (Utils.cpp:187): the number the user is told so of is not
\* called afterwards.
FailedCallsAreNotPlaced ==
  [][\A c \in Range(waits) : sdk'[c] = "Idle"]_vars

Updating ==
  \/ \E i \in DOMAIN modelQ : modelQ[i].kind = "update"
  \/ \E i \in DOMAIN guiQ : guiQ[i].kind \in {"reset", "firstCallStarted"}

\* When the current call is gone and all that is left is on hold, something gets the line
\* again: "Unpause the next call" (CallList.cpp:211), unless the list is being replaced.
HeldCallIsResumed ==
  (/\ current # NoCore /\ sdk[current.call] = "Released" /\ ~Updating
   /\ getCalls # <<>> /\ \A c \in Range(getCalls) : sdk[c] = "Paused")
     ~> (\E c \in Range(getCalls) : sdk[c] # "Paused") \/ getCalls = <<>>

=============================================================================
