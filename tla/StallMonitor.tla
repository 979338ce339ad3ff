---------------------------- MODULE StallMonitor ----------------------------
(***************************************************************************)
(* tool/stall/StallMonitor.cpp: a watchdog thread that notices when the    *)
(* linphone thread falls silent, takes its stack a few times and writes a  *)
(* minidump of a long stall.                                               *)
(*                                                                         *)
(* Three threads take part.  The linphone thread beats from onIterate(),   *)
(* arms the monitor once the core has started and joins the watchdog when  *)
(* it leaves.  The GUI thread disarms it on the way out.  The watchdog     *)
(* polls.  All of them read one monotonic clock, and the clock may move    *)
(* between any two of their steps.                                         *)
(*                                                                         *)
(* They share three atomic variables, which the code stores and loads one  *)
(* at a time with relaxed ordering.  Each store and each load that another *)
(* thread can tell apart is a step of its own here.  Nothing in the code   *)
(* says that the two stores of arm() are seen in the order they are made   *)
(* in: a build for a processor that keeps the order of stores (x86-64)     *)
(* shows them so, another one (the arm64 build) need not.  Loads made out  *)
(* of order have no outcome that stores seen out of order do not have.     *)
(*                                                                         *)
(* A poll may come at any time: nothing here depends on how long the       *)
(* condition variable sleeps.  Zero stands for "never", as in the code.    *)
(***************************************************************************)
EXTENDS Integers, Sequences

CONSTANTS
  Threshold,          \* StackCaptureThresholdMs
  Recapture,          \* StackRecaptureMs
  CaptureInterval,    \* StackCaptureMinIntervalMs
  MaxCaptures,        \* MaxCapturesPerStall
  SymboliseInterval,  \* SymboliseMinIntervalMs
  DumpThreshold,      \* MinidumpThresholdMs
  DumpInterval,       \* MinidumpMinIntervalMs
  MaxDumps,           \* MaxMinidumpsPerSession
  PrewarmDelay,       \* PrewarmDelayMs
  StoresInOrder,      \* the build shows the stores of one thread in their order
  Horizon             \* bound: the last moment the clock shows

ASSUME LimitsAreCounts ==
  /\ MaxCaptures \in Nat \ {0} /\ MaxDumps \in Nat
  /\ Threshold \in Nat \ {0} /\ Recapture \in Nat \ {0} /\ CaptureInterval \in Nat \ {0}
  /\ SymboliseInterval \in Nat /\ DumpThreshold \in Nat /\ DumpInterval \in Nat \ {0}
  /\ PrewarmDelay \in Nat /\ Horizon \in Nat \ {0}

ASSUME OrderIsKnown == StoresInOrder \in BOOLEAN

VARIABLES
  now,         \* StallMonitor::steadyMs()
  heartbeat,   \* mHeartbeatMs
  armed,       \* mArmed
  stop,        \* mStop
  thread,      \* the linphone thread: starting the core, running, leaving, left
  pending,     \* the stores of arm() that the watchdog cannot see yet
  closing,     \* App::clean() has disarmed the monitor and asked the thread to leave
  watchdog,    \* where watchdogLoop() is: waiting, found the monitor armed, read the clock,
               \* before a dump, writing one, returned
  \* locals of watchdogLoop(); polledAt is its "now", 0 outside a poll
  polledAt, armedAt, prewarmed, stallStartedAt, lastCaptureInStall, capturesThisStall, dumpedThisStall,
  \* state of the session, kept by the watchdog thread alone
  captureDisabled, symboliseDisabled, lastCapture, lastSymbolise, lastDump, dumpsThisSession,
  dumpStarted, \* the local "now" of writeMinidump(), 0 outside it
  \* kept for the properties only
  captures,    \* the stacks taken: when, if of a silence from before the start's end, if the
               \* thread was held too long
  dumps,       \* the minidumps written: when, and of which stall
  startedAt    \* when the core had started and arm() read the clock, 0 before

modelVars   == <<heartbeat, armed, stop, thread, pending, closing, startedAt>>
pollVars    == <<polledAt, armedAt, prewarmed>>
stallVars   == <<stallStartedAt, lastCaptureInStall, capturesThisStall, dumpedThisStall>>
symbolVars  == <<symboliseDisabled, lastSymbolise>>
captureVars == <<captureDisabled, lastCapture, captures>>
dumpVars    == <<lastDump, dumpsThisSession, dumpStarted, dumps>>
vars == <<now, modelVars, watchdog, pollVars, stallVars, symbolVars, captureVars, dumpVars>>

Times == 0 .. Horizon
Capture == [at : Times, ofStart : BOOLEAN, long : BOOLEAN]
Dump == [at : Times, stall : Times]

TypeOK ==
  /\ now \in Times /\ heartbeat \in Times /\ startedAt \in Times
  /\ polledAt \in Times /\ armedAt \in Times
  /\ stallStartedAt \in Times /\ lastCaptureInStall \in Times /\ lastCapture \in Times
  /\ lastSymbolise \in Times /\ lastDump \in Times /\ dumpStarted \in Times
  /\ armed \in BOOLEAN /\ stop \in BOOLEAN /\ closing \in BOOLEAN /\ prewarmed \in BOOLEAN
  /\ dumpedThisStall \in BOOLEAN /\ captureDisabled \in BOOLEAN /\ symboliseDisabled \in BOOLEAN
  /\ thread \in {"starting", "running", "detaching", "leaving", "left"}
  /\ pending \subseteq {"heartbeat", "armed"}
  /\ watchdog \in {"waiting", "armed", "polled", "dumping", "writing", "returned"}
  /\ capturesThisStall \in 0 .. MaxCaptures
  /\ dumpsThisSession \in 0 .. MaxDumps
  /\ captures \in Seq(Capture)
  /\ dumps \in Seq(Dump)

\* attachToCurrentThread() has seeded the heartbeat and started the watchdog.
Init ==
  /\ now = 1 /\ heartbeat = 1   \* where the clock starts does not matter, but it is not "never"
  /\ armed = FALSE /\ stop = FALSE /\ closing = FALSE
  /\ thread = "starting" /\ pending = {} /\ startedAt = 0
  /\ watchdog = "waiting" /\ polledAt = 0 /\ armedAt = 0 /\ prewarmed = FALSE
  /\ stallStartedAt = 0 /\ lastCaptureInStall = 0 /\ capturesThisStall = 0
  /\ dumpedThisStall = FALSE
  /\ captureDisabled = FALSE /\ symboliseDisabled = FALSE
  /\ lastCapture = 0 /\ lastSymbolise = 0 /\ lastDump = 0 /\ dumpsThisSession = 0
  /\ dumpStarted = 0
  /\ captures = <<>> /\ dumps = <<>>

-----------------------------------------------------------------------------
(* The clock, the linphone thread and the GUI thread *)

watchdogVars == <<watchdog, pollVars, stallVars, symbolVars, captureVars, dumpVars>>

Tick ==
  /\ now < Horizon
  /\ now' = now + 1
  /\ UNCHANGED <<modelVars, watchdogVars>>

\* The end of CoreModel::start(): arm() reads the clock for its two stores.
CallArm ==
  /\ thread = "starting"
  /\ thread' = "running" /\ startedAt' = now
  /\ pending' = {"heartbeat", "armed"}
  /\ UNCHANGED <<now, heartbeat, armed, stop, closing, watchdogVars>>

\* Mutant: mArmed is stored before the heartbeat.
MadeBeforeSwapped(store) == IF store = "heartbeat" THEN {"armed"} ELSE {}

\* arm() stores the heartbeat, and then mArmed.
MadeBefore(store) == IF store = "armed" THEN {"heartbeat"} ELSE {}

\* A store of arm() reaches the watchdog, after the one made before it if the
\* build keeps their order.
Reaches(store) ==
  /\ store \in pending
  /\ StoresInOrder => MadeBefore(store) \cap pending = {}
  /\ pending' = pending \ {store}

\* arm() has set mHeartbeatMs.
StoreHeartbeat ==
  /\ Reaches("heartbeat")
  /\ heartbeat' = startedAt
  /\ UNCHANGED <<now, armed, stop, thread, closing, startedAt, watchdogVars>>

\* arm() has set mArmed.
StoreArmed ==
  /\ Reaches("armed")
  /\ armed' = TRUE
  /\ UNCHANGED <<now, heartbeat, stop, thread, closing, startedAt, watchdogVars>>

\* The thread has returned from arm() to its event loop.
Running == thread = "running" /\ pending = {}

\* beat(), from onIterate(), which read the clock a little earlier.
Beat ==
  /\ Running
  /\ heartbeat' \in heartbeat .. now
  /\ UNCHANGED <<now, armed, stop, thread, pending, closing, startedAt, watchdogVars>>

\* App::clean(), while the core may still be starting, or arming the monitor.
Clean ==
  /\ ~closing
  /\ closing' = TRUE /\ armed' = FALSE
  /\ UNCHANGED <<now, heartbeat, stop, thread, pending, startedAt, watchdogVars>>

\* Thread::run() leaves its event loop and calls detach(), which disarms,
Detach ==
  /\ closing /\ Running
  /\ thread' = "detaching" /\ armed' = FALSE
  /\ UNCHANGED <<now, heartbeat, stop, pending, closing, startedAt, watchdogVars>>

\* asks the watchdog to return, and waits for it.
StopWatchdog ==
  /\ thread = "detaching"
  /\ thread' = "leaving" /\ stop' = TRUE
  /\ UNCHANGED <<now, heartbeat, armed, pending, closing, startedAt, watchdogVars>>

\* The watchdog is joined and the handle of the thread released.
Joined ==
  /\ thread = "leaving" /\ watchdog = "returned"
  /\ thread' = "left"
  /\ UNCHANGED <<now, heartbeat, armed, stop, pending, closing, startedAt, watchdogVars>>
-----------------------------------------------------------------------------
(* The watchdog *)

\* Mutant: a disarmed watchdog does not look at mStop.
ReturnIfArmed ==
  /\ watchdog = "waiting" /\ stop /\ armed
  /\ watchdog' = "returned"
  /\ UNCHANGED <<now, modelVars, pollVars, stallVars, symbolVars, captureVars, dumpVars>>

\* The loop finds mStop set.
Return ==
  /\ watchdog = "waiting" /\ stop
  /\ watchdog' = "returned"
  /\ UNCHANGED <<now, modelVars, pollVars, stallVars, symbolVars, captureVars, dumpVars>>

\* A poll of a monitor that is not armed forgets the stall.
PollDisarmed ==
  /\ watchdog = "waiting" /\ ~stop /\ ~armed
  /\ armedAt' = 0 /\ stallStartedAt' = 0 /\ capturesThisStall' = 0 /\ dumpedThisStall' = FALSE
  /\ UNCHANGED <<now, modelVars, watchdog, polledAt, prewarmed, lastCaptureInStall, symbolVars,
                 captureVars, dumpVars>>

\* The loop finds mStop unset and mArmed set.
PollArmed ==
  /\ watchdog = "waiting" /\ ~stop /\ armed
  /\ watchdog' = "armed"
  /\ UNCHANGED <<now, modelVars, pollVars, stallVars, symbolVars, captureVars, dumpVars>>

\* The symbols are loaded once, late.
PrewarmDue == ~prewarmed /\ ~symboliseDisabled /\ polledAt' - armedAt' >= PrewarmDelay

\* The poll reads the clock, and loads the symbols if that is due.  Loading
\* them may fail or take too long, and either turns symbolising off.
ReadClock ==
  /\ watchdog = "armed"
  /\ watchdog' = "polled" /\ polledAt' = now
  /\ armedAt' = IF armedAt = 0 THEN now ELSE armedAt
  /\ prewarmed' = (prewarmed \/ PrewarmDue)
  /\ symboliseDisabled' \in IF PrewarmDue THEN BOOLEAN ELSE {symboliseDisabled}
  /\ UNCHANGED <<now, modelVars, stallVars, lastSymbolise, captureVars, dumpVars>>

\* The poll loads the heartbeat, which may be later than its clock by now.
Silence == polledAt - heartbeat

\* Mutant: a recovery does not end the stall.
PollHealthyForgets ==
  /\ watchdog = "polled" /\ Silence < Threshold
  /\ watchdog' = "waiting" /\ polledAt' = 0
  /\ UNCHANGED <<now, modelVars, armedAt, prewarmed, stallVars, symbolVars, captureVars, dumpVars>>

\* The thread is not silent: a stall that was going on is over.
PollHealthy ==
  /\ watchdog = "polled" /\ Silence < Threshold
  /\ watchdog' = "waiting" /\ polledAt' = 0
  /\ IF stallStartedAt # 0
     THEN stallStartedAt' = 0 /\ capturesThisStall' = 0 /\ dumpedThisStall' = FALSE
     ELSE UNCHANGED <<stallStartedAt, capturesThisStall, dumpedThisStall>>
  /\ UNCHANGED <<now, modelVars, armedAt, prewarmed, lastCaptureInStall, symbolVars, captureVars,
                 dumpVars>>

\* Mutant: every stack keeps the short spacing only.
ShortSpacingOk(taken) ==
  IF taken = 0 THEN lastCapture = 0 \/ polledAt - lastCapture >= Recapture
  ELSE polledAt - lastCaptureInStall >= Recapture

\* spacingOk: the first stack of a stall keeps the floor between stalls, the
\* others the spacing within one.
SpacingOk(taken) ==
  IF taken = 0 THEN lastCapture = 0 \/ polledAt - lastCapture >= CaptureInterval
  ELSE polledAt - lastCaptureInStall >= Recapture

\* Mutant: a stall has as many stacks as its spacing allows.
CaptureDueAlways(taken) == ~captureDisabled /\ SpacingOk(taken)

\* Whether a silent poll takes a stack.
CaptureDue(taken) == ~captureDisabled /\ taken < MaxCaptures /\ SpacingOk(taken)

\* Tier two of captureStack(), after tier one: the symbols, unless they are off
\* or were looked up not long ago.  A lookup that takes too long turns them off.
Symbolise ==
  IF symboliseDisabled \/ (lastSymbolise # 0 /\ now - lastSymbolise < SymboliseInterval)
  THEN UNCHANGED symbolVars
  ELSE lastSymbolise' = now /\ symboliseDisabled' \in BOOLEAN

\* A stack, taken of the silence that the poll has found.
Stack(long) == [at |-> polledAt, ofStart |-> heartbeat < startedAt, long |-> long]

\* Mutant: holding the thread for too long changes nothing.
CaptureStackAnyway ==
  \E taken, long \in BOOLEAN :
    /\ captures' = Append(captures, Stack(taken /\ long))
    /\ captureDisabled' = captureDisabled
    /\ IF taken THEN Symbolise ELSE UNCHANGED symbolVars

\* captureStack(): the platform may not give the stack, and a thread that had
\* to be held for too long is not held again.
CaptureStack ==
  \E taken, long \in BOOLEAN :
    /\ captures' = Append(captures, Stack(taken /\ long))
    /\ captureDisabled' = (taken /\ long)
    /\ IF taken /\ ~long THEN Symbolise ELSE UNCHANGED symbolVars

\* The thread is silent.  A poll that finds it so for the first time starts a
\* stall, takes a stack if it may, and goes on to a dump if one is due.
PollSilent ==
  /\ watchdog = "polled" /\ Silence >= Threshold
  /\ LET first == stallStartedAt = 0
         taken == IF first THEN 0 ELSE capturesThisStall
         dumped == ~first /\ dumpedThisStall
         dump == ~dumped /\ Silence >= DumpThreshold
     IN  /\ stallStartedAt' = IF first THEN heartbeat ELSE stallStartedAt
         /\ IF CaptureDue(taken)
            THEN /\ CaptureStack
                 /\ lastCapture' = polledAt /\ lastCaptureInStall' = polledAt
                 /\ capturesThisStall' = taken + 1
            ELSE /\ capturesThisStall' = taken
                 /\ UNCHANGED <<captureVars, lastCaptureInStall, symbolVars>>
         /\ dumpedThisStall' = (dumped \/ dump)
         /\ watchdog' = IF dump THEN "dumping" ELSE "waiting"
  /\ polledAt' = 0
  /\ UNCHANGED <<now, modelVars, armedAt, prewarmed, dumpVars>>

\* Mutant: a session writes as many minidumps as it has stalls.
DumpAllowedAlways == lastDump = 0 \/ now - lastDump >= DumpInterval

\* The two limits of writeMinidump().
DumpAllowed ==
  /\ dumpsThisSession < MaxDumps
  /\ lastDump = 0 \/ now - lastDump >= DumpInterval

\* writeMinidump() is skipped, or begins.
StartDump ==
  /\ watchdog = "dumping"
  /\ IF DumpAllowed
     THEN watchdog' = "writing" /\ dumpStarted' = now
     ELSE watchdog' = "waiting" /\ UNCHANGED dumpStarted
  /\ UNCHANGED <<now, modelVars, pollVars, stallVars, symbolVars, captureVars,
                 lastDump, dumpsThisSession, dumps>>

\* The file is written, or could not be.  Only a dump that was written counts.
EndDump ==
  /\ watchdog = "writing"
  /\ watchdog' = "waiting" /\ dumpStarted' = 0
  /\ \/ /\ lastDump' = dumpStarted /\ dumpsThisSession' = dumpsThisSession + 1
        /\ dumps' = Append(dumps, [at |-> dumpStarted, stall |-> stallStartedAt])
     \/ UNCHANGED <<lastDump, dumpsThisSession, dumps>>
  /\ UNCHANGED <<now, modelVars, pollVars, stallVars, symbolVars, captureVars>>

Watch ==
  Return \/ PollDisarmed \/ PollArmed \/ ReadClock \/ PollHealthy \/ PollSilent \/ StartDump \/ EndDump

Next ==
  \/ Tick \/ CallArm \/ StoreHeartbeat \/ StoreArmed \/ Beat
  \/ Clean \/ Detach \/ StopWatchdog \/ Joined
  \/ Watch

\* The watchdog is a thread of its own and polls on; the linphone thread waits
\* for it in join().  Nothing makes the linphone thread beat or the user quit.
Spec == Init /\ [][Next]_vars /\ WF_vars(Watch) /\ WF_vars(Joined)

-----------------------------------------------------------------------------
(* Properties *)

\* "A flapping stall cannot flood the log" (StallMonitor.cpp:224): however
\* stalls and recoveries follow one another, no stretch of time shorter than
\* the floor between stalls sees more stacks than one stall may take.
CapturesDoNotFlood ==
  \A i \in 1 .. Len(captures) - MaxCaptures :
    captures[i + MaxCaptures].at - captures[i].at >= CaptureInterval

\* Once holding the linphone thread has cost more than the budget, it is never
\* held again in the session (StallMonitor.cpp:268).
LongHoldIsTheLast ==
  \A i \in 1 .. Len(captures) : captures[i].long => i = Len(captures)

\* "Core startup and shutdown block the model thread legitimately and must not
\* be reported as stalls" (StallMonitor.hpp:91): no stack is taken before the core
\* has started, wherever a poll comes between the two stores of arm().  Where the
\* stores are seen in their order, none is taken of the start's silence either.
StartIsNotAStall ==
  \A i \in 1 .. Len(captures) :
    /\ startedAt # 0
    /\ StoresInOrder => ~captures[i].ofStart

\* Dumps are few (StallMonitor.hpp:68): no more in a session than the limit,
\* with the interval between any two of them, and no two of one stall.
DumpsAreFew ==
  /\ Len(dumps) <= MaxDumps
  /\ \A i, j \in 1 .. Len(dumps) : i < j =>
       /\ dumps[j].at - dumps[i].at >= DumpInterval
       /\ dumps[i].stall < dumps[j].stall

\* A stall does not outlive the silence: once the thread beats again the stall
\* is over, or the thread is silent once more, or the monitor stops.
StallsEnd ==
  (stallStartedAt # 0) ~> (stallStartedAt = 0 \/ now - heartbeat >= Threshold \/ stop)

\* detach() never hangs on a watchdog in the middle of a stall or a dump.
WatchdogIsJoined == thread = "leaving" ~> thread = "left"

=============================================================================
