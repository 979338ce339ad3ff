------------------------- MODULE StallMonitorProofs -------------------------
(* What the stall monitor keeps to whatever its thresholds, intervals and limits are. *)
EXTENDS StallMonitor, TLAPS

USE LimitsAreCounts DEF Times

(***************************************************************************)
(* The inductive invariant.  The flood bound is not inductive alone: that  *)
(* the stacks of one stall may be close together is right only because the *)
(* first of them kept the floor from every earlier one.  Nor is it that    *)
(* the start is no stall: a poll may come between the two stores of arm(), *)
(* and what it knows then depends on the order they are seen in.           *)
(***************************************************************************)

\* The clock is ahead of all that was read from it, and never shows "never".
ClockIsAhead == 1 <= now /\ 1 <= heartbeat /\ heartbeat <= now

\* The last stack is the one mLastCaptureMs stands for, and all are in order.
CapturesInOrder ==
  /\ \A i, j \in 1 .. Len(captures) : i <= j => captures[i].at <= captures[j].at
  /\ \A i \in 1 .. Len(captures) : 1 <= captures[i].at /\ captures[i].at <= lastCapture
  /\ lastCapture <= now
  /\ captures # <<>> => captures[Len(captures)].at = lastCapture

\* The stacks of the stall that goes on are the last ones, and the first of them
\* keeps the floor from all earlier ones.
StallKeepsTheFloor ==
  /\ capturesThisStall <= Len(captures)
  /\ capturesThisStall > 0 =>
       \A i \in 1 .. Len(captures) - capturesThisStall :
         captures[Len(captures) - capturesThisStall + 1].at - captures[i].at >= CaptureInterval

\* Taking stacks is off exactly when the last one was a long hold.
DisabledByTheLast ==
  /\ captureDisabled => captures # <<>> /\ captures[Len(captures)].long
  /\ \A i \in 1 .. Len(captures) : captures[i].long => i = Len(captures) /\ captureDisabled

\* The watchdog has not been able to see mArmed set.
Unarmed == thread = "starting" \/ "armed" \in pending

\* Nothing is taken of a monitor that has never been seen armed.  Once the
\* heartbeat of arm() has been seen the heartbeat is later than the start, and
\* where the stores are seen in order no monitor is armed before.
ArmedAfterStart ==
  /\ Unarmed =>
       /\ ~armed /\ watchdog \in {"waiting", "returned"}
       /\ stallStartedAt = 0 /\ captures = <<>> /\ dumps = <<>>
  /\ thread = "starting" => startedAt = 0 /\ pending = {}
  /\ thread # "starting" => startedAt # 0
  /\ pending # {} => thread = "running"
  /\ startedAt <= now
  /\ "heartbeat" \in pending => heartbeat <= startedAt
  /\ "heartbeat" \notin pending => startedAt <= heartbeat
  /\ (StoresInOrder /\ "heartbeat" \in pending) => "armed" \in pending

\* What a poll compares the heartbeat with is later than the last stack and than
\* the beginning of the stall that goes on.
PollIsRecent ==
  watchdog = "polled" =>
    /\ lastCapture <= polledAt /\ polledAt <= now /\ 1 <= polledAt
    /\ stallStartedAt # 0 => polledAt - stallStartedAt >= Threshold

\* A dump that is due, or being written, keeps the limits.
DumpKeepsTheLimits ==
  /\ dumpsThisSession = Len(dumps)
  /\ \A i \in 1 .. Len(dumps) : 1 <= dumps[i].at /\ dumps[i].at <= lastDump
  /\ lastDump <= now
  /\ watchdog = "writing" =>
       /\ dumpsThisSession < MaxDumps /\ dumpStarted <= now /\ 1 <= dumpStarted
       /\ lastDump = 0 \/ dumpStarted - lastDump >= DumpInterval

\* A stall that has no dump yet began after the stalls that have one.
DumpsAreOfEarlierStalls ==
  /\ stallStartedAt # 0 => now - stallStartedAt >= Threshold
  /\ watchdog \in {"dumping", "writing"} => stallStartedAt # 0 /\ dumpedThisStall
  /\ \A i \in 1 .. Len(dumps) :
       /\ (stallStartedAt = 0 /\ (armed \/ watchdog \in {"armed", "polled"}))
            => dumps[i].stall < heartbeat
       /\ stallStartedAt # 0 => dumps[i].stall <= stallStartedAt
       /\ (stallStartedAt # 0 /\ (~dumpedThisStall \/ watchdog \in {"dumping", "writing"}))
            => dumps[i].stall < stallStartedAt

IInv ==
  /\ TypeOK /\ ClockIsAhead
  /\ CapturesInOrder /\ StallKeepsTheFloor /\ CapturesDoNotFlood
  /\ DisabledByTheLast /\ ArmedAfterStart /\ PollIsRecent /\ StartIsNotAStall
  /\ DumpKeepsTheLimits /\ DumpsAreOfEarlierStalls /\ DumpsAreFew


\* The type invariant in three parts, which the provers take one at a time.
Flags ==
  /\ armed \in BOOLEAN /\ stop \in BOOLEAN /\ closing \in BOOLEAN /\ prewarmed \in BOOLEAN
  /\ dumpedThisStall \in BOOLEAN /\ captureDisabled \in BOOLEAN /\ symboliseDisabled \in BOOLEAN

Places ==
  /\ thread \in {"starting", "running", "detaching", "leaving", "left"}
  /\ pending \subseteq {"heartbeat", "armed"}
  /\ watchdog \in {"waiting", "armed", "polled", "dumping", "writing", "returned"}

Moments ==
  /\ now \in Times /\ heartbeat \in Times /\ startedAt \in Times
  /\ polledAt \in Times /\ armedAt \in Times
  /\ stallStartedAt \in Times /\ lastCaptureInStall \in Times /\ lastCapture \in Times
  /\ lastSymbolise \in Times /\ lastDump \in Times /\ dumpStarted \in Times

Records ==
  /\ capturesThisStall \in 0 .. MaxCaptures
  /\ dumpsThisSession \in 0 .. MaxDumps
  /\ captures \in Seq(Capture)
  /\ dumps \in Seq(Dump)

\* The type invariant in the parts that steps keep one by one.
LEMMA TypeParts ==
  /\ TypeOK <=> Flags /\ Places /\ Moments /\ Records
  /\ TypeOK' <=> Flags' /\ Places' /\ Moments' /\ Records'
BY DEF TypeOK, Flags, Places, Moments, Records

\* What appending one element to a sequence does.
LEMMA AppendFacts ==
  ASSUME NEW S, NEW s \in Seq(S), NEW x \in S
  PROVE  /\ Append(s, x) \in Seq(S)
         /\ Len(Append(s, x)) = Len(s) + 1
         /\ \A i \in 1 .. Len(s) : Append(s, x)[i] = s[i]
         /\ Append(s, x)[Len(s) + 1] = x
OBVIOUS

\* At first nothing has stalled and nothing is written.
LEMMA InitIInv == Init => IInv
<1> SUFFICES ASSUME Init PROVE IInv
    OBVIOUS
<1> USE DEF Init
<1>1. TypeOK
  <2>1. Flags /\ Places
    BY DEF Flags, Places
  <2>2. Moments /\ Records
    BY DEF Moments, Records
  <2>3. QED
    BY <2>1, <2>2, TypeParts
<1>2. Len(captures) = 0 /\ Len(dumps) = 0
  OBVIOUS
<1>3. ClockIsAhead /\ ArmedAfterStart /\ PollIsRecent
  BY DEF ClockIsAhead, ArmedAfterStart, Unarmed, PollIsRecent
<1>4. CapturesInOrder /\ StallKeepsTheFloor /\ DisabledByTheLast
  BY <1>2 DEF CapturesInOrder, StallKeepsTheFloor, DisabledByTheLast
<1>5. CapturesDoNotFlood /\ StartIsNotAStall
  BY <1>2 DEF CapturesDoNotFlood, StartIsNotAStall
<1>6. DumpKeepsTheLimits /\ DumpsAreOfEarlierStalls /\ DumpsAreFew
  BY <1>2 DEF DumpKeepsTheLimits, DumpsAreOfEarlierStalls, DumpsAreFew
<1>7. QED
  BY <1>1, <1>3, <1>4, <1>5, <1>6 DEF IInv

-----------------------------------------------------------------------------
(* What a silent poll does to the stacks, its choices named. *)

\* The stacks the stall has, seen from a poll that may be its first.
Taken == IF stallStartedAt = 0 THEN 0 ELSE capturesThisStall

\* A poll that takes no stack.
Skips ==
  /\ UNCHANGED <<captureVars, lastCaptureInStall>>
  /\ capturesThisStall' = Taken

\* A poll that takes one.
Takes ==
  /\ ~captureDisabled /\ Taken < MaxCaptures /\ SpacingOk(Taken)
  /\ \E long \in BOOLEAN :
       /\ captures' = Append(captures, Stack(long))
       /\ captureDisabled' = long
  /\ lastCapture' = polledAt /\ lastCaptureInStall' = polledAt
  /\ capturesThisStall' = Taken + 1

\* A silent poll takes a stack by the rules or leaves the stacks alone.
LEMMA SilentPoll ==
  ASSUME TypeOK, PollSilent
  PROVE  /\ Skips \/ Takes
         /\ symboliseDisabled' \in BOOLEAN
         /\ lastSymbolise' \in {lastSymbolise, now}
<1>1. \/ /\ CaptureDue(Taken) /\ CaptureStack
         /\ lastCapture' = polledAt /\ lastCaptureInStall' = polledAt
         /\ capturesThisStall' = Taken + 1
      \/ Skips /\ UNCHANGED symbolVars
  BY DEF PollSilent, Taken, Skips, captureVars, symbolVars
<1>2. symboliseDisabled \in BOOLEAN
  BY DEF TypeOK
<1>3. ASSUME CaptureDue(Taken), CaptureStack,
             lastCapture' = polledAt, lastCaptureInStall' = polledAt,
             capturesThisStall' = Taken + 1
      PROVE  Takes /\ symboliseDisabled' \in BOOLEAN /\ lastSymbolise' \in {lastSymbolise, now}
  <2>1. PICK taken \in BOOLEAN, long \in BOOLEAN :
          /\ captures' = Append(captures, Stack(taken /\ long))
          /\ captureDisabled' = (taken /\ long)
          /\ IF taken /\ ~long THEN Symbolise ELSE UNCHANGED symbolVars
    BY <1>3 DEF CaptureStack
  <2>2. (taken /\ long) \in BOOLEAN
    OBVIOUS
  <2>3. Takes
    BY <1>3, <2>1, <2>2, Zenon DEF Takes, CaptureDue
  <2>4. symboliseDisabled' \in BOOLEAN /\ lastSymbolise' \in {lastSymbolise, now}
    BY <1>2, <2>1 DEF Symbolise, symbolVars
  <2>5. QED
    BY <2>3, <2>4
<1>4. ASSUME Skips, UNCHANGED symbolVars
      PROVE  symboliseDisabled' \in BOOLEAN /\ lastSymbolise' \in {lastSymbolise, now}
  BY <1>2, <1>4 DEF symbolVars
<1>5. QED
  BY <1>1, <1>3, <1>4

-----------------------------------------------------------------------------
(* Types *)

\* Every step keeps every variable of its type.
LEMMA NextTypeOK == IInv /\ [Next]_vars => TypeOK'
<1> SUFFICES ASSUME IInv, [Next]_vars
             PROVE  TypeOK'
    OBVIOUS
<1>a. Flags /\ Places /\ Moments /\ Records /\ DumpKeepsTheLimits
  BY TypeParts DEF IInv
<1> USE DEF modelVars, pollVars, stallVars, symbolVars, captureVars, dumpVars, watchdogVars
<1>1. ASSUME Tick \/ CallArm \/ StoreHeartbeat \/ StoreArmed \/ Beat
             \/ Clean \/ Detach \/ StopWatchdog \/ Joined
      PROVE  TypeOK'
  <2> USE DEF Tick, CallArm, StoreHeartbeat, StoreArmed, Beat, Clean, Detach, StopWatchdog, Joined
  <2>1. Flags'
    <3>1. CASE Tick \/ CallArm \/ StoreHeartbeat
      BY <1>a, <3>1 DEF Flags
    <3>2. CASE StoreArmed
      BY <1>a, <3>2 DEF Flags
    <3>3. CASE Beat \/ Joined
      BY <1>a, <3>3 DEF Flags
    <3>4. CASE Clean
      BY <1>a, <3>4 DEF Flags
    <3>5. CASE Detach \/ StopWatchdog
      BY <1>a, <3>5 DEF Flags
    <3>6. QED
      BY <1>1, <3>1, <3>2, <3>3, <3>4, <3>5
  <2>2. Places'
    BY <1>a, <1>1 DEF Places, Reaches
  <2>3. Moments'
    BY <1>a, <1>1 DEF Moments
  <2>4. Records'
    BY <1>a, <1>1 DEF Records
  <2>5. QED
    BY <2>1, <2>2, <2>3, <2>4, TypeParts
<1>2. ASSUME Return \/ PollDisarmed \/ PollArmed \/ StartDump
      PROVE  TypeOK'
  <2> USE DEF Return, PollDisarmed, PollArmed, StartDump
  <2>1. Flags'
    <3>1. CASE Return \/ PollArmed
      BY <1>a, <3>1 DEF Flags
    <3>2. CASE PollDisarmed
      BY <1>a, <3>2 DEF Flags
    <3>3. CASE StartDump
      BY <1>a, <3>3, Zenon DEF Flags
    <3>4. QED
      BY <1>2, <3>1, <3>2, <3>3
  <2>2. Places'
    BY <1>a, <1>2 DEF Places
  <2>3. Moments'
    BY <1>a, <1>2 DEF Moments
  <2>4. Records'
    BY <1>a, <1>2 DEF Records
  <2>5. QED
    BY <2>1, <2>2, <2>3, <2>4, TypeParts
<1>3. ASSUME ReadClock
      PROVE  TypeOK'
  <2>1. symboliseDisabled' \in BOOLEAN /\ prewarmed' \in BOOLEAN
    <3>1. symboliseDisabled \in BOOLEAN /\ prewarmed \in BOOLEAN /\ PrewarmDue \in BOOLEAN
      BY <1>a DEF Flags, PrewarmDue
    <3>2. QED
      BY <1>3, <3>1 DEF ReadClock
  <2>2. armedAt' \in Times /\ polledAt' \in Times
    BY <1>a, <1>3 DEF Moments, ReadClock
  <2>3. Flags'
    BY <1>a, <1>3, <2>1 DEF ReadClock, Flags
  <2>4. Places' /\ Moments' /\ Records'
    BY <1>a, <1>3, <2>2 DEF ReadClock, Places, Moments, Records
  <2>5. QED
    BY <2>3, <2>4, TypeParts
<1>4. ASSUME PollHealthy
      PROVE  TypeOK'
  <2>1. Flags'
    BY <1>a, <1>4 DEF PollHealthy, Flags
  <2>2. Places' /\ Moments' /\ Records'
    BY <1>a, <1>4 DEF PollHealthy, Places, Moments, Records
  <2>3. QED
    BY <2>1, <2>2, TypeParts
<1>5. ASSUME PollSilent
      PROVE  TypeOK'
  <2>1. UNCHANGED <<armedAt, prewarmed>> /\ polledAt' \in Times
    BY <1>5 DEF PollSilent
  <2>2. symboliseDisabled' \in BOOLEAN /\ lastSymbolise' \in Times /\ (Skips \/ Takes)
    BY <1>a, <1>5, SilentPoll, TypeParts DEF Moments
  <2>3. /\ captures' \in Seq(Capture) /\ captureDisabled' \in BOOLEAN
        /\ lastCapture' \in Times /\ lastCaptureInStall' \in Times
        /\ capturesThisStall' \in 0 .. MaxCaptures
    <3>1. CASE Skips
      BY <1>a, <3>1 DEF Flags, Moments, Records, Skips, Taken
    <3>2. CASE Takes
      <4>1. PICK long \in BOOLEAN :
              /\ captures' = Append(captures, Stack(long))
              /\ captureDisabled' = long
        BY <3>2 DEF Takes
      <4>2. Stack(long) \in Capture
        BY <1>a DEF Moments, Capture, Stack
      <4>3. captures' \in Seq(Capture)
        BY <1>a, <4>1, <4>2, AppendFacts DEF Records
      <4>4. QED
        BY <1>a, <3>2, <4>1, <4>3 DEF Moments, Records, Takes, Taken
    <3>3. QED
      BY <2>2, <3>1, <3>2
  <2>4. stallStartedAt' \in Times /\ dumpedThisStall' \in BOOLEAN /\ watchdog' \in {"waiting", "dumping"}
    BY <1>a, <1>5 DEF Flags, Moments, PollSilent
  <2>5. UNCHANGED <<now, modelVars, dumpVars>>
    BY <1>5 DEF PollSilent
  <2>6. Flags' /\ Places'
    BY <1>a, <2>1, <2>2, <2>3, <2>4, <2>5 DEF Flags, Places
  <2>7. Moments' /\ Records'
    BY <1>a, <2>1, <2>2, <2>3, <2>4, <2>5 DEF Moments, Records
  <2>8. QED
    BY <2>6, <2>7, TypeParts
<1>6. ASSUME EndDump
      PROVE  TypeOK'
  <2>1. Flags'
    BY <1>a, <1>6 DEF EndDump, Flags
  <2>2. Places' /\ Moments'
    BY <1>a, <1>6 DEF EndDump, Places, Moments
  <2>3. dumpsThisSession' \in 0 .. MaxDumps
    BY <1>a, <1>6 DEF Records, EndDump, DumpKeepsTheLimits
  <2>4. dumps' \in Seq(Dump)
    <3>1. [at |-> dumpStarted, stall |-> stallStartedAt] \in Dump
      BY <1>a DEF Moments, Dump
    <3>2. dumps \in Seq(Dump)
      BY <1>a DEF Records
    <3>3. \/ dumps' = Append(dumps, [at |-> dumpStarted, stall |-> stallStartedAt])
          \/ dumps' = dumps
      BY <1>6 DEF EndDump
    <3>4. QED
      BY <3>1, <3>2, <3>3, AppendFacts
  <2>5. Records'
    BY <1>a, <1>6, <2>3, <2>4 DEF EndDump, Records
  <2>6. QED
    BY <2>1, <2>2, <2>5, TypeParts
<1>7. CASE UNCHANGED vars
  <2>1. Flags' /\ Places'
    BY <1>a, <1>7 DEF vars, Flags, Places
  <2>2. Moments' /\ Records'
    BY <1>a, <1>7 DEF vars, Moments, Records
  <2>3. QED
    BY <2>1, <2>2, TypeParts
<1>8. QED
  BY <1>1, <1>2, <1>3, <1>4, <1>5, <1>6, <1>7 DEF Next, Watch

-----------------------------------------------------------------------------
(* The stacks *)

\* The stacks so far, as the parts of the invariant speak of them.
StackInv ==
  /\ CapturesInOrder /\ StallKeepsTheFloor /\ CapturesDoNotFlood
  /\ DisabledByTheLast /\ StartIsNotAStall

\* A step that takes no stack, goes on with the stall or ends it, and does not
\* start the core after a stack, keeps the stacks in order.
LEMMA StackFrame ==
  ASSUME IInv, TypeOK', UNCHANGED <<captures, captureDisabled, lastCapture>>,
         capturesThisStall' \in {0, capturesThisStall}, now <= now',
         startedAt' = startedAt \/ captures = <<>>
  PROVE  StackInv'
<1>a. /\ Records /\ Moments /\ Records' /\ Moments'
      /\ StackInv
  BY TypeParts DEF IInv, StackInv
<1>b. Len(captures) \in Nat /\ captures' = captures
  BY <1>a DEF Records
<1>1. CapturesInOrder'
  <2>1. CapturesInOrder
    BY <1>a DEF StackInv
  <2>2. lastCapture' = lastCapture
    OBVIOUS
  <2>3. now \in Nat /\ now' \in Nat /\ lastCapture \in Nat
    BY <1>a DEF Moments
  <2>4. lastCapture' <= now'
    <3>1. lastCapture <= now
      BY <2>1 DEF CapturesInOrder
    <3>2. QED
      BY <2>2, <2>3, <3>1
  <2>5. \A i, j \in 1 .. Len(captures') : i <= j => captures'[i].at <= captures'[j].at
    BY <1>b, <2>1 DEF CapturesInOrder
  <2>6. \A i \in 1 .. Len(captures') : 1 <= captures'[i].at /\ captures'[i].at <= lastCapture'
    BY <1>b, <2>1, <2>2 DEF CapturesInOrder
  <2>7. captures' # <<>> => captures'[Len(captures')].at = lastCapture'
    BY <1>b, <2>1, <2>2 DEF CapturesInOrder
  <2>8. QED
    BY <2>4, <2>5, <2>6, <2>7 DEF CapturesInOrder
<1>2. StallKeepsTheFloor'
  <2>1. CASE capturesThisStall' = 0
    BY <1>b, <2>1 DEF StallKeepsTheFloor
  <2>2. CASE capturesThisStall' = capturesThisStall
    BY <1>a, <1>b, <2>2 DEF StackInv, StallKeepsTheFloor
  <2>3. QED
    BY <2>1, <2>2
<1>3. CapturesDoNotFlood' /\ DisabledByTheLast'
  BY <1>a, <1>b DEF StackInv, CapturesDoNotFlood, DisabledByTheLast
<1>4. StartIsNotAStall'
  <2>1. CASE captures = <<>>
    <3>1. Len(captures') = 0
      BY <1>b, <2>1
    <3>2. QED
      BY <3>1 DEF StartIsNotAStall
  <2>2. CASE startedAt' = startedAt
    BY <1>a, <1>b, <2>2 DEF StackInv, StartIsNotAStall
  <2>3. QED
    BY <2>1, <2>2
<1>5. QED
  BY <1>1, <1>2, <1>3, <1>4 DEF StackInv

\* The stretch of as many stacks as a stall may take that ends with the new one
\* begins before the stall, if the stall has fewer.
LEMMA LastWindow ==
  ASSUME NEW n \in Nat, NEW i \in Nat, NEW limit \in Nat, NEW taken \in Nat,
         1 <= i, i + limit <= n + 1, i + limit > n, taken < limit
  PROVE  i + limit = n + 1 /\ i \in 1 .. n - taken
OBVIOUS

\* A stack taken by the rules keeps the floor: the first of a stall from every
\* stack before it, another one through the first.
LEMMA StackTaken ==
  ASSUME IInv, TypeOK', Takes, watchdog = "polled", UNCHANGED <<now, startedAt>>
  PROVE  StackInv'
<1> DEFINE n == Len(captures)
<1>1. PICK long \in BOOLEAN :
        /\ captures' = Append(captures, Stack(long))
        /\ captureDisabled' = long
  BY DEF Takes
<1>a. captures \in Seq(Capture) /\ captures' \in Seq(Capture)
  BY TypeParts DEF IInv, Records
<1>b. /\ now \in Nat /\ polledAt \in Nat /\ heartbeat \in Nat /\ startedAt \in Nat /\ lastCapture \in Nat
      /\ capturesThisStall \in Nat
  BY TypeParts DEF IInv, Records, Moments
<1>2. Stack(long) \in Capture
  BY TypeParts DEF IInv, Moments, Capture, Stack
<1>3. /\ n \in Nat /\ Len(captures') = n + 1
      /\ \A i \in 1 .. n : captures'[i] = captures[i]
      /\ captures'[n + 1] = Stack(long)
  BY <1>1, <1>2, <1>a, AppendFacts
<1>4. /\ captures'[n + 1].at = polledAt /\ captures'[n + 1].long = long
      /\ startedAt <= heartbeat => captures'[n + 1].ofStart = FALSE
  <2>1. Stack(long).at = polledAt /\ Stack(long).long = long
    BY DEF Stack
  <2>2. Stack(long).ofStart = (heartbeat < startedAt)
    BY Zenon DEF Stack
  <2>3. startedAt <= heartbeat => (heartbeat < startedAt) = FALSE
    BY <1>b
  <2>4. QED
    BY <1>3, <2>1, <2>2, <2>3
<1>5. \A i \in 1 .. n : captures[i].at \in Nat
  <2>1. \A i \in 1 .. n : captures[i] \in Capture
    BY <1>a
  <2>2. \A c \in Capture : c.at \in Nat
    BY DEF Capture
  <2>3. QED
    BY <2>1, <2>2
<1>6. /\ \A i, j \in 1 .. n : i <= j => captures[i].at <= captures[j].at
      /\ \A i \in 1 .. n : 1 <= captures[i].at /\ captures[i].at <= lastCapture
      /\ lastCapture <= polledAt /\ 1 <= polledAt /\ polledAt <= now
  BY DEF IInv, CapturesInOrder, PollIsRecent
<1>7. Taken \in Nat /\ Taken < MaxCaptures /\ Taken <= n
  BY <1>b, <1>3 DEF Takes, Taken, IInv, StallKeepsTheFloor
<1>8. ASSUME Taken = 0
      PROVE  \A i \in 1 .. n : polledAt - captures[i].at >= CaptureInterval
  BY <1>8, <1>b, <1>3, <1>5, <1>6 DEF Takes, SpacingOk
<1>9. ASSUME Taken > 0
      PROVE  \A i \in 1 .. n - Taken :
               captures[n - Taken + 1].at - captures[i].at >= CaptureInterval
  BY <1>9 DEF Taken, IInv, StallKeepsTheFloor
<1>10. \A i \in 1 .. n - Taken :
         /\ captures'[n - Taken + 1].at - captures[i].at >= CaptureInterval
         /\ polledAt - captures[i].at >= CaptureInterval
  <2>1. CASE Taken = 0
    BY <2>1, <1>3, <1>4, <1>8
  <2>2. CASE Taken > 0
    <3>1. n - Taken + 1 \in 1 .. n
      BY <2>2, <1>3, <1>7
    <3>2. captures'[n - Taken + 1] = captures[n - Taken + 1] /\ captures[n - Taken + 1].at <= polledAt
                                                             /\ captures[n - Taken + 1].at \in Nat
      BY <3>1, <1>3, <1>5, <1>6, <1>b
    <3>3. \A i \in 1 .. n - Taken : i \in 1 .. n
      BY <1>3, <1>7
    <3>4. QED
      BY <2>2, <3>2, <3>3, <1>9, <1>5, <1>b
  <2>3. QED
    BY <1>7, <2>1, <2>2
<1>11. StallKeepsTheFloor'
  <2>1. capturesThisStall' = Taken + 1
    BY DEF Takes
  <2>2. Len(captures') - capturesThisStall' = n - Taken
    BY <2>1, <1>3, <1>7
  <2>3. \A i \in 1 .. n - Taken : captures'[i] = captures[i]
    BY <1>3, <1>7
  <2>4. capturesThisStall' <= Len(captures')
    BY <2>1, <1>3, <1>7
  <2>5. \A i \in 1 .. Len(captures') - capturesThisStall' :
          captures'[Len(captures') - capturesThisStall' + 1].at - captures'[i].at >= CaptureInterval
    BY <2>2, <2>3, <1>10
  <2>6. QED
    BY <2>4, <2>5 DEF StallKeepsTheFloor
<1>12. CapturesDoNotFlood'
  <2>1. SUFFICES ASSUME NEW i \in 1 .. Len(captures') - MaxCaptures
                 PROVE  captures'[i + MaxCaptures].at - captures'[i].at >= CaptureInterval
    BY DEF CapturesDoNotFlood
  <2>2. i \in 1 .. n /\ captures'[i] = captures[i]
    BY <1>3
  <2>3. CASE i + MaxCaptures <= n
    <3>1. i \in 1 .. Len(captures) - MaxCaptures /\ i + MaxCaptures \in 1 .. n
      BY <2>2, <2>3, <1>3
    <3>2. captures'[i + MaxCaptures] = captures[i + MaxCaptures]
      BY <3>1, <1>3
    <3>3. captures[i + MaxCaptures].at - captures[i].at >= CaptureInterval
      BY <3>1 DEF IInv, CapturesDoNotFlood
    <3>4. QED
      BY <3>2, <3>3, <2>2
  <2>4. CASE i + MaxCaptures > n
    <3>1. i + MaxCaptures = n + 1 /\ i \in 1 .. n - Taken
      <4>1. i \in Nat /\ i >= 1 /\ i + MaxCaptures <= n + 1 /\ n \in Nat /\ MaxCaptures \in Nat
        BY <2>2, <1>3
      <4>2. QED
        BY ONLY <4>1, <2>4, <1>7, LastWindow
    <3>2. captures'[i + MaxCaptures].at = polledAt
      BY <3>1, <1>4
    <3>3. QED
      BY <3>1, <3>2, <2>2, <1>10
  <2>5. QED
    BY <2>3, <2>4, <1>3
<1>13. CapturesInOrder'
  <2>1. lastCapture' = polledAt /\ now' = now
    BY DEF Takes
  <2>2. \A i \in 1 .. n + 1 : 1 <= captures'[i].at /\ captures'[i].at <= polledAt
    BY <1>b, <1>3, <1>4, <1>5, <1>6
  <2>3. \A i, j \in 1 .. n + 1 : i <= j => captures'[i].at <= captures'[j].at
    BY <2>2, <1>3, <1>4, <1>5, <1>6
  <2>4. QED
    BY <2>1, <2>2, <2>3, <1>b, <1>3, <1>4, <1>6 DEF CapturesInOrder
<1>14. DisabledByTheLast'
  <2>1. \A i \in 1 .. n : ~captures[i].long
    BY DEF IInv, DisabledByTheLast, Takes
  <2>2. \A i \in 1 .. n : ~captures'[i].long
    BY <2>1, <1>3
  <2>3. captureDisabled' = long /\ captures'[n + 1].long = long
    BY <1>1, <1>4
  <2>4. QED
    BY <2>2, <2>3, <1>3 DEF DisabledByTheLast
<1>15. StartIsNotAStall'
  <2>1. startedAt' = startedAt /\ startedAt # 0 /\ (StoresInOrder => startedAt <= heartbeat)
    BY DEF IInv, ArmedAfterStart, Unarmed
  <2>2. \A i \in 1 .. n : StoresInOrder => ~captures'[i].ofStart
    BY <1>3 DEF IInv, StartIsNotAStall
  <2>3. StoresInOrder => captures'[n + 1].ofStart = FALSE
    BY <2>1, <1>4
  <2>4. \A i \in 1 .. n + 1 : i \in 1 .. n \/ i = n + 1
    BY <1>3
  <2>5. QED
    BY <2>1, <2>2, <2>3, <2>4, <1>3 DEF StartIsNotAStall
<1>16. QED
  BY <1>11, <1>12, <1>13, <1>14, <1>15 DEF StackInv

-----------------------------------------------------------------------------
(* The minidumps *)

\* The dumps so far, as the parts of the invariant speak of them.
DumpInv == DumpKeepsTheLimits /\ DumpsAreOfEarlierStalls /\ DumpsAreFew

\* A dump that was written keeps the limits that were checked when it began,
\* and is the first of its stall.
LEMMA DumpEnds == IInv /\ TypeOK' /\ EndDump => DumpInv'
<1> SUFFICES ASSUME IInv, TypeOK', EndDump
             PROVE  DumpInv'
    OBVIOUS
<1> DEFINE n == Len(dumps)
           d == [at |-> dumpStarted, stall |-> stallStartedAt]
<1>a. /\ dumps \in Seq(Dump) /\ n \in Nat
      /\ DumpInv /\ Moments /\ Moments' /\ ClockIsAhead
  BY TypeParts DEF IInv, Records, DumpInv
<1>b. d \in Dump
  BY <1>a DEF Moments, Dump
<1>c. \A i \in 1 .. n : dumps[i].at \in Nat /\ dumps[i].stall \in Nat
  <2>1. \A i \in 1 .. n : dumps[i] \in Dump
    BY <1>a
  <2>2. \A e \in Dump : e.at \in Nat /\ e.stall \in Nat
    BY DEF Dump
  <2>3. QED
    BY <2>1, <2>2
<1>d. /\ watchdog = "writing" /\ watchdog' = "waiting"
      /\ UNCHANGED <<now, heartbeat, armed, stallStartedAt, dumpedThisStall>>
  BY DEF EndDump, modelVars, stallVars
<1>e. lastDump \in Nat /\ dumpStarted \in Nat /\ stallStartedAt \in Nat /\ now \in Nat
  BY <1>a DEF Moments
<1>1. CASE UNCHANGED <<lastDump, dumpsThisSession, dumps>>
  <2>1. DumpKeepsTheLimits' /\ DumpsAreFew'
    BY <1>1, <1>a, <1>d DEF DumpInv, DumpKeepsTheLimits, DumpsAreFew
  <2>2. DumpsAreOfEarlierStalls'
    BY <1>1, <1>a, <1>d DEF DumpInv, DumpsAreOfEarlierStalls
  <2>3. QED
    BY <2>1, <2>2 DEF DumpInv
<1>2. CASE /\ lastDump' = dumpStarted /\ dumpsThisSession' = dumpsThisSession + 1
           /\ dumps' = Append(dumps, d)
  <2>1. /\ Len(dumps') = n + 1
        /\ \A i \in 1 .. n : dumps'[i] = dumps[i]
        /\ dumps'[n + 1] = d
    BY <1>2, <1>a, <1>b, AppendFacts
  <2>2. d.at = dumpStarted /\ d.stall = stallStartedAt
    OBVIOUS
  <2>3. /\ dumpsThisSession = n /\ n < MaxDumps /\ 1 <= dumpStarted /\ dumpStarted <= now
        /\ lastDump = 0 \/ dumpStarted - lastDump >= DumpInterval
        /\ \A i \in 1 .. n : 1 <= dumps[i].at /\ dumps[i].at <= lastDump
    BY <1>a, <1>d DEF DumpInv, DumpKeepsTheLimits
  <2>4. stallStartedAt # 0 /\ dumpedThisStall /\ now - stallStartedAt >= Threshold
        /\ \A i \in 1 .. n : dumps[i].stall < stallStartedAt
    BY <1>a, <1>d DEF DumpInv, DumpsAreOfEarlierStalls
  <2>5. \A i \in 1 .. n : dumpStarted - dumps[i].at >= DumpInterval
    <3>1. SUFFICES ASSUME NEW i \in 1 .. n
                   PROVE  dumpStarted - dumps[i].at >= DumpInterval
      OBVIOUS
    <3>2. dumps[i].at \in Nat /\ 1 <= dumps[i].at /\ dumps[i].at <= lastDump
      BY <2>3, <1>c
    <3>3. QED
      BY <3>2, <2>3, <1>e
  <2>6. DumpKeepsTheLimits'
    <3>1. \A i \in 1 .. n + 1 : 1 <= dumps'[i].at /\ dumps'[i].at <= dumpStarted
      <4>1. SUFFICES ASSUME NEW i \in 1 .. n + 1
                     PROVE  1 <= dumps'[i].at /\ dumps'[i].at <= dumpStarted
        OBVIOUS
      <4>2. CASE i = n + 1
        BY <4>2, <2>1, <2>2, <2>3, <1>e
      <4>3. CASE i # n + 1
        <5>1. i \in 1 .. n /\ dumps'[i] = dumps[i]
          BY <4>3, <2>1, <1>a
        <5>2. QED
          BY <5>1, <2>3, <2>5, <1>c, <1>e
      <4>4. QED
        BY <4>2, <4>3
    <3>2. QED
      BY <3>1, <2>1, <2>3, <1>2, <1>a, <1>d DEF DumpKeepsTheLimits, Moments
  <2>7. DumpsAreOfEarlierStalls'
    <3>1. \A i \in 1 .. n + 1 : dumps'[i].stall <= stallStartedAt
      <4>1. SUFFICES ASSUME NEW i \in 1 .. n + 1
                     PROVE  dumps'[i].stall <= stallStartedAt
        OBVIOUS
      <4>2. CASE i = n + 1
        BY <4>2, <2>1, <2>2, <1>e
      <4>3. CASE i # n + 1
        <5>1. i \in 1 .. n /\ dumps'[i] = dumps[i]
          BY <4>3, <2>1, <1>a
        <5>2. QED
          BY <5>1, <2>4, <1>c, <1>e
      <4>4. QED
        BY <4>2, <4>3
    <3>2. QED
      BY <3>1, <2>1, <2>4, <1>d DEF DumpsAreOfEarlierStalls
  <2>8. DumpsAreFew'
    <3>1. n + 1 <= MaxDumps
      BY <2>3, <1>a
    <3>2. ASSUME NEW i \in 1 .. n + 1, NEW j \in 1 .. n + 1, i < j
          PROVE  /\ dumps'[j].at - dumps'[i].at >= DumpInterval
                 /\ dumps'[i].stall < dumps'[j].stall
      <4>1. i \in 1 .. n /\ dumps'[i] = dumps[i]
        BY <3>2, <2>1, <1>a
      <4>2. CASE j = n + 1
        BY <4>1, <4>2, <2>1, <2>2, <2>4, <2>5
      <4>3. CASE j # n + 1
        <5>1. j \in 1 .. n /\ dumps'[j] = dumps[j]
          BY <4>3, <2>1, <1>a
        <5>2. QED
          BY <3>2, <4>1, <5>1, <1>a DEF DumpInv, DumpsAreFew
      <4>4. QED
        BY <4>2, <4>3
    <3>3. QED
      BY <3>1, <3>2, <2>1 DEF DumpsAreFew
  <2>9. QED
    BY <2>6, <2>7, <2>8 DEF DumpInv
<1>3. QED
  BY <1>1, <1>2 DEF EndDump

\* What a step that writes no dump must do for the dumps to stay right.
LEMMA DumpFrame ==
  ASSUME IInv, TypeOK', UNCHANGED <<dumps, lastDump, dumpsThisSession>>, now <= now',
         \/ UNCHANGED <<watchdog, dumpStarted>>
         \/ watchdog' # "writing"
         \/ watchdog' = "writing" /\ dumpStarted' = now /\ DumpAllowed,
         DumpsAreOfEarlierStalls'
  PROVE  DumpInv'
<1>a. Moments /\ Moments' /\ DumpInv /\ ClockIsAhead
  BY TypeParts DEF IInv, DumpInv
<1>1. DumpsAreFew'
  BY <1>a DEF DumpInv, DumpsAreFew
<1>2. DumpKeepsTheLimits'
  <2>1. dumpsThisSession' = Len(dumps') /\ lastDump' <= now'
        /\ \A i \in 1 .. Len(dumps') : 1 <= dumps'[i].at /\ dumps'[i].at <= lastDump'
    BY <1>a DEF DumpInv, DumpKeepsTheLimits, Moments
  <2>2. ASSUME watchdog' = "writing"
        PROVE  /\ dumpsThisSession' < MaxDumps /\ dumpStarted' <= now' /\ 1 <= dumpStarted'
               /\ lastDump' = 0 \/ dumpStarted' - lastDump' >= DumpInterval
    <3>1. CASE UNCHANGED <<watchdog, dumpStarted>>
      BY <2>2, <3>1, <1>a DEF DumpInv, DumpKeepsTheLimits, Moments
    <3>2. CASE dumpStarted' = now /\ DumpAllowed
      BY <2>2, <3>2, <1>a DEF DumpInv, DumpKeepsTheLimits, Moments, DumpAllowed, ClockIsAhead
    <3>3. QED
      BY <2>2, <3>1, <3>2
  <2>3. QED
    BY <2>1, <2>2 DEF DumpKeepsTheLimits
<1>3. QED
  BY <1>1, <1>2 DEF DumpInv

-----------------------------------------------------------------------------
(* Every step *)

\* The clock runs ahead of the heartbeat.
LEMMA NextClock == IInv /\ [Next]_vars => ClockIsAhead'
<1> SUFFICES ASSUME IInv, [Next]_vars
             PROVE  ClockIsAhead'
    OBVIOUS
<1>a. Moments /\ ClockIsAhead /\ ArmedAfterStart
  BY TypeParts DEF IInv
<1> USE DEF ClockIsAhead, modelVars
<1>1. CASE Tick
  BY <1>a, <1>1 DEF Tick, Moments
<1>2. CASE StoreHeartbeat
  BY <1>a, <1>2 DEF StoreHeartbeat, Reaches, Moments, ArmedAfterStart
<1>3. CASE Beat
  BY <1>a, <1>3 DEF Beat, Moments
<1>4. CASE CallArm \/ StoreArmed \/ Clean \/ Detach \/ StopWatchdog \/ Joined
  BY <1>a, <1>4 DEF CallArm, StoreArmed, Clean, Detach, StopWatchdog, Joined
<1>5. CASE Watch
  BY <1>a, <1>5 DEF Watch, Return, PollDisarmed, PollArmed, ReadClock, PollHealthy, PollSilent,
                    StartDump, EndDump
<1>6. CASE UNCHANGED vars
  BY <1>a, <1>6 DEF vars
<1>7. QED
  BY <1>1, <1>2, <1>3, <1>4, <1>5, <1>6 DEF Next

\* Whatever the watchdog reads between the stores of arm(), it has seen no
\* monitor armed before the start; and the heartbeat of arm() is of the start.
LEMMA NextArmed == IInv /\ [Next]_vars => ArmedAfterStart'
<1> SUFFICES ASSUME IInv, [Next]_vars
             PROVE  ArmedAfterStart'
    OBVIOUS
<1>a. Moments /\ Places /\ ClockIsAhead /\ ArmedAfterStart /\ DumpsAreOfEarlierStalls
  BY TypeParts DEF IInv
<1> USE DEF ArmedAfterStart, Unarmed, modelVars, pollVars, stallVars, captureVars, dumpVars,
            watchdogVars
<1>1. CASE Tick
  BY <1>a, <1>1 DEF Tick, Moments
<1>2. CASE CallArm
  BY <1>a, <1>2 DEF CallArm, Moments, ClockIsAhead
<1>3. CASE StoreHeartbeat
  BY <1>a, <1>3 DEF StoreHeartbeat, Reaches, Moments
<1>4. CASE StoreArmed
  BY <1>a, <1>4 DEF StoreArmed, Reaches, MadeBefore
<1>5. CASE Beat
  BY <1>a, <1>5 DEF Beat, Running, Moments
<1>6. CASE Clean \/ Detach \/ StopWatchdog \/ Joined
  BY <1>a, <1>6 DEF Clean, Detach, StopWatchdog, Joined, Running
<1>7. CASE Return \/ PollDisarmed \/ PollArmed \/ ReadClock
  BY <1>a, <1>7 DEF Return, PollDisarmed, PollArmed, ReadClock
<1>8. CASE PollHealthy \/ PollSilent
  BY <1>a, <1>8 DEF PollHealthy, PollSilent
<1>9. CASE StartDump \/ EndDump
  BY <1>a, <1>9 DEF StartDump, EndDump
<1>10. CASE UNCHANGED vars
  BY <1>a, <1>10 DEF vars
<1>11. QED
  BY <1>1, <1>2, <1>3, <1>4, <1>5, <1>6, <1>7, <1>8, <1>9, <1>10 DEF Next, Watch

\* What a poll knows is older than its end, but later than what it is compared with.
LEMMA NextPoll == IInv /\ [Next]_vars => PollIsRecent'
<1> SUFFICES ASSUME IInv, [Next]_vars
             PROVE  PollIsRecent'
    OBVIOUS
<1>a. /\ Moments /\ ClockIsAhead /\ PollIsRecent /\ CapturesInOrder
      /\ DumpsAreOfEarlierStalls
  BY TypeParts DEF IInv
<1> USE DEF PollIsRecent, modelVars, pollVars, stallVars, captureVars, dumpVars, watchdogVars
<1>1. CASE Tick
  BY <1>a, <1>1 DEF Tick, Moments
<1>2. CASE CallArm \/ StoreHeartbeat \/ StoreArmed \/ Beat
  BY <1>a, <1>2 DEF CallArm, StoreHeartbeat, StoreArmed, Beat
<1>3. CASE Clean \/ Detach \/ StopWatchdog \/ Joined
  BY <1>a, <1>3 DEF Clean, Detach, StopWatchdog, Joined
<1>4. CASE ReadClock
  BY <1>a, <1>4 DEF ReadClock, Moments, ClockIsAhead, CapturesInOrder, DumpsAreOfEarlierStalls
<1>5. CASE Watch /\ ~ReadClock
  BY <1>5 DEF Watch, Return, PollDisarmed, PollArmed, PollHealthy, PollSilent, StartDump, EndDump
<1>6. CASE UNCHANGED vars
  BY <1>a, <1>6 DEF vars
<1>7. QED
  BY <1>1, <1>2, <1>3, <1>4, <1>5, <1>6 DEF Next

\* Only a silent poll takes a stack.
LEMMA NextStacks == IInv /\ [Next]_vars => StackInv'
<1> SUFFICES ASSUME IInv, [Next]_vars
             PROVE  StackInv'
    OBVIOUS
<1>a. TypeOK' /\ Moments /\ ArmedAfterStart
  BY NextTypeOK, TypeParts DEF IInv
<1> DEFINE Frame == /\ UNCHANGED <<captures, captureDisabled, lastCapture>>
                    /\ capturesThisStall' \in {0, capturesThisStall} /\ now <= now'
                    /\ startedAt' = startedAt \/ captures = <<>>
<1>b. Frame => StackInv'
  BY <1>a, StackFrame
<1> USE DEF modelVars, pollVars, stallVars, symbolVars, captureVars, dumpVars, watchdogVars
<1>1. CASE PollSilent
  <2>1. UNCHANGED <<now, startedAt>> /\ watchdog = "polled"
    BY <1>1 DEF PollSilent
  <2>2. CASE Takes
    BY <1>a, <2>1, <2>2, StackTaken
  <2>3. CASE Skips
    <3>1. Frame
      BY <1>a, <2>1, <2>3 DEF Skips, Taken, Moments
    <3>2. QED
      BY <1>b, <3>1
  <2>4. QED
    BY <1>1, <2>2, <2>3, SilentPoll DEF IInv
<1>2. CASE Tick \/ CallArm \/ StoreHeartbeat \/ StoreArmed \/ Beat
  <2>1. Frame
    BY <1>a, <1>2 DEF Tick, CallArm, StoreHeartbeat, StoreArmed, Beat, Moments, ArmedAfterStart,
                      Unarmed
  <2>2. QED
    BY <1>b, <2>1
<1>3. CASE Clean \/ Detach \/ StopWatchdog \/ Joined
  <2>1. Frame
    BY <1>a, <1>3 DEF Clean, Detach, StopWatchdog, Joined, Moments
  <2>2. QED
    BY <1>b, <2>1
<1>4. CASE Return \/ PollDisarmed \/ PollArmed \/ ReadClock \/ PollHealthy \/ StartDump \/ EndDump
  <2>1. Frame
    BY <1>a, <1>4 DEF Return, PollDisarmed, PollArmed, ReadClock, PollHealthy, StartDump, EndDump,
                      Moments
  <2>2. QED
    BY <1>b, <2>1
<1>5. CASE UNCHANGED vars
  <2>1. Frame
    BY <1>a, <1>5 DEF vars, Moments
  <2>2. QED
    BY <1>b, <2>1
<1>6. QED
  BY <1>1, <1>2, <1>3, <1>4, <1>5 DEF Next, Watch

\* A stall is over before another begins, so the dumps are of different stalls.
LEMMA NextDumps == IInv /\ [Next]_vars => DumpInv'
<1> SUFFICES ASSUME IInv, [Next]_vars
             PROVE  DumpInv'
    OBVIOUS
<1>a. /\ TypeOK' /\ Moments /\ ClockIsAhead /\ ArmedAfterStart
      /\ DumpKeepsTheLimits /\ DumpsAreOfEarlierStalls /\ PollIsRecent
  BY NextTypeOK, TypeParts DEF IInv
<1>b. \A i \in 1 .. Len(dumps) : dumps[i].stall \in Nat
  <2>1. \A i \in 1 .. Len(dumps) : dumps[i] \in Dump
    BY TypeParts DEF IInv, Records
  <2>2. \A e \in Dump : e.stall \in Nat
    BY DEF Dump
  <2>3. QED
    BY <2>1, <2>2
<1> DEFINE Frame == /\ UNCHANGED <<dumps, lastDump, dumpsThisSession>> /\ now <= now'
                    /\ \/ UNCHANGED <<watchdog, dumpStarted>>
                       \/ watchdog' # "writing"
                       \/ watchdog' = "writing" /\ dumpStarted' = now /\ DumpAllowed
<1>c. Frame /\ DumpsAreOfEarlierStalls' => DumpInv'
  BY <1>a, DumpFrame
<1> USE DEF modelVars, pollVars, stallVars, symbolVars, captureVars, dumpVars, watchdogVars
<1>1. CASE Tick
  <2>1. Frame
    BY <1>a, <1>1 DEF Tick, Moments
  <2>2. DumpsAreOfEarlierStalls'
    BY <1>a, <1>1 DEF Tick, Moments, DumpsAreOfEarlierStalls
  <2>3. QED
    BY <1>c, <2>1, <2>2
<1>2. CASE CallArm \/ StoreArmed
  <2>1. Frame
    BY <1>a, <1>2 DEF CallArm, StoreArmed, Moments
  <2>2. Len(dumps') = 0 /\ stallStartedAt' = 0 /\ watchdog' \in {"waiting", "returned"}
    BY <1>a, <1>2 DEF CallArm, StoreArmed, Reaches, ArmedAfterStart, Unarmed
  <2>3. DumpsAreOfEarlierStalls'
    BY <2>2 DEF DumpsAreOfEarlierStalls
  <2>4. QED
    BY <1>c, <2>1, <2>3
<1>3. CASE StoreHeartbeat \/ Beat
  <2>1. Frame
    BY <1>a, <1>3 DEF StoreHeartbeat, Beat, Moments
  <2>2. heartbeat \in Nat /\ heartbeat' \in Nat /\ heartbeat <= heartbeat'
    BY <1>a, <1>3 DEF StoreHeartbeat, Reaches, Beat, Moments, ArmedAfterStart
  <2>3. \A i \in 1 .. Len(dumps) : dumps[i].stall < heartbeat => dumps[i].stall < heartbeat'
    BY <1>b, <2>2
  <2>4. UNCHANGED <<now, armed, watchdog, stallStartedAt, dumpedThisStall, dumps>>
    BY <1>3 DEF StoreHeartbeat, Beat
  <2>5. DumpsAreOfEarlierStalls'
    BY <1>a, <2>3, <2>4 DEF DumpsAreOfEarlierStalls
  <2>6. QED
    BY <1>c, <2>1, <2>5
<1>4. CASE Clean \/ Detach \/ StopWatchdog \/ Joined
  <2>1. Frame
    BY <1>a, <1>4 DEF Clean, Detach, StopWatchdog, Joined, Moments
  <2>2. DumpsAreOfEarlierStalls'
    BY <1>a, <1>4 DEF Clean, Detach, StopWatchdog, Joined, DumpsAreOfEarlierStalls
  <2>3. QED
    BY <1>c, <2>1, <2>2
<1>5. CASE Return \/ PollDisarmed \/ PollArmed \/ ReadClock
  <2>1. Frame
    BY <1>a, <1>5 DEF Return, PollDisarmed, PollArmed, ReadClock, Moments
  <2>2. DumpsAreOfEarlierStalls'
    BY <1>a, <1>5 DEF Return, PollDisarmed, PollArmed, ReadClock, DumpsAreOfEarlierStalls
  <2>3. QED
    BY <1>c, <2>1, <2>2
<1>6. CASE PollHealthy
  <2>1. Frame
    BY <1>a, <1>6 DEF PollHealthy, Moments
  <2>2. /\ watchdog = "polled" /\ watchdog' = "waiting" /\ stallStartedAt' = 0
        /\ UNCHANGED <<now, heartbeat, armed, dumps>>
    BY <1>6 DEF PollHealthy
  <2>3. ASSUME NEW i \in 1 .. Len(dumps)
        PROVE  dumps[i].stall < heartbeat
    <3>1. CASE stallStartedAt = 0
      BY <1>a, <2>2, <3>1 DEF DumpsAreOfEarlierStalls
    <3>2. CASE stallStartedAt # 0
      <4>1. stallStartedAt < heartbeat
        BY <1>a, <1>6, <3>2 DEF PollHealthy, Silence, Moments, PollIsRecent
      <4>2. dumps[i].stall <= stallStartedAt
        BY <1>a, <3>2 DEF DumpsAreOfEarlierStalls
      <4>3. stallStartedAt \in Nat /\ heartbeat \in Nat
        BY <1>a DEF Moments, Times
      <4>4. dumps[i].stall \in Nat
        BY <1>b
      <4>5. QED
        BY ONLY <4>1, <4>2, <4>3, <4>4
    <3>3. QED
      BY <3>1, <3>2
  <2>4. DumpsAreOfEarlierStalls'
    BY <2>2, <2>3 DEF DumpsAreOfEarlierStalls
  <2>5. QED
    BY <1>c, <2>1, <2>4
<1>7. CASE PollSilent
  <2>1. Frame
    BY <1>a, <1>7 DEF PollSilent, Moments
  <2>2. /\ watchdog = "polled" /\ now - heartbeat >= Threshold /\ heartbeat # 0
        /\ stallStartedAt' = IF stallStartedAt = 0 THEN heartbeat ELSE stallStartedAt
        /\ UNCHANGED <<now, heartbeat, armed, dumps>>
    BY <1>a, <1>7 DEF PollSilent, Silence, Moments, ClockIsAhead, PollIsRecent
  <2>3. watchdog' \in {"waiting", "dumping"} /\ (watchdog' = "dumping" => dumpedThisStall')
    BY <1>7 DEF PollSilent
  <2>4. stallStartedAt # 0 /\ (~dumpedThisStall' \/ watchdog' = "dumping") => ~dumpedThisStall
    BY <1>7 DEF PollSilent
  <2>5. stallStartedAt' # 0 /\ now' - stallStartedAt' >= Threshold
    BY <1>a, <2>2 DEF DumpsAreOfEarlierStalls
  <2>6. ASSUME NEW i \in 1 .. Len(dumps)
        PROVE  /\ dumps[i].stall <= stallStartedAt'
               /\ (~dumpedThisStall' \/ watchdog' = "dumping") => dumps[i].stall < stallStartedAt'
    <3>1. CASE stallStartedAt = 0
      BY <1>a, <1>b, <2>2, <3>1 DEF DumpsAreOfEarlierStalls, Moments
    <3>2. CASE stallStartedAt # 0
      BY <1>a, <2>2, <2>4, <3>2 DEF DumpsAreOfEarlierStalls
    <3>3. QED
      BY <3>1, <3>2
  <2>7. DumpsAreOfEarlierStalls'
    BY <2>2, <2>3, <2>5, <2>6 DEF DumpsAreOfEarlierStalls
  <2>8. QED
    BY <1>c, <2>1, <2>7
<1>8. CASE StartDump
  <2>1. Frame
    BY <1>a, <1>8 DEF StartDump, Moments
  <2>2. DumpsAreOfEarlierStalls'
    BY <1>a, <1>8 DEF StartDump, DumpsAreOfEarlierStalls
  <2>3. QED
    BY <1>c, <2>1, <2>2
<1>9. CASE EndDump
  BY <1>a, <1>9, DumpEnds
<1>10. CASE UNCHANGED vars
  <2>1. Frame
    BY <1>a, <1>10 DEF vars, Moments
  <2>2. DumpsAreOfEarlierStalls'
    BY <1>a, <1>10 DEF vars, DumpsAreOfEarlierStalls
  <2>3. QED
    BY <1>c, <2>1, <2>2
<1>11. QED
  BY <1>1, <1>2, <1>3, <1>4, <1>5, <1>6, <1>7, <1>8, <1>9, <1>10 DEF Next, Watch

\* The counters agree with what has been written in every state.
LEMMA Inductive == Spec => []IInv
<1>1. IInv /\ [Next]_vars => IInv'
  BY NextTypeOK, NextClock, NextArmed, NextPoll, NextStacks, NextDumps DEF IInv, StackInv, DumpInv
<1>2. QED
  BY InitIInv, <1>1, PTL DEF Spec

-----------------------------------------------------------------------------
(* Theorems *)

\* Type correctness, with both limits within their bounds.
THEOREM TypeSafety == Spec => []TypeOK
BY Inductive, PTL DEF IInv

\* However a stall flaps around the threshold, the log cannot be flooded
\* (StallMonitor.cpp:224).
THEOREM FloodSafety == Spec => []CapturesDoNotFlood
BY Inductive, PTL DEF IInv

\* One long hold of the linphone thread is the last of the session.
THEOREM LongHoldSafety == Spec => []LongHoldIsTheLast
<1>1. IInv => LongHoldIsTheLast
  BY DEF IInv, DisabledByTheLast, LongHoldIsTheLast
<1>2. QED
  BY Inductive, <1>1, PTL

\* The start of the core is never reported as a stall.
THEOREM StartSafety == Spec => []StartIsNotAStall
BY Inductive, PTL DEF IInv

\* Minidumps keep their number, their interval, and one stall each.
THEOREM DumpSafety == Spec => []DumpsAreFew
BY Inductive, PTL DEF IInv

=============================================================================
