------------------------ MODULE SafeConnectionProofs ------------------------
(***************************************************************************)
(* Proofs about SafeConnection, for every number of calls.                 *)
(***************************************************************************)
EXTENDS SafeConnection, TLAPS

\* The initial state satisfies the inductive invariant.
LEMMA InitIInv == Init => IInv
BY DEF Init, IInv, TypeOK, CountIsExact, Closures, Holding, MutexHeldByLocker,
       InvocationShape, StrongWhileCounted, LiveWhileHeld, Threads, Ends, Idle

\* Giving ends back keeps the types of the counts, pointers and states.
LEMMA UnlockEndsType ==
  ASSUME TypeOK, NEW S \in SUBSET Ends, UnlockEnds(S)
  PROVE  /\ count'  \in [Ends -> Nat]
         /\ strong' \in [Ends -> BOOLEAN]
         /\ state'  \in [Ends -> {"live", "doomed", "deleted"}]
<1>1. count' \in [Ends -> Nat] /\ state' \in [Ends -> {"live", "doomed", "deleted"}]
  BY DEF TypeOK, UnlockEnds
<1>2. strong' \in [Ends -> BOOLEAN]
  BY DEF TypeOK, UnlockEnds
<1>3. QED
  BY <1>1, <1>2

\* While a closure is queued or runs both ends are counted, held and live; so
\* an object that is not live has no closure left.
LEMMA ClosureHolds ==
  ASSUME IInv, NEW e \in Ends
  PROVE  /\ Closures \in Nat
         /\ \A t \in Threads : pending[t] <= Closures
         /\ Closures > 0 => state[e] = "live"
<1>1. /\ pending["core"] \in Nat /\ pending["model"] \in Nat
      /\ running["core"] \in Nat /\ running["model"] \in Nat
      /\ count[e] \in Nat
  BY DEF IInv, TypeOK, Threads, Ends
<1>2. /\ Closures \in Nat
      /\ pending["core"] <= Closures
      /\ pending["model"] <= Closures
  BY <1>1 DEF Closures
<1>3. Holding("core", e) \in Nat /\ Holding("model", e) \in Nat
  BY DEF Holding
<1>4. count[e] >= Closures
  BY <1>2, <1>3 DEF IInv, CountIsExact
<1>5. Closures > 0 => count[e] > 0
  BY <1>1, <1>2, <1>4
<1>6. QED
  BY <1>2, <1>5 DEF IInv, StrongWhileCounted, LiveWhileHeld, Threads

\* Every step preserves the inductive invariant.
LEMMA NextIInv == IInv /\ [Next]_vars => IInv'
<1> SUFFICES ASSUME IInv, [Next]_vars
             PROVE  IInv'
    OBVIOUS
<1> USE MaxInvocationsIsNat DEF IInv, TypeOK, Threads, Ends, Idle
<1>1. ASSUME NEW t \in Threads, NEW to \in Ends \union {"disconnect"}, BeginInvocation(t, to)
      PROVE  IInv'
  BY <1>1 DEF BeginInvocation, CountIsExact, Closures, Holding, MutexHeldByLocker, InvocationShape, StrongWhileCounted, LiveWhileHeld
<1>2. ASSUME NEW t \in Threads, NEW e \in Ends, LockEnd(t, e)
      PROVE  IInv'
  <2>a. CanLock(e) \in BOOLEAN
    BY DEF CanLock
  <2>b. invocation'[t] \in [pc  : {"idle", "core", "model", "settle", "post"},
                            to  : {"core", "model", "disconnect", "none"},
                            got : SUBSET Ends]
    <3>1. CASE CanLock(e)
      BY <1>2, <3>1 DEF LockEnd
    <3>2. CASE ~CanLock(e)
      BY <1>2, <3>2 DEF LockEnd
    <3>3. QED
      BY <2>a, <3>1, <3>2
  <2>1. TypeOK'
    <3>1. count' \in [Ends -> Nat]
      BY <1>2 DEF LockEnd
    <3>0. strong' \in [Ends -> BOOLEAN]
      <4>1. CASE CanLock(e)
        <5>1. strong' = [strong EXCEPT ![e] = TRUE]
          BY <1>2, <4>1 DEF LockEnd
        <5>2. QED
          BY <5>1
      <4>2. CASE ~CanLock(e)
        BY <1>2, <4>2 DEF LockEnd
      <4>3. QED
        BY <4>1, <4>2
    <3>2. invocation' \in [Threads -> [pc  : {"idle", "core", "model", "settle", "post"},
                                       to  : {"core", "model", "disconnect", "none"},
                                       got : SUBSET Ends]]
      BY <1>2, <2>b DEF LockEnd
    <3>3. QED
      BY <1>2, <3>0, <3>1, <3>2 DEF LockEnd
  <2>2. CountIsExact'
    BY <1>2 DEF LockEnd, CanLock, CountIsExact, Closures, Holding, InvocationShape
  <2>3. MutexHeldByLocker'
    BY <1>2 DEF LockEnd, MutexHeldByLocker, InvocationShape
  <2>4. InvocationShape'
    BY <1>2 DEF LockEnd, CanLock, InvocationShape
  <2>5. StrongWhileCounted'
    BY <1>2 DEF LockEnd, CanLock, StrongWhileCounted
  <2>6. LiveWhileHeld'
    BY <1>2 DEF LockEnd, CanLock, StrongWhileCounted, LiveWhileHeld
  <2>7. QED
    BY <2>1, <2>2, <2>3, <2>4, <2>5, <2>6
<1>3. ASSUME NEW t \in Threads, SettleLocked(t)
      PROVE  IInv'
  BY <1>3 DEF SettleLocked, CountIsExact, Closures, Holding, MutexHeldByLocker, InvocationShape, StrongWhileCounted, LiveWhileHeld
<1>4. ASSUME NEW t \in Threads, SettleFailed(t)
      PROVE  IInv'
  <2>1. TypeOK'
    <3>1. invocation[t].got \in SUBSET Ends
      OBVIOUS
    <3>2. /\ count'  \in [Ends -> Nat]
          /\ strong' \in [Ends -> BOOLEAN]
          /\ state'  \in [Ends -> {"live", "doomed", "deleted"}]
      BY <1>4, <3>1, UnlockEndsType DEF SettleFailed
    <3>3. QED
      BY <1>4, <3>2 DEF SettleFailed
  <2>2. CountIsExact'
    BY <1>4 DEF SettleFailed, UnlockEnds, CountIsExact, Closures, Holding, InvocationShape
  <2>3. MutexHeldByLocker'
    BY <1>4 DEF SettleFailed, UnlockEnds, MutexHeldByLocker, InvocationShape
  <2>4. InvocationShape'
    BY <1>4 DEF SettleFailed, UnlockEnds, InvocationShape
  <2>5. StrongWhileCounted'
    BY <1>4 DEF SettleFailed, UnlockEnds, StrongWhileCounted
  <2>6. LiveWhileHeld'
    BY <1>4 DEF SettleFailed, UnlockEnds, StrongWhileCounted, LiveWhileHeld
  <2>7. QED
    BY <2>1, <2>2, <2>3, <2>4, <2>5, <2>6
<1>5. ASSUME NEW t \in Threads, Post(t)
      PROVE  IInv'
  <2>1. TypeOK'
    BY <1>5 DEF Post
  <2>2. CountIsExact'
    BY <1>5 DEF Post, CountIsExact, Closures, Holding, InvocationShape
  <2>3. MutexHeldByLocker'
    BY <1>5 DEF Post, MutexHeldByLocker, InvocationShape
  <2>4. InvocationShape'
    BY <1>5 DEF Post, InvocationShape
  <2>5. StrongWhileCounted'
    BY <1>5 DEF Post, StrongWhileCounted
  <2>6. LiveWhileHeld'
    BY <1>5 DEF Post, StrongWhileCounted, LiveWhileHeld
  <2>7. QED
    BY <2>1, <2>2, <2>3, <2>4, <2>5, <2>6
<1>6. ASSUME NEW t \in Threads, Disconnect(t)
      PROVE  IInv'
  <2>1. TypeOK'
    <3>1. running' \in [Threads -> Nat]
      BY <1>6 DEF Disconnect
    <3>2. invocation' \in [Threads -> [pc  : {"idle", "core", "model", "settle", "post"},
                                       to  : {"core", "model", "disconnect", "none"},
                                       got : SUBSET Ends]]
      BY <1>6 DEF Disconnect
    <3>3. QED
      BY <1>6, <3>1, <3>2 DEF Disconnect
  <2>2. CountIsExact'
    BY <1>6 DEF Disconnect, CountIsExact, Closures, Holding, InvocationShape
  <2>3. MutexHeldByLocker'
    BY <1>6 DEF Disconnect, MutexHeldByLocker, InvocationShape
  <2>4. InvocationShape'
    BY <1>6 DEF Disconnect, InvocationShape
  <2>5. StrongWhileCounted'
    BY <1>6 DEF Disconnect, StrongWhileCounted
  <2>6. LiveWhileHeld'
    BY <1>6 DEF Disconnect, StrongWhileCounted, LiveWhileHeld
  <2>7. QED
    BY <2>1, <2>2, <2>3, <2>4, <2>5, <2>6
<1>7. ASSUME NEW t \in Threads, RunPending(t)
      PROVE  IInv'
  BY <1>7 DEF RunPending, CountIsExact, Closures, Holding, MutexHeldByLocker, InvocationShape, StrongWhileCounted, LiveWhileHeld
<1>8. ASSUME NEW t \in Threads, Unlock(t)
      PROVE  IInv'
  <2>1. TypeOK'
    <3>1. /\ count'  \in [Ends -> Nat]
          /\ strong' \in [Ends -> BOOLEAN]
          /\ state'  \in [Ends -> {"live", "doomed", "deleted"}]
      BY <1>8, UnlockEndsType DEF Unlock
    <3>2. running' \in [Threads -> Nat]
      BY <1>8 DEF Unlock
    <3>3. QED
      BY <1>8, <3>1, <3>2 DEF Unlock
  <2>2. CountIsExact'
    BY <1>8 DEF Unlock, UnlockEnds, CountIsExact, Closures, Holding, InvocationShape
  <2>3. MutexHeldByLocker'
    BY <1>8 DEF Unlock, UnlockEnds, MutexHeldByLocker, InvocationShape
  <2>4. InvocationShape'
    BY <1>8 DEF Unlock, UnlockEnds, InvocationShape
  <2>5. StrongWhileCounted'
    <3>1. ASSUME NEW e \in Ends
          PROVE  /\ count'[e] = IF count[e] > 0 THEN count[e] - 1 ELSE count[e]
                 /\ strong'[e] <=> strong[e] /\ count[e] # 1
      BY <1>8 DEF Unlock, UnlockEnds
    <3>2. ASSUME NEW e \in Ends
          PROVE  strong'[e] <=> count'[e] > 0
      <4>1. count[e] \in Nat /\ (strong[e] <=> count[e] > 0)
        BY DEF StrongWhileCounted
      <4>2. QED
        BY <3>1, <4>1
    <3>3. QED
      BY <3>2 DEF StrongWhileCounted
  <2>6. LiveWhileHeld'
    BY <1>8 DEF Unlock, UnlockEnds, StrongWhileCounted, LiveWhileHeld
  <2>7. QED
    BY <2>1, <2>2, <2>3, <2>4, <2>5, <2>6
<1>9. ASSUME NEW e \in Ends, ReleaseOwner(e)
      PROVE  IInv'
  <2>1. TypeOK'
    BY <1>9 DEF ReleaseOwner
  <2>2. CountIsExact'
    BY <1>9 DEF ReleaseOwner, CountIsExact, Closures, Holding, InvocationShape
  <2>3. MutexHeldByLocker'
    BY <1>9 DEF ReleaseOwner, MutexHeldByLocker, InvocationShape
  <2>4. InvocationShape'
    BY <1>9 DEF ReleaseOwner, InvocationShape
  <2>5. StrongWhileCounted'
    BY <1>9 DEF ReleaseOwner, StrongWhileCounted
  <2>6. LiveWhileHeld'
    BY <1>9 DEF ReleaseOwner, StrongWhileCounted, LiveWhileHeld
  <2>7. QED
    BY <2>1, <2>2, <2>3, <2>4, <2>5, <2>6
<1>10. ASSUME NEW e \in Ends, DeleteEnd(e)
      PROVE  IInv'
  <2>1. TypeOK'
    BY <1>10 DEF DeleteEnd, AtEventLoop
  <2>2. CountIsExact'
    <3>1. state[e] # "live"
      BY <1>10 DEF DeleteEnd
    <3>2. pending[e] = 0
      BY <3>1, ClosureHolds
    <3>3. pending' = pending
      BY <1>10, <3>2 DEF DeleteEnd
    <3>4. QED
      BY <1>10, <3>3 DEF DeleteEnd, CountIsExact, Closures, Holding
  <2>3. MutexHeldByLocker'
    BY <1>10 DEF DeleteEnd, AtEventLoop, MutexHeldByLocker, InvocationShape
  <2>4. InvocationShape'
    BY <1>10 DEF DeleteEnd, AtEventLoop, InvocationShape
  <2>5. StrongWhileCounted'
    BY <1>10 DEF DeleteEnd, AtEventLoop, StrongWhileCounted
  <2>6. LiveWhileHeld'
    BY <1>10 DEF DeleteEnd, AtEventLoop, StrongWhileCounted, LiveWhileHeld
  <2>7. QED
    BY <2>1, <2>2, <2>3, <2>4, <2>5, <2>6
<1>11. ASSUME NEW t \in Threads, EmitSlot(t) \/ EndSlot(t)
      PROVE  IInv'
  <2>1. TypeOK'
    <3>1. slot' \in [Threads -> BOOLEAN]
      <4>1. slot \in [Threads -> BOOLEAN]
        OBVIOUS
      <4>2. slot' = [slot EXCEPT ![t] = TRUE] \/ slot' = [slot EXCEPT ![t] = FALSE]
        BY ONLY <1>11 DEF EmitSlot, EndSlot
      <4>3. QED
        BY ONLY <4>1, <4>2
    <3>2. QED
      BY <1>11, <3>1 DEF EmitSlot, EndSlot
  <2>2. CountIsExact'
    BY <1>11 DEF EmitSlot, EndSlot, CountIsExact, Closures, Holding, InvocationShape
  <2>3. MutexHeldByLocker'
    BY <1>11 DEF EmitSlot, EndSlot, MutexHeldByLocker, InvocationShape
  <2>4. InvocationShape'
    BY <1>11 DEF EmitSlot, EndSlot, InvocationShape
  <2>5. StrongWhileCounted'
    BY <1>11 DEF EmitSlot, EndSlot, StrongWhileCounted
  <2>6. LiveWhileHeld'
    BY <1>11 DEF EmitSlot, EndSlot, StrongWhileCounted, LiveWhileHeld
  <2>7. QED
    BY <2>1, <2>2, <2>3, <2>4, <2>5, <2>6
<1>12. CASE UNCHANGED vars
  BY <1>12 DEF vars, CountIsExact, Closures, Holding, MutexHeldByLocker, InvocationShape, StrongWhileCounted, LiveWhileHeld
<1>13. QED
  BY <1>1, <1>2, <1>3, <1>4, <1>5, <1>6, <1>7, <1>8, <1>9, <1>10, <1>11, <1>12 DEF Next, ThreadStep

\* mCountRef counts the uses exactly, on every behaviour and however many calls
\* are made: no unlock too many, no use forgotten.
THEOREM CountSafety == Spec => []CountIsExact
<1>1. Spec => []IInv
  BY InitIInv, NextIInv, PTL DEF Spec
<1>2. IInv => CountIsExact
  BY DEF IInv
<1>3. QED
  BY <1>1, <1>2, PTL

\* Every variable keeps its type.
THEOREM TypeSafety == Spec => []TypeOK
<1>1. Spec => []IInv
  BY InitIInv, NextIInv, PTL DEF Spec
<1>2. IInv => TypeOK
  BY DEF IInv
<1>3. QED
  BY <1>1, <1>2, PTL

\* Neither object is deleted, or even doomed, while a closure that uses it is
\* queued or runs.
THEOREM ClosureSafety == Spec => []ClosureKeepsPairAlive
<1>1. Spec => []IInv
  BY InitIInv, NextIInv, PTL DEF Spec
<1>2. IInv => ClosureKeepsPairAlive
  BY ClosureHolds DEF ClosureKeepsPairAlive
<1>3. QED
  BY <1>1, <1>2, PTL

\* A closure leaves an event queue only by being run.
THEOREM ClosuresAreRun == Spec => NoClosureDropped
<1>1. ASSUME IInv, [Next]_vars
      PROVE  [\A t \in Threads : pending'[t] < pending[t] => running'[t] = running[t] + 1]_vars
  <2> SUFFICES ASSUME NEW t \in Threads, pending'[t] < pending[t]
               PROVE  running'[t] = running[t] + 1
    OBVIOUS
  <2>1. pending[t] \in Nat /\ running[t] \in Nat
    BY <1>1 DEF IInv, TypeOK
  <2>2. CASE \E u \in Threads : RunPending(u)
    BY <1>1, <2>1, <2>2 DEF IInv, TypeOK, RunPending
  <2>3. CASE \E e \in Ends : DeleteEnd(e)
    <3>1. PICK e \in Ends : DeleteEnd(e)
      BY <2>3
    <3>2. pending[e] = 0
      <4>1. state[e] # "live"
        BY <3>1 DEF DeleteEnd
      <4>2. pending[e] \in Nat
        BY <1>1 DEF IInv, TypeOK, Ends
      <4>3. QED
        BY <1>1, <4>1, <4>2, ClosureHolds DEF Ends
    <3>3. QED
      BY <1>1, <2>1, <3>1, <3>2 DEF IInv, TypeOK, DeleteEnd
  <2>4. CASE \E u \in Threads : Post(u)
    BY <1>1, <2>1, <2>4 DEF IInv, TypeOK, Post
  <2>5. CASE UNCHANGED pending
    BY <2>1, <2>5
  <2>6. QED
    BY <1>1, <2>2, <2>3, <2>4, <2>5
       DEF Next, ThreadStep, vars, BeginInvocation, LockEnd, SettleLocked, SettleFailed,
           Disconnect, Unlock, EmitSlot, EndSlot, ReleaseOwner
<1>2. Spec => []IInv
  BY InitIInv, NextIInv, PTL DEF Spec
<1>3. QED
  BY <1>1, <1>2, PTL DEF Spec, NoClosureDropped

-----------------------------------------------------------------------------
(* The refinement of PairLease *)

Leases == Closures + Leasing("core") + Leasing("model")

\* How the leases sit below the counts, and what that says of the ends.
LEMMA LeaseCounts ==
  ASSUME IInv, NEW e \in Ends
  PROVE  /\ Leases \in Nat /\ Closures \in Nat /\ count[e] \in Nat
         /\ \A t \in Threads : Leasing(t) \in {0, 1} /\ Holding(t, e) \in {0, 1}
                              /\ Leasing(t) <= Holding(t, e)
         /\ count[e] >= Leases
         /\ Leases > 0 => state[e] = "live" /\ strong[e]
<1>1. \A t \in Threads : Leasing(t) \in {0, 1} /\ Holding(t, e) \in {0, 1}
                        /\ Leasing(t) <= Holding(t, e)
  BY DEF Leasing, Holding, Ends
<1>2. Closures \in Nat
  BY ClosureHolds
<1>3. count[e] \in Nat /\ count[e] = Closures + Holding("core", e) + Holding("model", e)
  BY DEF IInv, TypeOK, CountIsExact
<1>4. Leases \in Nat /\ count[e] >= Leases
  BY <1>1, <1>2, <1>3 DEF Leases, Threads
<1>5. Leases > 0 => count[e] > 0
  BY <1>3, <1>4
<1>6. QED
  BY <1>1, <1>2, <1>3, <1>4, <1>5 DEF IInv, StrongWhileCounted, LiveWhileHeld

\* The initial states map to the initial states.
LEMMA InitLease == Init => Lease!Init
<1> SUFFICES ASSUME Init
             PROVE  Lease!Init
  OBVIOUS
<1>1. Leasing("core") = 0 /\ Leasing("model") = 0
  BY DEF Init, Leasing, Idle, Ends, Threads
<1>2. Closures = 0
  BY DEF Init, Closures, Threads
<1>3. [e \in Ends |-> state[e] = "live"] = [e \in Ends |-> TRUE]
  BY DEF Init
<1>4. Closures + Leasing("core") + Leasing("model") = 0
  BY <1>1, <1>2
<1>5. Lease!Ends = Ends
  BY DEF Lease!Ends, Ends, Threads
<1>6. QED
  BY <1>3, <1>4, <1>5 DEF Init, Lease!Init

\* Every step maps to a step of the abstract pair or to a stutter.
LEMMA NextLease == IInv /\ IInv' /\ [Next]_vars => [Lease!Next]_(Lease!leaseVars)
<1> SUFFICES ASSUME IInv, IInv', [Next]_vars
             PROVE  [Lease!Next]_(Lease!leaseVars)
  OBVIOUS
<1> DEFINE alive == [e \in Ends |-> state[e] = "live"]
<1>t. /\ \A t \in Threads : pending[t] \in Nat /\ running[t] \in Nat
      /\ \A e \in Ends : count[e] \in Nat /\ owned[e] \in BOOLEAN
      /\ Closures \in Nat /\ Leases \in Nat /\ Leases' \in Nat
  <2>1. Closures \in Nat /\ Leases \in Nat
    BY LeaseCounts DEF Ends, Threads
  <2>2. Leases' \in Nat
    BY DEF IInv, TypeOK, Leases, Closures, Leasing, Threads, Ends
  <2>3. QED
    BY <2>1, <2>2 DEF IInv, TypeOK
<1>s. ASSUME owned' = owned, state' = state, Leases' = Leases
      PROVE  UNCHANGED Lease!leaseVars
  BY <1>s DEF Lease!leaseVars, Leases
<1>d. ASSUME owned' = owned, Leases' = 0,
             \A e \in Ends : state'[e] = state[e] \/ (state[e] = "live" /\ ~owned[e])
      PROVE  Lease!OnlyUnownedDie
  BY <1>d DEF Lease!OnlyUnownedDie, Lease!Ends, Ends, Threads
<1>1. ASSUME NEW t \in Threads, NEW to \in Ends \union {"disconnect"}, BeginInvocation(t, to)
      PROVE  UNCHANGED Lease!leaseVars
  <2>1. Leasing("core")' = Leasing("core") /\ Leasing("model")' = Leasing("model")
    BY <1>1 DEF BeginInvocation, Leasing, IInv, TypeOK, Idle, Ends, Threads
  <2>2. QED
    BY <1>1, <1>s, <2>1 DEF BeginInvocation, Leases, Closures
<1>2. ASSUME NEW t \in Threads, NEW e \in Ends, LockEnd(t, e)
      PROVE  Lease!Next \/ UNCHANGED Lease!leaseVars
  <2>1. /\ owned' = owned /\ state' = state /\ Closures' = Closures
        /\ \A u \in Threads \ {t} : Leasing(u)' = Leasing(u)
    BY <1>2 DEF LockEnd, Closures, Leasing, IInv, TypeOK
  <2>2. CASE e = "core"
    <3>1. Leasing(t) = 0 /\ Leasing(t)' = 0
      BY <1>2, <2>2 DEF LockEnd, Leasing, IInv, TypeOK, InvocationShape, Ends, Threads
    <3>2. QED
      BY <1>s, <2>1, <3>1 DEF Leases, Threads
  <2>3. CASE e = "model"
    <3>1. Leasing(t) = 0
      BY <1>2, <2>3 DEF LockEnd, Leasing, IInv, InvocationShape, Ends, Threads
    <3>2. CASE invocation'[t].got # Ends
      <4>1. Leasing(t)' = 0
        BY <3>2 DEF Leasing
      <4>2. QED
        BY <1>s, <2>1, <3>1, <4>1 DEF Leases, Threads
    <3>3. CASE invocation'[t].got = Ends
      <4>1. Leasing(t)' = 1
        BY <3>3 DEF Leasing
      <4>2. Leases' = Leases + 1
        BY <1>t, <2>1, <3>1, <4>1, LeaseCounts DEF Leases, Threads, Ends
      <4>3. CanLock("model") /\ "core" \in invocation[t].got
        BY <1>2, <2>3, <3>3 DEF LockEnd, IInv, TypeOK, InvocationShape, Ends, Threads
      <4>4. state["model"] = "live"
        BY <4>3 DEF CanLock, IInv, StrongWhileCounted, LiveWhileHeld, Ends, Threads
      <4>5. count["core"] > 0
        <5>1. Holding(t, "core") = 1
          BY <4>3 DEF Holding
        <5>2. QED
          BY <1>t, <5>1, LeaseCounts DEF IInv, CountIsExact, Ends, Threads
      <4>6. state["core"] = "live"
        BY <4>5 DEF IInv, StrongWhileCounted, LiveWhileHeld, Ends, Threads
      <4>7. Lease!Acquire
        BY <2>1, <4>2, <4>4, <4>6 DEF Lease!Acquire, Lease!Ends, Ends, Threads, Leases
      <4>8. QED
        BY <4>7 DEF Lease!Next
    <3>4. QED
      BY <3>2, <3>3
  <2>4. QED
    BY <2>2, <2>3 DEF Ends, Threads
<1>3. ASSUME NEW t \in Threads, SettleLocked(t)
      PROVE  UNCHANGED Lease!leaseVars
  <2>1. Leasing("core")' = Leasing("core") /\ Leasing("model")' = Leasing("model")
    BY <1>3 DEF SettleLocked, Leasing, IInv, TypeOK, Ends, Threads
  <2>2. QED
    BY <1>3, <1>s, <2>1 DEF SettleLocked, Leases, Closures
<1>4. ASSUME NEW t \in Threads, SettleFailed(t)
      PROVE  Lease!Next \/ UNCHANGED Lease!leaseVars
  <2>1. /\ owned' = owned /\ Closures' = Closures
        /\ \A u \in Threads \ {t} : Leasing(u)' = Leasing(u)
    BY <1>4 DEF SettleFailed, Closures, Leasing, IInv, TypeOK
  <2>2. Leasing(t) = 0 /\ Leasing(t)' = 0
    BY <1>4 DEF SettleFailed, Leasing, IInv, TypeOK, Idle, Ends, Threads
  <2>3. Leases' = Leases
    BY <2>1, <2>2 DEF Leases, Threads
  <2>4. CASE state' = state
    BY <1>s, <2>1, <2>3, <2>4
  <2>5. CASE state' # state
    <3>1. PICK e \in Ends : e \in invocation[t].got /\ count[e] = 1
      BY <1>4, <2>5 DEF SettleFailed, UnlockEnds, IInv, TypeOK
    <3>2. Holding(t, e) = 1
      BY <3>1 DEF Holding
    <3>3. Leases = 0
      BY <1>t, <2>2, <3>1, <3>2, LeaseCounts DEF IInv, CountIsExact, Leases, Threads
    <3>4. \A i \in Ends : state'[i] = state[i] \/ (state[i] = "live" /\ ~owned[i])
      BY <1>4 DEF SettleFailed, UnlockEnds, IInv, TypeOK, StrongWhileCounted, LiveWhileHeld
    <3>5. Lease!Die
      BY <1>d, <2>1, <2>3, <3>3, <3>4 DEF Lease!Die, Leases
    <3>6. QED
      BY <3>5 DEF Lease!Next
  <2>6. QED
    BY <2>4, <2>5
<1>5. ASSUME NEW t \in Threads, Post(t) \/ Disconnect(t)
      PROVE  UNCHANGED Lease!leaseVars
  <2>1. Leasing(t) = 1 /\ Leasing(t)' = 0
    BY <1>5 DEF Post, Disconnect, Leasing, IInv, TypeOK, InvocationShape, Idle, Ends, Threads
  <2>2. \A u \in Threads \ {t} : Leasing(u)' = Leasing(u)
    BY <1>5 DEF Post, Disconnect, Leasing, IInv, TypeOK
  <2>3. Closures' = Closures + 1
    BY <1>5, <1>t DEF Post, Disconnect, Closures, IInv, TypeOK, InvocationShape, Threads, Ends
  <2>4. Leases' = Leases
    BY <1>t, <2>1, <2>2, <2>3, LeaseCounts DEF Leases, Threads, Ends
  <2>5. QED
    BY <1>5, <1>s, <2>4 DEF Post, Disconnect
<1>6. ASSUME NEW t \in Threads, RunPending(t)
      PROVE  UNCHANGED Lease!leaseVars
  <2>1. Closures' = Closures
    BY <1>6, <1>t DEF RunPending, Closures, IInv, TypeOK, Threads
  <2>2. QED
    BY <1>6, <1>s, <2>1 DEF RunPending, Leases, Leasing
<1>7. ASSUME NEW t \in Threads, Unlock(t)
      PROVE  Lease!GiveBack
  <2>1. owned' = owned /\ \A u \in Threads : Leasing(u)' = Leasing(u)
    BY <1>7 DEF Unlock, Leasing
  <2>2. Closures > 0 /\ Closures' = Closures - 1
    BY <1>7, <1>t DEF Unlock, Closures, IInv, TypeOK, Threads
  <2>3. Leases > 0 /\ Leases' = Leases - 1
    BY <1>t, <2>1, <2>2, LeaseCounts DEF Leases, Threads, Ends
  <2>4. CASE Leases' = 0
    <3>1. \A i \in Ends : state'[i] = state[i] \/ (state[i] = "live" /\ ~owned[i])
      BY <1>7 DEF Unlock, UnlockEnds, IInv, TypeOK, StrongWhileCounted, LiveWhileHeld
    <3>2. Lease!OnlyUnownedDie
      BY <1>d, <2>1, <2>4, <3>1
    <3>3. QED
      BY <2>1, <2>3, <2>4, <3>2 DEF Lease!GiveBack, Leases
  <2>5. CASE Leases' # 0
    <3>1. \A i \in Ends : count[i] > 1
      BY <1>t, <2>3, <2>5, LeaseCounts
    <3>2. state' = state
      BY <1>7, <3>1 DEF Unlock, UnlockEnds, IInv, TypeOK
    <3>3. QED
      BY <2>1, <2>3, <2>5, <3>2 DEF Lease!GiveBack, Leases
  <2>6. QED
    BY <2>4, <2>5
<1>8. ASSUME NEW e \in Ends, ReleaseOwner(e)
      PROVE  Lease!Disown(e)
  <2>1. Leases' = Leases /\ owned[e] /\ owned' = [owned EXCEPT ![e] = FALSE]
    BY <1>8 DEF ReleaseOwner, Leases, Closures, Leasing
  <2>2. \A i \in Ends : state'[i] # state[i] => i = e /\ ~strong[e] /\ state[e] = "live"
    BY <1>8 DEF ReleaseOwner, IInv, TypeOK, LiveWhileHeld
  <2>3. CASE Leases = 0
    <3>1. Lease!OnlyUnownedDie
      BY <1>8, <2>1, <2>2 DEF Lease!OnlyUnownedDie, Lease!Ends, Ends, Threads, IInv, TypeOK, ReleaseOwner
    <3>2. QED
      BY <2>1, <2>3, <3>1 DEF Lease!Disown, Leases
  <2>4. CASE Leases # 0
    <3>1. strong[e]
      BY <1>t, <2>4, LeaseCounts
    <3>2. state' = state
      BY <1>8, <3>1 DEF ReleaseOwner, IInv, TypeOK
    <3>3. QED
      BY <2>1, <2>4, <3>2 DEF Lease!Disown, Leases
  <2>5. QED
    BY <2>3, <2>4
<1>9. ASSUME NEW e \in Ends, DeleteEnd(e)
      PROVE  UNCHANGED Lease!leaseVars
  <2>1. state[e] # "live" /\ pending[e] = 0
    <3>1. state[e] # "live"
      BY <1>9 DEF DeleteEnd
    <3>2. QED
      BY <1>t, <3>1, ClosureHolds DEF Ends
  <2>2. owned' = owned /\ Leases' = Leases
    BY <1>9, <2>1 DEF DeleteEnd, Leases, Closures, Leasing, IInv, TypeOK, Threads, Ends
  <2>3. [i \in Ends |-> state'[i] = "live"] = [i \in Ends |-> state[i] = "live"]
    BY <1>9, <2>1 DEF DeleteEnd, IInv, TypeOK
  <2>4. QED
    BY <2>2, <2>3 DEF Lease!leaseVars, Leases
<1>10. ASSUME NEW t \in Threads, EmitSlot(t) \/ EndSlot(t)
      PROVE  UNCHANGED Lease!leaseVars
  BY <1>10, <1>s DEF EmitSlot, EndSlot, Leases, Closures, Leasing
<1>11. CASE UNCHANGED vars
  BY <1>11, <1>s DEF vars, Leases, Closures, Leasing
<1>12. QED
  BY <1>1, <1>2, <1>3, <1>4, <1>5, <1>6, <1>7, <1>8, <1>9, <1>10, <1>11
     DEF Next, ThreadStep, Lease!Next, Lease!Ends, Ends, Threads

\* The weak pointers, counts and mutex implement the lease on the pair.
THEOREM Refinement == Spec => ImplementsLease
<1>1. Spec => []IInv
  BY InitIInv, NextIInv, PTL DEF Spec
<1>2. QED
  BY <1>1, InitLease, NextLease, PTL DEF Spec, ImplementsLease, Lease!Spec
=============================================================================
