--------------------------- MODULE SafeConnection ---------------------------
(***************************************************************************)
(* tool/thread/SafeConnection.hpp and SafeSharedPointer.hpp: how a Core    *)
(* object on the GUI thread and a Model object on the linphone thread run  *)
(* code on each other without either being deleted under the other.        *)
(*                                                                         *)
(* Each end is watched through a weak pointer.  invokeToModel and          *)
(* invokeToCore first turn both weak pointers into strong ones (tryLock),  *)
(* counting the uses, then hand a closure to the event loop of the target  *)
(* thread; the closure runs and unlocks.  Between the steps of one thread  *)
(* the other one runs, owners drop their references, and an object whose   *)
(* last strong reference is gone (every one of them has deleteLater as its *)
(* deleter) is deleted by the event loop of its own thread.                *)
(***************************************************************************)
EXTENDS Integers

CONSTANT
  MaxInvocations   \* bound: calls of invokeToModel, invokeToCore and disconnect

ASSUME MaxInvocationsIsNat == MaxInvocations \in Nat

VARIABLES
  owned,       \* owned[e]: a strong reference to end e exists outside the connection
  state,       \* "live", "doomed" (deleteLater is posted) or "deleted"
  count,       \* SafeSharedPointer::mCountRef of each end
  strong,      \* strong[e]: mQData or mStdData of e is set
  locker,      \* the thread that holds mLocker, or "none"
  invocation,  \* invocation[t]: how far thread t is in an invokeTo... or disconnect call
  pending,     \* pending[t]: closures posted to the event loop of t and not started
  running,     \* running[t]: closures of the connection on the call stack of t
  slot,        \* slot[t]: t runs a DirectConnection slot of the other thread's object
  connected,   \* the signals of the pair are connected
  issued       \* calls made so far

vars == <<owned, state, count, strong, locker, invocation, pending, running,
          slot, connected, issued>>

\* An end is named as the thread it lives on.
Threads == {"core", "model"}
Ends    == Threads

Idle == [pc |-> "idle", to |-> "none", got |-> {}]

TypeOK ==
  /\ owned  \in [Ends -> BOOLEAN]
  /\ state  \in [Ends -> {"live", "doomed", "deleted"}]
  /\ count  \in [Ends -> Nat]
  /\ strong \in [Ends -> BOOLEAN]
  /\ locker \in Threads \union {"none"}
  /\ invocation \in [Threads -> [pc  : {"idle", "core", "model", "settle", "post"},
                                 to  : {"core", "model", "disconnect", "none"},
                                 got : SUBSET Ends]]
  /\ pending \in [Threads -> Nat]
  /\ running \in [Threads -> Nat]
  /\ slot \in [Threads -> BOOLEAN]
  /\ connected \in BOOLEAN
  /\ issued \in Nat

Init ==
  /\ owned  = [e \in Ends |-> TRUE]
  /\ state  = [e \in Ends |-> "live"]
  /\ count  = [e \in Ends |-> 0]
  /\ strong = [e \in Ends |-> FALSE]
  /\ locker = "none"
  /\ invocation = [t \in Threads |-> Idle]
  /\ pending = [t \in Threads |-> 0]
  /\ running = [t \in Threads |-> 0]
  /\ slot = [t \in Threads |-> FALSE]
  /\ connected = TRUE
  /\ issued = 0

-----------------------------------------------------------------------------
\* SafeSharedPointer::lock: counts one more use; the first use turns the weak
\* pointer into a strong one and fails when the object is gone.
CanLock(e) == count[e] > 0 \/ state[e] = "live"

\* Mutant: every unlock drops the strong pointer, not only the last one.
UnlockEndsEveryTime(S) ==
  /\ count'  = [e \in Ends |-> IF e \in S /\ count[e] > 0 THEN count[e] - 1 ELSE count[e]]
  /\ strong' = [e \in Ends |-> IF e \in S THEN FALSE ELSE strong[e]]
  /\ state'  = [e \in Ends |-> IF e \in S /\ ~owned[e] THEN "doomed" ELSE state[e]]

\* Mutant: the last unlock keeps the strong pointer.
UnlockEndsKeeping(S) ==
  /\ count' = [e \in Ends |-> IF e \in S /\ count[e] > 0 THEN count[e] - 1 ELSE count[e]]
  /\ UNCHANGED <<strong, state>>

\* SafeSharedPointer::unlock of the ends in S: the last use drops the strong
\* pointer, and with it the object if nobody else owns it.
UnlockEnds(S) ==
  LET last == {e \in S : count[e] = 1}
  IN  /\ count'  = [e \in Ends |-> IF e \in S /\ count[e] > 0 THEN count[e] - 1 ELSE count[e]]
      /\ strong' = [e \in Ends |-> IF e \in last THEN FALSE ELSE strong[e]]
      /\ state'  = [e \in Ends |-> IF e \in last /\ ~owned[e] THEN "doomed" ELSE state[e]]

\* A thread calls invokeToModel, invokeToCore or disconnect and gets mLocker.
\* The connection is a member of the core object.
BeginInvocation(t, to) ==
  /\ invocation[t] = Idle
  /\ locker = "none"
  /\ state["core"] # "deleted"
  /\ issued < MaxInvocations
  /\ locker' = t
  /\ invocation' = [invocation EXCEPT ![t] = [pc |-> "core", to |-> to, got |-> {}]]
  /\ issued' = issued + 1
  /\ UNCHANGED <<owned, state, count, strong, pending, running, slot, connected>>

\* tryLock: mCore.lock(), then mModel.lock().
LockEnd(t, e) ==
  /\ invocation[t].pc = e
  /\ invocation' = [invocation EXCEPT ![t] =
       [pc  |-> IF e = "core" THEN "model" ELSE "settle",
        to  |-> invocation[t].to,
        got |-> IF CanLock(e) THEN invocation[t].got \union {e} ELSE invocation[t].got]]
  /\ IF CanLock(e)
     THEN /\ count'  = [count EXCEPT ![e] = @ + 1]
          /\ strong' = [strong EXCEPT ![e] = TRUE]
     ELSE UNCHANGED <<count, strong>>
  /\ UNCHANGED <<owned, state, locker, pending, running, slot, connected, issued>>

\* Mutant: one end is enough.
SettleLockedEither(t) ==
  /\ invocation[t].pc = "settle"
  /\ invocation[t].got # {}
  /\ locker' = "none"
  /\ invocation' = [invocation EXCEPT ![t] =
       [pc |-> "post", to |-> invocation[t].to, got |-> invocation[t].got]]
  /\ UNCHANGED <<owned, state, count, strong, pending, running, slot, connected, issued>>

\* tryLock: both ends are held.
SettleLocked(t) ==
  /\ invocation[t].pc = "settle"
  /\ invocation[t].got = Ends
  /\ locker' = "none"
  /\ invocation' = [invocation EXCEPT ![t] =
       [pc |-> "post", to |-> invocation[t].to, got |-> invocation[t].got]]
  /\ UNCHANGED <<owned, state, count, strong, pending, running, slot, connected, issued>>

\* Mutant: the end that was locked is not given back.
SettleFailedNoUndo(t) ==
  /\ invocation[t].pc = "settle"
  /\ invocation[t].got # Ends
  /\ locker' = "none"
  /\ invocation' = [invocation EXCEPT ![t] = Idle]
  /\ UNCHANGED <<owned, state, count, strong, pending, running, slot, connected, issued>>

\* tryLock: one of them is gone; the other one is given back and the call dropped.
SettleFailed(t) ==
  /\ invocation[t].pc = "settle"
  /\ invocation[t].got # Ends
  /\ locker' = "none"
  /\ UnlockEnds(invocation[t].got)
  /\ invocation' = [invocation EXCEPT ![t] = Idle]
  /\ UNCHANGED <<owned, pending, running, slot, connected, issued>>

\* QMetaObject::invokeMethod: queued on another thread, called directly on the
\* same one.
Post(t) ==
  /\ invocation[t].pc = "post"
  /\ invocation[t].to # "disconnect"
  /\ IF invocation[t].to = t
     THEN running' = [running EXCEPT ![t] = @ + 1] /\ UNCHANGED pending
     ELSE pending' = [pending EXCEPT ![invocation[t].to] = @ + 1] /\ UNCHANGED running
  /\ invocation' = [invocation EXCEPT ![t] = Idle]
  /\ UNCHANGED <<owned, state, count, strong, locker, slot, connected, issued>>

\* SafeConnection::disconnect works under the same lock; its unlock is the end
\* of a frame of its thread, as that of a closure is.
Disconnect(t) ==
  /\ invocation[t].pc = "post"
  /\ invocation[t].to = "disconnect"
  /\ connected' = FALSE
  /\ running' = [running EXCEPT ![t] = @ + 1]
  /\ invocation' = [invocation EXCEPT ![t] = Idle]
  /\ UNCHANGED <<owned, state, count, strong, locker, pending, slot, issued>>

AtEventLoop(t) == running[t] = 0 /\ ~slot[t] /\ invocation[t] = Idle

\* The event loop of t takes the next closure.
RunPending(t) ==
  /\ AtEventLoop(t)
  /\ pending[t] > 0
  /\ pending' = [pending EXCEPT ![t] = @ - 1]
  /\ running' = [running EXCEPT ![t] = @ + 1]
  /\ UNCHANGED <<owned, state, count, strong, locker, invocation, slot, connected, issued>>

\* Mutant: an unlock that belongs to no running closure.
UnlockUnbalanced(t) ==
  /\ invocation[t] = Idle
  /\ locker = "none"
  /\ UnlockEnds(Ends)
  /\ running' = [running EXCEPT ![t] = @ - 1]
  /\ UNCHANGED <<owned, locker, invocation, pending, slot, connected, issued>>

\* SafeConnection::unlock, the last thing a closure does.
Unlock(t) ==
  /\ running[t] > 0
  /\ invocation[t] = Idle
  /\ locker = "none"
  /\ UnlockEnds(Ends)
  /\ running' = [running EXCEPT ![t] = @ - 1]
  /\ UNCHANGED <<owned, locker, invocation, pending, slot, connected, issued>>

-----------------------------------------------------------------------------
\* The owner of an end lets it go: a list drops its item, QML collects a Gui
\* object, the SDK ends a call.  It needs none of the connection's locks.
ReleaseOwner(e) ==
  /\ owned[e]
  /\ owned' = [owned EXCEPT ![e] = FALSE]
  /\ state' = [state EXCEPT ![e] = IF strong[e] THEN @ ELSE "doomed"]
  /\ UNCHANGED <<count, strong, locker, invocation, pending, running, slot, connected, issued>>

\* deleteLater: the event loop of its thread deletes the object, which takes
\* its queued closures and its connections with it.
DeleteEnd(e) ==
  /\ state[e] = "doomed"
  /\ AtEventLoop(e)
  /\ state' = [state EXCEPT ![e] = "deleted"]
  /\ pending' = [pending EXCEPT ![e] = 0]
  /\ connected' = FALSE
  /\ UNCHANGED <<owned, count, strong, locker, invocation, running, slot, issued>>

\* makeConnectToModel and makeConnectToCore: the object of thread t emits a
\* signal and, the connection being direct, the slot of the other object runs
\* on t.
EmitSlot(t) ==
  /\ AtEventLoop(t)
  /\ connected
  /\ state[t] # "deleted"
  /\ slot' = [slot EXCEPT ![t] = TRUE]
  /\ UNCHANGED <<owned, state, count, strong, locker, invocation, pending, running,
                 connected, issued>>

EndSlot(t) ==
  /\ slot[t]
  /\ running[t] = 0
  /\ invocation[t] = Idle
  /\ slot' = [slot EXCEPT ![t] = FALSE]
  /\ UNCHANGED <<owned, state, count, strong, locker, invocation, pending, running,
                 connected, issued>>

ThreadStep(t) ==
  \/ \E e \in Ends : LockEnd(t, e)
  \/ SettleLocked(t)
  \/ SettleFailed(t)
  \/ Post(t)
  \/ Disconnect(t)
  \/ RunPending(t)
  \/ Unlock(t)
  \/ EndSlot(t)

Next ==
  \/ \E t \in Threads, to \in Ends \union {"disconnect"} : BeginInvocation(t, to)
  \/ \E t \in Threads : ThreadStep(t)
  \/ \E t \in Threads : EmitSlot(t)
  \/ \E e \in Ends : ReleaseOwner(e)
  \/ \E e \in Ends : DeleteEnd(e)

Spec == Init /\ [][Next]_vars

\* A thread that is inside a call goes on, and both event loops keep running:
\* neither is asked to start calls or emit signals, nor an owner to let go.
\* A thread that starts a slot after each of the others may not starve its own
\* event loop, hence strong fairness for what runs only there.
Fairness ==
  /\ \A t \in Threads : WF_vars(\E e \in Ends : LockEnd(t, e))
  /\ \A t \in Threads : WF_vars(SettleLocked(t) \/ SettleFailed(t) \/ Post(t) \/ Disconnect(t) \/ EndSlot(t))
  /\ \A t \in Threads : SF_vars(Unlock(t)) /\ SF_vars(RunPending(t))
  /\ \A e \in Ends : SF_vars(DeleteEnd(e))

FairSpec == Spec /\ Fairness

-----------------------------------------------------------------------------
(* Properties *)

\* The holds on end e that are in progress: closures not yet unlocked, and
\* invocations between their tryLock and their post.
Holding(t, e) == IF e \in invocation[t].got THEN 1 ELSE 0
Closures == pending["core"] + pending["model"] + running["core"] + running["model"]

\* mCountRef counts exactly the closures queued or running and the calls that
\* hold the end on their way to a post: no unlock finds it at zero, and no use
\* is forgotten (SafeSharedPointer.hpp "too much unlocking"; the "still in
\* memory" logs of ~SafeConnection).
CountIsExact ==
  \A e \in Ends : count[e] = Closures + Holding("core", e) + Holding("model", e)

\* While a closure of the connection is queued or runs, on either thread, both
\* objects exist, whoever let go of them in the meantime: a closure may use
\* mCore.get(), mModel.get() and its captured "this".
ClosureKeepsPairAlive ==
  Closures > 0 => \A e \in Ends : state[e] = "live"

\* The strengthening that makes the counts inductive.  mLocker is held by the
\* one thread inside tryLock; a thread holds the ends it has passed so far; the
\* strong pointer is set while the count is not zero; and an object is live
\* while its owner or the connection holds it.
MutexHeldByLocker ==
  \A t \in Threads :
    locker = t <=> invocation[t].pc \in {"core", "model", "settle"}

InvocationShape ==
  \A t \in Threads :
    /\ invocation[t].pc = "idle"  => invocation[t] = Idle
    /\ invocation[t].pc = "core"  => invocation[t].got = {}
    /\ invocation[t].pc = "model" => "model" \notin invocation[t].got
    /\ invocation[t].pc = "post"  => invocation[t].got = Ends /\ invocation[t].to # "none"
    /\ invocation[t].pc # "idle"  => invocation[t].to # "none"

StrongWhileCounted ==
  \A e \in Ends : strong[e] <=> count[e] > 0

LiveWhileHeld ==
  \A e \in Ends : state[e] = "live" <=> owned[e] \/ strong[e]

IInv ==
  /\ TypeOK
  /\ CountIsExact
  /\ MutexHeldByLocker
  /\ InvocationShape
  /\ StrongWhileCounted
  /\ LiveWhileHeld

\* A closure that was posted is run, never dropped with the object it was
\* posted to: deleting an end finds none of them in its event queue.
NoClosureDropped ==
  [][\A t \in Threads : pending'[t] < pending[t] => running'[t] = running[t] + 1]_vars

\* An object that its owners let go is deleted in the end: the connection's
\* counts never keep it for good, whatever the order of failed locks, closures
\* and releases (~SafeConnection logs the objects that are "still in memory").
ReleasedIsDeleted ==
  \A e \in Ends : ~owned[e] ~> state[e] = "deleted"

\* The abstract pair: a lease is a closure, or a call that holds both ends.
Leasing(t) ==
  IF invocation[t].got = Ends THEN 1 ELSE 0
Lease == INSTANCE PairLease WITH
  alive  <- [e \in Ends |-> state[e] = "live"],
  leases <- Closures + Leasing("core") + Leasing("model")

\* The weak pointers, counts and mutex implement the lease.
ImplementsLease == Lease!Spec
=============================================================================
