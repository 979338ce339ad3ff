----------------------------- MODULE PairLease -----------------------------
(***************************************************************************)
(* What SafeConnection promises the code that uses it, without threads,    *)
(* mutexes or reference counts.                                            *)
(*                                                                         *)
(* A connection pairs two objects, one per thread ("core" lives on the GUI *)
(* thread, "model" on the linphone thread).  Whoever wants to run code on  *)
(* either of them takes a lease on the pair; a lease is granted only while *)
(* both are alive, and neither can die before every lease is given back.   *)
(***************************************************************************)
EXTENDS Integers

VARIABLES
  owned,    \* owned[e]: somebody outside the connection holds a strong reference
  alive,    \* alive[e]: the object has not lost its last strong reference
  leases    \* how many leases on the pair are out

leaseVars == <<owned, alive, leases>>

Ends == {"core", "model"}

LeaseTypeOK ==
  /\ owned  \in [Ends -> BOOLEAN]
  /\ alive  \in [Ends -> BOOLEAN]
  /\ leases \in Nat

Init ==
  /\ owned  = [e \in Ends |-> TRUE]
  /\ alive  = [e \in Ends |-> TRUE]
  /\ leases = 0

\* Nothing dies in this step, except ends that nobody owns any more.
OnlyUnownedDie ==
  /\ alive' \in [Ends -> BOOLEAN]
  /\ \A e \in Ends : alive'[e] # alive[e] => alive[e] /\ ~owned'[e]

Acquire ==
  /\ \A e \in Ends : alive[e]
  /\ leases' = leases + 1
  /\ UNCHANGED <<owned, alive>>

GiveBack ==
  /\ leases > 0
  /\ leases' = leases - 1
  /\ UNCHANGED owned
  /\ IF leases' = 0 THEN OnlyUnownedDie ELSE UNCHANGED alive

Disown(e) ==
  /\ owned[e]
  /\ owned' = [owned EXCEPT ![e] = FALSE]
  /\ UNCHANGED leases
  /\ IF leases = 0 THEN OnlyUnownedDie ELSE UNCHANGED alive

Die ==
  /\ leases = 0
  /\ UNCHANGED <<owned, leases>>
  /\ OnlyUnownedDie

Next ==
  \/ Acquire
  \/ GiveBack
  \/ \E e \in Ends : Disown(e)
  \/ Die

Spec == Init /\ [][Next]_leaseVars

-----------------------------------------------------------------------------
\* An object is alive for as long as it is leased or owned: the promise the
\* callers of invokeToModel and invokeToCore rely on (SafeConnection.hpp:30-31).
LeaseKeepsAlive ==
  \A e \in Ends : leases > 0 \/ owned[e] => alive[e]
=============================================================================
