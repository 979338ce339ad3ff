------------------------------ MODULE Picking ------------------------------
(* Sorting and filtering without recursion, as functions that a proof can look into: what
   SetToSortSeq and SelectSeq give for numbers and for the entries of a sequence. *)
EXTENDS Integers, Sequences, FiniteSets

\* The numbers of a finite set, the least first: before the i-th there are i - 1.
Ascending(S) ==
  [i \in 1 .. Cardinality(S) |-> CHOOSE s \in S : Cardinality({r \in S : r < s}) = i - 1]

\* The entries of a sequence at the indices S, in their order.
Entries(q, S) == [i \in 1 .. Cardinality(S) |-> q[Ascending(S)[i]]]

=============================================================================
