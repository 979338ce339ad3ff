---------------------------- MODULE MCLimitProxy ----------------------------
(* A list of up to five rows under four searches. *)
EXTENDS LimitProxy

FiveRows == 1 .. 5
Searches == {1 .. 5, {2, 4, 5}, {3}, {1, 2, 5}}
SomeInitials == {0, 1, 3}
SomeLimits == {-1, 2, 4}
NoInitials == {}
NoLimits == {-1}
=============================================================================
