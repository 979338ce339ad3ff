------------------------------ MODULE MCCalls ------------------------------
(* A few calls at once. *)
EXTENDS Calls
=============================================================================
