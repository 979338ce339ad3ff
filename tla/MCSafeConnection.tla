-------------------------- MODULE MCSafeConnection --------------------------
(* Model checking of SafeConnection: a handful of calls from both threads. *)
EXTENDS SafeConnection
=============================================================================
