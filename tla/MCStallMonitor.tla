--------------------------- MODULE MCStallMonitor ---------------------------
(* The stall monitor with its intervals shrunk, on a build that shows stores in their order. *)
EXTENDS StallMonitor
=============================================================================
