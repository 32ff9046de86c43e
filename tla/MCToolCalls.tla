----------------------------- MODULE MCToolCalls -----------------------------
(* Small instances of ToolCalls for TLC. *)
EXTENDS ToolCalls

CONSTANTS c1, c2, t1, t2, t3

AllFaults == FaultKinds
==============================================================================
