--------------------------- MODULE MCTestPrograms ---------------------------
(* The test programs among the runs of the PC program, on the same instance. *)
EXTENDS MCProgrammer, TestPrograms
=============================================================================
