--------------------------- MODULE MCWorkflowRun ---------------------------
(***************************************************************************)
(* Small instances of WorkflowRun for TLC.                                 *)
(***************************************************************************)
EXTENDS WorkflowRun

CONSTANTS c1, c2

=============================================================================
