--------------------------- MODULE MCWorkflowList ---------------------------
(* A small instance of WorkflowList, and so of WorkflowBuilder, for TLC. *)
EXTENDS WorkflowList, TLC
=============================================================================
