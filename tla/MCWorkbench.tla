----------------------------- MODULE MCWorkbench -----------------------------
(* Workbench with few jobs and data versions. *)
EXTENDS Workbench, TLC

==============================================================================
