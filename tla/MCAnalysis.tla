------------------------------ MODULE MCAnalysis ------------------------------
(* Analysis with two workers and few versions. *)
EXTENDS Analysis, TLC

==============================================================================
