------------------------------- MODULE MCRollup -------------------------------
(* Rollup with few videos, comments and collectors. *)
EXTENDS Rollup, TLC

==============================================================================
