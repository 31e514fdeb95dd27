------------------------------ MODULE MCOverview ------------------------------
(* Overview with two requests at a time and few versions. *)
EXTENDS Overview, TLC

==============================================================================
