------------------------------- MODULE MCPages -------------------------------
(* Pages of one row, of three rows. *)
EXTENDS Pages, TLC

==============================================================================
