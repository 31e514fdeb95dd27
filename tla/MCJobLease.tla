----------------------------- MODULE MCJobLease -----------------------------
(* JobLease on small sets of workers and jobs. *)
EXTENDS JobLease, TLC

Symmetry == Permutations(Worker)

==============================================================================
