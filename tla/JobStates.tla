------------------------------ MODULE JobStates ------------------------------
(***************************************************************************)
(* The states a sync_jobs row can be in and the moves transition_job lets   *)
(* a caller make between them.                                              *)
(***************************************************************************)

Waiting == {"waiting_retry", "waiting_quota"}

Terminal == {"completed", "completed_with_warnings", "failed", "cancelled"}

JobState == {"queued", "running"} \union Waiting \union Terminal

\* The states a caller may move a job to from state s.
Allowed(s) ==
    CASE s = "queued"    -> {"running", "cancelled"} \union Waiting
      [] s = "running"   -> Waiting \union Terminal
      [] s \in Waiting   -> {"queued", "running", "cancelled", "failed"}
      [] s = "failed"    -> {"queued", "cancelled"}
      [] s = "cancelled" -> {"queued"}
      [] OTHER           -> {}

\* Mutation: the check dropped.
MoveUnchecked(from, to) == TRUE

\* transition_job's check: rewriting the same state is always accepted.
CanMove(from, to) == to = from \/ to \in Allowed(from)

==============================================================================
