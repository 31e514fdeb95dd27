--------------------------- MODULE AnalysisPromise ---------------------------
(***************************************************************************)
(* What readers may rely on of a target's analyses, with no workers in      *)
(* sight: data versions only grow, a version has at most one run, made when *)
(* the version came or later, never before, and a run ends once.            *)
(***************************************************************************)
EXTENDS Naturals

CONSTANTS MaxVersion, SummaryWrite

VARIABLES
    version,  \* the data version of the target
    ended,    \* how the target's latest terminal parent job ended
    outcome   \* for each version, what came of its run

pvars == <<version, ended, outcome>>

Version == 0..MaxVersion
Outcome == {"none", "open", "completed", "failed"}

PromiseInit ==
    /\ version = 0
    /\ ended = "none"
    /\ outcome = [v \in Version |-> "none"]

\* A job of the target, or of one that shares a video with it, comes to its end.
End(own, how) ==
    /\ version < MaxVersion
    /\ version' = version + 1
    /\ ended' = IF own THEN how ELSE ended
    /\ outcome' = IF SummaryWrite /\ how = "completed"
                  THEN [outcome EXCEPT ![version + 1] = "open"] ELSE outcome

\* The current version gets the run it has not.
Order ==
    /\ outcome[version] = "none"
    /\ outcome' = [outcome EXCEPT ![version] = "open"]
    /\ UNCHANGED <<version, ended>>

Settle(v, s) ==
    /\ outcome[v] = "open"
    /\ outcome' = [outcome EXCEPT ![v] = s]
    /\ UNCHANGED <<version, ended>>

PromiseNext ==
    \/ \E own \in BOOLEAN, how \in {"completed", "failed"} : End(own, how)
    \/ Order
    \/ \E v \in Version, s \in {"completed", "failed"} : Settle(v, s)

PromiseSpec == PromiseInit /\ [][PromiseNext]_pvars

==============================================================================
