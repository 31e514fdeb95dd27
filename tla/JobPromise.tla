------------------------------ MODULE JobPromise ------------------------------
(***************************************************************************)
(* What the collection service promises about a job, without workers,       *)
(* leases or checkpoints: the data of its video only grows; a job is open   *)
(* until it is closed once, with an outcome that never changes; closing     *)
(* publishes one new data version; and "completed" is only said of a job    *)
(* whose data is all there or whose video does not exist.                   *)
(***************************************************************************)
EXTENDS Naturals

CONSTANTS Job, Piece, Outcome

VARIABLES status, data, gone, version

vars == <<status, data, gone, version>>

Init ==
    /\ status = [j \in Job |-> "open"]
    /\ data = [j \in Job |-> {}]
    /\ gone = {}
    /\ version = [j \in Job |-> 0]

\* Pieces arrive; a worker that lost its job may still be storing after it closed.
Gather(j, new) ==
    /\ data' = [data EXCEPT ![j] = @ \union new]
    /\ UNCHANGED <<status, gone, version>>

LearnGone(j) ==
    /\ gone' = gone \union {j}
    /\ UNCHANGED <<status, data, version>>

Close(j, outcome) ==
    /\ status[j] = "open"
    /\ outcome = "completed" => data[j] = Piece \/ j \in gone
    /\ status' = [status EXCEPT ![j] = outcome]
    /\ version' = [version EXCEPT ![j] = @ + 1]
    /\ UNCHANGED <<data, gone>>

Next == \E j \in Job :
    \/ \E new \in SUBSET Piece : Gather(j, new)
    \/ LearnGone(j)
    \/ \E outcome \in Outcome : Close(j, outcome)

Spec == Init /\ [][Next]_vars

==============================================================================
