------------------------------ MODULE FreshReads ------------------------------
(***************************************************************************)
(* What the readers of a target are promised, with no cache in sight: an    *)
(* answer shows a data version no older than the one that was current when  *)
(* the request began.  A request may be given up.                           *)
(***************************************************************************)
EXTENDS Integers

CONSTANT Readers

VARIABLES
    version,  \* the data version of the target
    since,    \* for each reader that waits, the version when its request began
    shown     \* for each reader, the version of the answer, or -1 before there is one

Init ==
    /\ version = 0
    /\ since = [r \in Readers |-> 0]
    /\ shown = [r \in Readers |-> -1]

Publish == version' = version + 1 /\ UNCHANGED <<since, shown>>

Ask(r) ==
    /\ since' = [since EXCEPT ![r] = version]
    /\ shown' = [shown EXCEPT ![r] = -1]
    /\ UNCHANGED version

Answer(r) ==
    /\ shown[r] = -1
    /\ \E v \in since[r]..version : shown' = [shown EXCEPT ![r] = v]
    /\ since' = [since EXCEPT ![r] = 0]
    /\ UNCHANGED version

GiveUp(r) == since' = [since EXCEPT ![r] = 0] /\ UNCHANGED <<version, shown>>

Next == Publish \/ \E r \in Readers : Ask(r) \/ Answer(r) \/ GiveUp(r)

Spec == Init /\ [][Next]_<<version, since, shown>>

==============================================================================
