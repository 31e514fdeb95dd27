------------------------ MODULE ChannelFanout_proofs ------------------------
(***************************************************************************)
(* Proofs about ChannelFanout for channels, pages and limits of any size    *)
(* and any number of workers, parents and failures.                         *)
(***************************************************************************)
EXTENDS ChannelFanout, FiniteSetTheorems, TLAPS

------------------------------------------------------------------------------
(* The invariant of the fan-out. *)

Discovering == walk.pc \in {"resolve", "count", "page", "enqueue", "mark"}
Finishing == walk.pc = "complete" \/ parent.state = "completed"

\* The worker is at the running parent, and discovers only until the mark is set.
\* The row of before the first parent is not marked and did not complete.
ControlOK ==
    /\ walk.pc # "away" => parent.state = "running"
    /\ parents = 0 => parent.state = "failed" /\ ~parent.marked
    /\ Discovering => ~parent.marked
    /\ walk.pc \in {"summary", "complete"} \/ parent.state = "completed" => parent.marked
    /\ walk.pc = "enqueue" => walk.ids = found

\* What the discovery found has children once they are made, those that finished
\* have written their video, and a parent finishes after its children completed.
ChildrenOK ==
    /\ walk.pc = "mark" \/ parent.marked => \A v \in found : Ours[v] # "none"
    /\ Finishing => \A v \in Video : Ours[v] \in {"none", "completed"}
    /\ \A n \in 1..MaxParents, v \in Video :
          children[n][v] \in {"fetched", "completed"} => v \in stored \union deleted

FanoutInv == TypeOK /\ ControlOK /\ ChildrenOK

\* What is stored, found and queued has been uploaded.
UploadedOK ==
    /\ stored \subseteq 1..uploaded
    /\ walk.ids \subseteq 1..uploaded
    /\ found \subseteq 1..uploaded
    /\ \A n \in 1..MaxParents, v \in Video : children[n][v] # "none" => v \in 1..uploaded
    /\ resolved <= uploaded

\* Until the stored videos are counted, no video newer than the count is stored, nor
\* queued: only this discovery could have found it.
CountOK ==
    /\ walk.pc \in {"count", "page"} /\ ~walk.all => resolved = 0
    /\ walk.pc = "count" /\ walk.all =>
          /\ stored \subseteq 1..resolved
          /\ \A n \in 1..MaxParents, v \in Video : children[n][v] # "none" => v \in 1..resolved
          /\ deleted = {} => walk.expected = resolved

\* Without deletions the pages read so far leave nothing out, and when there is no
\* deficit everything is stored already.
PagesOK ==
    deleted = {} =>
        /\ walk.pc = "page" /\ walk.all =>
              /\ \A u \in walk.ids, v \in 1..resolved : u <= v => v \in walk.ids
              /\ ~walk.deficit => 1..resolved \subseteq stored
        /\ walk.pc \in {"resolve", "count"} => walk.ids = {}
        /\ walk.pc \in {"enqueue", "mark"} \/ parent.marked => 1..resolved \subseteq found \union stored

GapInv == FanoutInv /\ UploadedOK /\ CountOK /\ PagesOK

------------------------------------------------------------------------------
(* Types and the rows of children. *)

LEMMA VideosFinite ==
  ASSUME NEW S \in SUBSET Video
  PROVE  IsFiniteSet(S) /\ Cardinality(S) \in Nat
<1>1. IsFiniteSet(Video)
  BY FanoutConstants, FS_Interval DEF Video
<1>2. IsFiniteSet(S)
  BY <1>1, FS_Subset
<1> QED
  BY <1>2, FS_CardinalityType

LEMMA AwayType == Away \in Walk
  BY DEF Away, Walk, Step

LEMMA GoType ==
  ASSUME NEW pc \in Step
  PROVE  /\ [Away EXCEPT !.pc = pc] \in Walk
         /\ [Away EXCEPT !.pc = pc].pc = pc
         /\ [Away EXCEPT !.pc = pc].ids = {}
  BY DEF Away, Walk, Step

\* Rewriting one child leaves every other one as it is.
LEMMA ChildRewritten ==
  ASSUME TypeOK, NEW n \in 1..MaxParents, NEW v \in Video, NEW state \in ChildState,
         Become(n, v, state)
  PROVE  /\ children' \in [1..MaxParents -> [Video -> ChildState]]
         /\ children'[n][v] = state
         /\ \A m \in 1..MaxParents, u \in Video :
               <<m, u>> # <<n, v>> => children'[m][u] = children[m][u]
  BY DEF TypeOK, Become

LEMMA ParentsInRange == ASSUME TypeOK PROVE 1..parents \subseteq 1..MaxParents
  BY FanoutConstants DEF TypeOK

\* The videos a page may bring are uploads.
LEMMA PageType ==
  ASSUME TypeOK
  PROVE  /\ Listed \subseteq 1..uploaded /\ Listed \subseteq Video
         /\ Older \subseteq Listed
         /\ Newest(Older, Room) \subseteq Older
BY FanoutConstants DEF TypeOK, Listed, Older, Newest, Video

\* The steps of the proofs below, of the parent and of the children.
ParentSteps ==
    \/ Upload \/ (\E v \in Video : Delete(v)) \/ AskForAll \/ NewParent \/ Claim \/ Due
    \/ Begin \/ Resolve \/ Count \/ ReadPage \/ Enqueue \/ Mark \/ Summarise \/ Pause \/ End
    \/ (\E outcome \in {"quota", "retry", "fail"} : CallFails(outcome)) \/ Raises \/ Crash

ChildSteps ==
    \E n \in 1..MaxParents, v \in Video :
        \/ ChildStarts(n, v) \/ ChildFetches(n, v) \/ ChildCompletes(n, v)
        \/ ChildStops(n, v, "waiting") \/ ChildStops(n, v, "failed")

LEMMA StepCases ==
  ASSUME TypeOK, [Next]_vars
  PROVE  ParentSteps \/ ChildSteps \/ UNCHANGED vars
<1>1. CASE \E n \in 1..parents, v \in Video :
             \/ ChildStarts(n, v) \/ ChildMoves(n, v)
             \/ \E state \in {"waiting", "failed"} : ChildStops(n, v, state)
  BY <1>1, ParentsInRange DEF ChildSteps, ChildMoves
<1>2. CASE Poll \/ UNCHANGED vars
  BY <1>2 DEF Poll
<1>3. CASE Upload \/ AskForAll \/ NewParent \/ Claim \/ Due \/ Collect \/ Raises \/ Crash
  BY <1>3 DEF ParentSteps, Collect
<1>4. CASE \E v \in Video : Delete(v)
  BY <1>4 DEF ParentSteps
<1>5. CASE \E outcome \in {"quota", "retry", "fail"} : CallFails(outcome)
  BY <1>5 DEF ParentSteps
<1> QED
  BY <1>1, <1>2, <1>3, <1>4, <1>5 DEF Next

LEMMA TypeStep ==
  ASSUME TypeOK, ControlOK, [Next]_vars
  PROVE  TypeOK'
<1> USE FanoutConstants
<1> USE DEF TypeOK, upstream, data, history, At, Go, Fault
<1>1. CASE Upload
  BY <1>1 DEF Upload, Video, Walk, ParentRow
<1>2. CASE \E v \in Video : Delete(v)
  BY <1>2 DEF Delete, Listed, Video
<1>3. CASE AskForAll
  BY <1>3 DEF AskForAll
<1>4. CASE NewParent
  BY <1>4 DEF NewParent, ParentRow, JobState
<1>5. CASE Claim
  BY <1>5, GoType DEF Claim, ParentRow, JobState, Step
<1>6. CASE Due
  BY <1>6 DEF Due, ParentRow
<1>8. CASE Begin
  <2>1. [Away EXCEPT !.pc = "resolve", !.all = all, !.incremental = full] \in Walk
    BY DEF Away, Walk, Step
  <2> QED
    BY <1>8, <2>1, GoType DEF Begin, Step
<1>9. CASE Resolve
  <2>1. Cardinality(Listed) \in Nat
    BY PageType, VideosFinite
  <2>2. walk' \in Walk
    BY <1>9, <2>1 DEF Resolve, Walk, Step
  <2> QED
    BY <1>9, <2>2 DEF Resolve
<1>10. CASE Count
  <2>1. walk' \in Walk
    BY <1>10 DEF Count, Walk, Step
  <2> QED
    BY <1>10, <2>1 DEF Count
<1>11. CASE ReadPage
  <2>1. walk.ids \union Newest(Older, Room) \subseteq Video
    BY PageType DEF Walk
  <2>2. /\ [Away EXCEPT !.pc = "enqueue", !.ids = walk.ids \union Newest(Older, Room)] \in Walk
        /\ [walk EXCEPT !.ids = walk.ids \union Newest(Older, Room)] \in Walk
    BY <2>1 DEF Walk, Step, Away
  <2> QED
    BY <1>11, <2>1, <2>2 DEF ReadPage
<1>12. CASE Enqueue
  <2>1. parents \in 1..MaxParents
    BY <1>12 DEF Enqueue, ControlOK
  <2>2. children' \in [1..MaxParents -> [Video -> ChildState]]
    BY <1>12, <2>1 DEF Enqueue, ChildState
  <2> QED
    BY <1>12, <2>2, GoType DEF Enqueue, Step
<1>13. CASE Mark
  BY <1>13, GoType DEF Mark, ParentRow, Step
<1>14. CASE Summarise
  BY <1>14, GoType DEF Summarise, Step
<1>15. CASE Pause
  BY <1>15, AwayType DEF Pause, ParentRow, JobState, Waiting
<1>16. CASE End
  BY <1>16, AwayType DEF End, ParentRow, JobState, Terminal
<1>17. CASE \E outcome \in {"quota", "retry", "fail"} : CallFails(outcome)
  <2>1. PICK outcome \in {"quota", "retry", "fail"} : CallFails(outcome)
    BY <1>17
  <2>2. [Away EXCEPT !.pc = outcome] \in Walk
    BY GoType DEF Step
  <2> QED
    BY <2>1, <2>2 DEF CallFails
<1>18. CASE Raises
  BY <1>18, GoType DEF Raises, Step
<1>19. CASE Crash
  BY <1>19, AwayType DEF Crash
<1>20. CASE ChildSteps
  <2>1. PICK n \in 1..MaxParents, v \in Video :
           \/ ChildStarts(n, v) \/ ChildFetches(n, v) \/ ChildCompletes(n, v)
           \/ ChildStops(n, v, "waiting") \/ ChildStops(n, v, "failed")
    BY <1>20 DEF ChildSteps
  <2>2. children' \in [1..MaxParents -> [Video -> ChildState]]
    BY <2>1, ChildRewritten
       DEF ChildStarts, ChildFetches, ChildCompletes, ChildStops, ChildState
  <2> QED
    BY <2>1, <2>2 DEF ChildStarts, ChildFetches, ChildCompletes, ChildStops
<1>21. CASE UNCHANGED vars
  BY <1>21 DEF vars
<1> HIDE DEF TypeOK
<1> QED
  BY <1>1, <1>2, <1>3, <1>4, <1>5, <1>6, <1>8, <1>9, <1>10, <1>11, <1>12, <1>13, <1>14, <1>15,
     <1>16, <1>17, <1>18, <1>19, <1>20, <1>21, StepCases DEF ParentSteps

------------------------------------------------------------------------------
(* The fan-out. *)

LEMMA FanoutInit == Init => FanoutInv
<1> SUFFICES ASSUME Init
             PROVE  FanoutInv
  OBVIOUS
<1>1. TypeOK
  <2>1. children \in [1..MaxParents -> [Video -> ChildState]]
    BY DEF Init, ChildState
  <2>2. parent \in ParentRow
    BY DEF Init, ParentRow, JobState, Terminal
  <2>3. parents \in 0..MaxParents /\ resolved \in 0..MaxVideos /\ faults \in 0..MaxFaults
    BY FanoutConstants DEF Init
  <2> QED
    BY <2>1, <2>2, <2>3, AwayType DEF Init, TypeOK
<1>2. ControlOK
  BY DEF Init, ControlOK, Discovering, Away
<1>3. ChildrenOK
  BY DEF Init, ChildrenOK, Finishing, Away
<1> QED
  BY <1>1, <1>2, <1>3 DEF FanoutInv

\* A child's step leaves the parent as it is.
LEMMA ChildKeepsParent ==
  ASSUME ChildSteps
  PROVE  UNCHANGED <<uploaded, deleted, all, full, resolved, found, parents, parent, walk>>
BY DEF ChildSteps, ChildStarts, ChildFetches, ChildCompletes, ChildStops, upstream, data, history

\* The two ways a round of the page loop ends.
LEMMA PageRead ==
  ASSUME TypeOK, ReadPage
  PROVE  LET page == Newest(Older, Room)
             ids == walk.ids \union page IN
         /\ walk.pc = "page" /\ walk'.ids = ids
         /\ \/ walk'.pc = "enqueue" /\ found' = ids /\ LastPage(page, ids)
            \/ /\ walk'.pc = "page" /\ found' = found /\ walk'.all = walk.all
               /\ walk'.deficit = walk.deficit /\ ~LastPage(page, ids)
<1> DEFINE ids == walk.ids \union Newest(Older, Room)
<1>1. /\ [Away EXCEPT !.pc = "enqueue", !.ids = ids].pc = "enqueue"
      /\ [Away EXCEPT !.pc = "enqueue", !.ids = ids].ids = ids
      /\ [walk EXCEPT !.ids = ids].pc = walk.pc
      /\ [walk EXCEPT !.ids = ids].ids = ids
      /\ [walk EXCEPT !.ids = ids].all = walk.all
      /\ [walk EXCEPT !.ids = ids].deficit = walk.deficit
  BY DEF Away, TypeOK, Walk
<1> QED
  BY <1>1 DEF ReadPage, At

\* Where the worker goes from a step that has nothing to do with the mark.
LEMMA NextStop ==
  ASSUME TypeOK,
         \/ Claim \/ Begin \/ Resolve \/ Count \/ Pause \/ End \/ Raises \/ Crash
         \/ \E outcome \in {"quota", "retry", "fail"} : CallFails(outcome)
  PROVE  walk'.pc \in {"away", "begin", "resolve", "count", "page", "summary",
                       "retry", "quota", "fail"}
<1>1. CASE Claim \/ Pause \/ End \/ Crash
  BY <1>1 DEF Claim, Pause, End, Crash, Away
<1>2. CASE Begin
  <2>1. [Away EXCEPT !.pc = "resolve", !.all = all, !.incremental = full].pc = "resolve"
    BY DEF Away
  <2> QED
    BY <1>2, <2>1, GoType DEF Begin, Go, Step
<1>3. CASE Resolve \/ Count
  BY <1>3 DEF Resolve, Count, TypeOK, Walk
<1>4. CASE Raises \/ \E outcome \in {"quota", "retry", "fail"} : CallFails(outcome)
  <2>1. PICK outcome \in {"quota", "retry", "fail"} : walk' = [Away EXCEPT !.pc = outcome]
    BY <1>4 DEF CallFails, Raises, Go
  <2> QED
    BY <2>1, GoType DEF Step
<1> QED
  BY <1>1, <1>2, <1>3, <1>4

LEMMA ControlStep ==
  ASSUME TypeOK, ControlOK, [Next]_vars
  PROVE  ControlOK'
<1> USE FanoutConstants
<1> USE DEF ControlOK, Discovering, At, upstream, data, history
<1>1. CASE Upload \/ (\E v \in Video : Delete(v)) \/ AskForAll
  BY <1>1 DEF Upload, Delete, AskForAll
<1>2. CASE NewParent
  BY <1>2 DEF NewParent, TypeOK, Terminal
<1>3. CASE Claim \/ Due
  <2>1. parent.state \notin {"failed", "completed"} /\ walk.pc = "away"
    BY <1>3 DEF Claim, ParentClaimable, Due, Waiting
  <2>2. CASE Claim
    BY <2>1, <2>2, GoType DEF Claim, TypeOK, ParentRow, Step
  <2>3. CASE Due
    BY <2>1, <2>3 DEF Due, TypeOK, ParentRow
  <2> QED
    BY <1>3, <2>2, <2>3
<1>4. CASE Begin
  <2>1. walk'.pc = IF parent.marked THEN "summary" ELSE "resolve"
    <3>1. [Away EXCEPT !.pc = "resolve", !.all = all, !.incremental = full].pc = "resolve"
      BY DEF Away
    <3>2. [Away EXCEPT !.pc = "summary"].pc = "summary"
      BY DEF Away
    <3> QED
      BY <1>4, <3>1, <3>2 DEF Begin, Go
  <2> QED
    BY <1>4, <2>1 DEF Begin
<1>11. CASE Resolve \/ Count
  BY <1>11 DEF Resolve, Count, TypeOK, Walk
<1>12. CASE ReadPage
  BY <1>12, PageRead DEF ReadPage
<1>5. CASE Enqueue
  BY <1>5, GoType DEF Enqueue, Go, Step
<1>13. CASE Mark
  BY <1>13, GoType DEF Mark, Go, TypeOK, ParentRow, Step
<1>6. CASE Summarise
  <2>1. walk'.pc \in {"retry", "fail", "complete"}
    BY <1>6, GoType DEF Summarise, Go, Step
  <2> QED
    BY <1>6, <2>1 DEF Summarise
<1>7. CASE Pause \/ End \/ Crash
  <2>1. walk'.pc = "away"
    BY <1>7 DEF Pause, End, Crash, Away
  <2>2. CASE Pause
    BY <2>1, <2>2 DEF Pause, TypeOK, ParentRow
  <2>3. CASE End
    BY <2>1, <2>3 DEF End, TypeOK, ParentRow
  <2>4. CASE Crash
    BY <2>1, <2>4 DEF Crash
  <2> QED
    BY <1>7, <2>2, <2>3, <2>4
<1>8. CASE (\E outcome \in {"quota", "retry", "fail"} : CallFails(outcome)) \/ Raises
  <2>1. walk'.pc \in {"retry", "quota", "fail"}
    <3>1. PICK outcome \in {"quota", "retry", "fail"} : walk' = [Away EXCEPT !.pc = outcome]
      BY <1>8 DEF CallFails, Raises, Go
    <3> QED
      BY <3>1, GoType DEF Step
  <2> QED
    BY <1>8, <2>1 DEF CallFails, Raises
<1>9. CASE ChildSteps
  BY <1>9, ChildKeepsParent
<1>10. CASE UNCHANGED vars
  BY <1>10 DEF vars
<1> HIDE DEF ControlOK
<1> QED
  BY <1>1, <1>2, <1>3, <1>4, <1>5, <1>6, <1>7, <1>8, <1>9, <1>10, <1>11, <1>12, <1>13,
     StepCases DEF ParentSteps

\* The children of a parent that makes new ones.
LEMMA Enqueued ==
  ASSUME TypeOK, ControlOK, Enqueue
  PROVE  /\ parents \in 1..MaxParents
         /\ \A n \in 1..MaxParents, v \in Video :
               children'[n][v] = IF n = parents /\ v \in walk.ids /\ children[n][v] = "none"
                                 THEN "queued" ELSE children[n][v]
<1>1. parents \in 1..MaxParents
  BY FanoutConstants DEF TypeOK, ControlOK, Enqueue, At
<1> QED
  BY <1>1 DEF Enqueue, TypeOK

LEMMA ChildrenStep ==
  ASSUME TypeOK, ControlOK, ChildrenOK, [Next]_vars, ControlOK'
  PROVE  ChildrenOK'
<1> USE FanoutConstants
<1> USE DEF ChildrenOK, Finishing, Ours, At, upstream, data, history
<1>1. CASE Upload \/ AskForAll
  BY <1>1 DEF Upload, AskForAll
<1>2. CASE \E v \in Video : Delete(v)
  BY <1>2 DEF Delete
<1>3. CASE NewParent
  BY <1>3 DEF NewParent, ControlOK, Terminal
<1>4. CASE Claim \/ Due \/ Begin \/ Resolve \/ Count \/ Pause \/ Raises \/ Crash
             \/ \E outcome \in {"quota", "retry", "fail"} : CallFails(outcome)
  <2>1. /\ UNCHANGED <<stored, deleted, children, parents, found>>
        /\ parent'.marked = parent.marked /\ parent'.state # "completed"
    BY <1>4 DEF Claim, Due, Begin, Resolve, Count, Pause, Raises, Crash, CallFails, ControlOK,
                ParentClaimable, Waiting, TypeOK, ParentRow
  <2>2. walk'.pc \notin {"mark", "complete"}
    BY <1>4, NextStop DEF Due
  <2> QED
    BY <2>1, <2>2
<1>5. CASE ReadPage
  <2>1. UNCHANGED <<stored, deleted, children, parents, parent>> /\ ~parent.marked
    BY <1>5 DEF ReadPage, ControlOK, Discovering
  <2>2. walk'.pc \notin {"mark", "complete"}
    BY <1>5, PageRead
  <2> QED
    BY <1>5, <2>1, <2>2 DEF ControlOK
<1>6. CASE Enqueue
  <2>1. \A v \in found : children'[parents][v] # "none"
    BY <1>6, Enqueued DEF Enqueue, ControlOK, TypeOK
  <2>2. walk'.pc = "mark" /\ ~parent.marked /\ parent.state = "running"
    BY <1>6, GoType DEF Enqueue, Go, Step, ControlOK, Discovering
  <2>3. \A n \in 1..MaxParents, v \in Video :
           children'[n][v] \in {"fetched", "completed"} => children[n][v] \in {"fetched", "completed"}
    BY <1>6, Enqueued
  <2> QED
    BY <1>6, <2>1, <2>2, <2>3 DEF Enqueue
<1>7. CASE Mark
  <2>1. walk'.pc = "retry" /\ parent'.state = "running"
    BY <1>7, GoType DEF Mark, Go, Step, ControlOK, TypeOK, ParentRow
  <2> QED
    BY <1>7, <2>1 DEF Mark
<1>8. CASE Summarise
  <2>1. walk'.pc # "mark" /\ parent.state = "running"
    BY <1>8, GoType DEF Summarise, Go, Step, ControlOK
  <2>2. parents \in 1..MaxParents
    BY <2>1 DEF ControlOK, TypeOK
  <2>3. ASSUME walk'.pc = "complete", NEW v \in Video
        PROVE  Ours[v] \in {"none", "completed"}
    <3>1. ~Open(parents, v) /\ Ours[v] # "failed"
      BY <1>8, <2>3, GoType DEF Summarise, Go, Step
    <3> QED
      BY <2>2, <3>1 DEF Open, ChildEnded, TypeOK, ChildState
  <2> QED
    BY <1>8, <2>1, <2>3 DEF Summarise
<1>9. CASE End
  BY <1>9 DEF End, Away, TypeOK, ParentRow
<1>10. CASE ChildSteps
  <2>1. PICK n \in 1..MaxParents, v \in Video :
           \/ ChildStarts(n, v) \/ ChildFetches(n, v) \/ ChildCompletes(n, v)
           \/ ChildStops(n, v, "waiting") \/ ChildStops(n, v, "failed")
    BY <1>10 DEF ChildSteps
  <2>2. /\ children[n][v] \notin {"none", "completed"} /\ children'[n][v] # "none"
        /\ \A m \in 1..MaxParents, u \in Video :
              <<m, u>> # <<n, v>> => children'[m][u] = children[m][u]
    BY <2>1, ChildRewritten
       DEF ChildStarts, ChildFetches, ChildCompletes, ChildStops, ChildState
  <2>3. /\ stored \subseteq stored'
        /\ children'[n][v] \in {"fetched", "completed"} => v \in stored' \union deleted
    BY <2>1, ChildRewritten
       DEF ChildStarts, ChildFetches, ChildCompletes, ChildStops, ChildState
  <2>4. walk.pc = "mark" \/ parent.marked \/ Finishing => parents \in 1..MaxParents
    BY DEF ControlOK, TypeOK
  <2>5. UNCHANGED <<deleted, found, parents, parent, walk>>
    BY <1>10, ChildKeepsParent
  <2> QED
    BY <2>2, <2>3, <2>4, <2>5 DEF TypeOK
<1>11. CASE UNCHANGED vars
  BY <1>11 DEF vars
<1> HIDE DEF ChildrenOK
<1> QED
  BY <1>1, <1>2, <1>3, <1>4, <1>5, <1>6, <1>7, <1>8, <1>9, <1>10, <1>11, StepCases DEF ParentSteps

LEMMA FanoutInvariance == Spec => []FanoutInv
<1>1. Init => FanoutInv
  BY FanoutInit
<1>2. FanoutInv /\ [Next]_vars => FanoutInv'
  BY TypeStep, ControlStep, ChildrenStep DEF FanoutInv
<1> QED
  BY <1>1, <1>2, PTL DEF Spec

\* Type correctness of the channel, its videos, the parent, the children and the worker.
THEOREM FanoutTypeCorrect == Spec => []TypeOK
<1>1. FanoutInv => TypeOK
  BY DEF FanoutInv
<1> QED
  BY <1>1, FanoutInvariance, PTL

\* A parent completes only when every child it has ended well: between the summary and
\* the terminal transition no child is made and none that completed starts again.
THEOREM ParentAfterChildren == Spec => []CompletedAfterChildren
<1>1. FanoutInv => CompletedAfterChildren
  BY DEF FanoutInv, ChildrenOK, Finishing, CompletedAfterChildren
<1> QED
  BY <1>1, FanoutInvariance, PTL

\* Whatever crashes between discovery, fan-out and mark, a completed parent has stored
\* every video its discovery found that the channel did not delete.
THEOREM FoundCollected == Spec => []FoundIsCollected
<1>1. FanoutInv => FoundIsCollected
  <2> SUFFICES ASSUME FanoutInv, parent.state = "completed", NEW v \in found
               PROVE  v \in stored \union deleted
    BY DEF FoundIsCollected
  <2>1. parents \in 1..MaxParents /\ v \in Video
    BY FanoutConstants DEF FanoutInv, ControlOK, TypeOK
  <2>2. Ours[v] = "completed"
    BY <2>1 DEF FanoutInv, ControlOK, ChildrenOK, Finishing
  <2> QED
    BY <2>1, <2>2 DEF FanoutInv, ChildrenOK, Ours
<1> QED
  BY <1>1, FanoutInvariance, PTL

------------------------------------------------------------------------------
(* The gaps. *)

\* A page that is not the whole rest takes the newest of it.
LEMMA PageIsNewest ==
  ASSUME TypeOK, NEW n \in Nat, NEW u \in Newest(Older, n), NEW v \in Older, u <= v
  PROVE  v \in Newest(Older, n)
<1> DEFINE above(x) == {w \in Older : w > x}
<1>1. Older \subseteq Video /\ Video \subseteq Nat /\ u \in Older
  BY FanoutConstants, PageType DEF Video, Newest
<1>2. above(v) \subseteq above(u) /\ above(u) \subseteq Video /\ above(v) \subseteq Video
  <2>1. u \in Nat /\ v \in Nat /\ \A w \in Older : w \in Nat
    BY <1>1
  <2>2. \A w \in Older : w > v => w > u
    BY <2>1
  <2> QED
    BY <1>1, <2>2
<1>3. Cardinality(above(v)) <= Cardinality(above(u))
  BY <1>2, VideosFinite, FS_Subset
<1>4. Cardinality(above(u)) < n
  BY DEF Newest
<1>5. Cardinality(above(v)) \in Nat /\ Cardinality(above(u)) \in Nat
  BY <1>2, VideosFinite
<1> QED
  BY <1>3, <1>4, <1>5 DEF Newest

\* As many stored videos as uploads, none newer: all are stored.
LEMMA CountedAll ==
  ASSUME NEW k \in Nat, NEW S \in SUBSET (1..k), ~(k > Cardinality(S))
  PROVE  S = 1..k
<1>1. IsFiniteSet(1..k) /\ Cardinality(1..k) = k
  BY FS_Interval
<1>2. Cardinality(S) \in Nat /\ Cardinality(S) <= k /\ (Cardinality(S) = k => S = 1..k)
  BY <1>1, FS_Subset, FS_CardinalityType
<1> QED
  BY <1>2

LEMMA GapInit == Init => GapInv
<1> SUFFICES ASSUME Init
             PROVE  GapInv
  OBVIOUS
<1>1. UploadedOK
  BY FanoutConstants DEF Init, UploadedOK, Away
<1>2. CountOK /\ PagesOK
  BY DEF Init, CountOK, PagesOK, Away
<1> QED
  BY <1>1, <1>2, FanoutInit DEF GapInv

\* Only reading a page finds videos.
LEMMA IdsKept ==
  ASSUME TypeOK,
         \/ Claim \/ Begin \/ Resolve \/ Count \/ Pause \/ End \/ Raises \/ Crash
         \/ Enqueue \/ Mark \/ Summarise
         \/ \E outcome \in {"quota", "retry", "fail"} : CallFails(outcome)
  PROVE  walk'.ids \subseteq walk.ids
<1>1. CASE Claim \/ Pause \/ End \/ Crash
  BY <1>1 DEF Claim, Pause, End, Crash, Away
<1>2. CASE Begin
  <2>1. [Away EXCEPT !.pc = "resolve", !.all = all, !.incremental = full].ids = {}
    BY DEF Away
  <2>2. [Away EXCEPT !.pc = "summary"].ids = {}
    BY DEF Away
  <2> QED
    BY <1>2, <2>1, <2>2 DEF Begin, Go
<1>3. CASE Resolve \/ Count
  BY <1>3 DEF Resolve, Count, TypeOK, Walk
<1>4. CASE \/ Raises \/ Enqueue \/ Mark \/ Summarise
           \/ \E outcome \in {"quota", "retry", "fail"} : CallFails(outcome)
  <2>1. PICK pc \in Step : walk' = [Away EXCEPT !.pc = pc]
    BY <1>4 DEF CallFails, Raises, Enqueue, Mark, Summarise, Go, Step
  <2> QED
    BY <2>1, GoType
<1> QED
  BY <1>1, <1>2, <1>3, <1>4

LEMMA UploadedStep ==
  ASSUME TypeOK, ControlOK, UploadedOK, [Next]_vars
  PROVE  UploadedOK'
<1> USE FanoutConstants
<1> USE DEF UploadedOK, upstream, data, history
<1>1. CASE Upload
  <2>1. 1..uploaded \subseteq 1..uploaded' /\ uploaded <= uploaded' /\ resolved <= uploaded'
    BY <1>1 DEF Upload, TypeOK
  <2>2. UNCHANGED <<stored, walk, found, children, resolved>>
    BY <1>1 DEF Upload
  <2> QED
    BY <2>1, <2>2
<1>2. CASE AskForAll \/ \E v \in Video : Delete(v)
  <2>1. UNCHANGED <<uploaded, stored, walk, found, children, resolved>>
    BY <1>2 DEF AskForAll, Delete
  <2> QED
    BY <2>1
<1>3. CASE NewParent
  <2>1. resolved' = 0 /\ resolved' <= uploaded /\ found' = {}
    BY <1>3 DEF NewParent, TypeOK
  <2> QED
    BY <1>3, <2>1 DEF NewParent
<1>4. CASE Claim \/ Begin \/ Count \/ Pause \/ End \/ Raises \/ Crash \/ Mark \/ Summarise
           \/ \E outcome \in {"quota", "retry", "fail"} : CallFails(outcome)
  <2>1. walk'.ids \subseteq walk.ids
    BY <1>4, IdsKept
  <2> QED
    BY <1>4, <2>1 DEF Claim, Begin, Count, Pause, End, Raises, Crash, Mark, Summarise, CallFails
<1>5. CASE Due
  BY <1>5 DEF Due
<1>6. CASE Resolve
  <2>1. walk'.ids \subseteq walk.ids
    BY <1>6, IdsKept
  <2> QED
    BY <1>6, <2>1 DEF Resolve, TypeOK
<1>7. CASE ReadPage
  <2>1. walk.ids \union Newest(Older, Room) \subseteq 1..uploaded
    BY PageType
  <2>2. walk'.ids \subseteq 1..uploaded /\ found' \subseteq 1..uploaded
    BY <1>7, <2>1, PageRead
  <2> QED
    BY <1>7, <2>2 DEF ReadPage
<1>8. CASE Enqueue
  <2>1. walk'.ids \subseteq walk.ids
    BY <1>8, IdsKept
  <2>2. \A n \in 1..MaxParents, v \in Video : children'[n][v] # "none" => v \in 1..uploaded
    BY <1>8, Enqueued
  <2> QED
    BY <1>8, <2>1, <2>2 DEF Enqueue
<1>9. CASE ChildSteps
  <2>1. PICK n \in 1..MaxParents, v \in Video :
           \/ ChildStarts(n, v) \/ ChildFetches(n, v) \/ ChildCompletes(n, v)
           \/ ChildStops(n, v, "waiting") \/ ChildStops(n, v, "failed")
    BY <1>9 DEF ChildSteps
  <2>2. /\ children[n][v] # "none"
        /\ \A m \in 1..MaxParents, u \in Video :
              <<m, u>> # <<n, v>> => children'[m][u] = children[m][u]
        /\ stored' \subseteq stored \union {v}
    BY <2>1, ChildRewritten
       DEF ChildStarts, ChildFetches, ChildCompletes, ChildStops, ChildState
  <2>3. UNCHANGED <<uploaded, found, resolved, walk>>
    BY <1>9, ChildKeepsParent
  <2>4. v \in 1..uploaded
    BY <2>2
  <2> QED
    BY <2>2, <2>3, <2>4
<1>10. CASE UNCHANGED vars
  BY <1>10 DEF vars
<1> HIDE DEF UploadedOK
<1> QED
  BY <1>1, <1>2, <1>3, <1>4, <1>5, <1>6, <1>7, <1>8, <1>9, <1>10, StepCases DEF ParentSteps

LEMMA CountStep ==
  ASSUME TypeOK, ControlOK, UploadedOK, CountOK, TypeOK', [Next]_vars
  PROVE  CountOK'
<1> USE FanoutConstants
<1> USE DEF CountOK, upstream, data, history
<1>1. CASE Upload \/ AskForAll
  <2>1. UNCHANGED <<deleted, stored, walk, children, resolved>>
    BY <1>1 DEF Upload, AskForAll
  <2> QED
    BY <2>1
<1>2. CASE \E v \in Video : Delete(v)
  <2>1. deleted' # {} /\ UNCHANGED <<stored, walk, children, resolved>>
    BY <1>2 DEF Delete
  <2> QED
    BY <2>1
<1>3. CASE NewParent \/ Due
  <2>1. walk'.pc \notin {"count", "page"}
    BY <1>3 DEF NewParent, Due, ControlOK, Terminal, At
  <2> QED
    BY <2>1
<1>4. CASE \/ Claim \/ Begin \/ Pause \/ End \/ Raises \/ Crash \/ Enqueue \/ Mark \/ Summarise
           \/ \E outcome \in {"quota", "retry", "fail"} : CallFails(outcome)
  <2>1. CASE Claim \/ Pause \/ End \/ Crash
    BY <2>1 DEF Claim, Pause, End, Crash, Away
  <2>2. CASE Begin
    <3>1. [Away EXCEPT !.pc = "resolve", !.all = all, !.incremental = full].pc = "resolve"
      BY DEF Away
    <3>2. [Away EXCEPT !.pc = "summary"].pc = "summary"
      BY DEF Away
    <3> QED
      BY <2>2, <3>1, <3>2 DEF Begin, Go
  <2>3. CASE \/ Raises \/ Enqueue \/ Mark \/ Summarise
             \/ \E outcome \in {"quota", "retry", "fail"} : CallFails(outcome)
    <3>1. PICK pc \in Step \ {"count", "page"} : walk' = [Away EXCEPT !.pc = pc]
      BY <2>3 DEF CallFails, Raises, Enqueue, Mark, Summarise, Go, Step
    <3>2. walk'.pc = pc
      BY <3>1, GoType
    <3> QED
      BY <3>2
  <2> QED
    BY <1>4, <2>1, <2>2, <2>3
<1>5. CASE Resolve
  <2>1. /\ walk'.pc = "count" /\ walk'.all = walk.all /\ walk'.expected = Cardinality(Listed)
        /\ UNCHANGED <<uploaded, deleted, stored, children>>
        /\ resolved' = IF walk.all THEN uploaded ELSE 0
    BY <1>5 DEF Resolve, TypeOK, Walk
  <2>2. deleted = {} => Cardinality(Listed) = uploaded
    <3>1. deleted = {} => Listed = 1..uploaded
      BY DEF Listed
    <3> QED
      BY <3>1, FS_Interval DEF TypeOK
  <2> QED
    BY <2>1, <2>2 DEF UploadedOK
<1>6. CASE Count
  BY <1>6 DEF Count, TypeOK, Walk, At
<1>7. CASE ReadPage
  <2>1. walk'.pc # "count" /\ (walk'.pc = "page" => walk'.all = walk.all) /\ walk.pc = "page"
    BY <1>7, PageRead
  <2> QED
    BY <1>7, <2>1 DEF ReadPage
<1>8. CASE ChildSteps
  <2>1. PICK n \in 1..MaxParents, v \in Video :
           \/ ChildStarts(n, v) \/ ChildFetches(n, v) \/ ChildCompletes(n, v)
           \/ ChildStops(n, v, "waiting") \/ ChildStops(n, v, "failed")
    BY <1>8 DEF ChildSteps
  <2>2. /\ children[n][v] # "none"
        /\ \A m \in 1..MaxParents, u \in Video :
              <<m, u>> # <<n, v>> => children'[m][u] = children[m][u]
        /\ stored' \subseteq stored \union {v}
    BY <2>1, ChildRewritten
       DEF ChildStarts, ChildFetches, ChildCompletes, ChildStops, ChildState
  <2>3. UNCHANGED <<deleted, resolved, walk>>
    BY <1>8, ChildKeepsParent
  <2> QED
    BY <2>2, <2>3
<1>9. CASE UNCHANGED vars
  BY <1>9 DEF vars
<1> HIDE DEF CountOK
<1> QED
  BY <1>1, <1>2, <1>3, <1>4, <1>5, <1>6, <1>7, <1>8, <1>9, StepCases DEF ParentSteps

LEMMA PagesStep ==
  ASSUME TypeOK, ControlOK, UploadedOK, CountOK, PagesOK, [Next]_vars
  PROVE  PagesOK'
<1> USE FanoutConstants
<1> USE DEF PagesOK, upstream, data, history
<1>1. CASE Upload \/ AskForAll
  <2>1. UNCHANGED <<deleted, stored, walk, parent, found, resolved>>
    BY <1>1 DEF Upload, AskForAll
  <2> QED
    BY <2>1
<1>2. CASE \E v \in Video : Delete(v)
  BY <1>2 DEF Delete
<1>3. CASE NewParent
  <2>1. walk'.pc = "away" /\ ~parent'.marked
    BY <1>3 DEF NewParent, ControlOK, Terminal
  <2> QED
    BY <2>1
<1>4. CASE \/ Claim \/ Begin \/ Pause \/ End \/ Raises \/ Crash \/ Summarise \/ Due
           \/ \E outcome \in {"quota", "retry", "fail"} : CallFails(outcome)
  <2>1. /\ UNCHANGED <<deleted, stored, found, resolved>> /\ parent'.marked = parent.marked
    BY <1>4 DEF Claim, Begin, Pause, End, Raises, Crash, Summarise, Due, CallFails, TypeOK, ParentRow
  <2>2. walk'.pc \notin {"count", "page", "enqueue", "mark"} /\ (walk'.pc = "resolve" => walk'.ids = {})
    <3>1. CASE Claim \/ Pause \/ End \/ Crash \/ Due
      BY <3>1 DEF Claim, Pause, End, Crash, Away, Due, At
    <3>2. CASE Begin
      <4>1. /\ [Away EXCEPT !.pc = "resolve", !.all = all, !.incremental = full].pc = "resolve"
            /\ [Away EXCEPT !.pc = "resolve", !.all = all, !.incremental = full].ids = {}
        BY DEF Away
      <4>2. [Away EXCEPT !.pc = "summary"].pc = "summary"
        BY DEF Away
      <4> QED
        BY <3>2, <4>1, <4>2 DEF Begin, Go
    <3>3. CASE Raises \/ Summarise \/ \E outcome \in {"quota", "retry", "fail"} : CallFails(outcome)
      <4>1. PICK pc \in {"quota", "retry", "fail", "complete"} : walk' = [Away EXCEPT !.pc = pc]
        BY <3>3 DEF CallFails, Raises, Summarise, Go
      <4>2. walk'.pc = pc
        BY <4>1, GoType DEF Step
      <4> QED
        BY <4>2
    <3> QED
      BY <1>4, <3>1, <3>2, <3>3
  <2> QED
    BY <2>1, <2>2
<1>5. CASE Resolve
  <2>1. /\ walk.pc = "resolve" /\ walk'.pc = "count" /\ walk'.ids = walk.ids
        /\ UNCHANGED <<deleted, parent>>
    BY <1>5 DEF Resolve, TypeOK, Walk, At
  <2>2. ~parent.marked
    BY <2>1 DEF ControlOK, Discovering
  <2> QED
    BY <2>1, <2>2
<1>6. CASE Count
  <2>1. /\ walk.pc = "count" /\ walk'.pc = "page" /\ walk'.ids = walk.ids /\ walk'.all = walk.all
        /\ walk'.deficit = (walk.all /\ walk.expected > Cardinality(stored))
        /\ UNCHANGED <<deleted, stored, found, resolved, parent>>
    BY <1>6 DEF Count, TypeOK, Walk, At
  <2>2. ~parent.marked
    BY <2>1 DEF ControlOK, Discovering
  <2>3. ASSUME deleted = {}, walk.all, ~walk'.deficit
        PROVE  1..resolved \subseteq stored
    <3>1. stored \subseteq 1..resolved /\ resolved \in Nat /\ walk.expected = resolved
      BY <2>1, <2>3 DEF CountOK, TypeOK
    <3>2. ~(walk.expected > Cardinality(stored))
      BY <2>1, <2>3, Zenon
    <3> QED
      BY <3>1, <3>2, CountedAll
  <2> QED
    BY <2>1, <2>2, <2>3
<1>7. CASE ReadPage
  <2> DEFINE page == Newest(Older, Room)  ids == walk.ids \union page
  <2>1. SUFFICES ASSUME deleted = {}
                 PROVE  /\ walk'.pc = "page" /\ walk'.all =>
                              /\ \A u \in walk'.ids, v \in 1..resolved : u <= v => v \in walk'.ids
                              /\ ~walk'.deficit => 1..resolved \subseteq stored
                        /\ walk'.pc = "enqueue" => 1..resolved \subseteq found' \union stored
    <3>1. UNCHANGED <<deleted, stored, parent, resolved>> /\ walk.pc = "page"
      BY <1>7 DEF ReadPage, At
    <3>2. ~parent.marked /\ walk'.pc \in {"page", "enqueue"}
      BY <1>7, <3>1, PageRead DEF ControlOK, Discovering
    <3> QED
      BY <3>1, <3>2
  <2>2. walk.pc = "page" /\ walk'.ids = ids
    BY <1>7, PageRead
  <2>3. ~walk.all => resolved = 0
    BY <2>2 DEF CountOK
  <2>4. ASSUME walk.all, NEW u \in ids, NEW v \in 1..resolved, u <= v
        PROVE  v \in ids
    <3>1. CASE u \in walk.ids
      BY <2>1, <2>2, <2>4, <3>1
    <3>2. CASE v \in Older
      <4>1. CASE u \in page
        <5>1. Room \in Nat
          BY <2>4 DEF Room
        <5> QED
          BY <2>4, <3>2, <4>1, <5>1, PageIsNewest
      <4> QED
        BY <3>1, <4>1
    <3>3. CASE v \notin Older
      <4>1. v \in Listed
        BY <2>1 DEF UploadedOK, Listed, TypeOK
      <4>2. PICK w \in walk.ids : ~(v < w)
        BY <3>3, <4>1 DEF Older
      <4>3. w <= v
        BY <4>2 DEF TypeOK, Walk, Video
      <4> QED
        BY <2>1, <2>2, <2>4, <4>3
    <3> QED
      BY <3>2, <3>3
  <2>5. ASSUME walk.all, LastPage(page, ids)
        PROVE  1..resolved \subseteq ids \union stored
    <3>1. CASE Older = page
      <4> SUFFICES ASSUME NEW v \in 1..resolved, v \notin page
                   PROVE  v \in ids
        OBVIOUS
      <4>1. v \in Listed
        BY <2>1 DEF UploadedOK, Listed, TypeOK
      <4>2. PICK w \in walk.ids : ~(v < w)
        BY <3>1, <4>1 DEF Older
      <4>3. w <= v
        BY <4>2 DEF TypeOK, Walk, Video
      <4> QED
        BY <2>1, <2>2, <2>5, <4>3
    <3>2. CASE KnownPage(page)
      BY <2>1, <2>2, <2>5, <3>2 DEF KnownPage
    <3> QED
      BY <2>5, <3>1, <3>2 DEF LastPage
  <2>6. CASE walk.all
    <3> HIDE DEF ids, page
    <3> QED
      BY <1>7, <2>1, <2>2, <2>4, <2>5, <2>6, PageRead DEF ids, page
  <2>7. CASE ~walk.all
    BY <1>7, <2>3, <2>7, PageRead
  <2> QED
    BY <2>6, <2>7
<1>8. CASE Enqueue \/ Mark
  <2>1. /\ walk.pc \in {"enqueue", "mark"} /\ walk'.pc \in {"mark", "retry"}
        /\ UNCHANGED <<deleted, stored, found, resolved>>
    BY <1>8, GoType DEF Enqueue, Mark, At, Go, Step
  <2> QED
    BY <2>1
<1>9. CASE ChildSteps
  <2>1. UNCHANGED <<deleted, found, resolved, parent, walk>>
    BY <1>9, ChildKeepsParent
  <2>2. stored \subseteq stored'
    BY <1>9 DEF ChildSteps, ChildStarts, ChildFetches, ChildCompletes, ChildStops
  <2> QED
    BY <2>1, <2>2
<1>10. CASE UNCHANGED vars
  BY <1>10 DEF vars
<1> HIDE DEF PagesOK
<1> QED
  BY <1>1, <1>2, <1>3, <1>4, <1>5, <1>6, <1>7, <1>8, <1>9, <1>10, StepCases DEF ParentSteps

\* While the channel deletes nothing, a completed collection of all videos has stored every
\* upload it set out to find: the count of stored videos shows every gap that the stop
\* at a known page could step over, whatever failed or was cut short before.
THEOREM DeficitFindsEveryGap == Spec => []DeficitFindsGaps
<1>1. GapInv /\ [Next]_vars => GapInv'
  BY TypeStep, ControlStep, ChildrenStep, UploadedStep, CountStep, PagesStep
     DEF GapInv, FanoutInv
<1>2. GapInv => DeficitFindsGaps
  <2> SUFFICES ASSUME GapInv, parent.state = "completed", deleted = {}
               PROVE  1..resolved \subseteq stored
    BY DEF DeficitFindsGaps
  <2>1. parents \in 1..MaxParents /\ parent.marked /\ found \subseteq Video
    BY FanoutConstants DEF GapInv, FanoutInv, ControlOK, TypeOK
  <2>2. \A v \in found : Ours[v] = "completed"
    BY <2>1 DEF GapInv, FanoutInv, ChildrenOK, Finishing
  <2>3. found \subseteq stored
    BY <2>1, <2>2 DEF GapInv, FanoutInv, ChildrenOK, Ours
  <2> QED
    BY <2>1, <2>3 DEF GapInv, PagesOK
<1> QED
  BY <1>1, <1>2, GapInit, PTL DEF Spec

==============================================================================
