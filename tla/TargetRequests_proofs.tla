------------------------ MODULE TargetRequests_proofs ------------------------
(***************************************************************************)
(* Proofs about TargetRequests for any number of submissions, direct jobs   *)
(* and dispatches: type correctness, one active job, no request forgotten,  *)
(* answers that follow the jobs, answers that are final and, of bounded      *)
(* wishes, that completed requests were served.                              *)
(***************************************************************************)
EXTENDS TargetRequests, SequenceTheorems, FiniteSetTheorems, TLAPS

------------------------------------------------------------------------------
(* The values the policy and the jobs are made of. *)

LEMMA PolicyType ==
  ASSUME NEW c \in Config, NEW d \in Config
  PROVE  /\ Desired(c) \in Coverage
         /\ Merge(c, d) \in Config
         /\ ColumnsOf(c) \in Columns
<1>1. \A n \in Nat : Limit(n) \in Nat
  BY PolicyConstants DEF Limit, OrElse
<1>2. c.limit \in Nat /\ c.commentPages \in Nat /\ d.limit \in Nat /\ d.commentPages \in Nat
  BY DEF Config
<1>3. Limit(c.limit) \in Nat /\ OrElse(c.commentPages, 1) \in Nat
  BY <1>1, <1>2 DEF OrElse
<1>4. Desired(c) \in Coverage
  BY <1>3 DEF Desired, Config, Coverage
<1>5. ColumnsOf(c) \in Columns
  BY <1>4 DEF ColumnsOf, Columns, Coverage
<1>6. Merge(c, d) \in Config
  <2>1. /\ Larger(OrElse(c.limit, 1), OrElse(d.limit, 1)) \in Nat
        /\ Larger(OrElse(c.commentPages, 1), OrElse(d.commentPages, 1)) \in Nat
    BY <1>2 DEF Larger, OrElse
  <2> QED
    BY <2>1 DEF Merge, Config
<1> QED
  BY <1>4, <1>5, <1>6

LEMMA NothingType == Nothing \in Coverage
  BY DEF Nothing, Coverage

LEMMA QueuedType ==
  ASSUME NEW columns \in Columns
  PROVE  Queued(columns) \in JobRow /\ Queued(columns).state = "queued"
  BY NothingType DEF Queued, JobRow, Columns, JobState

LEMMA ReachType ==
  ASSUME NEW job \in JobRow, NEW c \in Config
  PROVE  Reach(job, c) \in Coverage
<1>1. /\ job.maxVideos \in Nat /\ job.commentPages \in Nat
      /\ c.limit \in Nat /\ c.commentPages \in Nat
  BY DEF JobRow, Config
<1>2. OrElse(job.maxVideos, c.limit) \in Nat
  BY <1>1 DEF OrElse
<1>3. Limit(OrElse(job.maxVideos, c.limit)) \in Nat
  BY <1>2, PolicyConstants DEF Limit, OrElse
<1>4. OrElse(OrElse(job.commentPages, c.commentPages), 1) \in Nat
  BY <1>1 DEF OrElse
<1> QED
  BY <1>3, <1>4 DEF Reach, Coverage, JobRow, Config

------------------------------------------------------------------------------
(* The table of jobs grows at its end and is rewritten a row at a time. *)

LEMMA Appended ==
  ASSUME NEW s \in Seq(JobRow), NEW row \in JobRow
  PROVE  /\ Append(s, row) \in Seq(JobRow)
         /\ Len(Append(s, row)) = Len(s) + 1
         /\ DOMAIN Append(s, row) = 1..(Len(s) + 1)
         /\ \A i \in 1..Len(s) : Append(s, row)[i] = s[i]
         /\ Append(s, row)[Len(s) + 1] = row
  OBVIOUS

LEMMA Rewritten ==
  ASSUME NEW s \in Seq(JobRow), NEW j \in DOMAIN s, NEW row \in JobRow
  PROVE  /\ [s EXCEPT ![j] = row] \in Seq(JobRow)
         /\ Len([s EXCEPT ![j] = row]) = Len(s)
         /\ DOMAIN [s EXCEPT ![j] = row] = 1..Len(s)
         /\ [s EXCEPT ![j] = row][j] = row
         /\ \A i \in 1..Len(s) : i # j => [s EXCEPT ![j] = row][i] = s[i]
  OBVIOUS

\* A target has no second active job: OneActiveJob without counting.
Unique == \A i, k \in Active : i = k

LEMMA UniqueMeansOne == Unique => OneActiveJob
<1> SUFFICES ASSUME Unique
             PROVE  Cardinality(Active) <= 1
  BY DEF OneActiveJob
<1>1. CASE Active = {}
  BY <1>1, FS_EmptySet
<1>2. CASE Active # {}
  <2>1. PICK a \in Active : TRUE
    BY <1>2
  <2>2. Active = {a}
    BY <2>1 DEF Unique
  <2>3. Cardinality({a}) = 1
    BY FS_Singleton
  <2>4. Cardinality(Active) = 1
    BY <2>2, <2>3
  <2> QED
    BY <2>4
<1> QED
  BY <1>1, <1>2

------------------------------------------------------------------------------
(* The invariant.  A request waits for the end of one active job, and every   *)
(* other request agrees with the job it is attached to.                       *)

Inv == TypeOK /\ Unique /\ PendingHasActive /\ RequestFollowsJob

LEMMA InitInv == Init => Inv
<1> SUFFICES ASSUME Init
             PROVE  Inv
  OBVIOUS
<1>1. TypeOK
  <2>1. config \in Config /\ coverage \in Coverage /\ jobs \in Seq(JobRow) /\ Len(jobs) = 0
    BY NothingType DEF Init, Config
  <2>2. requests \in [Request -> RequestRow]
    BY NothingType DEF Init, RequestRow
  <2>3. extras \in 0..MaxExtra
    BY RequestConstants DEF Init
  <2>4. \A r \in Request : requests[r].job \in 0..Len(jobs)
    BY <2>1 DEF Init
  <2>5. pin \in {"none", "later", "due"} /\ dispatching \in BOOLEAN
    BY DEF Init
  <2> QED
    BY <2>1, <2>2, <2>3, <2>4, <2>5 DEF TypeOK
<1>2. Active = {}
  BY DEF Init, Active
<1>3. PendingHasActive /\ RequestFollowsJob
  BY DEF Init, PendingHasActive, Unattended, RequestFollowsJob
<1> QED
  BY <1>1, <1>2, <1>3 DEF Inv, Unique

LEMMA ActiveIndex ==
  ASSUME TypeOK
  PROVE  /\ DOMAIN jobs = 1..Len(jobs) /\ Len(jobs) \in Nat
         /\ Active \subseteq 1..Len(jobs)
         /\ \A i \in 1..Len(jobs) : jobs[i] \in JobRow
  BY DEF TypeOK, Active

\* A queued row at the end of a table without an active job is its active job.
LEMMA NewActive ==
  ASSUME TypeOK, Active = {}, NEW row \in JobRow, row.state = "queued",
         jobs' = Append(jobs, row)
  PROVE  /\ jobs' \in Seq(JobRow) /\ Len(jobs') = Len(jobs) + 1
         /\ \A i \in 1..Len(jobs) : jobs'[i] = jobs[i]
         /\ jobs'[Len(jobs) + 1] = row
         /\ Active' = {Len(jobs) + 1}
<1>1. /\ jobs' \in Seq(JobRow) /\ Len(jobs') = Len(jobs) + 1
      /\ \A i \in 1..Len(jobs) : jobs'[i] = jobs[i]
      /\ jobs'[Len(jobs) + 1] = row /\ DOMAIN jobs' = 1..(Len(jobs) + 1)
  BY Appended DEF TypeOK
<1>2. \A i \in 1..Len(jobs) : jobs[i].state \in Terminal
  BY ActiveIndex DEF Active
<1>3. \A i \in 1..(Len(jobs) + 1) : i \in 1..Len(jobs) \/ i = Len(jobs) + 1
  BY ActiveIndex
<1>4. Len(jobs) + 1 \in 1..(Len(jobs) + 1)
  BY ActiveIndex
<1> QED
  BY <1>1, <1>2, <1>3, <1>4 DEF Active, Terminal

\* Rewriting the row of an active job in a state that is not terminal.
LEMMA StillActive ==
  ASSUME TypeOK, NEW j \in Active, NEW row \in JobRow, row.state \notin Terminal, Rewrite(j, row)
  PROVE  /\ jobs' \in Seq(JobRow) /\ Len(jobs') = Len(jobs)
         /\ \A i \in 1..Len(jobs) : i # j => jobs'[i] = jobs[i]
         /\ jobs'[j] = row
         /\ Active' = Active
<1>1. j \in DOMAIN jobs
  BY DEF Active
<1>2. /\ jobs' \in Seq(JobRow) /\ Len(jobs') = Len(jobs) /\ DOMAIN jobs' = 1..Len(jobs)
      /\ \A i \in 1..Len(jobs) : i # j => jobs'[i] = jobs[i]
      /\ jobs'[j] = row
  BY <1>1, Rewritten DEF TypeOK, Rewrite
<1> QED
  BY <1>1, <1>2, ActiveIndex DEF Active

\* A step on the active job that does not end it and leaves the requests alone.
LEMMA WorkInv ==
  ASSUME Inv, NEW j \in Active, NEW row \in JobRow, row.state \notin Terminal, Rewrite(j, row),
         UNCHANGED <<config, coverage, requests, pin, dispatching, extras>>
  PROVE  Inv'
<1>1. /\ jobs' \in Seq(JobRow) /\ Len(jobs') = Len(jobs)
      /\ \A i \in 1..Len(jobs) : i # j => jobs'[i] = jobs[i]
      /\ jobs'[j] = row /\ Active' = Active
  BY StillActive DEF Inv
<1>2. TypeOK'
  BY <1>1 DEF Inv, TypeOK
<1>3. Unique' /\ PendingHasActive'
  BY <1>1 DEF Inv, Unique, PendingHasActive, Unattended
<1>4. RequestFollowsJob'
  <2> SUFFICES ASSUME NEW r \in Request, requests[r].job # 0
               PROVE  (jobs'[requests[r].job].state \in Terminal <=> jobs[requests[r].job].state \in Terminal)
                      /\ (jobs'[requests[r].job].state \in Terminal =>
                            jobs'[requests[r].job].state = jobs[requests[r].job].state)
    BY DEF Inv, RequestFollowsJob
  <2>1. requests[r].job \in 1..Len(jobs)
    BY ActiveIndex DEF Inv, TypeOK
  <2> QED
    BY <1>1, <2>1 DEF Active
<1> QED
  BY <1>2, <1>3, <1>4 DEF Inv

\* A new job for a target without one, made for no request.
LEMMA ExtraInv ==
  ASSUME Inv, Active = {}, NEW columns \in Columns, jobs' = Append(jobs, Queued(columns)),
         UNCHANGED <<config, coverage, requests>>,
         pin' \in {"none", "later", "due"}, dispatching' \in BOOLEAN, extras' \in 0..MaxExtra
  PROVE  Inv'
<1>1. /\ jobs' \in Seq(JobRow) /\ Len(jobs') = Len(jobs) + 1
      /\ \A i \in 1..Len(jobs) : jobs'[i] = jobs[i]
      /\ Active' = {Len(jobs) + 1}
  BY NewActive, QueuedType DEF Inv
<1>2. \A r \in Request : requests[r].job \in 0..Len(jobs) /\ requests[r].job \in 0..Len(jobs')
  BY <1>1, ActiveIndex DEF Inv, TypeOK
<1>3. TypeOK'
  BY <1>1, <1>2 DEF Inv, TypeOK
<1>4. Unique' /\ PendingHasActive'
  BY <1>1 DEF Unique, PendingHasActive
<1>5. RequestFollowsJob'
  <2>1. \A r \in Request : requests[r].job # 0 => requests[r].job \in 1..Len(jobs)
    BY <1>2, ActiveIndex DEF Inv
  <2> QED
    BY <1>1, <2>1 DEF Inv, RequestFollowsJob
<1> QED
  BY <1>3, <1>4, <1>5 DEF Inv

------------------------------------------------------------------------------
(* Submissions.  No active job is ever joined: its coverage is not complete.  *)

LEMMA Answers ==
  ASSUME Inv, NEW wish \in Coverage, NEW force \in BOOLEAN
  PROVE  LET answer == Answer(wish, force, config) IN
         \/ answer = <<"completed", 0>>
         \/ answer = <<"queued", NewJob>> /\ Active = {}
         \/ \E a \in Active : answer = <<"queued", a>> /\ jobs[a].state = "queued"
         \/ answer = <<"queued", 0>> /\ Active # {}
<1> DEFINE active == CHOOSE j \in Active : \A k \in Active : j <= k
<1>1. ~Satisfies(JobCoverage(jobs[active], config), wish)
  BY DEF Satisfies, JobCoverage
<1>2. CASE Active = {}
  BY <1>2 DEF Answer
<1>3. CASE Active # {}
  <2>1. PICK a \in Active : Active = {a}
    BY <1>3 DEF Inv, Unique
  <2>2. a \in Nat
    BY ActiveIndex DEF Inv
  <2>3. active = a
    BY <2>1, <2>2
  <2> QED
    BY <1>1, <1>3, <2>1, <2>3 DEF Answer
<1> QED
  BY <1>2, <1>3

\* A submission leaves the answered requests and the states of the jobs alone.
LEMMA SubmitInv ==
  ASSUME Inv, NEW r \in Request, NEW c \in Wishes, NEW force \in BOOLEAN, Submit(r, c, force)
  PROVE  Inv'
<1> DEFINE answer == Answer(Desired(c), force, config)
           merged == Merge(config, c)
           request == [status |-> answer[1], job |-> answer[2], wish |-> Desired(c)]
<1>c. c \in Config /\ config \in Config
  BY RequestConstants DEF Inv, TypeOK
<1>1. Desired(c) \in Coverage /\ merged \in Config /\ ColumnsOf(merged) \in Columns
  <2>1. Desired(c) \in Coverage /\ merged \in Config
    BY <1>c, PolicyType
  <2> QED
    BY <2>1, PolicyType
<1>2. /\ requests[r].status = "none" /\ config' = merged /\ coverage' = coverage
      /\ requests' = [requests EXCEPT ![r] = request]
      /\ pin' \in {"none", "later", "due"} /\ dispatching' \in BOOLEAN /\ extras' \in 0..MaxExtra
  BY DEF Submit, Inv, TypeOK
<1>3. requests'[r] = request /\ \A q \in Request : q # r => requests'[q] = requests[q]
  BY <1>2 DEF Inv, TypeOK
<1>4. \A q \in Request : requests[q].job \in 0..Len(jobs) /\ requests[q] \in RequestRow
  BY DEF Inv, TypeOK
<1>5. ASSUME answer = <<"completed", 0>> \/ (answer = <<"queued", 0>> /\ Active # {})
      PROVE  Inv'
  <2>0. answer[2] = 0 /\ 0 \notin Active
    BY <1>5, ActiveIndex DEF Inv
  <2>1. jobs' = jobs /\ Active' = Active
    <3>1. jobs' = jobs
      BY <2>0 DEF Submit
    <3> QED
      BY <3>1 DEF Active
  <2>2. request \in RequestRow /\ request.job = 0
    BY <1>5, <1>1 DEF RequestRow, JobState, Terminal
  <2>3. TypeOK'
    BY <1>1, <1>2, <1>3, <2>1, <2>2 DEF Inv, TypeOK
  <2>4. PendingHasActive'
    BY <1>3, <1>5, <2>1 DEF Inv, PendingHasActive, Unattended
  <2>5. Unique' /\ RequestFollowsJob'
    BY <1>3, <2>1, <2>2 DEF Inv, Unique, RequestFollowsJob
  <2> QED
    BY <2>3, <2>4, <2>5 DEF Inv
<1>6. ASSUME answer = <<"queued", NewJob>>, Active = {}
      PROVE  Inv'
  <2> DEFINE row == Queued(ColumnsOf(merged))
  <2>1. row \in JobRow /\ row.state = "queued"
    BY <1>1, QueuedType
  <2>2. jobs' = Append(jobs, row)
    <3>1. answer[1] = "queued" /\ answer[2] # 0 /\ answer[2] \notin Active
      BY <1>6, ActiveIndex DEF NewJob, Inv
    <3> QED
      BY <3>1 DEF Submit
  <2>3. /\ jobs' \in Seq(JobRow) /\ Len(jobs') = Len(jobs) + 1
        /\ \A i \in 1..Len(jobs) : jobs'[i] = jobs[i]
        /\ jobs'[Len(jobs) + 1] = row
        /\ Active' = {Len(jobs) + 1}
    BY <1>6, <2>1, <2>2, NewActive DEF Inv
  <2>4. request \in RequestRow /\ request.job = Len(jobs) + 1 /\ request.status = "queued"
    BY <1>1, <1>6, ActiveIndex DEF RequestRow, JobState, NewJob, Inv
  <2>5. requests' \in [Request -> RequestRow]
    BY <1>2, <2>4 DEF Inv, TypeOK
  <2>6. \A q \in Request : requests'[q].job \in 0..Len(jobs')
    BY <1>3, <1>4, <2>3, <2>4, ActiveIndex DEF Inv
  <2>7. TypeOK'
    BY <1>1, <1>2, <2>3, <2>5, <2>6 DEF Inv, TypeOK
  <2>8. Unique' /\ PendingHasActive'
    BY <2>3 DEF Unique, PendingHasActive
  <2>9. RequestFollowsJob'
    <3> SUFFICES ASSUME NEW q \in Request, requests'[q].job # 0
                 PROVE  requests'[q].status =
                          IF jobs'[requests'[q].job].state \in Terminal
                          THEN jobs'[requests'[q].job].state ELSE "queued"
      BY DEF RequestFollowsJob
    <3>1. CASE q = r
      BY <1>3, <2>1, <2>3, <2>4, <3>1 DEF Terminal
    <3>2. CASE q # r
      <4>1. requests'[q] = requests[q] /\ requests[q].job \in 1..Len(jobs)
        BY <1>3, <1>4, <3>2, ActiveIndex DEF Inv
      <4> QED
        BY <2>3, <4>1 DEF Inv, RequestFollowsJob
    <3> QED
      BY <3>1, <3>2
  <2> QED
    BY <2>7, <2>8, <2>9 DEF Inv
<1>7. ASSUME NEW a \in Active, answer = <<"queued", a>>, jobs[a].state = "queued"
      PROVE  Inv'
  <2> DEFINE row == Widened(jobs[a], ColumnsOf(merged))
  <2>1. a \in 1..Len(jobs) /\ a # 0 /\ jobs[a] \in JobRow
    BY ActiveIndex DEF Inv
  <2>2. row \in JobRow /\ row.state = "queued" /\ row.state \notin Terminal
    BY <1>1, <1>7, <2>1 DEF Widened, JobRow, Columns, Terminal
  <2>3. jobs' = [jobs EXCEPT ![a] = row]
    BY <1>7, <2>1 DEF Submit
  <2>4. /\ jobs' \in Seq(JobRow) /\ Len(jobs') = Len(jobs)
        /\ \A i \in 1..Len(jobs) : i # a => jobs'[i] = jobs[i]
        /\ jobs'[a] = row /\ Active' = Active
    BY <2>2, <2>3, StillActive DEF Inv, Rewrite
  <2>5. request \in RequestRow /\ request.job = a /\ request.status = "queued"
    BY <1>1, <1>7, <2>1 DEF RequestRow, JobState
  <2>6. requests' \in [Request -> RequestRow]
    BY <1>2, <2>5 DEF Inv, TypeOK
  <2>7. \A q \in Request : requests'[q].job \in 0..Len(jobs')
    BY <1>3, <1>4, <2>1, <2>4, <2>5
  <2>8. TypeOK'
    BY <1>1, <1>2, <2>4, <2>6, <2>7 DEF Inv, TypeOK
  <2>9. Unique' /\ PendingHasActive'
    BY <2>4 DEF Inv, Unique, PendingHasActive
  <2>10. RequestFollowsJob'
    <3>1. \A i \in 1..Len(jobs) : jobs'[i].state = jobs[i].state
      BY <1>7, <2>2, <2>4
    <3>2. \A q \in Request : requests[q].job # 0 => requests[q].job \in 1..Len(jobs)
      BY <1>4, ActiveIndex DEF Inv
    <3> QED
      BY <1>3, <1>7, <2>1, <2>5, <3>1, <3>2 DEF Inv, RequestFollowsJob, Terminal
  <2> QED
    BY <2>8, <2>9, <2>10 DEF Inv
<1> QED
  BY <1>1, <1>5, <1>6, <1>7, Answers

------------------------------------------------------------------------------
(* The terminal transition: the active job leaves, and with it every waiting  *)
(* request moves on to one successor.                                         *)

\* What End does to the jobs: row j is rewritten, and a successor may follow.
Ended(j, outcome, gathered) ==
    [jobs[j] EXCEPT !.state = outcome, !.gathered = gathered, !.read = FALSE, !.fanned = FALSE,
                    !.reach = IF gathered THEN @ ELSE Nothing]

LEMMA EndedType ==
  ASSUME TypeOK, NEW j \in 1..Len(jobs), NEW outcome \in Outcome, NEW gathered \in BOOLEAN
  PROVE  Ended(j, outcome, gathered) \in JobRow /\ Ended(j, outcome, gathered).state = outcome
<1>1. outcome \in JobState
  BY RequestConstants DEF JobState, Terminal
<1>2. jobs[j] \in JobRow
  BY DEF TypeOK
<1>3. (IF gathered THEN jobs[j].reach ELSE Nothing) \in Coverage
  BY <1>2, NothingType DEF JobRow
<1> QED
  BY <1>1, <1>2, <1>3 DEF Ended, JobRow

LEMMA EndJobs ==
  ASSUME Inv, NEW j \in DOMAIN jobs, NEW outcome \in Outcome, NEW gathered \in BOOLEAN,
         End(j, outcome, gathered)
  PROVE  /\ j \in Active /\ Active = {j}
         /\ jobs' \in Seq(JobRow)
         /\ \A i \in 1..Len(jobs) : i # j => jobs'[i] = jobs[i]
         /\ jobs'[j] = Ended(j, outcome, gathered)
         /\ Pending = {} => Len(jobs') = Len(jobs) /\ Active' = {}
         /\ Pending # {} => /\ Len(jobs') = Len(jobs) + 1 /\ Active' = {Len(jobs) + 1}
                            /\ jobs'[Len(jobs) + 1] = Queued(ColumnsOf(config))
<1> DEFINE ended == Ended(j, outcome, gathered)
           rows == [jobs EXCEPT ![j] = ended]
           row == Queued(ColumnsOf(config))
<1>1. j \in 1..Len(jobs) /\ j \in Active /\ Active = {j}
  <2>1. jobs[j].state = "running" /\ j \in 1..Len(jobs)
    BY ActiveIndex DEF End, Inv
  <2>2. j \in Active
    BY <2>1 DEF Active, Terminal
  <2> QED
    BY <2>1, <2>2 DEF Inv, Unique
<1>2. outcome \in Terminal
  BY RequestConstants DEF Terminal
<1>3. ended \in JobRow /\ ended.state \in Terminal
  BY <1>1, <1>2, EndedType DEF Inv
<1>4. jobs' = IF Pending = {} THEN rows ELSE Append(rows, row)
  BY DEF End, Ended
<1>5. /\ rows \in Seq(JobRow) /\ Len(rows) = Len(jobs) /\ DOMAIN rows = 1..Len(jobs)
      /\ rows[j] = ended /\ \A i \in 1..Len(jobs) : i # j => rows[i] = jobs[i]
  BY <1>3, Rewritten DEF Inv, TypeOK
<1>6. \A i \in 1..Len(jobs) : rows[i].state \in Terminal
  BY <1>1, <1>3, <1>5, ActiveIndex DEF Active, Inv
<1>7. CASE Pending = {}
  <2>1. jobs' = rows
    BY <1>4, <1>7
  <2>2. Active' = {}
    BY <1>5, <1>6, <2>1 DEF Active
  <2> QED
    BY <1>1, <1>5, <1>7, <2>1, <2>2
<1>8. CASE Pending # {}
  <2>1. row \in JobRow /\ row.state \notin Terminal
    <3>1. config \in Config
      BY DEF Inv, TypeOK
    <3> QED
      BY <3>1, PolicyType, QueuedType DEF Terminal
  <2>2. jobs' = Append(rows, row)
    BY <1>4, <1>8
  <2>3. /\ jobs' \in Seq(JobRow) /\ Len(jobs') = Len(jobs) + 1 /\ DOMAIN jobs' = 1..(Len(jobs) + 1)
        /\ \A i \in 1..Len(jobs) : jobs'[i] = rows[i]
        /\ jobs'[Len(jobs) + 1] = row
    BY <1>5, <2>1, <2>2, Appended
  <2>4. Len(jobs) \in Nat
    BY ActiveIndex DEF Inv
  <2>5. \A i \in 1..(Len(jobs) + 1) : i \in 1..Len(jobs) \/ i = Len(jobs) + 1
    BY <2>4
  <2>6. Active' = {Len(jobs) + 1}
    <3>1. Len(jobs) + 1 \in 1..(Len(jobs) + 1)
      BY <2>4
    <3> QED
      BY <1>6, <2>1, <2>3, <2>5, <3>1 DEF Active
  <2> QED
    BY <1>1, <1>5, <1>8, <2>3, <2>6
<1> QED
  BY <1>7, <1>8

\* What End does to a request: it ends with its job, moves on to the successor, or stays.
Moved(r, j, outcome) ==
    \/ requests[r].job = j /\ requests'[r] = [requests[r] EXCEPT !.status = outcome]
    \/ /\ r \in Pending /\ requests[r].job # j
       /\ requests'[r] = [requests[r] EXCEPT !.job = Len(jobs) + 1, !.status = "queued"]
    \/ r \notin Pending /\ requests[r].job # j /\ requests'[r] = requests[r]

LEMMA Settled ==
  ASSUME Inv, NEW j \in DOMAIN jobs, NEW outcome \in Outcome, NEW gathered \in BOOLEAN,
         End(j, outcome, gathered)
  PROVE  \A r \in Request : Moved(r, j, outcome)
<1>1. requests' = SettledRequests(j, outcome)
  BY DEF End
<1>2. \A r \in Request : r \in Pending => requests[r].job # j
  BY ActiveIndex DEF Pending, Inv
<1> QED
  BY <1>1, <1>2 DEF SettledRequests, NewJob, Moved

LEMMA EndInv ==
  ASSUME Inv, NEW j \in DOMAIN jobs, NEW outcome \in Outcome, NEW gathered \in BOOLEAN,
         End(j, outcome, gathered)
  PROVE  Inv'
<1>1. Len(jobs) \in Nat /\ j \in 1..Len(jobs) /\ Len(jobs') \in {Len(jobs), Len(jobs) + 1}
  BY EndJobs, ActiveIndex DEF Inv
<1>2. outcome \in Terminal /\ outcome \in JobState
  BY RequestConstants DEF Terminal, JobState
<1>3. \A r \in Request : requests[r].job \in 0..Len(jobs) /\ requests[r] \in RequestRow
  BY DEF Inv, TypeOK
<1>4. \A r \in Request : Moved(r, j, outcome)
  BY Settled
<1>5. ASSUME NEW r \in Request
      PROVE  /\ requests'[r] \in RequestRow
             /\ requests'[r].job \in 0..Len(jobs')
             /\ ~(requests'[r].status = "queued" /\ requests'[r].job = 0)
  <2>1. requests[r] \in RequestRow /\ requests[r].job \in 0..Len(jobs)
    BY <1>3
  <2>2. CASE requests[r].job = j
    <3>1. requests'[r] = [requests[r] EXCEPT !.status = outcome]
      BY <1>1, <1>4, <2>2 DEF Moved, Pending
    <3> QED
      BY <1>1, <1>2, <2>1, <2>2, <3>1 DEF RequestRow, Terminal
  <2>3. CASE r \in Pending
    <3>1. requests[r].job # j
      BY <1>1, <2>3 DEF Pending
    <3>2. requests'[r] = [requests[r] EXCEPT !.job = Len(jobs) + 1, !.status = "queued"]
      BY <1>4, <2>3, <3>1 DEF Moved
    <3>3. Len(jobs') = Len(jobs) + 1 /\ Len(jobs) + 1 \in Nat /\ Len(jobs) + 1 # 0
      BY <1>1, <2>3, EndJobs
    <3>4. "queued" \in JobState
      BY DEF JobState
    <3>5. requests'[r] \in RequestRow
      BY <2>1, <3>2, <3>3, <3>4 DEF RequestRow
    <3>6. requests'[r].job = Len(jobs) + 1
      BY <2>1, <3>2 DEF RequestRow
    <3> QED
      BY <3>3, <3>5, <3>6
  <2>4. CASE requests[r].job # j /\ r \notin Pending
    <3>1. requests'[r] = requests[r]
      BY <1>4, <2>4 DEF Moved
    <3> QED
      BY <1>1, <2>1, <2>4, <3>1 DEF Pending
  <2> QED
    BY <2>2, <2>3, <2>4
<1>6. requests' \in [Request -> RequestRow]
  <2>1. requests' = SettledRequests(j, outcome)
    BY DEF End
  <2>2. SettledRequests(j, outcome) = [r \in Request |-> SettledRequests(j, outcome)[r]]
    BY DEF SettledRequests
  <2> QED
    BY <1>5, <2>1, <2>2
<1>7. coverage' \in Coverage
  <2>1. JobCoverage(jobs[j], config) \in Coverage
    <3>1. jobs[j] \in JobRow /\ config \in Config
      BY DEF Inv, TypeOK
    <3>2. /\ jobs[j].maxVideos \in Nat /\ jobs[j].commentPages \in Nat
          /\ config.limit \in Nat /\ config.commentPages \in Nat
      BY <3>1 DEF JobRow, Config
    <3>3. /\ OrElse(OrElse(jobs[j].commentPages, config.commentPages), 1) \in Nat
          /\ OrElse(jobs[j].maxVideos, config.limit) \in Nat
      BY <3>2 DEF OrElse
    <3>4. Limit(IF Type = "channel" THEN OrElse(jobs[j].maxVideos, config.limit)
                                    ELSE config.limit) \in Nat
      BY <3>2, <3>3, PolicyConstants DEF Limit, OrElse
    <3> QED
      BY <3>1, <3>3, <3>4 DEF JobCoverage, Coverage, JobRow, Config
  <2>2. [JobCoverage(jobs[j], config) EXCEPT !.complete = TRUE] \in Coverage
    BY <2>1 DEF Coverage
  <2> QED
    BY <2>2 DEF End, Inv, TypeOK
<1>8. TypeOK'
  BY <1>5, <1>6, <1>7, EndJobs DEF End, Inv, TypeOK
<1>9. Unique'
  BY EndJobs DEF Unique
<1>10. PendingHasActive'
  BY <1>5 DEF PendingHasActive, Unattended
<1>11. RequestFollowsJob'
  <2> SUFFICES ASSUME NEW r \in Request, requests'[r].job # 0
               PROVE  requests'[r].status =
                        IF jobs'[requests'[r].job].state \in Terminal
                        THEN jobs'[requests'[r].job].state ELSE "queued"
    BY DEF RequestFollowsJob
  <2>1. CASE requests[r].job = j
    <3>1. requests'[r].job = j /\ requests'[r].status = outcome
      BY <1>1, <1>3, <1>4, <2>1 DEF Moved, Pending, RequestRow
    <3>2. jobs'[j].state = outcome
      BY <1>1, EndJobs, EndedType DEF Inv
    <3> QED
      BY <1>2, <3>1, <3>2
  <2>2. CASE r \in Pending
    <3>1. requests'[r].job = Len(jobs) + 1 /\ requests'[r].status = "queued"
      BY <1>1, <1>3, <1>4, <2>2 DEF Moved, Pending, RequestRow
    <3>2. jobs'[Len(jobs) + 1].state \notin Terminal
      BY <2>2, EndJobs DEF Queued, Terminal
    <3> QED
      BY <3>1, <3>2
  <2>3. CASE requests[r].job # j /\ r \notin Pending
    <3>1. requests'[r] = requests[r]
      BY <1>4, <2>3 DEF Moved
    <3>2. requests[r].job \in 1..Len(jobs)
      BY <1>1, <1>3, <3>1
    <3>3. jobs'[requests[r].job] = jobs[requests[r].job]
      BY <2>3, <3>2, EndJobs
    <3> QED
      BY <3>1, <3>3 DEF Inv, RequestFollowsJob
  <2> QED
    BY <2>1, <2>2, <2>3
<1> QED
  BY <1>8, <1>9, <1>10, <1>11 DEF Inv

------------------------------------------------------------------------------
(* Every step. *)

\* The steps of a job in the hands of the workers, short of its end, rewrite the row
\* of an active job: its columns stay, and so does what it is bound to collect, but for
\* a first reading.
LEMMA WorkRow ==
  ASSUME Inv, NEW j \in DOMAIN jobs,
         \/ Claim(j) \/ FanOut(j) \/ Pause(j)
         \/ \E newest \in BOOLEAN : Read(j, newest)
  PROVE  \E row \in JobRow :
            /\ j \in Active /\ Rewrite(j, row) /\ row.state \notin Terminal \union {"queued"}
            /\ UNCHANGED <<config, coverage, requests, pin, dispatching, extras>>
            /\ row.includeComments = jobs[j].includeComments
            /\ row.maxVideos = jobs[j].maxVideos /\ row.commentPages = jobs[j].commentPages
            /\ \/ row.reach = jobs[j].reach /\ (row.read \/ row.fanned => jobs[j].read \/ jobs[j].fanned)
               \/ row.reach = Reach(jobs[j], config)
               \/ Refresh
<1>1. jobs[j] \in JobRow /\ config \in Config
  BY ActiveIndex DEF Inv, TypeOK
<1>2. CASE Claim(j)
  <2> DEFINE row == [jobs[j] EXCEPT !.state = "running", !.read = FALSE]
  <2>1. row \in JobRow /\ row.state = "running" /\ row.reach = jobs[j].reach
        /\ row.fanned = jobs[j].fanned /\ ~row.read
        /\ row.includeComments = jobs[j].includeComments
        /\ row.maxVideos = jobs[j].maxVideos /\ row.commentPages = jobs[j].commentPages
    BY <1>1 DEF JobRow, JobState
  <2>2. j \in Active /\ Rewrite(j, row)
    BY <1>2 DEF Claim, Active, Waiting, Terminal
  <2> QED
    BY <1>2, <2>1, <2>2 DEF Claim, Terminal
<1>3. CASE FanOut(j)
  <2> DEFINE row == [jobs[j] EXCEPT !.state = "waiting_retry", !.read = FALSE, !.fanned = TRUE]
  <2>1. row \in JobRow /\ row.state = "waiting_retry" /\ row.reach = jobs[j].reach
        /\ row.includeComments = jobs[j].includeComments
        /\ row.maxVideos = jobs[j].maxVideos /\ row.commentPages = jobs[j].commentPages
    BY <1>1 DEF JobRow, JobState, Waiting
  <2>2. j \in Active /\ Rewrite(j, row) /\ jobs[j].read
    BY <1>3 DEF FanOut, Active, Terminal
  <2> QED
    BY <1>3, <2>1, <2>2 DEF FanOut, Terminal
<1>4. CASE Pause(j)
  <2> DEFINE row == [jobs[j] EXCEPT !.state = "waiting_retry", !.read = FALSE]
  <2>1. row \in JobRow /\ row.state = "waiting_retry" /\ row.reach = jobs[j].reach
        /\ row.includeComments = jobs[j].includeComments
        /\ row.maxVideos = jobs[j].maxVideos /\ row.commentPages = jobs[j].commentPages
    BY <1>1 DEF JobRow, JobState, Waiting
  <2>2. j \in Active /\ Rewrite(j, row) /\ jobs[j].read
    BY <1>4 DEF Pause, Active, Terminal
  <2> QED
    BY <1>4, <2>1, <2>2 DEF Pause, Terminal
<1>5. ASSUME NEW newest \in BOOLEAN, Read(j, newest)
      PROVE  \E row \in JobRow :
            /\ j \in Active /\ Rewrite(j, row) /\ row.state \notin Terminal \union {"queued"}
            /\ UNCHANGED <<config, coverage, requests, pin, dispatching, extras>>
            /\ row.includeComments = jobs[j].includeComments
            /\ row.maxVideos = jobs[j].maxVideos /\ row.commentPages = jobs[j].commentPages
            /\ \/ row.reach = jobs[j].reach /\ (row.read \/ row.fanned => jobs[j].read \/ jobs[j].fanned)
               \/ row.reach = Reach(jobs[j], config)
               \/ Refresh
  <2> DEFINE reach == IF jobs[j].fanned THEN jobs[j].reach
                      ELSE IF newest THEN Nothing ELSE Reach(jobs[j], config)
             row == [jobs[j] EXCEPT !.read = TRUE, !.reach = reach]
  <2>1. reach \in Coverage
    <3>1. Reach(jobs[j], config) \in Coverage
      BY <1>1, ReachType
    <3> QED
      BY <1>1, <3>1, NothingType DEF JobRow
  <2>2. row \in JobRow /\ row.state = jobs[j].state /\ row.reach = reach
        /\ row.includeComments = jobs[j].includeComments
        /\ row.maxVideos = jobs[j].maxVideos /\ row.commentPages = jobs[j].commentPages
    BY <1>1, <2>1 DEF JobRow
  <2>3. jobs[j].state = "running" /\ j \in Active
    BY <1>5 DEF Read, Active, Terminal
  <2>4. Rewrite(j, row) /\ UNCHANGED <<config, coverage, requests, pin, dispatching, extras>>
    BY <1>5 DEF Read
  <2>5. \/ jobs[j].fanned /\ reach = jobs[j].reach
        \/ reach = Reach(jobs[j], config)
        \/ Refresh
    BY <1>5 DEF Read
  <2> QED
    BY <2>2, <2>3, <2>4, <2>5 DEF Terminal
<1> QED
  BY <1>2, <1>3, <1>4, <1>5

LEMMA StepInv == Inv /\ [Next]_vars => Inv'
<1> SUFFICES ASSUME Inv, [Next]_vars
             PROVE  Inv'
  OBVIOUS
<1>1. CASE UNCHANGED vars
  BY <1>1 DEF vars, Inv, TypeOK, Unique, Active, PendingHasActive, Unattended, RequestFollowsJob
<1>2. ASSUME NEW r \in Request, NEW c \in Wishes, NEW force \in BOOLEAN, Submit(r, c, force)
      PROVE  Inv'
  BY <1>2, SubmitInv
<1>3. ASSUME NEW r \in Request, Resubmit(r)
      PROVE  Inv'
  BY <1>1, <1>3 DEF Resubmit
<1>4. ASSUME NEW columns \in DirectJobs, CreateJob(columns)
      PROVE  Inv'
  <2>1. columns \in Columns
    BY RequestConstants
  <2>2. pin' \in {"none", "later", "due"} /\ dispatching' \in BOOLEAN /\ extras' \in 0..MaxExtra
    BY <1>4, RequestConstants DEF CreateJob, Extra, Inv, TypeOK
  <2> QED
    BY <1>4, <2>1, <2>2, ExtraInv DEF CreateJob
<1>5. ASSUME NEW j \in DOMAIN jobs, Work(j)
      PROVE  Inv'
  <2>1. CASE EndSomehow(j)
    BY <2>1, EndInv DEF EndSomehow
  <2>2. CASE ~EndSomehow(j)
    <3>1. PICK row \in JobRow :
             /\ j \in Active /\ Rewrite(j, row) /\ row.state \notin Terminal
             /\ UNCHANGED <<config, coverage, requests, pin, dispatching, extras>>
      BY <1>5, <2>2, WorkRow DEF Work
    <3> QED
      BY <3>1, WorkInv
  <2> QED
    BY <2>1, <2>2
<1>6. CASE PinDue
  <2>1. jobs' = jobs /\ Active' = Active
    BY <1>6 DEF PinDue, Active
  <2> QED
    BY <1>6, <2>1
    DEF PinDue, Inv, TypeOK, Unique, PendingHasActive, Unattended, RequestFollowsJob
<1>7. CASE DispatchLook
  <2>1. jobs' = jobs /\ Active' = Active
    BY <1>7 DEF DispatchLook, Active
  <2>2. TypeOK'
    BY <1>7, <2>1, RequestConstants DEF DispatchLook, Extra, Inv, TypeOK
  <2> QED
    BY <1>7, <2>1, <2>2
    DEF DispatchLook, Inv, Unique, PendingHasActive, Unattended, RequestFollowsJob
<1>8. CASE DispatchInsert
  <2>1. ColumnsOf(config) \in Columns
    BY PolicyType DEF Inv, TypeOK
  <2> QED
    BY <1>8, <2>1, ExtraInv DEF DispatchInsert, Inv, TypeOK
<1>9. CASE DispatchFails
  <2>1. jobs' = jobs /\ Active' = Active
    BY <1>9 DEF DispatchFails, Active
  <2> QED
    BY <1>9, <2>1
    DEF DispatchFails, Inv, TypeOK, Unique, PendingHasActive, Unattended, RequestFollowsJob
<1> QED
  BY <1>1, <1>2, <1>3, <1>4, <1>5, <1>6, <1>7, <1>8, <1>9 DEF Next

THEOREM Invariance == Spec => []Inv
  BY InitInv, StepInv, PTL DEF Spec

\* Every reachable state is type correct; in particular a request's job exists.
THEOREM TypeCorrect == Spec => []TypeOK
<1>1. Inv => TypeOK
  BY DEF Inv
<1> QED
  BY <1>1, Invariance, PTL

\* Whatever submissions, direct jobs, dispatches and successors meet on a target, it
\* has at most one active job.
THEOREM OneActive == Spec => []OneActiveJob
<1>1. Inv => OneActiveJob
  BY UniqueMeansOne DEF Inv
<1> QED
  BY <1>1, Invariance, PTL

\* A request without a job always has an active job whose end will give it one.
THEOREM NobodyForgotten == Spec => []PendingHasActive
<1>1. Inv => PendingHasActive
  BY DEF Inv
<1> QED
  BY <1>1, Invariance, PTL

\* The status of a request is that of its job.
THEOREM AnswersAgree == Spec => []RequestFollowsJob
<1>1. Inv => RequestFollowsJob
  BY DEF Inv
<1> QED
  BY <1>1, Invariance, PTL

\* No step touches a request that was answered.
LEMMA StepFinal ==
  ASSUME Inv, [Next]_vars, NEW r \in Request, requests[r].status \in Terminal
  PROVE  requests'[r] = requests[r]
<1>1. ASSUME NEW q \in Request, NEW c \in Wishes, NEW force \in BOOLEAN, Submit(q, c, force)
      PROVE  requests'[r] = requests[r]
  BY <1>1 DEF Submit, Inv, TypeOK, Terminal
<1>2. ASSUME NEW j \in DOMAIN jobs, EndSomehow(j)
      PROVE  requests'[r] = requests[r]
  <2>1. PICK outcome \in Outcome, gathered \in BOOLEAN : End(j, outcome, gathered)
    BY <1>2 DEF EndSomehow
  <2>2. requests' = SettledRequests(j, outcome) /\ jobs[j].state = "running"
    BY <2>1 DEF End
  <2>3. requests[r].job # j
    <3>1. SUFFICES ASSUME requests[r].job = j
                   PROVE  FALSE
      OBVIOUS
    <3>2. j # 0
      BY ActiveIndex DEF Inv
    <3>3. requests[r].status = "queued"
      BY <2>2, <3>1, <3>2 DEF Inv, RequestFollowsJob, Terminal
    <3> QED
      BY <3>3 DEF Terminal
  <2>4. r \notin Pending
    BY DEF Pending, Terminal
  <2> QED
    BY <2>2, <2>3, <2>4 DEF SettledRequests
<1>3. CASE UNCHANGED requests
  BY <1>3
<1> QED
  BY <1>1, <1>2, <1>3
  DEF Next, vars, Resubmit, CreateJob, Work, Claim, FanOut, Pause, Read, Rewrite,
      PinDue, DispatchLook, DispatchInsert, DispatchFails

\* A request that was answered is never answered again, reopened or given another job.
THEOREM AnswersKept == Spec => AnswersFinal
<1>1. Inv /\ [Next]_vars =>
        [\A r \in Request : requests[r].status \in Terminal => requests'[r] = requests[r]]_vars
  BY StepFinal
<1> QED
  BY <1>1, Invariance, PTL DEF Spec, AnswersFinal

------------------------------------------------------------------------------
(***************************************************************************)
(* While nobody asks for every video of a channel, a completed request was  *)
(* given what it asked for.  The argument: the configuration of the target  *)
(* only widens and grants every wish submitted so far; a job that somebody  *)
(* waits for has, whenever it reads the configuration, columns and           *)
(* configuration that together reach the wishes of all who wait for it.      *)
(***************************************************************************)

Bounded == \A c \in Wishes : ~c.collectAllVideos

\* A configuration of which every job made from it serves the wish.
Grants(c, wish) ==
    /\ ~wish.collectAllVideos
    /\ c.limit >= 1 /\ c.commentPages >= 1
    /\ Limit(c.limit) >= wish.limit
    /\ c.commentPages >= wish.commentPages
    /\ wish.includeComments => c.includeComments
    /\ wish.collectAllComments => c.collectAllComments

\* What holds between a job and the wish of a request attached to it.
Served(job, c, wish) ==
    IF job.state \in Terminal
    THEN job.state \in {"completed", "completed_with_warnings"} => Covers(job.reach, wish)
    ELSE /\ Covers(Reach(job, c), wish)
         /\ job.read \/ job.fanned => Covers(job.reach, wish)

ServedInv ==
    /\ ~config.collectAllVideos
    /\ \A r \in Request : requests[r].status # "none" => Grants(config, requests[r].wish)
    /\ \A k \in 1..Len(jobs) : jobs[k].state = "queued" => ~jobs[k].read /\ ~jobs[k].fanned
    /\ \A r \in Request : requests[r].job # 0 =>
          Served(jobs[requests[r].job], config, requests[r].wish)

LEMMA ServedMeansServed == Inv /\ ServedInv => ServedAsAsked
<1> SUFFICES ASSUME Inv, ServedInv, NEW r \in Request, requests[r].job # 0,
                    requests[r].status \in {"completed", "completed_with_warnings"}
             PROVE  Covers(jobs[requests[r].job].reach, requests[r].wish)
  BY DEF ServedAsAsked
<1>1. jobs[requests[r].job].state = requests[r].status
  BY DEF Inv, RequestFollowsJob
<1> QED
  BY <1>1 DEF ServedInv, Served, Terminal

------------------------------------------------------------------------------
(* The policy only widens. *)

LEMMA LimitGrows ==
  ASSUME NEW m \in Nat, NEW n \in Nat, m >= 1, n >= m
  PROVE  Limit(n) >= Limit(m)
  BY PolicyConstants DEF Limit, OrElse

LEMMA MergeGrows ==
  ASSUME NEW c \in Config, NEW d \in Config
  PROVE  LET e == Merge(c, d) IN
         /\ e \in Config /\ e.limit >= 1 /\ e.commentPages >= 1
         /\ e.limit >= c.limit /\ e.limit >= d.limit
         /\ e.commentPages >= c.commentPages /\ e.commentPages >= d.commentPages
         /\ c.includeComments \/ d.includeComments => e.includeComments
         /\ c.collectAllComments \/ d.collectAllComments => e.collectAllComments
         /\ ~c.collectAllVideos /\ ~d.collectAllVideos => ~e.collectAllVideos
<1>1. Merge(c, d) \in Config
  BY PolicyType
<1>2. c.limit \in Nat /\ c.commentPages \in Nat /\ d.limit \in Nat /\ d.commentPages \in Nat
  BY DEF Config
<1>3. \A m, n \in Nat : LET w == Larger(OrElse(m, 1), OrElse(n, 1)) IN w >= 1 /\ w >= m /\ w >= n
  BY DEF Larger, OrElse
<1> QED
  BY <1>1, <1>2, <1>3 DEF Merge

\* A submission is granted, and so is whatever was granted before.
LEMMA MergeGrants ==
  ASSUME Bounded, NEW c \in Config, NEW d \in Wishes
  PROVE  /\ Grants(Merge(c, d), Desired(d))
         /\ \A wish \in Coverage : Grants(c, wish) => Grants(Merge(c, d), wish)
<1> DEFINE e == Merge(c, d)
<1>1. d \in Config /\ d.limit >= 1 /\ d.commentPages >= 1 /\ ~d.collectAllVideos
  BY RequestConstants DEF Bounded
<1>2. /\ e \in Config /\ e.limit >= 1 /\ e.commentPages >= 1
      /\ e.limit >= c.limit /\ e.limit >= d.limit
      /\ e.commentPages >= c.commentPages /\ e.commentPages >= d.commentPages
      /\ c.includeComments \/ d.includeComments => e.includeComments
      /\ c.collectAllComments \/ d.collectAllComments => e.collectAllComments
  BY <1>1, MergeGrows
<1>3. /\ c.limit \in Nat /\ d.limit \in Nat /\ e.limit \in Nat
      /\ c.commentPages \in Nat /\ d.commentPages \in Nat /\ e.commentPages \in Nat
  BY <1>1, <1>2 DEF Config
<1>4. Grants(e, Desired(d))
  <2>1. Limit(e.limit) >= Limit(d.limit)
    BY <1>1, <1>2, <1>3, LimitGrows
  <2>2. OrElse(d.commentPages, 1) = d.commentPages
    BY <1>1, <1>3 DEF OrElse
  <2> QED
    BY <1>1, <1>2, <2>1, <2>2 DEF Grants, Desired
<1>5. ASSUME NEW wish \in Coverage, Grants(c, wish)
      PROVE  Grants(e, wish)
  <2>1. Limit(e.limit) >= Limit(c.limit)
    BY <1>2, <1>3, <1>5, LimitGrows DEF Grants
  <2>2. Limit(c.limit) \in Nat /\ Limit(e.limit) \in Nat /\ wish.limit \in Nat /\ wish.commentPages \in Nat
    BY <1>3, PolicyConstants DEF Limit, OrElse, Coverage
  <2>3. Limit(e.limit) >= wish.limit /\ e.commentPages >= wish.commentPages
    BY <1>2, <1>3, <1>5, <2>1, <2>2 DEF Grants
  <2> QED
    BY <1>2, <1>5, <2>3 DEF Grants
<1> QED
  BY <1>4, <1>5

\* A job with the columns of a configuration reaches all that the configuration grants.
LEMMA ColumnsReach ==
  ASSUME NEW c \in Config, NEW wish \in Coverage, Grants(c, wish), NEW job \in JobRow,
         job.includeComments = ColumnsOf(c).includeComments,
         job.maxVideos = ColumnsOf(c).maxVideos, job.commentPages = ColumnsOf(c).commentPages
  PROVE  Covers(Reach(job, c), wish)
<1>1. c.limit \in Nat /\ c.commentPages \in Nat /\ c.limit >= 1 /\ c.commentPages >= 1
  BY DEF Config, Grants
<1>2. /\ job.includeComments = c.includeComments
      /\ job.maxVideos = Limit(c.limit) /\ job.commentPages = c.commentPages
  BY <1>1 DEF ColumnsOf, Desired, OrElse
<1>3. Limit(OrElse(Limit(c.limit), c.limit)) = Limit(c.limit)
  BY <1>1, PolicyConstants DEF Limit, OrElse
<1>4. OrElse(OrElse(c.commentPages, c.commentPages), 1) = c.commentPages
  BY <1>1 DEF OrElse
<1> QED
  BY <1>2, <1>3, <1>4 DEF Reach, Covers, Grants

\* What a job reaches grows with the configuration.
LEMMA ReachGrows ==
  ASSUME NEW c \in Config, NEW d \in Config, NEW wish \in Coverage, NEW job \in JobRow,
         ~wish.collectAllVideos, c.limit >= 1, c.commentPages >= 1,
         Covers(Reach(job, c), wish), ~c.collectAllVideos
  PROVE  Covers(Reach(job, Merge(c, d)), wish)
<1> DEFINE e == Merge(c, d)
<1>1. /\ e \in Config /\ e.limit >= c.limit /\ e.commentPages >= c.commentPages
      /\ c.includeComments => e.includeComments
      /\ c.collectAllComments => e.collectAllComments
  BY MergeGrows
<1>2. /\ c.limit \in Nat /\ e.limit \in Nat /\ c.commentPages \in Nat /\ e.commentPages \in Nat
      /\ job.maxVideos \in Nat /\ job.commentPages \in Nat
      /\ wish.limit \in Nat /\ wish.commentPages \in Nat
  BY <1>1 DEF Config, JobRow, Coverage
<1>3. /\ OrElse(job.maxVideos, c.limit) \in Nat /\ OrElse(job.maxVideos, e.limit) \in Nat
      /\ OrElse(job.maxVideos, c.limit) >= 1
      /\ OrElse(job.maxVideos, e.limit) >= OrElse(job.maxVideos, c.limit)
  BY <1>1, <1>2 DEF OrElse
<1>4. Limit(OrElse(job.maxVideos, e.limit)) >= Limit(OrElse(job.maxVideos, c.limit))
  BY <1>3, LimitGrows
<1>5. OrElse(OrElse(job.commentPages, e.commentPages), 1)
        >= OrElse(OrElse(job.commentPages, c.commentPages), 1)
  BY <1>1, <1>2 DEF OrElse
<1>6. Reach(job, c) \in Coverage /\ Reach(job, e) \in Coverage
  BY <1>1, ReachType
<1>7. Reach(job, e).limit >= Reach(job, c).limit /\ Reach(job, e).commentPages >= Reach(job, c).commentPages
  BY <1>4, <1>5 DEF Reach
<1>8. Reach(job, c).limit >= wish.limit
  BY DEF Covers, Reach
<1>9. /\ Reach(job, c).limit \in Nat /\ Reach(job, e).limit \in Nat
      /\ Reach(job, c).commentPages \in Nat /\ Reach(job, e).commentPages \in Nat
  BY <1>6 DEF Coverage
<1>10. Reach(job, e).limit >= wish.limit
  BY <1>2, <1>7, <1>8, <1>9
<1>11. ASSUME wish.includeComments
       PROVE  /\ Reach(job, e).includeComments
              /\ \/ Reach(job, e).collectAllComments
                 \/ ~wish.collectAllComments /\ Reach(job, e).commentPages >= wish.commentPages
  <2>1. Reach(job, e).includeComments
    BY <1>1, <1>11 DEF Covers, Reach
  <2>2. CASE Reach(job, c).collectAllComments
    BY <1>1, <2>1, <2>2 DEF Reach
  <2>3. CASE ~Reach(job, c).collectAllComments
    <3>1. ~wish.collectAllComments /\ Reach(job, c).commentPages >= wish.commentPages
      BY <1>11, <2>3 DEF Covers
    <3> QED
      BY <1>2, <1>7, <1>9, <2>1, <3>1
  <2> QED
    BY <2>2, <2>3
<1> QED
  BY <1>10, <1>11 DEF Covers

------------------------------------------------------------------------------
(* The steps. *)

LEMMA Rows ==
  ASSUME Inv
  PROVE  /\ config \in Config /\ Len(jobs) \in Nat
         /\ \A k \in 1..Len(jobs) : jobs[k] \in JobRow
         /\ \A r \in Request : /\ requests[r] \in RequestRow /\ requests[r].wish \in Coverage
                               /\ requests[r].job \in 0..Len(jobs)
                               /\ requests[r].job # 0 => requests[r].job \in 1..Len(jobs)
                               /\ requests[r].job # 0 => requests[r].status # "none"
<1>1. /\ config \in Config /\ Len(jobs) \in Nat
      /\ \A k \in 1..Len(jobs) : jobs[k] \in JobRow
      /\ \A r \in Request : requests[r] \in RequestRow /\ requests[r].job \in 0..Len(jobs)
  BY ActiveIndex DEF Inv, TypeOK
<1>2. \A r \in Request : requests[r].job # 0 => requests[r].status # "none"
  BY DEF Inv, RequestFollowsJob, Terminal
<1> QED
  BY <1>1, <1>2 DEF RequestRow

\* A wider configuration takes nothing from a job that is already serving.
LEMMA StillServed ==
  ASSUME Inv, ServedInv, NEW c \in Wishes, NEW r \in Request, requests[r].job # 0
  PROVE  Served(jobs[requests[r].job], Merge(config, c), requests[r].wish)
<1> DEFINE job == jobs[requests[r].job]
<1>1. job \in JobRow /\ config \in Config /\ c \in Config /\ requests[r].wish \in Coverage
  BY Rows, RequestConstants
<1>2. Served(job, config, requests[r].wish) /\ Grants(config, requests[r].wish)
  BY Rows DEF ServedInv
<1>3. Covers(Reach(job, config), requests[r].wish) =>
          Covers(Reach(job, Merge(config, c)), requests[r].wish)
  BY <1>1, <1>2, ReachGrows DEF ServedInv, Grants
<1> QED
  BY <1>2, <1>3 DEF Served

LEMMA SubmitServed ==
  ASSUME Bounded, Inv, ServedInv, NEW r \in Request, NEW c \in Wishes, NEW force \in BOOLEAN,
         Submit(r, c, force)
  PROVE  ServedInv'
<1> DEFINE answer == Answer(Desired(c), force, config)
           merged == Merge(config, c)
           request == [status |-> answer[1], job |-> answer[2], wish |-> Desired(c)]
<1>1. /\ c \in Config /\ ~c.collectAllVideos
      /\ Desired(c) \in Coverage /\ merged \in Config /\ ColumnsOf(merged) \in Columns
  <2>1. c \in Config /\ ~c.collectAllVideos
    BY RequestConstants DEF Bounded
  <2>2. Desired(c) \in Coverage /\ merged \in Config
    BY <2>1, Rows, PolicyType
  <2> QED
    BY <2>1, <2>2, PolicyType
<1>2. config' = merged /\ requests' = [requests EXCEPT ![r] = request] /\ requests[r].status = "none"
  BY DEF Submit
<1>3. requests'[r] = request /\ \A q \in Request : q # r => requests'[q] = requests[q]
  BY <1>2 DEF Inv, TypeOK
<1>4. ~config'.collectAllVideos
  BY <1>1, <1>2, Rows, MergeGrows DEF ServedInv
<1>5. \A q \in Request : requests'[q].status # "none" => Grants(config', requests'[q].wish)
  BY <1>2, <1>3, Rows, MergeGrants DEF ServedInv
<1>6. \A q \in Request : q # r /\ requests[q].job # 0 =>
          Served(jobs[requests[q].job], config', requests[q].wish)
  BY <1>2, StillServed
<1>7. ASSUME answer = <<"completed", 0>> \/ answer = <<"queued", 0>>
      PROVE  ServedInv'
  <2>1. answer[2] = 0 /\ 0 \notin Active
    BY <1>7, ActiveIndex DEF Inv
  <2>2. jobs' = jobs
    BY <2>1 DEF Submit
  <2> QED
    BY <1>3, <1>4, <1>5, <1>6, <2>1, <2>2 DEF ServedInv
<1>8. ASSUME answer = <<"queued", NewJob>>, Active = {}
      PROVE  ServedInv'
  <2> DEFINE row == Queued(ColumnsOf(merged))
  <2>1. row \in JobRow /\ row.state = "queued" /\ ~row.read /\ ~row.fanned
    BY <1>1, QueuedType DEF Queued
  <2>2. answer[1] = "queued" /\ answer[2] = Len(jobs) + 1 /\ answer[2] # 0 /\ answer[2] \notin Active
    BY <1>8, Rows DEF NewJob
  <2>3. jobs' = Append(jobs, row)
    BY <2>2 DEF Submit
  <2>4. /\ Len(jobs') = Len(jobs) + 1 /\ jobs'[Len(jobs) + 1] = row
        /\ \A i \in 1..Len(jobs) : jobs'[i] = jobs[i]
    BY <1>8, <2>1, <2>3, NewActive DEF Inv
  <2>5. Served(row, merged, Desired(c))
    <3>1. Covers(Reach(row, merged), Desired(c))
      <4>1. /\ row.includeComments = ColumnsOf(merged).includeComments
            /\ row.maxVideos = ColumnsOf(merged).maxVideos
            /\ row.commentPages = ColumnsOf(merged).commentPages
        BY DEF Queued
      <4>2. Grants(merged, Desired(c))
        BY Rows, MergeGrants
      <4> QED
        BY <1>1, <2>1, <4>1, <4>2, ColumnsReach
    <3> QED
      BY <2>1, <3>1 DEF Served, Terminal
  <2>6. \A k \in 1..Len(jobs') : jobs'[k].state = "queued" => ~jobs'[k].read /\ ~jobs'[k].fanned
    <3>1. \A k \in 1..(Len(jobs) + 1) : k \in 1..Len(jobs) \/ k = Len(jobs) + 1
      BY Rows
    <3> QED
      BY <2>1, <2>4, <3>1 DEF ServedInv
  <2>7. ASSUME NEW q \in Request, requests'[q].job # 0
        PROVE  Served(jobs'[requests'[q].job], config', requests'[q].wish)
    <3>1. CASE q = r
      BY <1>2, <1>3, <2>2, <2>4, <2>5, <3>1
    <3>2. CASE q # r
      BY <1>3, <1>6, <2>4, <2>7, <3>2, Rows
    <3> QED
      BY <3>1, <3>2
  <2> QED
    BY <1>4, <1>5, <2>6, <2>7 DEF ServedInv
<1>9. ASSUME NEW a \in Active, answer = <<"queued", a>>, jobs[a].state = "queued"
      PROVE  ServedInv'
  <2> DEFINE row == Widened(jobs[a], ColumnsOf(merged))
  <2>1. a \in 1..Len(jobs) /\ a # 0 /\ jobs[a] \in JobRow
    BY ActiveIndex DEF Inv
  <2>2. /\ row \in JobRow /\ row.state = "queued"
        /\ row.read = jobs[a].read /\ row.fanned = jobs[a].fanned
        /\ row.includeComments = ColumnsOf(merged).includeComments
        /\ row.maxVideos = ColumnsOf(merged).maxVideos
        /\ row.commentPages = ColumnsOf(merged).commentPages
    BY <1>1, <1>9, <2>1 DEF Widened, JobRow, Columns
  <2>3. jobs' = [jobs EXCEPT ![a] = row]
    BY <1>9, <2>1 DEF Submit
  <2>4. /\ Len(jobs') = Len(jobs) /\ jobs'[a] = row
        /\ \A i \in 1..Len(jobs) : i # a => jobs'[i] = jobs[i]
    BY <2>2, <2>3, StillActive DEF Inv, Rewrite, Terminal
  <2>5. ~row.read /\ ~row.fanned
    BY <1>9, <2>1, <2>2 DEF ServedInv
  <2>6. \A wish \in Coverage : Grants(merged, wish) => Served(row, merged, wish)
    BY <1>1, <2>2, <2>5, ColumnsReach DEF Served, Terminal
  <2>7. \A k \in 1..Len(jobs') : jobs'[k].state = "queued" => ~jobs'[k].read /\ ~jobs'[k].fanned
    BY <2>4, <2>5 DEF ServedInv
  <2>8. ASSUME NEW q \in Request, requests'[q].job # 0
        PROVE  Served(jobs'[requests'[q].job], config', requests'[q].wish)
    <3>1. requests'[q].wish \in Coverage
      BY <1>1, <1>3, Rows
    <3>2. requests'[q].status # "none"
      BY <1>3, <1>9, <2>8, Rows
    <3>3. CASE requests'[q].job = a
      BY <1>2, <1>5, <2>4, <2>6, <3>1, <3>2, <3>3
    <3>4. CASE requests'[q].job # a
      <4>1. q # r
        BY <1>3, <1>9, <3>4
      <4> QED
        BY <1>3, <1>6, <2>4, <2>8, <3>4, <4>1, Rows
    <3> QED
      BY <3>3, <3>4
  <2> QED
    BY <1>4, <1>5, <2>7, <2>8 DEF ServedInv
<1> QED
  BY <1>1, <1>7, <1>8, <1>9, Answers

\* A step on an active job short of its end.
LEMMA WorkServed ==
  ASSUME Inv, ServedInv, NEW j \in DOMAIN jobs,
         \/ Claim(j) \/ FanOut(j) \/ Pause(j)
         \/ \E newest \in BOOLEAN : Read(j, newest)
  PROVE  ServedInv'
<1>1. PICK row \in JobRow :
         /\ j \in Active /\ Rewrite(j, row) /\ row.state \notin Terminal \union {"queued"}
         /\ UNCHANGED <<config, coverage, requests, pin, dispatching, extras>>
         /\ row.includeComments = jobs[j].includeComments
         /\ row.maxVideos = jobs[j].maxVideos /\ row.commentPages = jobs[j].commentPages
         /\ \/ row.reach = jobs[j].reach /\ (row.read \/ row.fanned => jobs[j].read \/ jobs[j].fanned)
            \/ row.reach = Reach(jobs[j], config)
            \/ Refresh
  BY WorkRow
<1>2. ~Refresh
  BY DEF Refresh, ServedInv
<1>3. /\ Len(jobs') = Len(jobs) /\ jobs'[j] = row
      /\ \A i \in 1..Len(jobs) : i # j => jobs'[i] = jobs[i]
  BY <1>1, StillActive DEF Inv
<1>4. Reach(row, config) = Reach(jobs[j], config)
  BY <1>1 DEF Reach
<1>5. \A k \in 1..Len(jobs') : jobs'[k].state = "queued" => ~jobs'[k].read /\ ~jobs'[k].fanned
  BY <1>1, <1>3 DEF ServedInv
<1>6. ASSUME NEW r \in Request, requests[r].job # 0
      PROVE  Served(jobs'[requests[r].job], config, requests[r].wish)
  <2>1. Served(jobs[requests[r].job], config, requests[r].wish) /\ requests[r].job \in 1..Len(jobs)
    BY <1>6, Rows DEF ServedInv
  <2>2. CASE requests[r].job = j
    BY <1>1, <1>2, <1>3, <1>4, <2>1, <2>2 DEF Served, Active
  <2>3. CASE requests[r].job # j
    BY <1>3, <2>1, <2>3
  <2> QED
    BY <2>2, <2>3
<1> QED
  BY <1>1, <1>5, <1>6 DEF ServedInv

LEMMA EndServed ==
  ASSUME Inv, ServedInv, NEW j \in DOMAIN jobs, NEW outcome \in Outcome, NEW gathered \in BOOLEAN,
         End(j, outcome, gathered)
  PROVE  ServedInv'
<1> DEFINE row == Queued(ColumnsOf(config))
           ended == Ended(j, outcome, gathered)
<1>1. j \in 1..Len(jobs) /\ jobs[j] \in JobRow /\ outcome \in Terminal /\ config' = config
  BY ActiveIndex, RequestConstants DEF Inv, Terminal, End
<1>2. ended.state = outcome /\ (gathered => ended.reach = jobs[j].reach)
  BY <1>1 DEF Ended, JobRow
<1>3. row \in JobRow /\ row.state = "queued" /\ ~row.read /\ ~row.fanned
  BY Rows, PolicyType, QueuedType DEF Queued
<1>4. \A r \in Request : Moved(r, j, outcome)
  BY Settled
<1>5. \A k \in 1..Len(jobs') :
          \/ k = j /\ jobs'[k] = ended
          \/ k \in 1..Len(jobs) /\ jobs'[k] = jobs[k]
          \/ jobs'[k] = row
  <2>1. \A k \in 1..(Len(jobs) + 1) : k \in 1..Len(jobs) \/ k = Len(jobs) + 1
    BY Rows
  <2> QED
    BY <1>1, <2>1, EndJobs
<1>6. \A k \in 1..Len(jobs') : jobs'[k].state = "queued" => ~jobs'[k].read /\ ~jobs'[k].fanned
  BY <1>1, <1>2, <1>3, <1>5 DEF ServedInv, Terminal
<1>7. ASSUME NEW r \in Request
      PROVE  /\ requests'[r].status # "none" => Grants(config', requests'[r].wish)
             /\ requests'[r].job # 0 => Served(jobs'[requests'[r].job], config', requests'[r].wish)
  <2>1. /\ requests[r] \in RequestRow /\ requests[r].wish \in Coverage
        /\ requests[r].job # 0 => requests[r].job \in 1..Len(jobs) /\ requests[r].status # "none"
    BY Rows
  <2>2. CASE requests[r].job = j
    <3>1. requests'[r] = [requests[r] EXCEPT !.status = outcome]
      BY <1>1, <1>4, <2>2 DEF Moved, Pending
    <3>2. requests'[r].wish = requests[r].wish /\ requests'[r].job = j
      BY <2>1, <2>2, <3>1 DEF RequestRow
    <3>3. Served(jobs[j], config, requests[r].wish) /\ Grants(config, requests[r].wish)
      BY <1>1, <2>1, <2>2 DEF ServedInv
    <3>4. jobs[j].state \notin Terminal /\ (outcome # "failed" => jobs[j].read /\ gathered)
      BY DEF End, Terminal
    <3>5. Served(ended, config, requests[r].wish)
      BY <1>1, <1>2, <3>3, <3>4 DEF Served
    <3> QED
      BY <1>1, <3>2, <3>3, <3>5, EndJobs
  <2>3. CASE r \in Pending
    <3>1. requests[r].job = 0 /\ requests[r].status = "queued" /\ j # 0
      BY <1>1, <2>3 DEF Pending
    <3>2. requests'[r] = [requests[r] EXCEPT !.job = Len(jobs) + 1, !.status = "queued"]
      BY <1>4, <2>3, <3>1 DEF Moved
    <3>3. requests'[r].wish = requests[r].wish /\ requests'[r].job = Len(jobs) + 1
      BY <2>1, <3>2 DEF RequestRow
    <3>4. Grants(config, requests[r].wish)
      BY <3>1 DEF ServedInv
    <3>5. Covers(Reach(row, config), requests[r].wish)
      <4>1. /\ row.includeComments = ColumnsOf(config).includeComments
            /\ row.maxVideos = ColumnsOf(config).maxVideos
            /\ row.commentPages = ColumnsOf(config).commentPages
        BY DEF Queued
      <4> QED
        BY <1>3, <2>1, <3>4, <4>1, Rows, ColumnsReach
    <3>6. Served(row, config, requests[r].wish)
      BY <1>3, <3>5 DEF Served, Terminal
    <3>7. jobs'[Len(jobs) + 1] = row
      BY <2>3, EndJobs
    <3> QED
      BY <1>1, <3>3, <3>4, <3>6, <3>7
  <2>4. CASE requests[r].job # j /\ r \notin Pending
    <3>1. requests'[r] = requests[r]
      BY <1>4, <2>4 DEF Moved
    <3>2. requests[r].job # 0 => jobs'[requests[r].job] = jobs[requests[r].job]
      BY <2>1, <2>4, EndJobs
    <3> QED
      BY <1>1, <3>1, <3>2 DEF ServedInv
  <2> QED
    BY <2>2, <2>3, <2>4
<1> QED
  BY <1>1, <1>6, <1>7 DEF ServedInv

\* A new job nobody is attached to.
LEMMA ExtraServed ==
  ASSUME Inv, ServedInv, Active = {}, NEW columns \in Columns,
         jobs' = Append(jobs, Queued(columns)), UNCHANGED <<config, requests>>
  PROVE  ServedInv'
<1>1. /\ Queued(columns) \in JobRow /\ Queued(columns).state = "queued"
      /\ ~Queued(columns).read /\ ~Queued(columns).fanned
  BY QueuedType DEF Queued
<1>2. /\ Len(jobs') = Len(jobs) + 1 /\ jobs'[Len(jobs) + 1] = Queued(columns)
      /\ \A i \in 1..Len(jobs) : jobs'[i] = jobs[i]
  BY <1>1, NewActive DEF Inv
<1>3. \A k \in 1..(Len(jobs) + 1) : k \in 1..Len(jobs) \/ k = Len(jobs) + 1
  BY Rows
<1>4. \A r \in Request : requests[r].job # 0 => jobs'[requests[r].job] = jobs[requests[r].job]
  BY <1>2, Rows
<1> QED
  BY <1>1, <1>2, <1>3, <1>4 DEF ServedInv

LEMMA StepServed ==
  ASSUME Bounded, Inv, ServedInv, [Next]_vars
  PROVE  ServedInv'
<1>1. CASE UNCHANGED <<config, jobs, requests>>
  BY <1>1 DEF ServedInv
<1>2. ASSUME NEW r \in Request, NEW c \in Wishes, NEW force \in BOOLEAN, Submit(r, c, force)
      PROVE  ServedInv'
  BY <1>2, SubmitServed
<1>3. ASSUME NEW columns \in DirectJobs, CreateJob(columns)
      PROVE  ServedInv'
  BY <1>3, ExtraServed, RequestConstants DEF CreateJob
<1>4. ASSUME NEW j \in DOMAIN jobs, Work(j)
      PROVE  ServedInv'
  BY <1>4, WorkServed, EndServed DEF Work, EndSomehow
<1>5. CASE DispatchInsert
  <2>1. ColumnsOf(config) \in Columns
    BY Rows, PolicyType
  <2> QED
    BY <1>5, <2>1, ExtraServed DEF DispatchInsert
<1> QED
  BY <1>1, <1>2, <1>3, <1>4, <1>5
  DEF Next, vars, Resubmit, PinDue, DispatchLook, DispatchFails

\* While nobody asks for every video, each request of a job that completed was given the
\* videos, comments and pages it asked for, whichever submission or terminal transition
\* attached it and whatever widened the target meanwhile.
THEOREM BoundedWishesServed ==
  ASSUME Bounded
  PROVE  Spec => []ServedAsAsked
<1>1. Init => ServedInv
  BY DEF Init, ServedInv
<1>2. Inv /\ ServedInv /\ [Next]_vars => ServedInv'
  BY StepServed
<1>3. Inv /\ ServedInv => ServedAsAsked
  BY ServedMeansServed
<1> QED
  BY <1>1, <1>2, <1>3, Invariance, PTL DEF Spec

------------------------------------------------------------------------------
(***************************************************************************)
(* A merged configuration asks for what the two ask for, no less and, if    *)
(* each of them asks for details of comments only together with comments,   *)
(* no more: whatever has been collected answers the merged one if and only  *)
(* if it answers both.                                                      *)
(***************************************************************************)

\* maxVideos, maxPagesPerRun and maxCommentPagesPerVideo are given (contracts.py).
Given(c) == c \in Config /\ c.limit >= 1 /\ c.commentPages >= 1

LEMMA MergedDesire ==
  ASSUME NEW c, NEW d, Given(c), Given(d)
  PROVE  LET e == Desired(Merge(c, d)) IN
         /\ e.limit >= Desired(c).limit /\ e.limit >= Desired(d).limit
         /\ e.limit \in {Desired(c).limit, Desired(d).limit}
         /\ e.commentPages = Larger(c.commentPages, d.commentPages)
         /\ Desired(c).commentPages = c.commentPages /\ Desired(d).commentPages = d.commentPages
<1>1. /\ c.limit \in Nat /\ d.limit \in Nat /\ c.limit >= 1 /\ d.limit >= 1
      /\ c.commentPages \in Nat /\ d.commentPages \in Nat /\ c.commentPages >= 1 /\ d.commentPages >= 1
  BY DEF Given, Config
<1>2. /\ Merge(c, d).limit = Larger(c.limit, d.limit)
      /\ Merge(c, d).commentPages = Larger(c.commentPages, d.commentPages)
  BY <1>1 DEF Merge, OrElse
<1>3. /\ Larger(c.limit, d.limit) \in {c.limit, d.limit}
      /\ Larger(c.limit, d.limit) >= c.limit /\ Larger(c.limit, d.limit) >= d.limit
      /\ Larger(c.commentPages, d.commentPages) >= 1
  BY <1>1 DEF Larger
<1>4. /\ Limit(Larger(c.limit, d.limit)) >= Limit(c.limit)
      /\ Limit(Larger(c.limit, d.limit)) >= Limit(d.limit)
      /\ Limit(Larger(c.limit, d.limit)) \in {Limit(c.limit), Limit(d.limit)}
  BY <1>1, <1>3, LimitGrows
<1>5. \A x \in Config : Desired(x).limit = Limit(x.limit) /\ Desired(x).commentPages = OrElse(x.commentPages, 1)
  BY DEF Desired
<1>6. Merge(c, d) \in Config
  BY MergeGrows DEF Given
<1> QED
  BY <1>1, <1>2, <1>3, <1>4, <1>5, <1>6 DEF OrElse, Given

\* What was collected for the merged configuration of a target answers every request
\* that was merged into it (coverage_satisfies after merge_collection_config).
THEOREM MergeAnswersBoth ==
  ASSUME NEW c, NEW d, Given(c), Given(d), NEW covered \in Coverage,
         Satisfies(covered, Desired(Merge(c, d)))
  PROVE  Satisfies(covered, Desired(c)) /\ Satisfies(covered, Desired(d))
<1> DEFINE e == Merge(c, d)
<1>1. /\ covered.limit >= Desired(e).limit /\ covered.limit \in Nat
      /\ e.includeComments => covered.commentPages >= Desired(e).commentPages
      /\ covered.commentPages \in Nat
  BY DEF Satisfies, Desired, Coverage
<1>2. /\ e.includeComments = (c.includeComments \/ d.includeComments)
      /\ e.collectAllComments = (c.collectAllComments \/ d.collectAllComments)
      /\ e.collectAllVideos = (c.collectAllVideos \/ d.collectAllVideos)
  BY DEF Merge
<1>3. covered.limit >= Desired(c).limit /\ covered.limit >= Desired(d).limit
  <2>1. Desired(c).limit \in Nat /\ Desired(d).limit \in Nat /\ Desired(e).limit \in Nat
    BY PolicyType DEF Given, Coverage
  <2> QED
    BY <1>1, <2>1, MergedDesire
<1>4. e.includeComments => /\ covered.commentPages >= Desired(c).commentPages
                           /\ covered.commentPages >= Desired(d).commentPages
  <2>1. c.commentPages \in Nat /\ d.commentPages \in Nat
    BY DEF Given, Config
  <2> QED
    BY <1>1, <2>1, MergedDesire DEF Larger
<1>5. /\ covered.complete
      /\ e.includeComments => covered.includeComments
      /\ e.includeComments /\ e.collectAllComments => covered.collectAllComments
      /\ Type = "channel" /\ e.collectAllVideos => covered.collectAllVideos
  BY DEF Satisfies, Desired
<1> HIDE DEF e
<1>6. ASSUME NEW x, x = c \/ x = d
      PROVE  /\ Desired(x).includeComments = x.includeComments
             /\ Desired(x).collectAllComments = (x.includeComments /\ x.collectAllComments)
             /\ Desired(x).collectAllVideos = (Type = "channel" /\ x.collectAllVideos)
  BY DEF Desired
<1> QED
  BY <1>2, <1>3, <1>4, <1>5, <1>6 DEF Satisfies

\* Details of comments are asked for together with comments.
WellAsked(c) == ~c.includeComments => ~c.collectAllComments /\ c.commentPages = 1

\* Nor does a merge ask for more than the requests: what answers each of them answers
\* the merged configuration.  Without the premise it does: a wish for all comments that
\* asks for no comments becomes one for all of them when another request asks for some.
THEOREM MergeAsksNoMore ==
  ASSUME NEW c, NEW d, Given(c), Given(d), WellAsked(c), WellAsked(d), NEW covered \in Coverage,
         Satisfies(covered, Desired(c)), Satisfies(covered, Desired(d))
  PROVE  Satisfies(covered, Desired(Merge(c, d)))
<1> DEFINE e == Merge(c, d)
<1>1. ASSUME NEW x
      PROVE  /\ Desired(x).includeComments = x.includeComments
             /\ Desired(x).collectAllComments = (x.includeComments /\ x.collectAllComments)
             /\ Desired(x).collectAllVideos = (Type = "channel" /\ x.collectAllVideos)
  BY DEF Desired
<1>2. /\ e.includeComments = (c.includeComments \/ d.includeComments)
      /\ e.collectAllComments = (c.collectAllComments \/ d.collectAllComments)
      /\ e.collectAllVideos = (c.collectAllVideos \/ d.collectAllVideos)
  BY DEF Merge
<1>3. covered.limit >= Desired(e).limit
  BY MergedDesire DEF Satisfies
<1>4. e.includeComments => covered.commentPages >= Desired(e).commentPages
  <2>1. c.commentPages \in Nat /\ d.commentPages \in Nat /\ covered.commentPages \in Nat
        /\ c.commentPages >= 1 /\ d.commentPages >= 1
    BY DEF Given, Config, Coverage
  <2>2. /\ c.includeComments => covered.commentPages >= c.commentPages
        /\ d.includeComments => covered.commentPages >= d.commentPages
    BY <1>1, MergedDesire DEF Satisfies
  <2>3. /\ ~c.includeComments => c.commentPages = 1
        /\ ~d.includeComments => d.commentPages = 1
    BY DEF WellAsked
  <2>4. Desired(e).commentPages = Larger(c.commentPages, d.commentPages)
    BY MergedDesire
  <2> HIDE DEF e
  <2>5. CASE c.includeComments
    BY <2>1, <2>2, <2>3, <2>4, <2>5 DEF Larger
  <2>6. CASE d.includeComments
    BY <2>1, <2>2, <2>3, <2>4, <2>6 DEF Larger
  <2> QED
    BY <1>2, <2>5, <2>6
<1>5. /\ covered.complete
      /\ c.includeComments \/ d.includeComments => covered.includeComments
      /\ c.includeComments /\ c.collectAllComments => covered.collectAllComments
      /\ d.includeComments /\ d.collectAllComments => covered.collectAllComments
      /\ Type = "channel" /\ (c.collectAllVideos \/ d.collectAllVideos) => covered.collectAllVideos
  BY <1>1 DEF Satisfies
<1> HIDE DEF e
<1> QED
  BY <1>1, <1>2, <1>3, <1>4, <1>5 DEF Satisfies, WellAsked, e

==============================================================================
