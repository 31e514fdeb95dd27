---------------------------- MODULE TargetRequests ----------------------------
(***************************************************************************)
(* The collection requests of one canonical target and the jobs that serve  *)
(* them: a submission is answered from the stored coverage, widens the      *)
(* queued job, makes a job, or waits for the successor that the terminal    *)
(* transition of the active job makes.  Direct jobs and the scheduled       *)
(* refresh of the target's pin compete with the submissions.                *)
(*                                                                          *)
(* A submission, a direct job and a terminal transition hold the lock of    *)
(* the target's row from before their first read to their commit: each is   *)
(* one step.  dispatch_due_pins does not take that lock: it is two steps.   *)
(* How a job gets through its leases, pauses and crashes is JobLease.       *)
(***************************************************************************)
EXTENDS FiniteSets, Sequences, JobStates, CollectionPolicy

CONSTANTS
    Request,     \* the submissions, each under an idempotency key of its own
    Wishes,      \* the configurations they are submitted with
    DirectJobs,  \* the columns direct jobs are created with
    Outcome,     \* the terminal states a run may end in
    MaxExtra     \* bound on direct jobs and dispatches in a behaviour

Columns == [includeComments: BOOLEAN, maxVideos: Nat, commentPages: Nat]

\* contracts.py gives every number of a submitted configuration a default of at least 1.
ASSUME RequestConstants ==
    /\ Type # "keyword"
    /\ Wishes \subseteq {c \in Config : c.limit >= 1 /\ c.commentPages >= 1}
    /\ DirectJobs \subseteq Columns
    /\ Outcome \subseteq {"completed", "completed_with_warnings", "failed"}
    /\ MaxExtra \in Nat

VARIABLES
    config,       \* the merged configuration of the target and of its worker source
    coverage,     \* collection_targets.coverage
    jobs,         \* the sync_jobs rows of the target, oldest first
    requests,     \* the collection_requests rows
    pin,          \* collection_target_pins: "none", "later" or "due"
    dispatching,  \* dispatch_due_pins has found no active job and not inserted its own
    extras        \* direct jobs and dispatches so far

vars == <<config, coverage, jobs, requests, pin, dispatching, extras>>

\* read and reach: the collector read the configuration, and what it is then bound to
\* collect; fanned: its discovery is over; gathered: all of reach was collected.
JobRow == [state: JobState, includeComments: BOOLEAN, maxVideos: Nat, commentPages: Nat,
           read: BOOLEAN, fanned: BOOLEAN, gathered: BOOLEAN, reach: Coverage]

RequestRow == [status: {"none", "joined"} \union JobState, job: Nat, wish: Coverage]

TypeOK ==
    /\ config \in Config
    /\ coverage \in Coverage
    /\ jobs \in Seq(JobRow)
    /\ requests \in [Request -> RequestRow]
    /\ \A r \in Request : requests[r].job \in 0..Len(jobs)
    /\ pin \in {"none", "later", "due"}
    /\ dispatching \in BOOLEAN
    /\ extras \in 0..MaxExtra

Init ==
    /\ config = [includeComments |-> FALSE, collectAllComments |-> FALSE,
                 collectAllVideos |-> FALSE, limit |-> 0, commentPages |-> 0]
    /\ coverage = Nothing
    /\ jobs = <<>>
    /\ requests = [r \in Request |-> [status |-> "none", job |-> 0, wish |-> Nothing]]
    /\ pin = "none"
    /\ dispatching = FALSE
    /\ extras = 0

Active == {j \in DOMAIN jobs : jobs[j].state \notin Terminal}
Known == \E r \in Request : requests[r].status # "none"
Extra == extras < MaxExtra /\ extras' = extras + 1

NewJob == Len(jobs) + 1

Queued(columns) ==
    [state |-> "queued", includeComments |-> columns.includeComments,
     maxVideos |-> columns.maxVideos, commentPages |-> columns.commentPages,
     read |-> FALSE, fanned |-> FALSE, gathered |-> FALSE, reach |-> Nothing]

\* The columns _create_target_job and the widening of a queued job take from a
\* configuration: only a channel job gets a number of videos.
ColumnsOf(c) ==
    LET wanted == Desired(c) IN
    [includeComments |-> wanted.includeComments, maxVideos |-> wanted.limit,
     commentPages |-> wanted.commentPages]

\* Mutation: the queued job keeps the breadth it was created with.
WidenNothing(job, columns) == job

Widened(job, columns) ==
    [job EXCEPT !.includeComments = columns.includeComments,
                !.maxVideos = columns.maxVideos, !.commentPages = columns.commentPages]

------------------------------------------------------------------------------
\* Submissions.

\* The status and the job of a new request: answered from the coverage, attached to a
\* new job, joined to the active one, attached to it while it is queued, or waiting.
Answer(wish, force, prior) ==
    LET active == CHOOSE j \in Active : \A k \in Active : j <= k IN
    IF ~force /\ Satisfies(coverage, wish) THEN <<"completed", 0>>
    ELSE IF Active = {} THEN <<"queued", NewJob>>
    ELSE IF Satisfies(JobCoverage(jobs[active], prior), wish) THEN <<"joined", active>>
    ELSE IF jobs[active].state = "queued" THEN <<"queued", active>>
    ELSE <<"queued", 0>>

\* A submission by a subscriber: it would wait for a dispatch that holds the pin.
Submit(r, c, force) ==
    LET merged == Merge(config, c)
        answer == Answer(Desired(c), force, config) IN
    /\ requests[r].status = "none"
    /\ ~dispatching
    /\ config' = merged
    /\ jobs' = CASE answer[1] # "queued" \/ answer[2] = 0 -> jobs
                 [] answer[2] \in Active -> [jobs EXCEPT ![answer[2]] =
                                                 Widened(jobs[answer[2]], ColumnsOf(merged))]
                 [] OTHER -> Append(jobs, Queued(ColumnsOf(merged)))
    /\ requests' = [requests EXCEPT ![r] =
                       [status |-> answer[1], job |-> answer[2], wish |-> Desired(c)]]
    /\ pin' = IF pin = "none" /\ Type = "video" THEN "none" ELSE "due"
    /\ UNCHANGED <<coverage, dispatching, extras>>

\* The same idempotency key again is answered with the request it made.
Resubmit(r) ==
    /\ requests[r].status # "none"
    /\ UNCHANGED vars

\* create_job returns the active job when there is one.
CreateJob(columns) ==
    /\ Known
    /\ Extra
    /\ Active = {}
    /\ jobs' = Append(jobs, Queued(columns))
    /\ UNCHANGED <<config, coverage, requests, pin, dispatching>>

------------------------------------------------------------------------------
\* A job in the hands of the workers.

Rewrite(j, row) == jobs' = [jobs EXCEPT ![j] = row]

\* claim_next_job, also of a pause that is over or of a dead worker's job.
Claim(j) ==
    /\ jobs[j].state \in {"queued", "running"} \union Waiting
    /\ Rewrite(j, [jobs[j] EXCEPT !.state = "running", !.read = FALSE])
    /\ UNCHANGED <<config, coverage, requests, pin, dispatching, extras>>

\* What a job is bound to collect under the configuration it reads.
Reach(job, c) ==
    [complete           |-> TRUE,
     includeComments    |-> job.includeComments \/ c.includeComments,
     collectAllComments |-> c.collectAllComments,
     collectAllVideos   |-> Type = "channel" /\ c.collectAllVideos,
     limit              |-> Limit(OrElse(job.maxVideos, c.limit)),
     commentPages       |-> OrElse(OrElse(job.commentPages, c.commentPages), 1)]

\* A refresh of a channel that was collected whole may stop at its newest uploads.
Refresh == Type = "channel" /\ coverage.complete /\ coverage.collectAllVideos /\ config.collectAllVideos

\* collect reads the configuration of the source; a job that has fanned out keeps to
\* the videos it found.
Read(j, newest) ==
    /\ jobs[j].state = "running" /\ ~jobs[j].read
    /\ newest => Refresh /\ ~jobs[j].fanned
    /\ Rewrite(j, [jobs[j] EXCEPT !.read = TRUE,
                                  !.reach = IF jobs[j].fanned THEN @
                                            ELSE IF newest THEN Nothing ELSE Reach(jobs[j], config)])
    /\ UNCHANGED <<config, coverage, requests, pin, dispatching, extras>>

\* A channel job enqueues its video jobs and waits for them.
FanOut(j) ==
    /\ Type = "channel"
    /\ jobs[j].state = "running" /\ jobs[j].read /\ ~jobs[j].fanned
    /\ Rewrite(j, [jobs[j] EXCEPT !.state = "waiting_retry", !.read = FALSE, !.fanned = TRUE])
    /\ UNCHANGED <<config, coverage, requests, pin, dispatching, extras>>

\* A pause, for quota or to retry: waiting_retry stands for both.
Pause(j) ==
    /\ jobs[j].state = "running" /\ jobs[j].read
    /\ Rewrite(j, [jobs[j] EXCEPT !.state = "waiting_retry", !.read = FALSE])
    /\ UNCHANGED <<config, coverage, requests, pin, dispatching, extras>>

\* Mutation: every request without a job, also those answered from the coverage.
PendingWithAnswered == {r \in Request : requests[r].job = 0 /\ requests[r].status # "none"}

\* Mutation: the terminal transition looks for no waiting requests.
PendingForgotten == {}

\* The requests a terminal transition attaches to a successor.
Pending == {r \in Request : requests[r].job = 0 /\ requests[r].status = "queued"}

\* Mutation: the requests learn only of completions.
SettledRequestsIfCompleted(j, outcome) ==
    [r \in Request |->
        CASE requests[r].job = j /\ outcome = "completed" -> [requests[r] EXCEPT !.status = outcome]
          [] r \in Pending -> [requests[r] EXCEPT !.job = NewJob, !.status = "queued"]
          [] OTHER -> requests[r]]

SettledRequests(j, outcome) ==
    [r \in Request |->
        CASE requests[r].job = j -> [requests[r] EXCEPT !.status = outcome]
          [] r \in Pending -> [requests[r] EXCEPT !.job = NewJob, !.status = "queued"]
          [] OTHER -> requests[r]]

\* transition_job to a terminal state: the coverage is that of the configuration of
\* this moment, and the waiting requests get one successor.
End(j, outcome, gathered) ==
    LET ended == [jobs[j] EXCEPT !.state = outcome, !.gathered = gathered,
                                 !.read = FALSE, !.fanned = FALSE,
                                 !.reach = IF gathered THEN @ ELSE Nothing]
        rows == [jobs EXCEPT ![j] = ended] IN
    /\ jobs[j].state = "running"
    /\ outcome # "failed" => jobs[j].read /\ gathered /\ (Type = "channel" => jobs[j].fanned)
    /\ gathered => jobs[j].read
    /\ jobs' = IF Pending = {} THEN rows ELSE Append(rows, Queued(ColumnsOf(config)))
    /\ requests' = SettledRequests(j, outcome)
    /\ coverage' = IF outcome = "failed" THEN coverage
                   ELSE [JobCoverage(jobs[j], config) EXCEPT !.complete = TRUE]
    /\ UNCHANGED <<config, pin, dispatching, extras>>

EndSomehow(j) == \E outcome \in Outcome, gathered \in BOOLEAN : End(j, outcome, gathered)

------------------------------------------------------------------------------
\* The scheduled refresh of the pin.

PinDue ==
    /\ pin = "later"
    /\ pin' = "due"
    /\ UNCHANGED <<config, coverage, jobs, requests, dispatching, extras>>

\* dispatch_due_pins locks the due pin and looks for an active job ...
DispatchLook ==
    /\ pin = "due" /\ ~dispatching
    /\ Extra
    /\ dispatching' = (Active = {})
    /\ pin' = IF Active = {} THEN pin ELSE "later"
    /\ UNCHANGED <<config, coverage, jobs, requests>>

\* Mutation: no unique index on the active jobs of a target.
DispatchInsertUnindexed ==
    /\ dispatching
    /\ jobs' = Append(jobs, Queued(ColumnsOf(config)))
    /\ pin' = "later"
    /\ dispatching' = FALSE
    /\ UNCHANGED <<config, coverage, requests, extras>>

\* ... and inserts a job, which sync_jobs_one_active_target_idx allows only without one.
DispatchInsert ==
    /\ dispatching
    /\ Active = {}
    /\ jobs' = Append(jobs, Queued(ColumnsOf(config)))
    /\ pin' = "later"
    /\ dispatching' = FALSE
    /\ UNCHANGED <<config, coverage, requests, extras>>

\* The transaction is rolled back: the unique index, a deadlock with a submission,
\* or the death of the worker.
DispatchFails ==
    /\ dispatching
    /\ dispatching' = FALSE
    /\ UNCHANGED <<config, coverage, jobs, requests, pin, extras>>

Work(j) ==
    \/ Claim(j) \/ FanOut(j) \/ Pause(j) \/ EndSomehow(j)
    \/ \E newest \in BOOLEAN : Read(j, newest)

Next ==
    \/ \E r \in Request :
          \/ \E c \in Wishes, force \in BOOLEAN : Submit(r, c, force)
          \/ Resubmit(r)
    \/ \E columns \in DirectJobs : CreateJob(columns)
    \/ \E j \in DOMAIN jobs : Work(j)
    \/ PinDue \/ DispatchLook \/ DispatchInsert \/ DispatchFails

Spec == Init /\ [][Next]_vars

\* The workers keep claiming and collecting, and every job ends (JobLease's
\* EveryJobEnds): however often it is paused, a run is not paused for ever.
Fairness ==
    /\ WF_vars(\E j \in DOMAIN jobs : jobs[j].state # "running" /\ Claim(j))
    /\ WF_vars(\E j \in DOMAIN jobs, newest \in BOOLEAN : Read(j, newest))
    /\ SF_vars(\E j \in DOMAIN jobs : EndSomehow(j))

FairSpec == Spec /\ Fairness

------------------------------------------------------------------------------
\* Submissions, direct jobs, dispatches and successors never leave a target with
\* two active jobs.
OneActiveJob == Cardinality(Active) <= 1

\* The requests that wait without a job.
Unattended == {r \in Request : requests[r].status = "queued" /\ requests[r].job = 0}

\* A request waits without a job only while an active job is there whose terminal
\* transition will make its successor: nothing else ever looks at it.
PendingHasActive == Unattended # {} => Active # {}

\* The status of a request is that of the job that serves it, whichever submission,
\* widening or terminal transition attached it.
RequestFollowsJob ==
    \A r \in Request : requests[r].job # 0 =>
        LET state == jobs[requests[r].job].state IN
        requests[r].status = IF state \in Terminal THEN state ELSE "queued"

\* The data collected with a reach holds what a wish asks for.
Covers(reach, wish) ==
    /\ reach.collectAllVideos \/ (~wish.collectAllVideos /\ reach.limit >= wish.limit)
    /\ wish.includeComments =>
          /\ reach.includeComments
          /\ \/ reach.collectAllComments
             \/ ~wish.collectAllComments /\ reach.commentPages >= wish.commentPages

\* A request attached to a job that completed was given what it asked for, although
\* the configuration and the job's columns changed under it.
ServedAsAsked ==
    \A r \in Request :
        requests[r].job # 0 /\ requests[r].status \in {"completed", "completed_with_warnings"} =>
            Covers(jobs[requests[r].job].reach, requests[r].wish)

\* A request answered from the coverage asks for nothing that no job has collected.
CachedServed ==
    \A r \in Request : requests[r].status = "completed" /\ requests[r].job = 0 =>
        \E j \in DOMAIN jobs : jobs[j].gathered /\ Covers(jobs[j].reach, requests[r].wish)

\* No request waits for a second collection while the running job collects what it asks for.
RunningJobJoined ==
    \A r \in Unattended, j \in Active :
        ~(jobs[j].state = "running" /\ jobs[j].read /\ Covers(jobs[j].reach, requests[r].wish))

\* An answered request is never answered again, reopened or given another job.
AnswersFinal ==
    [][\A r \in Request : requests[r].status \in Terminal => requests'[r] = requests[r]]_vars

\* Every request that was submitted is answered.
EveryRequestEnds ==
    \A r \in Request : requests[r].status # "none" ~> requests[r].status \in Terminal

==============================================================================
