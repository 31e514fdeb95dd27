------------------------------- MODULE Analysis -------------------------------
(***************************************************************************)
(* The analysis runs of one target.  A job that ends gives the target a new *)
(* data version and, unless it failed, a run for it; analysis workers claim *)
(* runs under a lease, build the summary inside one transaction and settle  *)
(* the run, or report the failure.  A lease may expire under a worker that  *)
(* is still at it, and workers crash and come back under their old name.    *)
(***************************************************************************)
EXTENDS Naturals, FiniteSets

CONSTANTS
    Workers,      \* analysis workers, by their worker_id
    SummaryWrite, \* ENABLE_TARGET_SUMMARY_WRITE: a transition makes the run itself
    MaxTries,     \* max_retries of fail_analysis_run
    MaxVersion,   \* bound on data versions
    MaxFaults     \* bound on crashes, aborted transactions and leases that expire too early

ASSUME AnalysisConstants ==
    /\ SummaryWrite \in BOOLEAN
    /\ MaxTries \in Nat \ {0}
    /\ MaxVersion \in Nat \ {0}
    /\ MaxFaults \in Nat

CONSTANT Nobody
ASSUME NobodyIsNoWorker == Nobody \notin Workers

VARIABLES
    version,  \* collection_targets.data_version
    ended,    \* how the target's latest terminal parent job ended
    runs,     \* the analysis runs of the target, by data version
    aw,       \* the analysis workers
    faults

avars == <<version, ended, runs, aw, faults>>

Version == 0..MaxVersion

RunState == {"none", "queued", "running", "completed", "failed"}
RunEnded == {"completed", "failed"}

\* due: not waiting for resume_at; live: the lease has not run out.
Run == [state: RunState, owner: Workers \union {Nobody}, live: BOOLEAN, due: BOOLEAN,
        tries: 0..MaxTries]

NoRun == [state |-> "none", owner |-> Nobody, live |-> FALSE, due |-> FALSE, tries |-> 0]
NewRun == [NoRun EXCEPT !.state = "queued", !.due = TRUE]

\* "building" holds the lock of the run's row.
AWorker == [pc: {"idle", "claimed", "building", "failing"}, run: Version]
Idle == [pc |-> "idle", run |-> 0]

AnalysisTypeOK ==
    /\ version \in Version
    /\ ended \in {"none", "completed", "failed"}
    /\ runs \in [Version -> Run]
    /\ aw \in [Workers -> AWorker]
    /\ faults \in 0..MaxFaults

AnalysisInit ==
    /\ version = 0
    /\ ended = "none"
    /\ runs = [v \in Version |-> NoRun]
    /\ aw = [w \in Workers |-> Idle]
    /\ faults = 0

Fault == faults < MaxFaults /\ faults' = faults + 1
Goto(w, pc) == aw' = [aw EXCEPT ![w].pc = pc]
Leave(w) == aw' = [aw EXCEPT ![w] = Idle]
LockHeld(v) == \E w \in Workers : aw[w].pc = "building" /\ aw[w].run = v

------------------------------------------------------------------------------
\* Jobs.

\* The end of transition_job, for a job of the target or of one that shares a video
\* with it: a new version, and a run for it unless the job failed.
Ends(own, how) ==
    /\ version < MaxVersion
    /\ version' = version + 1
    /\ ended' = IF own THEN how ELSE ended
    /\ runs' = IF SummaryWrite /\ how = "completed" /\ runs[version + 1].state = "none"
               THEN [runs EXCEPT ![version + 1] = NewRun] ELSE runs
    /\ UNCHANGED <<aw, faults>>

------------------------------------------------------------------------------
\* The loop of an analysis worker.

\* Mutation: the run is made for the version to come.
SeedNext(w) ==
    /\ aw[w].pc = "idle"
    /\ version < MaxVersion
    /\ runs[version + 1].state = "none"
    /\ runs' = [runs EXCEPT ![version + 1] = NewRun]
    /\ UNCHANGED <<version, ended, aw, faults>>

\* Mutation: only what a completed job left is looked at.
SeedCompleted(w) ==
    /\ aw[w].pc = "idle"
    /\ ended = "completed"
    /\ runs[version].state = "none"
    /\ runs' = [runs EXCEPT ![version] = NewRun]
    /\ UNCHANGED <<version, ended, aw, faults>>

\* enqueue_missing_analysis_runs: the current version gets the run it has not.
Seed(w) ==
    /\ aw[w].pc = "idle"
    /\ runs[version].state = "none"
    /\ runs' = [runs EXCEPT ![version] = NewRun]
    /\ UNCHANGED <<version, ended, aw, faults>>

\* Mutation: a run whose worker died is not taken back.
ClaimableQueued(v) == runs[v].state = "queued" /\ runs[v].due /\ ~LockHeld(v)

Claimable(v) ==
    /\ \/ runs[v].state = "queued" /\ runs[v].due
       \/ runs[v].state = "running" /\ ~runs[v].live
    /\ ~LockHeld(v)

\* claim_next_analysis_run: the oldest run that is due or whose lease ran out, past
\* the rows that are locked.  Taking a run back does not count as a retry.
ClaimRun(w) ==
    /\ aw[w].pc = "idle"
    /\ \E v \in Version :
          /\ Claimable(v)
          /\ \A u \in Version : u < v => ~Claimable(u)
          /\ runs' = [runs EXCEPT ![v].state = "running", ![v].owner = w, ![v].live = TRUE,
                                  ![v].due = TRUE]
          /\ aw' = [aw EXCEPT ![w] = [pc |-> "claimed", run |-> v]]
    /\ UNCHANGED <<version, ended, faults>>

Holds(w) == runs[aw[w].run].state = "running" /\ runs[aw[w].run].owner = w

\* Mutation: whoever claimed the run once may build it.
BuildUnowned(w) ==
    /\ aw[w].pc = "claimed"
    /\ Goto(w, "building")
    /\ UNCHANGED <<version, ended, runs, faults>>

\* complete_analysis_run begins: it locks the row if it is still this worker's, and
\* raises if it is not.  Whether the lease is live is not asked.
Build(w) ==
    /\ aw[w].pc = "claimed"
    /\ ~LockHeld(aw[w].run)
    /\ Goto(w, IF Holds(w) THEN "building" ELSE "failing")
    /\ UNCHANGED <<version, ended, runs, faults>>

\* The summary and the end of the run are committed together.
Publish(w) ==
    /\ aw[w].pc = "building"
    /\ runs' = [runs EXCEPT ![aw[w].run].state = "completed", ![aw[w].run].owner = Nobody,
                            ![aw[w].run].live = FALSE]
    /\ Leave(w)
    /\ UNCHANGED <<version, ended, faults>>

\* A statement of the transaction fails and it is rolled back.
Abort(w) ==
    /\ aw[w].pc = "building"
    /\ Fault
    /\ Goto(w, "failing")
    /\ UNCHANGED <<version, ended, runs>>

\* Mutation: the retries are not limited.
RetriedForever(r) ==
    [r EXCEPT !.tries = @ + 1, !.owner = Nobody, !.live = FALSE, !.due = FALSE, !.state = "queued"]

\* The row after one more failure: over, or queued again after a pause.
Retried(r) ==
    [r EXCEPT !.tries = @ + 1, !.owner = Nobody, !.live = FALSE, !.due = FALSE,
              !.state = IF r.tries + 1 >= MaxTries THEN "failed" ELSE "queued"]

\* Mutation: a failure is recorded on a run that somebody else holds or has ended.
FailUnowned(w) ==
    /\ aw[w].pc = "failing"
    /\ runs' = IF runs[aw[w].run].tries < MaxTries
               THEN [runs EXCEPT ![aw[w].run] = Retried(@)] ELSE runs
    /\ Leave(w)
    /\ UNCHANGED <<version, ended, faults>>

\* fail_analysis_run: the run of another worker is "lost" and stays as it is.
Fail(w) ==
    /\ aw[w].pc = "failing"
    /\ ~LockHeld(aw[w].run)
    /\ runs' = IF Holds(w) THEN [runs EXCEPT ![aw[w].run] = Retried(@)] ELSE runs
    /\ Leave(w)
    /\ UNCHANGED <<version, ended, faults>>

\* Nothing to claim: the loop waits and polls again.
Poll(w) ==
    /\ aw[w].pc = "idle"
    /\ \A v \in Version : ~Claimable(v)
    /\ UNCHANGED avars

\* The process dies at any point, and its transaction with it.
Crash(w) ==
    /\ aw[w].pc # "idle"
    /\ Fault
    /\ Leave(w)
    /\ UNCHANGED <<version, ended, runs>>

------------------------------------------------------------------------------
\* Time.

\* Whoever took the run is still at it.
AtIt(v) == \E w \in Workers : runs[v].owner = w /\ aw[w].pc # "idle" /\ aw[w].run = v

Expire(v) == runs[v].state = "running" /\ runs[v].live /\ runs' = [runs EXCEPT ![v].live = FALSE]

LeaseRunsOut(v) == ~AtIt(v) /\ Expire(v) /\ UNCHANGED <<version, ended, aw, faults>>
LeaseTooShort(v) == AtIt(v) /\ Fault /\ Expire(v) /\ UNCHANGED <<version, ended, aw>>

RetryDue(v) ==
    /\ runs[v].state = "queued" /\ ~runs[v].due
    /\ runs' = [runs EXCEPT ![v].due = TRUE]
    /\ UNCHANGED <<version, ended, aw, faults>>

------------------------------------------------------------------------------
Work(w) == ClaimRun(w) \/ Build(w) \/ Publish(w) \/ Fail(w)

Clock == \E v \in Version : LeaseRunsOut(v) \/ RetryDue(v)

AnalysisNext ==
    \/ \E own \in BOOLEAN, how \in {"completed", "failed"} : Ends(own, how)
    \/ \E w \in Workers : Seed(w) \/ Work(w) \/ Poll(w) \/ Abort(w) \/ Crash(w)
    \/ \E v \in Version : LeaseTooShort(v)
    \/ Clock

AnalysisSpec == AnalysisInit /\ [][AnalysisNext]_avars

\* The loops of the workers go on and time passes.  A worker seeds every twentieth time
\* around its loop, whatever else there is to do.
Fairness ==
    /\ \A w \in Workers : WF_avars(Work(w))
    /\ \A v \in Version : WF_avars(LeaseRunsOut(v) \/ RetryDue(v))
    /\ SF_avars(\E w \in Workers : Seed(w))

FairSpec == AnalysisSpec /\ Fairness

------------------------------------------------------------------------------
\* transition_job inserts a run without ON CONFLICT and under the lock of the target
\* only: no run may exist for a version that is still to come, or the unique index
\* would undo the end of the job and stop its worker.
NoRunAhead == \A v \in Version : v > version => runs[v].state = "none"

\* Nobody builds a run that another worker was given or that has ended, and no two
\* workers build at the same one.
BuiltByHolder == \A w \in Workers : aw[w].pc = "building" => Holds(w)

\* With the workers hidden: versions and runs are made in order and a run ends once,
\* whatever late workers report.
Promise == INSTANCE AnalysisPromise WITH
    outcome <- [v \in Version |->
                   IF runs[v].state \in {"queued", "running"} THEN "open" ELSE runs[v].state]

AnalysisPromised == Promise!PromiseSpec

\* The current version is analysed, or given up after MaxTries reported failures, or
\* replaced by a later one: also that of a failed job, and that of a worker that died.
EveryVersionEnds ==
    \A v \in Version : version = v ~> (version > v \/ runs[v].state \in RunEnded)

\* No run is left behind by its workers, not even that of a version long replaced.
EveryRunEnds == \A v \in Version : runs[v].state = "queued" ~> runs[v].state \in RunEnded

==============================================================================
