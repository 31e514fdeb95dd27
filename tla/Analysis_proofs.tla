---------------------------- MODULE Analysis_proofs ----------------------------
(***************************************************************************)
(* Proofs about Analysis, for any workers, versions, retries and faults:     *)
(* type correctness, the two safety invariants of its run, and the           *)
(* refinement of AnalysisPromise.                                            *)
(***************************************************************************)
EXTENDS Analysis, TLAPS

\* A run that is not over has a retry left.
RetriesLeft == \A v \in Version : runs[v].state \in {"queued", "running"} => runs[v].tries < MaxTries

\* The inductive invariant.  NoRunAhead needs BuiltByHolder: who publishes or fails a
\* run settles a row that exists; BuiltByHolder needs NoRunAhead: the run that a
\* transition makes replaces no row that somebody builds.
AnalysisInv == AnalysisTypeOK /\ RetriesLeft /\ NoRunAhead /\ BuiltByHolder

LEMMA VersionType ==
  ASSUME AnalysisTypeOK, version < MaxVersion
  PROVE  version + 1 \in Version /\ version + 1 > version
  BY AnalysisConstants DEF AnalysisTypeOK, Version

LEMMA NewRunType == NoRun \in Run /\ NewRun \in Run /\ NewRun.state = "queued" /\ NewRun.tries < MaxTries
<1>1. NoRun \in Run
  BY AnalysisConstants DEF NoRun, Run, RunState
<1>2. NewRun \in Run /\ NewRun.state = "queued" /\ NewRun.tries = NoRun.tries
  BY <1>1 DEF NewRun, Run, RunState
<1> QED
  BY <1>1, <1>2, AnalysisConstants DEF NoRun

\* What a failure makes of a row that has a retry left.
LEMMA RetriedType ==
  ASSUME NEW r \in Run, r.tries < MaxTries
  PROVE  /\ Retried(r) \in Run
         /\ Retried(r).state \in {"queued", "failed"}
         /\ Retried(r).state = "queued" => Retried(r).tries < MaxTries
<1> DEFINE s == IF r.tries + 1 >= MaxTries THEN "failed" ELSE "queued"
<1>1. r.tries + 1 \in 0..MaxTries
  BY AnalysisConstants DEF Run
<1>2. s \in {"queued", "failed"} /\ (s = "queued" => r.tries + 1 < MaxTries)
  BY <1>1, AnalysisConstants
<1>3. Retried(r) \in Run
  BY <1>1, <1>2 DEF Retried, Run, RunState
<1>4. Retried(r).state = s /\ Retried(r).tries = r.tries + 1
  BY DEF Retried, Run
<1> QED
  BY <1>2, <1>3, <1>4

\* The version a worker is at is one of the target's.
LEMMA AtVersion ==
  ASSUME AnalysisTypeOK, NEW w \in Workers
  PROVE  aw[w] \in AWorker /\ aw[w].run \in Version /\ runs[aw[w].run] \in Run
  BY DEF AnalysisTypeOK, AWorker

LEMMA IdleType == Idle \in AWorker /\ Idle.pc = "idle"
  BY AnalysisConstants DEF Idle, AWorker, Version

\* A worker that turns to something else stays at its run; the others stay as they are.
LEMMA GotoType ==
  ASSUME AnalysisTypeOK, NEW w \in Workers, NEW pc \in {"idle", "claimed", "building", "failing"},
         Goto(w, pc)
  PROVE  /\ aw' \in [Workers -> AWorker]
         /\ aw'[w].pc = pc /\ aw'[w].run = aw[w].run
         /\ \A u \in Workers \ {w} : aw'[u] = aw[u]
<1>1. [aw[w] EXCEPT !.pc = pc] \in AWorker
  BY AtVersion DEF AWorker
<1>2. aw' = [aw EXCEPT ![w] = [aw[w] EXCEPT !.pc = pc]]
  BY DEF Goto
<1>3. aw'[w] = [aw[w] EXCEPT !.pc = pc]
  BY <1>2 DEF AnalysisTypeOK
<1> QED
  BY <1>1, <1>2, <1>3, AtVersion DEF AnalysisTypeOK, AWorker

LEMMA LeaveType ==
  ASSUME AnalysisTypeOK, NEW w \in Workers, Leave(w)
  PROVE  /\ aw' \in [Workers -> AWorker]
         /\ aw'[w].pc = "idle"
         /\ \A u \in Workers \ {w} : aw'[u] = aw[u]
  BY IdleType DEF Leave, AnalysisTypeOK

\* One row changes to another that keeps the parts of the invariant.
LEMMA RowType ==
  ASSUME AnalysisTypeOK, RetriesLeft, NEW v \in Version, NEW r \in Run,
         runs' = [runs EXCEPT ![v] = r],
         r.state \in {"queued", "running"} => r.tries < MaxTries
  PROVE  /\ runs' \in [Version -> Run]
         /\ RetriesLeft'
         /\ runs'[v] = r
         /\ \A u \in Version \ {v} : runs'[u] = runs[u]
  BY DEF AnalysisTypeOK, RetriesLeft

------------------------------------------------------------------------------
(***************************************************************************)
(* Invariance.                                                               *)
(***************************************************************************)

\* The rows other than v stay, and nobody builds at v after the step.
LEMMA HolderKept ==
  ASSUME AnalysisTypeOK, BuiltByHolder, NEW v \in Version,
         \A u \in Version \ {v} : runs'[u] = runs[u],
         \A u \in Workers : aw'[u].pc = "building" => aw'[u] = aw[u] /\ aw[u].run # v
  PROVE  BuiltByHolder'
<1> SUFFICES ASSUME NEW u \in Workers, aw'[u].pc = "building" PROVE Holds(u)'
  BY DEF BuiltByHolder
<1>1. aw'[u] = aw[u] /\ aw[u].run \in Version \ {v} /\ runs'[aw[u].run] = runs[aw[u].run]
  BY AtVersion
<1> QED
  BY <1>1 DEF BuiltByHolder, Holds

\* A row that changes without a change of state or owner.
LEMMA HolderSame ==
  ASSUME AnalysisTypeOK, BuiltByHolder, aw' = aw,
         \A u \in Version : runs'[u].state = runs[u].state /\ runs'[u].owner = runs[u].owner
  PROVE  BuiltByHolder'
  BY AtVersion DEF BuiltByHolder, Holds

LEMMA AheadKept ==
  ASSUME AnalysisTypeOK, NoRunAhead, NEW v \in Version, version' \in Version,
         version <= version', v <= version',
         \A u \in Version \ {v} : runs'[u] = runs[u]
  PROVE  NoRunAhead'
<1> SUFFICES ASSUME NEW u \in Version, u > version' PROVE runs'[u].state = "none"
  BY DEF NoRunAhead
<1>1. u # v /\ u > version
  BY DEF Version, AnalysisTypeOK
<1> QED
  BY <1>1 DEF NoRunAhead

\* A run that somebody has or waits for is not of a version to come.
LEMMA RunIsNotAhead ==
  ASSUME AnalysisTypeOK, NoRunAhead, NEW v \in Version, runs[v].state # "none"
  PROVE  v <= version
  BY DEF NoRunAhead, AnalysisTypeOK, Version

\* The steps that change one row and no version.
LEMMA RowStep ==
  ASSUME AnalysisInv, NEW v \in Version, NEW r \in Run,
         runs[v].state # "none" \/ v = version,
         runs' = [runs EXCEPT ![v] = r],
         r.state \in {"queued", "running"} => r.tries < MaxTries,
         aw' \in [Workers -> AWorker], faults' \in 0..MaxFaults, UNCHANGED <<version, ended>>
  PROVE  /\ AnalysisTypeOK' /\ RetriesLeft' /\ NoRunAhead'
         /\ runs'[v] = r /\ \A u \in Version \ {v} : runs'[u] = runs[u]
<1>1. /\ runs' \in [Version -> Run] /\ RetriesLeft'
      /\ runs'[v] = r /\ \A u \in Version \ {v} : runs'[u] = runs[u]
  BY RowType DEF AnalysisInv
<1>2. v <= version /\ version \in Version /\ version <= version
  BY RunIsNotAhead DEF AnalysisInv, AnalysisTypeOK, Version
<1>3. NoRunAhead'
  BY <1>1, <1>2, AheadKept DEF AnalysisInv
<1> QED
  BY <1>1, <1>3 DEF AnalysisInv, AnalysisTypeOK

\* The steps that change no row: a worker turns to something else.
LEMMA WorkerStep ==
  ASSUME AnalysisInv, NEW w \in Workers, aw' \in [Workers -> AWorker],
         \A u \in Workers \ {w} : aw'[u] = aw[u],
         aw'[w].pc = "building" => aw'[w].run = aw[w].run /\ Holds(w),
         faults' \in 0..MaxFaults, UNCHANGED <<version, ended, runs>>
  PROVE  AnalysisInv'
<1>1. AnalysisTypeOK' /\ RetriesLeft' /\ NoRunAhead'
  BY DEF AnalysisInv, AnalysisTypeOK, RetriesLeft, NoRunAhead
<1>2. ASSUME NEW u \in Workers, aw'[u].pc = "building" PROVE Holds(u)'
  BY <1>2 DEF AnalysisInv, BuiltByHolder, Holds
<1> QED
  BY <1>1, <1>2 DEF AnalysisInv, BuiltByHolder

LEMMA FaultType ==
  ASSUME AnalysisTypeOK, Fault
  PROVE  faults' \in 0..MaxFaults
  BY AnalysisConstants DEF Fault, AnalysisTypeOK

LEMMA EndsInv ==
  ASSUME AnalysisInv, NEW own \in BOOLEAN, NEW how \in {"completed", "failed"}, Ends(own, how)
  PROVE  AnalysisInv'
<1> DEFINE v == version + 1
<1>1. v \in Version /\ v > version /\ version' = v
  BY VersionType DEF AnalysisInv, Ends
<1>2. runs[v].state = "none"
  BY <1>1 DEF AnalysisInv, NoRunAhead
<1>3. /\ runs' \in [Version -> Run] /\ RetriesLeft'
      /\ \A u \in Version \ {v} : runs'[u] = runs[u]
  <2>1. CASE runs' = runs
    BY <2>1 DEF AnalysisInv, AnalysisTypeOK, RetriesLeft
  <2>2. CASE runs' = [runs EXCEPT ![v] = NewRun]
    BY <1>1, <2>2, NewRunType, RowType DEF AnalysisInv
  <2> QED
    BY <2>1, <2>2 DEF Ends
<1>4. AnalysisTypeOK'
  BY <1>1, <1>3 DEF AnalysisInv, AnalysisTypeOK, Ends
<1>5. NoRunAhead'
  BY <1>1, <1>3, AheadKept DEF AnalysisInv, AnalysisTypeOK, Version
<1>6. ASSUME NEW u \in Workers, aw'[u].pc = "building" PROVE aw'[u] = aw[u] /\ aw[u].run # v
  BY <1>2, <1>6 DEF Ends, AnalysisInv, BuiltByHolder, Holds
<1>7. BuiltByHolder'
  BY <1>1, <1>3, <1>6, HolderKept DEF AnalysisInv
<1> QED
  BY <1>3, <1>4, <1>5, <1>7 DEF AnalysisInv

LEMMA SeedInv ==
  ASSUME AnalysisInv, NEW w \in Workers, Seed(w)
  PROVE  AnalysisInv'
<1>1. version \in Version
  BY DEF AnalysisInv, AnalysisTypeOK
<1>2. /\ AnalysisTypeOK' /\ RetriesLeft' /\ NoRunAhead'
      /\ \A u \in Version \ {version} : runs'[u] = runs[u]
  BY <1>1, NewRunType, RowStep DEF Seed, AnalysisInv, AnalysisTypeOK
<1>3. ASSUME NEW u \in Workers, aw'[u].pc = "building" PROVE aw'[u] = aw[u] /\ aw[u].run # version
  BY <1>3 DEF Seed, AnalysisInv, BuiltByHolder, Holds
<1>4. BuiltByHolder'
  BY <1>1, <1>2, <1>3, HolderKept DEF AnalysisInv
<1> QED
  BY <1>2, <1>4 DEF AnalysisInv

\* The row of a run that worker w claims.
LEMMA ClaimedRow ==
  ASSUME NEW r \in Run, NEW w \in Workers,
         NEW s, s = [r EXCEPT !.state = "running", !.owner = w, !.live = TRUE, !.due = TRUE]
  PROVE  s \in Run /\ s.state = "running" /\ s.tries = r.tries
  BY DEF Run, RunState

LEMMA ClaimInv ==
  ASSUME AnalysisInv, NEW w \in Workers, ClaimRun(w)
  PROVE  AnalysisInv'
<1>1. PICK v \in Version :
        /\ Claimable(v)
        /\ runs' = [runs EXCEPT ![v].state = "running", ![v].owner = w, ![v].live = TRUE,
                                ![v].due = TRUE]
        /\ aw' = [aw EXCEPT ![w] = [pc |-> "claimed", run |-> v]]
  BY DEF ClaimRun
<1> DEFINE r == [runs[v] EXCEPT !.state = "running", !.owner = w, !.live = TRUE, !.due = TRUE]
<1>2. r \in Run /\ r.state = "running" /\ r.tries = runs[v].tries /\ runs' = [runs EXCEPT ![v] = r]
  <2>1. runs[v] \in Run
    BY DEF AnalysisInv, AnalysisTypeOK
  <2> QED
    BY <1>1, <2>1, ClaimedRow DEF AnalysisInv, AnalysisTypeOK
<1>3. runs[v].state \in {"queued", "running"} /\ ~LockHeld(v)
  BY <1>1 DEF Claimable
<1>4. /\ aw' \in [Workers -> AWorker] /\ aw'[w].pc = "claimed"
      /\ \A u \in Workers \ {w} : aw'[u] = aw[u]
  BY <1>1 DEF AnalysisInv, AnalysisTypeOK, AWorker
<1>5. runs[v].tries < MaxTries
  BY <1>3 DEF AnalysisInv, RetriesLeft
<1> HIDE DEF r
<1>6. /\ AnalysisTypeOK' /\ RetriesLeft' /\ NoRunAhead'
      /\ \A u \in Version \ {v} : runs'[u] = runs[u]
  BY <1>2, <1>3, <1>4, <1>5, RowStep DEF ClaimRun, AnalysisInv, AnalysisTypeOK
<1>7. ASSUME NEW u \in Workers, aw'[u].pc = "building" PROVE aw'[u] = aw[u] /\ aw[u].run # v
  BY <1>3, <1>4, <1>7 DEF LockHeld
<1>8. BuiltByHolder'
  BY <1>6, <1>7, HolderKept DEF AnalysisInv
<1> QED
  BY <1>6, <1>8 DEF AnalysisInv

\* Build, Abort and Crash change no row.
LEMMA TurnInv ==
  ASSUME AnalysisInv, NEW w \in Workers, Build(w) \/ Abort(w) \/ Crash(w)
  PROVE  AnalysisInv'
<1>1. CASE Build(w)
  <2> DEFINE pc == IF Holds(w) THEN "building" ELSE "failing"
  <2>1. pc \in {"idle", "claimed", "building", "failing"} /\ Goto(w, pc)
    BY <1>1 DEF Build
  <2>2. /\ aw' \in [Workers -> AWorker] /\ aw'[w].pc = pc /\ aw'[w].run = aw[w].run
        /\ \A u \in Workers \ {w} : aw'[u] = aw[u]
    BY <2>1, GotoType DEF AnalysisInv
  <2> QED
    BY <1>1, <2>2, WorkerStep DEF Build, AnalysisInv, AnalysisTypeOK
<1>2. CASE Abort(w)
  <2>1. /\ aw' \in [Workers -> AWorker] /\ aw'[w].pc = "failing"
        /\ \A u \in Workers \ {w} : aw'[u] = aw[u]
    BY <1>2, GotoType DEF AnalysisInv, Abort
  <2> QED
    BY <1>2, <2>1, FaultType, WorkerStep DEF Abort, AnalysisInv
<1>3. CASE Crash(w)
  BY <1>3, LeaveType, FaultType, WorkerStep DEF Crash, AnalysisInv
<1> QED
  BY <1>1, <1>2, <1>3

\* A worker lets go of its run with a new row for it; who else builds there.
LEMMA Released ==
  ASSUME AnalysisInv, NEW w \in Workers, NEW r \in Run, Holds(w), Leave(w),
         runs' = [runs EXCEPT ![aw[w].run] = r],
         r.state \in {"queued", "running"} => r.tries < MaxTries,
         \A u \in Workers \ {w} : ~(aw[u].pc = "building" /\ aw[u].run = aw[w].run),
         UNCHANGED <<version, ended, faults>>
  PROVE  AnalysisInv'
<1> DEFINE v == aw[w].run
<1>1. v \in Version /\ runs[v].state # "none"
  BY AtVersion DEF AnalysisInv, Holds
<1>2. /\ aw' \in [Workers -> AWorker] /\ aw'[w].pc = "idle"
      /\ \A u \in Workers \ {w} : aw'[u] = aw[u]
  BY LeaveType DEF AnalysisInv
<1>3. /\ AnalysisTypeOK' /\ RetriesLeft' /\ NoRunAhead'
      /\ \A u \in Version \ {v} : runs'[u] = runs[u]
  BY <1>1, <1>2, RowStep DEF AnalysisInv, AnalysisTypeOK
<1>4. ASSUME NEW u \in Workers, aw'[u].pc = "building" PROVE aw'[u] = aw[u] /\ aw[u].run # v
  BY <1>2, <1>4
<1>5. BuiltByHolder'
  BY <1>1, <1>3, <1>4, HolderKept DEF AnalysisInv
<1> QED
  BY <1>3, <1>5 DEF AnalysisInv

\* Two workers do not build at the same run.
LEMMA OneBuilds ==
  ASSUME BuiltByHolder, NEW w \in Workers, NEW u \in Workers,
         aw[w].pc = "building", aw[u].pc = "building", aw[u].run = aw[w].run
  PROVE  u = w
  BY DEF BuiltByHolder, Holds

LEMMA PublishedRow ==
  ASSUME AnalysisInv, NEW w \in Workers, Publish(w)
  PROVE  \E r \in Run : r.state = "completed" /\ runs' = [runs EXCEPT ![aw[w].run] = r]
<1> DEFINE v == aw[w].run
           r == [runs[v] EXCEPT !.state = "completed", !.owner = Nobody, !.live = FALSE]
<1>1. v \in Version /\ runs[v] \in Run
  BY AtVersion DEF AnalysisInv
<1>2. r \in Run /\ r.state = "completed"
  BY <1>1 DEF Run, RunState
<1>3. runs' = [runs EXCEPT ![v] = r]
  BY <1>1 DEF Publish, AnalysisInv, AnalysisTypeOK
<1> QED
  BY <1>2, <1>3

LEMMA PublishInv ==
  ASSUME AnalysisInv, NEW w \in Workers, Publish(w)
  PROVE  AnalysisInv'
<1>1. PICK r \in Run : r.state = "completed" /\ runs' = [runs EXCEPT ![aw[w].run] = r]
  BY PublishedRow
<1>2. Holds(w) /\ \A u \in Workers \ {w} : ~(aw[u].pc = "building" /\ aw[u].run = aw[w].run)
  BY OneBuilds DEF AnalysisInv, BuiltByHolder, Publish
<1> QED
  BY <1>1, <1>2, Released DEF Publish

LEMMA FailInv ==
  ASSUME AnalysisInv, NEW w \in Workers, Fail(w)
  PROVE  AnalysisInv'
<1> DEFINE v == aw[w].run
<1>1. v \in Version /\ runs[v] \in Run
  BY AtVersion DEF AnalysisInv
<1>2. CASE Holds(w)
  <2>1. runs[v].tries < MaxTries
    BY <1>1, <1>2 DEF AnalysisInv, RetriesLeft, Holds
  <2>2. Retried(runs[v]) \in Run /\ Retried(runs[v]).state \in {"queued", "failed"}
        /\ (Retried(runs[v]).state = "queued" => Retried(runs[v]).tries < MaxTries)
    BY <1>1, <2>1, RetriedType
  <2>3. runs' = [runs EXCEPT ![v] = Retried(runs[v])]
    BY <1>1, <1>2 DEF Fail
  <2> QED
    BY <1>2, <2>2, <2>3, Released DEF Fail, LockHeld
<1>3. CASE ~Holds(w)
  BY <1>3, LeaveType, WorkerStep DEF Fail, AnalysisInv, AnalysisTypeOK
<1> QED
  BY <1>2, <1>3

\* Time: a lease runs out or a pause is over.
LEMMA ClockInv ==
  ASSUME AnalysisInv, NEW v \in Version, LeaseRunsOut(v) \/ LeaseTooShort(v) \/ RetryDue(v)
  PROVE  AnalysisInv'
<1>1. runs[v] \in Run
  BY DEF AnalysisInv, AnalysisTypeOK
<1>2. \E r \in Run : /\ runs' = [runs EXCEPT ![v] = r] /\ runs[v].state # "none"
                     /\ r.state = runs[v].state /\ r.owner = runs[v].owner
                     /\ r.tries = runs[v].tries
  <2> DEFINE dead == [runs[v] EXCEPT !.live = FALSE]
             ready == [runs[v] EXCEPT !.due = TRUE]
  <2>1. /\ dead \in Run /\ dead.state = runs[v].state /\ dead.owner = runs[v].owner
        /\ dead.tries = runs[v].tries
    BY <1>1 DEF Run
  <2>2. /\ ready \in Run /\ ready.state = runs[v].state /\ ready.owner = runs[v].owner
        /\ ready.tries = runs[v].tries
    BY <1>1 DEF Run
  <2>3. \/ runs' = [runs EXCEPT ![v] = dead] /\ runs[v].state # "none"
        \/ runs' = [runs EXCEPT ![v] = ready] /\ runs[v].state # "none"
    BY DEF LeaseRunsOut, LeaseTooShort, RetryDue, Expire, AnalysisInv, AnalysisTypeOK
  <2> QED
    BY <2>1, <2>2, <2>3
<1>3. PICK r \in Run : /\ runs' = [runs EXCEPT ![v] = r] /\ runs[v].state # "none"
                       /\ r.state = runs[v].state /\ r.owner = runs[v].owner
                       /\ r.tries = runs[v].tries
  BY <1>2
<1>4. r.state \in {"queued", "running"} => r.tries < MaxTries
  BY <1>3 DEF AnalysisInv, RetriesLeft
<1>5. aw' = aw /\ faults' \in 0..MaxFaults /\ UNCHANGED <<version, ended>>
  BY FaultType DEF LeaseRunsOut, LeaseTooShort, RetryDue, AnalysisInv, AnalysisTypeOK
<1>6. /\ AnalysisTypeOK' /\ RetriesLeft' /\ NoRunAhead'
      /\ runs'[v] = r /\ \A u \in Version \ {v} : runs'[u] = runs[u]
  BY <1>3, <1>4, <1>5, RowStep DEF AnalysisInv, AnalysisTypeOK
<1>7. BuiltByHolder'
  BY <1>3, <1>5, <1>6, HolderSame DEF AnalysisInv
<1> QED
  BY <1>6, <1>7 DEF AnalysisInv

LEMMA InitInv == AnalysisInit => AnalysisInv
<1> SUFFICES ASSUME AnalysisInit PROVE AnalysisInv
  OBVIOUS
<1>1. AnalysisTypeOK
  BY NewRunType, IdleType, AnalysisConstants DEF AnalysisInit, AnalysisTypeOK, Version
<1>2. \A v \in Version : runs[v].state = "none"
  BY DEF AnalysisInit, NoRun
<1>3. \A w \in Workers : aw[w].pc = "idle"
  BY IdleType DEF AnalysisInit
<1> QED
  BY <1>1, <1>2, <1>3 DEF AnalysisInv, RetriesLeft, NoRunAhead, BuiltByHolder

LEMMA NextInv == AnalysisInv /\ [AnalysisNext]_avars => AnalysisInv'
<1> SUFFICES ASSUME AnalysisInv, [AnalysisNext]_avars PROVE AnalysisInv'
  OBVIOUS
<1>1. CASE UNCHANGED avars
  BY <1>1 DEF avars, AnalysisInv, AnalysisTypeOK, RetriesLeft, NoRunAhead, BuiltByHolder, Holds
<1>2. ASSUME NEW w \in Workers, Poll(w) PROVE AnalysisInv'
  BY <1>1, <1>2 DEF Poll
<1>3. ASSUME NEW w \in Workers, Work(w) PROVE AnalysisInv'
  BY <1>3, ClaimInv, TurnInv, PublishInv, FailInv DEF Work
<1>4. CASE Clock
  BY <1>4, ClockInv DEF Clock
<1> QED
  BY <1>1, <1>2, <1>3, <1>4, EndsInv, SeedInv, TurnInv, ClockInv DEF AnalysisNext

LEMMA AnalysisInvariant == AnalysisSpec => []AnalysisInv
  BY InitInv, NextInv, PTL DEF AnalysisSpec

\* Every reachable state has the types of the model; in particular a run is not retried
\* more often than fail_analysis_run allows.
THEOREM AnalysisTypeCorrect == AnalysisSpec => []AnalysisTypeOK
<1>1. AnalysisInv => AnalysisTypeOK
  BY DEF AnalysisInv
<1> QED
  BY <1>1, AnalysisInvariant, PTL

\* The insert of a run at the end of transition_job never meets a run that is there,
\* whatever the workers seed meanwhile.
THEOREM RunsNotAhead == AnalysisSpec => []NoRunAhead
<1>1. AnalysisInv => NoRunAhead
  BY DEF AnalysisInv
<1> QED
  BY <1>1, AnalysisInvariant, PTL

\* Whoever builds a summary holds the run, whatever leases run out under it: the check of
\* the owner and the lock of the row are enough.
THEOREM HolderBuilds == AnalysisSpec => []BuiltByHolder
<1>1. AnalysisInv => BuiltByHolder
  BY DEF AnalysisInv
<1> QED
  BY <1>1, AnalysisInvariant, PTL

------------------------------------------------------------------------------
(***************************************************************************)
(* Refinement of AnalysisPromise.                                            *)
(***************************************************************************)

\* No run changes between the states the promise tells apart.
RunsSame ==
  \A v \in Version : \/ runs'[v].state = runs[v].state
                     \/ {runs'[v].state, runs[v].state} \subseteq {"queued", "running"}

LEMMA PromiseStutters ==
  ASSUME RunsSame, UNCHANGED <<version, ended>>
  PROVE  UNCHANGED Promise!pvars
  BY DEF Promise!pvars, RunsSame

\* A run that somebody has comes to its end.
LEMMA PromiseSettles ==
  ASSUME NEW v \in Version, NEW s \in {"completed", "failed"},
         runs[v].state = "running", runs'[v].state = s,
         \A u \in Version \ {v} : runs'[u] = runs[u], UNCHANGED <<version, ended>>
  PROVE  Promise!PromiseNext
<1>1. Promise!Settle(v, s)
  BY DEF Promise!Settle
<1> QED
  BY <1>1 DEF Promise!PromiseNext, Promise!Version, Version

\* The outcomes of the promise, as the instance names them.
Outcomes ==
  [v \in Version |-> IF runs[v].state \in {"queued", "running"} THEN "open" ELSE runs[v].state]

\* A version gets its run.
LEMMA RunOpens ==
  ASSUME AnalysisInv, NEW v \in Version, runs[v].state = "none",
         runs' = [runs EXCEPT ![v] = NewRun]
  PROVE  Outcomes[v] = "none" /\ Outcomes' = [Outcomes EXCEPT ![v] = "open"]
<1>1. runs'[v].state = "queued" /\ \A u \in Version \ {v} : runs'[u] = runs[u]
  BY NewRunType DEF AnalysisInv, AnalysisTypeOK
<1>2. Outcomes[v] = "none"
  BY DEF Outcomes
<1>3. Outcomes'[v] = "open" /\ \A u \in Version \ {v} : Outcomes'[u] = Outcomes[u]
  BY <1>1 DEF Outcomes
<1>4. Outcomes = [u \in Version |-> Outcomes[u]] /\ Outcomes' = [u \in Version |-> Outcomes'[u]]
  BY DEF Outcomes
<1>5. Outcomes' = [Outcomes EXCEPT ![v] = "open"]
  BY <1>3, <1>4
<1> QED
  BY <1>2, <1>5

LEMMA PromiseEnds ==
  ASSUME AnalysisInv, NEW own \in BOOLEAN, NEW how \in {"completed", "failed"}, Ends(own, how)
  PROVE  Promise!PromiseNext
<1>1. version + 1 \in Version /\ runs[version + 1].state = "none"
  BY VersionType DEF Ends, AnalysisInv, NoRunAhead
<1>2. Promise!End(own, how)
  <2>1. CASE SummaryWrite /\ how = "completed"
    <3>1. runs' = [runs EXCEPT ![version + 1] = NewRun]
      BY <1>1, <2>1 DEF Ends
    <3>2. Outcomes' = [Outcomes EXCEPT ![version + 1] = "open"]
      BY <1>1, <3>1, RunOpens
    <3>3. version < MaxVersion /\ version' = version + 1 /\ ended' = IF own THEN how ELSE ended
      BY DEF Ends
    <3> QED
      BY <2>1, <3>2, <3>3 DEF Promise!End, Outcomes
  <2>2. CASE ~(SummaryWrite /\ how = "completed")
    <3>1. runs' = runs
      BY <2>2 DEF Ends
    <3> QED
      BY <2>2, <3>1 DEF Ends, Promise!End
  <2> QED
    BY <2>1, <2>2
<1> QED
  BY <1>2 DEF Promise!PromiseNext

LEMMA PromiseSeeds ==
  ASSUME AnalysisInv, NEW w \in Workers, Seed(w)
  PROVE  Promise!PromiseNext
<1>1. version \in Version
  BY DEF AnalysisInv, AnalysisTypeOK
<1>2. Outcomes[version] = "none" /\ Outcomes' = [Outcomes EXCEPT ![version] = "open"]
  BY <1>1, RunOpens DEF Seed
<1>3. UNCHANGED <<version, ended>>
  BY DEF Seed
<1>4. Promise!Order
  BY <1>2, <1>3 DEF Promise!Order, Outcomes
<1> QED
  BY <1>4 DEF Promise!PromiseNext

LEMMA PromiseWork ==
  ASSUME AnalysisInv, NEW w \in Workers, Work(w)
  PROVE  [Promise!PromiseNext]_Promise!pvars
<1> DEFINE v == aw[w].run
<1>1. v \in Version /\ runs[v] \in Run
  BY AtVersion DEF AnalysisInv
<1>2. CASE ClaimRun(w)
  <2>1. RunsSame
    BY <1>2 DEF ClaimRun, Claimable, RunsSame, AnalysisInv, AnalysisTypeOK, Run
  <2> QED
    BY <1>2, <2>1, PromiseStutters DEF ClaimRun
<1>3. CASE Build(w)
  BY <1>3, PromiseStutters DEF Build, RunsSame
<1>4. CASE Publish(w)
  <2>1. PICK r \in Run : r.state = "completed" /\ runs' = [runs EXCEPT ![v] = r]
    BY <1>4, PublishedRow
  <2>2. runs[v].state = "running" /\ runs'[v] = r /\ \A u \in Version \ {v} : runs'[u] = runs[u]
    BY <1>1, <1>4, <2>1 DEF Publish, AnalysisInv, AnalysisTypeOK, BuiltByHolder, Holds
  <2> QED
    BY <1>1, <1>4, <2>1, <2>2, PromiseSettles DEF Publish
<1>5. CASE Fail(w)
  <2>1. CASE ~Holds(w)
    BY <1>5, <2>1, PromiseStutters DEF Fail, RunsSame
  <2>2. CASE Holds(w)
    <3>1. runs[v].tries < MaxTries /\ runs[v].state = "running"
      BY <1>1, <2>2 DEF AnalysisInv, RetriesLeft, Holds
    <3>2. Retried(runs[v]).state \in {"queued", "failed"}
      BY <1>1, <3>1, RetriedType
    <3>3. runs'[v] = Retried(runs[v]) /\ \A u \in Version \ {v} : runs'[u] = runs[u]
      BY <1>1, <1>5, <2>2 DEF Fail, AnalysisInv, AnalysisTypeOK
    <3>4. CASE Retried(runs[v]).state = "queued"
      BY <1>5, <3>1, <3>3, <3>4, PromiseStutters DEF Fail, RunsSame
    <3>5. CASE Retried(runs[v]).state = "failed"
      BY <1>1, <1>5, <3>1, <3>3, <3>5, PromiseSettles DEF Fail
    <3> QED
      BY <3>2, <3>4, <3>5
  <2> QED
    BY <2>1, <2>2
<1> QED
  BY <1>2, <1>3, <1>4, <1>5 DEF Work

LEMMA PromiseStep ==
  AnalysisInv /\ [AnalysisNext]_avars => [Promise!PromiseNext]_Promise!pvars
<1> SUFFICES ASSUME AnalysisInv, [AnalysisNext]_avars PROVE [Promise!PromiseNext]_Promise!pvars
  OBVIOUS
<1>1. CASE UNCHANGED avars
  BY <1>1, PromiseStutters DEF avars, RunsSame
<1>2. ASSUME NEW w \in Workers, Poll(w) \/ Abort(w) \/ Crash(w)
      PROVE  [Promise!PromiseNext]_Promise!pvars
  BY <1>2, PromiseStutters DEF Poll, Abort, Crash, avars, RunsSame
<1>3. ASSUME NEW v \in Version, LeaseRunsOut(v) \/ LeaseTooShort(v) \/ RetryDue(v)
      PROVE  [Promise!PromiseNext]_Promise!pvars
  <2>1. RunsSame
    BY <1>3 DEF LeaseRunsOut, LeaseTooShort, RetryDue, Expire, RunsSame, AnalysisInv, AnalysisTypeOK, Run
  <2> QED
    BY <1>3, <2>1, PromiseStutters DEF LeaseRunsOut, LeaseTooShort, RetryDue
<1> QED
  BY <1>1, <1>2, <1>3, PromiseEnds, PromiseSeeds, PromiseWork DEF AnalysisNext, Clock

\* The workers keep the promise of AnalysisPromise: versions grow, a version has at most
\* one run, and a run ends once, whatever late or lost workers report.
THEOREM AnalysisKeepsPromise == AnalysisSpec => AnalysisPromised
<1>1. AnalysisInit => Promise!PromiseInit
  BY DEF AnalysisInit, NoRun, Promise!PromiseInit, Promise!Version, Version
<1> QED
  BY <1>1, PromiseStep, AnalysisInvariant, PTL DEF AnalysisSpec, AnalysisPromised, Promise!PromiseSpec

==============================================================================
