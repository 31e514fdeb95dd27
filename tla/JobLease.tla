------------------------------- MODULE JobLease -------------------------------
(***************************************************************************)
(* The life of sync_jobs rows in the hands of the polling workers: claiming *)
(* under a lease, renewing before every upstream call, checkpointing,       *)
(* pausing, finishing, and the crash of a worker at any point.              *)
(*                                                                          *)
(* A job is a video job: one request for the video's details, then the      *)
(* pages of its comment threads.  A worker runs the job through the steps   *)
(* of JobRunner.run and YouTubeCollector._collect_video_job; every database *)
(* transaction is one step and steps of several workers interleave.         *)
(*                                                                          *)
(* Time is abstract: a lease is live or expired, a pause is running or due. *)
(***************************************************************************)
EXTENDS Naturals, JobStates

CONSTANTS
    Worker,        \* the worker processes
    Job,           \* the video jobs
    NoWorker,      \* lease_owner IS NULL
    Pages,         \* pages of comment threads of a video
    Threaded,      \* the pages that hold a thread whose replies need own calls
    TimelyLeases,  \* TRUE: a lease never expires under a worker that is still at it
    MaxFaults      \* bound on crashes and failed upstream calls in a behaviour

ASSUME ConstantsOK ==
    /\ Job # {}
    /\ NoWorker \notin Worker
    /\ Pages \in Nat \ {0}
    /\ Threaded \subseteq 1..Pages
    /\ TimelyLeases \in BOOLEAN
    /\ MaxFaults \in Nat

VARIABLES
    row,      \* the sync_jobs rows
    stored,   \* the pieces of comment pages committed for each job's video
    gone,     \* jobs whose video the upstream reported as not existing
    bumps,    \* data_version increments a job's terminal transition made
    wk,       \* the workers' control state and memory
    faults    \* crashes and failed upstream calls so far

vars == <<row, stored, gone, bumps, wk, faults>>

\* A page is stored in two pieces: its threads, and the replies beyond them.
Piece == (1..Pages) \X {"threads", "replies"}
WholePage(p) == {<<p, "threads">>, <<p, "replies">>}

\* The page token to resume from: 0 is the first page, and also the token
\* that follows the last page.
Cursor == 0..(Pages - 1)
Token(p) == IF p = Pages THEN 0 ELSE p

Row == [state: JobState, owner: Worker \union {NoWorker},
        lease: {"none", "live", "expired"}, resume: {"none", "later", "due"},
        cursor: Cursor, warned: BOOLEAN]

Upstream == {"detail", "thread", "reply"}
Control == {"idle", "begin", "check", "page", "replypage", "save", "saving",
            "finish", "ending", "quota", "retry", "fail", "down"} \union Upstream
After == {"check", "finish", "wrap", "quota", "retry", "fail"}

\* job and ident: what runner.run read; at: pages traversed; mem: the cursor
\* in _active_checkpoint; what, seen, next: the save in progress.
Mind == [pc: Control, job: Job, ident: Worker \union {NoWorker}, at: 0..Pages,
         mem: Cursor, what: {"cursor", "warning"}, seen: JobState, next: After,
         warned: BOOLEAN]

TypeOK ==
    /\ row \in [Job -> Row]
    /\ stored \in [Job -> SUBSET Piece]
    /\ gone \subseteq Job
    /\ bumps \in [Job -> Nat]
    /\ wk \in [Worker -> Mind]
    /\ faults \in 0..MaxFaults

Fresh == [pc |-> "idle", job |-> CHOOSE j \in Job : TRUE, ident |-> NoWorker,
          at |-> 0, mem |-> 0, what |-> "cursor", seen |-> "queued",
          next |-> "finish", warned |-> FALSE]

NewRow == [state |-> "queued", owner |-> NoWorker, lease |-> "none",
           resume |-> "none", cursor |-> 0, warned |-> FALSE]

Init ==
    /\ row = [j \in Job |-> NewRow]
    /\ stored = [j \in Job |-> {}]
    /\ gone = {}
    /\ bumps = [j \in Job |-> 0]
    /\ wk = [w \in Worker |-> Fresh]
    /\ faults = 0

Working(w) == wk[w].pc \notin {"idle", "down"}
At(w, pc) == wk[w].pc = pc
Turn(w, m) == wk' = [wk EXCEPT ![w] = m]
Fault == faults < MaxFaults /\ faults' = faults + 1

------------------------------------------------------------------------------
\* Operations of the repository on one row.

\* Mutation: a running job is claimed without looking at its lease.
ClaimableWhileLeased(j) ==
    \/ row[j].state \in {"queued", "running"}
    \/ row[j].state \in Waiting /\ row[j].resume = "due"

\* Mutation: the jobs of dead workers are not taken back.
ClaimableWithoutReclaim(j) ==
    /\ \/ row[j].state = "queued"
       \/ row[j].state \in Waiting /\ row[j].resume = "due"
    /\ row[j].lease # "live"

Claimable(j) ==
    /\ \/ row[j].state = "queued"
       \/ row[j].state \in Waiting /\ row[j].resume = "due"
       \/ row[j].state = "running" /\ row[j].lease = "expired"
    /\ row[j].lease # "live"

\* Mutation: a lease of no length.
ClaimedWithoutTime(r, w) ==
    [r EXCEPT !.state = "running", !.resume = "none", !.owner = w, !.lease = "expired"]

Claimed(r, w) ==
    [r EXCEPT !.state = "running", !.resume = "none", !.owner = w, !.lease = "live"]

\* _call renews only when the job it was given had a lease owner.
MayCall(w) ==
    LET m == wk[w] IN
    m.ident = NoWorker \/ (row[m.job].state = "running" /\ row[m.job].owner = m.ident)

Renewed(w) ==
    LET m == wk[w] IN
    IF m.ident = NoWorker THEN row ELSE [row EXCEPT ![m.job].lease = "live"]

\* Mutation: the terminal effects also happen when a terminal state is rewritten.
TransitionRepublishing(j, r) ==
    /\ CanMove(row[j].state, r.state)
    /\ row' = [row EXCEPT ![j] = r]
    /\ bumps' = [bumps EXCEPT ![j] = IF r.state \in Terminal THEN @ + 1 ELSE @]
    /\ UNCHANGED <<stored, gone>>

\* transition_job on the row of job j, whose new contents are r: the terminal
\* effects happen only when the row leaves the non-terminal states.
Transition(j, r) ==
    /\ CanMove(row[j].state, r.state)
    /\ row' = [row EXCEPT ![j] = r]
    /\ bumps' = [bumps EXCEPT ![j] =
                    IF row[j].state \notin Terminal /\ r.state \in Terminal THEN @ + 1 ELSE @]
    /\ UNCHANGED <<stored, gone>>

\* transition_job raising InvalidStateTransitionError.
Rejected(j, to) ==
    /\ ~CanMove(row[j].state, to)
    /\ UNCHANGED <<row, stored, gone, bumps>>

------------------------------------------------------------------------------
\* A worker, one transaction at a time.

Save(m, what, next) == [m EXCEPT !.pc = "save", !.what = what, !.next = next]
WrapUp(m) == Save([m EXCEPT !.mem = 0], "cursor", "finish")

Claim(w, j) ==
    /\ At(w, "idle")
    /\ Claimable(j)
    /\ row' = [row EXCEPT ![j] = Claimed(@, w)]
    /\ Turn(w, [Fresh EXCEPT !.pc = "begin", !.job = j])
    /\ UNCHANGED <<stored, gone, bumps, faults>>

\* Nothing to claim: the loop sleeps and polls again.
Poll(w) ==
    /\ At(w, "idle")
    /\ \A j \in Job : ~Claimable(j)
    /\ UNCHANGED vars

\* runner.run reads the row again; whoever owns it by now is taken for the owner.
Begin(w) ==
    LET m == wk[w]  r == row[m.job] IN
    /\ At(w, "begin")
    /\ Turn(w, IF r.state = "running"
               THEN [m EXCEPT !.pc = "detail", !.ident = r.owner, !.at = r.cursor, !.mem = r.cursor]
               ELSE Fresh)
    /\ UNCHANGED <<row, stored, gone, bumps, faults>>

\* The renewal before an upstream call finds the lease gone: LeaseLostError.
LoseLease(w) ==
    /\ wk[w].pc \in Upstream
    /\ ~MayCall(w)
    /\ Turn(w, Fresh)
    /\ UNCHANGED <<row, stored, gone, bumps, faults>>

\* An upstream call fails: _raise_classified first saves the active checkpoint.
CallFails(w, outcome) ==
    /\ wk[w].pc \in Upstream
    /\ MayCall(w)
    /\ Fault
    /\ row' = Renewed(w)
    /\ Turn(w, Save(wk[w], "cursor", outcome))
    /\ UNCHANGED <<stored, gone, bumps>>

\* The video details arrive: _video_records checkpoints the stage video_details,
\* which holds no comment cursor.
GetDetails(w, found) ==
    LET m == [wk[w] EXCEPT !.mem = 0] IN
    /\ At(w, "detail")
    /\ MayCall(w)
    /\ row' = Renewed(w)
    /\ gone' = IF found THEN gone ELSE gone \union {m.job}
    /\ Turn(w, Save(m, "cursor", IF found THEN "check" ELSE "finish"))
    /\ UNCHANGED <<stored, bumps, faults>>

\* Mutation: comments are skipped when any are stored.
CheckAnyStored(w, skip) ==
    /\ At(w, "check")
    /\ skip => stored[wk[w].job] # {}
    /\ Turn(w, IF skip THEN WrapUp(wk[w]) ELSE [wk[w] EXCEPT !.pc = "thread"])
    /\ UNCHANGED <<row, stored, gone, bumps, faults>>

\* Comments are skipped when at least the advertised number is stored already.
CheckStored(w, skip) ==
    /\ At(w, "check")
    /\ skip => stored[wk[w].job] = Piece
    /\ Turn(w, IF skip THEN WrapUp(wk[w]) ELSE [wk[w] EXCEPT !.pc = "thread"])
    /\ UNCHANGED <<row, stored, gone, bumps, faults>>

GetThreads(w) ==
    /\ At(w, "thread")
    /\ MayCall(w)
    /\ row' = Renewed(w)
    /\ Turn(w, [wk[w] EXCEPT !.pc = "page"])
    /\ UNCHANGED <<stored, gone, bumps, faults>>

\* commentsDisabled or videoNotFound: a partial error, and the job goes on.
CommentsUnavailable(w) ==
    /\ At(w, "thread")
    /\ MayCall(w)
    /\ row' = Renewed(w)
    /\ Turn(w, Save(wk[w], "warning", "wrap"))
    /\ UNCHANGED <<stored, gone, bumps, faults>>

GetReplies(w) ==
    /\ At(w, "reply")
    /\ MayCall(w)
    /\ row' = Renewed(w)
    /\ Turn(w, [wk[w] EXCEPT !.pc = "replypage"])
    /\ UNCHANGED <<stored, gone, bumps, faults>>

\* Mutation: the page's checkpoint is committed with its first piece.
StoreThreadsWithCursor(w) ==
    LET m == wk[w] IN
    /\ At(w, "page")
    /\ m.at + 1 \in Threaded
    /\ stored' = [stored EXCEPT ![m.job] = @ \union {<<m.at + 1, "threads">>}]
    /\ row' = [row EXCEPT ![m.job].cursor = Token(m.at + 1)]
    /\ Turn(w, [m EXCEPT !.pc = "reply"])
    /\ UNCHANGED <<gone, bumps, faults>>

\* persist_comment_page without a checkpoint: reply calls are still to come.
StoreThreads(w) ==
    LET m == wk[w] IN
    /\ At(w, "page")
    /\ m.at + 1 \in Threaded
    /\ stored' = [stored EXCEPT ![m.job] = @ \union {<<m.at + 1, "threads">>}]
    /\ Turn(w, [m EXCEPT !.pc = "reply"])
    /\ UNCHANGED <<row, gone, bumps, faults>>

\* The page in hand has no reply calls left: its last piece carries the checkpoint.
LastPiece(w) ==
    \/ At(w, "page") /\ wk[w].at + 1 \notin Threaded
    \/ At(w, "replypage")

\* persist_comment_page with the checkpoint of the finished page, in one
\* transaction that fails unless the job is running.
CommitPage(w) ==
    LET m == wk[w]  p == m.at + 1
        done == [m EXCEPT !.at = p, !.mem = Token(p), !.pc = "thread"] IN
    /\ LastPiece(w)
    /\ row[m.job].state = "running"
    /\ stored' = [stored EXCEPT ![m.job] = @ \union
                     IF At(w, "page") THEN WholePage(p) ELSE {<<p, "replies">>}]
    /\ row' = [row EXCEPT ![m.job].cursor = Token(p)]
    /\ Turn(w, IF p = Pages THEN WrapUp(done) ELSE done)
    /\ UNCHANGED <<gone, bumps, faults>>

CommitRefused(w) ==
    LET m == wk[w] IN
    /\ LastPiece(w)
    /\ row[m.job].state # "running"
    /\ Turn(w, [m EXCEPT !.pc = "fail"])
    /\ UNCHANGED <<row, stored, gone, bumps, faults>>

\* checkpoint_job, update_job_progress and _add_partial_error read the job ...
SaveRead(w) ==
    /\ At(w, "save")
    /\ Turn(w, [wk[w] EXCEPT !.pc = "saving", !.seen = row[wk[w].job].state])
    /\ UNCHANGED <<row, stored, gone, bumps, faults>>

SavedRow(m) ==
    IF m.what = "cursor" THEN [row[m.job] EXCEPT !.state = m.seen, !.cursor = m.mem]
                         ELSE [row[m.job] EXCEPT !.state = m.seen, !.warned = TRUE]

\* ... and write it, with the state they read, in a second transaction.
SaveWrite(w) ==
    LET m == wk[w] IN
    /\ At(w, "saving")
    /\ Transition(m.job, SavedRow(m))
    /\ Turn(w, IF m.next = "wrap" THEN WrapUp(m) ELSE [m EXCEPT !.pc = m.next])
    /\ UNCHANGED faults

\* A stage boundary makes one to five saves of the same cursor in a row.
SaveAgain(w) ==
    LET m == wk[w] IN
    /\ At(w, "saving")
    /\ Transition(m.job, SavedRow(m))
    /\ Turn(w, [m EXCEPT !.pc = "save"])
    /\ UNCHANGED faults

SaveRefused(w) ==
    LET m == wk[w] IN
    /\ At(w, "saving")
    /\ Rejected(m.job, m.seen)
    /\ Turn(w, [m EXCEPT !.pc = "fail"])
    /\ UNCHANGED faults

\* collect returned: runner.run reads the job for its partial errors.
Finish(w) ==
    /\ At(w, "finish")
    /\ Turn(w, [wk[w] EXCEPT !.pc = "ending", !.warned = row[wk[w].job].warned])
    /\ UNCHANGED <<row, stored, gone, bumps, faults>>

\* Mutation: a quota pause that forgets resume_at.
SettledWithoutResume(m) ==
    LET free == [row[m.job] EXCEPT !.owner = NoWorker, !.lease = "none"] IN
    CASE m.pc = "quota"  -> [free EXCEPT !.state = "waiting_quota"]
      [] m.pc = "retry"  -> [free EXCEPT !.state = "waiting_retry", !.resume = "later"]
      [] m.pc = "fail"   -> [free EXCEPT !.state = "failed"]
      [] m.pc = "ending" -> [free EXCEPT !.resume = "none", !.state =
                                IF m.warned THEN "completed_with_warnings" ELSE "completed"]

\* The row the runner's last transition writes for each outcome of collect.
SettledRow(m) ==
    LET free == [row[m.job] EXCEPT !.owner = NoWorker, !.lease = "none"] IN
    CASE m.pc = "quota"  -> [free EXCEPT !.state = "waiting_quota", !.resume = "later"]
      [] m.pc = "retry"  -> [free EXCEPT !.state = "waiting_retry", !.resume = "later"]
      [] m.pc = "fail"   -> [free EXCEPT !.state = "failed"]
      [] m.pc = "ending" -> [free EXCEPT !.resume = "none", !.state =
                                IF m.warned THEN "completed_with_warnings" ELSE "completed"]

Settling(w) == wk[w].pc \in {"quota", "retry", "fail", "ending"}

Settle(w) ==
    /\ Settling(w)
    /\ Transition(wk[w].job, SettledRow(wk[w]))
    /\ Turn(w, Fresh)
    /\ UNCHANGED faults

\* The runner's own transition is refused: nothing catches it and the process ends.
SettleRefused(w) ==
    /\ Settling(w)
    /\ Rejected(wk[w].job, SettledRow(wk[w]).state)
    /\ Turn(w, [Fresh EXCEPT !.pc = "down"])
    /\ UNCHANGED faults

------------------------------------------------------------------------------
\* The environment.

Crash(w) ==
    /\ Working(w)
    /\ Fault
    /\ Turn(w, [Fresh EXCEPT !.pc = "down"])
    /\ UNCHANGED <<row, stored, gone, bumps>>

\* restart: unless-stopped, under the same worker id.
Restart(w) ==
    /\ At(w, "down")
    /\ Turn(w, Fresh)
    /\ UNCHANGED <<row, stored, gone, bumps, faults>>

LeaseExpires(j) ==
    /\ row[j].lease = "live"
    /\ TimelyLeases => \A w \in Worker : Working(w) => wk[w].job # j
    /\ row' = [row EXCEPT ![j].lease = "expired"]
    /\ UNCHANGED <<stored, gone, bumps, wk, faults>>

ResumeDue(j) ==
    /\ row[j].resume = "later"
    /\ row' = [row EXCEPT ![j].resume = "due"]
    /\ UNCHANGED <<stored, gone, bumps, wk, faults>>

Collect(w) ==
    \/ Begin(w) \/ LoseLease(w)
    \/ \E found \in BOOLEAN : GetDetails(w, found)
    \/ \E skip \in BOOLEAN : CheckStored(w, skip)
    \/ GetThreads(w) \/ CommentsUnavailable(w) \/ GetReplies(w)
    \/ StoreThreads(w) \/ CommitPage(w) \/ CommitRefused(w)
    \/ SaveRead(w) \/ SaveWrite(w) \/ SaveRefused(w)
    \/ Finish(w) \/ Settle(w) \/ SettleRefused(w)

Next ==
    \/ \E w \in Worker :
          \/ \E j \in Job : Claim(w, j)
          \/ \E outcome \in {"quota", "retry", "fail"} : CallFails(w, outcome)
          \/ Poll(w) \/ Collect(w) \/ SaveAgain(w) \/ Crash(w) \/ Restart(w)
    \/ \E j \in Job : LeaseExpires(j) \/ ResumeDue(j)

Spec == Init /\ [][Next]_vars

\* The worker loop and the clock keep going; failures are never promised.
\* SaveWrite is strongly fair because a stage boundary saves a fixed number of times.
Fairness ==
    /\ \A w \in Worker : /\ WF_vars(\E j \in Job : Claim(w, j))
                         /\ WF_vars(Collect(w))
                         /\ SF_vars(SaveWrite(w))
                         /\ WF_vars(Restart(w))
    /\ \A j \in Job : WF_vars(LeaseExpires(j)) /\ WF_vars(ResumeDue(j))

FairSpec == Spec /\ Fairness

------------------------------------------------------------------------------
\* A stored cursor is a promise about the data: whatever worker wrote it,
\* every page before it is committed, so resuming there skips nothing.
CursorCommitted ==
    \A j \in Job : \A p \in 1..row[j].cursor : WholePage(p) \subseteq stored[j]

\* A job that completed without warnings has all its comments, or its video
\* does not exist, even if several workers ran it and overwrote each other.
CompletedMeansCollected ==
    \A j \in Job : row[j].state = "completed" => stored[j] = Piece \/ j \in gone

\* The workers together keep the promise of JobPromise, whatever their leases do.
Promise == INSTANCE JobPromise WITH
    Outcome <- Terminal,
    status <- [j \in Job |-> IF row[j].state \in Terminal THEN row[j].state ELSE "open"],
    data <- stored,
    version <- bumps

PromiseKept == Promise!Spec

\* A job publishes its data exactly once, when it becomes terminal, however
\* many workers try to settle it.
PublishedOnce ==
    \A j \in Job : bumps[j] = IF row[j].state \in Terminal THEN 1 ELSE 0

\* With timely leases at most one worker is at work on a job.
SoleCollector ==
    \A v, w \in Worker : Working(v) /\ Working(w) /\ v # w => wk[v].job # wk[w].job

\* An unfinished job is in a worker's hands, or can be claimed now, or will be
\* once its lease expires or its pause is over (claim_next_job looks at nothing else).
NotStranded ==
    \A j \in Job :
        \/ row[j].state \in Terminal \union {"queued"}
        \/ row[j].state = "running" /\ row[j].lease # "none"
        \/ row[j].state \in Waiting /\ row[j].resume # "none"
        \/ \E w \in Worker : Working(w) /\ wk[w].job = j

\* With timely leases no worker process dies of a refused transition.
DownOnlyByCrash ==
    [][\A w \in Worker : wk'[w].pc = "down" /\ wk[w].pc # "down" => faults' = faults + 1]_vars

\* A job paused for quota keeps the cursor of the pages it has committed.
PauseKeepsCursor ==
    \A j \in Job : row[j].state = "waiting_quota" /\ stored[j] # Piece =>
        \A p \in 1..(Pages - 1) :
            (\A q \in 1..p : WholePage(q) \subseteq stored[j]) => row[j].cursor >= p

\* With timely leases and finitely many faults every job ends.
EveryJobEnds == \A j \in Job : <>(row[j].state \in Terminal)

==============================================================================
