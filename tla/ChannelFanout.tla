---------------------------- MODULE ChannelFanout ----------------------------
(***************************************************************************)
(* The collection of one channel: a parent job walks the pages of the       *)
(* uploads, newest first, makes a child job for every video it found, marks *)
(* itself as fanned out, and then wakes every few seconds until its         *)
(* children have ended.  Meanwhile the channel uploads and deletes videos.  *)
(*                                                                          *)
(* Leases are timely, so that one worker at most is at a parent (JobLease,  *)
(* SoleCollector); the worker may crash, and any of its steps may raise.    *)
(* A child is the open job of JobPromise: it is claimed, writes its video,  *)
(* pauses, and ends.  What it does with comments is JobLease.               *)
(***************************************************************************)
EXTENDS Naturals, FiniteSets, JobStates

CONSTANTS
    Workers,     \* the number of worker processes
    MaxVideos,   \* bound on uploads; a video is its number, the newest the greatest
    MaxDeleted,  \* bound on deletions
    MaxParents,  \* bound on the parents a behaviour makes
    PageSize,    \* videos on a page of the uploads
    Limit,       \* the most videos a parent collects unless it collects all
    MaxFaults    \* bound on crashes, failed calls, exceptions and children's pauses

ASSUME FanoutConstants ==
    /\ Workers \in Nat \ {0}
    /\ MaxVideos \in Nat
    /\ MaxDeleted \in Nat
    /\ MaxParents \in Nat \ {0}
    /\ PageSize \in Nat \ {0}
    /\ Limit \in Nat \ {0}
    /\ MaxFaults \in Nat

VARIABLES
    uploaded,     \* the channel's uploads are 1..uploaded
    deleted,      \* those it has deleted
    stored,       \* the rows of videos
    all,          \* the configuration has collectAllVideos
    full,         \* the coverage is complete with collectAllVideos
    parents,      \* parents made so far; one is active at a time
    parent,       \* the row of the latest
    children,     \* the rows of every parent's children
    walk,         \* the worker at the parent
    unpublished,  \* videos written since the target's last data version
    resolved,     \* history: 1..resolved is what a parent that collects all set out to find
    found,        \* history: what the parent's last finished discovery found
    faults        \* failures so far

upstream == <<uploaded, deleted>>
data == <<all, stored, full, unpublished>>
history == <<resolved, found>>
vars == <<upstream, data, history, parents, parent, children, walk, faults>>

Video == 1..MaxVideos
Listed == (1..uploaded) \ deleted

\* due: not waiting for the end of a pause or of a dead worker's lease.
ParentRow == [state: JobState, marked: BOOLEAN, due: BOOLEAN]

\* "fetched" is a running child that has written what upstream said of its video,
\* "waiting" one that pauses or whose worker died.
ChildState == {"none", "queued", "running", "fetched", "waiting", "completed", "failed"}
ChildEnded == {"completed", "failed"}

\* all, incremental, expected and deficit: what the collector read; ids: the videos
\* found so far, and the page token, for all videos of the next page are older.
Step == {"away", "begin", "resolve", "count", "page", "enqueue", "mark", "summary",
         "retry", "quota", "fail", "complete"}
Walk == [pc: Step, all: BOOLEAN, incremental: BOOLEAN, expected: Nat, deficit: BOOLEAN,
         ids: SUBSET Video]

TypeOK ==
    /\ uploaded \in 0..MaxVideos
    /\ deleted \subseteq Video
    /\ stored \subseteq Video
    /\ all \in BOOLEAN
    /\ full \in BOOLEAN
    /\ parents \in 0..MaxParents
    /\ parent \in ParentRow
    /\ children \in [1..MaxParents -> [Video -> ChildState]]
    /\ walk \in Walk
    /\ unpublished \subseteq Video
    /\ resolved \in 0..MaxVideos
    /\ found \subseteq Video
    /\ faults \in 0..MaxFaults

Away == [pc |-> "away", all |-> FALSE, incremental |-> FALSE, expected |-> 0, deficit |-> FALSE,
         ids |-> {}]

\* No parent yet: the row is that of a job that ended before.
Init ==
    /\ uploaded \in 0..MaxVideos
    /\ deleted = {}
    /\ stored = {}
    /\ all = FALSE
    /\ full = FALSE
    /\ parents = 0
    /\ parent = [state |-> "failed", marked |-> FALSE, due |-> FALSE]
    /\ children = [n \in 1..MaxParents |-> [v \in Video |-> "none"]]
    /\ walk = Away
    /\ unpublished = {}
    /\ resolved = 0
    /\ found = {}
    /\ faults = 0

Fault == faults < MaxFaults /\ faults' = faults + 1
At(pc) == walk.pc = pc
\* What the collector has read is not used any more.
Go(pc) == walk' = [Away EXCEPT !.pc = pc]
Ours == children[parents]

------------------------------------------------------------------------------
\* The channel.

Upload ==
    /\ uploaded < MaxVideos
    /\ uploaded' = uploaded + 1
    /\ UNCHANGED <<deleted, data, history, parents, parent, children, walk, faults>>

Delete(v) ==
    /\ v \in Listed
    /\ Cardinality(deleted) < MaxDeleted
    /\ deleted' = deleted \union {v}
    /\ UNCHANGED <<uploaded, data, history, parents, parent, children, walk, faults>>

------------------------------------------------------------------------------
\* Parents and claims.

\* A submission merges collectAllVideos into the configuration, for good.
AskForAll ==
    /\ ~all
    /\ all' = TRUE
    /\ UNCHANGED <<upstream, stored, full, unpublished, history, parents, parent, children,
                   walk, faults>>

\* A submission, a refresh or a successor: never beside an active job.
NewParent ==
    /\ parents < MaxParents
    /\ parent.state \in Terminal
    /\ parents' = parents + 1
    /\ parent' = [state |-> "queued", marked |-> FALSE, due |-> TRUE]
    /\ resolved' = 0
    /\ found' = {}
    /\ UNCHANGED <<upstream, data, children, walk, faults>>

\* A worker process runs one job at a time.
AtWork == {c \in (1..MaxParents) \X Video : children[c[1]][c[2]] \in {"running", "fetched"}}
WorkerFree == Cardinality(AtWork) + (IF At("away") THEN 0 ELSE 1) < Workers

ParentClaimable ==
    /\ parent.due
    /\ parent.state \in {"queued", "running"} \union Waiting
    /\ At("away")

\* claim_next_job takes the oldest claimable job: children of earlier parents
\* come before the parent, and the parent comes before its own children.
Claim ==
    /\ WorkerFree
    /\ ParentClaimable
    /\ \A n \in 1..(parents - 1) : \A v \in Video : children[n][v] # "queued"
    /\ parent' = [parent EXCEPT !.state = "running", !.due = FALSE]
    /\ walk' = [Away EXCEPT !.pc = "begin"]
    /\ UNCHANGED <<upstream, data, history, parents, children, faults>>

\* Mutation: the job of a worker that died is not taken back.
DueWithoutReclaim ==
    /\ At("away")
    /\ parent.state \in Waiting
    /\ ~parent.due
    /\ parent' = [parent EXCEPT !.due = TRUE]
    /\ UNCHANGED <<upstream, data, history, parents, children, walk, faults>>

\* The pause is over, or the lease of the worker that died has run out.
Due ==
    /\ At("away")
    /\ parent.state \in {"running"} \union Waiting
    /\ ~parent.due
    /\ parent' = [parent EXCEPT !.due = TRUE]
    /\ UNCHANGED <<upstream, data, history, parents, children, walk, faults>>

\* Nothing to claim: the loop sleeps and polls again.
Poll ==
    /\ WorkerFree
    /\ ~ParentClaimable
    /\ \A n \in 1..parents : \A v \in Video : children[n][v] # "queued"
    /\ UNCHANGED vars

------------------------------------------------------------------------------
\* Discovery.

\* collect: a marked parent only looks after its children.
Begin ==
    /\ At("begin")
    /\ IF parent.marked THEN Go("summary")
       ELSE walk' = [Away EXCEPT !.pc = "resolve", !.all = all, !.incremental = full]
    /\ UNCHANGED <<upstream, data, history, parents, parent, children, faults>>

\* The channels call, with the channel's number of public videos.
Resolve ==
    /\ At("resolve")
    /\ walk' = [walk EXCEPT !.pc = "count", !.expected = Cardinality(Listed)]
    /\ resolved' = IF walk.all THEN uploaded ELSE 0
    /\ UNCHANGED <<upstream, data, found, parents, parent, children, faults>>

\* Mutation: the historical gap is not looked for.
CountNothing ==
    /\ At("count")
    /\ walk' = [walk EXCEPT !.pc = "page", !.expected = 0, !.deficit = FALSE]
    /\ UNCHANGED <<upstream, data, history, parents, parent, children, faults>>

\* count_videos_by_channel counts every stored row, of deleted videos too.
Count ==
    /\ At("count")
    /\ walk' = [walk EXCEPT !.pc = "page", !.expected = 0,
                    !.deficit = walk.all /\ walk.expected > Cardinality(stored)]
    /\ UNCHANGED <<upstream, data, history, parents, parent, children, faults>>

\* What follows the page token.
Older == {v \in Listed : \A u \in walk.ids : v < u}

Newest(S, n) == {v \in S : Cardinality({u \in S : u > v}) < n}

\* min(50, limit - len(ids)) videos of a page.
Room == IF walk.all \/ Limit - Cardinality(walk.ids) > PageSize
        THEN PageSize ELSE Limit - Cardinality(walk.ids)

\* A whole page of stored videos ends an incremental refresh without a deficit.
KnownPage(page) ==
    walk.all /\ walk.incremental /\ ~walk.deficit /\ page # {} /\ page \subseteq stored

\* The loop is over with this page: there is no next one, or it need not be read.
LastPage(page, ids) ==
    Older = page \/ KnownPage(page) \/ (~walk.all /\ Cardinality(ids) >= Limit)

\* Mutation: the checkpoint of the last page already carries the mark.
ReadPageMarking ==
    LET page == Newest(Older, Room)
        ids == walk.ids \union page IN
    /\ At("page")
    /\ IF LastPage(page, ids)
       THEN /\ walk' = [Away EXCEPT !.pc = "enqueue", !.ids = ids]
            /\ found' = ids
            /\ parent' = [parent EXCEPT !.marked = TRUE]
       ELSE /\ walk' = [walk EXCEPT !.ids = ids]
            /\ UNCHANGED <<found, parent>>
    /\ UNCHANGED <<upstream, data, resolved, parents, children, faults>>

\* One round of the loop: the playlistItems call, the look at what is stored of the
\* page, and the checkpoint, whose page token no later attempt resumes from.
ReadPage ==
    LET page == Newest(Older, Room)
        ids == walk.ids \union page IN
    /\ At("page")
    /\ IF LastPage(page, ids)
       THEN /\ walk' = [Away EXCEPT !.pc = "enqueue", !.ids = ids]
            /\ found' = ids
       ELSE /\ walk' = [walk EXCEPT !.ids = ids]
            /\ found' = found
    /\ UNCHANGED <<upstream, data, resolved, parents, parent, children, faults>>

\* enqueue_video_jobs: one transaction, and a child that exists stays what it is.
Enqueue ==
    /\ At("enqueue")
    /\ children' = [children EXCEPT ![parents] = [v \in Video |->
                       IF v \in walk.ids /\ @[v] = "none" THEN "queued" ELSE @[v]]]
    /\ Go("mark")
    /\ UNCHANGED <<upstream, data, history, parents, parent, faults>>

\* The checkpoint with fanoutDiscovered, in a transaction of its own.
Mark ==
    /\ At("mark")
    /\ parent' = [parent EXCEPT !.marked = TRUE]
    /\ Go("retry")
    /\ UNCHANGED <<upstream, data, history, parents, children, faults>>

------------------------------------------------------------------------------
\* The end of a fan-out.

\* Mutation: a child that pauses is not waited for.
OpenUnpaused(n, v) == children[n][v] \in {"queued", "running", "fetched"}

Open(n, v) == children[n][v] \notin ChildEnded \union {"none"}

\* child_job_summary, and what _finalize_fanout_job makes of it.
Summarise ==
    /\ At("summary")
    /\ Go(CASE \E v \in Video : Open(parents, v) -> "retry"
            [] \E v \in Video : Ours[v] = "failed" -> "fail"
            [] OTHER -> "complete")
    /\ UNCHANGED <<upstream, data, history, parents, parent, children, faults>>

\* The runner turns RetryableCollectionError and QuotaExhaustedError into a pause.
Pause ==
    /\ walk.pc \in {"retry", "quota"}
    /\ parent' = [parent EXCEPT !.due = FALSE,
                     !.state = IF At("retry") THEN "waiting_retry" ELSE "waiting_quota"]
    /\ walk' = Away
    /\ UNCHANGED <<upstream, data, history, parents, children, faults>>

\* The terminal transition advances the data version, whatever the end is;
\* only a completed parent writes the coverage.
End ==
    /\ walk.pc \in {"fail", "complete"}
    /\ parent' = [parent EXCEPT !.state = IF At("fail") THEN "failed" ELSE "completed"]
    /\ full' = IF At("complete") THEN all ELSE full
    /\ unpublished' = {}
    /\ walk' = Away
    /\ UNCHANGED <<upstream, all, stored, history, parents, children, faults>>

------------------------------------------------------------------------------
\* What goes wrong at a parent.

\* An upstream call fails and _raise_classified decides what it means.
CallFails(outcome) ==
    /\ walk.pc \in {"resolve", "page"}
    /\ Fault
    /\ Go(outcome)
    /\ UNCHANGED <<upstream, data, history, parents, parent, children>>

\* Any other step raises, the database is away for a moment: the runner fails the job.
Raises ==
    /\ walk.pc \in {"begin", "count", "enqueue", "mark", "summary"}
    /\ Fault
    /\ Go("fail")
    /\ UNCHANGED <<upstream, data, history, parents, parent, children>>

Crash ==
    /\ ~At("away")
    /\ Fault
    /\ walk' = Away
    /\ UNCHANGED <<upstream, data, history, parents, parent, children>>

------------------------------------------------------------------------------
\* The children.

Become(n, v, state) == children' = [children EXCEPT ![n][v] = state]

\* Claimed only when no older job is: its own parent is older.
ChildStarts(n, v) ==
    /\ WorkerFree
    /\ children[n][v] \in {"queued", "waiting"}
    /\ n = parents => ~ParentClaimable
    /\ Become(n, v, "running")
    /\ UNCHANGED <<upstream, data, history, parents, parent, walk, faults>>

\* _video_records writes the video, unless upstream no longer has it.
ChildFetches(n, v) ==
    /\ children[n][v] = "running"
    /\ Become(n, v, "fetched")
    /\ stored' = stored \union ({v} \ deleted)
    /\ unpublished' = unpublished \union ({v} \ deleted)
    /\ UNCHANGED <<upstream, all, full, history, parents, parent, walk, faults>>

ChildCompletes(n, v) ==
    /\ children[n][v] = "fetched"
    /\ Become(n, v, "completed")
    /\ UNCHANGED <<upstream, data, history, parents, parent, walk, faults>>

\* A failure, a pause for quota or for a retry, or the end of its worker.
ChildStops(n, v, state) ==
    /\ children[n][v] \in {"running", "fetched"}
    /\ Fault
    /\ Become(n, v, state)
    /\ UNCHANGED <<upstream, data, history, parents, parent, walk>>

ChildMoves(n, v) == ChildFetches(n, v) \/ ChildCompletes(n, v)

Collect ==
    \/ Begin \/ Resolve \/ Count \/ ReadPage \/ Enqueue \/ Mark \/ Summarise \/ Pause \/ End

Next ==
    \/ Upload \/ AskForAll \/ NewParent \/ Claim \/ Due \/ Poll \/ Collect \/ Raises \/ Crash
    \/ \E v \in Video : Delete(v)
    \/ \E outcome \in {"quota", "retry", "fail"} : CallFails(outcome)
    \/ \E n \in 1..parents, v \in Video :
          \/ ChildStarts(n, v) \/ ChildMoves(n, v)
          \/ \E state \in {"waiting", "failed"} : ChildStops(n, v, state)

Spec == Init /\ [][Next]_vars

\* The workers and the clock keep going.  A claim is strongly fair, a child's because
\* its parent pauses for five seconds and a worker polls more often than that.
Fairness ==
    /\ SF_vars(Claim) /\ WF_vars(Due) /\ WF_vars(Collect)
    /\ SF_vars(\E n \in 1..parents, v \in Video : ChildStarts(n, v))
    /\ WF_vars(\E n \in 1..parents, v \in Video : ChildMoves(n, v))

FairSpec == Spec /\ Fairness

------------------------------------------------------------------------------
\* A completed parent has no child at work and none that failed, however often it
\* crashed, discovered again and looked at them (_finalize_fanout_job).
CompletedAfterChildren ==
    parent.state = "completed" =>
        \A v \in Video : Ours[v] \in {"none", "completed"}

\* Every video a completed parent's discovery found has been stored, or the channel
\* has deleted it: no crash between the transactions of the fan-out loses one.
FoundIsCollected == parent.state = "completed" => found \subseteq stored \union deleted

\* "A count deficit disables this shortcut until historical coverage catches up": while
\* the channel deletes nothing, a completed collection of all videos has no gap in what
\* was uploaded when it looked, whatever failed in the collections before it.
DeficitFindsGaps ==
    parent.state = "completed" /\ deleted = {} => 1..resolved \subseteq stored

\* discovery.py 108: "an all-known page proves older pages cannot introduce an upload";
\* claimed only once no child is at work any more.
NoGap ==
    parent.state = "completed" /\ (\A n \in 1..parents : \A v \in Video : ~Open(n, v)) =>
         1..resolved \subseteq stored \union deleted

\* postgres_jobs.py 804: a parent "advances the public data version once, after all
\* committed child work is visible": nothing is written that no active job publishes.
WritesGetPublished == unpublished # {} => parent.state \notin Terminal

\* The parent and its children do not wait for each other for ever.
EveryParentEnds ==
    \A n \in 1..MaxParents : parents = n ~> (parents > n \/ parent.state \in Terminal)

==============================================================================
