# Formal model of Monitube

TLA+ modules, TLC runs and TLAPS proofs about Monitube's collection service: the API that accepts
collection requests, the workers that collect from YouTube under leases, the PostgreSQL
database they meet in, and the readers of what was collected, down to the lists of the browser. Paths are relative to the repository: `API` stands for
`apps/api/monitube_api`, `W` for `apps/worker/monitube_worker`, `PG` for `API/infrastructure`.

- [The system](#the-system): the inventory.
- [The modules](#the-modules): which module models what, and how.
- [The runs](#the-runs): what TLC checks, bounds and fairness.
- [The proofs](#the-proofs): what TLAPS proves, and how.
- [Findings](#findings): where the code disagrees with what the repository says of it.
- [What is not modelled](#what-is-not-modelled), and the [plan](#plan).

## The system

Monitube is a set of stateless API processes, a few polling collection workers, an analysis worker
and a backfill command. They share one PostgreSQL database (the durable state), a Redis cache and
the YouTube Data API. There are no queues and no messages between processes: a job is a row of
`sync_jobs` that a worker claims, and every interaction is a transaction on shared rows. What is
hard is therefore the interleaving of short transactions by processes that hold stale reads, and
what is left behind when one of them stops between two transactions.

### Components

| Component | Its state | Its operations | Where |
| --- | --- | --- | --- |
| Job lifecycle | `sync_jobs`: state, lease owner and expiry, resume time, checkpoint, partial errors | claim, renew, checkpoint, progress, pause, complete, fail | `W/runner.py`, `W/worker.py`, `W/collector.py`, `PG/postgres_jobs.py` |
| Comment collection of a video | stored threads and replies, page cursor in the checkpoint | fetch page, fetch replies, commit page with or without checkpoint, resume | `W/collection/comments.py`, `PG/postgres_writes.py` |
| Target requests | `collection_targets` (config, coverage, data version), `collection_requests`, one active job per target | submit, replay, widen a queued job, attach a successor at a terminal transition, direct job | `PG/postgres_jobs.py`, `API/collection_policy.py` |
| Pins | `collection_target_pins`: enabled, interval, next run | set, enable with a subscription, dispatch what is due | `PG/postgres_explore.py`, `PG/postgres_repository.py` |
| Fan-out | child jobs of a discovery job, `fanoutDiscovered` in its checkpoint | enqueue children, wait for them, finalise or fail | `W/collector.py`, `PG/postgres_jobs.py` |
| Discovery | playlist and search cursors, known videos | traverse uploads or search pages, stop at known pages, fetch details | `W/collection/discovery.py` |
| Target promotion, subscriptions | aliases, provisional and canonical targets, subscriptions | resolve a handle, merge two targets, subscribe, hide, delete | `PG/postgres_jobs.py`, `PG/postgres_repository.py` |
| Analysis runs | `analysis_runs`: state, lease, attempts; target summaries | enqueue for a data version, claim, publish, retry, fail | `W/analysis_worker.py`, `PG/postgres_results.py` |
| Comment rollups | counters per video, backfill progress | deltas with each page, recount in batches, reconcile | `PG/postgres_writes.py`, `W/rollup_backfill.py` |
| Key pool | API keys, position in the pool | rotate on a quota error, replace the pool between jobs | `W/youtube_data.py`, `PG/postgres_repository.py` |
| Response cache | Redis values and locks | get, load once, invalidate by data version | `API/cache.py` |
| Pagination and search | opaque cursors over sort keys | next page, filter hash | `PG/postgres_comments.py`, `PG/postgres_explore.py` |
| Polling in the browser | known active jobs, a poll in flight, timer | poll, wake up, treat a finished job once | `apps/web/.../use-active-job-polling.ts` |
| In-memory repository | the same records under one lock | mirrors the PostgreSQL operations | `PG/memory_*.py` |
| Routers, contracts, presenters, authentication, web views | none of their own | conversion, rendering | `API/api`, `API/contracts.py`, `apps/web` |

### How they interact

1. A **submission** locks the row of its target, merges its configuration into the target's and
   into that of the worker source, and is answered from the stored coverage, attached to a job or left
   waiting without one. The same transaction creates a subscription and makes the pin due.
2. A **worker** loops: dispatch due pins, claim a job, run it. Running reads the row again, renews
   the lease before each upstream call, commits pages together with their cursor, saves progress
   through read-then-write pairs of transactions, and settles the job with one last transition.
3. A channel or keyword job **fans out** into one child job per video and waits in `waiting_retry`
   until its children are terminal.
4. The **terminal transition** settles the requests of the job, writes the coverage, makes one
   successor for the requests that waited, advances the data version and enqueues an analysis run.
5. An **analysis worker** claims the run of a data version under a lease, builds the summary in one
   transaction, and settles or retries it. The **backfill** recounts the comments of all videos while
   collectors advance the same counts.
6. **Readers** use the data version in cache keys and page through lists that change under them; the
   **browser** polls the active jobs, takes those that disappear for ended, and then reads again.

### Behaviours that are hard, and what makes each part correct

| Component | Hard | Correct when |
| --- | --- | --- |
| Job lifecycle | a lease expires under a slow worker; a state read in one transaction is written in the next; a worker dies anywhere | effects of completion happen once; one collector per job; no job is out of reach of every worker; every job ends |
| Comment collection | a page is two commits when replies need own calls; cursor and data must agree after a crash | a stored cursor never points past data that is not there; "completed" means collected |
| Target requests | submissions, direct jobs, pins and completions meet on one target; configuration widens under a running job | one active job; no request forgotten; answers agree with jobs, are final, and honest |
| Pins | the dispatcher does not lock the target | never a second active job; a failed dispatch is repeated |
| Fan-out | enqueue and its mark are two transactions; children are claimed while the parent is still discovering | the parent ends when its children have, and fails only for its own |
| Promotion | requests, jobs and pins move between targets while workers hold the old identity | nobody's request or subscription is lost; still one active job |
| Analysis | the lease of a run expires; the data version moves on | a run is built by its holder only and ends once; every version is analysed, given up or replaced |
| Rollups | absolute counts and deltas meet; the backfill restarts | counts that are right stay right; "ready" is true; the backfill gets there |
| Cache | locks without owners, entries written late, analyses that end without a new key | no answer older than its request; ends are seen |
| Polling | answers older than a wake-up, overlapping refreshes, teardown | one poll, always one to come; no step back; each end is shown |
| Pagination | rows added and collected again between pages, answers for another listing | nothing twice, nothing skipped that kept its place, one listing at a time |

`PROJECT.json` lists the individual hazards with their source lines and the properties that cover
them.

## The modules

```
JobStates ----> JobLease ----> MCJobLease                CollectionPolicy --+
    |              |  |                                                     v
    |   JobPromise-+  +--> JobLease_proofs              JobStates --> TargetRequests --> MCTargetRequests
    |  (INSTANCE)                                                           +----------> TargetRequests_proofs
    |
    +---------> ChannelFanout --> MCChannelFanout              Promotion --> MCPromotion
                     +----------> ChannelFanout_proofs             +-------> Promotion_proofs

AnalysisPromise <--INSTANCE-- Analysis --> MCAnalysis          Rollup --> MCRollup
      |                          +-------> Analysis_proofs       +------> Rollup_proofs
      +--> Overview --> MCOverview
              |  +----> Overview_proofs
              | INSTANCE                                       Pages ------> MCPages
              v                                                  +----------+
          FreshReads <--INSTANCE-- Workbench --> MCWorkbench                v
                                      +------------------------------> Browser_proofs
```

Three abstract specifications tie the parts together. JobLease implements JobPromise, on which
ChannelFanout builds. Analysis implements AnalysisPromise, and Overview reads the analyses of
AnalysisPromise instead of running analysis workers. Overview implements FreshReads, and Workbench is
answered by FreshReads instead of an API with a cache.

**JobStates**: the states of a job and `_ALLOWED_TRANSITIONS` (`API/repositories.py:308`) with
the check of `transition_job`: rewriting the same state is always allowed.

**JobLease**: the life of jobs in the hands of workers. The state is the rows (`row`), the pieces of
comment pages committed (`stored`), the videos the upstream denied (`gone`), the times a
job's terminal effects happened (`bumps`), and the workers' program counters and memories (`wk`).
Each database transaction is one action and those of different workers interleave:
`Claim` is `claim_next_job`; `Begin` the read at the start of `JobRunner.run`; `GetDetails`,
`GetThreads`, `GetReplies` the upstream calls with the renewal before them (`_call`);
`StoreThreads`, `CommitPage` and `CommitRefused` are `persist_comment_page` without and with a
checkpoint; `SaveRead` and `SaveWrite` the two transactions of `checkpoint_job`,
`update_job_progress` and `_add_partial_error`; `Finish` and `Settle` the end of `JobRunner.run`.
`Crash`, `Restart`, `LeaseExpires`, `ResumeDue` and `CallFails` are the environment. Time is
abstract: a lease is live or expired, a pause running or due. `TimelyLeases` says whether a lease
can expire under a worker that is still at it; both values are studied, because the code
renews a lease once per call while a call may try every key of a large pool (`W/collector.py:95-126`).

What it abstracts: a video has `Pages` pages of threads, and the pages in `Threaded` hold a thread
whose replies need their own calls (any number of calls are one). A stage boundary that saves the
checkpoint and one to four progress updates in a row is `SaveRead`/`SaveWrite` repeated by
`SaveAgain`. The traversal is the unbounded one (`collectAllComments`).

**JobPromise**: what the service promises of a job, with no workers in sight: data only grows, a
job closes once, closing publishes once, and `completed` is said only of a job whose data is all
there or whose video does not exist. `JobLease` implements it under a refinement mapping
(`Promise`), whatever the leases do.

**CollectionPolicy**: `collection_policy.py` as operators: what a configuration asks for
(`Desired`), how configurations merge (`Merge`), when a coverage satisfies a wish (`Satisfies`),
what a job claims to have covered (`JobCoverage`). A missing number is 0, so `x or y` is `OrElse`.

**TargetRequests**: the requests of one target. The state is the configuration, the coverage, the
job rows of the target with the columns they were created with, the requests, the pin, and
whether a dispatch is under way. `Submit` is the whole of `submit_collection_request` for a known
user; `Resubmit` the replay of its idempotency key; `CreateJob` is `create_job`; `Claim`, `Read`,
`FanOut`, `Pause` what a worker does to the row; `End` the terminal branch of `transition_job`,
with the coverage, the settled requests and the successor. These hold the lock of the target from
their first read to their commit, so each is one step. `dispatch_due_pins` does not lock the target: it
is `DispatchLook`, then `DispatchInsert`, which the unique index
`sync_jobs_one_active_target_idx` allows only when there is still no active job, or `DispatchFails`.
`reach` is a history variable in the job row: what the collector was bound to collect from the
configuration it read (`Reach`, after `collect` and `_collect_video_job`), to compare with what
requests asked for. `Read` with `newest` is an incremental refresh that stops at known uploads.

What it abstracts: how a job survives crashes and expired leases is JobLease; the children of a
channel job are part of its run (`FanOut` to `End`); identifiers, aliases and subscriptions are
left out, and so are submissions without a user, which leave the pin alone. Keyword targets are
excluded (`RequestConstants`): how far their search goes is part of the discovery module to come.

**ChannelFanout**: the collection of one channel by a parent job and its children, while the channel
goes on uploading and deleting. The state is the channel (`uploaded`, `deleted`), the rows of videos
(`stored`), the configuration and coverage as far as discovery reads them (`all`, `full`), the row of
the latest parent, the rows of the children of every parent (`children`), the worker at the parent
with what it has read (`walk`), the videos written since the last data version (`unpublished`), and two
history variables. `Claim` is `claim_next_job`, oldest first; `Begin` the branches of `collect`;
`Resolve` is `_resolve_channel`; `Count` and `ReadPage` are `_channel_video_ids`, one page per round
with the stop at known pages; `Enqueue` is `enqueue_video_jobs` and `Mark` the checkpoint with
`fanoutDiscovered`, two transactions; `Summarise` is `child_job_summary` with
`_finalize_fanout_job`; `Pause` and `End` are what `JobRunner.run` makes of the outcome. `CallFails`,
`Raises` and `Crash` interrupt it anywhere, `Due` ends a pause or the lease of a dead worker. The
children are claimed, fetch their video, pause, fail and end while the parent does all this.

What it abstracts: leases are timely, so that one worker at most is at the parent
(`SoleCollector`, proved of JobLease). A child is the open job of JobPromise, and comments are left out. A video is
its number, so that a page token, which continues behind the last video of a page, is the videos
read so far (`Older`). `limit` is the column `max_videos` of the job (`Limit`), which applies
without `collectAllVideos`. The answers to requests and the target's successor are in TargetRequests:
here a parent may follow any ended one (`NewParent`). Keyword parents, jobs without a target
(which collect inline) and the pages bound are left out; `promote_channel_target` in
`_resolve_channel` is in Promotion.

**Promotion**: the targets of one channel, which is asked for by its id, its handle or another name. The
state is the targets (`key`, `covered`), the names that lead to them (`alias`, and `known` once the channel
is stored with its handle), worker sources, videos of targets (`members`), subscriptions, requests and
jobs. Rows are called by the number of the request that made them. `Submit` is
`submit_collection_request` with its identity: `TargetOf` looks a name up as `_canonical_target` and the
submission do, `Replayed` is the idempotency key. `LookUp` is `_resolve_channel` up to the point where
`promote_channel_target` has locked its targets; `Promote` is the rest of it, either `Merge` into a
canonical target, with one operator for each kind of reference (`MovedJobs`, `MovedRequests`, `MovedSubs`,
`MovedMembers`, `Renamed`), or `Rename` in place. Between the two steps a submission of the channel's id may
commit a canonical target that the first step did not see; `Rename` is then refused by the unique key and
the job fails (`refused`). `Link` adds a video to the target its source belongs to by then, `End`
is the terminal transition with the successor of the waiting requests.

What it abstracts: what a configuration asks for is one bit of a submission (`wider`), as TargetRequests
has the rest; leases and fan-out are in JobLease and ChannelFanout. A lock held from the first read to the
commit makes a handler one step (`Locked` is what a promotion holds between its two). Pausing and removing a
subscription are no actions: see the findings.

**AnalysisPromise** and **Analysis**: the analysis runs of one target. AnalysisPromise says that data versions
only grow, a version has at most one run, made when the version came or later, and a run ends once.
Analysis has the rows (`runs`, by data version) and the workers (`aw`). `Ends` is the end of
`transition_job`, of a job of the target or of another one that shares a video (`own`); `Seed` is
`enqueue_missing_analysis_runs`; `ClaimRun` is `claim_next_analysis_run`, the oldest claimable row past
those that are locked (`SKIP LOCKED`); `Build` is the locking read of `complete_analysis_run`, which asks for
the owner and not for the lease, `Publish` its commit, `Abort` a rollback; `Fail` is `fail_analysis_run`,
with the retry after a pause (`RetryDue`). `LeaseTooShort` is a lease that runs out under its worker,
which is a fault, `LeaseRunsOut` one nobody is at.

**FreshReads** and **Overview**: an answer shows a version no older than the one that was current when it was
asked for. Overview is `get_source_overview` behind `DerivedCache.get_or_load`, one call of Redis or
one statement per step: `Ask` reads the version the key is made of, `Get` looks and takes the lock, `Wait`
is the bounded wait, `LoadVersion` and `LoadRest` are the loader, whose statements see separate snapshots,
`Store` writes the entry and deletes the lock by its name. `RedisFails` is each call that raises (the
request goes on), `Dies` a server that stops or a loader that raises. `Words` is `topWordsStatus`: the
part of an answer that changes without a new version, when an analysis ends.

**Workbench**: one browser. The state is what `useActiveJobPolling` and the workbench keep in refs
(`known`, `handled`, `timer`, `again`, the poll in flight), the two refreshes, and the service reduced to
the job of the target, its data version and `list_active_parent_jobs`. Each asynchronous call is three
steps: asked, answered by the server at some moment, and heard by the browser later. `PollAnswered` takes jobs
that are no longer listed for ended and sets off the refreshes, `Reschedule` is the `finally` block,
`Wake` the wake-up by a launch or by the list of sources, `PageChanges` the teardown and
set-up of the effect. `RefreshResults` aborts the request before, whose answer then arrives as `LateAnswer`. `missed` is
history: jobs about which the browser was misled, because an answer older than their launch was taken for
the present, or because a request about them failed.

**Rollup**: the counts beside each video. The state is the comments and counts of the videos, the transactions of
the collectors, the row of `maintenance_backfills` (`db`) and the command (`bf`). `PageBegins` and
`PageCommits` are `persist_comment_page`: the lock of the video and the read of what is stored, then
comments and counts, advanced or counted again (`RollupAfter`). A collector without dual write
(`dual`) stores comments only. The backfill is `RollupBackfill.run`: `Open` the way into its loop from each stored
state, `Fetch` the next batch or phase, `CountVideo` the lock and the count of one video, `ApplyBatch` the
commit of counts and cursor, `CountMismatches` and `MarkReady` the end of a pass. `LockTimesOut`,
`Stops` and `Raises` interrupt it, `Start` is the operator running it again. History: `old` holds videos that a
collector without dual write has stored past their counts since they were counted or marked ready, `pass` those a pass began with.

**Pages**: four lists that are read page by page: comment threads in three orders, the videos of a source,
Explore by offsets, the library by cursors for a client of the API. `SortKey` and `Follows` are the
order of each, `Cursor` and `Decoded` the cursors; `ThreadRows`, `SourceRows`, `LibraryRows` and `ExploreRows` are what the four
queries select, `Sorted` puts it in order, and `KeysetPage` and `OffsetPage` cut the page from it. `Fetch` and `Store` are the collector: a row is
stored some time after it was fetched. `Serve` answers a request, `Answer` and `Fail` are what the
browser makes of it: which answers it hears (`Heard`: numbered requests, aborted ones, or all), whether
it appends or replaces, and when its spinner stops (`Loaded`). `Turn`, `Refresh`, `More`, `Retry` are the
effects and handlers that ask; `Misuse` is a client that goes on with the cursor of another
listing, which the API refuses. `session`, `stable`, `since` and `mixed` are history: which list a page belongs to, and
which rows have kept their place since it began.

## The runs

| Run | Instance | Checks | Result |
| --- | --- | --- | --- |
| `lease_stale` | 2 workers, 1 job, 2 pages, the first with replies of its own, leases that expire at any moment, 2 faults | `CursorCommitted`, `CompletedMeansCollected`, `PublishedOnce`, `PromiseKept` | holds |
| `lease_timely` | 2 workers, 2 jobs, 1 page with replies, timely leases, 2 faults, fairness | `SoleCollector`, `NotStranded`, `DownOnlyByCrash`, `EveryJobEnds` | holds |
| `requests` | a channel, 2 submissions of a narrow or a wider wish, forced or not, 2 direct jobs or dispatches, fairness | `OneActiveJob`, `PendingHasActive`, `RequestFollowsJob`, `ServedAsAsked`, `AnswersFinal`, `EveryRequestEnds` | holds |
| `requests_refresh` | a channel, 3 submissions for every video, with or without comments | `ServedAsAsked` | violated |
| `fanout` | 2 workers, 2 parents, 2 videos on pages of 1, 1 deletion, 2 faults, fairness | `CompletedAfterChildren`, `FoundIsCollected`, `DeficitFindsGaps`, `EveryParentEnds` | holds |
| `analysis` | 2 workers, 2 new versions, 2 tries, 3 faults, fairness | `AnalysisTypeOK`, `NoRunAhead`, `BuiltByHolder`, `AnalysisPromised`, `EveryVersionEnds`, `EveryRunEnds` | holds |
| `overview` | 2 readers, 1 new version, 1 fault, fairness | `ReadsAreFresh`, `EndOfAnalysisIsShown` | holds |
| `workbench` | 2 launches, 3 new versions, 2 failures or page changes, fairness | `PollingGoesOn`, `PageGrows`, `EndIsShown` | holds |
| `rollup` | 2 videos in batches of 1, 1 comment, 1 collector, 2 passes, 2 faults, fairness | `ReadyIsTrue`, `PassCovers`, `CountsStayTrue`, `BackfillEnds` | holds |
| `pages` | 4 views, 3 rows in pages of 1, 1 row stored, 1 turn or refresh, 1 failure, fairness | `ShownAsListed`, `OneListing`, `EveryListSettles` | holds |
| `promotion` | 2 users, 3 names, 3 submissions, 2 jobs and their successors, 1 pause or failure, fairness | `RequestsKeepTheirOwner`, `WaitingHaveAJob`, `NothingIsLost`, `EveryRequestEnds` | holds |
| `promotion_names` | the same with 2 submissions and no failure | `NamesKeepLeading` | violated |

The type invariant of each module (`TypeOK`, in Pages `PagesTypeOK`; Analysis checks its own in the run) holds in every passing instance
and can be added to its configuration; all are proved.

Further counterexamples are kept as configurations beside the runs: `tlc -config X.cfg M`.

| Configuration | Module | Refutes |
| --- | --- | --- |
| `JobLeaseStranded.cfg` | `MCJobLease` | `NotStranded`, without timely leases |
| `JobLeaseCursor.cfg` | `MCJobLease` | `PauseKeepsCursor` |
| `TargetRequestsCached.cfg` | `MCTargetRequests` | `CachedServed` |
| `TargetRequestsJoined.cfg` | `MCTargetRequests` | `RunningJobJoined` |
| `ChannelFanoutGap.cfg` | `MCChannelFanout` | `NoGap` |
| `ChannelFanoutWrites.cfg` | `MCChannelFanout` | `WritesGetPublished` |
| `WorkbenchMissed.cfg` | `MCWorkbench` | `NoEndMissed` |
| `PagesMissed.cfg` | `MCPages` | `NothingMissed` |

**What they show.** `lease_stale` is about the worst case: a worker goes on with a job that another
one has taken, and their commits, checkpoints and settlements interleave. Still no stored
cursor points past missing data, no job is `completed` without its data, and data versions and
requests are advanced once. What does *not* survive a late worker is exclusivity
and reachability: that is `JobLeaseStranded.cfg`. `lease_timely` shows both, and termination,
when leases outlive the calls they cover. `requests` shows that whatever meets on a target, requests
are neither forgotten nor answered twice, and that a completed request was given what it asked for although the
target's configuration and the job's columns changed under it. `fanout` shows that
neither the two transactions of a fan-out, nor a repeated discovery, nor uploads and deletions during one make a
completed parent that left a video it found behind, or one with a child at work; that the count of
rows finds every gap as long as nothing is deleted; and that parents and children do not
wait for each other for ever.

`analysis` shows that late and dying analysis workers harm nobody: a run is built under the lock of its row by the worker its row
names, a late report is dropped, tries are counted for reported failures only, and no run is ever there before the
version whose run the terminal transition inserts without `ON CONFLICT`. `overview` shows that the lock
without a token and an entry written late cost a load and never an answer: the version in the key is read
before the loader begins, so that an entry is never older than its key; and that the end of an analysis,
which changes no key, is seen because entries expire. `workbench` shows that wake-ups during a poll,
failures and teardowns neither stop polling nor start a second one, and that an end is shown unless one of the two events in
`missed` came between. `rollup` shows that deltas and absolute counts are serialised by the row lock of the video, that a
batch that fails in any way leaves the cursor behind it, and that the command, run again from any of its
states, ends with counts that are true. `pages` shows that a cursor that carries the whole sort key neither repeats nor
skips a row that keeps its place, whatever is stored between two pages, and that numbering or aborting
requests keeps the listings apart. `promotion` shows that after any order of submissions, promotions and ends each request
refers to its user's own subscription to the target it ended up on, and that a job that lost its target to a merge
leaves no request behind.

**Bounds, and why they suffice.** Two workers are enough for every stale interleaving of one
job, since a third is again a worker that is not the owner. Two pages give a cursor that is
neither the first nor the last, `Threaded = {1}` a page with two commits followed by one with
one. `MaxFaults = 2` allows a crash of the worker that recovers from the first crash. In `requests`
the second submission waits for the job of the first, is answered from what it left, or
needs a job of its own; the two wishes are ordered, so that both a narrower
and a wider submission follow. `MaxExtra = 2` lets a direct job and a pin dispatch meet beside them, or a dispatch
fail and come again. `requests_refresh` runs with three submissions, its
counterexample needs two: one that completes the target and one that asks for comments as well. In `fanout` two parents make a refresh after a complete collection, or
a second attempt after a failed one; two videos on pages of one make a traversal with a page
before and one after the stop; two faults let a parent be interrupted between `Enqueue` and `Mark` and a child fail
as well. `ChannelFanoutGap.cfg` needs a collection, a failed child and a refresh that stops too early. The proofs below do not depend on any of these bounds.

In `analysis` two new versions leave an old run behind that nobody needs any more while the next one comes; three faults let
a lease expire under a worker that then fails while the one that took over crashes. In `overview` two readers are the fewest
with a producer whose lock has expired and a second one that took it; one new version separates old and new keys, and
entries and locks expire without bound. In `workbench` two launches let the second meet the refresh of the first, and the third
version is that of a job of another target. In `rollup` a batch of one of two videos makes a cursor that is between them; one comment has the three
cases (new, the same, another kind) the code tells apart, and a video may be discovered late. Two passes reach the limit of
passes. In `pages` three rows in pages of one make a boundary on both sides of the row that moves; equal times, a
row without a time of its own and a row stored late are among the initial states. In `promotion` three submissions let two
provisional targets and the canonical one exist at once, and let a request wait on a target that is being merged.

**Symmetry** is used on workers and on submissions where a run checks no liveness (`lease_stale` and some of the further configurations), and nowhere else.

**Fairness.** In JobLease: the worker loop goes on (`Claim`, `Collect`, `Restart` weakly fair for each
worker; the container is `restart: unless-stopped`), and time passes (`LeaseExpires`, `ResumeDue`).
`SaveWrite` is strongly fair because `SaveAgain` competes with it, while a stage boundary saves a fixed
number of times. Crashes and failing calls have no fairness, and are finite (`MaxFaults`): with
failures for ever, no job need end. In TargetRequests the same is stated at the level of jobs:
jobs get claimed, read their configuration, and end (`SF` of `EndSomehow`: a run that is paused
again and again is not paused for ever). That every job ends is what `EveryJobEnds` shows of
JobLease. Nothing is assumed of submissions, direct jobs or dispatches. In ChannelFanout the steps of a
worker at a parent or a child and the clock are weakly fair. Claims are strongly fair: a parent
that waits is older than its children and is claimed before them when it is due, but it pauses for five seconds
(`W/collector.py:199`) while a worker polls every three, so that a child gets its turn in
between. Uploads, deletions and faults are not fair and are finite.

In Analysis each worker goes on with its loop and time passes; `Seed` is strongly fair, since a
worker seeds every twentieth time around its loop whatever else is claimable (`W/analysis_worker.py:54-89`). In Overview requests
are served, readers come back, and entries expire (`setex`); that locks expire is not needed. In Workbench the browser hears its
answers and its timers fire; launches and jobs are not fair. In Rollup the operator runs the command again until it is
ready, transactions of collectors end, and a row that is unlocked again and again is locked at last (strong
fairness of `CountVideo`; PostgreSQL queues its waiters). `BackfillEnds` begins when all collectors have dual write, and faults are
finite. In Pages the API serves, the browser hears, and the user scrolls on; in Promotion workers poll and nothing holds a job up
for ever.

**Mutants.** Each property of a run that holds has a variant of a definition of the model, with the
error a plausible bug in that line of code would make (the comment `Mutation:` names it), under
which TLC finds the property violated: a claim that does not look at the lease, a cursor committed with
the first piece of a page, a terminal transition that forgets the waiting requests, a dispatch
without the unique index, a summary built without asking who holds the run, a cache key without the version,
a cursor whose last part is missing, and so on.

## The proofs

All theorems hold for any number of workers, jobs, pages, submissions, wishes, readers, users, names,
videos, rows, versions and faults, and pages of any size. They assume only the named assumptions of the modules, which TLC evaluates in the runs:
`ConstantsOK` (JobLease), `PolicyConstants` (CollectionPolicy), `RequestConstants` (TargetRequests), `FanoutConstants`
(ChannelFanout), `AnalysisConstants` (Analysis), `OverviewConstants` (Overview), `WorkbenchConstants` (Workbench),
`RollupConstants` (Rollup; among others, that `None` is not a pair of counts), `PromotionConstants` (Promotion) and `PagesConstants` (Pages).

| Theorem | States |
| --- | --- |
| `JobLease_proofs!TypeCorrect` | `Spec => []TypeOK` |
| `CursorsCommitted`, `CompletionsCollected`, `PublicationsOnce` | the three safety invariants of `lease_stale` |
| `WorkersKeepPromise` | `Spec => Promise!Spec`: JobLease implements JobPromise |
| `ExclusiveCollection`, `NothingStranded`, `NoRefusedSettlement` | the safety properties of `lease_timely`, from `TimelyLeases = TRUE` |
| `TargetRequests_proofs!TypeCorrect`, `OneActive`, `NobodyForgotten`, `AnswersAgree`, `AnswersKept` | the safety properties of `requests` but one |
| `ChannelFanout_proofs!FanoutTypeCorrect`, `ParentAfterChildren`, `FoundCollected`, `DeficitFindsEveryGap` | the safety properties of `fanout` |
| `TargetRequests_proofs!BoundedWishesServed` | `ServedAsAsked`, when no wish asks for every video of a channel |
| `MergeAnswersBoth`, `MergeAsksNoMore` | what answers a merged configuration answers the two, and the other way round |
| `Analysis_proofs!AnalysisTypeCorrect`, `RunsNotAhead`, `HolderBuilds` | the three safety invariants of `analysis` |
| `AnalysisKeepsPromise` | `AnalysisSpec => Promise!PromiseSpec`: Analysis implements AnalysisPromise, for any number of leases lost |
| `Overview_proofs!OverviewTypeCorrect`, `ReadsStayFresh` | `[]TypeOK`; `Spec => Reads!Spec`: Overview implements FreshReads |
| `Browser_proofs!BrowserTypeCorrect`, `PollingNeverStops`, `PageNeverGoesBack` | `[]TypeOK` and the safety properties of `workbench` |
| `Browser_proofs!PagesTyped`, `ListedRows`, `OneListingShown` | `[]PagesTypeOK` and the safety properties of `pages` |
| `AlwaysAnswerable` | `PagesSpec => []Answerable`: what a request selects can always be put in order, whatever the times of the rows |
| `Rollup_proofs!RollupTypeCorrect`, `ReadyTrue`, `PassesCover`, `CountsStay` | `[]TypeOK` and the safety properties of `rollup` |
| `Promotion_proofs!PromotionTypeCorrect`, `OwnersKept`, `WaitersHaveJobs`, `NothingLost` | `[]TypeOK` and the safety properties of `promotion` |

**JobLease.** None of the invariants is inductive. Type correctness needs `InRange` (a worker that
is reading is below the last page). The data invariants need to know, for every worker's memory, what
the row may soon contain: `DataInv` says that the pages a worker has traversed, the
cursor in its memory and the cursor it is about to save are all committed already, and that a
worker at its wrap-up has either stored everything, or been told that the video does not exist, or left
a warning. As `stored` only grows and no action writes a cursor from anywhere
else, this survives workers overwriting each other. The refinement theorem follows from these: a
settlement maps to `Close`, whose guard is the data invariant, commits to `Gather`, everything else to
a stutter.

**Timely leases.** `HeldInv`: who works on a job is the owner its row names, under a live lease, the
row is `running`, and a state it read is still the row's. One owner per row makes the collectors
exclusive; a settlement then always leaves from `running`, so it is never refused; and a row nobody
works on carries what `claim_next_job` looks for.

**TargetRequests.** `Inv` is type correctness with three parts that need each other: at most one
active job (`Unique`, the form of `OneActiveJob` without counting), a waiting request has an active job, and
the status of a request is that of its job. At a terminal transition the first tells that no other
active job is left, so that the successor is alone; the third that the answered requests
are not among those it settles. `BoundedWishesServed` needs more: the configuration grants every
wish submitted so far and only widens (`MergeGrants`), a job made from it reaches what it grants
(`ColumnsReach`), and what a job would reach only grows with the configuration (`ReachGrows`); so
whenever the job reads its configuration, it is bound to reach the wishes of all who wait for it (`ServedInv`).
The premise is needed: `requests_refresh` is its counterexample.
`MergeAnswersBoth` is about the policy alone: a coverage that satisfies a merged configuration satisfies both that were
merged, if the numbers are given, as `API/contracts.py:79-108` sees to (of a channel without a number `merge_collection_config` takes 1
and `desired_coverage` takes 50). The converse, `MergeAsksNoMore`, needs a premise the contracts do not check: a request for
all comments that asks for no comments turns another request's comments into all of them.

**ChannelFanout.** `FanoutInv` ties the worker's step to the row and the row to the children: a mark
is set only after every video of the discovery has a child, a worker that is about to complete the
parent has seen only completed children, and, since nobody makes children of a marked parent
and a child that has ended stays as it is, they still are when it does; a child ends after its
video was written. `DeficitFindsEveryGap` needs `GapInv`, which is about a comparison of two numbers read at
different times: the count of public videos, and later the count of rows. When the rows are counted,
what is stored and what is queued was uploaded before the channel was asked (`CountOK`), since only
this very discovery could have found a newer video, and it has queued nothing yet. Hence the two counts are of
sets one of which contains the other, and equal counts mean equal sets (the cardinality argument of
`CountedAll`); without a deficit everything is stored before the first page, and with one the pages
leave nothing out (`PagesOK`). The premise `deleted = {}` is needed: `ChannelFanoutGap.cfg` is the counterexample.

**Analysis.** `AnalysisInv` adds one part to the invariants of the run, `RetriesLeft`: a run that is not over has
a retry left, which bounds `retry_count`. `NoRunAhead` and `BuiltByHolder` need each other: a transition may put its
new run where nobody builds only because no run is ahead, and a settlement writes only rows that
exist because who settles holds the row. Leases play no part in it: a claim passes over locked rows, and
builders and failures look at the owner. The refinement follows: a publication or a last failure is a `Settle` of a run
that is open, a transition and a seed open a run that is not there, and claims, retries and expiries stutter.

**Overview.** `OverviewInv` says that a reader's key is a version there was, that the answer in its memory is no older than
its key, and that an entry is no older than the version it is filed under. The last is the heart: it holds because the loader reads the version again after the key was
made of it, so that who stores late, or without the lock by then, stores an answer that is new enough for its key. The refinement
maps `Ask` to `Ask`, each way to the end of a request to `Answer` or `GiveUp`, a terminal transition to `Publish`, all else to a stutter.

**Workbench.** `PollingGoesOn` is inductive with the types, which need that the target's active job is the latest one (`LatestActive`): every
callback that ends a poll starts the next one or sets the timer, and a wake-up finds one of the two. `PageGrows` needs `PageBehind`: what is shown is no newer than anything the latest refresh can still bring, that is its answer
or, before it has one, the version it was asked at. A refresh that is aborted can only bring answers nobody hears.

**Rollup.** `RollupInv` has five parts. `LocksHeld`: while a row lock is held, what its holder has read or counted is what is stored, and no two
hold the lock of one video. `BatchCovers`: the batch is the next videos behind the cursor, none left out. `Undiscovered`: a
video nobody found has no comments and no counts. `PassedRight` is what the cursor promises; `ShownRight` is `ReadyIsTrue` for every state of the backfill,
which the mark then only has to make true of the videos in `old`, that it found right and clears. A
page then advances right counts by what its transaction changed (`New` and `Changes` of what it read under the lock), an
absolute count is right when it is committed, and `CountMismatches` finds nothing only if there is nothing. That a batch
leaves no video out needs the greatest of a finite set of numbers (`LastOfBatch`), from the well-foundedness of inclusion on its subsets.

**Pages.** `ShownAsListed` is about the list on the screen, and what keeps it true is what every answer under way will add to
it. `PagesInv` therefore says `Cuts` of three things: of the list, of the first page of any list, and, of the rows not
shown yet (`Unshown`), of each further page of the list that is shown. A sequence of rows with a cursor
cuts a set of rows when those of the set that are in it are in order, and the others come after these and after the cursor
(`Beyond`). A page cuts what it was selected from (`KeysetCuts`, `OffsetCuts`), and a list that cuts a
set, with a page appended that cuts the rest, cuts the set again (`CutsAppended`). Storing a row takes it out of the sets it
moved in, and moves no other row (`StoredCuts`). For a cursor that is all; an offset counts rows, and needs that the
number of rows before a row that stays never falls: a video collected again only moves up, since its response is newer than the
one stored (`Clocks`), and a new one only adds to it. `Numbers` tells requests and lists apart, so that a page that was asked for
by an earlier list is taken for one of this list by nobody but a `mixed` one. `OneListing` needs `ListingOK`: with cursors, a page that
is not the first was served for the listing its cursor names, and the request a guarded view
waits for has a cursor of what is shown. Sorting is defined without recursion, by the position of each row (`Arranged`). What is proved of it is
that a finite set has such an arrangement in an order that is strict and total (`SortedExists`; the position of a row is one more than the number
of rows before it, `InLine`), that a row in it has as many rows before it as the order says (`SortedIs`), and that the keys of a listing are such an order, because they end in the id (`BeforeIsOrder`).

**Promotion.** `Inv` has one part for each kind of row: keys of targets are unique, a target that exists has a source, every reference is to a target that
exists, promotions under way hold targets of their own. With them, `RequestsKeepTheirOwner` and `OneOrWaiting` (the form of `WaitingHaveAJob`
without counting) are inductive. In a merge each part leans on another: the requests that move refer to the
subscription `SubOf` finds because users have one to each target; keys do not collide because a request that would is moved without its key; a job
is detached only when the canonical target has an active one, which then answers for the requests that were moved, and
a request that waits always gets a successor at the terminal transition because the target it ended up on has a source.
`NothingLost` follows each subscription to the one it goes on as.

**Only model-checked.** Liveness (`EveryJobEnds`, `EveryRequestEnds` of TargetRequests and of Promotion, `EveryParentEnds`, `EveryVersionEnds`, `EveryRunEnds`,
`EndOfAnalysisIsShown`, `EndIsShown`, `BackfillEnds`, `EveryListSettles`): the proof system has no
backend for fairness and `ENABLED`. Every other property of a run that holds is proved.
The violated properties are findings of TLC.

## Findings

1. **A job no worker can claim** (`JobLeaseStranded.cfg`, `PG/postgres_jobs.py:943`). `checkpoint_job`
   writes back a state it read in an earlier transaction, without asking who owns the job. A late
   worker can turn a row that another one has paused back into `running`, without a lease;
   `claim_next_job` selects only queued rows, due pauses and expired leases. It takes a call that
   outlives its lease; with timely leases it is proved impossible (`NothingStranded`).
2. **A quota pause that loses its cursor** (`JobLeaseCursor.cfg`, `W/collection/discovery.py:219`). A resumed
   video job first checkpoints the stage `video_details`, which replaces the comment cursor; a quota
   error on the next call pauses it there, against `W/runner.py:38-40`. Data is not
   lost (`CursorCommitted`), pages are paid for again.
3. **Coverage that nobody collected** (`TargetRequestsCached.cfg`, `PG/postgres_jobs.py:775`). The coverage of a
   finished job is computed from the configuration of that moment, which a submission may have widened after
   the job read its own; the next submission is answered from it at once.
4. **A refresh that does not refresh** (run `requests_refresh`, `W/collector.py:174`). A channel collected
   whole and then asked for with comments is only refreshed incrementally: the older videos are not
   visited, the request completes and the coverage says that they were.
5. **Nobody is joined** (`TargetRequestsJoined.cfg`, `API/collection_policy.py:103`). The coverage of a running job is
   never complete, so `joined` is never answered and the same data is collected again, against
   `docs/USER_TARGET_SUBSCRIPTIONS_DESIGN.md:56`.
6. **A gap no refresh finds** (`ChannelFanoutGap.cfg`, `W/collection/discovery.py:111`). The deficit compares the number of
   public videos with the number of stored rows, and rows of deleted videos stay. A video whose child failed and
   one that was deleted cancel out, and the refresh stops at the first known page with an older
   video missing, against the comment at line 108.
7. **Writes that are not published** (`ChannelFanoutWrites.cfg`, `PG/postgres_jobs.py:807`). A parent that fails after its
   children were made advances the data version at once. What the children write afterwards is not
   published by any active job, since a child's end advances nothing, against the comment at line 804.

8. **Names that lead nowhere** (run `promotion_names`, `PG/postgres_jobs.py:562`). The merge copies the names of the target it retires with
   `ON CONFLICT DO NOTHING` while the originals are still there, so that each copy conflicts with its original; the `DELETE`
   of line 571 then takes them. Only the id and the handle are written again. A name of another kind makes a provisional
   target and a collection of its own the next time, against the comments at line 547 and at `W/collection/discovery.py:51`. The in-memory
   repository keeps the names.
9. **An end the page misses** (`WorkbenchMissed.cfg`, `use-active-job-polling.ts:142`). A poll that was answered by the server before a
   job was launched and is heard after the launch was, does not list the job: it is taken for ended and marked as handled, and when it
   is listed again and then really ends, nothing is refreshed. `docs/DATABASE_PERFORMANCE_OPTIMIZATION_PLAN.md:861` asks that the end of a job
   refreshes what is shown. `EndIsShown` states what remains true.
10. **A video the list leaves out** (`PagesMissed.cfg`, `collection-workbench.tsx:374`). A further page asked for while the first
   page is loaded again is cut off from neither: when the new first page is heard before the old further page, the latter is
   appended, with its cursor, to a list that began at another moment, and a video that came in between is in neither. Section 6.1 of the
   plan (line 372) asks that no video is left out. `ShownAsListed` holds of lists that are not `mixed`.

Noted while reading:

- `update_source` and `delete_source` use the row of a subscription, a dictionary, as an object
  (`PG/postgres_repository.py:797`, `:837`): with PostgreSQL, pausing, resuming and removing a subscription raise
  `AttributeError`, and the transaction is rolled back. They are therefore no actions of Promotion. The in-memory repository does it right.
- A job that a merge detached from its target advances the data version of its source only (`PG/postgres_jobs.py:804-806`): what it collected is
  shown when the next job of the canonical target ends.
- A promotion locks its own target and then the canonical one, a terminal transition locks targets in the order
  of their ids: the two can deadlock, and PostgreSQL aborts one.
- Explore is read again without its channel at the end of a job while the channel stays chosen
  (`collection-workbench.tsx:430`), so that the next offset is one of another listing; `OneListing` excludes lists by offset.
- An exception out of `dispatch_due_pins` (the unique index, a deadlock with a submission) or a refused settlement ends the worker process.
- A keyword search ignores `maxPagesPerRun`, which requests merge and coverages claim.

## What is not modelled

- Keyword targets: their search pages and the early stop at the expected total; jobs without a target, which collect inline.
- The bounded traversal of comments (`maxCommentPagesPerVideo`) and the incremental boundary of a refresh inside JobLease.
- The key pool: one client used by one thread of one worker. Rotation happens inside a call and the pool is replaced between jobs; what the rest
  sees of it, calls that fail, are faults of JobLease and ChannelFanout.
- Row locks of several targets and the deadlocks they allow: a handler that locks from its first read to its commit is one step, and an aborted one did nothing.
- The Explore caches (the same `get_or_load`, with a generation computed from the database as the version), search, replies (paged like the oldest threads), subscriber history.
- The log-out on a 401 and the polling of servers without the active-jobs endpoint.
- The HTTP routers, contracts, presenters and the rendering of the web views convert and show. They keep no
  state of their own. `JobService.change_job_state` has no route.
- Authentication checks a token and inserts one bootstrap user.
- The in-memory repository repeats the PostgreSQL operations under one lock, for tests; Pages translates its sorting and slicing, which SQL leaves implicit.
- Migrations and deployment run once; the unique indexes and the restart policy are used by the modules.
- The contents of YouTube's answers, and of comments, titles and statistics.

## Plan

Modelled and checked: the job lifecycle, requests of a target, the fan-out of channels, promotion, analysis runs, the
overview behind its cache, the polling browser, rollups, and pages. Proved: every safety property and every refinement of the runs that hold. Left, in order:

1. *Keyword parents* in ChannelFanout, against the pages bound that coverages claim.
2. A *composition* of Promotion and TargetRequests on the configuration that merged targets are left with.
