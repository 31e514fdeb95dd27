-------------------------------- MODULE Rollup --------------------------------
(***************************************************************************)
(* The comment counts kept beside each video: collectors store pages of     *)
(* comments and advance the counts by what a page adds, while the backfill, *)
(* a command that may be stopped and run again at any time, recounts every  *)
(* video in batches, reconciles, and marks the counts ready to be read.     *)
(* Collectors deployed before the counts were do not keep them.             *)
(***************************************************************************)
EXTENDS Integers, FiniteSets

CONSTANTS
    Videos,    \* in the order of their ids
    Comments,  \* the comments a video can have
    Writers,   \* collectors
    BatchSize, \* ROLLUP_BACKFILL_BATCH_SIZE
    MaxPasses, \* max_reconcile_passes
    MaxFaults, \* bound on stops, crashes, errors and lock timeouts of the backfill
    None

ASSUME RollupConstants ==
    /\ Videos \subseteq Nat \ {0}
    /\ IsFiniteSet(Videos) /\ IsFiniteSet(Comments)
    /\ BatchSize \in Nat \ {0}
    /\ MaxPasses \in Nat \ {0}
    /\ MaxFaults \in Nat
    /\ None \notin [top: Nat, reply: Nat]

VARIABLES
    present,  \* the videos discovered so far
    comments, \* the comments of each video
    rollup,   \* video_comment_rollups
    dual,     \* whether each collector keeps the counts
    writer,   \* the transaction of each collector
    db,       \* the row of maintenance_backfills
    bf,       \* the backfill command
    old,      \* history: videos stored past their counts since these were last counted or marked
    pass,     \* history: videos that were there when the pass began
    faults

tables == <<present, comments, rollup>>
vars == <<tables, dual, writer, db, bf, old, pass, faults>>

Kind == {"none", "top", "reply"}
Counts == [top: Nat, reply: Nat]
Page == UNION {[S -> {"top", "reply"}] : S \in SUBSET Comments \ {{}}}
State == {"schema_ready", "dual_write_enabled", "backfill_running", "reconciling", "ready", "failed"}
Resumable == State \ {"ready", "failed"}

\* A collector with a video holds the lock of its row; known: what it found stored.
Idle == [video |-> None]
\* The command, while its process lives: batch, what is counted of it, the flag it read.
Off == [pc |-> "off", dual |-> FALSE, phase |-> "schema_ready", passes |-> 1,
        batch |-> {}, counted |-> <<>>]

Transaction == [video: Videos, page: Page, known: [Comments -> Kind]]
Command == [pc: {"off", "open", "loop", "locking", "count", "mark"}, dual: BOOLEAN, phase: State,
            passes: 1..MaxPasses, batch: SUBSET Videos, counted: {bf.counted}]

TypeOK ==
    /\ present \subseteq Videos
    /\ comments \in [Videos -> [Comments -> Kind]]
    /\ rollup \in [Videos -> Counts \union {None}]
    /\ dual \in [Writers -> BOOLEAN]
    /\ writer \in [Writers -> {Idle} \union Transaction]
    /\ db \in [state: State, cursor: Videos \union {0}, error: State \union {None}]
    /\ bf \in Command /\ \E S \in SUBSET bf.batch : bf.counted \in [S -> Counts]
    /\ old \subseteq Videos /\ pass \subseteq present
    /\ faults \in 0..MaxFaults

Stored(cs) ==
    [top |-> Cardinality({c \in Comments : cs[c] = "top"}),
     reply |-> Cardinality({c \in Comments : cs[c] = "reply"})]

Init ==
    /\ present \in SUBSET Videos
    /\ comments = [v \in Videos |-> [c \in Comments |-> "none"]]
    /\ rollup = [v \in Videos |-> None]
    /\ dual = [w \in Writers |-> FALSE]
    /\ writer = [w \in Writers |-> Idle]
    /\ db = [state |-> "schema_ready", cursor |-> 0, error |-> None]
    /\ bf = Off
    /\ old = {} /\ pass = {}
    /\ faults = 0

Fault == faults < MaxFaults /\ faults' = faults + 1

Locked(v) == \/ \E w \in Writers : writer[w].video = v
             \/ v \in DOMAIN bf.counted

------------------------------------------------------------------------------
\* Collectors.

\* upsert_video, of one that is new.
Discover(v) ==
    /\ v \notin present
    /\ present' = present \union {v}
    /\ UNCHANGED <<comments, rollup, dual, writer, db, bf, old, pass, faults>>

\* The collector comes back with ENABLE_COMMENT_ROLLUP_DUAL_WRITE set.
Redeploy(w) ==
    /\ writer[w] = Idle
    /\ ~dual[w]
    /\ dual' = [dual EXCEPT ![w] = TRUE]
    /\ UNCHANGED <<tables, writer, db, bf, old, pass, faults>>

\* persist_comment_page begins: it locks the video and reads which comments are stored.
PageBegins(w, v, page) ==
    /\ writer[w] = Idle
    /\ v \in present /\ ~Locked(v)
    /\ writer' = [writer EXCEPT ![w] = [video |-> v, page |-> page, known |-> comments[v]]]
    /\ UNCHANGED <<tables, dual, db, bf, old, pass, faults>>

New(t, kind) ==
    Cardinality({c \in DOMAIN t.page : t.known[c] = "none" /\ t.page[c] = kind})

\* A stored comment that changes its kind is no addition.
Changes(t) == \E c \in DOMAIN t.page : t.known[c] \notin {"none", t.page[c]}

After(t, cs) == [c \in Comments |-> IF c \in DOMAIN t.page THEN t.page[c] ELSE cs[c]]

\* Mutation: every comment of the page is counted, whether it was stored or not.
RollupReplayed(t) ==
    IF Changes(t) \/ rollup[t.video] = None
    THEN Stored(After(t, comments[t.video]))
    ELSE [rollup[t.video] EXCEPT !.top = @ + Cardinality({c \in DOMAIN t.page : t.page[c] = "top"})]

\* The counts a page leaves: counted again, or advanced by the comments that are new.
RollupAfter(t) ==
    IF Changes(t) \/ rollup[t.video] = None
    THEN Stored(After(t, comments[t.video]))
    ELSE [rollup[t.video] EXCEPT !.top = @ + New(t, "top"), !.reply = @ + New(t, "reply")]

\* The rest of persist_comment_page: comments and counts in one transaction.
PageCommits(w) ==
    LET t == writer[w] v == t.video IN
    /\ t # Idle
    /\ comments' = [comments EXCEPT ![v] = After(t, @)]
    /\ IF dual[w]
       THEN rollup' = [rollup EXCEPT ![v] = RollupAfter(t)]
       ELSE UNCHANGED rollup
    /\ old' = IF dual[w] /\ (Changes(t) \/ rollup[v] = None) THEN old \ {v}
              ELSE IF ~dual[w] /\ comments' # comments THEN old \union {v} ELSE old
    /\ writer' = [writer EXCEPT ![w] = Idle]
    /\ UNCHANGED <<present, dual, db, bf, pass, faults>>

PageAborts(w) ==
    /\ writer[w] # Idle
    /\ writer' = [writer EXCEPT ![w] = Idle]
    /\ UNCHANGED <<tables, dual, db, bf, old, pass, faults>>

------------------------------------------------------------------------------
\* The backfill command.

Clean == \A v \in present : rollup[v] = Stored(comments[v])

\* run begins: the advisory lock, the row of progress, and the flag of its environment;
\* a command started without the flag will give up.
Start(d) ==
    /\ bf.pc = "off"
    /\ IF d THEN UNCHANGED faults ELSE Fault
    /\ bf' = [Off EXCEPT !.pc = "open", !.dual = d, !.phase = db.state]
    /\ UNCHANGED <<tables, dual, writer, db, old, pass>>

\* _record_failure
Failed(phase) ==
    /\ db' = [db EXCEPT !.state = "failed", !.error = phase]
    /\ bf' = Off
    /\ UNCHANGED pass

\* Mutation: a new pass goes on from where the last one was.
SetStateKeeping(state, reset) ==
    /\ db' = [db EXCEPT !.state = state, !.error = None]
    /\ pass' = IF reset THEN present ELSE pass

\* _set_state
SetState(state, reset) ==
    /\ db' = [state |-> state, cursor |-> IF reset THEN 0 ELSE db.cursor, error |-> None]
    /\ pass' = IF reset THEN present ELSE pass

\* Counts that are ready are verified again; a failed command goes on in the phase it
\* failed in; one that has not begun begins.
Open ==
    /\ bf.pc = "open"
    /\ \/ db.state = "ready" /\ Clean /\ bf' = Off /\ UNCHANGED <<db, pass>>
       \/ db.state = "ready" /\ ~Clean /\ ~bf.dual /\ Failed(bf.phase)
       \/ db.state = "ready" /\ ~Clean /\ bf.dual
          /\ SetState("reconciling", TRUE) /\ bf' = [bf EXCEPT !.pc = "loop"]
       \/ db.state = "failed"
          /\ SetState(IF db.error \in Resumable THEN db.error ELSE "backfill_running", FALSE)
          /\ UNCHANGED bf
       \/ db.state \in Resumable /\ ~bf.dual /\ Failed(bf.phase)
       \/ db.state = "schema_ready" /\ bf.dual
          /\ SetState("dual_write_enabled", FALSE) /\ UNCHANGED bf
       \/ db.state = "dual_write_enabled" /\ bf.dual
          /\ SetState("backfill_running", TRUE) /\ UNCHANGED bf
       \/ db.state \in {"backfill_running", "reconciling"} /\ bf.dual
          /\ bf' = [bf EXCEPT !.pc = "loop"] /\ UNCHANGED <<db, pass>>
    /\ UNCHANGED <<tables, dual, writer, old, faults>>

Ahead == {v \in present : v > db.cursor}
Batch == {v \in Ahead : Cardinality({u \in Ahead : u < v}) < BatchSize}

\* _fetch_video_batch; with nothing ahead, the backfill turns to reconcile and a pass of
\* the reconciliation to count.
Fetch ==
    /\ bf.pc = "loop"
    /\ IF Batch # {}
       THEN /\ bf' = [bf EXCEPT !.pc = "locking", !.phase = db.state, !.batch = Batch]
            /\ UNCHANGED <<db, pass>>
       ELSE IF db.state = "backfill_running"
       THEN /\ SetState("reconciling", TRUE)
            /\ bf' = [bf EXCEPT !.phase = db.state]
       ELSE /\ bf' = [bf EXCEPT !.pc = "count", !.phase = db.state]
            /\ UNCHANGED <<db, pass>>
    /\ UNCHANGED <<tables, dual, writer, old, faults>>

NextOfBatch(v) ==
    /\ bf.pc = "locking"
    /\ v \in bf.batch \ DOMAIN bf.counted
    /\ \A u \in bf.batch : u < v => u \in DOMAIN bf.counted

\* Mutation: the rows of the videos are not locked.
CountLockless(v) ==
    /\ NextOfBatch(v)
    /\ bf' = [bf EXCEPT !.counted = [u \in DOMAIN @ \union {v} |->
                                         IF u = v THEN Stored(comments[v]) ELSE @[u]]]
    /\ UNCHANGED <<tables, dual, writer, db, old, pass, faults>>

\* _apply_batch locks the videos one by one, and counts each under its lock.
CountVideo(v) ==
    /\ NextOfBatch(v)
    /\ ~Locked(v)
    /\ bf' = [bf EXCEPT !.counted = [u \in DOMAIN @ \union {v} |->
                                         IF u = v THEN Stored(comments[v]) ELSE @[u]]]
    /\ UNCHANGED <<tables, dual, writer, db, old, pass, faults>>

\* Mutation: a batch that could not be locked is left for the reconciliation.
LockSkips(v) ==
    /\ NextOfBatch(v)
    /\ Locked(v)
    /\ Fault
    /\ db' = [db EXCEPT !.cursor = v]
    /\ bf' = [bf EXCEPT !.pc = "loop", !.batch = {}, !.counted = <<>>]
    /\ UNCHANGED <<tables, dual, writer, old, pass>>

\* LockNotAvailable: nothing of the batch is kept, and it is tried again.
LockTimesOut(v) ==
    /\ NextOfBatch(v)
    /\ Locked(v)
    /\ Fault
    /\ bf' = [bf EXCEPT !.pc = "loop", !.batch = {}, !.counted = <<>>]
    /\ UNCHANGED <<tables, dual, writer, db, old, pass>>

Last(batch) == CHOOSE v \in batch : \A u \in batch : u <= v

\* Counts and cursor are committed together.
ApplyBatch ==
    /\ bf.pc = "locking"
    /\ DOMAIN bf.counted = bf.batch
    /\ rollup' = [v \in Videos |-> IF v \in bf.batch THEN bf.counted[v] ELSE rollup[v]]
    /\ db' = [db EXCEPT !.cursor = Last(bf.batch), !.error = None]
    /\ old' = old \ bf.batch
    /\ bf' = [bf EXCEPT !.pc = "loop", !.batch = {}, !.counted = <<>>]
    /\ UNCHANGED <<present, comments, dual, writer, pass, faults>>

\* _count_mismatches, and another pass while there are any, up to MaxPasses.
CountMismatches ==
    /\ bf.pc = "count"
    /\ \/ Clean /\ bf' = [bf EXCEPT !.pc = "mark"] /\ UNCHANGED <<db, pass>>
       \/ ~Clean /\ bf.passes >= MaxPasses /\ Failed(bf.phase)
       \/ ~Clean /\ bf.passes < MaxPasses
          /\ SetState("reconciling", TRUE)
          /\ bf' = [bf EXCEPT !.pc = "loop", !.passes = @ + 1]
    /\ UNCHANGED <<tables, dual, writer, old, faults>>

Ready == [state |-> "ready", cursor |-> 0, error |-> None]

\* _mark_ready counts once more in the statement that marks.
MarkReady ==
    /\ bf.pc = "mark"
    /\ IF Clean
       THEN db' = Ready /\ bf' = Off /\ old' = {} /\ UNCHANGED pass
       ELSE Failed(bf.phase) /\ UNCHANGED old
    /\ UNCHANGED <<tables, dual, writer, faults>>

\* The process is killed, or stopped with its cursor in place.
Stops ==
    /\ bf.pc # "off"
    /\ Fault
    /\ bf' = Off
    /\ UNCHANGED <<tables, dual, writer, db, old, pass>>

\* A statement raises: the transaction is undone and the failure recorded.
Raises ==
    /\ bf.pc # "off"
    /\ Fault
    /\ Failed(bf.phase)
    /\ UNCHANGED <<tables, dual, writer, old>>

------------------------------------------------------------------------------
Run == Open \/ Fetch \/ ApplyBatch \/ CountMismatches \/ MarkReady

Next ==
    \/ \E v \in Videos : Discover(v) \/ CountVideo(v) \/ LockTimesOut(v)
    \/ \E w \in Writers : Redeploy(w) \/ PageCommits(w) \/ PageAborts(w)
    \/ \E w \in Writers, v \in Videos, page \in Page : PageBegins(w, v, page)
    \/ \E d \in BOOLEAN : Start(d)
    \/ Run \/ Stops \/ Raises

Spec == Init /\ [][Next]_vars

\* The command is run again until it says ready, transactions of collectors end, and a
\* row that is free again and again is locked at last.
Fairness ==
    /\ WF_vars(Start(TRUE)) /\ WF_vars(Run)
    /\ \A w \in Writers : WF_vars(PageCommits(w))
    /\ \A v \in Videos : SF_vars(CountVideo(v))

FairSpec == Spec /\ Fairness

------------------------------------------------------------------------------
\* What a reader shows of a video: no row counts as zero.
Shown(v) == IF rollup[v] = None THEN [top |-> 0, reply |-> 0] ELSE rollup[v]

\* Marked ready, the counts are those of the comments, also of videos found later, unless
\* a collector that does not keep them has stored comments since they were marked.
ReadyIsTrue ==
    db.state = "ready" => \A v \in present \ old : Shown(v) = Stored(comments[v])

\* The cursor never passes a video over: of those the pass began with, what lies behind
\* it is right, whatever failed, was stopped or timed out in between.
PassCovers ==
    db.state \in {"backfill_running", "reconciling"} =>
        \A v \in pass \ old : v <= db.cursor => rollup[v] = Stored(comments[v])

\* Counts that are right stay right: the absolute counts of the backfill and the
\* additions of collectors never lose or repeat one another's updates.
CountsStayTrue ==
    [][\A v \in Videos :
          rollup[v] = Stored(comments[v]) =>
              rollup'[v] = Stored(comments'[v]) \/ v \in old']_vars

\* Once all collectors keep the counts, running the command again and again gets them
\* ready, in whatever state its failures left it.
BackfillEnds == (\A w \in Writers : dual[w]) ~> db.state = "ready"

==============================================================================
