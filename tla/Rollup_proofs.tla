----------------------------- MODULE Rollup_proofs -----------------------------
(***************************************************************************)
(* Proofs about Rollup, for any videos, comments, collectors, batches,       *)
(* passes and faults: type correctness, what readers see of counts that are   *)
(* marked ready, what a cursor has passed, and that counts are never spoiled. *)
(***************************************************************************)
EXTENDS Rollup, FiniteSetTheorems, TLAPS

------------------------------------------------------------------------------
(* Finite sets, and counts. *)

\* A finite set of numbers has a largest one.
LEMMA LastOfBatch ==
  ASSUME NEW S \in SUBSET Videos, S # {}
  PROVE  Last(S) \in S /\ \A u \in S : u <= Last(S)
<1> DEFINE above(v) == {u \in S : u > v}
           T == {above(v) : v \in S}
<1>1. IsFiniteSet(S) /\ S \subseteq Nat
  BY RollupConstants, FS_Subset
<1>2. IsWellFoundedOn(StrictSubsetOrdering(S), SUBSET S)
  BY <1>1, FS_StrictSubsetOrderingWellFounded, FS_FiniteSubsetsOfFinite
<1>3. T \subseteq SUBSET S /\ T # {}
  OBVIOUS
<1> HIDE DEF T
<1>4. PICK x \in T : \A y \in T : ~ (<<y, x>> \in StrictSubsetOrdering(S))
  BY <1>2, <1>3, WFMin
<1>5. PICK v \in S : x = above(v)
  BY <1>4 DEF T
<1>6. ASSUME NEW u \in S PROVE u <= v
  <2> SUFFICES ASSUME u > v PROVE FALSE
    BY <1>1
  <2>1. above(u) \in T
    BY DEF T
  <2>2. above(u) \subseteq above(v) /\ u \in above(v) /\ u \notin above(u)
    <3>1. u \in Nat /\ v \in Nat /\ \A z \in S : z \in Nat
      BY <1>1
    <3>2. \A z \in S : z > u => z > v
      BY <3>1
    <3>3. ~(u > u)
      BY <3>1
    <3> QED
      BY <3>2, <3>3
  <2>3. <<above(u), above(v)>> \in StrictSubsetOrdering(S)
    BY <2>2 DEF StrictSubsetOrdering
  <2> QED
    BY <1>4, <1>5, <2>1, <2>3
<1>7. \E w \in S : \A u \in S : u <= w
  BY <1>6
<1> QED
  BY <1>7 DEF Last

LEMMA CardinalityOfComments ==
  ASSUME NEW S \in SUBSET Comments
  PROVE  IsFiniteSet(S) /\ Cardinality(S) \in Nat
  BY RollupConstants, FS_Subset, FS_CardinalityType

LEMMA StoredType ==
  ASSUME NEW cs \in [Comments -> Kind]
  PROVE  Stored(cs) \in Counts
<1>1. \A k : Cardinality({c \in Comments : cs[c] = k}) \in Nat
  BY CardinalityOfComments
<1> QED
  BY <1>1 DEF Stored, Counts

LEMMA StoredNothing ==
  ASSUME NEW cs, \A c \in Comments : cs[c] = "none"
  PROVE  Stored(cs) = [top |-> 0, reply |-> 0]
<1>1. {c \in Comments : cs[c] = "top"} = {} /\ {c \in Comments : cs[c] = "reply"} = {}
  OBVIOUS
<1> QED
  BY <1>1, FS_EmptySet DEF Stored

LEMMA PageDomain ==
  ASSUME NEW page \in Page
  PROVE  DOMAIN page \subseteq Comments /\ \A c \in DOMAIN page : page[c] \in {"top", "reply"}
  BY DEF Page

LEMMA AfterType ==
  ASSUME NEW t \in Transaction, NEW cs \in [Comments -> Kind]
  PROVE  After(t, cs) \in [Comments -> Kind]
<1>1. t.page \in Page
  BY DEF Transaction
<1> QED
  BY <1>1, PageDomain DEF After, Kind

\* A page whose stored comments keep their kind adds its new comments of each kind to the
\* count of that kind.
LEMMA NewAreAdded ==
  ASSUME NEW t \in Transaction, ~Changes(t), NEW k \in {"top", "reply"}
  PROVE  /\ New(t, k) \in Nat
         /\ Cardinality({c \in Comments : After(t, t.known)[c] = k})
              = Cardinality({c \in Comments : t.known[c] = k}) + New(t, k)
<1> DEFINE before == {c \in Comments : t.known[c] = k}
           added == {c \in DOMAIN t.page : t.known[c] = "none" /\ t.page[c] = k}
           after == {c \in Comments : After(t, t.known)[c] = k}
<1>1. t.page \in Page /\ DOMAIN t.page \subseteq Comments
  BY PageDomain DEF Transaction
<1>2. \A c \in DOMAIN t.page : t.known[c] \in {"none", t.page[c]}
  BY DEF Changes
<1>3. after = before \cup added /\ before \cap added = {}
  BY <1>1, <1>2 DEF After
<1>4. IsFiniteSet(before) /\ IsFiniteSet(added)
      /\ Cardinality(before) \in Nat /\ Cardinality(added) \in Nat
  BY <1>1, CardinalityOfComments
<1> HIDE DEF before, added, after
<1>5. Cardinality(after) = Cardinality(before) + Cardinality(added)
  <2>1. Cardinality(before \cap added) = 0
    BY <1>3, FS_EmptySet
  <2>2. Cardinality(before \cup added)
          = Cardinality(before) + Cardinality(added) - Cardinality(before \cap added)
    BY <1>4, FS_Union
  <2> QED
    BY <1>3, <1>4, <2>1, <2>2
<1> QED
  BY <1>4, <1>5 DEF New, before, added, after

------------------------------------------------------------------------------
(***************************************************************************)
(* The inductive invariant.                                                  *)
(***************************************************************************)

\* A video nobody has discovered has no comments and no counts.
Undiscovered ==
  \A v \in Videos \ present : rollup[v] = None /\ \A c \in Comments : comments[v][c] = "none"

\* The lock of a video is held once, and what its holder read is still so: a collector
\* that has begun a page, or the backfill that has counted the video.
LocksHeld ==
  /\ \A w \in Writers : writer[w] # Idle =>
       /\ writer[w].video \in present \ DOMAIN bf.counted
       /\ writer[w].known = comments[writer[w].video]
  /\ \A w \in Writers, u \in Writers :
       writer[w] # Idle /\ writer[u] # Idle /\ writer[w].video = writer[u].video => w = u
  /\ \A v \in DOMAIN bf.counted : bf.counted[v] = Stored(comments[v])

\* A batch has every video of the pass from the cursor to its own last one.
BatchCovers ==
  /\ bf.batch \subseteq present
  /\ bf.pc # "locking" => bf.batch = {}
  /\ bf.pc = "locking" => bf.batch # {}
  /\ \A v \in pass, u \in bf.batch : db.cursor < v /\ v <= u => v \in bf.batch

Right(v) == rollup[v] = Stored(comments[v])

\* What is shown of a video is right unless it was stored past its counts.
ShownRight == \A v \in Videos \ old : Shown(v) = Stored(comments[v])

\* Behind the cursor the counts themselves are there and right.
PassedRight == \A v \in pass \ old : v <= db.cursor => Right(v)

RollupInv ==
  /\ TypeOK
  /\ Undiscovered /\ LocksHeld /\ BatchCovers
  /\ ShownRight /\ PassedRight

LEMMA OffType == Off.pc = "off" /\ Off.batch = {} /\ DOMAIN Off.counted = {} /\ Off.counted \in [{} -> Counts]
  BY DEF Off

LEMMA TransactionType ==
  ASSUME TypeOK, NEW w \in Writers, writer[w] # Idle
  PROVE  /\ writer[w] \in Transaction
         /\ writer[w].video \in Videos /\ writer[w].known \in [Comments -> Kind]
  BY DEF TypeOK, Transaction

\* The counts a collector leaves behind.
LEMMA RollupAfterRight ==
  ASSUME TypeOK, NEW t \in Transaction, t.known = comments[t.video]
  PROVE  /\ RollupAfter(t) \in Counts
         /\ Changes(t) \/ rollup[t.video] = None \/ Right(t.video)
              => RollupAfter(t) = Stored(After(t, comments[t.video]))
<1> DEFINE v == t.video
           cs == comments[v]
<1>1. v \in Videos /\ cs \in [Comments -> Kind] /\ rollup[v] \in Counts \union {None}
  BY DEF TypeOK, Transaction
<1>2. Stored(After(t, cs)) \in Counts
  BY <1>1, AfterType, StoredType
<1>3. CASE Changes(t) \/ rollup[v] = None
  BY <1>2, <1>3 DEF RollupAfter
<1>4. CASE ~(Changes(t) \/ rollup[v] = None)
  <2> DEFINE r == rollup[v]
             next == [r EXCEPT !.top = @ + New(t, "top"), !.reply = @ + New(t, "reply")]
  <2>1. r \in Counts /\ RollupAfter(t) = next
    BY <1>1, <1>4 DEF RollupAfter
  <2>2. /\ New(t, "top") \in Nat /\ New(t, "reply") \in Nat
        /\ Stored(After(t, cs)).top = Stored(cs).top + New(t, "top")
        /\ Stored(After(t, cs)).reply = Stored(cs).reply + New(t, "reply")
    BY <1>4, NewAreAdded DEF Stored
  <2>3. next \in Counts /\ next.top = r.top + New(t, "top") /\ next.reply = r.reply + New(t, "reply")
    <3>1. r \in [top: Nat, reply: Nat]
      BY <2>1 DEF Counts
    <3>2. r.top + New(t, "top") \in Nat /\ r.reply + New(t, "reply") \in Nat
      BY <2>2, <3>1
    <3>3. next \in Counts
      BY <3>1, <3>2 DEF Counts
    <3> QED
      BY <3>1, <3>3 DEF Counts
  <2>4. ASSUME r = Stored(cs) PROVE next = Stored(After(t, cs))
    <3>1. next.top = Stored(After(t, cs)).top /\ next.reply = Stored(After(t, cs)).reply
      BY <2>2, <2>3, <2>4
    <3> QED
      BY <1>2, <2>3, <3>1 DEF Counts
  <2> QED
    BY <1>4, <2>1, <2>3, <2>4 DEF Right
<1> QED
  BY <1>3, <1>4

\* A commit changes one video: counts that were right are, or the video is old.
LEMMA Committed ==
  ASSUME RollupInv, NEW w \in Writers, PageCommits(w), NEW v \in Videos, v = writer[w].video
  PROVE  /\ writer[w] # Idle /\ v \in present
         /\ comments' \in [Videos -> [Comments -> Kind]]
         /\ rollup' \in [Videos -> Counts \union {None}]
         /\ \A u \in Videos \ {v} : /\ comments'[u] = comments[u] /\ rollup'[u] = rollup[u]
                                    /\ u \in old' <=> u \in old
         /\ old' \subseteq Videos
         /\ Right(v) => Right(v)' \/ v \in old'
         /\ v \in old => Right(v)' \/ v \in old'
         /\ v \in old' \/ Shown(v)' = Stored(comments[v])'
<1> DEFINE t == writer[w]
           cs == comments[v]
<1>1. /\ t # Idle /\ t \in Transaction /\ t.video = v /\ v \in present /\ t.known = cs
      /\ cs \in [Comments -> Kind]
  BY TransactionType DEF RollupInv, LocksHeld, PageCommits, TypeOK
<1>2. /\ comments' = [comments EXCEPT ![v] = After(t, cs)] /\ After(t, cs) \in [Comments -> Kind]
  BY <1>1, AfterType DEF PageCommits, RollupInv, TypeOK
<1>3. /\ comments' \in [Videos -> [Comments -> Kind]] /\ comments'[v] = After(t, cs)
      /\ \A u \in Videos \ {v} : comments'[u] = comments[u]
  BY <1>1, <1>2 DEF RollupInv, TypeOK
<1>4. /\ RollupAfter(t) \in Counts
      /\ Changes(t) \/ rollup[v] = None \/ Right(v) => RollupAfter(t) = Stored(After(t, cs))
  BY <1>1, RollupAfterRight DEF RollupInv
<1>5. CASE dual[w]
  <2>1. rollup' = [rollup EXCEPT ![v] = RollupAfter(t)]
    BY <1>5 DEF PageCommits
  <2>2. /\ rollup' \in [Videos -> Counts \union {None}] /\ rollup'[v] = RollupAfter(t)
        /\ \A u \in Videos \ {v} : rollup'[u] = rollup[u]
    BY <1>1, <1>4, <2>1 DEF RollupInv, TypeOK
  <2>3. old' = IF Changes(t) \/ rollup[v] = None THEN old \ {v} ELSE old
    BY <1>5 DEF PageCommits
  <2>4. Shown(v)' = RollupAfter(t)
    BY <1>4, <2>2, RollupConstants DEF Shown, Counts
  <2>5. v \notin old' => Changes(t) \/ rollup[v] = None \/ Right(v)
    BY <1>1, <2>3 DEF RollupInv, ShownRight, Shown, Right
  <2>6. Right(v) => Right(v)'
    BY <1>3, <1>4, <2>2 DEF Right
  <2>7. v \in old => Right(v)' \/ v \in old'
    BY <1>3, <1>4, <2>2, <2>3 DEF Right
  <2> QED
    BY <1>1, <1>3, <1>4, <2>2, <2>3, <2>4, <2>5, <2>6, <2>7 DEF RollupInv, TypeOK
<1>6. CASE ~dual[w]
  <2>1. rollup' = rollup /\ old' = IF comments' # comments THEN old \union {v} ELSE old
    BY <1>6 DEF PageCommits
  <2>2. v \notin old' => comments' = comments /\ v \notin old
    BY <2>1
  <2>3. Right(v) => Right(v)' \/ v \in old'
    BY <2>1, <2>2 DEF Right
  <2>4. v \in old' \/ Shown(v)' = Stored(comments[v])'
    BY <1>1, <2>1, <2>2 DEF RollupInv, ShownRight, Shown
  <2> QED
    BY <1>1, <1>3, <2>1, <2>3, <2>4 DEF RollupInv, TypeOK
<1> QED
  BY <1>5, <1>6

------------------------------------------------------------------------------
(***************************************************************************)
(* The command.                                                              *)
(***************************************************************************)

Phase == {"off", "open", "loop", "locking", "count", "mark"}

IsCommand(b) ==
  /\ b \in [pc: Phase, dual: BOOLEAN, phase: State, passes: 1..MaxPasses,
            batch: SUBSET Videos, counted: {b.counted}]
  /\ \E S \in SUBSET b.batch : b.counted \in [S -> Counts]

Progress == [state: State, cursor: Videos \union {0}, error: State \union {None}]

LEMMA CommandType == TypeOK => IsCommand(bf) /\ db \in Progress
  BY DEF TypeOK, IsCommand, Command, Phase, Progress

LEMMA OffIsCommand == IsCommand(Off)
<1>1. 1 \in 1..MaxPasses /\ {} \in SUBSET Videos
  BY RollupConstants
<1> QED
  BY <1>1, OffType DEF IsCommand, Off, Phase, State

\* The command turns to something else, in the phase it is in or in another one.
LEMMA CommandTurns ==
  ASSUME NEW b, IsCommand(b), NEW pc \in Phase
  PROVE  LET c == [b EXCEPT !.pc = pc] IN IsCommand(c) /\ c.pc = pc /\ c.batch = b.batch
  BY DEF IsCommand

LEMMA CommandInPhase ==
  ASSUME NEW b, IsCommand(b), NEW phase \in State
  PROVE  LET c == [b EXCEPT !.phase = phase] IN IsCommand(c) /\ c.pc = b.pc /\ c.batch = b.batch
  BY DEF IsCommand

LEMMA FaultType == TypeOK /\ Fault => faults' \in 0..MaxFaults
  BY RollupConstants DEF TypeOK, Fault

\* The command leaves no batch behind: it holds no locks then, and a cursor that is kept
\* has passed what it had.
LEMMA QuietStep ==
  ASSUME RollupInv, UNCHANGED <<tables, dual, writer, old>>,
         IsCommand(bf'), bf'.pc # "locking", bf'.batch = {},
         db' \in Progress, faults' \in 0..MaxFaults,
         \/ db'.cursor = db.cursor /\ pass' = pass
         \/ db'.cursor = 0 /\ pass' \in {pass, present}
  PROVE  RollupInv'
<1>1. TypeOK'
  <2>1. pass' \subseteq present
    BY DEF RollupInv, TypeOK
  <2> QED
    BY <2>1 DEF RollupInv, TypeOK, tables, IsCommand, Command, Phase, Progress
<1>2. DOMAIN bf'.counted = {}
  BY DEF IsCommand
<1>3. LocksHeld' /\ BatchCovers' /\ Undiscovered' /\ ShownRight'
  BY <1>2 DEF RollupInv, LocksHeld, BatchCovers, Undiscovered, ShownRight, Shown, tables
<1>4. PassedRight'
  <2>1. CASE db'.cursor = db.cursor /\ pass' = pass
    BY <2>1 DEF RollupInv, PassedRight, Right, tables
  <2>2. CASE db'.cursor = 0
    <3>1. \A v \in Videos : ~(v <= 0)
      BY RollupConstants
    <3> QED
      BY <1>1, <2>2, <3>1 DEF PassedRight, TypeOK
  <2> QED
    BY <2>1, <2>2
<1> QED
  BY <1>1, <1>3, <1>4 DEF RollupInv

LEMMA QuietCommand ==
  ASSUME RollupInv, bf.pc # "locking"
  PROVE  bf.batch = {}
  BY DEF RollupInv, BatchCovers

LEMMA FailedKeeps ==
  ASSUME RollupInv, NEW phase \in State, Failed(phase)
  PROVE  /\ IsCommand(bf') /\ bf'.pc # "locking" /\ bf'.batch = {}
         /\ db' \in Progress /\ db'.cursor = db.cursor /\ pass' = pass
<1>1. db \in Progress
  BY CommandType DEF RollupInv
<1>2. db' = [db EXCEPT !.state = "failed", !.error = phase] /\ bf' = Off /\ pass' = pass
  BY DEF Failed
<1> QED
  BY <1>1, <1>2, OffIsCommand, OffType DEF Progress, State

LEMMA SetStateKeeps ==
  ASSUME RollupInv, NEW state \in State, NEW reset \in BOOLEAN, SetState(state, reset)
  PROVE  /\ db' \in Progress
         /\ \/ db'.cursor = db.cursor /\ pass' = pass
            \/ db'.cursor = 0 /\ pass' \in {pass, present}
<1>1. db \in Progress
  BY CommandType DEF RollupInv
<1> QED
  BY <1>1 DEF SetState, Progress

LEMMA StartInv ==
  ASSUME RollupInv, NEW d \in BOOLEAN, Start(d)
  PROVE  RollupInv'
<1>1. db \in Progress /\ faults \in 0..MaxFaults
  BY CommandType DEF RollupInv, TypeOK
<1>2. bf' = [Off EXCEPT !.pc = "open", !.dual = d, !.phase = db.state]
  BY DEF Start
<1>3. IsCommand(bf') /\ bf'.pc = "open" /\ bf'.batch = {}
  BY <1>1, <1>2, OffIsCommand, OffType DEF IsCommand, Progress, Phase
<1>4. faults' \in 0..MaxFaults
  BY <1>1, FaultType DEF Start, RollupInv
<1> QED
  BY <1>1, <1>3, <1>4, QuietStep DEF Start

LEMMA OpenInv ==
  ASSUME RollupInv, Open
  PROVE  RollupInv'
<1>1. /\ IsCommand(bf) /\ db \in Progress /\ bf.pc = "open" /\ bf.batch = {}
      /\ bf.phase \in State /\ faults' \in 0..MaxFaults
  BY CommandType, QuietCommand DEF RollupInv, Open, IsCommand, TypeOK
<1>2. {"reconciling", "backfill_running", "dual_write_enabled"} \subseteq State
  BY DEF State
<1>3. IsCommand([bf EXCEPT !.pc = "loop"]) /\ [bf EXCEPT !.pc = "loop"].pc = "loop"
      /\ [bf EXCEPT !.pc = "loop"].batch = {}
  <2>1. "loop" \in Phase
    BY DEF Phase
  <2> QED
    BY <1>1, <2>1, CommandTurns
<1>4. /\ IsCommand(bf') /\ bf'.pc # "locking" /\ bf'.batch = {}
      /\ db' \in Progress
      /\ \/ db'.cursor = db.cursor /\ pass' = pass
         \/ db'.cursor = 0 /\ pass' \in {pass, present}
  <2>1. CASE bf' = Off /\ UNCHANGED <<db, pass>>
    BY <1>1, <2>1, OffIsCommand, OffType
  <2>2. CASE Failed(bf.phase)
    BY <1>1, <2>2, FailedKeeps
  <2>3. CASE SetState("reconciling", TRUE) /\ bf' = [bf EXCEPT !.pc = "loop"]
    BY <1>2, <1>3, <2>3, SetStateKeeps
  <2>4. CASE /\ db.state = "failed"
             /\ SetState(IF db.error \in Resumable THEN db.error ELSE "backfill_running", FALSE)
             /\ UNCHANGED bf
    BY <1>1, <1>2, <2>4, SetStateKeeps DEF Resumable
  <2>5. CASE SetState("dual_write_enabled", FALSE) /\ UNCHANGED bf
    BY <1>1, <1>2, <2>5, SetStateKeeps
  <2>6. CASE SetState("backfill_running", TRUE) /\ UNCHANGED bf
    BY <1>1, <1>2, <2>6, SetStateKeeps
  <2>7. CASE bf' = [bf EXCEPT !.pc = "loop"] /\ UNCHANGED <<db, pass>>
    BY <1>1, <1>3, <2>7
  <2> QED
    BY <2>1, <2>2, <2>3, <2>4, <2>5, <2>6, <2>7 DEF Open
<1> QED
  BY <1>1, <1>4, QuietStep DEF Open

\* A batch is the first videos ahead: none before one of it is left out.
LEMMA BatchIsFirst ==
  ASSUME TypeOK, NEW v \in present, NEW u \in Batch, db.cursor < v, v <= u
  PROVE  v \in Batch
<1> DEFINE before(x) == {y \in Ahead : y < x}
<1>1. /\ Ahead \subseteq Videos /\ v \in Ahead /\ u \in Ahead
      /\ Cardinality(before(u)) < BatchSize
  BY DEF Batch, Ahead, TypeOK
<1>2. v \in Nat /\ u \in Nat /\ \A y \in Ahead : y \in Nat
  BY <1>1, RollupConstants
<1>3. before(v) \subseteq before(u)
  BY <1>2
<1>4. IsFiniteSet(before(u))
  BY <1>1, RollupConstants, FS_Subset
<1>5. Cardinality(before(v)) <= Cardinality(before(u))
      /\ Cardinality(before(v)) \in Nat /\ Cardinality(before(u)) \in Nat
  BY <1>3, <1>4, FS_Subset, FS_CardinalityType
<1>6. Cardinality(before(v)) < BatchSize
  BY <1>1, <1>5, RollupConstants
<1> QED
  BY <1>1, <1>6 DEF Batch

LEMMA FetchInv ==
  ASSUME RollupInv, Fetch
  PROVE  RollupInv'
<1>1. /\ IsCommand(bf) /\ db \in Progress /\ bf.pc = "loop" /\ bf.batch = {}
      /\ db.state \in State /\ faults' \in 0..MaxFaults
  BY CommandType, QuietCommand DEF RollupInv, Fetch, TypeOK, Progress
<1>2. CASE Batch # {}
  <2>1. bf' = [bf EXCEPT !.pc = "locking", !.phase = db.state, !.batch = Batch] /\ UNCHANGED <<db, pass>>
    BY <1>2 DEF Fetch
  <2>2. Batch \subseteq present /\ present \subseteq Videos
    BY DEF Batch, Ahead, RollupInv, TypeOK
  <2>3. bf'.pc = "locking" /\ bf'.batch = Batch /\ bf'.counted = bf.counted
    BY <1>1, <2>1 DEF IsCommand
  <2>4. bf' \in [pc: Phase, dual: BOOLEAN, phase: State, passes: 1..MaxPasses,
                 batch: SUBSET Videos, counted: {bf.counted}]
    BY <1>1, <2>1, <2>2 DEF IsCommand, Phase
  <2>5. bf.counted \in [{} -> Counts]
    BY <1>1 DEF IsCommand
  <2>6. TypeOK'
    BY <1>1, <2>1, <2>3, <2>4, <2>5 DEF RollupInv, TypeOK, Fetch, tables, Command, Phase
  <2>7. LocksHeld' /\ Undiscovered' /\ ShownRight' /\ PassedRight'
    BY <2>1, <2>3 DEF Fetch, RollupInv, LocksHeld, Undiscovered, ShownRight, Shown, PassedRight, Right, tables
  <2>8. BatchCovers'
    <3>1. pass \subseteq present
      BY DEF RollupInv, TypeOK
    <3> QED
      BY <1>2, <2>1, <2>2, <2>3, <3>1, BatchIsFirst DEF BatchCovers, RollupInv, Fetch, tables
  <2> QED
    BY <2>6, <2>7, <2>8 DEF RollupInv
<1>3. CASE Batch = {} /\ db.state = "backfill_running"
  <2>1. SetState("reconciling", TRUE) /\ bf' = [bf EXCEPT !.phase = db.state]
    BY <1>3 DEF Fetch
  <2>2. IsCommand(bf') /\ bf'.pc = "loop" /\ bf'.batch = {}
    BY <1>1, <2>1, CommandInPhase
  <2>3. "reconciling" \in State
    BY DEF State
  <2> QED
    BY <1>1, <2>1, <2>2, <2>3, SetStateKeeps, QuietStep DEF Fetch
<1>4. CASE Batch = {} /\ db.state # "backfill_running"
  <2>1. bf' = [bf EXCEPT !.pc = "count", !.phase = db.state] /\ UNCHANGED <<db, pass>>
    BY <1>4 DEF Fetch
  <2>2. IsCommand(bf') /\ bf'.pc = "count" /\ bf'.batch = {}
    BY <1>1, <2>1 DEF IsCommand, Phase
  <2> QED
    BY <1>1, <2>1, <2>2, QuietStep DEF Fetch
<1> QED
  BY <1>2, <1>3, <1>4

\* A video is counted under its lock.
LEMMA CountVideoInv ==
  ASSUME RollupInv, NEW v \in Videos, CountVideo(v)
  PROVE  RollupInv'
<1> DEFINE old_ == bf.counted
           new == [u \in DOMAIN old_ \union {v} |-> IF u = v THEN Stored(comments[v]) ELSE old_[u]]
<1>1. IsCommand(bf) /\ bf.pc = "locking" /\ v \in bf.batch /\ DOMAIN old_ \subseteq bf.batch
  BY CommandType DEF RollupInv, CountVideo, NextOfBatch, IsCommand
<1>2. bf' = [bf EXCEPT !.counted = new] /\ UNCHANGED <<tables, dual, writer, db, old, pass, faults>>
  BY DEF CountVideo
<1>3. bf'.counted = new /\ bf'.pc = bf.pc /\ bf'.batch = bf.batch
  BY <1>1, <1>2 DEF IsCommand
<1>4. new \in [DOMAIN old_ \union {v} -> Counts] /\ DOMAIN old_ \union {v} \in SUBSET bf.batch
  BY <1>1, StoredType DEF RollupInv, TypeOK, IsCommand
<1>5. bf' \in [pc: Phase, dual: BOOLEAN, phase: State, passes: 1..MaxPasses,
               batch: SUBSET Videos, counted: {new}]
  BY <1>1, <1>2 DEF IsCommand
<1>6. TypeOK'
  BY <1>2, <1>3, <1>4, <1>5 DEF RollupInv, TypeOK, tables, Command, Phase
<1>7. LocksHeld'
  <2>1. DOMAIN new = DOMAIN old_ \union {v} /\ new[v] = Stored(comments[v])
        /\ \A u \in DOMAIN old_ : new[u] = old_[u] \/ u = v
    OBVIOUS
  <2>2. \A u \in DOMAIN new : new[u] = Stored(comments[u])
    BY <2>1 DEF RollupInv, LocksHeld
  <2>3. \A w \in Writers : writer[w].video # v
    BY DEF CountVideo, Locked
  <2> HIDE DEF new
  <2> QED
    BY <1>2, <1>3, <2>1, <2>2, <2>3 DEF RollupInv, LocksHeld, tables
<1>8. BatchCovers' /\ Undiscovered' /\ ShownRight' /\ PassedRight'
  BY <1>2, <1>3 DEF RollupInv, BatchCovers, Undiscovered, ShownRight, Shown, PassedRight, Right, tables
<1> QED
  BY <1>6, <1>7, <1>8 DEF RollupInv

\* Where the command lets its batch go.
LEMMA BatchLeft ==
  ASSUME NEW b, IsCommand(b)
  PROVE  LET c == [b EXCEPT !.pc = "loop", !.batch = {}, !.counted = <<>>]
         IN  IsCommand(c) /\ c.pc = "loop" /\ c.batch = {} /\ DOMAIN c.counted = {}
<1>1. <<>> \in [{} -> Counts]
  OBVIOUS
<1> QED
  BY <1>1 DEF IsCommand, Phase

LEMMA LockTimesOutInv ==
  ASSUME RollupInv, NEW v \in Videos, LockTimesOut(v)
  PROVE  RollupInv'
<1>1. IsCommand(bf) /\ db \in Progress /\ faults' \in 0..MaxFaults
  BY CommandType, FaultType DEF RollupInv, LockTimesOut
<1>2. IsCommand(bf') /\ bf'.pc = "loop" /\ bf'.batch = {}
  BY <1>1, BatchLeft DEF LockTimesOut
<1> QED
  BY <1>1, <1>2, QuietStep DEF LockTimesOut

\* Counts and cursor are committed together: what the cursor passes has just been
\* counted, under locks that still hold.
LEMMA ApplyBatchInv ==
  ASSUME RollupInv, ApplyBatch
  PROVE  RollupInv'
<1> DEFINE batch == bf.batch
<1>1. /\ IsCommand(bf) /\ db \in Progress /\ bf.pc = "locking" /\ DOMAIN bf.counted = batch
      /\ batch # {} /\ batch \subseteq present /\ batch \in SUBSET Videos /\ present \subseteq Videos
  BY CommandType DEF RollupInv, ApplyBatch, BatchCovers, TypeOK
<1>2. IsCommand(bf') /\ bf'.pc = "loop" /\ bf'.batch = {} /\ DOMAIN bf'.counted = {}
  BY <1>1, BatchLeft DEF ApplyBatch
<1>3. \A v \in batch : bf.counted[v] \in Counts /\ bf.counted[v] = Stored(comments[v])
  BY <1>1 DEF IsCommand, RollupInv, LocksHeld
<1>4. /\ rollup' \in [Videos -> Counts \union {None}]
      /\ \A v \in batch : rollup'[v] = Stored(comments[v])
      /\ \A v \in Videos \ batch : rollup'[v] = rollup[v]
  BY <1>1, <1>3 DEF ApplyBatch, RollupInv, TypeOK
<1>5. /\ db' \in Progress /\ db'.cursor = Last(batch)
      /\ Last(batch) \in batch /\ \A u \in batch : u <= Last(batch)
  BY <1>1, LastOfBatch DEF ApplyBatch, Progress
<1>6. TypeOK'
  BY <1>1, <1>2, <1>4, <1>5 DEF RollupInv, TypeOK, ApplyBatch, IsCommand, Command, Phase, Progress
<1>7. LocksHeld' /\ BatchCovers'
  BY <1>2 DEF RollupInv, LocksHeld, BatchCovers, ApplyBatch
<1>8. Undiscovered'
  BY <1>1, <1>4 DEF RollupInv, Undiscovered, ApplyBatch
<1>9. ShownRight'
  <2> SUFFICES ASSUME NEW v \in Videos \ old' PROVE Shown(v)' = Stored(comments[v])'
    BY DEF ShownRight
  <2>1. comments' = comments /\ old' = old \ batch
    BY DEF ApplyBatch
  <2>2. CASE v \in batch
    BY <1>3, <1>4, <2>1, <2>2, RollupConstants DEF Shown, Counts
  <2>3. CASE v \notin batch
    BY <1>4, <2>1, <2>3 DEF RollupInv, ShownRight, Shown
  <2> QED
    BY <2>2, <2>3
<1>10. PassedRight'
  <2> SUFFICES ASSUME NEW v \in pass, v \notin old', v <= Last(batch)
               PROVE  rollup'[v] = Stored(comments[v])
    BY <1>5 DEF PassedRight, Right, ApplyBatch
  <2>1. v \in Videos /\ v \in Nat /\ db.cursor \in Nat
    <3>1. v \in Videos /\ \A u \in Videos \union {0} : u \in Nat
      BY <1>1, RollupConstants DEF RollupInv, TypeOK
    <3>2. db.cursor \in Videos \union {0}
      BY <1>1 DEF Progress
    <3>3. v \in Nat
      BY <3>1
    <3>4. db.cursor \in Nat
      BY <3>1, <3>2
    <3> QED
      BY <3>1, <3>3, <3>4
  <2>2. CASE v \in batch
    BY <1>4, <2>2
  <2>3. CASE v \notin batch
    <3>1. v <= db.cursor
      BY <1>5, <2>1, <2>3 DEF RollupInv, BatchCovers
    <3> QED
      BY <1>4, <2>1, <2>3, <3>1 DEF RollupInv, PassedRight, Right, ApplyBatch
  <2> QED
    BY <2>2, <2>3
<1> QED
  BY <1>6, <1>7, <1>8, <1>9, <1>10 DEF RollupInv

LEMMA CountMismatchesInv ==
  ASSUME RollupInv, CountMismatches
  PROVE  RollupInv'
<1>1. /\ IsCommand(bf) /\ db \in Progress /\ bf.pc = "count" /\ bf.batch = {} /\ bf.phase \in State
      /\ faults' \in 0..MaxFaults /\ bf.passes \in 1..MaxPasses
  BY CommandType, QuietCommand DEF RollupInv, CountMismatches, IsCommand, TypeOK
<1>2. CASE bf' = [bf EXCEPT !.pc = "mark"] /\ UNCHANGED <<db, pass>>
  <2>1. "mark" \in Phase
    BY DEF Phase
  <2> QED
    BY <1>1, <1>2, <2>1, CommandTurns, QuietStep DEF CountMismatches
<1>3. CASE Failed(bf.phase)
  BY <1>1, <1>3, FailedKeeps, QuietStep DEF CountMismatches
<1>4. CASE /\ bf.passes < MaxPasses /\ SetState("reconciling", TRUE)
           /\ bf' = [bf EXCEPT !.pc = "loop", !.passes = @ + 1]
  <2>1. "loop" \in Phase /\ bf.passes + 1 \in 1..MaxPasses /\ "reconciling" \in State
    BY <1>1, <1>4, RollupConstants DEF Phase, State
  <2>2. IsCommand(bf') /\ bf'.pc = "loop" /\ bf'.batch = {}
    BY <1>1, <1>4, <2>1 DEF IsCommand
  <2> QED
    BY <1>1, <1>4, <2>1, <2>2, SetStateKeeps, QuietStep DEF CountMismatches
<1> QED
  BY <1>2, <1>3, <1>4 DEF CountMismatches

\* To mark the counts ready is to see that those of every video are right.
LEMMA MarkReadyInv ==
  ASSUME RollupInv, MarkReady
  PROVE  RollupInv'
<1>1. /\ IsCommand(bf) /\ db \in Progress /\ bf.batch = {} /\ bf.phase \in State
      /\ faults' \in 0..MaxFaults
  BY CommandType, QuietCommand DEF RollupInv, MarkReady, IsCommand, TypeOK
<1>2. CASE ~Clean
  BY <1>1, <1>2, FailedKeeps, QuietStep DEF MarkReady
<1>3. CASE Clean
  <2>1. /\ db' = Ready /\ bf' = Off /\ old' = {} /\ pass' = pass
        /\ UNCHANGED <<tables, dual, writer, faults>>
    BY <1>3 DEF MarkReady
  <2>2. db' \in Progress /\ db'.cursor = 0
    BY <2>1 DEF Ready, Progress, State
  <2>3. IsCommand(bf') /\ bf'.pc = "off" /\ bf'.batch = {} /\ DOMAIN bf'.counted = {}
    BY <2>1, OffIsCommand, OffType
  <2>4. TypeOK'
    BY <2>1, <2>2, <2>3 DEF RollupInv, TypeOK, tables, IsCommand, Command, Phase, Progress
  <2>5. LocksHeld' /\ BatchCovers' /\ Undiscovered'
    BY <2>1, <2>3 DEF RollupInv, LocksHeld, BatchCovers, Undiscovered, tables
  <2>6. ASSUME NEW v \in Videos PROVE Shown(v) = Stored(comments[v])
    <3>1. CASE v \in present
      <4>1. Stored(comments[v]) \in Counts
        BY StoredType DEF RollupInv, TypeOK
      <4> QED
        BY <1>3, <3>1, <4>1, RollupConstants DEF Clean, Shown, Counts
    <3>2. CASE v \notin present
      BY <3>2, StoredNothing DEF RollupInv, Undiscovered, Shown
    <3> QED
      BY <3>1, <3>2
  <2>7. ShownRight'
    BY <2>1, <2>6 DEF ShownRight, Shown, tables
  <2>8. PassedRight'
    <3>1. \A v \in pass : ~(v <= 0)
      BY RollupConstants DEF RollupInv, TypeOK
    <3> QED
      BY <2>1, <2>2, <3>1 DEF PassedRight
  <2> QED
    BY <2>4, <2>5, <2>7, <2>8 DEF RollupInv
<1> QED
  BY <1>2, <1>3

LEMMA InterruptedInv ==
  ASSUME RollupInv, Stops \/ Raises
  PROVE  RollupInv'
<1>1. /\ IsCommand(bf) /\ db \in Progress /\ bf.phase \in State /\ faults' \in 0..MaxFaults
  BY CommandType, FaultType DEF RollupInv, Stops, Raises, IsCommand
<1>2. CASE Stops
  BY <1>1, <1>2, OffIsCommand, OffType, QuietStep DEF Stops
<1>3. CASE Raises
  BY <1>1, <1>3, FailedKeeps, QuietStep DEF Raises
<1> QED
  BY <1>2, <1>3

------------------------------------------------------------------------------
(***************************************************************************)
(* The collectors.                                                           *)
(***************************************************************************)

LEMMA DiscoverInv ==
  ASSUME RollupInv, NEW v \in Videos, Discover(v)
  PROVE  RollupInv'
<1>1. TypeOK'
  BY DEF RollupInv, TypeOK, Discover, Command
<1> QED
  BY <1>1 DEF RollupInv, Discover, Undiscovered, LocksHeld, BatchCovers, ShownRight, Shown, PassedRight, Right

LEMMA RedeployInv ==
  ASSUME RollupInv, NEW w \in Writers, Redeploy(w)
  PROVE  RollupInv'
<1>1. TypeOK'
  BY DEF RollupInv, TypeOK, Redeploy, Command, tables
<1> QED
  BY <1>1 DEF RollupInv, Redeploy, tables, Undiscovered, LocksHeld, BatchCovers, ShownRight, Shown,
              PassedRight, Right

\* Only the transaction of one collector changes.
LEMMA WriterStep ==
  ASSUME RollupInv, NEW w \in Writers, NEW t \in {Idle} \union Transaction,
         writer' = [writer EXCEPT ![w] = t], UNCHANGED <<tables, dual, db, bf, old, pass, faults>>,
         t # Idle => /\ t.video \in present \ DOMAIN bf.counted
                     /\ t.known = comments[t.video]
                     /\ \A u \in Writers : writer[u] # Idle => writer[u].video # t.video
  PROVE  RollupInv'
<1>1. writer' \in [Writers -> {Idle} \union Transaction] /\ writer'[w] = t
      /\ \A u \in Writers \ {w} : writer'[u] = writer[u]
  BY DEF RollupInv, TypeOK
<1>2. TypeOK'
  BY <1>1 DEF RollupInv, TypeOK, tables, Command
<1>3. LocksHeld'
  BY <1>1 DEF RollupInv, LocksHeld, tables
<1> QED
  BY <1>2, <1>3 DEF RollupInv, tables, Undiscovered, BatchCovers, ShownRight, Shown, PassedRight, Right

LEMMA PageBeginsInv ==
  ASSUME RollupInv, NEW w \in Writers, NEW v \in Videos, NEW page \in Page, PageBegins(w, v, page)
  PROVE  RollupInv'
<1> DEFINE t == [video |-> v, page |-> page, known |-> comments[v]]
<1>1. t \in Transaction
  BY DEF Transaction, RollupInv, TypeOK
<1>2. v \in present /\ v \notin DOMAIN bf.counted /\ \A u \in Writers : writer[u].video # v
  BY DEF PageBegins, Locked
<1> QED
  BY <1>1, <1>2, WriterStep DEF PageBegins

LEMMA PageAbortsInv ==
  ASSUME RollupInv, NEW w \in Writers, PageAborts(w)
  PROVE  RollupInv'
  BY WriterStep DEF PageAborts

LEMMA PageCommitsInv ==
  ASSUME RollupInv, NEW w \in Writers, PageCommits(w)
  PROVE  RollupInv'
<1>1. PICK v \in Videos : v = writer[w].video
  BY TransactionType DEF PageCommits, RollupInv
<1>2. /\ writer[w] # Idle /\ v \in present
      /\ comments' \in [Videos -> [Comments -> Kind]]
      /\ rollup' \in [Videos -> Counts \union {None}]
      /\ \A u \in Videos \ {v} : /\ comments'[u] = comments[u] /\ rollup'[u] = rollup[u]
                                 /\ u \in old' <=> u \in old
      /\ old' \subseteq Videos
      /\ Right(v) => Right(v)' \/ v \in old'
      /\ v \in old => Right(v)' \/ v \in old'
      /\ v \in old' \/ Shown(v)' = Stored(comments[v])'
  BY <1>1, Committed
<1>3. /\ writer' \in [Writers -> {Idle} \union Transaction] /\ writer'[w] = Idle
      /\ \A u \in Writers \ {w} : writer'[u] = writer[u]
      /\ UNCHANGED <<present, dual, db, bf, pass, faults>>
  BY DEF PageCommits, RollupInv, TypeOK
<1>4. TypeOK'
  BY <1>2, <1>3 DEF RollupInv, TypeOK, Command
<1>5. Undiscovered' /\ BatchCovers'
  BY <1>2, <1>3 DEF RollupInv, Undiscovered, BatchCovers
<1>6. LocksHeld'
  <2>1. v \notin DOMAIN bf.counted /\ DOMAIN bf.counted \subseteq Videos
        /\ \A u \in Writers \ {w} : writer[u] # Idle => writer[u].video \in Videos \ {v}
    <3>1. v \notin DOMAIN bf.counted
      BY <1>1, <1>2 DEF RollupInv, LocksHeld
    <3>2. DOMAIN bf.counted \subseteq Videos
      BY CommandType DEF RollupInv, IsCommand
    <3>3. ASSUME NEW u \in Writers \ {w}, writer[u] # Idle PROVE writer[u].video \in Videos \ {v}
      <4>1. writer[u].video # v
        BY <1>1, <1>2, <3>3 DEF RollupInv, LocksHeld
      <4> QED
        BY <3>3, <4>1, TransactionType DEF RollupInv
    <3> QED
      BY <3>1, <3>2, <3>3
  <2>2. \A u \in DOMAIN bf.counted : comments'[u] = comments[u]
    BY <1>2, <2>1
  <2>3. \A u \in Writers \ {w} : writer[u] # Idle => comments'[writer[u].video] = comments[writer[u].video]
    BY <1>2, <2>1
  <2> QED
    BY <1>3, <2>2, <2>3 DEF RollupInv, LocksHeld
<1>7. ShownRight'
  BY <1>2 DEF RollupInv, ShownRight, Shown
<1>8. PassedRight'
  <2> SUFFICES ASSUME NEW u \in pass \ old', u <= db.cursor PROVE Right(u)'
    BY <1>3 DEF PassedRight
  <2>1. u \in Videos
    BY DEF RollupInv, TypeOK
  <2>2. CASE u = v
    <3>1. CASE v \in old
      BY <1>2, <2>2, <3>1
    <3>2. CASE v \notin old
      BY <1>2, <2>2, <3>2 DEF RollupInv, PassedRight
    <3> QED
      BY <3>1, <3>2
  <2>3. CASE u # v
    BY <1>2, <2>1, <2>3 DEF RollupInv, PassedRight, Right
  <2> QED
    BY <2>2, <2>3
<1> QED
  BY <1>4, <1>5, <1>6, <1>7, <1>8 DEF RollupInv

------------------------------------------------------------------------------
(***************************************************************************)
(* The theorems.                                                             *)
(***************************************************************************)

LEMMA InitInv == Init => RollupInv
<1> SUFFICES ASSUME Init PROVE RollupInv
  OBVIOUS
<1>1. IsCommand(bf) /\ bf.pc = "off" /\ bf.batch = {} /\ DOMAIN bf.counted = {}
  BY OffIsCommand, OffType DEF Init
<1>2. db \in Progress
  BY DEF Init, Progress, State
<1>3. TypeOK
  BY <1>1, <1>2, RollupConstants DEF Init, TypeOK, Kind, IsCommand, Command, Phase, Progress
<1>4. LocksHeld /\ BatchCovers /\ Undiscovered /\ PassedRight
  BY <1>1 DEF Init, LocksHeld, BatchCovers, Undiscovered, PassedRight, Idle
<1>5. ShownRight
  <2>1. \A v \in Videos : Stored(comments[v]) = [top |-> 0, reply |-> 0]
    BY StoredNothing DEF Init
  <2> QED
    BY <2>1 DEF Init, ShownRight, Shown
<1> QED
  BY <1>3, <1>4, <1>5 DEF RollupInv

LEMMA StutterInv == RollupInv /\ UNCHANGED vars => RollupInv'
  BY DEF vars, tables, RollupInv, TypeOK, Command, Undiscovered, LocksHeld, BatchCovers, ShownRight, Shown,
         PassedRight, Right

LEMMA NextInv ==
  ASSUME RollupInv, [Next]_vars
  PROVE  RollupInv'
<1>1. ASSUME NEW v \in Videos, Discover(v) \/ CountVideo(v) \/ LockTimesOut(v) PROVE RollupInv'
  BY <1>1, DiscoverInv, CountVideoInv, LockTimesOutInv
<1>2. ASSUME NEW w \in Writers, Redeploy(w) \/ PageCommits(w) \/ PageAborts(w) PROVE RollupInv'
  BY <1>2, RedeployInv, PageCommitsInv, PageAbortsInv
<1>3. ASSUME NEW w \in Writers, NEW v \in Videos, NEW page \in Page, PageBegins(w, v, page)
      PROVE  RollupInv'
  BY <1>3, PageBeginsInv
<1>4. ASSUME NEW d \in BOOLEAN, Start(d) PROVE RollupInv'
  BY <1>4, StartInv
<1>5. CASE Run
  BY <1>5, OpenInv, FetchInv, ApplyBatchInv, CountMismatchesInv, MarkReadyInv DEF Run
<1>6. CASE Stops \/ Raises
  BY <1>6, InterruptedInv
<1>7. CASE UNCHANGED vars
  BY <1>7, StutterInv
<1> QED
  BY <1>1, <1>2, <1>3, <1>4, <1>5, <1>6, <1>7 DEF Next

LEMMA RollupInvariant == Spec => []RollupInv
<1>1. RollupInv /\ [Next]_vars => RollupInv'
  BY NextInv
<1> QED
  BY InitInv, <1>1, PTL DEF Spec

\* Every variable keeps its type: the counts of a video are a pair of numbers or are not
\* there, and the cursor of the backfill is a video or the beginning.
THEOREM RollupTypeCorrect == Spec => []TypeOK
<1>1. RollupInv => TypeOK
  BY DEF RollupInv
<1> QED
  BY <1>1, RollupInvariant, PTL

\* Counts that the backfill has marked ready are those of the stored comments, whatever
\* collectors wrote while it counted, until one that does not keep them stores more.
THEOREM ReadyTrue == Spec => []ReadyIsTrue
<1>1. RollupInv => ReadyIsTrue
  BY DEF RollupInv, TypeOK, ShownRight, ReadyIsTrue
<1> QED
  BY <1>1, RollupInvariant, PTL

\* No video of a pass is left behind by its cursor, whatever stops, crashes, lock
\* timeouts and restarts came in between.
THEOREM PassesCover == Spec => []PassCovers
<1>1. RollupInv => PassCovers
  BY DEF RollupInv, PassedRight, Right, PassCovers
<1> QED
  BY <1>1, RollupInvariant, PTL

\* No step of anyone spoils counts that are right.
LEMMA StepKeepsCounts ==
  ASSUME RollupInv, [Next]_vars, NEW v \in Videos, Right(v)
  PROVE  Right(v)' \/ v \in old'
<1>1. CASE UNCHANGED <<comments, rollup>>
  BY <1>1 DEF Right
<1>2. CASE ApplyBatch
  <2>1. bf.batch \subseteq DOMAIN bf.counted
        /\ \A u \in DOMAIN bf.counted : bf.counted[u] = Stored(comments[u])
    BY <1>2 DEF RollupInv, LocksHeld, ApplyBatch
  <2>2. rollup'[v] = IF v \in bf.batch THEN bf.counted[v] ELSE rollup[v]
    BY <1>2 DEF ApplyBatch
  <2> QED
    BY <1>2, <2>1, <2>2 DEF Right, ApplyBatch
<1>3. ASSUME NEW w \in Writers, PageCommits(w) PROVE Right(v)' \/ v \in old'
  <2>1. PICK u \in Videos : u = writer[w].video
    BY <1>3, TransactionType DEF PageCommits, RollupInv
  <2>2. CASE u = v
    BY <1>3, <2>1, <2>2, Committed
  <2>3. CASE u # v
    BY <1>3, <2>1, <2>3, Committed DEF Right
  <2> QED
    BY <2>2, <2>3
<1>4. Next => \/ UNCHANGED <<comments, rollup>> \/ ApplyBatch
             \/ \E w \in Writers : PageCommits(w)
  BY DEF Next, Run, tables, Discover, CountVideo, LockTimesOut, Redeploy, PageAborts, PageBegins, Start, Open,
         Fetch, CountMismatches, MarkReady, Stops, Raises
<1> QED
  BY <1>1, <1>2, <1>3, <1>4 DEF vars, tables

\* Counts that are right stay right: a batch writes what it has just counted under locks,
\* and a page adds what is new or counts again; neither loses the update of the other.
THEOREM CountsStay == Spec => CountsStayTrue
<1>1. RollupInv /\ [Next]_vars =>
        [\A v \in Videos : rollup[v] = Stored(comments[v]) =>
             rollup'[v] = Stored(comments'[v]) \/ v \in old']_vars
  BY StepKeepsCounts DEF Right
<1> QED
  BY <1>1, RollupInvariant, PTL DEF Spec, CountsStayTrue

==============================================================================
