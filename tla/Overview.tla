------------------------------- MODULE Overview -------------------------------
(***************************************************************************)
(* The overview of a target as the API serves it: the current data version  *)
(* is the key of a Redis entry with a short life, one of the requests that  *)
(* miss it takes a lock and fills it, the others wait a moment and then     *)
(* read the database themselves.  Redis may fail at any call and the        *)
(* request goes on without it; entries and locks expire at any moment, and  *)
(* a server may die in the middle of a request.  Analyses are those of      *)
(* AnalysisPromise; the statements of one overview see separate snapshots.  *)
(***************************************************************************)
EXTENDS AnalysisPromise, Integers, FiniteSets

CONSTANTS
    Readers,   \* requests the API can be serving at a time
    Missing,
    MaxFaults  \* bound on servers that die and calls of Redis that fail

ASSUME OverviewConstants == {MaxVersion, MaxFaults} \subseteq Nat

VARIABLES
    cache,  \* the entry under each data version
    lock,   \* whether the lock of each entry is taken
    rd,     \* the requests of the readers, and the last answers they got
    faults

vars == <<pvars, cache, lock, rd, faults>>

WordsStatus == {"fresh", "building", "stale", "failed"}
Answers == [version: -1..MaxVersion, words: WordsStatus]

\* key: the version read first; got: the answer so far.
Request == [pc: {"idle", "get", "wait", "version", "rest", "store"},
            key: Version, owns: BOOLEAN, got: Answers]

NoAnswer == [version |-> -1, words |-> "building"]
NoRequest == [pc |-> "idle", key |-> 0, owns |-> FALSE, got |-> NoAnswer]

TypeOK ==
    /\ version \in Version /\ ended \in {"none", "completed", "failed"}
    /\ outcome \in [Version -> Outcome]
    /\ \A v \in Version : cache[v] \in Answers \union {Missing}
    /\ lock \in [Version -> BOOLEAN]
    /\ rd \in [Readers -> Request]
    /\ faults \in 0..MaxFaults

Init ==
    /\ PromiseInit
    /\ cache = [v \in Version |-> Missing]
    /\ lock = [v \in Version |-> FALSE]
    /\ rd = [r \in Readers |-> NoRequest]
    /\ faults = 0

Fault == faults < MaxFaults /\ faults' = faults + 1
Step(r, pc) == rd' = [rd EXCEPT ![r].pc = pc]
Key(r) == rd[r].key
Respond(r, answer) == rd' = [rd EXCEPT ![r] = [NoRequest EXCEPT !.got = answer]]

\* Mutation: the key does not carry the data version.
AskUnversioned(r) ==
    /\ rd[r].pc = "idle"
    /\ rd' = [rd EXCEPT ![r].pc = "get", ![r].got = NoAnswer]
    /\ UNCHANGED <<pvars, cache, lock, faults>>

\* get_scope_data_version, in a transaction of its own, and the key made of it.
Ask(r) ==
    /\ rd[r].pc = "idle"
    /\ rd' = [rd EXCEPT ![r].pc = "get", ![r].key = version, ![r].got = NoAnswer]
    /\ UNCHANGED <<pvars, cache, lock, faults>>

\* The request that finds no entry and no lock fills the entry, the others wait.
Miss(r) ==
    /\ lock' = [lock EXCEPT ![Key(r)] = TRUE]
    /\ IF lock[Key(r)]
       THEN Step(r, "wait")
       ELSE rd' = [rd EXCEPT ![r].pc = "version", ![r].owns = TRUE]

\* get_json, and the lock if there is nothing.
Get(r) ==
    /\ rd[r].pc = "get"
    /\ IF cache[Key(r)] = Missing
       THEN Miss(r)
       ELSE Respond(r, cache[Key(r)]) /\ UNCHANGED lock
    /\ UNCHANGED <<pvars, cache, faults>>

\* Four looks in 260 ms, and then the database.
Wait(r) ==
    /\ rd[r].pc = "wait"
    /\ \/ cache[Key(r)] # Missing /\ Respond(r, cache[Key(r)])
       \/ Step(r, "version")
    /\ UNCHANGED <<pvars, cache, lock, faults>>

\* get_source_overview begins with the version.
LoadVersion(r) ==
    /\ rd[r].pc = "version"
    /\ rd' = [rd EXCEPT ![r].pc = "rest", ![r].got = [NoAnswer EXCEPT !.version = version]]
    /\ UNCHANGED <<pvars, cache, lock, faults>>

Summaries == {v \in Version : outcome[v] = "completed"}
NewestSummary ==
    IF Summaries = {} THEN -1 ELSE CHOOSE v \in Summaries : \A u \in Summaries : u <= v

\* topWordsStatus, from the latest terminal job, the newest summary and the version's run.
Words(v) ==
    LET older == IF NewestSummary >= 0 THEN "stale" ELSE "building" IN
    CASE ended = "failed" -> IF NewestSummary >= 0 THEN "stale" ELSE "failed"
      [] ended # "failed" /\ NewestSummary = v -> "fresh"
      [] OTHER -> CASE outcome[v] = "open" -> "building"
                    [] outcome[v] = "failed" -> "failed"
                    [] OTHER -> older

\* The statements after it, which see what has been committed meanwhile; the request that
\* has the lock goes on to fill the entry.
LoadRest(r) ==
    LET answer == [rd[r].got EXCEPT !.words = Words(rd[r].got.version)] IN
    /\ rd[r].pc = "rest"
    /\ IF rd[r].owns
       THEN rd' = [rd EXCEPT ![r].pc = "store", ![r].got = answer]
       ELSE Respond(r, answer)
    /\ UNCHANGED <<pvars, cache, lock, faults>>

\* set_json, and the lock is deleted by its name, whoever holds it by now.
Store(r) ==
    /\ rd[r].pc = "store"
    /\ cache' = [cache EXCEPT ![Key(r)] = rd[r].got]
    /\ lock' = [lock EXCEPT ![Key(r)] = FALSE]
    /\ Respond(r, rd[r].got)
    /\ UNCHANGED <<pvars, faults>>

\* Fail-open: a call to Redis that raises is a miss, a lock not taken, an entry not written
\* or a lock not deleted.
RedisFails(r) ==
    /\ Fault
    /\ \/ rd[r].pc = "get" /\ Miss(r) /\ UNCHANGED cache
       \/ rd[r].pc = "get" /\ Step(r, "wait") /\ UNCHANGED <<cache, lock>>
       \/ rd[r].pc = "store" /\ Respond(r, rd[r].got)
          /\ \/ cache' = [cache EXCEPT ![Key(r)] = rd[r].got] /\ UNCHANGED lock
             \/ lock' = [lock EXCEPT ![Key(r)] = FALSE] /\ UNCHANGED cache
             \/ UNCHANGED <<cache, lock>>
    /\ UNCHANGED pvars

\* The server dies, or the loader raises: the lock it may hold is left to expire.
Dies(r) ==
    /\ rd[r].pc # "idle"
    /\ Fault
    /\ rd' = [rd EXCEPT ![r] = NoRequest]
    /\ UNCHANGED <<pvars, cache, lock>>

\* Mutation: an entry has no time to live.
EntryStays(v) == FALSE /\ UNCHANGED vars

EntryExpires(v) ==
    /\ cache[v] # Missing
    /\ cache' = [cache EXCEPT ![v] = Missing]
    /\ UNCHANGED <<pvars, lock, rd, faults>>

LockExpires(v) ==
    /\ lock[v]
    /\ lock' = [lock EXCEPT ![v] = FALSE]
    /\ UNCHANGED <<pvars, cache, rd, faults>>

Serve(r) ==
    \/ Get(r) \/ Wait(r) \/ LoadVersion(r) \/ LoadRest(r) \/ Store(r)

\* AnalysisPromise without the jobs of other targets, which are like those that complete.
Environment ==
    \/ \E how \in {"completed", "failed"} : End(TRUE, how)
    \/ Order
    \/ \E v \in Version, s \in {"completed", "failed"} : Settle(v, s)

Next ==
    \/ Environment /\ UNCHANGED <<cache, lock, rd, faults>>
    \/ \E r \in Readers : Ask(r) \/ Serve(r) \/ RedisFails(r) \/ Dies(r)
    \/ \E v \in Version : EntryExpires(v) \/ LockExpires(v)

Spec == Init /\ [][Next]_vars

\* The API serves what it is asked, its users come back, and entries expire; that locks do
\* is not needed.
Fairness ==
    /\ \A r \in Readers : WF_vars(Ask(r) \/ Serve(r))
    /\ \A v \in Version : WF_vars(EntryExpires(v))

FairSpec == Spec /\ Fairness

------------------------------------------------------------------------------
\* An answer, cached or not, is no older than what was current when it was asked for.
Reads == INSTANCE FreshReads WITH
    since <- [r \in Readers |-> rd[r].key],
    shown <- [r \in Readers |-> IF rd[r].pc = "idle" THEN rd[r].got.version ELSE -1]

ReadsAreFresh == Reads!Spec

\* The end of an analysis makes no new version, so that the entry of the version goes on
\* saying "building", and a reader that dies keeps the lock of the entry: every reader that
\* comes back learns of the end all the same.
EndOfAnalysisIsShown ==
    \A v \in Version, r \in Readers :
        (version = v /\ outcome[v] \in {"completed", "failed"})
            ~> \/ version # v
               \/ rd[r].pc = "idle" /\ rd[r].got.version = v /\ rd[r].got.words # "building"

==============================================================================
