------------------------------ MODULE Promotion ------------------------------
(***************************************************************************)
(* The targets of one channel.  A channel is asked for by its id, by its    *)
(* handle or by another name; a name nobody used before makes a provisional *)
(* target with a source and a job of its own.  The job resolves the name    *)
(* and promotes its target: it becomes the canonical one or, when there is  *)
(* one already, its subscriptions, requests, jobs and videos move there.    *)
(*                                                                          *)
(* Rows are called by the number of the request that made them.  Submission *)
(* and terminal transition hold the lock of their target from first to last *)
(* and are one step each; a promotion is two, since a canonical target that *)
(* does not exist yet cannot be locked.  What a job does once it is through *)
(* its discovery is JobLease's and ChannelFanout's.                         *)
(***************************************************************************)
EXTENDS Integers, Sequences, FiniteSets

CONSTANTS
    Users,
    Names,        \* what the channel is called in submissions
    Canonical,    \* its id
    Handle,       \* its handle, which the API tells of it
    KeysOf,       \* the idempotency keys of a user's submissions, NoKey among them or not
    NoKey,
    Videos,
    MaxRequests,  \* bound on requests
    MaxJobs,      \* bound on jobs
    MaxFailures   \* bound on failed and paused runs

ASSUME PromotionConstants ==
    /\ {Canonical, Handle} \subseteq Names /\ Canonical # Handle
    /\ NoKey \notin Names
    /\ DOMAIN KeysOf = Users
    /\ {MaxRequests, MaxJobs, MaxFailures} \subseteq Nat

VARIABLES
    key,       \* canonical_key of a target, NoKey of one that does not exist
    alias,     \* the target a name leads to, or 0
    known,     \* the channel and its handle are stored
    covered,   \* the targets whose coverage is complete
    source,    \* the target a source belongs to, 0 for a source that does not exist
    members,   \* collection_target_videos
    subs,      \* collection_subscriptions
    requests,  \* collection_requests
    jobs,      \* sync_jobs, but for those of videos
    failures

vars == <<key, alias, known, covered, source, members, subs, requests, jobs, failures>>

Row == 1..MaxRequests
Targets == {t \in Row : key[t] # NoKey}
Jobs == DOMAIN jobs

Active(j) == jobs[j].state \notin {"completed", "failed"}
ActiveOf(t) == {j \in Jobs : jobs[j].target = t /\ Active(j)}
Pending(t) == {r \in DOMAIN requests : /\ requests[r].target = t /\ requests[r].job = 0
                                       /\ requests[r].state = "queued"}
SourcesOf(t) == {s \in Row : source[s] = t}

\* The rows a promotion holds while it looks for the canonical target.
Locked == UNION {{jobs[j].from, jobs[j].to} : j \in Jobs}

NewJob(s, t) == [source |-> s, target |-> t, state |-> "queued", from |-> 0, to |-> 0]

Init ==
    /\ key = [t \in Row |-> NoKey] /\ alias = [n \in Names |-> 0] /\ known = FALSE
    /\ covered = {} /\ source = [s \in Row |-> 0] /\ members = [t \in Row |-> {}]
    /\ subs = {} /\ requests = <<>> /\ jobs = <<>> /\ failures = 0

------------------------------------------------------------------------------
(* Submissions. *)

\* A handle that was resolved before leads to the channel without an alias.
KeyOf(n) == IF n = Handle /\ known THEN Canonical ELSE n

TargetOf(n) ==
    IF alias[n] # 0 THEN alias[n]
    ELSE IF \E t \in Targets : key[t] = KeyOf(n)
           THEN CHOOSE t \in Targets : key[t] = KeyOf(n)
           ELSE Len(requests) + 1

Replayed(u, t, k) ==
    k # NoKey /\ \E r \in DOMAIN requests :
                    /\ requests[r].user = u /\ requests[r].target = t /\ requests[r].key = k

\* wider: the coverage of the target is not what the request asks for.
Submit(u, n, k, wider) ==
    LET new == Len(requests) + 1
        t == TargetOf(n)
        mine == {s \in subs : s.user = u /\ s.target = t}
        sub == IF mine = {} THEN [id |-> new, user |-> u, target |-> t]
                            ELSE CHOOSE s \in mine : TRUE
        sources == IF SourcesOf(t) = {} THEN {new} ELSE SourcesOf(t)
        active == ActiveOf(t)
        ask(job, state) ==
            requests' = Append(requests, [user |-> u, name |-> n, key |-> k, target |-> t,
                                          sub |-> sub.id, job |-> job, state |-> state])
    IN /\ new \in Row
       /\ t \notin Locked
       /\ ~Replayed(u, t, k)
       /\ key' = [key EXCEPT ![t] = IF @ = NoKey THEN KeyOf(n) ELSE @]
       /\ alias' = [alias EXCEPT ![n] = IF @ = 0 THEN t ELSE @]
       /\ source' = IF SourcesOf(t) = {} THEN [source EXCEPT ![new] = t] ELSE source
       /\ subs' = subs \cup {sub}
       /\ \/ /\ t \in covered /\ ~wider
             /\ ask(0, "completed") /\ UNCHANGED jobs
          \/ /\ t \notin covered \/ wider
             /\ \/ /\ active = {} /\ Len(jobs) < MaxJobs
                   /\ \E s \in sources : jobs' = Append(jobs, NewJob(s, t))
                   /\ ask(Len(jobs) + 1, "queued")
                \/ \E j \in active :
                      /\ ask(IF jobs[j].state = "queued" THEN j ELSE 0, "queued")
                      /\ UNCHANGED jobs
       /\ UNCHANGED <<known, covered, members, failures>>

\* dispatch_due_pins, at a time when the pin of the target is due.
Dispatch(t) ==
    /\ t \in Targets \ Locked
    /\ \E s \in subs : s.target = t
    /\ ActiveOf(t) = {} /\ Len(jobs) < MaxJobs
    /\ \E s \in SourcesOf(t) : jobs' = Append(jobs, NewJob(s, t))
    /\ UNCHANGED <<key, alias, known, covered, source, members, subs, requests, failures>>

------------------------------------------------------------------------------
(* Jobs. *)

Claim(j) ==
    /\ jobs[j].state = "queued"
    /\ jobs' = [jobs EXCEPT ![j].state = "running"]
    /\ UNCHANGED <<key, alias, known, covered, source, members, subs, requests, failures>>

\* _resolve_channel stores the channel; the promotion locks the job's target and the
\* canonical one, when there is one.
LookUp(j) ==
    LET from == source[jobs[j].source]
        canonical == {t \in Targets : key[t] = Canonical}
    IN /\ jobs[j].state = "running"
       /\ from # 0
       /\ ({from} \cup canonical) \cap Locked = {}
       /\ known' = TRUE
       /\ jobs' = [jobs EXCEPT ![j] =
                     [@ EXCEPT !.state = "promoting", !.from = from,
                               !.to = IF canonical = {} THEN from ELSE CHOOSE t \in canonical : TRUE]]
       /\ UNCHANGED <<key, alias, covered, source, members, subs, requests, failures>>

\* What becomes of the references to a target that is merged into another one.

\* Mutation: the jobs of the merged target are detached whether the canonical one has a
\* job or not.
DetachedAlways(from, to) ==
    [j \in Jobs |->
        IF jobs[j].target # from THEN jobs[j]
        ELSE [jobs[j] EXCEPT !.target = IF Active(j) THEN 0 ELSE to]]

\* Mutation: all jobs are moved.
MovedWhole(from, to) ==
    [j \in Jobs |-> IF jobs[j].target # from THEN jobs[j] ELSE [jobs[j] EXCEPT !.target = to]]

\* A target has one active job: when the canonical one has it, that of the other is left
\* without a target.
MovedJobs(from, to) ==
    [j \in Jobs |->
        IF jobs[j].target # from THEN jobs[j]
        ELSE [jobs[j] EXCEPT !.target = IF Active(j) /\ ActiveOf(to) # {} THEN 0 ELSE to]]

SubOf(u, t) == {s \in subs : s.user = u /\ s.target = t}

\* Mutation: the subscription of a user who has both is deleted before its requests
\* refer to the other one.
MovedRequestsUnmapped(from, to) ==
    [r \in DOMAIN requests |->
        IF requests[r].target # from THEN requests[r]
        ELSE [requests[r] EXCEPT
                !.target = to,
                !.sub = IF SubOf(requests[r].user, to) = {} THEN @ ELSE 0,
                !.key = IF Replayed(requests[r].user, to, @) THEN NoKey ELSE @]]

MovedRequests(from, to) ==
    [r \in DOMAIN requests |->
        IF requests[r].target # from THEN requests[r]
        ELSE [requests[r] EXCEPT
                !.target = to,
                !.sub = IF SubOf(requests[r].user, to) = {} THEN @
                        ELSE (CHOOSE s \in SubOf(requests[r].user, to) : TRUE).id,
                !.key = IF Replayed(requests[r].user, to, @) THEN NoKey ELSE @]]

MovedMembers(from, to) == [members EXCEPT ![to] = @ \cup members[from], ![from] = {}]

\* Mutation: every user of the merged target is taken to have the other one, too.
MovedSubsDeleted(from, to) == {s \in subs : s.target # from}

MovedSubs(from, to) ==
    {s \in subs : s.target # from}
        \cup {[s EXCEPT !.target = to] : s \in {x \in subs : /\ x.target = from
                                                              /\ SubOf(x.user, to) = {}}}

\* The names of the channel that the API tells lead to its target, the others of a
\* merged target are deleted with it.
Renamed(from, to) ==
    [n \in Names |-> IF n \in {Canonical, Handle} THEN to
                     ELSE IF alias[n] = from /\ from # to THEN 0 ELSE alias[n]]

Through(j) == [jobs[j] EXCEPT !.state = "collecting", !.from = 0, !.to = 0]

Merge(j, from, to) ==
    /\ from # to
    /\ key' = [key EXCEPT ![from] = NoKey]
    /\ covered' = covered \ {from}
    /\ source' = [s \in Row |-> IF source[s] = from THEN to ELSE source[s]]
    /\ members' = MovedMembers(from, to)
    /\ subs' = MovedSubs(from, to)
    /\ requests' = MovedRequests(from, to)
    /\ jobs' = [MovedJobs(from, to) EXCEPT
                  ![j] = [Through(j) EXCEPT !.target = MovedJobs(from, to)[j].target]]

\* A canonical target made since the look-up lets the promotion, and the job, fail.
Rename(j, t) ==
    LET taken == \E x \in Targets \ {t} : key[x] = Canonical IN
    /\ jobs[j].from = jobs[j].to
    /\ key' = IF taken THEN key ELSE [key EXCEPT ![t] = Canonical]
    /\ jobs' = [jobs EXCEPT ![j] = [Through(j) EXCEPT !.state = IF taken THEN "refused" ELSE @]]
    /\ UNCHANGED <<covered, source, members, subs, requests>>

Promote(j) ==
    LET from == jobs[j].from
        to == jobs[j].to
    IN /\ jobs[j].state = "promoting"
       /\ Merge(j, from, to) \/ Rename(j, from)
       /\ alias' = IF jobs'[j].state = "refused" THEN alias ELSE Renamed(from, to)
       /\ UNCHANGED <<known, failures>>

\* A job links what it finds to the target its source belongs to by then.
Link(j, v) ==
    LET t == source[jobs[j].source] IN
    /\ jobs[j].state = "collecting"
    /\ t # 0 /\ t \notin Locked
    /\ members' = [members EXCEPT ![t] = @ \cup {v}]
    /\ UNCHANGED <<key, alias, known, covered, source, subs, requests, jobs, failures>>

\* A paused job resolves its channel again.
Pause(j) ==
    /\ jobs[j].state \in {"running", "collecting"}
    /\ failures < MaxFailures /\ failures' = failures + 1
    /\ jobs' = [jobs EXCEPT ![j].state = "running"]
    /\ UNCHANGED <<key, alias, known, covered, source, members, subs, requests>>

\* The terminal transition: the requests of the job end, those that wait for the next
\* job of its target get one.
End(j, state) ==
    LET t == jobs[j].target
        waiting == IF t = 0 THEN {} ELSE Pending(t)
    IN /\ t \notin Locked \ {0}
       /\ covered' = IF state = "completed" /\ t # 0 THEN covered \cup {t} ELSE covered
       /\ IF waiting # {} /\ SourcesOf(t) # {}
            THEN \E s \in SourcesOf(t) :
                    jobs' = Append([jobs EXCEPT ![j].state = state], NewJob(s, t))
            ELSE jobs' = [jobs EXCEPT ![j].state = state]
       /\ requests' = [r \in DOMAIN requests |->
                         IF requests[r].job = j THEN [requests[r] EXCEPT !.state = state]
                         ELSE IF r \in waiting /\ Len(jobs') > Len(jobs)
                                THEN [requests[r] EXCEPT !.job = Len(jobs')]
                                ELSE requests[r]]
       /\ UNCHANGED <<key, alias, known, source, members, subs>>

Complete(j) == jobs[j].state = "collecting" /\ End(j, "completed") /\ UNCHANGED failures

Fail(j) ==
    /\ \/ jobs[j].state = "refused" /\ UNCHANGED failures
       \/ /\ jobs[j].state \in {"running", "collecting"}
          /\ failures < MaxFailures /\ failures' = failures + 1
    /\ End(j, "failed")

------------------------------------------------------------------------------
Submitting ==
    \E u \in Users, n \in Names, wider \in BOOLEAN : \E k \in KeysOf[u] : Submit(u, n, k, wider)
Dispatching == \E t \in Row : Dispatch(t)
Working(j) == Claim(j) \/ LookUp(j) \/ Promote(j) \/ Complete(j) \/ Fail(j)
Linking == \E j \in Jobs, v \in Videos : Link(j, v)
Pausing == \E j \in Jobs : Pause(j)

Next == Submitting \/ Dispatching \/ (\E j \in Jobs : Working(j)) \/ Linking \/ Pausing

Spec == Init /\ [][Next]_vars

\* Workers poll, and nothing holds a job up for ever.
FairSpec == Spec /\ \A j \in 1..MaxJobs + MaxRequests : WF_vars(j \in Jobs /\ Working(j))

------------------------------------------------------------------------------
(* Properties. *)

TypeOK ==
    /\ key \in [Row -> Names \cup {NoKey}]
    /\ \A t \in Targets, x \in Targets : key[t] = key[x] => t = x
    /\ alias \in [Names -> Targets \cup {0}] /\ known \in BOOLEAN
    /\ covered \subseteq Targets
    /\ source \in [Row -> Targets \cup {0}]
    /\ members \in [Row -> SUBSET Videos]
    /\ subs \subseteq [id: Row, user: Users, target: Targets]
    /\ requests \in Seq([user: Users, name: Names, key: (UNION {KeysOf[u] : u \in Users}) \cup {NoKey},
                         target: Targets, sub: Row \cup {0}, job: Jobs \cup {0},
                         state: {"queued", "completed", "failed"}])
    /\ jobs \in Seq([source: Row, target: Targets \cup {0},
                     state: {"queued", "running", "promoting", "refused", "collecting",
                             "completed", "failed"},
                     from: Targets \cup {0}, to: Targets \cup {0}])
    /\ failures \in 0..MaxFailures

\* Whatever is merged into what, a request refers to the subscription its own user has
\* to its target, a user has one subscription to a target, and no two requests of a
\* user and a target answer to the same retry.
RequestsKeepTheirOwner ==
    /\ \A r \in DOMAIN requests :
          \E s \in subs : /\ s.id = requests[r].sub
                          /\ s.user = requests[r].user /\ s.target = requests[r].target
    /\ \A s \in subs, x \in subs : (s.user = x.user /\ s.target = x.target) \/ s.id = x.id => s = x
    /\ \A r \in DOMAIN requests, x \in DOMAIN requests :
          /\ requests[r].key = requests[x].key /\ requests[r].key # NoKey
          /\ requests[r].user = requests[x].user /\ requests[r].target = requests[x].target
          => r = x

\* A target has one active job at most, and has it as long as a request waits for the
\* next one: a job that is moved or left without its target leaves no request behind.
WaitingHaveAJob ==
    \A t \in Targets : /\ Cardinality(ActiveOf(t)) <= 1
                       /\ Pending(t) # {} => ActiveOf(t) # {}

Sees(u) == UNION {members[s.target] : s \in {x \in subs : x.user = u}}

\* No promotion takes a video from a user, nor a subscription that does not become the
\* one the user has to the same target already; nor are two users' mixed up.
NothingIsLost ==
    [][/\ \A u \in Users : Sees(u) \subseteq Sees(u)'
       /\ \A s \in subs : \E x \in subs' :
             /\ x.user = s.user
             /\ x.id = s.id \/ (x.target # s.target /\ \E y \in subs : y.id = x.id /\ y.target = x.target)
      ]_vars

\* Every request ends, whichever target and job it is moved to.
EveryRequestEnds ==
    \A r \in Row : r \in DOMAIN requests ~> r \in DOMAIN requests /\ requests[r].state # "queued"

\* A name that led to the channel goes on leading to it (the comments of discovery.py:51
\* and postgres_jobs.py:547).
NamesKeepLeading ==
    \A r \in DOMAIN requests : LET t == requests[r].target IN
        key[t] = Canonical => alias[requests[r].name] = t
==============================================================================
