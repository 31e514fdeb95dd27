--------------------------- MODULE Promotion_proofs ---------------------------
(***************************************************************************)
(* Proofs about Promotion, for any users, names, requests and jobs: type     *)
(* correctness, that requests keep their owners, that whoever waits has a     *)
(* job, and that no promotion takes anything from a user.                     *)
(***************************************************************************)
EXTENDS Promotion, SequenceTheorems, FiniteSetTheorems, TLAPS

------------------------------------------------------------------------------
(* Rows, as they are whatever rows they refer to. *)

Keys == (UNION {KeysOf[u] : u \in Users}) \cup {NoKey}
RequestState == {"queued", "completed", "failed"}
JobState == {"queued", "running", "promoting", "refused", "collecting", "completed", "failed"}

SubRow == [id: Row, user: Users, target: Row]
RequestRow == [user: Users, name: Names, key: Keys, target: Row, sub: Row \cup {0}, job: Nat,
               state: RequestState]
JobRow == [source: Row, target: Row \cup {0}, state: JobState, from: Row \cup {0}, to: Row \cup {0}]

LEMMA RowType == /\ 0 \notin Row /\ MaxRequests \in Nat /\ MaxFailures \in Nat
                 /\ \A n \in Row : n \in Nat /\ n > 0
  BY PromotionConstants DEF Row

\* A sequence rewritten row by row.
LEMMA Remapped ==
  ASSUME NEW S, NEW s, NEW T, s \in Seq(S), NEW f, DOMAIN f = DOMAIN s,
         f = [i \in DOMAIN s |-> f[i]], \A i \in DOMAIN s : f[i] \in T
  PROVE  f \in Seq(T) /\ Len(f) = Len(s)
<1>1. Len(s) \in Nat /\ DOMAIN s = 1..Len(s)
  BY LenProperties
<1>2. f \in [1..Len(s) -> T]
  BY <1>1
<1> QED
  BY <1>1, <1>2

LEMMA Grown ==
  ASSUME NEW S, NEW s \in Seq(S), NEW row \in S
  PROVE  /\ Append(s, row) \in Seq(S)
         /\ Len(s) \in Nat /\ DOMAIN s = 1..Len(s)
         /\ Len(Append(s, row)) = Len(s) + 1
         /\ DOMAIN Append(s, row) = DOMAIN s \cup {Len(s) + 1}
         /\ \A i \in DOMAIN s : Append(s, row)[i] = s[i] /\ i # Len(s) + 1
         /\ Append(s, row)[Len(s) + 1] = row
<1>1. /\ Append(s, row) \in Seq(S) /\ Len(Append(s, row)) = Len(s) + 1
      /\ Len(s) \in Nat /\ DOMAIN s = 1..Len(s) /\ DOMAIN Append(s, row) = 1..(Len(s) + 1)
      /\ \A i \in 1..Len(s) : Append(s, row)[i] = s[i]
      /\ Append(s, row)[Len(s) + 1] = row
  OBVIOUS
<1>2. 1..(Len(s) + 1) = 1..Len(s) \cup {Len(s) + 1} /\ \A i \in 1..Len(s) : i # Len(s) + 1
  BY <1>1
<1> QED
  BY <1>1, <1>2

------------------------------------------------------------------------------
(***************************************************************************)
(* The inductive invariant.                                                  *)
(***************************************************************************)

\* A target has a canonical key of its own, and the number of a request that was made.
KeysOK ==
  /\ key \in [Row -> Names \cup {NoKey}]
  /\ \A t \in Targets, x \in Targets : key[t] = key[x] => t = x
  /\ \A t \in Targets : t <= Len(requests)

\* A target has a source at any time, which the job after the next terminal transition needs.
SourcesOK ==
  /\ source \in [Row -> Targets \cup {0}]
  /\ \A s \in Row : source[s] # 0 => s <= Len(requests)
  /\ \A t \in Targets : SourcesOf(t) # {}

NamesOK ==
  /\ alias \in [Names -> Targets \cup {0}] /\ known \in BOOLEAN
  /\ covered \subseteq Targets /\ members \in [Row -> SUBSET Videos]
  /\ failures \in 0..MaxFailures

SubsOK ==
  /\ subs \subseteq SubRow
  /\ \A s \in subs : s.target \in Targets /\ s.id <= Len(requests)

RequestsOK ==
  /\ requests \in Seq(RequestRow)
  /\ \A r \in DOMAIN requests : requests[r].target \in Targets /\ requests[r].job \in Jobs \cup {0}

\* Promotions under way hold targets that exist, each its own.
JobsOK ==
  /\ jobs \in Seq(JobRow)
  /\ \A j \in Jobs :
       /\ jobs[j].target \in Targets \cup {0}
       /\ IF jobs[j].state = "promoting"
            THEN {jobs[j].from, jobs[j].to} \subseteq Targets
            ELSE jobs[j].from = 0 /\ jobs[j].to = 0
  /\ \A j, k \in Jobs :
       j # k /\ jobs[j].state = "promoting" /\ jobs[k].state = "promoting" =>
         {jobs[j].from, jobs[j].to} \cap {jobs[k].from, jobs[k].to} = {}

\* WaitingHaveAJob without counting.
OneOrWaiting ==
  \A t \in Targets : /\ \A j, k \in ActiveOf(t) : j = k
                     /\ Pending(t) # {} => ActiveOf(t) # {}

Inv ==
  /\ KeysOK /\ SourcesOK /\ NamesOK /\ SubsOK /\ RequestsOK /\ JobsOK
  /\ RequestsKeepTheirOwner /\ OneOrWaiting

LEMMA TargetsAre == Targets \subseteq Row /\ 0 \notin Targets
  BY RowType DEF Targets

LEMMA RequestIs ==
  ASSUME RequestsOK, NEW r \in DOMAIN requests
  PROVE  requests[r] \in RequestRow /\ Len(requests) \in Nat /\ DOMAIN requests = 1..Len(requests)
  BY LenProperties DEF RequestsOK

LEMMA JobIs ==
  ASSUME JobsOK
  PROVE  /\ Len(jobs) \in Nat /\ Jobs = 1..Len(jobs) /\ DOMAIN jobs = Jobs /\ 0 \notin Jobs
         /\ \A j \in Jobs : jobs[j] \in JobRow
  BY LenProperties DEF JobsOK, Jobs

LEMMA RequestsLength == RequestsOK => Len(requests) \in Nat /\ DOMAIN requests = 1..Len(requests)
  BY LenProperties DEF RequestsOK

LEMMA InvMeansTypes == Inv => TypeOK
<1> SUFFICES ASSUME Inv PROVE TypeOK
  OBVIOUS
<1>1. subs \subseteq [id: Row, user: Users, target: Targets]
  BY DEF Inv, SubsOK, SubRow
<1>2. requests \in Seq([user: Users, name: Names, key: (UNION {KeysOf[u] : u \in Users}) \cup {NoKey},
                        target: Targets, sub: Row \cup {0}, job: Jobs \cup {0},
                        state: {"queued", "completed", "failed"}])
  <2> DEFINE T == [user: Users, name: Names, key: (UNION {KeysOf[u] : u \in Users}) \cup {NoKey},
                   target: Targets, sub: Row \cup {0}, job: Jobs \cup {0},
                   state: {"queued", "completed", "failed"}]
  <2>1. ASSUME NEW r \in DOMAIN requests PROVE requests[r] \in T
    BY <2>1, RequestIs DEF Inv, RequestsOK, RequestRow, Keys, RequestState
  <2>2. requests = [r \in DOMAIN requests |-> requests[r]]
    BY DEF Inv, RequestsOK
  <2> HIDE DEF T
  <2>3. requests \in Seq(T)
    BY <2>1, <2>2, Remapped DEF Inv, RequestsOK
  <2> QED
    BY <2>3 DEF T
<1>3. jobs \in Seq([source: Row, target: Targets \cup {0},
                    state: {"queued", "running", "promoting", "refused", "collecting",
                            "completed", "failed"},
                    from: Targets \cup {0}, to: Targets \cup {0}])
  <2> DEFINE T == [source: Row, target: Targets \cup {0},
                   state: {"queued", "running", "promoting", "refused", "collecting",
                           "completed", "failed"},
                   from: Targets \cup {0}, to: Targets \cup {0}]
  <2>1. ASSUME NEW j \in DOMAIN jobs PROVE jobs[j] \in T
    <3>1. jobs[j] \in JobRow
      BY JobIs DEF Inv, Jobs
    <3>2. {jobs[j].target, jobs[j].from, jobs[j].to} \subseteq Targets \cup {0}
      BY DEF Inv, JobsOK, Jobs
    <3> QED
      BY <3>1, <3>2 DEF JobRow, JobState
  <2>2. jobs = [j \in DOMAIN jobs |-> jobs[j]]
    BY DEF Inv, JobsOK
  <2> HIDE DEF T
  <2>3. jobs \in Seq(T)
    BY <2>1, <2>2, Remapped DEF Inv, JobsOK
  <2> QED
    BY <2>3 DEF T
<1> QED
  BY <1>1, <1>2, <1>3 DEF Inv, TypeOK, KeysOK, SourcesOK, NamesOK

LEMMA InvMeansWaiting == Inv => WaitingHaveAJob
<1> SUFFICES ASSUME Inv, NEW t \in Targets PROVE Cardinality(ActiveOf(t)) <= 1
  BY DEF Inv, OneOrWaiting, WaitingHaveAJob
<1>1. CASE ActiveOf(t) = {}
  BY <1>1, FS_EmptySet
<1>2. CASE ActiveOf(t) # {}
  <2>1. PICK a \in ActiveOf(t) : TRUE
    BY <1>2
  <2>2. ActiveOf(t) = {a}
    BY <2>1 DEF Inv, OneOrWaiting
  <2>3. Cardinality({a}) = 1
    BY FS_Singleton
  <2>4. Cardinality(ActiveOf(t)) = 1
    BY <2>2, <2>3
  <2> QED
    BY <2>4
<1> QED
  BY <1>1, <1>2

LEMMA InitInv == Init => Inv
<1> SUFFICES ASSUME Init PROVE Inv
  OBVIOUS
<1>1. Targets = {}
  BY DEF Init, Targets
<1>2. requests = <<>> /\ jobs = <<>> /\ Len(requests) = 0 /\ DOMAIN requests = {} /\ Jobs = {}
  BY DEF Init, Jobs
<1>3. KeysOK /\ SourcesOK /\ SubsOK
  BY <1>1 DEF Init, KeysOK, SourcesOK, SubsOK
<1>4. NamesOK
  <2>1. 0 \in 0..MaxFailures
    BY RowType
  <2> QED
    BY <1>1, <2>1 DEF Init, NamesOK
<1>5. requests \in Seq(RequestRow) /\ jobs \in Seq(JobRow)
  BY <1>2
<1>6. RequestsOK /\ JobsOK
  BY <1>2, <1>5 DEF RequestsOK, JobsOK
<1>7. RequestsKeepTheirOwner /\ OneOrWaiting
  BY <1>1, <1>2 DEF Init, RequestsKeepTheirOwner, OneOrWaiting
<1> QED
  BY <1>3, <1>4, <1>6, <1>7 DEF Inv

------------------------------------------------------------------------------
(***************************************************************************)
(* Steps of a job that leave it active and change no other table's rows.     *)
(***************************************************************************)

\* What a job becomes while it is active.
Turned(j, row) ==
  /\ row \in JobRow
  /\ row.source = jobs[j].source /\ row.target = jobs[j].target
  /\ jobs[j].state \notin {"completed", "failed"} /\ row.state \notin {"completed", "failed"}
  /\ jobs' = [jobs EXCEPT ![j] = row]
  /\ requests' = requests

LEMMA TurnedRows ==
  ASSUME JobsOK, NEW j \in Jobs, NEW row, Turned(j, row)
  PROVE  /\ jobs' \in Seq(JobRow) /\ Jobs' = Jobs
         /\ jobs'[j] = row /\ \A k \in Jobs : k # j => jobs'[k] = jobs[k]
         /\ \A t : ActiveOf(t)' = ActiveOf(t) /\ Pending(t)' = Pending(t)
<1>1. /\ jobs' \in Seq(JobRow) /\ Jobs' = Jobs
      /\ jobs'[j] = row /\ \A k \in Jobs : k # j => jobs'[k] = jobs[k]
  <2>1. jobs \in Seq(JobRow) /\ j \in 1..Len(jobs) /\ row \in JobRow /\ jobs' = [jobs EXCEPT ![j] = row]
    BY JobIs DEF JobsOK, Turned
  <2> QED
    BY <2>1, ExceptSeq, JobIs DEF Jobs
<1>2. ASSUME NEW t PROVE ActiveOf(t)' = ActiveOf(t)
  BY <1>1 DEF ActiveOf, Active, Turned
<1>3. ASSUME NEW t PROVE Pending(t)' = Pending(t)
  BY DEF Pending, Turned
<1> QED
  BY <1>1, <1>2, <1>3

\* The job holds what its promotion needs and nobody else does.
Holding(j, row) ==
  IF row.state = "promoting"
    THEN /\ {row.from, row.to} \subseteq Targets
         /\ \A k \in Jobs : k # j /\ jobs[k].state = "promoting" =>
              {row.from, row.to} \cap {jobs[k].from, jobs[k].to} = {}
    ELSE row.from = 0 /\ row.to = 0

LEMMA TurnedJobs ==
  ASSUME JobsOK, NEW j \in Jobs, NEW row, Turned(j, row), Holding(j, row), Targets' = Targets
  PROVE  JobsOK'
<1>1. /\ jobs' \in Seq(JobRow) /\ Jobs' = Jobs
      /\ jobs'[j] = row /\ \A k \in Jobs : k # j => jobs'[k] = jobs[k]
  BY TurnedRows
<1>2. ASSUME NEW k \in Jobs
      PROVE  /\ jobs'[k].target \in Targets \cup {0}
             /\ IF jobs'[k].state = "promoting"
                  THEN {jobs'[k].from, jobs'[k].to} \subseteq Targets
                  ELSE jobs'[k].from = 0 /\ jobs'[k].to = 0
  BY <1>1 DEF JobsOK, Turned, Holding
<1>3. ASSUME NEW k \in Jobs, NEW l \in Jobs, k # l,
             jobs'[k].state = "promoting", jobs'[l].state = "promoting"
      PROVE  {jobs'[k].from, jobs'[k].to} \cap {jobs'[l].from, jobs'[l].to} = {}
  <2>1. CASE k = j
    BY <1>1, <1>3, <2>1 DEF Holding
  <2>2. CASE l = j
    BY <1>1, <1>3, <2>2 DEF Holding
  <2>3. CASE k # j /\ l # j
    BY <1>1, <1>3, <2>3 DEF JobsOK
  <2> QED
    BY <2>1, <2>2, <2>3
<1> QED
  BY <1>1, <1>2, <1>3 DEF JobsOK

LEMMA TurnInv ==
  ASSUME Inv, NEW j \in Jobs, NEW row, Turned(j, row), Holding(j, row),
         UNCHANGED <<key, alias, covered, source, members, subs>>,
         known' \in BOOLEAN, failures' \in 0..MaxFailures
  PROVE  Inv'
<1>1. Targets' = Targets
  BY DEF Targets
<1>2. JobsOK' /\ Jobs' = Jobs /\ requests' = requests
      /\ \A t : ActiveOf(t)' = ActiveOf(t) /\ Pending(t)' = Pending(t)
  BY <1>1, TurnedJobs, TurnedRows DEF Inv, Turned
<1>3. KeysOK' /\ NamesOK' /\ SubsOK' /\ RequestsOK'
  BY <1>1, <1>2 DEF Inv, KeysOK, NamesOK, SubsOK, RequestsOK
<1>4. SourcesOK'
  BY <1>1, <1>2 DEF Inv, SourcesOK, SourcesOf
<1>5. RequestsKeepTheirOwner' /\ OneOrWaiting'
  BY <1>1, <1>2 DEF Inv, RequestsKeepTheirOwner, OneOrWaiting
<1> QED
  BY <1>2, <1>3, <1>4, <1>5 DEF Inv

LEMMA ClaimInv ==
  ASSUME Inv, NEW j \in Jobs, Claim(j)
  PROVE  Inv'
<1> DEFINE row == [jobs[j] EXCEPT !.state = "running"]
<1>1. jobs[j] \in JobRow /\ jobs[j].state = "queued" /\ jobs[j].from = 0 /\ jobs[j].to = 0
  BY JobIs DEF Inv, JobsOK, Claim
<1>2. row \in JobRow /\ row.state = "running" /\ row.source = jobs[j].source
      /\ row.target = jobs[j].target /\ row.from = 0 /\ row.to = 0
  BY <1>1 DEF JobRow, JobState
<1>3. Turned(j, row) /\ Holding(j, row)
  BY <1>1, <1>2 DEF Claim, Turned, Holding
<1> QED
  BY <1>3, TurnInv DEF Claim, Inv, NamesOK

LEMMA PauseInv ==
  ASSUME Inv, NEW j \in Jobs, Pause(j)
  PROVE  Inv'
<1> DEFINE row == [jobs[j] EXCEPT !.state = "running"]
<1>1. jobs[j] \in JobRow /\ jobs[j].state \in {"running", "collecting"} /\ jobs[j].from = 0 /\ jobs[j].to = 0
  BY JobIs DEF Inv, JobsOK, Pause
<1>2. row \in JobRow /\ row.state = "running" /\ row.source = jobs[j].source
      /\ row.target = jobs[j].target /\ row.from = 0 /\ row.to = 0
  BY <1>1 DEF JobRow, JobState
<1>3. Turned(j, row) /\ Holding(j, row)
  BY <1>1, <1>2 DEF Pause, Turned, Holding
<1>4. failures' \in 0..MaxFailures
  BY RowType DEF Pause, Inv, NamesOK
<1> QED
  BY <1>3, <1>4, TurnInv DEF Pause, Inv, NamesOK

LEMMA LookUpInv ==
  ASSUME Inv, NEW j \in Jobs, LookUp(j)
  PROVE  Inv'
<1> DEFINE from == source[jobs[j].source]
           canonical == {t \in Targets : key[t] = Canonical}
           to == IF canonical = {} THEN from ELSE CHOOSE t \in canonical : TRUE
           row == [jobs[j] EXCEPT !.state = "promoting", !.from = from, !.to = to]
<1>1. jobs[j] \in JobRow /\ jobs[j].state = "running"
  BY JobIs DEF Inv, LookUp
<1>2. from \in Targets /\ to \in Targets /\ {from, to} \subseteq {from} \cup canonical
  BY <1>1 DEF Inv, SourcesOK, LookUp, JobRow
<1>3. row \in JobRow /\ row.state = "promoting" /\ row.source = jobs[j].source
      /\ row.target = jobs[j].target /\ row.from = from /\ row.to = to
  BY <1>1, <1>2, TargetsAre DEF JobRow, JobState
<1>4. \A k \in Jobs : {from, to} \cap {jobs[k].from, jobs[k].to} = {}
  BY <1>2 DEF LookUp, Locked
<1>5. Turned(j, row) /\ Holding(j, row)
  BY <1>1, <1>2, <1>3, <1>4 DEF LookUp, Turned, Holding
<1> QED
  BY <1>5, TurnInv DEF LookUp, Inv, NamesOK

LEMMA LinkInv ==
  ASSUME Inv, NEW j \in Jobs, NEW v \in Videos, Link(j, v)
  PROVE  Inv'
<1> DEFINE t == source[jobs[j].source]
<1>1. t \in Targets
  BY JobIs DEF Inv, SourcesOK, Link, JobRow
<1>2. members' = [members EXCEPT ![t] = @ \cup {v}] /\ UNCHANGED <<key, alias, known, covered, source, subs, requests, jobs, failures>>
  BY DEF Link
<1>3. members' \in [Row -> SUBSET Videos]
  BY <1>1, <1>2, TargetsAre DEF Inv, NamesOK
<1>4. Targets' = Targets /\ Jobs' = Jobs
  BY <1>2 DEF Targets, Jobs
<1>5. KeysOK' /\ SubsOK' /\ RequestsOK' /\ JobsOK' /\ NamesOK'
  BY <1>2, <1>3, <1>4 DEF Inv, KeysOK, NamesOK, SubsOK, RequestsOK, JobsOK
<1>6. SourcesOK'
  BY <1>2, <1>4 DEF Inv, SourcesOK, SourcesOf
<1>7. RequestsKeepTheirOwner' /\ OneOrWaiting'
  BY <1>2, <1>4 DEF Inv, RequestsKeepTheirOwner, OneOrWaiting, ActiveOf, Active, Pending
<1> QED
  BY <1>5, <1>6, <1>7 DEF Inv

------------------------------------------------------------------------------
(***************************************************************************)
(* New jobs.                                                                 *)
(***************************************************************************)

LEMMA NewJobType ==
  ASSUME NEW s \in Row, NEW t \in Row
  PROVE  /\ NewJob(s, t) \in JobRow
         /\ NewJob(s, t).source = s /\ NewJob(s, t).target = t /\ NewJob(s, t).state = "queued"
         /\ NewJob(s, t).from = 0 /\ NewJob(s, t).to = 0
  BY DEF NewJob, JobRow, JobState

\* A job for a target is the active job of that target, and no other target gets one.
LEMMA JobAdded ==
  ASSUME JobsOK, NEW s \in Row, NEW t \in Row, jobs' = Append(jobs, NewJob(s, t)),
         t \in Targets', Targets \subseteq Targets'
  PROVE  /\ JobsOK' /\ Len(jobs) + 1 \in Nat /\ Jobs' = Jobs \cup {Len(jobs) + 1}
         /\ ActiveOf(t)' = ActiveOf(t) \cup {Len(jobs) + 1}
         /\ \A x : x # t => ActiveOf(x)' = ActiveOf(x)
<1> DEFINE row == NewJob(s, t)
           n == Len(jobs) + 1
<1>1. /\ row \in JobRow /\ row.target = t /\ row.state = "queued" /\ row.from = 0 /\ row.to = 0
  BY NewJobType
<1>2. /\ jobs' \in Seq(JobRow) /\ Jobs' = Jobs \cup {n} /\ n \notin Jobs /\ n \in Nat
      /\ jobs'[n] = row /\ \A k \in Jobs : jobs'[k] = jobs[k]
  BY <1>1, Grown DEF JobsOK, Jobs
<1> HIDE DEF row, n
<1>3. ASSUME NEW k \in Jobs'
      PROVE  /\ jobs'[k].target \in Targets' \cup {0}
             /\ IF jobs'[k].state = "promoting"
                  THEN {jobs'[k].from, jobs'[k].to} \subseteq Targets'
                  ELSE jobs'[k].from = 0 /\ jobs'[k].to = 0
  <2>1. CASE k = n
    BY <1>1, <1>2, <2>1
  <2>2. CASE k \in Jobs
    BY <1>2, <2>2 DEF JobsOK
  <2> QED
    BY <1>2, <2>1, <2>2
<1>4. \A k \in Jobs' : jobs'[k].state = "promoting" => k \in Jobs /\ jobs'[k] = jobs[k]
  BY <1>1, <1>2
<1>5. JobsOK'
  <2>1. ASSUME NEW k \in Jobs', NEW l \in Jobs', k # l,
               jobs'[k].state = "promoting", jobs'[l].state = "promoting"
        PROVE  {jobs'[k].from, jobs'[k].to} \cap {jobs'[l].from, jobs'[l].to} = {}
    <3>1. k \in Jobs /\ l \in Jobs /\ jobs'[k] = jobs[k] /\ jobs'[l] = jobs[l]
      BY <1>4, <2>1
    <3> QED
      BY <2>1, <3>1 DEF JobsOK
  <2> QED
    BY <1>2, <1>3, <2>1 DEF JobsOK
<1>6. ActiveOf(t)' = ActiveOf(t) \cup {n}
  BY <1>1, <1>2 DEF ActiveOf, Active
<1>7. ASSUME NEW x, x # t PROVE ActiveOf(x)' = ActiveOf(x)
  BY <1>1, <1>2, <1>7 DEF ActiveOf, Active
<1> QED
  BY <1>2, <1>5, <1>6, <1>7 DEF n

LEMMA DispatchInv ==
  ASSUME Inv, NEW t \in Row, Dispatch(t)
  PROVE  Inv'
<1>1. PICK s \in SourcesOf(t) : jobs' = Append(jobs, NewJob(s, t))
  BY DEF Dispatch
<1>2. t \in Targets /\ s \in Row /\ ActiveOf(t) = {}
      /\ UNCHANGED <<key, alias, known, covered, source, members, subs, requests, failures>>
  BY DEF Dispatch, SourcesOf
<1>3. Targets' = Targets /\ \A x : Pending(x)' = Pending(x)
  BY <1>2 DEF Targets, Pending
<1>4. /\ JobsOK' /\ Jobs' = Jobs \cup {Len(jobs) + 1} /\ ActiveOf(t)' = {Len(jobs) + 1}
      /\ \A x : x # t => ActiveOf(x)' = ActiveOf(x)
  BY <1>1, <1>2, <1>3, JobAdded DEF Inv
<1>5. KeysOK' /\ NamesOK' /\ SubsOK' /\ RequestsOK'
  BY <1>2, <1>3, <1>4 DEF Inv, KeysOK, NamesOK, SubsOK, RequestsOK
<1>6. SourcesOK'
  BY <1>2, <1>3 DEF Inv, SourcesOK, SourcesOf
<1>7. RequestsKeepTheirOwner'
  BY <1>2 DEF Inv, RequestsKeepTheirOwner
<1>8. OneOrWaiting'
  BY <1>2, <1>3, <1>4 DEF Inv, OneOrWaiting
<1> QED
  BY <1>4, <1>5, <1>6, <1>7, <1>8 DEF Inv

------------------------------------------------------------------------------
(***************************************************************************)
(* Submissions.                                                              *)
(***************************************************************************)

NewRequest == Len(requests) + 1

\* What a submission writes: the request, with the subscription it refers to and the job
\* and state it is given.
Submitted(u, n, k, t, sub, job, state) ==
  /\ NewRequest \in Row /\ ~Replayed(u, t, k)
  /\ key' = [key EXCEPT ![t] = IF @ = NoKey THEN KeyOf(n) ELSE @]
  /\ alias' = [alias EXCEPT ![n] = IF @ = 0 THEN t ELSE @]
  /\ source' = IF SourcesOf(t) = {} THEN [source EXCEPT ![NewRequest] = t] ELSE source
  /\ subs' = subs \cup {sub}
  /\ sub \in SubRow /\ sub.user = u /\ sub.target = t
  /\ sub \in subs \/ (SubOf(u, t) = {} /\ sub.id = NewRequest)
  /\ requests' = Append(requests, [user |-> u, name |-> n, key |-> k, target |-> t, sub |-> sub.id,
                                   job |-> job, state |-> state])
  /\ \/ state = "completed" /\ job = 0 /\ jobs' = jobs
     \/ /\ state = "queued" /\ ActiveOf(t) = {} /\ job = Len(jobs) + 1
        /\ \E s \in Row : jobs' = Append(jobs, NewJob(s, t))
     \/ /\ state = "queued" /\ ActiveOf(t) # {} /\ job \in ActiveOf(t) \cup {0}
        /\ jobs' = jobs
  /\ UNCHANGED <<known, covered, members, failures>>

\* The target a name leads to exists, or is made with a key no target has.
LEMMA SubmitTarget ==
  ASSUME Inv, NEW n \in Names, NewRequest \in Row, NEW t, t = TargetOf(n)
  PROVE  /\ t \in Row /\ KeyOf(n) \in Names /\ KeyOf(n) # NoKey
         /\ \/ t \in Targets
            \/ t = NewRequest /\ t \notin Targets /\ \A x \in Targets : key[x] # KeyOf(n)
<1>1. KeyOf(n) \in Names /\ KeyOf(n) # NoKey
  BY PromotionConstants DEF KeyOf
<1>2. alias[n] \in Targets \cup {0}
  BY DEF Inv, NamesOK
<1>3. NewRequest \notin Targets
  BY RequestsLength DEF Inv, KeysOK, NewRequest
<1>4. CASE alias[n] # 0
  BY <1>1, <1>2, <1>4, TargetsAre DEF TargetOf
<1>5. CASE alias[n] = 0 /\ \E x \in Targets : key[x] = KeyOf(n)
  BY <1>1, <1>5, TargetsAre DEF TargetOf
<1>6. CASE alias[n] = 0 /\ ~\E x \in Targets : key[x] = KeyOf(n)
  BY <1>1, <1>3, <1>6 DEF TargetOf, NewRequest
<1> QED
  BY <1>4, <1>5, <1>6

LEMMA SubmitFacts ==
  ASSUME Inv, NEW u \in Users, NEW n \in Names, NEW k \in KeysOf[u], NEW wider \in BOOLEAN,
         Submit(u, n, k, wider), NEW t, t = TargetOf(n)
  PROVE  NewRequest \in Row /\ \E sub, job, state : Submitted(u, n, k, t, sub, job, state)
<1> DEFINE mine == {s \in subs : s.user = u /\ s.target = t}
           sub == IF mine = {} THEN [id |-> NewRequest, user |-> u, target |-> t]
                               ELSE CHOOSE s \in mine : TRUE
           sources == IF SourcesOf(t) = {} THEN {NewRequest} ELSE SourcesOf(t)
           ask(job, state) == requests' = Append(requests, [user |-> u, name |-> n, key |-> k, target |-> t,
                                                            sub |-> sub.id, job |-> job, state |-> state])
<1>1. /\ NewRequest \in Row /\ ~Replayed(u, t, k)
      /\ key' = [key EXCEPT ![t] = IF @ = NoKey THEN KeyOf(n) ELSE @]
      /\ alias' = [alias EXCEPT ![n] = IF @ = 0 THEN t ELSE @]
      /\ source' = IF SourcesOf(t) = {} THEN [source EXCEPT ![NewRequest] = t] ELSE source
      /\ subs' = subs \cup {sub}
      /\ UNCHANGED <<known, covered, members, failures>>
  BY DEF Submit, NewRequest
<1>2. t \in Row
  BY <1>1, SubmitTarget
<1>3. mine = SubOf(u, t)
  BY DEF SubOf
<1>4. /\ sub \in SubRow /\ sub.user = u /\ sub.target = t
      /\ sub \in subs \/ (SubOf(u, t) = {} /\ sub.id = NewRequest)
  <2>1. CASE mine = {}
    BY <1>1, <1>2, <1>3, <2>1 DEF SubRow
  <2>2. CASE mine # {}
    <3>1. sub \in mine
      BY <2>2
    <3> QED
      BY <3>1 DEF Inv, SubsOK
  <2> QED
    BY <2>1, <2>2
<1>5. sources \subseteq Row
  BY <1>1 DEF SourcesOf
<1>6. \/ ask(0, "completed") /\ jobs' = jobs
      \/ /\ ActiveOf(t) = {} /\ \E s \in sources : jobs' = Append(jobs, NewJob(s, t))
         /\ ask(Len(jobs) + 1, "queued")
      \/ \E j \in ActiveOf(t) : ask(IF jobs[j].state = "queued" THEN j ELSE 0, "queued") /\ jobs' = jobs
  BY DEF Submit, NewRequest
<1> HIDE DEF sub, mine, sources
<1>7. CASE ask(0, "completed") /\ jobs' = jobs
  <2>1. Submitted(u, n, k, t, sub, 0, "completed")
    BY <1>1, <1>4, <1>7 DEF Submitted
  <2> QED
    BY <1>1, <2>1
<1>8. CASE /\ ActiveOf(t) = {} /\ \E s \in sources : jobs' = Append(jobs, NewJob(s, t))
           /\ ask(Len(jobs) + 1, "queued")
  <2>1. Submitted(u, n, k, t, sub, Len(jobs) + 1, "queued")
    BY <1>1, <1>4, <1>5, <1>8 DEF Submitted
  <2> QED
    BY <1>1, <2>1
<1>9. ASSUME NEW j \in ActiveOf(t), ask(IF jobs[j].state = "queued" THEN j ELSE 0, "queued"), jobs' = jobs
      PROVE  \E job : Submitted(u, n, k, t, sub, job, "queued")
  <2>1. CASE jobs[j].state = "queued"
    <3>1. Submitted(u, n, k, t, sub, j, "queued")
      BY <1>1, <1>4, <1>9, <2>1 DEF Submitted
    <3> QED
      BY <3>1
  <2>2. CASE jobs[j].state # "queued"
    <3>1. Submitted(u, n, k, t, sub, 0, "queued")
      BY <1>1, <1>4, <1>9, <2>2 DEF Submitted
    <3> QED
      BY <3>1
  <2> QED
    BY <2>1, <2>2
<1> QED
  BY <1>1, <1>6, <1>7, <1>8, <1>9

LEMMA SubmittedInv ==
  ASSUME Inv, NEW u \in Users, NEW n \in Names, NEW k \in KeysOf[u], NEW t, t = TargetOf(n),
         NEW sub, NEW job, NEW state, Submitted(u, n, k, t, sub, job, state)
  PROVE  Inv'
<1> DEFINE new == NewRequest
           row == [user |-> u, name |-> n, key |-> k, target |-> t, sub |-> sub.id, job |-> job, state |-> state]
<1>1. /\ new \in Row /\ t \in Row /\ KeyOf(n) \in Names /\ KeyOf(n) # NoKey
      /\ \/ t \in Targets
         \/ t = new /\ t \notin Targets /\ \A x \in Targets : key[x] # KeyOf(n)
  BY SubmitTarget DEF Submitted
<1>2. /\ sub \in SubRow /\ sub.user = u /\ sub.target = t /\ subs' = subs \cup {sub}
      /\ sub \in subs \/ (SubOf(u, t) = {} /\ sub.id = new)
      /\ UNCHANGED <<known, covered, members, failures>>
  BY DEF Submitted
<1>3. Len(requests) \in Nat /\ new = Len(requests) + 1 /\ DOMAIN requests = 1..Len(requests)
  BY RequestsLength DEF Inv, NewRequest
<1>4. Targets' = Targets \cup {t}
      /\ key' \in [Row -> Names \cup {NoKey}] /\ (\A x \in Row : x # t => key'[x] = key[x])
      /\ key'[t] = IF t \in Targets THEN key[t] ELSE KeyOf(n)
  <2>1. key' = [key EXCEPT ![t] = IF @ = NoKey THEN KeyOf(n) ELSE @] /\ key \in [Row -> Names \cup {NoKey}]
    BY DEF Submitted, Inv, KeysOK
  <2>2. key' \in [Row -> Names \cup {NoKey}] /\ (\A x \in Row : x # t => key'[x] = key[x])
        /\ key'[t] = IF t \in Targets THEN key[t] ELSE KeyOf(n)
    BY <1>1, <2>1 DEF Targets
  <2> QED
    BY <1>1, <2>2 DEF Targets
<1>5. \A i, l \in ActiveOf(t) : i = l
  <2>1. CASE t \in Targets
    BY <2>1 DEF Inv, OneOrWaiting
  <2>2. CASE t \notin Targets
    <3>1. ActiveOf(t) = {}
      BY <1>1, <2>2, RowType DEF Inv, JobsOK, ActiveOf
    <3> QED
      BY <3>1
  <2> QED
    BY <2>1, <2>2
<1>6. /\ job \in Jobs' \cup {0} /\ job \in Nat /\ state \in RequestState /\ Jobs \subseteq Jobs' /\ JobsOK'
      /\ \A x : x # t => ActiveOf(x)' = ActiveOf(x)
      /\ \A i, l \in ActiveOf(t)' : i = l
      /\ state = "queued" \/ ActiveOf(t) # {} => ActiveOf(t)' # {}
  <2>1. CASE /\ jobs' = jobs /\ job \in ActiveOf(t) \cup {0} /\ state \in RequestState
             /\ state = "queued" => ActiveOf(t) # {}
    <3>1. Jobs' = Jobs /\ \A x : ActiveOf(x)' = ActiveOf(x)
      BY <2>1 DEF Jobs, ActiveOf, Active
    <3>2. JobsOK'
      BY <1>4, <2>1, <3>1 DEF Inv, JobsOK
    <3>3. job \in Jobs \cup {0} /\ job \in Nat
      BY <2>1, JobIs DEF ActiveOf, Inv
    <3> QED
      BY <1>5, <2>1, <3>1, <3>2, <3>3
  <2>2. ASSUME NEW s \in Row, jobs' = Append(jobs, NewJob(s, t)), job = Len(jobs) + 1, state = "queued",
               ActiveOf(t) = {}
        PROVE  /\ JobsOK' /\ Jobs' = Jobs \cup {job} /\ job \in Nat
               /\ ActiveOf(t)' = {job}
               /\ \A x : x # t => ActiveOf(x)' = ActiveOf(x)
    BY <1>1, <1>4, <2>2, JobAdded DEF Inv
  <2>3. CASE /\ state = "queued" /\ ActiveOf(t) = {} /\ job = Len(jobs) + 1
             /\ \E s \in Row : jobs' = Append(jobs, NewJob(s, t))
    BY <2>2, <2>3 DEF RequestState
  <2> QED
    BY <2>1, <2>3 DEF Submitted, RequestState
<1>7. /\ requests' \in Seq(RequestRow) /\ Len(requests') = new
      /\ DOMAIN requests' = DOMAIN requests \cup {new}
      /\ \A r \in DOMAIN requests : requests'[r] = requests[r] /\ r # new
      /\ requests'[new] = row
  <2>1. row \in RequestRow
    BY <1>1, <1>2, <1>6 DEF RequestRow, SubRow, Keys
  <2>2. requests' = Append(requests, row)
    BY DEF Submitted
  <2> QED
    BY <1>3, <2>1, <2>2, Grown DEF Inv, RequestsOK
<1> HIDE DEF new, row
<1>8. /\ row.user = u /\ row.key = k /\ row.target = t /\ row.sub = sub.id /\ row.job = job
      /\ row.state = state
  BY DEF row
<1>9. KeysOK'
  <2>1. \A x \in Targets : x <= Len(requests) /\ x \in Nat
    BY TargetsAre, RowType DEF Inv, KeysOK
  <2>2. \A x \in Targets' : x <= Len(requests')
    BY <1>1, <1>3, <1>4, <1>7, <2>1
  <2>3. \A x \in Targets', y \in Targets' : key'[x] = key'[y] => x = y
    BY <1>1, <1>4, TargetsAre DEF Inv, KeysOK
  <2> QED
    BY <1>4, <2>2, <2>3 DEF KeysOK
<1>10. SourcesOK'
  <2>1. new \in Row /\ source[new] = 0
    BY <1>1, <1>3 DEF Inv, SourcesOK
  <2>2. source' = IF SourcesOf(t) = {} THEN [source EXCEPT ![new] = t] ELSE source
    BY DEF Submitted, new
  <2>3. /\ source' \in [Row -> Targets' \cup {0}]
        /\ \A s \in Row : s # new => source'[s] = source[s]
        /\ SourcesOf(t) = {} => source'[new] = t
    BY <1>4, <2>1, <2>2 DEF Inv, SourcesOK
  <2>4. \A s \in Row : source'[s] # 0 => s <= Len(requests')
    BY <1>3, <1>7, <2>1, <2>3, RowType DEF Inv, SourcesOK
  <2>5. ASSUME NEW x \in Targets' PROVE SourcesOf(x)' # {}
    <3>1. CASE SourcesOf(x) # {}
      <4>1. PICK s \in SourcesOf(x) : TRUE
        BY <3>1
      <4>2. s \in Row /\ source[s] = x /\ x # 0
        BY <1>1, <1>4, <4>1, TargetsAre, RowType DEF SourcesOf
      <4> QED
        BY <2>1, <2>3, <4>2 DEF SourcesOf
    <3>2. CASE SourcesOf(x) = {}
      <4>1. x = t
        BY <1>4, <3>2 DEF Inv, SourcesOK
      <4> QED
        BY <2>1, <2>3, <3>2, <4>1 DEF SourcesOf
    <3> QED
      BY <3>1, <3>2
  <2> QED
    BY <2>3, <2>4, <2>5 DEF SourcesOK
<1>11. NamesOK'
  <2>1. alias' \in [Names -> Targets' \cup {0}]
    BY <1>4 DEF Inv, NamesOK, Submitted
  <2> QED
    BY <1>2, <1>4, <2>1 DEF Inv, NamesOK
<1>12. SubsOK'
  <2>1. \A s \in subs : s.id \in Nat
    BY RowType DEF Inv, SubsOK, SubRow
  <2>2. sub.id <= Len(requests')
    BY <1>2, <1>3, <1>7, <2>1 DEF Inv, SubsOK
  <2> QED
    BY <1>2, <1>3, <1>4, <1>7, <2>1, <2>2 DEF Inv, SubsOK
<1>13. RequestsOK'
  BY <1>4, <1>6, <1>7, <1>8 DEF Inv, RequestsOK
<1>14. RequestsKeepTheirOwner'
  <2>1. ASSUME NEW r \in DOMAIN requests'
        PROVE  \E s \in subs' : /\ s.id = requests'[r].sub
                                /\ s.user = requests'[r].user /\ s.target = requests'[r].target
    <3>1. CASE r = new
      BY <1>2, <1>7, <1>8, <3>1
    <3>2. CASE r # new
      BY <1>2, <1>7, <3>2 DEF Inv, RequestsKeepTheirOwner
    <3> QED
      BY <3>1, <3>2
  <2>2. \A s \in subs', x \in subs' : (s.user = x.user /\ s.target = x.target) \/ s.id = x.id => s = x
    <3>1. \A s \in subs : s.id # new
      BY <1>3, RowType DEF Inv, SubsOK, SubRow
    <3>2. CASE sub \in subs
      BY <1>2, <3>2 DEF Inv, RequestsKeepTheirOwner
    <3>3. CASE SubOf(u, t) = {} /\ sub.id = new
      BY <1>2, <3>1, <3>3 DEF Inv, RequestsKeepTheirOwner, SubOf
    <3> QED
      BY <1>2, <3>2, <3>3 DEF new
  <2>3. ASSUME NEW r \in DOMAIN requests', NEW x \in DOMAIN requests',
               requests'[r].key = requests'[x].key, requests'[r].key # NoKey,
               requests'[r].user = requests'[x].user, requests'[r].target = requests'[x].target
        PROVE  r = x
    <3>1. \A q \in DOMAIN requests : ~(requests[q].user = u /\ requests[q].target = t /\ requests[q].key = k)
          \/ k = NoKey
      BY DEF Submitted, Replayed
    <3>2. CASE r # new /\ x # new
      BY <1>7, <2>3, <3>2 DEF Inv, RequestsKeepTheirOwner
    <3>3. CASE r = new \/ x = new
      BY <1>7, <1>8, <2>3, <3>1, <3>3
    <3> QED
      BY <3>2, <3>3
  <2> QED
    BY <2>1, <2>2, <2>3 DEF RequestsKeepTheirOwner
<1>15. OneOrWaiting'
  <2>1. ASSUME NEW x, x # t PROVE Pending(x)' = Pending(x)
    BY <1>7, <1>8, <2>1 DEF Pending
  <2>2. Pending(t)' # {} => ActiveOf(t)' # {}
    <3>1. ASSUME NEW r \in Pending(t)' PROVE state = "queued" \/ Pending(t) # {}
      BY <1>7, <1>8 DEF Pending
    <3>2. Pending(t) # {} => t \in Targets
      BY DEF Inv, RequestsOK, Pending
    <3> QED
      BY <1>6, <3>1, <3>2 DEF Inv, OneOrWaiting
  <2>3. ASSUME NEW x \in Targets'
        PROVE  (\A i, l \in ActiveOf(x)' : i = l) /\ (Pending(x)' # {} => ActiveOf(x)' # {})
    <3>1. CASE x = t
      BY <1>6, <2>2, <3>1
    <3>2. CASE x # t
      BY <1>4, <1>6, <2>1, <3>2 DEF Inv, OneOrWaiting
    <3> QED
      BY <3>1, <3>2
  <2> QED
    BY <2>3 DEF OneOrWaiting
<1> QED
  BY <1>6, <1>9, <1>10, <1>11, <1>12, <1>13, <1>14, <1>15 DEF Inv

LEMMA SubmitInv ==
  ASSUME Inv, NEW u \in Users, NEW n \in Names, NEW k \in KeysOf[u], NEW wider \in BOOLEAN,
         Submit(u, n, k, wider)
  PROVE  Inv'
<1>1. PICK sub, job, state : Submitted(u, n, k, TargetOf(n), sub, job, state)
  BY SubmitFacts
<1> QED
  BY <1>1, SubmittedInv

------------------------------------------------------------------------------
(***************************************************************************)
(* Promotions.                                                               *)
(***************************************************************************)

LEMMA PromotingJob ==
  ASSUME Inv, NEW j \in Jobs, jobs[j].state = "promoting"
  PROVE  /\ jobs[j] \in JobRow /\ jobs[j].from \in Targets /\ jobs[j].to \in Targets
         /\ Through(j) \in JobRow /\ Through(j).state = "collecting"
         /\ Through(j).source = jobs[j].source /\ Through(j).target = jobs[j].target
         /\ Through(j).from = 0 /\ Through(j).to = 0
<1>1. jobs[j] \in JobRow /\ jobs[j].from \in Targets /\ jobs[j].to \in Targets
  BY JobIs DEF Inv, JobsOK
<1> QED
  BY <1>1 DEF Through, JobRow, JobState

LEMMA CanonicalName == Canonical \in Names /\ Handle \in Names /\ Canonical # NoKey
  BY PromotionConstants

\* The names of the channel lead to a target that is still there, and no name to one that is not.
LEMMA RenamedType ==
  ASSUME Inv, NEW from \in Targets, NEW to \in Targets
  PROVE  Renamed(from, to) \in [Names -> (Targets \ ({from} \ {to})) \cup {0}]
  BY DEF Renamed, Inv, NamesOK

LEMMA RenameInv ==
  ASSUME Inv, NEW j \in Jobs, Promote(j), Rename(j, jobs[j].from)
  PROVE  Inv'
<1> DEFINE t == jobs[j].from
           taken == \E x \in Targets \ {t} : key[x] = Canonical
           row == [Through(j) EXCEPT !.state = IF taken THEN "refused" ELSE @]
<1>1. jobs[j].state = "promoting" /\ jobs[j].to = t
  BY DEF Promote, Rename
<1>2. t \in Targets /\ t \in Row
  BY <1>1, PromotingJob, TargetsAre
<1>3. /\ row \in JobRow /\ row.source = jobs[j].source /\ row.target = jobs[j].target
      /\ row.state = (IF taken THEN "refused" ELSE "collecting") /\ row.from = 0 /\ row.to = 0
  BY <1>1, PromotingJob DEF JobRow, JobState
<1>4. jobs' = [jobs EXCEPT ![j] = row] /\ UNCHANGED <<covered, source, members, subs, requests, known, failures>>
  BY DEF Rename, Promote
<1> HIDE DEF row
<1>5. Turned(j, row) /\ Holding(j, row)
  BY <1>1, <1>3, <1>4 DEF Turned, Holding
<1>6. jobs'[j] = row
  BY <1>5, TurnedRows DEF Inv
<1>7. CASE taken
  <2>1. UNCHANGED <<key, alias>>
    BY <1>3, <1>6, <1>7 DEF Rename, Promote
  <2> QED
    BY <1>4, <1>5, <2>1, TurnInv DEF Inv, NamesOK
<1>8. CASE ~taken
  <2>1. key' = [key EXCEPT ![t] = Canonical] /\ alias' = Renamed(t, t)
    <3>1. key' = [key EXCEPT ![t] = Canonical]
      BY <1>8 DEF Rename
    <3>2. jobs'[j].state # "refused"
      BY <1>3, <1>6, <1>8
    <3> QED
      BY <1>1, <3>1, <3>2 DEF Promote
  <2>2. /\ key' \in [Row -> Names \cup {NoKey}] /\ key'[t] = Canonical
        /\ \A x \in Row : x # t => key'[x] = key[x]
    BY <1>2, <2>1, CanonicalName DEF Inv, KeysOK
  <2>3. Targets' = Targets
    BY <1>2, <2>2, CanonicalName DEF Targets
  <2>4. \A x \in Targets, y \in Targets : key'[x] = key'[y] => x = y
    BY <1>8, <2>2, TargetsAre DEF Inv, KeysOK
  <2>5. JobsOK' /\ Jobs' = Jobs /\ \A x : ActiveOf(x)' = ActiveOf(x) /\ Pending(x)' = Pending(x)
    BY <1>5, <2>3, TurnedJobs, TurnedRows DEF Inv
  <2>6. KeysOK' /\ SubsOK' /\ RequestsOK'
    BY <1>4, <2>2, <2>3, <2>4, <2>5 DEF Inv, KeysOK, SubsOK, RequestsOK
  <2>7. SourcesOK'
    BY <1>4, <2>3 DEF Inv, SourcesOK, SourcesOf
  <2>8. NamesOK'
    <3>1. alias' \in [Names -> Targets \cup {0}]
      BY <1>2, <2>1, RenamedType
    <3> QED
      BY <1>4, <2>3, <3>1 DEF Inv, NamesOK
  <2>9. RequestsKeepTheirOwner' /\ OneOrWaiting'
    BY <1>4, <2>3, <2>5 DEF Inv, RequestsKeepTheirOwner, OneOrWaiting
  <2> QED
    BY <2>5, <2>6, <2>7, <2>8, <2>9 DEF Inv
<1> QED
  BY <1>7, <1>8

LEMMA NoKeyIsKey == NoKey \in Keys
  BY DEF Keys

\* A request that is moved keeps all but the target, the subscription it refers to, and
\* the key when another one answers to it there.
LEMMA MovedRequest ==
  ASSUME Inv, NEW from \in Targets, NEW to \in Targets, NEW r \in DOMAIN requests
  PROVE  LET p == requests[r]
             q == MovedRequests(from, to)[r]
         IN  /\ q \in RequestRow /\ q.user = p.user /\ q.job = p.job /\ q.state = p.state
             /\ p.target # from => q = p
             /\ p.target = from =>
                  /\ q.target = to
                  /\ SubOf(p.user, to) = {} => q.sub = p.sub
                  /\ SubOf(p.user, to) # {} => \E s \in SubOf(p.user, to) : q.sub = s.id
                  /\ q.key = IF Replayed(p.user, to, p.key) THEN NoKey ELSE p.key
<1> DEFINE p == requests[r]
           q == MovedRequests(from, to)[r]
           sub == IF SubOf(p.user, to) = {} THEN p.sub
                  ELSE (CHOOSE s \in SubOf(p.user, to) : TRUE).id
           k == IF Replayed(p.user, to, p.key) THEN NoKey ELSE p.key
<1>1. p \in RequestRow
  BY RequestIs DEF Inv
<1>2. CASE p.target # from
  BY <1>1, <1>2 DEF MovedRequests
<1>3. CASE p.target = from
  <2>1. q = [p EXCEPT !.target = to, !.sub = sub, !.key = k]
    BY <1>3 DEF MovedRequests
  <2>2. SubOf(p.user, to) # {} => \E s \in SubOf(p.user, to) : sub = s.id
    OBVIOUS
  <2>3. sub \in Row \cup {0} /\ k \in Keys /\ to \in Row
    <3>1. \A s \in SubOf(p.user, to) : s.id \in Row
      BY DEF SubOf, Inv, SubsOK, SubRow
    <3>2. sub \in Row \cup {0}
      BY <1>1, <2>2, <3>1 DEF RequestRow
    <3>3. k \in Keys
      <4>1. p.key \in Keys
        BY <1>1 DEF RequestRow
      <4> QED
        BY <4>1, NoKeyIsKey
    <3>4. to \in Row
      BY TargetsAre
    <3> QED
      BY <3>2, <3>3, <3>4
  <2> HIDE DEF sub, k
  <2>4. q \in RequestRow /\ q.user = p.user /\ q.job = p.job /\ q.state = p.state
        /\ q.target = to /\ q.sub = sub /\ q.key = k
    BY <1>1, <2>1, <2>3 DEF RequestRow
  <2> QED
    BY <1>3, <2>2, <2>4 DEF sub, k
<1> QED
  BY <1>2, <1>3

\* The rows a merge leaves.
LEMMA MergedRequests ==
  ASSUME Inv, NEW from \in Targets, NEW to \in Targets, requests' = MovedRequests(from, to)
  PROVE  /\ requests' \in Seq(RequestRow) /\ DOMAIN requests' = DOMAIN requests
         /\ Len(requests') = Len(requests)
<1>1. DOMAIN requests' = DOMAIN requests /\ requests' = [r \in DOMAIN requests |-> requests'[r]]
  BY DEF MovedRequests
<1>2. \A r \in DOMAIN requests : requests'[r] \in RequestRow
  BY MovedRequest
<1> QED
  BY <1>1, <1>2, Remapped DEF Inv, RequestsOK

MergesJobs(j, from, to) ==
  jobs' = [MovedJobs(from, to) EXCEPT ![j] = [Through(j) EXCEPT !.target = MovedJobs(from, to)[j].target]]

LEMMA MergedJobs ==
  ASSUME Inv, NEW j \in Jobs, jobs[j].state = "promoting", NEW from \in Targets, NEW to \in Targets,
         MergesJobs(j, from, to)
  PROVE  /\ jobs' \in Seq(JobRow) /\ Jobs' = Jobs
         /\ \A k \in Jobs :
              /\ jobs'[k].target = IF jobs[k].target # from THEN jobs[k].target
                                   ELSE IF Active(k) /\ ActiveOf(to) # {} THEN 0 ELSE to
              /\ jobs'[k].state \notin {"completed", "failed"} <=> Active(k)
              /\ k = j => jobs'[k].state = "collecting" /\ jobs'[k].from = 0 /\ jobs'[k].to = 0
              /\ k # j => jobs'[k].state = jobs[k].state /\ jobs'[k].from = jobs[k].from /\ jobs'[k].to = jobs[k].to
<1> DEFINE moved(k) == IF jobs[k].target # from THEN jobs[k].target
                       ELSE IF Active(k) /\ ActiveOf(to) # {} THEN 0 ELSE to
<1>1. from \in Row /\ to \in Row
  BY TargetsAre
<1>2. ASSUME NEW k \in Jobs
      PROVE  LET q == MovedJobs(from, to)[k] IN
             /\ q \in JobRow /\ q.target = moved(k) /\ q.state = jobs[k].state
             /\ q.from = jobs[k].from /\ q.to = jobs[k].to
  <2>1. jobs[k] \in JobRow
    BY JobIs DEF Inv
  <2>2. CASE jobs[k].target # from
    BY <2>1, <2>2 DEF MovedJobs
  <2>3. CASE jobs[k].target = from
    <3>1. MovedJobs(from, to)[k] = [jobs[k] EXCEPT !.target = moved(k)] /\ moved(k) \in Row \cup {0}
      BY <1>1, <2>3 DEF MovedJobs
    <3> HIDE DEF moved
    <3> QED
      BY <2>1, <3>1 DEF JobRow
  <2> QED
    BY <2>2, <2>3
<1> HIDE DEF moved
<1>3. DOMAIN MovedJobs(from, to) = Jobs
  BY DEF MovedJobs
<1>4. /\ [Through(j) EXCEPT !.target = moved(j)] \in JobRow
      /\ [Through(j) EXCEPT !.target = moved(j)].target = moved(j)
      /\ [Through(j) EXCEPT !.target = moved(j)].state = "collecting"
      /\ [Through(j) EXCEPT !.target = moved(j)].from = 0
      /\ [Through(j) EXCEPT !.target = moved(j)].to = 0
  <2>1. moved(j) \in Row \cup {0}
    BY <1>2 DEF JobRow
  <2> QED
    BY <2>1, PromotingJob DEF JobRow
<1>5. /\ DOMAIN jobs' = Jobs /\ jobs' = [k \in Jobs |-> jobs'[k]]
      /\ jobs'[j] = [Through(j) EXCEPT !.target = moved(j)]
      /\ \A k \in Jobs : k # j => jobs'[k] = MovedJobs(from, to)[k]
  <2>1. jobs' = [MovedJobs(from, to) EXCEPT ![j] = [Through(j) EXCEPT !.target = moved(j)]]
    BY <1>2 DEF MergesJobs
  <2>2. MovedJobs(from, to) = [k \in Jobs |-> MovedJobs(from, to)[k]]
    BY DEF MovedJobs
  <2> QED
    BY <1>3, <2>1, <2>2
<1>6. \A k \in Jobs : jobs'[k] \in JobRow
  BY <1>2, <1>4, <1>5
<1>7. jobs' \in Seq(JobRow) /\ Jobs' = Jobs
  <2>1. /\ DOMAIN jobs' = DOMAIN jobs /\ jobs' = [k \in DOMAIN jobs |-> jobs'[k]]
        /\ \A k \in DOMAIN jobs : jobs'[k] \in JobRow
    BY <1>5, <1>6 DEF Jobs
  <2>2. jobs \in Seq(JobRow)
    BY DEF Inv, JobsOK
  <2>3. jobs' \in Seq(JobRow)
    BY ONLY <2>1, <2>2, Remapped
  <2> QED
    BY <2>1, <2>3 DEF Jobs
<1>8. ASSUME NEW k \in Jobs
      PROVE  /\ jobs'[k].target = moved(k)
             /\ jobs'[k].state \notin {"completed", "failed"} <=> Active(k)
             /\ k = j => jobs'[k].state = "collecting" /\ jobs'[k].from = 0 /\ jobs'[k].to = 0
             /\ k # j => jobs'[k].state = jobs[k].state /\ jobs'[k].from = jobs[k].from /\ jobs'[k].to = jobs[k].to
  <2>1. CASE k = j
    BY <1>4, <1>5, <2>1 DEF Active
  <2>2. CASE k # j
    BY <1>2, <1>5, <2>2 DEF Active
  <2> QED
    BY <2>1, <2>2
<1> QED
  BY <1>7, <1>8 DEF moved

LEMMA MergeInv ==
  ASSUME Inv, NEW j \in Jobs, Promote(j), NEW from, from = jobs[j].from, NEW to, to = jobs[j].to,
         Merge(j, from, to)
  PROVE  Inv'
<1>1. /\ jobs[j].state = "promoting" /\ from \in Targets /\ to \in Targets /\ from # to
      /\ from \in Row /\ to \in Row /\ from # 0 /\ to # 0
  BY PromotingJob, TargetsAre DEF Promote, Merge
<1>2. /\ key' = [key EXCEPT ![from] = NoKey]
      /\ covered' = covered \ {from}
      /\ source' = [s \in Row |-> IF source[s] = from THEN to ELSE source[s]]
      /\ members' = MovedMembers(from, to)
      /\ subs' = MovedSubs(from, to)
      /\ requests' = MovedRequests(from, to)
      /\ UNCHANGED <<known, failures>>
  BY DEF Merge, Promote
<1>3. /\ jobs' \in Seq(JobRow) /\ Jobs' = Jobs
      /\ \A k \in Jobs :
           /\ jobs'[k].target = IF jobs[k].target # from THEN jobs[k].target
                                ELSE IF Active(k) /\ ActiveOf(to) # {} THEN 0 ELSE to
           /\ jobs'[k].state \notin {"completed", "failed"} <=> Active(k)
           /\ k = j => jobs'[k].state = "collecting" /\ jobs'[k].from = 0 /\ jobs'[k].to = 0
           /\ k # j => jobs'[k].state = jobs[k].state /\ jobs'[k].from = jobs[k].from /\ jobs'[k].to = jobs[k].to
  <2>1. MergesJobs(j, from, to)
    BY DEF Merge, MergesJobs
  <2> QED
    BY <1>1, <2>1, MergedJobs
<1>4. /\ requests' \in Seq(RequestRow) /\ DOMAIN requests' = DOMAIN requests
      /\ Len(requests') = Len(requests)
  BY <1>1, <1>2, MergedRequests
<1>5. /\ key' \in [Row -> Names \cup {NoKey}] /\ key'[from] = NoKey
      /\ (\A x \in Row : x # from => key'[x] = key[x]) /\ Targets' = Targets \ {from}
  <2>1. /\ key' \in [Row -> Names \cup {NoKey}] /\ key'[from] = NoKey
        /\ (\A x \in Row : x # from => key'[x] = key[x])
    BY <1>1, <1>2 DEF Inv, KeysOK
  <2> QED
    BY <2>1 DEF Targets
<1>6. \A r \in DOMAIN requests :
        LET p == requests[r]
            q == requests'[r]
        IN  /\ q.user = p.user /\ q.job = p.job /\ q.state = p.state
            /\ p.target # from => q = p
            /\ p.target = from =>
                 /\ q.target = to
                 /\ SubOf(p.user, to) = {} => q.sub = p.sub
                 /\ SubOf(p.user, to) # {} => \E s \in SubOf(p.user, to) : q.sub = s.id
                 /\ q.key = IF Replayed(p.user, to, p.key) THEN NoKey ELSE p.key
  <2> SUFFICES ASSUME NEW r \in DOMAIN requests
               PROVE  LET p == requests[r]
                          q == MovedRequests(from, to)[r]
                      IN  /\ q.user = p.user /\ q.job = p.job /\ q.state = p.state
                          /\ p.target # from => q = p
                          /\ p.target = from =>
                               /\ q.target = to
                               /\ SubOf(p.user, to) = {} => q.sub = p.sub
                               /\ SubOf(p.user, to) # {} => \E s \in SubOf(p.user, to) : q.sub = s.id
                               /\ q.key = IF Replayed(p.user, to, p.key) THEN NoKey ELSE p.key
    BY <1>2
  <2> QED
    BY <1>1, MovedRequest
<1>7. KeysOK'
  <2>1. \A x \in Targets' : x \in Targets /\ key'[x] = key[x]
    BY <1>5, TargetsAre
  <2> QED
    BY <1>4, <1>5, <2>1 DEF Inv, KeysOK
<1>8. SourcesOK'
  <2>1. source' \in [Row -> Targets' \cup {0}]
    BY <1>1, <1>2, <1>5 DEF Inv, SourcesOK
  <2>2. \A s \in Row : source'[s] # 0 => source[s] # 0
    BY <1>1, <1>2
  <2>3. ASSUME NEW x \in Targets' PROVE SourcesOf(x)' # {}
    <3>1. PICK s \in Row : source[s] = x
      BY <1>5, <2>3 DEF Inv, SourcesOK, SourcesOf
    <3>2. source'[s] = x
      BY <1>2, <1>5, <2>3, <3>1
    <3> QED
      BY <3>2 DEF SourcesOf
  <2> QED
    BY <1>4, <2>1, <2>2, <2>3 DEF Inv, SourcesOK
<1>9. NamesOK'
  <2>1. jobs'[j].state # "refused"
    BY <1>3
  <2>2. alias' \in [Names -> Targets' \cup {0}]
    <3>1. alias' = Renamed(from, to)
      BY <2>1 DEF Promote
    <3>2. Targets \ ({from} \ {to}) = Targets'
      BY <1>1, <1>5
    <3> QED
      BY <1>1, <3>1, <3>2, RenamedType
  <2>3. members' \in [Row -> SUBSET Videos]
    BY <1>1, <1>2 DEF MovedMembers, Inv, NamesOK
  <2> QED
    BY <1>2, <1>5, <2>2, <2>3 DEF Inv, NamesOK
<1> DEFINE moving == {x \in subs : x.target = from /\ SubOf(x.user, to) = {}}
           moved(x) == [x EXCEPT !.target = to]
<1>10. \A x \in subs : /\ moved(x) \in SubRow /\ moved(x).id = x.id /\ moved(x).user = x.user
                       /\ moved(x).target = to
  BY <1>1 DEF Inv, SubsOK, SubRow
<1>11. subs' = {s \in subs : s.target # from} \cup {moved(x) : x \in moving}
  BY <1>2 DEF MovedSubs
<1> HIDE DEF moved
<1>12. \A s \in subs' : \/ s \in subs /\ s.target # from
                        \/ \E x \in moving : s = moved(x)
  BY <1>11
<1>13. SubsOK'
  BY <1>1, <1>4, <1>5, <1>10, <1>12 DEF Inv, SubsOK
<1>14. RequestsOK'
  <2>1. ASSUME NEW r \in DOMAIN requests
        PROVE  requests'[r].target \in Targets' /\ requests'[r].job \in Jobs' \cup {0}
    BY <1>1, <1>3, <1>5, <1>6 DEF Inv, RequestsOK
  <2> QED
    BY <1>4, <2>1 DEF RequestsOK
<1>15. JobsOK'
  <2>1. ASSUME NEW k \in Jobs PROVE jobs'[k].target \in Targets' \cup {0}
    BY <1>1, <1>3, <1>5 DEF Inv, JobsOK
  <2>2. ASSUME NEW k \in Jobs
        PROVE  IF jobs'[k].state = "promoting"
                 THEN {jobs'[k].from, jobs'[k].to} \subseteq Targets'
                 ELSE jobs'[k].from = 0 /\ jobs'[k].to = 0
    <3>1. CASE k = j
      BY <1>3, <3>1
    <3>2. CASE k # j /\ jobs[k].state = "promoting"
      <4>1. {jobs[j].from, jobs[j].to} \cap {jobs[k].from, jobs[k].to} = {}
        BY <1>1, <3>2 DEF Inv, JobsOK
      <4>2. {jobs[k].from, jobs[k].to} \subseteq Targets
        BY <3>2 DEF Inv, JobsOK
      <4>3. jobs[k].from \in Targets' /\ jobs[k].to \in Targets'
        BY <1>5, <4>1, <4>2
      <4>4. jobs'[k].state = "promoting" /\ jobs'[k].from = jobs[k].from /\ jobs'[k].to = jobs[k].to
        BY <1>3, <3>2
      <4> QED
        BY <4>3, <4>4
    <3>3. CASE k # j /\ jobs[k].state # "promoting"
      BY <1>3, <3>3 DEF Inv, JobsOK
    <3> QED
      BY <3>1, <3>2, <3>3
  <2>3. ASSUME NEW k \in Jobs, NEW l \in Jobs, k # l,
               jobs'[k].state = "promoting", jobs'[l].state = "promoting"
        PROVE  {jobs'[k].from, jobs'[k].to} \cap {jobs'[l].from, jobs'[l].to} = {}
    <3>1. k # j /\ l # j
      BY <1>3, <2>3
    <3> QED
      BY <1>3, <2>3, <3>1 DEF Inv, JobsOK
  <2> QED
    BY <1>3, <2>1, <2>2, <2>3 DEF JobsOK
<1>16. RequestsKeepTheirOwner'
  <2>1. ASSUME NEW r \in DOMAIN requests
        PROVE  \E s \in subs' : /\ s.id = requests'[r].sub
                                /\ s.user = requests'[r].user /\ s.target = requests'[r].target
    <3>1. PICK s \in subs : /\ s.id = requests[r].sub
                           /\ s.user = requests[r].user /\ s.target = requests[r].target
      BY DEF Inv, RequestsKeepTheirOwner
    <3>2. CASE requests[r].target # from
      BY <1>6, <1>11, <3>1, <3>2
    <3>3. CASE requests[r].target = from /\ SubOf(requests[r].user, to) = {}
      <4>1. moved(s) \in subs'
        BY <1>11, <3>1, <3>3
      <4> QED
        BY <1>6, <1>10, <3>1, <3>3, <4>1
    <3>4. CASE requests[r].target = from /\ SubOf(requests[r].user, to) # {}
      <4>1. PICK x \in SubOf(requests[r].user, to) : requests'[r].sub = x.id
        BY <1>6, <3>4
      <4> QED
        BY <1>1, <1>6, <1>11, <3>4, <4>1 DEF SubOf
    <3> QED
      BY <3>2, <3>3, <3>4
  <2>2. ASSUME NEW s \in subs', NEW x \in subs', (s.user = x.user /\ s.target = x.target) \/ s.id = x.id
        PROVE  s = x
    <3>0. \A a, b \in subs : (a.user = b.user /\ a.target = b.target) \/ a.id = b.id => a = b
      BY DEF Inv, RequestsKeepTheirOwner
    <3>1. CASE s \in subs /\ s.target # from /\ x \in subs /\ x.target # from
      BY <2>2, <3>0, <3>1
    <3>2. ASSUME NEW a \in subs, a.target # from, NEW b \in moving, NEW m, m = moved(b),
                 (a.user = m.user /\ a.target = m.target) \/ a.id = m.id
          PROVE  FALSE
      <4>1. a.user = b.user => a.target # to
        BY DEF SubOf
      <4>2. a.id # b.id
        BY <3>0, <3>2
      <4> QED
        BY <1>10, <3>2, <4>1, <4>2
    <3>3. ASSUME NEW a \in moving, NEW b \in moving, s = moved(a), x = moved(b)
          PROVE  s = x
      <4>1. a.user = b.user \/ a.id = b.id
        BY <1>10, <2>2, <3>3
      <4> QED
        BY <3>0, <3>3, <4>1
    <3> QED
      BY <1>12, <2>2, <3>1, <3>2, <3>3
  <2>3. ASSUME NEW r \in DOMAIN requests, NEW x \in DOMAIN requests,
               requests'[r].key = requests'[x].key, requests'[r].key # NoKey,
               requests'[r].user = requests'[x].user, requests'[r].target = requests'[x].target
        PROVE  r = x
    <3>0. \A a, b \in DOMAIN requests :
            /\ requests[a].key = requests[b].key /\ requests[a].key # NoKey
            /\ requests[a].user = requests[b].user /\ requests[a].target = requests[b].target
            => a = b
      BY DEF Inv, RequestsKeepTheirOwner
    <3>1. ASSUME NEW a \in DOMAIN requests, NEW b \in DOMAIN requests,
                 requests[a].target = from, requests[b].target = to, requests[a].user = requests[b].user,
                 requests'[a].key # NoKey
          PROVE  requests'[a].key # requests'[b].key
      <4>1. ~Replayed(requests[a].user, to, requests[a].key) /\ requests'[a].key = requests[a].key
        BY <1>6, <3>1
      <4>2. requests'[b] = requests[b]
        BY <1>1, <1>6, <3>1
      <4> QED
        BY <3>1, <4>1, <4>2 DEF Replayed
    <3>2. requests[r].user = requests[x].user
      BY <1>6, <2>3
    <3>3. CASE requests[r].target # from /\ requests[x].target # from
      BY <1>6, <2>3, <3>0, <3>3
    <3>4. CASE requests[r].target = from /\ requests[x].target = from
      <4>1. requests'[r].key = requests[r].key /\ requests'[x].key = requests[x].key
        BY <1>6, <2>3, <3>4
      <4> QED
        BY <2>3, <3>0, <3>2, <3>4, <4>1
    <3>5. CASE requests[r].target = from /\ requests[x].target # from
      <4>1. requests[x].target = to
        BY <1>6, <2>3, <3>5
      <4> QED
        BY <2>3, <3>1, <3>2, <3>5, <4>1
    <3>6. CASE requests[r].target # from /\ requests[x].target = from
      <4>1. requests[r].target = to
        BY <1>6, <2>3, <3>6
      <4> QED
        BY <2>3, <3>1, <3>2, <3>6, <4>1
    <3> QED
      BY <3>3, <3>4, <3>5, <3>6
  <2> QED
    BY <1>4, <2>1, <2>2, <2>3 DEF RequestsKeepTheirOwner
<1>17. OneOrWaiting'
  <2>1. ASSUME NEW x \in Targets' PROVE x \in Targets /\ x # from /\ x # 0
    BY <1>5, <2>1, TargetsAre
  <2>2. ASSUME NEW x \in Targets', x # to PROVE ActiveOf(x)' = ActiveOf(x) /\ Pending(x)' = Pending(x)
    <3>1. ActiveOf(x)' = ActiveOf(x)
      BY <1>3, <2>1, <2>2 DEF ActiveOf, Active
    <3>2. Pending(x)' = Pending(x)
      BY <1>4, <1>6, <2>1, <2>2 DEF Pending
    <3> QED
      BY <3>1, <3>2
  <2>3. ActiveOf(to)' = IF ActiveOf(to) # {} THEN ActiveOf(to) ELSE ActiveOf(from)
    <3>1. CASE ActiveOf(to) # {}
      BY <1>1, <1>3, <3>1 DEF ActiveOf, Active
    <3>2. CASE ActiveOf(to) = {}
      BY <1>1, <1>3, <3>2 DEF ActiveOf, Active
    <3> QED
      BY <3>1, <3>2
  <2>4. Pending(to)' \subseteq Pending(to) \cup Pending(from)
    BY <1>4, <1>6 DEF Pending
  <2>5. ASSUME NEW x \in Targets'
        PROVE  (\A i, l \in ActiveOf(x)' : i = l) /\ (Pending(x)' # {} => ActiveOf(x)' # {})
    <3>1. CASE x = to
      BY <1>1, <2>3, <2>4, <3>1 DEF Inv, OneOrWaiting
    <3>2. CASE x # to
      BY <2>1, <2>2, <3>2 DEF Inv, OneOrWaiting
    <3> QED
      BY <3>1, <3>2
  <2> QED
    BY <2>5 DEF OneOrWaiting
<1> QED
  BY <1>7, <1>8, <1>9, <1>13, <1>14, <1>15, <1>16, <1>17 DEF Inv

LEMMA PromoteInv ==
  ASSUME Inv, NEW j \in Jobs, Promote(j)
  PROVE  Inv'
<1>1. Merge(j, jobs[j].from, jobs[j].to) \/ Rename(j, jobs[j].from)
  BY DEF Promote
<1> QED
  BY <1>1, MergeInv, RenameInv

------------------------------------------------------------------------------
(***************************************************************************)
(* Terminal transitions.                                                     *)
(***************************************************************************)

Waiting(t) == IF t = 0 THEN {} ELSE Pending(t)

\* The rows of the jobs: the one that ends, and a successor when requests wait for one.
EndsJobs(j, state, t) ==
  LET ended == [jobs EXCEPT ![j].state = state] IN
  IF Waiting(t) # {} /\ SourcesOf(t) # {}
    THEN \E s \in SourcesOf(t) : jobs' = Append(ended, NewJob(s, t))
    ELSE jobs' = ended

LEMMA EndedJobs ==
  ASSUME Inv, NEW j \in Jobs, Active(j), jobs[j].state # "promoting",
         NEW state \in {"completed", "failed"}, NEW t, t = jobs[j].target, EndsJobs(j, state, t)
  PROVE  LET n == Len(jobs) + 1
             more == Waiting(t) # {}
         IN  /\ jobs' \in Seq(JobRow) /\ n \in Nat /\ n \notin Jobs
             /\ Jobs' = IF more THEN Jobs \cup {n} ELSE Jobs
             /\ Len(jobs') > Len(jobs) <=> more
             /\ more => t \in Targets /\ Len(jobs') = n
             /\ jobs'[j].target = t /\ jobs'[j].state = state /\ jobs'[j].from = 0 /\ jobs'[j].to = 0
             /\ \A k \in Jobs : k # j => jobs'[k] = jobs[k]
             /\ more => /\ jobs'[n].target = t /\ jobs'[n].state = "queued"
                        /\ jobs'[n].from = 0 /\ jobs'[n].to = 0
<1> DEFINE row == [jobs[j] EXCEPT !.state = state]
           ended == [jobs EXCEPT ![j] = row]
           n == Len(jobs) + 1
<1>1. jobs[j] \in JobRow /\ jobs[j].from = 0 /\ jobs[j].to = 0 /\ t \in Targets \cup {0}
  BY JobIs DEF Inv, JobsOK
<1>2. row \in JobRow /\ row.target = t /\ row.state = state /\ row.from = 0 /\ row.to = 0
  BY <1>1 DEF JobRow, JobState
<1> HIDE DEF row
<1>3. /\ Len(jobs) \in Nat /\ Jobs = 1..Len(jobs) /\ n \in Nat /\ n \notin Jobs
      /\ j \in 1..Len(jobs) /\ jobs \in Seq(JobRow)
  BY JobIs DEF Inv, JobsOK
<1>4. /\ ended \in Seq(JobRow) /\ Len(ended) = Len(jobs) /\ DOMAIN ended = Jobs
      /\ ended[j] = row /\ \A k \in Jobs : k # j => ended[k] = jobs[k]
  <2>1. ended \in Seq(JobRow) /\ Len(ended) = Len(jobs)
    BY <1>2, <1>3, ExceptSeq
  <2> QED
    BY <1>3, <2>1 DEF Jobs
<1>5. ended = [jobs EXCEPT ![j].state = state]
  BY DEF row
<1>6. Waiting(t) # {} => t \in Targets /\ SourcesOf(t) # {}
  BY <1>1 DEF Waiting, Inv, SourcesOK
<1> HIDE DEF ended
<1>7. CASE Waiting(t) # {}
  <2>1. PICK s \in SourcesOf(t) : jobs' = Append(ended, NewJob(s, t))
    BY <1>5, <1>6, <1>7 DEF EndsJobs
  <2>2. /\ NewJob(s, t) \in JobRow /\ NewJob(s, t).target = t /\ NewJob(s, t).state = "queued"
        /\ NewJob(s, t).from = 0 /\ NewJob(s, t).to = 0
    BY <1>6, <1>7, NewJobType, TargetsAre DEF SourcesOf
  <2>3. /\ jobs' \in Seq(JobRow) /\ Len(jobs') = n /\ DOMAIN jobs' = Jobs \cup {n}
        /\ \A k \in Jobs : jobs'[k] = ended[k]
        /\ jobs'[n] = NewJob(s, t)
    BY <1>4, <2>1, <2>2, Grown
  <2>4. Jobs' = Jobs \cup {n}
    BY <2>3 DEF Jobs
  <2>5. Len(jobs') > Len(jobs)
    BY <1>3, <2>3
  <2> QED
    BY <1>2, <1>3, <1>4, <1>6, <1>7, <2>2, <2>3, <2>4, <2>5
<1>8. CASE Waiting(t) = {}
  <2>1. jobs' = ended
    BY <1>5, <1>8 DEF EndsJobs
  <2>2. Jobs' = Jobs /\ ~(Len(jobs') > Len(jobs))
    BY <1>3, <1>4, <2>1 DEF Jobs
  <2> QED
    BY <1>2, <1>3, <1>4, <1>8, <2>1, <2>2
<1> QED
  BY <1>7, <1>8

LEMMA EndInv ==
  ASSUME Inv, NEW j \in Jobs, Active(j), jobs[j].state # "promoting",
         NEW state \in {"completed", "failed"}, End(j, state), failures' \in 0..MaxFailures,
         NEW t, t = jobs[j].target, NEW n, n = Len(jobs) + 1
  PROVE  Inv'
<1> DEFINE more == Waiting(t) # {}
<1>1. EndsJobs(j, state, t) /\ UNCHANGED <<key, alias, known, source, members, subs>>
  BY DEF End, EndsJobs, Waiting
<1>2. /\ jobs' \in Seq(JobRow) /\ n \in Nat /\ n \notin Jobs
      /\ Jobs' = (IF more THEN Jobs \cup {n} ELSE Jobs)
      /\ Len(jobs') > Len(jobs) <=> more
      /\ more => t \in Targets /\ Len(jobs') = n
      /\ jobs'[j].target = t /\ jobs'[j].state = state /\ jobs'[j].from = 0 /\ jobs'[j].to = 0
      /\ \A k \in Jobs : k # j => jobs'[k] = jobs[k]
      /\ more => /\ jobs'[n].target = t /\ jobs'[n].state = "queued"
                 /\ jobs'[n].from = 0 /\ jobs'[n].to = 0
  BY <1>1, EndedJobs
<1>3. Targets' = Targets /\ t \in Targets \cup {0} /\ 0 \notin Targets
  BY <1>1, TargetsAre DEF Targets, Inv, JobsOK
<1>4. /\ DOMAIN requests' = DOMAIN requests /\ requests' = [r \in DOMAIN requests |-> requests'[r]]
      /\ \A r \in DOMAIN requests :
           requests'[r] = IF requests[r].job = j THEN [requests[r] EXCEPT !.state = state]
                          ELSE IF r \in Waiting(t) /\ Len(jobs') > Len(jobs)
                                 THEN [requests[r] EXCEPT !.job = Len(jobs')]
                                 ELSE requests[r]
  BY DEF End, Waiting
<1>5. ASSUME NEW r \in DOMAIN requests
      PROVE  LET p == requests[r]
                 q == requests'[r]
             IN  /\ q \in RequestRow
                 /\ q.user = p.user /\ q.target = p.target /\ q.sub = p.sub /\ q.key = p.key
                 /\ p.job = j => q.job = j /\ q.state = state
                 /\ p.job # j /\ r \in Waiting(t) => q.job = n
                 /\ p.job # j /\ r \notin Waiting(t) => q = p
  <2>1. requests[r] \in RequestRow /\ state \in RequestState
    BY RequestIs DEF Inv, RequestState
  <2>2. CASE requests[r].job = j
    BY <1>4, <2>1, <2>2 DEF RequestRow
  <2>3. CASE requests[r].job # j /\ r \in Waiting(t)
    <3>1. requests'[r] = [requests[r] EXCEPT !.job = n]
      BY <1>2, <1>4, <2>3
    <3> QED
      BY <1>2, <2>1, <2>3, <3>1 DEF RequestRow
  <2>4. CASE requests[r].job # j /\ r \notin Waiting(t)
    BY <1>4, <2>1, <2>4
  <2> QED
    BY <2>2, <2>3, <2>4
<1> HIDE DEF more
<1>6. requests' \in Seq(RequestRow) /\ Len(requests') = Len(requests)
  <2>1. requests \in Seq(RequestRow) /\ \A r \in DOMAIN requests : requests'[r] \in RequestRow
    BY <1>5 DEF Inv, RequestsOK
  <2> QED
    BY <1>4, <2>1, Remapped
<1>7. KeysOK' /\ SubsOK'
  BY <1>1, <1>3, <1>6 DEF Inv, KeysOK, SubsOK
<1>8. SourcesOK'
  BY <1>1, <1>3, <1>6 DEF Inv, SourcesOK, SourcesOf
<1>9. NamesOK'
  <2>1. covered' \subseteq Targets
    BY <1>3 DEF End, Inv, NamesOK
  <2> QED
    BY <1>1, <1>3, <2>1 DEF Inv, NamesOK
<1>10. RequestsOK'
  <2>1. ASSUME NEW r \in DOMAIN requests
        PROVE  requests'[r].target \in Targets /\ requests'[r].job \in Jobs' \cup {0}
    <3>1. requests[r].target \in Targets /\ requests[r].job \in Jobs \cup {0}
      BY DEF Inv, RequestsOK
    <3>2. r \in Waiting(t) => n \in Jobs'
      BY <1>2 DEF more
    <3>3. Jobs \subseteq Jobs'
      BY <1>2
    <3> QED
      BY <1>5, <3>1, <3>2, <3>3
  <2> QED
    BY <1>3, <1>4, <1>6, <2>1 DEF RequestsOK
<1>11. JobsOK'
  <2>1. ASSUME NEW k \in Jobs'
        PROVE  \/ k \in Jobs /\ k # j /\ jobs'[k] = jobs[k]
               \/ /\ jobs'[k].target \in Targets \cup {0} /\ jobs'[k].state # "promoting"
                  /\ jobs'[k].from = 0 /\ jobs'[k].to = 0
    BY <1>2, <1>3, <2>1
  <2>2. ASSUME NEW k \in Jobs'
        PROVE  /\ jobs'[k].target \in Targets \cup {0}
               /\ IF jobs'[k].state = "promoting"
                    THEN {jobs'[k].from, jobs'[k].to} \subseteq Targets
                    ELSE jobs'[k].from = 0 /\ jobs'[k].to = 0
    BY <2>1, <2>2 DEF Inv, JobsOK
  <2>3. ASSUME NEW k \in Jobs', NEW l \in Jobs', k # l,
               jobs'[k].state = "promoting", jobs'[l].state = "promoting"
        PROVE  {jobs'[k].from, jobs'[k].to} \cap {jobs'[l].from, jobs'[l].to} = {}
    <3>1. k \in Jobs /\ l \in Jobs /\ jobs'[k] = jobs[k] /\ jobs'[l] = jobs[l]
      BY <2>1, <2>3
    <3> QED
      BY <2>3, <3>1 DEF Inv, JobsOK
  <2> QED
    BY <1>2, <1>3, <2>2, <2>3 DEF JobsOK
<1>12. RequestsKeepTheirOwner'
  BY <1>1, <1>4, <1>5 DEF Inv, RequestsKeepTheirOwner
<1>13. OneOrWaiting'
  <2>1. ASSUME NEW x \in Targets, x # t
        PROVE  ActiveOf(x)' = ActiveOf(x) /\ Pending(x)' = Pending(x)
    <3>1. ActiveOf(x)' = ActiveOf(x)
      BY <1>2, <2>1 DEF ActiveOf, Active
    <3>2. \A r \in DOMAIN requests : requests[r].target = x => r \notin Waiting(t)
      BY <2>1 DEF Waiting, Pending
    <3>3. 0 \notin Jobs
      BY JobIs DEF Inv
    <3>4. Pending(x)' = Pending(x)
      BY <1>4, <1>5, <3>2, <3>3 DEF Pending
    <3> QED
      BY <3>1, <3>4
  <2>2. ASSUME t \in Targets
        PROVE  /\ \A i, l \in ActiveOf(t)' : i = l
               /\ Pending(t)' = {}
    <3>1. ActiveOf(t) = {j}
      BY <2>2 DEF Inv, OneOrWaiting, ActiveOf
    <3>2. ASSUME NEW k \in ActiveOf(t)' PROVE k = n
      <4>1. k \in Jobs' /\ jobs'[k].target = t /\ jobs'[k].state \notin {"completed", "failed"}
        BY <3>2 DEF ActiveOf, Active
      <4>2. k # j
        BY <1>2, <4>1
      <4>3. ASSUME k \in Jobs PROVE FALSE
        <5>1. jobs'[k] = jobs[k]
          BY <1>2, <4>2, <4>3
        <5>2. k \in ActiveOf(t)
          BY <4>1, <4>3, <5>1 DEF ActiveOf, Active
        <5> QED
          BY <3>1, <4>2, <5>2
      <4> QED
        BY <1>2, <4>1, <4>3
    <3>3. Pending(t)' = {}
      <4>1. Waiting(t) = Pending(t) /\ 0 \notin Jobs
        BY <1>3, <2>2, JobIs DEF Waiting, Inv
      <4>2. ASSUME NEW r \in DOMAIN requests, r \in Pending(t)' PROVE FALSE
        <5>1. requests'[r].target = t /\ requests'[r].job = 0 /\ requests'[r].state = "queued"
          BY <4>2 DEF Pending
        <5>2. requests[r].job # j
          BY <1>5, <4>1, <5>1
        <5>3. n # 0
          BY JobIs DEF Inv
        <5>4. r \notin Waiting(t)
          BY <1>5, <5>1, <5>2, <5>3
        <5>5. requests'[r] = requests[r]
          BY <1>5, <5>2, <5>4
        <5> QED
          BY <4>1, <5>1, <5>4, <5>5 DEF Pending
      <4> QED
        BY <1>4, <4>2 DEF Pending
    <3> QED
      BY <3>2, <3>3
  <2>3. ASSUME NEW x \in Targets
        PROVE  (\A i, l \in ActiveOf(x)' : i = l) /\ (Pending(x)' # {} => ActiveOf(x)' # {})
    <3>1. CASE x = t
      BY <2>2, <3>1
    <3>2. CASE x # t
      BY <2>1, <3>2 DEF Inv, OneOrWaiting
    <3> QED
      BY <3>1, <3>2
  <2> QED
    BY <1>3, <2>3 DEF OneOrWaiting
<1> QED
  BY <1>7, <1>8, <1>9, <1>10, <1>11, <1>12, <1>13 DEF Inv

LEMMA CompleteInv ==
  ASSUME Inv, NEW j \in Jobs, Complete(j)
  PROVE  Inv'
<1>1. Active(j) /\ jobs[j].state # "promoting" /\ End(j, "completed")
  BY DEF Complete, Active
<1>2. failures' \in 0..MaxFailures
  BY DEF Complete, Inv, NamesOK
<1> QED
  BY <1>1, <1>2, EndInv

LEMMA FailInv ==
  ASSUME Inv, NEW j \in Jobs, Fail(j)
  PROVE  Inv'
<1>1. Active(j) /\ jobs[j].state # "promoting" /\ End(j, "failed")
  BY DEF Fail, Active
<1>2. failures' \in 0..MaxFailures
  BY RowType DEF Fail, Inv, NamesOK
<1> QED
  BY <1>1, <1>2, EndInv

------------------------------------------------------------------------------
(***************************************************************************)
(* What users see, and the theorems.                                         *)
(***************************************************************************)

\* A user's subscription to a target, unless it is merged away, goes on with what it has.
Kept ==
  /\ \A u \in Users : Sees(u) \subseteq Sees(u)'
  /\ \A s \in subs : \E x \in subs' :
       /\ x.user = s.user
       /\ x.id = s.id \/ (x.target # s.target /\ \E y \in subs : y.id = x.id /\ y.target = x.target)

LEMMA SameSubsKept ==
  ASSUME subs \subseteq subs', \A s \in subs : members[s.target] \subseteq members'[s.target]
  PROVE  Kept
<1>1. ASSUME NEW u \in Users PROVE Sees(u) \subseteq Sees(u)'
  BY DEF Sees
<1> QED
  BY <1>1 DEF Kept

LEMMA MergeKeeps ==
  ASSUME Inv, NEW j \in Jobs, Promote(j), NEW from, from = jobs[j].from, NEW to, to = jobs[j].to,
         Merge(j, from, to)
  PROVE  Kept
<1>1. from \in Targets /\ to \in Targets /\ from # to /\ from \in Row /\ to \in Row
  BY PromotingJob, TargetsAre DEF Promote, Merge
<1>2. /\ members' = [members EXCEPT ![to] = @ \cup members[from], ![from] = {}]
      /\ subs' = MovedSubs(from, to)
  BY DEF Merge, MovedMembers
<1>3. /\ members'[to] = members[to] \cup members[from]
      /\ \A x \in Row : x # to /\ x # from => members'[x] = members[x]
  BY <1>1, <1>2 DEF Inv, NamesOK
<1> DEFINE moved(x) == [x EXCEPT !.target = to]
<1>4. \A x \in subs : /\ moved(x).id = x.id /\ moved(x).user = x.user /\ moved(x).target = to
                      /\ x \in SubRow
  BY DEF Inv, SubsOK, SubRow
<1>5. subs' = {s \in subs : s.target # from}
               \cup {moved(x) : x \in {x \in subs : x.target = from /\ SubOf(x.user, to) = {}}}
  BY <1>2 DEF MovedSubs
<1> HIDE DEF moved
\* Whom a subscription goes on as.
<1>6. ASSUME NEW s \in subs
      PROVE  \E x \in subs' :
               /\ x.user = s.user
               /\ \/ x = s /\ s.target # from
                  \/ s.target = from /\ x.target = to /\ x.id = s.id
                  \/ s.target = from /\ x.target = to /\ x \in subs
  <2>1. CASE s.target # from
    BY <1>5, <2>1
  <2>2. CASE s.target = from /\ SubOf(s.user, to) = {}
    <3>1. moved(s) \in subs'
      BY <1>5, <2>2
    <3> QED
      BY <1>4, <2>2, <3>1
  <2>3. CASE s.target = from /\ SubOf(s.user, to) # {}
    <3>1. PICK x \in SubOf(s.user, to) : TRUE
      BY <2>3
    <3>2. x \in subs /\ x.user = s.user /\ x.target = to
      BY <3>1 DEF SubOf
    <3>3. x \in subs'
      BY <1>1, <1>5, <3>2
    <3> QED
      BY <2>3, <3>2, <3>3
  <2> QED
    BY <2>1, <2>2, <2>3
<1>7. ASSUME NEW u \in Users, NEW v \in Sees(u) PROVE v \in Sees(u)'
  <2>1. PICK s \in subs : s.user = u /\ v \in members[s.target]
    BY <1>7 DEF Sees
  <2>2. \E x \in subs' : /\ x.user = s.user
                         /\ \/ x = s /\ s.target # from
                            \/ s.target = from /\ x.target = to
    BY <1>6
  <2>5. PICK x \in subs' : /\ x.user = u
                           /\ \/ x = s /\ s.target # from
                              \/ s.target = from /\ x.target = to
    BY <2>1, <2>2
  <2>3. v \in members'[x.target]
    <3>1. s.target \in Row
      BY <1>4 DEF SubRow
    <3> QED
      BY <1>1, <1>3, <2>1, <2>5, <3>1
  <2>4. x.user = u /\ x \in subs'
    BY <2>5
  <2> QED
    BY <2>3, <2>4 DEF Sees
<1>8. ASSUME NEW s \in subs
      PROVE  \E x \in subs' :
               /\ x.user = s.user
               /\ x.id = s.id \/ (x.target # s.target /\ \E y \in subs : y.id = x.id /\ y.target = x.target)
  BY <1>1, <1>6
<1> QED
  BY <1>7, <1>8 DEF Kept

LEMMA SubmitKeeps ==
  ASSUME Inv, NEW u \in Users, NEW n \in Names, NEW k \in KeysOf[u], NEW wider \in BOOLEAN,
         Submit(u, n, k, wider)
  PROVE  Kept
<1>1. PICK sub, job, state : Submitted(u, n, k, TargetOf(n), sub, job, state)
  BY SubmitFacts
<1>2. subs \subseteq subs' /\ members' = members
  BY <1>1 DEF Submitted
<1> QED
  BY <1>2, SameSubsKept

LEMMA LinkKeeps ==
  ASSUME Inv, NEW j \in Jobs, NEW v \in Videos, Link(j, v)
  PROVE  Kept
<1>1. subs' = subs
  BY DEF Link
<1>2. ASSUME NEW s \in subs PROVE members[s.target] \subseteq members'[s.target]
  <2>1. s.target \in Row /\ members \in [Row -> SUBSET Videos]
    BY <1>2 DEF Inv, SubsOK, SubRow, NamesOK
  <2>2. members' = [members EXCEPT ![source[jobs[j].source]] = @ \cup {v}]
    BY DEF Link
  <2> QED
    BY <2>1, <2>2
<1> QED
  BY <1>1, <1>2, SameSubsKept

LEMMA OthersKeep ==
  ASSUME UNCHANGED <<subs, members>>
  PROVE  Kept
BY SameSubsKept

LEMMA StutterInv ==
  ASSUME Inv, UNCHANGED vars
  PROVE  Inv'
<1>1. /\ UNCHANGED <<key, alias, known, covered, source, members, subs, requests, jobs, failures>>
      /\ Targets' = Targets /\ Jobs' = Jobs
  BY DEF vars, Targets, Jobs
<1>2. KeysOK' /\ NamesOK' /\ SubsOK' /\ RequestsOK'
  BY <1>1 DEF Inv, KeysOK, NamesOK, SubsOK, RequestsOK
<1>3. SourcesOK'
  BY <1>1 DEF Inv, SourcesOK, SourcesOf
<1>4. JobsOK'
  BY <1>1 DEF Inv, JobsOK
<1>5. RequestsKeepTheirOwner'
  BY <1>1 DEF Inv, RequestsKeepTheirOwner
<1>6. OneOrWaiting'
  BY <1>1 DEF Inv, OneOrWaiting, ActiveOf, Active, Pending
<1> QED
  BY <1>2, <1>3, <1>4, <1>5, <1>6 DEF Inv

LEMMA NextInv ==
  ASSUME Inv, [Next]_vars
  PROVE  Inv' /\ (Kept \/ UNCHANGED vars)
<1>1. CASE Submitting
  BY <1>1, SubmitInv, SubmitKeeps DEF Submitting
<1>2. CASE Dispatching
  <2>1. PICK t \in Row : Dispatch(t)
    BY <1>2 DEF Dispatching
  <2>2. Inv'
    BY <2>1, DispatchInv
  <2>3. UNCHANGED <<subs, members>>
    BY <2>1 DEF Dispatch
  <2> QED
    BY <2>2, <2>3, OthersKeep
<1>3. ASSUME NEW j \in Jobs, Working(j)
      PROVE  Inv' /\ Kept
  <2>1. CASE Claim(j)
    <3>1. UNCHANGED <<subs, members>>
      BY <2>1 DEF Claim
    <3> QED
      BY <2>1, <3>1, ClaimInv, OthersKeep
  <2>2. CASE LookUp(j)
    <3>1. UNCHANGED <<subs, members>>
      BY <2>2 DEF LookUp
    <3> QED
      BY <2>2, <3>1, LookUpInv, OthersKeep
  <2>3. CASE Promote(j)
    <3>1. CASE Merge(j, jobs[j].from, jobs[j].to)
      BY <2>3, <3>1, PromoteInv, MergeKeeps
    <3>2. CASE Rename(j, jobs[j].from)
      <4>1. UNCHANGED <<subs, members>>
        BY <3>2 DEF Rename
      <4> QED
        BY <2>3, <4>1, PromoteInv, OthersKeep
    <3> QED
      BY <2>3, <3>1, <3>2 DEF Promote
  <2>4. CASE Complete(j)
    <3>1. UNCHANGED <<subs, members>>
      BY <2>4 DEF Complete, End
    <3> QED
      BY <2>4, <3>1, CompleteInv, OthersKeep
  <2>5. CASE Fail(j)
    <3>1. UNCHANGED <<subs, members>>
      BY <2>5 DEF Fail, End
    <3> QED
      BY <2>5, <3>1, FailInv, OthersKeep
  <2> QED
    BY <1>3, <2>1, <2>2, <2>3, <2>4, <2>5 DEF Working
<1>4. CASE Linking
  BY <1>4, LinkInv, LinkKeeps DEF Linking
<1>5. CASE Pausing
  <2>1. PICK j \in Jobs : Pause(j)
    BY <1>5 DEF Pausing
  <2>2. UNCHANGED <<subs, members>>
    BY <2>1 DEF Pause
  <2> QED
    BY <2>1, <2>2, PauseInv, OthersKeep
<1>6. CASE UNCHANGED vars
  BY <1>6, StutterInv
<1> QED
  BY <1>1, <1>2, <1>3, <1>4, <1>5, <1>6 DEF Next

LEMMA Invariance == Spec => []Inv
<1>1. Inv /\ [Next]_vars => Inv'
  BY NextInv
<1> QED
  BY InitInv, <1>1, PTL DEF Spec

\* Every row is of its type, and refers to a row that exists: no target that a merge
\* deleted (postgres_targets.py) is left in a source, an alias, a subscription, a request
\* or a job.
THEOREM PromotionTypeCorrect == Spec => []TypeOK
BY Invariance, InvMeansTypes, PTL

\* Merged or not, a request refers to the subscription its own user has to its target, a
\* user has one subscription to a target, and the idempotency keys of a user's requests
\* to it differ.
THEOREM OwnersKept == Spec => []RequestsKeepTheirOwner
<1>1. Inv => RequestsKeepTheirOwner
  BY DEF Inv
<1> QED
  BY Invariance, <1>1, PTL

\* A target never has two active jobs, and has one while a request waits for the next
\* job: neither the detached job of a merge nor a terminal transition leaves requests
\* nobody will serve.
THEOREM WaitersHaveJobs == Spec => []WaitingHaveAJob
BY Invariance, InvMeansWaiting, PTL

\* No step, a merge of targets included, takes a video from a user, or a subscription
\* that is not the one the user has to the same target already.
THEOREM NothingLost == Spec => NothingIsLost
<1>1. Inv /\ [Next]_vars =>
        [/\ \A u \in Users : Sees(u) \subseteq Sees(u)'
         /\ \A s \in subs : \E x \in subs' :
               /\ x.user = s.user
               /\ x.id = s.id \/ (x.target # s.target /\ \E y \in subs : y.id = x.id /\ y.target = x.target)
        ]_vars
  BY NextInv DEF Kept
<1> QED
  BY Invariance, <1>1, PTL DEF Spec, NothingIsLost

==============================================================================
