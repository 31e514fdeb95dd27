---------------------------- MODULE Overview_proofs ----------------------------
(***************************************************************************)
(* Proofs about Overview, for any number of versions, readers and faults:   *)
(* type correctness, and that it implements FreshReads.                      *)
(***************************************************************************)
EXTENDS Overview, TLAPS

------------------------------------------------------------------------------
(* The inductive invariant. *)

\* A reader's key is a version there was, its answer is one of the key's or a later one.
Sound(q) ==
  /\ q.key <= version /\ q.got.version <= version
  /\ q.pc = "idle" => q.key = 0
  /\ q.pc \in {"rest", "store"} => q.key <= q.got.version

OverviewInv ==
  /\ TypeOK
  /\ \A r \in Readers : Sound(rd[r])
  /\ DOMAIN cache = Version
  /\ \A v \in Version : cache[v] # Missing => v <= cache[v].version /\ cache[v].version <= version

LEMMA Bounds == MaxVersion \in Nat /\ MaxFaults \in Nat /\ Version \subseteq Nat /\ 0 \in Version
  BY OverviewConstants DEF Version

LEMMA NoRequestType ==
  /\ NoAnswer \in Answers /\ NoRequest \in Request
  /\ NoRequest.pc = "idle" /\ NoRequest.key = 0 /\ NoRequest.got.version = -1 /\ NoAnswer.version = -1
  BY Bounds DEF NoAnswer, NoRequest, Answers, Request, WordsStatus

LEMMA WordsType == \A v : Words(v) \in WordsStatus
  BY DEF Words, WordsStatus

LEMMA InitOverviewInv == Init => OverviewInv
<1> SUFFICES ASSUME Init PROVE OverviewInv
  OBVIOUS
<1>1. /\ version = 0 /\ ended = "none" /\ outcome = [v \in Version |-> "none"]
      /\ cache = [v \in Version |-> Missing] /\ lock = [v \in Version |-> FALSE]
      /\ rd = [r \in Readers |-> NoRequest] /\ faults = 0
  BY DEF Init, PromiseInit
<1>2. TypeOK
  BY <1>1, Bounds, NoRequestType DEF TypeOK, Outcome
<1>3. \A r \in Readers : Sound(rd[r])
  BY <1>1, NoRequestType DEF Sound, NoRequest
<1> QED
  BY <1>1, <1>2, <1>3 DEF OverviewInv

------------------------------------------------------------------------------
(***************************************************************************)
(* A step of a reader, by what becomes of its request.                       *)
(***************************************************************************)

Turned(r, q) == q \in Request /\ rd' = [rd EXCEPT ![r] = q]

\* The entry of the reader's key may be filled with its answer, or emptied.
Entries(r) ==
  /\ DOMAIN cache' = Version
  /\ \A v \in Version : \/ cache'[v] \in {cache[v], Missing}
                        \/ v = Key(r) /\ rd[r].pc = "store" /\ cache'[v] = rd[r].got

LEMMA TurnedRequests ==
  ASSUME rd \in [Readers -> Request], NEW r \in Readers, NEW q, Turned(r, q)
  PROVE  /\ rd' \in [Readers -> Request] /\ rd'[r] = q
         /\ \A x \in Readers \ {r} : rd'[x] = rd[x]
  BY DEF Turned

LEMMA TurnInv ==
  ASSUME OverviewInv, NEW r \in Readers, NEW q, Turned(r, q), Sound(q), Entries(r),
         UNCHANGED pvars, lock' \in [Version -> BOOLEAN], faults' \in 0..MaxFaults
  PROVE  OverviewInv'
<1>1. UNCHANGED <<version, ended, outcome>> /\ rd \in [Readers -> Request]
  BY DEF pvars, OverviewInv, TypeOK
<1>2. /\ rd' \in [Readers -> Request] /\ rd'[r] = q
      /\ \A x \in Readers \ {r} : rd'[x] = rd[x]
  BY <1>1, TurnedRequests
<1>3. \A x \in Readers : Sound(rd[x])'
  BY <1>1, <1>2 DEF Sound, OverviewInv
<1>4. ASSUME NEW v \in Version
      PROVE  /\ cache'[v] \in Answers \cup {Missing}
             /\ cache'[v] # Missing => v <= cache'[v].version /\ cache'[v].version <= version
  <2>1. CASE cache'[v] \in {cache[v], Missing}
    BY <2>1 DEF OverviewInv, TypeOK
  <2>2. CASE v = Key(r) /\ rd[r].pc = "store" /\ cache'[v] = rd[r].got
    <3>1. rd[r] \in Request /\ Sound(rd[r])
      BY <1>1 DEF OverviewInv
    <3> QED
      BY <2>2, <3>1 DEF Request, Sound, Key
  <2> QED
    BY <2>1, <2>2 DEF Entries
<1>5. TypeOK'
  BY <1>1, <1>2, <1>4 DEF OverviewInv, TypeOK
<1> QED
  BY <1>1, <1>3, <1>4, <1>5 DEF OverviewInv, Entries

------------------------------------------------------------------------------
(***************************************************************************)
(* The promise, as the instance names its state.                             *)
(***************************************************************************)

Since == [r \in Readers |-> rd[r].key]
Shown == [r \in Readers |-> IF rd[r].pc = "idle" THEN rd[r].got.version ELSE -1]

Promised == [Reads!Next]_<<version, Since, Shown>>

\* What a reader's step is to the promise: nothing, an answer, or the end of a request
\* without one.
Turns(r, q) ==
  \/ rd[r].pc # "idle" /\ q.pc # "idle" /\ q.key = rd[r].key
  \/ /\ rd[r].pc # "idle" /\ q.pc = "idle" /\ q.key = 0
     /\ q.got.version = -1 \/ q.got.version \in rd[r].key..version
  \/ rd[r].pc = "idle" /\ q.pc # "idle" /\ q.key = version

LEMMA TurnPromised ==
  ASSUME OverviewInv, NEW r \in Readers, NEW q, Turned(r, q), Turns(r, q), version' = version
  PROVE  Promised
<1>1. /\ rd'[r] = q /\ \A x \in Readers \ {r} : rd'[x] = rd[x]
  BY TurnedRequests DEF OverviewInv, TypeOK
<1>2. /\ Since' = [Since EXCEPT ![r] = q.key]
      /\ Shown' = [Shown EXCEPT ![r] = IF q.pc = "idle" THEN q.got.version ELSE -1]
  BY <1>1 DEF Since, Shown
<1>3. /\ Since = [Since EXCEPT ![r] = rd[r].key]
      /\ Shown = [Shown EXCEPT ![r] = IF rd[r].pc = "idle" THEN rd[r].got.version ELSE -1]
      /\ Since[r] = rd[r].key /\ Shown[r] = IF rd[r].pc = "idle" THEN rd[r].got.version ELSE -1
  BY DEF Since, Shown
<1>4. CASE rd[r].pc # "idle" /\ q.pc # "idle" /\ q.key = rd[r].key
  <2>1. Since' = Since /\ Shown' = Shown
    BY <1>2, <1>3, <1>4
  <2> QED
    BY <2>1 DEF Promised
<1>5. CASE rd[r].pc # "idle" /\ q.pc = "idle" /\ q.key = 0 /\ q.got.version = -1
  <2>1. Since' = [Since EXCEPT ![r] = 0] /\ Shown' = Shown
    BY <1>2, <1>3, <1>5
  <2>2. Reads!GiveUp(r)
    BY <2>1 DEF Reads!GiveUp, Since, Shown
  <2> QED
    BY <2>2 DEF Promised, Reads!Next
<1>6. CASE rd[r].pc # "idle" /\ q.pc = "idle" /\ q.key = 0 /\ q.got.version \in rd[r].key..version
  <2>1. /\ Since' = [Since EXCEPT ![r] = 0] /\ Shown[r] = -1
        /\ \E v \in Since[r]..version : Shown' = [Shown EXCEPT ![r] = v]
    BY <1>2, <1>3, <1>6
  <2>2. Reads!Answer(r)
    BY <2>1 DEF Reads!Answer, Since, Shown
  <2> QED
    BY <2>2 DEF Promised, Reads!Next
<1>7. CASE rd[r].pc = "idle" /\ q.pc # "idle" /\ q.key = version
  <2>1. Since' = [Since EXCEPT ![r] = version] /\ Shown' = [Shown EXCEPT ![r] = -1]
    BY <1>2, <1>7
  <2>2. Reads!Ask(r)
    BY <2>1 DEF Reads!Ask, Since, Shown
  <2> QED
    BY <2>2 DEF Promised, Reads!Next
<1> QED
  BY <1>4, <1>5, <1>6, <1>7 DEF Turns

------------------------------------------------------------------------------
(***************************************************************************)
(* The steps of a reader.                                                    *)
(***************************************************************************)

Result == OverviewInv' /\ Promised

Serves(r, q) ==
  /\ Turned(r, q) /\ Sound(q) /\ Turns(r, q) /\ Entries(r)
  /\ UNCHANGED pvars /\ lock' \in [Version -> BOOLEAN] /\ faults' \in 0..MaxFaults

LEMMA ServesResult ==
  ASSUME OverviewInv, NEW r \in Readers, NEW q, Serves(r, q)
  PROVE  Result
<1>1. version' = version
  BY DEF Serves, pvars
<1> QED
  BY <1>1, TurnInv, TurnPromised DEF Serves, Result

LEMMA ReaderIs ==
  ASSUME OverviewInv, NEW r \in Readers
  PROVE  /\ rd[r] \in Request /\ Sound(rd[r]) /\ Key(r) = rd[r].key /\ Key(r) \in Version
         /\ version \in Version /\ Key(r) \in Nat /\ version \in Nat
         /\ lock \in [Version -> BOOLEAN] /\ faults \in 0..MaxFaults
  BY Bounds DEF OverviewInv, TypeOK, Request, Key

\* A request with an answer is over.
Answered(answer) == [NoRequest EXCEPT !.got = answer]

LEMMA AnsweredType ==
  ASSUME NEW answer \in Answers
  PROVE  /\ Answered(answer) \in Request /\ Answered(answer).pc = "idle"
         /\ Answered(answer).key = 0 /\ Answered(answer).got = answer
<1>1. NoRequest \in Request /\ NoRequest.pc = "idle" /\ NoRequest.key = 0
  BY NoRequestType
<1> QED
  BY <1>1 DEF Answered, Request

LEMMA Responds ==
  ASSUME OverviewInv, NEW r \in Readers, NEW answer \in Answers, Respond(r, answer),
         rd[r].pc # "idle", Key(r) <= answer.version, answer.version <= version,
         Entries(r), UNCHANGED pvars, lock' \in [Version -> BOOLEAN], faults' \in 0..MaxFaults
  PROVE  Result
<1> DEFINE q == Answered(answer)
<1>1. /\ q \in Request /\ q.pc = "idle" /\ q.key = 0 /\ q.got = answer
  BY AnsweredType
<1>2. rd' = [rd EXCEPT ![r] = q]
  BY DEF Respond, Answered
<1> HIDE DEF q
<1>3. Turned(r, q)
  BY <1>1, <1>2 DEF Turned
<1>4. answer.version \in Int /\ Key(r) = rd[r].key /\ Key(r) \in Nat /\ version \in Nat
  BY ReaderIs DEF Answers
<1>5. Sound(q)
  BY <1>1, <1>4 DEF Sound
<1>6. Turns(r, q)
  BY <1>1, <1>4 DEF Turns
<1> QED
  BY <1>3, <1>5, <1>6, ServesResult DEF Serves

LEMMA SameEntries ==
  ASSUME OverviewInv, cache' = cache, NEW r
  PROVE  Entries(r)
<1>1. DOMAIN cache' = Version
  BY DEF OverviewInv
<1>2. \A v \in Version : cache'[v] \in {cache[v], Missing}
  OBVIOUS
<1> QED
  BY <1>1, <1>2 DEF Entries

\* A request goes on, its answer as it is.
LEMMA GoesOn ==
  ASSUME OverviewInv, NEW r \in Readers,
         NEW pc \in {"wait", "version"}, NEW owns \in BOOLEAN, rd[r].pc # "idle",
         Turned(r, [rd[r] EXCEPT !.pc = pc, !.owns = owns]),
         cache' = cache, UNCHANGED pvars, lock' \in [Version -> BOOLEAN], faults' \in 0..MaxFaults
  PROVE  Result
<1> DEFINE q == [rd[r] EXCEPT !.pc = pc, !.owns = owns]
<1>1. q.pc = pc /\ q.key = rd[r].key /\ q.got = rd[r].got
  BY ReaderIs DEF Request
<1>2. Turned(r, q)
  OBVIOUS
<1> HIDE DEF q
<1>3. Sound(q) /\ Turns(r, q)
  BY <1>1, ReaderIs DEF Sound, Turns
<1>4. Entries(r)
  BY SameEntries
<1> QED
  BY <1>2, <1>3, <1>4, ServesResult DEF Serves

LEMMA Stepped ==
  ASSUME OverviewInv, NEW r \in Readers, NEW pc \in {"wait", "version"}, Step(r, pc)
  PROVE  Turned(r, [rd[r] EXCEPT !.pc = pc, !.owns = rd[r].owns]) /\ rd[r].owns \in BOOLEAN
<1>1. rd[r] \in Request
  BY ReaderIs
<1>2. /\ [rd[r] EXCEPT !.pc = pc, !.owns = rd[r].owns] \in Request
      /\ [rd[r] EXCEPT !.pc = pc, !.owns = rd[r].owns] = [rd[r] EXCEPT !.pc = pc]
  BY <1>1 DEF Request
<1> QED
  BY <1>1, <1>2 DEF Turned, Step, Request

LEMMA MissResult ==
  ASSUME OverviewInv, NEW r \in Readers, rd[r].pc = "get", Miss(r), cache' = cache,
         UNCHANGED pvars, faults' \in 0..MaxFaults
  PROVE  Result
<1>1. lock' \in [Version -> BOOLEAN]
  BY ReaderIs DEF Miss
<1>2. CASE lock[Key(r)]
  BY <1>1, <1>2, Stepped, GoesOn DEF Miss
<1>3. CASE ~lock[Key(r)]
  <2> DEFINE q == [rd[r] EXCEPT !.pc = "version", !.owns = TRUE]
  <2>1. rd[r] \in Request /\ rd \in [Readers -> Request]
    BY DEF OverviewInv, TypeOK
  <2>2. q \in Request
    BY <2>1 DEF Request
  <2>3. rd' = [rd EXCEPT ![r] = q]
    BY <1>3, <2>1 DEF Miss
  <2>4. Turned(r, q)
    BY <2>2, <2>3 DEF Turned
  <2> QED
    BY <1>1, <2>4, GoesOn
<1> QED
  BY <1>2, <1>3

LEMMA AskResult ==
  ASSUME OverviewInv, NEW r \in Readers, Ask(r)
  PROVE  Result
<1> DEFINE q == [rd[r] EXCEPT !.pc = "get", !.key = version, !.got = NoAnswer]
<1>1. rd[r] \in Request /\ rd \in [Readers -> Request] /\ version \in Version
  BY DEF OverviewInv, TypeOK
<1>2. q \in Request /\ q.pc = "get" /\ q.key = version /\ q.got = NoAnswer
  BY <1>1, NoRequestType DEF Request
<1>3. rd' = [rd EXCEPT ![r] = q]
  BY <1>1 DEF Ask
<1> HIDE DEF q
<1>4. Turned(r, q) /\ version \in Nat /\ NoAnswer.version = -1
  BY <1>1, <1>2, <1>3, Bounds, NoRequestType DEF Turned
<1>5. Sound(q) /\ Turns(r, q)
  BY <1>2, <1>4 DEF Sound, Turns, Ask
<1>6. Entries(r) /\ UNCHANGED pvars /\ lock' \in [Version -> BOOLEAN] /\ faults' \in 0..MaxFaults
  BY ReaderIs, SameEntries DEF Ask
<1> QED
  BY <1>4, <1>5, <1>6, ServesResult DEF Serves

\* An entry of a reader's key answers it.
LEMMA EntryAnswers ==
  ASSUME OverviewInv, NEW r \in Readers, cache[Key(r)] # Missing
  PROVE  /\ cache[Key(r)] \in Answers
         /\ Key(r) <= cache[Key(r)].version /\ cache[Key(r)].version <= version
  BY ReaderIs DEF OverviewInv, TypeOK

LEMMA GetResult ==
  ASSUME OverviewInv, NEW r \in Readers, Get(r)
  PROVE  Result
<1>1. cache' = cache /\ UNCHANGED pvars /\ faults' \in 0..MaxFaults /\ Entries(r)
  BY ReaderIs, SameEntries DEF Get
<1>2. CASE cache[Key(r)] = Missing
  BY <1>1, <1>2, MissResult DEF Get
<1>3. CASE cache[Key(r)] # Missing
  <2>1. lock' \in [Version -> BOOLEAN] /\ Respond(r, cache[Key(r)]) /\ rd[r].pc # "idle"
    BY <1>3, ReaderIs DEF Get
  <2> QED
    BY <1>1, <1>3, <2>1, EntryAnswers, Responds
<1> QED
  BY <1>2, <1>3

LEMMA WaitResult ==
  ASSUME OverviewInv, NEW r \in Readers, Wait(r)
  PROVE  Result
<1>1. /\ cache' = cache /\ UNCHANGED pvars /\ faults' \in 0..MaxFaults /\ Entries(r)
      /\ lock' \in [Version -> BOOLEAN] /\ rd[r].pc # "idle"
  BY ReaderIs, SameEntries DEF Wait
<1>2. CASE cache[Key(r)] # Missing /\ Respond(r, cache[Key(r)])
  BY <1>1, <1>2, EntryAnswers, Responds
<1>3. CASE Step(r, "version")
  BY <1>1, <1>3, Stepped, GoesOn
<1> QED
  BY <1>2, <1>3 DEF Wait

LEMMA LoadVersionResult ==
  ASSUME OverviewInv, NEW r \in Readers, LoadVersion(r)
  PROVE  Result
<1> DEFINE q == [rd[r] EXCEPT !.pc = "rest", !.got = [NoAnswer EXCEPT !.version = version]]
<1>1. rd[r] \in Request /\ rd \in [Readers -> Request] /\ version \in Version /\ version \in Nat
      /\ rd[r].key \in Nat
  BY Bounds DEF OverviewInv, TypeOK, Request
<1>2. version \in -1..MaxVersion
  BY <1>1, Bounds DEF Version
<1>3. [NoAnswer EXCEPT !.version = version] \in Answers
  BY <1>2 DEF NoAnswer, Answers, WordsStatus
<1>4. q \in Request /\ q.pc = "rest" /\ q.key = rd[r].key /\ q.got.version = version
  BY <1>1, <1>3 DEF Request, NoAnswer
<1>5. rd' = [rd EXCEPT ![r] = q] /\ rd[r].pc # "idle"
  BY <1>1 DEF LoadVersion
<1> HIDE DEF q
<1>6. Turned(r, q) /\ rd[r].key <= version
  BY <1>4, <1>5, ReaderIs DEF Turned, Sound
<1>7. Sound(q) /\ Turns(r, q)
  BY <1>1, <1>4, <1>5, <1>6 DEF Sound, Turns
<1>8. Entries(r) /\ UNCHANGED pvars /\ lock' \in [Version -> BOOLEAN] /\ faults' \in 0..MaxFaults
  BY ReaderIs, SameEntries DEF LoadVersion
<1> QED
  BY <1>6, <1>7, <1>8, ServesResult DEF Serves

LEMMA LoadRestResult ==
  ASSUME OverviewInv, NEW r \in Readers, LoadRest(r)
  PROVE  Result
<1> DEFINE answer == [rd[r].got EXCEPT !.words = Words(rd[r].got.version)]
           q == [rd[r] EXCEPT !.pc = "store", !.got = answer]
<1>1. rd[r] \in Request /\ rd \in [Readers -> Request] /\ rd[r].got \in Answers /\ rd[r].pc = "rest"
  BY DEF OverviewInv, TypeOK, Request, LoadRest
<1>2. answer \in Answers /\ answer.version = rd[r].got.version
  BY <1>1, WordsType DEF Answers
<1>3. Key(r) <= answer.version /\ answer.version <= version
  BY <1>1, <1>2, ReaderIs DEF Sound
<1>4. Entries(r) /\ UNCHANGED pvars /\ lock' \in [Version -> BOOLEAN] /\ faults' \in 0..MaxFaults
  BY ReaderIs, SameEntries DEF LoadRest
<1>5. CASE rd[r].owns
  <2>1. rd' = [rd EXCEPT ![r] = q]
    BY <1>1, <1>5 DEF LoadRest
  <2> HIDE DEF answer
  <2>2. q \in Request /\ q.pc = "store" /\ q.key = rd[r].key /\ q.got = answer
    BY <1>1, <1>2 DEF Request
  <2> HIDE DEF q
  <2>3. Turned(r, q)
    BY <2>1, <2>2 DEF Turned
  <2>4. Sound(q) /\ Turns(r, q)
    BY <1>1, <1>3, <2>2, ReaderIs DEF Sound, Turns
  <2> QED
    BY <1>4, <2>3, <2>4, ServesResult DEF Serves
<1>6. CASE ~rd[r].owns
  <2>1. Respond(r, answer) /\ rd[r].pc # "idle"
    BY <1>1, <1>6 DEF LoadRest
  <2> HIDE DEF answer
  <2> QED
    BY <1>2, <1>3, <1>4, <2>1, Responds
<1> QED
  BY <1>5, <1>6

\* What the owner of a lock does with the entry and the lock, all of it or not.
LEMMA StoreResult ==
  ASSUME OverviewInv, NEW r \in Readers, rd[r].pc = "store", Respond(r, rd[r].got),
         cache' = [cache EXCEPT ![Key(r)] = rd[r].got] \/ cache' = cache,
         lock' = [lock EXCEPT ![Key(r)] = FALSE] \/ lock' = lock,
         UNCHANGED pvars, faults' \in 0..MaxFaults
  PROVE  Result
<1>1. rd[r] \in Request /\ rd[r].got \in Answers /\ Key(r) <= rd[r].got.version
      /\ rd[r].got.version <= version
  BY ReaderIs DEF Request, Sound
<1>2. lock' \in [Version -> BOOLEAN]
  BY ReaderIs
<1>3. Entries(r)
  <2>1. CASE cache' = cache
    BY <2>1, SameEntries
  <2>2. CASE cache' = [cache EXCEPT ![Key(r)] = rd[r].got]
    <3>1. DOMAIN cache' = Version
      BY <2>2 DEF OverviewInv
    <3>2. \A v \in Version : cache'[v] = IF v = Key(r) THEN rd[r].got ELSE cache[v]
      BY <2>2 DEF OverviewInv
    <3> QED
      BY <3>1, <3>2 DEF Entries
  <2> QED
    BY <2>1, <2>2
<1> QED
  BY <1>1, <1>2, <1>3, Responds

LEMMA FaultCounts == OverviewInv /\ Fault => faults' \in 0..MaxFaults
  BY Bounds DEF OverviewInv, TypeOK, Fault

LEMMA RedisFailsResult ==
  ASSUME OverviewInv, NEW r \in Readers, RedisFails(r)
  PROVE  Result
<1>1. UNCHANGED pvars /\ faults' \in 0..MaxFaults
  BY FaultCounts DEF RedisFails
<1>2. CASE rd[r].pc = "get" /\ Miss(r) /\ UNCHANGED cache
  BY <1>1, <1>2, MissResult
<1>3. CASE rd[r].pc = "get" /\ Step(r, "wait") /\ UNCHANGED <<cache, lock>>
  BY <1>1, <1>3, ReaderIs, Stepped, GoesOn
<1>4. CASE rd[r].pc = "store" /\ Respond(r, rd[r].got)
           /\ \/ cache' = [cache EXCEPT ![Key(r)] = rd[r].got] /\ UNCHANGED lock
              \/ lock' = [lock EXCEPT ![Key(r)] = FALSE] /\ UNCHANGED cache
              \/ UNCHANGED <<cache, lock>>
  BY <1>1, <1>4, StoreResult
<1> QED
  BY <1>2, <1>3, <1>4 DEF RedisFails

LEMMA DiesResult ==
  ASSUME OverviewInv, NEW r \in Readers, Dies(r)
  PROVE  Result
<1>1. Turned(r, NoRequest) /\ rd[r].pc # "idle"
  BY NoRequestType DEF Dies, Turned
<1>2. Sound(NoRequest) /\ Turns(r, NoRequest)
  BY <1>1, NoRequestType, ReaderIs DEF Sound, Turns
<1>3. Entries(r) /\ UNCHANGED pvars /\ lock' \in [Version -> BOOLEAN] /\ faults' \in 0..MaxFaults
  BY ReaderIs, SameEntries, FaultCounts DEF Dies
<1> QED
  BY <1>1, <1>2, <1>3, ServesResult DEF Serves

LEMMA ReaderResult ==
  ASSUME OverviewInv, NEW r \in Readers, Ask(r) \/ Serve(r) \/ RedisFails(r) \/ Dies(r)
  PROVE  Result
<1>1. CASE Store(r)
  <2>1. faults' \in 0..MaxFaults
    BY <1>1, ReaderIs DEF Store
  <2> QED
    BY <1>1, <2>1, StoreResult DEF Store
<1>2. CASE Serve(r)
  BY <1>1, <1>2, GetResult, WaitResult, LoadVersionResult, LoadRestResult DEF Serve
<1> QED
  BY <1>2, AskResult, RedisFailsResult, DiesResult

------------------------------------------------------------------------------
(***************************************************************************)
(* The steps of the database and of time.                                    *)
(***************************************************************************)

LEMMA SameReaders ==
  ASSUME rd' = rd
  PROVE  Since' = Since /\ Shown' = Shown
  BY DEF Since, Shown

LEMMA EnvironmentResult ==
  ASSUME OverviewInv, Environment, UNCHANGED <<cache, lock, rd, faults>>
  PROVE  Result
<1>1. version \in Version /\ outcome \in [Version -> Outcome] /\ version \in Nat
  BY Bounds DEF OverviewInv, TypeOK
<1>2. /\ version' \in {version, version + 1} /\ version' \in Version
      /\ ended' \in {"none", "completed", "failed"} /\ outcome' \in [Version -> Outcome]
  <2>1. ASSUME NEW how \in {"completed", "failed"}, End(TRUE, how)
        PROVE  /\ version' = version + 1 /\ version' \in Version
               /\ ended' \in {"none", "completed", "failed"} /\ outcome' \in [Version -> Outcome]
    <3>1. version' = version + 1 /\ version < MaxVersion /\ ended' = how
      BY <2>1 DEF End
    <3>2. outcome' \in [Version -> Outcome]
      BY <1>1, <2>1 DEF End, Outcome
    <3> QED
      BY <1>1, <3>1, <3>2, Bounds DEF Version
  <2>2. CASE Order
    <3>1. UNCHANGED <<version, ended>> /\ outcome' = [outcome EXCEPT ![version] = "open"]
      BY <2>2 DEF Order
    <3>2. outcome' \in [Version -> Outcome]
      BY <1>1, <3>1 DEF Outcome
    <3> QED
      BY <1>1, <3>1, <3>2 DEF OverviewInv, TypeOK
  <2>3. ASSUME NEW v \in Version, NEW s \in {"completed", "failed"}, Settle(v, s)
        PROVE  UNCHANGED <<version, ended>> /\ outcome' \in [Version -> Outcome]
    <3>1. UNCHANGED <<version, ended>> /\ outcome' = [outcome EXCEPT ![v] = s]
      BY <2>3 DEF Settle
    <3> QED
      BY <1>1, <3>1 DEF Outcome
  <2> QED
    BY <1>1, <2>1, <2>2, <2>3 DEF Environment, OverviewInv, TypeOK
<1>3. version <= version'
  BY <1>1, <1>2
<1>4. ASSUME NEW r \in Readers PROVE Sound(rd[r])'
  <2>1. Sound(rd[r]) /\ rd'[r] = rd[r] /\ rd[r].key \in Int /\ rd[r].got.version \in Int
    BY ReaderIs, Bounds DEF OverviewInv, Request, Answers
  <2> QED
    BY <1>1, <1>2, <1>3, <2>1 DEF Sound
<1>5. ASSUME NEW v \in Version, cache'[v] # Missing
      PROVE  v <= cache'[v].version /\ cache'[v].version <= version'
  <2>1. cache[v] \in Answers /\ cache'[v] = cache[v]
    BY <1>5 DEF OverviewInv, TypeOK
  <2>2. v <= cache[v].version /\ cache[v].version <= version /\ cache[v].version \in Int
    BY <1>5, <2>1 DEF OverviewInv, Answers
  <2> QED
    BY <1>1, <1>2, <1>3, <2>1, <2>2
<1>6. TypeOK'
  BY <1>2 DEF OverviewInv, TypeOK
<1>7. OverviewInv'
  BY <1>4, <1>5, <1>6 DEF OverviewInv
<1>8. Since' = Since /\ Shown' = Shown
  BY SameReaders
<1>9. CASE version' = version
  BY <1>7, <1>8, <1>9 DEF Promised, Result
<1>10. CASE version' = version + 1
  <2>1. Reads!Publish
    BY <1>8, <1>10 DEF Reads!Publish, Since, Shown
  <2> QED
    BY <1>7, <2>1 DEF Promised, Reads!Next, Result
<1> QED
  BY <1>2, <1>9, <1>10

LEMMA ExpiryResult ==
  ASSUME OverviewInv, NEW v \in Version, EntryExpires(v) \/ LockExpires(v)
  PROVE  Result
<1>1. /\ UNCHANGED <<version, ended, outcome, rd, faults>>
      /\ lock' \in [Version -> BOOLEAN] /\ DOMAIN cache' = Version
      /\ \A u \in Version : cache'[u] \in {cache[u], Missing}
  BY DEF EntryExpires, LockExpires, pvars, OverviewInv, TypeOK
<1>2. TypeOK'
  BY <1>1 DEF OverviewInv, TypeOK
<1>3. \A r \in Readers : Sound(rd[r])'
  BY <1>1 DEF OverviewInv, Sound
<1>4. OverviewInv'
  BY <1>1, <1>2, <1>3 DEF OverviewInv
<1> QED
  BY <1>1, <1>4, SameReaders DEF Result, Promised

LEMMA NextResult ==
  ASSUME OverviewInv, [Next]_vars
  PROVE  Result
<1>1. CASE UNCHANGED vars
  <2>1. UNCHANGED <<version, ended, outcome, cache, lock, rd, faults>>
    BY <1>1 DEF vars, pvars
  <2>2. OverviewInv'
    BY <2>1 DEF OverviewInv, TypeOK, Sound
  <2> QED
    BY <2>1, <2>2, SameReaders DEF Result, Promised
<1> QED
  BY <1>1, EnvironmentResult, ReaderResult, ExpiryResult DEF Next

------------------------------------------------------------------------------
LEMMA Invariance == Spec => []OverviewInv
<1>1. OverviewInv /\ [Next]_vars => OverviewInv'
  BY NextResult DEF Result
<1> QED
  BY InitOverviewInv, <1>1, PTL DEF Spec

\* Entries, locks and requests are of their types: an entry is an answer or nothing.
THEOREM OverviewTypeCorrect == Spec => []TypeOK
<1>1. OverviewInv => TypeOK
  BY DEF OverviewInv
<1> QED
  BY Invariance, <1>1, PTL

\* An answer shows a data version no older than the one current when it was asked for,
\* from the cache or not, whoever dies, whatever expires and however late an entry is
\* written (DerivedCache.get_or_load).
THEOREM ReadsStayFresh == Spec => ReadsAreFresh
<1>1. Init => Reads!Init
  BY NoRequestType DEF Init, PromiseInit, Reads!Init
<1>2. OverviewInv /\ [Next]_vars =>
        [Reads!Next]_<<version, [r \in Readers |-> rd[r].key],
                      [r \in Readers |-> IF rd[r].pc = "idle" THEN rd[r].got.version ELSE -1]>>
  BY NextResult DEF Result, Promised, Since, Shown
<1> QED
  BY <1>1, <1>2, Invariance, PTL DEF Spec, ReadsAreFresh, Reads!Spec

==============================================================================
