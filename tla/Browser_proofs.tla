---------------------------- MODULE Browser_proofs ----------------------------
(***************************************************************************)
(* Proofs about what the browser does beside a running collector, for any   *)
(* number of jobs, versions, rows, requests and failures:                   *)
(*   Workbench  type correctness, that the polling goes on, and that the    *)
(*              page never goes back to an older overview;                   *)
(*   Pages      type correctness, that a list that is scrolled through      *)
(*              shows what its listing holds, and that it stays one listing. *)
(***************************************************************************)
EXTENDS Workbench, Pages, FiniteSetTheorems, SequenceTheorems, TLAPS

------------------------------------------------------------------------------
(* Workbench: the inductive invariant. *)

\* The target's active job is the latest one.
LatestActive == active => jobs \in Job

\* What is on the page is no newer than the target, and no newer than anything the latest
\* refresh can bring: its answer, or the version it was asked at.
PageBehind ==
    /\ seen <= version /\ since["page"] <= version
    /\ answer["page"] >= 0 => results /\ seen <= answer["page"] /\ answer["page"] <= version
    /\ results /\ answer["page"] < 0 => seen <= since["page"]

BrowserInv == TypeOK /\ LatestActive /\ PollingGoesOn /\ PageBehind

------------------------------------------------------------------------------
LEMMA AnswerIs ==
  ASSUME TypeOK
  PROVE  /\ answer["page"] \in -1..MaxVersion /\ since["page"] \in Version
         /\ answer = Nothing <=> answer["page"] < 0
<1>1. answer \in [{"page"} -> -1..MaxVersion] /\ since \in [{"page"} -> Version]
  BY DEF TypeOK
<1>2. answer["page"] \in -1..MaxVersion
  BY <1>1
<1>3. answer = Nothing <=> answer["page"] = -1
  BY <1>1 DEF Nothing
<1> QED
  BY <1>1, <1>2, <1>3, WorkbenchConstants

LEMMA NumberTypes ==
  ASSUME TypeOK
  PROVE  /\ version \in Nat /\ seen \in Nat /\ since["page"] \in Nat /\ answer["page"] \in Int
         /\ version <= MaxVersion /\ MaxVersion \in Nat /\ MaxJobs \in Nat /\ jobs \in Nat
  BY AnswerIs, WorkbenchConstants DEF TypeOK, Version

LEMMA FailsType == TypeOK /\ Fails => failures' \in 0..MaxFailures
  BY WorkbenchConstants DEF TypeOK, Fails

LEMMA ActiveType == TypeOK /\ LatestActive => Active \subseteq Job
  BY DEF Active, LatestActive

\* Every step but those of the overview, and the ends of jobs, leaves the page where it is.
LEMMA PageKept ==
  ASSUME PageBehind, UNCHANGED <<version, overview>>
  PROVE  PageBehind'
  BY DEF PageBehind, overview

\* A newer version puts nothing ahead of the target.
LEMMA VersionGrows ==
  ASSUME TypeOK, PageBehind, version < MaxVersion, version' = version + 1, UNCHANGED overview
  PROVE  PageBehind' /\ version' \in Version
<1>1. version \in Nat /\ seen \in Nat /\ since["page"] \in Nat /\ answer["page"] \in Int /\ MaxVersion \in Nat
  BY NumberTypes
<1> QED
  BY <1>1 DEF PageBehind, overview, Version

------------------------------------------------------------------------------
LEMMA InitInv == Init => BrowserInv
<1> SUFFICES ASSUME Init PROVE BrowserInv
  OBVIOUS
<1>1. version = 0 /\ since = [r \in {"page"} |-> 0] /\ answer = [r \in {"page"} |-> -1]
  BY DEF Init, API!Init
<1>2. 0 \in Version /\ -1 \in -1..MaxVersion /\ 0 \in 0..MaxJobs /\ 0 \in 0..MaxFailures
  BY WorkbenchConstants DEF Version
<1>3. TypeOK
  BY <1>1, <1>2 DEF Init, TypeOK, Quiet
<1>4. LatestActive /\ PollingGoesOn
  BY DEF Init, LatestActive, PollingGoesOn, InFlight, Quiet
<1>5. PageBehind
  <2>1. version = 0 /\ seen = 0 /\ since["page"] = 0 /\ answer["page"] = -1 /\ ~results
    BY <1>1 DEF Init
  <2> QED
    BY <2>1 DEF PageBehind
<1> QED
  BY <1>3, <1>4, <1>5 DEF BrowserInv

\* The service.
LEMMA ServiceInv ==
  ASSUME BrowserInv, JobEnds \/ OtherJobEnds \/ Submit
  PROVE  BrowserInv'
<1>1. CASE JobEnds
  <2>1. PageBehind' /\ version' \in Version
    BY <1>1, VersionGrows DEF BrowserInv, JobEnds
  <2>2. ends' \in [Job -> Version]
    BY <1>1, <2>1 DEF BrowserInv, TypeOK, JobEnds
  <2> QED
    BY <1>1, <2>1, <2>2 DEF BrowserInv, TypeOK, JobEnds, polling, overview, LatestActive, PollingGoesOn, InFlight
<1>2. CASE OtherJobEnds
  <2>1. PageBehind' /\ version' \in Version
    BY <1>2, VersionGrows DEF BrowserInv, OtherJobEnds
  <2> QED
    BY <1>2, <2>1 DEF BrowserInv, TypeOK, OtherJobEnds, polling, overview, LatestActive, PollingGoesOn, InFlight
<1>3. CASE Submit
  <2>1. jobs + 1 \in Job /\ jobs + 1 \in 0..MaxJobs
    BY <1>3, NumberTypes DEF BrowserInv, Submit, TypeOK, Job
  <2>2. PageBehind'
    BY <1>3, PageKept DEF BrowserInv, Submit
  <2> QED
    BY <1>3, <2>1, <2>2 DEF BrowserInv, TypeOK, Submit, polling, overview, LatestActive, PollingGoesOn, InFlight
<1> QED
  BY <1>1, <1>2, <1>3

LEMMA WakeKeeps ==
  ASSUME TypeOK, PollingGoesOn, Wake, UNCHANGED poll
  PROVE  PollingGoesOn' /\ timer' \in BOOLEAN /\ again' \in BOOLEAN
<1>1. timer \in BOOLEAN /\ again \in BOOLEAN
  BY DEF TypeOK
<1>2. InFlight' = InFlight /\ InFlight \in BOOLEAN
  BY DEF InFlight
<1>3. CASE InFlight
  <2>1. timer' = timer /\ again' = TRUE
    BY <1>3 DEF Wake
  <2> QED
    BY <1>1, <1>2, <2>1 DEF PollingGoesOn
<1>4. CASE ~InFlight
  <2>1. timer' = TRUE /\ again' = again
    BY <1>4 DEF Wake
  <2>2. InFlight' = FALSE
    BY <1>2, <1>4
  <2> QED
    BY <1>1, <2>1, <2>2 DEF PollingGoesOn
<1> QED
  BY <1>3, <1>4

\* The answers to launches and to requests for the list of sources wake the polling.
LEMMA LaunchInv ==
  ASSUME BrowserInv, LaunchAnswered \/ LaunchFails
  PROVE  BrowserInv'
<1>1. launch # 0 => launch \in Job
  BY WorkbenchConstants DEF BrowserInv, TypeOK, Job
<1>2. CASE LaunchAnswered
  <2>1. PollingGoesOn' /\ timer' \in BOOLEAN /\ again' \in BOOLEAN
    BY <1>2, WakeKeeps DEF BrowserInv, LaunchAnswered
  <2>2. PageBehind'
    BY <1>2, PageKept DEF BrowserInv, LaunchAnswered, service
  <2>3. 0 \in 0..MaxJobs
    BY WorkbenchConstants
  <2> QED
    BY <1>1, <1>2, <2>1, <2>2, <2>3 DEF BrowserInv, TypeOK, LaunchAnswered, service, overview, LatestActive
<1>3. CASE LaunchFails
  <2>1. PageBehind'
    BY <1>3, PageKept DEF BrowserInv, LaunchFails, service
  <2>2. failures' \in 0..MaxFailures /\ 0 \in 0..MaxJobs
    BY <1>3, FailsType, WorkbenchConstants DEF BrowserInv, LaunchFails
  <2> QED
    BY <1>1, <1>3, <2>1, <2>2
       DEF BrowserInv, TypeOK, LaunchFails, service, polling, overview, LatestActive, PollingGoesOn, InFlight
<1> QED
  BY <1>2, <1>3

LEMMA SourcesInv ==
  ASSUME BrowserInv, SourcesLoad \/ SourcesFail
  PROVE  BrowserInv'
<1>1. Active \subseteq Job
  BY ActiveType DEF BrowserInv
<1>2. CASE SourcesRead
  <2>1. PageBehind'
    BY <1>2, PageKept DEF BrowserInv, SourcesRead, service
  <2> QED
    BY <1>1, <1>2, <2>1
       DEF BrowserInv, TypeOK, SourcesRead, service, polling, overview, LatestActive, PollingGoesOn, InFlight
<1>3. CASE SourcesAnswered
  <2>1. PollingGoesOn' /\ timer' \in BOOLEAN /\ again' \in BOOLEAN
    <3>1. CASE sources.entries # {}
      BY <1>3, <3>1, WakeKeeps DEF BrowserInv, SourcesAnswered
    <3>2. CASE sources.entries = {}
      BY <1>3, <3>2 DEF BrowserInv, TypeOK, SourcesAnswered, PollingGoesOn, InFlight
    <3> QED
      BY <3>1, <3>2
  <2>2. PageBehind'
    BY <1>3, PageKept DEF BrowserInv, SourcesAnswered, service
  <2> QED
    BY <1>3, <2>1, <2>2 DEF BrowserInv, TypeOK, SourcesAnswered, Quiet, service, overview, LatestActive
<1>4. CASE SourcesFail
  <2>1. PageBehind'
    BY <1>4, PageKept DEF BrowserInv, SourcesFail, service
  <2>2. failures' \in 0..MaxFailures
    BY <1>4, FailsType DEF BrowserInv, SourcesFail
  <2> QED
    BY <1>4, <2>1, <2>2
       DEF BrowserInv, TypeOK, SourcesFail, Quiet, service, polling, overview, LatestActive, PollingGoesOn, InFlight
<1> QED
  BY <1>2, <1>3, <1>4 DEF SourcesLoad

\* The overview.
LEMMA ResultsInv ==
  ASSUME BrowserInv, ResultsLoad \/ ResultsFail \/ \E v \in Version : LateAnswer(v)
  PROVE  BrowserInv' /\ seen' >= seen
<1>1. /\ version \in Nat /\ seen \in Nat /\ since["page"] \in Nat /\ answer["page"] \in Int
      /\ version <= MaxVersion /\ MaxVersion \in Nat
      /\ answer \in [{"page"} -> -1..MaxVersion] /\ since \in [{"page"} -> Version]
      /\ answer["page"] \in -1..MaxVersion /\ (answer = Nothing <=> answer["page"] < 0)
  BY NumberTypes, AnswerIs DEF BrowserInv, TypeOK
<1>2. Nothing \in [{"page"} -> -1..MaxVersion] /\ Nothing["page"] = -1
  BY <1>1 DEF Nothing
<1>3. CASE ResultsRead
  <2>1. PICK v \in since["page"]..version : answer' = [answer EXCEPT !["page"] = v]
    BY <1>3 DEF ResultsRead, API!Answer
  <2>2. since' = [since EXCEPT !["page"] = 0] /\ version' = version /\ answer["page"] = -1 /\ results
    BY <1>3 DEF ResultsRead, API!Answer
  <2>3. v \in Nat /\ v <= version /\ since["page"] <= v /\ v \in -1..MaxVersion /\ 0 \in Version
    BY <1>1, <2>1 DEF Version
  <2>4. /\ answer' \in [{"page"} -> -1..MaxVersion] /\ answer'["page"] = v
        /\ since' \in [{"page"} -> Version] /\ since'["page"] = 0
    BY <1>1, <2>1, <2>2, <2>3
  <2>5. PageBehind' /\ seen' >= seen
    <3>1. seen' = seen /\ results' = results
      BY <1>3 DEF ResultsRead
    <3>2. seen <= since["page"] /\ seen <= version
      BY <1>1, <2>2 DEF BrowserInv, PageBehind
    <3> QED
      BY <1>1, <2>2, <2>3, <2>4, <3>1, <3>2 DEF PageBehind
  <2> QED
    BY <1>3, <2>2, <2>4, <2>5
       DEF BrowserInv, TypeOK, ResultsRead, polling, LatestActive, PollingGoesOn, InFlight
<1>4. CASE ResultsAnswered
  <2>1. answer["page"] >= 0 /\ seen <= answer["page"] /\ answer["page"] <= version /\ since["page"] <= version
    BY <1>1, <1>4 DEF BrowserInv, PageBehind, ResultsAnswered
  <2>2. answer' = Nothing /\ seen' = answer["page"] /\ results' = FALSE /\ version' = version /\ since' = since
    BY <1>4 DEF ResultsAnswered, service
  <2>3. PageBehind' /\ seen' >= seen
    BY <1>1, <1>2, <2>1, <2>2 DEF PageBehind
  <2>4. seen' \in Version
    BY <1>1, <2>1, <2>2 DEF Version
  <2> QED
    BY <1>2, <1>4, <2>2, <2>3, <2>4
       DEF BrowserInv, TypeOK, ResultsAnswered, service, polling, LatestActive, PollingGoesOn, InFlight
<1>5. CASE ResultsFail
  <2>1. answer' = Nothing /\ seen' = seen /\ results' = FALSE /\ version' = version /\ since' = since
    BY <1>5 DEF ResultsFail, service
  <2>2. PageBehind' /\ seen' >= seen
    BY <1>1, <1>2, <2>1 DEF BrowserInv, PageBehind
  <2>3. failures' \in 0..MaxFailures
    BY <1>5, FailsType DEF BrowserInv, ResultsFail
  <2> QED
    BY <1>2, <1>5, <2>1, <2>2, <2>3
       DEF BrowserInv, TypeOK, ResultsFail, service, polling, LatestActive, PollingGoesOn, InFlight
<1>6. ASSUME NEW v \in Version, LateAnswer(v) PROVE BrowserInv' /\ seen' >= seen
  <2>1. PageBehind' /\ seen' >= seen
    BY <1>1, <1>6 DEF BrowserInv, PageBehind, LateAnswer, service
  <2> QED
    BY <1>6, <2>1
       DEF BrowserInv, TypeOK, LateAnswer, service, polling, LatestActive, PollingGoesOn, InFlight
<1> QED
  BY <1>3, <1>4, <1>5, <1>6 DEF ResultsLoad

\* A refresh asks for the present, which what is on the page is not ahead of.
LEMMA RefreshKeeps ==
  ASSUME TypeOK, PageBehind, RefreshResults
  PROVE  /\ PageBehind' /\ version' = version /\ seen' = seen /\ results' = TRUE
         /\ since' \in [{"page"} -> Version] /\ answer' \in [{"page"} -> -1..MaxVersion]
         /\ dropped' \subseteq Version
<1>1. /\ version \in Nat /\ seen \in Nat /\ since["page"] \in Nat /\ answer["page"] \in Int
      /\ version \in Version /\ MaxVersion \in Nat
      /\ answer \in [{"page"} -> -1..MaxVersion] /\ since \in [{"page"} -> Version]
      /\ answer["page"] \in -1..MaxVersion /\ (answer = Nothing <=> answer["page"] < 0)
  BY NumberTypes, AnswerIs DEF TypeOK
<1>2. /\ since' = [since EXCEPT !["page"] = version] /\ answer' = [answer EXCEPT !["page"] = -1]
      /\ version' = version /\ seen' = seen /\ results' = TRUE
  BY DEF RefreshResults, API!Ask
<1>3. /\ since' \in [{"page"} -> Version] /\ since'["page"] = version
      /\ answer' \in [{"page"} -> -1..MaxVersion] /\ answer'["page"] = -1
  BY <1>1, <1>2
<1>4. dropped' \subseteq Version
  <2>1. answer # Nothing => answer["page"] \in Version
    BY <1>1 DEF Version
  <2> QED
    BY <2>1 DEF RefreshResults, TypeOK
<1>5. PageBehind'
  BY <1>1, <1>2, <1>3 DEF PageBehind
<1> QED
  BY <1>2, <1>3, <1>4, <1>5

\* Polling.
LEMMA RescheduleKeeps ==
  ASSUME Reschedule
  PROVE  PollingGoesOn' /\ timer' \in BOOLEAN /\ again' \in BOOLEAN
         /\ poll' \in [pc: {"none", "asked", "answered", "refreshing"}, entries: SUBSET Job]
  BY DEF Reschedule, PollingGoesOn, InFlight, Quiet

LEMMA PollInv ==
  ASSUME BrowserInv, PollLoop \/ PollFails \/ PageChanges
  PROVE  BrowserInv' /\ seen' = seen
<1>1. CASE PollStarts
  <2>1. PageBehind'
    BY <1>1, PageKept DEF BrowserInv, PollStarts, service
  <2>2. poll' = [Quiet EXCEPT !.pc = "asked"] /\ timer' = FALSE
    BY <1>1 DEF PollStarts
  <2>3. PollingGoesOn' /\ poll' \in [pc: {"none", "asked", "answered", "refreshing"}, entries: SUBSET Job]
    BY <2>2 DEF Quiet, PollingGoesOn, InFlight
  <2> QED
    BY <1>1, <2>1, <2>2, <2>3 DEF BrowserInv, TypeOK, PollStarts, service, overview, LatestActive
<1>2. CASE PollRead
  <2>1. PageBehind'
    BY <1>2, PageKept DEF BrowserInv, PollRead, service
  <2>2. poll' = [pc |-> "answered", entries |-> Active] /\ Active \subseteq Job /\ timer' = timer
    BY <1>2, ActiveType DEF PollRead, BrowserInv
  <2>3. PollingGoesOn' /\ poll' \in [pc: {"none", "asked", "answered", "refreshing"}, entries: SUBSET Job]
    BY <1>2, <2>2 DEF PollRead, BrowserInv, PollingGoesOn, InFlight
  <2> QED
    BY <1>2, <2>1, <2>2, <2>3 DEF BrowserInv, TypeOK, PollRead, service, overview, LatestActive
<1>3. CASE PollAnswered
  <2>1. /\ poll.entries \subseteq Job /\ NewlyTerminal \subseteq Job
        /\ known' \subseteq Job /\ handled' \subseteq Job /\ missed' \subseteq Job
    BY <1>3 DEF BrowserInv, TypeOK, PollAnswered, NewlyTerminal
  <2>2. CASE NewlyTerminal # {}
    <3>1. /\ RefreshResults /\ poll' = [Quiet EXCEPT !.pc = "refreshing"]
          /\ sources' = [Quiet EXCEPT !.pc = "asked"] /\ UNCHANGED <<timer, again>>
      BY <1>3, <2>2 DEF PollAnswered
    <3>2. /\ PageBehind' /\ version' = version /\ seen' = seen /\ results' = TRUE
          /\ since' \in [{"page"} -> Version] /\ answer' \in [{"page"} -> -1..MaxVersion]
          /\ dropped' \subseteq Version
      BY <3>1, RefreshKeeps DEF BrowserInv
    <3>3. /\ poll' \in [pc: {"none", "asked", "answered", "refreshing"}, entries: SUBSET Job]
          /\ sources' \in [pc: {"none", "asked", "answered"}, entries: SUBSET Job]
      BY <3>1 DEF Quiet
    <3>4. PollingGoesOn'
      BY <1>3, <3>1 DEF BrowserInv, PollAnswered, PollingGoesOn, InFlight, Quiet
    <3> QED
      BY <1>3, <2>1, <3>1, <3>2, <3>3, <3>4 DEF BrowserInv, TypeOK, PollAnswered, LatestActive
  <2>3. CASE NewlyTerminal = {}
    <3>1. Reschedule /\ UNCHANGED <<version, sources, overview>>
      BY <1>3, <2>3 DEF PollAnswered
    <3>2. PageBehind'
      BY <3>1, PageKept DEF BrowserInv
    <3> QED
      BY <1>3, <2>1, <3>1, <3>2, RescheduleKeeps DEF BrowserInv, TypeOK, PollAnswered, overview, LatestActive
  <2> QED
    BY <2>2, <2>3
<1>4. CASE Refreshed
  <2>1. PageBehind'
    BY <1>4, PageKept DEF BrowserInv, Refreshed, service
  <2> QED
    BY <1>4, <2>1, RescheduleKeeps DEF BrowserInv, TypeOK, Refreshed, service, overview, LatestActive
<1>5. CASE PollFails \/ PageChanges
  <2>1. PageBehind'
    BY <1>5, PageKept DEF BrowserInv, PollFails, PageChanges, service
  <2>2. failures' \in 0..MaxFailures
    BY <1>5, FailsType DEF BrowserInv, PollFails, PageChanges
  <2> QED
    BY <1>5, <2>1, <2>2, RescheduleKeeps
       DEF BrowserInv, TypeOK, PollFails, PageChanges, service, overview, LatestActive
<1> QED
  BY <1>1, <1>2, <1>3, <1>4, <1>5 DEF PollLoop

------------------------------------------------------------------------------
LEMMA StepInv ==
  ASSUME BrowserInv, [Next]_vars
  PROVE  BrowserInv' /\ seen' >= seen
<1>1. seen \in Nat
  BY NumberTypes DEF BrowserInv
<1>2. CASE JobEnds \/ OtherJobEnds \/ Submit
  <2>1. seen' = seen
    BY <1>2 DEF JobEnds, OtherJobEnds, Submit, overview
  <2> QED
    BY <1>1, <1>2, <2>1, ServiceInv
<1>3. CASE LaunchAnswered \/ LaunchFails
  <2>1. seen' = seen
    BY <1>3 DEF LaunchAnswered, LaunchFails, overview
  <2> QED
    BY <1>1, <1>3, <2>1, LaunchInv
<1>4. CASE SourcesLoad \/ SourcesFail
  <2>1. seen' = seen
    BY <1>4 DEF SourcesLoad, SourcesRead, SourcesAnswered, SourcesFail, overview
  <2> QED
    BY <1>1, <1>4, <2>1, SourcesInv
<1>5. CASE ResultsLoad \/ ResultsFail \/ \E v \in Version : LateAnswer(v)
  BY <1>5, ResultsInv
<1>6. CASE PollLoop \/ PollFails \/ PageChanges
  BY <1>1, <1>6, PollInv
<1>7. CASE UNCHANGED vars
  <2>1. seen' = seen /\ UNCHANGED <<version, overview>>
    BY <1>7 DEF vars, service, overview
  <2>2. PageBehind'
    BY <2>1, PageKept DEF BrowserInv
  <2> QED
    BY <1>1, <1>7, <2>1, <2>2
       DEF vars, service, polling, overview, BrowserInv, TypeOK, LatestActive, PollingGoesOn, InFlight
<1> QED
  BY <1>2, <1>3, <1>4, <1>5, <1>6, <1>7 DEF Next

LEMMA BrowserInvariant == Spec => []BrowserInv
<1>1. BrowserInv /\ [Next]_vars => BrowserInv'
  BY StepInv
<1> QED
  BY InitInv, <1>1, PTL DEF Spec

\* Every variable of the browser and of the service keeps its type.
THEOREM BrowserTypeCorrect == Spec => []TypeOK
<1>1. BrowserInv => TypeOK
  BY DEF BrowserInv
<1> QED
  BY <1>1, BrowserInvariant, PTL

\* However answers, wake-ups, failures and page changes meet, exactly one of a scheduled
\* poll and a poll in flight is there.
THEOREM PollingNeverStops == Spec => []PollingGoesOn
<1>1. BrowserInv => PollingGoesOn
  BY DEF BrowserInv
<1> QED
  BY <1>1, BrowserInvariant, PTL

\* No answer to an overlapping refresh takes the page back to an older overview.
THEOREM PageNeverGoesBack == Spec => PageGrows
<1>1. BrowserInv /\ [Next]_vars => [seen' >= seen]_vars
  BY StepInv
<1> QED
  BY <1>1, BrowserInvariant, PTL DEF Spec, PageGrows

------------------------------------------------------------------------------
(* Pages: the inductive invariant. *)

\* Rows that kept their place since the first page and are not shown yet.
Unshown == shown.stable \ Range(shown.items)

\* A row comes after what a cursor has gone through.
Beyond(l, cursor, i) ==
    IF ByOffset THEN cursor.key[1] <= Cardinality({j \in ExploreRows(l) : Before(l, j, i)})
                ELSE Follows(l, Key(l, i), cursor.key)

\* A list of rows cuts those of U at its end: they are in it in order, up to some
\* row, and the others come after its cursor.
Cuts(l, items, next, U) ==
    /\ \A m, n \in DOMAIN items :
          m < n /\ {items[m], items[n]} \subseteq U => Before(l, items[m], items[n])
    /\ \A i \in U \ Range(items), j \in U \cap Range(items) : ~Before(l, i, j)
    /\ \A i \in U \ Range(items) : next # End /\ Beyond(l, next, i)

\* A list of videos is of what was there at its first page, and so is what follows.
Snapshot(items, next, U, at) ==
    BySnapshot => /\ \A i \in Range(items) \cup U : rows[i].seen <= at
                  /\ next # End => next.at = at

\* A row is older than its next response, and everything is older than the clock.
Clocks ==
    \A i \in Items :
        /\ rows[i].fetched <= clock /\ rows[i].seen <= clock
        /\ fetching[i] # 0 => rows[i].fetched < fetching[i] /\ fetching[i] <= clock

\* Requests are told apart by their numbers, and lists by that of their first request.
Numbers ==
    /\ \A f, g \in flights : f.no = g.no => f = g
    /\ \A f \in flights : First(f) => shown.session # f.no
    /\ \A f \in flights : ~First(f) => f.session # 0 /\ f.session <= asked
    /\ \A f, g \in flights : First(f) /\ ~First(g) => g.session # f.no
    /\ shown.session <= asked
    /\ shown.session = 0 => shown.next = End
    /\ \A f \in flights : ~First(f) /\ (Guarded => f.no = latest) => shown.session # 0

\* A view asks for listings of its own.
OwnListings ==
    shown.listing \in Listings(view) /\ \A f \in flights : f.listing \in Listings(view)

\* A cursor with an offset has one, and no answer begins a list again.
CursorOK(cursor) == cursor # End => cursor # Start /\ (ByOffset => cursor.key[1] \in Nat)
CursorsOK ==
    /\ CursorOK(shown.next)
    /\ \A f \in flights : /\ ~First(f) => f.cursor # End /\ CursorOK(f.cursor)
                          /\ f.state = "served" => CursorOK(f.page.next)

\* What an answer holds, of whatever list it is.
PageOK(f) ==
    /\ f.stable \subseteq ExploreRows(f.listing)
    /\ f.state = "served" =>
         /\ IsInjective(f.page.items) /\ Range(f.page.items) \subseteq Stored
         /\ First(f) => /\ Cuts(f.listing, f.page.items, f.page.next, f.stable)
                        /\ Snapshot(f.page.items, f.page.next, f.stable, f.since)

\* A further page of the list that is shown takes up where it ends, or did end.
Current(f) ==
    ~First(f) /\ f.session = shown.session /\ f.listing = shown.listing /\ ~shown.mixed
GoesOn(f) ==
    Current(f) =>
        /\ f.state = "asked" =>
             /\ \A i \in Unshown : Beyond(f.listing, f.cursor, i)
             /\ BySnapshot => f.cursor.at = shown.since
        /\ f.state = "served" =>
             /\ Cuts(f.listing, f.page.items, f.page.next, Unshown)
             /\ Snapshot(f.page.items, f.page.next, {}, shown.since)

ShownOK ==
    /\ IsInjective(shown.items) /\ Range(shown.items) \subseteq Stored
    /\ shown.stable \subseteq ExploreRows(shown.listing)
    /\ ~shown.mixed => /\ Cuts(shown.listing, shown.items, shown.next, shown.stable)
                       /\ Snapshot(shown.items, shown.next, shown.stable, shown.since)

\* Whose cursors and rows there are: with cursors a page is of the listing it was asked
\* for, and what a guarded view hears is of the listing it shows.
ListingOK ==
    /\ ~ByOffset /\ shown.next.of = "end" => shown.next = End
    /\ ~ByOffset => \A f \in flights :
          f.state = "served" => /\ f.page.next.of = "end" => f.page.next = End
                                /\ f.page.next.of \in {f.listing, "end"}
                                /\ Range(f.page.items) \subseteq Member(f.listing)
                                /\ ~First(f) => f.cursor.of = f.listing
    /\ Guarded => \A f \in flights :
          f.no = latest => IF First(f) THEN f.listing = listing ELSE f.cursor.of = shown.listing

PagesInv == /\ PagesTypeOK /\ Clocks /\ Numbers /\ OwnListings /\ CursorsOK
            /\ \A f \in flights : PageOK(f) /\ GoesOn(f)
            /\ ShownOK /\ ListingOK /\ OneListing

------------------------------------------------------------------------------
(* The order of a listing. *)

LEMMA BelowPairs ==
  ASSUME NEW a \in Int, NEW b \in Int, NEW c \in Int, NEW d \in Int
  PROVE  Below(<<a, b>>, <<c, d>>) <=> (a < c \/ (a = c /\ b < d))
<1> DEFINE k == <<a, b>>
           h == <<c, d>>
<1>1. DOMAIN k = {1, 2} /\ k[1] = a /\ k[2] = b /\ h[1] = c /\ h[2] = d
  OBVIOUS
<1> HIDE DEF k, h
<1>2. Below(k, h) <=> \/ k[1] < h[1] /\ \A m \in 1..(1 - 1) : k[m] = h[m]
                      \/ k[2] < h[2] /\ \A m \in 1..(2 - 1) : k[m] = h[m]
  BY <1>1 DEF Below
<1>3. 1..(1 - 1) = {} /\ 1..(2 - 1) = {1}
  OBVIOUS
<1>4. Below(k, h) <=> (a < c \/ (a = c /\ b < d))
  BY <1>1, <1>2, <1>3
<1> QED
  BY <1>4 DEF k, h

LEMMA BelowTriples ==
  ASSUME NEW a \in Int, NEW b \in Int, NEW e \in Int, NEW c \in Int, NEW d \in Int, NEW f \in Int
  PROVE  Below(<<a, b, e>>, <<c, d, f>>)
           <=> (a < c \/ (a = c /\ b < d) \/ (a = c /\ b = d /\ e < f))
<1> DEFINE k == <<a, b, e>>
           h == <<c, d, f>>
<1>1. /\ DOMAIN k = {1, 2, 3} /\ k[1] = a /\ k[2] = b /\ k[3] = e
      /\ h[1] = c /\ h[2] = d /\ h[3] = f
  OBVIOUS
<1> HIDE DEF k, h
<1>2. Below(k, h) <=> \/ k[1] < h[1] /\ \A m \in 1..(1 - 1) : k[m] = h[m]
                      \/ k[2] < h[2] /\ \A m \in 1..(2 - 1) : k[m] = h[m]
                      \/ k[3] < h[3] /\ \A m \in 1..(3 - 1) : k[m] = h[m]
  BY <1>1 DEF Below
<1>3. 1..(1 - 1) = {} /\ 1..(2 - 1) = {1} /\ 1..(3 - 1) = {1, 2}
  OBVIOUS
<1>4. Below(k, h) <=> (a < c \/ (a = c /\ b < d) \/ (a = c /\ b = d /\ e < f))
  BY <1>1, <1>2, <1>3
<1> QED
  BY <1>4 DEF k, h

LEMMA RowTypes ==
  ASSUME PagesTypeOK, NEW i \in Items
  PROVE  /\ i \in Nat /\ rows[i].fetched \in Nat /\ rows[i].likes \in Nat /\ rows[i].seen \in Nat
         /\ published[i] \in Nat /\ EffectiveAt(rows[i], i) \in Nat
<1>1. rows[i] \in [fetched: Nat, likes: 0..1, seen: Nat] /\ published[i] \in 0..1
  BY DEF PagesTypeOK
<1> QED
  BY <1>1, PagesConstants DEF EffectiveAt

\* What comes before what, told by the numbers a key is made of.
LEMMA BeforeIs ==
  ASSUME PagesTypeOK, NEW l, NEW i \in Items, NEW j \in Items
  PROVE  LET ei == EffectiveAt(rows[i], i)
             ej == EffectiveAt(rows[j], j)
         IN /\ l = "recommended" =>
                 (Before(l, i, j) <=> \/ rows[j].likes < rows[i].likes
                                      \/ rows[j].likes = rows[i].likes /\ ej < ei
                                      \/ rows[j].likes = rows[i].likes /\ ej = ei /\ j < i)
            /\ l \in {"all", "channel"} =>
                 (Before(l, i, j) <=> \/ ej < ei
                                      \/ ej = ei /\ rows[j].fetched < rows[i].fetched
                                      \/ ej = ei /\ rows[j].fetched = rows[i].fetched /\ j < i)
            /\ l = "oldest" => (Before(l, i, j) <=> (ei < ej \/ (ei = ej /\ i < j)))
            /\ l \notin {"recommended", "all", "channel", "oldest"} =>
                 (Before(l, i, j) <=> (ej < ei \/ (ej = ei /\ j < i)))
<1> DEFINE ei == EffectiveAt(rows[i], i)
           ej == EffectiveAt(rows[j], j)
<1>1. /\ i \in Int /\ j \in Int /\ ei \in Int /\ ej \in Int
      /\ rows[i].likes \in Int /\ rows[j].likes \in Int
      /\ rows[i].fetched \in Int /\ rows[j].fetched \in Int
  BY RowTypes
<1> HIDE DEF ei, ej
<1>2. ASSUME l = "recommended"
      PROVE  Before(l, i, j) <=> \/ rows[j].likes < rows[i].likes
                                 \/ rows[j].likes = rows[i].likes /\ ej < ei
                                 \/ rows[j].likes = rows[i].likes /\ ej = ei /\ j < i
  <2>1. Before(l, i, j) <=> Below(<<rows[j].likes, ej, j>>, <<rows[i].likes, ei, i>>)
    BY <1>2 DEF Before, Follows, Key, SortKey, ei, ej
  <2> QED
    BY ONLY <2>1, <1>1, BelowTriples
<1>3. ASSUME l \in {"all", "channel"}
      PROVE  Before(l, i, j) <=> \/ ej < ei
                                 \/ ej = ei /\ rows[j].fetched < rows[i].fetched
                                 \/ ej = ei /\ rows[j].fetched = rows[i].fetched /\ j < i
  <2>1. Before(l, i, j) <=> Below(<<ej, rows[j].fetched, j>>, <<ei, rows[i].fetched, i>>)
    BY <1>3 DEF Before, Follows, Key, SortKey, ei, ej
  <2> QED
    BY ONLY <2>1, <1>1, BelowTriples
<1>4. ASSUME l \notin {"recommended", "all", "channel"}
      PROVE  /\ Key(l, i) = <<ei, i>> /\ Key(l, j) = <<ej, j>>
  BY <1>4 DEF Key, SortKey, ei, ej
<1>5. l = "oldest" => (Before(l, i, j) <=> (ei < ej \/ (ei = ej /\ i < j)))
  BY <1>1, <1>4, BelowPairs DEF Before, Follows
<1>6. l \notin {"recommended", "all", "channel", "oldest"}
         => (Before(l, i, j) <=> (ej < ei \/ (ej = ei /\ j < i)))
  BY <1>1, <1>4, BelowPairs DEF Before, Follows
<1> QED
  BY <1>2, <1>3, <1>5, <1>6 DEF ei, ej

\* Rows are in a strict order that leaves no two of them side by side.
LEMMA BeforeIsOrder ==
  ASSUME PagesTypeOK, NEW l
  PROVE  /\ \A i \in Items : ~Before(l, i, i)
         /\ \A i, j \in Items : i # j => Before(l, i, j) \/ Before(l, j, i)
         /\ \A i, j, k \in Items : Before(l, i, j) /\ Before(l, j, k) => Before(l, i, k)
<1> DEFINE e == [i \in Items |-> EffectiveAt(rows[i], i)]
           likes == [i \in Items |-> rows[i].likes]
           fetched == [i \in Items |-> rows[i].fetched]
<1>1. \A i \in Items : /\ i \in Int /\ e[i] \in Int /\ likes[i] \in Int /\ fetched[i] \in Int
                       /\ e[i] = EffectiveAt(rows[i], i) /\ likes[i] = rows[i].likes
                       /\ fetched[i] = rows[i].fetched
  BY RowTypes
<1> HIDE DEF e, likes, fetched
<1>2. \A i, j \in Items :
        /\ l = "recommended" =>
             (Before(l, i, j) <=> \/ likes[j] < likes[i]
                                  \/ likes[j] = likes[i] /\ e[j] < e[i]
                                  \/ likes[j] = likes[i] /\ e[j] = e[i] /\ j < i)
        /\ l \in {"all", "channel"} =>
             (Before(l, i, j) <=> \/ e[j] < e[i]
                                  \/ e[j] = e[i] /\ fetched[j] < fetched[i]
                                  \/ e[j] = e[i] /\ fetched[j] = fetched[i] /\ j < i)
        /\ l = "oldest" => (Before(l, i, j) <=> (e[i] < e[j] \/ (e[i] = e[j] /\ i < j)))
        /\ l \notin {"recommended", "all", "channel", "oldest"} =>
             (Before(l, i, j) <=> (e[j] < e[i] \/ (e[j] = e[i] /\ j < i)))
  BY <1>1, BeforeIs
<1>3. CASE l = "recommended"
  BY <1>1, <1>2, <1>3
<1>4. CASE l \in {"all", "channel"}
  BY <1>1, <1>2, <1>4
<1>5. CASE l = "oldest"
  BY <1>1, <1>2, <1>5
<1>6. CASE l \notin {"recommended", "all", "channel", "oldest"}
  BY <1>1, <1>2, <1>6
<1> QED
  BY <1>3, <1>4, <1>5, <1>6

\* A set of rows in the order of a listing: each is there once, and as many come
\* before it as its place says.
LEMMA SortedIs ==
  ASSUME PagesTypeOK, NEW l, NEW S \in SUBSET Items, NEW s \in Sorted(l, S)
  PROVE  /\ s \in Seq(S) /\ Len(s) \in Nat /\ DOMAIN s = 1..Len(s)
         /\ IsInjective(s) /\ Range(s) = S
         /\ \A m, n \in 1..Len(s) : m < n <=> Before(l, s[m], s[n])
         /\ \A n \in 1..Len(s) : Cardinality({j \in S : Before(l, j, s[n])}) = n - 1
<1> DEFINE N == Cardinality(S)
<1>1. IsFiniteSet(S) /\ N \in Nat
  BY FS_Subset, FS_CardinalityType, PagesConstants
<1>2. s \in [1..N -> S] /\ \A m, n \in DOMAIN s : m < n => Before(l, s[m], s[n])
  BY DEF Sorted, Arranged
<1>3. DOMAIN s = 1..N /\ s \in Seq(S) /\ Len(s) = N
  <2>1. s \in Seq(S)
    BY <1>1, <1>2
  <2> QED
    BY <1>1, <1>2, <2>1, LenProperties
<1> HIDE DEF N
<1>4. \A m, n \in 1..N : m < n <=> Before(l, s[m], s[n])
  <2> TAKE m \in 1..N, n \in 1..N
  <2>1. s[m] \in Items /\ s[n] \in Items /\ m \in Int /\ n \in Int
    BY <1>1, <1>2
  <2>2. m < n => Before(l, s[m], s[n])
    BY <1>2, <1>3
  <2>3. n < m => Before(l, s[n], s[m])
    BY <1>2, <1>3
  <2>4. n < m => ~Before(l, s[m], s[n])
    BY <2>1, <2>3, BeforeIsOrder
  <2>5. n = m => ~Before(l, s[m], s[n])
    BY <2>1, BeforeIsOrder
  <2> QED
    BY <2>1, <2>2, <2>4, <2>5
<1>5. IsInjective(s)
  <2> SUFFICES ASSUME NEW m \in 1..N, NEW n \in 1..N, s[m] = s[n] PROVE m = n
    BY <1>3 DEF IsInjective
  <2>1. s[m] \in Items /\ ~Before(l, s[m], s[m])
    BY <1>2, BeforeIsOrder
  <2>2. ~(m < n) /\ ~(n < m)
    BY <1>4, <2>1
  <2> QED
    BY <2>2, <1>1
<1>6. Range(s) = S
  <2>1. s \in Injection(1..N, S)
    BY <1>2, <1>5 DEF Injection
  <2>2. IsFiniteSet(1..N) /\ Cardinality(1..N) = N
    BY <1>1, FS_Interval
  <2>3. s \in Surjection(1..N, S)
    BY <1>1, <2>1, <2>2, FS_Injection DEF N
  <2> QED
    BY <2>3, <1>3 DEF Surjection, Range
<1>7. ASSUME NEW n \in 1..N
      PROVE  Cardinality({j \in S : Before(l, j, s[n])}) = n - 1
  <2> DEFINE P == {j \in S : Before(l, j, s[n])}
             g == [m \in 1..(n - 1) |-> s[m]]
  <2>1. n \in Nat /\ n - 1 \in Nat /\ \A m \in 1..(n - 1) : m \in 1..N /\ m < n
    BY <1>1
  <2>2. g \in [1..(n - 1) -> P]
    BY <2>1, <1>2, <1>4
  <2>3. IsInjective(g)
    BY <2>1, <1>3, <1>5 DEF IsInjective
  <2>4. \A j \in P : \E m \in 1..(n - 1) : g[m] = j
    <3> TAKE j \in P
    <3>1. PICK m \in 1..N : s[m] = j
      BY <1>3, <1>6 DEF Range
    <3>2. m < n
      BY <3>1, <1>4
    <3>3. m \in 1..(n - 1)
      BY <3>2, <1>1
    <3> QED
      BY <3>1, <3>3
  <2>5. g \in Injection(1..(n - 1), P) /\ g \in Surjection(1..(n - 1), P)
    BY <2>2, <2>3, <2>4 DEF Injection, Surjection
  <2>6. IsFiniteSet(P)
    BY <1>1, FS_Subset
  <2>7. Cardinality(1..(n - 1)) = n - 1
    BY <2>1, FS_Interval
  <2> HIDE DEF g, P
  <2>8. Cardinality(1..(n - 1)) = Cardinality(P)
    BY <2>5, <2>6, FS_Injection
  <2> QED
    BY <2>7, <2>8 DEF P
<1> QED
  BY <1>1, <1>3, <1>4, <1>5, <1>6, <1>7

\* A finite set in a strict and total order, given by what comes before what, can be
\* lined up: each member has its place by how many come before it.
LEMMA InLine ==
  ASSUME NEW S, IsFiniteSet(S), NEW before \in [S -> SUBSET S],
         \A i \in S : i \notin before[i],
         \A i, j \in S : i # j => i \in before[j] \/ j \in before[i],
         \A i, j, k \in S : i \in before[j] /\ j \in before[k] => i \in before[k]
  PROVE  \E s \in [1..Cardinality(S) -> S] :
            \A m, n \in 1..Cardinality(S) : m < n => s[m] \in before[s[n]]
<1> DEFINE N == Cardinality(S)
           rank == [i \in S |-> Cardinality(before[i]) + 1]
<1>1. N \in Nat
  BY FS_CardinalityType
<1>2. \A i \in S : IsFiniteSet(before[i]) /\ Cardinality(before[i]) \in Nat
  BY FS_Subset, FS_CardinalityType
<1>3. ASSUME NEW i \in S, NEW T \in SUBSET S, IsFiniteSet(T), before[i] \subseteq T, i \in T
      PROVE  Cardinality(before[i]) < Cardinality(T)
  <2>1. before[i] \in SUBSET T /\ T # before[i]
    BY <1>3
  <2>2. Cardinality(before[i]) <= Cardinality(T) /\ Cardinality(before[i]) # Cardinality(T)
    BY <1>3, <2>1, FS_Subset
  <2>3. Cardinality(T) \in Nat
    BY <1>3, FS_CardinalityType
  <2> QED
    BY <2>2, <2>3, <1>2
<1>4. \A i, j \in S : i \in before[j] => rank[i] < rank[j]
  <2> SUFFICES ASSUME NEW i \in S, NEW j \in S, i \in before[j] PROVE rank[i] < rank[j]
    OBVIOUS
  <2>1. before[i] \subseteq before[j] /\ before[j] \in SUBSET S
    OBVIOUS
  <2>2. Cardinality(before[i]) < Cardinality(before[j])
    BY <1>2, <1>3, <2>1
  <2> QED
    BY <2>2, <1>2
<1>5. rank \in [S -> 1..N]
  <2> SUFFICES ASSUME NEW i \in S PROVE Cardinality(before[i]) + 1 \in 1..N
    OBVIOUS
  <2>1. Cardinality(before[i]) < Cardinality(S)
    BY <1>3
  <2> QED
    BY <1>1, <1>2, <2>1
<1> HIDE DEF rank
<1>6. IsInjective(rank)
  <2> SUFFICES ASSUME NEW i \in S, NEW j \in S, rank[i] = rank[j], i # j PROVE FALSE
    BY <1>5 DEF IsInjective
  <2>1. rank[i] \in Int /\ rank[j] \in Int
    BY <1>5
  <2> QED
    BY <1>4, <2>1
<1>7. rank \in Surjection(S, 1..N)
  <2>1. rank \in Injection(S, 1..N)
    BY <1>5, <1>6 DEF Injection
  <2>2. IsFiniteSet(1..N) /\ Cardinality(1..N) = N
    BY <1>1, FS_Interval
  <2> QED
    BY <2>1, <2>2, FS_Injection
<1> DEFINE s == [n \in 1..N |-> CHOOSE i \in S : rank[i] = n]
<1>8. \A n \in 1..N : s[n] \in S /\ rank[s[n]] = n
  <2> TAKE n \in 1..N
  <2>1. \E i \in S : rank[i] = n
    BY <1>7 DEF Surjection
  <2> QED
    BY <2>1
<1>9. s \in [1..N -> S]
  BY <1>8
<1> HIDE DEF s
<1>10. ASSUME NEW m \in 1..N, NEW n \in 1..N, m < n
       PROVE  s[m] \in before[s[n]]
  <2>1. s[m] \in S /\ s[n] \in S /\ rank[s[m]] = m /\ rank[s[n]] = n
    BY <1>8
  <2>2. s[m] # s[n] /\ s[n] \notin before[s[m]]
    BY <1>1, <1>4, <1>10, <2>1
  <2> QED
    BY <2>1, <2>2
<1> QED
  BY <1>9, <1>10

\* A page can always be made.
LEMMA SortedExists ==
  ASSUME PagesTypeOK, NEW l, NEW S \in SUBSET Items
  PROVE  Sorted(l, S) # {}
<1> DEFINE before == [i \in S |-> {j \in S : Before(l, j, i)}]
<1>1. IsFiniteSet(S) /\ Cardinality(S) \in Nat
  BY FS_Subset, FS_CardinalityType, PagesConstants
<1>2. /\ before \in [S -> SUBSET S]
      /\ \A i \in S : i \notin before[i]
      /\ \A i, j \in S : i # j => i \in before[j] \/ j \in before[i]
      /\ \A i, j, k \in S : i \in before[j] /\ j \in before[k] => i \in before[k]
  BY BeforeIsOrder
<1>3. \A i, j \in S : j \in before[i] => Before(l, j, i)
  OBVIOUS
<1> HIDE DEF before
<1>4. PICK s \in [1..Cardinality(S) -> S] :
         \A m, n \in 1..Cardinality(S) : m < n => s[m] \in before[s[n]]
  BY <1>1, <1>2, InLine
<1>5. s \in Sorted(l, S)
  BY <1>3, <1>4 DEF Sorted, Arranged
<1> QED
  BY <1>5

\* What is left of a sequence without repetition, without some of its members, in the
\* order it had.
LEMMA WithoutIs ==
  ASSUME NEW s \in Seq(Items), IsInjective(s), NEW T, NEW t \in Without(s, T)
  PROVE  /\ t \in Seq(Items) /\ Len(t) \in Nat /\ DOMAIN t = 1..Len(t)
         /\ IsInjective(t) /\ Range(t) = Range(s) \ T
         /\ \A m, n \in 1..Len(t) : m < n =>
               \E x, y \in DOMAIN s : x < y /\ s[x] = t[m] /\ s[y] = t[n]
<1> DEFINE kept == {n \in DOMAIN s : s[n] \notin T}
           N == Cardinality(kept)
<1>1. DOMAIN s = 1..Len(s) /\ Len(s) \in Nat /\ s \in [1..Len(s) -> Items]
  BY LenProperties
<1>2. IsFiniteSet(kept) /\ N \in Nat
  <2>1. IsFiniteSet(1..Len(s)) /\ kept \in SUBSET (1..Len(s))
    BY <1>1, FS_Interval
  <2> QED
    BY <2>1, FS_Subset, FS_CardinalityType
<1>3. PICK place \in [1..N -> kept] :
         /\ \A m, n \in 1..N : m < n => place[m] < place[n]
         /\ t = [n \in DOMAIN place |-> s[place[n]]]
  BY DEF Without, Arranged
<1>4. place \in [1..N -> kept] /\ \A m, n \in 1..N : m < n => place[m] < place[n]
  BY <1>3
<1>5. kept \subseteq 1..Len(s) /\ \A n \in kept : n \in Int /\ s[n] \in Range(s) \ T
  BY <1>1 DEF Range
<1>6. \A i \in Range(s) \ T : \E n \in kept : s[n] = i
  BY DEF Range
<1> HIDE DEF N
<1>7. IsInjective(place)
  <2> SUFFICES ASSUME NEW m \in 1..N, NEW n \in 1..N, place[m] = place[n] PROVE m = n
    BY <1>4 DEF IsInjective
  <2>1. place[m] \in Int /\ m \in Int /\ n \in Int
    BY <1>2, <1>4, <1>5
  <2> QED
    BY <2>1, <1>4
<1>8. \A n \in kept : \E m \in 1..N : place[m] = n
  <2>1. place \in Injection(1..N, kept)
    BY <1>4, <1>7 DEF Injection
  <2>2. IsFiniteSet(1..N) /\ Cardinality(1..N) = N
    BY <1>2, FS_Interval
  <2>3. place \in Surjection(1..N, kept)
    BY <1>2, <2>1, <2>2, FS_Injection DEF N
  <2> QED
    BY <2>3 DEF Surjection
<1> HIDE DEF kept
<1>9. t \in [1..N -> Items] /\ \A n \in 1..N : t[n] = s[place[n]] /\ place[n] \in kept
  BY <1>1, <1>3, <1>4, <1>5
<1>10. t \in Seq(Items) /\ Len(t) = N /\ DOMAIN t = 1..N
  <2>1. t \in Seq(Items)
    BY <1>2, <1>9
  <2> QED
    BY <1>2, <1>9, <2>1, LenProperties
<1>11. IsInjective(t)
  <2> SUFFICES ASSUME NEW m \in 1..N, NEW n \in 1..N, t[m] = t[n] PROVE m = n
    BY <1>10 DEF IsInjective
  <2>1. s[place[m]] = s[place[n]] /\ place[m] \in DOMAIN s /\ place[n] \in DOMAIN s
    BY <1>1, <1>5, <1>9
  <2>2. place[m] = place[n]
    BY <2>1 DEF IsInjective
  <2> QED
    BY <2>2, <1>4, <1>7 DEF IsInjective
<1>12. Range(t) = Range(s) \ T
  <2>1. ASSUME NEW i \in Range(t)
        PROVE  i \in Range(s) \ T
    <3>1. PICK n \in 1..N : t[n] = i
      BY <1>10 DEF Range
    <3>2. t[n] = s[place[n]] /\ place[n] \in kept
      BY <1>9
    <3> QED
      BY <3>1, <3>2, <1>5
  <2>2. ASSUME NEW i \in Range(s) \ T
        PROVE  i \in Range(t)
    <3>1. PICK n \in kept : s[n] = i
      BY <1>6
    <3>2. PICK m \in 1..N : place[m] = n
      BY <1>8
    <3> QED
      BY <3>1, <3>2, <1>9, <1>10 DEF Range
  <2> QED
    BY <2>1, <2>2
<1>13. ASSUME NEW m \in 1..N, NEW n \in 1..N, m < n
       PROVE  \E x, y \in DOMAIN s : x < y /\ s[x] = t[m] /\ s[y] = t[n]
  <2>1. place[m] \in DOMAIN s /\ place[n] \in DOMAIN s /\ place[m] < place[n]
    BY <1>1, <1>4, <1>5, <1>9, <1>13
  <2> QED
    BY <2>1, <1>9
<1> QED
  BY <1>2, <1>10, <1>11, <1>12, <1>13

\* An answer can always be appended.
LEMMA WithoutExists ==
  ASSUME NEW s \in Seq(Items), NEW T
  PROVE  Without(s, T) # {}
<1> DEFINE kept == {n \in DOMAIN s : s[n] \notin T}
           before == [n \in kept |-> {m \in kept : m < n}]
<1>1. DOMAIN s = 1..Len(s) /\ Len(s) \in Nat
  BY LenProperties
<1>2. IsFiniteSet(kept)
  <2>1. IsFiniteSet(1..Len(s)) /\ kept \in SUBSET (1..Len(s))
    BY <1>1, FS_Interval
  <2> QED
    BY <2>1, FS_Subset
<1>3. \A n \in kept : n \in Int
  BY <1>1
<1> HIDE DEF kept
<1>4. /\ before \in [kept -> SUBSET kept]
      /\ \A i \in kept : i \notin before[i]
      /\ \A i, j \in kept : i # j => i \in before[j] \/ j \in before[i]
      /\ \A i, j, k \in kept : i \in before[j] /\ j \in before[k] => i \in before[k]
      /\ \A i, j \in kept : j \in before[i] => j < i
  BY <1>3
<1> HIDE DEF before
<1>5. PICK place \in [1..Cardinality(kept) -> kept] :
         \A m, n \in 1..Cardinality(kept) : m < n => place[m] \in before[place[n]]
  BY <1>2, <1>4, InLine
<1>6. place \in Arranged(kept, LAMBDA m, n : m < n)
  BY <1>4, <1>5 DEF Arranged
<1> QED
  BY <1>6 DEF Without, kept

------------------------------------------------------------------------------
(* What a page cuts. *)

IsSlice(t, s, offset, S) ==
    /\ t \in Seq(S) /\ Len(t) \in Nat /\ DOMAIN t = 1..Len(t)
    /\ \A n \in 1..Len(t) : offset + n \in 1..Len(s) /\ t[n] = s[offset + n]
    /\ \A n \in (offset + 1)..Len(s) : n <= offset + Limit => \E m \in DOMAIN t : t[m] = s[n]
    /\ offset + Limit < Len(s) => Len(t) = Limit

LEMMA SliceIs ==
  ASSUME NEW S, NEW s \in Seq(S), NEW offset \in Nat
  PROVE  IsSlice(Slice(s, offset), s, offset, S)
<1> DEFINE last == IF offset + Limit < Len(s) THEN offset + Limit ELSE Len(s)
<1>1. /\ Len(s) \in Nat /\ DOMAIN s = 1..Len(s) /\ Limit \in Nat \ {0} /\ last \in Nat
      /\ last <= Len(s) /\ s \in [1..Len(s) -> S]
  BY LenProperties, PagesConstants
<1> DEFINE t == Slice(s, offset)
<1>2. t = SubSeq(s, offset + 1, last)
  BY DEF Slice
<1>3. \A n \in (offset + 1)..last : s[n] \in S
  BY <1>1
<1>4. last = offset + Limit \/ (last = Len(s) /\ ~(offset + Limit < Len(s)))
  OBVIOUS
<1> HIDE DEF last, t
<1>5. /\ t \in Seq(S) /\ Len(t) = IF offset + 1 <= last THEN last - (offset + 1) + 1 ELSE 0
      /\ \A n \in 1..(last - (offset + 1) + 1) : t[n] = s[offset + 1 + n - 1]
  BY <1>1, <1>2, <1>3, SubSeqProperties
<1>6. DOMAIN t = 1..Len(t) /\ Len(t) \in Nat
  BY <1>5, LenProperties
<1>7. ASSUME NEW n \in 1..Len(t)
      PROVE  offset + n \in 1..Len(s) /\ t[n] = s[offset + n]
  <2>1. offset + 1 <= last /\ n \in 1..(last - (offset + 1) + 1) /\ offset + 1 + n - 1 = offset + n
    BY <1>1, <1>5, <1>6
  <2>2. t[n] = s[offset + n]
    BY <1>5, <2>1
  <2> QED
    BY <1>1, <2>1, <2>2
<1>8. ASSUME NEW n \in (offset + 1)..Len(s), n <= offset + Limit
      PROVE  \E m \in DOMAIN t : t[m] = s[n]
  <2>1. n \in Int /\ offset + 1 <= n /\ n <= Len(s)
    BY <1>1
  <2>3. n <= last
    BY <1>1, <1>4, <1>8, <2>1
  <2>4. Len(t) = last - (offset + 1) + 1
    BY <1>1, <1>5, <2>1, <2>3
  <2>5. n - offset \in 1..Len(t)
    BY <1>1, <2>1, <2>3, <2>4
  <2>2. t[n - offset] = s[offset + (n - offset)] /\ offset + (n - offset) = n
    BY <1>1, <1>7, <2>1, <2>5
  <2> QED
    BY <1>6, <2>2, <2>5
<1>9. offset + Limit < Len(s) => Len(t) = Limit
  BY <1>1, <1>5 DEF last
<1>10. IsSlice(t, s, offset, S)
  BY <1>5, <1>6, <1>7, <1>8, <1>9 DEF IsSlice
<1> QED
  BY <1>10 DEF t

\* A slice of a listing keeps its order, and what follows it in the listing is left.
SliceCuts(items, l, S, found, offset, U) ==
    /\ items \in Seq(S) /\ items \in Seq(Items) /\ IsInjective(items) /\ Range(items) \subseteq S
    /\ \A m, n \in DOMAIN items : m < n => Before(l, items[m], items[n])
    /\ \A i \in U \ Range(items), j \in U \cap Range(items) : ~Before(l, i, j)
    /\ \A i \in U \ Range(items) : \E n \in 1..Len(found) : found[n] = i /\ offset + Limit < n
    /\ offset + Limit < Len(found) =>
         /\ Len(items) = Limit /\ items[Len(items)] = found[offset + Limit]
         /\ offset + Limit \in 1..Len(found) /\ found[offset + Limit] \in S

LEMMA SliceCutsListing ==
  ASSUME PagesTypeOK, NEW l, NEW S \in SUBSET Items, NEW found \in Sorted(l, S),
         NEW offset \in Nat, NEW U \in SUBSET S,
         \A i \in U : \E n \in 1..Len(found) : found[n] = i /\ offset < n
  PROVE  SliceCuts(Slice(found, offset), l, S, found, offset, U)
<1> DEFINE items == Slice(found, offset)
<1> HIDE DEF items
<1>1. /\ found \in Seq(S) /\ Len(found) \in Nat /\ DOMAIN found = 1..Len(found)
      /\ IsInjective(found) /\ Range(found) = S
      /\ \A m, n \in 1..Len(found) : m < n <=> Before(l, found[m], found[n])
  BY SortedIs
<1>2. /\ items \in Seq(S) /\ Len(items) \in Nat /\ DOMAIN items = 1..Len(items)
      /\ \A n \in 1..Len(items) : offset + n \in 1..Len(found) /\ items[n] = found[offset + n]
      /\ \A n \in (offset + 1)..Len(found) :
            n <= offset + Limit => \E m \in DOMAIN items : items[m] = found[n]
      /\ offset + Limit < Len(found) => Len(items) = Limit
  <2>1. IsSlice(items, found, offset, S)
    BY <1>1, SliceIs DEF items
  <2> QED
    BY <2>1 DEF IsSlice
<1>3. items \in Seq(Items)
  BY <1>2, SeqMonotonic
<1>4. Range(items) \subseteq S
  BY <1>2, RangeOfSeq
<1>5. \A m, n \in DOMAIN items : m < n => Before(l, items[m], items[n])
  <2> SUFFICES ASSUME NEW m \in DOMAIN items, NEW n \in DOMAIN items, m < n
               PROVE  Before(l, items[m], items[n])
    OBVIOUS
  <2>1. offset + m \in 1..Len(found) /\ offset + n \in 1..Len(found) /\ offset + m < offset + n
    BY <1>2
  <2> QED
    BY <1>1, <1>2, <2>1
<1>6. IsInjective(items)
  <2> SUFFICES ASSUME NEW m \in DOMAIN items, NEW n \in DOMAIN items, items[m] = items[n] PROVE m = n
    BY DEF IsInjective
  <2>1. offset + m \in DOMAIN found /\ offset + n \in DOMAIN found /\ found[offset + m] = found[offset + n]
    BY <1>1, <1>2
  <2>2. offset + m = offset + n
    BY <1>1, <2>1 DEF IsInjective
  <2> QED
    BY <1>2, <2>2
<1>7. ASSUME NEW i \in U \ Range(items)
      PROVE  \E n \in 1..Len(found) : found[n] = i /\ offset + Limit < n
  <2>1. PICK n \in 1..Len(found) : found[n] = i /\ offset < n
    OBVIOUS
  <2>3. n \in (offset + 1)..Len(found)
    BY <1>1, <2>1
  <2>2. ~(n <= offset + Limit)
    BY <1>2, <1>7, <2>1, <2>3 DEF Range
  <2> QED
    BY <1>1, <2>1, <2>2, PagesConstants
<1>8. ASSUME NEW i \in U \ Range(items), NEW j \in U \cap Range(items)
      PROVE  ~Before(l, i, j)
  <2>1. PICK n \in 1..Len(found) : found[n] = i /\ offset + Limit < n
    BY <1>7
  <2>2. PICK m \in 1..Len(items) : items[m] = j
    BY <1>2 DEF Range
  <2>3. offset + m \in 1..Len(found) /\ found[offset + m] = j
    BY <1>2, <2>2
  <2>4. Len(items) <= Limit
    <3>1. CASE offset + Limit < Len(found)
      BY <3>1, <1>2, PagesConstants
    <3>2. CASE ~(offset + Limit < Len(found))
      BY <3>2, <2>1, <1>1, PagesConstants
    <3> QED
      BY <3>1, <3>2
  <2>8. Limit \in Int
    BY PagesConstants
  <2>9. Len(items) \in Int
    BY <1>2
  <2>10. n \in Int
    BY <1>1
  <2>6. Limit \in Int /\ Len(items) \in Int /\ n \in Int
    BY <2>8, <2>9, <2>10
  <2>7. m \in Int /\ m <= Limit
    BY <2>2, <2>4, <2>6
  <2>5. ~(n < offset + m)
    BY <2>1, <2>6, <2>7
  <2> QED
    BY <1>1, <2>1, <2>3, <2>5
<1>9. ASSUME offset + Limit < Len(found)
      PROVE  /\ Len(items) = Limit /\ items[Len(items)] = found[offset + Limit]
             /\ offset + Limit \in 1..Len(found) /\ found[offset + Limit] \in S
  <2>1. Len(items) = Limit /\ Limit \in 1..Len(items)
    BY <1>2, <1>9, PagesConstants
  <2>2. offset + Limit \in 1..Len(found)
    BY <1>2, <2>1
  <2>3. found[offset + Limit] \in S
    BY <1>1, <2>2, ElementOfSeq
  <2> QED
    BY <1>2, <2>1, <2>2, <2>3
<1>10. SliceCuts(items, l, S, found, offset, U)
  BY <1>2, <1>3, <1>4, <1>5, <1>6, <1>7, <1>8, <1>9 DEF SliceCuts
<1> QED
  BY <1>10 DEF items

LEMMA KeyType ==
  ASSUME PagesTypeOK, NEW l, NEW i \in Items
  PROVE  Key(l, i) \in Seq(Nat)
<1>1. /\ i \in Nat /\ rows[i].fetched \in Nat /\ rows[i].likes \in Nat
      /\ EffectiveAt(rows[i], i) \in Nat
  BY RowTypes
<1> QED
  BY <1>1 DEF Key, SortKey

\* A page after a cursor cuts whatever the query selects.
KeysetAnswers(page, l, cursor, T, U) ==
    /\ page.items \in Seq(Items) /\ IsInjective(page.items)
    /\ Range(page.items) \subseteq T \cap Member(l)
    /\ Cuts(l, page.items, page.next, U)
    /\ \/ page.next = End
       \/ /\ page.next = [of |-> l, key |-> page.next.key, at |-> SnapshotAt(cursor)]
          /\ page.next.key \in Seq(Nat)

LEMMA KeysetCuts ==
  ASSUME PagesTypeOK, ~ByOffset, NEW l, NEW cursor, NEW T \in SUBSET Items,
         NEW found \in Sorted(l, After(l, cursor, T)), NEW U \in SUBSET After(l, cursor, T),
         NEW page, page = KeysetPage(l, cursor, found)
  PROVE  KeysetAnswers(page, l, cursor, T, U)
<1> DEFINE S == After(l, cursor, T)
           items == Slice(found, 0)
           next == page.next
<1>1. S \in SUBSET Items /\ S \subseteq T \cap Member(l)
  BY DEF After
<1>2. /\ page.items = items
      /\ next = IF Len(found) > Limit THEN Cursor(l, items[Len(items)], SnapshotAt(cursor)) ELSE End
  BY DEF KeysetPage
<1> HIDE DEF S, items, next
<1>3. /\ Range(found) = S /\ DOMAIN found = 1..Len(found) /\ Len(found) \in Nat
      /\ \A m, n \in 1..Len(found) : m < n <=> Before(l, found[m], found[n])
  BY <1>1, SortedIs DEF S
<1>4. \A i \in U : \E n \in 1..Len(found) : found[n] = i /\ 0 < n
  <2> TAKE i \in U
  <2>1. PICK n \in 1..Len(found) : found[n] = i
    BY <1>3 DEF Range, S
  <2> QED
    BY <2>1, <1>3
<1>5. 0 + Limit = Limit /\ Limit \in Nat \ {0} /\ 0 \in Nat
  BY PagesConstants
<1>6. /\ items \in Seq(Items) /\ IsInjective(items) /\ Range(items) \subseteq S
      /\ \A m, n \in DOMAIN items : m < n => Before(l, items[m], items[n])
      /\ \A i \in U \ Range(items), j \in U \cap Range(items) : ~Before(l, i, j)
      /\ \A i \in U \ Range(items) : \E n \in 1..Len(found) : found[n] = i /\ Limit < n
      /\ Limit < Len(found) =>
           /\ Len(items) = Limit /\ items[Len(items)] = found[Limit]
           /\ Limit \in 1..Len(found) /\ found[Limit] \in S
  <2>1. SliceCuts(items, l, S, found, 0, U)
    BY <1>1, <1>4, <1>5, SliceCutsListing DEF items, S
  <2> QED
    BY <2>1, <1>5 DEF SliceCuts
<1>7. ASSUME Limit < Len(found)
      PROVE  /\ next = Cursor(l, found[Limit], SnapshotAt(cursor))
             /\ next = [of |-> l, key |-> next.key, at |-> SnapshotAt(cursor)]
             /\ next.key = Key(l, found[Limit]) /\ next.key \in Seq(Nat)
  <2>1. next = Cursor(l, found[Limit], SnapshotAt(cursor))
    BY <1>2, <1>3, <1>5, <1>6, <1>7
  <2>2. found[Limit] \in Items
    BY <1>1, <1>6, <1>7
  <2> QED
    BY <2>1, <2>2, KeyType DEF Cursor
<1>8. ASSUME NEW i \in U \ Range(items)
      PROVE  next # End /\ Beyond(l, next, i)
  <2>1. PICK n \in 1..Len(found) : found[n] = i /\ Limit < n
    BY <1>6
  <2>2. Limit < Len(found)
    BY <1>3, <1>5, <2>1
  <2>3. Before(l, found[Limit], i)
    BY <1>3, <1>6, <2>1, <2>2
  <2>4. Follows(l, Key(l, i), next.key)
    BY <1>7, <2>2, <2>3 DEF Before
  <2>5. next # End
    <3>1. Key(l, found[Limit]) # <<>>
      BY DEF Key, SortKey
    <3> QED
      BY <1>7, <2>2, <3>1 DEF End
  <2> QED
    BY <2>4, <2>5 DEF Beyond
<1>9. Cuts(l, items, next, U)
  BY <1>6, <1>8 DEF Cuts
<1>10. next = End \/ Limit < Len(found)
  BY <1>2, <1>3, <1>5
<1> QED
  BY <1>1, <1>2, <1>6, <1>7, <1>9, <1>10 DEF next, KeysetAnswers

\* A page at an offset cuts the rows that have at least as many before them.
LEMMA OffsetCuts ==
  ASSUME PagesTypeOK, ByOffset, NEW l, NEW cursor, CursorOK(cursor) \/ cursor = Start, cursor # End,
         NEW found \in Sorted(l, ExploreRows(l)), NEW U \in SUBSET ExploreRows(l),
         \A i \in U : cursor = Start \/ Beyond(l, cursor, i),
         NEW page, page = OffsetPage(l, cursor, found)
  PROVE  /\ page.items \in Seq(Items) /\ IsInjective(page.items)
         /\ Range(page.items) \subseteq ExploreRows(l)
         /\ Cuts(l, page.items, page.next, U)
         /\ \/ page.next = End
            \/ page.next = [of |-> l, key |-> <<page.next.key[1]>>, at |-> 0] /\ page.next.key[1] \in Nat
<1> DEFINE S == ExploreRows(l)
           offset == IF cursor = Start THEN 0 ELSE cursor.key[1]
           items == Slice(found, offset)
           next == page.next
           P(i) == {j \in S : Before(l, j, i)}
<1>1. S \in SUBSET Items
  BY DEF ExploreRows, Stored
<1>2. /\ page.items = items
      /\ next = IF Len(found) > offset + Limit
                  THEN [of |-> l, key |-> <<offset + Len(items)>>, at |-> 0] ELSE End
  BY DEF OffsetPage
<1>3. offset \in Nat /\ Limit \in Nat \ {0}
  BY PagesConstants DEF CursorOK
<1>4. \A i \in U : i \in S /\ offset <= Cardinality(P(i)) 
  <2> TAKE i \in U
  <2>1. CASE cursor = Start
    <3>1. P(i) \in SUBSET Items
      BY <1>1
    <3> HIDE DEF P
    <3>2. Cardinality(P(i)) \in Nat
      BY <3>1, FS_Subset, FS_CardinalityType, PagesConstants
    <3> QED
      BY <2>1, <3>2
  <2>2. CASE cursor # Start
    BY <2>2 DEF Beyond
  <2> QED
    BY <2>1, <2>2
<1> HIDE DEF offset, items, next
<1>5. /\ Range(found) = S /\ DOMAIN found = 1..Len(found) /\ Len(found) \in Nat
      /\ \A n \in 1..Len(found) : Cardinality(P(found[n])) = n - 1
  BY <1>1, SortedIs
<1> HIDE DEF S, P
<1>6. \A i \in S : \E n \in 1..Len(found) : found[n] = i
  BY <1>5 DEF Range
<1>7. ASSUME NEW i \in U
      PROVE  \E n \in 1..Len(found) : found[n] = i /\ offset < n
  <2>1. PICK n \in 1..Len(found) : found[n] = i
    BY <1>4, <1>6
  <2>2. offset <= n - 1
    BY <1>4, <1>5, <2>1
  <2> QED
    BY <1>3, <1>5, <2>1, <2>2
<1>8. /\ items \in Seq(Items) /\ IsInjective(items) /\ Range(items) \subseteq S
      /\ \A m, n \in DOMAIN items : m < n => Before(l, items[m], items[n])
      /\ \A i \in U \ Range(items), j \in U \cap Range(items) : ~Before(l, i, j)
      /\ \A i \in U \ Range(items) :
            \E n \in 1..Len(found) : found[n] = i /\ offset + Limit < n
      /\ offset + Limit < Len(found) => Len(items) = Limit
  <2>1. SliceCuts(items, l, S, found, offset, U)
    BY <1>1, <1>3, <1>7, SliceCutsListing DEF items, S
  <2> QED
    BY <2>1 DEF SliceCuts
<1>9. ASSUME offset + Limit < Len(found)
      PROVE  /\ next = [of |-> l, key |-> <<offset + Limit>>, at |-> 0]
             /\ next.key[1] = offset + Limit /\ next.key # <<>> /\ next.key[1] \in Nat
  <2>1. Len(found) > offset + Limit /\ Len(items) = Limit /\ offset + Limit \in Nat
    BY <1>3, <1>5, <1>8, <1>9
  <2>2. next = [of |-> l, key |-> <<offset + Limit>>, at |-> 0]
    BY <1>2, <2>1
  <2>3. next.key = <<offset + Limit>>
    BY <2>2
  <2> QED
    BY <2>1, <2>2, <2>3
<1>10. ASSUME NEW i \in U \ Range(items)
       PROVE  next # End /\ Beyond(l, next, i)
  <2>1. PICK n \in 1..Len(found) : found[n] = i /\ offset + Limit < n
    BY <1>8
  <2>2. offset + Limit < Len(found)
    BY <1>3, <1>5, <2>1
  <2>3. next.key[1] <= Cardinality(P(i))
    BY <1>3, <1>5, <1>9, <2>1, <2>2
  <2>4. next # End
    BY <1>9, <2>2 DEF End
  <2> QED
    BY <2>3, <2>4 DEF Beyond, P, S
<1>11. Cuts(l, items, next, U)
  BY <1>8, <1>10 DEF Cuts
<1>12. next = End \/ offset + Limit < Len(found)
  BY <1>2, <1>3, <1>5
<1>13. offset + Limit < Len(found) =>
         next = [of |-> l, key |-> <<next.key[1]>>, at |-> 0] /\ next.key[1] \in Nat
  BY <1>9
<1> QED
  BY <1>2, <1>8, <1>11, <1>12, <1>13 DEF next, S

------------------------------------------------------------------------------
(* Lists that are cut shorter, and put together. *)

LEMMA CutsLess ==
  ASSUME NEW l, NEW items, NEW next, NEW U, NEW V \in SUBSET U, Cuts(l, items, next, U)
  PROVE  Cuts(l, items, next, V)
BY DEF Cuts

LEMMA SnapshotLess ==
  ASSUME NEW items, NEW next, NEW U, NEW V \in SUBSET U, NEW at, Snapshot(items, next, U, at)
  PROVE  Snapshot(items, next, V, at)
BY DEF Snapshot

\* The members of a list with another one added, and where they are.
LEMMA AddedIs ==
  ASSUME NEW s \in Seq(Items), NEW t \in Seq(Items), IsInjective(s), IsInjective(t),
         Range(s) \cap Range(t) = {}
  PROVE  /\ s \o t \in Seq(Items) /\ IsInjective(s \o t) /\ Range(s \o t) = Range(s) \cup Range(t)
         /\ \A m, n \in DOMAIN (s \o t) : m < n =>
              \/ \E x, y \in DOMAIN s : x < y /\ (s \o t)[m] = s[x] /\ (s \o t)[n] = s[y]
              \/ (s \o t)[m] \in Range(s) /\ (s \o t)[n] \in Range(t)
              \/ \E x, y \in DOMAIN t : x < y /\ (s \o t)[m] = t[x] /\ (s \o t)[n] = t[y]
<1> DEFINE u == s \o t
<1>1. /\ DOMAIN s = 1..Len(s) /\ Len(s) \in Nat /\ DOMAIN t = 1..Len(t) /\ Len(t) \in Nat
  BY LenProperties
<1>2. /\ u \in Seq(Items) /\ Len(u) = Len(s) + Len(t)
      /\ \A n \in 1..(Len(s) + Len(t)) : u[n] = IF n <= Len(s) THEN s[n] ELSE t[n - Len(s)]
  BY ConcatProperties
<1>3. DOMAIN u = 1..(Len(s) + Len(t))
  BY <1>2, LenProperties
<1>4. Range(u) = Range(s) \cup Range(t)
  BY RangeConcatenation
<1> HIDE DEF u
<1>5. ASSUME NEW n \in DOMAIN u
      PROVE  \/ n \in DOMAIN s /\ u[n] = s[n] /\ u[n] \in Range(s) /\ n <= Len(s)
             \/ /\ n - Len(s) \in DOMAIN t /\ u[n] = t[n - Len(s)] /\ u[n] \in Range(t)
                /\ Len(s) < n
  <2>1. CASE n <= Len(s)
    <3>1. n \in DOMAIN s /\ u[n] = s[n]
      BY <2>1, <1>1, <1>2, <1>3
    <3> QED
      BY <2>1, <3>1 DEF Range
  <2>2. CASE ~(n <= Len(s))
    <3>1. n - Len(s) \in DOMAIN t /\ u[n] = t[n - Len(s)] /\ Len(s) < n
      BY <2>2, <1>1, <1>2, <1>3
    <3> QED
      BY <3>1 DEF Range
  <2> QED
    BY <2>1, <2>2
<1>6. \A n \in DOMAIN u : n \in Int
  BY <1>1, <1>3
<1>7. Len(s) \in Int
  BY <1>1
<1>8. IsInjective(u)
  <2> SUFFICES ASSUME NEW m \in DOMAIN u, NEW n \in DOMAIN u, u[m] = u[n] PROVE m = n
    BY DEF IsInjective
  <2>1. CASE m \in DOMAIN s /\ u[m] = s[m] /\ n \in DOMAIN s /\ u[n] = s[n]
    BY <2>1 DEF IsInjective
  <2>2. CASE /\ m - Len(s) \in DOMAIN t /\ u[m] = t[m - Len(s)]
             /\ n - Len(s) \in DOMAIN t /\ u[n] = t[n - Len(s)]
    <3>1. m - Len(s) = n - Len(s)
      BY <2>2 DEF IsInjective
    <3> QED
      BY <3>1, <1>6, <1>7
  <2> QED
    BY <1>5, <2>1, <2>2
<1>9. ASSUME NEW m \in DOMAIN u, NEW n \in DOMAIN u, m < n
      PROVE  \/ \E x, y \in DOMAIN s : x < y /\ u[m] = s[x] /\ u[n] = s[y]
             \/ u[m] \in Range(s) /\ u[n] \in Range(t)
             \/ \E x, y \in DOMAIN t : x < y /\ u[m] = t[x] /\ u[n] = t[y]
  <2>1. CASE m \in DOMAIN s /\ u[m] = s[m] /\ n \in DOMAIN s /\ u[n] = s[n]
    BY <2>1, <1>9
  <2>2. CASE /\ m - Len(s) \in DOMAIN t /\ u[m] = t[m - Len(s)]
             /\ n - Len(s) \in DOMAIN t /\ u[n] = t[n - Len(s)]
    <3>1. m - Len(s) < n - Len(s)
      BY <1>6, <1>7, <1>9
    <3> QED
      BY <3>1, <2>2
  <2>3. CASE u[m] \in Range(s) /\ u[n] \in Range(t)
    BY <2>3
  <2>4. ~(Len(s) < m /\ n <= Len(s))
    BY <1>6, <1>7, <1>9
  <2> QED
    BY <1>5, <2>1, <2>2, <2>3, <2>4
<1> QED
  BY <1>2, <1>4, <1>8, <1>9 DEF u

\* A list that a page of what it has not shown is appended to, less what it shows
\* already, cuts what it cut before.
LEMMA CutsAppended ==
  ASSUME PagesTypeOK, NEW l, NEW T \in SUBSET Items,
         NEW s \in Seq(Items), IsInjective(s), NEW c, Cuts(l, s, c, T),
         NEW p \in Seq(Items), IsInjective(p), NEW n, Cuts(l, p, n, T \ Range(s)),
         NEW more \in Without(p, Range(s))
  PROVE  /\ s \o more \in Seq(Items) /\ IsInjective(s \o more)
         /\ Range(s \o more) = Range(s) \cup Range(p)
         /\ Cuts(l, s \o more, n, T)
<1> DEFINE u == s \o more
           R == T \ Range(s)
<1>1. /\ more \in Seq(Items) /\ IsInjective(more) /\ Range(more) = Range(p) \ Range(s)
      /\ DOMAIN more = 1..Len(more)
      /\ \A m, k \in 1..Len(more) : m < k =>
            \E x, y \in DOMAIN p : x < y /\ p[x] = more[m] /\ p[y] = more[k]
  BY WithoutIs
<1>2. /\ u \in Seq(Items) /\ IsInjective(u) /\ Range(u) = Range(s) \cup Range(p)
      /\ \A m, k \in DOMAIN u : m < k =>
              \/ \E x, y \in DOMAIN s : x < y /\ u[m] = s[x] /\ u[k] = s[y]
              \/ u[m] \in Range(s) /\ u[k] \in Range(more)
              \/ \E x, y \in DOMAIN more : x < y /\ u[m] = more[x] /\ u[k] = more[y]
  <2>1. Range(s) \cap Range(more) = {}
    BY <1>1
  <2>2. more \in Seq(Items) /\ IsInjective(more)
    BY <1>1
  <2>3. /\ u \in Seq(Items) /\ IsInjective(u) /\ Range(u) = Range(s) \cup Range(more)
        /\ \A m, k \in DOMAIN u : m < k =>
              \/ \E x, y \in DOMAIN s : x < y /\ u[m] = s[x] /\ u[k] = s[y]
              \/ u[m] \in Range(s) /\ u[k] \in Range(more)
              \/ \E x, y \in DOMAIN more : x < y /\ u[m] = more[x] /\ u[k] = more[y]
    BY ONLY <2>1, <2>2, AddedIs, s \in Seq(Items), IsInjective(s)
  <2> QED
    BY <2>3, <1>1
<1> HIDE DEF u
<1>3. ASSUME NEW i \in R, NEW j \in T \cap Range(s)
      PROVE  Before(l, j, i) /\ ~Before(l, i, j)
  <2>1. i \in Items /\ j \in Items /\ i # j /\ ~Before(l, i, j)
    BY DEF Cuts
  <2> QED
    BY <2>1, BeforeIsOrder
<1>4. ASSUME NEW m \in DOMAIN u, NEW k \in DOMAIN u, m < k, {u[m], u[k]} \subseteq T
      PROVE  Before(l, u[m], u[k])
  <2>1. CASE \E x, y \in DOMAIN s : x < y /\ u[m] = s[x] /\ u[k] = s[y]
    BY <2>1, <1>4 DEF Cuts
  <2>2. CASE u[m] \in Range(s) /\ u[k] \in Range(more)
    BY <2>2, <1>1, <1>3, <1>4
  <2>3. CASE \E x, y \in DOMAIN more : x < y /\ u[m] = more[x] /\ u[k] = more[y]
    <3>1. PICK x \in DOMAIN more, y \in DOMAIN more : x < y /\ u[m] = more[x] /\ u[k] = more[y]
      BY <2>3
    <3>2. PICK a \in DOMAIN p, b \in DOMAIN p : a < b /\ p[a] = more[x] /\ p[b] = more[y]
      BY <1>1, <3>1
    <3>3. u[m] \in Range(more) /\ u[k] \in Range(more)
      BY <3>1 DEF Range
    <3>4. {p[a], p[b]} \subseteq R
      BY <3>1, <3>2, <3>3, <1>1, <1>4
    <3> QED
      BY <3>1, <3>2, <3>4 DEF Cuts
  <2> QED
    BY <1>2, <1>4, <2>1, <2>2, <2>3
<1>5. ASSUME NEW i \in T \ Range(u), NEW j \in T \cap Range(u)
      PROVE  ~Before(l, i, j)
  <2>1. CASE j \in Range(s)
    BY <2>1, <1>2, <1>3
  <2>2. CASE j \notin Range(s)
    <3>1. i \in R \ Range(p) /\ j \in R \cap Range(p)
      BY <1>2, <2>2
    <3> QED
      BY <3>1 DEF Cuts
  <2> QED
    BY <2>1, <2>2
<1>6. ASSUME NEW i \in T \ Range(u)
      PROVE  n # End /\ Beyond(l, n, i)
  <2>1. i \in R \ Range(p)
    BY <1>2
  <2> QED
    BY <2>1 DEF Cuts
<1>7. Cuts(l, u, n, T)
  BY <1>4, <1>5, <1>6 DEF Cuts
<1> QED
  BY <1>2, <1>7 DEF u

------------------------------------------------------------------------------
(* Answers. *)

LEMMA FourViews ==
  ASSUME PagesTypeOK
  PROVE  /\ view \in {"threads", "source", "explore", "library"}
         /\ Listings(view) \subseteq Listing
         /\ Listing \subseteq {"newest", "oldest", "recommended", "A", "B", "all", "channel"}
<1>1. view \in Views /\ Views \subseteq {"threads", "source", "explore", "library"}
  BY PagesConstants DEF PagesTypeOK
<1> QED
  BY <1>1 DEF Listing, Listings

\* What an answer holds, if what is selected has all of U that is past the cursor.
Answers(page, l, cursor, U) ==
    /\ page \in [items: Seq(Items), next: Cursors] /\ CursorOK(page.next)
    /\ IsInjective(page.items) /\ Range(page.items) \subseteq Stored
    /\ Cuts(l, page.items, page.next, U)
    /\ ~ByOffset => /\ page.next.of \in {l, "end"}
                    /\ page.next.of = "end" => page.next = End
                    /\ Range(page.items) \subseteq Member(l)
    /\ BySnapshot => /\ \A i \in Range(page.items) : rows[i].seen <= SnapshotAt(cursor)
                     /\ page.next # End => page.next.at = SnapshotAt(cursor)

LEMMA PageIs ==
  ASSUME PagesTypeOK, NEW l \in Listing, NEW cursor \in Cursors, cursor # End,
         cursor = Start \/ CursorOK(cursor),
         NEW found \in Sorted(l, Selected(l, cursor)), NEW U \in SUBSET Selected(l, cursor),
         ByOffset /\ cursor # Start => \A i \in U : Beyond(l, cursor, i),
         NEW page, page = PageOf(l, cursor, found)
  PROVE  Answers(page, l, cursor, U)
<1>1. view \in {"threads", "source", "explore", "library"} /\ l \notin {"start", "end"}
  BY FourViews
<1>2. End \in Cursors /\ End.of = "end" /\ CursorOK(End)
  BY DEF End, Cursors, CursorOK
<1>3. SnapshotAt(cursor) \in Nat
  BY DEF SnapshotAt, Cursors, PagesTypeOK
<1>4. ASSUME NEW k \in Seq(Nat), NEW t \in Nat, NEW c, c = [of |-> l, key |-> k, at |-> t]
      PROVE  c \in Cursors /\ c # Start /\ c # End /\ c.of = l /\ c.key = k /\ c.at = t
  BY <1>1, <1>4 DEF Cursors, Start, End
<1>5. page = [items |-> page.items, next |-> page.next]
  BY DEF PageOf, OffsetPage, KeysetPage
<1>6. CASE ByOffset
  <2>1. page = OffsetPage(l, cursor, found) /\ Selected(l, cursor) = ExploreRows(l) /\ ~BySnapshot
    BY <1>6 DEF PageOf, Selected, ByOffset, BySnapshot
  <2>2. /\ page.items \in Seq(Items) /\ IsInjective(page.items)
        /\ Range(page.items) \subseteq ExploreRows(l)
        /\ Cuts(l, page.items, page.next, U)
        /\ \/ page.next = End
           \/ page.next = [of |-> l, key |-> <<page.next.key[1]>>, at |-> 0] /\ page.next.key[1] \in Nat
    BY <1>6, <2>1, OffsetCuts
  <2>3. page.next \in Cursors /\ CursorOK(page.next)
    <3>1. CASE page.next = End
      BY <3>1, <1>2
    <3>2. CASE page.next = [of |-> l, key |-> <<page.next.key[1]>>, at |-> 0] /\ page.next.key[1] \in Nat
      <4>1. <<page.next.key[1]>> \in Seq(Nat) /\ 0 \in Nat
        BY <3>2
      <4>3. PICK k \in Seq(Nat) : page.next = [of |-> l, key |-> k, at |-> 0]
        BY <3>2, <4>1
      <4>2. page.next \in Cursors /\ page.next # Start
        BY <4>1, <4>3, <1>4
      <4> QED
        BY <3>2, <4>2 DEF CursorOK
    <3> QED
      BY <2>2, <3>1, <3>2
  <2>4. page \in [items: Seq(Items), next: Cursors]
    BY <1>5, <2>2, <2>3
  <2>5. Range(page.items) \subseteq Stored
    BY <2>2 DEF ExploreRows
  <2> QED
    BY <1>6, <2>1, <2>2, <2>3, <2>4, <2>5 DEF Answers
<1>7. CASE ~ByOffset
  <2> DEFINE T == IF BySnapshot THEN SeenBy(SnapshotAt(cursor)) ELSE Stored
  <2>1. /\ page = KeysetPage(l, cursor, found) /\ Selected(l, cursor) = After(l, cursor, T)
        /\ T \subseteq Stored /\ T \in SUBSET Items
        /\ BySnapshot => \A i \in T : rows[i].seen <= SnapshotAt(cursor)
    BY <1>1, <1>7 DEF PageOf, Selected, ByOffset, BySnapshot, ThreadRows, SourceRows, LibraryRows,
       SeenBy, Stored
  <2> HIDE DEF T
  <2>2. /\ page.items \in Seq(Items) /\ IsInjective(page.items)
        /\ Range(page.items) \subseteq T \cap Member(l)
        /\ Cuts(l, page.items, page.next, U)
        /\ \/ page.next = End
           \/ /\ page.next = [of |-> l, key |-> page.next.key, at |-> SnapshotAt(cursor)]
              /\ page.next.key \in Seq(Nat)
    <3>1. /\ T \in SUBSET Items /\ found \in Sorted(l, After(l, cursor, T))
          /\ U \in SUBSET After(l, cursor, T) /\ page = KeysetPage(l, cursor, found)
      BY <2>1
    <3>2. KeysetAnswers(page, l, cursor, T, U)
      BY <1>7, <3>1, KeysetCuts
    <3> QED
      BY <3>2 DEF KeysetAnswers
  <2>3. /\ page.next \in Cursors /\ CursorOK(page.next) /\ page.next.of \in {l, "end"}
        /\ page.next.of = "end" => page.next = End
        /\ page.next # End => page.next.at = SnapshotAt(cursor)
    <3>1. CASE page.next = End
      BY <3>1, <1>2
    <3>2. CASE /\ page.next = [of |-> l, key |-> page.next.key, at |-> SnapshotAt(cursor)]
               /\ page.next.key \in Seq(Nat)
      <4>1. page.next \in Cursors /\ page.next # Start /\ page.next.of = l
            /\ page.next.at = SnapshotAt(cursor)
        BY <3>2, <1>3, <1>4
      <4> QED
        BY <4>1, <1>1, <1>7 DEF CursorOK
    <3> QED
      BY <2>2, <3>1, <3>2
  <2>4. page \in [items: Seq(Items), next: Cursors]
    BY <1>5, <2>2, <2>3
  <2>5. /\ Range(page.items) \subseteq Stored /\ Range(page.items) \subseteq Member(l)
        /\ BySnapshot => \A i \in Range(page.items) : rows[i].seen <= SnapshotAt(cursor)
    BY <2>1, <2>2
  <2> QED
    BY <1>7, <2>2, <2>3, <2>4, <2>5 DEF Answers
<1> QED
  BY <1>6, <1>7

------------------------------------------------------------------------------
(* The actions that store nothing: every cut stays one. *)

LEMMA Calm ==
  ASSUME UNCHANGED <<view, published, rows>>
  PROVE  /\ ByOffset' = ByOffset /\ BySnapshot' = BySnapshot /\ Guarded' = Guarded
         /\ Stored' = Stored /\ \A l : ExploreRows(l)' = ExploreRows(l)
         /\ \A c : CursorOK(c)' <=> CursorOK(c)
         /\ \A l, c, i : Beyond(l, c, i)' <=> Beyond(l, c, i)
         /\ \A l, s, c, U : Cuts(l, s, c, U)' <=> Cuts(l, s, c, U)
         /\ \A s, c, U, at : Snapshot(s, c, U, at)' <=> Snapshot(s, c, U, at)
<1>1. /\ ByOffset' = ByOffset /\ BySnapshot' = BySnapshot /\ Guarded' = Guarded
      /\ Stored' = Stored
  BY DEF ByOffset, BySnapshot, Guarded, Stored
<1>2. \A l : ExploreRows(l)' = ExploreRows(l)
  BY <1>1 DEF ExploreRows
<1>3. \A c : CursorOK(c)' <=> CursorOK(c)
  BY <1>1 DEF CursorOK
<1>4. \A l, i : Key(l, i)' = Key(l, i)
  BY DEF Key, SortKey, EffectiveAt
<1>5. \A l, i, j : Before(l, i, j)' <=> Before(l, i, j)
  BY <1>4 DEF Before
<1>6. \A l, c, i : Beyond(l, c, i)' <=> Beyond(l, c, i)
  BY <1>1, <1>2, <1>4, <1>5 DEF Beyond
<1>7. \A l, s, c, U : Cuts(l, s, c, U)' <=> Cuts(l, s, c, U)
  BY <1>5, <1>6 DEF Cuts
<1>8. \A s, c, U, at : Snapshot(s, c, U, at)' <=> Snapshot(s, c, U, at)
  BY <1>1 DEF Snapshot
<1> QED
  BY <1>1, <1>2, <1>3, <1>6, <1>7, <1>8

LEMMA CalmFlights ==
  ASSUME UNCHANGED <<view, published, rows>>
  PROVE  /\ \A f : PageOK(f)' <=> PageOK(f)
         /\ shown' = shown => /\ \A f : GoesOn(f)' <=> GoesOn(f)
                              /\ ShownOK' <=> ShownOK
<1>1. \A f : PageOK(f)' <=> PageOK(f)
  BY Calm DEF PageOK
<1>2. ASSUME shown' = shown
      PROVE  /\ \A f : GoesOn(f)' <=> GoesOn(f)
             /\ ShownOK' <=> ShownOK
  <2>1. Unshown' = Unshown /\ \A f : Current(f)' <=> Current(f)
    BY <1>2 DEF Unshown, Current
  <2>2. \A f : GoesOn(f)' <=> GoesOn(f)
    BY <1>2, <2>1, Calm DEF GoesOn
  <2>3. ShownOK' <=> ShownOK
    BY <1>2, Calm DEF ShownOK
  <2> QED
    BY <2>2, <2>3
<1> QED
  BY <1>1, <1>2

\* Requests that differ by their number, or by being aborted, are answered alike.
Alike(g, f) ==
    /\ g.listing = f.listing /\ g.cursor = f.cursor /\ g.page = f.page /\ g.state = f.state
    /\ g.session = f.session /\ g.stable = f.stable /\ g.since = f.since

LEMMA AlikeAnswers ==
  ASSUME NEW f, NEW g, Alike(g, f), PageOK(f), GoesOn(f)
  PROVE  PageOK(g) /\ GoesOn(g)
<1>1. First(g) <=> First(f)
  BY DEF Alike, First
<1>2. Current(g) <=> Current(f)
  BY <1>1 DEF Alike, Current
<1>3. PageOK(g)
  BY <1>1 DEF PageOK, Alike
<1>4. GoesOn(g)
  BY <1>2 DEF GoesOn, Alike
<1> QED
  BY <1>3, <1>4

\* An answer that is made now.
LEMMA ServedIs ==
  ASSUME PagesInv, NEW f \in flights, f.state = "asked", Decoded(f.listing, f.cursor),
         NEW found \in Sorted(f.listing, Selected(f.listing, f.cursor)),
         NEW g, g = Served(f, found)
  PROVE  /\ g \in Requests /\ g.no = f.no /\ g.state = "served"
         /\ g.listing = f.listing /\ g.cursor = f.cursor /\ g.session = f.session
         /\ CursorOK(g.page.next) /\ PageOK(g) /\ GoesOn(g)
         /\ ~ByOffset => /\ g.page.next.of = "end" => g.page.next = End
                         /\ g.page.next.of \in {g.listing, "end"}
                         /\ Range(g.page.items) \subseteq Member(g.listing)
                         /\ ~First(g) => g.cursor.of = g.listing
<1> DEFINE l == f.listing
           cursor == f.cursor
<1>1. /\ PagesTypeOK /\ f \in Requests /\ l \in Listing /\ cursor \in Cursors
      /\ cursor # End /\ (cursor = Start \/ CursorOK(cursor))
  BY DEF PagesInv, PagesTypeOK, Requests, CursorsOK, First, Start, End
<1>2. /\ clock \in Nat /\ Stored \subseteq Items /\ Unshown \subseteq Items
  BY <1>1 DEF PagesTypeOK, Stored, Unshown
<1> DEFINE page == PageOf(l, cursor, found)
<1>3. /\ g = [f EXCEPT !.state = "served", !.page = page,
                       !.stable = IF First(f) THEN Stored \cap Member(l) ELSE {},
                       !.since = IF First(f) THEN clock ELSE 0]
  BY DEF Served
<1> HIDE DEF page
<1>4. /\ g.no = f.no /\ g.listing = l /\ g.cursor = cursor /\ g.session = f.session
      /\ g.aborted = f.aborted /\ g.state = "served" /\ g.page = page
      /\ g.stable = IF First(f) THEN Stored \cap Member(l) ELSE {}
      /\ g.since = IF First(f) THEN clock ELSE 0
  BY <1>1, <1>3 DEF Requests
<1>5. g \in Requests <=> page \in [items: Seq(Items), next: Cursors]
  <2>1. g.stable \in SUBSET Items /\ g.since \in Nat
    BY <1>2, <1>4
  <2> QED
    BY <1>1, <1>3, <1>4, <2>1 DEF Requests
<1>6. ASSUME NEW U \in SUBSET Selected(l, cursor),
             ByOffset /\ cursor # Start => \A i \in U : Beyond(l, cursor, i)
      PROVE  Answers(page, l, cursor, U)
  <2>1. page = PageOf(l, cursor, found)
    BY DEF page
  <2> QED
    BY <1>1, <1>6, <2>1, PageIs
<1>7. view \in {"threads", "source", "explore", "library"}
  BY <1>1, FourViews
<1>8. ~ByOffset /\ ~First(g) => g.cursor.of = g.listing
  BY <1>4 DEF Decoded, First
<1>9. First(g) <=> First(f)
  BY <1>4 DEF First
<1>10. CASE First(f)
  <2>1. cursor = Start /\ SnapshotAt(cursor) = clock /\ ~Current(g)
    BY <1>10, <1>9 DEF First, SnapshotAt, Current
  <2>2. \A i \in Stored : rows[i].seen <= clock
    BY DEF PagesInv, Clocks, Stored
  <2>3. ExploreRows(l) \subseteq Selected(l, cursor)
    BY <1>7, <2>1, <2>2 DEF Selected, ThreadRows, SourceRows, LibraryRows, ExploreRows, After, SeenBy
  <2>4. Answers(page, l, cursor, ExploreRows(l))
    BY <1>6, <2>1, <2>3
  <2>5. g.stable = ExploreRows(l) /\ g.since = clock
    BY <1>4, <1>10 DEF ExploreRows
  <2>6. Snapshot(page.items, page.next, ExploreRows(l), clock)
    <3>1. \A i \in ExploreRows(l) : rows[i].seen <= clock
      BY <2>2 DEF ExploreRows
    <3> QED
      BY <2>1, <2>4, <3>1 DEF Answers, Snapshot
  <2>7. PageOK(g)
    BY <1>4, <2>4, <2>5, <2>6 DEF PageOK, Answers
  <2>8. GoesOn(g)
    BY <2>1 DEF GoesOn
  <2> QED
    BY <1>4, <1>5, <1>8, <2>4, <2>7, <2>8 DEF Answers
<1>11. CASE ~First(f)
  <2>1. cursor # Start /\ SnapshotAt(cursor) = cursor.at /\ g.stable = {}
    BY <1>4, <1>11 DEF First, SnapshotAt
  <2>2. CASE ~Current(g)
    <3>1. Answers(page, l, cursor, {})
      BY <1>6
    <3>2. PageOK(g)
      BY <1>4, <1>9, <1>11, <2>1, <3>1 DEF PageOK, Answers
    <3>3. GoesOn(g)
      BY <2>2 DEF GoesOn
    <3> QED
      BY <1>4, <1>5, <1>8, <3>1, <3>2, <3>3 DEF Answers
  <2>3. CASE Current(g)
    <3>1. Current(f) /\ l = shown.listing /\ ~shown.mixed
      BY <1>4, <1>9, <2>3 DEF Current
    <3>2. /\ \A i \in Unshown : Beyond(l, cursor, i)
          /\ BySnapshot => cursor.at = shown.since
      BY <3>1 DEF PagesInv, GoesOn
    <3>3. /\ Unshown \subseteq ExploreRows(l)
          /\ BySnapshot => \A i \in Unshown : rows[i].seen <= shown.since
      BY <3>1 DEF PagesInv, ShownOK, Snapshot, Unshown
    <3>4. Unshown \subseteq Selected(l, cursor)
      <4>1. CASE ByOffset
        BY <4>1, <3>3 DEF Selected, ByOffset
      <4>2. CASE ~ByOffset
        BY <1>7, <4>2, <2>1, <3>2, <3>3 DEF Selected, ByOffset, BySnapshot, ThreadRows,
           SourceRows, LibraryRows, After, SeenBy, ExploreRows, Beyond
      <4> QED
        BY <4>1, <4>2
    <3>5. Answers(page, l, cursor, Unshown)
      BY <1>6, <3>2, <3>4
    <3>6. Snapshot(page.items, page.next, {}, shown.since)
      BY <2>1, <3>2, <3>5 DEF Answers, Snapshot
    <3>7. PageOK(g)
      BY <1>4, <1>9, <1>11, <2>1, <3>5 DEF PageOK, Answers
    <3>8. GoesOn(g)
      BY <1>4, <3>5, <3>6 DEF GoesOn, Answers
    <3> QED
      BY <1>4, <1>5, <1>8, <3>5, <3>7, <3>8 DEF Answers
  <2> QED
    BY <2>2, <2>3
<1> QED
  BY <1>10, <1>11

------------------------------------------------------------------------------
(* Every action keeps the invariant. *)

LEMMA ServeKeeps ==
  ASSUME PagesInv, NEW f \in flights, Serve(f)
  PROVE  PagesInv'
<1>1. PICK g :
        /\ flights' = (flights \ {f}) \cup {g}
        /\ g \in Requests /\ g.no = f.no /\ g.listing = f.listing
        /\ g.cursor = f.cursor /\ g.session = f.session
        /\ g.state = "served" => CursorOK(g.page.next)
        /\ PageOK(g) /\ GoesOn(g)
        /\ ~ByOffset /\ g.state = "served" =>
             /\ g.page.next.of = "end" => g.page.next = End
             /\ g.page.next.of \in {g.listing, "end"}
             /\ Range(g.page.items) \subseteq Member(g.listing)
             /\ ~First(g) => g.cursor.of = g.listing
  <2>1. CASE Decoded(f.listing, f.cursor)
    <3>1. PICK found \in Sorted(f.listing, Selected(f.listing, f.cursor)) :
             flights' = (flights \ {f}) \cup {Served(f, found)}
      BY <2>1 DEF Serve
    <3>2. f.state = "asked"
      BY DEF Serve
    <3> QED
      BY <2>1, <3>1, <3>2, ServedIs
  <2>2. CASE ~Decoded(f.listing, f.cursor)
    <3> DEFINE g == [f EXCEPT !.state = "refused"]
    <3>1. flights' = (flights \ {f}) \cup {g} /\ f \in Requests
      BY <2>2 DEF Serve, PagesInv, PagesTypeOK
    <3>2. /\ g.no = f.no /\ g.listing = f.listing /\ g.cursor = f.cursor /\ g.session = f.session
          /\ g.stable = f.stable /\ g.state = "refused" /\ g \in Requests
      BY <3>1 DEF Requests
    <3> HIDE DEF g
    <3>3. PageOK(f)
      BY DEF PagesInv
    <3>4. PageOK(g) /\ GoesOn(g)
      BY <3>2, <3>3 DEF PageOK, GoesOn
    <3> QED
      BY <3>1, <3>2, <3>4
  <2> QED
    BY <2>1, <2>2
<1>2. UNCHANGED <<view, data, listing, shown, requests, loading, failed, faults>>
  BY DEF Serve
<1>3. /\ UNCHANGED <<view, published, rows, fetching, clock, listing, shown>>
      /\ UNCHANGED <<asked, latest, turns, loading, failed, faults>>
  BY <1>2 DEF data, requests
<1>4. f \in Requests /\ f.no <= asked
  BY DEF PagesInv, PagesTypeOK
<1>5. First(g) <=> First(f)
  BY <1>1 DEF First
<1>6. PagesTypeOK'
  BY <1>1, <1>3, <1>4 DEF PagesInv, PagesTypeOK
<1>7. Clocks'
  BY <1>3 DEF PagesInv, Clocks
<1>8. Guarded' = Guarded
  BY <1>3 DEF Guarded
<1>9. Numbers'
  BY <1>1, <1>3, <1>5, <1>8 DEF PagesInv, Numbers, First
<1>10. OwnListings'
  BY <1>1, <1>3 DEF PagesInv, OwnListings
<1>11. CursorsOK'
  <2>1. CursorsOK
    BY DEF PagesInv
  <2>2. \A c : CursorOK(c)' <=> CursorOK(c)
    BY <1>3, Calm
  <2> QED
    BY <1>1, <1>3, <1>5, <2>1, <2>2 DEF CursorsOK, First
<1>12. (\A h \in flights : PageOK(h) /\ GoesOn(h))'
  BY <1>1, <1>3, CalmFlights DEF PagesInv
<1>13. ShownOK'
  BY <1>3, CalmFlights DEF PagesInv
<1>14. ListingOK'
  <2>1. ByOffset' = ByOffset /\ ListingOK
    BY <1>3 DEF ByOffset, PagesInv
  <2> QED
    BY <1>1, <1>3, <1>5, <1>8, <2>1 DEF ListingOK, First
<1>15. OneListing'
  BY <1>3 DEF PagesInv, OneListing, ByOffset, Guarded
<1> QED
  BY <1>6, <1>7, <1>9, <1>10, <1>11, <1>12, <1>13, <1>14, <1>15 DEF PagesInv

\* A list without rows.
LEMMA EmptyIs ==
  ASSUME NEW l \in Listing, NEW e, e = Empty(l)
  PROVE  /\ e.listing = l /\ e.items = <<>> /\ Range(e.items) = {} /\ e.next = End
         /\ e.session = 0 /\ e.mixed = FALSE /\ e.stable = {} /\ e.since = 0
         /\ e \in [listing: Listing, items: Seq(Items), next: Cursors, session: Nat,
                   mixed: BOOLEAN, stable: SUBSET Items, since: Nat]
<1>1. End \in Cursors /\ <<>> \in Seq(Items)
  BY DEF End, Cursors
<1>2. /\ e.listing = l /\ e.items = <<>> /\ e.next = End
      /\ e.session = 0 /\ e.mixed = FALSE /\ e.stable = {} /\ e.since = 0
  BY DEF Empty
<1>3. Range(e.items) = {}
  BY <1>2 DEF Range
<1>4. e \in [listing: Listing, items: Seq(Items), next: Cursors, session: Nat,
             mixed: BOOLEAN, stable: SUBSET Items, since: Nat]
  BY <1>1 DEF Empty
<1> QED
  BY <1>2, <1>3, <1>4

\* Nothing in flight belongs to a list that has been emptied.
LEMMA EmptyKeeps ==
  ASSUME UNCHANGED <<view, published, rows>>,
         NEW l \in Listing, shown' = Empty(l), NEW f, PageOK(f), ~First(f) => f.session # 0
  PROVE  PageOK(f)' /\ GoesOn(f)'
<1>1. PageOK(f)'
  BY CalmFlights
<1>2. shown'.session = 0
  BY EmptyIs
<1>3. ~Current(f)'
  BY <1>2 DEF Current
<1> QED
  BY <1>1, <1>3 DEF GoesOn

LEMMA EmptyShownOK ==
  ASSUME NEW l \in Listing, shown' = Empty(l)
  PROVE  ShownOK' /\ CursorOK(shown.next)'
<1>1. /\ shown'.listing = l /\ shown'.items = <<>> /\ Range(shown'.items) = {}
      /\ shown'.next = End /\ shown'.stable = {} 
  BY EmptyIs
<1>2. DOMAIN shown'.items = {} /\ IsInjective(shown'.items)
  BY <1>1 DEF IsInjective
<1>3. Cuts(shown.listing, shown.items, shown.next, shown.stable)'
  BY <1>1, <1>2 DEF Cuts
<1>4. Snapshot(shown.items, shown.next, shown.stable, shown.since)'
  BY <1>1 DEF Snapshot
<1> QED
  BY <1>1, <1>2, <1>3, <1>4 DEF ShownOK, CursorOK

LEMMA FailKeeps ==
  ASSUME PagesInv, NEW f \in flights, Fail(f)
  PROVE  PagesInv'
<1>1. /\ flights' = flights \ {f}
      /\ UNCHANGED <<view, data, listing, requests>>
      /\ shown' = IF Guarded /\ Heard(f) /\ First(f) THEN Empty(listing) ELSE shown
  BY DEF Fail
<1>2. UNCHANGED <<view, published, rows, fetching, clock, listing, asked, latest, turns>>
  BY <1>1 DEF data, requests
<1>3. PagesTypeOK /\ listing \in Listings(view) /\ listing \in Listing /\ Guarded' = Guarded
  BY <1>2, FourViews DEF PagesInv, PagesTypeOK, Guarded
<1>4. Clocks'
  BY <1>2 DEF PagesInv, Clocks
<1>5. loading' \in BOOLEAN /\ failed' \in BOOLEAN /\ faults' \in 0..MaxFaults
  <2>1. loading' = Loaded(f) /\ Loaded(f) \in BOOLEAN
    BY <1>3 DEF Fail, Loaded, PagesTypeOK, Requests
  <2>2. failed' \in BOOLEAN
    BY DEF Fail
  <2>3. faults' \in 0..MaxFaults
    BY <1>3, PagesConstants DEF Fail, PagesTypeOK
  <2> QED
    BY <2>1, <2>2, <2>3
<1>6. CASE Guarded /\ Heard(f) /\ First(f)
  <2>1. shown' = Empty(listing) /\ f.no = latest
    BY <1>1, <1>6 DEF Heard
  <2>2. /\ shown'.listing = listing /\ shown'.items = <<>> /\ Range(shown'.items) = {}
        /\ shown'.next = End /\ shown'.session = 0
        /\ shown' \in [listing: Listing, items: Seq(Items), next: Cursors, session: Nat,
                       mixed: BOOLEAN, stable: SUBSET Items, since: Nat]
    BY <1>3, <2>1, EmptyIs
  <2>3. PagesTypeOK'
    BY <1>1, <1>2, <1>3, <1>5, <2>2 DEF PagesTypeOK
  <2>4. \A g \in flights' : g \in flights /\ g.no # latest /\ g.no # 0
    BY <1>1, <1>3, <2>1 DEF PagesInv, Numbers, PagesTypeOK, Requests
  <2>5. Numbers'
    BY <1>2, <1>3, <1>6, <2>2, <2>4 DEF PagesInv, Numbers, First, PagesTypeOK
  <2>6. OwnListings'
    BY <1>2, <1>3, <2>2, <2>4 DEF PagesInv, OwnListings
  <2>7. CursorsOK'
    <3>1. \A c : CursorOK(c)' <=> CursorOK(c)
      BY <1>2, Calm
    <3>2. CursorOK(shown.next)'
      BY <1>3, <2>1, EmptyShownOK
    <3>3. \A g \in flights' : /\ ~First(g) => g.cursor # End /\ CursorOK(g.cursor)'
                              /\ g.state = "served" => CursorOK(g.page.next)'
      BY <2>4, <3>1 DEF PagesInv, CursorsOK
    <3> QED
      BY <3>2, <3>3 DEF CursorsOK, First
  <2>8. (\A g \in flights : PageOK(g) /\ GoesOn(g))'
    <3> SUFFICES ASSUME NEW g \in flights' PROVE PageOK(g)' /\ GoesOn(g)'
      OBVIOUS
    <3>1. PageOK(g) /\ (~First(g) => g.session # 0)
      BY <2>4 DEF PagesInv, Numbers
    <3> QED
      BY <1>2, <1>3, <2>1, <3>1, EmptyKeeps
  <2>9. ShownOK'
    BY <1>3, <2>1, EmptyShownOK
  <2>10. ListingOK'
    BY <1>2, <1>3, <1>6, <2>2, <2>4 DEF PagesInv, ListingOK, First, ByOffset, Guarded
  <2>11. OneListing'
    BY <1>2, <2>2 DEF OneListing, End
  <2> QED
    BY <1>4, <2>3, <2>5, <2>6, <2>7, <2>8, <2>9, <2>10, <2>11 DEF PagesInv
<1>7. CASE ~(Guarded /\ Heard(f) /\ First(f))
  <2>1. shown' = shown /\ flights' \subseteq flights
    BY <1>1, <1>7
  <2>2. PagesTypeOK'
    BY <1>1, <1>2, <1>3, <1>5, <2>1 DEF PagesTypeOK
  <2>3. Numbers'
    BY <1>2, <1>3, <2>1 DEF PagesInv, Numbers, First
  <2>4. OwnListings'
    BY <1>2, <2>1 DEF PagesInv, OwnListings
  <2>5. CursorsOK'
    <3>1. \A c : CursorOK(c)' <=> CursorOK(c)
      BY <1>2, Calm
    <3> QED
      BY <2>1, <3>1 DEF PagesInv, CursorsOK, First
  <2>6. (\A g \in flights : PageOK(g) /\ GoesOn(g))' /\ ShownOK'
    BY <1>2, <2>1, CalmFlights DEF PagesInv
  <2>7. ListingOK'
    BY <1>2, <1>3, <2>1 DEF PagesInv, ListingOK, First, ByOffset
  <2>8. OneListing'
    BY <1>2, <1>3, <2>1 DEF PagesInv, OneListing, ByOffset
  <2> QED
    BY <1>4, <2>2, <2>3, <2>4, <2>5, <2>6, <2>7, <2>8 DEF PagesInv
<1> QED
  BY <1>6, <1>7

\* What a heard answer makes of the list.
LEMMA AppendedIs ==
  ASSUME PagesInv, NEW f \in flights, f.state = "served", ~First(f),
         NEW more \in Without(f.page.items, Range(shown.items)), NEW s, s = Appended(f, more)
  PROVE  /\ s \in [listing: Listing, items: Seq(Items), next: Cursors, session: Nat,
                   mixed: BOOLEAN, stable: SUBSET Items, since: Nat]
         /\ s.listing = shown.listing /\ s.next = f.page.next /\ s.session = shown.session
         /\ s.stable = shown.stable /\ s.since = shown.since
         /\ Range(s.items) = Range(shown.items) \cup Range(f.page.items) /\ IsInjective(s.items)
         /\ ~s.mixed => /\ ~shown.mixed /\ Current(f)
                        /\ Cuts(shown.listing, s.items, f.page.next, shown.stable)
                        /\ Snapshot(s.items, s.next, s.stable, s.since)
<1>1. PagesTypeOK /\ PageOK(f) /\ GoesOn(f) /\ ShownOK
  BY DEF PagesInv
<1>2. /\ shown \in [listing: Listing, items: Seq(Items), next: Cursors, session: Nat,
                    mixed: BOOLEAN, stable: SUBSET Items, since: Nat]
      /\ f \in Requests
  BY <1>1 DEF PagesTypeOK
<1>3. /\ f.page.items \in Seq(Items) /\ f.page.next \in Cursors /\ shown.items \in Seq(Items)
      /\ shown.stable \in SUBSET Items /\ shown.mixed \in BOOLEAN
      /\ f.session \in Nat /\ f.listing \in Listing
  BY <1>2 DEF Requests
<1>4. IsInjective(f.page.items) /\ IsInjective(shown.items)
  BY <1>1 DEF PageOK, ShownOK
<1>5. /\ more \in Seq(Items) /\ IsInjective(more)
      /\ Range(more) = Range(f.page.items) \ Range(shown.items)
  BY <1>3, <1>4, WithoutIs
<1> DEFINE items == shown.items \o more
           mixed == shown.mixed \/ f.session # shown.session \/ f.listing # shown.listing
<1>6. items \in Seq(Items) /\ IsInjective(items) /\ Range(items) = Range(shown.items) \cup Range(more)
  BY <1>3, <1>4, <1>5, AddedIs
<1>7. s = [shown EXCEPT !.items = items, !.next = f.page.next, !.mixed = mixed]
  BY DEF Appended
<1>8. mixed \in BOOLEAN /\ (~mixed => ~shown.mixed /\ Current(f))
  BY DEF Current
<1>9. ASSUME ~mixed
      PROVE  Cuts(shown.listing, items, f.page.next, shown.stable)
  <2>1. Current(f) /\ f.listing = shown.listing
    BY <1>8, <1>9
  <2>2. Cuts(shown.listing, f.page.items, f.page.next, shown.stable \ Range(shown.items))
    BY <1>1, <2>1 DEF GoesOn, Unshown
  <2>3. Cuts(shown.listing, shown.items, shown.next, shown.stable)
    BY <1>1, <1>8, <1>9 DEF ShownOK
  <2> QED
    BY <1>1, <1>3, <1>4, <2>2, <2>3, CutsAppended
<1> HIDE DEF items, mixed
<1>10. /\ s.listing = shown.listing /\ s.next = f.page.next /\ s.session = shown.session
       /\ s.stable = shown.stable /\ s.since = shown.since /\ s.items = items /\ s.mixed = mixed
  BY <1>2, <1>7
<1>11. s \in [listing: Listing, items: Seq(Items), next: Cursors, session: Nat,
              mixed: BOOLEAN, stable: SUBSET Items, since: Nat]
  BY <1>2, <1>3, <1>6, <1>7, <1>8
<1>12. Range(s.items) = Range(shown.items) \cup Range(f.page.items)
  BY <1>5, <1>6, <1>10
<1>13. ASSUME ~mixed
       PROVE  Snapshot(s.items, s.next, s.stable, s.since)
  <2>1. Snapshot(shown.items, shown.next, shown.stable, shown.since)
    BY <1>1, <1>8, <1>13 DEF ShownOK
  <2>2. Snapshot(f.page.items, f.page.next, {}, shown.since)
    BY <1>1, <1>8, <1>13 DEF GoesOn
  <2> QED
    BY <1>10, <1>12, <2>1, <2>2 DEF Snapshot
<1> QED
  BY <1>6, <1>8, <1>9, <1>10, <1>11, <1>12, <1>13

LEMMA ReplacedIs ==
  ASSUME PagesTypeOK, NEW f \in flights, NEW s, s = Replaced(f)
  PROVE  /\ s \in [listing: Listing, items: Seq(Items), next: Cursors, session: Nat,
                   mixed: BOOLEAN, stable: SUBSET Items, since: Nat]
         /\ s.listing = f.listing /\ s.items = f.page.items /\ s.next = f.page.next
         /\ s.session = f.no /\ s.mixed = FALSE /\ s.stable = f.stable /\ s.since = f.since
<1>1. f \in Requests
  BY DEF PagesTypeOK
<1>2. /\ f.listing \in Listing /\ f.page.items \in Seq(Items) /\ f.page.next \in Cursors
      /\ f.no \in Nat /\ f.stable \in SUBSET Items /\ f.since \in Nat
  BY <1>1 DEF Requests
<1> QED
  BY <1>2 DEF Replaced

LEMMA AnswerKeeps ==
  ASSUME PagesInv, NEW f \in flights, Answer(f)
  PROVE  PagesInv'
<1>1. /\ f.state = "served" /\ flights' = flights \ {f} /\ loading' = Loaded(f)
      /\ UNCHANGED <<view, data, listing, requests, failed, faults>>
  BY DEF Answer
<1>2. /\ UNCHANGED <<view, published, rows, fetching, clock, listing>>
      /\ UNCHANGED <<asked, latest, turns, failed, faults>>
  BY <1>1 DEF data, requests
<1>3. /\ PagesTypeOK /\ f \in Requests /\ Guarded' = Guarded /\ ByOffset' = ByOffset
      /\ view \in {"threads", "source", "explore", "library"}
  BY <1>2, FourViews DEF PagesInv, PagesTypeOK, Guarded, ByOffset
<1>4. \A g \in flights' : g \in flights /\ g.no # f.no
  BY <1>1 DEF PagesInv, Numbers
<1>5. Clocks'
  BY <1>2 DEF PagesInv, Clocks
<1>6. loading' \in BOOLEAN
  BY <1>1, <1>3 DEF Loaded, PagesTypeOK, Requests
<1>7. shown' \in [listing: Listing, items: Seq(Items), next: Cursors, session: Nat,
                  mixed: BOOLEAN, stable: SUBSET Items, since: Nat] => PagesTypeOK'
  BY <1>1, <1>2, <1>3, <1>6 DEF PagesTypeOK
<1>8. /\ \A c : CursorOK(c)' <=> CursorOK(c)
      /\ Stored' = Stored /\ \A l : ExploreRows(l)' = ExploreRows(l)
      /\ \A l, s, c, U : Cuts(l, s, c, U)' <=> Cuts(l, s, c, U)
      /\ \A s, c, U, at : Snapshot(s, c, U, at)' <=> Snapshot(s, c, U, at)
      /\ \A l, c, i : Beyond(l, c, i)' <=> Beyond(l, c, i)
      /\ BySnapshot' = BySnapshot /\ \A g : PageOK(g)' <=> PageOK(g)
  BY <1>2, Calm, CalmFlights
<1>9. CursorOK(shown'.next) => CursorsOK'
  BY <1>1, <1>8 DEF PagesInv, CursorsOK, First
<1>10. CASE ~Heard(f)
  <2>1. shown' = shown
    BY <1>10 DEF Answer
  <2>2. PagesTypeOK'
    BY <1>3, <1>7, <2>1 DEF PagesTypeOK
  <2>3. Numbers'
    BY <1>1, <1>2, <1>3, <2>1 DEF PagesInv, Numbers, First
  <2>4. OwnListings'
    BY <1>1, <1>2, <2>1 DEF PagesInv, OwnListings
  <2>5. CursorsOK'
    BY <1>9, <2>1 DEF PagesInv, CursorsOK
  <2>6. (\A g \in flights : PageOK(g) /\ GoesOn(g))' /\ ShownOK'
    BY <1>1, <1>2, <2>1, CalmFlights DEF PagesInv
  <2>7. ListingOK'
    BY <1>1, <1>2, <1>3, <2>1 DEF PagesInv, ListingOK, First
  <2>8. OneListing'
    BY <1>2, <1>3, <2>1 DEF PagesInv, OneListing
  <2> QED
    BY <1>5, <2>2, <2>3, <2>4, <2>5, <2>6, <2>7, <2>8 DEF PagesInv
<1>11. CASE Heard(f) /\ First(f)
  <2>1. shown' = Replaced(f)
    BY <1>11 DEF Answer
  <2>2. /\ shown' \in [listing: Listing, items: Seq(Items), next: Cursors, session: Nat,
                       mixed: BOOLEAN, stable: SUBSET Items, since: Nat]
        /\ shown'.listing = f.listing /\ shown'.items = f.page.items /\ shown'.next = f.page.next
        /\ shown'.session = f.no /\ shown'.mixed = FALSE /\ shown'.stable = f.stable
        /\ shown'.since = f.since
    BY <1>3, <2>1, ReplacedIs
  <2>3. f.no # 0 /\ f.no <= asked
    BY <1>3 DEF Requests, PagesTypeOK
  <2>4. Numbers'
    <3>1. \A g, h \in flights' : First(g) /\ ~First(h) => h.session # g.no
      BY <1>1 DEF PagesInv, Numbers
    <3>2. \A g \in flights' : ~First(g) => g.session # 0 /\ g.session <= asked
      BY <1>1 DEF PagesInv, Numbers
    <3>3. \A g, h \in flights' : g.no = h.no => g = h
      BY <1>1 DEF PagesInv, Numbers
    <3> QED
      BY <1>2, <1>4, <2>2, <2>3, <3>1, <3>2, <3>3 DEF Numbers, First
  <2>5. OwnListings'
    BY <1>1, <1>2, <2>2 DEF PagesInv, OwnListings
  <2>6. CursorsOK'
    BY <1>1, <1>9, <2>2 DEF PagesInv, CursorsOK
  <2>7. ASSUME NEW g \in flights'
        PROVE  (PageOK(g) /\ GoesOn(g))'
    <3>1. PageOK(g)'
      BY <1>4, <1>8 DEF PagesInv
    <3>2. ~Current(g)'
      BY <1>4, <1>11, <2>2 DEF PagesInv, Numbers, Current
    <3> QED
      BY <3>1, <3>2 DEF GoesOn
  <2>8. ShownOK'
    <3>1. PageOK(f)
      BY DEF PagesInv
    <3> QED
      BY <1>1, <1>8, <1>11, <2>2, <3>1 DEF PageOK, ShownOK
  <2>9. Guarded => f.listing = listing /\ f.no = latest
    BY <1>11 DEF PagesInv, ListingOK, Heard
  <2>10. /\ ListingOK /\ OneListing /\ f.listing \notin {"start", "end"}
         /\ ~ByOffset /\ f.page.next.of = "end" => f.page.next = End
    <3>1. f.listing \notin {"start", "end"}
      BY <1>3, FourViews DEF Requests
    <3>2. ~ByOffset /\ f.page.next.of = "end" => f.page.next = End
      BY <1>1 DEF PagesInv, ListingOK
    <3> QED
      BY <3>1, <3>2 DEF PagesInv
  <2>11. ListingOK'
    <3>1. \A g \in flights' : Guarded => g.no # latest
      BY <1>4, <2>9
    <3>2. ~ByOffset => \A g \in flights' : g.state = "served" =>
             /\ g.page.next.of = "end" => g.page.next = End
             /\ g.page.next.of \in {g.listing, "end"}
             /\ Range(g.page.items) \subseteq Member(g.listing)
             /\ ~First(g) => g.cursor.of = g.listing
      BY <1>1 DEF PagesInv, ListingOK
    <3> QED
      BY <1>2, <1>3, <2>2, <2>10, <3>1, <3>2 DEF ListingOK, First
  <2>12. OneListing'
    BY <1>1, <1>2, <1>3, <2>2, <2>9, <2>10 DEF ListingOK, OneListing
  <2> QED
    BY <1>5, <1>7, <2>2, <2>4, <2>5, <2>6, <2>7, <2>8, <2>11, <2>12 DEF PagesInv
<1>12. CASE Heard(f) /\ ~First(f)
  <2>1. PICK more \in Without(f.page.items, Range(shown.items)) : shown' = Appended(f, more)
    BY <1>12 DEF Answer
  <2>2. /\ shown' \in [listing: Listing, items: Seq(Items), next: Cursors, session: Nat,
                       mixed: BOOLEAN, stable: SUBSET Items, since: Nat]
        /\ shown'.listing = shown.listing /\ shown'.next = f.page.next
        /\ shown'.session = shown.session
        /\ shown'.stable = shown.stable /\ shown'.since = shown.since
        /\ Range(shown'.items) = Range(shown.items) \cup Range(f.page.items)
        /\ IsInjective(shown'.items)
        /\ ~shown'.mixed => /\ ~shown.mixed /\ Current(f)
                            /\ Cuts(shown.listing, shown'.items, f.page.next, shown.stable)
                            /\ Snapshot(shown'.items, shown'.next, shown'.stable, shown'.since)
    BY <1>1, <1>12, <2>1, AppendedIs
  <2>13. Guarded => f.no = latest
    BY <1>12 DEF Heard, Guarded
  <2>3. shown.session # 0
    BY <1>12, <2>13 DEF PagesInv, Numbers
  <2>4. Numbers'
    BY <1>1, <1>2, <1>3, <2>2, <2>3 DEF PagesInv, Numbers, First
  <2>5. OwnListings'
    BY <1>1, <1>2, <2>2 DEF PagesInv, OwnListings
  <2>6. CursorsOK'
    BY <1>1, <1>9, <2>2 DEF PagesInv, CursorsOK
  <2>7. ASSUME NEW g \in flights'
        PROVE  (PageOK(g) /\ GoesOn(g))'
    <3>1. PageOK(g)' /\ GoesOn(g)
      BY <1>4, <1>8 DEF PagesInv
    <3>2. Unshown' \in SUBSET Unshown
      BY <2>2 DEF Unshown
    <3>3. Current(g)' => Current(g)
      BY <2>2 DEF Current
    <3>4. GoesOn(g)'
      BY <1>8, <2>2, <3>1, <3>2, <3>3, CutsLess DEF GoesOn
    <3> QED
      BY <3>1, <3>4
  <2>8. ShownOK'
    <3>1. PageOK(f) /\ ShownOK
      BY DEF PagesInv
    <3>2. Range(shown'.items) \subseteq Stored
      BY <1>1, <2>2, <3>1 DEF PageOK, ShownOK
    <3> QED
      BY <1>8, <2>2, <3>1, <3>2 DEF ShownOK
  <2>9. ~ByOffset /\ (Guarded \/ view = "source") => f.listing = shown.listing
    <3>1. CASE Guarded /\ ~ByOffset
      BY <3>1, <1>1, <1>12 DEF PagesInv, ListingOK, Heard
    <3>2. CASE view = "source"
      BY <3>2, <1>12 DEF Heard, Guarded
    <3> QED
      BY <3>1, <3>2
  <2>10. ~ByOffset => f.listing = shown.listing
    BY <1>3, <2>9 DEF ByOffset, Guarded
  <2>11. ListingOK'
    <3>1. \A g \in flights' : Guarded => g.no # latest
      BY <1>4, <2>13
    <3>2. ~ByOffset => \A g \in flights' : g.state = "served" =>
             /\ g.page.next.of = "end" => g.page.next = End
             /\ g.page.next.of \in {g.listing, "end"}
             /\ Range(g.page.items) \subseteq Member(g.listing)
             /\ ~First(g) => g.cursor.of = g.listing
      BY <1>1 DEF PagesInv, ListingOK
    <3>3. ~ByOffset /\ f.page.next.of = "end" => f.page.next = End
      BY <1>1 DEF PagesInv, ListingOK
    <3> QED
      BY <1>2, <1>3, <2>2, <3>1, <3>2, <3>3 DEF ListingOK, First
  <2>12. OneListing'
    <3>1. OneListing /\ ListingOK
      BY DEF PagesInv
    <3> QED
      BY <1>1, <1>2, <1>3, <2>2, <2>10, <3>1 DEF OneListing, ListingOK
  <2> QED
    BY <1>5, <1>7, <2>2, <2>4, <2>5, <2>6, <2>7, <2>8, <2>11, <2>12 DEF PagesInv
<1> QED
  BY <1>10, <1>11, <1>12

\* A new request.
LEMMA RequestIs ==
  ASSUME NEW no \in Nat \ {0}, NEW l \in Listing, NEW cursor \in Cursors, NEW session \in Nat,
         NEW r, r = Request(no, l, cursor, session)
  PROVE  /\ r \in Requests /\ r.no = no /\ r.listing = l /\ r.cursor = cursor
         /\ r.state = "asked" /\ r.session = session /\ PageOK(r)
<1>2. NoPage \in [items: Seq(Items), next: Cursors]
  BY DEF NoPage, Start, Cursors
<1>3. /\ r.no = no /\ r.listing = l /\ r.cursor = cursor
      /\ r.state = "asked" /\ r.session = session /\ r.stable = {}
  BY DEF Request
<1>4. r \in Requests
  BY <1>2 DEF Request, Requests
<1>5. PageOK(r)
  BY <1>3 DEF PageOK
<1> QED
  BY <1>3, <1>4, <1>5

LEMMA AbortedIs ==
  ASSUME NEW fs \in SUBSET Requests, NEW g \in Aborted(fs)
  PROVE  \E f \in fs : /\ g \in Requests /\ g.no = f.no /\ Alike(g, f)
                       /\ g = IF view = "source" THEN [f EXCEPT !.aborted = TRUE] ELSE f
<1>1. CASE view = "source"
  <2>1. PICK f \in fs : g = [f EXCEPT !.aborted = TRUE]
    BY <1>1 DEF Aborted
  <2>2. g \in Requests /\ g.no = f.no /\ Alike(g, f)
    BY <2>1 DEF Requests, Alike
  <2> QED
    BY <1>1, <2>1, <2>2
<1>2. CASE view # "source"
  BY <1>2 DEF Aborted, Alike
<1> QED
  BY <1>1, <1>2

\* The first page of a list is asked for, and the old list goes or stays.
LEMMA BeginKeeps ==
  ASSUME PagesInv, NEW l \in Listings(view), Begin(l),
         listing' \in Listings(view), Guarded => listing' = l,
         shown' = (IF Guarded THEN Empty(l) ELSE shown), turns' \in 0..MaxTurns
  PROVE  PagesInv'
<1> DEFINE r == Request(asked + 1, l, Start, asked + 1)
<1>1. /\ asked < MaxRequests /\ asked' = asked + 1 /\ latest' = asked + 1
      /\ flights' = Aborted(flights) \cup {r}
      /\ loading' = Guarded /\ failed' = FALSE
      /\ UNCHANGED <<view, published, rows, fetching, clock, faults>>
  BY DEF Begin, data
<1>2. /\ PagesTypeOK /\ flights \in SUBSET Requests /\ l \in Listing
      /\ asked \in Nat /\ latest \in Nat /\ latest <= asked /\ MaxRequests \in Nat
  <2>1. PagesTypeOK
    BY DEF PagesInv
  <2>2. MaxRequests \in Nat
    BY PagesConstants
  <2>3. asked \in 0..MaxRequests /\ latest \in 0..asked /\ flights \subseteq Requests
    BY <2>1 DEF PagesTypeOK
  <2>4. asked \in Nat /\ latest \in Nat /\ latest <= asked
    BY <2>2, <2>3
  <2>5. l \in Listing
    BY <2>1, FourViews
  <2> QED
    BY <2>1, <2>2, <2>3, <2>4, <2>5
<1>3. /\ r \in Requests /\ r.no = asked + 1 /\ r.listing = l /\ r.cursor = Start
      /\ r.state = "asked" /\ r.session = asked + 1 /\ PageOK(r)
  <2>1. Start \in Cursors
    BY DEF Start, Cursors
  <2>2. asked + 1 \in Nat \ {0}
    BY <1>2
  <2> QED
    BY <1>2, <2>1, <2>2, RequestIs
<1> HIDE DEF r
<1>4. ASSUME NEW g \in flights', g # r
      PROVE  \E f \in flights :
               /\ g \in Requests /\ g.no = f.no /\ Alike(g, f)
               /\ g = IF view = "source" THEN [f EXCEPT !.aborted = TRUE] ELSE f
  BY <1>1, <1>2, <1>4, AbortedIs
<1>5. \A g \in flights' : g # r => g.no <= asked /\ g \in Requests
  BY <1>4 DEF PagesInv, PagesTypeOK
<1>6. First(r) /\ r.no # 0 /\ r.no \in Nat
  BY <1>2, <1>3 DEF First
<1>7. ASSUME NEW g \in flights', NEW h \in flights', g.no = h.no
      PROVE  g = h
  <2>1. CASE g = r \/ h = r
    BY <2>1, <1>2, <1>3, <1>5, <1>7
  <2>2. CASE g # r /\ h # r
    <3>1. PICK f \in flights :
             g.no = f.no /\ g = IF view = "source" THEN [f EXCEPT !.aborted = TRUE] ELSE f
      BY <1>4, <2>2
    <3>2. PICK k \in flights :
             h.no = k.no /\ h = IF view = "source" THEN [k EXCEPT !.aborted = TRUE] ELSE k
      BY <1>4, <2>2
    <3>3. f = k
      BY <1>7, <3>1, <3>2 DEF PagesInv, Numbers
    <3> QED
      BY <3>1, <3>2, <3>3
  <2> QED
    BY <2>1, <2>2
<1>8. /\ Guarded' = Guarded /\ ByOffset' = ByOffset /\ \A c : CursorOK(c)' <=> CursorOK(c)
      /\ \A g : PageOK(g)' <=> PageOK(g)
  BY <1>1, Calm, CalmFlights
<1>9. Clocks'
  BY <1>1 DEF PagesInv, Clocks
<1>10. \/ ~Guarded /\ shown' = shown
       \/ /\ Guarded /\ listing' = l /\ shown' = Empty(l)
          /\ shown'.listing = l /\ shown'.next = End /\ shown'.session = 0
          /\ Range(shown'.items) = {}
          /\ shown' \in [listing: Listing, items: Seq(Items), next: Cursors, session: Nat,
                         mixed: BOOLEAN, stable: SUBSET Items, since: Nat]
  BY <1>2, EmptyIs
<1>11. PagesTypeOK'
  <2>1. flights' \subseteq Requests /\ \A g \in flights' : g.no <= asked'
    <3> SUFFICES ASSUME NEW g \in flights' PROVE g \in Requests /\ g.no <= asked'
      OBVIOUS
    <3>1. CASE g = r
      BY <3>1, <1>1, <1>2, <1>3
    <3>2. CASE g # r
      <4>1. g \in Requests /\ g.no <= asked /\ g.no \in Nat
        BY <3>2, <1>5 DEF Requests
      <4> QED
        BY <4>1, <1>1, <1>2
    <3> QED
      BY <3>1, <3>2
  <2>2. asked' \in 0..MaxRequests /\ latest' \in 0..asked'
    BY <1>1, <1>2
  <2>3. loading' \in BOOLEAN /\ failed' \in BOOLEAN
    <3>2. loading' = Guarded
      BY DEF Begin
    <3>1. loading' \in BOOLEAN
      BY <3>2 DEF Guarded
    <3> QED
      BY <1>1, <3>1
  <2> QED
    BY <1>1, <1>2, <1>10, <2>1, <2>2, <2>3 DEF PagesTypeOK
<1>12. ASSUME NEW g \in flights', g # r
       PROVE  /\ First(g) => shown.session # g.no
              /\ ~First(g) => g.session # 0 /\ g.session <= asked
              /\ ~First(g) /\ ~Guarded => shown.session # 0
              /\ g.listing \in Listings(view)
              /\ PageOK(g) /\ GoesOn(g)
              /\ ~First(g) => g.cursor # End /\ CursorOK(g.cursor)
              /\ g.state = "served" => CursorOK(g.page.next)
              /\ ~ByOffset /\ g.state = "served" =>
                     /\ g.page.next.of = "end" => g.page.next = End
                     /\ g.page.next.of \in {g.listing, "end"}
                     /\ Range(g.page.items) \subseteq Member(g.listing)
                     /\ ~First(g) => g.cursor.of = g.listing
  <2>1. PICK f \in flights : g.no = f.no /\ Alike(g, f)
    BY <1>4, <1>12
  <2>2. (First(g) <=> First(f)) /\ g.no = f.no
    BY <2>1 DEF Alike, First
  <2>3. PageOK(g) /\ GoesOn(g)
    BY <2>1, AlikeAnswers DEF PagesInv
  <2>4. /\ First(f) => shown.session # f.no
        /\ ~First(f) => f.session # 0 /\ f.session <= asked
        /\ ~First(f) /\ ~Guarded => shown.session # 0
    BY DEF PagesInv, Numbers
  <2>5. f.listing \in Listings(view)
    BY DEF PagesInv, OwnListings
  <2>6. /\ ~First(f) => f.cursor # End /\ CursorOK(f.cursor)
        /\ f.state = "served" => CursorOK(f.page.next)
    BY DEF PagesInv, CursorsOK
  <2>7. ~ByOffset /\ f.state = "served" =>
          /\ f.page.next.of = "end" => f.page.next = End
          /\ f.page.next.of \in {f.listing, "end"}
          /\ Range(f.page.items) \subseteq Member(f.listing)
          /\ ~First(f) => f.cursor.of = f.listing
    BY DEF PagesInv, ListingOK
  <2> QED
    BY <2>1, <2>2, <2>3, <2>4, <2>5, <2>6, <2>7 DEF Alike
<1>13. \A g, h \in flights' : First(g) /\ ~First(h) => h.session # g.no
  <2> SUFFICES ASSUME NEW g \in flights', NEW h \in flights', First(g), ~First(h)
               PROVE  h.session # g.no
    OBVIOUS
  <2>1. h # r
    BY <1>6
  <2>2. CASE g = r
    <3>1. h.session <= asked /\ h.session \in Nat
      BY <1>5, <1>12, <2>1 DEF Requests
    <3> QED
      BY <1>2, <1>3, <2>2, <3>1
  <2>3. CASE g # r
    <3>1. PICK f \in flights : g.no = f.no /\ Alike(g, f)
      BY <1>4, <2>3
    <3>2. PICK k \in flights : Alike(h, k)
      BY <1>4, <2>1
    <3> QED
      BY <3>1, <3>2 DEF Alike, First, PagesInv, Numbers
  <2> QED
    BY <2>2, <2>3
<1>14. shown.session <= asked /\ shown.session \in Nat
  BY <1>2 DEF PagesInv, Numbers, PagesTypeOK
<1>15. Numbers'
  <2>1. ASSUME NEW g \in flights', First(g)
        PROVE  shown'.session # g.no
    <3>1. CASE g = r
      BY <1>2, <1>3, <1>10, <1>14, <3>1
    <3>2. CASE g # r
      <4>1. g.no # 0
        BY <1>5, <3>2 DEF Requests
      <4> QED
        BY <1>10, <1>12, <2>1, <3>2, <4>1
    <3> QED
      BY <3>1, <3>2
  <2>2. ASSUME NEW g \in flights', ~First(g)
        PROVE  /\ g.session # 0 /\ g.session <= asked'
               /\ (Guarded => g.no = latest') => shown'.session # 0
    <3>1. g # r
      BY <1>6, <2>2
    <3>2. g.session # 0 /\ g.session <= asked /\ g.session \in Nat /\ g.no <= asked /\ g.no \in Nat
      BY <1>5, <1>12, <2>2, <3>1 DEF Requests
    <3>3. g.session <= asked' /\ g.no # latest'
      BY <1>1, <1>2, <3>2
    <3>4. ~Guarded => shown'.session # 0
      BY <1>10, <1>12, <2>2, <3>1
    <3> QED
      BY <3>2, <3>3, <3>4
  <2>3. shown'.session <= asked'
    BY <1>1, <1>2, <1>10, <1>14
  <2>4. shown'.session = 0 => shown'.next = End
    BY <1>10 DEF PagesInv, Numbers
  <2> QED
    BY <1>7, <1>8, <1>13, <2>1, <2>2, <2>3, <2>4 DEF Numbers, First
<1>16. OwnListings'
  BY <1>1, <1>3, <1>10, <1>12 DEF PagesInv, OwnListings
<1>17. CursorsOK'
  <2>1. CursorOK(shown'.next)
    BY <1>10 DEF PagesInv, CursorsOK, CursorOK
  <2>2. \A g \in flights' : /\ ~First(g) => g.cursor # End /\ CursorOK(g.cursor)
                            /\ g.state = "served" => CursorOK(g.page.next)
    BY <1>3, <1>6, <1>12
  <2> QED
    BY <1>8, <2>1, <2>2 DEF CursorsOK, First
<1>18. ASSUME NEW g \in flights'
       PROVE  (PageOK(g) /\ GoesOn(g))'
  <2>1. PageOK(g) /\ GoesOn(g) /\ (~First(g) => g.session # 0)
    <3>1. GoesOn(r)
      BY <1>6 DEF GoesOn, Current
    <3> QED
      BY <1>3, <1>6, <1>12, <3>1
  <2> QED
    BY <1>1, <1>2, <1>10, <2>1, CalmFlights, EmptyKeeps
<1>19. ShownOK'
  <2>1. CASE shown' = shown
    BY <1>1, <2>1, CalmFlights DEF PagesInv
  <2>2. CASE shown' = Empty(l)
    BY <1>2, <2>2, EmptyShownOK
  <2> QED
    BY <1>10, <2>1, <2>2
<1>20. ListingOK'
  <2>1. ListingOK
    BY DEF PagesInv
  <2>2. ~ByOffset /\ shown'.next.of = "end" => shown'.next = End
    BY <1>10, <2>1 DEF ListingOK
  <2>3. ~ByOffset => \A g \in flights' : g.state = "served" =>
             /\ g.page.next.of = "end" => g.page.next = End
             /\ g.page.next.of \in {g.listing, "end"}
             /\ Range(g.page.items) \subseteq Member(g.listing)
             /\ ~First(g) => g.cursor.of = g.listing
    BY <1>3, <1>12
  <2>4. Guarded => \A g \in flights' : g.no = latest' => First(g) /\ g.listing = listing'
    <3>1. \A g \in flights' : g.no = latest' => g = r
      BY <1>1, <1>2, <1>5, <1>3
    <3> QED
      BY <1>3, <1>6, <1>10, <3>1
  <2> QED
    BY <1>8, <2>2, <2>3, <2>4 DEF ListingOK, First
<1>21. OneListing'
  <2>1. OneListing
    BY DEF PagesInv
  <2> QED
    BY <1>8, <1>10, <2>1 DEF OneListing, End
<1> QED
  BY <1>9, <1>11, <1>15, <1>16, <1>17, <1>18, <1>19, <1>20, <1>21 DEF PagesInv

LEMMA TurnKeeps ==
  ASSUME PagesInv, NEW l \in Listings(view), Turn(l)
  PROVE  PagesInv'
<1>1. turns' \in 0..MaxTurns
  BY PagesConstants DEF Turn, PagesInv, PagesTypeOK
<1> QED
  BY <1>1, BeginKeeps DEF Turn

LEMMA ReloadKeeps ==
  ASSUME PagesInv, Refresh
  PROVE  PagesInv'
<1>1. turns' \in 0..MaxTurns
  BY PagesConstants DEF Refresh, PagesInv, PagesTypeOK
<1>2. view \in {"threads", "source", "explore", "library"} /\ listing \in Listings(view)
  BY FourViews DEF PagesInv, PagesTypeOK
<1> DEFINE l == IF view = "source" THEN listing ELSE "all"
<1>3. ~Guarded /\ Begin(l) /\ listing' = listing /\ shown' = shown
  BY DEF Refresh
<1>4. l \in Listings(view)
  BY <1>2, <1>3 DEF Guarded, Listings
<1> HIDE DEF l
<1> QED
  BY <1>1, <1>2, <1>3, <1>4, BeginKeeps

\* A further page is asked for: it takes up where the list ends.
LEMMA FurtherKeeps ==
  ASSUME PagesInv, NEW l \in Listings(view), Further(l), faults' \in 0..MaxFaults
  PROVE  PagesInv'
<1> DEFINE r == Request(asked + 1, l, shown.next, shown.session)
<1>1. /\ asked < MaxRequests /\ asked' = asked + 1
      /\ latest' = (IF Guarded THEN asked + 1 ELSE latest)
      /\ flights' = flights \cup {r} /\ loading' = TRUE /\ failed' = FALSE
      /\ shown.next # End
      /\ UNCHANGED <<view, published, rows, fetching, clock, listing, shown, turns>>
  BY DEF Further, data
<1>2. /\ PagesTypeOK /\ l \in Listing /\ shown.next \in Cursors /\ shown.session \in Nat
      /\ asked \in Nat /\ latest \in Nat /\ latest <= asked /\ MaxRequests \in Nat
      /\ flights \subseteq Requests
  BY FourViews, PagesConstants DEF PagesInv, PagesTypeOK
<1>3. /\ r \in Requests /\ r.no = asked + 1 /\ r.listing = l /\ r.cursor = shown.next
      /\ r.state = "asked" /\ r.session = shown.session /\ PageOK(r)
  <2>1. asked + 1 \in Nat \ {0}
    BY <1>2
  <2> QED
    BY <1>2, <2>1, RequestIs
<1> HIDE DEF r
<1>4. ~First(r) /\ CursorOK(r.cursor) /\ r.cursor # End /\ r.session # 0 /\ r.session <= asked
  BY <1>1, <1>3 DEF PagesInv, CursorsOK, CursorOK, First, Numbers
<1>5. \A g \in flights : g \in Requests /\ g.no \in Nat /\ g.no <= asked /\ g.session \in Nat
  BY <1>2 DEF PagesTypeOK, Requests
<1>6. /\ Guarded' = Guarded /\ ByOffset' = ByOffset /\ \A c : CursorOK(c)' <=> CursorOK(c)
      /\ \A g : PageOK(g)' <=> PageOK(g)
      /\ \A g : GoesOn(g)' <=> GoesOn(g)
      /\ ShownOK' <=> ShownOK
  BY <1>1, Calm, CalmFlights
<1>7. PagesTypeOK'
  <2>1. flights' \subseteq Requests
    BY <1>1, <1>2, <1>3
  <2>2. \A g \in flights' : g.no <= asked'
    BY <1>1, <1>2, <1>3, <1>5
  <2>3. asked' \in 0..MaxRequests /\ latest' \in 0..asked'
    BY <1>1, <1>2
  <2>4. loading' \in BOOLEAN /\ failed' \in BOOLEAN
    BY <1>1
  <2> QED
    BY <1>1, <1>2, <2>1, <2>2, <2>3, <2>4 DEF PagesTypeOK
<1>8. Clocks'
  BY <1>1 DEF PagesInv, Clocks
<1>9. Numbers'
  <2>1. /\ \A g, h \in flights : g.no = h.no => g = h
        /\ \A g \in flights : First(g) => shown.session # g.no
        /\ \A g \in flights : ~First(g) => g.session # 0 /\ g.session <= asked
        /\ \A g, h \in flights : First(g) /\ ~First(h) => h.session # g.no
        /\ shown.session <= asked
        /\ shown.session = 0 => shown.next = End
    BY DEF PagesInv, Numbers
  <2>2. \A g, h \in flights' : g.no = h.no => g = h
    BY <1>1, <1>2, <1>3, <1>5, <2>1
  <2>3. \A g \in flights' : First(g) => shown'.session # g.no
    BY <1>1, <1>4, <2>1
  <2>4. \A g \in flights' : ~First(g) => g.session # 0 /\ g.session <= asked'
    BY <1>1, <1>2, <1>3, <1>4, <1>5, <2>1
  <2>5. \A g, h \in flights' : First(g) /\ ~First(h) => h.session # g.no
    BY <1>1, <1>3, <1>4, <2>1
  <2>6. shown'.session <= asked' /\ shown'.session # 0 /\ shown'.next = shown.next
    BY <1>1, <1>2, <2>1
  <2> QED
    BY <2>2, <2>3, <2>4, <2>5, <2>6 DEF Numbers, First
<1>10. OwnListings'
  BY <1>1, <1>3 DEF PagesInv, OwnListings
<1>11. CursorsOK'
  <2>1. \A g \in flights' : /\ ~First(g) => g.cursor # End /\ CursorOK(g.cursor)
                            /\ g.state = "served" => CursorOK(g.page.next)
    BY <1>1, <1>3, <1>4 DEF PagesInv, CursorsOK
  <2> QED
    BY <1>1, <1>6, <2>1 DEF PagesInv, CursorsOK, First
<1>12. GoesOn(r)
  <2> SUFFICES ASSUME Current(r)
               PROVE  /\ \A i \in Unshown : Beyond(l, shown.next, i)
                      /\ BySnapshot => shown.next.at = shown.since
    BY <1>3 DEF GoesOn
  <2>1. l = shown.listing /\ ~shown.mixed
    BY <1>3 DEF Current
  <2>2. /\ Cuts(shown.listing, shown.items, shown.next, shown.stable)
        /\ Snapshot(shown.items, shown.next, shown.stable, shown.since)
    BY <2>1 DEF PagesInv, ShownOK
  <2> QED
    BY <1>1, <2>1, <2>2 DEF Cuts, Snapshot, Unshown
<1>13. (\A g \in flights : PageOK(g) /\ GoesOn(g))' /\ ShownOK'
  BY <1>1, <1>3, <1>6, <1>12 DEF PagesInv
<1>14. OneListing'
  BY <1>1, <1>6 DEF PagesInv, OneListing
<1>15. ListingOK'
  <2>1. ListingOK /\ OneListing
    BY DEF PagesInv
  <2>2. ~ByOffset => \A g \in flights' : g.state = "served" =>
             /\ g.page.next.of = "end" => g.page.next = End
             /\ g.page.next.of \in {g.listing, "end"}
             /\ Range(g.page.items) \subseteq Member(g.listing)
             /\ ~First(g) => g.cursor.of = g.listing
    BY <1>1, <1>3, <2>1 DEF ListingOK
  <2>3. Guarded => \A g \in flights' : g.no = latest' => g = r
    BY <1>1, <1>2, <1>5
  <2>4. Guarded => r.cursor.of = shown.listing
    <3>1. Guarded => ~ByOffset
      BY DEF Guarded, ByOffset
    <3> QED
      BY <1>1, <1>3, <2>1, <3>1 DEF ListingOK, OneListing
  <2>5. Guarded => \A g \in flights' : g.no = latest' => ~First(g) /\ g.cursor.of = shown'.listing
    BY <1>1, <1>4, <2>3, <2>4
  <2>6. ~ByOffset /\ shown'.next.of = "end" => shown'.next = End
    BY <1>1, <2>1 DEF ListingOK
  <2> QED
    BY <1>6, <2>2, <2>5, <2>6 DEF ListingOK, First
<1> QED
  BY <1>7, <1>8, <1>9, <1>10, <1>11, <1>13, <1>14, <1>15 DEF PagesInv

LEMMA GoingOnKeeps ==
  ASSUME PagesInv, More \/ Retry \/ \E l \in Listings(view) : Misuse(l)
  PROVE  PagesInv'
<1>1. listing \in Listings(view) /\ faults \in 0..MaxFaults /\ MaxFaults \in Nat
  BY PagesConstants DEF PagesInv, PagesTypeOK
<1>2. CASE More \/ Retry
  BY <1>1, <1>2, FurtherKeeps DEF More, Retry
<1>3. ASSUME NEW l \in Listings(view), Misuse(l)
      PROVE  PagesInv'
  <2>1. faults' \in 0..MaxFaults /\ Further(l)
    BY <1>1, <1>3 DEF Misuse
  <2> QED
    BY <2>1, FurtherKeeps
<1> QED
  BY <1>2, <1>3

LEMMA FetchKeeps ==
  ASSUME PagesInv, NEW i \in Items, Fetch(i)
  PROVE  PagesInv'
<1>1. /\ clock' = clock + 1 /\ fetching' = [fetching EXCEPT ![i] = clock + 1]
      /\ UNCHANGED <<view, published, rows, listing, shown, flights>>
      /\ UNCHANGED <<asked, latest, loading, failed, turns, faults>>
  BY DEF Fetch, client
<1>2. PagesTypeOK /\ clock \in Nat /\ fetching \in [Items -> Nat]
  BY DEF PagesInv, PagesTypeOK
<1>3. PagesTypeOK'
  <2>1. fetching' \in [Items -> Nat] /\ clock' \in Nat
    BY <1>1, <1>2
  <2> QED
    BY <1>1, <1>2, <2>1 DEF PagesTypeOK
<1>4. Clocks'
  <2> SUFFICES ASSUME NEW j \in Items
               PROVE  /\ rows[j].fetched <= clock' /\ rows[j].seen <= clock'
                      /\ fetching'[j] # 0 => rows[j].fetched < fetching'[j] /\ fetching'[j] <= clock'
    BY <1>1 DEF Clocks
  <2>1. /\ rows[j].fetched <= clock /\ rows[j].seen <= clock
        /\ fetching[j] # 0 => rows[j].fetched < fetching[j] /\ fetching[j] <= clock
    BY DEF PagesInv, Clocks
  <2>2. rows[j].fetched \in Nat /\ rows[j].seen \in Nat /\ fetching[j] \in Nat
    BY <1>2, RowTypes
  <2>3. fetching'[j] = IF j = i THEN clock + 1 ELSE fetching[j]
    BY <1>1, <1>2
  <2> QED
    BY <1>1, <1>2, <2>1, <2>2, <2>3
<1>5. Numbers'
  BY <1>1 DEF PagesInv, Numbers, First, Guarded
<1>6. OwnListings'
  BY <1>1 DEF PagesInv, OwnListings
<1>7. CursorsOK'
  <2>1. \A c : CursorOK(c)' <=> CursorOK(c)
    BY <1>1, Calm
  <2> QED
    BY <1>1, <2>1 DEF PagesInv, CursorsOK, First
<1>8. (\A f \in flights : PageOK(f) /\ GoesOn(f))' /\ ShownOK'
  BY <1>1, CalmFlights DEF PagesInv
<1>9. ListingOK' /\ OneListing'
  BY <1>1 DEF PagesInv, ListingOK, OneListing, First, Guarded, ByOffset
<1> QED
  BY <1>3, <1>4, <1>5, <1>6, <1>7, <1>8, <1>9 DEF PagesInv

------------------------------------------------------------------------------
(* Rows are stored. *)

\* What storing does to the rows.
Storing(i, row) ==
    /\ rows' = [rows EXCEPT ![i] = row]
    /\ row \in [fetched: Nat, likes: 0..1, seen: Nat] /\ row # Missing
    /\ rows[i].fetched < row.fetched /\ row.fetched <= clock /\ row.seen <= clock
    /\ rows[i] # Missing => row.seen = rows[i].seen
    /\ fetching' = [fetching EXCEPT ![i] = 0]
    /\ flights' = {StillThere(f, i, row) : f \in flights}
    /\ shown' = StillThere(shown, i, row)
    /\ UNCHANGED <<view, published, clock, listing, asked, latest, turns, loading, failed, faults>>

LEMMA StoreIs ==
  ASSUME PagesInv, NEW i \in Items, Store(i)
  PROVE  \E row : Storing(i, row)
<1>1. /\ PagesTypeOK /\ fetching[i] \in Nat /\ fetching[i] # 0 /\ rows[i].fetched < fetching[i]
      /\ fetching[i] <= clock /\ rows[i].seen <= clock /\ rows[i].seen \in Nat
      /\ rows[i].fetched \in Nat
  <2>1. PagesTypeOK /\ fetching[i] \in Nat /\ fetching[i] # 0
    BY DEF PagesInv, PagesTypeOK, Store
  <2> QED
    BY <2>1, RowTypes DEF PagesInv, Clocks
<1>2. PICK likes \in 0..1 :
         /\ rows' = [rows EXCEPT ![i] = Stores(i, likes)]
         /\ flights' = {StillThere(f, i, Stores(i, likes)) : f \in flights}
         /\ shown' = StillThere(shown, i, Stores(i, likes))
  <2>1. PICK likes \in IF view = "threads" THEN 0..1 ELSE {0} :
           /\ rows' = [rows EXCEPT ![i] = Stores(i, likes)]
           /\ flights' = {StillThere(f, i, Stores(i, likes)) : f \in flights}
           /\ shown' = StillThere(shown, i, Stores(i, likes))
    BY Zenon DEF Store
  <2>2. likes \in 0..1
    OBVIOUS
  <2> QED
    BY <2>1, <2>2
<1> DEFINE row == Stores(i, likes)
<1>3. /\ row.fetched = fetching[i] /\ row.likes = likes
      /\ row.seen = IF i \in Stored THEN rows[i].seen ELSE fetching[i]
      /\ row \in [fetched: Nat, likes: 0..1, seen: Nat]
  BY <1>1 DEF Stores
<1> HIDE DEF row
<1>4. row # Missing
  BY <1>1, <1>3 DEF Missing
<1>5. rows[i] # Missing => row.seen = rows[i].seen
  BY <1>3 DEF Stored
<1>6. row.seen <= clock
  BY <1>1, <1>3
<1>7. /\ fetching' = [fetching EXCEPT ![i] = 0]
      /\ UNCHANGED <<view, published, clock, listing, asked, latest, turns, loading, failed, faults>>
  BY DEF Store, requests
<1>8. /\ rows' = [rows EXCEPT ![i] = row] /\ shown' = StillThere(shown, i, row)
      /\ flights' = {StillThere(f, i, row) : f \in flights}
  BY <1>2 DEF row
<1>9. Storing(i, row)
  BY <1>1, <1>3, <1>4, <1>5, <1>6, <1>7, <1>8 DEF Storing
<1> QED
  BY <1>9

\* The row that is stored may move, the others stay where they are.
LEMMA StoredRows ==
  ASSUME PagesInv, NEW i \in Items, NEW row, Storing(i, row)
  PROVE  /\ rows' \in [Items -> [fetched: Nat, likes: 0..1, seen: Nat]]
         /\ rows'[i] = row /\ \A j \in Items \ {i} : rows'[j] = rows[j]
         /\ Stored \subseteq Stored' /\ \A l : ExploreRows(l) \subseteq ExploreRows(l)'
         /\ \A j \in Stored : rows'[j].seen = rows[j].seen
         /\ \A l : \A j \in Items : j # i \/ Kept(l, i, row) => Key(l, j)' = Key(l, j)
<1>1. rows \in [Items -> [fetched: Nat, likes: 0..1, seen: Nat]]
  BY DEF PagesInv, PagesTypeOK
<1>2. /\ rows' \in [Items -> [fetched: Nat, likes: 0..1, seen: Nat]]
      /\ rows'[i] = row /\ \A j \in Items \ {i} : rows'[j] = rows[j]
  BY <1>1 DEF Storing
<1>3. /\ published' = published /\ row # Missing
      /\ rows[i] # Missing => row.seen = rows[i].seen
  BY DEF Storing
<1>4. Stored \subseteq Stored'
  BY <1>2, <1>3 DEF Stored
<1>5. \A l : ExploreRows(l) \subseteq ExploreRows(l)'
  BY <1>4 DEF ExploreRows
<1>6. \A j \in Stored : rows'[j].seen = rows[j].seen
  BY <1>2, <1>3 DEF Stored
<1>7. ASSUME NEW l, NEW j \in Items, j # i \/ Kept(l, i, row)
      PROVE  Key(l, j)' = Key(l, j)
  <2>1. CASE j # i
    BY <2>1, <1>2, <1>3 DEF Key, SortKey, EffectiveAt
  <2>2. CASE j = i /\ Kept(l, i, row)
    <3>1. SortKey(l, row, i) = Key(l, i)
      BY <2>2 DEF Kept
    <3>2. Key(l, i)' = SortKey(l, row, i)
      BY <1>2, <1>3 DEF Key, SortKey, EffectiveAt
    <3> QED
      BY <2>2, <3>1, <3>2
  <2> QED
    BY <1>7, <2>1, <2>2
<1> QED
  BY <1>2, <1>4, <1>5, <1>6, <1>7

\* A video that is collected again comes earlier in its listing, if it moves at all.
LEMMA StoredBefore ==
  ASSUME PagesInv, ByOffset, NEW i \in Items, NEW row, Storing(i, row),
         NEW l \in Listings(view), NEW j \in Items, j # i \/ Kept(l, i, row),
         NEW k \in Items, Before(l, k, j)
  PROVE  Before(l, k, j)'
<1>1. PagesTypeOK /\ l \in {"all", "channel"}
  BY DEF PagesInv, ByOffset, Listings
<1>2. CASE k # i \/ Kept(l, i, row)
  BY <1>2, StoredRows DEF Before
<1>3. CASE k = i /\ ~Kept(l, i, row)
  <2>1. j # i /\ Key(l, j)' = Key(l, j)
    BY <1>3, StoredRows
  <2>2. rows'[i] = row /\ rows[i].fetched < row.fetched /\ row.fetched \in Nat /\ published' = published
    BY StoredRows DEF Storing
  <2>3. /\ i \in Nat /\ j \in Nat /\ rows[i].fetched \in Nat /\ rows[j].fetched \in Nat
        /\ published[i] \in Nat
        /\ EffectiveAt(rows[i], i) \in Nat /\ EffectiveAt(rows[j], j) \in Nat
    BY <1>1, RowTypes
  <2> DEFINE ei == EffectiveAt(rows[i], i)
             ej == EffectiveAt(rows[j], j)
             en == EffectiveAt(row, i)
  <2>4. en \in Nat /\ ei <= en
    BY <2>2, <2>3 DEF EffectiveAt
  <2>5. /\ Key(l, i)' = <<en, row.fetched, i>> /\ Key(l, j) = <<ej, rows[j].fetched, j>>
    BY <1>1, <2>2 DEF Key, SortKey, EffectiveAt
  <2> HIDE DEF ei, ej, en
  <2>6. \/ ej < ei
        \/ ej = ei /\ rows[j].fetched < rows[i].fetched
        \/ ej = ei /\ rows[j].fetched = rows[i].fetched /\ j < i
    BY <1>1, <1>3, BeforeIs DEF ei, ej
  <2>7. ei \in Nat /\ ej \in Nat
    BY <2>3 DEF ei, ej
  <2>8. ej < en \/ (ej = en /\ rows[j].fetched < row.fetched)
    BY <2>2, <2>3, <2>4, <2>6, <2>7
  <2>9. Below(<<ej, rows[j].fetched, j>>, <<en, row.fetched, i>>)
    <3>1. /\ ej \in Int /\ rows[j].fetched \in Int /\ j \in Int
          /\ en \in Int /\ row.fetched \in Int /\ i \in Int
      BY <2>2, <2>3, <2>4, <2>7
    <3> QED
      BY ONLY <2>8, <3>1, BelowTriples
  <2>10. Below(Key(l, j)', Key(l, i)')
    BY <2>1, <2>5, <2>9
  <2> QED
    BY <1>1, <1>3, <2>10 DEF Before, Follows
<1> QED
  BY <1>2, <1>3

LEMMA StoredBeyond ==
  ASSUME PagesInv, NEW i \in Items, NEW row, Storing(i, row),
         NEW l \in Listings(view), NEW j \in Items, j # i \/ Kept(l, i, row),
         NEW cursor, cursor # End, CursorOK(cursor), Beyond(l, cursor, j)
  PROVE  Beyond(l, cursor, j)'
<1>1. ByOffset' = ByOffset
  BY DEF Storing, ByOffset
<1>2. CASE ByOffset
  <2> DEFINE P == {k \in ExploreRows(l) : Before(l, k, j)}
             Q == {k \in ExploreRows(l)' : Before(l, k, j)'}
  <2>1. Q \in SUBSET Items /\ P \in SUBSET Items
    BY DEF ExploreRows, Stored
  <2>2. P \in SUBSET Q
    BY <1>2, <2>1, StoredRows, StoredBefore
  <2>3. cursor.key[1] \in Nat /\ cursor.key[1] <= Cardinality(P)
    BY <1>2 DEF CursorOK, Beyond
  <2>4. IsFiniteSet(Q)
    BY <2>1, FS_Subset, PagesConstants
  <2> HIDE DEF P, Q
  <2>5. Cardinality(P) <= Cardinality(Q) /\ Cardinality(P) \in Nat /\ Cardinality(Q) \in Nat
    BY <2>2, <2>4, FS_Subset, FS_CardinalityType
  <2>6. cursor.key[1] <= Cardinality(Q)
    BY <2>3, <2>5
  <2> QED
    BY <1>1, <1>2, <2>6 DEF Beyond, Q
<1>3. CASE ~ByOffset
  BY <1>1, <1>3, StoredRows DEF Beyond
<1> QED
  BY <1>2, <1>3

LEMMA StoredCuts ==
  ASSUME PagesInv, NEW i \in Items, NEW row, Storing(i, row), NEW l \in Listings(view),
         NEW items, NEW next, CursorOK(next), NEW U \in SUBSET Items, Cuts(l, items, next, U),
         NEW V \in SUBSET U, \A j \in V : j # i \/ Kept(l, i, row)
  PROVE  Cuts(l, items, next, V)'
<1>1. \A j, k \in V : Before(l, j, k)' <=> Before(l, j, k)
  BY StoredRows DEF Before
<1>2. \A j \in V \ Range(items) : next # End /\ Beyond(l, next, j)'
  BY StoredBeyond DEF Cuts
<1> QED
  BY <1>1, <1>2 DEF Cuts

LEMMA StoredSnapshot ==
  ASSUME PagesInv, NEW i \in Items, NEW row, Storing(i, row),
         NEW items, NEW next, NEW U, NEW at, Snapshot(items, next, U, at),
         Range(items) \cup U \subseteq Stored, NEW V \in SUBSET U
  PROVE  Snapshot(items, next, V, at)'
<1>1. BySnapshot' = BySnapshot
  BY DEF Storing, BySnapshot
<1> QED
  BY <1>1, StoredRows DEF Snapshot

\* What storing does to a request, or to the list: rows that move are not kept.
LEMMA StillThereIs ==
  ASSUME PagesInv, NEW i \in Items, NEW row, NEW f \in flights, NEW g, g = StillThere(f, i, row)
  PROVE  /\ g \in Requests /\ g.no = f.no /\ g.listing = f.listing /\ g.cursor = f.cursor
         /\ g.page = f.page /\ g.state = f.state /\ g.session = f.session /\ g.since = f.since
         /\ g.stable \in SUBSET f.stable
         /\ \A j \in g.stable : j # i \/ Kept(f.listing, i, row)
         /\ g = StillThere(f, i, row)
<1>1. f \in Requests
  BY DEF PagesInv, PagesTypeOK
<1>2. g = [f EXCEPT !.stable = IF Kept(f.listing, i, row) THEN f.stable ELSE f.stable \ {i}]
  BY DEF StillThere
<1>3. /\ g.no = f.no /\ g.listing = f.listing /\ g.cursor = f.cursor /\ g.aborted = f.aborted
      /\ g.page = f.page /\ g.state = f.state /\ g.session = f.session /\ g.since = f.since
      /\ g.stable = IF Kept(f.listing, i, row) THEN f.stable ELSE f.stable \ {i}
  BY <1>1, <1>2 DEF Requests
<1>4. g.stable \in SUBSET f.stable /\ \A j \in g.stable : j # i \/ Kept(f.listing, i, row)
  BY <1>3
<1>5. g.stable \in SUBSET Items
  BY <1>1, <1>4 DEF Requests
<1>6. g \in Requests
  BY <1>1, <1>2, <1>3, <1>5 DEF Requests
<1> QED
  BY <1>3, <1>4, <1>6

LEMMA ShownStillThere ==
  ASSUME PagesInv, NEW i \in Items, NEW row, NEW s, s = StillThere(shown, i, row)
  PROVE  /\ s \in [listing: Listing, items: Seq(Items), next: Cursors, session: Nat,
                   mixed: BOOLEAN, stable: SUBSET Items, since: Nat]
         /\ s.listing = shown.listing /\ s.items = shown.items /\ s.next = shown.next
         /\ s.session = shown.session /\ s.mixed = shown.mixed /\ s.since = shown.since
         /\ s.stable \in SUBSET shown.stable
         /\ \A j \in s.stable : j # i \/ Kept(shown.listing, i, row)
<1>1. shown \in [listing: Listing, items: Seq(Items), next: Cursors, session: Nat,
                 mixed: BOOLEAN, stable: SUBSET Items, since: Nat]
  BY DEF PagesInv, PagesTypeOK
<1> DEFINE kept == IF Kept(shown.listing, i, row) THEN shown.stable ELSE shown.stable \ {i}
<1>2. s = [shown EXCEPT !.stable = kept]
  BY DEF StillThere
<1>3. kept \in SUBSET Items /\ kept \in SUBSET shown.stable
  BY <1>1
<1>4. \A j \in kept : j # i \/ Kept(shown.listing, i, row)
  OBVIOUS
<1> HIDE DEF kept
<1> QED
  BY <1>1, <1>2, <1>3, <1>4

LEMMA StoreKeeps ==
  ASSUME PagesInv, NEW i \in Items, Store(i)
  PROVE  PagesInv'
<1>1. PICK row : Storing(i, row)
  BY StoreIs
<1>2. /\ row \in [fetched: Nat, likes: 0..1, seen: Nat]
      /\ rows[i].fetched < row.fetched /\ row.fetched <= clock /\ row.seen <= clock
      /\ fetching' = [fetching EXCEPT ![i] = 0]
      /\ flights' = {StillThere(f, i, row) : f \in flights}
      /\ shown' = StillThere(shown, i, row)
      /\ UNCHANGED <<view, published, clock, listing, asked, latest, turns, loading, failed, faults>>
  BY <1>1 DEF Storing
<1>3. /\ rows' \in [Items -> [fetched: Nat, likes: 0..1, seen: Nat]]
      /\ rows'[i] = row /\ \A j \in Items \ {i} : rows'[j] = rows[j]
      /\ Stored \subseteq Stored' /\ \A l : ExploreRows(l) \subseteq ExploreRows(l)'
  BY <1>1, StoredRows
<1>4. /\ shown' \in [listing: Listing, items: Seq(Items), next: Cursors, session: Nat,
                     mixed: BOOLEAN, stable: SUBSET Items, since: Nat]
      /\ shown'.listing = shown.listing /\ shown'.items = shown.items /\ shown'.next = shown.next
      /\ shown'.session = shown.session /\ shown'.mixed = shown.mixed /\ shown'.since = shown.since
      /\ shown'.stable \in SUBSET shown.stable
      /\ \A j \in shown'.stable : j # i \/ Kept(shown.listing, i, row)
  BY <1>2, ShownStillThere
<1>5. ASSUME NEW g \in flights'
      PROVE  \E f \in flights :
               /\ g \in Requests /\ g.no = f.no /\ g.listing = f.listing /\ g.cursor = f.cursor
               /\ g.page = f.page /\ g.state = f.state /\ g.session = f.session
               /\ g.since = f.since /\ g.stable \in SUBSET f.stable
               /\ \A j \in g.stable : j # i \/ Kept(f.listing, i, row)
               /\ g = StillThere(f, i, row)
  BY <1>2, StillThereIs
<1>6. /\ Guarded' = Guarded /\ ByOffset' = ByOffset /\ BySnapshot' = BySnapshot
      /\ \A c : CursorOK(c)' <=> CursorOK(c)
  BY <1>2 DEF Guarded, ByOffset, BySnapshot, CursorOK
<1>7. PagesTypeOK'
  <2>1. PagesTypeOK
    BY DEF PagesInv
  <2>2. fetching' \in [Items -> Nat]
    BY <1>2, <2>1 DEF PagesTypeOK
  <2>3. flights' \subseteq Requests /\ \A g \in flights' : g.no <= asked'
    BY <1>2, <1>5, <2>1 DEF PagesTypeOK
  <2> QED
    BY <1>2, <1>3, <1>4, <2>1, <2>2, <2>3 DEF PagesTypeOK
<1>8. Clocks'
  <2> SUFFICES ASSUME NEW j \in Items
               PROVE  /\ rows'[j].fetched <= clock' /\ rows'[j].seen <= clock'
                      /\ fetching'[j] # 0 => rows'[j].fetched < fetching'[j] /\ fetching'[j] <= clock'
    BY DEF Clocks
  <2>1. /\ rows[j].fetched <= clock /\ rows[j].seen <= clock
        /\ fetching[j] # 0 => rows[j].fetched < fetching[j] /\ fetching[j] <= clock
        /\ fetching \in [Items -> Nat]
    BY DEF PagesInv, Clocks, PagesTypeOK
  <2>2. CASE j = i
    BY <1>2, <1>3, <2>1, <2>2
  <2>3. CASE j # i
    BY <1>2, <1>3, <2>1, <2>3
  <2> QED
    BY <2>2, <2>3
<1>9. Numbers'
  <2>1. /\ \A f, g \in flights : f.no = g.no => f = g
        /\ \A f \in flights : First(f) => shown.session # f.no
        /\ \A f \in flights : ~First(f) => f.session # 0 /\ f.session <= asked
        /\ \A f, g \in flights : First(f) /\ ~First(g) => g.session # f.no
        /\ shown.session <= asked /\ (shown.session = 0 => shown.next = End)
        /\ \A f \in flights : ~First(f) /\ (Guarded => f.no = latest) => shown.session # 0
    BY DEF PagesInv, Numbers
  <2>2. \A g, h \in flights' : g.no = h.no => g = h
    <3> SUFFICES ASSUME NEW g \in flights', NEW h \in flights', g.no = h.no PROVE g = h
      OBVIOUS
    <3>1. PICK f \in flights : g = StillThere(f, i, row) /\ g.no = f.no
      BY <1>5
    <3>2. PICK k \in flights : h = StillThere(k, i, row) /\ h.no = k.no
      BY <1>5
    <3> QED
      BY <2>1, <3>1, <3>2
  <2>3. \A g \in flights' : First(g) => shown'.session # g.no
    BY <1>4, <1>5, <2>1 DEF First
  <2>4. ASSUME NEW g \in flights', ~First(g)
        PROVE  /\ g.session # 0 /\ g.session <= asked'
               /\ (Guarded => g.no = latest') => shown'.session # 0
    <3>1. PICK f \in flights : g.no = f.no /\ g.cursor = f.cursor /\ g.session = f.session
      BY <1>5
    <3>2. ~First(f) /\ asked' = asked /\ latest' = latest
      BY <1>2, <2>4, <3>1 DEF First
    <3> QED
      BY <1>4, <2>1, <3>1, <3>2
  <2>5. \A g, h \in flights' : First(g) /\ ~First(h) => h.session # g.no
    <3> SUFFICES ASSUME NEW g \in flights', NEW h \in flights', First(g), ~First(h)
                 PROVE  h.session # g.no
      OBVIOUS
    <3>1. PICK f \in flights : g.no = f.no /\ g.cursor = f.cursor
      BY <1>5
    <3>2. PICK k \in flights : h.session = k.session /\ h.cursor = k.cursor
      BY <1>5
    <3> QED
      BY <2>1, <3>1, <3>2 DEF First
  <2>6. shown'.session <= asked' /\ (shown'.session = 0 => shown'.next = End)
    BY <1>2, <1>4, <2>1
  <2> QED
    BY <1>6, <2>2, <2>3, <2>4, <2>5, <2>6 DEF Numbers, First
<1>10. OwnListings'
  BY <1>2, <1>4, <1>5 DEF PagesInv, OwnListings
<1>11. CursorsOK'
  <2>1. \A g \in flights' : /\ ~First(g) => g.cursor # End /\ CursorOK(g.cursor)
                            /\ g.state = "served" => CursorOK(g.page.next)
    <3> SUFFICES ASSUME NEW g \in flights'
                 PROVE  /\ ~First(g) => g.cursor # End /\ CursorOK(g.cursor)
                        /\ g.state = "served" => CursorOK(g.page.next)
      OBVIOUS
    <3>1. PICK f \in flights : g.cursor = f.cursor /\ g.page = f.page /\ g.state = f.state
      BY <1>5
    <3>2. CursorsOK
      BY DEF PagesInv
    <3> QED
      BY <3>1, <3>2 DEF CursorsOK, First
  <2> QED
    BY <1>4, <1>6, <2>1 DEF PagesInv, CursorsOK, First
<1>12. Unshown' \in SUBSET Unshown /\ Unshown \subseteq ExploreRows(shown.listing)
       /\ Unshown \in SUBSET Items /\ \A j \in Unshown' : j # i \/ Kept(shown.listing, i, row)
  <2>1. Unshown \subseteq ExploreRows(shown.listing)
    BY DEF PagesInv, ShownOK, Unshown
  <2> QED
    BY <1>4, <2>1 DEF Unshown, ExploreRows, Stored
<1>13. ASSUME NEW g \in flights'
       PROVE  (PageOK(g) /\ GoesOn(g))'
  <2>1. PICK f \in flights :
             /\ g \in Requests /\ g.no = f.no /\ g.listing = f.listing /\ g.cursor = f.cursor
             /\ g.page = f.page /\ g.state = f.state /\ g.session = f.session
             /\ g.since = f.since /\ g.stable \in SUBSET f.stable
             /\ \A j \in g.stable : j # i \/ Kept(f.listing, i, row)
    BY <1>5
  <2>2. PageOK(f) /\ GoesOn(f) /\ f.listing \in Listings(view) /\ (First(g) <=> First(f))
    BY <2>1 DEF PagesInv, OwnListings, First
  <2>3. f.stable \subseteq ExploreRows(f.listing) /\ f.stable \subseteq Stored /\ f.stable \in SUBSET Items
    BY <2>2 DEF PageOK, ExploreRows, Stored
  <2>4. f.state = "served" => CursorOK(f.page.next)
    BY DEF PagesInv, CursorsOK
  <2>5. PageOK(g)'
    <3>1. g.stable \subseteq ExploreRows(g.listing)'
      BY <1>3, <2>1, <2>3
    <3>2. g.state = "served" => IsInjective(g.page.items) /\ Range(g.page.items) \subseteq Stored'
      BY <1>3, <2>1, <2>2 DEF PageOK
    <3>3. ASSUME g.state = "served", First(g)
          PROVE  Cuts(g.listing, g.page.items, g.page.next, g.stable)'
      <4>1. Cuts(f.listing, f.page.items, f.page.next, f.stable) /\ CursorOK(f.page.next)
        BY <2>1, <2>2, <2>4, <3>3 DEF PageOK
      <4>2. Cuts(f.listing, f.page.items, f.page.next, g.stable)'
        BY <1>1, <2>1, <2>2, <2>3, <4>1, StoredCuts
      <4> QED
        BY <2>1, <4>2
    <3>4. ASSUME g.state = "served", First(g)
          PROVE  Snapshot(g.page.items, g.page.next, g.stable, g.since)'
      <4>1. /\ Snapshot(f.page.items, f.page.next, f.stable, f.since)
            /\ Range(f.page.items) \cup f.stable \subseteq Stored
        BY <2>1, <2>2, <2>3, <3>4 DEF PageOK
      <4>2. Snapshot(f.page.items, f.page.next, g.stable, f.since)'
        BY <1>1, <2>1, <4>1, StoredSnapshot
      <4> QED
        BY <2>1, <4>2
    <3> QED
      BY <3>1, <3>2, <3>3, <3>4 DEF PageOK
  <2>6. GoesOn(g)'
    <3> SUFFICES ASSUME Current(g)'
                 PROVE  /\ g.state = "asked" =>
                             /\ \A j \in Unshown' : Beyond(g.listing, g.cursor, j)'
                             /\ BySnapshot' => g.cursor.at = shown'.since
                        /\ g.state = "served" =>
                             /\ Cuts(g.listing, g.page.items, g.page.next, Unshown)'
                             /\ Snapshot(g.page.items, g.page.next, {}, shown.since)'
      BY DEF GoesOn
    <3>1. Current(f) /\ ~First(f) /\ f.listing = shown.listing
      BY <1>4, <2>1 DEF Current, First
    <3>2. ASSUME g.state = "asked", NEW j \in Unshown'
          PROVE  Beyond(g.listing, g.cursor, j)'
      <4>1. Beyond(f.listing, f.cursor, j) /\ f.cursor # End /\ CursorOK(f.cursor)
        BY <1>12, <2>1, <2>2, <3>1, <3>2 DEF GoesOn, PagesInv, CursorsOK
      <4>2. j \in Items /\ (j # i \/ Kept(f.listing, i, row))
        BY <1>12, <3>1
      <4> QED
        BY <1>1, <2>1, <2>2, <4>1, <4>2, StoredBeyond
    <3>3. g.state = "asked" /\ BySnapshot' => g.cursor.at = shown'.since
      BY <1>4, <1>6, <2>1, <2>2, <3>1 DEF GoesOn
    <3>4. ASSUME g.state = "served"
          PROVE  Cuts(g.listing, g.page.items, g.page.next, Unshown)'
      <4>1. Cuts(f.listing, f.page.items, f.page.next, Unshown) /\ CursorOK(f.page.next)
        BY <2>1, <2>2, <2>4, <3>1, <3>4 DEF GoesOn
      <4>2. \A V \in SUBSET Unshown : (\A j \in V : j # i \/ Kept(f.listing, i, row)) =>
                 Cuts(f.listing, f.page.items, f.page.next, V)'
        BY <1>1, <1>12, <2>2, <4>1, StoredCuts
      <4>3. \A j \in Unshown' : j # i \/ Kept(f.listing, i, row)
        BY <1>12, <3>1
      <4> QED
        BY <1>12, <2>1, <4>2, <4>3
    <3>5. ASSUME g.state = "served"
          PROVE  Snapshot(g.page.items, g.page.next, {}, shown.since)'
      <4>1. /\ Snapshot(f.page.items, f.page.next, {}, shown.since)
            /\ Range(f.page.items) \cup {} \subseteq Stored
        BY <2>1, <2>2, <3>1, <3>5 DEF GoesOn, PageOK
      <4>2. \A at : Snapshot(f.page.items, f.page.next, {}, at)
                      => Snapshot(f.page.items, f.page.next, {}, at)'
        BY <1>1, <4>1, StoredSnapshot
      <4> QED
        BY <1>4, <2>1, <4>1, <4>2
    <3> QED
      BY <3>2, <3>3, <3>4, <3>5
  <2> QED
    BY <2>5, <2>6
<1>14. ShownOK'
  <2>1. ShownOK /\ CursorOK(shown.next) /\ shown.listing \in Listings(view)
    BY DEF PagesInv, CursorsOK, OwnListings
  <2>2. /\ shown.stable \subseteq ExploreRows(shown.listing) /\ shown.stable \in SUBSET Items
        /\ Range(shown.items) \cup shown.stable \subseteq Stored
    BY <2>1 DEF ShownOK, ExploreRows, Stored
  <2>3. /\ IsInjective(shown'.items) /\ Range(shown'.items) \subseteq Stored'
        /\ shown'.stable \subseteq ExploreRows(shown.listing)'
    <3>2. \A l : l = shown.listing => shown'.stable \subseteq ExploreRows(l)'
      BY <1>3, <1>4, <2>2
    <3> QED
      BY <1>3, <1>4, <2>1, <3>2 DEF ShownOK
  <2>4. ASSUME ~shown.mixed
        PROVE  /\ \A V \in SUBSET shown.stable : (\A j \in V : j # i \/ Kept(shown.listing, i, row)) =>
                     \A l, s, c : l = shown.listing /\ s = shown.items /\ c = shown.next =>
                        Cuts(l, s, c, V)'
               /\ \A V \in SUBSET shown.stable :
                     \A s, c, at : s = shown.items /\ c = shown.next /\ at = shown.since =>
                        Snapshot(s, c, V, at)'
    BY <1>1, <2>1, <2>2, <2>4, StoredCuts, StoredSnapshot DEF ShownOK
  <2> QED
    BY <1>4, <2>3, <2>4 DEF ShownOK
<1>15. ListingOK'
  <2>1. ListingOK
    BY DEF PagesInv
  <2>2. ~ByOffset => \A g \in flights' : g.state = "served" =>
             /\ g.page.next.of = "end" => g.page.next = End
             /\ g.page.next.of \in {g.listing, "end"}
             /\ Range(g.page.items) \subseteq Member(g.listing)
             /\ ~First(g) => g.cursor.of = g.listing
    <3> SUFFICES ASSUME ~ByOffset, NEW g \in flights', g.state = "served"
                 PROVE  /\ g.page.next.of = "end" => g.page.next = End
                        /\ g.page.next.of \in {g.listing, "end"}
                        /\ Range(g.page.items) \subseteq Member(g.listing)
                        /\ ~First(g) => g.cursor.of = g.listing
      OBVIOUS
    <3>1. PICK f \in flights : /\ g.cursor = f.cursor /\ g.page = f.page /\ g.state = f.state
                               /\ g.listing = f.listing
      BY <1>5
    <3> QED
      BY <2>1, <3>1 DEF ListingOK, First
  <2>3. Guarded => \A g \in flights' : g.no = latest' =>
             IF First(g) THEN g.listing = listing' ELSE g.cursor.of = shown'.listing
    <3> SUFFICES ASSUME Guarded, NEW g \in flights', g.no = latest'
                 PROVE  IF First(g) THEN g.listing = listing' ELSE g.cursor.of = shown'.listing
      OBVIOUS
    <3>1. PICK f \in flights : g.no = f.no /\ g.cursor = f.cursor /\ g.listing = f.listing
      BY <1>5
    <3>2. (First(g) <=> First(f)) /\ f.no = latest
      BY <1>2, <3>1 DEF First
    <3>3. IF First(f) THEN f.listing = listing ELSE f.cursor.of = shown.listing
      BY <2>1, <3>2 DEF ListingOK
    <3> QED
      BY <1>2, <1>4, <3>1, <3>2, <3>3
  <2> QED
    BY <1>4, <1>6, <2>1, <2>2, <2>3 DEF ListingOK, First
<1>16. OneListing'
  BY <1>2, <1>4, <1>6 DEF PagesInv, OneListing
<1> QED
  BY <1>7, <1>8, <1>9, <1>10, <1>11, <1>13, <1>14, <1>15, <1>16 DEF PagesInv

------------------------------------------------------------------------------
(* What is proved. *)

LEMMA PagesInitInv ==
  ASSUME PagesInit
  PROVE  PagesInv
<1>16. view \in Views
  BY DEF PagesInit
<1>1. PICK l \in {"newest", "A", "all"} \cap Listings(view) :
         /\ listing = l /\ shown = Empty(l) /\ flights = {Request(1, l, Start, 1)}
         /\ \E undated \in Undated \cup {0} :
               published = [i \in Items |-> IF i = undated THEN 0 ELSE 1]
         /\ \E late \in Late \cup {0} :
               rows = [i \in Items |-> IF i = late THEN Missing
                                      ELSE [fetched |-> 2, likes |-> 0, seen |-> 2]]
         /\ fetching = [i \in Items |-> 0] /\ clock = 2
         /\ asked = 1 /\ latest = 1
         /\ loading = (view \in {"threads", "library"}) /\ failed = FALSE /\ turns = 0 /\ faults = 0
  BY DEF PagesInit
<1>2. /\ rows \in [Items -> [fetched: Nat, likes: 0..1, seen: Nat]]
      /\ \A i \in Items : rows[i].fetched <= 2 /\ rows[i].seen <= 2
      /\ published \in [Items -> 0..1] /\ fetching \in [Items -> Nat]
      /\ \A i \in Items : fetching[i] = 0
  BY <1>1 DEF Missing
<1>3. l \in Listing /\ l \in Listings(view)
  BY <1>1, <1>16 DEF Listing
<1>4. /\ shown.listing = l /\ shown.items = <<>> /\ Range(shown.items) = {} /\ shown.next = End
      /\ shown.session = 0 /\ shown.mixed = FALSE /\ shown.stable = {} /\ shown.since = 0
      /\ shown \in [listing: Listing, items: Seq(Items), next: Cursors, session: Nat,
                    mixed: BOOLEAN, stable: SUBSET Items, since: Nat]
  <2>1. shown = Empty(l)
    BY <1>1
  <2> QED
    BY ONLY <2>1, <1>3, EmptyIs
<1> DEFINE r == Request(1, l, Start, 1)
<1>5. /\ r \in Requests /\ r.no = 1 /\ r.listing = l /\ r.cursor = Start
      /\ r.state = "asked" /\ r.session = 1 /\ PageOK(r)
  <2>1. Start \in Cursors /\ 1 \in Nat \ {0}
    BY DEF Start, Cursors
  <2> QED
    BY <1>3, <2>1, RequestIs
<1>6. flights = {r}
  BY <1>1
<1> HIDE DEF r
<1>7. First(r) /\ GoesOn(r)
  BY <1>5 DEF First, GoesOn, Current
<1>8. PagesTypeOK
  <2>4. loading = (view \in {"threads", "library"}) /\ failed = FALSE
    BY <1>1
  <2>5. (view \in {"threads", "library"}) \in BOOLEAN
    OBVIOUS
  <2>1. loading \in BOOLEAN /\ failed \in BOOLEAN
    BY ONLY <2>4, <2>5
  <2>2. asked \in 0..MaxRequests /\ latest \in 0..asked /\ turns \in 0..MaxTurns /\ faults \in 0..MaxFaults
    BY <1>1, PagesConstants
  <2>3. flights \subseteq Requests /\ \A f \in flights : f.no <= asked
    BY <1>1, <1>5, <1>6
  <2> QED
    BY <1>1, <1>2, <1>3, <1>4, <1>16, <2>1, <2>2, <2>3 DEF PagesTypeOK
<1>9. Clocks
  BY <1>1, <1>2 DEF Clocks
<1>10. Numbers
  <2>1. \A f \in flights : f = r /\ First(f) /\ f.no = 1
    BY <1>5, <1>6, <1>7
  <2>2. shown.session = 0 /\ shown.next = End /\ asked = 1
    BY <1>1, <1>4
  <2> QED
    BY <2>1, <2>2 DEF Numbers
<1>11. OwnListings
  BY <1>3, <1>4, <1>5, <1>6 DEF OwnListings
<1>12. CursorsOK
  BY <1>4, <1>5, <1>6, <1>7 DEF CursorsOK, CursorOK
<1>13. ShownOK
  <2>1. IsInjective(shown.items)
    BY <1>4 DEF IsInjective
  <2>2. Cuts(shown.listing, shown.items, shown.next, shown.stable)
    BY <1>4 DEF Cuts
  <2>3. Snapshot(shown.items, shown.next, shown.stable, shown.since)
    BY <1>4 DEF Snapshot
  <2> QED
    BY <1>4, <2>1, <2>2, <2>3 DEF ShownOK
<1>14. ListingOK
  BY <1>1, <1>4, <1>5, <1>6, <1>7 DEF ListingOK
<1>15. OneListing
  BY <1>1, <1>4 DEF OneListing, End
<1> QED
  BY <1>5, <1>6, <1>7, <1>8, <1>9, <1>10, <1>11, <1>12, <1>13, <1>14, <1>15 DEF PagesInv

LEMMA PagesNextInv ==
  ASSUME PagesInv, [PagesNext]_pageVars
  PROVE  PagesInv'
<1>1. ASSUME NEW f \in flights, Serve(f) \/ Answer(f) \/ Fail(f)
      PROVE  PagesInv'
  BY <1>1, ServeKeeps, AnswerKeeps, FailKeeps
<1>2. ASSUME NEW i \in Items, Fetch(i) \/ Store(i)
      PROVE  PagesInv'
  BY <1>2, FetchKeeps, StoreKeeps
<1>3. CASE Turning
  BY <1>3, TurnKeeps DEF Turning
<1>4. CASE Refresh
  BY <1>4, ReloadKeeps
<1>5. CASE More \/ Retry \/ \E l \in Listings(view) : Misuse(l)
  BY <1>5, GoingOnKeeps
<1>6. CASE UNCHANGED pageVars
  <2>1. /\ UNCHANGED <<view, published, rows, fetching, clock, listing, shown, flights>>
        /\ UNCHANGED <<asked, latest, loading, failed, turns, faults>>
    BY <1>6 DEF pageVars, data
  <2>2. PagesTypeOK' /\ Clocks' /\ Numbers' /\ OwnListings'
    BY <2>1 DEF PagesInv, PagesTypeOK, Clocks, Numbers, OwnListings, First, Guarded
  <2>3. CursorsOK'
    <3>1. \A c : CursorOK(c)' <=> CursorOK(c)
      BY <2>1, Calm
    <3> QED
      BY <2>1, <3>1 DEF PagesInv, CursorsOK, First
  <2>4. (\A f \in flights : PageOK(f) /\ GoesOn(f))' /\ ShownOK'
    BY <2>1, CalmFlights DEF PagesInv
  <2>5. ListingOK' /\ OneListing'
    BY <2>1 DEF PagesInv, ListingOK, OneListing, First, Guarded, ByOffset
  <2> QED
    BY <2>2, <2>3, <2>4, <2>5 DEF PagesInv
<1>7. PagesNext => \/ \E f \in flights : Serve(f) \/ Answer(f) \/ Fail(f)
                   \/ \E i \in Items : Fetch(i) \/ Store(i)
                   \/ Turning \/ Refresh \/ More \/ Retry \/ \E l \in Listings(view) : Misuse(l)
  BY DEF PagesNext, Serving, Hearing, Failing, Collecting
<1> QED
  BY <1>1, <1>2, <1>3, <1>4, <1>5, <1>6, <1>7

LEMMA PagesInvariant == PagesSpec => []PagesInv
<1>1. PagesInit => PagesInv
  BY PagesInitInv
<1>2. PagesInv /\ [PagesNext]_pageVars => PagesInv'
  BY PagesNextInv
<1> QED
  BY <1>1, <1>2, PTL DEF PagesSpec

\* Every variable of a list that is read page by page keeps its type.
THEOREM PagesTyped == PagesSpec => []PagesTypeOK
<1>1. PagesInv => PagesTypeOK
  BY DEF PagesInv
<1> QED
  BY <1>1, PagesInvariant, PTL

\* Whatever number of rows is added and collected again between two pages, and however the
\* answers overtake each other: no row is shown twice, and those that keep their place are shown
\* once each, in the order of the listing, none left out before another one or at the end.
THEOREM ListedRows == PagesSpec => []ShownAsListed
<1>1. PagesInv => ShownAsListed
  <2> SUFFICES ASSUME PagesInv PROVE ShownAsListed
    OBVIOUS
  <2> DEFINE there == shown.stable \cap Range(shown.items)
  <2>1. IsInjective(shown.items)
    BY DEF PagesInv, ShownOK
  <2>2. ASSUME ~shown.mixed
        PROVE  /\ \A m, n \in DOMAIN shown.items :
                     m < n /\ {shown.items[m], shown.items[n]} \subseteq there
                       => Before(shown.listing, shown.items[m], shown.items[n])
               /\ \A i \in shown.stable \ there, j \in there : ~Before(shown.listing, i, j)
               /\ shown.next = End => shown.stable \subseteq there
               /\ BySnapshot => \A i \in Range(shown.items) : rows[i].seen <= shown.since
    <3>1. /\ Cuts(shown.listing, shown.items, shown.next, shown.stable)
          /\ Snapshot(shown.items, shown.next, shown.stable, shown.since)
      BY <2>2 DEF PagesInv, ShownOK
    <3> QED
      BY <3>1 DEF Cuts, Snapshot
  <2> QED
    BY <2>1, <2>2 DEF ShownAsListed
<1> QED
  BY <1>1, PagesInvariant, PTL

\* No answer of another order, source or channel becomes part of the list with cursors that is
\* shown, and a guarded view shows what the user chose last.
THEOREM OneListingShown == PagesSpec => []OneListing
<1>1. PagesInv => OneListing
  BY DEF PagesInv
<1> QED
  BY <1>1, PagesInvariant, PTL

\* A request that reached the API can be answered whatever is stored, and an answer taken into
\* the list: rows have one order at any time, rows of equal times and of unknown ones too.
Answerable ==
    \A f \in flights :
        /\ Sorted(f.listing, Selected(f.listing, f.cursor)) # {}
        /\ f.state = "served" => Without(f.page.items, Range(shown.items)) # {}

THEOREM AlwaysAnswerable == PagesSpec => []Answerable
<1>1. PagesInv => Answerable
  <2> SUFFICES ASSUME PagesInv, NEW f \in flights
               PROVE  /\ Sorted(f.listing, Selected(f.listing, f.cursor)) # {}
                      /\ Without(f.page.items, Range(shown.items)) # {}
    BY DEF Answerable
  <2>1. PagesTypeOK /\ f \in Requests
    BY DEF PagesInv, PagesTypeOK
  <2>2. Selected(f.listing, f.cursor) \in SUBSET Items
    <3>1. Stored \subseteq Items /\ \A t : SeenBy(t) \subseteq Items
      BY DEF Stored, SeenBy
    <3>2. \A l, c : /\ ThreadRows(l, c) \subseteq Items /\ SourceRows(l, c) \subseteq Items
                    /\ LibraryRows(l, c) \subseteq Items /\ ExploreRows(l) \subseteq Items
      BY <3>1 DEF ThreadRows, SourceRows, LibraryRows, ExploreRows, After
    <3> QED
      BY <3>2 DEF Selected
  <2>3. f.page.items \in Seq(Items)
    BY <2>1 DEF Requests
  <2> QED
    BY <2>1, <2>2, <2>3, SortedExists, WithoutExists
<1> QED
  BY <1>1, PagesInvariant, PTL

==============================================================================
