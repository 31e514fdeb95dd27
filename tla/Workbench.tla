------------------------------ MODULE Workbench ------------------------------
(***************************************************************************)
(* The workbench in a browser and what it learns of a target it collects:   *)
(* it launches jobs, polls the active jobs, takes those that are no longer  *)
(* among them for ended, and then refreshes its list of sources and the     *)
(* overview, which the API answers as FreshReads says.  Every answer may be *)
(* late, requests fail, and the user turns to another page.                 *)
(***************************************************************************)
EXTENDS Integers

CONSTANTS
    MaxVersion, \* bound on data versions
    MaxJobs,    \* bound on the jobs it launches
    MaxFailures \* bound on failed requests and page changes

ASSUME WorkbenchConstants ==
    /\ MaxVersion \in Nat
    /\ MaxJobs \in Nat
    /\ MaxFailures \in Nat

VARIABLES
    version,   \* the data version of the target
    jobs,      \* jobs launched so far; the target has one at a time
    active,    \* whether the latest is not terminal
    ends,      \* history: the data version each job's end made
    launch,    \* the job whose launch is not answered yet, or 0
    known,     \* activeJobsRef
    handled,   \* handledTerminalJobsRef
    timer,     \* a poll is scheduled
    again,     \* pollAgain
    poll,      \* the poll in flight
    sources,   \* refreshSources in flight
    results,   \* refreshResults in flight
    since,     \* the data version when its request began, as in FreshReads
    answer,    \* the answer to it, or -1
    dropped,   \* answers to earlier requests, still under way
    seen,      \* the data version of the overview on the page
    missed,    \* history: jobs taken for ended too early, or whose refresh failed
    failures

service == <<version, jobs, active, ends>>
polling == <<timer, again, poll>>
overview == <<results, since, answer, dropped, seen>>
vars == <<service, launch, known, handled, polling, sources, overview, missed, failures>>

Version == 0..MaxVersion
Job == 1..MaxJobs
Active == IF active THEN {jobs} ELSE {}

\* entries: the answer of the active-jobs endpoint, or of the list of sources.
Quiet == [pc |-> "none", entries |-> {}]
InFlight == poll.pc # "none"

TypeOK ==
    /\ version \in Version
    /\ jobs \in 0..MaxJobs /\ active \in BOOLEAN /\ ends \in [Job -> Version]
    /\ launch \in 0..MaxJobs
    /\ known \subseteq Job /\ handled \subseteq Job /\ missed \subseteq Job
    /\ timer \in BOOLEAN /\ again \in BOOLEAN
    /\ poll \in [pc: {"none", "asked", "answered", "refreshing"}, entries: SUBSET Job]
    /\ sources \in [pc: {"none", "asked", "answered"}, entries: SUBSET Job]
    /\ results \in BOOLEAN /\ since \in [{"page"} -> Version] /\ answer \in [{"page"} -> -1..MaxVersion]
    /\ dropped \subseteq Version /\ seen \in Version
    /\ failures \in 0..MaxFailures

\* The answers of the API.
API == INSTANCE FreshReads WITH Readers <- {"page"}, shown <- answer
Nothing == [r \in {"page"} |-> -1]

Init ==
    /\ API!Init
    /\ jobs = 0 /\ active = FALSE /\ ends = [n \in Job |-> 0]
    /\ launch = 0
    /\ known = {} /\ handled = {} /\ missed = {}
    /\ timer = TRUE /\ again = FALSE
    /\ poll = Quiet /\ sources = Quiet
    /\ results = FALSE /\ dropped = {} /\ seen = 0
    /\ failures = 0

Fails == failures < MaxFailures /\ failures' = failures + 1

------------------------------------------------------------------------------
\* The service.

JobEnds ==
    /\ active /\ version < MaxVersion
    /\ version' = version + 1
    /\ active' = FALSE
    /\ ends' = [ends EXCEPT ![jobs] = version + 1]
    /\ UNCHANGED <<jobs, launch, known, handled, polling, sources, overview, missed, failures>>

\* The job of a target that shares a video ends.
OtherJobEnds ==
    /\ version < MaxVersion
    /\ version' = version + 1
    /\ UNCHANGED <<jobs, active, ends, launch, known, handled, polling, sources, overview, missed, failures>>

------------------------------------------------------------------------------
\* launchJob.

\* createCollectionRequest reaches the API, which makes a job.
Submit ==
    /\ launch = 0 /\ ~active /\ jobs < MaxJobs
    /\ jobs' = jobs + 1 /\ active' = TRUE
    /\ launch' = jobs + 1
    /\ UNCHANGED <<version, ends, known, handled, polling, sources, overview, missed, failures>>

\* handleVisibilityChange, while the page is visible.
Wake == IF InFlight THEN again' = TRUE /\ UNCHANGED timer ELSE timer' = TRUE /\ UNCHANGED again

LaunchAnswered ==
    /\ launch # 0
    /\ launch' = 0
    /\ known' = known \union {launch}
    /\ handled' = handled \ {launch}
    /\ Wake
    /\ UNCHANGED <<service, poll, sources, overview, missed, failures>>

LaunchFails ==
    /\ launch # 0
    /\ Fails
    /\ launch' = 0
    /\ missed' = missed \union {launch}
    /\ UNCHANGED <<service, known, handled, polling, sources, overview>>

------------------------------------------------------------------------------
\* The overview.

\* Mutation: the request before is not aborted, and its answer is put on the page.
LateShown(v) ==
    /\ v \in dropped
    /\ dropped' = dropped \ {v}
    /\ seen' = v
    /\ UNCHANGED <<service, launch, known, handled, polling, sources, results, since, answer,
                   missed, failures>>

\* An answer to a request that is not the latest, or was aborted, is not looked at.
LateAnswer(v) ==
    /\ v \in dropped
    /\ dropped' = dropped \ {v}
    /\ UNCHANGED <<service, launch, known, handled, polling, sources, results, since, answer,
                   seen, missed, failures>>

\* refreshResults: it aborts the request before.
RefreshResults ==
    /\ results' = TRUE
    /\ API!Ask("page")
    /\ dropped' = IF answer = Nothing THEN dropped ELSE dropped \union {answer["page"]}
    /\ UNCHANGED seen

ResultsRead ==
    /\ results
    /\ API!Answer("page")
    /\ UNCHANGED <<jobs, active, ends, launch, known, handled, polling, sources, results, dropped,
                   seen, missed, failures>>

ResultsAnswered ==
    /\ results /\ answer # Nothing
    /\ results' = FALSE
    /\ seen' = answer["page"]
    /\ answer' = Nothing
    /\ UNCHANGED <<service, launch, known, handled, polling, sources, since, dropped, missed, failures>>

\* The error is shown in the place of the overview, and nobody asks again.
ResultsFail ==
    /\ results
    /\ Fails
    /\ results' = FALSE
    /\ answer' = Nothing
    /\ missed' = missed \union handled
    /\ UNCHANGED <<service, since, launch, known, handled, polling, sources, dropped, seen>>

------------------------------------------------------------------------------
\* The list of sources, with the latest job of each.

SourcesRead ==
    /\ sources.pc = "asked"
    /\ sources' = [pc |-> "answered", entries |-> Active]
    /\ UNCHANGED <<service, launch, known, handled, polling, overview, missed, failures>>

SourcesAnswered ==
    /\ sources.pc = "answered"
    /\ known' = known \union sources.entries
    /\ IF sources.entries # {} THEN Wake ELSE UNCHANGED <<timer, again>>
    /\ sources' = Quiet
    /\ UNCHANGED <<service, launch, handled, poll, overview, missed, failures>>

SourcesFail ==
    /\ sources.pc # "none"
    /\ Fails
    /\ sources' = Quiet
    /\ UNCHANGED <<service, launch, known, handled, polling, overview, missed>>

------------------------------------------------------------------------------
\* Polling.

PollStarts ==
    /\ timer /\ ~InFlight
    /\ timer' = FALSE
    /\ poll' = [Quiet EXCEPT !.pc = "asked"]
    /\ UNCHANGED <<service, launch, known, handled, again, sources, overview, missed, failures>>

\* list_active_parent_jobs
PollRead ==
    /\ poll.pc = "asked"
    /\ poll' = [pc |-> "answered", entries |-> Active]
    /\ UNCHANGED <<service, launch, known, handled, timer, again, sources, overview, missed, failures>>

\* Mutation: the next poll is left to who wakes it.
RescheduleWoken ==
    /\ poll' = Quiet
    /\ timer' = again
    /\ again' = FALSE

\* The finally block: the next poll is scheduled in any case.
Reschedule ==
    /\ poll' = Quiet
    /\ timer' = TRUE
    /\ again' = FALSE

PollFails ==
    /\ poll.pc \in {"asked", "answered"}
    /\ Fails
    /\ Reschedule
    /\ UNCHANGED <<service, launch, known, handled, sources, overview, missed>>

\* Mutation: a job is handled when it is launched, and its end is not.
NewlyTerminalOnce == {n \in known \ poll.entries : \A m \in handled : n < m}

NewlyTerminal == known \ (poll.entries \union handled)

\* The answer is taken for the present.  Jobs that ended set off the refreshes; the
\* overview is refreshed as the source of the job is the one selected.
PollAnswered ==
    /\ poll.pc = "answered"
    /\ known' = poll.entries
    /\ handled' = handled \union NewlyTerminal
    /\ missed' = missed \union (NewlyTerminal \intersect Active)
    /\ IF NewlyTerminal # {}
       THEN /\ poll' = [Quiet EXCEPT !.pc = "refreshing"]
            /\ sources' = [Quiet EXCEPT !.pc = "asked"]
            /\ RefreshResults
            /\ UNCHANGED <<timer, again>>
       ELSE /\ Reschedule
            /\ UNCHANGED <<version, sources, overview>>
    /\ UNCHANGED <<jobs, active, ends, launch, failures>>

Refreshed ==
    /\ poll.pc = "refreshing" /\ sources.pc = "none" /\ ~results
    /\ Reschedule
    /\ UNCHANGED <<service, launch, known, handled, sources, overview, missed, failures>>

\* The effect is torn down and set up again: the poll is aborted, its refreshes go on.
PageChanges ==
    /\ Fails
    /\ Reschedule
    /\ UNCHANGED <<service, launch, known, handled, sources, overview, missed>>

PollLoop == PollStarts \/ PollRead \/ PollAnswered \/ Refreshed
SourcesLoad == SourcesRead \/ SourcesAnswered
ResultsLoad == ResultsRead \/ ResultsAnswered

Next ==
    \/ JobEnds \/ OtherJobEnds \/ Submit \/ LaunchAnswered \/ LaunchFails
    \/ PollLoop \/ SourcesLoad \/ ResultsLoad
    \/ \E v \in Version : LateAnswer(v)
    \/ PollFails \/ SourcesFail \/ ResultsFail \/ PageChanges

Spec == Init /\ [][Next]_vars

\* The browser and the API go on; nothing is assumed of launches and jobs.
Fairness ==
    /\ WF_vars(LaunchAnswered) /\ WF_vars(PollLoop)
    /\ WF_vars(SourcesLoad) /\ WF_vars(ResultsLoad)

FairSpec == Spec /\ Fairness

------------------------------------------------------------------------------
\* A poll is in flight or scheduled, never both: the browser does not stop looking, with
\* a wake-up lost between two of its callbacks or a page change, nor does it have two
\* answers to mix up.
PollingGoesOn == timer # InFlight

\* The page never goes back to an older overview, although refreshes overlap.
PageGrows == [][seen' >= seen]_vars

\* The end of a job is followed by an overview that shows it, unless the browser was
\* misled by an answer older than the job, or a request about the job failed.
EndIsShown == \A n \in Job : ends[n] > 0 ~> (n \in missed \/ seen >= ends[n])

\* DATABASE_PERFORMANCE_OPTIMIZATION_PLAN.md 861: a job that ends refreshes what is shown.
NoEndMissed == \A n \in Job : ends[n] > 0 ~> (seen >= ends[n] \/ failures > 0)

==============================================================================
