--------------------------- MODULE CollectionPolicy ---------------------------
(***************************************************************************)
(* The breadth of a collection: what a configuration asks for, how two      *)
(* configurations of one target merge, what a job claims to cover, and when *)
(* a coverage satisfies a wish.                                             *)
(*                                                                          *)
(* A missing number is 0.  "limit" is the number that bounds the discovery: *)
(* maxVideos of a channel, maxPagesPerRun of a keyword, nothing of a video. *)
(***************************************************************************)
EXTENDS Naturals

CONSTANTS
    Type,           \* the type of the target
    DefaultVideos   \* the videos of a channel when no number is given

ASSUME PolicyConstants ==
    /\ Type \in {"channel", "keyword", "video"}
    /\ DefaultVideos \in Nat \ {0}

OrElse(n, default) == IF n = 0 THEN default ELSE n
Larger(m, n) == IF m >= n THEN m ELSE n

Config == [includeComments: BOOLEAN, collectAllComments: BOOLEAN, collectAllVideos: BOOLEAN,
           limit: Nat, commentPages: Nat]

Coverage == [complete: BOOLEAN, includeComments: BOOLEAN, collectAllComments: BOOLEAN,
             collectAllVideos: BOOLEAN, limit: Nat, commentPages: Nat]

Nothing == [complete |-> FALSE, includeComments |-> FALSE, collectAllComments |-> FALSE,
            collectAllVideos |-> FALSE, limit |-> 0, commentPages |-> 0]

\* The number the discovery is bounded by, of a configuration or of a job's columns.
Limit(n) ==
    CASE Type = "channel" -> OrElse(n, DefaultVideos)
      [] Type = "keyword" -> OrElse(n, 1)
      [] Type = "video"   -> 0

\* desired_coverage
Desired(config) ==
    [complete           |-> FALSE,
     includeComments    |-> config.includeComments,
     collectAllComments |-> config.includeComments /\ config.collectAllComments,
     collectAllVideos   |-> Type = "channel" /\ config.collectAllVideos,
     limit              |-> Limit(config.limit),
     commentPages       |-> OrElse(config.commentPages, 1)]

\* merge_collection_config: nothing a configuration asks for is lost.
Merge(current, incoming) ==
    [includeComments    |-> current.includeComments \/ incoming.includeComments,
     collectAllComments |-> current.collectAllComments \/ incoming.collectAllComments,
     collectAllVideos   |-> current.collectAllVideos \/ incoming.collectAllVideos,
     limit              |-> Larger(OrElse(current.limit, 1), OrElse(incoming.limit, 1)),
     commentPages       |-> Larger(OrElse(current.commentPages, 1), OrElse(incoming.commentPages, 1))]

\* coverage_satisfies
Satisfies(coverage, desired) ==
    /\ coverage.complete
    /\ desired.includeComments => coverage.includeComments
    /\ desired.collectAllComments => coverage.collectAllComments
    /\ desired.collectAllVideos => coverage.collectAllVideos
    /\ coverage.limit >= desired.limit
    /\ desired.includeComments => coverage.commentPages >= desired.commentPages

\* job_coverage: the columns of a job completed from its source's configuration.
\* Only a channel job has a number of videos of its own.
JobCoverage(job, config) ==
    [complete           |-> FALSE,
     includeComments    |-> job.includeComments,
     collectAllComments |-> job.includeComments /\ config.collectAllComments,
     collectAllVideos   |-> Type = "channel" /\ config.collectAllVideos,
     limit              |-> Limit(IF Type = "channel" THEN OrElse(job.maxVideos, config.limit)
                                                      ELSE config.limit),
     commentPages       |-> OrElse(OrElse(job.commentPages, config.commentPages), 1)]

==============================================================================
