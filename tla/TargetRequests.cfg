SPECIFICATION FairSpec
CONSTANTS
    Type = "channel"
    DefaultVideos = 2
    Request = {p, q}
    Wishes <- BoundedWishes
    DirectJobs <- NarrowJob
    Outcome = {"completed", "failed"}
    MaxExtra = 2
INVARIANTS
    OneActiveJob
    PendingHasActive
    RequestFollowsJob
    ServedAsAsked
PROPERTIES
    AnswersFinal
    EveryRequestEnds
