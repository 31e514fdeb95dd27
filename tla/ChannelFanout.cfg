SPECIFICATION FairSpec
CONSTANTS
    Workers = 2
    MaxVideos = 2
    MaxDeleted = 1
    MaxParents = 2
    PageSize = 1
    Limit = 1
    MaxFaults = 2
INVARIANTS
    CompletedAfterChildren
    FoundIsCollected
    
PROPERTY
    EveryParentEnds
