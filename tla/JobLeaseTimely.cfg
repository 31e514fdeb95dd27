SPECIFICATION FairSpec
CONSTANTS
    Worker = {a, b}
    Job = {j, k}
    NoWorker = none
    Pages = 1
    Threaded = {1}
    TimelyLeases = TRUE
    MaxFaults = 2
INVARIANTS
    SoleCollector
    NotStranded
PROPERTIES
    DownOnlyByCrash
    EveryJobEnds
