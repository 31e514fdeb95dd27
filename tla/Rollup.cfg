SPECIFICATION FairSpec
CONSTANTS
    Videos = {1, 2}
    Comments = {c1}
    Writers = {w1}
    BatchSize = 1
    MaxPasses = 2
    MaxFaults = 2
    None = None
INVARIANTS
    ReadyIsTrue
    PassCovers
PROPERTIES
    CountsStayTrue
    BackfillEnds
