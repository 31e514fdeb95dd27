SPECIFICATION Spec
CONSTANTS
    Worker = {a, b}
    Job = {j}
    NoWorker = none
    Pages = 2
    Threaded = {1}
    TimelyLeases = FALSE
    MaxFaults = 2
SYMMETRY Symmetry
INVARIANTS
    CursorCommitted
    
    PublishedOnce

    
