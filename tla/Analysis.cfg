SPECIFICATION FairSpec
CONSTANTS
    Workers = {a1, a2}
    Nobody = Nobody
    SummaryWrite = TRUE
    MaxTries = 2
    MaxVersion = 2
    MaxFaults = 3
INVARIANTS
    AnalysisTypeOK
    NoRunAhead
    BuiltByHolder
PROPERTIES
    AnalysisPromised
    EveryVersionEnds
    EveryRunEnds
