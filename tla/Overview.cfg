SPECIFICATION FairSpec
CONSTANTS
    Readers = {r1, r2}
    Missing = Missing
    SummaryWrite = TRUE
    MaxVersion = 1
    MaxFaults = 1
PROPERTIES
    ReadsAreFresh
    EndOfAnalysisIsShown
