SPECIFICATION FairSpec
CONSTANTS
    MaxVersion = 3
    MaxJobs = 2
    MaxFailures = 2
INVARIANTS
    PollingGoesOn
PROPERTIES
    PageGrows
    EndIsShown
