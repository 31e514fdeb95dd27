SPECIFICATION PagesFairSpec
CONSTANTS
    Items = {1, 2, 3}
    Few = {1, 3}
    Late = {2}
    Undated = {1, 2}
    Limit = 1
    Views = {"threads", "source", "explore", "library"}
    MaxStores = 1
    MaxTurns = 1
    MaxFaults = 1
    MaxRequests = 12
CHECK_DEADLOCK FALSE
INVARIANTS
    ShownAsListed
    OneListing
PROPERTIES
    EveryListSettles
