SPECIFICATION Spec
CONSTANTS
    Users = {u1, u2}
    Names = {id, handle, user}
    Canonical = id
    Handle = handle
    u1 = u1
    u2 = u2
    k = k
    KeysOf <- MCKeysOf
    NoKey = none
    Videos = {v}
    MaxRequests = 2
    MaxJobs = 2
    MaxFailures = 0
CHECK_DEADLOCK FALSE
INVARIANTS
    NamesKeepLeading
