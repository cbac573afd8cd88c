SPECIFICATION Spec
CONSTANTS
    Accounts = {a, b}
    Ids = {id1, id2}
    None = None
    Workers = {w1, w2}
    MaxCount = 1
    MaxCrashes = 1
SYMMETRY Interchangeable
INVARIANTS
    BlockedPairsDoNotFollow
    CountersMatchRows
PROPERTIES
    FollowsByConsent
CHECK_DEADLOCK FALSE
