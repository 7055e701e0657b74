SPECIFICATION FairSpec
CONSTANTS
    Area = {a1, a2}
    Writer = {w1}
    Fetch = {f1, f2, f3}
    MaxFailures = 1
    NULL = NULL
INVARIANTS
    TypeOK
    InvalidatedWritesAreVisible
    HeardIsShown
PROPERTIES
    CacheHeals
    PageFollows
CHECK_DEADLOCK FALSE
