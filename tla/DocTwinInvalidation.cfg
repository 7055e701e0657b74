SPECIFICATION Spec
CONSTANTS
    Area = {a1, a2}
    Writer = {w1}
    Fetch = {f1, f2}
    MaxFailures = 0
    NULL = NULL
INVARIANTS
    InvalidatedByEveryWrite
CHECK_DEADLOCK FALSE
