SPECIFICATION Spec
CONSTANTS
    Tab = {k1, k2}
    MaxFailures = 2
    MaxReloads = 1
    Demo = Demo
    NULL = NULL
INVARIANTS
    TypeOK
    TenantsAreAccountedFor
    ActiveIsComplete
    UnloggedConsentsAreFailures
    LockedByRequest
CHECK_DEADLOCK FALSE
