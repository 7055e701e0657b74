SPECIFICATION Spec
CONSTANTS
    Prediction = {p1}
    Tab = {k1}
    OwnerTab = {k1}
    MaxGets = 3
    MaxRules = 2
    MaxFailures = 2
    NULL = NULL
INVARIANTS
    TypeOK
    PagesNeverLead
    ConfirmedIsShown
    InboxIsCurrent
CHECK_DEADLOCK FALSE
