SPECIFICATION FairSpec
CONSTANTS
    t1 = t1
    t2 = t2
    Tenant = {t1}
    Prediction = {p1}
    TenantOf <- MCFirstTenant
    RecCall = {q1, q2}
    Decision = {d1}
    Run = {c1, c2}
    Rule = {r1}
    Supplier = {}
    Confidence = {90}
    Lead = {2}
    MinLead = 2
    Window = 1
    Horizon = 2
    MaxFailures = 2
    NULL = NULL
INVARIANTS
    HandledIsAudited
    AuditIsTruthful
    SilenceIsFailure
PROPERTIES
    NothingIsTakenBack
    ViewUnlessOvertaken
    NoSilentExpiry
CHECK_DEADLOCK FALSE
