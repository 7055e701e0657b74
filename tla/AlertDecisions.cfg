SPECIFICATION Spec
CONSTANTS
    t1 = t1
    t2 = t2
    Tenant = {t1, t2}
    Prediction = {p1}
    TenantOf <- MCFirstTenant
    RecCall = {q1}
    Decision = {d1, d2}
    Run = {c1}
    Rule = {r1}
    Supplier = {s1}
    Confidence = {90}
    Lead = {0, 1}
    MinLead = 1
    Window = 1
    Horizon = 2
    MaxFailures = 0
    NULL = NULL
INVARIANTS
    TypeOK
    AiOutputHasConsent
    AuditCatchesUp
    DisagreementNeedsRace
    EscalatedNearImpact
    PublishedIsRecorded
PROPERTIES
    EscalatesOnce
CHECK_DEADLOCK FALSE
