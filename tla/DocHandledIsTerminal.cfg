SPECIFICATION Spec
CONSTANTS
    t1 = t1
    t2 = t2
    Tenant = {t1}
    Prediction = {p1}
    TenantOf <- MCFirstTenant
    RecCall = {q1}
    Decision = {d1}
    Run = {c1}
    Rule = {}
    Supplier = {s1}
    Confidence = {90}
    Lead = {2}
    MinLead = 2
    Window = 1
    Horizon = 2
    MaxFailures = 0
    NULL = NULL
PROPERTIES
    HandledIsTerminal
CHECK_DEADLOCK FALSE
