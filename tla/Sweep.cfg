SPECIFICATION FairSpec
CONSTANTS
    t1 = t1
    t2 = t2
    s1 = s1
    s2 = s2
    s3 = s3
    Tenant = {t1, t2}
    Supplier = {s1, s2, s3}
    TenantOf <- MCTenantOf
    Rank <- MCRank
    LeadOf <- MCLeadOf
    FirstKind <- MCFirstKind
    MinLead = 2
    InDirectory = {t2}
    Sweeper = {w1, w2}
    Script = {c1}
    MaxFailures = 1
    MaxEdits = 1
    Edited = {s2, t1}
    Slot = {1, 2}
    NULL = NULL
INVARIANTS
    TypeOK
    DuplicateNeedsOverlap
    LossesAreFailures
PROPERTIES
    ViewSpec
    CandidateIsWarned
CHECK_DEADLOCK FALSE
