SPECIFICATION Spec
CONSTANTS
    u1 = u1
    u2 = u2
    u3 = u3
    u4 = u4
    s1 = s1
    i1 = i1
    Upload = {u1, u2, u3, u4}
    Worker = {w1, w2}
    Sku = {i1}
    Supplier = {s1}
    FileOf <- MCFiles
    Threshold = 0
    MaxPosts = 1
    MaxFaults = 2
    NULL = NULL
INVARIANTS
    TypeOK
    OrdersOncePerDelivery
    SyncedIsIngested
    SuppliersNotMultiplied
    UnsyncedIsExplained
CONSTRAINT MCLateTick
SYMMETRY MCSymmetry
CHECK_DEADLOCK FALSE
