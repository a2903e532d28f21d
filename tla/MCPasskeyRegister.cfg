CONSTANTS
    ann = ann
    bob = bob
    c1 = c1
    c2 = c2
    c3 = c3
    k1 = k1
    k2 = k2
    b1 = b1
    b2 = b2
    f1 = f1
    f2 = f2
    d1 = d1
    Null = Null
    Gone = Gone
    Requests = {b1, b2, f1, f2, d1}
    Op <- RegisterOps
    UserIds = {ann, bob}
    CredIds = {c1, c2, c3}
    Keys = {k1, k2}
    SeedCreds <- AnnOnly
SPECIFICATION Spec
SYMMETRY Twins
CHECK_DEADLOCK FALSE
INVARIANTS
    OwnersOnly
    RegisteredUnlessRemoved
PROPERTIES
    RemovedByOwner
