CONSTANTS
    ann = ann
    bob = bob
    c1 = c1
    c2 = c2
    c3 = c3
    k1 = k1
    k2 = k2
    b1 = b1
    b2 = b2
    f1 = f1
    f2 = f2
    d1 = d1
    Null = Null
    Gone = Gone
    Requests = {b1, f1, f2, d1}
    Op <- RetryOps
    UserIds = {ann, bob}
    CredIds = {c1, c2}
    Keys = {k1}
    SeedCreds <- AnnOnly
SPECIFICATION Spec
CHECK_DEADLOCK FALSE
PROPERTIES
    DisabledGetsNoToken
    RemovalFinalWhenQuiet
