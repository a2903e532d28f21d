CONSTANTS
    Null = Null
    Denied = Denied
    ann = ann
    bob = bob
    a1 = a1
    a2 = a2
    b1 = b1
    Tabs = {t1, t2}
    Accounts = {ann, bob}
    Tokens = {a1, a2, b1}
    Owner <- OwnerOf
    MaxFaults = 1
SPECIFICATION FairSpec
CHECK_DEADLOCK FALSE
INVARIANTS
    CopiesAgree
    UserOwnsToken

    
