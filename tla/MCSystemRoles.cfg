CONSTANTS
    Requests = {r1, r2, r3}
    i1 = i1
    i2 = i2
    i3 = i3
    ann = ann
    Null = Null
    Users = {ann}
    RoleIds = {i1, i2, i3}
    Texts <- MCTexts
    Empty = ""
    Trim <- MCTrim
    Perms = {"read", "write"}
    SeedRoles <- MCSeedRoles
    SeedPerms <- MCSeedPerms
    SeedUserRoles <- MCSeedUserRoles
    Calls <- MCCalls
SPECIFICATION Spec
SYMMETRY Twins
CHECK_DEADLOCK FALSE
INVARIANTS
    CodeUnique
    LastCommitWins
    AnswerNotOlder
    RolesAsAnswered
PROPERTIES
    VerdictFromWholeSets
    ImplementsDirectory
