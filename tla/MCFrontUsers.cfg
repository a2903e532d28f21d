CONSTANTS
    Requests = {r1, r2, r3}
    Null = Null
    Empty = ""
    UserIds = {1, 2, 3}
    Texts <- MCTexts
    Trim <- MCTrim
    SeedUsers <- MCSeedUsers
    CreateBodies <- MCCreateBodies
    UpdateBodies <- MCUpdateBodies
SPECIFICATION Spec
SYMMETRY Twins
CHECK_DEADLOCK FALSE
INVARIANTS
    UsernameUnique
    ReplyMatchesWrites
PROPERTIES
    SharedOnlyIfOvertaken
    OnlySentFieldsChange
    RefusedForAReason
