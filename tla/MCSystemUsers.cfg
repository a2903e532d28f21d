CONSTANTS
    Requests = {r1, r2}
    ann = ann
    bob = bob
    id3 = id3
    id4 = id4
    viewer = viewer
    editor = editor
    ghost = ghost
    Null = Null
    EmptyName = ""
    UserIds <- MCUserIds
    Names <- MCNames
    Trim <- MCTrim
    RoleIds <- MCRoleIds
    Roles <- MCRoles
    SeedUsers <- MCSeedUsers
    SeedRoles <- MCSeedRoles
    CreateBodies <- MCCreateBodies
    UpdateBodies <- MCUpdateBodies
SPECIFICATION FairSpec
INVARIANTS
    UsernameUnique
    NoPartialRoleSet
    RolelessOnlyIfCreateUnfinished
    ReplyMatchesWrites
PROPERTIES
    ImplementsDirectory
    EventuallyAnswered
