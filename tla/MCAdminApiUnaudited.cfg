CONSTANTS
    Requests = {r1, r2}
    Users = {ann}
    Null = Null
    Offered <- MCOffered
    Grantable = {"system:user:write", "dashboard:view"}
SPECIFICATION Spec
CHECK_DEADLOCK FALSE
INVARIANT
    EveryAuthedWriteRecorded
