----------------------------- MODULE SystemRoles -----------------------------
(***************************************************************************)
(* Roles and the permissions they grant: creating a role, replacing its    *)
(* permissions, reading it back and listing all roles                      *)
(* (internal/service/system.go, internal/repository/rbac.go), beside the   *)
(* permission check that every guarded request makes against the same      *)
(* tables (internal/middleware/permission.go).                             *)
(*                                                                         *)
(* A step is one SQL statement of one request, or one commit.  CreateRole  *)
(* and ReplaceRolePermissions are transactions: what they have done is     *)
(* seen by nobody else before the commit.  Roles are never deleted.        *)
(***************************************************************************)
EXTENDS Naturals, Sequences

CONSTANTS
    Requests,       \* the requests being served; each is answered once
    Users,          \* accounts that hold roles
    RoleIds,        \* primary keys of the roles table
    Texts,          \* strings that may be sent as a role or permission code
    Empty,          \* the empty string
    Trim,           \* strings.TrimSpace, on Texts
    Perms,          \* the codes in the permissions table
    Null,           \* an absent row, lock or value
    SeedRoles,      \* roles present at the start: a function to their codes
    SeedPerms,      \* the permissions each of these grants
    SeedUserRoles,  \* the roles every account holds at the start
    Calls           \* what the requests may ask for

Call ==
    [op : {"create"}, code : Texts, named : BOOLEAN, perms : SUBSET Texts]
      \cup [op : {"update"}, id : RoleIds, perms : SUBSET Texts]
      \cup [op : {"get"}, id : RoleIds] \cup [op : {"list"}]
      \cup [op : {"check"}, user : Users, perm : Perms]

Rejections == {"BadRequest", "NotFound", "DuplicateCode", "InvalidPermission"}
Verdicts == {"Allowed", "Forbidden"}
Replies == {"OK", "InternalError"} \cup Rejections \cup Verdicts

ASSUME ConstantsAssumption ==
    /\ Empty \in Texts /\ Trim \in [Texts -> Texts] /\ Perms \subseteq Texts
    /\ Null \notin Texts /\ Null \notin RoleIds /\ Null \notin Call
    /\ Null \notin Replies /\ Null \notin Requests
    /\ \A perms \in SUBSET Perms : Null # perms

ASSUME SeedAssumption ==
    /\ DOMAIN SeedRoles \subseteq RoleIds
    /\ SeedRoles \in [DOMAIN SeedRoles -> Texts]
    /\ \A i, j \in DOMAIN SeedRoles : SeedRoles[i] = SeedRoles[j] => i = j
    /\ SeedPerms \in [DOMAIN SeedRoles -> SUBSET Perms]
    /\ SeedUserRoles \in [Users -> SUBSET DOMAIN SeedRoles]
    /\ Calls \subseteq Call

VARIABLES
    roles,       \* committed rows of roles: id -> code, or Null
    rolePerms,   \* committed rows of role_permissions: id -> permission codes
    userRoles,   \* committed rows of user_roles: account -> role ids
    rowLock,     \* id -> the request whose transaction locks its permissions
    codeLock,    \* code -> the request whose transaction has inserted it
    pc,          \* the statement each request executes next
    call,        \* what each request asked for
    target,      \* the role it works on: the path's id, or the inserted one
    deleted,     \* permission rows its transaction has deleted ...
    inserted,    \* ... and those it has inserted
    todo,        \* the roles whose permissions it has still to read
    seen,        \* what it has read: id -> permission codes, or Null
    reply,       \* the answer: Null until the handler returns
    hist,        \* history: the sets committed for each role, oldest first
    since        \* history: how long hist was when the request came, or committed

tables == <<roles, rolePerms, userRoles>>
locks  == <<rowLock, codeLock>>
tx     == <<deleted, inserted>>
reads  == <<todo, seen>>
past   == <<hist, since>>
vars   == <<roles, rolePerms, userRoles, rowLock, codeLock, pc, call, target,
            deleted, inserted, todo, seen, reply, hist, since>>

Steps == {"idle", "findCode", "findRole", "mapCodes", "insertRole", "txDelete",
          "txInsert", "listRoles", "readCodes", "check", "done"}

TypeOK ==
    /\ roles \in [RoleIds -> Texts \cup {Null}]
    /\ rolePerms \in [RoleIds -> SUBSET Perms]
    /\ userRoles \in [Users -> SUBSET RoleIds]
    /\ rowLock \in [RoleIds -> Requests \cup {Null}]
    /\ codeLock \in [Texts -> Requests \cup {Null}]
    /\ pc \in [Requests -> Steps]
    /\ call \in [Requests -> Call \cup {Null}]
    /\ target \in [Requests -> RoleIds \cup {Null}]
    /\ deleted \in [Requests -> SUBSET Perms]
    /\ inserted \in [Requests -> SUBSET Perms]
    /\ todo \in [Requests -> SUBSET RoleIds]
    /\ seen \in [Requests -> [RoleIds -> (SUBSET Perms) \cup {Null}]]
    /\ reply \in [Requests -> Replies \cup {Null}]
    /\ hist \in [RoleIds -> Seq(SUBSET Perms)]
    /\ since \in [Requests -> [RoleIds -> Nat]]

Seeded(i) == i \in DOMAIN SeedRoles

Init ==
    /\ roles = [i \in RoleIds |-> IF Seeded(i) THEN SeedRoles[i] ELSE Null]
    /\ rolePerms = [i \in RoleIds |-> IF Seeded(i) THEN SeedPerms[i] ELSE {}]
    /\ userRoles = SeedUserRoles
    /\ rowLock = [i \in RoleIds |-> Null]
    /\ codeLock = [t \in Texts |-> Null]
    /\ pc = [r \in Requests |-> "idle"]
    /\ call = [r \in Requests |-> Null]
    /\ target = [r \in Requests |-> Null]
    /\ deleted = [r \in Requests |-> {}]
    /\ inserted = [r \in Requests |-> {}]
    /\ todo = [r \in Requests |-> {}]
    /\ seen = [r \in Requests |-> [i \in RoleIds |-> Null]]
    /\ reply = [r \in Requests |-> Null]
    /\ hist = [i \in RoleIds |-> IF Seeded(i) THEN <<SeedPerms[i]>> ELSE <<>>]
    /\ since = [r \in Requests |-> [i \in RoleIds |-> 0]]

-----------------------------------------------------------------------------
Goto(r, step) == pc' = [pc EXCEPT ![r] = step]
Continue(r, step) == Goto(r, step) /\ UNCHANGED reply
Answer(r, a) == Goto(r, "done") /\ reply' = [reply EXCEPT ![r] = a]

\* Trimmed, without blanks and repetitions; the order makes no difference here.
\* An omitted list is an empty one.
uniqueStrings(codes) == {Trim[c] : c \in codes} \ {Empty}
Wanted(r) == uniqueStrings(call[r].perms)
Code(r) == Trim[call[r].code]

Exists(code) == \E i \in RoleIds : roles[i] = code

\* The first statement of every operation.
FirstStep == [create |-> "findCode", update |-> "findRole", get |-> "findRole",
              list |-> "listRoles", check |-> "check"]

\* The binding tags want a code and a name, the service wants them not blank.
CreateBinds(c) == c.named /\ Trim[c.code] # Empty

-----------------------------------------------------------------------------
Arrive(r, c) ==
    /\ pc[r] = "idle"
    /\ call' = [call EXCEPT ![r] = c]
    /\ target' = [target EXCEPT ![r] = IF c.op \in {"update", "get"} THEN c.id ELSE Null]
    /\ since' = [since EXCEPT ![r] = [i \in RoleIds |-> Len(hist[i])]]
    /\ IF c.op = "create" /\ ~CreateBinds(c)
         THEN Answer(r, "BadRequest")
         ELSE Continue(r, FirstStep[c.op])
    /\ UNCHANGED <<tables, locks, tx, reads, hist>>

\* RequirePermission: one SELECT over user_roles and role_permissions.
UserHasPermission(u, p) == \E i \in userRoles[u] : p \in rolePerms[i]

Check(r) ==
    /\ pc[r] = "check"
    /\ Answer(r, IF UserHasPermission(call[r].user, call[r].perm)
                   THEN "Allowed" ELSE "Forbidden")
    /\ UNCHANGED <<tables, locks, call, target, tx, reads, past>>

FindRoleByCode(r) ==
    /\ pc[r] = "findCode"
    /\ IF Exists(Code(r)) THEN Answer(r, "DuplicateCode") ELSE Continue(r, "mapCodes")
    /\ UNCHANGED <<tables, locks, call, target, tx, reads, past>>

\* Also the first statement of GetRole, which ends every create and update; there
\* it always finds the row and is left out.
FindRoleByID(r) ==
    /\ pc[r] = "findRole"
    /\ CASE roles[target[r]] = Null ->
              Answer(r, "NotFound") /\ UNCHANGED todo
         [] roles[target[r]] # Null /\ call[r].op = "get" ->
              Continue(r, "readCodes") /\ todo' = [todo EXCEPT ![r] = {target[r]}]
         [] roles[target[r]] # Null /\ call[r].op # "get" ->
              Continue(r, "mapCodes") /\ UNCHANGED todo
    /\ UNCHANGED <<tables, locks, call, target, tx, seen, past>>

\* PermissionIDMapByCodes, and the check that it found every code.
AllKnown(codes) == codes \subseteq Perms

MapCodes(r) ==
    /\ pc[r] = "mapCodes"
    /\ IF AllKnown(Wanted(r))
         THEN Continue(r, IF call[r].op = "create" THEN "insertRole" ELSE "txDelete")
         ELSE Answer(r, "InvalidPermission")
    /\ UNCHANGED <<tables, locks, call, target, tx, reads, past>>

(* The transactions.                                                       *)

\* The key uk_roles_code.
KeyForgotten(code) == TRUE                                     \* wrong variant
UniqueKeyAllows(code) == ~Exists(code)

\* CreateRole's first INSERT takes an id that no row has, not even one that is
\* not committed, and keeps the code to itself: an INSERT of the same code waits
\* for the end of this transaction.
Unused(i) ==
    roles[i] = Null /\ \A q \in Requests : pc[q] = "txInsert" => target[q] # i

InsertRole(r) ==
    /\ pc[r] = "insertRole"
    /\ codeLock[Code(r)] = Null
    /\ IF UniqueKeyAllows(Code(r))
         THEN /\ \E i \in RoleIds : Unused(i) /\ target' = [target EXCEPT ![r] = i]
              /\ codeLock' = [codeLock EXCEPT ![Code(r)] = r]
              /\ Continue(r, "txInsert")
         ELSE Answer(r, "InternalError") /\ UNCHANGED <<target, codeLock>>
    /\ UNCHANGED <<tables, rowLock, call, tx, reads, past>>

\* What an open transaction has done stays its own until the commit ...
VisibleAtOnce(r, rows) == rolePerms' = [rolePerms EXCEPT ![target[r]] = rows]
                                                               \* wrong variant
Isolated(r, rows) == UNCHANGED rolePerms

\* ... and its DELETE keeps others from the role's rows.
LockForgotten(r) == UNCHANGED rowLock                          \* wrong variant
Lock(r) ==
    /\ rowLock[target[r]] = Null
    /\ rowLock' = [rowLock EXCEPT ![target[r]] = r]

Unlock(r) ==
    /\ rowLock' = [i \in RoleIds |-> IF rowLock[i] = r THEN Null ELSE rowLock[i]]
    /\ codeLock' = [t \in Texts |-> IF codeLock[t] = r THEN Null ELSE codeLock[t]]

TxDelete(r) ==
    /\ pc[r] = "txDelete"
    /\ Lock(r)
    /\ deleted' = [deleted EXCEPT ![r] = rolePerms[target[r]]]
    /\ Isolated(r, {})
    /\ Continue(r, "txInsert")
    /\ UNCHANGED <<roles, userRoles, codeLock, call, target, inserted, reads, past>>

TxInsert(r) ==
    /\ pc[r] = "txInsert"
    /\ \E p \in Wanted(r) \ inserted[r] :
        /\ inserted' = [inserted EXCEPT ![r] = @ \cup {p}]
        /\ Isolated(r, inserted[r] \cup {p})
    /\ UNCHANGED <<roles, userRoles, locks, pc, call, target, deleted, reads, reply, past>>

NewRole(r) ==
    IF call[r].op = "create" THEN roles' = [roles EXCEPT ![target[r]] = Code(r)]
    ELSE UNCHANGED roles

TxCommit(r) ==
    /\ pc[r] = "txInsert"
    /\ Wanted(r) \subseteq inserted[r]
    /\ NewRole(r)
    /\ rolePerms' = [rolePerms EXCEPT ![target[r]] = (@ \ deleted[r]) \cup inserted[r]]
    /\ Unlock(r)
    /\ hist' = [hist EXCEPT ![target[r]] = Append(@, Wanted(r))]
    /\ since' = [since EXCEPT ![r][target[r]] = Len(hist[target[r]]) + 1]
    /\ \/ Continue(r, "readCodes") /\ todo' = [todo EXCEPT ![r] = {target[r]}]
       \/ Answer(r, "InternalError") /\ UNCHANGED todo   \* answer lost
    /\ UNCHANGED <<userRoles, call, target, tx, seen>>

(* Reading.                                                                *)

\* ListRoles reads all roles, then the permissions of one after the other.
RolesThatGrant == {i \in RoleIds : roles[i] # Null /\ rolePerms[i] # {}}
                                                               \* wrong variant
AllRoles == {i \in RoleIds : roles[i] # Null}

ListRoles(r) ==
    /\ pc[r] = "listRoles"
    /\ todo' = [todo EXCEPT ![r] = AllRoles]
    /\ Continue(r, "readCodes")
    /\ UNCHANGED <<tables, locks, call, target, tx, seen, past>>

\* PermissionCodesByRoleID; in what order a list is read makes no difference.
BeforeCommit(r, i) == IF i = target[r] THEN deleted[r]         \* wrong variant
                      ELSE rolePerms[i]
PermissionCodes(r, i) == rolePerms[i]

ReadCodes(r) ==
    /\ pc[r] = "readCodes"
    /\ \E i \in todo[r] :
        /\ seen' = [seen EXCEPT ![r][i] = PermissionCodes(r, i)]
        /\ todo' = [todo EXCEPT ![r] = @ \ {i}]
    /\ IF todo'[r] = {} THEN Answer(r, "OK") ELSE Continue(r, "readCodes")
    /\ UNCHANGED <<tables, locks, call, target, tx, past>>

\* A statement fails without effect; an open transaction is rolled back.
Fail(r) ==
    /\ pc[r] \notin {"idle", "done"}
    /\ Unlock(r)
    /\ Answer(r, "InternalError")
    /\ UNCHANGED <<tables, call, target, tx, reads, past>>

\* Some account's roles are replaced (SystemUsers.tla), by roles that exist.
AssignRoles(u, ids) ==
    /\ \A i \in ids : roles[i] # Null
    /\ userRoles' = [userRoles EXCEPT ![u] = ids]
    /\ UNCHANGED <<roles, rolePerms, locks, pc, call, target, tx, reads, reply, past>>

-----------------------------------------------------------------------------
Serve(r) ==
    \/ Check(r) \/ FindRoleByCode(r) \/ FindRoleByID(r) \/ MapCodes(r)
    \/ InsertRole(r) \/ TxDelete(r) \/ TxInsert(r) \/ TxCommit(r)
    \/ ListRoles(r) \/ ReadCodes(r)

Next ==
    \/ \E r \in Requests : (\E c \in Calls : Arrive(r, c)) \/ Serve(r) \/ Fail(r)
    \/ \E u \in Users, ids \in (SUBSET RoleIds) \ {{}} : AssignRoles(u, ids)

Spec == Init /\ [][Next]_vars

-----------------------------------------------------------------------------
(* Properties.                                                             *)

\* Two racing requests may both find a code free; still no two roles share it
\* (system.go:284-290 checks, the key decides).
CodeUnique ==
    \A i, j \in RoleIds : roles[i] # Null /\ roles[i] = roles[j] => i = j

Latest(i) == hist[i][Len(hist[i])]

\* However replacements of one role interleave and fail, it grants exactly what
\* the last committed one asked for; and a role is never there without the
\* permissions it was created with (rbac.go:108-120, 165-177).
LastCommitWins ==
    \A i \in RoleIds :
        /\ roles[i] # Null => hist[i] # <<>> /\ rolePerms[i] = Latest(i)
        /\ roles[i] = Null => hist[i] = <<>> /\ rolePerms[i] = {}

\* The check of a guarded request is decided by the last committed permissions
\* of the account's roles: nobody is locked out, or let in, by a replacement
\* that is half way (rbac.go:52-64, permission.go:23-34).
VerdictFromWholeSets ==
    [][\A r \in Requests :
          reply[r] = Null /\ reply'[r] \in Verdicts =>
            (reply'[r] = "Allowed" <=>
               \E i \in userRoles[call[r].user] : call[r].perm \in Latest(i))]_vars

\* No answer is older than its request: a list or a detail shows for every role
\* a set committed since the request came or the last one before, and the answer
\* to a create or an update shows its own set or a later one (system.go:237-277).
AnswerNotOlder ==
    \A r \in Requests : reply[r] = "OK" =>
        \A i \in RoleIds : seen[r][i] # Null =>
            \E n \in DOMAIN hist[i] : n >= since[r][i] /\ seen[r][i] = hist[i][n]

\* A create that is answered 200 has made a role, one that is refused has not;
\* a list shows at least the roles that were there when it came (system.go:278-311).
RolesAsAnswered ==
    \A r \in Requests : call[r] # Null =>
        /\ call[r].op = "create" /\ reply[r] = "OK" =>
              roles[target[r]] = Code(r) /\ seen[r][target[r]] # Null
        /\ call[r].op = "create" /\ reply[r] \in Rejections => target[r] = Null
        /\ call[r].op = "list" /\ reply[r] = "OK" =>
              \A i \in RoleIds : since[r][i] > 0 => seen[r][i] # Null

\* The creates and updates that have still to write, if nothing stops them.
ToWrite == {r \in Requests : pc[r] \in {"findCode", "findRole", "mapCodes", "insertRole",
                                         "txDelete", "txInsert"}
                              /\ call[r].op \in {"create", "update"}}
Directory == INSTANCE RoleDirectory WITH asked <- call, open <- ToWrite

\* Statement by statement, failures included, every create and update changes
\* the tables at most once, while it is under way, and as it asked for.
ImplementsDirectory == Directory!Spec
=============================================================================
