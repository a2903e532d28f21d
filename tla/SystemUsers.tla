---------------------------- MODULE SystemUsers ----------------------------
(***************************************************************************)
(* Creating and updating back-office accounts (internal/service/system.go) *)
(* over the users and user_roles tables (internal/repository/user.go).     *)
(*                                                                         *)
(* Every HTTP request runs in a goroutine of its own and shares only the   *)
(* database with the others, so a step of this module is one SQL statement *)
(* of one request, or one commit.  A statement may fail (connection lost,  *)
(* context cancelled, deadlock victim), and a commit whose answer is lost  *)
(* may have taken effect.                                                  *)
(*                                                                         *)
(* ReplaceUserRoles deletes and re-inserts the user_roles rows of one user *)
(* inside a transaction.  Other requests see the committed rows only, and  *)
(* two transactions on the same user's rows exclude each other: rowLock is *)
(* the lock the DELETE takes in the storage engine.                        *)
(***************************************************************************)
EXTENDS Naturals, FiniteSets

CONSTANTS
    Requests,       \* the requests being served; each is answered once
    UserIds,        \* primary keys of the users table
    Names,          \* strings that may be sent as a username
    EmptyName,      \* the empty string
    Trim,           \* strings.TrimSpace, on Names
    RoleIds,        \* role ids a request may name
    Roles,          \* those that are rows of the roles table
    Null,           \* an absent row or an omitted JSON field
    SeedUsers,      \* accounts present at the start: a function to Names
    SeedRoles,      \* the roles these accounts hold
    CreateBodies,   \* request bodies of POST  /system/users
    UpdateBodies    \* request bodies of PATCH /system/users/:id

Status == {0, 1}
Row == [username : Names, status : Status]
Body == [username : Names \cup {Null}, password : {"none", "weak", "good"},
         status : {0, 1, 2, Null}, roles : {Null} \cup SUBSET RoleIds]
Call == [op : {"create", "update"}, actor : UserIds, id : UserIds \cup {Null},
         body : Body]

\* 400, 404 and 409 of the handlers; the service's errors by name.
Rejections == {"BadRequest", "NotFound", "DuplicateUsername", "WeakPassword",
               "CannotDisableSelf", "InvalidRole"}
Replies == {"OK", "InternalError"} \cup Rejections

ASSUME ConstantsAssumption ==
    /\ EmptyName \in Names
    /\ Trim \in [Names -> Names]
    /\ \A n \in Names : Trim[Trim[n]] = Trim[n]
    /\ Roles \subseteq RoleIds
    /\ Null \notin Row /\ Null \notin Call /\ Null \notin Names
    /\ Null \notin UserIds /\ Null \notin Requests /\ Null \notin Replies
    /\ Null \notin Nat /\ \A roles \in SUBSET RoleIds : Null # roles

ASSUME SeedAssumption ==
    /\ DOMAIN SeedUsers \subseteq UserIds
    /\ SeedUsers \in [DOMAIN SeedUsers -> Names]
    /\ \A u, v \in DOMAIN SeedUsers : SeedUsers[u] = SeedUsers[v] => u = v
    /\ SeedRoles \in (SUBSET Roles) \ {{}}
    /\ CreateBodies \subseteq Body /\ UpdateBodies \subseteq Body

VARIABLES
    users,       \* committed rows of users: id -> Row, or Null
    userRoles,   \* committed rows of user_roles: id -> set of role ids
    rowLock,     \* id -> the request whose transaction locks its user_roles rows
    pc,          \* the statement each request executes next
    call,        \* what each request asked for
    target,      \* the account it works on: the path's id, or the inserted one
    deleted,     \* role rows its open transaction has deleted ...
    inserted,    \* ... and those it has inserted
    seenNames,   \* what GetUser read for "roles" ...
    seenIds,     \* ... and, by a later statement, for "role_ids"
    wrote,       \* which of its writes are committed
    reply        \* the answer: Null until the handler returns

tables   == <<users, userRoles, rowLock>>
answers  == <<seenNames, seenIds, reply>>
tx       == <<deleted, inserted>>
vars     == <<users, userRoles, rowLock, pc, call, target, deleted, inserted,
              seenNames, seenIds, wrote, reply>>

Steps == {"idle", "loadUser", "findName", "updateFields", "insertUser",
          "checkRoles", "txDelete", "txInsert", "readNames", "readIds", "done"}

TypeOK ==
    /\ users \in [UserIds -> Row \cup {Null}]
    /\ userRoles \in [UserIds -> SUBSET Roles]
    /\ rowLock \in [UserIds -> Requests \cup {Null}]
    /\ pc \in [Requests -> Steps]
    /\ call \in [Requests -> Call \cup {Null}]
    /\ target \in [Requests -> UserIds \cup {Null}]
    /\ deleted \in [Requests -> SUBSET Roles]
    /\ inserted \in [Requests -> SUBSET Roles]
    /\ seenNames \in [Requests -> SUBSET Roles]
    /\ seenIds \in [Requests -> SUBSET Roles]
    /\ wrote \in [Requests -> SUBSET {"user", "fields", "roles"}]
    /\ reply \in [Requests -> Replies \cup {Null}]

Init ==
    /\ users = [u \in UserIds |->
                  IF u \in DOMAIN SeedUsers
                    THEN [username |-> SeedUsers[u], status |-> 1]
                    ELSE Null]
    /\ userRoles = [u \in UserIds |->
                  IF u \in DOMAIN SeedUsers THEN SeedRoles ELSE {}]
    /\ rowLock = [u \in UserIds |-> Null]
    /\ pc = [r \in Requests |-> "idle"]
    /\ call = [r \in Requests |-> Null]
    /\ target = [r \in Requests |-> Null]
    /\ deleted = [r \in Requests |-> {}]
    /\ inserted = [r \in Requests |-> {}]
    /\ seenNames = [r \in Requests |-> {}]
    /\ seenIds = [r \in Requests |-> {}]
    /\ wrote = [r \in Requests |-> {}]
    /\ reply = [r \in Requests |-> Null]

-----------------------------------------------------------------------------
(* Small helpers.                                                          *)

body(r) == call[r].body
Goto(r, step) == pc' = [pc EXCEPT ![r] = step]

\* The handler maps the service's error to a status code and returns.
Answer(r, a) == Goto(r, "done") /\ reply' = [reply EXCEPT ![r] = a]

\* No row but u's has this username: what SELECT ... WHERE username = ? tells
\* the service, and what the key uk_users_username makes sure of.
NameFree(n, u) ==
    \A v \in UserIds \ {u} : users[v] # Null => users[v].username # n
KeyForgotten(n, u) == TRUE                                     \* wrong variant
UniqueKeyAllows(n, u) == NameFree(n, u)

\* The binding tags of SystemUserCreateReq.
CreateBinds(b) ==
    /\ b.username \notin {Null, EmptyName}
    /\ b.password = "good"
    /\ b.roles \notin {Null, {}}

\* An omitted status is Go's zero value, any other int8 becomes 1.
CreateStatus(b) == IF b.status \in {0, Null} THEN 0 ELSE 1

\* UpdateUser puts into `fields` what the body carries.
HasFields(b) == b.username # Null \/ b.password = "good" \/ b.status # Null

OmittedCleared(row, b) ==                                      \* wrong variant
    [username |-> IF b.username = Null THEN row.username ELSE Trim[b.username],
     status   |-> IF b.status = Null THEN 0 ELSE b.status]
UpdatedRow(row, b) ==
    [username |-> IF b.username = Null THEN row.username ELSE Trim[b.username],
     status   |-> IF b.status = Null THEN row.status ELSE b.status]

\* UpdateUser's checks after the username's, and the step that follows them.
\* An empty role list is refused, but only once the fields are written.
RolesForgotten(b) == "readNames"                               \* wrong variant
StepAfterFields(b) == IF b.roles = Null THEN "readNames" ELSE "checkRoles"

FieldChecks(r) ==
    LET b == body(r) IN
    CASE b.password = "weak" -> Answer(r, "WeakPassword")
      [] b.password # "weak" /\ b.status = 2 -> Answer(r, "BadRequest")
      [] b.password # "weak" /\ b.status = 0 /\ call[r].actor = target[r] ->
           Answer(r, "CannotDisableSelf")
      [] OTHER ->
           /\ Goto(r, IF HasFields(b) THEN "updateFields" ELSE StepAfterFields(b))
           /\ UNCHANGED reply

-----------------------------------------------------------------------------
(* A request arrives, authenticated and permitted; its body is bound.      *)

ArriveCreate(r, actor, b) ==
    /\ pc[r] = "idle"
    /\ users[actor] # Null
    /\ call' = [call EXCEPT ![r] =
                  [op |-> "create", actor |-> actor, id |-> Null, body |-> b]]
    /\ IF CreateBinds(b)
         THEN Goto(r, "findName") /\ UNCHANGED reply
         ELSE Answer(r, "BadRequest")
    /\ UNCHANGED <<tables, target, tx, seenNames, seenIds, wrote>>

ArriveUpdate(r, actor, id, b) ==
    /\ pc[r] = "idle"
    /\ users[actor] # Null
    /\ call' = [call EXCEPT ![r] =
                  [op |-> "update", actor |-> actor, id |-> id, body |-> b]]
    /\ target' = [target EXCEPT ![r] = id]
    /\ Goto(r, "loadUser")
    /\ UNCHANGED <<tables, tx, answers, wrote>>

(* SELECTs of the validation phase.                                        *)

\* FindByID, then the checks up to the next statement.
LoadUser(r) ==
    /\ pc[r] = "loadUser"
    /\ CASE users[target[r]] = Null -> Answer(r, "NotFound")
         [] users[target[r]] # Null /\ body(r).username = Null -> FieldChecks(r)
         [] users[target[r]] # Null /\ body(r).username # Null ->
              IF Trim[body(r).username] = EmptyName
                THEN Answer(r, "BadRequest")
                ELSE Goto(r, "findName") /\ UNCHANGED reply
    /\ UNCHANGED <<tables, call, target, tx, seenNames, seenIds, wrote>>

\* FindByUsername.  CreateUser looks for the name as sent, UpdateUser for the
\* trimmed one, and another row only.
FindName(r) ==
    /\ pc[r] = "findName"
    /\ IF call[r].op = "create"
         THEN IF NameFree(body(r).username, Null)
                THEN Goto(r, "checkRoles") /\ UNCHANGED reply
                ELSE Answer(r, "DuplicateUsername")
         ELSE IF NameFree(Trim[body(r).username], target[r])
                THEN FieldChecks(r)
                ELSE Answer(r, "DuplicateUsername")
    /\ UNCHANGED <<tables, call, target, tx, seenNames, seenIds, wrote>>

\* RoleIDsExist, after UpdateUser's own check of an empty list.
CheckRoles(r) ==
    /\ pc[r] = "checkRoles"
    /\ IF body(r).roles # {} /\ body(r).roles \subseteq Roles
         THEN /\ Goto(r, IF call[r].op = "create" THEN "insertUser" ELSE "txDelete")
              /\ UNCHANGED reply
         ELSE Answer(r, "InvalidRole")
    /\ UNCHANGED <<tables, call, target, tx, seenNames, seenIds, wrote>>

(* Writes.                                                                 *)

\* user.Create: one INSERT, guarded by the unique key alone.
InsertUser(r) ==
    /\ pc[r] = "insertUser"
    /\ \E u \in UserIds :
        /\ users[u] = Null
        /\ IF UniqueKeyAllows(body(r).username, u)
             THEN /\ users' = [users EXCEPT ![u] =
                        [username |-> body(r).username,
                         status |-> CreateStatus(body(r))]]
                  /\ target' = [target EXCEPT ![r] = u]
                  /\ wrote' = [wrote EXCEPT ![r] = @ \cup {"user"}]
                  /\ \/ Goto(r, "txDelete") /\ UNCHANGED reply
                     \/ Answer(r, "InternalError")       \* answer lost
             ELSE Answer(r, "InternalError") /\ UNCHANGED <<users, target, wrote>>
    /\ UNCHANGED <<userRoles, rowLock, call, tx, seenNames, seenIds>>

\* user.UpdateFields: one UPDATE of the fields the body carries.
UpdateFields(r) ==
    /\ pc[r] = "updateFields"
    /\ LET row == UpdatedRow(users[target[r]], body(r)) IN
        IF UniqueKeyAllows(row.username, target[r])
          THEN /\ users' = [users EXCEPT ![target[r]] = row]
               /\ wrote' = [wrote EXCEPT ![r] = @ \cup {"fields"}]
               /\ \/ Goto(r, StepAfterFields(body(r))) /\ UNCHANGED reply
                  \/ Answer(r, "InternalError")          \* answer lost
          ELSE Answer(r, "InternalError") /\ UNCHANGED <<users, wrote>>
    /\ UNCHANGED <<userRoles, rowLock, call, target, tx, seenNames, seenIds>>

(* ReplaceUserRoles: DELETE, one INSERT per role, COMMIT.                  *)

\* What an open transaction has done to the target's rows stays its own ...
VisibleAtOnce(r, rows) == userRoles' = [userRoles EXCEPT ![target[r]] = rows]
                                                               \* wrong variant
Isolated(r, rows) == UNCHANGED userRoles

\* The DELETE locks the target's rows and the gaps between them; whoever comes
\* second waits, or ends in Fail.
LockForgotten(r) == UNCHANGED rowLock                          \* wrong variant
Lock(r) ==
    /\ rowLock[target[r]] = Null
    /\ rowLock' = [rowLock EXCEPT ![target[r]] = r]

\* COMMIT and ROLLBACK end the transaction and give its locks back.
LockKept(r) == UNCHANGED <<rowLock, deleted, inserted>>        \* wrong variant
Unlock(r) ==
    /\ rowLock' = [u \in UserIds |-> IF rowLock[u] = r THEN Null ELSE rowLock[u]]
    /\ deleted' = [deleted EXCEPT ![r] = {}]
    /\ inserted' = [inserted EXCEPT ![r] = {}]

TxDelete(r) ==
    /\ pc[r] = "txDelete"
    /\ Lock(r)
    /\ deleted' = [deleted EXCEPT ![r] = userRoles[target[r]]]
    /\ inserted' = [inserted EXCEPT ![r] = {}]
    /\ Isolated(r, {})
    /\ Goto(r, "txInsert")
    /\ UNCHANGED <<users, call, target, answers, wrote>>

\* The ids are sorted in the code; their order makes no difference here.
TxInsert(r) ==
    /\ pc[r] = "txInsert"
    /\ \E id \in body(r).roles \ inserted[r] :
        /\ inserted' = [inserted EXCEPT ![r] = @ \cup {id}]
        /\ Isolated(r, inserted[r] \cup {id})
    /\ UNCHANGED <<users, rowLock, pc, call, target, deleted, answers, wrote>>

TxCommit(r) ==
    /\ pc[r] = "txInsert"
    /\ body(r).roles \subseteq inserted[r]
    /\ userRoles' = [userRoles EXCEPT ![target[r]] =
                        (@ \ deleted[r]) \cup inserted[r]]
    /\ Unlock(r)
    /\ wrote' = [wrote EXCEPT ![r] = @ \cup {"roles"}]
    /\ \/ Goto(r, "readNames") /\ UNCHANGED reply
       \/ Answer(r, "InternalError")                     \* answer lost
    /\ UNCHANGED <<users, call, target, seenNames, seenIds>>

(* GetUser builds the answer from separate SELECTs.  Its FindByID finds the *)
(* row, which nothing deletes.                                             *)

ReadNames(r) ==
    /\ pc[r] = "readNames"
    /\ seenNames' = [seenNames EXCEPT ![r] = userRoles[target[r]]]
    /\ Goto(r, "readIds")
    /\ UNCHANGED <<tables, call, target, tx, seenIds, wrote, reply>>

ReadIds(r) ==
    /\ pc[r] = "readIds"
    /\ seenIds' = [seenIds EXCEPT ![r] = userRoles[target[r]]]
    /\ Answer(r, "OK")
    /\ UNCHANGED <<tables, call, target, tx, seenNames, wrote>>

\* A statement fails without effect: an open transaction is rolled back, what
\* was committed before it stays, and the handler answers 500.
Fail(r) ==
    /\ pc[r] \notin {"idle", "done"}
    /\ Unlock(r)
    /\ Answer(r, "InternalError")
    /\ UNCHANGED <<users, userRoles, call, target, seenNames, seenIds, wrote>>

-----------------------------------------------------------------------------
Arrive(r) ==
    \E actor \in UserIds :
        \/ \E b \in CreateBodies : ArriveCreate(r, actor, b)
        \/ \E id \in UserIds, b \in UpdateBodies : ArriveUpdate(r, actor, id, b)

\* The next statement of a request that has arrived succeeds.
Serve(r) ==
    \/ LoadUser(r)  \/ FindName(r) \/ CheckRoles(r) \/ InsertUser(r)
    \/ UpdateFields(r) \/ TxDelete(r) \/ TxInsert(r) \/ TxCommit(r)
    \/ ReadNames(r) \/ ReadIds(r)

\* All requests are answered: nothing is left to do.
Quiet == (\A r \in Requests : pc[r] = "done") /\ UNCHANGED vars

Next == (\E r \in Requests : Arrive(r) \/ Serve(r) \/ Fail(r)) \/ Quiet

Spec == Init /\ [][Next]_vars

\* Goroutines are scheduled and a database call that can return does: a
\* request that has arrived keeps going, unless it waits for a row lock.
\* Nobody has to send a request, and no statement has to fail.
Fairness == \A r \in Requests : WF_vars(Serve(r))
FairSpec == Spec /\ Fairness

-----------------------------------------------------------------------------
(* Properties.                                                             *)

\* Two racing requests may both find a username free; still no two accounts
\* ever share it (system.go:134-140 and 189-195 check, the key decides).
UsernameUnique ==
    \A u, v \in UserIds :
        users[u] # Null /\ users[v] # Null /\ u # v
            => users[u].username # users[v].username

\* The sets of roles u has been given as a whole: at the start, or by a
\* request whose ReplaceUserRoles is committed.
Assigned(u) ==
    {IF u \in DOMAIN SeedUsers THEN SeedRoles ELSE {}}
      \cup {body(r).roles : r \in {q \in Requests :
                                     "roles" \in wrote[q] /\ target[q] = u}}

\* However requests on one account interleave and fail, its roles are exactly
\* what one of them asked for, never a mixture or a part of it; and so are the
\* two lists of every 200 answer (user.go:157-169, system.go:105-131).
NoPartialRoleSet ==
    \A u \in UserIds :
        /\ userRoles[u] \in Assigned(u)
        /\ \A r \in Requests : target[r] = u /\ reply[r] = "OK" =>
              seenNames[r] \in Assigned(u) /\ seenIds[r] \in Assigned(u)

\* CreateUser inserts the account and assigns its roles in two transactions.
\* An account without roles is always the work of a create that has not
\* answered 200: no update and no finished create leaves one behind.
RolelessOnlyIfCreateUnfinished ==
    \A u \in UserIds : users[u] # Null /\ userRoles[u] = {} =>
        \E r \in Requests :
            /\ "user" \in wrote[r] /\ target[r] = u
            /\ reply[r] # "OK"

Requested(c) ==
    IF c.op = "create" THEN {"user", "roles"}
    ELSE (IF HasFields(c.body) THEN {"fields"} ELSE {})
           \cup (IF c.body.roles = Null THEN {} ELSE {"roles"})

\* A 200 means that everything asked for is committed, a 4xx that nothing is,
\* with one exception in the code: UpdateUser looks at role_ids after it has
\* written the other fields, so a 400 for a role leaves these changed
\* (system.go:213-229).
ReplyMatchesWrites ==
    \A r \in Requests :
        /\ reply[r] = "OK" => wrote[r] = Requested(call[r])
        /\ reply[r] \in Rejections =>
              \/ wrote[r] = {}
              \/ /\ call[r].op = "update" /\ reply[r] = "InvalidRole"
                 /\ wrote[r] = {"fields"}

\* The requests there are, and which of its writes each has still to make.
Asks ==
    [op : {"create"}, actor : UserIds, id : {Null}, body : CreateBodies]
      \cup [op : {"update"}, actor : UserIds, id : UserIds, body : UpdateBodies]
Left(r) == IF pc[r] \in {"idle", "done"} THEN {} ELSE Requested(call[r]) \ wrote[r]
ToWrite == [r \in Requests |-> Left(r)]
Directory == INSTANCE UserDirectory
               WITH Calls <- Asks, asked <- call, account <- target, open <- ToWrite

\* Statement by statement, failures included, every create and update makes each
\* of its writes at most once, while it is under way, in their order, as a whole
\* and as it asked for (system.go:134-167 and 189-229, user.go:157-169).
ImplementsDirectory == Directory!Spec

\* No request waits for ever: the row locks of ReplaceUserRoles are given back
\* however its transaction ends.
EventuallyAnswered ==
    \A r \in Requests : pc[r] # "idle" ~> pc[r] = "done"

=============================================================================
