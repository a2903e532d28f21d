------------------------------ MODULE AdminApi ------------------------------
(***************************************************************************)
(* The way of a request through the HTTP layer: recovery, authentication,  *)
(* audit, permission check and handler (internal/router, middleware), the  *)
(* detached goroutine that stores the operation log row (service/audit.go),*)
(* and the orderly shutdown of the process (cmd/server/main.go).           *)
(*                                                                         *)
(* What the handlers do to the tables is the business of other modules;    *)
(* here a handler succeeds, refuses, fails or panics, and has written or   *)
(* not.  The grants it is checked against may change at any time.          *)
(***************************************************************************)
EXTENDS Naturals, FiniteSets

CONSTANTS
    Requests,   \* each is sent once
    Users,      \* user ids that tokens carry
    Offered,    \* the routes requests are sent to
    Grantable,  \* the permissions that are granted and taken away
    Null

\* Every route of router.go by the group it is registered in.
Public    == {"health", "captcha", "login", "passkeyBegin", "passkeyFinish"}
TokenOnly == {"me", "passkeyList", "passkeyDelete", "registerBegin",
              "registerFinish", "uploads"}
Permission == [
    dashboard |-> "dashboard:view",
    logList |-> "system:audit:read", logStats |-> "system:audit:read",
    logExport |-> "system:audit:read",
    userList |-> "system:user:read", userGet |-> "system:user:read",
    userCreate |-> "system:user:write", userUpdate |-> "system:user:write",
    roleList |-> "system:role:read", roleGet |-> "system:role:read",
    permissionList |-> "system:role:read",
    roleCreate |-> "system:role:write", roleUpdate |-> "system:role:write",
    frontList |-> "front:user:read", frontGet |-> "front:user:read",
    frontCreate |-> "front:user:write", frontUpdate |-> "front:user:write"]
Guarded == DOMAIN Permission
Routes  == Public \cup TokenOnly \cup Guarded
Perms   == {Permission[route] : route \in Guarded}

\* POST, PATCH and DELETE; the others are GET.
Posts == {"login", "passkeyBegin", "passkeyFinish", "registerBegin",
          "registerFinish", "userCreate", "roleCreate", "frontCreate"}
Patches == {"userUpdate", "roleUpdate", "frontUpdate"}
Deletes == {"passkeyDelete"}
Writes == Posts \cup Patches \cup Deletes

\* The groups of handler/system.go and handler/front_user.go use
\* AuditAuthenticatedWrites, the others do not.
UsesAudit(route) == route \in Guarded \ {"dashboard"}

ASSUME RouteAssumption ==
    /\ Offered \subseteq Routes /\ Grantable \subseteq Perms
    /\ Null \notin Users /\ Null \notin Routes

VARIABLES
    holds,      \* user_roles joined with role_permissions: user -> permissions
    phase,      \* of the process: "serving", "draining", "stopped"
    pc,         \* where each request is
    route,      \* what it was sent to
    user,       \* the user its token is for, Null without a valid token
    reply,      \* the answer the client gets
    wrote,      \* whether the handler changed a table
    panicked,   \* whether it panicked
    job,        \* the goroutine that stores its operation log row
    record,     \* the row: who, what, and the status code
    held        \* history: the user held the permission since the request came

request == <<route, user>>
outcome == <<reply, wrote, panicked>>
auditing == <<job, record>>
vars == <<holds, phase, pc, route, user, reply, wrote, panicked, job, record,
          held>>

Answers == {"OK", "Refused", "InternalError", "Unauthorized", "Forbidden"}
Steps == {"idle", "auth", "permission", "handler", "after", "done", "cut"}
Jobs == {"none", "running", "stored", "failed", "lost"}
Record == [user : Users, route : Routes, status : Answers]

TypeOK ==
    /\ holds \in [Users -> SUBSET Perms]
    /\ phase \in {"serving", "draining", "stopped"}
    /\ pc \in [Requests -> Steps]
    /\ route \in [Requests -> Routes \cup {Null}]
    /\ user \in [Requests -> Users \cup {Null}]
    /\ reply \in [Requests -> Answers \cup {Null}]
    /\ wrote \in [Requests -> BOOLEAN] /\ panicked \in [Requests -> BOOLEAN]
    /\ job \in [Requests -> Jobs]
    /\ record \in [Requests -> Record \cup {Null}]
    /\ held \in [Requests -> BOOLEAN]

Init ==
    /\ holds \in [Users -> SUBSET Grantable]
    /\ phase = "serving"
    /\ pc = [r \in Requests |-> "idle"]
    /\ route = [r \in Requests |-> Null]
    /\ user = [r \in Requests |-> Null]
    /\ reply = [r \in Requests |-> Null]
    /\ wrote = [r \in Requests |-> FALSE]
    /\ panicked = [r \in Requests |-> FALSE]
    /\ job = [r \in Requests |-> "none"]
    /\ record = [r \in Requests |-> Null]
    /\ held = [r \in Requests |-> FALSE]

-----------------------------------------------------------------------------
Goto(r, step) == pc' = [pc EXCEPT ![r] = step]
Reply(r, a) == reply' = [reply EXCEPT ![r] = a]

Holding(r, h) ==
    IF route[r] \in Guarded /\ user[r] # Null
      THEN Permission[route[r]] \in h[user[r]] ELSE FALSE

\* A request is accepted until the process is told to stop.
Arrive(r, to, u) ==
    /\ phase = "serving" /\ pc[r] = "idle"
    /\ route' = [route EXCEPT ![r] = to]
    /\ user' = [user EXCEPT ![r] = u]
    /\ held' = [held EXCEPT ![r] =
          IF to \in Guarded /\ u # Null THEN Permission[to] \in holds[u] ELSE FALSE]
    /\ Goto(r, IF to \in Public THEN "handler" ELSE "auth")
    /\ UNCHANGED <<holds, phase, outcome, auditing>>

\* RequireAuth parses the token; it asks no table.
RequireAuth(r) ==
    /\ phase # "stopped" /\ pc[r] = "auth"
    /\ IF user[r] = Null
         THEN Reply(r, "Unauthorized") /\ Goto(r, "done")
         ELSE /\ Goto(r, IF route[r] \in Guarded THEN "permission" ELSE "handler")
              /\ UNCHANGED reply
    /\ UNCHANGED <<holds, phase, request, wrote, panicked, auditing, held>>

\* The audit middleware was entered before the permission check, so it sees
\* refused requests too.
AfterHandler(r) == IF UsesAudit(route[r]) THEN "after" ELSE "done"

\* RequirePermission counts the user's grants in one SELECT and aborts the chain
\* when there is none.
NotAborted(r) == Goto(r, "handler")                            \* wrong variant
AuditedInside(r) == Goto(r, "done")                            \* wrong variant
Abort(r) == Goto(r, AfterHandler(r))

RequirePermission(r) ==
    /\ phase # "stopped" /\ pc[r] = "permission"
    /\ \/ Holding(r, holds) /\ Goto(r, "handler") /\ UNCHANGED reply
       \/ ~Holding(r, holds) /\ Reply(r, "Forbidden") /\ Abort(r)
       \/ Reply(r, "InternalError") /\ Goto(r, AfterHandler(r))  \* query failed
    /\ UNCHANGED <<holds, phase, request, wrote, panicked, auditing, held>>

\* The goroutine RecordDetached starts.
Detach(r, u, status) ==
    /\ job' = [job EXCEPT ![r] = "running"]
    /\ record' = [record EXCEPT ![r] =
                    [user |-> u, route |-> route[r], status |-> status]]

\* The BEGIN handlers of the passkeys only write to Redis.
AltersTables == Writes \ {"passkeyBegin", "registerBegin"}

\* The updates of accounts need not be sent any field, and a password login goes
\* on when it cannot set last_login_at.
OkWithoutWrite == {"login", "userUpdate", "frontUpdate"}

\* UpdateUser looks at the roles after it has written the fields, FinishLogin
\* looks at the status again after it has written the credential.
RefusesAfterWrite == {"userUpdate", "passkeyFinish"}

\* A handler that fails may have written before.  Both logins record a success
\* themselves, under the user that logged in and the path of the password login.
Handler(r) ==
    /\ phase # "stopped" /\ pc[r] = "handler"
    /\ \E a \in {"OK", "Refused", "InternalError"}, w \in BOOLEAN :
        /\ w => route[r] \in AltersTables
        /\ a = "OK" /\ ~w => route[r] \notin AltersTables \ OkWithoutWrite
        /\ a = "Refused" /\ w => route[r] \in RefusesAfterWrite
        /\ Reply(r, a)
        /\ wrote' = [wrote EXCEPT ![r] = w]
        /\ IF route[r] \in {"login", "passkeyFinish"} /\ a = "OK"
             THEN /\ job' = [job EXCEPT ![r] = "running"]
                  /\ \E u \in Users : record' = [record EXCEPT ![r] =
                        [user |-> u, route |-> "login", status |-> "OK"]]
             ELSE UNCHANGED auditing
        /\ Goto(r, AfterHandler(r))
    /\ UNCHANGED <<holds, phase, request, panicked, held>>

\* A panic unwinds the middlewares, the audit's second half included, up to
\* ZapRecovery, which answers 500.
Panic(r) ==
    /\ phase # "stopped" /\ pc[r] = "handler"
    /\ Reply(r, "InternalError")
    /\ panicked' = [panicked EXCEPT ![r] = TRUE]
    /\ \E w \in BOOLEAN : /\ w => route[r] \in AltersTables
                          /\ wrote' = [wrote EXCEPT ![r] = w]
    /\ Goto(r, "done")
    /\ UNCHANGED <<holds, phase, request, auditing, held>>

\* AuditAuthenticatedWrites after c.Next: GET is not recorded.
Recorded(to) == to \in Writes

\* c.Writer.Status() is 200 until somebody has written another one.
StatusTooEarly(r) == "OK"                                      \* wrong variant
WriterStatus(r) == reply[r]

Audit(r) ==
    /\ phase # "stopped" /\ pc[r] = "after"
    /\ IF user[r] # Null /\ Recorded(route[r])
         THEN Detach(r, user[r], WriterStatus(r))
         ELSE UNCHANGED auditing
    /\ Goto(r, "done")
    /\ UNCHANGED <<holds, phase, request, outcome, held>>

\* One INSERT, which may fail or run into auditInsertTimeout; either is only
\* written to the log file.
Insert(r) ==
    /\ phase # "stopped" /\ job[r] = "running"
    /\ job' = [job EXCEPT ![r] = "stored"]
    /\ UNCHANGED <<holds, phase, pc, request, outcome, record, held>>

InsertFails(r) ==
    /\ phase # "stopped" /\ job[r] = "running"
    /\ job' = [job EXCEPT ![r] = "failed"]
    /\ UNCHANGED <<holds, phase, pc, request, outcome, record, held>>

\* An administrator changes somebody's roles or a role's permissions.
ChangeGrants(u, perms) ==
    /\ phase # "stopped"
    /\ holds' = [holds EXCEPT ![u] = perms]
    /\ held' = [r \in Requests |->
                  held[r] \/ (pc[r] \notin {"idle", "done"} /\ Holding(r, holds'))]
    /\ UNCHANGED <<phase, pc, request, outcome, auditing>>

(* Shutdown.                                                               *)

\* SIGINT or SIGTERM: the listener is closed.
Signal ==
    /\ phase = "serving"
    /\ phase' = "draining"
    /\ UNCHANGED <<holds, pc, request, outcome, auditing, held>>

InFlight == {r \in Requests : pc[r] \notin {"idle", "done", "cut"}}

\* main returns and the process exits, with whatever is still running.
Exit ==
    /\ phase' = "stopped"
    /\ pc' = [r \in Requests |-> IF r \in InFlight THEN "cut" ELSE pc[r]]
    /\ job' = [r \in Requests |-> IF job[r] = "running" THEN "lost" ELSE job[r]]
    /\ UNCHANGED <<holds, request, outcome, record, held>>

\* Shutdown waits for the connections to become idle.  It knows nothing of the
\* detached goroutines.
Drained == InFlight = {}

ShutdownDone == phase = "draining" /\ Drained /\ Exit

\* ... and gives up after ten seconds.
ShutdownTimeout == phase = "draining" /\ ~Drained /\ Exit

-----------------------------------------------------------------------------
Serve(r) ==
    \/ RequireAuth(r) \/ RequirePermission(r) \/ Handler(r) \/ Panic(r) \/ Audit(r)
    \/ Insert(r) \/ InsertFails(r)

Next ==
    \/ \E r \in Requests :
        \/ \E to \in Offered, u \in Users \cup {Null} : Arrive(r, to, u)
        \/ Serve(r)
    \/ \E u \in Users, perms \in SUBSET Grantable : ChangeGrants(u, perms)
    \/ Signal \/ ShutdownDone \/ ShutdownTimeout

Spec == Init /\ [][Next]_vars

-----------------------------------------------------------------------------
(* Properties.                                                             *)

\* A token alone writes nothing in the guarded groups: whoever wrote there held
\* the route's permission at some moment since the request came, however the
\* grants changed meanwhile (permission.go:15-37).
WriterWasPermitted ==
    \A r \in Requests : wrote[r] /\ route[r] \in Guarded => held[r]

\* A stored row tells who did what with the outcome the client was told
\* (middleware/audit.go:23-63); refusals are told as refusals.
RowTellsOutcome ==
    \A r \in Requests : job[r] = "stored" =>
        /\ record[r].status = reply[r]
        /\ route[r] \notin {"login", "passkeyFinish"} =>
              record[r].user = user[r] /\ record[r].route = route[r]

\* In the audited groups every answered attempt of a signed-in user to write has
\* its row, refused attempts included, also those the permission check aborts
\* before a handler runs (middleware/audit.go:23-63 with the order of
\* handler/system.go:33-43): it is stored or being stored.  The exceptions are the
\* code's own: the handler panicked (audit.go has no defer), the INSERT failed or
\* ran out of time (service/audit.go:97 only logs that), or the process ended
\* while the goroutine was at work (main.go waits for requests only).
AuditedWriteRecorded ==
    \A r \in Requests :
        /\ UsesAudit(route[r]) /\ route[r] \in Writes /\ user[r] # Null
        /\ pc[r] = "done" /\ ~panicked[r]
        => \/ job[r] \in {"running", "stored", "failed"}
           \/ job[r] = "lost" /\ phase = "stopped"

\* What AuditAuthenticatedWrites says of itself: it records every write that
\* needs authentication, when it is done (middleware/audit.go:21).
EveryAuthedWriteRecorded ==
    \A r \in Requests :
        wrote[r] /\ pc[r] = "done" /\ route[r] \notin Public /\ ~panicked[r]
            => job[r] # "none"

=============================================================================
