----------------------------- MODULE FrontUsers -----------------------------
(***************************************************************************)
(* Creating and updating front-office users (internal/service/front_user.go*)
(* over internal/repository/front_user.go).  ensureUnique looks up the     *)
(* username, the mobile and the email in statements of their own before    *)
(* the one that writes; only the username is also a unique key of the      *)
(* table (migrations/000003).                                              *)
(*                                                                         *)
(* A step is one SQL statement of one request.  The nickname, which nothing*)
(* looks at, is left out.                                                  *)
(***************************************************************************)
EXTENDS Naturals

CONSTANTS
    Requests,       \* the requests being served; each is answered once
    UserIds,        \* primary keys of front_users, numbers given in increasing order
    Texts,          \* strings that may be sent as username, mobile or email
    Empty,          \* the empty string
    Trim,           \* strings.TrimSpace, on Texts
    Null,           \* an absent row or an omitted JSON field
    SeedUsers,      \* users present at the start: a function to rows
    CreateBodies,   \* request bodies of POST  /front/users
    UpdateBodies    \* request bodies of PATCH /front/users/:id

Contacts == {"mobile", "email"}
Keyed == {"username"} \cup Contacts
Fields == Keyed \cup {"status"}
Row == [username : Texts \ {Empty}, mobile : Texts, email : Texts, status : {0, 1}]
Body == [username : Texts \cup {Null}, mobile : Texts \cup {Null},
         email : Texts \cup {Null}, status : {0, 1, 2, Null}]
Call == [op : {"create", "update"}, id : UserIds \cup {Null}, body : Body]

\* 400, 404 and 409 of the handlers; the service's errors by name.
Rejections == {"BadRequest", "NotFound", "Duplicate"}
Replies == {"OK", "InternalError"} \cup Rejections

ASSUME IdAssumption == UserIds \subseteq Nat

ASSUME TextAssumption ==
    /\ Empty \in Texts /\ Trim \in [Texts -> Texts]
    /\ \A t \in Texts : Trim[Trim[t]] = Trim[t]
    /\ Null \notin Texts /\ Null \notin Row /\ Null \notin Call
    /\ Null \notin UserIds /\ Null \notin Replies /\ Null \notin {0, 1, 2}

ASSUME SeedAssumption ==
    /\ DOMAIN SeedUsers \subseteq UserIds
    /\ SeedUsers \in [DOMAIN SeedUsers -> Row]
    /\ \A u, v \in DOMAIN SeedUsers : \A f \in Keyed :
          u # v /\ SeedUsers[u][f] = SeedUsers[v][f] => SeedUsers[u][f] = Empty
    /\ CreateBodies \subseteq Body /\ UpdateBodies \subseteq Body

VARIABLES
    users,      \* rows of front_users: id -> Row, or Null
    pc,         \* the statement each request executes next
    call,       \* what each request asked for
    target,     \* the user it works on: the path's id, or the inserted one
    want,       \* the username, mobile and email ensureUnique looks for
    wrote,      \* its write is committed
    reply,      \* the answer: Null until the handler returns
    overtaken   \* history: somebody else wrote between its checks and its write

vars == <<users, pc, call, target, want, wrote, reply, overtaken>>

Steps == {"idle", "load", "username", "mobile", "email", "write", "reload", "done"}

TypeOK ==
    /\ users \in [UserIds -> Row \cup {Null}]
    /\ pc \in [Requests -> Steps]
    /\ call \in [Requests -> Call \cup {Null}]
    /\ target \in [Requests -> UserIds \cup {Null}]
    /\ want \in [Requests -> [Keyed -> Texts]]
    /\ wrote \in [Requests -> BOOLEAN]
    /\ reply \in [Requests -> Replies \cup {Null}]
    /\ overtaken \in [Requests -> BOOLEAN]

Init ==
    /\ users = [u \in UserIds |->
                  IF u \in DOMAIN SeedUsers THEN SeedUsers[u] ELSE Null]
    /\ pc = [r \in Requests |-> "idle"]
    /\ call = [r \in Requests |-> Null]
    /\ target = [r \in Requests |-> Null]
    /\ want = [r \in Requests |-> [f \in Keyed |-> Empty]]
    /\ wrote = [r \in Requests |-> FALSE]
    /\ reply = [r \in Requests |-> Null]
    /\ overtaken = [r \in Requests |-> FALSE]

-----------------------------------------------------------------------------
body(r) == call[r].body
Goto(r, step) == pc' = [pc EXCEPT ![r] = step]
Continue(r, step) == Goto(r, step) /\ UNCHANGED reply
Answer(r, a) == Goto(r, "done") /\ reply' = [reply EXCEPT ![r] = a]

Holders(f, t) == {v \in UserIds : IF users[v] = Null THEN FALSE ELSE users[v][f] = t}
Taken(f, t, u) == Holders(f, t) \ {u} # {}

\* The key uk_front_users_username.
NoKey(t, u) == TRUE                                            \* wrong variant
UniqueKeyAllows(t, u) == ~Taken("username", t, u)

\* A text the body carries is trimmed; an omitted one keeps the old value.
Sent(b, f, old) == IF b[f] = Null THEN old ELSE Trim[b[f]]

CreateStatus(b) == IF b.status \in {0, Null} THEN 0 ELSE 1
NewRow(b) ==
    [username |-> Sent(b, "username", Empty), mobile |-> Sent(b, "mobile", Empty),
     email |-> Sent(b, "email", Empty), status |-> CreateStatus(b)]

\* UpdateFields sets the columns the body carries and no others.
HasTexts(b) == \E f \in Keyed : b[f] # Null                   \* wrong variant
HasFields(b) == \E f \in Fields : b[f] # Null
WholeRow(r, old) ==                                            \* wrong variant
    [username |-> want[r]["username"], mobile |-> want[r]["mobile"],
     email |-> want[r]["email"],
     status |-> IF body(r).status = Null THEN old.status ELSE body(r).status]
UpdatedRow(r, old) ==
    [username |-> Sent(body(r), "username", old.username),
     mobile   |-> Sent(body(r), "mobile", old.mobile),
     email    |-> Sent(body(r), "email", old.email),
     status   |-> IF body(r).status = Null THEN old.status ELSE body(r).status]

\* ensureUnique skips empty values; with nothing to write there is no UPDATE.
AfterChecks(r) ==
    IF call[r].op = "create" \/ HasFields(body(r)) THEN "write" ELSE "reload"
StepAfter(r, f) ==
    IF f = "username" /\ want[r]["mobile"] # Empty THEN "mobile"
    ELSE IF f # "email" /\ want[r]["email"] # Empty THEN "email"
    ELSE AfterChecks(r)

-----------------------------------------------------------------------------
(* A request arrives, authenticated and permitted; its body is bound.      *)

\* The binding tags want a username; an all-blank one is refused by Create.
ArriveCreate(r, b) ==
    /\ pc[r] = "idle"
    /\ call' = [call EXCEPT ![r] = [op |-> "create", id |-> Null, body |-> b]]
    /\ want' = [want EXCEPT ![r] = [f \in Keyed |-> Sent(b, f, Empty)]]
    /\ IF b.username \notin {Null, Empty} /\ Sent(b, "username", Empty) # Empty
         THEN Continue(r, "username")
         ELSE Answer(r, "BadRequest")
    /\ UNCHANGED <<users, target, wrote, overtaken>>

ArriveUpdate(r, id, b) ==
    /\ pc[r] = "idle"
    /\ call' = [call EXCEPT ![r] = [op |-> "update", id |-> id, body |-> b]]
    /\ target' = [target EXCEPT ![r] = id]
    /\ Continue(r, "load")
    /\ UNCHANGED <<users, want, wrote, overtaken>>

\* FindByID and the checks of the body.  What the body omits is looked for with
\* the value the row has now.
Load(r) ==
    /\ pc[r] = "load"
    /\ LET row == users[target[r]]
           b   == body(r) IN
        CASE row = Null -> Answer(r, "NotFound") /\ UNCHANGED want
          [] row # Null /\ (b.status = 2 \/ Sent(b, "username", row.username) = Empty) ->
               Answer(r, "BadRequest") /\ UNCHANGED want
          [] OTHER ->
               /\ want' = [want EXCEPT ![r] = [f \in Keyed |-> Sent(b, f, row[f])]]
               /\ Continue(r, "username")
    /\ UNCHANGED <<users, call, target, wrote, overtaken>>

\* One lookup of ensureUnique: findOne gets the first row that holds the value,
\* and there is a conflict when there is one and it is another user's.
UsernameOnly(f, t, u) == f = "username" /\ Taken(f, t, u)      \* wrong variant
AnyHolder(f, t, u) == Taken(f, t, u)                           \* wrong variant
Conflict(f, t, u) == \E v \in Holders(f, t) : u \notin Holders(f, t) \/ v < u

Find(r, f) ==
    /\ pc[r] = f
    /\ IF Conflict(f, want[r][f], target[r])
         THEN Answer(r, "Duplicate")
         ELSE Continue(r, StepAfter(r, f))
    /\ UNCHANGED <<users, call, target, want, wrote, overtaken>>

\* The statements that write note for the others that their checks are old.
Overtake(r) ==
    overtaken' = [q \in Requests |->
        overtaken[q] \/ (q # r /\ pc[q] \in Keyed \cup {"write"})]

Written(r) ==
    /\ wrote' = [wrote EXCEPT ![r] = TRUE]
    /\ Overtake(r)
    /\ \/ Continue(r, "reload")
       \/ Answer(r, "InternalError")                     \* answer lost

KeyError(r) ==
    Answer(r, "InternalError") /\ UNCHANGED <<users, target, wrote, overtaken>>

Insert(r) ==
    /\ pc[r] = "write" /\ call[r].op = "create"
    /\ \E u \in UserIds :
        /\ \A v \in UserIds : users[v] # Null => v < u
        /\ IF UniqueKeyAllows(want[r]["username"], u)
             THEN /\ users' = [users EXCEPT ![u] = NewRow(body(r))]
                  /\ target' = [target EXCEPT ![r] = u]
                  /\ Written(r)
             ELSE KeyError(r)
    /\ UNCHANGED <<call, want>>

UpdateFields(r) ==
    /\ pc[r] = "write" /\ call[r].op = "update"
    /\ LET row == UpdatedRow(r, users[target[r]]) IN
        IF UniqueKeyAllows(row.username, target[r])
          THEN /\ users' = [users EXCEPT ![target[r]] = row]
               /\ Written(r)
               /\ UNCHANGED target
          ELSE KeyError(r)
    /\ UNCHANGED <<call, want>>

\* Get reads the row for the answer.
Reload(r) ==
    /\ pc[r] = "reload"
    /\ Answer(r, "OK")
    /\ UNCHANGED <<users, call, target, want, wrote, overtaken>>

\* A statement fails without effect.
Fail(r) ==
    /\ pc[r] \notin {"idle", "done"}
    /\ Answer(r, "InternalError")
    /\ UNCHANGED <<users, call, target, want, wrote, overtaken>>

-----------------------------------------------------------------------------
Next ==
    \E r \in Requests :
        \/ \E b \in CreateBodies : ArriveCreate(r, b)
        \/ \E id \in UserIds, b \in UpdateBodies : ArriveUpdate(r, id, b)
        \/ Load(r)
        \/ \E f \in Keyed : Find(r, f)
        \/ Insert(r) \/ UpdateFields(r) \/ Reload(r) \/ Fail(r)

Spec == Init /\ [][Next]_vars

-----------------------------------------------------------------------------
(* Properties.                                                             *)

\* No two users ever share a username, however their requests race: the key
\* decides where ensureUnique was too early (front_user.go:158-167).
UsernameUnique ==
    \A u, v \in UserIds :
        users[u] # Null /\ users[v] # Null /\ u # v
            => users[u].username # users[v].username

Share(f, u, v) ==
    /\ users[u] # Null /\ users[v] # Null /\ u # v
    /\ users[u][f] = users[v][f] /\ users[u][f] # Empty

\* ErrFrontUserDuplicateMobile and ErrFrontUserDuplicateEmail say that a mobile
\* and an email belong to one user (front_user.go:15-16).
ContactUnique == \A f \in Contacts : \A u, v \in UserIds : ~Share(f, u, v)

\* What the lookups do achieve: two users come to share a mobile or an email
\* only when another request wrote between the checks and the write of the one
\* that makes it so (front_user.go:149-152).
SharedOnlyIfOvertaken ==
    [][\A f \in Contacts : \A u, v \in UserIds :
          Share(f, u, v)' => \/ Share(f, u, v)
                             \/ \E r \in Requests : /\ pc[r] = "write"
                                                    /\ pc'[r] # "write"
                                                    /\ overtaken[r]]_vars

\* Once a contact is shared, the lookups spare the user of the smallest id: a
\* request is refused for a value it does not carry only when its user shares
\* the value with one of a smaller id, or no longer has it (front_user.go:158-187,
\* repository 154-164).
RefusedForAReason ==
    [][\A r \in Requests, f \in Keyed :
          pc[r] = f /\ reply[r] = Null /\ reply'[r] = "Duplicate" =>
              \/ call[r].op = "create" \/ body(r)[f] # Null
              \/ users[target[r]][f] # want[r][f]
              \/ \E v \in UserIds : v < target[r] /\ Share(f, v, target[r])]_vars

\* Updates of different fields of one user do not undo each other: a column of
\* an existing row changes only by a request that carries it, to the value it
\* carries (front_user.go:124-148, repository 147-152).
OnlySentFieldsChange ==
    [][\A u \in UserIds, f \in Fields :
          users[u] # Null /\ users'[u][f] # users[u][f] =>
            \E r \in Requests :
              /\ pc[r] = "write" /\ target[r] = u
              /\ body(r)[f] # Null
              /\ users'[u][f] = IF f = "status" THEN body(r)[f]
                                 ELSE Trim[body(r)[f]]]_vars

\* A 4xx answer has changed nothing, and a 200 has written what there was to
\* write (front_user.go:85-156).
ReplyMatchesWrites ==
    \A r \in Requests :
        /\ reply[r] \in Rejections => ~wrote[r]
        /\ reply[r] = "OK" =>
             (wrote[r] <=> \/ call[r].op = "create"
                           \/ \E f \in Fields : body(r)[f] # Null)

=============================================================================
