--------------------------- MODULE UserDirectory ---------------------------
(***************************************************************************)
(* What the back-office user API promises of the requests that write,      *)
(* without statements, locks or transactions.  A create adds an account    *)
(* and then gives it its roles, an update edits the fields it names and    *)
(* then replaces the roles: each of the two at most once, at one moment    *)
(* while the request is under way, and exactly as it asked for.  Between   *)
(* the two it may be left off.  SystemUsers.tla implements it statement by *)
(* statement.                                                              *)
(***************************************************************************)
CONSTANTS Requests,   \* each is made once
          UserIds,    \* primary keys of the users table
          Roles,      \* ids present in the roles table
          Null,       \* no such row, an omitted field, nothing asked
          SeedUsers,  \* accounts present at the start: a function to names
          SeedRoles,  \* the roles these accounts hold
          Calls,      \* what may be asked for
          Trim        \* strings.TrimSpace

VARIABLES users,      \* the users table: id -> row, or Null
          userRoles,  \* the user_roles table: id -> set of role ids
          asked,      \* what each request asked for, or Null
          account,    \* the account it works on
          open        \* which of its writes are still to come

vars == <<users, userRoles, asked, account, open>>

Init ==
    /\ users = [u \in UserIds |->
                  IF u \in DOMAIN SeedUsers
                    THEN [username |-> SeedUsers[u], status |-> 1]
                    ELSE Null]
    /\ userRoles = [u \in UserIds |->
                  IF u \in DOMAIN SeedUsers THEN SeedRoles ELSE {}]
    /\ asked = [r \in Requests |-> Null]
    /\ account = [r \in Requests |-> Null]
    /\ open = [r \in Requests |-> {}]

\* What a request asks to be written.
Writes(c) ==
    IF c.op = "create" THEN {"user", "roles"}
    ELSE {w \in {"fields", "roles"} :
            IF w = "roles" THEN c.body.roles # Null
            ELSE \/ c.body.username # Null \/ c.body.status # Null
                 \/ c.body.password = "good"}

\* The row of a new account, and of one that is edited: what the body leaves
\* out stays.
NewRow(b) == [username |-> b.username, status |-> IF b.status \in {0, Null} THEN 0 ELSE 1]
EditedRow(row, b) ==
    [username |-> IF b.username = Null THEN row.username ELSE Trim[b.username],
     status   |-> IF b.status = Null THEN row.status ELSE b.status]

Free(n, u) == \A v \in UserIds \ {u} : users[v] # Null => users[v].username # n

\* A request that is refused at once never writes.
Ask(r, c) ==
    /\ asked[r] = Null
    /\ asked' = [asked EXCEPT ![r] = c]
    /\ account' = IF c.op = "update" THEN [account EXCEPT ![r] = c.id] ELSE account
    /\ open' \in {open, [open EXCEPT ![r] = Writes(c)]}
    /\ UNCHANGED <<users, userRoles>>

\* One of its writes has happened: the others follow, or the request ends.
Written(r, w) ==
    /\ w \in open[r]
    /\ open' \in {[open EXCEPT ![r] = @ \ {w}], [open EXCEPT ![r] = {}]}

AddUser(r, u) ==
    /\ Written(r, "user")
    /\ users[u] = Null
    /\ Free(asked[r].body.username, u)
    /\ users' = [users EXCEPT ![u] = NewRow(asked[r].body)]
    /\ account' = [account EXCEPT ![r] = u]
    /\ UNCHANGED <<userRoles, asked>>

\* The fields of the row as it is now; its name is nobody else's.
EditUser(r) ==
    LET u == account[r]
        row == EditedRow(users[u], asked[r].body) IN
    /\ Written(r, "fields")
    /\ users[u] # Null
    /\ Free(row.username, u)
    /\ users' = [users EXCEPT ![u] = row]
    /\ UNCHANGED <<userRoles, asked, account>>

\* The whole assignment is replaced at once, after the other write, by the set
\* that was asked for: existing roles, at least one.
AssignRoles(r) ==
    LET roles == asked[r].body.roles IN
    /\ open[r] = {"roles"}
    /\ Written(r, "roles")
    /\ users[account[r]] # Null
    /\ roles \in (SUBSET Roles) \ {{}}
    /\ userRoles' = [userRoles EXCEPT ![account[r]] = roles]
    /\ UNCHANGED <<users, asked, account>>

\* The request ends without what is still to come.
GiveUp(r) ==
    /\ open' = [open EXCEPT ![r] = {}]
    /\ UNCHANGED <<users, userRoles, asked, account>>

Next ==
    \E r \in Requests :
        \/ \E c \in Calls : Ask(r, c)
        \/ \E u \in UserIds : AddUser(r, u)
        \/ EditUser(r) \/ AssignRoles(r) \/ GiveUp(r)

Spec == Init /\ [][Next]_vars
=============================================================================
