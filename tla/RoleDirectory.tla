---------------------------- MODULE RoleDirectory ----------------------------
(***************************************************************************)
(* What the role API promises of the requests that write, without          *)
(* statements, locks or transactions: each of them changes the directory   *)
(* at most once, at one moment while it is under way, and then exactly as  *)
(* it asked for.  A role and its first permissions come together, and a    *)
(* set of permissions is replaced by another as a whole.  SystemRoles.tla  *)
(* implements it statement by statement.                                   *)
(***************************************************************************)
CONSTANTS Requests,       \* each is made once
          Users,          \* accounts that hold roles
          RoleIds,        \* primary keys of the roles table
          Perms,          \* codes of the permissions table
          Null,           \* no role, nothing asked
          SeedRoles,      \* the roles at the start: a function to their codes
          SeedPerms,      \* what they grant
          SeedUserRoles,  \* who holds them
          Calls,          \* what may be asked for
          Empty,          \* the empty string
          Trim            \* strings.TrimSpace

VARIABLES roles,      \* id -> code, or Null
          rolePerms,  \* id -> the permissions it grants
          userRoles,  \* account -> the roles it holds
          asked,      \* what each request asked for, or Null
          open        \* the requests that have still to write

vars == <<roles, rolePerms, userRoles, asked, open>>

Init ==
    /\ roles = [i \in RoleIds |-> IF i \in DOMAIN SeedRoles THEN SeedRoles[i] ELSE Null]
    /\ rolePerms = [i \in RoleIds |-> IF i \in DOMAIN SeedRoles THEN SeedPerms[i] ELSE {}]
    /\ userRoles = SeedUserRoles
    /\ asked = [r \in Requests |-> Null]
    /\ open = {}

\* The code a create asks for, the permissions a create or an update asks for.
Code(c) == Trim[c.code]
Wanted(c) == {Trim[p] : p \in c.perms} \ {Empty}

\* A request that reads, or that is refused at once, never writes.
Ask(r, c) ==
    /\ asked[r] = Null
    /\ asked' = [asked EXCEPT ![r] = c]
    /\ open' = open \/ (c.op \in {"create", "update"} /\ open' = open \cup {r})
    /\ UNCHANGED <<roles, rolePerms, userRoles>>

\* The write happens, and there is no second one ...
Grant(r, i) ==
    /\ Wanted(asked[r]) \subseteq Perms
    /\ rolePerms' = [rolePerms EXCEPT ![i] = Wanted(asked[r])]
    /\ open' = open \ {r}
    /\ UNCHANGED <<userRoles, asked>>

AddRole(r, i) ==
    /\ r \in open /\ asked[r].op = "create"
    /\ roles[i] = Null
    /\ \A j \in RoleIds : roles[j] # Code(asked[r])
    /\ roles' = [roles EXCEPT ![i] = Code(asked[r])]
    /\ Grant(r, i)

SetPermissions(r, i) ==
    /\ r \in open /\ asked[r].op = "update" /\ asked[r].id = i
    /\ roles[i] # Null
    /\ Grant(r, i)
    /\ UNCHANGED roles

\* ... or the request ends without one.
GiveUp(r) ==
    /\ r \in open
    /\ open' = open \ {r}
    /\ UNCHANGED <<roles, rolePerms, userRoles, asked>>

AssignRoles(u, ids) ==
    /\ \A i \in ids : roles[i] # Null
    /\ userRoles' = [userRoles EXCEPT ![u] = ids]
    /\ UNCHANGED <<roles, rolePerms, asked, open>>

Next ==
    \/ \E r \in Requests :
          \/ \E c \in Calls : Ask(r, c)
          \/ \E i \in RoleIds : AddRole(r, i) \/ SetPermissions(r, i)
          \/ GiveUp(r)
    \/ \E u \in Users, ids \in (SUBSET RoleIds) \ {{}} : AssignRoles(u, ids)

Spec == Init /\ [][Next]_vars
=============================================================================
