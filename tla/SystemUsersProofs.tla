------------------------- MODULE SystemUsersProofs -------------------------
(***************************************************************************)
(* Proofs about SystemUsers.tla for any number of requests, accounts,      *)
(* names and roles.                                                        *)
(*                                                                         *)
(* The argument rests on what a request knows when it reaches a statement  *)
(* (Phase): its body passed the checks on the way, the account it works on *)
(* exists, and an open transaction holds the lock of the rows it has       *)
(* deleted, so nobody else has changed them since.                         *)
(***************************************************************************)
EXTENDS SystemUsers, TLAPS

Exists(u) == u \in UserIds /\ users[u] # Null

\* What a request has established before the statement pc[r].
Phase(r) ==
    /\ pc[r] = "idle" => wrote[r] = {} /\ reply[r] = Null
    /\ pc[r] # "idle" => call[r] \in Call
    /\ pc[r] # "done" => reply[r] = Null
    /\ pc[r] = "loadUser" => call[r].op = "update" /\ target[r] \in UserIds
    /\ pc[r] \in {"findName", "checkRoles", "insertUser"} /\ call[r].op = "create"
         => CreateBinds(body(r))
    /\ pc[r] = "findName" => body(r).username # Null
    /\ pc[r] \in {"findName", "checkRoles"} /\ call[r].op = "update"
         => Exists(target[r])
    /\ pc[r] \in {"updateFields", "txDelete", "txInsert", "readNames", "readIds"}
         => Exists(target[r])
    /\ pc[r] = "updateFields" => call[r].op = "update" /\ body(r).status # 2
    /\ pc[r] = "checkRoles" => body(r).roles # Null
    /\ pc[r] = "insertUser" => call[r].op = "create"
    /\ pc[r] \in {"insertUser", "txDelete", "txInsert"}
         => body(r).roles \in (SUBSET Roles) \ {{}}
    /\ pc[r] = "txInsert" =>
         /\ rowLock[target[r]] = r
         /\ deleted[r] = userRoles[target[r]]
         /\ inserted[r] \subseteq body(r).roles
    /\ "roles" \in wrote[r] => pc[r] \in {"readNames", "readIds", "done"}
    /\ reply[r] = "OK" => Exists(target[r])

PhaseInv == \A r \in Requests : Phase(r)

Inductive == TypeOK /\ PhaseInv /\ UsernameUnique

-----------------------------------------------------------------------------
LEMMA InitInductive == Init => Inductive
<1> SUFFICES ASSUME Init PROVE Inductive
  OBVIOUS
<1> USE ConstantsAssumption, SeedAssumption
<1>1. users \in [UserIds -> Row \cup {Null}]
  BY DEF Init, Row, Status
<1>2. TypeOK
  BY <1>1 DEF Init, TypeOK, Steps
<1>3. PhaseInv
  BY DEF Init, PhaseInv, Phase, Replies
<1>4. UsernameUnique
  BY DEF Init, UsernameUnique
<1> QED
  BY <1>2, <1>3, <1>4 DEF Inductive

\* Two rows that already have different names keep different names when a row
\* the unique key allows is written.
LEMMA KeyKeepsNamesUnique ==
  ASSUME TypeOK, UsernameUnique,
         NEW u \in UserIds, NEW row \in Row, UniqueKeyAllows(row.username, u),
         users' = [users EXCEPT ![u] = row]
  PROVE  UsernameUnique'
BY ConstantsAssumption DEF TypeOK, UsernameUnique, UniqueKeyAllows, NameFree

\* FieldChecks answers or goes on; what it goes on with has passed the checks.
LEMMA FieldChecksResult ==
  ASSUME NEW r \in Requests, TypeOK, FieldChecks(r), call[r] \in Call
  PROVE  \/ /\ pc' = [pc EXCEPT ![r] = "done"]
            /\ \E a \in {"WeakPassword", "BadRequest", "CannotDisableSelf"} :
                 reply' = [reply EXCEPT ![r] = a]
         \/ /\ pc' = [pc EXCEPT ![r] = "updateFields"]
            /\ body(r).status # 2
            /\ reply' = reply
         \/ /\ pc' = [pc EXCEPT ![r] = "readNames"]
            /\ reply' = reply
         \/ /\ pc' = [pc EXCEPT ![r] = "checkRoles"]
            /\ body(r).roles # Null
            /\ reply' = reply
<1> USE DEF FieldChecks, Answer, Goto, HasFields, StepAfterFields, body
<1>1. CASE body(r).password = "weak"
  BY <1>1
<1>2. CASE body(r).password # "weak" /\ body(r).status = 2
  BY <1>2
<1>3. CASE body(r).password # "weak" /\ body(r).status = 0 /\ call[r].actor = target[r]
  BY <1>3
<1>4. CASE /\ body(r).password # "weak"
           /\ body(r).status # 2
           /\ ~(body(r).status = 0 /\ call[r].actor = target[r])
  BY <1>4
<1> QED
  BY <1>1, <1>2, <1>3, <1>4

-----------------------------------------------------------------------------
\* A step of one request leaves the others where they are ...
Untouched(q) ==
    /\ pc'[q] = pc[q] /\ call'[q] = call[q] /\ target'[q] = target[q]
    /\ deleted'[q] = deleted[q] /\ inserted'[q] = inserted[q]
    /\ wrote'[q] = wrote[q] /\ reply'[q] = reply[q]
    /\ \A u \in UserIds : users[u] # Null => users'[u] # Null
    /\ pc[q] = "txInsert" =>
         /\ rowLock'[target[q]] = rowLock[target[q]]
         /\ userRoles'[target[q]] = userRoles[target[q]]

\* ... and what they have established stays true.
LEMMA UntouchedPhase ==
  ASSUME NEW q \in Requests, Phase(q), Untouched(q)
  PROVE  Phase(q)'
BY DEF Phase, Untouched, Exists, body

\* The requests that only read: TypeOK and UsernameUnique are about tables
\* they do not touch.
LEMMA ArriveStep ==
  ASSUME Inductive, NEW r \in Requests, Arrive(r)
  PROVE  Inductive'
<1> USE ConstantsAssumption, SeedAssumption DEF Inductive, PhaseInv
<1>1. CASE \E actor \in UserIds, b \in CreateBodies : ArriveCreate(r, actor, b)
  <2>1. PICK actor \in UserIds, b \in CreateBodies : ArriveCreate(r, actor, b)
    BY <1>1
  <2>c. /\ b \in Body
        /\ [op |-> "create", actor |-> actor, id |-> Null, body |-> b] \in Call
    BY DEF Call
  <2>2. TypeOK'
    BY <2>1, <2>c DEF TypeOK, ArriveCreate, Answer, Goto, Steps, Replies,
       Rejections, tables, tx
  <2>3. ASSUME NEW q \in Requests, q # r PROVE Phase(q)'
    BY <2>1, <2>3, UntouchedPhase
       DEF TypeOK, ArriveCreate, Answer, Goto, Untouched, tables, tx
  <2>4. Phase(r)'
    <3>1. /\ call'[r] = [op |-> "create", actor |-> actor, id |-> Null, body |-> b]
          /\ wrote'[r] = {}
          /\ CreateBinds(b) => pc'[r] = "findName" /\ reply'[r] = Null
          /\ ~CreateBinds(b) => pc'[r] = "done" /\ reply'[r] = "BadRequest"
      BY <2>1 DEF TypeOK, ArriveCreate, Answer, Goto, Phase
    <3>2. CreateBinds(b) => b.username # Null
      BY DEF CreateBinds
    <3> QED
      BY <2>c, <3>1, <3>2 DEF Phase, body, CreateBinds, Replies
  <2>5. UsernameUnique'
    BY <2>1 DEF ArriveCreate, tables, UsernameUnique
  <2> QED
    BY <2>2, <2>3, <2>4, <2>5
<1>2. CASE \E actor \in UserIds, id \in UserIds, b \in UpdateBodies :
             ArriveUpdate(r, actor, id, b)
  <2>1. PICK actor \in UserIds, id \in UserIds, b \in UpdateBodies :
             ArriveUpdate(r, actor, id, b)
    BY <1>2
  <2>c. /\ b \in Body
        /\ [op |-> "update", actor |-> actor, id |-> id, body |-> b] \in Call
    BY DEF Call
  <2>2. TypeOK'
    BY <2>1, <2>c DEF TypeOK, ArriveUpdate, Goto, Steps, tables, tx, answers
  <2>3. ASSUME NEW q \in Requests, q # r PROVE Phase(q)'
    BY <2>1, <2>3, UntouchedPhase
       DEF TypeOK, ArriveUpdate, Goto, Untouched, tables, tx, answers
  <2>4. Phase(r)'
    BY <2>1, <2>c
       DEF TypeOK, ArriveUpdate, Goto, Phase, body, tables, tx, answers, Replies
  <2>5. UsernameUnique'
    BY <2>1 DEF ArriveUpdate, tables, UsernameUnique
  <2> QED
    BY <2>2, <2>3, <2>4, <2>5
<1> QED
  BY <1>1, <1>2 DEF Arrive

\* The three statements of the validation phase share this shape: the tables,
\* the transaction and the writes stay, the request goes on or is answered.
Validates(r) ==
    UNCHANGED <<tables, call, target, tx, seenNames, seenIds, wrote>>

LEMMA ValidationStep ==
  ASSUME Inductive, NEW r \in Requests, Validates(r),
         NEW step \in Steps, NEW a \in Replies \cup {Null},
         pc' = [pc EXCEPT ![r] = step], reply' = [reply EXCEPT ![r] = a],
         Phase(r)'
  PROVE  Inductive'
<1> USE DEF Inductive, PhaseInv, Validates, tables, tx
<1>1. TypeOK'
  BY DEF TypeOK
<1>2. ASSUME NEW q \in Requests, q # r PROVE Phase(q)'
  BY <1>2, UntouchedPhase DEF TypeOK, Untouched
<1>3. UsernameUnique'
  BY DEF UsernameUnique
<1> QED
  BY <1>1, <1>2, <1>3

\* FieldChecks on behalf of an update of an existing account.
LEMMA FieldChecksStep ==
  ASSUME Inductive, NEW r \in Requests, Validates(r), FieldChecks(r),
         pc[r] \in {"loadUser", "findName"}, call[r].op = "update",
         Exists(target[r])
  PROVE  Inductive'
<1> USE ConstantsAssumption DEF Inductive, PhaseInv
<1>0. TypeOK /\ call[r] \in Call /\ reply[r] = Null /\ "roles" \notin wrote[r]
  BY DEF Phase
<1>1. /\ call'[r] = call[r] /\ target'[r] = target[r] /\ wrote'[r] = wrote[r]
      /\ users' = users
  BY DEF Validates, tables
<1>2. CASE /\ pc' = [pc EXCEPT ![r] = "done"]
           /\ \E a \in {"WeakPassword", "BadRequest", "CannotDisableSelf"} :
                 reply' = [reply EXCEPT ![r] = a]
  <2>1. PICK a \in {"WeakPassword", "BadRequest", "CannotDisableSelf"} :
                 reply' = [reply EXCEPT ![r] = a]
    BY <1>2
  <2>2. Phase(r)'
    BY <1>0, <1>1, <1>2, <2>1 DEF Phase, TypeOK
  <2> QED
    BY <1>2, <2>1, <2>2, ValidationStep DEF Steps, Replies, Rejections
<1>3. CASE /\ pc' = [pc EXCEPT ![r] = "updateFields"]
           /\ body(r).status # 2 /\ reply' = reply
  <2>1. reply' = [reply EXCEPT ![r] = Null]
    BY <1>0, <1>3 DEF TypeOK
  <2>2. Phase(r)'
    BY <1>0, <1>1, <1>3, <2>1 DEF Phase, TypeOK, Exists, body, Replies
  <2> QED
    BY <1>3, <2>1, <2>2, ValidationStep DEF Steps
<1>4. CASE pc' = [pc EXCEPT ![r] = "readNames"] /\ reply' = reply
  <2>1. reply' = [reply EXCEPT ![r] = Null]
    BY <1>0, <1>4 DEF TypeOK
  <2>2. Phase(r)'
    BY <1>0, <1>1, <1>4, <2>1 DEF Phase, TypeOK, Exists, Replies
  <2> QED
    BY <1>4, <2>1, <2>2, ValidationStep DEF Steps
<1>5. CASE /\ pc' = [pc EXCEPT ![r] = "checkRoles"]
           /\ body(r).roles # Null /\ reply' = reply
  <2>1. reply' = [reply EXCEPT ![r] = Null]
    BY <1>0, <1>5 DEF TypeOK
  <2>2. Phase(r)'
    BY <1>0, <1>1, <1>5, <2>1 DEF Phase, TypeOK, Exists, body, Replies
  <2> QED
    BY <1>5, <2>1, <2>2, ValidationStep DEF Steps
<1> QED
  BY <1>0, <1>2, <1>3, <1>4, <1>5, FieldChecksResult

LEMMA LoadUserStep ==
  ASSUME Inductive, NEW r \in Requests, LoadUser(r)
  PROVE  Inductive'
<1> USE ConstantsAssumption DEF Inductive, PhaseInv
<1>0. /\ TypeOK /\ call[r] \in Call /\ reply[r] = Null /\ "roles" \notin wrote[r]
      /\ call[r].op = "update" /\ target[r] \in UserIds
      /\ pc[r] = "loadUser" /\ Validates(r)
  BY DEF Phase, LoadUser, Validates
<1>1. /\ call'[r] = call[r] /\ target'[r] = target[r] /\ wrote'[r] = wrote[r]
      /\ users' = users
  BY <1>0 DEF Validates, tables
<1>2. ASSUME NEW a \in {"NotFound", "BadRequest"}, Answer(r, a) PROVE Inductive'
  <2>1. Phase(r)'
    BY <1>0, <1>1, <1>2 DEF Phase, TypeOK, Answer, Goto
  <2> QED
    BY <1>0, <1>2, <2>1, ValidationStep
       DEF Answer, Goto, Steps, Replies, Rejections
<1>3. CASE Exists(target[r]) /\ FieldChecks(r)
  BY <1>0, <1>3, FieldChecksStep
<1>4. CASE /\ Exists(target[r]) /\ body(r).username # Null
           /\ Goto(r, "findName") /\ UNCHANGED reply
  <2>1. reply' = [reply EXCEPT ![r] = Null] /\ pc' = [pc EXCEPT ![r] = "findName"]
    BY <1>0, <1>4 DEF TypeOK, Goto
  <2>2. Phase(r)'
    BY <1>0, <1>1, <1>4, <2>1 DEF Phase, TypeOK, Exists, body, Replies
  <2> QED
    BY <1>0, <2>1, <2>2, ValidationStep DEF Steps
<1>5. CASE users[target[r]] = Null
  BY <1>2, <1>5 DEF LoadUser
<1>6. CASE users[target[r]] # Null /\ body(r).username = Null
  BY <1>0, <1>3, <1>6 DEF LoadUser, Exists
<1>7. CASE users[target[r]] # Null /\ body(r).username # Null
  BY <1>0, <1>2, <1>4, <1>7 DEF LoadUser, Exists
<1> QED
  BY <1>5, <1>6, <1>7

LEMMA FindNameStep ==
  ASSUME Inductive, NEW r \in Requests, FindName(r)
  PROVE  Inductive'
<1> USE ConstantsAssumption DEF Inductive, PhaseInv
<1>0. /\ TypeOK /\ call[r] \in Call /\ reply[r] = Null /\ "roles" \notin wrote[r]
      /\ call[r].op = "update" => Exists(target[r])
      /\ call[r].op = "create" => CreateBinds(body(r))
      /\ pc[r] = "findName" /\ Validates(r)
  BY DEF Phase, FindName, Validates
<1>1. /\ call'[r] = call[r] /\ target'[r] = target[r] /\ wrote'[r] = wrote[r]
      /\ users' = users
  BY <1>0 DEF Validates, tables
<1>2. CASE Answer(r, "DuplicateUsername")
  <2>1. Phase(r)'
    BY <1>0, <1>1, <1>2 DEF Phase, TypeOK, Answer, Goto
  <2> QED
    BY <1>0, <1>2, <2>1, ValidationStep
       DEF Answer, Goto, Steps, Replies, Rejections
<1>3. CASE call[r].op = "create" /\ Goto(r, "checkRoles") /\ UNCHANGED reply
  <2>1. reply' = [reply EXCEPT ![r] = Null] /\ pc' = [pc EXCEPT ![r] = "checkRoles"]
    BY <1>0, <1>3 DEF TypeOK, Goto
  <2>2. Phase(r)'
    BY <1>0, <1>1, <1>3, <2>1 DEF Phase, TypeOK, CreateBinds, body, Replies
  <2> QED
    BY <1>0, <2>1, <2>2, ValidationStep DEF Steps
<1>4. CASE call[r].op # "create" /\ FieldChecks(r)
  <2>1. call[r].op = "update"
    BY <1>0, <1>4 DEF Call
  <2> QED
    BY <1>0, <1>4, <2>1, FieldChecksStep
<1> QED
  BY <1>2, <1>3, <1>4 DEF FindName

LEMMA CheckRolesStep ==
  ASSUME Inductive, NEW r \in Requests, CheckRoles(r)
  PROVE  Inductive'
<1> USE ConstantsAssumption DEF Inductive, PhaseInv
<1>0. /\ TypeOK /\ call[r] \in Call /\ reply[r] = Null /\ "roles" \notin wrote[r]
      /\ call[r].op = "update" => Exists(target[r])
      /\ call[r].op = "create" => CreateBinds(body(r))
      /\ pc[r] = "checkRoles" /\ Validates(r)
  BY DEF Phase, CheckRoles, Validates
<1>1. /\ call'[r] = call[r] /\ target'[r] = target[r] /\ wrote'[r] = wrote[r]
      /\ users' = users
  BY <1>0 DEF Validates, tables
<1>2. CASE Answer(r, "InvalidRole")
  <2>1. Phase(r)'
    BY <1>0, <1>1, <1>2 DEF Phase, TypeOK, Answer, Goto
  <2> QED
    BY <1>0, <1>2, <2>1, ValidationStep
       DEF Answer, Goto, Steps, Replies, Rejections
<1>3. CASE /\ body(r).roles # {} /\ body(r).roles \subseteq Roles
           /\ Goto(r, IF call[r].op = "create" THEN "insertUser" ELSE "txDelete")
           /\ UNCHANGED reply
  <2> DEFINE step == IF call[r].op = "create" THEN "insertUser" ELSE "txDelete"
  <2>1. /\ reply' = [reply EXCEPT ![r] = Null] /\ pc' = [pc EXCEPT ![r] = step]
        /\ call[r].op \in {"create", "update"}
    BY <1>0, <1>3 DEF TypeOK, Goto, Call
  <2>2. Phase(r)'
    BY <1>0, <1>1, <1>3, <2>1 DEF Phase, TypeOK, CreateBinds, body, Replies, Exists
  <2> QED
    BY <1>0, <2>1, <2>2, ValidationStep DEF Steps
<1> QED
  BY <1>2, <1>3 DEF CheckRoles

-----------------------------------------------------------------------------
(* The writes.                                                             *)

LEMMA InsertUserStep ==
  ASSUME Inductive, NEW r \in Requests, InsertUser(r)
  PROVE  Inductive'
<1> USE ConstantsAssumption DEF Inductive, PhaseInv
<1>0. /\ TypeOK /\ call[r] \in Call /\ reply[r] = Null /\ "roles" \notin wrote[r]
      /\ CreateBinds(body(r)) /\ pc[r] = "insertUser"
      /\ body(r).roles \in (SUBSET Roles) \ {{}}
  BY DEF Phase, InsertUser
<1>f. UNCHANGED <<userRoles, rowLock, call, tx, seenNames, seenIds>>
  BY DEF InsertUser
<1>1. PICK u \in UserIds :
        /\ users[u] = Null
        /\ IF UniqueKeyAllows(body(r).username, u)
             THEN /\ users' = [users EXCEPT ![u] =
                        [username |-> body(r).username,
                         status |-> CreateStatus(body(r))]]
                  /\ target' = [target EXCEPT ![r] = u]
                  /\ wrote' = [wrote EXCEPT ![r] = @ \cup {"user"}]
                  /\ \/ Goto(r, "txDelete") /\ UNCHANGED reply
                     \/ Answer(r, "InternalError")
             ELSE Answer(r, "InternalError") /\ UNCHANGED <<users, target, wrote>>
  BY DEF InsertUser
<1>2. CASE UniqueKeyAllows(body(r).username, u)
  <2> DEFINE row == [username |-> body(r).username, status |-> CreateStatus(body(r))]
  <2>1. row \in Row /\ row.username = body(r).username
    BY <1>0 DEF Row, Status, CreateStatus, CreateBinds, Call, Body, body
  <2> HIDE DEF row
  <2>2. /\ users' = [users EXCEPT ![u] = row]
        /\ target' = [target EXCEPT ![r] = u]
        /\ wrote' = [wrote EXCEPT ![r] = @ \cup {"user"}]
        /\ \/ Goto(r, "txDelete") /\ UNCHANGED reply
           \/ Answer(r, "InternalError")
    BY <1>1, <1>2 DEF row
  <2>3. TypeOK'
    BY <1>f, <2>1, <2>2
       DEF TypeOK, Goto, Answer, Steps, Replies, Rejections, tx
  <2>4. ASSUME NEW q \in Requests, q # r PROVE Phase(q)'
    BY <1>f, <2>1, <2>2, <2>4, UntouchedPhase
       DEF TypeOK, Goto, Answer, Untouched, tx
  <2>5. Phase(r)'
    <3>1. /\ call'[r] = call[r] /\ target'[r] = u /\ users'[u] # Null
          /\ "roles" \notin wrote'[r]
      BY <1>0, <1>f, <2>1, <2>2 DEF TypeOK
    <3>2. \/ pc'[r] = "txDelete" /\ reply'[r] = Null
          \/ pc'[r] = "done" /\ reply'[r] = "InternalError"
      BY <1>0, <2>2 DEF TypeOK, Goto, Answer
    <3> QED
      BY <1>0, <3>1, <3>2 DEF Phase, Exists, body, Replies
  <2>6. UsernameUnique'
    BY <1>2, <2>1, <2>2, KeyKeepsNamesUnique
  <2> QED
    BY <2>3, <2>4, <2>5, <2>6
<1>3. CASE ~UniqueKeyAllows(body(r).username, u)
  <2>1. Answer(r, "InternalError") /\ UNCHANGED <<users, target, wrote>>
    BY <1>1, <1>3
  <2>2. Phase(r)'
    BY <1>0, <1>f, <2>1 DEF Phase, TypeOK, Answer, Goto
  <2> QED
    BY <1>f, <2>1, <2>2, ValidationStep
       DEF Validates, tables, Answer, Goto, Steps, Replies, Rejections
<1> QED
  BY <1>2, <1>3

LEMMA UpdateFieldsStep ==
  ASSUME Inductive, NEW r \in Requests, UpdateFields(r)
  PROVE  Inductive'
<1> USE ConstantsAssumption DEF Inductive, PhaseInv
<1>0. /\ TypeOK /\ call[r] \in Call /\ reply[r] = Null /\ "roles" \notin wrote[r]
      /\ Exists(target[r]) /\ pc[r] = "updateFields" /\ body(r).status # 2
  BY DEF Phase, UpdateFields
<1>f. UNCHANGED <<userRoles, rowLock, call, target, tx, seenNames, seenIds>>
  BY DEF UpdateFields
<1> DEFINE row == UpdatedRow(users[target[r]], body(r))
<1>1. row \in Row
  <2>1. users[target[r]] \in Row /\ body(r) \in Body
    BY <1>0 DEF TypeOK, Exists, Call, body
  <2>2. /\ users[target[r]].username \in Names /\ users[target[r]].status \in {0, 1}
        /\ body(r).username \in Names \cup {Null} /\ body(r).status \in {0, 1, Null}
    BY <1>0, <2>1 DEF Row, Status, Body
  <2> QED
    BY <2>2 DEF UpdatedRow, Row, Status
<1> HIDE DEF row
<1>2. CASE UniqueKeyAllows(row.username, target[r])
  <2>2. /\ users' = [users EXCEPT ![target[r]] = row]
        /\ wrote' = [wrote EXCEPT ![r] = @ \cup {"fields"}]
        /\ \/ Goto(r, StepAfterFields(body(r))) /\ UNCHANGED reply
           \/ Answer(r, "InternalError")
    BY <1>2 DEF UpdateFields, row
  <2>3. TypeOK'
    <3>1. StepAfterFields(body(r)) \in Steps
      BY DEF StepAfterFields, Steps
    <3> QED
      BY <1>0, <1>f, <1>1, <2>2, <3>1
         DEF TypeOK, Goto, Answer, Steps, Replies, Rejections, tx, Exists
  <2>4. ASSUME NEW q \in Requests, q # r PROVE Phase(q)'
    BY <1>f, <1>1, <2>2, <2>4, UntouchedPhase
       DEF TypeOK, Goto, Answer, Untouched, tx
  <2>5. Phase(r)'
    <3>1. /\ call'[r] = call[r] /\ target'[r] = target[r]
          /\ Exists(target[r])' /\ "roles" \notin wrote'[r]
      BY <1>0, <1>f, <1>1, <2>2 DEF TypeOK, Exists
    <3>2. \/ pc'[r] = "readNames" /\ reply'[r] = Null
          \/ pc'[r] = "checkRoles" /\ body(r).roles # Null /\ reply'[r] = Null
          \/ pc'[r] = "done" /\ reply'[r] = "InternalError"
      BY <1>0, <2>2 DEF TypeOK, Goto, Answer, StepAfterFields
    <3>3. pc'[r] = "checkRoles" => call[r].op # "create"
      BY <1>0, <3>2 DEF Phase
    <3> QED
      BY <1>0, <3>1, <3>2, <3>3 DEF Phase, Exists, body, Replies
  <2>6. UsernameUnique'
    BY <1>0, <1>1, <1>2, <2>2, KeyKeepsNamesUnique DEF Exists
  <2> QED
    BY <2>3, <2>4, <2>5, <2>6
<1>3. CASE ~UniqueKeyAllows(row.username, target[r])
  <2>1. Answer(r, "InternalError") /\ UNCHANGED <<users, wrote>>
    BY <1>3 DEF UpdateFields, row
  <2>2. Phase(r)'
    BY <1>0, <1>f, <2>1 DEF Phase, TypeOK, Answer, Goto
  <2> QED
    BY <1>f, <2>1, <2>2, ValidationStep
       DEF Validates, tables, Answer, Goto, Steps, Replies, Rejections
<1> QED
  BY <1>2, <1>3

LEMMA TxDeleteStep ==
  ASSUME Inductive, NEW r \in Requests, TxDelete(r)
  PROVE  Inductive'
<1> USE ConstantsAssumption DEF Inductive, PhaseInv
<1>0. /\ TypeOK /\ call[r] \in Call /\ reply[r] = Null /\ "roles" \notin wrote[r]
      /\ Exists(target[r]) /\ pc[r] = "txDelete"
      /\ body(r).roles \in (SUBSET Roles) \ {{}}
  BY DEF Phase, TxDelete
<1>1. /\ UNCHANGED <<users, userRoles, call, target, answers, wrote>>
      /\ rowLock[target[r]] = Null
      /\ inserted' = [inserted EXCEPT ![r] = {}]
      /\ rowLock' = [rowLock EXCEPT ![target[r]] = r]
      /\ deleted' = [deleted EXCEPT ![r] = userRoles[target[r]]]
      /\ pc' = [pc EXCEPT ![r] = "txInsert"]
  BY DEF TxDelete, Lock, Isolated, Goto
<1>2. TypeOK'
  BY <1>0, <1>1 DEF TypeOK, Steps, answers, Exists
<1>3. ASSUME NEW q \in Requests, q # r PROVE Phase(q)'
  <2>1. pc[q] = "txInsert" => rowLock[target[q]] = q
    BY DEF Phase
  <2>2. pc[q] = "txInsert" => rowLock'[target[q]] = rowLock[target[q]]
    BY <1>0, <1>1, <2>1 DEF TypeOK, Exists
  <2> QED
    BY <1>1, <1>3, <2>2, UntouchedPhase DEF TypeOK, Untouched, answers
<1>4. Phase(r)'
  <2>1. /\ rowLock'[target[r]] = r /\ deleted'[r] = userRoles[target[r]]
        /\ pc'[r] = "txInsert" /\ inserted'[r] = {}
    BY <1>0, <1>1 DEF TypeOK, Exists
  <2> QED
    BY <1>0, <1>1, <2>1 DEF Phase, Exists, body, answers, Replies
<1>5. UsernameUnique'
  BY <1>1 DEF UsernameUnique
<1> QED
  BY <1>2, <1>3, <1>4, <1>5

LEMMA TxInsertStep ==
  ASSUME Inductive, NEW r \in Requests, TxInsert(r)
  PROVE  Inductive'
<1> USE ConstantsAssumption DEF Inductive, PhaseInv
<1>0. /\ TypeOK /\ call[r] \in Call /\ reply[r] = Null /\ "roles" \notin wrote[r]
      /\ Exists(target[r]) /\ pc[r] = "txInsert"
      /\ body(r).roles \in (SUBSET Roles) \ {{}}
      /\ rowLock[target[r]] = r /\ deleted[r] = userRoles[target[r]]
      /\ inserted[r] \subseteq body(r).roles
  BY DEF Phase, TxInsert
<1>1. PICK id \in body(r).roles : inserted' = [inserted EXCEPT ![r] = @ \cup {id}]
  BY DEF TxInsert
<1>2. UNCHANGED <<users, userRoles, rowLock, pc, call, target, deleted, answers, wrote>>
  BY DEF TxInsert, Isolated
<1>3. TypeOK'
  BY <1>0, <1>1, <1>2 DEF TypeOK, answers
<1>4. ASSUME NEW q \in Requests, q # r PROVE Phase(q)'
  BY <1>1, <1>2, <1>4, UntouchedPhase DEF TypeOK, Untouched, answers
<1>5. Phase(r)'
  BY <1>0, <1>1, <1>2 DEF TypeOK, Phase, Exists, body, answers, Replies
<1>6. UsernameUnique'
  BY <1>2 DEF UsernameUnique
<1> QED
  BY <1>3, <1>4, <1>5, <1>6

\* Giving a lock back leaves the locks of the others alone.
LEMMA UnlockKeepsOthers ==
  ASSUME TypeOK, NEW r \in Requests, Unlock(r),
         NEW q \in Requests, q # r, NEW u \in UserIds, rowLock[u] = q
  PROVE  rowLock'[u] = q
BY DEF TypeOK, Unlock

LEMMA TxCommitStep ==
  ASSUME Inductive, NEW r \in Requests, TxCommit(r)
  PROVE  Inductive'
<1> USE ConstantsAssumption DEF Inductive, PhaseInv
<1>0. /\ TypeOK /\ call[r] \in Call /\ reply[r] = Null
      /\ Exists(target[r]) /\ pc[r] = "txInsert" /\ rowLock[target[r]] = r
      /\ Unlock(r)
  BY DEF Phase, TxCommit
<1>1. /\ UNCHANGED <<users, call, target, seenNames, seenIds>>
      /\ userRoles' = [userRoles EXCEPT ![target[r]] =
                          (@ \ deleted[r]) \cup inserted[r]]
      /\ wrote' = [wrote EXCEPT ![r] = @ \cup {"roles"}]
      /\ \/ pc' = [pc EXCEPT ![r] = "readNames"] /\ reply' = reply
         \/ /\ pc' = [pc EXCEPT ![r] = "done"]
            /\ reply' = [reply EXCEPT ![r] = "InternalError"]
  BY DEF TxCommit, Goto, Answer
<1>2. TypeOK'
  BY <1>0, <1>1 DEF TypeOK, Steps, Replies, Exists, Unlock
<1>3. ASSUME NEW q \in Requests, q # r PROVE Phase(q)'
  <2>1. pc[q] = "txInsert" => rowLock[target[q]] = q /\ target[q] \in UserIds
    BY DEF Phase, Exists
  <2>2. pc[q] = "txInsert" => rowLock'[target[q]] = q /\ target[q] # target[r]
    BY <1>0, <1>3, <2>1, UnlockKeepsOthers
  <2>3. pc[q] = "txInsert" => userRoles'[target[q]] = userRoles[target[q]]
    BY <1>0, <1>1, <2>1, <2>2 DEF TypeOK, Exists
  <2>4. deleted'[q] = deleted[q] /\ inserted'[q] = inserted[q]
    BY <1>0, <1>3 DEF TypeOK, Unlock
  <2> QED
    BY <1>1, <1>3, <2>1, <2>2, <2>3, <2>4, UntouchedPhase DEF TypeOK, Untouched
<1>4. Phase(r)'
  <2>1. /\ call'[r] = call[r] /\ Exists(target[r])'
        /\ \/ pc'[r] = "readNames" /\ reply'[r] = Null
           \/ pc'[r] = "done" /\ reply'[r] = "InternalError"
    BY <1>0, <1>1 DEF TypeOK, Exists
  <2> QED
    BY <1>0, <2>1 DEF Phase, Replies
<1>5. UsernameUnique'
  BY <1>1 DEF UsernameUnique
<1> QED
  BY <1>2, <1>3, <1>4, <1>5

LEMMA ReadStep ==
  ASSUME Inductive, NEW r \in Requests, ReadNames(r) \/ ReadIds(r)
  PROVE  Inductive'
<1> USE ConstantsAssumption DEF Inductive, PhaseInv
<1>0. /\ TypeOK /\ call[r] \in Call /\ reply[r] = Null
      /\ Exists(target[r]) /\ pc[r] \in {"readNames", "readIds"}
  BY DEF Phase, ReadNames, ReadIds
<1>1. /\ UNCHANGED <<tables, call, target, tx, wrote>>
      /\ \/ /\ pc' = [pc EXCEPT ![r] = "readIds"] /\ reply' = reply
            /\ seenIds' = seenIds
            /\ seenNames' = [seenNames EXCEPT ![r] = userRoles[target[r]]]
         \/ /\ pc' = [pc EXCEPT ![r] = "done"]
            /\ reply' = [reply EXCEPT ![r] = "OK"]
            /\ seenNames' = seenNames
            /\ seenIds' = [seenIds EXCEPT ![r] = userRoles[target[r]]]
  BY DEF ReadNames, ReadIds, Goto, Answer
<1>2. TypeOK'
  BY <1>0, <1>1 DEF TypeOK, Steps, Replies, Exists, tables, tx
<1>3. ASSUME NEW q \in Requests, q # r PROVE Phase(q)'
  BY <1>1, <1>3, UntouchedPhase DEF TypeOK, Untouched, tables, tx
<1>4. Phase(r)'
  <2>1. /\ call'[r] = call[r] /\ Exists(target[r])'
        /\ \/ pc'[r] = "readIds" /\ reply'[r] = Null
           \/ pc'[r] = "done" /\ reply'[r] = "OK"
    BY <1>0, <1>1 DEF TypeOK, Exists, tables
  <2> QED
    BY <1>0, <2>1 DEF Phase, Replies
<1>5. UsernameUnique'
  BY <1>1 DEF UsernameUnique, tables
<1> QED
  BY <1>2, <1>3, <1>4, <1>5

LEMMA FailStep ==
  ASSUME Inductive, NEW r \in Requests, Fail(r)
  PROVE  Inductive'
<1> USE ConstantsAssumption DEF Inductive, PhaseInv
<1>0. TypeOK /\ call[r] \in Call /\ Unlock(r)
  BY DEF Phase, Fail
<1>1. /\ UNCHANGED <<users, userRoles, call, target, seenNames, seenIds, wrote>>
      /\ pc' = [pc EXCEPT ![r] = "done"]
      /\ reply' = [reply EXCEPT ![r] = "InternalError"]
  BY DEF Fail, Goto, Answer
<1>2. TypeOK'
  BY <1>0, <1>1 DEF TypeOK, Steps, Replies, Unlock
<1>3. ASSUME NEW q \in Requests, q # r PROVE Phase(q)'
  <2>1. pc[q] = "txInsert" => rowLock[target[q]] = q /\ target[q] \in UserIds
    BY DEF Phase, Exists
  <2>2. pc[q] = "txInsert" => rowLock'[target[q]] = q
    BY <1>0, <1>3, <2>1, UnlockKeepsOthers
  <2>3. deleted'[q] = deleted[q] /\ inserted'[q] = inserted[q]
    BY <1>0, <1>3 DEF TypeOK, Unlock
  <2> QED
    BY <1>1, <1>3, <2>1, <2>2, <2>3, UntouchedPhase DEF TypeOK, Untouched
<1>4. Phase(r)'
  BY <1>0, <1>1 DEF Phase, TypeOK
<1>5. UsernameUnique'
  BY <1>1 DEF UsernameUnique
<1> QED
  BY <1>2, <1>3, <1>4, <1>5

-----------------------------------------------------------------------------
LEMMA NextInductive == Inductive /\ [Next]_vars => Inductive'
<1> SUFFICES ASSUME Inductive, [Next]_vars PROVE Inductive'
  OBVIOUS
<1>1. CASE UNCHANGED vars
  BY <1>1 DEF vars, Inductive, TypeOK, PhaseInv, Phase, Exists, body, UsernameUnique
<1>2. ASSUME NEW r \in Requests, Arrive(r) \/ Serve(r) \/ Fail(r)
      PROVE  Inductive'
  BY <1>2, ArriveStep, LoadUserStep, FindNameStep, CheckRolesStep, InsertUserStep,
     UpdateFieldsStep, TxDeleteStep, TxInsertStep, TxCommitStep, ReadStep, FailStep
     DEF Serve
<1> QED
  BY <1>1, <1>2 DEF Next, Quiet

LEMMA InductiveInvariant == Spec => []Inductive
<1> QED
  BY InitInductive, NextInductive, PTL DEF Spec

\* Every variable keeps its type, for any number of requests and accounts.
THEOREM TypeCorrect == Spec => []TypeOK
<1>1. Inductive => TypeOK
  BY DEF Inductive
<1> QED
  BY InductiveInvariant, <1>1, PTL

\* No two accounts ever share a username, although every request that checks
\* it does so in an earlier statement than the one that writes it.
THEOREM UniqueUsernames == Spec => []UsernameUnique
<1>1. Inductive => UsernameUnique
  BY DEF Inductive
<1> QED
  BY InductiveInvariant, <1>1, PTL

-----------------------------------------------------------------------------
(* Role assignments.                                                       *)

\* What a request has committed is neither taken back nor moved to another
\* account.
LEMMA CommittedRolesStay ==
  ASSUME Inductive, Next, NEW q \in Requests, "roles" \in wrote[q]
  PROVE  "roles" \in wrote'[q] /\ target'[q] = target[q] /\ call'[q] = call[q]
<1>0. TypeOK /\ pc[q] \in {"readNames", "readIds", "done"}
  BY DEF Inductive, PhaseInv, Phase
<1>1. ASSUME NEW r \in Requests, Arrive(r) \/ InsertUser(r)
      PROVE  "roles" \in wrote'[q] /\ target'[q] = target[q] /\ call'[q] = call[q]
  <2>1. r # q
    BY <1>0, <1>1 DEF Arrive, ArriveCreate, ArriveUpdate, InsertUser
  <2> QED
    BY <1>0, <1>1, <2>1 DEF TypeOK, Arrive, ArriveCreate, ArriveUpdate, InsertUser
<1>2. ASSUME NEW r \in Requests,
             \/ LoadUser(r) \/ FindName(r) \/ CheckRoles(r)
             \/ UpdateFields(r) \/ TxDelete(r) \/ TxInsert(r) \/ TxCommit(r)
             \/ ReadNames(r) \/ ReadIds(r) \/ Fail(r)
      PROVE  "roles" \in wrote'[q] /\ target'[q] = target[q] /\ call'[q] = call[q]
  BY <1>0, <1>2
     DEF TypeOK, LoadUser, FindName, CheckRoles, UpdateFields, TxDelete, TxInsert,
         TxCommit, ReadNames, ReadIds, Fail
<1>3. CASE Quiet
  BY <1>3 DEF Quiet, vars
<1> QED
  BY <1>1, <1>2, <1>3 DEF Next, Serve

LEMMA AssignedGrows ==
  ASSUME Inductive, Next, NEW u
  PROVE  Assigned(u) \subseteq Assigned(u)'
BY CommittedRolesStay DEF Assigned, body

\* What a transaction commits is exactly the set its request asked for: the
\* lock kept the deleted rows the only ones there were.
LEMMA CommitIsWhole ==
  ASSUME Inductive, NEW r \in Requests, TxCommit(r)
  PROVE  /\ Exists(target[r])
         /\ body(r).roles \in (SUBSET Roles) \ {{}}
         /\ userRoles' = [userRoles EXCEPT ![target[r]] = body(r).roles]
<1>1. /\ Exists(target[r]) /\ body(r).roles \in (SUBSET Roles) \ {{}}
      /\ deleted[r] = userRoles[target[r]] /\ inserted[r] \subseteq body(r).roles
  BY DEF Inductive, PhaseInv, Phase, TxCommit
<1>2. (userRoles[target[r]] \ deleted[r]) \cup inserted[r] = body(r).roles
  BY <1>1 DEF TxCommit
<1> QED
  BY <1>1, <1>2 DEF TxCommit

\* Steps other than a commit leave the committed rows alone.
LEMMA OnlyCommitAssigns ==
  ASSUME Next, ~ \E r \in Requests : TxCommit(r)
  PROVE  userRoles' = userRoles
<1>1. ASSUME NEW r \in Requests, Arrive(r) PROVE userRoles' = userRoles
  BY <1>1 DEF Arrive, ArriveCreate, ArriveUpdate, tables
<1>2. ASSUME NEW r \in Requests,
             \/ LoadUser(r) \/ FindName(r) \/ CheckRoles(r) \/ InsertUser(r)
             \/ UpdateFields(r) \/ TxDelete(r) \/ TxInsert(r)
             \/ ReadNames(r) \/ ReadIds(r) \/ Fail(r)
      PROVE  userRoles' = userRoles
  BY <1>2 DEF LoadUser, FindName, CheckRoles, InsertUser, UpdateFields, TxDelete,
     TxInsert, ReadNames, ReadIds, Fail, Isolated, tables
<1> QED
  BY <1>1, <1>2 DEF Next, Serve, Quiet, vars

\* The first list is in the answer from readIds on.
RoleInv ==
    /\ NoPartialRoleSet
    /\ \A u \in UserIds, r \in Requests :
         target[r] = u /\ pc[r] = "readIds" => seenNames[r] \in Assigned(u)

LEMMA InitRoleInv == Init => RoleInv
BY ConstantsAssumption DEF Init, RoleInv, NoPartialRoleSet, Assigned, Replies

LEMMA NextRoleInv ==
  ASSUME Inductive, Inductive', RoleInv, Next
  PROVE  RoleInv'
<1>0. TypeOK /\ TypeOK' /\ PhaseInv
  BY DEF Inductive
<1>1. ASSUME NEW u \in UserIds PROVE userRoles'[u] \in Assigned(u)'
  <2>1. CASE \E r \in Requests : TxCommit(r)
    <3>1. PICK r \in Requests : TxCommit(r)
      BY <2>1
    <3>2. "roles" \in wrote'[r] /\ target'[r] = target[r] /\ call'[r] = call[r]
      BY <1>0, <3>1 DEF TypeOK, TxCommit
    <3>3. CASE u = target[r]
      <4>1. body(r).roles \in Assigned(u)'
        BY <3>2, <3>3 DEF Assigned, body
      <4> QED
        BY <1>0, <3>1, <3>3, <4>1, CommitIsWhole DEF TypeOK
    <3>4. CASE u # target[r]
      BY <1>0, <1>1, <3>1, <3>4, CommitIsWhole, AssignedGrows
         DEF TypeOK, RoleInv, NoPartialRoleSet
    <3> QED
      BY <3>3, <3>4
  <2>2. CASE ~ \E r \in Requests : TxCommit(r)
    BY <2>2, <1>1, OnlyCommitAssigns, AssignedGrows DEF RoleInv, NoPartialRoleSet
  <2> QED
    BY <2>1, <2>2
<1>2. ASSUME NEW r \in Requests,
             pc'[r] = "readIds" \/ reply'[r] = "OK",
             ~ReadNames(r), ~ReadIds(r)
      PROVE  /\ target'[r] = target[r] /\ reply'[r] = reply[r] /\ pc'[r] = pc[r]
             /\ seenNames'[r] = seenNames[r] /\ seenIds'[r] = seenIds[r]
  <2>0. pc[r] # "done" => reply[r] = Null
    BY <1>0 DEF PhaseInv, Phase
  <2>1. ASSUME NEW q \in Requests, q # r, Arrive(q) \/ Serve(q) \/ Fail(q)
        PROVE  /\ target'[r] = target[r] /\ reply'[r] = reply[r] /\ pc'[r] = pc[r]
               /\ seenNames'[r] = seenNames[r] /\ seenIds'[r] = seenIds[r]
    <3>1. CASE Arrive(q)
      BY <1>0, <2>1, <3>1
         DEF TypeOK, Arrive, ArriveCreate, ArriveUpdate, Answer, Goto, answers
    <3>2. CASE LoadUser(q) \/ FindName(q) \/ CheckRoles(q)
      <4>1. /\ UNCHANGED <<target, seenNames, seenIds>>
            /\ \/ \E a \in Replies : Answer(q, a)
               \/ \E step \in Steps : Goto(q, step) /\ UNCHANGED reply
               \/ FieldChecks(q)
        BY <3>2 DEF LoadUser, FindName, CheckRoles, Replies, Rejections, Steps
      <4>2. FieldChecks(q) =>
              \/ \E a \in Replies : Answer(q, a)
              \/ \E step \in Steps : Goto(q, step) /\ UNCHANGED reply
        BY DEF FieldChecks, Replies, Rejections, Steps, StepAfterFields
      <4> QED
        BY <1>0, <2>1, <4>1, <4>2 DEF TypeOK, Answer, Goto
    <3>3. CASE InsertUser(q) \/ UpdateFields(q)
      BY <1>0, <2>1, <3>3 DEF TypeOK, InsertUser, UpdateFields, Answer, Goto
    <3>4. CASE TxDelete(q) \/ TxInsert(q) \/ TxCommit(q)
      BY <1>0, <2>1, <3>4
         DEF TypeOK, TxDelete, TxInsert, TxCommit, Answer, Goto, answers
    <3>5. CASE ReadNames(q) \/ ReadIds(q) \/ Fail(q)
      BY <1>0, <2>1, <3>5 DEF TypeOK, ReadNames, ReadIds, Fail, Answer, Goto
    <3> QED
      BY <2>1, <3>1, <3>2, <3>3, <3>4, <3>5 DEF Serve
  <2>2. CASE Quiet
    BY <2>2 DEF Quiet, vars
  <2>3. ~(Arrive(r) \/ Serve(r) \/ Fail(r))
    <3>1. CASE Arrive(r)
      BY <1>0, <1>2, <3>1, <2>0, ConstantsAssumption
         DEF TypeOK, Arrive, ArriveCreate, ArriveUpdate, Answer, Goto, answers,
             Replies
    <3>2. CASE LoadUser(r) \/ FindName(r) \/ CheckRoles(r)
      <4>1. /\ pc[r] # "done"
            /\ \/ \E a \in Rejections : Answer(r, a)
               \/ \E step \in Steps \ {"readIds", "done"} :
                     Goto(r, step) /\ UNCHANGED reply
               \/ FieldChecks(r)
        BY <3>2 DEF LoadUser, FindName, CheckRoles, Rejections, Steps
      <4>2. FieldChecks(r) =>
              \/ \E a \in Rejections : Answer(r, a)
              \/ \E step \in Steps \ {"readIds", "done"} :
                     Goto(r, step) /\ UNCHANGED reply
        BY DEF FieldChecks, Rejections, Steps, StepAfterFields
      <4> QED
        BY <1>0, <1>2, <2>0, <4>1, <4>2, ConstantsAssumption
           DEF TypeOK, Answer, Goto, Rejections, Replies
    <3>3. CASE InsertUser(r) \/ UpdateFields(r)
      BY <1>0, <1>2, <2>0, <3>3, ConstantsAssumption
         DEF TypeOK, InsertUser, UpdateFields, Answer, Goto, StepAfterFields, Replies
    <3>4. CASE TxDelete(r) \/ TxInsert(r) \/ TxCommit(r)
      BY <1>0, <1>2, <2>0, <3>4, ConstantsAssumption
         DEF TypeOK, TxDelete, TxInsert, TxCommit, Answer, Goto, answers, Replies
    <3>5. CASE Fail(r)
      BY <1>0, <1>2, <3>5 DEF TypeOK, Fail, Answer, Goto
    <3> QED
      BY <1>2, <3>1, <3>2, <3>3, <3>4, <3>5 DEF Serve
  <2> QED
    BY <2>1, <2>2, <2>3 DEF Next
<1>3. ASSUME NEW r \in Requests, ReadNames(r) \/ ReadIds(r)
      PROVE  /\ target'[r] = target[r] /\ userRoles' = userRoles
             /\ Exists(target[r])
             /\ pc'[r] = "readIds" => seenNames'[r] = userRoles[target[r]]
             /\ pc'[r] # "readIds" => pc[r] = "readIds" /\ seenNames' = seenNames
             /\ reply'[r] = "OK" => pc[r] = "readIds" /\ pc'[r] # "readIds"
                                   /\ seenIds'[r] = userRoles[target[r]]
  BY <1>0, <1>3, ConstantsAssumption
     DEF TypeOK, PhaseInv, Phase, ReadNames, ReadIds, Answer, Goto, tables, Replies
<1>4. ASSUME NEW u \in UserIds, NEW r \in Requests, target'[r] = u,
             pc'[r] = "readIds" \/ reply'[r] = "OK"
      PROVE  /\ seenNames'[r] \in Assigned(u)'
             /\ reply'[r] = "OK" => seenIds'[r] \in Assigned(u)'
  <2>1. CASE ReadNames(r) \/ ReadIds(r)
    BY <1>1, <1>3, <1>4, <2>1, AssignedGrows DEF RoleInv, NoPartialRoleSet
  <2>2. CASE ~(ReadNames(r) \/ ReadIds(r))
    BY <1>2, <1>4, <2>2, AssignedGrows DEF RoleInv, NoPartialRoleSet
  <2> QED
    BY <2>1, <2>2
<1> QED
  BY <1>1, <1>4 DEF RoleInv, NoPartialRoleSet

\* An account's roles, in the table and in every answer, are always one whole
\* set that a request committed, whatever the requests interleave with.
THEOREM WholeRoleSets == Spec => []NoPartialRoleSet
<1>1. RoleInv => NoPartialRoleSet
  BY DEF RoleInv
<1>2. UNCHANGED vars /\ RoleInv => RoleInv'
  BY DEF vars, RoleInv, NoPartialRoleSet, Assigned, body
<1>3. Inductive /\ Inductive' /\ RoleInv /\ [Next]_vars => RoleInv'
  BY <1>2, NextRoleInv
<1> QED
  BY <1>1, <1>3, InitRoleInv, InductiveInvariant, PTL DEF Spec

-----------------------------------------------------------------------------
(* Answers and writes.                                                     *)

\* A step of a request leaves what the others have done and answered.
LEMMA StepOfOne ==
  ASSUME Inductive, NEW r \in Requests, Arrive(r) \/ Serve(r) \/ Fail(r),
         NEW q \in Requests, q # r
  PROVE  /\ pc'[q] = pc[q] /\ call'[q] = call[q] /\ target'[q] = target[q]
         /\ wrote'[q] = wrote[q] /\ reply'[q] = reply[q]
<1>0. TypeOK /\ (pc[r] # "idle" => call[r] \in Call)
  BY DEF Inductive, PhaseInv, Phase
<1>1. CASE Arrive(r)
  BY <1>0, <1>1 DEF TypeOK, Arrive, ArriveCreate, ArriveUpdate, Answer, Goto, answers
<1>2. CASE LoadUser(r) \/ FindName(r) \/ CheckRoles(r)
  <2>1. /\ UNCHANGED <<call, target, wrote>>
        /\ \/ \E a \in Replies : Answer(r, a)
           \/ \E step \in Steps : Goto(r, step) /\ UNCHANGED reply
           \/ FieldChecks(r) /\ call[r] \in Call
    BY <1>0, <1>2 DEF LoadUser, FindName, CheckRoles, Replies, Rejections, Steps
  <2>2. CASE FieldChecks(r) /\ call[r] \in Call
    BY <1>0, <2>1, <2>2, FieldChecksResult DEF TypeOK
  <2> QED
    BY <1>0, <2>1, <2>2 DEF TypeOK, Answer, Goto
<1>3. CASE InsertUser(r) \/ UpdateFields(r)
  BY <1>0, <1>3 DEF TypeOK, InsertUser, UpdateFields, Answer, Goto
<1>4. CASE TxDelete(r) \/ TxInsert(r) \/ TxCommit(r)
  BY <1>0, <1>4 DEF TypeOK, TxDelete, TxInsert, TxCommit, Answer, Goto, answers
<1>5. CASE ReadNames(r) \/ ReadIds(r) \/ Fail(r)
  BY <1>0, <1>5 DEF TypeOK, ReadNames, ReadIds, Fail, Answer, Goto
<1> QED
  BY <1>1, <1>2, <1>3, <1>4, <1>5 DEF Serve

\* What a request has committed when it reaches a statement, and when it is
\* answered.
UserPart(c) == IF c.op = "create" THEN {"user"} ELSE {}
FieldsPart(c) == IF c.op # "create" /\ HasFields(c.body) THEN {"fields"} ELSE {}

Written(r) ==
    /\ pc[r] \in {"idle", "loadUser", "findName", "updateFields", "insertUser"}
         => wrote[r] = {}
    /\ pc[r] = "updateFields" => HasFields(body(r))
    /\ pc[r] = "checkRoles" => wrote[r] = FieldsPart(call[r])
    /\ pc[r] \in {"txDelete", "txInsert"}
         => wrote[r] = UserPart(call[r]) \cup FieldsPart(call[r])
    /\ pc[r] \in {"readNames", "readIds"} => wrote[r] = Requested(call[r])
    /\ reply[r] = "OK" => wrote[r] = Requested(call[r])
    /\ reply[r] \in Rejections =>
         \/ wrote[r] = {}
         \/ /\ call[r].op = "update" /\ reply[r] = "InvalidRole"
            /\ wrote[r] = {"fields"}

WritesInv == \A r \in Requests : Written(r)

\* FieldChecks refuses, or goes on to the statement that is left to do.
LEMMA FieldChecksWrites ==
  ASSUME NEW r \in Requests, Inductive, FieldChecks(r), call[r] \in Call,
         call[r].op = "update", wrote[r] = {},
         call' = call, wrote' = wrote, reply[r] = Null
  PROVE  Written(r)'
<1>0. TypeOK /\ body(r) = call[r].body /\ body(r)' = body(r)
  BY DEF Inductive, body
<1> USE ConstantsAssumption
<1>1. CASE \E a \in Rejections : Answer(r, a)
  BY <1>0, <1>1 DEF TypeOK, Answer, Goto, Written, Rejections, Replies
<1>2. CASE Goto(r, "updateFields") /\ HasFields(body(r)) /\ UNCHANGED reply
  BY <1>0, <1>2 DEF TypeOK, Goto, Written, Rejections, Replies, body
<1>3. CASE Goto(r, StepAfterFields(body(r))) /\ ~HasFields(body(r)) /\ UNCHANGED reply
  <2>1. CASE body(r).roles = Null
    BY <1>0, <1>3, <2>1
    DEF TypeOK, Goto, StepAfterFields, Written, Requested, Rejections, Replies
  <2>2. CASE body(r).roles # Null
    BY <1>0, <1>3, <2>2
    DEF TypeOK, Goto, StepAfterFields, Written, FieldsPart, Rejections, Replies
  <2> QED
    BY <2>1, <2>2
<1> QED
  BY <1>1, <1>2, <1>3 DEF FieldChecks, Rejections

\* The statements before the first write, and the check of the roles.
LEMMA ChecksWrite ==
  ASSUME NEW r \in Requests, Inductive, Written(r),
         Arrive(r) \/ LoadUser(r) \/ FindName(r) \/ CheckRoles(r)
  PROVE  Written(r)'
<1>0. TypeOK /\ Phase(r)
  BY DEF Inductive, PhaseInv
<1> USE ConstantsAssumption
<1>1. CASE Arrive(r)
  <2>1. wrote'[r] = {} /\ reply[r] = Null
    BY <1>0, <1>1 DEF Phase, Arrive, ArriveCreate, ArriveUpdate
  <2>2. /\ pc'[r] \in {"findName", "loadUser", "done"}
        /\ reply'[r] \in {Null, "BadRequest"}
    BY <1>0, <1>1, <2>1 DEF TypeOK, Arrive, ArriveCreate, ArriveUpdate, Answer, Goto, answers
  <2> QED
    BY <2>1, <2>2 DEF Written, Rejections, Replies
<1>2. CASE LoadUser(r) \/ FindName(r)
  <2>1. /\ wrote[r] = {} /\ call[r] \in Call /\ reply[r] = Null
        /\ wrote' = wrote /\ call' = call
    BY <1>0, <1>2 DEF LoadUser, FindName, Phase, Written
  <2>2. \/ \E a \in Rejections : Answer(r, a)
        \/ \E step \in {"findName", "checkRoles"} :
             /\ Goto(r, step) /\ UNCHANGED reply
             /\ step = "checkRoles" => call[r].op = "create"
        \/ FieldChecks(r) /\ call[r].op = "update"
    BY <1>0, <1>2, <2>1 DEF LoadUser, FindName, Phase, Rejections, Call
  <2>3. CASE \E a \in Rejections : Answer(r, a)
    BY <1>0, <2>1, <2>3 DEF TypeOK, Answer, Goto, Written, Rejections, Replies
  <2>4. CASE \E step \in {"findName", "checkRoles"} :
               /\ Goto(r, step) /\ UNCHANGED reply
               /\ step = "checkRoles" => call[r].op = "create"
    BY <1>0, <2>1, <2>4 DEF TypeOK, Goto, Written, FieldsPart, Rejections, Replies
  <2> QED
    BY <2>1, <2>2, <2>3, <2>4, FieldChecksWrites
<1>3. CASE CheckRoles(r)
  <2>1. /\ wrote[r] = FieldsPart(call[r]) /\ call[r] \in Call /\ reply[r] = Null
        /\ wrote' = wrote /\ call' = call
    BY <1>0, <1>3 DEF CheckRoles, Phase, Written
  <2>2. call[r].op \in {"create", "update"}
    BY <2>1 DEF Call
  <2>3. CASE Answer(r, "InvalidRole")
    BY <1>0, <2>1, <2>2, <2>3 DEF TypeOK, Answer, Goto, Written, FieldsPart, Rejections, Replies
  <2>4. CASE /\ Goto(r, IF call[r].op = "create" THEN "insertUser" ELSE "txDelete")
             /\ UNCHANGED reply
    BY <1>0, <2>1, <2>2, <2>4
    DEF TypeOK, Goto, Written, FieldsPart, UserPart, Rejections, Replies
  <2> QED
    BY <1>3, <2>3, <2>4 DEF CheckRoles
<1> QED
  BY <1>1, <1>2, <1>3

\* The writes, the reads of the answer, and a failure.
LEMMA StatementsWrite ==
  ASSUME NEW r \in Requests, Inductive, Written(r),
         \/ InsertUser(r) \/ UpdateFields(r) \/ TxDelete(r) \/ TxInsert(r) \/ TxCommit(r)
         \/ ReadNames(r) \/ ReadIds(r) \/ Fail(r)
  PROVE  Written(r)'
<1>0. /\ TypeOK /\ Phase(r) /\ call' = call
      /\ pc[r] \notin {"idle", "done"} /\ call[r] \in Call /\ reply[r] = Null
  BY DEF Inductive, PhaseInv, Phase, InsertUser, UpdateFields, TxDelete, TxInsert, TxCommit,
         ReadNames, ReadIds, Fail, Steps
<1> USE ConstantsAssumption
<1>1. CASE Answer(r, "InternalError")
  BY <1>0, <1>1 DEF TypeOK, Answer, Goto, Written, Rejections
<1>2. CASE InsertUser(r) /\ ~Answer(r, "InternalError")
  <2>1. /\ wrote'[r] = {"user"} /\ pc'[r] = "txDelete" /\ reply'[r] = Null
        /\ call[r].op = "create"
    BY <1>0, <1>2 DEF TypeOK, InsertUser, Goto, Written, Phase
  <2> QED
    BY <1>0, <2>1 DEF Written, UserPart, FieldsPart, Rejections, Replies
<1>3. CASE UpdateFields(r) /\ ~Answer(r, "InternalError")
  <2>1. /\ wrote'[r] = {"fields"} /\ reply'[r] = Null
        /\ pc'[r] = StepAfterFields(body(r))
        /\ call[r].op = "update" /\ HasFields(call[r].body)
    BY <1>0, <1>3 DEF TypeOK, UpdateFields, Goto, Written, Phase, body
  <2> QED
    BY <1>0, <2>1 DEF Written, StepAfterFields, FieldsPart, Requested, body, Rejections, Replies
<1>4. CASE TxDelete(r) \/ TxInsert(r)
  <2>1. /\ wrote' = wrote /\ pc[r] \in {"txDelete", "txInsert"} /\ pc'[r] = "txInsert"
        /\ reply'[r] = Null
    BY <1>0, <1>4 DEF TypeOK, TxDelete, TxInsert, Goto, answers
  <2> QED
    BY <1>0, <2>1 DEF Written, Rejections, Replies
<1>5. CASE TxCommit(r) /\ ~Answer(r, "InternalError")
  <2>1. /\ wrote'[r] = wrote[r] \cup {"roles"} /\ pc'[r] = "readNames" /\ reply'[r] = Null
        /\ wrote[r] = UserPart(call[r]) \cup FieldsPart(call[r])
    BY <1>0, <1>5 DEF TypeOK, TxCommit, Goto, Written
  <2>2. call[r].body.roles # Null
    BY <1>0, <1>5 DEF TxCommit, Phase, body
  <2>3. wrote'[r] = Requested(call[r])
    BY <1>0, <2>1, <2>2 DEF Requested, UserPart, FieldsPart, Call
  <2> QED
    BY <1>0, <2>1, <2>3 DEF Written, Rejections, Replies
<1>6. CASE ReadNames(r)
  <2>1. /\ wrote' = wrote /\ pc[r] = "readNames" /\ pc'[r] = "readIds" /\ reply'[r] = Null
    BY <1>0, <1>6 DEF TypeOK, ReadNames, Goto
  <2> QED
    BY <1>0, <2>1 DEF Written, Rejections, Replies
<1>7. CASE ReadIds(r)
  <2>1. /\ wrote' = wrote /\ pc[r] = "readIds" /\ pc'[r] = "done" /\ reply'[r] = "OK"
    BY <1>0, <1>7 DEF TypeOK, ReadIds, Answer, Goto
  <2> QED
    BY <1>0, <2>1 DEF Written, Rejections
<1>8. CASE Fail(r)
  BY <1>1, <1>8 DEF Fail
<1> QED
  BY <1>1, <1>2, <1>3, <1>4, <1>5, <1>6, <1>7, <1>8

LEMMA InitWrites == Init => WritesInv
  BY ConstantsAssumption DEF Init, WritesInv, Written, Rejections, Replies

LEMMA NextWrites ==
  ASSUME Inductive, WritesInv, [Next]_vars
  PROVE  WritesInv'
<1>1. ASSUME NEW r \in Requests, Arrive(r) \/ Serve(r) \/ Fail(r)
      PROVE  WritesInv'
  <2>1. Written(r)'
    BY <1>1, ChecksWrite, StatementsWrite DEF WritesInv, Serve
  <2>2. ASSUME NEW q \in Requests, q # r PROVE Written(q)'
    BY <1>1, <2>2, StepOfOne DEF WritesInv, Written, body
  <2> QED
    BY <2>1, <2>2 DEF WritesInv
<1>2. CASE UNCHANGED vars
  BY <1>2 DEF vars, WritesInv, Written, body
<1> QED
  BY <1>1, <1>2 DEF Next, Quiet

LEMMA WritesInvariant == Spec => []WritesInv
  BY InitWrites, NextWrites, InductiveInvariant, PTL DEF Spec

\* A 200 is given for what is all committed, and a 4xx for what has left no
\* trace, but for the fields of an update whose roles are refused; a commit
\* whose answer is lost gives neither.
THEOREM RepliesMatchWrites == Spec => []ReplyMatchesWrites
<1>1. WritesInv => ReplyMatchesWrites
  BY DEF WritesInv, Written, ReplyMatchesWrites
<1> QED
  BY <1>1, WritesInvariant, PTL

\* The account of a request that has committed roles has some, as no commit
\* takes them all away.
RolelessInv ==
    /\ RolelessOnlyIfCreateUnfinished
    /\ \A r \in Requests :
         "roles" \in wrote[r] => target[r] \in UserIds /\ userRoles[target[r]] # {}

\* What the request that takes a step may do to the work it has done.
LEMMA OwnWork ==
  ASSUME Inductive, WritesInv, NEW r \in Requests, Arrive(r) \/ Serve(r) \/ Fail(r)
  PROVE  /\ wrote[r] \subseteq wrote'[r]
         /\ wrote[r] # {} => target'[r] = target[r]
         /\ reply'[r] = "OK" => "roles" \in wrote[r] \/ "user" \notin wrote[r]
         /\ "roles" \in wrote'[r] => "roles" \in wrote[r] \/ TxCommit(r)
<1>0. TypeOK /\ Phase(r) /\ Written(r) /\ Written(r)'
  BY NextWrites DEF Inductive, PhaseInv, WritesInv, Next
<1>1. CASE Arrive(r) \/ InsertUser(r)
  <2>1. wrote[r] = {}
    BY <1>0, <1>1 DEF Arrive, ArriveCreate, ArriveUpdate, InsertUser, Written
  <2>2. "roles" \notin wrote'[r]
    BY <1>0, <1>1, <2>1 DEF TypeOK, Arrive, ArriveCreate, ArriveUpdate, InsertUser
  <2> QED
    BY <2>1, <2>2
<1>2. CASE ~(Arrive(r) \/ InsertUser(r))
  <2>1. target' = target /\ call' = call
    BY <1>2 DEF Serve, LoadUser, FindName, CheckRoles, UpdateFields, TxDelete, TxInsert,
                TxCommit, ReadNames, ReadIds, Fail
  <2>2. /\ wrote[r] \subseteq wrote'[r]
        /\ "roles" \in wrote'[r] => "roles" \in wrote[r] \/ TxCommit(r)
        /\ "user" \in wrote[r] <=> "user" \in wrote'[r]
    <3>1. CASE UpdateFields(r) \/ TxCommit(r)
      BY <1>0, <3>1 DEF TypeOK, UpdateFields, TxCommit
    <3>2. CASE ~(UpdateFields(r) \/ TxCommit(r))
      <4>1. wrote' = wrote
        BY <1>2, <3>2 DEF Serve, LoadUser, FindName, CheckRoles, TxDelete, TxInsert, ReadNames,
                          ReadIds, Fail
      <4> QED
        BY <4>1
    <3> QED
      BY <3>1, <3>2
  <2>3. reply'[r] = "OK" => "roles" \in wrote'[r] \/ "user" \notin wrote'[r]
    BY <1>0 DEF Written, Requested
  <2>4. TxCommit(r) => reply'[r] # "OK"
    BY <1>0, ConstantsAssumption DEF TxCommit, TypeOK, Phase, Answer, Goto, Replies
  <2> QED
    BY <2>1, <2>2, <2>3, <2>4
<1> QED
  BY <1>1, <1>2

\* A row that appears is one a request has inserted.
LEMMA RowsAppear ==
  ASSUME Inductive, NEW r \in Requests, Arrive(r) \/ Serve(r) \/ Fail(r),
         NEW u \in UserIds, users[u] = Null, users'[u] # Null
  PROVE  "user" \in wrote'[r] /\ target'[r] = u /\ reply'[r] # "OK"
<1>0. TypeOK /\ Phase(r)
  BY DEF Inductive, PhaseInv
<1>1. ~UpdateFields(r)
  BY <1>0 DEF UpdateFields, Phase, Exists, TypeOK
<1>2. InsertUser(r)
  BY <1>1 DEF Serve, Arrive, ArriveCreate, ArriveUpdate, LoadUser, FindName, CheckRoles,
              TxDelete, TxInsert, TxCommit, ReadNames, ReadIds, Fail, tables
<1>3. reply'[r] # "OK"
  BY <1>0, <1>2, ConstantsAssumption DEF InsertUser, TypeOK, Phase, Answer, Goto, Replies
<1> QED
  BY <1>0, <1>2, <1>3 DEF InsertUser, TypeOK

LEMMA InitRoleless == Init => RolelessInv
<1> SUFFICES ASSUME Init PROVE RolelessInv
  OBVIOUS
<1>1. \A u \in UserIds : users[u] # Null => userRoles[u] # {}
  BY SeedAssumption DEF Init
<1> QED
  BY <1>1 DEF Init, RolelessInv, RolelessOnlyIfCreateUnfinished

LEMMA NextRoleless ==
  ASSUME Inductive, WritesInv, RolelessInv, NEW r \in Requests, Arrive(r) \/ Serve(r) \/ Fail(r)
  PROVE  RolelessInv'
<1>0. TypeOK
  BY DEF Inductive
<1>n. Next
  BY DEF Next
<1>1. ASSUME NEW u \in UserIds, userRoles'[u] = {} PROVE userRoles[u] = {}
  <2>1. CASE \E q \in Requests : TxCommit(q)
    BY <1>0, <1>1, <2>1, CommitIsWhole DEF TypeOK
  <2> QED
    BY <1>n, <1>1, <2>1, OnlyCommitAssigns
<1>2. ASSUME NEW u \in UserIds, users'[u] # Null, userRoles'[u] = {}
      PROVE  \E q \in Requests :
               "user" \in wrote'[q] /\ target'[q] = u /\ reply'[q] # "OK"
  <2>1. CASE users[u] = Null
    BY <1>2, <2>1, RowsAppear
  <2>2. CASE users[u] # Null
    <3>1. PICK q \in Requests : "user" \in wrote[q] /\ target[q] = u /\ reply[q] # "OK"
      BY <1>1, <1>2, <2>2 DEF RolelessInv, RolelessOnlyIfCreateUnfinished
    <3>2. CASE q # r
      BY <3>1, <3>2, StepOfOne
    <3>3. CASE q = r
      <4>1. "roles" \notin wrote[r]
        BY <1>1, <1>2, <3>1, <3>3 DEF RolelessInv
      <4> QED
        BY <3>1, <3>3, <4>1, OwnWork
    <3> QED
      BY <3>2, <3>3
  <2> QED
    BY <2>1, <2>2
<1>3. ASSUME NEW q \in Requests, "roles" \in wrote'[q] 
      PROVE  target'[q] \in UserIds /\ userRoles'[target'[q]] # {}
  <2>1. CASE "roles" \in wrote[q]
    <3>1. target'[q] = target[q] /\ target[q] \in UserIds /\ userRoles[target[q]] # {}
      BY <1>n, <2>1, CommittedRolesStay DEF RolelessInv
    <3> QED
      BY <1>1, <3>1
  <2>2. CASE "roles" \notin wrote[q]
    <3>1. q = r /\ TxCommit(r)
      BY <1>3, <2>2, StepOfOne, OwnWork
    <3>2. target'[q] = target[q]
      BY <3>1 DEF TxCommit
    <3> QED
      BY <1>0, <3>1, <3>2, CommitIsWhole DEF TypeOK, Exists
  <2> QED
    BY <2>1, <2>2
<1> QED
  BY <1>2, <1>3 DEF RolelessInv, RolelessOnlyIfCreateUnfinished

\* An account that is left without roles is the work of a create that has not
\* been answered with 200, however updates of the same account interleave.
THEOREM RolelessByUnfinishedCreate == Spec => []RolelessOnlyIfCreateUnfinished
<1>1. RolelessInv => RolelessOnlyIfCreateUnfinished
  BY DEF RolelessInv
<1>2. UNCHANGED vars /\ RolelessInv => RolelessInv'
  BY DEF vars, RolelessInv, RolelessOnlyIfCreateUnfinished
<1>3. Inductive /\ WritesInv /\ RolelessInv /\ [Next]_vars => RolelessInv'
  BY <1>2, NextRoleless DEF Next, Quiet
<1> QED
  BY <1>1, <1>3, InitRoleless, InductiveInvariant, WritesInvariant, PTL DEF Spec

-----------------------------------------------------------------------------
(* Refinement of UserDirectory.                                            *)

\* A request that has not arrived has asked for nothing.
AskedInv == \A r \in Requests : pc[r] = "idle" => call[r] = Null

LEMMA AsksAreCalls ==
  /\ \A actor \in UserIds, b \in CreateBodies :
        [op |-> "create", actor |-> actor, id |-> Null, body |-> b] \in Asks
  /\ \A actor, id \in UserIds, b \in UpdateBodies :
        [op |-> "update", actor |-> actor, id |-> id, body |-> b] \in Asks
  BY DEF Asks

\* A step leaves a request under way, or answered.
LEMMA StepMoves ==
  ASSUME Inductive, NEW r \in Requests, Arrive(r) \/ Serve(r) \/ Fail(r)
  PROVE  pc'[r] # "idle" /\ (Serve(r) \/ Fail(r) => pc[r] \notin {"idle", "done"})
<1>0. TypeOK /\ (pc[r] # "idle" => call[r] \in Call)
  BY DEF Inductive, PhaseInv, Phase
<1>1. CASE Arrive(r)
  BY <1>0, <1>1 DEF TypeOK, Arrive, ArriveCreate, ArriveUpdate, Answer, Goto, Serve, Fail,
     LoadUser, FindName, CheckRoles, InsertUser, UpdateFields, TxDelete, TxInsert, TxCommit,
     ReadNames, ReadIds
<1>2. CASE LoadUser(r) \/ FindName(r) \/ CheckRoles(r)
  <2>1. pc[r] \notin {"idle", "done"}
    BY <1>2 DEF LoadUser, FindName, CheckRoles
  <2>2. \/ \E a \in Replies : Answer(r, a)
        \/ \E step \in Steps \ {"idle"} : Goto(r, step)
        \/ FieldChecks(r) /\ call[r] \in Call
    BY <1>0, <1>2 DEF LoadUser, FindName, CheckRoles, Replies, Rejections, Steps
  <2>3. pc'[r] # "idle"
    BY <1>0, <2>2 DEF TypeOK, Answer, Goto, FieldChecks, StepAfterFields
  <2>4. QED
    BY <2>1, <2>3
<1>3. CASE \/ InsertUser(r) \/ UpdateFields(r) \/ TxDelete(r) \/ TxInsert(r) \/ TxCommit(r)
           \/ ReadNames(r) \/ ReadIds(r) \/ Fail(r)
  BY <1>0, <1>3
  DEF TypeOK, InsertUser, UpdateFields, TxDelete, TxInsert, TxCommit, ReadNames, ReadIds, Fail,
      Answer, Goto, StepAfterFields
<1>4. QED
  BY <1>1, <1>2, <1>3 DEF Serve

LEMMA NextAsked == Inductive /\ AskedInv /\ [Next]_vars => AskedInv'
<1> SUFFICES ASSUME Inductive, AskedInv, [Next]_vars PROVE AskedInv'
  OBVIOUS
<1>1. ASSUME NEW r \in Requests, Arrive(r) \/ Serve(r) \/ Fail(r) PROVE AskedInv'
  <2>1. pc'[r] # "idle"
    BY <1>1, StepMoves
  <2>2. QED
    BY <1>1, <2>1, StepOfOne DEF AskedInv
<1>2. CASE UNCHANGED vars
  BY <1>2 DEF vars, AskedInv
<1>3. QED
  BY <1>1, <1>2 DEF Next, Quiet

\* What the abstract directory calls the writes of a call is what is Requested.
LEMMA WritesRequested == \A c \in Call : Directory!Writes(c) = Requested(c)
  BY DEF Directory!Writes, Requested, HasFields

\* A step of a request changes what is left to do of that request only.
LEMMA OwnLeft ==
  ASSUME Inductive, NEW r \in Requests, Arrive(r) \/ Serve(r) \/ Fail(r)
  PROVE  ToWrite' = [ToWrite EXCEPT ![r] = Left(r)']
<1>1. \A q \in Requests \ {r} : Left(q)' = Left(q)
  BY StepOfOne DEF Left
<1>2. QED
  BY <1>1 DEF ToWrite

\* A request arrives: it is asked for.
LEMMA ArriveAsks ==
  ASSUME Inductive, AskedInv, NEW r \in Requests, Arrive(r)
  PROVE  \E c \in Asks : Directory!Ask(r, c)
<1>1. TypeOK /\ pc[r] = "idle" /\ call[r] = Null /\ wrote[r] = {} /\ wrote' = wrote
  BY DEF Inductive, PhaseInv, Phase, AskedInv, Arrive, ArriveCreate, ArriveUpdate
<1>2. PICK c \in Asks :
        /\ call' = [call EXCEPT ![r] = c]
        /\ target' = IF c.op = "update" THEN [target EXCEPT ![r] = c.id] ELSE target
  <2>1. ASSUME NEW actor \in UserIds, NEW b \in CreateBodies, ArriveCreate(r, actor, b)
        PROVE  \E c \in Asks :
                 /\ call' = [call EXCEPT ![r] = c]
                 /\ target' = IF c.op = "update" THEN [target EXCEPT ![r] = c.id] ELSE target
    <3> DEFINE c == [op |-> "create", actor |-> actor, id |-> Null, body |-> b]
    <3>1. c \in Asks /\ c.op # "update"
      BY AsksAreCalls
    <3>2. call' = [call EXCEPT ![r] = c] /\ target' = target
      BY <2>1 DEF ArriveCreate
    <3> HIDE DEF c
    <3>3. QED
      BY <3>1, <3>2
  <2>2. ASSUME NEW actor \in UserIds, NEW id \in UserIds, NEW b \in UpdateBodies,
               ArriveUpdate(r, actor, id, b)
        PROVE  \E c \in Asks :
                 /\ call' = [call EXCEPT ![r] = c]
                 /\ target' = IF c.op = "update" THEN [target EXCEPT ![r] = c.id] ELSE target
    <3> DEFINE c == [op |-> "update", actor |-> actor, id |-> id, body |-> b]
    <3>1. c \in Asks /\ c.op = "update" /\ c.id = id
      BY AsksAreCalls
    <3>2. call' = [call EXCEPT ![r] = c] /\ target' = [target EXCEPT ![r] = id]
      BY <2>2 DEF ArriveUpdate
    <3> HIDE DEF c
    <3>3. QED
      BY <3>1, <3>2
  <2>3. QED
    BY <2>1, <2>2 DEF Arrive
<1>3. c \in Call /\ call'[r] = c
  <2>1. c \in Call
    BY SeedAssumption DEF Asks, Call
  <2>2. QED
    BY <1>1, <1>2, <2>1 DEF TypeOK
<1>4. UNCHANGED <<users, userRoles>>
  BY DEF Arrive, ArriveCreate, ArriveUpdate, tables
<1>5. Left(r) = {} /\ Left(r)' \in {{}, Requested(c)}
  BY <1>1, <1>3 DEF Left
<1>6. ToWrite' \in {ToWrite, [ToWrite EXCEPT ![r] = Directory!Writes(c)]}
  <2>1. ToWrite' = [ToWrite EXCEPT ![r] = Left(r)']
    BY OwnLeft
  <2>2. ToWrite = [ToWrite EXCEPT ![r] = {}]
    BY <1>5 DEF ToWrite
  <2>3. QED
    BY <1>3, <1>5, <2>1, <2>2, WritesRequested
<1>7. Directory!Ask(r, c)
  BY <1>1, <1>2, <1>4, <1>6 DEF Directory!Ask
<1>8. QED
  BY <1>7

\* One of its writes has happened.
LEMMA OneWritten ==
  ASSUME Inductive, NEW r \in Requests, Serve(r), NEW w \in Left(r),
         pc[r] \notin {"idle", "done"}, call' = call, wrote' = [wrote EXCEPT ![r] = @ \cup {w}]
  PROVE  Directory!Written(r, w)
<1>1. ToWrite' = [ToWrite EXCEPT ![r] = Left(r)'] /\ ToWrite[r] = Left(r)
  BY OwnLeft DEF ToWrite
<1>2. Left(r)' \in {Left(r) \ {w}, {}}
  <2>1. wrote'[r] = wrote[r] \cup {w}
    BY DEF Inductive, TypeOK
  <2>2. QED
    BY <2>1 DEF Left
<1>3. QED
  BY <1>1, <1>2 DEF Directory!Written

LEMMA InsertUserAdds ==
  ASSUME Inductive, WritesInv, NEW r \in Requests, InsertUser(r), users' # users
  PROVE  \E u \in UserIds : Directory!AddUser(r, u)
<1>1. /\ TypeOK /\ body(r) \in Body /\ CreateBinds(body(r)) /\ call[r].op = "create"
      /\ wrote[r] = {} /\ call' = call /\ UNCHANGED userRoles
  BY DEF Inductive, PhaseInv, Phase, WritesInv, Written, InsertUser, Call, body
<1>2. PICK u \in UserIds :
        /\ users[u] = Null /\ NameFree(body(r).username, u)
        /\ users' = [users EXCEPT ![u] = [username |-> body(r).username,
                                          status |-> CreateStatus(body(r))]]
        /\ target' = [target EXCEPT ![r] = u]
        /\ wrote' = [wrote EXCEPT ![r] = @ \cup {"user"}]
  BY DEF InsertUser, UniqueKeyAllows
<1>3. "user" \in Left(r) /\ pc[r] \notin {"idle", "done"}
  BY <1>1 DEF Left, Requested, InsertUser
<1>4. Directory!Written(r, "user")
  BY <1>1, <1>2, <1>3, OneWritten DEF Serve
<1>5. Directory!NewRow(call[r].body) = [username |-> body(r).username,
                                        status |-> CreateStatus(body(r))]
  BY DEF Directory!NewRow, CreateStatus, body
<1>6. Directory!AddUser(r, u)
  BY <1>1, <1>2, <1>4, <1>5 DEF Directory!AddUser, Directory!Free, NameFree, body
<1>7. QED
  BY <1>6

LEMMA UpdateFieldsEdits ==
  ASSUME Inductive, WritesInv, NEW r \in Requests, UpdateFields(r), wrote' # wrote
  PROVE  Directory!EditUser(r)
<1> DEFINE row == UpdatedRow(users[target[r]], body(r))
<1>1. /\ Exists(target[r]) /\ call[r].op = "update" /\ HasFields(call[r].body) /\ wrote[r] = {}
      /\ UNCHANGED <<call, target, userRoles>>
  BY DEF Inductive, PhaseInv, Phase, WritesInv, Written, UpdateFields, body
<1>2. /\ NameFree(row.username, target[r])
      /\ users' = [users EXCEPT ![target[r]] = row]
      /\ wrote' = [wrote EXCEPT ![r] = @ \cup {"fields"}]
  BY DEF UpdateFields, UniqueKeyAllows
<1>3. "fields" \in Left(r) /\ pc[r] \notin {"idle", "done"}
  BY <1>1 DEF Left, Requested, UpdateFields
<1>4. Directory!Written(r, "fields")
  BY <1>1, <1>2, <1>3, OneWritten DEF Serve
<1>5. Directory!EditedRow(users[target[r]], call[r].body) = row
  BY DEF Directory!EditedRow, UpdatedRow, body
<1> HIDE DEF row
<1>6. QED
  BY <1>1, <1>2, <1>4, <1>5 DEF Directory!EditUser, Directory!Free, NameFree, Exists

LEMMA CommitAssigns ==
  ASSUME Inductive, WritesInv, NEW r \in Requests, TxCommit(r)
  PROVE  Directory!AssignRoles(r)
<1>1. /\ Exists(target[r]) /\ body(r).roles \in (SUBSET Roles) \ {{}}
      /\ userRoles' = [userRoles EXCEPT ![target[r]] = body(r).roles]
      /\ UNCHANGED <<users, call, target>> /\ pc[r] \notin {"idle", "done"}
      /\ wrote' = [wrote EXCEPT ![r] = @ \cup {"roles"}]
  BY CommitIsWhole DEF TxCommit
<1>2. call[r] \in Call /\ wrote[r] = UserPart(call[r]) \cup FieldsPart(call[r])
  BY DEF Inductive, PhaseInv, Phase, WritesInv, Written, TxCommit
<1>3. body(r).roles # Null
  BY <1>1, ConstantsAssumption
<1>4. Left(r) = {"roles"}
  BY <1>1, <1>2, <1>3 DEF Left, Requested, UserPart, FieldsPart, body, Call
<1>5. Directory!Written(r, "roles")
  BY <1>1, <1>4, OneWritten DEF Serve
<1>6. ToWrite[r] = {"roles"}
  BY <1>4 DEF ToWrite
<1>7. QED
  BY <1>1, <1>5, <1>6 DEF Directory!AssignRoles, Exists, body

\* A step that writes nothing goes on, or ends the request.
LEMMA NoWrite ==
  ASSUME Inductive, NEW r \in Requests, Serve(r) \/ Fail(r),
         UNCHANGED <<users, userRoles, call, target, wrote>>
  PROVE  Directory!GiveUp(r) \/ UNCHANGED Directory!vars
<1>1. ToWrite' = [ToWrite EXCEPT ![r] = Left(r)'] /\ ToWrite[r] = Left(r)
  BY OwnLeft DEF ToWrite
<1>2. Left(r)' \in {Left(r), {}}
  BY StepMoves DEF Left
<1>3. ToWrite = [ToWrite EXCEPT ![r] = Left(r)]
  BY DEF ToWrite
<1>4. QED
  BY <1>1, <1>2, <1>3 DEF Directory!GiveUp, Directory!vars

\* Every step is a step of the directory or leaves it alone.
LEMMA StepsRefine ==
  ASSUME Inductive, WritesInv, AskedInv, [Next]_vars
  PROVE  [Directory!Next]_(Directory!vars)
<1>1. ASSUME NEW r \in Requests, Arrive(r) PROVE Directory!Next
  BY <1>1, ArriveAsks DEF Directory!Next
<1>2. ASSUME NEW r \in Requests, Serve(r) \/ Fail(r)
      PROVE  Directory!Next \/ UNCHANGED Directory!vars
  <2>1. CASE UNCHANGED <<users, userRoles, call, target, wrote>>
    BY <1>2, <2>1, NoWrite DEF Directory!Next
  <2>2. CASE InsertUser(r) /\ users' # users
    BY <2>2, InsertUserAdds DEF Directory!Next
  <2>3. CASE UpdateFields(r) /\ wrote' # wrote
    BY <2>3, UpdateFieldsEdits DEF Directory!Next
  <2>4. CASE TxCommit(r)
    BY <2>4, CommitAssigns DEF Directory!Next
  <2>5. \/ UNCHANGED <<users, userRoles, call, target, wrote>>
        \/ InsertUser(r) /\ users' # users
        \/ UpdateFields(r) /\ wrote' # wrote
        \/ TxCommit(r)
    <3>1. ASSUME InsertUser(r), users' = users
          PROVE  UNCHANGED <<users, userRoles, call, target, wrote>>
      <4>1. ASSUME NEW u \in UserIds, users[u] = Null,
                   users' = [users EXCEPT ![u] = [username |-> body(r).username,
                                                  status |-> CreateStatus(body(r))]]
            PROVE  FALSE
        <5>1. [username |-> body(r).username, status |-> CreateStatus(body(r))] \in Row
          BY <3>1 DEF Inductive, PhaseInv, Phase, InsertUser, Call, body, Body, CreateBinds,
                      CreateStatus, Row, Status
        <5>2. QED
          BY <3>1, <4>1, <5>1, ConstantsAssumption DEF Inductive, TypeOK
      <4>2. QED
        BY <3>1, <4>1 DEF InsertUser
    <3>2. ASSUME UpdateFields(r), wrote' = wrote
          PROVE  UNCHANGED <<users, userRoles, call, target, wrote>>
      <4>1. wrote' # [wrote EXCEPT ![r] = @ \cup {"fields"}]
        <5>1. wrote \in [Requests -> SUBSET {"user", "fields", "roles"}]
          BY DEF Inductive, TypeOK
        <5>2. wrote[r] = {}
          BY <3>2 DEF WritesInv, Written, UpdateFields
        <5>3. QED
          BY <3>2, <5>1, <5>2
      <4>2. QED
        BY <3>2, <4>1 DEF UpdateFields
    <3>3. ASSUME \/ LoadUser(r) \/ FindName(r) \/ CheckRoles(r) \/ TxDelete(r) \/ TxInsert(r)
                 \/ ReadNames(r) \/ ReadIds(r) \/ Fail(r)
          PROVE  UNCHANGED <<users, userRoles, call, target, wrote>>
      BY <3>3
      DEF LoadUser, FindName, CheckRoles, TxDelete, TxInsert, ReadNames, ReadIds, Fail, Isolated,
          tables
    <3>4. QED
      BY <1>2, <3>1, <3>2, <3>3 DEF Serve
  <2>6. QED
    BY <2>1, <2>2, <2>3, <2>4, <2>5
<1>3. CASE UNCHANGED vars
  BY <1>3 DEF vars, Directory!vars, ToWrite, Left
<1>4. QED
  BY <1>1, <1>2, <1>3 DEF Next, Quiet

\* Statement by statement, with failures at any of them, every create and update
\* makes each of its writes at most once, in order, and exactly as it asked.
THEOREM RefinesDirectory == Spec => ImplementsDirectory
<1>1. Init => Directory!Init /\ AskedInv
  BY DEF Init, Directory!Init, AskedInv, ToWrite, Left
<1>2. Inductive /\ WritesInv /\ AskedInv /\ [Next]_vars => [Directory!Next]_(Directory!vars)
  BY StepsRefine
<1> QED
  BY <1>1, <1>2, NextAsked, InductiveInvariant, WritesInvariant, PTL
     DEF Spec, ImplementsDirectory, Directory!Spec

=============================================================================
