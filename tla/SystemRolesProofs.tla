-------------------------- MODULE SystemRolesProofs --------------------------
(***************************************************************************)
(* Proofs about SystemRoles.tla for any number of requests, roles, codes   *)
(* and accounts.                                                           *)
(*                                                                         *)
(* A transaction knows what it will leave behind because nobody else gets  *)
(* in: an update holds the lock of the rows it has deleted, a create holds *)
(* the code it has inserted and an id no other transaction works on        *)
(* (Holding, Apart).  What a reader has read was the latest set when it    *)
(* read it, and no set leaves the history again (Reading).                 *)
(***************************************************************************)
EXTENDS SystemRoles, SequenceTheorems, TLAPS

Live(i) == i \in RoleIds /\ roles[i] # Null

\* What a request has established before the statement pc[r] ...
Checked(r) ==
    /\ pc[r] # "idle" => call[r] \in Call
    /\ pc[r] # "done" => reply[r] = Null
    /\ pc[r] \in {"findCode", "insertRole"} => call[r].op = "create"
    /\ pc[r] = "findRole" => call[r].op \in {"update", "get"} /\ target[r] \in RoleIds
    /\ pc[r] \in {"mapCodes", "txInsert"} => call[r].op \in {"create", "update"}
    /\ pc[r] = "txDelete" => call[r].op = "update"
    /\ pc[r] = "check" => call[r].op = "check"
    /\ pc[r] = "listRoles" => call[r].op = "list"
    /\ pc[r] \in {"mapCodes", "txDelete", "txInsert"} /\ call[r].op = "update"
         => Live(target[r])
    /\ pc[r] \in {"insertRole", "txDelete", "txInsert"} => Wanted(r) \subseteq Perms
    /\ pc[r] \in {"findCode", "mapCodes", "insertRole"} /\ call[r].op = "create"
         => target[r] = Null
    /\ pc[r] = "done" /\ call[r].op = "create" /\ reply[r] \in Rejections
         => target[r] = Null

\* ... what its transaction has done, and keeps from the others ...
Holding(r) ==
    /\ pc[r] \notin {"txInsert", "readCodes", "done"} => inserted[r] = {} /\ deleted[r] = {}
    /\ pc[r] = "txInsert" =>
         /\ target[r] \in RoleIds
         /\ inserted[r] \subseteq Wanted(r)
         /\ call[r].op = "update" =>
              rowLock[target[r]] = r /\ deleted[r] = rolePerms[target[r]]
         /\ call[r].op = "create" =>
              /\ roles[target[r]] = Null /\ deleted[r] = {}
              /\ codeLock[Code(r)] = r /\ ~Exists(Code(r))

\* ... and what it has read.
Fresh(r, i) ==
    \E n \in DOMAIN hist[i] : n >= since[r][i] /\ seen[r][i] = hist[i][n]

Reading(r) ==
    /\ \A i \in RoleIds : since[r][i] <= Len(hist[i])
    /\ pc[r] \notin {"readCodes", "done"} =>
         todo[r] = {} /\ \A i \in RoleIds : seen[r][i] = Null
    /\ \A i \in RoleIds : seen[r][i] # Null => Fresh(r, i)
    /\ \A i \in todo[r] : Live(i)
    /\ pc[r] = "readCodes" \/ (pc[r] = "done" /\ reply[r] = "OK") =>
         /\ call[r].op = "create" =>
              /\ target[r] \in RoleIds /\ roles[target[r]] = Code(r)
              /\ target[r] \in todo[r] \/ seen[r][target[r]] # Null
         /\ call[r].op = "list" =>
              \A i \in RoleIds : since[r][i] > 0 => i \in todo[r] \/ seen[r][i] # Null
    /\ reply[r] = "OK" => todo[r] = {}

Phase(r) == Checked(r) /\ Holding(r) /\ Reading(r)
PhaseInv == \A r \in Requests : Phase(r)

\* No two open transactions work on one role.
Apart ==
    \A q, r \in Requests :
        pc[q] = "txInsert" /\ pc[r] = "txInsert" /\ target[q] = target[r] => q = r

\* Accounts hold roles that exist.
HeldInv == \A u \in Users : \A i \in userRoles[u] : Live(i)

Inductive ==
    TypeOK /\ PhaseInv /\ Apart /\ HeldInv /\ CodeUnique /\ LastCommitWins

-----------------------------------------------------------------------------
\* The facts about values that every step needs.
LEMMA NoNull ==
  /\ Null \notin Texts /\ Null \notin RoleIds /\ Null \notin Call
  /\ Null \notin {"OK", "InternalError", "Allowed", "Forbidden"}
  /\ Null \notin Rejections /\ Null \notin Requests
  /\ \A perms \in SUBSET Perms : Null # perms
BY ConstantsAssumption DEF Replies, Verdicts

LEMMA InitInductive == Init => Inductive
<1> SUFFICES ASSUME Init PROVE Inductive
  OBVIOUS
<1> USE NoNull, ConstantsAssumption, SeedAssumption
<1>1. TypeOK
  <2>1. ASSUME NEW i \in RoleIds PROVE hist[i] \in Seq(SUBSET Perms)
    <3>1. CASE Seeded(i)
      <4>1. SeedPerms[i] \in SUBSET Perms /\ hist[i] = <<SeedPerms[i]>>
        BY <3>1 DEF Init, Seeded
      <4>2. \A x \in SUBSET Perms : <<x>> \in Seq(SUBSET Perms)
        OBVIOUS
      <4> QED
        BY <4>1, <4>2
    <3>2. CASE ~Seeded(i)
      <4>1. hist[i] = <<>>
        BY <3>2 DEF Init
      <4> QED
        BY <4>1
    <3> QED
      BY <3>1, <3>2
  <2>2. hist \in [RoleIds -> Seq(SUBSET Perms)]
    BY <2>1 DEF Init
  <2>3. since \in [Requests -> [RoleIds -> Nat]]
    BY DEF Init
  <2>4. seen \in [Requests -> [RoleIds -> (SUBSET Perms) \cup {Null}]]
    BY DEF Init
  <2>5. /\ roles \in [RoleIds -> Texts \cup {Null}]
        /\ rolePerms \in [RoleIds -> SUBSET Perms]
        /\ userRoles \in [Users -> SUBSET RoleIds]
    BY DEF Init, Seeded
  <2> QED
    BY <2>2, <2>3, <2>4, <2>5 DEF Init, TypeOK, Steps
<1>2. PhaseInv
  <2> SUFFICES ASSUME NEW r \in Requests PROVE Phase(r)
    BY DEF PhaseInv
  <2>1. pc[r] = "idle" /\ reply[r] = Null /\ inserted[r] = {} /\ deleted[r] = {}
    BY DEF Init
  <2>2. todo[r] = {} /\ \A i \in RoleIds : seen[r][i] = Null /\ since[r][i] = 0
    BY DEF Init
  <2>3. \A i \in RoleIds : Len(hist[i]) \in Nat
    BY <1>1 DEF TypeOK
  <2> QED
    BY <2>1, <2>2, <2>3 DEF Phase, Checked, Holding, Reading
<1>3. Apart
  BY DEF Init, Apart
<1>4. HeldInv
  BY DEF Init, HeldInv, Live, Seeded
<1>5. CodeUnique
  BY DEF Init, CodeUnique, Seeded
<1>6. LastCommitWins
  BY DEF Init, LastCommitWins, Latest, Seeded
<1> QED
  BY <1>1, <1>2, <1>3, <1>4, <1>5, <1>6 DEF Inductive

\* A step of one request leaves the others where they are ...
Same(q) ==
    /\ pc'[q] = pc[q] /\ call'[q] = call[q] /\ target'[q] = target[q]
    /\ deleted'[q] = deleted[q] /\ inserted'[q] = inserted[q] /\ todo'[q] = todo[q]
    /\ seen'[q] = seen[q] /\ reply'[q] = reply[q] /\ since'[q] = since[q]

\* ... takes no role and no history away, and no lock of theirs; what their
\* transactions work on stays.
Grows ==
    \A i \in RoleIds :
        /\ roles[i] # Null => roles'[i] = roles[i]
        /\ Len(hist[i]) <= Len(hist'[i])
        /\ \A n \in DOMAIN hist[i] : n \in DOMAIN hist'[i] /\ hist'[i][n] = hist[i][n]

Respects(q) ==
    /\ \A i \in RoleIds : rowLock[i] = q => rowLock'[i] = q
    /\ \A t \in Texts : codeLock[t] = q => codeLock'[t] = q
    /\ pc[q] = "txInsert" =>
         /\ rolePerms'[target[q]] = rolePerms[target[q]]
         /\ roles'[target[q]] = roles[target[q]]
         /\ call[q].op = "create" /\ ~Exists(Code(q)) => ~Exists(Code(q))'

LEMMA CodeInTexts ==
  ASSUME NEW r \in Requests, call[r] \in Call, call[r].op = "create"
  PROVE  Code(r) \in Texts
BY ConstantsAssumption DEF Call, Code

LEMMA SamePhase ==
  ASSUME NEW q \in Requests, TypeOK, TypeOK', Phase(q), Same(q), Grows, Respects(q)
  PROVE  Phase(q)'
<1> USE NoNull DEF Same
<1>1. Checked(q)'
  BY DEF Phase, Checked, Grows, Live, Wanted, uniqueStrings
<1>2. Holding(q)'
  <2>1. Code(q)' = Code(q) /\ Wanted(q)' = Wanted(q)
    BY DEF Code, Wanted, uniqueStrings
  <2>2. pc[q] = "txInsert" /\ call[q].op = "create" => Code(q) \in Texts
    BY CodeInTexts DEF Phase, Checked
  <2> QED
    BY <2>1, <2>2 DEF Phase, Checked, Holding, Respects
<1>3. Reading(q)'
  <2>1. \A i \in RoleIds : Fresh(q, i) => Fresh(q, i)'
    BY DEF Fresh, Grows
  <2>2. \A i \in RoleIds : since'[q][i] <= Len(hist'[i])
    <3>1. \A i \in RoleIds : /\ since[q][i] \in Nat /\ Len(hist[i]) \in Nat
                             /\ Len(hist'[i]) \in Nat
      BY DEF TypeOK
    <3> QED
      BY <3>1 DEF Phase, Reading, Grows
  <2>3. Code(q)' = Code(q)
    BY DEF Code
  <2>4. call[q] \in Call /\ call[q].op = "create" => Code(q) # Null
    BY CodeInTexts
  <2> QED
    BY <2>1, <2>2, <2>3, <2>4 DEF Phase, Checked, Reading, Grows, Live
<1> QED
  BY <1>1, <1>2, <1>3 DEF Phase

\* Every step but a commit leaves the tables alone.
LEMMA OwnStep ==
  ASSUME Inductive, NEW r \in Requests, UNCHANGED <<roles, rolePerms, hist>>,
         \A q \in Requests : q # r => Same(q),
         \A q \in Requests : q # r =>
            /\ \A i \in RoleIds : rowLock[i] = q => rowLock'[i] = q
            /\ \A t \in Texts : codeLock[t] = q => codeLock'[t] = q,
         TypeOK', Phase(r)', HeldInv', Apart'
  PROVE  Inductive'
<1> USE DEF Inductive
<1>1. Grows
  BY DEF Grows, TypeOK
<1>2. ASSUME NEW q \in Requests, q # r PROVE Phase(q)'
  <2>1. Respects(q)
    BY <1>2 DEF Respects, Exists, Same, Code
  <2> QED
    BY <1>1, <1>2, <2>1, SamePhase DEF PhaseInv
<1>3. CodeUnique' /\ LastCommitWins'
  BY DEF CodeUnique, LastCommitWins, Latest
<1> QED
  BY <1>2, <1>3 DEF PhaseInv

-----------------------------------------------------------------------------
(* Steps that write nothing.                                               *)

LEMMA ReadStep ==
  ASSUME Inductive, NEW r \in Requests,
         UNCHANGED <<tables, locks, call, target, tx, past>>,
         NEW step \in Steps \ {"txInsert"}, NEW a \in Replies \cup {Null},
         pc' = [pc EXCEPT ![r] = step], reply' = [reply EXCEPT ![r] = a],
         \A q \in Requests : q # r => todo'[q] = todo[q] /\ seen'[q] = seen[q],
         TypeOK', Phase(r)'
  PROVE  Inductive'
<1> USE DEF Inductive, tables, locks, tx, past
<1>1. \A q \in Requests : q # r => Same(q)
  BY DEF Same, TypeOK
<1>2. HeldInv'
  BY DEF HeldInv, Live
<1>3. Apart'
  BY DEF Apart, TypeOK
<1> QED
  BY <1>1, <1>2, <1>3, OwnStep

\* A request that ends without reading anything more.
LEMMA EndPhase ==
  ASSUME NEW r \in Requests, TypeOK, Phase(r), pc[r] # "idle",
         UNCHANGED <<roles, call, target, tx, reads, past>>,
         NEW a \in Replies \ {"OK"}, Answer(r, a),
         call[r].op = "create" /\ a \in Rejections => target[r] = Null
  PROVE  /\ Phase(r)'
         /\ pc' = [pc EXCEPT ![r] = "done"] /\ reply' = [reply EXCEPT ![r] = a]
<1> USE NoNull DEF tx, reads, past
<1>1. pc' = [pc EXCEPT ![r] = "done"] /\ reply' = [reply EXCEPT ![r] = a]
  BY DEF Answer, Goto
<1>2. pc'[r] = "done" /\ reply'[r] = a
  BY <1>1 DEF TypeOK
<1>3. Checked(r)' /\ Holding(r)'
  BY <1>2 DEF Phase, Checked, Holding
<1>4. Reading(r)'
  BY <1>2 DEF Phase, Reading, Fresh, Live
<1> QED
  BY <1>1, <1>3, <1>4 DEF Phase

LEMMA EndStep ==
  ASSUME Inductive, NEW r \in Requests, pc[r] # "idle",
         UNCHANGED <<tables, locks, call, target, tx, reads, past>>,
         NEW a \in Replies \ {"OK"}, Answer(r, a),
         call[r].op = "create" /\ a \in Rejections => target[r] = Null
  PROVE  Inductive'
<1>1. /\ Phase(r)'
      /\ pc' = [pc EXCEPT ![r] = "done"] /\ reply' = [reply EXCEPT ![r] = a]
  BY EndPhase DEF Inductive, PhaseInv, tables
<1>2. TypeOK'
  BY <1>1 DEF Inductive, TypeOK, Steps, tables, locks, tx, reads, past
<1> QED
  BY <1>1, <1>2, ReadStep DEF Steps, reads

LEMMA ArriveStep ==
  ASSUME Inductive, NEW r \in Requests, NEW c \in Calls, Arrive(r, c)
  PROVE  Inductive'
<1> USE NoNull
<1>0. /\ TypeOK /\ Phase(r) /\ pc[r] = "idle" /\ reply[r] = Null /\ c \in Call
      /\ call' = [call EXCEPT ![r] = c]
      /\ target' = [target EXCEPT ![r] = IF c.op \in {"update", "get"} THEN c.id ELSE Null]
      /\ since' = [since EXCEPT ![r] = [i \in RoleIds |-> Len(hist[i])]]
      /\ UNCHANGED <<tables, locks, tx, reads, hist>>
  BY SeedAssumption DEF Arrive, Inductive, PhaseInv, Phase, Checked
<1>1. /\ c.op \in {"create", "update", "get", "list", "check"}
      /\ c.op \in {"update", "get"} => c.id \in RoleIds
  BY <1>0 DEF Call
<1>2. PICK step \in Steps, a \in Replies \cup {Null} :
        /\ pc' = [pc EXCEPT ![r] = step] /\ reply' = [reply EXCEPT ![r] = a]
        /\ \/ step = "done" /\ a = "BadRequest" /\ c.op = "create"
           \/ step = "findCode" /\ a = Null /\ c.op = "create"
           \/ step = "findRole" /\ a = Null /\ c.op \in {"update", "get"}
           \/ step = "listRoles" /\ a = Null /\ c.op = "list"
           \/ step = "check" /\ a = Null /\ c.op = "check"
  <2>1. CASE c.op = "create" /\ ~CreateBinds(c)
    BY <1>0, <2>1 DEF Arrive, Answer, Goto, Steps, Replies, Rejections
  <2>2. CASE ~(c.op = "create" /\ ~CreateBinds(c))
    <3>1. Continue(r, FirstStep[c.op])
      BY <2>2 DEF Arrive
    <3>2. pc' = [pc EXCEPT ![r] = FirstStep[c.op]] /\ reply' = [reply EXCEPT ![r] = Null]
      BY <1>0, <3>1 DEF Continue, Goto, TypeOK
    <3>3. /\ FirstStep["create"] = "findCode" /\ FirstStep["update"] = "findRole"
          /\ FirstStep["get"] = "findRole" /\ FirstStep["list"] = "listRoles"
          /\ FirstStep["check"] = "check"
      BY DEF FirstStep
    <3>4. {"findCode", "findRole", "listRoles", "check"} \subseteq Steps
      BY DEF Steps
    <3> QED
      BY <1>1, <3>2, <3>3, <3>4
  <2> QED
    BY <2>1, <2>2
<1>3. /\ pc'[r] = step /\ reply'[r] = a /\ call'[r] = c
      /\ target'[r] = IF c.op \in {"update", "get"} THEN c.id ELSE Null
      /\ \A i \in RoleIds : since'[r][i] = Len(hist[i])
      /\ inserted'[r] = {} /\ deleted'[r] = {} /\ todo'[r] = {}
      /\ \A i \in RoleIds : seen'[r][i] = Null
  BY <1>0, <1>2 DEF TypeOK, Phase, Holding, Reading, tx, reads
<1>4. TypeOK'
  BY <1>0, <1>1, <1>2 DEF TypeOK, tables, locks, tx, reads
<1>5. Checked(r)' /\ Holding(r)'
  BY <1>0, <1>1, <1>2, <1>3 DEF Checked, Holding, Rejections
<1>6. Reading(r)'
  <2>1. \A i \in RoleIds : Len(hist[i]) \in Nat
    BY <1>0 DEF TypeOK
  <2> QED
    BY <1>0, <1>2, <1>3, <2>1 DEF Reading
<1>7. ASSUME NEW q \in Requests, q # r PROVE Same(q)
  BY <1>0, <1>2, <1>7 DEF Same, TypeOK, tx, reads
<1>8. HeldInv' /\ Apart'
  BY <1>0, <1>2 DEF Inductive, HeldInv, Live, Apart, TypeOK, tables
<1> QED
  BY <1>0, <1>4, <1>5, <1>6, <1>7, <1>8, OwnStep DEF Phase, tables, locks

LEMMA CheckStep ==
  ASSUME Inductive, NEW r \in Requests, Check(r)
  PROVE  Inductive'
<1>1. PICK a \in {"Allowed", "Forbidden"} : Answer(r, a)
  BY DEF Check
<1> QED
  BY <1>1, EndStep DEF Check, Replies, Rejections, Verdicts

\* Going on changes the place alone.
LEMMA GoOnStep ==
  ASSUME Inductive, NEW r \in Requests, pc[r] # "done",
         UNCHANGED <<tables, locks, call, target, tx, past, seen>>,
         NEW step \in Steps \ {"txInsert"}, Continue(r, step),
         \A q \in Requests : q # r => todo'[q] = todo[q],
         todo' \in [Requests -> SUBSET RoleIds],
         pc' = [pc EXCEPT ![r] = step] /\ reply' = [reply EXCEPT ![r] = Null]
           => Phase(r)'
  PROVE  Inductive'
<1>1. pc' = [pc EXCEPT ![r] = step] /\ reply' = [reply EXCEPT ![r] = Null]
  BY DEF Continue, Goto, Inductive, TypeOK, PhaseInv, Phase, Checked
<1>2. TypeOK'
  BY <1>1 DEF Inductive, TypeOK, tables, locks, tx, past
<1> QED
  BY <1>1, <1>2, ReadStep

LEMMA FindRoleByCodeStep ==
  ASSUME Inductive, NEW r \in Requests, FindRoleByCode(r)
  PROVE  Inductive'
<1> USE NoNull
<1>0. /\ TypeOK /\ Phase(r) /\ pc[r] = "findCode" /\ reply[r] = Null
      /\ call[r].op = "create" /\ target[r] = Null
      /\ UNCHANGED <<tables, locks, call, target, tx, reads, past>>
  BY DEF FindRoleByCode, Inductive, PhaseInv, Phase, Checked
<1>1. CASE Answer(r, "DuplicateCode")
  BY <1>0, <1>1, EndStep DEF Replies, Rejections
<1>2. CASE Continue(r, "mapCodes")
  <2>1. ASSUME pc' = [pc EXCEPT ![r] = "mapCodes"], reply' = [reply EXCEPT ![r] = Null]
        PROVE  Phase(r)'
    BY <1>0, <2>1 DEF TypeOK, Phase, Checked, Holding, Reading, tables, tx, reads, past,
       Live
  <2> QED
    BY <1>0, <1>2, <2>1, GoOnStep DEF Steps, reads, TypeOK
<1> QED
  BY <1>1, <1>2 DEF FindRoleByCode

LEMMA FindRoleByIDStep ==
  ASSUME Inductive, NEW r \in Requests, FindRoleByID(r)
  PROVE  Inductive'
<1> USE NoNull
<1>0. /\ TypeOK /\ Phase(r) /\ pc[r] = "findRole" /\ reply[r] = Null
      /\ call[r].op \in {"update", "get"} /\ target[r] \in RoleIds
      /\ UNCHANGED <<tables, locks, call, target, tx, seen, past>>
  BY DEF FindRoleByID, Inductive, PhaseInv, Phase, Checked
<1>1. CASE roles[target[r]] = Null
  <2>1. Answer(r, "NotFound") /\ UNCHANGED todo
    BY <1>1 DEF FindRoleByID
  <2> QED
    BY <1>0, <2>1, EndStep DEF Replies, Rejections, reads
<1>2. CASE roles[target[r]] # Null /\ call[r].op = "get"
  <2>1. Continue(r, "readCodes") /\ todo' = [todo EXCEPT ![r] = {target[r]}]
    BY <1>2 DEF FindRoleByID
  <2>2. ASSUME pc' = [pc EXCEPT ![r] = "readCodes"], reply' = [reply EXCEPT ![r] = Null]
        PROVE  Phase(r)'
    BY <1>0, <1>2, <2>1, <2>2
       DEF TypeOK, Phase, Checked, Holding, Reading, tables, tx, past, Live
  <2>3. /\ todo' \in [Requests -> SUBSET RoleIds]
        /\ \A q \in Requests : q # r => todo'[q] = todo[q]
    BY <1>0, <2>1 DEF TypeOK
  <2>4. "readCodes" \in Steps \ {"txInsert"}
    BY DEF Steps
  <2> QED
    BY <1>0, <2>1, <2>2, <2>3, <2>4, GoOnStep
<1>3. CASE roles[target[r]] # Null /\ call[r].op # "get"
  <2>1. Continue(r, "mapCodes") /\ UNCHANGED todo
    BY <1>3 DEF FindRoleByID
  <2>2. ASSUME pc' = [pc EXCEPT ![r] = "mapCodes"], reply' = [reply EXCEPT ![r] = Null]
        PROVE  Phase(r)'
    BY <1>0, <1>3, <2>1, <2>2
       DEF TypeOK, Phase, Checked, Holding, Reading, tables, tx, past, Live
  <2> QED
    BY <1>0, <2>1, <2>2, GoOnStep DEF Steps, TypeOK
<1> QED
  BY <1>1, <1>2, <1>3

LEMMA MapCodesStep ==
  ASSUME Inductive, NEW r \in Requests, MapCodes(r)
  PROVE  Inductive'
<1> USE NoNull
<1>0. /\ TypeOK /\ Phase(r) /\ pc[r] = "mapCodes" /\ reply[r] = Null
      /\ call[r].op \in {"create", "update"}
      /\ call[r].op = "create" => target[r] = Null
      /\ UNCHANGED <<tables, locks, call, target, tx, reads, past>>
  BY DEF MapCodes, Inductive, PhaseInv, Phase, Checked
<1>1. CASE ~AllKnown(Wanted(r))
  <2>1. Answer(r, "InvalidPermission")
    BY <1>1 DEF MapCodes
  <2> QED
    BY <1>0, <2>1, EndStep DEF Replies, Rejections
<1>2. CASE AllKnown(Wanted(r))
  <2> DEFINE step == IF call[r].op = "create" THEN "insertRole" ELSE "txDelete"
  <2>1. Continue(r, step)
    BY <1>2 DEF MapCodes
  <2>2. ASSUME pc' = [pc EXCEPT ![r] = step], reply' = [reply EXCEPT ![r] = Null]
        PROVE  Phase(r)'
    <3>1. (Wanted(r) \subseteq Perms)'
      BY <1>0, <1>2 DEF AllKnown, Wanted, uniqueStrings
    <3>2. Checked(r)'
      BY <1>0, <2>2, <3>1 DEF TypeOK, Phase, Checked, tables, Live
    <3>3. Holding(r)' /\ Reading(r)'
      BY <1>0, <2>2 DEF TypeOK, Phase, Holding, Reading, tables, tx, reads, past, Live
    <3> QED
      BY <3>2, <3>3 DEF Phase
  <2> QED
    BY <1>0, <2>1, <2>2, GoOnStep DEF Steps, reads, TypeOK
<1> QED
  BY <1>1, <1>2

-----------------------------------------------------------------------------
(* The transactions.                                                       *)

LEMMA InsertRoleStep ==
  ASSUME Inductive, NEW r \in Requests, InsertRole(r)
  PROVE  Inductive'
<1> USE NoNull
<1>0. /\ TypeOK /\ Phase(r) /\ pc[r] = "insertRole" /\ reply[r] = Null
      /\ call[r].op = "create" /\ call[r] \in Call /\ Wanted(r) \subseteq Perms
      /\ target[r] = Null
      /\ inserted[r] = {} /\ deleted[r] = {} /\ todo[r] = {}
      /\ \A i \in RoleIds : seen[r][i] = Null
      /\ codeLock[Code(r)] = Null
      /\ UNCHANGED <<tables, rowLock, call, tx, reads, past>>
  BY DEF InsertRole, Inductive, PhaseInv, Phase, Checked, Holding, Reading
<1>1. Code(r) \in Texts
  BY <1>0, CodeInTexts
<1>2. CASE ~UniqueKeyAllows(Code(r))
  <2>1. Answer(r, "InternalError") /\ UNCHANGED <<target, codeLock>>
    BY <1>2 DEF InsertRole
  <2> QED
    BY <1>0, <2>1, EndStep DEF Replies, Rejections, locks
<1>3. CASE UniqueKeyAllows(Code(r))
  <2>1. PICK i \in RoleIds : Unused(i) /\ target' = [target EXCEPT ![r] = i]
    BY <1>3 DEF InsertRole
  <2>2. /\ codeLock' = [codeLock EXCEPT ![Code(r)] = r]
        /\ pc' = [pc EXCEPT ![r] = "txInsert"] /\ reply' = [reply EXCEPT ![r] = Null]
    BY <1>0, <1>3 DEF InsertRole, Continue, Goto, TypeOK
  <2>3. TypeOK'
    BY <1>0, <1>1, <2>1, <2>2 DEF TypeOK, Steps, tables, tx, reads, past
  <2>4. ASSUME NEW q \in Requests, q # r PROVE Same(q)
    BY <1>0, <2>1, <2>2, <2>4 DEF Same, TypeOK, tx, reads, past
  <2>5. Phase(r)'
    <3>1. /\ pc'[r] = "txInsert" /\ reply'[r] = Null /\ target'[r] = i /\ roles[i] = Null
          /\ codeLock'[Code(r)] = r /\ Code(r)' = Code(r) /\ Wanted(r)' = Wanted(r)
      BY <1>0, <1>1, <2>1, <2>2 DEF TypeOK, Unused, Code, Wanted, uniqueStrings
    <3>2. ~Exists(Code(r))'
      BY <1>0, <1>3, <3>1 DEF UniqueKeyAllows, Exists, tables
    <3>3. Checked(r)'
      BY <1>0, <3>1 DEF Checked
    <3>4. Holding(r)'
      BY <1>0, <3>1, <3>2 DEF Holding, tables, tx
    <3>5. Reading(r)'
      BY <1>0, <3>1 DEF Phase, Reading, tables, reads, past
    <3> QED
      BY <3>3, <3>4, <3>5 DEF Phase
  <2>6. Apart'
    BY <1>0, <2>1, <2>2 DEF Inductive, Apart, Unused, TypeOK
  <2>7. HeldInv'
    BY <1>0 DEF Inductive, HeldInv, Live, tables
  <2>8. ASSUME NEW q \in Requests, q # r, NEW t \in Texts, codeLock[t] = q
        PROVE  codeLock'[t] = q
    BY <1>0, <1>1, <2>2, <2>8 DEF TypeOK
  <2> QED
    BY <1>0, <2>3, <2>4, <2>5, <2>6, <2>7, <2>8, OwnStep DEF tables, past
<1> QED
  BY <1>2, <1>3

LEMMA TxDeleteStep ==
  ASSUME Inductive, NEW r \in Requests, TxDelete(r)
  PROVE  Inductive'
<1> USE NoNull
<1>0. /\ TypeOK /\ Phase(r) /\ pc[r] = "txDelete" /\ reply[r] = Null
      /\ call[r].op = "update" /\ call[r] \in Call /\ Wanted(r) \subseteq Perms
      /\ target[r] \in RoleIds /\ roles[target[r]] # Null
      /\ inserted[r] = {} /\ todo[r] = {}
      /\ \A i \in RoleIds : seen[r][i] = Null
      /\ rowLock[target[r]] = Null
      /\ UNCHANGED <<tables, codeLock, call, target, inserted, reads, past>>
      /\ rowLock' = [rowLock EXCEPT ![target[r]] = r]
      /\ deleted' = [deleted EXCEPT ![r] = rolePerms[target[r]]]
  BY DEF TxDelete, Lock, Isolated, Inductive, PhaseInv, Phase, Checked, Holding, Reading, Live,
     tables
<1>1. pc' = [pc EXCEPT ![r] = "txInsert"] /\ reply' = [reply EXCEPT ![r] = Null]
  BY <1>0 DEF TxDelete, Continue, Goto, TypeOK
<1>2. TypeOK'
  BY <1>0, <1>1 DEF TypeOK, Steps, tables, reads, past
<1>3. ASSUME NEW q \in Requests, q # r PROVE Same(q)
  BY <1>0, <1>1, <1>3 DEF Same, TypeOK, reads, past
<1>4. Phase(r)'
  <2>1. /\ pc'[r] = "txInsert" /\ reply'[r] = Null /\ rowLock'[target[r]] = r
        /\ deleted'[r] = rolePerms[target[r]] /\ Wanted(r)' = Wanted(r)
    BY <1>0, <1>1 DEF TypeOK, Wanted, uniqueStrings
  <2>2. Checked(r)'
    BY <1>0, <2>1 DEF Checked, Live, tables
  <2>3. Holding(r)'
    BY <1>0, <2>1 DEF Holding, tables
  <2>4. Reading(r)'
    BY <1>0, <2>1 DEF Phase, Reading, tables, reads, past
  <2> QED
    BY <2>2, <2>3, <2>4 DEF Phase
<1>5. Apart'
  <2>1. ASSUME NEW q \in Requests, q # r, pc[q] = "txInsert", target[q] = target[r]
        PROVE  FALSE
    BY <1>0, <2>1 DEF Inductive, PhaseInv, Phase, Checked, Holding
  <2> QED
    BY <1>0, <1>1, <2>1 DEF Inductive, Apart, TypeOK
<1>6. HeldInv'
  BY <1>0 DEF Inductive, HeldInv, Live, tables
<1>7. ASSUME NEW q \in Requests, q # r
      PROVE  /\ \A i \in RoleIds : rowLock[i] = q => rowLock'[i] = q
             /\ \A t \in Texts : codeLock[t] = q => codeLock'[t] = q
  BY <1>0, <1>7 DEF TypeOK
<1> QED
  BY <1>0, <1>2, <1>3, <1>4, <1>5, <1>6, <1>7, OwnStep DEF tables, past

LEMMA TxInsertStep ==
  ASSUME Inductive, NEW r \in Requests, TxInsert(r)
  PROVE  Inductive'
<1> USE NoNull
<1>0. /\ TypeOK /\ Phase(r) /\ pc[r] = "txInsert" /\ Wanted(r) \subseteq Perms
      /\ UNCHANGED <<tables, locks, pc, call, target, deleted, reads, reply, past>>
  BY DEF TxInsert, Isolated, Inductive, PhaseInv, Phase, Checked, tables
<1>1. PICK p \in Wanted(r) : inserted' = [inserted EXCEPT ![r] = inserted[r] \cup {p}]
  BY DEF TxInsert
<1>2. TypeOK'
  BY <1>0, <1>1 DEF TypeOK, tables, locks, reads, past
<1>3. ASSUME NEW q \in Requests, q # r PROVE Same(q)
  BY <1>0, <1>1, <1>3 DEF Same, TypeOK, reads, past
<1>4. Phase(r)'
  <2>1. inserted'[r] = inserted[r] \cup {p}
    BY <1>0, <1>1 DEF TypeOK
  <2>2. Checked(r)'
    BY <1>0 DEF Phase, Checked, Live, Wanted, uniqueStrings, tables
  <2>3. Holding(r)'
    BY <1>0, <1>1, <2>1 DEF Phase, Holding, Wanted, uniqueStrings, Code, Exists, tables, locks
  <2>4. Reading(r)'
    BY <1>0 DEF Phase, Reading, Fresh, Code, Live, tables, reads, past
  <2> QED
    BY <2>2, <2>3, <2>4 DEF Phase
<1>5. Apart' /\ HeldInv'
  BY <1>0 DEF Inductive, Apart, HeldInv, Live, tables
<1> QED
  BY <1>0, <1>2, <1>3, <1>4, <1>5, OwnStep DEF tables, locks, past

LEMMA FailStep ==
  ASSUME Inductive, NEW r \in Requests, Fail(r)
  PROVE  Inductive'
<1> USE NoNull
<1>0. /\ TypeOK /\ Phase(r) /\ pc[r] # "idle" /\ Answer(r, "InternalError") /\ Unlock(r)
      /\ UNCHANGED <<tables, call, target, tx, reads, past>>
  BY DEF Fail, Inductive, PhaseInv
<1>1. /\ Phase(r)'
      /\ pc' = [pc EXCEPT ![r] = "done"] /\ reply' = [reply EXCEPT ![r] = "InternalError"]
  BY <1>0, EndPhase DEF Replies, Rejections, tables
<1>2. TypeOK'
  BY <1>0, <1>1 DEF TypeOK, Steps, Replies, Unlock, tables, tx, reads, past
<1>3. ASSUME NEW q \in Requests, q # r
      PROVE  /\ Same(q)
             /\ \A i \in RoleIds : rowLock[i] = q => rowLock'[i] = q
             /\ \A t \in Texts : codeLock[t] = q => codeLock'[t] = q
  BY <1>0, <1>1, <1>3 DEF Same, TypeOK, Unlock, tx, reads, past
<1>4. Apart' /\ HeldInv'
  BY <1>0, <1>1 DEF Inductive, Apart, HeldInv, Live, TypeOK, tables
<1> QED
  BY <1>0, <1>1, <1>2, <1>3, <1>4, OwnStep DEF tables, past

\* What a commit leaves in the tables: the set asked for, in one role.
Committed(r) ==
    LET t == target[r] IN
    /\ \A i \in RoleIds : rolePerms'[i] = IF i = t THEN Wanted(r) ELSE rolePerms[i]
    /\ \A i \in RoleIds : i # t => roles'[i] = roles[i] /\ hist'[i] = hist[i]
    /\ IF call[r].op = "create" THEN roles'[t] = Code(r) ELSE roles'[t] = roles[t]
    /\ roles'[t] # Null
    /\ hist'[t] \in Seq(SUBSET Perms) /\ Len(hist'[t]) = Len(hist[t]) + 1
    /\ hist'[t][Len(hist[t]) + 1] = Wanted(r)
    /\ \A n \in 1..Len(hist[t]) : hist'[t][n] = hist[t][n]

LEMMA CommitResult ==
  ASSUME Inductive, NEW r \in Requests, TxCommit(r)
  PROVE  Committed(r)
<1> USE NoNull
<1> DEFINE t == target[r]
<1>0. /\ TypeOK /\ pc[r] = "txInsert" /\ t \in RoleIds
      /\ call[r] \in Call /\ call[r].op \in {"create", "update"}
      /\ call[r].op = "update" => roles[t] # Null /\ deleted[r] = rolePerms[t]
      /\ call[r].op = "create" => roles[t] = Null /\ deleted[r] = {}
      /\ inserted[r] = Wanted(r) /\ Wanted(r) \in SUBSET Perms
  BY DEF TxCommit, Inductive, PhaseInv, Phase, Checked, Holding, Live
<1>1. (rolePerms[t] \ deleted[r]) \cup inserted[r] = Wanted(r)
  <2>1. call[r].op = "create" => rolePerms[t] = {}
    BY <1>0 DEF Inductive, LastCommitWins
  <2> QED
    BY <1>0, <2>1
<1>2. rolePerms' = [rolePerms EXCEPT ![t] = Wanted(r)]
  BY <1>1 DEF TxCommit
<1>3. \A i \in RoleIds : rolePerms'[i] = IF i = t THEN Wanted(r) ELSE rolePerms[i]
  BY <1>0, <1>2 DEF TypeOK
<1>4. /\ \A i \in RoleIds : i # t => roles'[i] = roles[i]
      /\ IF call[r].op = "create" THEN roles'[t] = Code(r) ELSE roles'[t] = roles[t]
      /\ roles'[t] # Null
  <2>1. CASE call[r].op = "create"
    <3>1. roles' = [roles EXCEPT ![t] = Code(r)]
      BY <2>1 DEF TxCommit, NewRole
    <3> QED
      BY <1>0, <2>1, <3>1, CodeInTexts DEF TypeOK
  <2>2. CASE call[r].op # "create"
    BY <1>0, <2>2 DEF TxCommit, NewRole
  <2> QED
    BY <2>1, <2>2
<1>5. /\ hist[t] \in Seq(SUBSET Perms) /\ hist' = [hist EXCEPT ![t] = Append(hist[t], Wanted(r))]
      /\ hist'[t] = Append(hist[t], Wanted(r))
      /\ \A i \in RoleIds : i # t => hist'[i] = hist[i]
  BY <1>0 DEF TxCommit, TypeOK
<1>6. /\ hist'[t] \in Seq(SUBSET Perms) /\ Len(hist'[t]) = Len(hist[t]) + 1
      /\ hist'[t][Len(hist[t]) + 1] = Wanted(r)
      /\ \A n \in 1..Len(hist[t]) : hist'[t][n] = hist[t][n]
  BY <1>0, <1>5, AppendProperties
<1> QED
  BY <1>3, <1>4, <1>5, <1>6 DEF Committed

LEMMA TxCommitStep ==
  ASSUME Inductive, NEW r \in Requests, TxCommit(r)
  PROVE  Inductive'
<1> USE NoNull
<1> DEFINE t == target[r]
<1>0. /\ TypeOK /\ Phase(r) /\ pc[r] = "txInsert" /\ reply[r] = Null /\ t \in RoleIds
      /\ call[r] \in Call /\ call[r].op \in {"create", "update"}
      /\ call[r].op = "create" =>
           roles[t] = Null /\ codeLock[Code(r)] = r /\ ~Exists(Code(r)) /\ Code(r) \in Texts
      /\ call[r].op = "update" => rowLock[t] = r
      /\ todo[r] = {} /\ \A i \in RoleIds : seen[r][i] = Null
      /\ Wanted(r) \in SUBSET Perms
      /\ UNCHANGED <<userRoles, call, target, tx, seen>> /\ Unlock(r)
  BY CodeInTexts DEF TxCommit, Inductive, PhaseInv, Phase, Checked, Holding, Reading, Live
<1>1. Committed(r)
  BY CommitResult
<1>2. PICK step \in {"readCodes", "done"}, a \in {Null, "InternalError"} :
        /\ pc' = [pc EXCEPT ![r] = step] /\ reply' = [reply EXCEPT ![r] = a]
        /\ \/ step = "readCodes" /\ a = Null /\ todo' = [todo EXCEPT ![r] = {t}]
           \/ step = "done" /\ a = "InternalError" /\ UNCHANGED todo
  <2>1. CASE Continue(r, "readCodes") /\ todo' = [todo EXCEPT ![r] = {t}]
    <3>1. pc' = [pc EXCEPT ![r] = "readCodes"] /\ reply' = [reply EXCEPT ![r] = Null]
      BY <1>0, <2>1 DEF Continue, Goto, TypeOK
    <3> QED
      BY <2>1, <3>1
  <2>2. CASE Answer(r, "InternalError") /\ UNCHANGED todo
    BY <2>2 DEF Answer, Goto
  <2> QED
    BY <2>1, <2>2 DEF TxCommit
<1>3. /\ since' = [since EXCEPT ![r][t] = Len(hist[t]) + 1]
      /\ \A i \in RoleIds : since'[r][i] = IF i = t THEN Len(hist[t]) + 1 ELSE since[r][i]
      /\ \A q \in Requests : q # r => since'[q] = since[q]
      /\ \A i \in RoleIds : Len(hist[i]) \in Nat
  BY <1>0 DEF TxCommit, TypeOK
<1>4. TypeOK'
  <2>1. roles' \in [RoleIds -> Texts \cup {Null}]
    <3>1. CASE call[r].op = "create"
      <4>1. roles' = [roles EXCEPT ![t] = Code(r)]
        BY <3>1 DEF TxCommit, NewRole
      <4> QED
        BY <1>0, <3>1, <4>1 DEF TypeOK
    <3>2. CASE call[r].op # "create"
      BY <1>0, <3>2 DEF TxCommit, NewRole, TypeOK
    <3> QED
      BY <3>1, <3>2
  <2>2. rolePerms' \in [RoleIds -> SUBSET Perms]
    <3>1. \E s : rolePerms' = [rolePerms EXCEPT ![t] = s]
      BY DEF TxCommit
    <3> QED
      BY <1>0, <1>1, <3>1 DEF TypeOK, Committed
  <2>3. hist' \in [RoleIds -> Seq(SUBSET Perms)]
    <3>1. \E s : hist' = [hist EXCEPT ![t] = s]
      BY DEF TxCommit
    <3>2. \A i \in RoleIds : hist'[i] \in Seq(SUBSET Perms)
      BY <1>0, <1>1 DEF TypeOK, Committed
    <3> QED
      BY <1>0, <3>1, <3>2 DEF TypeOK
  <2>4. since' \in [Requests -> [RoleIds -> Nat]]
    BY <1>0, <1>3 DEF TypeOK
  <2>5. rowLock' \in [RoleIds -> Requests \cup {Null}] /\ codeLock' \in [Texts -> Requests \cup {Null}]
    BY <1>0 DEF Unlock, TypeOK
  <2>6. /\ pc' \in [Requests -> Steps] /\ reply' \in [Requests -> Replies \cup {Null}]
        /\ todo' \in [Requests -> SUBSET RoleIds]
    <3>1. step \in Steps /\ a \in Replies \cup {Null}
      BY DEF Steps, Replies
    <3>2. todo' \in [Requests -> SUBSET RoleIds]
      <4>1. todo \in [Requests -> SUBSET RoleIds] /\ {t} \in SUBSET RoleIds
        BY <1>0 DEF TypeOK
      <4>2. todo' = todo \/ todo' = [todo EXCEPT ![r] = {t}]
        BY <1>2
      <4> QED
        BY <4>1, <4>2
    <3> QED
      BY <1>0, <1>2, <3>1, <3>2 DEF TypeOK
  <2> QED
    BY <1>0, <2>1, <2>2, <2>3, <2>4, <2>5, <2>6 DEF TypeOK, tx
<1>5. Grows
  <2>1. \A i \in RoleIds : DOMAIN hist[i] = 1..Len(hist[i])
    BY <1>0 DEF TypeOK
  <2>2. DOMAIN hist'[t] = 1..(Len(hist[t]) + 1)
    BY <1>1 DEF Committed
  <2>3. ASSUME NEW i \in RoleIds, roles[i] # Null PROVE roles'[i] = roles[i]
    BY <1>0, <1>1, <2>3 DEF Committed
  <2>4. ASSUME NEW i \in RoleIds
        PROVE  /\ Len(hist[i]) <= Len(hist'[i])
               /\ \A n \in DOMAIN hist[i] : n \in DOMAIN hist'[i] /\ hist'[i][n] = hist[i][n]
    <3>1. CASE i = t
      BY <1>0, <1>1, <1>3, <2>1, <2>2, <3>1 DEF Committed
    <3>2. CASE i # t
      BY <1>1, <1>3, <3>2 DEF Committed
    <3> QED
      BY <3>1, <3>2
  <2> QED
    BY <2>3, <2>4 DEF Grows
<1>6. ASSUME NEW q \in Requests, q # r PROVE Phase(q)'
  <2>1. Same(q)
    BY <1>0, <1>2, <1>3, <1>6 DEF Same, TypeOK, tx
  <2>2. /\ \A i \in RoleIds : rowLock[i] = q => rowLock'[i] = q
        /\ \A x \in Texts : codeLock[x] = q => codeLock'[x] = q
    BY <1>0, <1>6 DEF Unlock, TypeOK
  <2>3. ASSUME pc[q] = "txInsert"
        PROVE  /\ rolePerms'[target[q]] = rolePerms[target[q]]
               /\ roles'[target[q]] = roles[target[q]]
    <3>1. target[q] # t /\ target[q] \in RoleIds
      BY <1>0, <1>6, <2>3 DEF Inductive, Apart, PhaseInv, Phase, Holding
    <3> QED
      BY <1>1, <3>1 DEF Committed
  <2>4. ASSUME pc[q] = "txInsert", call[q].op = "create", ~Exists(Code(q))
        PROVE  ~Exists(Code(q))'
    <3>1. codeLock[Code(q)] = q
      BY <2>4 DEF Inductive, PhaseInv, Phase, Holding
    <3>2. Code(q)' = Code(q)
      BY <2>1 DEF Same, Code
    <3>3. \A i \in RoleIds : roles'[i] # roles[i] => i = t /\ roles'[i] = Code(r) /\ call[r].op = "create"
      BY <1>0, <1>1 DEF Committed
    <3> QED
      BY <1>0, <1>6, <2>4, <3>1, <3>2, <3>3 DEF Exists
  <2>5. Respects(q)
    BY <2>2, <2>3, <2>4 DEF Respects
  <2> QED
    BY <1>0, <1>4, <1>5, <2>1, <2>5, SamePhase DEF Inductive, PhaseInv
<1>7. Phase(r)'
  <2>1. /\ pc'[r] = step /\ reply'[r] = a /\ call'[r] = call[r] /\ target'[r] = t
        /\ Code(r)' = Code(r)
        /\ step = "readCodes" => todo'[r] = {t} /\ a = Null
        /\ step = "done" => todo'[r] = {} /\ a = "InternalError"
        /\ \A i \in RoleIds : seen'[r][i] = Null
    BY <1>0, <1>2 DEF TypeOK, Code
  <2>2. Checked(r)' /\ Holding(r)'
    BY <1>0, <2>1 DEF Checked, Holding, Rejections
  <2>3. \A i \in RoleIds : since'[r][i] <= Len(hist'[i])
    <3>1. \A i \in RoleIds : since[r][i] <= Len(hist[i]) /\ since[r][i] \in Nat
      BY <1>0 DEF Phase, Reading, TypeOK
    <3> QED
      BY <1>0, <1>1, <1>3, <3>1 DEF Committed
  <2>4. roles'[t] # Null /\ (call[r].op = "create" => roles'[t] = Code(r))
    BY <1>1 DEF Committed
  <2>5. Reading(r)'
    BY <1>0, <2>1, <2>3, <2>4 DEF Reading, Live
  <2> QED
    BY <2>2, <2>5 DEF Phase
<1>8. Apart'
  BY <1>0, <1>2 DEF Inductive, Apart, TypeOK
<1>9. HeldInv'
  BY <1>0, <1>5 DEF Inductive, HeldInv, Live, Grows
<1>10. CodeUnique'
  <2>1. CASE call[r].op = "create"
    <3>1. \A i \in RoleIds : i # t => roles'[i] = roles[i] /\ roles'[i] # Code(r)
      BY <1>0, <1>1, <2>1 DEF Committed, Exists
    <3>2. roles'[t] = Code(r)
      BY <1>1, <2>1 DEF Committed
    <3> QED
      BY <3>1, <3>2 DEF Inductive, CodeUnique
  <2>2. CASE call[r].op # "create"
    <3>1. \A i \in RoleIds : roles'[i] = roles[i]
      BY <1>1, <2>2 DEF Committed
    <3> QED
      BY <3>1 DEF Inductive, CodeUnique
  <2> QED
    BY <2>1, <2>2
<1>11. LastCommitWins'
  <2>1. hist'[t] # <<>> /\ Latest(t)' = Wanted(r) /\ rolePerms'[t] = Wanted(r) /\ roles'[t] # Null
    <3>1. Len(hist'[t]) > 0 /\ hist'[t][Len(hist'[t])] = Wanted(r)
      BY <1>0, <1>1, <1>3 DEF Committed
    <3>2. hist'[t] # <<>>
      BY <3>1
    <3> QED
      BY <1>0, <1>1, <3>1, <3>2 DEF Committed, Latest
  <2>2. ASSUME NEW i \in RoleIds, i # t
        PROVE  /\ roles'[i] = roles[i] /\ hist'[i] = hist[i] /\ rolePerms'[i] = rolePerms[i]
    BY <1>1, <2>2 DEF Committed
  <2> QED
    BY <1>0, <2>1, <2>2 DEF Inductive, LastCommitWins, Latest
<1> QED
  BY <1>4, <1>6, <1>7, <1>8, <1>9, <1>10, <1>11 DEF Inductive, PhaseInv

-----------------------------------------------------------------------------
(* Reading.                                                                *)

LEMMA ListRolesStep ==
  ASSUME Inductive, NEW r \in Requests, ListRoles(r)
  PROVE  Inductive'
<1> USE NoNull
<1>0. /\ TypeOK /\ Phase(r) /\ pc[r] = "listRoles" /\ reply[r] = Null
      /\ call[r].op = "list" /\ call[r] \in Call
      /\ UNCHANGED <<tables, locks, call, target, tx, seen, past>>
      /\ Continue(r, "readCodes") /\ todo' = [todo EXCEPT ![r] = AllRoles]
      /\ AllRoles \in SUBSET RoleIds
  BY DEF ListRoles, AllRoles, Inductive, PhaseInv, Phase, Checked
<1>1. /\ todo' \in [Requests -> SUBSET RoleIds] /\ todo'[r] = AllRoles
      /\ \A q \in Requests : q # r => todo'[q] = todo[q]
  BY <1>0 DEF TypeOK
<1>2. \A i \in RoleIds : since[r][i] > 0 => i \in AllRoles
  <2>1. ASSUME NEW i \in RoleIds, since[r][i] > 0 PROVE roles[i] # Null
    <3>1. Len(hist[i]) \in Nat /\ since[r][i] \in Nat /\ since[r][i] <= Len(hist[i])
      BY <1>0 DEF TypeOK, Phase, Reading
    <3>2. hist[i] # <<>>
      BY <2>1, <3>1
    <3> QED
      BY <3>2 DEF Inductive, LastCommitWins
  <2> QED
    BY <2>1 DEF AllRoles
<1>3. ASSUME pc' = [pc EXCEPT ![r] = "readCodes"], reply' = [reply EXCEPT ![r] = Null]
      PROVE  Phase(r)'
  <2>1. pc'[r] = "readCodes" /\ reply'[r] = Null
    BY <1>0, <1>3 DEF TypeOK
  <2>2. Checked(r)' /\ Holding(r)'
    BY <1>0, <2>1 DEF Phase, Checked, Holding
  <2>3. Reading(r)'
    BY <1>0, <1>1, <1>2, <2>1
       DEF Phase, Reading, Fresh, Live, AllRoles, tables, past
  <2> QED
    BY <2>2, <2>3 DEF Phase
<1>4. "readCodes" \in Steps \ {"txInsert"}
  BY DEF Steps
<1> QED
  BY <1>0, <1>1, <1>3, <1>4, GoOnStep

LEMMA ReadCodesStep ==
  ASSUME Inductive, NEW r \in Requests, ReadCodes(r)
  PROVE  Inductive'
<1> USE NoNull
<1>0. /\ TypeOK /\ Phase(r) /\ pc[r] = "readCodes" /\ reply[r] = Null /\ call[r] \in Call
      /\ UNCHANGED <<tables, locks, call, target, tx, past>>
  BY DEF ReadCodes, Inductive, PhaseInv, Phase, Checked
<1>1. PICK i \in todo[r] :
        /\ seen' = [seen EXCEPT ![r][i] = rolePerms[i]]
        /\ todo' = [todo EXCEPT ![r] = todo[r] \ {i}]
  BY DEF ReadCodes, PermissionCodes
<1>2. i \in RoleIds /\ roles[i] # Null /\ rolePerms[i] # Null /\ rolePerms[i] = Latest(i)
      /\ hist[i] # <<>>
  <2>1. i \in RoleIds /\ roles[i] # Null
    BY <1>0 DEF Phase, Reading, Live
  <2> QED
    BY <1>0, <2>1 DEF Inductive, LastCommitWins, TypeOK
<1>3. PICK step \in {"done", "readCodes"}, a \in {"OK", Null} :
        /\ pc' = [pc EXCEPT ![r] = step] /\ reply' = [reply EXCEPT ![r] = a]
        /\ \/ step = "done" /\ a = "OK" /\ todo'[r] = {}
           \/ step = "readCodes" /\ a = Null
  <2>1. CASE todo'[r] = {}
    BY <2>1 DEF ReadCodes, Answer, Goto
  <2>2. CASE todo'[r] # {}
    <3>1. Continue(r, "readCodes")
      BY <2>2 DEF ReadCodes
    <3>2. pc' = [pc EXCEPT ![r] = "readCodes"] /\ reply' = [reply EXCEPT ![r] = Null]
      BY <1>0, <3>1 DEF Continue, Goto, TypeOK
    <3> QED
      BY <3>2
  <2> QED
    BY <2>1, <2>2
<1>4. TypeOK'
  <2>1. seen' \in [Requests -> [RoleIds -> (SUBSET Perms) \cup {Null}]]
    BY <1>0, <1>1, <1>2 DEF TypeOK
  <2>2. todo' \in [Requests -> SUBSET RoleIds]
    BY <1>0, <1>1 DEF TypeOK
  <2>3. pc' \in [Requests -> Steps] /\ reply' \in [Requests -> Replies \cup {Null}]
    BY <1>0, <1>3 DEF TypeOK, Steps, Replies
  <2> QED
    BY <1>0, <2>1, <2>2, <2>3 DEF TypeOK, tables, locks, tx, past
<1>5. Phase(r)'
  <2>1. /\ pc'[r] = step /\ reply'[r] = a /\ todo'[r] = todo[r] \ {i}
        /\ \A j \in RoleIds : seen'[r][j] = IF j = i THEN rolePerms[i] ELSE seen[r][j]
    BY <1>0, <1>1, <1>3 DEF TypeOK
  <2>2. Checked(r)' /\ Holding(r)'
    BY <1>0, <1>3, <2>1 DEF Phase, Checked, Holding, Rejections
  <2>3. \A j \in RoleIds : seen'[r][j] # Null => Fresh(r, j)'
    <3>1. Len(hist[i]) \in DOMAIN hist[i] /\ since[r][i] <= Len(hist[i])
      <4>1. hist[i] \in Seq(SUBSET Perms) /\ Len(hist[i]) \in Nat
        BY <1>0, <1>2 DEF TypeOK
      <4>2. Len(hist[i]) # 0
        BY <1>2, <4>1
      <4>3. since[r][i] <= Len(hist[i])
        BY <1>0, <1>2 DEF Phase, Reading
      <4> QED
        BY <4>1, <4>2, <4>3
    <3>2. since[r][i] \in Nat /\ Len(hist[i]) \in Nat
      BY <1>0, <1>2 DEF TypeOK
    <3>3. Fresh(r, i)'
      BY <1>0, <1>2, <2>1, <3>1, <3>2 DEF Fresh, Latest, past
    <3>4. ASSUME NEW j \in RoleIds, j # i, seen'[r][j] # Null PROVE Fresh(r, j)'
      BY <1>0, <2>1, <3>4 DEF Fresh, Phase, Reading, past
    <3> QED
      BY <3>3, <3>4
  <2>4. Code(r)' = Code(r)
    BY <1>0 DEF Code
  <2>5. Reading(r)'
    BY <1>0, <1>2, <1>3, <2>1, <2>3, <2>4 DEF Phase, Reading, Live, tables, past
  <2> QED
    BY <2>2, <2>5 DEF Phase
<1>6. \A q \in Requests : q # r => todo'[q] = todo[q] /\ seen'[q] = seen[q]
  BY <1>0, <1>1 DEF TypeOK
<1> QED
  BY <1>0, <1>3, <1>4, <1>5, <1>6, ReadStep DEF Steps, Replies

LEMMA AssignRolesStep ==
  ASSUME Inductive, NEW u \in Users, NEW ids \in SUBSET RoleIds, AssignRoles(u, ids)
  PROVE  Inductive'
<1> USE DEF AssignRoles, locks, tx, reads, past, Inductive
<1>1. TypeOK'
  BY DEF TypeOK
<1>2. Grows /\ \A q \in Requests : Same(q) /\ Respects(q)
  BY DEF Grows, Same, Respects, Exists, Code, TypeOK
<1>3. PhaseInv'
  BY <1>1, <1>2, SamePhase DEF PhaseInv
<1>4. Apart' /\ CodeUnique' /\ LastCommitWins'
  BY DEF Apart, CodeUnique, LastCommitWins, Latest
<1>5. HeldInv'
  BY DEF HeldInv, Live, TypeOK
<1> QED
  BY <1>1, <1>3, <1>4, <1>5

-----------------------------------------------------------------------------
(* The theorems.                                                           *)

LEMMA StutterStep == Inductive /\ UNCHANGED vars => Inductive'
<1> SUFFICES ASSUME Inductive, UNCHANGED vars PROVE Inductive'
  OBVIOUS
<1> USE DEF vars, Inductive
<1>1. TypeOK'
  BY DEF TypeOK
<1>2. Grows /\ \A q \in Requests : Same(q) /\ Respects(q)
  BY DEF Grows, Same, Respects, Exists, Code, TypeOK
<1>3. PhaseInv'
  BY <1>1, <1>2, SamePhase DEF PhaseInv
<1>4. Apart' /\ HeldInv' /\ CodeUnique' /\ LastCommitWins'
  BY DEF Apart, HeldInv, Live, CodeUnique, LastCommitWins, Latest
<1> QED
  BY <1>1, <1>3, <1>4

LEMMA NextInductive == Inductive /\ [Next]_vars => Inductive'
<1> SUFFICES ASSUME Inductive, [Next]_vars PROVE Inductive'
  OBVIOUS
<1>1. ASSUME NEW r \in Requests, NEW c \in Calls, Arrive(r, c) PROVE Inductive'
  BY <1>1, ArriveStep
<1>2. ASSUME NEW r \in Requests, Serve(r) PROVE Inductive'
  BY <1>2, CheckStep, FindRoleByCodeStep, FindRoleByIDStep, MapCodesStep, InsertRoleStep,
     TxDeleteStep, TxInsertStep, TxCommitStep, ListRolesStep, ReadCodesStep DEF Serve
<1>3. ASSUME NEW r \in Requests, Fail(r) PROVE Inductive'
  BY <1>3, FailStep
<1>4. ASSUME NEW u \in Users, NEW ids \in (SUBSET RoleIds) \ {{}}, AssignRoles(u, ids)
      PROVE Inductive'
  BY <1>4, AssignRolesStep
<1>5. CASE UNCHANGED vars
  BY <1>5, StutterStep
<1> QED
  BY <1>1, <1>2, <1>3, <1>4, <1>5 DEF Next

LEMMA AlwaysInductive == Spec => []Inductive
BY InitInductive, NextInductive, PTL DEF Spec

\* Every variable keeps its type: no role is ever granted a code that is not in
\* the permissions table (system.go:264-277).
THEOREM TypeCorrect == Spec => []TypeOK
<1>1. Inductive => TypeOK
  BY DEF Inductive
<1> QED
  BY <1>1, AlwaysInductive, PTL

\* However many creates race, no two roles have one code: the request that has
\* inserted a code keeps it to itself until it commits or fails (system.go:284-290).
THEOREM UniqueCodes == Spec => []CodeUnique
<1>1. Inductive => CodeUnique
  BY DEF Inductive
<1> QED
  BY <1>1, AlwaysInductive, PTL

\* A role grants exactly what the last committed replacement asked for, however
\* replacements interleave and fail (rbac.go:108-120, 165-177).
THEOREM LastCommitDecides == Spec => []LastCommitWins
<1>1. Inductive => LastCommitWins
  BY DEF Inductive
<1> QED
  BY <1>1, AlwaysInductive, PTL

\* What a list or a detail shows was committed after the request came, or was the
\* latest then; the answer to a write shows its own set or a later one
\* (system.go:237-277).
THEOREM AnswersNotOlder == Spec => []AnswerNotOlder
<1>1. Inductive => AnswerNotOlder
  BY DEF Inductive, PhaseInv, Phase, Reading, Fresh, AnswerNotOlder
<1> QED
  BY <1>1, AlwaysInductive, PTL

\* A create is answered 200 only for a role that is there, refused only without
\* one, and a list leaves out no role that was there when it came
\* (system.go:278-311).
THEOREM RolesAnswered == Spec => []RolesAsAnswered
<1>1. Inductive => RolesAsAnswered
  <2> SUFFICES ASSUME Inductive, NEW r \in Requests, call[r] # Null
               PROVE  /\ call[r].op = "create" /\ reply[r] = "OK" =>
                            roles[target[r]] = Code(r) /\ seen[r][target[r]] # Null
                      /\ call[r].op = "create" /\ reply[r] \in Rejections => target[r] = Null
                      /\ call[r].op = "list" /\ reply[r] = "OK" =>
                            \A i \in RoleIds : since[r][i] > 0 => seen[r][i] # Null
    BY DEF RolesAsAnswered
  <2>1. Phase(r)
    BY DEF Inductive, PhaseInv
  <2>2. reply[r] # Null => pc[r] = "done"
    BY <2>1 DEF Phase, Checked
  <2>3. reply[r] = "OK" => pc[r] = "done" /\ todo[r] = {}
    BY <2>1, <2>2, NoNull DEF Phase, Reading
  <2>4. reply[r] \in Rejections => pc[r] = "done"
    BY <2>2, NoNull
  <2> QED
    BY <2>1, <2>3, <2>4 DEF Phase, Checked, Reading
<1> QED
  BY <1>1, AlwaysInductive, PTL

-----------------------------------------------------------------------------
(* The permission check.                                                   *)

\* No statement but the check's own answers with a verdict.
LEMMA OnlyCheckDecides ==
  ASSUME Inductive, [Next]_vars, NEW r \in Requests,
         reply[r] = Null, reply'[r] \in Verdicts
  PROVE  Check(r)
<1> USE NoNull DEF Verdicts
<1>1. ASSUME NEW q \in Requests, NEW a \in Replies \ Verdicts, Answer(q, a) PROVE FALSE
  BY <1>1 DEF Answer, Inductive, TypeOK
<1>2. reply' # reply
  OBVIOUS
<1>3. \A q \in Requests, step \in Steps : ~Continue(q, step)
  BY <1>2 DEF Continue
<1>4. /\ "OK" \in Replies \ Verdicts /\ "InternalError" \in Replies \ Verdicts
      /\ \A a \in Rejections : a \in Replies \ Verdicts
  BY DEF Replies, Rejections
<1>5. {"BadRequest", "NotFound", "DuplicateCode", "InvalidPermission"} = Rejections
  BY DEF Rejections
<1>6. ASSUME NEW q \in Requests, NEW c \in Calls, Arrive(q, c) PROVE FALSE
  BY <1>1, <1>2, <1>4, <1>5, <1>6 DEF Arrive, Continue
<1>7. ASSUME NEW q \in Requests, Serve(q) \/ Fail(q), ~Check(q) PROVE FALSE
  <2>1. CASE FindRoleByCode(q) \/ MapCodes(q)
    BY <1>1, <1>2, <1>4, <1>5, <2>1 DEF FindRoleByCode, MapCodes, Continue
  <2>2. CASE FindRoleByID(q)
    <3>1. CASE roles[target[q]] = Null
      BY <1>1, <1>4, <1>5, <2>2, <3>1 DEF FindRoleByID
    <3>2. CASE roles[target[q]] # Null
      BY <1>2, <2>2, <3>2 DEF FindRoleByID, Continue
    <3> QED
      BY <3>1, <3>2
  <2>3. CASE InsertRole(q) \/ TxCommit(q) \/ Fail(q)
    BY <1>1, <1>2, <1>4, <2>3 DEF InsertRole, TxCommit, Fail, Continue
  <2>4. CASE TxDelete(q) \/ TxInsert(q) \/ ListRoles(q)
    BY <1>2, <2>4 DEF TxDelete, TxInsert, ListRoles, Continue
  <2>5. CASE ReadCodes(q)
    BY <1>1, <1>2, <1>4, <2>5 DEF ReadCodes, Continue
  <2> QED
    BY <1>7, <2>1, <2>2, <2>3, <2>4, <2>5 DEF Serve
<1>8. ASSUME NEW u \in Users, NEW ids \in (SUBSET RoleIds) \ {{}}, AssignRoles(u, ids)
      PROVE FALSE
  BY <1>2, <1>8 DEF AssignRoles
<1>9. ASSUME NEW q \in Requests, Check(q) PROVE q = r
  <2>1. PICK a : reply' = [reply EXCEPT ![q] = a]
    BY <1>9 DEF Check, Answer
  <2> QED
    BY <1>9, <2>1 DEF Inductive, TypeOK
<1>10. ~UNCHANGED vars
  BY <1>2 DEF vars
<1> QED
  BY <1>6, <1>7, <1>8, <1>9, <1>10 DEF Next

\* The verdict of a guarded request is that of the last committed permissions of
\* the roles the account holds: a replacement that is half way neither locks
\* anybody out nor lets anybody in (rbac.go:52-64, permission.go:23-34).
THEOREM VerdictsFromWholeSets == Spec => VerdictFromWholeSets
<1>1. Inductive /\ [Next]_vars =>
        [\A r \in Requests :
            reply[r] = Null /\ reply'[r] \in Verdicts =>
              (reply'[r] = "Allowed" <=>
                 \E i \in userRoles[call[r].user] : call[r].perm \in Latest(i))]_vars
  <2> SUFFICES ASSUME Inductive, [Next]_vars, NEW r \in Requests,
                      reply[r] = Null, reply'[r] \in Verdicts
               PROVE  reply'[r] = "Allowed" <=>
                        \E i \in userRoles[call[r].user] : call[r].perm \in Latest(i)
    OBVIOUS
  <2>1. Check(r)
    BY OnlyCheckDecides
  <2>2. call[r] \in Call /\ call[r].op = "check"
    BY <2>1 DEF Check, Inductive, PhaseInv, Phase, Checked
  <2>3. call[r].user \in Users
    BY <2>2 DEF Call
  <2>4. \A i \in userRoles[call[r].user] : rolePerms[i] = Latest(i)
    BY <2>3 DEF Inductive, HeldInv, Live, LastCommitWins
  <2>5. reply'[r] = IF UserHasPermission(call[r].user, call[r].perm)
                      THEN "Allowed" ELSE "Forbidden"
    BY <2>1 DEF Check, Answer, Inductive, TypeOK
  <2> QED
    BY <2>4, <2>5 DEF UserHasPermission
<1> QED
  BY <1>1, AlwaysInductive, PTL DEF Spec, VerdictFromWholeSets

-----------------------------------------------------------------------------
(* The directory of roles.                                                 *)

WriteSteps == {"findCode", "findRole", "mapCodes", "insertRole", "txDelete", "txInsert"}

\* A request asks once, and an update works on the role of its path.
AskedInv ==
    \A r \in Requests :
        /\ pc[r] = "idle" => call[r] = Null
        /\ pc[r] # "idle" /\ call[r].op = "update" => target[r] = call[r].id

\* A statement keeps the request among those that write, or ends its writing.
LEMMA ServePlace ==
  ASSUME Inductive, NEW r \in Requests, Serve(r) \/ Fail(r)
  PROVE  /\ call' = call /\ pc[r] # "idle"
         /\ \E s \in Steps : /\ pc' = [pc EXCEPT ![r] = s] /\ s # "idle"
                             /\ s \in WriteSteps => pc[r] \in WriteSteps
<1> USE DEF Continue, Answer, Goto, Steps, WriteSteps
<1>1. CASE Check(r) \/ ListRoles(r) \/ Fail(r)
  BY <1>1 DEF Check, ListRoles, Fail
<1>2. CASE FindRoleByCode(r) \/ MapCodes(r)
  BY <1>2 DEF FindRoleByCode, MapCodes
<1>3. CASE FindRoleByID(r)
  <2>1. pc[r] = "findRole" /\ call' = call
    BY <1>3 DEF FindRoleByID
  <2>2. Answer(r, "NotFound") \/ Continue(r, "readCodes") \/ Continue(r, "mapCodes")
    <3>1. CASE roles[target[r]] = Null
      BY <1>3, <3>1 DEF FindRoleByID
    <3>2. CASE roles[target[r]] # Null
      BY <1>3, <3>2 DEF FindRoleByID
    <3> QED
      BY <3>1, <3>2
  <2> QED
    BY <2>1, <2>2
<1>4. CASE InsertRole(r) \/ TxDelete(r)
  BY <1>4 DEF InsertRole, TxDelete
<1>5. CASE TxInsert(r)
  <2>1. pc[r] = "txInsert" /\ call' = call /\ pc' = [pc EXCEPT ![r] = "txInsert"]
    BY <1>5 DEF TxInsert, Inductive, TypeOK
  <2> QED
    BY <2>1
<1>6. CASE TxCommit(r)
  BY <1>6 DEF TxCommit
<1>7. CASE ReadCodes(r)
  BY <1>7 DEF ReadCodes
<1> QED
  BY <1>1, <1>2, <1>3, <1>4, <1>5, <1>6, <1>7 DEF Serve

\* Apart from a commit it leaves the tables alone.
LEMMA ServeTables ==
  ASSUME NEW r \in Requests, Serve(r) \/ Fail(r), ~TxCommit(r)
  PROVE  UNCHANGED tables
BY DEF Serve, Fail, Check, FindRoleByCode, FindRoleByID, MapCodes, InsertRole, TxDelete,
   TxInsert, ListRoles, ReadCodes, Isolated, tables

LEMMA ServeTarget ==
  ASSUME Inductive, NEW r \in Requests, Serve(r) \/ Fail(r)
  PROVE  \/ target' = target
         \/ call[r].op = "create" /\ \E i : target' = [target EXCEPT ![r] = i]
<1>1. CASE InsertRole(r)
  BY <1>1 DEF InsertRole, Inductive, PhaseInv, Phase, Checked
<1>2. CASE ~InsertRole(r)
  BY <1>2 DEF Serve, Fail, Check, FindRoleByCode, FindRoleByID, MapCodes, TxDelete,
     TxInsert, TxCommit, ListRoles, ReadCodes
<1> QED
  BY <1>1, <1>2

LEMMA ArrivePlace ==
  ASSUME Inductive, NEW r \in Requests, NEW c \in Calls, Arrive(r, c)
  PROVE  /\ c \in Call /\ pc[r] = "idle"
         /\ call' = [call EXCEPT ![r] = c]
         /\ target' = [target EXCEPT ![r] = IF c.op \in {"update", "get"} THEN c.id ELSE Null]
         /\ \E s \in Steps : pc' = [pc EXCEPT ![r] = s] /\ s # "idle"
         /\ UNCHANGED tables
<1>1. /\ c \in Call /\ c.op \in {"create", "update", "get", "list", "check"}
  BY SeedAssumption DEF Call
<1>2. FirstStep[c.op] \in Steps /\ FirstStep[c.op] # "idle"
  BY <1>1 DEF FirstStep, Steps
<1> QED
  BY <1>1, <1>2 DEF Arrive, Continue, Answer, Goto, Steps

LEMMA AskedStep == Inductive /\ AskedInv /\ [Next]_vars => AskedInv'
<1> SUFFICES ASSUME Inductive, AskedInv, [Next]_vars PROVE AskedInv'
  OBVIOUS
<1>1. ASSUME NEW r \in Requests, NEW c \in Calls, Arrive(r, c) PROVE AskedInv'
  <2>1. PICK s \in Steps : pc' = [pc EXCEPT ![r] = s] /\ s # "idle"
    BY <1>1, ArrivePlace
  <2>2. /\ call' = [call EXCEPT ![r] = c]
        /\ target' = [target EXCEPT ![r] = IF c.op \in {"update", "get"} THEN c.id ELSE Null]
    BY <1>1, ArrivePlace
  <2> QED
    BY <2>1, <2>2 DEF AskedInv, Inductive, TypeOK
<1>2. ASSUME NEW r \in Requests, Serve(r) \/ Fail(r) PROVE AskedInv'
  <2>1. PICK s \in Steps : pc' = [pc EXCEPT ![r] = s] /\ s # "idle"
    BY <1>2, ServePlace
  <2>2. call' = call /\ pc[r] # "idle"
    BY <1>2, ServePlace
  <2>3. \/ target' = target
        \/ call[r].op = "create" /\ \E i : target' = [target EXCEPT ![r] = i]
    BY <1>2, ServeTarget
  <2> QED
    BY <2>1, <2>2, <2>3 DEF AskedInv, Inductive, TypeOK
<1>3. ASSUME NEW u \in Users, NEW ids \in (SUBSET RoleIds) \ {{}}, AssignRoles(u, ids)
      PROVE AskedInv'
  BY <1>3 DEF AssignRoles, AskedInv
<1>4. CASE UNCHANGED vars
  BY <1>4 DEF vars, AskedInv
<1> QED
  BY <1>1, <1>2, <1>3, <1>4 DEF Next

\* A request that takes a statement is still to write, or has ended it.
LEMMA ServeOpen ==
  ASSUME Inductive, NEW r \in Requests, Serve(r) \/ Fail(r)
  PROVE  ToWrite' = ToWrite \/ (r \in ToWrite /\ ToWrite' = ToWrite \ {r})
<1>1. call' = call
  BY ServePlace
<1>2. PICK s \in Steps : /\ pc' = [pc EXCEPT ![r] = s]
                         /\ s \in WriteSteps => pc[r] \in WriteSteps
  BY ServePlace
<1>3. \A q \in Requests : q # r => pc'[q] = pc[q]
  BY <1>2 DEF Inductive, TypeOK
<1>4. pc'[r] \in WriteSteps => pc[r] \in WriteSteps
  BY <1>2 DEF Inductive, TypeOK
<1>5. /\ ToWrite = {q \in Requests : pc[q] \in WriteSteps /\ call[q].op \in {"create", "update"}}
      /\ ToWrite' = {q \in Requests : pc'[q] \in WriteSteps /\ call[q].op \in {"create", "update"}}
  BY <1>1 DEF ToWrite, WriteSteps
<1> QED
  BY <1>3, <1>4, <1>5

LEMMA ArriveAsks ==
  ASSUME Inductive, AskedInv, NEW r \in Requests, NEW c \in Calls, Arrive(r, c)
  PROVE  Directory!Ask(r, c)
<1>1. PICK s \in Steps : pc' = [pc EXCEPT ![r] = s]
  BY ArrivePlace
<1>2. /\ pc[r] = "idle" /\ call[r] = Null /\ call' = [call EXCEPT ![r] = c]
      /\ UNCHANGED tables
  BY ArrivePlace DEF AskedInv
<1>3. /\ \A q \in Requests : q # r => pc'[q] = pc[q] /\ call'[q] = call[q]
      /\ call'[r] = c
  BY <1>1, <1>2 DEF Inductive, TypeOK
<1>4. r \notin ToWrite
  BY <1>2 DEF ToWrite
<1>5. CASE r \in ToWrite'
  <2>1. c.op \in {"create", "update"}
    BY <1>3, <1>5 DEF ToWrite
  <2>2. ToWrite' = ToWrite \cup {r}
    BY <1>3, <1>5 DEF ToWrite
  <2> QED
    BY <1>2, <2>1, <2>2 DEF Directory!Ask, tables
<1>6. CASE r \notin ToWrite'
  <2>1. ToWrite' = ToWrite
    BY <1>3, <1>4, <1>6 DEF ToWrite
  <2> QED
    BY <1>2, <2>1 DEF Directory!Ask, tables
<1> QED
  BY <1>5, <1>6

\* The commit is the moment at which the request writes.
LEMMA CommitWrites ==
  ASSUME Inductive, Inductive', AskedInv, NEW r \in Requests, TxCommit(r)
  PROVE  \E i \in RoleIds : Directory!AddRole(r, i) \/ Directory!SetPermissions(r, i)
<1> USE NoNull
<1> DEFINE t == target[r]
<1>0. /\ TypeOK /\ TypeOK' /\ pc[r] = "txInsert" /\ t \in RoleIds
      /\ call[r] \in Call /\ call[r].op \in {"create", "update"}
      /\ call[r].op = "create" => roles[t] = Null /\ ~Exists(Code(r))
      /\ call[r].op = "update" => roles[t] # Null /\ t = call[r].id
      /\ Wanted(r) \in SUBSET Perms
      /\ UNCHANGED <<userRoles, call>>
  BY DEF TxCommit, Inductive, PhaseInv, Phase, Checked, Holding, Live, AskedInv
<1>1. Directory!Wanted(call[r]) = Wanted(r) /\ Directory!Code(call[r]) = Code(r)
  BY DEF Directory!Wanted, Directory!Code, Wanted, uniqueStrings, Code
<1>2. rolePerms' = [rolePerms EXCEPT ![t] = Wanted(r)]
  BY <1>0, CommitResult DEF Committed, TypeOK
<1>3. r \in ToWrite /\ ToWrite' = ToWrite \ {r}
  <2>1. r \in ToWrite
    BY <1>0 DEF ToWrite
  <2>2. pc'[r] \in {"readCodes", "done"}
    BY <1>0 DEF TxCommit, Continue, Answer, Goto, TypeOK
  <2>3. r \notin ToWrite'
    BY <2>2 DEF ToWrite
  <2> QED
    BY <2>1, <2>3, ServeOpen DEF Serve
<1>4. Directory!Grant(r, t)
  BY <1>0, <1>1, <1>2, <1>3 DEF Directory!Grant
<1>5. CASE call[r].op = "create"
  <2>1. roles' = [roles EXCEPT ![t] = Code(r)]
    BY <1>5 DEF TxCommit, NewRole
  <2> QED
    BY <1>0, <1>1, <1>3, <1>4, <1>5, <2>1 DEF Directory!AddRole, Exists
<1>6. CASE call[r].op = "update"
  <2>1. roles' = roles
    BY <1>6 DEF TxCommit, NewRole
  <2> QED
    BY <1>0, <1>3, <1>4, <1>6, <2>1 DEF Directory!SetPermissions
<1> QED
  BY <1>0, <1>5, <1>6

\* Every step is a step of the directory or leaves it alone.
LEMMA StepsRefine ==
  ASSUME Inductive, AskedInv, [Next]_vars
  PROVE  [Directory!Next]_(Directory!vars)
<1>1. ASSUME NEW r \in Requests, NEW c \in Calls, Arrive(r, c) PROVE Directory!Next
  BY <1>1, ArriveAsks DEF Directory!Next
<1>2. ASSUME NEW r \in Requests, TxCommit(r) PROVE Directory!Next
  <2>1. Inductive'
    BY NextInductive
  <2> QED
    BY <1>2, <2>1, CommitWrites DEF Directory!Next
<1>3. ASSUME NEW r \in Requests, Serve(r) \/ Fail(r), ~TxCommit(r)
      PROVE  Directory!Next \/ UNCHANGED Directory!vars
  <2>1. UNCHANGED <<roles, rolePerms, userRoles, call>>
    BY <1>3, ServeTables, ServePlace DEF tables
  <2>2. ToWrite' = ToWrite \/ (r \in ToWrite /\ ToWrite' = ToWrite \ {r})
    BY <1>3, ServeOpen
  <2> QED
    BY <2>1, <2>2 DEF Directory!Next, Directory!GiveUp, Directory!vars
<1>4. ASSUME NEW u \in Users, NEW ids \in (SUBSET RoleIds) \ {{}}, AssignRoles(u, ids)
      PROVE  Directory!Next
  <2>1. ToWrite' = ToWrite
    BY <1>4 DEF AssignRoles, ToWrite
  <2>2. Directory!AssignRoles(u, ids)
    BY <1>4, <2>1 DEF AssignRoles, Directory!AssignRoles
  <2> QED
    BY <2>2 DEF Directory!Next
<1>5. CASE UNCHANGED vars
  BY <1>5 DEF vars, Directory!vars, ToWrite
<1> QED
  BY <1>1, <1>2, <1>3, <1>4, <1>5 DEF Next

\* Every create and update, failures at any statement included, changes the
\* tables at most once and as a whole, while it is under way: the transactions of
\* CreateRole and ReplaceRolePermissions (rbac.go:108-120, 165-177) are one step.
THEOREM RefinesDirectory == Spec => ImplementsDirectory
<1>1. Init => Directory!Init /\ AskedInv
  <2> SUFFICES ASSUME Init PROVE Directory!Init /\ AskedInv
    OBVIOUS
  <2>1. ToWrite = {}
    BY DEF Init, ToWrite
  <2>2. \A r \in Requests : pc[r] = "idle" /\ call[r] = Null
    BY DEF Init
  <2>3. AskedInv
    BY <2>2, ZenonT(30) DEF AskedInv
  <2> QED
    BY <2>1, <2>3 DEF Init, Seeded, Directory!Init
<1>2. Inductive /\ AskedInv /\ [Next]_vars => [Directory!Next]_(Directory!vars)
  BY StepsRefine
<1> QED
  BY <1>1, <1>2, AskedStep, AlwaysInductive, PTL
     DEF Spec, ImplementsDirectory, Directory!Spec

=============================================================================
