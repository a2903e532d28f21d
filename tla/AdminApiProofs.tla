--------------------------- MODULE AdminApiProofs ---------------------------
(* Proofs about AdminApi, for any number of requests and users, any routes  *)
(* offered and any permissions granted.                                     *)
(*                                                                          *)
(* A request writes in its handler, where a guarded route gets only after   *)
(* its permission was found (Checked); its row is made in the last step of  *)
(* its chain, when the answer is there (Stage).                             *)
EXTENDS AdminApi, TLAPS

\* Where a request is, and what it has done so far ...
Stage(r) ==
    /\ pc[r] # "idle" => route[r] \in Routes
    /\ pc[r] \in {"idle", "auth", "permission", "handler"} => ~wrote[r]
    /\ job[r] # "none" => pc[r] = "done"
    /\ pc[r] = "permission" => route[r] \in Guarded /\ user[r] # Null
    /\ pc[r] = "handler" /\ route[r] \in Guarded => user[r] # Null
    /\ pc[r] = "after" => UsesAudit(route[r]) /\ user[r] # Null /\ reply[r] \in Answers
    /\ wrote[r] => route[r] \in Writes

\* ... and what has been found out about its user.
Checked(r) ==
    /\ pc[r] \in {"auth", "permission", "handler"} /\ Holding(r, holds) => held[r]
    /\ pc[r] = "handler" /\ route[r] \in Guarded => held[r]

\* The row that is being stored, or has been, is about the request.
Row(r) ==
    job[r] \in {"running", "stored"} =>
        /\ record[r].status = reply[r]
        /\ route[r] \notin {"login", "passkeyFinish"} =>
              record[r].user = user[r] /\ record[r].route = route[r]

Inductive ==
    /\ TypeOK
    /\ \A r \in Requests : Stage(r) /\ Checked(r) /\ Row(r)
    /\ WriterWasPermitted /\ AuditedWriteRecorded

-----------------------------------------------------------------------------
\* Neither the public routes nor the logins are guarded.
LEMMA Groups ==
  /\ Public \cap Guarded = {}
  /\ "login" \notin Guarded /\ "passkeyFinish" \notin Guarded
  /\ "login" \in Routes
  BY DEF Public, Guarded, Permission, Routes

\* A guarded route has one of the permissions.
LEMMA GuardedPermission == \A to \in Guarded : Permission[to] \in Perms
  BY DEF Perms

\* No request has come, nothing is cut.
LEMMA InitInductive == Init => Inductive
<1> SUFFICES ASSUME Init PROVE Inductive
  OBVIOUS
<1> USE DEF Init
<1>1. TypeOK
  BY RouteAssumption DEF TypeOK, Steps, Jobs
<1>2. \A r \in Requests : Stage(r) /\ Checked(r) /\ Row(r)
  BY DEF Stage, Checked, Row
<1>3. WriterWasPermitted /\ AuditedWriteRecorded
  BY DEF WriterWasPermitted, AuditedWriteRecorded
<1>4. QED
  BY <1>1, <1>2, <1>3 DEF Inductive

-----------------------------------------------------------------------------
(* Each action keeps the invariant.                                         *)

\* A request comes.
LEMMA ArriveKeeps ==
  ASSUME Inductive, NEW r \in Requests, NEW to \in Offered, NEW u \in Users \cup {Null}, Arrive(r, to, u)
  PROVE  Inductive'
<1> USE DEF Inductive
<1> DEFINE entitled == IF to \in Guarded /\ u # Null THEN Permission[to] \in holds[u] ELSE FALSE
<1>0. /\ to \in Routes
      /\ held' = [held EXCEPT ![r] = entitled]
      /\ entitled \in BOOLEAN
  <2>1. to \in Routes
    BY RouteAssumption
  <2>2. held' = [held EXCEPT ![r] = entitled]
    BY DEF Arrive
  <2>3. entitled \in BOOLEAN
    <3>1. CASE to \in Guarded /\ u # Null /\ Permission[to] \in holds[u]
      <4>1. entitled = TRUE
        BY <3>1
      <4>2. QED
        BY <4>1, Zenon
    <3>2. CASE ~(to \in Guarded /\ u # Null /\ Permission[to] \in holds[u])
      <4>1. entitled = FALSE
        BY <3>2
      <4>2. QED
        BY <4>1, Zenon
    <3>3. QED
      BY <3>1, <3>2
  <2>4. QED
    BY <2>1, <2>2, <2>3
<1>1. TypeOK'
  <2>1. held' \in [Requests -> BOOLEAN]
    <3> HIDE DEF entitled
    <3>1. QED
      BY <1>0 DEF TypeOK
  <2>2. pc' \in [Requests -> Steps]
    BY DEF TypeOK, Arrive, Goto, Steps
  <2>3. route' \in [Requests -> Routes \cup {Null}] /\ user' \in [Requests -> Users \cup {Null}]
    BY <1>0 DEF TypeOK, Arrive
  <2>4. QED
    BY <2>1, <2>2, <2>3 DEF TypeOK, Arrive, outcome, auditing
<1>2. \A q \in Requests : Stage(q)'
  <2>1. CASE to \in Public
    BY <1>0, <2>1, Groups, RouteAssumption DEF TypeOK, Stage, Arrive, Goto, outcome, auditing
  <2>2. CASE to \notin Public
    BY <1>0, <2>2, RouteAssumption DEF TypeOK, Stage, Arrive, Goto, outcome, auditing
  <2>3. QED
    BY <2>1, <2>2
<1>3. \A q \in Requests : Checked(q)'
  <2>1. \A q \in Requests : q # r =>
          /\ pc'[q] = pc[q] /\ held'[q] = held[q] /\ route'[q] = route[q]
          /\ Holding(q, holds)' <=> Holding(q, holds)
    BY DEF TypeOK, Arrive, Goto, Holding
  <2>2. held'[r] = entitled
    BY <1>0 DEF TypeOK
  <2>3. Holding(r, holds)' <=> entitled
    BY DEF TypeOK, Arrive, Holding
  <2>4. pc'[r] = "handler" => route'[r] \notin Guarded
    BY Groups DEF TypeOK, Arrive, Goto
  <2>5. Checked(r)'
    <3> HIDE DEF entitled
    <3>1. QED
      BY <2>2, <2>3, <2>4 DEF Checked
  <2>6. QED
    BY <2>1, <2>5 DEF Checked
<1>4. \A q \in Requests : Row(q)'
  BY RouteAssumption DEF TypeOK, Stage, Row, Arrive, Goto, request, outcome, auditing
<1>5. WriterWasPermitted' /\ AuditedWriteRecorded'
  BY RouteAssumption DEF TypeOK, Stage, Checked, WriterWasPermitted, AuditedWriteRecorded,
       Arrive, Goto, request, outcome, auditing
<1>6. QED
  BY <1>1, <1>2, <1>3, <1>4, <1>5

\* The token is parsed.
LEMMA RequireAuthKeeps ==
  ASSUME Inductive, NEW r \in Requests, RequireAuth(r)
  PROVE  Inductive'
<1> USE DEF Inductive
<1>1. TypeOK'
  BY DEF TypeOK, Steps, Jobs, Answers, RequireAuth, Goto, Reply, request, auditing
<1>2. \A q \in Requests : Stage(q)'
  BY DEF TypeOK, Stage, UsesAudit, RequireAuth, Goto, Reply, request, auditing
<1>3. \A q \in Requests : Checked(q)'
  BY DEF TypeOK, Stage, Checked, Holding, RequireAuth, Goto, Reply, request, auditing
<1>4. \A q \in Requests : Row(q)'
  BY DEF TypeOK, Stage, Row, RequireAuth, Goto, Reply, request, auditing
<1>5. WriterWasPermitted' /\ AuditedWriteRecorded'
  BY DEF TypeOK, Stage, Checked, WriterWasPermitted, AuditedWriteRecorded,
       RequireAuth, Goto, Reply, request, auditing
<1>6. QED
  BY <1>1, <1>2, <1>3, <1>4, <1>5

\* The permission is looked up.
LEMMA RequirePermissionKeeps ==
  ASSUME Inductive, NEW r \in Requests, RequirePermission(r)
  PROVE  Inductive'
<1> USE DEF Inductive
<1>1. TypeOK'
  BY DEF TypeOK, Steps, Jobs, Answers, RequirePermission, Goto, Reply, Abort, AfterHandler,
       UsesAudit, request, auditing
<1>2. \A q \in Requests : Stage(q)'
  BY DEF TypeOK, Stage, Answers, UsesAudit, RequirePermission, Goto, Reply, Abort, AfterHandler,
       request, auditing
<1>3. \A q \in Requests : Checked(q)'
  BY DEF TypeOK, Stage, Checked, Holding, RequirePermission, Goto, Reply, Abort, AfterHandler,
       UsesAudit, request, auditing
<1>4. \A q \in Requests : Row(q)'
  BY DEF TypeOK, Stage, Row, RequirePermission, Goto, Reply, Abort, AfterHandler, UsesAudit,
       request, auditing
<1>5. WriterWasPermitted' /\ AuditedWriteRecorded'
  BY DEF TypeOK, Stage, Checked, WriterWasPermitted, AuditedWriteRecorded,
       RequirePermission, Goto, Reply, Abort, AfterHandler, UsesAudit, request, auditing
<1>6. QED
  BY <1>1, <1>2, <1>3, <1>4, <1>5

\* The handler writes, or not, and answers.
LEMMA HandlerKeeps ==
  ASSUME Inductive, NEW r \in Requests, Handler(r)
  PROVE  Inductive'
<1> USE DEF Inductive
<1>1. TypeOK'
  BY Groups DEF TypeOK, Steps, Jobs, Answers, Handler, Goto, Reply, AfterHandler, UsesAudit,
       Record, request, auditing
<1>2. \A q \in Requests : Stage(q)'
  BY Groups DEF TypeOK, Stage, Answers, UsesAudit, Handler, AltersTables, Goto, Reply,
       AfterHandler, Record, request, auditing
<1>3. \A q \in Requests : Checked(q)'
  BY Groups DEF TypeOK, Stage, Checked, Holding, Handler, Goto, Reply, AfterHandler, UsesAudit,
       Record, request, auditing
<1>4. \A q \in Requests : Row(q)'
  BY Groups DEF TypeOK, Stage, Row, Handler, Goto, Reply, AfterHandler, UsesAudit, Record,
       request, auditing
<1>5. WriterWasPermitted' /\ AuditedWriteRecorded'
  BY Groups DEF TypeOK, Stage, Checked, WriterWasPermitted, AuditedWriteRecorded,
       Handler, Goto, Reply, AfterHandler, UsesAudit, Record, request, auditing
<1>6. QED
  BY <1>1, <1>2, <1>3, <1>4, <1>5

\* The handler panics.
LEMMA PanicKeeps ==
  ASSUME Inductive, NEW r \in Requests, Panic(r)
  PROVE  Inductive'
<1> USE DEF Inductive
<1>1. TypeOK'
  BY DEF TypeOK, Steps, Jobs, Answers, Panic, Goto, Reply, request, auditing
<1>2. \A q \in Requests : Stage(q)'
  BY DEF TypeOK, Stage, UsesAudit, Panic, AltersTables, Goto, Reply, request, auditing
<1>3. \A q \in Requests : Checked(q)'
  BY DEF TypeOK, Stage, Checked, Holding, Panic, Goto, Reply, request, auditing
<1>4. \A q \in Requests : Row(q)'
  BY DEF TypeOK, Stage, Row, Panic, Goto, Reply, request, auditing
<1>5. WriterWasPermitted' /\ AuditedWriteRecorded'
  BY DEF TypeOK, Stage, Checked, WriterWasPermitted, AuditedWriteRecorded,
       Panic, Goto, Reply, request, auditing
<1>6. QED
  BY <1>1, <1>2, <1>3, <1>4, <1>5

\* The audit starts the goroutine of the row.
LEMMA AuditKeeps ==
  ASSUME Inductive, NEW r \in Requests, Audit(r)
  PROVE  Inductive'
<1> USE DEF Inductive
<1>1. TypeOK'
  <2>1. CASE user[r] # Null /\ Recorded(route[r])
    <3>1. [user |-> user[r], route |-> route[r], status |-> reply[r]] \in Record
      BY <2>1 DEF TypeOK, Stage, Audit, Record
    <3>2. job' \in [Requests -> Jobs] /\ record' \in [Requests -> Record \cup {Null}]
      BY <2>1, <3>1 DEF TypeOK, Jobs, Audit, Detach, WriterStatus
    <3>3. QED
      BY <3>2 DEF TypeOK, Steps, Audit, Goto, request, outcome
  <2>2. CASE ~(user[r] # Null /\ Recorded(route[r]))
    BY <2>2 DEF TypeOK, Steps, Audit, Goto, request, outcome, auditing
  <2>3. QED
    BY <2>1, <2>2
<1>2. \A q \in Requests : Stage(q)'
  BY DEF TypeOK, Stage, UsesAudit, Audit, Goto, Detach, Recorded, WriterStatus, Record, request,
       outcome, auditing
<1>3. \A q \in Requests : Checked(q)'
  BY DEF TypeOK, Stage, Checked, Holding, Audit, Goto, Detach, Recorded, WriterStatus, Record,
       request, outcome, auditing
<1>4. \A q \in Requests : Row(q)'
  BY DEF TypeOK, Stage, Row, Audit, Goto, Detach, Recorded, WriterStatus, Record, request,
       outcome, auditing
<1>5. WriterWasPermitted' /\ AuditedWriteRecorded'
  BY DEF TypeOK, Stage, Checked, WriterWasPermitted, AuditedWriteRecorded,
       Audit, Goto, Detach, Recorded, WriterStatus, Record, request, outcome, auditing
<1>6. QED
  BY <1>1, <1>2, <1>3, <1>4, <1>5

\* The row is stored, or not.
LEMMA InsertKeeps ==
  ASSUME Inductive, NEW r \in Requests, Insert(r) \/ InsertFails(r)
  PROVE  Inductive'
<1> USE DEF Inductive
<1>1. TypeOK'
  BY DEF TypeOK, Steps, Jobs, Answers, Insert, InsertFails, request, outcome
<1>2. \A q \in Requests : Stage(q)'
  BY DEF TypeOK, Stage, UsesAudit, Insert, InsertFails, request, outcome
<1>3. \A q \in Requests : Checked(q)'
  BY DEF TypeOK, Stage, Checked, Holding, Insert, InsertFails, request, outcome
<1>4. \A q \in Requests : Row(q)'
  BY DEF TypeOK, Stage, Row, Insert, InsertFails, request, outcome
<1>5. WriterWasPermitted' /\ AuditedWriteRecorded'
  BY DEF TypeOK, Stage, Checked, WriterWasPermitted, AuditedWriteRecorded,
       Insert, InsertFails, request, outcome
<1>6. QED
  BY <1>1, <1>2, <1>3, <1>4, <1>5

\* A grant is changed: who holds a permission now is noted.
LEMMA ChangeGrantsKeeps ==
  ASSUME Inductive, NEW u \in Users, NEW perms \in SUBSET Grantable, ChangeGrants(u, perms)
  PROVE  Inductive'
<1> USE DEF Inductive
<1>1. TypeOK'
  BY RouteAssumption DEF TypeOK, Steps, Jobs, Answers, ChangeGrants, request, outcome, auditing
<1>2. \A q \in Requests : Stage(q)'
  BY RouteAssumption DEF TypeOK, Stage, UsesAudit, ChangeGrants, request, outcome, auditing
<1>3. \A q \in Requests : Checked(q)'
  BY RouteAssumption DEF TypeOK, Stage, Checked, Holding, ChangeGrants, request, outcome, auditing
<1>4. \A q \in Requests : Row(q)'
  BY RouteAssumption DEF TypeOK, Stage, Row, ChangeGrants, request, outcome, auditing
<1>5. WriterWasPermitted' /\ AuditedWriteRecorded'
  BY RouteAssumption DEF TypeOK, Stage, Checked, WriterWasPermitted, AuditedWriteRecorded,
       ChangeGrants, request, outcome, auditing
<1>6. QED
  BY <1>1, <1>2, <1>3, <1>4, <1>5

\* The process is told to stop, and stops.
LEMMA ShutdownKeeps ==
  ASSUME Inductive, Signal \/ ShutdownDone \/ ShutdownTimeout
  PROVE  Inductive'
<1> USE DEF Inductive
<1>1. TypeOK'
  BY DEF TypeOK, Steps, Jobs, Answers, Signal, ShutdownDone, ShutdownTimeout, Drained, InFlight,
       Exit, request, outcome, auditing
<1>2. \A q \in Requests : Stage(q)'
  BY DEF TypeOK, Stage, UsesAudit, Signal, ShutdownDone, ShutdownTimeout, Drained, InFlight,
       Exit, request, outcome, auditing
<1>3. \A q \in Requests : Checked(q)'
  BY DEF TypeOK, Stage, Checked, Holding, Signal, ShutdownDone, ShutdownTimeout, Drained,
       InFlight, Exit, request, outcome, auditing
<1>4. \A q \in Requests : Row(q)'
  BY DEF TypeOK, Stage, Row, Signal, ShutdownDone, ShutdownTimeout, Drained, InFlight, Exit,
       request, outcome, auditing
<1>5. WriterWasPermitted' /\ AuditedWriteRecorded'
  BY DEF TypeOK, Stage, Checked, WriterWasPermitted, AuditedWriteRecorded,
       Signal, ShutdownDone, ShutdownTimeout, Drained, InFlight, Exit, request, outcome, auditing
<1>6. QED
  BY <1>1, <1>2, <1>3, <1>4, <1>5

\* Every step keeps the invariant.
LEMMA NextInductive == Inductive /\ [Next]_vars => Inductive'
<1> SUFFICES ASSUME Inductive, [Next]_vars PROVE Inductive'
  OBVIOUS
<1>1. ASSUME NEW r \in Requests,
             \/ \E to \in Offered, u \in Users \cup {Null} : Arrive(r, to, u)
             \/ Serve(r)
      PROVE  Inductive'
  BY <1>1, ArriveKeeps, RequireAuthKeeps, RequirePermissionKeeps, HandlerKeeps, PanicKeeps,
     AuditKeeps, InsertKeeps DEF Serve
<1>2. CASE \E u \in Users, perms \in SUBSET Grantable : ChangeGrants(u, perms)
  BY <1>2, ChangeGrantsKeeps
<1>3. CASE Signal \/ ShutdownDone \/ ShutdownTimeout
  BY <1>3, ShutdownKeeps
<1>4. CASE UNCHANGED vars
  BY <1>4 DEF vars, request, outcome, auditing, Inductive, TypeOK, Stage, Checked, Holding, Row,
     WriterWasPermitted, AuditedWriteRecorded
<1>5. QED
  BY <1>1, <1>2, <1>3, <1>4 DEF Next

\* The invariant holds in every reachable state.
LEMMA AlwaysInductive == Spec => []Inductive
  BY InitInductive, NextInductive, PTL DEF Spec

\* TypeOK is an invariant of the HTTP layer.
THEOREM TypeCorrect == Spec => []TypeOK
<1>1. Inductive => TypeOK
  BY DEF Inductive
<1>2. QED
  BY <1>1, AlwaysInductive, PTL

\* However grants change while requests are served, a guarded handler writes
\* only for a user who held its permission since the request came.
THEOREM WritersPermitted == Spec => []WriterWasPermitted
<1>1. Inductive => WriterWasPermitted
  BY DEF Inductive
<1>2. QED
  BY <1>1, AlwaysInductive, PTL

\* A stored row names the outcome the client was told, and outside the logins
\* the user and the route of the request.
THEOREM RowsTellOutcome == Spec => []RowTellsOutcome
<1>1. Inductive => RowTellsOutcome
  BY DEF Inductive, Row, RowTellsOutcome
<1>2. QED
  BY <1>1, AlwaysInductive, PTL

\* An answered attempt to write in an audited group, a refused one included, has
\* its row stored or on the way, unless the handler panicked, the INSERT failed or
\* the process ended while the row was on its way.
THEOREM AuditedWritesRecorded == Spec => []AuditedWriteRecorded
<1>1. Inductive => AuditedWriteRecorded
  BY DEF Inductive
<1>2. QED
  BY <1>1, AlwaysInductive, PTL

=============================================================================
