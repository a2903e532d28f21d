-------------------------- MODULE FrontUsersProofs --------------------------
(* Proofs about FrontUsers, for any number of requests and users, any texts *)
(* and any bodies.                                                          *)
(*                                                                          *)
(* A request knows what it looks for and will write (Creating, Updating);   *)
(* what its lookups have found free stays free until somebody else writes,  *)
(* which is noted (Found).                                                  *)
EXTENDS FrontUsers, TLAPS

Checking(r) == pc[r] \in Keyed \cup {"write"}

\* Where a request is, what it has done, and what it looks for.
Stage(r) ==
    /\ pc[r] # "idle" => call[r] \in Call
    /\ pc[r] = "idle" => target[r] = Null
    /\ pc[r] \notin {"reload", "done"} => ~wrote[r]
    /\ pc[r] # "done" => reply[r] = Null
    /\ pc[r] = "load" => call[r].op = "update"
    /\ pc[r] \in Contacts => want[r][pc[r]] # Empty

\* A create looks for what it will insert, a user not yet there.
Creating(r) ==
    Checking(r) /\ call[r].op = "create" =>
        /\ target[r] = Null
        /\ want[r] = [f \in Keyed |-> Sent(body(r), f, Empty)]
        /\ want[r]["username"] # Empty

\* An update works on a row that is there, and looks for what it will set.
Updating(r) ==
    call[r] # Null /\ call[r].op = "update" =>
        /\ pc[r] \notin {"idle", "done"} => target[r] \in UserIds
        /\ Checking(r) =>
              /\ users[target[r]] # Null
              /\ body(r).status # 2
              /\ \A f \in Keyed : body(r)[f] # Null => want[r][f] = Trim[body(r)[f]]
              /\ want[r]["username"] # Empty
        /\ pc[r] = "write" => HasFields(body(r))

\* What has been written is what there was to write.
Writing(r) ==
    /\ pc[r] = "reload" \/ reply[r] = "OK" =>
         (wrote[r] <=> call[r].op = "create" \/ HasFields(body(r)))
    /\ reply[r] \in Rejections => ~wrote[r]

\* What a request has looked up: nobody holds the value, or its user does too.
Clear(r, f) ==
    want[r][f] # Empty /\ Holders(f, want[r][f]) # {} =>
        target[r] \in Holders(f, want[r][f])
Found(r) ==
    ~overtaken[r] =>
        /\ pc[r] \in {"email", "write"} => Clear(r, "mobile")
        /\ pc[r] = "write" => Clear(r, "email")

Good(r) == Stage(r) /\ Creating(r) /\ Updating(r) /\ Writing(r)

Inductive ==
    /\ TypeOK
    /\ \A r \in Requests : Good(r) /\ Found(r)
    /\ UsernameUnique

-----------------------------------------------------------------------------
\* A text that is sent, or kept, is a text.
LEMMA SentType ==
  ASSUME NEW b \in Body, NEW f \in Keyed, NEW old \in Texts
  PROVE  Sent(b, f, old) \in Texts
<1>1. b[f] \in Texts \cup {Null}
  BY DEF Body, Keyed, Contacts
<1>2. QED
  BY <1>1, TextAssumption DEF Sent

\* A row has a text in each of its texts' columns.
LEMMA RowTexts ==
  ASSUME NEW row \in Row, NEW f \in Keyed
  PROVE  row[f] \in Texts
  BY DEF Row, Keyed, Contacts

\* The row a create inserts is one, when the username is not empty.
LEMMA NewRowType ==
  ASSUME NEW b \in Body, Sent(b, "username", Empty) # Empty
  PROVE  NewRow(b) \in Row
<1>1. \A f \in Keyed : Sent(b, f, Empty) \in Texts
  BY SentType, TextAssumption
<1>2. CreateStatus(b) \in {0, 1}
  BY DEF CreateStatus
<1>3. QED
  BY <1>1, <1>2 DEF NewRow, Row, Keyed, Contacts

\* Nothing has been asked, nobody shares a username.
LEMMA InitInductive == Init => Inductive
<1> SUFFICES ASSUME Init PROVE Inductive
  OBVIOUS
<1> USE DEF Init
<1>1. TypeOK
  <2>1. users \in [UserIds -> Row \cup {Null}]
    BY SeedAssumption
  <2>2. want \in [Requests -> [Keyed -> Texts]]
    BY TextAssumption
  <2>3. QED
    BY <2>1, <2>2 DEF TypeOK, Steps
<1>2. \A r \in Requests : Stage(r) /\ Creating(r) /\ Updating(r) /\ Found(r)
  BY DEF Stage, Creating, Updating, Found, Checking, Keyed, Contacts
<1>3. \A r \in Requests : Writing(r)
  BY TextAssumption DEF Writing, Replies, Rejections
<1>4. UsernameUnique
  <2> SUFFICES ASSUME NEW u \in UserIds, NEW v \in UserIds,
                      users[u] # Null, users[v] # Null, u # v
               PROVE  users[u].username # users[v].username
    BY DEF UsernameUnique
  <2>1. u \in DOMAIN SeedUsers /\ v \in DOMAIN SeedUsers
    OBVIOUS
  <2>2. SeedUsers[u]["username"] = SeedUsers[v]["username"] => SeedUsers[u]["username"] = Empty
    BY <2>1, SeedAssumption DEF Keyed
  <2>3. SeedUsers[u]["username"] # Empty
    BY <2>1, SeedAssumption DEF Row
  <2>4. QED
    BY <2>1, <2>2, <2>3
<1>5. QED
  BY <1>1, <1>2, <1>3, <1>4 DEF Inductive, Good

\* The row an update leaves is one.
LEMMA UpdatedRowType ==
  ASSUME NEW r \in Requests, call[r] \in Call, NEW old \in Row, body(r).status # 2,
         body(r).username # Null => Trim[body(r).username] # Empty
  PROVE  UpdatedRow(r, old) \in Row
<1>1. body(r) \in Body
  BY DEF Call, body
<1>2. \A f \in Keyed : Sent(body(r), f, old[f]) \in Texts
  BY <1>1, SentType, RowTexts
<1>3. Sent(body(r), "username", old["username"]) # Empty
  BY DEF Sent, Row
<1>4. (IF body(r).status = Null THEN old.status ELSE body(r).status) \in {0, 1}
  BY <1>1 DEF Body, Row
<1>5. QED
  BY <1>2, <1>3, <1>4 DEF UpdatedRow, Row, Keyed, Contacts

-----------------------------------------------------------------------------
(* What the step of one request leaves to the others.                       *)

Own(q) == <<pc[q], call[q], target[q], want[q], wrote[q], reply[q]>>
RowsStay == \A u \in UserIds : users[u] # Null => users'[u] # Null

\* A request another one's step does not touch, and whose row stays, is still
\* where it was.
LEMMA OthersGood ==
  ASSUME NEW q \in Requests, Good(q), Own(q)' = Own(q), RowsStay
  PROVE  Good(q)'
<1>1. /\ pc'[q] = pc[q] /\ call'[q] = call[q] /\ target'[q] = target[q]
      /\ want'[q] = want[q] /\ wrote'[q] = wrote[q] /\ reply'[q] = reply[q]
  BY DEF Own
<1>2. Stage(q)' /\ Creating(q)' /\ Writing(q)'
  BY <1>1 DEF Good, Stage, Creating, Writing, Checking, body, HasFields
<1>3. Checking(q) /\ call[q] # Null /\ call[q].op = "update" => target[q] \in UserIds
  BY DEF Good, Updating, Checking, Keyed, Contacts
<1>4. Updating(q)'
  BY <1>1, <1>3 DEF Good, Updating, Checking, body, HasFields, RowsStay
<1>5. QED
  BY <1>2, <1>4 DEF Good

\* While no row is written, what the others have found stays found.
LEMMA ReadingKeeps ==
  ASSUME Inductive, NEW r \in Requests, TypeOK', UNCHANGED <<users, overtaken>>,
         \A q \in Requests \ {r} : Own(q)' = Own(q),
         Good(r)', Found(r)'
  PROVE  Inductive'
<1>1. \A q \in Requests \ {r} : Good(q)'
  BY OthersGood DEF Inductive, RowsStay
<1>2. \A q \in Requests \ {r} : Found(q)'
  BY DEF Inductive, Own, Found, Clear, Holders
<1>3. UsernameUnique'
  BY DEF Inductive, UsernameUnique
<1>4. QED
  BY <1>1, <1>2, <1>3 DEF Inductive

\* A write is noted for all who have looked something up.
LEMMA WritingKeeps ==
  ASSUME Inductive, NEW r \in Requests, TypeOK', RowsStay, Overtake(r),
         \A q \in Requests \ {r} : Own(q)' = Own(q),
         Good(r)', pc'[r] \in {"reload", "done"}, UsernameUnique'
  PROVE  Inductive'
<1>1. \A q \in Requests \ {r} : Good(q)'
  BY OthersGood DEF Inductive
<1>2. \A q \in Requests \ {r} : Found(q)'
  BY DEF Inductive, TypeOK, Own, Found, Overtake, Keyed, Contacts
<1>3. Found(r)'
  BY DEF Found
<1>4. QED
  BY <1>1, <1>2, <1>3 DEF Inductive

-----------------------------------------------------------------------------
(* Each action keeps the invariant.                                         *)

\* A create comes.
LEMMA ArriveCreateKeeps ==
  ASSUME Inductive, NEW r \in Requests, NEW b \in CreateBodies, ArriveCreate(r, b)
  PROVE  Inductive'
<1> USE DEF ArriveCreate, Goto, Continue, Answer
<1> DEFINE c == [op |-> "create", id |-> Null, body |-> b]
<1>1. b \in Body /\ c \in Call
  BY SeedAssumption DEF Call
<1>2. [f \in Keyed |-> Sent(b, f, Empty)] \in [Keyed -> Texts]
  BY <1>1, SentType, TextAssumption
<1>3. TypeOK'
  <2>1. pc' \in [Requests -> Steps] /\ reply' \in [Requests -> Replies \cup {Null}]
    BY DEF Inductive, TypeOK, Steps, Replies, Rejections
  <2>2. call' \in [Requests -> Call \cup {Null}] /\ want' \in [Requests -> [Keyed -> Texts]]
    BY <1>1, <1>2 DEF Inductive, TypeOK
  <2>3. QED
    BY <2>1, <2>2 DEF Inductive, TypeOK
<1>4. \A q \in Requests \ {r} : Own(q)' = Own(q)
  BY DEF Inductive, TypeOK, Own
<1>5. /\ call'[r] = c /\ want'[r] = [f \in Keyed |-> Sent(b, f, Empty)]
      /\ pc[r] = "idle" /\ target'[r] = Null /\ wrote'[r] = FALSE
      /\ \/ pc'[r] = "username" /\ reply'[r] = Null /\ Sent(b, "username", Empty) # Empty
         \/ pc'[r] = "done" /\ reply'[r] = "BadRequest"
  BY DEF Inductive, TypeOK, Good, Stage
<1>6. Good(r)'
  BY <1>1, <1>5, TextAssumption
  DEF Good, Stage, Creating, Updating, Writing, Checking, body, Keyed, Contacts, Replies, Rejections
<1>7. Found(r)'
  BY <1>5 DEF Found
<1>8. QED
  BY <1>3, <1>4, <1>6, <1>7, ReadingKeeps

\* An update comes.
LEMMA ArriveUpdateKeeps ==
  ASSUME Inductive, NEW r \in Requests, NEW id \in UserIds, NEW b \in UpdateBodies,
         ArriveUpdate(r, id, b)
  PROVE  Inductive'
<1> USE DEF ArriveUpdate, Goto, Continue
<1> DEFINE c == [op |-> "update", id |-> id, body |-> b]
<1>1. c \in Call
  BY SeedAssumption DEF Call
<1>2. TypeOK'
  BY <1>1 DEF Inductive, TypeOK, Steps
<1>3. \A q \in Requests \ {r} : Own(q)' = Own(q)
  BY DEF Inductive, TypeOK, Own
<1>4. /\ call'[r] = c /\ target'[r] = id /\ pc[r] = "idle" /\ pc'[r] = "load"
      /\ wrote'[r] = FALSE /\ reply'[r] = Null
  BY DEF Inductive, TypeOK, Good, Stage
<1>5. Good(r)'
  BY <1>1, <1>4, TextAssumption
  DEF Good, Stage, Creating, Updating, Writing, Checking, body, Keyed, Contacts, Replies, Rejections
<1>6. Found(r)'
  BY <1>4 DEF Found
<1>7. QED
  BY <1>2, <1>3, <1>5, <1>6, ReadingKeeps

\* An update reads its row.
LEMMA LoadKeeps ==
  ASSUME Inductive, NEW r \in Requests, Load(r)
  PROVE  Inductive'
<1> USE DEF Load, Goto, Continue, Answer
<1> DEFINE row == users[target[r]]
           b == call[r].body
           looked == [f \in Keyed |-> Sent(b, f, row[f])]
<1>1. /\ call[r] \in Call /\ b \in Body /\ call[r].op = "update" /\ call[r] # Null
      /\ target[r] \in UserIds /\ row \in Row \cup {Null}
      /\ wrote[r] = FALSE /\ reply[r] = Null /\ pc[r] = "load"
  BY TextAssumption DEF Inductive, TypeOK, Good, Stage, Updating, Call
<1>2. row # Null => looked \in [Keyed -> Texts]
  BY <1>1, SentType, RowTexts
<1>3. \/ /\ pc' = [pc EXCEPT ![r] = "done"] /\ want' = want
         /\ \E a \in {"NotFound", "BadRequest"} : reply' = [reply EXCEPT ![r] = a]
      \/ /\ row # Null /\ b.status # 2 /\ Sent(b, "username", row["username"]) # Empty
         /\ want' = [want EXCEPT ![r] = looked]
         /\ pc' = [pc EXCEPT ![r] = "username"] /\ reply' = reply
  BY DEF body
<1>4. TypeOK'
  <2>1. pc' \in [Requests -> Steps] /\ reply' \in [Requests -> Replies \cup {Null}]
    BY <1>3 DEF Inductive, TypeOK, Steps, Replies, Rejections
  <2>2. want' \in [Requests -> [Keyed -> Texts]]
    BY <1>2, <1>3 DEF Inductive, TypeOK
  <2>3. QED
    BY <2>1, <2>2 DEF Inductive, TypeOK
<1>5. \A q \in Requests \ {r} : Own(q)' = Own(q)
  BY <1>3 DEF Inductive, TypeOK, Own
<1>6. /\ call'[r] = call[r] /\ target'[r] = target[r] /\ wrote'[r] = FALSE /\ users' = users
      /\ \/ pc'[r] = "done" /\ reply'[r] \in {"NotFound", "BadRequest"}
         \/ /\ pc'[r] = "username" /\ reply'[r] = Null
            /\ row # Null /\ b.status # 2 /\ Sent(b, "username", row["username"]) # Empty
            /\ want'[r] = looked
  BY <1>1, <1>3 DEF Inductive, TypeOK
<1>7. Stage(r)' /\ Creating(r)'
  BY <1>1, <1>6 DEF Stage, Creating, Keyed, Contacts
<1>8. Updating(r)'
  BY <1>1, <1>6 DEF Updating, Checking, body, Sent, Keyed, Contacts
<1>9. Writing(r)'
  BY <1>6, TextAssumption DEF Writing, Replies, Rejections
<1>10. Found(r)'
  BY <1>6 DEF Found
<1>11. QED
  BY <1>4, <1>5, <1>7, <1>8, <1>9, <1>10, ReadingKeeps DEF Good

\* One lookup of ensureUnique: without a conflict nobody holds the value, or
\* the user looked for does.
LEMMA NoConflict ==
  ASSUME NEW r \in Requests, NEW f \in Keyed, ~Conflict(f, want[r][f], target[r])
  PROVE  Clear(r, f)
  BY DEF Conflict, Clear

LEMMA FindKeeps ==
  ASSUME Inductive, NEW r \in Requests, NEW f \in Keyed, Find(r, f)
  PROVE  Inductive'
<1> USE DEF Find, Goto, Continue, Answer
<1>1. /\ call[r] \in Call /\ call[r] # Null /\ wrote[r] = FALSE /\ reply[r] = Null
      /\ pc[r] = f /\ Checking(r) /\ Good(r) /\ Found(r)
  BY TextAssumption DEF Inductive, TypeOK, Good, Stage, Checking, Keyed, Contacts
<1>2. \/ pc' = [pc EXCEPT ![r] = "done"] /\ reply' = [reply EXCEPT ![r] = "Duplicate"]
      \/ pc' = [pc EXCEPT ![r] = StepAfter(r, f)] /\ reply' = reply /\ Clear(r, f)
  BY NoConflict
<1>3. StepAfter(r, f) \in {"mobile", "email", "write", "reload"}
  BY DEF StepAfter, AfterChecks
<1>4. TypeOK'
  BY <1>2, <1>3 DEF Inductive, TypeOK, Steps, Replies, Rejections
<1>5. \A q \in Requests \ {r} : Own(q)' = Own(q)
  BY <1>2 DEF Inductive, TypeOK, Own
<1>6. /\ UNCHANGED <<users, call, target, want, overtaken>> /\ wrote'[r] = FALSE
      /\ \/ pc'[r] = "done" /\ reply'[r] = "Duplicate"
         \/ pc'[r] = StepAfter(r, f) /\ reply'[r] = Null /\ Clear(r, f)
  BY <1>1, <1>2 DEF Inductive, TypeOK
<1>7. Stage(r)' /\ Creating(r)'
  BY <1>1, <1>6
  DEF Good, Stage, Creating, Checking, body, StepAfter, AfterChecks, Keyed, Contacts
<1>8. Updating(r)'
  BY <1>1, <1>3, <1>6
  DEF Good, Updating, Checking, body, StepAfter, AfterChecks, HasFields, Fields, Keyed, Contacts
<1>9. Writing(r)'
  BY <1>1, <1>3, <1>6, TextAssumption
  DEF Writing, StepAfter, AfterChecks, body, HasFields, Replies, Rejections, Call
<1>10. Found(r)'
  BY <1>1, <1>3, <1>6
  DEF Found, Clear, Holders, StepAfter, AfterChecks, Keyed, Contacts
<1>11. QED
  BY <1>4, <1>5, <1>6, <1>7, <1>8, <1>9, <1>10, ReadingKeeps DEF Good

\* The row is read for the answer, or a statement fails.
LEMMA AnswerKeeps ==
  ASSUME Inductive, NEW r \in Requests, Reload(r) \/ Fail(r)
  PROVE  Inductive'
<1> USE DEF Reload, Fail, Goto, Answer
<1>1. Good(r) /\ pc[r] # "idle" /\ call[r] \in Call
  BY DEF Inductive, Good, Stage
<1>2. TypeOK'
  BY DEF Inductive, TypeOK, Steps, Replies, Rejections
<1>3. \A q \in Requests \ {r} : Own(q)' = Own(q)
  BY DEF Inductive, TypeOK, Own
<1>4. /\ UNCHANGED <<users, call, target, want, wrote, overtaken>> /\ pc'[r] = "done"
      /\ \/ reply'[r] = "OK" /\ pc[r] = "reload"
         \/ reply'[r] = "InternalError"
  BY DEF Inductive, TypeOK
<1>5. Good(r)'
  BY <1>1, <1>4
  DEF Good, Stage, Creating, Updating, Writing, Checking, body, HasFields, Keyed, Contacts, Rejections
<1>6. Found(r)'
  BY <1>4 DEF Found
<1>7. QED
  BY <1>2, <1>3, <1>4, <1>5, <1>6, ReadingKeeps

\* A row with its username free of the key keeps the usernames apart.
LEMMA KeyKeeps ==
  ASSUME Inductive, NEW u \in UserIds, NEW row \in Row, UniqueKeyAllows(row.username, u),
         users' = [users EXCEPT ![u] = row]
  PROVE  UsernameUnique'
<1> SUFFICES ASSUME NEW v \in UserIds, NEW w \in UserIds, users'[v] # Null, users'[w] # Null,
                    v # w
             PROVE  users'[v].username # users'[w].username
  BY DEF UsernameUnique
<1>1. \A x \in UserIds : users'[x] = IF x = u THEN row ELSE users[x]
  BY DEF Inductive, TypeOK
<1>2. \A x \in UserIds \ {u} : users[x] # Null => users[x].username # row.username
  BY DEF UniqueKeyAllows, Taken, Holders
<1>3. CASE v = u
  BY <1>1, <1>2, <1>3
<1>4. CASE w = u
  BY <1>1, <1>2, <1>4
<1>5. CASE v # u /\ w # u
  BY <1>1, <1>5 DEF Inductive, UsernameUnique
<1>6. QED
  BY <1>3, <1>4, <1>5

\* A request at its write, whose fields it knows, is done with the checks.
LEMMA AfterWrite ==
  ASSUME Inductive, NEW r \in Requests, pc[r] = "write", call'[r] = call[r], call[r] # Null,
         wrote'[r] = TRUE, target'[r] \in UserIds,
         \/ pc'[r] = "reload" /\ reply'[r] = Null
         \/ pc'[r] = "done" /\ reply'[r] = "InternalError"
  PROVE  Good(r)'
<1>1. call[r] \in Call /\ (call[r].op = "create" \/ HasFields(body(r)))
  BY DEF Inductive, TypeOK, Good, Stage, Updating, Call
<1>2. Stage(r)' /\ Creating(r)' /\ Updating(r)'
  BY <1>1 DEF Stage, Creating, Updating, Checking, Keyed, Contacts
<1>3. Writing(r)'
  BY <1>1, TextAssumption DEF Writing, body, HasFields, Replies, Rejections
<1>4. QED
  BY <1>2, <1>3 DEF Good

\* The unique key has refused the write.
LEMMA KeyErrorKeeps ==
  ASSUME Inductive, NEW r \in Requests, pc[r] = "write", KeyError(r), UNCHANGED <<call, want>>
  PROVE  Inductive'
<1>1. Fail(r)
  BY DEF KeyError, Fail
<1>2. QED
  BY <1>1, AnswerKeeps

\* What a write that is done leaves of the request.
LEMMA WrittenType ==
  ASSUME Inductive, NEW r \in Requests, Written(r)
  PROVE  /\ pc' \in [Requests -> Steps] /\ reply' \in [Requests -> Replies \cup {Null}]
         /\ wrote' \in [Requests -> BOOLEAN] /\ overtaken' \in [Requests -> BOOLEAN]
         /\ wrote'[r] = TRUE
         /\ \/ pc'[r] = "reload" /\ reply'[r] = reply[r]
            \/ pc'[r] = "done" /\ reply'[r] = "InternalError"
         /\ \A q \in Requests \ {r} :
               pc'[q] = pc[q] /\ reply'[q] = reply[q] /\ wrote'[q] = wrote[q]
<1>1. TypeOK
  BY DEF Inductive
<1>2. overtaken' \in [Requests -> BOOLEAN]
  BY <1>1 DEF Written, Overtake, TypeOK
<1>3. CASE Continue(r, "reload")
  BY <1>1, <1>2, <1>3 DEF Written, TypeOK, Continue, Goto, Steps
<1>4. CASE Answer(r, "InternalError")
  BY <1>1, <1>2, <1>4 DEF Written, TypeOK, Answer, Goto, Steps, Replies
<1>5. QED
  BY <1>3, <1>4 DEF Written

\* A row is inserted, or the key forbids it.
LEMMA InsertKeeps ==
  ASSUME Inductive, NEW r \in Requests, Insert(r)
  PROVE  Inductive'
<1>1. /\ Good(r) /\ pc[r] = "write" /\ call[r] \in Call /\ call[r].op = "create"
      /\ call[r] # Null /\ reply[r] = Null /\ UNCHANGED <<call, want>>
  BY TextAssumption DEF Inductive, Insert, Good, Stage
<1>2. /\ want[r] = [f \in Keyed |-> Sent(body(r), f, Empty)]
      /\ Sent(body(r), "username", Empty) # Empty
  BY <1>1 DEF Good, Creating, Checking, Keyed
<1>3. body(r) \in Body
  BY <1>1 DEF Call, body
<1>4. PICK u \in UserIds :
        /\ \A v \in UserIds : users[v] # Null => v < u
        /\ IF UniqueKeyAllows(want[r]["username"], u)
             THEN /\ users' = [users EXCEPT ![u] = NewRow(body(r))]
                  /\ target' = [target EXCEPT ![r] = u]
                  /\ Written(r)
             ELSE KeyError(r)
  BY DEF Insert
<1>5. CASE ~UniqueKeyAllows(want[r]["username"], u)
  BY <1>1, <1>4, <1>5, KeyErrorKeeps
<1>6. CASE UniqueKeyAllows(want[r]["username"], u)
  <2>1. /\ users' = [users EXCEPT ![u] = NewRow(body(r))]
        /\ target' = [target EXCEPT ![r] = u] /\ Written(r)
    BY <1>4, <1>6
  <2>2. NewRow(body(r)) \in Row /\ NewRow(body(r)).username = want[r]["username"]
    BY <1>2, <1>3, NewRowType DEF NewRow, Keyed
  <2>3. TypeOK'
    BY <1>1, <2>1, <2>2, WrittenType DEF Inductive, TypeOK
  <2>4. RowsStay
    BY <2>1, <2>2, TextAssumption DEF Inductive, TypeOK, RowsStay
  <2>5. UsernameUnique'
    BY <1>6, <2>1, <2>2, KeyKeeps
  <2>6. \A q \in Requests \ {r} : Own(q)' = Own(q)
    BY <1>1, <2>1, WrittenType DEF Inductive, TypeOK, Own
  <2>7. target'[r] \in UserIds /\ call'[r] = call[r] /\ Overtake(r)
    BY <1>1, <2>1 DEF Inductive, TypeOK, Written
  <2>8. Good(r)' /\ pc'[r] \in {"reload", "done"}
    BY <1>1, <2>1, <2>7, WrittenType, AfterWrite
  <2>9. QED
    BY <2>3, <2>4, <2>5, <2>6, <2>7, <2>8, WritingKeeps
<1>7. QED
  BY <1>5, <1>6

\* An update at its write, with the row it finds there.
LEMMA UpdateKnows ==
  ASSUME Inductive, NEW r \in Requests, pc[r] = "write", call[r].op = "update"
  PROVE  /\ call[r] \in Call /\ call[r] # Null /\ reply[r] = Null
         /\ target[r] \in UserIds /\ users[target[r]] \in Row
         /\ \A f \in Keyed : body(r)[f] # Null => want[r][f] = Trim[body(r)[f]]
         /\ UpdatedRow(r, users[target[r]]) \in Row
<1>1. Good(r) /\ call[r] \in Call /\ call[r] # Null /\ reply[r] = Null
  BY TextAssumption DEF Inductive, Good, Stage
<1>2. /\ target[r] \in UserIds /\ users[target[r]] # Null /\ body(r).status # 2
      /\ want[r]["username"] # Empty
      /\ \A f \in Keyed : body(r)[f] # Null => want[r][f] = Trim[body(r)[f]]
  BY <1>1 DEF Good, Updating, Checking
<1>3. users[target[r]] \in Row
  BY <1>2 DEF Inductive, TypeOK
<1>4. body(r).username # Null => Trim[body(r).username] # Empty
  BY <1>2 DEF Keyed
<1>5. QED
  BY <1>1, <1>2, <1>3, <1>4, UpdatedRowType

\* A row is updated, or the key forbids it.
LEMMA UpdateFieldsKeeps ==
  ASSUME Inductive, NEW r \in Requests, UpdateFields(r)
  PROVE  Inductive'
<1> DEFINE row == UpdatedRow(r, users[target[r]])
<1>1. pc[r] = "write" /\ call[r].op = "update" /\ UNCHANGED <<call, want>>
  BY DEF UpdateFields
<1>2. /\ call[r] \in Call /\ call[r] # Null /\ reply[r] = Null /\ target[r] \in UserIds
      /\ row \in Row
  BY <1>1, UpdateKnows
<1> HIDE DEF row
<1>3. CASE ~UniqueKeyAllows(row.username, target[r])
  <2>1. KeyError(r)
    BY <1>3 DEF UpdateFields, row
  <2>2. QED
    BY <1>1, <2>1, KeyErrorKeeps
<1>4. CASE UniqueKeyAllows(row.username, target[r])
  <2>1. users' = [users EXCEPT ![target[r]] = row] /\ Written(r) /\ UNCHANGED target
    BY <1>4 DEF UpdateFields, row
  <2>2. TypeOK'
    BY <1>1, <1>2, <2>1, WrittenType DEF Inductive, TypeOK
  <2>3. RowsStay
    BY <1>2, <2>1, TextAssumption DEF Inductive, TypeOK, RowsStay
  <2>4. UsernameUnique'
    BY <1>2, <1>4, <2>1, KeyKeeps
  <2>5. \A q \in Requests \ {r} : Own(q)' = Own(q)
    BY <1>1, <2>1, WrittenType DEF Own
  <2>6. Good(r)' /\ pc'[r] \in {"reload", "done"} /\ Overtake(r)
    BY <1>1, <1>2, <2>1, WrittenType, AfterWrite DEF Written
  <2>7. QED
    BY <2>2, <2>3, <2>4, <2>5, <2>6, WritingKeeps
<1>5. QED
  BY <1>3, <1>4

\* Nothing happens.
LEMMA StutterKeeps == Inductive /\ UNCHANGED vars => Inductive'
  BY DEF vars, Inductive, TypeOK, Good, Stage, Creating, Updating, Writing, Found, Checking,
         Clear, Holders, HasFields, body, UsernameUnique

LEMMA NextInductive == Inductive /\ [Next]_vars => Inductive'
<1> SUFFICES ASSUME Inductive, [Next]_vars PROVE Inductive'
  OBVIOUS
<1>1. ASSUME NEW r \in Requests, NEW b \in CreateBodies, ArriveCreate(r, b) PROVE Inductive'
  BY <1>1, ArriveCreateKeeps
<1>2. ASSUME NEW r \in Requests, NEW id \in UserIds, NEW b \in UpdateBodies,
             ArriveUpdate(r, id, b)
      PROVE  Inductive'
  BY <1>2, ArriveUpdateKeeps
<1>3. ASSUME NEW r \in Requests, NEW f \in Keyed, Find(r, f) PROVE Inductive'
  BY <1>3, FindKeeps
<1>4. ASSUME NEW r \in Requests, Load(r) PROVE Inductive'
  BY <1>4, LoadKeeps
<1>5. ASSUME NEW r \in Requests, Insert(r) \/ UpdateFields(r) PROVE Inductive'
  BY <1>5, InsertKeeps, UpdateFieldsKeeps
<1>6. ASSUME NEW r \in Requests, Reload(r) \/ Fail(r) PROVE Inductive'
  BY <1>6, AnswerKeeps
<1>7. CASE UNCHANGED vars
  BY <1>7, StutterKeeps
<1>8. QED
  BY <1>1, <1>2, <1>3, <1>4, <1>5, <1>6, <1>7 DEF Next

LEMMA AlwaysInductive == Spec => []Inductive
  BY InitInductive, NextInductive, PTL DEF Spec

-----------------------------------------------------------------------------
\* TypeOK is an invariant of front_user.go.
THEOREM TypeCorrect == Spec => []TypeOK
<1>1. Inductive => TypeOK
  BY DEF Inductive
<1>2. QED
  BY <1>1, AlwaysInductive, PTL

\* However many creates and updates race, the key keeps usernames apart.
THEOREM UniqueUsernames == Spec => []UsernameUnique
<1>1. Inductive => UsernameUnique
  BY DEF Inductive
<1>2. QED
  BY <1>1, AlwaysInductive, PTL

\* A refusal of Create or Update has written nothing, and an OK whatever there
\* was to write.
THEOREM RepliesMatchWrites == Spec => []ReplyMatchesWrites
<1>1. Inductive => ReplyMatchesWrites
  BY DEF Inductive, Good, Writing, ReplyMatchesWrites, HasFields
<1>2. QED
  BY <1>1, AlwaysInductive, PTL

-----------------------------------------------------------------------------
(* What a step may do to the rows.                                          *)

\* An insert at a new id, of what has been looked for.
Inserts(r) ==
    \E u \in UserIds :
        /\ users[u] = Null
        /\ users' = [users EXCEPT ![u] = NewRow(body(r))]
        /\ target[r] = Null
        /\ \A f \in Keyed : NewRow(body(r))[f] = want[r][f]

\* An update of its row, to what has been looked for where the body carries it.
Updates(r) ==
    /\ target[r] \in UserIds /\ users[target[r]] \in Row
    /\ users' = [users EXCEPT ![target[r]] = UpdatedRow(r, users[target[r]])]
    /\ \A f \in Keyed : body(r)[f] # Null => want[r][f] = Trim[body(r)[f]]

LEMMA InsertInserts ==
  ASSUME Inductive, NEW r \in Requests, Insert(r), users' # users
  PROVE  pc[r] = "write" /\ pc'[r] # "write" /\ Inserts(r)
<1>1. pc[r] = "write" /\ call[r].op = "create" /\ Good(r)
  BY DEF Insert, Inductive
<1>2. target[r] = Null /\ want[r] = [f \in Keyed |-> Sent(body(r), f, Empty)]
  BY <1>1 DEF Good, Creating, Checking
<1>3. PICK u \in UserIds :
        /\ \A v \in UserIds : users[v] # Null => v < u
        /\ users' = [users EXCEPT ![u] = NewRow(body(r))]
        /\ Written(r)
  BY DEF Insert, KeyError
<1>4. users[u] = Null
  <2>1. ~(u < u)
    BY IdAssumption
  <2>2. QED
    BY <1>3, <2>1
<1>5. \A f \in Keyed : NewRow(body(r))[f] = want[r][f]
  BY <1>2 DEF NewRow, Keyed, Contacts
<1>6. pc'[r] # "write"
  BY <1>3, WrittenType
<1>7. QED
  BY <1>1, <1>2, <1>3, <1>4, <1>5, <1>6 DEF Inserts

LEMMA UpdateUpdates ==
  ASSUME Inductive, NEW r \in Requests, UpdateFields(r), users' # users
  PROVE  pc[r] = "write" /\ pc'[r] # "write" /\ Updates(r)
<1>1. pc[r] = "write" /\ call[r].op = "update"
  BY DEF UpdateFields
<1>2. users' = [users EXCEPT ![target[r]] = UpdatedRow(r, users[target[r]])] /\ Written(r)
  BY DEF UpdateFields, KeyError
<1>3. pc'[r] # "write"
  BY <1>2, WrittenType
<1>4. QED
  BY <1>1, <1>2, <1>3, UpdateKnows DEF Updates

\* No other step writes a row.
LEMMA WhoWrites ==
  ASSUME Inductive, [Next]_vars, users' # users
  PROVE  \E r \in Requests :
            pc[r] = "write" /\ pc'[r] # "write" /\ (Inserts(r) \/ Updates(r))
<1>1. \E r \in Requests : Insert(r) \/ UpdateFields(r)
  BY DEF Next, vars, ArriveCreate, ArriveUpdate, Load, Find, Reload, Fail
<1>2. QED
  BY <1>1, InsertInserts, UpdateUpdates

\* A column changes only by a request that carries it, to what it carries:
\* UpdateFields sets the fields of the body and no others.
THEOREM FieldsChangeOnlyIfSent == Spec => OnlySentFieldsChange
<1> DEFINE Carried ==
      \A u \in UserIds, f \in Fields :
          users[u] # Null /\ users'[u][f] # users[u][f] =>
            \E r \in Requests :
              /\ pc[r] = "write" /\ target[r] = u
              /\ body(r)[f] # Null
              /\ users'[u][f] = IF f = "status" THEN body(r)[f]
                                 ELSE Trim[body(r)[f]]
<1>1. Inductive /\ [Next]_vars => [Carried]_vars
  <2> SUFFICES ASSUME Inductive, [Next]_vars, NEW u \in UserIds, NEW f \in Fields,
                      users[u] # Null, users'[u][f] # users[u][f]
               PROVE  \E r \in Requests :
                         /\ pc[r] = "write" /\ target[r] = u
                         /\ body(r)[f] # Null
                         /\ users'[u][f] = IF f = "status" THEN body(r)[f]
                                            ELSE Trim[body(r)[f]]
    OBVIOUS
  <2>1. PICK r \in Requests :
          pc[r] = "write" /\ pc'[r] # "write" /\ (Inserts(r) \/ Updates(r))
    BY WhoWrites
  <2>2. users \in [UserIds -> Row \cup {Null}]
    BY DEF Inductive, TypeOK
  <2>3. Updates(r)
    BY <2>1, <2>2 DEF Inserts
  <2>4. target[r] = u /\ users'[u] = UpdatedRow(r, users[u])
    BY <2>2, <2>3 DEF Updates
  <2>5. CASE f = "status"
    BY <2>1, <2>4, <2>5 DEF UpdatedRow
  <2>6. CASE f \in Keyed
    <3>1. UpdatedRow(r, users[u])[f] = Sent(body(r), f, users[u][f])
      BY <2>6 DEF UpdatedRow, Keyed, Contacts
    <3>2. f # "status"
      BY <2>6 DEF Keyed, Contacts
    <3>3. QED
      BY <2>1, <2>4, <3>1, <3>2 DEF Sent
  <2>7. QED
    BY <2>5, <2>6 DEF Fields
<1>2. QED
  BY <1>1, AlwaysInductive, PTL DEF Spec, OnlySentFieldsChange

\* Two users come to share a contact only by a request that somebody else's
\* write has overtaken between its lookups and its own write.
THEOREM SharedOnlyAfterRace == Spec => SharedOnlyIfOvertaken
<1> DEFINE Raced ==
      \A f \in Contacts : \A u, v \in UserIds :
          Share(f, u, v)' => \/ Share(f, u, v)
                             \/ \E r \in Requests : /\ pc[r] = "write"
                                                    /\ pc'[r] # "write"
                                                    /\ overtaken[r]
<1>1. Inductive /\ [Next]_vars => [Raced]_vars
  <2> SUFFICES ASSUME Inductive, [Next]_vars,
                      NEW f \in Contacts, NEW u \in UserIds, NEW v \in UserIds,
                      Share(f, u, v)',
                      ~ \E r \in Requests : pc[r] = "write" /\ pc'[r] # "write" /\ overtaken[r]
               PROVE  Share(f, u, v)
    OBVIOUS
  <2>1. CASE users' = users
    BY <2>1 DEF Share
  <2>2. CASE users' # users
    <3>1. PICK r \in Requests :
            pc[r] = "write" /\ pc'[r] # "write" /\ (Inserts(r) \/ Updates(r))
      BY <2>2, WhoWrites
    <3>2. Clear(r, f)
      BY <3>1 DEF Inductive, Found, Contacts
    <3>3. users \in [UserIds -> Row \cup {Null}] /\ f \in Keyed
      BY DEF Inductive, TypeOK, Keyed
    <3>4. /\ users'[u] # Null /\ users'[v] # Null /\ u # v
          /\ users'[u][f] = users'[v][f] /\ users'[u][f] # Empty
      BY DEF Share
    <3>5. CASE Inserts(r)
      BY <3>2, <3>3, <3>4, <3>5, TextAssumption DEF Inserts, Clear, Holders, Share
    <3>6. CASE Updates(r)
      <4>1. users'[target[r]] = UpdatedRow(r, users[target[r]]) /\ target[r] \in UserIds
        BY <3>3, <3>6 DEF Updates
      <4>2. users'[target[r]][f] = IF body(r)[f] = Null THEN users[target[r]][f] ELSE want[r][f]
        BY <3>3, <3>6, <4>1 DEF Updates, UpdatedRow, Sent, Keyed, Contacts
      <4>3. users[target[r]] # Null
        BY <3>6, TextAssumption DEF Updates
      <4>4. \A w \in UserIds : w # target[r] => users'[w] = users[w]
        BY <3>3, <3>6 DEF Updates
      <4>5. \A w \in UserIds :
              users[w] # Null /\ users[w][f] = want[r][f] /\ want[r][f] # Empty =>
                  users[target[r]][f] = want[r][f]
        BY <3>2 DEF Clear, Holders
      <4>6. CASE u = target[r]
        BY <3>4, <4>2, <4>3, <4>4, <4>5, <4>6 DEF Share
      <4>7. CASE v = target[r]
        BY <3>4, <4>2, <4>3, <4>4, <4>5, <4>7 DEF Share
      <4>8. CASE u # target[r] /\ v # target[r]
        BY <3>4, <4>4, <4>8 DEF Share
      <4>9. QED
        BY <4>6, <4>7, <4>8
    <3>7. QED
      BY <3>1, <3>5, <3>6
  <2>3. QED
    BY <2>1, <2>2
<1>2. QED
  BY <1>1, AlwaysInductive, PTL DEF Spec, SharedOnlyIfOvertaken

\* Only a lookup refuses as a duplicate.
LEMMA OnlyFindRefuses ==
  ASSUME Inductive, [Next]_vars, NEW r \in Requests, reply[r] = Null, reply'[r] = "Duplicate"
  PROVE  \E g \in Keyed : pc[r] = g /\ Conflict(g, want[r][g], target[r])
<1>1. reply \in [Requests -> Replies \cup {Null}] /\ Null # "Duplicate"
  BY TextAssumption DEF Inductive, TypeOK, Replies, Rejections
<1>2. reply' # reply
  BY <1>1
<1>3. ASSUME NEW q \in Requests, NEW g \in Keyed, Find(q, g)
      PROVE  pc[r] = g /\ Conflict(g, want[r][g], target[r])
  BY <1>1, <1>3 DEF Find, Continue, Answer
<1>4. ASSUME NEW q \in Requests, NEW b \in CreateBodies, ArriveCreate(q, b)
      PROVE  FALSE
  BY <1>1, <1>4 DEF ArriveCreate, Continue, Answer
<1>5. ASSUME NEW q \in Requests, Load(q) \/ Reload(q) \/ Fail(q)
      PROVE  FALSE
  BY <1>1, <1>5 DEF Load, Reload, Fail, Continue, Answer
<1>6. ASSUME NEW q \in Requests, Insert(q) \/ UpdateFields(q)
      PROVE  FALSE
  BY <1>1, <1>6 DEF Insert, UpdateFields, Written, KeyError, Continue, Answer
<1>7. ASSUME NEW q \in Requests, NEW id \in UserIds, NEW b \in UpdateBodies,
             ArriveUpdate(q, id, b)
      PROVE  FALSE
  BY <1>2, <1>7 DEF ArriveUpdate, Continue
<1>8. CASE UNCHANGED vars
  BY <1>2, <1>8 DEF vars
<1>9. QED
  BY <1>3, <1>4, <1>5, <1>6, <1>7, <1>8 DEF Next

\* A request is refused for a value it does not carry only when its user shares
\* the value with one of a smaller id, or no longer has it.
THEOREM RefusalsHaveReasons == Spec => RefusedForAReason
<1> DEFINE Reasoned ==
      \A r \in Requests, f \in Keyed :
          pc[r] = f /\ reply[r] = Null /\ reply'[r] = "Duplicate" =>
              \/ call[r].op = "create" \/ body(r)[f] # Null
              \/ users[target[r]][f] # want[r][f]
              \/ \E v \in UserIds : v < target[r] /\ Share(f, v, target[r])
<1>1. Inductive /\ [Next]_vars => [Reasoned]_vars
  <2> SUFFICES ASSUME Inductive, [Next]_vars, NEW r \in Requests, NEW f \in Keyed,
                      pc[r] = f, reply[r] = Null, reply'[r] = "Duplicate",
                      call[r].op # "create", users[target[r]][f] = want[r][f]
               PROVE  \E v \in UserIds : v < target[r] /\ Share(f, v, target[r])
    OBVIOUS
  <2>1. PICK v \in Holders(f, want[r][f]) :
          target[r] \notin Holders(f, want[r][f]) \/ v < target[r]
    BY OnlyFindRefuses DEF Conflict
  <2>2. Good(r) /\ call[r] \in Call /\ call[r].op = "update" /\ call[r] # Null
    BY TextAssumption DEF Inductive, Good, Stage, Call, Keyed, Contacts
  <2>3. /\ target[r] \in UserIds /\ users[target[r]] # Null
        /\ want[r]["username"] # Empty
    BY <2>2 DEF Good, Updating, Checking, Keyed, Contacts
  <2>4. want[r][f] # Empty
    BY <2>2, <2>3 DEF Good, Stage, Keyed
  <2>5. v \in UserIds /\ users[v] # Null /\ users[v][f] = want[r][f] /\ v < target[r]
    BY <2>1, <2>3 DEF Holders
  <2>6. v # target[r]
    <3>1. target[r] \in Nat
      BY <2>3, IdAssumption
    <3>2. ~(target[r] < target[r])
      BY <3>1
    <3>3. QED
      BY <2>5, <3>2
  <2>7. QED
    BY <2>3, <2>4, <2>5, <2>6 DEF Share
<1>2. QED
  BY <1>1, AlwaysInductive, PTL DEF Spec, RefusedForAReason
=============================================================================
