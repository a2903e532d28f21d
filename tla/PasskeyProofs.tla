---------------------------- MODULE PasskeyProofs ----------------------------
(***************************************************************************)
(* Proofs about Passkey.tla for any number of requests, users, credentials *)
(* and session keys.                                                       *)
(*                                                                         *)
(* The argument follows a session from the BEGIN that saves it to the one  *)
(* FINISH that takes it (SessionsInv): the response made for it was made   *)
(* by the authenticator of the session's user, and once the session is     *)
(* taken it stays gone.  Authenticators never give a credential away, so   *)
(* what a request has found out about its owner stays true (Phase).        *)
(* Further down: the rows a DELETE takes (OnlyDeletes, KeptInv), and what  *)
(* may be known of a credential before the registration that makes it is   *)
(* answered (FreshInv, LoadedInv).                                         *)
(***************************************************************************)
EXTENDS Passkey, FiniteSetTheorems, TLAPS

Finishing(r) == Op[r] \in {"finishLogin", "finishRegister"}
Kind(r) == IF IsLogin(r) THEN "get" ELSE "create"

\* The credential its response is signed with belongs to the user it works for.
OwnResponse(r) == owner[response[key[r]].cred] = uid[r]

\* What a request has established before the call pc[r].
Phase(r) ==
    /\ pc[r] = "idle" => key[r] = Null /\ sess[r] = Null
    /\ pc[r] # "done" => reply[r] = Null
    /\ Finishing(r) /\ pc[r] # "idle" =>
         key[r] \in Keys /\ response[key[r]] # Null /\ response[key[r]].kind = Kind(r)
    /\ ~Finishing(r) => sess[r] = Null
    /\ IsBegin(r) /\ pc[r] # "idle" => uid[r] \in UserIds
    /\ IsBegin(r) /\ pc[r] # "done" => key[r] = Null
    /\ IsBegin(r) /\ reply[r] = "OK" => key[r] \in Keys
    /\ pc[r] = "take" =>
         Finishing(r) /\ sess[r] = Null /\ (IsLogin(r) \/ uid[r] \in UserIds)
    /\ pc[r] \in {"findUser", "listCreds"} => Op[r] # "delete" /\ uid[r] \in UserIds
    /\ pc[r] \in {"findUser", "listCreds"} /\ Finishing(r) =>
         sess[r] \in Session /\ sess[r] # Null /\ SameUser(r, sess[r])
    /\ pc[r] = "save" => IsBegin(r)
    /\ pc[r] \in {"findCred", "createCred", "updateCred", "loginFind", "loginIssue"} =>
         Finishing(r) /\ uid[r] \in UserIds /\ OwnResponse(r)
    /\ pc[r] = "deleteCred" => Op[r] = "delete" /\ uid[r] \in UserIds
    /\ Finishing(r) /\ reply[r] = "OK" => uid[r] \in UserIds /\ OwnResponse(r)

PhaseInv == \A r \in Requests : Phase(r)

SessionsInv ==
    /\ \A k \in Keys : response[k] # Null =>
         /\ sessions[k] # Null
         /\ response[k].kind = "create" /\ sessions[k] # Gone
              => owner[response[k].cred] = sessions[k].user
    /\ \A r \in Requests : key[r] # Null =>
         /\ sessions[key[r]] # Null
         /\ IsBegin(r) /\ sessions[key[r]] # Gone => sessions[key[r]].user = uid[r]
    /\ \A r \in Requests : sess[r] # Null =>
         /\ key[r] \in Keys
         /\ sessions[key[r]] = Gone
         /\ ~IsLogin(r) => owner[response[key[r]].cred] = sess[r].user
    /\ SessionTakenOnce

CredsInv ==
    /\ \A c \in CredIds : creds[c] # Null =>
         creds[c].user = owner[c] /\ creds[c].row < nextRow
    /\ \A c, d \in CredIds :
         creds[c] # Null /\ creds[d] # Null /\ creds[c].row = creds[d].row => c = d

Inductive == TypeOK /\ PhaseInv /\ SessionsInv /\ CredsInv

-----------------------------------------------------------------------------
\* What NullAssumption says of the values the proofs tell apart.
LEMMA NoNull ==
  /\ Null \notin UserIds /\ Null \notin Keys /\ Null \notin Nat /\ Null # Gone
  /\ Null \notin Row /\ Null \notin Session /\ Null \notin Response
  /\ Gone \notin Session
  /\ Null \notin {"OK", "Unauthorized", "BadRequest", "NotFound", "InternalError"}
BY NullAssumption DEF Replies

LEMMA SeedCount == Cardinality(DOMAIN SeedCreds) \in Nat
BY SeedAssumption, FS_CardinalityType

LEMMA InitInductive == Init => Inductive
<1> SUFFICES ASSUME Init PROVE Inductive
  OBVIOUS
<1> USE NoNull, OpAssumption, SeedAssumption, SeedCount
<1>1. TypeOK
  BY DEF Init, TypeOK, Steps, Nothing, Row
<1>2. PhaseInv
  BY DEF Init, PhaseInv, Phase
<1>3. SessionsInv
  BY DEF Init, SessionsInv, SessionTakenOnce
<1>4. CredsInv
  BY DEF Init, CredsInv, Row
<1> QED
  BY <1>1, <1>2, <1>3, <1>4 DEF Inductive

\* Nobody else disturbs what a request has established: its own variables stay,
\* and responses and owners, once there, stay.
Untouched(q) ==
    /\ pc'[q] = pc[q] /\ key'[q] = key[q] /\ uid'[q] = uid[q]
    /\ sess'[q] = sess[q] /\ reply'[q] = reply[q]
    /\ \A k \in Keys : response[k] # Null => response'[k] = response[k]
    /\ \A c \in CredIds : owner[c] # Null => owner'[c] = owner[c]

LEMMA UntouchedPhase ==
  ASSUME NEW q \in Requests, TypeOK, Phase(q), Untouched(q)
  PROVE  Phase(q)'
<1> USE NoNull, OpAssumption
<1>1. CASE Finishing(q) /\ pc[q] # "idle"
  <2>1. response[key[q]] \in Response /\ response'[key'[q]] = response[key[q]]
    BY <1>1 DEF TypeOK, Phase, Untouched
  <2>2. response[key[q]].cred \in CredIds
    BY <2>1 DEF Response
  <2>3. uid[q] \in UserIds /\ OwnResponse(q) => OwnResponse(q)'
    BY <2>1, <2>2 DEF OwnResponse, Untouched
  <2> QED
    BY <1>1, <2>1, <2>3 DEF Phase, Untouched, Finishing, IsLogin, IsBegin, Kind, SameUser, Ops
<1>2. CASE ~(Finishing(q) /\ pc[q] # "idle")
  <2>1. Finishing(q) => reply[q] = Null
    BY <1>2 DEF Phase
  <2> QED
    BY <1>2, <2>1 DEF Phase, Untouched, Finishing, IsLogin, IsBegin, Kind, SameUser, Ops
<1> QED
  BY <1>1, <1>2

\* Most steps of a request change nothing but its own place, its answer, and
\* perhaps the credentials.
LEMMA OwnStep ==
  ASSUME Inductive, NEW r \in Requests,
         UNCHANGED <<sessions, device, inputs, sess>>,
         NEW step \in Steps, NEW a \in Replies \cup {Null},
         pc' = [pc EXCEPT ![r] = step], reply' = [reply EXCEPT ![r] = a],
         TypeOK', Phase(r)', CredsInv'
  PROVE  Inductive'
<1> USE DEF Inductive, PhaseInv, device, inputs
<1>1. ASSUME NEW q \in Requests, q # r PROVE Phase(q)'
  BY <1>1, UntouchedPhase DEF TypeOK, Untouched
<1>2. SessionsInv'
  BY DEF SessionsInv, SessionTakenOnce, IsBegin, IsLogin
<1> QED
  BY <1>1, <1>2

-----------------------------------------------------------------------------
(* Requests arrive.                                                        *)

LEMMA ArriveBeginStep ==
  ASSUME Inductive, NEW r \in Requests, NEW u \in UserIds, ArriveBegin(r, u)
  PROVE  Inductive'
<1> USE NoNull, OpAssumption
    DEF Inductive, PhaseInv, ArriveBegin, Goto, tables, device, loaded
<1>1. TypeOK'
  BY DEF TypeOK, Steps
<1>2. ASSUME NEW q \in Requests, q # r PROVE Phase(q)'
  BY <1>2, UntouchedPhase DEF TypeOK, Untouched
<1>3. Phase(r)'
  BY DEF Phase, TypeOK, IsBegin, Finishing
<1>4. SessionsInv'
  BY DEF SessionsInv, SessionTakenOnce, IsBegin, IsLogin, Phase, TypeOK
<1>5. CredsInv'
  BY DEF CredsInv
<1> QED
  BY <1>1, <1>2, <1>3, <1>4, <1>5

LEMMA ArriveFinishStep ==
  ASSUME Inductive, NEW r \in Requests, NEW u \in UserIds, NEW k \in Keys,
         ArriveFinish(r, u, k)
  PROVE  Inductive'
<1> USE NoNull, OpAssumption
    DEF Inductive, PhaseInv, ArriveFinish, Goto, tables, device, loaded
<1>1. TypeOK'
  BY DEF TypeOK, Steps
<1>2. ASSUME NEW q \in Requests, q # r PROVE Phase(q)'
  BY <1>2, UntouchedPhase DEF TypeOK, Untouched
<1>3. Phase(r)'
  BY DEF Phase, TypeOK, IsBegin, IsLogin, Finishing, Kind
<1>4. SessionsInv'
  BY DEF SessionsInv, SessionTakenOnce, IsBegin, IsLogin, Finishing, Phase, TypeOK
<1>5. CredsInv'
  BY DEF CredsInv
<1> QED
  BY <1>1, <1>2, <1>3, <1>4, <1>5

LEMMA ArriveDeleteStep ==
  ASSUME Inductive, NEW r \in Requests, NEW u \in UserIds,
         NEW id \in 1..(nextRow - 1), ArriveDelete(r, u, id)
  PROVE  Inductive'
<1> USE NoNull, OpAssumption
    DEF Inductive, PhaseInv, ArriveDelete, Goto, tables, device, loaded
<1>1. TypeOK'
  <2>1. id \in Nat
    BY DEF TypeOK
  <2> QED
    BY <2>1 DEF TypeOK, Steps
<1>2. ASSUME NEW q \in Requests, q # r PROVE Phase(q)'
  BY <1>2, UntouchedPhase DEF TypeOK, Untouched
<1>3. Phase(r)'
  BY DEF Phase, TypeOK, IsBegin, Finishing
<1>4. SessionsInv'
  BY DEF SessionsInv, SessionTakenOnce, IsBegin, IsLogin, Phase, TypeOK
<1>5. CredsInv'
  BY DEF CredsInv
<1> QED
  BY <1>1, <1>2, <1>3, <1>4, <1>5

-----------------------------------------------------------------------------
(* Steps that change only the request itself.                              *)

LEMMA FindUserStep ==
  ASSUME Inductive, NEW r \in Requests, FindUser(r)
  PROVE  Inductive'
<1> USE NoNull, OpAssumption
<1>0. /\ TypeOK /\ Phase(r) /\ pc[r] = "findUser" /\ reply[r] = Null
      /\ UNCHANGED <<enabled, tables, sessions, device, inputs, loaded, took>>
  BY DEF Inductive, PhaseInv, Phase, FindUser
<1>1. CredsInv'
  BY <1>0 DEF Inductive, CredsInv, tables, device
<1>2. CASE Continue(r, "listCreds")
  <2>1. pc' = [pc EXCEPT ![r] = "listCreds"] /\ reply' = [reply EXCEPT ![r] = Null]
    BY <1>0, <1>2 DEF Continue, Goto, TypeOK
  <2>2. TypeOK'
    BY <1>0, <2>1 DEF TypeOK, Steps, tables, device, inputs, loaded
  <2>3. Phase(r)'
    BY <1>0, <2>1 DEF Phase, TypeOK, device, inputs, loaded, IsBegin, IsLogin,
       Finishing, Kind, SameUser, OwnResponse
  <2> QED
    BY <1>0, <1>1, <2>1, <2>2, <2>3, OwnStep DEF Steps, loaded
<1>3. CASE Answer(r, Refused(r))
  <2>1. /\ pc' = [pc EXCEPT ![r] = "done"] /\ reply' = [reply EXCEPT ![r] = Refused(r)]
        /\ Refused(r) \in Replies \ {"OK"}
    BY <1>0, <1>3 DEF Answer, Goto, Refused, Replies
  <2>2. TypeOK'
    BY <1>0, <2>1 DEF TypeOK, Steps, tables, device, inputs, loaded
  <2>3. Phase(r)'
    BY <1>0, <2>1 DEF Phase, TypeOK, device, inputs, loaded, IsBegin, IsLogin,
       Finishing, Kind
  <2> QED
    BY <1>0, <1>1, <2>1, <2>2, <2>3, OwnStep DEF Steps, loaded
<1> QED
  BY <1>2, <1>3 DEF FindUser

\* An answer other than 200 says nothing about owners.
LEMMA RefusalPhase ==
  ASSUME NEW r \in Requests, TypeOK, Phase(r), pc[r] # "idle",
         UNCHANGED <<device, inputs, sess>>,
         NEW a \in Replies \ {"OK"}, Answer(r, a)
  PROVE  /\ Phase(r)'
         /\ pc' = [pc EXCEPT ![r] = "done"] /\ reply' = [reply EXCEPT ![r] = a]
BY NoNull, OpAssumption
   DEF Phase, TypeOK, Answer, Goto, device, inputs, IsBegin, IsLogin, Finishing, Kind

LEMMA FailStep ==
  ASSUME Inductive, NEW r \in Requests, Fail(r)
  PROVE  Inductive'
<1>0. /\ TypeOK /\ Phase(r) /\ pc[r] # "idle" /\ Answer(r, Broken(r))
      /\ UNCHANGED <<enabled, tables, sessions, device, inputs, loaded, took>>
      /\ Broken(r) \in Replies \ {"OK"}
  BY DEF Inductive, PhaseInv, Fail, Broken, Replies
<1>1. CredsInv'
  BY <1>0 DEF Inductive, CredsInv, tables, device
<1>2. /\ Phase(r)' /\ pc' = [pc EXCEPT ![r] = "done"]
      /\ reply' = [reply EXCEPT ![r] = Broken(r)]
  BY <1>0, RefusalPhase DEF loaded
<1>3. TypeOK'
  BY <1>0, <1>2 DEF TypeOK, Steps, tables, device, inputs, loaded
<1> QED
  BY <1>0, <1>1, <1>2, <1>3, OwnStep DEF Steps, loaded

\* What a request loads are the sign counts of its user's own credentials.
LEMMA LoadedCredentials ==
  ASSUME Inductive, NEW r \in Requests, uid[r] \in UserIds
  PROVE  /\ Load(r) \in [CredIds -> Nat \cup {Null}]
         /\ \A c \in Listed(Load(r)) : c \in CredIds /\ owner[c] = uid[r] /\ Load(r)[c] \in Nat
BY NoNull DEF Inductive, TypeOK, CredsInv, Load, CredentialsOf, Listed, Row

LEMMA ListCredsStep ==
  ASSUME Inductive, NEW r \in Requests, ListCreds(r)
  PROVE  Inductive'
<1> USE NoNull, OpAssumption
<1> DEFINE l == Load(r)
           c == response[key[r]]
<1>0. /\ TypeOK /\ Phase(r) /\ pc[r] = "listCreds" /\ reply[r] = Null
      /\ uid[r] \in UserIds /\ Op[r] # "delete" /\ Op[r] \in Ops
      /\ UNCHANGED <<enabled, tables, sessions, device, inputs, sess, took>>
      /\ list' = [list EXCEPT ![r] = l]
  BY DEF Inductive, PhaseInv, Phase, ListCreds
<1>1. CredsInv'
  BY <1>0 DEF Inductive, CredsInv, tables, device
<1>2. /\ l \in [CredIds -> Nat \cup {Null}]
      /\ \A d \in Listed(l) : d \in CredIds /\ owner[d] = uid[r] /\ l[d] \in Nat
  BY <1>0, LoadedCredentials
<1>3. Finishing(r) => c \in Response /\ c.kind = Kind(r) /\ sess[r] \in Session
                        /\ sess[r] # Null /\ SameUser(r, sess[r]) /\ key[r] \in Keys
  BY <1>0 DEF Phase, TypeOK
<1>4. ASSUME NEW step \in Steps, NEW a \in Replies \cup {Null}, NEW n \in Nat,
             pc' = [pc EXCEPT ![r] = step], reply' = [reply EXCEPT ![r] = a],
             count' = [count EXCEPT ![r] = n], Phase(r)'
      PROVE  Inductive'
  <2>1. TypeOK'
    BY <1>0, <1>2, <1>4 DEF TypeOK, tables, device, inputs
  <2> QED
    BY <1>0, <1>1, <1>4, <2>1, OwnStep
<1>5. UNCHANGED count => \E n \in Nat : count' = [count EXCEPT ![r] = n]
  <2>1. count[r] \in Nat /\ count = [count EXCEPT ![r] = count[r]]
    BY <1>0 DEF TypeOK
  <2> QED
    BY <2>1
<1>6. ASSUME NEW a \in {"Unauthorized", "BadRequest"}, Answer(r, a), UNCHANGED count
      PROVE  Inductive'
  <2>1. /\ Phase(r)' /\ pc' = [pc EXCEPT ![r] = "done"]
        /\ reply' = [reply EXCEPT ![r] = a]
    BY <1>0, <1>6, RefusalPhase DEF Replies
  <2> QED
    BY <1>4, <1>5, <1>6, <2>1 DEF Steps, Replies
<1>7. CASE IsBegin(r) /\ Continue(r, "save") /\ UNCHANGED count
  <2>1. pc' = [pc EXCEPT ![r] = "save"] /\ reply' = [reply EXCEPT ![r] = Null]
    BY <1>0, <1>7 DEF Continue, Goto, TypeOK
  <2>2. Phase(r)'
    BY <1>0, <1>7, <2>1 DEF Phase, TypeOK, device, inputs, IsBegin, IsLogin,
       Finishing, Kind
  <2> QED
    BY <1>4, <1>5, <1>7, <2>1, <2>2 DEF Steps
<1>8. ASSUME Finishing(r), owner[c.cred] = uid[r], Continue(r, "findCred")
      PROVE  /\ pc' = [pc EXCEPT ![r] = "findCred"]
             /\ reply' = [reply EXCEPT ![r] = Null] /\ Phase(r)'
  <2>1. pc' = [pc EXCEPT ![r] = "findCred"] /\ reply' = [reply EXCEPT ![r] = Null]
    BY <1>0, <1>8 DEF Continue, Goto, TypeOK
  <2>2. Phase(r)'
    BY <1>0, <1>8, <2>1 DEF Phase, TypeOK, device, inputs, IsBegin, IsLogin,
       Finishing, Kind, OwnResponse
  <2> QED
    BY <2>1, <2>2
<1>9. CASE Op[r] = "finishLogin"
  <2>1. ASSUME ValidateLogin(r, l), Continue(r, "findCred"),
               count' = [count EXCEPT ![r] = UpdateCounter(l[c.cred], c.count)]
        PROVE  Inductive'
    <3>1. c.cred \in Listed(l)
      BY <2>1 DEF ValidateLogin
    <3>2. UpdateCounter(l[c.cred], c.count) \in Nat
      BY <1>2, <1>3, <1>9, <3>1 DEF UpdateCounter, Response, Finishing
    <3>3. owner[c.cred] = uid[r]
      BY <1>2, <3>1
    <3> QED
      BY <1>4, <1>8, <1>9, <2>1, <3>2, <3>3 DEF Finishing, Steps
  <2> QED
    BY <1>6, <1>9, <2>1 DEF ListCreds
<1>10. CASE Op[r] = "finishRegister"
  <2>1. count' = [count EXCEPT ![r] = c.count] /\ Continue(r, "findCred")
    BY <1>10 DEF ListCreds
  <2>2. c.count \in Nat
    BY <1>3, <1>10 DEF Response, Finishing
  <2>3. owner[c.cred] = uid[r]
    <3>1. sess[r] # Null /\ owner[c.cred] = sess[r].user
      BY <1>3, <1>10 DEF Inductive, SessionsInv, IsLogin, Finishing
    <3> QED
      BY <1>3, <1>10, <3>1 DEF SameUser, IsLogin, Finishing
  <2> QED
    BY <1>4, <1>8, <1>10, <2>1, <2>2, <2>3 DEF Finishing, Steps
<1>11. CASE IsBegin(r)
  BY <1>6, <1>7, <1>11 DEF ListCreds, IsBegin
<1> QED
  BY <1>0, <1>9, <1>10, <1>11 DEF Ops, IsBegin

\* Going on with the request's own response, or granting it, keeps Phase.
LEMMA GoOnPhase ==
  ASSUME NEW r \in Requests, TypeOK, Phase(r),
         UNCHANGED <<device, inputs, sess>>,
         pc[r] \in {"findCred", "createCred", "updateCred", "loginFind", "loginIssue"},
         NEW step \in {"createCred", "updateCred", "loginFind", "loginIssue", "done"},
         NEW a \in {"OK", Null}, a = "OK" <=> step = "done",
         pc' = [pc EXCEPT ![r] = step], reply' = [reply EXCEPT ![r] = a]
  PROVE  Phase(r)'
<1> USE NoNull, OpAssumption
<1>1. Finishing(r) /\ ~IsBegin(r) /\ uid[r] \in UserIds /\ OwnResponse(r)
  BY DEF Phase, Finishing, IsBegin
<1>2. OwnResponse(r)'
  BY <1>1 DEF OwnResponse, device, inputs
<1> QED
  BY <1>1, <1>2 DEF Phase, TypeOK, device, inputs, IsBegin, IsLogin, Finishing, Kind

LEMMA FindCredStep ==
  ASSUME Inductive, NEW r \in Requests, FindCred(r)
  PROVE  Inductive'
<1> USE NoNull
<1> DEFINE step == UpsertStep(response[key[r]].cred)
<1>0. /\ TypeOK /\ Phase(r) /\ pc[r] = "findCred" /\ reply[r] = Null
      /\ UNCHANGED <<enabled, tables, sessions, device, inputs, loaded, took>>
  BY DEF Inductive, PhaseInv, Phase, FindCred
<1>1. CredsInv'
  BY <1>0 DEF Inductive, CredsInv, tables, device
<1>2. step \in {"createCred", "updateCred"}
  BY DEF UpsertStep
<1>3. pc' = [pc EXCEPT ![r] = step] /\ reply' = [reply EXCEPT ![r] = Null]
  BY <1>0 DEF FindCred, Continue, Goto, TypeOK
<1>4. TypeOK'
  BY <1>0, <1>2, <1>3 DEF TypeOK, Steps, tables, device, inputs, loaded
<1>5. Phase(r)'
  BY <1>0, <1>2, <1>3, GoOnPhase DEF loaded
<1> QED
  BY <1>0, <1>1, <1>2, <1>3, <1>4, <1>5, OwnStep DEF Steps, loaded

LEMMA LoginFindStep ==
  ASSUME Inductive, NEW r \in Requests, LoginFind(r)
  PROVE  Inductive'
<1> USE NoNull
<1>0. /\ TypeOK /\ Phase(r) /\ pc[r] = "loginFind" /\ reply[r] = Null
      /\ UNCHANGED <<enabled, tables, sessions, device, inputs, loaded, took>>
  BY DEF Inductive, PhaseInv, Phase, LoginFind
<1>1. CredsInv'
  BY <1>0 DEF Inductive, CredsInv, tables, device
<1>2. CASE Continue(r, "loginIssue")
  <2>1. pc' = [pc EXCEPT ![r] = "loginIssue"] /\ reply' = [reply EXCEPT ![r] = Null]
    BY <1>0, <1>2 DEF Continue, Goto, TypeOK
  <2>2. TypeOK'
    BY <1>0, <2>1 DEF TypeOK, Steps, tables, device, inputs, loaded
  <2>3. Phase(r)'
    BY <1>0, <2>1, GoOnPhase DEF loaded
  <2> QED
    BY <1>0, <1>1, <2>1, <2>2, <2>3, OwnStep DEF Steps, loaded
<1>3. CASE Answer(r, "BadRequest")
  <2>1. /\ Phase(r)' /\ pc' = [pc EXCEPT ![r] = "done"]
        /\ reply' = [reply EXCEPT ![r] = "BadRequest"]
    BY <1>0, <1>3, RefusalPhase DEF loaded, Replies
  <2>2. TypeOK'
    BY <1>0, <2>1 DEF TypeOK, Steps, Replies, tables, device, inputs, loaded
  <2> QED
    BY <1>0, <1>1, <2>1, <2>2, OwnStep DEF Steps, Replies, loaded
<1> QED
  BY <1>2, <1>3 DEF LoginFind

LEMMA LoginIssueStep ==
  ASSUME Inductive, NEW r \in Requests, LoginIssue(r)
  PROVE  Inductive'
<1>0. /\ TypeOK /\ Phase(r) /\ pc[r] = "loginIssue"
      /\ UNCHANGED <<enabled, tables, sessions, device, inputs, loaded, took>>
      /\ pc' = [pc EXCEPT ![r] = "done"] /\ reply' = [reply EXCEPT ![r] = "OK"]
  BY DEF Inductive, PhaseInv, LoginIssue, Answer, Goto
<1>1. CredsInv'
  BY <1>0 DEF Inductive, CredsInv, tables, device
<1>2. TypeOK'
  BY <1>0 DEF TypeOK, Steps, Replies, tables, device, inputs, loaded
<1>3. Phase(r)'
  BY <1>0, GoOnPhase, NoNull DEF loaded
<1> QED
  BY <1>0, <1>1, <1>2, <1>3, OwnStep DEF Steps, Replies, loaded

-----------------------------------------------------------------------------
(* Steps that write the credentials.                                       *)

LEMMA AfterUpsertResult ==
  ASSUME NEW r \in Requests, TypeOK, Phase(r), AfterUpsert(r),
         UNCHANGED <<device, inputs, sess>>,
         pc[r] \in {"createCred", "updateCred"}
  PROVE  /\ Phase(r)'
         /\ \E step \in Steps, a \in Replies \cup {Null} :
              pc' = [pc EXCEPT ![r] = step] /\ reply' = [reply EXCEPT ![r] = a]
<1> USE NoNull
<1>1. CASE Answer(r, "BadRequest")
  <2>1. /\ Phase(r)' /\ pc' = [pc EXCEPT ![r] = "done"]
        /\ reply' = [reply EXCEPT ![r] = "BadRequest"]
    BY <1>1, RefusalPhase DEF Replies
  <2>2. "done" \in Steps /\ "BadRequest" \in Replies \cup {Null}
    BY DEF Replies, Steps
  <2> QED
    BY <2>1, <2>2
<1>2. CASE Answer(r, "OK")
  <2>1. pc' = [pc EXCEPT ![r] = "done"] /\ reply' = [reply EXCEPT ![r] = "OK"]
    BY <1>2 DEF Answer, Goto
  <2>2. "done" \in Steps /\ "OK" \in Replies \cup {Null}
    BY DEF Replies, Steps
  <2>3. Phase(r)'
    BY <2>1, GoOnPhase
  <2> QED
    BY <2>1, <2>2, <2>3
<1>3. CASE Continue(r, "loginFind")
  <2>1. pc' = [pc EXCEPT ![r] = "loginFind"] /\ reply' = [reply EXCEPT ![r] = Null]
    BY <1>3 DEF Continue, Goto, TypeOK, Phase
  <2>2. "loginFind" \in Steps
    BY DEF Steps
  <2>3. Phase(r)'
    BY <2>1, GoOnPhase
  <2> QED
    BY <2>1, <2>2, <2>3
<1> QED
  BY <1>1, <1>2, <1>3 DEF AfterUpsert

LEMMA CreateCredStep ==
  ASSUME Inductive, NEW r \in Requests, CreateCred(r)
  PROVE  Inductive'
<1> USE NoNull, OpAssumption
<1> DEFINE c == response[key[r]].cred
           new == [user |-> uid[r], count |-> count[r], row |-> nextRow]
<1>0. /\ TypeOK /\ Phase(r) /\ CredsInv /\ pc[r] = "createCred"
      /\ UNCHANGED <<enabled, sessions, device, inputs, loaded, took>>
      /\ Finishing(r) /\ key[r] \in Keys /\ response[key[r]] # Null
      /\ uid[r] \in UserIds /\ owner[c] = uid[r]
  BY DEF Inductive, PhaseInv, Phase, CreateCred, OwnResponse
<1>1. c \in CredIds /\ new \in Row
  BY <1>0 DEF TypeOK, Response, Row
<1>2. CASE creds[c] = Null
  <2>1. /\ creds' = [creds EXCEPT ![c] = new] /\ nextRow' = nextRow + 1
        /\ AfterUpsert(r)
    BY <1>2 DEF CreateCred
  <2>2. /\ Phase(r)'
        /\ \E step \in Steps, a \in Replies \cup {Null} :
             pc' = [pc EXCEPT ![r] = step] /\ reply' = [reply EXCEPT ![r] = a]
    BY <1>0, <2>1, AfterUpsertResult DEF loaded
  <2>3. TypeOK'
    BY <1>0, <1>1, <2>1, <2>2 DEF TypeOK, device, inputs, loaded
  <2>4. CredsInv'
    <3>1. nextRow \in Nat /\ creds' = [d \in CredIds |-> IF d = c THEN new ELSE creds[d]]
      BY <1>1, <2>1 DEF Inductive, TypeOK
    <3>2. \A d \in CredIds : creds[d] # Null => creds[d].row \in Nat /\ creds[d].row < nextRow
      BY <1>0 DEF TypeOK, CredsInv, Row
    <3> QED
      BY <1>0, <1>1, <2>1, <3>1, <3>2 DEF CredsInv, device
  <2> QED
    BY <1>0, <2>2, <2>3, <2>4, OwnStep DEF loaded
<1>3. CASE creds[c] # Null
  <2>1. Answer(r, "BadRequest") /\ UNCHANGED tables
    BY <1>3 DEF CreateCred
  <2>2. /\ Phase(r)' /\ pc' = [pc EXCEPT ![r] = "done"]
        /\ reply' = [reply EXCEPT ![r] = "BadRequest"]
    BY <1>0, <2>1, RefusalPhase DEF loaded, Replies
  <2>3. TypeOK'
    BY <1>0, <2>1, <2>2 DEF TypeOK, Steps, Replies, tables, device, inputs, loaded
  <2>4. CredsInv'
    BY <1>0, <2>1 DEF CredsInv, tables, device
  <2> QED
    BY <1>0, <2>2, <2>3, <2>4, OwnStep DEF Steps, Replies, loaded
<1> QED
  BY <1>2, <1>3

\* An update leaves every row where it is, with its user.
LEMMA UpdatedRows ==
  ASSUME Inductive, NEW r \in Requests, UpdateCred(r), NEW d \in CredIds
  PROVE  /\ creds[d] = Null => creds'[d] = Null
         /\ creds[d] # Null => /\ creds'[d] \in Row /\ creds'[d] # Null
                               /\ creds'[d].user = creds[d].user
                               /\ creds'[d].row = creds[d].row
<1> USE NoNull
<1> DEFINE c == response[key[r]].cred
<1>0. TypeOK /\ Phase(r) /\ pc[r] = "updateCred" /\ key[r] \in Keys /\ response[key[r]] # Null
  BY DEF Inductive, PhaseInv, Phase, UpdateCred
<1>1. c \in CredIds /\ count[r] \in Nat
  BY <1>0 DEF TypeOK, Response
<1>2. CASE creds[c] = Null
  BY <1>0, <1>2 DEF UpdateCred, TypeOK
<1>3. CASE creds[c] # Null
  <2>1. creds[c] \in Row
    BY <1>0, <1>1, <1>3 DEF TypeOK
  <2>2. creds' = [creds EXCEPT ![c] = [creds[c] EXCEPT !.count = count[r]]]
    BY <1>3 DEF UpdateCred
  <2>3. creds'[d] = IF d = c THEN [creds[c] EXCEPT !.count = count[r]] ELSE creds[d]
    BY <1>0, <1>1, <2>2 DEF TypeOK
  <2>4. [creds[c] EXCEPT !.count = count[r]] \in Row
    BY <1>1, <2>1 DEF Row
  <2>5. /\ [creds[c] EXCEPT !.count = count[r]].user = creds[c].user
        /\ [creds[c] EXCEPT !.count = count[r]].row = creds[c].row
    BY <2>1 DEF Row
  <2>6. creds[d] # Null => creds[d] \in Row
    BY <1>0 DEF TypeOK
  <2> QED
    BY <1>3, <2>3, <2>4, <2>5, <2>6
<1> QED
  BY <1>2, <1>3

LEMMA UpdateCredStep ==
  ASSUME Inductive, NEW r \in Requests, UpdateCred(r)
  PROVE  Inductive'
<1> USE NoNull, OpAssumption
<1> DEFINE c == response[key[r]].cred
<1>0. /\ TypeOK /\ Phase(r) /\ CredsInv /\ pc[r] = "updateCred" /\ AfterUpsert(r)
      /\ UNCHANGED <<enabled, nextRow, sessions, device, inputs, loaded, took>>
      /\ key[r] \in Keys /\ response[key[r]] # Null
  BY DEF Inductive, PhaseInv, Phase, UpdateCred
<1>1. c \in CredIds /\ count[r] \in Nat
  BY <1>0 DEF TypeOK, Response
<1>2. \A d \in CredIds :
        /\ creds[d] = Null => creds'[d] = Null
        /\ creds[d] # Null => /\ creds'[d] \in Row /\ creds'[d] # Null
                              /\ creds'[d].user = creds[d].user
                              /\ creds'[d].row = creds[d].row
  BY UpdatedRows
<1>3. creds' \in [CredIds -> Row \cup {Null}]
  BY <1>0, <1>1, <1>2 DEF UpdateCred, TypeOK
<1>4. /\ Phase(r)'
      /\ \E step \in Steps, a \in Replies \cup {Null} :
           pc' = [pc EXCEPT ![r] = step] /\ reply' = [reply EXCEPT ![r] = a]
  BY <1>0, AfterUpsertResult DEF loaded
<1>5. TypeOK'
  BY <1>0, <1>3, <1>4 DEF TypeOK, device, inputs, loaded
<1>6. CredsInv'
  BY <1>0, <1>2 DEF CredsInv, device
<1> QED
  BY <1>0, <1>4, <1>5, <1>6, OwnStep DEF loaded

LEMMA DeleteCredStep ==
  ASSUME Inductive, NEW r \in Requests, DeleteCred(r)
  PROVE  Inductive'
<1> USE NoNull, OpAssumption
<1>0. /\ TypeOK /\ Phase(r) /\ CredsInv /\ pc[r] = "deleteCred" /\ Op[r] = "delete"
      /\ UNCHANGED <<enabled, nextRow, sessions, device, inputs, loaded>>
      /\ creds' = [c \in CredIds |-> IF c \in Matching(r) THEN Null ELSE creds[c]]
      /\ took' = [took EXCEPT ![r] = Matching(r)]
      /\ Matching(r) \in SUBSET CredIds
  BY DEF Inductive, PhaseInv, Phase, DeleteCred, Matching
<1>1. PICK a \in {"NotFound", "OK", "InternalError"} : Answer(r, a)
  BY DEF DeleteCred
<1>2. pc' = [pc EXCEPT ![r] = "done"] /\ reply' = [reply EXCEPT ![r] = a]
  BY <1>1 DEF Answer, Goto
<1>3. Phase(r)'
  BY <1>0, <1>1, <1>2 DEF Phase, TypeOK, device, inputs, loaded, IsBegin, IsLogin,
     Finishing
<1>4. TypeOK'
  BY <1>0, <1>2 DEF TypeOK, Steps, Replies, device, inputs, loaded
<1>5. CredsInv'
  BY <1>0 DEF CredsInv, device
<1> QED
  BY <1>0, <1>2, <1>3, <1>4, <1>5, OwnStep DEF Steps, Replies, loaded

-----------------------------------------------------------------------------
(* Steps on sessions.                                                      *)

LEMMA TakeStep ==
  ASSUME Inductive, NEW r \in Requests, Take(r)
  PROVE  Inductive'
<1> USE NoNull, OpAssumption
<1> DEFINE s == sessions[key[r]]
<1>0. /\ TypeOK /\ Phase(r) /\ CredsInv /\ SessionsInv /\ pc[r] = "take"
      /\ Finishing(r) /\ ~IsBegin(r) /\ reply[r] = Null /\ sess[r] = Null
      /\ IsLogin(r) \/ uid[r] \in UserIds
      /\ key[r] \in Keys /\ response[key[r]] # Null /\ response[key[r]].kind = Kind(r)
      /\ UNCHANGED <<enabled, tables, device, key, row, list, count, took>>
  BY DEF Inductive, PhaseInv, Phase, Take, Finishing, IsBegin
<1>1. CredsInv'
  BY <1>0 DEF CredsInv, tables, device
<1>2. CASE s = Gone
  <2>1. Answer(r, "BadRequest") /\ UNCHANGED <<sessions, sess, uid>>
    BY <1>2 DEF Take, NoSession
  <2>2. /\ Phase(r)' /\ pc' = [pc EXCEPT ![r] = "done"]
        /\ reply' = [reply EXCEPT ![r] = "BadRequest"]
    BY <1>0, <2>1, RefusalPhase DEF Replies, inputs
  <2>3. TypeOK'
    BY <1>0, <2>1, <2>2 DEF TypeOK, Steps, Replies, tables, device
  <2> QED
    BY <1>0, <1>1, <2>1, <2>2, <2>3, OwnStep DEF Steps, Replies, inputs
<1>3. CASE s # Gone
  <2>1. s \in Session /\ s # Null /\ s.user \in UserIds
    BY <1>0, <1>3 DEF TypeOK, SessionsInv, Session
  <2>2. /\ sessions' = [sessions EXCEPT ![key[r]] = Gone]
        /\ sess' = [sess EXCEPT ![r] = s]
        /\ uid' = [uid EXCEPT ![r] = IF IsLogin(r) THEN s.user ELSE uid[r]]
    BY <1>3 DEF Take, Consume
  <2>3. \/ SameUser(r, s) /\ Continue(r, "findUser")
        \/ Answer(r, "BadRequest")
    BY <1>3 DEF Take
  <2>4. PICK step \in {"findUser", "done"}, a \in {"BadRequest", Null} :
          /\ pc' = [pc EXCEPT ![r] = step] /\ reply' = [reply EXCEPT ![r] = a]
          /\ step = "findUser" => SameUser(r, s) /\ a = Null
    <3>1. CASE Answer(r, "BadRequest")
      BY <3>1 DEF Answer, Goto
    <3>2. CASE SameUser(r, s) /\ Continue(r, "findUser")
      <4>1. /\ pc' = [pc EXCEPT ![r] = "findUser"]
            /\ reply' = [reply EXCEPT ![r] = Null]
        BY <1>0, <3>2 DEF Continue, Goto, TypeOK
      <4> QED
        BY <3>2, <4>1
    <3> QED
      BY <2>3, <3>1, <3>2
  <2>5. uid'[r] \in UserIds
    BY <1>0, <2>1, <2>2 DEF TypeOK
  <2>6. TypeOK'
    BY <1>0, <2>1, <2>2, <2>4, <2>5 DEF TypeOK, Steps, Replies, tables, device
  <2>7. ASSUME NEW q \in Requests, q # r PROVE Phase(q)'
    <3>1. Untouched(q)
      BY <1>0, <2>2, <2>4, <2>7 DEF TypeOK, Untouched, device
    <3> QED
      BY <2>7, <3>1, UntouchedPhase DEF Inductive, PhaseInv
  <2>8. Phase(r)'
    <3>1. /\ sess'[r] = s /\ pc'[r] = step /\ reply'[r] = a /\ key'[r] = key[r]
          /\ response' = response
      BY <1>0, <2>2, <2>4 DEF TypeOK, device
    <3>2. step = "findUser" => SameUser(r, sess[r])'
      BY <2>1, <2>2, <2>4, <3>1 DEF SameUser, IsLogin, Inductive, TypeOK
    <3> QED
      BY <1>0, <2>1, <2>4, <2>5, <3>1, <3>2
         DEF Phase, Finishing, IsBegin, IsLogin, Kind
  <2>9. SessionsInv'
    <3>1. /\ \A k \in Keys : sessions'[k] = IF k = key[r] THEN Gone ELSE sessions[k]
          /\ \A q \in Requests : sess'[q] = IF q = r THEN s ELSE sess[q]
          /\ \A q \in Requests : q # r => uid'[q] = uid[q]
          /\ key' = key /\ response' = response /\ owner' = owner
      BY <1>0, <2>2 DEF TypeOK, device
    <3>2. ~IsLogin(r) => owner[response[key[r]].cred] = s.user
      BY <1>0, <1>3 DEF SessionsInv, Kind
    <3>3. \A q \in Requests : key[q] # Null => key[q] \in Keys
      BY <1>0 DEF TypeOK
    <3>4. \A q \in Requests : sess[q] # Null => key[q] # key[r]
      BY <1>0, <1>3 DEF SessionsInv
    <3>5. SessionTakenOnce'
      BY <1>0, <3>1, <3>4 DEF SessionsInv, SessionTakenOnce
    <3>6. \A q \in Requests : (IsBegin(q)' <=> IsBegin(q)) /\ (IsLogin(q)' <=> IsLogin(q))
      BY DEF IsBegin, IsLogin
    <3> QED
      BY <1>0, <3>1, <3>2, <3>3, <3>4, <3>5, <3>6 DEF SessionsInv
  <2> QED
    BY <1>1, <2>6, <2>7, <2>8, <2>9 DEF Inductive, PhaseInv
<1> QED
  BY <1>2, <1>3

LEMMA SaveStep ==
  ASSUME Inductive, NEW r \in Requests, Save(r)
  PROVE  Inductive'
<1> USE NoNull, OpAssumption
<1>0. /\ TypeOK /\ Phase(r) /\ CredsInv /\ SessionsInv /\ pc[r] = "save"
      /\ IsBegin(r) /\ ~Finishing(r) /\ key[r] = Null /\ sess[r] = Null
      /\ uid[r] \in UserIds /\ list[r] \in [CredIds -> Nat \cup {Null}]
      /\ UNCHANGED <<enabled, tables, device, uid, row, loaded, took>>
  BY DEF Inductive, PhaseInv, Phase, Save, Finishing, IsBegin, TypeOK
<1> DEFINE new == [user |-> uid[r],
                   allowed |-> IF IsLogin(r) THEN Listed(list[r]) ELSE {}]
<1>1. new \in Session /\ new # Null /\ new.user = uid[r]
  BY <1>0 DEF Session, Listed
<1>2. PICK k \in Keys :
        /\ sessions[k] = Null /\ sessions' = [sessions EXCEPT ![k] = new]
        /\ \/ Answer(r, "OK") /\ key' = [key EXCEPT ![r] = k]
           \/ Answer(r, "InternalError") /\ UNCHANGED key
  BY DEF Save
<1>3. PICK a \in {"OK", "InternalError"}, kk \in Keys \cup {Null} :
        /\ pc' = [pc EXCEPT ![r] = "done"] /\ reply' = [reply EXCEPT ![r] = a]
        /\ key' = [key EXCEPT ![r] = kk]
        /\ kk \in {k, Null} /\ (a = "OK" => kk = k)
  <2>1. CASE Answer(r, "OK") /\ key' = [key EXCEPT ![r] = k]
    BY <2>1 DEF Answer, Goto
  <2>2. CASE Answer(r, "InternalError") /\ UNCHANGED key
    <3>1. key' = [key EXCEPT ![r] = Null]
      BY <1>0, <2>2 DEF TypeOK
    <3> QED
      BY <2>2, <3>1 DEF Answer, Goto
  <2> QED
    BY <1>2, <2>1, <2>2
<1>4. TypeOK'
  BY <1>0, <1>1, <1>2, <1>3 DEF TypeOK, Steps, Replies, tables, device, loaded
<1>5. ASSUME NEW q \in Requests, q # r PROVE Phase(q)'
  <2>1. Untouched(q)
    BY <1>0, <1>3, <1>5 DEF TypeOK, Untouched, device, loaded
  <2> QED
    BY <1>5, <2>1, UntouchedPhase DEF Inductive, PhaseInv
<1>6. Phase(r)'
  BY <1>0, <1>3 DEF Phase, TypeOK, Finishing, IsBegin, IsLogin, Kind, device, loaded
<1>7. SessionsInv'
  <2>1. /\ \A j \in Keys : sessions'[j] = IF j = k THEN new ELSE sessions[j]
        /\ \A q \in Requests : key'[q] = IF q = r THEN kk ELSE key[q]
        /\ sess' = sess /\ uid' = uid /\ response' = response /\ owner' = owner
    BY <1>0, <1>2, <1>3 DEF TypeOK, device, loaded
  <2>2. \A q \in Requests : key[q] # Null => key[q] \in Keys /\ key[q] # k
    BY <1>0, <1>2 DEF TypeOK, SessionsInv
  <2>3. \A j \in Keys : response[j] # Null => j # k
    BY <1>0, <1>2 DEF SessionsInv
  <2>4. \A q \in Requests : sess[q] # Null => q # r /\ key[q] # Null
    BY <1>0 DEF SessionsInv
  <2>5. SessionTakenOnce'
    BY <1>0, <2>1, <2>4 DEF SessionsInv, SessionTakenOnce
  <2>6. \A q \in Requests : (IsBegin(q)' <=> IsBegin(q)) /\ (IsLogin(q)' <=> IsLogin(q))
    BY DEF IsBegin, IsLogin
  <2> QED
    BY <1>0, <1>1, <1>3, <2>1, <2>2, <2>3, <2>4, <2>5, <2>6 DEF SessionsInv
<1>8. CredsInv'
  BY <1>0 DEF CredsInv, tables, device
<1> QED
  BY <1>4, <1>5, <1>6, <1>7, <1>8 DEF Inductive, PhaseInv

LEMMA ExpireStep ==
  ASSUME Inductive, NEW k \in Keys, Expire(k)
  PROVE  Inductive'
<1> USE NoNull
<1>0. /\ TypeOK /\ SessionsInv /\ CredsInv
      /\ UNCHANGED <<enabled, tables, device, inputs, pc, loaded, reply, took>>
      /\ sessions' = [j \in Keys |-> IF j = k THEN Gone ELSE sessions[j]]
  BY DEF Inductive, Expire, TypeOK
<1>1. TypeOK'
  BY <1>0 DEF TypeOK, tables, device, inputs, loaded
<1>2. ASSUME NEW q \in Requests PROVE Phase(q)'
  <2>1. Untouched(q)
    BY <1>0 DEF Untouched, device, inputs, loaded
  <2> QED
    BY <2>1, UntouchedPhase DEF Inductive, PhaseInv
<1>3. SessionsInv'
  <2>1. \A q \in Requests : (IsBegin(q)' <=> IsBegin(q)) /\ (IsLogin(q)' <=> IsLogin(q))
    BY DEF IsBegin, IsLogin
  <2>2. \A q \in Requests : key[q] # Null => key[q] \in Keys
    BY <1>0 DEF TypeOK
  <2> QED
    BY <1>0, <2>1, <2>2 DEF SessionsInv, SessionTakenOnce, device, inputs, loaded
<1>4. CredsInv'
  BY <1>0 DEF CredsInv, tables, device
<1> QED
  BY <1>1, <1>2, <1>3, <1>4 DEF Inductive, PhaseInv

-----------------------------------------------------------------------------
(* The world around.                                                       *)

\* A response that has been given is for a session that was taken with it.
LEMMA TakenHasResponse ==
  ASSUME Inductive, NEW q \in Requests, sess[q] # Null
  PROVE  key[q] \in Keys /\ response[key[q]] \in Response
BY NoNull DEF Inductive, PhaseInv, Phase, SessionsInv, TypeOK

LEMMA SignAssertionStep ==
  ASSUME Inductive, NEW b \in Requests, NEW c \in CredIds, SignAssertion(b, c)
  PROVE  Inductive'
<1> USE NoNull
<1> DEFINE new == [kind |-> "get", cred |-> c, count |-> counter[c] + 1]
<1>0. /\ TypeOK /\ SessionsInv /\ CredsInv
      /\ UNCHANGED <<enabled, tables, sessions, owner, inputs, pc, loaded, reply, took>>
      /\ IsBegin(b) /\ key[b] \in Keys /\ response[key[b]] = Null
  BY DEF Inductive, PhaseInv, Phase, SignAssertion, IsBegin
<1>1. /\ counter' = [counter EXCEPT ![c] = counter[c] + 1] /\ counter[c] \in Nat
      /\ response' = [k \in Keys |-> IF k = key[b] THEN new ELSE response[k]]
      /\ new \in Response /\ new.kind # "create"
  <2>1. counter[c] \in Nat /\ counter[c] + 1 \in Nat
    BY <1>0 DEF TypeOK
  <2>2. new \in Response /\ new.kind # "create"
    BY <2>1 DEF Response
  <2>3. counter' = [counter EXCEPT ![c] = counter[c] + 1]
    BY DEF SignAssertion
  <2>4. response' = [response EXCEPT ![key[b]] = new]
    BY DEF SignAssertion
  <2> QED
    BY <1>0, <2>1, <2>2, <2>3, <2>4 DEF TypeOK
<1>2. TypeOK'
  BY <1>0, <1>1 DEF TypeOK, tables, inputs, loaded
<1>3. ASSUME NEW q \in Requests PROVE Phase(q)'
  <2>1. Untouched(q)
    BY <1>0, <1>1 DEF Untouched, inputs, loaded
  <2> QED
    BY <2>1, UntouchedPhase DEF Inductive, PhaseInv
<1>4. SessionsInv'
  <2>1. \A q \in Requests : (IsBegin(q)' <=> IsBegin(q)) /\ (IsLogin(q)' <=> IsLogin(q))
    BY DEF IsBegin, IsLogin
  <2>2. \A q \in Requests : sess[q] # Null => key[q] \in Keys /\ key[q] # key[b]
    BY <1>0, TakenHasResponse
  <2>3. sessions[key[b]] # Null
    BY <1>0 DEF SessionsInv
  <2> QED
    BY <1>0, <1>1, <2>1, <2>2, <2>3 DEF SessionsInv, SessionTakenOnce, inputs, loaded
<1>5. CredsInv'
  BY <1>0 DEF CredsInv, tables
<1> QED
  BY <1>2, <1>3, <1>4, <1>5 DEF Inductive, PhaseInv

LEMMA MakeCredentialStep ==
  ASSUME Inductive, NEW b \in Requests, NEW c \in CredIds, MakeCredential(b, c)
  PROVE  Inductive'
<1> USE NoNull
<1> DEFINE new == [kind |-> "create", cred |-> c, count |-> 0]
<1>0. /\ TypeOK /\ SessionsInv /\ CredsInv
      /\ UNCHANGED <<enabled, tables, sessions, counter, inputs, pc, loaded, reply, took>>
      /\ IsBegin(b) /\ key[b] \in Keys /\ response[key[b]] = Null /\ owner[c] = Null
  BY DEF Inductive, PhaseInv, Phase, MakeCredential, IsBegin
<1>1. /\ owner' = [d \in CredIds |-> IF d = c THEN uid[b] ELSE owner[d]]
      /\ response' = [k \in Keys |-> IF k = key[b] THEN new ELSE response[k]]
      /\ new \in Response
  BY <1>0 DEF TypeOK, MakeCredential, Response
<1>2. uid[b] \in UserIds
  BY <1>0 DEF Inductive, PhaseInv, Phase, MakeCredential
<1>3. TypeOK'
  BY <1>0, <1>1, <1>2 DEF TypeOK, tables, inputs, loaded
<1>4. ASSUME NEW q \in Requests PROVE Phase(q)'
  <2>1. Untouched(q)
    BY <1>0, <1>1 DEF Untouched, inputs, loaded
  <2> QED
    BY <2>1, UntouchedPhase DEF Inductive, PhaseInv
<1>5. SessionsInv'
  <2>1. \A q \in Requests : (IsBegin(q)' <=> IsBegin(q)) /\ (IsLogin(q)' <=> IsLogin(q))
    BY DEF IsBegin, IsLogin
  <2>2. \A q \in Requests : sess[q] # Null =>
          /\ key[q] \in Keys /\ key[q] # key[b]
          /\ response[key[q]].cred \in CredIds /\ sess[q].user \in UserIds
    BY <1>0, TakenHasResponse DEF Response, TypeOK, Session
  <2>3. \A k \in Keys : response[k] # Null =>
          /\ response[k].cred \in CredIds
          /\ sessions[k] # Null /\ sessions[k] # Gone => sessions[k].user \in UserIds
    BY <1>0 DEF TypeOK, Response, Session
  <2>4. sessions[key[b]] # Null
        /\ (sessions[key[b]] # Gone => sessions[key[b]].user = uid[b])
    BY <1>0 DEF SessionsInv
  <2>5. ASSUME NEW k \in Keys, response'[k] # Null
        PROVE  /\ sessions'[k] # Null
               /\ response'[k].kind = "create" /\ sessions'[k] # Gone
                    => owner'[response'[k].cred] = sessions'[k].user
    BY <1>0, <1>1, <2>3, <2>4, <2>5 DEF SessionsInv
  <2>6. ASSUME NEW q \in Requests, sess'[q] # Null
        PROVE  /\ key'[q] \in Keys
               /\ sessions'[key'[q]] = Gone
               /\ ~IsLogin(q) => owner'[response'[key'[q]].cred] = sess'[q].user
    BY <1>0, <1>1, <2>2, <2>6 DEF SessionsInv, inputs, loaded
  <2>7. SessionTakenOnce'
    BY <1>0 DEF SessionsInv, SessionTakenOnce, inputs, loaded
  <2> QED
    BY <1>0, <2>1, <2>5, <2>6, <2>7 DEF SessionsInv, inputs
<1>6. CredsInv'
  <2>1. \A d \in CredIds : creds[d] # Null => creds[d].user \in UserIds
    BY <1>0 DEF TypeOK, Row
  <2>2. \A d \in CredIds : creds[d] # Null => owner'[d] = owner[d]
    BY <1>0, <1>1, <2>1 DEF CredsInv
  <2> QED
    BY <1>0, <2>2 DEF CredsInv, tables
<1> QED
  BY <1>3, <1>4, <1>5, <1>6 DEF Inductive, PhaseInv

LEMMA SetStatusStep ==
  ASSUME Inductive, NEW u \in UserIds, SetStatus(u)
  PROVE  Inductive'
<1> USE DEF Inductive, SetStatus, tables, device, inputs, loaded
<1>1. TypeOK'
  BY DEF TypeOK
<1>2. ASSUME NEW q \in Requests PROVE Phase(q)'
  BY UntouchedPhase DEF PhaseInv, Untouched
<1>3. SessionsInv' /\ CredsInv'
  BY DEF SessionsInv, SessionTakenOnce, CredsInv, IsBegin, IsLogin
<1> QED
  BY <1>1, <1>2, <1>3 DEF PhaseInv

LEMMA StutterStep == Inductive /\ UNCHANGED vars => Inductive'
BY DEF Inductive, vars, tables, device, inputs, loaded, TypeOK, PhaseInv, Phase, SessionsInv,
   SessionTakenOnce, CredsInv, IsBegin, IsLogin, Finishing, Kind, SameUser, OwnResponse

LEMMA NextInductive == Inductive /\ [Next]_vars => Inductive'
<1> SUFFICES ASSUME Inductive, [Next]_vars PROVE Inductive'
  OBVIOUS
<1>1. CASE Environment
  BY <1>1, ExpireStep, SignAssertionStep, MakeCredentialStep, SetStatusStep DEF Environment
<1>2. ASSUME NEW r \in Requests, Arrive(r) PROVE Inductive'
  BY <1>2, ArriveBeginStep, ArriveFinishStep, ArriveDeleteStep DEF Arrive
<1>3. ASSUME NEW r \in Requests, Serve(r) PROVE Inductive'
  BY <1>3, TakeStep, FindUserStep, ListCredsStep, SaveStep, FindCredStep, CreateCredStep,
     UpdateCredStep, LoginFindStep, LoginIssueStep, DeleteCredStep DEF Serve
<1>4. ASSUME NEW r \in Requests, Fail(r) PROVE Inductive'
  BY <1>4, FailStep
<1>5. CASE UNCHANGED vars
  BY <1>5, StutterStep
<1> QED
  BY <1>1, <1>2, <1>3, <1>4, <1>5 DEF Next

LEMMA AlwaysInductive == Spec => []Inductive
BY InitInductive, NextInductive, PTL DEF Spec

-----------------------------------------------------------------------------
(* The theorems.                                                           *)

\* Every variable keeps its type: in particular every session taken was saved
\* by a BEGIN, and every answer is one the handlers in passkey.go give.
THEOREM TypeCorrect == Spec => []TypeOK
<1>1. Inductive => TypeOK
  BY DEF Inductive
<1> QED
  BY <1>1, AlwaysInductive, PTL

\* Of the requests that send one session key only one ever gets the session:
\* PasskeySessionStore.Take (passkey_session.go:49-72) accepts no response twice.
THEOREM OneShotSessions == Spec => []SessionTakenOnce
<1>1. Inductive => SessionTakenOnce
  BY DEF Inductive, SessionsInv
<1> QED
  BY <1>1, AlwaysInductive, PTL

\* A bound credential names the user whose authenticator holds it, and a token is
\* only given for a response of that user's own authenticator, whatever users,
\* sessions and responses the requests mix up (FinishRegistration and
\* FinishLogin, passkey.go).
THEOREM CredentialsStayWithOwners == Spec => []OwnersOnly
<1>1. Inductive => OwnersOnly
  BY DEF Inductive, PhaseInv, Phase, CredsInv, OwnersOnly, Token, Finishing, OwnResponse
<1> QED
  BY <1>1, AlwaysInductive, PTL

-----------------------------------------------------------------------------
(* Rows that go away.                                                      *)

\* Apart from DELETE no step takes a row away.
Deletes == \E r \in Requests : DeleteCred(r)
RowsStay == /\ \A c \in CredIds : creds[c] # Null => creds'[c] # Null
            /\ took' = took

LEMMA OnlyDeletes == Inductive /\ [Next]_vars => Deletes \/ RowsStay
<1> SUFFICES ASSUME Inductive, [Next]_vars, ~Deletes PROVE RowsStay
  OBVIOUS
<1>1. CASE Environment
  BY <1>1 DEF Environment, Expire, SignAssertion, MakeCredential, SetStatus, RowsStay, tables
<1>2. ASSUME NEW r \in Requests, Arrive(r) PROVE RowsStay
  BY <1>2 DEF Arrive, ArriveBegin, ArriveFinish, ArriveDelete, RowsStay, tables
<1>3. ASSUME NEW r \in Requests, CreateCred(r) PROVE RowsStay
  <2> DEFINE c == response[key[r]].cred
             new == [user |-> uid[r], count |-> count[r], row |-> nextRow]
  <2>1. took' = took /\ (creds' = creds \/ (creds[c] = Null /\ creds' = [creds EXCEPT ![c] = new]))
    BY <1>3 DEF CreateCred, tables
  <2> QED
    BY <2>1 DEF RowsStay, Inductive, TypeOK
<1>4. ASSUME NEW r \in Requests, UpdateCred(r) PROVE RowsStay
  <2>1. took' = took
    BY <1>4 DEF UpdateCred
  <2>2. ASSUME NEW d \in CredIds, creds[d] # Null PROVE creds'[d] # Null
    BY <1>4, <2>2, UpdatedRows
  <2> QED
    BY <2>1, <2>2 DEF RowsStay
<1>5. ASSUME NEW r \in Requests, Serve(r) \/ Fail(r), ~CreateCred(r), ~UpdateCred(r)
      PROVE RowsStay
  <2>1. UNCHANGED <<creds, took>>
    BY <1>5 DEF Serve, Fail, Take, FindUser, ListCreds, Save, FindCred, LoginFind,
       LoginIssue, Deletes, tables
  <2> QED
    BY <2>1 DEF RowsStay
<1>6. CASE UNCHANGED vars
  BY <1>6 DEF vars, RowsStay
<1> QED
  BY <1>1, <1>2, <1>3, <1>4, <1>5, <1>6 DEF Next

\* A row only goes when its owner's DELETE names it, and no other row goes with
\* it: the WHERE clause of webauthn_cred.go:36-47 names one row of the user.
THEOREM RowsRemovedByOwners == Spec => RemovedByOwner
<1> DEFINE Removal ==
      \A c, d \in CredIds :
          creds[c] # Null /\ creds'[c] = Null =>
            /\ \E r \in Requests : /\ pc[r] = "deleteCred" /\ pc'[r] = "done"
                                   /\ uid[r] = owner[c]
            /\ c # d => creds'[d] = creds[d]
<1>1. Inductive /\ [Next]_vars => [Removal]_vars
  <2> SUFFICES ASSUME Inductive, [Next]_vars,
                      NEW c \in CredIds, NEW d \in CredIds,
                      creds[c] # Null, creds'[c] = Null
               PROVE  /\ \E r \in Requests : /\ pc[r] = "deleteCred" /\ pc'[r] = "done"
                                             /\ uid[r] = owner[c]
                      /\ c # d => creds'[d] = creds[d]
    OBVIOUS
  <2>1. PICK r \in Requests : DeleteCred(r)
    BY OnlyDeletes DEF Deletes, RowsStay
  <2>2. /\ pc[r] = "deleteCred" /\ pc' = [pc EXCEPT ![r] = "done"]
        /\ creds' = [x \in CredIds |-> IF x \in Matching(r) THEN Null ELSE creds[x]]
    BY <2>1 DEF DeleteCred, Answer, Goto
  <2>3. creds[c].row = row[r] /\ creds[c].user = uid[r]
    BY <2>2 DEF Matching
  <2>4. uid[r] = owner[c] /\ pc'[r] = "done"
    BY <2>2, <2>3 DEF Inductive, TypeOK, CredsInv
  <2>5. c # d => d \notin Matching(r)
    BY <2>3 DEF Matching, Inductive, CredsInv
  <2> QED
    BY <2>2, <2>4, <2>5
<1> QED
  BY <1>1, AlwaysInductive, PTL DEF Spec, RemovedByOwner

-----------------------------------------------------------------------------
(* Registrations last.                                                     *)

\* The credential is bound, or a DELETE has taken it since.
Kept(c) == creds[c] # Null \/ \E d \in Requests : c \in took[d]

\* Upsert has seen the row, or has answered for it.
Vouched(r) ==
    Op[r] = "finishRegister" /\ (pc[r] = "updateCred" \/ reply[r] = "OK")

KeptInv ==
    /\ \A r \in Requests : pc[r] # "done" => took[r] = {}
    /\ \A r \in Requests :
          Op[r] = "finishRegister" => pc[r] \notin {"loginFind", "loginIssue"}
    /\ \A r \in Requests : Vouched(r) => Kept(response[key[r]].cred)

LEMMA KeptStays ==
  ASSUME Inductive, KeptInv, [Next]_vars, NEW c \in CredIds, Kept(c)
  PROVE  Kept(c)'
<1>1. CASE RowsStay
  BY <1>1 DEF RowsStay, Kept
<1>2. ASSUME NEW r \in Requests, DeleteCred(r) PROVE Kept(c)'
  <2>1. took[r] = {}
    BY <1>2 DEF KeptInv, DeleteCred
  <2>2. /\ creds' = [x \in CredIds |-> IF x \in Matching(r) THEN Null ELSE creds[x]]
        /\ took' = [took EXCEPT ![r] = Matching(r)]
    BY <1>2 DEF DeleteCred
  <2>3. c \in Matching(r) => c \in took'[r]
    BY <2>2 DEF Inductive, TypeOK
  <2>4. \A d \in Requests : c \in took[d] => c \in took'[d]
    BY <2>1, <2>2 DEF Inductive, TypeOK
  <2>5. c \notin Matching(r) => creds'[c] = creds[c]
    BY <2>2
  <2> QED
    BY <2>3, <2>4, <2>5 DEF Kept
<1> QED
  BY <1>1, <1>2, OnlyDeletes DEF Deletes

\* ListCreds goes on or refuses, whatever was asked for.
LEMMA ListCredsWays ==
  ASSUME Inductive, NEW r \in Requests, ListCreds(r)
  PROVE  Continue(r, "save") \/ Continue(r, "findCred") \/ \E a \in Replies : Answer(r, a)
<1>1. Op[r] \in Ops /\ Op[r] # "delete"
  BY OpAssumption DEF Inductive, PhaseInv, Phase, ListCreds
<1>2. "BadRequest" \in Replies /\ "Unauthorized" \in Replies
  BY DEF Replies
<1>3. CASE Op[r] = "beginLogin"
  BY <1>2, <1>3 DEF ListCreds
<1>4. CASE Op[r] = "beginRegister"
  BY <1>4 DEF ListCreds
<1>5. CASE Op[r] = "finishLogin"
  BY <1>2, <1>5 DEF ListCreds
<1>6. CASE Op[r] = "finishRegister"
  BY <1>6 DEF ListCreds
<1> QED
  BY <1>1, <1>3, <1>4, <1>5, <1>6 DEF Ops

\* Where a step takes a request that was not vouched for.
LEMMA NewlyVouched ==
  ASSUME Inductive, KeptInv, [Next]_vars, NEW q \in Requests, Vouched(q)'
  PROVE  \/ Vouched(q) /\ key'[q] = key[q]
         \/ FindCred(q) \/ CreateCred(q)
<1> USE DEF Vouched
<1>0. pc[q] # "done" => reply[q] = Null
  BY DEF Inductive, PhaseInv, Phase
<1>1. CASE UNCHANGED <<pc, key, reply>>
  BY <1>1
<1>2. CASE Environment \/ UNCHANGED vars
  BY <1>1, <1>2 DEF Environment, Expire, SignAssertion, MakeCredential, SetStatus, vars, inputs
<1>3. ASSUME NEW r \in Requests, r # q, Arrive(r) \/ Serve(r) \/ Fail(r)
      PROVE  pc'[q] = pc[q] /\ key'[q] = key[q] /\ reply'[q] = reply[q]
  <2>1. CASE Arrive(r)
    BY <1>3, <2>1 DEF Arrive, ArriveBegin, ArriveFinish, ArriveDelete, Goto, inputs,
       Inductive, TypeOK
  <2>2. CASE Take(r) \/ Save(r)
    BY <1>3, <2>2 DEF Take, Save, Continue, Answer, Goto, NoSession, Inductive, TypeOK
  <2>3. CASE FindUser(r) \/ FindCred(r) \/ LoginFind(r) \/ LoginIssue(r)
    BY <1>3, <2>3 DEF FindUser, FindCred, LoginFind, LoginIssue, Continue,
       Answer, Goto, inputs, Inductive, TypeOK
  <2>5. CASE ListCreds(r)
    <3>1. key' = key
      BY <2>5 DEF ListCreds, inputs
    <3>2. Continue(r, "save") \/ Continue(r, "findCred") \/ \E a \in Replies : Answer(r, a)
      BY <2>5, ListCredsWays
    <3> QED
      BY <1>3, <3>1, <3>2 DEF Continue, Answer, Goto, Inductive, TypeOK
  <2>4. CASE CreateCred(r) \/ UpdateCred(r) \/ DeleteCred(r) \/ Fail(r)
    BY <1>3, <2>4 DEF CreateCred, UpdateCred, DeleteCred, Fail, AfterUpsert, Continue,
       Answer, Goto, inputs, Inductive, TypeOK
  <2> QED
    BY <1>3, <2>1, <2>2, <2>3, <2>4, <2>5 DEF Serve
<1>4. CASE Arrive(q)
  <2>1. reply' = reply /\ reply[q] = Null
    BY <1>0, <1>4 DEF Arrive, ArriveBegin, ArriveFinish, ArriveDelete
  <2>2. pc'[q] # "updateCred"
    BY <1>4 DEF Arrive, ArriveBegin, ArriveFinish, ArriveDelete, Goto, Inductive, TypeOK
  <2> QED
    BY <2>1, <2>2, NoNull
<1>5. CASE UpdateCred(q)
  BY <1>5 DEF UpdateCred, inputs
<1>6. CASE Fail(q)
  BY <1>6 DEF Fail, Answer, Goto, Broken, inputs, Inductive, TypeOK
<1>7. CASE Take(q) \/ Save(q) \/ DeleteCred(q) \/ LoginFind(q) \/ LoginIssue(q)
  BY <1>0, <1>7, NoNull DEF Take, Save, DeleteCred, LoginFind, LoginIssue, NoSession, Continue,
     Answer, Goto, Inductive, TypeOK, PhaseInv, Phase, KeptInv, IsBegin
<1>8. CASE FindUser(q)
  BY <1>0, <1>8, NoNull DEF FindUser, Continue, Answer, Goto, Refused, IsBegin, inputs, Inductive, TypeOK
<1>9. CASE ListCreds(q)
  BY <1>0, <1>9, NoNull DEF ListCreds, Continue, Answer, Goto, inputs, Inductive, TypeOK
<1> QED
  BY <1>1, <1>2, <1>3, <1>4, <1>5, <1>6, <1>7, <1>8, <1>9 DEF Next, Serve

\* The next place of each request.
LEMMA Moves ==
  ASSUME Inductive, [Next]_vars, NEW q \in Requests
  PROVE  pc'[q] = pc[q] \/ Arrive(q) \/ Serve(q) \/ Fail(q)
<1>1. CASE Environment \/ UNCHANGED vars
  BY <1>1 DEF Environment, Expire, SignAssertion, MakeCredential, SetStatus, vars
<1>2. ASSUME NEW r \in Requests, r # q, Arrive(r) \/ Serve(r) \/ Fail(r)
      PROVE  pc'[q] = pc[q]
  <2>1. PICK step \in Steps : pc' = [pc EXCEPT ![r] = step]
    <3>1. CASE Arrive(r)
      BY <3>1 DEF Arrive, ArriveBegin, ArriveFinish, ArriveDelete, Goto, Steps
    <3>2. CASE Take(r) \/ Save(r)
      BY <3>2 DEF Take, Save, Continue, Answer, Goto, NoSession, Steps
    <3>3. CASE FindUser(r) \/ LoginFind(r) \/ LoginIssue(r)
      BY <3>3 DEF FindUser, LoginFind, LoginIssue, Continue, Answer, Goto, Steps
    <3>6. CASE ListCreds(r)
      BY <3>6, ListCredsWays DEF Continue, Answer, Goto, Steps
    <3>4. CASE FindCred(r)
      BY <3>4 DEF FindCred, UpsertStep, Continue, Goto, Steps
    <3>5. CASE CreateCred(r) \/ UpdateCred(r) \/ DeleteCred(r) \/ Fail(r)
      BY <3>5 DEF CreateCred, UpdateCred, DeleteCred, Fail, AfterUpsert, Continue,
         Answer, Goto, Steps
    <3> QED
      BY <1>2, <3>1, <3>2, <3>3, <3>4, <3>5, <3>6 DEF Serve
  <2> QED
    BY <1>2, <2>1 DEF Inductive, TypeOK
<1> QED
  BY <1>1, <1>2 DEF Next

LEMMA DoneStays ==
  ASSUME Inductive, [Next]_vars, NEW q \in Requests, pc[q] = "done"
  PROVE  pc'[q] = "done"
BY Moves DEF Arrive, ArriveBegin, ArriveFinish, ArriveDelete, Serve, Fail, Take, FindUser,
   ListCreds, Save, FindCred, CreateCred, UpdateCred, LoginFind, LoginIssue, DeleteCred

LEMMA NeverLogsIn ==
  ASSUME Inductive, KeptInv, [Next]_vars, NEW q \in Requests, Op[q] = "finishRegister"
  PROVE  pc'[q] \notin {"loginFind", "loginIssue"}
<1> USE DEF Continue, Answer, Goto, Inductive, TypeOK
<1>0. pc[q] \notin {"loginFind", "loginIssue"}
  BY DEF KeptInv
<1>1. CASE Arrive(q)
  BY <1>1 DEF Arrive, ArriveBegin, ArriveFinish, ArriveDelete
<1>2. CASE Take(q) \/ Save(q)
  BY <1>2 DEF Take, Save, NoSession
<1>3. CASE FindUser(q) \/ ListCreds(q) \/ FindCred(q) \/ LoginFind(q) \/ LoginIssue(q)
  BY <1>0, <1>3 DEF FindUser, ListCreds, FindCred, UpsertStep, LoginFind, LoginIssue
<1>4. CASE CreateCred(q) \/ UpdateCred(q) \/ DeleteCred(q) \/ Fail(q)
  BY <1>4 DEF CreateCred, UpdateCred, DeleteCred, Fail, AfterUpsert, IsLogin
<1> QED
  BY <1>0, <1>1, <1>2, <1>3, <1>4, Moves DEF Serve

LEMMA ResponsesStay ==
  ASSUME Inductive, [Next]_vars, NEW k \in Keys, response[k] # Null
  PROVE  response'[k] = response[k]
<1>1. CASE Environment \/ UNCHANGED vars
  BY <1>1 DEF Environment, Expire, SignAssertion, MakeCredential, SetStatus, vars, device,
     Inductive, TypeOK
<1>2. ASSUME NEW r \in Requests, Arrive(r) \/ Serve(r) \/ Fail(r)
      PROVE  response' = response
  BY <1>2 DEF Arrive, ArriveBegin, ArriveFinish, ArriveDelete, Serve, Fail, Take, FindUser,
     ListCreds, Save, FindCred, CreateCred, UpdateCred, LoginFind, LoginIssue, DeleteCred,
     device
<1> QED
  BY <1>1, <1>2 DEF Next

LEMMA KeptStep == Inductive /\ KeptInv /\ [Next]_vars => KeptInv'
<1> SUFFICES ASSUME Inductive, KeptInv, [Next]_vars PROVE KeptInv'
  OBVIOUS
<1> USE NoNull, OpAssumption
<1>1. ASSUME NEW q \in Requests, Vouched(q)' PROVE Kept(response[key[q]].cred)'
  <2>1. CASE Vouched(q) /\ key'[q] = key[q]
    <3>1. key[q] \in Keys /\ response[key[q]] \in Response
      BY <2>1 DEF Vouched, Inductive, PhaseInv, Phase, Finishing, TypeOK
    <3>2. response'[key'[q]] = response[key[q]]
      BY <2>1, <3>1, ResponsesStay
    <3> QED
      BY <2>1, <3>1, <3>2, KeptStays DEF KeptInv, Response
  <2>2. CASE FindCred(q)
    <3>1. pc'[q] = UpsertStep(response[key[q]].cred) /\ reply'[q] = reply[q] /\ reply[q] = Null
      BY <2>2 DEF FindCred, Continue, Goto, Inductive, TypeOK, PhaseInv, Phase
    <3>2. creds[response[key[q]].cred] # Null
      BY <1>1, <3>1 DEF Vouched, UpsertStep
    <3> QED
      BY <2>2, <3>2 DEF FindCred, Kept, tables, device, inputs
  <2>3. CASE CreateCred(q)
    <3>1. key[q] \in Keys /\ response[key[q]] \in Response /\ uid[q] \in UserIds
      BY <2>3 DEF CreateCred, Inductive, PhaseInv, Phase, Finishing, TypeOK
    <3>2. response' = response /\ key' = key
      BY <2>3 DEF CreateCred, device, inputs
    <3>3. CASE creds[response[key[q]].cred] = Null
      <4>1. creds' = [creds EXCEPT ![response[key[q]].cred] =
                        [user |-> uid[q], count |-> count[q], row |-> nextRow]]
        BY <2>3, <3>3 DEF CreateCred
      <4>2. [user |-> uid[q], count |-> count[q], row |-> nextRow] \in Row
        BY <3>1 DEF Row, Inductive, TypeOK
      <4>3. response[key[q]].cred \in CredIds
        BY <3>1 DEF Response
      <4> QED
        BY <3>2, <4>1, <4>2, <4>3 DEF Kept, Inductive, TypeOK
    <3>4. CASE creds[response[key[q]].cred] # Null
      BY <2>3, <3>2, <3>4 DEF CreateCred, tables, Kept
    <3> QED
      BY <3>3, <3>4
  <2> QED
    BY <1>1, <2>1, <2>2, <2>3, NewlyVouched
<1>2. ASSUME NEW q \in Requests, pc'[q] # "done" PROVE took'[q] = {}
  <2>1. pc[q] # "done"
    BY <1>2, DoneStays
  <2>2. CASE RowsStay
    BY <2>1, <2>2 DEF RowsStay, KeptInv
  <2>3. ASSUME NEW r \in Requests, DeleteCred(r) PROVE took'[q] = {}
    <3>1. pc' = [pc EXCEPT ![r] = "done"] /\ took' = [took EXCEPT ![r] = Matching(r)]
      BY <2>3 DEF DeleteCred, Answer, Goto
    <3> QED
      BY <1>2, <2>1, <3>1 DEF KeptInv, Inductive, TypeOK
  <2> QED
    BY <2>2, <2>3, OnlyDeletes DEF Deletes
<1>3. ASSUME NEW q \in Requests, Op[q] = "finishRegister"
      PROVE  pc'[q] \notin {"loginFind", "loginIssue"}
  BY <1>3, NeverLogsIn
<1> QED
  BY <1>1, <1>2, <1>3 DEF KeptInv, Vouched

\* A registration answered 200 is bound until a DELETE takes it: Upsert
\* (webauthn_cred.go:66-91) may be overtaken between its read and its write by
\* logins, other registrations and deletes, and loses none.
THEOREM RegistrationsLast == Spec => []RegisteredUnlessRemoved
<1>1. Init => KeptInv
  BY NoNull DEF Init, KeptInv, Vouched
<1>2. KeptInv => RegisteredUnlessRemoved
  BY DEF KeptInv, Vouched, Kept, RegisteredUnlessRemoved
<1> QED
  BY <1>1, <1>2, KeptStep, AlwaysInductive, PTL DEF Spec

\* ListCreds counts for the request it works for.
LEMMA CountsLoaded ==
  ASSUME Inductive, NEW r \in Requests, ListCreds(r)
  PROVE  count' = count \/ \E n : count' = [count EXCEPT ![r] = n]
<1>1. Op[r] \in Ops /\ Op[r] # "delete"
  BY OpAssumption DEF Inductive, PhaseInv, Phase, ListCreds
<1> QED
  BY <1>1 DEF ListCreds, Ops

-----------------------------------------------------------------------------
(* Where a step can change what.                                           *)

\* A step of somebody else leaves a request as it was.
Rests(q) ==
    /\ pc'[q] = pc[q] /\ reply'[q] = reply[q] /\ key'[q] = key[q] /\ uid'[q] = uid[q]
    /\ sess'[q] = sess[q] /\ list'[q] = list[q] /\ count'[q] = count[q]

LEMMA OthersRest ==
  ASSUME Inductive, [Next]_vars, NEW q \in Requests
  PROVE  Rests(q) \/ Arrive(q) \/ Serve(q) \/ Fail(q)
<1>1. CASE Environment \/ UNCHANGED vars
  BY <1>1 DEF Environment, Expire, SignAssertion, MakeCredential, SetStatus, vars, inputs,
     loaded, Rests
<1>2. ASSUME NEW r \in Requests, r # q, Arrive(r) \/ Serve(r) \/ Fail(r)
      PROVE  Rests(q)
  <2> USE DEF Rests, Continue, Answer, Goto, inputs, loaded, Inductive, TypeOK
  <2>1. CASE Arrive(r)
    BY <1>2, <2>1 DEF Arrive, ArriveBegin, ArriveFinish, ArriveDelete
  <2>2. CASE Take(r)
    BY <1>2, <2>2 DEF Take, NoSession
  <2>3. CASE Save(r)
    BY <1>2, <2>3 DEF Save
  <2>4. CASE FindUser(r) \/ FindCred(r) \/ LoginFind(r) \/ LoginIssue(r)
    BY <1>2, <2>4 DEF FindUser, FindCred, LoginFind, LoginIssue
  <2>5. CASE ListCreds(r)
    <3>1. Continue(r, "save") \/ Continue(r, "findCred") \/ \E a \in Replies : Answer(r, a)
      BY <2>5, ListCredsWays
    <3>2. count' = count \/ \E n : count' = [count EXCEPT ![r] = n]
      BY <2>5, CountsLoaded
    <3> QED
      BY <1>2, <2>5, <3>1, <3>2 DEF ListCreds
  <2>6. CASE CreateCred(r) \/ UpdateCred(r) \/ DeleteCred(r) \/ Fail(r)
    BY <1>2, <2>6 DEF CreateCred, UpdateCred, DeleteCred, Fail, AfterUpsert
  <2> QED
    BY <1>2, <2>1, <2>2, <2>3, <2>4, <2>5, <2>6 DEF Serve
<1> QED
  BY <1>1, <1>2 DEF Next

LEMMA ListChanges ==
  ASSUME Inductive, [Next]_vars
  PROVE  \/ list' = list
         \/ \E r \in Requests : ListCreds(r) /\ list' = [list EXCEPT ![r] = Load(r)]
<1>1. CASE Environment \/ UNCHANGED vars
  BY <1>1 DEF Environment, Expire, SignAssertion, MakeCredential, SetStatus, vars, loaded
<1>2. ASSUME NEW r \in Requests, Arrive(r) \/ Serve(r) \/ Fail(r), ~ListCreds(r)
      PROVE  list' = list
  BY <1>2 DEF Arrive, ArriveBegin, ArriveFinish, ArriveDelete, Serve, Fail, Take, FindUser,
     Save, FindCred, CreateCred, UpdateCred, LoginFind, LoginIssue, DeleteCred, loaded
<1>3. ASSUME NEW r \in Requests, ListCreds(r)
      PROVE  list' = [list EXCEPT ![r] = Load(r)]
  BY <1>3 DEF ListCreds
<1> QED
  BY <1>1, <1>2, <1>3 DEF Next

\* Only authenticators answer, one session at a time.
LEMMA DeviceChanges ==
  ASSUME Inductive, [Next]_vars
  PROVE  \/ UNCHANGED <<owner, response>>
         \/ \E b \in Requests, c \in CredIds : SignAssertion(b, c) \/ MakeCredential(b, c)
<1>1. CASE Environment \/ UNCHANGED vars
  BY <1>1 DEF Environment, Expire, SetStatus, vars, device
<1>2. ASSUME NEW r \in Requests, Arrive(r) \/ Serve(r) \/ Fail(r)
      PROVE  UNCHANGED <<owner, response>>
  BY <1>2 DEF Arrive, ArriveBegin, ArriveFinish, ArriveDelete, Serve, Fail, Take, FindUser,
     ListCreds, Save, FindCred, CreateCred, UpdateCred, LoginFind, LoginIssue, DeleteCred,
     device
<1> QED
  BY <1>1, <1>2 DEF Next

\* Only these two write a row that stays.
LEMMA RowChanges ==
  ASSUME Inductive, [Next]_vars, NEW c \in CredIds, creds'[c] # creds[c], creds'[c] # Null
  PROVE  \E r \in Requests :
            /\ CreateCred(r) \/ UpdateCred(r)
            /\ key[r] \in Keys /\ response[key[r]] \in Response
            /\ response[key[r]].cred = c
<1>1. CASE Environment \/ UNCHANGED vars
  BY <1>1 DEF Environment, Expire, SignAssertion, MakeCredential, SetStatus, vars, tables
<1>2. ASSUME NEW r \in Requests, Arrive(r) \/ Serve(r) \/ Fail(r), ~CreateCred(r),
             ~UpdateCred(r), ~DeleteCred(r)
      PROVE  FALSE
  BY <1>2 DEF Arrive, ArriveBegin, ArriveFinish, ArriveDelete, Serve, Fail, Take, FindUser,
     ListCreds, Save, FindCred, LoginFind, LoginIssue, tables
<1>3. ASSUME NEW r \in Requests, DeleteCred(r) PROVE FALSE
  BY <1>3 DEF DeleteCred
<1>4. ASSUME NEW r \in Requests, CreateCred(r) \/ UpdateCred(r)
      PROVE  /\ key[r] \in Keys /\ response[key[r]] \in Response
             /\ response[key[r]].cred = c
  <2>1. key[r] \in Keys /\ response[key[r]] \in Response
    BY <1>4 DEF CreateCred, UpdateCred, Inductive, PhaseInv, Phase, TypeOK
  <2>2. ASSUME response[key[r]].cred # c PROVE FALSE
    BY <1>4, <2>1, <2>2 DEF CreateCred, UpdateCred, Inductive, TypeOK, tables, Response
  <2> QED
    BY <2>1, <2>2
<1> QED
  BY <1>1, <1>2, <1>3, <1>4 DEF Next

LEMMA RowsBound ==
  ASSUME Inductive, [Next]_vars, NEW c \in CredIds, creds[c] = Null, creds'[c] # Null
  PROVE  \E r \in Requests :
            /\ CreateCred(r)
            /\ key[r] \in Keys /\ response[key[r]] \in Response
            /\ response[key[r]].cred = c
<1>1. ASSUME NEW r \in Requests, UpdateCred(r) PROVE FALSE
  BY <1>1, UpdatedRows
<1> QED
  BY <1>1, RowChanges

\* What a DELETE has taken was bound.
LEMMA TookChanges ==
  ASSUME Inductive, [Next]_vars, NEW r \in Requests, NEW c \in took'[r]
  PROVE  c \in CredIds /\ (c \in took[r] \/ creds[c] # Null)
<1>1. CASE RowsStay
  BY <1>1 DEF RowsStay, Inductive, TypeOK
<1>2. ASSUME NEW d \in Requests, DeleteCred(d)
      PROVE  c \in CredIds /\ (c \in took[r] \/ creds[c] # Null)
  BY <1>2 DEF DeleteCred, Matching, Inductive, TypeOK
<1> QED
  BY <1>1, <1>2, OnlyDeletes DEF Deletes

\* A row that was loaded was there.
LEMMA LoadedIsBound ==
  ASSUME Inductive, NEW r \in Requests, NEW c \in CredIds, Load(r)[c] # Null
  PROVE  creds[c] # Null /\ Load(r)[c] = creds[c].count
BY DEF Load, CredentialsOf

-----------------------------------------------------------------------------
(* Registrations bind credentials nobody knew.                             *)

\* An authenticator has answered the session with a new credential, or with a
\* signature of one it was offered.
Made(k, c) ==
    response[k] # Null /\ response[k].kind = "create" /\ response[k].cred = c
Signed(k, c) ==
    response[k] # Null /\ response[k].kind # "create" /\ response[k].cred = c

\* A row of the credential is there, or has been seen by a request, by an
\* authenticator that signed for it, or by a DELETE.
Known(c) ==
    \/ creds[c] # Null
    \/ \E r \in Requests : list[r][c] # Null \/ c \in took[r]
    \/ \E k \in Keys : Signed(k, c)

\* The FINISH that took the session has been answered.
Finished(k) == \E r \in Requests : key[r] = k /\ sess[r] # Null /\ pc[r] = "done"

FreshInv ==
    /\ \A c \in CredIds : Known(c) => owner[c] # Null
    /\ \A k \in Keys, c \in CredIds :
          Made(k, c) => owner[c] # Null /\ (Known(c) => Finished(k))
    /\ \A k, l \in Keys, c \in CredIds : Made(k, c) /\ Made(l, c) => k = l

\* Upsert works on credential c.
Upserting(r, c) ==
    pc[r] \in {"findCred", "createCred", "updateCred"} /\ response[key[r]].cred = c

LoadedInv ==
    \A r \in Requests, c \in CredIds : Upserting(r, c) =>
        /\ sess[r] # Null
        /\ IF IsLogin(r) THEN list[r][c] \in Nat /\ count[r] >= list[r][c]
           ELSE ~Known(c) /\ pc[r] # "updateCred"

Fresh == Inductive /\ KeptInv /\ FreshInv /\ LoadedInv

\* An answered FINISH keeps what it was answered with.
LEMMA FinishedStays ==
  ASSUME Inductive, [Next]_vars, NEW k \in Keys, Finished(k)
  PROVE  Finished(k)'
<1>1. PICK r \in Requests : key[r] = k /\ sess[r] # Null /\ pc[r] = "done"
  BY DEF Finished
<1>2. ~Arrive(r) /\ ~Serve(r) /\ ~Fail(r)
  BY <1>1 DEF Arrive, ArriveBegin, ArriveFinish, ArriveDelete, Serve, Fail, Take, FindUser,
     ListCreds, Save, FindCred, CreateCred, UpdateCred, LoginFind, LoginIssue, DeleteCred
<1>3. Rests(r)
  BY <1>2, OthersRest
<1> QED
  BY <1>1, <1>3 DEF Finished, Rests

\* A session made for a registration is used by one FINISH only: as long as that
\* one is under way, the session is not finished.
LEMMA StillUnderWay ==
  ASSUME Inductive, NEW r \in Requests, sess[r] # Null, pc[r] # "done"
  PROVE  ~Finished(key[r])
BY DEF Finished, Inductive, SessionsInv, SessionTakenOnce

\* A credential becomes known only when the registration that made it binds it.
LEMMA BecomesKnown ==
  ASSUME Fresh, [Next]_vars, NEW c \in CredIds, Known(c)', ~Known(c)
  PROVE  \E r \in Requests :
            /\ CreateCred(r) /\ ~IsLogin(r)
            /\ key[r] \in Keys /\ response[key[r]] \in Response
            /\ response[key[r]].cred = c
<1> USE NoNull DEF Fresh
<1>1. CASE creds'[c] # Null
  <2>1. PICK r \in Requests :
            /\ CreateCred(r)
            /\ key[r] \in Keys /\ response[key[r]] \in Response
            /\ response[key[r]].cred = c
    BY <1>1, RowsBound DEF Known
  <2>2. ~IsLogin(r)
    BY <2>1 DEF CreateCred, Known, Signed, Inductive, PhaseInv, Phase, Finishing, IsLogin, Kind
  <2> QED
    BY <2>1, <2>2
<1>2. ASSUME NEW r \in Requests, list'[r][c] # Null PROVE FALSE
  <2>1. list[r][c] = Null /\ creds[c] = Null
    BY DEF Known
  <2>2. PICK q \in Requests : ListCreds(q) /\ list' = [list EXCEPT ![q] = Load(q)]
    BY <1>2, <2>1, ListChanges
  <2>3. Load(r)[c] # Null
    BY <1>2, <2>1, <2>2 DEF Inductive, TypeOK
  <2> QED
    BY <2>1, <2>3, LoadedIsBound
<1>3. ASSUME NEW r \in Requests, c \in took'[r] PROVE FALSE
  BY <1>3, TookChanges DEF Known
<1>4. ASSUME NEW k \in Keys, Signed(k, c)' PROVE FALSE
  <2>1. response'[k] # response[k]
    BY <1>4 DEF Known, Signed
  <2>2. PICK b \in Requests, d \in CredIds : SignAssertion(b, d) \/ MakeCredential(b, d)
    BY <2>1, DeviceChanges
  <2>3. CASE SignAssertion(b, d)
    <3>1. d \in CredIds /\ list[b][d] # Null
      BY <2>3 DEF SignAssertion, Listed
    <3>2. response'[k].cred = d
      BY <2>1, <2>3 DEF SignAssertion, Inductive, TypeOK
    <3> QED
      BY <1>4, <3>1, <3>2 DEF Known, Signed
  <2>4. CASE MakeCredential(b, d)
    BY <1>4, <2>1, <2>4 DEF MakeCredential, Signed, Inductive, TypeOK
  <2> QED
    BY <2>2, <2>3, <2>4
<1> QED
  BY <1>1, <1>2, <1>3, <1>4 DEF Known

\* Once a registration has written its row it is answered.
LEMMA BoundIsFinished ==
  ASSUME Inductive, NEW r \in Requests, CreateCred(r), ~IsLogin(r), sess[r] # Null,
         NEW k \in Keys, key[r] = k
  PROVE  Finished(k)'
<1>1. pc' = [pc EXCEPT ![r] = "done"]
  BY DEF CreateCred, AfterUpsert, Answer, Goto
<1> QED
  BY <1>1 DEF Finished, CreateCred, inputs, loaded, Inductive, TypeOK

\* Nothing is known of a credential before it is made.
LEMMA MakesUnknown ==
  ASSUME Fresh, [Next]_vars, NEW k \in Keys, NEW c \in CredIds, Made(k, c)', ~Made(k, c)
  PROVE  /\ ~Known(c)' /\ owner[c] = Null /\ owner'[c] # Null
         /\ \A l \in Keys \ {k} : response'[l] = response[l]
<1> USE NoNull DEF Fresh
<1>1. response'[k] # response[k]
  BY DEF Made
<1>2. PICK b \in Requests, d \in CredIds : SignAssertion(b, d) \/ MakeCredential(b, d)
  BY <1>1, DeviceChanges
<1>3. /\ key[b] \in Keys /\ uid[b] \in UserIds
  BY <1>2 DEF SignAssertion, MakeCredential, Inductive, PhaseInv, Phase, IsBegin
<1>4. ~SignAssertion(b, d)
  BY <1>1 DEF SignAssertion, Made, Inductive, TypeOK
<1>5. MakeCredential(b, d)
  BY <1>2, <1>4
<1>6. response' = [response EXCEPT ![key[b]] = [kind |-> "create", cred |-> d, count |-> 0]]
  BY <1>5 DEF MakeCredential
<1>7. key[b] = k /\ d = c
  BY <1>1, <1>3, <1>6 DEF Made, Inductive, TypeOK
<1>8. owner[c] = Null /\ owner' = [owner EXCEPT ![c] = uid[b]]
  BY <1>5, <1>7 DEF MakeCredential
<1>9. ~Known(c)'
  <2>1. \A r \in Requests : ~CreateCred(r)
    BY <1>1 DEF CreateCred, device
  <2> QED
    BY <1>8, <2>1, BecomesKnown DEF FreshInv
<1> QED
  BY <1>3, <1>6, <1>7, <1>8, <1>9 DEF Inductive, TypeOK

LEMMA OwnersStay ==
  ASSUME Inductive, [Next]_vars, NEW c \in CredIds, owner[c] # Null
  PROVE  owner'[c] # Null
<1>1. ASSUME NEW b \in Requests, NEW d \in CredIds, MakeCredential(b, d) PROVE owner'[c] # Null
  BY <1>1 DEF MakeCredential, Inductive, TypeOK
<1>2. ASSUME NEW b \in Requests, NEW d \in CredIds, SignAssertion(b, d) PROVE owner'[c] # Null
  BY <1>2 DEF SignAssertion
<1> QED
  BY <1>1, <1>2, DeviceChanges

LEMMA FreshStep ==
  ASSUME Fresh, [Next]_vars
  PROVE  FreshInv'
<1> USE NoNull DEF Fresh
<1>1. ASSUME NEW c \in CredIds, Known(c)' PROVE owner'[c] # Null
  <2>1. CASE Known(c)
    BY <2>1, OwnersStay DEF FreshInv
  <2>2. CASE ~Known(c)
    <3>1. PICK r \in Requests :
            /\ CreateCred(r) /\ ~IsLogin(r)
            /\ key[r] \in Keys /\ response[key[r]] \in Response
            /\ response[key[r]].cred = c
      BY <1>1, <2>2, BecomesKnown
    <3>2. uid[r] \in UserIds /\ owner[c] = uid[r]
      BY <3>1 DEF CreateCred, Inductive, PhaseInv, Phase, OwnResponse
    <3> QED
      BY <3>2, OwnersStay
  <2> QED
    BY <2>1, <2>2
<1>2. ASSUME NEW k \in Keys, NEW c \in CredIds, Made(k, c), Known(c)'
      PROVE  Finished(k)'
  <2>1. CASE Known(c)
    BY <1>2, <2>1, FinishedStays DEF FreshInv
  <2>2. CASE ~Known(c)
    <3>1. PICK r \in Requests :
            /\ CreateCred(r) /\ ~IsLogin(r)
            /\ key[r] \in Keys /\ response[key[r]] \in Response
            /\ response[key[r]].cred = c
      BY <1>2, <2>2, BecomesKnown
    <3>2. Made(key[r], c) /\ sess[r] # Null
      BY <3>1 DEF CreateCred, Made, Inductive, PhaseInv, Phase, Kind, LoadedInv, Upserting
    <3>3. key[r] = k
      BY <1>2, <3>1, <3>2 DEF FreshInv
    <3> QED
      BY <3>1, <3>2, <3>3, BoundIsFinished
  <2> QED
    BY <2>1, <2>2
<1>3. ASSUME NEW k \in Keys, NEW c \in CredIds, Made(k, c)'
      PROVE  owner'[c] # Null /\ (Known(c)' => Finished(k)')
  <2>1. CASE Made(k, c)
    BY <1>2, <2>1, OwnersStay DEF FreshInv
  <2>2. CASE ~Made(k, c)
    BY <1>3, <2>2, MakesUnknown
  <2> QED
    BY <2>1, <2>2
<1>4. ASSUME NEW k \in Keys, NEW l \in Keys, NEW c \in CredIds, Made(k, c)', Made(l, c)'
      PROVE  k = l
  <2>1. CASE Made(k, c) /\ Made(l, c)
    BY <2>1 DEF FreshInv
  <2>2. CASE ~Made(k, c)
    <3>1. ~Made(l, c)
      BY <1>4, <2>2, MakesUnknown DEF FreshInv
    <3> QED
      BY <1>4, <2>2, <3>1, MakesUnknown DEF Made
  <2>3. CASE ~Made(l, c)
    <3>1. ~Made(k, c)
      BY <1>4, <2>3, MakesUnknown DEF FreshInv
    <3> QED
      BY <1>4, <2>3, <3>1, MakesUnknown DEF Made
  <2> QED
    BY <2>1, <2>2, <2>3
<1> QED
  BY <1>1, <1>3, <1>4 DEF FreshInv

\* What nobody knew stays unknown until its registration is answered.
LEMMA StaysUnknown ==
  ASSUME Fresh, [Next]_vars, NEW q \in Requests, NEW c \in CredIds,
         sess[q] # Null, Made(key[q], c), ~Known(c), pc'[q] # "done"
  PROVE  ~Known(c)'
<1> USE NoNull DEF Fresh
<1> SUFFICES ASSUME Known(c)' PROVE FALSE
  OBVIOUS
<1>1. PICK r \in Requests :
            /\ CreateCred(r) /\ ~IsLogin(r)
            /\ key[r] \in Keys /\ response[key[r]] \in Response
            /\ response[key[r]].cred = c
  BY BecomesKnown
<1>2. Made(key[r], c) /\ sess[r] # Null
  BY <1>1 DEF CreateCred, Made, Inductive, PhaseInv, Phase, Kind, LoadedInv, Upserting
<1>3. key[q] \in Keys
  BY DEF Inductive, SessionsInv
<1>4. r = q
  BY <1>1, <1>2, <1>3 DEF FreshInv, Inductive, SessionsInv, SessionTakenOnce
<1>5. pc' = [pc EXCEPT ![r] = "done"]
  BY <1>1 DEF CreateCred, AfterUpsert, Answer, Goto
<1> QED
  BY <1>4, <1>5 DEF Inductive, TypeOK

\* Upsert starts when ListCreds has loaded what the validation needs.
LEMMA UpsertStarts ==
  ASSUME Fresh, [Next]_vars, NEW q \in Requests, NEW c \in CredIds,
         ListCreds(q), Upserting(q, c)'
  PROVE  /\ sess'[q] # Null /\ pc'[q] = "findCred"
         /\ IF IsLogin(q) THEN list'[q][c] \in Nat /\ count'[q] >= list'[q][c]
            ELSE ~Known(c)'
<1> USE NoNull, OpAssumption DEF Fresh
<1> DEFINE l == Load(q)
           a == response[key[q]]
<1>1. /\ TypeOK /\ Phase(q) /\ Op[q] \in Ops /\ Op[q] # "delete" /\ pc[q] = "listCreds"
      /\ UNCHANGED <<key, response, sess>> /\ list' = [list EXCEPT ![q] = l]
      /\ uid[q] \in UserIds
  BY DEF Inductive, PhaseInv, Phase, ListCreds, device, inputs
<1>2. pc'[q] # "done" /\ pc'[q] # "save" /\ a.cred = c
  BY <1>1 DEF Upserting
<1>3. ~IsBegin(q)
  BY <1>1, <1>2 DEF ListCreds, IsBegin, Continue, Answer, Goto, TypeOK
<1>4. Finishing(q)
  BY <1>1, <1>3 DEF Ops, IsBegin, Finishing
<1>5. sess[q] # Null /\ key[q] \in Keys /\ a # Null /\ a.kind = Kind(q) /\ a \in Response
  BY <1>1, <1>4 DEF Phase, TypeOK
<1>6. list'[q] = l
  BY <1>1 DEF TypeOK
<1>7. CASE IsLogin(q)
  <2>1. Op[q] = "finishLogin"
    BY <1>3, <1>7 DEF IsLogin, IsBegin
  <2>2. ValidateLogin(q, l) /\ Continue(q, "findCred")
        /\ count' = [count EXCEPT ![q] = UpdateCounter(l[c], a.count)]
    BY <1>1, <1>2, <2>1 DEF ListCreds, Answer, Goto, TypeOK
  <2>3. l[c] \in Nat
    BY <1>1, <1>2, <2>2, LoadedCredentials DEF ValidateLogin
  <2>4. count'[q] = UpdateCounter(l[c], a.count) /\ a.count \in Nat /\ pc'[q] = "findCred"
    BY <1>1, <1>5, <2>2 DEF TypeOK, Response, Continue, Goto
  <2>5. count'[q] >= l[c]
    BY <2>3, <2>4 DEF UpdateCounter
  <2> QED
    BY <1>1, <1>5, <1>6, <1>7, <2>3, <2>4, <2>5
<1>8. CASE ~IsLogin(q)
  <2>1. Op[q] = "finishRegister"
    BY <1>4, <1>8 DEF IsLogin, Finishing
  <2>2. pc'[q] = "findCred"
    BY <1>1, <2>1 DEF ListCreds, Continue, Goto, TypeOK
  <2>3. Made(key[q], c)
    BY <1>2, <1>5, <1>8 DEF Made, Kind
  <2>4. ~Known(c)
    BY <1>1, <1>5, <2>3, StillUnderWay DEF FreshInv
  <2> QED
    BY <1>1, <1>2, <1>5, <1>8, <2>2, <2>3, <2>4, StaysUnknown
<1> QED
  BY <1>7, <1>8

LEMMA LoadedStep ==
  ASSUME Fresh, [Next]_vars
  PROVE  LoadedInv'
<1> USE NoNull, OpAssumption DEF Fresh
<1> SUFFICES ASSUME NEW q \in Requests, NEW c \in CredIds, Upserting(q, c)'
             PROVE  /\ sess'[q] # Null
                    /\ IF IsLogin(q) THEN list'[q][c] \in Nat /\ count'[q] >= list'[q][c]
                       ELSE ~Known(c)' /\ pc'[q] # "updateCred"
  BY DEF LoadedInv, IsLogin
<1>1. pc'[q] \in {"findCred", "createCred", "updateCred"}
  BY DEF Upserting
\* Whoever was at it before goes on with what it has.
<1>2. ASSUME pc[q] \in {"findCred", "createCred", "updateCred"},
             key'[q] = key[q], sess'[q] = sess[q], list'[q] = list[q], count'[q] = count[q],
             ~IsLogin(q) /\ creds[c] = Null => pc'[q] # "updateCred"
      PROVE  /\ sess'[q] # Null
             /\ IF IsLogin(q) THEN list'[q][c] \in Nat /\ count'[q] >= list'[q][c]
                ELSE ~Known(c)' /\ pc'[q] # "updateCred"
  <2>1. /\ key[q] \in Keys /\ response[key[q]] # Null /\ response[key[q]].kind = Kind(q)
        /\ Finishing(q)
    BY <1>2 DEF Inductive, PhaseInv, Phase
  <2>2. response'[key'[q]] = response[key[q]]
    BY <1>2, <2>1, ResponsesStay
  <2>3. Upserting(q, c)
    BY <1>2, <2>2 DEF Upserting
  <2>4. sess[q] # Null /\ IF IsLogin(q) THEN list[q][c] \in Nat /\ count[q] >= list[q][c]
                          ELSE ~Known(c)
    BY <2>3 DEF LoadedInv
  <2>5. ~IsLogin(q) => ~Known(c)' /\ creds[c] = Null
    <3>1. ~IsLogin(q) => Made(key[q], c) /\ ~Known(c)
      BY <2>1, <2>3, <2>4 DEF Made, Kind, Upserting
    <3> QED
      BY <1>1, <2>4, <3>1, StaysUnknown DEF Known
  <2> QED
    BY <1>2, <2>4, <2>5
<1>3. CASE Rests(q)
  <2>1. ~IsLogin(q) => pc[q] # "updateCred"
    <3>1. pc[q] \in {"findCred", "createCred", "updateCred"}
      BY <1>1, <1>3 DEF Rests
    <3>2. key[q] \in Keys /\ response[key[q]] # Null
      BY <3>1 DEF Inductive, PhaseInv, Phase
    <3>3. Upserting(q, c)
      BY <1>3, <3>1, <3>2, ResponsesStay DEF Rests, Upserting
    <3> QED
      BY <3>3 DEF LoadedInv
  <2> QED
    BY <1>1, <1>2, <1>3, <2>1 DEF Rests
<1>4. CASE FindCred(q)
  <2>1. /\ pc[q] = "findCred" /\ UNCHANGED <<key, sess, list, count, response>>
        /\ pc'[q] = UpsertStep(response[key[q]].cred)
    BY <1>4 DEF FindCred, Continue, Goto, device, inputs, loaded, Inductive, TypeOK
  <2>2. response[key[q]].cred = c
    BY <2>1 DEF Upserting
  <2> QED
    BY <1>2, <2>1, <2>2 DEF UpsertStep
<1>5. CASE ListCreds(q)
  BY <1>5, UpsertStarts
<1>6. ASSUME Arrive(q) \/ Serve(q) \/ Fail(q), ~FindCred(q), ~ListCreds(q)
      PROVE  FALSE
  <2> USE <1>1 DEF Continue, Answer, Goto, Inductive, TypeOK
  <2>1. CASE Arrive(q)
    BY <2>1 DEF Arrive, ArriveBegin, ArriveFinish, ArriveDelete
  <2>2. CASE Take(q) \/ Save(q)
    BY <2>2 DEF Take, NoSession, Save
  <2>3. CASE FindUser(q) \/ LoginFind(q) \/ LoginIssue(q)
    BY <2>3 DEF FindUser, LoginFind, LoginIssue
  <2>4. CASE CreateCred(q) \/ UpdateCred(q) \/ DeleteCred(q) \/ Fail(q)
    BY <2>4 DEF CreateCred, UpdateCred, DeleteCred, Fail, AfterUpsert
  <2> QED
    BY <1>6, <2>1, <2>2, <2>3, <2>4 DEF Serve
<1> QED
  BY <1>3, <1>4, <1>5, <1>6, OthersRest

LEMMA AlwaysFresh == Spec => []Fresh
<1>1. Init => FreshInv /\ LoadedInv /\ KeptInv
  <2> SUFFICES ASSUME Init PROVE FreshInv /\ LoadedInv /\ KeptInv
    OBVIOUS
  <2>1. \A k \in Keys, c \in CredIds : ~Made(k, c) /\ ~Signed(k, c)
    BY DEF Init, Made, Signed
  <2>2. ASSUME NEW c \in CredIds, Known(c) PROVE owner[c] # Null
    <3>1. creds[c] # Null
      BY <2>1, <2>2 DEF Init, Known, Nothing
    <3> QED
      BY <3>1, InitInductive, NoNull DEF Inductive, CredsInv, TypeOK, Row
  <2>3. \A r \in Requests, c \in CredIds : ~Upserting(r, c)
    BY DEF Init, Upserting
  <2>4. KeptInv
    BY NoNull DEF Init, KeptInv, Vouched
  <2> QED
    BY <2>1, <2>2, <2>3, <2>4 DEF FreshInv, LoadedInv
<1> QED
  BY <1>1, InitInductive, NextInductive, KeptStep, FreshStep, LoadedStep, PTL DEF Spec, Fresh

\* The stored counter only goes back when a login writes that had loaded another
\* value than the one it overwrites: one that ran alone only ever raises it, and
\* a registration never finds a row to update (webauthn_cred.go:66-91).
THEOREM CountsFallByStaleLogins == Spec => CountFallsOnlyOnStaleRead
<1> DEFINE Falls ==
      \A c \in CredIds :
          creds[c] # Null /\ creds'[c] # Null =>
            \/ creds'[c].count >= creds[c].count
            \/ \E r \in Requests : /\ pc[r] = "updateCred" /\ pc'[r] # "updateCred"
                                   /\ list[r][c] # creds[c].count
<1>1. Fresh /\ [Next]_vars => [Falls]_vars
  <2> SUFFICES ASSUME Fresh, [Next]_vars, NEW c \in CredIds,
                      creds[c] # Null, creds'[c] # Null,
                      ~(creds'[c].count >= creds[c].count)
               PROVE  \E r \in Requests : /\ pc[r] = "updateCred" /\ pc'[r] # "updateCred"
                                          /\ list[r][c] # creds[c].count
    OBVIOUS
  <2> USE DEF Fresh
  <2>1. creds[c] \in Row /\ creds[c].count \in Nat
    BY DEF Inductive, TypeOK, Row
  <2>2. PICK r \in Requests :
            /\ CreateCred(r) \/ UpdateCred(r)
            /\ key[r] \in Keys /\ response[key[r]] \in Response
            /\ response[key[r]].cred = c
    BY <2>1, RowChanges
  <2>3. UpdateCred(r)
    BY <2>1, <2>2 DEF CreateCred, tables
  <2>4. pc[r] = "updateCred" /\ pc'[r] # "updateCred"
    BY <2>3 DEF UpdateCred, AfterUpsert, Continue, Answer, Goto, Inductive, TypeOK
  <2>5. creds'[c].count = count[r]
    <3>1. creds' = [creds EXCEPT ![c] = [creds[c] EXCEPT !.count = count[r]]]
      BY <2>2, <2>3 DEF UpdateCred
    <3> QED
      BY <2>1, <3>1 DEF Inductive, TypeOK, Row
  <2>6. list[r][c] \in Nat /\ count[r] >= list[r][c]
    BY <2>2, <2>4 DEF LoadedInv, Upserting
  <2> QED
    BY <2>1, <2>4, <2>5, <2>6
<1> QED
  BY <1>1, AlwaysFresh, PTL DEF Spec, CountFallsOnlyOnStaleRead

-----------------------------------------------------------------------------
(* What comes after.                                                       *)

\* A DELETE has taken the credential, and no login that saw it is still to write.
Quiet(c) ==
    /\ \E d \in Requests : c \in took[d]
    /\ creds[c] = Null
    /\ \A r \in Requests : ~Holds(r, c)

LEMMA TookStays ==
  ASSUME Fresh, [Next]_vars, NEW d \in Requests, NEW c \in took[d]
  PROVE  c \in took'[d]
<1> USE DEF Fresh
<1>1. CASE RowsStay
  BY <1>1 DEF RowsStay
<1>2. ASSUME NEW r \in Requests, DeleteCred(r) PROVE c \in took'[d]
  BY <1>2 DEF DeleteCred, KeptInv, Inductive, TypeOK
<1> QED
  BY <1>1, <1>2, OnlyDeletes DEF Deletes

LEMMA QuietStays ==
  ASSUME Fresh, [Next]_vars, NEW c \in CredIds, Quiet(c)
  PROVE  Quiet(c)'
<1> USE NoNull DEF Fresh
<1>1. \E d \in Requests : c \in took'[d]
  BY TookStays DEF Quiet
<1>2. ASSUME creds'[c] # Null PROVE FALSE
  <2>1. PICK r \in Requests :
            /\ CreateCred(r)
            /\ key[r] \in Keys /\ response[key[r]] \in Response
            /\ response[key[r]].cred = c
    BY <1>2, RowsBound DEF Quiet
  <2>2. Upserting(r, c) /\ pc[r] = "createCred"
    BY <2>1 DEF CreateCred, Upserting
  <2>3. IsLogin(r)
    BY <2>2 DEF LoadedInv, Known, Quiet
  <2>4. list[r][c] # Null
    BY <2>2, <2>3 DEF LoadedInv
  <2> QED
    BY <2>2, <2>4 DEF Quiet, Holds
<1>3. ASSUME NEW r \in Requests, Holds(r, c)' PROVE FALSE
  <2>1. CASE list'[r] # list[r]
    <3>1. PICK q \in Requests : ListCreds(q) /\ list' = [list EXCEPT ![q] = Load(q)]
      BY <2>1, ListChanges
    <3>2. Load(r)[c] # Null
      BY <1>3, <2>1, <3>1 DEF Holds, Inductive, TypeOK
    <3> QED
      BY <3>2, LoadedIsBound DEF Quiet
  <2>2. CASE list'[r] = list[r]
    <3>1. list[r][c] # Null /\ pc[r] \notin {"findCred", "createCred", "updateCred"}
      BY <1>3, <2>2 DEF Quiet, Holds
    <3>2. pc'[r] \in {"findCred", "createCred", "updateCred"}
      BY <1>3 DEF Holds
    <3> USE <3>1, <3>2 DEF Continue, Answer, Goto, Inductive, TypeOK
    <3>3. ~Rests(r) /\ ~Arrive(r) /\ ~Fail(r)
      BY DEF Rests, Arrive, ArriveBegin, ArriveFinish, ArriveDelete, Fail
    <3>4. ~Take(r) /\ ~Save(r)
      BY DEF Take, NoSession, Save
    <3>5. ~FindUser(r) /\ ~FindCred(r) /\ ~LoginFind(r) /\ ~LoginIssue(r)
      BY DEF FindUser, FindCred, LoginFind, LoginIssue
    <3>6. ~CreateCred(r) /\ ~UpdateCred(r) /\ ~DeleteCred(r)
      BY DEF CreateCred, UpdateCred, DeleteCred
    <3>7. ListCreds(r)
      BY <3>3, <3>4, <3>5, <3>6, OthersRest DEF Serve
    <3>8. list'[r] = Load(r)
      BY <3>7 DEF ListCreds
    <3>9. Load(r)[c] # Null
      BY <2>2, <3>1, <3>8
    <3> HIDE <3>1, <3>2
    <3> QED
      BY <3>9, LoadedIsBound DEF Quiet
  <2> QED
    BY <2>1, <2>2
<1> QED
  BY <1>1, <1>2, <1>3 DEF Quiet

\* A removed credential is gone for good once no login that had loaded it before
\* is still on its way to Upsert: sessions and responses from before the removal
\* do not bring it back (passkey.go:104-143, 185-217).
THEOREM RemovalsAreFinal == Spec => RemovalFinalWhenQuiet
<1>1. ASSUME NEW c \in CredIds
      PROVE  Spec => []((\E d \in Requests : c \in took[d]) /\ creds[c] = Null
                           /\ (\A r \in Requests : ~Holds(r, c))
                        => [](creds[c] = Null))
  <2>1. (\E d \in Requests : c \in took[d]) /\ creds[c] = Null
           /\ (\A r \in Requests : ~Holds(r, c)) <=> Quiet(c)
    BY DEF Quiet
  <2>2. Fresh /\ [Next]_vars /\ Quiet(c) => Quiet(c)'
    BY QuietStays
  <2>3. Quiet(c) => creds[c] = Null
    BY DEF Quiet
  <2> QED
    BY <2>1, <2>2, <2>3, AlwaysFresh, PTL DEF Spec
<1> QED
  BY <1>1 DEF RemovalFinalWhenQuiet

\* Places from which a login still has to pass the status check of LoginFind.
BeforeGrant == {"take", "findUser", "listCreds", "findCred", "createCred", "updateCred",
                "loginFind"}

\* A login of a disabled account on the way to being refused.
Barred(r) ==
    Op[r] = "finishLogin" =>
        \/ pc[r] \in BeforeGrant
        \/ pc[r] = "done" /\ reply[r] # "OK"

LEMMA BarredStays ==
  ASSUME Inductive, [Next]_vars, NEW r \in Requests, Barred(r),
         uid[r] # Null /\ ~enabled[uid[r]]
  PROVE  Barred(r)'
<1> USE OpAssumption, NoNull
<1> SUFFICES ASSUME Op[r] = "finishLogin"
             PROVE  pc'[r] \in BeforeGrant \/ (pc'[r] = "done" /\ reply'[r] # "OK")
  BY DEF Barred
<1>1. CASE Rests(r)
  BY <1>1 DEF Rests, Barred
<1>2. CASE Arrive(r)
  BY <1>2 DEF Arrive, ArriveBegin, ArriveFinish, ArriveDelete, Barred, BeforeGrant
<1> USE DEF BeforeGrant, Continue, Answer, Goto, Inductive, TypeOK
<1>3. CASE Take(r)
  BY <1>3 DEF Take, NoSession
<1>4. CASE FindUser(r)
  BY <1>4 DEF FindUser, Refused, IsBegin
<1>5. CASE ListCreds(r)
  BY <1>5 DEF ListCreds
<1>6. CASE FindCred(r)
  BY <1>6 DEF FindCred, UpsertStep
<1>7. CASE CreateCred(r) \/ UpdateCred(r)
  BY <1>7 DEF CreateCred, UpdateCred, AfterUpsert, IsLogin
<1>8. CASE LoginFind(r)
  BY <1>8 DEF LoginFind, MayLogin
<1>9. ~Save(r) /\ ~LoginIssue(r) /\ ~DeleteCred(r)
  BY DEF Save, LoginIssue, DeleteCred, Barred, PhaseInv, Phase, IsBegin
<1>10. CASE Fail(r)
  BY <1>10 DEF Fail, Broken
<1> QED
  BY <1>1, <1>2, <1>3, <1>4, <1>5, <1>6, <1>7, <1>8, <1>9, <1>10, OthersRest DEF Serve

\* A login whose account is disabled before the last status check, and stays so,
\* gets no token, whatever the ceremony has written by then (auth.go:102-104).
THEOREM DisabledAreRefused == Spec => DisabledGetsNoToken
<1>1. ASSUME NEW r \in Requests
      PROVE  Spec =>
        []( /\ pc[r] \in {"take", "findUser", "listCreds", "findCred", "createCred",
                          "updateCred", "loginFind"}
            /\ uid[r] # Null
            /\ [](uid[r] # Null /\ ~enabled[uid[r]])
            => []~Token(r))
  <2>1. pc[r] \in {"take", "findUser", "listCreds", "findCred", "createCred",
                   "updateCred", "loginFind"} => Barred(r)
    BY DEF Barred, BeforeGrant
  <2>2. Inductive /\ [Next]_vars /\ Barred(r) /\ (uid[r] # Null /\ ~enabled[uid[r]])
          => Barred(r)'
    BY BarredStays
  <2>3. Inductive /\ Barred(r) => ~Token(r)
    BY NoNull DEF Barred, BeforeGrant, Token, Inductive, PhaseInv, Phase, Replies
  <2> QED
    BY <2>1, <2>2, <2>3, AlwaysInductive, PTL DEF Spec
<1> QED
  BY <1>1 DEF DisabledGetsNoToken

=============================================================================
