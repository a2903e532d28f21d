------------------------------ MODULE Passkey ------------------------------
(***************************************************************************)
(* Passkeys: the two-request WebAuthn ceremonies that bind a credential to *)
(* an account and log in with it (internal/service/passkey.go), the        *)
(* one-shot sessions between the two requests (passkey_session.go, Redis)  *)
(* and the webauthn_credentials table (repository/webauthn_cred.go).       *)
(*                                                                         *)
(* A step is one call to MySQL or Redis of one request.  Between BEGIN and *)
(* FINISH the browser asks an authenticator for a response; the browser    *)
(* sends each response with the session key it was made for, but may send  *)
(* it more than once, and after an account switch in another tab under     *)
(* another user's token.                                                   *)
(***************************************************************************)
EXTENDS Naturals, FiniteSets

CONSTANTS
    Requests,    \* the requests being served; each is answered once
    Op,          \* what each of them asks for
    UserIds,     \* accounts; none is ever deleted
    CredIds,     \* credential ids authenticators may come up with
    Keys,        \* session ids uuid.NewString() may return
    Null, Gone, \* an absent row or value; a session that was used or expired
    SeedCreds    \* credentials bound at the start: a function to their rows

Ops == {"beginLogin", "finishLogin", "beginRegister", "finishRegister", "delete"}

ASSUME OpAssumption == Op \in [Requests -> Ops]

VARIABLES
    enabled,     \* users.status = 1
    creds,       \* webauthn_credentials by credential_id: a row, or Null
    nextRow,     \* its AUTO_INCREMENT
    sessions,    \* Redis, by session key: Null before Save, Gone after
    owner,       \* whose authenticator holds a credential, Null if none does
    counter,     \* the signature counter in the authenticator
    response,    \* by session key: what the authenticator answered, or Null
    pc,          \* the call each request makes next
    uid,         \* the user it works for
    key,         \* its session key: sent by FINISH, returned by BEGIN
    row,         \* the table id DELETE names
    sess,        \* the session it has taken
    list,        \* the credentials it has loaded: credential id -> sign count
    count,       \* the sign count of the credential it has validated
    reply,       \* the answer: Null until the handler returns
    took         \* history: the credentials whose rows its DELETE has taken

tables == <<creds, nextRow>>
device == <<owner, counter, response>>
inputs == <<uid, key, row>>
loaded == <<sess, list, count>>
vars   == <<enabled, creds, nextRow, sessions, owner, counter, response, pc, uid,
            key, row, sess, list, count, reply, took>>

Row == [user : UserIds, count : Nat, row : Nat]
Session == [user : UserIds, allowed : SUBSET CredIds]
Response == [kind : {"get", "create"}, cred : CredIds, count : Nat]
Replies == {"OK", "Unauthorized", "BadRequest", "NotFound", "InternalError"}

ASSUME NullAssumption ==
    /\ Null \notin UserIds /\ Null \notin Keys /\ Null \notin Nat
    /\ Null \notin Row /\ Null \notin Session /\ Null \notin Response
    /\ Gone \notin Session /\ Null # Gone /\ Null \notin Replies

ASSUME SeedAssumption ==
    /\ DOMAIN SeedCreds \subseteq CredIds
    /\ SeedCreds \in [DOMAIN SeedCreds -> Row]
    /\ IsFiniteSet(DOMAIN SeedCreds)
    /\ \A c, d \in DOMAIN SeedCreds :
          /\ SeedCreds[c].row \in 1..Cardinality(DOMAIN SeedCreds)
          /\ SeedCreds[c].row = SeedCreds[d].row => c = d

Steps == {"idle", "findUser", "listCreds", "save", "take", "findCred", "createCred",
          "updateCred", "loginFind", "loginIssue", "deleteCred", "done"}

TypeOK ==
    /\ enabled \in [UserIds -> BOOLEAN]
    /\ creds \in [CredIds -> Row \cup {Null}]
    /\ nextRow \in Nat
    /\ sessions \in [Keys -> Session \cup {Null, Gone}]
    /\ owner \in [CredIds -> UserIds \cup {Null}]
    /\ counter \in [CredIds -> Nat]
    /\ response \in [Keys -> Response \cup {Null}]
    /\ pc \in [Requests -> Steps]
    /\ uid \in [Requests -> UserIds \cup {Null}]
    /\ key \in [Requests -> Keys \cup {Null}]
    /\ row \in [Requests -> Nat \cup {Null}]
    /\ sess \in [Requests -> Session \cup {Null}]
    /\ list \in [Requests -> [CredIds -> Nat \cup {Null}]]
    /\ count \in [Requests -> Nat]
    /\ reply \in [Requests -> Replies \cup {Null}]
    /\ took \in [Requests -> SUBSET CredIds]

Nothing == [c \in CredIds |-> Null]

Init ==
    /\ enabled = [u \in UserIds |-> TRUE]
    /\ creds = [c \in CredIds |->
                  IF c \in DOMAIN SeedCreds THEN SeedCreds[c] ELSE Null]
    /\ nextRow = Cardinality(DOMAIN SeedCreds) + 1
    /\ sessions = [k \in Keys |-> Null]
    /\ owner = [c \in CredIds |->
                  IF c \in DOMAIN SeedCreds THEN SeedCreds[c].user ELSE Null]
    /\ counter = [c \in CredIds |->
                  IF c \in DOMAIN SeedCreds THEN SeedCreds[c].count ELSE 0]
    /\ response = [k \in Keys |-> Null]
    /\ pc = [r \in Requests |-> "idle"]
    /\ uid = [r \in Requests |-> Null]
    /\ key = [r \in Requests |-> Null]
    /\ row = [r \in Requests |-> Null]
    /\ sess = [r \in Requests |-> Null]
    /\ list = [r \in Requests |-> Nothing]
    /\ count = [r \in Requests |-> 0]
    /\ reply = [r \in Requests |-> Null]
    /\ took = [r \in Requests |-> {}]

-----------------------------------------------------------------------------
Goto(r, step) == pc' = [pc EXCEPT ![r] = step]
Continue(r, step) == Goto(r, step) /\ UNCHANGED reply
Answer(r, a) == Goto(r, "done") /\ reply' = [reply EXCEPT ![r] = a]

IsLogin(r) == Op[r] \in {"beginLogin", "finishLogin"}
IsBegin(r) == Op[r] \in {"beginLogin", "beginRegister"}

\* What the handlers make of an error of the service: BEGIN tells a refused
\* login apart, FINISH hides every reason behind one answer.
Refused(r) == IF Op[r] = "beginLogin" THEN "Unauthorized"
              ELSE IF IsBegin(r) THEN "InternalError" ELSE "BadRequest"
Broken(r)  == IF Op[r] \in {"finishLogin", "finishRegister"} THEN "BadRequest"
              ELSE "InternalError"

\* WHERE user_id = ?
EveryCredential(u) == [c \in CredIds |->                       \* wrong variant
    IF creds[c] = Null THEN Null ELSE creds[c].count]
CredentialsOf(u) == [c \in CredIds |->
    IF creds[c] = Null THEN Null
    ELSE IF creds[c].user = u THEN creds[c].count ELSE Null]

Listed(l) == {c \in CredIds : l[c] # Null}

-----------------------------------------------------------------------------
(* Requests arrive.                                                        *)

ArriveBegin(r, u) ==
    /\ pc[r] = "idle" /\ IsBegin(r)
    /\ uid' = [uid EXCEPT ![r] = u]
    /\ Goto(r, "findUser")
    /\ UNCHANGED <<enabled, tables, sessions, device, key, row, loaded, reply, took>>

\* FINISH carries a response the authenticator has given for the session.  A
\* registration is finished by whoever is logged in by then.
ArriveFinish(r, u, k) ==
    /\ pc[r] = "idle" /\ Op[r] \in {"finishLogin", "finishRegister"}
    /\ response[k] # Null
    /\ response[k].kind = IF IsLogin(r) THEN "get" ELSE "create"
    /\ key' = [key EXCEPT ![r] = k]
    /\ uid' = [uid EXCEPT ![r] = IF IsLogin(r) THEN Null ELSE u]
    /\ Goto(r, "take")
    /\ UNCHANGED <<enabled, tables, sessions, device, row, loaded, reply, took>>

\* DELETE names a table id, which some earlier listing showed.
ArriveDelete(r, u, id) ==
    /\ pc[r] = "idle" /\ Op[r] = "delete"
    /\ uid' = [uid EXCEPT ![r] = u]
    /\ row' = [row EXCEPT ![r] = id]
    /\ Goto(r, "deleteCred")
    /\ UNCHANGED <<enabled, tables, sessions, device, key, loaded, reply, took>>

(* Calls of the ceremonies, in the order they are made.                    *)

\* PasskeySessionStore.Take is GETDEL: of two requests with the same key one
\* gets the session, however close they are.
Remains(k) == UNCHANGED sessions                               \* wrong variant
Consume(k) == sessions' = [sessions EXCEPT ![k] = Gone]

NoSession(r) == Answer(r, "BadRequest")

\* FinishRegistration refuses another user's session, which is used up by then.
AnySession(r, s) == TRUE                                       \* wrong variant
SameUser(r, s) == IsLogin(r) \/ s.user = uid[r]

Take(r) ==
    /\ pc[r] = "take"
    /\ LET s == sessions[key[r]] IN
        IF s = Gone
          THEN NoSession(r) /\ UNCHANGED <<sessions, sess, uid>>
          ELSE /\ Consume(key[r])
               /\ sess' = [sess EXCEPT ![r] = s]
               /\ uid' = [uid EXCEPT ![r] = IF IsLogin(r) THEN s.user ELSE uid[r]]
               /\ \/ IF SameUser(r, s)
                       THEN Continue(r, "findUser")
                       ELSE Answer(r, "BadRequest")
                  \/ Answer(r, "BadRequest")             \* answer lost
    /\ UNCHANGED <<enabled, tables, device, key, row, list, count, took>>

\* FindByUsername or FindByID, with the status check all but FinishRegistration
\* make.
FindUser(r) ==
    /\ pc[r] = "findUser"
    /\ IF enabled[uid[r]] \/ Op[r] = "finishRegister"
         THEN Continue(r, "listCreds")
         ELSE Answer(r, Refused(r))
    /\ UNCHANGED <<enabled, tables, sessions, device, inputs, loaded, took>>

\* go-webauthn: the session's credentials must all still be the user's, and
\* the response must come from one of them ...
ValidateLogin(r, l) ==
    /\ sess[r].allowed \subseteq Listed(l)
    /\ response[key[r]].cred \in sess[r].allowed

\* ... a counter that has not moved on only raises a warning nobody reads.
RawCount(old, new) == new                                      \* wrong variant
UpdateCounter(old, new) == IF new <= old THEN old ELSE new

LoadedAtBegin(r) == [c \in CredIds |->                         \* wrong variant
    IF Op[r] = "finishLogin" /\ c \in sess[r].allowed THEN 0
    ELSE CredentialsOf(uid[r])[c]]
Load(r) == CredentialsOf(uid[r])

\* ListCredentials, and the library call that follows it.
ListCreds(r) ==
    /\ pc[r] = "listCreds"
    /\ LET l == Load(r)
           c == response[key[r]] IN
        /\ list' = [list EXCEPT ![r] = l]
        /\ CASE Op[r] = "beginLogin" ->
                  IF Listed(l) = {} THEN Answer(r, "Unauthorized") /\ UNCHANGED count
                  ELSE Continue(r, "save") /\ UNCHANGED count
             [] Op[r] = "beginRegister" -> Continue(r, "save") /\ UNCHANGED count
             [] Op[r] = "finishLogin" ->
                  IF ValidateLogin(r, l)
                    THEN /\ count' = [count EXCEPT ![r] =
                                UpdateCounter(l[c.cred], c.count)]
                         /\ Continue(r, "findCred")
                    ELSE Answer(r, "BadRequest") /\ UNCHANGED count
             [] Op[r] = "finishRegister" ->
                  /\ count' = [count EXCEPT ![r] = c.count]
                  /\ Continue(r, "findCred")
    /\ UNCHANGED <<enabled, tables, sessions, device, inputs, sess, took>>

\* PasskeySessionStore.Save: a fresh id, kept for webauthnSessionTTL.
Save(r) ==
    /\ pc[r] = "save"
    /\ \E k \in Keys :
        /\ sessions[k] = Null
        /\ sessions' = [sessions EXCEPT ![k] =
              [user |-> uid[r],
               allowed |-> IF IsLogin(r) THEN Listed(list[r]) ELSE {}]]
        /\ \/ Answer(r, "OK") /\ key' = [key EXCEPT ![r] = k]
           \/ Answer(r, "InternalError") /\ UNCHANGED key  \* answer lost
    /\ UNCHANGED <<enabled, tables, device, uid, row, loaded, took>>

\* Upsert looks for the credential id, whoever owns it ...
UpdateOnly(c) == "updateCred"                                  \* wrong variant
UpsertStep(c) == IF creds[c] = Null THEN "createCred" ELSE "updateCred"

FindCred(r) ==
    /\ pc[r] = "findCred"
    /\ Continue(r, UpsertStep(response[key[r]].cred))
    /\ UNCHANGED <<enabled, tables, sessions, device, inputs, loaded, took>>

AfterUpsert(r) ==
    \/ IF IsLogin(r) THEN Continue(r, "loginFind") ELSE Answer(r, "OK")
    \/ Answer(r, "BadRequest")                           \* answer lost

\* ... and inserts a row if it found none, which uk_webauthn_credential_id
\* refuses when another request has done so since ...
CreateCred(r) ==
    /\ pc[r] = "createCred"
    /\ LET c == response[key[r]].cred IN
        IF creds[c] = Null
          THEN /\ creds' = [creds EXCEPT ![c] =
                      [user |-> uid[r], count |-> count[r], row |-> nextRow]]
               /\ nextRow' = nextRow + 1
               /\ AfterUpsert(r)
          ELSE Answer(r, "BadRequest") /\ UNCHANGED tables
    /\ UNCHANGED <<enabled, sessions, device, inputs, loaded, took>>

\* ... or updates the row it found; if that row is gone no row is updated,
\* which is no error.  The user_id stays.
UpdateCred(r) ==
    /\ pc[r] = "updateCred"
    /\ LET c == response[key[r]].cred IN
        creds' = IF creds[c] = Null THEN creds
                 ELSE [creds EXCEPT ![c].count = count[r]]
    /\ AfterUpsert(r)
    /\ UNCHANGED <<enabled, nextRow, sessions, device, inputs, loaded, took>>

\* LoginWithVerifiedUser: FindByID with the status check once more ...
StatusForgotten(r) == TRUE                                     \* wrong variant
MayLogin(r) == enabled[uid[r]]

LoginFind(r) ==
    /\ pc[r] = "loginFind"
    /\ IF MayLogin(r) THEN Continue(r, "loginIssue") ELSE Answer(r, "BadRequest")
    /\ UNCHANGED <<enabled, tables, sessions, device, inputs, loaded, took>>

\* ... then roles and permissions are read and the token is signed.
LoginIssue(r) ==
    /\ pc[r] = "loginIssue"
    /\ Answer(r, "OK")
    /\ UNCHANGED <<enabled, tables, sessions, device, inputs, loaded, took>>

\* DELETE ... WHERE user_id = ? AND id = ?
AnyOwner(r) == {c \in CredIds :                                \* wrong variant
    IF creds[c] = Null THEN FALSE ELSE creds[c].row = row[r]}
AnyRow(r) == {c \in CredIds :                                  \* wrong variant
    IF creds[c] = Null THEN FALSE ELSE creds[c].user = uid[r]}
Matching(r) == {c \in CredIds :
    IF creds[c] = Null THEN FALSE
    ELSE creds[c].row = row[r] /\ creds[c].user = uid[r]}

DeleteCred(r) ==
    /\ pc[r] = "deleteCred"
    /\ creds' = [c \in CredIds |-> IF c \in Matching(r) THEN Null ELSE creds[c]]
    /\ took' = [took EXCEPT ![r] = Matching(r)]
    /\ IF Matching(r) = {}
         THEN Answer(r, "NotFound")
         ELSE Answer(r, "OK") \/ Answer(r, "InternalError")  \* answer lost
    /\ UNCHANGED <<enabled, nextRow, sessions, device, inputs, loaded>>

\* A call fails without effect.
Fail(r) ==
    /\ pc[r] \notin {"idle", "done"}
    /\ Answer(r, Broken(r))
    /\ UNCHANGED <<enabled, tables, sessions, device, inputs, loaded, took>>

-----------------------------------------------------------------------------
(* The world around.                                                       *)

\* SET with an expiry of webauthnSessionTTL.
Expire(k) ==
    /\ sessions[k] \notin {Null, Gone}
    /\ sessions' = [sessions EXCEPT ![k] = Gone]
    /\ UNCHANGED <<enabled, tables, device, inputs, pc, loaded, reply, took>>

\* The browser of a BEGIN that got its options asks the authenticator once: an
\* assertion by one of the credentials it was offered, whoever's that is ...
SignAssertion(b, c) ==
    /\ Op[b] = "beginLogin" /\ reply[b] = "OK" /\ response[key[b]] = Null
    /\ c \in Listed(list[b])
    /\ counter' = [counter EXCEPT ![c] = @ + 1]
    /\ response' = [response EXCEPT ![key[b]] =
                      [kind |-> "get", cred |-> c, count |-> counter[c] + 1]]
    /\ UNCHANGED <<enabled, tables, sessions, owner, inputs, pc, loaded, reply, took>>

\* ... or a credential that did not exist before.
MakeCredential(b, c) ==
    /\ Op[b] = "beginRegister" /\ reply[b] = "OK" /\ response[key[b]] = Null
    /\ owner[c] = Null
    /\ owner' = [owner EXCEPT ![c] = uid[b]]
    /\ response' = [response EXCEPT ![key[b]] =
                      [kind |-> "create", cred |-> c, count |-> 0]]
    /\ UNCHANGED <<enabled, tables, sessions, counter, inputs, pc, loaded, reply, took>>

\* An administrator disables or enables an account (SystemUsers.tla).
SetStatus(u) ==
    /\ enabled' = [enabled EXCEPT ![u] = ~@]
    /\ UNCHANGED <<tables, sessions, device, inputs, pc, loaded, reply, took>>

-----------------------------------------------------------------------------
Arrive(r) ==
    \E u \in UserIds :
        \/ ArriveBegin(r, u)
        \/ \E k \in Keys : ArriveFinish(r, u, k)
        \/ \E id \in 1..(nextRow - 1) : ArriveDelete(r, u, id)

Serve(r) ==
    \/ Take(r) \/ FindUser(r) \/ ListCreds(r) \/ Save(r) \/ FindCred(r)
    \/ CreateCred(r) \/ UpdateCred(r) \/ LoginFind(r) \/ LoginIssue(r)
    \/ DeleteCred(r)

Environment ==
    \/ \E k \in Keys : Expire(k)
    \/ \E b \in Requests, c \in CredIds : SignAssertion(b, c) \/ MakeCredential(b, c)
    \/ \E u \in UserIds : SetStatus(u)

Next == Environment \/ \E r \in Requests : Arrive(r) \/ Serve(r) \/ Fail(r)

Spec == Init /\ [][Next]_vars

-----------------------------------------------------------------------------
(* Properties.                                                             *)

Token(r) == Op[r] = "finishLogin" /\ reply[r] = "OK"

\* Take (passkey_session.go:49-72) hands a session to one request only, however
\* often and however closely a FINISH is sent: no response is accepted twice.
SessionTakenOnce ==
    \A r, q \in Requests :
        sess[r] # Null /\ sess[q] # Null /\ key[r] = key[q] => r = q

\* Whatever users, sessions and responses get mixed up on the way, a row names
\* the user whose authenticator holds the credential, and a token is given for
\* a response of that user's own authenticator.
OwnersOnly ==
    /\ \A c \in CredIds : creds[c] # Null => creds[c].user = owner[c]
    /\ \A r \in Requests : Token(r) => uid[r] = owner[response[key[r]].cred]

\* A registration answered 200 stays bound until a DELETE removes it: no race of
\* logins, registrations and deletes of other rows loses it (passkey.go:185-217).
RegisteredUnlessRemoved ==
    \A r \in Requests :
        Op[r] = "finishRegister" /\ reply[r] = "OK" =>
            LET c == response[key[r]].cred IN
            creds[c] # Null \/ \E d \in Requests : c \in took[d]

\* Only a DELETE by the owner takes a row away, and only one row at a time
\* (webauthn_cred.go:36-47).
RemovedByOwner ==
    [][\A c, d \in CredIds :
          creds[c] # Null /\ creds'[c] = Null =>
            /\ \E r \in Requests : /\ pc[r] = "deleteCred" /\ pc'[r] = "done"
                                   /\ uid[r] = owner[c]
            /\ c # d => creds'[d] = creds[d]]_vars

\* The stored counter goes back only when a login that had loaded an older value
\* writes after a newer one (webauthn_cred.go:66-91 writes what it is given): a
\* late response of a login that ran alone never lowers it.
CountFallsOnlyOnStaleRead ==
    [][\A c \in CredIds :
          creds[c] # Null /\ creds'[c] # Null =>
            \/ creds'[c].count >= creds[c].count
            \/ \E r \in Requests : /\ pc[r] = "updateCred" /\ pc'[r] # "updateCred"
                                   /\ list[r][c] # creds[c].count]_vars

\* An account that is disabled when the login is about to be granted, and stays
\* so, gets no token: the status is read again after the ceremony's own writes
\* (auth.go:102-104).
DisabledGetsNoToken ==
    \A r \in Requests :
        []( /\ pc[r] \in {"take", "findUser", "listCreds", "findCred", "createCred",
                          "updateCred", "loginFind"}
            /\ uid[r] # Null
            /\ [](uid[r] # Null /\ ~enabled[uid[r]])
            => []~Token(r))

\* Once no login that loaded it before is under way, a removed credential is
\* gone for good: no session from before the removal brings it back.
Holds(r, c) ==
    list[r][c] # Null /\ pc[r] \in {"findCred", "createCred", "updateCred"}
RemovalFinalWhenQuiet ==
    \A c \in CredIds :
        []((\E d \in Requests : c \in took[d]) /\ creds[c] = Null /\ (\A r \in Requests : ~Holds(r, c))
             => [](creds[c] = Null))

\* The page that removes a passkey promises that the device cannot log in before
\* it is bound again (SettingsPage.tsx:486): a removed credential stays removed.
RemovedStaysRemoved ==
    \A d \in Requests : reply[d] = "OK" => \A c \in took[d] : creds[c] = Null

=============================================================================
