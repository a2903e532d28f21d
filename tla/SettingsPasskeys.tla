-------------------------- MODULE SettingsPasskeys --------------------------
(* The passkeys of pages/SettingsPage.tsx.  SWR keeps the list: an answer   *)
(* that a newer request has overtaken is dropped, and a request that fails  *)
(* is tried again.  A call that throws is caught, and a finally ends the    *)
(* flag of its button.                                                      *)
EXTENDS WebPage

CONSTANTS Keys   \* passkeys the account has or may get

\* Null is no passkey, no list of passkeys and no call.
ASSUME KeyAssumption ==
    /\ Null \notin Keys
    /\ \A some \in SUBSET Keys : some # Null
    /\ \A call \in [key : Keys \cup {Null}] \cup [key : Keys, done : BOOLEAN] : call # Null
    /\ \A answer \in [got : (SUBSET Keys) \cup {Null}] : answer # Null

VARIABLES
    keys,               \* the passkeys the server has
    keyList,            \* the list shown
    keysAsked,          \* the latest request for it: what it got, Null before that
    passkeyBusy,        \* a passkey is being added
    passkeyDeletingId,  \* the passkey being removed
    adding,             \* the registration that is out: the key, once it is stored
    deleting,           \* the removal that is out: the key, and whether it is done
    keyListStale        \* history: a change whose answer was lost has not been
                        \* asked for since

keyVars ==
    <<keys, keyList, keysAsked, passkeyBusy, passkeyDeletingId, adding, deleting, keyListStale>>

KeyClick == Click("settings")
KeyBackground == screen = "settings" /\ UNCHANGED <<screen, clicks, rejected>>
Asked == [got |-> Null]

KeysMount ==
    /\ keys \in SUBSET Keys
    /\ keyList = Null
    /\ keysAsked = Asked
    /\ passkeyBusy = FALSE /\ passkeyDeletingId = Null
    /\ adding = Null /\ deleting = Null
    /\ keyListStale = FALSE

\* The removal: the button of a row, while none is being removed.
removePasskey(k) ==
    /\ KeyClick
    /\ keyList # Null /\ k \in keyList
    /\ passkeyDeletingId = Null
    /\ passkeyDeletingId' = k
    /\ deleting' = [key |-> k, done |-> FALSE]
    /\ UNCHANGED <<keys, keyList, keysAsked, passkeyBusy, adding, keyListStale>>

\* DELETE /auth/passkey/credentials/:id is handled.
removed ==
    /\ KeyBackground
    /\ deleting # Null /\ ~deleting.done /\ deleting.key \in keys
    /\ keys' = keys \ {deleting.key}
    /\ deleting' = [deleting EXCEPT !.done = TRUE]
    /\ UNCHANGED <<keyList, keysAsked, passkeyBusy, passkeyDeletingId, adding, keyListStale>>

\* The handler after deletePasskeyCredential: only after a success is the list
\* asked for again.
removalEnds(ok) ==
    /\ KeyBackground
    /\ deleting # Null
    /\ ok => deleting.done
    /\ deleting' = Null
    /\ passkeyDeletingId' = Null
    /\ keysAsked' = IF ok THEN Asked ELSE keysAsked
    /\ keyListStale' = (~ok /\ (keyListStale \/ deleting.done))
    /\ UNCHANGED <<keys, keyList, passkeyBusy, adding>>

\* The button below the list; it is disabled while a passkey is being removed.
addPasskey ==
    /\ KeyClick
    /\ ~passkeyBusy /\ passkeyDeletingId = Null
    /\ passkeyBusy' = TRUE
    /\ adding' = [key |-> Null]
    /\ UNCHANGED <<keys, keyList, keysAsked, passkeyDeletingId, deleting, keyListStale>>

\* POST /auth/passkey/register/finish is handled.
added(k) ==
    /\ KeyBackground
    /\ adding # Null /\ adding.key = Null
    /\ k \notin keys
    /\ keys' = keys \cup {k}
    /\ adding' = [key |-> k]
    /\ UNCHANGED <<keyList, keysAsked, passkeyBusy, passkeyDeletingId, deleting, keyListStale>>

\* The handler after registerPasskey.
additionEnds(ok) ==
    /\ KeyBackground
    /\ adding # Null
    /\ ok => adding.key # Null
    /\ adding' = Null
    /\ passkeyBusy' = FALSE
    /\ keysAsked' = IF ok THEN Asked ELSE keysAsked
    /\ keyListStale' = (~ok /\ (keyListStale \/ adding.key # Null))
    /\ UNCHANGED <<keys, keyList, passkeyDeletingId, deleting>>

\* fetchPasskeyCredentials is handled; its answer comes.
listPasskeys ==
    /\ KeyBackground
    /\ keysAsked = Asked
    /\ keysAsked' = [got |-> keys]
    /\ UNCHANGED <<keys, keyList, passkeyBusy, passkeyDeletingId, adding, deleting, keyListStale>>
keyListArrives ==
    /\ KeyBackground
    /\ keysAsked # Null /\ keysAsked # Asked
    /\ keyList' = keysAsked.got
    /\ keysAsked' = Null
    /\ UNCHANGED <<keys, passkeyBusy, passkeyDeletingId, adding, deleting, keyListStale>>

\* The tab gets the focus: the list is asked for anew, unless a request is out.
revalidateOnFocus ==
    /\ KeyClick
    /\ keysAsked = Null
    /\ keysAsked' = Asked
    /\ keyListStale' = FALSE
    /\ UNCHANGED <<keys, keyList, passkeyBusy, passkeyDeletingId, adding, deleting>>

SettingsPasskeysNext ==
    \/ \E k \in Keys : removePasskey(k) \/ added(k)
    \/ \E ok \in BOOLEAN : removalEnds(ok) \/ additionEnds(ok)
    \/ removed \/ addPasskey \/ listPasskeys \/ keyListArrives \/ revalidateOnFocus

\* The list shows the passkeys the account has when nothing is under way: it is
\* asked for again after every change, unless the answer to the change was lost.
PasskeysShown ==
    keysAsked = Null /\ adding = Null /\ deleting = Null /\ ~keyListStale => keyList = keys

\* A button of the passkeys is disabled only while a call of it is out, also
\* after one that has thrown.
PasskeysWait ==
    /\ passkeyBusy => adding # Null
    /\ passkeyDeletingId # Null => deleting # Null
=============================================================================
