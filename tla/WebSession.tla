---------------------------- MODULE WebSession ----------------------------
(* The session of the web console in the tabs of one browser.               *)
(*                                                                          *)
(* AuthProvider keeps the token twice: in localStorage, which every request *)
(* reads, and in the state of the tab, which the routes read.  No listener  *)
(* tells a tab that another one has changed localStorage.  A call is sent,  *)
(* and settles in the tab later; in between anything else may happen in any *)
(* tab.  How a sign-in is obtained is the matter of LoginPage and Passkey.  *)
EXTENDS Naturals, FiniteSets

CONSTANTS
    Tabs,       \* tabs of one browser
    Accounts,   \* enabled accounts
    Tokens,     \* identities of the JWTs in circulation
    Owner,      \* the account each of them is for
    Null,
    Denied,     \* the answer 401, or the code 40101
    MaxFaults   \* bound on expiries and on calls that fail

ASSUME OwnerAssumption == Owner \in [Tokens -> Accounts]
ASSUME NullAssumption == Null \notin Tokens \cup Accounts
ASSUME DeniedAssumption == Denied \notin Accounts \cup {Null}
ASSUME FaultsAssumption == MaxFaults \in Nat

VARIABLES
    stored,     \* localStorage: the token all requests of the browser carry
    tab,        \* AuthProvider's state in each tab
    login,      \* the account each tab is signing in, while the call is out
    me,         \* the profile call of each tab that has not settled
    expired,    \* the tokens the server no longer accepts
    faults,
    unheard,    \* history: tabs in which the token was changed by another tab
                \* since they were loaded or have last written it
    overtaken   \* history: tabs whose user was set before another tab changed the
                \* token, or by an answer about a token no longer stored

vars == <<stored, tab, login, me, expired, faults, unheard, overtaken>>

\* A profile call: the token it carries, and what the server has answered.
Profile == [of : Tokens, answered : BOOLEAN, ans : Accounts \cup {Null, Denied}]
Ask(token) ==
    IF token = Null THEN Null ELSE [of |-> token, answered |-> FALSE, ans |-> Null]

TypeOK ==
    /\ stored \in Tokens \cup {Null}
    /\ tab \in [Tabs -> [token : Tokens \cup {Null}, user : Accounts \cup {Null}, boot : BOOLEAN]]
    /\ login \in [Tabs -> Accounts \cup {Null}]
    /\ me \in [Tabs -> Profile \cup {Null}]
    /\ expired \subseteq Tokens
    /\ faults \in 0..MaxFaults
    /\ unheard \subseteq Tabs
    /\ overtaken \subseteq Tabs

\* What the routes show: a spinner, the login page, or the pages.
BootGate(t) == tab[t].boot
LoginShown(t) == ~BootGate(t) /\ tab[t].token = Null
PagesShown(t) == ~BootGate(t) /\ tab[t].token # Null

\* AuthProvider's state when it mounts; the boot effect asks for the profile.
Mounted(token) == [token |-> token, user |-> Null, boot |-> token # Null]

Init ==
    /\ stored \in Tokens \cup {Null}
    /\ expired \in SUBSET (Tokens \cap {stored})
    /\ tab = [t \in Tabs |-> Mounted(stored)]
    /\ login = [t \in Tabs |-> Null]
    /\ me = [t \in Tabs |-> Ask(stored)]
    /\ faults = 0
    /\ unheard = {}
    /\ overtaken = {}

\* A token is new when no tab and no call holds it.
HeldTokens ==
    {stored} \cup {tab[t].token : t \in Tabs}
        \cup {me[t].of : t \in {u \in Tabs : me[u] # Null}}

\* No other tab learns of it.
setStoredToken(t, token) ==
    /\ stored' = token
    /\ unheard' = (IF token = stored THEN unheard ELSE Tabs) \ {t}
    /\ overtaken' = (IF token = stored THEN overtaken ELSE Tabs) \ {t}

-----------------------------------------------------------------------------
\* The tab is opened or reloaded: its state comes from localStorage, the
\* calls of the old document are forgotten, the profile is asked for.
OpenTab(t) ==
    /\ tab' = [tab EXCEPT ![t] = Mounted(stored)]
    /\ login' = [login EXCEPT ![t] = Null]
    /\ me' = [me EXCEPT ![t] = Ask(stored)]
    /\ unheard' = unheard \ {t} /\ overtaken' = overtaken \ {t}
    /\ UNCHANGED <<stored, expired, faults>>

\* Wrong variants of logout: one copy of the token stays, or the user does.
LogoutOfTab(t) ==
    /\ unheard' = unheard \ {t} /\ overtaken' = overtaken \ {t}
    /\ UNCHANGED stored
    /\ tab' = [tab EXCEPT ![t] = [token |-> Null, user |-> Null, boot |-> FALSE]]
LogoutKeepsUser(t) ==
    /\ setStoredToken(t, Null)
    /\ tab' = [tab EXCEPT ![t] = [token |-> Null, user |-> tab[t].user, boot |-> FALSE]]

\* logout: both copies of the token go, and the user.
logout(t) ==
    /\ setStoredToken(t, Null)
    /\ tab' = [tab EXCEPT ![t] = [token |-> Null, user |-> Null, boot |-> FALSE]]

\* The header's dialog confirms it.
ConfirmLogout(t) ==
    /\ PagesShown(t)
    /\ logout(t)
    /\ UNCHANGED <<login, me, expired, faults>>

\* refreshProfile, called by a page: without a stored token only the user is
\* forgotten, the tab's own copy of the token stays.
refreshProfile(t) ==
    /\ PagesShown(t)
    /\ me[t] = Null
    /\ me' = [me EXCEPT ![t] = Ask(stored)]
    /\ tab' = IF stored = Null THEN [tab EXCEPT ![t].user = Null] ELSE tab
    /\ UNCHANGED <<stored, login, expired, faults, unheard, overtaken>>

\* GET /auth/me is answered.
Me(t) ==
    /\ me[t] # Null /\ ~me[t].answered
    /\ me' = [me EXCEPT ![t].answered = TRUE,
                        ![t].ans = IF me[t].of \in expired THEN Denied ELSE Owner[me[t].of]]
    /\ UNCHANGED <<stored, tab, login, expired, faults, unheard, overtaken>>

\* The boot effect ends the spinner in a finally, whatever the answer was.
EndsIfAnswered(t) == tab[t].boot /\ me[t].ans = Null            \* wrong variant
BootGoesOn(t) == FALSE

\* refreshProfile after its await.
ProfileArrives(t) ==
    /\ me[t] # Null /\ me[t].answered
    /\ \/ me[t].ans = Denied /\ logout(t)
       \/ /\ me[t].ans # Denied
          /\ tab' = [tab EXCEPT ![t].user = IF me[t].ans = Null THEN @ ELSE me[t].ans,
                                ![t].boot = BootGoesOn(t)]
          /\ overtaken' = IF me[t].ans = Null THEN overtaken
                          ELSE IF me[t].of = stored THEN overtaken \ {t}
                          ELSE overtaken \cup {t}
          /\ UNCHANGED <<stored, unheard>>
    /\ me' = [me EXCEPT ![t] = Null]
    /\ UNCHANGED <<login, expired, faults>>

\* The login page calls login or loginWithPasskey.
SignIn(t, account) ==
    /\ LoginShown(t)
    /\ login[t] = Null
    /\ login' = [login EXCEPT ![t] = account]
    /\ UNCHANGED <<stored, tab, me, expired, faults, unheard, overtaken>>

\* login and loginWithPasskey after their last await: the token is kept in
\* localStorage and in the tab, with the user it came with.
LoginArrives(t) ==
    /\ login[t] # Null
    /\ \E token \in {k \in Tokens \ HeldTokens : Owner[k] = login[t]} :
          /\ expired' = expired \ {token}
          /\ setStoredToken(t, token)
          /\ tab' = [tab EXCEPT ![t] = [token |-> token, user |-> login[t], boot |-> FALSE]]
    /\ login' = [login EXCEPT ![t] = Null]
    /\ UNCHANGED <<me, faults>>

-----------------------------------------------------------------------------
(* Faults: a call fails, refused or for the network; a token expires.       *)

Fault == faults < MaxFaults /\ faults' = faults + 1

LoginFails(t) ==
    /\ Fault
    /\ login[t] # Null
    /\ login' = [login EXCEPT ![t] = Null]
    /\ UNCHANGED <<stored, tab, me, expired, unheard, overtaken>>

ProfileFails(t) ==
    /\ Fault
    /\ me[t] # Null
    /\ me' = [me EXCEPT ![t].answered = TRUE, ![t].ans = Null]
    /\ UNCHANGED <<stored, tab, login, expired, unheard, overtaken>>

TokenExpires(token) ==
    /\ Fault
    /\ token \in HeldTokens \ expired
    /\ expired' = expired \cup {token}
    /\ UNCHANGED <<stored, tab, login, me, unheard, overtaken>>

-----------------------------------------------------------------------------
Next ==
    \/ \E t \in Tabs :
          \/ OpenTab(t) \/ ConfirmLogout(t) \/ refreshProfile(t)
          \/ \E a \in Accounts : SignIn(t, a)
          \/ Me(t) \/ ProfileArrives(t) \/ LoginArrives(t)
          \/ LoginFails(t) \/ ProfileFails(t)
    \/ \E token \in Tokens : TokenExpires(token)

Spec == Init /\ [][Next]_vars

\* The server answers, and a tab that is not reloaded for ever before the
\* answer is there gets it.
Fairness == \A t \in Tabs : WF_vars(Me(t)) /\ SF_vars(ProfileArrives(t))

FairSpec == Spec /\ Fairness

-----------------------------------------------------------------------------
\* A tab holds the stored token, whatever profile calls and sign-ins are on their
\* way, unless another tab has changed it since the tab was loaded or has last
\* written it itself: only then does a tab show pages without a session, or a
\* login page with one (AuthProvider.tsx:31 has no listener).
CopiesAgree == \A t \in Tabs : tab[t].token # stored => t \in unheard

\* The user a tab shows owns the token its requests carry.  The only exceptions:
\* another tab has changed the token since this tab's user was set, or the user
\* came with an answer about a token no longer stored (AuthProvider.tsx:42-56).
\* The next answer about the stored token, and a reload, put it right.
UserOwnsToken ==
    \A t \in Tabs :
        \/ tab[t].user = Null
        \/ stored # Null /\ tab[t].user = Owner[stored]
        \/ t \in overtaken

\* Nobody is kept before the boot spinner: the effect that calls refreshProfile
\* ends it whether the answer is the profile, a refusal or an error.
SpinnerEnds == \A t \in Tabs : tab[t].boot ~> ~tab[t].boot
=============================================================================
