------------------------- MODULE WebSessionProofs -------------------------
(* Proofs about WebSession, for any number of tabs, accounts and tokens and *)
(* any bound on the faults.  CopiesAgree is inductive with the types alone; *)
(* UserOwnsToken also needs that an answer to a profile call names the      *)
(* owner of the token the call was sent with (AnswersOwner).                *)
EXTENDS WebSession, TLAPS

\* An answered profile call is refused, lost, or names its token's owner.
AnswersOwner ==
    \A t \in Tabs : me[t] # Null => me[t].ans \in {Null, Denied, Owner[me[t].of]}

Inductive == TypeOK /\ CopiesAgree /\ UserOwnsToken /\ AnswersOwner

\* One step of the tab t, or of the server about one of its calls.
TabStep(t) ==
    \/ OpenTab(t) \/ ConfirmLogout(t) \/ refreshProfile(t)
    \/ \E a \in Accounts : SignIn(t, a)
    \/ Me(t) \/ ProfileArrives(t) \/ LoginArrives(t)
    \/ LoginFails(t) \/ ProfileFails(t)

-----------------------------------------------------------------------------
\* A profile call is asked for with the stored token, or not at all.
LEMMA AskType ==
  ASSUME NEW token \in Tokens \cup {Null}
  PROVE  Ask(token) \in Profile \cup {Null}
  BY NullAssumption DEF Ask, Profile

\* The state of a tab that has just been opened has its type.
LEMMA MountedType ==
  ASSUME NEW token \in Tokens \cup {Null}
  PROVE  Mounted(token) \in [token : Tokens \cup {Null}, user : Accounts \cup {Null}, boot : BOOLEAN]
  BY DEF Mounted

\* Every initial state satisfies the invariant.
LEMMA InitInductive == Init => Inductive
<1> SUFFICES ASSUME Init PROVE Inductive
  OBVIOUS
<1> USE DEF Init
<1>1. TypeOK
  BY AskType, MountedType, FaultsAssumption DEF TypeOK
<1>2. CopiesAgree
  BY DEF CopiesAgree, Mounted
<1>3. UserOwnsToken
  BY DEF UserOwnsToken, Mounted
<1>4. AnswersOwner
  BY DEF AnswersOwner, Ask
<1>5. QED
  BY <1>1, <1>2, <1>3, <1>4 DEF Inductive

-----------------------------------------------------------------------------
\* Types are kept: by each step of a tab ...
LEMMA TabStepType ==
  ASSUME TypeOK, NEW t \in Tabs, TabStep(t)
  PROVE  TypeOK'
<1> USE DEF TypeOK
<1>1. CASE OpenTab(t)
  BY <1>1, AskType, MountedType DEF OpenTab
<1>2. CASE ConfirmLogout(t)
  BY <1>2 DEF ConfirmLogout, logout, setStoredToken
<1>3. CASE refreshProfile(t)
  <2>1. me' \in [Tabs -> Profile \cup {Null}]
    BY <1>3, AskType DEF refreshProfile
  <2>2. tab' \in [Tabs -> [token : Tokens \cup {Null}, user : Accounts \cup {Null}, boot : BOOLEAN]]
    BY <1>3 DEF refreshProfile
  <2>3. QED
    BY <1>3, <2>1, <2>2 DEF refreshProfile
<1>4. CASE \E a \in Accounts : SignIn(t, a)
  BY <1>4 DEF SignIn
<1>5. CASE Me(t)
  <2>1. me[t] \in Profile
    BY <1>5 DEF Me
  <2>2. Owner[me[t].of] \in Accounts
    BY <2>1, OwnerAssumption DEF Profile
  <2>3. [me[t] EXCEPT !.answered = TRUE,
                      !.ans = IF me[t].of \in expired THEN Denied ELSE Owner[me[t].of]] \in Profile
    BY <2>1, <2>2 DEF Profile
  <2>4. me' \in [Tabs -> Profile \cup {Null}]
    BY <1>5, <2>3 DEF Me
  <2>5. QED
    BY <1>5, <2>4 DEF Me
<1>6. CASE ProfileArrives(t)
  <2>1. me[t].ans \in Accounts \cup {Null, Denied}
    BY <1>6 DEF ProfileArrives, Profile
  <2>2. tab' \in [Tabs -> [token : Tokens \cup {Null}, user : Accounts \cup {Null}, boot : BOOLEAN]]
    <3>1. CASE logout(t)
      BY <3>1 DEF logout
    <3>2. CASE tab' = [tab EXCEPT ![t].user = IF me[t].ans = Null THEN @ ELSE me[t].ans,
                                  ![t].boot = FALSE]
             /\ me[t].ans # Denied
      <4>1. (IF me[t].ans = Null THEN tab[t].user ELSE me[t].ans) \in Accounts \cup {Null}
        BY <2>1, <3>2
      <4>2. /\ DOMAIN tab' = Tabs
            /\ \A u \in Tabs : u # t => tab'[u] = tab[u]
        BY <3>2
      <4>3. tab'[t] = [tab[t] EXCEPT !.user = IF me[t].ans = Null THEN @ ELSE me[t].ans,
                                     !.boot = FALSE]
        BY <3>2
      <4>4. tab'[t] = [token |-> tab[t].token,
                       user |-> IF me[t].ans = Null THEN tab[t].user ELSE me[t].ans,
                       boot |-> FALSE]
        <5>1. tab[t] = [token |-> tab[t].token, user |-> tab[t].user, boot |-> tab[t].boot]
          OBVIOUS
        <5>2. QED
          BY <4>3, <5>1
      <4>5. tab'[t] \in [token : Tokens \cup {Null}, user : Accounts \cup {Null}, boot : BOOLEAN]
        BY <4>1, <4>4
      <4>6. tab' = [u \in Tabs |-> tab'[u]]
        BY <3>2
      <4>7. QED
        BY <4>2, <4>5, <4>6
    <3>3. QED
      BY <1>6, <3>1, <3>2 DEF ProfileArrives, BootGoesOn
  <2>3. stored' \in Tokens \cup {Null} /\ unheard' \subseteq Tabs /\ overtaken' \subseteq Tabs
    BY <1>6 DEF ProfileArrives, logout, setStoredToken
  <2>4. QED
    BY <1>6, <2>2, <2>3 DEF ProfileArrives
<1>7. CASE LoginArrives(t)
  BY <1>7 DEF LoginArrives, setStoredToken
<1>8. CASE LoginFails(t)
  BY <1>8, FaultsAssumption DEF LoginFails, Fault
<1>9. CASE ProfileFails(t)
  <2>1. [me[t] EXCEPT !.answered = TRUE, !.ans = Null] \in Profile
    BY <1>9 DEF ProfileFails, Profile
  <2>2. me' \in [Tabs -> Profile \cup {Null}]
    BY <1>9, <2>1 DEF ProfileFails
  <2>3. faults' \in 0..MaxFaults
    BY <1>9, FaultsAssumption DEF ProfileFails, Fault
  <2>4. QED
    BY <1>9, <2>2, <2>3 DEF ProfileFails
<1>10. QED
  BY <1>1, <1>2, <1>3, <1>4, <1>5, <1>6, <1>7, <1>8, <1>9 DEF TabStep

\* ... and when a token expires.
LEMMA ExpiryType ==
  ASSUME TypeOK, NEW token \in Tokens, TokenExpires(token)
  PROVE  TypeOK'
  BY FaultsAssumption DEF TypeOK, TokenExpires, Fault

-----------------------------------------------------------------------------
\* A tab that writes localStorage writes its own copy with it; the others have
\* not heard of it.
LEMMA TabStepCopies ==
  ASSUME TypeOK, CopiesAgree, NEW t \in Tabs, TabStep(t)
  PROVE  CopiesAgree'
<1> USE DEF TypeOK, CopiesAgree
<1>1. CASE OpenTab(t)
  BY <1>1 DEF OpenTab, Mounted
<1>2. CASE ConfirmLogout(t)
  BY <1>2 DEF ConfirmLogout, logout, setStoredToken
<1>3. CASE refreshProfile(t)
  BY <1>3 DEF refreshProfile
<1>4. CASE ProfileArrives(t)
  <2>1. CASE me[t].ans = Denied
    BY <1>4, <2>1 DEF ProfileArrives, logout, setStoredToken
  <2>2. CASE me[t].ans # Denied
    BY <1>4, <2>2 DEF ProfileArrives
  <2>3. QED
    BY <2>1, <2>2
<1>5. CASE LoginArrives(t)
  BY <1>5 DEF LoginArrives, setStoredToken
<1>6. CASE (\E a \in Accounts : SignIn(t, a)) \/ Me(t) \/ LoginFails(t) \/ ProfileFails(t)
  BY <1>6 DEF SignIn, Me, LoginFails, ProfileFails
<1>7. QED
  BY <1>1, <1>2, <1>3, <1>4, <1>5, <1>6 DEF TabStep

\* The server answers a profile call about the owner of its token.
LEMMA TabStepAnswers ==
  ASSUME TypeOK, AnswersOwner, NEW t \in Tabs, TabStep(t)
  PROVE  AnswersOwner'
<1> USE DEF TypeOK, AnswersOwner
<1>1. CASE OpenTab(t)
  BY <1>1 DEF OpenTab, Ask
<1>2. CASE refreshProfile(t)
  BY <1>2 DEF refreshProfile, Ask
<1>3. CASE Me(t)
  BY <1>3 DEF Me, Profile
<1>4. CASE ProfileArrives(t)
  BY <1>4 DEF ProfileArrives
<1>5. CASE ProfileFails(t)
  BY <1>5 DEF ProfileFails, Profile
<1>6. CASE ConfirmLogout(t) \/ (\E a \in Accounts : SignIn(t, a)) \/ LoginArrives(t) \/ LoginFails(t)
  BY <1>6 DEF ConfirmLogout, SignIn, LoginArrives, LoginFails
<1>7. QED
  BY <1>1, <1>2, <1>3, <1>4, <1>5, <1>6 DEF TabStep

-----------------------------------------------------------------------------
\* What a tab shows of its user can go wrong only by the two exceptions of
\* UserOwnsToken, whatever the tab does next.
LEMMA TabStepOwner ==
  ASSUME TypeOK, UserOwnsToken, AnswersOwner, NEW t \in Tabs, TabStep(t)
  PROVE  UserOwnsToken'
<1> USE DEF TypeOK, UserOwnsToken
<1>1. CASE OpenTab(t)
  BY <1>1 DEF OpenTab, Mounted
<1>2. CASE ConfirmLogout(t)
  BY <1>2 DEF ConfirmLogout, logout, setStoredToken
<1>3. CASE refreshProfile(t)
  BY <1>3 DEF refreshProfile
<1>4. CASE ProfileArrives(t)
  <2>1. CASE me[t].ans = Denied
    <3>1. logout(t)
      BY <1>4, <2>1 DEF ProfileArrives
    <3>2. tab'[t].user = Null
      BY <3>1 DEF logout
    <3>3. \A u \in Tabs : u # t =>
            /\ tab'[u].user = tab[u].user
            /\ u \in overtaken' \/ (stored' = stored /\ (u \in overtaken => u \in overtaken'))
      BY <3>1 DEF logout, setStoredToken
    <3>4. QED
      BY <3>2, <3>3
  <2>2. CASE me[t].ans = Null
    <3>1. /\ UNCHANGED <<stored, unheard>> /\ overtaken' = overtaken
          /\ \A u \in Tabs : tab'[u].user = tab[u].user
      BY <1>4, <2>2, DeniedAssumption DEF ProfileArrives
    <3>2. QED
      BY <3>1
  <2>3. CASE me[t].ans \notin {Null, Denied}
    <3>1. /\ UNCHANGED <<stored, unheard>>
          /\ tab'[t].user = me[t].ans
          /\ \A u \in Tabs : u # t => tab'[u].user = tab[u].user
      BY <1>4, <2>3 DEF ProfileArrives
    <3>2. me[t].ans = Owner[me[t].of] /\ me[t].of \in Tokens
      BY <1>4, <2>3 DEF ProfileArrives, AnswersOwner, Profile
    <3>3. /\ \A u \in Tabs : u # t /\ u \in overtaken => u \in overtaken'
          /\ me[t].of # stored => t \in overtaken'
      BY <1>4, <2>3 DEF ProfileArrives
    <3>4. me[t].of = stored => stored # Null
      BY <3>2, NullAssumption
    <3>5. QED
      BY <3>1, <3>2, <3>3, <3>4
  <2>4. QED
    BY <2>1, <2>2, <2>3
<1>5. CASE LoginArrives(t)
  <2>1. PICK token \in Tokens :
          /\ Owner[token] = login[t]
          /\ setStoredToken(t, token)
          /\ tab' = [tab EXCEPT ![t] = [token |-> token, user |-> login[t], boot |-> FALSE]]
    BY <1>5 DEF LoginArrives
  <2>2. stored' # Null /\ tab'[t].user = Owner[stored']
    BY <2>1, NullAssumption DEF setStoredToken
  <2>3. \A u \in Tabs : u # t =>
          /\ tab'[u].user = tab[u].user
          /\ u \in overtaken' \/ (stored' = stored /\ (u \in overtaken => u \in overtaken'))
    BY <2>1 DEF setStoredToken
  <2>4. QED
    BY <2>2, <2>3
<1>6. CASE (\E a \in Accounts : SignIn(t, a)) \/ Me(t) \/ LoginFails(t) \/ ProfileFails(t)
  BY <1>6 DEF SignIn, Me, LoginFails, ProfileFails
<1>7. QED
  BY <1>1, <1>2, <1>3, <1>4, <1>5, <1>6 DEF TabStep

-----------------------------------------------------------------------------
\* Every step keeps the invariant.
LEMMA NextInductive == Inductive /\ [Next]_vars => Inductive'
<1> SUFFICES ASSUME Inductive, [Next]_vars PROVE Inductive'
  OBVIOUS
<1>1. CASE \E t \in Tabs : TabStep(t)
  <2>1. PICK t \in Tabs : TabStep(t)
    BY <1>1
  <2>2. QED
    BY <2>1, TabStepType, TabStepCopies, TabStepAnswers, TabStepOwner DEF Inductive
<1>2. CASE \E token \in Tokens : TokenExpires(token)
  <2>1. TypeOK'
    BY <1>2, ExpiryType DEF Inductive
  <2>2. UNCHANGED <<stored, tab, login, me, unheard, overtaken>>
    BY <1>2 DEF TokenExpires
  <2>3. QED
    BY <2>1, <2>2 DEF Inductive, CopiesAgree, UserOwnsToken, AnswersOwner
<1>3. CASE UNCHANGED vars
  BY <1>3 DEF vars, Inductive, TypeOK, CopiesAgree, UserOwnsToken, AnswersOwner
<1>4. QED
  BY <1>1, <1>2, <1>3 DEF Next, TabStep

\* The invariant holds in every reachable state.
LEMMA AlwaysInductive == Spec => []Inductive
  BY InitInductive, NextInductive, PTL DEF Spec

\* TypeOK is an invariant: the states of WebSession are those of AuthProvider.
THEOREM TypeCorrect == Spec => []TypeOK
<1>1. Inductive => TypeOK
  BY DEF Inductive
<1>2. QED
  BY <1>1, AlwaysInductive, PTL

\* A tab holds the stored token unless another tab has changed it since the tab
\* was loaded or has last written it.  A tab that boots from the stored token is
\* no exception.
THEOREM WriterAgrees == Spec => []CopiesAgree
<1>1. Inductive => CopiesAgree
  BY DEF Inductive
<1>2. QED
  BY <1>1, AlwaysInductive, PTL

\* The user a tab shows owns the stored token, also when the tab booted from it,
\* unless another tab has changed the token since that user was set, or the user
\* came with an answer about a token no longer stored.
THEOREM UserIsOwner == Spec => []UserOwnsToken
<1>1. Inductive => UserOwnsToken
  BY DEF Inductive
<1>2. QED
  BY <1>1, AlwaysInductive, PTL
=============================================================================
