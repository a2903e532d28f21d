-------------------------- MODULE WebConsoleProofs --------------------------
(* Proofs about the pages of the web console together, as MCWebConsole      *)
(* composes them, for any values of the constants: any number of clicks, of *)
(* calls that are out, of tabs and of names.                                *)
(*                                                                          *)
(* A page keeps its own invariant (ListInv, RolesInv, ...) in its steps; in *)
(* those of another page its variables keep still, and all that can change  *)
(* for it is that a fetch has thrown (Remembers).                           *)
EXTENDS MCWebConsole, WebListsProofs

-----------------------------------------------------------------------------
(* The page of the roles.                                                  *)

Creates == [role : Nat \cup {Null}, crossed : BOOLEAN]
Saves == [role : Nat \cup {Null}, of : Nat \cup {Null}, redraw : BOOLEAN]

RolesTypeOK ==
    /\ existing \in Nat /\ existing > 0
    /\ roleList \in Seq(Nat)
    /\ selectedRoleId \in Nat \cup {Null} /\ draftOf \in Nat \cup {Null}
    /\ redraw \in BOOLEAN /\ mayReadRoles \in BOOLEAN /\ rolesLoading \in BOOLEAN
    /\ asksAll \in Seq(Nat)
    /\ saveBusy \in BOOLEAN
    /\ saves \in Seq(Saves)
    /\ createDialog \in [open : BOOLEAN, busy : BOOLEAN]
    /\ creates \in Seq(Creates)
    /\ overlapped \in BOOLEAN

\* The roles shown are roles of the server.
ShownExist == \A k \in DOMAIN roleList : roleList[k] <= existing

\* Every call has created a role of its own, and no list shows it yet if no
\* reload has ended since the call went out.
CreatedApart ==
    \A i \in DOMAIN creates :
        creates[i].role # Null =>
            /\ creates[i].role <= existing
            /\ \A j \in DOMAIN creates : creates[j].role = creates[i].role => j = i
            /\ ~creates[i].crossed => ~Occurs(creates[i].role, roleList)

\* The draft is of the role selected, if it is shown and the timer has run.
Drawn == Occurs(selectedRoleId, roleList) /\ ~redraw => draftOf = selectedRoleId

RolesInv ==
    /\ RolesTypeOK
    /\ ShownExist /\ CreatedApart /\ Drawn
    /\ RoleShownOnce /\ RoleSavesWhatItShows /\ RolesWait

LEMMA RolesMountInv == RolesMount => RolesInv
<1> SUFFICES ASSUME RolesMount PROVE RolesInv
  OBVIOUS
<1> USE DEF RolesMount
<1>1. asksAll \in Seq(Nat) /\ roleList \in Seq(Nat) /\ saves \in Seq(Saves)
      /\ creates \in Seq(Creates)
  BY EmptySeq
<1>2. createDialog \in [open : BOOLEAN, busy : BOOLEAN]
  OBVIOUS
<1>3. RolesTypeOK
  <2>1. rolesLoading \in BOOLEAN /\ existing \in Nat /\ existing > 0
    OBVIOUS
  <2>2. QED
    BY <1>1, <1>2, <2>1 DEF RolesTypeOK
<1>4. ShownExist /\ CreatedApart /\ Drawn /\ RoleShownOnce /\ RoleSavesWhatItShows
  BY DEF ShownExist, CreatedApart, Drawn, Occurs, RoleShownOnce, RoleSavesWhatItShows
<1>5. RolesWait
  BY DEF RolesWait
<1>6. QED
  BY <1>3, <1>4, <1>5 DEF RolesInv

\* A function on 1..n is a sequence.
LEMMA FunctionIsSeq ==
  ASSUME NEW S, NEW n \in Nat, NEW f \in [1..n -> S]
  PROVE  f \in Seq(S)
  BY SeqDef

LEMMA RolesUnchanged ==
  ASSUME RolesInv, Remembers, UNCHANGED rolesPageVars
  PROVE  RolesInv'
<1> USE DEF rolesPageVars
<1>1. RolesTypeOK'
  BY DEF RolesInv, RolesTypeOK
<1>2. ShownExist' /\ CreatedApart' /\ Drawn'
  BY DEF RolesInv, ShownExist, CreatedApart, Drawn, Occurs
<1>3. RoleShownOnce' /\ RoleSavesWhatItShows' /\ RolesWait'
  BY DEF Remembers, RolesInv, RoleShownOnce, RoleSavesWhatItShows, RolesWait
<1>4. QED
  BY <1>1, <1>2, <1>3 DEF RolesInv

\* A reload goes out, or, without the permission, the list goes.
LEMMA LoadAllKeeps ==
  ASSUME RolesInv, Remembers, mayReadRoles' \in BOOLEAN, NEW may \in BOOLEAN, LoadAll(may),
         UNCHANGED <<existing, selectedRoleId, draftOf, saveBusy, saves, createDialog, creates,
                     overlapped>>
  PROVE  RolesInv'
<1> USE DEF LoadAll
<1>1. CASE may
  <2>1. asksAll' \in Seq(Nat) /\ asksAll' # <<>>
    <3>1. asksAll \in Seq(Nat) /\ existing \in Nat
      BY DEF RolesInv, RolesTypeOK
    <3>2. QED
      BY <1>1, <3>1, AppendProperties
  <2>2. RolesTypeOK'
    BY <1>1, <2>1 DEF RolesInv, RolesTypeOK
  <2>3. ShownExist' /\ CreatedApart' /\ Drawn' /\ RoleShownOnce' /\ RoleSavesWhatItShows'
    BY <1>1
    DEF RolesInv, ShownExist, CreatedApart, Drawn, Occurs, RoleShownOnce, RoleSavesWhatItShows
  <2>4. RolesWait'
    BY <2>1 DEF Remembers, RolesInv, RolesWait
  <2>5. QED
    BY <2>2, <2>3, <2>4 DEF RolesInv
<1>2. CASE ~may
  <2>1. roleList' = <<>> /\ roleList' \in Seq(Nat) /\ DOMAIN roleList' = {}
    BY <1>2, EmptySeq
  <2>2. RolesTypeOK'
    BY <1>2, <2>1 DEF RolesInv, RolesTypeOK
  <2>3. ShownExist' /\ CreatedApart' /\ Drawn' /\ RoleShownOnce' /\ RoleSavesWhatItShows'
    BY <1>2, <2>1
    DEF RolesInv, ShownExist, CreatedApart, Drawn, Occurs, RoleShownOnce, RoleSavesWhatItShows
  <2>4. RolesWait'
    BY <1>2 DEF Remembers, RolesInv, RolesWait
  <2>5. QED
    BY <2>2, <2>3, <2>4 DEF RolesInv
<1>3. QED
  BY <1>1, <1>2

\* A reload ends: its list has every role once, and every call that is out has
\* been crossed by it.
LEMMA AllArriveKeeps ==
  ASSUME RolesInv, Remembers, NEW i \in DOMAIN asksAll, NEW outcome, NEW n \in 1..MaxRoles,
         outcome = "throws" => rejected', loadAll(i, outcome, n)
  PROVE  RolesInv'
<1> USE DEF loadAll
<1>1. /\ asksAll \in Seq(Nat) /\ asksAll[i] \in Nat /\ existing \in Nat /\ n <= existing
      /\ asksAll' \in Seq(Nat) /\ n \in Nat
  <2>1. asksAll \in Seq(Nat) /\ existing \in Nat
    BY DEF RolesInv, RolesTypeOK
  <2>2. i \in 1..Len(asksAll) /\ asksAll[i] \in Nat
    BY <2>1
  <2>3. asksAll' \in Seq(Nat)
    BY <2>1, <2>2, WithoutProperties
  <2>4. n \in Nat /\ n <= existing
    BY <2>1, <2>2
  <2>5. QED
    BY <2>1, <2>2, <2>3, <2>4
<1>2. /\ creates' \in Seq(Creates) /\ DOMAIN creates' = DOMAIN creates
      /\ \A k \in DOMAIN creates : creates'[k].role = creates[k].role /\ creates'[k].crossed
  <2>1. \A c \in Creates : /\ [c EXCEPT !.crossed = TRUE] \in Creates
                           /\ [c EXCEPT !.crossed = TRUE].role = c.role
                           /\ [c EXCEPT !.crossed = TRUE].crossed
    BY DEF Creates
  <2>2. creates \in Seq(Creates) /\ DOMAIN creates = 1..Len(creates) /\ Len(creates) \in Nat
    BY DEF RolesInv, RolesTypeOK
  <2>3. \A k \in DOMAIN creates : creates[k] \in Creates
    BY <2>2
  <2>4. creates' \in [1..Len(creates) -> Creates]
    BY <2>1, <2>2, <2>3
  <2>5. QED
    BY <2>1, <2>2, <2>3, <2>4, FunctionIsSeq
<1>3. \/ roleList' = roleList /\ outcome = "throws" /\ selectedRoleId' = selectedRoleId
         /\ redraw' = redraw
      \/ roleList' = [k \in 1..n |-> k] /\ redraw'
      \/ roleList' = <<>>
  BY DEF RolesInv, RolesTypeOK
<1>4. /\ roleList' \in Seq(Nat)
      /\ selectedRoleId' \in Nat \cup {Null} /\ redraw' \in BOOLEAN
  <2>1. roleList \in Seq(Nat) /\ selectedRoleId \in Nat \cup {Null} /\ redraw \in BOOLEAN
    BY DEF RolesInv, RolesTypeOK
  <2>2. [k \in 1..n |-> k] \in Seq(Nat) /\ <<>> \in Seq(Nat)
    BY <1>1, FunctionIsSeq, EmptySeq
  <2>3. QED
    BY <1>3, <2>1, <2>2
<1>5. RolesTypeOK'
  BY <1>1, <1>2, <1>4 DEF RolesInv, RolesTypeOK
<1>6. ShownExist'
  BY <1>1, <1>3 DEF RolesInv, ShownExist
<1>7. CreatedApart'
  BY <1>2 DEF RolesInv, CreatedApart
<1>8. Drawn'
  BY <1>3 DEF RolesInv, Drawn, Occurs
<1>9. RoleShownOnce'
  BY <1>3 DEF RolesInv, RoleShownOnce
<1>10. RoleSavesWhatItShows' /\ RolesWait'
  BY DEF Remembers, RolesInv, RolesTypeOK, RoleSavesWhatItShows, RolesWait
<1>11. QED
  BY <1>5, <1>6, <1>7, <1>8, <1>9, <1>10 DEF RolesInv

\* The timer, a selection, and the dialog opened or left.
LEMMA ChoiceKeeps ==
  ASSUME RolesInv, Remembers, drawDraft \/ openCreateRole \/ \E id \in Nat : selectRole(id)
  PROVE  RolesInv'
<1> USE DEF drawDraft, openCreateRole, selectRole
<1>1. createDialog' \in [open : BOOLEAN, busy : BOOLEAN] /\ createDialog'.busy = createDialog.busy
  BY DEF RolesInv, RolesTypeOK
<1>2. draftOf' \in Nat \cup {Null} /\ selectedRoleId' \in Nat \cup {Null} /\ redraw' \in BOOLEAN
  BY DEF RolesInv, RolesTypeOK, selectedRole
<1>3. RolesTypeOK'
  BY <1>1, <1>2 DEF RolesInv, RolesTypeOK
<1>4. ShownExist' /\ CreatedApart' /\ RoleShownOnce' /\ RoleSavesWhatItShows'
  BY DEF RolesInv, ShownExist, CreatedApart, Occurs, RoleShownOnce, RoleSavesWhatItShows
<1>5. Drawn'
  BY DEF RolesInv, Drawn, Occurs, selectedRole
<1>6. RolesWait'
  BY <1>1 DEF Remembers, RolesInv, RolesWait
<1>7. QED
  BY <1>3, <1>4, <1>5, <1>6 DEF RolesInv

\* A save goes out: the draft is of the role it goes to, unless the timer has
\* yet to run.
LEMMA SaveRoleKeeps ==
  ASSUME RolesInv, Remembers, savePermissions
  PROVE  RolesInv'
<1> USE DEF savePermissions
<1> DEFINE save == [role |-> selectedRoleId, of |-> draftOf, redraw |-> redraw]
<1>1. save \in Saves
  BY DEF RolesInv, RolesTypeOK, Saves
<1>2. save.of # save.role => save.redraw
  BY DEF RolesInv, Drawn, selectedRole
<1>3. saves \in Seq(Saves) /\ saves' = Append(saves, save)
  BY DEF RolesInv, RolesTypeOK
<1> HIDE DEF save
<1>4. /\ saves' \in Seq(Saves) /\ saves' # <<>>
      /\ \A i \in DOMAIN saves' : (i \in DOMAIN saves /\ saves'[i] = saves[i]) \/ saves'[i] = save
  BY <1>1, <1>3
<1>5. RolesTypeOK'
  BY <1>4 DEF RolesInv, RolesTypeOK
<1>6. ShownExist' /\ CreatedApart' /\ Drawn' /\ RoleShownOnce'
  BY DEF RolesInv, ShownExist, CreatedApart, Drawn, Occurs, RoleShownOnce
<1>7. RoleSavesWhatItShows'
  BY <1>2, <1>4 DEF RolesInv, RoleSavesWhatItShows
<1>8. RolesWait'
  BY <1>4 DEF Remembers, RolesInv, RolesWait
<1>9. QED
  BY <1>5, <1>6, <1>7, <1>8 DEF RolesInv

LEMMA RoleSavedKeeps ==
  ASSUME RolesInv, Remembers, NEW i \in DOMAIN saves, NEW outcome,
         outcome = "throws" => rejected', permissionsSaved(i, outcome)
  PROVE  RolesInv'
<1> USE DEF permissionsSaved
<1>1. saves \in Seq(Saves) /\ i \in 1..Len(saves)
  BY DEF RolesInv, RolesTypeOK
<1>2. /\ saves' \in Seq(Saves) /\ Len(saves') = Len(saves) - 1
      /\ \A j \in 1..(Len(saves) - 1) : saves'[j] = IF j < i THEN saves[j] ELSE saves[j + 1]
  BY <1>1, WithoutProperties
<1>3. redraw' \in BOOLEAN /\ (redraw => redraw')
  BY DEF RolesInv, RolesTypeOK
<1>4. RolesTypeOK'
  BY <1>2, <1>3 DEF RolesInv, RolesTypeOK
<1>5. ShownExist' /\ CreatedApart' /\ Drawn' /\ RoleShownOnce'
  BY <1>3 DEF RolesInv, ShownExist, CreatedApart, Drawn, Occurs, RoleShownOnce
<1>6. RoleSavesWhatItShows'
  <2>1. ASSUME NEW j \in DOMAIN saves'
        PROVE  \E k \in DOMAIN saves : saves'[j] = saves[k]
    <3>1. j \in 1..(Len(saves) - 1) /\ j \in DOMAIN saves /\ j + 1 \in DOMAIN saves
      BY <1>1, <1>2
    <3>2. QED
      BY <1>2, <3>1
  <2>2. QED
    BY <2>1 DEF RolesInv, RoleSavesWhatItShows
<1>7. RolesWait'
  BY DEF Remembers, RolesInv, RolesWait
<1>8. QED
  BY <1>4, <1>5, <1>6, <1>7 DEF RolesInv

\* A call goes out that is to create a role.
LEMMA SubmitRoleKeeps ==
  ASSUME RolesInv, Remembers, submitCreateRole
  PROVE  RolesInv'
<1> USE DEF submitCreateRole
<1> DEFINE call == [role |-> Null, crossed |-> FALSE]
<1>1. call \in Creates /\ call.role = Null
  BY DEF Creates
<1>2. creates \in Seq(Creates) /\ creates' = Append(creates, call)
  BY DEF RolesInv, RolesTypeOK
<1> HIDE DEF call
<1>3. /\ creates' \in Seq(Creates) /\ creates' # <<>>
      /\ \A i \in DOMAIN creates' : (i \in DOMAIN creates /\ creates'[i] = creates[i]) \/ creates'[i] = call
  BY <1>1, <1>2
<1>4. createDialog' \in [open : BOOLEAN, busy : BOOLEAN]
  BY DEF RolesInv, RolesTypeOK
<1>5. RolesTypeOK'
  BY <1>3, <1>4 DEF RolesInv, RolesTypeOK
<1>6. CreatedApart'
  BY <1>1, <1>3 DEF RolesInv, CreatedApart, Occurs
<1>7. ShownExist' /\ Drawn' /\ RoleShownOnce' /\ RoleSavesWhatItShows'
  BY DEF RolesInv, ShownExist, Drawn, Occurs, RoleShownOnce, RoleSavesWhatItShows
<1>8. RolesWait'
  BY <1>3 DEF Remembers, RolesInv, RolesWait
<1>9. QED
  BY <1>5, <1>6, <1>7, <1>8 DEF RolesInv

\* The server creates the role: no list shows it, since it is new.
LEMMA CreateRoleKeeps ==
  ASSUME RolesInv, Remembers, NEW i \in DOMAIN creates, createRole(i)
  PROVE  RolesInv'
<1> USE DEF createRole
<1>1. /\ existing \in Nat /\ existing' = existing + 1 /\ existing' \in Nat
      /\ creates \in Seq(Creates) /\ i \in 1..Len(creates) /\ roleList \in Seq(Nat)
  BY DEF RolesInv, RolesTypeOK
<1>2. creates[i] \in Creates
  BY <1>1
<1>3. /\ [creates[i] EXCEPT !.role = existing'] \in Creates
      /\ [creates[i] EXCEPT !.role = existing'].role = existing'
  BY <1>1, <1>2 DEF Creates
<1>4. /\ creates' \in Seq(Creates) /\ DOMAIN creates' = DOMAIN creates
      /\ creates'[i].role = existing'
      /\ \A j \in DOMAIN creates : j # i => creates'[j] = creates[j]
  <2> DEFINE made == [creates[i] EXCEPT !.role = existing']
  <2>1. made \in Creates /\ made.role = existing' /\ creates' = [creates EXCEPT ![i] = made]
    BY <1>3
  <2> HIDE DEF made
  <2>2. creates \in [1..Len(creates) -> Creates] /\ Len(creates) \in Nat
    BY <1>1, LenProperties
  <2>3. creates' \in [1..Len(creates) -> Creates]
    BY <2>1, <2>2
  <2>4. creates' \in Seq(Creates)
    BY <2>2, <2>3, FunctionIsSeq
  <2>5. QED
    BY <1>1, <2>1, <2>2, <2>3, <2>4
<1>5. RolesTypeOK'
  BY <1>1, <1>4 DEF RolesInv, RolesTypeOK
<1>6. ShownExist'
  BY <1>1 DEF RolesInv, ShownExist
<1>7. ~Occurs(existing', roleList)
  <2>1. \A k \in DOMAIN roleList : roleList[k] \in Nat /\ roleList[k] <= existing
    BY <1>1 DEF RolesInv, ShownExist
  <2>2. QED
    BY <1>1, <2>1 DEF Occurs
<1>8. CreatedApart'
  <2>1. \A j \in DOMAIN creates : creates[j].role \in Nat \cup {Null}
    <3>1. \A c \in Creates : c.role \in Nat \cup {Null}
      BY DEF Creates
    <3>2. \A j \in DOMAIN creates : creates[j] \in Creates
      BY <1>1
    <3>3. QED
      BY <3>1, <3>2
  <2>2. \A j \in DOMAIN creates : j # i /\ creates[j].role # Null =>
           creates[j].role <= existing /\ creates[j].role \in Nat
    BY <2>1 DEF RolesInv, CreatedApart
  <2>3. SUFFICES ASSUME NEW j \in DOMAIN creates', creates'[j].role # Null
        PROVE  /\ creates'[j].role <= existing'
               /\ \A k \in DOMAIN creates' : creates'[k].role = creates'[j].role => k = j
               /\ ~creates'[j].crossed => ~Occurs(creates'[j].role, roleList)
    BY DEF CreatedApart, Occurs
  <2>4. CASE j = i
    <3>1. existing' # Null
      BY <1>4, <2>3, <2>4
    <3>2. \A k \in DOMAIN creates : k # i => creates[k].role # existing'
      BY <1>1, <2>2, <3>1
    <3>3. \A k \in DOMAIN creates' : creates'[k].role = creates'[j].role => k = j
      BY <1>4, <2>4, <3>2
    <3>4. existing' <= existing'
      BY <1>1
    <3>5. QED
      BY <1>4, <1>7, <2>4, <3>3, <3>4
  <2>5. CASE j # i
    <3>1. creates'[j] = creates[j] /\ creates[j].role <= existing /\ creates[j].role \in Nat
      BY <1>4, <2>2, <2>3, <2>5
    <3>2. creates'[i].role # creates[j].role
      BY <1>1, <1>4, <3>1
    <3>3. QED
      BY <1>1, <1>4, <2>3, <2>5, <3>1, <3>2 DEF RolesInv, CreatedApart
  <2>6. QED
    BY <2>4, <2>5
<1>9. Drawn' /\ RoleShownOnce' /\ RoleSavesWhatItShows'
  BY DEF RolesInv, Drawn, Occurs, RoleShownOnce, RoleSavesWhatItShows
<1>10. RolesWait'
  <2>1. creates # <<>> => creates' # <<>>
    BY <1>1, <1>4
  <2>2. QED
    BY <2>1 DEF Remembers, RolesInv, RolesWait
<1>11. QED
  BY <1>5, <1>6, <1>8, <1>9, <1>10 DEF RolesInv

\* The created role is put behind the others.
LEMMA RoleCreatedKeeps ==
  ASSUME RolesInv, Remembers, NEW i \in DOMAIN creates, NEW outcome,
         outcome = "throws" => rejected', roleCreated(i, outcome)
  PROVE  RolesInv'
<1> USE DEF roleCreated
<1>1. /\ creates \in Seq(Creates) /\ i \in 1..Len(creates) /\ roleList \in Seq(Nat)
      /\ Len(creates) \in Nat /\ redraw \in BOOLEAN /\ overlapped \in BOOLEAN
  BY DEF RolesInv, RolesTypeOK
<1>2. creates[i] \in Creates /\ creates[i].role \in Nat \cup {Null} /\ creates[i].crossed \in BOOLEAN
  <2>1. creates[i] \in Creates
    BY <1>1
  <2>2. QED
    BY <2>1 DEF Creates
<1>3. /\ creates' \in Seq(Creates) /\ Len(creates') = Len(creates) - 1
      /\ \A j \in 1..(Len(creates) - 1) :
            creates'[j] = IF j < i THEN creates[j] ELSE creates[j + 1]
  BY <1>1, WithoutProperties
<1>4. ASSUME NEW j \in DOMAIN creates'
      PROVE  \E k \in DOMAIN creates : k # i /\ creates'[j] = creates[k] /\ k = IF j < i THEN j ELSE j + 1
  <2>1. j \in 1..(Len(creates) - 1) /\ j \in DOMAIN creates /\ j + 1 \in DOMAIN creates
    BY <1>1, <1>3
  <2>2. QED
    BY <1>1, <1>3, <2>1
<1>5. ASSUME NEW j \in DOMAIN creates', NEW k \in DOMAIN creates',
             creates'[j].role # Null, creates'[k].role = creates'[j].role
      PROVE  k = j
  <2>1. PICK jj \in DOMAIN creates :
          jj # i /\ creates'[j] = creates[jj] /\ jj = IF j < i THEN j ELSE j + 1
    BY <1>4
  <2>2. PICK kk \in DOMAIN creates :
          kk # i /\ creates'[k] = creates[kk] /\ kk = IF k < i THEN k ELSE k + 1
    BY <1>4
  <2>3. kk = jj
    BY <1>5, <2>1, <2>2 DEF RolesInv, CreatedApart
  <2>4. k \in Nat /\ j \in Nat /\ i \in Nat
    BY <1>1, <1>3
  <2>5. QED
    BY <2>1, <2>2, <2>3, <2>4
<1>6. createDialog' \in [open : BOOLEAN, busy : BOOLEAN] /\ createDialog'.busy = (outcome = "throws")
  BY DEF RolesInv, RolesTypeOK
<1>7. CASE outcome # "ok"
  <2>1. RolesTypeOK'
    BY <1>3, <1>6, <1>7 DEF RolesInv, RolesTypeOK
  <2>2. CreatedApart'
    <3>1. \A j \in DOMAIN creates' : creates'[j].role # Null =>
             /\ creates'[j].role <= existing
             /\ ~creates'[j].crossed => ~Occurs(creates'[j].role, roleList)
      BY <1>4 DEF RolesInv, CreatedApart
    <3>2. \A j, k \in DOMAIN creates' :
             creates'[j].role # Null /\ creates'[k].role = creates'[j].role => k = j
      BY <1>5
    <3>3. QED
      BY <1>7, <3>1, <3>2 DEF CreatedApart, Occurs
  <2>3. ShownExist' /\ Drawn' /\ RoleShownOnce' /\ RoleSavesWhatItShows'
    BY <1>7 DEF RolesInv, ShownExist, Drawn, Occurs, RoleShownOnce, RoleSavesWhatItShows
  <2>4. RolesWait'
    BY <1>6 DEF Remembers, RolesInv, RolesWait
  <2>5. QED
    BY <2>1, <2>2, <2>3, <2>4 DEF RolesInv
<1>8. CASE outcome = "ok"
  <2> DEFINE role == creates[i].role
  <2>1. role \in Nat /\ role # Null /\ role <= existing
    BY <1>2, <1>8 DEF RolesInv, CreatedApart
  <2>2. roleList' = Append(roleList, role)
    BY <1>8
  <2> HIDE DEF role
  <2>3. /\ roleList' \in Seq(Nat) /\ Len(roleList') = Len(roleList) + 1
        /\ \A k \in 1..Len(roleList) : roleList'[k] = roleList[k]
        /\ roleList'[Len(roleList) + 1] = role
    BY <1>1, <2>1, <2>2, AppendProperties
  <2>4. \A k \in DOMAIN roleList' :
           \/ k \in DOMAIN roleList /\ roleList'[k] = roleList[k]
           \/ k = Len(roleList) + 1 /\ roleList'[k] = role
    BY <1>1, <2>3
  <2>5. RolesTypeOK'
    BY <1>1, <1>2, <1>3, <1>6, <1>8, <2>1, <2>3 DEF RolesInv, RolesTypeOK, role
  <2>6. ShownExist'
    BY <2>1, <2>4 DEF RolesInv, ShownExist
  <2>7. CreatedApart'
    <3>1. ASSUME NEW j \in DOMAIN creates', creates'[j].role # Null
          PROVE  /\ creates'[j].role <= existing'
                 /\ \A k \in DOMAIN creates' : creates'[k].role = creates'[j].role => k = j
                 /\ ~creates'[j].crossed => ~Occurs(creates'[j].role, roleList')
      <4>1. PICK jj \in DOMAIN creates :
              jj # i /\ creates'[j] = creates[jj] /\ jj = IF j < i THEN j ELSE j + 1
        BY <1>4
      <4>2. /\ creates[jj].role <= existing
            /\ creates[jj].role # role
            /\ ~creates[jj].crossed => ~Occurs(creates[jj].role, roleList)
        BY <3>1, <4>1 DEF RolesInv, CreatedApart, role
      <4>3. \A k \in DOMAIN creates' : creates'[k].role = creates'[j].role => k = j
        BY <1>5, <3>1
      <4>4. ~creates'[j].crossed => ~Occurs(creates'[j].role, roleList')
        BY <2>4, <4>1, <4>2 DEF Occurs
      <4>5. QED
        BY <4>1, <4>2, <4>3, <4>4
    <3>2. QED
      BY <3>1 DEF CreatedApart, Occurs
  <2>8. RoleShownOnce'
    <3>1. SUFFICES ASSUME ~overlapped' PROVE RoleShownOnce'
      BY DEF RoleShownOnce
    <3>2. ~overlapped /\ ~creates[i].crossed
      BY <1>1, <1>2, <1>8, <3>1
    <3>3. ~Occurs(role, roleList)
      BY <2>1, <3>2 DEF RolesInv, CreatedApart, role
    <3>4. QED
      BY <2>4, <3>2, <3>3 DEF RolesInv, RoleShownOnce, Occurs
  <2>9. Drawn' /\ RoleSavesWhatItShows'
    BY <1>8 DEF RolesInv, Drawn, RoleSavesWhatItShows
  <2>10. RolesWait'
    BY <1>6, <1>8 DEF Remembers, RolesInv, RolesWait
  <2>11. QED
    BY <2>5, <2>6, <2>7, <2>8, <2>9, <2>10 DEF RolesInv
<1>9. QED
  BY <1>7, <1>8

LEMMA SystemRolesKeep ==
  ASSUME rejected \in BOOLEAN, RolesInv, SystemRolesNext
  PROVE  Remembers /\ RolesInv'
<1>1. mayReadRoles \in BOOLEAN
  BY DEF RolesInv, RolesTypeOK
<1>2. CASE rolesRefresh \/ rolesProfile
  <2>1. /\ \E may \in BOOLEAN : LoadAll(may)
        /\ mayReadRoles' \in BOOLEAN
        /\ UNCHANGED <<existing, selectedRoleId, draftOf, saveBusy, saves, createDialog,
                       creates, overlapped>>
    BY <1>1, <1>2 DEF rolesRefresh, rolesProfile
  <2>2. Remembers
    BY <1>2, ClickRemembers DEF RolesClick, rolesRefresh, rolesProfile
  <2>3. QED
    BY <2>1, <2>2, LoadAllKeeps
<1>3. CASE drawDraft \/ openCreateRole \/ \E id \in 1..MaxRoles : selectRole(id)
  <2>1. Remembers
    BY <1>3, ClickRemembers DEF RolesClick, drawDraft, openCreateRole, selectRole, Remembers
  <2>2. \A id \in 1..MaxRoles : id \in Nat
    OBVIOUS
  <2>3. QED
    BY <1>3, <2>1, <2>2, ChoiceKeeps
<1>4. CASE savePermissions \/ submitCreateRole
  <2>1. Remembers
    BY <1>4, ClickRemembers DEF RolesClick, savePermissions, submitCreateRole
  <2>2. QED
    BY <1>4, <2>1, SaveRoleKeeps, SubmitRoleKeeps
<1>5. CASE \E i \in DOMAIN creates : createRole(i)
  <2>1. Remembers
    BY <1>5 DEF createRole, Remembers
  <2>2. QED
    BY <1>5, <2>1, CreateRoleKeeps
<1>6. ASSUME NEW outcome \in Outcomes,
             \/ \E i \in DOMAIN asksAll, n \in 1..MaxRoles : loadAll(i, outcome, n)
             \/ \E i \in DOMAIN saves : permissionsSaved(i, outcome)
             \/ \E i \in DOMAIN creates : roleCreated(i, outcome)
      PROVE  Remembers /\ RolesInv'
  <2>1. Ends("system/roles", outcome)
    BY <1>6 DEF RolesEnds, loadAll, permissionsSaved, roleCreated
  <2>2. Remembers /\ (outcome = "throws" => rejected')
    BY <2>1, EndRemembers
  <2>3. QED
    BY <1>6, <2>2, AllArriveKeeps, RoleSavedKeeps, RoleCreatedKeeps
<1>7. QED
  BY <1>2, <1>3, <1>4, <1>5, <1>6 DEF SystemRolesNext

-----------------------------------------------------------------------------
(* The page of the figures.                                                *)

OverviewInv == overviewAsked \in Nat /\ overviewLoading \in BOOLEAN /\ OverviewWaits

LEMMA OverviewMountInv == OverviewMount => OverviewInv
  BY DEF OverviewMount, OverviewInv, OverviewWaits

LEMMA OverviewUnchanged ==
  ASSUME OverviewInv, Remembers, UNCHANGED overviewVars
  PROVE  OverviewInv'
  BY DEF Remembers, overviewVars, OverviewInv, OverviewWaits

LEMMA OverviewKeep ==
  ASSUME rejected \in BOOLEAN, OverviewInv, OverviewNext
  PROVE  Remembers /\ OverviewInv'
<1>1. CASE overviewRefresh
  BY <1>1, ClickRemembers DEF overviewRefresh, OverviewInv, OverviewWaits
<1>2. ASSUME NEW outcome \in Outcomes, load(outcome)
      PROVE  Remembers /\ OverviewInv'
  <2>1. Remembers /\ (outcome = "throws" => rejected')
    BY <1>2, EndRemembers DEF load
  <2>2. /\ overviewAsked \in Nat /\ overviewAsked > 0 /\ overviewAsked' = overviewAsked - 1
        /\ overviewLoading' = (overviewLoading /\ outcome = "throws")
    BY <1>2 DEF load, OverviewInv
  <2>3. overviewAsked' \in Nat /\ overviewLoading' \in BOOLEAN
    BY <2>2
  <2>4. OverviewWaits'
    BY <2>1, <2>2 DEF OverviewWaits
  <2>5. QED
    BY <2>1, <2>3, <2>4 DEF OverviewInv
<1>3. QED
  BY <1>1, <1>2 DEF OverviewNext

-----------------------------------------------------------------------------
(* The passkeys of the settings.                                           *)

KeysTypeOK ==
    /\ keys \in SUBSET Keys
    /\ keyList \in (SUBSET Keys) \cup {Null}
    /\ keysAsked \in [got : (SUBSET Keys) \cup {Null}] \cup {Null}
    /\ passkeyBusy \in BOOLEAN
    /\ passkeyDeletingId \in Keys \cup {Null}
    /\ adding \in [key : Keys \cup {Null}] \cup {Null}
    /\ deleting \in [key : Keys, done : BOOLEAN] \cup {Null}
    /\ keyListStale \in BOOLEAN

\* No change has been made whose answer is still on its way, or was lost.
NoChangeOut ==
    /\ ~keyListStale
    /\ adding # Null => adding.key = Null
    /\ deleting # Null => ~deleting.done

\* Then the answer that is on its way has what the server has, and so has the
\* list when none is.
AnswerCurrent ==
    NoChangeOut =>
        /\ keysAsked = Null => keyList = keys
        /\ keysAsked # Null /\ keysAsked.got # Null => keysAsked.got = keys

\* A call of a button is out only while the button is disabled.
CallsDisable ==
    /\ adding # Null => passkeyBusy
    /\ deleting # Null => passkeyDeletingId # Null

KeysInv == KeysTypeOK /\ AnswerCurrent /\ PasskeysWait /\ CallsDisable

LEMMA AskedType ==
  /\ Asked \in [got : (SUBSET Keys) \cup {Null}] /\ Asked.got = Null /\ Asked # Null
  BY KeyAssumption DEF Asked

LEMMA KeysMountInv == KeysMount => KeysInv
<1> SUFFICES ASSUME KeysMount PROVE KeysInv
  OBVIOUS
<1> USE DEF KeysMount
<1>1. KeysTypeOK
  BY AskedType DEF KeysTypeOK
<1>2. AnswerCurrent /\ PasskeysWait /\ CallsDisable
  BY AskedType DEF AnswerCurrent, PasskeysWait, CallsDisable
<1>3. QED
  BY <1>1, <1>2 DEF KeysInv

LEMMA KeysUnchanged ==
  ASSUME KeysInv, UNCHANGED keyVars
  PROVE  KeysInv'
  BY DEF keyVars, KeysInv, KeysTypeOK, AnswerCurrent, NoChangeOut, PasskeysWait, CallsDisable

\* What the list shows follows from the invariant.
LEMMA KeysInvShows == KeysInv => PasskeysShown
  BY DEF KeysInv, AnswerCurrent, NoChangeOut, PasskeysShown

\* A change goes out, and is handled.
LEMMA ChangeKeeps ==
  ASSUME KeysInv,
         removed \/ addPasskey \/ \E k \in Keys : removePasskey(k) \/ added(k)
  PROVE  KeysInv'
<1>1. ASSUME NEW k \in Keys, removePasskey(k) PROVE KeysInv'
  <2> DEFINE call == [key |-> k, done |-> FALSE]
  <2>1. call \in [key : Keys, done : BOOLEAN] /\ ~call.done
    OBVIOUS
  <2>2. k # Null /\ call # Null
    BY <2>1, KeyAssumption
  <2>3. deleting' = call /\ passkeyDeletingId' = k
    BY <1>1 DEF removePasskey
  <2>4. UNCHANGED <<keys, keyList, keysAsked, passkeyBusy, adding, keyListStale>>
    BY <1>1 DEF removePasskey
  <2>5. deleting = Null
    BY <1>1 DEF removePasskey, KeysInv, CallsDisable
  <2> HIDE DEF call
  <2>6. KeysTypeOK'
    BY <2>1, <2>3, <2>4 DEF KeysInv, KeysTypeOK
  <2>7. AnswerCurrent'
    BY <2>1, <2>3, <2>4, <2>5 DEF KeysInv, AnswerCurrent, NoChangeOut
  <2>8. PasskeysWait' /\ CallsDisable'
    BY <2>2, <2>3, <2>4 DEF KeysInv, PasskeysWait, CallsDisable
  <2>9. QED
    BY <2>6, <2>7, <2>8 DEF KeysInv
<1>2. ASSUME NEW k \in Keys, added(k) PROVE KeysInv'
  <2>1. adding' \in [key : Keys \cup {Null}] /\ adding' # Null /\ adding'.key # Null
    BY <1>2, KeyAssumption DEF added
  <2>2. QED
    BY <1>2, <2>1 DEF added, KeysInv, KeysTypeOK, AnswerCurrent, NoChangeOut, PasskeysWait, CallsDisable
<1>3. CASE removed
  <2>1. deleting \in [key : Keys, done : BOOLEAN]
    BY <1>3 DEF removed, KeysInv, KeysTypeOK
  <2>2. /\ deleting' \in [key : Keys, done : BOOLEAN] /\ deleting' # Null /\ deleting'.done
    BY <1>3, <2>1, KeyAssumption DEF removed
  <2>3. QED
    BY <1>3, <2>2 DEF removed, KeysInv, KeysTypeOK, AnswerCurrent, NoChangeOut, PasskeysWait, CallsDisable
<1>4. CASE addPasskey
  <2>1. adding' \in [key : Keys \cup {Null}] /\ adding' # Null /\ adding'.key = Null
    BY <1>4, KeyAssumption DEF addPasskey
  <2>2. UNCHANGED <<keys, keyList, keysAsked, deleting, keyListStale, passkeyDeletingId>>
    BY <1>4 DEF addPasskey
  <2>3. adding = Null
    BY <1>4 DEF addPasskey, KeysInv, CallsDisable
  <2>4. QED
    BY <1>4, <2>1, <2>2, <2>3
    DEF addPasskey, KeysInv, KeysTypeOK, AnswerCurrent, NoChangeOut, PasskeysWait, CallsDisable
<1>5. QED
  BY <1>1, <1>2, <1>3, <1>4

\* A change ends: after a success the list is asked for again.
LEMMA ChangeEndKeeps ==
  ASSUME KeysInv, NEW ok \in BOOLEAN, removalEnds(ok) \/ additionEnds(ok)
  PROVE  KeysInv'
<1>1. KeysTypeOK'
  BY AskedType DEF KeysInv, KeysTypeOK, removalEnds, additionEnds
<1>2. AnswerCurrent'
  <2>1. CASE ok
    BY <2>1, AskedType DEF AnswerCurrent, removalEnds, additionEnds
  <2>2. CASE ~ok
    BY <2>2 DEF KeysInv, AnswerCurrent, NoChangeOut, removalEnds, additionEnds
  <2>3. QED
    BY <2>1, <2>2
<1>3. PasskeysWait' /\ CallsDisable'
  BY DEF KeysInv, PasskeysWait, CallsDisable, removalEnds, additionEnds
<1>4. QED
  BY <1>1, <1>2, <1>3 DEF KeysInv

\* The list is asked for, handled and answered.
LEMMA KeyListKeeps ==
  ASSUME KeysInv, listPasskeys \/ keyListArrives \/ revalidateOnFocus
  PROVE  KeysInv'
<1>1. CASE listPasskeys
  <2>1. /\ keysAsked' \in [got : (SUBSET Keys) \cup {Null}] /\ keysAsked' # Null
        /\ keysAsked'.got = keys
    BY <1>1, KeyAssumption DEF listPasskeys, KeysInv, KeysTypeOK
  <2>2. QED
    BY <1>1, <2>1
    DEF listPasskeys, KeysInv, KeysTypeOK, AnswerCurrent, NoChangeOut, PasskeysWait, CallsDisable
<1>2. CASE keyListArrives
  <2>1. keysAsked \in [got : (SUBSET Keys) \cup {Null}] /\ keysAsked # Null /\ keysAsked.got # Null
    <3>1. keysAsked \in [got : (SUBSET Keys) \cup {Null}] /\ keysAsked # Null /\ keysAsked # Asked
      BY <1>2 DEF keyListArrives, KeysInv, KeysTypeOK
    <3>2. keysAsked.got # Null
      BY <3>1 DEF Asked
    <3>3. QED
      BY <3>1, <3>2
  <2>2. keysAsked.got \in SUBSET Keys
    BY <2>1
  <2>3. QED
    BY <1>2, <2>1, <2>2
    DEF keyListArrives, KeysInv, KeysTypeOK, AnswerCurrent, NoChangeOut, PasskeysWait, CallsDisable
<1>3. CASE revalidateOnFocus
  BY <1>3, AskedType
  DEF revalidateOnFocus, KeysInv, KeysTypeOK, AnswerCurrent, NoChangeOut, PasskeysWait, CallsDisable
<1>4. QED
  BY <1>1, <1>2, <1>3

LEMMA SettingsPasskeysKeep ==
  ASSUME rejected \in BOOLEAN, KeysInv, SettingsPasskeysNext
  PROVE  Remembers /\ KeysInv'
<1>1. CASE (\E k \in Keys : removePasskey(k) \/ added(k)) \/ removed \/ addPasskey
  <2>1. Remembers
    BY <1>1, ClickRemembers
    DEF KeyClick, KeyBackground, removePasskey, added, removed, addPasskey, Remembers
  <2>2. QED
    BY <1>1, <2>1, ChangeKeeps
<1>2. CASE \E ok \in BOOLEAN : removalEnds(ok) \/ additionEnds(ok)
  <2>1. Remembers
    BY <1>2 DEF KeyBackground, removalEnds, additionEnds, Remembers
  <2>2. QED
    BY <1>2, <2>1, ChangeEndKeeps
<1>3. CASE listPasskeys \/ keyListArrives \/ revalidateOnFocus
  <2>1. Remembers
    BY <1>3, ClickRemembers
    DEF KeyClick, KeyBackground, listPasskeys, keyListArrives, revalidateOnFocus, Remembers
  <2>2. QED
    BY <1>3, <2>1, KeyListKeeps
<1>4. QED
  BY <1>1, <1>2, <1>3 DEF SettingsPasskeysNext

-----------------------------------------------------------------------------
(* The preferences of the workspace.                                       *)

Prefs == [PrefKeys -> BOOLEAN]

WorkspaceTypeOK ==
    /\ stored \in Prefs
    /\ hooks \in [PrefTabs -> Prefs]
    /\ document \in [PrefTabs -> [Applied -> BOOLEAN]]
    /\ undelivered \in SUBSET PrefTabs
    /\ appliedBy \in [Applied -> PrefTabs \cup {Null}]
    /\ lateFold \in BOOLEAN

WorkspaceInv == WorkspaceTypeOK /\ TabsFollowStorage /\ LayoutsExclude /\ AppliedWhereChosen

LEMMA WorkspaceMountInv == WorkspaceMount => WorkspaceInv
<1> SUFFICES ASSUME WorkspaceMount PROVE WorkspaceInv
  OBVIOUS
<1>1. stored \in Prefs
  BY DEF WorkspaceMount, Prefs
<1>2. Chosen(stored) \in [Applied -> BOOLEAN]
  BY <1>1 DEF Chosen, Prefs, PrefKeys
<1>3. WorkspaceTypeOK
  BY <1>1, <1>2 DEF WorkspaceMount, WorkspaceTypeOK
<1>4. TabsFollowStorage /\ LayoutsExclude /\ AppliedWhereChosen
  BY DEF WorkspaceMount, TabsFollowStorage, LayoutsExclude, AppliedWhereChosen
<1>5. QED
  BY <1>3, <1>4 DEF WorkspaceInv

LEMMA WorkspaceUnchanged ==
  ASSUME WorkspaceInv, UNCHANGED workspaceVars
  PROVE  WorkspaceInv'
  BY DEF workspaceVars, WorkspaceInv, WorkspaceTypeOK, TabsFollowStorage, LayoutsExclude,
         AppliedWhereChosen

\* What a setter does to the storage and the hooks; both layouts can be stored
\* only by one whose tab has not heard of the other's choice.
LEMMA ChooseKeeps ==
  ASSUME WorkspaceInv, NEW t \in PrefTabs, NEW prefs \in Prefs, Choose(t, prefs),
         prefs["folded"] /\ prefs["dual_menu"] =>
            lateFold \/ (~stored["folded"] /\ t \in undelivered)
  PROVE  /\ stored' \in Prefs /\ hooks' \in [PrefTabs -> Prefs]
         /\ undelivered' \in SUBSET PrefTabs /\ lateFold' \in BOOLEAN
         /\ TabsFollowStorage' /\ LayoutsExclude'
<1> USE DEF WorkspaceInv, WorkspaceTypeOK, Choose
<1>1. stored' \in Prefs /\ hooks' \in [PrefTabs -> Prefs]
  OBVIOUS
<1>2. undelivered' \in SUBSET PrefTabs /\ lateFold' \in BOOLEAN
  BY DEF Prefs, PrefKeys
<1>3. TabsFollowStorage'
  BY DEF TabsFollowStorage
<1>4. LayoutsExclude'
  BY DEF LayoutsExclude
<1>5. QED
  BY <1>1, <1>2, <1>3, <1>4

LEMMA SetPrefKeeps ==
  ASSUME WorkspaceInv, NEW t \in PrefTabs, NEW key \in PrefKeys \ Applied, NEW value \in BOOLEAN,
         setPref(t, key, value),
         value /\ key = "folded" /\ stored["dual_menu"] => t \in undelivered,
         ~(value /\ key = "dual_menu")
  PROVE  WorkspaceInv'
<1> DEFINE prefs == [stored EXCEPT ![key] = value]
<1>1. prefs \in Prefs
  BY DEF WorkspaceInv, WorkspaceTypeOK, Prefs
<1>2. /\ Choose(t, prefs) /\ stored' = prefs
      /\ UNCHANGED <<document, appliedBy>>
  BY DEF setPref, Choose
<1>3. prefs["folded"] /\ prefs["dual_menu"] =>
         lateFold \/ (~stored["folded"] /\ t \in undelivered)
  BY DEF WorkspaceInv, WorkspaceTypeOK, LayoutsExclude, Prefs, PrefKeys
<1>4. \A k \in Applied : prefs[k] = stored[k]
  BY DEF WorkspaceInv, WorkspaceTypeOK, Prefs, PrefKeys
<1> HIDE DEF prefs
<1>5. AppliedWhereChosen'
  BY <1>2, <1>4 DEF WorkspaceInv, AppliedWhereChosen
<1>6. QED
  BY <1>1, <1>2, <1>3, <1>5, ChooseKeeps DEF WorkspaceInv, WorkspaceTypeOK

LEMMA SetAppliedKeeps ==
  ASSUME WorkspaceInv, NEW t \in PrefTabs, NEW key \in Applied, NEW value \in BOOLEAN,
         setApplied(t, key, value)
  PROVE  WorkspaceInv'
<1> DEFINE prefs == [stored EXCEPT ![key] = value]
<1>1. prefs \in Prefs
  BY DEF WorkspaceInv, WorkspaceTypeOK, Prefs
<1>2. /\ Choose(t, prefs) /\ stored' = prefs
      /\ document' = [document EXCEPT ![t][key] = value]
      /\ appliedBy' = [appliedBy EXCEPT ![key] = t]
  BY DEF setApplied, Choose
<1>3. prefs["folded"] /\ prefs["dual_menu"] =>
         lateFold \/ (~stored["folded"] /\ t \in undelivered)
  BY DEF WorkspaceInv, WorkspaceTypeOK, LayoutsExclude, Prefs, PrefKeys, Applied
<1>4. \A k \in Applied : prefs[k] = IF k = key THEN value ELSE stored[k]
  BY DEF WorkspaceInv, WorkspaceTypeOK, Prefs, PrefKeys
<1> HIDE DEF prefs
<1>5. document' \in [PrefTabs -> [Applied -> BOOLEAN]]
  BY <1>2 DEF WorkspaceInv, WorkspaceTypeOK
<1>6. appliedBy' \in [Applied -> PrefTabs \cup {Null}]
  BY <1>2 DEF WorkspaceInv, WorkspaceTypeOK
<1>7. \A k \in Applied :
        /\ appliedBy'[k] = IF k = key THEN t ELSE appliedBy[k]
        /\ \A s \in PrefTabs :
             document'[s][k] = IF s = t /\ k = key THEN value ELSE document[s][k]
  BY <1>2 DEF WorkspaceInv, WorkspaceTypeOK
<1>8. AppliedWhereChosen'
  BY <1>2, <1>4, <1>6, <1>7 DEF WorkspaceInv, WorkspaceTypeOK, AppliedWhereChosen
<1>9. QED
  BY <1>1, <1>2, <1>3, <1>5, <1>6, <1>8, ChooseKeeps DEF WorkspaceInv, WorkspaceTypeOK

LEMMA ChooseDualKeeps ==
  ASSUME WorkspaceInv, NEW t \in PrefTabs, ChooseDualMenu(t)
  PROVE  WorkspaceInv'
<1> DEFINE prefs == [stored EXCEPT !["dual_menu"] = TRUE, !["folded"] = FALSE]
<1>1. prefs \in Prefs /\ ~prefs["folded"]
  BY DEF WorkspaceInv, WorkspaceTypeOK, Prefs, PrefKeys
<1>2. /\ Choose(t, prefs) /\ stored' = prefs
      /\ UNCHANGED <<document, appliedBy>>
  BY DEF ChooseDualMenu, Choose
<1>3. \A k \in Applied : prefs[k] = stored[k]
  BY DEF WorkspaceInv, WorkspaceTypeOK, Prefs, PrefKeys, Applied
<1> HIDE DEF prefs
<1>4. AppliedWhereChosen'
  BY <1>2, <1>3 DEF WorkspaceInv, AppliedWhereChosen
<1>5. QED
  BY <1>1, <1>2, <1>4, ChooseKeeps DEF WorkspaceInv, WorkspaceTypeOK

\* A tab that hears of the storage reads all of it.
LEMMA ReadKeeps ==
  ASSUME WorkspaceInv, NEW t \in PrefTabs, PrefsSync(t) \/ ReloadPrefs(t)
  PROVE  WorkspaceInv'
<1> USE DEF WorkspaceInv, WorkspaceTypeOK
<1>1. /\ UNCHANGED <<stored, appliedBy, lateFold>>
      /\ undelivered' = undelivered \ {t} /\ hooks' = [hooks EXCEPT ![t] = stored]
      /\ document' \in {document, [document EXCEPT ![t] = Chosen(stored)]}
  BY DEF PrefsSync, ReloadPrefs
<1>2. Chosen(stored) \in [Applied -> BOOLEAN] /\ \A k \in Applied : Chosen(stored)[k] = stored[k]
  BY DEF Chosen, Prefs, PrefKeys
<1>3. /\ document' \in [PrefTabs -> [Applied -> BOOLEAN]]
      /\ \A s \in PrefTabs : document'[s] = document[s] \/ document'[s] = Chosen(stored)
  BY <1>1, <1>2
<1>4. WorkspaceTypeOK'
  BY <1>1, <1>3
<1>5. TabsFollowStorage' /\ LayoutsExclude'
  BY <1>1 DEF TabsFollowStorage, LayoutsExclude
<1>6. AppliedWhereChosen'
  BY <1>1, <1>2, <1>3 DEF AppliedWhereChosen
<1>7. QED
  BY <1>4, <1>5, <1>6

LEMMA WorkspaceKeep ==
  ASSUME rejected \in BOOLEAN, WorkspaceInv, WorkspaceNext
  PROVE  Remembers /\ WorkspaceInv'
<1> PICK t \in PrefTabs :
       \/ \E value \in BOOLEAN :
             \/ setTablePageSize(t, value) \/ setSidebarCompact(t, value)
             \/ setSidebarNavStyle(t, value)
             \/ setReduceMotion(t, value) \/ setScrollbarPref(t, value)
       \/ FoldSidebar(t) \/ ChooseDualMenu(t) \/ ChooseTreeMenu(t)
       \/ PrefsSync(t) \/ ReloadPrefs(t)
  BY DEF WorkspaceNext
<1> USE DEF PrefKeys, Applied
<1>1. ASSUME NEW value \in BOOLEAN,
             setTablePageSize(t, value) \/ setSidebarCompact(t, value)
               \/ setSidebarNavStyle(t, value)
      PROVE  Remembers /\ WorkspaceInv'
  <2>1. PICK key \in {"page_size", "compact", "nav_style"} : setPref(t, key, value)
    BY <1>1 DEF setTablePageSize, setSidebarCompact, setSidebarNavStyle
  <2>2. Remembers
    BY <2>1, ClickRemembers DEF setPref, Choose
  <2>3. QED
    BY <2>1, <2>2, SetPrefKeeps
<1>2. ASSUME NEW value \in BOOLEAN, setReduceMotion(t, value) \/ setScrollbarPref(t, value)
      PROVE  Remembers /\ WorkspaceInv'
  <2>1. PICK key \in Applied : setApplied(t, key, value)
    BY <1>2 DEF setReduceMotion, setScrollbarPref
  <2>2. Remembers
    BY <2>1, ClickRemembers DEF setApplied, Choose
  <2>3. QED
    BY <2>1, <2>2, SetAppliedKeeps
<1>3. CASE FoldSidebar(t)
  <2>1. setPref(t, "folded", ~hooks[t]["folded"]) /\ ~hooks[t]["dual_menu"]
    BY <1>3 DEF FoldSidebar
  <2>2. (~hooks[t]["folded"]) \in BOOLEAN
    OBVIOUS
  <2>3. stored["dual_menu"] => t \in undelivered
    BY <2>1 DEF WorkspaceInv, TabsFollowStorage
  <2>4. Remembers
    BY <2>1, ClickRemembers DEF setPref, Choose
  <2>5. QED
    BY <2>1, <2>2, <2>3, <2>4, SetPrefKeeps
<1>4. CASE ChooseTreeMenu(t)
  <2>1. setPref(t, "dual_menu", FALSE)
    BY <1>4 DEF ChooseTreeMenu
  <2>2. Remembers
    BY <2>1, ClickRemembers DEF setPref, Choose
  <2>3. QED
    BY <2>1, <2>2, SetPrefKeeps
<1>5. CASE ChooseDualMenu(t)
  BY <1>5, ClickRemembers, ChooseDualKeeps DEF ChooseDualMenu, Choose
<1>6. CASE PrefsSync(t) \/ ReloadPrefs(t)
  <2>1. Remembers
    BY <1>6, ClickRemembers DEF PrefsSync, ReloadPrefs, Remembers
  <2>2. QED
    BY <1>6, <2>1, ReadKeeps
<1>7. QED
  BY <1>1, <1>2, <1>3, <1>4, <1>5, <1>6

-----------------------------------------------------------------------------
(* The theme and the palette.                                              *)

TabThemes == [pref : Preferences, palette : Palettes]

ThemeTypeOK ==
    /\ themeStored \in [pref : Preferences \cup {Null}, palette : Palettes \cup {Null},
                        legacy : Modes \cup {Null}]
    /\ themes \in [ThemeTabs -> TabThemes \cup {Null}]
    /\ systemDark \in BOOLEAN
    /\ systemEpoch \in SUBSET ThemeTabs
    /\ shownTheme \in [ThemeTabs -> Modes \cup {Null}]
    /\ themeWriter \in ThemeTabs \cup {Null}

\* Only a tab that follows the system is told of its changes.
ToldFollow == \A t \in systemEpoch : themes[t] \in TabThemes /\ themes[t].pref = "system"

ThemeInv == ThemeTypeOK /\ ToldFollow /\ ThemeOfOneTab /\ ThemeShown

LEMMA ThemeMountInv == ThemeMount => ThemeInv
<1> SUFFICES ASSUME ThemeMount PROVE ThemeInv
  OBVIOUS
<1>1. ThemeTypeOK
  BY DEF ThemeMount, ThemeTypeOK
<1>2. ToldFollow /\ ThemeOfOneTab /\ ThemeShown
  BY DEF ThemeMount, ToldFollow, ThemeOfOneTab, ThemeShown
<1>3. QED
  BY <1>1, <1>2 DEF ThemeInv

LEMMA ThemeUnchanged ==
  ASSUME ThemeInv, UNCHANGED themeVars
  PROVE  ThemeInv'
  BY DEF themeVars, ThemeInv, ThemeTypeOK, ToldFollow, ThemeOfOneTab, ThemeShown,
         resolveEffectiveTheme, SystemMode

LEMMA ModeType == \A pref \in Preferences : resolveEffectiveTheme(pref) \in Modes
  BY DEF resolveEffectiveTheme, SystemMode, Preferences, Modes

\* A tab writes its state: what is stored is then all of it.
LEMMA WriteThemeStores ==
  ASSUME ThemeTypeOK, NEW t \in ThemeTabs, NEW state \in TabThemes, WriteTheme(t, state)
  PROVE  /\ themes' \in [ThemeTabs -> TabThemes \cup {Null}] /\ themes'[t] = state
         /\ \A s \in ThemeTabs \ {t} : themes'[s] = themes[s]
         /\ themeStored' \in [pref : Preferences \cup {Null}, palette : Palettes \cup {Null},
                              legacy : Modes \cup {Null}]
         /\ themeWriter' \in ThemeTabs
         /\ ThemeOfOneTab'
<1>1. /\ themes' = [themes EXCEPT ![t] = state] /\ themeWriter' = t
      /\ themeStored' = [themeStored EXCEPT !.pref = state.pref, !.palette = state.palette]
  BY DEF WriteTheme
<1>2. /\ themes' \in [ThemeTabs -> TabThemes \cup {Null}] /\ themes'[t] = state
      /\ \A s \in ThemeTabs \ {t} : themes'[s] = themes[s]
  BY <1>1 DEF ThemeTypeOK
<1>3. themeStored' = [pref |-> state.pref, palette |-> state.palette, legacy |-> themeStored.legacy]
  BY <1>1 DEF ThemeTypeOK
<1>4. state.pref \in Preferences /\ state.palette \in Palettes
      /\ themeStored.legacy \in Modes \cup {Null}
  BY DEF TabThemes, ThemeTypeOK
<1>5. state = [pref |-> state.pref, palette |-> state.palette]
  BY DEF TabThemes
<1>6. themeStored'.pref = state.pref /\ themeStored'.palette = state.palette
  BY <1>3
<1>7. ThemeOfOneTab'
  BY <1>1, <1>2, <1>5, <1>6 DEF ThemeOfOneTab
<1>8. QED
  BY <1>1, <1>2, <1>3, <1>4, <1>7

LEMMA SetThemeKeeps ==
  ASSUME ThemeInv, NEW t \in ThemeTabs, NEW state \in TabThemes,
         themes[t] # Null, SetTheme(t, state)
  PROVE  ThemeInv'
<1>0. ThemeTypeOK /\ themes[t] \in TabThemes /\ state.pref \in Preferences /\ systemDark' = systemDark
  BY DEF ThemeInv, ThemeTypeOK, SetTheme, TabThemes
<1>1. /\ themes' \in [ThemeTabs -> TabThemes \cup {Null}] /\ themes'[t] = state
      /\ \A s \in ThemeTabs \ {t} : themes'[s] = themes[s]
      /\ themeStored' \in [pref : Preferences \cup {Null}, palette : Palettes \cup {Null},
                           legacy : Modes \cup {Null}]
      /\ themeWriter' \in ThemeTabs \cup {Null}
      /\ ThemeOfOneTab'
  <2>1. CASE state = themes[t]
    BY <2>1, <1>0 DEF SetTheme, ThemeInv, ThemeTypeOK, ThemeOfOneTab
  <2>2. CASE state # themes[t]
    BY <2>2, <1>0, WriteThemeStores DEF SetTheme
  <2>3. QED
    BY <2>1, <2>2
<1>2. CASE state.pref = themes[t].pref
  <2>1. UNCHANGED <<shownTheme, systemEpoch>>
    BY <1>2 DEF SetTheme
  <2>2. ToldFollow' /\ ThemeTypeOK'
    BY <1>0, <1>1, <1>2, <2>1 DEF ThemeInv, ThemeTypeOK, ToldFollow
  <2>3. ThemeShown'
    BY <1>0, <1>1, <1>2, <2>1
    DEF ThemeInv, ThemeShown, resolveEffectiveTheme, SystemMode
  <2>4. QED
    BY <1>1, <2>2, <2>3 DEF ThemeInv
<1>3. CASE state.pref # themes[t].pref
  <2>1. ResolveTheme(t, state.pref)
    BY <1>3 DEF SetTheme
  <2>2. /\ shownTheme' \in [ThemeTabs -> Modes \cup {Null}]
        /\ shownTheme'[t] = resolveEffectiveTheme(state.pref)
        /\ \A s \in ThemeTabs \ {t} : shownTheme'[s] = shownTheme[s]
        /\ systemEpoch' = systemEpoch \ {t}
    BY <1>0, <2>1, ModeType DEF ResolveTheme, ThemeTypeOK
  <2>3. ToldFollow' /\ ThemeTypeOK'
    BY <1>0, <1>1, <2>2 DEF ThemeInv, ThemeTypeOK, ToldFollow
  <2>4. ThemeShown'
    BY <1>0, <1>1, <2>2
    DEF ThemeInv, ThemeShown, resolveEffectiveTheme, SystemMode
  <2>5. QED
    BY <1>1, <2>3, <2>4 DEF ThemeInv
<1>4. QED
  BY <1>2, <1>3

\* A tab is loaded, or hears of the system's theme.
LEMMA ResolveKeeps ==
  ASSUME ThemeInv, NEW t \in ThemeTabs, NEW state \in TabThemes, ResolveTheme(t, state.pref),
         UNCHANGED systemDark,
         \/ WriteTheme(t, state)
         \/ themes[t] = state /\ UNCHANGED <<themes, themeStored, themeWriter>>
  PROVE  ThemeInv'
<1>0. ThemeTypeOK /\ state.pref \in Preferences
  BY DEF ThemeInv, TabThemes
<1>1. /\ themes' \in [ThemeTabs -> TabThemes \cup {Null}] /\ themes'[t] = state
      /\ \A s \in ThemeTabs \ {t} : themes'[s] = themes[s]
      /\ themeStored' \in [pref : Preferences \cup {Null}, palette : Palettes \cup {Null},
                           legacy : Modes \cup {Null}]
      /\ themeWriter' \in ThemeTabs \cup {Null}
      /\ ThemeOfOneTab'
  <2>1. CASE WriteTheme(t, state)
    BY <2>1, <1>0, WriteThemeStores
  <2>2. CASE themes[t] = state /\ UNCHANGED <<themes, themeStored, themeWriter>>
    BY <2>2 DEF ThemeInv, ThemeTypeOK, ThemeOfOneTab
  <2>3. QED
    BY <2>1, <2>2
<1>2. /\ shownTheme' \in [ThemeTabs -> Modes \cup {Null}]
      /\ shownTheme'[t] = resolveEffectiveTheme(state.pref)
      /\ \A s \in ThemeTabs \ {t} : shownTheme'[s] = shownTheme[s]
      /\ systemEpoch' = systemEpoch \ {t}
  BY <1>0, ModeType DEF ResolveTheme, ThemeTypeOK
<1>3. ToldFollow' /\ ThemeTypeOK'
  BY <1>0, <1>1, <1>2 DEF ThemeInv, ThemeTypeOK, ToldFollow
<1>4. ThemeShown'
  BY <1>0, <1>1, <1>2 DEF ThemeInv, ThemeShown, resolveEffectiveTheme, SystemMode
<1>5. QED
  BY <1>1, <1>3, <1>4 DEF ThemeInv

LEMMA LoadThemeKeeps ==
  ASSUME ThemeInv, NEW t \in ThemeTabs, LoadTheme(t)
  PROVE  ThemeInv'
<1>1. readPreference \in Preferences /\ readStoredPaletteId \in Palettes
  BY DefaultAssumption
  DEF ThemeInv, ThemeTypeOK, readPreference, readStoredPaletteId, Preferences
<1> DEFINE state == [pref |-> readPreference, palette |-> readStoredPaletteId]
<1>2. state \in TabThemes /\ state.pref = readPreference
  BY <1>1 DEF TabThemes
<1>3. WriteTheme(t, state) /\ ResolveTheme(t, readPreference) /\ UNCHANGED systemDark
  BY DEF LoadTheme
<1> HIDE DEF state
<1>4. QED
  BY <1>2, <1>3, ResolveKeeps

LEMMA SystemThemeKeeps ==
  ASSUME ThemeInv, SystemThemeChanges \/ \E t \in ThemeTabs : SystemThemeHeard(t)
  PROVE  ThemeInv'
<1>1. CASE SystemThemeChanges
  <2>1. /\ systemDark' = ~systemDark
        /\ systemEpoch' = {t \in ThemeTabs : themes[t] # Null /\ themes[t].pref = "system"}
        /\ UNCHANGED <<themeStored, themes, shownTheme, themeWriter>>
    BY <1>1 DEF SystemThemeChanges
  <2>2. ThemeTypeOK' /\ ToldFollow' /\ ThemeOfOneTab'
    BY <2>1 DEF ThemeInv, ThemeTypeOK, ToldFollow, ThemeOfOneTab
  <2>3. ASSUME NEW t \in ThemeTabs, themes'[t] # Null, t \notin systemEpoch'
        PROVE  shownTheme'[t] = resolveEffectiveTheme(themes[t].pref)'
    <3>1. themes[t].pref # "system" /\ t \notin systemEpoch
      BY <2>1, <2>3 DEF ThemeInv, ToldFollow
    <3>2. shownTheme[t] = resolveEffectiveTheme(themes[t].pref)
      BY <2>1, <2>3, <3>1 DEF ThemeInv, ThemeShown
    <3>3. QED
      BY <2>1, <3>1, <3>2 DEF resolveEffectiveTheme
  <2>4. QED
    BY <2>1, <2>2, <2>3 DEF ThemeInv, ThemeShown
<1>2. ASSUME NEW t \in ThemeTabs, SystemThemeHeard(t) PROVE ThemeInv'
  <2>1. themes[t] \in TabThemes /\ themes[t].pref = "system"
    BY <1>2 DEF SystemThemeHeard, ThemeInv, ToldFollow
  <2>2. QED
    BY <1>2, <2>1, ResolveKeeps DEF SystemThemeHeard
<1>3. QED
  BY <1>1, <1>2

LEMMA ThemeKeep ==
  ASSUME rejected \in BOOLEAN, ThemeInv, ThemeNext
  PROVE  Remembers /\ ThemeInv'
<1>1. ASSUME NEW t \in ThemeTabs, NEW state \in TabThemes, themes[t] # Null, SetTheme(t, state)
      PROVE  Remembers /\ ThemeInv'
  BY <1>1, ClickRemembers, SetThemeKeeps DEF SetTheme
<1>2. ASSUME NEW t \in ThemeTabs,
             \/ toggleTheme(t)
             \/ \E pref \in Preferences : setThemePreference(t, pref)
             \/ \E id \in Palettes : setPaletteId(t, id)
      PROVE  \E state \in TabThemes : themes[t] # Null /\ SetTheme(t, state)
  <2>1. themes[t] \in TabThemes /\ themes[t] # Null
    BY <1>2
    DEF toggleTheme, setThemePreference, setPaletteId, ThemeInv, ThemeTypeOK
  <2>2. \A pref \in Preferences : [themes[t] EXCEPT !.pref = pref] \in TabThemes
    BY <2>1 DEF TabThemes
  <2>3. \A id \in Palettes : [themes[t] EXCEPT !.palette = id] \in TabThemes
    BY <2>1 DEF TabThemes
  <2>4. CASE toggleTheme(t)
    BY <2>1, <2>2, <2>4 DEF toggleTheme, Preferences, Modes
  <2>5. CASE \E pref \in Preferences : setThemePreference(t, pref)
    BY <2>1, <2>2, <2>5 DEF setThemePreference
  <2>6. CASE \E id \in Palettes : setPaletteId(t, id)
    BY <2>1, <2>3, <2>6 DEF setPaletteId
  <2>7. QED
    BY <1>2, <2>4, <2>5, <2>6
<1>3. ASSUME NEW t \in ThemeTabs, LoadTheme(t) PROVE Remembers /\ ThemeInv'
  BY <1>3, ClickRemembers, LoadThemeKeeps DEF LoadTheme
<1>4. CASE SystemThemeChanges \/ \E t \in ThemeTabs : SystemThemeHeard(t)
  <2>1. Remembers
    BY <1>4, ClickRemembers DEF SystemThemeChanges, SystemThemeHeard, Remembers
  <2>2. QED
    BY <1>4, <2>1, SystemThemeKeeps
<1>5. QED
  BY <1>1, <1>2, <1>3, <1>4 DEF ThemeNext

-----------------------------------------------------------------------------
(* The layout.                                                             *)

LayoutInv == menu \in Menus /\ RefreshOfThePage

LEMMA LayoutMountInv == LayoutMount => LayoutInv
  BY DEF LayoutMount, LayoutInv, RefreshOfThePage

LEMMA LayoutUnchanged ==
  ASSUME LayoutInv, UNCHANGED layoutVars
  PROVE  LayoutInv'
  BY DEF layoutVars, LayoutInv, RefreshOfThePage

\* What every menu of the layout links to is filtered; only the second column
\* shows what was chosen before.
LEMMA LayoutPermitted ==
  ASSUME menu \in Menus
  PROVE  MenuPermitted
<1> SUFFICES ASSUME Logs \in Sidebar \cup MobileMenu, ~mayAudit
             PROVE  menu = "dual" /\ segmentOverride # Null /\ segmentOverride.path = path
  BY DEF MenuPermitted
<1>1. \A g \in GroupIds : Logs \notin Kept(g)
  BY DEF Kept, navVisibleForPermissions
<1>2. Logs \notin {"/dashboard", "/settings", "/profile"}
  BY DEF Logs
<1>3. Logs \notin RailFlyout /\ Logs \notin SidebarTree /\ Logs \notin SegmentLeaves
  BY <1>1 DEF RailFlyout, SidebarTree, SegmentLeaves, filterNavByPermissions
<1>4. Logs \notin MobileMenu
  BY <1>2, <1>3 DEF MobileMenu
<1>5. Logs \in Sidebar
  BY <1>4
<1>6. menu \notin {"tree", "rail"}
  BY <1>2, <1>3, <1>5 DEF Sidebar
<1>7. menu = "dual"
  BY <1>6 DEF Menus
<1>8. Logs \in SubColumn
  BY <1>2, <1>5, <1>7 DEF Sidebar
<1>9. QED
  BY <1>3, <1>7, <1>8 DEF SubColumn

LEMMA LayoutKeep ==
  ASSUME rejected \in BOOLEAN, LayoutInv, LayoutNext
  PROVE  Remembers /\ LayoutInv'
<1>1. CASE \E leaf \in NavLeaves : SidebarLink(leaf) \/ MobileLink(leaf) \/ OtherLink(leaf)
  <2>1. PICK leaf \in NavLeaves : SidebarLink(leaf) \/ MobileLink(leaf) \/ OtherLink(leaf)
    BY <1>1
  <2>2. Remembers
    BY <2>1, ClickRemembers DEF LayoutClick, SidebarLink, MobileLink, OtherLink
  <2>3. GoTo(leaf) /\ menu' = menu
    BY <2>1 DEF SidebarLink, MobileLink, OtherLink
  <2>4. QED
    BY <2>2, <2>3 DEF GoTo, LayoutInv, RefreshOfThePage
<1>2. CASE \E g \in GroupIds : SidebarNavGroup(g) \/ ChooseSegment(g)
  BY <1>2, ClickRemembers
  DEF LayoutClick, SidebarNavGroup, ChooseSegment, LayoutInv, RefreshOfThePage
<1>3. CASE \E next \in Menus : MenuChanges(next)
  BY <1>3, ClickRemembers DEF LayoutClick, MenuChanges, LayoutInv, RefreshOfThePage
<1>4. CASE setMobileMenuOpen \/ setLogoutConfirmOpen \/ AuditChanges
  BY <1>4, ClickRemembers
  DEF LayoutClick, setMobileMenuOpen, setLogoutConfirmOpen, AuditChanges, LayoutInv,
      RefreshOfThePage
<1>5. CASE setDashboardRefresh
  BY <1>5 DEF LayoutBackground, Remembers, setDashboardRefresh, LayoutInv, RefreshOfThePage
<1>6. QED
  BY <1>1, <1>2, <1>3, <1>4, <1>5 DEF LayoutNext

-----------------------------------------------------------------------------
(* The login page.                                                         *)

FormStates ==
    [mode : Kinds, name : Names, code : Codes, busy : BOOLEAN, passkeyBusy : BOOLEAN]

\* A call, whatever captcha it carries.
CallShaped(call) ==
    call \in [kind : Kinds, shown : BOOLEAN, name : Names, captcha : {call.captcha},
              right : BOOLEAN, password : BOOLEAN, answer : {Null, "ok", "refused"}]

LoginShaped == form \in FormStates /\ \A call \in signIns : CallShaped(call)

\* A shown call of either kind disables its button: there is one of them.
Disables(call) == IF call.kind = "password" THEN form.busy ELSE form.passkeyBusy
OneCallEach ==
    /\ \A call \in signIns : call.shown => Disables(call)
    /\ \A c, d \in signIns : c.shown /\ d.shown /\ c.kind = d.kind => c = d

LoginInv == LoginShaped /\ NameOfTheForm /\ LoginWaits /\ OneCallEach

LEMMA BlankForm ==
  ASSUME NEW name \in Names
  PROVE  /\ Blank(name) \in FormStates /\ Blank(name).name = name
         /\ ~Blank(name).busy /\ ~Blank(name).passkeyBusy
  BY DEF Blank, FormStates, Kinds, Codes

LEMMA TypedForm ==
  ASSUME NEW old \in FormStates, NEW mode \in Kinds, NEW code \in Codes
  PROVE  \A new \in {[old EXCEPT !.mode = mode], [old EXCEPT !.code = code]} :
           /\ new \in FormStates
           /\ new.name = old.name /\ new.busy = old.busy /\ new.passkeyBusy = old.passkeyBusy
<1>1. [old EXCEPT !.mode = mode] = [mode |-> mode, name |-> old.name, code |-> old.code,
                                    busy |-> old.busy, passkeyBusy |-> old.passkeyBusy]
  BY DEF FormStates
<1>2. [old EXCEPT !.code = code] = [mode |-> old.mode, name |-> old.name, code |-> code,
                                    busy |-> old.busy, passkeyBusy |-> old.passkeyBusy]
  BY DEF FormStates
<1>3. old.mode \in Kinds /\ old.name \in Names /\ old.code \in Codes
        /\ old.busy \in BOOLEAN /\ old.passkeyBusy \in BOOLEAN
  BY DEF FormStates
<1>4. QED
  BY <1>1, <1>2, <1>3 DEF FormStates

\* A blank form without a shown call.
LEMMA QuietForm ==
  ASSUME NEW name \in Names, form = Blank(name),
         \A call \in signIns : CallShaped(call) /\ ~call.shown
  PROVE  LoginInv
  BY BlankForm DEF LoginInv, LoginShaped, NameOfTheForm, LoginWaits, OneCallEach

LEMMA LoginMountInv == LoginMount \/ NoLogin => LoginInv
<1> SUFFICES ASSUME LoginMount \/ NoLogin PROVE LoginInv
  OBVIOUS
<1> DEFINE first == CHOOSE name \in Names : TRUE
<1>1. first \in Names
  BY NamesAssumption
<1>2. form = Blank(first) /\ signIns = {}
  BY DEF LoginMount, NoLogin
<1> HIDE DEF first
<1>3. QED
  BY <1>1, <1>2, QuietForm

LEMMA LoginUnchanged ==
  ASSUME LoginInv, UNCHANGED <<form, signIns, signedAs>>
  PROVE  LoginInv'
  BY DEF LoginInv, LoginShaped, NameOfTheForm, LoginWaits, OneCallEach, Disables, CallShaped

\* A form whose state changes but for its flags, and for its name only when no
\* call of it is out.
LEMMA TypingKeeps ==
  ASSUME LoginInv, UNCHANGED <<signIns, signedAs>>, form' \in FormStates,
         form'.busy = form.busy, form'.passkeyBusy = form.passkeyBusy,
         form'.name = form.name \/ (~form.busy /\ ~form.passkeyBusy)
  PROVE  LoginInv'
<1>1. LoginShaped'
  BY DEF LoginInv, LoginShaped, CallShaped
<1>2. NameOfTheForm'
  BY DEF LoginInv, NameOfTheForm, OneCallEach, Disables
<1>3. LoginWaits' /\ OneCallEach'
  BY DEF LoginInv, LoginWaits, OneCallEach, Disables
<1>4. QED
  BY <1>1, <1>2, <1>3 DEF LoginInv

\* A call goes out.
LEMMA SendKeeps ==
  ASSUME LoginInv, NEW call, CallShaped(call), call.shown, call.name = form.name,
         OnLogin, ~Disables(call),
         form' \in FormStates, form'.name = form.name,
         form'.busy <=> form.busy \/ call.kind = "password",
         form'.passkeyBusy <=> form.passkeyBusy \/ call.kind = "passkey",
         signIns' = signIns \cup {call}, signedAs' = signedAs
  PROVE  LoginInv'
<1>1. call.kind \in Kinds /\ form.busy \in BOOLEAN /\ form.passkeyBusy \in BOOLEAN
  BY DEF CallShaped, LoginInv, LoginShaped, FormStates
<1>2. LoginShaped'
  BY DEF LoginInv, LoginShaped, CallShaped
<1>3. NameOfTheForm'
  BY DEF LoginInv, NameOfTheForm, OnLogin
<1>4. LoginWaits'
  BY <1>1 DEF LoginInv, LoginWaits
<1>5. \A c \in signIns' : c.shown => Disables(c)'
  BY <1>1 DEF LoginInv, OneCallEach, Disables, Kinds
<1>6. \A c \in signIns : c.shown => c.kind # call.kind
  BY DEF LoginInv, OneCallEach, Disables
<1>7. OneCallEach'
  BY <1>5, <1>6 DEF LoginInv, OneCallEach
<1>8. QED
  BY <1>2, <1>3, <1>4, <1>7 DEF LoginInv

LEMMA AnsweredCall ==
  ASSUME NEW call, CallShaped(call), NEW answer \in {"ok", "refused"}
  PROVE  \A reply :
           reply = [call EXCEPT !.answer = answer, !.captcha = Null, !.right = FALSE,
                                !.password = FALSE] =>
             /\ CallShaped(reply)
             /\ reply.kind = call.kind /\ reply.shown = call.shown /\ reply.name = call.name
<1> DEFINE captcha == call.captcha
           Calls(S) == [kind : Kinds, shown : BOOLEAN, name : Names, captcha : S,
                        right : BOOLEAN, password : BOOLEAN, answer : {Null, "ok", "refused"}]
           one == [call EXCEPT !.answer = answer]
           two == [one EXCEPT !.captcha = Null]
           three == [two EXCEPT !.right = FALSE]
           four == [three EXCEPT !.password = FALSE]
<1>1. call \in Calls({captcha})
  BY DEF CallShaped
<1> HIDE DEF captcha
<1>2. /\ one \in Calls({captcha})
      /\ one.kind = call.kind /\ one.shown = call.shown /\ one.name = call.name
  BY <1>1
<1> HIDE DEF one
<1>3. /\ two \in Calls({Null})
      /\ two.kind = call.kind /\ two.shown = call.shown /\ two.name = call.name
  BY <1>2
<1> HIDE DEF two
<1>4. /\ three \in Calls({Null})
      /\ three.kind = call.kind /\ three.shown = call.shown /\ three.name = call.name
  BY <1>3
<1> HIDE DEF three
<1>5. /\ four \in Calls({Null}) /\ four.captcha = Null
      /\ four.kind = call.kind /\ four.shown = call.shown /\ four.name = call.name
  BY <1>4
<1> HIDE DEF four
<1>6. CallShaped(four)
  BY <1>5 DEF CallShaped
<1>7. four = [call EXCEPT !.answer = answer, !.captcha = Null, !.right = FALSE, !.password = FALSE]
  BY DEF one, two, three, four
<1>8. QED
  BY <1>5, <1>6, <1>7

\* A call is handled: its answer takes the place of what it carried.
LEMMA HandledKeeps ==
  ASSUME LoginInv, NEW call \in signIns, Login(call)
  PROVE  LoginInv'
<1>1. CallShaped(call)
  BY DEF LoginInv, LoginShaped
<1>2. PICK answer \in {"ok", "refused"} :
        signIns' = (signIns \ {call}) \cup
          {[call EXCEPT !.answer = answer, !.captcha = Null, !.right = FALSE, !.password = FALSE]}
  BY DEF Login
<1> DEFINE reply == [call EXCEPT !.answer = answer, !.captcha = Null, !.right = FALSE,
                                 !.password = FALSE]
<1>3. CallShaped(reply) /\ reply.kind = call.kind /\ reply.shown = call.shown
        /\ reply.name = call.name
  BY <1>1, AnsweredCall
<1>4. signIns' = (signIns \ {call}) \cup {reply} /\ UNCHANGED <<form, signedAs>>
  BY <1>2 DEF Login
<1> HIDE DEF reply
<1>5. LoginShaped'
  BY <1>3, <1>4 DEF LoginInv, LoginShaped, CallShaped
<1>6. NameOfTheForm'
  BY <1>3, <1>4 DEF LoginInv, NameOfTheForm
<1>7. LoginWaits'
  BY <1>3, <1>4 DEF LoginInv, LoginWaits
<1>8. OneCallEach'
  BY <1>3, <1>4 DEF LoginInv, OneCallEach, Disables
<1>9. QED
  BY <1>5, <1>6, <1>7, <1>8 DEF LoginInv

\* A call signs the user in: the page is left, and every call with it.
LEMMA ArrivesKeeps ==
  ASSUME LoginInv, NEW call \in signIns, SignInArrives(call)
  PROVE  LoginInv'
<1>1. call.name \in Names /\ form' = Blank(call.name)
  BY DEF LoginInv, LoginShaped, CallShaped, SignInArrives
<1>2. signIns' = {[c EXCEPT !.shown = FALSE] : c \in signIns \ {call}}
  BY DEF SignInArrives
<1>3. ASSUME NEW left \in signIns' PROVE CallShaped(left) /\ ~left.shown
  <2>1. PICK c \in signIns : left = [c EXCEPT !.shown = FALSE]
    BY <1>2
  <2>2. CallShaped(c)
    BY DEF LoginInv, LoginShaped
  <2>3. left = [kind |-> c.kind, shown |-> FALSE, name |-> c.name, captcha |-> c.captcha,
                right |-> c.right, password |-> c.password, answer |-> c.answer]
    BY <2>1, <2>2 DEF CallShaped
  <2>4. QED
    BY <2>2, <2>3 DEF CallShaped
<1>4. LoginShaped'
  BY <1>1, <1>3, BlankForm DEF LoginShaped, CallShaped
<1>5. NameOfTheForm' /\ LoginWaits' /\ OneCallEach'
  BY <1>1, <1>3, BlankForm DEF NameOfTheForm, LoginWaits, OneCallEach
<1>6. QED
  BY <1>4, <1>5 DEF LoginInv

\* A call ends: with it goes the flag of its kind, and there is no other.
LEMMA RefusedKeeps ==
  ASSUME LoginInv, NEW call \in signIns, Refused(call)
  PROVE  LoginInv'
<1>1. CallShaped(call) /\ call.kind \in Kinds /\ call.shown \in BOOLEAN /\ form \in FormStates
  BY DEF LoginInv, LoginShaped, CallShaped
<1>2. signIns' = signIns \ {call} /\ form' = Settled(call) /\ signedAs' = signedAs
  BY DEF Refused
<1>3. /\ form' \in FormStates /\ form'.name = form.name
      /\ form'.busy = (form.busy /\ ~(call.shown /\ call.kind = "password"))
      /\ form'.passkeyBusy = (form.passkeyBusy /\ ~(call.shown /\ call.kind = "passkey"))
  <2>1. CASE ~call.shown
    BY <1>1, <1>2, <2>1 DEF Settled, FormStates
  <2>2. CASE call.shown /\ call.kind = "passkey"
    BY <1>1, <1>2, <2>2 DEF Settled, FormStates
  <2>3. CASE call.shown /\ call.kind = "password"
    BY <1>1, <1>2, <2>3 DEF Settled, FormStates, Codes
  <2>4. QED
    BY <1>1, <2>1, <2>2, <2>3 DEF Kinds
<1>4. LoginShaped'
  BY <1>2, <1>3 DEF LoginInv, LoginShaped, CallShaped
<1>5. NameOfTheForm'
  BY <1>2, <1>3 DEF LoginInv, NameOfTheForm
<1>6. LoginWaits'
  BY <1>2, <1>3 DEF LoginInv, LoginWaits
<1>7. \A c \in signIns' : c.shown => Disables(c)'
  <2> SUFFICES ASSUME NEW c \in signIns', c.shown PROVE Disables(c)'
    OBVIOUS
  <2>1. Disables(c) /\ ~(call.shown /\ call.kind = c.kind)
    BY <1>2 DEF LoginInv, OneCallEach
  <2>2. c.kind \in Kinds
    BY <1>2 DEF LoginInv, LoginShaped, CallShaped
  <2>3. CASE c.kind = "password"
    BY <1>3, <2>1, <2>3 DEF Disables
  <2>4. CASE c.kind = "passkey"
    BY <1>3, <2>1, <2>4 DEF Disables
  <2>5. QED
    BY <2>2, <2>3, <2>4 DEF Kinds
<1>8. OneCallEach'
  BY <1>2, <1>7 DEF LoginInv, OneCallEach
<1>9. QED
  BY <1>4, <1>5, <1>6, <1>8 DEF LoginInv

\* The user signs out: no call of the page he comes to is out.
LEMMA SignedOutKeeps ==
  ASSUME LoginInv, SignedOut
  PROVE  LoginInv'
<1> DEFINE first == CHOOSE name \in Names : TRUE
<1>1. first \in Names
  BY NamesAssumption
<1>2. form' = Blank(first) /\ signIns' = signIns
  BY DEF SignedOut
<1>3. \A call \in signIns : ~call.shown
  BY DEF SignedOut, LoginInv, NameOfTheForm
<1> HIDE DEF first
<1>4. LoginShaped'
  BY <1>1, <1>2, BlankForm DEF LoginInv, LoginShaped, CallShaped
<1>5. NameOfTheForm' /\ LoginWaits' /\ OneCallEach'
  BY <1>1, <1>2, <1>3, BlankForm DEF NameOfTheForm, LoginWaits, OneCallEach
<1>6. QED
  BY <1>4, <1>5 DEF LoginInv

LEMMA LoginKeep ==
  ASSUME LoginInv, LoginNext
  PROVE  LoginInv'
<1>0. form \in FormStates
  BY DEF LoginInv, LoginShaped
<1>1. CASE \/ \E mode \in Kinds : setLoginMode(mode)
           \/ \E name \in Names : setUsername(name)
           \/ \E code \in Codes : setCaptchaCode(code)
           \/ refreshCaptcha \/ Captcha
  <2>1. /\ UNCHANGED <<signIns, signedAs>> /\ form' \in FormStates
        /\ form'.busy = form.busy /\ form'.passkeyBusy = form.passkeyBusy
        /\ form'.name = form.name \/ (~form.busy /\ ~form.passkeyBusy)
    <3>1. ASSUME NEW mode \in Kinds, NEW code \in Codes,
                 form' \in {[form EXCEPT !.mode = mode], [form EXCEPT !.code = code]}
          PROVE  /\ form' \in FormStates /\ form'.name = form.name
                 /\ form'.busy = form.busy /\ form'.passkeyBusy = form.passkeyBusy
      <4>1. \A new \in {[form EXCEPT !.mode = mode], [form EXCEPT !.code = code]} :
              /\ new \in FormStates
              /\ new.name = form.name /\ new.busy = form.busy /\ new.passkeyBusy = form.passkeyBusy
        BY ONLY <1>0, mode \in Kinds, code \in Codes, TypedForm
      <4>2. QED
        BY ONLY <3>1, <4>1, ZenonT(60)
    <3>2. CASE \E mode \in Kinds : setLoginMode(mode)
      <4>1. PICK mode \in Kinds : setLoginMode(mode)
        BY <3>2
      <4>2. "blank" \in Codes /\ form' = [form EXCEPT !.mode = mode]
        BY <4>1 DEF setLoginMode, Codes
      <4>3. QED
        BY <3>1, <4>1, <4>2 DEF setLoginMode
    <3>3. CASE \E name \in Names : setUsername(name)
      BY <1>0, <3>3 DEF setUsername, FormStates
    <3>4. CASE refreshCaptcha \/ Captcha \/ \E code \in Codes : setCaptchaCode(code)
      <4>1. form.mode \in Kinds /\ form.code \in Codes
        BY <1>0 DEF FormStates
      <4>2. PICK code \in Codes : form' = [form EXCEPT !.code = code]
        BY <3>4, <4>1 DEF refreshCaptcha, Captcha, setCaptchaCode, Codes
      <4>3. UNCHANGED <<signIns, signedAs>>
        BY <3>4 DEF refreshCaptcha, Captcha, setCaptchaCode
      <4>4. QED
        BY <3>1, <4>1, <4>2, <4>3
    <3>5. QED
      BY <1>1, <3>2, <3>3, <3>4
  <2>2. QED
    BY <2>1, TypingKeeps
<1>2. ASSUME NEW password \in BOOLEAN, onSubmit(password) PROVE LoginInv'
  <2> DEFINE call == [kind |-> "password", shown |-> TRUE, name |-> form.name, captcha |-> image,
                      right |-> form.code = "right", password |-> password, answer |-> Null]
  <2>1. CallShaped(call) /\ call.shown /\ call.name = form.name /\ call.kind = "password"
    BY <1>0 DEF CallShaped, FormStates, Kinds
  <2>2. /\ OnLogin /\ ~form.busy /\ form' = [form EXCEPT !.busy = TRUE]
        /\ signIns' = signIns \cup {call} /\ signedAs' = signedAs
    BY <1>2 DEF onSubmit
  <2>3. /\ form' \in FormStates /\ form'.name = form.name
        /\ form'.busy /\ (form'.passkeyBusy <=> form.passkeyBusy)
    BY <1>0, <2>2 DEF FormStates
  <2> HIDE DEF call
  <2>4. ~Disables(call)
    BY <2>1, <2>2 DEF Disables
  <2>5. QED
    BY <2>1, <2>2, <2>3, <2>4, SendKeeps
<1>3. CASE goPasskey
  <2> DEFINE call == [kind |-> "passkey", shown |-> TRUE, name |-> form.name, captcha |-> Null,
                      right |-> TRUE, password |-> TRUE, answer |-> Null]
  <2>1. CallShaped(call) /\ call.shown /\ call.name = form.name /\ call.kind = "passkey"
    BY <1>0 DEF CallShaped, FormStates, Kinds
  <2>2. /\ OnLogin /\ ~form.passkeyBusy /\ form' = [form EXCEPT !.passkeyBusy = TRUE]
        /\ signIns' = signIns \cup {call} /\ signedAs' = signedAs
    BY <1>3 DEF goPasskey
  <2>3. /\ form' \in FormStates /\ form'.name = form.name
        /\ form'.passkeyBusy /\ (form'.busy <=> form.busy)
    BY <1>0, <2>2 DEF FormStates
  <2> HIDE DEF call
  <2>4. ~Disables(call)
    BY <2>1, <2>2 DEF Disables
  <2>5. QED
    BY <2>1, <2>2, <2>3, <2>4, SendKeeps
<1>4. ASSUME NEW call \in signIns, SignInFails(call) \/ SignInLost(call) PROVE LoginInv'
  BY <1>4, RefusedKeeps DEF SignInFails, SignInLost
<1>5. CASE CaptchaLost \/ Restart
  BY <1>5, LoginUnchanged DEF CaptchaLost, Restart
<1>6. QED
  BY <1>1, <1>2, <1>3, <1>4, <1>5, HandledKeeps, ArrivesKeeps, SignedOutKeeps DEF LoginNext

-----------------------------------------------------------------------------
(* The console: the pages together.                                        *)

\* The invariants of every page at once: that of a page holds while it is
\* looked at and while another one is.
Inductive ==
    /\ rejected \in BOOLEAN
    /\ ListInv /\ DialogInv /\ LogsInv /\ RolesInv
    /\ OverviewInv /\ KeysInv /\ WorkspaceInv /\ ThemeInv /\ LayoutInv /\ LoginInv

ListsInv == ListInv /\ DialogInv /\ LogsInv
SmallInv == OverviewInv /\ KeysInv /\ WorkspaceInv /\ ThemeInv /\ LayoutInv

LEMMA InitInductive == Init => Inductive
<1> SUFFICES ASSUME Init PROVE Inductive
  OBVIOUS
<1>1. rejected \in BOOLEAN /\ ListInv /\ DialogInv /\ LogsInv
  BY ListInitInv, DialogsInitInv, LogsMountInv DEF Init, SysMount
<1>2. RolesInv /\ OverviewInv /\ KeysInv /\ WorkspaceInv
  BY RolesMountInv, OverviewMountInv, KeysMountInv, WorkspaceMountInv DEF Init
<1>3. ThemeInv /\ LayoutInv /\ LoginInv
  BY ThemeMountInv, LayoutMountInv, LoginMountInv DEF Init
<1>4. QED
  BY <1>1, <1>2, <1>3 DEF Inductive

LEMMA SmallUnchanged ==
  ASSUME SmallInv, Remembers, UNCHANGED Still
  PROVE  SmallInv'
<1>1. UNCHANGED overviewVars /\ UNCHANGED keyVars /\ UNCHANGED workspaceVars
        /\ UNCHANGED themeVars /\ UNCHANGED layoutVars
  BY DEF Still
<1>2. QED
  BY <1>1, OverviewUnchanged, KeysUnchanged, WorkspaceUnchanged, ThemeUnchanged, LayoutUnchanged
  DEF SmallInv

LEMMA LoginStill ==
  ASSUME LoginInv, UNCHANGED loginVars
  PROVE  LoginInv'
  BY LoginUnchanged DEF loginVars

LEMMA ListsUnchanged ==
  ASSUME ListsInv, Remembers, UNCHANGED <<listVars, dialogVars, logsVars>>
  PROVE  ListsInv'
  BY ListUnchanged, DialogsUnchanged, LogsUnchanged DEF ListsInv

\* A step of one of the lists of accounts.
LEMMA UsersScreens ==
  ASSUME Inductive, UNCHANGED <<logsVars, rolesPageVars, Still, loginVars>>,
         SystemUsersNext \/ FrontUsersNext
  PROVE  Inductive'
<1>1. Remembers /\ UsersStep
  BY SystemUsersSteps, FrontUsersSteps DEF Inductive
<1>2. ListInv' /\ DialogInv'
  BY <1>1, UsersKeep DEF Inductive
<1>3. LogsInv' /\ RolesInv' /\ LoginInv' /\ SmallInv'
  BY <1>1, LogsUnchanged, RolesUnchanged, LoginStill, SmallUnchanged DEF Inductive, SmallInv
<1>4. QED
  BY <1>1, <1>2, <1>3 DEF Inductive, SmallInv, Remembers

LEMMA LogsScreen ==
  ASSUME Inductive, UNCHANGED <<dialogVars, rolesPageVars, Still, loginVars>>, OperationLogsNext
  PROVE  Inductive'
<1>1. Remembers /\ ListInv' /\ LogsInv'
  BY OperationLogsKeep DEF Inductive
<1>2. DialogInv' /\ RolesInv' /\ LoginInv' /\ SmallInv'
  BY <1>1, DialogsUnchanged, RolesUnchanged, LoginStill, SmallUnchanged DEF Inductive, SmallInv
<1>3. QED
  BY <1>1, <1>2 DEF Inductive, SmallInv, Remembers

LEMMA RolesScreen ==
  ASSUME Inductive, UNCHANGED <<listVars, dialogVars, rolesVars, logsVars, Still, loginVars>>,
         SystemRolesNext
  PROVE  Inductive'
<1>1. Remembers /\ RolesInv'
  BY SystemRolesKeep DEF Inductive
<1>2. ListsInv' /\ LoginInv' /\ SmallInv'
  BY <1>1, ListsUnchanged, LoginStill, SmallUnchanged DEF Inductive, ListsInv, SmallInv
<1>3. QED
  BY <1>1, <1>2 DEF Inductive, ListsInv, SmallInv, Remembers

\* A step of one of the other pages: those of lists and roles keep still.
LEMMA OtherScreens ==
  ASSUME Inductive, Remembers, UNCHANGED <<listVars, dialogVars, rolesVars, logsVars, rolesPageVars>>,
         SmallInv', LoginInv'
  PROVE  Inductive'
<1>1. ListsInv' /\ RolesInv'
  BY ListsUnchanged, RolesUnchanged DEF Inductive, ListsInv
<1>2. QED
  BY <1>1 DEF Inductive, ListsInv, SmallInv, Remembers

LEMMA NextInductive ==
  ASSUME Inductive, [Next]_vars
  PROVE  Inductive'
<1>1. CASE screen = "system/users" /\ SystemUsersNext
             /\ UNCHANGED <<logsVars, rolesPageVars, Still, loginVars>>
  BY <1>1, UsersScreens
<1>2. CASE screen = "front/users" /\ FrontUsersNext
             /\ UNCHANGED <<rolesVars, logsVars, rolesPageVars, Still, loginVars>>
  BY <1>2, UsersScreens
<1>3. CASE screen = "system/operation-logs" /\ OperationLogsNext
             /\ UNCHANGED <<dialogVars, rolesVars, rolesPageVars, Still, loginVars>>
  BY <1>3, LogsScreen
<1>4. CASE screen = "system/roles" /\ SystemRolesNext
             /\ UNCHANGED <<listVars, dialogVars, rolesVars, logsVars, Still, loginVars>>
  BY <1>4, RolesScreen
<1>5. ASSUME UNCHANGED <<listVars, dialogVars, rolesVars, logsVars, rolesPageVars>>
      PROVE  Remembers /\ SmallInv' /\ LoginInv' => Inductive'
  BY <1>5, OtherScreens
<1>6. CASE OverviewNext
             /\ UNCHANGED <<listVars, dialogVars, rolesVars, logsVars, rolesPageVars>>
             /\ UNCHANGED <<keyVars, workspaceVars, themeVars, layoutVars, loginVars>>
  <2>1. Remembers /\ OverviewInv'
    BY <1>6, OverviewKeep DEF Inductive
  <2>2. KeysInv' /\ WorkspaceInv' /\ ThemeInv' /\ LayoutInv' /\ LoginInv'
    BY <1>6, KeysUnchanged, WorkspaceUnchanged, ThemeUnchanged, LayoutUnchanged, LoginStill
    DEF Inductive
  <2>3. QED
    BY <1>5, <1>6, <2>1, <2>2 DEF SmallInv
<1>7. CASE SettingsPasskeysNext
             /\ UNCHANGED <<listVars, dialogVars, rolesVars, logsVars, rolesPageVars>>
             /\ UNCHANGED <<overviewVars, workspaceVars, themeVars, layoutVars, loginVars>>
  <2>1. Remembers /\ KeysInv'
    BY <1>7, SettingsPasskeysKeep DEF Inductive
  <2>2. OverviewInv' /\ WorkspaceInv' /\ ThemeInv' /\ LayoutInv' /\ LoginInv'
    BY <1>7, <2>1, OverviewUnchanged, WorkspaceUnchanged, ThemeUnchanged, LayoutUnchanged,
       LoginStill
    DEF Inductive
  <2>3. QED
    BY <1>5, <1>7, <2>1, <2>2 DEF SmallInv
<1>8. CASE WorkspaceNext
             /\ UNCHANGED <<listVars, dialogVars, rolesVars, logsVars, rolesPageVars>>
             /\ UNCHANGED <<overviewVars, keyVars, themeVars, layoutVars, loginVars>>
  <2>1. Remembers /\ WorkspaceInv'
    BY <1>8, WorkspaceKeep DEF Inductive
  <2>2. OverviewInv' /\ KeysInv' /\ ThemeInv' /\ LayoutInv' /\ LoginInv'
    BY <1>8, <2>1, OverviewUnchanged, KeysUnchanged, ThemeUnchanged, LayoutUnchanged, LoginStill
    DEF Inductive
  <2>3. QED
    BY <1>5, <1>8, <2>1, <2>2 DEF SmallInv
<1>9. CASE ThemeNext
             /\ UNCHANGED <<listVars, dialogVars, rolesVars, logsVars, rolesPageVars>>
             /\ UNCHANGED <<overviewVars, keyVars, workspaceVars, layoutVars, loginVars>>
  <2>1. Remembers /\ ThemeInv'
    BY <1>9, ThemeKeep DEF Inductive
  <2>2. OverviewInv' /\ KeysInv' /\ WorkspaceInv' /\ LayoutInv' /\ LoginInv'
    BY <1>9, <2>1, OverviewUnchanged, KeysUnchanged, WorkspaceUnchanged, LayoutUnchanged,
       LoginStill
    DEF Inductive
  <2>3. QED
    BY <1>5, <1>9, <2>1, <2>2 DEF SmallInv
<1>10. CASE LayoutNext
              /\ UNCHANGED <<listVars, dialogVars, rolesVars, logsVars, rolesPageVars>>
              /\ UNCHANGED <<overviewVars, keyVars, workspaceVars, themeVars, loginVars>>
  <2>1. Remembers /\ LayoutInv'
    BY <1>10, LayoutKeep DEF Inductive
  <2>2. OverviewInv' /\ KeysInv' /\ WorkspaceInv' /\ ThemeInv' /\ LoginInv'
    BY <1>10, <2>1, OverviewUnchanged, KeysUnchanged, WorkspaceUnchanged, ThemeUnchanged,
       LoginStill
    DEF Inductive
  <2>3. QED
    BY <1>5, <1>10, <2>1, <2>2 DEF SmallInv
<1>11. CASE LoginNext
              /\ UNCHANGED <<listVars, dialogVars, rolesVars, logsVars, rolesPageVars>>
              /\ UNCHANGED <<screen, rejected, clicks, Still>>
  <2>1. Remembers
    BY <1>11 DEF Remembers, Inductive
  <2>2. LoginInv' /\ SmallInv'
    BY <1>11, <2>1, LoginKeep, SmallUnchanged DEF Inductive, SmallInv
  <2>3. QED
    BY <1>5, <1>11, <2>1, <2>2
<1>12. CASE UNCHANGED vars
  <2>1. /\ UNCHANGED <<listVars, dialogVars, rolesVars, logsVars, rolesPageVars>>
        /\ UNCHANGED Still /\ UNCHANGED loginVars /\ rejected' = rejected
    BY <1>12 DEF vars
  <2>2. Remembers
    BY <2>1 DEF Remembers, Inductive
  <2>3. LoginInv' /\ SmallInv'
    BY <2>1, <2>2, LoginStill, SmallUnchanged DEF Inductive, SmallInv
  <2>4. QED
    BY <1>5, <2>1, <2>2, <2>3
<1>13. CASE Next
  BY <1>1, <1>2, <1>3, <1>4, <1>6, <1>7, <1>8, <1>9, <1>10, <1>11, <1>13 DEF Next
<1>14. QED
  BY <1>12, <1>13

\* Every page keeps its invariant, whichever page is looked at.
THEOREM InductiveInvariant == Spec => []Inductive
<1>1. Inductive /\ [Next]_vars => Inductive'
  BY NextInductive
<1>2. QED
  BY InitInductive, <1>1, PTL DEF Spec

\* A list that is not the one of the query comes with a spinner or an error, or
\* from answers or reloads out of order; likewise the statistics.  No role is
\* shown twice but by a reload out while it was created, and the passkeys at
\* rest are those of the account unless the answer to a change was lost.
THEOREM ShowsInvariant == Spec => []ShowsWhatWasAsked
<1>1. Inductive => ShowsWhatWasAsked
  BY KeysInvShows DEF Inductive, ShowsWhatWasAsked, ListInv, LogsInv, RolesInv
<1>2. QED
  BY <1>1, InductiveInvariant, PTL

\* A save without an error in the dialog carries the fields of its own account,
\* if answers came in their order; an export pressed over a list that is sure,
\* the filter counted for its limit; a role saved after its timer, its own
\* permissions; an answered login, the name in the form.
THEOREM SendsInvariant == Spec => []SendsWhatItShows
<1>1. Inductive => SendsWhatItShows
  BY DEF Inductive, SendsWhatItShows, DialogInv, LogsInv, RolesInv, LoginInv
<1>2. QED
  BY <1>1, InductiveInvariant, PTL

\* No page keeps its buttons disabled for a call that has ended, unless a
\* fetch of it has thrown where nothing catches it.
THEOREM BusyInvariant == Spec => []BusyOnlyIfWaiting
<1>1. Inductive => BusyOnlyIfWaiting
  BY DEF Inductive, BusyOnlyIfWaiting, ListInv, DialogInv, LogsInv, RolesInv, OverviewInv,
         KeysInv, LoginInv
<1>2. QED
  BY <1>1, InductiveInvariant, PTL

\* A tab that no event is on its way to has the stored preferences, and both
\* layouts are stored only after a late icon rail.  The theme stored is that of
\* the tab that wrote it last; the others keep, and show, the one they prefer.
THEOREM TabsInvariant == Spec => []TabsAgree
<1>1. Inductive => TabsAgree
  BY DEF Inductive, TabsAgree, WorkspaceInv, ThemeInv
<1>2. QED
  BY <1>1, InductiveInvariant, PTL

\* The layout offers no link without its permission, but for the second column
\* chosen before, and reloads no page but the one that is shown.
THEOREM LayoutInvariant == Spec => []LayoutFollows
<1>1. Inductive => LayoutFollows
  BY LayoutPermitted DEF Inductive, LayoutFollows, LayoutInv
<1>2. QED
  BY <1>1, InductiveInvariant, PTL
=============================================================================
