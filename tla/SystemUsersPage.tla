-------------------------- MODULE SystemUsersPage --------------------------
(* pages/SystemUsersPage.tsx: the accounts of the console, for a user who   *)
(* may change them; without that permission the buttons of the dialogs are  *)
(* not there.                                                               *)
EXTENDS UserDialogs

VARIABLES
    roles,          \* rolesCatalog: empty or not
    askedRoles      \* whether its call is out

rolesVars == <<roles, askedRoles>>
SysClick == Click("system/users") /\ UNCHANGED rolesVars
SysEnds(outcome) == Ends("system/users", outcome) /\ UNCHANGED rolesVars

\* The page mounts: the roles and the first list are asked for.
SysMount == ListInit /\ DialogsInit /\ roles = FALSE /\ askedRoles = TRUE

loadRolesCatalog(outcome) ==
    /\ askedRoles
    /\ Ends("system/users", outcome)
    /\ askedRoles' = FALSE
    /\ roles' = (outcome = "ok" \/ (roles /\ outcome # "forbidden"))
    /\ UNCHANGED <<listVars, dialogVars>>

\* What can be pressed: the rows are not there while the list loads.
SysRows == IF loading \/ list.of = Null THEN {} ELSE Ids
SysCreateDialog == create.open /\ ~create.busy
SysEditDialog == edit.open /\ ~edit.busy

sysLoadUsers(i, outcome, total) ==
    SysEnds(outcome) /\ ListArrives(i, outcome, total) /\ UNCHANGED dialogVars
sysFilterCard(f) == SysClick /\ SetDraft(f) /\ UNCHANGED dialogVars
sysApplySearch == SysClick /\ ApplySearch /\ UNCHANGED dialogVars
sysResetFilters == SysClick /\ ResetFilters /\ UNCHANGED dialogVars
sysPages ==
    /\ SysClick /\ UNCHANGED dialogVars
    /\ PreviousPage \/ NextPage \/ \E p \in 1..totalPages : PageLink(p)
sysPageSize(size) == SysClick /\ PageSizeChanges(size) /\ UNCHANGED dialogVars
sysRefresh == SysClick /\ Refresh /\ UNCHANGED dialogVars

\* The profile asked for on mounting, and after a save, has arrived.
sysProfile == SysClick /\ PermissionsChange /\ UNCHANGED dialogVars

sysOpenCreate == SysClick /\ OpenCreate /\ UNCHANGED listVars
sysCancelCreate == SysClick /\ SysCreateDialog /\ CancelCreate /\ UNCHANGED listVars

\* A role must have been chosen; the username and the password are filled in.
sysSubmitCreate == SysClick /\ SysCreateDialog /\ roles /\ SubmitCreate /\ UNCHANGED listVars
sysCreated(i, outcome) == SysEnds(outcome) /\ CreateArrives(i, outcome)

sysOpenEdit(id) == SysClick /\ id \in SysRows /\ OpenEdit(id) /\ UNCHANGED listVars
sysDetail(i, outcome) == SysEnds(outcome) /\ DetailArrives(i, outcome) /\ UNCHANGED listVars
sysCancelEdit == SysClick /\ SysEditDialog /\ CancelEdit /\ UNCHANGED listVars

\* Nothing is sent while the name or the role is missing.
sysRefuseForm == SysClick /\ SysEditDialog /\ RefuseForm /\ UNCHANGED listVars
sysSubmitEdit ==
    SysClick /\ SysEditDialog /\ edit.fields # Null /\ SubmitEdit /\ UNCHANGED listVars
sysSaved(i, outcome) == SysEnds(outcome) /\ SaveArrives(i, outcome)

SystemUsersNext ==
    \/ \E f \in Filters : sysFilterCard(f)
    \/ \E size \in Sizes : sysPageSize(size)
    \/ sysApplySearch \/ sysResetFilters \/ sysPages \/ sysRefresh \/ sysProfile
    \/ sysOpenCreate \/ sysCancelCreate \/ sysSubmitCreate
    \/ sysCancelEdit \/ sysRefuseForm \/ sysSubmitEdit
    \/ \E id \in Ids : sysOpenEdit(id)
    \/ \E outcome \in Outcomes :
          \/ loadRolesCatalog(outcome)
          \/ \E i \in 1..Len(asked), total \in Totals : sysLoadUsers(i, outcome, total)
          \/ \E i \in 1..Len(creating) : sysCreated(i, outcome)
          \/ \E i \in 1..Len(fetching) : sysDetail(i, outcome)
          \/ \E i \in 1..Len(saving) : sysSaved(i, outcome)
=============================================================================
