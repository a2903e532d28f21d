-------------------------- MODULE SystemRolesPage --------------------------
(* pages/SystemRolesPage.tsx: the roles, one of them selected, and a draft  *)
(* of its permissions.  The draft is no part of the role: an effect fills   *)
(* it anew, in a timer of 0 ms, whenever the object of the selected role    *)
(* has become another one.                                                  *)
(*                                                                          *)
(* Roles are numbered in the order they are created; none is ever removed.  *)
EXTENDS WebPage

CONSTANT MaxRoles   \* bound on roles

VARIABLES
    existing,       \* roles of the server: 1..existing
    roleList,       \* the roles shown
    selectedRoleId, \* the role selected, shown or not
    draftOf,        \* the role the draft's permissions are of
    redraw,         \* the timer of the effect that fills the draft
    mayReadRoles,
    rolesLoading,
    asksAll,        \* reloads that are out: the roles there were when it was sent
    saveBusy,
    saves,          \* PATCH calls: the role, the draft's role, the timer when sent
    createDialog,   \* open, busy
    creates,        \* POST calls: the role created, and whether a reload ended
                    \* meanwhile
    overlapped      \* history: a created role was shown after such a reload

rolesPageVars ==
    <<existing, roleList, selectedRoleId, draftOf, redraw, mayReadRoles, rolesLoading,
      asksAll, saveBusy, saves, createDialog, creates, overlapped>>

RolesClick == Click("system/roles")
RolesEnds(outcome) == Ends("system/roles", outcome)
Occurs(id, list) == \E k \in DOMAIN list : list[k] = id
selectedRole == IF Occurs(selectedRoleId, roleList) THEN selectedRoleId ELSE Null

RolesMount ==
    /\ existing = 1
    /\ roleList = <<>>
    /\ selectedRoleId = Null /\ draftOf = Null /\ redraw = FALSE
    /\ mayReadRoles \in BOOLEAN
    /\ rolesLoading = mayReadRoles
    /\ asksAll = IF mayReadRoles THEN <<existing>> ELSE <<>>
    /\ saveBusy = FALSE /\ saves = <<>>
    /\ createDialog = [open |-> FALSE, busy |-> FALSE] /\ creates = <<>>
    /\ overlapped = FALSE

-----------------------------------------------------------------------------
\* loadAll up to its await.
LoadAll(may) ==
    IF may
    THEN /\ Len(asksAll) < MaxCalls
         /\ rolesLoading' = TRUE
         /\ asksAll' = Append(asksAll, existing)
         /\ UNCHANGED <<roleList, redraw>>
    ELSE /\ rolesLoading' = FALSE
         /\ roleList' = <<>>
         /\ redraw' = (redraw \/ selectedRole # Null)
         /\ UNCHANGED asksAll

\* loadAll after its await.  Promise.all: the roles and the permissions have
\* both been answered, or one of them has thrown.  A refusal of either takes
\* both away; the selection stays, or goes to the first role.
loadAll(i, outcome, n) ==
    /\ RolesEnds(outcome)
    /\ n \in asksAll[i]..existing
    /\ asksAll' = Without(asksAll, i)
    /\ rolesLoading' = (outcome = "throws" /\ rolesLoading)
    /\ roleList' = CASE outcome = "ok" -> [k \in 1..n |-> k]
                     [] outcome = "throws" -> roleList
                     [] OTHER -> <<>>
    /\ selectedRoleId' = IF outcome = "ok" /\ ~(selectedRoleId \in 1..n) THEN 1 ELSE selectedRoleId
    /\ redraw' = (redraw \/ (outcome # "throws" /\ (outcome = "ok" \/ selectedRole # Null)))
    /\ creates' = [k \in DOMAIN creates |-> [creates[k] EXCEPT !.crossed = TRUE]]
    /\ UNCHANGED <<existing, draftOf, mayReadRoles, saveBusy, saves, createDialog, overlapped>>

rolesRefresh ==
    /\ RolesClick
    /\ LoadAll(mayReadRoles)
    /\ UNCHANGED <<existing, selectedRoleId, draftOf, mayReadRoles, saveBusy, saves,
                   createDialog, creates, overlapped>>

rolesProfile ==
    /\ RolesClick
    /\ mayReadRoles' = ~mayReadRoles
    /\ LoadAll(mayReadRoles')
    /\ UNCHANGED <<existing, selectedRoleId, draftOf, saveBusy, saves, createDialog, creates, overlapped>>

\* The timer: the draft becomes that of the selected role.
drawDraft ==
    /\ redraw
    /\ redraw' = FALSE
    /\ draftOf' = selectedRole
    /\ UNCHANGED <<screen, rejected, clicks, existing, roleList, selectedRoleId, mayReadRoles,
                   rolesLoading, asksAll, saveBusy, saves, createDialog, creates, overlapped>>

-----------------------------------------------------------------------------
\* While a reload is out a spinner stands in the place of the lists.
selectRole(id) ==
    /\ RolesClick
    /\ ~rolesLoading
    /\ Occurs(id, roleList) /\ id # selectedRoleId
    /\ selectedRoleId' = id
    /\ redraw' = TRUE
    /\ UNCHANGED <<existing, roleList, draftOf, mayReadRoles, rolesLoading, asksAll, saveBusy,
                   saves, createDialog, creates, overlapped>>

\* The button is there for a role that is shown, and not while a save is out.
savePermissions ==
    /\ RolesClick
    /\ ~rolesLoading
    /\ selectedRole # Null /\ ~saveBusy
    /\ saveBusy' = TRUE
    /\ saves' = Append(saves, [role |-> selectedRoleId, of |-> draftOf, redraw |-> redraw])
    /\ UNCHANGED <<existing, roleList, selectedRoleId, draftOf, redraw, mayReadRoles,
                   rolesLoading, asksAll, createDialog, creates, overlapped>>

\* The role answered takes the place of the one shown: when it is the selected
\* one, the draft is filled from it.
permissionsSaved(i, outcome) ==
    /\ RolesEnds(outcome)
    /\ saveBusy' = (outcome = "throws")
    /\ saves' = Without(saves, i)
    /\ redraw' = (redraw \/ (outcome = "ok" /\ saves[i].role = selectedRole))
    /\ UNCHANGED <<existing, roleList, selectedRoleId, draftOf, mayReadRoles, rolesLoading,
                   asksAll, createDialog, creates, overlapped>>

-----------------------------------------------------------------------------
\* The dialog can be left at any time, also while its call is out.
openCreateRole ==
    /\ RolesClick
    /\ createDialog' = [createDialog EXCEPT !.open = ~@]
    /\ UNCHANGED <<existing, roleList, selectedRoleId, draftOf, redraw, mayReadRoles,
                   rolesLoading, asksAll, saveBusy, saves, creates, overlapped>>

submitCreateRole ==
    /\ RolesClick
    /\ createDialog.open /\ ~createDialog.busy
    /\ createDialog' = [createDialog EXCEPT !.busy = TRUE]
    /\ creates' = Append(creates, [role |-> Null, crossed |-> FALSE])
    /\ UNCHANGED <<existing, roleList, selectedRoleId, draftOf, redraw, mayReadRoles,
                   rolesLoading, asksAll, saveBusy, saves, overlapped>>

\* POST /system/roles is handled.
createRole(i) ==
    /\ existing < MaxRoles
    /\ creates[i].role = Null
    /\ existing' = existing + 1
    /\ creates' = [creates EXCEPT ![i].role = existing']
    /\ UNCHANGED <<screen, rejected, clicks, roleList, selectedRoleId, draftOf, redraw,
                   mayReadRoles, rolesLoading, asksAll, saveBusy, saves, createDialog, overlapped>>

\* The role answered is put behind the others, selected and drawn.
roleCreated(i, outcome) ==
    /\ RolesEnds(outcome)
    /\ outcome = "ok" => creates[i].role # Null
    /\ outcome \in {"refused", "forbidden"} => creates[i].role = Null
    /\ creates' = Without(creates, i)
    /\ createDialog' = [open |-> createDialog.open /\ outcome # "ok", busy |-> outcome = "throws"]
    /\ IF outcome = "ok"
       THEN /\ roleList' = Append(roleList, creates[i].role)
            /\ selectedRoleId' = creates[i].role
            /\ draftOf' = creates[i].role
            /\ redraw' = TRUE
            /\ overlapped' = (overlapped \/ creates[i].crossed)
       ELSE UNCHANGED <<roleList, selectedRoleId, draftOf, redraw, overlapped>>
    /\ UNCHANGED <<existing, mayReadRoles, rolesLoading, asksAll, saveBusy, saves>>

SystemRolesNext ==
    \/ rolesRefresh \/ rolesProfile \/ drawDraft \/ savePermissions
    \/ openCreateRole \/ submitCreateRole
    \/ \E id \in 1..MaxRoles : selectRole(id)
    \/ \E i \in DOMAIN creates : createRole(i)
    \/ \E outcome \in Outcomes :
          \/ \E i \in DOMAIN asksAll, n \in 1..MaxRoles : loadAll(i, outcome, n)
          \/ \E i \in DOMAIN saves : permissionsSaved(i, outcome)
          \/ \E i \in DOMAIN creates : roleCreated(i, outcome)

-----------------------------------------------------------------------------
\* What is saved for a role was drawn for it, unless the timer had not come.
RoleSavesWhatItShows ==
    \A i \in DOMAIN saves : saves[i].of # saves[i].role => saves[i].redraw

\* A role is shown twice only if a reload was out while it was created: its
\* answer has the role already when the created role is put behind it.
RoleShownOnce ==
    (\E j, k \in DOMAIN roleList : j # k /\ roleList[j] = roleList[k]) => overlapped

RolesWait ==
    ~rejected =>
        /\ rolesLoading => asksAll # <<>>
        /\ saveBusy => saves # <<>>
        /\ createDialog.busy => creates # <<>>
=============================================================================
