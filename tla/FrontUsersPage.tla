--------------------------- MODULE FrontUsersPage ---------------------------
(* pages/FrontUsersPage.tsx: the users of the front end.  The page is built *)
(* as SystemUsersPage is; a save does not ask for the profile again.        *)
EXTENDS UserDialogs

FrontClick == Click("front/users")
FrontEnds(outcome) == Ends("front/users", outcome)

FrontMount == ListInit /\ DialogsInit

\* What can be pressed: the rows are not there while the list loads.
FrontRows == IF loading \/ list.of = Null THEN {} ELSE Ids
FrontUserModal(dialog) == dialog.open /\ ~dialog.busy

frontLoadUsers(i, outcome, total) ==
    FrontEnds(outcome) /\ ListArrives(i, outcome, total) /\ UNCHANGED dialogVars
frontFilterCard(f) == FrontClick /\ SetDraft(f) /\ UNCHANGED dialogVars
frontApplySearch == FrontClick /\ ApplySearch /\ UNCHANGED dialogVars
frontResetFilters == FrontClick /\ ResetFilters /\ UNCHANGED dialogVars
frontPages ==
    /\ FrontClick /\ UNCHANGED dialogVars
    /\ PreviousPage \/ NextPage \/ \E p \in 1..totalPages : PageLink(p)
frontPageSize(size) == FrontClick /\ PageSizeChanges(size) /\ UNCHANGED dialogVars
frontRefresh == FrontClick /\ Refresh /\ UNCHANGED dialogVars
frontProfile == FrontClick /\ PermissionsChange /\ UNCHANGED dialogVars

frontOpenCreate == FrontClick /\ OpenCreate /\ UNCHANGED listVars
frontCancelCreate ==
    FrontClick /\ FrontUserModal(create) /\ CancelCreate /\ UNCHANGED listVars

\* The username is filled in.
frontSubmitCreate ==
    FrontClick /\ FrontUserModal(create) /\ SubmitCreate /\ UNCHANGED listVars
frontCreated(i, outcome) == FrontEnds(outcome) /\ CreateArrives(i, outcome)

frontOpenEdit(id) == FrontClick /\ id \in FrontRows /\ OpenEdit(id) /\ UNCHANGED listVars
frontDetail(i, outcome) ==
    FrontEnds(outcome) /\ DetailArrives(i, outcome) /\ UNCHANGED listVars
frontCancelEdit == FrontClick /\ FrontUserModal(edit) /\ CancelEdit /\ UNCHANGED listVars

\* Nothing is sent while the name is missing.
frontRefuseForm == FrontClick /\ FrontUserModal(edit) /\ RefuseForm /\ UNCHANGED listVars
frontSubmitEdit ==
    /\ FrontClick /\ FrontUserModal(edit)
    /\ edit.fields # Null
    /\ SubmitEdit
    /\ UNCHANGED listVars
frontSaved(i, outcome) == FrontEnds(outcome) /\ SaveArrives(i, outcome)

FrontUsersNext ==
    \/ \E f \in Filters : frontFilterCard(f)
    \/ \E size \in Sizes : frontPageSize(size)
    \/ frontApplySearch \/ frontResetFilters \/ frontPages \/ frontRefresh \/ frontProfile
    \/ frontOpenCreate \/ frontCancelCreate \/ frontSubmitCreate
    \/ frontCancelEdit \/ frontRefuseForm \/ frontSubmitEdit
    \/ \E id \in Ids : frontOpenEdit(id)
    \/ \E outcome \in Outcomes :
          \/ \E i \in 1..Len(asked), total \in Totals : frontLoadUsers(i, outcome, total)
          \/ \E i \in 1..Len(creating) : frontCreated(i, outcome)
          \/ \E i \in 1..Len(fetching) : frontDetail(i, outcome)
          \/ \E i \in 1..Len(saving) : frontSaved(i, outcome)
=============================================================================
