---------------------------- MODULE UserDialogs ----------------------------
(* The two dialogs of SystemUsersPage and FrontUsersPage.  The overlay of a *)
(* dialog hides the page without disabling it: the buttons of the rows and  *)
(* of the toolbar can still be reached with the keyboard, also while the    *)
(* dialog waits for an answer.                                              *)
(*                                                                          *)
(* The edit dialog keeps the id it was opened for and the fields of the     *)
(* account that answered last, apart from each other.  When a button can be *)
(* pressed is said in the modules of the two pages.                         *)
EXTENDS PagedList

CONSTANT Ids    \* accounts of the list

VARIABLES
    create,     \* the create dialog: open, busy
    creating,   \* the calls it has out
    edit,       \* the edit dialog: open, busy, whether it shows an error, id,
                \* the account its fields are of
    fetching,   \* the accounts asked for, in the order sent
    saving,     \* the PATCH calls that are out
    detail      \* history: the Progress of the last account asked for

dialogVars == <<create, creating, edit, fetching, saving, detail>>

\* A handler keeps the query and the permission of the render it belongs to:
\* it reloads the list with them, whatever they have become.
Closure == [query |-> query, may |-> canRead]
Reload(closure) == Load(closure.query, closure.may)

DialogsInit ==
    /\ create = [open |-> FALSE, busy |-> FALSE]
    /\ creating = <<>>
    /\ edit = [open |-> FALSE, busy |-> FALSE, error |-> FALSE, id |-> Null, fields |-> Null]
    /\ fetching = <<>>
    /\ saving = <<>>
    /\ detail = "settled"

OpenCreate ==
    /\ create' = [create EXCEPT !.open = TRUE]
    /\ UNCHANGED <<creating, edit, fetching, saving, detail>>

CancelCreate ==
    /\ create' = [create EXCEPT !.open = FALSE]
    /\ UNCHANGED <<creating, edit, fetching, saving, detail>>

SubmitCreate ==
    /\ create' = [create EXCEPT !.busy = TRUE]
    /\ creating' = Append(creating, Closure)
    /\ UNCHANGED <<edit, fetching, saving, detail>>

CreateArrives(i, outcome) ==
    /\ create' = [open |-> create.open /\ outcome # "ok",
                  busy |-> create.busy /\ outcome = "throws"]
    /\ creating' = Without(creating, i)
    /\ UNCHANGED <<draft, query, canRead>>
    /\ IF outcome = "ok" THEN Reload(creating[i]) ELSE UNCHANGED answerVars
    /\ UNCHANGED <<edit, fetching, saving, detail>>

\* The fields stay those of the account shown before until the answer comes.
OpenEdit(id) ==
    /\ Len(fetching) < MaxCalls
    /\ edit' = [edit EXCEPT !.open = TRUE, !.busy = TRUE, !.error = FALSE, !.id = id]
    /\ fetching' = Append(fetching, id)
    /\ detail' = "waiting"
    /\ UNCHANGED <<create, creating, saving>>

RefusalUnsaid(i, outcome) ==                                   \* wrong variant
    /\ edit' = [edit EXCEPT !.busy = @ /\ outcome = "throws",
                            !.fields = IF outcome = "ok" THEN fetching[i] ELSE @]
    /\ fetching' = Without(fetching, i)
    /\ detail' = Moved(detail, i = Len(fetching), outcome)
    /\ UNCHANGED <<create, creating, saving>>

\* A refusal is shown as an error, above the fields that were there before.
DetailArrives(i, outcome) ==
    /\ edit' = [edit EXCEPT !.busy = @ /\ outcome = "throws",
                            !.error = @ \/ outcome \in {"refused", "forbidden"},
                            !.fields = IF outcome = "ok" THEN fetching[i] ELSE @]
    /\ fetching' = Without(fetching, i)
    /\ detail' = Moved(detail, i = Len(fetching), outcome)
    /\ UNCHANGED <<create, creating, saving>>

CancelEdit ==
    /\ edit' = [edit EXCEPT !.open = FALSE]
    /\ UNCHANGED <<create, creating, fetching, saving, detail>>

\* Save with a name, or a role, missing: nothing is sent.
RefuseForm ==
    /\ edit' = [edit EXCEPT !.error = TRUE]
    /\ UNCHANGED <<create, creating, fetching, saving, detail>>

\* Save: the fields go to the id, and the error goes.
SubmitEdit ==
    /\ Len(saving) < MaxCalls
    /\ edit' = [edit EXCEPT !.busy = TRUE, !.error = FALSE]
    /\ saving' = Append(saving, [id |-> edit.id, fields |-> edit.fields, then |-> Closure,
                                 told |-> edit.error, detail |-> detail])
    /\ UNCHANGED <<create, creating, fetching, detail>>

BusyAfterRefusal(i, outcome) ==                                \* wrong variant
    /\ edit' = [edit EXCEPT !.open = @ /\ outcome # "ok", !.busy = @ /\ outcome # "ok",
                            !.error = @ \/ outcome \in {"refused", "forbidden"}]
    /\ saving' = Without(saving, i)
    /\ UNCHANGED <<draft, query, canRead>>
    /\ IF outcome = "ok" THEN Reload(saving[i].then) ELSE UNCHANGED answerVars
    /\ UNCHANGED <<create, creating, fetching, detail>>

SaveArrives(i, outcome) ==
    /\ edit' = [edit EXCEPT !.open = @ /\ outcome # "ok", !.busy = @ /\ outcome = "throws",
                            !.error = @ \/ outcome \in {"refused", "forbidden"}]
    /\ saving' = Without(saving, i)
    /\ UNCHANGED <<draft, query, canRead>>
    /\ IF outcome = "ok" THEN Reload(saving[i].then) ELSE UNCHANGED answerVars
    /\ UNCHANGED <<create, creating, fetching, detail>>

\* What is saved under an id are the fields of its own account.  They are those
\* of another one in two ways: the dialog showed an error when Save was pressed
\* (a refused GET leaves the fields of the account before, with Save enabled),
\* or answers to two openings of the dialog came in the other order than the
\* openings.  A call that throws is no third one: it leaves the dialog busy.
SavesWhatItShows ==
    \A i \in DOMAIN saving :
        \/ saving[i].fields = saving[i].id
        \/ saving[i].told
        \/ saving[i].detail \in {"crossed", "overtaken"}

\* A dialog is busy, and cannot be left, only while a call of it is out, if
\* none has thrown.
DialogsWait ==
    ~rejected =>
        /\ create.busy => creating # <<>>
        /\ edit.busy => fetching # <<>> \/ saving # <<>>
=============================================================================
