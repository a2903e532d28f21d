--------------------------- MODULE WebListsProofs ---------------------------
(* Lemmas about the lists and the dialogs of the web console, for any       *)
(* filters, sizes, totals and accounts and any number of calls out.         *)
(*                                                                          *)
(* ShowsQuery, ShowsPeriod and SavesWhatItShows are not inductive: they need *)
(* that the last request out is the one for what the page now wants, for as *)
(* long as it is waited for, and that what it brought is still there when no *)
(* other answer has come (LastAsked, LastFetched, LastPeriod).              *)
EXTENDS SystemUsersPage, FrontUsersPage, OperationLogsPage, SequenceTheorems, TLAPS

\* A call that is taken out of a sequence of calls.
LEMMA WithoutProperties ==
  ASSUME NEW S, NEW calls \in Seq(S), NEW i \in 1..Len(calls)
  PROVE  /\ Without(calls, i) \in Seq(S)
         /\ Len(Without(calls, i)) = Len(calls) - 1
         /\ \A j \in 1..(Len(calls) - 1) :
               Without(calls, i)[j] = IF j < i THEN calls[j] ELSE calls[j + 1]
<1> DEFINE s == SubSeq(calls, 1, i - 1)
           t == SubSeq(calls, i + 1, Len(calls))
<1>1. /\ s \in Seq(S) /\ Len(s) = i - 1
      /\ \A j \in 1..(i - 1) : s[j] = calls[j]
  <2>1. \A j \in 1..(i - 1) : calls[j] \in S
    OBVIOUS
  <2>2. /\ s \in Seq(S)
        /\ Len(s) = IF 1 <= i - 1 THEN i - 1 - 1 + 1 ELSE 0
        /\ \A j \in 1..(i - 1 - 1 + 1) : s[j] = calls[1 + j - 1]
    BY <2>1, SubSeqProperties
  <2>3. QED
    BY <2>2
<1>2. /\ t \in Seq(S) /\ Len(t) = Len(calls) - i
      /\ \A j \in 1..(Len(calls) - i) : t[j] = calls[i + j]
  OBVIOUS
<1> HIDE DEF s, t
<1>3. /\ s \o t \in Seq(S)
      /\ Len(s \o t) = Len(calls) - 1
      /\ \A j \in 1..(Len(calls) - 1) :
            (s \o t)[j] = IF j <= i - 1 THEN s[j] ELSE t[j - (i - 1)]
  <2>1. /\ s \o t \in Seq(S)
        /\ Len(s \o t) = Len(s) + Len(t)
        /\ \A j \in 1..(Len(s) + Len(t)) :
              (s \o t)[j] = IF j <= Len(s) THEN s[j] ELSE t[j - Len(s)]
    BY <1>1, <1>2, ConcatProperties
  <2>2. Len(s) + Len(t) = Len(calls) - 1
    BY <1>1, <1>2
  <2>3. QED
    BY <1>1, <2>1, <2>2
<1>4. Without(calls, i) = s \o t
  BY DEF Without, s, t
<1>5. ASSUME NEW j \in 1..(Len(calls) - 1)
      PROVE  Without(calls, i)[j] = IF j < i THEN calls[j] ELSE calls[j + 1]
  <2>1. CASE j < i
    BY <1>1, <1>3, <1>4, <2>1
  <2>2. CASE ~(j < i)
    <3>1. j - (i - 1) \in 1..(Len(calls) - i) /\ i + (j - (i - 1)) = j + 1
      BY <2>2
    <3>2. QED
      BY <1>2, <1>3, <1>4, <2>2, <3>1
  <2>3. QED
    BY <2>1, <2>2
<1>6. QED
  BY <1>3, <1>4, <1>5

\* The last call stays the last when an earlier one is taken out.
LEMMA LastStays ==
  ASSUME NEW S, NEW calls \in Seq(S), NEW i \in 1..Len(calls), i < Len(calls)
  PROVE  /\ Without(calls, i) # <<>>
         /\ Without(calls, i)[Len(Without(calls, i))] = calls[Len(calls)]
<1>1. /\ Without(calls, i) \in Seq(S) /\ Len(Without(calls, i)) = Len(calls) - 1
  BY WithoutProperties
<1>2. ASSUME NEW n \in 1..(Len(calls) - 1), n + 1 = Len(calls)
      PROVE  Without(calls, i)[n] = calls[Len(calls)]
  <2>1. ~(n < i)
    BY <1>2
  <2>2. Without(calls, i)[n] = IF n < i THEN calls[n] ELSE calls[n + 1]
    BY WithoutProperties
  <2>3. QED
    BY <1>2, <2>1, <2>2
<1>3. Without(calls, i)[Len(calls) - 1] = calls[Len(calls)]
  BY <1>2
<1>4. QED
  BY <1>1, <1>2, <1>3

\* Once a fetch of a page has thrown, that is not forgotten.
Remembers == rejected \in BOOLEAN /\ rejected' \in BOOLEAN /\ (rejected => rejected')

LEMMA ClickRemembers ==
  ASSUME rejected \in BOOLEAN, NEW page, Click(page)
  PROVE  Remembers
  BY DEF Click, Remembers

LEMMA EndRemembers ==
  ASSUME rejected \in BOOLEAN, NEW page, NEW outcome, Ends(page, outcome)
  PROVE  Remembers /\ outcome \in Outcomes /\ (outcome = "throws" => rejected')
  BY DEF Ends, Settles, Remembers

LEMMA MovedType ==
  \A progress, last, outcome :
     /\ progress \in Progress => Moved(progress, last, outcome) \in Progress
     /\ progress \in Progress \cup {"stale"} =>
           Moved(progress, last, outcome) \in Progress \cup {"stale"}
  BY DEF Moved, Progress

-----------------------------------------------------------------------------
(* The list.                                                               *)

\* While the answer to the last request is waited for, that request is out,
\* behind all others, and is for the query of the page; until another answer
\* comes the spinner stands.  Once it has been answered, the list is that of the
\* query, or the page says that it is not.
LastAsked ==
    /\ fresh \in {"waiting", "crossed"} => asked # <<>> /\ asked[Len(asked)] = query
    /\ fresh = "waiting" => loading
    /\ fresh = "settled" => list.of = query \/ Admitted

ListInv == ListTypeOK /\ ShowsQuery /\ ListWaits /\ LastAsked

LEMMA ListInitInv == ListInit => ListInv
<1> SUFFICES ASSUME ListInit PROVE ListInv
  OBVIOUS
<1>1. query \in Query /\ draft \in Filters /\ canRead \in BOOLEAN
  BY ListAssumption DEF ListInit, Query
<1>2. asked \in Seq(Query) /\ Len(asked) <= MaxCalls /\ (canRead => asked[Len(asked)] = query)
  BY <1>1, CallsAssumption DEF ListInit
<1>3. ListTypeOK
  BY <1>1, <1>2 DEF ListInit, ListTypeOK, Empty, Progress
<1>4. ShowsQuery /\ ListWaits /\ LastAsked
  BY <1>1, <1>2 DEF ListInit, ShowsQuery, Admitted, OutOfOrder, ListWaits, LastAsked
<1>5. QED
  BY <1>3, <1>4 DEF ListInv

\* The request, for whatever query a handler has kept.
LEMMA LoadKeeps ==
  ASSUME ListInv, Remembers, NEW q \in Query, NEW may \in BOOLEAN, Load(q, may),
         query' \in Query, draft' \in Filters, canRead' \in BOOLEAN
  PROVE  ListInv'
<1> USE DEF Load
<1>1. asked \in Seq(Query) /\ MaxCalls \in Nat
  BY CallsAssumption DEF ListInv, ListTypeOK
<1>2. CASE may
  <2>1. /\ Append(asked, q) \in Seq(Query) /\ Len(Append(asked, q)) = Len(asked) + 1
        /\ Append(asked, q)[Len(asked) + 1] = q /\ Append(asked, q) # <<>>
    BY <1>1
  <2>2. Len(asked) + 1 <= MaxCalls
    BY <1>1, <1>2
  <2>3. ListTypeOK'
    BY <1>2, <2>1, <2>2 DEF ListInv, ListTypeOK, Progress
  <2>4. ShowsQuery' /\ ListWaits' /\ LastAsked'
    BY <1>2, <2>1 DEF ShowsQuery, Admitted, ListWaits, LastAsked
  <2>5. QED
    BY <2>3, <2>4 DEF ListInv
<1>3. CASE ~may
  <2>1. list' \in [of : Query \cup {Null}, total : Totals \cup {0}]
    BY <1>3 DEF Empty
  <2>2. ListTypeOK'
    BY <1>1, <1>3, <2>1 DEF ListInv, ListTypeOK, Progress
  <2>3. ShowsQuery' /\ ListWaits' /\ LastAsked'
    BY <1>3 DEF ShowsQuery, Admitted, ListWaits, LastAsked
  <2>4. QED
    BY <2>2, <2>3 DEF ListInv
<1>4. QED
  BY <1>2, <1>3

\* The effect, after a change of what it depends on.
LEMMA EffectKeeps ==
  ASSUME ListInv, Remembers, Effect,
         query' \in Query, draft' \in Filters, canRead' \in BOOLEAN
  PROVE  ListInv'
<1>1. CASE query' # query \/ canRead' # canRead
  BY <1>1, LoadKeeps DEF Effect
<1>2. CASE query' = query /\ canRead' = canRead
  BY <1>2
  DEF Effect, answerVars, Remembers, ListInv, ListTypeOK, ShowsQuery, Admitted, OutOfOrder,
      ListWaits, LastAsked
<1>3. QED
  BY <1>1, <1>2

LEMMA ListUnchanged ==
  ASSUME ListInv, Remembers, UNCHANGED listVars
  PROVE  ListInv'
  BY DEF Remembers, listVars, answerVars, ListInv, ListTypeOK, ShowsQuery, Admitted, OutOfOrder,
         ListWaits, LastAsked

LEMMA ListArrivesKeeps ==
  ASSUME ListInv, Remembers, NEW i \in 1..Len(asked), NEW outcome, NEW total \in Totals,
         outcome \in Outcomes, outcome = "throws" => rejected', ListArrives(i, outcome, total)
  PROVE  ListInv'
<1> USE DEF ListArrives
<1>1. asked \in Seq(Query) /\ asked[i] \in Query /\ Len(asked) <= MaxCalls
  BY DEF ListInv, ListTypeOK
<1>2. /\ asked' \in Seq(Query) /\ Len(asked') = Len(asked) - 1
      /\ i < Len(asked) => asked' # <<>> /\ asked'[Len(asked')] = asked[Len(asked)]
  BY <1>1, WithoutProperties, LastStays
<1>3. ListTypeOK'
  <2>1. Len(asked') <= MaxCalls
    BY <1>1, <1>2, CallsAssumption
  <2>2. list' \in [of : Query \cup {Null}, total : Totals \cup {0}]
    BY <1>1 DEF ListInv, ListTypeOK, Empty
  <2>3. QED
    BY <1>2, <2>1, <2>2, MovedType DEF ListInv, ListTypeOK
<1>4. ListWaits'
  BY DEF ListInv, ListWaits, ListTypeOK
<1>5. LastAsked'
  <2>1. fresh' \in {"waiting", "crossed"} =>
          /\ fresh \in {"waiting", "crossed"} /\ i < Len(asked)
          /\ fresh' = "waiting" => fresh = "waiting" /\ outcome = "throws"
    BY <1>1 DEF Moved, ListInv, ListTypeOK, Progress
  <2>2. fresh' \in {"waiting", "crossed"} => asked' # <<>> /\ asked'[Len(asked')] = query'
    BY <1>2, <2>1 DEF ListInv, LastAsked
  <2>3. fresh' = "waiting" => loading'
    BY <2>1 DEF ListInv, LastAsked
  <2>4. ASSUME fresh' = "settled"
        PROVE  list'.of = query' \/ loading' \/ listError'
    <3>1. CASE outcome \in {"refused", "forbidden"}
      BY <3>1
    <3>2. CASE outcome = "ok"
      <4>1. fresh \in {"waiting", "crossed"} /\ i = Len(asked)
        BY <2>4, <3>2 DEF Moved, ListInv, ListTypeOK, Progress
      <4>2. QED
        BY <3>2, <4>1 DEF ListInv, LastAsked
    <3>3. CASE outcome = "throws"
      <4>1. fresh \in {"waiting", "settled"}
        BY <2>4, <3>3 DEF Moved, ListInv, ListTypeOK, Progress
      <4>2. QED
        BY <3>3, <4>1 DEF ListInv, LastAsked, Admitted, ListTypeOK
    <3>4. QED
      BY <3>1, <3>2, <3>3 DEF Outcomes
  <2>5. QED
    BY <2>2, <2>3, <2>4 DEF LastAsked, Admitted
<1>6. ShowsQuery'
  BY <1>3, <1>5 DEF ListTypeOK, Progress, ShowsQuery, LastAsked, Admitted, OutOfOrder
<1>7. QED
  BY <1>3, <1>4, <1>5, <1>6 DEF ListInv

\* Which pages there are for the last total and the size chosen.
LEMMA PagesType ==
  ASSUME ListInv
  PROVE  /\ totalPages \in Int /\ query.page \in Nat \ {0}
         /\ safePage = totalPages \/ (safePage = query.page /\ query.page <= totalPages)
<1>1. list.total \in Nat /\ query.size \in Nat \ {0} /\ query.page \in Nat \ {0}
  <2>1. list \in [of : Query \cup {Null}, total : Totals \cup {0}] /\ query \in Query
    BY DEF ListInv, ListTypeOK
  <2>2. list.total \in Totals \cup {0}
    BY <2>1
  <2>3. query.size \in Sizes /\ query.page \in Nat \ {0}
    BY <2>1 DEF Query
  <2>4. list.total \in Nat
    <3>1. \A n \in Totals \cup {0} : n \in Nat
      BY ListAssumption
    <3>2. QED
      BY <2>2, <3>1
  <2>5. query.size \in Nat \ {0}
    BY <2>3, ListAssumption
  <2>6. QED
    BY <2>3, <2>4, <2>5
<1>2. (list.total + query.size - 1) \div query.size \in Int
  BY <1>1
<1>3. QED
  BY <1>1, <1>2 DEF totalPages, safePage

\* A query with another filter, or another size, begins at the first page.
LEMMA OtherFilterType ==
  ASSUME NEW q \in Query, NEW f \in Filters
  PROVE  [q EXCEPT !.filter = f, !.page = 1] \in Query
<1>1. q = [filter |-> q.filter, page |-> q.page, size |-> q.size]
  BY DEF Query
<1>2. [q EXCEPT !.filter = f] = [filter |-> f, page |-> q.page, size |-> q.size]
  BY <1>1
<1>3. \A p : p = [filter |-> f, page |-> q.page, size |-> q.size] =>
              [p EXCEPT !.page = 1] = [filter |-> f, page |-> 1, size |-> q.size]
  OBVIOUS
<1>4. [q EXCEPT !.filter = f, !.page = 1] = [filter |-> f, page |-> 1, size |-> q.size]
  BY <1>2, <1>3, Zenon
<1>5. QED
  BY <1>4 DEF Query

LEMMA OtherSizeType ==
  ASSUME NEW q \in Query, NEW size \in Sizes
  PROVE  [q EXCEPT !.size = size, !.page = 1] \in Query
<1>1. q = [filter |-> q.filter, page |-> q.page, size |-> q.size]
  BY DEF Query
<1>2. [q EXCEPT !.size = size] = [filter |-> q.filter, page |-> q.page, size |-> size]
  BY <1>1
<1>3. \A p : p = [filter |-> q.filter, page |-> q.page, size |-> size] =>
              [p EXCEPT !.page = 1] = [filter |-> q.filter, page |-> 1, size |-> size]
  OBVIOUS
<1>4. [q EXCEPT !.size = size, !.page = 1] = [filter |-> q.filter, page |-> 1, size |-> size]
  BY <1>2, <1>3, Zenon
<1>5. QED
  BY <1>4 DEF Query

\* What a user, another tab or the profile can do to a list.
ListClicks ==
    \/ \E f \in Filters : SetDraft(f)
    \/ ApplySearch \/ ResetFilters \/ PermissionsChange \/ Refresh
    \/ PreviousPage \/ NextPage \/ \E p \in 1..totalPages : PageLink(p)
    \/ \E size \in Sizes : PageSizeChanges(size)

LEMMA ListClicksKeep ==
  ASSUME ListInv, Remembers, ListClicks
  PROVE  ListInv'
<1>1. query \in Query /\ draft \in Filters /\ canRead \in BOOLEAN
  BY DEF ListInv, ListTypeOK
<1>2. CASE \E f \in Filters : SetDraft(f)
  BY <1>2
  DEF SetDraft, answerVars, Remembers, ListInv, ListTypeOK, ShowsQuery, Admitted, OutOfOrder,
      ListWaits, LastAsked
<1>3. CASE ApplySearch \/ ResetFilters
  <2>1. query' \in Query /\ draft' \in Filters /\ canRead' \in BOOLEAN /\ Effect
    <3>1. \A f \in Filters : [query EXCEPT !.filter = f, !.page = 1] \in Query
      BY <1>1, OtherFilterType
    <3>2. QED
      BY <1>1, <1>3, <3>1, ListAssumption DEF ApplySearch, ResetFilters
  <2>2. QED
    BY <2>1, EffectKeeps
<1>4. CASE PermissionsChange
  BY <1>1, <1>4, EffectKeeps DEF PermissionsChange
<1>5. CASE Refresh
  BY <1>1, <1>5, LoadKeeps DEF Refresh
<1>6. ASSUME NEW p \in Nat \ {0}, TurnPage(p)
      PROVE  ListInv'
  BY <1>1, <1>6, EffectKeeps DEF TurnPage, Query
<1>7. CASE PreviousPage \/ NextPage \/ \E p \in 1..totalPages : PageLink(p)
  <2>1. CASE PreviousPage
    <3>1. safePage - 1 \in Nat \ {0}
      BY <2>1, PagesType DEF PreviousPage
    <3>2. QED
      BY <1>6, <2>1, <3>1 DEF PreviousPage
  <2>2. CASE NextPage
    <3>1. safePage + 1 \in Nat \ {0}
      BY <2>2, PagesType DEF NextPage
    <3>2. QED
      BY <1>6, <2>2, <3>1 DEF NextPage
  <2>3. CASE \E p \in 1..totalPages : PageLink(p)
    BY <1>6, <2>3, PagesType DEF PageLink
  <2>4. QED
    BY <1>7, <2>1, <2>2, <2>3
<1>8. CASE \E size \in Sizes : PageSizeChanges(size)
  <2>1. query' \in Query /\ draft' \in Filters /\ canRead' \in BOOLEAN /\ Effect
    <3>1. \A size \in Sizes : [query EXCEPT !.size = size, !.page = 1] \in Query
      BY <1>1, OtherSizeType
    <3>2. QED
      BY <1>1, <1>8, <3>1 DEF PageSizeChanges
  <2>2. QED
    BY <2>1, EffectKeeps
<1>9. QED
  BY <1>2, <1>3, <1>4, <1>5, <1>7, <1>8 DEF ListClicks

-----------------------------------------------------------------------------
(* The dialogs.                                                            *)

\* What a handler has kept of its render.
Closures == [query : Query, may : BOOLEAN]

\* While the answer to the last opening of the dialog is waited for, its call
\* is out, behind all others, and is for the account of the dialog.  If no other
\* answer has come, the fields are of that account, or Save cannot be pressed,
\* or an error is shown.
LastFetched ==
    /\ detail \in {"waiting", "crossed"} =>
          fetching # <<>> /\ fetching[Len(fetching)] = edit.id
    /\ detail \in {"waiting", "settled"} =>
          edit.fields = edit.id \/ edit.error \/ edit.busy \/ ~edit.open

\* The edit dialog, a save that is out.
EditDialogs ==
    [open : BOOLEAN, busy : BOOLEAN, error : BOOLEAN, id : Ids \cup {Null},
     fields : Ids \cup {Null}]
EditSaves ==
    [id : Ids \cup {Null}, fields : Ids \cup {Null}, then : Closures, told : BOOLEAN,
     detail : Progress]

\* The dialogs and their calls.
DialogTypeOK ==
    /\ create \in [open : BOOLEAN, busy : BOOLEAN]
    /\ creating \in Seq(Closures)
    /\ edit \in EditDialogs
    /\ fetching \in Seq(Ids)
    /\ saving \in Seq(EditSaves)
    /\ detail \in Progress

DialogInv == DialogTypeOK /\ SavesWhatItShows /\ DialogsWait /\ LastFetched

LEMMA DialogsInitInv == DialogsInit => DialogInv
  BY DEF DialogsInit, DialogInv, DialogTypeOK, EditDialogs, Progress, SavesWhatItShows,
         DialogsWait, LastFetched

LEMMA DialogsUnchanged ==
  ASSUME DialogInv, Remembers, UNCHANGED dialogVars
  PROVE  DialogInv'
  BY DEF Remembers, dialogVars, DialogInv, DialogTypeOK, SavesWhatItShows, DialogsWait, LastFetched

\* The create dialog.
LEMMA CreateDialogKeeps ==
  ASSUME ListInv, DialogInv, Remembers, OpenCreate \/ CancelCreate \/ SubmitCreate
  PROVE  DialogInv'
<1> USE DEF OpenCreate, CancelCreate, SubmitCreate
<1>1. Closure \in Closures
  BY DEF Closure, Closures, ListInv, ListTypeOK
<1>2. create' \in [open : BOOLEAN, busy : BOOLEAN]
  BY DEF DialogInv, DialogTypeOK
<1>3. creating' \in Seq(Closures) /\ (create'.busy => create.busy \/ creating' # <<>>)
      /\ (creating # <<>> => creating' # <<>>)
  <2>1. creating \in Seq(Closures) /\ create \in [open : BOOLEAN, busy : BOOLEAN]
    BY DEF DialogInv, DialogTypeOK
  <2>2. Append(creating, Closure) \in Seq(Closures) /\ Append(creating, Closure) # <<>>
    BY <1>1, <2>1, AppendProperties
  <2>3. QED
    BY <2>1, <2>2
<1>4. DialogTypeOK'
  BY <1>2, <1>3 DEF DialogInv, DialogTypeOK
<1>5. SavesWhatItShows' /\ DialogsWait' /\ LastFetched'
  BY <1>3 DEF Remembers, DialogInv, SavesWhatItShows, DialogsWait, LastFetched
<1>6. QED
  BY <1>4, <1>5 DEF DialogInv

\* A call of the create dialog ends; after a success the list is loaded again.
LEMMA CreateArrivesKeeps ==
  ASSUME ListInv, DialogInv, Remembers, NEW i \in 1..Len(creating), NEW outcome,
         outcome = "throws" => rejected', CreateArrives(i, outcome)
  PROVE  ListInv' /\ DialogInv'
<1> USE DEF CreateArrives
<1>1. creating \in Seq(Closures) /\ creating[i] \in Closures /\ Without(creating, i) \in Seq(Closures)
  BY WithoutProperties DEF DialogInv, DialogTypeOK
<1>2. ListInv'
  <2>1. query' \in Query /\ draft' \in Filters /\ canRead' \in BOOLEAN
    BY DEF ListInv, ListTypeOK
  <2>2. CASE outcome = "ok"
    BY <1>1, <2>1, <2>2, LoadKeeps DEF Reload, Closures
  <2>3. CASE outcome # "ok"
    BY <2>3, ListUnchanged DEF listVars
  <2>4. QED
    BY <2>2, <2>3
<1>3. DialogTypeOK'
  BY <1>1 DEF DialogInv, DialogTypeOK
<1>4. SavesWhatItShows' /\ DialogsWait' /\ LastFetched'
  BY DEF Remembers, DialogInv, DialogTypeOK, SavesWhatItShows, DialogsWait, LastFetched
<1>5. QED
  BY <1>2, <1>3, <1>4 DEF DialogInv

\* The edit dialog opens for an account, and is left, or refuses to save.
LEMMA OpenEditKeeps ==
  ASSUME DialogInv, Remembers, NEW id \in Ids, OpenEdit(id)
  PROVE  DialogInv'
<1> USE DEF OpenEdit
<1>1. /\ fetching' \in Seq(Ids) /\ fetching' # <<>> /\ fetching'[Len(fetching')] = id
  BY DEF DialogInv, DialogTypeOK
<1>2. edit' \in EditDialogs /\ edit'.id = id /\ edit'.busy
  BY DEF DialogInv, DialogTypeOK, EditDialogs
<1>3. DialogTypeOK'
  BY <1>1, <1>2 DEF DialogInv, DialogTypeOK, Progress
<1>4. SavesWhatItShows' /\ DialogsWait' /\ LastFetched'
  BY <1>1, <1>2 DEF Remembers, DialogInv, SavesWhatItShows, DialogsWait, LastFetched
<1>5. QED
  BY <1>3, <1>4 DEF DialogInv

LEMMA CancelEditKeeps ==
  ASSUME DialogInv, Remembers, CancelEdit \/ RefuseForm
  PROVE  DialogInv'
<1>1. /\ edit' \in EditDialogs
      /\ edit'.busy = edit.busy /\ edit'.id = edit.id /\ edit'.fields = edit.fields
      /\ ~edit'.open \/ edit'.error
  BY DEF CancelEdit, RefuseForm, DialogInv, DialogTypeOK, EditDialogs
<1>2. UNCHANGED <<create, creating, fetching, saving, detail>>
  BY DEF CancelEdit, RefuseForm
<1>3. QED
  BY <1>1, <1>2
  DEF Remembers, DialogInv, DialogTypeOK, SavesWhatItShows, DialogsWait, LastFetched

\* The account has been answered: its fields are shown, whatever the id.
LEMMA DetailArrivesKeeps ==
  ASSUME DialogInv, Remembers, NEW i \in 1..Len(fetching), NEW outcome \in Outcomes,
         outcome = "throws" => rejected', DetailArrives(i, outcome)
  PROVE  DialogInv'
<1> USE DEF DetailArrives
<1>1. fetching \in Seq(Ids) /\ fetching[i] \in Ids /\ Len(fetching) \in Nat
  BY DEF DialogInv, DialogTypeOK
<1>2. /\ fetching' \in Seq(Ids)
      /\ i < Len(fetching) =>
            fetching' # <<>> /\ fetching'[Len(fetching')] = fetching[Len(fetching)]
  BY <1>1, WithoutProperties, LastStays
<1>3. /\ edit' \in EditDialogs /\ edit'.id = edit.id /\ edit'.open = edit.open
      /\ edit'.busy = (edit.busy /\ outcome = "throws")
      /\ edit'.error = (edit.error \/ outcome \in {"refused", "forbidden"})
      /\ edit'.fields = IF outcome = "ok" THEN fetching[i] ELSE edit.fields
  BY <1>1 DEF DialogInv, DialogTypeOK, EditDialogs
<1>4. DialogTypeOK'
  BY <1>2, <1>3, MovedType DEF DialogInv, DialogTypeOK
<1>5. LastFetched'
  <2>1. detail' \in {"waiting", "crossed"} => detail \in {"waiting", "crossed"} /\ i < Len(fetching)
    BY <1>1 DEF Moved, DialogInv, DialogTypeOK, Progress
  <2>2. detail' \in {"waiting", "crossed"} =>
          fetching' # <<>> /\ fetching'[Len(fetching')] = edit'.id
    BY <1>2, <1>3, <2>1 DEF DialogInv, LastFetched
  <2>3. ASSUME detail' \in {"waiting", "settled"}
        PROVE  edit'.fields = edit'.id \/ edit'.error \/ edit'.busy \/ ~edit'.open
    <3>1. CASE outcome \in {"refused", "forbidden"}
      BY <1>3, <3>1
    <3>2. CASE outcome = "ok"
      <4>1. detail \in {"waiting", "crossed"} /\ i = Len(fetching)
        BY <2>3, <3>2 DEF Moved, DialogInv, DialogTypeOK, Progress
      <4>2. QED
        BY <1>3, <3>2, <4>1 DEF DialogInv, LastFetched
    <3>3. CASE outcome = "throws"
      <4>1. detail \in {"waiting", "settled"}
        BY <2>3, <3>3 DEF Moved, DialogInv, DialogTypeOK, Progress
      <4>2. /\ edit'.busy = edit.busy /\ edit'.fields = edit.fields /\ edit'.error = edit.error
            /\ edit'.open = edit.open /\ edit'.id = edit.id
        BY <1>3, <3>3 DEF DialogInv, DialogTypeOK, EditDialogs
      <4>3. QED
        BY <4>1, <4>2 DEF DialogInv, LastFetched
    <3>4. QED
      BY <3>1, <3>2, <3>3 DEF Outcomes
  <2>4. QED
    BY <2>2, <2>3 DEF LastFetched
<1>6. SavesWhatItShows' /\ DialogsWait'
  BY <1>3 DEF Remembers, DialogInv, SavesWhatItShows, DialogsWait
<1>7. QED
  BY <1>4, <1>5, <1>6 DEF DialogInv

\* Save: Save can be pressed, so the fields are those of the account, or an
\* error is shown, or another answer than the last has come.
LEMMA SubmitEditKeeps ==
  ASSUME ListInv, DialogInv, Remembers, edit.open, ~edit.busy, SubmitEdit
  PROVE  DialogInv'
<1> USE DEF SubmitEdit
<1> DEFINE save == [id |-> edit.id, fields |-> edit.fields, then |-> Closure,
                    told |-> edit.error, detail |-> detail]
<1>1. Closure \in Closures
  BY DEF Closure, Closures, ListInv, ListTypeOK
<1>2. save \in EditSaves
  BY <1>1 DEF DialogInv, DialogTypeOK, EditDialogs, EditSaves
<1>3. save.fields = save.id \/ save.told \/ save.detail \in {"crossed", "overtaken"}
  BY DEF DialogInv, DialogTypeOK, Progress, LastFetched
<1> HIDE DEF save
<1>4. saving \in Seq(EditSaves) /\ saving' = Append(saving, save)
  BY DEF DialogInv, DialogTypeOK, save
<1>5. /\ saving' \in Seq(EditSaves) /\ saving' # <<>>
      /\ \A i \in DOMAIN saving' : (i \in DOMAIN saving /\ saving'[i] = saving[i]) \/ saving'[i] = save
  BY <1>2, <1>4
<1>6. edit' \in EditDialogs /\ edit'.id = edit.id /\ edit'.busy
  BY DEF DialogInv, DialogTypeOK, EditDialogs
<1>7. DialogTypeOK'
  BY <1>5, <1>6 DEF DialogInv, DialogTypeOK
<1>8. SavesWhatItShows'
  BY <1>3, <1>5 DEF DialogInv, SavesWhatItShows
<1>9. DialogsWait' /\ LastFetched'
  BY <1>5, <1>6 DEF Remembers, DialogInv, DialogsWait, LastFetched
<1>10. QED
  BY <1>7, <1>8, <1>9 DEF DialogInv

\* A save ends; after a success the list is loaded again.
LEMMA SaveArrivesKeeps ==
  ASSUME ListInv, DialogInv, Remembers, NEW i \in 1..Len(saving), NEW outcome \in Outcomes,
         outcome = "throws" => rejected', SaveArrives(i, outcome)
  PROVE  ListInv' /\ DialogInv'
<1> USE DEF SaveArrives
<1>1. saving \in Seq(EditSaves)
  BY DEF DialogInv, DialogTypeOK
<1>2. saving[i].then \in Closures
  <2>1. saving[i] \in EditSaves
    BY <1>1
  <2>2. QED
    BY <2>1 DEF EditSaves
<1>3. /\ saving' \in Seq(EditSaves) /\ Len(saving') = Len(saving) - 1
      /\ \A j \in 1..(Len(saving) - 1) : saving'[j] = IF j < i THEN saving[j] ELSE saving[j + 1]
  BY <1>1, WithoutProperties
<1>4. ListInv'
  <2>1. query' \in Query /\ draft' \in Filters /\ canRead' \in BOOLEAN
    BY DEF ListInv, ListTypeOK
  <2>2. CASE outcome = "ok"
    BY <1>2, <2>1, <2>2, LoadKeeps DEF Reload, Closures
  <2>3. CASE outcome # "ok"
    BY <2>3, ListUnchanged DEF listVars
  <2>4. QED
    BY <2>2, <2>3
<1>5. /\ edit' \in EditDialogs
      /\ edit'.id = edit.id /\ edit'.fields = edit.fields
      /\ edit'.open = (edit.open /\ outcome # "ok")
      /\ edit'.busy = (edit.busy /\ outcome = "throws")
      /\ edit'.error = (edit.error \/ outcome \in {"refused", "forbidden"})
  BY DEF DialogInv, DialogTypeOK, EditDialogs
<1>6. DialogTypeOK'
  BY <1>3, <1>5 DEF DialogInv, DialogTypeOK
<1>7. SavesWhatItShows'
  <2>1. ASSUME NEW j \in DOMAIN saving'
        PROVE  \E k \in DOMAIN saving : saving'[j] = saving[k]
    <3>1. j \in 1..(Len(saving) - 1) /\ j \in DOMAIN saving /\ j + 1 \in DOMAIN saving
      BY <1>1, <1>3
    <3>2. QED
      BY <1>3, <3>1
  <2>2. QED
    BY <2>1 DEF DialogInv, SavesWhatItShows
<1>8. DialogsWait' /\ LastFetched'
  BY <1>5 DEF Remembers, DialogInv, DialogTypeOK, EditDialogs, Outcomes, DialogsWait, LastFetched
<1>9. QED
  BY <1>4, <1>6, <1>7, <1>8 DEF DialogInv

-----------------------------------------------------------------------------
(* The pages of the accounts and of the front users.                       *)

\* One step of either page, but for what it says of the screen.
UsersStep ==
    \/ ListClicks /\ UNCHANGED dialogVars
    \/ (OpenCreate \/ CancelCreate \/ SubmitCreate) /\ UNCHANGED listVars
    \/ (CancelEdit \/ RefuseForm \/ \E id \in Ids : OpenEdit(id)) /\ UNCHANGED listVars
    \/ edit.open /\ ~edit.busy /\ SubmitEdit /\ UNCHANGED listVars
    \/ \E outcome \in Outcomes :
          /\ outcome = "throws" => rejected'
          /\ \/ UNCHANGED <<listVars, dialogVars>>
             \/ /\ \E i \in 1..Len(asked), total \in Totals : ListArrives(i, outcome, total)
                /\ UNCHANGED dialogVars
             \/ \E i \in 1..Len(creating) : CreateArrives(i, outcome)
             \/ (\E i \in 1..Len(fetching) : DetailArrives(i, outcome)) /\ UNCHANGED listVars
             \/ \E i \in 1..Len(saving) : SaveArrives(i, outcome)

LEMMA UsersKeep ==
  ASSUME ListInv, DialogInv, Remembers, UsersStep
  PROVE  ListInv' /\ DialogInv'
<1>1. CASE ListClicks /\ UNCHANGED dialogVars
  BY <1>1, ListClicksKeep, DialogsUnchanged
<1>2. CASE (OpenCreate \/ CancelCreate \/ SubmitCreate) /\ UNCHANGED listVars
  BY <1>2, ListUnchanged, CreateDialogKeeps
<1>3. CASE \/ (CancelEdit \/ RefuseForm \/ \E id \in Ids : OpenEdit(id)) /\ UNCHANGED listVars
           \/ edit.open /\ ~edit.busy /\ SubmitEdit /\ UNCHANGED listVars
  BY <1>3, ListUnchanged, CancelEditKeeps, SubmitEditKeeps, OpenEditKeeps
<1>4. ASSUME NEW outcome \in Outcomes, outcome = "throws" => rejected',
             \/ UNCHANGED <<listVars, dialogVars>>
             \/ /\ \E i \in 1..Len(asked), total \in Totals : ListArrives(i, outcome, total)
                /\ UNCHANGED dialogVars
             \/ \E i \in 1..Len(creating) : CreateArrives(i, outcome)
             \/ (\E i \in 1..Len(fetching) : DetailArrives(i, outcome)) /\ UNCHANGED listVars
             \/ \E i \in 1..Len(saving) : SaveArrives(i, outcome)
      PROVE  ListInv' /\ DialogInv'
  <2>1. CASE UNCHANGED <<listVars, dialogVars>>
    BY <2>1, ListUnchanged, DialogsUnchanged
  <2>2. CASE /\ \E i \in 1..Len(asked), total \in Totals : ListArrives(i, outcome, total)
             /\ UNCHANGED dialogVars
    BY <1>4, <2>2, ListArrivesKeeps, DialogsUnchanged
  <2>3. CASE \E i \in 1..Len(creating) : CreateArrives(i, outcome)
    BY <1>4, <2>3, CreateArrivesKeeps
  <2>4. CASE (\E i \in 1..Len(fetching) : DetailArrives(i, outcome)) /\ UNCHANGED listVars
    BY <1>4, <2>4, ListUnchanged, DetailArrivesKeeps
  <2>5. CASE \E i \in 1..Len(saving) : SaveArrives(i, outcome)
    BY <1>4, <2>5, SaveArrivesKeeps
  <2>6. QED
    BY <1>4, <2>1, <2>2, <2>3, <2>4, <2>5
<1>5. QED
  BY <1>1, <1>2, <1>3, <1>4 DEF UsersStep

LEMMA SystemUsersSteps ==
  ASSUME rejected \in BOOLEAN, SystemUsersNext
  PROVE  Remembers /\ UsersStep
<1>1. CASE \/ \E f \in Filters : sysFilterCard(f)
           \/ \E size \in Sizes : sysPageSize(size)
           \/ sysApplySearch \/ sysResetFilters \/ sysPages \/ sysRefresh \/ sysProfile
  BY <1>1, ClickRemembers
  DEF SysClick, UsersStep, ListClicks, sysFilterCard, sysPageSize, sysApplySearch,
      sysResetFilters, sysPages, sysRefresh, sysProfile
<1>2. CASE \/ sysOpenCreate \/ sysCancelCreate \/ sysSubmitCreate
           \/ sysCancelEdit \/ sysRefuseForm \/ sysSubmitEdit \/ \E id \in Ids : sysOpenEdit(id)
  BY <1>2, ClickRemembers
  DEF SysClick, UsersStep, sysOpenCreate, sysCancelCreate, sysSubmitCreate, sysCancelEdit,
      sysRefuseForm, sysSubmitEdit, sysOpenEdit, SysEditDialog
<1>3. ASSUME NEW outcome \in Outcomes,
             \/ loadRolesCatalog(outcome)
             \/ \E i \in 1..Len(asked), total \in Totals : sysLoadUsers(i, outcome, total)
             \/ \E i \in 1..Len(creating) : sysCreated(i, outcome)
             \/ \E i \in 1..Len(fetching) : sysDetail(i, outcome)
             \/ \E i \in 1..Len(saving) : sysSaved(i, outcome)
      PROVE  Remembers /\ UsersStep
  <2>1. Ends("system/users", outcome)
    BY <1>3
    DEF SysEnds, loadRolesCatalog, sysLoadUsers, sysCreated, sysDetail, sysSaved
  <2>2. Remembers /\ (outcome = "throws" => rejected')
    BY <2>1, EndRemembers
  <2>3. QED
    BY <1>3, <2>2
    DEF UsersStep, loadRolesCatalog, sysLoadUsers, sysCreated, sysDetail, sysSaved
<1>4. QED
  BY <1>1, <1>2, <1>3 DEF SystemUsersNext

LEMMA FrontUsersSteps ==
  ASSUME rejected \in BOOLEAN, FrontUsersNext
  PROVE  Remembers /\ UsersStep
<1>1. CASE \/ \E f \in Filters : frontFilterCard(f)
           \/ \E size \in Sizes : frontPageSize(size)
           \/ frontApplySearch \/ frontResetFilters \/ frontPages \/ frontRefresh \/ frontProfile
  BY <1>1, ClickRemembers
  DEF FrontClick, UsersStep, ListClicks, frontFilterCard, frontPageSize, frontApplySearch,
      frontResetFilters, frontPages, frontRefresh, frontProfile
<1>2. CASE \/ frontOpenCreate \/ frontCancelCreate \/ frontSubmitCreate
           \/ frontCancelEdit \/ frontRefuseForm \/ frontSubmitEdit
           \/ \E id \in Ids : frontOpenEdit(id)
  BY <1>2, ClickRemembers
  DEF FrontClick, UsersStep, frontOpenCreate, frontCancelCreate, frontSubmitCreate,
      frontCancelEdit, frontRefuseForm, frontSubmitEdit, frontOpenEdit, FrontUserModal
<1>3. ASSUME NEW outcome \in Outcomes,
             \/ \E i \in 1..Len(asked), total \in Totals : frontLoadUsers(i, outcome, total)
             \/ \E i \in 1..Len(creating) : frontCreated(i, outcome)
             \/ \E i \in 1..Len(fetching) : frontDetail(i, outcome)
             \/ \E i \in 1..Len(saving) : frontSaved(i, outcome)
      PROVE  Remembers /\ UsersStep
  <2>1. Ends("front/users", outcome)
    BY <1>3 DEF FrontEnds, frontLoadUsers, frontCreated, frontDetail, frontSaved
  <2>2. Remembers /\ (outcome = "throws" => rejected')
    BY <2>1, EndRemembers
  <2>3. QED
    BY <1>3, <2>2 DEF UsersStep, frontLoadUsers, frontCreated, frontDetail, frontSaved
<1>4. QED
  BY <1>1, <1>2, <1>3 DEF FrontUsersNext

-----------------------------------------------------------------------------
(* The page of the operation log.                                          *)

\* An export that is out.
Exports == [filter : Filters, counted : Query \cup {Null}, sure : BOOLEAN]

LogsTypeOK ==
    /\ statsDays \in Days
    /\ stats \in Days \cup {Null}
    /\ statsLoading \in BOOLEAN
    /\ askedStats \in Seq(Days)
    /\ freshStats \in Progress
    /\ exporting \in BOOLEAN
    /\ exports \in Seq(Exports)

\* As LastAsked, for the period of the statistics.
LastPeriod ==
    /\ freshStats \in {"waiting", "crossed"} =>
          askedStats # <<>> /\ askedStats[Len(askedStats)] = statsDays
    /\ freshStats = "waiting" => statsLoading
    /\ freshStats = "settled" => stats \in {Null, statsDays} \/ statsLoading

LogsInv == LogsTypeOK /\ ShowsPeriod /\ ExportsWhatItCounts /\ LogsWait /\ LastPeriod

LEMMA LogsMountInv == LogsMount => LogsInv
<1> SUFFICES ASSUME LogsMount PROVE LogsInv
  OBVIOUS
<1>1. canRead \in BOOLEAN
  BY DEF LogsMount, ListInit
<1>2. askedStats \in Seq(Days) /\ (canRead => askedStats[Len(askedStats)] = statsDays)
  BY DEF LogsMount
<1>3. LogsTypeOK
  <2>1. exports \in Seq(Exports)
    BY EmptySeq DEF LogsMount
  <2>2. freshStats \in Progress /\ statsLoading \in BOOLEAN
    BY <1>1 DEF LogsMount, Progress
  <2>3. QED
    BY <1>2, <2>1, <2>2 DEF LogsMount, LogsTypeOK
<1>4. ShowsPeriod /\ ExportsWhatItCounts /\ LogsWait /\ LastPeriod
  BY <1>1, <1>2 DEF LogsMount, ShowsPeriod, ExportsWhatItCounts, LogsWait, LastPeriod
<1>5. QED
  BY <1>3, <1>4 DEF LogsInv

LEMMA LogsUnchanged ==
  ASSUME LogsInv, Remembers, UNCHANGED logsVars
  PROVE  LogsInv'
  BY DEF Remembers, logsVars, LogsInv, LogsTypeOK, ShowsPeriod, ExportsWhatItCounts, LogsWait,
         LastPeriod

\* The statistics are asked for, of the period chosen.
LEMMA LoadStatsKeeps ==
  ASSUME LogsInv, Remembers, statsDays' \in Days, NEW may \in BOOLEAN,
         LoadStats(statsDays', may), UNCHANGED <<exporting, exports>>
  PROVE  LogsInv'
<1> USE DEF LoadStats
<1>1. askedStats \in Seq(Days)
  BY DEF LogsInv, LogsTypeOK
<1>2. CASE may
  <2>1. /\ askedStats' \in Seq(Days) /\ askedStats' # <<>>
        /\ askedStats'[Len(askedStats')] = statsDays'
    BY <1>1, <1>2, AppendProperties
  <2>2. QED
    BY <1>2, <2>1
    DEF Remembers, LogsInv, LogsTypeOK, Progress, ShowsPeriod, ExportsWhatItCounts, LogsWait,
        LastPeriod
<1>3. CASE ~may
  BY <1>3
  DEF Remembers, LogsInv, LogsTypeOK, Progress, ShowsPeriod, ExportsWhatItCounts, LogsWait, LastPeriod
<1>4. QED
  BY <1>2, <1>3

\* The statistics have been answered.
LEMMA StatsKeep ==
  ASSUME LogsInv, Remembers, NEW i \in 1..Len(askedStats), NEW outcome \in Outcomes,
         outcome = "throws" => rejected', loadStats(i, outcome)
  PROVE  LogsInv'
<1> USE DEF loadStats
<1>1. askedStats \in Seq(Days) /\ askedStats[i] \in Days /\ Len(askedStats) \in Nat
  BY DEF LogsInv, LogsTypeOK
<1>2. /\ askedStats' \in Seq(Days)
      /\ i < Len(askedStats) =>
            askedStats' # <<>> /\ askedStats'[Len(askedStats')] = askedStats[Len(askedStats)]
  BY <1>1, WithoutProperties, LastStays
<1>3. LogsTypeOK'
  BY <1>1, <1>2, MovedType DEF LogsInv, LogsTypeOK
<1>4. LastPeriod'
  <2>1. freshStats' \in {"waiting", "crossed"} =>
          /\ freshStats \in {"waiting", "crossed"} /\ i < Len(askedStats)
          /\ freshStats' = "waiting" => freshStats = "waiting" /\ outcome = "throws"
    BY <1>1 DEF Moved, LogsInv, LogsTypeOK, Progress
  <2>2. freshStats' \in {"waiting", "crossed"} =>
          askedStats' # <<>> /\ askedStats'[Len(askedStats')] = statsDays'
    BY <1>2, <2>1 DEF LogsInv, LastPeriod
  <2>3. freshStats' = "waiting" => statsLoading'
    BY <2>1 DEF LogsInv, LastPeriod
  <2>4. ASSUME freshStats' = "settled"
        PROVE  stats' \in {Null, statsDays'} \/ statsLoading'
    <3>1. CASE outcome \in {"refused", "forbidden"}
      BY <3>1
    <3>2. CASE outcome = "ok"
      <4>1. freshStats \in {"waiting", "crossed"} /\ i = Len(askedStats)
        BY <2>4, <3>2 DEF Moved, LogsInv, LogsTypeOK, Progress
      <4>2. QED
        BY <3>2, <4>1 DEF LogsInv, LastPeriod
    <3>3. CASE outcome = "throws"
      <4>1. freshStats \in {"waiting", "settled"}
        BY <2>4, <3>3 DEF Moved, LogsInv, LogsTypeOK, Progress
      <4>2. QED
        BY <3>3, <4>1 DEF LogsInv, LogsTypeOK, LastPeriod
    <3>4. QED
      BY <3>1, <3>2, <3>3 DEF Outcomes
  <2>5. QED
    BY <2>2, <2>3, <2>4 DEF LastPeriod
<1>5. ShowsPeriod'
  BY <1>3, <1>4 DEF LogsTypeOK, Progress, ShowsPeriod, LastPeriod
<1>6. ExportsWhatItCounts' /\ LogsWait'
  BY DEF Remembers, LogsInv, LogsTypeOK, ExportsWhatItCounts, LogsWait
<1>7. QED
  BY <1>3, <1>4, <1>5, <1>6 DEF LogsInv

\* An export goes out with the number of rows of the list that is shown.
LEMMA ExportKeeps ==
  ASSUME ListInv, LogsInv, Remembers, exportXlsx
  PROVE  LogsInv'
<1> USE DEF exportXlsx
<1> DEFINE export == [filter |-> query.filter, counted |-> list.of,
                      sure |-> ~Admitted /\ ~OutOfOrder]
<1>1. export \in Exports
  <2>1. query.filter \in Filters
    BY DEF ListInv, ListTypeOK, Query
  <2>2. QED
    BY <2>1 DEF ListInv, ListTypeOK, Exports
<1>2. export.sure => export.counted.filter = export.filter
  BY DEF ListInv, ShowsQuery
<1>3. exports \in Seq(Exports) /\ exports' = Append(exports, export)
  BY DEF LogsInv, LogsTypeOK
<1> HIDE DEF export
<1>4. /\ exports' \in Seq(Exports) /\ exports' # <<>>
      /\ \A i \in DOMAIN exports' :
            (i \in DOMAIN exports /\ exports'[i] = exports[i]) \/ exports'[i] = export
  BY <1>1, <1>3
<1>5. LogsTypeOK'
  BY <1>4 DEF LogsInv, LogsTypeOK, statsVars
<1>6. ExportsWhatItCounts'
  BY <1>2, <1>4 DEF LogsInv, ExportsWhatItCounts
<1>7. ShowsPeriod' /\ LogsWait' /\ LastPeriod'
  BY <1>4 DEF Remembers, LogsInv, ShowsPeriod, LogsWait, LastPeriod, statsVars
<1>8. QED
  BY <1>5, <1>6, <1>7 DEF LogsInv

LEMMA ExportEndKeeps ==
  ASSUME LogsInv, Remembers, NEW i \in 1..Len(exports), NEW outcome,
         outcome = "throws" => rejected', exportEnds(i, outcome)
  PROVE  LogsInv'
<1> USE DEF exportEnds
<1>1. exports \in Seq(Exports)
  BY DEF LogsInv, LogsTypeOK
<1>2. /\ exports' \in Seq(Exports) /\ Len(exports') = Len(exports) - 1
      /\ \A j \in 1..(Len(exports) - 1) :
            exports'[j] = IF j < i THEN exports[j] ELSE exports[j + 1]
  BY <1>1, WithoutProperties
<1>3. LogsTypeOK'
  BY <1>2 DEF LogsInv, LogsTypeOK, statsVars
<1>4. ExportsWhatItCounts'
  <2>1. ASSUME NEW j \in DOMAIN exports'
        PROVE  \E k \in DOMAIN exports : exports'[j] = exports[k]
    <3>1. j \in 1..(Len(exports) - 1) /\ j \in DOMAIN exports /\ j + 1 \in DOMAIN exports
      BY <1>1, <1>2
    <3>2. QED
      BY <1>2, <3>1
  <2>2. QED
    BY <2>1 DEF LogsInv, ExportsWhatItCounts
<1>5. ShowsPeriod' /\ LogsWait' /\ LastPeriod'
  BY DEF Remembers, LogsInv, ShowsPeriod, LogsWait, LastPeriod, statsVars
<1>6. QED
  BY <1>3, <1>4, <1>5 DEF LogsInv

LEMMA OperationLogsKeep ==
  ASSUME rejected \in BOOLEAN, ListInv, LogsInv, OperationLogsNext
  PROVE  Remembers /\ ListInv' /\ LogsInv'
<1>1. canRead \in BOOLEAN /\ statsDays \in Days
  BY DEF ListInv, ListTypeOK, LogsInv, LogsTypeOK
<1>2. CASE \/ \E f \in Filters : logsSearchForm(f)
           \/ \E size \in Sizes : logsPageSize(size)
           \/ logsApplySearch \/ logsResetFilters \/ logsPages
  <2>1. Remembers /\ ListClicks /\ UNCHANGED logsVars
    BY <1>2, ClickRemembers
    DEF LogsClick, ListClicks, logsSearchForm, logsPageSize, logsApplySearch, logsResetFilters,
        logsPages
  <2>2. QED
    BY <2>1, ListClicksKeep, LogsUnchanged
<1>3. CASE logsRefresh \/ logsProfile
  <2>1. Remembers /\ ListClicks /\ UNCHANGED <<statsDays, exporting, exports>>
    BY <1>3, ClickRemembers DEF LogsClick, ListClicks, logsRefresh, logsProfile
  <2>2. \E may \in BOOLEAN : LoadStats(statsDays', may)
    BY <1>1, <1>3 DEF logsRefresh, logsProfile, Refresh, PermissionsChange
  <2>3. QED
    BY <1>1, <2>1, <2>2, ListClicksKeep, LoadStatsKeeps
<1>4. CASE \E days \in Days : SetStatsDays(days)
  <2>1. Remembers /\ UNCHANGED listVars /\ LoadStats(statsDays', canRead)
        /\ statsDays' \in Days /\ UNCHANGED <<exporting, exports>>
    BY <1>4, ClickRemembers DEF LogsClick, SetStatsDays
  <2>2. QED
    BY <1>1, <2>1, ListUnchanged, LoadStatsKeeps
<1>5. CASE exportXlsx
  <2>1. Remembers /\ UNCHANGED listVars
    BY <1>5, ClickRemembers DEF LogsClick, exportXlsx
  <2>2. QED
    BY <1>5, <2>1, ListUnchanged, ExportKeeps
<1>6. ASSUME NEW outcome \in Outcomes,
             \/ \E i \in 1..Len(asked), total \in Totals : logsLoad(i, outcome, total)
             \/ \E i \in 1..Len(askedStats) : loadStats(i, outcome)
             \/ \E i \in 1..Len(exports) : exportEnds(i, outcome)
      PROVE  Remembers /\ ListInv' /\ LogsInv'
  <2>1. Ends("system/operation-logs", outcome)
    BY <1>6 DEF LogsEnds, logsLoad, loadStats, exportEnds
  <2>2. Remembers /\ (outcome = "throws" => rejected')
    BY <2>1, EndRemembers
  <2>3. CASE \E i \in 1..Len(asked), total \in Totals : logsLoad(i, outcome, total)
    BY <2>2, <2>3, ListArrivesKeeps, LogsUnchanged DEF logsLoad
  <2>4. CASE \E i \in 1..Len(askedStats) : loadStats(i, outcome)
    BY <2>2, <2>4, StatsKeep, ListUnchanged DEF loadStats
  <2>5. CASE \E i \in 1..Len(exports) : exportEnds(i, outcome)
    BY <2>2, <2>5, ExportEndKeeps, ListUnchanged DEF exportEnds
  <2>6. QED
    BY <1>6, <2>3, <2>4, <2>5
<1>7. QED
  BY <1>2, <1>3, <1>4, <1>5, <1>6 DEF OperationLogsNext
=============================================================================
