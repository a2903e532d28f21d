----------------------------- MODULE PagedList -----------------------------
(* A list with filters and pages, as SystemUsersPage, FrontUsersPage and    *)
(* OperationLogsPage keep it: every change of the query sends a request,    *)
(* requests are not numbered or aborted, and whichever answer comes is the  *)
(* list shown.                                                              *)
(*                                                                          *)
(* The effect that sends the request runs in a timer of 0 ms after the      *)
(* render; here it is part of the step that changes the query.              *)
EXTENDS WebPage

CONSTANTS
    Filters,    \* values of the filter card
    NoFilter,   \* the one it is reset to
    Sizes,      \* page sizes
    Totals      \* how many rows an answer says there are

ASSUME ListAssumption ==
    NoFilter \in Filters /\ Sizes \subseteq Nat \ {0} /\ Totals \subseteq Nat

VARIABLES
    draft,      \* the filter card
    query,      \* the applied filter, the page and its size
    canRead,    \* whether the user, as far as the page knows, may read
    list,       \* the list shown: the query it answers, the total
    loading,
    listError,  \* whether an error is shown above the list
    asked,      \* queries that have no answer yet, in the order sent
    fresh       \* history: the Progress of the last request, or "stale"

answerVars == <<list, loading, listError, asked, fresh>>
listVars == <<draft, query, canRead, answerVars>>

Query == [filter : Filters, page : Nat \ {0}, size : Sizes]
Empty == [of |-> Null, total |-> 0]

ListTypeOK ==
    /\ draft \in Filters
    /\ query \in Query
    /\ canRead \in BOOLEAN
    /\ list \in [of : Query \cup {Null}, total : Totals \cup {0}]
    /\ loading \in BOOLEAN
    /\ asked \in Seq(Query) /\ Len(asked) <= MaxCalls
    /\ listError \in BOOLEAN
    /\ fresh \in Progress \cup {"stale"}

\* The request: without the permission nothing is sent and nothing but an error
\* is shown.  It is "stale" when what is asked is not the query of the page.
Load(q, may) ==
    IF may
    THEN /\ Len(asked) < MaxCalls
         /\ loading' = TRUE
         /\ listError' = FALSE
         /\ asked' = Append(asked, q)
         /\ fresh' = IF q = query' THEN "waiting" ELSE "stale"
         /\ UNCHANGED list
    ELSE /\ loading' = FALSE
         /\ listError' = TRUE
         /\ list' = Empty
         /\ fresh' = "settled"
         /\ UNCHANGED asked

EffectOfFilter ==                                              \* wrong variant
    IF query'.filter # query.filter \/ canRead' # canRead
    THEN Load(query', canRead')
    ELSE UNCHANGED answerVars

\* The effect on [loadUsers]: it runs when something the request reads has
\* changed.
Effect ==
    IF query' # query \/ canRead' # canRead
    THEN Load(query', canRead')
    ELSE UNCHANGED answerVars

\* The page as it mounts: the first request is out.
ListInit ==
    /\ draft = NoFilter
    /\ \E size \in Sizes : query = [filter |-> NoFilter, page |-> 1, size |-> size]
    /\ canRead \in BOOLEAN
    /\ list = Empty
    /\ loading = canRead
    /\ listError = ~canRead
    /\ asked = IF canRead THEN <<query>> ELSE <<>>
    /\ fresh = IF canRead THEN "waiting" ELSE "settled"

\* The answer to the i-th of the requests that are out.
ListArrives(i, outcome, total) ==
    /\ asked' = Without(asked, i)
    /\ loading' = (outcome = "throws" /\ loading)
    /\ list' = CASE outcome = "ok" -> [of |-> asked[i], total |-> total]
                 [] outcome = "forbidden" -> Empty
                 [] OTHER -> list
    /\ listError' = (listError \/ outcome \in {"refused", "forbidden"})
    /\ fresh' = Moved(fresh, i = Len(asked), outcome)
    /\ UNCHANGED <<draft, query, canRead>>

\* The filter card's fields.
SetDraft(f) ==
    /\ draft' = f
    /\ UNCHANGED <<query, canRead, answerVars>>

ApplySearch ==
    /\ query' = [query EXCEPT !.filter = draft, !.page = 1]
    /\ UNCHANGED <<draft, canRead>>
    /\ Effect

ResetFilters ==
    /\ draft' = NoFilter
    /\ query' = [query EXCEPT !.filter = NoFilter, !.page = 1]
    /\ UNCHANGED canRead
    /\ Effect

\* ListPaginationFooter: the links to the pages there are for the last total
\* and the size chosen, and the two arrows from the page within their range.
totalPages == IF list.total = 0 THEN 1 ELSE (list.total + query.size - 1) \div query.size
safePage == IF query.page > totalPages THEN totalPages ELSE query.page
buildPaginationItems(page, n) ==
    IF n <= 7 THEN 1..n ELSE {1, n, page - 1, page, page + 1} \cap 1..n
TurnPage(p) ==
    /\ ~loading
    /\ query' = [query EXCEPT !.page = p]
    /\ UNCHANGED <<draft, canRead>>
    /\ Effect

PageLink(p) == p \in buildPaginationItems(safePage, totalPages) /\ TurnPage(p)
PreviousPage == safePage > 1 /\ TurnPage(safePage - 1)
NextPage == safePage < totalPages /\ TurnPage(safePage + 1)

\* useTablePageSize: here, or in another tab, another size is chosen.
PageSizeChanges(size) ==
    /\ size # query.size
    /\ query' = [query EXCEPT !.size = size, !.page = 1]
    /\ UNCHANGED <<draft, canRead>>
    /\ Effect

\* refreshProfile has brought other permissions.
PermissionsChange ==
    /\ canRead' = ~canRead
    /\ UNCHANGED <<draft, query>>
    /\ Effect

\* The header's button, through the function the page has registered.
Refresh ==
    /\ UNCHANGED <<draft, query, canRead>>
    /\ Load(query, canRead)

\* The list may be another one than that of the query, and the page does not
\* claim it is: the spinner stands in its place, or an error above it.
Admitted == loading \/ listError

\* The requests are not numbered: an answer to an older request has come before
\* or after that to the last one, or the last one was sent with the query of an
\* older render.
OutOfOrder == fresh \in {"crossed", "overtaken", "stale"}

\* The list is that of the query.  It is another one, first, where the page
\* says so: while it loads, and after a refusal, which leaves the list of the
\* query before (a request that throws leaves the spinner as well).  And,
\* without a word, when answers come in another order than their requests went
\* or a reload sends the query of an older render.  There is no other way.
ShowsQuery == list.of = query \/ Admitted \/ OutOfOrder

\* The list's spinner, which keeps the pages from being turned, stands only
\* while a request is out, if none has thrown.
ListWaits == loading /\ ~rejected => asked # <<>>
=============================================================================
