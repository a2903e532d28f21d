------------------------- MODULE OperationLogsPage -------------------------
(* pages/OperationLogsPage.tsx: the operation log, its statistics and its   *)
(* export to a spreadsheet.  The export asks for as many rows as the list   *)
(* shown has, of the filter that is applied.                                *)
EXTENDS PagedList

CONSTANT Days   \* periods the statistics can be asked for

VARIABLES
    statsDays,      \* the period chosen
    stats,          \* the period the statistics shown are of
    statsLoading,
    askedStats,     \* periods that have no answer yet, in the order sent
    freshStats,     \* history: the Progress of the last of them
    exporting,      \* whether the button is disabled
    exports         \* the exports that are out

logsVars == <<statsDays, stats, statsLoading, askedStats, freshStats, exporting, exports>>
statsVars == <<statsDays, stats, statsLoading, askedStats, freshStats>>
LogsClick == Click("system/operation-logs")
LogsEnds(outcome) == Ends("system/operation-logs", outcome)

\* The period is 14 days at first; any of Days stands for it.
LogsMount ==
    /\ ListInit
    /\ statsDays \in Days
    /\ stats = Null
    /\ statsLoading = canRead
    /\ askedStats = IF canRead THEN <<statsDays>> ELSE <<>>
    /\ freshStats = IF canRead THEN "waiting" ELSE "settled"
    /\ exporting = FALSE
    /\ exports = <<>>

\* loadStats up to its await.
LoadStats(days, may) ==
    IF may
    THEN /\ Len(askedStats) < MaxCalls
         /\ statsLoading' = TRUE
         /\ askedStats' = Append(askedStats, days)
         /\ freshStats' = "waiting"
         /\ UNCHANGED stats
    ELSE /\ statsLoading' = FALSE
         /\ stats' = Null
         /\ freshStats' = "settled"
         /\ UNCHANGED askedStats

\* loadStats after its await: a refusal takes the statistics away.
loadStats(i, outcome) ==
    /\ LogsEnds(outcome)
    /\ askedStats' = Without(askedStats, i)
    /\ statsLoading' = (outcome = "throws" /\ statsLoading)
    /\ stats' = CASE outcome = "ok" -> askedStats[i]
                  [] outcome = "throws" -> stats
                  [] OTHER -> Null
    /\ freshStats' = Moved(freshStats, i = Len(askedStats), outcome)
    /\ UNCHANGED <<listVars, statsDays, exporting, exports>>

\* The buttons of the panel; a period that is already chosen sends nothing.
SetStatsDays(days) ==
    /\ LogsClick
    /\ days # statsDays
    /\ statsDays' = days
    /\ LoadStats(days, canRead)
    /\ UNCHANGED <<listVars, exporting, exports>>

logsLoad(i, outcome, total) ==
    LogsEnds(outcome) /\ ListArrives(i, outcome, total) /\ UNCHANGED logsVars

logsSearchForm(f) == LogsClick /\ SetDraft(f) /\ UNCHANGED logsVars
logsApplySearch == LogsClick /\ ApplySearch /\ UNCHANGED logsVars
logsResetFilters == LogsClick /\ ResetFilters /\ UNCHANGED logsVars
logsPages ==
    /\ LogsClick /\ UNCHANGED logsVars
    /\ PreviousPage \/ NextPage \/ \E p \in 1..totalPages : PageLink(p)
logsPageSize(size) == LogsClick /\ PageSizeChanges(size) /\ UNCHANGED logsVars

\* Both parts are loaded again: by the header's button, or since the profile
\* that has arrived changes the permission.
logsRefresh ==
    LogsClick /\ Refresh /\ LoadStats(statsDays, canRead) /\ UNCHANGED <<statsDays, exporting, exports>>
logsProfile ==
    /\ LogsClick /\ PermissionsChange
    /\ LoadStats(statsDays, canRead')
    /\ UNCHANGED <<statsDays, exporting, exports>>

\* exportXlsx: limit is the number of rows the list shown has been counted
\* for, or 10000 when there is none.
exportXlsx ==
    /\ LogsClick
    /\ canRead /\ ~exporting
    /\ exporting' = TRUE
    /\ exports' = Append(exports, [filter |-> query.filter, counted |-> list.of,
                                   sure |-> ~Admitted /\ ~OutOfOrder])
    /\ UNCHANGED <<listVars, statsVars>>

\* A download that is refused is reported as an answer; only fetch throws.
exportEnds(i, outcome) ==
    /\ LogsEnds(outcome)
    /\ exporting' = (outcome = "throws")
    /\ exports' = Without(exports, i)
    /\ UNCHANGED <<listVars, statsVars>>

OperationLogsNext ==
    \/ \E f \in Filters : logsSearchForm(f)
    \/ \E size \in Sizes : logsPageSize(size)
    \/ logsApplySearch \/ logsResetFilters \/ logsPages \/ logsRefresh \/ logsProfile
    \/ \E days \in Days : SetStatsDays(days)
    \/ exportXlsx
    \/ \E outcome \in Outcomes :
          \/ \E i \in 1..Len(asked), total \in Totals : logsLoad(i, outcome, total)
          \/ \E i \in 1..Len(askedStats) : loadStats(i, outcome)
          \/ \E i \in 1..Len(exports) : exportEnds(i, outcome)

\* The statistics shown, if any, are of the period chosen: a refusal takes them
\* away.  They are of another one while the spinner stands in their place, and
\* when answers come in another order than their requests went.
ShowsPeriod ==
    stats \in {Null, statsDays} \/ statsLoading \/ freshStats \in {"crossed", "overtaken"}

\* The limit of an export counts the rows of the filter that is exported, if
\* the button was not pressed while the list loaded, under an error, or over a
\* list that an older answer or a stale reload had brought: it is not disabled
\* then, and the limit is of whatever list was shown before.
ExportsWhatItCounts ==
    \A i \in DOMAIN exports :
        exports[i].sure => exports[i].counted.filter = exports[i].filter

LogsWait ==
    ~rejected =>
        /\ statsLoading => askedStats # <<>>
        /\ exporting => exports # <<>>
=============================================================================
