---------------------------- MODULE OverviewPage ----------------------------
(* pages/OverviewPage.tsx: the figures of the dashboard.                    *)
EXTENDS WebPage

VARIABLES
    overview,           \* whether figures are shown
    overviewLoading,
    overviewAsked       \* requests that have no answer yet

overviewVars == <<overview, overviewLoading, overviewAsked>>

\* The first request goes out with the mount.
OverviewMount == overview = FALSE /\ overviewLoading = TRUE /\ overviewAsked = 1

\* load up to its await, by the header's button.
overviewRefresh ==
    /\ Click("dashboard")
    /\ overviewAsked < MaxCalls
    /\ overviewLoading' = TRUE
    /\ overviewAsked' = overviewAsked + 1
    /\ UNCHANGED overview

\* load after its await: without the permission the figures go, after another
\* refusal those before stay.
load(outcome) ==
    /\ overviewAsked > 0
    /\ Ends("dashboard", outcome)
    /\ overviewAsked' = overviewAsked - 1
    /\ overviewLoading' = (outcome = "throws" /\ overviewLoading)
    /\ overview' = (outcome = "ok" \/ (overview /\ outcome # "forbidden"))

OverviewNext == overviewRefresh \/ \E outcome \in Outcomes : load(outcome)

OverviewWaits == overviewLoading /\ ~rejected => overviewAsked > 0
=============================================================================
