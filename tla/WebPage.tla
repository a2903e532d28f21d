------------------------------ MODULE WebPage ------------------------------
(* What the pages of the web console have in common.  The outlet of         *)
(* AdminLayout mounts one page at a time, and a page that is left takes its *)
(* state with it: what a page still waits for then changes nothing.  The    *)
(* modules of the pages therefore share the variable screen, and each keeps *)
(* its other variables still while another page is shown.                   *)
EXTENDS Naturals, Sequences

CONSTANTS
    Null,
    MaxCalls,   \* bound: calls of one kind a page has out at a time
    MaxClicks   \* bound: what the user does on the page

ASSUME CallsAssumption == MaxCalls \in Nat \ {0}

VARIABLES
    screen,     \* the page that is mounted
    rejected,   \* history: a fetch of the page has thrown
    clicks

\* How apiRequest ends: the envelope's code is 0, the call is refused, refused
\* for want of a permission, or fetch (or the parsing of a body that is not
\* JSON) throws.  A throw leaves the handler where it awaits: what follows the
\* await is skipped, unless it stands in a finally.
Outcomes == {"ok", "refused", "forbidden", "throws"}

\* apiRequest: history keeps that a call has thrown.
Settles(outcome) ==
    /\ outcome \in Outcomes
    /\ rejected' = (rejected \/ outcome = "throws")

\* The user does something on a page.
Click(page) ==
    /\ screen = page
    /\ clicks < MaxClicks
    /\ clicks' = clicks + 1
    /\ UNCHANGED <<screen, rejected>>

\* A call of a page ends.
Ends(page, outcome) ==
    /\ screen = page
    /\ Settles(outcome)
    /\ UNCHANGED <<screen, clicks>>

\* History of the last of several calls of one kind, told apart by the order in
\* which they were sent: it is waited for; it is, after another one has been
\* answered; it has ended, and no older answer has been shown after that; or an
\* answer to another call stands where its own should.  A call that throws
\* brings no answer.
Progress == {"waiting", "crossed", "settled", "overtaken"}

\* A call ends: the last of those that are out, or an older one.
Moved(progress, last, outcome) ==
    CASE progress = "waiting" /\ last -> "settled"
      [] progress = "waiting" /\ ~last /\ outcome # "throws" -> "crossed"
      [] progress = "crossed" /\ last -> IF outcome = "throws" THEN "overtaken" ELSE "settled"
      [] progress = "settled" /\ outcome = "ok" -> "overtaken"
      [] OTHER -> progress

\* The calls that are out, in the order they were sent, without the i-th.
Without(calls, i) == SubSeq(calls, 1, i - 1) \o SubSeq(calls, i + 1, Len(calls))
=============================================================================
