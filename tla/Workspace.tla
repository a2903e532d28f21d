----------------------------- MODULE Workspace -----------------------------
(* prefs/workspace.ts and the rows of SettingsPage that use it: the         *)
(* preferences of the console, in localStorage, in the tabs of a browser.   *)
(* A setter writes the storage and dispatches an event in its own tab; the  *)
(* browser brings the event "storage" to the others, later.  The listener   *)
(* of every hook reads its own key again, whatever the event was about.     *)
EXTENDS WebPage

CONSTANT PrefTabs   \* tabs of the browser

VARIABLES
    stored,         \* localStorage
    hooks,          \* what the hooks of each tab have
    document,       \* what each tab has applied to its document
    undelivered,    \* tabs an event is on its way to
    appliedBy,      \* history: the tab that set an applied preference last
    lateFold        \* history: the icon rail that is stored was chosen in a tab
                    \* an event was on its way to

workspaceVars == <<stored, hooks, document, undelivered, appliedBy, lateFold>>

\* Each key has two values here.
Applied == {"reduce_motion", "scrollbar"}
PrefKeys == {"page_size", "compact", "folded", "dual_menu", "nav_style"} \cup Applied
Chosen(prefs) == [k \in Applied |-> prefs[k]]

\* The tabs as they load: main.tsx applies what is stored before the first
\* render, and the hooks read it.
WorkspaceMount ==
    /\ stored \in {p \in [PrefKeys -> BOOLEAN] :
                     \A k \in PrefKeys \ {"folded", "dual_menu"} : ~p[k]}
    /\ ~(stored["folded"] /\ stored["dual_menu"])
    /\ hooks = [t \in PrefTabs |-> stored]
    /\ document = [t \in PrefTabs |-> Chosen(stored)]
    /\ undelivered = {}
    /\ appliedBy = [k \in Applied |-> Null]
    /\ lateFold = FALSE

\* The setters of a tab have made the storage this: the hooks of the tab read
\* it, and the others are told when it is something else than before.
Choose(t, prefs) ==
    /\ Click("settings/workspace")
    /\ stored' = prefs
    /\ hooks' = [hooks EXCEPT ![t] = prefs]
    /\ undelivered' = IF prefs = stored THEN undelivered
                      ELSE undelivered \cup (PrefTabs \ {t})
    /\ lateFold' = (prefs["folded"] /\ (lateFold \/ (~stored["folded"] /\ t \in undelivered)))

\* A preference nothing but the hooks reads.
setPref(t, key, value) ==
    /\ Choose(t, [stored EXCEPT ![key] = value])
    /\ UNCHANGED <<document, appliedBy>>

\* One that is applied to the document as well, of the tab it is set in.
setApplied(t, key, value) ==
    /\ Choose(t, [stored EXCEPT ![key] = value])
    /\ document' = [document EXCEPT ![t][key] = value]
    /\ appliedBy' = [appliedBy EXCEPT ![key] = t]

setTablePageSize(t, value) == setPref(t, "page_size", value)
setSidebarCompact(t, value) == setPref(t, "compact", value)
setSidebarNavStyle(t, value) == setPref(t, "nav_style", value)
setReduceMotion(t, value) == setApplied(t, "reduce_motion", value)
setScrollbarPref(t, value) == setApplied(t, "scrollbar", value)

\* The icon rail: by the checkbox, or by the two buttons of the menu; with the
\* menu of two columns the one is disabled and the others are not there.
FoldSidebar(t) ==
    /\ ~hooks[t]["dual_menu"]
    /\ setPref(t, "folded", ~hooks[t]["folded"])

StaysFolded(t) == setPref(t, "dual_menu", TRUE)                \* wrong variant

\* The row of the menu's layout: two columns put an end to the icon rail.
ChooseDualMenu(t) ==
    /\ Choose(t, [stored EXCEPT !["dual_menu"] = TRUE, !["folded"] = FALSE])
    /\ UNCHANGED <<document, appliedBy>>
ChooseTreeMenu(t) == setPref(t, "dual_menu", FALSE)

\* The event has come to a tab.
PrefsSync(t) ==
    /\ t \in undelivered
    /\ undelivered' = undelivered \ {t}
    /\ hooks' = [hooks EXCEPT ![t] = stored]
    /\ UNCHANGED <<screen, rejected, clicks, stored, document, appliedBy, lateFold>>

\* A tab is loaded again.
ReloadPrefs(t) ==
    /\ Click("settings/workspace")
    /\ hooks' = [hooks EXCEPT ![t] = stored]
    /\ document' = [document EXCEPT ![t] = Chosen(stored)]
    /\ undelivered' = undelivered \ {t}
    /\ UNCHANGED <<stored, appliedBy, lateFold>>

WorkspaceNext ==
    \E t \in PrefTabs :
       \/ \E value \in BOOLEAN :
             \/ setTablePageSize(t, value) \/ setSidebarCompact(t, value)
             \/ setSidebarNavStyle(t, value)
             \/ setReduceMotion(t, value) \/ setScrollbarPref(t, value)
       \/ FoldSidebar(t) \/ ChooseDualMenu(t) \/ ChooseTreeMenu(t)
       \/ PrefsSync(t) \/ ReloadPrefs(t)

\* A tab no event is on its way to has what is stored.
TabsFollowStorage == \A t \in PrefTabs : t \notin undelivered => hooks[t] = stored

\* The two layouts of the menu exclude each other, whatever the tabs do, but for
\* an icon rail chosen in a tab before the event about the two columns had come
\* to it: that one leaves both stored until a layout is chosen again.
LayoutsExclude == stored["folded"] /\ stored["dual_menu"] => lateFold

\* The document of the tab that set a preference is as it was set; the others
\* apply it when they load, though their settings show it at once.
AppliedWhereChosen ==
    \A k \in Applied : appliedBy[k] # Null => document[appliedBy[k]][k] = stored[k]
=============================================================================
