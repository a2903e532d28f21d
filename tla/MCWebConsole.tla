---------------------------- MODULE MCWebConsole ----------------------------
(* The pages of the web console, the layout around them, the preferences    *)
(* and the login page: screen says which of them is looked at, the others   *)
(* keep still.  Two filters, two page sizes, two totals and two accounts   *)
(* let every answer be overtaken; two tabs share the preferences.           *)
EXTENDS SystemUsersPage, FrontUsersPage, OperationLogsPage, SystemRolesPage, OverviewPage,
        SettingsPasskeys, Workspace, ThemeProvider, AdminLayout, LoginPage

Screens ==
    {"system/users", "front/users", "system/operation-logs", "system/roles", "dashboard",
     "settings", "settings/workspace", "settings/theme", "layout", "login"}

\* A screen that is not looked at begins in one of its states.
Elsewhere(screens, choice) == screen \in screens \/ choice

NoLogin ==
    /\ form = Blank(CHOOSE name \in Names : TRUE)
    /\ image = Null
    /\ imageAsked = FALSE
    /\ captchas = {}
    /\ signIns = {}
    /\ mount = 1
    /\ signedAs = form.name
    /\ failures = 0
    /\ hasty = FALSE

Init ==
    /\ screen \in Screens
    /\ rejected = FALSE
    /\ clicks = 0
    /\ SysMount /\ FrontMount
    /\ query.size = 10
    /\ Elsewhere({"system/users", "front/users", "system/operation-logs"}, canRead)
    /\ LogsMount /\ statsDays = 7
    /\ RolesMount /\ Elsewhere({"system/roles"}, mayReadRoles)
    /\ OverviewMount
    /\ KeysMount /\ Elsewhere({"settings"}, keys = {})
    /\ WorkspaceMount
    /\ Elsewhere({"settings/workspace"}, ~stored["folded"] /\ ~stored["dual_menu"])
    /\ ThemeMount /\ Elsewhere({"settings/theme"}, themeStored.legacy = Null /\ ~systemDark)
    /\ LayoutMount
    /\ Elsewhere({"layout"}, path = "/dashboard" /\ mayAudit /\ menu = "tree")
    /\ IF screen = "login" THEN LoginMount ELSE NoLogin

Still == <<overviewVars, keyVars, workspaceVars, themeVars, layoutVars>>

Next ==
    \/ /\ screen = "system/users" /\ SystemUsersNext
       /\ UNCHANGED <<logsVars, rolesPageVars, Still, loginVars>>
    \/ /\ screen = "front/users" /\ FrontUsersNext
       /\ UNCHANGED <<rolesVars, logsVars, rolesPageVars, Still, loginVars>>
    \/ /\ screen = "system/operation-logs" /\ OperationLogsNext
       /\ UNCHANGED <<dialogVars, rolesVars, rolesPageVars, Still, loginVars>>
    \/ /\ screen = "system/roles" /\ SystemRolesNext
       /\ UNCHANGED <<listVars, dialogVars, rolesVars, logsVars, Still, loginVars>>
    \/ /\ UNCHANGED <<listVars, dialogVars, rolesVars, logsVars, rolesPageVars>>
       /\ \/ /\ screen = "dashboard" /\ OverviewNext
             /\ UNCHANGED <<keyVars, workspaceVars, themeVars, layoutVars, loginVars>>
          \/ /\ screen = "settings" /\ SettingsPasskeysNext
             /\ UNCHANGED <<overviewVars, workspaceVars, themeVars, layoutVars, loginVars>>
          \/ /\ screen = "settings/workspace" /\ WorkspaceNext
             /\ UNCHANGED <<overviewVars, keyVars, themeVars, layoutVars, loginVars>>
          \/ /\ screen = "settings/theme" /\ ThemeNext
             /\ UNCHANGED <<overviewVars, keyVars, workspaceVars, layoutVars, loginVars>>
          \/ /\ screen = "layout" /\ LayoutNext
             /\ UNCHANGED <<overviewVars, keyVars, workspaceVars, themeVars, loginVars>>
          \/ /\ screen = "login" /\ LoginNext
             /\ UNCHANGED <<screen, rejected, clicks, Still>>

vars ==
    <<screen, rejected, clicks, listVars, dialogVars, rolesVars, logsVars, rolesPageVars, Still,
      loginVars>>

Spec == Init /\ [][Next]_vars /\ LoginFairness

\* A list is that of the query, the statistics of the period, a role is shown
\* once and the passkeys are those the account has.  Each part names when not:
\* while the spinner stands or an error (after a refused or thrown answer the
\* old list stays), after answers or reloads out of order, after a change whose
\* answer was lost.
ShowsWhatWasAsked == ShowsQuery /\ ShowsPeriod /\ RoleShownOnce /\ PasskeysShown

\* A save carries the fields of its own account, an export the filter its limit
\* was counted for, a role its own permissions, a login the name in the form.
\* Each part names when not: a save or an export while the page shows an error,
\* or after answers out of order; an export while the list loads; permissions
\* before the timer that draws them.
SendsWhatItShows ==
    SavesWhatItShows /\ ExportsWhatItCounts /\ RoleSavesWhatItShows /\ NameOfTheForm

\* No page waits, with its buttons disabled, for a call that has ended; a call
\* that throws is the one way to it, and not where it is caught.
BusyOnlyIfWaiting ==
    ListWaits /\ DialogsWait /\ LogsWait /\ RolesWait /\ OverviewWaits /\ PasskeysWait /\ LoginWaits

\* The preferences of a tab that no event is on its way to are those stored, and
\* the two layouts of the menu exclude each other, but for a late icon rail.  Of
\* the theme less holds, since nothing tells the other tabs: what is stored is
\* the choice of the last tab to write, and a tab shows what it prefers itself.
TabsAgree ==
    TabsFollowStorage /\ LayoutsExclude /\ AppliedWhereChosen /\ ThemeOfOneTab /\ ThemeShown

\* The layout follows the page that is shown and the user who is signed in.
LayoutFollows == MenuPermitted /\ RefreshOfThePage
=============================================================================
