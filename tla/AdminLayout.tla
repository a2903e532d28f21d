---------------------------- MODULE AdminLayout ----------------------------
(* layouts/AdminLayout.tsx with navigation/adminNav.ts: the menu around the *)
(* pages, in its three forms, and the header's button that reloads the page *)
(* that is shown.                                                           *)
EXTENDS WebPage

VARIABLES
    path,               \* the page the location names
    mayAudit,           \* whether the user has system:audit:read
    menu,               \* the form of the menu, see Workspace
    groupManualOpen,    \* groups of the tree that were opened by hand
    segmentOverride,    \* the group of the menu of two columns chosen by hand
    mobileMenuOpen,
    logoutConfirmOpen,
    dashboardRefresh    \* the page whose reload is registered

layoutVars ==
    <<path, mayAudit, menu, groupManualOpen, segmentOverride, mobileMenuOpen,
      logoutConfirmOpen, dashboardRefresh>>

Menus == {"tree", "rail", "dual"}

\* ADMIN_NAV: two groups beside the dashboard; a leaf that asks for a
\* permission is shown to those who have it.
Logs == "/system/operation-logs"
Children ==
    [front |-> {"/front/users"}, system |-> {"/system/users", "/system/roles", Logs}]
GroupIds == DOMAIN Children
NavLeaves == {"/dashboard", "/settings", "/profile"} \cup UNION {Children[g] : g \in GroupIds}
navVisibleForPermissions(leaf) == leaf = Logs => mayAudit

\* filterNavByPermissions: a group without a leaf goes.
Kept(g) == {leaf \in Children[g] : navVisibleForPermissions(leaf)}
filterNavByPermissions == {g \in GroupIds : Kept(g) # {}}
groupHasActiveDescendant(g) == path \in Kept(g)

\* dualSidebarSegmentForPath: the group of the page, or none: the profile, the
\* settings, the dashboard, and for a page that is filtered away the first leaf.
SegmentLeaves == UNION {Kept(g) : g \in {h \in filterNavByPermissions : groupHasActiveDescendant(h)}}

\* The second column: of the group chosen by hand, as it was when it was
\* chosen, while the location is still the one it was chosen at.
SubColumn ==
    IF segmentOverride # Null /\ segmentOverride.path = path
    THEN segmentOverride.leaves
    ELSE SegmentLeaves

\* What each part of the layout links to.
RailFlyout == UNION {Kept(g) : g \in filterNavByPermissions}
SidebarTree ==
    UNION {Kept(g) : g \in {h \in filterNavByPermissions :
                              groupHasActiveDescendant(h) \/ h \in groupManualOpen}}
Sidebar ==
    {"/dashboard", "/settings"} \cup
        (CASE menu = "tree" -> SidebarTree [] menu = "rail" -> RailFlyout [] menu = "dual" -> SubColumn)
MobileMenu == IF mobileMenuOpen THEN {"/dashboard", "/settings", "/profile"} \cup RailFlyout ELSE {}

LayoutMount ==
    /\ path \in NavLeaves
    /\ mayAudit \in BOOLEAN
    /\ menu \in Menus
    /\ groupManualOpen = {}
    /\ segmentOverride = Null
    /\ mobileMenuOpen = FALSE
    /\ logoutConfirmOpen = FALSE
    /\ dashboardRefresh = Null

LayoutClick == Click("layout")
LayoutBackground == screen = "layout" /\ UNCHANGED <<screen, rejected, clicks>>

KeepsRefresh(leaf) == path' = leaf /\ UNCHANGED dashboardRefresh   \* wrong variant

\* The location changes: the page that is left takes its reload with it.
GoTo(leaf) ==
    /\ path' = leaf
    /\ dashboardRefresh' = IF leaf = path THEN dashboardRefresh ELSE Null

\* A link of the sidebar; that of the dashboard closes the groups, and in the
\* menu of two columns the choice.
SidebarLink(leaf) ==
    /\ LayoutClick
    /\ leaf \in Sidebar
    /\ GoTo(leaf)
    /\ groupManualOpen' = IF leaf = "/dashboard" THEN {} ELSE groupManualOpen
    /\ segmentOverride' = IF leaf = "/dashboard" /\ menu = "dual" THEN Null ELSE segmentOverride
    /\ UNCHANGED <<mayAudit, menu, mobileMenuOpen, logoutConfirmOpen>>

\* A link of the menu of small screens closes it.
MobileLink(leaf) ==
    /\ LayoutClick
    /\ leaf \in MobileMenu
    /\ GoTo(leaf)
    /\ mobileMenuOpen' = FALSE
    /\ groupManualOpen' = IF leaf = "/dashboard" THEN {} ELSE groupManualOpen
    /\ UNCHANGED <<mayAudit, menu, segmentOverride, logoutConfirmOpen>>

\* The profile's link in the header, the browser's back, an address typed.
OtherLink(leaf) ==
    /\ LayoutClick
    /\ GoTo(leaf)
    /\ UNCHANGED <<mayAudit, menu, groupManualOpen, segmentOverride, mobileMenuOpen,
                   logoutConfirmOpen>>

\* A group of the tree: that of the page shown stays open.
SidebarNavGroup(g) ==
    /\ LayoutClick
    /\ menu = "tree" /\ g \in filterNavByPermissions
    /\ ~groupHasActiveDescendant(g)
    /\ groupManualOpen' = IF g \in groupManualOpen THEN groupManualOpen \ {g}
                          ELSE groupManualOpen \cup {g}
    /\ UNCHANGED <<path, mayAudit, menu, segmentOverride, mobileMenuOpen, logoutConfirmOpen,
                   dashboardRefresh>>

\* A group of the first column.
ChooseSegment(g) ==
    /\ LayoutClick
    /\ menu = "dual" /\ g \in filterNavByPermissions
    /\ segmentOverride' = [leaves |-> Kept(g), path |-> path]
    /\ UNCHANGED <<path, mayAudit, menu, groupManualOpen, mobileMenuOpen, logoutConfirmOpen,
                   dashboardRefresh>>

setMobileMenuOpen ==
    /\ LayoutClick
    /\ mobileMenuOpen' = ~mobileMenuOpen
    /\ UNCHANGED <<path, mayAudit, menu, groupManualOpen, segmentOverride, logoutConfirmOpen,
                   dashboardRefresh>>

\* The dialog of the header; to confirm it ends the layout, see WebSession.
setLogoutConfirmOpen ==
    /\ LayoutClick
    /\ logoutConfirmOpen' = ~logoutConfirmOpen
    /\ UNCHANGED <<path, mayAudit, menu, groupManualOpen, segmentOverride, mobileMenuOpen,
                   dashboardRefresh>>

\* The preferences bring another form of the menu: the menu of two columns
\* takes its choice with it when it goes.
MenuChanges(form) ==
    /\ LayoutClick
    /\ form # menu
    /\ menu' = form
    /\ segmentOverride' = Null
    /\ UNCHANGED <<path, mayAudit, groupManualOpen, mobileMenuOpen, logoutConfirmOpen,
                   dashboardRefresh>>

\* The profile brings other permissions.
AuditChanges ==
    /\ LayoutClick
    /\ mayAudit' = ~mayAudit
    /\ UNCHANGED <<path, menu, groupManualOpen, segmentOverride, mobileMenuOpen,
                   logoutConfirmOpen, dashboardRefresh>>

\* The page of the location has mounted: all but two register their reload.
setDashboardRefresh ==
    /\ LayoutBackground
    /\ path \notin {"/profile", "/settings"}
    /\ dashboardRefresh' = path
    /\ UNCHANGED <<path, mayAudit, menu, groupManualOpen, segmentOverride, mobileMenuOpen,
                   logoutConfirmOpen>>

LayoutNext ==
    \/ \E leaf \in NavLeaves : SidebarLink(leaf) \/ MobileLink(leaf) \/ OtherLink(leaf)
    \/ \E g \in GroupIds : SidebarNavGroup(g) \/ ChooseSegment(g)
    \/ \E form \in Menus : MenuChanges(form)
    \/ setMobileMenuOpen \/ setLogoutConfirmOpen \/ AuditChanges \/ setDashboardRefresh

\* A link to the operation log is offered to those who may read it; without
\* the permission only by the second column, of a group that was chosen when
\* it was still there.
MenuPermitted ==
    Logs \in Sidebar \cup MobileMenu /\ ~mayAudit =>
        menu = "dual" /\ segmentOverride # Null /\ segmentOverride.path = path

\* The header's button reloads the page that is shown, or nothing.
RefreshOfThePage == dashboardRefresh \in {Null, path}
=============================================================================
