CONSTANTS
    Null = Null
    MaxCalls = 2
    MaxClicks = 3
    Filters = {all, some}
    NoFilter = all
    Sizes = {10, 20}
    Totals = {5, 15}
    Ids = {u1, u2}
    Days = {7, 30}
    MaxRoles = 3
    Keys = {k1, k2}
    PrefTabs = {t1, t2}
    ThemeTabs = {t1, t2}
    Palettes = {violet, ocean}
    Default = violet
    Names = {ann, bob}
    Captchas = {c1, c2, c3}
    MaxMounts = 2
    MaxFailures = 1
SPECIFICATION Spec
CHECK_DEADLOCK FALSE
INVARIANTS
    ShowsWhatWasAsked
    SendsWhatItShows
    BusyOnlyIfWaiting
    TabsAgree
    
PROPERTY
    GetsIn
