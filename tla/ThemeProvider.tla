--------------------------- MODULE ThemeProvider ---------------------------
(* theme/ThemeProvider.tsx: the theme and the palette in the tabs of a      *)
(* browser.  A tab reads localStorage when it is loaded, and an effect      *)
(* writes both of its values back at every change of either, or of the      *)
(* system's theme; no listener tells a tab what another one has written.    *)
EXTENDS WebPage

CONSTANTS
    ThemeTabs,  \* tabs of the browser
    Palettes,
    Default     \* the palette of an empty storage

ASSUME DefaultAssumption == Default \in Palettes

VARIABLES
    themeStored,    \* localStorage: the preference, the palette, the old key
    themes,         \* the state of each tab, Null before it is opened
    systemDark,     \* prefers-color-scheme
    systemEpoch,    \* tabs that have not heard of the system's last change
    shownTheme,     \* the theme of each document
    themeWriter     \* history: the tab that wrote the storage last

themeVars == <<themeStored, themes, systemDark, systemEpoch, shownTheme, themeWriter>>

Modes == {"light", "dark"}
Preferences == Modes \cup {"system"}
SystemMode == IF systemDark THEN "dark" ELSE "light"
resolveEffectiveTheme(pref) == IF pref = "system" THEN SystemMode ELSE pref

\* The key of an older version is looked at when the preference is not there.
readPreference ==
    IF themeStored.pref # Null THEN themeStored.pref
    ELSE IF themeStored.legacy # Null THEN themeStored.legacy ELSE "system"
readStoredPaletteId == IF themeStored.palette # Null THEN themeStored.palette ELSE Default

ThemeMount ==
    /\ themeStored \in [pref : {Null}, palette : {Null}, legacy : Modes \cup {Null}]
    /\ themes = [t \in ThemeTabs |-> Null]
    /\ systemDark \in BOOLEAN
    /\ systemEpoch = {}
    /\ shownTheme = [t \in ThemeTabs |-> Null]
    /\ themeWriter = Null

\* The effect writes the state of a tab down ...
WriteTheme(t, state) ==
    /\ themes' = [themes EXCEPT ![t] = state]
    /\ themeStored' = [themeStored EXCEPT !.pref = state.pref, !.palette = state.palette]
    /\ themeWriter' = t

\* ... and shows its theme, resolved when the preference, or what the tab has
\* heard of the system, becomes another one.
ResolveTheme(t, pref) ==
    /\ shownTheme' = [shownTheme EXCEPT ![t] = resolveEffectiveTheme(pref)]
    /\ systemEpoch' = systemEpoch \ {t}

\* A state that is not another one renders nothing.
SetTheme(t, state) ==
    /\ Click("settings/theme")
    /\ UNCHANGED systemDark
    /\ IF state = themes[t]
       THEN UNCHANGED <<themes, themeStored, themeWriter>>
       ELSE WriteTheme(t, state)
    /\ IF state.pref = themes[t].pref
       THEN UNCHANGED <<shownTheme, systemEpoch>>
       ELSE ResolveTheme(t, state.pref)

LoadTheme(t) ==
    /\ Click("settings/theme")
    /\ UNCHANGED systemDark
    /\ WriteTheme(t, [pref |-> readPreference, palette |-> readStoredPaletteId])
    /\ ResolveTheme(t, readPreference)

setThemePreference(t, pref) == themes[t] # Null /\ SetTheme(t, [themes[t] EXCEPT !.pref = pref])
setPaletteId(t, id) == themes[t] # Null /\ SetTheme(t, [themes[t] EXCEPT !.palette = id])
toggleTheme(t) ==
    /\ themes[t] # Null
    /\ SetTheme(t, [themes[t] EXCEPT
                      !.pref = IF resolveEffectiveTheme(@) = "dark" THEN "light" ELSE "dark"])

\* The system's theme changes; the tabs that follow it have a listener.
SystemThemeChanges ==
    /\ Click("settings/theme")
    /\ systemDark' = ~systemDark
    /\ systemEpoch' = {t \in ThemeTabs : themes[t] # Null /\ themes[t].pref = "system"}
    /\ UNCHANGED <<themeStored, themes, shownTheme, themeWriter>>

\* Its listener: the theme is resolved again, and when it is another one the
\* effect writes the state of the tab.
SystemThemeHeard(t) ==
    /\ t \in systemEpoch
    /\ ResolveTheme(t, "system")
    /\ IF shownTheme[t] # SystemMode
       THEN WriteTheme(t, themes[t])
       ELSE UNCHANGED <<themes, themeStored, themeWriter>>
    /\ UNCHANGED <<screen, rejected, clicks, systemDark>>

ThemeNext ==
    \/ \E t \in ThemeTabs :
          \/ LoadTheme(t) \/ toggleTheme(t) \/ SystemThemeHeard(t)
          \/ \E pref \in Preferences : setThemePreference(t, pref)
          \/ \E id \in Palettes : setPaletteId(t, id)
    \/ SystemThemeChanges

\* What is stored is the choice of one tab, the last to write, and never the
\* theme of one with the palette of another.
ThemeOfOneTab ==
    themeWriter # Null =>
        themes[themeWriter] = [pref |-> themeStored.pref, palette |-> themeStored.palette]

\* A tab shows the theme it prefers, and the system's when it follows that,
\* unless it has yet to hear of a change of it.
ThemeShown ==
    \A t \in ThemeTabs :
        themes[t] # Null /\ t \notin systemEpoch =>
            shownTheme[t] = resolveEffectiveTheme(themes[t].pref)
=============================================================================
