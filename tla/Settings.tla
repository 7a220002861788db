------------------------------ MODULE Settings ------------------------------
(***************************************************************************)
(* internal/settings/settings.go: the settings, their defaults and their   *)
(* normal form.                                                            *)
(*                                                                         *)
(* A mode, edge or theme is the word it stands for in whatever case or     *)
(* spacing; any other word is "other".  The monitor's name, which is kept  *)
(* whatever it is, and startWithWindows are left out.  The hidden rows are *)
(* kept apart, because all copies of the settings share their map.         *)
(***************************************************************************)
EXTENDS Integers

Modes  == {"reserved", "overlay"}
Edges  == {"bottom", "top", "left", "right"}
Themes == {"light", "night"}

\* What a settings.json edited by hand can hold.
RawSettings ==
    [mode  : Modes \cup {"other"},  \* dockMode
     edge  : Edges \cup {"other"},  \* dockEdge
     theme : Themes \cup {"other"},
     auto  : BOOLEAN,               \* autoHide
     opacity : Int,                 \* overlayOpacity
     bands : Int,                   \* gaugeMaxBands
     warn  : Int,                   \* gaugeWarnPercent
     crit  : Int,                   \* gaugeCritPercent
     every : Int]                   \* refreshSeconds

Defaults ==
    [mode |-> "reserved", edge |-> "bottom", theme |-> "light", auto |-> FALSE,
     opacity |-> 100, bands |-> 4, warn |-> 72, crit |-> 90, every |-> 30]

Known(word, words, default) == IF word \in words THEN word ELSE default
AtLeast(low, n, default)    == IF n < low THEN default ELSE n
AtMost(high, n)             == IF n > high THEN high ELSE n

Normalize(s) ==
    LET warn == AtLeast(1, s.warn, Defaults.warn) IN
    [mode    |-> Known(s.mode, Modes, Defaults.mode),
     edge    |-> Known(s.edge, Edges, Defaults.edge),
     theme   |-> Known(s.theme, Themes, Defaults.theme),
     auto    |-> s.auto,
     opacity |-> IF s.opacity = 0 THEN Defaults.opacity
                 ELSE AtMost(100, AtLeast(35, s.opacity, 35)),
     bands   |-> AtMost(4, AtLeast(1, s.bands, Defaults.bands)),
     warn    |-> warn,
     crit    |-> AtLeast(warn, AtLeast(1, s.crit, Defaults.crit), warn),
     every   |-> AtLeast(5, s.every, Defaults.every)]

\* Settings every user of them relies on: applyDock on known words, the slider
\* on its range, the gauge on one to four bands and on warn <= crit, and the
\* refresh loop on an interval that spares the providers.
NormalSettings ==
    {s \in RawSettings :
        /\ s.mode \in Modes /\ s.edge \in Edges /\ s.theme \in Themes
        /\ s.opacity \in 35..100
        /\ s.bands \in 1..4
        /\ s.warn >= 1 /\ s.crit >= s.warn
        /\ s.every >= 5}
=============================================================================
