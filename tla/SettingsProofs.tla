--------------------------- MODULE SettingsProofs ---------------------------
(***************************************************************************)
(* What Normalize makes of any settings a file can hold, and what the      *)
(* handlers of app.go keep true of the settings in memory, settings.json   *)
(* and the window for all settings, rows and numbers of open dialogs.      *)
(***************************************************************************)
EXTENDS SettingsDialog, SequenceTheorems, TLAPS

\* Whatever settings.json held, Load hands the program settings in normal form.
THEOREM NormalizeMakesNormal == \A s \in RawSettings : Normalize(s) \in NormalSettings
<1> SUFFICES ASSUME NEW s \in RawSettings PROVE Normalize(s) \in NormalSettings
  OBVIOUS
<1> DEFINE n == Normalize(s)
<1>1. n.mode \in Modes /\ n.edge \in Edges /\ n.theme \in Themes /\ n.auto \in BOOLEAN
  BY DEF Normalize, RawSettings, Defaults, Known, Modes, Edges, Themes
<1>2. /\ s.opacity \in Int /\ s.bands \in Int /\ s.warn \in Int
      /\ s.crit \in Int /\ s.every \in Int
  BY DEF RawSettings
<1>3. n.opacity \in 35..100 /\ n.bands \in 1..4
  BY <1>2 DEF Normalize, Defaults, AtLeast, AtMost
<1>4. n.warn \in Int /\ n.warn >= 1 /\ n.crit \in Int /\ n.crit >= n.warn
  BY <1>2 DEF Normalize, Defaults, AtLeast
<1>5. n.every \in Int /\ n.every >= 5
  BY <1>2 DEF Normalize, Defaults, AtLeast
<1>6. n = [mode |-> n.mode, edge |-> n.edge, theme |-> n.theme, auto |-> n.auto,
           opacity |-> n.opacity, bands |-> n.bands, warn |-> n.warn, crit |-> n.crit,
           every |-> n.every]
  BY DEF Normalize
<1>7. n \in RawSettings
  <2> HIDE DEF n
  <2> QED BY <1>1, <1>3, <1>4, <1>5, <1>6 DEF RawSettings
<1> HIDE DEF n
<1>8. n \in NormalSettings
  BY <1>1, <1>3, <1>4, <1>5, <1>7 DEF NormalSettings
<1> QED
  BY <1>8 DEF n

\* Normalize leaves normal settings alone, so Save writes what is in memory and
\* a second Load or Normalize changes nothing.
THEOREM NormalizeKeepsNormal == \A s \in NormalSettings : Normalize(s) = s
<1> SUFFICES ASSUME NEW s \in NormalSettings PROVE Normalize(s) = s
  OBVIOUS
<1>1. /\ s.mode \in Modes /\ s.edge \in Edges /\ s.theme \in Themes
      /\ s.opacity \in 35..100 /\ s.bands \in 1..4
      /\ s.warn \in Int /\ s.warn >= 1
      /\ s.crit \in Int /\ s.crit >= s.warn
      /\ s.every \in Int /\ s.every >= 5
  BY DEF NormalSettings, RawSettings
<1>2. s = [mode |-> s.mode, edge |-> s.edge, theme |-> s.theme, auto |-> s.auto,
           opacity |-> s.opacity, bands |-> s.bands, warn |-> s.warn, crit |-> s.crit,
           every |-> s.every]
  BY DEF NormalSettings, RawSettings
<1>3. /\ Known(s.mode, Modes, Defaults.mode) = s.mode
      /\ Known(s.edge, Edges, Defaults.edge) = s.edge
      /\ Known(s.theme, Themes, Defaults.theme) = s.theme
  BY <1>1 DEF Known
<1>4. (IF s.opacity = 0 THEN Defaults.opacity ELSE AtMost(100, AtLeast(35, s.opacity, 35)))
        = s.opacity
  BY <1>1 DEF AtLeast, AtMost
<1>5. /\ AtMost(4, AtLeast(1, s.bands, Defaults.bands)) = s.bands
      /\ AtLeast(1, s.warn, Defaults.warn) = s.warn
      /\ AtLeast(s.warn, AtLeast(1, s.crit, Defaults.crit), s.warn) = s.crit
      /\ AtLeast(5, s.every, Defaults.every) = s.every
  BY <1>1 DEF AtLeast, AtMost
<1> QED
  BY <1>2, <1>3, <1>4, <1>5 DEF Normalize

\* Normalizing twice is normalizing once.
THEOREM NormalizeIdempotent == \A s \in RawSettings : Normalize(Normalize(s)) = Normalize(s)
BY NormalizeMakesNormal, NormalizeKeepsNormal
-----------------------------------------------------------------------------
(* Types *)

LEMMA Normal ==
    ASSUME NEW c \in NormalSettings
    PROVE  /\ c.mode \in Modes /\ c.edge \in Edges /\ c.theme \in Themes
           /\ c.auto \in BOOLEAN /\ c.opacity \in 35..100 /\ c.bands \in 1..4
           /\ c.warn \in Int /\ c.warn >= 1 /\ c.crit \in Int /\ c.crit >= c.warn
           /\ c.every \in Int /\ c.every >= 5
           /\ c = [mode |-> c.mode, edge |-> c.edge, theme |-> c.theme, auto |-> c.auto,
                   opacity |-> c.opacity, bands |-> c.bands, warn |-> c.warn,
                   crit |-> c.crit, every |-> c.every]
BY DEF NormalSettings, RawSettings

LEMMA ChangedField ==
    ASSUME NEW c \in NormalSettings
    PROVE  /\ \A auto \in BOOLEAN : [c EXCEPT !.auto = auto] \in NormalSettings
           /\ \A opacity \in 35..100 : [c EXCEPT !.opacity = opacity] \in NormalSettings
           /\ \A every \in Int : every >= 5 => [c EXCEPT !.every = every] \in NormalSettings
<1>1. c \in RawSettings
  BY DEF NormalSettings
<1>2. ASSUME NEW auto \in BOOLEAN PROVE [c EXCEPT !.auto = auto] \in NormalSettings
  <2> DEFINE r == [c EXCEPT !.auto = auto]
  <2>1. r \in RawSettings
    BY <1>1 DEF RawSettings
  <2>2. /\ r.mode = c.mode /\ r.edge = c.edge /\ r.theme = c.theme /\ r.opacity = c.opacity
        /\ r.bands = c.bands /\ r.warn = c.warn /\ r.crit = c.crit /\ r.every = c.every
    BY <1>1 DEF RawSettings
  <2> QED
    BY <2>1, <2>2 DEF NormalSettings
<1>3. ASSUME NEW opacity \in 35..100 PROVE [c EXCEPT !.opacity = opacity] \in NormalSettings
  <2> DEFINE r == [c EXCEPT !.opacity = opacity]
  <2>1. r \in RawSettings
    BY <1>1 DEF RawSettings
  <2>2. /\ r.mode = c.mode /\ r.edge = c.edge /\ r.theme = c.theme /\ r.opacity = opacity
        /\ r.bands = c.bands /\ r.warn = c.warn /\ r.crit = c.crit /\ r.every = c.every
    BY <1>1 DEF RawSettings
  <2> QED
    BY <2>1, <2>2 DEF NormalSettings
<1>4. ASSUME NEW every \in Int, every >= 5 PROVE [c EXCEPT !.every = every] \in NormalSettings
  <2> DEFINE r == [c EXCEPT !.every = every]
  <2>1. r \in RawSettings
    BY <1>1 DEF RawSettings
  <2>2. /\ r.mode = c.mode /\ r.edge = c.edge /\ r.theme = c.theme /\ r.opacity = c.opacity
        /\ r.bands = c.bands /\ r.warn = c.warn /\ r.crit = c.crit /\ r.every = every
    BY <1>1 DEF RawSettings
  <2> QED
    BY <1>4, <2>1, <2>2 DEF NormalSettings
<1> QED
  BY <1>2, <1>3, <1>4

LEMMA DefaultsNormal == Defaults \in NormalSettings
<1>1. Defaults \in RawSettings
  BY DEF Defaults, RawSettings, Modes, Edges, Themes
<1> QED
  BY <1>1 DEF Defaults, NormalSettings, Modes, Edges, Themes

\* The changes the handlers make to settings keep them normal.
LEMMA StaysNormal ==
    ASSUME NEW c \in NormalSettings
    PROVE  /\ Fixed(c) \in NormalSettings
           /\ \A opacity \in 35..100 : [c EXCEPT !.opacity = opacity] \in NormalSettings
           /\ [c EXCEPT !.auto = ~@] \in NormalSettings
           /\ Normalize(c) = c
<1>1. (~c.auto) \in BOOLEAN
  BY Zenon
<1>2. [c EXCEPT !.auto = ~c.auto] \in NormalSettings
  BY <1>1, ChangedField
<1> QED
  BY <1>2, ChangedField, NormalizeKeepsNormal DEF Fixed

\* What Run makes of settings.json.
LEMMA LoadedNormal ==
    ASSUME NEW f, f.set \in NormalSettings
    PROVE  /\ Loaded(f) \in NormalSettings
           /\ Loaded(f).mode = f.set.mode
           /\ Loaded(f).auto = f.set.auto
           /\ Loaded(f).opacity = f.set.opacity
           /\ Loaded(f) = [f.set EXCEPT !.every = Loaded(f).every]
<1>1. Normalize(f.set) = f.set
  BY NormalizeKeepsNormal
<1>2. CASE FlagSeconds >= 5
  <2> DEFINE loaded == [f.set EXCEPT !.every = FlagSeconds]
  <2>1. Loaded(f) = loaded
    BY <1>1, <1>2 DEF Loaded
  <2>2. loaded \in NormalSettings
    BY <1>2, ChangedField, DialogAssumption
  <2>3. loaded.mode = f.set.mode /\ loaded.auto = f.set.auto /\ loaded.opacity = f.set.opacity
        /\ loaded.every = FlagSeconds
    BY DEF NormalSettings, RawSettings
  <2> QED BY <2>1, <2>2, <2>3
<1>3. CASE ~(FlagSeconds >= 5)
  <2>1. Loaded(f) = f.set
    BY <1>1, <1>3 DEF Loaded
  <2> QED BY <2>1, Normal
<1> QED
  BY <1>2, <1>3

LEMMA NewDialog ==
    ASSUME NEW orig \in NormalSettings
    PROVE  Dialog("settings", orig) \in Dialogs
BY Normal DEF Dialog, Dialogs

LEMMA PickerType == Picker \in Dialogs
BY DefaultsNormal DEF Picker, Dialog, Dialogs, Defaults

LEMMA DialogFields ==
    ASSUME NEW d \in Dialogs
    PROVE  /\ d.kind \in {"settings", "picker"} /\ d.orig \in NormalSettings
           /\ d.slider \in 35..100 /\ d.state \in {"open", "saved", "cancelled"}
           /\ d.overtaken \in BOOLEAN
BY DEF Dialogs

LEMMA OvertakenDialog ==
    ASSUME NEW d \in Dialogs
    PROVE  /\ Overtaken(d) \in Dialogs
           /\ Overtaken(d).kind = d.kind /\ Overtaken(d).orig = d.orig
           /\ Overtaken(d).slider = d.slider /\ Overtaken(d).state = d.state
           /\ d.kind = "settings" => Overtaken(d).overtaken
<1>1. ASSUME NEW b \in BOOLEAN, Overtaken(d) = [d EXCEPT !.overtaken = b]
      PROVE  /\ Overtaken(d) \in Dialogs
             /\ Overtaken(d).kind = d.kind /\ Overtaken(d).orig = d.orig
             /\ Overtaken(d).slider = d.slider /\ Overtaken(d).state = d.state
             /\ Overtaken(d).overtaken = b
  BY <1>1 DEF Dialogs
<1>2. CASE d.kind = "settings"
  <2>1. Overtaken(d) = [d EXCEPT !.overtaken = TRUE]
    BY <1>2, Zenon DEF Overtaken
  <2> QED BY <1>1, <2>1
<1>3. CASE d.kind # "settings"
  <2>1. Overtaken(d) = [d EXCEPT !.overtaken = FALSE]
    BY <1>3, Zenon DEF Overtaken
  <2> QED BY <1>1, <1>3, <2>1
<1> QED
  BY <1>2, <1>3

LEMMA SavedDialog ==
    ASSUME NEW d \in Dialogs
    PROVE  Saved(d) \in Dialogs /\ Saved(d).kind = d.kind /\ Saved(d).state = "saved"
           /\ Saved(d).orig = Defaults /\ Saved(d).overtaken = FALSE
<1>1. Saved(d) = [kind |-> d.kind, orig |-> Defaults, slider |-> Defaults.opacity,
              state |-> "saved", overtaken |-> FALSE]
  <2> DEFINE r == Dialog(d.kind, Defaults)
  <2>1. r = [kind |-> d.kind, orig |-> Defaults, slider |-> Defaults.opacity,
             state |-> "open", overtaken |-> FALSE]
    BY Zenon DEF Dialog
  <2>2. Saved(d) = [r EXCEPT !.state = "saved"]
    BY Zenon DEF Saved
  <2> HIDE DEF r
  <2> QED
    BY <2>1, <2>2
<1> QED
  BY <1>1, DialogFields, DefaultsNormal, Normal DEF Dialogs

LEMMA StackEntry ==
    ASSUME TypeOK, NEW i \in 1..Len(stack)
    PROVE  stack[i] \in Dialogs
BY ElementOfSeq DEF TypeOK

LEMMA SettleStack ==
    ASSUME TypeOK, NEW d, NEW s, d \in 1..Len(stack) => s \in Dialogs, Settle(d, s)
    PROVE  /\ stack' \in Seq(Dialogs) /\ Len(stack') = Len(stack)
           /\ \A i \in 1..Len(stack) : i # d => stack'[i] = Overtaken(stack[i])
           /\ d \in 1..Len(stack) => stack'[d] = s
<1> DEFINE e(i) == IF i = d THEN s ELSE Overtaken(stack[i])
<1>1. Len(stack) \in Nat
  BY LenProperties DEF TypeOK
<1>2. \A i \in 1..Len(stack) : e(i) \in Dialogs
  BY StackEntry, OvertakenDialog
<1>3. stack' = [i \in 1..Len(stack) |-> e(i)]
  BY DEF Settle
<1> HIDE DEF e
<1>4. stack' \in Seq(Dialogs)
  BY <1>1, <1>2, <1>3, IsASeq
<1>5. Len(stack') = Len(stack)
  BY <1>1, <1>3, <1>4, LenProperties
<1> QED
  BY <1>3, <1>4, <1>5 DEF e

LEMMA OpenDialog ==
    ASSUME TypeOK, NEW i, NEW kind, Open(i, kind)
    PROVE  i \in 1..Len(stack) /\ stack[i] \in Dialogs
BY StackEntry DEF Open

LEMMA EnteredType ==
    ASSUME TypeOK, NEW i, Open(i, "settings"), NEW c \in Choices
    PROVE  /\ Entered(i, c) \in NormalSettings
           /\ Entered(i, c).opacity = stack[i].slider
<1> DEFINE raw == [c EXCEPT !.opacity = stack[i].slider]
<1>1. stack[i].slider \in 35..100 /\ stack[i].slider \in Int
  <2>1. stack[i] \in Dialogs
    BY OpenDialog
  <2> QED
    BY <2>1, DialogFields
<1>2. c \in RawSettings
  BY DialogAssumption
<1>3. raw \in RawSettings /\ raw.opacity = stack[i].slider
  BY <1>1, <1>2 DEF RawSettings
<1>4. Normalize(raw) \in NormalSettings
  BY <1>3, NormalizeMakesNormal
<1>5. Normalize(raw).opacity = stack[i].slider
  BY <1>1, <1>3 DEF Normalize, AtLeast, AtMost
<1> QED
  BY <1>4, <1>5 DEF Entered

LEMMA SliderTypes == Sliders \subseteq 35..100
BY NormalizeMakesNormal, DialogAssumption, Normal DEF Sliders

LEMMA WindowTypes ==
    ASSUME NEW c \in NormalSettings
    PROVE  /\ Docking(c) \in [mode : Modes, edge : Edges, auto : BOOLEAN]
           /\ Alpha(c) \in 35..100
           /\ Word(c) \in {"slides", "stays"}
BY Normal DEF Docking, Alpha, Word

LEMMA ContentsType ==
    ASSUME NEW c \in NormalSettings, NEW rows \in SUBSET Rows
    PROVE  /\ Contents(c, rows).set = c
           /\ Contents(c, rows).hidden = rows
           /\ Contents(c, rows).set \in NormalSettings /\ Contents(c, rows).hidden \subseteq Rows
BY NormalizeKeepsNormal DEF Contents

LEMMA ReplaceInStack ==
    ASSUME TypeOK, NEW i \in 1..Len(stack), NEW d \in Dialogs,
           stack' = [stack EXCEPT ![i] = d]
    PROVE  /\ stack' \in Seq(Dialogs) /\ Len(stack') = Len(stack)
           /\ \A j \in 1..Len(stack) : stack'[j] = IF j = i THEN d ELSE stack[j]
BY ExceptSeq DEF TypeOK

LEMMA PushOnStack ==
    ASSUME TypeOK, NEW d \in Dialogs, stack' = Append(stack, d)
    PROVE  /\ stack' \in Seq(Dialogs) /\ Len(stack') = Len(stack) + 1
           /\ stack'[Len(stack')] = d
           /\ \A j \in 1..Len(stack) : stack'[j] = stack[j]
BY AppendProperties, LenProperties DEF TypeOK

LEMMA PopOffStack ==
    ASSUME TypeOK, stack # <<>>, stack' = SubSeq(stack, 1, Len(stack) - 1)
    PROVE  /\ stack' \in Seq(Dialogs) /\ Len(stack') = Len(stack) - 1
           /\ \A j \in 1..Len(stack') : stack'[j] = stack[j]
<1>1. Len(stack) \in Nat \ {0}
  BY EmptySeq DEF TypeOK
<1>2. \A j \in 1..Len(stack) - 1 : stack[j] \in Dialogs
  BY <1>1, StackEntry
<1> DEFINE n == Len(stack) - 1
<1>3. /\ SubSeq(stack, 1, n) \in Seq(Dialogs)
      /\ Len(SubSeq(stack, 1, n)) = IF 1 <= n THEN n - 1 + 1 ELSE 0
      /\ \A j \in 1..n - 1 + 1 : SubSeq(stack, 1, n)[j] = stack[1 + j - 1]
  BY <1>1, <1>2, SubSeqProperties
<1>4. n \in Nat /\ n - 1 + 1 = n /\ stack' = SubSeq(stack, 1, n)
  BY <1>1
<1> HIDE DEF n
<1>5. Len(stack') = n
  BY <1>3, <1>4
<1>6. \A j \in 1..n : stack'[j] = stack[j]
  <2> TAKE j \in 1..n
  <2>1. 1 + j - 1 = j
    BY <1>4
  <2> QED BY <1>3, <1>4, <2>1
<1> QED
  BY <1>3, <1>4, <1>5, <1>6 DEF n

LEMMA UncoverStack ==
    ASSUME TypeOK, stack # <<>>,
           stack' = [i \in 1..Len(stack) - 1 |-> Overtaken(stack[i])]
    PROVE  /\ stack' \in Seq(Dialogs) /\ Len(stack') = Len(stack) - 1
           /\ \A j \in 1..Len(stack') : stack'[j] = Overtaken(stack[j])
<1> DEFINE e(i) == Overtaken(stack[i])
<1>1. Len(stack) \in Nat \ {0} /\ Len(stack) - 1 \in Nat
  BY EmptySeq DEF TypeOK
<1>2. \A i \in 1..Len(stack) - 1 : e(i) \in Dialogs
  BY <1>1, StackEntry, OvertakenDialog
<1>3. stack' = [i \in 1..Len(stack) - 1 |-> e(i)]
  OBVIOUS
<1> HIDE DEF e
<1>4. stack' \in Seq(Dialogs)
  BY <1>1, <1>2, <1>3, IsASeq
<1>5. Len(stack') = Len(stack) - 1
  BY <1>1, <1>3, <1>4, LenProperties
<1> QED
  BY <1>3, <1>4, <1>5 DEF e

LEMMA TypeInit == Init => TypeOK
<1> SUFFICES ASSUME Init PROVE TypeOK
  OBVIOUS
<1>1. PICK c \in Choices : cfg = Fixed(Normalize(c))
  BY DEF Init
<1>2. cfg \in NormalSettings
  BY <1>1, DialogAssumption, NormalizeMakesNormal, StaysNormal
<1>3. stack \in Seq(Dialogs) /\ Len(stack) = 0 /\ stack = <<>>
  BY EmptySeq DEF Init
<1>4. file.set \in NormalSettings /\ file.hidden \subseteq Rows
  BY <1>2, ContentsType DEF Init
<1>5. Len(stack) <= MaxOpen
  BY <1>3, DialogAssumption
<1> QED
  BY <1>2, <1>3, <1>4, <1>5, WindowTypes DEF Init, TypeOK

LEMMA PutBackTypes ==
    ASSUME TypeOK, NEW d \in Dialogs, PutBack(d)
    PROVE  /\ cfg' \in NormalSettings
           /\ docked' \in [mode : Modes, edge : Edges, auto : BOOLEAN]
           /\ alpha' \in 35..100 /\ late' \in BOOLEAN
           /\ pin' \in {"slides", "stays", "unclear"}
<1>1. cfg' = d.orig /\ cfg' \in NormalSettings
  BY DialogFields DEF PutBack
<1>2. late' \in BOOLEAN
  BY Zenon DEF PutBack
<1> QED
  BY <1>1, <1>2, WindowTypes DEF PutBack, TypeOK

LEMMA TypeStep == TypeOK /\ [Next]_vars => TypeOK'
<1> SUFFICES ASSUME TypeOK, [Next]_vars PROVE TypeOK'
  OBVIOUS
<1>t. /\ cfg \in NormalSettings /\ hidden \in SUBSET Rows
      /\ file.set \in NormalSettings /\ file.hidden \in SUBSET Rows
      /\ stack \in Seq(Dialogs) /\ Len(stack) \in Nat /\ Len(stack) <= MaxOpen
  BY LenProperties DEF TypeOK
<1>1. CASE Restart
  <2>1. Loaded(file) \in NormalSettings /\ cfg' \in NormalSettings
    BY <1>1, <1>t, LoadedNormal, StaysNormal DEF Restart
  <2>2. file'.set \in NormalSettings /\ file'.hidden \subseteq Rows
    BY <1>1, <1>t, <2>1, ContentsType DEF Restart
  <2>3. stack' \in Seq(Dialogs) /\ Len(stack') <= MaxOpen
    BY <1>1, EmptySeq, DialogAssumption DEF Restart
  <2>4. unsaved' \in BOOLEAN
    BY <1>1, Zenon DEF Restart
  <2> QED
    BY <1>1, <1>t, <2>1, <2>2, <2>3, <2>4, WindowTypes DEF Restart, TypeOK
<1>2. CASE PinClicked
  <2>1. cfg' \in NormalSettings
    BY <1>2, <1>t, StaysNormal DEF PinClicked
  <2>2. file'.set \in NormalSettings /\ file'.hidden \subseteq Rows
    BY <1>2, <1>t, <2>1, ContentsType DEF PinClicked
  <2>3. stack' \in Seq(Dialogs) /\ Len(stack') <= MaxOpen
    BY <1>2, <1>t, SettleStack DEF PinClicked
  <2> QED
    BY <1>2, <2>1, <2>2, <2>3, WindowTypes DEF PinClicked, TypeOK
<1>3. CASE OpenSettings
  <2>1. Dialog("settings", Normalize(cfg)) \in Dialogs
    BY <1>t, StaysNormal, NewDialog
  <2>2. stack' \in Seq(Dialogs) /\ Len(stack') <= MaxOpen
    BY <1>3, <1>t, <2>1, PushOnStack, DialogAssumption DEF OpenSettings
  <2> QED
    BY <1>3, <2>2 DEF OpenSettings, TypeOK, memory, window, history
<1>4. CASE Return
  <2> DEFINE n == Len(stack)
             d == stack[n]
  <2>1. n \in 1..Len(stack) /\ d \in Dialogs
    BY <1>4, <1>t, EmptySeq, StackEntry DEF Return
  <2>2. unsaved' \in BOOLEAN
    <3>1. unsaved \in BOOLEAN
      BY DEF TypeOK
    <3>2. unsaved' = (unsaved \/ (d.kind = "settings" /\ d.state = "cancelled" /\ d.overtaken))
      BY <1>4 DEF Return
    <3> QED
      BY <3>1, <3>2, Zenon
  <2>3. UNCHANGED <<hidden, file, copying, dead, rowsLost>>
    BY <1>4 DEF Return
  <2>4. CASE PutBack(d) /\ stack' = [i \in 1..n - 1 |-> Overtaken(stack[i])]
    <3>1. stack' \in Seq(Dialogs) /\ Len(stack') <= MaxOpen
      BY <1>4, <1>t, <2>4, UncoverStack, DialogAssumption DEF Return
    <3> QED
      BY <2>1, <2>2, <2>3, <2>4, <3>1, PutBackTypes DEF TypeOK
  <2>5. CASE stack' = SubSeq(stack, 1, n - 1) /\ UNCHANGED <<cfg, window, late, pin>>
    <3>1. stack' \in Seq(Dialogs) /\ Len(stack') <= MaxOpen
      BY <1>4, <1>t, <2>5, PopOffStack, DialogAssumption DEF Return
    <3> QED
      BY <2>2, <2>3, <2>5, <3>1 DEF TypeOK, window
  <2> QED
    BY <1>4, <2>4, <2>5 DEF Return
<1>5. ASSUME NEW i \in 1..MaxOpen, NEW opacity \in Sliders, Preview(i, opacity)
      PROVE  TypeOK'
  <2>1. opacity \in 35..100
    BY SliderTypes
  <2>2. stack[i] \in Dialogs
    BY <1>5, OpenDialog DEF Preview
  <2>3. [stack[i] EXCEPT !.slider = opacity] \in Dialogs
    BY <2>1, <2>2 DEF Dialogs
  <2>4. stack' \in Seq(Dialogs) /\ Len(stack') <= MaxOpen
    BY <1>5, <1>t, <2>3, SettleStack DEF Preview
  <2>5. cfg' \in NormalSettings
    BY <1>5, <1>t, <2>1, StaysNormal DEF Preview
  <2> QED
    BY <1>5, <2>4, <2>5, WindowTypes DEF Preview, TypeOK, history
<1>6. ASSUME NEW i \in 1..MaxOpen, NEW c \in Choices, SaveNothing(i, c)
      PROVE  TypeOK'
  <2>1. i \in 1..Len(stack) /\ stack[i] \in Dialogs
    BY <1>6, OpenDialog DEF SaveNothing
  <2>2. Saved(stack[i]) \in Dialogs /\ stack' = [stack EXCEPT ![i] = Saved(stack[i])]
    BY <1>6, <2>1, SavedDialog DEF SaveNothing
  <2>3. stack' \in Seq(Dialogs) /\ Len(stack') <= MaxOpen
    BY <1>t, <2>1, <2>2, ReplaceInStack
  <2>4. unsaved' \in BOOLEAN
    BY <1>6, <2>1, DialogFields, Zenon DEF SaveNothing, TypeOK
  <2> QED
    BY <1>6, <2>3, <2>4 DEF SaveNothing, TypeOK, memory, window
<1>7. ASSUME NEW i \in 1..MaxOpen, NEW c \in Choices, SaveSettings(i, c)
      PROVE  TypeOK'
  <2>1. /\ Open(i, "settings") /\ stack[i] \in Dialogs /\ Entered(i, c) \in NormalSettings
    BY <1>7, OpenDialog, EnteredType DEF SaveSettings
  <2>2. cfg' \in NormalSettings
    BY <1>7, <2>1, StaysNormal DEF SaveSettings
  <2>3. file'.set \in NormalSettings /\ file'.hidden \subseteq Rows
    BY <1>7, <1>t, <2>1, <2>2, ContentsType DEF SaveSettings
  <2>4. stack' \in Seq(Dialogs) /\ Len(stack') <= MaxOpen
    BY <1>7, <1>t, <2>1, SavedDialog, SettleStack DEF SaveSettings
  <2>5. unsaved' \in BOOLEAN /\ rowsLost' \in BOOLEAN
    BY <1>7, Zenon DEF SaveSettings
  <2>6. late' \in BOOLEAN
    BY <1>7, <2>1, DialogFields, Zenon DEF SaveSettings, TypeOK
  <2>7. pin' \in {"slides", "stays", "unclear"}
    BY <1>7, <2>2, WindowTypes DEF SaveSettings, TypeOK
  <2>8. docked' \in [mode : Modes, edge : Edges, auto : BOOLEAN] /\ alpha' \in 35..100
    BY <1>7, <2>2, WindowTypes DEF SaveSettings, TypeOK
  <2> QED
    BY <1>7, <2>2, <2>3, <2>4, <2>5, <2>6, <2>7, <2>8 DEF SaveSettings, TypeOK
<1>8. ASSUME NEW i \in 1..MaxOpen, NEW c \in Choices, SaveFails(i, c)
      PROVE  TypeOK'
  <2>1. stack[i] \in Dialogs
    BY <1>8, OpenDialog DEF SaveFails
  <2>2. stack' \in Seq(Dialogs) /\ Len(stack') <= MaxOpen
    BY <1>8, <1>t, <2>1, SettleStack DEF SaveFails
  <2>3. unsaved' \in BOOLEAN /\ late' \in BOOLEAN
    BY <1>8, <2>1, DialogFields, Zenon DEF SaveFails, TypeOK
  <2> QED
    BY <1>8, <2>1, <2>2, <2>3, DialogFields DEF SaveFails, TypeOK, window
<1>9. ASSUME NEW i \in 1..MaxOpen, CancelDialog(i)
      PROVE  TypeOK'
  <2>1. i \in 1..Len(stack) /\ stack[i] \in Dialogs
    BY <1>9, OpenDialog DEF CancelDialog
  <2>2. stack' \in Seq(Dialogs) /\ Len(stack') = Len(stack)
    <3>1. CASE stack' = [stack EXCEPT ![i].state = "cancelled", ![i].slider = stack[i].orig.opacity]
      <4> DEFINE e == [stack[i] EXCEPT !.state = "cancelled", !.slider = stack[i].orig.opacity]
      <4>1. stack[i].orig.opacity \in 35..100
        BY <2>1, DialogFields, Normal
      <4>2. e \in Dialogs
        BY <2>1, <4>1 DEF Dialogs
      <4>3. stack' = [stack EXCEPT ![i] = e]
        BY <3>1, <2>1, <1>t
      <4> HIDE DEF e
      <4> QED
        BY <2>1, <4>2, <4>3, ReplaceInStack
    <3>2. CASE stack' = [stack EXCEPT ![i] = Saved(@)]
      <4>1. Saved(stack[i]) \in Dialogs /\ stack' = [stack EXCEPT ![i] = Saved(stack[i])]
        BY <2>1, <3>2, SavedDialog
      <4> QED
        BY <2>1, <4>1, ReplaceInStack
    <3> QED
      BY <1>9, <3>1, <3>2 DEF CancelDialog
  <2> QED
    BY <1>9, <1>t, <2>2 DEF CancelDialog, TypeOK, memory, window, history
<1>10. ASSUME NEW i \in 1..MaxOpen, NEW rows \in SUBSET Rows, SaveRows(i, rows)
       PROVE  TypeOK'
  <2>1. stack[i] \in Dialogs
    BY <1>10, OpenDialog DEF SaveRows
  <2>2. stack' \in Seq(Dialogs) /\ Len(stack') <= MaxOpen
    BY <1>10, <1>t, <2>1, SavedDialog, SettleStack DEF SaveRows
  <2>3. file'.set \in NormalSettings /\ file'.hidden \subseteq Rows
    BY <1>10, <1>t, ContentsType DEF SaveRows
  <2> QED
    BY <1>10, <2>2, <2>3 DEF SaveRows, TypeOK, window
<1>11. CASE OpenPicker
  <2>1. stack' \in Seq(Dialogs) /\ Len(stack') <= MaxOpen
    <3>1. CASE stack' = Append(stack, Picker)
      BY <1>11, <1>t, <3>1, PickerType, PushOnStack, DialogAssumption DEF OpenPicker
    <3>2. CASE stack' = <<>>
      BY <3>2, EmptySeq, DialogAssumption
    <3> QED
      BY <1>11, <3>1, <3>2 DEF OpenPicker
  <2> QED
    BY <1>11, <2>1 DEF OpenPicker, TypeOK, window, history
<1>12. CASE CopyBegins \/ CopyEnds
  BY <1>12 DEF CopyBegins, CopyEnds, TypeOK, memory, window, history
<1>13. CASE UNCHANGED vars
  BY <1>13 DEF vars, TypeOK, memory, window, history
<1> QED
  BY <1>1, <1>2, <1>3, <1>4, <1>5, <1>6, <1>7, <1>8, <1>9, <1>10, <1>11, <1>12, <1>13
     DEF Next

\* Every variable of SettingsDialog keeps its type: in particular a.cfg and
\* settings.json are in normal form after every handler, whatever the user
\* enters, and so is what each open dialog would put back.
THEOREM TypeCorrect == Spec => []TypeOK
BY TypeInit, TypeStep, PTL DEF Spec

-----------------------------------------------------------------------------
(* The inductive invariant *)

\* A settings dialog that may still put its settings back or save.
Live(d) == d.kind = "settings" /\ d.state # "saved"

\* Nobody but the dialog itself has changed the settings since it was opened.
Undisturbed(d) == Live(d) /\ ~d.overtaken

\* The settings but the two that change without a save: the slider previews the
\* opacity, the flag replaces the interval.
SameRest(a, b) ==
    /\ a.mode = b.mode /\ a.edge = b.edge /\ a.theme = b.theme /\ a.auto = b.auto
    /\ a.bands = b.bands /\ a.warn = b.warn /\ a.crit = b.crit

OnlySlid(c, d) ==
    /\ SameRest(c, d.orig) /\ c.every = d.orig.every
    /\ d.state = "open" /\ d.slider = d.orig.opacity => c = d.orig

\* While nobody else changes the settings a dialog differs from those in use by
\* its slider, and a dialog opened over it has not even moved that.
OwnChangesOnly ==
    \A i \in 1..Len(stack) :
       Undisturbed(stack[i]) =>
          /\ OnlySlid(cfg, stack[i])
          /\ \A j \in 1..i - 1 : Undisturbed(stack[j]) => cfg = stack[i].orig

\* No settings in use or to be put back slide a reserved dock.
NeverSlides(c) == ~(c.mode = "reserved" /\ c.auto)
ReservedFixed ==
    NeverSlides(cfg) /\ \A i \in 1..Len(stack) : NeverSlides(stack[i].orig)

\* Only previews are not in the file.
SavedButSlider == ~unsaved => SameRest(cfg, file.set)

\* The opacity of the file is what the dialog opened first puts back.
SliderComesBack ==
    ~unsaved /\ (\A i \in 1..Len(stack) : Live(stack[i]) => ~stack[i].overtaken) =>
       /\ \A i \in 1..Len(stack) :
             Live(stack[i]) /\ (\A j \in 1..i - 1 : ~Live(stack[j]))
               => stack[i].orig.opacity = file.set.opacity
       /\ (\A i \in 1..Len(stack) : ~Live(stack[i])) /\ ~dead
               => cfg.opacity = file.set.opacity

-----------------------------------------------------------------------------
(* Lemmas for the steps *)

LEMMA SameSettings ==
    ASSUME NEW a \in NormalSettings, NEW b \in NormalSettings,
           SameRest(a, b), a.opacity = b.opacity, a.every = b.every
    PROVE  a = b
BY Normal DEF SameRest

LEMMA DockingFields ==
    ASSUME NEW a, NEW b
    PROVE  Docking(a) = Docking(b) <=> a.mode = b.mode /\ a.edge = b.edge /\ a.auto = b.auto
BY DEF Docking

LEMMA FixedNeverSlides ==
    ASSUME NEW c \in NormalSettings
    PROVE  NeverSlides(Fixed(c)) /\ (NeverSlides(c) => Fixed(c) = c)
<1>1. CASE c.mode = "reserved"
  <2>1. Fixed(c).auto = FALSE
    BY <1>1 DEF Fixed, NormalSettings, RawSettings
  <2>2. ~c.auto => c.auto = FALSE
    BY Normal
  <2>3. c.auto = FALSE => Fixed(c) = c
    BY <1>1, Normal DEF Fixed
  <2> QED
    BY <1>1, <2>1, <2>2, <2>3 DEF NeverSlides
<1>2. CASE c.mode # "reserved"
  BY <1>2 DEF Fixed, NeverSlides
<1> QED
  BY <1>1, <1>2

\* Whoever changes the settings leaves no other dialog undisturbed.
LEMMA SettleDisturbs ==
    ASSUME TypeOK, NEW d, NEW s, d \in 1..Len(stack) => s \in Dialogs, Settle(d, s)
    PROVE  /\ Len(stack') = Len(stack)
           /\ \A i \in 1..Len(stack) : i # d =>
                 /\ stack'[i].orig = stack[i].orig
                 /\ Live(stack'[i]) <=> Live(stack[i])
                 /\ Live(stack'[i]) => stack'[i].overtaken
           /\ d \in 1..Len(stack) => stack'[d] = s
<1>1. \A i \in 1..Len(stack) : i # d => stack'[i] = Overtaken(stack[i])
  BY SettleStack
<1> QED
  BY <1>1, SettleStack, StackEntry, OvertakenDialog DEF Live

LEMMA ReturnCases ==
    ASSUME TypeOK, Return
    PROVE  LET n == Len(stack)
               d == stack[n]
           IN  /\ n \in 1..Len(stack) /\ n \in Nat /\ d \in Dialogs /\ d.state # "open"
               /\ UNCHANGED <<hidden, file, copying, dead, rowsLost>>
               /\ Len(stack') = n - 1 /\ Len(stack') \in Nat
               /\ unsaved' \in BOOLEAN /\ (~unsaved' => ~unsaved)
               /\ Undisturbed(d) => unsaved' = unsaved
               /\ ~unsaved' /\ Live(d) => Undisturbed(d)
               /\ \/ /\ PutBack(d) /\ Live(d) /\ cfg # d.orig
                     /\ \A i \in 1..n - 1 :
                           /\ stack'[i].orig = stack[i].orig
                           /\ Live(stack'[i]) <=> Live(stack[i])
                           /\ Live(stack'[i]) => stack'[i].overtaken
                  \/ /\ UNCHANGED <<cfg, window, late, pin>>
                     /\ Live(d) => cfg = d.orig
                     /\ \A i \in 1..n - 1 : stack'[i] = stack[i]
<1> DEFINE n == Len(stack)
           d == stack[n]
<1>1. n \in 1..Len(stack) /\ n \in Nat /\ d \in Dialogs /\ d.state # "open" /\ stack # <<>>
  BY EmptySeq, StackEntry DEF Return, TypeOK
<1>2. UNCHANGED <<hidden, file, copying, dead, rowsLost>>
  BY DEF Return
<1>3. Live(d) <=> d.kind = "settings" /\ d.state = "cancelled"
  BY <1>1, DialogFields DEF Live
<1>4. unsaved' = (unsaved \/ (d.kind = "settings" /\ d.state = "cancelled" /\ d.overtaken))
  BY DEF Return
<1>5. /\ unsaved' \in BOOLEAN /\ (~unsaved' => ~unsaved)
      /\ Undisturbed(d) => unsaved' = unsaved
      /\ ~unsaved' /\ Live(d) => Undisturbed(d)
  <2>1. unsaved \in BOOLEAN
    BY DEF TypeOK
  <2> QED
    BY <1>3, <1>4, <2>1, Zenon DEF Undisturbed
<1>6. CASE PutBack(d) /\ stack' = [i \in 1..n - 1 |-> Overtaken(stack[i])]
           /\ Live(d) /\ cfg # d.orig
  <2>1. Len(stack') = n - 1 /\ \A i \in 1..n - 1 : stack'[i] = Overtaken(stack[i])
    BY <1>1, <1>6, UncoverStack
  <2>2. \A i \in 1..n - 1 :
                           /\ stack'[i].orig = stack[i].orig
                           /\ Live(stack'[i]) <=> Live(stack[i])
                           /\ Live(stack'[i]) => stack'[i].overtaken
    BY <1>1, <2>1, StackEntry, OvertakenDialog DEF Live
  <2> QED
    BY <1>1, <1>2, <1>5, <1>6, <2>1, <2>2
<1>7. CASE stack' = SubSeq(stack, 1, n - 1) /\ UNCHANGED <<cfg, window, late, pin>>
           /\ (Live(d) => cfg = d.orig)
  <2>1. Len(stack') = n - 1 /\ \A i \in 1..n - 1 : stack'[i] = stack[i]
    BY <1>1, <1>7, PopOffStack
  <2> QED
    BY <1>1, <1>2, <1>5, <1>7, <2>1
<1> QED
  BY <1>3, <1>6, <1>7 DEF Return

LEMMA CancelStack ==
    ASSUME TypeOK, NEW i, CancelDialog(i)
    PROVE  /\ i \in 1..Len(stack)
           /\ Len(stack') = Len(stack)
           /\ \A j \in 1..Len(stack) : j # i => stack'[j] = stack[j]
           /\ Live(stack'[i]) <=> Live(stack[i])
           /\ Live(stack[i]) => /\ stack'[i].state # "open"
                                /\ stack'[i].orig = stack[i].orig
                                /\ stack'[i].overtaken = stack[i].overtaken
<1>1. i \in 1..Len(stack) /\ stack[i] \in Dialogs
  BY OpenDialog DEF CancelDialog
<1>2. CASE /\ Open(i, "settings")
           /\ stack' = [stack EXCEPT ![i].state = "cancelled", ![i].slider = stack[i].orig.opacity]
  <2> DEFINE e == [stack[i] EXCEPT !.state = "cancelled", !.slider = stack[i].orig.opacity]
  <2>1. e \in Dialogs /\ e.kind = stack[i].kind /\ e.state = "cancelled"
        /\ e.orig = stack[i].orig /\ e.overtaken = stack[i].overtaken
    BY <1>1, DialogFields, Normal DEF Dialogs
  <2>2. stack' = [stack EXCEPT ![i] = e]
    BY <1>1, <1>2 DEF TypeOK
  <2> HIDE DEF e
  <2> QED
    BY <1>1, <1>2, <2>1, <2>2, ReplaceInStack DEF Live, Open
<1>3. CASE Open(i, "picker") /\ stack' = [stack EXCEPT ![i] = Saved(@)]
  <2>1. Saved(stack[i]) \in Dialogs /\ Saved(stack[i]).kind = "picker"
    BY <1>1, <1>3, SavedDialog DEF Open
  <2>2. stack' = [stack EXCEPT ![i] = Saved(stack[i])]
    BY <1>3
  <2> QED
    BY <1>1, <1>3, <2>1, <2>2, ReplaceInStack DEF Live, Open
<1> QED
  BY <1>2, <1>3 DEF CancelDialog

-----------------------------------------------------------------------------
(* The steps *)

LEMMA OwnChangesStep == TypeOK /\ OwnChangesOnly /\ [Next]_vars => OwnChangesOnly'
<1> SUFFICES ASSUME TypeOK, OwnChangesOnly, [Next]_vars PROVE OwnChangesOnly'
  OBVIOUS
<1>t. /\ cfg \in NormalSettings /\ Len(stack) \in Nat
      /\ \A i \in 1..Len(stack) : stack[i] \in Dialogs
  BY LenProperties, StackEntry DEF TypeOK
<1>0. ASSUME Len(stack') \in Nat, \A i \in 1..Len(stack') : ~Undisturbed(stack'[i])
      PROVE  OwnChangesOnly'
  BY <1>0 DEF OwnChangesOnly
<1>1. CASE Restart
  BY <1>1, <1>0 DEF Restart
<1>2. CASE PinClicked
  BY <1>2, <1>0, <1>t, SettleDisturbs DEF PinClicked, Undisturbed
<1>3. CASE OpenSettings
  <2> DEFINE d == Dialog("settings", Normalize(cfg))
  <2>1. d \in Dialogs /\ d.orig = cfg
    BY <1>t, StaysNormal, NewDialog DEF Dialog
  <2>2. /\ Len(stack') = Len(stack) + 1 /\ stack'[Len(stack')] = d
        /\ \A j \in 1..Len(stack) : stack'[j] = stack[j]
    BY <1>3, <2>1, PushOnStack DEF OpenSettings
  <2>3. UNCHANGED cfg
    BY <1>3 DEF OpenSettings, memory
  <2> HIDE DEF d
  <2> QED
    BY <1>t, <2>1, <2>2, <2>3 DEF OwnChangesOnly, OnlySlid, SameRest
<1>4. CASE Return
  <2>1. CASE \A i \in 1..Len(stack) - 1 : Live(stack'[i]) => stack'[i].overtaken
    BY <1>4, <1>0, <2>1, ReturnCases DEF Undisturbed
  <2>2. CASE cfg' = cfg /\ \A i \in 1..Len(stack) - 1 : stack'[i] = stack[i]
    BY <1>4, <1>t, <2>2, ReturnCases DEF OwnChangesOnly, OnlySlid
  <2> QED
    BY <1>4, <2>1, <2>2, ReturnCases
<1>5. ASSUME NEW i \in 1..MaxOpen, NEW opacity \in Sliders, Preview(i, opacity)
      PROVE  OwnChangesOnly'
  <2> DEFINE d == stack[i]
             s == [d EXCEPT !.slider = opacity]
  <2>1. opacity \in 35..100 /\ i \in 1..Len(stack) /\ d \in Dialogs
    BY <1>5, <1>t, SliderTypes DEF Preview, Open
  <2>2. /\ s \in Dialogs /\ s.orig = d.orig /\ s.slider = opacity
        /\ s.kind = d.kind /\ s.state = d.state /\ s.overtaken = d.overtaken
    BY <2>1 DEF Dialogs
  <2>3. /\ Len(stack') = Len(stack) /\ stack'[i] = s
        /\ \A j \in 1..Len(stack) : j # i => ~Undisturbed(stack'[j])
    BY <1>5, <2>1, <2>2, SettleDisturbs DEF Preview, Undisturbed
  <2>4. cfg' \in NormalSettings /\ SameRest(cfg', cfg) /\ cfg'.every = cfg.every
        /\ cfg'.opacity = opacity
    <3>1. cfg' = [cfg EXCEPT !.opacity = opacity] /\ cfg' \in NormalSettings
      BY <1>5, <1>t, <2>1, StaysNormal DEF Preview
    <3> QED
      BY <1>t, <3>1, Normal DEF SameRest
  <2>5. ASSUME Undisturbed(s) PROVE OnlySlid(cfg', s)
    <3>1. SameRest(cfg, d.orig) /\ cfg.every = d.orig.every /\ d.orig \in NormalSettings
      BY <2>1, <2>2, <2>5, DialogFields DEF OwnChangesOnly, OnlySlid, Undisturbed, Live
    <3>2. SameRest(cfg', d.orig) /\ cfg'.every = d.orig.every
      BY <2>4, <3>1 DEF SameRest
    <3>3. s.slider = d.orig.opacity => cfg' = d.orig
      BY <2>2, <2>4, <3>1, <3>2, SameSettings
    <3> QED
      BY <2>2, <3>2, <3>3 DEF OnlySlid
  <2> HIDE DEF s, d
  <2> QED
    BY <1>t, <2>1, <2>3, <2>5 DEF OwnChangesOnly
<1>6. ASSUME NEW i \in 1..MaxOpen, NEW c \in Choices, SaveNothing(i, c)
      PROVE  OwnChangesOnly'
  <2>1. i \in 1..Len(stack) /\ Saved(stack[i]) \in Dialogs /\ ~Undisturbed(Saved(stack[i]))
    BY <1>6, <1>t, SavedDialog DEF SaveNothing, Open, Undisturbed, Live
  <2>2. Len(stack') = Len(stack) /\ cfg' = cfg
        /\ \A j \in 1..Len(stack) : stack'[j] = IF j = i THEN Saved(stack[i]) ELSE stack[j]
    BY <1>6, <2>1, ReplaceInStack DEF SaveNothing, memory
  <2> QED
    BY <1>t, <2>1, <2>2 DEF OwnChangesOnly
<1>7. ASSUME NEW i \in 1..MaxOpen, NEW c \in Choices, SaveSettings(i, c)
      PROVE  OwnChangesOnly'
  <2>1. i \in 1..Len(stack) /\ Saved(stack[i]) \in Dialogs /\ ~Undisturbed(Saved(stack[i]))
    BY <1>7, <1>t, SavedDialog DEF SaveSettings, Open, Undisturbed, Live
  <2> QED
    BY <1>7, <1>0, <1>t, <2>1, SettleDisturbs DEF SaveSettings, Undisturbed
<1>8. ASSUME NEW i \in 1..MaxOpen, NEW c \in Choices, SaveFails(i, c)
      PROVE  OwnChangesOnly'
  <2>1. i \in 1..Len(stack) /\ stack[i] \in Dialogs
    BY <1>8, <1>t DEF SaveFails, Open
  <2>2. /\ Len(stack') = Len(stack) /\ stack'[i] = stack[i] /\ cfg' = stack[i].orig
        /\ \A j \in 1..Len(stack) : j # i => ~Undisturbed(stack'[j])
    BY <1>8, <2>1, SettleDisturbs DEF SaveFails, Undisturbed
  <2> QED
    BY <1>t, <2>1, <2>2 DEF OwnChangesOnly, OnlySlid, SameRest
<1>9. ASSUME NEW i \in 1..MaxOpen, CancelDialog(i)
      PROVE  OwnChangesOnly'
  <2>1. i \in 1..Len(stack) /\ UNCHANGED cfg
    BY <1>9, <1>t DEF CancelDialog, Open, memory
  <2>2. /\ Len(stack') = Len(stack)
        /\ \A j \in 1..Len(stack) : j # i => stack'[j] = stack[j]
        /\ Undisturbed(stack'[i]) => /\ Undisturbed(stack[i])
                                     /\ stack'[i].state # "open"
                                     /\ stack'[i].orig = stack[i].orig
    BY <1>9, CancelStack DEF Undisturbed
  <2> QED
    BY <1>t, <2>1, <2>2 DEF OwnChangesOnly, OnlySlid
<1>10. ASSUME NEW i \in 1..MaxOpen, NEW rows \in SUBSET Rows, SaveRows(i, rows)
       PROVE  OwnChangesOnly'
  <2>1. i \in 1..Len(stack) /\ Saved(stack[i]) \in Dialogs /\ ~Undisturbed(Saved(stack[i]))
    BY <1>10, <1>t, SavedDialog DEF SaveRows, Open, Undisturbed, Live
  <2> QED
    BY <1>10, <1>0, <1>t, <2>1, SettleDisturbs DEF SaveRows, Undisturbed
<1>11. CASE OpenPicker
  <2>1. CASE stack' = Append(stack, Picker)
    <3>1. Picker.kind = "picker"
      BY Zenon DEF Picker, Dialog
    <3>2. /\ Len(stack') = Len(stack) + 1 /\ stack'[Len(stack')] = Picker
          /\ \A j \in 1..Len(stack) : stack'[j] = stack[j]
      BY <2>1, PickerType, PushOnStack
    <3> QED
      BY <1>11, <1>t, <3>1, <3>2 DEF OpenPicker, OwnChangesOnly, OnlySlid, Undisturbed, Live
  <2>2. CASE stack' = <<>>
    BY <2>2, <1>0
  <2> QED
    BY <1>11, <2>1, <2>2 DEF OpenPicker
<1>12. CASE CopyBegins \/ CopyEnds
  BY <1>12 DEF CopyBegins, CopyEnds, OwnChangesOnly, memory
<1>13. CASE UNCHANGED vars
  BY <1>13 DEF vars, OwnChangesOnly, memory
<1> QED
  BY <1>1, <1>2, <1>3, <1>4, <1>5, <1>6, <1>7, <1>8, <1>9, <1>10, <1>11, <1>12, <1>13
     DEF Next

LEMMA ReservedFixedStep == TypeOK /\ ReservedFixed /\ [Next]_vars => ReservedFixed'
<1> SUFFICES ASSUME TypeOK, ReservedFixed, [Next]_vars PROVE ReservedFixed'
  OBVIOUS
<1>t. /\ cfg \in NormalSettings /\ file.set \in NormalSettings /\ Len(stack) \in Nat
      /\ \A i \in 1..Len(stack) : stack[i] \in Dialogs /\ NeverSlides(stack[i].orig)
      /\ NeverSlides(cfg) /\ NeverSlides(Defaults)
  BY LenProperties, StackEntry DEF TypeOK, ReservedFixed, NeverSlides, Defaults
<1>0. ASSUME NEW d, NEW s, d \in 1..Len(stack) => s \in Dialogs /\ NeverSlides(s.orig),
             Settle(d, s), NeverSlides(cfg')
      PROVE  ReservedFixed'
  <2>1. /\ Len(stack') = Len(stack)
        /\ \A i \in 1..Len(stack) : i # d => stack'[i].orig = stack[i].orig
        /\ d \in 1..Len(stack) => stack'[d] = s
    BY <1>0, SettleDisturbs
  <2> QED
    BY <1>0, <1>t, <2>1 DEF ReservedFixed
<1>00. ASSUME NEW i \in 1..Len(stack) PROVE Saved(stack[i]) \in Dialogs /\ NeverSlides(Saved(stack[i]).orig)
  BY <1>t, SavedDialog
<1>1. CASE Restart
  BY <1>1, <1>t, LoadedNormal, FixedNeverSlides DEF Restart, ReservedFixed
<1>2. CASE PinClicked
  <2>1. cfg'.mode = "overlay"
    BY <1>2, <1>t DEF PinClicked, NormalSettings, RawSettings
  <2> QED
    BY <1>2, <2>1, <1>0, <1>t DEF PinClicked, NeverSlides
<1>3. CASE OpenSettings
  <2> DEFINE d == Dialog("settings", Normalize(cfg))
  <2>1. d \in Dialogs /\ d.orig = cfg
    BY <1>t, StaysNormal, NewDialog DEF Dialog
  <2>2. /\ Len(stack') = Len(stack) + 1 /\ stack'[Len(stack')] = d
        /\ \A j \in 1..Len(stack) : stack'[j] = stack[j]
    BY <1>3, <2>1, PushOnStack DEF OpenSettings
  <2>3. UNCHANGED cfg
    BY <1>3 DEF OpenSettings, memory
  <2> HIDE DEF d
  <2> QED
    BY <1>t, <2>1, <2>2, <2>3 DEF ReservedFixed
<1>4. CASE Return
  <2>1. \A i \in 1..Len(stack) - 1 : stack'[i].orig = stack[i].orig
    BY <1>4, ReturnCases
  <2>2. NeverSlides(cfg')
    BY <1>4, <1>t, ReturnCases DEF PutBack
  <2> QED
    BY <1>4, <1>t, <2>1, <2>2, ReturnCases DEF ReservedFixed
<1>5. ASSUME NEW i \in 1..MaxOpen, NEW opacity \in Sliders, Preview(i, opacity)
      PROVE  ReservedFixed'
  <2> DEFINE s == [stack[i] EXCEPT !.slider = opacity]
  <2>1. opacity \in 35..100 /\ i \in 1..Len(stack) /\ stack[i] \in Dialogs
    BY <1>5, <1>t, SliderTypes DEF Preview, Open
  <2>2. s \in Dialogs /\ s.orig = stack[i].orig
    BY <2>1 DEF Dialogs
  <2>3. NeverSlides(cfg')
    <3>1. cfg' = [cfg EXCEPT !.opacity = opacity]
      BY <1>5 DEF Preview
    <3> QED
      BY <1>t, <3>1 DEF NeverSlides, NormalSettings, RawSettings
  <2>4. Settle(i, s)
    BY <1>5 DEF Preview
  <2> HIDE DEF s
  <2> QED
    BY <1>0, <1>t, <2>1, <2>2, <2>3, <2>4
<1>6. ASSUME NEW i \in 1..MaxOpen, NEW c \in Choices, SaveNothing(i, c)
      PROVE  ReservedFixed'
  <2>1. i \in 1..Len(stack)
    BY <1>6 DEF SaveNothing, Open
  <2>2. Len(stack') = Len(stack) /\ cfg' = cfg
        /\ \A j \in 1..Len(stack) : stack'[j] = IF j = i THEN Saved(stack[i]) ELSE stack[j]
    BY <1>00, <1>6, <2>1, ReplaceInStack DEF SaveNothing, memory
  <2> QED
    BY <1>00, <1>t, <2>1, <2>2 DEF ReservedFixed
<1>7. ASSUME NEW i \in 1..MaxOpen, NEW c \in Choices, SaveSettings(i, c)
      PROVE  ReservedFixed'
  <2>1. i \in 1..Len(stack) /\ Entered(i, c) \in NormalSettings
    BY <1>7, EnteredType DEF SaveSettings, Open
  <2>2. Docking(Entered(i, c)) = Docking(stack[i].orig) => NeverSlides(Entered(i, c))
    BY <1>t, <2>1, DockingFields DEF NeverSlides
  <2>3. NeverSlides(cfg')
    BY <1>7, <2>1, <2>2, FixedNeverSlides DEF SaveSettings
  <2> QED
    BY <1>0, <1>00, <1>7, <2>1, <2>3 DEF SaveSettings
<1>8. ASSUME NEW i \in 1..MaxOpen, NEW c \in Choices, SaveFails(i, c)
      PROVE  ReservedFixed'
  BY <1>0, <1>8, <1>t DEF SaveFails, Open
<1>9. ASSUME NEW i \in 1..MaxOpen, CancelDialog(i)
      PROVE  ReservedFixed'
  <2>1. /\ i \in 1..Len(stack) /\ Len(stack') = Len(stack) /\ UNCHANGED cfg
        /\ \A j \in 1..Len(stack) : j # i => stack'[j] = stack[j]
    BY <1>9, CancelStack DEF CancelDialog, memory
  <2>2. NeverSlides(stack'[i].orig)
    <3>1. CASE Live(stack[i])
      BY <1>9, <1>t, <2>1, <3>1, CancelStack
    <3>2. CASE ~Live(stack[i])
      <4>1. stack' = [stack EXCEPT ![i] = Saved(stack[i])]
        BY <1>9, <1>t, <3>2 DEF CancelDialog, Open, Live
      <4> QED
        BY <1>00, <2>1, <4>1, ReplaceInStack
    <3> QED
      BY <3>1, <3>2
  <2> QED
    BY <1>t, <2>1, <2>2 DEF ReservedFixed
<1>10. ASSUME NEW i \in 1..MaxOpen, NEW rows \in SUBSET Rows, SaveRows(i, rows)
       PROVE  ReservedFixed'
  BY <1>0, <1>00, <1>10, <1>t DEF SaveRows, Open
<1>11. CASE OpenPicker
  <2>1. CASE stack' = Append(stack, Picker)
    <3>1. Picker.orig = Defaults
      BY Zenon DEF Picker, Dialog
    <3>2. /\ Len(stack') = Len(stack) + 1 /\ stack'[Len(stack')] = Picker
          /\ \A j \in 1..Len(stack) : stack'[j] = stack[j]
      BY <2>1, PickerType, PushOnStack
    <3> QED
      BY <1>11, <1>t, <3>1, <3>2 DEF OpenPicker, ReservedFixed
  <2>2. CASE stack' = <<>>
    BY <1>11, <1>t, <2>2 DEF ReservedFixed, OpenPicker
  <2> QED
    BY <1>11, <2>1, <2>2 DEF OpenPicker
<1>12. CASE CopyBegins \/ CopyEnds
  BY <1>12, <1>t DEF CopyBegins, CopyEnds, ReservedFixed, memory
<1>13. CASE UNCHANGED vars
  BY <1>13, <1>t DEF vars, ReservedFixed, memory
<1> QED
  BY <1>1, <1>2, <1>3, <1>4, <1>5, <1>6, <1>7, <1>8, <1>9, <1>10, <1>11, <1>12, <1>13
     DEF Next

\* What an undisturbed dialog would put back is what is in use, but the slider.
LEMMA UndisturbedSame ==
    ASSUME TypeOK, OwnChangesOnly, NEW i \in 1..Len(stack), Undisturbed(stack[i])
    PROVE  /\ OnlySlid(cfg, stack[i])
           /\ Docking(cfg) = Docking(stack[i].orig)
           /\ cfg.opacity = stack[i].orig.opacity => cfg = stack[i].orig
<1>1. OnlySlid(cfg, stack[i])
  BY DEF OwnChangesOnly
<1>2. cfg \in NormalSettings /\ stack[i].orig \in NormalSettings
  BY StackEntry, DialogFields DEF TypeOK
<1> QED
  BY <1>1, <1>2, SameSettings, DockingFields DEF OnlySlid, SameRest

LEMMA SavedButSliderStep ==
    TypeOK /\ OwnChangesOnly /\ SavedButSlider /\ [Next]_vars => SavedButSlider'
<1> SUFFICES ASSUME TypeOK, OwnChangesOnly, SavedButSlider, [Next]_vars, ~unsaved'
             PROVE  SameRest(cfg', file'.set)
  BY DEF SavedButSlider
<1>t. /\ cfg \in NormalSettings /\ file.set \in NormalSettings /\ hidden \in SUBSET Rows
      /\ file.hidden \in SUBSET Rows
      /\ ~unsaved => SameRest(cfg, file.set)
  BY DEF TypeOK, SavedButSlider
<1>u. unsaved \in BOOLEAN
  BY DEF TypeOK
<1>0. ASSUME cfg' = cfg, file' = file, unsaved' = unsaved PROVE SameRest(cfg', file'.set)
  BY <1>0, <1>t
<1>1. CASE Restart
  <2>1. Loaded(file) \in NormalSettings /\ SameRest(Loaded(file), file.set)
    BY <1>t, LoadedNormal, Normal DEF SameRest
  <2>2. CASE cfg' = Loaded(file)
    BY <1>1, <2>1, <2>2 DEF Restart
  <2>3. CASE cfg' # Loaded(file)
    <3>1. cfg' \in NormalSettings /\ file' = Contents(cfg', file.hidden)
      BY <1>1, <1>t, <2>1, <2>3, StaysNormal DEF Restart
    <3> QED
      BY <1>t, <3>1, ContentsType DEF SameRest
  <2> QED
    BY <2>2, <2>3
<1>2. CASE PinClicked
  <2>1. cfg' \in NormalSettings
    BY <1>2, <1>t, StaysNormal DEF PinClicked
  <2>2. file' = Contents(cfg', hidden)
    BY <1>2 DEF PinClicked
  <2>3. file'.set = cfg'
    BY <1>t, <2>1, <2>2, ContentsType
  <2> QED
    BY <2>3 DEF SameRest
<1>3. CASE OpenSettings
  BY <1>3, <1>0 DEF OpenSettings, memory, history
<1>4. CASE Return
  <2> DEFINE d == stack[Len(stack)]
  <2>1. CASE PutBack(d) /\ Live(d)
    <3>1. Undisturbed(d) /\ ~unsaved /\ cfg' = d.orig /\ file' = file
      BY <1>4, <2>1, ReturnCases DEF PutBack
    <3>2. SameRest(cfg, d.orig)
      BY <1>4, <3>1, ReturnCases, UndisturbedSame DEF OnlySlid
    <3> QED
      BY <1>t, <3>1, <3>2 DEF SameRest
  <2>2. CASE UNCHANGED cfg
    BY <1>4, <1>t, <2>2, ReturnCases
  <2> QED
    BY <1>4, <2>1, <2>2, ReturnCases
<1>5. ASSUME NEW i \in 1..MaxOpen, NEW opacity \in Sliders, Preview(i, opacity)
      PROVE  SameRest(cfg', file'.set)
  <2>1. cfg' = [cfg EXCEPT !.opacity = opacity] /\ file' = file /\ unsaved' = unsaved
    BY <1>5 DEF Preview, history
  <2> QED
    BY <1>t, <2>1, Normal DEF SameRest
<1>6. ASSUME NEW i \in 1..MaxOpen, NEW c \in Choices, SaveNothing(i, c)
      PROVE  SameRest(cfg', file'.set)
  BY <1>6, <1>t, <1>u, Zenon DEF SaveNothing, memory
<1>7. ASSUME NEW i \in 1..MaxOpen, NEW c \in Choices, SaveSettings(i, c)
      PROVE  SameRest(cfg', file'.set)
  <2>1. cfg' \in NormalSettings
    BY <1>7, EnteredType, StaysNormal DEF SaveSettings
  <2> QED
    BY <1>7, <1>t, <2>1, ContentsType DEF SaveSettings, SameRest
<1>8. ASSUME NEW i \in 1..MaxOpen, NEW c \in Choices, SaveFails(i, c)
      PROVE  SameRest(cfg', file'.set)
  <2>1. ~unsaved /\ i \in 1..Len(stack) /\ Undisturbed(stack[i])
    BY <1>8, <1>u, Zenon DEF SaveFails, Open, Undisturbed, Live
  <2>2. SameRest(cfg, stack[i].orig)
    BY <2>1, UndisturbedSame DEF OnlySlid
  <2> QED
    BY <1>8, <1>t, <2>1, <2>2 DEF SaveFails, SameRest
<1>9. ASSUME NEW i \in 1..MaxOpen, CancelDialog(i)
      PROVE  SameRest(cfg', file'.set)
  BY <1>9, <1>0 DEF CancelDialog, memory, history
<1>10. ASSUME NEW i \in 1..MaxOpen, NEW rows \in SUBSET Rows, SaveRows(i, rows)
       PROVE  SameRest(cfg', file'.set)
  BY <1>10, <1>t, ContentsType DEF SaveRows, SameRest
<1>11. CASE OpenPicker
  BY <1>11, <1>0 DEF OpenPicker, history
<1>12. CASE CopyBegins \/ CopyEnds
  BY <1>12, <1>0 DEF CopyBegins, CopyEnds, memory, history
<1>13. CASE UNCHANGED vars
  BY <1>13, <1>0 DEF vars, memory, history
<1> QED
  BY <1>1, <1>2, <1>3, <1>4, <1>5, <1>6, <1>7, <1>8, <1>9, <1>10, <1>11, <1>12, <1>13
     DEF Next

LEMMA SliderComesBackStep ==
    TypeOK /\ OwnChangesOnly /\ SliderComesBack /\ [Next]_vars => SliderComesBack'
<1> SUFFICES ASSUME TypeOK, OwnChangesOnly, SliderComesBack, [Next]_vars,
                    ~unsaved', \A i \in 1..Len(stack') : Live(stack'[i]) => ~stack'[i].overtaken
             PROVE  /\ \A i \in 1..Len(stack') :
                          Live(stack'[i]) /\ (\A j \in 1..i - 1 : ~Live(stack'[j]))
                            => stack'[i].orig.opacity = file'.set.opacity
                    /\ (\A i \in 1..Len(stack') : ~Live(stack'[i])) /\ ~dead'
                            => cfg'.opacity = file'.set.opacity
  BY DEF SliderComesBack
<1> DEFINE Goal == /\ \A i \in 1..Len(stack') :
                          Live(stack'[i]) /\ (\A j \in 1..i - 1 : ~Live(stack'[j]))
                            => stack'[i].orig.opacity = file'.set.opacity
                   /\ (\A i \in 1..Len(stack') : ~Live(stack'[i])) /\ ~dead'
                            => cfg'.opacity = file'.set.opacity
<1>t. /\ cfg \in NormalSettings /\ file.set \in NormalSettings /\ hidden \in SUBSET Rows
      /\ file.hidden \in SUBSET Rows /\ Len(stack) \in Nat /\ unsaved \in BOOLEAN
      /\ \A i \in 1..Len(stack) : stack[i] \in Dialogs
  BY LenProperties, StackEntry DEF TypeOK
<1>h. ASSUME ~unsaved, \A i \in 1..Len(stack) : Live(stack[i]) => ~stack[i].overtaken
      PROVE  /\ \A i \in 1..Len(stack) : Live(stack[i]) => Undisturbed(stack[i])
             /\ \A i \in 1..Len(stack) :
                   Live(stack[i]) /\ (\A j \in 1..i - 1 : ~Live(stack[j]))
                     => stack[i].orig.opacity = file.set.opacity
             /\ (\A i \in 1..Len(stack) : ~Live(stack[i])) /\ ~dead
                     => cfg.opacity = file.set.opacity
  BY <1>h DEF SliderComesBack, Undisturbed
<1>0. ASSUME stack' = stack, cfg'.opacity = cfg.opacity, file' = file, unsaved' = unsaved, dead' = dead
      PROVE  Goal
  BY <1>0, <1>h
\* The change was saved and has overtaken the open dialogs.
<1>00. ASSUME cfg'.opacity = file'.set.opacity,
              \A i \in 1..Len(stack') : ~Live(stack'[i])
       PROVE  Goal
  BY <1>00
<1>1. CASE Restart
  <2>1. Loaded(file) \in NormalSettings /\ Loaded(file).opacity = file.set.opacity
    BY <1>t, LoadedNormal
  <2>2. cfg'.opacity = file'.set.opacity
    <3>1. CASE cfg' = Loaded(file)
      BY <1>1, <2>1, <3>1 DEF Restart
    <3>2. CASE cfg' # Loaded(file)
      <4>1. cfg' \in NormalSettings /\ file' = Contents(cfg', file.hidden)
        BY <1>1, <1>t, <2>1, <3>2, StaysNormal DEF Restart
      <4> QED
        BY <1>t, <4>1, ContentsType
    <3> QED
      BY <3>1, <3>2
  <2>3. \A i \in 1..Len(stack') : ~Live(stack'[i])
    BY <1>1 DEF Restart
  <2> QED
    BY <1>00, <2>2, <2>3
<1>2. CASE PinClicked
  <2>1. cfg' \in NormalSettings /\ file' = Contents(cfg', hidden)
    BY <1>2, <1>t, StaysNormal DEF PinClicked
  <2>2. file'.set = cfg'
    BY <1>t, <2>1, ContentsType
  <2>3. \A i \in 1..Len(stack') : ~Live(stack'[i])
    BY <1>2, <1>t, SettleDisturbs DEF PinClicked
  <2> QED
    BY <1>00, <2>2, <2>3
<1>3. CASE OpenSettings
  <2> DEFINE d == Dialog("settings", Normalize(cfg))
  <2>1. d \in Dialogs /\ d.orig = cfg /\ Live(d)
    BY <1>t, StaysNormal, NewDialog DEF Dialog, Live
  <2>2. /\ Len(stack') = Len(stack) + 1 /\ stack'[Len(stack) + 1] = d
        /\ \A j \in 1..Len(stack) : stack'[j] = stack[j]
    BY <1>3, <2>1, PushOnStack DEF OpenSettings
  <2>3. cfg' = cfg /\ file' = file /\ unsaved' = unsaved /\ dead' = dead /\ ~dead
    BY <1>3 DEF OpenSettings, memory, history
  <2> HIDE DEF d
  <2>4. \A i \in 1..Len(stack) : Live(stack[i]) => ~stack[i].overtaken
    BY <1>t, <2>2
  <2>5. ASSUME NEW i \in 1..Len(stack'), Live(stack'[i]), \A j \in 1..i - 1 : ~Live(stack'[j])
        PROVE  stack'[i].orig.opacity = file'.set.opacity
    <3>1. CASE i = Len(stack) + 1
      <4>1. \A j \in 1..Len(stack) : ~Live(stack[j])
        BY <1>t, <2>2, <2>5, <3>1
      <4> QED
        BY <1>h, <2>1, <2>2, <2>3, <2>4, <3>1, <4>1
    <3>2. CASE i \in 1..Len(stack)
      <4>1. Live(stack[i]) /\ \A j \in 1..i - 1 : ~Live(stack[j])
        BY <1>t, <2>2, <2>5, <3>2
      <4> QED
        BY <1>h, <2>2, <2>3, <2>4, <3>2, <4>1
    <3> QED
      BY <1>t, <2>2, <3>1, <3>2
  <2>6. ~ \A i \in 1..Len(stack') : ~Live(stack'[i])
    BY <1>t, <2>1, <2>2
  <2> QED
    BY <2>5, <2>6
<1>4. CASE Return
  <2> DEFINE n == Len(stack)
             d == stack[n]
  <2>1. /\ n \in 1..Len(stack) /\ n \in Nat /\ Len(stack') = n - 1 /\ ~unsaved /\ file' = file
        /\ dead' = dead /\ (Live(d) => Undisturbed(d))
    BY <1>4, ReturnCases
  <2>2. CASE PutBack(d) /\ Live(d) /\ \A i \in 1..n - 1 :
                           /\ stack'[i].orig = stack[i].orig
                           /\ Live(stack'[i]) <=> Live(stack[i])
                           /\ Live(stack'[i]) => stack'[i].overtaken
    <3>1. \A i \in 1..n - 1 : ~Live(stack'[i]) /\ ~Live(stack[i])
      BY <2>1, <2>2
    <3>2. \A i \in 1..Len(stack) : Live(stack[i]) => ~stack[i].overtaken
      BY <2>1, <3>1 DEF Undisturbed
    <3>3. d.orig.opacity = file.set.opacity
      BY <1>h, <2>1, <2>2, <3>1, <3>2
    <3>4. cfg' = d.orig
      BY <2>2 DEF PutBack
    <3> QED
      BY <1>00, <2>1, <3>1, <3>3, <3>4
  <2>3. CASE cfg' = cfg /\ (Live(d) => cfg = d.orig) /\ \A i \in 1..n - 1 : stack'[i] = stack[i]
    <3>1. \A i \in 1..Len(stack) : Live(stack[i]) => ~stack[i].overtaken
      BY <2>1, <2>3 DEF Undisturbed
    <3>2. ASSUME NEW i \in 1..Len(stack'), Live(stack'[i]), \A j \in 1..i - 1 : ~Live(stack'[j])
          PROVE  stack'[i].orig.opacity = file'.set.opacity
      <4>1. i \in 1..Len(stack) /\ Live(stack[i]) /\ \A j \in 1..i - 1 : ~Live(stack[j])
        BY <2>1, <2>3, <3>2
      <4> QED
        BY <1>h, <2>1, <2>3, <3>1, <4>1
    <3>3. ASSUME \A i \in 1..Len(stack') : ~Live(stack'[i]), ~dead'
          PROVE  cfg'.opacity = file'.set.opacity
      <4>1. \A i \in 1..n - 1 : ~Live(stack[i])
        BY <2>1, <2>3, <3>3
      <4>2. CASE Live(d)
        BY <1>h, <2>1, <2>3, <3>1, <4>1, <4>2
      <4>3. CASE ~Live(d)
        BY <1>h, <2>1, <2>3, <3>1, <3>3, <4>1, <4>3
      <4> QED
        BY <4>2, <4>3
    <3> QED
      BY <3>2, <3>3
  <2> QED
    BY <1>4, <2>2, <2>3, ReturnCases
<1>5. ASSUME NEW i \in 1..MaxOpen, NEW opacity \in Sliders, Preview(i, opacity)
      PROVE  Goal
  <2> DEFINE s == [stack[i] EXCEPT !.slider = opacity]
  <2>1. opacity \in 35..100 /\ i \in 1..Len(stack) /\ stack[i] \in Dialogs /\ Live(stack[i])
    BY <1>5, <1>t, SliderTypes DEF Preview, Open, Live
  <2>2. s \in Dialogs /\ s.orig = stack[i].orig /\ s.overtaken = stack[i].overtaken /\ Live(s)
    BY <2>1 DEF Dialogs, Live
  <2>3. Settle(i, s) /\ file' = file /\ unsaved' = unsaved
    BY <1>5 DEF Preview, history
  <2> HIDE DEF s
  <2> QED
    BY <1>h, <1>t, <2>1, <2>2, <2>3, SettleDisturbs
<1>6. ASSUME NEW i \in 1..MaxOpen, NEW c \in Choices, SaveNothing(i, c)
      PROVE  Goal
  <2>1. i \in 1..Len(stack) /\ stack[i] \in Dialogs /\ Live(stack[i])
    BY <1>6, <1>t DEF SaveNothing, Open, Live
  <2>2. /\ Len(stack') = Len(stack) /\ cfg' = cfg /\ file' = file /\ dead' = dead
        /\ \A j \in 1..Len(stack) : stack'[j] = IF j = i THEN Saved(stack[i]) ELSE stack[j]
    BY <1>6, <2>1, SavedDialog, ReplaceInStack DEF SaveNothing, memory
  <2>3. ~unsaved /\ ~stack[i].overtaken
    BY <1>6, <1>t, <2>1, DialogFields, Zenon DEF SaveNothing
  <2>4. \A j \in 1..Len(stack) : Live(stack[j]) => ~stack[j].overtaken
    BY <2>2, <2>3
  <2>5. cfg = stack[i].orig
    <3>1. stack[i].orig.opacity = stack[i].slider
      BY <1>6, EnteredType DEF SaveNothing
    <3> QED
      BY <1>6, <2>1, <2>3, <3>1, UndisturbedSame DEF OnlySlid, SaveNothing, Open, Undisturbed
  <2>6. ~Live(stack'[i])
    BY <2>1, <2>2, SavedDialog DEF Live
  <2>7. ASSUME NEW k \in 1..Len(stack), Live(stack'[k]), \A j \in 1..k - 1 : ~Live(stack'[j])
        PROVE  stack'[k].orig.opacity = file'.set.opacity
    <3>1. k # i /\ stack'[k] = stack[k] /\ Live(stack[k])
      BY <2>2, <2>6, <2>7
    <3>2. CASE i < k
      <4>1. \A j \in 1..i - 1 : ~Live(stack[j])
        BY <1>t, <2>1, <2>2, <2>7, <3>2
      <4>2. stack[i].orig.opacity = file.set.opacity
        BY <1>h, <2>1, <2>3, <2>4, <4>1
      <4>3. cfg = stack[k].orig
        <5>1. Undisturbed(stack[i]) /\ Undisturbed(stack[k]) /\ i \in 1..k - 1
          BY <1>t, <2>1, <2>3, <2>4, <3>1, <3>2 DEF Undisturbed
        <5> QED
          BY <5>1 DEF OwnChangesOnly
      <4> QED
        BY <2>2, <2>5, <3>1, <4>2, <4>3
    <3>3. CASE k < i
      <4>1. \A j \in 1..k - 1 : ~Live(stack[j])
        BY <1>t, <2>1, <2>2, <2>7, <3>3
      <4> QED
        BY <1>h, <2>2, <2>3, <2>4, <3>1, <4>1
    <3> QED
      BY <1>t, <2>1, <3>1, <3>2, <3>3
  <2>8. ASSUME \A j \in 1..Len(stack) : ~Live(stack'[j])
        PROVE  cfg'.opacity = file'.set.opacity
    <3>1. \A j \in 1..i - 1 : ~Live(stack[j])
      BY <1>t, <2>1, <2>2, <2>8
    <3> QED
      BY <1>h, <2>1, <2>2, <2>3, <2>4, <2>5, <3>1
  <2> QED
    BY <2>2, <2>7, <2>8
<1>7. ASSUME NEW i \in 1..MaxOpen, NEW c \in Choices, SaveSettings(i, c)
      PROVE  Goal
  <2>1. i \in 1..Len(stack) /\ Entered(i, c) \in NormalSettings
        /\ Saved(stack[i]) \in Dialogs /\ ~Live(Saved(stack[i]))
    BY <1>7, <1>t, SavedDialog, EnteredType DEF SaveSettings, Open, Live
  <2>2. cfg' \in NormalSettings /\ file' = Contents(cfg', hidden)
    BY <1>7, <2>1, StaysNormal DEF SaveSettings
  <2>3. file'.set = cfg'
    BY <1>t, <2>2, ContentsType
  <2>4. \A j \in 1..Len(stack') : ~Live(stack'[j])
    BY <1>7, <1>t, <2>1, SettleDisturbs DEF SaveSettings
  <2> QED
    BY <1>00, <2>3, <2>4
<1>8. ASSUME NEW i \in 1..MaxOpen, NEW c \in Choices, SaveFails(i, c)
      PROVE  Goal
  <2>1. i \in 1..Len(stack) /\ stack[i] \in Dialogs /\ Live(stack[i])
    BY <1>8, <1>t DEF SaveFails, Open, Live
  <2>2. ~unsaved /\ ~stack[i].overtaken /\ file' = file
    BY <1>8, <1>t, <2>1, DialogFields, Zenon DEF SaveFails
  <2> QED
    BY <1>8, <1>h, <1>t, <2>1, <2>2, SettleDisturbs DEF SaveFails
<1>9. ASSUME NEW i \in 1..MaxOpen, CancelDialog(i)
      PROVE  Goal
  <2>1. cfg' = cfg /\ file' = file /\ unsaved' = unsaved /\ dead' = dead
    BY <1>9 DEF CancelDialog, memory, history
  <2>2. /\ Len(stack') = Len(stack)
        /\ \A j \in 1..Len(stack) : /\ Live(stack'[j]) <=> Live(stack[j])
                                    /\ Live(stack[j]) => /\ stack'[j].orig = stack[j].orig
                                                         /\ stack'[j].overtaken = stack[j].overtaken
    BY <1>9, CancelStack
  <2>3. \A j \in 1..Len(stack) : Live(stack[j]) => ~stack[j].overtaken
    BY <2>2
  <2> QED
    BY <1>h, <1>t, <2>1, <2>2, <2>3
<1>10. ASSUME NEW i \in 1..MaxOpen, NEW rows \in SUBSET Rows, SaveRows(i, rows)
       PROVE  Goal
  <2>1. i \in 1..Len(stack) /\ Saved(stack[i]) \in Dialogs /\ ~Live(Saved(stack[i]))
        /\ ~Live(stack[i])
    BY <1>10, <1>t, SavedDialog DEF SaveRows, Open, Live
  <2>2. \A j \in 1..Len(stack) : ~Live(stack'[j]) /\ ~Live(stack[j])
    BY <1>10, <1>t, <2>1, SettleDisturbs DEF SaveRows
  <2>3. Len(stack') = Len(stack) /\ cfg' = cfg /\ dead' = dead
    BY <1>10, <1>t, <2>1, SettleDisturbs DEF SaveRows
  <2>4. CASE file' = Contents(cfg, rows)
    <3>1. file'.set = cfg
      BY <1>t, <2>4, ContentsType
    <3> QED
      BY <1>00, <2>2, <2>3, <3>1
  <2>5. CASE file' = file /\ unsaved' = unsaved
    BY <1>h, <2>2, <2>3, <2>5
  <2> QED
    BY <1>10, <2>4, <2>5 DEF SaveRows
<1>11. CASE OpenPicker
  <2>1. cfg' = cfg /\ file' = file /\ unsaved' = unsaved
    BY <1>11 DEF OpenPicker, history
  <2>2. CASE stack' = Append(stack, Picker) /\ dead' = dead
    <3>1. ~Live(Picker)
      BY Zenon DEF Picker, Dialog, Live
    <3>2. /\ Len(stack') = Len(stack) + 1 /\ stack'[Len(stack) + 1] = Picker
          /\ \A j \in 1..Len(stack) : stack'[j] = stack[j]
      BY <2>2, PickerType, PushOnStack
    <3> QED
      BY <1>h, <1>t, <2>1, <2>2, <3>1, <3>2
  <2>3. CASE stack' = <<>> /\ dead' = TRUE
    BY <2>3
  <2> QED
    BY <1>11, <2>2, <2>3 DEF OpenPicker
<1>12. CASE CopyBegins \/ CopyEnds
  BY <1>12, <1>0 DEF CopyBegins, CopyEnds, memory, history
<1>13. CASE UNCHANGED vars
  BY <1>13, <1>0 DEF vars, memory, history
<1> QED
  BY <1>1, <1>2, <1>3, <1>4, <1>5, <1>6, <1>7, <1>8, <1>9, <1>10, <1>11, <1>12, <1>13
     DEF Next

LEMMA RowsSurviveStep == TypeOK /\ RowsSurvive /\ [Next]_vars => RowsSurvive'
<1> SUFFICES ASSUME TypeOK, RowsSurvive, [Next]_vars PROVE RowsSurvive'
  OBVIOUS
<1>t. /\ cfg \in NormalSettings /\ file.set \in NormalSettings /\ hidden \in SUBSET Rows
      /\ file.hidden \in SUBSET Rows
  BY DEF TypeOK
<1>0. ASSUME UNCHANGED <<hidden, file, rowsLost>> PROVE RowsSurvive'
  BY <1>0 DEF RowsSurvive
<1>00. ASSUME NEW c \in NormalSettings, hidden' \in SUBSET Rows, file' = Contents(c, hidden')
       PROVE  RowsSurvive'
  BY <1>00, ContentsType DEF RowsSurvive
<1>1. CASE Restart
  <2>1. hidden' = file.hidden /\ (file' = file \/ file' = Contents(cfg', file.hidden))
    BY <1>1 DEF Restart
  <2>2. cfg' \in NormalSettings
    BY <1>1, <1>t, LoadedNormal, StaysNormal DEF Restart
  <2> QED
    BY <1>t, <2>1, <2>2, ContentsType DEF RowsSurvive
<1>2. CASE PinClicked
  <2>1. cfg' \in NormalSettings /\ hidden' = hidden
    BY <1>2, <1>t, StaysNormal DEF PinClicked
  <2>2. file' = Contents(cfg', hidden) \/ UNCHANGED <<file, rowsLost>>
    BY <1>2 DEF PinClicked
  <2> QED
    BY <1>0, <1>00, <1>t, <2>1, <2>2
<1>3. CASE OpenSettings
  BY <1>3, <1>0 DEF OpenSettings, memory, history
<1>4. CASE Return
  BY <1>4, <1>0 DEF Return
<1>5. ASSUME NEW i \in 1..MaxOpen, NEW opacity \in Sliders, Preview(i, opacity)
      PROVE  RowsSurvive'
  BY <1>5, <1>0 DEF Preview, history
<1>6. ASSUME NEW i \in 1..MaxOpen, NEW c \in Choices, SaveNothing(i, c)
      PROVE  RowsSurvive'
  BY <1>6, <1>0 DEF SaveNothing, memory
<1>7. ASSUME NEW i \in 1..MaxOpen, NEW c \in Choices, SaveSettings(i, c)
      PROVE  RowsSurvive'
  <2>1. Entered(i, c) \in NormalSettings /\ cfg' \in NormalSettings /\ hidden' = hidden
    BY <1>7, EnteredType, StaysNormal DEF SaveSettings
  <2>2. file' = Contents(cfg', hidden) \/ file' = Contents(Entered(i, c), hidden)
    BY <1>7 DEF SaveSettings
  <2> QED
    BY <1>00, <1>t, <2>1, <2>2
<1>8. ASSUME NEW i \in 1..MaxOpen, NEW c \in Choices, SaveFails(i, c)
      PROVE  RowsSurvive'
  BY <1>8, <1>0 DEF SaveFails
<1>9. ASSUME NEW i \in 1..MaxOpen, CancelDialog(i)
      PROVE  RowsSurvive'
  BY <1>9, <1>0 DEF CancelDialog, memory, history
<1>10. ASSUME NEW i \in 1..MaxOpen, NEW rows \in SUBSET Rows, SaveRows(i, rows)
       PROVE  RowsSurvive'
  <2>1. file' = Contents(cfg, hidden') \/ rowsLost' = TRUE
    BY <1>10 DEF SaveRows
  <2>2. hidden' \in SUBSET Rows
    BY <1>10 DEF SaveRows
  <2> QED
    BY <1>00, <1>t, <2>1, <2>2 DEF RowsSurvive
<1>11. CASE OpenPicker
  BY <1>11, <1>0 DEF OpenPicker, history
<1>12. CASE CopyBegins \/ CopyEnds
  BY <1>12, <1>0 DEF CopyBegins, CopyEnds, memory, history
<1>13. CASE UNCHANGED vars
  BY <1>13, <1>0 DEF vars, memory, history
<1> QED
  BY <1>1, <1>2, <1>3, <1>4, <1>5, <1>6, <1>7, <1>8, <1>9, <1>10, <1>11, <1>12, <1>13
     DEF Next

LEMMA WindowStep ==
    TypeOK /\ OwnChangesOnly /\ WindowAsConfigured /\ [Next]_vars => WindowAsConfigured'
<1> SUFFICES ASSUME TypeOK, OwnChangesOnly, WindowAsConfigured, [Next]_vars, ~late'
             PROVE  docked' = Docking(cfg') /\ alpha' = Alpha(cfg')
  BY DEF WindowAsConfigured
<1> DEFINE Goal == docked' = Docking(cfg') /\ alpha' = Alpha(cfg')
<1>t. /\ cfg \in NormalSettings /\ late \in BOOLEAN
      /\ \A i \in 1..Len(stack) : stack[i] \in Dialogs
  BY StackEntry DEF TypeOK
<1>w. ~late => docked = Docking(cfg) /\ alpha = Alpha(cfg)
  BY DEF WindowAsConfigured
<1>0. ASSUME UNCHANGED <<cfg, docked, alpha, late>> PROVE Goal
  BY <1>0, <1>w
<1>1. CASE Restart
  BY <1>1 DEF Restart
<1>2. CASE PinClicked
  BY <1>2 DEF PinClicked
<1>3. CASE OpenSettings
  BY <1>3, <1>0 DEF OpenSettings, memory, window, history
<1>4. CASE Return
  <2> DEFINE d == stack[Len(stack)]
  <2>1. CASE PutBack(d)
    <3>1. cfg' = d.orig
      BY <2>1 DEF PutBack
    <3>2. CASE Docking(cfg) # Docking(d.orig)
      BY <2>1, <3>2 DEF PutBack
    <3>3. CASE Docking(cfg) = Docking(d.orig)
      <4>1. ~late /\ docked' = docked
        BY <2>1, <3>3, Zenon DEF PutBack
      <4>2. cfg.mode = d.orig.mode
        BY <3>3, DockingFields
      <4>3. alpha' = Alpha(cfg')
        <5>1. CASE cfg.opacity # d.orig.opacity
          BY <2>1, <5>1 DEF PutBack
        <5>2. CASE cfg.opacity = d.orig.opacity
          <6>1. alpha' = alpha
            BY <2>1, <3>3, <5>2 DEF PutBack
          <6> QED
            BY <1>w, <3>1, <4>1, <4>2, <5>2, <6>1 DEF Alpha
        <5> QED
          BY <5>1, <5>2
      <4> QED
        BY <1>w, <3>1, <3>3, <4>1, <4>3
    <3> QED
      BY <3>2, <3>3
  <2>2. CASE UNCHANGED <<cfg, window, late, pin>>
    BY <2>2, <1>0 DEF window
  <2> QED
    BY <1>4, <2>1, <2>2, ReturnCases
<1>5. ASSUME NEW i \in 1..MaxOpen, NEW opacity \in Sliders, Preview(i, opacity)
      PROVE  Goal
  <2>1. cfg' = [cfg EXCEPT !.opacity = opacity] /\ alpha' = Alpha(cfg')
        /\ docked' = docked /\ late' = late
    BY <1>5 DEF Preview, history
  <2>2. cfg'.mode = cfg.mode /\ cfg'.edge = cfg.edge /\ cfg'.auto = cfg.auto
    BY <1>t, <2>1, Normal
  <2>3. Docking(cfg') = Docking(cfg)
    BY <2>2 DEF Docking
  <2> QED
    BY <1>w, <2>1, <2>3
<1>6. ASSUME NEW i \in 1..MaxOpen, NEW c \in Choices, SaveNothing(i, c)
      PROVE  Goal
  BY <1>6, <1>0 DEF SaveNothing, memory, window
<1>7. ASSUME NEW i \in 1..MaxOpen, NEW c \in Choices, SaveSettings(i, c)
      PROVE  Goal
  <2> DEFINE d == stack[i]
             next == Entered(i, c)
  <2>1. i \in 1..Len(stack) /\ d.state = "open" /\ d.kind = "settings" /\ next.opacity = d.slider
    BY <1>7, EnteredType DEF SaveSettings, Open
  <2>2. CASE Docking(next) # Docking(d.orig)
    BY <1>7, <2>2 DEF SaveSettings
  <2>3. CASE Docking(next) = Docking(d.orig)
    <3>1. cfg' = next /\ docked' = docked
      BY <1>7, <2>3 DEF SaveSettings
    <3>2. ~late /\ ~d.overtaken
      BY <1>7, <2>3, Zenon DEF SaveSettings
    <3>3. OnlySlid(cfg, d)
      BY <2>1, <3>2 DEF OwnChangesOnly, Undisturbed, Live
    <3>4. Docking(cfg) = Docking(d.orig)
      BY <3>3 DEF OnlySlid, SameRest, Docking
    <3>5. alpha' = Alpha(cfg')
      <4>1. CASE next.opacity # d.orig.opacity
        BY <1>7, <4>1 DEF SaveSettings
      <4>2. CASE next.opacity = d.orig.opacity
        <5>1. cfg = d.orig /\ alpha' = alpha
          BY <1>7, <2>1, <2>3, <3>3, <4>2 DEF OnlySlid, SaveSettings
        <5>2. next.mode = d.orig.mode
          BY <2>3, DockingFields
        <5> QED
          BY <1>w, <3>1, <3>2, <4>2, <5>1, <5>2 DEF Alpha
      <4> QED
        BY <4>1, <4>2
    <3> QED
      BY <1>w, <2>3, <3>1, <3>2, <3>4, <3>5
  <2> QED
    BY <2>2, <2>3
<1>8. ASSUME NEW i \in 1..MaxOpen, NEW c \in Choices, SaveFails(i, c)
      PROVE  Goal
  <2>1. i \in 1..Len(stack) /\ stack[i].state = "open" /\ stack[i].kind = "settings"
        /\ cfg' = stack[i].orig /\ docked' = docked /\ alpha' = alpha
    BY <1>8 DEF SaveFails, Open, window
  <2>2. ~late /\ ~stack[i].overtaken /\ stack[i].slider = stack[i].orig.opacity
    BY <1>8, Zenon DEF SaveFails
  <2>3. cfg = stack[i].orig
    BY <2>1, <2>2 DEF OwnChangesOnly, OnlySlid, Undisturbed, Live
  <2> QED
    BY <1>w, <2>1, <2>2, <2>3
<1>9. ASSUME NEW i \in 1..MaxOpen, CancelDialog(i)
      PROVE  Goal
  BY <1>9, <1>0 DEF CancelDialog, memory, window, history
<1>10. ASSUME NEW i \in 1..MaxOpen, NEW rows \in SUBSET Rows, SaveRows(i, rows)
       PROVE  Goal
  BY <1>10, <1>0 DEF SaveRows, window
<1>11. CASE OpenPicker
  BY <1>11, <1>0 DEF OpenPicker, window, history
<1>12. CASE CopyBegins \/ CopyEnds
  BY <1>12, <1>0 DEF CopyBegins, CopyEnds, memory, window, history
<1>13. CASE UNCHANGED vars
  BY <1>13, <1>0 DEF vars, memory, window, history
<1> QED
  BY <1>1, <1>2, <1>3, <1>4, <1>5, <1>6, <1>7, <1>8, <1>9, <1>10, <1>11, <1>12, <1>13
     DEF Next

LEMMA PinStandsStep ==
    TypeOK /\ OwnChangesOnly /\ ReservedFixed /\ SavedButSlider /\ PinStands /\ [Next]_vars
      => PinStands'
<1> SUFFICES ASSUME TypeOK, OwnChangesOnly, ReservedFixed, SavedButSlider, PinStands,
                    [Next]_vars
             PROVE  PinStands'
  OBVIOUS
<1>t. /\ cfg \in NormalSettings /\ file.set \in NormalSettings
      /\ \A i \in 1..Len(stack) : stack[i] \in Dialogs
  BY StackEntry DEF TypeOK
\* An undisturbed dialog says what the settings in use say.
<1>0. ASSUME pin' = pin, cfg'.auto = cfg.auto PROVE PinStands'
  BY <1>0 DEF PinStands, Word
<1>s. ASSUME NEW i \in 1..Len(stack), Live(stack[i]), ~stack[i].overtaken
      PROVE  cfg.auto = stack[i].orig.auto
  BY <1>s DEF OwnChangesOnly, OnlySlid, SameRest, Undisturbed
<1>1. CASE Restart
  <2>1. CASE unsaved
    BY <1>1, <2>1 DEF Restart, PinStands
  <2>2. CASE ~unsaved
    <3>1. cfg.mode = file.set.mode /\ cfg.auto = file.set.auto
      BY <2>2 DEF SavedButSlider, SameRest
    <3>2. /\ Loaded(file) \in NormalSettings
          /\ Loaded(file).mode = file.set.mode /\ Loaded(file).auto = file.set.auto
      BY <1>t, LoadedNormal
    <3>3. NeverSlides(Loaded(file))
      BY <3>1, <3>2, Zenon DEF ReservedFixed, NeverSlides
    <3>4. cfg' = Loaded(file)
      BY <1>1, <3>2, <3>3, FixedNeverSlides DEF Restart
    <3>5. pin' = pin /\ cfg'.auto = cfg.auto
      BY <1>1, <2>2, <3>1, <3>2, <3>4, Zenon DEF Restart
    <3> QED
      BY <1>0, <3>5
  <2> QED
    BY <2>1, <2>2
<1>2. CASE PinClicked
  BY <1>2 DEF PinClicked, PinStands
<1>3. CASE OpenSettings
  BY <1>3, <1>0 DEF OpenSettings, memory, history
<1>4. CASE Return
  <2> DEFINE d == stack[Len(stack)]
  <2>1. CASE PutBack(d) /\ Live(d)
    <3>1. CASE d.overtaken
      BY <2>1, <3>1 DEF PutBack, PinStands
    <3>2. CASE ~d.overtaken
      <4>1. cfg.auto = d.orig.auto
        BY <1>4, <1>s, <2>1, <3>2, ReturnCases
      <4>2. pin' = pin /\ cfg' = d.orig
        BY <2>1, <3>2 DEF PutBack
      <4> QED
        BY <1>0, <4>1, <4>2
    <3> QED
      BY <3>1, <3>2
  <2>2. CASE UNCHANGED <<cfg, window, late, pin>>
    BY <1>0, <2>2
  <2> QED
    BY <1>4, <2>1, <2>2, ReturnCases
<1>5. ASSUME NEW i \in 1..MaxOpen, NEW opacity \in Sliders, Preview(i, opacity)
      PROVE  PinStands'
  <2>1. cfg' = [cfg EXCEPT !.opacity = opacity] /\ pin' = pin
    BY <1>5 DEF Preview, history
  <2> QED
    BY <1>0, <1>t, <2>1, Normal
<1>6. ASSUME NEW i \in 1..MaxOpen, NEW c \in Choices, SaveNothing(i, c)
      PROVE  PinStands'
  BY <1>6, <1>0 DEF SaveNothing, memory
<1>7. ASSUME NEW i \in 1..MaxOpen, NEW c \in Choices, SaveSettings(i, c)
      PROVE  PinStands'
  <2> DEFINE d == stack[i]
  <2>1. i \in 1..Len(stack) /\ Live(d)
    BY <1>7 DEF SaveSettings, Open, Live
  <2>2. pin' = IF cfg'.auto # d.orig.auto THEN Word(cfg')
               ELSE IF d.overtaken THEN "unclear" ELSE pin
    BY <1>7 DEF SaveSettings
  <2>3. CASE cfg'.auto # d.orig.auto
    BY <2>2, <2>3 DEF PinStands
  <2>4. CASE cfg'.auto = d.orig.auto /\ d.overtaken
    BY <2>2, <2>4 DEF PinStands
  <2>5. CASE cfg'.auto = d.orig.auto /\ ~d.overtaken
    <3>1. pin' = pin
      BY <2>2, <2>5, Zenon
    <3>2. cfg.auto = d.orig.auto
      BY <1>s, <2>1, <2>5
    <3>3. cfg'.auto = cfg.auto
      BY <2>5, <3>2, Zenon
    <3> QED
      BY <1>0, <3>1, <3>3
  <2> QED
    BY <2>3, <2>4, <2>5
<1>8. ASSUME NEW i \in 1..MaxOpen, NEW c \in Choices, SaveFails(i, c)
      PROVE  PinStands'
  <2>1. i \in 1..Len(stack) /\ Live(stack[i]) /\ cfg' = stack[i].orig
    BY <1>8 DEF SaveFails, Open, Live
  <2>2. CASE stack[i].overtaken
    BY <1>8, <2>2 DEF SaveFails, PinStands
  <2>3. CASE ~stack[i].overtaken
    <3>1. cfg.auto = stack[i].orig.auto
      BY <1>s, <2>1, <2>3
    <3>2. pin' = pin
      BY <1>8, <2>3 DEF SaveFails
    <3> QED
      BY <1>0, <2>1, <3>1, <3>2
  <2> QED
    BY <2>2, <2>3
<1>9. ASSUME NEW i \in 1..MaxOpen, CancelDialog(i)
      PROVE  PinStands'
  BY <1>9, <1>0 DEF CancelDialog, memory, history
<1>10. ASSUME NEW i \in 1..MaxOpen, NEW rows \in SUBSET Rows, SaveRows(i, rows)
       PROVE  PinStands'
  BY <1>10, <1>0 DEF SaveRows
<1>11. CASE OpenPicker
  BY <1>11, <1>0 DEF OpenPicker, history
<1>12. CASE CopyBegins \/ CopyEnds
  BY <1>12, <1>0 DEF CopyBegins, CopyEnds, memory, history
<1>13. CASE UNCHANGED vars
  BY <1>13, <1>0 DEF vars, memory, history
<1> QED
  BY <1>1, <1>2, <1>3, <1>4, <1>5, <1>6, <1>7, <1>8, <1>9, <1>10, <1>11, <1>12, <1>13
     DEF Next

-----------------------------------------------------------------------------
(* The invariants *)

Inv ==
    /\ TypeOK
    /\ OwnChangesOnly /\ ReservedFixed /\ SavedButSlider /\ SliderComesBack
    /\ RowsSurvive /\ WindowAsConfigured /\ PinStands

LEMMA InvInit == Init => Inv
<1> SUFFICES ASSUME Init PROVE Inv
  OBVIOUS
<1>1. TypeOK
  BY TypeInit
<1>2. cfg \in NormalSettings /\ hidden = {} /\ file = Contents(cfg, hidden)
  BY <1>1 DEF Init, TypeOK
<1>3. file.set = cfg /\ file.hidden = hidden
  BY <1>2, ContentsType
<1>4. 1..Len(stack) = {}
  BY EmptySeq DEF Init
<1>5. NeverSlides(cfg)
  <2>1. PICK c \in Choices : cfg = Fixed(Normalize(c))
    BY DEF Init
  <2>2. Normalize(c) \in NormalSettings
    BY DialogAssumption, NormalizeMakesNormal
  <2> QED
    BY <2>1, <2>2, FixedNeverSlides
<1>6. OwnChangesOnly /\ ReservedFixed
  BY <1>4, <1>5 DEF OwnChangesOnly, ReservedFixed
<1>7. SavedButSlider /\ SliderComesBack
  BY <1>3, <1>4 DEF SavedButSlider, SliderComesBack, SameRest
<1>8. RowsSurvive /\ WindowAsConfigured /\ PinStands
  BY <1>3 DEF Init, RowsSurvive, WindowAsConfigured, PinStands
<1> QED
  BY <1>1, <1>6, <1>7, <1>8 DEF Inv

LEMMA InvStep == Inv /\ [Next]_vars => Inv'
BY TypeStep, OwnChangesStep, ReservedFixedStep, SavedButSliderStep, SliderComesBackStep,
   RowsSurviveStep, WindowStep, PinStandsStep DEF Inv

LEMMA Invariance == Spec => []Inv
BY InvInit, InvStep, PTL DEF Spec

LEMMA InvIsMemoryIsFile == Inv => MemoryIsFile
<1> SUFFICES ASSUME Inv, stack = <<>>, ~unsaved, ~dead
             PROVE  cfg = [file.set EXCEPT !.every = cfg.every]
  BY DEF MemoryIsFile
<1> DEFINE saved == [file.set EXCEPT !.every = cfg.every]
<1>1. cfg \in NormalSettings /\ file.set \in NormalSettings
  BY DEF Inv, TypeOK
<1>2. 1..Len(stack) = {}
  BY EmptySeq
<1>3. SameRest(cfg, file.set) /\ cfg.opacity = file.set.opacity
  BY <1>2 DEF Inv, SavedButSlider, SliderComesBack
<1>4. saved \in NormalSettings
  BY <1>1, Normal, ChangedField
<1>5. SameRest(cfg, saved) /\ saved.opacity = cfg.opacity /\ saved.every = cfg.every
  BY <1>1, <1>3, Normal DEF SameRest
<1> HIDE DEF saved
<1>6. cfg = saved
  BY <1>1, <1>4, <1>5, SameSettings
<1> QED
  BY <1>6 DEF saved

\* The rows the user hid are those in settings.json, whatever settings the other
\* dialogs put back over them, unless the save of the rows failed.
THEOREM HiddenRowsSurvive == Spec => []RowsSurvive
<1>1. Inv => RowsSurvive
  BY DEF Inv
<1> QED
  BY <1>1, Invariance, PTL

\* Whatever dialogs were open and however they ended, a restart finds the
\* settings in use, the interval excepted and the opacity of a cancelled preview
\* included, unless a save failed or an overtaken dialog put older ones back.
THEOREM RestartFindsSettings == Spec => []MemoryIsFile
BY InvIsMemoryIsFile, Invariance, PTL

\* The window is docked and as transparent as a.cfg says although handlers apply
\* only what differs from the settings their dialog was opened with.
THEOREM WindowFollowsSettings == Spec => []WindowAsConfigured
<1>1. Inv => WindowAsConfigured
  BY DEF Inv
<1> QED
  BY <1>1, Invariance, PTL

\* Neither a dialog that is cancelled nor a restart forgets what the pin said.
THEOREM PinKeepsItsWord == Spec => []PinStands
<1>1. Inv => PinStands
  BY DEF Inv
<1> QED
  BY <1>1, Invariance, PTL
=============================================================================
