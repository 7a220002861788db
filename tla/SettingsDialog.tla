--------------------------- MODULE SettingsDialog ---------------------------
(***************************************************************************)
(* internal/ui/app.go: who changes the settings in memory, settings.json   *)
(* and the window they describe.                                           *)
(*                                                                         *)
(* Everything here runs on the UI thread except the copies that            *)
(* refreshes take.  A dialog's Run is a message loop inside the handler    *)
(* that opened it, so the pin, the tray menu and other dialogs' buttons    *)
(* work while it is open, and what follows Run waits until every dialog    *)
(* opened later has ended: the open dialogs form a stack.                  *)
(*                                                                         *)
(* The handlers are one step each.  All copies of the settings share one   *)
(* map of hidden rows, so it is one variable.  The message boxes after a   *)
(* failed save or a failed change of the startup entry are left out.       *)
(***************************************************************************)
EXTENDS Settings, Sequences

CONSTANTS
    Choices,      \* settings the user may enter, and the files to start from
    Rows,         \* rows of the card whose picker is opened
    FlagSeconds,  \* -RefreshSeconds, or its default
    MaxOpen       \* bound: dialogs open at once

ASSUME DialogAssumption ==
    /\ Choices \subseteq RawSettings
    /\ FlagSeconds \in Int
    /\ MaxOpen \in Nat

VARIABLES
    cfg,       \* a.cfg without the hidden rows
    hidden,    \* the hidden rows, in the map all copies share
    file,      \* settings.json
    stack,     \* the dialogs whose Run has not returned, innermost last
    docked,    \* mode, edge and autoHide of the last applyDock
    alpha,     \* the window's opacity
    copying,   \* a goroutine is inside snapshotCfg and holds a.mu
    dead,      \* the Go runtime has seen the map written while it was copied
    unsaved,   \* history: a save failed, or an overtaken dialog put back older
               \* settings; nothing has been saved since
    rowsLost,  \* history: the save of the hidden rows failed, none followed
    late,      \* history: since the last applyDock an overtaken dialog or a
               \* failed save changed the settings
    pin        \* history: the user's last word on autoHide, "unclear" once an
               \* overtaken dialog or a restart after a failed save had its own

memory  == <<cfg, hidden>>
window  == <<docked, alpha>>
history == <<unsaved, rowsLost, late, pin>>
vars    == <<memory, file, stack, window, copying, dead, history>>

-----------------------------------------------------------------------------
(* Data *)

Dialog(kind, orig) ==
    [kind |-> kind, orig |-> orig, slider |-> orig.opacity,
     state |-> "open", overtaken |-> FALSE]
Picker == Dialog("picker", Defaults)  \* keeps no settings

\* The settings changed while d was open.
Overtaken(d) == [d EXCEPT !.overtaken = (d.kind = "settings")]

\* d is over and puts nothing back.
Saved(d) == [Dialog(d.kind, Defaults) EXCEPT !.state = "saved"]

Docking(c) == [mode |-> c.mode, edge |-> c.edge, auto |-> c.auto]
Alpha(c)   == IF c.mode = "overlay" THEN c.opacity ELSE 100

Word(c)    == IF c.auto THEN "slides" ELSE "stays"

\* The reserved dock is always fixed.
Fixed(c) == IF c.mode = "reserved" THEN [c EXCEPT !.auto = FALSE] ELSE c

Contents(c, rows) == [set |-> Normalize(c), hidden |-> rows]

Open(i, kind) ==
    /\ i \in 1..Len(stack)
    /\ stack[i].kind = kind
    /\ stack[i].state = "open"

\* Dialog d settles as s while the settings change under every other one.
\* d = 0: no dialog did it.
Settle(d, s) ==
    stack' = [i \in 1..Len(stack) |->
                IF i = d THEN s ELSE Overtaken(stack[i])]

\* The locked parts of the handlers wait for snapshotCfg.
Unlocked == ~copying

-----------------------------------------------------------------------------
(* Starting *)

\* Run: the flag replaces the saved interval.
Loaded(f) ==
    LET c == Normalize(f.set) IN
    IF FlagSeconds >= 5 THEN [c EXCEPT !.every = FlagSeconds] ELSE c

\* The program after a save, before anybody hid a row.
Init ==
    /\ \E c \in Choices : cfg = Fixed(Normalize(c))
    /\ hidden = {}
    /\ file = Contents(cfg, hidden)
    /\ stack = <<>>
    /\ docked = Docking(cfg) /\ alpha = Alpha(cfg)
    /\ copying = FALSE /\ dead = FALSE
    /\ unsaved = FALSE /\ rowsLost = FALSE /\ late = FALSE
    /\ pin = Word(cfg)

\* The process ends, at any time, and is started again.  In createWindow,
\* applyDock fixes a reserved dock and saves, which may fail.
Restart ==
    /\ cfg' = Fixed(Loaded(file))
    /\ hidden' = file.hidden
    /\ \/ file' = file
       \/ cfg' # Loaded(file) /\ file' = Contents(cfg', file.hidden)
    /\ unsaved' = (cfg' # Loaded(file) /\ file' = file)
    /\ stack' = <<>>
    /\ docked' = Docking(cfg') /\ alpha' = Alpha(cfg')
    /\ copying' = FALSE /\ dead' = FALSE
    /\ rowsLost' = FALSE /\ late' = FALSE
    /\ pin' = IF unsaved THEN "unclear" ELSE pin

-----------------------------------------------------------------------------
(* The pin *)

\* Mutant of PinClicked: the pin is not saved.
PinClickedUnsaved ==
    /\ Unlocked
    /\ cfg.mode = "overlay"
    /\ \A i \in 1..Len(stack) : ~Open(i, "picker")
    /\ cfg' = [cfg EXCEPT !.auto = ~@]
    /\ docked' = Docking(cfg') /\ alpha' = Alpha(cfg') /\ late' = FALSE
    /\ Settle(0, 0)
    /\ pin' = Word(cfg')
    /\ UNCHANGED <<hidden, file, copying, dead, unsaved, rowsLost>>

\* handleMouseDown on the pin, which is painted in overlay mode only.  The
\* picker is modal to the dock, the settings dialog is not.
PinClicked ==
    /\ Unlocked
    /\ cfg.mode = "overlay"
    /\ \A i \in 1..Len(stack) : ~Open(i, "picker")
    /\ cfg' = [cfg EXCEPT !.auto = ~@]
    /\ \/ file' = Contents(cfg', hidden) /\ unsaved' = FALSE /\ rowsLost' = FALSE
       \/ UNCHANGED <<file, rowsLost>> /\ unsaved' = TRUE
    /\ docked' = Docking(cfg') /\ alpha' = Alpha(cfg') /\ late' = FALSE
    /\ Settle(0, 0)
    /\ pin' = Word(cfg')
    /\ UNCHANGED <<hidden, copying, dead>>

-----------------------------------------------------------------------------
(* The settings dialog *)

OpenSettings ==
    /\ ~dead
    /\ Len(stack) < MaxOpen
    /\ stack' = Append(stack, Dialog("settings", Normalize(cfg)))
    /\ UNCHANGED <<memory, file, window, copying, dead, history>>

\* The slider of dialog i is moved.
Preview(i, opacity) ==
    /\ Open(i, "settings")
    /\ Unlocked
    /\ opacity # stack[i].slider
    /\ cfg' = [cfg EXCEPT !.opacity = opacity]
    /\ alpha' = Alpha(cfg')
    /\ Settle(i, [stack[i] EXCEPT !.slider = opacity])
    /\ UNCHANGED <<hidden, file, docked, copying, dead, history>>

\* What the controls of dialog i say, with c for all but the slider.
Entered(i, c) == Normalize([c EXCEPT !.opacity = stack[i].slider])

SaveNothing(i, c) ==
    /\ Open(i, "settings")
    /\ Entered(i, c) = stack[i].orig
    /\ stack' = [stack EXCEPT ![i] = Saved(@)]
    /\ unsaved' = (unsaved \/ stack[i].overtaken)
    /\ UNCHANGED <<memory, file, window, copying, dead, rowsLost, late, pin>>

\* Save in dialog i when the file can be written.  What has to be applied is
\* judged by the settings the dialog was opened with.  applyDock may save again.
SaveSettings(i, c) ==
    LET d == stack[i]
        next == Entered(i, c)
        dockChanged == Docking(next) # Docking(d.orig)
        opacityChanged == next.opacity # d.orig.opacity
    IN  /\ Open(i, "settings")
        /\ Unlocked
        /\ next # d.orig
        /\ cfg' = IF dockChanged THEN Fixed(next) ELSE next
        /\ \/ file' = Contents(cfg', hidden) /\ unsaved' = FALSE
           \/ /\ cfg' # next
              /\ file' = Contents(next, hidden) /\ unsaved' = TRUE
        /\ rowsLost' = FALSE
        /\ docked' = IF dockChanged THEN Docking(cfg') ELSE docked
        /\ alpha' = IF dockChanged \/ opacityChanged THEN Alpha(cfg') ELSE alpha
        /\ late' = (~dockChanged /\ (late \/ d.overtaken))
        /\ Settle(i, Saved(d))
        /\ pin' = IF cfg'.auto # d.orig.auto THEN Word(cfg')
                  ELSE IF d.overtaken THEN "unclear"
                  ELSE pin
        /\ UNCHANGED <<hidden, copying, dead>>

\* Save in dialog i when the file cannot be written: the dialog stays open.
SaveFails(i, c) ==
    LET d == stack[i] IN
    /\ Open(i, "settings")
    /\ Unlocked
    /\ Entered(i, c) # d.orig
    /\ cfg' = d.orig
    /\ unsaved' = (unsaved \/ d.overtaken)
    /\ late' = (late \/ d.overtaken \/ d.slider # d.orig.opacity)
    /\ pin' = IF d.overtaken THEN "unclear" ELSE pin
    /\ Settle(i, d)
    /\ UNCHANGED <<hidden, file, window, copying, dead, rowsLost>>

CancelDialog(i) ==
    /\ \/ /\ Open(i, "settings")
          /\ stack' = [stack EXCEPT ![i].state = "cancelled", ![i].slider = stack[i].orig.opacity]
       \/ /\ Open(i, "picker")
          /\ stack' = [stack EXCEPT ![i] = Saved(@)]
    /\ UNCHANGED <<memory, file, window, copying, dead, history>>

\* Mutant of PutBack: Cancel puts the docking back and forgets the opacity.
PutBackDocking(d) ==
    /\ Unlocked
    /\ cfg' = [d.orig EXCEPT !.opacity = cfg.opacity]
    /\ docked' = Docking(cfg') /\ alpha' = Alpha(cfg')
    /\ late' = late
    /\ pin' = IF d.overtaken THEN "unclear" ELSE pin

\* Mutant of PutBack: Cancel puts the opacity back and does not apply it.
PutBackUnapplied(d) ==
    /\ Unlocked
    /\ cfg' = d.orig
    /\ docked' = IF Docking(cfg) # Docking(d.orig) THEN Docking(cfg') ELSE docked
    /\ UNCHANGED <<alpha, late>>
    /\ pin' = IF d.overtaken THEN "unclear" ELSE pin

\* The rest of showSettingsDialog, once Run has returned.  The settings put back
\* were in use before: applyDock finds nothing to fix.
PutBack(d) ==
    /\ Unlocked
    /\ cfg' = d.orig
    /\ LET dockChanged == Docking(cfg) # Docking(d.orig)
           opacityChanged == cfg.opacity # d.orig.opacity
       IN  /\ docked' = IF dockChanged THEN Docking(cfg') ELSE docked
           /\ alpha' = IF dockChanged \/ opacityChanged THEN Alpha(cfg') ELSE alpha
           /\ late' = (~dockChanged /\ late)
    /\ pin' = IF d.overtaken THEN "unclear" ELSE pin

Return ==
    /\ stack # <<>>
    /\ LET n == Len(stack)
           d == stack[n]
       IN  /\ d.state # "open"
           /\ unsaved' = (unsaved \/ (d.kind = "settings" /\ d.state = "cancelled" /\ d.overtaken))
           /\ IF d.kind = "settings" /\ d.state = "cancelled" /\ cfg # d.orig
              THEN /\ PutBack(d)
                   /\ stack' = [i \in 1..n - 1 |-> Overtaken(stack[i])]
              ELSE /\ stack' = SubSeq(stack, 1, n - 1)
                   /\ UNCHANGED <<cfg, window, late, pin>>
    /\ UNCHANGED <<hidden, file, copying, dead, rowsLost>>

-----------------------------------------------------------------------------
(* The row picker *)

\* showBandPicker.  HiddenSet adds the card to the map if it is new there, and
\* does so without the lock: the runtime may then end the process.
OpenPicker ==
    /\ ~dead
    /\ Len(stack) < MaxOpen
    /\ \A i \in 1..Len(stack) : ~Open(i, "picker")
    /\ \/ stack' = Append(stack, Picker) /\ UNCHANGED dead
       \/ copying /\ dead' = TRUE /\ stack' = <<>>
    /\ UNCHANGED <<cfg, hidden, file, window, copying, history>>

\* Mutant of SaveRows: the settings are copied before the rows are entered.
SaveRowsEarly(i, rows) ==
    /\ Open(i, "picker")
    /\ Unlocked
    /\ hidden' = rows
    /\ file' = Contents(cfg, hidden)
    /\ unsaved' = FALSE /\ rowsLost' = FALSE
    /\ Settle(i, Saved(stack[i]))
    /\ UNCHANGED <<cfg, window, copying, dead, late, pin>>

\* The picker's Save, which saves all the settings as they are.
SaveRows(i, rows) ==
    /\ Open(i, "picker")
    /\ Unlocked
    /\ hidden' = rows
    /\ \/ /\ file' = Contents(cfg, hidden')
          /\ unsaved' = FALSE /\ rowsLost' = FALSE
       \/ UNCHANGED file /\ unsaved' = unsaved /\ rowsLost' = TRUE
    /\ Settle(i, Saved(stack[i]))
    /\ UNCHANGED <<cfg, window, copying, dead, late, pin>>

-----------------------------------------------------------------------------
(* snapshotCfg of a refresh *)

CopyBegins ==
    /\ ~copying
    /\ copying' = TRUE
    /\ UNCHANGED <<memory, file, stack, window, dead, history>>
CopyEnds ==
    /\ copying /\ ~dead
    /\ copying' = FALSE
    /\ UNCHANGED <<memory, file, stack, window, dead, history>>

-----------------------------------------------------------------------------
(* Specification *)

Sliders == {Normalize(c).opacity : c \in Choices}

Next ==
    \/ Restart
    \/ PinClicked
    \/ OpenSettings \/ Return
    \/ \E i \in 1..MaxOpen :
          \/ \E opacity \in Sliders : Preview(i, opacity)
          \/ \E c \in Choices : SaveNothing(i, c) \/ SaveSettings(i, c) \/ SaveFails(i, c)
          \/ CancelDialog(i)
          \/ \E rows \in SUBSET Rows : SaveRows(i, rows)
    \/ OpenPicker
    \/ CopyBegins \/ CopyEnds

Spec == Init /\ [][Next]_vars

-----------------------------------------------------------------------------
(* Properties *)

Dialogs ==
    [kind : {"settings", "picker"}, orig : NormalSettings, slider : 35..100,
     state : {"open", "saved", "cancelled"}, overtaken : BOOLEAN]

TypeOK ==
    /\ cfg \in NormalSettings
    /\ hidden \subseteq Rows
    /\ file.set \in NormalSettings /\ file.hidden \subseteq Rows
    /\ stack \in Seq(Dialogs) /\ Len(stack) <= MaxOpen
    /\ docked \in [mode : Modes, edge : Edges, auto : BOOLEAN]
    /\ alpha \in 35..100
    /\ copying \in BOOLEAN /\ dead \in BOOLEAN
    /\ unsaved \in BOOLEAN /\ rowsLost \in BOOLEAN /\ late \in BOOLEAN
    /\ pin \in {"slides", "stays", "unclear"}

\* The rows the user hid are the rows in the file, whatever other dialogs put
\* back, until a save of them fails.
RowsSurvive == hidden = file.hidden \/ rowsLost

\* With no dialog open a restart would find the settings in use, except the
\* interval, unless saving failed or an overtaken dialog put older ones back.
MemoryIsFile ==
    stack = <<>> /\ ~unsaved /\ ~dead => cfg = [file.set EXCEPT !.every = cfg.every]

\* The window is docked and as transparent as the settings in use say, also
\* while the slider moves, unless an overtaken dialog or a failed save came
\* between.
WindowAsConfigured == late \/ (docked = Docking(cfg) /\ alpha = Alpha(cfg))

\* The dock slides or stays as the user last asked by pin or dialog, also after
\* a restart, unless an overtaken dialog or a failed save came between.
PinStands == pin \in {Word(cfg), "unclear"}

=============================================================================
