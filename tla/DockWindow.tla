----------------------------- MODULE DockWindow -----------------------------
(***************************************************************************)
(* internal/ui/app.go: where the dock's window is and whether it is shown. *)
(*                                                                         *)
(* Two threads decide.  The UI thread runs applyDock after a click on the  *)
(* pin, a saved or cancelled settings dialog and the tray's Show.  The     *)
(* goroutine of hoverLoop samples the settings and the cursor every 120 ms *)
(* and reveals or hides an auto-hidden overlay dock: it posts the change   *)
(* of the window to the UI thread and sets a.revealed itself, at once.     *)
(*                                                                         *)
(* A handler of the UI thread that changes a.cfg and calls applyDock or    *)
(* puts a.cfg back later, with settings.json written in between, is two or *)
(* three steps here, because hoverLoop runs in between.  applyDock and the posted closures are one step each: what  *)
(* hoverLoop reads of them is one variable under a.mu at a time.           *)
(***************************************************************************)
EXTENDS Integers, Sequences

CONSTANTS
    Displays,         \* monitors PickMonitor can answer with
    Interior,         \* those whose docked edge borders another display
    RevealDwellTicks, \* revealDwellTicks
    HideDelayTicks,   \* hideDelayTicks
    QueueCap          \* bound: closures waiting for the UI thread

ASSUME DockAssumption ==
    /\ Interior \subseteq Displays
    /\ RevealDwellTicks \in Nat \ {0}
    /\ HideDelayTicks \in Nat \ {0}
    /\ QueueCap \in Nat \ {0}

VARIABLES
    cfg,       \* a.cfg: dockMode and autoHide
    dialog,    \* the settings dialog: the settings it was opened with
    visible,   \* a.visible: the user has not hidden the dock
    revealed,  \* a.revealed
    docked,    \* a.dockFull: the display of the last applyDock
    shown,     \* the native window is shown
    at,        \* the display its bounds are on
    reserved,  \* appbar registered and work area shrunk
    ui,        \* "idle", or a handler writes the file or is about to call applyDock
    uiQueue,   \* closures posted with Synchronize
    hover,     \* where hoverLoop stands
    sample,    \* what it copied from the settings in this tick
    nearTicks,
    outTicks,
    display,   \* the display the settings name, as connected now
    cursor,    \* at the docked edge, inside the keep zone, or elsewhere
    crossed    \* history: since the last undisturbed applyDock a change by one
               \* thread met an unfinished change by the other, settings changed
               \* without applyDock, or hoverLoop acted on settings that a
               \* failed save took back

window == <<revealed, docked, shown, at, reserved>>
loop   == <<hover, sample, nearTicks, outTicks>>
vars   == <<cfg, dialog, visible, window, ui, uiQueue, loop, display, cursor, crossed>>

-----------------------------------------------------------------------------
(* Data *)

\* The settings the dock depends on.  A reserved dock is never auto-hidden for
\* longer than it takes applyDock to see it.
Dockings == [mode : {"reserved", "overlay"}, autoHide : BOOLEAN]
NoDialog == [mode |-> "closed", autoHide |-> FALSE]

AutoHidden(c) == c.mode = "overlay" /\ c.autoHide

UIFree == ui = "idle"

\* No change of the window is under way on either side.
Settled == UIFree /\ uiQueue = <<>> /\ hover = "idle"

-----------------------------------------------------------------------------
(* The UI thread *)

\* applyDock with the settings c: reserved docks register the appbar and lose
\* auto-hide, auto-hidden overlays start hidden.
ApplyDock(c) ==
    /\ cfg' = [c EXCEPT !.autoHide = @ /\ c.mode = "overlay"]
    /\ reserved' = (c.mode = "reserved")
    /\ docked' = display
    /\ at' = display
    /\ shown' = ~AutoHidden(c)
    /\ revealed' = ~AutoHidden(c)

\* Whether an applyDock leaves both threads in agreement.
CrossedByApply == ~(uiQueue = <<>> /\ hover = "idle" /\ visible')

\* The second half of a handler that wrote the settings first.
Dock ==
    /\ ui = "docking"
    /\ ui' = "idle"
    /\ ApplyDock(cfg)
    /\ visible' = visible
    /\ crossed' = CrossedByApply
    /\ UNCHANGED <<dialog, uiQueue, loop, display, cursor>>

\* A click on the pin, which is painted in overlay mode only.
PinClicked ==
    /\ UIFree
    /\ shown
    /\ cfg.mode = "overlay"
    /\ cfg' = [cfg EXCEPT !.autoHide = ~@]
    /\ ui' = "docking"
    /\ UNCHANGED <<dialog, visible, window, uiQueue, loop, display, cursor, crossed>>

OpenSettings ==
    /\ UIFree
    /\ dialog = NoDialog
    /\ dialog' = cfg
    /\ UNCHANGED <<cfg, visible, window, ui, uiQueue, loop, display, cursor, crossed>>

\* Save puts the new settings in place ...
WriteSettings ==
    /\ UIFree
    /\ dialog # NoDialog
    /\ cfg' \in Dockings
    /\ ui' = "saving"
    /\ crossed' = (crossed \/ dialog # cfg)
    /\ UNCHANGED <<dialog, visible, window, uiQueue, loop, display, cursor>>

\* ... and the file is written.  applyDock follows when the dialog's own docking
\* choices changed, not when a.cfg had moved on since the dialog was opened ...
SettingsSaved ==
    /\ ui = "saving"
    /\ ui' = IF cfg # dialog THEN "docking" ELSE "idle"
    /\ dialog' = NoDialog
    /\ UNCHANGED <<cfg, visible, window, uiQueue, loop, display, cursor, crossed>>

\* hoverLoop has begun to reveal or hide the dock, or may still do so.
Sliding == uiQueue # <<>> \/ (hover # "idle" /\ sample.on)

\* ... or it could not be written: the settings return that the dialog was opened
\* with, without an applyDock, and the dialog stays.  hoverLoop may have acted on
\* the others meanwhile.
SettingsSaveFailed ==
    /\ ui = "saving"
    /\ ui' = "idle"
    /\ cfg' = dialog
    /\ crossed' = (crossed \/ (~AutoHidden(dialog) /\ Sliding))
    /\ UNCHANGED <<dialog, visible, window, uiQueue, loop, display, cursor>>

\* Save without a change, or Cancel with a.cfg as it was found.
CloseSettings ==
    /\ UIFree
    /\ dialog # NoDialog
    /\ dialog' = NoDialog
    /\ UNCHANGED <<cfg, visible, window, ui, uiQueue, loop, display, cursor, crossed>>

\* Cancel puts the settings back the dialog was opened with, then docks.
CancelSettings ==
    /\ UIFree
    /\ dialog \notin {NoDialog, cfg}
    /\ dialog' = NoDialog
    /\ cfg' = dialog
    /\ ui' = "docking"
    /\ UNCHANGED <<visible, window, uiQueue, loop, display, cursor, crossed>>

\* setStatusVisible(true)
ShowStatus ==
    /\ UIFree
    /\ ~visible
    /\ visible' = TRUE
    /\ ApplyDock(cfg)
    /\ crossed' = CrossedByApply
    /\ UNCHANGED <<dialog, ui, uiQueue, loop, display, cursor>>

\* Faulty variant: the reserved area is given back only on the way out.
HideStatusKeepsArea ==
    /\ UIFree
    /\ visible
    /\ visible' = FALSE
    /\ shown' = FALSE
    /\ crossed' = (crossed \/ ~Settled)
    /\ UNCHANGED <<cfg, dialog, revealed, docked, at, reserved, ui, uiQueue, loop,
                   display, cursor>>

\* setStatusVisible(false)
HideStatus ==
    /\ UIFree
    /\ visible
    /\ visible' = FALSE
    /\ shown' = FALSE
    /\ reserved' = FALSE
    /\ at' = docked
    /\ crossed' = (crossed \/ ~Settled)
    /\ UNCHANGED <<cfg, dialog, revealed, docked, ui, uiQueue, loop, display, cursor>>

\* A posted closure.
RunPosted ==
    /\ UIFree
    /\ uiQueue # <<>>
    /\ uiQueue' = Tail(uiQueue)
    /\ LET op == Head(uiQueue) IN
         \/ /\ op.do = "reveal"
            /\ shown' = TRUE
            /\ at' = op.at
            /\ UNCHANGED <<cfg, revealed, docked, reserved, crossed>>
         \/ /\ op.do = "hide"
            /\ shown' = FALSE
            /\ at' = op.at
            /\ UNCHANGED <<cfg, revealed, docked, reserved, crossed>>
         \/ /\ op.do = "dock"
            /\ ApplyDock(cfg)
            /\ crossed' = ~(Tail(uiQueue) = <<>> /\ hover = "idle" /\ visible)
    /\ UNCHANGED <<dialog, visible, ui, loop, display, cursor>>

-----------------------------------------------------------------------------
(* hoverLoop *)

Post(what) == uiQueue' = Append(uiQueue, [do |-> what, at |-> sample.at])

\* A tick: the settings and the cached display are copied under a.mu.  (The
\* bound on the queue is here: a tick posts at most one closure.)
HoverTick ==
    /\ hover = "idle"
    /\ Len(uiQueue) < QueueCap
    /\ hover' = "sampled"
    /\ sample' = [on |-> AutoHidden(cfg), at |-> docked]
    /\ UNCHANGED <<cfg, dialog, visible, window, ui, uiQueue, nearTicks, outTicks,
                   display, cursor, crossed>>

HoverStandsDown ==
    /\ hover = "sampled"
    /\ ~visible \/ ~sample.on
    /\ hover' = "idle"
    /\ nearTicks' = 0
    /\ outTicks' = 0
    /\ UNCHANGED <<cfg, dialog, visible, window, ui, uiQueue, sample, display,
                   cursor, crossed>>

\* Faulty variant: the displays are compared for a dock that is out only.
HoverRedocksRevealed ==
    /\ hover = "sampled"
    /\ visible /\ sample.on
    /\ revealed
    /\ display # sample.at
    /\ Post("dock")
    /\ hover' = "idle"
    /\ UNCHANGED <<cfg, dialog, visible, window, ui, sample, nearTicks, outTicks,
                   display, cursor, crossed>>

\* About once a second the displays are compared with the cached one.
HoverRedocks ==
    /\ hover = "sampled"
    /\ visible /\ sample.on
    /\ display # sample.at
    /\ Post("dock")
    /\ hover' = "idle"
    /\ UNCHANGED <<cfg, dialog, visible, window, ui, sample, nearTicks, outTicks,
                   display, cursor, crossed>>

\* Faulty variants: the keep zone does not contain the reveal strip; it covers
\* the display.
KeptOffEdge == cursor = "keep"
KeptEverywhere == cursor \in {"edge", "keep", "away"}

NearEdge == cursor = "edge"
Kept == cursor \in {"edge", "keep"}
Dwell == IF sample.at \in Interior THEN RevealDwellTicks ELSE 1

LeftLongEnough == outTicks + 1 >= HideDelayTicks

\* The cursor's distance decides, counted over consecutive ticks.  (isVisible,
\* isRevealed and the cursor are read one after the other.  They are one step:
\* the ways in which a change between two of them matters are those of a change
\* after all of them, because what follows is posted or set afterwards.)
HoverLooks ==
    /\ hover = "sampled"
    /\ visible /\ sample.on
    /\ IF revealed
       THEN /\ nearTicks' = 0
            /\ IF ~Kept /\ LeftLongEnough
               THEN outTicks' = 0 /\ hover' = "hiding"
               ELSE /\ outTicks' = IF Kept THEN 0 ELSE outTicks + 1
                    /\ hover' = "idle"
       ELSE /\ outTicks' = 0
            /\ IF NearEdge /\ nearTicks + 1 >= Dwell
               THEN nearTicks' = 0 /\ hover' = "revealing"
               ELSE /\ nearTicks' = IF NearEdge THEN nearTicks + 1 ELSE 0
                    /\ hover' = "idle"
    /\ UNCHANGED <<cfg, dialog, visible, window, ui, uiQueue, sample, display,
                   cursor, crossed>>

\* revealDock and hideDock: the closure is posted first ...
HoverPosts ==
    /\ \/ hover = "revealing" /\ Post("reveal") /\ hover' = "revealed"
       \/ hover = "hiding" /\ Post("hide") /\ hover' = "hidden"
    /\ UNCHANGED <<cfg, dialog, visible, window, ui, sample, nearTicks, outTicks,
                   display, cursor, crossed>>

\* Faulty variant: a.revealed is set when revealing only.
HoverSetsRevealedOnly ==
    /\ hover \in {"revealed", "hidden"}
    /\ hover' = "idle"
    /\ revealed' = TRUE
    /\ UNCHANGED <<cfg, dialog, visible, docked, shown, at, reserved, ui, uiQueue,
                   sample, nearTicks, outTicks, display, cursor, crossed>>

\* ... then a.revealed is set, whatever the UI thread has done meanwhile.
HoverSetsRevealed ==
    /\ hover \in {"revealed", "hidden"}
    /\ hover' = "idle"
    /\ revealed' = (hover = "revealed")
    /\ UNCHANGED <<cfg, dialog, visible, docked, shown, at, reserved, ui, uiQueue,
                   sample, nearTicks, outTicks, display, cursor, crossed>>

-----------------------------------------------------------------------------
(* The environment *)

CursorMoves ==
    /\ \E c \in {"edge", "keep", "away"} \ {cursor} : cursor' = c
    /\ UNCHANGED <<cfg, dialog, visible, window, ui, uiQueue, loop, display, crossed>>

\* A display is plugged in, unplugged or resized.
DisplayChanges ==
    /\ \E d \in Displays \ {display} : display' = d
    /\ UNCHANGED <<cfg, dialog, visible, window, ui, uiQueue, loop, cursor, crossed>>

-----------------------------------------------------------------------------

\* After createWindow.
Init ==
    /\ cfg \in {c \in Dockings : c.mode = "reserved" => ~c.autoHide}
    /\ dialog = NoDialog
    /\ visible = TRUE
    /\ display \in Displays
    /\ docked = display
    /\ at = display
    /\ shown = ~AutoHidden(cfg)
    /\ revealed = shown
    /\ reserved = (cfg.mode = "reserved")
    /\ ui = "idle"
    /\ uiQueue = <<>>
    /\ hover = "idle"
    /\ sample = [on |-> FALSE, at |-> docked]
    /\ nearTicks = 0
    /\ outTicks = 0
    /\ cursor = "away"
    /\ crossed = FALSE

Handlers == Dock \/ SettingsSaved \/ SettingsSaveFailed
User ==
    \/ PinClicked \/ ShowStatus \/ HideStatus
    \/ OpenSettings \/ WriteSettings \/ CloseSettings \/ CancelSettings
Hover ==
    \/ HoverTick \/ HoverStandsDown \/ HoverRedocks \/ HoverLooks
    \/ HoverPosts \/ HoverSetsRevealed

Next == Handlers \/ RunPosted \/ User \/ Hover \/ CursorMoves \/ DisplayChanges

Spec == Init /\ [][Next]_vars

\* The UI thread finishes its handlers; a user who saves again and again does not
\* keep it from the closures that wait, because walk runs them between two
\* messages.  hoverLoop's ticker keeps firing, and one look in topologyCheckTicks
\* compares the displays.
FairSpec ==
    /\ Spec
    /\ WF_vars(Handlers)
    /\ SF_vars(RunPosted)
    /\ WF_vars(Hover)
    /\ SF_vars(HoverRedocks)

-----------------------------------------------------------------------------
(* Properties *)

Closures == [do : {"reveal", "hide", "dock"}, at : Displays]

TypeOK ==
    /\ cfg \in Dockings
    /\ dialog \in Dockings \cup {NoDialog}
    /\ visible \in BOOLEAN
    /\ revealed \in BOOLEAN
    /\ docked \in Displays
    /\ shown \in BOOLEAN
    /\ at \in Displays
    /\ reserved \in BOOLEAN
    /\ ui \in {"idle", "saving", "docking"}
    /\ uiQueue \in Seq(Closures)
    /\ hover \in {"idle", "sampled", "revealing", "hiding", "revealed", "hidden"}
    /\ sample \in [on : BOOLEAN, at : Displays]
    /\ nearTicks \in 0..(RevealDwellTicks - 1)
    /\ outTicks \in 0..(HideDelayTicks - 1)
    /\ display \in Displays
    /\ cursor \in {"edge", "keep", "away"}
    /\ crossed \in BOOLEAN

\* The two threads keep one picture of the dock: when neither is in the middle
\* of a change, the window is where the last applyDock put the dock, it is shown
\* exactly when the user has not hidden it and hoverLoop believes it revealed
\* (always, unless it is an auto-hidden overlay), and space is reserved exactly
\* for a shown reserved dock.  Only a change of one thread that met an
\* unfinished change of the other, settings put in place without an applyDock,
\* or a slide that hoverLoop began while a save that failed had its settings in
\* place, can make them disagree.
ThreadsAgree ==
    Settled /\ ~crossed =>
        /\ shown = (visible /\ (AutoHidden(cfg) => revealed))
        /\ reserved = (visible /\ cfg.mode = "reserved")
        /\ at = docked

\* An auto-hidden dock slides away once the cursor has left it for good, unless
\* the threads have crossed.
SlidesAway ==
    <>[](visible /\ AutoHidden(cfg) /\ cursor = "away" /\ ~crossed) => <>[]~shown

\* Pressing the cursor against the docked edge brings it out, dwell or not, unless
\* the threads have crossed.
SlidesIn ==
    <>[](visible /\ AutoHidden(cfg) /\ cursor = "edge" /\ ~crossed /\ display = docked)
        => <>[]shown

\* The dock never oscillates at the poll rate: when the user, the cursor and the
\* displays come to rest it stays shown or stays hidden, also after the threads
\* have crossed.
ComesToRest ==
    <>[][UNCHANGED <<cfg, dialog, visible, cursor, display>>]_vars
        => <>[]shown \/ <>[]~shown

\* An auto-hidden dock follows its display when that changes for good, unless the
\* threads have crossed.
FollowsDisplay ==
    \A d \in Displays :
        <>[](visible /\ AutoHidden(cfg) /\ display = d /\ ~crossed) => <>[](at = d)

=============================================================================
