------------------------------ MODULE WorkArea ------------------------------
(***************************************************************************)
(* Who takes a strip of the desktop's work area and who gives it back:     *)
(* applyDock and unregisterAppBar of internal/ui/app.go, the shutdown, the *)
(* start of internal/ui.Run and cmd/limitdock, and the helper process      *)
(* ("--restore-workarea") that internal/native schedules on the way out.   *)
(*                                                                         *)
(* The work area is shared with the Windows shell and outlives the         *)
(* process.  It is modelled as the number of dock strips missing from it;  *)
(* the edge, the display and the width of a strip do not matter here.      *)
(*                                                                         *)
(* The handlers of the UI thread are one step each.  The shell and the     *)
(* helper write the same work area between them.                           *)
(***************************************************************************)
EXTENDS Integers, Sequences

CONSTANTS
    MaxStarts,  \* bound: launches of the program
    MaxFaults   \* bound: failures and accidents

ASSUME WorkAreaAssumption ==
    /\ MaxStarts \in Nat
    /\ MaxFaults \in Nat

VARIABLES
    proc,      \* "none", "running", "exiting" (beginShutdown ran), "closing"
               \* (shutdownDone is set and WM_CLOSE posted)
    baseWork,  \* a.baseWork: the work area to put back, or None
    appbar,    \* a.appbar: the window is registered with the shell
    work,      \* the desktop's work area
    teardown,  \* what the shell may yet put back while it tears down the
               \* appbar of an ended process, or None
    helpers,   \* restore helpers under way and their rectangles, oldest first
    starts,    \* launches so far
    faults     \* history: how often something went wrong that nobody undoes

vars == <<proc, baseWork, appbar, work, teardown, helpers, starts, faults>>

-----------------------------------------------------------------------------

None == -1   \* no rectangle; a work area is a natural number

Alive   == proc # "none"
Taken   == baseWork # None
Pending == helpers # <<>>

Fault == faults < MaxFaults /\ faults' = faults + 1

\* SystemParametersInfo with SPI_SETWORKAREA, which can fail.
SetWorkArea(area) ==
    \/ work' = area /\ UNCHANGED faults
    \/ work' = work /\ Fault

\* What unregisterAppBar leaves as work area, and whether its call failed.  It
\* forgets the captured area either way.
Restored(failed) == IF Taken /\ ~failed THEN baseWork ELSE work

\* Faulty variant: a reserved dock is docked again without giving back first.
ReserveOnTop ==
    /\ Alive
    /\ baseWork' = work
    /\ appbar' \in BOOLEAN
    /\ work' = work + 1
    /\ UNCHANGED <<proc, teardown, helpers, starts, faults>>

\* applyDock in reserved mode: give back what is held, capture the work area as
\* it then is, register the appbar if the shell lets it, and take a strip.  An
\* appbar takes the strip even when setting the work area fails.
Reserve ==
    /\ Alive
    /\ \E failed \in IF Taken THEN BOOLEAN ELSE {FALSE} :
         LET free == Restored(failed) IN
         /\ baseWork' = free
         /\ appbar' \in BOOLEAN
         /\ \/ work' = free + 1 /\ (IF failed THEN Fault ELSE UNCHANGED faults)
            \/ work' \in {free, IF appbar' THEN free + 1 ELSE free} /\ Fault
    /\ UNCHANGED <<proc, teardown, helpers, starts>>

\* Faulty variant: the captured area is not forgotten.
UnregisterRemembers ==
    /\ appbar' = FALSE
    /\ IF Taken THEN SetWorkArea(baseWork) ELSE UNCHANGED <<work, faults>>
    /\ UNCHANGED baseWork

\* unregisterAppBar, called by applyDock in overlay mode and by
\* setStatusVisible(false).
Unregister ==
    /\ appbar' = FALSE
    /\ IF Taken THEN SetWorkArea(baseWork) ELSE UNCHANGED <<work, faults>>
    /\ baseWork' = None

GiveBack ==
    /\ Alive
    /\ Taken \/ appbar
    /\ Unregister
    /\ UNCHANGED <<proc, teardown, helpers, starts>>

-----------------------------------------------------------------------------
(* Start and shutdown *)

\* main and Run.  The single-instance mutex turns a second launch away; Windows
\* releases it when the process ends, however it ends.  A launch while a helper
\* of the last run still waits is an accident: applyDock may capture what the
\* helper is about to correct, and the helper undoes what applyDock reserved.
Start ==
    /\ ~Alive
    /\ starts < MaxStarts
    /\ starts' = starts + 1
    /\ IF Pending THEN Fault ELSE UNCHANGED faults
    /\ proc' = "running"
    /\ UNCHANGED <<baseWork, appbar, work, teardown, helpers>>

\* The tray's Exit, or a close of the window that is cancelled because the
\* shutdown is not done: beginShutdown.  shutdownOnce makes later ones do
\* nothing.
BeginShutdown ==
    /\ proc = "running"
    /\ proc' = "exiting"
    /\ UNCHANGED <<baseWork, appbar, work, teardown, helpers, starts, faults>>

\* The goroutine finishShutdown.
FinishShutdown ==
    /\ proc = "exiting"
    /\ proc' = "closing"
    /\ UNCHANGED <<baseWork, appbar, work, teardown, helpers, starts, faults>>

\* What the shell may put back for the appbar of a window that is gone.
Stale == IF appbar THEN work ELSE teardown

\* Faulty variant: the exit relies on its own restore.
CleanupUnaided ==
    /\ proc = "closing"
    /\ proc' = "none"
    /\ teardown' = Stale
    /\ Unregister
    /\ UNCHANGED <<helpers, starts>>

\* The window closes and Run's deferred cleanup gives the strip back, then
\* starts the helper, if it can, to do so once more.
Cleanup ==
    /\ proc = "closing"
    /\ proc' = "none"
    /\ teardown' = Stale
    /\ appbar' = FALSE
    /\ baseWork' = None
    /\ IF Taken
       THEN \/ SetWorkArea(baseWork) /\ helpers' = Append(helpers, baseWork)
            \/ work' \in {work, baseWork} /\ Fault /\ UNCHANGED helpers
       ELSE UNCHANGED <<work, faults, helpers>>
    /\ UNCHANGED starts

\* The process is killed or crashes: nothing is given back.
Crash ==
    /\ Alive
    /\ proc' = "none"
    /\ teardown' = Stale
    /\ appbar' = FALSE
    /\ baseWork' = None
    /\ IF Taken THEN Fault ELSE UNCHANGED faults
    /\ UNCHANGED <<work, helpers, starts>>

-----------------------------------------------------------------------------
(* Outside the process *)

\* The shell finishes the teardown of an appbar: its own idea of the work area
\* may come back, the strip included.
ShellTearsDown ==
    /\ teardown # None
    /\ work' \in {work, teardown}
    /\ teardown' = None
    /\ UNCHANGED <<proc, baseWork, appbar, helpers, starts, faults>>

\* The helper of cmd/limitdock, which takes no mutex.  Its delay of 1200 ms is
\* there to outlast the shell's teardown.
HelperRestores ==
    /\ Pending
    /\ teardown = None
    /\ SetWorkArea(Head(helpers))
    /\ helpers' = Tail(helpers)
    /\ UNCHANGED <<proc, baseWork, appbar, teardown, starts>>

-----------------------------------------------------------------------------

Init ==
    /\ proc = "none"
    /\ baseWork = None
    /\ appbar = FALSE
    /\ work = 0
    /\ teardown = None
    /\ helpers = <<>>
    /\ starts = 0
    /\ faults = 0

Shutdown == BeginShutdown \/ FinishShutdown \/ Cleanup

Next ==
    \/ Start \/ Reserve \/ GiveBack \/ Shutdown \/ Crash
    \/ ShellTearsDown \/ HelperRestores

Spec == Init /\ [][Next]_vars

\* The goroutine runs, the posted WM_CLOSE is handled, the shell finishes and
\* the helper's sleep ends.  Nobody has to start, dock or exit.
FairSpec ==
    /\ Spec
    /\ WF_vars(FinishShutdown)
    /\ WF_vars(Cleanup)
    /\ WF_vars(ShellTearsDown)
    /\ WF_vars(HelperRestores)

-----------------------------------------------------------------------------
(* Properties *)

TypeOK ==
    /\ proc \in {"none", "running", "exiting", "closing"}
    /\ baseWork \in Nat \cup {None}
    /\ appbar \in BOOLEAN
    /\ work \in Nat
    /\ teardown \in Nat \cup {None}
    /\ helpers \in Seq(Nat)
    /\ starts \in Nat
    /\ faults \in Nat

\* Every strip is accounted for.  However often the dock is moved, hidden,
\* restarted or killed, an accident costs the desktop at most one strip: the
\* area the program means to put back lacks at most one strip for each, and the
\* desktop at most one more while somebody still holds or tears down a strip.
SpaceAccounted ==
    /\ Taken => baseWork <= faults
    /\ \A i \in DOMAIN helpers : helpers[i] <= faults
    /\ work <= faults + (IF Taken \/ Pending \/ teardown # None THEN 1 ELSE 0)

\* While a reserved dock stands and nothing has gone wrong, its strip and only
\* its strip is free of other windows, whatever an earlier run left behind.
StripKept == Taken /\ faults = 0 => work = baseWork + 1 /\ baseWork = 0

\* A program that has ended for good leaves the desktop whole, also when the
\* shell's teardown puts the strip there once more after the restore, unless
\* something went wrong before.
GivenBack == <>[](~Alive) => <>[](work = 0 \/ faults > 0)
=============================================================================
