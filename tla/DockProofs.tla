----------------------------- MODULE DockProofs -----------------------------
(***************************************************************************)
(* The dock: the UI thread and hoverLoop agree on it, for any number of     *)
(* displays, dwell and hide delays and waiting closures; and what its       *)
(* geometry promises on every display, work area and edge.                  *)
(***************************************************************************)
EXTENDS DockWindow, DockGeometry, SequenceTheorems, TLAPS

-----------------------------------------------------------------------------
(* The inductive invariant *)

\* No applyDock is waiting for the UI thread.
NoDock == \A i \in 1..Len(uiQueue) : uiQueue[i].do # "dock"

\* What the window will be when the posted closures have run.
Final == IF uiQueue = <<>> THEN shown ELSE uiQueue[Len(uiQueue)].do = "reveal"

\* What a.revealed will be when hoverLoop has set it.
Believed == hover = "revealed" \/ (hover # "hidden" /\ revealed)

\* The settings, as far as a save under way may still take them back, and whether
\* they, or those of the save, let hoverLoop slide the dock.
Standing == IF ui = "saving" THEN dialog ELSE cfg
Slidable == AutoHidden(cfg) \/ AutoHidden(Standing)

SlideSteps == {"revealing", "hiding", "revealed", "hidden"}

\* hoverLoop works with what it copied, and that still holds.
LoopCurrent ==
    /\ hover # "idle" => sample.at = docked /\ (sample.on => Slidable)
    /\ hover \in SlideSteps => sample.on

\* Only a visible, auto-hidden dock is revealed and hidden.
LoopEntitled == hover \in SlideSteps \/ uiQueue # <<>> => Slidable /\ visible

\* Every closure puts the window where the dock is.
PlaceKept ==
    /\ at = docked
    /\ \A i \in 1..Len(uiQueue) : uiQueue[i].at = docked

AreaKept == reserved = (visible /\ Standing.mode = "reserved")

\* The last word of the queue is the last word of hoverLoop.  Of a dock that is
\* to stay out this holds until hoverLoop posts a change all the same.
Agreed ==
    NoDock /\ (AutoHidden(Standing) \/ uiQueue = <<>>)
        => (Final <=> visible /\ (AutoHidden(Standing) => Believed))

Picture == LoopCurrent /\ LoopEntitled /\ PlaceKept /\ AreaKept /\ Agreed

IInv ==
    /\ TypeOK
    /\ ui = "saving" => dialog \in Dockings
    /\ ui # "docking" /\ ~crossed => Picture

-----------------------------------------------------------------------------
(* Types *)

LEMMA ApplyDockTypes ==
    ASSUME TypeOK, NEW c \in Dockings, ApplyDock(c)
    PROVE  /\ cfg' \in Dockings /\ reserved' \in BOOLEAN /\ revealed' \in BOOLEAN
           /\ shown' \in BOOLEAN /\ docked' \in Displays /\ at' \in Displays
<1>1. cfg' \in Dockings
  BY DEF ApplyDock, Dockings
<1>2. AutoHidden(c) \in BOOLEAN
  BY DEF AutoHidden, Dockings
<1> QED
  BY <1>1, <1>2 DEF ApplyDock, TypeOK

LEMMA PostTypes ==
    ASSUME TypeOK, NEW what \in {"reveal", "hide", "dock"}, Post(what)
    PROVE  uiQueue' \in Seq(Closures)
<1>1. [do |-> what, at |-> sample.at] \in Closures
  BY DEF TypeOK, Closures
<1> QED
  BY <1>1, AppendProperties DEF Post, TypeOK

LEMMA TypeStep ==
    TypeOK /\ (ui = "saving" => dialog \in Dockings) /\ [Next]_vars => TypeOK'
<1> SUFFICES ASSUME TypeOK, ui = "saving" => dialog \in Dockings, [Next]_vars PROVE TypeOK'
  OBVIOUS
<1> USE DEF TypeOK
<1>1. CASE Dock
  BY <1>1, ApplyDockTypes DEF Dock, CrossedByApply, loop
<1>2. CASE RunPosted
  <2>1. Head(uiQueue) \in Closures /\ uiQueue' \in Seq(Closures)
    BY <1>2, HeadTailProperties DEF RunPosted
  <2>2. /\ cfg' \in Dockings /\ reserved' \in BOOLEAN /\ revealed' \in BOOLEAN
        /\ shown' \in BOOLEAN /\ docked' \in Displays /\ at' \in Displays
        /\ crossed' \in BOOLEAN
    <3>1. CASE ApplyDock(cfg) /\ crossed' = ~(Tail(uiQueue) = <<>> /\ hover = "idle" /\ visible)
      BY <3>1, ApplyDockTypes
    <3>2. CASE /\ shown' \in BOOLEAN /\ at' = Head(uiQueue).at
               /\ UNCHANGED <<cfg, revealed, docked, reserved, crossed>>
      BY <2>1, <3>2 DEF Closures
    <3> QED
      BY <1>2, <3>1, <3>2 DEF RunPosted
  <2> QED
    BY <1>2, <2>1, <2>2 DEF RunPosted, loop
<1>3. CASE PinClicked
  <2>1. cfg' \in Dockings
    BY <1>3 DEF PinClicked, Dockings
  <2> QED
    BY <1>3, <2>1 DEF PinClicked, window, loop
<1>4. CASE ShowStatus
  BY <1>4, ApplyDockTypes DEF ShowStatus, CrossedByApply, loop
<1>5. CASE HideStatus
  BY <1>5 DEF HideStatus, loop
<1>6. CASE OpenSettings
  BY <1>6 DEF OpenSettings, window, loop
<1>7. CASE WriteSettings
  BY <1>7 DEF WriteSettings, window, loop
<1>8. CASE SettingsSaved
  BY <1>8 DEF SettingsSaved, window, loop
<1>9. CASE CloseSettings
  BY <1>9 DEF CloseSettings, window, loop
<1>10. CASE CancelSettings
  BY <1>10 DEF CancelSettings, window, loop
<1>11. CASE HoverTick
  <2>1. AutoHidden(cfg) \in BOOLEAN
    BY DEF AutoHidden, Dockings
  <2> QED
    BY <1>11, <2>1 DEF HoverTick, window
<1>12. CASE HoverStandsDown
  BY <1>12, DockAssumption DEF HoverStandsDown, window
<1>13. CASE HoverRedocks
  BY <1>13, PostTypes DEF HoverRedocks, window
<1>14. CASE HoverLooks
  <2>1. Dwell \in 1..RevealDwellTicks
    BY DockAssumption DEF Dwell
  <2>2. nearTicks' \in 0..(RevealDwellTicks - 1) /\ outTicks' \in 0..(HideDelayTicks - 1)
    BY <1>14, <2>1, DockAssumption DEF HoverLooks, LeftLongEnough
  <2>3. hover' \in {"idle", "sampled", "revealing", "hiding", "revealed", "hidden"}
    BY <1>14 DEF HoverLooks
  <2> QED
    BY <1>14, <2>2, <2>3 DEF HoverLooks, window
<1>15. CASE HoverPosts
  BY <1>15, PostTypes DEF HoverPosts, window
<1>16. CASE HoverSetsRevealed
  BY <1>16 DEF HoverSetsRevealed
<1>17. CASE CursorMoves
  BY <1>17 DEF CursorMoves, window, loop
<1>18. CASE DisplayChanges
  BY <1>18 DEF DisplayChanges, window, loop
<1>19. CASE UNCHANGED vars
  BY <1>19 DEF vars, window, loop
<1>20. CASE SettingsSaveFailed /\ dialog \in Dockings
  BY <1>20 DEF SettingsSaveFailed, window, loop
<1> QED
  BY <1>1, <1>2, <1>3, <1>4, <1>5, <1>6, <1>7, <1>8, <1>9, <1>10, <1>11, <1>12, <1>13,
     <1>14, <1>15, <1>16, <1>17, <1>18, <1>19, <1>20
  DEF Next, Handlers, User, Hover, SettingsSaveFailed

-----------------------------------------------------------------------------
(* The picture *)

\* After an applyDock that nothing disturbed the picture is right, whatever it
\* was before.
LEMMA DockedAfresh ==
    ASSUME NEW c \in Dockings, ApplyDock(c),
           uiQueue' = <<>>, hover' = "idle", visible' = TRUE, ui' = "idle"
    PROVE  Picture'
<1>1. /\ AutoHidden(Standing') = AutoHidden(c)
      /\ Standing'.mode = c.mode
  BY DEF ApplyDock, AutoHidden, Dockings, Standing
<1>2. Len(uiQueue') = 0
  BY EmptySeq
<1>3. LoopCurrent' /\ LoopEntitled'
  BY DEF LoopCurrent, LoopEntitled, SlideSteps
<1>4. PlaceKept' /\ AreaKept'
  BY <1>1, <1>2 DEF PlaceKept, AreaKept, ApplyDock
<1>5. Agreed'
  BY <1>1 DEF Agreed, Final, Believed, ApplyDock
<1> QED
  BY <1>3, <1>4, <1>5 DEF Picture

\* What a closure added to the queue does to the picture of the queue.
LEMMA PostedPicture ==
    ASSUME TypeOK, Picture, hover # "idle", NEW what \in {"reveal", "hide", "dock"},
           Post(what)
    PROVE  /\ uiQueue' # <<>>
           /\ Len(uiQueue') = Len(uiQueue) + 1
           /\ uiQueue'[Len(uiQueue')] = [do |-> what, at |-> docked]
           /\ \A i \in 1..Len(uiQueue') : uiQueue'[i].at = docked
           /\ NoDock' => NoDock
           /\ NoDock' => what # "dock"
<1> DEFINE e == [do |-> what, at |-> sample.at]
<1>1. uiQueue \in Seq(Closures) /\ e \in Closures /\ sample.at = docked
  BY DEF TypeOK, Closures, Picture, LoopCurrent
<1>2. uiQueue' = Append(uiQueue, e)
  BY DEF Post
<1>3. /\ Len(uiQueue') = Len(uiQueue) + 1
      /\ uiQueue'[Len(uiQueue) + 1] = e
      /\ \A i \in 1..Len(uiQueue) : uiQueue'[i] = uiQueue[i]
      /\ uiQueue' # <<>>
  BY <1>1, <1>2, AppendProperties
<1>4. Len(uiQueue) \in Nat
  BY <1>1, LenProperties
<1>5. \A i \in 1..Len(uiQueue') : uiQueue'[i].at = docked
  BY <1>1, <1>3, <1>4 DEF Picture, PlaceKept
<1>6. NoDock' => NoDock /\ what # "dock"
  BY <1>3, <1>4 DEF NoDock
<1> QED
  BY <1>1, <1>3, <1>5, <1>6

\* The handlers that end in an applyDock of their own.
LEMMA DockingKeepsPicture ==
    ASSUME TypeOK, Dock \/ ShowStatus, ~crossed'
    PROVE  Picture'
<1>1. PICK c \in Dockings : ApplyDock(c)
  BY DEF Dock, ShowStatus, TypeOK
<1>2. uiQueue' = <<>> /\ hover' = "idle" /\ visible' = TRUE /\ ui' = "idle"
  BY DEF Dock, ShowStatus, CrossedByApply, loop, TypeOK, UIFree
<1> QED
  BY <1>1, <1>2, DockedAfresh

\* A closure run: what it leaves of the queue says the same as before.
LEMMA RunPostedKeepsPicture ==
    ASSUME TypeOK, Picture, RunPosted, ~crossed'
    PROVE  Picture'
<1>1. CASE ApplyDock(cfg) /\ crossed' = ~(Tail(uiQueue) = <<>> /\ hover = "idle" /\ visible)
  BY <1>1, DockedAfresh DEF RunPosted, loop, TypeOK, UIFree
<1>2. CASE /\ Head(uiQueue).do \in {"reveal", "hide"}
           /\ shown' = (Head(uiQueue).do = "reveal")
           /\ at' = Head(uiQueue).at
           /\ UNCHANGED <<cfg, revealed, docked, reserved, crossed>>
  <2>1. /\ uiQueue # <<>> /\ uiQueue \in Seq(Closures) /\ uiQueue' = Tail(uiQueue)
        /\ UNCHANGED <<visible, hover, sample, ui, dialog>>
        /\ ui = "idle"
    BY <1>2 DEF RunPosted, loop, TypeOK, UIFree
  <2>0. Standing = cfg /\ Standing' = cfg /\ UNCHANGED cfg
    BY <1>2, <2>1 DEF Standing
  <2>2. /\ Len(uiQueue) \in Nat \ {0}
        /\ uiQueue' \in Seq(Closures)
        /\ Len(uiQueue') = Len(uiQueue) - 1
        /\ \A i \in 1..Len(uiQueue') : uiQueue'[i] = uiQueue[i + 1]
        /\ Head(uiQueue) = uiQueue[1]
    BY <2>1, HeadTailProperties, EmptySeq
  <2>3. uiQueue' = <<>> <=> Len(uiQueue) = 1
    BY <2>2, EmptySeq
  <2>4. LoopCurrent' /\ LoopEntitled'
    BY <1>2, <2>0, <2>1 DEF Picture, LoopCurrent, LoopEntitled, Slidable
  <2>5. PlaceKept' /\ AreaKept'
    BY <1>2, <2>0, <2>1, <2>2 DEF Picture, PlaceKept, AreaKept
  <2>6. NoDock' => NoDock
    <3> SUFFICES ASSUME NoDock', NEW i \in 1..Len(uiQueue) PROVE uiQueue[i].do # "dock"
      BY DEF NoDock
    <3>1. CASE i = 1
      BY <1>2, <2>2, <3>1
    <3>2. CASE i # 1
      <4>1. i - 1 \in 1..Len(uiQueue') /\ uiQueue'[i - 1] = uiQueue[i]
        BY <2>2, <3>2
      <4> QED
        BY <4>1 DEF NoDock
    <3> QED
      BY <3>1, <3>2
  <2>7. Final' = Final
    <3>1. CASE Len(uiQueue) = 1
      BY <1>2, <2>1, <2>2, <2>3, <3>1 DEF Final
    <3>2. CASE Len(uiQueue) # 1
      <4>1. uiQueue'[Len(uiQueue')] = uiQueue[Len(uiQueue)]
        BY <2>2, <3>2
      <4> QED
        BY <2>1, <2>3, <3>2, <4>1 DEF Final
    <3> QED
      BY <3>1, <3>2
  <2>8. Agreed'
    <3>1. AutoHidden(cfg)
      BY <2>0, <2>1 DEF Picture, LoopEntitled, Slidable
    <3>2. NoDock => (Final <=> visible /\ Believed)
      BY <2>0, <3>1 DEF Picture, Agreed
    <3>3. NoDock' => (Final' <=> visible /\ Believed)
      BY <2>6, <2>7, <3>2
    <3>4. Believed' = Believed
      BY <1>2, <2>1 DEF Believed
    <3> QED
      BY <2>0, <2>1, <3>1, <3>3, <3>4 DEF Agreed
  <2> QED
    BY <2>4, <2>5, <2>8 DEF Picture
<1> QED
  BY <1>1, <1>2 DEF RunPosted

\* hoverLoop posts the change it has decided on, or an applyDock.
LEMMA PostingKeepsPicture ==
    ASSUME TypeOK, Picture, HoverPosts \/ HoverRedocks
    PROVE  Picture'
<1>1. PICK what \in {"reveal", "hide", "dock"} :
        /\ Post(what)
        /\ \/ what = "reveal" /\ hover = "revealing" /\ hover' = "revealed"
           \/ what = "hide" /\ hover = "hiding" /\ hover' = "hidden"
           \/ what = "dock" /\ hover = "sampled" /\ hover' = "idle" /\ visible /\ sample.on
  BY DEF HoverPosts, HoverRedocks
<1>2. /\ UNCHANGED <<cfg, dialog, ui, visible, revealed, docked, shown, at, reserved, sample>>
      /\ Standing' = Standing
      /\ Slidable' = Slidable
      /\ AutoHidden(Standing)' = AutoHidden(Standing)
  BY DEF HoverPosts, HoverRedocks, window, Standing, Slidable, AutoHidden
<1>3. /\ uiQueue' # <<>>
      /\ uiQueue'[Len(uiQueue')] = [do |-> what, at |-> docked]
      /\ \A i \in 1..Len(uiQueue') : uiQueue'[i].at = docked
      /\ NoDock' => what # "dock"
  BY <1>1, PostedPicture
<1>4. Slidable /\ visible
  BY <1>1 DEF Picture, LoopCurrent, LoopEntitled, SlideSteps
<1>5. LoopCurrent' /\ LoopEntitled'
  BY <1>1, <1>2, <1>4 DEF Picture, LoopCurrent, LoopEntitled, SlideSteps
<1>6. PlaceKept' /\ AreaKept'
  BY <1>2, <1>3 DEF Picture, PlaceKept, AreaKept
<1>7. Agreed'
  <2>1. NoDock' => (Final' <=> what = "reveal")
    BY <1>3 DEF Final
  <2>2. NoDock' => (Believed' <=> what = "reveal")
    BY <1>1, <1>3 DEF Believed
  <2> QED
    BY <1>2, <1>3, <1>4, <2>1, <2>2 DEF Agreed
<1> QED
  BY <1>5, <1>6, <1>7 DEF Picture

\* The rest of hoverLoop: it looks, decides and sets a.revealed.
LEMMA LoopKeepsPicture ==
    ASSUME TypeOK, Picture,
           HoverTick \/ HoverStandsDown \/ HoverLooks \/ HoverSetsRevealed
    PROVE  Picture'
<1>1. /\ UNCHANGED <<cfg, dialog, ui, visible, docked, shown, at, reserved, uiQueue>>
      /\ Standing' = Standing
      /\ Slidable' = Slidable
      /\ AutoHidden(Standing)' = AutoHidden(Standing)
  BY DEF HoverTick, HoverStandsDown, HoverLooks, HoverSetsRevealed, window, Standing,
     Slidable, AutoHidden
<1>2. LoopCurrent'
  <2>1. CASE HoverTick
    BY <1>1, <2>1 DEF HoverTick, LoopCurrent, Slidable, SlideSteps
  <2>2. CASE HoverLooks
    BY <1>1, <2>2 DEF HoverLooks, Picture, LoopCurrent, SlideSteps
  <2>3. CASE hover' = "idle"
    BY <2>3 DEF LoopCurrent, SlideSteps
  <2> QED
    BY <2>1, <2>2, <2>3 DEF HoverStandsDown, HoverSetsRevealed
<1>3. LoopEntitled'
  <2>1. CASE HoverLooks
    <3>1. Slidable /\ visible
      BY <2>1 DEF HoverLooks, Picture, LoopCurrent
    <3> QED
      BY <1>1, <3>1 DEF LoopEntitled
  <2>2. CASE hover' \in {"idle", "sampled"}
    BY <1>1, <2>2 DEF Picture, LoopEntitled, SlideSteps
  <2> QED
    BY <2>1, <2>2 DEF HoverTick, HoverStandsDown, HoverSetsRevealed
<1>4. PlaceKept' /\ AreaKept'
  BY <1>1 DEF Picture, PlaceKept, AreaKept
<1>5. Believed' = Believed
  <2>1. CASE HoverTick
    BY <2>1 DEF HoverTick, window, Believed, TypeOK
  <2>2. CASE HoverStandsDown
    BY <2>2 DEF HoverStandsDown, window, Believed, TypeOK
  <2>3. CASE HoverLooks
    BY <2>3 DEF HoverLooks, window, Believed, TypeOK
  <2>4. CASE HoverSetsRevealed
    BY <2>4 DEF HoverSetsRevealed, Believed, TypeOK
  <2> QED
    BY <2>1, <2>2, <2>3, <2>4
<1>6. Agreed'
  BY <1>1, <1>5 DEF Picture, Agreed, NoDock, Final
<1> QED
  BY <1>2, <1>3, <1>4, <1>6 DEF Picture

\* Handlers that settle for the moment: nothing of the picture changes, or the
\* dock is hidden while both threads rest.
LEMMA HidingKeepsPicture ==
    ASSUME TypeOK, Picture, HideStatus, ~crossed'
    PROVE  Picture'
<1>1. /\ visible' = FALSE /\ shown' = FALSE /\ reserved' = FALSE /\ at' = docked
      /\ uiQueue' = <<>> /\ hover' = "idle"
      /\ UNCHANGED <<cfg, revealed, docked, uiQueue>>
  BY DEF HideStatus, Settled, loop
<1>2. Len(uiQueue') = 0
  BY <1>1, EmptySeq
<1> QED
  BY <1>1, <1>2 DEF Picture, LoopCurrent, LoopEntitled, SlideSteps, PlaceKept, AreaKept,
     Agreed, Final

\* The picture depends on the settings only through the standing ones and
\* through whether the dock may be slid.
LEMMA SamePicture ==
    ASSUME Picture, UNCHANGED <<visible, window, uiQueue, loop>>,
           Standing' = Standing,
           \/ Slidable => Slidable'
           \/ uiQueue = <<>> /\ (hover # "idle" => ~sample.on)
    PROVE  Picture'
<1> USE DEF window, loop
<1>1. PlaceKept' /\ AreaKept'
  BY DEF Picture, PlaceKept, AreaKept
<1>2. Agreed'
  BY DEF Picture, Agreed, NoDock, Final, Believed, AutoHidden
<1>3. LoopCurrent' /\ LoopEntitled'
  BY DEF Picture, LoopCurrent, LoopEntitled, SlideSteps
<1> QED
  BY <1>1, <1>2, <1>3 DEF Picture

\* A save puts the settings in place that the standing ones may give way to.
LEMMA WritingKeepsPicture ==
    ASSUME TypeOK, Picture, WriteSettings, ~crossed' PROVE Picture'
<1>1. /\ UNCHANGED <<dialog, visible, window, uiQueue, loop>>
      /\ ui = "idle" /\ ui' = "saving" /\ dialog = cfg
  BY DEF WriteSettings, UIFree, TypeOK
<1>2. Standing' = Standing /\ (Slidable => Slidable')
  BY <1>1 DEF Standing, Slidable, AutoHidden
<1> QED
  BY <1>1, <1>2, SamePicture

\* The standing settings are in place for good when the file is written and they
\* did not change, or when the save failed.
LEMMA SavingKeepsPicture ==
    ASSUME TypeOK, Picture, SettingsSaved \/ SettingsSaveFailed,
           ui' # "docking", ~crossed'
    PROVE  Picture'
<1>1. /\ UNCHANGED <<visible, window, uiQueue, loop>>
      /\ ui = "saving" /\ ui' = "idle" /\ cfg' = dialog
  BY DEF SettingsSaved, SettingsSaveFailed
<1>2. Standing' = Standing
  BY <1>1 DEF Standing
<1>3. CASE AutoHidden(dialog)
  <2>1. Slidable'
    BY <1>1, <1>3 DEF Slidable, AutoHidden
  <2> QED
    BY <1>1, <1>2, <2>1, SamePicture
<1>4. CASE SettingsSaved
  <2>1. cfg = dialog
    BY <1>4 DEF SettingsSaved
  <2>2. Slidable => Slidable'
    BY <1>1, <2>1 DEF Slidable, Standing, AutoHidden
  <2> QED
    BY <1>1, <1>2, <2>2, SamePicture
<1>5. CASE SettingsSaveFailed /\ ~AutoHidden(dialog)
  <2>1. uiQueue = <<>> /\ (hover # "idle" => ~sample.on)
    BY <1>5 DEF SettingsSaveFailed, Sliding
  <2> QED
    BY <1>1, <1>2, <2>1, SamePicture
<1> QED
  BY <1>3, <1>4, <1>5

LEMMA PictureStep ==
    ASSUME IInv, [Next]_vars, ui' # "docking", ~crossed'
    PROVE  Picture'
<1>1. CASE Dock \/ ShowStatus
  BY <1>1, DockingKeepsPicture DEF IInv
<1>2. CASE RunPosted
  <2>1. CASE ApplyDock(cfg) /\ crossed' = ~(Tail(uiQueue) = <<>> /\ hover = "idle" /\ visible)
    BY <1>2, <2>1, DockedAfresh DEF IInv, RunPosted, loop, TypeOK, UIFree
  <2>2. CASE crossed' = crossed
    BY <1>2, <2>2, RunPostedKeepsPicture DEF IInv, RunPosted, UIFree
  <2> QED
    BY <1>2, <2>1, <2>2 DEF RunPosted
<1>3. CASE PinClicked \/ CancelSettings
  BY <1>3 DEF PinClicked, CancelSettings
<1>4. CASE HideStatus
  BY <1>4, HidingKeepsPicture DEF IInv, HideStatus, UIFree
<1>5. CASE WriteSettings
  BY <1>5, WritingKeepsPicture DEF IInv, WriteSettings, UIFree
<1>6. CASE SettingsSaved \/ SettingsSaveFailed
  <2>1. ui # "docking" /\ ~crossed
    <3>1. ui # "docking"
      BY <1>6 DEF SettingsSaved, SettingsSaveFailed
    <3>2. crossed => crossed'
      BY <1>6, Zenon DEF SettingsSaved, SettingsSaveFailed
    <3> QED
      BY <3>1, <3>2
  <2> QED
    BY <1>6, <2>1, SavingKeepsPicture DEF IInv
<1>7. CASE OpenSettings \/ CloseSettings \/ CursorMoves \/ DisplayChanges \/ UNCHANGED vars
  <2>1. UNCHANGED <<cfg, visible, window, ui, uiQueue, loop, crossed>>
    BY <1>7 DEF OpenSettings, CloseSettings, CursorMoves, DisplayChanges, vars
  <2>2. Standing' = Standing /\ (Slidable => Slidable')
    BY <1>7, <2>1 DEF OpenSettings, CloseSettings, CursorMoves, DisplayChanges, vars,
       Standing, Slidable, AutoHidden, UIFree
  <2> QED
    BY <2>1, <2>2, SamePicture DEF IInv
<1>8. CASE Hover
  <2>1. ui # "docking" /\ ~crossed
    BY <1>8 DEF Hover, HoverTick, HoverStandsDown, HoverRedocks, HoverLooks, HoverPosts,
       HoverSetsRevealed
  <2> QED
    BY <1>8, <2>1, PostingKeepsPicture, LoopKeepsPicture DEF IInv, Hover
<1> QED
  BY <1>1, <1>2, <1>3, <1>4, <1>5, <1>6, <1>7, <1>8 DEF Next, Handlers, User

\* The dialog that is being saved is open.
LEMMA DialogStep ==
    ASSUME TypeOK, ui = "saving" => dialog \in Dockings, [Next]_vars
    PROVE  (ui = "saving" => dialog \in Dockings)'
<1> SUFFICES ASSUME ui' = "saving" PROVE dialog' \in Dockings
  OBVIOUS
<1>1. CASE WriteSettings
  BY <1>1 DEF WriteSettings, TypeOK
<1>2. CASE ui = "saving" /\ dialog' = dialog
  BY <1>2
<1> QED
  BY <1>1, <1>2 DEF Next, Handlers, User, Hover, Dock, SettingsSaved, SettingsSaveFailed,
     RunPosted, PinClicked, ShowStatus, HideStatus, OpenSettings, CloseSettings,
     CancelSettings, HoverTick, HoverStandsDown, HoverRedocks, HoverLooks, HoverPosts,
     HoverSetsRevealed, CursorMoves, DisplayChanges, vars, UIFree

-----------------------------------------------------------------------------
(* Theorems *)

LEMMA InitInv == Init => IInv
<1> SUFFICES ASSUME Init PROVE IInv
  OBVIOUS
<1>1. AutoHidden(cfg) \in BOOLEAN
  BY DEF Init, AutoHidden, Dockings
<1>2. uiQueue \in Seq(Closures) /\ Len(uiQueue) = 0
  BY EmptySeq DEF Init
<1>3. 0 \in 0..(RevealDwellTicks - 1) /\ 0 \in 0..(HideDelayTicks - 1)
  BY DockAssumption
<1>4. sample \in [on : BOOLEAN, at : Displays]
  BY DEF Init
<1>5. TypeOK
  BY <1>1, <1>2, <1>3, <1>4 DEF Init, TypeOK
<1>6. LoopCurrent /\ LoopEntitled /\ PlaceKept /\ AreaKept
  BY <1>2 DEF Init, LoopCurrent, LoopEntitled, SlideSteps, PlaceKept, AreaKept, Standing
<1>7. Agreed
  BY <1>1, <1>2 DEF Init, Agreed, Final, Believed, Standing
<1> QED
  BY <1>5, <1>6, <1>7 DEF IInv, Picture, Init

LEMMA NextInv == IInv /\ [Next]_vars => IInv'
BY TypeStep, DialogStep, PictureStep DEF IInv

LEMMA Invariance == Spec => []IInv
<1> QED
  BY InitInv, NextInv, PTL DEF Spec

LEMMA Consequences == IInv => TypeOK /\ ThreadsAgree
<1> SUFFICES ASSUME IInv, Settled, ~crossed
    PROVE  /\ shown = (visible /\ (AutoHidden(cfg) => revealed))
           /\ reserved = (visible /\ cfg.mode = "reserved")
           /\ at = docked
  BY DEF IInv, ThreadsAgree
<1>1. Picture /\ NoDock /\ Len(uiQueue) = 0 /\ uiQueue = <<>> /\ Standing = cfg
  BY EmptySeq DEF IInv, Settled, UIFree, NoDock, Standing
<1>2. shown <=> visible /\ (AutoHidden(cfg) => revealed)
  BY <1>1 DEF Settled, Picture, Agreed, Final, Believed
<1>3. shown \in BOOLEAN
  BY DEF IInv, TypeOK
<1> QED
  BY <1>1, <1>2, <1>3 DEF Picture, PlaceKept, AreaKept

\* The variables of the dock keep their types.
THEOREM TypeCorrect == Spec => []TypeOK
<1> QED
  BY Invariance, Consequences, PTL

\* When neither thread is in the middle of a change and they have not crossed,
\* they agree on where the window is, whether it is shown and what it reserves.
THEOREM ThreadsKeepOnePicture == Spec => []ThreadsAgree
<1> QED
  BY Invariance, Consequences, PTL

-----------------------------------------------------------------------------
(* The geometry *)

\* The dock is drawn on its display, inside the area it was given.
THEOREM DockOnScreen ==
    ASSUME NEW full, NEW work, Screen(full, work), NEW edge \in Edges,
           NEW mode \in {"overlay", "reserved"}
    PROVE  LET area == DockWorkArea(mode, edge, full, work)
           IN  Within(DockRect(full, area, edge, FALSE), area) /\ Within(area, full)
<1>1. Screen(full, DockWorkArea(mode, edge, full, work))
  BY DEF Screen, DockWorkArea, Within, Width, Height, Rects, SideWidth, RibbonHeight, Gap
<1>2. ASSUME NEW area, Screen(full, area)
      PROVE  Within(DockRect(full, area, edge, FALSE), area) /\ Within(area, full)
  <2>1. CASE edge = "top"
    BY <1>2, <2>1 DEF Screen, Within, Width, Height, Rects, Rect, DockRect, Near,
       Sides, SideWidth, RibbonHeight, Gap
  <2>2. CASE edge = "bottom"
    BY <1>2, <2>2 DEF Screen, Within, Width, Height, Rects, Rect, DockRect, Near,
       Sides, SideWidth, RibbonHeight, Gap
  <2>3. CASE edge = "left"
    BY <1>2, <2>3 DEF Screen, Within, Width, Height, Rects, Rect, DockRect, Near,
       Sides, SideWidth, RibbonHeight, Gap
  <2>4. CASE edge = "right"
    BY <1>2, <2>4 DEF Screen, Within, Width, Height, Rects, Rect, DockRect, Near,
       Sides, SideWidth, RibbonHeight, Gap
  <2> QED BY <2>1, <2>2, <2>3, <2>4 DEF Edges, Sides
<1> QED BY <1>1, <1>2

\* Hidden, the dock shows on no pixel of its display, whatever the edge.
THEOREM HiddenOffScreen ==
    ASSUME NEW full, NEW work, Screen(full, work), NEW edge \in Edges,
           NEW p \in Points, On(p, full)
    PROVE  ~On(p, DockRect(full, work, edge, TRUE))
<1>1. CASE edge = "top"
  BY <1>1 DEF Screen, On, Within, Width, Height, Rects, Points, Rect, DockRect, Near,
     Sides, Edges, SideWidth, RibbonHeight, Gap
<1>2. CASE edge = "bottom"
  BY <1>2 DEF Screen, On, Within, Width, Height, Rects, Points, Rect, DockRect, Near,
     Sides, Edges, SideWidth, RibbonHeight, Gap
<1>3. CASE edge = "left"
  BY <1>3 DEF Screen, On, Within, Width, Height, Rects, Points, Rect, DockRect, Near,
     Sides, Edges, SideWidth, RibbonHeight, Gap
<1>4. CASE edge = "right"
  BY <1>4 DEF Screen, On, Within, Width, Height, Rects, Points, Rect, DockRect, Near,
     Sides, Edges, SideWidth, RibbonHeight, Gap
<1> QED BY <1>1, <1>2, <1>3, <1>4 DEF Edges, Sides

\* Every cursor position that reveals a hidden overlay also keeps it revealed,
\* on every display, with every taskbar: no position makes the dock flicker.
THEOREM RevealInsideKeep ==
    ASSUME NEW full, NEW work, Screen(full, work), NEW edge \in Edges, NEW p \in Points
    PROVE  LET area == DockWorkArea("overlay", edge, full, work)
           IN  NearDockEdge(p, edge, full, area)
               => Contains(RevealKeepRect(DockRect(full, area, edge, FALSE), edge, full), p)
<1>1. /\ Screen(full, DockWorkArea("overlay", edge, full, work))
      /\ edge \in Sides => DockWorkArea("overlay", edge, full, work) = full
  BY DEF Screen, DockWorkArea, Within, Width, Height, Rects, SideWidth, RibbonHeight, Gap
<1>2. ASSUME NEW area, Screen(full, area), edge \in Sides => area = full,
             NearDockEdge(p, edge, full, area)
      PROVE  Contains(RevealKeepRect(DockRect(full, area, edge, FALSE), edge, full), p)
  <2> USE <1>2 DEF Screen, Within, Width, Height, Rects, Points, Rect, DockRect, Near,
          NearDockEdge, RevealKeepRect, Contains, Max2, Min2,
          Sides, SideWidth, RibbonHeight, Gap, Strip
  <2>1. CASE edge = "top"
    BY <2>1
  <2>2. CASE edge = "bottom"
    BY <2>2
  <2>3. CASE edge = "left"
    BY <2>3
  <2>4. CASE edge = "right"
    BY <2>4
  <2> QED BY <2>1, <2>2, <2>3, <2>4 DEF Edges
<1> QED BY <1>1, <1>2

\* Only a cursor on the dock's own display reveals it: one on a neighbouring
\* display never does, also where the two displays touch.
THEOREM RevealOnlyFromOwnDisplay ==
    ASSUME NEW full, NEW work, Screen(full, work), NEW edge \in Edges, NEW p \in Points,
           NearDockEdge(p, edge, full, DockWorkArea("overlay", edge, full, work))
    PROVE  On(p, full)
<1> USE DEF Screen, Within, Width, Height, Rects, Points, On, DockWorkArea,
        NearDockEdge, Max2, Min2, Sides, SideWidth, RibbonHeight, Gap, Strip
<1>1. CASE edge = "top"
  BY <1>1
<1>2. CASE edge = "bottom"
  BY <1>2
<1>3. CASE edge = "left"
  BY <1>3
<1>4. CASE edge = "right"
  BY <1>4
<1> QED BY <1>1, <1>2, <1>3, <1>4 DEF Edges

\* What a reserved dock leaves to the other windows is part of the work area,
\* not empty, and free of the dock.
THEOREM ReservedLeavesDockAlone ==
    ASSUME NEW full, NEW work, Screen(full, work), NEW edge \in Edges
    PROVE  LET rect == DockRect(full, work, edge, FALSE)
               rest == ReservedWorkArea(work, edge, rect)
           IN  Within(rest, work) /\ ~Empty(rest) /\ ~RectsIntersect(rest, rect)
<1> USE DEF Screen, Within, Width, Height, Rects, Rect, DockRect, Near, Empty,
        ReservedWorkArea, RectsIntersect, Sides, SideWidth, RibbonHeight, Gap
<1>1. CASE edge = "top"
  BY <1>1
<1>2. CASE edge = "bottom"
  BY <1>2
<1>3. CASE edge = "left"
  BY <1>3
<1>4. CASE edge = "right"
  BY <1>4
<1> QED BY <1>1, <1>2, <1>3, <1>4 DEF Edges

\* The docked edge is taken for an interior one, with a dwell before the dock is
\* revealed, exactly when the cursor can go on beyond it to another display.
THEOREM InteriorMeansCrossable ==
    ASSUME NEW full, NEW work, Screen(full, work), NEW edge \in Edges,
           NEW displays \in SUBSET {r \in Rects : ~Empty(r)}
    PROVE  DisplayBeyondEdge(displays, full, edge)
           <=> \E m \in displays \ {full}, p \in Points : On(p, m) /\ On(p, Probe(full, edge))
<1> DEFINE probe == Probe(full, edge)
<1>1. probe \in Rects /\ ~Empty(probe)
  <2> USE DEF Screen, Within, Width, Height, Rects, Rect, Probe, Empty, Sides,
          SideWidth, RibbonHeight, Gap, ProbeDepth
  <2>1. CASE edge = "top"
    BY <2>1
  <2>2. CASE edge = "bottom"
    BY <2>2
  <2>3. CASE edge = "left"
    BY <2>3
  <2>4. CASE edge = "right"
    BY <2>4
  <2> QED BY <2>1, <2>2, <2>3, <2>4 DEF Edges
<1> HIDE DEF probe
<1>2. ASSUME NEW m \in displays, RectsIntersect(m, probe)
      PROVE  \E p \in Points : On(p, m) /\ On(p, probe)
  <2> DEFINE p == [X |-> Max2(m.Left, probe.Left), Y |-> Max2(m.Top, probe.Top)]
  <2>1. p \in Points /\ On(p, m) /\ On(p, probe)
    BY <1>1, <1>2 DEF Rects, Points, RectsIntersect, On, Empty, Max2
  <2> QED BY <2>1
<1>3. ASSUME NEW m \in displays, NEW p \in Points, On(p, m), On(p, probe)
      PROVE  RectsIntersect(m, probe)
  BY <1>1, <1>3 DEF Rects, Points, RectsIntersect, On
<1> QED BY <1>2, <1>3 DEF DisplayBeyondEdge, probe

\* A dialog of any size and offset lies in the work area it was placed in.
THEOREM DialogInsideWork ==
    ASSUME NEW work \in Rects, ~Empty(work),
           NEW width \in Nat \ {0}, NEW height \in Nat \ {0}, NEW offset \in Int
    PROVE  LET b == DialogBounds(work, width, height, offset)
           IN  /\ b.Width > 0 /\ b.Height > 0
               /\ Within(Rect(b.X, b.Y, b.X + b.Width, b.Y + b.Height), work)
<1> DEFINE w == Min2(width, Width(work))
           h == Min2(height, Height(work))
           x == (Width(work) - w) \div 2
           y == (Height(work) - h) \div 2
<1>1. /\ w \in Int /\ w > 0 /\ w <= Width(work)
      /\ h \in Int /\ h > 0 /\ h <= Height(work)
  BY DEF Min2, Width, Height, Rects, Empty
<1>2. /\ Width(work) \in Int /\ Width(work) = work.Right - work.Left
      /\ Height(work) \in Int /\ Height(work) = work.Bottom - work.Top
      /\ work.Left \in Int /\ work.Top \in Int /\ work.Right \in Int /\ work.Bottom \in Int
  BY DEF Rects, Width, Height
<1> HIDE DEF w, h
<1>3. /\ x \in Int /\ 0 <= x /\ x <= Width(work) - w
      /\ y \in Int /\ 0 <= y /\ y <= Height(work) - h
  BY <1>1, <1>2
<1> HIDE DEF x, y
<1> DEFINE yy == IF offset >= 0
                 THEN Max2(Min2(work.Top + offset, work.Bottom - h), work.Top)
                 ELSE work.Top + y
<1>4. yy \in Int /\ work.Top <= yy /\ yy + h <= work.Bottom
  BY <1>1, <1>2, <1>3 DEF Max2, Min2
<1> HIDE DEF yy
<1>5. DialogBounds(work, width, height, offset)
        = [X |-> work.Left + x, Y |-> yy, Width |-> w, Height |-> h]
  BY DEF DialogBounds, yy, x, y, w, h
<1> QED BY <1>1, <1>2, <1>3, <1>4, <1>5 DEF Within, Rect

=============================================================================
