---------------------------- MODULE DockGeometry ----------------------------
(***************************************************************************)
(* The geometry of the dock (ui/app.go): where it goes on its display, from *)
(* where it is revealed, where the cursor keeps it, what it takes from the  *)
(* work area, and where a dialog goes.                                      *)
(*                                                                         *)
(* Display rectangles are half-open: Right and Bottom are outside.          *)
(* Coordinates are the pixels of a desktop, far from the limits of int32.   *)
(***************************************************************************)
EXTENDS Integers

SideWidth    == 350  \* dockSideWidth
RibbonHeight == 96   \* dockRibbonHeight
Gap          == 2    \* dockEdgeGap
Strip        == 12   \* dockRevealStrip and the 4 pixels of nearDockEdge
ProbeDepth   == 2    \* how far displayBeyondEdge looks

Sides == {"left", "right"}
Edges == Sides \cup {"top", "bottom"}

Points == [X : Int, Y : Int]
Rects  == [Left : Int, Top : Int, Right : Int, Bottom : Int]
Boxes  == [X : Int, Y : Int, Width : Int, Height : Int]  \* walk.Rectangle

Rect(l, t, r, b) == [Left |-> l, Top |-> t, Right |-> r, Bottom |-> b]
Width(r)  == r.Right - r.Left
Height(r) == r.Bottom - r.Top
Max2(a, b) == IF a >= b THEN a ELSE b
Min2(a, b) == IF a <= b THEN a ELSE b

-----------------------------------------------------------------------------
(* Operators of the reader's own, to speak of the code's *)

\* p is a pixel of r.
On(p, r) ==
    /\ r.Left <= p.X /\ p.X < r.Right
    /\ r.Top <= p.Y /\ p.Y < r.Bottom

\* Every pixel of r is one of s.
Within(r, s) ==
    /\ s.Left <= r.Left /\ r.Right <= s.Right
    /\ s.Top <= r.Top /\ r.Bottom <= s.Bottom

Empty(r) == r.Left >= r.Right \/ r.Top >= r.Bottom

\* A display and its work area, with room for the dock.
Screen(full, work) ==
    /\ full \in Rects /\ work \in Rects
    /\ Within(work, full)
    /\ Width(work) > SideWidth + Gap
    /\ Height(work) > RibbonHeight + Gap

-----------------------------------------------------------------------------
(* The dock *)

\* Side overlays cover the display, everything else keeps to the work area.
DockWorkArea(mode, edge, full, work) ==
    IF mode = "overlay" /\ edge \in Sides THEN full ELSE work

\* Where the dock is along the axis across its edge: its first pixel.
Near(full, work, edge, hidden) ==
    CASE edge = "top"    -> IF hidden THEN full.Top - RibbonHeight - Gap ELSE work.Top + Gap
      [] edge = "left"   -> IF hidden THEN full.Left - SideWidth - Gap ELSE work.Left + Gap
      [] edge = "right"  -> IF hidden THEN full.Right + Gap ELSE work.Right - SideWidth - Gap
      [] edge = "bottom" -> IF hidden THEN full.Bottom + Gap ELSE work.Bottom - RibbonHeight - Gap

DockRect(full, work, edge, hidden) ==
    LET n == Near(full, work, edge, hidden) IN
    IF edge \in Sides
    THEN Rect(n, work.Top, n + SideWidth, work.Bottom)
    ELSE Rect(work.Left, n, work.Right, n + RibbonHeight)

\* The work area that a reserved dock at rect leaves to the other windows.
ReservedWorkArea(work, edge, rect) ==
    CASE edge = "top"    -> [work EXCEPT !.Top = rect.Bottom]
      [] edge = "left"   -> [work EXCEPT !.Left = rect.Right]
      [] edge = "right"  -> [work EXCEPT !.Right = rect.Left]
      [] edge = "bottom" -> [work EXCEPT !.Bottom = rect.Top]

-----------------------------------------------------------------------------
(* The cursor *)

\* The cursor at pos presses against the docked edge.
NearDockEdge(pos, edge, full, work) ==
    CASE edge = "top" ->
            /\ work.Left <= pos.X /\ pos.X < work.Right
            /\ full.Top <= pos.Y /\ pos.Y <= Max2(work.Top + 4, full.Top + Strip)
      [] edge = "bottom" ->
            /\ work.Left <= pos.X /\ pos.X < work.Right
            /\ pos.Y < full.Bottom /\ pos.Y >= Min2(work.Bottom - 4, full.Bottom - Strip)
      [] edge = "left" ->
            /\ work.Top <= pos.Y /\ pos.Y < work.Bottom
            /\ full.Left <= pos.X /\ pos.X <= full.Left + Strip
      [] edge = "right" ->
            /\ work.Top <= pos.Y /\ pos.Y < work.Bottom
            /\ pos.X < full.Right /\ pos.X >= full.Right - Strip

\* Where the cursor keeps a revealed dock at rect, as a walk.Rectangle.
RevealKeepRect(rect, edge, full) ==
    LET SideMargin == 40
        Margin == 10
    IN  CASE edge = "left" ->
               [X |-> full.Left, Y |-> rect.Top,
                Width |-> rect.Right - full.Left + SideMargin, Height |-> Height(rect)]
          [] edge = "right" ->
               [X |-> rect.Left - SideMargin, Y |-> rect.Top,
                Width |-> full.Right - rect.Left + SideMargin, Height |-> Height(rect)]
          [] edge = "top" ->
               [X |-> rect.Left - Margin, Y |-> full.Top,
                Width |-> Width(rect) + 2 * Margin, Height |-> rect.Bottom - full.Top + Margin]
          [] edge = "bottom" ->
               [X |-> rect.Left - Margin, Y |-> rect.Top - Margin,
                Width |-> Width(rect) + 2 * Margin, Height |-> full.Bottom - rect.Top + Margin]

\* contains; Right() and Bottom() of a walk.Rectangle are its last pixels.
Contains(box, p) ==
    /\ box.Width > 0 /\ box.Height > 0
    /\ box.X <= p.X /\ p.X <= box.X + box.Width - 1
    /\ box.Y <= p.Y /\ p.Y <= box.Y + box.Height - 1

-----------------------------------------------------------------------------
(* Other displays *)

RectsIntersect(a, b) ==
    /\ a.Left < b.Right /\ b.Left < a.Right
    /\ a.Top < b.Bottom /\ b.Top < a.Bottom

\* The strip just beyond the edge of the display.
Probe(full, edge) ==
    CASE edge = "top"    -> Rect(full.Left, full.Top - ProbeDepth, full.Right, full.Top)
      [] edge = "bottom" -> Rect(full.Left, full.Bottom, full.Right, full.Bottom + ProbeDepth)
      [] edge = "left"   -> Rect(full.Left - ProbeDepth, full.Top, full.Left, full.Bottom)
      [] edge = "right"  -> Rect(full.Right, full.Top, full.Right + ProbeDepth, full.Bottom)

\* displays are the bounds of all the monitors, the dock's own among them.
DisplayBeyondEdge(displays, full, edge) ==
    \E m \in displays \ {full} : RectsIntersect(m, Probe(full, edge))

-----------------------------------------------------------------------------
(* Dialogs *)

\* A dialog of the given size, offset below the top of the work area, or in
\* its middle if the offset is negative.  It shrinks to fit.
DialogBounds(work, width, height, offset) ==
    LET w == Min2(width, Width(work))
        h == Min2(height, Height(work))
    IN  [X |-> work.Left + (Width(work) - w) \div 2,
         Y |-> IF offset >= 0
               THEN Max2(Min2(work.Top + offset, work.Bottom - h), work.Top)
               ELSE work.Top + (Height(work) - h) \div 2,
         Width |-> w, Height |-> h]
=============================================================================
