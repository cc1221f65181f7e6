------------------------------- MODULE Window -------------------------------
(***************************************************************************)
(* gui/window/window.c: the window manager of the desktop.                 *)
(*                                                                         *)
(* wm is a record: the windows by id (whether each is visible, where it is *)
(* and its size), the active one, and the one being dragged with the grip. *)
(* Ids are the views of gui.c.  Each function maps one record to the next. *)
(***************************************************************************)
EXTENDS Integers

CONSTANTS ScreenW, ScreenH      \* the frame buffer in pixels

TERMINAL == 1
SETTINGS == 2
FILES == 3
SEARCH == 4

Ids == {TERMINAL, SETTINGS, FILES, SEARCH}

None == 0                       \* GUI_WINDOW_NONE

Least(a, b) == IF a < b THEN a ELSE b

Most(a, b) == IF a > b THEN a ELSE b

\* gui_window_manager_init()
WindowsInit ==
  [win |-> [i \in Ids |-> [visible |-> FALSE, x |-> 0, y |-> 0, width |-> 0, height |-> 0]],
   active |-> None, drag |-> None, dx |-> 0, dy |-> 0]

\* gui_window_open(): centred unless it is open with that size; then focused.
gui_window_open(wm, id, width, height) ==
  LET w == Least(Most(width, 220), ScreenW - 24)
      h == Least(Most(height, 120), ScreenH - 24)
      old == wm.win[id]
      keep == old.visible /\ old.width = w /\ old.height = h
      new == [visible |-> TRUE,
              x |-> IF keep THEN old.x ELSE (ScreenW - w) \div 2,
              y |-> IF keep THEN old.y ELSE (ScreenH - h) \div 2,
              width |-> w, height |-> h]
  IN  [wm EXCEPT !.win[id] = new, !.active = id]

gui_window_close(wm, id) ==
  [wm EXCEPT !.win[id].visible = FALSE,
             !.active = IF @ = id THEN None ELSE @,
             !.drag = IF @ = id THEN None ELSE @]

inside(w, x, y) ==
  w.visible /\ x >= w.x /\ y >= w.y /\ x < w.x + w.width /\ y < w.y + w.height

InTitle(w, y) == y < w.y + 32

\* Mutant: the window may be dragged over the right and lower edges.
DragLeftTop(wm, mx, my) ==
  [wm EXCEPT !.win[wm.drag].x = Most(mx - wm.dx, 0), !.win[wm.drag].y = Most(my - wm.dy, 0)]

\* The dragged window follows the pointer as far as the screen goes.
Drag(wm, mx, my) ==
  LET w == wm.win[wm.drag]
  IN  [wm EXCEPT !.win[wm.drag].x = Least(Most(mx - wm.dx, 0), ScreenW - w.width),
                 !.win[wm.drag].y = Least(Most(my - wm.dy, 0), ScreenH - w.height)]

\* gui_window_pointer(): the new state, and the event: a negative id to close
\* that window, the active id when a window moved, 0 otherwise.
gui_window_pointer(wm, mx, my, button, pressed) ==
  LET released == IF button THEN wm ELSE [wm EXCEPT !.drag = None]
      w == IF wm.active = None THEN WindowsInit.win[SEARCH] ELSE wm.win[wm.active]
      hit == pressed /\ wm.active # None /\ inside(w, mx, my)
      closes == hit /\ mx >= w.x + w.width - 34 /\ InTitle(w, my)
      grips == hit /\ ~closes /\ InTitle(w, my)
      gripped == IF grips THEN [released EXCEPT !.drag = wm.active, !.dx = mx - w.x, !.dy = my - w.y]
                 ELSE released
      dragged == IF gripped.drag # None /\ button THEN Drag(gripped, mx, my) ELSE gripped
  IN  CASE closes             -> [wm |-> released, event |-> -wm.active]
        [] dragged # gripped  -> [wm |-> dragged, event |-> wm.active]
        [] OTHER              -> [wm |-> gripped, event |-> 0]

\* A window never hangs over an edge of the screen, where its close button and its
\* title would be out of reach.
Reachable(wm) ==
  \A i \in Ids : LET w == wm.win[i]
                 IN  w.visible => /\ w.x >= 0 /\ w.x + w.width <= ScreenW
                                  /\ w.y >= 0 /\ w.y + w.height <= ScreenH
=============================================================================
