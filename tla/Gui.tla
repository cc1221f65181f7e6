--------------------------------- MODULE Gui ---------------------------------
(***************************************************************************)
(* gui/core/gui.c: the desktop, its four built-in views and the pointer.   *)
(*                                                                         *)
(* gui is a record and the functions of the file map one record to the     *)
(* next:                                                                   *)
(*   active, view, app        g_gui_active, g_view, g_selected_app         *)
(*   settings, files, query, sel, term   what each view has selected or    *)
(*                            typed in it                                  *)
(*   prev                     g_prev_buttons, of the left button           *)
(*   dir                      the directory the shell is in (vfs.c)        *)
(*   wm                       the windows (Window.tla)                     *)
(*   buffered, shown          whether there is a back buffer, and the view *)
(*                            and dock selection that the frame buffer     *)
(*                            shows                                        *)
(* The pointer is the record mouse kept by mouse.c.  Messages, the clock's *)
(* digits and the drawing itself are left out.                             *)
(***************************************************************************)
EXTENDS Window, Sequences, FiniteSets, TLC

CONSTANTS Esc,
          Letters,       \* other characters a view accepts
          QueryRoom,     \* longest g_search_query
          TermRoom,      \* longest g_term_line
          TermDesktop,   \* the terminal line "desktop"
          Hits,          \* entries of g_search_names by query
          Listing,       \* what vfs_gui_list() gives by directory, sub-directories by name
          Parent         \* by directory

Enter == "newline"       \* GUI_KEY_ENTER is '\n'
Erase == "backspace"
Up == {"up", "w"}
Down == {"down", "s"}
Left == {"left", "a"}
Right == {"right", "d"}

DESKTOP == 0
APP_COUNT == 3

GuiInit(buffered) ==
  [active |-> FALSE, view |-> DESKTOP, app |-> 0, settings |-> 0, files |-> 0, query |-> <<>>, sel |-> 0,
   term |-> <<>>, prev |-> FALSE, dir |-> "root", wm |-> WindowsInit, buffered |-> buffered, shown |-> <<>>]

search_visible_count(g) == Cardinality(Hits[g.query])

\* search_result_at(): the selected one of the matching entries, in order.
search_result_at(g) ==
  CHOOSE i \in Hits[g.query] : Cardinality({j \in Hits[g.query] : j < i}) = g.sel

WindowW(view) ==
  IF view \in {SEARCH, SETTINGS}
    THEN LET w == (ScreenW * 2) \div 3 IN IF w < (IF view = SEARCH THEN 500 ELSE 520) THEN ScreenW - 24 ELSE w
    ELSE LET w == (ScreenW * 3) \div 4 IN IF w < (IF view = TERMINAL THEN 500 ELSE 520) THEN ScreenW - 24 ELSE w

LeastHeight == (TERMINAL :> 300) @@ (SETTINGS :> 330) @@ (FILES :> 340) @@ (SEARCH :> 280)

WindowH(view) ==
  LET h == IF view \in {SEARCH, SETTINGS} THEN (ScreenH * 2) \div 3 ELSE (ScreenH * 3) \div 4
  IN  IF h < LeastHeight[view] THEN ScreenH - 24 ELSE h

Picture(g) == <<g.view, g.app>>

\* gui_draw_desktop(): a view opens its window and returns; only the desktop is
\* copied from the back buffer to the screen.
gui_draw_desktop(g) ==
  IF g.view = DESKTOP THEN [g EXCEPT !.shown = Picture(g)]
  ELSE [g EXCEPT !.wm = gui_window_open(g.wm, g.view, WindowW(g.view), WindowH(g.view)),
                 !.shown = IF g.buffered THEN @ ELSE Picture(g)]

gui_start(g, mouse) ==
  gui_draw_desktop([g EXCEPT !.active = TRUE, !.app = 0, !.prev = mouse.button, !.query = <<>>, !.sel = 0])

gui_exit(g) == [g EXCEPT !.active = FALSE, !.view = DESKTOP]

OpenSearch(g) == [g EXCEPT !.view = SEARCH, !.query = <<>>, !.sel = 0]
OpenTerminal(g) == [g EXCEPT !.view = TERMINAL, !.term = <<>>]
OpenSettings(g) == [g EXCEPT !.view = SETTINGS, !.settings = 0]
OpenFiles(g) == [g EXCEPT !.view = FILES, !.files = 0]

\* search_execute(): Files, Terminal, Settings; Reboot and Shutdown only tell.
search_execute(g) ==
  CASE search_result_at(g) = 0 -> OpenFiles(g)
    [] search_result_at(g) = 1 -> OpenTerminal(g)
    [] search_result_at(g) = 2 -> OpenSettings(g)
    [] OTHER                   -> [g EXCEPT !.view = DESKTOP]

\* vfs_cd("..") and the top of the list.
CdUp(g) == [g EXCEPT !.dir = Parent[@], !.files = 0]

files_open_selected(g) ==
  LET list == Listing[g.dir]
  IN  IF g.files = 0 THEN CdUp(g)
      ELSE IF g.files <= Len(list) /\ list[g.files] \in DOMAIN Listing
        THEN [g EXCEPT !.dir = list[g.files], !.files = 0]
        ELSE g

terminal_execute(g) ==
  [g EXCEPT !.term = <<>>, !.view = IF g.term = TermDesktop THEN DESKTOP ELSE @]

-----------------------------------------------------------------------------
(* Keys *)

\* Mutant: typing narrows the matches and leaves the selection where it was.
SearchTypeOn(g, key) ==
  IF key \in Letters /\ Len(g.query) < QueryRoom THEN [g EXCEPT !.query = Append(@, key)] ELSE g

SearchType(g, key) ==
  IF key \in Letters /\ Len(g.query) < QueryRoom THEN [g EXCEPT !.query = Append(@, key), !.sel = 0] ELSE g

Shorter(s) == IF s = <<>> THEN s ELSE SubSeq(s, 1, Len(s) - 1)

SearchKey(g, key) ==
  LET count == search_visible_count(g)
  IN  CASE key = Esc -> [g EXCEPT !.view = DESKTOP]
        [] key \in Up -> IF count = 0 THEN g ELSE [g EXCEPT !.sel = (@ + count - 1) % count]
        [] key \in Down -> IF count = 0 THEN g ELSE [g EXCEPT !.sel = (@ + 1) % count]
        [] key = Enter -> IF count = 0 THEN g ELSE search_execute(g)
        [] key = Erase -> [g EXCEPT !.query = Shorter(@), !.sel = 0]
        [] OTHER -> SearchType(g, key)

FilesKey(g, key) ==
  LET total == Len(Listing[g.dir]) + 1
  IN  CASE key = Esc -> [g EXCEPT !.view = DESKTOP]
        [] key \in Up -> [g EXCEPT !.files = (@ + total - 1) % total]
        [] key \in Down -> [g EXCEPT !.files = (@ + 1) % total]
        [] key = Enter -> files_open_selected(g)
        [] key = Erase -> CdUp(g)
        [] OTHER -> g

SettingsKey(g, key) ==
  CASE key = Esc -> [g EXCEPT !.view = DESKTOP]
    [] key \in Up -> [g EXCEPT !.settings = (@ + 4) % 5]
    [] key \in Down -> [g EXCEPT !.settings = (@ + 1) % 5]
    [] OTHER -> g

TerminalKey(g, key) ==
  CASE key = Esc -> [g EXCEPT !.view = DESKTOP]
    [] key = Enter -> terminal_execute(g)
    [] key = Erase -> [g EXCEPT !.term = Shorter(@)]
    [] key \in Letters /\ Len(g.term) < TermRoom -> [g EXCEPT !.term = Append(@, key)]
    [] OTHER -> g

DesktopKey(g, key) ==
  CASE key \in {"/", "q"} -> OpenSearch(g)
    [] key \in Left -> [g EXCEPT !.app = (@ + APP_COUNT - 1) % APP_COUNT]
    [] key \in Right -> [g EXCEPT !.app = (@ + 1) % APP_COUNT]
    [] key = Enter -> CASE g.app = 0 -> OpenFiles(g) [] g.app = 1 -> OpenTerminal(g) [] OTHER -> OpenSettings(g)
    [] OTHER -> g

\* gui_handle_key(): Esc leaves the desktop without a redraw.  A key that changes
\* nothing may redraw or not: the window of the view is open (WindowOfView).
gui_handle_key(g, key) ==
  IF ~g.active THEN g
  ELSE IF g.view = DESKTOP /\ key = Esc THEN gui_exit(g)
  ELSE LET new == CASE g.view = SEARCH -> SearchKey(g, key)
                    [] g.view = FILES -> FilesKey(g, key)
                    [] g.view = SETTINGS -> SettingsKey(g, key)
                    [] g.view = TERMINAL -> TerminalKey(g, key)
                    [] OTHER -> DesktopKey(g, key)
       IN  IF new = g THEN g ELSE gui_draw_desktop(new)

-----------------------------------------------------------------------------
(* The pointer *)

CentreX(view) == (ScreenW - WindowW(view)) \div 2
CentreY(view) == (ScreenH - WindowH(view)) \div 2

Within(v, first, end) == v >= first /\ v < end

\* Height of the title that closes the view on a click near its right end.
TitleHeight == (TERMINAL :> 32) @@ (SETTINGS :> 36) @@ (FILES :> 36) @@ (SEARCH :> 42)

\* The hit boxes are those of a centred window, wherever it was dragged to.
ClosesView(view, m) ==
  m.x >= CentreX(view) + WindowW(view) - 60 /\ Within(m.y, CentreY(view), CentreY(view) + TitleHeight[view])

\* The row of the view under the pointer, -1 for none.
SearchRow(g, m) ==
  LET x == CentreX(SEARCH) y == CentreY(SEARCH) count == search_visible_count(g)
  IN  IF Within(m.x, x + 16, x + WindowW(SEARCH) - 16) /\ Within(m.y, y + 139, y + 144 + count * 34)
        THEN (m.y - (y + 139)) \div 34 ELSE -1

FilesColumn(m) == Within(m.x, CentreX(FILES) + 14, CentreX(FILES) + WindowW(FILES) - 14)

FilesRow(g, m) ==
  LET y == CentreY(FILES) count == Len(Listing[g.dir])
  IN  CASE FilesColumn(m) /\ Within(m.y, y + 76, y + 100) -> 0
        [] FilesColumn(m) /\ Within(m.y, y + 104, y + 104 + count * 28) -> 1 + (m.y - (y + 104)) \div 28
        [] OTHER -> -1

SettingsRow(m) ==
  LET x == CentreX(SETTINGS) y == CentreY(SETTINGS)
  IN  IF Within(m.x, x + 14, x + WindowW(SETTINGS) - 14) /\ Within(m.y, y + 76, y + 82 + 5 * 42)
        THEN Least((m.y - (y + 76)) \div 42, 4) ELSE -1

\* Search: hovering selects a row, a click runs it.
SearchPointer(g, m, pressed) ==
  LET row == SearchRow(g, m)
      real == row >= 0 /\ row < search_visible_count(g)
      hovered == IF m.moved /\ real THEN [g EXCEPT !.sel = row] ELSE g
  IN  CASE pressed /\ ClosesView(SEARCH, m) -> [hovered EXCEPT !.view = DESKTOP]
        [] pressed /\ ~ClosesView(SEARCH, m) /\ real -> search_execute([hovered EXCEPT !.sel = row])
        [] OTHER -> hovered

\* Files: a click opens the selected row, wherever in the list it falls.
FilesPointer(g, m, pressed) ==
  LET row == FilesRow(g, m)
      count == Len(Listing[g.dir])
      hovered == IF m.moved /\ row >= 0 THEN [g EXCEPT !.files = row] ELSE g
      inList == FilesColumn(m) /\ Within(m.y, CentreY(FILES) + 76, CentreY(FILES) + 104 + count * 28)
  IN  CASE pressed /\ ClosesView(FILES, m) -> [hovered EXCEPT !.view = DESKTOP]
        [] pressed /\ ~ClosesView(FILES, m) /\ inList -> files_open_selected(hovered)
        [] OTHER -> hovered

SettingsPointer(g, m, pressed) ==
  LET hovered == IF m.moved /\ SettingsRow(m) >= 0 THEN [g EXCEPT !.settings = SettingsRow(m)] ELSE g
  IN  IF pressed /\ ClosesView(SETTINGS, m) THEN [hovered EXCEPT !.view = DESKTOP] ELSE hovered

TerminalPointer(g, m, pressed) ==
  IF pressed /\ ClosesView(TERMINAL, m) THEN [g EXCEPT !.view = DESKTOP] ELSE g

OnDock(m) == m.y >= ScreenH - (IF ScreenH >= 720 THEN 52 ELSE 44)
NexusButton(m) == m.x >= 8 /\ m.x <= 46
SearchButton(m) == m.x >= 52 /\ m.x <= 144

\* The dock icon under the pointer, -1 for none.
DockIcon(m) ==
  LET start == (ScreenW - (APP_COUNT * 30 + (APP_COUNT - 1) * 6)) \div 2
      under == {i \in 0..(APP_COUNT - 1) : Within(m.x, start + i * 36, start + i * 36 + 30)}
  IN  IF under = {} THEN -1 ELSE CHOOSE i \in under : TRUE

\* Hovering selects, a click opens.
DesktopPointer(g, m, pressed) ==
  LET icon == IF NexusButton(m) THEN 0 ELSE IF SearchButton(m) THEN -1 ELSE DockIcon(m)
      hovered == IF m.moved /\ OnDock(m) /\ icon >= 0 THEN [g EXCEPT !.app = icon] ELSE g
  IN  CASE ~pressed \/ ~OnDock(m) -> hovered
        [] NexusButton(m) -> [hovered EXCEPT !.app = 0]
        [] SearchButton(m) -> OpenSearch(hovered)
        [] icon >= 0 -> DesktopKey([hovered EXCEPT !.app = icon], Enter)
        [] OTHER -> hovered

\* gui_update(): one look at the pointer.  The window manager comes first: it may
\* close a window, and the view with it; then the view.
CloseWindow(g, event) ==
  IF event >= 0 THEN g ELSE [g EXCEPT !.wm = gui_window_close(@, -event), !.view = DESKTOP]

ViewPointer(g, m, pressed) ==
  CASE g.view = SEARCH -> SearchPointer(g, m, pressed)
    [] g.view = FILES -> FilesPointer(g, m, pressed)
    [] g.view = SETTINGS -> SettingsPointer(g, m, pressed)
    [] g.view = TERMINAL -> TerminalPointer(g, m, pressed)
    [] OTHER -> DesktopPointer(g, m, pressed)

Differ(new, old) ==
  Picture(new) # Picture(old) \/ new.sel # old.sel \/ new.files # old.files
  \/ new.settings # old.settings \/ new.dir # old.dir

-----------------------------------------------------------------------------
\* The view that takes the keys has its window open, and it is the active one.
WindowOfView(g) == (g.active /\ g.view # DESKTOP) => g.wm.active = g.view /\ g.wm.win[g.view].visible

\* What Enter would act on exists: a row of the matches, an entry of the directory.
SelectionExists(g) ==
  /\ (g.view = SEARCH /\ search_visible_count(g) > 0) => g.sel < search_visible_count(g)
  /\ g.view = FILES => g.files <= Len(Listing[g.dir])

\* On the desktop the screen shows the state that the keys act on.
DesktopShown(g) == (g.active /\ g.view = DESKTOP) => g.shown = Picture(g)
=============================================================================
