------------------------------- MODULE Desktop -------------------------------
(***************************************************************************)
(* The user's side of the system: keys and pointer, the shell on the text  *)
(* console, the desktop, and the part of the main loop (kernel.c) that     *)
(* drives them.                                                            *)
(*                                                                         *)
(* The decoders of Input.tla hand a key over as its character or its name, *)
(* and the ring between them and the handlers is a FIFO (Implements), so a *)
(* key press is one step here.  user says what the person at the machine   *)
(* does, which only restricts the keys pressed and the places pointed at:  *)
(* work in the shell, use one view of the desktop, or, for the decoders    *)
(* themselves, press modifiers or move the mouse.                          *)
(***************************************************************************)
EXTENDS Shell, Input

CONSTANTS Users,       \* what users do
          Keys,        \* keys by user, in the shell and on the desktop
          UsbUsers,    \* users with a USB keyboard; the others have a PS/2 one
          Patient,     \* users who wait for a line to run before they type another
          Terse,       \* users who type lines of one character
          Staying,     \* users who never leave the desktop
          Places       \* places the pointer visits, by user

VARIABLE user

deskVars == <<shellVars, user>>

allVars == <<deskVars, inputVars>>

Decoding == user \in {"modifiers", "mouse"}

-----------------------------------------------------------------------------
(* Keys *)

\* The end of keyboard_process_scancode() and of dispatch_hid_key(): a character.
Character(key) ==
  IF gui.active
    THEN LET g == gui_handle_key(gui, key)
         IN  /\ gui' = g
             /\ IF g.active THEN UNCHANGED <<con, lineVars, queueVars, start>> ELSE ReturnFromDesktop
    ELSE shell_input_char(key)

Scroll(way) == con' = Calls(con, <<way>>) /\ UNCHANGED <<gui, lineVars, queueVars, start>>

GuiKey(key) == gui' = gui_handle_key(gui, key) /\ UNCHANGED <<con, lineVars, queueVars, start>>

Ignore == UNCHANGED <<con, gui, lineVars, queueVars, start>>

\* dispatch_special(): the keys with a 0xE0 prefix, from a PS/2 keyboard.
dispatch_special(key, ctrl) ==
  IF gui.active
    THEN IF key \in {"up", "down", "left", "right"} THEN GuiKey(key) ELSE Ignore
    ELSE CASE key = "pageup" \/ (key = "up" /\ ctrl)     -> Scroll("back")
           [] key = "pagedown" \/ (key = "down" /\ ctrl) -> Scroll("forward")
           [] key = "up" /\ ~ctrl                        -> shell_history_prev
           [] key = "down" /\ ~ctrl                      -> shell_history_next
           [] OTHER                                      -> Ignore

\* dispatch_hid_key(): the same keys from a USB keyboard; the page keys scroll the
\* console whether the desktop is up or not.
dispatch_hid_key(key, ctrl) ==
  CASE key = "pageup"   -> Scroll("back")
    [] key = "pagedown" -> Scroll("forward")
    [] OTHER            -> dispatch_special(key, ctrl)

Special == {"up", "down", "left", "right", "pageup", "pagedown"}

Avoids(key) ==
  \/ user \in Patient /\ ~gui.active /\ pend.count > 0
  \/ user \in Terse /\ ~gui.active /\ (buf = NoLine) = (key = NewLine)
  \/ user \in Staying /\ gui.active /\ gui.view = DESKTOP /\ key = Esc

KeyPress(key, ctrl) ==
  /\ ~Decoding /\ ~Avoids(key)
  /\ ctrl => key \in {"up", "down"}
  /\ IF key \notin Special THEN Character(key)
     ELSE IF user \in UsbUsers THEN dispatch_hid_key(key, ctrl) ELSE dispatch_special(key, ctrl)
  /\ UNCHANGED <<mouse, user, inputVars>>

\* A packet or a report of the mouse, as mouse_process_byte() and
\* mouse_process_usb_report() leave it.
PointAt(place, button) ==
  /\ ~Decoding
  /\ mouse' = [x |-> place[1], y |-> place[2], button |-> button, moved |-> TRUE]
  /\ <<mouse'.x, mouse'.y, button>> # <<mouse.x, mouse.y, mouse.button>>
  /\ UNCHANGED <<con, gui, lineVars, queueVars, start, user, inputVars>>

-----------------------------------------------------------------------------
(* The main loop, after kernel_events_process() *)

\* Mutant: the caret is not taken down when the desktop comes up.
KeepCaret(active) == IF active THEN <<>> ELSE <<"tick">>

Caret(active) == IF active THEN <<"disable">> ELSE <<"tick">>

\* gui_update(), when the desktop is up; second says that the clock went on.
gui_update(g, second) ==
  LET pressed == mouse.button /\ ~g.prev
  IN  \E p \in {gui_window_pointer(g.wm, mouse.x, mouse.y, mouse.button, pressed)} :
      \E seen \in {CloseWindow([g EXCEPT !.prev = mouse.button, !.wm = p.wm], p.event)} :
      \E new \in {ViewPointer(seen, mouse, pressed)} :
        /\ gui' = IF second \/ p.event # 0 \/ Differ(new, g) THEN gui_draw_desktop(new) ELSE new
        /\ mouse' = [mouse EXCEPT !.moved = FALSE]

Look(g, second) == IF g.active THEN gui_update(g, second) ELSE gui' = g /\ UNCHANGED mouse

Due == ~gui.active /\ pend.count > 0

\* io: the files of the line's redirections are there, where a line runs; second:
\* the clock of the desktop went on, as it did when gui_start() has just reset it.
RestOfPass(io, second) ==
  /\ ~Decoding
  /\ ~Due => io
  /\ second = IF gui.active THEN second ELSE Due
  /\ \E done \in {IF Due THEN shell_process_pending(io) ELSE [calls |-> <<>>, gui |-> gui]} :
       /\ con' = Calls(con, done.calls \o Caret(done.gui.active))
       /\ Look(done.gui, second)
  /\ IF Due
       THEN /\ pend' = dequeue_command
            /\ ran' = <<pend.line[pend.tail]>>
            /\ start' = IF buf = NoLine THEN con'.col ELSE -1
            /\ UNCHANGED refused
       ELSE UNCHANGED <<queueVars, start>>
  /\ UNCHANGED <<lineVars, user, inputVars>>

-----------------------------------------------------------------------------
DeskInit ==
  /\ user \in Users
  /\ ShellInit
  /\ mouse = [x |-> ScreenW \div 2, y |-> ScreenH \div 2, button |-> FALSE, moved |-> FALSE]
  /\ InputInit
  /\ ~Decoding => packet_len = 3
  /\ user \notin UsbUsers => gui.buffered

DeskNext ==
  \/ \E key \in Keys[user][gui.active], ctrl \in BOOLEAN : KeyPress(key, ctrl)
  \/ \E place \in Places[user], button \in BOOLEAN : PointAt(place, button)
  \/ \E io, second \in BOOLEAN : RestOfPass(io, second)
  \/ /\ Decoding
     /\ InputNext
     /\ user = "modifiers" => UNCHANGED mout
     /\ user = "mouse" => UNCHANGED keys
     /\ UNCHANGED deskVars

DeskSpec == DeskInit /\ [][DeskNext]_allVars

-----------------------------------------------------------------------------
\* The scrollback and the frame buffer never disagree, and the caret leaves no copy
\* of itself behind, however printing, scrolling, clearing, blinking and the switch
\* to the desktop and back interleave.
ScreenShowsHistory == ShowsHistory(con) /\ OneCaret(con)

\* The text caret blinks exactly while the shell has the screen: the desktop takes
\* it down in the pass that starts it, and leaving the desktop brings it back.
CaretFollowsShell == con.enabled = ~gui.active /\ (gui.active => con.carets = {})

\* What the user sees of the line being typed is what Enter would run: recalling
\* history, returning to the draft, rubbing out and scrolling keep the open line
\* and g_buf the same, unless a command printed in between or the line wrapped.
LineShown ==
  (start >= 0 /\ ~gui.active) =>
    /\ con.col = start + Len(buf)
    /\ \A i \in 1..Len(buf) : con.lines[hist_slot(con.total)][start + i - 1] = buf[i]
    /\ \A x \in con.col..(Cols - 1) : con.lines[hist_slot(con.total)][x] = Blank

PendingLines == [i \in 1..pend.count |-> pend.line[(pend.tail + i - 1) % QueueSize]]

Characters == UNION {Keys[u][FALSE] : u \in Users} \ (Special \cup {NewLine, BackSpace})

Lines == UNION {[1..n -> Characters] : n \in 1..(BufSize - 1)}

LossyLines == INSTANCE LossyQueue WITH
  Events <- Lines, Room <- QueueSize, queue <- PendingLines, got <- ran, dropped <- refused

\* Lines entered run in the order they were entered, each once, across the desktop
\* too; only a line entered while QueueSize wait is refused.
CommandsInOrder == LossyLines!Spec

\* On the desktop the keys act on what exists and on what the window manager calls
\* active, no window is out of reach, and the desktop shows its state.
DeskSound ==
  /\ SelectionExists(gui) /\ WindowOfView(gui) /\ Reachable(gui.wm)
  /\ DesktopShown(gui)
=============================================================================
