------------------------------- MODULE Console -------------------------------
(***************************************************************************)
(* drivers/graphics/framebuffer/console.c: the text console, its scrollback *)
(* and its caret.                                                          *)
(*                                                                         *)
(* The console is a record, con, and each function of the file maps one    *)
(* record to the next.  What a caller does to the console is a sequence of *)
(* calls, applied in order by Calls.                                       *)
(*   screen   glyphs on the frame buffer, by row and column                *)
(*   carets   cells the caret is painted over                              *)
(*   lines    g_history: the ring of text lines                            *)
(*   total    g_total_lines, the open line.  Only total % Scrollback and   *)
(*            whether total has passed the ring matter, so it is taken     *)
(*            back by Scrollback once it is beyond every test.             *)
(*   offset   g_scroll_offset                                              *)
(*   row, col the write position                                           *)
(*   enabled, visible   g_cursor_enabled, g_cursor_visible                 *)
(*   capture  <<>>, or <<text>> while output goes to a buffer              *)
(*   aligned  no redraw placed the open line below the write position      *)
(*            since the screen was last cleared (not in the code)          *)
(* Colours are left out.                                                   *)
(***************************************************************************)
EXTENDS Integers, Sequences

CONSTANTS Rows, Cols,     \* g_rows, g_cols
          Scrollback,     \* SCROLLBACK_LINES
          CaptureRoom,    \* capacity of the capture buffer
          Blank

NewLine == "newline"
BackSpace == "backspace"

EmptyLine == [x \in 0..(Cols - 1) |-> Blank]

EmptyScreen == [r \in 0..(Rows - 1) |-> EmptyLine]

hist_slot(line) == line % Scrollback

\* hist_new_line(): closes the open line and opens a clear one.
hist_new_line(c) ==
  LET next == IF c.total = 2 * Scrollback + Rows - 3 THEN c.total + 1 - Scrollback ELSE c.total + 1
  IN  [c EXCEPT !.total = next, !.lines[hist_slot(next)] = EmptyLine]

\* draw_glyph(): the glyph covers the caret, if there is one.
draw_glyph(c, glyph) ==
  [c EXCEPT !.screen[c.row][c.col] = glyph, !.carets = @ \ {<<c.row, c.col>>}]

hist_put(c, glyph) == [c EXCEPT !.lines[hist_slot(c.total)][c.col] = glyph]

-----------------------------------------------------------------------------
(* The caret *)

OnScreen(c) == c.row < Rows /\ c.col < Cols

\* cursor_draw_overlay(), console_cursor_show()
console_cursor_show(c) ==
  IF c.enabled /\ ~c.visible /\ OnScreen(c)
    THEN [c EXCEPT !.visible = TRUE, !.carets = @ \cup {<<c.row, c.col>>}]
    ELSE c

\* Mutant: the cell under the caret is not restored.
HideFlagOnly(c) == [c EXCEPT !.visible = FALSE]

\* cursor_restore_cell(): in the live view the cell comes from the open line.
console_cursor_hide(c) ==
  IF ~c.visible THEN c
  ELSE LET cell == IF c.offset = 0 THEN c.lines[hist_slot(c.total)][c.col] ELSE Blank
           back == IF OnScreen(c) THEN draw_glyph(c, cell) ELSE c
       IN  [back EXCEPT !.visible = FALSE]

console_cursor_enable(c) ==
  LET on == [c EXCEPT !.enabled = TRUE, !.visible = FALSE] IN console_cursor_show(on)

console_cursor_disable(c) == [console_cursor_hide(c) EXCEPT !.enabled = FALSE]

\* console_cursor_tick() once the blink interval is over.
console_cursor_tick(c) ==
  IF ~c.enabled THEN c
  ELSE IF c.visible THEN console_cursor_hide(c) ELSE console_cursor_show(c)

-----------------------------------------------------------------------------
(* Scrollback *)

\* The logical line shown at row r, and whether the ring still holds it.
ShownAt(c, r) == c.total - c.offset - (Rows - 1 - r)

InRing(c, line) == line >= 0 /\ c.total - line < Scrollback

\* console_redraw(): the open line goes to the bottom row.
console_redraw(c) ==
  [c EXCEPT !.screen = [r \in 0..(Rows - 1) |->
                          LET line == ShownAt(c, r)
                          IN  IF InRing(c, line) THEN c.lines[hist_slot(line)] ELSE EmptyLine],
            !.carets = {},
            !.aligned = @ /\ c.row = Rows - 1]

console_scroll(c, delta) ==
  LET limit == IF c.total > Scrollback - 1 THEN Scrollback - 1 ELSE c.total
      wanted == c.offset + delta
      offset == IF wanted < 0 THEN 0 ELSE IF wanted > limit THEN limit ELSE wanted
      hidden == console_cursor_hide(c)
      moved == [hidden EXCEPT !.offset = offset]
      drawn == console_redraw(moved)
  IN  IF offset = c.offset THEN c ELSE console_cursor_show(drawn)

\* scroll_if_needed(): the frame buffer moves up by one text row.
scroll_if_needed(c) ==
  IF c.row < Rows THEN c
  ELSE [c EXCEPT !.screen = [r \in 0..(Rows - 1) |-> IF r < Rows - 1 THEN c.screen[r + 1] ELSE EmptyLine],
                 !.carets = {<<p[1] - 1, p[2]>> : p \in {q \in c.carets : q[1] > 0}},
                 !.row = Rows - 1]

LineFeed(c) ==
  LET opened == hist_new_line(c)
      down == [opened EXCEPT !.col = 0, !.row = @ + 1]
  IN  scroll_if_needed(down)

Top(c) ==
  [c EXCEPT !.offset = 0, !.col = 0, !.row = 0, !.screen = EmptyScreen, !.carets = {}, !.aligned = TRUE]

console_clear(c) ==
  LET hidden == console_cursor_hide(c)
      opened == hist_new_line(hidden)
      cleared == Top(opened)
  IN  console_cursor_show(cleared)

-----------------------------------------------------------------------------
(* Output *)

Captured(c, glyph) ==
  IF Len(c.capture[1]) + 1 < CaptureRoom
    THEN [c EXCEPT !.capture = <<Append(@[1], glyph)>>]
    ELSE c

\* Printing returns to the live view.
Live(c) == LET back == [c EXCEPT !.offset = 0] IN IF c.offset = 0 THEN c ELSE console_redraw(back)

Rubout(c) ==
  IF c.col = 0 THEN c
  ELSE LET left == [c EXCEPT !.col = @ - 1]
           drawn == draw_glyph(left, Blank)
       IN  hist_put(drawn, Blank)

Glyph(c, g) ==
  LET drawn == draw_glyph(c, g)
      kept == hist_put(drawn, g)
      put == [kept EXCEPT !.col = @ + 1]
  IN  IF put.col >= Cols THEN LineFeed(put) ELSE put

console_putchar(c, g) ==
  IF c.capture # <<>> THEN Captured(c, g)
  ELSE LET hidden == console_cursor_hide(c)
           at == Live(hidden)
           done == CASE g = NewLine   -> LineFeed(at)
                     [] g = BackSpace -> Rubout(at)
                     [] OTHER         -> Glyph(at, g)
       IN  console_cursor_show(done)

console_capture_begin(c) == [c EXCEPT !.capture = <<<<>>>>]

console_capture_end(c) == [c EXCEPT !.capture = <<>>]

\* A call of the console's interface: a name, or the glyph to put.
Call(c, call) ==
  CASE call = "show"     -> console_cursor_show(c)
    [] call = "hide"     -> console_cursor_hide(c)
    [] call = "enable"   -> console_cursor_enable(c)
    [] call = "disable"  -> console_cursor_disable(c)
    [] call = "tick"     -> console_cursor_tick(c)
    [] call = "clear"    -> console_clear(c)
    [] call = "back"     -> console_scroll(c, 1)
    [] call = "forward"  -> console_scroll(c, -1)
    [] call = "capture"  -> console_capture_begin(c)
    [] call = "release"  -> console_capture_end(c)
    [] OTHER             -> console_putchar(c, call)

\* console_print() and the callers' sequences of calls.
RECURSIVE Calls(_, _)
Calls(c, calls) ==
  IF calls = <<>> THEN c ELSE LET next == Call(c, Head(calls)) IN Calls(next, Tail(calls))

\* console_init() up to its console_clear()
FreshConsole ==
  [screen |-> EmptyScreen, carets |-> {}, lines |-> [i \in 0..(Scrollback - 1) |-> EmptyLine],
   total |-> 0, offset |-> 0, row |-> 0, col |-> 0, enabled |-> FALSE, visible |-> FALSE,
   capture |-> <<>>, aligned |-> TRUE]

-----------------------------------------------------------------------------
\* What is on the frame buffer is what the scrollback holds: in the live view the
\* rows down to the write position show the last lines, in a scrolled view every
\* row shows the line it stands for, save the cell the blinking caret blanks.
ShowsHistory(c) ==
  IF c.offset = 0
    THEN c.aligned => \A r \in 0..c.row :
           c.row - r < Scrollback => c.screen[r] = c.lines[hist_slot(c.total - (c.row - r))]
    ELSE \A r \in 0..(Rows - 1), x \in 0..(Cols - 1) :
           (InRing(c, ShownAt(c, r)) /\ <<r, x>> # <<c.row, c.col>>)
             => c.screen[r][x] = c.lines[hist_slot(ShownAt(c, r))][x]

\* The caret is painted in one place, the write position, and only there.
OneCaret(c) == c.carets = IF c.visible THEN {<<c.row, c.col>>} ELSE {}
=============================================================================
