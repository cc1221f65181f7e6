-------------------------------- MODULE Shell --------------------------------
(***************************************************************************)
(* shell/core/shell.c over the console, with the commands that change the  *)
(* state of the console or the desktop (shell/core/command_registry.c).    *)
(*                                                                         *)
(* A line is a sequence of characters; what shell_parse_line() makes of it *)
(* is the constant Programs.  A command that only prints prints one line.  *)
(***************************************************************************)
EXTENDS Console, Gui

CONSTANTS BufSize,       \* SHELL_BUF_SIZE
          HistorySize,   \* HISTORY_SIZE
          QueueSize,     \* SHELL_COMMAND_QUEUE_SIZE
          Prompt,        \* what print_prompt() prints
          Banner,        \* and shell_init(), shell_return_from_desktop()
          Programs,      \* the commands of a line, in order, for the lines that have some
          MaxRefused     \* bound: lines refused because the queue is full

VARIABLES con,           \* the console
          gui,           \* the desktop
          mouse,         \* the pointer
          buf,           \* g_buf up to g_len
          draft,         \* g_draft_buf
          pos,           \* g_history_pos
          hist,          \* g_history, g_history_next, g_history_count
          pend,          \* g_pending_commands, their head, tail and count
          start,         \* column where the line being typed starts, -1 when other
                         \* output came in between or it wrapped (not in the code)
          ran,           \* the command taken from the queue last (not in the code)
          refused        \* lines the full queue refused (not in the code)

lineVars == <<buf, draft, pos, hist>>
queueVars == <<pend, ran, refused>>
shellVars == <<con, gui, mouse, lineVars, queueVars, start>>

NoLine == <<>>

\* shell_init()
ShellInit ==
  /\ con = Calls(FreshConsole, <<"clear", "clear">> \o Banner \o Prompt \o <<"enable">>)
  /\ \E buffered \in BOOLEAN : gui = GuiInit(buffered)
  /\ buf = NoLine /\ draft = NoLine /\ pos = -1
  /\ hist = [line |-> [i \in 0..(HistorySize - 1) |-> NoLine], next |-> 0, count |-> 0]
  /\ pend = [line |-> [i \in 0..(QueueSize - 1) |-> NoLine], head |-> 0, tail |-> 0, count |-> 0]
  /\ start = con.col /\ ran = <<>> /\ refused = 0

-----------------------------------------------------------------------------
(* History *)

history_add(h, line) ==
  IF line = NoLine THEN h
  ELSE [line |-> [h.line EXCEPT ![h.next] = line],
        next |-> (h.next + 1) % HistorySize,
        count |-> IF h.count < HistorySize THEN h.count + 1 ELSE h.count]

\* history_get(): 0 is the latest line.
history_get(i) == hist.line[(hist.next - 1 - i + 2 * HistorySize) % HistorySize]

\* Mutant: the new text is written behind the old.
RedrawOver(old, new) == <<"hide">> \o new \o <<"show">>

\* redraw_line(): rubs the old text out character by character.
redraw_line(old, new) == <<"hide">> \o [i \in 1..Len(old) |-> BackSpace] \o new \o <<"show">>

\* Where the line starts once con is c: a line that reaches the last column wraps.
StartAfter(line) == IF start >= 0 /\ start + Len(line) < Cols THEN start ELSE -1

Recall(line) ==
  /\ con' = Calls(con, redraw_line(buf, line))
  /\ buf' = line
  /\ start' = StartAfter(line)

shell_history_prev ==
  /\ IF pos + 1 >= hist.count THEN UNCHANGED <<con, lineVars, start>>
     ELSE /\ pos' = pos + 1
          /\ draft' = IF pos = -1 THEN buf ELSE draft
          /\ Recall(history_get(pos + 1))
          /\ UNCHANGED hist
  /\ UNCHANGED <<gui, queueVars>>

shell_history_next ==
  /\ IF pos = -1 THEN UNCHANGED <<con, lineVars, start>>
     ELSE /\ pos' = pos - 1
          /\ Recall(IF pos = 0 THEN draft ELSE history_get(pos - 1))
          /\ UNCHANGED <<draft, hist>>
  /\ UNCHANGED <<gui, queueVars>>

-----------------------------------------------------------------------------
(* The command queue *)

\* Mutant: a full queue takes the line in place of the oldest.
QueueAnyway(line) ==
  [pend EXCEPT !.line[pend.head] = line, !.head = (@ + 1) % QueueSize, !.count = @ + 1]

queue_command(line) ==
  IF pend.count >= QueueSize THEN pend
  ELSE [pend EXCEPT !.line[pend.head] = line, !.head = (@ + 1) % QueueSize, !.count = @ + 1]

dequeue_command ==
  [pend EXCEPT !.line[pend.tail] = NoLine, !.tail = (@ + 1) % QueueSize, !.count = @ - 1]

\* shell_input_char('\n')
InputNewLine ==
  LET queued == queue_command(buf)
      full == buf # NoLine /\ queued = pend
  IN  /\ full => refused < MaxRefused
      /\ refused' = IF full THEN refused + 1 ELSE refused
      /\ hist' = history_add(hist, buf)
      /\ pend' = IF buf = NoLine THEN pend ELSE queued
      /\ con' = Calls(con, <<"hide", NewLine>> \o (IF full THEN <<"full", NewLine>> ELSE <<>>)
                            \o (IF full \/ buf = NoLine THEN Prompt ELSE <<>>) \o <<"show">>)
      /\ start' = con'.col
      /\ buf' = NoLine /\ pos' = -1
      /\ UNCHANGED <<gui, draft, ran>>

InputBackSpace ==
  /\ buf' = Shorter(buf)
  /\ con' = Calls(con, IF buf = NoLine THEN <<"hide", "show">> ELSE <<"hide", BackSpace, "show">>)
  /\ pos' = -1
  /\ UNCHANGED <<gui, draft, hist, queueVars, start>>

InputText(ch) ==
  LET room == Len(buf) < BufSize - 1
  IN  /\ buf' = IF room THEN Append(buf, ch) ELSE buf
      /\ con' = Calls(con, IF room THEN <<"hide", ch, "show">> ELSE <<"hide", "show">>)
      /\ start' = StartAfter(buf')
      /\ pos' = -1
      /\ UNCHANGED <<gui, draft, hist, queueVars>>

shell_input_char(ch) ==
  CASE ch = NewLine   -> InputNewLine
    [] ch = BackSpace -> InputBackSpace
    [] OTHER          -> InputText(ch)

-----------------------------------------------------------------------------
(* Execution.  s is the calls made on the console, the desktop and the      *)
(* status; io says whether the files of a line's redirections are there.    *)

Says(s, calls) == [s EXCEPT !.calls = @ \o calls]

Fails(s, word) == [s EXCEPT !.calls = @ \o word, !.ok = FALSE]

Error == <<"err", NewLine>>

RunCommand(s, cmd) ==
  CASE cmd = "clear"       -> Says(s, <<"clear">>)
    [] cmd = "desktop-run" -> [s EXCEPT !.calls = @ \o <<"out", NewLine>>, !.gui = gui_start(@, mouse)]
    [] OTHER               -> Says(s, <<"out", NewLine>>)

\* execute_one(): a captured command that is not found fails without a word.
execute_one(s, stage, capture, io) ==
  LET begun == IF capture THEN Says(s, <<"capture">>) ELSE s
      done == RunCommand(begun, stage.cmd)
  IN  CASE stage.in /\ ~io -> Fails(s, Error)
        [] ~(stage.in /\ ~io) /\ stage.cmd = "missing" -> Fails(s, IF capture THEN <<>> ELSE Error)
        [] OTHER -> [done EXCEPT !.ok = TRUE, !.calls = IF capture THEN Append(@, "release") ELSE @]

RECURSIVE execute_pipeline(_, _, _, _, _)
execute_pipeline(s, prog, i, last, io) ==
  LET one == execute_one(s, prog[i], i < last \/ prog[i].out, io)
  IN  CASE ~one.ok                       -> one
        [] one.ok /\ prog[i].out /\ ~io -> Fails(one, Error)
        [] i = last /\ ~(prog[i].out /\ ~io) -> one
        [] OTHER                         -> execute_pipeline(one, prog, i + 1, last, io)

RECURSIVE PipelineEnd(_, _)
PipelineEnd(prog, i) == IF i < Len(prog) /\ prog[i].next = "|" THEN PipelineEnd(prog, i + 1) ELSE i

RECURSIVE execute(_, _, _, _)
execute(s, prog, i, io) ==
  IF i > Len(prog) THEN s
  ELSE IF i > 1 /\ prog[i - 1].next = "&&" /\ ~s.ok THEN execute(s, prog, i + 1, io)
  ELSE LET last == PipelineEnd(prog, i)
           done == execute_pipeline(s, prog, i, last, io)
       IN  execute(done, prog, last + 1, io)

Unknown == <<[cmd |-> "missing", next |-> "", in |-> FALSE, out |-> FALSE]>>

\* shell_process_pending(): the oldest line runs; its calls end in a prompt unless
\* the desktop is up.
shell_process_pending(io) ==
  LET line == pend.line[pend.tail]
      prog == IF line \in DOMAIN Programs THEN Programs[line] ELSE Unknown
      s == execute([calls |-> <<>>, gui |-> gui, ok |-> TRUE], prog, 1, io)
  IN  [s EXCEPT !.calls = IF s.gui.active THEN @ ELSE @ \o Prompt \o <<"show">>]

\* shell_return_from_desktop()
ReturnFromDesktop ==
  /\ con' = Calls(con, <<"clear">> \o Banner \o Prompt \o <<"enable">>)
  /\ buf' = NoLine /\ pos' = -1
  /\ start' = con'.col
  /\ UNCHANGED <<draft, hist, queueVars>>
=============================================================================
