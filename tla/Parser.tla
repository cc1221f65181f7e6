-------------------------------- MODULE Parser --------------------------------
(***************************************************************************)
(* shell/core/parser.c: shell_parse_line() cuts a line into commands in    *)
(* place.  A line is the sequence of its characters; mem is the buffer,    *)
(* which later cuts write into while the rest is still being read, and a   *)
(* word is the position where it starts.                                   *)
(***************************************************************************)
EXTENDS Integers, Sequences

CONSTANTS MaxTokens,     \* SHELL_MAX_TOKENS
          MaxCommands    \* SHELL_MAX_COMMANDS

NUL == "nul"
Escape == "\\"
Spaces == {" ", "tab"}
Quotes == {"'", "\""}

RECURSIVE Skip(_, _, _)
Skip(mem, p, chars) == IF mem[p] \in chars THEN Skip(mem, p + 1, chars) ELSE p

AtAnd(mem, p) == mem[p] = "&" /\ mem[p + 1] = "&"

EndsWord(mem, p) == mem[p] \in Spaces \cup {";", "|"} \/ AtAnd(mem, p)

\* The inner loop: reads at p and writes what it keeps at w; "" is no quote.
RECURSIVE Word(_, _, _, _)
Word(mem, p, w, quote) ==
  LET ch == mem[p]
  IN  CASE ch = NUL -> [mem |-> mem, p |-> p, w |-> w, quote |-> quote]
        [] ch = quote -> Word(mem, p + 1, w, "")
        [] ch \in Quotes /\ quote = "" -> Word(mem, p + 1, w, ch)
        [] ch = Escape /\ mem[p + 1] # NUL -> Word([mem EXCEPT ![w] = mem[p + 1]], p + 2, w + 1, quote)
        [] quote = "" /\ EndsWord(mem, p) -> [mem |-> mem, p |-> p, w |-> w, quote |-> quote]
        [] OTHER -> Word([mem EXCEPT ![w] = ch], p + 1, w + 1, quote)

\* A command: where its words and its files start, 0 for no file.
Fresh == [argv |-> <<>>, next |-> "", in |-> 0, out |-> 0, append |-> FALSE]

AddWord(c, op, append, start) ==
  CASE op = "<" -> [c EXCEPT !.in = start]
    [] op = ">" -> [c EXCEPT !.out = start, !.append = append]
    [] OTHER    -> [c EXCEPT !.argv = Append(@, start)]

\* The middle loop: one command, up to its operator.  rc is 0, or the error.
RECURSIVE Command(_, _, _)
Command(mem, p, c) ==
  LET q == Skip(mem, p, Spaces)
      redirects == mem[q] \in {"<", ">"}
      append == mem[q] = ">" /\ mem[q + 1] = ">"
      start == IF redirects THEN Skip(mem, q + (IF append THEN 2 ELSE 1), Spaces) ELSE q
      word == Word(mem, start, start, "")
      cut == [word.mem EXCEPT ![word.w] = NUL]
      End(at, op) == [mem |-> mem, p |-> at, c |-> [c EXCEPT !.next = op], rc |-> 0]
      Error(code) == [mem |-> mem, p |-> q, c |-> c, rc |-> code]
  IN  CASE mem[q] = NUL -> End(q, "")
        [] mem[q] = ";" -> End(q + 1, ";")
        [] AtAnd(mem, q) -> End(q + 2, "&&")
        [] mem[q] = "|" -> End(q + 1, "|")
        [] OTHER -> CASE word.quote # "" -> Error(-2)
                      [] word.quote = "" /\ redirects /\ cut[start] = NUL -> Error(-3)
                      [] word.quote = "" /\ ~redirects /\ Len(c.argv) >= MaxTokens - 1 -> Error(-1)
                      [] OTHER -> Command(cut, word.p, AddWord(c, mem[q], append, start))

\* The outer loop: the commands, and their number or the error.
RECURSIVE Parse(_, _, _)
Parse(mem, p, out) ==
  LET q == Skip(mem, p, Spaces \cup {";"})
      one == Command(mem, q, Fresh)
      Result(rc) == [mem |-> mem, out |-> out, rc |-> rc]
  IN  CASE mem[q] = NUL -> Result(Len(out))
        [] mem[q] # NUL /\ Len(out) >= MaxCommands -> Result(-1)
        [] OTHER -> CASE one.rc < 0 -> Result(one.rc)
                      [] one.rc = 0 /\ one.c.argv = <<>> /\ one.c.in = 0 /\ one.c.out = 0 -> Result(-3)
                      [] OTHER -> Parse(one.mem, one.p, Append(out, one.c))

shell_parse_line(line) == Parse(Append(line, NUL), 1, <<>>)

\* The word at a position, once the line is cut.
RECURSIVE TextAt(_, _)
TextAt(mem, p) == IF mem[p] = NUL THEN <<>> ELSE <<mem[p]>> \o TextAt(mem, p + 1)
=============================================================================
