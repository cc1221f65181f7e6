------------------------------- MODULE MCParser -------------------------------
(* The lines of docs/SHELL_IO.md, "Supported syntax", with commands and files *)
(* of one letter.                                                             *)
EXTENDS Parser

Expect(argv, next, in, out, append) ==
  [argv |-> argv, next |-> next, in |-> in, out |-> out, append |-> append]

Plain(word, next) == Expect(<<<<word>>>>, next, <<>>, <<>>, FALSE)

\* Each line with what it stands for.
Documented ==
  {<<<<"a", " ", ";", " ", "b">>, <<Plain("a", ";"), Plain("b", "")>>>>,
   <<<<"a", " ", "&", "&", " ", "b">>, <<Plain("a", "&&"), Plain("b", "")>>>>,
   <<<<"a", " ", "|", " ", "b">>, <<Plain("a", "|"), Plain("b", "")>>>>,
   <<<<"a", " ", "<", " ", "f">>, <<Expect(<<<<"a">>>>, "", <<"f">>, <<>>, FALSE)>>>>,
   <<<<"a", " ", ">", " ", "f">>, <<Expect(<<<<"a">>>>, "", <<>>, <<"f">>, FALSE)>>>>,
   <<<<"a", " ", ">", ">", " ", "f">>, <<Expect(<<<<"a">>>>, "", <<>>, <<"f">>, TRUE)>>>>}

VARIABLES entered,   \* a line of Documented
          parsed     \* <<>>, then what shell_parse_line() made of it

FileAt(mem, p) == IF p = 0 THEN <<>> ELSE TextAt(mem, p)

Commands(r) ==
  [i \in 1..Len(r.out) |->
     LET c == r.out[i]
     IN  Expect([k \in 1..Len(c.argv) |-> TextAt(r.mem, c.argv[k])], c.next,
                FileAt(r.mem, c.in), FileAt(r.mem, c.out), c.append)]

ParserInit == entered \in Documented /\ parsed = <<>>

ParserNext ==
  /\ parsed = <<>>
  /\ parsed' = <<Commands(shell_parse_line(entered[1]))>>
  /\ UNCHANGED entered

ParserSpec == ParserInit /\ [][ParserNext]_<<entered, parsed>>

\* docs/SHELL_IO.md, "Supported syntax": `cmd1 ; cmd2`, `cmd1 && cmd2`,
\* `cmd1 | cmd2`, `cmd < file`, `cmd > file` and `cmd >> file` are what the shell
\* makes of such lines.
SyntaxSupported == parsed # <<>> => parsed[1] = entered[2]
=============================================================================
