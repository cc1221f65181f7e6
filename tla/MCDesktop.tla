------------------------------ MODULE MCDesktop ------------------------------
(* A console of two rows of three cells, a screen of 1024 by 768 pixels.     *)
EXTENDS Desktop, Parser

Stage(cmd, next, in, out) == [cmd |-> cmd, next |-> next, in |-> in, out |-> out]

\* A line that starts the desktop, one that prints and one with every operator.
MCPrograms ==
  (<<"d">> :> <<Stage("desktop-run", "", FALSE, FALSE)>>) @@
  (<<"a">> :> <<Stage("echo", "&&", FALSE, FALSE), Stage("echo", "", TRUE, FALSE)>>) @@
  (<<"a", "a">> :> <<Stage("missing", "&&", FALSE, FALSE), Stage("echo", ";", FALSE, FALSE),
                     Stage("echo", "|", FALSE, FALSE), Stage("clear", "", FALSE, TRUE)>>)

\* The texts they stand for: `d', `\e&&\e <f' and `\m&&\e;\e|\c >\f'.
Texts ==
  (<<"d">> :> <<"d">>) @@
  (<<"a">> :> <<Escape, "e", "&", "&", Escape, "e", " ", "<", "f">>) @@
  (<<"a", "a">> :> <<Escape, "m", "&", "&", Escape, "e", ";", Escape, "e", "|",
                     Escape, "c", " ", ">", Escape, "f">>)

Named ==
  (<<"e">> :> "echo") @@ (<<"m">> :> "missing") @@ (<<"c">> :> "clear") @@ (<<"d">> :> "desktop-run")

Program(text) ==
  LET r == shell_parse_line(text)
  IN  [i \in 1..Len(r.out) |->
         Stage(Named[TextAt(r.mem, r.out[i].argv[1])], r.out[i].next, r.out[i].in # 0, r.out[i].out # 0)]

\* The programs are what the parser makes of the texts.  Words are escaped, as an
\* escaped word is the only one that does not end the line (Parser.tla).
ASSUME ProgramsParsed == \A line \in DOMAIN Texts : MCPrograms[line] = Program(Texts[line])

MCTermDesktop == <<"d">>
MCPrompt == <<"p">>
MCBanner == <<"b", NewLine>>

MCHits == [q \in UNION {[1..n -> {"d", "q"}] : n \in 0..1} |->
             IF q = <<>> THEN 0..4 ELSE IF q = <<"d">> THEN {2, 4} ELSE {}]

MCListing == ("root" :> <<"sub", "file">>) @@ ("sub" :> <<"file">>)
MCParent == ("root" :> "root") @@ ("sub" :> "root")

Uses(shell, desktop) == (FALSE :> shell) @@ (TRUE :> desktop)

MCKeys ==
  ("shell" :> Uses({"a", NewLine, BackSpace, "up", "down"}, {})) @@
  ("ahead" :> Uses({"d", NewLine}, {Esc, "pageup"})) @@
  ("terminal" :> Uses({"d", NewLine}, {"d", NewLine, Esc})) @@
  ("settings" :> Uses({"d", NewLine}, {"left", NewLine, Esc, "down"})) @@
  ("files" :> Uses({"d", NewLine}, {NewLine, Esc, "down", BackSpace})) @@
  ("search" :> Uses({"d", NewLine}, {"d", "q", NewLine, Esc})) @@
  ("modifiers" :> Uses({}, {})) @@ ("mouse" :> Uses({}, {}))

\* By user: the close button of a centred window, a title and a place it is
\* dragged to, a row of the list and a dock icon, a row and Search.
MCPlaces ==
  ("shell" :> {}) @@ ("ahead" :> {}) @@
  ("terminal" :> {<<880, 100>>}) @@
  ("settings" :> {<<200, 140>>, <<300, 300>>}) @@
  ("files" :> {<<300, 230>>, <<500, 750>>}) @@
  ("search" :> {<<300, 374>>, <<100, 750>>}) @@
  ("modifiers" :> {}) @@ ("mouse" :> {})

KeyEvent(key, down, bytes) == [key |-> key, down |-> down, bytes |-> bytes]

MCKeyEvents ==
  {KeyEvent("shift", TRUE, <<42>>), KeyEvent("shift", FALSE, <<170>>), KeyEvent("ctrl", TRUE, <<224, 29>>),
   KeyEvent("caps", TRUE, <<58>>)}

MCPackets == {<<9, 8, 0, 16>>, <<72, 8, 0, 0>>}

MCBytes == {42, 170, 224, 29, 58, Ack, 9, 8, 0, 16, 72}

MCEvents == {Key(b) : b \in MCBytes} \cup {MouseByte(b) : b \in MCBytes}
=============================================================================
