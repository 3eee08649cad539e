------------------------------ MODULE MCFmtColor ------------------------------
(* Colours of both kinds whose bits overlap, emphases up to all eight, and   *)
(* texts with styled arguments first, last, twice and not at all.            *)
EXTENDS Integers

NoColor == [kind |-> "none", value |-> <<>>]
Rgb(r, g, b)   == [kind |-> "rgb", value |-> <<r, g, b>>]
Terminal(code) == [kind |-> "terminal", value |-> <<code>>]
Style(fg, bg, ems) == [fg |-> fg, bg |-> bg, ems |-> ems]
Plain == Style(NoColor, NoColor, {})

MCParts ==
  {Style(Rgb(255, 64, 9), NoColor, {}), Style(Rgb(128, 65, 100), Rgb(0, 10, 99), {2}),
   Style(NoColor, Rgb(7, 200, 250), {3, 6}), Style(Terminal(31), NoColor, {}),
   Style(NoColor, Terminal(97), {1}), Style(NoColor, NoColor, {5, 7}),
   Style(NoColor, NoColor, 1 .. 7),
   Style(Terminal(90), Terminal(30), {8})}
Piece(k, s, c) == [kind |-> k, style |-> s, code |-> c]
Word    == Piece("plain", Plain, 0)
Warning == Piece("colored", Plain, 33)
Arg(s)  == Piece("styled", s, 0)
MCTexts ==
  {<<>>, <<Word>>, <<Word, Arg(Style(Terminal(32), NoColor, {4})), Word>>,
   <<Arg(Plain), Word>>, <<Word, Arg(Style(NoColor, NoColor, 1 .. 8))>>, <<Warning, Arg(Style(NoColor, Rgb(1, 2, 3), {1})), Arg(Plain)>>}
==============================================================================
