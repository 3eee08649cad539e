------------------------------ MODULE MCFmtParse ------------------------------
(* The structure of format strings: all strings of up to five units and all *)
(* fields of five, checked and then run; and the specifiers of one field:   *)
(* all of up to four units.                                                 *)
EXTENDS FmtParse

Units == {"{", "}", ":", "0", "1", "n", "a"}
Upto(n, units) == UNION {[1 .. k -> units] : k \in 0 .. n}
StructureStrings ==
  Upto(5, Units)
    \cup {<<"{">> \o x \o <<"}">> : x \in [1 .. 5 -> Units]}

SpecUnits == {"<", "*", "+", "#", "0", "2", ".", "L", "x", "f"}
SpecStrings == {<<"{", ":">> \o x \o <<"}">> : x \in Upto(4, SpecUnits)}

Arg(type, name, value) == [type |-> type, name |-> name, value |-> value]
Plain == {<<>>, <<Arg("int", <<>>, 1), Arg("string", <<>>, 0)>>}
Named == {<<Arg("int", <<>>, 1), Arg("int", <<"n">>, 2)>>}
OneOf == {<<Arg(ty, <<>>, 1)>> : ty \in {"int", "float", "string"}}

(* An index after a name, the numbering fmt began forgotten, and a fill of  *)
(* two units, the second a brace.                                          *)
LongStrings == {<<"{", "}", "{", "n", "}", "{", "0", "}">>,
                <<"{", "}", "{", "n", "}", "{", "}">>,
                <<"{", ":", "U1", "{", "<", "}", "a">>}

MCCases == [fmt : StructureStrings \cup LongStrings, args : Plain \cup Named, first : {"check", "run"}]
             \cup [fmt : SpecStrings, args : OneOf, first : {"run"}]
==============================================================================
