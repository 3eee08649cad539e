-------------------------------- MODULE MCFmtInt --------------------------------
(* Integers of thirty bits, signed and unsigned, at the ends of their range *)
(* and at the powers of ten and two.                                        *)
EXTENDS Integers

Values == {-(2 ^ 29), 1 - 2 ^ 29, -100, -99, -10, -9, -1, 0, 1, 7, 8, 9, 10, 16, 99, 100,
           128, 255, 2 ^ 29 - 1, 2 ^ 29, 2 ^ 30 - 1}
Specs(types, alts, fills, widths, groupings) ==
  [value : Values, type : types, alt : alts, upper : BOOLEAN,
   sign : {"none", "plus"}, align : {"none", "left", "right", "center", "numeric"},
   fill : fills, width : widths, precision : {-1}, grouping : groupings]
Ordinary == {c \in Specs({"dec", "hex", "oct", "bin", "chr"}, BOOLEAN, {"*", "0"}, {0, 4, 9}, {<<>>}) :
               /\ c.align = "numeric" <=> c.fill = "0"
               /\ c.type \in {"dec", "chr"} => ~ c.alt /\ ~ c.upper}
Localized == {c \in Specs({"dec", "bin", "chr"}, {FALSE}, {"*"}, {0, 6}, {<<3>>, <<2, 1>>, <<1, 0>>}) :
                ~ c.upper /\ c.align # "numeric"}
Pointers == {c \in Specs({"ptr"}, {FALSE}, {"*"}, {0, 7}, {<<>>}) :
               c.value >= 0 /\ c.sign = "none" /\ ~ c.upper /\ c.align # "numeric"}

(* Powers of ten and of two and their neighbours, where the counters turn.  *)
Powers == {10 ^ k : k \in 0 .. 9} \cup {2 ^ k : k \in 0 .. 29}
Counted ==
  [value : Powers \cup {n - 1 : n \in Powers}, type : {"dec", "hex", "oct", "bin"},
   alt : {FALSE}, upper : {FALSE}, sign : {"none"}, align : {"none"}, fill : {"*"},
   width : {0}, precision : {-1}, grouping : {<<>>}]
MCIntCalls == Ordinary \cup Localized \cup Pointers \cup Counted
==============================================================================
