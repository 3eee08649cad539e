------------------------------ MODULE MCFmtDragon ------------------------------
(* Numbers of six bits, normalized and subnormal, with exponents from -8 to 4*)
(* (a bigit of four bits), and all numbers of digits.  For 38 * 2^4 the lower*)
(* boundary is 600, and the remainder of 6 is stored in another way.         *)
EXTENDS Integers
MCMinE == -8
MCDragonCalls ==
  {c \in [biased : 0 .. 13, fraction : 0 .. 31, digits : -1 .. 4, fixed : BOOLEAN, fixup : BOOLEAN] :
     /\ c.biased = 0 => c.fraction # 0
     /\ c.digits < 0 => ~ c.fixed /\ c.fixup
     /\ c.digits = 0 => c.fixed /\ c.fixup}
==============================================================================
