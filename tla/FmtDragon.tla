------------------------------- MODULE FmtDragon -------------------------------
(***************************************************************************)
(* format_dragon, Dragon4: the decimal digits of a binary floating-point   *)
(* number f * 2^e, as many as asked for or the fewest that read back as the*)
(* same number.  The numbers are naturals here; FmtBigint has the code's,  *)
(* of which exps keeps what compare sees besides the values.               *)
(***************************************************************************)
EXTENDS Integers, Sequences

CONSTANTS
  Calls,    \* [biased, fraction: the fields of the number;
            \*  digits: num_digits, -1 for the shortest; fixed, fixup: flags]
  FracBits, \* num_significand_bits, without the implicit one
  BigitBits, \* bigit_bits (32), above e + 1 of each f * 2^e that is a power
             \* of ten (e <= 21 for a double) and above the shift, 2
  MinE      \* e of the smallest normalized number, and of the subnormals

VARIABLES
  call, f, e, closer,         \* the number
  num, den, lower, upper,     \* (numerator / denominator) * 10^exp10
  exps,                       \* the exp_ of num, den and lower: low bigits, all
                              \* zeros, that a shift by whole bigits left out
  exp10, digits, buf, phase
vars == <<call, f, e, closer, num, den, lower, upper, exps, exp10, digits, buf, phase>>

Max2(x, y)  == IF x >= y THEN x ELSE y
Min2(x, y)  == IF x <= y THEN x ELSE y
Implicit    == 2 ^ FracBits
Even        == f % 2 = 0
Shortest    == call.digits < 0

(* basic_fp::assign.                                                       *)
Init ==
  /\ call \in Calls
  /\ f = call.fraction + (IF call.biased = 0 THEN 0 ELSE Implicit)
  /\ e = MinE + Max2(call.biased, 1) - 1
  /\ closer = (call.fraction = 0 /\ call.biased > 1)
  /\ num = 0 /\ den = 1 /\ lower = 0 /\ upper = 0 /\ exp10 = 0
  /\ exps = [num |-> 0, den |-> 0, lower |-> 0]
  /\ digits = call.digits /\ buf = <<>> /\ phase = "estimate"

(* floor(log10) of the number, and ceil(log10) of its highest bit, which is*)
(* that or one more; the latter is corrected by fixup.                     *)
AtLeast(k, n, m) ==   \* n * 2^m >= 10^k
  n * 2 ^ Max2(m, 0) * 10 ^ Max2(-k, 0) >= 10 ^ Max2(k, 0) * 2 ^ Max2(-m, 0)
FloorLog10 == CHOOSE k \in -4 .. 4 : AtLeast(k, f, e) /\ ~ AtLeast(k + 1, f, e)
HighBit    == CHOOSE b \in 0 .. FracBits : 2 ^ b <= f /\ f < 2 ^ (b + 1)
Estimate   ==
  IF e + HighBit = 0 THEN 0
  ELSE CHOOSE k \in -4 .. 4 : AtLeast(k - 1, 1, e + HighBit) /\ ~ AtLeast(k, 1, e + HighBit)

EstimateExponent ==
  /\ phase = "estimate" /\ phase' = "prepare"
  /\ exp10' = IF call.fixup THEN Estimate ELSE FloorLog10
  /\ UNCHANGED <<call, f, e, closer, num, den, lower, upper, exps, digits, buf>>

(* A bit more, or two, keeps half the distances to the neighbours integer. *)
Prepare ==
  LET shift == IF closer THEN 2 ELSE 1
      unit  == CASE e >= 0 -> 2 ^ e
                 [] e < 0 /\ exp10 < 0 -> 10 ^ (-exp10)
                 [] e < 0 /\ exp10 >= 0 -> 1
      unitExp == (IF e >= 0 THEN e ELSE Max2(-exp10, 0)) \div BigitBits
  IN /\ phase = "prepare" /\ phase' = "fixup"
     /\ num' = f * unit * 2 ^ shift
     /\ den' = 10 ^ Max2(exp10, 0) * 2 ^ (shift + Max2(-e, 0))
     /\ lower' = unit /\ upper' = IF closer THEN 2 * unit ELSE unit
     /\ exps' = [num   |-> IF e >= 0 THEN (e + shift) \div BigitBits ELSE unitExp,
                 den   |-> Max2(exp10, 0) \div BigitBits
                           + (shift + Max2(-e, 0)) \div BigitBits,
                 lower |-> unitExp]
     /\ UNCHANGED <<call, f, e, closer, exp10, digits, buf>>

(* The estimate is one too large: not even the number's upper boundary     *)
(* reaches 10^exp10.                                                       *)
TooLarge == num + upper < den \/ (num + upper = den /\ ~ Even)

Fixup ==
  LET down == call.fixup /\ TooLarge
      k == IF down THEN exp10 - 1 ELSE exp10
      scale == IF down THEN 10 ELSE 1
  IN /\ phase = "fixup"
     /\ phase' = IF Shortest THEN "shortest" ELSE "given"
     /\ num' = scale * num
     /\ lower' = IF Shortest THEN scale * lower ELSE lower
     /\ upper' = IF Shortest THEN scale * upper ELSE upper
     /\ digits' = IF Shortest THEN 0
                  ELSE IF call.fixup /\ call.fixed THEN digits + k + 1 ELSE digits
     /\ exp10' = IF Shortest THEN k
                 ELSE k - (digits' - 1)
     /\ UNCHANGED <<call, f, e, closer, den, exps, buf>>
------------------------------------------------------------------------------
(* compare: of equal numbers, the one with more bigits is the larger.      *)
Compare(x, xExp, y, yExp) == IF x # y THEN x - y ELSE yExp - xExp

(* divmod_assign: without a subtraction the numerator is not even aligned. *)
Divides   == Compare(num, exps.num, den, exps.den) >= 0
Digit     == IF Divides THEN num \div den ELSE 0
Remainder == num - Digit * den
NumExp    == IF Divides THEN Min2(exps.num, exps.den) ELSE exps.num
HalfUp    == \/ 2 * Remainder > den
             \/ 2 * Remainder = den /\ Digit % 2 = 1

(* Within the lower boundary; with the upper one, at the next digit.  On   *)
(* the lower boundary itself it depends on how the two are stored.         *)
Low  == Compare(Remainder, NumExp, lower, exps.lower) - (IF Even THEN 1 ELSE 0) < 0
High == Remainder + upper > den \/ (Remainder + upper = den /\ Even)

(* Mutant: the last digit is never rounded up.                             *)
LastDigitDown == Digit
LastDigit == IF ~ Low \/ (High /\ HalfUp) THEN Digit + 1 ELSE Digit

ShortestDigit ==
  /\ phase = "shortest" /\ ~ Low /\ ~ High
  /\ buf' = Append(buf, Digit)
  /\ num' = 10 * Remainder /\ lower' = 10 * lower /\ upper' = 10 * upper
  /\ exps' = [exps EXCEPT !.num = NumExp]
  /\ UNCHANGED <<call, f, e, closer, den, exp10, digits, phase>>
ShortestEnd ==
  /\ phase = "shortest" /\ (Low \/ High)
  /\ buf' = Append(buf, LastDigit) /\ exp10' = exp10 - Len(buf)
  /\ phase' = "done" /\ UNCHANGED <<call, f, e, closer, num, den, lower, upper, exps, digits>>
------------------------------------------------------------------------------
(* No digit is asked for, or one behind a last zero.                       *)
NoDigits ==
  /\ phase = "given" /\ digits <= 0
  /\ buf' = <<IF digits = 0 /\ 2 * num > 10 * den THEN 1 ELSE 0>>
  /\ phase' = "done" /\ UNCHANGED <<call, f, e, closer, num, den, lower, upper, exps, exp10, digits>>

GivenDigit ==
  /\ phase = "given" /\ Len(buf) < digits - 1
  /\ buf' = Append(buf, Digit) /\ num' = 10 * Remainder
  /\ exps' = [exps EXCEPT !.num = NumExp]
  /\ UNCHANGED <<call, f, e, closer, den, lower, upper, exp10, digits, phase>>

(* Mutant: the nines are not set back to zeros.                            *)
CarriedKeepsNines(q) ==
  LET k == CHOOSE i \in 0 .. Len(q) :
             /\ \A j \in i + 1 .. Len(q) : q[j] = 9
             /\ i > 0 => q[i] # 9
  IN [i \in 1 .. Len(q) |-> IF i = k THEN q[i] + 1 ELSE q[i]]

(* The carry through the nines at the end; a first digit past 9 becomes 1. *)
Carried(q) ==
  LET k == CHOOSE i \in 0 .. Len(q) :
             /\ \A j \in i + 1 .. Len(q) : q[j] = 9
             /\ i > 0 => q[i] # 9
  IN [i \in 1 .. Len(q) |-> IF i = k THEN q[i] + 1 ELSE IF i > k THEN 0 ELSE q[i]]
AllNines(q) == \A i \in DOMAIN q : q[i] = 9

LastGivenDigit ==
  LET q == Append(buf, Digit)
      over == HalfUp /\ AllNines(q)
  IN /\ phase = "given" /\ digits > 0 /\ Len(buf) = digits - 1
     /\ buf' = IF over THEN <<1>> \o [i \in 1 .. Len(q) - (IF call.fixed THEN 0 ELSE 1) |-> 0]
               ELSE IF HalfUp THEN Carried(q) ELSE q
     /\ exp10' = IF over /\ ~ call.fixed THEN exp10 + 1 ELSE exp10
     /\ phase' = "done" /\ UNCHANGED <<call, f, e, closer, num, den, lower, upper, exps, digits>>
Done == phase = "done" /\ UNCHANGED vars

Next == \/ EstimateExponent \/ Prepare \/ Fixup \/ ShortestDigit \/ ShortestEnd
        \/ NoDigits \/ GivenDigit \/ LastGivenDigit \/ Done
Spec == Init /\ [][Next]_vars
------------------------------------------------------------------------------
RECURSIVE NatOf(_)
NatOf(q) == IF q = <<>> THEN 0 ELSE NatOf(SubSeq(q, 1, Len(q) - 1)) * 10 + q[Len(q)]

(* Everything in one unit: the result d * 10^exp10, a unit of its last     *)
(* place, the number and half the distances to its neighbours.             *)
Twos  == 2 ^ Max2(2 - e, 0)
Tens  == 10 ^ Max2(-exp10, 0)
Place == 10 ^ Max2(exp10, 0) * Twos
Ulp   == 2 ^ Max2(e, 2) * Tens
Value == f * Ulp
Above == Ulp \div 2
Below == IF closer THEN Ulp \div 4 ELSE Ulp \div 2
Dist(x, y) == IF x >= y THEN x - y ELSE y - x
ReadsBack(r) == \/ Value - Below < r /\ r < Value + Above
                \/ Even /\ (r = Value - Below \/ r = Value + Above)

(* The shortest form reads back as the number, none with a digit less does,*)
(* and of those as long none is nearer, also where the neighbour below is  *)
(* closer and where halves are shared with an odd neighbour.  Without the  *)
(* digit carry there is no ':' among the digits.  One that lies on the     *)
(* lower boundary may be missed, where compare takes the remainder for the *)
(* larger of two equal numbers: then more digits follow.                   *)
ShortestReadsBack ==
  phase = "done" /\ Shortest =>
    LET r == NatOf(buf)
        missed(x) == x = Value - Below /\ e >= BigitBits
    IN
    /\ \A i \in DOMAIN buf : buf[i] \in 0 .. 9
    /\ ReadsBack(r * Place)
    /\ \A k \in {r \div 10, r \div 10 + 1} :
         Len(buf) > 1 => ~ ReadsBack(k * 10 * Place) \/ missed(k * 10 * Place)
    /\ \A k \in {r - 1, r + 1} : ReadsBack(k * Place) =>
         Dist(r * Place, Value) <= Dist(k * Place, Value)

(* A given number of digits is the number rounded there, halves to even;   *)
(* the last place is the one asked for, from the first digit or, fixed,    *)
(* from the point.  (fixup leaves the exponent one high for a number whose *)
(* upper neighbour is past a power of ten: then it is one place short.)    *)
GivenDigitsAreRounded ==
  phase = "done" /\ ~ Shortest =>
    LET r == NatOf(buf)
        cut == Dist(r * Place, Value)
        place == IF call.fixed /\ call.fixup THEN -call.digits ELSE FloorLog10 + 1 - call.digits
        near == call.fixup /\ ~ call.fixed /\ Estimate > FloorLog10 /\ ~ AtLeast(Estimate, f, e)
                /\ (AtLeast(Estimate, 2 * f + 1, e - 1))
    IN /\ \A i \in DOMAIN buf : buf[i] \in 0 .. 9
       /\ digits >= 0 => 2 * cut <= Place /\ (2 * cut = Place => r % 2 = 0)
       /\ near \/ exp10 = place \/ (~ call.fixed /\ exp10 = place + 1
                                    /\ r = 10 ^ (Len(buf) - 1))
==============================================================================
