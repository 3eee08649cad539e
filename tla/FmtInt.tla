-------------------------------- MODULE FmtInt --------------------------------
(***************************************************************************)
(* The writers of integers: sign and base prefix, digits from the right,   *)
(* the grouping of a locale, zero padding, and the padding to the width.   *)
(* One call of write with an integer of Bits bits; loops are steps.        *)
(***************************************************************************)
EXTENDS Integers, Sequences

CONSTANTS
  Calls,  \* [value, type, alt, upper, sign, align, fill, width, precision,
          \*  grouping]: the specs and the locale's grouping, <<>> without 'L'
  Bits    \* num_bits of the integer

VARIABLES
  call, abs, prefix,  \* make_write_int_arg
  rest, digits,       \* what do_format_* has not yet and has written
  phase, out
vars == <<call, abs, prefix, rest, digits, phase, out>>

DigitChars == <<"0", "1", "2", "3", "4", "5", "6", "7", "8", "9", "a", "b", "c", "d", "e", "f">>
UpperChars == <<"0", "1", "2", "3", "4", "5", "6", "7", "8", "9", "A", "B", "C", "D", "E", "F">>
Char(d, upper) == (IF upper THEN UpperChars ELSE DigitChars)[d + 1]
Repeat(c, n)   == [i \in 1 .. n |-> c]
Max2(x, y)     == IF x >= y THEN x ELSE y
------------------------------------------------------------------------------
(* count_digits: by groups of four digits, and by the position of the top  *)
(* bit in a table.                                                         *)
CountDigitsFallback[n \in Nat] ==
  CASE n < 10 -> 1 [] n \in 10 .. 99 -> 2 [] n \in 100 .. 999 -> 3
    [] n \in 1000 .. 9999 -> 4 [] OTHER -> 4 + CountDigitsFallback[n \div 10000]

Bsr(n) == CHOOSE k \in 0 .. 30 : 2 ^ k <= n /\ (k = 30 \/ n < 2 ^ (k + 1))

(* The table adds the digits of a power of ten less one below that power.  *)
CountDigits32(n) ==
  LET t == <<0, 0, 0, 10, 10, 10, 100, 100, 100, 1000, 1000, 1000, 10000, 10000, 10000,
             100000, 100000, 100000, 1000000, 1000000, 1000000, 10000000, 10000000,
             10000000, 100000000, 100000000, 100000000, 1000000000, 1000000000,
             1000000000, 1000000000, 1000000000>>[Bsr(Max2(n, 1)) + 1]
  IN CountDigitsFallback[t] - IF n < t THEN 1 ELSE 0

CountDigits64(n) ==
  LET t == <<1, 1, 1, 2, 2, 2, 3, 3, 3, 4, 4, 4, 4, 5, 5, 5, 6, 6, 6, 7, 7, 7, 7, 8, 8,
             8, 9, 9, 9, 10, 10, 10>>[Bsr(Max2(n, 1)) + 1]
  IN t - IF n < (IF t = 1 THEN 0 ELSE 10 ^ (t - 1)) THEN 1 ELSE 0

(* Digits of 2^bits.                                                       *)
CountDigits2e(bits, n) == Bsr(Max2(n, 1)) \div bits + 1
------------------------------------------------------------------------------
BaseBits == [dec |-> 0, hex |-> 4, oct |-> 3, bin |-> 1, chr |-> 0, ptr |-> 4]

(* The magnitude is taken in the unsigned type: the least value has one.   *)
AbsValue(c) ==
  LET u == c.value % 2 ^ Bits IN IF c.value < 0 THEN (0 - u) % 2 ^ Bits ELSE u
SignPrefix(c) ==
  CASE c.value < 0 -> <<"-">>
    [] c.value >= 0 /\ c.sign = "plus"  -> <<"+">>
    [] c.value >= 0 /\ c.sign = "space" -> <<" ">>
    [] c.value >= 0 /\ c.sign = "none"  -> <<>>

Init ==
  /\ call \in Calls
  /\ abs = AbsValue(call) /\ prefix = SignPrefix(call)
  /\ rest = abs /\ digits = <<>> /\ phase = "digits" /\ out = <<>>

(* Two decimal digits or one of 2^bits, into the buffer from the right.    *)
Step(r, q, p) ==
  /\ phase = "digits" /\ rest' = r /\ digits' = q /\ phase' = p
  /\ UNCHANGED <<call, abs, prefix, out>>
FormatDecimal ==
  /\ call.type = "dec"
  /\ \/ rest >= 100 /\ Step(rest \div 100, <<Char((rest % 100) \div 10, FALSE),
                                             Char(rest % 10, FALSE)>> \o digits, "digits")
     \/ rest \in 10 .. 99 /\ Step(0, <<Char(rest \div 10, FALSE),
                                       Char(rest % 10, FALSE)>> \o digits, "prefix")
     \/ rest < 10 /\ Step(0, <<Char(rest, FALSE)>> \o digits, "prefix")
FormatBase2e ==
  LET base == 2 ^ BaseBits[call.type] IN
  /\ call.type \in {"hex", "oct", "bin", "ptr"}
  /\ Step(rest \div base, <<Char(rest % base, call.upper /\ call.type = "hex")>> \o digits,
          IF rest \div base = 0 THEN "prefix" ELSE "digits")

Letter(l, u) == <<"0", IF call.upper THEN u ELSE l>>

(* Mutant: an octal zero gets a prefix as well.                            *)
BasePrefixOfZero ==
  CASE call.type = "ptr"                -> <<"0", "x">>
    [] call.alt /\ call.type = "hex"    -> Letter("x", "X")
    [] call.alt /\ call.type = "bin"    -> Letter("b", "B")
    [] call.alt /\ call.type = "oct" /\ call.precision <= Len(digits) -> <<"0">>
    [] OTHER                            -> <<>>

(* The octal prefix is a digit: a zero has it already.                     *)
BasePrefix ==
  CASE call.type = "ptr"                -> <<"0", "x">>
    [] call.alt /\ call.type = "hex"    -> Letter("x", "X")
    [] call.alt /\ call.type = "bin"    -> Letter("b", "B")
    [] call.alt /\ call.type = "oct" /\ abs # 0 /\ call.precision <= Len(digits) -> <<"0">>
    [] OTHER                            -> <<>>
AppendPrefix ==
  /\ phase = "prefix" /\ phase' = "pad" /\ prefix' = prefix \o BasePrefix
  /\ UNCHANGED <<call, abs, rest, digits, out>>
------------------------------------------------------------------------------
(* digit_grouping: the distances from the right at which separators go.    *)
(* A group of 0 or less ends the grouping, the last group repeats.         *)
GroupSize(k) == call.grouping[IF k <= Len(call.grouping) THEN k ELSE Len(call.grouping)]
GroupEnd[k \in Nat] == IF k = 0 THEN 0 ELSE GroupEnd[k - 1] + GroupSize(k)
Separators ==
  {k \in 1 .. Len(digits) - 1 : /\ call.grouping # <<>>
                                /\ \A j \in 1 .. k : GroupSize(j) > 0
                                /\ GroupEnd[k] < Len(digits)}
Top(S) == IF S = {} THEN 0 ELSE CHOOSE k \in S : k + 1 \notin S

(* Mutant: a group that takes all digits counts a separator too.           *)
CountSeparatorsInclusive ==
  Top({k \in 1 .. Len(digits) : /\ \A j \in 1 .. k : GroupSize(j) > 0
                                /\ GroupEnd[k] <= Len(digits)})
CountSeparators == Top(Separators)
RECURSIVE Apply(_)
Apply(i) ==   \* the digits from the i-th on
  IF i > Len(digits) THEN <<>>
  ELSE (IF \E k \in Separators : GroupEnd[k] = Len(digits) - i + 1 THEN <<",">> ELSE <<>>)
       \o <<digits[i]>> \o Apply(i + 1)

(* size_padding: zeros up to the width, or up to the precision.            *)
Zeros ==
  CASE call.align = "numeric" -> Max2(0, call.width - Len(digits) - Len(prefix))
    [] call.align # "numeric" -> Max2(0, call.precision - Len(digits))

(* write_padded, right aligned by default; numeric is as right here.       *)
WritePadded(size, body) ==
  LET padding == Max2(0, call.width - size)
      left == CASE call.align = "left"   -> 0
                [] call.align = "center" -> padding \div 2
                [] OTHER                 -> padding
  IN Repeat(call.fill, left) \o body \o Repeat(call.fill, padding - left)

WriteInt ==
  /\ phase = "pad" /\ call.grouping = <<>> /\ call.type # "ptr"
  /\ out' = WritePadded(Len(prefix) + Zeros + Len(digits),
                        prefix \o Repeat("0", Zeros) \o digits)
  /\ phase' = "done" /\ UNCHANGED <<call, abs, prefix, rest, digits>>
WritePtr ==
  /\ phase = "pad" /\ call.type = "ptr"
  /\ out' = WritePadded(CountDigits2e(4, abs) + 2, prefix \o digits)
  /\ phase' = "done" /\ UNCHANGED <<call, abs, prefix, rest, digits>>
WriteGrouped ==
  /\ phase = "pad" /\ call.grouping # <<>>
  /\ out' = WritePadded(Len(prefix) + Len(digits) + CountSeparators, prefix \o Apply(1))
  /\ phase' = "done" /\ UNCHANGED <<call, abs, prefix, rest, digits>>
WriteChar ==
  /\ phase = "digits" /\ call.type = "chr"
  /\ out' = WritePadded(1, <<"char">>) /\ rest' = abs % 256
  /\ phase' = "done" /\ UNCHANGED <<call, abs, prefix, digits>>
Done == phase = "done" /\ UNCHANGED vars

Next == \/ FormatDecimal \/ FormatBase2e \/ AppendPrefix
        \/ WriteInt \/ WritePtr \/ WriteGrouped \/ WriteChar \/ Done
Spec == Init /\ [][Next]_vars
------------------------------------------------------------------------------
(* The digits of n by the definition of a base.                            *)
Base == [dec |-> 10, hex |-> 16, oct |-> 8, bin |-> 2, ptr |-> 16]
RECURSIVE DigitsOf(_, _, _)
DigitsOf(n, base, upper) ==
  (IF n < base THEN <<>> ELSE DigitsOf(n \div base, base, upper)) \o <<Char(n % base, upper)>>
Magnitude == IF call.value < 0 THEN 0 - call.value ELSE call.value

Ungrouped(q) == LET F[i \in 0 .. Len(q)] ==
                      IF i = 0 THEN <<>>
                      ELSE IF q[i] = "," THEN F[i - 1] ELSE Append(F[i - 1], q[i])
                IN F[Len(q)]
Sign == CASE call.value < 0 -> <<"-">> [] call.value >= 0 /\ call.sign = "plus" -> <<"+">>
          [] call.value >= 0 /\ call.sign = "space" -> <<" ">> [] OTHER -> <<>>
Body == DigitsOf(Magnitude, Base[call.type], call.upper /\ call.type = "hex")
BaseSign == CASE call.type = "ptr" -> <<"0", "x">>
              [] call.type = "hex" /\ call.alt -> <<"0", IF call.upper THEN "X" ELSE "x">>
              [] call.type = "bin" /\ call.alt -> <<"0", IF call.upper THEN "B" ELSE "b">>
              [] call.type = "oct" /\ call.alt /\ call.value # 0 -> <<"0">>
              [] OTHER -> <<>>

(* Where the locale's groups end, counted from the right: threes, a two and*)
(* then ones, a one and then no more.                                      *)
GroupEnds == CASE call.grouping = <<3>>    -> {3 * k : k \in 1 .. 10}
               [] call.grouping = <<2, 1>> -> 2 .. 30
               [] call.grouping = <<1, 0>> -> {1}
GroupsAreRight ==
  call.grouping # <<>> /\ call.width = 0 =>
    {Len(Ungrouped(SubSeq(out, i, Len(out)))) : i \in {j \in DOMAIN out : out[j] = ","}}
      = GroupEnds \cap 1 .. Len(Body) - 1

(* The number written is the argument, also the most negative one, with    *)
(* its sign and base, filled on the sides or with zeros between prefix and *)
(* digits ("<left-padding><prefix><numeric-padding><digits>                *)
(* <right-padding>", format.h:2059), and separators stand where the groups *)
(* end and nowhere else.                                                   *)
NumberIsWritten ==
  phase = "done" /\ call.type # "chr" =>
    /\ GroupsAreRight
    /\ \E l, z, r \in 0 .. call.width :
         /\ Ungrouped(out) = Repeat(call.fill, l) \o Sign \o BaseSign \o Repeat("0", z)
                               \o Body \o Repeat(call.fill, r)
         /\ call.align = "left" => l = 0
         /\ call.align \in {"none", "right", "numeric"} => r = 0
         /\ call.align = "center" => r - l \in {0, 1}
         /\ z > 0 => call.align = "numeric"

(* All the ways to count the digits of a number agree with each other and  *)
(* with the digits that are then written into a buffer of that size.       *)
CountersAgree ==
  phase = "pad" =>
    /\ CountDigits64(abs) = CountDigits32(abs)
    /\ CountDigitsFallback[abs] = CountDigits32(abs)
    /\ Len(digits) = IF call.type = "dec" THEN CountDigits32(abs)
                                          ELSE CountDigits2e(BaseBits[call.type], abs)

(* The text is as wide as asked for and never wider than it must be: the   *)
(* sizes and digits counted before writing are those of what is written.   *)
WidthIsKept ==
  CountersAgree /\ (phase = "done" =>
    LET groups == Len(out) - Len(Ungrouped(out)) IN
    Len(out) = Max2(call.width, IF call.type = "chr" THEN 1
                                ELSE Len(Sign) + Len(BaseSign) + Len(Body) + groups))
==============================================================================
