------------------------------- MODULE FmtFloat -------------------------------
(***************************************************************************)
(* The writers of floating-point numbers: the digits of a value, rounded to*)
(* a precision in the first segment of its expansion or by Dragon4, and    *)
(* their layout in fixed or exponent notation.  A value is a decimal       *)
(* [digits, exp]; FmtDragon has the values that are binary.                *)
(***************************************************************************)
EXTENDS Integers, Sequences

CONSTANTS
  Calls,     \* [value, class, neg] and the specs: [type, precision, alt, sign,
             \*  upper, align, fill, width, group], group 0 without 'L';
             \*  value has the exact decimal and the shortest that reads back
  Sub,       \* digits in a subsegment (9 in the code)
  MaxDigits, \* max_double_digits, the most that Dragon4 makes (767)
  MaxInt,    \* the largest int
  ExpUpper   \* the exponent from which the shortest form is 1e+X (16)

VARIABLES
  call, s, width,        \* the call, its sign and width as write_float has them
  precision, alt, fixed, \* the specs as format_float gets them
  buf, exp,              \* the number to lay out: buf * 10^exp
  phase, out
vars == <<call, s, width, precision, alt, fixed, buf, exp, phase, out>>

Max2(x, y)   == IF x >= y THEN x ELSE y
Min2(x, y)   == IF x <= y THEN x ELSE y
Repeat(c, n) == [i \in 1 .. n |-> c]
First(n, q)  == [i \in 1 .. n |-> IF i <= Len(q) THEN q[i] ELSE 0]
Rest(n, q)   == SubSeq(q, n + 1, Len(q))
NonZero(q)   == \E i \in DOMAIN q : q[i] # 0
RECURSIVE NatOf(_)
NatOf(q) == IF q = <<>> THEN 0 ELSE NatOf(SubSeq(q, 1, Len(q) - 1)) * 10 + q[Len(q)]

SignChars == [none |-> <<>>, plus |-> <<"+">>, space |-> <<" ">>, minus |-> <<"-">>]
SignChar  == SignChars[s]

(* write_padded, for a call whose own default alignment is this one.       *)
WritePadded(default, fill, size, body) ==
  LET padding == Max2(0, width - size)
      align == IF call.align = "none" THEN default ELSE call.align
      left == CASE align = "left"   -> 0
                [] align = "center" -> padding \div 2
                [] align \in {"right", "numeric"} -> padding
  IN Repeat(fill, left) \o body \o Repeat(fill, padding - left)
------------------------------------------------------------------------------
Init ==
  /\ call \in Calls
  /\ s = IF call.neg THEN "minus" ELSE call.sign
  /\ width = call.width /\ precision = call.precision /\ alt = call.alt
  /\ fixed = (call.type = "fixed")
  /\ buf = <<>> /\ exp = 0 /\ phase = "write" /\ out = <<>>

(* Unlike numbers, to the left by default.                                 *)
WriteNonfinite ==
  /\ phase = "write" /\ call.class # "finite"
  /\ out' = WritePadded("left", IF call.fill = "0" THEN " " ELSE call.fill,
                        3 + Len(SignChar), SignChar \o <<call.class, "", "">>)
  /\ phase' = "done" /\ UNCHANGED <<call, s, width, precision, alt, fixed, buf, exp>>

(* A sign before numeric padding is written at once.                       *)
WriteSign ==
  /\ phase = "write" /\ call.class = "finite"
  /\ IF call.align = "numeric" /\ s # "none"
     THEN out' = SignChar /\ s' = "none" /\ width' = Max2(0, width - 1)
     ELSE UNCHANGED <<out, s, width>>
  /\ phase' = "precision" /\ UNCHANGED <<call, precision, alt, fixed, buf, exp>>

(* The shortest form, by Dragonbox.                                        *)
Shortest ==
  /\ phase = "precision" /\ precision < 0 /\ call.type = "none"
  /\ buf' = call.value.short.digits /\ exp' = call.value.short.exp
  /\ phase' = "layout" /\ UNCHANGED <<call, s, width, precision, alt, fixed, out>>

(* A precision that an int has no room for, with the digit in front of the *)
(* point: "number is too big".                                             *)
ExpTooBig == call.type = "exp" /\ precision = MaxInt
Throw(condition) ==
  condition /\ phase' = "error" /\ UNCHANGED <<call, s, width, precision, alt, fixed, buf, exp, out>>
RejectPrecision == phase = "precision" /\ Throw(ExpTooBig)

AdjustPrecision ==
  LET p == IF precision < 0 THEN 6 ELSE precision IN
  /\ phase = "precision" /\ ~ ExpTooBig /\ (precision >= 0 \/ call.type # "none")
  /\ precision' = CASE call.type = "exp"   -> p + 1
                    [] call.type = "fixed" -> p
                    [] OTHER               -> Max2(p, 1)
  /\ alt' = (alt \/ (call.type \in {"exp", "fixed"} /\ call.precision # 0))
  /\ phase' = "digits" /\ UNCHANGED <<call, s, width, fixed, buf, exp, out>>
------------------------------------------------------------------------------
Exact == call.value.exact
Top   == Exact.exp + Len(Exact.digits)   \* value < 10^Top

FormatZero ==
  /\ phase = "digits" /\ ~ NonZero(Exact.digits)
  /\ buf' = IF precision <= 0 \/ ~ fixed THEN <<0>> ELSE Repeat(0, precision)
  /\ exp' = IF precision <= 0 \/ ~ fixed THEN 0 ELSE -precision
  /\ phase' = "layout" /\ UNCHANGED <<call, s, width, precision, alt, fixed, out>>

(* The last digit incremented; a carry out of the first one makes a digit  *)
(* more in fixed notation, and otherwise a larger exponent.                *)
RECURSIVE Incremented(_)
Incremented(q) ==
  IF q = <<>> THEN <<1>>
  ELSE IF q[Len(q)] < 9 THEN [q EXCEPT ![Len(q)] = @ + 1]
  ELSE Append(Incremented(SubSeq(q, 1, Len(q) - 1)), 0)
RoundedUp(q, e) ==
  LET r == Incremented(q) IN
  IF Len(r) = Len(q) \/ fixed THEN [digits |-> r, exp |-> e]
  ELSE [digits |-> SubSeq(r, 1, Len(q)), exp |-> e + 1]
Number(q, e, up) == IF up THEN RoundedUp(q, e) ELSE [digits |-> q, exp |-> e]

(* Half to even, of the number <digits>.<fraction><more>.                  *)
RoundsUp(fraction, digit, more) ==
  LET half == 5 * 10 ^ (Len(fraction) - 1) IN
  \/ NatOf(fraction) > half
  \/ NatOf(fraction) = half /\ (digit % 2 = 1 \/ more)

(* Mutant: what is behind the subsegment is forgotten.                     *)
ShouldRoundUpBlind(seg, p, more) ==
  LET first == p <= Sub
      end   == IF first THEN Sub ELSE 2 * Sub
  IN IF p < end THEN RoundsUp(SubSeq(seg, p + 1, end), seg[p], FALSE)
     ELSE RoundsUp(Rest(end, seg), seg[p], more)

(* The segment is split in subsegments of Sub, Sub and one digit.  p digits*)
(* are kept, of the first or of both; the rest of the subsegment decides,  *)
(* and at its end the rest of the segment.                                 *)
ShouldRoundUp(seg, p, more) ==
  LET end == IF p <= Sub THEN Sub ELSE 2 * Sub IN
  IF p < end
  THEN RoundsUp(SubSeq(seg, p + 1, end), seg[p], NonZero(Rest(end, seg)) \/ more)
  ELSE RoundsUp(Rest(end, seg), seg[p], more)

(* The first segment has n or n - 1 digits of the value, and a bogus zero. *)
Segment(n) == Append(First(n, Exact.digits), 0)
SegmentDigits == 2 * Sub + 1
FirstSegment(n) ==
  IF n = SegmentDigits THEN First(n, Exact.digits) ELSE Segment(n)
More(n) == NonZero(Rest(n, Exact.digits))

(* adjust_precision: fixed counts from the point.                          *)
Adjusted  == precision + IF fixed THEN Top ELSE 0
Overflows == fixed /\ Top > 0 /\ precision > MaxInt - Top

InSegment(n) ==
  LET seg  == FirstSegment(n)
      tiny == NatOf(seg) > 5 * 10 ^ (SegmentDigits - 1)
              \/ (NatOf(seg) = 5 * 10 ^ (SegmentDigits - 1) /\ More(n))
  IN CASE Adjusted < 0 -> [digits |-> <<>>, exp |-> Top]
       [] Adjusted = 0 -> [digits |-> <<IF tiny THEN 1 ELSE 0>>, exp |-> Top]
       [] Adjusted > 0 -> Number(First(Adjusted, seg), Top - Adjusted,
                                 ShouldRoundUp(seg, Adjusted, More(n)))

(* No double has more digits than MaxDigits.                               *)
DragonDigits == Min2(Adjusted, MaxDigits)

(* Dragon4: FmtDragon shows that it rounds as this.                        *)
ByDragon ==
  LET rest == Rest(DragonDigits, Exact.digits)
      kept == First(DragonDigits, Exact.digits)
  IN Number(kept, Top - DragonDigits,
            rest # <<>> /\ RoundsUp(rest, kept[DragonDigits], FALSE))

RECURSIVE Trimmed(_)
Trimmed(f) ==
  IF f.digits # <<>> /\ f.digits[Len(f.digits)] = 0
  THEN Trimmed([digits |-> SubSeq(f.digits, 1, Len(f.digits) - 1), exp |-> f.exp + 1])
  ELSE f

RejectAdjusted == phase = "digits" /\ NonZero(Exact.digits) /\ Throw(Overflows)
FormatFloat ==
  /\ phase = "digits" /\ NonZero(Exact.digits) /\ ~ Overflows
  /\ \E n \in {SegmentDigits - 1, SegmentDigits} :
       LET f == IF n > Adjusted THEN InSegment(n) ELSE ByDragon
           g == IF ~ fixed /\ ~ alt THEN Trimmed(f) ELSE f
       IN buf' = g.digits /\ exp' = g.exp
  /\ phase' = "layout" /\ UNCHANGED <<call, s, width, precision, alt, fixed, out>>
------------------------------------------------------------------------------
DigitChars == <<"0", "1", "2", "3", "4", "5", "6", "7", "8", "9">>
Chars(q) == [i \in DOMAIN q |-> DigitChars[q[i] + 1]]
Zeros(n) == Repeat("0", n)
Point == IF call.group = 0 THEN "." ELSE ";"   \* the locale's is another

(* digit_grouping, with groups of one size.                                *)
CountSeparators(n) == IF call.group = 0 \/ n <= 0 THEN 0 ELSE (n - 1) \div call.group
RECURSIVE Grouped(_)
Grouped(q) ==
  IF CountSeparators(Len(q)) = 0 THEN q
  ELSE Grouped(SubSeq(q, 1, Len(q) - call.group)) \o <<",">>
       \o SubSeq(q, Len(q) - call.group + 1, Len(q))

WriteExponent(e) ==
  LET a == IF e < 0 THEN -e ELSE e IN
  <<IF call.upper THEN "E" ELSE "e", IF e < 0 THEN "-" ELSE "+">>
    \o Chars(IF a >= 100 THEN <<a \div 100>> ELSE <<>>) \o Chars(<<(a \div 10) % 10, a % 10>>)

Size      == Len(buf)
OutputExp == exp + Size - 1

(* Mutant: the exponent is compared one off.                               *)
UseExpFormatLate ==
  CASE call.type = "exp"   -> TRUE
    [] call.type = "fixed" -> FALSE
    [] OTHER -> OutputExp < -4 \/ OutputExp > (IF precision > 0 THEN precision ELSE ExpUpper)
UseExpFormat ==
  CASE call.type = "exp"   -> TRUE
    [] call.type = "fixed" -> FALSE
    [] OTHER -> OutputExp < -4 \/ OutputExp >= (IF precision > 0 THEN precision ELSE ExpUpper)

(* do_write_float: each layout with the size computed for it beforehand.   *)
ExpLayout ==
  LET zeros == IF alt THEN Max2(0, precision - Size) ELSE 0
      point == alt \/ Size # 1
  IN [size |-> Size + zeros + (IF point THEN 1 ELSE 0)
               + 2 + (IF OutputExp >= 100 \/ OutputExp <= -100 THEN 3 ELSE 2),
      body |-> Chars(SubSeq(buf, 1, 1)) \o (IF point THEN <<Point>> ELSE <<>>)
               \o Chars(Rest(1, buf)) \o Zeros(zeros) \o WriteExponent(OutputExp)]

(* 1234e5 -> 123400000[.0+]                                                *)
IntegerLayout ==
  LET n == exp + Size
      zeros == IF alt THEN Max2(0, precision - n) ELSE 0
  IN [size |-> n + CountSeparators(n) + (IF alt THEN 1 ELSE 0) + zeros,
      body |-> Grouped(Chars(buf) \o Zeros(exp)) \o (IF alt THEN <<Point>> ELSE <<>>)
               \o Zeros(zeros)]

(* 1234e-2 -> 12.34[0+]                                                    *)
MixedLayout ==
  LET n == exp + Size
      zeros == IF alt THEN Max2(0, precision - Size) ELSE 0
  IN [size |-> Size + 1 + zeros + CountSeparators(n),
      body |-> Grouped(Chars(SubSeq(buf, 1, n))) \o <<Point>> \o Chars(Rest(n, buf))
               \o Zeros(zeros)]

(* 1234e-6 -> 0.001234                                                     *)
FractionLayout ==
  LET n == -(exp + Size)
      zeros == IF Size = 0 /\ precision \in 0 .. n - 1 THEN precision ELSE n
      pointy == zeros # 0 \/ Size # 0 \/ alt
  IN [size |-> Size + 1 + (IF pointy THEN 1 ELSE 0) + zeros,
      body |-> <<"0">> \o IF pointy THEN <<Point>> \o Zeros(zeros) \o Chars(buf) ELSE <<>>]

Layout ==
  CASE UseExpFormat -> ExpLayout
    [] ~ UseExpFormat /\ exp >= 0 -> IntegerLayout
    [] ~ UseExpFormat /\ exp < 0 /\ exp + Size > 0 -> MixedLayout
    [] ~ UseExpFormat /\ exp < 0 /\ exp + Size <= 0 -> FractionLayout

DoWriteFloat ==
  /\ phase = "layout"
  /\ out' = out \o WritePadded("right", call.fill, Len(SignChar) + Layout.size,
                               SignChar \o Layout.body)
  /\ phase' = "done" /\ UNCHANGED <<call, s, width, precision, alt, fixed, buf, exp>>
Done == phase \in {"done", "error"} /\ UNCHANGED vars

Next == \/ WriteNonfinite \/ WriteSign \/ Shortest \/ RejectPrecision \/ AdjustPrecision
        \/ FormatZero \/ RejectAdjusted \/ FormatFloat \/ DoWriteFloat \/ Done
Spec == Init /\ [][Next]_vars
------------------------------------------------------------------------------
(* Reading the text back.                                                  *)
Written == phase = "done" /\ call.class = "finite"
Keep(q, S)  == SelectSeq(q, LAMBDA c : c \in S)
DigitSet    == {DigitChars[i] : i \in DOMAIN DigitChars}
DigitOf(c)  == CHOOSE d \in 0 .. 9 : DigitChars[d + 1] = c
DigitsIn(q) == LET k == Keep(q, DigitSet) IN [i \in DOMAIN k |-> DigitOf(k[i])]
IndexOf(q, S) == IF \E i \in DOMAIN q : q[i] \in S
                 THEN CHOOSE i \in DOMAIN q : q[i] \in S ELSE Len(q) + 1
Text     == Keep(out, DigitSet \cup {"e", "E", ".", ";", "-", "+"})
Expo     == IndexOf(Text, {"e", "E"})
Mantissa == SubSeq(Text, 1, Expo - 1)
Pt       == IndexOf(Mantissa, {".", ";"})
Integral == DigitsIn(SubSeq(Mantissa, 1, Pt - 1))
Fraction == DigitsIn(SubSeq(Mantissa, Pt + 1, Len(Mantissa)))
TextExp  == IF Expo > Len(Text) THEN 0
            ELSE NatOf(DigitsIn(Rest(Expo, Text))) * (IF Text[Expo + 1] = "-" THEN -1 ELSE 1)

RECURSIVE Normal(_)
Normal(f) ==
  CASE ~ NonZero(f.digits) -> [digits |-> <<>>, exp |-> 0]
    [] NonZero(f.digits) /\ f.digits[1] = 0 -> Normal([f EXCEPT !.digits = Tail(@)])
    [] NonZero(f.digits) /\ f.digits[1] # 0 -> Trimmed(f)

RECURSIVE DigitsOf(_)
DigitsOf(m) == IF m = 0 THEN <<>> ELSE Append(DigitsOf(m \div 10), m % 10)

(* The multiple of 10^k next to the value, the even one of two.            *)
Nearest(k) ==
  LET n == Top - k
      kept == IF n > 0 THEN NatOf(First(n, Exact.digits)) ELSE 0
      rest == IF n >= 0 THEN Rest(n, Exact.digits) ELSE <<0>> \o Exact.digits
      up == \/ rest[1] > 5 \/ (rest[1] = 5 /\ NonZero(Tail(rest)))
            \/ rest[1] = 5 /\ ~ NonZero(Tail(rest)) /\ kept % 2 = 1
  IN IF n >= Len(Exact.digits) THEN Normal(Exact)
     ELSE Normal([digits |-> DigitsOf(kept + IF up THEN 1 ELSE 0), exp |-> k])
Asked == IF call.precision < 0 THEN 6 ELSE call.precision
Expected ==
  CASE call.type = "none" /\ call.precision < 0 -> Normal(call.value.short)
    [] call.type = "fixed" -> Nearest(-Asked)
    [] call.type = "exp"   -> Nearest(Top - Asked - 1)
    [] OTHER               -> Nearest(Top - Max2(Asked, 1))

(* The text denotes the value rounded to the precision, halves to even, and*)
(* its sign: whichever way the digits were made (first segment, Dragon4,   *)
(* Dragonbox), through carries, removed zeros and either notation.         *)
TextIsTheRoundedValue ==
  Written =>
    /\ Normal([digits |-> Integral \o Fraction, exp |-> TextExp - Len(Fraction)])
         = [Expected EXCEPT !.exp = IF Expected.digits = <<>> THEN 0 ELSE @]
    /\ call.neg <=> Mantissa[1] = "-"
    /\ call.sign = "plus" /\ ~ call.neg <=> Mantissa[1] = "+"

(* The text is as wide as asked for, and padded only up to that: the size  *)
(* computed before writing is the size written, with separators, zeros and *)
(* a sign that was written before.                                         *)
WidthIsKept ==
  phase = "done" =>
    /\ Len(out) >= call.width
    /\ Len(out) > call.width =>
         /\ \A i \in DOMAIN out : out[i] # "*"
         /\ call.class = "finite" /\ Len(Integral) > 1 => Integral[1] # 0

(* What the limit of Dragon4 leaves out: fixed notation is short of digits *)
(* behind the point, all zeros, when it has more than MaxDigits from the   *)
(* first significant one, and so is '#' below 1 ({:.1000f} of 1.0 gets 999).*)
FixedDigits ==
  IF ~ NonZero(Exact.digits) \/ Asked + Top <= MaxDigits THEN Asked
  ELSE IF Top > 0 THEN Max2(Asked, MaxDigits) - Top ELSE MaxDigits - Top
SignificantDigits(p, x) == IF x \in -4 .. -1 THEN Min2(p, MaxDigits) ELSE p

(* As many digits as asked for, and an exponent exactly when there is to be*)
(* one: fixed and exp have the precision behind the point, the general form*)
(* has no zeros at its end unless '#' asks for all significant digits, and *)
(* the exponent that decides is that of the rounded value; in the width    *)
(* asked for, and refused only when the digits are too many for an int.    *)
(* Fixed and '#' have fewer where the limit of Dragon4 shows.              *)
DigitsAreTheOnesAskedFor ==
  LET general == call.type \in {"none", "general"}
      X == IF Expected.digits = <<>> THEN 0 ELSE Expected.exp + Len(Expected.digits) - 1
      P == IF call.type = "none" /\ call.precision < 0 THEN ExpUpper ELSE Max2(Asked, 1)
  IN /\ WidthIsKept
     /\ phase = "error" => call.precision > MaxInt - Max2(Top, 1)
     /\ Written =>
       /\ call.type = "fixed" => Len(Fraction) = FixedDigits /\ Expo > Len(Text)
       /\ call.type = "exp" =>
            /\ Len(Fraction) = Asked /\ Expo <= Len(Text)
            /\ Len(DigitsIn(SubSeq(Text, 1, Pt - 1))) = 1 \/ call.fill = "0"
       /\ general => (Expo <= Len(Text) <=> X < -4 \/ X >= P)
       /\ general /\ ~ call.alt /\ Fraction # <<>> => Fraction[Len(Fraction)] # 0
       /\ general /\ call.alt /\ (call.type = "general" \/ call.precision >= 0) =>
            Len(Normal([digits |-> Append(Integral \o Fraction, 1), exp |-> 0]).digits) - 1
              = IF Expected.digits = <<>> THEN 0 ELSE SignificantDigits(P, X)
       /\ Pt <= Len(Mantissa) <=> (Fraction # <<>> \/ call.alt)
==============================================================================
