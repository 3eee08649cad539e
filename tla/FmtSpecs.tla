------------------------------- MODULE FmtSpecs -------------------------------
(***************************************************************************)
(* basic_specs of fmt: the format specifiers packed into one word, and the *)
(* fill stored as bytes beside it.  A field is a range of bits, read with a*)
(* mask and a shift and written by clearing the mask and or-ing the value. *)
(*                                                                         *)
(* set holds what the calls so far asked for, field by field; the getters  *)
(* must give exactly that back, whatever order the setters came in.        *)
(***************************************************************************)
EXTENDS Integers, Sequences

CONSTANT Bytes   \* the bytes of fill characters; Space and Zero are two

VARIABLES data, fillData, set

specsVars == <<data, fillData, set>>

Space == 32
ZeroChar == 48
MaxFillSize == 4

(* The value of the lowest bit of a field, and how many values its mask can*)
(* hold.  Mutant: one bit for the dynamic width, as when it was a flag.    *)
Field(unit, size) == [unit |-> unit, size |-> size]
WidthBitsNarrow == Field(64, 2)
TypeBits      == Field(1, 8)
AlignBits     == Field(8, 8)
WidthBits     == Field(64, 4)
PrecisionBits == Field(256, 4)
SignBits      == Field(1024, 4)
UpperBits     == Field(4096, 2)
AltBits       == Field(8192, 2)
LocalizedBits == Field(16384, 2)
FillSizeBits  == Field(32768, 8)

(* The enumerations the fields hold.                                       *)
PresentationTypes == 0 .. 7
Aligns == 0 .. 4
ArgIdKinds == 0 .. 2
Signs  == 0 .. 3
Fills  == {<<b>> : b \in Bytes} \cup {<<a, b>> : a, b \in Bytes}

ReadField(word, f) == (word \div f.unit) % f.size
WriteField(word, f, v) == word - ReadField(word, f) * f.unit + v * f.unit

Type             == ReadField(data, TypeBits)
Align            == ReadField(data, AlignBits)
DynamicWidth     == ReadField(data, WidthBits)
DynamicPrecision == ReadField(data, PrecisionBits)
Sign             == ReadField(data, SignBits)
Upper            == ReadField(data, UpperBits) # 0
Alt              == ReadField(data, AltBits) # 0
Localized        == ReadField(data, LocalizedBits) # 0
FillSize         == ReadField(data, FillSizeBits)
Fill             == SubSeq(fillData, 1, FillSize)
Dynamic          == DynamicWidth # 0 \/ DynamicPrecision # 0

Defaults ==
  [type |-> 0, align |-> 0, width |-> 0, precision |-> 0, sign |-> 0,
   upper |-> FALSE, alt |-> FALSE, localized |-> FALSE, fill |-> <<Space>>]

SpecsInit ==
  /\ data = FillSizeBits.unit /\ fillData = <<Space, 0, 0, 0>> /\ set = Defaults

SetType(t) ==
  /\ data' = WriteField(data, TypeBits, t) /\ set' = [set EXCEPT !.type = t]
  /\ UNCHANGED fillData
SetAlign(a) ==
  /\ data' = WriteField(data, AlignBits, a) /\ set' = [set EXCEPT !.align = a]
  /\ UNCHANGED fillData
SetDynamicWidth(k) ==
  /\ data' = WriteField(data, WidthBits, k) /\ set' = [set EXCEPT !.width = k]
  /\ UNCHANGED fillData
SetDynamicPrecision(k) ==
  /\ data' = WriteField(data, PrecisionBits, k) /\ set' = [set EXCEPT !.precision = k]
  /\ UNCHANGED fillData
SetSign(s) ==
  /\ data' = WriteField(data, SignBits, s) /\ set' = [set EXCEPT !.sign = s]
  /\ UNCHANGED fillData
SetUpper ==
  /\ data' = WriteField(data, UpperBits, 1) /\ set' = [set EXCEPT !.upper = TRUE]
  /\ UNCHANGED fillData
SetAlt(on) ==   \* set_alt and clear_alt
  /\ data' = WriteField(data, AltBits, IF on THEN 1 ELSE 0)
  /\ set' = [set EXCEPT !.alt = on] /\ UNCHANGED fillData
SetLocalized ==
  /\ data' = WriteField(data, LocalizedBits, 1)
  /\ set' = [set EXCEPT !.localized = TRUE] /\ UNCHANGED fillData

(* set_fill(string_view): a fill of one unit is stored as a whole character*)
(* of up to three bytes, a longer one byte by byte.                        *)
SetFill(s) ==
  /\ data' = WriteField(data, FillSizeBits, Len(s))
  /\ fillData' = IF Len(s) = 1 THEN <<s[1], 0, 0, fillData[4]>>
                 ELSE [i \in 1 .. MaxFillSize |->
                         IF i <= Len(s) THEN s[i] ELSE fillData[i]]
  /\ set' = [set EXCEPT !.fill = s]

(* set_fill(char), which the zero flag uses.                               *)
SetFillChar(c) ==
  /\ data' = WriteField(data, FillSizeBits, 1)
  /\ fillData' = [fillData EXCEPT ![1] = c]
  /\ set' = [set EXCEPT !.fill = <<c>>]

SpecsNext ==
  \/ \E t \in PresentationTypes : SetType(t)
  \/ \E a \in Aligns : SetAlign(a)
  \/ \E k \in ArgIdKinds : SetDynamicWidth(k) \/ SetDynamicPrecision(k)
  \/ \E s \in Signs : SetSign(s)
  \/ SetUpper \/ SetLocalized
  \/ \E on \in BOOLEAN : SetAlt(on)
  \/ \E f \in Fills : SetFill(f)
  \/ SetFillChar(ZeroChar)

SpecsSpec == SpecsInit /\ [][SpecsNext]_specsVars
------------------------------------------------------------------------------
(* Every getter returns what its setter was last given, whatever the other *)
(* setters did in between: no mask overlaps another or is too narrow for   *)
(* its enumeration; and the bytes a padded output is filled with are those *)
(* of the last fill, also when fills of one and of several units replace   *)
(* each other.                                                             *)
GettersReturnWhatWasSet ==
  /\ Type = set.type /\ Align = set.align /\ Sign = set.sign
  /\ DynamicWidth = set.width /\ DynamicPrecision = set.precision
  /\ Upper = set.upper /\ Alt = set.alt /\ Localized = set.localized
  /\ FillSize = Len(set.fill)
  /\ Dynamic <=> (set.width # 0 \/ set.precision # 0)
  /\ Fill = set.fill
==============================================================================
