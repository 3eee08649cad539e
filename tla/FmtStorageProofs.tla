--------------------------- MODULE FmtStorageProofs ---------------------------
(***************************************************************************)
(* Theorems about what fmt keeps its specifiers, its output and its        *)
(* arguments in: the fields of basic_specs, the buffers the formatter      *)
(* writes through, basic_memory_buffer and the packed or unpacked list of  *)
(* arguments, for any sizes and any sequence of calls.                     *)
(***************************************************************************)
EXTENDS FmtSpecs, FmtBuffer, FmtMemoryBuffer, FmtArgs, NatLemmas, TLAPS

-----------------------------------------------------------------------------
(* FmtSpecs: after any sequence of setters every getter returns what its   *)
(* own setter was given last.                                              *)

(* The word that holds the fields of s, and what the fields may be.        *)
Bit(on) == IF on THEN 1 ELSE 0
Pack(t, a, w, p, g, u, l, c, n) ==
  t + 8 * a + 64 * w + 256 * p + 1024 * g + 4096 * u + 8192 * l + 16384 * c
    + 32768 * n
Word(s) ==
  Pack(s.type, s.align, s.width, s.precision, s.sign, Bit(s.upper), Bit(s.alt),
       Bit(s.localized), Len(s.fill))
Asked == [type: PresentationTypes, align: Aligns, width: ArgIdKinds,
          precision: ArgIdKinds, sign: Signs, upper: BOOLEAN, alt: BOOLEAN,
          localized: BOOLEAN, fill: Seq(Bytes \cup {Space, ZeroChar})]

LEMMA FieldsFit ==
  ASSUME NEW s \in Asked, Len(s.fill) \in 0 .. 7
  PROVE  /\ ReadField(Word(s), TypeBits) = s.type
         /\ ReadField(Word(s), AlignBits) = s.align
         /\ ReadField(Word(s), WidthBits) = s.width
         /\ ReadField(Word(s), PrecisionBits) = s.precision
         /\ ReadField(Word(s), SignBits) = s.sign
         /\ ReadField(Word(s), UpperBits) = Bit(s.upper)
         /\ ReadField(Word(s), AltBits) = Bit(s.alt)
         /\ ReadField(Word(s), LocalizedBits) = Bit(s.localized)
         /\ ReadField(Word(s), FillSizeBits) = Len(s.fill)
<1>1. PICK t \in 0 .. 7, a \in 0 .. 4, w \in 0 .. 2, p \in 0 .. 2, g \in 0 .. 3 :
        t = s.type /\ a = s.align /\ w = s.width /\ p = s.precision /\ g = s.sign
  BY DEF Asked, PresentationTypes, Aligns, ArgIdKinds, Signs
<1>2. PICK u \in 0 .. 1, l \in 0 .. 1, c \in 0 .. 1, n \in 0 .. 7 :
        u = Bit(s.upper) /\ l = Bit(s.alt) /\ c = Bit(s.localized) /\ n = Len(s.fill)
  BY DEF Bit
<1>3. PICK d \in Nat : d = t + 8 * a + 64 * w + 256 * p + 1024 * g + 4096 * u
                             + 8192 * l + 16384 * c + 32768 * n
  OBVIOUS
<1>4. Word(s) = d
  BY <1>1, <1>2, <1>3 DEF Word, Pack
<1>5. (d \div 1) % 8 = t
  BY <1>3
<1>6. (d \div 8) % 8 = a
  <2>1. d \div 8 = a + 8 * w + 32 * p + 128 * g + 512 * u + 1024 * l + 2048 * c + 4096 * n
    BY <1>3
  <2>2. QED
    BY <2>1
<1>7. (d \div 64) % 4 = w
  <2>1. d \div 64 = w + 4 * p + 16 * g + 64 * u + 128 * l + 256 * c + 512 * n
    BY <1>3
  <2>2. QED
    BY <2>1
<1>8. (d \div 256) % 4 = p
  <2>1. d \div 256 = p + 4 * g + 16 * u + 32 * l + 64 * c + 128 * n
    BY <1>3
  <2>2. QED
    BY <2>1
<1>9. (d \div 1024) % 4 = g
  <2>1. d \div 1024 = g + 4 * u + 8 * l + 16 * c + 32 * n
    BY <1>3
  <2>2. QED
    BY <2>1
<1>10. (d \div 4096) % 2 = u
  <2>1. d \div 4096 = u + 2 * l + 4 * c + 8 * n
    BY <1>3
  <2>2. QED
    BY <2>1
<1>11. (d \div 8192) % 2 = l
  <2>1. d \div 8192 = l + 2 * c + 4 * n
    BY <1>3
  <2>2. QED
    BY <2>1
<1>12. (d \div 16384) % 2 = c
  <2>1. d \div 16384 = c + 2 * n
    BY <1>3
  <2>2. QED
    BY <2>1
<1>13. (d \div 32768) % 8 = n
  <2>1. d \div 32768 = n
    BY <1>3
  <2>2. QED
    BY <2>1
<1>14. QED
  BY <1>1, <1>2, <1>4, <1>5, <1>6, <1>7, <1>8, <1>9, <1>10, <1>11, <1>12, <1>13
     DEF ReadField, Field, TypeBits, AlignBits, WidthBits, PrecisionBits, SignBits,
     UpperBits, AltBits, LocalizedBits, FillSizeBits

(* The word and the fill bytes hold what was asked for, and nothing else.  *)
FillBytes == Bytes \cup {Space, ZeroChar, 0}
SpecsInv ==
  /\ set \in Asked /\ Len(set.fill) \in 1 .. 2
  /\ data = Word(set)
  /\ fillData \in Seq(FillBytes) /\ Len(fillData) = MaxFillSize
  /\ \A i \in 1 .. Len(set.fill) : fillData[i] = set.fill[i]

(* Writing one field of the word changes what was asked for in that field. *)
LEMMA WriteIs ==
  ASSUME NEW s \in Asked, Len(s.fill) \in 0 .. 7
  PROVE  /\ \A v \in PresentationTypes :
              WriteField(Word(s), TypeBits, v) = Word([s EXCEPT !.type = v])
         /\ \A v \in Aligns :
              WriteField(Word(s), AlignBits, v) = Word([s EXCEPT !.align = v])
         /\ \A v \in ArgIdKinds :
              WriteField(Word(s), WidthBits, v) = Word([s EXCEPT !.width = v])
         /\ \A v \in ArgIdKinds :
              WriteField(Word(s), PrecisionBits, v) = Word([s EXCEPT !.precision = v])
         /\ \A v \in Signs :
              WriteField(Word(s), SignBits, v) = Word([s EXCEPT !.sign = v])
         /\ WriteField(Word(s), UpperBits, 1) = Word([s EXCEPT !.upper = TRUE])
         /\ \A on \in BOOLEAN :
              WriteField(Word(s), AltBits, Bit(on)) = Word([s EXCEPT !.alt = on])
         /\ WriteField(Word(s), LocalizedBits, 1) = Word([s EXCEPT !.localized = TRUE])
         /\ \A f \in Seq(Bytes \cup {Space, ZeroChar}) :
              WriteField(Word(s), FillSizeBits, Len(f)) = Word([s EXCEPT !.fill = f])
<1>10. PICK t \in Int, a \in Int, w \in Int, p \in Int, g \in Int, u \in Int,
             l \in Int, c \in Int, n \in Int :
         /\ t = s.type /\ a = s.align /\ w = s.width /\ p = s.precision /\ g = s.sign
         /\ u = Bit(s.upper) /\ l = Bit(s.alt) /\ c = Bit(s.localized)
         /\ n = Len(s.fill)
  <2>1. /\ s.type \in Int /\ s.align \in Int /\ s.width \in Int /\ s.precision \in Int
        /\ s.sign \in Int
    BY DEF Asked, PresentationTypes, Aligns, ArgIdKinds, Signs
  <2>2. Bit(s.upper) \in Int /\ Bit(s.alt) \in Int /\ Bit(s.localized) \in Int
    BY DEF Bit
  <2>3. Len(s.fill) \in Int
    OBVIOUS
  <2>4. QED
    BY <2>1, <2>2, <2>3, Zenon
<1>1. ASSUME NEW v \in PresentationTypes
      PROVE  WriteField(Word(s), TypeBits, v) = Word([s EXCEPT !.type = v])
  <2>1. PICK x \in Int : x = v
    BY DEF PresentationTypes
  <2>2. WriteField(Word(s), TypeBits, x) = Word(s) - t * 1 + x * 1
    BY <1>10, FieldsFit DEF WriteField, TypeBits, Field
  <2>3. Word(s) = Pack(t, a, w, p, g, u, l, c, n)
    BY <1>10 DEF Word
  <2>4. Word([s EXCEPT !.type = v]) = Pack(x, a, w, p, g, u, l, c, n)
    BY <1>10, <2>1 DEF Word, Asked
  <2>5. Pack(x, a, w, p, g, u, l, c, n) = Pack(t, a, w, p, g, u, l, c, n) - t * 1 + x * 1
    BY DEF Pack
  <2>6. QED
    BY <2>1, <2>2, <2>3, <2>4, <2>5
<1>2. ASSUME NEW v \in Aligns
      PROVE  WriteField(Word(s), AlignBits, v) = Word([s EXCEPT !.align = v])
  <2>1. PICK x \in Int : x = v
    BY DEF Aligns
  <2>2. WriteField(Word(s), AlignBits, x) = Word(s) - a * 8 + x * 8
    BY <1>10, FieldsFit DEF WriteField, AlignBits, Field
  <2>3. Word(s) = Pack(t, a, w, p, g, u, l, c, n)
    BY <1>10 DEF Word
  <2>4. Word([s EXCEPT !.align = v]) = Pack(t, x, w, p, g, u, l, c, n)
    BY <1>10, <2>1 DEF Word, Asked
  <2>5. Pack(t, x, w, p, g, u, l, c, n) = Pack(t, a, w, p, g, u, l, c, n) - a * 8 + x * 8
    BY DEF Pack
  <2>6. QED
    BY <2>1, <2>2, <2>3, <2>4, <2>5
<1>3. ASSUME NEW v \in ArgIdKinds
      PROVE  WriteField(Word(s), WidthBits, v) = Word([s EXCEPT !.width = v])
  <2>1. PICK x \in Int : x = v
    BY DEF ArgIdKinds
  <2>2. WriteField(Word(s), WidthBits, x) = Word(s) - w * 64 + x * 64
    BY <1>10, FieldsFit DEF WriteField, WidthBits, Field
  <2>3. Word(s) = Pack(t, a, w, p, g, u, l, c, n)
    BY <1>10 DEF Word
  <2>4. Word([s EXCEPT !.width = v]) = Pack(t, a, x, p, g, u, l, c, n)
    BY <1>10, <2>1 DEF Word, Asked
  <2>5. Pack(t, a, x, p, g, u, l, c, n) = Pack(t, a, w, p, g, u, l, c, n) - w * 64 + x * 64
    BY DEF Pack
  <2>6. QED
    BY <2>1, <2>2, <2>3, <2>4, <2>5
<1>4. ASSUME NEW v \in ArgIdKinds
      PROVE  WriteField(Word(s), PrecisionBits, v) = Word([s EXCEPT !.precision = v])
  <2>1. PICK x \in Int : x = v
    BY DEF ArgIdKinds
  <2>2. WriteField(Word(s), PrecisionBits, x) = Word(s) - p * 256 + x * 256
    BY <1>10, FieldsFit DEF WriteField, PrecisionBits, Field
  <2>3. Word(s) = Pack(t, a, w, p, g, u, l, c, n)
    BY <1>10 DEF Word
  <2>4. Word([s EXCEPT !.precision = v]) = Pack(t, a, w, x, g, u, l, c, n)
    BY <1>10, <2>1 DEF Word, Asked
  <2>5. Pack(t, a, w, x, g, u, l, c, n) = Pack(t, a, w, p, g, u, l, c, n) - p * 256 + x * 256
    BY DEF Pack
  <2>6. QED
    BY <2>1, <2>2, <2>3, <2>4, <2>5
<1>5. ASSUME NEW v \in Signs
      PROVE  WriteField(Word(s), SignBits, v) = Word([s EXCEPT !.sign = v])
  <2>1. PICK x \in Int : x = v
    BY DEF Signs
  <2>2. WriteField(Word(s), SignBits, x) = Word(s) - g * 1024 + x * 1024
    BY <1>10, FieldsFit DEF WriteField, SignBits, Field
  <2>3. Word(s) = Pack(t, a, w, p, g, u, l, c, n)
    BY <1>10 DEF Word
  <2>4. Word([s EXCEPT !.sign = v]) = Pack(t, a, w, p, x, u, l, c, n)
    BY <1>10, <2>1 DEF Word, Asked
  <2>5. Pack(t, a, w, p, x, u, l, c, n) = Pack(t, a, w, p, g, u, l, c, n) - g * 1024 + x * 1024
    BY DEF Pack
  <2>6. QED
    BY <2>1, <2>2, <2>3, <2>4, <2>5
<1>6. WriteField(Word(s), UpperBits, 1) = Word([s EXCEPT !.upper = TRUE])
  <2>1. PICK x \in Int : x = 1
    BY DEF Bit
  <2>2. WriteField(Word(s), UpperBits, x) = Word(s) - u * 4096 + x * 4096
    BY <1>10, FieldsFit DEF WriteField, UpperBits, Field
  <2>3. Word(s) = Pack(t, a, w, p, g, u, l, c, n)
    BY <1>10 DEF Word
  <2>4. Word([s EXCEPT !.upper = TRUE]) = Pack(t, a, w, p, g, x, l, c, n)
    BY <1>10, <2>1 DEF Word, Asked, Bit
  <2>5. Pack(t, a, w, p, g, x, l, c, n) = Pack(t, a, w, p, g, u, l, c, n) - u * 4096 + x * 4096
    BY DEF Pack
  <2>6. QED
    BY <2>1, <2>2, <2>3, <2>4, <2>5
<1>7. ASSUME NEW on \in BOOLEAN
      PROVE  WriteField(Word(s), AltBits, Bit(on)) = Word([s EXCEPT !.alt = on])
  <2>1. PICK x \in Int : x = Bit(on)
    BY DEF Bit
  <2>2. WriteField(Word(s), AltBits, x) = Word(s) - l * 8192 + x * 8192
    BY <1>10, FieldsFit DEF WriteField, AltBits, Field
  <2>3. Word(s) = Pack(t, a, w, p, g, u, l, c, n)
    BY <1>10 DEF Word
  <2>4. Word([s EXCEPT !.alt = on]) = Pack(t, a, w, p, g, u, x, c, n)
    BY <1>10, <2>1 DEF Word, Asked
  <2>5. Pack(t, a, w, p, g, u, x, c, n) = Pack(t, a, w, p, g, u, l, c, n) - l * 8192 + x * 8192
    BY DEF Pack
  <2>6. QED
    BY <2>1, <2>2, <2>3, <2>4, <2>5
<1>8. WriteField(Word(s), LocalizedBits, 1) = Word([s EXCEPT !.localized = TRUE])
  <2>1. PICK x \in Int : x = 1
    BY DEF Bit
  <2>2. WriteField(Word(s), LocalizedBits, x) = Word(s) - c * 16384 + x * 16384
    BY <1>10, FieldsFit DEF WriteField, LocalizedBits, Field
  <2>3. Word(s) = Pack(t, a, w, p, g, u, l, c, n)
    BY <1>10 DEF Word
  <2>4. Word([s EXCEPT !.localized = TRUE]) = Pack(t, a, w, p, g, u, l, x, n)
    BY <1>10, <2>1 DEF Word, Asked, Bit
  <2>5. Pack(t, a, w, p, g, u, l, x, n) = Pack(t, a, w, p, g, u, l, c, n) - c * 16384 + x * 16384
    BY DEF Pack
  <2>6. QED
    BY <2>1, <2>2, <2>3, <2>4, <2>5
<1>9. ASSUME NEW f \in Seq(Bytes \cup {Space, ZeroChar})
      PROVE  WriteField(Word(s), FillSizeBits, Len(f)) = Word([s EXCEPT !.fill = f])
  <2>1. PICK x \in Int : x = Len(f)
    BY DEF Bit
  <2>2. WriteField(Word(s), FillSizeBits, x) = Word(s) - n * 32768 + x * 32768
    <3>1. ReadField(Word(s), FillSizeBits) = n
      BY <1>10, FieldsFit
    <3>2. FillSizeBits.unit = 32768
      BY DEF FillSizeBits, Field
    <3>3. QED
      BY <3>1, <3>2 DEF WriteField
  <2>3. Word(s) = Pack(t, a, w, p, g, u, l, c, n)
    BY <1>10 DEF Word
  <2>4. Word([s EXCEPT !.fill = f]) = Pack(t, a, w, p, g, u, l, c, x)
    BY <1>10, <2>1 DEF Word, Asked
  <2>5. Pack(t, a, w, p, g, u, l, c, x) = Pack(t, a, w, p, g, u, l, c, n) - n * 32768 + x * 32768
    BY DEF Pack
  <2>6. QED
    BY <2>1, <2>2, <2>3, <2>4, <2>5
<1>11. QED
  BY <1>1, <1>2, <1>3, <1>4, <1>5, <1>6, <1>7, <1>8, <1>9, <1>10

LEMMA SpecsInitHolds == SpecsInit => SpecsInv
<1> SUFFICES ASSUME SpecsInit PROVE SpecsInv
  OBVIOUS
<1>1. Defaults \in Asked /\ Len(Defaults.fill) = 1 /\ Defaults.fill[1] = Space
  BY DEF Defaults, Asked, PresentationTypes, Aligns, ArgIdKinds, Signs
<1>2. Word(Defaults) = 32768
  <2>1. Word(Defaults) = Pack(0, 0, 0, 0, 0, 0, 0, 0, 1)
    BY <1>1 DEF Word, Defaults, Bit
  <2>2. QED
    BY <2>1 DEF Pack
<1>3. /\ fillData \in Seq(FillBytes) /\ Len(fillData) = MaxFillSize
      /\ fillData[1] = Space
  BY DEF SpecsInit, FillBytes, MaxFillSize
<1>4. set = Defaults /\ data = 32768
  BY DEF SpecsInit, FillSizeBits, Field
<1>5. QED
  BY <1>1, <1>2, <1>3, <1>4 DEF SpecsInv

(* A fill is one byte or two, stored where the getter looks for them.      *)
LEMMA FillIsStored ==
  ASSUME SpecsInv, NEW f \in Fills, SetFill(f)
  PROVE  SpecsInv'
<1>1. f \in Seq(Bytes \cup {Space, ZeroChar}) /\ Len(f) \in 1 .. 2
  <2>1. ASSUME NEW x \in Bytes, f = <<x>>
        PROVE  f \in Seq(Bytes \cup {Space, ZeroChar}) /\ Len(f) \in 1 .. 2
    BY <2>1
  <2>2. ASSUME NEW x \in Bytes, NEW y \in Bytes, f = <<x, y>>
        PROVE  f \in Seq(Bytes \cup {Space, ZeroChar}) /\ Len(f) \in 1 .. 2
    BY <2>2
  <2>3. QED
    BY <2>1, <2>2 DEF Fills
<1>2. set' = [set EXCEPT !.fill = f] /\ set' \in Asked /\ set'.fill = f
  BY <1>1 DEF SetFill, SpecsInv, Asked
<1>3. data' = Word(set')
  <2>1. data' = WriteField(Word(set), FillSizeBits, Len(f))
    BY DEF SetFill, SpecsInv
  <2>2. set \in Asked /\ Len(set.fill) \in 0 .. 7
    BY DEF SpecsInv
  <2>3. WriteField(Word(set), FillSizeBits, Len(f)) = Word([set EXCEPT !.fill = f])
    BY <1>1, <2>2, WriteIs
  <2>4. QED
    BY <1>2, <2>1, <2>3
<1>4. /\ fillData' \in Seq(FillBytes) /\ Len(fillData') = MaxFillSize
      /\ \A i \in 1 .. Len(f) : fillData'[i] = f[i]
  <2>1. /\ fillData[4] \in FillBytes /\ \A i \in 1 .. 4 : fillData[i] \in FillBytes
        /\ \A i \in 1 .. Len(f) : f[i] \in FillBytes
    <3>1. \A i \in 1 .. 4 : fillData[i] \in FillBytes
      <4>1. fillData \in Seq(FillBytes) /\ Len(fillData) = 4
        BY DEF SpecsInv, MaxFillSize
      <4>2. QED
        BY <4>1
    <3>2. \A i \in 1 .. Len(f) : f[i] \in Bytes \cup {Space, ZeroChar}
      BY <1>1
    <3>3. QED
      BY <3>1, <3>2 DEF FillBytes
  <2>2. CASE Len(f) = 1
    <3>1. fillData' = <<f[1], 0, 0, fillData[4]>>
      BY <2>2 DEF SetFill
    <3>2. 0 \in FillBytes
      BY DEF FillBytes
    <3>3. QED
      BY <2>1, <2>2, <3>1, <3>2 DEF MaxFillSize
  <2>3. CASE Len(f) = 2
    <3>1. fillData' = [i \in 1 .. 4 |-> IF i <= Len(f) THEN f[i] ELSE fillData[i]]
      BY <2>3 DEF SetFill, MaxFillSize
    <3>2. \A i \in 1 .. 4 : (IF i <= Len(f) THEN f[i] ELSE fillData[i]) \in FillBytes
      BY <2>1, <2>3
    <3>3. [i \in 1 .. 4 |-> IF i <= Len(f) THEN f[i] ELSE fillData[i]] \in Seq(FillBytes)
      BY <3>2
    <3>4. fillData' \in Seq(FillBytes) /\ Len(fillData') = 4
      BY <3>1, <3>3
    <3>5. QED
      BY <2>3, <3>1, <3>4 DEF MaxFillSize
  <2>4. QED
    BY <1>1, <2>2, <2>3
<1>5. QED
  BY <1>1, <1>2, <1>3, <1>4 DEF SpecsInv

LEMMA FillCharIsStored ==
  ASSUME SpecsInv, SetFillChar(ZeroChar)
  PROVE  SpecsInv'
<1> DEFINE f == <<ZeroChar>>
<1>1. f \in Seq(Bytes \cup {Space, ZeroChar}) /\ Len(f) = 1
  OBVIOUS
<1>2. set' = [set EXCEPT !.fill = f] /\ set' \in Asked /\ set'.fill = f
  BY <1>1 DEF SetFillChar, SpecsInv, Asked
<1>3. data' = Word(set')
  <2>1. data' = WriteField(Word(set), FillSizeBits, Len(f))
    BY <1>1 DEF SetFillChar, SpecsInv
  <2>2. set \in Asked /\ Len(set.fill) \in 0 .. 7
    BY DEF SpecsInv
  <2>3. WriteField(Word(set), FillSizeBits, Len(f)) = Word([set EXCEPT !.fill = f])
    BY <1>1, <2>2, WriteIs
  <2>4. QED
    BY <1>2, <2>1, <2>3
<1>4. /\ fillData' \in Seq(FillBytes) /\ Len(fillData') = MaxFillSize
      /\ fillData'[1] = ZeroChar
  BY DEF SetFillChar, SpecsInv, FillBytes, MaxFillSize
<1>5. QED
  BY <1>1, <1>2, <1>3, <1>4 DEF SpecsInv

(* The setters of the word leave the bytes and the size of the fill alone. *)
LEMMA WordSetters ==
  ASSUME SpecsInv, UNCHANGED fillData, set' \in Asked, set'.fill = set.fill,
         data' = Word(set')
  PROVE  SpecsInv'
BY DEF SpecsInv

LEMMA SpecsNextHolds ==
  ASSUME SpecsInv, [SpecsNext]_specsVars
  PROVE  SpecsInv'
<1>0. set \in Asked /\ Len(set.fill) \in 0 .. 7 /\ data = Word(set)
  BY DEF SpecsInv
<1>1. CASE UNCHANGED specsVars
  BY <1>1 DEF SpecsInv, specsVars
<1>2. ASSUME NEW t \in PresentationTypes, SetType(t) PROVE SpecsInv'
  BY <1>0, <1>2, WriteIs, WordSetters DEF SetType, Asked
<1>3. ASSUME NEW a \in Aligns, SetAlign(a) PROVE SpecsInv'
  BY <1>0, <1>3, WriteIs, WordSetters DEF SetAlign, Asked
<1>4. ASSUME NEW k \in ArgIdKinds, SetDynamicWidth(k) PROVE SpecsInv'
  BY <1>0, <1>4, WriteIs, WordSetters DEF SetDynamicWidth, Asked
<1>5. ASSUME NEW k \in ArgIdKinds, SetDynamicPrecision(k) PROVE SpecsInv'
  BY <1>0, <1>5, WriteIs, WordSetters DEF SetDynamicPrecision, Asked
<1>6. ASSUME NEW g \in Signs, SetSign(g) PROVE SpecsInv'
  BY <1>0, <1>6, WriteIs, WordSetters DEF SetSign, Asked
<1>7. CASE SetUpper
  BY <1>0, <1>7, WriteIs, WordSetters DEF SetUpper, Asked
<1>8. CASE SetLocalized
  BY <1>0, <1>8, WriteIs, WordSetters DEF SetLocalized, Asked
<1>9. ASSUME NEW on \in BOOLEAN, SetAlt(on) PROVE SpecsInv'
  <2>1. data' = WriteField(Word(set), AltBits, Bit(on))
    BY <1>0, <1>9 DEF SetAlt, Bit
  <2>2. QED
    BY <1>0, <1>9, <2>1, WriteIs, WordSetters DEF SetAlt, Asked
<1>10. QED
  BY <1>1, <1>2, <1>3, <1>4, <1>5, <1>6, <1>7, <1>8, <1>9, FillIsStored,
     FillCharIsStored DEF SpecsNext

(* The masks of basic_specs are disjoint and wide enough and the fill lies *)
(* where its getter reads it: after any sequence of setters every getter   *)
(* returns what its own setter was given last.                             *)
THEOREM GettersReturn == SpecsSpec => []GettersReturnWhatWasSet
<1>1. SpecsInv => GettersReturnWhatWasSet
  <2> SUFFICES ASSUME SpecsInv PROVE GettersReturnWhatWasSet
    OBVIOUS
  <2>1. set \in Asked /\ Len(set.fill) \in 0 .. 7 /\ data = Word(set)
    BY DEF SpecsInv
  <2>2. /\ Type = set.type /\ Align = set.align /\ Sign = set.sign
        /\ DynamicWidth = set.width /\ DynamicPrecision = set.precision
        /\ FillSize = Len(set.fill)
    BY <2>1, FieldsFit DEF Type, Align, Sign, DynamicWidth, DynamicPrecision, FillSize
  <2>3. Upper = set.upper /\ Alt = set.alt /\ Localized = set.localized
    <3>1. set.upper \in BOOLEAN /\ set.alt \in BOOLEAN /\ set.localized \in BOOLEAN
      BY <2>1 DEF Asked
    <3>2. /\ ReadField(data, UpperBits) = Bit(set.upper)
          /\ ReadField(data, AltBits) = Bit(set.alt)
          /\ ReadField(data, LocalizedBits) = Bit(set.localized)
      BY <2>1, FieldsFit
    <3>3. QED
      BY <3>1, <3>2 DEF Upper, Alt, Localized, Bit
  <2>4. Fill = set.fill
    <3>1. /\ fillData \in Seq(FillBytes) /\ Len(fillData) = 4 /\ set.fill \in Seq(FillBytes)
          /\ Len(set.fill) \in 1 .. 2
          /\ \A i \in 1 .. Len(set.fill) : fillData[i] = set.fill[i]
      BY DEF SpecsInv, MaxFillSize, Asked, FillBytes
    <3>2. Fill = SubSeq(fillData, 1, Len(set.fill))
      BY <2>2 DEF Fill
    <3>3. QED
      BY <3>1, <3>2
  <2>5. QED
    BY <2>2, <2>3, <2>4 DEF GettersReturnWhatWasSet, Dynamic
<1>2. QED
  BY SpecsInitHolds, SpecsNextHolds, <1>1, PTL DEF SpecsSpec

-----------------------------------------------------------------------------
(* FmtBuffer: for any buffer size, any limit and any sequence of writes,   *)
(* the caller gets the first units of the output, the size returned is     *)
(* that of all of it and nothing is written past an end.                   *)

Buffer == [where : {"out", "data"}, data : Seq(Nat), cap : Nat, count : Nat,
           out : Seq(Nat)]

(* p is the part of w after its first k units.                             *)
Piece(p, w, k) == \A i \in 1 .. Len(p) : p[i] = w[k + i]

(* How many units a buffer has handed on or dropped.                       *)
Handed(c) == IF kind = "stream" THEN Len(c.out) ELSE c.count

(* The room a buffer has, by its kind.  A limited array that has changed to*)
(* its scratch array is full.                                              *)
RoomOf(c) ==
  /\ Len(c.data) <= c.cap
  /\ kind # "array" => c.where = "data"
  /\ kind # "container" /\ c.where = "data" => c.cap = BufferSize
  /\ kind = "array" /\ c.where = "out" => c.cap = limit /\ c.count = 0 /\ c.out = <<>>
  /\ kind = "array" /\ c.where = "data" => limit <= c.count
  /\ kind = "container" => c.count = 0 /\ c.out = <<>>

(* What was handed on, what is in data and what is still to be written, q, *)
(* are consecutive parts of the output w, and the caller has the first of  *)
(* these as far as it has room.                                            *)
Consecutive(c, q, w) ==
  /\ Len(w) = Handed(c) + Len(c.data) + Len(q)
  /\ Piece(c.data, w, Handed(c))
  /\ Piece(q, w, Handed(c) + Len(c.data))
  /\ kind \in Limited => Len(c.out) = Min2(limit, c.count)
  /\ kind \in Limited \cup {"stream"} => Piece(c.out, w, 0)

(* A container is never resized past what is written.                      *)
Tight(c, q) == kind = "container" => c.cap <= Len(c.data) + Len(q)

Holds(c, q, w) ==
  c \in Buffer /\ RoomOf(c) /\ Consecutive(c, q, w) /\ Tight(c, q)

BufferInv ==
  /\ kind \in Kinds /\ limit \in Nat
  /\ todo \in Seq(Nat) /\ written \in Seq(Nat) /\ Len(written) <= MaxUnits
  /\ phase \in {"writing", "returned", "thrown"} /\ how \in {"append", "push"}
  /\ phase = "writing" => Holds(b, todo, written)
  /\ phase # "writing" =>
       todo = <<>> /\ OutputIsPrefix /\ SizeIsTotal /\ NothingPastTheEnd

USE DEF Limited, Kinds
------------------------------------------------------------------------------
LEMMA FirstIs ==
  ASSUME NEW q \in Seq(Nat), NEW n \in Nat
  PROVE  /\ First(n, q) \in Seq(Nat) /\ Len(First(n, q)) = Min2(n, Len(q))
         /\ \A i \in 1 .. Min2(n, Len(q)) : First(n, q)[i] = q[i]
BY DEF First, Min2

LEMMA RestIs ==
  ASSUME NEW q \in Seq(Nat), NEW n \in 0 .. Len(q)
  PROVE  /\ SubSeq(q, n + 1, Len(q)) \in Seq(Nat)
         /\ Len(SubSeq(q, n + 1, Len(q))) = Len(q) - n
         /\ \A i \in 1 .. Len(q) - n : SubSeq(q, n + 1, Len(q))[i] = q[n + i]
<1>1. SubSeq(q, n + 1, Len(q)) \in Seq(Nat) /\ Len(SubSeq(q, n + 1, Len(q))) = Len(q) - n
  OBVIOUS
<1>2. ASSUME NEW i \in 1 .. Len(q) - n
      PROVE  SubSeq(q, n + 1, Len(q))[i] = q[n + i]
  OBVIOUS
<1> QED
  BY <1>1, <1>2

LEMMA ConcatIs ==
  ASSUME NEW p \in Seq(Nat), NEW q \in Seq(Nat)
  PROVE  /\ p \o q \in Seq(Nat) /\ Len(p \o q) = Len(p) + Len(q)
         /\ \A i \in 1 .. Len(p) : (p \o q)[i] = p[i]
         /\ \A i \in 1 .. Len(q) : (p \o q)[Len(p) + i] = q[i]
OBVIOUS

(* Two consecutive parts make one part.                                    *)
LEMMA PieceConcat ==
  ASSUME NEW p \in Seq(Nat), NEW q \in Seq(Nat), NEW w \in Seq(Nat), NEW k \in Nat,
         Piece(p, w, k), Piece(q, w, k + Len(p))
  PROVE  Piece(p \o q, w, k)
<1> SUFFICES ASSUME NEW i \in 1 .. Len(p \o q)  PROVE (p \o q)[i] = w[k + i]
  BY DEF Piece
<1>1. Len(p) \in Nat /\ Len(q) \in Nat /\ Len(p \o q) = Len(p) + Len(q)
  BY ConcatIs
<1>2. CASE i <= Len(p)
  BY <1>1, <1>2, ConcatIs DEF Piece
<1>3. CASE i > Len(p)
  <2> DEFINE j == i - Len(p)
  <2>1. j \in 1 .. Len(q) /\ i = Len(p) + j /\ k + i = k + Len(p) + j
    BY <1>1, <1>3
  <2>2. (p \o q)[Len(p) + j] = q[j] /\ q[j] = w[k + Len(p) + j]
    BY <2>1, ConcatIs DEF Piece
  <2> QED
    BY <2>1, <2>2
<1>4. i <= Len(p) \/ i > Len(p)
  BY <1>1
<1> QED
  BY <1>2, <1>3, <1>4

(* The beginning and the rest of a part are parts.                         *)
LEMMA PieceSplit ==
  ASSUME NEW q \in Seq(Nat), NEW w \in Seq(Nat), NEW k \in Nat, Piece(q, w, k),
         NEW n \in 0 .. Len(q)
  PROVE  /\ First(n, q) \in Seq(Nat) /\ Len(First(n, q)) = n
         /\ Piece(First(n, q), w, k)
         /\ SubSeq(q, n + 1, Len(q)) \in Seq(Nat)
         /\ Len(SubSeq(q, n + 1, Len(q))) = Len(q) - n
         /\ Piece(SubSeq(q, n + 1, Len(q)), w, k + n)
<1>1. n \in Nat /\ Len(q) \in Nat /\ n <= Len(q) /\ Min2(n, Len(q)) = n
  BY DEF Min2
<1>2. /\ First(n, q) \in Seq(Nat) /\ Len(First(n, q)) = n
      /\ \A i \in 1 .. n : First(n, q)[i] = q[i]
  BY <1>1, FirstIs
<1>3. Piece(First(n, q), w, k)
  <2> SUFFICES ASSUME NEW i \in 1 .. n  PROVE First(n, q)[i] = w[k + i]
    BY <1>2 DEF Piece
  <2>1. i \in 1 .. Len(q)
    BY <1>1
  <2> QED
    BY <1>2, <2>1 DEF Piece
<1>4. Piece(SubSeq(q, n + 1, Len(q)), w, k + n)
  <2> SUFFICES ASSUME NEW i \in 1 .. Len(q) - n
               PROVE  SubSeq(q, n + 1, Len(q))[i] = w[k + n + i]
    BY RestIs DEF Piece
  <2>1. SubSeq(q, n + 1, Len(q))[i] = q[n + i]
    BY RestIs
  <2>2. n + i \in 1 .. Len(q) /\ k + (n + i) = k + n + i
    BY <1>1
  <2> QED
    BY <2>1, <2>2 DEF Piece
<1> QED
  BY <1>2, <1>3, <1>4, RestIs

(* A part stays one when the output grows.                                 *)
LEMMA PieceLonger ==
  ASSUME NEW p \in Seq(Nat), NEW w \in Seq(Nat), NEW u \in Seq(Nat), NEW k \in Nat,
         Piece(p, w, k), k + Len(p) <= Len(w)
  PROVE  Piece(p, w \o u, k)
<1> SUFFICES ASSUME NEW i \in 1 .. Len(p)  PROVE p[i] = (w \o u)[k + i]
  BY DEF Piece
<1>1. k + i \in 1 .. Len(w)
  OBVIOUS
<1> QED
  BY <1>1, ConcatIs DEF Piece

(* A part from the start is the beginning.                                 *)
LEMMA PieceIsFirst ==
  ASSUME NEW p \in Seq(Nat), NEW w \in Seq(Nat), NEW n \in Nat,
         Piece(p, w, 0), Len(p) = Min2(n, Len(w))
  PROVE  p = First(n, w)
<1>1. First(n, w) \in Seq(Nat) /\ Len(First(n, w)) = Len(p)
  BY FirstIs
<1>2. ASSUME NEW i \in 1 .. Len(p)  PROVE p[i] = First(n, w)[i]
  <2>1. p[i] = w[0 + i] /\ 0 + i = i
    BY DEF Piece
  <2>2. First(n, w)[i] = w[i]
    BY FirstIs
  <2> QED
    BY <2>1, <2>2
<1> QED
  BY <1>1, <1>2

LEMMA LimitIs ==
  ASSUME NEW c \in Buffer, limit \in Nat
  PROVE  /\ Limit(c) \in Nat /\ Limit(c) <= Len(c.data)
         /\ Min2(limit, c.count) + Limit(c) = Min2(limit, c.count + Len(c.data))
BY DEF Buffer, Limit, Min2
------------------------------------------------------------------------------
(* A flush hands on everything; the caller gets what it has room for.      *)
LEMMA FlushKeeps ==
  ASSUME BufferAssumption, kind \in {"array", "iterator", "stream"}, limit \in Nat,
         NEW c \in Buffer, NEW q \in Seq(Nat), NEW w \in Seq(Nat),
         RoomOf(c), Consecutive(c, q, w)
  PROVE  /\ Flush(c) \in Buffer /\ Flush(c).data = <<>> /\ Flush(c).where = "data"
         /\ Flush(c).cap = BufferSize /\ Consecutive(Flush(c), q, w)
         /\ kind # "stream" => Flush(c).count = c.count + Len(c.data)
<1> DEFINE d == Flush(c)
<1>1. /\ c.data \in Seq(Nat) /\ c.out \in Seq(Nat) /\ c.count \in Nat /\ c.cap \in Nat
      /\ BufferSize \in Nat /\ c.where \in {"out", "data"}
      /\ Len(c.data) \in Nat /\ Len(q) \in Nat /\ Len(c.out) \in Nat
  BY DEF Buffer, BufferAssumption
<1>2. /\ Limit(c) \in Nat /\ Limit(c) <= Len(c.data)
      /\ Min2(limit, c.count) + Limit(c) = Min2(limit, c.count + Len(c.data))
  BY LimitIs
<1>3. <<>> \in Seq(Nat) /\ Len(<<>>) = 0 /\ \A w1, k : Piece(<<>>, w1, k)
  BY DEF Piece
<1>4. CASE kind \in Limited
  <2> DEFINE n == IF kind = "array" /\ c.where = "data" THEN 0 ELSE Limit(c)
             p == First(n, c.data)
  <2>1. n \in 0 .. Len(c.data) /\ Len(c.out) + n = Min2(limit, c.count + Len(c.data))
    BY <1>1, <1>2, <1>4 DEF RoomOf, Consecutive, Min2
  <2>2. d = [where |-> "data", data |-> <<>>, cap |-> BufferSize,
             count |-> c.count + Len(c.data), out |-> c.out \o p]
    <3>1. CASE kind = "array"
      BY <1>1, <3>1 DEF Flush, FlushArray, Counted
    <3>2. CASE kind = "iterator"
      <4>1. c.where = "data" /\ c.cap = BufferSize
        BY <3>2 DEF RoomOf
      <4> QED
        BY <3>2, <4>1 DEF Flush, FlushIterator, Counted, Buffer
    <3> QED
      BY <1>4, <3>1, <3>2
  <2>3. /\ Handed(c) = c.count /\ Piece(c.data, w, c.count) /\ Piece(c.out, w, 0)
        /\ Len(c.out) = Min2(limit, c.count)
        /\ Len(w) = c.count + Len(c.data) + Len(q) /\ Piece(q, w, c.count + Len(c.data))
    BY <1>4 DEF Handed, Consecutive
  <2>4. p \in Seq(Nat) /\ Len(p) = n /\ Piece(p, w, c.count)
    BY <1>1, <2>1, <2>3, PieceSplit
  <2>5. Piece(p, w, 0 + Len(c.out))
    <3>1. CASE n = 0
      BY <2>4, <3>1 DEF Piece
    <3>2. CASE n # 0
      <4>1. Len(c.out) = c.count
        BY <1>1, <1>2, <1>4, <2>1, <2>3, <3>2 DEF RoomOf, Min2
      <4> QED
        BY <1>1, <2>4, <4>1
    <3> QED
      BY <3>1, <3>2
  <2> HIDE DEF d, n, p
  <2>6. /\ c.out \o p \in Seq(Nat) /\ Len(c.out \o p) = Len(c.out) + n
        /\ Piece(c.out \o p, w, 0)
    <3>1. Piece(c.out \o p, w, 0)
      BY <1>1, <2>3, <2>4, <2>5, PieceConcat
    <3> QED
      BY <1>1, <2>4, <3>1, ConcatIs
  <2>7. d \in Buffer
    <3>1. c.count + Len(c.data) \in Nat
      BY <1>1
    <3> QED
      BY <1>1, <1>3, <2>2, <2>6, <3>1 DEF Buffer
  <2>8. /\ Handed(d) = c.count + Len(c.data) /\ d.data = <<>>
        /\ d.count = c.count + Len(c.data) /\ d.out = c.out \o p
    BY <1>4, <2>2 DEF Handed
  <2>9. Handed(d) + Len(d.data) = c.count + Len(c.data)
    BY <1>1, <1>3, <2>8
  <2>10. Consecutive(d, q, w)
    BY <1>3, <1>4, <2>1, <2>3, <2>6, <2>8, <2>9 DEF Consecutive
  <2> QED
    BY <2>2, <2>7, <2>10 DEF d
<1>5. CASE kind = "stream"
  <2>1. c.where = "data" /\ c.cap = BufferSize
    BY <1>5 DEF RoomOf
  <2>2. d = [where |-> "data", data |-> <<>>, cap |-> BufferSize, count |-> 0,
             out |-> c.out \o c.data]
    BY <1>5, <2>1 DEF Flush, FlushIterator, Buffer
  <2>3. /\ Handed(c) = Len(c.out) /\ Piece(c.data, w, Len(c.out)) /\ Piece(c.out, w, 0)
        /\ Len(w) = Len(c.out) + Len(c.data) + Len(q)
        /\ Piece(q, w, Len(c.out) + Len(c.data)) /\ 0 + Len(c.out) = Len(c.out)
    <3>1. Handed(c) = Len(c.out)
      BY <1>5 DEF Handed
    <3>2. Piece(c.data, w, Handed(c)) /\ Piece(q, w, Handed(c) + Len(c.data))
      BY DEF Consecutive
    <3>3. Piece(c.out, w, 0) /\ Len(w) = Handed(c) + Len(c.data) + Len(q)
      BY <1>5 DEF Consecutive
    <3>4. 0 + Len(c.out) = Len(c.out)
      BY <1>1
    <3> QED
      BY <3>1, <3>2, <3>3, <3>4
  <2>4. /\ c.out \o c.data \in Seq(Nat)
        /\ Len(c.out \o c.data) = Len(c.out) + Len(c.data)
        /\ Piece(c.out \o c.data, w, 0)
    BY <1>1, <2>3, ConcatIs, PieceConcat
  <2> HIDE DEF d
  <2>5. d \in Buffer
    BY <1>1, <1>3, <2>2, <2>4 DEF Buffer
  <2>6. Handed(d) = Len(c.out) + Len(c.data) /\ d.data = <<>> /\ d.out = c.out \o c.data
    BY <1>5, <2>2, <2>4 DEF Handed
  <2>7. Handed(d) + Len(d.data) = Len(c.out) + Len(c.data)
    BY <1>1, <1>3, <2>6
  <2>8. Consecutive(d, q, w)
    BY <1>3, <1>5, <2>3, <2>4, <2>6, <2>7 DEF Consecutive
  <2> QED
    BY <1>5, <2>2, <2>5, <2>8 DEF d
<1> QED
  BY <1>4, <1>5

(* Reserving makes room for one unit at least.                             *)
LEMMA TryReserveKeeps ==
  ASSUME BufferAssumption, kind \in Kinds, limit \in Nat,
         NEW c, NEW q \in Seq(Nat), NEW w \in Seq(Nat), Holds(c, q, w),
         NEW m \in 1 .. Len(q)
  PROVE  LET d == TryReserve(c, Len(c.data) + m)
         IN  Holds(d, q, w) /\ d.cap >= Len(d.data) + 1
<1> DEFINE d == TryReserve(c, Len(c.data) + m)
<1>1. /\ c \in Buffer /\ c.data \in Seq(Nat) /\ c.out \in Seq(Nat) /\ c.count \in Nat
      /\ c.cap \in Nat /\ BufferSize \in Nat \ {0} /\ c.where \in {"out", "data"}
      /\ Len(c.data) \in Nat /\ Len(q) \in Nat /\ Len(c.out) \in Nat
      /\ RoomOf(c) /\ Consecutive(c, q, w) /\ Tight(c, q)
  BY DEF Holds, Buffer, BufferAssumption
<1>2. <<>> \in Seq(Nat) /\ Len(<<>>) = 0 /\ \A w1, k : Piece(<<>>, w1, k)
  BY DEF Piece
<1>3. CASE Len(c.data) + m <= c.cap
  BY <1>1, <1>3 DEF TryReserve
<1>4. CASE Len(c.data) + m > c.cap
  <2>1. d = Grow(c, Len(c.data) + m)
    BY <1>1, <1>4 DEF TryReserve
  <2>2. Len(c.data) <= c.cap
    BY <1>1 DEF RoomOf
  <2>3. CASE kind = "container"
    <3>1. /\ d = [where |-> c.where, data |-> c.data, cap |-> Len(c.data) + m,
                count |-> c.count, out |-> c.out]
          /\ d.where = c.where /\ d.data = c.data /\ d.count = c.count /\ d.out = c.out
          /\ d.cap = Len(c.data) + m
      BY <1>1, <2>1, <2>3 DEF Grow, GrowContainer, Buffer
    <3> HIDE DEF d
    <3>2. d \in Buffer
      BY <1>1, <3>1 DEF Buffer
    <3>3. RoomOf(d) /\ Tight(d, q)
      <4>1. c.where = "data" /\ c.count = 0 /\ c.out = <<>>
        BY <1>1, <2>3 DEF RoomOf
      <4>2. Len(d.data) <= d.cap /\ d.cap <= Len(d.data) + Len(q)
        BY <1>1, <3>1
      <4> QED
        BY <2>3, <3>1, <4>1, <4>2 DEF RoomOf, Tight
    <3>4. Consecutive(d, q, w)
      BY <1>1, <2>3, <3>1 DEF Consecutive, Handed
    <3> QED
      BY <1>1, <3>1, <3>2, <3>3, <3>4 DEF Holds, d
  <2>4. CASE kind = "counting" /\ Len(c.data) = BufferSize
    <3>1. /\ d = [where |-> c.where, data |-> <<>>, cap |-> c.cap,
                count |-> c.count + Len(c.data), out |-> c.out]
          /\ d.where = c.where /\ d.data = <<>> /\ d.count = c.count + Len(c.data)
          /\ d.out = c.out /\ d.cap = c.cap
      BY <1>1, <2>1, <2>4 DEF Grow, GrowCounting, Counted, Buffer
    <3> HIDE DEF d
    <3>2. d \in Buffer
      BY <1>1, <1>2, <3>1 DEF Buffer
    <3>3. RoomOf(d) /\ Tight(d, q) /\ c.cap = BufferSize
      BY <1>1, <1>2, <2>4, <3>1 DEF RoomOf, Tight
    <3>4. /\ Handed(c) = c.count /\ Handed(d) = c.count + Len(c.data)
          /\ Handed(d) + Len(d.data) = c.count + Len(c.data)
      BY <1>1, <1>2, <2>4, <3>1 DEF Handed
    <3>5. Consecutive(d, q, w)
      BY <1>1, <1>2, <2>4, <3>1, <3>4 DEF Consecutive
    <3> QED
      BY <1>1, <1>2, <3>1, <3>2, <3>3, <3>5 DEF Holds, d
  <2>5. CASE kind = "counting" /\ Len(c.data) # BufferSize
    <3>1. d = c /\ c.cap = BufferSize
      BY <1>1, <2>1, <2>5 DEF Grow, GrowCounting, RoomOf
    <3> QED
      BY <1>1, <2>2, <2>5, <3>1
  <2>6. CASE kind \in {"array", "iterator", "stream"} /\ Len(c.data) = c.cap
    <3>1. d = Flush(c)
      BY <1>1, <2>1, <2>6 DEF Grow, GrowArray, GrowIterator, Flush, RoomOf
    <3>2. /\ d \in Buffer /\ d.data = <<>> /\ d.where = "data"
          /\ d.cap = BufferSize /\ Consecutive(d, q, w)
          /\ kind # "stream" => d.count = c.count + Len(c.data)
      BY <1>1, <2>6, <3>1, FlushKeeps
    <3> HIDE DEF d
    <3>3. kind = "array" => limit <= d.count
      BY <1>1, <2>6, <3>2 DEF RoomOf
    <3>4. RoomOf(d) /\ Tight(d, q)
      BY <1>1, <1>2, <2>6, <3>2, <3>3 DEF RoomOf, Tight
    <3> QED
      BY <1>1, <1>2, <3>2, <3>4 DEF Holds, d
  <2>7. CASE kind \in {"array", "iterator", "stream"} /\ Len(c.data) # c.cap
    <3>1. d = c
      BY <1>1, <2>1, <2>7 DEF Grow, GrowArray, GrowIterator, RoomOf
    <3>2. c.cap >= Len(c.data) + 1
      BY <1>1, <2>2, <2>7
    <3> QED
      BY <3>1, <3>2
  <2> QED
    BY <2>3, <2>4, <2>5, <2>6, <2>7
<1> QED
  BY <1>1, <1>3, <1>4

(* Putting the first n units of what is to be written into data.           *)
LEMMA PutKeeps ==
  ASSUME kind \in Kinds, limit \in Nat,
         NEW c, NEW q \in Seq(Nat), NEW w \in Seq(Nat), Holds(c, q, w),
         NEW n \in 0 .. Len(q), Len(c.data) + n <= c.cap
  PROVE  Holds([c EXCEPT !.data = @ \o First(n, q)], SubSeq(q, n + 1, Len(q)), w)
<1> DEFINE p == First(n, q)
           r == SubSeq(q, n + 1, Len(q))
           d == [c EXCEPT !.data = @ \o p]
<1>1. /\ c \in Buffer /\ c.data \in Seq(Nat) /\ c.out \in Seq(Nat) /\ c.count \in Nat
      /\ c.cap \in Nat /\ c.where \in {"out", "data"}
      /\ Len(c.data) \in Nat /\ Len(q) \in Nat /\ Len(c.out) \in Nat
      /\ RoomOf(c) /\ Consecutive(c, q, w) /\ Tight(c, q)
  BY DEF Holds, Buffer
<1>2. Handed(c) \in Nat
  BY <1>1 DEF Handed
<1>3. Handed(c) + Len(c.data) \in Nat /\ Piece(q, w, Handed(c) + Len(c.data))
  BY <1>1, <1>2 DEF Consecutive
<1>4. /\ p \in Seq(Nat) /\ Len(p) = n /\ Piece(p, w, Handed(c) + Len(c.data))
      /\ r \in Seq(Nat) /\ Len(r) = Len(q) - n
      /\ Piece(r, w, Handed(c) + Len(c.data) + n)
  BY <1>3, PieceSplit
<1> HIDE DEF p, r
<1>5. /\ c.data \o p \in Seq(Nat) /\ Len(c.data \o p) = Len(c.data) + n
      /\ Piece(c.data \o p, w, Handed(c))
  <2>1. Piece(c.data, w, Handed(c))
    BY <1>1 DEF Consecutive
  <2>2. Piece(c.data \o p, w, Handed(c))
    BY <1>1, <1>2, <1>4, <2>1, PieceConcat
  <2> QED
    BY <1>1, <1>4, <2>2, ConcatIs
<1>6. /\ d.data = c.data \o p /\ d.where = c.where /\ d.cap = c.cap
      /\ d.count = c.count /\ d.out = c.out /\ d \in Buffer
  BY <1>1, <1>5 DEF Buffer
<1> HIDE DEF d
<1>7. RoomOf(d) /\ Tight(d, r)
  BY <1>1, <1>4, <1>5, <1>6 DEF RoomOf, Tight
<1>8. Handed(d) = Handed(c)
  BY <1>6 DEF Handed
<1>9. /\ Handed(d) + Len(d.data) = Handed(c) + Len(c.data) + n
      /\ Handed(d) + Len(d.data) + Len(r) = Handed(c) + Len(c.data) + Len(q)
  <2>1. Len(d.data) = Len(c.data) + n
    BY <1>5, <1>6
  <2> QED
    BY <1>1, <1>2, <1>4, <1>8, <2>1
<1>10. Consecutive(d, r, w)
  <2>1. Len(w) = Handed(c) + Len(c.data) + Len(q)
    BY <1>1 DEF Consecutive
  <2>2. /\ kind \in Limited => Len(d.out) = Min2(limit, d.count)
        /\ kind \in Limited \cup {"stream"} => Piece(d.out, w, 0)
    BY <1>1, <1>6 DEF Consecutive
  <2>3. Piece(d.data, w, Handed(d)) /\ Piece(r, w, Handed(d) + Len(d.data))
    BY <1>4, <1>5, <1>6, <1>8, <1>9
  <2> QED
    BY <1>9, <2>1, <2>2, <2>3 DEF Consecutive
<1> QED
  BY <1>6, <1>7, <1>10 DEF Holds, d, p, r

(* The next n units of the output, when all the others are written.        *)
LEMMA NewUnits ==
  ASSUME kind \in Kinds, limit \in Nat, written \in Seq(Nat),
         NEW c, Holds(c, <<>>, written), NEW n \in Nat
  PROVE  /\ Units(n) \in Seq(Nat) /\ Len(Units(n)) = n
         /\ written \o Units(n) \in Seq(Nat)
         /\ Len(written \o Units(n)) = Len(written) + n
         /\ Holds(c, Units(n), written \o Units(n))
<1> DEFINE u == Units(n)
           w == written \o u
<1>1. /\ c \in Buffer /\ c.data \in Seq(Nat) /\ c.out \in Seq(Nat) /\ c.count \in Nat
      /\ c.cap \in Nat /\ Len(c.data) \in Nat /\ Len(c.out) \in Nat
      /\ RoomOf(c) /\ Consecutive(c, <<>>, written) /\ Tight(c, <<>>)
      /\ Len(<<>>) = 0 /\ Len(written) \in Nat
  BY DEF Holds, Buffer
<1>2. u \in Seq(Nat) /\ Len(u) = n
  BY <1>1 DEF Units
<1> HIDE DEF u
<1>3. /\ w \in Seq(Nat) /\ Len(w) = Len(written) + n
      /\ \A i \in 1 .. n : w[Len(written) + i] = u[i]
  BY <1>2, ConcatIs
<1>4. Handed(c) \in Nat /\ Len(written) = Handed(c) + Len(c.data)
  <2>1. Handed(c) \in Nat
    BY <1>1 DEF Handed
  <2> QED
    BY <1>1, <2>1 DEF Consecutive
<1>5. Piece(c.data, w, Handed(c))
  BY <1>1, <1>2, <1>4, PieceLonger DEF Consecutive
<1>6. /\ kind \in Limited => Len(c.out) = Min2(limit, c.count)
      /\ kind \in Limited \cup {"stream"} => Piece(c.out, w, 0)
  <2>1. CASE kind \in Limited \cup {"stream"}
    <3>1. Piece(c.out, written, 0) /\ (kind \in Limited => Len(c.out) = Min2(limit, c.count))
      BY <1>1, <2>1 DEF Consecutive
    <3>2. 0 + Len(c.out) <= Len(written)
      BY <1>1, <1>4, <2>1, <3>1 DEF Handed, Min2
    <3> QED
      BY <1>1, <1>2, <3>1, <3>2, PieceLonger
  <2> QED
    BY <2>1
<1> HIDE DEF w
<1>7. Piece(u, w, Len(written))
  BY <1>2, <1>3 DEF Piece
<1>8. Consecutive(c, u, w)
  BY <1>1, <1>2, <1>3, <1>4, <1>5, <1>6, <1>7 DEF Consecutive
<1>9. Tight(c, u)
  BY <1>1, <1>2 DEF Tight
<1> QED
  BY <1>1, <1>2, <1>3, <1>8, <1>9 DEF Holds, u, w

(* When nothing is left to write, the end of the call hands the output to  *)
(* the caller and the count is that of all of it.                          *)
LEMMA EndIs ==
  ASSUME BufferAssumption, kind \in Kinds, limit \in Nat,
         NEW w \in Seq(Nat), Len(w) <= MaxUnits, NEW c, Holds(c, <<>>, w)
  PROVE  LET e == IF kind = "container" THEN Container(c) ELSE Flush(c)
         IN  /\ kind # "counting" => e.out = First(Room, w)
             /\ kind \in Limited \cup {"counting"} => Counted(e) = Len(w)
             /\ Len(e.data) <= e.cap
             /\ kind = "array" => e.where = "data"
             /\ kind # "container" => e.cap <= BufferSize
<1> DEFINE e == IF kind = "container" THEN Container(c) ELSE Flush(c)
<1>1. /\ c \in Buffer /\ c.data \in Seq(Nat) /\ c.out \in Seq(Nat) /\ c.count \in Nat
      /\ c.cap \in Nat /\ BufferSize \in Nat /\ Len(c.data) \in Nat
      /\ RoomOf(c) /\ Consecutive(c, <<>>, w) /\ Tight(c, <<>>)
      /\ Len(<<>>) = 0 /\ <<>> \in Seq(Nat) /\ Len(w) \in Nat /\ MaxUnits \in Nat
  BY DEF Holds, Buffer, BufferAssumption
<1>2. CASE kind = "container"
  <2>1. c.cap = Len(c.data) /\ c.count = 0 /\ Len(w) = Len(c.data) /\ Piece(c.data, w, 0)
    BY <1>1, <1>2 DEF RoomOf, Tight, Consecutive, Handed
  <2>2. Zeros(c.cap - Len(c.data)) = <<>>
    <3>1. Zeros(0) = <<>>
      BY DEF Zeros
    <3> QED
      BY <1>1, <2>1, <3>1
  <2>3. e = [c EXCEPT !.out = c.data]
    <3>1. c.data \o <<>> = c.data
      BY <1>1
    <3> QED
      BY <1>2, <2>2, <3>1 DEF Container
  <2>4. e.out = c.data /\ e.data = c.data /\ e.cap = c.cap
    BY <1>1, <2>3 DEF Buffer
  <2>5. Room = MaxUnits /\ Min2(MaxUnits, Len(w)) = Len(w)
    BY <1>1, <1>2 DEF Room, Min2
  <2>6. c.data = First(MaxUnits, w)
    BY <1>1, <2>1, <2>5, PieceIsFirst
  <2> HIDE DEF e
  <2>7. e.out = First(Room, w) /\ Len(e.data) <= e.cap
    BY <1>1, <2>1, <2>4, <2>5, <2>6
  <2> QED
    BY <1>2, <2>7 DEF e
<1>3. CASE kind = "counting"
  <2>1. e = c
    BY <1>3 DEF Flush
  <2>2. c.cap = BufferSize /\ Len(c.data) <= c.cap
    BY <1>3, <1>1 DEF RoomOf
  <2>3. Counted(c) = Len(w)
    BY <1>1, <1>3 DEF Counted, Consecutive, Handed
  <2> QED
    BY <1>1, <1>3, <2>1, <2>2, <2>3
<1>4. CASE kind \in {"array", "iterator", "stream"}
  <2>1. /\ e = Flush(c) /\ e \in Buffer /\ e.data = <<>> /\ e.where = "data"
        /\ e.cap = BufferSize /\ Consecutive(e, <<>>, w)
    BY <1>1, <1>4, FlushKeeps
  <2> HIDE DEF e
  <2>2. /\ e.out \in Seq(Nat) /\ e.count \in Nat /\ Len(e.out) \in Nat
        /\ Len(e.data) = 0 /\ Piece(e.out, w, 0)
    BY <1>1, <1>4, <2>1 DEF Buffer, Consecutive
  <2>3. CASE kind \in Limited
    <3>1. Len(w) = e.count /\ Len(e.out) = Min2(limit, e.count)
      BY <1>1, <2>1, <2>2, <2>3 DEF Consecutive, Handed
    <3>2. Room = limit /\ Counted(e) = Len(w)
      BY <2>2, <2>3, <3>1 DEF Room, Counted
    <3>3. e.out = First(limit, w)
      BY <2>2, <3>1, PieceIsFirst
    <3> QED
      BY <1>1, <1>4, <2>1, <2>2, <3>2, <3>3 DEF e
  <2>4. CASE kind = "stream"
    <3>1. Len(w) = Len(e.out)
      <4>1. Handed(e) = Len(e.out)
        BY <2>4 DEF Handed
      <4>2. Len(w) = Handed(e) + Len(e.data) + Len(<<>>)
        BY <2>1 DEF Consecutive
      <4> QED
        BY <1>1, <2>2, <4>1, <4>2
    <3>2. Room = MaxUnits /\ Len(e.out) = Min2(MaxUnits, Len(w))
      BY <1>1, <2>4, <3>1 DEF Room, Min2
    <3>3. e.out = First(MaxUnits, w)
      BY <1>1, <2>2, <3>2, PieceIsFirst
    <3> QED
      BY <1>1, <2>1, <2>2, <2>4, <3>2, <3>3 DEF e
  <2> QED
    BY <1>4, <2>3, <2>4
<1> QED
  BY <1>2, <1>3, <1>4
------------------------------------------------------------------------------
LEMMA InitHolds ==
  ASSUME BufferAssumption, Init  PROVE BufferInv
<1>1. /\ kind \in Kinds /\ limit \in Nat /\ todo = <<>> /\ phase = "writing"
      /\ written \in Seq(Nat) /\ Len(written) <= MaxUnits
      /\ BufferSize \in Nat /\ how = "append"
  <2>1. written \in {<<>>, <<0>>} /\ MaxUnits \in Nat \ {0} /\ BufferSize \in Nat
    BY DEF Init, BufferAssumption
  <2>2. written \in Seq(Nat) /\ Len(written) <= 1
    <3>1. CASE written = <<>>
      BY <3>1
    <3>2. CASE written = <<0>>
      BY <3>2
    <3> QED
      BY <2>1, <3>1, <3>2
  <2>3. limit \in Nat
    BY DEF Init, BufferAssumption
  <2> QED
    BY <2>1, <2>2, <2>3 DEF Init
<1>2. kind # "container" => written = <<>>
  BY DEF Init
<1>3. b = [where |-> IF kind = "array" THEN "out" ELSE "data", data |-> written,
           cap |-> CASE kind = "array" -> limit [] kind = "container" -> Len(written)
                     [] OTHER -> BufferSize,
           count |-> 0, out |-> <<>>]
  BY DEF Init
<1>4. /\ b \in Buffer /\ b.data = written /\ b.count = 0 /\ b.out = <<>>
      /\ b.where = IF kind = "array" THEN "out" ELSE "data"
      /\ kind = "array" => b.cap = limit
      /\ kind = "container" => b.cap = Len(written)
      /\ kind \notin {"array", "container"} => b.cap = BufferSize
  BY <1>1, <1>3 DEF Buffer
<1>5. <<>> \in Seq(Nat) /\ Len(<<>>) = 0 /\ \A w1, k : Piece(<<>>, w1, k)
  BY DEF Piece
<1>6. RoomOf(b) /\ Tight(b, todo)
  BY <1>1, <1>2, <1>4, <1>5 DEF RoomOf, Tight
<1>7. Handed(b) = 0
  BY <1>4, <1>5 DEF Handed
<1>8. Piece(written, written, 0)
  <2> SUFFICES ASSUME NEW i \in 1 .. Len(written)  PROVE written[i] = written[0 + i]
    BY DEF Piece
  <2>1. 0 + i = i
    OBVIOUS
  <2> QED
    BY <2>1
<1>9. Consecutive(b, todo, written)
  <2>1. Min2(limit, b.count) = 0
    BY <1>1, <1>4 DEF Min2
  <2>2. Len(written) = Handed(b) + Len(b.data) + Len(todo)
    BY <1>1, <1>4, <1>5, <1>7
  <2> QED
    BY <1>1, <1>4, <1>5, <1>7, <1>8, <2>1, <2>2 DEF Consecutive
<1> QED
  <2>1. Holds(b, todo, written)
    BY <1>4, <1>6, <1>9 DEF Holds
  <2> QED
    BY <1>1, <1>5, <2>1 DEF BufferInv

(* What a step of the writing phase has to show.                           *)
LEMMA StillWriting ==
  ASSUME BufferInv, phase = "writing", phase' = "writing",
         kind' = kind, limit' = limit, todo' \in Seq(Nat), written' \in Seq(Nat),
         Len(written') <= MaxUnits, how' \in {"append", "push"},
         Holds(b', todo', written')
  PROVE  BufferInv'
<1>1. Holds(b, todo, written)'
  BY DEF Holds, RoomOf, Consecutive, Tight, Handed, Limited
<1>2. kind' \in Kinds /\ limit' \in Nat
  BY DEF BufferInv
<1> QED
  BY <1>1, <1>2 DEF BufferInv

(* What the end of a call has to show.                                     *)
LEMMA HasEnded ==
  ASSUME BufferAssumption, BufferInv, phase = "writing", todo = <<>>,
         phase' \in {"returned", "thrown"},
         b' = IF kind = "container" THEN Container(b) ELSE Flush(b),
         UNCHANGED <<kind, limit, todo, how, written>>,
         phase' = "returned" /\ kind \in Limited \cup {"counting"} => total' = Counted(b')
  PROVE  BufferInv'
<1>1. /\ kind \in Kinds /\ limit \in Nat /\ written \in Seq(Nat)
      /\ Len(written) <= MaxUnits /\ Holds(b, <<>>, written)
  BY DEF BufferInv
<1>2. /\ kind # "counting" => b'.out = First(Room, written)
      /\ kind \in Limited \cup {"counting"} => Counted(b') = Len(written)
      /\ Len(b'.data) <= b'.cap
      /\ kind = "array" => b'.where = "data"
      /\ kind # "container" => b'.cap <= BufferSize
  BY <1>1, EndIs
<1>3. OutputIsPrefix'
  BY <1>2 DEF OutputIsPrefix, Room
<1>4. SizeIsTotal'
  BY <1>2 DEF SizeIsTotal
<1>5. NothingPastTheEnd'
  BY <1>2 DEF NothingPastTheEnd
<1> QED
  BY <1>1, <1>3, <1>4, <1>5 DEF BufferInv

LEMMA StepHolds ==
  ASSUME BufferAssumption, BufferInv, [Next]_vars  PROVE BufferInv'
<1>1. /\ kind \in Kinds /\ limit \in Nat /\ written \in Seq(Nat) /\ todo \in Seq(Nat)
      /\ Len(written) <= MaxUnits /\ MaxWrite \in Nat /\ MaxUnits \in Nat
      /\ Len(written) \in Nat
  BY DEF BufferInv, BufferAssumption
<1>2. ASSUME phase = "writing", todo = <<>>  PROVE Holds(b, <<>>, written)
  BY <1>2 DEF BufferInv
<1>3. ASSUME NEW n \in Nat, Writing(n)
      PROVE  /\ phase = "writing" /\ todo = <<>> /\ written' = written \o Units(n)
             /\ Units(n) \in Seq(Nat) /\ Len(Units(n)) = n
             /\ written' \in Seq(Nat) /\ Len(written') <= MaxUnits
             /\ Holds(b, Units(n), written')
  BY <1>1, <1>2, <1>3, NewUnits DEF Writing
<1>4. ASSUME NEW n \in Nat, Writing(n), NEW c, NEW q \in Seq(Nat),
             NEW w \in {"append", "push"}, Call(c, q, w), Holds(c, q, written')
      PROVE  BufferInv'
  BY <1>3, <1>4, StillWriting DEF Call
<1>5. CASE Append1
  <2>1. Writing(1) /\ Call(b, Units(1), "push")
    BY <1>5 DEF Append1
  <2> QED
    BY <1>3, <1>4, <2>1
<1>6. CASE AppendMany
  <2>1. PICK n \in 0 .. MaxWrite : Writing(n) /\ Call(b, Units(n), "append")
    BY <1>6 DEF AppendMany
  <2>2. n \in Nat
    BY <1>1
  <2> QED
    BY <1>3, <1>4, <2>1, <2>2
<1>7. CASE ReserveMany
  <2>1. PICK n \in 1 .. MaxWrite :
          Writing(n) /\ Call(TryReserve(b, Len(b.data) + n), Units(n), "push")
    BY <1>7 DEF ReserveMany
  <2>2. n \in Nat /\ n \in 1 .. n
    BY <1>1
  <2>3. Holds(TryReserve(b, Len(b.data) + n), Units(n), written')
    BY <1>1, <1>3, <2>1, <2>2, TryReserveKeeps
  <2> QED
    BY <1>3, <1>4, <2>1, <2>2, <2>3
<1>8. CASE InPlace
  <2>1. PICK n \in 1 .. MaxWrite :
          LET c == TryReserve(b, Len(b.data) + n) IN
          /\ Writing(n)
          /\ \/ c.cap < Len(c.data) + n /\ Call(c, Units(n), "append")
             \/ /\ c.cap >= Len(c.data) + n
                /\ Call([c EXCEPT !.data = @ \o Units(n)], <<>>, "append")
    BY <1>8 DEF InPlace
  <2> DEFINE c == TryReserve(b, Len(b.data) + n)
  <2>2. n \in Nat /\ n \in 1 .. n /\ n \in 0 .. n
    BY <1>1
  <2>3. Writing(n) /\ Units(n) \in Seq(Nat) /\ Len(Units(n)) = n /\ written' \in Seq(Nat)
    BY <1>3, <2>1, <2>2
  <2>4. Holds(c, Units(n), written')
    BY <1>1, <1>3, <2>2, <2>3, TryReserveKeeps
  <2>5. CASE c.cap < Len(c.data) + n /\ Call(c, Units(n), "append")
    BY <1>4, <2>2, <2>3, <2>4, <2>5
  <2>6. CASE c.cap >= Len(c.data) + n /\ Call([c EXCEPT !.data = @ \o Units(n)], <<>>, "append")
    <3> HIDE DEF c
    <3>1. First(n, Units(n)) = Units(n) /\ SubSeq(Units(n), n + 1, Len(Units(n))) = <<>>
      <4>1. Min2(n, Len(Units(n))) = n
        BY <2>2, <2>3 DEF Min2
      <4>2. First(n, Units(n)) \in Seq(Nat) /\ Len(First(n, Units(n))) = n
            /\ \A i \in 1 .. n : First(n, Units(n))[i] = Units(n)[i]
        <5> HIDE DEF c
        <5>1. /\ First(n, Units(n)) \in Seq(Nat)
              /\ Len(First(n, Units(n))) = Min2(n, Len(Units(n)))
              /\ \A i \in 1 .. Min2(n, Len(Units(n))) : First(n, Units(n))[i] = Units(n)[i]
          BY <2>2, <2>3, FirstIs
        <5> QED
          BY <4>1, <5>1
      <4>3. SubSeq(Units(n), n + 1, Len(Units(n))) \in Seq(Nat)
            /\ Len(SubSeq(Units(n), n + 1, Len(Units(n)))) = 0
        BY <2>2, <2>3, RestIs
      <4> QED
        BY <2>3, <4>2, <4>3
    <3>2. c.data \in Seq(Nat) /\ c.cap \in Nat /\ Len(c.data) + n <= c.cap
      BY <2>2, <2>4, <2>6 DEF Holds, Buffer
    <3>3. Holds([c EXCEPT !.data = @ \o First(n, Units(n))],
                SubSeq(Units(n), n + 1, Len(Units(n))), written')
      BY <1>1, <2>2, <2>3, <2>4, <3>2, PutKeeps
    <3>4. Holds([c EXCEPT !.data = @ \o Units(n)], <<>>, written')
      BY <3>1, <3>3, Zenon
    <3>5. <<>> \in Seq(Nat)
      OBVIOUS
    <3> QED
      BY <1>4, <2>2, <2>3, <2>6, <3>4, <3>5
  <2> QED
    BY <2>1, <2>5, <2>6
<1>9. CASE WriteSome
  <2> DEFINE wanted == IF how = "push" THEN 1 ELSE Len(todo)
             c == TryReserve(b, Len(b.data) + wanted)
             free == c.cap - Len(c.data)
             n == IF how = "append" /\ free \in 0 .. wanted THEN free ELSE wanted
  <2>1. /\ todo # <<>> /\ b' = [c EXCEPT !.data = @ \o First(n, todo)]
        /\ todo' = SubSeq(todo, n + 1, Len(todo))
        /\ UNCHANGED <<kind, limit, how, written, phase, total>>
    BY <1>9 DEF WriteSome
  <2>2. phase = "writing" /\ Holds(b, todo, written) /\ Len(todo) \in Nat \ {0}
    <3>1. phase = "writing" /\ Holds(b, todo, written)
      BY <2>1 DEF BufferInv
    <3>2. Len(todo) \in Nat \ {0}
      BY <1>1, <2>1
    <3> QED
      BY <3>1, <3>2
  <2>3. wanted \in 1 .. Len(todo)
    BY <2>2
  <2>4. Holds(c, todo, written) /\ c.cap >= Len(c.data) + 1
    <3> HIDE DEF wanted
    <3> QED
      BY <1>1, <2>2, <2>3, TryReserveKeeps
  <2> HIDE DEF c
  <2>5. c.data \in Seq(Nat) /\ c.cap \in Nat /\ Len(c.data) \in Nat /\ Len(c.data) <= c.cap
    BY <2>4 DEF Holds, Buffer, RoomOf
  <2>6. n \in 0 .. Len(todo) /\ Len(c.data) + n <= c.cap
    <3>1. CASE how = "append" /\ free \in 0 .. wanted
      BY <2>2, <2>3, <2>5, <3>1
    <3>2. CASE ~(how = "append" /\ free \in 0 .. wanted)
      <4>1. n = wanted
        BY <3>2
      <4>2. Len(c.data) + wanted <= c.cap
        <5>1. CASE how = "push"
          BY <2>4, <5>1
        <5>2. CASE how = "append"
          BY <2>3, <2>5, <3>2, <5>2
        <5> QED
          BY <5>1, <5>2 DEF BufferInv
      <4> HIDE DEF n, wanted
      <4> QED
        BY <2>2, <2>3, <4>1, <4>2
    <3> QED
      BY <3>1, <3>2
  <2> HIDE DEF n
  <2>7. Holds(b', todo', written)
    BY <1>1, <2>1, <2>4, <2>6, PutKeeps
  <2>8. todo' \in Seq(Nat)
    BY <1>1, <2>1, <2>6, RestIs
  <2> QED
    <3>1. how' \in {"append", "push"}
      BY <2>1 DEF BufferInv
    <3> HIDE DEF wanted
    <3> QED
      BY <1>1, <2>1, <2>2, <2>7, <2>8, <3>1, StillWriting
<1>10. CASE VformatTo
  <2>1. b' = IF kind = "container" THEN Container(b) ELSE Flush(b)
    BY <1>10 DEF VformatTo, Leave
  <2> QED
    BY <1>10, <2>1, HasEnded DEF VformatTo, Leave
<1>11. CASE VformatToN
  <2>1. b' = IF kind = "container" THEN Container(b) ELSE Flush(b)
    BY <1>11 DEF VformatToN, Leave
  <2> QED
    BY <1>11, <2>1, HasEnded DEF VformatToN, Leave
<1>12. CASE FormattedSize
  <2>1. b' = IF kind = "container" THEN Container(b) ELSE Flush(b)
    BY <1>12 DEF FormattedSize, Leave, Flush
  <2> QED
    BY <1>12, <2>1, HasEnded DEF FormattedSize, Leave, Flush
<1>13. CASE Throw
  BY <1>13, HasEnded DEF Throw, Leave
<1>14. CASE Done \/ UNCHANGED vars
  <2>1. UNCHANGED vars
    BY <1>14 DEF Done
  <2>2. Holds(b, todo, written)' = Holds(b, todo, written)
    BY <2>1 DEF vars, Holds, RoomOf, Consecutive, Tight, Handed
  <2>3. OutputIsPrefix' = OutputIsPrefix /\ SizeIsTotal' = SizeIsTotal
        /\ NothingPastTheEnd' = NothingPastTheEnd
    BY <2>1 DEF vars, OutputIsPrefix, SizeIsTotal, NothingPastTheEnd, Room
  <2> QED
    BY <2>1, <2>2, <2>3 DEF vars, BufferInv
<1> QED
  BY <1>5, <1>6, <1>7, <1>8, <1>9, <1>10, <1>11, <1>12, <1>13, <1>14 DEF Next
------------------------------------------------------------------------------
(* The invariant is inductive.                                             *)
LEMMA Invariant == Spec => []BufferInv
<1>1. Init => BufferInv
  BY BufferConstants, InitHolds
<1>2. BufferInv /\ [Next]_vars => BufferInv'
  BY BufferConstants, StepHolds
<1> QED
  BY <1>1, <1>2, PTL DEF Spec

(* After format_to_n, format_to or an exception the caller has exactly the *)
(* first units of the output, as far as its room goes, in order (base.h).  *)
THEOREM CallerGetsThePrefix == Spec => []OutputIsPrefix
<1>1. BufferInv => OutputIsPrefix
  BY DEF BufferInv, OutputIsPrefix
<1> QED
  BY <1>1, Invariant, PTL

(* The size that format_to_n and formatted_size return is that of the whole*)
(* output, cut or not (base.h).                                            *)
THEOREM SizeIsOfAll == Spec => []SizeIsTotal
<1>1. BufferInv => SizeIsTotal
  BY DEF BufferInv, SizeIsTotal
<1> QED
  BY <1>1, Invariant, PTL

(* No write goes past the end of the caller's array or of the scratch      *)
(* array, at any moment (iterator_buffer, buffer::append).                 *)
THEOREM NoOverrun == Spec => []NothingPastTheEnd
<1>1. BufferInv => NothingPastTheEnd
  <2> SUFFICES ASSUME BufferInv  PROVE NothingPastTheEnd
    OBVIOUS
  <2>1. CASE phase = "writing"
    <3>1. Holds(b, todo, written) /\ limit \in Nat
      BY <2>1 DEF BufferInv
    <3>2. RoomOf(b) /\ b \in Buffer /\ BufferSize \in Nat
      BY <3>1, BufferConstants DEF Holds, BufferAssumption
    <3>3. b.cap \in Nat /\ Len(<<>>) = 0
      BY <3>2 DEF Buffer
    <3> QED
      BY <3>1, <3>2, <3>3 DEF RoomOf, NothingPastTheEnd
  <2> QED
    BY <2>1 DEF BufferInv
<1> QED
  BY <1>1, Invariant, PTL

-----------------------------------------------------------------------------
(* FmtMemoryBuffer: who owns the blocks of the heap, and that a buffer has *)
(* the room it claims, for any number of buffers and blocks and any inline *)
(* size.                                                                   *)

(* The three properties together are inductive.                            *)
MemoryInv == MemoryTypeOK /\ BlocksHaveOneOwner /\ CapacityIsReal

USE DEF Alive, live

LEMMA PutIs ==
  ASSUME NEW f, NEW x, NEW v
  PROVE  /\ DOMAIN Put(f, x, v) = DOMAIN f \cup {x}
         /\ Put(f, x, v)[x] = v
         /\ \A y \in DOMAIN f : y # x => Put(f, x, v)[y] = f[y]
BY DEF Put

LEMMA DropIs ==
  ASSUME NEW f, NEW x
  PROVE  /\ DOMAIN Drop(f, x) = DOMAIN f \ {x}
         /\ \A y \in DOMAIN f : y # x => Drop(f, x)[y] = f[y]
BY DEF Drop

(* A new capacity is one, and never less than asked for.                   *)
LEMMA NewCapacityIs ==
  ASSUME MemoryAssumption, NEW x, NEW wanted \in Nat, capacity[x] \in Nat
  PROVE  NewCapacity(x, wanted) \in Nat /\ NewCapacity(x, wanted) >= wanted
<1>1. capacity[x] \div 2 \in Nat
  OBVIOUS
<1> QED
  BY <1>1 DEF NewCapacity, MaxOf, MemoryAssumption

(* A grown buffer owns its new block alone and has the room asked for; the *)
(* other buffers and their blocks are untouched.                           *)
LEMMA GrowKeeps ==
  ASSUME MemoryAssumption, MemoryInv, NEW x \in Alive, NEW wanted \in Nat,
         NEW p \in Blocks, GrowMemory(x, wanted, p), size' \in [Alive -> Nat],
         \A y \in Alive : y # x => size'[y] = size[y],
         size'[x] <= NewCapacity(x, wanted)
  PROVE  MemoryInv'
<1> DEFINE c == NewCapacity(x, wanted)
           h == Freed(ptr[x])
<1>1. c \in Nat
  BY NewCapacityIs DEF MemoryInv, MemoryTypeOK
<1>2. /\ p \notin live /\ ptr' = [ptr EXCEPT ![x] = p]
      /\ capacity' = [capacity EXCEPT ![x] = c] /\ heap' = Put(h, p, c)
  BY DEF GrowMemory
<1>3. /\ DOMAIN h = live \ {ptr[x]} /\ \A q \in live : q # ptr[x] => h[q] = heap[q]
  BY DropIs DEF Freed
<1>4. /\ live' = (live \ {ptr[x]}) \cup {p} /\ heap'[p] = c
      /\ \A q \in live : q # ptr[x] => heap'[q] = heap[q]
  <2> HIDE DEF c, h
  <2>1. /\ DOMAIN Put(h, p, c) = DOMAIN h \cup {p} /\ Put(h, p, c)[p] = c
        /\ \A q \in DOMAIN h : q # p => Put(h, p, c)[q] = h[q]
    BY DEF Put
  <2>2. \A q \in live : q # p
    BY <1>2
  <2> QED
    BY <1>2, <1>3, <2>1, <2>2
<1>5. p # Store
  BY DEF MemoryAssumption
<1>6. /\ Alive' = Alive /\ ptr'[x] = p /\ capacity'[x] = c
      /\ \A y \in Alive : y # x => ptr'[y] = ptr[y] /\ capacity'[y] = capacity[y]
  BY <1>2 DEF MemoryInv, MemoryTypeOK
<1> HIDE DEF c, h
<1>7. MemoryTypeOK'
  <2>1. heap' = [q \in live' |-> heap'[q]]
    BY <1>2 DEF Put
  <2>2. \A q \in live' : heap'[q] \in Nat
    BY <1>1, <1>4 DEF MemoryInv, MemoryTypeOK
  <2>3. heap' \in [live' -> Nat]
    BY <2>1, <2>2
  <2>4. ptr' \in [Alive' -> Blocks \cup {Store}] /\ capacity' \in [Alive' -> Nat]
    BY <1>1, <1>2, <1>6 DEF MemoryInv, MemoryTypeOK
  <2> QED
    BY <1>4, <1>6, <2>3, <2>4 DEF MemoryInv, MemoryTypeOK
<1>8. BlocksHaveOneOwner'
  BY <1>2, <1>4, <1>5, <1>6 DEF MemoryInv, BlocksHaveOneOwner
<1>9. CapacityIsReal'
  <2>1. size'[x] <= capacity'[x] /\ capacity'[x] <= heap'[ptr'[x]] /\ ptr'[x] # Store
    BY <1>1, <1>4, <1>5, <1>6 DEF c
  <2>2. ASSUME NEW y \in Alive, y # x
        PROVE  /\ size'[y] <= capacity'[y]
               /\ capacity'[y] <= IF ptr'[y] = Store THEN SIZE ELSE heap'[ptr'[y]]
    <3>1. ptr[y] # Store => ptr[y] \in live /\ ptr[y] # ptr[x]
      BY <2>2 DEF MemoryInv, BlocksHaveOneOwner
    <3> QED
      BY <1>4, <1>6, <2>2, <3>1 DEF MemoryInv, CapacityIsReal
  <2> QED
    BY <1>6, <2>1, <2>2 DEF CapacityIsReal, MemoryInv, MemoryTypeOK
<1> QED
  BY <1>7, <1>8, <1>9 DEF MemoryInv

(* try_reserve, followed by a size that fits.                              *)
LEMMA ReserveKeeps ==
  ASSUME MemoryAssumption, MemoryInv, NEW x \in Alive, NEW n \in Nat, TryReserveMemory(x, n),
         size' \in [Alive -> Nat], \A y \in Alive : y # x => size'[y] = size[y],
         size'[x] <= MaxOf(n, size[x]), size'[x] <= n \/ size'[x] <= size[x]
  PROVE  MemoryInv'
<1>1. CASE n <= capacity[x] /\ UNCHANGED <<ptr, capacity, heap>>
  <2>1. size'[x] <= capacity[x] /\ \A y \in Alive : size'[y] <= capacity[y]
    BY <1>1 DEF MemoryInv, MemoryTypeOK, CapacityIsReal
  <2> QED
    BY <1>1, <2>1 DEF MemoryInv, MemoryTypeOK, CapacityIsReal, BlocksHaveOneOwner
<1>2. CASE n > capacity[x] /\ \E p \in Blocks : GrowMemory(x, n, p)
  <2>1. PICK p \in Blocks : GrowMemory(x, n, p)
    BY <1>2
  <2>2. size'[x] <= NewCapacity(x, n)
    BY <1>2, NewCapacityIs DEF MemoryInv, MemoryTypeOK, CapacityIsReal
  <2> QED
    BY <2>1, <2>2, GrowKeeps
<1> QED
  BY <1>1, <1>2 DEF TryReserveMemory

(* A move from y to an x that owns nothing any more, with the heap that is *)
(* left: every block in it but those of others is y's, and then x's.       *)
LEMMA MoveKeeps ==
  ASSUME MemoryAssumption, MemoryInv, NEW x \in Buffers, NEW y \in Alive, x # y, Move(x, y),
         live' \subseteq live, heap' \in [live' -> Nat],
         \A q \in live' : heap'[q] = heap[q],
         live' = IF x \in Alive THEN live \ {ptr[x]} ELSE live
  PROVE  MemoryInv'
<1> DEFINE inline == ptr[y] = Store
<1>1. /\ Alive' = Alive \cup {x} /\ DOMAIN size' = Alive' /\ DOMAIN capacity' = Alive'
      /\ ptr'[x] = ptr[y] /\ size'[x] = size[y] /\ capacity'[x] = capacity[y]
      /\ ptr'[y] = Store /\ size'[y] = (IF inline THEN size[y] ELSE 0)
      /\ capacity'[y] = (IF inline THEN capacity[y] ELSE 0)
      /\ \A z \in Alive \ {x, y} :
           ptr'[z] = ptr[z] /\ size'[z] = size[z] /\ capacity'[z] = capacity[z]
  BY DEF Move, Put, MemoryInv, MemoryTypeOK
<1>2. MemoryTypeOK'
  <2>1. /\ ptr' = [z \in Alive' |-> ptr'[z]] /\ size' = [z \in Alive' |-> size'[z]]
        /\ capacity' = [z \in Alive' |-> capacity'[z]]
    BY <1>1 DEF Move, Put
  <2>2. \A z \in Alive' : /\ ptr'[z] \in Blocks \cup {Store}
                          /\ size'[z] \in Nat /\ capacity'[z] \in Nat
    BY <1>1 DEF MemoryInv, MemoryTypeOK
  <2>3. /\ ptr' \in [Alive' -> Blocks \cup {Store}]
        /\ size' \in [Alive' -> Nat] /\ capacity' \in [Alive' -> Nat]
    BY <2>1, <2>2
  <2> QED
    BY <1>1, <2>3 DEF MemoryInv, MemoryTypeOK
<1>3. BlocksHaveOneOwner'
  <2>1. ASSUME NEW p \in live'  PROVE \E z \in Alive' : ptr'[z] = p
    <3>1. PICK z \in Alive : ptr[z] = p
      BY <2>1 DEF MemoryInv, BlocksHaveOneOwner
    <3>2. z # x /\ p # Store
      BY <2>1, <3>1 DEF MemoryInv, MemoryTypeOK, MemoryAssumption
    <3>3. CASE z = y
      BY <1>1, <3>1, <3>3
    <3>4. CASE z # y
      BY <1>1, <3>1, <3>2, <3>4
    <3> QED
      BY <3>3, <3>4
  <2>2. \A z \in Alive' : ptr'[z] # Store => ptr'[z] \in live'
    BY <1>1 DEF MemoryInv, BlocksHaveOneOwner
  <2>3. \A z, w \in Alive' : ptr'[z] = ptr'[w] /\ ptr'[z] # Store => z = w
    BY <1>1 DEF MemoryInv, BlocksHaveOneOwner
  <2> QED
    BY <2>1, <2>2, <2>3 DEF BlocksHaveOneOwner
<1>4. CapacityIsReal'
  <2>1. ASSUME NEW z \in Alive, ptr[z] # Store, z # x  PROVE heap'[ptr[z]] = heap[ptr[z]]
    BY <2>1 DEF MemoryInv, BlocksHaveOneOwner
  <2>2. \A z \in Alive : size[z] \in Nat /\ capacity[z] \in Nat
    BY DEF MemoryInv, MemoryTypeOK
  <2>3. SIZE \in Nat
    BY DEF MemoryAssumption
  <2>4. ASSUME NEW z \in Alive'
        PROVE  /\ size'[z] <= capacity'[z]
               /\ capacity'[z] <= IF ptr'[z] = Store THEN SIZE ELSE heap'[ptr'[z]]
    <3>1. CASE z = x
      BY <1>1, <2>1, <3>1 DEF MemoryInv, CapacityIsReal
    <3>2. CASE z = y
      BY <1>1, <2>2, <2>3, <3>2 DEF MemoryInv, CapacityIsReal
    <3>3. CASE z \notin {x, y}
      BY <1>1, <2>1, <3>3 DEF MemoryInv, CapacityIsReal
    <3> QED
      BY <3>1, <3>2, <3>3
  <2> QED
    BY <2>4 DEF CapacityIsReal
<1> QED
  BY <1>2, <1>3, <1>4 DEF MemoryInv
------------------------------------------------------------------------------
LEMMA InitInv == ASSUME MemoryAssumption, MemoryInit PROVE MemoryInv
BY DEF MemoryInit, Empty, MemoryInv, MemoryTypeOK, BlocksHaveOneOwner, CapacityIsReal

LEMMA FreedIs ==
  ASSUME NEW p
  PROVE  /\ DOMAIN Freed(p) = live \ {p}
         /\ \A q \in live \ {p} : Freed(p)[q] = heap[q]
         /\ heap \in [live -> Nat] => Freed(p) \in [live \ {p} -> Nat]
BY DEF Freed, Drop

(* A new buffer points at its inline store.                                *)
LEMMA ConstructInv ==
  ASSUME MemoryAssumption, MemoryInv, NEW x \in Buffers, Construct(x)
  PROVE  MemoryInv'
<1>1. /\ Alive' = Alive \cup {x} /\ x \notin Alive
      /\ ptr'[x] = Store /\ size'[x] = 0 /\ capacity'[x] = SIZE
      /\ \A y \in Alive : ptr'[y] = ptr[y] /\ size'[y] = size[y] /\ capacity'[y] = capacity[y]
  BY DEF Construct, Put, MemoryInv, MemoryTypeOK
<1>2. /\ ptr' = [y \in Alive' |-> ptr'[y]] /\ size' = [y \in Alive' |-> size'[y]]
      /\ capacity' = [y \in Alive' |-> capacity'[y]]
  BY DEF Construct, Put, MemoryInv, MemoryTypeOK
<1>3. MemoryTypeOK'
  <2>1. \A y \in Alive' : /\ ptr'[y] \in Blocks \cup {Store}
                          /\ size'[y] \in Nat /\ capacity'[y] \in Nat
    BY <1>1 DEF MemoryInv, MemoryTypeOK, MemoryAssumption
  <2> QED
    BY <1>1, <1>2, <2>1 DEF Construct, MemoryInv, MemoryTypeOK
<1>4. BlocksHaveOneOwner'
  BY <1>1 DEF Construct, MemoryInv, BlocksHaveOneOwner
<1>5. CapacityIsReal'
  BY <1>1 DEF Construct, MemoryInv, CapacityIsReal, MemoryAssumption
<1> QED
  BY <1>3, <1>4, <1>5 DEF MemoryInv

(* What a destroyed buffer owned goes with it.                             *)
LEMMA DestroyInv ==
  ASSUME MemoryAssumption, MemoryInv, NEW x \in Buffers, Destroy(x)
  PROVE  MemoryInv'
<1>1. /\ x \in Alive /\ Alive' = Alive \ {x} /\ live' = live \ {ptr[x]}
      /\ heap' \in [live' -> Nat] /\ \A q \in live' : heap'[q] = heap[q]
      /\ \A y \in Alive' : ptr'[y] = ptr[y] /\ size'[y] = size[y] /\ capacity'[y] = capacity[y]
  BY FreedIs DEF Destroy, Drop, MemoryInv, MemoryTypeOK
<1>2. MemoryTypeOK'
  <2>1. /\ ptr' = [y \in Alive' |-> ptr'[y]] /\ size' = [y \in Alive' |-> size'[y]]
        /\ capacity' = [y \in Alive' |-> capacity'[y]]
    BY DEF Destroy, Drop, MemoryInv, MemoryTypeOK
  <2> QED
    BY <1>1, <2>1 DEF MemoryInv, MemoryTypeOK
<1>3. BlocksHaveOneOwner'
  BY <1>1 DEF MemoryInv, BlocksHaveOneOwner
<1>4. CapacityIsReal'
  <2>1. \A y \in Alive' : ptr[y] # Store => ptr[y] \in live'
    BY <1>1 DEF MemoryInv, BlocksHaveOneOwner
  <2> QED
    BY <1>1, <2>1 DEF MemoryInv, CapacityIsReal
<1> QED
  BY <1>2, <1>3, <1>4 DEF MemoryInv

LEMMA NextInv ==
  ASSUME MemoryAssumption, MemoryInv, [MemoryNext]_memoryVars PROVE MemoryInv'
<1>1. CASE UNCHANGED memoryVars
  BY <1>1 DEF memoryVars, MemoryInv, MemoryTypeOK, BlocksHaveOneOwner, CapacityIsReal
<1>2. CASE MemoryNext
  <2>1. PICK x \in Buffers :
          \/ Construct(x) \/ Clear(x) \/ Destroy(x)
          \/ \E n \in 0 .. MaxAsked :
               AppendMemory(x, n) \/ Resize(x, n) \/ Reserve(x, n) \/ AllocationFails(x, n)
          \/ \E y \in Buffers : MoveConstruct(x, y) \/ MoveAssign(x, y)
    BY <1>2 DEF MemoryNext
  <2>2. CASE Construct(x)
    BY <2>2, ConstructInv
  <2>3. CASE Destroy(x)
    BY <2>3, DestroyInv
  <2>4. CASE Clear(x)
    BY <2>4 DEF Clear, MemoryInv, MemoryTypeOK, BlocksHaveOneOwner, CapacityIsReal
  <2>5. ASSUME NEW n \in 0 .. MaxAsked, AppendMemory(x, n)  PROVE MemoryInv'
    <3>1. /\ x \in Alive /\ size[x] \in Nat /\ n \in Nat /\ TryReserveMemory(x, size[x] + n)
          /\ size' = [size EXCEPT ![x] = size[x] + n] /\ size \in [Alive -> Nat]
      BY <2>5 DEF AppendMemory, MemoryInv, MemoryTypeOK, MemoryAssumption
    <3> QED
      BY <3>1, ReserveKeeps DEF MaxOf
  <2>6. ASSUME NEW n \in 0 .. MaxAsked, Resize(x, n)  PROVE MemoryInv'
    <3>1. /\ x \in Alive /\ size[x] \in Nat /\ n \in Nat /\ TryReserveMemory(x, n)
          /\ size' = [size EXCEPT ![x] = n] /\ size \in [Alive -> Nat]
      BY <2>6 DEF Resize, MemoryInv, MemoryTypeOK, MemoryAssumption
    <3> QED
      BY <3>1, ReserveKeeps DEF MaxOf
  <2>7. ASSUME NEW n \in 0 .. MaxAsked, Reserve(x, n)  PROVE MemoryInv'
    <3>1. /\ x \in Alive /\ size[x] \in Nat /\ n \in Nat /\ TryReserveMemory(x, n)
          /\ size' = size /\ size \in [Alive -> Nat]
      BY <2>7 DEF Reserve, MemoryInv, MemoryTypeOK, MemoryAssumption
    <3> QED
      BY <3>1, ReserveKeeps DEF MaxOf
  <2>8. ASSUME NEW n \in 0 .. MaxAsked, AllocationFails(x, n)  PROVE MemoryInv'
    BY <1>1, <2>8 DEF AllocationFails
  <2>9. ASSUME NEW y \in Buffers, MoveConstruct(x, y)  PROVE MemoryInv'
    <3>1. /\ x \notin Alive /\ y \in Alive /\ x # y /\ Move(x, y) /\ heap' = heap
          /\ heap \in [live -> Nat]
      BY <2>9 DEF MoveConstruct, MemoryInv, MemoryTypeOK
    <3> QED
      BY <3>1, MoveKeeps
  <2>10. ASSUME NEW y \in Buffers, MoveAssign(x, y)  PROVE MemoryInv'
    <3>1. /\ x \in Alive /\ y \in Alive /\ x # y /\ Move(x, y)
          /\ live' = live \ {ptr[x]} /\ heap' \in [live' -> Nat]
          /\ \A q \in live' : heap'[q] = heap[q]
      BY <2>10, FreedIs DEF MoveAssign, MemoryInv, MemoryTypeOK
    <3> QED
      BY <3>1, MoveKeeps
  <2> QED
    BY <2>1, <2>2, <2>3, <2>4, <2>5, <2>6, <2>7, <2>8, <2>9, <2>10
<1> QED
  BY <1>1, <1>2

(* For any buffers, blocks and inline size: every block of the heap belongs*)
(* to exactly one live buffer.                                             *)
THEOREM OneOwner == MemorySpec => []BlocksHaveOneOwner
<1>1. MemoryInit => MemoryInv
  BY MemoryConstants, InitInv
<1>2. MemoryInv /\ [MemoryNext]_memoryVars => MemoryInv'
  BY MemoryConstants, NextInv
<1>3. MemoryInv => BlocksHaveOneOwner
  BY DEF MemoryInv
<1> QED
  BY <1>1, <1>2, <1>3, PTL DEF MemorySpec

(* And no buffer claims more room than it points at, or holds more than it *)
(* claims.                                                                 *)
THEOREM RealCapacity == MemorySpec => []CapacityIsReal
<1>1. MemoryInit => MemoryInv
  BY MemoryConstants, InitInv
<1>2. MemoryInv /\ [MemoryNext]_memoryVars => MemoryInv'
  BY MemoryConstants, NextInv
<1>3. MemoryInv => CapacityIsReal
  BY DEF MemoryInv
<1> QED
  BY <1>1, <1>2, <1>3, PTL DEF MemorySpec

-----------------------------------------------------------------------------
(* FmtArgs: a formatting call finds each of its arguments again.           *)

(* The flag and the number that desc is made of so far.                    *)
TypeNumberOf(i) == TypeNumber[Mapped[args[i].cpp]]
SomeNamed == \E i \in 1 .. next - 1 : args[i].name # ""
NamedBit  == IF SomeNamed THEN HasNamedBit ELSE 0
Types     == desc - NamedBit

ArgsTypes ==
  /\ args \in Seq(Arg) /\ Len(args) < 2 ^ (WordBits \div 2)
  /\ next \in 1 .. Len(args) + 1 /\ desc \in Int
PackedTypes ==
  Len(args) <= MaxPacked =>
    /\ Types \in Nat /\ Types < 2 ^ ((next - 1) * PackedArgBits)
    /\ \A i \in 1 .. next - 1 :
         Bits(Types, (i - 1) * PackedArgBits, PackedArgBits) = TypeNumberOf(i)
UnpackedCount == Len(args) > MaxPacked => Types = IsUnpackedBit + Len(args)
NamedInOrder ==
  /\ named \in Seq([name: STRING, id: Nat])
  /\ \A j \in 1 .. Len(named) :
       /\ named[j].id + 1 \in 1 .. next - 1 /\ named[j].name # ""
       /\ args[named[j].id + 1].name = named[j].name
  /\ \A i \in 1 .. next - 1 :
       args[i].name # "" => \E j \in 1 .. Len(named) : named[j].id + 1 = i
  /\ \A j, k \in 1 .. Len(named) : j < k => named[j].id < named[k].id
ValuesStored ==
  /\ values \in Seq([members: {Stored[t] : t \in DOMAIN Mapped}, is: Nat]) /\ Len(values) = next - 1
  /\ \A i \in 1 .. next - 1 :
       values[i] = [members |-> Stored[args[i].cpp], is |-> args[i].value]
ArgsInv ==
  /\ ArgsTypes /\ PackedTypes /\ UnpackedCount /\ NamedInOrder /\ ValuesStored
  /\ LookUpFindsTheArgument

(* A field below the bit hi does not see what is added at hi or above.     *)
LEMMA BitsOfSum ==
  ASSUME NEW d \in Nat, NEW c \in Nat, NEW lo \in Nat, NEW n \in Nat,
         NEW hi \in Nat, lo + n <= hi
  PROVE  Bits(d + c * 2 ^ hi, lo, n) = Bits(d, lo, n)
<1>1. PICK x \in Nat \ {0}, y \in Nat \ {0}, z \in Nat \ {0} :
        x = 2 ^ lo /\ y = 2 ^ n /\ z = 2 ^ (hi - (lo + n))
  <2>1. hi - (lo + n) \in Nat
    OBVIOUS
  <2>2. QED
    BY <2>1, PowerOfTwo
<1>2. 2 ^ hi = (x * y) * z
  <2>1. lo + n \in Nat /\ hi - (lo + n) \in Nat /\ (lo + n) + (hi - (lo + n)) = hi
    OBVIOUS
  <2>2. 2 ^ hi = 2 ^ (lo + n) * z
    BY <1>1, <2>1, PowerSum
  <2>3. 2 ^ (lo + n) = x * y
    BY <1>1, PowerSum
  <2>4. QED
    BY <2>2, <2>3
<1>3. PICK q \in Nat, r \in Nat : d = r + q * x /\ r < x /\ d \div x = q
  <2>1. d \div x \in Nat /\ d % x \in 0 .. x - 1 /\ d = (d % x) + (d \div x) * x
    BY Divided
  <2>2. d % x \in Nat /\ d % x < x
    BY <2>1
  <2>3. QED
    BY <2>1, <2>2
<1>4. PICK k \in Nat : k = c * z
  OBVIOUS
<1>5. c * 2 ^ hi = (k * y) * x
  <2>1. c * ((x * y) * z) = c * (z * (x * y))
    BY ProductIs
  <2>2. c * (z * (x * y)) = k * (x * y)
    BY <1>4, ProductIs
  <2>3. k * (x * y) = k * (y * x)
    BY ProductIs
  <2>4. k * (y * x) = (k * y) * x
    BY ProductIs
  <2>5. QED
    BY <1>2, <2>1, <2>2, <2>3, <2>4
<1>6. (d + c * 2 ^ hi) \div x = q + k * y
  <2>1. PICK m \in Nat : m = k * y
    OBVIOUS
  <2>2. d + c * 2 ^ hi = r + (q + m) * x
    <3>1. (q + m) * x = q * x + m * x
      BY ProductIs
    <3>2. q * x \in Nat /\ m * x \in Nat
      OBVIOUS
    <3>3. QED
      BY <1>3, <1>5, <2>1, <3>1, <3>2
  <2>3. q + m \in Nat
    OBVIOUS
  <2>4. (r + (q + m) * x) \div x = q + m
    BY <1>3, <2>3, DivisionIs
  <2>5. QED
    BY <2>1, <2>2, <2>4
<1>7. (q + k * y) % y = q % y
  <2>1. PICK e \in Nat, f \in Nat : q = e + f * y /\ e < y /\ q % y = e
    <3>1. /\ q \div y \in Nat /\ q % y \in 0 .. y - 1
          /\ q = (q % y) + (q \div y) * y
      BY Divided
    <3>2. q % y \in Nat /\ q % y < y
      BY <3>1
    <3>3. QED
      BY <3>1, <3>2
  <2>2. q + k * y = e + (f + k) * y
    <3>1. (f + k) * y = f * y + k * y /\ f * y \in Nat /\ k * y \in Nat
      BY ProductIs
    <3>2. QED
      BY <2>1, <3>1
  <2>3. f + k \in Nat
    OBVIOUS
  <2>4. (e + (f + k) * y) % y = e
    BY <2>1, <2>3, DivisionIs
  <2>5. QED
    BY <2>1, <2>2, <2>4
<1>8. QED
  BY <1>1, <1>3, <1>6, <1>7 DEF Bits

(* What is added at the bit lo is read at lo.                              *)
LEMMA BitsAt ==
  ASSUME NEW d \in Nat, NEW lo \in Nat, NEW n \in Nat, NEW t \in Nat,
         d < 2 ^ lo, t < 2 ^ n
  PROVE  Bits(d + t * 2 ^ lo, lo, n) = t
<1>1. PICK x \in Nat \ {0}, y \in Nat \ {0} : x = 2 ^ lo /\ y = 2 ^ n
  BY PowerOfTwo
<1>2. (d + t * x) \div x = t
  BY <1>1, DivisionIs
<1>3. t % y = t
  BY <1>1
<1>4. QED
  BY <1>1, <1>2, <1>3 DEF Bits

(* A field above a number is empty.                                        *)
LEMMA BitsAbove ==
  ASSUME NEW d \in Nat, NEW lo \in Nat, NEW n \in Nat, d < 2 ^ lo
  PROVE  Bits(d, lo, n) = 0
<1>1. PICK x \in Nat \ {0}, y \in Nat \ {0} : x = 2 ^ lo /\ y = 2 ^ n
  BY PowerOfTwo
<1>2. d + 0 * x = d
  OBVIOUS
<1>3. QED
  <2>1. Bits(d + 0 * 2 ^ lo, lo, n) = 0
    <3>1. 0 < 2 ^ n
      BY <1>1
    <3>2. QED
      BY <3>1, BitsAt
  <2>2. QED
    BY <1>1, <1>2, <2>1

LEMMA WordIs ==
  /\ WordBits - 1 \in Nat /\ WordBits - 2 \in Nat /\ MaxPacked \in Nat
  /\ HasNamedBit \in Nat \ {0} /\ IsUnpackedBit = 2 * HasNamedBit
  /\ MaxPacked * 4 <= WordBits - 2 /\ WordBits \div 2 <= WordBits - 2
  /\ WordBits \div 2 \in Nat
<1>1. WordBits \in Nat /\ WordBits >= 4
  BY ArgsAssumption
<1>2. /\ WordBits - 1 \in Nat /\ WordBits - 2 \in Nat /\ WordBits \div 2 \in Nat
      /\ WordBits \div 2 <= WordBits - 2
  BY <1>1
<1>3. PICK w \in Nat : w = WordBits - 2
  BY <1>2
<1>4. MaxPacked \in Nat /\ MaxPacked * 4 <= WordBits - 2
  BY <1>3 DEF MaxPacked, PackedArgBits
<1>5. HasNamedBit \in Nat \ {0} /\ IsUnpackedBit = 2 * HasNamedBit
  <2>1. 2 ^ w \in Nat \ {0} /\ 2 ^ (w + 1) = 2 * 2 ^ w
    BY PowerOfTwo
  <2>2. WordBits - 1 = w + 1
    BY <1>1, <1>3
  <2>3. QED
    BY <1>3, <2>1, <2>2 DEF HasNamedBit, IsUnpackedBit
<1>6. QED
  BY <1>2, <1>4, <1>5

(* The two flags are read apart from what is below them.                   *)
LEMMA FlagsApart ==
  ASSUME NEW low \in Nat, low < HasNamedBit, NEW h \in {0, 1}, NEW u \in {0, 1},
         NEW d, d = low + h * HasNamedBit + u * IsUnpackedBit
  PROVE  /\ d \in Nat
         /\ Bits(d, WordBits - 1, 1) = u /\ Bits(d, WordBits - 2, 1) = h
         /\ \A lo, n \in Nat : lo + n <= WordBits - 2 => Bits(d, lo, n) = Bits(low, lo, n)
<1>1. PICK q \in Nat \ {0} : q = HasNamedBit /\ q = 2 ^ (WordBits - 2)
                             /\ 2 * q = 2 ^ (WordBits - 1)
  BY WordIs DEF HasNamedBit, IsUnpackedBit
<1>2. PICK e \in Nat, v \in Nat, hq \in Nat :
        e = h + 2 * u /\ v = u /\ hq = h * q /\ hq <= q
  <2>1. h * q \in Nat /\ h * q <= q
    BY <1>1
  <2>2. h + 2 * u \in Nat /\ u \in Nat
    OBVIOUS
  <2>3. QED
    BY <2>1, <2>2
<1>3. d = low + e * q /\ d = (low + hq) + v * (2 * q)
  <2>1. d = low + hq + u * (2 * q)
    BY <1>1, <1>2 DEF IsUnpackedBit
  <2>2. CASE h = 0 /\ u = 0
    BY <1>2, <2>1, <2>2
  <2>3. CASE h = 1 /\ u = 0
    BY <1>2, <2>1, <2>3
  <2>4. CASE h = 0 /\ u = 1
    BY <1>2, <2>1, <2>4
  <2>5. CASE h = 1 /\ u = 1
    BY <1>2, <2>1, <2>5
  <2>6. QED
    BY <2>2, <2>3, <2>4, <2>5
<1>4. d \div q = e /\ d \div (2 * q) = v
  <2>1. d \div q = e
    BY <1>1, <1>3, DivisionIs
  <2>2. PICK r \in Nat, qq \in Nat \ {0} : r = low + hq /\ qq = 2 * q /\ r < qq
    BY <1>1, <1>2
  <2>3. (r + v * qq) \div qq = v
    BY <2>2, DivisionIs
  <2>4. QED
    BY <1>3, <2>1, <2>2, <2>3
<1>5. Bits(d, WordBits - 1, 1) = u /\ Bits(d, WordBits - 2, 1) = h
  <2>1. 2 ^ 1 = 2
    BY PowerOfTwo
  <2>2. v % 2 = u /\ e % 2 = h
    BY <1>2
  <2>3. QED
    BY <1>1, <1>4, <2>1, <2>2 DEF Bits
<1>6. ASSUME NEW lo \in Nat, NEW n \in Nat, lo + n <= WordBits - 2
      PROVE  Bits(d, lo, n) = Bits(low, lo, n)
  <2>1. PICK w \in Nat : w = WordBits - 2
    BY WordIs
  <2>2. Bits(low + e * 2 ^ w, lo, n) = Bits(low, lo, n)
    BY <1>6, <2>1, BitsOfSum
  <2>3. QED
    BY <1>1, <1>3, <2>1, <2>2
<1>7. d \in Nat
  <2>1. e * q \in Nat
    OBVIOUS
  <2>2. QED
    BY <1>3, <2>1
<1>8. QED
  BY <1>5, <1>6, <1>7

(* So while the arguments are stored the flags say what they should.       *)
LEMMA DescSays ==
  ASSUME ArgsTypes, PackedTypes, UnpackedCount
  PROVE  /\ IsPacked <=> Len(args) <= MaxPacked
         /\ HasNamed <=> SomeNamed
         /\ \A lo, n \in Nat : lo + n <= WordBits - 2 =>
              /\ Len(args) <= MaxPacked => Bits(desc, lo, n) = Bits(Types, lo, n)
              /\ Len(args) > MaxPacked  => Bits(desc, lo, n) = Bits(Len(args), lo, n)
<1>1. PICK h \in {0, 1} : (h = 1 <=> SomeNamed) /\ NamedBit = h * HasNamedBit
  <2>1. CASE SomeNamed
    BY <2>1, WordIs DEF NamedBit
  <2>2. CASE ~ SomeNamed
    BY <2>2, WordIs DEF NamedBit
  <2>3. QED
    BY <2>1, <2>2
<1>2. Len(args) \in Nat /\ MaxPacked \in Nat
  BY WordIs DEF ArgsTypes
<1>3. CASE Len(args) <= MaxPacked
  <2>1. Types \in Nat /\ Types < HasNamedBit
    <3>1. PICK k \in Nat : k = next - 1 /\ k <= MaxPacked
      BY <1>2, <1>3 DEF ArgsTypes
    <3>2. k * 4 \in Nat /\ k * 4 <= WordBits - 2 /\ WordBits - 2 \in Nat
      BY <3>1, WordIs
    <3>3. 2 ^ (k * 4) <= HasNamedBit /\ 2 ^ (k * 4) \in Nat
      BY <3>2, PowersGrow, PowerOfTwo DEF HasNamedBit
    <3>4. Types \in Nat /\ Types < 2 ^ (k * 4)
      BY <1>3, <3>1 DEF PackedTypes, PackedArgBits
    <3>5. QED
      BY <3>3, <3>4, WordIs
  <2>2. desc = Types + h * HasNamedBit + 0 * IsUnpackedBit
    <3>1. desc - NamedBit \in Nat /\ NamedBit \in Nat
      BY <1>1, <2>1, WordIs DEF Types
    <3>2. desc = Types + NamedBit
      <4>1. PICK t \in Nat : t = desc - NamedBit
        BY <3>1
      <4>2. desc \in Int
        BY DEF ArgsTypes
      <4>3. QED
        BY <3>1, <4>2 DEF Types
    <3>3. QED
      BY <1>1, <2>1, <3>1, <3>2, WordIs
  <2>3. QED
    <3>1. /\ Bits(desc, WordBits - 1, 1) = 0 /\ Bits(desc, WordBits - 2, 1) = h
          /\ \A lo, n \in Nat : lo + n <= WordBits - 2 =>
               Bits(desc, lo, n) = Bits(Types, lo, n)
      BY <2>1, <2>2, FlagsApart
    <3>2. ~ (Len(args) > MaxPacked)
      BY <1>2, <1>3
    <3>3. QED
      BY <1>1, <1>3, <3>1, <3>2 DEF IsPacked, HasNamed
<1>4. CASE Len(args) > MaxPacked
  <2>1. Len(args) < HasNamedBit
    <3>1. Len(args) < 2 ^ (WordBits \div 2)
      BY DEF ArgsTypes
    <3>2. 2 ^ (WordBits \div 2) <= HasNamedBit /\ 2 ^ (WordBits \div 2) \in Nat
      BY WordIs, PowersGrow, PowerOfTwo DEF HasNamedBit
    <3>3. QED
      BY <1>2, <3>1, <3>2, WordIs
  <2>2. desc = Len(args) + h * HasNamedBit + 1 * IsUnpackedBit
    BY <1>1, <1>2, <1>4, WordIs DEF UnpackedCount, Types, ArgsTypes
  <2>3. QED
    BY <1>1, <1>2, <1>4, <2>1, <2>2, FlagsApart DEF IsPacked, HasNamed
<1>5. QED
  BY <1>2, <1>3, <1>4

CppTypes ==
  {"signed_char", "unsigned_char", "short", "unsigned_short", "int", "unsigned", "long",
   "unsigned_long", "long_long", "unsigned_long_long", "int128", "uint128", "bitint",
   "ubitint", "bool", "char", "float", "double", "long_double", "char_pointer", "string",
   "void_pointer", "nullptr", "user_type"}

LEMMA CppTypesAre == DOMAIN Mapped = CppTypes
BY DEF Mapped, CppTypes

(* Every C++ type is mapped to a type, other than none, whose visitor      *)
(* reads what the constructor set.                                         *)
LEMMA MappedIs ==
  ASSUME NEW t \in DOMAIN Mapped
  PROVE  /\ Mapped[t] \in DOMAIN TypeNumber \ {"none"}
         /\ TypeNumber[Mapped[t]] \in 1 .. 15
         /\ Visited[Mapped[t]] = Stored[t]
<1>1. LongType \in {"int", "long_long"} /\ ULongType \in {"uint", "ulong_long"}
  BY DEF LongType, ULongType
<1>2. PICK m : m = Mapped[t]
  OBVIOUS
<1>3. m \in {"int", "uint", "long_long", "ulong_long", "int128", "uint128", "bool", "char",
             "float", "double", "long_double", "cstring", "string", "pointer", "custom"}
  BY <1>1, <1>2, CppTypesAre DEF Mapped, CppTypes
<1>4. m \in DOMAIN TypeNumber \ {"none"} /\ TypeNumber[m] \in 1 .. 15
  BY <1>3 DEF TypeNumber
<1>5. Visited[m] = IF m = "cstring" THEN {"string.data"}
                   ELSE IF m = "string" THEN {"string.data", "string.size"} ELSE {m}
  BY <1>4 DEF Visited
<1>6. CASE t \in {"signed_char", "short", "int", "unsigned_char", "unsigned_short",
                  "unsigned", "long", "unsigned_long"}
  <2>1. Stored[t] = {m}
    BY <1>2, <1>6 DEF Stored, Mapped
  <2>2. m \notin {"cstring", "string"}
    BY <1>1, <1>2, <1>6 DEF Mapped
  <2>3. QED
    BY <1>2, <1>3, <1>4, <1>5, <2>1, <2>2
<1>7. CASE t \in {"long_long", "bitint", "unsigned_long_long", "ubitint"}
  <2>1. Stored[t] = {m}
    BY <1>2, <1>7 DEF Stored, Mapped
  <2>2. m \notin {"cstring", "string"}
    BY <1>1, <1>2, <1>7 DEF Mapped
  <2>3. QED
    BY <1>2, <1>3, <1>4, <1>5, <2>1, <2>2
<1>8. CASE t \in {"char_pointer", "string"}
  BY <1>2, <1>4, <1>5, <1>8 DEF Stored, Mapped
<1>9. CASE t \in {"void_pointer", "nullptr", "user_type"}
  <2>1. m \in {"pointer", "custom"} /\ Stored[t] = {m}
    BY <1>2, <1>9 DEF Stored, Mapped
  <2>2. QED
    BY <1>2, <1>4, <1>5, <2>1
<1>10. CASE t \in {"int128", "uint128", "bool", "char", "float", "double", "long_double"}
  <2>1. Stored[t] = {t} /\ m = t
    BY <1>2, <1>10 DEF Stored, Mapped
  <2>2. QED
    BY <1>2, <1>3, <1>4, <1>5, <1>10, <2>1
<1>11. QED
  BY <1>6, <1>7, <1>8, <1>9, <1>10, CppTypesAre DEF CppTypes

LEMMA TypeOfIs ==
  /\ TypeOf(0) = "none"
  /\ \A m \in DOMAIN TypeNumber : TypeOf(TypeNumber[m]) = m
<1>1. \A m, n \in DOMAIN TypeNumber : TypeNumber[m] = TypeNumber[n] => m = n
  BY DEF TypeNumber
<1>2. \A m \in DOMAIN TypeNumber : TypeOf(TypeNumber[m]) = m
  BY <1>1 DEF TypeOf
<1>3. "none" \in DOMAIN TypeNumber /\ TypeNumber["none"] = 0
  BY DEF TypeNumber
<1>4. QED
  BY <1>2, <1>3

LEMMA ArgsInitHolds == ArgsInit => ArgsInv
<1> SUFFICES ASSUME ArgsInit PROVE ArgsInv
  OBVIOUS
<1>1. /\ next = 1 /\ values = <<>> /\ named = <<>> /\ result = <<>> /\ args \in ArgLists
      /\ desc = (IF Len(args) > MaxPacked THEN IsUnpackedBit + Len(args) ELSE 0)
  BY DEF ArgsInit
<1>2. args \in Seq(Arg) /\ Len(args) < 2 ^ (WordBits \div 2) /\ Len(args) \in Nat
  <2>1. args \in Seq(Arg) /\ Len(args) < 2 ^ (WordBits \div 2)
    BY <1>1, ArgsAssumption, Zenon
  <2>2. QED
    BY <2>1
<1>3. NamedBit = 0 /\ ~ SomeNamed /\ IsUnpackedBit \in Nat /\ MaxPacked \in Nat
  BY <1>1, WordIs DEF NamedBit, SomeNamed
<1>4. desc \in Nat /\ Types = desc
  BY <1>1, <1>2, <1>3 DEF Types
<1>5. ArgsTypes
  BY <1>1, <1>2, <1>4 DEF ArgsTypes
<1>6. PackedTypes
  <2>1. SUFFICES ASSUME Len(args) <= MaxPacked PROVE Types = 0
    <3>1. (next - 1) * PackedArgBits = 0 /\ 2 ^ 0 = 1 /\ 1 .. next - 1 = {}
      BY <1>1, PowerOfTwo DEF PackedArgBits
    <3>2. Types = 0 => /\ Types \in Nat /\ Types < 2 ^ ((next - 1) * PackedArgBits)
      <4>1. 2 ^ ((next - 1) * PackedArgBits) = 1
        BY <3>1
      <4>2. QED
        BY <4>1
    <3>3. QED
      BY <2>1, <3>1, <3>2 DEF PackedTypes
  <2>2. QED
    BY <1>1, <1>2, <1>3, <1>4, <2>1
<1>7. UnpackedCount
  BY <1>1, <1>4 DEF UnpackedCount
<1>8. NamedInOrder /\ ValuesStored /\ LookUpFindsTheArgument
  BY <1>1 DEF NamedInOrder, ValuesStored, LookUpFindsTheArgument
<1>9. QED
  BY <1>5, <1>6, <1>7, <1>8 DEF ArgsInv

LEMMA StoreIs ==
  ASSUME ArgsInv, StoreArg
  PROVE  /\ next \in Nat \ {0} /\ next <= Len(args) /\ Len(args) \in Nat
         /\ args \in Seq(Arg) /\ args' = args /\ next' = next + 1
         /\ args[next] \in Arg /\ args[next].cpp \in DOMAIN Mapped
<1>1. args \in Seq(Arg) /\ next \in 1 .. Len(args) + 1
  BY DEF ArgsInv, ArgsTypes
<1>2. next <= Len(args) /\ args' = args /\ next' = next + 1
  BY DEF StoreArg, NumArgs
<1>3. Len(args) \in Nat
  BY <1>1
<1>4. next \in 1 .. Len(args)
  BY <1>1, <1>2, <1>3
<1>5. args[next] \in Arg
  BY <1>1, <1>4
<1>6. args[next].cpp \in DOMAIN Mapped
  BY <1>5 DEF Arg
<1>7. QED
  BY <1>1, <1>2, <1>3, <1>4, <1>5, <1>6

(* What storing the next argument adds to the descriptor.                  *)
LEMMA StoreDesc ==
  ASSUME ArgsInv, StoreArg
  PROVE  /\ desc' \in Int /\ NamedBit' = NamedBit + (desc' - desc - EncodeType(next))
         /\ Types' = Types + EncodeType(next)
<1>1. next \in Nat \ {0} /\ next <= Len(args) /\ Len(args) \in Nat /\ desc \in Int
      /\ args \in Seq(Arg)
  BY StoreIs DEF ArgsInv, ArgsTypes
<1>2. next' = next + 1 /\ args' = args
      /\ desc' = desc + EncodeType(next)
                 + (IF args[next].name # "" /\ ~ HasNamed THEN HasNamedBit ELSE 0)
  BY DEF StoreArg
<1>3. HasNamed <=> SomeNamed
  BY DescSays DEF ArgsInv
<1>4. SomeNamed' <=> SomeNamed \/ args[next].name # ""
  <2>1. next' - 1 = next
    BY StoreIs
  <2>2. \A i \in 1 .. next : i \in 1 .. next - 1 \/ i = next
    BY <1>1
  <2>3. \A i \in 1 .. next - 1 : i \in 1 .. next
    BY <1>1
  <2>4. next \in 1 .. next
    BY <1>1
  <2>5. QED
    BY <1>2, <2>1, <2>2, <2>3, <2>4 DEF SomeNamed
<1>5. HasNamedBit \in Nat
  BY WordIs
<1> DEFINE Add == IF args[next].name # "" /\ ~ HasNamed THEN HasNamedBit ELSE 0
<1>6. Add \in Nat /\ NamedBit' = NamedBit + Add
  <2>1. HasNamedBit' = HasNamedBit
    BY DEF HasNamedBit
  <2>2. NamedBit = (IF SomeNamed THEN HasNamedBit ELSE 0)
        /\ NamedBit' = (IF SomeNamed' THEN HasNamedBit ELSE 0)
    BY <2>1 DEF NamedBit
  <2>3. CASE SomeNamed
    <3>1. Add = 0 /\ NamedBit = HasNamedBit /\ NamedBit' = HasNamedBit
      BY <1>3, <1>4, <2>2, <2>3
    <3> HIDE DEF Add
    <3>2. QED
      BY <1>5, <3>1
  <2>4. CASE ~ SomeNamed /\ args[next].name # ""
    <3>1. Add = HasNamedBit /\ NamedBit = 0 /\ NamedBit' = HasNamedBit
      BY <1>3, <1>4, <2>2, <2>4
    <3> HIDE DEF Add
    <3>2. QED
      BY <1>5, <3>1
  <2>5. CASE ~ SomeNamed /\ args[next].name = ""
    <3>1. Add = 0 /\ NamedBit = 0 /\ NamedBit' = 0
      BY <1>4, <2>2, <2>5
    <3> HIDE DEF Add
    <3>2. QED
      BY <3>1
  <2>6. QED
    BY <2>3, <2>4, <2>5
<1>7. EncodeType(next) \in Nat
  <2>1. args[next].cpp \in DOMAIN Mapped
    BY StoreIs
  <2>2. TypeNumber[Mapped[args[next].cpp]] \in Nat
    BY <2>1, MappedIs
  <2>3. (next - 1) * 4 \in Nat
    BY <1>1
  <2>4. 2 ^ ((next - 1) * PackedArgBits) \in Nat
    BY <2>3, PowerOfTwo DEF PackedArgBits
  <2>5. QED
    BY <2>2, <2>4 DEF EncodeType
<1>8. NamedBit \in Nat
  BY <1>5 DEF NamedBit
<1>9. PICK a \in Nat : a = Add
  BY <1>6
<1>10. desc' = desc + EncodeType(next) + a /\ NamedBit' = NamedBit + a
  BY <1>2, <1>6, <1>9
<1>11. Types = desc - NamedBit /\ Types' = desc' - NamedBit'
  BY DEF Types
<1>12. QED
  BY <1>1, <1>7, <1>8, <1>10, <1>11

LEMMA StorePacked ==
  ASSUME ArgsInv, StoreArg
  PROVE  PackedTypes'
<1>1. next \in Nat \ {0} /\ next <= Len(args) /\ Len(args) \in Nat /\ args \in Seq(Arg)
      /\ next' = next + 1 /\ args' = args
  BY StoreIs
<1>2. SUFFICES ASSUME Len(args) <= MaxPacked
               PROVE  /\ Types' \in Nat /\ Types' < 2 ^ (next * PackedArgBits)
                      /\ \A i \in 1 .. next :
                           Bits(Types', (i - 1) * PackedArgBits, PackedArgBits)
                             = TypeNumberOf(i)
  <2>1. MaxPacked' = MaxPacked /\ next' - 1 = next
    BY <1>1 DEF MaxPacked, PackedArgBits
  <2>2. \A i : TypeNumberOf(i)' = TypeNumberOf(i)
    BY <1>1 DEF TypeNumberOf
  <2>3. QED
    BY <1>1, <1>2, <2>1, <2>2 DEF PackedTypes, PackedArgBits, Bits
<1>3. PICK t \in 1 .. 15 : t = TypeNumberOf(next)
  <2>1. args[next].cpp \in DOMAIN Mapped
    BY StoreIs
  <2>2. QED
    BY <2>1, MappedIs DEF TypeNumberOf
<1>4. PICK lo \in Nat, k \in Nat : lo = k * 4 /\ k = next - 1
  BY <1>1
<1>5. PICK d \in Nat : d = Types /\ d < 2 ^ lo
  BY <1>2, <1>4 DEF ArgsInv, PackedTypes, PackedArgBits
<1>6. Types' = d + t * 2 ^ lo
  <2>1. ~ (Len(args) > MaxPacked)
    BY <1>1, <1>2, WordIs
  <2>2. EncodeType(next) = t * 2 ^ lo
    BY <1>3, <1>4, <2>1 DEF EncodeType, TypeNumberOf, PackedArgBits
  <2>3. QED
    BY <1>5, <2>2, StoreDesc
<1>7. PICK x \in Nat \ {0} : x = 2 ^ lo
  BY PowerOfTwo
<1>8. Types' \in Nat /\ Types' < 2 ^ (next * PackedArgBits)
  <2>1. 2 ^ (lo + 4) = x * 16
    <3>1. 2 ^ 4 = 16 /\ 4 \in Nat
      OBVIOUS
    <3>2. 2 ^ (lo + 4) = 2 ^ lo * 2 ^ 4
      BY <3>1, PowerSum
    <3>3. QED
      BY <1>7, <3>1, <3>2
  <2>2. next * PackedArgBits = lo + 4
    BY <1>1, <1>4 DEF PackedArgBits
  <2>3. t * x \in Nat /\ t * x <= 15 * x
    OBVIOUS
  <2>4. QED
    BY <1>5, <1>6, <1>7, <2>1, <2>2, <2>3
<1>9. ASSUME NEW i \in 1 .. next
      PROVE  Bits(Types', (i - 1) * 4, 4) = TypeNumberOf(i)
  <2>1. CASE i = next
    <3>1. t < 2 ^ 4 /\ 4 \in Nat /\ t \in Nat
      OBVIOUS
    <3>2. Bits(d + t * 2 ^ lo, lo, 4) = t
      BY <1>5, <3>1, BitsAt
    <3>3. (i - 1) * 4 = lo
      BY <1>4, <2>1
    <3>4. QED
      BY <1>3, <1>6, <2>1, <3>2, <3>3
  <2>2. CASE i # next
    <3>1. i \in 1 .. next - 1
      BY <1>1, <2>2
    <3>2. PICK p \in Nat : p = (i - 1) * 4 /\ p + 4 <= lo
      BY <1>1, <1>4, <3>1
    <3>3. Bits(d + t * 2 ^ lo, p, 4) = Bits(d, p, 4)
      BY <3>2, BitsOfSum
    <3>4. Bits(d, p, 4) = TypeNumberOf(i)
      BY <1>2, <1>5, <3>1, <3>2 DEF ArgsInv, PackedTypes, PackedArgBits
    <3>5. QED
      BY <1>6, <3>2, <3>3, <3>4
  <2>3. QED
    BY <2>1, <2>2
<1>10. QED
  BY <1>8, <1>9 DEF PackedArgBits

LEMMA StoreNamed ==
  ASSUME ArgsInv, StoreArg
  PROVE  NamedInOrder'
<1> DEFINE Entry == [name: STRING, id: Nat]
           new   == [name |-> args[next].name, id |-> next - 1]
<1>1. /\ next \in Nat \ {0} /\ next <= Len(args) /\ args' = args /\ next' = next + 1
      /\ args[next] \in Arg
  BY StoreIs
<1>2. named \in Seq(Entry) /\ Len(named) \in Nat
  <2>1. named \in Seq(Entry)
    BY DEF ArgsInv, NamedInOrder
  <2> HIDE DEF Entry
  <2>2. QED
    BY <2>1
<1>3. /\ \A j \in 1 .. Len(named) :
           /\ named[j].id + 1 \in 1 .. next - 1 /\ named[j].name # ""
           /\ args[named[j].id + 1].name = named[j].name
      /\ \A i \in 1 .. next - 1 :
           args[i].name # "" => \E j \in 1 .. Len(named) : named[j].id + 1 = i
      /\ \A j, k \in 1 .. Len(named) : j < k => named[j].id < named[k].id
  BY DEF ArgsInv, NamedInOrder
<1>4. next' - 1 = next /\ \A i \in 1 .. next : i \in 1 .. next - 1 \/ i = next
  BY <1>1
<1>5. CASE args[next].name = ""
  <2>1. named' = named
    BY <1>5 DEF StoreArg, InitNamedArg
  <2>2. \A m \in 1 .. next - 1 : m \in 1 .. next
    BY <1>1
  <2>3. \A i \in 1 .. next :
          args[i].name # "" => \E j \in 1 .. Len(named) : named[j].id + 1 = i
    BY <1>3, <1>4, <1>5
  <2>4. QED
    BY <1>1, <1>2, <1>3, <1>4, <2>1, <2>2, <2>3, Zenon DEF NamedInOrder
<1>6. CASE args[next].name # ""
  <2>1. named' = Append(named, new)
    BY <1>6 DEF StoreArg, InitNamedArg
  <2>2. new \in Entry /\ new.id + 1 = next /\ new.name = args[next].name
    BY <1>1 DEF Arg
  <2>3. PICK n \in Nat : n = Len(named)
    BY <1>2
  <2>4. /\ named' \in Seq(Entry) /\ Len(named') = n + 1 /\ named'[n + 1] = new
        /\ \A j \in 1 .. n : named'[j] = named[j]
    BY <1>2, <2>1, <2>2, <2>3
  <2>5. \A j \in 1 .. n + 1 : j \in 1 .. n \/ j = n + 1
    BY <2>3
  <2> HIDE DEF new
  <2>6. ASSUME NEW j \in 1 .. n + 1
        PROVE  /\ named'[j].id + 1 \in 1 .. next /\ named'[j].name # ""
               /\ args[named'[j].id + 1].name = named'[j].name
    <3>1. CASE j \in 1 .. n
      <4>1. named[j].id + 1 \in 1 .. next - 1 /\ named'[j] = named[j]
        BY <1>3, <2>3, <2>4, <3>1
      <4>2. named[j].id + 1 \in 1 .. next
        BY <1>1, <4>1
      <4>3. QED
        BY <1>3, <2>3, <3>1, <4>1, <4>2
    <3>2. CASE j = n + 1
      <4>1. next \in 1 .. next
        BY <1>1
      <4>2. QED
        BY <1>6, <2>2, <2>4, <3>2, <4>1
    <3>3. QED
      BY <2>5, <3>1, <3>2
  <2>7. ASSUME NEW i \in 1 .. next, args[i].name # ""
        PROVE  \E j \in 1 .. n + 1 : named'[j].id + 1 = i
    <3>1. CASE i \in 1 .. next - 1
      <4>1. PICK j \in 1 .. n : named[j].id + 1 = i
        BY <1>3, <2>3, <2>7, <3>1
      <4>2. j \in 1 .. n + 1
        OBVIOUS
      <4>3. QED
        BY <2>4, <4>1, <4>2
    <3>2. CASE i = next
      <4>1. n + 1 \in 1 .. n + 1
        OBVIOUS
      <4>2. QED
        BY <2>2, <2>4, <3>2, <4>1
    <3>3. QED
      BY <1>4, <3>1, <3>2
  <2>8. ASSUME NEW j \in 1 .. n + 1, NEW k \in 1 .. n + 1, j < k
        PROVE  named'[j].id < named'[k].id
    <3>1. j \in 1 .. n
      BY <2>8
    <3>2. named[j] \in Entry /\ named[j].id + 1 \in 1 .. next - 1
      <4>1. named[j] \in Entry
        <5> HIDE DEF Entry
        <5>1. QED
          BY <1>2, <2>3, <3>1
      <4>2. QED
        BY <1>3, <2>3, <3>1, <4>1
    <3>3. CASE k = n + 1
      <4>1. new.id + 1 = next /\ new.id \in Nat /\ named[j].id \in Nat
        BY <2>2, <3>2
      <4>2. named[j].id < new.id
        BY <1>1, <3>2, <4>1
      <4>3. QED
        BY <2>4, <3>1, <3>3, <4>2
    <3>4. CASE k \in 1 .. n
      BY <1>3, <2>3, <2>4, <2>8, <3>1, <3>4
    <3>5. QED
      BY <2>5, <3>3, <3>4
  <2>9. QED
    BY <1>1, <1>4, <2>4, <2>6, <2>7, <2>8 DEF NamedInOrder
<1>7. QED
  BY <1>5, <1>6

LEMMA StoreValues ==
  ASSUME ArgsInv, StoreArg
  PROVE  ValuesStored'
<1> DEFINE Member == [members: {Stored[t] : t \in DOMAIN Mapped}, is: Nat]
           new    == [members |-> Stored[args[next].cpp], is |-> args[next].value]
<1>1. /\ next \in Nat \ {0} /\ next <= Len(args) /\ args' = args /\ next' = next + 1
      /\ args[next] \in Arg /\ args[next].cpp \in DOMAIN Mapped
  BY StoreIs
<1>2. /\ values \in Seq(Member) /\ Len(values) = next - 1
      /\ \A i \in 1 .. next - 1 :
           values[i] = [members |-> Stored[args[i].cpp], is |-> args[i].value]
  BY DEF ArgsInv, ValuesStored
<1>3. values' = Append(values, new)
  BY DEF StoreArg
<1>4. new \in Member
  BY <1>1 DEF Arg
<1>5. /\ values' \in Seq(Member) /\ Len(values') = next /\ values'[next] = new
      /\ \A j \in 1 .. next - 1 : values'[j] = values[j]
  <2> HIDE DEF new, Member
  <2>1. QED
    BY <1>1, <1>2, <1>3, <1>4
<1>6. \A i \in 1 .. next : i \in 1 .. next - 1 \/ i = next
  BY <1>1
<1>7. \A i \in 1 .. next :
        values'[i] = [members |-> Stored[args[i].cpp], is |-> args[i].value]
  BY <1>2, <1>5, <1>6
<1>8. (Stored)' = Stored /\ (DOMAIN Mapped)' = DOMAIN Mapped /\ next' - 1 = next
  BY <1>1
<1>9. QED
  BY <1>1, <1>5, <1>7, <1>8 DEF ValuesStored

LEMMA StoreHolds ==
  ASSUME ArgsInv, StoreArg
  PROVE  ArgsInv'
<1>1. /\ next \in Nat \ {0} /\ next <= Len(args) /\ args' = args /\ next' = next + 1
      /\ Len(args) \in Nat
  BY StoreIs
<1>2. ArgsTypes'
  <2>1. next' \in 1 .. Len(args) + 1
    BY <1>1
  <2>2. desc' \in Int /\ args \in Seq(Arg) /\ Len(args) < 2 ^ (WordBits \div 2)
    BY StoreDesc DEF ArgsInv, ArgsTypes
  <2>3. QED
    BY <1>1, <2>1, <2>2 DEF ArgsTypes
<1>3. UnpackedCount'
  <2>1. SUFFICES ASSUME Len(args) > MaxPacked PROVE Types' = IsUnpackedBit + Len(args)
    BY <1>1 DEF UnpackedCount, MaxPacked, IsUnpackedBit, PackedArgBits
  <2>2. EncodeType(next) = 0
    BY <2>1 DEF EncodeType
  <2>3. Types = IsUnpackedBit + Len(args) /\ IsUnpackedBit \in Nat
    BY <2>1, WordIs DEF ArgsInv, UnpackedCount
  <2>4. QED
    BY <1>1, <2>2, <2>3, StoreDesc
<1>4. LookUpFindsTheArgument'
  <2>1. result' = result
    BY DEF StoreArg
  <2>2. QED
    BY <1>1, <2>1 DEF ArgsInv, LookUpFindsTheArgument, Wanted, NoArg, Garbage
<1>5. QED
  BY <1>2, <1>3, <1>4, StorePacked, StoreNamed, StoreValues DEF ArgsInv

(* What an index finds once the arguments are stored.                      *)
LEMMA GetIs ==
  ASSUME ArgsInv, next = NumArgs + 1, NEW id \in Nat
  PROVE  /\ id < Len(args) =>
              Get(id) = [type |-> Mapped[args[id + 1].cpp], value |-> values[id + 1]]
         /\ id >= Len(args) => Get(id) = NoArg
<1>1. PICK n \in Nat : n = Len(args) /\ next - 1 = n /\ NumArgs = n
  <2>1. args \in Seq(Arg)
    BY DEF ArgsInv, ArgsTypes
  <2>2. QED
    BY <2>1 DEF NumArgs
<1>2. /\ IsPacked <=> n <= MaxPacked
      /\ \A lo, k \in Nat : lo + k <= WordBits - 2 =>
           /\ n <= MaxPacked => Bits(desc, lo, k) = Bits(Types, lo, k)
           /\ n > MaxPacked  => Bits(desc, lo, k) = Bits(n, lo, k)
  BY <1>1, DescSays DEF ArgsInv
<1>3. MaxPacked \in Nat /\ MaxPacked * 4 <= WordBits - 2 /\ WordBits - 2 \in Nat
  BY WordIs
<1>4. id < n => Value(id) = values[id + 1]
  BY <1>1 DEF Value
<1>5. CASE n > MaxPacked
  <2>1. ~ IsPacked
    BY <1>1, <1>2, <1>3, <1>5
  <2>2. MaxSize = n
    <3>1. PICK h \in Nat : h = WordBits \div 2 /\ h <= WordBits - 2
      BY WordIs
    <3>2. Bits(desc, 0, h) = Bits(n, 0, h)
      <4>1. 0 \in Nat /\ 0 + h <= WordBits - 2
        BY <1>3, <3>1
      <4>2. QED
        BY <1>2, <1>5, <3>1, <4>1
    <3>3. n < 2 ^ h
      BY <1>1, <3>1 DEF ArgsInv, ArgsTypes
    <3>4. Bits(0 + n * 2 ^ 0, 0, h) = n
      <4>1. 0 < 2 ^ 0
        BY PowerOfTwo
      <4>2. QED
        BY <3>3, <4>1, BitsAt
    <3>5. 0 + n * 2 ^ 0 = n
      <4>1. 2 ^ 0 = 1
        BY PowerOfTwo
      <4>2. QED
        BY <4>1
    <3>6. QED
      BY <2>1, <3>1, <3>2, <3>4, <3>5 DEF MaxSize
  <2>3. QED
    BY <1>1, <1>4, <2>1, <2>2 DEF Get, Unpacked
<1>6. CASE n <= MaxPacked
  <2>1. IsPacked /\ MaxPacked \in Nat
    BY <1>2, <1>3, <1>6
  <2>2. CASE id >= MaxPacked
    <3>1. Get(id) = NoArg
      BY <2>1, <2>2 DEF Get
    <3>2. ~ (id < n)
      BY <1>3, <1>6, <2>2
    <3>3. QED
      BY <1>1, <3>1, <3>2
  <2>3. CASE id < MaxPacked
    <3>1. PICK lo \in Nat : lo = id * 4 /\ lo + 4 <= WordBits - 2
      BY <1>3, <2>3
    <3>2. Bits(desc, lo, 4) = Bits(Types, lo, 4)
      BY <1>2, <1>6, <3>1
    <3>3. PICK d \in Nat : d = Types /\ d < 2 ^ (n * 4)
      BY <1>1, <1>6 DEF ArgsInv, PackedTypes, PackedArgBits
    <3>4. ~ (id >= MaxPacked)
      BY <1>3, <2>3
    <3>5. CASE id < n
      <4>1. id + 1 \in 1 .. next - 1 /\ (id + 1) - 1 = id
        BY <1>1, <3>5
      <4>2. Bits(Types, lo, 4) = TypeNumberOf(id + 1)
        BY <1>1, <1>6, <3>1, <4>1 DEF ArgsInv, PackedTypes, PackedArgBits
      <4>3. args[id + 1].cpp \in DOMAIN Mapped
        <5>1. args \in Seq(Arg) /\ id + 1 \in 1 .. Len(args)
          BY <1>1, <4>1 DEF ArgsInv, ArgsTypes
        <5>2. args[id + 1] \in Arg
          BY <5>1
        <5>3. QED
          BY <5>2 DEF Arg
      <4>4. TypeAt(id) = Mapped[args[id + 1].cpp] /\ TypeAt(id) # "none"
        BY <3>1, <3>2, <4>2, <4>3, MappedIs, TypeOfIs DEF TypeAt, TypeNumberOf, PackedArgBits
      <4>5. Get(id) = [type |-> TypeAt(id), value |-> Value(id)]
        BY <2>1, <3>4, <4>4 DEF Get
      <4>6. QED
        BY <1>1, <1>4, <3>5, <4>4, <4>5
    <3>6. CASE id >= n
      <4>1. Bits(Types, lo, 4) = 0
        <5>1. n * 4 \in Nat /\ n * 4 <= lo
          BY <3>1, <3>6
        <5>2. PICK x \in Nat, y \in Nat : x = 2 ^ (n * 4) /\ y = 2 ^ lo /\ x <= y
          BY <5>1, PowersGrow, PowerOfTwo
        <5>3. d < 2 ^ lo /\ 4 \in Nat
          BY <3>3, <5>2
        <5>4. QED
          BY <3>3, <5>3, BitsAbove
      <4>2. TypeAt(id) = "none"
        BY <3>1, <3>2, <4>1, TypeOfIs DEF TypeAt, PackedArgBits
      <4>3. Get(id) = NoArg
        BY <2>1, <4>2 DEF Get
      <4>4. QED
        BY <1>1, <3>6, <4>3
    <3>7. QED
      BY <3>5, <3>6
  <2>4. QED
    BY <1>3, <2>2, <2>3
<1>7. QED
  BY <1>3, <1>5, <1>6

(* And what a name finds: the first argument of that name, or none.        *)
LEMMA GetIdIs ==
  ASSUME ArgsInv, next = NumArgs + 1, NEW name \in Names
  PROVE  \/ /\ GetId(name) = -1 /\ \A i \in 1 .. Len(args) : args[i].name # name
         \/ \E i \in 1 .. Len(args) :
              /\ GetId(name) = i - 1 /\ args[i].name = name
              /\ \A j \in 1 .. i - 1 : args[j].name # name
<1> DEFINE found == {i \in DOMAIN named : named[i].name = name}
<1>1. PICK n \in Nat : n = Len(args) /\ next - 1 = n
  <2>1. args \in Seq(Arg)
    BY DEF ArgsInv, ArgsTypes
  <2>2. QED
    BY <2>1 DEF NumArgs
<1>2. HasNamed <=> SomeNamed
  BY DescSays DEF ArgsInv
<1> DEFINE Entry == [name: STRING, id: Nat]
<1>2a. named \in Seq(Entry)
  BY DEF ArgsInv, NamedInOrder
<1> HIDE DEF Entry
<1>3. PICK k \in Nat : k = Len(named) /\ DOMAIN named = 1 .. k
  BY <1>2a
<1>4. /\ \A j \in 1 .. k :
           /\ named[j].id + 1 \in 1 .. n /\ named[j].name # ""
           /\ args[named[j].id + 1].name = named[j].name
      /\ \A i \in 1 .. n :
           args[i].name # "" => \E j \in 1 .. k : named[j].id + 1 = i
      /\ \A i, j \in 1 .. k : i < j => named[i].id < named[j].id
  BY <1>1, <1>3 DEF ArgsInv, NamedInOrder
<1>5. \A j \in 1 .. k : named[j].id \in Nat
  <2> TAKE j \in 1 .. k
  <2>1. named[j] \in Entry
    BY <1>2a, <1>3
  <2>2. QED
    BY <2>1 DEF Entry
<1>6. CASE found = {}
  <2>1. GetId(name) = -1
    BY <1>6 DEF GetId
  <2>2. ASSUME NEW i \in 1 .. n, args[i].name = name PROVE FALSE
    <3>1. PICK j \in 1 .. k : named[j].id + 1 = i
      BY <1>4, <2>2, ArgsAssumption
    <3>2. named[j].name = name
      BY <1>4, <2>2, <3>1
    <3>3. QED
      BY <1>3, <1>6, <3>1, <3>2
  <2>3. QED
    BY <1>1, <2>1, <2>2
<1>7. CASE found # {}
  <2>1. found \in SUBSET Nat
    BY <1>3
  <2>2. \E i \in found : \A j \in found : i <= j
    <3> HIDE DEF found
    <3>1. QED
      BY <1>7, <2>1, LeastNatural
  <2>3. PICK f \in found : f = (CHOOSE i \in found : \A j \in found : i <= j)
                           /\ \A j \in found : f <= j
    BY <2>2
  <2>4. f \in 1 .. k /\ named[f].name = name
    BY <1>3
  <2>5. PICK i \in 1 .. n : i = named[f].id + 1 /\ args[i].name = name
    BY <1>4, <2>4
  <2>6. SomeNamed
    BY <1>1, <2>5, ArgsAssumption DEF SomeNamed
  <2>7. GetId(name) = named[f].id
    BY <1>2, <1>7, <2>3, <2>6 DEF GetId
  <2>8. GetId(name) = i - 1
    BY <1>5, <2>4, <2>5, <2>7
  <2>9. ASSUME NEW j \in 1 .. i - 1, args[j].name = name PROVE FALSE
    <3>1. j \in 1 .. n
      OBVIOUS
    <3>2. PICK m \in 1 .. k : named[m].id + 1 = j
      BY <1>4, <2>9, <3>1, ArgsAssumption
    <3>3. m \in found
      BY <1>3, <1>4, <2>9, <3>2
    <3>4. f <= m /\ m # f
      <4>1. f <= m
        BY <2>3, <3>3
      <4>2. j # i
        OBVIOUS
      <4>3. QED
        BY <2>5, <3>2, <4>1, <4>2
    <3>5. f < m
      BY <2>4, <3>4
    <3>6. named[f].id < named[m].id
      BY <1>4, <2>4, <3>5
    <3>7. QED
      BY <1>5, <2>4, <2>5, <3>2, <3>6
  <2>10. QED
    BY <1>1, <2>5, <2>8, <2>9
<1>8. QED
  BY <1>6, <1>7

LEMMA LookUpHolds ==
  ASSUME ArgsInv, LookUp
  PROVE  ArgsInv'
<1>1. /\ args' = args /\ next' = next /\ desc' = desc /\ values' = values
      /\ named' = named /\ next = NumArgs + 1
  BY DEF LookUp, Found
<1>2. ArgsTypes' /\ NamedInOrder' /\ ValuesStored'
  BY <1>1 DEF ArgsInv, ArgsTypes, NamedInOrder, ValuesStored
<1>3. Types' = Types
  BY <1>1 DEF Types, NamedBit, SomeNamed, HasNamedBit
<1>4. PackedTypes' /\ UnpackedCount'
  BY <1>1, <1>3 DEF ArgsInv, PackedTypes, UnpackedCount, MaxPacked, PackedArgBits, Bits,
       TypeNumberOf, IsUnpackedBit
<1>5. PICK n \in Nat : n = Len(args) /\ next - 1 = n /\ DOMAIN args = 1 .. n
  <2>1. args \in Seq(Arg)
    BY DEF ArgsInv, ArgsTypes
  <2>2. QED
    BY <1>1, <2>1 DEF NumArgs
<1>6. ASSUME NEW id \in Nat, id < n
      PROVE  /\ Get(id).type = Mapped[args[id + 1].cpp]
             /\ Get(id).value.is = args[id + 1].value
             /\ Visited[Get(id).type] = Get(id).value.members
  <2>1. Get(id) = [type |-> Mapped[args[id + 1].cpp], value |-> values[id + 1]]
    BY <1>1, <1>5, <1>6, GetIs
  <2>2. id + 1 \in 1 .. n
    BY <1>6
  <2>3. values[id + 1] = [members |-> Stored[args[id + 1].cpp], is |-> args[id + 1].value]
    BY <1>5, <2>2 DEF ArgsInv, ValuesStored
  <2>4. args[id + 1].cpp \in DOMAIN Mapped
    <3>1. args \in Seq(Arg) /\ id + 1 \in 1 .. Len(args)
      BY <1>5, <2>2 DEF ArgsInv, ArgsTypes
    <3>2. args[id + 1] \in Arg
      BY <3>1
    <3>3. QED
      BY <3>2 DEF Arg
  <2>5. QED
    BY <2>1, <2>3, <2>4, MappedIs
<1>7. ASSUME NEW id \in Nat, id >= n PROVE Get(id) = NoArg
  BY <1>1, <1>5, <1>7, GetIs
<1>8. LookUpFindsTheArgument'
  <2>1. CASE \E id \in Ids : Found(<<"index", id>>, Get(id))
    <3>1. PICK id \in Ids : result' = [ref |-> <<"index", id>>, arg |-> Get(id)]
      BY <2>1 DEF Found
    <3>2. id \in Nat
      BY ArgsAssumption
    <3>3. Wanted(result'.ref) = {id + 1} \cap DOMAIN args
      BY <3>1 DEF Wanted
    <3>4. CASE id < n
      <4>1. id + 1 \in Wanted(result'.ref)
        BY <1>5, <3>2, <3>3, <3>4
      <4>2. QED
        BY <1>1, <1>6, <3>1, <3>2, <3>4, <4>1 DEF LookUpFindsTheArgument, Wanted
    <3>5. CASE id >= n
      <4>1. Wanted(result'.ref) = {}
        BY <1>5, <3>2, <3>3, <3>5
      <4>2. QED
        BY <1>1, <1>7, <3>1, <3>2, <3>5, <4>1
           DEF LookUpFindsTheArgument, Wanted, NoArg, Garbage
    <3>6. QED
      BY <1>5, <3>2, <3>4, <3>5
  <2>2. CASE \E name \in Names :
               Found(<<"name", name>>, IF GetId(name) >= 0 THEN Get(GetId(name)) ELSE NoArg)
    <3>1. PICK name \in Names :
            result' = [ref |-> <<"name", name>>,
                       arg |-> IF GetId(name) >= 0 THEN Get(GetId(name)) ELSE NoArg]
      BY <2>2 DEF Found
    <3>2. Wanted(result'.ref) = {i \in 1 .. n : /\ args[i].name = name
                                      /\ \A j \in 1 .. i - 1 : args[j].name # name}
      BY <1>5, <3>1 DEF Wanted
    <3>4. CASE GetId(name) = -1 /\ \A i \in 1 .. n : args[i].name # name
      <4>1. Wanted(result'.ref) = {} /\ ~ (GetId(name) >= 0)
        BY <3>2, <3>4
      <4>2. QED
        BY <1>1, <3>1, <4>1 DEF LookUpFindsTheArgument, Wanted, NoArg, Garbage
    <3>5. CASE \E i \in 1 .. n :
                 /\ GetId(name) = i - 1 /\ args[i].name = name
                 /\ \A j \in 1 .. i - 1 : args[j].name # name
      <4>1. PICK i \in 1 .. n :
              /\ GetId(name) = i - 1 /\ args[i].name = name
              /\ \A j \in 1 .. i - 1 : args[j].name # name
        BY <3>5
      <4>2. i \in Wanted(result'.ref)
        BY <3>2, <4>1
      <4>3. i - 1 \in Nat /\ i - 1 < n /\ (i - 1) + 1 = i /\ GetId(name) >= 0
        BY <4>1
      <4>4. result'.arg = Get(i - 1)
        BY <3>1, <4>1, <4>3
      <4>5. QED
        BY <1>1, <1>6, <4>2, <4>3, <4>4 DEF LookUpFindsTheArgument, Wanted
    <3>6. QED
      BY <1>1, <1>5, <3>4, <3>5, GetIdIs
  <2>3. QED
    BY <2>1, <2>2 DEF LookUp
<1>9. QED
  BY <1>2, <1>4, <1>8 DEF ArgsInv

(* What an index or a name finds is the argument it stands for, and its    *)
(* visitor reads what was stored, however many arguments there are.        *)
THEOREM LookUpFinds == ArgsSpec => []LookUpFindsTheArgument
<1>1. ArgsInit => ArgsInv
  BY ArgsInitHolds
<1>2. ArgsInv /\ [ArgsNext]_argsVars => ArgsInv'
  <2> SUFFICES ASSUME ArgsInv, [ArgsNext]_argsVars PROVE ArgsInv'
    OBVIOUS
  <2>1. CASE StoreArg
    BY <2>1, StoreHolds
  <2>2. CASE LookUp
    BY <2>2, LookUpHolds
  <2>3. CASE UNCHANGED argsVars
    BY <2>3 DEF argsVars, ArgsInv, ArgsTypes, PackedTypes, UnpackedCount, NamedInOrder,
         ValuesStored, LookUpFindsTheArgument, Types, NamedBit, SomeNamed, Wanted, NoArg,
         Garbage, TypeNumberOf, MaxPacked, PackedArgBits, Bits, IsUnpackedBit, HasNamedBit
  <2>4. QED
    BY <2>1, <2>2, <2>3 DEF ArgsNext
<1>3. ArgsInv => LookUpFindsTheArgument
  BY DEF ArgsInv
<1>4. QED
  BY <1>1, <1>2, <1>3, PTL DEF ArgsSpec
===============================================================================
