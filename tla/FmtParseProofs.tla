---------------------------- MODULE FmtParseProofs ----------------------------
(***************************************************************************)
(* Theorems about the parser of format strings, for strings of any length: *)
(* the text outside the fields comes out as a reader of the string reads   *)
(* it, and automatic and manual numbering are mixed only across a name.    *)
(***************************************************************************)
EXTENDS FmtParse, NatLemmas, TLAPS

-----------------------------------------------------------------------------
(* The reader of a string as a function of the string                      *)

NoUnit       == ""
UnitOf(q, i) == IF i \in 1 .. Len(q) THEN q[i] ELSE NoUnit
UnitsOf(q)   == {UnitOf(q, i) : i \in Nat}

StepOf(q, r, i) ==
  CASE r.pair -> [r EXCEPT !.pair = FALSE]
    [] ~ r.pair /\ r.depth = 0 /\ UnitOf(q, i) \in {"{", "}"}
         /\ UnitOf(q, i + 1) = UnitOf(q, i) ->
         [r EXCEPT !.text = Append(@, UnitOf(q, i)), !.pair = TRUE]
    [] ~ r.pair /\ r.depth = 0 /\ UnitOf(q, i) \notin {"{", "}"} ->
         [r EXCEPT !.text = Append(@, UnitOf(q, i))]
    [] ~ r.pair /\ UnitOf(q, i) = "{" /\ (r.depth # 0 \/ UnitOf(q, i + 1) # "{") ->
         [r EXCEPT !.depth = @ + 1, !.opens = @ \cup {i + 1}]
    [] ~ r.pair /\ UnitOf(q, i) = "}" /\ (r.depth # 0 \/ UnitOf(q, i + 1) # "}") ->
         [r EXCEPT !.depth = @ - 1]
    [] OTHER -> [r EXCEPT !.pair = CodePointLength(UnitOf(q, i)) = 2]
ReadOf(q) ==
  CHOOSE f : f = [n \in Nat |->
    IF n = 0 THEN [text |-> <<>>, depth |-> 0, pair |-> FALSE, opens |-> {}]
    ELSE StepOf(q, f[n - 1], n)]
Reading(q) ==
  [text: Seq(UnitsOf(q)), depth: Int, pair: BOOLEAN, opens: SUBSET Nat]

LEMMA CIs == \A i : C(i) = UnitOf(fmt, i)
BY DEF C, UnitOf, NoUnit

LEMMA ReadIs == Read = ReadOf(fmt)
BY DEF Read, ReadOf, ReadUnit, StepOf, C, UnitOf, NoUnit

LEMMA StepIs ==
  ASSUME NEW q, NEW r \in Reading(q), NEW i \in Nat
  PROVE  StepOf(q, r, i) \in Reading(q)
<1>1. UnitOf(q, i) \in UnitsOf(q)
  BY DEF UnitsOf
<1>2. Append(r.text, UnitOf(q, i)) \in Seq(UnitsOf(q))
  BY <1>1 DEF Reading
<1>3. r.opens \cup {i + 1} \in SUBSET Nat /\ r.depth + 1 \in Int /\ r.depth - 1 \in Int
  BY DEF Reading
<1>4. QED
  BY <1>2, <1>3 DEF Reading, StepOf

LEMMA ReadOfIs ==
  ASSUME NEW q
  PROVE  /\ ReadOf(q) \in [Nat -> Reading(q)]
         /\ ReadOf(q)[0] = [text |-> <<>>, depth |-> 0, pair |-> FALSE, opens |-> {}]
         /\ \A n \in Nat : ReadOf(q)[n + 1] = StepOf(q, ReadOf(q)[n], n + 1)
<1> DEFINE a == [text |-> <<>>, depth |-> 0, pair |-> FALSE, opens |-> {}]
           d == [p \in Reading(q) \X Nat |-> StepOf(q, p[1], p[2] + 1)]
           Is(f) == f = [n \in Nat |-> IF n = 0 THEN a ELSE StepOf(q, f[n - 1], n)]
<1>1. a \in Reading(q)
  BY DEF Reading
<1>2. d \in [Reading(q) \X Nat -> Reading(q)]
  BY StepIs
<1> HIDE DEF a
<1>3. \E f : Is(f) /\ f \in [Nat -> Reading(q)]
  <2> HIDE DEF d
  <2>1. PICK f \in [Nat -> Reading(q)] :
          f[0] = a /\ \A n \in Nat : f[n + 1] = d[<<f[n], n>>]
    <3>1. PICK f : Recursion(f, Reading(q), a, d)
      BY <1>1, <1>2, NatRecursion
    <3>2. QED
      BY <3>1 DEF Recursion
  <2>2. \A n \in Nat : f[n + 1] = StepOf(q, f[n], n + 1)
    BY <2>1 DEF d
  <2>3. \A n \in Nat : n # 0 => f[n] = StepOf(q, f[n - 1], n)
    <3> SUFFICES ASSUME NEW n \in Nat, n # 0 PROVE f[n] = StepOf(q, f[n - 1], n)
      OBVIOUS
    <3>1. n - 1 \in Nat /\ (n - 1) + 1 = n
      OBVIOUS
    <3>2. f[(n - 1) + 1] = StepOf(q, f[n - 1], (n - 1) + 1)
      BY <2>2, <3>1
    <3>3. QED
      BY <3>1, <3>2
  <2>4. Is(f)
    BY <2>1, <2>3
  <2>5. QED
    BY <2>4
<1>4. Is(ReadOf(q))
  <2>1. ReadOf(q) = CHOOSE f : Is(f)
    BY DEF ReadOf, a
  <2>2. QED
    BY <1>3, <2>1
<1> DEFINE f == ReadOf(q)
<1> HIDE DEF f
<1>5. f[0] = a /\ \A n \in Nat : f[n + 1] = StepOf(q, f[n], n + 1)
  <2>1. Is(f)
    BY <1>4 DEF f
  <2>2. \A n \in Nat : n + 1 \in Nat /\ n + 1 # 0 /\ (n + 1) - 1 = n
    OBVIOUS
  <2>3. QED
    BY <2>1, <2>2
<1>6. Nat \subseteq {n \in Nat : f[n] \in Reading(q)}
  <2> DEFINE P == {n \in Nat : f[n] \in Reading(q)}
  <2>1. 0 \in P
    BY <1>1, <1>5
  <2>2. \A n \in Nat : n \in P => n + 1 \in P
    BY <1>5, StepIs
  <2> HIDE DEF P
  <2>3. Nat \subseteq P
    BY <2>1, <2>2, NatSetInduction
  <2>4. QED
    BY <2>3 DEF P
<1>7. f \in [Nat -> Reading(q)]
  BY <1>4, <1>6 DEF f
<1>8. QED
  BY <1>5, <1>7 DEF f, a

Marks      == {"{", "}", "U1"}
Opening(c) == c = "{"
Closes(c)  == c = "}"
Leads(c)   == c = "U1"

(* What a unit does to the reader inside a field ...                       *)
LEMMA InField ==
  ASSUME NEW q, NEW i \in Nat, NEW r, r = ReadOf(q)[i], NEW c, c = UnitOf(q, i + 1),
         r.depth # 0
  PROVE  /\ r \in Reading(q)
         /\ ~ r.pair /\ c \notin Marks => ReadOf(q)[i + 1] = r
         /\ ~ r.pair /\ Opening(c) =>
              ReadOf(q)[i + 1] = [r EXCEPT !.depth = @ + 1, !.opens = @ \cup {i + 2}]
         /\ ~ r.pair /\ Closes(c) => ReadOf(q)[i + 1] = [r EXCEPT !.depth = @ - 1]
         /\ ~ r.pair /\ Leads(c) => ReadOf(q)[i + 2] = r
<1>1. r \in Reading(q) /\ ReadOf(q)[i + 1] = StepOf(q, r, i + 1)
  BY ReadOfIs
<1>2. DOMAIN r = {"text", "depth", "pair", "opens"} /\ r.pair \in BOOLEAN
  BY <1>1 DEF Reading
<1>3. (i + 1) + 1 = i + 2
  OBVIOUS
<1>4. ASSUME ~ r.pair, c \notin Marks PROVE ReadOf(q)[i + 1] = r
  <2>1. StepOf(q, r, i + 1) = [r EXCEPT !.pair = CodePointLength(c) = 2]
    BY <1>4 DEF StepOf, Marks
  <2>2. (CodePointLength(c) = 2) = FALSE
    <3>1. c # "U1"
      BY <1>4 DEF Marks
    <3>2. CodePointLength(c) = 1
      BY <3>1 DEF CodePointLength
    <3>3. QED
      BY <3>2
  <2>3. [r EXCEPT !.pair = FALSE] = r
    BY <1>1, <1>2, <1>4 DEF Reading
  <2>4. QED
    BY <1>1, <2>1, <2>2, <2>3
<1>5. ASSUME ~ r.pair, Opening(c)
      PROVE  ReadOf(q)[i + 1] = [r EXCEPT !.depth = @ + 1, !.opens = @ \cup {i + 2}]
  BY <1>1, <1>3, <1>5 DEF StepOf, Opening
<1>6. ASSUME ~ r.pair, Closes(c) PROVE ReadOf(q)[i + 1] = [r EXCEPT !.depth = @ - 1]
  BY <1>1, <1>6 DEF StepOf, Closes
<1>7. ASSUME ~ r.pair, Leads(c) PROVE ReadOf(q)[i + 2] = r
  <2>1. ReadOf(q)[i + 1] = [r EXCEPT !.pair = CodePointLength(c) = 2]
    BY <1>1, <1>7 DEF StepOf, Leads
  <2>2. (CodePointLength(c) = 2) = TRUE
    BY <1>7 DEF CodePointLength, Leads
  <2>3. ReadOf(q)[i + 1] = [r EXCEPT !.pair = TRUE]
    BY <2>1, <2>2
  <2>4. ReadOf(q)[i + 2] = StepOf(q, ReadOf(q)[i + 1], i + 2)
    <3>1. i + 1 \in Nat
      OBVIOUS
    <3>2. QED
      BY <1>3, <3>1, ReadOfIs
  <2>5. StepOf(q, ReadOf(q)[i + 1], i + 2) = [ReadOf(q)[i + 1] EXCEPT !.pair = FALSE]
    BY <1>2, <2>3 DEF StepOf
  <2>6. [[r EXCEPT !.pair = TRUE] EXCEPT !.pair = FALSE] = r
    <3>1. r.pair = FALSE
      BY <1>2, <1>7
    <3>2. QED
      BY <1>1, <3>1 DEF Reading
  <2>7. QED
    BY <2>3, <2>4, <2>5, <2>6
<1>8. QED
  BY <1>1, <1>4, <1>5, <1>6, <1>7

(* ... and outside.                                                        *)
ReadTo(q, i, x, d, o) ==
  /\ ReadOf(q)[i].text = x /\ ReadOf(q)[i].depth = d
  /\ ~ ReadOf(q)[i].pair /\ ReadOf(q)[i].opens = o

LEMMA InText ==
  ASSUME NEW q, NEW i \in Nat, NEW r, r = ReadOf(q)[i], NEW c, c = UnitOf(q, i + 1),
         r.depth = 0, ~ r.pair
  PROVE  /\ r \in Reading(q)
         /\ ~ Opening(c) /\ ~ Closes(c) => ReadTo(q, i + 1, Append(r.text, c), 0, r.opens)
         /\ (Opening(c) \/ Closes(c)) /\ UnitOf(q, i + 2) = c =>
              ReadTo(q, i + 2, Append(r.text, c), 0, r.opens)
         /\ Opening(c) /\ ~ Opening(UnitOf(q, i + 2)) =>
              ReadTo(q, i + 1, r.text, 1, r.opens \cup {i + 2})
<1>1. r \in Reading(q) /\ ReadOf(q)[i + 1] = StepOf(q, r, i + 1)
  BY ReadOfIs
<1>2. (i + 1) + 1 = i + 2 /\ i + 1 \in Nat
  OBVIOUS
<1>3. DOMAIN r = {"text", "depth", "pair", "opens"} /\ r.pair = FALSE
  BY <1>1 DEF Reading
<1>4. ASSUME ~ Opening(c), ~ Closes(c) PROVE ReadOf(q)[i + 1] = [r EXCEPT !.text = Append(@, c)]
  BY <1>1, <1>4 DEF StepOf, Opening, Closes
<1>5. ASSUME Opening(c) \/ Closes(c), UnitOf(q, i + 2) = c
      PROVE  ReadOf(q)[i + 2] = [r EXCEPT !.text = Append(@, c)]
  <2>1. ReadOf(q)[i + 1] = [r EXCEPT !.text = Append(@, c), !.pair = TRUE]
    BY <1>1, <1>2, <1>5 DEF StepOf, Opening, Closes
  <2>2. ReadOf(q)[i + 2] = StepOf(q, ReadOf(q)[i + 1], i + 2)
    BY <1>2, ReadOfIs
  <2>3. StepOf(q, ReadOf(q)[i + 1], i + 2) = [ReadOf(q)[i + 1] EXCEPT !.pair = FALSE]
    BY <1>3, <2>1 DEF StepOf
  <2>4. QED
    <3>1. PICK x : x = Append(r.text, c)
      OBVIOUS
    <3>2. [[r EXCEPT !.text = x, !.pair = TRUE] EXCEPT !.pair = FALSE] = [r EXCEPT !.text = x]
      BY <1>1, <1>3 DEF Reading
    <3>3. QED
      BY <2>1, <2>2, <2>3, <3>1, <3>2
<1>6. ASSUME Opening(c), ~ Opening(UnitOf(q, i + 2))
      PROVE  ReadOf(q)[i + 1] = [r EXCEPT !.depth = 1, !.opens = @ \cup {i + 2}]
  <2>1. ReadOf(q)[i + 1] = [r EXCEPT !.depth = @ + 1, !.opens = @ \cup {i + 2}]
    BY <1>1, <1>2, <1>6 DEF StepOf, Opening, Closes
  <2>2. r.depth + 1 = 1
    OBVIOUS
  <2>3. QED
    BY <2>1, <2>2
<1>7. ~ Opening(c) /\ ~ Closes(c) => ReadTo(q, i + 1, Append(r.text, c), 0, r.opens)
  BY <1>1, <1>3, <1>4 DEF ReadTo, Reading
<1>8. (Opening(c) \/ Closes(c)) /\ UnitOf(q, i + 2) = c =>
        ReadTo(q, i + 2, Append(r.text, c), 0, r.opens)
  BY <1>1, <1>3, <1>5 DEF ReadTo, Reading
<1>9. Opening(c) /\ ~ Opening(UnitOf(q, i + 2)) =>
        ReadTo(q, i + 1, r.text, 1, r.opens \cup {i + 2})
  BY <1>1, <1>3, <1>6 DEF ReadTo, Reading
<1>10. QED
  BY <1>1, <1>7, <1>8, <1>9

(* Units that are no marks leave the reader of a field where it is.        *)
LEMMA PlainUnits ==
  ASSUME NEW q, NEW i \in Nat, NEW j \in Nat, i <= j,
         ReadOf(q)[i].depth # 0, ~ ReadOf(q)[i].pair,
         \A k \in i + 1 .. j : UnitOf(q, k) \notin Marks
  PROVE  ReadOf(q)[j] = ReadOf(q)[i]
<1> DEFINE P == {n \in Nat : i + n <= j => ReadOf(q)[i + n] = ReadOf(q)[i]}
<1>1. 0 \in P
  OBVIOUS
<1>2. ASSUME NEW n \in Nat, n \in P PROVE n + 1 \in P
  <2> SUFFICES ASSUME i + (n + 1) <= j PROVE ReadOf(q)[i + (n + 1)] = ReadOf(q)[i]
    OBVIOUS
  <2>1. PICK m \in Nat : m = i + n /\ m + 1 = i + (n + 1) /\ m + 1 \in i + 1 .. j
    OBVIOUS
  <2>2. ReadOf(q)[m] = ReadOf(q)[i]
    BY <1>2, <2>1
  <2>3. ReadOf(q)[m + 1] = ReadOf(q)[m]
    BY <2>1, <2>2, InField
  <2>4. QED
    BY <2>1, <2>2, <2>3
<1>3. Nat \subseteq P
  <2> HIDE DEF P
  <2>1. QED
    BY <1>1, <1>2, NatSetInduction
<1>4. PICK n \in Nat : i + n = j
  OBVIOUS
<1>5. QED
  BY <1>3, <1>4

-----------------------------------------------------------------------------
(* The functions of the parser                                             *)

FmtOK    == Len(fmt) \in Nat
Shape(t) == DOMAIN t = {"at", "next", "got", "id", "state", "ref", "sp", "err"}
Errors   == {"argument not found", "manual to automatic", "automatic to manual",
             "width/precision is not integer", "invalid format string",
             "number is too big", "invalid precision", "invalid format specifier",
             "numeric argument required", "invalid fill character",
             "unmatched '}' in format string", "missing '}'",
             "invalid format specifier for char", "unknown format specifier",
             "not integer", "out of range"}

LEMMA DigitsAre == Digits = {"0", "1", "2", "9"}
BY DEF Digits, DigitValue

LEMMA AlignsAre == DOMAIN AlignOf = {"<", ">", "^"}
BY DEF AlignOf

LEMMA PresentationsAre ==
  DOMAIN Presentation = {"d", "x", "X", "o", "b", "B", "e", "E", "f", "F", "g", "G",
                         "a", "A", "c", "s", "p", "q"}
BY DEF Presentation

LEMMA NoUnitIs ==
  /\ NoUnit \notin Marks /\ NoUnit \notin Digits /\ NoUnit \notin NameStarts
  /\ NoUnit \notin {"{", "}", ":", ".", "#", "L", "0", "+", " ", "-", "<", ">", "^"}
  /\ NoUnit \notin DOMAIN Presentation
BY DigitsAre, PresentationsAre, Zenon DEF NoUnit, Marks, NameStarts

LEMMA NoUnitCloses == ~ Opening(NoUnit) /\ ~ Closes(NoUnit)
BY NoUnitIs, Zenon DEF Opening, Closes, Marks

LEMMA UnitsIs == FmtOK => C(End) = NoUnit /\ \A i \in 1 .. Len(fmt) : C(i) = fmt[i]
<1> SUFFICES ASSUME FmtOK PROVE C(End) = NoUnit /\ \A i \in 1 .. Len(fmt) : C(i) = fmt[i]
  OBVIOUS
<1>1. End \notin 1 .. Len(fmt)
  BY DEF FmtOK, End
<1>2. QED
  BY <1>1, CIs DEF UnitOf

LEMMA SameError == ASSUME NEW t, NEW u, t.err = u.err PROVE Failed(t) <=> Failed(u)
BY Zenon DEF Failed

LEMMA FailMoves ==
  ASSUME NEW t, Shape(t), NEW why
  PROVE  Shape(Fail(t, why)) /\ Fail(t, why).at = t.at /\ Fail(t, why).next = t.next
<1>1. PICK e : Fail(t, why) = [t EXCEPT !.err = e]
  BY Zenon DEF Fail
<1>2. QED
  BY <1>1 DEF Shape

LEMMA FailIs ==
  ASSUME NEW t, Shape(t), NEW why \in Errors
  PROVE  /\ Failed(Fail(t, why)) /\ Shape(Fail(t, why))
         /\ Fail(t, why).at = t.at /\ Fail(t, why).next = t.next
<1>1. why # ""
  BY Zenon DEF Errors
<1>2. PICK e : e = (IF t.err = "" THEN why ELSE t.err) /\ Fail(t, why) = [t EXCEPT !.err = e]
  BY Zenon DEF Fail
<1>3. e # ""
  BY <1>1, <1>2, Zenon
<1>4. /\ [t EXCEPT !.err = e].err = e /\ Shape([t EXCEPT !.err = e])
      /\ [t EXCEPT !.err = e].at = t.at /\ [t EXCEPT !.err = e].next = t.next
  BY DEF Shape
<1>5. Failed(Fail(t, why))
  BY <1>2, <1>3, <1>4, Zenon DEF Failed
<1>6. QED
  BY <1>2, <1>4, <1>5

(* The run of units of a kind ends within the string.                      *)
LEMMA EndOfIs ==
  ASSUME FmtOK, NEW i \in 1 .. End, NEW units, NoUnit \notin units
  PROVE  /\ EndOf(i, units) \in i .. End /\ C(EndOf(i, units)) \notin units
         /\ \A k \in i .. EndOf(i, units) - 1 : C(k) \in units
<1> DEFINE ends == {j \in i .. End : C(j) \notin units}
           Is(j) == C(j) \notin units /\ \A k \in i .. j - 1 : C(k) \in units
<1>1. i \in Nat /\ End \in Nat /\ End \in i .. End
  BY DEF FmtOK, End
<1>2. ends \in SUBSET Nat /\ ends # {}
  BY <1>1, UnitsIs
<1>3. PICK j \in ends : \A k \in ends : j <= k
  <2> HIDE DEF ends
  <2>1. QED
    BY <1>2, LeastNatural
<1>4. \A k \in i .. j - 1 : C(k) \in units
  <2> TAKE k \in i .. j - 1
  <2>1. k \in i .. End /\ ~ (j <= k)
    BY <1>1
  <2>2. QED
    BY <1>3, <2>1
<1>5. j \in i .. End /\ Is(j)
  BY <1>4
<1>6. EndOf(i, units) = CHOOSE m \in i .. End : Is(m)
  BY DEF EndOf
<1>7. QED
  BY <1>5, <1>6

LEMMA NumberIs ==
  ASSUME NEW i \in Nat, NEW j \in Nat, i <= j, \A k \in i .. j - 1 : C(k) \in Digits
  PROVE  Number(i, j) \in Nat
<1> DEFINE digit(k)  == IF C(k) \in Digits THEN DigitValue[C(k)] ELSE 0
           Is(value) == value = [k \in i .. j |->
                          IF k = i THEN 0 ELSE value[k - 1] * 10 + DigitValue[C(k - 1)]]
           d == [p \in Nat \X Nat |-> p[1] * 10 + digit(i + p[2])]
<1>1. \A k : digit(k) \in Nat
  BY DigitsAre DEF DigitValue
<1> HIDE DEF digit
<1>2. d \in [Nat \X Nat -> Nat] /\ 0 \in Nat
  BY <1>1
<1>3. PICK f : Recursion(f, Nat, 0, d)
  <2> HIDE DEF d
  <2>1. QED
    BY <1>2, NatRecursion
<1>4. f \in [Nat -> Nat] /\ f[0] = 0 /\ \A n \in Nat : f[n + 1] = f[n] * 10 + digit(i + n)
  BY <1>3 DEF Recursion
<1>5. Is([k \in i .. j |-> f[k - i]])
  <2> DEFINE value == [k \in i .. j |-> f[k - i]]
  <2>1. ASSUME NEW k \in i .. j, k # i
        PROVE  f[k - i] = value[k - 1] * 10 + DigitValue[C(k - 1)]
    <3>1. PICK n \in Nat : n + 1 = k - i /\ k - 1 = i + n /\ (k - 1) - i = n
      BY <2>1
    <3>2. k - 1 \in i .. j - 1 /\ k - 1 \in i .. j
      BY <2>1
    <3>3. digit(k - 1) = DigitValue[C(k - 1)]
      BY <3>2 DEF digit
    <3>4. QED
      BY <1>4, <3>1, <3>2, <3>3
  <2>2. f[i - i] = 0
    BY <1>4
  <2>3. QED
    BY <2>1, <2>2
<1> DEFINE value == CHOOSE f1 : Is(f1)
<1>6. Is(value)
  BY <1>5
<1>7. Number(i, j) = value[j]
  BY DEF Number
<1> HIDE DEF value
<1>8. Nat \subseteq {n \in Nat : i + n <= j => value[i + n] \in Nat}
  <2> DEFINE P == {n \in Nat : i + n <= j => value[i + n] \in Nat}
  <2>1. 0 \in P
    <3>1. i \in i .. j /\ i + 0 = i
      OBVIOUS
    <3>2. value[i] = 0
      BY <1>6, <3>1
    <3>3. QED
      BY <3>1, <3>2
  <2>2. ASSUME NEW n \in Nat, n \in P PROVE n + 1 \in P
    <3> SUFFICES ASSUME i + (n + 1) <= j PROVE value[i + (n + 1)] \in Nat
      OBVIOUS
    <3>1. PICK k \in i .. j : k = i + (n + 1) /\ k # i /\ k - 1 = i + n /\ k - 1 \in i .. j - 1
      OBVIOUS
    <3>2. value[k] = value[k - 1] * 10 + DigitValue[C(k - 1)]
      BY <1>6, <3>1
    <3>3. DigitValue[C(k - 1)] \in Nat
      BY <1>1, <3>1 DEF digit
    <3>4. value[k - 1] \in Nat
      BY <2>2, <3>1
    <3>5. QED
      BY <3>1, <3>2, <3>3, <3>4
  <2> HIDE DEF P
  <2>3. Nat \subseteq P
    BY <2>1, <2>2, NatSetInduction
  <2>4. QED
    BY <2>3 DEF P
<1>9. PICK n \in Nat : i + n = j
  OBVIOUS
<1>10. QED
  BY <1>7, <1>8, <1>9

LEMMA NonnegativeIs ==
  ASSUME FmtOK, NEW i \in 1 .. End
  PROVE  ParseNonnegativeInt(i, IntMax) \in Nat
<1> DEFINE j == EndOf(i, Digits)
<1>1. j \in i .. End /\ \A k \in i .. j - 1 : C(k) \in Digits
  BY EndOfIs, NoUnitIs
<1>2. i \in Nat /\ j \in Nat /\ i <= j
  BY <1>1 DEF FmtOK, End
<1>3. Number(i, j) \in Nat
  <2> HIDE DEF j
  <2>1. QED
    BY <1>1, <1>2, NumberIs
<1>4. IntMax \in Nat
  <2>1. IntBits - 1 \in Nat
    BY ParseAssumption
  <2>2. PICK x \in Nat \ {0} : x = 2 ^ (IntBits - 1)
    BY <2>1, PowerOfTwo
  <2>3. QED
    BY <2>2 DEF IntMax
<1>5. QED
  BY <1>3, <1>4 DEF ParseNonnegativeInt

LEMMA CheckArgIdIs ==
  ASSUME h = "run", NEW t, Shape(t), t.next \in Int, NEW id, NEW u, u = CheckArgId(t, id)
  PROVE  /\ Shape(u) /\ u.at = t.at
         /\ ~ Failed(u) => t.next <= 0 /\ u.next = -1 /\ u.got = id
<1>1. CASE t.next > 0
  <2>1. u = Fail(t, "automatic to manual")
    BY <1>1 DEF CheckArgId
  <2>2. "automatic to manual" \in Errors
    BY DEF Errors
  <2>3. QED
    BY <2>1, <2>2, FailIs
<1>2. CASE ~ (t.next > 0)
  <2>1. u = [t EXCEPT !.got = id, !.next = -1]
    BY <1>2 DEF CheckArgId, CheckExists
  <2>2. QED
    BY <1>2, <2>1 DEF Shape
<1>3. QED
  BY <1>1, <1>2

LEMMA DynamicIndexIs ==
  ASSUME h = "run", NEW t, Shape(t), t.next \in Int, NEW id, NEW u, u = DynamicIndex(t, id)
  PROVE  /\ Shape(u) /\ u.at = t.at
         /\ ~ Failed(u) => t.next <= 0 /\ u.next = -1
<1>1. PICK v : v = CheckArgId(t, id)
  OBVIOUS
<1>2. u = [v EXCEPT !.ref = <<"index", id>>]
  BY <1>1 DEF DynamicIndex, DynamicRef
<1>3. Shape(v) /\ v.at = t.at /\ (~ Failed(v) => t.next <= 0 /\ v.next = -1)
  BY <1>1, CheckArgIdIs
<1>4. u.err = v.err /\ u.next = v.next /\ u.at = v.at /\ Shape(u)
  BY <1>2, <1>3 DEF Shape
<1>5. QED
  BY <1>3, <1>4, SameError

LEMMA NextArgIdIs ==
  ASSUME h = "run", NEW t, Shape(t), t.next \in Int, NEW u, u = NextArgId(t)
  PROVE  /\ Shape(u) /\ u.at = t.at
         /\ ~ Failed(u) => t.next >= 0 /\ u.next = t.next + 1 /\ u.got \in Nat
<1>1. CASE t.next < 0
  <2>1. u = Fail(t, "manual to automatic")
    BY <1>1 DEF NextArgId
  <2>2. "manual to automatic" \in Errors
    BY DEF Errors
  <2>3. QED
    BY <2>1, <2>2, FailIs
<1>2. CASE ~ (t.next < 0)
  <2>1. u = [t EXCEPT !.got = t.next, !.next = @ + 1]
    BY <1>2 DEF NextArgId, CheckExists
  <2>2. QED
    BY <1>2, <2>1 DEF Shape
<1>3. QED
  BY <1>1, <1>2

LEMMA FieldNameIs ==
  ASSUME h = "run", Len(args) \in Nat, NEW t, Shape(t), NEW name, NEW u, u = FieldName(t, name)
  PROVE  /\ Shape(u) /\ u.at = t.at
         /\ ~ Failed(u) => u.next = -1 /\ u.got \in Nat
<1>1. CASE ArgNamed(name) # {}
  <2>1. PICK g : g = CHOOSE i \in ArgNamed(name) : \A j \in ArgNamed(name) : i <= j
    OBVIOUS
  <2>2. u = [t EXCEPT !.next = -1, !.got = g]
    BY <1>1, <2>1 DEF FieldName
  <2>3. ArgNamed(name) \in SUBSET Nat
    BY DEF ArgNamed
  <2>4. \E i \in ArgNamed(name) : \A j \in ArgNamed(name) : i <= j
    BY <1>1, <2>3, LeastNatural
  <2>5. g \in Nat
    BY <2>1, <2>3, <2>4
  <2>6. QED
    BY <2>2, <2>5 DEF Shape
<1>2. CASE ArgNamed(name) = {}
  <2>1. u = Fail(t, "argument not found")
    BY <1>2 DEF FieldName
  <2>2. "argument not found" \in Errors
    BY DEF Errors
  <2>3. QED
    BY <2>1, <2>2, FailIs
<1>3. QED
  BY <1>1, <1>2

(* An argument id that is accepted: what it consists of, and what it does  *)
(* to the numbering.                                                       *)
LEMMA ParseArgIdIs ==
  ASSUME h = "run", FmtOK, Len(args) \in Nat, NEW t, Shape(t), t.at \in 1 .. End,
         t.next \in Int, NEW dynamic \in BOOLEAN, NEW u, u = ParseArgId(t, dynamic)
  PROVE  /\ Shape(u)
         /\ ~ Failed(u) =>
              /\ u.at \in t.at .. End /\ \A k \in t.at .. u.at - 1 : C(k) \notin Marks
              /\ \/ C(t.at) \in Digits /\ t.next <= 0
                 \/ C(t.at) \in NameStarts
              /\ u.next = -1 /\ (~ dynamic => u.got \in Nat)
<1> DEFINE c     == C(t.at)
           units == IF c \in Digits THEN Digits ELSE NameStarts \cup Digits
           j     == IF c = "0" THEN t.at + 1 ELSE EndOf(t.at, units)
           v     == [t EXCEPT !.at = j]
           id    == IF c = "0" THEN 0 ELSE ParseNonnegativeInt(t.at, IntMax)
           name  == SubSeq(fmt, t.at, j - 1)
<1>1. "invalid format string" \in Errors
  BY DEF Errors
<1>2. NoUnit \notin units /\ \A x \in units : x \notin Marks
  BY NoUnitIs, DigitsAre DEF NameStarts, Marks
<1>3. t.at \in Nat /\ End \in Nat /\ t.at <= End
  BY DEF FmtOK, End
<1>4. c \in Digits \cup NameStarts => t.at # End
  BY UnitsIs, NoUnitIs
<1>5. ASSUME c \in Digits \cup NameStarts
      PROVE  j \in t.at .. End /\ \A k \in t.at .. j - 1 : C(k) \notin Marks
  <2>1. CASE c = "0"
    <3>1. j = t.at + 1 /\ \A k \in t.at .. j - 1 : k = t.at
      BY <1>3, <2>1
    <3>2. c \notin Marks
      BY <2>1 DEF Marks
    <3>3. j \in t.at .. End
      BY <1>3, <1>4, <1>5, <3>1
    <3>4. QED
      BY <3>1, <3>2, <3>3
  <2>2. CASE c # "0"
    <3>1. j = EndOf(t.at, units)
      BY <2>2
    <3>2. j \in t.at .. End /\ \A k \in t.at .. j - 1 : C(k) \in units
      <4> HIDE DEF units, j
      <4>1. QED
        BY <1>2, <3>1, EndOfIs
    <3>3. QED
      BY <1>2, <3>2
  <2>3. QED
    BY <2>1, <2>2
<1>6. u = CASE c \in Digits ->
                 IF C(j) \notin {"}", ":"} THEN Fail(v, "invalid format string")
                 ELSE IF dynamic THEN DynamicIndex(v, id) ELSE CheckArgId(v, id)
            [] c \in NameStarts ->
                 IF dynamic THEN DynamicName(v, name) ELSE FieldName(v, name)
            [] OTHER -> Fail(t, "invalid format string")
  BY Zenon DEF ParseArgId
<1> HIDE DEF units, j
<1>7. Shape(v) /\ v.at = j /\ v.next = t.next
  BY DEF Shape
<1>8. id \in Nat
  BY NonnegativeIs
<1> HIDE DEF v, id, name
<1>9. CASE c \in Digits
  <2>1. CASE C(j) \notin {"}", ":"}
    <3>1. u = Fail(v, "invalid format string")
      BY <1>6, <1>9, <2>1, DigitsAre DEF NameStarts
    <3>2. QED
      BY <1>1, <1>7, <3>1, FailIs
  <2>2. CASE C(j) \in {"}", ":"}
    <3>1. u = IF dynamic THEN DynamicIndex(v, id) ELSE CheckArgId(v, id)
      BY <1>6, <1>9, <2>2, DigitsAre DEF NameStarts
    <3>2. CASE dynamic
      <4>1. u = DynamicIndex(v, id)
        BY <3>1, <3>2
      <4>2. Shape(u) /\ u.at = j /\ (~ Failed(u) => t.next <= 0 /\ u.next = -1)
        BY <1>7, <4>1, DynamicIndexIs
      <4>3. QED
        BY <1>5, <1>9, <3>2, <4>2
    <3>3. CASE ~ dynamic
      <4>1. u = CheckArgId(v, id)
        BY <3>1, <3>3
      <4>2. Shape(u) /\ u.at = j /\ (~ Failed(u) => t.next <= 0 /\ u.next = -1 /\ u.got = id)
        BY <1>7, <4>1, CheckArgIdIs
      <4>3. QED
        BY <1>5, <1>8, <1>9, <4>2
    <3>4. QED
      BY <3>2, <3>3
  <2>3. QED
    BY <2>1, <2>2
<1>10. CASE c \notin Digits /\ c \in NameStarts
  <2>1. u = IF dynamic THEN DynamicName(v, name) ELSE FieldName(v, name)
    BY <1>6, <1>10
  <2>2. CASE dynamic
    <3>1. u = [v EXCEPT !.ref = <<"name", name>>, !.next = -1]
      BY <2>1, <2>2 DEF DynamicName
    <3>2. Shape(u) /\ u.at = j /\ u.next = -1
      BY <1>7, <3>1 DEF Shape
    <3>3. QED
      BY <1>5, <1>10, <2>2, <3>2
  <2>3. CASE ~ dynamic
    <3>1. u = FieldName(v, name)
      BY <2>1, <2>3
    <3>2. Shape(u) /\ u.at = j /\ (~ Failed(u) => u.next = -1 /\ u.got \in Nat)
      BY <1>7, <3>1, FieldNameIs
    <3>3. QED
      BY <1>5, <1>10, <3>2
  <2>4. QED
    BY <2>2, <2>3
<1>11. CASE c \notin Digits /\ c \notin NameStarts
  <2>1. u = Fail(t, "invalid format string")
    BY <1>11 DEF ParseArgId
  <2>2. QED
    BY <1>1, <2>1, FailIs
<1>12. QED
  BY <1>9, <1>10, <1>11

-----------------------------------------------------------------------------
(* The numbering: opened are the places where a field or a reference       *)
(* begins, n is next_arg_id_ after they were numbered.                     *)

Unnumbered(c) == c \in {"}", ":"}
Last(q) == Len(q) + 1

Numbered(q, opened, n) ==
  /\ opened \in SUBSET Nat /\ n \in Int
  /\ n >= 0 => \A i \in opened : Unnumbered(UnitOf(q, i))
  /\ n = 0 => opened = {}
  /\ n < 0 => \A i \in opened : Unnumbered(UnitOf(q, i)) =>
                \E k \in opened : i < k /\ UnitOf(q, k) \in NameStarts
  /\ \A i, j \in opened :
       /\ i < j /\ Unnumbered(UnitOf(q, j)) => Unnumbered(UnitOf(q, i))
       /\ i < j /\ Unnumbered(UnitOf(q, i)) /\ UnitOf(q, j) \in Digits =>
            \E k \in opened : i < k /\ k < j /\ UnitOf(q, k) \in NameStarts

(* What next_arg_id_ becomes when a field begins at p.                     *)
Numbers(q, p, n, m) ==
  \/ Unnumbered(UnitOf(q, p)) /\ n >= 0 /\ m = n + 1
  \/ UnitOf(q, p) \in Digits /\ n <= 0 /\ m = -1
  \/ UnitOf(q, p) \in NameStarts /\ m = -1

LEMMA NumberedMore ==
  ASSUME NEW q, NEW opened, NEW n, Numbered(q, opened, n), NEW p \in Nat,
         \A i \in opened : i < p, NEW m, Numbers(q, p, n, m)
  PROVE  Numbered(q, opened \cup {p}, m)
<1> DEFINE more == opened \cup {p}
<1>1. /\ opened \in SUBSET Nat /\ n \in Int /\ more \in SUBSET Nat
      /\ \A i \in more : i \in Nat /\ i <= p
      /\ \A i \in more : i < p => i \in opened
      /\ \A i, j \in more : i < j => i \in opened /\ (j \in opened \/ j = p)
  BY DEF Numbered
<1>2. /\ n >= 0 => \A i \in opened : Unnumbered(UnitOf(q, i))
      /\ n = 0 => opened = {}
      /\ n < 0 => \A i \in opened : Unnumbered(UnitOf(q, i)) =>
                    \E k \in opened : i < k /\ UnitOf(q, k) \in NameStarts
      /\ \A i, j \in opened : i < j /\ Unnumbered(UnitOf(q, j)) => Unnumbered(UnitOf(q, i))
      /\ \A i, j \in opened : i < j /\ Unnumbered(UnitOf(q, i)) /\ UnitOf(q, j) \in Digits =>
            \E k \in opened : i < k /\ k < j /\ UnitOf(q, k) \in NameStarts
  BY DEF Numbered
<1>3. (Unnumbered(UnitOf(q, p)) => UnitOf(q, p) \notin Digits /\ UnitOf(q, p) \notin NameStarts)
      /\ (UnitOf(q, p) \in Digits => UnitOf(q, p) \notin NameStarts)
  BY DigitsAre DEF Unnumbered, NameStarts
<1>4. m \in Int /\ (m >= 0 => n >= 0 /\ Unnumbered(UnitOf(q, p))) /\ m # 0
      /\ (m < 0 => ~ Unnumbered(UnitOf(q, p)))
  BY <1>1, <1>3 DEF Numbers
<1>5. m >= 0 => \A i \in more : Unnumbered(UnitOf(q, i))
  BY <1>2, <1>4
<1>6. m < 0 => \A i \in more : Unnumbered(UnitOf(q, i)) =>
                 \E k \in more : i < k /\ UnitOf(q, k) \in NameStarts
  <2> SUFFICES ASSUME m < 0, NEW i \in more, Unnumbered(UnitOf(q, i))
               PROVE  \E k \in more : i < k /\ UnitOf(q, k) \in NameStarts
    OBVIOUS
  <2>1. i \in opened /\ i < p
    BY <1>4
  <2>2. CASE UnitOf(q, p) \in NameStarts
    BY <2>1, <2>2
  <2>3. CASE UnitOf(q, p) \in Digits
    <3>1. n < 0
      BY <1>1, <1>2, <1>3, <2>1, <2>3 DEF Numbers
    <3>2. QED
      BY <1>2, <2>1, <3>1
  <2>4. QED
    BY <1>4, <2>2, <2>3 DEF Numbers
<1>7. ASSUME NEW i \in more, NEW j \in more, i < j, Unnumbered(UnitOf(q, j))
      PROVE  Unnumbered(UnitOf(q, i))
  <2>1. CASE j \in opened
    BY <1>1, <1>2, <1>7, <2>1
  <2>2. CASE j = p
    BY <1>1, <1>2, <1>3, <1>7, <2>2 DEF Numbers
  <2>3. QED
    BY <2>1, <2>2
<1>8. ASSUME NEW i \in more, NEW j \in more, i < j, Unnumbered(UnitOf(q, i)), UnitOf(q, j) \in Digits
      PROVE  \E k \in more : i < k /\ k < j /\ UnitOf(q, k) \in NameStarts
  <2>1. i \in opened
    BY <1>1, <1>8
  <2>2. CASE j \in opened
    BY <1>2, <1>8, <2>1, <2>2
  <2>3. CASE j = p
    <3>1. n < 0
      BY <1>1, <1>2, <1>3, <1>8, <2>1, <2>3 DEF Numbers
    <3>2. PICK k \in opened : i < k /\ UnitOf(q, k) \in NameStarts
      BY <1>2, <1>8, <2>1, <3>1
    <3>3. QED
      BY <2>3, <3>2
  <2>4. QED
    BY <2>2, <2>3
<1> HIDE DEF more
<1>9. Numbered(q, more, m)
  BY <1>1, <1>4, <1>5, <1>6, <1>7, <1>8 DEF Numbered
<1>10. QED
  BY <1>9 DEF more

(* Where the parser stands inside a field, and before its number is known. *)
FieldState(q, i, n, w) ==
  /\ i \in 1 .. Last(q)
  /\ ReadOf(q)[i - 1].depth = 1 /\ ~ ReadOf(q)[i - 1].pair
  /\ ReadOf(q)[i - 1].text = w /\ ReadOf(q)[i - 1].opens \subseteq 1 .. i
  /\ Numbered(q, ReadOf(q)[i - 1].opens, n)

LEMMA PlainField ==
  ASSUME NEW q, Len(q) \in Nat, NEW i \in Nat, NEW n, NEW w, FieldState(q, i, n, w),
         NEW j \in i .. Last(q), \A k \in i .. j - 1 : UnitOf(q, k) \notin Marks
  PROVE  FieldState(q, j, n, w)
<1>1. PICK a \in Nat, b \in Nat : a = i - 1 /\ b = j - 1 /\ a <= b /\ b + 1 \in 1 .. Last(q)
  BY DEF FieldState
<1>2. \A k \in a + 1 .. b : UnitOf(q, k) \notin Marks
  BY <1>1 DEF FieldState
<1>3. ReadOf(q)[a].depth # 0 /\ ~ ReadOf(q)[a].pair
  BY <1>1 DEF FieldState
<1>4. ReadOf(q)[b] = ReadOf(q)[a]
  BY <1>1, <1>2, <1>3, PlainUnits
<1>5. \A x \in 1 .. i : x \in 1 .. j
  BY <1>1
<1>6. QED
  BY <1>1, <1>4, <1>5 DEF FieldState

(* A reference: a field inside the field.                                  *)
LEMMA NestedField ==
  ASSUME NEW q, Len(q) \in Nat, NEW i \in Nat, NEW n, NEW w, FieldState(q, i, n, w), Opening(UnitOf(q, i)),
         NEW j \in i + 1 .. Last(q), \A k \in i + 1 .. j - 1 : UnitOf(q, k) \notin Marks, Closes(UnitOf(q, j)),
         NEW p \in Nat, p = i + 1, NEW m, Numbers(q, p, n, m)
  PROVE  FieldState(q, j + 1, m, w)
<1> DEFINE r(k) == ReadOf(q)[k]
<1>1. PICK a \in Nat, b \in Nat : a = i - 1 /\ b = j - 1 /\ a + 1 <= b /\ b + 1 < Last(q)
  <2>1. j # Last(q)
    BY NoUnitCloses DEF UnitOf, Last
  <2>2. QED
    BY <2>1 DEF FieldState, Last
<1>2. r(a).depth = 1 /\ ~ r(a).pair /\ r(a).text = w /\ r(a).opens \subseteq 1 .. i
      /\ Numbered(q, r(a).opens, n) /\ r(a) \in Reading(q)
  BY <1>1, ReadOfIs DEF FieldState
<1>3. r(a + 1) = [r(a) EXCEPT !.depth = 2, !.opens = @ \cup {p}]
  <2>1. Opening(UnitOf(q, a + 1))
    BY <1>1
  <2>2. a + 2 = p /\ r(a).depth # 0
    BY <1>1, <1>2
  <2>4. r(a + 1) = [r(a) EXCEPT !.depth = @ + 1, !.opens = @ \cup {a + 2}]
    BY <1>2, <2>1, <2>2, InField
  <2>3. r(a).depth + 1 = 2
    BY <1>2
  <2>5. QED
    BY <2>2, <2>3, <2>4
<1>4. /\ r(a + 1).depth = 2 /\ ~ r(a + 1).pair /\ r(a + 1).text = w
      /\ r(a + 1).opens = r(a).opens \cup {p}
  BY <1>1, <1>2, <1>3 DEF Reading
<1>5. r(b) = r(a + 1)
  <2>1. \A k \in (a + 1) + 1 .. b : UnitOf(q, k) \notin Marks
    BY <1>1
  <2>2. r(a + 1).depth # 0 /\ a + 1 \in Nat
    BY <1>4
  <2> HIDE DEF r
  <2>3. QED
    BY <1>1, <1>4, <2>1, <2>2, PlainUnits DEF r
<1>6. r(b + 1) = [r(b) EXCEPT !.depth = @ - 1] /\ r(b) \in Reading(q)
  <2>1. Closes(UnitOf(q, b + 1))
    BY <1>1
  <2>2. r(b).depth # 0 /\ ~ r(b).pair
    BY <1>4, <1>5
  <2>3. QED
    BY <2>1, <2>2, InField
<1>7. /\ r(b + 1).depth = 1 /\ ~ r(b + 1).pair /\ r(b + 1).text = w
      /\ r(b + 1).opens = r(a).opens \cup {p}
  BY <1>4, <1>5, <1>6 DEF Reading
<1>8. Numbered(q, r(a).opens \cup {p}, m)
  <2>1. \A x \in r(a).opens : x < p
    BY <1>1, <1>2
  <2>2. QED
    BY <1>2, <2>1, NumberedMore
<1>9. r(a).opens \cup {p} \subseteq 1 .. j + 1 /\ j + 1 \in 1 .. Last(q) /\ (j + 1) - 1 = b + 1
  BY <1>1, <1>2 DEF Last
<1>10. QED
  BY <1>7, <1>8, <1>9 DEF FieldState

-----------------------------------------------------------------------------
(* The invariant of the formatter's parse: what it has done so far is what *)
(* the reader has read so far.                                             *)

(* Between the fields, with text pending from m.                           *)
TextState(q, m, i, n, w) ==
  /\ i \in 1 .. Last(q) /\ m \in 1 .. i
  /\ ReadOf(q)[i - 1].depth = 0 /\ ~ ReadOf(q)[i - 1].pair
  /\ ReadOf(q)[i - 1].text = w \o SubSeq(q, m, i - 1)
  /\ ReadOf(q)[i - 1].opens \subseteq 1 .. i
  /\ Numbered(q, ReadOf(q)[i - 1].opens, n)

(* At the beginning of a field, which has no number yet.                   *)
BeginState(q, i, n, w) ==
  /\ i \in 1 .. Last(q)
  /\ ReadOf(q)[i - 1].depth = 1 /\ ~ ReadOf(q)[i - 1].pair
  /\ ReadOf(q)[i - 1].text = w /\ ReadOf(q)[i - 1].opens \subseteq 1 .. i
  /\ i \in ReadOf(q)[i - 1].opens
  /\ Numbered(q, ReadOf(q)[i - 1].opens \ {i}, n)

EndState(q, n, w) ==
  ReadOf(q)[Len(q)].text = w /\ Numbered(q, ReadOf(q)[Len(q)].opens, n)

InAField == {"idEnd", "specs", "part", "close"}
RunState(q, m, i, t, w) ==
  /\ Shape(t) /\ w \in Seq(STRING)
  /\ m = "text" => TextState(q, i, t.at, t.next, w)
  /\ m = "field" => BeginState(q, t.at, t.next, w)
  /\ m \in InAField => FieldState(q, t.at, t.next, w)
  /\ m = "idEnd" => t.id \in Nat
  /\ m = "end" => EndState(q, t.next, w)
ParseInv ==
  /\ fmt \in Seq(STRING) /\ Len(args) \in Nat
  /\ h = "run" /\ ~ Failed(s) => RunState(fmt, mode, text, s, out)

-----------------------------------------------------------------------------
(* The functions of parse_format_specs, one by one: what they return after *)
(* a field read so far, unless they fail.                                  *)

Stays(t, w) == Shape(t) /\ (~ Failed(t) => FieldState(fmt, t.at, t.next, w))

LEMMA FailStays ==
  ASSUME NEW t, Shape(t), NEW w, NEW why \in Errors
  PROVE  Stays(Fail(t, why), w)
BY FailIs, Zenon DEF Stays

LEMMA PlainStep ==
  ASSUME FmtOK, NEW i \in Nat, NEW n, NEW w, FieldState(fmt, i, n, w), i # End,
         C(i) \notin Marks
  PROVE  FieldState(fmt, i + 1, n, w)
<1>1. i + 1 \in i .. Last(fmt)
  BY DEF FmtOK, End, Last, FieldState
<1>2. \A k \in i .. (i + 1) - 1 : UnitOf(fmt, k) \notin Marks
  <2>1. \A k \in i .. (i + 1) - 1 : k = i
    OBVIOUS
  <2>2. QED
    BY <2>1, CIs
<1>3. QED
  BY <1>1, <1>2, PlainField DEF FmtOK

Entered(t, u) == \/ u = Fail(t, "invalid format specifier")
                 \/ \E n : u = [t EXCEPT !.state = n]

LEMMA EnterStateIs ==
  ASSUME NEW t, Shape(t), NEW u, Entered(t, u)
  PROVE  Shape(u) /\ u.at = t.at /\ u.next = t.next
<1>1. CASE u = Fail(t, "invalid format specifier")
  <2>1. "invalid format specifier" \in Errors
    BY DEF Errors
  <2>2. QED
    BY <1>1, <2>1, FailIs
<1>2. CASE \E n : u = [t EXCEPT !.state = n]
  BY <1>2 DEF Shape
<1>3. QED
  BY <1>1, <1>2 DEF Entered

LEMMA SkipStays ==
  ASSUME FmtOK, NEW t, Shape(t), NEW i \in Nat, t.at = i, NEW w,
         FieldState(fmt, i, t.next, w), i # End, C(i) \notin Marks
  PROVE  Stays(Skip(t), w)
<1>1. FieldState(fmt, i + 1, t.next, w)
  BY PlainStep
<1>2. Shape(Skip(t)) /\ Skip(t).at = i + 1 /\ Skip(t).next = t.next
  BY DEF Skip, Shape
<1>3. QED
  BY <1>1, <1>2 DEF Stays

LEMMA DynamicSpecIs ==
  ASSUME FmtOK, h = "run", Len(args) \in Nat, NEW t, Shape(t), NEW i \in Nat, t.at = i, NEW w,
         FieldState(fmt, i, t.next, w), NEW u, u = ParseDynamicSpec(t)
  PROVE  Stays(u, w)
<1> DEFINE v  == ParseNonnegativeInt(t.at, -1)
           t1 == [t EXCEPT !.at = @ + 1]
           u1 == NextArgId(t1)
           t2 == CASE C(t1.at) = ""           -> t1
                   [] C(t1.at) \in {"}", ":"} -> IF Failed(u1) THEN u1
                                                 ELSE DynamicRef(u1, u1.got)
                   [] OTHER -> ParseArgId(t1, TRUE)
<1>1. /\ C(i) \in Digits =>
           u = IF v = -1 THEN Fail(t, "number is too big")
               ELSE [t EXCEPT !.at = EndOf(i, Digits), !.ref = <<"value", v>>]
      /\ C(i) \notin Digits /\ ~ Opening(C(i)) => u = Fail(t, "invalid format string")
      /\ C(i) \notin Digits /\ Opening(C(i)) =>
           u = IF Failed(t2) THEN t2
               ELSE IF Closes(C(t2.at)) THEN [t2 EXCEPT !.at = @ + 1]
               ELSE Fail(t2, "invalid format string")
  BY Zenon DEF ParseDynamicSpec, Opening, Closes
<1>2. t1.at = i + 1 /\ Shape(t1) /\ t1.next = t.next
  BY DEF Shape
<1> HIDE DEF t1, u1
<1>3. /\ C(i + 1) = NoUnit => t2 = t1
      /\ Unnumbered(C(i + 1)) => t2 = IF Failed(u1) THEN u1 ELSE DynamicRef(u1, u1.got)
      /\ C(i + 1) # NoUnit /\ ~ Unnumbered(C(i + 1)) => t2 = ParseArgId(t1, TRUE)
  <2>1. CASE C(i + 1) = ""
    BY <1>2, <2>1, Zenon DEF NoUnit, Unnumbered
  <2>2. CASE C(i + 1) \in {"}", ":"}
    BY <1>2, <2>2, Zenon DEF NoUnit, Unnumbered
  <2>3. CASE C(i + 1) # "" /\ C(i + 1) \notin {"}", ":"}
    BY <1>2, <2>3, Zenon DEF NoUnit, Unnumbered
  <2> HIDE DEF t2
  <2>4. QED
    BY <2>1, <2>2, <2>3, Zenon
<1> HIDE DEF t2
<1>4. i \in 1 .. End /\ End \in Nat /\ i \in Nat /\ t.next \in Int
  BY DEF FieldState, FmtOK, End, Last, Numbered
<1>5. CASE C(i) \in Digits
  <2>1. CASE v = -1
    <3>1. u = Fail(t, "number is too big")
      BY <1>1, <1>5, <2>1
    <3>2. "number is too big" \in Errors
      BY DEF Errors
    <3>3. QED
      BY <3>1, <3>2, FailStays
  <2>2. CASE v # -1
    <3>1. PICK j : j = EndOf(i, Digits)
      OBVIOUS
    <3>2. u = [t EXCEPT !.at = j, !.ref = <<"value", v>>]
      BY <1>1, <1>5, <2>2, <3>1
    <3> HIDE DEF v
    <3>3. j \in i .. End /\ \A k \in i .. j - 1 : C(k) \in Digits
      BY <1>4, <3>1, EndOfIs, NoUnitIs
    <3>4. \A k \in i .. j - 1 : UnitOf(fmt, k) \notin Marks
      BY <3>3, CIs, DigitsAre DEF Marks
    <3>5. FieldState(fmt, j, t.next, w)
      BY <3>3, <3>4, PlainField DEF FmtOK, End, Last
    <3>6. Shape(u) /\ u.at = j /\ u.next = t.next
      BY <3>2 DEF Shape
    <3>7. QED
      BY <3>5, <3>6 DEF Stays
  <2>3. QED
    BY <2>1, <2>2
<1>6. "invalid format string" \in Errors
  BY DEF Errors
<1>7. CASE C(i) \notin Digits /\ ~ Opening(C(i))
  BY <1>1, <1>6, <1>7, FailStays
<1>8. CASE C(i) \notin Digits /\ Opening(C(i))
  <2>1. u = IF Failed(t2) THEN t2
            ELSE IF Closes(C(t2.at)) THEN [t2 EXCEPT !.at = @ + 1]
            ELSE Fail(t2, "invalid format string")
    BY <1>1, <1>8
  <2>0. i # End /\ i + 1 \in 1 .. End
    <3>1. i # End
      BY <1>8, UnitsIs, NoUnitCloses
    <3>2. QED
      BY <1>4, <3>1
  <2>2. Shape(t2) /\ (~ Failed(t2) /\ Closes(C(t2.at)) =>
          /\ t2.at \in i + 1 .. End /\ Numbers(fmt, i + 1, t.next, t2.next)
          /\ \A k \in i + 1 .. t2.at - 1 : C(k) \notin Marks)
    <3>1. CASE C(i + 1) = NoUnit
      BY <1>2, <1>3, <3>1, NoUnitCloses
    <3>2. CASE Unnumbered(C(i + 1))
      <4>1. t2 = IF Failed(u1) THEN u1 ELSE DynamicRef(u1, u1.got)
        BY <1>3, <3>2
      <4>2. /\ Shape(u1) /\ u1.at = i + 1
            /\ ~ Failed(u1) => t.next >= 0 /\ u1.next = t.next + 1
        BY <1>2, <1>4, NextArgIdIs DEF u1
      <4>3. CASE Failed(u1)
        BY <4>1, <4>2, <4>3, Zenon
      <4>4. CASE ~ Failed(u1)
        <5>1. t2 = [u1 EXCEPT !.ref = <<"index", u1.got>>]
          BY <4>1, <4>4 DEF DynamicRef
        <5>2. Shape(t2) /\ t2.at = i + 1 /\ t2.next = t.next + 1 /\ t.next >= 0
          BY <4>2, <4>4, <5>1 DEF Shape
        <5>3. Numbers(fmt, i + 1, t.next, t2.next)
          BY <3>2, <5>2, CIs DEF Numbers
        <5>4. QED
          BY <1>4, <2>0, <5>2, <5>3
      <4>5. QED
        BY <4>3, <4>4
    <3>3. CASE C(i + 1) # NoUnit /\ ~ Unnumbered(C(i + 1))
      <4>1. t2 = ParseArgId(t1, TRUE)
        BY <1>3, <3>3
      <4>2. t1.at \in 1 .. End /\ TRUE \in BOOLEAN
        BY <1>2, <1>4, <2>0
      <4>3. /\ Shape(t2)
            /\ ~ Failed(t2) =>
                 /\ t2.at \in i + 1 .. End /\ \A k \in i + 1 .. t2.at - 1 : C(k) \notin Marks
                 /\ \/ C(i + 1) \in Digits /\ t.next <= 0
                    \/ C(i + 1) \in NameStarts
                 /\ t2.next = -1
        BY <1>2, <1>4, <4>1, <4>2, ParseArgIdIs
      <4>4. ~ Failed(t2) => Numbers(fmt, i + 1, t.next, t2.next)
        BY <4>3, CIs DEF Numbers
      <4>5. QED
        BY <4>3, <4>4
    <3>4. QED
      BY <3>1, <3>2, <3>3
  <2>3. ASSUME ~ Failed(t2), Closes(C(t2.at))
        PROVE  FieldState(fmt, t2.at + 1, t2.next, w)
    <3>1. PICK j \in Nat, p \in Nat : j = t2.at /\ p = i + 1
      BY <1>4, <2>2, <2>3
    <3>2. /\ j \in i + 1 .. Last(fmt) /\ Numbers(fmt, p, t.next, t2.next)
          /\ \A k \in i + 1 .. j - 1 : UnitOf(fmt, k) \notin Marks
      BY <2>2, <2>3, <3>1, CIs DEF End, Last
    <3>3. Opening(UnitOf(fmt, i)) /\ Closes(UnitOf(fmt, j))
      BY <1>8, <2>3, <3>1, CIs
    <3>4. FieldState(fmt, j + 1, t2.next, w)
      BY <3>1, <3>2, <3>3, NestedField DEF FmtOK
    <3>5. QED
      BY <3>1, <3>4
  <2>4. CASE Failed(t2)
    BY <2>1, <2>2, <2>4, Zenon DEF Stays
  <2>5. CASE ~ Failed(t2) /\ Closes(C(t2.at))
    <3>1. u = [t2 EXCEPT !.at = @ + 1]
      BY <2>1, <2>5, Zenon
    <3>2. Shape(u) /\ u.at = t2.at + 1 /\ u.next = t2.next
      BY <2>2, <3>1 DEF Shape
    <3>3. QED
      BY <2>3, <2>5, <3>2 DEF Stays
  <2>6. CASE ~ Failed(t2) /\ ~ Closes(C(t2.at))
    <3>1. u = Fail(t2, "invalid format string")
      BY <2>1, <2>6, Zenon
    <3>2. QED
      BY <1>6, <2>2, <3>1, FailStays
  <2>7. QED
    BY <2>4, <2>5, <2>6
<1>9. QED
  BY <1>5, <1>7, <1>8

LEMMA WidthStays ==
  ASSUME FmtOK, h = "run", Len(args) \in Nat, NEW t, Shape(t), NEW i \in Nat, t.at = i, NEW w,
         FieldState(fmt, i, t.next, w)
  PROVE  Stays(ParseWidth(t), w)
<1>1. PICK u : u = ParseDynamicSpec(t)
  OBVIOUS
<1>2. Stays(u, w)
  BY <1>1, DynamicSpecIs
<1>3. PICK v : v = ParseWidth(t)
  OBVIOUS
<1>4. v = [u EXCEPT !.sp.width = u.ref]
  BY <1>1, <1>3 DEF ParseWidth
<1>5. Shape(v) /\ v.at = u.at /\ v.next = u.next /\ v.err = u.err
  BY <1>2, <1>4 DEF Stays, Shape
<1>6. QED
  BY <1>2, <1>3, <1>5, SameError DEF Stays

LEMMA PrecisionStays ==
  ASSUME FmtOK, h = "run", Len(args) \in Nat, NEW t, Shape(t), NEW i \in Nat, t.at = i, NEW w,
         FieldState(fmt, i, t.next, w), i # End, C(i) \notin Marks
  PROVE  Stays(ParsePrecision(t), w)
<1>1. CASE t.at + 1 = End
  <2>1. ParsePrecision(t) = Fail(t, "invalid precision")
    BY <1>1 DEF ParsePrecision
  <2>2. "invalid precision" \in Errors
    BY DEF Errors
  <2>3. QED
    BY <2>1, <2>2, FailStays
<1>2. CASE t.at + 1 # End
  <2>1. PICK t1 : t1 = [t EXCEPT !.at = @ + 1]
    OBVIOUS
  <2>2. Shape(t1) /\ t1.at = i + 1 /\ t1.next = t.next /\ i + 1 \in Nat
    BY <2>1 DEF Shape
  <2>3. PICK u : u = ParseDynamicSpec(t1)
    OBVIOUS
  <2>4. Stays(u, w)
    <3>1. FieldState(fmt, i + 1, t1.next, w)
      BY <2>2, PlainStep
    <3>2. QED
      BY <2>2, <2>3, <3>1, DynamicSpecIs
  <2>5. PICK v : v = ParsePrecision(t)
    OBVIOUS
  <2>6. v = [u EXCEPT !.sp.precision = u.ref]
    BY <1>2, <2>1, <2>3, <2>5 DEF ParsePrecision
  <2>7. Shape(v) /\ v.at = u.at /\ v.next = u.next /\ v.err = u.err
    BY <2>4, <2>6 DEF Stays, Shape
  <2>8. QED
    BY <2>4, <2>5, <2>7, SameError DEF Stays
<1>3. QED
  BY <1>1, <1>2

LEMMA ZeroFlagStays ==
  ASSUME FmtOK, NEW t, Shape(t), NEW i \in Nat, t.at = i, NEW w, NEW type,
         FieldState(fmt, i, t.next, w), i # End, C(i) \notin Marks
  PROVE  Stays(ZeroFlag(t, type), w)
<1>1. PICK e : e = EnterState(t, "zero", TRUE)
  OBVIOUS
<1>2. Shape(e) /\ e.at = i /\ e.next = t.next
  <2>1. Entered(t, e)
    BY <1>1, Zenon DEF EnterState, Entered
  <2>2. QED
    BY <2>1, EnterStateIs
<1>3. PICK u : u = Skip(e)
  OBVIOUS
<1>4. Stays(u, w)
  BY <1>2, <1>3, SkipStays
<1>5. CASE type \notin Arithmetic
  <2>1. ZeroFlag(t, type) = Fail(u, "numeric argument required")
    BY <1>1, <1>3, <1>5 DEF ZeroFlag
  <2>2. "numeric argument required" \in Errors
    BY DEF Errors
  <2>3. QED
    BY <1>4, <2>1, <2>2, FailStays DEF Stays
<1>6. CASE type \in Arithmetic /\ t.sp.align # "none"
  <2>1. ZeroFlag(t, type) = u
    BY <1>1, <1>3, <1>6 DEF ZeroFlag
  <2>2. QED
    BY <1>4, <2>1
<1>7. CASE type \in Arithmetic /\ t.sp.align = "none"
  <2>1. PICK v : v = ZeroFlag(t, type)
    OBVIOUS
  <2>2. v = [u EXCEPT !.sp.align = "numeric", !.sp.fill = <<"0">>]
    BY <1>1, <1>3, <1>7, <2>1 DEF ZeroFlag
  <2>3. Shape(v) /\ v.at = u.at /\ v.next = u.next /\ v.err = u.err
    BY <1>4, <2>2 DEF Stays, Shape
  <2>4. QED
    BY <1>4, <2>1, <2>3, SameError DEF Stays
<1>8. QED
  BY <1>5, <1>6, <1>7

LEMMA PairField ==
  ASSUME NEW q, Len(q) \in Nat, NEW i \in Nat, NEW n, NEW w, FieldState(q, i, n, w),
         Leads(UnitOf(q, i)), i + 2 \in 1 .. Last(q)
  PROVE  FieldState(q, i + 2, n, w)
<1>1. PICK a \in Nat : a = i - 1 /\ a + 1 = i /\ a + 2 = i + 1 /\ (i + 2) - 1 = i + 1
  BY DEF FieldState
<1> DEFINE r(k) == ReadOf(q)[k]
<1>2. r(a).depth = 1 /\ ~ r(a).pair /\ r(a) \in Reading(q)
  BY <1>1, ReadOfIs DEF FieldState
<1>3. Leads(UnitOf(q, a + 1))
  BY <1>1
<1>4. r(a + 2) = r(a)
  <2>1. r(a).depth # 0
    BY <1>2
  <2>2. QED
    BY <1>2, <1>3, <2>1, InField
<1>5. (i + 2) - 1 = a + 2 /\ \A x : x \in 1 .. i => x \in 1 .. i + 2
  BY <1>1
<1>6. r((i + 2) - 1) = r(i - 1)
  BY <1>1, <1>4, <1>5
<1>7. QED
  BY <1>5, <1>6 DEF FieldState

LEMMA FillAndAlignStays ==
  ASSUME FmtOK, NEW t, Shape(t), NEW i \in Nat, t.at = i, NEW w,
         FieldState(fmt, i, t.next, w), i # End, ~ Closes(C(i))
  PROVE  Stays(FillAndAlign(t), w)
<1> DEFINE f == i + CodePointLength(C(i))
<1>1. PICK e : e = EnterState(t, "align", C(f) \in DOMAIN AlignOf)
  OBVIOUS
<1>2. Entered(t, e) /\ (~ Failed(e) => C(f) \in DOMAIN AlignOf)
  <2>1. "invalid format specifier" \in Errors
    BY DEF Errors
  <2>2. Failed(Fail(t, "invalid format specifier"))
    BY <2>1, FailIs
  <2>3. QED
    BY <1>1, <2>2, Zenon DEF EnterState, Entered
<1>3. Shape(e) /\ e.at = i /\ e.next = t.next
  BY <1>2, EnterStateIs
<1>4. PICK u : u = FillAndAlign(t)
  OBVIOUS
<1>5. u = IF f >= End THEN Fail(t, "invalid format specifier")
          ELSE IF Opening(C(i)) THEN Fail(t, "invalid fill character")
          ELSE IF Failed(e) THEN e
          ELSE [e EXCEPT !.sp.fill = SubSeq(fmt, i, f - 1),
                         !.sp.align = AlignOf[C(f)], !.at = f + 1]
  BY <1>1, <1>4, Zenon DEF FillAndAlign, Opening
<1>6. f = i + 1 \/ f = i + 2
  BY DEF CodePointLength
<1> HIDE DEF f
<1>7. CASE f >= End
  <2>1. u = Fail(t, "invalid format specifier")
    BY <1>5, <1>7
  <2>2. "invalid format specifier" \in Errors
    BY DEF Errors
  <2>3. QED
    BY <1>4, <2>1, <2>2, FailStays
<1>8. CASE ~ (f >= End) /\ Opening(C(i))
  <2>1. u = Fail(t, "invalid fill character")
    BY <1>5, <1>8
  <2>2. "invalid fill character" \in Errors
    BY DEF Errors
  <2>3. QED
    BY <1>4, <2>1, <2>2, FailStays
<1>9. CASE ~ (f >= End) /\ ~ Opening(C(i)) /\ Failed(e)
  BY <1>3, <1>4, <1>5, <1>9, Zenon DEF Stays
<1>10. CASE ~ (f >= End) /\ ~ Opening(C(i)) /\ ~ Failed(e)
  <2>1. u = [e EXCEPT !.sp.fill = SubSeq(fmt, i, f - 1),
                      !.sp.align = AlignOf[C(f)], !.at = f + 1]
    BY <1>5, <1>10, Zenon
  <2>2. Shape(u) /\ u.at = f + 1 /\ u.next = t.next
    BY <1>3, <2>1 DEF Shape
  <2>3. C(f) \notin Marks
    BY <1>2, <1>10, AlignsAre, Zenon DEF Marks
  <2>4. f # End /\ f \in Nat /\ f \in 1 .. Last(fmt) /\ i \in 1 .. Last(fmt)
    BY <1>6, <1>10 DEF FmtOK, End, Last, FieldState
  <2>5. FieldState(fmt, f, t.next, w)
    <3>1. CASE Leads(C(i))
      <4>1. f = i + 2
        BY <3>1 DEF f, CodePointLength, Leads
      <4>2. QED
        BY <2>4, <3>1, <4>1, CIs, PairField DEF FmtOK
    <3>2. CASE ~ Leads(C(i))
      <4>1. f = i + 1
        BY <3>2 DEF f, CodePointLength, Leads
      <4>2. C(i) \notin Marks
        BY <1>10, <3>2, Zenon DEF Marks, Opening, Closes, Leads
      <4>3. QED
        BY <4>1, <4>2, PlainStep
    <3>3. QED
      BY <3>1, <3>2
  <2>6. QED
    BY <1>4, <2>2, <2>3, <2>4, <2>5, PlainStep DEF Stays
<1>11. QED
  BY <1>7, <1>8, <1>9, <1>10

(* The eight parts a unit can begin.                                       *)
Signs     == {"+", " ", "-"}
WidthUnit(c) == c \in (Digits \ {"0"}) \cup {"{"}
OtherUnit(c) == /\ c \notin DOMAIN AlignOf \cup Signs \cup {"#", "0", ".", "L"}
                /\ ~ WidthUnit(c)

LEMMA SpecUnits ==
  ASSUME NEW c
  PROVE  /\ c \in DOMAIN AlignOf => c \notin Signs /\ c \notin {"#", "0", ".", "L"} /\ ~ WidthUnit(c)
         /\ c \in Signs => c \notin {"#", "0", ".", "L"} /\ ~ WidthUnit(c)
         /\ c \in {"#", "0", ".", "L"} => ~ WidthUnit(c)
         /\ c \in DOMAIN AlignOf \cup Signs \cup {"#", "0", ".", "L"} => c \notin Marks
         /\ NoUnit \notin DOMAIN AlignOf \cup Signs \cup {"#", "0", ".", "L"}
         /\ ~ WidthUnit(NoUnit)
BY AlignsAre, DigitsAre, Zenon DEF Signs, WidthUnit, Marks, NoUnit

LEMMA SpecPartStays ==
  ASSUME FmtOK, h = "run", Len(args) \in Nat, NEW t, Shape(t), NEW i \in Nat, t.at = i, NEW w,
         FieldState(fmt, i, t.next, w), i # End, ~ Closes(C(i)),
         NEW c, c = C(i) \/ c = NoUnit, NEW type
  PROVE  Stays(SpecPart(t, c, type), w)
<1>1. PICK u : u = SpecPart(t, c, type)
  OBVIOUS
<1>2. \A e, v : Entered(t, e) /\ DOMAIN v = DOMAIN e /\ v.at = e.at /\ v.next = e.next
                /\ C(i) \notin Marks => Stays(Skip(v), w)
  <2> TAKE e, v
  <2> HAVE Entered(t, e) /\ DOMAIN v = DOMAIN e /\ v.at = e.at /\ v.next = e.next
           /\ C(i) \notin Marks
  <2>1. Shape(e) /\ e.at = i /\ e.next = t.next
    BY EnterStateIs
  <2>2. Shape(v) /\ v.at = i /\ v.next = t.next
    BY <2>1 DEF Shape
  <2>3. QED
    BY <2>2, SkipStays
<1>3. CASE c \in DOMAIN AlignOf
  <2>1. c \in DOMAIN AlignOf \cup Signs \cup {"#", "0", ".", "L"}
    BY <1>3, Zenon
  <2>2. C(i) \notin Marks
    BY <2>1, SpecUnits, Zenon
  <2>3. PICK e : e = EnterState(t, "align", TRUE)
    OBVIOUS
  <2>4. Entered(t, e)
    BY <2>3, Zenon DEF EnterState, Entered
  <2>5. Shape(e)
    BY <2>4, EnterStateIs
  <2>6. PICK v : v = [e EXCEPT !.sp.align = AlignOf[c]]
    OBVIOUS
  <2>7. DOMAIN v = DOMAIN e /\ v.at = e.at /\ v.next = e.next
    BY <2>5, <2>6 DEF Shape
  <2>8. Stays(Skip(v), w)
    BY <1>2, <2>2, <2>4, <2>7
  <2>9. u = Skip(v)
    BY <1>1, <1>3, <2>3, <2>6, SpecUnits, Zenon DEF SpecPart, OtherUnit, WidthUnit, Signs
  <2>10. QED
    BY <1>1, <2>8, <2>9
<1>4. CASE c \in Signs
  <2>1. c \in DOMAIN AlignOf \cup Signs \cup {"#", "0", ".", "L"}
    BY <1>4, Zenon
  <2>2. C(i) \notin Marks
    BY <2>1, SpecUnits, Zenon
  <2>3. PICK e : e = EnterState(t, "sign", type \in SIntSet \cup {"float"})
    OBVIOUS
  <2>4. Entered(t, e)
    BY <2>3, Zenon DEF EnterState, Entered
  <2>5. Shape(e)
    BY <2>4, EnterStateIs
  <2>6. PICK v : v = [e EXCEPT !.sp.sign = IF c = "-" THEN @ ELSE c]
    OBVIOUS
  <2>7. DOMAIN v = DOMAIN e /\ v.at = e.at /\ v.next = e.next
    BY <2>5, <2>6 DEF Shape
  <2>8. Stays(Skip(v), w)
    BY <1>2, <2>2, <2>4, <2>7
  <2>9. u = Skip(v)
    BY <1>1, <1>4, <2>3, <2>6, SpecUnits, Zenon DEF SpecPart, OtherUnit, WidthUnit, Signs
  <2>10. QED
    BY <1>1, <2>8, <2>9
<1>5. CASE c = "#"
  <2>1. c \in DOMAIN AlignOf \cup Signs \cup {"#", "0", ".", "L"}
    BY <1>5, Zenon
  <2>2. C(i) \notin Marks
    BY <2>1, SpecUnits, Zenon
  <2>3. PICK e : e = EnterState(t, "hash", type \in Arithmetic)
    OBVIOUS
  <2>4. Entered(t, e)
    BY <2>3, Zenon DEF EnterState, Entered
  <2>5. Shape(e)
    BY <2>4, EnterStateIs
  <2>6. PICK v : v = [e EXCEPT !.sp.flags = @ \cup {"alt"}]
    OBVIOUS
  <2>7. DOMAIN v = DOMAIN e /\ v.at = e.at /\ v.next = e.next
    BY <2>5, <2>6 DEF Shape
  <2>8. Stays(Skip(v), w)
    BY <1>2, <2>2, <2>4, <2>7
  <2>9. u = Skip(v)
    BY <1>1, <1>5, <2>3, <2>6, SpecUnits, Zenon DEF SpecPart, OtherUnit, WidthUnit, Signs
  <2>10. QED
    BY <1>1, <2>8, <2>9
<1>6. CASE c = "0"
  <2>1. c \in DOMAIN AlignOf \cup Signs \cup {"#", "0", ".", "L"}
    BY <1>6, Zenon
  <2>2. C(i) \notin Marks
    BY <2>1, SpecUnits, Zenon
  <2>3. u = ZeroFlag(t, type)
    BY <1>1, <1>6, SpecUnits, Zenon DEF SpecPart, OtherUnit, WidthUnit, Signs
  <2>4. QED
    BY <1>1, <2>2, <2>3, ZeroFlagStays
<1>7. CASE WidthUnit(c)
  <2>1. PICK e : e = EnterState(t, "width", TRUE)
    OBVIOUS
  <2>2. Entered(t, e)
    BY <2>1, Zenon DEF EnterState, Entered
  <2>3. Shape(e) /\ e.at = i /\ e.next = t.next
    BY <2>2, EnterStateIs
  <2>4. u = IF Failed(e) THEN e ELSE ParseWidth(e)
    BY <1>1, <1>7, <2>1, SpecUnits, Zenon DEF SpecPart, OtherUnit, WidthUnit, Signs
  <2>5. CASE Failed(e)
    BY <1>1, <2>3, <2>4, <2>5, Zenon DEF Stays
  <2>6. CASE ~ Failed(e)
    <3>1. u = ParseWidth(e)
      BY <2>4, <2>6, Zenon
    <3>2. QED
      BY <1>1, <2>3, <3>1, WidthStays
  <2>7. QED
    BY <2>5, <2>6
<1>8. CASE c = "."
  <2>1. PICK e : e = EnterState(t, "precision", type \in Textual \cup {"float"})
    OBVIOUS
  <2>2. Entered(t, e)
    BY <2>1, Zenon DEF EnterState, Entered
  <2>3. Shape(e) /\ e.at = i /\ e.next = t.next
    BY <2>2, EnterStateIs
  <2>4. u = IF Failed(e) THEN e ELSE ParsePrecision(e)
    BY <1>1, <1>8, <2>1, SpecUnits, Zenon DEF SpecPart, OtherUnit, WidthUnit, Signs
  <2>5. CASE Failed(e)
    BY <1>1, <2>3, <2>4, <2>5, Zenon DEF Stays
  <2>6. CASE ~ Failed(e)
    <3>1. u = ParsePrecision(e)
      BY <2>4, <2>6, Zenon
    <3>2. c \in DOMAIN AlignOf \cup Signs \cup {"#", "0", ".", "L"}
      BY <1>8, Zenon
    <3>3. C(i) \notin Marks
      BY <3>2, SpecUnits, Zenon
    <3>4. QED
      BY <1>1, <2>3, <3>1, <3>3, PrecisionStays
  <2>7. QED
    BY <2>5, <2>6
<1>9. CASE c = "L"
  <2>1. c \in DOMAIN AlignOf \cup Signs \cup {"#", "0", ".", "L"}
    BY <1>9, Zenon
  <2>2. C(i) \notin Marks
    BY <2>1, SpecUnits, Zenon
  <2>3. PICK e : e = EnterState(t, "locale", type \in Arithmetic)
    OBVIOUS
  <2>4. Entered(t, e)
    BY <2>3, Zenon DEF EnterState, Entered
  <2>5. Shape(e)
    BY <2>4, EnterStateIs
  <2>6. PICK v : v = [e EXCEPT !.sp.flags = @ \cup {"localized"}]
    OBVIOUS
  <2>7. DOMAIN v = DOMAIN e /\ v.at = e.at /\ v.next = e.next
    BY <2>5, <2>6 DEF Shape
  <2>8. Stays(Skip(v), w)
    BY <1>2, <2>2, <2>4, <2>7
  <2>9. u = Skip(v)
    BY <1>1, <1>9, <2>3, <2>6, SpecUnits, Zenon DEF SpecPart, OtherUnit, WidthUnit, Signs
  <2>10. QED
    BY <1>1, <2>8, <2>9
<1>10. CASE OtherUnit(c)
  <2>1. u = FillAndAlign(t)
    BY <1>1, <1>10, SpecUnits, Zenon DEF SpecPart, OtherUnit, WidthUnit, Signs
  <2>2. QED
    BY <1>1, <2>1, FillAndAlignStays
<1>11. QED
  BY <1>3, <1>4, <1>5, <1>6, <1>7, <1>8, <1>9, <1>10, Zenon DEF OtherUnit

-----------------------------------------------------------------------------
(* The steps of the parse, as the reader sees them                         *)

LEMMA TextMore ==
  ASSUME NEW q \in Seq(STRING), NEW w \in Seq(STRING), NEW i \in 1 .. Len(q), NEW m \in 1 .. i
  PROVE  /\ w \o SubSeq(q, m, i) = Append(w \o SubSeq(q, m, i - 1), q[i])
         /\ w \o SubSeq(q, m, i) \in Seq(STRING)
<1>1. Len(q) \in Nat /\ i \in Nat /\ m \in Nat /\ m >= 1 /\ i <= Len(q) /\ m <= i
  OBVIOUS
<1>2. SubSeq(q, m, i) \in Seq(STRING) /\ SubSeq(q, m, i - 1) \in Seq(STRING)
  BY <1>1
<1>3. SubSeq(q, m, i) = Append(SubSeq(q, m, i - 1), q[i])
  BY <1>1
<1>4. \A x \in Seq(STRING) : \A c : w \o Append(x, c) = Append(w \o x, c)
  OBVIOUS
<1>5. QED
  BY <1>2, <1>3, <1>4

LEMMA NoText ==
  ASSUME NEW q \in Seq(STRING), NEW w \in Seq(STRING), NEW m \in Nat
  PROVE  w \o SubSeq(q, m, m - 1) = w
OBVIOUS

LEMMA OrdinaryUnit ==
  ASSUME NEW q \in Seq(STRING), NEW w \in Seq(STRING), NEW m, NEW i \in 1 .. Len(q), NEW n,
         TextState(q, m, i, n, w), ~ Opening(UnitOf(q, i)), ~ Closes(UnitOf(q, i))
  PROVE  TextState(q, m, i + 1, n, w)
<1>1. PICK a \in Nat : a = i - 1 /\ a + 1 = i
  OBVIOUS
<1>2. PICK c : c = q[i] /\ c = UnitOf(q, i) /\ c = UnitOf(q, a + 1)
  BY <1>1 DEF UnitOf
<1> DEFINE r(k) == ReadOf(q)[k]
<1>3. r(a).depth = 0 /\ ~ r(a).pair /\ r(a) \in Reading(q)
      /\ r(a).text = w \o SubSeq(q, m, i - 1) /\ r(a).opens \subseteq 1 .. i
      /\ Numbered(q, r(a).opens, n)
  BY <1>1, ReadOfIs DEF TextState
<1>4. ReadTo(q, a + 1, Append(r(a).text, c), 0, r(a).opens)
  <2>1. UnitOf(q, a + 1) = c /\ ~ Opening(c) /\ ~ Closes(c)
    BY <1>2
  <2>2. QED
    BY <1>2, <1>3, <2>1, InText
<1>5. /\ r(i).depth = 0 /\ ~ r(i).pair /\ r(i).text = Append(r(a).text, c)
      /\ r(i).opens = r(a).opens
  BY <1>1, <1>4 DEF ReadTo
<1>6. m \in 1 .. i
  BY DEF TextState
<1>7. r(i).text = w \o SubSeq(q, m, i)
  BY <1>2, <1>3, <1>5, <1>6, TextMore
<1>8. (i + 1) - 1 = i /\ i + 1 \in 1 .. Last(q) /\ m \in 1 .. i + 1
      /\ \A x : x \in 1 .. i => x \in 1 .. i + 1
  BY <1>6 DEF Last
<1> HIDE DEF r
<1>9. /\ r((i + 1) - 1).depth = 0 /\ ~ r((i + 1) - 1).pair
      /\ r((i + 1) - 1).text = w \o SubSeq(q, m, (i + 1) - 1)
      /\ r((i + 1) - 1).opens \subseteq 1 .. i + 1
      /\ Numbered(q, r((i + 1) - 1).opens, n)
  BY <1>3, <1>5, <1>7, <1>8
<1>10. QED
  BY <1>8, <1>9 DEF TextState, r

LEMMA EscapedBrace ==
  ASSUME NEW q \in Seq(STRING), NEW w \in Seq(STRING), NEW m, NEW i \in 1 .. Len(q), NEW n,
         TextState(q, m, i, n, w), Opening(UnitOf(q, i)) \/ Closes(UnitOf(q, i)),
         UnitOf(q, i + 1) = UnitOf(q, i)
  PROVE  /\ w \o SubSeq(q, m, i) \in Seq(STRING)
         /\ TextState(q, i + 2, i + 2, n, w \o SubSeq(q, m, i))
<1>1. PICK a \in Nat : a = i - 1 /\ a + 1 = i /\ a + 2 = i + 1
  OBVIOUS
<1>2. PICK c : c = q[i] /\ c = UnitOf(q, i) /\ c = UnitOf(q, a + 1)
  BY <1>1 DEF UnitOf
<1> DEFINE r(k) == ReadOf(q)[k]
<1>3. r(a).depth = 0 /\ ~ r(a).pair /\ r(a) \in Reading(q)
      /\ r(a).text = w \o SubSeq(q, m, i - 1) /\ r(a).opens \subseteq 1 .. i
      /\ Numbered(q, r(a).opens, n)
  BY <1>1, ReadOfIs DEF TextState
<1>4. ReadTo(q, a + 2, Append(r(a).text, c), 0, r(a).opens)
  <2>1. UnitOf(q, a + 2) = c /\ (Opening(c) \/ Closes(c))
    BY <1>1, <1>2
  <2>2. QED
    BY <1>2, <1>3, <2>1, InText
<1>5. /\ r(i + 1).depth = 0 /\ ~ r(i + 1).pair /\ r(i + 1).text = Append(r(a).text, c)
      /\ r(i + 1).opens = r(a).opens
  BY <1>1, <1>4 DEF ReadTo
<1>6. m \in 1 .. i
  BY DEF TextState
<1>7. r(i + 1).text = w \o SubSeq(q, m, i) /\ w \o SubSeq(q, m, i) \in Seq(STRING)
  <2>1. /\ w \o SubSeq(q, m, i) = Append(w \o SubSeq(q, m, i - 1), q[i])
        /\ w \o SubSeq(q, m, i) \in Seq(STRING)
    BY <1>6, TextMore
  <2>2. r(a).text = w \o SubSeq(q, m, i - 1)
    BY <1>3
  <2> HIDE DEF r
  <2>3. QED
    BY <1>2, <1>5, <2>1, <2>2
<1>8. PICK v \in Seq(STRING) : v = w \o SubSeq(q, m, i)
  BY <1>7
<1>9. v \o SubSeq(q, i + 2, (i + 2) - 1) = v
  BY NoText
<1>10. i # Len(q)
  <2>1. CASE i = Len(q)
    <3>1. UnitOf(q, i + 1) = NoUnit
      BY <2>1 DEF UnitOf
    <3>2. QED
      BY <3>1, NoUnitCloses
  <2>2. QED
    BY <2>1
<1>11. (i + 2) - 1 = i + 1 /\ i + 2 \in 1 .. Last(q) /\ i + 2 \in 1 .. i + 2
       /\ \A x : x \in 1 .. i => x \in 1 .. i + 2
  BY <1>10 DEF Last
<1> HIDE DEF r
<1>12. /\ r((i + 2) - 1).depth = 0 /\ ~ r((i + 2) - 1).pair
       /\ r((i + 2) - 1).text = v \o SubSeq(q, i + 2, (i + 2) - 1)
       /\ r((i + 2) - 1).opens \subseteq 1 .. i + 2
       /\ Numbered(q, r((i + 2) - 1).opens, n)
  BY <1>3, <1>5, <1>7, <1>8, <1>9, <1>11
<1>13. QED
  BY <1>8, <1>11, <1>12 DEF TextState, r

LEMMA FieldBegins ==
  ASSUME NEW q \in Seq(STRING), NEW w \in Seq(STRING), NEW m, NEW i \in 1 .. Len(q), NEW n,
         TextState(q, m, i, n, w), Opening(UnitOf(q, i)), ~ Opening(UnitOf(q, i + 1))
  PROVE  /\ w \o SubSeq(q, m, i - 1) \in Seq(STRING)
         /\ BeginState(q, i + 1, n, w \o SubSeq(q, m, i - 1))
<1>1. PICK a \in Nat : a = i - 1 /\ a + 1 = i /\ a + 2 = i + 1
  OBVIOUS
<1> DEFINE r(k) == ReadOf(q)[k]
<1>2. r(a).depth = 0 /\ ~ r(a).pair /\ r(a) \in Reading(q)
      /\ r(a).text = w \o SubSeq(q, m, i - 1) /\ r(a).opens \subseteq 1 .. i
      /\ Numbered(q, r(a).opens, n)
  BY <1>1, ReadOfIs DEF TextState
<1>3. ReadTo(q, a + 1, r(a).text, 1, r(a).opens \cup {a + 2})
  <2>1. Opening(UnitOf(q, a + 1)) /\ ~ Opening(UnitOf(q, a + 2))
    BY <1>1
  <2>2. QED
    BY <1>2, <2>1, InText
<1>4. /\ r(i).depth = 1 /\ ~ r(i).pair /\ r(i).text = r(a).text
      /\ r(i).opens = r(a).opens \cup {i + 1}
  BY <1>1, <1>3 DEF ReadTo
<1>5. m \in 1 .. i /\ Len(q) \in Nat
  BY DEF TextState
<1>6. w \o SubSeq(q, m, i - 1) \in Seq(STRING)
  <2>1. SubSeq(q, m, i - 1) \in Seq(STRING)
    BY <1>5
  <2>2. QED
    BY <2>1
<1>7. PICK v : v = w \o SubSeq(q, m, i - 1)
  OBVIOUS
<1>8. /\ r(a).opens \cup {i + 1} \subseteq 1 .. i + 1
      /\ (r(a).opens \cup {i + 1}) \ {i + 1} = r(a).opens
  BY <1>2
<1>9. (i + 1) - 1 = i /\ i + 1 \in 1 .. Last(q)
  BY <1>5 DEF Last
<1> HIDE DEF r
<1>10. /\ r((i + 1) - 1).depth = 1 /\ ~ r((i + 1) - 1).pair
       /\ r((i + 1) - 1).text = v /\ r((i + 1) - 1).opens \subseteq 1 .. i + 1
       /\ i + 1 \in r((i + 1) - 1).opens
       /\ Numbered(q, r((i + 1) - 1).opens \ {i + 1}, n)
  BY <1>2, <1>4, <1>7, <1>8, <1>9
<1>11. QED
  BY <1>6, <1>7, <1>9, <1>10 DEF BeginState, r

LEMMA TextEnds ==
  ASSUME NEW q \in Seq(STRING), NEW w \in Seq(STRING), NEW m, NEW i, i = Last(q), NEW n,
         TextState(q, m, i, n, w)
  PROVE  /\ w \o SubSeq(q, m, i - 1) \in Seq(STRING)
         /\ EndState(q, n, w \o SubSeq(q, m, i - 1))
<1>1. i - 1 = Len(q) /\ Len(q) \in Nat /\ m \in Nat /\ 1 <= m
  BY DEF Last, TextState
<1>2. ReadOf(q)[Len(q)].text = w \o SubSeq(q, m, i - 1) /\ Numbered(q, ReadOf(q)[Len(q)].opens, n)
  BY <1>1 DEF TextState
<1>3. SubSeq(q, m, i - 1) \in Seq(STRING)
  BY <1>1
<1>4. QED
  BY <1>2, <1>3 DEF EndState

LEMMA FieldIsNumbered ==
  ASSUME NEW q \in Seq(STRING), NEW w, NEW i, NEW n, BeginState(q, i, n, w),
         NEW m, Numbers(q, i, n, m)
  PROVE  FieldState(q, i, m, w)
<1>1. i \in Nat /\ ReadOf(q)[i - 1].opens \subseteq 1 .. i /\ i \in ReadOf(q)[i - 1].opens
  BY DEF BeginState, Last
<1>2. PICK o : o = ReadOf(q)[i - 1].opens \ {i}
  OBVIOUS
<1>3. Numbered(q, o, n) /\ \A x \in o : x < i
  BY <1>1, <1>2 DEF BeginState
<1>4. Numbered(q, o \cup {i}, m)
  BY <1>1, <1>3, NumberedMore
<1>5. o \cup {i} = ReadOf(q)[i - 1].opens
  BY <1>1, <1>2
<1>6. QED
  BY <1>4, <1>5 DEF BeginState, FieldState

LEMMA LastBrace ==
  ASSUME NEW q, NEW a \in Nat, NEW r, r = ReadOf(q)[a], r.depth = 1, ~ r.pair,
         NEW c, c = UnitOf(q, a + 1), Closes(c)
  PROVE  ReadTo(q, a + 1, r.text, 0, r.opens)
<1>1. r \in Reading(q) /\ ReadOf(q)[a + 1] = StepOf(q, r, a + 1)
  BY ReadOfIs
<1>2. r.depth # 0 /\ DOMAIN r = {"text", "depth", "pair", "opens"} /\ r.pair = FALSE
  BY <1>1 DEF Reading
<1>3. ReadOf(q)[a + 1] = [r EXCEPT !.depth = @ - 1]
  BY <1>1, <1>2 DEF StepOf, Closes
<1>4. QED
  BY <1>1, <1>2, <1>3 DEF ReadTo, Reading

LEMMA FieldEnds ==
  ASSUME NEW q \in Seq(STRING), NEW w \in Seq(STRING), NEW i, NEW n, FieldState(q, i, n, w),
         Closes(UnitOf(q, i))
  PROVE  TextState(q, i + 1, i + 1, n, w)
<1>1. i # Last(q)
  BY NoUnitCloses DEF UnitOf, Last
<1>2. PICK a \in Nat : a = i - 1 /\ a + 1 = i /\ i + 1 \in 1 .. Last(q)
  BY <1>1 DEF FieldState, Last
<1> DEFINE r(k) == ReadOf(q)[k]
<1>3. r(a).depth = 1 /\ ~ r(a).pair /\ r(a) \in Reading(q)
      /\ r(a).text = w /\ r(a).opens \subseteq 1 .. i /\ Numbered(q, r(a).opens, n)
  BY <1>2, ReadOfIs DEF FieldState
<1>4. ReadTo(q, a + 1, r(a).text, 0, r(a).opens)
  <2>1. Closes(UnitOf(q, a + 1))
    BY <1>2
  <2>2. QED
    BY <1>3, <2>1, LastBrace
<1>5. r(i).depth = 0 /\ ~ r(i).pair /\ r(i).text = w /\ r(i).opens = r(a).opens
  BY <1>2, <1>3, <1>4 DEF ReadTo
<1>6. w \o SubSeq(q, i + 1, (i + 1) - 1) = w
  <2>1. i + 1 \in Nat
    BY <1>2
  <2>2. QED
    BY <2>1, NoText
<1>7. (i + 1) - 1 = i /\ i + 1 \in 1 .. i + 1 /\ \A x : x \in 1 .. i => x \in 1 .. i + 1
  BY <1>2
<1> HIDE DEF r
<1>8. /\ r((i + 1) - 1).depth = 0 /\ ~ r((i + 1) - 1).pair
      /\ r((i + 1) - 1).text = w \o SubSeq(q, i + 1, (i + 1) - 1)
      /\ r((i + 1) - 1).opens \subseteq 1 .. i + 1
      /\ Numbered(q, r((i + 1) - 1).opens, n)
  BY <1>3, <1>5, <1>6, <1>7
<1>9. QED
  BY <1>2, <1>7, <1>8 DEF TextState, r

(* The beginning of a string.                                              *)
LEMMA TextBegins ==
  ASSUME NEW q \in Seq(STRING)
  PROVE  <<>> \in Seq(STRING) /\ TextState(q, 1, 1, 0, <<>>)
<1>1. ReadOf(q)[0] = [text |-> <<>>, depth |-> 0, pair |-> FALSE, opens |-> {}]
  BY ReadOfIs
<1>2. ReadTo(q, 0, <<>>, 0, {})
  BY <1>1 DEF ReadTo
<1>3. Numbered(q, {}, 0)
  BY DEF Numbered
<1>4. <<>> \o SubSeq(q, 1, 1 - 1) = <<>>
  BY NoText
<1>5. 1 - 1 = 0 /\ 1 \in 1 .. Last(q)
  BY DEF Last
<1>6. QED
  <2>1. /\ ReadOf(q)[1 - 1].depth = 0 /\ ~ ReadOf(q)[1 - 1].pair
        /\ ReadOf(q)[1 - 1].text = <<>> \o SubSeq(q, 1, 1 - 1)
        /\ ReadOf(q)[1 - 1].opens = {}
    BY <1>2, <1>4, <1>5 DEF ReadTo
  <2>2. QED
    BY <1>3, <1>5, <2>1 DEF TextState

-----------------------------------------------------------------------------
(* The invariant is kept by every step                                     *)

LEMMA StartIs == Shape(Start) /\ Start.at = 1 /\ Start.next = 0
<1>1. PICK e : Start = [at |-> 1, next |-> 0, got |-> 0, id |-> 0, state |-> 0,
                        ref |-> <<"value", 0>>, sp |-> NoSpecs, err |-> e]
  BY Zenon DEF Start
<1>2. QED
  BY <1>1 DEF Shape

LEMMA StartState ==
  ASSUME NEW q \in Seq(STRING)
  PROVE  RunState(q, "text", 1, Start, <<>>)
BY StartIs, TextBegins DEF RunState, InAField

LEMMA ParseInit == Init => ParseInv
<1> SUFFICES ASSUME Init PROVE ParseInv
  OBVIOUS
<1>1. PICK c \in Cases : fmt = c.fmt /\ args = c.args
  BY Zenon DEF Init
<1>2. mode = "text" /\ text = 1 /\ s = Start /\ out = <<>>
  BY Zenon DEF Init
<1>3. fmt \in Seq(STRING) /\ args \in Seq([type: STRING, name: Seq(STRING), value: Int])
  BY <1>1, ParseAssumption
<1>4. Len(args) \in Nat
  BY <1>3
<1>5. QED
  BY <1>2, <1>3, <1>4, StartState DEF ParseInv

LEMMA OrdinaryKeeps == ASSUME ParseInv, Ordinary PROVE ParseInv'
<1>1. /\ mode = "text" /\ ~ Failed(s) /\ s.at < End /\ s' = Skip(s) /\ mode' = "text"
      /\ ~ Opening(C(s.at)) /\ ~ Closes(C(s.at))
      /\ fmt' = fmt /\ args' = args /\ h' = h /\ text' = text /\ out' = out
  BY Zenon DEF Ordinary, At, Running, Parse, Opening, Closes
<1>2. ASSUME h = "run" PROVE RunState(fmt, "text", text, s', out)
  <2>1. PICK i : i = s.at
    OBVIOUS
  <2>2. Shape(s) /\ out \in Seq(STRING) /\ TextState(fmt, text, i, s.next, out) /\ fmt \in Seq(STRING)
    BY <1>1, <1>2, <2>1 DEF ParseInv, RunState
  <2>3. i \in 1 .. Len(fmt)
    BY <1>1, <2>1, <2>2 DEF TextState, End, Last
  <2>4. ~ Opening(UnitOf(fmt, i)) /\ ~ Closes(UnitOf(fmt, i))
    BY <1>1, <2>1, CIs
  <2>5. TextState(fmt, text, i + 1, s.next, out)
    BY <2>2, <2>3, <2>4, OrdinaryUnit
  <2>6. Shape(s') /\ s'.at = i + 1 /\ s'.next = s.next
    BY <1>1, <2>1, <2>2 DEF Skip, Shape
  <2>7. QED
    BY <2>2, <2>5, <2>6 DEF RunState, InAField
<1>3. QED
  BY <1>1, <1>2 DEF ParseInv

LEMMA EscapeKeeps == ASSUME ParseInv, Escape PROVE ParseInv'
<1>1. /\ mode = "text" /\ ~ Failed(s) /\ s' = Skip(Skip(s)) /\ mode' = mode
      /\ (Opening(C(s.at)) \/ Closes(C(s.at))) /\ C(s.at + 1) = C(s.at)
      /\ fmt' = fmt /\ args' = args /\ h' = h /\ text' = s.at + 2 /\ out' = OnText(text, s.at + 1)
  BY Zenon DEF Escape, At, Running, Opening, Closes
<1>2. ASSUME h = "run" PROVE RunState(fmt, "text", text', s', out')
  <2>1. PICK i : i = s.at
    OBVIOUS
  <2>2. Shape(s) /\ out \in Seq(STRING) /\ TextState(fmt, text, i, s.next, out) /\ fmt \in Seq(STRING)
    BY <1>1, <1>2, <2>1 DEF ParseInv, RunState
  <2>3. (Opening(UnitOf(fmt, i)) \/ Closes(UnitOf(fmt, i))) /\ UnitOf(fmt, i + 1) = UnitOf(fmt, i)
    BY <1>1, <2>1, CIs
  <2>4. i \in 1 .. Len(fmt)
    <3>1. UnitOf(fmt, i) # NoUnit
      BY <2>3, NoUnitCloses
    <3>2. QED
      BY <3>1 DEF UnitOf
  <2>5. (i + 1) - 1 = i
    BY <2>4
  <2>6. out' = out \o SubSeq(fmt, text, i)
    BY <1>1, <2>1, <2>5 DEF OnText
  <2>7. out' \in Seq(STRING) /\ TextState(fmt, i + 2, i + 2, s.next, out')
    BY <2>2, <2>3, <2>4, <2>6, EscapedBrace
  <2>8. Shape(s') /\ s'.at = i + 2 /\ s'.next = s.next
    BY <1>1, <2>1, <2>2, <2>4 DEF Skip, Shape
  <2>9. QED
    BY <1>1, <2>1, <2>7, <2>8 DEF RunState, InAField
<1>3. QED
  BY <1>1, <1>2 DEF ParseInv

LEMMA UnmatchedKeeps == ASSUME ParseInv, Unmatched PROVE ParseInv'
<1>1. /\ mode = "text" /\ ~ Failed(s) /\ s' = Fail(s, "unmatched '}' in format string")
      /\ fmt' = fmt /\ args' = args /\ h' = h
  BY Zenon DEF Unmatched, At, Running, Parse
<1>2. "unmatched '}' in format string" \in Errors
  BY Zenon DEF Errors
<1>3. PICK why \in Errors : s' = Fail(s, why)
  BY <1>1, <1>2, Zenon
<1>4. h = "run" => Failed(s')
  BY <1>1, <1>3, FailIs DEF ParseInv, RunState
<1>5. QED
  BY <1>1, <1>4 DEF ParseInv

LEMMA FinishKeeps == ASSUME ParseInv, Finish PROVE ParseInv'
<1>1. /\ mode = "text" /\ ~ Failed(s) /\ s.at = End /\ mode' = "end" /\ out' = OnText(text, End)
      /\ fmt' = fmt /\ args' = args /\ h' = h /\ s' = s
  BY Zenon DEF Finish, At, Running
<1>2. ASSUME h = "run" PROVE RunState(fmt, "end", text', s, out')
  <2>1. PICK i : i = s.at
    OBVIOUS
  <2>2. Shape(s) /\ out \in Seq(STRING) /\ TextState(fmt, text, i, s.next, out) /\ fmt \in Seq(STRING)
    BY <1>1, <1>2, <2>1 DEF ParseInv, RunState
  <2>3. i = Last(fmt) /\ out' = out \o SubSeq(fmt, text, i - 1)
    BY <1>1, <2>1 DEF End, Last, OnText
  <2>4. out' \in Seq(STRING) /\ EndState(fmt, s.next, out')
    BY <2>2, <2>3, TextEnds
  <2>5. QED
    BY <2>2, <2>4 DEF RunState, InAField
<1>3. QED
  BY <1>1, <1>2 DEF ParseInv

LEMMA OpenKeeps == ASSUME ParseInv, Open PROVE ParseInv'
<1>1. /\ mode = "text" /\ ~ Failed(s) /\ mode' = "field" /\ out' = OnText(text, s.at)
      /\ Opening(C(s.at)) /\ ~ Opening(C(s.at + 1))
      /\ s' = IF s.at + 1 = End THEN Fail(s, "invalid format string") ELSE Skip(s)
      /\ fmt' = fmt /\ args' = args /\ h' = h
  BY Zenon DEF Open, At, Running, Opening
<1>2. ASSUME h = "run", ~ Failed(s') PROVE RunState(fmt, "field", text', s', out')
  <2>1. PICK i : i = s.at
    OBVIOUS
  <2>2. Shape(s) /\ out \in Seq(STRING) /\ TextState(fmt, text, i, s.next, out) /\ fmt \in Seq(STRING)
    BY <1>1, <1>2, <2>1 DEF ParseInv, RunState
  <2>3. s' = Skip(s)
    <3>1. "invalid format string" \in Errors
      BY DEF Errors
    <3>2. Failed(Fail(s, "invalid format string"))
      BY <2>2, <3>1, FailIs
    <3>3. QED
      BY <1>1, <1>2, <3>2, Zenon
  <2>4. Opening(UnitOf(fmt, i)) /\ ~ Opening(UnitOf(fmt, i + 1))
    BY <1>1, <2>1, CIs
  <2>5. i \in 1 .. Len(fmt)
    <3>1. UnitOf(fmt, i) # NoUnit
      BY <2>4, NoUnitCloses
    <3>2. QED
      BY <3>1 DEF UnitOf
  <2>6. out' = out \o SubSeq(fmt, text, i - 1)
    BY <1>1, <2>1 DEF OnText
  <2>7. out' \in Seq(STRING) /\ BeginState(fmt, i + 1, s.next, out')
    BY <2>2, <2>4, <2>5, <2>6, FieldBegins
  <2>8. Shape(s') /\ s'.at = i + 1 /\ s'.next = s.next
    BY <2>1, <2>2, <2>3, <2>5 DEF Skip, Shape
  <2>9. QED
    BY <2>7, <2>8 DEF RunState, InAField
<1>3. QED
  BY <1>1, <1>2 DEF ParseInv

LEMMA FieldIdKeeps == ASSUME ParseInv, FieldId PROVE ParseInv'
<1>1. PICK t : t = IF Unnumbered(C(s.at)) THEN NextArgId(s) ELSE ParseArgId(s, FALSE)
  OBVIOUS
<1>2. /\ mode = "field" /\ ~ Failed(s) /\ mode' = "idEnd" /\ s' = [t EXCEPT !.id = t.got]
      /\ fmt' = fmt /\ args' = args /\ h' = h /\ text' = text /\ out' = out
  BY <1>1, Zenon DEF FieldId, At, Running, Parse, Unnumbered
<1>3. ASSUME h = "run", ~ Failed(s') PROVE RunState(fmt, "idEnd", text, s', out)
  <2>1. PICK i : i = s.at
    OBVIOUS
  <2>2. Shape(s) /\ out \in Seq(STRING) /\ BeginState(fmt, i, s.next, out) /\ fmt \in Seq(STRING)
        /\ Len(args) \in Nat
    BY <1>2, <1>3, <2>1 DEF ParseInv, RunState
  <2>3. FmtOK /\ i \in 1 .. End /\ i \in Nat /\ s.next \in Int
    BY <2>2 DEF FmtOK, BeginState, Last, End, Numbered
  <2> DEFINE IsNumbered == Shape(t) /\ (~ Failed(t) => FieldState(fmt, t.at, t.next, out) /\ t.got \in Nat)
  <2>4. ASSUME Unnumbered(C(i)) PROVE IsNumbered
    <3>1. t = NextArgId(s)
      BY <1>1, <2>1, <2>4
    <3>2. /\ Shape(t) /\ t.at = i
          /\ ~ Failed(t) => s.next >= 0 /\ t.next = s.next + 1 /\ t.got \in Nat
      BY <1>3, <2>1, <2>2, <2>3, <3>1, NextArgIdIs
    <3>3. ASSUME ~ Failed(t) PROVE FieldState(fmt, t.at, t.next, out)
      <4>1. Numbers(fmt, i, s.next, t.next)
        BY <2>4, <3>2, <3>3, CIs DEF Numbers
      <4>2. QED
        BY <2>2, <3>2, <4>1, FieldIsNumbered
    <3>4. QED
      BY <3>2, <3>3
  <2>5. ASSUME ~ Unnumbered(C(i)) PROVE IsNumbered
    <3>1. t = ParseArgId(s, FALSE) /\ FALSE \in BOOLEAN
      BY <1>1, <2>1, <2>5
    <3>2. /\ Shape(t)
          /\ ~ Failed(t) =>
               /\ t.at \in i .. End /\ \A k \in i .. t.at - 1 : C(k) \notin Marks
               /\ \/ C(i) \in Digits /\ s.next <= 0
                  \/ C(i) \in NameStarts
               /\ t.next = -1 /\ t.got \in Nat
      BY <1>3, <2>1, <2>2, <2>3, <3>1, ParseArgIdIs
    <3>3. ASSUME ~ Failed(t) PROVE FieldState(fmt, t.at, t.next, out)
      <4>1. Numbers(fmt, i, s.next, t.next)
        BY <3>2, <3>3, CIs DEF Numbers
      <4>2. FieldState(fmt, i, t.next, out)
        BY <2>2, <4>1, FieldIsNumbered
      <4>3. PICK j : j = t.at
        OBVIOUS
      <4>4. j \in i .. Last(fmt) /\ \A k \in i .. j - 1 : UnitOf(fmt, k) \notin Marks
        BY <3>2, <3>3, <4>3, CIs DEF End, Last
      <4>5. QED
        BY <2>3, <4>2, <4>3, <4>4, PlainField DEF FmtOK
    <3>4. QED
      BY <3>2, <3>3
  <2>0. IsNumbered
    BY <2>4, <2>5
  <2>6. Shape(s') /\ s'.at = t.at /\ s'.next = t.next /\ s'.id = t.got /\ s'.err = t.err
    BY <1>2, <2>0 DEF Shape
  <2>7. ~ Failed(t)
    BY <1>3, <2>6, SameError
  <2>8. QED
    BY <2>0, <2>2, <2>6, <2>7 DEF RunState, InAField
<1>4. QED
  BY <1>2, <1>3 DEF ParseInv

(* What the end of a field does, and a specifier.                          *)
LEMMA FormattedKeeps ==
  ASSUME ParseInv, mode \in InAField, ~ Failed(s), NEW t, Formatted(t),
         h = "run" => Shape(t),
         h = "run" /\ ~ Failed(t) => t.at = s.at /\ t.next = s.next /\ Closes(C(s.at))
  PROVE  ParseInv'
<1>1. /\ s' = Skip(t) /\ mode' = "text" /\ text' = s.at + 1
      /\ fmt' = fmt /\ args' = args /\ h' = h /\ out' = out
  BY Zenon DEF Formatted
<1>2. h = "run" => s'.err = t.err
  BY <1>1 DEF Skip, Shape
<1>3. ASSUME h = "run", ~ Failed(s') PROVE RunState(fmt, "text", text', s', out)
  <2>1. PICK i : i = s.at
    OBVIOUS
  <2>2. out \in Seq(STRING) /\ FieldState(fmt, i, s.next, out) /\ fmt \in Seq(STRING)
    BY <1>3, <2>1 DEF ParseInv, RunState
  <2>3. Shape(t) /\ t.at = i /\ t.next = s.next /\ Closes(UnitOf(fmt, i))
    BY <1>2, <1>3, <2>1, CIs, SameError
  <2>4. TextState(fmt, i + 1, i + 1, s.next, out)
    BY <2>2, <2>3, FieldEnds
  <2>5. Shape(s') /\ s'.at = i + 1 /\ s'.next = s.next
    BY <1>1, <2>3 DEF Skip, Shape
  <2>6. QED
    BY <1>1, <2>1, <2>2, <2>4, <2>5 DEF RunState, InAField
<1>4. QED
  BY <1>1, <1>3 DEF ParseInv

LEMMA StaysKeeps ==
  ASSUME ParseInv, h = "run" => Stays(s', out), mode' \in InAField, mode' # "idEnd",
         fmt' = fmt, args' = args, h' = h, text' = text, out' = out,
         ~ Failed(s)
  PROVE  ParseInv'
<1>1. mode' \notin {"text", "field", "idEnd", "end"}
  BY DEF InAField
<1>2. ASSUME h = "run", ~ Failed(s') PROVE RunState(fmt, mode', text, s', out)
  <2>1. Shape(s') /\ FieldState(fmt, s'.at, s'.next, out) /\ out \in Seq(STRING)
    BY <1>2 DEF Stays, ParseInv, RunState
  <2>2. QED
    BY <1>1, <2>1 DEF RunState
<1>3. QED
  BY <1>2 DEF ParseInv

LEMMA Here ==
  ASSUME ParseInv, h = "run", ~ Failed(s), mode \in InAField
  PROVE  /\ FmtOK /\ Len(args) \in Nat /\ Shape(s) /\ s.at \in Nat /\ s.at \in 1 .. End
         /\ FieldState(fmt, s.at, s.next, out)
<1>1. /\ fmt \in Seq(STRING) /\ Len(args) \in Nat /\ Shape(s)
      /\ FieldState(fmt, s.at, s.next, out)
  BY DEF ParseInv, RunState
<1>2. QED
  BY <1>1 DEF FmtOK, FieldState, End, Last

LEMMA IdEndKeeps == ASSUME ParseInv, IdEnd PROVE ParseInv'
<1>1. mode = "idEnd" /\ ~ Failed(s) /\ mode \in InAField
  BY Zenon DEF IdEnd, At, Running, InAField
<1>2. "argument not found" \in Errors /\ "missing '}'" \in Errors
  BY Zenon DEF Errors
<1>3. CASE Closes(C(s.at)) /\ Formatted(IF s.id >= Len(args) THEN Fail(s, "argument not found")
                                        ELSE [s EXCEPT !.sp = NoSpecs])
  <2>1. PICK t : t = IF s.id >= Len(args) THEN Fail(s, "argument not found")
                     ELSE [s EXCEPT !.sp = NoSpecs]
    OBVIOUS
  <2>2. Formatted(t)
    BY <1>3, <2>1
  <2>3. ASSUME h = "run"
        PROVE  Shape(t) /\ (~ Failed(t) => t.at = s.at /\ t.next = s.next)
    <3>1. Shape(s)
      BY <1>1, <2>3, Here
    <3>2. CASE s.id >= Len(args)
      <4>1. t = Fail(s, "argument not found")
        BY <2>1, <3>2
      <4>2. QED
        BY <1>2, <3>1, <4>1, FailIs
    <3>3. CASE ~ (s.id >= Len(args))
      <4>1. t = [s EXCEPT !.sp = NoSpecs]
        BY <2>1, <3>3
      <4>2. QED
        BY <3>1, <4>1 DEF Shape
    <3>4. QED
      BY <3>2, <3>3
  <2>4. QED
    BY <1>1, <1>3, <2>2, <2>3, FormattedKeeps
<1>4. CASE Parse(Fail(s, "missing '}'"), "idEnd")
  <2>1. /\ s' = Fail(s, "missing '}'") /\ fmt' = fmt /\ args' = args /\ h' = h
    BY <1>4, Zenon DEF Parse
  <2>2. PICK why \in Errors : s' = Fail(s, why)
    BY <1>2, <2>1, Zenon
  <2>3. h = "run" => Failed(s')
    BY <1>1, <2>2, Here, FailIs
  <2>4. QED
    BY <2>1, <2>3 DEF ParseInv
<1>5. CASE s.id < 0 /\ Parse([s EXCEPT !.at = Closing(@ + 1)], "close")
  <2>1. fmt' = fmt /\ args' = args /\ h' = h
    BY <1>5, Zenon DEF Parse
  <2>2. h # "run"
    BY <1>1, <1>5 DEF ParseInv, RunState
  <2>3. QED
    BY <2>1, <2>2 DEF ParseInv
<1>6. CASE C(s.at) = ":" /\ Parse(IF s.id >= Len(args) THEN Fail(s, "argument not found")
                                  ELSE Skip([s EXCEPT !.state = 0, !.sp = NoSpecs]), "specs")
  <2>1. PICK t : t = IF s.id >= Len(args) THEN Fail(s, "argument not found")
                     ELSE Skip([s EXCEPT !.state = 0, !.sp = NoSpecs])
    OBVIOUS
  <2>2. /\ s' = t /\ mode' = "specs" /\ fmt' = fmt /\ args' = args /\ h' = h
        /\ text' = text /\ out' = out
    BY <1>6, <2>1 DEF Parse
  <2>3. ASSUME h = "run" PROVE Stays(t, out)
    <3>1. FmtOK /\ Shape(s) /\ s.at \in Nat /\ FieldState(fmt, s.at, s.next, out)
      BY <1>1, <2>3, Here
    <3>2. CASE s.id >= Len(args)
      BY <1>2, <2>1, <3>1, <3>2, FailStays
    <3>3. CASE ~ (s.id >= Len(args))
      <4>1. PICK v : v = [s EXCEPT !.state = 0, !.sp = NoSpecs]
        OBVIOUS
      <4>2. t = Skip(v)
        BY <2>1, <3>3, <4>1
      <4>3. Shape(v) /\ v.at = s.at /\ v.next = s.next
        BY <3>1, <4>1 DEF Shape
      <4>4. C(s.at) \notin Marks /\ s.at # End
        <5>1. C(s.at) # NoUnit
          BY <1>6, NoUnitIs, Zenon
        <5>2. C(s.at) \notin Marks
          BY <1>6, Zenon DEF Marks
        <5>3. QED
          BY <3>1, <5>1, <5>2, UnitsIs
      <4>5. QED
        BY <3>1, <4>2, <4>3, <4>4, SkipStays
    <3>4. QED
      BY <3>2, <3>3
  <2>4. QED
    <3>1. mode' \in InAField /\ mode' # "idEnd"
      BY <2>2 DEF InAField
    <3>2. QED
      BY <1>1, <2>2, <2>3, <3>1, StaysKeeps
<1>7. QED
  BY <1>3, <1>4, <1>5, <1>6, Zenon DEF IdEnd, Closes

(* The unit a specifier begins with is the one here, or a fill.            *)
LEMMA UnitIs == Unit = C(s.at) \/ Unit = NoUnit
BY Zenon DEF Unit, NoUnit

LEMMA SpecTypeKeeps == ASSUME ParseInv, SpecType PROVE ParseInv'
<1>1. PICK t : t = IF ArgType \notin Presentation[Unit] THEN Fail(s, "invalid format specifier")
                   ELSE Skip([s EXCEPT !.sp.type = Unit])
  OBVIOUS
<1>2. /\ ~ Failed(s) /\ mode \in InAField /\ Unit \in DOMAIN Presentation /\ s' = t
      /\ mode' = "close" /\ fmt' = fmt /\ args' = args /\ h' = h /\ text' = text /\ out' = out
  BY <1>1, Zenon DEF SpecType, At, Running, Parse, InAField
<1>3. ASSUME h = "run" PROVE Stays(t, out)
  <2>1. FmtOK /\ Shape(s) /\ s.at \in Nat /\ FieldState(fmt, s.at, s.next, out)
    BY <1>2, <1>3, Here
  <2>2. CASE ArgType \notin Presentation[Unit]
    <3>1. t = Fail(s, "invalid format specifier")
      BY <1>1, <2>2
    <3>2. "invalid format specifier" \in Errors
      BY DEF Errors
    <3>3. QED
      BY <2>1, <3>1, <3>2, FailStays
  <2>3. CASE ArgType \in Presentation[Unit]
    <3>1. PICK v : v = [s EXCEPT !.sp.type = Unit]
      OBVIOUS
    <3>2. t = Skip(v)
      BY <1>1, <2>3, <3>1
    <3>3. Shape(v) /\ v.at = s.at /\ v.next = s.next
      BY <2>1, <3>1 DEF Shape
    <3>4. C(s.at) \in DOMAIN Presentation
      BY <1>2, UnitIs, NoUnitIs, Zenon
    <3>5. C(s.at) # NoUnit /\ C(s.at) \notin Marks
      BY <3>4, NoUnitIs, PresentationsAre, Zenon DEF Marks
    <3>6. s.at # End
      BY <2>1, <3>5, UnitsIs
    <3>7. QED
      BY <2>1, <3>2, <3>3, <3>5, <3>6, SkipStays
  <2>4. QED
    BY <2>2, <2>3
<1>4. mode' \in InAField /\ mode' # "idEnd"
  BY <1>2 DEF InAField
<1>5. QED
  BY <1>2, <1>3, <1>4, StaysKeeps

LEMMA SpecifierKeeps == ASSUME ParseInv, Specifier PROVE ParseInv'
<1>1. /\ ~ Failed(s) /\ mode \in InAField /\ s.at < End /\ ~ Closes(C(s.at))
      /\ s' = SpecPart(s, Unit, ArgType)
      /\ mode' = "part" /\ fmt' = fmt /\ args' = args /\ h' = h /\ text' = text /\ out' = out
  BY Zenon DEF Specifier, At, Running, Parse, InAField, Closes
<1>2. ASSUME h = "run" PROVE Stays(s', out)
  <2>1. /\ FmtOK /\ Len(args) \in Nat /\ Shape(s) /\ s.at \in Nat
        /\ FieldState(fmt, s.at, s.next, out)
    BY <1>1, <1>2, Here
  <2>2. s.at # End
    BY <1>1, <2>1 DEF FmtOK, End
  <2>3. PICK c, type : c = Unit /\ type = ArgType
    OBVIOUS
  <2>4. c = C(s.at) \/ c = NoUnit
    BY <2>3, UnitIs
  <2>5. Stays(SpecPart(s, c, type), out)
    BY <1>1, <1>2, <2>1, <2>2, <2>4, SpecPartStays
  <2>6. QED
    BY <1>1, <2>3, <2>5
<1>3. mode' \in InAField /\ mode' # "idEnd"
  BY <1>1 DEF InAField
<1>4. QED
  BY <1>1, <1>2, <1>3, StaysKeeps

LEMMA SpecsEndKeeps == ASSUME ParseInv, SpecsEnd PROVE ParseInv'
<1>1. /\ ~ Failed(s) /\ mode \in InAField /\ s' = s
      /\ mode' = "close" /\ fmt' = fmt /\ args' = args /\ h' = h /\ text' = text /\ out' = out
  BY Zenon DEF SpecsEnd, At, Running, Parse, InAField
<1>2. h = "run" => Stays(s', out)
  BY <1>1, Here DEF Stays
<1>3. mode' \in InAField /\ mode' # "idEnd"
  BY <1>1 DEF InAField
<1>4. QED
  BY <1>1, <1>2, <1>3, StaysKeeps

LEMMA CloseKeeps == ASSUME ParseInv, Close PROVE ParseInv'
<1> DEFINE w == Resolve(s.sp.width)
           p == Resolve(s.sp.precision)
<1>1. PICK t : t = IF h = "check" THEN s
                   ELSE IF w[1] = "error" THEN Fail(s, w[2])
                   ELSE IF p[1] = "error" THEN Fail(s, p[2])
                   ELSE [s EXCEPT !.sp.width = w, !.sp.precision = p]
  OBVIOUS
<1>2. PICK u : u = IF Closes(C(s.at)) THEN CheckCharSpecs(t)
                   ELSE Fail(t, "unknown format specifier")
  OBVIOUS
<1>3. ~ Failed(s) /\ mode \in InAField /\ Formatted(u)
  BY <1>1, <1>2, Zenon DEF Close, At, Running, InAField, Closes
<1> HIDE DEF w, p
<1>4. ASSUME h = "run"
      PROVE  Shape(u) /\ (~ Failed(u) => u.at = s.at /\ u.next = s.next /\ Closes(C(s.at)))
  <2>1. Shape(s)
    BY <1>3, <1>4, Here
  <2>2. Shape(t) /\ t.at = s.at /\ t.next = s.next
    <3>1. CASE w[1] = "error"
      BY <1>1, <1>4, <2>1, <3>1, FailMoves
    <3>2. CASE w[1] # "error" /\ p[1] = "error"
      BY <1>1, <1>4, <2>1, <3>2, FailMoves
    <3>3. CASE w[1] # "error" /\ p[1] # "error"
      <4>1. t = [s EXCEPT !.sp.width = w, !.sp.precision = p]
        BY <1>1, <1>4, <3>3
      <4>2. QED
        BY <2>1, <4>1 DEF Shape
    <3>4. QED
      BY <3>1, <3>2, <3>3
  <2>3. "unknown format specifier" \in Errors /\ "invalid format specifier for char" \in Errors
    BY DEF Errors
  <2>4. CASE Closes(C(s.at))
    <3>1. u = Fail(t, "invalid format specifier for char") \/ u = t
      BY <1>2, <2>4 DEF CheckCharSpecs
    <3>2. QED
      BY <2>2, <2>3, <2>4, <3>1, FailIs
  <2>5. CASE ~ Closes(C(s.at))
    <3>1. u = Fail(t, "unknown format specifier")
      BY <1>2, <2>5
    <3>2. QED
      BY <2>2, <2>3, <3>1, FailIs
  <2>6. QED
    BY <2>4, <2>5
<1>5. QED
  BY <1>3, <1>4, FormattedKeeps

LEMMA RunKeeps == ASSUME ParseInv, Run PROVE ParseInv'
<1>1. /\ h' = "run" /\ mode' = "text" /\ s' = Start /\ text' = 1 /\ out' = <<>>
      /\ fmt' = fmt /\ args' = args
  BY Zenon DEF Run
<1>2. QED
  BY <1>1, StartState DEF ParseInv

(* A parse that is at its end has not failed.                              *)
EndInv == mode = "end" => ~ Failed(s)

LEMMA EndKeeps == ASSUME EndInv, [Next]_vars PROVE EndInv'
<1>1. ASSUME Ordinary \/ Escape \/ Unmatched \/ Open \/ FieldId \/ IdEnd \/ SpecType
             \/ Specifier \/ SpecsEnd \/ Close \/ Run
      PROVE  mode' # "end"
  BY <1>1, Zenon DEF Ordinary, Escape, Unmatched, Open, FieldId, IdEnd, SpecType, Specifier,
     SpecsEnd, Close, Run, At, Running, Parse, Formatted
<1>2. ASSUME Finish PROVE ~ Failed(s')
  BY <1>2, Zenon DEF Finish, At, Running
<1>3. ASSUME Done \/ UNCHANGED vars PROVE mode' = mode /\ s' = s
  BY <1>3, Zenon DEF Done, vars
<1>4. QED
  BY <1>1, <1>2, <1>3, Zenon DEF EndInv, Next

LEMMA NextKeeps == ASSUME ParseInv, [Next]_vars PROVE ParseInv'
<1>1. CASE Done \/ UNCHANGED vars
  <2>1. /\ fmt' = fmt /\ args' = args /\ h' = h /\ mode' = mode /\ text' = text
        /\ s' = s /\ out' = out
    BY <1>1, Zenon DEF Done, vars
  <2>2. QED
    BY <2>1 DEF ParseInv
<1>2. QED
  BY <1>1, OrdinaryKeeps, EscapeKeeps, UnmatchedKeeps, FinishKeeps, OpenKeeps, FieldIdKeeps,
     IdEndKeeps, SpecTypeKeeps, SpecifierKeeps, SpecsEndKeeps, CloseKeeps, RunKeeps, Zenon
     DEF Next

LEMMA ParseInvariant == Spec => [](ParseInv /\ EndInv)
<1>1. Init => EndInv
  BY Zenon DEF Init, EndInv
<1>2. Init => ParseInv
  BY ParseInit
<1>3. ParseInv /\ EndInv /\ [Next]_vars => (ParseInv /\ EndInv)'
  BY NextKeeps, EndKeeps
<1>4. QED
  BY <1>1, <1>2, <1>3, PTL DEF Spec

(* The text of every accepted string, of any length and with any units,    *)
(* comes out as a reader of the string reads it: outside the fields, in    *)
(* order, doubled braces once.  (parse_format_string.)                     *)
THEOREM TextComesOut == Spec => []TextIsKept
<1>1. ParseInv /\ EndInv => TextIsKept
  <2> SUFFICES ASSUME ParseInv, EndInv, Accepted PROVE out = Literal
    BY DEF TextIsKept
  <2>1. EndState(fmt, s.next, out)
    BY DEF Accepted, ParseInv, EndInv, RunState
  <2>2. QED
    BY <2>1, ReadIs DEF EndState, Literal
<1>2. QED
  BY <1>1, ParseInvariant, PTL

(* No accepted string leaves an argument to fmt after one it has named or  *)
(* numbered, or numbers one after it has left one to fmt, except across a  *)
(* name.  (parse_context::next_arg_id and check_arg_id.)                   *)
THEOREM NumberingKept == Spec => []NumberingIsNotMixed
<1>1. ParseInv /\ EndInv => NumberingIsNotMixed
  <2> SUFFICES ASSUME ParseInv, EndInv, Accepted,
                      NEW i \in Opens, NEW j \in Opens
               PROVE  /\ i < j /\ Automatic(j) => Automatic(i)
                      /\ i < j /\ Automatic(i) /\ C(j) \in Digits =>
                           \E k \in Opens : i < k /\ k < j /\ C(k) \in NameStarts
    BY DEF NumberingIsNotMixed
  <2>1. EndState(fmt, s.next, out)
    BY DEF Accepted, ParseInv, EndInv, RunState
  <2>2. Opens = ReadOf(fmt)[Len(fmt)].opens
    BY ReadIs DEF Opens
  <2>3. \A k \in Opens : Automatic(k) <=> Unnumbered(UnitOf(fmt, k))
    BY CIs, Zenon DEF Automatic, Unnumbered
  <2>4. Numbered(fmt, Opens, s.next)
    BY <2>1, <2>2 DEF EndState
  <2>5. QED
    BY <2>3, <2>4, CIs DEF Numbered
<1>2. QED
  BY <1>1, ParseInvariant, PTL
=============================================================================
