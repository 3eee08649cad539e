-------------------------------- MODULE FmtText --------------------------------
(***************************************************************************)
(* The writers of characters and strings: UTF-8 is decoded to cut a string *)
(* to its precision, to pad it to its width and to escape it.  Units are   *)
(* bytes.  A call is first measured and then written.                      *)
(***************************************************************************)
EXTENDS Integers, Sequences

CONSTANTS
  Calls,        \* [kind, s, precision, width, align, fill, debug]
  Unprintable,  \* the code points from 128 on for which is_printable is false
  Wide          \* those that compute_width counts twice

Byte == 0 .. 255
(* The formatter's own parts of a call: units are bytes, a fill has some.  *)
ASSUME CallsAreTyped ==
  \A c \in Calls :
    /\ c.s \in Seq(Byte) /\ c.fill \in Seq(Byte) /\ c.fill # <<>>
    /\ c.width \in Nat /\ c.precision \in Int
    /\ c.align \in {"none", "left", "right", "center", "numeric"}
    /\ c.align = "numeric" => c.kind = "bool"   \* the '0' flag
ASSUME AsciiIsPrintable == \A cp \in Unprintable : cp >= 128

VARIABLES call, phase, size, width, out
vars == <<call, phase, size, width, out>>

Min2(x, y) == IF x <= y THEN x ELSE y
Max2(x, y) == IF x >= y THEN x ELSE y
------------------------------------------------------------------------------
(* utf8_decode at p of s, past whose end there are zeros: the code point   *)
(* and the bytes it takes.  An error is Invalid and takes one byte.        *)
Invalid == -1
Highest == 1114111   \* U+10FFFF
Basic == 65535        \* the last that has four hexadecimal digits
At(s, i) == IF i <= Len(s) THEN s[i] ELSE 0

LengthOf(b) == CASE b < 128 -> 1 [] b \in 192 .. 223 -> 2 [] b \in 224 .. 239 -> 3
                 [] b \in 240 .. 247 -> 4 [] OTHER -> 0
Least == <<0, 128, 2048, 65536>>
CodePoint(s, p) ==
  LET tail(i) == At(s, p + i) % 64 IN
  CASE LengthOf(s[p]) = 1 -> s[p]
    [] LengthOf(s[p]) = 2 -> (s[p] % 32) * 64 + tail(1)
    [] LengthOf(s[p]) = 3 -> (s[p] % 16) * 4096 + tail(1) * 64 + tail(2)
    [] LengthOf(s[p]) = 4 -> (s[p] % 8) * 262144 + tail(1) * 4096 + tail(2) * 64 + tail(3)
    [] LengthOf(s[p]) = 0 -> 0

(* Mutant: an overlong encoding is accepted.                               *)
DecodeOverlong(s, p) ==
  LET n == LengthOf(s[p])
      c == CodePoint(s, p)
      error == \/ n = 0
               \/ c \div 2048 = 27 \/ c > Highest
               \/ \E i \in 1 .. n - 1 : At(s, p + i) \div 64 # 2
  IN IF error THEN [cp |-> Invalid, len |-> 1] ELSE [cp |-> c, len |-> n]

(* Non-canonical, surrogate half, out of range, or a wrong tail byte.      *)
Decode(s, p) ==
  LET n == LengthOf(s[p])
      c == CodePoint(s, p)
      error == \/ n = 0 \/ c < Least[n]
               \/ c \div 2048 = 27 \/ c > Highest
               \/ \E i \in 1 .. n - 1 : At(s, p + i) \div 64 # 2
  IN IF error THEN [cp |-> Invalid, len |-> 1] ELSE [cp |-> c, len |-> n]

(* for_each_codepoint: the pieces of s, each with its place.  NextPiece    *)
(* takes one more, if there is one.                                        *)
PieceAt(s, p) ==
  LET d == Decode(s, p) IN [cp |-> d.cp, from |-> p, to |-> p + d.len - 1]
EndOfPieces(q)  == IF q = <<>> THEN 0 ELSE q[Len(q)].to
NextPiece(s, q) == IF EndOfPieces(q) >= Len(s) THEN q
                   ELSE Append(q, PieceAt(s, EndOfPieces(q) + 1))
Pieces(s) ==
  LET F[n \in Nat] == IF n = 0 THEN <<>> ELSE NextPiece(s, F[n - 1]) IN F[Len(s)]

(* Mutant: the precision counts bytes.                                     *)
CodePointIndexBytes(s, n) == Min2(n, Len(s))

(* Where the n-th code point begins, or the end.                           *)
CodePointIndex(s, n) ==
  LET q == Pieces(s) IN IF n < Len(q) THEN q[n + 1].from - 1 ELSE Len(s)

ColumnsOf(cp) == IF cp \in Wide THEN 2 ELSE 1
WidthOf(q) ==
  LET F[n \in Nat] == IF n = 0 THEN 0 ELSE F[n - 1] + ColumnsOf(q[n].cp) IN F[Len(q)]
ComputeWidth(s) == WidthOf(Pieces(s))
------------------------------------------------------------------------------
(* Escapes                                                                 *)
Quote == 34
Apostrophe == 39
Backslash == 92
NeedsEscape(cp) ==
  cp < 32 \/ cp \in {127, Quote, Backslash} \/ cp \in Unprintable

HexDigit(d) == IF d < 10 THEN 48 + d ELSE 87 + d
Hex(letter, cp, n) ==
  <<Backslash, letter>> \o [i \in 1 .. n |-> HexDigit((cp \div 2 ^ (4 * (n - i))) % 16)]

(* Mutant: only what needs eight digits is written with more than four.    *)
WriteEscapedCpShort(cp, bytes) ==
  CASE cp = 9 -> <<Backslash, 116>> [] cp = 10 -> <<Backslash, 110>> [] cp = 13 -> <<Backslash, 114>>
    [] cp \in {Quote, Apostrophe, Backslash} -> <<Backslash, cp>>
    [] cp \in (0 .. 255) \ {9, 10, 13, Quote, Apostrophe, Backslash} -> Hex(120, cp, 2)
    [] cp >= 256 -> Hex(117, cp % 65536, 4)
    [] OTHER -> Hex(120, bytes[1], 2)

WriteEscapedCp(cp, bytes) ==
  CASE cp = 9 -> <<Backslash, 116>> [] cp = 10 -> <<Backslash, 110>> [] cp = 13 -> <<Backslash, 114>>
    [] cp \in {Quote, Apostrophe, Backslash} -> <<Backslash, cp>>
    [] cp \in (0 .. 255) \ {9, 10, 13, Quote, Apostrophe, Backslash} -> Hex(120, cp, 2)
    [] cp >= 256 /\ cp <= Basic -> Hex(117, cp, 4)
    [] cp > Basic -> <<Backslash, 85, 48, 48>> \o SubSeq(Hex(85, cp, 6), 3, 8)
    [] OTHER -> Hex(120, bytes[1], 2)   \* Invalid: each byte, here always one

EscapedPiece(s, d) ==
  LET bytes == SubSeq(s, d.from, d.to)
  IN IF d.cp = Invalid \/ NeedsEscape(d.cp) THEN WriteEscapedCp(d.cp, bytes) ELSE bytes
Escaped(s) ==
  LET q == Pieces(s)
      F[n \in 0 .. Len(q)] == IF n = 0 THEN <<>> ELSE F[n - 1] \o EscapedPiece(s, q[n])
  IN F[Len(q)]
WriteEscapedString(s) == <<Quote>> \o Escaped(s) \o <<Quote>>

(* A char from 128 on is negative: it is no code point.                    *)
WriteEscapedChar(c) ==
  LET escape == \/ c >= 128 \/ c = Apostrophe
                \/ NeedsEscape(c) /\ c # Quote
  IN <<Apostrophe>> \o
     (IF escape THEN WriteEscapedCp(IF c >= 128 THEN Invalid ELSE c, <<c>>) ELSE <<c>>)
     \o <<Apostrophe>>
------------------------------------------------------------------------------
(* A char* is read up to its first zero; a bool is a word.                 *)
Bytes ==
  CASE call.kind = "cstring" ->
         LET zeros == {i \in DOMAIN call.s : call.s[i] = 0}
         IN IF zeros = {} THEN call.s
            ELSE SubSeq(call.s, 1, (CHOOSE i \in zeros : \A j \in zeros : i <= j) - 1)
    [] call.kind = "bool" -> IF call.s = <<>> THEN <<102, 97, 108, 115, 101>>
                                             ELSE <<116, 114, 117, 101>>
    [] OTHER -> call.s
IsText == call.kind \in {"string", "cstring"}
Body(n) ==
  CASE IsText /\ call.debug              -> WriteEscapedString(Bytes)
    [] call.kind = "char" /\ call.debug  -> WriteEscapedChar(Bytes[1])
    [] OTHER                             -> SubSeq(Bytes, 1, n)

Init == /\ call \in Calls
        /\ phase = "measure" /\ size = 0 /\ width = 0 /\ out = <<>>

NullPointer == /\ phase = "measure" /\ call.kind = "null"
               /\ phase' = "error" /\ UNCHANGED <<call, size, width, out>>

(* write(string): the precision in code points, the width in columns; a    *)
(* debug string has its length for its width, a char always 1.             *)
Cut == IF IsText /\ call.precision \in 0 .. Len(Bytes) - 1
       THEN CodePointIndex(Bytes, call.precision) ELSE Len(Bytes)
Measure ==
  /\ phase = "measure" /\ call.kind # "null"
  /\ size' = (IF IsText /\ call.debug THEN Len(WriteEscapedString(Bytes)) ELSE Cut)
  /\ width' = CASE IsText /\ call.width = 0                      -> 0
                [] IsText /\ call.width # 0 /\ call.debug        -> Len(WriteEscapedString(Bytes))
                [] IsText /\ call.width # 0 /\ ~ call.debug      -> ComputeWidth(SubSeq(Bytes, 1, Cut))
                [] call.kind = "char"                            -> 1
                [] call.kind = "bool"                            -> Len(Bytes)
  /\ phase' = "write" /\ UNCHANGED <<call, out>>

RightPadding(padding, left) == padding - left

Fill(n) ==   \* n times the fill, which has some units
  [i \in 1 .. n * Len(call.fill) |-> call.fill[1 + ((i - 1) % Len(call.fill))]]

(* write_padded, left aligned by default; numeric pads as right does.      *)
WritePadded ==
  LET padding == Max2(0, call.width - width)
      left == CASE call.align \in {"none", "left"}     -> 0
                [] call.align \in {"right", "numeric"} -> padding
                [] call.align = "center"               -> padding \div 2
  IN /\ phase = "write"
     /\ out' = Fill(left) \o Body(size) \o Fill(RightPadding(padding, left))
     /\ phase' = "done" /\ UNCHANGED <<call, size, width>>

Done == phase \in {"done", "error"} /\ UNCHANGED vars
Next == NullPointer \/ Measure \/ WritePadded \/ Done
Spec == Init /\ [][Next]_vars
------------------------------------------------------------------------------
(* The well-formed sequences of UTF-8, as the standard lists them.         *)
T == 128 .. 191
Second(a) == CASE a = 224 -> 160 .. 191 [] a = 237 -> 128 .. 159
               [] a = 240 -> 144 .. 191 [] a = 244 -> 128 .. 143 [] OTHER -> T
WellFormed(q) ==
  \/ Len(q) = 1 /\ q[1] \in 0 .. 127
  \/ Len(q) = 2 /\ q[1] \in 194 .. 223 /\ q[2] \in T
  \/ Len(q) = 3 /\ q[1] \in 224 .. 239 /\ q[2] \in Second(q[1]) /\ q[3] \in T
  \/ Len(q) = 4 /\ q[1] \in 240 .. 244 /\ q[2] \in Second(q[1]) /\ q[3] \in T /\ q[4] \in T

(* The decoder never skips, repeats or runs past a byte, and takes as code *)
(* points exactly the well-formed sequences.  (utf8_decode,                *)
(* for_each_codepoint.)                                                    *)
DecodesWellFormedOnly ==
  phase = "measure" =>
    LET q == Pieces(call.s) IN
    \A i \in DOMAIN q :
      LET piece == SubSeq(call.s, q[i].from, q[i].to) IN
      /\ q[i].from = IF i = 1 THEN 1 ELSE q[i - 1].to + 1
      /\ q[i].to <= Len(call.s) /\ (i = Len(q) => q[i].to = Len(call.s))
      /\ q[i].cp # Invalid => WellFormed(piece)
      /\ q[i].cp = Invalid =>
           \A n \in 1 .. 4 : q[i].from + n - 1 <= Len(call.s) =>
             ~ WellFormed(SubSeq(call.s, q[i].from, q[i].from + n - 1))

(* The text without its padding.                                           *)
Unpadded(l, r) == SubSeq(out, l * Len(call.fill) + 1, Len(out) - r * Len(call.fill))
Padding(l, r) == out = Fill(l) \o Unpadded(l, r) \o Fill(r)
CodePoints(s) == LET q == Pieces(s) IN [i \in DOMAIN q |-> q[i].cp]

(* A precision keeps that many whole characters; the padded text fills     *)
(* exactly the columns asked for, unless it needs more.                    *)
CutAndPaddedInCharacters ==
  phase = "done" /\ IsText /\ ~ call.debug =>
    \E l, r \in 0 .. call.width :
      /\ Len(out) >= (l + r) * Len(call.fill) /\ Padding(l, r)
      /\ CodePoints(Unpadded(l, r)) =
           (IF call.precision < 0 THEN CodePoints(Bytes)
            ELSE SubSeq(CodePoints(Bytes), 1, Min2(call.precision, Len(CodePoints(Bytes)))))
      /\ ComputeWidth(Unpadded(l, r)) + l + r = Max2(call.width, ComputeWidth(Unpadded(l, r)))
      /\ call.align = "center" => r - l \in {0, 1}

(* What a reader of a debug text makes of it.                              *)
HexValue(b) == IF b < 64 THEN b - 48 ELSE b - 87
HexNumber(q) ==
  LET F[n \in 0 .. Len(q)] == IF n = 0 THEN 0 ELSE F[n - 1] * 16 + HexValue(q[n])
  IN F[Len(q)]
Meant(b) == CASE b = 116 -> 9 [] b = 110 -> 10 [] b = 114 -> 13 [] OTHER -> b
ReadItem(q, p) ==   \* the item at p of the text q between the quotes
  LET hex(n) == [cp |-> HexNumber(SubSeq(q, p + 2, p + n + 1)), len |-> n + 2]
  IN CASE q[p] # Backslash                        -> Decode(q, p)
       [] q[p] = Backslash /\ At(q, p + 1) = 120 -> hex(2)
       [] q[p] = Backslash /\ At(q, p + 1) = 117 -> hex(4)
       [] q[p] = Backslash /\ At(q, p + 1) = 85  -> hex(8)
       [] OTHER                                   -> [cp |-> Meant(q[p + 1]), len |-> 2]
ReadMore(q, r) ==
  LET d == ReadItem(q, r.at)
  IN IF r.at > Len(q) THEN r ELSE [text |-> Append(r.text, d.cp), at |-> r.at + d.len]
Read(q) ==
  LET F[n \in Nat] == IF n = 0 THEN [text |-> <<>>, at |-> 1] ELSE ReadMore(q, F[n - 1])
  IN F[Len(q)].text

(* A debug text is quoted, holds nothing that needs an escape, and reads   *)
(* back as the whole string if that is UTF-8, whatever the precision.      *)
(* (write_escaped_string.)                                                 *)
DebugReadsBack ==
  phase = "done" /\ IsText /\ call.debug /\ call.width = 0 =>
    LET inner == SubSeq(out, 2, Len(out) - 1) IN
    /\ out[1] = Quote /\ out[Len(out)] = Quote
    /\ \A i \in DOMAIN CodePoints(inner) :
         CodePoints(inner)[i] \notin Unprintable \cup {Invalid} \cup 0 .. 31
    /\ Invalid \notin {CodePoints(Bytes)[i] : i \in DOMAIN CodePoints(Bytes)} =>
         Read(inner) = CodePoints(Bytes)
==============================================================================
