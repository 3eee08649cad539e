------------------------------- MODULE MCFmtText -------------------------------
(* Decoding: every string of up to four of the bytes at which the decoder   *)
(* makes a difference.  Writing: every string of up to three characters of  *)
(* one to four bytes, wide, unprintable, special and ill-formed ones.       *)
EXTENDS Integers, Sequences

TextCall(kind, s, prec, w, align, fill, debug) ==
  [kind |-> kind, s |-> s, precision |-> prec, width |-> w,
   align |-> align, fill |-> fill, debug |-> debug]

DecodeBytes == {65, 128, 144, 191, 193, 195, 224, 228, 237, 240, 244, 248}
DecodeCalls == {TextCall("string", s, -1, 0, "none", <<32>>, FALSE) :
                  s \in UNION {[1 .. n -> DecodeBytes] : n \in 1 .. 4}}

(* A, a quote, a newline, U+0080, e acute, U+4E2D, U+E000, an emoji, U+E0001*)
(* and a stray byte and a cut sequence.                                    *)
Characters == {<<65>>, <<34>>, <<10>>, <<194, 128>>, <<195, 169>>, <<228, 184, 173>>,
               <<238, 128, 128>>, <<240, 159, 152, 128>>, <<243, 160, 128, 129>>,
               <<128>>, <<228, 184>>}
Texts == {<<>>} \cup Characters \cup {x \o y : x, y \in Characters}
         \cup {<<195, 169>> \o x \o y : x, y \in Characters}
Texts0 == Texts \cup {<<65, 0, 65>>, <<0>>}
TextCalls ==
  {TextCall("string", s, p, w, a, f, FALSE) : s \in Texts, p \in {-1, 0, 1, 2}, w \in {0, 3, 6},
     a \in {"none", "right", "center"}, f \in {<<42>>, <<194, 183>>}}
  \cup {TextCall("cstring", s, -1, 4, "left", <<42>>, FALSE) : s \in Texts0}
  \cup {TextCall("string", s, p, 0, "none", <<32>>, TRUE) : s \in Texts, p \in {-1, 1}}
  \cup {TextCall("char", <<c>>, -1, w, "left", <<42>>, d) : c \in 0 .. 255, w \in {0, 5}, d \in BOOLEAN}
  \cup {TextCall("bool", s, -1, w, "center", <<42>>, FALSE) : s \in {<<>>, <<1>>}, w \in {0, 8}}
  \cup {TextCall("bool", s, -1, w, "numeric", <<48>>, FALSE) : s \in {<<>>, <<1>>}, w \in {0, 3, 8}}
  \cup {TextCall("null", <<>>, -1, 0, "none", <<32>>, FALSE)}

MCTextCalls == DecodeCalls \cup TextCalls
MCUnprintable == {128, 57344, 917505}
MCWide == {20013, 128512}
==============================================================================
