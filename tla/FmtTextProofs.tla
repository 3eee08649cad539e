---------------------------- MODULE FmtTextProofs ----------------------------
(***************************************************************************)
(* Theorems about the writers of characters and strings, for strings of    *)
(* any length.                                                             *)
(***************************************************************************)
EXTENDS FmtText, NatLemmas, TLAPS

-----------------------------------------------------------------------------
(* One step of the decoder                                                 *)

(* What the tests of utf8_decode leave of two, three and four bytes.       *)
Low(b, x) == x = b % 64 /\ 0 <= x /\ x <= 63
LEMMA TailByte ==
  ASSUME NEW b \in Int, 0 <= b, b <= 255
  PROVE  /\ b % 64 \in Int /\ 0 <= b % 64 /\ b % 64 <= 63
         /\ b \div 64 = 2 <=> b \in T
         /\ b \in T => b % 64 = b - 128
BY SMT DEF T

LEMMA Surrogate ==
  ASSUME NEW n \in Int, n >= 0 PROVE n \div 2048 = 27 <=> 55296 <= n /\ n <= 57343
BY SMT

LEMMA TwoBytes ==
  ASSUME NEW a \in Int, 192 <= a, a <= 223, NEW b \in Int, 0 <= b, b <= 255,
         NEW n \in Int, n = (a % 32) * 64 + (b % 64)
  PROVE  /\ n \in Nat
         /\ ~ (n < 128 \/ n \div 2048 = 27 \/ n > 1114111 \/ b \div 64 # 2)
            <=> a \in 194 .. 223 /\ b \in T
<1>1. a % 32 \in Int /\ a % 32 = a - 192
  BY SMT
<1>2. b % 64 \in Int /\ 0 <= b % 64 /\ b % 64 <= 63
  BY SMT, TailByte
<1>3. PICK w \in Int, x \in Int : w = a % 32 /\ Low(b, x)
  BY SMT, <1>1, <1>2 DEF Low
<1>4. n = w * 64 + x /\ w = a - 192
  BY SMT, <1>1, <1>3 DEF Low
<1>5. 0 <= n /\ n < 2048 /\ (n < 128 <=> a < 194)
  BY SMT, <1>3, <1>4 DEF Low
<1>6. QED
  BY SMT, <1>5, TailByte, Surrogate DEF T

LEMMA ThreeBytes ==
  ASSUME NEW a \in Int, 224 <= a, a <= 239, NEW b \in Int, 0 <= b, b <= 255, NEW c \in Int, 0 <= c, c <= 255,
         NEW n \in Int, n = (a % 16) * 4096 + (b % 64) * 64 + (c % 64)
  PROVE  /\ n \in Nat
         /\ ~ (n < 2048 \/ n \div 2048 = 27 \/ n > 1114111 \/ b \div 64 # 2 \/ c \div 64 # 2)
            <=> /\ b \in T /\ c \in T
                /\ (a = 224 => b >= 160) /\ (a = 237 => b <= 159)
<1>1. a % 16 \in Int /\ a % 16 = a - 224
  BY SMT
<1>2. PICK w \in Int, x \in Int, y \in Int :
        w = a % 16 /\ Low(b, x) /\ Low(c, y)
  BY SMT, <1>1, TailByte DEF Low
<1>3. n = w * 4096 + x * 64 + y /\ w = a - 224
  BY SMT, <1>1, <1>2 DEF Low
<1>4. 0 <= n /\ n < 65536
  BY SMT, <1>2, <1>3 DEF Low
<1>5. n < 2048 <=> a = 224 /\ x < 32
  BY SMT, <1>2, <1>3 DEF Low
<1>6. 55296 <= n /\ n <= 57343 <=> a = 237 /\ x >= 32
  BY SMT, <1>2, <1>3 DEF Low
<1>7. b \in T => x = b - 128
  BY SMT, TailByte, <1>2 DEF Low
<1>8. QED
  BY SMT, <1>4, <1>5, <1>6, <1>7, TailByte, Surrogate DEF T

LEMMA FourBytes ==
  ASSUME NEW a \in Int, 240 <= a, a <= 247, NEW b \in Int, 0 <= b, b <= 255, NEW c \in Int, 0 <= c, c <= 255, NEW d \in Int, 0 <= d, d <= 255,
         NEW n \in Int,
         n = (a % 8) * 262144 + (b % 64) * 4096 + (c % 64) * 64 + (d % 64)
  PROVE  /\ n \in Nat
         /\ ~ (n < 65536 \/ n \div 2048 = 27 \/ n > 1114111
               \/ b \div 64 # 2 \/ c \div 64 # 2 \/ d \div 64 # 2)
            <=> /\ a <= 244 /\ b \in T /\ c \in T /\ d \in T
                /\ (a = 240 => b >= 144) /\ (a = 244 => b <= 143)
<1>1. a % 8 \in Int /\ a % 8 = a - 240
  BY SMT
<1>2. PICK w \in Int, x \in Int, y \in Int, z \in Int :
        w = a % 8 /\ Low(b, x) /\ Low(c, y) /\ Low(d, z)
  BY SMT, <1>1, TailByte DEF Low
<1>3. n = w * 262144 + x * 4096 + y * 64 + z /\ w = a - 240
  BY SMT, <1>1, <1>2 DEF Low
<1>4. 0 <= n
  BY SMT, <1>2, <1>3 DEF Low
<1>5. n < 65536 <=> a = 240 /\ x < 16
  BY SMT, <1>2, <1>3 DEF Low
<1>6. n > 1114111 <=> a > 244 \/ (a = 244 /\ x >= 16)
  <2>1. a >= 245 => n > 1114111
    BY SMT, <1>2, <1>3 DEF Low
  <2>2. a = 244 => (n > 1114111 <=> x >= 16)
    BY SMT, <1>2, <1>3 DEF Low
  <2>3. a < 244 => n <= 1114111
    BY SMT, <1>2, <1>3 DEF Low
  <2>4. QED
    BY SMT, <2>1, <2>2, <2>3
<1>7. b \in T => x = b - 128
  BY SMT, TailByte, <1>2 DEF Low
<1>8. n >= 65536 => ~ (55296 <= n /\ n <= 57343)
  BY SMT
<1>9. QED
  BY SMT, <1>4, <1>5, <1>6, <1>7, <1>8, TailByte, Surrogate DEF T

(* The well-formed sequences as the bytes they begin with.                 *)
Legal(n, a, b, c, d) ==
  \/ n = 1 /\ 0 <= a /\ a <= 127
  \/ n = 2 /\ 194 <= a /\ a <= 223 /\ b \in T
  \/ n = 3 /\ 224 <= a /\ a <= 239 /\ b \in T /\ c \in T
           /\ (a = 224 => b >= 160) /\ (a = 237 => b <= 159)
  \/ n = 4 /\ 240 <= a /\ a <= 244 /\ b \in T /\ c \in T /\ d \in T
           /\ (a = 240 => b >= 144) /\ (a = 244 => b <= 143)

LEMMA ElementIs ==
  ASSUME NEW S, NEW s \in Seq(S), NEW k \in Nat \ {0}, k <= Len(s) PROVE s[k] \in S
BY SMT

LEMMA AtIs ==
  ASSUME NEW s \in Seq(Byte), NEW k \in Nat \ {0}
  PROVE  /\ At(s, k) \in Int /\ 0 <= At(s, k) /\ At(s, k) <= 255
         /\ k <= Len(s) => At(s, k) = s[k]
         /\ k > Len(s) => At(s, k) = 0
<1>1. k <= Len(s) => s[k] \in Byte
  BY ElementIs
<1>2. \A b \in Byte : b \in Int /\ 0 <= b /\ b <= 255
  BY SMT DEF Byte
<1>3. k \in 1 .. Len(s) <=> k <= Len(s)
  BY SMT
<1>4. 0 \in Byte
  BY <1>2 DEF Byte
<1>5. QED
  BY SMT, <1>1, <1>2, <1>3, <1>4 DEF At

LEMMA SecondIs ==
  ASSUME NEW a \in Int, NEW b \in Int
  PROVE  /\ 224 <= a /\ a <= 239 =>
              (b \in Second(a) <=> b \in T /\ (a = 224 => b >= 160) /\ (a = 237 => b <= 159))
         /\ 240 <= a /\ a <= 244 =>
              (b \in Second(a) <=> b \in T /\ (a = 240 => b >= 144) /\ (a = 244 => b <= 143))
BY SMT DEF Second, T

LEMMA WellFormedIs ==
  ASSUME NEW q \in Seq(Byte), Len(q) \in 1 .. 4
  PROVE  WellFormed(q) <=> Legal(Len(q), q[1], At(q, 2), At(q, 3), At(q, 4))
<1>1. \A k \in 1 .. 4 : At(q, k) \in Int /\ (k <= Len(q) => At(q, k) = q[k])
  BY AtIs
<1>2. PICK a \in Int, b \in Int, c \in Int, d \in Int :
        a = At(q, 1) /\ b = At(q, 2) /\ c = At(q, 3) /\ d = At(q, 4)
  BY <1>1
<1>3. /\ q[1] = a /\ (Len(q) >= 2 => q[2] = b)
      /\ (Len(q) >= 3 => q[3] = c) /\ (Len(q) >= 4 => q[4] = d)
  BY SMT, <1>1, <1>2
<1>4. CASE Len(q) = 1
  <2>1. WellFormed(q) <=> a \in 0 .. 127
    BY SMT, <1>3, <1>4 DEF WellFormed
  <2>2. Legal(1, a, b, c, d) <=> a \in 0 .. 127
    BY SMT, SecondIs DEF Legal
  <2>3. QED
    BY <1>2, <1>3, <1>4, <2>1, <2>2, Zenon
<1>5. CASE Len(q) = 2
  <2>1. WellFormed(q) <=> a \in 194 .. 223 /\ b \in T
    BY SMT, <1>3, <1>5 DEF WellFormed
  <2>2. Legal(2, a, b, c, d) <=> a \in 194 .. 223 /\ b \in T
    BY SMT, SecondIs DEF Legal
  <2>3. QED
    BY <1>2, <1>3, <1>5, <2>1, <2>2, Zenon
<1>6. CASE Len(q) = 3
  <2>1. WellFormed(q) <=> a \in 224 .. 239 /\ b \in Second(a) /\ c \in T
    BY SMT, <1>3, <1>6 DEF WellFormed
  <2>2. Legal(3, a, b, c, d) <=> a \in 224 .. 239 /\ b \in Second(a) /\ c \in T
    BY SMT, SecondIs DEF Legal
  <2>3. QED
    BY <1>2, <1>3, <1>6, <2>1, <2>2, Zenon
<1>7. CASE Len(q) = 4
  <2>1. WellFormed(q) <=> a \in 240 .. 244 /\ b \in Second(a) /\ c \in T /\ d \in T
    BY SMT, <1>3, <1>7 DEF WellFormed
  <2>2. Legal(4, a, b, c, d) <=> a \in 240 .. 244 /\ b \in Second(a) /\ c \in T /\ d \in T
    BY SMT, SecondIs DEF Legal
  <2>3. QED
    BY <1>2, <1>3, <1>7, <2>1, <2>2, Zenon
<1>8. QED
  BY <1>4, <1>5, <1>6, <1>7

LEMMA SubSeqIs ==
  ASSUME NEW S, NEW s \in Seq(S), NEW p \in Nat \ {0}, NEW e \in Nat, p <= e + 1, e <= Len(s)
  PROVE  /\ SubSeq(s, p, e) \in Seq(S) /\ Len(SubSeq(s, p, e)) = e - p + 1
         /\ \A k \in 1 .. e - p + 1 : SubSeq(s, p, e)[k] = s[p + k - 1]
BY SMT

LEMMA PrefixIs ==
  ASSUME NEW s \in Seq(Byte), NEW p \in 1 .. Len(s), NEW n \in 1 .. 4, p + n - 1 <= Len(s)
  PROVE  WellFormed(SubSeq(s, p, p + n - 1))
           <=> Legal(n, s[p], At(s, p + 1), At(s, p + 2), At(s, p + 3))
<1> DEFINE q == SubSeq(s, p, p + n - 1)
<1>1. /\ q \in Seq(Byte) /\ Len(q) = n
      /\ \A k \in 1 .. n : q[k] = s[p + k - 1]
  BY SMT, SubSeqIs
<1> HIDE DEF q
<1>2. q[1] = s[p] /\ \A k \in 2 .. n : At(q, k) = At(s, p + k - 1)
  BY SMT, <1>1 DEF At
<1>3. WellFormed(q) <=> Legal(n, q[1], At(q, 2), At(q, 3), At(q, 4))
  BY <1>1, WellFormedIs, Zenon
<1>4. /\ n >= 2 => At(q, 2) = At(s, p + 1)
      /\ n >= 3 => At(q, 3) = At(s, p + 2)
      /\ n >= 4 => At(q, 4) = At(s, p + 3)
  BY SMT, <1>2
<1>5. QED
  BY SMT, <1>2, <1>3, <1>4 DEF Legal, q

(* What follows from the first byte.                                       *)
LEMMA LengthIs ==
  ASSUME NEW a \in Int, 0 <= a, a <= 255
  PROVE  /\ LengthOf(a) \in 0 .. 4
         /\ LengthOf(a) = 1 <=> a < 128
         /\ LengthOf(a) = 2 <=> 192 <= a /\ a <= 223
         /\ LengthOf(a) = 3 <=> 224 <= a /\ a <= 239
         /\ LengthOf(a) = 4 <=> 240 <= a /\ a <= 247
BY SMT DEF LengthOf

Errs(s, p) ==
  \/ LengthOf(s[p]) = 0 \/ CodePoint(s, p) < Least[LengthOf(s[p])]
  \/ CodePoint(s, p) \div 2048 = 27 \/ CodePoint(s, p) > Highest
  \/ \E i \in 1 .. LengthOf(s[p]) - 1 : At(s, p + i) \div 64 # 2

LEMMA DecodeWhen ==
  ASSUME NEW s, NEW p
  PROVE  Decode(s, p) = IF Errs(s, p) THEN [cp |-> Invalid, len |-> 1]
                        ELSE [cp |-> CodePoint(s, p), len |-> LengthOf(s[p])]
BY Zenon DEF Decode, Errs

LEMMA ErrsWhen ==
  ASSUME NEW s \in Seq(Byte), NEW p \in 1 .. Len(s)
  PROVE  /\ LengthOf(s[p]) \in 0 .. 4
         /\ ~ Errs(s, p) => CodePoint(s, p) \in Nat
         /\ ~ Errs(s, p) <=>
              Legal(LengthOf(s[p]), s[p], At(s, p + 1), At(s, p + 2), At(s, p + 3))
<1> DEFINE n == LengthOf(s[p])
<1>1. s[p] \in Int /\ 0 <= s[p] /\ s[p] <= 255
  BY SMT, AtIs
<1>2. PICK a \in Int, b \in Int, c \in Int, d \in Int :
        a = s[p] /\ b = At(s, p + 1) /\ c = At(s, p + 2) /\ d = At(s, p + 3)
  BY AtIs
<1>3. /\ 0 <= a /\ a <= 255 /\ 0 <= b /\ b <= 255
      /\ 0 <= c /\ c <= 255 /\ 0 <= d /\ d <= 255
  BY <1>1, <1>2, AtIs
<1>9. n \in 0 .. 4
  BY SMT, <1>1, LengthIs
<1>4. CASE n = 0
  BY SMT, <1>4 DEF Errs, Legal, Highest
<1>5. CASE n = 1
  <2>1. CodePoint(s, p) = s[p] /\ Least[n] = 0 /\ s[p] < 128
    BY SMT, <1>1, <1>5, LengthIs DEF CodePoint, Least
  <2>2. s[p] \div 2048 # 27
    BY SMT, <1>1, <2>1
  <2>3. QED
    BY SMT, <1>1, <1>5, <2>1, <2>2 DEF Errs, Legal, Highest
<1>6. CASE n = 2
  <2>1. CodePoint(s, p) = (a % 32) * 64 + (b % 64) /\ Least[n] = 128
    BY SMT, <1>2, <1>6 DEF CodePoint, Least
  <2>2. 192 <= a /\ a <= 223
    BY <1>1, <1>2, <1>6, LengthIs
  <2>3. PICK m \in Int : m = (a % 32) * 64 + (b % 64)
    BY SMT
  <2>4. m = CodePoint(s, p)
    BY <2>1, <2>3
  <2>5. Errs(s, p) <=> \/ m < 128 \/ m \div 2048 = 27 \/ m > Highest
                       \/ b \div 64 # 2
    BY SMT, <1>2, <1>6, <2>1, <2>4 DEF Errs
  <2>6. m \in Nat /\ (~ Errs(s, p) <=> a \in 194 .. 223 /\ b \in T)
    BY SMT, <1>3, <2>2, <2>3, <2>5, TwoBytes DEF Highest
  <2>7. Legal(2, a, b, c, d) <=> a \in 194 .. 223 /\ b \in T
    BY SMT, <2>2 DEF Legal
  <2>8. QED
    BY <1>2, <1>6, <1>9, <2>4, <2>6, <2>7, Zenon
<1>7. CASE n = 3
  <2>1. CodePoint(s, p) = (a % 16) * 4096 + ((b % 64) * 64) + (c % 64) /\ Least[n] = 2048
    BY SMT, <1>2, <1>7 DEF CodePoint, Least
  <2>2. 224 <= a /\ a <= 239
    BY <1>1, <1>2, <1>7, LengthIs
  <2>3. PICK m \in Int : m = (a % 16) * 4096 + ((b % 64) * 64) + (c % 64)
    BY SMT
  <2>4. m = CodePoint(s, p)
    BY <2>1, <2>3
  <2>5. Errs(s, p) <=> \/ m < 2048 \/ m \div 2048 = 27 \/ m > Highest
                       \/ b \div 64 # 2 \/ c \div 64 # 2
    BY SMT, <1>2, <1>7, <2>1, <2>4 DEF Errs
  <2>6. m \in Nat /\ (~ Errs(s, p) <=> 
       /\ b \in T /\ c \in T /\ (a = 224 => b >= 160) /\ (a = 237 => b <= 159))
    BY SMT, <1>3, <2>2, <2>3, <2>5, ThreeBytes DEF Highest
  <2>7. Legal(3, a, b, c, d) <=> 
       /\ b \in T /\ c \in T /\ (a = 224 => b >= 160) /\ (a = 237 => b <= 159)
    BY SMT, <2>2 DEF Legal
  <2>8. QED
    BY <1>2, <1>7, <1>9, <2>4, <2>6, <2>7, Zenon
<1>8. CASE n = 4
  <2>1. CodePoint(s, p) = (a % 8) * 262144 + ((b % 64) * 4096) + ((c % 64) * 64) + (d % 64) /\ Least[n] = 65536
    BY SMT, <1>2, <1>8 DEF CodePoint, Least
  <2>2. 240 <= a /\ a <= 247
    BY <1>1, <1>2, <1>8, LengthIs
  <2>3. PICK m \in Int : m = (a % 8) * 262144 + ((b % 64) * 4096) + ((c % 64) * 64) + (d % 64)
    BY SMT
  <2>4. m = CodePoint(s, p)
    BY <2>1, <2>3
  <2>5. Errs(s, p) <=> \/ m < 65536 \/ m \div 2048 = 27 \/ m > Highest
                       \/ b \div 64 # 2 \/ c \div 64 # 2 \/ d \div 64 # 2
    BY SMT, <1>2, <1>8, <2>1, <2>4 DEF Errs
  <2>6. m \in Nat /\ (~ Errs(s, p) <=> 
       /\ a <= 244 /\ b \in T /\ c \in T /\ d \in T
       /\ (a = 240 => b >= 144) /\ (a = 244 => b <= 143))
    BY SMT, <1>3, <2>2, <2>3, <2>5, FourBytes DEF Highest
  <2>7. Legal(4, a, b, c, d) <=> 
       /\ a <= 244 /\ b \in T /\ c \in T /\ d \in T
       /\ (a = 240 => b >= 144) /\ (a = 244 => b <= 143)
    BY SMT, <2>2 DEF Legal
  <2>8. QED
    BY <1>2, <1>8, <1>9, <2>4, <2>6, <2>7, Zenon
<1>10. QED
  BY <1>4, <1>5, <1>6, <1>7, <1>8, <1>9

(* A well-formed sequence is as long as its first byte says and stands in  *)
(* the string.                                                             *)
LEMMA LegalFits ==
  ASSUME NEW s \in Seq(Byte), NEW p \in 1 .. Len(s)
  PROVE  \A n : Legal(n, s[p], At(s, p + 1), At(s, p + 2), At(s, p + 3)) =>
           n = LengthOf(s[p]) /\ n \in 1 .. 4 /\ p + n - 1 <= Len(s)
<1>1. s[p] \in Int /\ 0 <= s[p] /\ s[p] <= 255
  BY SMT, AtIs
<1>2. \A i \in 1 .. 3 : p + i > Len(s) => At(s, p + i) \notin T
  <2>1. \A i \in 1 .. 3 : p + i > Len(s) => At(s, p + i) = 0
    BY AtIs
  <2>2. 0 \notin T
    BY SMT DEF T
  <2>3. QED
    BY <2>1, <2>2, Zenon
<1>3. QED
  BY SMT, <1>1, <1>2, LengthIs DEF Legal

(* The decoder takes the well-formed sequence that begins at p or, if none *)
(* does, one byte as an error.                                             *)
LEMMA DecodeIs ==
  ASSUME NEW s \in Seq(Byte), NEW p \in 1 .. Len(s)
  PROVE  /\ Decode(s, p).cp \in Nat \cup {Invalid} /\ Decode(s, p).len \in 1 .. 4
         /\ p + Decode(s, p).len - 1 <= Len(s)
         /\ Decode(s, p).cp # Invalid =>
              WellFormed(SubSeq(s, p, p + Decode(s, p).len - 1))
         /\ Decode(s, p).cp = Invalid =>
              /\ Decode(s, p).len = 1
              /\ \A n \in 1 .. 4 : p + n - 1 <= Len(s) => ~ WellFormed(SubSeq(s, p, p + n - 1))
<1>1. \A n : Legal(n, s[p], At(s, p + 1), At(s, p + 2), At(s, p + 3)) =>
        n = LengthOf(s[p]) /\ n \in 1 .. 4 /\ p + n - 1 <= Len(s)
  BY LegalFits
<1>2. CASE Errs(s, p)
  <2>1. Decode(s, p).cp = Invalid /\ Decode(s, p).len = 1
    BY SMT, <1>2, DecodeWhen
  <2>2. \A n \in 1 .. 4 : p + n - 1 <= Len(s) => ~ WellFormed(SubSeq(s, p, p + n - 1))
    BY SMT, <1>1, <1>2, ErrsWhen, PrefixIs
  <2>3. QED
    BY SMT, <2>1, <2>2
<1>3. CASE ~ Errs(s, p)
  <2>1. Decode(s, p).cp = CodePoint(s, p) /\ Decode(s, p).len = LengthOf(s[p])
    BY SMT, <1>3, DecodeWhen
  <2>2. LengthOf(s[p]) \in 1 .. 4 /\ p + LengthOf(s[p]) - 1 <= Len(s)
    BY SMT, <1>1, <1>3, ErrsWhen
  <2>3. WellFormed(SubSeq(s, p, p + LengthOf(s[p]) - 1))
    BY SMT, <1>3, <2>2, ErrsWhen, PrefixIs
  <2>4. CodePoint(s, p) \in Nat /\ CodePoint(s, p) # Invalid
    BY SMT, <1>3, ErrsWhen DEF Invalid
  <2>5. QED
    BY SMT, <2>1, <2>2, <2>3, <2>4
<1>4. QED
  BY SMT, <1>2, <1>3

-----------------------------------------------------------------------------
(* The pieces of a string: the i-th is what the decoder finds behind the   *)
(* one before it.                                                          *)

Piece      == [cp: Nat \cup {Invalid}, from: Nat, to: Nat]
From(q, i) == IF i = 1 THEN 1 ELSE q[i - 1].to + 1
IsCut(s, q) ==
  \A i \in 1 .. Len(q) : From(q, i) \in 1 .. Len(s) /\ q[i] = PieceAt(s, From(q, i))
Cuts(s) == {q \in Seq(Piece) : IsCut(s, q)}

LEMMA PieceAtIs ==
  ASSUME NEW s \in Seq(Byte), NEW p \in 1 .. Len(s)
  PROVE  /\ PieceAt(s, p) \in Piece
         /\ PieceAt(s, p).cp = Decode(s, p).cp
         /\ PieceAt(s, p).from = p /\ p <= PieceAt(s, p).to
         /\ PieceAt(s, p).to = p + Decode(s, p).len - 1
         /\ PieceAt(s, p).to <= Len(s)
BY DecodeIs DEF PieceAt, Piece

LEMMA EndIs ==
  ASSUME NEW s \in Seq(Byte), NEW q \in Cuts(s)
  PROVE  /\ EndOfPieces(q) \in 0 .. Len(s) /\ Len(q) <= EndOfPieces(q)
         /\ \A i \in 1 .. Len(q) :
              /\ q[i] \in Piece /\ q[i].from = From(q, i) /\ From(q, i) \in 1 .. Len(s)
              /\ q[i].cp = Decode(s, From(q, i)).cp
              /\ q[i].to = From(q, i) + Decode(s, From(q, i)).len - 1
              /\ q[i].from <= q[i].to /\ q[i].to <= Len(s)
<1>1. q \in Seq(Piece)
  BY DEF Cuts
<1>2. \A i \in 1 .. Len(q) :
        /\ q[i] \in Piece /\ q[i].from = From(q, i) /\ From(q, i) \in 1 .. Len(s)
        /\ q[i].cp = Decode(s, From(q, i)).cp
        /\ q[i].to = From(q, i) + Decode(s, From(q, i)).len - 1
        /\ q[i].from <= q[i].to /\ q[i].to <= Len(s)
  BY PieceAtIs DEF Cuts, IsCut
<1>3. \A i \in Nat : i \in 1 .. Len(q) => i <= q[i].to
  <2> DEFINE P == {i \in Nat : i \in 1 .. Len(q) => i <= q[i].to}
  <2>1. 0 \in P
    OBVIOUS
  <2>2. ASSUME NEW i \in Nat, i \in P PROVE i + 1 \in P
    <3> SUFFICES ASSUME i + 1 \in 1 .. Len(q) PROVE i + 1 <= q[i + 1].to
      OBVIOUS
    <3>1. q[i + 1].from = From(q, i + 1) /\ q[i + 1].from <= q[i + 1].to /\ q[i + 1] \in Piece
      BY <1>2
    <3>2. CASE i = 0
      BY <3>1, <3>2 DEF From, Piece
    <3>3. CASE i # 0
      <4>1. i \in 1 .. Len(q) /\ i + 1 # 1 /\ (i + 1) - 1 = i
        BY <1>1, <3>3
      <4>2. From(q, i + 1) = q[i].to + 1 /\ i <= q[i].to /\ q[i] \in Piece
        BY <1>2, <2>2, <4>1 DEF From
      <4>3. QED
        BY <3>1, <4>2 DEF Piece
    <3>4. QED
      BY <3>2, <3>3
  <2> HIDE DEF P
  <2>3. Nat \subseteq P
    BY <2>1, <2>2, NatSetInduction
  <2>4. QED
    BY <2>3 DEF P
<1>4. CASE q = <<>>
  BY <1>2, <1>4 DEF EndOfPieces
<1>5. CASE q # <<>>
  <2>1. Len(q) \in 1 .. Len(q) /\ Len(q) \in Nat
    BY <1>1, <1>5
  <2>2. EndOfPieces(q) = q[Len(q)].to /\ q[Len(q)] \in Piece
    BY <1>2, <1>5, <2>1 DEF EndOfPieces
  <2>3. q[Len(q)].to \in Nat
    BY <2>2 DEF Piece
  <2>4. QED
    BY <1>2, <1>3, <2>1, <2>2, <2>3
<1>6. QED
  BY <1>4, <1>5

LEMMA NextPieceIs ==
  ASSUME NEW s \in Seq(Byte), NEW q \in Cuts(s)
  PROVE  /\ NextPiece(s, q) \in Cuts(s)
         /\ EndOfPieces(q) = Len(s) => NextPiece(s, q) = q
         /\ EndOfPieces(q) # Len(s) =>
              EndOfPieces(NextPiece(s, q)) > EndOfPieces(q)
<1> DEFINE p == EndOfPieces(q) + 1
           x == PieceAt(s, p)
<1>1. EndOfPieces(q) \in 0 .. Len(s) /\ q \in Seq(Piece) /\ Len(s) \in Nat
  BY EndIs DEF Cuts
<1>2. CASE EndOfPieces(q) = Len(s)
  BY <1>1, <1>2 DEF NextPiece
<1>3. CASE EndOfPieces(q) # Len(s)
  <2>1. p \in 1 .. Len(s) /\ NextPiece(s, q) = Append(q, x)
    BY <1>1, <1>3 DEF NextPiece
  <2>2. x \in Piece /\ p <= x.to /\ x.to \in Nat
    BY <2>1, PieceAtIs DEF Piece
  <2>3. p = From(Append(q, x), Len(q) + 1)
    BY <1>1, <2>2 DEF EndOfPieces, From
  <2> HIDE DEF x, p
  <2>4. /\ Append(q, x) \in Seq(Piece) /\ Len(Append(q, x)) = Len(q) + 1
        /\ \A i \in 1 .. Len(q) : Append(q, x)[i] = q[i]
        /\ Append(q, x)[Len(q) + 1] = x
    BY <1>1, <2>2
  <2>5. \A i \in 1 .. Len(q) : From(Append(q, x), i) = From(q, i)
    BY <1>1, <2>4 DEF From
  <2>6. ASSUME NEW i \in 1 .. Len(q) + 1
        PROVE  /\ From(Append(q, x), i) \in 1 .. Len(s)
               /\ Append(q, x)[i] = PieceAt(s, From(Append(q, x), i))
    <3>1. CASE i \in 1 .. Len(q)
      BY <2>4, <2>5, <3>1 DEF Cuts, IsCut
    <3>2. CASE i = Len(q) + 1
      BY <2>1, <2>3, <2>4, <3>2 DEF x
    <3>3. QED
      BY <1>1, <3>1, <3>2
  <2>7. Append(q, x) \in Cuts(s)
    BY <2>4, <2>6 DEF Cuts, IsCut
  <2>8. EndOfPieces(Append(q, x)) = x.to
    BY <1>1, <2>4 DEF EndOfPieces
  <2>9. QED
    BY <1>1, <1>3, <2>1, <2>2, <2>7, <2>8 DEF p
<1>4. QED
  BY <1>2, <1>3

PiecesOf(s) ==
  CHOOSE f : f = [n \in Nat |-> IF n = 0 THEN <<>> ELSE NextPiece(s, f[n - 1])]

LEMMA PiecesOfIs ==
  ASSUME NEW s \in Seq(Byte)
  PROVE  /\ PiecesOf(s) \in [Nat -> Cuts(s)] /\ PiecesOf(s)[0] = <<>>
         /\ \A n \in Nat : PiecesOf(s)[n + 1] = NextPiece(s, PiecesOf(s)[n])
<1> DEFINE S     == Cuts(s)
           d     == [p \in S \X Nat |-> NextPiece(s, p[1])]
           Is(f) == f = [n \in Nat |-> IF n = 0 THEN <<>> ELSE NextPiece(s, f[n - 1])]
<1>1. <<>> \in S
  BY DEF Cuts, IsCut
<1>2. d \in [S \X Nat -> S]
  BY NextPieceIs
<1>3. \E f : Is(f)
  <2> HIDE DEF d
  <2>1. PICK f \in [Nat -> S] : f[0] = <<>> /\ \A n \in Nat : f[n + 1] = d[<<f[n], n>>]
    <3>1. PICK f : Recursion(f, S, <<>>, d)
      BY <1>1, <1>2, NatRecursion
    <3>2. QED
      BY <3>1 DEF Recursion
  <2>2. \A n \in Nat : f[n + 1] = NextPiece(s, f[n])
    BY <2>1 DEF d
  <2>3. \A n \in Nat : n # 0 => f[n] = NextPiece(s, f[n - 1])
    <3> SUFFICES ASSUME NEW n \in Nat, n # 0 PROVE f[n] = NextPiece(s, f[n - 1])
      OBVIOUS
    <3>1. n - 1 \in Nat /\ (n - 1) + 1 = n
      OBVIOUS
    <3>2. f[(n - 1) + 1] = NextPiece(s, f[n - 1])
      BY <2>2, <3>1
    <3>3. QED
      BY <3>1, <3>2
  <2>4. QED
    BY <2>1, <2>3
<1> DEFINE f == PiecesOf(s)
<1>4. Is(f)
  <2>1. PiecesOf(s) = CHOOSE g : Is(g)
    BY DEF PiecesOf
  <2>2. QED
    BY <1>3, <2>1
<1> HIDE DEF f, S
<1>5. f[0] = <<>> /\ \A n \in Nat : f[n + 1] = NextPiece(s, f[n])
  <2>1. \A n \in Nat : n + 1 \in Nat /\ n + 1 # 0 /\ (n + 1) - 1 = n
    OBVIOUS
  <2>2. QED
    BY <1>4, <2>1
<1>6. Nat \subseteq {n \in Nat : f[n] \in S}
  <2> DEFINE P == {n \in Nat : f[n] \in S}
  <2>1. 0 \in P
    BY <1>1, <1>5
  <2>2. ASSUME NEW n \in Nat, n \in P PROVE n + 1 \in P
    <3>1. f[n] \in Cuts(s) /\ f[n + 1] = NextPiece(s, f[n])
      BY <1>5, <2>2 DEF S
    <3>2. f[n + 1] \in S
      BY <3>1, NextPieceIs DEF S
    <3>3. QED
      BY <3>2
  <2> HIDE DEF P
  <2>3. QED
    BY <2>1, <2>2, NatSetInduction DEF P
<1>7. f \in [Nat -> S]
  BY <1>4, <1>6
<1>8. QED
  BY <1>5, <1>7 DEF f, S

LEMMA PiecesIs ==
  ASSUME NEW s
  PROVE  Pieces(s) = PiecesOf(s)[Len(s)]
BY DEF Pieces, PiecesOf

(* The pieces of a string are cut one behind the other, up to its end.     *)
LEMMA PiecesAre ==
  ASSUME NEW s \in Seq(Byte)
  PROVE  Pieces(s) \in Cuts(s) /\ EndOfPieces(Pieces(s)) = Len(s)
<1> DEFINE F == PiecesOf(s)
           P == {n \in Nat : n <= Len(s) => EndOfPieces(F[n]) >= n}
<1>1. \A n \in Nat : F[n] \in Cuts(s) /\ EndOfPieces(F[n]) \in 0 .. Len(s)
  BY PiecesOfIs, EndIs
<1>2. F[0] = <<>> /\ \A n \in Nat : F[n + 1] = NextPiece(s, F[n])
  BY PiecesOfIs
<1> HIDE DEF F
<1>3. 0 \in P
  BY <1>1
<1>4. ASSUME NEW n \in Nat, n \in P PROVE n + 1 \in P
  <2>1. EndOfPieces(F[n]) = Len(s) \/ EndOfPieces(F[n + 1]) > EndOfPieces(F[n])
    BY <1>1, <1>2, NextPieceIs
  <2>2. EndOfPieces(F[n]) = Len(s) => F[n + 1] = F[n]
    BY <1>1, <1>2, NextPieceIs
  <2>3. /\ Len(s) \in Nat /\ EndOfPieces(F[n]) \in Nat /\ EndOfPieces(F[n + 1]) \in Nat
        /\ n <= Len(s) => EndOfPieces(F[n]) >= n
    BY <1>1, <1>4
  <2>4. n + 1 <= Len(s) => EndOfPieces(F[n + 1]) >= n + 1
    BY <2>1, <2>2, <2>3
  <2>5. QED
    BY <2>4
<1> HIDE DEF P
<1>5. Nat \subseteq P
  BY <1>3, <1>4, NatSetInduction
<1>6. Len(s) \in Nat
  OBVIOUS
<1>7. EndOfPieces(F[Len(s)]) = Len(s)
  BY <1>1, <1>5, <1>6 DEF P
<1>8. QED
  BY <1>1, <1>6, <1>7, PiecesIs DEF F

(* The decoder never skips, repeats or runs past a byte of any string of   *)
(* any length and takes as code points exactly the well-formed sequences.  *)
(* (utf8_decode, for_each_codepoint.)                                      *)
THEOREM OnlyWellFormed == Spec => []DecodesWellFormedOnly
<1>1. Init => call \in Calls
  BY DEF Init
<1>2. call \in Calls /\ [Next]_vars => (call \in Calls)'
  BY DEF Next, NullPointer, Measure, WritePadded, Done, vars
<1>3. call \in Calls => DecodesWellFormedOnly
  <2> SUFFICES ASSUME call \in Calls PROVE DecodesWellFormedOnly
    OBVIOUS
  <2> DEFINE s == call.s
             q == Pieces(s)
  <2>1. s \in Seq(Byte)
    BY CallsAreTyped
  <2>2. q \in Cuts(s) /\ EndOfPieces(q) = Len(s) /\ q \in Seq(Piece)
    BY <2>1, PiecesAre DEF Cuts
  <2> HIDE DEF q, s
  <2>3. ASSUME NEW i \in 1 .. Len(q)
        PROVE  LET piece == SubSeq(s, q[i].from, q[i].to) IN
               /\ q[i].from = IF i = 1 THEN 1 ELSE q[i - 1].to + 1
               /\ q[i].to <= Len(s) /\ (i = Len(q) => q[i].to = Len(s))
               /\ q[i].cp # Invalid => WellFormed(piece)
               /\ q[i].cp = Invalid =>
                    \A n \in 1 .. 4 : q[i].from + n - 1 <= Len(s) =>
                      ~ WellFormed(SubSeq(s, q[i].from, q[i].from + n - 1))
    <3>1. /\ q[i].from = From(q, i) /\ From(q, i) \in 1 .. Len(s)
          /\ q[i].cp = Decode(s, From(q, i)).cp
          /\ q[i].to = From(q, i) + Decode(s, From(q, i)).len - 1 /\ q[i].to <= Len(s)
      BY <2>1, <2>2, EndIs
    <3>2. i = Len(q) => q[i].to = Len(s)
      BY <2>2 DEF EndOfPieces
    <3>3. /\ q[i].cp # Invalid => WellFormed(SubSeq(s, q[i].from, q[i].to))
          /\ q[i].cp = Invalid =>
               \A n \in 1 .. 4 : q[i].from + n - 1 <= Len(s) =>
                 ~ WellFormed(SubSeq(s, q[i].from, q[i].from + n - 1))
      BY <2>1, <3>1, DecodeIs
    <3>4. QED
      BY <3>1, <3>2, <3>3 DEF From
  <2>4. DOMAIN q = 1 .. Len(q)
    BY <2>2
  <2>5. QED
    BY <2>3, <2>4 DEF DecodesWellFormedOnly, q, s
<1>4. QED
  BY <1>1, <1>2, <1>3, PTL DEF Spec

-----------------------------------------------------------------------------
(* The same bytes are decoded alike: a code point wherever they stand, an  *)
(* error if no more bytes follow than before.                              *)

LEMMA LegalSame ==
  ASSUME NEW s \in Seq(Byte), NEW p \in 1 .. Len(s), NEW t \in Seq(Byte), NEW u \in 1 .. Len(t),
         NEW n \in 1 .. 4,
         \A k \in 0 .. n - 1 : p + k <= Len(s) /\ u + k <= Len(t) /\ t[u + k] = s[p + k]
  PROVE  /\ t[u] = s[p]
         /\ Legal(n, t[u], At(t, u + 1), At(t, u + 2), At(t, u + 3))
              <=> Legal(n, s[p], At(s, p + 1), At(s, p + 2), At(s, p + 3))
         /\ LengthOf(s[p]) = n => CodePoint(t, u) = CodePoint(s, p)
<1>1. t[u] = s[p]
  <2>1. 0 \in 0 .. n - 1 /\ u + 0 = u /\ p + 0 = p
    OBVIOUS
  <2>2. QED
    BY <2>1
<1>2. ASSUME NEW k \in 1 .. n - 1 PROVE At(t, u + k) = At(s, p + k)
  <2>1. k \in 0 .. n - 1 /\ u + k \in Nat \ {0} /\ p + k \in Nat \ {0}
    OBVIOUS
  <2>2. p + k <= Len(s) /\ u + k <= Len(t) /\ t[u + k] = s[p + k]
    BY <2>1
  <2>3. At(t, u + k) = t[u + k] /\ At(s, p + k) = s[p + k]
    BY <2>1, <2>2, AtIs
  <2>4. QED
    BY <2>2, <2>3
<1>3. /\ n >= 2 => At(t, u + 1) = At(s, p + 1)
      /\ n >= 3 => At(t, u + 2) = At(s, p + 2)
      /\ n >= 4 => At(t, u + 3) = At(s, p + 3)
  BY <1>2
<1>4. Legal(n, t[u], At(t, u + 1), At(t, u + 2), At(t, u + 3))
        <=> Legal(n, s[p], At(s, p + 1), At(s, p + 2), At(s, p + 3))
  BY SMT, <1>1, <1>3 DEF Legal
<1>5. LengthOf(s[p]) = n => CodePoint(t, u) = CodePoint(s, p)
  BY SMT, <1>1, <1>3 DEF CodePoint
<1>6. QED
  BY <1>1, <1>4, <1>5

LEMMA DecodesTo ==
  ASSUME NEW s \in Seq(Byte), NEW p \in 1 .. Len(s)
  PROVE  /\ Decode(s, p).cp = Invalid <=> Errs(s, p)
         /\ Errs(s, p) => Decode(s, p) = [cp |-> Invalid, len |-> 1]
         /\ ~ Errs(s, p) => Decode(s, p) = [cp |-> CodePoint(s, p), len |-> LengthOf(s[p])]
BY DecodeWhen, ErrsWhen DEF Invalid

LEMMA ValidSame ==
  ASSUME NEW s \in Seq(Byte), NEW p \in 1 .. Len(s), NEW t \in Seq(Byte), NEW u \in 1 .. Len(t),
         Decode(s, p).cp # Invalid,
         \A k \in 0 .. Decode(s, p).len - 1 : u + k <= Len(t) /\ t[u + k] = s[p + k]
  PROVE  Decode(t, u) = Decode(s, p)
<1> DEFINE n == LengthOf(s[p])
<1>1. ~ Errs(s, p) /\ Decode(s, p) = [cp |-> CodePoint(s, p), len |-> n]
  BY DecodesTo
<1>2. Legal(n, s[p], At(s, p + 1), At(s, p + 2), At(s, p + 3)) /\ n \in 1 .. 4
      /\ p + n - 1 <= Len(s)
  BY <1>1, ErrsWhen, LegalFits
<1> HIDE DEF n
<1>3. \A k \in 0 .. n - 1 : p + k <= Len(s) /\ u + k <= Len(t) /\ t[u + k] = s[p + k]
  BY <1>1, <1>2
<1>4. /\ t[u] = s[p] /\ CodePoint(t, u) = CodePoint(s, p)
      /\ Legal(n, t[u], At(t, u + 1), At(t, u + 2), At(t, u + 3))
  BY <1>2, <1>3, LegalSame DEF n
<1>5. ~ Errs(t, u)
  BY <1>4, ErrsWhen DEF n
<1>6. QED
  BY <1>1, <1>4, <1>5, DecodesTo DEF n

LEMMA InvalidSame ==
  ASSUME NEW s \in Seq(Byte), NEW p \in 1 .. Len(s), NEW t \in Seq(Byte), NEW u \in 1 .. Len(t),
         Decode(s, p).cp = Invalid,
         \A k \in 0 .. 3 : u + k <= Len(t) => p + k <= Len(s) /\ t[u + k] = s[p + k]
  PROVE  Decode(t, u) = Decode(s, p)
<1>1. Errs(s, p) /\ Decode(s, p) = [cp |-> Invalid, len |-> 1]
  BY DecodesTo
<1>2. SUFFICES ASSUME ~ Errs(t, u) PROVE FALSE
  BY <1>1, DecodesTo
<1> DEFINE n == LengthOf(t[u])
<1>3. Legal(n, t[u], At(t, u + 1), At(t, u + 2), At(t, u + 3)) /\ n \in 1 .. 4
      /\ u + n - 1 <= Len(t)
  BY <1>2, ErrsWhen, LegalFits
<1> HIDE DEF n
<1>4. ASSUME NEW k \in 0 .. n - 1
      PROVE  p + k <= Len(s) /\ u + k <= Len(t) /\ t[u + k] = s[p + k]
  <2>1. k \in 0 .. 3 /\ u + k <= Len(t)
    BY <1>3
  <2>2. QED
    BY <2>1
<1>5. t[u] = s[p] /\ Legal(n, s[p], At(s, p + 1), At(s, p + 2), At(s, p + 3))
  BY <1>3, <1>4, LegalSame
<1>6. ~ Errs(s, p)
  BY <1>5, ErrsWhen DEF n
<1>7. QED
  BY <1>1, <1>6

-----------------------------------------------------------------------------
(* A string that ends where one of the pieces does has the pieces up to    *)
(* there.                                                                  *)

(* There is one way to cut a string.                                       *)
LEMMA CutsMatch ==
  ASSUME NEW s \in Seq(Byte), NEW q \in Cuts(s), NEW r \in Cuts(s),
         EndOfPieces(q) = Len(s), EndOfPieces(r) = Len(s)
  PROVE  \A i \in 1 .. Len(q) : i \in 1 .. Len(r) /\ r[i] = q[i]
<1> DEFINE P == {i \in Nat : i \in 1 .. Len(q) => i \in 1 .. Len(r) /\ r[i] = q[i]}
<1>1. q \in Seq(Piece) /\ r \in Seq(Piece) /\ Len(q) \in Nat /\ Len(r) \in Nat
  BY DEF Cuts
<1>2. /\ \A i \in 1 .. Len(q) : From(q, i) \in 1 .. Len(s) /\ q[i] = PieceAt(s, From(q, i))
      /\ \A i \in 1 .. Len(r) : From(r, i) \in 1 .. Len(s) /\ r[i] = PieceAt(s, From(r, i))
  BY DEF Cuts, IsCut
<1>3. 0 \in P
  OBVIOUS
<1>4. ASSUME NEW i \in Nat, i \in P PROVE i + 1 \in P
  <2> SUFFICES ASSUME i + 1 \in 1 .. Len(q)
               PROVE  i + 1 \in 1 .. Len(r) /\ r[i + 1] = q[i + 1]
    OBVIOUS
  <2>1. i + 1 \in 1 .. Len(r) /\ From(r, i + 1) = From(q, i + 1)
    <3>1. CASE i = 0
      <4>1. From(q, 1) = 1 /\ From(r, 1) = 1 /\ Len(s) # 0
        BY <1>2, <3>1 DEF From
      <4>2. Len(r) # 0
        BY <4>1 DEF EndOfPieces
      <4>3. QED
        BY <1>1, <3>1, <4>1, <4>2
    <3>2. CASE i # 0
      <4>1. i \in 1 .. Len(q) /\ i \in 1 .. Len(r) /\ r[i] = q[i] /\ (i + 1) - 1 = i /\ i + 1 # 1
        BY <1>1, <1>4, <3>2
      <4>2. From(q, i + 1) = q[i].to + 1 /\ From(r, i + 1) = q[i].to + 1
        BY <4>1 DEF From
      <4>3. q[i].to + 1 <= Len(s) /\ q[i] \in Piece
        BY <1>2, <4>1, <4>2, EndIs
      <4>4. i # Len(r)
        <5> SUFFICES ASSUME i = Len(r) PROVE FALSE
          OBVIOUS
        <5>1. EndOfPieces(r) = q[i].to
          BY <1>1, <3>2, <4>1 DEF EndOfPieces
        <5>2. QED
          BY <4>3, <5>1 DEF Piece
      <4>5. QED
        BY <1>1, <4>1, <4>2, <4>4
    <3>3. QED
      BY <3>1, <3>2
  <2>2. QED
    BY <1>2, <2>1
<1> HIDE DEF P
<1>5. Nat \subseteq P
  BY <1>3, <1>4, NatSetInduction
<1>6. QED
  BY <1>5 DEF P

LEMMA OneCut ==
  ASSUME NEW s \in Seq(Byte), NEW q \in Cuts(s), EndOfPieces(q) = Len(s)
  PROVE  Pieces(s) = q
<1> DEFINE r == Pieces(s)
<1>1. r \in Cuts(s) /\ EndOfPieces(r) = Len(s)
  BY PiecesAre
<1> HIDE DEF r
<1>2. q \in Seq(Piece) /\ r \in Seq(Piece)
  BY <1>1 DEF Cuts
<1>3. \A i \in 1 .. Len(q) : i \in 1 .. Len(r) /\ r[i] = q[i]
  BY <1>1, CutsMatch
<1>4. \A i \in 1 .. Len(r) : i \in 1 .. Len(q) /\ q[i] = r[i]
  BY <1>1, CutsMatch
<1>5. Len(q) = Len(r)
  BY <1>2, <1>3, <1>4
<1>6. QED
  BY <1>2, <1>3, <1>5 DEF r

LEMMA PiecesGrow ==
  ASSUME NEW s \in Seq(Byte), NEW q \in Cuts(s), NEW m \in 1 .. Len(q)
  PROVE  \A i \in 1 .. m : q[i].to <= q[m].to
<1> DEFINE P == {d \in Nat : m - d >= 1 => q[m - d].to <= q[m].to}
<1>1. \A i \in 1 .. Len(q) : q[i] \in Piece /\ q[i].to \in Nat /\ From(q, i) <= q[i].to
  BY EndIs DEF Piece
<1>2. Len(q) \in Nat
  BY DEF Cuts
<1>3. 0 \in P
  <2>1. m - 0 = m
    OBVIOUS
  <2>2. QED
    BY <1>1, <2>1
<1>4. ASSUME NEW d \in Nat, d \in P PROVE d + 1 \in P
  <2> SUFFICES ASSUME m - (d + 1) >= 1 PROVE q[m - (d + 1)].to <= q[m].to
    OBVIOUS
  <2> DEFINE i == m - (d + 1)
  <2>1. i \in 1 .. Len(q) /\ i + 1 \in 1 .. Len(q) /\ m - d = i + 1 /\ m - d >= 1 /\ i + 1 # 1
        /\ (i + 1) - 1 = i
    BY <1>2
  <2> HIDE DEF i
  <2>2. q[i + 1].to <= q[m].to
    BY <1>4, <2>1
  <2>3. q[i].to + 1 <= q[i + 1].to
    BY <1>1, <2>1 DEF From
  <2>4. q[i].to <= q[m].to
    BY <1>1, <2>1, <2>2, <2>3
  <2>5. QED
    BY <2>4 DEF i
<1> HIDE DEF P
<1>5. Nat \subseteq P
  BY <1>3, <1>4, NatSetInduction
<1>6. \A i \in 1 .. m : m - i \in Nat /\ m - (m - i) = i
  OBVIOUS
<1>7. QED
  BY <1>5, <1>6 DEF P

Ending(q, m) == IF m = 0 THEN 0 ELSE q[m].to

LEMMA PrefixPieces ==
  ASSUME NEW s \in Seq(Byte), NEW m \in 0 .. Len(Pieces(s))
  PROVE  /\ Ending(Pieces(s), m) \in 0 .. Len(s)
         /\ Pieces(SubSeq(s, 1, Ending(Pieces(s), m))) = SubSeq(Pieces(s), 1, m)
<1> DEFINE q == Pieces(s)
           e == Ending(q, m)
           t == SubSeq(s, 1, e)
           r == SubSeq(q, 1, m)
<1>1. q \in Cuts(s) /\ q \in Seq(Piece) /\ Len(q) \in Nat
  BY PiecesAre DEF Cuts
<1> HIDE DEF q
<1>2. m \in 0 .. Len(q) /\ Len(s) \in Nat
  BY DEF q
<1>3. \A i \in 1 .. Len(q) :
        /\ q[i] \in Piece /\ From(q, i) \in 1 .. Len(s) /\ q[i] = PieceAt(s, From(q, i))
        /\ q[i].cp = Decode(s, From(q, i)).cp
        /\ q[i].to = From(q, i) + Decode(s, From(q, i)).len - 1
        /\ From(q, i) <= q[i].to /\ q[i].to <= Len(s) /\ q[i].to \in Nat
  BY <1>1, EndIs DEF Cuts, IsCut, Piece
<1>4. e \in 0 .. Len(s) /\ e \in Nat
  BY <1>2, <1>3 DEF Ending
<1>5. t \in Seq(Byte) /\ Len(t) = e /\ \A k \in 1 .. e : t[k] = s[k]
  BY <1>4
<1>6. r \in Seq(Piece) /\ Len(r) = m /\ \A i \in 1 .. m : r[i] = q[i]
  BY <1>1, <1>2
<1> HIDE DEF e, t, r
<1>7. ASSUME NEW i \in 1 .. m PROVE From(r, i) \in 1 .. Len(t) /\ r[i] = PieceAt(t, From(r, i))
  <2> DEFINE p == From(q, i)
  <2>1. i \in 1 .. Len(q) /\ m # 0 /\ e = q[m].to
    BY <1>2 DEF e, Ending
  <2>2. q[i].to <= e
    BY <1>1, <1>2, <2>1, PiecesGrow
  <2>3. From(r, i) = p
    BY <1>6 DEF From
  <2>4. p \in 1 .. Len(s) /\ p \in 1 .. Len(t) /\ p + Decode(s, p).len - 1 <= e
    BY <1>3, <1>4, <1>5, <2>1, <2>2
  <2> HIDE DEF p
  <2>5. Decode(t, p) = Decode(s, p)
    <3>1. Decode(s, p).len \in 1 .. 4
      BY <2>4, DecodeIs
    <3>2. CASE Decode(s, p).cp # Invalid
      <4>1. \A k \in 0 .. Decode(s, p).len - 1 : p + k <= Len(t) /\ t[p + k] = s[p + k]
        BY <1>5, <2>4, <3>1
      <4>2. QED
        BY <1>5, <2>4, <3>2, <4>1, ValidSame
    <3>3. CASE Decode(s, p).cp = Invalid
      <4>1. \A k \in 0 .. 3 : p + k <= Len(t) => p + k <= Len(s) /\ t[p + k] = s[p + k]
        BY <1>4, <1>5, <2>4
      <4>2. QED
        BY <1>5, <2>4, <3>3, <4>1, InvalidSame
    <3>4. QED
      BY <3>2, <3>3
  <2>6. r[i] = PieceAt(s, p)
    BY <1>3, <1>6, <2>1 DEF p
  <2>7. QED
    BY <2>3, <2>4, <2>5, <2>6 DEF PieceAt
<1>8. r \in Cuts(t)
  BY <1>6, <1>7 DEF Cuts, IsCut
<1>9. EndOfPieces(r) = e
  BY <1>2, <1>6 DEF EndOfPieces, e, Ending
<1>10. Pieces(t) = r
  BY <1>5, <1>8, <1>9, OneCut
<1>11. QED
  BY <1>4, <1>10 DEF q, e, t, r

-----------------------------------------------------------------------------
(* Cutting and padding                                                     *)

ColumnsTo(q) ==
  CHOOSE f : f = [n \in Nat |-> IF n = 0 THEN 0 ELSE f[n - 1] + ColumnsOf(q[n].cp)]

LEMMA WidthIs == ASSUME NEW q, Len(q) \in Nat PROVE WidthOf(q) \in Nat
<1> DEFINE d     == [p \in Nat \X Nat |-> p[1] + ColumnsOf(q[p[2] + 1].cp)]
           Is(f) == f = [n \in Nat |-> IF n = 0 THEN 0 ELSE f[n - 1] + ColumnsOf(q[n].cp)]
<1>1. \A x : ColumnsOf(x) \in Nat
  BY DEF ColumnsOf
<1>2. d \in [Nat \X Nat -> Nat]
  BY <1>1
<1>3. \E f \in [Nat -> Nat] : Is(f)
  <2> HIDE DEF d
  <2>1. PICK f \in [Nat -> Nat] : f[0] = 0 /\ \A n \in Nat : f[n + 1] = d[<<f[n], n>>]
    <3>1. PICK f : Recursion(f, Nat, 0, d)
      BY <1>2, NatRecursion
    <3>2. QED
      BY <3>1 DEF Recursion
  <2>2. \A n \in Nat : f[n + 1] = f[n] + ColumnsOf(q[n + 1].cp)
    BY <2>1 DEF d
  <2>3. \A n \in Nat : n # 0 => f[n] = f[n - 1] + ColumnsOf(q[n].cp)
    <3> SUFFICES ASSUME NEW n \in Nat, n # 0 PROVE f[n] = f[n - 1] + ColumnsOf(q[n].cp)
      OBVIOUS
    <3>1. n - 1 \in Nat /\ (n - 1) + 1 = n
      OBVIOUS
    <3>2. f[(n - 1) + 1] = f[n - 1] + ColumnsOf(q[(n - 1) + 1].cp)
      BY <2>2, <3>1
    <3>3. QED
      BY <3>1, <3>2
  <2>4. QED
    BY <2>1, <2>3
<1> DEFINE f == ColumnsTo(q)
<1>4. Is(f)
  <2>1. ColumnsTo(q) = CHOOSE g : Is(g)
    BY DEF ColumnsTo
  <2>2. QED
    BY <1>3, <2>1
<1> HIDE DEF f
<1>5. Nat \subseteq {n \in Nat : f[n] \in Nat}
  <2> DEFINE P == {n \in Nat : f[n] \in Nat}
  <2>1. 0 \in P
    BY <1>4
  <2>2. ASSUME NEW n \in Nat, n \in P PROVE n + 1 \in P
    <3>1. n + 1 \in Nat /\ n + 1 # 0 /\ (n + 1) - 1 = n
      OBVIOUS
    <3>2. f[n + 1] = f[n] + ColumnsOf(q[n + 1].cp)
      BY <1>4, <3>1
    <3>3. QED
      BY <1>1, <2>2, <3>2
  <2> HIDE DEF P
  <2>3. QED
    BY <2>1, <2>2, NatSetInduction DEF P
<1>6. WidthOf(q) = f[Len(q)]
  BY DEF WidthOf, ColumnsTo, f
<1>7. QED
  BY <1>5, <1>6

LEMMA MiddleIs ==
  ASSUME NEW S, NEW a \in Seq(S), NEW b \in Seq(S), NEW c \in Seq(S)
  PROVE  /\ Len(a \o b \o c) = Len(a) + Len(b) + Len(c)
         /\ SubSeq(a \o b \o c, Len(a) + 1, Len(a \o b \o c) - Len(c)) = b
<1> DEFINE w == a \o b \o c
           m == SubSeq(w, Len(a) + 1, Len(w) - Len(c))
<1>1. /\ Len(a) \in Nat /\ Len(b) \in Nat /\ Len(c) \in Nat
      /\ w \in Seq(S) /\ Len(w) = Len(a) + Len(b) + Len(c)
  OBVIOUS
<1>2. \A i \in 1 .. Len(b) : w[Len(a) + i] = b[i]
  OBVIOUS
<1> HIDE DEF w
<1>3. m \in Seq(S) /\ Len(m) = Len(b) /\ \A i \in 1 .. Len(b) : m[i] = w[Len(a) + i]
  <2>1. /\ Len(a) + 1 \in Nat \ {0} /\ Len(w) - Len(c) \in Nat
        /\ Len(a) + 1 <= (Len(w) - Len(c)) + 1 /\ Len(w) - Len(c) <= Len(w)
        /\ (Len(w) - Len(c)) - (Len(a) + 1) + 1 = Len(b)
    BY <1>1
  <2>2. \A i \in 1 .. Len(b) : (Len(a) + 1) + i - 1 = Len(a) + i
    BY <1>1
  <2>3. /\ m \in Seq(S) /\ Len(m) = Len(b)
        /\ \A i \in 1 .. Len(b) : m[i] = w[(Len(a) + 1) + i - 1]
    BY <1>1, <2>1, SubSeqIs
  <2>4. QED
    BY <2>2, <2>3
<1> HIDE DEF m
<1>4. m = b
  BY <1>2, <1>3
<1>5. QED
  BY <1>1, <1>4 DEF m, w

LEMMA ListIs ==
  ASSUME NEW S, NEW k \in Nat, NEW g \in [1 .. k -> S] PROVE g \in Seq(S) /\ Len(g) = k
OBVIOUS

(* The fill n times.                                                       *)
LEMMA FillIs ==
  ASSUME call.fill \in Seq(Byte), call.fill # <<>>, NEW n \in Nat
  PROVE  Fill(n) \in Seq(Byte) /\ Len(Fill(n)) = n * Len(call.fill)
<1> DEFINE L == Len(call.fill)
<1>1. L \in Nat \ {0} /\ call.fill \in Seq(Byte)
  OBVIOUS
<1> HIDE DEF L
<1>2. PICK k \in Nat : k = n * L
  BY <1>1, ProductIs
<1>3. ASSUME NEW i \in 1 .. k PROVE call.fill[1 + ((i - 1) % L)] \in Byte
  <2>1. i - 1 \in Nat
    OBVIOUS
  <2>2. (i - 1) % L \in 0 .. L - 1
    BY <1>1, <2>1, Divided
  <2>3. 1 + ((i - 1) % L) \in 1 .. L
    BY <1>1, <2>2
  <2>4. QED
    BY <1>1, <2>3, ElementIs DEF L
<1>4. PICK g \in [1 .. k -> Byte] : g = [i \in 1 .. k |-> call.fill[1 + ((i - 1) % L)]]
  BY <1>3
<1>5. Fill(n) = g
  BY <1>2, <1>4 DEF Fill, L
<1>6. g \in Seq(Byte) /\ Len(g) = k
  BY ListIs
<1>7. QED
  BY <1>2, <1>5, <1>6 DEF L

LEMMA BytesIs ==
  ASSUME call.s \in Seq(Byte), IsText PROVE Bytes \in Seq(Byte)
<1> DEFINE zeros == {i \in DOMAIN call.s : call.s[i] = 0}
<1>1. CASE call.kind = "cstring"
  <2>1. CASE zeros = {}
    BY <1>1, <2>1 DEF Bytes
  <2>2. CASE zeros # {}
    <3>1. zeros \in SUBSET Nat /\ zeros \subseteq 1 .. Len(call.s)
      OBVIOUS
    <3>2. \E i \in zeros : \A j \in zeros : i <= j
      BY <2>2, <3>1, LeastNatural
    <3> DEFINE k == CHOOSE i \in zeros : \A j \in zeros : i <= j
    <3>3. k \in 1 .. Len(call.s)
      BY <3>1, <3>2
    <3>4. Bytes = SubSeq(call.s, 1, k - 1)
      BY <1>1, <2>2 DEF Bytes
    <3> HIDE DEF k
    <3>5. SubSeq(call.s, 1, k - 1) \in Seq(Byte)
      BY <3>3
    <3>6. QED
      BY <3>4, <3>5
  <2>3. QED
    BY <2>1, <2>2
<1>2. CASE call.kind # "cstring"
  <2>1. call.kind = "string"
    BY <1>2 DEF IsText
  <2>2. QED
    BY <2>1 DEF Bytes
<1>3. QED
  BY <1>1, <1>2

(* The precision keeps the first code points of the string.                *)
Kept ==
  IF call.precision < 0 THEN Len(Pieces(Bytes)) ELSE Min2(call.precision, Len(Pieces(Bytes)))

LEMMA CutIs ==
  ASSUME Bytes \in Seq(Byte), IsText, call.precision \in Int
  PROVE  Kept \in 0 .. Len(Pieces(Bytes)) /\ Cut = Ending(Pieces(Bytes), Kept)
<1> DEFINE q == Pieces(Bytes)
           n == Len(Bytes)
<1>1. q \in Cuts(Bytes) /\ EndOfPieces(q) = n /\ n \in Nat
  BY PiecesAre
<1>2. Len(q) \in Nat /\ Len(q) <= n
  BY <1>1, EndIs DEF Cuts
<1> HIDE DEF q, n
<1>3. Kept \in 0 .. Len(q)
  BY <1>2 DEF Kept, Min2, q
<1>4. Ending(q, Len(q)) = n
  BY <1>1, <1>2 DEF Ending, EndOfPieces, Cuts
<1>5. CASE call.precision \in 0 .. n - 1 /\ call.precision < Len(q)
  <2>1. Kept = call.precision
    BY <1>2, <1>5 DEF Kept, Min2, q
  <2>2. Cut = q[call.precision + 1].from - 1
    BY <1>5 DEF Cut, CodePointIndex, q, n
  <2>3. call.precision + 1 \in 1 .. Len(q)
    BY <1>2, <1>5
  <2>4. q[call.precision + 1].from = From(q, call.precision + 1)
    BY <1>1, <2>3, EndIs
  <2>5. CASE call.precision = 0
    BY <2>1, <2>2, <2>4, <2>5 DEF From, Ending, q
  <2>6. CASE call.precision # 0
    <3>1. call.precision \in 1 .. Len(q) /\ call.precision + 1 # 1
          /\ (call.precision + 1) - 1 = call.precision
      BY <1>2, <1>5, <2>6
    <3>2. q[call.precision] \in Piece
      BY <1>1, <3>1, EndIs
    <3>3. Cut = q[call.precision].to
      BY <2>2, <2>4, <3>1, <3>2 DEF From, Piece
    <3>4. QED
      BY <1>3, <2>1, <3>1, <3>3 DEF Ending, q
  <2>7. QED
    BY <2>5, <2>6
<1>6. CASE ~ (call.precision \in 0 .. n - 1 /\ call.precision < Len(q))
  <2>1. Cut = n
    BY <1>1, <1>2, <1>6 DEF Cut, CodePointIndex, q, n
  <2>2. Kept = Len(q)
    BY <1>1, <1>2, <1>6 DEF Kept, Min2, q
  <2>3. QED
    BY <1>3, <1>4, <2>1, <2>2 DEF q
<1>7. QED
  BY <1>5, <1>6

(* What a finished call has written: the fill, what is kept of the string, *)
(* the fill again.                                                         *)
Missing == Max2(0, call.width - (IF call.width = 0 THEN 0 ELSE ComputeWidth(SubSeq(Bytes, 1, Cut))))
Before(padding) ==
  CASE call.align \in {"none", "left"} -> 0
    [] call.align \in {"right", "numeric"} -> padding
    [] call.align = "center"           -> padding \div 2
Written == out = Fill(Before(Missing)) \o SubSeq(Bytes, 1, Cut)
                   \o Fill(RightPadding(Missing, Before(Missing)))
PlainText == IsText /\ ~ call.debug
TextInv ==
  /\ call \in Calls
  /\ phase = "write" /\ PlainText =>
       /\ size = Cut
       /\ width = IF call.width = 0 THEN 0 ELSE ComputeWidth(SubSeq(Bytes, 1, Cut))
  /\ phase = "done" /\ PlainText => Written

LEMMA SameCall ==
  ASSUME call' = call
  PROVE  /\ Bytes' = Bytes /\ (PlainText' <=> PlainText) /\ Cut' = Cut /\ Missing' = Missing
         /\ \A n : Fill(n)' = Fill(n) /\ Before(n)' = Before(n)
BY DEF Bytes, PlainText, IsText, Cut, Missing, Fill, Before

LEMMA TextInit == Init => TextInv
BY DEF Init, TextInv

LEMMA MeasureKeeps == ASSUME TextInv, Measure PROVE TextInv'
<1>1. call' = call /\ phase' = "write"
  BY DEF Measure
<1>2. ASSUME PlainText
      PROVE  /\ size' = Cut
             /\ width' = IF call.width = 0 THEN 0 ELSE ComputeWidth(SubSeq(Bytes, 1, Cut))
  <2>1. IsText /\ ~ call.debug /\ call.kind # "char" /\ call.kind # "bool"
    BY <1>2 DEF PlainText, IsText
  <2>2. CASE call.width = 0
    BY <2>1, <2>2 DEF Measure
  <2>3. CASE call.width # 0
    BY <2>1, <2>3 DEF Measure
  <2>4. QED
    BY <2>2, <2>3
<1>3. QED
  BY <1>1, <1>2, SameCall DEF TextInv

LEMMA WriteKeeps == ASSUME TextInv, WritePadded PROVE TextInv'
<1>1. call' = call /\ phase' = "done" /\ phase = "write"
  BY DEF WritePadded
<1>2. ASSUME PlainText PROVE Written'
  <2>1. /\ size = Cut
        /\ width = IF call.width = 0 THEN 0 ELSE ComputeWidth(SubSeq(Bytes, 1, Cut))
    BY <1>1, <1>2 DEF TextInv
  <2>2. Body(size) = SubSeq(Bytes, 1, Cut)
    BY <1>2, <2>1 DEF Body, PlainText, IsText
  <2>3. out' = Fill(Before(Missing)) \o Body(size) \o Fill(RightPadding(Missing, Before(Missing)))
    BY <2>1 DEF WritePadded, Before, Missing
  <2>4. QED
    BY <1>1, <2>2, <2>3, SameCall DEF Written, RightPadding
<1>3. QED
  BY <1>1, <1>2, SameCall DEF TextInv

LEMMA TextNext == ASSUME TextInv, [Next]_vars PROVE TextInv'
<1>1. CASE NullPointer
  BY <1>1 DEF NullPointer, TextInv
<1>2. CASE UNCHANGED vars
  <2>1. call' = call /\ phase' = phase /\ size' = size /\ width' = width /\ out' = out
    BY <1>2 DEF vars
  <2>2. QED
    BY <2>1, SameCall DEF TextInv, Written, RightPadding
<1>3. QED
  BY <1>1, <1>2, MeasureKeeps, WriteKeeps DEF Next, Done

(* Every text, of any length and with any bytes, keeps as many whole       *)
(* characters as its precision says and is padded to exactly the columns   *)
(* asked for, if it has not more.  (write, code_point_index,               *)
(* compute_width, write_padded.)                                           *)
THEOREM CutAndPadded == Spec => []CutAndPaddedInCharacters
<1>1. TextInv => CutAndPaddedInCharacters
  <2> SUFFICES ASSUME TextInv, phase = "done", IsText, ~ call.debug
               PROVE  \E l, r \in 0 .. call.width :
                        /\ Len(out) >= (l + r) * Len(call.fill) /\ Padding(l, r)
                        /\ CodePoints(Unpadded(l, r)) =
                             (IF call.precision < 0 THEN CodePoints(Bytes)
                              ELSE SubSeq(CodePoints(Bytes), 1,
                                          Min2(call.precision, Len(CodePoints(Bytes)))))
                        /\ ComputeWidth(Unpadded(l, r)) + l + r
                             = Max2(call.width, ComputeWidth(Unpadded(l, r)))
                        /\ call.align = "center" => r - l \in {0, 1}
    BY DEF CutAndPaddedInCharacters
  <2> DEFINE l == Before(Missing)
             r == RightPadding(Missing, Before(Missing))
             q == Pieces(Bytes)
             t == SubSeq(Bytes, 1, Cut)
             c == ComputeWidth(t)
  <2>1. /\ call.s \in Seq(Byte) /\ call.fill \in Seq(Byte) /\ call.fill # <<>>
        /\ call.width \in Nat /\ call.precision \in Int
        /\ call.align \in {"none", "left", "right", "center", "numeric"}
    BY CallsAreTyped DEF TextInv
  <2>2. Bytes \in Seq(Byte) /\ q \in Seq(Piece) /\ Len(q) \in Nat
    BY <2>1, BytesIs, PiecesAre DEF Cuts
  <2>3. /\ Kept \in 0 .. Len(q) /\ Cut = Ending(q, Kept) /\ Cut \in 0 .. Len(Bytes)
        /\ Pieces(t) = SubSeq(q, 1, Kept)
    BY <2>1, <2>2, CutIs, PrefixPieces
  <2>4. t \in Seq(Byte)
    BY <2>2, <2>3
  <2>5. c \in Nat
    <3> HIDE DEF t
    <3>1. Pieces(t) \in Seq(Piece) /\ Len(Pieces(t)) \in Nat
      BY <2>4, PiecesAre DEF Cuts
    <3>2. QED
      BY <3>1, WidthIs DEF ComputeWidth
  <2>6. out = Fill(l) \o t \o Fill(r)
    BY DEF TextInv, PlainText, Written
  <2>7. Missing = Max2(0, call.width - (IF call.width = 0 THEN 0 ELSE c))
    BY DEF Missing
  <2> HIDE DEF t, q, c
  <2>8. /\ l \in Nat /\ r \in Nat /\ l + r = Missing
        /\ l <= call.width /\ r <= call.width
        /\ c + l + r = Max2(call.width, c)
        /\ call.align = "center" => r - l \in {0, 1}
    <3>1. Missing \in Nat /\ Missing <= call.width /\ c + Missing = Max2(call.width, c)
      BY <2>1, <2>5, <2>7 DEF Max2
    <3>2. PICK m \in Nat : m = Missing
      BY <3>1
    <3>3. /\ l \in Nat /\ l <= m
          /\ call.align = "center" => l = m \div 2
      BY <2>1, <3>2 DEF Before
    <3>4. r = m - l
      BY <3>2 DEF RightPadding
    <3> HIDE DEF l, r
    <3>5. (m - (m \div 2)) - (m \div 2) \in {0, 1}
      BY SMT
    <3>6. QED
      BY <2>1, <2>5, <3>1, <3>2, <3>3, <3>4, <3>5
  <2> HIDE DEF l, r
  <2>9. /\ Fill(l) \in Seq(Byte) /\ Len(Fill(l)) = l * Len(call.fill)
        /\ Fill(r) \in Seq(Byte) /\ Len(Fill(r)) = r * Len(call.fill)
    BY <2>1, <2>8, FillIs
  <2>10. Unpadded(l, r) = t /\ Len(out) = Len(Fill(l)) + Len(t) + Len(Fill(r))
    <3>1. /\ Len(out) = Len(Fill(l)) + Len(t) + Len(Fill(r))
          /\ SubSeq(out, Len(Fill(l)) + 1, Len(out) - Len(Fill(r))) = t
      <4>1. \A x, y, z \in Seq(Byte) :
              /\ Len(x \o y \o z) = Len(x) + Len(y) + Len(z)
              /\ SubSeq(x \o y \o z, Len(x) + 1, Len(x \o y \o z) - Len(z)) = y
        BY MiddleIs, Zenon
      <4>2. PICK a \in Seq(Byte) : a = Fill(l)
        BY <2>9
      <4>3. PICK b \in Seq(Byte) : b = Fill(r)
        BY <2>9
      <4>4. out = a \o t \o b
        BY <2>6, <4>2, <4>3
      <4>5. /\ Len(a \o t \o b) = Len(a) + Len(t) + Len(b)
            /\ SubSeq(a \o t \o b, Len(a) + 1, Len(a \o t \o b) - Len(b)) = t
        BY <2>4, <4>1
      <4>6. QED
        BY <4>2, <4>3, <4>4, <4>5, Zenon
    <3>2. QED
      BY <2>9, <3>1, Zenon DEF Unpadded
  <2>11. Len(out) >= (l + r) * Len(call.fill)
    <3>1. (l + r) * Len(call.fill) = Len(Fill(l)) + Len(Fill(r))
      <4>1. Len(call.fill) \in Nat
        BY <2>1
      <4>2. (l + r) * Len(call.fill) = l * Len(call.fill) + r * Len(call.fill)
        <5>1. \A x, y, z \in Nat : (x + y) * z = x * z + y * z
          BY ProductIs, Zenon
        <5>2. QED
          BY <2>8, <4>1, <5>1, Zenon
      <4>3. QED
        BY <2>9, <4>2, Zenon
    <3>2. Len(Fill(l)) \in Nat /\ Len(Fill(r)) \in Nat /\ Len(t) \in Nat
      BY <2>4, <2>9
    <3>3. QED
      BY <2>10, <3>1, <3>2
  <2>12. Padding(l, r)
    BY <2>6, <2>10 DEF Padding
  <2>13. CodePoints(t) = (IF call.precision < 0 THEN CodePoints(Bytes)
                          ELSE SubSeq(CodePoints(Bytes), 1,
                                      Min2(call.precision, Len(CodePoints(Bytes)))))
    <3> DEFINE all == [i \in 1 .. Len(q) |-> q[i].cp]
    <3>1. CodePoints(Bytes) = all
      BY <2>2 DEF CodePoints, q
    <3>2. all \in Seq({q[i].cp : i \in 1 .. Len(q)}) /\ Len(all) = Len(q)
      <4>1. all \in [1 .. Len(q) -> {q[i].cp : i \in 1 .. Len(q)}]
        OBVIOUS
      <4>2. QED
        BY <2>2, <4>1, ListIs
    <3>3. CodePoints(t) = [i \in 1 .. Kept |-> q[i].cp]
      <4>1. /\ SubSeq(q, 1, Kept) \in Seq(Piece) /\ Len(SubSeq(q, 1, Kept)) = Kept
            /\ \A i \in 1 .. Kept : SubSeq(q, 1, Kept)[i] = q[i]
        BY <2>2, <2>3 DEF q
      <4>2. QED
        BY <2>3, <4>1 DEF CodePoints, q
    <3>4. [i \in 1 .. Kept |-> q[i].cp] = SubSeq(all, 1, Kept)
      <4>1. /\ Kept \in Nat /\ SubSeq(all, 1, Kept) \in Seq({q[i].cp : i \in 1 .. Len(q)})
            /\ Len(SubSeq(all, 1, Kept)) = Kept
            /\ \A i \in 1 .. Kept : SubSeq(all, 1, Kept)[i] = all[i]
        BY <2>3, <3>2
      <4>2. \A i \in 1 .. Kept : all[i] = q[i].cp
        BY <2>3
      <4> HIDE DEF all
      <4>3. QED
        BY <4>1, <4>2
    <3> HIDE DEF all
    <3>5. call.precision < 0 => SubSeq(all, 1, Kept) = all
      BY <2>2, <3>2 DEF Kept, q
    <3>6. call.precision >= 0 => Kept = Min2(call.precision, Len(all))
      BY <2>1, <3>2 DEF Kept, q
    <3>7. call.precision < 0 \/ (call.precision >= 0 /\ ~ (call.precision < 0))
      BY <2>1
    <3>8. QED
      BY <3>1, <3>3, <3>4, <3>5, <3>6, <3>7, Zenon
  <2>14. l \in 0 .. call.width /\ r \in 0 .. call.width
    BY <2>1, <2>8
  <2>15. ComputeWidth(Unpadded(l, r)) = c
    BY <2>10 DEF c
  <2>16. QED
    BY <2>8, <2>10, <2>11, <2>12, <2>13, <2>14, <2>15, Zenon
<1>2. QED
  BY <1>1, TextInit, TextNext, PTL DEF Spec

-----------------------------------------------------------------------------
(* Hexadecimal numbers of two, four and six digits.                        *)

LEMMA PowersOfSixteen ==
  /\ 2 ^ 0 = 1 /\ 2 ^ 4 = 16 /\ 2 ^ 8 = 256 /\ 2 ^ 12 = 4096
  /\ 2 ^ 16 = 65536 /\ 2 ^ 20 = 1048576
<1>1. 2 ^ 0 = 1 /\ 2 ^ 1 = 2
  BY PowerOfTwo
<1>2. 2 ^ 2 = 4
  <2>1. 2 ^ (1 + 1) = 2 ^ 1 * 2 ^ 1 /\ 1 + 1 = 2
    BY SMT, PowerSum
  <2>2. QED
    BY SMT, <1>1, <2>1
<1>3. 2 ^ 4 = 16
  <2>1. 2 ^ (2 + 2) = 2 ^ 2 * 2 ^ 2 /\ 2 + 2 = 4
    BY SMT, PowerSum
  <2>2. QED
    BY SMT, <1>2, <2>1
<1>4. 2 ^ 8 = 256
  <2>1. 2 ^ (4 + 4) = 2 ^ 4 * 2 ^ 4 /\ 4 + 4 = 8
    BY SMT, PowerSum
  <2>2. QED
    BY SMT, <1>3, <2>1
<1>5. 2 ^ 12 = 4096
  <2>1. 2 ^ (8 + 4) = 2 ^ 8 * 2 ^ 4 /\ 8 + 4 = 12
    BY SMT, PowerSum
  <2>2. QED
    BY SMT, <1>3, <1>4, <2>1
<1>6. 2 ^ 16 = 65536
  <2>1. 2 ^ (8 + 8) = 2 ^ 8 * 2 ^ 8 /\ 8 + 8 = 16
    BY SMT, PowerSum
  <2>2. QED
    BY SMT, <1>4, <2>1
<1>7. 2 ^ 20 = 1048576
  <2>1. 2 ^ (16 + 4) = 2 ^ 16 * 2 ^ 4 /\ 16 + 4 = 20
    BY SMT, PowerSum
  <2>2. QED
    BY SMT, <1>3, <1>6, <2>1
<1>8. QED
  BY SMT, <1>1, <1>3, <1>4, <1>5, <1>6, <1>7

LEMMA HexDigitIs ==
  ASSUME NEW d \in Int, 0 <= d, d <= 15
  PROVE  /\ HexDigit(d) \in Int /\ 48 <= HexDigit(d) /\ HexDigit(d) <= 102
         /\ HexValue(HexDigit(d)) = d
BY SMT DEF HexDigit, HexValue

(* The k-th digit from the right.                                          *)
Digit(cp, k) == (cp \div 2 ^ (4 * k)) % 16

LEMMA DigitIs ==
  ASSUME NEW cp \in Nat, NEW k \in Nat
  PROVE  Digit(cp, k) \in Int /\ 0 <= Digit(cp, k) /\ Digit(cp, k) <= 15
<1>1. PICK x \in Nat \ {0} : x = 2 ^ (4 * k)
  BY PowerOfTwo
<1>2. PICK y \in Nat : y = cp \div x
  BY Divided
<1>3. y % 16 \in Int /\ 0 <= y % 16 /\ y % 16 <= 15
  BY SMT
<1>4. QED
  BY <1>1, <1>2, <1>3 DEF Digit

LEMMA DigitsAre ==
  ASSUME NEW cp \in Nat
  PROVE  /\ Digit(cp, 0) = cp % 16
         /\ Digit(cp, 1) = (cp \div 16) % 16
         /\ Digit(cp, 2) = (cp \div 256) % 16
         /\ Digit(cp, 3) = (cp \div 4096) % 16
         /\ Digit(cp, 4) = (cp \div 65536) % 16
         /\ Digit(cp, 5) = (cp \div 1048576) % 16
<1>1. /\ 4 * 0 = 0 /\ 4 * 1 = 4 /\ 4 * 2 = 8 /\ 4 * 3 = 12 /\ 4 * 4 = 16 /\ 4 * 5 = 20
      /\ cp \div 1 = cp
  BY SMT
<1>2. QED
  BY SMT, <1>1, PowersOfSixteen DEF Digit

LEMMA TwoDigits ==
  ASSUME NEW cp \in Nat, cp <= 255
  PROVE  ((cp \div 16) % 16) * 16 + (cp % 16) = cp
BY SMT

LEMMA FourDigits ==
  ASSUME NEW cp \in Nat, cp <= Basic
  PROVE  ((((cp \div 4096) % 16) * 16 + ((cp \div 256) % 16)) * 16
            + ((cp \div 16) % 16)) * 16 + (cp % 16) = cp
BY SMT DEF Basic

LEMMA SixDigits ==
  ASSUME NEW cp \in Nat, cp <= Highest
  PROVE  ((((((cp \div 1048576) % 16) * 16 + ((cp \div 65536) % 16)) * 16
            + ((cp \div 4096) % 16)) * 16 + ((cp \div 256) % 16)) * 16
            + ((cp \div 16) % 16)) * 16 + (cp % 16) = cp
BY SMT DEF Highest

(* A recursion up to some number exists.                                   *)
Ends(f, S, a, d, m) ==
  /\ f \in [0 .. m -> S] /\ f[0] = a
  /\ \A n \in 1 .. m : f[n] = d[<<f[n - 1], n>>]
LEMMA UpTo ==
  ASSUME NEW S, NEW a \in S, NEW m \in Nat, NEW d \in [S \X (1 .. m) -> S]
  PROVE  \E f : Ends(f, S, a, d, m)
<1> DEFINE e == [p \in S \X Nat |-> IF p[2] + 1 <= m THEN d[<<p[1], p[2] + 1>>] ELSE a]
<1>1. e \in [S \X Nat -> S]
  OBVIOUS
<1> HIDE DEF e
<1>2. PICK g : Recursion(g, S, a, e)
  BY <1>1, NatRecursion
<1>3. g \in [Nat -> S] /\ g[0] = a /\ \A n \in Nat : g[n + 1] = e[<<g[n], n>>]
  BY <1>2 DEF Recursion
<1> DEFINE f == [n \in 0 .. m |-> g[n]]
<1>4. f \in [0 .. m -> S] /\ f[0] = a
  BY <1>3
<1>5. ASSUME NEW n \in 1 .. m PROVE f[n] = d[<<f[n - 1], n>>]
  <2>1. n - 1 \in Nat /\ n - 1 \in 0 .. m /\ n \in 0 .. m /\ (n - 1) + 1 = n /\ n <= m
    OBVIOUS
  <2>2. g[(n - 1) + 1] = e[<<g[n - 1], n - 1>>] /\ g[n - 1] \in S
    BY <1>3, <2>1
  <2>3. e[<<g[n - 1], n - 1>>] = d[<<g[n - 1], n>>]
    BY <2>1, <2>2 DEF e
  <2>4. QED
    BY <2>1, <2>2, <2>3
<1> HIDE DEF f
<1>6. QED
  BY <1>4, <1>5 DEF Ends

LEMMA HexNumberIs ==
  ASSUME NEW y, Len(y) \in Nat, \A n \in 1 .. Len(y) : y[n] \in Int
  PROVE  \E f : /\ f[0] = 0 /\ HexNumber(y) = f[Len(y)]
                /\ \A n \in 1 .. Len(y) : f[n] = f[n - 1] * 16 + HexValue(y[n])
<1> DEFINE d     == [p \in Int \X (1 .. Len(y)) |-> p[1] * 16 + HexValue(y[p[2]])]
           Is(f) == f = [n \in 0 .. Len(y) |-> IF n = 0 THEN 0 ELSE f[n - 1] * 16 + HexValue(y[n])]
<1>1. d \in [Int \X (1 .. Len(y)) -> Int]
  BY DEF HexValue
<1> HIDE DEF d
<1>2. PICK g : Ends(g, Int, 0, d, Len(y))
  <2>1. 0 \in Int /\ Len(y) \in Nat
    OBVIOUS
  <2>2. QED
    BY <1>1, <2>1, UpTo, Zenon
<1>3. Is(g)
  <2>1. g \in [0 .. Len(y) -> Int] /\ g[0] = 0
        /\ \A n \in 1 .. Len(y) : g[n] = d[<<g[n - 1], n>>]
    BY <1>2 DEF Ends
  <2>2. ASSUME NEW n \in 1 .. Len(y) PROVE g[n] = g[n - 1] * 16 + HexValue(y[n])
    <3>1. n - 1 \in 0 .. Len(y)
      OBVIOUS
    <3>2. g[n] = d[<<g[n - 1], n>>] /\ g[n - 1] \in Int
      BY <2>1, <3>1
    <3>3. QED
      BY <3>2 DEF d
  <2>3. \A n \in 0 .. Len(y) : n # 0 => n \in 1 .. Len(y)
    OBVIOUS
  <2>4. QED
    BY <2>1, <2>2, <2>3
<1> DEFINE f == CHOOSE f : Is(f)
<1>4. Is(f)
  BY <1>3
<1>5. HexNumber(y) = f[Len(y)]
  BY DEF HexNumber
<1> HIDE DEF f
<1>6. f[0] = 0 /\ \A n \in 1 .. Len(y) : f[n] = f[n - 1] * 16 + HexValue(y[n])
  BY <1>4
<1>7. QED
  BY <1>5, <1>6

(* What a backslash and a letter make of a code point.                     *)
Ascii == 32 .. 126

LEMMA HexIs ==
  ASSUME NEW l \in Ascii, NEW cp \in Nat, NEW n \in Nat
  PROVE  /\ Hex(l, cp, n) \in Seq(Ascii) /\ Len(Hex(l, cp, n)) = n + 2
         /\ Hex(l, cp, n)[1] = Backslash /\ Hex(l, cp, n)[2] = l
         /\ \A i \in 1 .. n : Hex(l, cp, n)[i + 2] = HexDigit(Digit(cp, n - i))
<1> DEFINE d == [i \in 1 .. n |-> HexDigit((cp \div 2 ^ (4 * (n - i))) % 16)]
<1>1. ASSUME NEW i \in 1 .. n PROVE d[i] = HexDigit(Digit(cp, n - i)) /\ d[i] \in Ascii
  <2>1. n - i \in Nat
    OBVIOUS
  <2>2. d[i] = HexDigit(Digit(cp, n - i))
    BY DEF Digit
  <2>3. HexDigit(Digit(cp, n - i)) \in Ascii
    <3>1. PICK k \in Int : k = Digit(cp, n - i) /\ 0 <= k /\ k <= 15
      BY <2>1, DigitIs
    <3>2. HexDigit(k) \in Int /\ 48 <= HexDigit(k) /\ HexDigit(k) <= 102
      BY <3>1, HexDigitIs
    <3>3. QED
      BY SMT, <3>1, <3>2 DEF Ascii
  <2>4. QED
    BY <2>2, <2>3
<1>2. d \in Seq(Ascii) /\ Len(d) = n
  <2>1. d \in [1 .. n -> Ascii]
    BY <1>1
  <2> HIDE DEF d
  <2>2. QED
    BY <2>1, ListIs
<1>3. Hex(l, cp, n) = <<Backslash, l>> \o d
  BY DEF Hex
<1> HIDE DEF d
<1>4. <<Backslash, l>> \in Seq(Ascii)
  BY SMT DEF Backslash, Ascii
<1>5. QED
  BY SMT, <1>1, <1>2, <1>3, <1>4

LEMMA JoinIs ==
  ASSUME NEW S, NEW a \in Seq(S), NEW b \in Seq(S)
  PROVE  /\ a \o b \in Seq(S) /\ Len(a \o b) = Len(a) + Len(b)
         /\ \A i \in 1 .. Len(a) : (a \o b)[i] = a[i]
         /\ \A i \in 1 .. Len(b) : (a \o b)[Len(a) + i] = b[i]
OBVIOUS

Coded(x, cp) ==
  \/ /\ Len(x) = 2
     /\ \/ cp = 9 /\ x[2] = 116
        \/ cp = 10 /\ x[2] = 110
        \/ cp = 13 /\ x[2] = 114
        \/ cp \in {Quote, Apostrophe, Backslash} /\ x[2] = cp
  \/ Len(x) = 4 /\ x[2] = 120 /\ HexNumber(SubSeq(x, 3, 4)) = cp
  \/ Len(x) = 6 /\ x[2] = 117 /\ HexNumber(SubSeq(x, 3, 6)) = cp
  \/ Len(x) = 10 /\ x[2] = 85 /\ HexNumber(SubSeq(x, 3, 10)) = cp

Short == {9, 10, 13, Quote, Apostrophe, Backslash}

LEMMA WriteIs ==
  ASSUME NEW cp \in Nat, NEW bytes
  PROVE  /\ cp = 9 => WriteEscapedCp(cp, bytes) = <<Backslash, 116>>
         /\ cp = 10 => WriteEscapedCp(cp, bytes) = <<Backslash, 110>>
         /\ cp = 13 => WriteEscapedCp(cp, bytes) = <<Backslash, 114>>
         /\ cp \in {Quote, Apostrophe, Backslash} =>
              WriteEscapedCp(cp, bytes) = <<Backslash, cp>>
         /\ cp <= 255 /\ cp \notin Short => WriteEscapedCp(cp, bytes) = Hex(120, cp, 2)
         /\ 256 <= cp /\ cp <= Basic => WriteEscapedCp(cp, bytes) = Hex(117, cp, 4)
         /\ Basic < cp => WriteEscapedCp(cp, bytes)
                             = <<Backslash, 85, 48, 48>> \o SubSeq(Hex(85, cp, 6), 3, 8)
<1> DEFINE Marks  == {Quote, Apostrophe, Backslash}
           Byte1  == (0 .. 255) \ {9, 10, 13, Quote, Apostrophe, Backslash}
<1>1. cp \in Marks => cp \notin {9, 10, 13} /\ cp \notin Byte1 /\ ~ (cp >= 256 /\ cp <= Basic) /\ ~ (cp > Basic)
  BY SMT DEF Basic, Quote, Apostrophe, Backslash
<1>2. cp <= 255 /\ cp \notin Short =>
        /\ cp \in Byte1 /\ cp \notin {9, 10, 13} /\ cp \notin Marks
        /\ ~ (cp >= 256 /\ cp <= Basic) /\ ~ (cp > Basic)
  BY SMT DEF Basic, Quote, Apostrophe, Backslash, Short
<1>3. 256 <= cp /\ cp <= Basic =>
        /\ cp >= 256 /\ cp <= Basic /\ cp \notin {9, 10, 13} /\ cp \notin Marks
        /\ cp \notin Byte1 /\ ~ (cp > Basic)
  BY SMT DEF Basic, Quote, Apostrophe, Backslash
<1>4. Basic < cp =>
        /\ cp > Basic /\ cp \notin {9, 10, 13} /\ cp \notin Marks
        /\ cp \notin Byte1 /\ ~ (cp >= 256 /\ cp <= Basic)
  BY SMT DEF Basic, Quote, Apostrophe, Backslash
<1>5. cp = 9 => WriteEscapedCp(cp, bytes) = <<Backslash, 116>>
  <2>1. cp = 9 =>
          /\ cp # 10 /\ cp # 13 /\ cp \notin Marks /\ cp \notin Byte1
          /\ ~ (cp >= 256 /\ cp <= Basic) /\ ~ (cp > Basic)
    BY SMT DEF Basic, Quote, Apostrophe, Backslash
  <2>2. QED
    BY <2>1, Zenon DEF WriteEscapedCp
<1>6. cp = 10 => WriteEscapedCp(cp, bytes) = <<Backslash, 110>>
  <2>1. cp = 10 =>
          /\ cp # 9 /\ cp # 13 /\ cp \notin Marks /\ cp \notin Byte1
          /\ ~ (cp >= 256 /\ cp <= Basic) /\ ~ (cp > Basic)
    BY SMT DEF Basic, Quote, Apostrophe, Backslash
  <2>2. QED
    BY <2>1, Zenon DEF WriteEscapedCp
<1>7. cp = 13 => WriteEscapedCp(cp, bytes) = <<Backslash, 114>>
  <2>1. cp = 13 =>
          /\ cp # 9 /\ cp # 10 /\ cp \notin Marks /\ cp \notin Byte1
          /\ ~ (cp >= 256 /\ cp <= Basic) /\ ~ (cp > Basic)
    BY SMT DEF Basic, Quote, Apostrophe, Backslash
  <2>2. QED
    BY <2>1, Zenon DEF WriteEscapedCp
<1>8. cp \in Marks => WriteEscapedCp(cp, bytes) = <<Backslash, cp>>
  BY <1>1, Zenon DEF WriteEscapedCp
<1>9. cp <= 255 /\ cp \notin Short => WriteEscapedCp(cp, bytes) = Hex(120, cp, 2)
  BY <1>2, Zenon DEF WriteEscapedCp
<1>10. 256 <= cp /\ cp <= Basic => WriteEscapedCp(cp, bytes) = Hex(117, cp, 4)
  BY <1>3, Zenon DEF WriteEscapedCp
<1>11. Basic < cp => WriteEscapedCp(cp, bytes)
                       = <<Backslash, 85, 48, 48>> \o SubSeq(Hex(85, cp, 6), 3, 8)
  BY <1>4, Zenon DEF WriteEscapedCp
<1>12. QED
  BY <1>5, <1>6, <1>7, <1>8, <1>9, <1>10, <1>11

LEMMA WriteByteIs ==
  ASSUME NEW bytes PROVE WriteEscapedCp(Invalid, bytes) = Hex(120, bytes[1], 2)
BY SMT DEF WriteEscapedCp, Invalid, Quote, Apostrophe, Backslash, Basic

(* The number of two, four and eight digits.                               *)
LEMMA NumberOfTwo ==
  ASSUME NEW y, Len(y) = 2, NEW cp \in Nat, cp <= 255,
         \A i \in 1 .. 2 : y[i] = HexDigit(Digit(cp, 2 - i))
  PROVE  HexNumber(y) = cp
<1>1. PICK a \in Int, b \in Int : a = Digit(cp, 1) /\ b = Digit(cp, 0)
  BY DigitIs
<1>2. /\ 0 <= a /\ a <= 15 /\ 0 <= b /\ b <= 15
  BY <1>1, DigitIs
<1>3. y[1] = HexDigit(a) /\ y[2] = HexDigit(b)
  BY <1>1
<1>4. /\ y[1] \in Int /\ HexValue(y[1]) = a /\ y[2] \in Int /\ HexValue(y[2]) = b
  BY <1>2, <1>3, HexDigitIs
<1>5. PICK f : /\ f[0] = 0 /\ HexNumber(y) = f[2]
               /\ \A n \in 1 .. 2 : f[n] = f[n - 1] * 16 + HexValue(y[n])
  <2>1. Len(y) \in Nat /\ \A n \in 1 .. Len(y) : y[n] \in Int
    BY <1>4
  <2>2. \E f : /\ f[0] = 0 /\ HexNumber(y) = f[Len(y)]
               /\ \A n \in 1 .. Len(y) : f[n] = f[n - 1] * 16 + HexValue(y[n])
    BY <2>1, HexNumberIs, Zenon
  <2>3. QED
    BY <2>2
<1>6. f[1] = a
  BY <1>4, <1>5
<1>7. f[2] = a * 16 + b
  BY <1>4, <1>5, <1>6
<1>8. a * 16 + b = cp
  <2>1. a = (cp \div 16) % 16 /\ b = cp % 16
    BY <1>1, DigitsAre
  <2>2. QED
    BY <2>1, TwoDigits
<1>9. QED
  BY <1>5, <1>7, <1>8

LEMMA NumberOfFour ==
  ASSUME NEW y, Len(y) = 4, NEW cp \in Nat, cp <= Basic,
         \A i \in 1 .. 4 : y[i] = HexDigit(Digit(cp, 4 - i))
  PROVE  HexNumber(y) = cp
<1>1. PICK a \in Int, b \in Int, c \in Int, d \in Int :
        a = Digit(cp, 3) /\ b = Digit(cp, 2) /\ c = Digit(cp, 1) /\ d = Digit(cp, 0)
  <2>1. /\ Digit(cp, 3) \in Int /\ Digit(cp, 2) \in Int
        /\ Digit(cp, 1) \in Int /\ Digit(cp, 0) \in Int
    BY DigitIs
  <2>2. QED
    BY <2>1, Zenon
<1>2. /\ 0 <= a /\ a <= 15 /\ 0 <= b /\ b <= 15
      /\ 0 <= c /\ c <= 15 /\ 0 <= d /\ d <= 15
  BY <1>1, DigitIs
<1>3. y[1] = HexDigit(a) /\ y[2] = HexDigit(b) /\ y[3] = HexDigit(c) /\ y[4] = HexDigit(d)
  BY <1>1
<1>4. /\ y[1] \in Int /\ HexValue(y[1]) = a /\ y[2] \in Int /\ HexValue(y[2]) = b
      /\ y[3] \in Int /\ HexValue(y[3]) = c /\ y[4] \in Int /\ HexValue(y[4]) = d
  BY <1>2, <1>3, HexDigitIs
<1>5. PICK f : /\ f[0] = 0 /\ HexNumber(y) = f[4]
               /\ \A n \in 1 .. 4 : f[n] = f[n - 1] * 16 + HexValue(y[n])
  <2>1. Len(y) \in Nat /\ \A n \in 1 .. Len(y) : y[n] \in Int
    BY <1>4
  <2>2. \E f : /\ f[0] = 0 /\ HexNumber(y) = f[Len(y)]
               /\ \A n \in 1 .. Len(y) : f[n] = f[n - 1] * 16 + HexValue(y[n])
    BY <2>1, HexNumberIs, Zenon
  <2>3. QED
    BY <2>2
<1>6. f[1] = a
  BY <1>4, <1>5
<1>7. f[2] = a * 16 + b
  BY <1>4, <1>5, <1>6
<1>8. f[3] = (a * 16 + b) * 16 + c
  BY <1>4, <1>5, <1>7
<1>9. f[4] = ((a * 16 + b) * 16 + c) * 16 + d
  BY <1>4, <1>5, <1>8
<1>10. ((a * 16 + b) * 16 + c) * 16 + d = cp
  <2>1. /\ a = (cp \div 4096) % 16 /\ b = (cp \div 256) % 16
        /\ c = (cp \div 16) % 16 /\ d = cp % 16
    BY SMT, <1>1, DigitsAre
  <2>2. QED
    BY SMT, <2>1, FourDigits
<1>11. QED
  BY <1>5, <1>9, <1>10

LEMMA NumberOfEight ==
  ASSUME NEW y, Len(y) = 8, NEW cp \in Nat, cp <= Highest, y[1] = 48, y[2] = 48,
         \A i \in 1 .. 6 : y[i + 2] = HexDigit(Digit(cp, 6 - i))
  PROVE  HexNumber(y) = cp
<1>1. PICK a \in Int, b \in Int, c \in Int, d \in Int, e \in Int, g \in Int :
        /\ a = Digit(cp, 5) /\ b = Digit(cp, 4) /\ c = Digit(cp, 3)
        /\ d = Digit(cp, 2) /\ e = Digit(cp, 1) /\ g = Digit(cp, 0)
  BY DigitIs
<1>2. /\ 0 <= a /\ a <= 15 /\ 0 <= b /\ b <= 15 /\ 0 <= c /\ c <= 15
      /\ 0 <= d /\ d <= 15 /\ 0 <= e /\ e <= 15 /\ 0 <= g /\ g <= 15
  BY <1>1, DigitIs
<1>3. /\ y[3] = HexDigit(a) /\ y[4] = HexDigit(b) /\ y[5] = HexDigit(c)
      /\ y[6] = HexDigit(d) /\ y[7] = HexDigit(e) /\ y[8] = HexDigit(g)
  BY <1>1
<1>4. /\ y[3] \in Int /\ HexValue(y[3]) = a /\ y[4] \in Int /\ HexValue(y[4]) = b
      /\ y[5] \in Int /\ HexValue(y[5]) = c /\ y[6] \in Int /\ HexValue(y[6]) = d
      /\ y[7] \in Int /\ HexValue(y[7]) = e /\ y[8] \in Int /\ HexValue(y[8]) = g
  BY <1>2, <1>3, HexDigitIs
<1>5. HexValue(48) = 0 /\ y[1] \in Int /\ y[2] \in Int
  BY DEF HexValue
<1>6. PICK f : /\ f[0] = 0 /\ HexNumber(y) = f[8]
               /\ \A n \in 1 .. 8 : f[n] = f[n - 1] * 16 + HexValue(y[n])
  <2>1. Len(y) \in Nat /\ \A n \in 1 .. Len(y) : y[n] \in Int
    BY <1>4, <1>5
  <2>2. \E f : /\ f[0] = 0 /\ HexNumber(y) = f[Len(y)]
               /\ \A n \in 1 .. Len(y) : f[n] = f[n - 1] * 16 + HexValue(y[n])
    BY <2>1, HexNumberIs, Zenon
  <2>3. QED
    BY <2>2
<1>7. f[1] = 0
  BY <1>5, <1>6
<1>8. f[2] = 0
  BY <1>5, <1>6, <1>7
<1>9. f[3] = a
  BY <1>4, <1>6, <1>8
<1>10. f[4] = a * 16 + b
  BY <1>4, <1>6, <1>9
<1>11. f[5] = (a * 16 + b) * 16 + c
  BY <1>4, <1>6, <1>10
<1>12. f[6] = ((a * 16 + b) * 16 + c) * 16 + d
  BY <1>4, <1>6, <1>11
<1>13. f[7] = (((a * 16 + b) * 16 + c) * 16 + d) * 16 + e
  BY <1>4, <1>6, <1>12
<1>14. f[8] = ((((a * 16 + b) * 16 + c) * 16 + d) * 16 + e) * 16 + g
  BY <1>4, <1>6, <1>13
<1>15. ((((a * 16 + b) * 16 + c) * 16 + d) * 16 + e) * 16 + g = cp
  <2>1. /\ a = (cp \div 1048576) % 16 /\ b = (cp \div 65536) % 16
        /\ c = (cp \div 4096) % 16 /\ d = (cp \div 256) % 16
        /\ e = (cp \div 16) % 16 /\ g = cp % 16
    BY SMT, <1>1, DigitsAre
  <2>2. QED
    BY SMT, <2>1, SixDigits
<1>16. QED
  BY <1>6, <1>14, <1>15

LEMMA PairIs ==
  ASSUME NEW c \in Ascii, NEW x, x = <<Backslash, c>>
  PROVE  x \in Seq(Ascii) /\ Len(x) = 2 /\ x[1] = Backslash /\ x[2] = c
<1>1. Backslash \in Ascii
  BY SMT DEF Backslash, Ascii
<1>2. QED
  BY <1>1

LEMMA LastSix ==
  ASSUME NEW h \in Seq(Ascii), Len(h) = 8
  PROVE  /\ SubSeq(h, 3, 8) \in Seq(Ascii) /\ Len(SubSeq(h, 3, 8)) = 6
         /\ \A i \in 1 .. 6 : SubSeq(h, 3, 8)[i] = h[i + 2]
<1>1. PICK m \in Nat \ {0}, n \in Nat : m = 3 /\ n = 8
  OBVIOUS
<1>2. m <= n + 1 /\ n <= Len(h) /\ n - m + 1 = 6
  BY <1>1
<1>3. /\ SubSeq(h, m, n) \in Seq(Ascii) /\ Len(SubSeq(h, m, n)) = n - m + 1
      /\ \A i \in 1 .. n - m + 1 : SubSeq(h, m, n)[i] = h[m + i - 1]
  BY <1>2, SubSeqIs, Zenon
<1>4. \A i \in 1 .. 6 : m + i - 1 = i + 2
  BY <1>1
<1>5. QED
  BY <1>1, <1>2, <1>3, <1>4

LEMMA CodeIs ==
  ASSUME NEW cp \in Nat, cp <= Highest, NEW bytes, NEW x, x = WriteEscapedCp(cp, bytes)
  PROVE  /\ x \in Seq(Ascii) /\ Len(x) >= 2 /\ x[1] = Backslash
         /\ Coded(x, cp)
<1>1. 116 \in Ascii /\ 110 \in Ascii /\ 114 \in Ascii /\ 120 \in Ascii
      /\ 117 \in Ascii /\ 85 \in Ascii /\ 48 \in Ascii
  BY SMT DEF Ascii
<1>2. CASE cp \in {9, 10, 13}
  <2>1. PICK t \in Ascii, n \in Ascii, r \in Ascii : t = 116 /\ n = 110 /\ r = 114
    BY <1>1
  <2>2. /\ cp = 9 => WriteEscapedCp(cp, bytes) = <<Backslash, 116>>
        /\ cp = 10 => WriteEscapedCp(cp, bytes) = <<Backslash, 110>>
        /\ cp = 13 => WriteEscapedCp(cp, bytes) = <<Backslash, 114>>
    BY WriteIs, Zenon
  <2>3. /\ cp = 9 => x = <<Backslash, t>>
        /\ cp = 10 => x = <<Backslash, n>>
        /\ cp = 13 => x = <<Backslash, r>>
    BY <2>1, <2>2
  <2>4. /\ x \in Seq(Ascii) /\ Len(x) = 2 /\ x[1] = Backslash
        /\ \/ cp = 9 /\ x[2] = t
           \/ cp = 10 /\ x[2] = n
           \/ cp = 13 /\ x[2] = r
    <3>1. CASE cp = 9
      <4>1. x \in Seq(Ascii) /\ Len(x) = 2 /\ x[1] = Backslash /\ x[2] = t
        BY <2>3, <3>1, PairIs, Zenon
      <4>2. QED
        BY <3>1, <4>1, Zenon
    <3>2. CASE cp = 10
      <4>1. x \in Seq(Ascii) /\ Len(x) = 2 /\ x[1] = Backslash /\ x[2] = n
        BY <2>3, <3>2, PairIs, Zenon
      <4>2. QED
        BY <3>2, <4>1, Zenon
    <3>3. CASE cp = 13
      <4>1. x \in Seq(Ascii) /\ Len(x) = 2 /\ x[1] = Backslash /\ x[2] = r
        BY <2>3, <3>3, PairIs, Zenon
      <4>2. QED
        BY <3>3, <4>1, Zenon
    <3>4. QED
      BY <1>2, <3>1, <3>2, <3>3
  <2>5. \/ cp = 9 /\ x[2] = 116
        \/ cp = 10 /\ x[2] = 110
        \/ cp = 13 /\ x[2] = 114
    BY <2>1, <2>4, Zenon
  <2>6. Coded(x, cp)
    BY <2>4, <2>5, Zenon DEF Coded
  <2>7. QED
    BY <2>4, <2>6
<1>3. CASE cp \in {Quote, Apostrophe, Backslash}
  <2>1. cp \in Ascii
    BY SMT, <1>3 DEF Quote, Apostrophe, Backslash, Ascii
  <2>2. x = <<Backslash, cp>>
    <3>1. WriteEscapedCp(cp, bytes) = <<Backslash, cp>>
      BY <1>3, WriteIs
    <3>2. QED
      BY <3>1
  <2>3. x \in Seq(Ascii) /\ Len(x) = 2 /\ x[1] = Backslash /\ x[2] = cp
    BY <2>1, <2>2, PairIs, Zenon
  <2>4. QED
    BY <1>3, <2>3 DEF Coded
<1>4. CASE cp <= 255 /\ cp \notin Short
  <2>1. x = Hex(120, cp, 2)
    BY <1>4, WriteIs
  <2>2. /\ x \in Seq(Ascii) /\ Len(x) = 4 /\ x[1] = Backslash /\ x[2] = 120
        /\ \A i \in 1 .. 2 : x[i + 2] = HexDigit(Digit(cp, 2 - i))
    <3>1. PICK n \in Nat, l \in Ascii : n = 2 /\ l = 120
      BY <1>1
    <3>2. /\ Hex(l, cp, n) \in Seq(Ascii) /\ Len(Hex(l, cp, n)) = n + 2
          /\ Hex(l, cp, n)[1] = Backslash /\ Hex(l, cp, n)[2] = l
          /\ \A i \in 1 .. n : Hex(l, cp, n)[i + 2] = HexDigit(Digit(cp, n - i))
      BY HexIs, Zenon
    <3>3. QED
      BY <2>1, <3>1, <3>2
  <2> DEFINE y == SubSeq(x, 3, 4)
  <2>3. Len(y) = 2 /\ \A i \in 1 .. 2 : y[i] = x[i + 2]
    BY <2>2
  <2> HIDE DEF y
  <2>4. HexNumber(y) = cp
    BY <1>4, <2>2, <2>3, NumberOfTwo
  <2>5. QED
    BY <2>2, <2>4 DEF Coded, y
<1>5. CASE 256 <= cp /\ cp <= Basic
  <2>1. x = Hex(117, cp, 4)
    BY <1>5, WriteIs
  <2>2. /\ x \in Seq(Ascii) /\ Len(x) = 6 /\ x[1] = Backslash /\ x[2] = 117
        /\ \A i \in 1 .. 4 : x[i + 2] = HexDigit(Digit(cp, 4 - i))
    <3>1. PICK n \in Nat, l \in Ascii : n = 4 /\ l = 117
      BY <1>1
    <3>2. /\ Hex(l, cp, n) \in Seq(Ascii) /\ Len(Hex(l, cp, n)) = n + 2
          /\ Hex(l, cp, n)[1] = Backslash /\ Hex(l, cp, n)[2] = l
          /\ \A i \in 1 .. n : Hex(l, cp, n)[i + 2] = HexDigit(Digit(cp, n - i))
      BY HexIs, Zenon
    <3>3. QED
      BY <2>1, <3>1, <3>2
  <2> DEFINE y == SubSeq(x, 3, 6)
  <2>3. Len(y) = 4 /\ \A i \in 1 .. 4 : y[i] = x[i + 2]
    BY <2>2
  <2> HIDE DEF y
  <2>4. HexNumber(y) = cp
    BY <1>5, <2>2, <2>3, NumberOfFour
  <2>5. QED
    BY <2>2, <2>4 DEF Coded, y
<1>6. CASE Basic < cp
  <2> DEFINE h == Hex(85, cp, 6)
             z == SubSeq(h, 3, 8)
  <2>1. x = <<Backslash, 85, 48, 48>> \o z
    BY <1>6, WriteIs
  <2>2. /\ h \in Seq(Ascii) /\ Len(h) = 8
        /\ \A i \in 1 .. 6 : h[i + 2] = HexDigit(Digit(cp, 6 - i))
    <3>1. PICK n \in Nat, l \in Ascii : n = 6 /\ l = 85
      BY <1>1
    <3>2. /\ Hex(l, cp, n) \in Seq(Ascii) /\ Len(Hex(l, cp, n)) = n + 2
          /\ \A i \in 1 .. n : Hex(l, cp, n)[i + 2] = HexDigit(Digit(cp, n - i))
      BY HexIs, Zenon
    <3>3. QED
      BY <3>1, <3>2
  <2> HIDE DEF h
  <2>3. z \in Seq(Ascii) /\ Len(z) = 6 /\ \A i \in 1 .. 6 : z[i] = h[i + 2]
    BY <2>2, LastSix
  <2> HIDE DEF z
  <2>4. <<Backslash, 85, 48, 48>> \in Seq(Ascii)
    BY SMT DEF Backslash, Ascii
  <2>5. /\ x \in Seq(Ascii) /\ Len(x) = 10 /\ x[1] = Backslash /\ x[2] = 85
        /\ x[3] = 48 /\ x[4] = 48 /\ \A i \in 1 .. 6 : x[i + 4] = z[i]
    <3>1. PICK b \in Seq(Ascii) : b = <<Backslash, 85, 48, 48>>
      BY <2>4
    <3>2. /\ Len(b) = 4 /\ b[1] = Backslash /\ b[2] = 85 /\ b[3] = 48 /\ b[4] = 48
      BY <3>1
    <3>3. x = b \o z
      BY <2>1, <3>1
    <3>4. /\ x \in Seq(Ascii) /\ Len(x) = Len(b) + Len(z)
          /\ \A i \in 1 .. Len(b) : x[i] = b[i]
          /\ \A i \in 1 .. Len(z) : x[Len(b) + i] = z[i]
      <4>1. PICK w \in Seq(Ascii) : w = z
        BY <2>3
      <4>2. /\ b \o w \in Seq(Ascii) /\ Len(b \o w) = Len(b) + Len(w)
            /\ \A i \in 1 .. Len(b) : (b \o w)[i] = b[i]
            /\ \A i \in 1 .. Len(w) : (b \o w)[Len(b) + i] = w[i]
        OBVIOUS
      <4>3. QED
        BY <3>3, <4>1, <4>2, Zenon
    <3>5. \A i \in 1 .. 6 : 4 + i = i + 4
      OBVIOUS
    <3>6. QED
      BY <2>3, <3>2, <3>4, <3>5
  <2> DEFINE y == SubSeq(x, 3, 10)
  <2>6. Len(y) = 8 /\ \A i \in 1 .. 8 : y[i] = x[i + 2]
    BY <2>5
  <2> HIDE DEF y
  <2>7. y[1] = 48 /\ y[2] = 48
    BY <2>5, <2>6
  <2>8. ASSUME NEW i \in 1 .. 6 PROVE y[i + 2] = HexDigit(Digit(cp, 6 - i))
    <3>1. i + 2 \in 1 .. 8 /\ (i + 2) + 2 = i + 4
      OBVIOUS
    <3>2. y[i + 2] = x[i + 4]
      BY <2>6, <3>1
    <3>3. QED
      BY <2>2, <2>3, <2>5, <3>2
  <2>9. HexNumber(y) = cp
    BY <2>6, <2>7, <2>8, NumberOfEight
  <2>10. QED
    BY <2>5, <2>9 DEF Coded, y
<1>7. \/ cp \in {9, 10, 13}
      \/ cp \in {Quote, Apostrophe, Backslash}
      \/ cp <= 255 /\ cp \notin Short
      \/ 256 <= cp /\ cp <= Basic
      \/ Basic < cp
  BY SMT DEF Short, Basic
<1>8. QED
  BY <1>2, <1>3, <1>4, <1>5, <1>6, <1>7

LEMMA ByteCodeIs ==
  ASSUME NEW bytes, bytes[1] \in Byte, NEW x, x = WriteEscapedCp(Invalid, bytes)
  PROVE  x \in Seq(Ascii) /\ Len(x) >= 2 /\ x[1] = Backslash
<1>1. 120 \in Ascii /\ bytes[1] \in Nat
  BY SMT DEF Ascii, Byte
<1>2. x = Hex(120, bytes[1], 2)
  BY WriteByteIs
<1>3. PICK n \in Nat : n = 2
  OBVIOUS
<1>4. PICK b \in Nat, l \in Ascii : b = bytes[1] /\ l = 120
  BY <1>1
<1>5. /\ Hex(l, b, n) \in Seq(Ascii) /\ Len(Hex(l, b, n)) = n + 2
      /\ Hex(l, b, n)[1] = Backslash
  BY HexIs, Zenon
<1>6. x = Hex(l, b, n)
  BY <1>2, <1>3, <1>4
<1>7. Len(x) = n + 2
  BY <1>5, <1>6
<1>8. x \in Seq(Ascii) /\ x[1] = Backslash
  BY <1>5, <1>6, Zenon
<1>9. QED
  BY <1>3, <1>7, <1>8

-----------------------------------------------------------------------------
(* What the escaper writes for a piece, and for all of them.               *)

LEMMA AsciiByte == Ascii \subseteq Byte
BY SMT DEF Ascii, Byte

(* An ASCII character is decoded from its byte and from no other.          *)
LEMMA AsciiDecodes ==
  ASSUME NEW s \in Seq(Byte), NEW p \in 1 .. Len(s), s[p] \in Ascii
  PROVE  Decode(s, p) = [cp |-> s[p], len |-> 1]
<1>1. s[p] \in Int /\ 0 <= s[p] /\ s[p] < 128 /\ s[p] <= 255 /\ s[p] \in 0 .. 127
  <2>1. PICK b \in Ascii : b = s[p]
    OBVIOUS
  <2>2. b \in Int /\ 0 <= b /\ b < 128 /\ b <= 255 /\ b \in 0 .. 127
    BY SMT DEF Ascii
  <2>3. QED
    BY <2>1, <2>2
<1>2. LengthOf(s[p]) = 1
  BY <1>1, LengthIs
<1>3. CodePoint(s, p) = s[p]
  BY <1>2 DEF CodePoint
<1>4. ~ Errs(s, p)
  <2>1. Legal(1, s[p], At(s, p + 1), At(s, p + 2), At(s, p + 3))
    BY <1>1, SMT DEF Legal
  <2>2. QED
    BY <1>2, <2>1, ErrsWhen
<1>5. QED
  BY <1>2, <1>3, <1>4, DecodesTo

LEMMA CodePointFits ==
  ASSUME NEW s \in Seq(Byte), NEW p \in 1 .. Len(s), Decode(s, p).cp # Invalid
  PROVE  Decode(s, p).cp \in Nat /\ Decode(s, p).cp <= Highest
<1>1. ~ Errs(s, p) /\ Decode(s, p).cp = CodePoint(s, p)
  BY DecodesTo
<1>2. Decode(s, p).cp \in Nat
  BY DecodeIs
<1>3. ~ (CodePoint(s, p) > Highest)
  BY <1>1 DEF Errs
<1>4. QED
  BY SMT, <1>1, <1>2, <1>3 DEF Highest

(* A piece is copied if its code point can be printed, else it is coded in *)
(* ASCII.                                                                  *)
Copied(x, s, d) ==
  /\ d.cp # Invalid /\ ~ NeedsEscape(d.cp)
  /\ Len(x) = d.to - d.from + 1
  /\ \A j \in 1 .. Len(x) : x[j] = s[d.from + j - 1]
Escape(x, d) ==
  /\ x \in Seq(Ascii) /\ Len(x) >= 2 /\ x[1] = Backslash
  /\ d.cp # Invalid => Coded(x, d.cp)

LEMMA EscapedPieceIs ==
  ASSUME NEW s \in Seq(Byte), NEW p \in 1 .. Len(s), NEW d, d = PieceAt(s, p),
         NEW x, x = EscapedPiece(s, d)
  PROVE  /\ x \in Seq(Byte) /\ Len(x) >= 1
         /\ Copied(x, s, d) \/ Escape(x, d)
<1> DEFINE bytes == SubSeq(s, d.from, d.to)
<1>1. /\ d.from = p /\ d.to \in Nat /\ p <= d.to /\ d.to <= Len(s) /\ d.cp = Decode(s, p).cp
  BY PieceAtIs DEF Piece
<1>2. /\ bytes \in Seq(Byte) /\ Len(bytes) = d.to - d.from + 1
      /\ \A j \in 1 .. Len(bytes) : bytes[j] = s[d.from + j - 1]
  <2>1. p \in Nat \ {0} /\ p <= d.to + 1
    BY <1>1
  <2>2. /\ SubSeq(s, p, d.to) \in Seq(Byte) /\ Len(SubSeq(s, p, d.to)) = d.to - p + 1
        /\ \A k \in 1 .. d.to - p + 1 : SubSeq(s, p, d.to)[k] = s[p + k - 1]
    BY <1>1, <2>1, SubSeqIs
  <2>3. QED
    BY <1>1, <2>2
<1>3. Len(bytes) >= 1 /\ bytes[1] \in Byte
  <2>1. Len(bytes) >= 1
    BY <1>1, <1>2
  <2>2. QED
    BY <1>2, <2>1, ElementIs
<1>4. x = IF d.cp = Invalid \/ NeedsEscape(d.cp) THEN WriteEscapedCp(d.cp, bytes) ELSE bytes
  BY DEF EscapedPiece
<1> HIDE DEF bytes
<1>5. CASE d.cp # Invalid /\ ~ NeedsEscape(d.cp)
  <2>1. x = bytes
    BY <1>4, <1>5
  <2>2. QED
    BY <1>2, <1>3, <1>5, <2>1 DEF Copied
<1>6. CASE d.cp # Invalid /\ NeedsEscape(d.cp)
  <2>1. x = WriteEscapedCp(d.cp, bytes)
    BY <1>4, <1>6
  <2>2. d.cp \in Nat /\ d.cp <= Highest
    BY <1>1, <1>6, CodePointFits
  <2>3. x \in Seq(Ascii) /\ Len(x) >= 2 /\ x[1] = Backslash /\ Coded(x, d.cp)
    BY <2>1, <2>2, CodeIs
  <2>4. x \in Seq(Byte) /\ Len(x) >= 1
    BY <2>3, AsciiByte
  <2>5. QED
    BY <2>3, <2>4 DEF Escape
<1>7. CASE d.cp = Invalid
  <2>1. x = WriteEscapedCp(Invalid, bytes)
    BY <1>4, <1>7
  <2>2. x \in Seq(Ascii) /\ Len(x) >= 2 /\ x[1] = Backslash
    BY <1>3, <2>1, ByteCodeIs
  <2>3. x \in Seq(Byte) /\ Len(x) >= 1
    BY <2>2, AsciiByte
  <2>4. QED
    BY <1>7, <2>2, <2>3 DEF Escape
<1>8. QED
  BY <1>5, <1>6, <1>7

(* The sequence e is made of the sequences of x, the k-th of which ends at *)
(* a[k].                                                                   *)
Parts(e, x, a) ==
  /\ a \in [0 .. Len(x) -> Nat] /\ a[0] = 0 /\ a[Len(x)] = Len(e)
  /\ \A k \in 1 .. Len(x) :
       /\ a[k] = a[k - 1] + Len(x[k]) /\ a[k] <= Len(e)
       /\ \A j \in 1 .. Len(x[k]) : e[a[k - 1] + j] = x[k][j]
Joins(G, x) ==
  /\ G \in [0 .. Len(x) -> Seq(Byte)] /\ G[0] = <<>>
  /\ \A n \in 1 .. Len(x) : G[n] = G[n - 1] \o x[n]

LEMMA JoinsGrow ==
  ASSUME NEW x \in Seq(Seq(Byte)), NEW G, Joins(G, x), NEW k \in 0 .. Len(x)
  PROVE  \A n \in k .. Len(x) :
           Len(G[k]) <= Len(G[n]) /\ \A j \in 1 .. Len(G[k]) : G[n][j] = G[k][j]
<1> DEFINE P == {i \in Nat : k + i <= Len(x) =>
                   /\ Len(G[k]) <= Len(G[k + i])
                   /\ \A j \in 1 .. Len(G[k]) : G[k + i][j] = G[k][j]}
<1>1. Len(x) \in Nat /\ k \in Nat /\ \A n \in 0 .. Len(x) : G[n] \in Seq(Byte)
  <2>1. Len(x) \in Nat
    OBVIOUS
  <2>2. \A n \in 0 .. Len(x) : G[n] \in Seq(Byte)
    BY Zenon DEF Joins
  <2>3. QED
    BY <2>1, <2>2
<1>2. 0 \in P
  BY <1>1
<1>3. ASSUME NEW i \in Nat, i \in P PROVE i + 1 \in P
  <2> SUFFICES ASSUME k + (i + 1) <= Len(x)
               PROVE  /\ Len(G[k]) <= Len(G[k + (i + 1)])
                      /\ \A j \in 1 .. Len(G[k]) : G[k + (i + 1)][j] = G[k][j]
    OBVIOUS
  <2> DEFINE n == k + (i + 1)
  <2>1. n \in 1 .. Len(x) /\ n - 1 = k + i /\ n - 1 \in 0 .. Len(x) /\ n \in 0 .. Len(x)
    BY <1>1
  <2>2. Len(G[k]) <= Len(G[n - 1]) /\ \A j \in 1 .. Len(G[k]) : G[n - 1][j] = G[k][j]
    BY <1>1, <1>3, <2>1
  <2> HIDE DEF n
  <2>3. G[n] = G[n - 1] \o x[n]
    BY <2>1 DEF Joins
  <2>4. PICK b \in Seq(Byte), c \in Seq(Byte) : b = G[n - 1] /\ c = x[n]
    BY <1>1, <2>1
  <2>5. Len(b \o c) >= Len(b) /\ \A j \in 1 .. Len(b) : (b \o c)[j] = b[j]
    OBVIOUS
  <2>6. Len(G[n]) >= Len(G[n - 1]) /\ \A j \in 1 .. Len(G[n - 1]) : G[n][j] = G[n - 1][j]
    BY <2>3, <2>4, <2>5
  <2>7. Len(G[k]) \in Nat /\ Len(G[n - 1]) \in Nat /\ Len(G[n]) \in Nat
    BY <1>1, <2>1
  <2>8. Len(G[k]) <= Len(G[n])
    BY <2>2, <2>6, <2>7
  <2>9. \A j \in 1 .. Len(G[k]) : j \in 1 .. Len(G[n - 1])
    BY <2>2, <2>7
  <2>10. \A j \in 1 .. Len(G[k]) : G[n][j] = G[k][j]
    BY <2>2, <2>6, <2>9
  <2>11. QED
    BY <2>8, <2>10 DEF n
<1> HIDE DEF P
<1>4. Nat \subseteq P
  BY <1>2, <1>3, NatSetInduction
<1>5. \A n \in k .. Len(x) : n - k \in Nat /\ k + (n - k) = n
  BY <1>1
<1>6. QED
  BY <1>4, <1>5 DEF P

LEMMA JoinedIs ==
  ASSUME NEW x \in Seq(Seq(Byte)), NEW G, Joins(G, x), NEW e, e = G[Len(x)]
  PROVE  e \in Seq(Byte) /\ Parts(e, x, [n \in 0 .. Len(x) |-> Len(G[n])])
<1> DEFINE m == Len(x)
           a == [n \in 0 .. m |-> Len(G[n])]
<1>1. m \in Nat /\ m \in 0 .. m /\ 0 \in 0 .. m /\ \A n \in 0 .. m : G[n] \in Seq(Byte)
  <2>1. m \in Nat
    OBVIOUS
  <2>2. \A n \in 0 .. m : G[n] \in Seq(Byte)
    BY Zenon DEF Joins
  <2>3. QED
    BY <2>1, <2>2
<1>2. e \in Seq(Byte)
  BY <1>1
<1>3. a \in [0 .. m -> Nat] /\ a[0] = 0 /\ a[m] = Len(e)
  <2>1. G[0] = <<>>
    BY DEF Joins
  <2>2. QED
    BY <1>1, <2>1
<1>4. ASSUME NEW k \in 1 .. m
      PROVE  /\ a[k] = a[k - 1] + Len(x[k]) /\ a[k] <= Len(e)
             /\ \A j \in 1 .. Len(x[k]) : e[a[k - 1] + j] = x[k][j]
  <2>1. k \in 0 .. m /\ k - 1 \in 0 .. m /\ m \in k .. m
    BY <1>1
  <2>2. G[k] = G[k - 1] \o x[k]
    BY DEF Joins
  <2>3. PICK b \in Seq(Byte), c \in Seq(Byte) : b = G[k - 1] /\ c = x[k]
    BY <1>1, <2>1
  <2>4. /\ Len(b \o c) = Len(b) + Len(c) /\ Len(b) \in Nat /\ Len(c) \in Nat
        /\ \A j \in 1 .. Len(c) : (b \o c)[Len(b) + j] = c[j]
    OBVIOUS
  <2>5. a[k] = Len(G[k]) /\ a[k - 1] = Len(G[k - 1])
    BY <2>1
  <2> HIDE DEF a, m
  <2>6. Len(G[k]) <= Len(e) /\ \A j \in 1 .. Len(G[k]) : e[j] = G[k][j]
    BY <2>1, JoinsGrow DEF m
  <2>7. a[k] = a[k - 1] + Len(x[k]) /\ a[k] <= Len(e)
    BY <2>2, <2>3, <2>4, <2>5, <2>6
  <2>8. ASSUME NEW j \in 1 .. Len(x[k]) PROVE e[a[k - 1] + j] = x[k][j]
    <3>1. G[k] = b \o c /\ j \in 1 .. Len(c)
      BY <2>2, <2>3
    <3>2. Len(b) + j \in 1 .. Len(G[k])
      <4>1. Len(G[k]) = Len(b) + Len(c)
        BY <2>4, <3>1
      <4>2. QED
        BY <2>4, <3>1, <4>1
    <3>3. e[Len(b) + j] = G[k][Len(b) + j] /\ G[k][Len(b) + j] = c[j]
      BY <2>4, <2>6, <3>1, <3>2, Zenon
    <3>4. QED
      BY <2>3, <2>5, <3>3
  <2>9. QED
    BY <2>7, <2>8
<1> HIDE DEF a, m
<1>5. Parts(e, x, a)
  BY <1>3, <1>4 DEF Parts, m
<1>6. QED
  BY <1>2, <1>5 DEF a, m

(* The pieces of s as they are written.                                    *)
Coding(s) == [k \in 1 .. Len(Pieces(s)) |-> EscapedPiece(s, Pieces(s)[k])]

LEMMA PieceIs ==
  ASSUME NEW s \in Seq(Byte), NEW k \in 1 .. Len(Pieces(s))
  PROVE  LET d == Pieces(s)[k] IN
         /\ d.from \in 1 .. Len(s) /\ d = PieceAt(s, d.from) /\ d.cp = Decode(s, d.from).cp
         /\ d.to = d.from + Decode(s, d.from).len - 1 /\ d.from <= d.to /\ d.to <= Len(s)
         /\ d.to \in Nat
<1> DEFINE q == Pieces(s)
<1>1. q \in Cuts(s)
  BY PiecesAre
<1> HIDE DEF q
<1>2. k \in 1 .. Len(q)
  BY DEF q
<1>3. /\ q[k] \in Piece /\ q[k].from = From(q, k) /\ From(q, k) \in 1 .. Len(s)
      /\ q[k].cp = Decode(s, From(q, k)).cp
      /\ q[k].to = From(q, k) + Decode(s, From(q, k)).len - 1
      /\ q[k].from <= q[k].to /\ q[k].to <= Len(s)
  BY <1>1, <1>2, EndIs
<1>4. q[k] = PieceAt(s, From(q, k))
  BY <1>1, <1>2 DEF Cuts, IsCut
<1>5. QED
  BY <1>3, <1>4 DEF q, Piece

LEMMA CodingIs ==
  ASSUME NEW s \in Seq(Byte)
  PROVE  /\ Coding(s) \in Seq(Seq(Byte)) /\ Len(Coding(s)) = Len(Pieces(s))
         /\ Len(Pieces(s)) \in Nat
         /\ \A k \in 1 .. Len(Pieces(s)) :
              /\ Coding(s)[k] \in Seq(Byte) /\ Len(Coding(s)[k]) >= 1
              /\ \/ Copied(Coding(s)[k], s, Pieces(s)[k])
                 \/ Escape(Coding(s)[k], Pieces(s)[k])
<1> DEFINE q == Pieces(s)
<1>1. Len(q) \in Nat
  <2>1. q \in Seq(Piece)
    BY PiecesAre DEF Cuts
  <2>2. QED
    BY <2>1
<1>2. ASSUME NEW k \in 1 .. Len(q)
      PROVE  /\ Coding(s)[k] \in Seq(Byte) /\ Len(Coding(s)[k]) >= 1
             /\ Copied(Coding(s)[k], s, q[k]) \/ Escape(Coding(s)[k], q[k])
  <2>1. q[k].from \in 1 .. Len(s) /\ q[k] = PieceAt(s, q[k].from)
    BY PieceIs
  <2>2. Coding(s)[k] = EscapedPiece(s, q[k])
    BY DEF Coding
  <2> HIDE DEF q
  <2>3. QED
    BY <2>1, <2>2, EscapedPieceIs, Zenon
<1>3. Coding(s) \in [1 .. Len(q) -> Seq(Byte)]
  <2>1. \A k \in 1 .. Len(q) : EscapedPiece(s, q[k]) \in Seq(Byte)
    BY <1>2 DEF Coding
  <2>2. QED
    BY <2>1, Zenon DEF Coding
<1> HIDE DEF q
<1>4. Coding(s) \in Seq(Seq(Byte)) /\ Len(Coding(s)) = Len(q)
  BY <1>1, <1>3, ListIs
<1>5. QED
  BY <1>1, <1>2, <1>4, Zenon DEF q

LEMMA EscapedIs ==
  ASSUME NEW s \in Seq(Byte)
  PROVE  Escaped(s) \in Seq(Byte) /\ \E a : Parts(Escaped(s), Coding(s), a)
<1> DEFINE q     == Pieces(s)
           x     == Coding(s)
           m     == Len(q)
           Is(f) == f = [n \in 0 .. m |-> IF n = 0 THEN <<>> ELSE f[n - 1] \o EscapedPiece(s, q[n])]
           d     == [p \in Seq(Byte) \X (1 .. m) |-> p[1] \o x[p[2]]]
<1>1. x \in Seq(Seq(Byte)) /\ Len(x) = m /\ m \in Nat
      /\ \A k \in 1 .. m : x[k] \in Seq(Byte) /\ x[k] = EscapedPiece(s, q[k])
  BY CodingIs, Zenon DEF Coding
<1> HIDE DEF x, q, m
<1>2. d \in [Seq(Byte) \X (1 .. m) -> Seq(Byte)]
  <2>1. \A b \in Seq(Byte), k \in 1 .. m : b \o x[k] \in Seq(Byte)
    <3> SUFFICES ASSUME NEW b \in Seq(Byte), NEW k \in 1 .. m PROVE b \o x[k] \in Seq(Byte)
      OBVIOUS
    <3>1. PICK c \in Seq(Byte) : c = x[k]
      BY <1>1
    <3>2. b \o c \in Seq(Byte)
      OBVIOUS
    <3>3. QED
      BY <3>1, <3>2
  <2>2. QED
    BY <2>1
<1>3. \A b \in Seq(Byte), k \in 1 .. m : d[<<b, k>>] = b \o x[k]
  OBVIOUS
<1> HIDE DEF d
<1>4. PICK g : Ends(g, Seq(Byte), <<>>, d, m)
  <2>1. <<>> \in Seq(Byte)
    OBVIOUS
  <2>2. QED
    BY <1>1, <1>2, <2>1, UpTo, Zenon
<1>5. Is(g)
  <2>1. g \in [0 .. m -> Seq(Byte)] /\ g[0] = <<>>
        /\ \A n \in 1 .. m : g[n] = d[<<g[n - 1], n>>]
    BY <1>4, Zenon DEF Ends
  <2>2. ASSUME NEW n \in 0 .. m, n # 0 PROVE g[n] = g[n - 1] \o EscapedPiece(s, q[n])
    <3>1. n \in 1 .. m /\ n - 1 \in 0 .. m
      BY <1>1, <2>2
    <3>2. g[n] = d[<<g[n - 1], n>>] /\ g[n - 1] \in Seq(Byte)
      BY <2>1, <3>1, Zenon
    <3>3. QED
      BY <1>1, <1>3, <3>1, <3>2, Zenon
  <2>3. QED
    BY <2>1, <2>2, Zenon
<1> DEFINE f == CHOOSE f : Is(f)
<1>6. Is(f)
  BY <1>5, Zenon
<1>7. Escaped(s) = f[m]
  BY Zenon DEF Escaped, q, m
<1> HIDE DEF f
<1>8. \A n \in 0 .. m : f[n] = IF n = 0 THEN <<>> ELSE f[n - 1] \o EscapedPiece(s, q[n])
  BY <1>6, Zenon
<1>9. f[0] = <<>> /\ \A n \in 1 .. m : f[n] = f[n - 1] \o x[n]
  <2>1. 0 \in 0 .. m /\ \A n \in 1 .. m : n \in 0 .. m /\ n # 0
    BY <1>1
  <2>2. QED
    BY <1>1, <1>8, <2>1, Zenon
<1>10. Nat \subseteq {n \in Nat : n <= m => f[n] \in Seq(Byte)}
  <2> DEFINE P == {n \in Nat : n <= m => f[n] \in Seq(Byte)}
  <2>1. 0 \in P
    <3>1. <<>> \in Seq(Byte)
      OBVIOUS
    <3>2. QED
      BY <1>9, <3>1
  <2>2. ASSUME NEW n \in Nat, n \in P PROVE n + 1 \in P
    <3> SUFFICES ASSUME n + 1 <= m PROVE f[n + 1] \in Seq(Byte)
      OBVIOUS
    <3>1. n + 1 \in 1 .. m /\ (n + 1) - 1 = n /\ n <= m
      BY <1>1
    <3>2. f[n + 1] = f[(n + 1) - 1] \o x[n + 1]
      BY <1>9, <3>1, Zenon
    <3>3. PICK b \in Seq(Byte), c \in Seq(Byte) : b = f[n] /\ c = x[n + 1]
      BY <1>1, <2>2, <3>1
    <3>4. b \o c \in Seq(Byte)
      OBVIOUS
    <3>5. QED
      BY <3>1, <3>2, <3>3, <3>4
  <2> HIDE DEF P
  <2>3. QED
    BY <2>1, <2>2, NatSetInduction DEF P
<1>11. Joins(f, x)
  <2>1. f \in [0 .. m -> Seq(Byte)]
    <3>1. \A n \in 0 .. m : n \in Nat /\ n <= m
      BY <1>1
    <3>2. \A n \in 0 .. m : f[n] \in Seq(Byte)
      BY <1>10, <3>1
    <3>3. f = [n \in 0 .. m |-> f[n]]
      BY <1>6, Zenon
    <3>4. QED
      BY <3>2, <3>3, Zenon
  <2>2. QED
    BY <1>1, <1>9, <2>1, Zenon DEF Joins
<1>12. Escaped(s) \in Seq(Byte) /\ \E a : Parts(Escaped(s), x, a)
  BY <1>1, <1>7, <1>11, JoinedIs, Zenon
<1>13. QED
  BY <1>12 DEF x

(* A string, its pieces as they are written, the escaped text of them and  *)
(* where each ends in it.                                                  *)
Laid(s, x, e, a) ==
  s \in Seq(Byte) /\ x = Coding(s) /\ e = Escaped(s) /\ Parts(e, x, a)

LEMMA LaidIs ==
  ASSUME NEW s, NEW x, NEW e, NEW a, Laid(s, x, e, a)
  PROVE  /\ s \in Seq(Byte) /\ e \in Seq(Byte) /\ Len(x) \in Nat /\ Len(e) \in Nat
         /\ Len(Pieces(s)) = Len(x) /\ a[0] = 0 /\ a[Len(x)] = Len(e)
         /\ \A k \in 1 .. Len(x) :
              /\ a[k - 1] \in Nat /\ a[k] \in Nat /\ Len(x[k]) \in Nat /\ Len(x[k]) >= 1
              /\ a[k] = a[k - 1] + Len(x[k]) /\ a[k] <= Len(e)
              /\ \A j \in 1 .. Len(x[k]) : e[a[k - 1] + j] = x[k][j]
              /\ Copied(x[k], s, Pieces(s)[k]) \/ Escape(x[k], Pieces(s)[k])
<1>1. s \in Seq(Byte) /\ x = Coding(s) /\ e = Escaped(s) /\ Parts(e, x, a)
  BY DEF Laid
<1>2. e \in Seq(Byte) /\ Len(e) \in Nat
  <2>1. e \in Seq(Byte)
    BY <1>1, EscapedIs
  <2>2. QED
    BY <2>1
<1>3. /\ Len(x) = Len(Pieces(s)) /\ Len(x) \in Nat
      /\ \A k \in 1 .. Len(x) :
           /\ x[k] \in Seq(Byte) /\ Len(x[k]) >= 1
           /\ Copied(x[k], s, Pieces(s)[k]) \/ Escape(x[k], Pieces(s)[k])
  BY <1>1, CodingIs, Zenon
<1>4. /\ a \in [0 .. Len(x) -> Nat] /\ a[0] = 0 /\ a[Len(x)] = Len(e)
      /\ \A k \in 1 .. Len(x) :
           /\ a[k] = a[k - 1] + Len(x[k]) /\ a[k] <= Len(e)
           /\ \A j \in 1 .. Len(x[k]) : e[a[k - 1] + j] = x[k][j]
  BY <1>1, Zenon DEF Parts
<1>5. \A k \in 1 .. Len(x) : k \in 0 .. Len(x) /\ k - 1 \in 0 .. Len(x)
  BY <1>3
<1>6. \A k \in 1 .. Len(x) : a[k - 1] \in Nat /\ a[k] \in Nat
  BY <1>4, <1>5
<1>7. \A k \in 1 .. Len(x) : Len(x[k]) \in Nat
  <2> SUFFICES ASSUME NEW k \in 1 .. Len(x) PROVE Len(x[k]) \in Nat
    OBVIOUS
  <2>1. PICK b \in Seq(Byte) : b = x[k]
    BY <1>3
  <2>2. QED
    BY <2>1
<1>8. QED
  BY <1>1, <1>2, <1>3, <1>4, <1>6, <1>7, Zenon

(* No number of bytes is less than that of the pieces before it.           *)
LEMMA LaidGrows ==
  ASSUME NEW s, NEW x, NEW e, NEW a, Laid(s, x, e, a)
  PROVE  \A k \in 0 .. Len(x) : k <= a[k]
<1> DEFINE P == {k \in Nat : k <= Len(x) => k <= a[k]}
<1>1. 0 \in P
  BY LaidIs
<1>2. ASSUME NEW k \in Nat, k \in P PROVE k + 1 \in P
  <2> SUFFICES ASSUME k + 1 <= Len(x) PROVE k + 1 <= a[k + 1]
    OBVIOUS
  <2>1. Len(x) \in Nat
    BY LaidIs
  <2>2. k + 1 \in 1 .. Len(x) /\ (k + 1) - 1 = k /\ k <= Len(x)
    BY <2>1
  <2>3. /\ a[k] \in Nat /\ a[k + 1] \in Nat /\ Len(x[k + 1]) \in Nat /\ Len(x[k + 1]) >= 1
        /\ a[k + 1] = a[k] + Len(x[k + 1])
    <3>1. \A i \in 1 .. Len(x) :
            /\ a[i - 1] \in Nat /\ a[i] \in Nat /\ Len(x[i]) \in Nat
            /\ Len(x[i]) >= 1 /\ a[i] = a[i - 1] + Len(x[i])
      BY LaidIs
    <3>2. QED
      BY <2>2, <3>1
  <2>4. QED
    BY <1>2, <2>2, <2>3
<1> HIDE DEF P
<1>3. Nat \subseteq P
  BY <1>1, <1>2, NatSetInduction
<1>4. \A k \in 0 .. Len(x) : k \in Nat /\ k <= Len(x)
  BY LaidIs
<1>5. QED
  BY <1>3, <1>4 DEF P

LEMMA BackslashEscapes == NeedsEscape(Backslash) /\ Backslash \in Ascii /\ 120 # Backslash
BY SMT DEF NeedsEscape, Backslash, Quote, Ascii

(* What is copied decodes as it did.                                       *)
LEMMA CopiedAt ==
  ASSUME NEW s, NEW x, NEW e, NEW a, Laid(s, x, e, a), NEW k \in 1 .. Len(x),
         Copied(x[k], s, Pieces(s)[k])
  PROVE  /\ Decode(e, a[k - 1] + 1) = [cp |-> Pieces(s)[k].cp, len |-> Len(x[k])]
         /\ e[a[k - 1] + 1] # Backslash
<1> DEFINE d == Pieces(s)[k]
           p == d.from
           u == a[k - 1] + 1
           n == Len(x[k])
<1>1. /\ s \in Seq(Byte) /\ e \in Seq(Byte) /\ a[k - 1] \in Nat /\ n \in Nat /\ n >= 1
      /\ a[k - 1] + n <= Len(e) /\ Len(e) \in Nat
      /\ \A j \in 1 .. n : e[a[k - 1] + j] = x[k][j]
      /\ k \in 1 .. Len(Pieces(s))
  <2>1. /\ s \in Seq(Byte) /\ e \in Seq(Byte) /\ a[k - 1] \in Nat /\ n \in Nat /\ n >= 1
        /\ a[k] = a[k - 1] + n /\ a[k] <= Len(e) /\ Len(e) \in Nat
        /\ \A j \in 1 .. n : e[a[k - 1] + j] = x[k][j]
        /\ Len(x) = Len(Pieces(s))
    BY LaidIs
  <2>2. QED
    BY <2>1
<1>2. /\ p \in 1 .. Len(s) /\ d.cp = Decode(s, p).cp /\ p <= d.to /\ d.to \in Nat
      /\ d.to = p + Decode(s, p).len - 1 /\ d.to <= Len(s)
  BY <1>1, PieceIs
<1>3. /\ d.cp # Invalid /\ ~ NeedsEscape(d.cp) /\ n = d.to - p + 1
      /\ \A j \in 1 .. n : x[k][j] = s[p + j - 1]
  BY DEF Copied
<1>4. Decode(s, p).len \in 1 .. 4
  BY <1>1, <1>2, DecodeIs
<1> HIDE DEF d, p, n
<1>5. Decode(s, p).len = n
  BY <1>2, <1>3, <1>4
<1>6. u \in 1 .. Len(e)
  BY <1>1
<1>7. ASSUME NEW i \in 0 .. Decode(s, p).len - 1
      PROVE  u + i <= Len(e) /\ e[u + i] = s[p + i]
  <2>1. i + 1 \in 1 .. n /\ u + i = a[k - 1] + (i + 1) /\ p + (i + 1) - 1 = p + i
    <3>1. i \in 0 .. n - 1 /\ p \in Int
      BY <1>2, <1>5
    <3>2. PICK c \in Nat : c = a[k - 1]
      BY <1>1
    <3>3. n \in Nat /\ u = c + 1
      BY <1>1, <3>2
    <3>4. i + 1 \in 1 .. n /\ u + i = c + (i + 1) /\ p + (i + 1) - 1 = p + i
      BY <3>1, <3>3
    <3>5. QED
      BY <3>2, <3>4, Zenon
  <2>2. u + i <= Len(e)
    BY <1>1, <2>1
  <2>3. e[a[k - 1] + (i + 1)] = x[k][i + 1] /\ x[k][i + 1] = s[p + (i + 1) - 1]
    BY <1>1, <1>3, <2>1
  <2>4. QED
    BY <2>1, <2>2, <2>3
<1>8. Decode(e, u) = Decode(s, p)
  <2>1. Decode(s, p).cp # Invalid
    BY <1>2, <1>3
  <2> HIDE DEF u
  <2>2. QED
    BY <1>1, <1>2, <1>6, <1>7, <2>1, ValidSame
<1>9. Decode(s, p) = [cp |-> d.cp, len |-> n]
  <2>1. Decode(s, p) = [cp |-> Decode(s, p).cp, len |-> Decode(s, p).len]
    <3>1. \/ Decode(s, p) = [cp |-> Invalid, len |-> 1]
          \/ Decode(s, p) = [cp |-> CodePoint(s, p), len |-> LengthOf(s[p])]
      BY <1>1, <1>2, DecodesTo
    <3>2. QED
      BY <3>1
  <2>2. QED
    BY <1>2, <1>5, <2>1
<1>10. e[u] # Backslash
  <2> SUFFICES ASSUME e[u] = Backslash PROVE FALSE
    OBVIOUS
  <2> HIDE DEF u
  <2>1. Decode(e, u) = [cp |-> Backslash, len |-> 1]
    BY <1>1, <1>6, AsciiDecodes, BackslashEscapes
  <2>2. d.cp = Backslash
    BY <1>8, <1>9, <2>1
  <2>3. QED
    BY <1>3, <2>2, BackslashEscapes
<1>11. QED
  BY <1>8, <1>9, <1>10 DEF d, n

-----------------------------------------------------------------------------
(* The reader finds what was escaped.                                      *)

LEMMA ReadItemIs ==
  ASSUME NEW q, NEW p
  PROVE  /\ q[p] # Backslash => ReadItem(q, p) = Decode(q, p)
         /\ q[p] = Backslash /\ At(q, p + 1) = 120 =>
              ReadItem(q, p) = [cp |-> HexNumber(SubSeq(q, p + 2, p + 2 + 1)), len |-> 2 + 2]
         /\ q[p] = Backslash /\ At(q, p + 1) = 117 =>
              ReadItem(q, p) = [cp |-> HexNumber(SubSeq(q, p + 2, p + 4 + 1)), len |-> 4 + 2]
         /\ q[p] = Backslash /\ At(q, p + 1) = 85 =>
              ReadItem(q, p) = [cp |-> HexNumber(SubSeq(q, p + 2, p + 8 + 1)), len |-> 8 + 2]
         /\ q[p] = Backslash /\ At(q, p + 1) # 120 /\ At(q, p + 1) # 117 /\ At(q, p + 1) # 85 =>
              ReadItem(q, p) = [cp |-> Meant(q[p + 1]), len |-> 2]
<1>1. 120 # 117 /\ 120 # 85 /\ 117 # 85
  BY SMT
<1>2. PICK x, u, w : x = 120 /\ u = 117 /\ w = 85
  OBVIOUS
<1>3. x # u /\ x # w /\ u # w
  BY <1>1, <1>2
<1> DEFINE hex(n) == [cp |-> HexNumber(SubSeq(q, p + 2, p + n + 1)), len |-> n + 2]
<1>4. ReadItem(q, p) =
        CASE q[p] # Backslash                       -> Decode(q, p)
          [] q[p] = Backslash /\ At(q, p + 1) = x -> hex(2)
          [] q[p] = Backslash /\ At(q, p + 1) = u -> hex(4)
          [] q[p] = Backslash /\ At(q, p + 1) = w -> hex(8)
          [] OTHER                                  -> [cp |-> Meant(q[p + 1]), len |-> 2]
  BY <1>2 DEF ReadItem
<1> HIDE DEF hex
<1>5. /\ q[p] # Backslash => ReadItem(q, p) = Decode(q, p)
      /\ q[p] = Backslash /\ At(q, p + 1) = x => ReadItem(q, p) = hex(2)
      /\ q[p] = Backslash /\ At(q, p + 1) = u => ReadItem(q, p) = hex(4)
      /\ q[p] = Backslash /\ At(q, p + 1) = w => ReadItem(q, p) = hex(8)
      /\ q[p] = Backslash /\ At(q, p + 1) # x /\ At(q, p + 1) # u /\ At(q, p + 1) # w =>
           ReadItem(q, p) = [cp |-> Meant(q[p + 1]), len |-> 2]
  BY <1>3, <1>4, Zenon
<1>6. QED
  BY <1>2, <1>5 DEF hex

LEMMA MeantIs ==
  /\ Meant(116) = 9 /\ Meant(110) = 10 /\ Meant(114) = 13
  /\ Meant(Quote) = Quote /\ Meant(Apostrophe) = Apostrophe /\ Meant(Backslash) = Backslash
BY SMT DEF Meant, Quote, Apostrophe, Backslash

LEMMA SubSame ==
  ASSUME NEW e \in Seq(Byte), NEW y \in Seq(Byte), NEW b \in Nat, b + Len(y) <= Len(e),
         \A j \in 1 .. Len(y) : e[b + j] = y[j], NEW n \in Nat, n >= 3, n <= Len(y)
  PROVE  SubSeq(e, b + 3, b + n) = SubSeq(y, 3, n)
<1>1. Len(y) \in Nat /\ Len(e) \in Nat
  OBVIOUS
<1>2. /\ SubSeq(y, 3, n) \in Seq(Byte) /\ Len(SubSeq(y, 3, n)) = n - 3 + 1
      /\ \A k \in 1 .. n - 3 + 1 : SubSeq(y, 3, n)[k] = y[3 + k - 1]
  <2>1. PICK i \in Nat \ {0} : i = 3
    OBVIOUS
  <2>2. i <= n + 1
    BY <2>1
  <2>3. /\ SubSeq(y, i, n) \in Seq(Byte) /\ Len(SubSeq(y, i, n)) = n - i + 1
        /\ \A k \in 1 .. n - i + 1 : SubSeq(y, i, n)[k] = y[i + k - 1]
    BY <2>2, SubSeqIs, Zenon
  <2>4. QED
    BY <2>1, <2>3
<1>3. PICK f \in Nat \ {0}, g \in Nat : f = b + 3 /\ g = b + n
  <2>1. b + 3 \in Nat \ {0} /\ b + n \in Nat
    OBVIOUS
  <2>2. QED
    BY <2>1, Zenon
<1>4. /\ SubSeq(e, f, g) \in Seq(Byte) /\ Len(SubSeq(e, f, g)) = g - f + 1
      /\ \A k \in 1 .. g - f + 1 : SubSeq(e, f, g)[k] = e[f + k - 1]
  <2>1. f <= g + 1 /\ g <= Len(e)
    BY <1>1, <1>3
  <2>2. QED
    BY <2>1, SubSeqIs
<1>5. g - f + 1 = n - 3 + 1
  BY <1>3
<1>6. ASSUME NEW k \in 1 .. n - 3 + 1 PROVE e[f + k - 1] = y[3 + k - 1]
  <2>1. 3 + k - 1 \in 1 .. Len(y) /\ f + k - 1 = b + (3 + k - 1)
    BY <1>1, <1>3
  <2>2. QED
    BY <2>1
<1>7. PICK u \in Seq(Byte), v \in Seq(Byte) : u = SubSeq(e, f, g) /\ v = SubSeq(y, 3, n)
  BY <1>2, <1>4
<1>8. Len(u) = Len(v) /\ \A k \in 1 .. Len(u) : u[k] = v[k]
  BY <1>2, <1>4, <1>5, <1>6, <1>7
<1>9. u = v
  BY <1>8
<1>10. QED
  BY <1>3, <1>7, <1>9

(* What is coded is read back.                                             *)
LEMMA EscapeReads ==
  ASSUME NEW e \in Seq(Byte), NEW y \in Seq(Ascii), NEW b \in Nat, b + Len(y) <= Len(e),
         \A j \in 1 .. Len(y) : e[b + j] = y[j],
         y[1] = Backslash, Len(y) >= 2, NEW c, Coded(y, c)
  PROVE  ReadItem(e, b + 1) = [cp |-> c, len |-> Len(y)]
<1> DEFINE p == b + 1
<1>1. Len(y) \in Nat /\ Len(e) \in Nat /\ y \in Seq(Byte)
  BY AsciiByte
<1>2. e[p] = Backslash
  <2>1. 1 \in 1 .. Len(y)
    BY <1>1
  <2>2. QED
    BY <2>1
<1>3. At(e, p + 1) = y[2] /\ e[p + 1] = y[2]
  <2>1. 2 \in 1 .. Len(y) /\ p + 1 = b + 2 /\ p + 1 <= Len(e)
    BY <1>1
  <2>2. e[b + 2] = y[2]
    BY <2>1
  <2>3. QED
    BY <2>1, <2>2 DEF At
<1>4. \A n \in Nat : n >= 3 /\ n <= Len(y) => SubSeq(e, b + 3, b + n) = SubSeq(y, 3, n)
  BY <1>1, SubSame
<1>5. p + 2 = b + 3 /\ p + 2 + 1 = b + 4 /\ p + 4 + 1 = b + 6 /\ p + 8 + 1 = b + 10
  OBVIOUS
<1> HIDE DEF p
<1>6. CASE Len(y) = 4 /\ y[2] = 120 /\ HexNumber(SubSeq(y, 3, 4)) = c
  <2>1. ReadItem(e, p) = [cp |-> HexNumber(SubSeq(e, p + 2, p + 2 + 1)), len |-> 2 + 2]
    BY <1>2, <1>3, <1>6, ReadItemIs
  <2>2. SubSeq(e, b + 3, b + 4) = SubSeq(y, 3, 4)
    BY <1>4, <1>6
  <2>3. SubSeq(e, p + 2, p + 2 + 1) = SubSeq(y, 3, 4)
    BY <1>5, <2>2, Zenon
  <2>4. 2 + 2 = 4
    OBVIOUS
  <2>5. ReadItem(e, p) = [cp |-> c, len |-> Len(y)]
    BY <1>6, <2>1, <2>3, <2>4
  <2>6. QED
    BY <2>5 DEF p
<1>7. CASE Len(y) = 6 /\ y[2] = 117 /\ HexNumber(SubSeq(y, 3, 6)) = c
  <2>1. ReadItem(e, p) = [cp |-> HexNumber(SubSeq(e, p + 2, p + 4 + 1)), len |-> 4 + 2]
    BY <1>2, <1>3, <1>7, ReadItemIs
  <2>2. SubSeq(e, b + 3, b + 6) = SubSeq(y, 3, 6)
    BY <1>4, <1>7
  <2>3. SubSeq(e, p + 2, p + 4 + 1) = SubSeq(y, 3, 6)
    BY <1>5, <2>2, Zenon
  <2>4. 4 + 2 = 6
    OBVIOUS
  <2>5. ReadItem(e, p) = [cp |-> c, len |-> Len(y)]
    BY <1>7, <2>1, <2>3, <2>4
  <2>6. QED
    BY <2>5 DEF p
<1>8. CASE Len(y) = 10 /\ y[2] = 85 /\ HexNumber(SubSeq(y, 3, 10)) = c
  <2>1. ReadItem(e, p) = [cp |-> HexNumber(SubSeq(e, p + 2, p + 8 + 1)), len |-> 8 + 2]
    BY <1>2, <1>3, <1>8, ReadItemIs
  <2>2. SubSeq(e, b + 3, b + 10) = SubSeq(y, 3, 10)
    BY <1>4, <1>8
  <2>3. SubSeq(e, p + 2, p + 8 + 1) = SubSeq(y, 3, 10)
    BY <1>5, <2>2, Zenon
  <2>4. 8 + 2 = 10
    OBVIOUS
  <2>5. ReadItem(e, p) = [cp |-> c, len |-> Len(y)]
    BY <1>8, <2>1, <2>3, <2>4
  <2>6. QED
    BY <2>5 DEF p
<1>9. CASE /\ Len(y) = 2
           /\ \/ c = 9 /\ y[2] = 116
              \/ c = 10 /\ y[2] = 110
              \/ c = 13 /\ y[2] = 114
              \/ c \in {Quote, Apostrophe, Backslash} /\ y[2] = c
  <2>1. y[2] # 120 /\ y[2] # 117 /\ y[2] # 85
    BY SMT, <1>9 DEF Quote, Apostrophe, Backslash
  <2>2. ReadItem(e, p) = [cp |-> Meant(y[2]), len |-> 2]
    BY <1>2, <1>3, <2>1, ReadItemIs
  <2>3. Meant(y[2]) = c
    BY <1>9, MeantIs
  <2>4. QED
    BY <1>9, <2>2, <2>3 DEF p
<1>10. QED
  BY <1>6, <1>7, <1>8, <1>9, Zenon DEF Coded

(* Where a code point of the escaped text may begin: where a piece does or *)
(* anywhere in one that is ASCII.                                          *)
Begins(x, a, u) ==
  \E k \in 1 .. Len(x) :
    a[k - 1] < u /\ u <= a[k] /\ (u = a[k - 1] + 1 \/ x[k] \in Seq(Ascii))
Printable(cp) == cp \notin Unprintable \cup {Invalid} \cup 0 .. 31

LEMMA NextBegins ==
  ASSUME NEW s, NEW x, NEW e, NEW a, Laid(s, x, e, a), NEW k \in 0 .. Len(x)
  PROVE  a[k] = Len(e) \/ Begins(x, a, a[k] + 1)
<1>1. /\ Len(x) \in Nat /\ a[Len(x)] = Len(e)
      /\ \A i \in 1 .. Len(x) :
           /\ a[i - 1] \in Nat /\ a[i] \in Nat /\ Len(x[i]) \in Nat /\ Len(x[i]) >= 1
           /\ a[i] = a[i - 1] + Len(x[i])
  BY LaidIs
<1>2. CASE k = Len(x)
  BY <1>1, <1>2
<1>3. CASE k # Len(x)
  <2>1. k + 1 \in 1 .. Len(x) /\ (k + 1) - 1 = k
    BY <1>1, <1>3
  <2>2. /\ a[k] \in Nat /\ a[k + 1] \in Nat /\ Len(x[k + 1]) \in Nat /\ Len(x[k + 1]) >= 1
        /\ a[k + 1] = a[k] + Len(x[k + 1])
    BY <1>1, <2>1
  <2>3. a[(k + 1) - 1] < a[k] + 1 /\ a[k] + 1 <= a[k + 1] /\ a[k] + 1 = a[(k + 1) - 1] + 1
    BY <2>1, <2>2
  <2>4. QED
    BY <2>1, <2>3, Zenon DEF Begins
<1>4. QED
  BY <1>2, <1>3

LEMMA AsciiPrints == ASSUME NEW b \in Ascii PROVE Printable(b)
<1>1. b \in Int /\ b < 128 /\ b # Invalid /\ b \notin 0 .. 31
  BY SMT DEF Ascii, Invalid
<1>2. b \notin Unprintable
  BY <1>1, AsciiIsPrintable
<1>3. QED
  BY <1>1, <1>2, Zenon DEF Printable

LEMMA BeginsPrintable ==
  ASSUME NEW s, NEW x, NEW e, NEW a, Laid(s, x, e, a), NEW u \in 1 .. Len(e), Begins(x, a, u)
  PROVE  /\ Printable(Decode(e, u).cp)
         /\ u + Decode(e, u).len = Len(e) + 1 \/ Begins(x, a, u + Decode(e, u).len)
<1>1. PICK k \in 1 .. Len(x) :
        a[k - 1] < u /\ u <= a[k] /\ (u = a[k - 1] + 1 \/ x[k] \in Seq(Ascii))
  BY DEF Begins
<1>2. /\ e \in Seq(Byte) /\ Len(e) \in Nat /\ Len(x) \in Nat
      /\ a[k - 1] \in Nat /\ a[k] \in Nat /\ Len(x[k]) \in Nat
      /\ a[k] = a[k - 1] + Len(x[k]) /\ a[k] <= Len(e)
      /\ \A j \in 1 .. Len(x[k]) : e[a[k - 1] + j] = x[k][j]
      /\ Copied(x[k], s, Pieces(s)[k]) \/ Escape(x[k], Pieces(s)[k])
  BY LaidIs
<1>3. CASE x[k] \in Seq(Ascii)
  <2> DEFINE j == u - a[k - 1]
  <2>1. j \in 1 .. Len(x[k]) /\ a[k - 1] + j = u
    BY <1>1, <1>2
  <2> HIDE DEF j
  <2>2. x[k][j] \in Ascii
    BY <1>3, <2>1, ElementIs
  <2>3. e[u] \in Ascii
    <3>1. e[a[k - 1] + j] = x[k][j]
      BY <1>2, <2>1
    <3>2. QED
      BY <2>1, <2>2, <3>1
  <2>4. Decode(e, u) = [cp |-> e[u], len |-> 1]
    BY <1>2, <2>3, AsciiDecodes
  <2>5. Printable(Decode(e, u).cp)
    BY <2>3, <2>4, AsciiPrints
  <2>6. u + 1 = Len(e) + 1 \/ Begins(x, a, u + 1)
    <3>1. CASE u = a[k]
      <4>1. k \in 0 .. Len(x)
        BY <1>2
      <4>2. QED
        BY <3>1, <4>1, NextBegins
    <3>2. CASE u # a[k]
      <4>1. a[k - 1] < u + 1 /\ u + 1 <= a[k]
        BY <1>1, <1>2, <3>2
      <4>2. QED
        BY <1>3, <4>1 DEF Begins
    <3>3. QED
      BY <3>1, <3>2
  <2>7. QED
    BY <2>4, <2>5, <2>6
<1>4. CASE x[k] \notin Seq(Ascii)
  <2>1. u = a[k - 1] + 1 /\ Copied(x[k], s, Pieces(s)[k])
    BY <1>1, <1>2, <1>4 DEF Escape
  <2>2. Decode(e, u) = [cp |-> Pieces(s)[k].cp, len |-> Len(x[k])]
    BY <2>1, CopiedAt
  <2>3. Decode(e, u).cp \in Nat \cup {Invalid}
    BY <1>2, DecodeIs
  <2>4. Printable(Decode(e, u).cp)
    <3>1. PICK c : c = Decode(e, u).cp
      OBVIOUS
    <3>2. c # Invalid /\ ~ NeedsEscape(c)
      BY <2>1, <2>2, <3>1 DEF Copied
    <3>3. c \in Nat /\ ~ (c < 32) /\ c \notin Unprintable
      BY <2>3, <3>1, <3>2, Zenon DEF NeedsEscape
    <3>4. c \notin 0 .. 31
      BY <3>3
    <3>5. QED
      BY <3>1, <3>2, <3>3, <3>4, Zenon DEF Printable
  <2>5. u + Decode(e, u).len = a[k] + 1
    BY <1>2, <2>1, <2>2
  <2>6. a[k] = Len(e) \/ Begins(x, a, a[k] + 1)
    <3>1. k \in 0 .. Len(x)
      BY <1>2
    <3>2. QED
      BY <3>1, NextBegins
  <2>7. QED
    BY <2>4, <2>5, <2>6
<1>5. QED
  BY <1>3, <1>4

(* Every code point of an escaped text can be printed.                     *)
LEMMA EscapedPrints ==
  ASSUME NEW s, NEW x, NEW e, NEW a, Laid(s, x, e, a)
  PROVE  \A i \in 1 .. Len(Pieces(e)) : Printable(Pieces(e)[i].cp)
<1> DEFINE r == Pieces(e)
           P == {i \in Nat : i \in 1 .. Len(r) => Begins(x, a, From(r, i))}
<1>1. e \in Seq(Byte) /\ Len(e) \in Nat /\ Len(x) \in Nat /\ a[0] = 0
  BY LaidIs
<1>2. r \in Cuts(e)
  BY <1>1, PiecesAre
<1> HIDE DEF r
<1>3. \A i \in 1 .. Len(r) :
        /\ From(r, i) \in 1 .. Len(e) /\ r[i].cp = Decode(e, From(r, i)).cp
        /\ r[i].to = From(r, i) + Decode(e, From(r, i)).len - 1
  BY <1>1, <1>2, EndIs
<1>4. Len(r) \in Nat
  BY <1>2 DEF Cuts
<1>5. 0 \in P
  OBVIOUS
<1>6. ASSUME NEW i \in Nat, i \in P PROVE i + 1 \in P
  <2> SUFFICES ASSUME i + 1 \in 1 .. Len(r) PROVE Begins(x, a, From(r, i + 1))
    OBVIOUS
  <2>1. From(r, i + 1) \in 1 .. Len(e)
    BY <1>3
  <2>2. CASE i = 0
    <3>1. From(r, i + 1) = a[0] + 1 /\ a[0] # Len(e)
      BY <1>1, <2>1, <2>2 DEF From
    <3>2. 0 \in 0 .. Len(x)
      BY <1>1
    <3>3. a[0] = Len(e) \/ Begins(x, a, a[0] + 1)
      BY <3>2, NextBegins
    <3>4. QED
      BY <3>1, <3>3
  <2>3. CASE i # 0
    <3>1. i \in 1 .. Len(r) /\ (i + 1) - 1 = i /\ i + 1 # 1
      BY <1>4, <2>3
    <3>2. From(r, i + 1) = r[i].to + 1
      BY <3>1 DEF From
    <3>3. From(r, i) \in 1 .. Len(e) /\ Begins(x, a, From(r, i))
      BY <1>3, <1>6, <3>1
    <3> DEFINE u == From(r, i)
               n == Decode(e, From(r, i)).len
    <3>4. u + n = Len(e) + 1 \/ Begins(x, a, u + n)
      BY <3>3, BeginsPrintable
    <3>5. n \in 1 .. 4
      BY <1>1, <3>3, DecodeIs
    <3>6. r[i].to = u + n - 1
      BY <1>3, <3>1
    <3> HIDE DEF u, n
    <3>7. From(r, i + 1) = u + n
      <4>1. u \in Int
        BY <3>3 DEF u
      <4>2. QED
        BY <3>2, <3>5, <3>6, <4>1
    <3>8. QED
      BY <1>1, <2>1, <3>4, <3>7
  <2>4. QED
    BY <2>2, <2>3
<1> HIDE DEF P
<1>7. Nat \subseteq P
  BY <1>5, <1>6, NatSetInduction
<1>8. ASSUME NEW i \in 1 .. Len(r) PROVE Printable(r[i].cp)
  <2>1. Begins(x, a, From(r, i))
    BY <1>7 DEF P
  <2>2. QED
    BY <1>3, <2>1, BeginsPrintable
<1>9. QED
  BY <1>8 DEF r

LEMMA ItemIs ==
  ASSUME NEW s, NEW x, NEW e, NEW a, Laid(s, x, e, a), NEW k \in 1 .. Len(x),
         Pieces(s)[k].cp # Invalid
  PROVE  ReadItem(e, a[k - 1] + 1) = [cp |-> Pieces(s)[k].cp, len |-> Len(x[k])]
<1>1. /\ e \in Seq(Byte) /\ Len(e) \in Nat /\ Len(x) \in Nat
      /\ a[k - 1] \in Nat /\ a[k] \in Nat /\ Len(x[k]) \in Nat
      /\ a[k] = a[k - 1] + Len(x[k]) /\ a[k] <= Len(e)
      /\ \A j \in 1 .. Len(x[k]) : e[a[k - 1] + j] = x[k][j]
      /\ Copied(x[k], s, Pieces(s)[k]) \/ Escape(x[k], Pieces(s)[k])
  BY LaidIs
<1>2. CASE Copied(x[k], s, Pieces(s)[k])
  BY <1>2, CopiedAt, ReadItemIs
<1>3. CASE Escape(x[k], Pieces(s)[k])
  <2>1. /\ x[k] \in Seq(Ascii) /\ Len(x[k]) >= 2 /\ x[k][1] = Backslash
        /\ Coded(x[k], Pieces(s)[k].cp)
    BY <1>3 DEF Escape
  <2>2. a[k - 1] + Len(x[k]) <= Len(e)
    BY <1>1
  <2>3. QED
    BY <1>1, <2>1, <2>2, EscapeReads
<1>4. QED
  BY <1>1, <1>2, <1>3

(* The reader finds the code points of a string in its escaped text.       *)
LEMMA ReadIs ==
  ASSUME NEW s, NEW x, NEW e, NEW a, Laid(s, x, e, a),
         \A k \in 1 .. Len(x) : Pieces(s)[k].cp # Invalid
  PROVE  Read(e) = [k \in 1 .. Len(x) |-> Pieces(s)[k].cp]
<1> DEFINE q     == Pieces(s)
           m     == Len(x)
           c(n)  == [k \in 1 .. n |-> q[k].cp]
           h     == [n \in Nat |-> IF n <= m THEN [text |-> c(n), at |-> a[n] + 1]
                                             ELSE [text |-> c(m), at |-> a[m] + 1]]
           Is(f) == f = [n \in Nat |-> IF n = 0 THEN [text |-> <<>>, at |-> 1]
                                       ELSE ReadMore(e, f[n - 1])]
<1>1. /\ m \in Nat /\ Len(e) \in Nat /\ a[0] = 0 /\ a[m] = Len(e)
      /\ \A k \in 1 .. m :
           /\ a[k - 1] \in Nat /\ a[k] \in Nat /\ Len(x[k]) \in Nat /\ Len(x[k]) >= 1
           /\ a[k] = a[k - 1] + Len(x[k]) /\ a[k] <= Len(e)
  BY LaidIs
<1>2. \A k \in 1 .. m : ReadItem(e, a[k - 1] + 1) = [cp |-> q[k].cp, len |-> Len(x[k])]
  BY ItemIs
<1>3. m <= Len(e)
  <2>1. m \in 0 .. Len(x)
    BY <1>1
  <2>2. QED
    BY <1>1, <2>1, LaidGrows
<1> HIDE DEF q, m
<1>4. c(0) = <<>> /\ \A n \in 1 .. m : Append(c(n - 1), q[n].cp) = c(n)
  <2>1. c(0) = <<>>
    OBVIOUS
  <2>2. ASSUME NEW n \in 1 .. m PROVE Append(c(n - 1), q[n].cp) = c(n)
    <3> DEFINE C == {q[k].cp : k \in 1 .. n}
    <3>1. n \in Nat /\ n - 1 \in Nat /\ n \in 1 .. n /\ \A k \in 1 .. n - 1 : k \in 1 .. n
      BY <1>1
    <3>2. c(n - 1) \in [1 .. n - 1 -> C] /\ c(n) \in [1 .. n -> C] /\ q[n].cp \in C
      BY <3>1
    <3>3. \A k \in 1 .. n - 1 : c(n - 1)[k] = q[k].cp
      OBVIOUS
    <3>4. \A k \in 1 .. n : c(n)[k] = q[k].cp
      OBVIOUS
    <3> HIDE DEF C, c
    <3>5. c(n - 1) \in Seq(C) /\ Len(c(n - 1)) = n - 1 /\ c(n) \in Seq(C) /\ Len(c(n)) = n
      BY <3>1, <3>2, ListIs
    <3>6. /\ Append(c(n - 1), q[n].cp) \in Seq(C) /\ Len(Append(c(n - 1), q[n].cp)) = n
          /\ \A k \in 1 .. n - 1 : Append(c(n - 1), q[n].cp)[k] = c(n - 1)[k]
          /\ Append(c(n - 1), q[n].cp)[n] = q[n].cp
      BY <3>1, <3>2, <3>5
    <3>7. \A k \in 1 .. n : Append(c(n - 1), q[n].cp)[k] = c(n)[k]
      BY <3>1, <3>3, <3>4, <3>6
    <3>8. QED
      BY <3>5, <3>6, <3>7
  <2>3. QED
    BY <2>1, <2>2
<1> HIDE DEF c
<1>5. \A n \in Nat : h[n] = IF n <= m THEN [text |-> c(n), at |-> a[n] + 1]
                                     ELSE [text |-> c(m), at |-> a[m] + 1]
  OBVIOUS
<1> HIDE DEF h
<1>6. h[0] = [text |-> <<>>, at |-> 1]
  <2>1. 0 \in Nat /\ 0 <= m /\ a[0] + 1 = 1
    BY <1>1
  <2>2. h[0] = [text |-> c(0), at |-> a[0] + 1]
    BY <1>5, <2>1, Zenon
  <2>3. QED
    BY <1>4, <2>1, <2>2, Zenon
<1>7. ASSUME NEW n \in 1 .. m PROVE h[n] = ReadMore(e, h[n - 1])
  <2>1. n \in Nat /\ n - 1 \in Nat /\ n <= m /\ n - 1 <= m
    BY <1>1
  <2>2. h[n - 1] = [text |-> c(n - 1), at |-> a[n - 1] + 1] /\ h[n] = [text |-> c(n), at |-> a[n] + 1]
    BY <1>5, <2>1
  <2>3. ~ (a[n - 1] + 1 > Len(e)) /\ (a[n - 1] + 1) + Len(x[n]) = a[n] + 1
    <3>1. PICK u \in Nat, v \in Nat, w \in Nat : u = a[n - 1] /\ v = a[n] /\ w = Len(x[n])
      BY <1>1
    <3>2. v = u + w /\ w >= 1 /\ v <= Len(e)
      BY <1>1, <3>1, Zenon
    <3>3. ~ (u + 1 > Len(e)) /\ (u + 1) + w = v + 1
      BY <1>1, <3>2
    <3>4. QED
      BY <3>1, <3>3, Zenon
  <2>4. ReadMore(e, h[n - 1]) = [text |-> Append(c(n - 1), q[n].cp), at |-> (a[n - 1] + 1) + Len(x[n])]
    <3>1. PICK r : r = [text |-> c(n - 1), at |-> a[n - 1] + 1]
      OBVIOUS
    <3>2. r.text = c(n - 1) /\ r.at = a[n - 1] + 1
      BY <3>1
    <3>3. PICK d : d = ReadItem(e, r.at)
      OBVIOUS
    <3>4. d.cp = q[n].cp /\ d.len = Len(x[n])
      <4>1. d = [cp |-> q[n].cp, len |-> Len(x[n])]
        BY <1>2, <3>2, <3>3, Zenon
      <4>2. QED
        BY <4>1
    <3>5. ReadMore(e, r) = [text |-> Append(r.text, d.cp), at |-> r.at + d.len]
      BY <2>3, <3>2, <3>3, Zenon DEF ReadMore
    <3>6. QED
      BY <2>2, <3>1, <3>2, <3>4, <3>5
  <2>5. QED
    BY <1>4, <2>2, <2>3, <2>4
<1>8. ASSUME NEW n \in Nat, n > m PROVE h[n] = ReadMore(e, h[n - 1])
  <2>1. n - 1 \in Nat /\ ~ (n <= m) /\ (n - 1 <= m => n - 1 = m)
    BY <1>1, <1>8
  <2>2. PICK r : r = [text |-> c(m), at |-> a[m] + 1]
    OBVIOUS
  <2>3. h[n] = r /\ h[n - 1] = r
    BY <1>5, <2>1, <2>2
  <2>4. r.at > Len(e)
    BY <1>1, <2>2
  <2>5. ReadMore(e, r) = r
    BY <2>4, Zenon DEF ReadMore
  <2>6. QED
    BY <2>3, <2>5
<1>9. Is(h)
  <2>1. h = [n \in Nat |-> h[n]]
    BY DEF h
  <2>2. ASSUME NEW n \in Nat
        PROVE  h[n] = IF n = 0 THEN [text |-> <<>>, at |-> 1] ELSE ReadMore(e, h[n - 1])
    <3>1. n = 0 \/ (n # 0 /\ n \in 1 .. m) \/ (n # 0 /\ n > m)
      BY <1>1
    <3>2. QED
      BY <1>6, <1>7, <1>8, <3>1, Zenon
  <2>3. QED
    BY <2>1, <2>2, Zenon
<1> DEFINE f == CHOOSE f : Is(f)
<1>10. Is(f)
  BY <1>9, Zenon
<1>11. Read(e) = f[Len(e)].text
  BY Zenon DEF Read
<1> HIDE DEF f
<1>12. Nat \subseteq {n \in Nat : f[n] = h[n]}
  <2>1. f[0] = h[0]
    <3>1. 0 \in Nat
      OBVIOUS
    <3>2. QED
      BY <1>6, <1>10, <3>1, Zenon
  <2>2. ASSUME NEW n \in Nat, f[n] = h[n] PROVE f[n + 1] = h[n + 1]
    <3>1. n + 1 \in Nat /\ n + 1 # 0 /\ (n + 1) - 1 = n
      OBVIOUS
    <3>2. f[n + 1] = ReadMore(e, f[(n + 1) - 1]) /\ h[n + 1] = ReadMore(e, h[(n + 1) - 1])
      BY <1>9, <1>10, <3>1, Zenon
    <3>3. QED
      BY <2>2, <3>1, <3>2
  <2> DEFINE P == {n \in Nat : f[n] = h[n]}
  <2>3. 0 \in P /\ \A n \in Nat : n \in P => n + 1 \in P
    BY <2>1, <2>2
  <2> HIDE DEF P
  <2>4. QED
    BY <2>3, NatSetInduction DEF P
<1>13. h[Len(e)].text = c(m)
  <2>1. h[Len(e)] = [text |-> c(m), at |-> a[m] + 1]
    <3>1. Len(e) <= m => Len(e) = m
      BY <1>1, <1>3
    <3>2. QED
      BY <1>1, <1>5, <3>1
  <2>2. QED
    BY <2>1
<1>14. QED
  BY <1>1, <1>11, <1>12, <1>13 DEF c, m, q

-----------------------------------------------------------------------------
(* What a finished call of a debug text without a width has written.       *)
DebugText == IsText /\ call.debug /\ call.width = 0
DebugInv ==
  /\ call \in Calls
  /\ phase = "write" /\ DebugText => width = 0
  /\ phase = "done" /\ DebugText => out = Fill(0) \o WriteEscapedString(Bytes) \o Fill(0)

LEMMA DebugSame ==
  ASSUME call' = call
  PROVE  Bytes' = Bytes /\ (DebugText' <=> DebugText) /\ Fill(0)' = Fill(0)
BY DEF Bytes, DebugText, IsText, Fill

LEMMA DebugInit == Init => DebugInv
BY DEF Init, DebugInv

LEMMA DebugMeasure == ASSUME DebugInv, Measure PROVE DebugInv'
<1>1. call' = call /\ phase' = "write"
  BY DEF Measure
<1>2. DebugText => width' = 0
  BY DEF Measure, DebugText, IsText
<1>3. QED
  BY <1>1, <1>2, DebugSame DEF DebugInv

LEMMA DebugWrite == ASSUME DebugInv, WritePadded PROVE DebugInv'
<1>1. call' = call /\ phase' = "done" /\ phase = "write"
  BY DEF WritePadded
<1>2. ASSUME DebugText PROVE out' = Fill(0) \o WriteEscapedString(Bytes) \o Fill(0)
  <2>1. IsText /\ call.debug /\ call.width = 0 /\ width = 0
    BY <1>1, <1>2 DEF DebugInv, DebugText
  <2>2. Body(size) = WriteEscapedString(Bytes)
    BY <2>1 DEF Body, IsText
  <2> DEFINE padding == Max2(0, call.width - width)
             left == CASE call.align \in {"none", "left"} -> 0
                       [] call.align \in {"right", "numeric"} -> padding
                       [] call.align = "center"           -> padding \div 2
  <2>3. padding = 0
    BY <2>1 DEF Max2
  <2>4. left = 0
    <3>1. call.align \in {"none", "left", "right", "center", "numeric"}
      BY CallsAreTyped DEF DebugInv
    <3>2. QED
      BY <2>3, <3>1
  <2>5. out' = Fill(left) \o Body(size) \o Fill(RightPadding(padding, left))
    BY DEF WritePadded
  <2> HIDE DEF left, padding
  <2>6. RightPadding(padding, left) = 0
    BY <2>3, <2>4 DEF RightPadding
  <2>7. QED
    BY <2>2, <2>4, <2>5, <2>6
<1>3. QED
  BY <1>1, <1>2, DebugSame DEF DebugInv, WriteEscapedString

LEMMA DebugNext == ASSUME DebugInv, [Next]_vars PROVE DebugInv'
<1>1. CASE NullPointer
  BY <1>1 DEF NullPointer, DebugInv
<1>2. CASE UNCHANGED vars
  <2>1. call' = call /\ phase' = phase /\ width' = width /\ out' = out
    BY <1>2 DEF vars
  <2>2. QED
    BY <2>1, DebugSame DEF DebugInv, WriteEscapedString
<1>3. QED
  BY <1>1, <1>2, DebugMeasure, DebugWrite DEF Next, Done

LEMMA QuotedIs ==
  ASSUME NEW z \in Seq(Byte), Len(z) = 0, NEW e \in Seq(Byte), NEW t,
         t = z \o (<<Quote>> \o e \o <<Quote>>) \o z
  PROVE  t[1] = Quote /\ t[Len(t)] = Quote /\ SubSeq(t, 2, Len(t) - 1) = e
<1>1. <<Quote>> \in Seq(Byte) /\ Len(<<Quote>>) = 1 /\ <<Quote>>[1] = Quote
  BY SMT DEF Quote, Byte
<1>2. PICK b \in Seq(Byte) : b = <<Quote>>
  BY <1>1
<1>3. PICK w \in Seq(Byte) : w = b \o e \o b
  <2>1. b \o e \o b \in Seq(Byte)
    OBVIOUS
  <2>2. QED
    BY <2>1
<1>4. Len(e) \in Nat /\ Len(b) = 1 /\ b[1] = Quote
  BY <1>1, <1>2
<1>5. Len(w) = Len(e) + 2 /\ w[1] = b[1] /\ w[Len(e) + 2] = b[1]
  <2>1. PICK v \in Seq(Byte) : v = b \o e
    <3>1. b \o e \in Seq(Byte)
      OBVIOUS
    <3>2. QED
      BY <3>1
  <2>2. Len(v) = Len(e) + 1 /\ v[1] = b[1]
    <3>1. 1 \in 1 .. Len(b)
      BY <1>4
    <3>2. /\ Len(v) = Len(b) + Len(e)
          /\ \A i \in 1 .. Len(b) : v[i] = b[i]
      BY <2>1, JoinIs, Zenon
    <3>3. v[1] = b[1]
      BY <3>1, <3>2, Zenon
    <3>4. Len(v) = Len(e) + 1
      BY <1>4, <3>2
    <3>5. QED
      BY <3>3, <3>4
  <2>3. w = v \o b
    BY <1>3, <2>1
  <2>4. Len(w) = Len(v) + 1 /\ w[1] = v[1] /\ w[Len(v) + 1] = b[1]
    <3>1. 1 \in 1 .. Len(b) /\ 1 \in 1 .. Len(v)
      BY <1>4, <2>2
    <3>2. /\ Len(w) = Len(v) + Len(b)
          /\ \A i \in 1 .. Len(v) : w[i] = v[i]
          /\ \A i \in 1 .. Len(b) : w[Len(v) + i] = b[i]
      <4>1. /\ v \o b \in Seq(Byte) /\ Len(v \o b) = Len(v) + Len(b)
            /\ \A i \in 1 .. Len(v) : (v \o b)[i] = v[i]
            /\ \A i \in 1 .. Len(b) : (v \o b)[Len(v) + i] = b[i]
        BY JoinIs
      <4>2. QED
        BY <2>3, <4>1, Zenon
    <3>3. w[1] = v[1] /\ w[Len(v) + 1] = b[1]
      BY <3>1, <3>2, Zenon
    <3>4. Len(w) = Len(v) + 1
      BY <1>4, <3>2
    <3>5. QED
      BY <3>3, <3>4
  <2>5. Len(v) + 1 = Len(e) + 2
    BY <1>4, <2>2
  <2>6. QED
    BY <2>2, <2>4, <2>5
<1>6. SubSeq(w, Len(b) + 1, Len(w) - Len(b)) = e
  BY <1>3, MiddleIs
<1>7. t = w
  <2>1. z \o w \o z = w
    OBVIOUS
  <2>2. QED
    BY <1>2, <1>3, <2>1
<1>8. QED
  BY <1>4, <1>5, <1>6, <1>7

(* A debug text of any length is quoted, has nothing in it that needs an   *)
(* escape, and is read back as the string that was written if that was     *)
(* UTF-8, whatever its precision.  (write_escaped_string, write_escaped_cp,*)
(* find_escape.)                                                           *)
THEOREM DebugTextReadsBack == Spec => []DebugReadsBack
<1>1. DebugInv => DebugReadsBack
  <2> SUFFICES ASSUME DebugInv, phase = "done", DebugText
               PROVE  LET inner == SubSeq(out, 2, Len(out) - 1) IN
                      /\ out[1] = Quote /\ out[Len(out)] = Quote
                      /\ \A i \in DOMAIN CodePoints(inner) :
                           CodePoints(inner)[i] \notin Unprintable \cup {Invalid} \cup 0 .. 31
                      /\ Invalid \notin {CodePoints(Bytes)[i] : i \in DOMAIN CodePoints(Bytes)} =>
                           Read(inner) = CodePoints(Bytes)
    BY DEF DebugReadsBack, DebugText
  <2> DEFINE s == Bytes
             x == Coding(s)
             e == Escaped(s)
             q == Pieces(s)
             r == Pieces(e)
  <2>1. call.s \in Seq(Byte) /\ call.fill \in Seq(Byte) /\ call.fill # <<>> /\ IsText
    BY CallsAreTyped DEF DebugInv, DebugText
  <2>2. s \in Seq(Byte) /\ e \in Seq(Byte) /\ Len(x) = Len(q) /\ Len(x) \in Nat
    BY <2>1, BytesIs, EscapedIs, CodingIs
  <2>3. PICK a : Laid(s, x, e, a)
    BY <2>2, EscapedIs DEF Laid
  <2>4. out[1] = Quote /\ out[Len(out)] = Quote /\ SubSeq(out, 2, Len(out) - 1) = e
    <3>1. Fill(0) \in Seq(Byte) /\ Len(Fill(0)) = 0
      <4>1. 0 \in Nat
        OBVIOUS
      <4>2. Fill(0) \in Seq(Byte) /\ Len(Fill(0)) = 0 * Len(call.fill)
        BY <2>1, <4>1, FillIs
      <4>3. Len(call.fill) \in Nat
        BY <2>1
      <4>4. QED
        BY <4>2, <4>3
    <3>2. out = Fill(0) \o (<<Quote>> \o e \o <<Quote>>) \o Fill(0)
      BY DEF DebugInv, WriteEscapedString
    <3> HIDE DEF e
    <3>3. QED
      BY <2>2, <3>1, <3>2, QuotedIs
  <2>5. ASSUME NEW i \in DOMAIN CodePoints(e)
        PROVE  CodePoints(e)[i] \notin Unprintable \cup {Invalid} \cup 0 .. 31
    <3>1. r \in Seq(Piece)
      BY <2>2, PiecesAre DEF Cuts
    <3>2. CodePoints(e) = [k \in DOMAIN r |-> r[k].cp] /\ DOMAIN r = 1 .. Len(r)
      BY <3>1 DEF CodePoints
    <3> HIDE DEF r, e, x, s
    <3>3. i \in 1 .. Len(r) /\ CodePoints(e)[i] = r[i].cp
      BY <3>2
    <3>4. Printable(r[i].cp)
      BY <2>3, <3>3, EscapedPrints DEF r
    <3>5. QED
      BY <3>3, <3>4 DEF Printable
  <2>6. ASSUME Invalid \notin {CodePoints(s)[i] : i \in DOMAIN CodePoints(s)}
        PROVE  Read(e) = CodePoints(s)
    <3>1. q \in Seq(Piece)
      BY <2>2, PiecesAre DEF Cuts
    <3>2. CodePoints(s) = [k \in DOMAIN q |-> q[k].cp] /\ DOMAIN q = 1 .. Len(q)
      BY <3>1 DEF CodePoints
    <3> HIDE DEF q, e, x, s
    <3>3. \A k \in 1 .. Len(q) : q[k].cp # Invalid
      BY <2>6, <3>2
    <3>4. Read(e) = [k \in 1 .. Len(x) |-> q[k].cp]
      BY <2>2, <2>3, <3>3, ReadIs DEF q
    <3>5. QED
      BY <2>2, <3>2, <3>4
  <2> HIDE DEF e, s
  <2>7. QED
    BY <2>4, <2>5, <2>6 DEF s
<1>2. QED
  BY <1>1, DebugInit, DebugNext, PTL DEF Spec
=============================================================================
