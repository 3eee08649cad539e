------------------------------- MODULE FmtBigint -------------------------------
(***************************************************************************)
(* bigint, the numbers of Dragon4: digits (bigits) of Bits bits, the least *)
(* first, and an exponent exp that stands for as many bigits of zero.      *)
(* Two numbers and the operations on them, in any order; val keeps what    *)
(* each should be.  The arithmetic of the code's integer types wraps.      *)
(***************************************************************************)
EXTENDS Integers, Sequences

CONSTANTS
  Bits,      \* bigit_bits (32 in the code)
  MaxValue   \* bound on the numbers

VARIABLES num, val, quotient   \* quotient: of a divmod_assign just done, with
vars == <<num, val, quotient>> \* what it should be, else zeros

Base  == 2 ^ Bits
Names == {"x", "y"}
Other(r) == IF r = "x" THEN "y" ELSE "x"
Big(q, e) == [bigits |-> q, exp |-> e]
NumBigits(b) == Len(b.bigits) + b.exp
Max2(x, y) == IF x >= y THEN x ELSE y
Min2(x, y) == IF x <= y THEN x ELSE y

RECURSIVE BigitsOf(_)
BigitsOf(n) == IF n < Base THEN <<n>> ELSE <<n % Base>> \o BigitsOf(n \div Base)
Assigned(n) == Big(BigitsOf(n), 0)
RECURSIVE RemoveLeadingZeros(_)
RemoveLeadingZeros(q) ==
  IF Len(q) > 1 /\ q[Len(q)] = 0 THEN RemoveLeadingZeros(SubSeq(q, 1, Len(q) - 1)) ELSE q

(* get_bigit, of bigits that need not be stored.                           *)
GetBigit(b, i) == IF i >= b.exp /\ i < NumBigits(b) THEN b.bigits[i - b.exp + 1] ELSE 0
------------------------------------------------------------------------------
(* multiply(uint32_t): the carry is a bigit.                               *)
RECURSIVE Multiply(_, _, _)
Multiply(q, v, carry) ==
  IF q = <<>> THEN IF carry # 0 THEN <<carry>> ELSE <<>>
  ELSE LET result == q[1] * v + carry IN
       <<result % Base>> \o Multiply(Tail(q), v, (result \div Base) % Base)

(* multiply(UInt), UInt of twice half bits: the value in two halves.       *)
RECURSIVE MultiplyWide(_, _, _, _)
MultiplyWide(q, v, half, carry) ==
  IF q = <<>> THEN IF carry # 0 THEN BigitsOf(carry) ELSE <<>>
  ELSE LET result == ((v % (2 ^ half)) * q[1] + (carry % Base)) % (2 ^ (2 * half))
           next   == (((v \div (2 ^ half)) * q[1] * 2 ^ (half - Bits))
                      + (result \div Base) + (carry \div Base)) % (2 ^ (2 * half))
       IN <<result % Base>> \o MultiplyWide(Tail(q), v, half, next)

(* operator<<=: whole bigits into the exponent, the rest through all.      *)
RECURSIVE ShiftBits(_, _, _)
ShiftBits(q, shift, carry) ==
  IF q = <<>> THEN IF carry # 0 THEN <<carry>> ELSE <<>>
  ELSE <<((q[1] * 2 ^ shift) % Base) + carry>>
       \o ShiftBits(Tail(q), shift, q[1] \div (2 ^ (Bits - shift)))
Shifted(b, n) ==
  Big(IF n % Bits = 0 THEN b.bigits ELSE ShiftBits(b.bigits, n % Bits, 0), b.exp + n \div Bits)

(* square, by columns.                                                     *)
RECURSIVE Columns(_, _, _)
Columns(q, k, sum) ==
  IF k = 2 * Len(q) THEN <<>>
  ELSE LET pairs == {i \in 0 .. Len(q) - 1 : k - i \in 0 .. Len(q) - 1}
           F[S \in SUBSET pairs] ==
             IF S = {} THEN sum
             ELSE LET i == CHOOSE j \in S : TRUE
                  IN q[i + 1] * q[k - i + 1] + F[S \ {i}]
       IN <<F[pairs] % Base>> \o Columns(q, k + 1, F[pairs] \div Base)
Squared(b) == Big(RemoveLeadingZeros(Columns(b.bigits, 0, 0)), 2 * b.exp)

(* assign_pow10: 5^k by the bits of k from the second highest, then 2^k.   *)
RECURSIVE Pow5(_)
Pow5(k) ==
  IF k = 1 THEN Assigned(5)
  ELSE LET half == Squared(Pow5(k \div 2)) IN
       IF k % 2 = 1 THEN Big(Multiply(half.bigits, 5, 0), half.exp) ELSE half
Pow10(k) == IF k = 0 THEN Assigned(1) ELSE Shifted(Pow5(k), k)
------------------------------------------------------------------------------
(* align: trailing zeros instead of an exponent above the other's.         *)
Aligned(b, o) ==
  IF b.exp <= o.exp THEN b
  ELSE Big([i \in 1 .. b.exp - o.exp |-> 0] \o b.bigits, o.exp)

(* subtract_aligned, from the place where the other begins.  A last borrow *)
(* is taken from one bigit more, and no further.                           *)
RECURSIVE Subtract(_, _, _)
Subtract(q, o, borrow) ==
  CASE o = <<>> /\ borrow = 0 -> q
    [] o = <<>> /\ borrow # 0 -> <<(q[1] - borrow) % Base>> \o Tail(q)
    [] o # <<>> ->
         LET result == q[1] - o[1] - borrow IN
         <<result % Base>> \o Subtract(Tail(q), Tail(o), IF result < 0 THEN 1 ELSE 0)
Difference(b, o) ==
  LET k == o.exp - b.exp IN
  Big(RemoveLeadingZeros(SubSeq(b.bigits, 1, k)
                         \o Subtract(SubSeq(b.bigits, k + 1, Len(b.bigits)), o.bigits, 0)), b.exp)

(* compare: by lengths, then bigits from the highest, then what is left.   *)
Sign3(n) == IF n > 0 THEN 1 ELSE IF n < 0 THEN -1 ELSE 0
Compare(b, o) ==
  LET n == Len(b.bigits) m == Len(o.bigits)
      differs == {k \in 0 .. Min2(n, m) - 1 : b.bigits[n - k] # o.bigits[m - k]}
      first == CHOOSE k \in differs : \A l \in differs : k <= l
  IN IF NumBigits(b) # NumBigits(o) THEN Sign3(NumBigits(b) - NumBigits(o))
     ELSE IF differs # {} THEN Sign3(b.bigits[n - first] - o.bigits[m - first])
     ELSE Sign3(n - m)

(* add_compare, from bigit i down with what the higher ones still owe.     *)
RECURSIVE Owing(_, _, _, _, _)
Owing(a, b, o, i, borrow) ==
  LET sum  == GetBigit(a, i) + GetBigit(b, i)
      owed == GetBigit(o, i) + borrow
  IN IF i < Min2(Min2(a.exp, b.exp), o.exp) THEN IF borrow # 0 THEN -1 ELSE 0
     ELSE IF sum > owed THEN 1
     ELSE IF owed - sum > 1 THEN -1
     ELSE Owing(a, b, o, i - 1, (owed - sum) * Base)

(* Mutant: the carry into a longer number is forgotten.                    *)
AddCompareShort(a, b, o) ==
  LET n == Max2(NumBigits(a), NumBigits(b)) IN
  IF n < NumBigits(o) THEN -1 ELSE IF n > NumBigits(o) THEN 1
  ELSE Owing(a, b, o, NumBigits(o) - 1, 0)
AddCompare(a, b, o) ==
  LET n == Max2(NumBigits(a), NumBigits(b)) IN
  IF n + 1 < NumBigits(o) THEN -1 ELSE IF n > NumBigits(o) THEN 1
  ELSE Owing(a, b, o, NumBigits(o) - 1, 0)

(* divmod_assign: subtract until less.  The divisor has no zero bigit that *)
(* the dividend's exponent stands for: Dragon4 divides by powers of ten.   *)
(* The quotient is a digit, and a bigit: the dividend has at most a bigit  *)
(* more, so that a subtraction owes nothing beyond it.                     *)
RECURSIVE DivMod(_, _, _)
DivMod(b, o, n) ==
  IF Compare(b, o) < 0 THEN <<n, b>> ELSE DivMod(Difference(Aligned(b, o), o), o, n + 1)
------------------------------------------------------------------------------
Becomes(r, b, v) ==
  /\ v <= MaxValue /\ num' = [num EXCEPT ![r] = b] /\ val' = [val EXCEPT ![r] = v]
  /\ quotient' = <<0, 0>>
Init == /\ num = [r \in Names |-> Assigned(1)] /\ val = [r \in Names |-> 1]
        /\ quotient = <<0, 0>>

Assign(r, n)      == Becomes(r, Assigned(n), n)
AssignOther(r)    == Becomes(r, num[Other(r)], val[Other(r)])
AssignPow10(r, k) == Becomes(r, Pow10(k), 10 ^ k)
ShiftLeft(r, k)   == val[r] > 0 /\ Becomes(r, Shifted(num[r], k), val[r] * 2 ^ k)
MultiplyBy(r, v) ==
  Becomes(r, [num[r] EXCEPT !.bigits = Multiply(@, v, 0)], val[r] * v)
MultiplyByWide(r, v, half) ==
  Becomes(r, [num[r] EXCEPT !.bigits = MultiplyWide(@, v, half, 0)], val[r] * v)
Square(r) == val[r] > 0 /\ Becomes(r, Squared(num[r]), val[r] * val[r])
DivModAssign(r) ==
  LET o == Other(r)
      d == DivMod(num[r], num[o], 0)
  IN /\ val[o] > 0 /\ val[r] < Min2(10, Base) * val[o]
     /\ (num[o].bigits[1] # 0 /\ val[r] > 0) \/ num[r].exp <= num[o].exp
     /\ quotient' = <<d[1], val[r] \div val[o]>>
     /\ num' = [num EXCEPT ![r] = d[2]] /\ val' = [val EXCEPT ![r] = @ % val[o]]

Next ==
  \E r \in Names :
    \/ AssignOther(r) \/ Square(r) \/ DivModAssign(r)
    \/ \E n \in 1 .. Base + 1 : Assign(r, n)
    \/ \E k \in 0 .. 2 : AssignPow10(r, k)
    \/ \E k \in 0 .. Bits + 1 : ShiftLeft(r, k)
    \/ \E v \in {Base - 1} : MultiplyBy(r, v)
    \/ \E v \in {Base + 1, 2 * Base + 3}, half \in {Bits, 2 * Bits} : MultiplyByWide(r, v, half)
Spec == Init /\ [][Next]_vars
------------------------------------------------------------------------------
RECURSIVE NatOf(_)
NatOf(q) == IF q = <<>> THEN 0 ELSE q[1] + Base * NatOf(Tail(q))

(* Comparisons, also of a sum that is never computed, are those of the     *)
(* numbers, however they are split in bigits and exponent; only compare,   *)
(* of equal numbers, takes the one with more bigits for the larger.        *)
ComparisonsAreRight ==
  LET x == num.x y == num.y IN
  val.x > 0 /\ val.y > 0 =>
    /\ Compare(x, y) = Sign3(IF val.x # val.y THEN val.x - val.y ELSE y.exp - x.exp)
    /\ AddCompare(x, x, y) = Sign3(2 * val.x - val.y)
    /\ \A n \in 1 .. 2 * MaxValue : AddCompare(x, y, Assigned(n)) = Sign3(val.x + val.y - n)

(* Every sequence of operations leaves the number it should, in bigits     *)
(* without zeros in front, and every quotient is right: carries, borrows,  *)
(* exponents and the two halves of a wide factor; and so is every          *)
(* comparison.                                                             *)
ValuesAreRight ==
  /\ \A r \in Names :
       /\ NatOf(num[r].bigits) * Base ^ num[r].exp = val[r]
       /\ \A i \in DOMAIN num[r].bigits : num[r].bigits[i] \in 0 .. Base - 1
       /\ val[r] # 0 => num[r].bigits[Len(num[r].bigits)] # 0
  /\ quotient[1] = quotient[2]
  /\ ComparisonsAreRight
==============================================================================
