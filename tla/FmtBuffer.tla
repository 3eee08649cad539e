------------------------------- MODULE FmtBuffer -------------------------------
(***************************************************************************)
(* The output buffers of fmt: the formatter writes through a buffer that   *)
(* grows, flushes to an iterator, fills the caller's array, resizes a      *)
(* container or only counts.  One formatting call: writes, then out() and  *)
(* count(), or an exception and the destructor.                            *)
(***************************************************************************)
EXTENDS Integers, Sequences

CONSTANTS
  BufferSize,  \* buffer_size of the flushing buffers (256 in the code)
  Limits,      \* the n of format_to_n
  MaxUnits,    \* bound on the length of the output
  MaxWrite     \* bound on the length of one write

BufferAssumption ==
  /\ BufferSize \in Nat \ {0} /\ Limits \subseteq Nat
  /\ MaxUnits \in Nat \ {0} /\ MaxWrite \in Nat
ASSUME BufferConstants == BufferAssumption

(* "array" is a char* with a limit, "iterator" any iterator with a limit,  *)
(* "stream" one without, "container" a back_inserter of a string.          *)
Kinds   == {"array", "iterator", "stream", "container", "counting"}
Limited == {"array", "iterator"}

VARIABLES
  kind, limit,  \* the buffer and its limit_
  b,            \* where ptr_ points, data up to size_, capacity_; count_ and
                \* the units the caller's output has
  todo, how,    \* what remains of a write: "append" or "push" one by one
  written,      \* every unit handed to the buffer
  phase, total  \* "writing", "returned" or "thrown"; the size returned

vars == <<kind, limit, b, todo, how, written, phase, total>>

Min2(x, y) == IF x <= y THEN x ELSE y
First(n, q) == SubSeq(q, 1, Min2(n, Len(q)))
------------------------------------------------------------------------------
(* Mutant: what was already written is not taken off.                      *)
LimitWhole(c) == Min2(Len(c.data), limit)

(* fixed_buffer_traits::limit returns this; count_ grows by the size.      *)
Limit(c) == Min2(Len(c.data), IF limit > c.count THEN limit - c.count ELSE 0)

(* Mutant: only what fits is counted.                                      *)
CountedFitting(c) == c.count + Limit(c)
Counted(c) == c.count + Len(c.data)

(* Mutant: the buffer keeps pointing into the array.                       *)
FlushArrayStays(c) ==
  [c EXCEPT !.out = @ \o First(IF c.where = "out" THEN Limit(c) ELSE 0, c.data),
            !.count = Counted(c), !.data = <<>>]

FlushArray(c) ==
  [where |-> "data", data |-> <<>>, cap |-> BufferSize, count |-> Counted(c),
   out |-> c.out \o First(IF c.where = "out" THEN Limit(c) ELSE 0, c.data)]

FlushIterator(c) ==
  [c EXCEPT !.data = <<>>,
            !.count = IF kind = "stream" THEN 0 ELSE Counted(c),
            !.out = @ \o (IF kind = "stream" THEN c.data ELSE First(Limit(c), c.data))]

Flush(c) == CASE kind = "array" -> FlushArray(c)
              [] kind \in {"iterator", "stream"} -> FlushIterator(c)
              [] OTHER -> c

GrowContainer(c, wanted) == [c EXCEPT !.cap = wanted]
GrowCounting(c) ==
  IF Len(c.data) = BufferSize THEN [c EXCEPT !.count = Counted(c), !.data = <<>>] ELSE c
GrowArray(c)    == IF Len(c.data) = c.cap THEN FlushArray(c) ELSE c
GrowIterator(c) == IF Len(c.data) = BufferSize THEN FlushIterator(c) ELSE c

(* Mutant: the array is flushed one unit too late.                         *)
GrowLate(c, wanted) ==
  CASE kind = "container" -> GrowContainer(c, wanted)
    [] kind = "counting"  -> GrowCounting(c)
    [] kind = "array"     -> IF Len(c.data) > c.cap THEN FlushArray(c) ELSE c
    [] kind \in {"iterator", "stream"} -> GrowIterator(c)

(* grow_: the container is resized, the others flush when they are full.   *)
Grow(c, wanted) ==
  CASE kind = "container" -> GrowContainer(c, wanted)
    [] kind = "counting"  -> GrowCounting(c)
    [] kind = "array"     -> GrowArray(c)
    [] kind \in {"iterator", "stream"} -> GrowIterator(c)

TryReserve(c, wanted) == IF wanted > c.cap THEN Grow(c, wanted) ELSE c
------------------------------------------------------------------------------
(* The constructors; a container may hold something already.               *)
Init ==
  /\ kind \in Kinds /\ limit \in (IF kind \in Limited THEN Limits ELSE {0})
  /\ written \in (IF kind = "container" THEN {<<>>, <<0>>} ELSE {<<>>})
  /\ b = [where |-> IF kind = "array" THEN "out" ELSE "data", data |-> written,
          cap |-> CASE kind = "array" -> limit [] kind = "container" -> Len(written)
                    [] OTHER -> BufferSize,
          count |-> 0, out |-> <<>>]
  /\ todo = <<>> /\ how = "append" /\ phase = "writing" /\ total = 0

(* The next n units of the output; each one is different.                  *)
Units(n) == [i \in 1 .. n |-> Len(written) + i]
Writing(n) == /\ phase = "writing" /\ todo = <<>>
              /\ Len(written) + n <= MaxUnits /\ written' = written \o Units(n)
Call(c, q, w) == b' = c /\ todo' = q /\ how' = w /\ UNCHANGED <<kind, limit, phase, total>>

(* *out++ = c, buffer::append, and writers that reserve and then push.     *)
Append1     == Writing(1) /\ Call(b, Units(1), "push")
AppendMany  == \E n \in 0 .. MaxWrite : Writing(n) /\ Call(b, Units(n), "append")
ReserveMany == \E n \in 1 .. MaxWrite :
  Writing(n) /\ Call(TryReserve(b, Len(b.data) + n), Units(n), "push")

(* to_pointer: n units in place, or an append when there is no room.       *)
InPlace == \E n \in 1 .. MaxWrite :
  LET c == TryReserve(b, Len(b.data) + n) IN
  /\ Writing(n)
  /\ \/ c.cap < Len(c.data) + n /\ Call(c, Units(n), "append")
     \/ /\ c.cap >= Len(c.data) + n
        /\ Call([c EXCEPT !.data = @ \o Units(n)], <<>>, "append")

(* One turn of the loop in append, or one push_back.                       *)
WriteSome ==
  LET wanted == IF how = "push" THEN 1 ELSE Len(todo)
      c == TryReserve(b, Len(b.data) + wanted)
      free == c.cap - Len(c.data)   \* unsigned: a negative one is huge
      n == IF how = "append" /\ free \in 0 .. wanted THEN free ELSE wanted
  IN /\ todo # <<>>
     /\ b' = [c EXCEPT !.data = @ \o First(n, todo)]
     /\ todo' = SubSeq(todo, n + 1, Len(todo))
     /\ UNCHANGED <<kind, limit, how, written, phase, total>>

(* What the container holds past size_ is whatever resize put there.       *)
Zeros(n) == [i \in 1 .. n |-> 0]
Container(c) == [c EXCEPT !.out = c.data \o Zeros(c.cap - Len(c.data))]

Leave(p, c) == /\ phase = "writing" /\ todo = <<>> /\ phase' = p /\ b' = c
               /\ UNCHANGED <<kind, limit, todo, how, written>>

(* The three calls: the end of out() and, of the last two, count().        *)
VformatTo ==
  /\ kind \in {"stream", "container"}
  /\ Leave("returned", IF kind = "container" THEN Container(b) ELSE Flush(b))
  /\ UNCHANGED total
VformatToN ==
  /\ kind \in Limited /\ Leave("returned", Flush(b)) /\ total' = Counted(Flush(b))
FormattedSize ==
  /\ kind = "counting" /\ Leave("returned", b) /\ total' = Counted(b)

(* An error in the format string: the destructor flushes.                  *)
Throw ==
  /\ Leave("thrown", IF kind = "container" THEN Container(b) ELSE Flush(b))
  /\ UNCHANGED total

Done == phase # "writing" /\ UNCHANGED vars
Next ==
  \/ Append1 \/ AppendMany \/ ReserveMany \/ InPlace \/ WriteSome
  \/ VformatTo \/ VformatToN \/ FormattedSize \/ Throw \/ Done
Spec == Init /\ [][Next]_vars /\ WF_vars(WriteSome)
------------------------------------------------------------------------------
Room == IF kind \in Limited THEN limit ELSE MaxUnits

(* When the call has returned or thrown, the caller has the first n units  *)
(* of what was written, in order, and nothing else.  ("writes up to `n`    *)
(* characters of the result", base.h:2849.)                                *)
OutputIsPrefix ==
  phase # "writing" /\ kind # "counting" => b.out = First(Room, written)

(* The size returned is that of the whole output, so that a caller sees    *)
(* that it was cut.  ("the total (not truncated) output size", :2851.)     *)
SizeIsTotal ==
  phase = "returned" /\ kind \in Limited \cup {"counting"} => total = Len(written)

(* Nothing is written past the end of the caller's array or of data_.      *)
NothingPastTheEnd ==
  /\ Len(b.data) <= b.cap
  /\ kind = "array" /\ b.where = "out" => Len(b.out) + b.cap <= limit
  /\ kind # "container" /\ b.where = "data" => b.cap <= BufferSize

(* Every append ends: try_reserve "guarantees there is space for at least  *)
(* one additional element" (base.h:1781-1784).                             *)
AppendReturns == todo # <<>> ~> todo = <<>>
==============================================================================
