------------------------------ MODULE MCFmtFloat ------------------------------
(* Decimals around every kind of tie and carry, of more digits than a        *)
(* segment of five holds, at exponents on both sides of the notations; and   *)
(* precisions about the most digits that Dragon4 makes, twelve, and the      *)
(* largest int, twenty.                                                      *)
EXTENDS Integers, Sequences

Dec(q, e) == [digits |-> q, exp |-> e]
Same(q, e) == [exact |-> Dec(q, e), short |-> Dec(q, e)]
Significands ==
  {<<1>>, <<5>>, <<9>>, <<2, 5>>, <<3, 5>>, <<9, 5>>, <<4, 5, 1>>, <<9, 9, 9, 5>>, <<1, 2, 5>>,
   <<2, 5, 0, 0, 0, 1>>, <<1, 2, 5, 0, 0, 1>>, <<1, 0, 0, 2, 5>>, <<1, 0, 0, 0, 2, 5>>,
   <<9, 9, 9, 9, 9, 5>>, <<1, 2, 3, 4, 5>>}
MCValues ==
  {Same(q, t - Len(q)) : q \in Significands, t \in {-5, -4, -2, 0, 1, 3, 5}}
    \cup {Same(<<0>>, 0), [exact |-> Dec(<<1, 0, 0, 0, 0, 1>>, -6), short |-> Dec(<<1>>, -1)]}
FloatCall(v, c, t, p, a, l) ==
  [value |-> v, class |-> c, type |-> t, precision |-> p, alt |-> a, upper |-> a,
   neg |-> l.neg, sign |-> l.sign, align |-> l.align, fill |-> l.fill,
   width |-> l.width, group |-> l.group]
Placed(n, g, a, f, w, k) == [neg |-> n, sign |-> g, align |-> a, fill |-> f, width |-> w, group |-> k]
MCLayouts == {Placed(TRUE, "none", "numeric", "0", 9, 0), Placed(FALSE, "plus", "none", "*", 8, 2),
              Placed(FALSE, "none", "center", "*", 10, 0), Placed(FALSE, "none", "left", "*", 6, 3)}
MCFloats ==
  {FloatCall(v, "finite", t, p, a, l) : v \in MCValues, t \in {"none", "general", "exp", "fixed"},
                                   p \in -1 .. 5, a \in BOOLEAN, l \in MCLayouts}
    \cup {FloatCall(v, "finite", t, p, a, l) :
            v \in {Same(<<0>>, 0)} \cup {Same(q, t - Len(q)) : q \in {<<5>>, <<9, 9, 9, 5>>},
                                                            t \in {-4, 0, 1, 3}},
            t \in {"none", "general", "exp", "fixed"}, p \in {8, 11, 12, 13, 17, 19, 20},
            a \in BOOLEAN, l \in {Placed(TRUE, "none", "numeric", "0", 9, 0),
                                Placed(FALSE, "none", "right", "*", 18, 3)}}
    \cup {FloatCall(Same(<<0>>, 0), c, "none", -1, FALSE, l) : c \in {"inf", "nan"}, l \in MCLayouts}
==============================================================================
