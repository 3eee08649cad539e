------------------------------- MODULE MCFmtArgs -------------------------------
(* A word of 16 bits packs three types: lists of up to four arguments reach *)
(* both representations.  Single arguments take every C++ type.             *)
EXTENDS Integers

Passed(cpp, name, value) == [cpp |-> cpp, name |-> name, value |-> value]
Lists(n) == {[i \in 1 .. n |-> Passed(q[i][1], q[i][2], i)] :
               q \in [1 .. n -> {"short", "user_type"} \X {"", "a", "b"}]}
Singles  == {<<Passed(t, "", 1)>> : t \in
  {"signed_char", "unsigned_char", "short", "unsigned_short", "int", "unsigned",
   "long", "unsigned_long", "long_long", "unsigned_long_long", "int128", "uint128",
   "bitint", "ubitint", "bool", "char", "float", "double", "long_double",
   "char_pointer", "string", "void_pointer", "nullptr", "user_type"}}
MCArgLists == Singles \cup UNION {Lists(n) : n \in {0, 2, 3, 4}}
MCIds == 0 .. 5
==============================================================================
