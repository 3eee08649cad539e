-------------------------------- MODULE FmtArgs --------------------------------
(***************************************************************************)
(* The arguments of a formatting call: each is mapped to one of fmt's      *)
(* types and stored in a union; up to MaxPacked types are packed in one    *)
(* word, the descriptor, whose two top bits say "unpacked" and "has named  *)
(* arguments".  The formatter finds them again by index or by name.        *)
(***************************************************************************)
EXTENDS Integers, Sequences

CONSTANTS
  ArgLists,   \* arguments: [cpp |-> C++ type, name |-> name or "", value]
  Ids, Names, \* what is looked up
  WordBits,   \* bits of the descriptor (64)
  LongShort   \* is long as wide as int?

PackedArgBits  == 4
MaxPacked      == (WordBits - 2) \div PackedArgBits
IsUnpackedBit  == 2 ^ (WordBits - 1)
HasNamedBit    == 2 ^ (WordBits - 2)
Bits(d, lo, n) == (d \div 2 ^ lo) % 2 ^ n

VARIABLES args, next, desc, values, named, result
argsVars == <<args, next, desc, values, named, result>>
------------------------------------------------------------------------------
(* enum class type                                                         *)
TypeNumber == [none |-> 0, int |-> 1, uint |-> 2, long_long |-> 3, ulong_long |-> 4,
               int128 |-> 5, uint128 |-> 6, bool |-> 7, char |-> 8, float |-> 9,
               double |-> 10, long_double |-> 11, cstring |-> 12, string |-> 13,
               pointer |-> 14, custom |-> 15]
TypeOf(n) == CHOOSE t \in DOMAIN TypeNumber : TypeNumber[t] = n

(* The C++ types by what they are; a long is one or the other.             *)
LongType  == IF LongShort THEN "int" ELSE "long_long"
ULongType == IF LongShort THEN "uint" ELSE "ulong_long"

(* type_mapper and type_constant                                           *)
Mapped == [signed_char |-> "int", unsigned_char |-> "uint", short |-> "int",
           unsigned_short |-> "uint", int |-> "int", unsigned |-> "uint",
           long |-> LongType, unsigned_long |-> ULongType,
           long_long |-> "long_long", unsigned_long_long |-> "ulong_long",
           int128 |-> "int128", uint128 |-> "uint128", bitint |-> "long_long",
           ubitint |-> "ulong_long", bool |-> "bool", char |-> "char",
           float |-> "float", double |-> "double", long_double |-> "long_double",
           char_pointer |-> "cstring", string |-> "string", void_pointer |-> "pointer",
           nullptr |-> "pointer", user_type |-> "custom"]

(* The number of arguments fits the int that max_size casts it to.         *)
Arg == [cpp : DOMAIN Mapped, name : STRING, value : Nat]
ASSUME ArgsAssumption ==
  /\ WordBits \in Nat /\ WordBits >= 4 /\ LongShort \in BOOLEAN
  /\ \A q \in ArgLists : q \in Seq(Arg) /\ Len(q) < 2 ^ (WordBits \div 2)
  /\ Ids \subseteq Nat /\ "" \notin Names

(* The constructors of value: the members of the union they set.  A string *)
(* sets the data and the size of its member, a char* the data only.        *)
Stored ==
  [t \in DOMAIN Mapped |->
     CASE t \in {"signed_char", "short", "int"}             -> {"int"}
       [] t \in {"unsigned_char", "unsigned_short", "unsigned"} -> {"uint"}
       [] t = "long"                                        -> {LongType}
       [] t = "unsigned_long"                               -> {ULongType}
       [] t \in {"long_long", "bitint"}                     -> {"long_long"}
       [] t \in {"unsigned_long_long", "ubitint"}           -> {"ulong_long"}
       [] t = "char_pointer"                                -> {"string.data"}
       [] t = "string"                                      -> {"string.data", "string.size"}
       [] t \in {"void_pointer", "nullptr"}                 -> {"pointer"}
       [] t = "user_type"                                   -> {"custom"}
       [] OTHER                                             -> {t}]

(* basic_format_arg::visit: the members it reads for a type.               *)
Visited ==
  [t \in DOMAIN TypeNumber |->
     CASE t = "none"    -> {}
       [] t = "cstring" -> {"string.data"}
       [] t = "string"  -> {"string.data", "string.size"}
       [] OTHER         -> {t}]
------------------------------------------------------------------------------
(* basic_format_args                                                       *)
NumArgs  == Len(args)
IsPacked == Bits(desc, WordBits - 1, 1) = 0
HasNamed == Bits(desc, WordBits - 2, 1) = 1
Garbage  == [members |-> {}, is |-> 0]
NoArg    == [type |-> "none", value |-> Garbage]
Value(id) == IF id < NumArgs THEN values[id + 1] ELSE Garbage

(* max_size casts desc to an int, which is half as wide.                   *)
(* An unpacked argument carries its type, a packed one has it in desc.     *)
Unpacked(id) == [type |-> Mapped[args[id + 1].cpp], value |-> Value(id)]
TypeAt(id)   == TypeOf(Bits(desc, id * PackedArgBits, PackedArgBits))
MaxSize      == IF IsPacked THEN MaxPacked ELSE Bits(desc, 0, WordBits \div 2)

(* Mutant: the ids past the packed types are not turned away.              *)
GetUnchecked(id) ==
  IF ~ IsPacked THEN IF id < MaxSize THEN Unpacked(id) ELSE NoArg
  ELSE IF TypeAt(id) = "none" THEN NoArg
  ELSE [type |-> TypeAt(id), value |-> Value(id)]

Get(id) ==
  IF ~ IsPacked THEN IF id < MaxSize THEN Unpacked(id) ELSE NoArg
  ELSE IF id >= MaxPacked \/ TypeAt(id) = "none" THEN NoArg
  ELSE [type |-> TypeAt(id), value |-> Value(id)]

GetId(name) ==
  LET found == {i \in DOMAIN named : named[i].name = name} IN
  IF ~ HasNamed \/ found = {} THEN -1
  ELSE named[CHOOSE i \in found : \A j \in found : i <= j].id
------------------------------------------------------------------------------
ArgsInit ==
  /\ args \in ArgLists
  /\ next = 1 /\ values = <<>> /\ named = <<>> /\ result = <<>>
  /\ desc = (IF Len(args) > MaxPacked THEN IsUnpackedBit + Len(args) ELSE 0)

(* One step of the pack expansions: store the value, encode its type, and  *)
(* note its name with its index.                                           *)
EncodeType(i) ==
  IF Len(args) > MaxPacked THEN 0
  ELSE TypeNumber[Mapped[args[i].cpp]] * 2 ^ ((i - 1) * PackedArgBits)

InitNamedArg(i) ==
  IF args[i].name = "" THEN named
  ELSE Append(named, [name |-> args[i].name, id |-> i - 1])

StoreArg ==
  /\ next <= NumArgs /\ next' = next + 1
  /\ values' = Append(values, [members |-> Stored[args[next].cpp], is |-> args[next].value])
  /\ desc' = desc + EncodeType(next)
            + (IF args[next].name # "" /\ ~ HasNamed THEN HasNamedBit ELSE 0)
  /\ named' = InitNamedArg(next)
  /\ UNCHANGED <<args, result>>

Found(ref, arg) ==
  /\ result' = [ref |-> ref, arg |-> arg] /\ UNCHANGED <<args, next, desc, values, named>>
LookUp ==
  /\ next = NumArgs + 1
  /\ \/ \E id \in Ids : Found(<<"index", id>>, Get(id))
     \/ \E name \in Names :
          Found(<<"name", name>>, IF GetId(name) >= 0 THEN Get(GetId(name)) ELSE NoArg)

ArgsNext == StoreArg \/ LookUp
ArgsSpec == ArgsInit /\ [][ArgsNext]_argsVars
------------------------------------------------------------------------------
(* An index finds the argument at that place and a name the first argument *)
(* of that name, whether the types are packed or not, and anything else    *)
(* finds nothing; and a visitor of what was found reads the members of the *)
(* union that the argument's constructor set, and no other.                *)
Wanted(ref) ==
  IF ref[1] = "index" THEN {ref[2] + 1} \cap DOMAIN args
  ELSE {i \in DOMAIN args : /\ args[i].name = ref[2]
                            /\ \A j \in 1 .. i - 1 : args[j].name # ref[2]}
LookUpFindsTheArgument ==
  result # <<>> =>
    LET i == Wanted(result.ref) IN
    IF i = {} THEN result.arg = NoArg
    ELSE \E j \in i : /\ result.arg.type = Mapped[args[j].cpp]
                      /\ result.arg.value.is = args[j].value
                      /\ Visited[result.arg.type] = result.arg.value.members
==============================================================================
