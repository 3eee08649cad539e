------------------------------- MODULE FmtParse -------------------------------
(***************************************************************************)
(* The parser of fmt's format strings, with its two handlers: the checker  *)
(* of compile-time strings, which only looks at the types of the arguments,*)
(* and the formatter, which has the arguments and writes.  Every log call  *)
(* with arguments runs the second (the strings are fmt::runtime).          *)
(*                                                                         *)
(* A format string is a sequence of code units; an error is an exception   *)
(* and ends the parse.  A parse is a record: the position at, the next     *)
(* automatic argument or -1 (manual), the last argument id got and the     *)
(* field's id, the state of the specifiers sp, the last number or ref.     *)
(***************************************************************************)
EXTENDS Integers, Sequences

CONSTANTS
  Cases,      \* [fmt, args, first]: a format string, its arguments as
              \* [type, name, value] (name <<>> if it has none) and who
              \* parses first, "check" or "run"
  IntBits     \* the width of int

ASSUME ParseAssumption ==
  /\ \A c \in Cases : /\ c.fmt \in Seq(STRING) /\ c.first \in {"check", "run"}
                      /\ c.args \in Seq([type: STRING, name: Seq(STRING), value: Int])
  /\ IntBits \in Nat \ {0}

VARIABLES
  fmt, args,   \* the call
  h, checked,  \* the handler; did the checker accept the string before?
  mode,        \* which function of the parser runs, see below
  text,        \* where the pending text begins
  s, out,      \* the parse; the literal units the handler was given
  fields       \* the arguments it formatted, each with what stood before

vars == <<fmt, args, h, checked, mode, text, s, out, fields>>

Types   == {"int", "uint", "bool", "char", "float", "cstring", "string", "pointer"}
SIntSet == {"int"}
Integral   == {"int", "uint", "bool", "char"}
Arithmetic == Integral \cup {"float"}
Textual    == {"string", "cstring"}

(* The types that take each presentation; upper case sets a flag of its own*)
Presentation == [
  d |-> Integral, x |-> Integral, X |-> Integral, o |-> Integral,
  b |-> Integral, B |-> Integral, e |-> {"float"}, E |-> {"float"},
  f |-> {"float"}, F |-> {"float"}, g |-> {"float"}, G |-> {"float"},
  a |-> {"float"}, A |-> {"float"}, c |-> Integral \ {"bool"},
  s |-> Textual \cup {"bool"}, p |-> {"pointer", "cstring"},
  q |-> Textual \cup {"char"}]   \* q stands for '?'

DigitValue == [c \in {"0", "1", "2", "9"} |->
                 CASE c = "0" -> 0 [] c = "1" -> 1 [] c = "2" -> 2 [] c = "9" -> 9]
Digits     == DOMAIN DigitValue
NameStarts == {"n", "_"}
AlignOf    == [c \in {"<", ">", "^"} |->
                 CASE c = "<" -> "left" [] c = ">" -> "right" [] c = "^" -> "center"]

End  == Len(fmt) + 1
C(i) == IF i \in 1 .. Len(fmt) THEN fmt[i] ELSE ""

(* code_point_length, from the lead unit; "U1" leads two units.            *)
CodePointLength(c) == IF c = "U1" THEN 2 ELSE 1

Fail(t, why) == [t EXCEPT !.err = IF @ = "" THEN why ELSE @]
Failed(t)    == t.err # ""
------------------------------------------------------------------------------
(* Argument ids: automatic and manual numbering.                           *)

ArgNamed(name) == {i \in 0 .. Len(args) - 1 : args[i + 1].name = name}

(* compile_parse_context looks the id up, parse_context does not.          *)
CheckExists(t, id) ==
  IF h = "check" /\ id >= Len(args) THEN Fail(t, "argument not found") ELSE t

NextArgId(t) ==
  IF t.next < 0 THEN Fail(t, "manual to automatic")
  ELSE CheckExists([t EXCEPT !.got = t.next, !.next = @ + 1], t.next)

(* Mutant: automatic numbering is only noticed from the second field on.   *)
CheckArgIdLate(t, id) ==
  IF t.next > 1 THEN Fail(t, "automatic to manual")
  ELSE CheckExists([t EXCEPT !.got = id, !.next = -1], id)

CheckArgId(t, id) ==
  IF t.next > 0 THEN Fail(t, "automatic to manual")
  ELSE CheckExists([t EXCEPT !.got = id, !.next = -1], id)

(* on_arg_id(name).  Names are those of fmt::arg: the checker does not know *)
(* them, takes -1 for the argument and leaves the numbering alone.         *)
HasNames == \E i \in DOMAIN args : args[i].name # <<>>
FieldName(t, name) ==
  LET found == ArgNamed(name) # {} IN
  CASE h = "check" /\ HasNames    -> [t EXCEPT !.got = -1]
    [] h = "run" /\ found         ->
         [t EXCEPT !.next = -1, !.got = CHOOSE i \in ArgNamed(name) :
                                          \A j \in ArgNamed(name) : i <= j]
    [] (IF h = "run" THEN ~ found ELSE ~ HasNames) -> Fail(t, "argument not found")

(* Mutant: the type of a dynamic width or precision is not looked at.      *)
DynamicRefUntyped(t, id) == [t EXCEPT !.ref = <<"index", id>>]

(* The checks of a dynamic width or precision while parsing.               *)
DynamicRef(t, id) ==
  IF h = "check" /\ id < Len(args) /\ args[id + 1].type \notin Integral
  THEN Fail(t, "width/precision is not integer")
  ELSE [t EXCEPT !.ref = <<"index", id>>]
DynamicIndex(t, id)  == DynamicRef(CheckArgId(t, id), id)
DynamicName(t, name) == [t EXCEPT !.ref = <<"name", name>>, !.next = -1]

------------------------------------------------------------------------------
(* Numbers and ids                                                         *)

Number(i, j) ==
  LET value[k \in i .. j] ==
        IF k = i THEN 0 ELSE value[k - 1] * 10 + DigitValue[C(k - 1)]
  IN value[j]

EndOf(i, units) == CHOOSE j \in i .. End : /\ C(j) \notin units
                                           /\ \A k \in i .. j - 1 : C(k) \in units

Digits10 == (IntBits * 3) \div 10
IntMax   == 2 ^ (IntBits - 1) - 1

(* parse_nonnegative_int: the value, or error when it does not fit an int. *)
ParseNonnegativeInt(i, error) ==
  LET j == EndOf(i, Digits) IN
  IF \/ j - i <= Digits10
     \/ j - i = Digits10 + 1 /\ Number(i, j) <= IntMax
  THEN Number(i, j) ELSE error

(* parse_arg_id, of a field or of a dynamic width or precision.            *)
ParseArgId(t, dynamic) ==
  LET c == C(t.at)
      j == IF c = "0" THEN t.at + 1
           ELSE EndOf(t.at, IF c \in Digits THEN Digits ELSE NameStarts \cup Digits)
      u == [t EXCEPT !.at = j]
  IN CASE c \in Digits ->
            IF C(j) \notin {"}", ":"} THEN Fail(u, "invalid format string")
            ELSE LET id == IF c = "0" THEN 0 ELSE ParseNonnegativeInt(t.at, IntMax)
                 IN  IF dynamic THEN DynamicIndex(u, id) ELSE CheckArgId(u, id)
       [] c \in NameStarts ->
            LET name == SubSeq(fmt, t.at, j - 1)
            IN  IF dynamic THEN DynamicName(u, name) ELSE FieldName(u, name)
       [] OTHER -> Fail(t, "invalid format string")

(* parse_dynamic_spec: a number or a reference in braces.                  *)
ParseDynamicSpec(t) ==
  IF C(t.at) \in Digits THEN
    LET v == ParseNonnegativeInt(t.at, -1) IN
    IF v = -1 THEN Fail(t, "number is too big")
    ELSE [t EXCEPT !.at = EndOf(t.at, Digits), !.ref = <<"value", v>>]
  ELSE IF C(t.at) # "{" THEN Fail(t, "invalid format string")
  ELSE LET t1 == [t EXCEPT !.at = @ + 1]
           t2 == CASE C(t1.at) = ""           -> t1
                   [] C(t1.at) \in {"}", ":"} -> LET u == NextArgId(t1)
                                                 IN IF Failed(u) THEN u
                                                    ELSE DynamicRef(u, u.got)
                   [] OTHER -> ParseArgId(t1, TRUE)
       IN IF Failed(t2) THEN t2
          ELSE IF C(t2.at) = "}" THEN [t2 EXCEPT !.at = @ + 1]
          ELSE Fail(t2, "invalid format string")

ParseWidth(t) ==
  LET u == ParseDynamicSpec(t) IN [u EXCEPT !.sp.width = u.ref]
ParsePrecision(t) ==
  IF t.at + 1 = End THEN Fail(t, "invalid precision")
  ELSE LET u == ParseDynamicSpec([t EXCEPT !.at = @ + 1])
       IN  [u EXCEPT !.sp.precision = u.ref]

------------------------------------------------------------------------------
(* parse_format_specs                                                      *)

NoSpecs == [align |-> "none", fill |-> <<" ">>, sign |-> "none", flags |-> {},
            width |-> <<"value", 0>>, precision |-> <<"value", -1>>, type |-> "none"]

(* enter_state: the parts come in this order, each at most once.           *)
States == [align |-> 1, sign |-> 2, hash |-> 3, zero |-> 4, width |-> 5,
           precision |-> 6, locale |-> 7]
EnterState(t, st, valid) ==
  IF t.state >= States[st] \/ ~ valid THEN Fail(t, "invalid format specifier")
  ELSE [t EXCEPT !.state = States[st]]

Skip(t) == [t EXCEPT !.at = @ + 1]

(* Mutant: zero padding overrides an alignment.                            *)
ZeroFlagAlways(t, type) ==
  LET u == Skip(EnterState(t, "zero", TRUE)) IN
  IF type \notin Arithmetic THEN Fail(u, "numeric argument required")
  ELSE [u EXCEPT !.sp.align = "numeric", !.sp.fill = <<"0">>]

ZeroFlag(t, type) ==
  LET u == Skip(EnterState(t, "zero", TRUE)) IN
  IF type \notin Arithmetic THEN Fail(u, "numeric argument required")
  ELSE IF t.sp.align # "none" THEN u
  ELSE [u EXCEPT !.sp.align = "numeric", !.sp.fill = <<"0">>]

FillAndAlign(t) ==
  LET fillEnd == t.at + CodePointLength(C(t.at)) IN
  IF fillEnd >= End THEN Fail(t, "invalid format specifier")
  ELSE IF C(t.at) = "{" THEN Fail(t, "invalid fill character")
  ELSE LET u == EnterState(t, "align", C(fillEnd) \in DOMAIN AlignOf) IN
       IF Failed(u) THEN u
       ELSE [u EXCEPT !.sp.fill = SubSeq(fmt, t.at, fillEnd - 1),
                      !.sp.align = AlignOf[C(fillEnd)], !.at = fillEnd + 1]

(* One turn of the loop for the unit c; c is "" when the unit is a fill.   *)
SpecPart(t, c, type) ==
  CASE c \in DOMAIN AlignOf ->
         Skip([EnterState(t, "align", TRUE) EXCEPT !.sp.align = AlignOf[c]])
    [] c \in {"+", " ", "-"} ->
         Skip([EnterState(t, "sign", type \in SIntSet \cup {"float"})
                 EXCEPT !.sp.sign = IF c = "-" THEN @ ELSE c])
    [] c = "#" -> Skip([EnterState(t, "hash", type \in Arithmetic)
                          EXCEPT !.sp.flags = @ \cup {"alt"}])
    [] c = "0" -> ZeroFlag(t, type)
    [] c \in (Digits \ {"0"}) \cup {"{"} ->
         LET u == EnterState(t, "width", TRUE) IN IF Failed(u) THEN u ELSE ParseWidth(u)
    [] c = "." ->
         LET u == EnterState(t, "precision", type \in Textual \cup {"float"})
         IN  IF Failed(u) THEN u ELSE ParsePrecision(u)
    [] c = "L" -> Skip([EnterState(t, "locale", type \in Arithmetic)
                          EXCEPT !.sp.flags = @ \cup {"localized"}])
    [] OTHER -> FillAndAlign(t)

(* check_char_specs, in the checker and in write(char).                    *)
CheckCharSpecs(t) ==
  IF /\ t.id >= 0 /\ args[t.id + 1].type = "char" /\ t.sp.type \in {"none", "c", "q"}
     /\ \/ t.sp.align = "numeric" \/ t.sp.sign # "none" \/ "alt" \in t.sp.flags
  THEN Fail(t, "invalid format specifier for char") ELSE t

(* handle_dynamic_spec: the argument gives the number.                     *)
Resolve(ref) ==
  LET ids == CASE ref[1] = "index" -> {ref[2]} \cap 0 .. Len(args) - 1
               [] ref[1] = "name"  -> ArgNamed(ref[2])
               [] OTHER            -> {}
      arg == args[(CHOOSE i \in ids : TRUE) + 1]
  IN CASE ref[1] = "value" -> ref
       [] ref[1] # "value" /\ ids = {} -> <<"error", "argument not found">>
       [] ref[1] # "value" /\ ids # {} ->
            IF arg.type \notin {"int", "uint"} THEN <<"error", "not integer">>
            ELSE IF arg.value < 0 THEN <<"error", "out of range">>
            ELSE <<"value", arg.value>>

------------------------------------------------------------------------------
(* The parse: parse_format_string ("text"), parse_replacement_field        *)
(* ("field", "idEnd"), parse_format_specs ("specs", "part") and what the   *)
(* handler does with the specifiers ("close").                             *)

OnText(i, j) == out \o SubSeq(fmt, i, j - 1)
Running == mode # "end" /\ ~ Failed(s)
At(m) == Running /\ mode = m
Parse(t, m) ==
  /\ s' = t /\ mode' = m /\ UNCHANGED <<fmt, args, h, checked, text, out, fields>>

Start == [at |-> 1, next |-> 0, got |-> 0, id |-> 0, state |-> 0, ref |-> <<"value", 0>>,
          sp |-> NoSpecs, err |-> ""]

Init ==
  /\ \E c \in Cases : fmt = c.fmt /\ args = c.args /\ h = c.first
  /\ checked = FALSE /\ mode = "text" /\ text = 1 /\ s = Start
  /\ out = <<>> /\ fields = <<>>

Ordinary ==
  /\ At("text") /\ s.at < End /\ C(s.at) \notin {"{", "}"}
  /\ Parse(Skip(s), "text")

(* Mutant: an escaped brace is copied with the text after it.              *)
EscapeKeepsBoth ==
  /\ At("text") /\ C(s.at) \in {"{", "}"} /\ C(s.at + 1) = C(s.at)
  /\ s' = Skip(Skip(s)) /\ text' = s.at + 1 /\ out' = OnText(text, s.at + 1)
  /\ UNCHANGED <<fmt, args, h, checked, mode, fields>>

Escape ==
  /\ At("text") /\ C(s.at) \in {"{", "}"} /\ C(s.at + 1) = C(s.at)
  /\ s' = Skip(Skip(s)) /\ text' = s.at + 2 /\ out' = OnText(text, s.at + 1)
  /\ UNCHANGED <<fmt, args, h, checked, mode, fields>>
Unmatched ==
  /\ At("text") /\ C(s.at) = "}" /\ C(s.at + 1) # "}"
  /\ Parse(Fail(s, "unmatched '}' in format string"), "text")
Finish ==
  /\ At("text") /\ s.at = End
  /\ mode' = "end" /\ text' = End /\ out' = OnText(text, End)
  /\ UNCHANGED <<fmt, args, h, checked, s, fields>>

Open ==
  /\ At("text") /\ C(s.at) = "{" /\ C(s.at + 1) # "{"
  /\ s' = IF s.at + 1 = End THEN Fail(s, "invalid format string") ELSE Skip(s)
  /\ mode' = "field" /\ out' = OnText(text, s.at)
  /\ UNCHANGED <<fmt, args, h, checked, text, fields>>

FieldId ==
  /\ At("field")
  /\ LET t == IF C(s.at) \in {"}", ":"} THEN NextArgId(s)
              ELSE ParseArgId(s, FALSE)
     IN Parse([t EXCEPT !.id = t.got], "idEnd")

(* The field is complete: the handler has formatted the argument.          *)
Formatted(t) ==
  /\ s' = Skip(t) /\ mode' = "text" /\ text' = s.at + 1
  /\ fields' = Append(fields, [before |-> Len(out), id |-> t.id, sp |-> t.sp])
  /\ UNCHANGED <<fmt, args, h, checked, out>>

(* Without an argument to parse for, the checker skips to the brace.       *)
Closing(i) == CHOOSE j \in i .. End : /\ j = End \/ C(j) = "}"
                                      /\ \A k \in i .. j - 1 : C(k) # "}"

IdEnd ==
  /\ At("idEnd")
  /\ \/ C(s.at) = "}" /\ Formatted(IF s.id >= Len(args)
                                   THEN Fail(s, "argument not found")
                                   ELSE [s EXCEPT !.sp = NoSpecs])
     \/ C(s.at) \notin {"}", ":"} /\ Parse(Fail(s, "missing '}'"), "idEnd")
     \/ C(s.at) = ":" /\ s.id < 0 /\ Parse([s EXCEPT !.at = Closing(@ + 1)], "close")
     \/ /\ C(s.at) = ":" /\ s.id >= 0
        /\ Parse(IF s.id >= Len(args) THEN Fail(s, "argument not found")
                 ELSE Skip([s EXCEPT !.state = 0, !.sp = NoSpecs]), "specs")

(* A unit before an alignment at the very beginning is a fill.             *)
Unit == IF mode = "specs" /\ C(s.at + 1) \in DOMAIN AlignOf THEN "" ELSE C(s.at)
ArgType == args[s.id + 1].type

SpecType ==
  /\ At("specs") \/ At("part")
  /\ Unit \in DOMAIN Presentation
  /\ Parse(IF ArgType \notin Presentation[Unit] THEN Fail(s, "invalid format specifier")
           ELSE Skip([s EXCEPT !.sp.type = Unit]), "close")
Specifier ==
  /\ At("specs") \/ At("part")
  /\ s.at < End /\ C(s.at) # "}" /\ Unit \notin DOMAIN Presentation
  /\ Parse(SpecPart(s, Unit, ArgType), "part")
SpecsEnd ==
  /\ At("specs") \/ At("part")
  /\ s.at = End \/ C(s.at) = "}"
  /\ Parse(s, "close")

Close ==
  /\ At("close")
  /\ LET w == Resolve(s.sp.width)
         p == Resolve(s.sp.precision)
         t == IF h = "check" THEN s
              ELSE IF w[1] = "error" THEN Fail(s, w[2])
              ELSE IF p[1] = "error" THEN Fail(s, p[2])
              ELSE [s EXCEPT !.sp.width = w, !.sp.precision = p]
     IN Formatted(IF C(s.at) = "}" THEN CheckCharSpecs(t)
                  ELSE Fail(t, "unknown format specifier"))

(* The program whose compilation checked the string runs.                  *)
Run ==
  /\ h = "check" /\ mode = "end"
  /\ h' = "run" /\ checked' = TRUE /\ mode' = "text"
  /\ s' = Start /\ text' = 1 /\ out' = <<>> /\ fields' = <<>>
  /\ UNCHANGED <<fmt, args>>
Done == ~ Running /\ (h = "run" \/ Failed(s)) /\ UNCHANGED vars

Next ==
  \/ Ordinary \/ Escape \/ Unmatched \/ Finish \/ Open \/ FieldId \/ IdEnd
  \/ SpecType \/ Specifier \/ SpecsEnd \/ Close \/ Run \/ Done
Spec == Init /\ [][Next]_vars
------------------------------------------------------------------------------
(* What a reader of the format string expects                              *)

Accepted == h = "run" /\ mode = "end"

(* What a reader has seen after n units: the literal text, how many braces *)
(* are open, whether the next unit belongs with this one (a doubled brace, *)
(* a character of two units), and where a field or a reference began.      *)
ReadUnit(r, i) ==
  CASE r.pair -> [r EXCEPT !.pair = FALSE]
    [] ~ r.pair /\ r.depth = 0 /\ C(i) \in {"{", "}"} /\ C(i + 1) = C(i) ->
         [r EXCEPT !.text = Append(@, C(i)), !.pair = TRUE]
    [] ~ r.pair /\ r.depth = 0 /\ C(i) \notin {"{", "}"} ->
         [r EXCEPT !.text = Append(@, C(i))]
    [] ~ r.pair /\ C(i) = "{" /\ (r.depth # 0 \/ C(i + 1) # "{") ->
         [r EXCEPT !.depth = @ + 1, !.opens = @ \cup {i + 1}]
    [] ~ r.pair /\ C(i) = "}" /\ (r.depth # 0 \/ C(i + 1) # "}") ->
         [r EXCEPT !.depth = @ - 1]
    [] OTHER -> [r EXCEPT !.pair = CodePointLength(C(i)) = 2]
Read[n \in Nat] ==
  IF n = 0 THEN [text |-> <<>>, depth |-> 0, pair |-> FALSE, opens |-> {}]
  ELSE ReadUnit(Read[n - 1], n)
Literal == Read[Len(fmt)].text
Opens   == Read[Len(fmt)].opens

(* The text of an accepted string comes out unchanged: every unit outside  *)
(* the fields, in order, doubled braces once.  (parse_format_string and    *)
(* its on_text calls.)                                                     *)
TextIsKept == Accepted => out = Literal

(* A string that refers to an argument by its index or its name leaves no  *)
(* later one to fmt, and one that has left an argument to fmt gives no     *)
(* index later, unless a name stands between.  (base.h:896 and :908,       *)
(* "Reports an error if using ...": a name is where the second forgets.)   *)
Automatic(i) == C(i) \in {"}", ":"}
NumberingIsNotMixed ==
  Accepted =>
    \A i, j \in Opens :
      /\ i < j /\ Automatic(j) => Automatic(i)
      /\ i < j /\ Automatic(i) /\ C(j) \in Digits =>
           \E k \in Opens : i < k /\ k < j /\ C(k) \in NameStarts

(* What the compile-time check accepts does not throw when it is formatted *)
(* with arguments of those types; names, though, are looked up only then.   *)
(* (base.h:2701, "Reports a compile-time error if S is not a valid format  *)
(* string for T.")                                                         *)
CheckedStringsFormat ==
  checked /\ Failed(s) => \E i \in Opens : C(i) \in NameStarts

(* The grammar of the specifiers of one field: the parts in their order,   *)
(* each with the units it is written with and what it means.               *)
Opt(parts)  == {<<<<>>, NoSpecs>>} \cup parts
Mark(cond, c, sp) == Opt(IF cond THEN {<<<<c>>, sp>>} ELSE {})
Value[x \in Seq(Digits)] ==
  IF x = <<>> THEN 0 ELSE Value[SubSeq(x, 1, Len(x) - 1)] * 10 + DigitValue[x[Len(x)]]
Numerals == {x \in UNION {[1 .. k -> {"0", "2"}] : k \in 1 .. Digits10 + 1} : Value[x] <= IntMax}

AlignPart == Opt({<<<<a>>, [NoSpecs EXCEPT !.align = AlignOf[a]]>> : a \in {"<"}} \cup
                 {<<<<f, "<">>, [NoSpecs EXCEPT !.align = "left", !.fill = <<f>>]>> :
                     f \in {"*", "<", "+", "#", "0", "2", ".", "L", "x", "f"}})
SignPart(ty)  == Mark(ty \in {"int", "float"}, "+", [NoSpecs EXCEPT !.sign = "+"])
HashPart(ty)  == Mark(ty \in Arithmetic, "#", [NoSpecs EXCEPT !.flags = {"alt"}])
ZeroPart(ty)  == Mark(ty \in Arithmetic, "0", [NoSpecs EXCEPT !.align = "numeric", !.fill = <<"0">>])
WidthPart     == Opt({<<x, [NoSpecs EXCEPT !.width = <<"value", Value[x]>>]>> :
                        x \in {y \in Numerals : y[1] # "0"}})
PrecisionPart(ty) ==
  Opt(IF ty \in Textual \cup {"float"}
      THEN {<<<<".">> \o x, [NoSpecs EXCEPT !.precision = <<"value", Value[x]>>]>> : x \in Numerals}
      ELSE {})
LocalePart(ty) == Mark(ty \in Arithmetic, "L", [NoSpecs EXCEPT !.flags = {"localized"}])
TypePart(ty)   == Opt({<<<<c>>, [NoSpecs EXCEPT !.type = c]>> :
                         c \in {x \in {"x", "f"} : ty \in Presentation[x]}})

(* The later part wins where it says something; an alignment beats a zero. *)
Both(a, b) ==
  [k \in DOMAIN NoSpecs |->
     CASE k = "flags" -> a.flags \cup b.flags
       [] k \in {"align", "fill"} -> IF a.align # "none" THEN a[k] ELSE b[k]
       [] OTHER -> IF b[k] # NoSpecs[k] THEN b[k] ELSE a[k]]
Then(A, B) == {<<a[1] \o b[1], Both(a[2], b[2])>> : a \in A, b \in B}
Short(A)   == {a \in A : Len(a[1]) <= 4}
Meaning == [ty \in {"int", "float", "string"} |->
  LET a == Short(Then(Then(AlignPart, SignPart(ty)), HashPart(ty)))
      b == Short(Then(Then(a, ZeroPart(ty)), WidthPart))
      c == Short(Then(b, PrecisionPart(ty)))
  IN  Short(Then(Then(c, LocalePart(ty)), TypePart(ty)))]

(* A field, alone with its one argument, is accepted exactly when its      *)
(* specifiers are written by the grammar, and then they are read as it     *)
(* says.  (parse_format_specs.)                                            *)
SpecsAreRead ==
  Len(args) = 1 /\ h = "run" /\ ~ Running =>
    LET x == SubSeq(fmt, 3, Len(fmt) - 1)
        m == {p \in Meaning[args[1].type] : p[1] = x}
    IN IF Failed(s) THEN m = {} ELSE \E p \in m : p[2] = fields[1].sp
==============================================================================
