----------------------------- MODULE MCFmtWriters ----------------------------
(* The writers of fmt in one program that runs one of them.  The variables  *)
(* of FmtText are its own; the others share theirs, and those that a        *)
(* component has no use for stay unused.                                    *)
EXTENDS FmtText, MCFmtInt, MCFmtText, MCFmtFloat, MCFmtDragon, MCFmtColor

VARIABLE part   \* the component that runs
VARIABLES input, abs, prefix, rest, digits, stage, output, columns, s,
          precision, alt, fixed, buf, exp, f, e, closer, num, den, lower,
          upper, exps, exp10, val, quotient, parts, style, failed, text, at,
          hasStyle
otherVars == <<input, abs, prefix, rest, digits, stage, output, columns, s,
               precision, alt, fixed, buf, exp, f, e, closer, num, den,
               lower, upper, exps, exp10, val, quotient, parts, style, failed,
               text, at, hasStyle>>
writersVars == <<part, vars, otherVars>>

Unused == <<>>

Ints   == INSTANCE FmtInt WITH Calls <- MCIntCalls, Bits <- 30,
                               call <- input, phase <- stage, out <- output
Flt    == INSTANCE FmtFloat WITH Calls <- MCFloats, Sub <- 2, ExpUpper <- 4,
                                 MaxDigits <- 12, MaxInt <- 20,
                                 call <- input, phase <- stage, out <- output,
                                 width <- columns
Dragon == INSTANCE FmtDragon WITH Calls <- MCDragonCalls, FracBits <- 5,
                                 BigitBits <- 4, MinE <- MCMinE,
                                 call <- input, phase <- stage
Bigs   == INSTANCE FmtBigint WITH Bits <- 2, MaxValue <- 100
Color  == INSTANCE FmtColor WITH Parts <- MCParts, Texts <- MCTexts,
                                 MaxParts <- 3, Colorized <- TRUE,
                                 phase <- stage
------------------------------------------------------------------------------
(* What a step of a component leaves alone.                                 *)
IntsRest == <<vars, columns, s, precision, alt, fixed, buf, exp, f, e,
              closer, num, den, lower, upper, exps, exp10, val, quotient, parts,
              style, failed, text, at, hasStyle>>
FltRest == <<vars, abs, prefix, rest, digits, f, e, closer, num, den, lower,
             upper, exps, exp10, val, quotient, parts, style, failed, text, at,
             hasStyle>>
DragonRest == <<vars, abs, prefix, rest, output, columns, s, precision, alt,
                fixed, exp, val, quotient, parts, style, failed, text, at,
                hasStyle>>
BigsRest == <<vars, input, abs, prefix, rest, digits, stage, output, columns,
              s, precision, alt, fixed, buf, exp, f, e, closer, den, lower,
              upper, exps, exp10, parts, style, failed, text, at, hasStyle>>
ColorRest == <<vars, input, abs, prefix, rest, digits, output, columns, s,
               precision, alt, fixed, exp, f, e, closer, num, den, lower,
               upper, exps, exp10, val, quotient>>

(* Init of a component leaves those of the others unused.                   *)
TextUnused ==
  /\ call = Unused /\ phase = "unused" /\ size = 0 /\ width = 0 /\ out = <<>>
OtherUnused ==
  /\ input = Unused /\ abs = Unused /\ prefix = Unused /\ rest = Unused
  /\ digits = Unused /\ stage = Unused /\ output = Unused /\ columns = Unused
  /\ s = Unused /\ precision = Unused /\ alt = Unused /\ fixed = Unused
  /\ buf = Unused /\ exp = Unused /\ f = Unused /\ e = Unused
  /\ closer = Unused /\ num = Unused /\ den = Unused /\ lower = Unused
  /\ upper = Unused /\ exps = Unused /\ exp10 = Unused /\ val = Unused
  /\ quotient = Unused /\ parts = Unused /\ style = Unused /\ failed = Unused
  /\ text = Unused /\ at = Unused /\ hasStyle = Unused
IntsUnused ==
  /\ TextUnused
  /\ columns = Unused /\ s = Unused /\ precision = Unused /\ alt = Unused
  /\ fixed = Unused /\ buf = Unused /\ exp = Unused /\ f = Unused
  /\ e = Unused /\ closer = Unused /\ num = Unused /\ den = Unused
  /\ lower = Unused /\ upper = Unused /\ exps = Unused /\ exp10 = Unused
  /\ val = Unused /\ quotient = Unused /\ parts = Unused /\ style = Unused
  /\ failed = Unused /\ text = Unused /\ at = Unused /\ hasStyle = Unused
FltUnused ==
  /\ TextUnused
  /\ abs = Unused /\ prefix = Unused /\ rest = Unused /\ digits = Unused
  /\ f = Unused /\ e = Unused /\ closer = Unused /\ num = Unused
  /\ den = Unused /\ lower = Unused /\ upper = Unused /\ exps = Unused
  /\ exp10 = Unused /\ val = Unused /\ quotient = Unused /\ parts = Unused
  /\ style = Unused /\ failed = Unused /\ text = Unused /\ at = Unused
  /\ hasStyle = Unused
DragonUnused ==
  /\ TextUnused
  /\ abs = Unused /\ prefix = Unused /\ rest = Unused /\ output = Unused
  /\ columns = Unused /\ s = Unused /\ precision = Unused /\ alt = Unused
  /\ fixed = Unused /\ exp = Unused /\ val = Unused /\ quotient = Unused
  /\ parts = Unused /\ style = Unused /\ failed = Unused /\ text = Unused
  /\ at = Unused /\ hasStyle = Unused
BigsUnused ==
  /\ TextUnused
  /\ input = Unused /\ abs = Unused /\ prefix = Unused /\ rest = Unused
  /\ digits = Unused /\ stage = Unused /\ output = Unused /\ columns = Unused
  /\ s = Unused /\ precision = Unused /\ alt = Unused /\ fixed = Unused
  /\ buf = Unused /\ exp = Unused /\ f = Unused /\ e = Unused
  /\ closer = Unused /\ den = Unused /\ lower = Unused /\ upper = Unused
  /\ exps = Unused /\ exp10 = Unused /\ parts = Unused /\ style = Unused
  /\ failed = Unused /\ text = Unused /\ at = Unused /\ hasStyle = Unused
ColorUnused ==
  /\ TextUnused
  /\ input = Unused /\ abs = Unused /\ prefix = Unused /\ rest = Unused
  /\ digits = Unused /\ output = Unused /\ columns = Unused /\ s = Unused
  /\ precision = Unused /\ alt = Unused /\ fixed = Unused /\ exp = Unused
  /\ f = Unused /\ e = Unused /\ closer = Unused /\ num = Unused
  /\ den = Unused /\ lower = Unused /\ upper = Unused /\ exps = Unused
  /\ exp10 = Unused /\ val = Unused /\ quotient = Unused

WritersInit ==
  \/ part = "int" /\ Ints!Init /\ IntsUnused
  \/ part = "text" /\ Init /\ OtherUnused
  \/ part = "float" /\ Flt!Init /\ FltUnused
  \/ part = "dragon" /\ Dragon!Init /\ DragonUnused
  \/ part = "bigint" /\ Bigs!Init /\ BigsUnused
  \/ part = "color" /\ Color!Init /\ ColorUnused
WritersNext ==
  /\ UNCHANGED part
  /\ \/ part = "int" /\ Ints!Next /\ UNCHANGED IntsRest
     \/ part = "text" /\ Next /\ UNCHANGED otherVars
     \/ part = "float" /\ Flt!Next /\ UNCHANGED FltRest
     \/ part = "dragon" /\ Dragon!Next /\ UNCHANGED DragonRest
     \/ part = "bigint" /\ Bigs!Next /\ UNCHANGED BigsRest
     \/ part = "color" /\ Color!Next /\ UNCHANGED ColorRest
WritersSpec == WritersInit /\ [][WritersNext]_writersVars
------------------------------------------------------------------------------
(* The text of an integer denotes it in its base (write_int). *)
NumberIsWritten == part = "int" => Ints!NumberIsWritten
(* An integer is as wide as asked for (write_int, write_padded). *)
WidthIsKept == part = "int" => Ints!WidthIsKept
(* The text of a float denotes the rounded value (format_float). *)
TextIsTheRoundedValue == part = "float" => Flt!TextIsTheRoundedValue
(* A float has the digits and the notation asked for (do_write_float). *)
DigitsAreTheOnesAskedFor == part = "float" => Flt!DigitsAreTheOnesAskedFor
(* The shortest digits read back as the number (format_dragon). *)
ShortestReadsBack == part = "dragon" => Dragon!ShortestReadsBack
(* A given number of digits is the rounded number (format_dragon). *)
GivenDigitsAreRounded == part = "dragon" => Dragon!GivenDigitsAreRounded
(* Every operation on big numbers is exact (bigint). *)
ValuesAreRight == part = "bigint" => Bigs!ValuesAreRight
(* Text is drawn in its style and no style leaks (vformat_to, styled_arg). *)
DrawnAsAsked == part = "color" => Color!DrawnAsAsked
==============================================================================
