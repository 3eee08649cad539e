------------------------------ MODULE LogLevels ------------------------------
(***************************************************************************)
(* The two enumerations of the logger and the pure decisions taken from    *)
(* them: which messages a threshold lets through and which outputs a       *)
(* destination stands for.                                                 *)
(***************************************************************************)
EXTENDS Integers

CONSTANT SilenceWarnings   \* the build macro PRESSIO_SILENCE_WARNINGS

ASSUME SilenceAssumption == SilenceWarnings \in BOOLEAN

LogLevel == [none |-> 0, sparse |-> 1, error |-> 2, warning |-> 3,
             info |-> 4, debug |-> 5]
Levels == 0 .. 5

LogTo == [console |-> 0, file |-> 1, both |-> 2]
Destinations == 0 .. 2

(* Mutant: a comparison that misses one destination.                       *)
ShouldWriteOnlyBoth(dst) == dst > LogTo.file

(* setDestinationBools_: the console and file switches of a destination.   *)
ShouldWrite(dst) == dst >= LogTo.file
ShouldLog(dst)   == dst \in {LogTo.console, LogTo.both}

(* The switch of log() and the tests of sparse_ ... debug_: does a message *)
(* of this level pass the threshold?                                       *)
Passes(level, threshold) ==
  /\ level # LogLevel.none
  /\ threshold >= level
  /\ ~ (level = LogLevel.warning /\ SilenceWarnings)

==============================================================================
