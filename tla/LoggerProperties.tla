--------------------------- MODULE LoggerProperties ---------------------------
(***************************************************************************)
(* What the logger owes to the threads that share it.                      *)
(***************************************************************************)
EXTENDS Logger

(* The positions of a thread that holds mutex_.                            *)
Locked == {"shouldLog", "printText", "printEnd", "shouldWrite", "open",
           "writeText", "writeEnd", "unlock"}

(* The positions of a thread inside the body of call_once(init_flag_).     *)
InitBody(t) ==
  /\ pc[t] \in {"level", "dst", "bools", "boolLog", "boolWrite", "file",
                "fileEnd", "initStr", "initStrEnd", "publish"}
  /\ Initializing(t)

Line(p) == <<p.by, p.n>>
Logged(s) == {i \in DOMAIN s : s[i].kind = "log"}
On(s, part) == {i \in DOMAIN s : s[i].part = part}

(* Two lines written through log_ never run into each other, on the console*)
(* or in a file: between the text of one and the text of the next stands   *)
(* the end of the first.  (The lock_guard of log_.)                        *)
Whole(s) ==
  \A i, j \in Logged(s) \cap On(s, "text") :
    i < j => \E k \in i + 1 .. j - 1 : s[k] = [s[i] EXCEPT !.part = "end"]
LinesStayWhole == Whole(console) /\ \A f \in Paths : Whole(files[f])

(* The warning that the logger is not initialised is printed once per      *)
(* process at most.  (init_warning_flag_.)                                 *)
UninitLines(part) == {i \in On(console, part) : console[i].kind = "uninit"}
WarnsAtMostOnce == \A i, j \in UninitLines("text") : i = j

(* A call refused because the logger is not initialised returns only when  *)
(* the whole warning is on the console, even if another thread is the one  *)
(* that prints it.  (The wait built into call_once.)                       *)
RefusedCallsAreExplained ==
  [][\A t \in Threads :
       (pc[t] \in {"warnOnce", "warnEnd"} /\ pc'[t] = "idle")
         => (UninitLines("text") # {} /\ UninitLines("end") # {})']_vars

(* A line never carries the empty rank string or a half-written one, and   *)
(* never goes to a file whose name was read half-written: the release store*)
(* of logger_is_initialized_ comes after every member is set.              *)
NoTornOutput ==
  /\ \A i \in Logged(console) : console[i].prefix \notin {Blank, Torn}
  /\ \A f \in Files : \A i \in DOMAIN files[f] :
       files[f][i].prefix \notin {Blank, Torn}
  /\ files[Torn] = <<>>

(* Without setters, what the logger runs with is what ONE initialize call  *)
(* asked for, never a mixture of two that raced.  (init_flag_.)            *)
ConfigFromOneCall ==
  initialized =>
    \E t \in Threads : \E k \in DOMAIN Program[t] : \E c \in Program[t][k] :
      /\ c.op \in {"initialize", "initializeWithMPI"}
      /\ loggingLevel = c.level /\ dst = c.dst /\ logFile = c.file
      /\ shouldLog = ShouldLog(c.dst) /\ shouldWrite = ShouldWrite(c.dst)

(* A call that got through the rank and level filters leaves its line in   *)
(* at least one output before it returns.                                  *)
Delivered(t) ==
  \/ \E i \in Logged(console) : Line(console[i]) = <<t, frame[t].n>>
  \/ \E f \in Files : \E i \in DOMAIN files[f] :
       Line(files[f][i]) = <<t, frame[t].n>>
NothingLost == \A t \in Threads : pc[t] = "unlock" => Delivered(t)

(* Whenever no thread is inside the logger, at least one of its outputs is *)
(* on, as each of the three destinations has one.  (README.md:146:         *)
(* "console, file, both".)                                                 *)
OutputStaysOn ==
  (\A t \in Threads : pc[t] = "idle") => shouldLog \/ shouldWrite

(* The process knows its rank in the communicator it was told to use, at   *)
(* least whenever no thread is inside the logger.  (README.md:104 and :149:*)
(* the communicator is a parameter of the logger and can be overridden.)   *)
RankFollowsCommunicator ==
  (mpiInitialized /\ \A t \in Threads : pc[t] = "idle")
    => currentRank = CommRank[comm]

(* The warning "MPI is enabled but not initialized" is issued only while   *)
(* MPI is not initialised.  (logger_impl.hpp:165.)                         *)
SerialWarningIsTrue ==
  [][\A t \in Threads :
       (pc[t] = "setRank" /\ pc'[t] = "log" /\ ~ mpiInitialized) => ~ mpiUp]_vars

(* A build with PRESSIO_SILENCE_WARNINGS prints no warning.                *)
(* (options.cmake:3, "Enable or disable warnings".)                        *)
SilencedBuildIsSilent == SilenceWarnings => UninitLines("text") = {}

(* Every API call returns, whoever else is in the logger.                  *)
CallsReturn == \A t \in Threads : pc[t] # "idle" ~> pc[t] = "idle"

==============================================================================
