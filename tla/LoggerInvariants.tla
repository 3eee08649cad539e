--------------------------- MODULE LoggerInvariants ---------------------------
(***************************************************************************)
(* The inductive invariants from which the safety properties of            *)
(* LoggerProperties follow.                                                *)
(***************************************************************************)
EXTENDS LoggerProperties

(* mutex_ is held by the thread inside the critical section of log_, and by*)
(* nobody when there is none.                                              *)
LockInv == \A t \in Threads : pc[t] \in Locked <=> mutex = t

(* Every line whose text is in s is closed, except those in open: the line *)
(* of the thread that stands between the text and the end of its insertion.*)
Closed(s, i) == \E k \in DOMAIN s : k > i /\ s[k] = [s[i] EXCEPT !.part = "end"]
Tidy(s, open) ==
  /\ Whole(s)
  /\ \A i \in Logged(s) \cap On(s, "text") : Closed(s, i) \/ s[i] \in open
Printing == {t \in Threads : pc[t] = "printEnd"}
Writing(f) == {t \in Threads : pc[t] = "writeEnd" /\ frame[t].path = f}
LinesOf(T) == {Piece(t, "log", "text") : t \in T}
WholeInv ==
  /\ Tidy(console, LinesOf(Printing))
  /\ \A f \in Paths : Tidy(files[f], LinesOf(Writing(f)))

(* The warning is on the console as far as the once_flag and the one thread*)
(* inside call_once say.                                                   *)
Warning(t) == pc[t] \in {"warnText", "warnEnd"}
WarnInv ==
  /\ \A t \in Threads : Warning(t) => warnFlag = "active"
  /\ \A t, u \in Threads : Warning(t) /\ Warning(u) => t = u
  /\ warnFlag = "fresh" => UninitLines("text") = {}
  /\ \A t \in Threads : pc[t] = "warnText" => UninitLines("text") = {}
  /\ \A t \in Threads : pc[t] = "warnEnd" => UninitLines("text") # {}
  /\ warnFlag = "done" => UninitLines("text") # {} /\ UninitLines("end") # {}
  /\ WarnsAtMostOnce

(* Start-up.  A program that leaves the configuration to initialize.       *)
Setters == {"setLoggingLevel", "setOutputStream", "setOutputFilename"}
NoSetters ==
  \A t \in Threads : \A k \in DOMAIN Program[t] : \A c \in Program[t][k] :
    c.op \notin Setters

(* The body of call_once(init_flag_), in the order it runs; the two output *)
(* switches may be stored in either order.                                 *)
Body == {"level", "dst", "bools", "boolLog", "boolWrite", "file", "fileEnd",
         "initStr", "initStrEnd", "publish"}
Assigned(t) ==
  /\ pc[t] # "level" => loggingLevel = call[t].level
  /\ pc[t] \notin {"level", "dst"} => dst = call[t].dst
  /\ pc[t] \notin {"level", "dst", "bools", "boolWrite"} =>
       shouldWrite = ShouldWrite(call[t].dst)
  /\ pc[t] \notin {"level", "dst", "bools", "boolLog"} =>
       shouldLog = ShouldLog(call[t].dst)
  /\ pc[t] \in {"initStr", "initStrEnd", "publish"} => logFile = call[t].file

(* One thread at most is in the body, the members it has passed hold its   *)
(* arguments, and the logger is published when the once_flag is done.      *)
StartInv ==
  /\ \A t \in Threads : pc[t] # "idle" =>
       \E k \in DOMAIN Program[t] : call[t] \in Program[t][k]
  /\ \A t \in Threads : pc[t] \in Body \cup {"initOnce"} => Initializing(t)
  /\ \A t \in Threads : pc[t] \in Body => initFlag = "active" /\ Assigned(t)
  /\ \A t, u \in Threads : pc[t] \in Body /\ pc[u] \in Body => t = u
  /\ initialized <=> initFlag = "done"
  /\ ConfigFromOneCall

(* In a build without MPI: who got past the test of the initialised flag   *)
(* sees whole strings.                                                     *)
MPIPositions == {"mpiFlag", "currentRank", "rankStr", "rankStrEnd", "setRank",
                 "storeRank", "setComm"}
Running == Locked \cup {"loadRank", "compareRank", "filter", "prefix", "lock"}
PublishInv ==
  /\ initialized => rankStr \notin {Blank, Torn} /\ logFile # Torn
  /\ \A t \in Threads : pc[t] = "publish" => rankStr \notin {Blank, Torn}
  /\ \A t \in Threads : pc[t] \in Running => initialized
  /\ \A t \in Threads : pc[t] \in Locked \cup {"lock"} =>
       frame[t].prefix \notin {Blank, Torn}
  /\ \A t \in Threads : pc[t] \in {"writeText", "writeEnd"} => frame[t].path # Torn
  /\ \A t \in Threads : pc[t] \notin MPIPositions /\ frame[t].resume = "idle"
  /\ NoTornOutput

(* A program in which m alone configures the logger; the other threads log *)
(* and finalize.                                                           *)
Configures(m) ==
  \A t \in Threads \ {m} : \A k \in DOMAIN Program[t] : \A c \in Program[t][k] :
    c.op \in {"log", "finalize"}

(* The positions inside log, and those a call of log or finalize begins at. *)
LoggingPositions ==
  {"idle", "format", "finalize", "log", "warnOnce", "warnText", "warnEnd",
   "loadRank", "compareRank", "filter", "prefix", "lock"} \cup Locked

(* The other threads stay inside log.                                      *)
OnlyLogging(m) ==
  \A t \in Threads \ {m} :
    pc[t] \in LoggingPositions /\ frame[t].resume = "idle"

==============================================================================
