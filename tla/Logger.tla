-------------------------------- MODULE Logger --------------------------------
(***************************************************************************)
(* The logger singleton of one process, called by several threads.         *)
(*                                                                         *)
(* A step of a thread is one access to state other threads can see: an     *)
(* atomic load or store, a plain member read or written, one insertion     *)
(* into a stream, a mutex or once_flag operation.  std::string members     *)
(* are assigned in two steps and hold Torn in between, so an unsynchronised*)
(* reader can see a half-written string; a plain int, enum or bool is      *)
(* written in one step, and the compiler may commute two such writes.      *)
(***************************************************************************)
EXTENDS LogLevels, Sequences

CONSTANTS
  MPIEnabled,   \* the build macro PRESSIO_ENABLE_TPL_MPI
  Threads,      \* the threads of the process
  NoThread,     \* the value of a free mutex
  Program,      \* Program[t][k]: the API calls thread t may make k-th
  Files,        \* file names the program uses
  DefaultFile,  \* "pressio.log"
  Writable,     \* the files that can be opened for appending
  Comms, World, \* MPI communicators of this process, MPI_COMM_WORLD
  CommRank,     \* what MPI_Comm_rank answers in each communicator
  CommSize,     \* what MPI_Comm_size answers
  Blank, Torn   \* the empty rank string; a string seen half-assigned

Ops == {"initialize", "initializeWithMPI", "finalize", "log",
        "setLoggingLevel", "setOutputStream", "setOutputFilename",
        "setLoggingRank", "setCommunicator"}

(* The part of the API that only a build with MPI has.                     *)
MPIOps == {"initializeWithMPI", "setLoggingRank", "setCommunicator"}

(* An API call with its arguments; ok is FALSE when fmt::format would throw *)
(* on the format string and arguments of a log call.                        *)
CallType == [op: Ops, level: Levels, dst: Destinations, file: Files,
             rank: Int, comm: Comms, ok: BOOLEAN]

(* The default arguments of initialize and initializeWithMPI.              *)
Defaults == [op |-> "initialize", level |-> LogLevel.sparse,
             dst |-> LogTo.console, file |-> DefaultFile, rank |-> 0,
             comm |-> World, ok |-> TRUE]

ASSUME LoggerAssumption ==
  /\ NoThread \notin Threads
  /\ MPIEnabled \in BOOLEAN
  /\ Program \in [Threads -> Seq(SUBSET CallType)]
  /\ \A t \in Threads : \A k \in DOMAIN Program[t] : \A c \in Program[t][k] :
       c.op \in MPIOps => MPIEnabled
  /\ DefaultFile \in Files /\ Writable \subseteq Files
  /\ World \in Comms
  /\ CommRank \in [Comms -> Nat] /\ CommSize \in [Comms -> Nat \ {0}]
  /\ \A c \in Comms : CommRank[c] < CommSize[c]
  /\ Blank \notin Int /\ Torn \notin Int /\ Torn # Blank
  /\ Torn \notin Files

Paths    == Files \cup {Torn}
RankStrs == Int \cup {Blank, Torn}
Pieces   == [by: Threads, n: Nat, kind: {"uninit", "log"},
             prefix: RankStrs, part: {"text", "end"}]

VARIABLES
  initialized,             \* logger_is_initialized_, atomic
  initFlag, warnFlag,      \* the two once_flags: "fresh", "active", "done"
  loggingLevel, dst, shouldWrite, shouldLog, logFile,
  loggingRank, currentRank, rankStr, mpiInitialized, comm,
  mutex,                   \* mutex_: the thread that holds it
  console, files,          \* what reached std::cout and each file
  mpiUp,                   \* external: MPI_Init has been called
  pc, call, frame,         \* a thread's position, call and log() locals
  made                     \* number of calls a thread has made

once    == <<initialized, initFlag, warnFlag>>
output  == <<dst, shouldWrite, shouldLog>>
config  == <<loggingLevel, output, logFile>>
ranks   == <<loggingRank, currentRank, rankStr, mpiInitialized, comm>>
sinks   == <<console, files>>
control == <<call, frame, made>>
vars    == <<once, config, ranks, mutex, sinks, mpiUp, pc, control>>

Init ==
  /\ initialized = FALSE /\ initFlag = "fresh" /\ warnFlag = "fresh"
  /\ loggingLevel = LogLevel.none
  /\ dst = LogTo.console /\ shouldWrite = FALSE /\ shouldLog = TRUE
  /\ logFile = DefaultFile
  /\ loggingRank = 0 /\ currentRank = 0 /\ rankStr = Blank
  /\ mpiInitialized = FALSE /\ comm = World
  /\ mutex = NoThread
  /\ console = <<>> /\ files = [f \in Paths |-> <<>>]
  /\ mpiUp = FALSE
  /\ pc = [t \in Threads |-> "idle"]
  /\ call = [t \in Threads |-> Defaults]
  /\ frame = [t \in Threads |-> [n |-> 0, level |-> LogLevel.none, rank |-> 0,
                prefix |-> Blank, path |-> DefaultFile, resume |-> "idle"]]
  /\ made = [t \in Threads |-> 0]

-----------------------------------------------------------------------------
(* Control flow of a thread *)

Step(t, from, to) == pc[t] = from /\ pc' = [pc EXCEPT ![t] = to]

Initializing(t) == call[t].op \in {"initialize", "initializeWithMPI"}

(* Where log() resumes when it returns without having written anything.    *)
Return(t, from) == Step(t, from, frame[t].resume)

(* Enter log(): the line gets the identity <<t, n>>.                       *)
BeginLog(t, from, level, resume) ==
  /\ Step(t, from, "log")
  /\ frame' = [frame EXCEPT ![t].n = @ + 1, ![t].level = level,
                            ![t].resume = resume]
  /\ UNCHANGED <<call, made>>

(* The program calls the API through one of the macros of core.hpp.        *)
Call(t) ==
  /\ made[t] < Len(Program[t])
  /\ \E c \in Program[t][made[t] + 1] :
       /\ call' = [call EXCEPT ![t] = c]
       /\ Step(t, "idle",
            CASE c.op = "initialize"        -> "initOnce"
              [] c.op = "initializeWithMPI" -> "mpiFlag"
              [] c.op = "finalize"          -> "finalize"
              [] c.op = "log"               -> "format"
              [] c.op = "setLoggingLevel"   -> "level"
              [] c.op = "setOutputStream"   -> "dst"
              [] c.op = "setOutputFilename" -> "file"
              [] c.op = "setLoggingRank"    -> "setRank"
              [] c.op = "setCommunicator"   -> "setComm")
  /\ made' = [made EXCEPT ![t] = @ + 1]
  /\ UNCHANGED <<once, config, ranks, mutex, sinks, mpiUp, frame>>

(* External: the program initialises MPI, before or after the logger.      *)
MPI_Init ==
  /\ MPIEnabled /\ ~ mpiUp /\ mpiUp' = TRUE
  /\ UNCHANGED <<once, config, ranks, mutex, sinks, pc, control>>

-----------------------------------------------------------------------------
(* initializeWithMPI, updateCurrentRank_, formatRankString_ *)

ReadMpiFlag(t) ==
  /\ Step(t, "mpiFlag", IF mpiUp THEN "currentRank" ELSE "setRank")
  /\ mpiInitialized' = mpiUp
  /\ UNCHANGED <<once, config, loggingRank, currentRank, rankStr, comm, mutex,
                 sinks, mpiUp, control>>

UpdateCurrentRank(t) ==
  /\ Step(t, "currentRank", "rankStr")
  /\ currentRank' = CommRank[comm]
  /\ UNCHANGED <<once, config, loggingRank, rankStr, mpiInitialized, comm,
                 mutex, sinks, mpiUp, control>>

FormatRankString(t, begin, end, next) ==
  /\ \/ Step(t, begin, end) /\ rankStr' = Torn
     \/ Step(t, end, next)  /\ rankStr' = currentRank
  /\ UNCHANGED <<once, config, loggingRank, currentRank, mpiInitialized, comm,
                 mutex, sinks, mpiUp, control>>

AfterSetRank(t) == IF Initializing(t) THEN "setComm" ELSE "idle"

(* Mutant: a rank equal to the size of the communicator is let through.    *)
CheckLoggingRankOffByOne(t) ==
  /\ \/ mpiInitialized /\ Step(t, "setRank",
          IF call[t].rank > CommSize[comm] THEN AfterSetRank(t) ELSE "storeRank")
     \/ ~ mpiInitialized /\ Step(t, "setRank", AfterSetRank(t))
  /\ UNCHANGED <<once, config, ranks, mutex, sinks, mpiUp, control>>

(* setLoggingRank: a rank too large for the communicator is refused with a *)
(* warning, but only once the logger is initialised; a negative one is not.*)
(* The loads of the test are one step, the store is another.               *)
CheckLoggingRank(t) ==
  /\ LET refused == mpiInitialized => call[t].rank > CommSize[comm] - 1
     IN  \/ /\ refused /\ initialized
            /\ BeginLog(t, "setRank", LogLevel.warning, AfterSetRank(t))
         \/ /\ mpiInitialized /\ ~ (refused /\ initialized)
            /\ Step(t, "setRank", "storeRank") /\ UNCHANGED control
         \/ /\ ~ mpiInitialized /\ ~ initialized
            /\ Step(t, "setRank", AfterSetRank(t)) /\ UNCHANGED control
  /\ UNCHANGED <<once, config, ranks, mutex, sinks, mpiUp>>

StoreLoggingRank(t) ==
  /\ Step(t, "storeRank", AfterSetRank(t))
  /\ loggingRank' = call[t].rank
  /\ UNCHANGED <<once, config, currentRank, rankStr, mpiInitialized, comm,
                 mutex, sinks, mpiUp, control>>

SetCommunicator(t) ==
  /\ Step(t, "setComm", IF Initializing(t) THEN "initOnce" ELSE "idle")
  /\ comm' = call[t].comm
  /\ UNCHANGED <<once, config, loggingRank, currentRank, rankStr,
                 mpiInitialized, mutex, sinks, mpiUp, control>>

-----------------------------------------------------------------------------
(* initialize: the body of call_once(init_flag_), made of the setters *)

(* Mutant: the body runs for every caller.                                 *)
EnterInitAlways(t) ==
  /\ initFlag' = "active" /\ Step(t, "initOnce", "level")
  /\ UNCHANGED <<initialized, warnFlag, config, ranks, mutex, sinks, mpiUp,
                 control>>

EnterInitOnce(t) ==
  /\ \/ /\ initFlag = "fresh" /\ initFlag' = "active"
        /\ Step(t, "initOnce", "level")
     \/ /\ initFlag = "done" /\ UNCHANGED initFlag
        /\ Step(t, "initOnce", "announce")
  /\ UNCHANGED <<initialized, warnFlag, config, ranks, mutex, sinks, mpiUp,
                 control>>

SetLoggingLevel(t) ==
  /\ Step(t, "level", IF Initializing(t) THEN "dst" ELSE "idle")
  /\ loggingLevel' = call[t].level
  /\ UNCHANGED <<once, output, logFile, ranks, mutex, sinks, mpiUp, control>>

(* Mutant: the two enumerations are mixed up.                              *)
SetOutputStreamMixedUp(t) ==
  /\ Step(t, "dst", "bools")
  /\ dst' = call[t].level
  /\ UNCHANGED <<once, loggingLevel, shouldWrite, shouldLog, logFile, ranks,
                 mutex, sinks, mpiUp, control>>

SetOutputStream(t) ==
  /\ Step(t, "dst", "bools")
  /\ dst' = call[t].dst
  /\ UNCHANGED <<once, loggingLevel, shouldWrite, shouldLog, logFile, ranks,
                 mutex, sinks, mpiUp, control>>

(* setDestinationBools_: dst_ is either read again or the value just stored *)
(* is reused, and the two stores may be emitted in either order.            *)
SetDestinationBools(t) ==
  /\ \E d \in {dst, call[t].dst} :
       \/ /\ \/ Step(t, "bools", "boolLog")
             \/ Step(t, "boolWrite", IF Initializing(t) THEN "file" ELSE "idle")
          /\ shouldWrite' = ShouldWrite(d) /\ UNCHANGED shouldLog
       \/ /\ \/ Step(t, "bools", "boolWrite")
             \/ Step(t, "boolLog", IF Initializing(t) THEN "file" ELSE "idle")
          /\ shouldLog' = ShouldLog(d) /\ UNCHANGED shouldWrite
  /\ UNCHANGED <<once, loggingLevel, dst, logFile, ranks, mutex, sinks, mpiUp,
                 control>>

(* Mutant: initialize forgets formatRankString_.                           *)
SetOutputFilenameUnranked(t) ==
  /\ Step(t, "file", IF Initializing(t) THEN "publish" ELSE "idle")
  /\ logFile' = call[t].file
  /\ UNCHANGED <<once, loggingLevel, output, ranks, mutex, sinks, mpiUp,
                 control>>

SetOutputFilename(t) ==
  /\ \/ Step(t, "file", "fileEnd") /\ logFile' = Torn
     \/ /\ Step(t, "fileEnd", IF Initializing(t) THEN "initStr" ELSE "idle")
        /\ logFile' = call[t].file
  /\ UNCHANGED <<once, loggingLevel, output, ranks, mutex, sinks, mpiUp,
                 control>>

(* Mutant: the once_flag is left active.                                   *)
PublishForever(t) ==
  /\ Step(t, "publish", "announce")
  /\ initialized' = TRUE
  /\ UNCHANGED <<initFlag, warnFlag, config, ranks, mutex, sinks, mpiUp, control>>

(* The release store of logger_is_initialized_ and the end of call_once.   *)
Publish(t) ==
  /\ Step(t, "publish", "announce")
  /\ initialized' = TRUE /\ initFlag' = "done"
  /\ UNCHANGED <<warnFlag, config, ranks, mutex, sinks, mpiUp, control>>

(* The messages "pressio-log initialized." and "pressio-log finalized."    *)
Announce(t) ==
  /\ \/ /\ initialized
        /\ BeginLog(t, "announce", LogLevel.info, "idle")
     \/ BeginLog(t, "finalize", LogLevel.info, "idle")
  /\ UNCHANGED <<once, config, ranks, mutex, sinks, mpiUp>>

-----------------------------------------------------------------------------
(* log *)

(* The variadic overload formats first and throws to its caller when the   *)
(* format string does not fit, whatever the state and level of the logger. *)
Format(t) ==
  /\ \/ call[t].ok /\ BeginLog(t, "format", call[t].level, "idle")
     \/ ~ call[t].ok /\ Step(t, "format", "idle") /\ UNCHANGED control
  /\ UNCHANGED <<once, config, ranks, mutex, sinks, mpiUp>>

Log(t) ==
  /\ Step(t, "log", IF initialized THEN "loadRank" ELSE "warnOnce")
  /\ UNCHANGED <<once, config, ranks, mutex, sinks, mpiUp, control>>

(* Mutants: every refused call warns; a second caller does not wait.       *)
EnterWarnAlways(t) ==
  /\ warnFlag' = "active" /\ Step(t, "warnOnce", "warnText")
  /\ UNCHANGED <<initialized, initFlag, config, ranks, mutex, sinks, mpiUp,
                 control>>
EnterWarnNoWait(t) ==
  /\ \/ warnFlag = "fresh" /\ Step(t, "warnOnce", "warnText")
     \/ warnFlag # "fresh" /\ Return(t, "warnOnce")
  /\ warnFlag' = IF warnFlag = "fresh" THEN "active" ELSE warnFlag
  /\ UNCHANGED <<initialized, initFlag, config, ranks, mutex, sinks, mpiUp,
                 control>>

(* print_(formatWarning_(...)) under call_once(init_warning_flag_): no lock,*)
(* no destination switch, no rank prefix.  A second caller waits for the    *)
(* first to finish.                                                         *)
EnterWarnOnce(t) ==
  /\ \/ /\ warnFlag = "fresh" /\ warnFlag' = "active"
        /\ Step(t, "warnOnce", "warnText")
     \/ warnFlag = "done" /\ UNCHANGED warnFlag /\ Return(t, "warnOnce")
  /\ UNCHANGED <<initialized, initFlag, config, ranks, mutex, sinks, mpiUp,
                 control>>

Piece(t, kind, part) ==
  [by |-> t, n |-> frame[t].n, kind |-> kind, part |-> part,
   prefix |-> IF kind = "uninit" THEN Blank ELSE frame[t].prefix]

PrintUninitialized(t) ==
  /\ \/ /\ Step(t, "warnText", "warnEnd")
        /\ console' = Append(console, Piece(t, "uninit", "text"))
        /\ UNCHANGED warnFlag
     \/ /\ Return(t, "warnEnd")
        /\ console' = Append(console, Piece(t, "uninit", "end"))
        /\ warnFlag' = "done"
  /\ UNCHANGED <<initialized, initFlag, config, ranks, mutex, files, mpiUp,
                 control>>

(* current_rank_ == logging_rank_, one load after the other.               *)
LoadRank(t) ==
  /\ Step(t, "loadRank", "compareRank")
  /\ frame' = [frame EXCEPT ![t].rank = currentRank]
  /\ UNCHANGED <<once, config, ranks, mutex, sinks, mpiUp, call, made>>

(* Mutant: every rank logs.                                                *)
CompareRankNever(t) ==
  /\ Step(t, "compareRank", "filter")
  /\ UNCHANGED <<once, config, ranks, mutex, sinks, mpiUp, control>>

CompareRank(t) ==
  /\ \/ frame[t].rank = loggingRank /\ Step(t, "compareRank", "filter")
     \/ frame[t].rank # loggingRank /\ Return(t, "compareRank")
  /\ UNCHANGED <<once, config, ranks, mutex, sinks, mpiUp, control>>

FilterLevel(t) ==
  /\ \/ /\ Passes(frame[t].level, loggingLevel)
        /\ Step(t, "filter", "prefix")
     \/ ~ Passes(frame[t].level, loggingLevel) /\ Return(t, "filter")
  /\ UNCHANGED <<once, config, ranks, mutex, sinks, mpiUp, control>>

-----------------------------------------------------------------------------
(* log_, print_, write_ *)

(* out_str is built before the lock is taken.                              *)
CopyRankString(t) ==
  /\ Step(t, "prefix", "lock")
  /\ frame' = [frame EXCEPT ![t].prefix = rankStr]
  /\ UNCHANGED <<once, config, ranks, mutex, sinks, mpiUp, call, made>>

(* Mutant: no lock_guard.                                                  *)
LockNothing(t) ==
  /\ Step(t, "lock", "shouldLog")
  /\ UNCHANGED <<once, config, ranks, mutex, sinks, mpiUp, control>>

Lock(t) ==
  /\ mutex = NoThread /\ mutex' = t
  /\ Step(t, "lock", "shouldLog")
  /\ UNCHANGED <<once, config, ranks, sinks, mpiUp, control>>

TestShouldLog(t) ==
  /\ Step(t, "shouldLog", IF shouldLog THEN "printText" ELSE "shouldWrite")
  /\ UNCHANGED <<once, config, ranks, mutex, sinks, mpiUp, control>>

(* Mutant: the lock_guard guards print_ only.                              *)
PrintLineUnlocks(t) ==
  /\ \/ /\ Step(t, "printText", "printEnd") /\ UNCHANGED mutex
        /\ console' = Append(console, Piece(t, "log", "text"))
     \/ /\ Step(t, "printEnd", "shouldWrite") /\ mutex' = NoThread
        /\ console' = Append(console, Piece(t, "log", "end"))
  /\ UNCHANGED <<once, config, ranks, files, mpiUp, control>>

PrintLine(t) ==
  /\ \/ /\ Step(t, "printText", "printEnd")
        /\ console' = Append(console, Piece(t, "log", "text"))
     \/ /\ Step(t, "printEnd", "shouldWrite")
        /\ console' = Append(console, Piece(t, "log", "end"))
  /\ UNCHANGED <<once, config, ranks, mutex, files, mpiUp, control>>

TestShouldWrite(t) ==
  /\ Step(t, "shouldWrite", IF shouldWrite THEN "open" ELSE "unlock")
  /\ UNCHANGED <<once, config, ranks, mutex, sinks, mpiUp, control>>

(* A fresh ofstream per message; an open that fails drops it silently.  A  *)
(* name read half-assigned opens a file nobody named.                      *)
OpenFile(t) ==
  /\ Step(t, "open",
       IF logFile \in Writable \cup {Torn} THEN "writeText" ELSE "unlock")
  /\ frame' = [frame EXCEPT ![t].path = logFile]
  /\ UNCHANGED <<once, config, ranks, mutex, sinks, mpiUp, call, made>>

WriteFile(t) ==
  /\ \E part \in {"text", "end"} :
       /\ IF part = "text" THEN Step(t, "writeText", "writeEnd")
                           ELSE Step(t, "writeEnd", "unlock")
       /\ files' = [files EXCEPT ![frame[t].path] =
                      Append(@, Piece(t, "log", part))]
  /\ UNCHANGED <<once, config, ranks, mutex, console, mpiUp, control>>

Unlock(t) ==
  /\ Return(t, "unlock")
  /\ mutex' = NoThread
  /\ UNCHANGED <<once, config, ranks, sinks, mpiUp, control>>

-----------------------------------------------------------------------------
Configure(t) ==
  \/ ReadMpiFlag(t) \/ UpdateCurrentRank(t)
  \/ FormatRankString(t, "rankStr", "rankStrEnd", "setRank")
  \/ CheckLoggingRank(t) \/ StoreLoggingRank(t) \/ SetCommunicator(t)
  \/ EnterInitOnce(t) \/ SetLoggingLevel(t) \/ SetOutputStream(t)
  \/ SetDestinationBools(t) \/ SetOutputFilename(t)
  \/ FormatRankString(t, "initStr", "initStrEnd", "publish")
  \/ Publish(t) \/ Announce(t)

Emit(t) ==
  \/ Format(t) \/ Log(t) \/ EnterWarnOnce(t) \/ PrintUninitialized(t)
  \/ LoadRank(t) \/ CompareRank(t) \/ FilterLevel(t) \/ CopyRankString(t)
  \/ Lock(t) \/ TestShouldLog(t) \/ PrintLine(t) \/ TestShouldWrite(t)
  \/ OpenFile(t) \/ WriteFile(t) \/ Unlock(t)

(* Every thread has made all its calls: the program may stop.              *)
Done ==
  /\ \A t \in Threads : pc[t] = "idle" /\ made[t] = Len(Program[t])
  /\ UNCHANGED vars

Next == MPI_Init \/ Done \/ \E t \in Threads : Call(t) \/ Configure(t) \/ Emit(t)

Spec == Init /\ [][Next]_vars

(* A thread inside the logger keeps running: the logger has no wait of its *)
(* own besides the mutex and the two once_flags.                           *)
Fairness == \A t \in Threads : WF_vars(Configure(t) \/ Emit(t))
FairSpec == Spec /\ Fairness

-----------------------------------------------------------------------------
Positions ==
  {"idle", "mpiFlag", "currentRank", "rankStr", "rankStrEnd", "setRank",
   "storeRank", "setComm", "initOnce", "level", "dst", "bools", "boolLog",
   "boolWrite", "file", "fileEnd", "initStr", "initStrEnd", "publish",
   "announce", "finalize", "format", "log", "warnOnce", "warnText", "warnEnd",
   "loadRank", "compareRank", "filter", "prefix", "lock", "shouldLog",
   "printText", "printEnd", "shouldWrite", "open", "writeText", "writeEnd",
   "unlock"}

FrameType == [n: Nat, level: Levels, rank: Int, prefix: RankStrs,
              path: Paths, resume: {"idle", "setComm"}]

(* Every member of the logger and every local of a call keeps its type.    *)
TypeOK ==
  /\ initialized \in BOOLEAN
  /\ initFlag \in {"fresh", "active", "done"}
  /\ warnFlag \in {"fresh", "active", "done"}
  /\ loggingLevel \in Levels /\ dst \in Destinations
  /\ shouldWrite \in BOOLEAN /\ shouldLog \in BOOLEAN
  /\ logFile \in Paths
  /\ loggingRank \in Int /\ currentRank \in Int /\ rankStr \in RankStrs
  /\ mpiInitialized \in BOOLEAN /\ comm \in Comms
  /\ mutex \in Threads \cup {NoThread}
  /\ console \in Seq(Pieces) /\ files \in [Paths -> Seq(Pieces)]
  /\ mpiUp \in BOOLEAN
  /\ pc \in [Threads -> Positions] /\ call \in [Threads -> CallType]
  /\ frame \in [Threads -> FrameType] /\ made \in [Threads -> Nat]

==============================================================================
