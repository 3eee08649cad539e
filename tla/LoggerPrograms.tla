---------------------------- MODULE LoggerPrograms ----------------------------
(***************************************************************************)
(* Small instances of Logger for TLC: two threads, two file names, the     *)
(* process with rank 1 of a world of two, and the programs they run.       *)
(***************************************************************************)
EXTENDS Logger

CONSTANTS main, worker   \* the threads of the instances

MCComms    == {"world", "self"}
MCCommRank == [c \in MCComms |-> IF c = "world" THEN 1 ELSE 0]
MCCommSize == [c \in MCComms |-> IF c = "world" THEN 2 ELSE 1]

InitCall(level, to, file) ==
  [Defaults EXCEPT !.level = level, !.dst = to, !.file = file]
MPIInitCall(to, rank, c) ==
  [Defaults EXCEPT !.op = "initializeWithMPI", !.level = LogLevel.info,
                   !.dst = to, !.rank = rank, !.comm = c]
LogCall(level)   == [Defaults EXCEPT !.op = "log", !.level = level]
BadFormat        == [LogCall(LogLevel.error) EXCEPT !.ok = FALSE]
FinalizeCall     == [Defaults EXCEPT !.op = "finalize"]
LevelCall(level) == [Defaults EXCEPT !.op = "setLoggingLevel", !.level = level]
StreamCall(to)   == [Defaults EXCEPT !.op = "setOutputStream", !.dst = to]
FileCall(file)   == [Defaults EXCEPT !.op = "setOutputFilename", !.file = file]
RankCall(rank)   == [Defaults EXCEPT !.op = "setLoggingRank", !.rank = rank]
CommCall(c)      == [Defaults EXCEPT !.op = "setCommunicator", !.comm = c]

(* Any thread may be the first to use, to initialise or to finalise.       *)
SerialChoice ==
  {InitCall(LogLevel.info, LogTo.both, "run.log"),
   InitCall(LogLevel.error, LogTo.file, "pressio.log"),
   LogCall(LogLevel.error), BadFormat, FinalizeCall}
SerialProgram == [t \in {main, worker} |-> <<SerialChoice, SerialChoice>>]

(* One thread initialises the logger and then reconfigures the running     *)
(* logger, by a setter or by a second initialisation that asks for another *)
(* output and another rank, below, inside or above the world; the other    *)
(* thread logs, or changes the communicator or the rank before it logs.    *)
Ranks == -1 .. 2
ReconfigureProgram ==
  [t \in {main, worker} |->
     IF t = main
     THEN <<{MPIInitCall(LogTo.both, rank, "world") : rank \in {0, 1}},
            {[MPIInitCall(LogTo.file, rank, c) EXCEPT !.level = LogLevel.debug]
               : rank \in Ranks, c \in MCComms}
              \cup {RankCall(rank) : rank \in Ranks}
              \cup {StreamCall(to) : to \in Destinations}
              \cup {LevelCall(LogLevel.none), FileCall("run.log"),
                    LevelCall(LogLevel.debug)}>>
     ELSE <<{LogCall(level) : level \in Levels} \cup {CommCall("self"), RankCall(0)},
            {LogCall(LogLevel.warning)}>>]

(* The output stream alone.                                                *)
SwitchProgram ==
  [t \in {main, worker} |->
     IF t = main
     THEN <<{InitCall(LogLevel.info, LogTo.file, "pressio.log")},
            {StreamCall(LogTo.console)}>>
     ELSE <<{LogCall(LogLevel.info)}>>]

(* Both threads choose the output stream.                                  *)
StreamsProgram ==
  [t \in {main, worker} |->
     <<{StreamCall(IF t = main THEN LogTo.console ELSE LogTo.file)}>>]

(* MPI: one thread starts the logger and retargets it twice; the other one *)
(* logs, retargets it as well or changes the communicator.                 *)
MPIProgram ==
  [t \in {main, worker} |->
     IF t = main
     THEN <<{MPIInitCall(LogTo.console, rank, "world") : rank \in Ranks},
            {RankCall(rank) : rank \in Ranks} \cup {CommCall("self")},
            {RankCall(rank) : rank \in {0, 1}}>>
     ELSE <<{LogCall(LogLevel.error), FinalizeCall, CommCall("self"),
             RankCall(0), RankCall(1), RankCall(2)}>>]

(* Messages for the root of another communicator than the world.            *)
CommProgram ==
  [t \in {main} |-> <<{MPIInitCall(LogTo.console, 0, "self")}>>]

==============================================================================
