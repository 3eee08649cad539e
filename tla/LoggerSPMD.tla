------------------------------ MODULE LoggerSPMD ------------------------------
(***************************************************************************)
(* The processes of an MPI program, each with a logger of its own, running *)
(* the same statements and appending to the same file.  A statement is one *)
(* call of the API (or of MPI); within a process the calls are sequential, *)
(* so a call is one action, followed by the writes it leaves in the queue. *)
(***************************************************************************)
EXTENDS LogLevels, Sequences, FiniteSets

CONSTANTS
  Procs,      \* the processes; a process is its rank in World
  Programs,   \* the sequences of statements one of which they all run
  Comms, World,
  Part,       \* Part[c][p]: the processes that share p's part of c
  CommRank, CommSize,   \* CommRank[c][p], CommSize[c][p]: p's view of c
  Long        \* the levels whose messages do not fit the ofstream's buffer

(* The statements that the model knows, with their arguments.              *)
Statements ==
  [op: {"MPI_Init", "MPI_Finalize", "MPI_Barrier"}]
  \cup [op: {"initializeWithMPI"}, rank: Int, comm: Comms, level: Levels,
        dst: Destinations]
  \cup [op: {"log"}, level: Levels]
  \cup [op: {"setLoggingRank"}, rank: Int]
  \cup [op: {"setCommunicator"}, comm: Comms]

ASSUME SPMDAssumption ==
  /\ World \in Comms /\ Long \subseteq Levels
  /\ \A q \in Programs : q \in Seq(Statements)
  /\ CommRank \in [Comms -> [Procs -> Nat]]
  /\ \A p \in Procs : CommRank[World][p] = p
  /\ CommSize \in [Comms -> [Procs -> Nat \ {0}]]
  /\ \A c \in Comms, p \in Procs : CommRank[c][p] < CommSize[c][p]
  /\ Part \in [Comms -> [Procs -> SUBSET Procs]]
  /\ \A p \in Procs : Part[World][p] = Procs
  /\ \A c \in Comms, p \in Procs : \A r \in Part[c][p] :
       /\ Part[c][r] = Part[c][p] /\ CommSize[c][r] = CommSize[c][p]
       /\ CommRank[c][r] = CommRank[c][p] => r = p
  /\ \A c \in Comms, p \in Procs : p \in Part[c][p]

VARIABLES
  program,   \* what every process runs
  at,        \* at[p]: the number of statements p has begun
  alive,     \* the processes that have not aborted
  mpi,       \* mpi[p]: "down", "up" or "ended"
  logger,    \* logger[p]: the members of p's Logger
  queue,     \* queue[p]: the insertions p's call has still to make
  file,      \* the file all processes append to
  used       \* used: in which states of MPI an MPI_Comm_ function was called

vars == <<program, at, alive, mpi, logger, queue, file, used>>

Init ==
  /\ program \in Programs /\ alive = Procs /\ file = <<>> /\ used = {}
  /\ at = [p \in Procs |-> 0]
  /\ mpi = [p \in Procs |-> "down"]
  /\ queue = [p \in Procs |-> <<>>]
  /\ logger = [p \in Procs |->
       [initialized |-> FALSE, level |-> LogLevel.none, dst |-> LogTo.console,
        loggingRank |-> 0, currentRank |-> 0, mpiInitialized |-> FALSE,
        comm |-> World]]

Statement(p) == program[at[p] + 1]

Begin(p, op) ==
  /\ p \in alive /\ at[p] < Len(program) /\ queue[p] = <<>>
  /\ Statement(p).op = op /\ at' = [at EXCEPT ![p] = @ + 1]

Piece(p, part) == [proc |-> p, stmt |-> at[p] + 1, part |-> part]

(* write_: one insertion, or two when the message bypasses the buffer.     *)
Line(p, level) ==
  IF level \in Long THEN <<Piece(p, "text"), Piece(p, "end")>>
                    ELSE <<Piece(p, "line")>>

(* What log() of a logger with the members l sends to the file.            *)
Emitted(p, l, level) ==
  IF /\ l.initialized /\ l.currentRank = l.loggingRank
     /\ Passes(level, l.level) /\ ShouldWrite(l.dst)
  THEN Line(p, level) ELSE <<>>

(* updateCurrentRank_: in the communicator of before the call.             *)
WithCurrentRank(p, l) ==
  IF l.mpiInitialized THEN [l EXCEPT !.currentRank = CommRank[l.comm][p]] ELSE l

(* setLoggingRank: refused with a warning only by an initialised logger.   *)
Refused(p, l, rank) ==
  l.mpiInitialized /\ rank > CommSize[l.comm][p] - 1 /\ l.initialized
WithLoggingRank(p, l, rank) ==
  IF l.mpiInitialized /\ ~ Refused(p, l, rank)
  THEN [l EXCEPT !.loggingRank = rank] ELSE l
RankWarning(p, l, rank) ==
  IF l.initialized /\ (~ l.mpiInitialized \/ Refused(p, l, rank))
  THEN Emitted(p, l, LogLevel.warning) ELSE <<>>

(* initialize: only the first call configures the logger.                  *)
Initialized(l, s) ==
  IF l.initialized THEN l
  ELSE [l EXCEPT !.initialized = TRUE, !.level = s.level, !.dst = s.dst]

MPICalls(p, l) == IF l.mpiInitialized THEN {mpi[p]} ELSE {}

(* Mutant: the rank is computed before MPI is asked whether it is up.      *)
InitializeWithMPIFlagLate(p) ==
  /\ Begin(p, "initializeWithMPI")
  /\ LET s  == Statement(p)
         l1 == [WithCurrentRank(p, logger[p]) EXCEPT
                  !.mpiInitialized = mpi[p] # "down"]
         l2 == [WithLoggingRank(p, l1, s.rank) EXCEPT !.comm = s.comm]
         l3 == Initialized(l2, s)
     IN  /\ logger' = [logger EXCEPT ![p] = l3]
         /\ queue' = [queue EXCEPT ![p] = RankWarning(p, l1, s.rank)
                                          \o Emitted(p, l3, LogLevel.info)]
         /\ used' = used \cup MPICalls(p, l1)
  /\ UNCHANGED <<program, alive, mpi, file>>

InitializeWithMPI(p) ==
  /\ Begin(p, "initializeWithMPI")
  /\ LET s  == Statement(p)
         l0 == [logger[p] EXCEPT !.mpiInitialized = mpi[p] # "down"]
         l1 == WithCurrentRank(p, l0)
         l2 == [WithLoggingRank(p, l1, s.rank) EXCEPT !.comm = s.comm]
         l3 == Initialized(l2, s)
     IN  /\ logger' = [logger EXCEPT ![p] = l3]
         /\ queue' = [queue EXCEPT ![p] = RankWarning(p, l1, s.rank)
                                          \o Emitted(p, l3, LogLevel.info)]
         /\ used' = used \cup MPICalls(p, l0)
  /\ UNCHANGED <<program, alive, mpi, file>>

SetLoggingRank(p) ==
  /\ Begin(p, "setLoggingRank")
  /\ LET l == logger[p]
     IN  /\ logger' = [logger EXCEPT ![p] =
                         WithLoggingRank(p, l, Statement(p).rank)]
         /\ queue' = [queue EXCEPT ![p] = RankWarning(p, l, Statement(p).rank)]
         /\ used' = used \cup MPICalls(p, l)
  /\ UNCHANGED <<program, alive, mpi, file>>

SetCommunicator(p) ==
  /\ Begin(p, "setCommunicator")
  /\ logger' = [logger EXCEPT ![p].comm = Statement(p).comm]
  /\ UNCHANGED <<program, alive, mpi, queue, file, used>>

(* Mutant: log() asks MPI for the rank each time.                          *)
LogAskingMPI(p) ==
  /\ Begin(p, "log")
  /\ LET l == WithCurrentRank(p, logger[p])
     IN  /\ logger' = [logger EXCEPT ![p] = l]
         /\ queue' = [queue EXCEPT ![p] = Emitted(p, l, Statement(p).level)]
         /\ used' = used \cup MPICalls(p, l)
  /\ UNCHANGED <<program, alive, mpi, file>>

(* log() and finalize(), which is a log() at level info.                   *)
Log(p) ==
  /\ Begin(p, "log")
  /\ queue' = [queue EXCEPT ![p] = Emitted(p, logger[p], Statement(p).level)]
  /\ UNCHANGED <<program, alive, mpi, logger, file, used>>

(* Mutant: the file stays open and is flushed when the program ends.       *)
WriteAtTheEnd(p) ==
  /\ p \in alive /\ queue[p] # <<>>
  /\ queue' = [queue EXCEPT ![p] = <<>>]
  /\ file' = IF at[p] = Len(program) THEN file \o queue[p] ELSE file
  /\ UNCHANGED <<program, at, alive, mpi, logger, used>>

(* write_: the insertion reaches the file before log() returns.            *)
Write(p) ==
  /\ p \in alive /\ queue[p] # <<>>
  /\ file' = Append(file, Head(queue[p]))
  /\ queue' = [queue EXCEPT ![p] = Tail(@)]
  /\ UNCHANGED <<program, at, alive, mpi, logger, used>>

(* The statements of MPI itself, and the end of a process before its time. *)
MPI_Init(p) ==
  /\ Begin(p, "MPI_Init") /\ mpi' = [mpi EXCEPT ![p] = "up"]
  /\ UNCHANGED <<program, alive, logger, queue, file, used>>
MPI_Finalize(p) ==
  /\ Begin(p, "MPI_Finalize") /\ mpi' = [mpi EXCEPT ![p] = "ended"]
  /\ UNCHANGED <<program, alive, logger, queue, file, used>>
MPI_Barrier(p) ==
  /\ Begin(p, "MPI_Barrier")
  /\ \A q \in Procs :
       at[q] > at[p] \/ (at[q] = at[p] /\ queue[q] = <<>> /\ q \in alive)
  /\ UNCHANGED <<program, alive, mpi, logger, queue, file, used>>
Abort(p) ==
  /\ p \in alive /\ alive' = alive \ {p}
  /\ UNCHANGED <<program, at, mpi, logger, queue, file, used>>

Stuck(p) ==
  \/ p \notin alive
  \/ /\ queue[p] = <<>>
     /\ at[p] < Len(program) => Statement(p).op = "MPI_Barrier" /\ alive # Procs
Done == (\A p \in Procs : Stuck(p)) /\ UNCHANGED vars

Next ==
  \/ Done
  \/ \E p \in Procs :
       \/ InitializeWithMPI(p) \/ SetLoggingRank(p) \/ SetCommunicator(p)
       \/ Log(p) \/ Write(p) \/ Abort(p)
       \/ MPI_Init(p) \/ MPI_Finalize(p) \/ MPI_Barrier(p)

Spec == Init /\ [][Next]_vars
------------------------------------------------------------------------------
Returned(k) ==
  \A p \in Procs : at[p] > k \/ (at[p] = k /\ queue[p] = <<>>)

Completed(k) == {i \in DOMAIN file : file[i].stmt = k /\ file[i].part # "text"}
Speakers(k)  == {file[i].proc : i \in {j \in DOMAIN file : file[j].stmt = k}}

(* Every initialisation of the logger comes after MPI_Init.                *)
StartsUnderMPI(q) ==
  \A k \in DOMAIN q : q[k].op = "initializeWithMPI" =>
    \E i \in 1 .. k - 1 : q[i].op = "MPI_Init"

(* p and r are in one part of every communicator given up to statement k.  *)
Together(p, r, k) ==
  \A i \in 1 .. k : program[i].op \in {"initializeWithMPI", "setCommunicator"} =>
    Part[program[i].comm][p] = Part[program[i].comm][r]

(* Of processes that no communicator of the program separates, one at most *)
(* speaks a statement, if the logger is initialised under MPI.  (Each      *)
(* process compares its own rank with its own logging rank, at its own     *)
(* pace; nothing is agreed between them.)                                  *)
OneSpeaker ==
  StartsUnderMPI(program) =>
    \A k \in 1 .. Len(program) : \A p, r \in Speakers(k) :
      Together(p, r, k) => p = r

(* When every process has returned from a log statement whose level the    *)
(* logger lets through, its line is in the file, once from each process    *)
(* that has it, whoever aborts afterwards.  (write_ opens, flushes and     *)
(* closes the file in every call.)                                         *)
ReturnedIsWritten ==
  \A k \in 1 .. Len(program) :
    /\ program[k].op = "log" /\ Returned(k)
    /\ \E i \in 1 .. k - 1 : /\ program[i].op = "initializeWithMPI"
                             /\ Passes(program[k].level, program[i].level)
    => /\ Completed(k) # {}
       /\ \A i, j \in Completed(k) : file[i].proc = file[j].proc => i = j

(* The logger calls MPI only between MPI_Init and MPI_Finalize, also when  *)
(* it is initialised before the first or finalised after the second.       *)
MPICallsAreLegal == used \subseteq {"up"}
==============================================================================
