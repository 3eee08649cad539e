----------------------------- MODULE MCLoggerSPMD -----------------------------
(* Three processes, the split of test_logger_change_comm.cc, and programs   *)
(* after the MPI tests: ranks set with and without barriers, communicators  *)
(* set before and after the logger starts, a logger that comes before       *)
(* MPI_Init and one that outlives MPI_Finalize.                             *)
EXTENDS LoggerSPMD

MCProcs == 0 .. 2
MCPart  == [world |-> [p \in MCProcs |-> MCProcs],
            split |-> [p \in MCProcs |-> {r \in MCProcs : r % 2 = p % 2}]]
MCRank  == [world |-> [p \in MCProcs |-> p],
            split |-> [p \in MCProcs |-> p \div 2]]
MCSize  == [world |-> [p \in MCProcs |-> 3],
            split |-> [p \in MCProcs |-> IF p = 1 THEN 1 ELSE 2]]

S(op) == [op |-> op]
Start(rank, comm, level) ==
  [op |-> "initializeWithMPI", rank |-> rank, comm |-> comm, level |-> level,
   dst |-> LogTo.both]
Say(level)  == [op |-> "log", level |-> level]
Target(r)   == [op |-> "setLoggingRank", rank |-> r]
Switch(c)   == [op |-> "setCommunicator", comm |-> c]
info == LogLevel.info
err  == LogLevel.error

MCPrograms == {
  \* the write test: a new rank, with and without a barrier, and one too many
  <<S("MPI_Init"), Start(0, "world", info), Say(err), Target(1), Say(err),
    S("MPI_Barrier"), Target(3), Say(info)>>,
  \* a split communicator given to the initialisation, again, and the end of MPI
  <<S("MPI_Init"), Start(0, "split", info), Say(info), Target(0),
    S("MPI_Barrier"), Say(err), S("MPI_Finalize"), Say(info)>>,
  \* the change of communicator of the test: rank 0 of every part
  <<S("MPI_Init"), Start(1, "world", info), Switch("split"), Target(2),
    Say(err), Target(0), Say(err)>>,
  \* the communicator comes before the logger, which starts again later with a
  \* rank that one part of it has and the other has not
  <<S("MPI_Init"), Switch("split"), Start(0, "split", info), Say(err),
    S("MPI_Barrier"), Start(1, "world", info), Say(err)>>,
  \* MPI comes after the logger, which every process then takes for rank 0
  <<Start(0, "world", err), S("MPI_Init"), Target(1), Say(err), Switch("split"),
    S("MPI_Barrier"), S("MPI_Finalize")>>}
==============================================================================
