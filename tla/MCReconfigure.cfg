CONSTANTS
  MPIEnabled = TRUE
  main = main
  worker = worker
  Threads = {main, worker}
  NoThread = NoThread
  Blank = Blank
  Torn = Torn
  SilenceWarnings = FALSE
  Program <- ReconfigureProgram
  Files = {"pressio.log", "run.log"}
  DefaultFile = "pressio.log"
  Writable = {"pressio.log"}
  Comms <- MCComms
  World = "world"
  CommRank <- MCCommRank
  CommSize <- MCCommSize
SPECIFICATION HSpec
PROPERTIES
  UndisturbedLogFollowsConfig
  AdoptedRankWasInRange
