CONSTANTS
  MPIEnabled = FALSE
  main = main
  worker = worker
  Threads = {main, worker}
  NoThread = NoThread
  Blank = Blank
  Torn = Torn
  SilenceWarnings = TRUE
  Program <- SerialProgram
  Files = {"pressio.log", "run.log"}
  DefaultFile = "pressio.log"
  Writable = {"pressio.log", "run.log"}
  Comms <- MCComms
  World = "world"
  CommRank <- MCCommRank
  CommSize <- MCCommSize
SPECIFICATION Spec
INVARIANTS
  SilencedBuildIsSilent
