CONSTANTS
  MPIEnabled = TRUE
  main = main
  worker = worker
  Threads = {main, worker}
  NoThread = NoThread
  Blank = Blank
  Torn = Torn
  SilenceWarnings = FALSE
  Program <- MPIProgram
  Files = {"pressio.log", "run.log"}
  DefaultFile = "pressio.log"
  Writable = {"pressio.log", "run.log"}
  Comms <- MCComms
  World = "world"
  CommRank <- MCCommRank
  CommSize <- MCCommSize
SPECIFICATION Spec
PROPERTIES
  SerialWarningIsTrue
