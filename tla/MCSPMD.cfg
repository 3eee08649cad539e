CONSTANTS
  SilenceWarnings = FALSE
  Procs <- MCProcs
  Programs <- MCPrograms
  Comms = {"world", "split"}
  World = "world"
  Part <- MCPart
  CommRank <- MCRank
  CommSize <- MCSize
  Long = {2}
SPECIFICATION Spec
INVARIANTS
  OneSpeaker
  ReturnedIsWritten
  MPICallsAreLegal
