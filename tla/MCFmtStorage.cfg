SPECIFICATION StorageSpec
CONSTANTS
  Bytes = {195, 42}
  BufferSize = 3
  Limits = {0, 1, 2, 3, 5}
  MaxUnits = 9
  MaxWrite = 5
  Buffers = {"x", "y", "z"}
  Blocks = {"p", "q", "r", "t"}
  SIZE = 2
  MaxAlloc = 5
  MaxAsked = 5
  ArgLists <- MCArgLists
  Ids <- MCIds
  Names = {"a", "b", "c"}
  WordBits = 16
  LongShort = TRUE
INVARIANTS
  GettersReturnWhatWasSet
  OutputIsPrefix
  SizeIsTotal
  NothingPastTheEnd
  BlocksHaveOneOwner
  CapacityIsReal
  LookUpFindsTheArgument
PROPERTIES
  AppendReturns
