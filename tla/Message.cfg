SPECIFICATION MCSpec
CONSTANTS
  Raw = Raw
  Nothing = Nothing
  idA = idA
  idB = idB
  idC = idC
  byte = byte
  max_size = 2
  Fields <- MCFields
  Subjects <- MCSubjects
  sizeof <- MCsizeof
  SIZE_T = 1
  ArenaSize = 8
  LargeSize = 2
  WireSize = 64
  MaxFields = 3
  MaxSlabs = 2
  Names = {"b1", "b2"}
  BufferRoom = 2
  Chunks <- MCChunks
  Amounts = {1}
  MaxBuffered = 3
  MaxBlocks = 3
INVARIANTS
  MemoryIsSound
  
  DecodeInvertsEncode
CHECK_DEADLOCK FALSE
