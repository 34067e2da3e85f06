CONSTANTS
  BLOCK_SIZE = 2
  IndexMod = 16
  MAX_SUBQUEUE_SIZE = 4
  INITIAL_INDEX_SIZE = 2
  MaxIndexSize = 4
  Blocks = {b1, b2, b3}
  PoolBlocks = {b1, b2}
  MallocFails = FALSE
  Kinds <- MCKinds
  MaxOutstanding = 3
  MaxOvercommit = 2
  Consumers = {k1, k2}
  Raw = Raw
  Null = Null
SPECIFICATION Spec
INVARIANTS  ClaimsAreAccounted DestructorIsExact FreeBlocksAreNobodys
CHECK_DEADLOCK FALSE
SYMMETRY Symmetry
