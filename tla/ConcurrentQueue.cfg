SPECIFICATION Spec
CONSTANTS
  w1 = w1
  w2 = w2
  r1 = r1
  r2 = r2
  t1 = t1
  t2 = t2
  b1 = b1
  b2 = b2
  Writers = {w1, w2}
  Readers = {r1, r2}
  hash_thread_id <- MCHash
  INITIAL_IMPLICIT_PRODUCER_HASH_SIZE = 2
  QUOTA = 2
  BULK = 2
  NoMemory = {w2}
  PoolThreads = {t1, t2}
  PoolBlock = {b1, b2}
  initialBlockPool <- MCPool
  MaxHeld = 1
  Nil = Nil
INVARIANTS
  SubqueueHasOneWriter
  ProbingEnds
  PermitsAreAccounted
  BlockIsInOnePlace
PROPERTY PermitIsHonoured
CHECK_DEADLOCK FALSE
