SPECIFICATION MCSpec
CONSTANTS
  Threads = {s, a1, a2}
  Depth = 2
  HolderThreads = {a1, a2}
  SessionThread = s
  Descriptor = Descriptor
  IOHandlers = {io1, io2}
  TimerHandlers = {timer}
  SignalHandlers = {signal}
  NoHandler = NoHandler
  Size = 3
  Values = {v1, v2}
  Raw = Raw
  MaxPushes = 6
  Cells = 2
  Word = 8
  Start = 6
  Workers = {"a", "b", "c"}
  MaxMultiPushes = 3
  Payloads = {1, 2}
INVARIANTS
  WriterExcludes
  BitsExact
  InsertIsExclusive
  LockIsBalanced
  SlotDiscipline
  NoLostWakeup
  EachTakesItsTurn
PROPERTIES
  NoNewReaderUnderUpgrade
  ImplementsFifo
  PopWaitReturns
CHECK_DEADLOCK FALSE
