SPECIFICATION TablesSpec
CONSTANTS
  Threads = {s, a1, a2}
  Depth = 1
  SessionThread = s
  Descriptor = Descriptor
  IOHandlers = {io1, io2}
  TimerHandlers = {timer}
  SignalHandlers = {signal}
  NoHandler = NoHandler
INVARIANTS
  EraseIsExclusive
CHECK_DEADLOCK FALSE
