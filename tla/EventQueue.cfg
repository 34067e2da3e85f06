SPECIFICATION MCSpec
CONSTANTS
  DataEvents = {d1}
  TimerEvents = {t1}
  SignalEvents = {s1}
  NoEvent = NoEvent
  Capacity = 2
  MaxArrivals = 4
  UnregisterFrom = {"outside", "callback"}
  Quiesces = TRUE
  Timers = {1, 2, 3}
  Timeouts = {1}
  RingCapacity = 2
  MaxTimedCalls = 4
  MaxData = 2
  Files = {"f1"}
  Clocks = {"c"}
  Signals = {"s"}
  Readers = {"r1", "r2"}
  FileOf <- MCFileOf
  MaxDispatchSize = 2
  InlineTimeouts = {1}
  MaxInlineArrivals = 2
  MaxInlineCalls = 2
  MaxStarts = 4
INVARIANTS
  
  
  InputIsSeen
  SessionsSeparate
PROPERTIES
  
  UnregisteredIsDeleted
  
  
CHECK_DEADLOCK FALSE
