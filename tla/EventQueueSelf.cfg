SPECIFICATION Spec
CONSTANTS
  DataEvents = {d1}
  TimerEvents = {t1}
  SignalEvents = {s1}
  NoEvent = NoEvent
  Capacity = 2
  MaxArrivals = 4
  UnregisterFrom = {"self"}
  Quiesces = TRUE
INVARIANTS
  NoUseAfterFree
CHECK_DEADLOCK FALSE
