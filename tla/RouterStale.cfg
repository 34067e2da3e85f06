CONSTANTS
  Publishers = {c1}
  Subscribers = {c2}
  Patterns <- MCPatterns
  Subjects <- MCSubjects
  MaxConnections = 3
  MaxObservers = 1
  MaxEvents = 2
SPECIFICATION Spec
CHECK_DEADLOCK FALSE
INVARIANT UnregisteredIsRemoved
