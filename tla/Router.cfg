CONSTANTS
  Publishers = {c1}
  Subscribers = {c2}
  Patterns <- MCPatterns
  Subjects <- MCSubjects
  MaxConnections = 3
  MaxObservers = 1
  MaxEvents = 2
SPECIFICATION FairSpec
CHECK_DEADLOCK FALSE
INVARIANTS NoUnreadInput OnlyWhatWasAskedFor DeliveredInOrder
PROPERTIES ObserversAreRegistered PublishedIsDelivered
