SPECIFICATION MCSpec
CONSTANTS
  Raw = Raw
  Parts <- MCParts
  Hollow = {3}
  Connectors = {"c1", "c2"}
  Files = {1, 2}
  MTU_SIZE = 2
  BufferSize = 4
  PoolSize = 1
  MaxConnections = 2
  MaxSends = 2
  QueueCapacity = 2
  MaxClientSends = 3
  MaxRouterSends = 3
  Protocols <- MCProtocols
  Bodies <- MCBodies
  CommandLines <- MCCommandLines
INVARIANTS
  HandedAsSent
  
  QueuedIsSignalled
  TextsAreRead
PROPERTY
  TCPDestructorReturns
CHECK_DEADLOCK FALSE
