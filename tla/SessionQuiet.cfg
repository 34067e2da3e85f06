SPECIFICATION SessionSpec
CONSTANT MaxStarts = 1
PROPERTY
  StopReturns
CHECK_DEADLOCK FALSE
