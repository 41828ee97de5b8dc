SPECIFICATION Spec
CONSTANTS
  MaxQueue = 2
  NoStatus = NoStatus
  TickLimit = 16
  DeadAfter = 3
INVARIANTS
  RunningHasThread
