SPECIFICATION FairSpec
CONSTANTS
  MaxQueue = 2
  NoStatus = NoStatus
  TickLimit = 16
  DeadAfter = 3
INVARIANTS
  TypeOK
  LastEventTrue
  RunningIsServed
  StoppedIsQuiet
  NobodyWaitsInVain
PROPERTIES
  ForcedIsHonoured
  NewThreadsFindNothing
  CallsReturn
  HookThreadStops
  LossIsRepaired
  ImplementsEngineLayer
