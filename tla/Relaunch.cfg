SPECIFICATION FairSpec
CONSTANTS
  Process = {p1, p2, p3}
  MaxAttempts = 2
  MaxNotices = 1
  Faults = {"quit", "killed", "mutex", "window", "broadcast"}
INVARIANTS
  TypeOK
  OneHook
PROPERTIES
  ListenerAnswers
