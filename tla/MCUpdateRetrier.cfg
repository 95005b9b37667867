CONSTANTS
  Updaters = {u1, u2}
  TargetCap = 1
  UpdateCap = 1
  Increment = 1
  MaxDuration = 2
  Expiry = 4
  IdleWakeUp = 3
  MaxTime = 6
  MaxFirst = 1
  MayStop = TRUE
SPECIFICATION Spec
INVARIANTS TypeOK  RetriesBounded
PROPERTIES  Settles
CHECK_DEADLOCK FALSE
