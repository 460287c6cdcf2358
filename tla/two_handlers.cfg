SPECIFICATION Spec
CONSTANTS
  w1 = w1
  w2 = w2
  Worker = {w1,w2}
  Corridor <- concurrent
  Queued = TRUE
  SendSwitch = {TRUE}
  HorizonAnswers = TRUE
  MaxRetries = 2
  AdminForces = {}
  MaxFaults = 2
INVARIANTS PaidOutOnce
CHECK_DEADLOCK FALSE
