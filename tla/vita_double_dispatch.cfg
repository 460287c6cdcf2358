SPECIFICATION Spec
CONSTANTS
  w1 = w1
  w2 = w2
  Worker = {w1,w2}
  Corridor <- vitaToVita
  Queued = FALSE
  SendSwitch = {TRUE}
  HorizonAnswers = TRUE
  MaxRetries = 1
  AdminForces = {}
  MaxFaults = 0
INVARIANTS PaidOutOnce
CHECK_DEADLOCK FALSE
