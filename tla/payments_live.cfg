SPECIFICATION LiveSpec
CONSTANTS
  w1 = w1
  w2 = w2
  Worker = {w1,w2}
  Corridor <- faultless
  Queued = TRUE
  SendSwitch = {TRUE}
  HorizonAnswers = TRUE
  MaxRetries = 0
  AdminForces = {}
  MaxFaults = 1
PROPERTIES   NotPaidAfterFailed PayoutSettles
CHECK_DEADLOCK FALSE
