SPECIFICATION Spec
CONSTANTS
  w1 = w1
  Worker = {w1}
  Corridor <- walletToHarbor
  Queued = TRUE
  SendSwitch = {TRUE}
  HorizonAnswers = TRUE
  MaxRetries = 1
  AdminForces = {}
  MaxFaults = 0
INVARIANTS ReserveBacksPayout
CHECK_DEADLOCK FALSE
