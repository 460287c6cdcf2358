SPECIFICATION Spec
CONSTANTS
  w1 = w1
  Worker = {w1}
  Corridor <- corridors
  Queued = TRUE
  SendSwitch = {TRUE, FALSE}
  HorizonAnswers = TRUE
  MaxRetries = 1
  AdminForces = {"payin_pending"}
  MaxFaults = 2
INVARIANTS PaidOrUnstarted BackedByPayin CompletedIsDelivered UsdcLeavesOnce
CHECK_DEADLOCK FALSE
