SPECIFICATION CustodySpec
CONSTANTS
  Users = 2
  Caller = {"c1", "c2"}
  BatchSize = 1
  MaxAttempts = 2
  ChannelXLM = 12
  MaxRestarts = 0
  Concurrent = FALSE
PROPERTY HalfProvisionedIsSeen
CHECK_DEADLOCK FALSE
