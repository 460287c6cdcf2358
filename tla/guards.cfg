SPECIFICATION Spec
CONSTANTS
  Request = {"r1", "r2", "r3"}
  Requester = {"ana", "beto"}
  RequestKey = {"k"}
  AnswerStoreFails = TRUE
  Session = {s1, s2}
  TTL = 1
  MaxTime = 1
  MaxVersion = 1
  TwoFactor = FALSE
  Overlap = FALSE
  Attempt = {"q1", "q2"}
  Code = {k1}
  MaxFailures = 2
  MaxCount = 2
  MaxStep = 2
  MaxSecrets = 2
  Enrolments = FALSE
  Operation = {"r1", "r2", "r3", "r4"}
  Business = {"r2", "r4"}
  Manual = {"r1", "r2"}
  Issuer = {"i1", "i2"}
  MaxNumber = 4
  Midway = FALSE
  StoreFails = FALSE
  Movement = {"o1", "o2", "w1"}
  Wallet = {"w1"}
  Amounts = {1, 3}
  OperationMax = 3
  DailyMax = 4
  PeriodMax = 5
  SingleTx = 3
  DailyCumul = 1
  Ticks = 1
  MaxNow = 2
  AtOnce = FALSE
  Handler = {"h1", "h2"}
  MaxProfiles = 2
  MaxReviews = 2
  Incomplete = TRUE
  Owner = {a1, a2, a3}
  Document = {"d"}
  Phone = {"p"}
  Corrections = FALSE
  PhoneElsewhere = FALSE
  MaxUpdates = 1
  MaxRestarts = 0
  MaxOrders = 2
  MaxSends = 1
  Payin = {"p", "q"}
  ByQr = {"p"}
  PaidInSweep = FALSE
  Refunder = {"a", "b"}
  Script = {"s"}
  Alone = TRUE
  RefundFrom = {"failed", "refunded"}
  Holder = {"u", "v"}
  Rich = "u"
  Payout = {"p", "q"}
  PayoutUSDC = 2
  InitialHot = 2
  Harvester = {"a"}
  RecordFails = FALSE
  MaxMoves = 2
  MaxConversions = 1
  MaxFundings = 1
  Piece = {"x"}
  Admin = {"a", "b", "c"}
  Signals = {"cifras", "marca"}
  Forbidden = {{}, {"marca"}}
  Carousels = FALSE
  UnlocksInFlight = FALSE
  ServerErrors = FALSE
  MaxCrashes = 2
  Users = 2
  Caller = {"c1", "c2"}
  BatchSize = 2
  MaxAttempts = 1
  ChannelXLM = 9
  MaxStops = 1
  Concurrent = FALSE
  Token = {"t1", "t2", "t3"}
  MaxTokens = 2
  MaxPushes = 1
  MaxChanges = 6
  BadPayloads = FALSE
  Deletes = TRUE
INVARIANTS GuardsTypeOK AccessHolds ClaimedOnce  OwedIsKept 
CHECK_DEADLOCK FALSE
