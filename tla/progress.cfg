SPECIFICATION Spec
CONSTANTS
  Withdrawal = {w1, w2}
  Bank = {"redenlace"}
  MaxAttempts = 2
  Switch = FALSE
  Movement = {"m1", "m2"}
  Leg = "m1"
  Pairs = TRUE
  MaxClock = 3
  MaxEntries = 4
  Ordered = TRUE
  EmptyFreeze = FALSE
  Intent = {"n1"}
  MaxPayments = 2
  CreditFails = FALSE
  Queued = {"p1"}
  MaxSends = 3
  HandlerFails = FALSE
  MaxVerifications = 2
  MaxSweeps = 1
  Relaunch = TRUE
  KycWriteFails = TRUE
  Uploads = TRUE
  Listed = {"a", "b", "c"}
  Customer = "a"
  MaxListings = 2
  MaxByHand = 2
  MaxStarts = 1
  Claim = {"c1"}
  Monitor = {"channel-xlm"}
  MonitorRun = {"r1"}
  Term = 2
  Notice = 1
  MaxRefusals = 1
  Amounts = {400, 500}
  Markets = {1000, 1050}
  VitaRates = {20}
  Spreads = {0}
  PayoutMethod = "vitaWallet"
  FxBuffer = 2
  FloorUSD = 31
  MinAmount = 100
  MaxChanges = 1
  Payment = {"p", "q"}
  SpA = {"p"}
  MaxSeals = 2
  WritesFail = FALSE
  Purchase = {"o1", "o2"}
  FintocURL = {"ipn", "older"}
  StoreFails = FALSE
  BobMarkets = {900, 1000}
  ClpMarkets = {80000, 90000}
  UsdSpreads = {0, 2}
  Overrides = {1000}
  EditsInRun = FALSE
  MaxMarkets = 1
  MaxEdits = 1
  Slot = {"s1"}
  Country = {"HK", "GB", "BR", "MX", "PE"}
  ThroughForm = FALSE
  RulesComplete = TRUE
  MethodsChange = FALSE
  RulesDown = FALSE
  MaxFlips = 2
  Charges = 2
  Deposits = {2}
  SweepLimit = 1
  Strays = {1}
  MaxOutages = 1
  LongOutages = FALSE
  CancelFails = FALSE
  PaidInSweep = FALSE
  Vague = FALSE
  Payout = {"h", "v", "r"}
  ByHarbor = {"h"}
  ByVita = {"v"}
  Fallback = "vitaWallet"
  HarborErrors = {"postalCode", "cpf", "sepaSwift", "account", "swift", "phone", "rejected",
                  "corridor", "inactive", "customer", "schema", "apiKey", "usdc",
                  "unavailable", "noJson"}
  RetryErrors = {"unavailable", "apiKey", "inactive", "usdc", "duplicate"}
  VitaErrors = {"balance", "field", "login", "other"}
  MaxRetries = 2
  LastIsLost = FALSE
  Scheduled = {"reconcile-harbor", "reconcile-custodial-accounts"}
  RulesOn = TRUE
  Slow = TRUE
  MaxLambdaRetries = 1
  MaxRestarts = 1
  Users = 2
  MaxSessions = 1
  maxAvisos = 2
  maxPorCorrida = 1
  NudgeRun = {"n1"}
  MailFails = FALSE
  NudgeWriteFails = FALSE
  Restarts = TRUE
  Admin = {"d1"}
  MaxStops = 1
  MaxCrashes = 1
  AnswersLost = TRUE
INVARIANTS ProgressTypeOK MovedOnce 
PROPERTIES PromiseKept DispatchedIsWatched LedgerCatchesUp 
  AnsweredIsHandled VerifiedIsApproved ListedIsScreened 
   CompletedIsSealed PaidIsConfirmed
   OutageStopsPayins
CHECK_DEADLOCK FALSE
