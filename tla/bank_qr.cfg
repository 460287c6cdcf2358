SPECIFICATION BOBSpec
CONSTANTS
  ana = ana
  beto = beto
  User = {ana}
  Tx = {t1, t2, t3, t4}
  Req = {r1, r2}
  MaxAmount = 1
  MaxDay = 1
  Charge = {}
  chargeOf <- MCchargeOf
  Payment = {}
  payer <- MCpayer
  NoRef = NoRef
  BankQr = TRUE
  Methods = {"qr"}
  Freezable = {}
  SendLimit = 0
  WithdrawLimit = 1
  Fees = {0}
SYMMETRY Symmetry
INVARIANTS DailyWithdrawalCap
CHECK_DEADLOCK FALSE
