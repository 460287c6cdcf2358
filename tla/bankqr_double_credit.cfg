SPECIFICATION BOBSpec
CONSTANTS
  ana = ana
  beto = beto
  User = {ana}
  Tx = {t1, t2}
  Req = {r1, r2}
  MaxAmount = 1
  MaxDay = 0
  Charge = {}
  chargeOf <- MCchargeOf
  Payment = {}
  payer <- MCpayer
  NoRef = NoRef
  BankQr = TRUE
  Methods = {"bank"}
  Freezable = {}
  SendLimit = 0
  WithdrawLimit = 0
  Fees = {0}
SYMMETRY Symmetry
INVARIANTS NoDoubleCredit
CHECK_DEADLOCK FALSE
