SPECIFICATION TransfersSpec
CONSTANTS
  ana = ana
  beto = beto
  User = {ana, beto}
  Tx = {t1, t2, t3, t4, t5}
  Req = {r1, r2}
  MaxAmount = 2
  MaxDay = 0
  Charge = {"qbob", "qusdc"}
  chargeOf <- MCchargeOf
  Payment = {}
  payer <- MCpayer
  NoRef = NoRef
  BankQr = FALSE
  Methods = {}
  Freezable = {}
  SendLimit = 0
  WithdrawLimit = 0
  Fees = {0, 1}
SYMMETRY Symmetry
INVARIANTS ChargePaidOnce
CHECK_DEADLOCK FALSE
