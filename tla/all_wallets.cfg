SPECIFICATION Spec
CONSTANTS
  ana = ana
  beto = beto
  User = {ana, beto}
  Tx = {t1, t2, t3, t4}
  Req = {r1, r2}
  MaxAmount = 1
  MaxDay = 0
  Charge = {}
  chargeOf <- MCchargeOf
  Payment = {"p1"}
  payer <- MCpayer
  NoRef = NoRef
  BankQr = FALSE
  Methods = {"bank"}
  Freezable = {beto}
  SendLimit = 0
  WithdrawLimit = 0
  Fees = {1}
SYMMETRY Symmetry
INVARIANTS ReservesMatch LedgerMatches Solvent PaymentHeldOnce RevenueMatches
PROPERTIES SettledIsFinal FrozenTakesNoCommitment
CHECK_DEADLOCK FALSE
