------------------------------ MODULE WalletBOB ------------------------------
(***************************************************************************)
(* The BOB wallet: walletController.js, the BOB branch of                  *)
(* qrWalletController.js, the wallet part of cleanupOrphanTransactions.js  *)
(* and the refund of adminController.js.  Amounts, limits and balances are *)
(* in the same unit.  A handler that opens a MongoDB session is an action  *)
(* with Begin: it commits or aborts later (see WalletStore).               *)
(***************************************************************************)
EXTENDS WalletStore

CONSTANTS
  BankQr,          \* WALLET_DEPOSIT bank QR enabled (getWalletDepositBankQrConfig)
  Methods,         \* withdrawal methods users choose: a subset of {"bank", "qr"}
  Freezable,       \* users a compliance order may reach
  SendLimit,       \* WALLET_DAILY_SEND_LIMIT, 0 when disabled
  WithdrawLimit    \* WALLET_DAILY_WITHDRAW_LIMIT, 0 when disabled

ASSUME BOBAssumption ==
  /\ BankQr \in BOOLEAN
  /\ Methods \subseteq {"bank", "qr"}
  /\ Freezable \subseteq User
  /\ SendLimit \in Nat /\ WithdrawLimit \in Nat

-----------------------------------------------------------------------------
(* Deposits.                                                               *)

initiateDeposit(x, u, a) ==
  /\ New(x)
  /\ Active(BOB(u))
  /\ UpdateOne(x, Doc("deposit", BOB(u), a, "awaiting_proof"))
  /\ calls' = IF BankQr THEN calls \cup {x} ELSE calls

(* generateQR answers: the two updateOne({_id}) that follow have no filter *)
(* on the status.                                                          *)
generateQRSucceeds(x) ==
  /\ x \in calls /\ wtx[x].type = "deposit"
  /\ UpdateOne(x, [Set(x, "pending") EXCEPT !.qrId = TRUE])
  /\ calls' = calls \ {x}

(* A failure of this update is swallowed.                                  *)
generateQRFails(x) ==
  /\ x \in calls /\ wtx[x].type = "deposit"
  /\ UpdateOne(x, Set(x, "failed")) \/ NoUpdate
  /\ calls' = calls \ {x}

uploadDepositProof(x) ==
  /\ Is(x, "deposit", "awaiting_proof")
  /\ ~wtx[x].qrId
  /\ UpdateOne(x, Set(x, "pending"))
  /\ UNCHANGED calls

credit(x) == Write(wtx[x].wallet, Inc(wtx[x].wallet, wtx[x].amount, 0))

adminConfirmDeposit(r, x) ==
  /\ Is(x, "deposit", "pending")
  /\ ~wtx[x].qrId
  /\ Begin(r, credit(x), Write(x, Set(x, "completed")))

(* The bank's IPN and both phases of reconcileBankQrPayments look the      *)
(* deposit up by qrId and end here.                                        *)
confirmBankQrDeposit(r, x) ==
  /\ Is(x, "deposit", "pending")
  /\ wtx[x].qrId
  /\ Begin(r, credit(x), Write(x, Set(x, "completed")))

failExpiredBankQrDeposit(x) ==
  /\ Is(x, "deposit", "pending")
  /\ wtx[x].qrId
  /\ UpdateOne(x, Set(x, "failed"))
  /\ UNCHANGED calls

(* Mutant: a status the schema does not have.                              *)
cleanupToExpired(x) ==
  /\ Is(x, "deposit", "awaiting_proof")
  /\ ~wtx[x].qrId
  /\ UpdateOne(x, Set(x, "expired"))
  /\ UNCHANGED calls

cleanupOrphanWalletDeposits(x) ==
  /\ Is(x, "deposit", "awaiting_proof")
  /\ ~wtx[x].qrId
  /\ UpdateOne(x, Set(x, "failed"))
  /\ UNCHANGED calls

-----------------------------------------------------------------------------
(* Transfers between users.                                                *)

sentToday(u) ==
  SumWhere({x \in Tx : /\ wtx[x].wallet = BOB(u)
                 /\ Is(x, "send", "completed")
                 /\ wtx[x].day = today})

(* Mutant: the balance is checked without its reserve.                     *)
transferOfReserved(r, x, y, u, v, a, ref) ==
  /\ u # v
  /\ x # y /\ New(x) /\ New(y)
  /\ Active(BOB(u)) /\ Active(BOB(v))
  /\ wallet[BOB(u)].balance >= a
  /\ Begin(r, Write(BOB(u), Inc(BOB(u), -a, 0)) (+) Write(BOB(v), Inc(BOB(v), a, 0)),
              Write(x, [Doc("send", BOB(u), a, "completed") EXCEPT !.ref = ref])
          (+) Write(y, [Doc("receive", BOB(v), a, "completed") EXCEPT !.ref = ref]))

(* Debit, credit and the send/receive pair, in one session.                *)
transfer(r, x, y, u, v, a, ref) ==
  /\ u # v
  /\ x # y /\ New(x) /\ New(y)
  /\ Active(BOB(u)) /\ Active(BOB(v))
  /\ Available(BOB(u)) >= a
  /\ Begin(r, Write(BOB(u), Inc(BOB(u), -a, 0)) (+) Write(BOB(v), Inc(BOB(v), a, 0)),
              Write(x, [Doc("send", BOB(u), a, "completed") EXCEPT !.ref = ref])
          (+) Write(y, [Doc("receive", BOB(v), a, "completed") EXCEPT !.ref = ref]))

sendP2P(r, x, y, u, v, a) ==
  /\ SendLimit > 0 => sentToday(u) + a <= SendLimit
  /\ transfer(r, x, y, u, v, a, NoRef)

(* A charge code fixes the recipient and the amount, and is paid once; a   *)
(* "deposit" code (NoRef) can be paid again, with an amount the payer      *)
(* chooses.                                                                *)
scanAndPayQR(r, x, y, u, v, a, q) ==
  /\ q \in Charge => PaysCharge(q, "BOB", v, a) /\ ~alreadyPaid(q)
  /\ transfer(r, x, y, u, v, a, q)

-----------------------------------------------------------------------------
(* Withdrawals.                                                            *)

(* Mutant: only what was paid out counts.                                  *)
completedToday(u) ==
  SumWhere({x \in Tx : /\ wtx[x].wallet = BOB(u)
                 /\ Is(x, "withdrawal", "completed")
                 /\ wtx[x].day = today})

withdrawnToday(u) ==
  SumWhere({x \in Tx : /\ wtx[x].wallet = BOB(u)
                 /\ wtx[x].type = "withdrawal"
                 /\ wtx[x].status \in {"pending", "completed"}
                 /\ wtx[x].day = today})

(* Mutants: the wallet may be frozen; the reserve is not subtracted.       *)
requestWithdrawalFrozen(r, x, u, a, m) ==
  /\ New(x)
  /\ Available(BOB(u)) + wallet[BOB(u)].balanceFrozen >= a
  /\ WithdrawLimit > 0 => withdrawnToday(u) + a <= WithdrawLimit
  /\ Begin(r, Write(BOB(u), Inc(BOB(u), 0, a)),
              Write(x, [Doc("withdrawal", BOB(u), a, "pending") EXCEPT !.method = m]))
requestWithdrawalOfReserved(r, x, u, a, m) ==
  /\ New(x)
  /\ Active(BOB(u))
  /\ wallet[BOB(u)].balance >= a
  /\ WithdrawLimit > 0 => withdrawnToday(u) + a <= WithdrawLimit
  /\ Begin(r, Write(BOB(u), Inc(BOB(u), 0, a)),
              Write(x, [Doc("withdrawal", BOB(u), a, "pending") EXCEPT !.method = m]))

requestWithdrawal(r, x, u, a, m) ==
  /\ New(x)
  /\ Active(BOB(u))
  /\ Available(BOB(u)) >= a
  /\ WithdrawLimit > 0 => withdrawnToday(u) + a <= WithdrawLimit
  /\ Begin(r, Write(BOB(u), Inc(BOB(u), 0, a)),
              Write(x, [Doc("withdrawal", BOB(u), a, "pending") EXCEPT !.method = m]))

debitReserved(x) ==
  Write(wtx[x].wallet, Inc(wtx[x].wallet, -wtx[x].amount, -wtx[x].amount))
releaseReserved(x) == Write(wtx[x].wallet, Inc(wtx[x].wallet, 0, -wtx[x].amount))

adminConfirmWithdrawal(r, x) ==
  /\ Is(x, "withdrawal", "pending")
  /\ Begin(r, debitReserved(x), Write(x, Set(x, "completed")))

(* Mutant: a withdrawal the bank already has is rejected by hand.          *)
adminRejectWithdrawalTwice(r, x) ==
  /\ wtx[x].type = "withdrawal" /\ wtx[x].status # "completed"
  /\ Begin(r, releaseReserved(x), Write(x, Set(x, "failed")))

adminRejectWithdrawal(r, x) ==
  /\ Is(x, "withdrawal", "pending")
  /\ Begin(r, releaseReserved(x), Write(x, Set(x, "failed")))

(* The claim pending -> dispatched, before the bank is called.             *)
adminDispatchWithdrawal(x) ==
  /\ Is(x, "withdrawal", "pending")
  /\ wtx[x].method = "bank"
  /\ UpdateOne(x, Set(x, "dispatched"))
  /\ calls' = calls \cup {x}

(* Mutant: back to pending whatever happened meanwhile.                    *)
transferFailsAnyStatus(x) ==
  /\ x \in calls /\ wtx[x].type = "withdrawal"
  /\ UpdateOne(x, Set(x, "pending")) \/ NoUpdate
  /\ calls' = calls \ {x}

(* transfer() throws: back to pending if still dispatched; an error of     *)
(* that update is swallowed, and an error before the call reverts nothing. *)
transferFails(x) ==
  /\ x \in calls /\ wtx[x].type = "withdrawal"
  /\ \/ wtx[x].status = "dispatched" /\ UpdateOne(x, Set(x, "pending"))
     \/ NoUpdate
  /\ calls' = calls \ {x}

(* transfer() returns: $set of metadata.bankBatchId only.                  *)
transferAccepted(x) ==
  /\ x \in calls /\ wtx[x].type = "withdrawal"
  /\ UpdateOne(x, wtx[x])
  /\ calls' = calls \ {x}

(* Mutant: an accepted withdrawal is not debited.                          *)
settleWithoutDebit(r, x, accepted) ==
  /\ Is(x, "withdrawal", "dispatched")
  /\ Begin(r, releaseReserved(x), Write(x, Set(x, IF accepted THEN "completed" ELSE "failed")))

(* The bank's verdict, by notify webhook or by the reconciliation job.     *)
settleDispatchedWithdrawal(r, x, accepted) ==
  /\ Is(x, "withdrawal", "dispatched")
  /\ IF accepted
       THEN Begin(r, debitReserved(x), Write(x, Set(x, "completed")))
       ELSE Begin(r, releaseReserved(x), Write(x, Set(x, "failed")))

-----------------------------------------------------------------------------
(* Compliance and refunds.                                                 *)

moveFrozen(k, status, b, f) ==
  [wallet[k] EXCEPT !.status = status, !.balance = b, !.balanceFrozen = f]
frozenBOB(k) == moveFrozen(k, "frozen", 0, wallet[k].balance)
frozenUSDC(k) ==
  moveFrozen(k, "frozen", 0, wallet[k].balanceFrozen + wallet[k].balance)
thawedBOB(k) == moveFrozen(k, "active", wallet[k].balanceFrozen, 0)
thawedUSDC(k) ==
  moveFrozen(k, "active", wallet[k].balance + wallet[k].balanceFrozen, 0)
noWrite == [k \in {} |-> EmptyWallet]

adminFreezeWallet(r, x, u) ==
  /\ New(x)
  /\ Active(BOB(u))
  /\ Begin(r, Write(BOB(u), frozenBOB(BOB(u)))
              (+) (IF Active(USDC(u)) THEN Write(USDC(u), frozenUSDC(USDC(u)))
                                      ELSE noWrite),
              Write(x, Doc("freeze", BOB(u), wallet[BOB(u)].balance, "completed")))

adminUnfreezeWallet(r, x, u) ==
  /\ New(x)
  /\ ~Active(BOB(u))
  /\ Begin(r, Write(BOB(u), thawedBOB(BOB(u)))
              (+) (IF Active(USDC(u)) THEN noWrite
                                      ELSE Write(USDC(u), thawedUSDC(USDC(u)))),
              Write(x, Doc("unfreeze", BOB(u), wallet[BOB(u)].balanceFrozen,
                           "completed")))

(* Refund of a cross-border payment into the wallet; the payment side,     *)
(* which makes it happen once, is not part of this module.                 *)
acreditarDevolucionEnBilletera(r, x, u, a) ==
  /\ New(x)
  /\ Begin(r, Write(BOB(u), Inc(BOB(u), a, 0)),
              Write(x, Doc("refund", BOB(u), a, "completed")))

-----------------------------------------------------------------------------
DepositNext ==
  \E x \in Tx :
    \/ \E u \in User, a \in Amount : initiateDeposit(x, u, a)
    \/ generateQRSucceeds(x)
    \/ generateQRFails(x)
    \/ uploadDepositProof(x)
    \/ \E r \in Req : adminConfirmDeposit(r, x)
    \/ \E r \in Req : confirmBankQrDeposit(r, x)
    \/ failExpiredBankQrDeposit(x)
    \/ cleanupOrphanWalletDeposits(x)

TransferNext ==
  \E r \in Req, x, y \in Tx, u, v \in User, a \in Amount :
    \/ sendP2P(r, x, y, u, v, a)
    \/ \E q \in Charge \cup {NoRef} : scanAndPayQR(r, x, y, u, v, a, q)

WithdrawalNext ==
  \E x \in Tx :
    \/ \E r \in Req, u \in User, a \in Amount, m \in Methods :
         requestWithdrawal(r, x, u, a, m)
    \/ \E r \in Req : adminConfirmWithdrawal(r, x)
    \/ \E r \in Req : adminRejectWithdrawal(r, x)
    \/ adminDispatchWithdrawal(x)
    \/ transferFails(x)
    \/ transferAccepted(x)
    \/ \E r \in Req, b \in BOOLEAN : settleDispatchedWithdrawal(r, x, b)

ComplianceNext ==
  \E r \in Req, x \in Tx :
    \/ \E u \in Freezable : adminFreezeWallet(r, x, u)
    \/ \E u \in Freezable : adminUnfreezeWallet(r, x, u)
    \/ \E u \in User, a \in Amount : acreditarDevolucionEnBilletera(r, x, u, a)
=============================================================================
