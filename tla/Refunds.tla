------------------------------- MODULE Refunds -------------------------------
(***************************************************************************)
(* The cash of payments made in bolivianos: it enters the bank account     *)
(* with the payin, and stays there as a debt until the payout is completed *)
(* or the money is given back.  getBOBCommitted tells what of the account  *)
(* is owed that way, from the state of the payments alone; an admin gives  *)
(* the money back to the wallet or records a transfer of the bank.         *)
(***************************************************************************)
EXTENDS Naturals, FiniteSets, TLAPS

CONSTANTS
  Payin,        \* the payments
  ByQr,         \* those by QR of the bank; the others are confirmed by an admin
  PaidInSweep,  \* a QR may be paid while the sweep is cancelling it
  Refunder,     \* admins who give money back
  Script,       \* runs of the script that regularises old debts
  Alone,        \* no admin gives money back while the script runs
  RefundFrom    \* the statuses of the payments they pick

VARIABLES
  payins,     \* the Transactions
  cash,       \* the payments whose money is in the account
  delivered,  \* the payouts the provider made
  credits,    \* refunds credited to the wallet, per payment
  payouts,    \* where the dispatch of a payment is
  sweeps,     \* where the sweep of an expired QR is
  refunds     \* what each admin is about to register

cashVars == <<payins, cash, delivered, credits, payouts, sweeps, refunds>>
refundVars == <<credits, refunds>>

BOB_RELEASED_STATUSES == {"completed"}
BOB_POST_PAYIN_STATUSES == {"payin_confirmed", "processing", "payout_sent", "pending_funding"}
PayinStatus == {"payin_pending", "failed", "refunded"} \cup BOB_RELEASED_STATUSES
                 \cup BOB_POST_PAYIN_STATUSES

(* proved: bankQr.paidAt or confirmationDetails.confirmedAt; evidence: the *)
(* refund's wtxId or bankReference.                                        *)
CashInit ==
  /\ payins = [p \in Payin |-> [status |-> "payin_pending", proved |-> FALSE, evidence |-> FALSE]]
  /\ cash = {} /\ delivered = {}
  /\ credits = [p \in Payin |-> 0]
  /\ payouts = [p \in Payin |-> "idle"]
  /\ sweeps = [p \in Payin |-> "idle"]
  /\ refunds = [a \in Refunder \cup Script |-> "none"]

Marks(p, status) == payins' = [payins EXCEPT ![p].status = status]

-----------------------------------------------------------------------------
(* The payin.                                                              *)

(* The customer pays while the QR stands, or by a transfer.                *)
customerPays(p) ==
  /\ p \notin cash
  /\ payins[p].status = "payin_pending"
  /\ sweeps[p] \in {"idle"} \cup (IF PaidInSweep THEN {"asked"} ELSE {})
  /\ cash' = cash \cup {p}
  /\ UNCHANGED <<payins, delivered, payouts, sweeps, refundVars>>

(* Mutant: the confirmation leaves no proof of the collection.             *)
confirmedWithoutProof(p) ==
  /\ p \in cash /\ payins[p].status = "payin_pending"
  /\ Marks(p, "payin_confirmed")
  /\ UNCHANGED <<cash, delivered, payouts, sweeps, refundVars>>

(* The bank's IPN, the reconciliation's list of paid QRs, or an admin who  *)
(* found the transfer; what follows is the dispatch.                       *)
payinConfirmed(p) ==
  /\ p \in cash /\ payins[p].status = "payin_pending"
  /\ payins' = [payins EXCEPT ![p].status = "payin_confirmed", ![p].proved = TRUE]
  /\ UNCHANGED <<cash, delivered, payouts, sweeps, refundVars>>

(* The sweep of expired QRs reads the payment and asks the bank.           *)
sweepExpiredQRs(p) ==
  /\ p \in ByQr
  /\ payins[p].status = "payin_pending" /\ sweeps[p] = "idle"
  /\ p \notin cash
  /\ sweeps' = [sweeps EXCEPT ![p] = "asked"]
  /\ UNCHANGED <<payins, cash, delivered, payouts, refundVars>>

(* It cancels the QR, which the bank refuses when it was paid meanwhile;   *)
(* the error is only logged.                                               *)
cancelQR(p) ==
  /\ sweeps[p] = "asked"
  /\ sweeps' = [sweeps EXCEPT ![p] = IF p \in cash THEN "refused" ELSE "cancelled"]
  /\ UNCHANGED <<payins, cash, delivered, payouts, refundVars>>

(* The status is saved over whatever the payment has become.               *)
failExpiredBankQrTx(p) ==
  /\ sweeps[p] \in {"cancelled", "refused"}
  /\ Marks(p, "failed")
  /\ sweeps' = [sweeps EXCEPT ![p] = "done"]
  /\ UNCHANGED <<cash, delivered, payouts, refundVars>>

(* An admin gives up a manual payment whose money never came.              *)
failUnpaid(p) ==
  /\ p \notin ByQr /\ p \notin cash /\ payins[p].status = "payin_pending"
  /\ Marks(p, "failed")
  /\ UNCHANGED <<cash, delivered, payouts, sweeps, refundVars>>

-----------------------------------------------------------------------------
(* The payout (Payout), with the statuses that matter here.                *)
dispatchPayout(p) ==
  /\ payins[p].status = "payin_confirmed" /\ payouts[p] = "idle"
  /\ Marks(p, "processing")
  /\ payouts' = [payouts EXCEPT ![p] = "running"]
  /\ UNCHANGED <<cash, delivered, sweeps, refundVars>>

(* It saves its outcome without looking again.                             *)
dispatchEnds(p) ==
  /\ payouts[p] = "running"
  /\ \/ Marks(p, "payout_sent") /\ payouts' = [payouts EXCEPT ![p] = "sent"]
     \/ \E s \in {"failed", "pending_funding"} :
          Marks(p, s) /\ payouts' = [payouts EXCEPT ![p] = "idle"]
  /\ UNCHANGED <<cash, delivered, sweeps, refundVars>>

(* retryPendingFundingTransactions, or an admin.                           *)
rearmed(p) ==
  /\ payins[p].status = "pending_funding"
  /\ payins' = [payins EXCEPT ![p].status = "payin_confirmed", ![p].proved = TRUE]
  /\ UNCHANGED <<cash, delivered, payouts, sweeps, refundVars>>

(* The provider pays, or not, and its webhook sets the status.             *)
payoutCompleted(p) ==
  /\ payouts[p] = "sent" /\ p \notin delivered
  /\ delivered' = delivered \cup {p}
  /\ Marks(p, "completed")
  /\ UNCHANGED <<cash, payouts, sweeps, refundVars>>

(* The provider denies it: its webhook, the reconciliation, or the script  *)
(* for a payout whose webhook never came.                                  *)
payoutFailed(p) ==
  /\ payouts[p] = "sent" /\ p \notin delivered
  /\ payouts' = [payouts EXCEPT ![p] = "ended"]
  /\ Marks(p, "failed")
  /\ UNCHANGED <<cash, delivered, sweeps, refundVars>>

(* A payout that was completed is reverted.                                *)
handleHarborReversal(p) ==
  /\ payins[p].status = "completed" /\ p \in delivered
  /\ delivered' = delivered \ {p}
  /\ payouts' = [payouts EXCEPT ![p] = "ended"]
  /\ Marks(p, "failed")
  /\ UNCHANGED <<cash, sweeps, refundVars>>

-----------------------------------------------------------------------------
(* The refund.                                                             *)

(* A status set by hand, with a reason and an audit entry, moves no money. *)
updateTransactionStatus(p) ==
  /\ payins[p].status = "failed"
  /\ Marks(p, "refunded")
  /\ UNCHANGED <<cash, delivered, payouts, sweeps, refundVars>>

(* registrarDevolucion looks for evidence of an earlier one, and not at    *)
(* the status.                                                             *)
registrarDevolucion(a, p) ==
  /\ refunds[a] = "none"
  /\ Alone => \A b \in Script : refunds[b] = "none"
  /\ payins[p].status \in RefundFrom /\ p \in cash
  /\ ~payins[p].evidence
  /\ refunds' = [refunds EXCEPT ![a] = p]
  /\ UNCHANGED <<payins, cash, delivered, credits, payouts, sweeps>>

Ends(a) == refunds' = [refunds EXCEPT ![a] = "none"]
Returned(p) == payins' = [payins EXCEPT ![p].status = "refunded", ![p].evidence = TRUE]

(* What was read before the session stands: the script's way, and the      *)
(* mutant of the admins'.                                                  *)
creditedAsRead(a, p) ==
  /\ refunds[a] = p /\ Ends(a)
  /\ Returned(p) /\ credits' = [credits EXCEPT ![p] = @ + 1]
  /\ UNCHANGED <<cash, delivered, payouts, sweeps>>

(* To the wallet: the payment is read again in the session, and wallet,    *)
(* movement, payment and audit entry are written together or not at all.   *)
acreditarDevolucionEnBilletera(a, p) ==
  /\ refunds[a] = p /\ Ends(a)
  /\ \/ ~payins[p].evidence /\ Returned(p) /\ credits' = [credits EXCEPT ![p] = @ + 1]
     \/ UNCHANGED <<payins, credits>>
  /\ UNCHANGED <<cash, delivered, payouts, sweeps>>

(* By the bank, with its reference, or without any evidence: saved over    *)
(* what another admin may have written.                                    *)
registrarTransferencia(a, p) ==
  /\ refunds[a] = p /\ Ends(a)
  /\ Returned(p) \/ Marks(p, "refunded")
  /\ UNCHANGED <<cash, delivered, credits, payouts, sweeps>>

(* The script for the debts of before the registrations: it reads what was *)
(* collected, is not completed and has no credit, on its way or not, and   *)
(* credits each to its wallet in a transaction of its own.                 *)
regularizarReads(a, p) ==
  /\ refunds[a] = "none"
  /\ Alone => \A b \in Refunder \cup Script : refunds[b] = "none"
  /\ payins[p].status \notin BOB_RELEASED_STATUSES /\ credits[p] = 0
  /\ payins[p].status \in BOB_POST_PAYIN_STATUSES \/ payins[p].proved
  /\ refunds' = [refunds EXCEPT ![a] = p]
  /\ UNCHANGED <<payins, cash, delivered, credits, payouts, sweeps>>

regularizarBob(a, p) == creditedAsRead(a, p)

CashNext ==
  \/ \E p \in Payin :
       \/ customerPays(p) \/ payinConfirmed(p) \/ failUnpaid(p)
       \/ sweepExpiredQRs(p) \/ cancelQR(p) \/ failExpiredBankQrTx(p)
       \/ dispatchPayout(p) \/ dispatchEnds(p) \/ rearmed(p)
       \/ payoutCompleted(p) \/ payoutFailed(p) \/ handleHarborReversal(p)
       \/ updateTransactionStatus(p)
  \/ \E a \in Refunder, p \in Payin :
       \/ registrarDevolucion(a, p) \/ acreditarDevolucionEnBilletera(a, p)
       \/ registrarTransferencia(a, p)
  \/ \E a \in Script, p \in Payin : regularizarReads(a, p) \/ regularizarBob(a, p)

RefundsSpec == CashInit /\ [][CashNext]_cashVars

-----------------------------------------------------------------------------
(* What getBOBCommitted counts, and what the coverage of the treasury sets *)
(* aside from the bank's balance.                                          *)
Committed(p) ==
  /\ payins[p].status \notin BOB_RELEASED_STATUSES
  /\ payins[p].status \in BOB_POST_PAYIN_STATUSES \/ payins[p].proved
  /\ payins[p].status = "refunded" => ~payins[p].evidence
getBOBCommitted == {p \in Payin : Committed(p)}

RefundsTypeOK ==
  /\ payins \in [Payin -> [status : PayinStatus, proved : BOOLEAN, evidence : BOOLEAN]]
  /\ cash \subseteq Payin /\ delivered \subseteq Payin
  /\ credits \in [Payin -> Nat]
  /\ payouts \in [Payin -> {"idle", "running", "sent", "ended"}]
  /\ sweeps \in [Payin -> {"idle", "asked", "cancelled", "refused", "done"}]
  /\ refunds \in [Refunder \cup Script -> Payin \cup {"none"}]

(* Two admins do not credit the same payment to its wallet twice.          *)
CreditedOnce == \A p \in Payin : credits[p] <= 1

(* The coverage sets aside all the cash that is owed: what was confirmed,  *)
(* neither paid out nor given back, whichever status it went through.      *)
Owed(p) == p \in cash /\ p \notin delivered /\ ~payins[p].evidence
OwedIsCommitted ==
  \A p \in Payin : Owed(p) /\ payins[p].status # "payin_pending" => p \in getBOBCommitted

(* "Se le devolvió el dinero de una operación que se cobró y no se         *)
(* ejecutó".                                                               *)
RefundedIsNotExecuted == \A p \in Payin : ~(payins[p].evidence /\ p \in delivered)

-----------------------------------------------------------------------------
(* What the proofs suppose of names: "none" is no payment, and a run of    *)
(* the script is no admin.                                                 *)
Apart == "none" \notin Payin /\ Refunder \cap Script = {}

(* What setting the status of a payment does to the payments.              *)
PayinTypes == payins \in [Payin -> [status : PayinStatus, proved : BOOLEAN, evidence : BOOLEAN]]

LEMMA MarksOnly ==
  ASSUME PayinTypes, NEW p \in Payin, NEW s \in PayinStatus, Marks(p, s)
  PROVE  /\ PayinTypes'
         /\ payins'[p].status = s
         /\ \A q \in Payin : /\ payins'[q].proved = payins[q].proved
                            /\ payins'[q].evidence = payins[q].evidence
                            /\ q # p => payins'[q] = payins[q]
BY DEF Marks, PayinTypes

LEMMA ReturnedOnly ==
  ASSUME PayinTypes, NEW p \in Payin, Returned(p)
  PROVE  /\ PayinTypes'
         /\ payins'[p].status = "refunded" /\ payins'[p].evidence
         /\ \A q \in Payin : /\ payins'[q].proved = payins[q].proved
                            /\ q # p => payins'[q] = payins[q]
BY DEF Returned, PayinTypes, PayinStatus

LEMMA ConfirmedOnly ==
  ASSUME PayinTypes, NEW p \in Payin,
         payins' = [payins EXCEPT ![p].status = "payin_confirmed", ![p].proved = TRUE]
  PROVE  PayinTypes'
BY DEF PayinTypes, PayinStatus, BOB_POST_PAYIN_STATUSES

(* Types.                                                                  *)
LEMMA RefundsTypes ==
  ASSUME RefundsTypeOK, [CashNext]_cashVars
  PROVE  RefundsTypeOK'
<1>p. PayinTypes
  BY DEF RefundsTypeOK, PayinTypes
<1>s. /\ {"payin_pending", "failed", "refunded", "completed", "payin_confirmed", "processing",
          "payout_sent", "pending_funding"} \subseteq PayinStatus
  BY DEF PayinStatus, BOB_RELEASED_STATUSES, BOB_POST_PAYIN_STATUSES
<1> USE DEF RefundsTypeOK, refundVars, cashVars
<1>1. CASE UNCHANGED cashVars
  BY <1>1
<1>2. ASSUME NEW p \in Payin, customerPays(p)
      PROVE  RefundsTypeOK'
  BY <1>2 DEF customerPays
<1>3. ASSUME NEW p \in Payin, payinConfirmed(p) \/ rearmed(p)
      PROVE  RefundsTypeOK'
  <2>1. PayinTypes'
    BY <1>3, <1>p, ConfirmedOnly DEF payinConfirmed, rearmed
  <2> QED
    BY <1>3, <2>1 DEF PayinTypes, payinConfirmed, rearmed
<1>4. ASSUME NEW p \in Payin, sweepExpiredQRs(p) \/ cancelQR(p)
      PROVE  RefundsTypeOK'
  BY <1>4 DEF sweepExpiredQRs, cancelQR
<1>5. ASSUME NEW p \in Payin, NEW s \in PayinStatus, Marks(p, s),
             UNCHANGED <<cash, credits, refunds>>,
             delivered' \in {delivered, delivered \cup {p}, delivered \ {p}},
             sweeps' \in {sweeps, [sweeps EXCEPT ![p] = "done"]},
             payouts' = payouts \/ \E t \in {"idle", "running", "sent", "ended"} :
                                    payouts' = [payouts EXCEPT ![p] = t]
      PROVE  RefundsTypeOK'
  <2>1. PayinTypes'
    BY <1>5, <1>p, MarksOnly
  <2>2. delivered' \subseteq Payin
    BY <1>5
  <2>3. sweeps' \in [Payin -> {"idle", "asked", "cancelled", "refused", "done"}]
    BY <1>5
  <2>4. payouts' \in [Payin -> {"idle", "running", "sent", "ended"}]
    BY <1>5
  <2> QED
    BY <1>5, <2>1, <2>2, <2>3, <2>4 DEF PayinTypes
<1>6. ASSUME NEW p \in Payin, failUnpaid(p) \/ failExpiredBankQrTx(p)
      PROVE  RefundsTypeOK'
  BY <1>6, <1>5, <1>s DEF failUnpaid, failExpiredBankQrTx
<1>7. ASSUME NEW p \in Payin, dispatchPayout(p) \/ dispatchEnds(p)
      PROVE  RefundsTypeOK'
  <2>1. CASE dispatchPayout(p)
    BY <2>1, <1>5, <1>s DEF dispatchPayout
  <2>2. CASE dispatchEnds(p)
    BY <2>2, <1>5, <1>s DEF dispatchEnds
  <2> QED
    BY <1>7, <2>1, <2>2
<1>8. ASSUME NEW p \in Payin, payoutCompleted(p) \/ payoutFailed(p) \/ handleHarborReversal(p)
                              \/ updateTransactionStatus(p)
      PROVE  RefundsTypeOK'
  BY <1>8, <1>5, <1>s DEF payoutCompleted, payoutFailed, handleHarborReversal,
                          updateTransactionStatus
<1>9. ASSUME NEW a \in Refunder \cup Script, NEW p \in Payin,
             registrarDevolucion(a, p) \/ regularizarReads(a, p)
      PROVE  RefundsTypeOK'
  BY <1>9 DEF registrarDevolucion, regularizarReads
<1>10. ASSUME NEW a \in Refunder \cup Script, NEW p \in Payin, Ends(a),
              UNCHANGED <<cash, delivered, payouts, sweeps>>,
              credits' \in {credits, [credits EXCEPT ![p] = @ + 1]},
              payins' = payins \/ Returned(p) \/ Marks(p, "refunded")
       PROVE  RefundsTypeOK'
  <2>1. PayinTypes'
    BY <1>10, <1>p, <1>s, MarksOnly, ReturnedOnly DEF PayinTypes
  <2>2. credits' \in [Payin -> Nat]
    BY <1>10
  <2>3. refunds' \in [Refunder \cup Script -> Payin \cup {"none"}]
    BY <1>10 DEF Ends
  <2> QED
    BY <1>10, <2>1, <2>2, <2>3 DEF PayinTypes
<1>11. ASSUME NEW a \in Refunder \cup Script, NEW p \in Payin,
              acreditarDevolucionEnBilletera(a, p) \/ registrarTransferencia(a, p)
                \/ creditedAsRead(a, p)
       PROVE  RefundsTypeOK'
  BY <1>11, <1>10 DEF acreditarDevolucionEnBilletera, registrarTransferencia, creditedAsRead
<1> QED
  BY <1>1, <1>2, <1>3, <1>4, <1>6, <1>7, <1>8, <1>9, <1>11 DEF CashNext, regularizarBob

-----------------------------------------------------------------------------
(* The cash that is owed.  Whoever has the cash of a payment that has left *)
(* payin_pending has the proof of its collection, and so has whatever is   *)
(* at work on it; a QR that the sweep has asked about was not paid.        *)
Collected(p) ==
  /\ p \in cash => payins[p].status = "payin_pending" \/ payins[p].proved
  /\ payins[p].status \in BOB_POST_PAYIN_STATUSES => payins[p].proved
  /\ payouts[p] # "idle" => payins[p].proved
  /\ sweeps[p] # "idle" => p \notin cash
  /\ payins[p].status \in BOB_RELEASED_STATUSES => p \in delivered /\ payins[p].proved
  /\ \A a \in Refunder \cup Script : refunds[a] = p => payins[p].proved

CollectedInv == RefundsTypeOK /\ \A p \in Payin : Collected(p)

LEMMA NextCollected ==
  ASSUME CollectedInv, [CashNext]_cashVars, PaidInSweep = FALSE,
         "payin_pending" \notin RefundFrom, "none" \notin Payin
  PROVE  CollectedInv'
<1>t. RefundsTypeOK'
  BY RefundsTypes DEF CollectedInv
<1> SUFFICES ASSUME NEW q \in Payin PROVE Collected(q)'
  BY <1>t DEF CollectedInv
<1>q. Collected(q) /\ RefundsTypeOK
  BY DEF CollectedInv
<1> USE DEF Collected, RefundsTypeOK, BOB_RELEASED_STATUSES, BOB_POST_PAYIN_STATUSES, Marks,
            refundVars
<1>1. CASE UNCHANGED cashVars
  BY <1>1, <1>q DEF cashVars
<1>2. ASSUME NEW p \in Payin, customerPays(p) \/ payinConfirmed(p) \/ failUnpaid(p)
      PROVE  Collected(q)'
  BY <1>2, <1>q DEF customerPays, payinConfirmed, failUnpaid
<1>3. ASSUME NEW p \in Payin, sweepExpiredQRs(p) \/ cancelQR(p) \/ failExpiredBankQrTx(p)
      PROVE  Collected(q)'
  BY <1>3, <1>q DEF sweepExpiredQRs, cancelQR, failExpiredBankQrTx
<1>4. ASSUME NEW p \in Payin, dispatchPayout(p) \/ dispatchEnds(p) \/ rearmed(p)
      PROVE  Collected(q)'
  <2>1. CASE dispatchPayout(p)
    BY <2>1, <1>q DEF dispatchPayout
  <2>2. CASE dispatchEnds(p)
    BY <2>2, <1>q DEF dispatchEnds
  <2>3. CASE rearmed(p)
    BY <2>3, <1>q DEF rearmed
  <2> QED
    BY <1>4, <2>1, <2>2, <2>3
<1>5. ASSUME NEW p \in Payin, payoutCompleted(p) \/ payoutFailed(p) \/ handleHarborReversal(p)
                              \/ updateTransactionStatus(p)
      PROVE  Collected(q)'
  <2>1. CASE payoutCompleted(p)
    BY <2>1, <1>q DEF payoutCompleted
  <2>2. CASE payoutFailed(p)
    BY <2>2, <1>q DEF payoutFailed
  <2>3. CASE handleHarborReversal(p)
    BY <2>3, <1>q DEF handleHarborReversal
  <2>4. CASE updateTransactionStatus(p)
    BY <2>4, <1>q DEF updateTransactionStatus
  <2> QED
    BY <1>5, <2>1, <2>2, <2>3, <2>4
<1>6. ASSUME NEW a \in Refunder \cup Script, NEW p \in Payin,
             registrarDevolucion(a, p) \/ regularizarReads(a, p)
      PROVE  Collected(q)'
  BY <1>6, <1>q DEF registrarDevolucion, regularizarReads
<1>7. ASSUME NEW a \in Refunder \cup Script, NEW p \in Payin,
             acreditarDevolucionEnBilletera(a, p) \/ registrarTransferencia(a, p)
               \/ creditedAsRead(a, p)
      PROVE  Collected(q)'
  BY SMTT(60), <1>7, <1>q DEF acreditarDevolucionEnBilletera, registrarTransferencia, creditedAsRead,
                    Ends, Returned
<1> QED
  BY <1>1, <1>2, <1>3, <1>4, <1>5, <1>6, <1>7 DEF CashNext, regularizarBob

(* getBOBCommitted counts all the cash that is owed, for any number of     *)
(* payments, admins and runs of the script, whatever statuses it went      *)
(* through, when a QR being cancelled is not paid and nobody refunds a     *)
(* payment that waits for its payin.                                       *)
THEOREM OwedAlwaysCommitted ==
  ASSUME PaidInSweep = FALSE, "payin_pending" \notin RefundFrom, "none" \notin Payin
  PROVE  RefundsSpec => []OwedIsCommitted
<1>1. CashInit => CollectedInv
  BY DEF CashInit, CollectedInv, Collected, RefundsTypeOK, PayinStatus, BOB_RELEASED_STATUSES,
         BOB_POST_PAYIN_STATUSES
<1>2. CollectedInv /\ [CashNext]_cashVars => CollectedInv'
  BY NextCollected
<1>3. CollectedInv => OwedIsCommitted
  BY DEF CollectedInv, Collected, OwedIsCommitted, Owed, getBOBCommitted, Committed,
         RefundsTypeOK
<1> QED
  BY <1>1, <1>2, <1>3, PTL DEF RefundsSpec

-----------------------------------------------------------------------------
(* The refunds.  A credit leaves its evidence; while the script runs it is *)
(* alone, and nothing was credited for the payment it has read.            *)
CreditTells ==
  \A p \in Payin : credits[p] <= 1 /\ (credits[p] # 0 => payins[p].evidence)
ScriptAlone ==
  \A a \in Script : refunds[a] # "none" =>
    /\ credits[refunds[a]] = 0
    /\ \A b \in Refunder \cup Script : refunds[b] # "none" => b = a

CreditInv == RefundsTypeOK /\ CreditTells /\ ScriptAlone

LEMMA NextCredit ==
  ASSUME CreditInv, [CashNext]_cashVars, Alone = TRUE, Apart
  PROVE  CreditInv'
<1>t. RefundsTypeOK' /\ RefundsTypeOK
  BY RefundsTypes DEF CreditInv
<1>1. ASSUME UNCHANGED refundVars,
             \A p \in Payin : payins'[p].evidence = payins[p].evidence
      PROVE  CreditInv'
  BY <1>1, <1>t DEF CreditInv, CreditTells, ScriptAlone, refundVars
<1>2. ASSUME NEW p \in Payin,
             \/ customerPays(p) \/ payinConfirmed(p) \/ failUnpaid(p)
             \/ sweepExpiredQRs(p) \/ cancelQR(p) \/ failExpiredBankQrTx(p)
      PROVE  CreditInv'
  BY <1>1, <1>2, <1>t DEF customerPays, payinConfirmed, failUnpaid, sweepExpiredQRs, cancelQR,
                          failExpiredBankQrTx, RefundsTypeOK, Marks
<1>3. ASSUME NEW p \in Payin,
             \/ dispatchPayout(p) \/ dispatchEnds(p) \/ rearmed(p)
             \/ payoutCompleted(p) \/ payoutFailed(p) \/ handleHarborReversal(p)
             \/ updateTransactionStatus(p)
      PROVE  CreditInv'
  BY <1>1, <1>3, <1>t DEF dispatchPayout, dispatchEnds, rearmed, payoutCompleted, payoutFailed,
                          handleHarborReversal, updateTransactionStatus, RefundsTypeOK, Marks
<1>4. ASSUME NEW a \in Refunder, NEW p \in Payin, registrarDevolucion(a, p)
      PROVE  CreditInv'
  <2>1. CreditTells'
    BY <1>4 DEF registrarDevolucion, CreditInv, CreditTells
  <2>2. ScriptAlone'
    BY <1>4, <1>t DEF registrarDevolucion, ScriptAlone, RefundsTypeOK, Apart
  <2> QED
    BY <1>t, <2>1, <2>2 DEF CreditInv
<1>5. ASSUME NEW a \in Script, NEW p \in Payin, regularizarReads(a, p)
      PROVE  CreditInv'
  <2>1. CreditTells'
    BY <1>5 DEF regularizarReads, CreditInv, CreditTells
  <2>2. ScriptAlone'
    BY <1>5, <1>t DEF regularizarReads, ScriptAlone, RefundsTypeOK
  <2> QED
    BY <1>t, <2>1, <2>2 DEF CreditInv
(* Whoever ends was the only one the script could disturb.                 *)
<1>6. ASSUME NEW a \in Refunder \cup Script, NEW p \in Payin, refunds[a] = p, Ends(a),
             \A r \in Payin : r # p => credits'[r] = credits[r]
      PROVE  ScriptAlone'
  <2>1. ASSUME NEW b \in Script, refunds'[b] # "none"
        PROVE  FALSE \/ (/\ credits'[refunds'[b]] = 0
                         /\ \A c \in Refunder \cup Script : refunds'[c] # "none" => c = b)
    BY <1>6, <1>t, <2>1 DEF Ends, CreditInv, ScriptAlone, RefundsTypeOK, Apart
  <2> QED
    BY <2>1 DEF ScriptAlone
<1>7. ASSUME NEW a \in Refunder, NEW p \in Payin,
             acreditarDevolucionEnBilletera(a, p) \/ registrarTransferencia(a, p)
      PROVE  CreditInv'
  <2>1. /\ refunds[a] = p /\ Ends(a) /\ \A r \in Payin : r # p => credits'[r] = credits[r]
    BY <1>7, <1>t DEF acreditarDevolucionEnBilletera, registrarTransferencia, RefundsTypeOK
  <2>2. CreditTells'
    BY <1>7, <1>t DEF acreditarDevolucionEnBilletera, registrarTransferencia, RefundsTypeOK,
                      CreditInv, CreditTells, Returned, Marks
  <2> QED
    BY <1>t, <1>6, <2>1, <2>2 DEF CreditInv
<1>8. ASSUME NEW a \in Script, NEW p \in Payin, regularizarBob(a, p)
      PROVE  CreditInv'
  <2>1. /\ refunds[a] = p /\ Ends(a) /\ \A r \in Payin : r # p => credits'[r] = credits[r]
    BY <1>8, <1>t DEF regularizarBob, creditedAsRead, RefundsTypeOK
  <2>2. credits[p] = 0
    BY <2>1 DEF CreditInv, ScriptAlone, Apart
  <2>3. CreditTells'
    BY <1>8, <1>t, <2>2 DEF regularizarBob, creditedAsRead, RefundsTypeOK, CreditInv,
                            CreditTells, Returned
  <2> QED
    BY <1>t, <1>6, <2>1, <2>3 DEF CreditInv
<1>9. CASE UNCHANGED cashVars
  BY <1>1, <1>9 DEF cashVars, refundVars
<1> QED
  BY <1>2, <1>3, <1>4, <1>5, <1>7, <1>8, <1>9 DEF CashNext

(* A payment is credited to its wallet once, whichever admins work on it   *)
(* at the same time, as long as they wait for the script to end.           *)
THEOREM RefundsCreditedOnce ==
  ASSUME Alone = TRUE, Apart
  PROVE  RefundsSpec => []CreditedOnce
<1>1. CashInit => CreditInv
  BY DEF CashInit, CreditInv, CreditTells, ScriptAlone, RefundsTypeOK, PayinStatus,
         BOB_RELEASED_STATUSES, BOB_POST_PAYIN_STATUSES
<1>2. CreditInv /\ [CashNext]_cashVars => CreditInv'
  BY NextCredit
<1>3. CreditInv => CreditedOnce
  BY DEF CreditInv, CreditTells, CreditedOnce
<1> QED
  BY <1>1, <1>2, <1>3, PTL DEF RefundsSpec
=============================================================================
