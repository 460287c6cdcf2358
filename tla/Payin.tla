-------------------------------- MODULE Payin --------------------------------
(***************************************************************************)
(* How a payment is collected: its creation, the webhooks of Fintoc, Vita  *)
(* and the bank, the jobs that reconcile and expire bank QRs, the cleanup  *)
(* of abandoned payments and what an admin does by hand.  Whoever confirms *)
(* the payin goes on to dispatchPayout (step "gate").                      *)
(***************************************************************************)
EXTENDS PaymentStore

-----------------------------------------------------------------------------
(* The user and the collecting provider.                                   *)

collect ==
  /\ payer = "unpaid"
  /\ tx.status # "new"
  /\ corridor.payin # "walletUSDC"
  /\ \/ /\ payer' = "paid"
        /\ notices' = IF corridor.payin = "manual" THEN notices
                      ELSE notices \cup {"payin_completed"}
     \/ /\ corridor.payin = "vita"
        /\ payer' = "denied"
        /\ notices' = notices \cup {"payin_denied"}
  /\ UNCHANGED <<tx, work, corridor, payout, orders, sends, hold, faults>>

-----------------------------------------------------------------------------
(* A payment funded from the USDC wallet is born confirmed, with its       *)
(* amount reserved, and dispatched by the same request.                    *)
initCrossBorderPayment(w) ==
  /\ tx.status = "new"
  /\ Free(w)
  /\ tx' = [NoDoc EXCEPT !.status =
              CASE corridor.payin = "walletUSDC" -> "payin_confirmed"
                [] corridor.payin = "manual" -> "pending_comprobante"
                [] OTHER -> "payin_pending"]
  /\ IF corridor.payin = "walletUSDC"
       THEN /\ hold' = "held"
            /\ Goes(w, [Idle EXCEPT !.step = "gate", !.caller = "create",
                                    !.read = tx', !.doc = tx'])
       ELSE UNCHANGED <<hold, work>>
  /\ UNCHANGED <<corridor, providers, faults>>

uploadPaymentProof(w) ==
  \/ /\ corridor.payin = "manual"
     /\ Load(w, "proof", "new", "request")
  \/ LET d == [work[w].doc EXCEPT
                 !.proof = TRUE,
                 !.status = IF @ = "pending_comprobante" THEN "payin_pending" ELSE @]
     IN At(w, "proof") /\ SaveOrLose(w, d, "idle", "idle")

(* The hourly updateMany: instructions expired, no proof, no bank QR.      *)
cleanupOrphanTransactions ==
  /\ tx.status \in {"payin_pending", "pending_comprobante"}
  /\ ~tx.proof
  /\ corridor.payin # "bankQr"
  /\ tx' = [tx EXCEPT !.status = "failed"]
  /\ UNCHANGED <<work, corridor, providers, hold, faults>>

-----------------------------------------------------------------------------
(* The payin is confirmed: the save, then dispatchPayout without waiting   *)
(* for it, so that a job that confirmed it is free to go on.               *)
Confirm(w, d) ==
  /\ tx' = Merged(work[w].read, d)
  /\ Goes(w, [work[w] EXCEPT !.step = "gate", !.read = d, !.doc = d,
                             !.caller = "request"])
  /\ UNCHANGED <<corridor, providers, hold, faults>>

Confirmed(d) == [d EXCEPT !.status = "payin_confirmed"]
Failed(d) == [d EXCEPT !.status = "failed", !.transient = FALSE]

(* Mutant: the duplicate check comes after the entry it looks for.         *)
handleFintocLogFirst(w) ==
  \/ /\ corridor.payin = "fintoc"
     /\ "payin_completed" \in notices
     /\ Turn("fintoc")
     /\ Load(w, "fintocLog", "payin_completed", "request")
  \/ LET d == [work[w].doc EXCEPT !.log = @ \cup {"payin_completed"}]
     IN At(w, "fintocLog") /\ SaveOrLose(w, d, "idle", "idle")

(* Fintoc: the log entry is saved first and is what a later delivery of    *)
(* the same webhook is recognised by.                                      *)
handleFintocIPN(w) ==
  \/ /\ corridor.payin = "fintoc"
     /\ "payin_completed" \in notices \ tx.log
     /\ Turn("fintoc")
     /\ Load(w, "fintocLog", "payin_completed", "request")
  \/ LET d == [work[w].doc EXCEPT !.log = @ \cup {"payin_completed"}]
     IN At(w, "fintocLog") /\ SaveOrLose(w, d, "fintocDecide", "fintocDecide")
  \/ /\ At(w, "fintocDecide")
     /\ IF work[w].doc.status = "payin_pending"
          THEN \/ Confirm(w, Confirmed(work[w].doc))
               \/ Lose(w, work[w].doc, "idle")
          ELSE End(w) /\ Still

(* Vita: payin and payout share the order number, so the status of the     *)
(* document decides what the webhook is about.                             *)
VitaPayinStates == {"payin_pending", "initiated", "pending"}

(* Mutant: the status it read is not looked at.                            *)
vitaDecideAnyStatus(w) ==
  LET d == work[w].doc IN
  /\ At(w, "vitaDecide")
  /\ IF work[w].arg = "payin_completed"
       THEN Confirm(w, Confirmed(d))
       ELSE SaveOrLose(w, [d EXCEPT !.status = "completed"], "idle", "idle")

vitaDecide(w) ==
  LET d == work[w].doc
      completed == work[w].arg \in {"payin_completed", "completed"}
  IN
  /\ At(w, "vitaDecide")
  /\ CASE d.status \in VitaPayinStates /\ completed ->
            Confirm(w, Confirmed(d)) \/ Lose(w, d, "idle")
       [] d.status = "payout_sent" /\ completed ->
            SaveOrLose(w, [d EXCEPT !.status = "completed"], "idle", "idle")
       [] d.status \in VitaPayinStates \cup {"payout_sent"} /\ ~completed ->
            SaveOrLose(w, Failed(d), "idle", "idle")
       [] OTHER -> End(w) /\ Still

handleVitaIPN(w, n) ==
  /\ n \in notices
  /\ \/ corridor.payin = "vita" /\ n \in {"payin_completed", "payin_denied"}
     \/ corridor.payout = "vitaWallet" /\ n \in {"completed", "failed"}
  /\ Turn("vita")
  /\ Load(w, "vitaDecide", n, "request")

-----------------------------------------------------------------------------
(* The bank's QR.                                                          *)

handleBankQrIPN(w) ==
  /\ corridor.payin = "bankQr"
  /\ "payin_completed" \in notices
  /\ tx.status = "payin_pending"
  /\ ~tx.paidAt
  /\ Load(w, "bankConfirm", "payin_completed", "request")

(* Phase A of the job: the bank lists the QR as paid.                      *)
reconcilePaidQRs(w) ==
  /\ corridor.payin = "bankQr"
  /\ JobFree({"bankJob"})
  /\ payer = "paid"
  /\ tx.status = "payin_pending"
  /\ Load(w, "bankConfirm", "new", "bankJob")

(* After the await on the bank (verifyAuthenticity, getPaidQRs,            *)
(* getQRStatus): confirmed whatever the document has become.               *)
confirmBankQrTx(w) ==
  /\ At(w, "bankConfirm")
  /\ \/ Confirm(w, [Confirmed(work[w].doc) EXCEPT !.paidAt = TRUE])
     \/ Lose(w, work[w].doc, "idle")

(* Phase B: an expired QR that its list still showed as unpaid.            *)
(* Mutant: an unpaid QR is confirmed.                                      *)
sweepStatusUnpaid(w) ==
  /\ At(w, "sweepStatus")
  /\ Goto(w, IF payer = "cancelled" THEN "sweepFail" ELSE "bankConfirm")
  /\ Still

sweepStatus(w) ==
  /\ At(w, "sweepStatus")
  /\ \/ /\ Goto(w, CASE payer = "paid" -> "bankConfirm"
                     [] payer = "unpaid" -> "sweepCancel"
                     [] OTHER -> "sweepFail")
        /\ UNCHANGED faults
     \/ /\ Fault         \* no answer: wait for the next run, or give up
        /\ \E s \in {"idle", "sweepFail"} : Goto(w, s)
  /\ UNCHANGED <<tx, corridor, providers, hold>>

(* Mutant: the expired QR is not cancelled.                                *)
sweepWithoutCancel(w) ==
  /\ At(w, "sweepCancel")
  /\ Goto(w, "sweepFail")
  /\ Still

(* cancelQR: an error (the QR was paid, the bank is down) is ignored.      *)
sweepCancel(w) ==
  /\ At(w, "sweepCancel")
  /\ Goto(w, "sweepFail")
  /\ \/ /\ payer = "unpaid"
        /\ payer' = "cancelled"
        /\ UNCHANGED faults
     \/ /\ payer # "unpaid"
        /\ UNCHANGED <<payer, faults>>
     \/ /\ Fault
        /\ UNCHANGED payer
  /\ UNCHANGED <<tx, corridor, payout, orders, sends, notices, hold>>

failExpiredBankQrTx(w) ==
  /\ At(w, "sweepFail")
  /\ SaveOrLose(w, Failed(work[w].doc), "idle", "idle")

sweepExpiredQRs(w) ==
  /\ corridor.payin = "bankQr"
  /\ JobFree({"bankJob"})
  /\ tx.status = "payin_pending"
  /\ ~tx.paidAt
  /\ Load(w, "sweepStatus", "new", "bankJob")

-----------------------------------------------------------------------------
(* The admin.                                                              *)

(* A payin is confirmed by hand once the admin has seen the money.         *)
updateTransactionStatus(w) ==
  LET d == work[w].doc
      new == work[w].arg
  IN
  \/ /\ corridor.payin = "manual"
     /\ payer = "paid"
     /\ Load(w, "admin", "payin_confirmed", "request")
  \/ \E s \in AdminForces : Load(w, "admin", s, "request")
  \/ /\ At(w, "admin")
     /\ CASE new # "payin_confirmed" ->
               SaveOrLose(w, [d EXCEPT !.status = new], "idle", "idle")
          [] new = "payin_confirmed" /\ d.status \in {"payin_pending", "pending_funding"} ->
               Confirm(w, Confirmed(d)) \/ Lose(w, d, "idle")
          [] OTHER -> End(w) /\ Still

(* New funding: the gate is armed again with one conditional update.       *)
(* Mutant: armed whatever the status has become since it was listed.       *)
rearmAny(w) ==
  /\ Free(w)
  /\ tx.status \in {"pending_funding", "failed"}
  /\ tx' = Confirmed(tx)
  /\ Goes(w, [Idle EXCEPT !.step = "gate", !.read = tx', !.doc = tx'])
  /\ UNCHANGED <<corridor, providers, hold, faults>>

retryPendingFundingTransactions(w) ==
  /\ Free(w)
  /\ tx.status = "pending_funding"
  /\ tx' = Confirmed(tx)
  /\ Goes(w, [Idle EXCEPT !.step = "gate", !.read = tx', !.doc = tx'])
  /\ UNCHANGED <<corridor, providers, hold, faults>>

-----------------------------------------------------------------------------
PayinStep(w) ==
  \/ uploadPaymentProof(w)
  \/ handleFintocIPN(w)
  \/ vitaDecide(w)
  \/ confirmBankQrTx(w)
  \/ sweepStatus(w)
  \/ sweepCancel(w)
  \/ failExpiredBankQrTx(w)
  \/ updateTransactionStatus(w)

PayinStart(w) ==
  \/ initCrossBorderPayment(w)
  \/ \E n \in Notice : handleVitaIPN(w, n)
  \/ handleBankQrIPN(w)
  \/ reconcilePaidQRs(w)
  \/ sweepExpiredQRs(w)
  \/ retryPendingFundingTransactions(w)
=============================================================================
