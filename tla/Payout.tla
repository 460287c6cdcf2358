-------------------------------- MODULE Payout --------------------------------
(***************************************************************************)
(* How a confirmed payment is paid out: dispatchPayout and its two rails   *)
(* (Harbor with USDC on Stellar, Vita), the webhooks of Harbor, the jobs   *)
(* that poll Harbor and Vita, the retry of transient Harbor failures, and  *)
(* the providers themselves.                                               *)
(***************************************************************************)
EXTENDS PaymentStore

(* Where the dispatch goes when it returns: initCrossBorderPayment waits *)
(* for it, everybody else has already answered.                            *)
After(w) == IF work[w].caller = "create" THEN "settle" ELSE "idle"

(* The jobs pass over what was saved in the last minutes (RETRY_BACKOFF_MS *)
(* is five), which is longer than any dispatch takes.                      *)
Dispatching == {"gate", "route", "owlPay", "create", "store", "send", "submit", "sent",
                "failTransient", "failOther", "vitaPay", "vitaSent", "recover",
                "recoverSave", "settle"}
Untouched == \A w \in Worker : work[w].step \notin Dispatching

(* Two payouts of the same kind are as bad as more.                        *)
OneMore(n) == IF n < 2 THEN n + 1 ELSE n

-----------------------------------------------------------------------------
(* dispatchPayout.                                                         *)

(* The atomic gate: findOneAndUpdate on the status.  The handler goes on   *)
(* with the document it returns.                                           *)
dispatchGate(w) ==
  /\ At(w, "gate")
  /\ IF tx.status = "payin_confirmed"
       THEN /\ tx' = [tx EXCEPT !.status = "processing"]
            /\ Goes(w, [work[w] EXCEPT !.step = "route", !.read = tx', !.doc = tx'])
            /\ UNCHANGED <<corridor, providers, hold, faults>>
       ELSE Goto(w, After(w)) /\ Still

dispatchRoute(w) ==
  LET d == work[w].doc
      drifted == [d EXCEPT !.status = "pending_fx_review"]
      byHand == [d EXCEPT !.status = "payout_pending"]
  IN
  /\ At(w, "route")
  /\ \/ corridor.payout = "owlPay" /\ Goto(w, "owlPay") /\ Still
     \/ corridor.payout = "vitaWallet" /\ Goto(w, "vitaPay") /\ Still
     \/ /\ corridor.payout = "anchorBolivia"
        /\ SaveOrLose(w, byHand, After(w), After(w))
     \/ /\ corridor.payout # "anchorBolivia"
        /\ corridor.payin \in {"manual", "bankQr", "walletUSDC"}
        /\ SaveOrLose(w, drifted, After(w), After(w))
     \/ Lose(w, d, After(w))     \* the corridor cannot be read
     \/ Lose(w, d, "recover")    \* any other exception

(* The catch of dispatchPayout reads the document again.                   *)
dispatchRecover(w) ==
  \/ /\ At(w, "recover")
     /\ Goes(w, [work[w] EXCEPT
                   !.step = IF tx.status = "processing" THEN "recoverSave" ELSE After(w),
                   !.read = tx, !.doc = tx])
     /\ Still
  \/ LET d == [work[w].doc EXCEPT !.status = "failed"]
     IN At(w, "recoverSave") /\ SaveOrLose(w, d, After(w), After(w))

(* initCrossBorderPayment reads the status after the dispatch and lets   *)
(* go of the reserve when the payment got nowhere.                         *)
settleCreate(w) ==
  /\ At(w, "settle")
  /\ \/ /\ hold' = IF tx.status \in {"payin_confirmed", "failed"} THEN "released" ELSE hold
        /\ End(w)
        /\ UNCHANGED <<tx, corridor, providers, faults>>
     \/ Lose(w, work[w].doc, "idle")

-----------------------------------------------------------------------------
(* tryOwlPayV2.  What it throws ends in a step "fail...", by the category  *)
(* mapHarborError gives the error.                                         *)
Throws == {"failTransient", "failOther"}

tryOwlPayV2(w) ==
  LET d == work[w].doc IN
  /\ At(w, "owlPay")
  /\ IF d.ref
       THEN /\ \E on \in SendSwitch : Goto(w, IF ~d.hash /\ on THEN "send" ELSE After(w))
            /\ Still
       ELSE \/ SaveOrLose(w, [d EXCEPT !.status = "failed"], After(w), "failOther")
            \/ SaveOrLose(w, [d EXCEPT !.status = "pending_funding"], After(w), "failOther")
            \/ Goto(w, "create") /\ Still
            \/ \E s \in Throws : Lose(w, d, s)

(* POST /v2/transfers: application_transfer_uuid makes Harbor create one   *)
(* transfer for a payment, however often it is asked.                      *)
createOwlPayTransfer(w) ==
  /\ At(w, "create")
  /\ \/ /\ payout' = IF payout = "none" THEN "created" ELSE payout
        /\ notices' = notices \cup {"progress"}
        /\ \/ Goto(w, "store") /\ UNCHANGED faults
           \/ Goto(w, "failTransient") /\ Fault       \* the answer is lost
     \/ /\ \E s \in Throws : Goto(w, s)
        /\ UNCHANGED <<payout, notices, faults>>
  /\ UNCHANGED <<tx, corridor, payer, orders, sends, hold>>

storeTransfer(w) ==
  LET d == [work[w].doc EXCEPT !.ref = TRUE, !.status = "payout_pending_usdc_send"]
  IN /\ At(w, "store")
     /\ \E on \in SendSwitch :
          SaveOrLose(w, d, IF on THEN "send" ELSE After(w), "failOther")

(* Mutant: it does not look.                                               *)
sendWithoutLookup(w) ==
  /\ At(w, "send")
  /\ Goto(w, "submit")
  /\ Still

(* sendUSDCToHarbor looks for a payment with the memo before it makes one. *)
(* findTransactionByMemo answers null when Horizon does not answer.        *)
findTransactionByMemo(w) ==
  /\ At(w, "send")
  /\ \/ Goto(w, IF sends > 0 THEN "sent" ELSE "submit") /\ Still
     \/ ~HorizonAnswers /\ Lose(w, work[w].doc, "submit")
     \/ Goto(w, "failOther") /\ Still

submitTransaction(w) ==
  /\ At(w, "submit")
  /\ \/ /\ sends' = OneMore(sends)
        /\ IF payout = "created"
             THEN /\ payout' = "funded"
                  /\ notices' = notices \cup {"source_received"}
             ELSE UNCHANGED <<payout, notices>>
        /\ \/ Goto(w, "sent") /\ UNCHANGED faults
           \/ Goto(w, "failOther") /\ Fault           \* the answer is lost
     \/ Goto(w, "failOther") /\ UNCHANGED <<sends, payout, notices, faults>>
  /\ UNCHANGED <<tx, corridor, payer, orders, hold>>

storeSent(w) ==
  LET d == [work[w].doc EXCEPT !.hash = TRUE, !.status = "payout_sent"]
  IN At(w, "sent") /\ SaveOrLose(w, d, After(w), "failOther")

(* The catch around tryOwlPayV2, in dispatchPayout and in the retry job,   *)
(* and the one around Vita's payout.  The script only logs the error.      *)
dispatchFails(w) ==
  LET d == work[w].doc
      again == At(w, "failTransient")
               /\ (work[w].caller = "retry" => d.retries < MaxRetries)
  IN
  /\ work[w].step \in Throws
  /\ IF work[w].caller = "script"
       THEN End(w) /\ Still
       ELSE SaveOrLose(w, [d EXCEPT !.status = "failed", !.transient = again],
                       After(w), After(w))

-----------------------------------------------------------------------------
(* Vita: one withdrawal order, which nothing identifies a second time.     *)
createPayout(w) ==
  LET d == work[w].doc IN
  /\ At(w, "vitaPay")
  /\ \/ SaveOrLose(w, [d EXCEPT !.status = "pending_funding"], After(w), After(w))
     \/ Lose(w, d, "recover")
     \/ Goto(w, "failOther") /\ Still
     \/ /\ orders' = OneMore(orders)
        /\ payout' = IF payout = "none" THEN "funded" ELSE payout
        /\ \/ Goto(w, "vitaSent") /\ UNCHANGED faults
           \/ Goto(w, "failOther") /\ Fault           \* the answer is lost
        /\ UNCHANGED <<tx, corridor, payer, sends, notices, hold>>

(* Mutant: the status is not set.                                          *)
storeVitaRef(w) ==
  /\ At(w, "vitaSent")
  /\ SaveOrLose(w, [work[w].doc EXCEPT !.ref = TRUE], After(w), After(w))

(* The status is saved by appendIpnLog, which swallows a failed save.      *)
storeVitaPayout(w) ==
  LET d == [work[w].doc EXCEPT !.ref = TRUE, !.status = "payout_sent"]
  IN At(w, "vitaSent") /\ SaveOrLose(w, d, After(w), After(w))

-----------------------------------------------------------------------------
(* Harbor's webhooks: one is recognised by its log entry, which is saved   *)
(* first; then the status follows it.                                      *)
HarborNotice == {"progress", "source_received", "completed", "failed", "expired"}

(* Mutant: what Harbor reports is not looked at.                           *)
harborDecideAny(w) ==
  /\ At(w, "harborDecide")
  /\ SaveOrLose(w, [work[w].doc EXCEPT !.status = "completed"], "idle", "idle")

harborDecide(w) ==
  LET d == work[w].doc
      n == work[w].arg
  IN
  /\ At(w, "harborDecide")
  /\ CASE n = "source_received" /\ d.status # "completed" ->
            SaveOrLose(w, [d EXCEPT !.status = "payout_sent"], "idle", "idle")
       [] n = "completed" /\ d.status # "completed" ->
            SaveOrLose(w, [d EXCEPT !.status = "completed"], "idle", "idle")
       [] n \in {"failed", "expired"} ->
            SaveOrLose(w, [d EXCEPT !.status = "failed"], "idle", "idle")
       [] n = "progress" /\ d.ref ->
            SaveOrLose(w, d, "idle", "idle")   \* the status of the transfer only
       [] OTHER -> End(w) /\ Still

harborLog(w) ==
  LET d == [work[w].doc EXCEPT !.log = @ \cup {work[w].arg}]
  IN At(w, "harborLog") /\ SaveOrLose(w, d, "harborDecide", "harborDecide")

handleOwlPayIPN(w, n) ==
  /\ corridor.payout = "owlPay"
  /\ n \in (notices \cap HarborNotice) \ tx.log
  /\ Turn("owlpay")
  /\ Load(w, "harborLog", n, "request")

-----------------------------------------------------------------------------
(* reconcileHarborTransfers: each phase lists the payments, asks Harbor,   *)
(* and saves the payment it listed.                                        *)
HarborJobFree == corridor.payout = "owlPay" /\ Untouched /\ JobFree({"harborJob", "retry"})

reconcileHarborTransfers(w) ==
  /\ HarborJobFree
  /\ tx.ref
  /\ \/ tx.status = "payout_sent" /\ Load(w, "harborPoll", "new", "harborJob")
     \/ tx.status = "completed" /\ Load(w, "harborReversal", "new", "harborJob")

(* No answer: the next run asks again.                                     *)
GivesUp(d) == [d EXCEPT !.status = "failed", !.transient = FALSE]

(* Mutant: whatever Harbor answers is taken for delivered.                 *)
pollHarborOptimist(w) ==
  /\ At(w, "harborPoll")
  /\ SaveOrLose(w, [work[w].doc EXCEPT !.status = "completed"], "idle", "idle")

(* Mutant: a transfer that Harbor failed is left as it is.                 *)
pollHarborDelivered(w) ==
  LET moved == IF payout = "completed" THEN "completed" ELSE "payout_sent"
  IN
  /\ At(w, "harborPoll")
  /\ SaveOrLose(w, [work[w].doc EXCEPT !.status = moved], "idle", "idle")

pollHarbor(w) ==
  LET d == work[w].doc
      moved == CASE payout = "completed" -> "completed"
                 [] payout \in {"failed", "expired"} -> "failed"
                 [] payout = "refunded" -> "refunded"
                 [] OTHER -> "payout_sent"
  IN
  /\ At(w, "harborPoll")
  /\ \/ SaveOrLose(w, [d EXCEPT !.status = moved], "idle", "idle")
     \/ SaveOrLose(w, GivesUp(d), "idle", "idle")
     \/ Lose(w, d, "idle")

handleHarborReversal(w) ==
  /\ At(w, "harborReversal")
  /\ \/ /\ payout \in {"failed", "expired", "refunded"}
        /\ SaveOrLose(w, GivesUp(work[w].doc), "idle", "idle")
     \/ payout \notin {"failed", "expired", "refunded"} /\ End(w) /\ Still
     \/ Lose(w, work[w].doc, "idle")

(* Mutant: the attempts made are not looked at.                            *)
retryUnlimited(w) ==
  /\ HarborJobFree
  /\ tx.status = "failed"
  /\ tx.transient
  /\ ~tx.ref
  /\ Load(w, "retryMark", "new", "retry")

(* A transient failure without a transfer is tried again, at most          *)
(* MaxRetries times; the attempt is counted before it is made.             *)
retryFailed(w) ==
  /\ HarborJobFree
  /\ tx.status = "failed"
  /\ tx.transient
  /\ ~tx.ref
  /\ tx.retries < MaxRetries
  /\ Load(w, "retryMark", "new", "retry")

markRetry(w) ==
  LET d == [work[w].doc EXCEPT !.retries = @ + 1] IN
  /\ At(w, "retryMark")
  /\ \/ \E s \in Throws : SaveOrLose(w, d, "owlPay", s)
     \/ End(w) /\ Still     \* no corridor or no amount: skipped

(* scripts/resume-usdc-send.js: the operator, whatever the switch, sends   *)
(* the USDC of a transfer nobody is dispatching.                           *)
resumeUsdcSend(w) ==
  /\ corridor.payout = "owlPay"
  /\ Untouched
  /\ JobFree({"script"})
  /\ tx.status \notin {"payout_sent", "completed"}
  /\ tx.ref
  /\ Load(w, "send", "new", "script")

-----------------------------------------------------------------------------
(* reconcileVitaTransfers.                                                 *)
reconcileVitaTransfers(w) ==
  /\ corridor.payout = "vitaWallet"
  /\ Untouched
  /\ JobFree({"vitaJob"})
  /\ tx.ref
  /\ \/ tx.status = "payout_sent" /\ Load(w, "vitaPoll", "new", "vitaJob")
     \/ tx.status = "completed" /\ Load(w, "vitaReversal", "new", "vitaJob")

finalizeVitaCompleted(d) == [d EXCEPT !.status = "completed"]

pollVita(w) ==
  LET d == work[w].doc IN
  /\ At(w, "vitaPoll")
  /\ \/ /\ payout = "completed"
        /\ SaveOrLose(w, finalizeVitaCompleted(d), "idle", "idle")
     \/ SaveOrLose(w, GivesUp(d), "idle", "idle")     \* denied, or too old
     \/ payout = "funded" /\ End(w) /\ Still
     \/ Lose(w, d, "idle")

handleVitaReversal(w) ==
  /\ At(w, "vitaReversal")
  /\ \/ payout = "failed" /\ SaveOrLose(w, GivesUp(work[w].doc), "idle", "idle")
     \/ payout # "failed" /\ End(w) /\ Still
     \/ Lose(w, work[w].doc, "idle")

-----------------------------------------------------------------------------
(* The providers.  Harbor waits hours for the USDC; both may go back on a  *)
(* payout they reported as delivered, without saying so.                   *)
payoutEnds ==
  /\ \/ /\ payout = "created"
        /\ Untouched
        /\ payout' = "expired"
        /\ notices' = notices \cup {"expired"}
     \/ /\ payout = "funded"
        /\ payout' \in {"completed", "failed"}
        /\ notices' = notices \cup {payout'}
  /\ UNCHANGED <<tx, work, corridor, payer, orders, sends, hold, faults>>

payoutReverts ==
  /\ payout = "completed"
  /\ payout' \in IF corridor.payout = "owlPay" THEN {"failed", "refunded"} ELSE {"failed"}
  /\ UNCHANGED <<tx, work, corridor, payer, orders, sends, notices, hold, faults>>

-----------------------------------------------------------------------------
PayoutStep(w) ==
  \/ dispatchGate(w)
  \/ dispatchRoute(w)
  \/ dispatchRecover(w)
  \/ settleCreate(w)
  \/ tryOwlPayV2(w)
  \/ createOwlPayTransfer(w)
  \/ storeTransfer(w)
  \/ findTransactionByMemo(w)
  \/ submitTransaction(w)
  \/ storeSent(w)
  \/ dispatchFails(w)
  \/ createPayout(w)
  \/ storeVitaPayout(w)
  \/ harborLog(w)
  \/ harborDecide(w)
  \/ pollHarbor(w)
  \/ handleHarborReversal(w)
  \/ markRetry(w)
  \/ pollVita(w)
  \/ handleVitaReversal(w)

PayoutStart(w) ==
  \/ \E n \in Notice : handleOwlPayIPN(w, n)
  \/ reconcileHarborTransfers(w)
  \/ retryFailed(w)
  \/ resumeUsdcSend(w)
  \/ reconcileVitaTransfers(w)
=============================================================================
