---------------------------- MODULE PaymentStore ----------------------------
(***************************************************************************)
(* One cross-border payment: its Transaction document, the handlers and    *)
(* jobs that work on it, and what the world outside knows of it.           *)
(*                                                                         *)
(* A handler reads the document with findOne into a Mongoose object,       *)
(* changes the object, and saves it after one or more awaits.  save()      *)
(* sends the fields that differ from what the handler read, filtered by    *)
(* _id alone (the schema has no optimisticConcurrency), and $push for the  *)
(* log; whatever else happened to the document meanwhile it neither sees   *)
(* nor undoes.  So a handler is a worker that keeps what it read and the   *)
(* object it is going to save.                                             *)
(***************************************************************************)
EXTENDS Integers, FiniteSets

CONSTANTS
  Worker,         \* handlers and job runs that can be in progress at a time
  Corridor,       \* the corridors a payment may take: records [payin, payout]
  Queued,         \* webhooks pass through the SQS queue (SQS_ENABLED)
  SendSwitch,     \* values OWLPAY_USDC_SEND_ENABLED takes over a payment's life
  HorizonAnswers, \* Horizon always answers the lookup of a memo
  MaxRetries,     \* MAX_RECONCILE_RETRIES
  AdminForces,    \* the statuses an admin sets by hand, besides payin_confirmed
  MaxFaults       \* bound on restarts, failed saves and lost answers

PayinProvider == {"fintoc", "vita", "bankQr", "manual", "walletUSDC"}
PayoutMethod == {"owlPay", "vitaWallet", "anchorBolivia"}

ASSUME CorridorAssumption == Corridor \subseteq [payin : PayinProvider, payout : PayoutMethod]
ASSUME LimitAssumption == MaxRetries \in Nat /\ MaxFaults \in Nat
ASSUME SwitchAssumption ==
  Queued \in BOOLEAN /\ SendSwitch \subseteq BOOLEAN /\ HorizonAnswers \in BOOLEAN

VARIABLES
  tx,       \* the Transaction document in MongoDB
  work,     \* the handlers in progress
  corridor, \* the corridor of the payment
  payer,    \* what the collecting bank or provider knows of the payin
  payout,   \* the payout at the provider
  orders,   \* withdrawals Vita has accepted
  sends,    \* USDC payments on Stellar with the memo of the Harbor transfer
  notices,  \* webhooks the providers have sent: they may come again
  hold,     \* the reserve of a payment funded from the USDC wallet
  faults    \* faults so far

paymentVars ==
  <<tx, work, corridor, payer, payout, orders, sends, notices, hold, faults>>
providers == <<payer, payout, orders, sends, notices>>

-----------------------------------------------------------------------------
Status == {"new", "pending", "initiated", "pending_comprobante", "payin_pending",
           "payin_confirmed", "processing", "payout_pending", "payout_sent",
           "payout_pending_usdc_send", "pending_funding", "pending_fx_review",
           "completed", "failed", "refunded"}

(* VALID_STATUSES of the admin panel has neither of the last two.          *)
ASSUME AdminAssumption ==
  AdminForces \subseteq Status \ {"new", "payin_confirmed", "pending_comprobante",
                                  "pending_fx_review"}

Notice == {"payin_completed", "payin_denied",
           "progress", "source_received", "completed", "failed", "expired"}

(* ref: payoutReference / harborTransfer.transferId is set; hash:          *)
(* stellarTxHash is set; transient: failureRetryable with category         *)
(* TRANSIENT_ERROR; paidAt: bankQr.paidAt; proof: a proof was uploaded;    *)
(* log: the ipnLog entries later deliveries are compared with.             *)
TransactionDoc ==
  [status : Status, ref : BOOLEAN, hash : BOOLEAN, transient : BOOLEAN,
   retries : 0 .. MaxRetries, paidAt : BOOLEAN, proof : BOOLEAN,
   log : SUBSET Notice]

NoDoc == [status |-> "new", ref |-> FALSE, hash |-> FALSE, transient |-> FALSE,
          retries |-> 0, paidAt |-> FALSE, proof |-> FALSE, log |-> {}]

(* Where a handler is, named for the step it takes next.                   *)
IpnStep == [vita |-> {"vitaDecide"},
            fintoc |-> {"fintocLog", "fintocDecide"},
            owlpay |-> {"harborLog", "harborDecide"}]
Step == {"idle", "proof", "admin", "bankConfirm",
         "sweepStatus", "sweepCancel", "sweepFail",
         "gate", "route", "owlPay", "create", "store", "send", "submit", "sent",
         "failTransient", "failOther", "retryMark", "vitaPay", "vitaSent", "recover",
         "recoverSave", "settle", "harborPoll", "harborReversal", "vitaPoll",
         "vitaReversal"}
        \cup IpnStep.vita \cup IpnStep.fintoc \cup IpnStep.owlpay

(* Who runs it: a request, initCrossBorderPayment, a job, or the script  *)
(* resume-usdc-send.js.                                                    *)
Caller == {"request", "create", "retry", "harborJob", "vitaJob", "bankJob", "script"}

(* arg: the webhook it handles, or the status the admin asked for.         *)
Handler ==
  {h \in [step : Step, read : TransactionDoc, doc : TransactionDoc,
          arg : Notice \cup Status, caller : Caller] :
     /\ h.step = "admin" => h.arg \in Status
     /\ h.step = "harborLog" => h.arg \in Notice
     /\ h.step = "retryMark" => h.doc.retries < MaxRetries}
Idle == [step |-> "idle", read |-> NoDoc, doc |-> NoDoc, arg |-> "new",
         caller |-> "request"]

StoreInit ==
  /\ tx = NoDoc
  /\ work = [w \in Worker |-> Idle]
  /\ corridor \in Corridor
  /\ payer = "unpaid"
  /\ payout = "none"
  /\ orders = 0
  /\ sends = 0
  /\ notices = {}
  /\ hold = "none"
  /\ faults = 0

-----------------------------------------------------------------------------
At(w, step) == work[w].step = step
Free(w) == At(w, "idle")

(* A handler goes on with h, or ends.                                      *)
Goes(w, h) == work' = [work EXCEPT ![w] = IF h.step = "idle" THEN Idle ELSE h]
Goto(w, step) == Goes(w, [work[w] EXCEPT !.step = step])
End(w) == Goto(w, "idle")

(* Nothing but the handler moves.                                          *)
Still == UNCHANGED <<tx, corridor, providers, hold, faults>>

(* findOne / find: the handler starts from the document as it is now.      *)
Reads(step, arg, caller) ==
  [step |-> step, read |-> tx, doc |-> tx, arg |-> arg, caller |-> caller]
Load(w, step, arg, caller) ==
  /\ Free(w)
  /\ tx.status # "new"
  /\ Goes(w, Reads(step, arg, caller))
  /\ Still

(* What MongoDB holds once object d, read as r, has been saved.            *)
Merged(r, d) ==
  [status    |-> IF d.status # r.status THEN d.status ELSE tx.status,
   ref       |-> IF d.ref # r.ref THEN d.ref ELSE tx.ref,
   hash      |-> IF d.hash # r.hash THEN d.hash ELSE tx.hash,
   transient |-> IF d.transient # r.transient THEN d.transient ELSE tx.transient,
   retries   |-> IF d.retries # r.retries THEN d.retries ELSE tx.retries,
   paidAt    |-> IF d.paidAt # r.paidAt THEN d.paidAt ELSE tx.paidAt,
   proof     |-> IF d.proof # r.proof THEN d.proof ELSE tx.proof,
   log       |-> tx.log \cup d.log]

Save(w, d, step) ==
  /\ tx' = Merged(work[w].read, d)
  /\ Goes(w, [work[w] EXCEPT !.step = step, !.read = d, !.doc = d])
  /\ UNCHANGED <<corridor, providers, hold, faults>>

Fault == faults < MaxFaults /\ faults' = faults + 1

(* The save fails; the object keeps its changes.                           *)
Lose(w, d, step) ==
  /\ Fault
  /\ Goes(w, [work[w] EXCEPT !.step = step, !.doc = d])
  /\ UNCHANGED <<tx, corridor, providers, hold>>

(* A save whose error ends the handler, or is swallowed (appendIpnLog,     *)
(* .catch(() => {})): the handler goes on either way.                      *)
SaveOrLose(w, d, next, lost) == Save(w, d, next) \/ Lose(w, d, lost)

(* The process stops: every handler in progress is lost.                   *)
Restart ==
  /\ Fault
  /\ work' = [w \in Worker |-> Idle]
  /\ UNCHANGED <<tx, corridor, providers, hold>>

(* The queue hands over one webhook of a provider at a time.               *)
Turn(provider) ==
  Queued => \A w \in Worker : work[w].step \notin IpnStep[provider]

(* A job skips its run while the previous one is in progress (_isRunning). *)
JobFree(callers) == \A w \in Worker : work[w].caller \notin callers
=============================================================================
