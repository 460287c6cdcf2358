------------------------------- MODULE Payments -------------------------------
(***************************************************************************)
(* One cross-border payment from its creation to the end: the payin, the   *)
(* payout, the providers' webhooks and the jobs, interleaved.              *)
(***************************************************************************)
EXTENDS Payin, Payout

(* A corridor is a way in and a way out.  Harbor sends USDC under a memo;  *)
(* Vita takes an order each time it is asked.  The QR and the wallet are   *)
(* the payins with a life of their own.                                    *)
Pair(in, out) == [payin |-> in, payout |-> out]
vitaToVita == {Pair("vita", "vitaWallet")}
manualToHarbor == {Pair("manual", "owlPay")}
walletToHarbor == {Pair("walletUSDC", "owlPay")}
bankQrToVita == {Pair("bankQr", "vitaWallet")}
concurrent == walletToHarbor \cup vitaToVita \cup {Pair("fintoc", "vitaWallet")}
settling == walletToHarbor \cup {Pair("fintoc", "vitaWallet")}
faultless == settling \cup bankQrToVita
corridors == settling \cup manualToHarbor
             \cup {Pair("bankQr", "owlPay"), Pair("manual", "vitaWallet"),
                   Pair("fintoc", "anchorBolivia")}

-----------------------------------------------------------------------------
WorkerStep(w) == PayinStep(w) \/ PayoutStep(w)
WorkerStart(w) == PayinStart(w) \/ PayoutStart(w)

Next ==
  \/ \E w \in Worker : WorkerStep(w) \/ WorkerStart(w)
  \/ cleanupOrphanTransactions
  \/ collect
  \/ payoutEnds
  \/ payoutReverts
  \/ Restart

Init == StoreInit
Spec == Init /\ [][Next]_paymentVars

(* A handler in progress goes on; Fintoc's webhook, which comes again until *)
(* it is answered, finds a handler; the jobs run at every interval; a      *)
(* provider ends the payouts it has the funds for.  Strong fairness where  *)
(* the bound on handlers, which the code does not have, may be in the way. *)
Fairness ==
  /\ \A w \in Worker : WF_paymentVars(WorkerStep(w))
  /\ SF_paymentVars(\E w \in Worker : Free(w) /\ handleFintocIPN(w))
  /\ SF_paymentVars(\E w \in Worker : reconcilePaidQRs(w))
  /\ SF_paymentVars(\E w \in Worker : reconcileVitaTransfers(w))
  /\ SF_paymentVars(\E w \in Worker : reconcileHarborTransfers(w))
  /\ WF_paymentVars(payout = "funded" /\ payoutEnds)

LiveSpec == Spec /\ Fairness

-----------------------------------------------------------------------------
(* Type correctness of the payment, of its handlers and of the world.      *)
PaymentTypeOK ==
  /\ tx \in TransactionDoc
  /\ work \in [Worker -> Handler]
  /\ corridor \in Corridor
  /\ payer \in {"unpaid", "paid", "denied", "cancelled"}
  /\ payout \in {"none", "created", "expired", "funded", "completed", "failed", "refunded"}
  /\ orders \in 0 .. 2
  /\ sends \in 0 .. 2
  /\ notices \subseteq Notice
  /\ hold \in {"none", "held", "released"}
  /\ faults \in 0 .. MaxFaults

(* One payment is paid out once: Vita accepts one order for it and one     *)
(* USDC payment leaves with its memo, whatever comes twice, is retried or  *)
(* dies half way (the gate of dispatchPayout, the memo lookup of           *)
(* sendUSDCToHarbor, the filter of the retry job).                         *)
PaidOutOnce == orders + sends <= 1

(* Nothing is paid out that was not paid in: a payout exists at a provider *)
(* only when the bank or provider collected, or a wallet reserve was made. *)
BackedByPayin ==
  payout # "none" \/ orders > 0 \/ sends > 0 => payer = "paid" \/ hold # "none"

(* The user is told "completed" only of a payout the provider completed    *)
(* (it may have gone back on it since).                                    *)
CompletedIsDelivered ==
  tx.status = "completed" => payout \in {"completed", "failed", "refunded"}

(* The USDC of a payment leaves for Harbor once: a transfer sent under its *)
(* memo is found before it is sent again, as long as Horizon answers.      *)
UsdcLeavesOnce == sends <= 1

(* A payout that was sent ends: the webhook or, when it is lost, the job   *)
(* that polls closes it.  A payment by bank QR is apart: confirmed twice   *)
(* by two handlers, it can leave payout_sent for the queue of the FX       *)
(* review while its payout goes on.                                        *)
PayoutSettles ==
  corridor.payin # "bankQr" /\ tx.status = "payout_sent"
    ~> tx.status \in {"completed", "failed", "refunded"}

(* A payin that was collected does not stay pending: Fintoc's webhook is   *)
(* delivered again until a handler has dealt with it, and the job finds a  *)
(* paid QR in the bank's list.  A crash after the log entry breaks it.     *)
Collected == corridor.payin \in {"fintoc", "bankQr"} /\ payer = "paid"
PayinProcessed ==
  Collected /\ tx.status = "payin_pending" ~> tx.status # "payin_pending" \/ faults > 0

(* A dispatch that has taken the payment through the gate takes it out of  *)
(* "processing", as long as no restart stops it on the way.                *)
ProcessingEnds == tx.status = "processing" ~> tx.status # "processing" \/ faults > 0

(* A payout funded from the user's wallet leaves while the reserve is      *)
(* there: nobody is paid with USDC the user has got back.                  *)
ReserveBacksPayout ==
  corridor.payin = "walletUSDC" /\ payout \in {"funded", "completed"} => hold = "held"

(* A QR of a payment that was failed as expired can no longer be paid,     *)
(* unless the cancellation at the bank failed.                             *)
QrExpired == corridor.payin = "bankQr" /\ tx.status = "failed" /\ payer = "unpaid"
NotPaidAfterFailed == [][QrExpired /\ faults = 0 => payer' # "paid"]_paymentVars

-----------------------------------------------------------------------------
(* The inductive invariant behind BackedByPayin.                           *)
(*                                                                         *)
(* BackedByPayin is not inductive: a handler may be on its way to the      *)
(* provider with a document it read earlier, and a document may carry a    *)
(* status from which a job starts a payout.  Unstarted says that as long   *)
(* as nobody has paid, no document, copy of it or handler is past the      *)
(* payin.                                                                  *)

Paid == payer = "paid" \/ hold # "none"

(* The statuses from which something dispatches the payout.                *)
StartsPayout == {"payin_confirmed", "pending_funding"}

(* Where a handler of an unpaid payment may be.                            *)
BeforePayin == {"idle", "proof", "admin", "vitaDecide",
                "sweepStatus", "sweepCancel", "sweepFail"}

UnpaidDoc(d) ==
  /\ d.status \notin StartsPayout
  /\ d.transient = FALSE
  /\ d.ref = FALSE

UnpaidHandler(h) ==
  /\ h.step \in BeforePayin
  /\ UnpaidDoc(h.read)
  /\ UnpaidDoc(h.doc)
  /\ h.step = "vitaDecide" => h.arg = "payin_denied"
  /\ h.step = "admin" => h.arg \notin StartsPayout

Unstarted ==
  /\ UnpaidDoc(tx)
  /\ payout = "none" /\ orders = 0 /\ sends = 0
  /\ notices \subseteq {"payin_denied"}
  /\ \A w \in Worker : UnpaidHandler(work[w])

(* As long as nobody has paid, nothing has started: what makes             *)
(* BackedByPayin hold, for every number of handlers and of faults, when    *)
(* no admin puts a payment in pending_funding by hand.                     *)
PaidOrUnstarted == Paid \/ Unstarted
=============================================================================
