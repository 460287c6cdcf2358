------------------------------- MODULE Transit -------------------------------
(***************************************************************************)
(* A payment's two Stellar transactions.  The transit: a job sends the     *)
(* USDC of a SpA payment that an admin marked as collected to the client's *)
(* account.  The seal: a completed payment is registered on       *)
(* chain, at once or by a job that looks for those without a stellarTxId - *)
(* the field the transit also writes.                                      *)
(***************************************************************************)
EXTENDS Naturals

CONSTANTS
  Payment,
  SpA,          \* those of the entity whose transits are retried
  MaxSeals,     \* STELLAR_AUDIT_RESEAL_MAX_ATTEMPTS
  MaxStops,     \* bound on the stops of the server
  AnswersLost,  \* a submission may go through although an error comes back
  WritesFail    \* a write about the transit may fail, which is swallowed

MAX_WEB3_RETRIES == 3

VARIABLES
  pdoc,     \* the Transaction
  sent,     \* the transits that reached the network
  transit,  \* what an executeWeb3Transit in progress does next
  sealing,  \* what a registerAuditTrail in progress does next
  stops

transitVars == <<pdoc, sent, transit, sealing, stops>>

(* txId: who wrote stellarTxId.                                            *)
PaymentDoc ==
  [status : {"payin_confirmed", "payin_completed", "payout_sent", "in_transit", "completed", "failed"},
   txId : {"none", "transit", "seal"}, retries : 0 .. MAX_WEB3_RETRIES,
   attempts : 0 .. MaxSeals, cooling : BOOLEAN]

TransitInit ==
  /\ pdoc = [p \in Payment |-> [status |-> "payin_confirmed", txId |-> "none", retries |-> 0,
                                attempts |-> 0, cooling |-> FALSE]]
  /\ sent = [p \in Payment |-> 0]
  /\ transit = [p \in Payment |-> "idle"]
  /\ sealing = [p \in Payment |-> "idle"]
  /\ stops = 0

Now(p, status) == pdoc' = [pdoc EXCEPT ![p].status = status]
TransitGoes(p, step) == transit' = [transit EXCEPT ![p] = step]
Sealing(p, step) == sealing' = [sealing EXCEPT ![p] = step]

-----------------------------------------------------------------------------
(* The transit.                                                            *)

(* CASE 1 of the job: collected, no transit yet.  The retry is counted     *)
(* first, which may fail; after the last one the payment fails.            *)
stuckPayinCompleted(p) ==
  /\ p \in SpA /\ \A q \in Payment : transit[q] = "idle"
  /\ pdoc[p].status = "payin_completed" /\ pdoc[p].txId = "none"
  /\ \/ /\ pdoc[p].retries >= MAX_WEB3_RETRIES
        /\ \/ Now(p, "failed")
           \/ WritesFail /\ UNCHANGED pdoc
        /\ UNCHANGED transit
     \/ /\ pdoc[p].retries < MAX_WEB3_RETRIES
        /\ \/ pdoc' = [pdoc EXCEPT ![p].retries = @ + 1]
           \/ WritesFail /\ UNCHANGED pdoc
        /\ TransitGoes(p, "check")
  /\ UNCHANGED <<sent, sealing, stops>>

(* The inner transaction, its fee bump and the submission: it is on the   *)
(* network, whoever hears of it.                                           *)
onNetwork(p) == sent' = [sent EXCEPT ![p] = @ + 1]

(* It reads the payment again; without a corporate address, or with a read *)
(* that fails, it returns and leaves the payment to the next run.          *)
executeWeb3Transit(p) ==
  /\ transit[p] = "check"
  /\ \/ pdoc[p].status = "payin_completed" /\ TransitGoes(p, "submit")
     \/ TransitGoes(p, "idle")
  /\ UNCHANGED <<pdoc, sent, sealing, stops>>

(* Mutant: a submission that fails is left to the next run.                *)
submitOrLeave(p) ==
  /\ transit[p] = "submit"
  /\ \/ onNetwork(p) /\ TransitGoes(p, "record")
     \/ AnswersLost /\ onNetwork(p) /\ TransitGoes(p, "idle")
     \/ UNCHANGED sent /\ TransitGoes(p, "idle")
  /\ UNCHANGED <<pdoc, sealing, stops>>

(* No account, no trustline, or an error while building, wrapping or       *)
(* submitting: the payment fails.                                          *)
submitTransaction(p) ==
  /\ transit[p] = "submit"
  /\ \/ /\ onNetwork(p)
        /\ TransitGoes(p, "record")
        /\ UNCHANGED pdoc
     \/ /\ \/ AnswersLost /\ onNetwork(p)
           \/ UNCHANGED sent
        /\ Now(p, "failed")
        /\ TransitGoes(p, "idle")
  /\ UNCHANGED <<sealing, stops>>

(* The USDC is on its way; the write may fail, which is logged.            *)
recordTransit(p) ==
  /\ transit[p] = "record"
  /\ \/ pdoc' = [pdoc EXCEPT ![p].status = "in_transit", ![p].txId = "transit"]
     \/ WritesFail /\ UNCHANGED pdoc
  /\ TransitGoes(p, "idle")
  /\ UNCHANGED <<sent, sealing, stops>>

(* CASE 3 of the job: seven days in transit.                               *)
expiredInTransit(p) ==
  /\ pdoc[p].status = "in_transit" /\ \A q \in Payment : transit[q] = "idle"
  /\ Now(p, "failed")
  /\ UNCHANGED <<sent, transit, sealing, stops>>

-----------------------------------------------------------------------------
(* What else moves a payment: an admin sets a status, the dispatch pays    *)
(* out, completes and seals; a payment in transit is paid out by a person. *)
updateTransactionStatus(p) ==
  /\ pdoc[p].status \in {"payin_confirmed", "payin_completed"}
  /\ \E s \in {"payin_completed", "in_transit", "completed"} : Now(p, s)
  /\ UNCHANGED <<sent, transit, sealing, stops>>

dispatchPayout(p) ==
  /\ pdoc[p].status = "payin_confirmed"
  /\ Now(p, "payout_sent")
  /\ UNCHANGED <<sent, transit, sealing, stops>>

handlePayoutCompleted(p) ==
  /\ pdoc[p].status = "payout_sent"
  /\ Now(p, "completed")
  /\ Sealing(p, "register")
  /\ UNCHANGED <<sent, transit, stops>>

processBoliviaManualPayout(p) ==
  /\ pdoc[p].status = "in_transit"
  /\ Now(p, "completed")
  /\ UNCHANGED <<sent, transit, sealing, stops>>

(* The hash, or null when Horizon failed; the save may fail too.           *)
registerAuditTrail(p) ==
  /\ sealing[p] = "register"
  /\ \/ pdoc' = [pdoc EXCEPT ![p].txId = "seal"]
     \/ UNCHANGED pdoc
  /\ Sealing(p, "idle")
  /\ UNCHANGED <<sent, transit, stops>>

(* Mutant: the attempts of one run count for all of them.                  *)
buildResealFilterOnce(p) ==
  /\ pdoc[p].status = "completed" /\ pdoc[p].txId = "none"
  /\ pdoc[p].attempts = 0

(* What the job looks for.                                                 *)
buildResealFilter(p) ==
  /\ pdoc[p].status = "completed" /\ pdoc[p].txId = "none"
  /\ pdoc[p].attempts < MaxSeals /\ ~pdoc[p].cooling

resealAuditTrails(p) ==
  /\ buildResealFilter(p)
  /\ \E txId \in {"seal", "none"} :
       pdoc' = [pdoc EXCEPT ![p].txId = txId, ![p].attempts = @ + 1, ![p].cooling = TRUE]
  /\ UNCHANGED <<sent, transit, sealing, stops>>

cooldownPasses(p) ==
  /\ pdoc[p].cooling
  /\ pdoc' = [pdoc EXCEPT ![p].cooling = FALSE]
  /\ UNCHANGED <<sent, transit, sealing, stops>>

serverStops ==
  /\ stops < MaxStops
  /\ stops' = stops + 1
  /\ transit' = [p \in Payment |-> "idle"]
  /\ sealing' = [p \in Payment |-> "idle"]
  /\ UNCHANGED <<pdoc, sent>>

transitStep(p) ==
  stuckPayinCompleted(p) \/ executeWeb3Transit(p) \/ submitTransaction(p) \/ recordTransit(p)

TransitNext ==
  \/ \E p \in Payment :
       \/ transitStep(p) \/ expiredInTransit(p)
       \/ updateTransactionStatus(p) \/ dispatchPayout(p)
       \/ handlePayoutCompleted(p) \/ processBoliviaManualPayout(p)
       \/ registerAuditTrail(p)
       \/ resealAuditTrails(p) \/ cooldownPasses(p)
  \/ serverStops

(* The jobs run on, and their writes and the transit's checks go through   *)
(* when they are repeated long enough.                                     *)
TransitFairness ==
  /\ \A p \in Payment :
       /\ SF_transitVars(stuckPayinCompleted(p) /\ pdoc' # pdoc)
       /\ WF_transitVars(executeWeb3Transit(p) \/ submitTransaction(p) \/ recordTransit(p))
       /\ WF_transitVars(registerAuditTrail(p))
       /\ WF_transitVars(resealAuditTrails(p))
       /\ WF_transitVars(cooldownPasses(p))
TransitSpec == TransitInit /\ [][TransitNext]_transitVars /\ TransitFairness

-----------------------------------------------------------------------------
TransitTypeOK ==
  /\ pdoc \in [Payment -> PaymentDoc]
  /\ sent \in [Payment -> Nat]
  /\ transit \in [Payment -> {"idle", "check", "submit", "record"}]
  /\ sealing \in [Payment -> {"idle", "register"}]
  /\ stops \in 0 .. MaxStops

(* No payment of the SpA stays marked as collected: the retries are        *)
(* counted across runs and restarts.                                       *)
StuckIsDecided ==
  \A p \in SpA : pdoc[p].status = "payin_completed" ~> pdoc[p].status # "payin_completed"

(* The USDC of a payment is sent once more only if the server stopped      *)
(* between the submission and its record: an answer that was lost fails    *)
(* the payment instead of leaving it to the retry.                         *)
SentOncePerStop == \A p \in Payment : sent[p] <= 1 + stops

(* A completed payment is sealed, or its attempts are spent and logged as  *)
(* an error, unless a late transit wrote its stellarTxId or its status.    *)
Sealed(p) == pdoc[p].txId = "seal" \/ pdoc[p].attempts >= MaxSeals
CompletedIsSealed ==
  \A p \in Payment :
    pdoc[p].status = "completed" ~>
      (Sealed(p) \/ pdoc[p].txId = "transit" \/ pdoc[p].status # "completed")

(* The same of every one, as the job has it ("ninguna                      *)
(* operación completada queda silenciosamente sin sello").                 *)
EveryCompletedIsSealed == \A p \in Payment : pdoc[p].status = "completed" ~> Sealed(p)
=============================================================================
