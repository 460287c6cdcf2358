-------------------------------- MODULE BankQr --------------------------------
(***************************************************************************)
(* The QR of a bank, from its issue to the settlement of its charge.       *)
(*                                                                         *)
(* A charge is a cross-border payment or the deposit of a wallet.  Its QR  *)
(* lives at Banco Económico, which cancels it when asked and lists what    *)
(* was paid, or at Red Enlace, whose QR expires by itself and which lists  *)
(* nothing.  Payin has the handlers' races over a payment's document; here *)
(* it is what the bank knows that matters, over webhooks that are lost,    *)
(* a bank that does not answer and a sweep that looks at a few at a time.  *)
(***************************************************************************)
EXTENDS Integers, FiniteSets

CONSTANTS
  N,           \* charges 1 .. N, in the order the database has them
  Deposits,    \* those of them that are deposits
  SweepLimit,  \* expired charges the sweep takes at once
  Strays,      \* charges whose QR may be paid with another amount
  MaxOutages,  \* bound on outages of a bank
  LongOutages, \* they may outlast the seven days of HARD_GIVEUP_MS
  CancelFails, \* the cancellation of a QR may fail
  PaidInSweep, \* a QR may be paid between the sweep's question and its answer
  Vague        \* the bank may call a paid QR unknown, or tell nothing of its payment

VARIABLES
  bankOf,   \* the bank of a charge's QR
  qr,       \* the QR at the bank
  charge,   \* status of the payment or of the deposit
  age,      \* "live", "expired" (an hour ago) or "old" (seven days ago)
  webhook,  \* charges whose payment a bank's webhook is telling
  verified, \* charges whose webhook the bank has confirmed, to be written
  job,      \* the job's phase, what is left of its list, and its last answer
  up,       \* the banks answer
  outages

bankQrVars == <<bankOf, qr, charge, age, webhook, verified, job, up, outages>>

Charge == 1 .. N
REGISTRY == {"bec", "redenlace"}
None == 0

BankQrInit ==
  /\ bankOf = [c \in Charge |-> "none"]
  /\ qr = [c \in Charge |-> "none"]
  /\ charge = [c \in Charge |-> "none"]
  /\ age = [c \in Charge |-> "live"]
  /\ webhook = {} /\ verified = {}
  /\ job = [phase |-> "idle", batch |-> {}, asked |-> None, answer |-> "none"]
  /\ up = TRUE
  /\ outages = 0

-----------------------------------------------------------------------------
(* What a bank says of a QR: the code it answers with, and the status the  *)
(* adapter makes of it.                                                    *)
BecStatus(c) ==
  CASE qr[c] \in {"paid", "mispaid"} -> "paid"
    [] qr[c] = "cancelled" -> "cancelled"
    [] OTHER -> "pending"

RedenlaceStatus(c) ==
  CASE qr[c] \in {"paid", "mispaid"} -> "paid"
    [] qr[c] = "expired" -> "cancelled"
    [] OTHER -> "pending"

getQRStatus(c) == IF bankOf[c] = "bec" THEN BecStatus(c) ELSE RedenlaceStatus(c)

(* A webhook is believed if the bank itself says the QR is paid.           *)
verifyIpn(c) == up /\ bankOf[c] = "bec" /\ BecStatus(c) = "paid"
verifyRedenlaceIpn(c) == up /\ bankOf[c] = "redenlace" /\ RedenlaceStatus(c) = "paid"

(* The list of what was paid yesterday and today: only one bank has it.    *)
getPaidQRs == {c \in Charge : bankOf[c] = "bec" /\ qr[c] \in {"paid", "mispaid"}}

(* Mutant: the amount the bank reports is not compared.                    *)
amountUnchecked(c) == FALSE

hasAmountMismatch(c) == qr[c] = "mispaid"

-----------------------------------------------------------------------------
(* The customer and the bank.                                              *)

(* The deposit is created before its QR, and failed if the bank issues     *)
(* none; a payment is created after it.                                    *)
generateQR(c, b) ==
  /\ charge[c] = "none" /\ up
  /\ bankOf' = [bankOf EXCEPT ![c] = b]
  /\ qr' = [qr EXCEPT ![c] = "pending"]
  /\ charge' = [charge EXCEPT ![c] = "pending"]
  /\ UNCHANGED <<age, webhook, verified, job, up, outages>>

generateQRFails(c) ==
  /\ charge[c] = "none" /\ c \in Deposits
  /\ charge' = [charge EXCEPT ![c] = "failed"]
  /\ UNCHANGED <<bankOf, qr, age, webhook, verified, job, up, outages>>

(* Paid once, with the amount it was issued for unless the bank lets it    *)
(* be another.  The bank's webhook comes or does not.                      *)
customerPays(c) ==
  /\ qr[c] = "pending"
  /\ age[c] # "old" \/ LongOutages
  /\ job.asked # c \/ PaidInSweep
  /\ \E outcome \in {"paid"} \cup (IF c \in Strays THEN {"mispaid"} ELSE {}) :
       qr' = [qr EXCEPT ![c] = outcome]
  /\ \/ webhook' = webhook \cup {c}
     \/ UNCHANGED webhook
  /\ UNCHANGED <<bankOf, charge, age, verified, job, up, outages>>

(* Red Enlace's QR lasts ten minutes (vigencia).                           *)
vigenciaEnds(c) ==
  /\ bankOf[c] = "redenlace" /\ qr[c] = "pending"
  /\ qr' = [qr EXCEPT ![c] = "expired"]
  /\ UNCHANGED <<bankOf, charge, age, webhook, verified, job, up, outages>>

(* An hour past expiresAt, and seven days: a QR of Red Enlace is then over,*)
(* and one that was paid has been looked at unless an outage was that long.*)
expires(c) ==
  /\ charge[c] # "none" /\ age[c] = "live"
  /\ ~(bankOf[c] = "redenlace" /\ qr[c] = "pending")
  /\ age' = [age EXCEPT ![c] = "expired"]
  /\ UNCHANGED <<bankOf, qr, charge, webhook, verified, job, up, outages>>

growsOld(c) ==
  /\ age[c] = "expired"
  /\ qr[c] # "paid" \/ LongOutages
  /\ age' = [age EXCEPT ![c] = "old"]
  /\ UNCHANGED <<bankOf, qr, charge, webhook, verified, job, up, outages>>

bankFails ==
  /\ up /\ outages < MaxOutages
  /\ up' = FALSE
  /\ outages' = outages + 1
  /\ UNCHANGED <<bankOf, qr, charge, age, webhook, verified, job>>

bankRecovers ==
  /\ ~up
  /\ up' = TRUE
  /\ UNCHANGED <<bankOf, qr, charge, age, webhook, verified, job, outages>>

-----------------------------------------------------------------------------
(* The webhook: answered whatever becomes of it, so it does not come again.*)
handleBankQrIPN(c) ==
  /\ c \in webhook
  /\ webhook' = webhook \ {c}
  /\ verified' =
       IF charge[c] = "pending" /\ (verifyIpn(c) \/ verifyRedenlaceIpn(c)) /\ ~hasAmountMismatch(c)
       THEN verified \cup {c} ELSE verified
  /\ UNCHANGED <<bankOf, qr, charge, age, job, up, outages>>

(* A deposit is claimed by its status; a payment is written as it was read.*)
Confirms(c) ==
  charge' = [charge EXCEPT ![c] = IF c \in Deposits /\ @ # "pending" THEN @ ELSE "confirmed"]

Fails(c) ==
  charge' = [charge EXCEPT ![c] = IF c \in Deposits /\ @ # "pending" THEN @ ELSE "failed"]

confirmVerified(c) ==
  /\ c \in verified
  /\ verified' = verified \ {c}
  /\ Confirms(c)
  /\ UNCHANGED <<bankOf, qr, age, webhook, job, up, outages>>

-----------------------------------------------------------------------------
(* The job: the lists of the banks, then the sweep of expired payments,    *)
(* then that of expired deposits.                                          *)

(* A list has today and yesterday: older payments are no longer in it.     *)
reconcilePaidQRs ==
  /\ job.phase = "idle"
  /\ \E listed \in SUBSET (IF up THEN getPaidQRs ELSE {}) :
       job' = [job EXCEPT !.phase = "list", !.batch = listed]
  /\ UNCHANGED <<bankOf, qr, charge, age, webhook, verified, up, outages>>

confirmListed(c) ==
  /\ job.phase = "list" /\ c \in job.batch
  /\ job' = [job EXCEPT !.batch = @ \ {c}]
  /\ IF charge[c] = "pending" /\ ~hasAmountMismatch(c) THEN Confirms(c) ELSE UNCHANGED charge
  /\ UNCHANGED <<bankOf, qr, age, webhook, verified, up, outages>>

(* The first of the expired ones, in the database's order.                 *)
FirstOf(S) == {c \in S : Cardinality({d \in S : d < c}) < SweepLimit}
Expired(S) == {c \in S : charge[c] = "pending" /\ age[c] # "live"}

sweepExpiredQRs ==
  /\ job.phase = "list" /\ job.batch = {}
  /\ job' = [job EXCEPT !.phase = "payments", !.batch = FirstOf(Expired(Charge \ Deposits))]
  /\ UNCHANGED <<bankOf, qr, charge, age, webhook, verified, up, outages>>

sweepExpiredWalletQRs ==
  /\ job.phase = "payments" /\ job.batch = {} /\ job.asked = None
  /\ job' = [job EXCEPT !.phase = "deposits", !.batch = FirstOf(Expired(Deposits))]
  /\ UNCHANGED <<bankOf, qr, charge, age, webhook, verified, up, outages>>

reconcileBankQrPayments ==
  /\ job.phase = "deposits" /\ job.batch = {} /\ job.asked = None
  /\ job' = [job EXCEPT !.phase = "idle"]
  /\ UNCHANGED <<bankOf, qr, charge, age, webhook, verified, up, outages>>

sweepAsks(c) ==
  /\ job.phase \in {"payments", "deposits"} /\ job.asked = None
  /\ c \in job.batch /\ \A d \in job.batch : c <= d
  /\ \E answer \in IF up
                   THEN {getQRStatus(c)} \cup (IF Vague THEN {"unknown"} ELSE {})
                   ELSE {"error"} :
       job' = [job EXCEPT !.batch = @ \ {c}, !.asked = c, !.answer = answer]
  /\ UNCHANGED <<bankOf, qr, charge, age, webhook, verified, up, outages>>

Settled == job' = [job EXCEPT !.asked = None, !.answer = "none"]

(* No answer: given up after seven days.                                   *)
(* Mutant: given up at once.                                               *)
sweepGivesUpAtOnce(c) ==
  /\ job.asked = c /\ job.answer = "error"
  /\ Settled
  /\ Fails(c)
  /\ UNCHANGED <<bankOf, qr, age, webhook, verified, up, outages>>

sweepGivesUp(c) ==
  /\ job.asked = c /\ job.answer = "error"
  /\ Settled
  /\ IF age[c] = "old" THEN Fails(c) ELSE UNCHANGED charge
  /\ UNCHANGED <<bankOf, qr, age, webhook, verified, up, outages>>

(* Paid: confirmed.  With another amount it stays pending, for every sweep *)
(* to find it again.                                                       *)
sweepConfirms(c) ==
  /\ job.asked = c /\ job.answer = "paid"
  /\ Settled
  /\ IF hasAmountMismatch(c) THEN UNCHANGED charge ELSE Confirms(c)
  /\ UNCHANGED <<bankOf, qr, age, webhook, verified, up, outages>>

(* Red Enlace has no cancellation; an error of the other is ignored.       *)
redenlaceCancelQR == UNCHANGED qr

becCancelQR(c) ==
  \/ /\ up /\ qr[c] = "pending"
     /\ qr' = [qr EXCEPT ![c] = "cancelled"]
  \/ /\ qr[c] # "pending" \/ CancelFails
     /\ UNCHANGED qr

sweepFails(c) ==
  /\ job.asked = c /\ job.answer \in {"pending", "cancelled", "unknown"}
  /\ Settled
  /\ IF job.answer = "pending" /\ bankOf[c] = "bec" THEN becCancelQR(c) ELSE redenlaceCancelQR
  /\ Fails(c)
  /\ UNCHANGED <<bankOf, age, webhook, verified, up, outages>>

JobStep ==
  \/ reconcilePaidQRs \/ sweepExpiredQRs \/ sweepExpiredWalletQRs \/ reconcileBankQrPayments
  \/ \E c \in Charge :
       confirmListed(c) \/ sweepAsks(c) \/ sweepGivesUp(c) \/ sweepConfirms(c) \/ sweepFails(c)

BankQrNext ==
  \/ \E c \in Charge :
       \/ \E b \in REGISTRY : generateQR(c, b)
       \/ generateQRFails(c) \/ customerPays(c) \/ vigenciaEnds(c) \/ expires(c) \/ growsOld(c)
       \/ handleBankQrIPN(c) \/ confirmVerified(c)
  \/ bankFails \/ bankRecovers
  \/ JobStep

BankQrSpec == BankQrInit /\ [][BankQrNext]_bankQrVars

(* The job runs every half hour or, by its rule, every two minutes; a      *)
(* charge expires, and the bank recovers.                                  *)
BankQrFairness ==
  /\ WF_bankQrVars(JobStep) /\ WF_bankQrVars(bankRecovers)
  /\ \A c \in Charge : WF_bankQrVars(expires(c))

-----------------------------------------------------------------------------
BankQrTypeOK ==
  /\ bankOf \in [Charge -> REGISTRY \cup {"none"}]
  /\ qr \in [Charge -> {"none", "pending", "paid", "mispaid", "cancelled", "expired"}]
  /\ charge \in [Charge -> {"none", "pending", "confirmed", "failed"}]
  /\ age \in [Charge -> {"live", "expired", "old"}]
  /\ webhook \subseteq Charge /\ verified \subseteq Charge
  /\ job.batch \subseteq Charge /\ job.asked \in Charge \cup {None}
  /\ up \in BOOLEAN

(* A charge is confirmed only if the bank was paid its amount, whoever     *)
(* confirmed it: a webhook, a list or the sweep.                           *)
ConfirmedIsPaid == \A c \in Charge : charge[c] = "confirmed" => qr[c] = "paid"

(* A QR that was paid for what it was issued confirms its charge, though   *)
(* no webhook comes and the bank is away for a while.  Refuted by a paid   *)
(* QR the bank calls unknown (Vague), one paid after the sweep had asked   *)
(* (PaidInSweep) or not cancelled (CancelFails), an outage of seven days,  *)
(* and by as many strays as the sweep takes at once.                       *)
PaidQrIsConfirmed == \A c \in Charge : qr[c] = "paid" ~> charge[c] = "confirmed"
=============================================================================
