---------------------------- MODULE ProgressProof ----------------------------
(***************************************************************************)
(* What the parts that promise progress keep safe on the way, for any      *)
(* withdrawals, movements, payments, charges, jobs and bounds.  Each part  *)
(* has its inductive invariant and its lemma of preservation; the          *)
(* composition has a step of a part or a stutter for each of its steps.    *)
(***************************************************************************)
EXTENDS Progress, TLAPS, FiniteSetTheorems

(* A step of the composition is, to each part, its own step or none.       *)
LEMMA StepOfParts ==
  ASSUME [Next]_vars
  PROVE  /\ [Disbursement!DisbursementNext]_disbursementVars
         /\ [Ledger!LedgerNext]_ledgerVars
         /\ [Inflows!InflowNext]_inflowsVars
         /\ [Quotes!QuotesNext]_quoteVars
         /\ [Transit!TransitNext]_transitVars
         /\ [HarborRail!RailNext]_railVars
         /\ [BankQr!BankQrNext]_bankQrVars
         /\ [Failures!FailuresNext]_failureVars
         /\ [Jobs!JobsNext]_jobVars
         /\ [Reminders!RemindersNext]_reminderVars
BY DEF Next, Moves, vars

-----------------------------------------------------------------------------
(* Charges by bank QR: what a webhook was verified for, what a list of     *)
(* paid QRs holds and what the sweep was answered is paid, and a QR that   *)
(* is paid stays so.                                                       *)
PaidSome == {"paid", "mispaid"}

ChargeInv ==
  /\ qr \in [BankQr!Charge -> {"none", "pending", "paid", "mispaid", "cancelled", "expired"}]
  /\ charge \in [BankQr!Charge -> {"none", "pending", "confirmed", "failed"}]
  /\ \A c \in BankQr!Charge : charge[c] = "none" => qr[c] = "none"
  /\ BankQr!ConfirmedIsPaid
  /\ verified \subseteq BankQr!Charge /\ \A c \in verified : qr[c] = "paid"
  /\ job \in [phase : {"idle", "list", "payments", "deposits"}, batch : SUBSET (BankQr!Charge \cup Deposits),
              asked : BankQr!Charge \cup {0},
              answer : {"none", "pending", "cancelled", "paid", "unknown", "error"}]
  /\ job.phase = "list" => \A c \in job.batch : c \in BankQr!Charge /\ qr[c] \in PaidSome
  /\ job.answer = "paid" => job.asked \in BankQr!Charge /\ qr[job.asked] \in PaidSome

LEMMA ChargeStarts == Init => ChargeInv
BY DEF Init, BankQr!BankQrInit, ChargeInv, BankQr!ConfirmedIsPaid, BankQr!None

(* What becomes of a QR: nothing is paid that was not open, and what is    *)
(* paid stays so.                                                          *)
LEMMA QrMoves ==
  ASSUME ChargeInv, UNCHANGED <<charge, verified, job>>,
         qr' \in [BankQr!Charge -> {"none", "pending", "paid", "mispaid", "cancelled", "expired"}],
         \A c \in BankQr!Charge : qr[c] \in PaidSome \cup {"none"} => qr'[c] = qr[c]
  PROVE  ChargeInv'
BY DEF ChargeInv, BankQr!ConfirmedIsPaid, PaidSome

LEMMA ChargeKept ==
  ASSUME ChargeInv, [BankQr!BankQrNext]_bankQrVars
  PROVE  ChargeInv'
<1> USE DEF PaidSome
<1>1. CASE UNCHANGED <<qr, charge, verified, job>>
  BY <1>1 DEF ChargeInv, BankQr!ConfirmedIsPaid
<1>2. ASSUME NEW c \in BankQr!Charge, NEW b \in BankQr!REGISTRY, BankQr!generateQR(c, b)
      PROVE  ChargeInv'
  BY <1>2 DEF ChargeInv, BankQr!ConfirmedIsPaid, BankQr!generateQR
<1>3. ASSUME NEW c \in BankQr!Charge, BankQr!generateQRFails(c)
      PROVE  ChargeInv'
  BY <1>3 DEF ChargeInv, BankQr!ConfirmedIsPaid, BankQr!generateQRFails
<1>4. ASSUME NEW c \in BankQr!Charge, BankQr!customerPays(c) \/ BankQr!vigenciaEnds(c)
      PROVE  ChargeInv'
  <2>1. qr[c] = "pending" /\ UNCHANGED <<charge, verified, job>>
    BY <1>4 DEF BankQr!customerPays, BankQr!vigenciaEnds
  <2>2. PICK s \in {"paid", "mispaid", "expired"} : qr' = [qr EXCEPT ![c] = s]
    BY <1>4 DEF BankQr!customerPays, BankQr!vigenciaEnds
  <2> QED
    BY <2>1, <2>2, QrMoves DEF ChargeInv
<1>5. ASSUME NEW c \in BankQr!Charge, BankQr!handleBankQrIPN(c)
      PROVE  ChargeInv'
  <2>1. UNCHANGED <<qr, charge, job>>
    BY <1>5 DEF BankQr!handleBankQrIPN
  <2>2. verified' = verified \/ (verified' = verified \cup {c} /\ qr[c] = "paid")
    BY <1>5 DEF BankQr!handleBankQrIPN, BankQr!verifyIpn, BankQr!verifyRedenlaceIpn,
         BankQr!BecStatus, BankQr!RedenlaceStatus, BankQr!hasAmountMismatch
  <2> QED
    BY <2>1, <2>2 DEF ChargeInv, BankQr!ConfirmedIsPaid
<1>c. ASSUME NEW c \in BankQr!Charge, UNCHANGED qr, verified' \subseteq verified, ChargeInv,
             job' \in [phase : {"idle", "list", "payments", "deposits"}, batch : SUBSET (BankQr!Charge \cup Deposits),
                       asked : BankQr!Charge \cup {0},
                       answer : {"none", "pending", "cancelled", "paid", "unknown", "error"}],
             job'.phase = "list" => job.phase = "list" /\ job'.batch \subseteq job.batch,
             job'.answer = "paid" => job' = job \/ (job'.answer = job.answer /\ job'.asked = job.asked),
             \/ UNCHANGED charge
             \/ BankQr!Fails(c)
             \/ BankQr!Confirms(c) /\ qr[c] = "paid"
      PROVE  ChargeInv'
  <2>1. \/ UNCHANGED charge
        \/ charge' = [charge EXCEPT ![c] = "failed"]
        \/ charge' = [charge EXCEPT ![c] = "confirmed"] /\ qr[c] = "paid"
    BY <1>c DEF BankQr!Fails, BankQr!Confirms, ChargeInv
  <2> QED
    BY <1>c, <2>1 DEF ChargeInv, BankQr!ConfirmedIsPaid
<1>6. ASSUME NEW c \in BankQr!Charge, BankQr!confirmVerified(c)
      PROVE  ChargeInv'
  BY <1>6, <1>c DEF BankQr!confirmVerified, ChargeInv
<1>7. CASE BankQr!reconcilePaidQRs
  <2>1. PICK listed \in SUBSET BankQr!getPaidQRs : job' = [job EXCEPT !.phase = "list", !.batch = listed]
    BY <1>7 DEF BankQr!reconcilePaidQRs
  <2>2. UNCHANGED <<qr, charge, verified>>
    BY <1>7 DEF BankQr!reconcilePaidQRs
  <2> QED
    BY <2>1, <2>2 DEF ChargeInv, BankQr!ConfirmedIsPaid, BankQr!getPaidQRs
<1>8. ASSUME NEW c \in BankQr!Charge, BankQr!confirmListed(c)
      PROVE  ChargeInv'
  <2>1. job' = [job EXCEPT !.batch = job.batch \ {c}] /\ job.phase = "list" /\ c \in job.batch
        /\ UNCHANGED <<qr, verified>>
    BY <1>8 DEF BankQr!confirmListed
  <2>2. UNCHANGED charge \/ (BankQr!Confirms(c) /\ qr[c] # "mispaid")
    BY <1>8 DEF BankQr!confirmListed, BankQr!hasAmountMismatch
  <2> QED
    BY <2>1, <2>2, <1>c DEF ChargeInv
<1>9. CASE BankQr!sweepExpiredQRs \/ BankQr!sweepExpiredWalletQRs \/ BankQr!reconcileBankQrPayments
  <2>1. UNCHANGED <<qr, charge, verified>>
    BY <1>9 DEF BankQr!sweepExpiredQRs, BankQr!sweepExpiredWalletQRs, BankQr!reconcileBankQrPayments
  <2>2. \E p \in {"idle", "payments", "deposits"}, S \in SUBSET (BankQr!Charge \cup Deposits) :
           job' = [job EXCEPT !.phase = p, !.batch = S]
    <3>1. CASE BankQr!sweepExpiredQRs
      <4>1. BankQr!FirstOf(BankQr!Expired(BankQr!Charge \ Deposits)) \subseteq BankQr!Charge
        BY DEF BankQr!FirstOf, BankQr!Expired
      <4> QED
        BY <3>1, <4>1 DEF BankQr!sweepExpiredQRs
    <3>2. CASE BankQr!sweepExpiredWalletQRs
      <4>1. BankQr!FirstOf(BankQr!Expired(Deposits)) \subseteq Deposits
        BY DEF BankQr!FirstOf, BankQr!Expired
      <4> QED
        BY <3>2, <4>1 DEF BankQr!sweepExpiredWalletQRs
    <3>3. CASE BankQr!reconcileBankQrPayments
      <4>1. job' = [job EXCEPT !.phase = "idle", !.batch = job.batch]
        BY <3>3 DEF BankQr!reconcileBankQrPayments, ChargeInv
      <4> QED
        BY <4>1 DEF ChargeInv
    <3> QED
      BY <1>9, <3>1, <3>2, <3>3
  <2> QED
    BY <2>1, <2>2 DEF ChargeInv, BankQr!ConfirmedIsPaid
<1>10. ASSUME NEW c \in BankQr!Charge, BankQr!sweepAsks(c)
       PROVE  ChargeInv'
  <2>1. PICK answer : /\ answer \in {BankQr!getQRStatus(c), "unknown", "error"}
                      /\ job' = [job EXCEPT !.batch = job.batch \ {c}, !.asked = c, !.answer = answer]
    BY <1>10 DEF BankQr!sweepAsks
  <2>2. UNCHANGED <<qr, charge, verified>> /\ job.phase # "list"
    BY <1>10 DEF BankQr!sweepAsks
  <2>3. /\ answer \in {"pending", "cancelled", "paid", "unknown", "error"}
        /\ answer = "paid" => qr[c] \in PaidSome
    BY <2>1 DEF BankQr!getQRStatus, BankQr!BecStatus, BankQr!RedenlaceStatus
  <2> QED
    BY <2>1, <2>2, <2>3 DEF ChargeInv, BankQr!ConfirmedIsPaid
<1>s. ASSUME BankQr!Settled
      PROVE  /\ job' \in [phase : {"idle", "list", "payments", "deposits"}, batch : SUBSET (BankQr!Charge \cup Deposits),
                          asked : BankQr!Charge \cup {0},
                          answer : {"none", "pending", "cancelled", "paid", "unknown", "error"}]
             /\ job'.phase = job.phase /\ job'.batch = job.batch /\ job'.answer = "none"
  BY <1>s DEF BankQr!Settled, ChargeInv, BankQr!None
<1>11. ASSUME NEW c \in BankQr!Charge, BankQr!sweepGivesUp(c) \/ BankQr!sweepConfirms(c)
       PROVE  ChargeInv'
  <2>1. BankQr!Settled /\ UNCHANGED <<qr, verified>> /\ job.asked = c
    BY <1>11 DEF BankQr!sweepGivesUp, BankQr!sweepConfirms
  <2>2. UNCHANGED charge \/ BankQr!Fails(c) \/ (BankQr!Confirms(c) /\ qr[c] = "paid")
    BY <1>11 DEF BankQr!sweepGivesUp, BankQr!sweepConfirms, BankQr!hasAmountMismatch, ChargeInv
  <2> QED
    BY <2>1, <2>2, <1>s, <1>c
<1>12. ASSUME NEW c \in BankQr!Charge, BankQr!sweepFails(c)
       PROVE  ChargeInv'
  <2>1. BankQr!Settled /\ BankQr!Fails(c) /\ UNCHANGED verified
    BY <1>12 DEF BankQr!sweepFails
  <2>2. UNCHANGED qr \/ (qr[c] = "pending" /\ qr' = [qr EXCEPT ![c] = "cancelled"])
    BY <1>12 DEF BankQr!sweepFails, BankQr!becCancelQR, BankQr!redenlaceCancelQR
  <2>3. CASE UNCHANGED qr
    BY <2>1, <2>3, <1>s, <1>c
  <2>4. CASE qr[c] = "pending" /\ qr' = [qr EXCEPT ![c] = "cancelled"]
    <3>1. charge' = charge \/ charge' = [charge EXCEPT ![c] = "failed"]
      BY <2>1 DEF BankQr!Fails, ChargeInv
    <3> QED
      BY <2>1, <2>4, <3>1, <1>s DEF ChargeInv, BankQr!ConfirmedIsPaid
  <2> QED
    BY <2>2, <2>3, <2>4
<1> QED
  BY <1>1, <1>2, <1>3, <1>4, <1>5, <1>6, <1>7, <1>8, <1>9, <1>10, <1>11, <1>12
     DEF BankQr!BankQrNext, BankQr!JobStep, bankQrVars, BankQr!expires, BankQr!growsOld,
         BankQr!bankFails, BankQr!bankRecovers

-----------------------------------------------------------------------------
(* Payouts that fail: one that was never called has no transfer, and the   *)
(* provider takes a second call of none.                                   *)
PayoutInv ==
  /\ executed \in [Payout -> 0 .. 1]
  /\ DOMAIN doc = Payout
  /\ \A p \in Payout : "status" \in DOMAIN doc[p]
  /\ \A p \in Payout : doc[p].status = "processing" => executed[p] = 0 /\ p \notin atHand

LEMMA PayoutStarts == Init => PayoutInv
BY DEF Init, Failures!FailuresInit, PayoutInv

(* A call adds a transfer only to a payout that has none.                  *)
LEMMA CallAddsOne ==
  ASSUME PayoutInv, NEW p \in Payout, executed[p] = 0, NEW o, o.made \in 0 .. 1, Failures!Called(p, o)
  PROVE  /\ executed' \in [Payout -> 0 .. 1]
         /\ \A q \in Payout : q # p => executed'[q] = executed[q]
BY DEF PayoutInv, Failures!Called

(* What the outcome of a call may be.                                      *)
LEMMA OutcomesMakeOne ==
  ASSUME NEW errors, NEW o \in Failures!Outcomes(errors)
  PROVE  o.made \in 0 .. 1
BY DEF Failures!Outcomes

(* A change of one payout's document, after which it is not processing.    *)
LEMMA PayoutMoves ==
  ASSUME PayoutInv, NEW p \in Payout,
         executed' \in [Payout -> 0 .. 1],
         \A q \in Payout : q # p => executed'[q] = executed[q],
         DOMAIN doc' = Payout, \A q \in Payout : q # p => doc'[q] = doc[q],
         "status" \in DOMAIN doc'[p], doc'[p].status # "processing", atHand' \subseteq atHand \cup {p}
  PROVE  PayoutInv'
BY DEF PayoutInv

LEMMA SentMoves ==
  ASSUME PayoutInv, NEW p \in Payout, \/ Failures!Sent(p) \/ \E m : Failures!Failed(p, m)
  PROVE  /\ DOMAIN doc' = Payout /\ \A q \in Payout : q # p => doc'[q] = doc[q]
         /\ "status" \in DOMAIN doc'[p] /\ doc'[p].status \in {"payout_sent", "failed"}
<1>1. CASE Failures!Sent(p)
  BY <1>1 DEF Failures!Sent, PayoutInv
<1>2. CASE \E m : Failures!Failed(p, m)
  <2>1. PICK m : Failures!Failed(p, m)
    BY <1>2
  <2> DEFINE failed == [doc[p] EXCEPT !.status = "failed", !.category = m.category,
                                      !.retryable = m.retryable, !.told = m.told]
  <2>2. doc' = [doc EXCEPT ![p] = failed]
    BY <2>1, Zenon DEF Failures!Failed, PayoutInv
  <2>3. "status" \in DOMAIN failed /\ failed.status = "failed"
    BY Zenon DEF PayoutInv
  <2> HIDE DEF failed
  <2> QED
    BY <2>2, <2>3 DEF PayoutInv
<1> QED
  BY <1>1, <1>2

LEMMA PayoutKept ==
  ASSUME PayoutInv, [Failures!FailuresNext]_failureVars
  PROVE  PayoutInv'
<1>1. CASE UNCHANGED <<doc, executed>> /\ atHand' \subseteq atHand
  BY <1>1 DEF PayoutInv
<1>2. ASSUME NEW p \in Payout, doc[p].status = "processing",
             \/ Failures!dispatchHarbor(p) \/ Failures!dispatchVita(p) \/ Failures!dispatchFallback(p)
             \/ Failures!dispatchThrows(p)
      PROVE  PayoutInv'
  <2>1. executed[p] = 0
    BY <1>2 DEF PayoutInv
  <2>2. Failures!Sent(p) \/ \E m : Failures!Failed(p, m)
    BY <1>2 DEF Failures!dispatchHarbor, Failures!dispatchVita, Failures!dispatchFallback,
         Failures!dispatchThrows
  <2>3. UNCHANGED executed \/ \E o, errors : o \in Failures!Outcomes(errors) /\ Failures!Called(p, o)
    BY <1>2, <2>1 DEF Failures!dispatchHarbor, Failures!dispatchVita, Failures!dispatchFallback,
         Failures!dispatchThrows, Failures!owlPayRequest, Failures!vitaRequest, Failures!takes
  <2>4. /\ executed' \in [Payout -> 0 .. 1]
        /\ \A q \in Payout : q # p => executed'[q] = executed[q]
    BY <2>1, <2>3, CallAddsOne, OutcomesMakeOne DEF PayoutInv
  <2>5. UNCHANGED atHand
    BY <1>2 DEF Failures!dispatchHarbor, Failures!dispatchVita, Failures!dispatchFallback,
         Failures!dispatchThrows
  <2> QED
    BY <2>2, <2>4, <2>5, SentMoves, PayoutMoves
<1>3. ASSUME NEW p \in Payout, Failures!vitaDenies(p)
      PROVE  PayoutInv'
  <2>1. \E m : Failures!Failed(p, m)
    BY <1>3 DEF Failures!vitaDenies
  <2>2. executed' \in [Payout -> 0 .. 1] /\ \A q \in Payout : q # p => executed'[q] = executed[q]
    BY <1>3 DEF Failures!vitaDenies, PayoutInv
  <2>3. UNCHANGED atHand
    BY <1>3 DEF Failures!vitaDenies
  <2> QED
    BY <2>1, <2>2, <2>3, SentMoves, PayoutMoves
<1>4. ASSUME NEW p \in Payout, Failures!completes(p)
      PROVE  PayoutInv'
  BY <1>4 DEF Failures!completes, PayoutInv
<1>5. ASSUME NEW p \in Payout, Failures!retryFailed(p)
      PROVE  PayoutInv'
  <2>1. /\ UNCHANGED executed /\ DOMAIN doc' = Payout
        /\ \A q \in Payout : q # p => doc'[q] = doc[q]
        /\ "status" \in DOMAIN doc'[p] /\ doc'[p].status = "failed"
        /\ atHand' = atHand \cup {p}
    BY <1>5 DEF Failures!retryFailed, Failures!Picked, PayoutInv
  <2> QED
    BY <2>1, PayoutMoves DEF PayoutInv
<1>6. ASSUME NEW p \in Payout, Failures!retryCalls(p)
      PROVE  PayoutInv'
  <2>1. p \in atHand /\ atHand' = atHand \ {p} /\ doc[p].status # "processing"
    BY <1>6 DEF Failures!retryCalls, PayoutInv
  <2>2. PICK o \in Failures!owlPayRequest(p, RetryErrors) :
          /\ Failures!Called(p, o)
          /\ Failures!Sent(p) \/ \E e : Failures!retryCatch(p, e)
    BY <1>6 DEF Failures!retryCalls
  <2>3. /\ executed' \in [Payout -> 0 .. 1]
        /\ \A q \in Payout : q # p => executed'[q] = executed[q]
    <3>1. CASE executed[p] = 0
      <4>1. o.made \in 0 .. 1
        BY <2>2, <3>1, OutcomesMakeOne DEF Failures!owlPayRequest, Failures!takes
      <4> QED
        BY <2>2, <3>1, <4>1, CallAddsOne
    <3>2. CASE executed[p] # 0
      <4>1. o.made = 0
        BY <2>2, <3>2 DEF Failures!owlPayRequest, Failures!takes
      <4> QED
        BY <2>2, <4>1 DEF PayoutInv, Failures!Called
    <3> QED
      BY <3>1, <3>2
  <2>4. CASE Failures!Sent(p)
    BY <2>1, <2>3, <2>4, SentMoves, PayoutMoves
  <2>5. CASE \E e : Failures!retryCatch(p, e)
    <3>1. /\ DOMAIN doc' = Payout /\ \A q \in Payout : q # p => doc'[q] = doc[q]
          /\ "status" \in DOMAIN doc'[p] /\ doc'[p].status = doc[p].status
      BY <2>5 DEF Failures!retryCatch, PayoutInv
    <3> QED
      BY <2>1, <2>3, <3>1, PayoutMoves
  <2> QED
    BY <2>2, <2>4, <2>5
<1> QED
  BY <1>1, <1>2, <1>3, <1>4, <1>5, <1>6
     DEF Failures!FailuresNext, Failures!RetryJob, failureVars, Failures!reportExhausted,
         Failures!retryRestart, Failures!dispatchHarbor, Failures!dispatchVita,
         Failures!dispatchFallback, Failures!dispatchThrows

-----------------------------------------------------------------------------
(* Jobs: only a job that is not running begins a run of a guarded one.     *)
JobInv ==
  /\ running \in [Scheduled -> [all : Int, recorded : Int]]
  /\ Jobs!GuardedRunsAlone

LEMMA JobsStart == Init => JobInv
BY DEF Init, Jobs!JobsInit, JobInv, Jobs!GuardedRunsAlone

(* A run that begins is counted, once if the job looks for another.        *)
LEMMA JobBegins ==
  ASSUME JobInv, NEW j \in Scheduled, NEW recorded, Jobs!Begins(j, recorded)
  PROVE  JobInv'
<1>1. CASE UNCHANGED running
  BY <1>1 DEF JobInv, Jobs!GuardedRunsAlone
<1>2. CASE running' = Jobs!Counted(j, recorded) /\ (j \in Jobs!Guarded => running[j].all <= 0)
  <2>0. running[j] \in [all : Int, recorded : Int]
    BY DEF JobInv
  <2> DEFINE n == IF recorded THEN running[j].recorded + 1 ELSE running[j].recorded
             one == [running[j] EXCEPT !.all = running[j].all + 1]
             two == [one EXCEPT !.recorded = n]
  <2>n. n \in Int
    BY <2>0
  <2>1. one \in [all : Int, recorded : Int] /\ one.all = running[j].all + 1
    BY <2>0
  <2> HIDE DEF n, one
  <2>2. two \in [all : Int, recorded : Int] /\ two.all = one.all
    BY <2>n, <2>1
  <2>3. /\ DOMAIN running' = Scheduled /\ \A k \in Scheduled \ {j} : running'[k] = running[k]
        /\ running'[j] = two
    BY <1>2 DEF Jobs!Counted, JobInv, n, one
  <2> HIDE DEF two
  <2>4. running' = [running EXCEPT ![j] = two]
    BY <1>2 DEF Jobs!Counted, JobInv, n, one, two
  <2>5. j \in Jobs!Guarded => two.all <= 1
    BY <1>2, <2>0, <2>1, <2>2
  <2> QED
    BY <2>2, <2>4, <2>5 DEF JobInv, Jobs!GuardedRunsAlone
<1> QED
  BY <1>1, <1>2 DEF Jobs!Begins, JobInv

LEMMA JobKept ==
  ASSUME JobInv, [Jobs!JobsNext]_jobVars
  PROVE  JobInv'
<1>1. CASE UNCHANGED running
  BY <1>1 DEF JobInv, Jobs!GuardedRunsAlone
<1>2. CASE Jobs!serverStops
  BY <1>2 DEF Jobs!serverStops, JobInv, Jobs!GuardedRunsAlone
<1>3. ASSUME NEW j \in Scheduled, Jobs!intervalFires(j) \/ Jobs!jobTrigger(j)
      PROVE  JobInv'
  BY <1>1, <1>3, JobBegins DEF Jobs!intervalFires, Jobs!jobTrigger
<1>4. ASSUME NEW j \in Scheduled, Jobs!runJob(j) \/ Jobs!runEnds(j)
      PROVE  JobInv'
  <2>1. PICK one \in [all : Int, recorded : Int] :
          running' = [running EXCEPT ![j] = one] /\ one.all = running[j].all - 1
    <3>1. CASE Jobs!runJob(j)
      <4>1. [all |-> running[j].all - 1, recorded |-> running[j].recorded - 1]
              \in [all : Int, recorded : Int]
        BY DEF JobInv
      <4> QED
        BY <3>1, <4>1 DEF Jobs!runJob
    <3>2. CASE Jobs!runEnds(j)
      <4>1. [running[j] EXCEPT !.all = running[j].all - 1] \in [all : Int, recorded : Int]
        BY DEF JobInv
      <4> QED
        BY <3>2, <4>1 DEF Jobs!runEnds, JobInv
    <3> QED
      BY <1>4, <3>1, <3>2
  <2> QED
    BY <2>1 DEF JobInv, Jobs!GuardedRunsAlone
<1> QED
  BY <1>1, <1>2, <1>3, <1>4
     DEF Jobs!JobsNext, Jobs!Lambda, Jobs!Ends, jobVars, Jobs!startServer, Jobs!ruleComes,
         Jobs!lambdaGivesUp, Jobs!retriesEnd, Jobs!answered

-----------------------------------------------------------------------------
(* The transit of the USDC: a payment that may still be sent has been sent *)
(* no more often than the server stopped.                                  *)
Sendable(p) ==
  \/ transit[p] = "submit"
  \/ pdoc[p].status \in {"payin_confirmed", "payin_completed"} /\ transit[p] # "record"

TransitInv ==
  /\ DOMAIN pdoc = Payment /\ \A p \in Payment : DOMAIN pdoc[p] = {"status", "txId", "retries", "attempts", "cooling"}
  /\ sent \in [Payment -> Nat] /\ transitStops \in Nat
  /\ transit \in [Payment -> {"idle", "check", "submit", "record"}]
  /\ \A p \in Payment : sent[p] <= 1 + transitStops /\ (Sendable(p) => sent[p] <= transitStops)

LEMMA TransitStarts == Init => TransitInv
BY DEF Init, Transit!TransitInit, TransitInv

(* A step about one payment.                                               *)
LEMMA TransitMoves ==
  ASSUME TransitInv, NEW p \in Payment, UNCHANGED transitStops,
         DOMAIN pdoc' = Payment, \A q \in Payment : q # p => pdoc'[q] = pdoc[q],
         DOMAIN pdoc'[p] = DOMAIN pdoc[p],
         transit' \in [Payment -> {"idle", "check", "submit", "record"}],
         \A q \in Payment : q # p => transit'[q] = transit[q],
         \/ UNCHANGED sent /\ (Sendable(p)' => Sendable(p))
         \/ sent' = [sent EXCEPT ![p] = @ + 1] /\ Sendable(p) /\ ~Sendable(p)'
  PROVE  TransitInv'
BY DEF TransitInv, Sendable

LEMMA TransitKept ==
  ASSUME WritesFail = FALSE, TransitInv, [Transit!TransitNext]_transitVars
  PROVE  TransitInv'
<1>1. CASE UNCHANGED <<pdoc, sent, transit, transitStops>>
  BY <1>1 DEF TransitInv, Sendable
<1>2. CASE Transit!serverStops
  BY <1>2 DEF Transit!serverStops, TransitInv, Sendable
<1> USE DEF Transit!Now, Transit!TransitGoes, Transit!MAX_WEB3_RETRIES
<1>4. ASSUME NEW p \in Payment, Transit!stuckPayinCompleted(p)
      PROVE  TransitInv'
  <2>1. /\ UNCHANGED <<sent, transitStops>> /\ transit[p] = "idle"
        /\ pdoc[p].status = "payin_completed"
    BY <1>4 DEF Transit!stuckPayinCompleted
  <2>2. Sendable(p)
    BY <2>1 DEF Sendable
  <2>3. /\ DOMAIN pdoc' = Payment /\ \A q \in Payment : q # p => pdoc'[q] = pdoc[q]
        /\ DOMAIN pdoc'[p] = DOMAIN pdoc[p]
        /\ transit' \in [Payment -> {"idle", "check", "submit", "record"}]
        /\ \A q \in Payment : q # p => transit'[q] = transit[q]
    BY <1>4 DEF Transit!stuckPayinCompleted, TransitInv
  <2> QED
    BY <2>1, <2>2, <2>3, TransitMoves
<1>5. ASSUME NEW p \in Payment, Transit!executeWeb3Transit(p)
      PROVE  TransitInv'
  <2>1. /\ UNCHANGED <<pdoc, sent, transitStops>> /\ transit[p] = "check"
        /\ \/ pdoc[p].status = "payin_completed" /\ transit' = [transit EXCEPT ![p] = "submit"]
           \/ transit' = [transit EXCEPT ![p] = "idle"]
    BY <1>5 DEF Transit!executeWeb3Transit
  <2>2. Sendable(p)' => Sendable(p)
    BY <2>1 DEF Sendable, TransitInv
  <2> QED
    BY <2>1, <2>2, TransitMoves DEF TransitInv
<1>6. ASSUME NEW p \in Payment, Transit!submitTransaction(p)
      PROVE  TransitInv'
  <2>1. transit[p] = "submit" /\ UNCHANGED transitStops
    BY <1>6 DEF Transit!submitTransaction
  <2>2. /\ DOMAIN pdoc' = Payment /\ \A q \in Payment : q # p => pdoc'[q] = pdoc[q]
        /\ DOMAIN pdoc'[p] = DOMAIN pdoc[p]
        /\ transit' \in [Payment -> {"idle", "check", "submit", "record"}]
        /\ \A q \in Payment : q # p => transit'[q] = transit[q]
    BY <1>6 DEF Transit!submitTransaction, TransitInv
  <2>3. Sendable(p) /\ ~Sendable(p)'
    BY <1>6, <2>1 DEF Transit!submitTransaction, Sendable, TransitInv
  <2>4. UNCHANGED sent \/ sent' = [sent EXCEPT ![p] = @ + 1]
    BY <1>6 DEF Transit!submitTransaction, Transit!onNetwork
  <2> QED
    BY <2>1, <2>2, <2>3, <2>4, TransitMoves
<1>7. ASSUME NEW p \in Payment, Transit!recordTransit(p)
      PROVE  TransitInv'
  <2>1. /\ UNCHANGED <<sent, transitStops>>
        /\ transit' = [transit EXCEPT ![p] = "idle"]
        /\ pdoc' = [pdoc EXCEPT ![p].status = "in_transit", ![p].txId = "transit"]
    BY <1>7 DEF Transit!recordTransit
  <2>2. ~Sendable(p)'
    BY <2>1 DEF Sendable, TransitInv
  <2> QED
    BY <2>1, <2>2, TransitMoves DEF TransitInv
<1>8. ASSUME NEW p \in Payment, UNCHANGED <<sent, transit, transitStops>>,
             NEW s, pdoc' = [pdoc EXCEPT ![p].status = s],
             s \in {"payin_confirmed", "payin_completed"}
               => pdoc[p].status \in {"payin_confirmed", "payin_completed"}
      PROVE  TransitInv'
  <2>1. Sendable(p)' => Sendable(p)
    BY <1>8 DEF Sendable, TransitInv
  <2> QED
    BY <1>8, <2>1, TransitMoves DEF TransitInv
<1>9. ASSUME NEW p \in Payment,
             \/ Transit!expiredInTransit(p) \/ Transit!updateTransactionStatus(p)
             \/ Transit!dispatchPayout(p) \/ Transit!handlePayoutCompleted(p)
             \/ Transit!processBoliviaManualPayout(p)
      PROVE  TransitInv'
  <2>1. UNCHANGED <<sent, transit, transitStops>>
    BY <1>9 DEF Transit!expiredInTransit, Transit!updateTransactionStatus, Transit!dispatchPayout,
         Transit!handlePayoutCompleted, Transit!processBoliviaManualPayout
  <2>2. PICK s : /\ pdoc' = [pdoc EXCEPT ![p].status = s]
                 /\ s \in {"payin_confirmed", "payin_completed"}
                      => pdoc[p].status \in {"payin_confirmed", "payin_completed"}
    BY <1>9 DEF Transit!expiredInTransit, Transit!updateTransactionStatus, Transit!dispatchPayout,
         Transit!handlePayoutCompleted, Transit!processBoliviaManualPayout
  <2> QED
    BY <2>1, <2>2, <1>8
<1>10. ASSUME NEW p \in Payment,
              \/ Transit!registerAuditTrail(p) \/ Transit!resealAuditTrails(p)
              \/ Transit!cooldownPasses(p)
       PROVE  TransitInv'
  <2>1. UNCHANGED <<sent, transit, transitStops>>
    BY <1>10 DEF Transit!registerAuditTrail, Transit!resealAuditTrails, Transit!cooldownPasses
  <2>2. /\ DOMAIN pdoc' = Payment /\ \A q \in Payment : q # p => pdoc'[q] = pdoc[q]
        /\ DOMAIN pdoc'[p] = DOMAIN pdoc[p] /\ pdoc'[p].status = pdoc[p].status
    <3>1. CASE Transit!registerAuditTrail(p)
      BY <3>1 DEF Transit!registerAuditTrail, TransitInv
    <3>2. CASE Transit!resealAuditTrails(p)
      BY <3>2 DEF Transit!resealAuditTrails, TransitInv
    <3>3. CASE Transit!cooldownPasses(p)
      BY <3>3 DEF Transit!cooldownPasses, TransitInv
    <3> QED
      BY <1>10, <3>1, <3>2, <3>3
  <2>3. Sendable(p)' => Sendable(p)
    BY <2>1, <2>2 DEF Sendable
  <2> QED
    BY <2>1, <2>2, <2>3, TransitMoves DEF TransitInv
<1> QED
  BY <1>1, <1>2, <1>4, <1>5, <1>6, <1>7, <1>9, <1>10
     DEF Transit!TransitNext, Transit!transitStep, transitVars

-----------------------------------------------------------------------------
(* Reminders: what the run has on its list was not mailed before, and a    *)
(* mail is counted with its session or about to be.                        *)
OneRun == \A r, s \in NudgeRun : r = s
Letters(r) == nudgeRun[r].todo \cup nudgeRun[r].mailed

ReminderTyped ==
  /\ mails \in [Reminders!Letter -> 0 .. 1]
  /\ nudge \in [Reminders!User -> [count : Nat, sessionId : Int]]
  /\ DOMAIN nudgeRun = NudgeRun
  /\ \A r \in NudgeRun :
       DOMAIN nudgeRun[r] = {"todo", "mailed"} /\ nudgeRun[r].mailed \subseteq Reminders!Letter

(* A letter the run has: the user may have one more, and not of a session  *)
(* he was mailed for.                                                      *)
Allowed(l) ==
  l[1] \in Reminders!User => nudge[l[1]].count < maxAvisos /\ nudge[l[1]].sessionId # l[2]

ReminderInv ==
  /\ ReminderTyped
  /\ \A u \in Reminders!User : nudge[u].count <= maxAvisos
  /\ \A r \in NudgeRun :
       /\ \A k, l \in Letters(r) : k[1] = l[1] => k = l
       /\ nudgeRun[r].todo \cap nudgeRun[r].mailed = {}
       /\ \A k, l \in nudgeRun[r].mailed : k = l
       /\ \A l \in Letters(r) : Allowed(l)
       /\ \A l \in nudgeRun[r].todo \cap Reminders!Letter : mails[l] = 0
  /\ \A l \in Reminders!Letter :
       mails[l] = 1 => \/ \E r \in NudgeRun : l \in nudgeRun[r].mailed
                       \/ nudge[l[1]].count = 1 /\ nudge[l[1]].sessionId = l[2]
                       \/ nudge[l[1]].count >= 2

LEMMA RemindersStart ==
  ASSUME maxAvisos \in Nat
  PROVE  Init => ReminderInv
BY DEF Init, Reminders!RemindersInit, ReminderInv, ReminderTyped, Letters, Allowed, Reminders!Idle,
     Reminders!Never

LEMMA ReminderKept ==
  ASSUME OneRun, NudgeWriteFails = FALSE, maxAvisos \in 0 .. 2,
         ReminderInv, [Reminders!RemindersNext]_reminderVars
  PROVE  ReminderInv'
<1>1. CASE UNCHANGED <<nudge, mails, nudgeRun>>
  BY <1>1 DEF ReminderInv, ReminderTyped, Letters, Allowed
<1>2. ASSUME NEW r \in NudgeRun, Reminders!kycRetryNudge(r)
      PROVE  ReminderInv'
  <2>0. /\ UNCHANGED <<nudge, mails>> /\ nudgeRun[r] = Reminders!Idle
        /\ \A s \in NudgeRun : s = r
    BY <1>2 DEF Reminders!kycRetryNudge, OneRun
  <2>1. PICK S : /\ \A u \in S : u \in Reminders!User /\ Reminders!evaluarUsuario(u)
                 /\ nudgeRun' = [nudgeRun EXCEPT ![r].todo = {<<u, user[u].session>> : u \in S}]
    BY <1>2 DEF Reminders!kycRetryNudge
  <2>2. /\ DOMAIN nudgeRun' = NudgeRun /\ DOMAIN nudgeRun'[r] = {"todo", "mailed"}
        /\ nudgeRun'[r].todo = {<<u, user[u].session>> : u \in S} /\ nudgeRun'[r].mailed = {}
    BY <2>0, <2>1 DEF ReminderInv, ReminderTyped, Reminders!Idle
  <2>3. \A u \in S : nudge[u].count < maxAvisos /\ nudge[u].sessionId # user[u].session
    BY <2>1 DEF Reminders!evaluarUsuario
  <2>4. \A l \in Reminders!Letter : mails[l] = 1 =>
          \/ nudge[l[1]].count = 1 /\ nudge[l[1]].sessionId = l[2]
          \/ nudge[l[1]].count >= 2
    BY <2>0 DEF ReminderInv, Reminders!Idle
  <2>5. ASSUME NEW l \in nudgeRun'[r].todo \cap Reminders!Letter
        PROVE  mails[l] = 0
    <3>1. PICK u \in S : l = <<u, user[u].session>>
      BY <2>2
    <3>2. nudge[u].count < maxAvisos /\ nudge[u].sessionId # user[u].session /\ u \in Reminders!User
      BY <2>1, <2>3
    <3>3. mails[l] # 1
      BY <2>4, <3>1, <3>2 DEF ReminderInv, ReminderTyped
    <3>4. mails[l] \in 0 .. 1
      BY DEF ReminderInv, ReminderTyped
    <3> QED
      BY <3>3, <3>4
  <2>6. /\ \A k, l \in Letters(r)' : k[1] = l[1] => k = l
        /\ \A l \in Letters(r)' : Allowed(l)'
    BY <2>0, <2>2, <2>3 DEF Letters, Allowed
  <2>7. ReminderTyped'
    BY <2>0, <2>2 DEF ReminderInv, ReminderTyped
  <2> QED
    BY <2>0, <2>2, <2>4, <2>5, <2>6, <2>7 DEF ReminderInv
<1>3. ASSUME NEW r \in NudgeRun, NEW l \in Reminders!Letter, Reminders!sendKycRetryEmail(r, l)
      PROVE  ReminderInv'
  <2>0. /\ UNCHANGED nudge /\ \A s \in NudgeRun : s = r
        /\ l \in nudgeRun[r].todo /\ nudgeRun[r].mailed = {}
        /\ nudgeRun' = [nudgeRun EXCEPT ![r] = [todo |-> nudgeRun[r].todo \ {l}, mailed |-> {l}]]
        /\ UNCHANGED mails \/ mails' = [mails EXCEPT ![l] = mails[l] + 1]
    BY <1>3 DEF Reminders!sendKycRetryEmail, OneRun
  <2>1. /\ DOMAIN nudgeRun' = NudgeRun /\ DOMAIN nudgeRun'[r] = {"todo", "mailed"}
        /\ nudgeRun'[r].todo = nudgeRun[r].todo \ {l} /\ nudgeRun'[r].mailed = {l}
    BY <2>0 DEF ReminderInv, ReminderTyped
  <2>2. /\ mails' \in [Reminders!Letter -> 0 .. 1]
        /\ \A k \in Reminders!Letter : k # l => mails'[k] = mails[k]
    <3>1. mails[l] = 0
      BY <2>0 DEF ReminderInv
    <3> QED
      BY <2>0, <3>1 DEF ReminderInv, ReminderTyped
  <2>3. Letters(r)' = Letters(r)
    BY <2>0, <2>1 DEF Letters
  <2>4. ReminderTyped'
    BY <2>0, <2>1, <2>2 DEF ReminderInv, ReminderTyped
  <2>5. \A k \in Letters(r) : Allowed(k)' <=> Allowed(k)
    BY <2>0 DEF Allowed
  <2>6. \A k \in nudgeRun'[r].todo \cap Reminders!Letter : mails'[k] = 0
    BY <2>0, <2>1, <2>2 DEF ReminderInv
  <2>7. ASSUME NEW k \in Reminders!Letter, mails'[k] = 1
        PROVE  \/ k \in nudgeRun'[r].mailed
               \/ nudge'[k[1]].count = 1 /\ nudge'[k[1]].sessionId = k[2]
               \/ nudge'[k[1]].count >= 2
    BY <2>0, <2>1, <2>2, <2>7 DEF ReminderInv
  <2> QED
    BY <2>0, <2>1, <2>3, <2>4, <2>5, <2>6, <2>7 DEF ReminderInv
<1>4. ASSUME NEW r \in NudgeRun, Reminders!recordNudge(r)
      PROVE  ReminderInv'
  <2>0. PICK l \in nudgeRun[r].mailed :
          /\ nudgeRun' = [nudgeRun EXCEPT ![r].mailed = {}]
          /\ nudge' = [nudge EXCEPT ![l[1]] = [count |-> nudge[l[1]].count + 1, sessionId |-> l[2]]]
          /\ UNCHANGED mails /\ \A s \in NudgeRun : s = r
    BY <1>4 DEF Reminders!recordNudge, OneRun
  <2>1. l \in Reminders!Letter /\ l[1] \in Reminders!User /\ l[2] \in Int
    BY DEF ReminderInv, ReminderTyped, Reminders!Letter, Reminders!Sessions
  <2>2. /\ DOMAIN nudgeRun' = NudgeRun /\ DOMAIN nudgeRun'[r] = {"todo", "mailed"}
        /\ nudgeRun'[r].todo = nudgeRun[r].todo /\ nudgeRun'[r].mailed = {}
    BY <2>0 DEF ReminderInv, ReminderTyped
  <2>3. /\ nudge' \in [Reminders!User -> [count : Nat, sessionId : Int]]
        /\ nudge'[l[1]].count = nudge[l[1]].count + 1 /\ nudge'[l[1]].sessionId = l[2]
        /\ \A u \in Reminders!User : u # l[1] => nudge'[u] = nudge[u]
    BY <2>0, <2>1 DEF ReminderInv, ReminderTyped
  <2>4. nudge[l[1]].count \in Nat /\ nudge[l[1]].count < maxAvisos
    BY <2>1 DEF ReminderInv, ReminderTyped, Letters, Allowed
  <2>5. ReminderTyped'
    BY <2>0, <2>2, <2>3 DEF ReminderInv, ReminderTyped
  <2>6. \A u \in Reminders!User : nudge'[u].count <= maxAvisos
    BY <2>3, <2>4 DEF ReminderInv
  <2>7. \A k \in nudgeRun[r].todo : k[1] # l[1] /\ k \in Letters(r)
    BY DEF ReminderInv, Letters
  <2>8. \A k \in Letters(r)' : k \in Letters(r) /\ Allowed(k)'
    BY <2>2, <2>3, <2>7 DEF ReminderInv, Letters, Allowed
  <2>9. ASSUME NEW k \in Reminders!Letter, mails[k] = 1
        PROVE  \/ nudge'[k[1]].count = 1 /\ nudge'[k[1]].sessionId = k[2]
               \/ nudge'[k[1]].count >= 2
    <3>0. k = <<k[1], k[2]>> /\ l = <<l[1], l[2]>> /\ k[1] \in Reminders!User
      BY <2>1 DEF Reminders!Letter
    <3>1. CASE k[1] # l[1]
      <4>1. k \notin nudgeRun[r].mailed
        BY <3>1 DEF ReminderInv
      <4> QED
        BY <2>0, <2>3, <2>9, <3>0, <3>1, <4>1 DEF ReminderInv
    <3>2. CASE k = l
      BY <2>3, <2>4, <3>2
    <3>3. CASE k[1] = l[1] /\ k # l
      <4>1. k \notin nudgeRun[r].mailed
        BY <3>3 DEF ReminderInv, Letters
      <4>2. nudge[k[1]].count = 1 \/ nudge[k[1]].count >= 2
        BY <2>0, <2>9, <4>1 DEF ReminderInv
      <4> QED
        BY <2>3, <2>4, <3>3, <4>2
    <3> QED
      BY <3>1, <3>2, <3>3
  <2> QED
    BY <2>0, <2>2, <2>5, <2>6, <2>8, <2>9 DEF ReminderInv, Letters
<1> QED
  BY <1>1, <1>2, <1>3, <1>4
     DEF Reminders!RemindersNext, Reminders!RunStep, reminderVars, Reminders!opensAndAbandons,
         Reminders!restartKycSession, Reminders!isVerified, Reminders!graceEnds

-----------------------------------------------------------------------------
(* Quotes: the figures of a quote are numbers, and the payment keeps those *)
(* it was checked with.                                                    *)
QuoteAssumption ==
  /\ Amounts \subseteq Nat /\ Markets \subseteq Nat \ {0} /\ VitaRates \subseteq Nat
  /\ Spreads \subseteq 0 .. 100 /\ FxBuffer \in Nat
  /\ Amounts # {} /\ Spreads # {}

Figures(q) == q.usdc \in Int /\ q.dest \in Int

QuoteInv ==
  /\ market \in Markets /\ vitaRate \in VitaRates
  /\ corridor.spread \in Int /\ DOMAIN corridor = {"spread", "isActive"}
  /\ ws.spread \in Int /\ ws.amount \in Int /\ DOMAIN ws = {"open", "spread", "amount", "timer"}
  /\ computing \in [Quotes!Callers -> [amount : Int, spread : Int]]
  /\ quoted.amount \in Int /\ Figures(quoted)
  /\ payment.stage = "checking" =>
       payment.quote.amount \in Int /\ Figures(payment.quote) /\ payment.spread \in Int
  /\ payment.stage \in {"created", "sent", "pending_fx_review"} =>
       DOMAIN payment = {"stage", "usdc", "dest", "rate", "net", "checked"}
  /\ Quotes!PromiseIsBacked

(* Rounding gives numbers.                                                 *)
LEMMA RoundIsNumber ==
  ASSUME NEW a \in Int, NEW b \in Nat \ {0}
  PROVE  Quotes!Round(a, b) \in Int /\ (a >= b => Quotes!Round(a, b) > 0)
BY DEF Quotes!Round

LEMMA TransitIsNumber ==
  ASSUME QuoteAssumption, NEW amount \in Int, NEW percent \in Int, NEW m \in Markets
  PROVE  Quotes!usdcTransit(amount, percent, m) \in Int
<1>1. m \in Nat \ {0} /\ FxBuffer \in Nat
  BY DEF QuoteAssumption
<1>2. m * (100 + FxBuffer) \in Nat /\ m * (100 + FxBuffer) >= 100
  BY <1>1
<1>3. Quotes!resolveQuoteRate(m) \in Nat \ {0}
  <2>1. Quotes!Round(m * (100 + FxBuffer), 100) \in Int /\ Quotes!Round(m * (100 + FxBuffer), 100) > 0
    BY <1>2, RoundIsNumber
  <2> QED
    BY <2>1 DEF Quotes!resolveQuoteRate
<1>4. Quotes!netBOB(amount, percent) * 100 \in Int
  BY DEF Quotes!netBOB
<1> QED
  BY <1>3, <1>4, RoundIsNumber DEF Quotes!usdcTransit

(* The guard on the destination alone: 1 %.                                *)
LEMMA ServerPays ==
  ASSUME NEW dest \in Int, NEW x \in Int, Quotes!Within(dest, x, 10)
  PROVE  dest * 1000 <= x * 1010 /\ x >= 0
<1>1. dest * 1000 \in (x * (1000 - 10)) .. (x * (1000 + 10))
  BY DEF Quotes!Within
<1> QED
  BY <1>1

WithinBoth(dest, quote, rate) == dest * 1000 <= quote * rate * 1026

(* The two tolerances together: 1.5 % of the USDC, 1 % of what they buy.   *)
LEMMA TolerancesAdd ==
  ASSUME NEW dest \in Int, NEW quote \in Int, NEW server \in Int, NEW rate \in Nat,
         Quotes!Within(dest, server * rate, 10), Quotes!Within(quote, server, 15)
  PROVE  WithinBoth(dest, quote, rate)
<1>1. PICK x \in Int : x = server * rate
  OBVIOUS
<1>2. PICK y \in Int : y = quote * rate
  OBVIOUS
<1>3. dest * 1000 <= x * 1010 /\ x >= 0
  <2>1. Quotes!Within(dest, x, 10)
    BY <1>1
  <2> QED
    BY <2>1, ServerPays
<1>4. quote * 1000 \in (server * (1000 - 15)) .. (server * (1000 + 15))
  BY DEF Quotes!Within
<1>5. quote * 1000 - server * 985 \in Nat
  BY <1>4
<1>6. \A d \in Nat : d * rate \in Nat
  OBVIOUS
<1>7. (quote * 1000 - server * 985) * rate \in Nat
  BY <1>5, <1>6
<1>8. (quote * 1000 - server * 985) * rate = y * 1000 - x * 985
  BY <1>1, <1>2
<1>9. y * 1000 >= x * 985
  BY <1>7, <1>8
<1> QED
  BY <1>2, <1>3, <1>9 DEF WithinBoth

(* Where a refresh is not under way its spread is some spread, a number.   *)
LEMMA IdleIsNumber ==
  ASSUME QuoteAssumption
  PROVE  /\ Quotes!NotComputing \in [amount : Int, spread : Int]
         /\ (CHOOSE a \in Amounts : TRUE) \in Int
<1>1. /\ \A s \in Spreads : s \in Int
      /\ \A a \in Amounts : a \in Int
  BY DEF QuoteAssumption
<1>2. (CHOOSE s \in Spreads : TRUE) \in Spreads
  BY DEF QuoteAssumption
<1>3. (CHOOSE a \in Amounts : TRUE) \in Amounts
  BY DEF QuoteAssumption
<1> QED
  BY <1>1, <1>2, <1>3 DEF Quotes!NotComputing, Quotes!None

LEMMA QuotesStart ==
  ASSUME QuoteAssumption
  PROVE  Init => QuoteInv
<1> SUFFICES ASSUME Init
             PROVE  QuoteInv
  OBVIOUS
<1>1. Quotes!QuotesInit
  BY DEF Init
<1>2. corridor.spread \in Int
  BY <1>1 DEF Quotes!QuotesInit, QuoteAssumption
<1> QED
  BY <1>1, <1>2, IdleIsNumber
     DEF Quotes!QuotesInit, QuoteInv, Figures, Quotes!NoPayment, Quotes!PromiseIsBacked, Quotes!None

(* What the socket and the world do leaves the payment alone.              *)
LEMMA QuoteMoves ==
  ASSUME QuoteInv, UNCHANGED payment,
         market' \in Markets, vitaRate' \in VitaRates,
         corridor'.spread \in Int, DOMAIN corridor' = {"spread", "isActive"},
         ws'.spread \in Int, ws'.amount \in Int, DOMAIN ws' = {"open", "spread", "amount", "timer"},
         computing' \in [Quotes!Callers -> [amount : Int, spread : Int]],
         quoted'.amount \in Int, Figures(quoted)'
  PROVE  QuoteInv'
BY DEF QuoteInv, Quotes!PromiseIsBacked, Figures

LEMMA QuoteIsNumber ==
  ASSUME QuoteAssumption, NEW amount \in Int, NEW percent \in Int, NEW m \in Markets, NEW r \in VitaRates
  PROVE  /\ Quotes!calculateQuote(amount, percent, m, r).amount \in Int
         /\ Figures(Quotes!calculateQuote(amount, percent, m, r))
<1>1. Quotes!usdcTransit(amount, percent, m) \in Int /\ r \in Int
  BY TransitIsNumber DEF QuoteAssumption
<1>2. Quotes!destination(amount, percent, m, r) \in Int
  BY <1>1 DEF Quotes!destination
<1> QED
  BY <1>1, <1>2 DEF Quotes!calculateQuote, Figures

LEMMA QuoteKept ==
  ASSUME QuoteAssumption, QuoteInv, [Quotes!QuotesNext]_quoteVars
  PROVE  QuoteInv'
<1> USE DEF Quotes!worldVars
<1>1. CASE UNCHANGED quoteVars
  BY <1>1, QuoteMoves DEF quoteVars, QuoteInv, Figures
<1>2. CASE \/ Quotes!ratesMove \/ Quotes!vitaFails \/ Quotes!vitaRecovers
           \/ Quotes!updateCorridor \/ Quotes!deactivateCorridor
  <2>1. /\ UNCHANGED <<payment, quoted, ws, computing>>
        /\ market' \in Markets /\ vitaRate' \in VitaRates
    BY <1>2 DEF Quotes!ratesMove, Quotes!vitaFails, Quotes!vitaRecovers,
         Quotes!updateCorridor, Quotes!deactivateCorridor, QuoteInv
  <2>2. corridor'.spread \in Int /\ DOMAIN corridor' = {"spread", "isActive"}
    BY <1>2 DEF Quotes!ratesMove, Quotes!vitaFails, Quotes!vitaRecovers,
         Quotes!updateCorridor, Quotes!deactivateCorridor, QuoteInv, QuoteAssumption
  <2> QED
    BY <2>1, <2>2, QuoteMoves DEF QuoteInv, Figures
<1>3. ASSUME NEW a \in Amounts, Quotes!handleSubscribe(a) \/ Quotes!handleUpdateAmount(a)
      PROVE  QuoteInv'
  <2>0. a \in Int
    BY DEF QuoteAssumption
  <2>1. UNCHANGED <<market, vitaRate, corridor, payment, quoted>>
    BY <1>3 DEF Quotes!handleSubscribe, Quotes!handleUpdateAmount
  <2>2. /\ ws'.spread \in Int /\ ws'.amount \in Int
        /\ DOMAIN ws' = {"open", "spread", "amount", "timer"}
    BY <1>3, <2>0 DEF Quotes!handleSubscribe, Quotes!handleUpdateAmount, QuoteInv
  <2>3. PICK s \in Int : computing' = [computing EXCEPT !["message"] = [amount |-> a, spread |-> s]]
    BY <1>3 DEF Quotes!handleSubscribe, Quotes!handleUpdateAmount, Quotes!startComputing, QuoteInv
  <2>4. computing' \in [Quotes!Callers -> [amount : Int, spread : Int]]
    BY <2>0, <2>3 DEF QuoteInv
  <2> QED
    BY <2>1, <2>2, <2>4, QuoteMoves DEF QuoteInv, Figures
<1>4. CASE Quotes!scheduleRefresh
  <2>1. UNCHANGED <<market, vitaRate, corridor, payment, quoted>>
    BY <1>4 DEF Quotes!scheduleRefresh
  <2>2. /\ ws'.spread = ws.spread /\ ws'.amount = ws.amount
        /\ DOMAIN ws' = {"open", "spread", "amount", "timer"}
        /\ computing' = [computing EXCEPT !["timer"] = [amount |-> ws.amount, spread |-> ws.spread]]
    BY <1>4 DEF Quotes!scheduleRefresh, Quotes!startComputing, QuoteInv
  <2>3. computing' \in [Quotes!Callers -> [amount : Int, spread : Int]]
    BY <2>2 DEF QuoteInv
  <2> QED
    BY <2>1, <2>2, <2>3, QuoteMoves DEF QuoteInv, Figures
<1>5. CASE Quotes!unsubscribe
  <2>1. /\ UNCHANGED <<market, vitaRate, corridor, payment, quoted, computing>>
        /\ ws'.spread = ws.spread /\ ws'.amount = ws.amount
        /\ DOMAIN ws' = {"open", "spread", "amount", "timer"}
    BY <1>5 DEF Quotes!unsubscribe, QuoteInv
  <2> QED
    BY <2>1, QuoteMoves DEF QuoteInv, Figures
<1>6. ASSUME NEW c \in Quotes!Callers, Quotes!computeQuote(c)
      PROVE  QuoteInv'
  <2>1. /\ UNCHANGED <<market, vitaRate, corridor, payment>>
        /\ ws'.spread = ws.spread /\ ws'.amount = ws.amount
        /\ DOMAIN ws' = {"open", "spread", "amount", "timer"}
        /\ computing' = [computing EXCEPT ![c] = Quotes!NotComputing]
    BY <1>6 DEF Quotes!computeQuote, QuoteInv
  <2>2. computing' \in [Quotes!Callers -> [amount : Int, spread : Int]]
    BY <2>1, IdleIsNumber DEF QuoteInv
  <2>3. quoted' = quoted \/ quoted' = Quotes!quoteOf(c)
    BY <1>6 DEF Quotes!computeQuote, Quotes!sendQuote
  <2>4. Quotes!quoteOf(c).amount \in Int /\ Figures(Quotes!quoteOf(c))
    <3>1. computing[c].amount \in Int /\ computing[c].spread \in Int
          /\ market \in Markets /\ vitaRate \in VitaRates
      BY DEF QuoteInv
    <3> QED
      BY <3>1, QuoteIsNumber DEF Quotes!quoteOf
  <2>5. quoted'.amount \in Int /\ Figures(quoted)'
    BY <2>3, <2>4 DEF QuoteInv, Figures
  <2> QED
    BY <2>1, <2>2, <2>5, QuoteMoves DEF QuoteInv
<1>7. ASSUME NEW a \in Amounts, Quotes!getQuote(a)
      PROVE  QuoteInv'
  <2>1. /\ UNCHANGED <<market, vitaRate, corridor, payment, ws, computing>>
        /\ quoted' = Quotes!quoteNow(a)
    BY <1>7 DEF Quotes!getQuote
  <2>2. Quotes!quoteNow(a).amount \in Int /\ Figures(Quotes!quoteNow(a))
    <3>1. a \in Int /\ corridor.spread \in Int /\ market \in Markets /\ vitaRate \in VitaRates
      BY DEF QuoteInv, QuoteAssumption
    <3> QED
      BY <3>1, QuoteIsNumber DEF Quotes!quoteNow
  <2>3. quoted'.amount \in Int /\ Figures(quoted)'
    BY <2>1, <2>2 DEF Figures
  <2> QED
    BY <2>1, <2>3, QuoteMoves DEF QuoteInv
<1>8. CASE Quotes!initReads
  <2>1. /\ UNCHANGED <<market, vitaRate, corridor, ws, computing, quoted>>
        /\ payment' = [stage |-> "checking", quote |-> quoted, spread |-> corridor.spread]
    BY <1>8 DEF Quotes!initReads
  <2> QED
    BY <2>1 DEF QuoteInv, Figures, Quotes!PromiseIsBacked
<1>9. CASE Quotes!rejectPayment
  <2>1. /\ UNCHANGED <<market, vitaRate, corridor, ws, computing, quoted>>
        /\ payment' = [stage |-> "none"]
    BY <1>9 DEF Quotes!rejectPayment, Quotes!NoPayment
  <2> QED
    BY <2>1 DEF QuoteInv, Figures, Quotes!PromiseIsBacked
<1>10. CASE Quotes!createPayment
  <2>0. UNCHANGED <<market, vitaRate, corridor, ws, computing, quoted>> /\ payment.stage = "checking"
    BY <1>10 DEF Quotes!createPayment
  <2> DEFINE assetAmount == Quotes!digitalAssetAmount
             net == Quotes!serverNet
             checked == vitaUp /\ PayoutMethod = "vitaWallet"
  <2>1. payment' = [stage |-> "created", usdc |-> assetAmount, dest |-> payment.quote.dest,
                    rate |-> vitaRate, net |-> net, checked |-> checked]
    BY <1>10 DEF Quotes!createPayment
  <2>2. /\ payment.quote.dest \in Int /\ payment.quote.usdc \in Int /\ vitaRate \in Nat
        /\ Quotes!serverUsdcTransit \in Int
    <3>1. payment.quote.amount \in Int /\ payment.spread \in Int /\ market \in Markets
      BY <2>0 DEF QuoteInv
    <3> QED
      BY <2>0, <3>1, TransitIsNumber DEF QuoteInv, Figures, Quotes!serverUsdcTransit, QuoteAssumption
  <2>3. ASSUME checked
        PROVE  payment.quote.dest * 1000 <= assetAmount * vitaRate * 1026
    <3>1. Quotes!Within(payment.quote.dest, Quotes!serverUsdcTransit * vitaRate, 10)
      BY <1>10, <2>3 DEF Quotes!createPayment, Quotes!validateQuotedDestinationAmount
    <3>2. CASE Quotes!Within(payment.quote.usdc, Quotes!serverUsdcTransit, 15)
      <4>1. assetAmount = payment.quote.usdc
        BY <3>2 DEF Quotes!digitalAssetAmount
      <4>2. WithinBoth(payment.quote.dest, payment.quote.usdc, vitaRate)
        BY <2>2, <3>1, <3>2, TolerancesAdd, Zenon
      <4> QED
        BY <4>1, <4>2 DEF WithinBoth
    <3>3. CASE ~Quotes!Within(payment.quote.usdc, Quotes!serverUsdcTransit, 15)
      <4>1. assetAmount = Quotes!serverUsdcTransit
        BY <3>3 DEF Quotes!digitalAssetAmount
      <4>2. payment.quote.dest * 1000 <= Quotes!serverUsdcTransit * vitaRate * 1026
        <5>1. PICK x \in Int : x = Quotes!serverUsdcTransit * vitaRate
          BY <2>2
        <5>2. payment.quote.dest * 1000 <= x * 1010 /\ x >= 0
          <6>1. Quotes!Within(payment.quote.dest, x, 10)
            BY <3>1, <5>1
          <6> QED
            BY <2>2, <6>1, ServerPays
        <5> QED
          BY <2>2, <5>1, <5>2
      <4> QED
        BY <4>1, <4>2
    <3> QED
      BY <3>2, <3>3
  <2> HIDE DEF assetAmount, net, checked
  <2>4. Quotes!PromiseIsBacked'
    BY <2>1, <2>3 DEF Quotes!PromiseIsBacked
  <2> QED
    BY <2>0, <2>1, <2>4 DEF QuoteInv, Figures
<1>11. CASE Quotes!dispatchPayout
  <2>1. /\ UNCHANGED <<market, vitaRate, corridor, ws, computing, quoted>>
        /\ payment.stage \in {"created", "pending_fx_review"}
        /\ payment' = [payment EXCEPT !.stage = Quotes!afterDrift]
    BY <1>11 DEF Quotes!dispatchPayout
  <2>2. Quotes!afterDrift \in {"pending_fx_review", "sent"}
    BY DEF Quotes!afterDrift
  <2>3. /\ payment'.stage = Quotes!afterDrift /\ DOMAIN payment' = DOMAIN payment
        /\ payment'.checked = payment.checked /\ payment'.dest = payment.dest
        /\ payment'.usdc = payment.usdc /\ payment'.rate = payment.rate
    BY <2>1 DEF QuoteInv
  <2>4. Quotes!PromiseIsBacked'
    BY <2>1, <2>3 DEF QuoteInv, Quotes!PromiseIsBacked
  <2> QED
    BY <2>1, <2>2, <2>3, <2>4 DEF QuoteInv, Figures
<1> QED
  BY <1>1, <1>2, <1>3, <1>4, <1>5, <1>6, <1>7, <1>8, <1>9, <1>10, <1>11 DEF Quotes!QuotesNext

-----------------------------------------------------------------------------
(* The rail: what was checked when the money was asked for is all that the *)
(* payout needs, if the fields no check looks at are given, the provider   *)
(* offers the method it was asked for and the rules could be read.         *)
RailAssumption ==
  /\ RulesComplete = TRUE /\ MethodsChange = FALSE /\ RulesDown = FALSE
  /\ \A c \in Country : HarborRail!Harbor(c) \/ c = "PE"

Payable(p) ==
  /\ DOMAIN p = {"phase", "country", "method", "beneficiary"}
  /\ IF HarborRail!Harbor(p.country)
     THEN /\ p.method \in HarborRail!MethodsOf(p.country)
          /\ HarborRail!buildOwlPayBeneficiary(p.country, p.method, p.beneficiary)
     ELSE HarborRail!vitaTakes(p.beneficiary)

RailInv ==
  /\ DOMAIN payments = Slot
  /\ \A s \in Slot : /\ payments[s].phase \in {"none", "collected", "retried", "sent", "failed"}
                     /\ payments[s].phase # "none" => Payable(payments[s])

LEMMA PeruIsVita == ~HarborRail!Harbor("PE")
BY DEF HarborRail!Harbor, HarborRail!SUPPORTED_METHODS_BY_COUNTRY

(* What is not checked of a person is given.                               *)
LEMMA PersonIsGiven ==
  ASSUME RailAssumption, NEW c, HarborRail!Harbor(c), NEW b \in HarborRail!Beneficiaries(c)
  PROVE  HarborRail!Gives(b, HarborRail!Person(c))
<1>1. c # "PE"
  BY PeruIsVita
<1>2. HarborRail!Unchecked(c) \ HarborRail!PixKeys \subseteq b.given
  BY DEF RailAssumption, HarborRail!Beneficiaries
<1>3. c = "IN" => HarborRail!PixKeys \cap HarborRail!Fields(c) \subseteq b.given
  BY DEF RailAssumption, HarborRail!Beneficiaries
<1>4. HarborRail!Unchecked(c) = UNION HarborRail!Person(c)
  BY <1>1 DEF HarborRail!Unchecked
<1>5. UNION HarborRail!Person(c) \subseteq HarborRail!Fields(c)
  BY DEF HarborRail!Fields
<1>6. ASSUME NEW clause \in HarborRail!Person(c)
      PROVE  clause \cap b.given # {}
  <2>1. PICK f : clause = {f}
    BY DEF HarborRail!Person
  <2>2. f \in UNION HarborRail!Person(c)
    BY <2>1
  <2>3. f \in HarborRail!PixKeys => c = "IN"
    <3>1. CASE c = "US"
      BY <1>6, <2>1, <3>1 DEF HarborRail!Person, HarborRail!PixKeys
    <3>2. CASE c = "MX"
      BY <1>6, <2>1, <3>2 DEF HarborRail!Person, HarborRail!PixKeys
    <3>3. CASE c # "US" /\ c # "MX" /\ c # "IN"
      BY <1>6, <2>1, <3>3 DEF HarborRail!Person, HarborRail!PixKeys
    <3> QED
      BY <3>1, <3>2, <3>3
  <2>4. f \in b.given
    BY <1>2, <1>3, <1>4, <1>5, <2>2, <2>3
  <2> QED
    BY <2>1, <2>4
<1> QED
  BY <1>6 DEF HarborRail!Gives

(* Vita's rules leave nothing wrong.                                       *)
LEMMA VitaIsReady ==
  ASSUME RailAssumption, NEW b \in HarborRail!Beneficiaries("PE"),
         HarborRail!validateAgainstVitaFields(b)
  PROVE  HarborRail!vitaTakes(b)
<1>1. {"pix_key_type", "beneficiary_name"} \subseteq b.given
  BY DEF RailAssumption, HarborRail!Beneficiaries, HarborRail!Unchecked, HarborRail!PixKeys
<1>2. b.bad \subseteq {"pix_key_type", "pix_key"}
  BY DEF HarborRail!Beneficiaries, HarborRail!Wrong
<1> QED
  BY <1>1, <1>2 DEF HarborRail!validateAgainstVitaFields, HarborRail!vitaTakes

LEMMA RailStarts == Init => RailInv
BY DEF Init, HarborRail!RailInit, HarborRail!NoPayment, RailInv

(* A step of one payment that keeps what was checked.                      *)
LEMMA RailMoves ==
  ASSUME RailInv, NEW s \in Slot, NEW phase \in {"collected", "retried", "sent", "failed"},
         payments[s].phase # "none",
         payments' = [payments EXCEPT ![s].phase = phase]
  PROVE  RailInv'
<1> DEFINE new == [payments[s] EXCEPT !.phase = phase]
<1>1. Payable(payments[s])
  BY DEF RailInv
<1>2. /\ DOMAIN new = DOMAIN payments[s] /\ new.phase = phase
      /\ new.country = payments[s].country /\ new.method = payments[s].method
      /\ new.beneficiary = payments[s].beneficiary
  BY <1>1 DEF Payable
<1>3. payments' = [payments EXCEPT ![s] = new]
  OBVIOUS
<1> HIDE DEF new
<1>4. Payable(new)
  BY <1>1, <1>2 DEF Payable
<1> QED
  BY <1>2, <1>3, <1>4 DEF RailInv

LEMMA RailKept ==
  ASSUME RailAssumption, RailInv, [HarborRail!RailNext]_railVars
  PROVE  RailInv'
<1>1. CASE UNCHANGED payments
  BY <1>1 DEF RailInv
<1>2. ASSUME NEW s \in Slot, HarborRail!tryOwlPayV2(s)
      PROVE  RailInv'
  <2>0. Payable(payments[s]) /\ HarborRail!Harbor(payments[s].country)
        /\ payments[s].phase # "none"
    BY <1>2 DEF HarborRail!tryOwlPayV2, RailInv
  <2>1. PICK offered \in HarborRail!Offers(payments[s]) :
          payments' = [payments EXCEPT ![s].phase =
            IF ~HarborRail!buildOwlPayBeneficiary(payments[s].country,
                   HarborRail!selectHarborQuote(payments[s].country, payments[s].method, offered),
                   payments[s].beneficiary)
            THEN "stuck" ELSE IF active THEN "sent" ELSE "failed"]
    BY <1>2 DEF HarborRail!tryOwlPayV2
  <2>2. payments[s].method \in offered
    BY DEF RailAssumption, HarborRail!Offers
  <2>3. HarborRail!selectHarborQuote(payments[s].country, payments[s].method, offered)
          = payments[s].method
    BY <2>2 DEF HarborRail!selectHarborQuote
  <2>4. payments' = [payments EXCEPT ![s].phase = IF active THEN "sent" ELSE "failed"]
    BY <2>0, <2>1, <2>3 DEF Payable
  <2> QED
    BY <2>0, <2>4, RailMoves
<1>3. ASSUME NEW s \in Slot, HarborRail!vitaDispatch(s)
      PROVE  RailInv'
  <2>1. payments' = [payments EXCEPT ![s].phase = "sent"] /\ payments[s].phase # "none"
    BY <1>3 DEF HarborRail!vitaDispatch, RailInv, Payable
  <2> QED
    BY <2>1, RailMoves
<1>4. ASSUME NEW s \in Slot, HarborRail!adminRetries(s)
      PROVE  RailInv'
  BY <1>4, RailMoves DEF HarborRail!adminRetries
<1>5. ASSUME NEW s \in Slot, HarborRail!customerAsks(s)
      PROVE  RailInv'
  <2>c. PICK c \in Country :
          \E method \in HarborRail!MethodsOf(c) \cup {"none"}, b \in HarborRail!Beneficiaries(c) :
            /\ MethodsChange \/ ~HarborRail!Harbor(c) \/ method # "none"
            /\ HarborRail!initCrossBorderPayment(s, c, method, b)
    BY <1>5 DEF HarborRail!customerAsks
  <2>1. PICK method \in HarborRail!MethodsOf(c) \cup {"none"}, b \in HarborRail!Beneficiaries(c) :
          /\ MethodsChange \/ ~HarborRail!Harbor(c) \/ method # "none"
          /\ HarborRail!initCrossBorderPayment(s, c, method, b)
    BY <2>c
  <2> DEFINE new == [phase |-> "collected", country |-> c, method |-> method, beneficiary |-> b]
  <2>2. payments' = [payments EXCEPT ![s] = new]
    BY <2>1 DEF HarborRail!initCrossBorderPayment
  <2>3. HarborRail!checkBeneficiaryExecutable(c, method, b, TRUE)
    BY <2>1 DEF HarborRail!initCrossBorderPayment, RailAssumption
  <2>4. Payable(new)
    <3>1. CASE HarborRail!Harbor(c)
      <4>1. method \in HarborRail!MethodsOf(c)
        BY <2>1, <3>1 DEF RailAssumption
      <4>2. HarborRail!buildOwlPayBeneficiary(c, method, b)
        BY <2>3, <3>1, PersonIsGiven
           DEF HarborRail!checkBeneficiaryExecutable, HarborRail!buildOwlPayBeneficiary
      <4> QED
        BY <3>1, <4>1, <4>2 DEF Payable
    <3>2. CASE ~HarborRail!Harbor(c)
      <4>1. c = "PE"
        BY <3>2 DEF RailAssumption
      <4>2. HarborRail!vitaTakes(b)
        BY <2>3, <3>2, <4>1, VitaIsReady DEF HarborRail!checkBeneficiaryExecutable
      <4> QED
        BY <3>2, <4>2 DEF Payable
    <3> QED
      BY <3>1, <3>2
  <2>5. new.phase = "collected"
    OBVIOUS
  <2> HIDE DEF new
  <2> QED
    BY <2>2, <2>4, <2>5 DEF RailInv
<1> QED
  BY <1>1, <1>2, <1>3, <1>4, <1>5
     DEF HarborRail!RailNext, railVars, HarborRail!customerChanges, HarborRail!cacheEnds,
         HarborRail!initIsBlocked

-----------------------------------------------------------------------------
(* The ledger: sums, counted by the unit.                                  *)
Numbers(f) == IsFiniteSet(DOMAIN f) /\ \A x \in DOMAIN f : f[x] \in Int
Minus(f) == [x \in DOMAIN f |-> -f[x]]
Plus(f, e, v) == [x \in DOMAIN f \cup {e} |-> IF x = e THEN v ELSE f[x]]

LEMMA SumIsCount ==
  ASSUME NEW f
  PROVE  Ledger!Sum(f) = Cardinality(Ledger!Units(f)) - Cardinality(Ledger!Units(Minus(f)))
BY DEF Ledger!Sum, Minus, Ledger!Cardinality, Cardinality

LEMMA UnitOf ==
  ASSUME NEW f, NEW u
  PROVE  u \in Ledger!Units(f) <=> \E x \in DOMAIN f : u \in {x} \X (1 .. f[x])
BY DEF Ledger!Units

LEMMA UnitsOfOne ==
  ASSUME NEW x, NEW v \in Int
  PROVE  /\ IsFiniteSet({x} \X (1 .. v))
         /\ Cardinality({x} \X (1 .. v)) = IF v > 0 THEN v ELSE 0
<1>1. IsFiniteSet(1 .. v) /\ Cardinality(1 .. v) = IF 1 > v THEN 0 ELSE v - 1 + 1
  BY FS_Interval
<1>2. IsFiniteSet({x}) /\ Cardinality({x}) = 1
  BY FS_Singleton
<1> DEFINE I == 1 .. v
<1> HIDE DEF I
<1>3. IsFiniteSet({x} \X I) /\ Cardinality({x} \X I) = 1 * Cardinality(I)
  BY <1>1, <1>2, FS_Product DEF I
<1>4. Cardinality(I) = IF v > 0 THEN v ELSE 0
  BY <1>1 DEF I
<1>5. Cardinality({x} \X I) = IF v > 0 THEN v ELSE 0
  BY <1>3, <1>4
<1> QED
  BY <1>3, <1>5 DEF I

LEMMA NumbersMinus ==
  ASSUME NEW f, Numbers(f)
  PROVE  Numbers(Minus(f)) /\ DOMAIN Minus(f) = DOMAIN f /\ \A x \in DOMAIN f : Minus(f)[x] = -f[x]
BY DEF Numbers, Minus

LEMMA UnitsFinite ==
  ASSUME NEW f, Numbers(f)
  PROVE  IsFiniteSet(Ledger!Units(f)) /\ Cardinality(Ledger!Units(f)) \in Nat
<1> DEFINE T == {{x} \X (1 .. f[x]) : x \in DOMAIN f}
           g == [x \in DOMAIN f |-> {x} \X (1 .. f[x])]
<1>1. \A t \in T : IsFiniteSet(t)
  BY UnitsOfOne DEF Numbers
<1>2. g \in [DOMAIN f -> T] /\ \A t \in T : \E x \in DOMAIN f : g[x] = t
  OBVIOUS
<1> HIDE DEF T, g
<1>3. g \in Surjection(DOMAIN f, T)
  BY <1>2 DEF Surjection
<1>4. IsFiniteSet(T)
  BY <1>3, FS_Surjection DEF Numbers
<1>5. IsFiniteSet(UNION T)
  BY <1>1, <1>4, FS_UNION
<1> QED
  BY <1>5, FS_CardinalityType DEF T, Ledger!Units

LEMMA SumTyped ==
  ASSUME NEW f, Numbers(f)
  PROVE  Ledger!Sum(f) \in Int
<1>1. Cardinality(Ledger!Units(f)) \in Nat /\ Cardinality(Ledger!Units(Minus(f))) \in Nat
  BY UnitsFinite, NumbersMinus
<1> QED
  BY <1>1, SumIsCount

(* One more value: what it adds to the units of the sum.                   *)
LEMMA UnitsAdd ==
  ASSUME NEW f, Numbers(f), NEW e, e \notin DOMAIN f, NEW v \in Int
  PROVE  /\ Numbers(Plus(f, e, v))
         /\ Cardinality(Ledger!Units(Plus(f, e, v)))
              = Cardinality(Ledger!Units(f)) + IF v > 0 THEN v ELSE 0
<1> DEFINE A == Ledger!Units(f)
           B == {e} \X (1 .. v)
           C == Ledger!Units(Plus(f, e, v))
<1>1. Numbers(Plus(f, e, v))
  BY FS_AddElement DEF Numbers, Plus
<1>2. C = A \cup B
  <2>1. ASSUME NEW u
        PROVE  u \in C <=> u \in A \cup B
    <3>1. DOMAIN Plus(f, e, v) = DOMAIN f \cup {e} /\ Plus(f, e, v)[e] = v
          /\ \A x \in DOMAIN f : Plus(f, e, v)[x] = f[x]
      BY DEF Plus
    <3>2. u \in C <=> \E x \in DOMAIN f \cup {e} : u \in {x} \X (1 .. Plus(f, e, v)[x])
      BY <3>1, UnitOf
    <3>3. u \in A <=> \E x \in DOMAIN f : u \in {x} \X (1 .. f[x])
      BY UnitOf
    <3> HIDE DEF A, C
    <3> QED
      BY <3>1, <3>2, <3>3
  <2> HIDE DEF A, B, C
  <2> QED
    BY <2>1
<1>3. A \cap B = {}
  <2>1. \A u \in A : \E x \in DOMAIN f : u \in {x} \X (1 .. f[x])
    BY UnitOf
  <2> HIDE DEF A
  <2> QED
    BY <2>1
<1>4. IsFiniteSet(A) /\ Cardinality(A) \in Nat
  BY UnitsFinite
<1>5. IsFiniteSet(B) /\ Cardinality(B) = IF v > 0 THEN v ELSE 0
  BY UnitsOfOne
<1> HIDE DEF A, B, C
<1>6. Cardinality(A \cup B) = Cardinality(A) + Cardinality(B) - Cardinality(A \cap B)
  BY <1>4, <1>5, FS_Union
<1>7. Cardinality(A \cap B) = 0
  BY <1>3, FS_EmptySet
<1>8. Cardinality(C) = Cardinality(A) + IF v > 0 THEN v ELSE 0
  BY <1>2, <1>4, <1>5, <1>6, <1>7
<1> QED
  BY <1>1, <1>8 DEF A, C

LEMMA SumAdds ==
  ASSUME NEW f, Numbers(f), NEW e, e \notin DOMAIN f, NEW v \in Int
  PROVE  Numbers(Plus(f, e, v)) /\ Ledger!Sum(Plus(f, e, v)) = Ledger!Sum(f) + v
<1>1. Minus(Plus(f, e, v)) = Plus(Minus(f), e, -v)
  BY DEF Minus, Plus
<1>2. Numbers(Minus(f)) /\ e \notin DOMAIN Minus(f)
  BY NumbersMinus
<1>3. Cardinality(Ledger!Units(Plus(Minus(f), e, -v)))
        = Cardinality(Ledger!Units(Minus(f))) + IF -v > 0 THEN -v ELSE 0
  BY <1>2, UnitsAdd
<1>4. /\ Numbers(Plus(f, e, v))
      /\ Cardinality(Ledger!Units(Plus(f, e, v)))
           = Cardinality(Ledger!Units(f)) + IF v > 0 THEN v ELSE 0
  BY UnitsAdd
<1>5. Cardinality(Ledger!Units(f)) \in Nat /\ Cardinality(Ledger!Units(Minus(f))) \in Nat
  BY <1>2, UnitsFinite
<1>6. /\ Ledger!Sum(f) = Cardinality(Ledger!Units(f)) - Cardinality(Ledger!Units(Minus(f)))
      /\ Ledger!Sum(Plus(f, e, v)) = Cardinality(Ledger!Units(Plus(f, e, v)))
                                       - Cardinality(Ledger!Units(Plus(Minus(f), e, -v)))
  BY <1>1, SumIsCount
<1> QED
  BY <1>3, <1>4, <1>5, <1>6

LEMMA SumOfNone ==
  ASSUME NEW f, DOMAIN f = {}
  PROVE  Ledger!Sum(f) = 0
<1>1. Ledger!Units(f) = {} /\ Ledger!Units(Minus(f)) = {}
  BY DEF Ledger!Units, Minus
<1>2. Ledger!Sum(f) = Cardinality({}) - Cardinality({})
  BY <1>1, SumIsCount
<1> QED
  BY <1>2, FS_EmptySet

(* What is larger where it counts has a sum as large.                      *)
LEMMA SumGrows ==
  ASSUME NEW f, NEW g, Numbers(f), Numbers(g),
         \A x \in DOMAIN f : f[x] > 0 => x \in DOMAIN g /\ f[x] <= g[x],
         \A x \in DOMAIN g : g[x] < 0 => x \in DOMAIN f /\ f[x] <= g[x]
  PROVE  Ledger!Sum(f) <= Ledger!Sum(g)
<1>1. Ledger!Units(f) \subseteq Ledger!Units(g)
  <2>1. ASSUME NEW u \in Ledger!Units(f)
        PROVE  u \in Ledger!Units(g)
    <3>1. PICK x \in DOMAIN f : u \in {x} \X (1 .. f[x])
      BY <2>1, UnitOf
    <3>2. PICK k \in 1 .. f[x] : u = <<x, k>>
      BY <3>1
    <3>3. f[x] \in Int /\ f[x] > 0
      BY <3>2 DEF Numbers
    <3>4. x \in DOMAIN g /\ f[x] <= g[x] /\ g[x] \in Int
      BY <3>3 DEF Numbers
    <3>5. k \in 1 .. g[x]
      BY <3>2, <3>3, <3>4
    <3> QED
      BY <3>2, <3>4, <3>5, UnitOf
  <2> QED
    BY <2>1
<1>2. Ledger!Units(Minus(g)) \subseteq Ledger!Units(Minus(f))
  <2>1. ASSUME NEW u \in Ledger!Units(Minus(g))
        PROVE  u \in Ledger!Units(Minus(f))
    <3>1. PICK x \in DOMAIN g : u \in {x} \X (1 .. -g[x])
      BY <2>1, UnitOf, NumbersMinus
    <3>2. PICK k \in 1 .. -g[x] : u = <<x, k>>
      BY <3>1
    <3>3. g[x] \in Int /\ g[x] < 0
      BY <3>2 DEF Numbers
    <3>4. x \in DOMAIN f /\ f[x] <= g[x] /\ f[x] \in Int
      BY <3>3 DEF Numbers
    <3>5. k \in 1 .. -f[x]
      BY <3>2, <3>3, <3>4
    <3> QED
      BY <3>2, <3>4, <3>5, UnitOf, NumbersMinus
  <2> QED
    BY <2>1
<1>3. /\ IsFiniteSet(Ledger!Units(g)) /\ IsFiniteSet(Ledger!Units(Minus(f)))
      /\ Cardinality(Ledger!Units(f)) \in Nat /\ Cardinality(Ledger!Units(g)) \in Nat
      /\ Cardinality(Ledger!Units(Minus(f))) \in Nat /\ Cardinality(Ledger!Units(Minus(g))) \in Nat
  BY UnitsFinite, NumbersMinus
<1>4. /\ Cardinality(Ledger!Units(f)) <= Cardinality(Ledger!Units(g))
      /\ Cardinality(Ledger!Units(Minus(g))) <= Cardinality(Ledger!Units(Minus(f)))
  BY <1>1, <1>2, <1>3, FS_Subset
<1> QED
  BY <1>3, <1>4, SumIsCount

(* The same values under other names have the same sum.                    *)
LEMMA UnitsRenamed ==
  ASSUME NEW f, NEW g, Numbers(f), NEW h \in Bijection(DOMAIN f, DOMAIN g),
         \A x \in DOMAIN f : g[h[x]] = f[x]
  PROVE  Cardinality(Ledger!Units(g)) = Cardinality(Ledger!Units(f))
<1> DEFINE A == Ledger!Units(f)
           B == Ledger!Units(g)
           k == [u \in A |-> <<h[u[1]], u[2]>>]
<1>0. /\ \A x \in DOMAIN f : h[x] \in DOMAIN g
      /\ \A x, y \in DOMAIN f : h[x] = h[y] => x = y
      /\ \A z \in DOMAIN g : \E x \in DOMAIN f : h[x] = z
  BY DEF Bijection, Injection, Surjection, IsInjective
<1>1. \A u \in A : u = <<u[1], u[2]>> /\ u[1] \in DOMAIN f /\ u[2] \in 1 .. f[u[1]]
  <2>1. ASSUME NEW u \in A
        PROVE  u = <<u[1], u[2]>> /\ u[1] \in DOMAIN f /\ u[2] \in 1 .. f[u[1]]
    <3>1. PICK x \in DOMAIN f : u \in {x} \X (1 .. f[x])
      BY UnitOf
    <3> QED
      BY <3>1
  <2> QED
    BY <2>1
<1>2. \A x \in DOMAIN f : \A i \in 1 .. f[x] : <<x, i>> \in A
  BY UnitOf
<1>3. \A z \in DOMAIN g : \A i \in 1 .. g[z] : <<z, i>> \in B
  BY UnitOf
<1>4. \A u \in B : \E z \in DOMAIN g : \E i \in 1 .. g[z] : u = <<z, i>>
  <2>1. ASSUME NEW u \in B
        PROVE  \E z \in DOMAIN g : \E i \in 1 .. g[z] : u = <<z, i>>
    <3>1. PICK z \in DOMAIN g : u \in {z} \X (1 .. g[z])
      BY UnitOf
    <3> QED
      BY <3>1
  <2> QED
    BY <2>1
<1>f. IsFiniteSet(A)
  BY UnitsFinite
<1> HIDE DEF A, B
<1>5. k \in [A -> B]
  BY <1>0, <1>1, <1>3
<1>6. \A u, v \in A : k[u] = k[v] => u = v
  <2>1. ASSUME NEW u \in A, NEW v \in A, k[u] = k[v]
        PROVE  u = v
    <3>1. h[u[1]] = h[v[1]] /\ u[2] = v[2]
      BY <2>1
    <3> QED
      BY <3>1, <1>0, <1>1
  <2> QED
    BY <2>1
<1>7. \A w \in B : \E u \in A : k[u] = w
  <2>1. ASSUME NEW w \in B
        PROVE  \E u \in A : k[u] = w
    <3>1. PICK z \in DOMAIN g : \E i \in 1 .. g[z] : w = <<z, i>>
      BY <1>4
    <3>2. PICK i \in 1 .. g[z] : w = <<z, i>>
      BY <3>1
    <3>3. PICK x \in DOMAIN f : h[x] = z
      BY <1>0
    <3>4. <<x, i>> \in A
      BY <1>2, <3>2, <3>3
    <3>5. k[<<x, i>>] = w
      BY <3>2, <3>3, <3>4
    <3> QED
      BY <3>4, <3>5
  <2> QED
    BY <2>1
<1> HIDE DEF k
<1>8. k \in Bijection(A, B)
  BY <1>5, <1>6, <1>7 DEF Bijection, Injection, Surjection, IsInjective
<1>9. ExistsBijection(A, B)
  BY <1>8 DEF ExistsBijection
<1> QED
  BY <1>9, <1>f, FS_Bijection DEF A, B

LEMMA SumRenamed ==
  ASSUME NEW f, NEW g, Numbers(f), NEW h \in Bijection(DOMAIN f, DOMAIN g),
         \A x \in DOMAIN f : g[h[x]] = f[x]
  PROVE  Ledger!Sum(g) = Ledger!Sum(f)
<1>1. /\ Numbers(Minus(f)) /\ DOMAIN Minus(f) = DOMAIN f /\ DOMAIN Minus(g) = DOMAIN g
      /\ \A x \in DOMAIN f : Minus(f)[x] = -f[x]
  BY NumbersMinus DEF Minus
<1>2. \A x \in DOMAIN f : h[x] \in DOMAIN g
  BY DEF Bijection, Injection, Surjection
<1>3. \A x \in DOMAIN f : Minus(g)[h[x]] = Minus(f)[x]
  BY <1>1, <1>2 DEF Minus
<1>4. Cardinality(Ledger!Units(Minus(g))) = Cardinality(Ledger!Units(Minus(f)))
  BY <1>1, <1>3, UnitsRenamed
<1> QED
  BY <1>4, UnitsRenamed, SumIsCount

(* What is moved from one account to another: a value of r is balanced by  *)
(* one of b, and what remains of b is w's, or less.                        *)
LEMMA SumBalances ==
  ASSUME NEW r, NEW b, NEW w, Numbers(r), Numbers(b), Numbers(w),
         DOMAIN b = DOMAIN r, DOMAIN w = DOMAIN r,
         \A x \in DOMAIN r : \/ r[x] = 0 /\ w[x] >= 0 /\ b[x] = w[x]
                             \/ r[x] = 0 /\ w[x] = 0 /\ b[x] <= 0
                             \/ w[x] = 0 /\ r[x] = -b[x]
  PROVE  Ledger!Sum(r) + Ledger!Sum(b) <= Ledger!Sum(w)
<1> DEFINE Rp == Ledger!Units(r)
           Rn == Ledger!Units(Minus(r))
           Bp == Ledger!Units(b)
           Bn == Ledger!Units(Minus(b))
           Wp == Ledger!Units(w)
           Wn == Ledger!Units(Minus(w))
<1>0. \A x \in DOMAIN r : r[x] \in Int /\ b[x] \in Int /\ w[x] \in Int
  BY DEF Numbers
<1>1. \A u : /\ u \in Rp <=> \E x \in DOMAIN r : \E i \in 1 .. r[x] : u = <<x, i>>
             /\ u \in Rn <=> \E x \in DOMAIN r : \E i \in 1 .. -r[x] : u = <<x, i>>
             /\ u \in Bp <=> \E x \in DOMAIN r : \E i \in 1 .. b[x] : u = <<x, i>>
             /\ u \in Bn <=> \E x \in DOMAIN r : \E i \in 1 .. -b[x] : u = <<x, i>>
             /\ u \in Wp <=> \E x \in DOMAIN r : \E i \in 1 .. w[x] : u = <<x, i>>
             /\ u \in Wn <=> \E x \in DOMAIN r : \E i \in 1 .. -w[x] : u = <<x, i>>
  <2>1. \A f : Numbers(f) => \A u : u \in Ledger!Units(f) <=> \E x \in DOMAIN f : \E i \in 1 .. f[x] : u = <<x, i>>
    BY UnitOf
  <2>2. \A f : Numbers(f) => \A u : u \in Ledger!Units(Minus(f)) <=> \E x \in DOMAIN f : \E i \in 1 .. -f[x] : u = <<x, i>>
    <3>1. ASSUME NEW f, Numbers(f), NEW u
          PROVE  u \in Ledger!Units(Minus(f)) <=> \E x \in DOMAIN f : \E i \in 1 .. -f[x] : u = <<x, i>>
      <4>1. Numbers(Minus(f)) /\ DOMAIN Minus(f) = DOMAIN f /\ \A x \in DOMAIN f : Minus(f)[x] = -f[x]
        BY <3>1, NumbersMinus
      <4>2. u \in Ledger!Units(Minus(f)) <=> \E x \in DOMAIN Minus(f) : \E i \in 1 .. Minus(f)[x] : u = <<x, i>>
        BY <4>1, <2>1
      <4> QED
        BY <4>1, <4>2
    <3> QED
      BY <3>1
  <2> QED
    BY <2>1, <2>2
<1>2. /\ IsFiniteSet(Rn) /\ IsFiniteSet(Bn) /\ IsFiniteSet(Wp)
      /\ Cardinality(Rp) \in Nat /\ Cardinality(Rn) \in Nat /\ Cardinality(Bp) \in Nat
      /\ Cardinality(Bn) \in Nat /\ Cardinality(Wp) \in Nat
  BY UnitsFinite, NumbersMinus
<1> HIDE DEF Rp, Rn, Bp, Bn, Wp, Wn
<1>3. Bp = Wp \cup Rn
  BY <1>0, <1>1
<1>4. Wp \cap Rn = {}
  BY <1>0, <1>1
<1>5. Rp \subseteq Bn
  BY <1>0, <1>1
<1>6. Wn = {}
  BY <1>0, <1>1
<1>7. Cardinality(Bp) = Cardinality(Wp) + Cardinality(Rn)
  <2>1. Cardinality(Wp \cup Rn) = Cardinality(Wp) + Cardinality(Rn) - Cardinality(Wp \cap Rn)
    BY <1>2, FS_Union
  <2>2. Cardinality(Wp \cap Rn) = 0
    BY <1>4, FS_EmptySet
  <2> QED
    BY <1>2, <1>3, <2>1, <2>2
<1>8. Cardinality(Rp) <= Cardinality(Bn)
  BY <1>2, <1>5, FS_Subset
<1>9. Cardinality(Wn) = 0
  BY <1>6, FS_EmptySet
<1>10. /\ Ledger!Sum(r) = Cardinality(Rp) - Cardinality(Rn)
       /\ Ledger!Sum(b) = Cardinality(Bp) - Cardinality(Bn)
       /\ Ledger!Sum(w) = Cardinality(Wp) - Cardinality(Wn)
  BY SumIsCount DEF Rp, Rn, Bp, Bn, Wp, Wn
<1> QED
  BY <1>2, <1>7, <1>8, <1>9, <1>10

(* What lines come to on an account, when they are none, one or two.       *)
LEMMA NetOfNone == Ledger!Net({}) = 0
BY SumOfNone DEF Ledger!Net

LEMMA NetOfOne ==
  ASSUME NEW l, l.credit - l.debit \in Int
  PROVE  Ledger!Net({l}) = l.credit - l.debit
<1> DEFINE f == [x \in {} |-> 0]
<1>1. Numbers(f) /\ l \notin DOMAIN f /\ Ledger!Sum(f) = 0
  BY SumOfNone, FS_EmptySet DEF Numbers
<1>2. Plus(f, l, l.credit - l.debit) = [x \in {l} |-> x.credit - x.debit]
  BY DEF Plus
<1> HIDE DEF f
<1>3. Ledger!Sum(Plus(f, l, l.credit - l.debit)) = 0 + (l.credit - l.debit)
  BY <1>1, SumAdds
<1> QED
  BY <1>2, <1>3 DEF Ledger!Net

LEMMA NetOfTwo ==
  ASSUME NEW l, NEW k, l # k, l.credit - l.debit \in Int, k.credit - k.debit \in Int
  PROVE  Ledger!Net({l, k}) = (l.credit - l.debit) + (k.credit - k.debit)
<1> DEFINE f == [x \in {l} |-> x.credit - x.debit]
<1>1. Numbers(f) /\ k \notin DOMAIN f
  BY FS_Singleton DEF Numbers
<1>2. Ledger!Sum(f) = l.credit - l.debit
  BY NetOfOne DEF Ledger!Net
<1>3. Plus(f, k, k.credit - k.debit) = [x \in {l, k} |-> x.credit - x.debit]
  BY DEF Plus
<1> HIDE DEF f
<1>4. Ledger!Sum(Plus(f, k, k.credit - k.debit)) = Ledger!Sum(f) + (k.credit - k.debit)
  BY <1>1, SumAdds
<1> QED
  BY <1>2, <1>3, <1>4 DEF Ledger!Net

LEMMA NetOfSide ==
  ASSUME NEW account, NEW currency, NEW n \in Int
  PROVE  /\ Ledger!Net({Ledger!Cr(account, currency, n)}) = n
         /\ Ledger!Net({Ledger!Dr(account, currency, n)}) = -n
<1> DEFINE c == Ledger!Cr(account, currency, n)
           d == Ledger!Dr(account, currency, n)
<1>1. c.credit - c.debit = n /\ d.credit - d.debit = -n
  BY DEF Ledger!Cr, Ledger!Dr, Ledger!Line
<1> HIDE DEF c, d
<1>2. Ledger!Net({c}) = n /\ Ledger!Net({d}) = -n
  BY <1>1, NetOfOne
<1> QED
  BY <1>2 DEF c, d

LineDoc == [account : STRING, currency : STRING, debit : Int, credit : Int]
MovementDoc == [kind : Ledger!Kinds, amount : Nat, updatedAt : Nat, committed : BOOLEAN]
Amount(lines, account, currency) == Ledger!Net(Ledger!On(lines, account, currency))

(* The entry of a movement: what it comes to on the control accounts is    *)
(* what the movement did to the wallets; income has one line, if any, and  *)
(* retained earnings none.                                                 *)
LEMMA BuildOnBalance ==
  ASSUME NEW w \in MovementDoc
  PROVE  Amount(Ledger!buildWalletTxEntry(w), "2010", "BOB") = Ledger!onWallets(w, "2010")
<1> DEFINE S == Ledger!On(Ledger!buildWalletTxEntry(w), "2010", "BOB")
           n == w.amount
<1>0. n \in Nat /\ n \in Int /\ n + Ledger!Fee \in Int
  BY DEF MovementDoc, Ledger!Fee
<1> HIDE DEF n
<1>1. CASE w.kind \in {"deposit", "unfreeze", "usdc_to_bob"}
  <2>1. S = {Ledger!Cr("2010", "BOB", n)}
    BY <1>1 DEF Ledger!On, Ledger!buildWalletTxEntry, Ledger!Cr, Ledger!Dr, Ledger!Line, n
  <2> HIDE DEF S
  <2>2. Ledger!Net({Ledger!Cr("2010", "BOB", n)}) = n
    BY <1>0, NetOfSide, Zenon
  <2>3. Ledger!onWallets(w, "2010") = n
    BY <1>1 DEF Ledger!onWallets, n
  <2> QED
    BY <1>0, <2>1, <2>2, <2>3 DEF Amount, S
<1>2. CASE w.kind \in {"withdrawal", "freeze"}
  <2>1. S = {Ledger!Dr("2010", "BOB", n)}
    BY <1>2 DEF Ledger!On, Ledger!buildWalletTxEntry, Ledger!Cr, Ledger!Dr, Ledger!Line, n
  <2> HIDE DEF S
  <2>2. Ledger!Net({Ledger!Dr("2010", "BOB", n)}) = -n
    BY <1>0, NetOfSide, Zenon
  <2>3. Ledger!onWallets(w, "2010") = -n
    BY <1>2 DEF Ledger!onWallets, n
  <2> QED
    BY <1>0, <2>1, <2>2, <2>3 DEF Amount, S
<1>3. CASE w.kind = "bob_to_usdc"
  <2>1. S = {Ledger!Dr("2010", "BOB", n + Ledger!Fee)}
    BY <1>3 DEF Ledger!On, Ledger!buildWalletTxEntry, Ledger!Cr, Ledger!Dr, Ledger!Line, n
  <2> HIDE DEF S
  <2>2. Ledger!Net({Ledger!Dr("2010", "BOB", n + Ledger!Fee)}) = -(n + Ledger!Fee)
    BY <1>0, NetOfSide DEF Ledger!Fee
  <2>3. Ledger!onWallets(w, "2010") = -(n + Ledger!Fee)
    BY <1>3 DEF Ledger!onWallets, n
  <2> QED
    BY <1>0, <2>1, <2>2, <2>3 DEF Amount, S, Ledger!Fee
<1>4. CASE w.kind \in {"usdc_deposit", "send", "receive"}
  <2>1. S = {}
    BY <1>4 DEF Ledger!On, Ledger!buildWalletTxEntry, Ledger!Cr, Ledger!Dr, Ledger!Line
  <2>2. Ledger!onWallets(w, "2010") = 0
    BY <1>4 DEF Ledger!onWallets
  <2> QED
    BY <2>1, <2>2, NetOfNone DEF Amount
<1> QED
  BY <1>1, <1>2, <1>3, <1>4 DEF MovementDoc, Ledger!Kinds

LEMMA BuildOnFrozen ==
  ASSUME NEW w \in MovementDoc
  PROVE  Amount(Ledger!buildWalletTxEntry(w), "2011", "BOB") = Ledger!onWallets(w, "2011")
<1> DEFINE S == Ledger!On(Ledger!buildWalletTxEntry(w), "2011", "BOB")
           n == w.amount
<1>0. n \in Nat /\ n \in Int /\ n + Ledger!Fee \in Int
  BY DEF MovementDoc, Ledger!Fee
<1> HIDE DEF n
<1>1. CASE w.kind = "freeze"
  <2>1. S = {Ledger!Cr("2011", "BOB", n)}
    BY <1>1 DEF Ledger!On, Ledger!buildWalletTxEntry, Ledger!Cr, Ledger!Dr, Ledger!Line, n
  <2> HIDE DEF S
  <2>2. Ledger!Net({Ledger!Cr("2011", "BOB", n)}) = n
    BY <1>0, NetOfSide, Zenon
  <2>3. Ledger!onWallets(w, "2011") = n
    BY <1>1 DEF Ledger!onWallets, n
  <2> QED
    BY <1>0, <2>1, <2>2, <2>3 DEF Amount, S
<1>2. CASE w.kind = "unfreeze"
  <2>1. S = {Ledger!Dr("2011", "BOB", n)}
    BY <1>2 DEF Ledger!On, Ledger!buildWalletTxEntry, Ledger!Cr, Ledger!Dr, Ledger!Line, n
  <2> HIDE DEF S
  <2>2. Ledger!Net({Ledger!Dr("2011", "BOB", n)}) = -n
    BY <1>0, NetOfSide, Zenon
  <2>3. Ledger!onWallets(w, "2011") = -n
    BY <1>2 DEF Ledger!onWallets, n
  <2> QED
    BY <1>0, <2>1, <2>2, <2>3 DEF Amount, S
<1>3. CASE w.kind \notin {"freeze", "unfreeze"}
  <2>1. S = {}
    BY <1>3 DEF Ledger!On, Ledger!buildWalletTxEntry, Ledger!Cr, Ledger!Dr, Ledger!Line,
                MovementDoc, Ledger!Kinds
  <2>2. Ledger!onWallets(w, "2011") = 0
    BY <1>3 DEF Ledger!onWallets
  <2> QED
    BY <2>1, <2>2, NetOfNone DEF Amount
<1> QED
  BY <1>1, <1>2, <1>3

LEMMA BuildOnUSDC ==
  ASSUME NEW w \in MovementDoc
  PROVE  Amount(Ledger!buildWalletTxEntry(w), "2020", "USDC") = Ledger!onWallets(w, "2020")
<1> DEFINE S == Ledger!On(Ledger!buildWalletTxEntry(w), "2020", "USDC")
           n == w.amount
<1>0. n \in Nat /\ n \in Int /\ n + Ledger!Fee \in Int
  BY DEF MovementDoc, Ledger!Fee
<1> HIDE DEF n
<1>1. CASE w.kind \in {"usdc_deposit", "bob_to_usdc"}
  <2>1. S = {Ledger!Cr("2020", "USDC", n)}
    BY <1>1 DEF Ledger!On, Ledger!buildWalletTxEntry, Ledger!Cr, Ledger!Dr, Ledger!Line, n
  <2> HIDE DEF S
  <2>2. Ledger!Net({Ledger!Cr("2020", "USDC", n)}) = n
    BY <1>0, NetOfSide, Zenon
  <2>3. Ledger!onWallets(w, "2020") = n
    BY <1>1 DEF Ledger!onWallets, n
  <2> QED
    BY <1>0, <2>1, <2>2, <2>3 DEF Amount, S
<1>2. CASE w.kind = "usdc_to_bob"
  <2>1. S = {Ledger!Dr("2020", "USDC", n)}
    BY <1>2 DEF Ledger!On, Ledger!buildWalletTxEntry, Ledger!Cr, Ledger!Dr, Ledger!Line, n
  <2> HIDE DEF S
  <2>2. Ledger!Net({Ledger!Dr("2020", "USDC", n)}) = -n
    BY <1>0, NetOfSide, Zenon
  <2>3. Ledger!onWallets(w, "2020") = -n
    BY <1>2 DEF Ledger!onWallets, n
  <2> QED
    BY <1>0, <2>1, <2>2, <2>3 DEF Amount, S
<1>3. CASE w.kind = "send"
  <2> DEFINE d == Ledger!Dr("2020", "USDC", n + Ledger!Fee)
             c == Ledger!Cr("2020", "USDC", n)
  <2>1. S = {d, c}
    BY <1>3 DEF Ledger!On, Ledger!buildWalletTxEntry, Ledger!Cr, Ledger!Dr, Ledger!Line, n
  <2>2. /\ d.credit - d.debit = -(n + Ledger!Fee) /\ c.credit - c.debit = n
        /\ d # c
    BY <1>0 DEF Ledger!Cr, Ledger!Dr, Ledger!Line, Ledger!Fee
  <2> HIDE DEF S, d, c
  <2>3. Ledger!Net(S) = -(n + Ledger!Fee) + n
    BY <1>0, <2>1, <2>2, NetOfTwo DEF Ledger!Fee
  <2>4. Ledger!onWallets(w, "2020") = -Ledger!Fee
    BY <1>3 DEF Ledger!onWallets, n
  <2> QED
    BY <1>0, <2>3, <2>4 DEF Amount, S, Ledger!Fee
<1>4. CASE w.kind \in {"deposit", "withdrawal", "receive", "freeze", "unfreeze"}
  <2>1. S = {}
    BY <1>4 DEF Ledger!On, Ledger!buildWalletTxEntry, Ledger!Cr, Ledger!Dr, Ledger!Line
  <2>2. Ledger!onWallets(w, "2020") = 0
    BY <1>4 DEF Ledger!onWallets
  <2> QED
    BY <2>1, <2>2, NetOfNone DEF Amount
<1> QED
  BY <1>1, <1>2, <1>3, <1>4 DEF MovementDoc, Ledger!Kinds

LEMMA BuildOnControl ==
  ASSUME NEW w \in MovementDoc, NEW x \in Ledger!Control
  PROVE  Amount(Ledger!buildWalletTxEntry(w), x[1], x[2]) = Ledger!onWallets(w, x[1])
BY BuildOnBalance, BuildOnFrozen, BuildOnUSDC DEF Ledger!Control

LEMMA BuildOnIncome ==
  ASSUME NEW w \in MovementDoc, NEW x \in Ledger!Income
  PROVE  /\ Ledger!On(Ledger!buildWalletTxEntry(w), "3090", x[2]) = {}
         /\ \/ Ledger!On(Ledger!buildWalletTxEntry(w), x[1], x[2]) = {}
            \/ Ledger!On(Ledger!buildWalletTxEntry(w), x[1], x[2]) = {Ledger!Cr(x[1], x[2], Ledger!Fee)}
<1>1. x = <<"4050", "USDC">> \/ x = <<"4060", "BOB">>
  BY DEF Ledger!Income
<1>2. Ledger!On(Ledger!buildWalletTxEntry(w), "3090", x[2]) = {}
  BY DEF Ledger!On, Ledger!buildWalletTxEntry, Ledger!Cr, Ledger!Dr, Ledger!Line,
         MovementDoc, Ledger!Kinds
<1>3. CASE x = <<"4050", "USDC">>
  <2>1. CASE w.kind = "send"
    BY <1>3, <2>1 DEF Ledger!On, Ledger!buildWalletTxEntry, Ledger!Cr, Ledger!Dr, Ledger!Line
  <2>2. CASE w.kind # "send"
    <3>1. Ledger!On(Ledger!buildWalletTxEntry(w), "4050", "USDC") = {}
      BY <2>2 DEF Ledger!On, Ledger!buildWalletTxEntry, Ledger!Cr, Ledger!Dr, Ledger!Line,
             MovementDoc, Ledger!Kinds
    <3> QED
      BY <1>2, <1>3, <3>1
  <2> QED
    BY <1>2, <2>1, <2>2
<1>4. CASE x = <<"4060", "BOB">>
  <2>1. CASE w.kind = "bob_to_usdc"
    BY <1>4, <2>1 DEF Ledger!On, Ledger!buildWalletTxEntry, Ledger!Cr, Ledger!Dr, Ledger!Line
  <2>2. CASE w.kind = "usdc_to_bob"
    BY <1>4, <2>2 DEF Ledger!On, Ledger!buildWalletTxEntry, Ledger!Cr, Ledger!Dr, Ledger!Line
  <2>3. CASE w.kind \notin {"bob_to_usdc", "usdc_to_bob"}
    <3>1. Ledger!On(Ledger!buildWalletTxEntry(w), "4060", "BOB") = {}
      BY <2>3 DEF Ledger!On, Ledger!buildWalletTxEntry, Ledger!Cr, Ledger!Dr, Ledger!Line,
             MovementDoc, Ledger!Kinds
    <3> QED
      BY <1>2, <1>4, <3>1
  <2> QED
    BY <1>2, <2>1, <2>2, <2>3
<1> QED
  BY <1>1, <1>2, <1>3, <1>4

(* The shape of what the ledger holds and of what is about to be posted: a *)
(* movement's entry is built from the movement, which is committed and     *)
(* changes no more; a close takes one income account to retained earnings; *)
(* a reversal takes no income there.                                       *)
WtxDoc == [kind : Ledger!Kinds \cup {"none"}, amount : Nat, updatedAt : Nat, committed : BOOLEAN]
Movements(docs) ==
  /\ docs \in [Movement -> WtxDoc]
  /\ \A m \in Movement : /\ docs[m].committed => docs[m].updatedAt # 0
                         /\ docs[m].updatedAt # 0 => docs[m].kind \in Ledger!Kinds

Moved(lines, x) == Amount(lines, "3090", x[2])
Earned(lines, x) == Amount(lines, x[1], x[2])

OfMovement(q, docs) ==
  \E m \in Movement : /\ q.source = <<"wtx", m>> /\ docs[m].committed
                      /\ q.lines = Ledger!buildWalletTxEntry(docs[m])
OfClose(q) ==
  /\ q.source[1] = "close"
  /\ \E x \in Ledger!Income, n \in Int : q.lines = Ledger!buildClosingLines(x[1], x[2], n)
OfReversal(q) ==
  /\ q.source[1] = "reversal"
  /\ \A x \in Ledger!Income :
       /\ Moved(q.lines, x) \in Int /\ Earned(q.lines, x) \in Int /\ Moved(q.lines, x) <= 0
       /\ \/ Moved(q.lines, x) = 0 /\ Earned(q.lines, x) <= 0
          \/ Moved(q.lines, x) = -Earned(q.lines, x)

Fits(q, docs) == OfMovement(q, docs) \/ OfClose(q) \/ OfReversal(q)

Doing(w, docs, entries) ==
  /\ DOMAIN w = {"task", "step", "todo", "upTo"}
  /\ \E S : w.todo \in Seq(S)
  /\ \A i \in 1 .. Len(w.todo) : Fits(w.todo[i], docs)
  /\ w.step \in {"create", "lines"} /\ w.todo # <<>> => Ledger!assertBalanced(w.todo[1].lines)
  /\ w.step = "lines" /\ w.todo # <<>> => w.todo[1] \in entries

(* Entries have one number and one source each.                            *)
Entries(entries, docs) ==
  /\ IsFiniteSet(entries)
  /\ \A e \in entries : /\ e.id \in 1 .. Cardinality(entries)
                        /\ Fits(e, docs)
                        /\ OfClose(e) => \A x \in Ledger!Income : Moved(e.lines, x) >= 0
  /\ \A e, f \in entries : e.id = f.id \/ e.source = f.source => e = f

LedgerInv ==
  /\ clock \in Nat /\ Movements(wtx) /\ Entries(journal, wtx)
  /\ lined \subseteq 1 .. Cardinality(journal)
  /\ DOMAIN work = Ledger!Poster
  /\ \A a \in Ledger!Poster : Doing(work[a], wtx, journal)

LEMMA FitsKept ==
  ASSUME NEW q, NEW docs, NEW later, Fits(q, docs),
         \A m \in Movement : docs[m].committed => later[m] = docs[m]
  PROVE  Fits(q, later)
BY DEF Fits, OfMovement

LEMMA DoingKept ==
  ASSUME NEW w, NEW docs, NEW later, NEW entries, NEW more, Doing(w, docs, entries),
         \A m \in Movement : docs[m].committed => later[m] = docs[m],
         entries \subseteq more
  PROVE  Doing(w, later, more)
BY FitsKept DEF Doing

LEMMA RestIsDoing ==
  ASSUME NEW docs, NEW entries
  PROVE  Doing(Ledger!AtRest, docs, entries)
<1>1. Ledger!AtRest.todo = <<>> /\ Ledger!AtRest.step = "look"
      /\ DOMAIN Ledger!AtRest = {"task", "step", "todo", "upTo"}
  BY DEF Ledger!AtRest
<1>2. <<>> \in Seq({}) /\ Len(<<>>) = 0
  OBVIOUS
<1>3. 1 .. Len(<<>>) = {}
  BY <1>2
<1> QED
  BY <1>1, <1>2, <1>3 DEF Doing

(* What lines at most one of which is on an account come to, and what      *)
(* their reversal does.                                                    *)
OneLine(lines, account, currency) ==
  \/ Ledger!On(lines, account, currency) = {}
  \/ \E l : /\ Ledger!On(lines, account, currency) = {l}
            /\ l.credit \in Int /\ l.debit \in Int

LEMMA ReversalNegates ==
  ASSUME NEW lines, NEW account, NEW currency, OneLine(lines, account, currency)
  PROVE  /\ Amount(lines, account, currency) \in Int
         /\ Amount(Ledger!buildReversalLines(lines), account, currency)
              = -Amount(lines, account, currency)
<1> DEFINE flip(l) == Ledger!Line(l.account, l.currency, l.credit, l.debit)
           S == Ledger!On(lines, account, currency)
           T == Ledger!On(Ledger!buildReversalLines(lines), account, currency)
<1>1. T = {flip(l) : l \in S}
  BY DEF Ledger!On, Ledger!buildReversalLines, Ledger!Line
<1>2. CASE S = {}
  <2>1. T = {}
    BY <1>1, <1>2
  <2> QED
    BY <1>2, <2>1, NetOfNone DEF Amount
<1>3. CASE S # {}
  <2>1. PICK l : S = {l} /\ l.credit \in Int /\ l.debit \in Int
    BY <1>3 DEF OneLine
  <2>2. T = {flip(l)}
    BY <1>1, <2>1
  <2>3. flip(l).credit = l.debit /\ flip(l).debit = l.credit
    BY DEF Ledger!Line
  <2> HIDE DEF flip, S, T
  <2>4. Ledger!Net({l}) = l.credit - l.debit
    BY <2>1, NetOfOne
  <2>5. Ledger!Net({flip(l)}) = l.debit - l.credit
    BY <2>1, <2>3, NetOfOne
  <2>6. Ledger!Net(S) \in Int /\ Ledger!Net(T) = -Ledger!Net(S)
    BY <2>1, <2>2, <2>4, <2>5
  <2> QED
    BY <2>6 DEF Amount, S, T
<1> QED
  BY <1>2, <1>3

(* The accounts of a movement's entry and of a close.                      *)
LEMMA MovementAmounts ==
  ASSUME NEW w \in MovementDoc, NEW x \in Ledger!Income
  PROVE  LET lines == Ledger!buildWalletTxEntry(w)
         IN /\ OneLine(lines, "3090", x[2]) /\ OneLine(lines, x[1], x[2])
            /\ Moved(lines, x) = 0 /\ Earned(lines, x) \in Nat
<1> DEFINE lines == Ledger!buildWalletTxEntry(w)
           l == Ledger!Cr(x[1], x[2], Ledger!Fee)
<1>1. /\ Ledger!On(lines, "3090", x[2]) = {}
      /\ Ledger!On(lines, x[1], x[2]) = {} \/ Ledger!On(lines, x[1], x[2]) = {l}
  BY BuildOnIncome
<1>2. l.credit = 1 /\ l.debit = 0
  BY DEF Ledger!Cr, Ledger!Line, Ledger!Fee
<1> HIDE DEF lines, l
<1>3. l.credit \in Int /\ l.debit \in Int /\ l.credit - l.debit = 1
  BY <1>2
<1>4. Ledger!Net({l}) = 1
  BY <1>3, NetOfOne
<1>5. OneLine(lines, "3090", x[2]) /\ OneLine(lines, x[1], x[2])
  BY <1>1, <1>3 DEF OneLine
<1>6. Moved(lines, x) = 0
  BY <1>1, NetOfNone DEF Moved, Amount
<1>7. Earned(lines, x) \in Nat
  <2>1. CASE Ledger!On(lines, x[1], x[2]) = {}
    BY <2>1, NetOfNone DEF Earned, Amount
  <2>2. CASE Ledger!On(lines, x[1], x[2]) = {l}
    BY <1>4, <2>2 DEF Earned, Amount
  <2> QED
    BY <1>1, <2>1, <2>2
<1> QED
  BY <1>5, <1>6, <1>7 DEF lines

LEMMA CloseAmounts ==
  ASSUME NEW y \in Ledger!Income, NEW n \in Int, NEW x \in Ledger!Income
  PROVE  LET lines == Ledger!buildClosingLines(y[1], y[2], n)
         IN /\ OneLine(lines, "3090", x[2]) /\ OneLine(lines, x[1], x[2])
            /\ Moved(lines, x) = (IF x = y THEN n ELSE 0)
            /\ Earned(lines, x) = -Moved(lines, x)
            /\ Ledger!assertBalanced(lines) => n >= 0
<1> DEFINE lines == Ledger!buildClosingLines(y[1], y[2], n)
           d == Ledger!Dr(y[1], y[2], n)
           c == Ledger!Cr("3090", y[2], n)
<1>1. lines = {d, c}
  BY DEF Ledger!buildClosingLines
<1>2. /\ d.credit = 0 /\ d.debit = n /\ d.account = y[1] /\ d.currency = y[2]
      /\ c.credit = n /\ c.debit = 0 /\ c.account = "3090" /\ c.currency = y[2]
  BY DEF Ledger!Cr, Ledger!Dr, Ledger!Line
<1> HIDE DEF lines, d, c
<1>3. y[1] # "3090" /\ x[1] # "3090" /\ (x[2] = y[2] <=> x = y) /\ (x[1] = y[1] <=> x = y)
  BY DEF Ledger!Income
<1>4. /\ Ledger!On(lines, "3090", x[2]) = (IF x = y THEN {c} ELSE {})
      /\ Ledger!On(lines, x[1], x[2]) = (IF x = y THEN {d} ELSE {})
  BY <1>1, <1>2, <1>3 DEF Ledger!On
<1>5. /\ d.credit \in Int /\ d.debit \in Int /\ d.credit - d.debit = -n
      /\ c.credit \in Int /\ c.debit \in Int /\ c.credit - c.debit = n
  BY <1>2
<1>6. Ledger!Net({d}) = -n /\ Ledger!Net({c}) = n
  BY <1>5, NetOfOne
<1>7. Ledger!assertBalanced(lines) => n >= 0
  BY <1>1, <1>2 DEF Ledger!assertBalanced
<1>8. OneLine(lines, "3090", x[2]) /\ OneLine(lines, x[1], x[2])
  BY <1>4, <1>5 DEF OneLine
<1>9. /\ Moved(lines, x) = (IF x = y THEN n ELSE 0)
      /\ Earned(lines, x) = -Moved(lines, x)
  BY <1>4, <1>6, NetOfNone DEF Moved, Earned, Amount
<1> QED
  BY <1>7, <1>8, <1>9 DEF lines

(* The amounts of whatever fits.                                           *)
LEMMA FitsAmounts ==
  ASSUME NEW q, NEW docs, Movements(docs), Fits(q, docs), NEW x \in Ledger!Income
  PROVE  /\ Moved(q.lines, x) \in Int /\ Earned(q.lines, x) \in Int
         /\ OfMovement(q, docs) => Moved(q.lines, x) = 0 /\ Earned(q.lines, x) \in Nat
         /\ OfClose(q) => Moved(q.lines, x) = -Earned(q.lines, x)
         /\ OfMovement(q, docs) \/ OfClose(q) =>
              OneLine(q.lines, "3090", x[2]) /\ OneLine(q.lines, x[1], x[2])
<1>1. CASE OfMovement(q, docs)
  <2>1. PICK m \in Movement : docs[m].committed /\ q.source = <<"wtx", m>>
                              /\ q.lines = Ledger!buildWalletTxEntry(docs[m])
    BY <1>1 DEF OfMovement
  <2>2. docs[m] \in MovementDoc
    BY <2>1 DEF Movements, WtxDoc, MovementDoc
  <2>3. ~OfClose(q)
    BY <2>1 DEF OfClose
  <2> QED
    BY <2>1, <2>2, <2>3, MovementAmounts
<1>2. CASE OfClose(q)
  <2>1. PICK y \in Ledger!Income, n \in Int : q.lines = Ledger!buildClosingLines(y[1], y[2], n)
    BY <1>2 DEF OfClose
  <2>2. ~OfMovement(q, docs)
    BY <1>2 DEF OfClose, OfMovement
  <2>3. /\ Moved(q.lines, x) = (IF x = y THEN n ELSE 0)
        /\ Earned(q.lines, x) = -Moved(q.lines, x)
        /\ OneLine(q.lines, "3090", x[2]) /\ OneLine(q.lines, x[1], x[2])
    BY <2>1, CloseAmounts
  <2> QED
    BY <2>2, <2>3
<1>3. CASE OfReversal(q)
  <2>1. ~OfMovement(q, docs) /\ ~OfClose(q)
    BY <1>3 DEF OfClose, OfMovement, OfReversal
  <2> QED
    BY <1>3, <2>1 DEF OfReversal
<1> QED
  BY <1>1, <1>2, <1>3 DEF Fits

(* A reversal takes nothing to retained earnings.                          *)
LEMMA ReversalFits ==
  ASSUME NEW docs, Movements(docs), NEW e, Fits(e, docs), e.source[1] # "reversal",
         OfClose(e) => \A x \in Ledger!Income : Moved(e.lines, x) >= 0,
         NEW q, q.source[1] = "reversal", q.lines = Ledger!buildReversalLines(e.lines)
  PROVE  OfReversal(q)
<1>1. OfMovement(e, docs) \/ OfClose(e)
  BY DEF Fits, OfReversal
<1>2. ASSUME NEW x \in Ledger!Income
      PROVE  /\ Moved(q.lines, x) \in Int /\ Earned(q.lines, x) \in Int /\ Moved(q.lines, x) <= 0
             /\ \/ Moved(q.lines, x) = 0 /\ Earned(q.lines, x) <= 0
                \/ Moved(q.lines, x) = -Earned(q.lines, x)
  <2>1. /\ Moved(e.lines, x) \in Int /\ Earned(e.lines, x) \in Int
        /\ OfMovement(e, docs) => Moved(e.lines, x) = 0 /\ Earned(e.lines, x) \in Nat
        /\ OfClose(e) => Moved(e.lines, x) = -Earned(e.lines, x)
        /\ OneLine(e.lines, "3090", x[2]) /\ OneLine(e.lines, x[1], x[2])
    BY <1>1, FitsAmounts
  <2>2. Moved(q.lines, x) = -Moved(e.lines, x) /\ Earned(q.lines, x) = -Earned(e.lines, x)
    BY <2>1, ReversalNegates DEF Moved, Earned
  <2>3. OfClose(e) => Moved(e.lines, x) >= 0
    OBVIOUS
  <2> QED
    BY <1>1, <2>1, <2>2, <2>3
<1> QED
  BY <1>2 DEF OfReversal

-----------------------------------------------------------------------------
(* The steps of the ledger: work of one poster changes, and its entries.   *)
LEMMA LedgerStarts == Init => LedgerInv
<1> SUFFICES ASSUME Init
             PROVE  LedgerInv
  OBVIOUS
<1>1. Ledger!LedgerInit
  BY DEF Init
<1>2. PICK k \in [Movement -> Ledger!Kinds \cup {"none"}] : wtx = [m \in Movement |-> Ledger!NotBegun(k[m])]
  <2>1. PICK mix \in (IF Pairs THEN {Mix("receive", "send")} ELSE {}) \cup {Mix(k, "none") : k \in Kinds} :
          wtx = [m \in Movement |-> Ledger!NotBegun(mix[m])]
    BY <1>1 DEF Ledger!LedgerInit
  <2>2. mix \in [Movement -> Ledger!Kinds \cup {"none"}]
    BY <2>1 DEF Mix, Kinds, Ledger!Kinds
  <2> QED
    BY <2>1, <2>2
<1>3. \A m \in Movement : wtx[m] = [kind |-> k[m], amount |-> 0, updatedAt |-> 0, committed |-> FALSE]
  BY <1>2 DEF Ledger!NotBegun
<1>4. Movements(wtx)
  <2>1. ASSUME NEW m \in Movement
        PROVE  wtx[m] \in WtxDoc /\ ~wtx[m].committed /\ wtx[m].updatedAt = 0
    <3>1. k[m] \in Ledger!Kinds \cup {"none"}
      BY <1>2
    <3>2. wtx[m] = [kind |-> k[m], amount |-> 0, updatedAt |-> 0, committed |-> FALSE]
      BY <1>3
    <3> QED
      BY <3>1, <3>2 DEF WtxDoc
  <2>2. wtx \in [Movement -> WtxDoc]
    BY <1>2, <2>1
  <2> QED
    BY <2>1, <2>2 DEF Movements
<1>5. clock \in Nat /\ journal = {} /\ lined = {} /\ DOMAIN work = Ledger!Poster
      /\ \A a \in Ledger!Poster : work[a] = Ledger!AtRest
  BY <1>1 DEF Ledger!LedgerInit
<1>6. Entries(journal, wtx)
  BY <1>5, FS_EmptySet DEF Entries
<1>7. \A a \in Ledger!Poster : Doing(work[a], wtx, journal)
  BY <1>5, RestIsDoing
<1> QED
  BY <1>4, <1>5, <1>6, <1>7 DEF LedgerInv

(* Only the work of one changes, and it is something to do.                *)
LEMMA WorkChanges ==
  ASSUME LedgerInv, NEW a \in Ledger!Poster, NEW w, Doing(w, wtx, journal),
         work' = [work EXCEPT ![a] = w],
         UNCHANGED <<wtx, journal>>, clock' \in Nat, lined' \subseteq 1 .. Cardinality(journal)
  PROVE  LedgerInv'
<1>1. \A p \in Ledger!Poster : Doing(work'[p], wtx, journal)
  BY DEF LedgerInv
<1> QED
  BY <1>1 DEF LedgerInv

LEMMA MovementsMove ==
  ASSUME LedgerInv, NEW m \in Movement, Ledger!beginMovement(m) \/ Ledger!commitMovement(m)
  PROVE  LedgerInv'
<1>1. UNCHANGED <<journal, lined, work>> /\ clock' \in Nat
  BY DEF Ledger!beginMovement, Ledger!commitMovement, LedgerInv
<1>2. PICK d \in WtxDoc : /\ wtx' = [wtx EXCEPT ![m] = d]
                          /\ ~wtx[m].committed
                          /\ d.updatedAt # 0 /\ d.kind \in Ledger!Kinds
  <2>0. wtx[m] \in WtxDoc
    BY DEF LedgerInv, Movements
  <2>1. CASE Ledger!beginMovement(m)
    <3>0. PICK n \in {2} \cup (IF EmptyFreeze /\ wtx[m].kind = "freeze" THEN {0} ELSE {}) :
            wtx' = [wtx EXCEPT ![m].amount = n, ![m].updatedAt = clock']
      BY <2>1 DEF Ledger!beginMovement
    <3>1. PICK t \in Nat : t = clock' /\ t # 0
      BY <2>1 DEF Ledger!beginMovement, LedgerInv
    <3>n. n \in Nat
      OBVIOUS
    <3> DEFINE d == [wtx[m] EXCEPT !.amount = n, !.updatedAt = t]
    <3>2. d \in WtxDoc /\ d.updatedAt # 0 /\ d.kind = wtx[m].kind
      BY <2>0, <3>1, <3>n DEF WtxDoc
    <3>3. wtx[m].kind \in Ledger!Kinds /\ ~wtx[m].committed
      BY <2>0, <2>1 DEF Ledger!beginMovement, LedgerInv, Movements, WtxDoc
    <3> HIDE DEF d
    <3>4. wtx' = [wtx EXCEPT ![m] = d]
      BY <3>0, <3>1 DEF d, LedgerInv, Movements
    <3> QED
      BY <3>2, <3>3, <3>4
  <2>2. CASE Ledger!commitMovement(m)
    <3> DEFINE d == [wtx[m] EXCEPT !.committed = TRUE]
    <3>1. d \in WtxDoc /\ d.updatedAt = wtx[m].updatedAt /\ d.kind = wtx[m].kind
      BY <2>0 DEF WtxDoc
    <3>2. wtx[m].updatedAt # 0 /\ ~wtx[m].committed /\ wtx[m].kind \in Ledger!Kinds
      BY <2>2 DEF Ledger!commitMovement, LedgerInv, Movements
    <3> HIDE DEF d
    <3>3. wtx' = [wtx EXCEPT ![m] = d]
      BY <2>2 DEF d, Ledger!commitMovement
    <3> QED
      BY <3>1, <3>2, <3>3
  <2> QED
    BY <2>1, <2>2
<1>3. Movements(wtx')
  BY <1>2 DEF LedgerInv, Movements
<1>4. \A o \in Movement : wtx[o].committed => wtx'[o] = wtx[o]
  BY <1>2 DEF LedgerInv, Movements
<1>5. \A e \in journal : Fits(e, wtx')
  BY <1>4, FitsKept DEF LedgerInv, Entries
<1>6. Entries(journal, wtx')
  BY <1>5 DEF LedgerInv, Entries
<1>7. \A a \in Ledger!Poster : Doing(work[a], wtx', journal)
  BY <1>4, DoingKept DEF LedgerInv
<1> QED
  BY <1>1, <1>3, <1>6, <1>7 DEF LedgerInv

(* The entries and the work of the others stay; a list without a close.    *)
OthersStay(a) ==
  /\ UNCHANGED <<journal, lined>>
  /\ \A p \in Ledger!Poster : p # a => work'[p] = work[p]
NoClose(w) == \A i \in 1 .. Len(w.todo) : ~OfClose(w.todo[i])

(* A list of requests is something to do.                                  *)
LEMMA ListIsDoing ==
  ASSUME NEW docs, NEW entries, NEW S, NEW list \in Seq(S), \A i \in 1 .. Len(list) : Fits(list[i], docs),
         NEW task, NEW upTo
  PROVE  Doing([task |-> task, step |-> "look", todo |-> list, upTo |-> upTo], docs, entries)
BY DEF Doing

LEMMA SyncBegins ==
  ASSUME LedgerInv, IsFiniteSet(Movement), NEW a \in Ledger!Poster, Ledger!syncLedgerFromWalletTx(a)
  PROVE  LedgerInv' /\ OthersStay(a) /\ NoClose(work'[a])
<1> DEFINE S == {m \in Ledger!Pending : Ledger!buildWalletTxEntry(wtx[m]) # {}}
<1>1. PICK list, upTo :
        /\ list \in Ledger!Listings(S)
        /\ Ledger!Begins(a, "sync", [i \in DOMAIN list |->
             Ledger!Request(<<"wtx", list[i]>>, 0, Ledger!buildWalletTxEntry(wtx[list[i]]))], upTo)
        /\ UNCHANGED clock
  BY DEF Ledger!syncLedgerFromWalletTx
<1>2. \A m \in S : m \in Movement /\ wtx[m].committed
  BY DEF Ledger!Pending
<1>3. IsFiniteSet(S)
  BY <1>2, FS_Subset
<1>4. Cardinality(S) \in Nat
  BY <1>3, FS_CardinalityType
<1>5. list \in [1 .. Cardinality(S) -> S]
  BY <1>1 DEF Ledger!Listings, Ledger!Cardinality, Cardinality
<1> HIDE DEF S
<1> DEFINE r == [i \in DOMAIN list |->
             Ledger!Request(<<"wtx", list[i]>>, 0, Ledger!buildWalletTxEntry(wtx[list[i]]))]
           R == {Ledger!Request(<<"wtx", m>>, 0, Ledger!buildWalletTxEntry(wtx[m])) : m \in S}
<1>6. r \in [1 .. Cardinality(S) -> R]
  BY <1>5
<1>8. ASSUME NEW i \in 1 .. Cardinality(S)
      PROVE  Fits(r[i], wtx) /\ ~OfClose(r[i])
  <2>1. list[i] \in Movement /\ wtx[list[i]].committed
    BY <1>2, <1>5
  <2>2. /\ r[i].source = <<"wtx", list[i]>>
        /\ r[i].lines = Ledger!buildWalletTxEntry(wtx[list[i]])
    BY <1>5 DEF Ledger!Request
  <2> HIDE DEF r
  <2>3. r[i].source[1] # "close"
    BY <2>2
  <2> QED
    BY <2>1, <2>2, <2>3 DEF Fits, OfMovement, OfClose
<1> HIDE DEF r, R
<1>7. r \in Seq(R) /\ Len(r) = Cardinality(S)
  BY <1>4, <1>6
<1>9. Doing([task |-> "sync", step |-> "look", todo |-> r, upTo |-> upTo], wtx, journal)
  BY <1>7, <1>8, ListIsDoing
<1>10. /\ work' = [work EXCEPT ![a] = [task |-> "sync", step |-> "look", todo |-> r, upTo |-> upTo]]
       /\ UNCHANGED <<clock, wtx, journal, lined>>
  BY <1>1 DEF Ledger!Begins, r
<1>11. work'[a].todo = r
  BY <1>10 DEF LedgerInv
<1>12. OthersStay(a) /\ NoClose(work'[a])
  BY <1>7, <1>8, <1>10, <1>11 DEF OthersStay, NoClose, LedgerInv
<1> QED
  BY <1>9, <1>10, <1>12, WorkChanges DEF LedgerInv

LEMMA ReversalBegins ==
  ASSUME LedgerInv, NEW a \in Ledger!Poster, NEW e \in journal, Ledger!reverseEntry(a, e)
  PROVE  LedgerInv' /\ OthersStay(a) /\ NoClose(work'[a])
<1> DEFINE q == Ledger!Request(<<"reversal", e.id>>, 0, Ledger!buildReversalLines(e.lines))
<1>1. q.source[1] = "reversal" /\ q.lines = Ledger!buildReversalLines(e.lines)
  BY DEF Ledger!Request
<1>2. /\ work' = [work EXCEPT ![a] = [task |-> "reverse", step |-> "look", todo |-> <<q>>, upTo |-> 0]]
      /\ UNCHANGED <<clock, wtx, journal, lined>> /\ e.source[1] # "reversal"
  BY DEF Ledger!reverseEntry, Ledger!Begins
<1> HIDE DEF q
<1>3. OfReversal(q)
  BY <1>1, <1>2, ReversalFits DEF LedgerInv, Entries
<1>4. <<q>> \in Seq({q}) /\ Len(<<q>>) = 1 /\ <<q>>[1] = q
  OBVIOUS
<1>5. \A i \in 1 .. Len(<<q>>) : Fits(<<q>>[i], wtx)
  BY <1>3, <1>4 DEF Fits
<1>6. Doing([task |-> "reverse", step |-> "look", todo |-> <<q>>, upTo |-> 0], wtx, journal)
  BY <1>4, <1>5, ListIsDoing
<1>7. OthersStay(a) /\ work'[a].todo = <<q>>
  BY <1>2 DEF OthersStay, LedgerInv
<1>8. NoClose(work'[a])
  BY <1>3, <1>4, <1>7 DEF NoClose, OfClose, OfReversal
<1> QED
  BY <1>2, <1>6, <1>7, <1>8, WorkChanges DEF LedgerInv

(* The request of a close.                                                 *)
CloseOf(x, asOf, n) ==
  Ledger!Request(<<"close", Ledger!Day(asOf), x[2]>>, asOf, Ledger!buildClosingLines(x[1], x[2], n))

(* What the accounts hold is a number, for any of the entries.             *)
LEMMA BalanceIsNumber ==
  ASSUME NEW docs, Movements(docs), NEW all, Entries(all, docs), NEW entries \in SUBSET all,
         NEW x \in Ledger!Income
  PROVE  /\ Numbers([e \in entries |-> Moved(e.lines, x)])
         /\ Numbers([e \in entries |-> Earned(e.lines, x)])
         /\ Ledger!Balance(entries, "3090", x[2]) = Ledger!Sum([e \in entries |-> Moved(e.lines, x)])
         /\ Ledger!Balance(entries, x[1], x[2]) = Ledger!Sum([e \in entries |-> Earned(e.lines, x)])
         /\ Ledger!Balance(entries, "3090", x[2]) \in Int
         /\ Ledger!Balance(entries, x[1], x[2]) \in Int
<1>1. IsFiniteSet(entries)
  BY FS_Subset DEF Entries
<1>2. \A e \in entries : Moved(e.lines, x) \in Int /\ Earned(e.lines, x) \in Int
  BY FitsAmounts DEF Entries
<1>3. /\ Numbers([e \in entries |-> Moved(e.lines, x)])
      /\ Numbers([e \in entries |-> Earned(e.lines, x)])
  BY <1>1, <1>2 DEF Numbers
<1>4. /\ Ledger!Balance(entries, "3090", x[2]) = Ledger!Sum([e \in entries |-> Moved(e.lines, x)])
      /\ Ledger!Balance(entries, x[1], x[2]) = Ledger!Sum([e \in entries |-> Earned(e.lines, x)])
  BY DEF Ledger!Balance, Moved, Earned, Amount
<1> QED
  BY <1>3, <1>4, SumTyped

(* The list of a close: one request for each income account that is due.   *)
LEMMA CloseIsListed ==
  ASSUME LedgerInv, NEW a \in Ledger!Poster, NEW asOf, Ledger!closePeriod(a, asOf)
  PROVE  \E n, list :
           /\ n = [x \in Ledger!Income |-> Ledger!Balance({e \in Ledger!Stored : e.date <= asOf}, x[1], x[2])]
           /\ \E S : list \in Seq(S)
           /\ \A i \in 1 .. Len(list) : \E x \in Ledger!Income : list[i] = CloseOf(x, asOf, n[x])
           /\ \A i, j \in 1 .. Len(list) : list[i] = list[j] => i = j
           /\ work' = [work EXCEPT ![a] =
                [task |-> "close", step |-> "look", todo |-> list, upTo |-> asOf]]
<1> DEFINE dated == {e \in Ledger!Stored : e.date <= asOf}
           n == [x \in Ledger!Income |-> Ledger!Balance(dated, x[1], x[2])]
           listed == {x \in Ledger!Income : Ledger!Balance(dated, x[1], x[2]) # 0}
           todo == {CloseOf(x, asOf, Ledger!Balance(dated, x[1], x[2])) : x \in listed}
           g == [x \in listed |-> CloseOf(x, asOf, n[x])]
<1>1. PICK list \in Ledger!Listings(todo) : Ledger!Begins(a, "close", list, asOf)
  BY DEF Ledger!closePeriod, CloseOf
<1>2. \A q \in todo : \E x \in Ledger!Income : q = CloseOf(x, asOf, n[x])
  OBVIOUS
<1>3. g \in [listed -> todo] /\ \A q \in todo : \E x \in listed : g[x] = q
  OBVIOUS
<1>4. IsFiniteSet(listed)
  <2>1. IsFiniteSet({<<"4050", "USDC">>} \cup {<<"4060", "BOB">>})
    BY FS_Singleton, FS_AddElement
  <2>2. listed \in SUBSET ({<<"4050", "USDC">>} \cup {<<"4060", "BOB">>})
    BY DEF Ledger!Income
  <2> QED
    BY <2>1, <2>2, FS_Subset
<1> HIDE DEF g, listed, todo
<1>5. g \in Surjection(listed, todo)
  BY <1>3 DEF Surjection
<1>6. IsFiniteSet(todo)
  BY <1>4, <1>5, FS_Surjection
<1>7. Cardinality(todo) \in Nat
  BY <1>6, FS_CardinalityType
<1>8. /\ list \in [1 .. Cardinality(todo) -> todo]
      /\ \A i, j \in DOMAIN list : list[i] = list[j] => i = j
  BY <1>1 DEF Ledger!Listings, Ledger!Cardinality, Cardinality
<1>9. list \in Seq(todo) /\ Len(list) = Cardinality(todo)
  BY <1>7, <1>8
<1>10. \A i \in 1 .. Len(list) : \E x \in Ledger!Income : list[i] = CloseOf(x, asOf, n[x])
  BY <1>2, <1>8, <1>9
<1>11. \A i, j \in 1 .. Len(list) : list[i] = list[j] => i = j
  BY <1>8, <1>9
<1>12. work' = [work EXCEPT ![a] = [task |-> "close", step |-> "look", todo |-> list, upTo |-> asOf]]
  BY <1>1 DEF Ledger!Begins
<1> QED
  BY <1>9, <1>10, <1>11, <1>12

LEMMA CloseFits ==
  ASSUME NEW x \in Ledger!Income, NEW asOf, NEW n \in Int
  PROVE  OfClose(CloseOf(x, asOf, n)) /\ CloseOf(x, asOf, n).lines = Ledger!buildClosingLines(x[1], x[2], n)
<1>1. /\ CloseOf(x, asOf, n).source[1] = "close"
      /\ CloseOf(x, asOf, n).lines = Ledger!buildClosingLines(x[1], x[2], n)
  BY DEF CloseOf, Ledger!Request
<1> QED
  BY <1>1 DEF OfClose

LEMMA CloseBegins ==
  ASSUME LedgerInv, NEW a \in Ledger!Poster, NEW asOf, Ledger!closePeriod(a, asOf)
  PROVE  LedgerInv'
<1> DEFINE dated == {e \in Ledger!Stored : e.date <= asOf}
<1>1. PICK n, list :
        /\ n = [x \in Ledger!Income |-> Ledger!Balance(dated, x[1], x[2])]
        /\ \E S : list \in Seq(S)
        /\ \A i \in 1 .. Len(list) : \E x \in Ledger!Income : list[i] = CloseOf(x, asOf, n[x])
        /\ \A i, j \in 1 .. Len(list) : list[i] = list[j] => i = j
        /\ work' = [work EXCEPT ![a] = [task |-> "close", step |-> "look", todo |-> list, upTo |-> asOf]]
  BY CloseIsListed, Zenon
<1>2. dated \in SUBSET journal
  BY DEF Ledger!Stored
<1> HIDE DEF dated
<1>3. \A x \in Ledger!Income : n[x] \in Int
  BY <1>1, <1>2, BalanceIsNumber DEF LedgerInv
<1>4. \A i \in 1 .. Len(list) : Fits(list[i], wtx)
  BY <1>1, <1>3, CloseFits DEF Fits
<1>5. Doing([task |-> "close", step |-> "look", todo |-> list, upTo |-> asOf], wtx, journal)
  BY <1>1, <1>4, ListIsDoing
<1>6. UNCHANGED <<wtx, journal, lined>> /\ clock' = clock + 1
  BY DEF Ledger!closePeriod, Ledger!Begins
<1> QED
  BY <1>1, <1>5, <1>6, WorkChanges DEF LedgerInv

(* What was posted, or was there, is dropped from the list.                *)
LEMMA Drops ==
  ASSUME LedgerInv, NEW a \in Ledger!Poster, work[a].todo # <<>>,
         work' = Ledger!Dropped(a), UNCHANGED <<wtx, journal, clock>>,
         lined' \subseteq 1 .. Cardinality(journal)
  PROVE  /\ LedgerInv'
         /\ \E S : work[a].todo \in Seq(S)
         /\ work'[a].todo = Tail(work[a].todo)
         /\ \A p \in Ledger!Poster : p # a => work'[p] = work[p]
<1> DEFINE w == [work[a] EXCEPT !.step = "look", !.todo = Tail(work[a].todo)]
<1>1. Doing(work[a], wtx, journal) /\ clock \in Nat
  BY DEF LedgerInv
<1>2. PICK S : work[a].todo \in Seq(S)
  BY <1>1 DEF Doing
<1>3. /\ Tail(work[a].todo) \in Seq(S)
      /\ Len(Tail(work[a].todo)) = Len(work[a].todo) - 1 /\ Len(work[a].todo) \in Nat \ {0}
      /\ \A i \in 1 .. Len(Tail(work[a].todo)) : Tail(work[a].todo)[i] = work[a].todo[i + 1]
  BY <1>2
<1>4. \A i \in 1 .. Len(Tail(work[a].todo)) : Fits(Tail(work[a].todo)[i], wtx)
  <2>1. \A i \in 1 .. Len(Tail(work[a].todo)) : i + 1 \in 1 .. Len(work[a].todo)
    BY <1>3
  <2> QED
    BY <1>1, <1>3, <2>1 DEF Doing
<1>5. w.todo = Tail(work[a].todo) /\ w.step = "look" /\ DOMAIN w = {"task", "step", "todo", "upTo"}
  BY <1>1 DEF Doing
<1>6. work' = [work EXCEPT ![a] = w]
  BY <1>1 DEF Ledger!Dropped, Doing, LedgerInv
<1> HIDE DEF w
<1>7. Doing(w, wtx, journal)
  BY <1>3, <1>4, <1>5 DEF Doing
<1>8. LedgerInv'
  BY <1>1, <1>6, <1>7, WorkChanges
<1> QED
  BY <1>2, <1>5, <1>6, <1>8 DEF LedgerInv

LEMMA TaskLeaves ==
  ASSUME LedgerInv, NEW a \in Ledger!Poster, work' = [work EXCEPT ![a] = Ledger!AtRest],
         UNCHANGED <<wtx, journal, lined, clock>>
  PROVE  LedgerInv'
BY RestIsDoing, WorkChanges DEF LedgerInv

LEMMA PosterLooks ==
  ASSUME LedgerInv, NEW a \in Ledger!Poster, Ledger!postLooks(a)
  PROVE  LedgerInv'
<1>1. CASE work' = Ledger!Dropped(a)
  BY <1>1, Drops DEF Ledger!postLooks, LedgerInv
<1>2. CASE work' = [work EXCEPT ![a].step = "create"]
  <2> DEFINE w == [work[a] EXCEPT !.step = "create"]
  <2>0. Doing(work[a], wtx, journal) /\ ~Ledger!Refused(Ledger!Asked(a)) /\ work[a].todo # <<>>
    BY DEF LedgerInv, Ledger!postLooks
  <2>1. Ledger!assertBalanced(work[a].todo[1].lines)
    <3>1. PICK S : work[a].todo \in Seq(S)
      BY <2>0 DEF Doing
    <3>2. Ledger!Asked(a) = work[a].todo[1]
      BY <2>0, <3>1 DEF Ledger!Asked
    <3> QED
      BY <2>0, <3>2 DEF Ledger!Refused
  <2>2. /\ w.todo = work[a].todo /\ w.step = "create"
        /\ DOMAIN w = {"task", "step", "todo", "upTo"}
    BY <2>0 DEF Doing
  <2> HIDE DEF w
  <2>3. Doing(w, wtx, journal)
    BY <2>0, <2>1, <2>2 DEF Doing
  <2>4. work' = [work EXCEPT ![a] = w]
    BY <1>2 DEF w
  <2> QED
    BY <2>3, <2>4, WorkChanges DEF Ledger!postLooks, LedgerInv
<1> QED
  BY <1>1, <1>2 DEF Ledger!postLooks

(* A new entry: its number and its source are nobody else's.               *)
LEMMA EntryIsNew ==
  ASSUME NEW docs, NEW entries, Entries(entries, docs), NEW e,
         e.id = Cardinality(entries) + 1, Fits(e, docs),
         OfClose(e) => \A x \in Ledger!Income : Moved(e.lines, x) >= 0,
         \A f \in entries : f.source # e.source
  PROVE  /\ Entries(entries \cup {e}, docs) /\ e \notin entries
         /\ Cardinality(entries) \in Nat
         /\ Cardinality(entries \cup {e}) = Cardinality(entries) + 1
<1>1. IsFiniteSet(entries) /\ Cardinality(entries) \in Nat
  BY FS_CardinalityType DEF Entries
<1>2. e \notin entries
  OBVIOUS
<1>3. /\ IsFiniteSet(entries \cup {e})
      /\ Cardinality(entries \cup {e}) = Cardinality(entries) + 1
  BY <1>1, <1>2, FS_AddElement
<1>4. \A f \in entries : f.id \in 1 .. Cardinality(entries) /\ f.id # e.id
  BY <1>1 DEF Entries
<1>5. \A f \in entries \cup {e} : f.id \in 1 .. Cardinality(entries \cup {e})
  BY <1>1, <1>3, <1>4
<1>6. \A f, g \in entries \cup {e} : f.id = g.id \/ f.source = g.source => f = g
  BY <1>4 DEF Entries
<1>7. \A f \in entries \cup {e} :
        Fits(f, docs) /\ (OfClose(f) => \A x \in Ledger!Income : Moved(f.lines, x) >= 0)
  BY DEF Entries
<1> QED
  BY <1>1, <1>2, <1>3, <1>5, <1>6, <1>7 DEF Entries

(* A close that was looked at takes no negative balance.                   *)
LEMMA CloseIsForward ==
  ASSUME NEW q, OfClose(q), Ledger!assertBalanced(q.lines), NEW x \in Ledger!Income
  PROVE  Moved(q.lines, x) >= 0
<1>1. PICK y \in Ledger!Income, n \in Int : q.lines = Ledger!buildClosingLines(y[1], y[2], n)
  BY DEF OfClose
<1>2. /\ Moved(q.lines, x) = (IF x = y THEN n ELSE 0)
      /\ Ledger!assertBalanced(q.lines) => n >= 0
  BY <1>1, CloseAmounts
<1> QED
  BY <1>2

LEMMA FitsAlike ==
  ASSUME NEW docs, NEW q, NEW e, e.source = q.source, e.lines = q.lines
  PROVE  (Fits(q, docs) => Fits(e, docs)) /\ (OfClose(e) <=> OfClose(q))
BY DEF Fits, OfMovement, OfClose, OfReversal

(* An entry is created, for the head of the list.                          *)
LEMMA Created ==
  ASSUME LedgerInv, NEW a \in Ledger!Poster, work[a].todo # <<>>, work[a].step = "create",
         ~Ledger!Exists(Ledger!Asked(a).source), Ledger!Creates(a)
  PROVE  \E e, S :
           /\ work[a].todo \in Seq(S)
           /\ e.id = Cardinality(journal) + 1
           /\ e.source = work[a].todo[1].source /\ e.lines = work[a].todo[1].lines
           /\ journal' = journal \cup {e}
           /\ DOMAIN work' = Ledger!Poster /\ \A p \in Ledger!Poster : p # a => work'[p] = work[p]
           /\ DOMAIN work'[a] = {"task", "step", "todo", "upTo"}
           /\ work'[a].step = "lines"
           /\ work'[a].todo = [work[a].todo EXCEPT ![1] = e]
           /\ \A f \in journal : f.source # e.source
<1>1. Doing(work[a], wtx, journal)
  BY DEF LedgerInv
<1>2. PICK S : work[a].todo \in Seq(S)
  BY <1>1 DEF Doing
<1>3. Ledger!Asked(a) = work[a].todo[1]
  BY <1>2 DEF Ledger!Asked
<1> DEFINE r == Ledger!Asked(a)
           e == [id |-> Cardinality(journal) + 1, source |-> r.source, lines |-> r.lines,
                 date |-> IF r.date = 0 THEN clock ELSE r.date]
<1>4. /\ journal' = journal \cup {e}
      /\ work' = [work EXCEPT ![a].step = "lines", ![a].todo[1] = e]
  BY DEF Ledger!Creates, Ledger!Cardinality, Cardinality
<1>5. e.id = Cardinality(journal) + 1 /\ e.source = work[a].todo[1].source
      /\ e.lines = work[a].todo[1].lines
  BY <1>3
<1>6. \A f \in journal : f.source # e.source
  BY <1>3, <1>5 DEF Ledger!Exists
<1> HIDE DEF r, e
<1>7. /\ DOMAIN work' = Ledger!Poster /\ \A p \in Ledger!Poster : p # a => work'[p] = work[p]
      /\ DOMAIN work'[a] = {"task", "step", "todo", "upTo"}
      /\ work'[a].step = "lines"
      /\ work'[a].todo = [work[a].todo EXCEPT ![1] = e]
  BY <1>1, <1>4 DEF LedgerInv, Doing
<1> QED
  BY <1>2, <1>4, <1>5, <1>6, <1>7

LEMMA PosterCreates ==
  ASSUME LedgerInv, NEW a \in Ledger!Poster, Ledger!postCreates(a)
  PROVE  LedgerInv'
<1>1. CASE Ledger!Exists(Ledger!Asked(a).source)
  BY <1>1, Drops DEF Ledger!postCreates, LedgerInv
<1>2. CASE ~Ledger!Exists(Ledger!Asked(a).source)
  <2>0. /\ work[a].todo # <<>> /\ work[a].step = "create" /\ Ledger!Creates(a)
        /\ UNCHANGED <<clock, wtx, lined>>
    BY <1>2 DEF Ledger!postCreates
  <2>1. PICK e, S :
           /\ work[a].todo \in Seq(S)
           /\ e.id = Cardinality(journal) + 1
           /\ e.source = work[a].todo[1].source /\ e.lines = work[a].todo[1].lines
           /\ journal' = journal \cup {e}
           /\ DOMAIN work' = Ledger!Poster /\ \A p \in Ledger!Poster : p # a => work'[p] = work[p]
           /\ DOMAIN work'[a] = {"task", "step", "todo", "upTo"}
           /\ work'[a].step = "lines"
           /\ work'[a].todo = [work[a].todo EXCEPT ![1] = e]
           /\ \A f \in journal : f.source # e.source
    BY <1>2, <2>0, Created
  <2> DEFINE q == work[a].todo[1]
  <2>2. Doing(work[a], wtx, journal)
    BY DEF LedgerInv
  <2>3. Len(work[a].todo) \in Nat \ {0}
    BY <2>0, <2>1
  <2>4. Fits(q, wtx) /\ Ledger!assertBalanced(q.lines)
    BY <2>0, <2>2, <2>3 DEF Doing
  <2> HIDE DEF q
  <2>5. Fits(e, wtx) /\ (OfClose(e) => \A x \in Ledger!Income : Moved(e.lines, x) >= 0)
    <3>1. e.source = q.source /\ e.lines = q.lines
      BY <2>1 DEF q
    <3>2. Fits(e, wtx) /\ (OfClose(e) <=> OfClose(q))
      BY <2>4, <3>1, FitsAlike
    <3>3. OfClose(q) => \A x \in Ledger!Income : Moved(q.lines, x) >= 0
      BY <2>4, CloseIsForward
    <3> QED
      BY <3>1, <3>2, <3>3
  <2>6. /\ Entries(journal', wtx)
        /\ Cardinality(journal) \in Nat /\ Cardinality(journal') = Cardinality(journal) + 1
    <3>1. Entries(journal, wtx) /\ e.id = Cardinality(journal) + 1 /\ \A f \in journal : f.source # e.source
      BY <2>1 DEF LedgerInv
    <3>2. /\ Entries(journal \cup {e}, wtx) /\ Cardinality(journal) \in Nat
          /\ Cardinality(journal \cup {e}) = Cardinality(journal) + 1
      BY <2>5, <3>1, EntryIsNew
    <3> QED
      BY <2>1, <3>2
  <2>7. lined \subseteq 1 .. Cardinality(journal')
    BY <2>6 DEF LedgerInv
  <2>8. Doing(work'[a], wtx, journal')
    <3> DEFINE t == work'[a].todo
    <3>1. t \in Seq(S \cup {e}) /\ Len(t) = Len(work[a].todo) /\ t[1] = e
          /\ \A i \in 1 .. Len(t) : i # 1 => t[i] = work[a].todo[i]
      BY <2>1, <2>3
    <3>2. \A i \in 1 .. Len(t) : Fits(t[i], wtx)
      BY <2>2, <2>5, <3>1 DEF Doing
    <3>3. Ledger!assertBalanced(t[1].lines) /\ t[1] \in journal'
      BY <2>1, <2>4, <3>1 DEF q
    <3> HIDE DEF t
    <3> QED
      BY <2>1, <3>1, <3>2, <3>3 DEF Doing, t
  <2>9. \A p \in Ledger!Poster : Doing(work'[p], wtx, journal')
    <3>1. \A p \in Ledger!Poster : Doing(work[p], wtx, journal')
      BY <2>1, DoingKept DEF LedgerInv
    <3> QED
      BY <2>1, <2>8, <3>1
  <2> QED
    BY <2>0, <2>1, <2>6, <2>7, <2>9 DEF LedgerInv
<1> QED
  BY <1>1, <1>2

LEMMA PosterWritesLines ==
  ASSUME LedgerInv, NEW a \in Ledger!Poster, Ledger!postLines(a)
  PROVE  LedgerInv' /\ work[a].todo[1] \in journal /\ lined' = lined \cup {work[a].todo[1].id}
<1>1. Doing(work[a], wtx, journal) /\ work[a].todo # <<>> /\ work[a].step = "lines"
  BY DEF LedgerInv, Ledger!postLines
<1>2. PICK S : work[a].todo \in Seq(S)
  BY <1>1 DEF Doing
<1>3. Ledger!Asked(a) = work[a].todo[1]
  BY <1>2 DEF Ledger!Asked
<1>4. work[a].todo[1] \in journal /\ lined' = lined \cup {work[a].todo[1].id}
  BY <1>1, <1>3 DEF Doing, Ledger!postLines
<1>5. lined' \subseteq 1 .. Cardinality(journal)
  BY <1>4 DEF LedgerInv, Entries
<1>6. LedgerInv'
  BY <1>1, <1>5, Drops DEF Ledger!postLines
<1> QED
  BY <1>4, <1>6

LEMMA LedgerKept ==
  ASSUME LedgerInv, IsFiniteSet(Movement), [Ledger!LedgerNext]_ledgerVars
  PROVE  LedgerInv'
<1>1. CASE UNCHANGED ledgerVars
  BY <1>1 DEF LedgerInv, ledgerVars
<1>2. ASSUME NEW m \in Movement, Ledger!beginMovement(m) \/ Ledger!commitMovement(m)
      PROVE  LedgerInv'
  BY <1>2, MovementsMove
<1>3. ASSUME NEW a \in Ledger!Poster,
             Ledger!syncLedgerFromWalletTx(a) \/ Ledger!postEntry(a) \/ Ledger!taskEnds(a)
      PROVE  LedgerInv'
  <2>1. CASE Ledger!syncLedgerFromWalletTx(a)
    BY <2>1, SyncBegins
  <2>2. CASE Ledger!postRefused(a) \/ Ledger!taskEnds(a)
    BY <2>2, TaskLeaves DEF Ledger!postRefused, Ledger!taskEnds
  <2>3. CASE Ledger!postLooks(a)
    BY <2>3, PosterLooks
  <2>4. CASE Ledger!postCreates(a)
    BY <2>4, PosterCreates
  <2>5. CASE Ledger!postLines(a)
    BY <2>5, PosterWritesLines
  <2> QED
    BY <1>3, <2>1, <2>2, <2>3, <2>4, <2>5 DEF Ledger!postEntry
<1>4. ASSUME NEW a \in Admin, NEW e \in journal, Ledger!reverseEntry(a, e)
      PROVE  LedgerInv'
  BY <1>4, ReversalBegins DEF Ledger!Poster
<1>5. ASSUME NEW a \in Admin, NEW asOf \in 1 .. clock, Ledger!closePeriod(a, asOf)
      PROVE  LedgerInv'
  BY <1>5, CloseBegins DEF Ledger!Poster
<1>6. CASE Ledger!ledgerCrash
  <2>1. /\ work' = [a \in Ledger!Poster |-> Ledger!AtRest]
        /\ UNCHANGED <<clock, wtx, journal, lined>>
    BY <1>6 DEF Ledger!ledgerCrash
  <2>2. \A a \in Ledger!Poster : Doing(work'[a], wtx, journal)
    BY <2>1, RestIsDoing
  <2> QED
    BY <2>1, <2>2 DEF LedgerInv
<1> QED
  BY <1>1, <1>2, <1>3, <1>4, <1>5, <1>6 DEF Ledger!LedgerNext

(* The entries of movements and the movements they are of: one to one.     *)
LEMMA ControlsAgree ==
  ASSUME LedgerInv
  PROVE  Ledger!Reconciles
<1> SUFFICES ASSUME NEW x \in Ledger!Control
             PROVE  LET entries == {e \in Ledger!Stored : e.source[1] = "wtx"}
                        moved == {e.source[2] : e \in entries}
                    IN Ledger!Balance(entries, x[1], x[2])
                         = Ledger!Sum([m \in moved |-> Ledger!onWallets(wtx[m], x[1])])
  BY DEF Ledger!Reconciles
<1> DEFINE entries == {e \in Ledger!Stored : e.source[1] = "wtx"}
           moved == {e.source[2] : e \in entries}
           f == [e \in entries |-> Amount(e.lines, x[1], x[2])]
           g == [m \in moved |-> Ledger!onWallets(wtx[m], x[1])]
           h == [e \in entries |-> e.source[2]]
<1>1. entries \in SUBSET journal
  BY DEF Ledger!Stored
<1>2. ASSUME NEW e \in entries
      PROVE  /\ e.source = <<"wtx", e.source[2]>> /\ f[e] = Ledger!onWallets(wtx[e.source[2]], x[1])
             /\ f[e] \in Int
  <2>1. e.source[1] = "wtx" /\ Fits(e, wtx)
    BY <1>1 DEF LedgerInv, Entries
  <2>2. PICK m \in Movement : e.source = <<"wtx", m>> /\ wtx[m].committed
                              /\ e.lines = Ledger!buildWalletTxEntry(wtx[m])
    BY <2>1 DEF Fits, OfMovement, OfClose, OfReversal
  <2>3. wtx[m] \in MovementDoc
    BY <2>2 DEF LedgerInv, Movements, WtxDoc, MovementDoc
  <2>4. Amount(e.lines, x[1], x[2]) = Ledger!onWallets(wtx[m], x[1])
    BY <2>2, <2>3, BuildOnControl
  <2>5. Ledger!onWallets(wtx[m], x[1]) \in Int
    <3>1. wtx[m].amount \in Nat
      BY <2>3 DEF MovementDoc
    <3>2. PICK n \in Nat : n = wtx[m].amount
      BY <3>1
    <3> QED
      BY <3>2 DEF Ledger!onWallets, Ledger!Fee, Ledger!Control
  <2> QED
    BY <2>2, <2>4, <2>5
<1>3. IsFiniteSet(entries)
  BY <1>1, FS_Subset DEF LedgerInv, Entries
<1>4. ASSUME NEW e \in entries, NEW d \in entries, e.source[2] = d.source[2]
      PROVE  e = d
  <2>1. e.source = <<"wtx", e.source[2]>> /\ d.source = <<"wtx", d.source[2]>>
    BY <1>2
  <2>2. e.source = d.source
    BY <1>4, <2>1, Zenon
  <2>3. e \in journal /\ d \in journal
    BY <1>1
  <2> QED
    BY <2>2, <2>3 DEF LedgerInv, Entries
<1>5. h \in [entries -> moved] /\ \A m \in moved : \E e \in entries : h[e] = m
  OBVIOUS
<1>6. \A e \in entries : g[h[e]] = f[e] /\ f[e] \in Int
  BY <1>2
<1>7. \A e, d \in entries : h[e] = h[d] => e = d
  BY <1>4
<1>8. Ledger!Balance(entries, x[1], x[2]) = Ledger!Sum(f)
  BY DEF Ledger!Balance, Amount
<1>9. DOMAIN f = entries /\ DOMAIN g = moved
  OBVIOUS
<1> HIDE DEF entries, moved, f, g, h
<1>10. h \in Bijection(DOMAIN f, DOMAIN g)
  BY <1>5, <1>7, <1>9 DEF Bijection, Injection, Surjection, IsInjective
<1>11. Numbers(f)
  BY <1>3, <1>6, <1>9 DEF Numbers
<1>12. Ledger!Sum(g) = Ledger!Sum(f)
  BY <1>6, <1>9, <1>10, <1>11, SumRenamed
<1> QED
  BY <1>8, <1>12 DEF entries, moved, g

-----------------------------------------------------------------------------
(* What was moved to retained earnings, and what the movements earned.     *)
Retained(S, x) == Ledger!Balance(S, "3090", x[2])
Gained(S, x) == Ledger!Balance({e \in S : e.source[1] = "wtx"}, x[1], x[2])

(* An entry more.                                                          *)
LEMMA EntryAdds ==
  ASSUME NEW docs, Movements(docs), NEW all, Entries(all, docs), NEW S \in SUBSET all,
         NEW e \in all, e \notin S, NEW x \in Ledger!Income
  PROVE  /\ Retained(S \cup {e}, x) = Retained(S, x) + Moved(e.lines, x)
         /\ Gained(S \cup {e}, x)
              = Gained(S, x) + (IF e.source[1] = "wtx" THEN Earned(e.lines, x) ELSE 0)
         /\ Retained(S, x) \in Int /\ Gained(S, x) \in Int
<1> DEFINE T == {d \in S : d.source[1] = "wtx"}
           f == [d \in S |-> Moved(d.lines, x)]
           g == [d \in T |-> Earned(d.lines, x)]
<1>1. T \in SUBSET all /\ S \cup {e} \in SUBSET all /\ e \notin T
  OBVIOUS
<1>2. Moved(e.lines, x) \in Int /\ Earned(e.lines, x) \in Int
  BY FitsAmounts DEF Entries
<1>3. /\ Numbers(f) /\ Retained(S, x) = Ledger!Sum(f) /\ Retained(S, x) \in Int
      /\ Retained(S \cup {e}, x) = Ledger!Sum([d \in S \cup {e} |-> Moved(d.lines, x)])
  <2>1. /\ Numbers(f) /\ Ledger!Balance(S, "3090", x[2]) = Ledger!Sum(f)
        /\ Ledger!Balance(S, "3090", x[2]) \in Int
    BY BalanceIsNumber, ZenonT(60)
  <2>2. Ledger!Balance(S \cup {e}, "3090", x[2])
          = Ledger!Sum([d \in S \cup {e} |-> Moved(d.lines, x)])
    BY <1>1, BalanceIsNumber, ZenonT(60)
  <2> HIDE DEF f
  <2> QED
    BY <2>1, <2>2, Zenon DEF Retained
<1>4. Plus(f, e, Moved(e.lines, x)) = [d \in S \cup {e} |-> Moved(d.lines, x)]
  BY DEF Plus
<1>5. Retained(S \cup {e}, x) = Retained(S, x) + Moved(e.lines, x)
  <2>1. e \notin DOMAIN f
    OBVIOUS
  <2> HIDE DEF f
  <2> QED
    BY <1>2, <1>3, <1>4, <2>1, SumAdds
<1>6. Numbers(g) /\ Gained(S, x) = Ledger!Sum(g) /\ Gained(S, x) \in Int
  BY ZenonT(60), <1>1, BalanceIsNumber DEF Gained
<1>7. CASE e.source[1] = "wtx"
  <2>1. {d \in S \cup {e} : d.source[1] = "wtx"} = T \cup {e}
    BY <1>7
  <2>2. T \cup {e} \in SUBSET all
    BY <1>1
  <2>3. Gained(S \cup {e}, x) = Ledger!Sum([d \in T \cup {e} |-> Earned(d.lines, x)])
    <3>1. Gained(S \cup {e}, x) = Ledger!Balance(T \cup {e}, x[1], x[2])
      BY <2>1 DEF Gained
    <3> HIDE DEF T
    <3> QED
      BY <2>2, <3>1, BalanceIsNumber
  <2>4. Plus(g, e, Earned(e.lines, x)) = [d \in T \cup {e} |-> Earned(d.lines, x)]
    BY DEF Plus
  <2>5. e \notin DOMAIN g
    OBVIOUS
  <2> HIDE DEF T, g
  <2>6. Gained(S \cup {e}, x) = Gained(S, x) + Earned(e.lines, x)
    BY <1>2, <1>6, <2>3, <2>4, <2>5, SumAdds
  <2> QED
    BY <1>3, <1>5, <1>6, <1>7, <2>6
<1>8. CASE e.source[1] # "wtx"
  <2>1. {d \in S \cup {e} : d.source[1] = "wtx"} = T
    BY <1>8
  <2>2. Gained(S \cup {e}, x) = Gained(S, x)
    BY <2>1 DEF Gained
  <2> QED
    BY <1>3, <1>5, <1>6, <1>8, <2>2
<1> QED
  BY <1>7, <1>8

(* What is still in an income account up to a date is earned and was not   *)
(* moved yet, if no close after the date was posted.                       *)
LEMMA CloseIsCovered ==
  ASSUME NEW docs, Movements(docs), NEW all, Entries(all, docs), NEW S \in SUBSET all,
         NEW dated \in SUBSET S, \A e \in S : OfClose(e) => e \in dated,
         NEW x \in Ledger!Income
  PROVE  Retained(S, x) + Ledger!Balance(dated, x[1], x[2]) <= Gained(S, x)
<1> DEFINE T == {d \in S : d.source[1] = "wtx"}
           r == [e \in S |-> Moved(e.lines, x)]
           q == [e \in dated |-> Moved(e.lines, x)]
           b == [e \in dated |-> Earned(e.lines, x)]
           w == [e \in dated |-> IF e.source[1] = "wtx" THEN Earned(e.lines, x) ELSE 0]
           g == [e \in T |-> Earned(e.lines, x)]
<1>1. dated \in SUBSET all /\ T \in SUBSET all
  OBVIOUS
<1>2. /\ Numbers(r) /\ Numbers(q) /\ Numbers(b) /\ Numbers(g)
      /\ Retained(S, x) = Ledger!Sum(r)
      /\ Ledger!Balance(dated, x[1], x[2]) = Ledger!Sum(b)
      /\ Gained(S, x) = Ledger!Sum(g)
  <2>1. Numbers(r) /\ Ledger!Balance(S, "3090", x[2]) = Ledger!Sum(r)
    BY BalanceIsNumber, ZenonT(60)
  <2>2. Numbers(q) /\ Numbers(b) /\ Ledger!Balance(dated, x[1], x[2]) = Ledger!Sum(b)
    BY <1>1, BalanceIsNumber, ZenonT(60)
  <2>3. Numbers(g) /\ Ledger!Balance(T, x[1], x[2]) = Ledger!Sum(g)
    BY <1>1, BalanceIsNumber, ZenonT(60)
  <2> HIDE DEF r, q, b, g
  <2> QED
    BY <2>1, <2>2, <2>3, Zenon DEF Retained, Gained
<1>3. ASSUME NEW e \in all
      PROVE  \/ e.source[1] = "wtx" /\ Moved(e.lines, x) = 0 /\ Earned(e.lines, x) \in Nat
             \/ OfClose(e) /\ e.source[1] # "wtx" /\ Moved(e.lines, x) = -Earned(e.lines, x)
                /\ Moved(e.lines, x) \in Int /\ Earned(e.lines, x) \in Int
             \/ /\ e.source[1] # "wtx" /\ Moved(e.lines, x) \in Int /\ Earned(e.lines, x) \in Int
                /\ Moved(e.lines, x) <= 0
                /\ \/ Moved(e.lines, x) = 0 /\ Earned(e.lines, x) <= 0
                   \/ Moved(e.lines, x) = -Earned(e.lines, x)
  <2>1. Fits(e, docs)
    BY DEF Entries
  <2>2. CASE OfMovement(e, docs)
    BY <2>1, <2>2, FitsAmounts DEF OfMovement
  <2>3. CASE OfClose(e)
    BY <2>1, <2>3, FitsAmounts DEF OfClose
  <2>4. CASE OfReversal(e)
    BY <2>4 DEF OfReversal
  <2> QED
    BY <2>1, <2>2, <2>3, <2>4 DEF Fits
<1>4. Numbers(w)
  BY <1>2, <1>3 DEF Numbers
<1>5. Ledger!Sum(r) <= Ledger!Sum(q)
  <2>1. \A e \in DOMAIN r : r[e] > 0 => e \in DOMAIN q /\ r[e] <= q[e]
    BY <1>1, <1>3
  <2>2. \A e \in DOMAIN q : q[e] < 0 => e \in DOMAIN r /\ r[e] <= q[e]
    BY <1>3
  <2> HIDE DEF r, q
  <2> QED
    BY <1>2, <2>1, <2>2, SumGrows
<1>6. Ledger!Sum(q) + Ledger!Sum(b) <= Ledger!Sum(w)
  <2>1. DOMAIN b = DOMAIN q /\ DOMAIN w = DOMAIN q
    OBVIOUS
  <2>2. \A e \in DOMAIN q : \/ q[e] = 0 /\ w[e] >= 0 /\ b[e] = w[e]
                            \/ q[e] = 0 /\ w[e] = 0 /\ b[e] <= 0
                            \/ w[e] = 0 /\ q[e] = -b[e]
    <3>1. ASSUME NEW e \in dated
          PROVE  \/ q[e] = 0 /\ w[e] >= 0 /\ b[e] = w[e]
                 \/ q[e] = 0 /\ w[e] = 0 /\ b[e] <= 0
                 \/ w[e] = 0 /\ q[e] = -b[e]
      <4>1. /\ q[e] = Moved(e.lines, x) /\ b[e] = Earned(e.lines, x)
            /\ w[e] = IF e.source[1] = "wtx" THEN Earned(e.lines, x) ELSE 0
        OBVIOUS
      <4> HIDE DEF q, b, w
      <4> QED
        BY <1>1, <1>3, <4>1
    <3> QED
      BY <3>1
  <2> HIDE DEF q, b, w
  <2> QED
    BY <1>2, <1>4, <2>1, <2>2, SumBalances
<1>7. Ledger!Sum(w) <= Ledger!Sum(g)
  <2>1. \A e \in DOMAIN w : w[e] > 0 => e \in DOMAIN g /\ w[e] <= g[e]
    BY <1>1, <1>3
  <2>2. \A e \in DOMAIN g : g[e] >= 0
    BY <1>1, <1>3
  <2>3. \A e \in DOMAIN g : g[e] \in Int
    BY <1>2 DEF Numbers
  <2> HIDE DEF w, g
  <2> QED
    BY <1>2, <1>4, <2>1, <2>2, <2>3, SumGrows
<1>8. /\ Ledger!Sum(r) \in Int /\ Ledger!Sum(q) \in Int /\ Ledger!Sum(b) \in Int
      /\ Ledger!Sum(w) \in Int /\ Ledger!Sum(g) \in Int
  BY <1>2, <1>4, SumTyped
<1> HIDE DEF r, q, b, w, g
<1> QED
  BY <1>2, <1>5, <1>6, <1>7, <1>8

-----------------------------------------------------------------------------
(* No close that is about to be posted takes more than is left, and two of *)
(* one list take different accounts.                                       *)
Covered(w, S) ==
  \A i \in 1 .. Len(w.todo) : OfClose(w.todo[i]) =>
    \A x \in Ledger!Income : Retained(S, x) + Moved(w.todo[i].lines, x) <= Gained(S, x)
Apart(w) ==
  \A i, j \in 1 .. Len(w.todo) :
    i # j /\ OfClose(w.todo[i]) /\ OfClose(w.todo[j]) =>
      \A x \in Ledger!Income : Moved(w.todo[i].lines, x) = 0 \/ Moved(w.todo[j].lines, x) = 0

MoneyInv ==
  /\ \A x \in Ledger!Income : Retained(Ledger!Stored, x) <= Gained(Ledger!Stored, x)
  /\ \A a \in Ledger!Poster : Covered(work[a], Ledger!Stored) /\ Apart(work[a])
  /\ \A a \in Ledger!Poster : a \notin Admin => NoClose(work[a])

OneAdmin == \A a, b \in Admin : a = b

(* What is left of a list.                                                 *)
Rest(v, w, k) ==
  \A i \in 1 .. Len(v.todo) :
    /\ i + k \in 1 .. Len(w.todo)
    /\ v.todo[i].source = w.todo[i + k].source /\ v.todo[i].lines = w.todo[i + k].lines

LEMMA RestIsCovered ==
  ASSUME NEW v, NEW w, NEW k \in Nat, Rest(v, w, k), NEW S
  PROVE  /\ Covered(w, S) => Covered(v, S)
         /\ Apart(w) => Apart(v)
         /\ NoClose(w) => NoClose(v)
<1>1. ASSUME NEW i \in 1 .. Len(v.todo)
      PROVE  /\ i + k \in 1 .. Len(w.todo)
             /\ v.todo[i].lines = w.todo[i + k].lines
             /\ OfClose(v.todo[i]) <=> OfClose(w.todo[i + k])
  BY FitsAlike DEF Rest
<1>2. \A i, j \in 1 .. Len(v.todo) : i # j => i + k # j + k
  OBVIOUS
<1>3. Covered(w, S) => Covered(v, S)
  BY <1>1 DEF Covered
<1>4. Apart(w) => Apart(v)
  <2> SUFFICES ASSUME Apart(w), NEW i \in 1 .. Len(v.todo), NEW j \in 1 .. Len(v.todo),
                      i # j, OfClose(v.todo[i]), OfClose(v.todo[j]), NEW x \in Ledger!Income
               PROVE  Moved(v.todo[i].lines, x) = 0 \/ Moved(v.todo[j].lines, x) = 0
    BY DEF Apart
  <2>1. PICK m \in 1 .. Len(w.todo) :
          m = i + k /\ v.todo[i].lines = w.todo[m].lines /\ OfClose(w.todo[m])
    BY <1>1
  <2>2. PICK n \in 1 .. Len(w.todo) :
          n = j + k /\ v.todo[j].lines = w.todo[n].lines /\ OfClose(w.todo[n])
    BY <1>1
  <2>3. m # n
    BY <1>2, <2>1, <2>2
  <2> QED
    BY <2>1, <2>2, <2>3 DEF Apart
<1>5. NoClose(w) => NoClose(v)
  BY <1>1 DEF NoClose
<1> QED
  BY <1>3, <1>4, <1>5

LEMMA NoCloseIsCovered ==
  ASSUME NEW w, NoClose(w), NEW S
  PROVE  Covered(w, S) /\ Apart(w)
BY DEF NoClose, Covered, Apart

(* A step that posts no lines: what was to be posted is, or part of it, or *)
(* nothing is a close.                                                     *)
LEMMA WorkIsCovered ==
  ASSUME MoneyInv, Ledger!Stored' = Ledger!Stored,
         \A a \in Ledger!Poster : NoClose(work'[a]) \/ \E k \in Nat : Rest(work'[a], work[a], k)
  PROVE  MoneyInv'
<1>1. ASSUME NEW a \in Ledger!Poster
      PROVE  /\ Covered(work'[a], Ledger!Stored) /\ Apart(work'[a])
             /\ a \notin Admin => NoClose(work'[a])
  <2>1. CASE NoClose(work'[a])
    BY <2>1, NoCloseIsCovered
  <2>2. CASE \E k \in Nat : Rest(work'[a], work[a], k)
    BY <2>2, RestIsCovered DEF MoneyInv
  <2> QED
    BY <2>1, <2>2
<1> QED
  BY <1>1 DEF MoneyInv

LEMMA SameRest ==
  ASSUME NEW w, NEW v, \E S : w.todo \in Seq(S), v.todo = w.todo
  PROVE  \E k \in Nat : Rest(v, w, k)
<1>1. Rest(v, w, 0)
  BY DEF Rest
<1> QED
  BY <1>1

LEMMA TailIsRest ==
  ASSUME NEW w, NEW v, \E S : w.todo \in Seq(S), w.todo # <<>>, v.todo = Tail(w.todo)
  PROVE  Rest(v, w, 1)
<1>1. PICK S : w.todo \in Seq(S)
  OBVIOUS
<1>2. /\ Len(v.todo) = Len(w.todo) - 1 /\ Len(w.todo) \in Nat \ {0}
      /\ \A i \in 1 .. Len(v.todo) : v.todo[i] = w.todo[i + 1]
  BY <1>1
<1>3. \A i \in 1 .. Len(v.todo) : i + 1 \in 1 .. Len(w.todo)
  BY <1>2
<1> QED
  BY <1>2, <1>3 DEF Rest

LEMMA AtRestHasNoClose == NoClose(Ledger!AtRest)
<1>1. Ledger!AtRest.todo = <<>> /\ 1 .. Len(<<>>) = {}
  BY DEF Ledger!AtRest
<1> QED
  BY <1>1 DEF NoClose

(* The lists of the others stay.                                           *)
LEMMA OneList ==
  ASSUME LedgerInv, MoneyInv, NEW a \in Ledger!Poster,
         \A p \in Ledger!Poster : p # a => work'[p] = work[p],
         Ledger!Stored' = Ledger!Stored,
         NoClose(work'[a]) \/ \E k \in Nat : Rest(work'[a], work[a], k)
  PROVE  MoneyInv'
<1>1. \A p \in Ledger!Poster : \E S : work[p].todo \in Seq(S)
  BY DEF LedgerInv, Doing
<1>2. \A p \in Ledger!Poster : NoClose(work'[p]) \/ \E k \in Nat : Rest(work'[p], work[p], k)
  <2> SUFFICES ASSUME NEW p \in Ledger!Poster, p # a
               PROVE  \E k \in Nat : Rest(work'[p], work[p], k)
    OBVIOUS
  <2> QED
    BY <1>1, SameRest
<1> QED
  BY <1>2, WorkIsCovered

LEMMA ListLeft ==
  ASSUME LedgerInv, MoneyInv, NEW a \in Ledger!Poster, work[a].todo # <<>>,
         work' = Ledger!Dropped(a), UNCHANGED <<wtx, journal, clock, lined>>
  PROVE  MoneyInv'
<1>1. lined' \subseteq 1 .. Cardinality(journal)
  BY DEF LedgerInv
<1>2. /\ \E S : work[a].todo \in Seq(S)
      /\ work'[a].todo = Tail(work[a].todo)
      /\ \A p \in Ledger!Poster : p # a => work'[p] = work[p]
  BY <1>1, Drops
<1>3. Rest(work'[a], work[a], 1)
  BY <1>2, TailIsRest
<1>4. Ledger!Stored' = Ledger!Stored
  BY DEF Ledger!Stored
<1> QED
  BY <1>2, <1>3, <1>4, OneList

LEMMA MoneyStarts == Init => MoneyInv
<1> SUFFICES ASSUME Init
             PROVE  MoneyInv
  OBVIOUS
<1>1. Ledger!LedgerInit
  BY DEF Init
<1>2. Ledger!Stored = {} /\ \A a \in Ledger!Poster : work[a] = Ledger!AtRest
  BY <1>1 DEF Ledger!LedgerInit, Ledger!Stored
<1>3. ASSUME NEW x \in Ledger!Income
      PROVE  Retained({}, x) <= Gained({}, x)
  <2>1. Ledger!Sum([e \in {} |-> Moved(e.lines, x)]) = 0 /\ Ledger!Sum([e \in {} |-> Earned(e.lines, x)]) = 0
    BY SumOfNone
  <2>2. {e \in {} : e.source[1] = "wtx"} = {}
    OBVIOUS
  <2>3. Retained({}, x) = 0 /\ Gained({}, x) = 0
    BY <2>1, <2>2 DEF Retained, Gained, Ledger!Balance, Moved, Earned, Amount
  <2> QED
    BY <2>3
<1>4. \A a \in Ledger!Poster : NoClose(work[a])
  BY <1>2, AtRestHasNoClose
<1> QED
  BY <1>2, <1>3, <1>4, NoCloseIsCovered DEF MoneyInv

(* A close is asked for: what it takes is there, each account's once.      *)
LEMMA CloseTakes ==
  ASSUME LedgerInv, MoneyInv, OneAdmin, Ordered = TRUE, NEW a \in Admin, NEW asOf,
         Ledger!closePeriod(a, asOf)
  PROVE  MoneyInv'
<1> DEFINE dated == {e \in Ledger!Stored : e.date <= asOf}
<1>1. PICK n, list :
        /\ n = [x \in Ledger!Income |-> Ledger!Balance(dated, x[1], x[2])]
        /\ \E S : list \in Seq(S)
        /\ \A i \in 1 .. Len(list) : \E x \in Ledger!Income : list[i] = CloseOf(x, asOf, n[x])
        /\ \A i, j \in 1 .. Len(list) : list[i] = list[j] => i = j
        /\ work' = [work EXCEPT ![a] = [task |-> "close", step |-> "look", todo |-> list, upTo |-> asOf]]
  BY CloseIsListed, Zenon DEF Ledger!Poster
<1>2. /\ dated \in SUBSET Ledger!Stored /\ Ledger!Stored \in SUBSET journal
      /\ \A e \in Ledger!Stored : OfClose(e) => e \in dated
  BY DEF Ledger!Stored, Ledger!closePeriod, Ledger!MayClose, OfClose
<1> HIDE DEF dated
<1>3. \A x \in Ledger!Income : n[x] \in Int
  BY <1>1, <1>2, BalanceIsNumber DEF LedgerInv
<1>4. \A x \in Ledger!Income : Retained(Ledger!Stored, x) + n[x] <= Gained(Ledger!Stored, x)
  BY <1>1, <1>2, CloseIsCovered DEF LedgerInv
<1>5. \A x \in Ledger!Income : Retained(Ledger!Stored, x) <= Gained(Ledger!Stored, x)
  BY DEF MoneyInv
<1>6. \A x \in Ledger!Income, y \in Ledger!Income :
        Moved(CloseOf(y, asOf, n[y]).lines, x) = (IF x = y THEN n[x] ELSE 0)
  BY <1>3, CloseFits, CloseAmounts
<1>7. a \in Ledger!Poster /\ work'[a].todo = list /\ \A p \in Ledger!Poster : p # a => work'[p] = work[p]
  BY <1>1 DEF LedgerInv, Ledger!Poster
<1>8. Ledger!Stored' = Ledger!Stored
  BY DEF Ledger!closePeriod, Ledger!Begins, Ledger!Stored
<1>9. Covered(work'[a], Ledger!Stored)
  <2> SUFFICES ASSUME NEW i \in 1 .. Len(list), NEW x \in Ledger!Income
               PROVE  Retained(Ledger!Stored, x) + Moved(list[i].lines, x) <= Gained(Ledger!Stored, x)
    BY <1>7 DEF Covered
  <2>1. PICK y \in Ledger!Income : list[i] = CloseOf(y, asOf, n[y])
    BY <1>1
  <2>2. Moved(list[i].lines, x) = n[x] \/ Moved(list[i].lines, x) = 0
    BY <1>6, <2>1
  <2>3. Retained(Ledger!Stored, x) \in Int
    BY <1>2, BalanceIsNumber DEF LedgerInv, Retained
  <2> QED
    BY <1>4, <1>5, <2>2, <2>3
<1>10. Apart(work'[a])
  <2> SUFFICES ASSUME NEW i \in 1 .. Len(list), NEW j \in 1 .. Len(list), i # j, NEW x \in Ledger!Income
               PROVE  Moved(list[i].lines, x) = 0 \/ Moved(list[j].lines, x) = 0
    BY <1>7 DEF Apart
  <2>1. PICK y \in Ledger!Income : list[i] = CloseOf(y, asOf, n[y])
    BY <1>1
  <2>2. PICK z \in Ledger!Income : list[j] = CloseOf(z, asOf, n[z])
    BY <1>1
  <2>3. y # z
    BY <1>1, <2>1, <2>2
  <2> QED
    BY <1>6, <2>1, <2>2, <2>3
<1>11. ASSUME NEW p \in Ledger!Poster
       PROVE  /\ Covered(work'[p], Ledger!Stored) /\ Apart(work'[p])
              /\ p \notin Admin => NoClose(work'[p])
  BY <1>7, <1>9, <1>10 DEF MoneyInv
<1> QED
  BY <1>5, <1>8, <1>11 DEF MoneyInv

(* The lines of an entry: what is left for the rest of the list is less by *)
(* what the entry took, and another list takes nothing.                    *)
LEMMA LinesTake ==
  ASSUME LedgerInv, MoneyInv, OneAdmin, NEW a \in Ledger!Poster, Ledger!postLines(a)
  PROVE  MoneyInv'
<1> DEFINE e == work[a].todo[1]
           S == Ledger!Stored
           T == Ledger!Stored'
<1>1. /\ e \in journal /\ lined' = lined \cup {e.id} /\ journal' = journal
  BY PosterWritesLines DEF Ledger!postLines
<1>2. T = S \cup {e} /\ S \in SUBSET journal
  BY <1>1 DEF Ledger!Stored, LedgerInv, Entries
<1>3. /\ work[a].todo # <<>> /\ work' = Ledger!Dropped(a) /\ UNCHANGED <<wtx, journal, clock>>
      /\ lined' \subseteq 1 .. Cardinality(journal)
  BY <1>1 DEF Ledger!postLines, LedgerInv, Entries
<1>4. /\ \E Q : work[a].todo \in Seq(Q)
      /\ work'[a].todo = Tail(work[a].todo)
      /\ \A p \in Ledger!Poster : p # a => work'[p] = work[p]
  BY <1>3, Drops
<1>5. Len(work[a].todo) \in Nat \ {0}
  BY <1>3, <1>4
<1>6. Rest(work'[a], work[a], 1)
  BY <1>3, <1>4, TailIsRest
<1>7. /\ Covered(work[a], S) /\ Apart(work[a]) /\ a \notin Admin => NoClose(work[a])
      /\ \A p \in Ledger!Poster : Covered(work[p], S) /\ Apart(work[p])
      /\ \A p \in Ledger!Poster : p \notin Admin => NoClose(work[p])
      /\ \A x \in Ledger!Income : Retained(S, x) <= Gained(S, x)
  BY DEF MoneyInv
<1>8. Movements(wtx) /\ Entries(journal, wtx)
  BY DEF LedgerInv
<1>9. \A x \in Ledger!Income : /\ Retained(S, x) \in Int /\ Gained(S, x) \in Int
                               /\ Retained(T, x) \in Int /\ Gained(T, x) \in Int
  <2>1. ASSUME NEW R \in SUBSET journal, NEW x \in Ledger!Income
        PROVE  Retained(R, x) \in Int /\ Gained(R, x) \in Int
    <3>1. {d \in R : d.source[1] = "wtx"} \in SUBSET journal
      OBVIOUS
    <3> QED
      BY <1>8, <2>1, <3>1, BalanceIsNumber DEF Retained, Gained
  <2>2. T \in SUBSET journal
    BY <1>1, <1>2
  <2> QED
    BY <1>2, <2>1, <2>2
<1>10. CASE e \in S
  <2>1. Ledger!Stored' = Ledger!Stored
    BY <1>2, <1>10
  <2> QED
    BY <1>4, <1>6, <2>1, OneList
<1>11. CASE e \notin S
  <2>1. ASSUME NEW x \in Ledger!Income
        PROVE  /\ Retained(T, x) = Retained(S, x) + Moved(e.lines, x)
               /\ Gained(T, x) = Gained(S, x) + (IF e.source[1] = "wtx" THEN Earned(e.lines, x) ELSE 0)
               /\ Moved(e.lines, x) \in Int
    <3>1. Moved(e.lines, x) \in Int
      BY <1>1, <1>8, FitsAmounts DEF Entries
    <3> HIDE DEF e, S, T
    <3> QED
      BY <1>1, <1>2, <1>8, <1>11, <3>1, EntryAdds
  <2>2. CASE OfClose(e)
    <3>1. a \in Admin
      BY <1>5, <1>7, <2>2 DEF NoClose
    <3>2. e.source[1] = "close"
      BY <2>2 DEF OfClose
    <3> HIDE DEF e, S, T
    <3>3. \A x \in Ledger!Income : Gained(T, x) = Gained(S, x)
      BY <1>9, <2>1, <3>2
    <3>4. \A x \in Ledger!Income : Retained(T, x) <= Gained(T, x)
      BY <1>5, <1>7, <2>1, <2>2, <3>3 DEF Covered, e
    <3>5. Covered(work'[a], T)
      <4> SUFFICES ASSUME NEW i \in 1 .. Len(work'[a].todo), OfClose(work'[a].todo[i]),
                          NEW x \in Ledger!Income
                   PROVE  Retained(T, x) + Moved(work'[a].todo[i].lines, x) <= Gained(T, x)
        BY DEF Covered
      <4>1. PICK j \in 1 .. Len(work[a].todo) :
              /\ j # 1 /\ OfClose(work[a].todo[j])
              /\ work'[a].todo[i].lines = work[a].todo[j].lines
        <5>1. /\ i + 1 \in 1 .. Len(work[a].todo) /\ i + 1 # 1
              /\ work'[a].todo[i].source = work[a].todo[i + 1].source
              /\ work'[a].todo[i].lines = work[a].todo[i + 1].lines
          BY <1>6 DEF Rest
        <5>2. OfClose(work[a].todo[i + 1])
          BY <5>1, FitsAlike
        <5> QED
          BY <5>1, <5>2
      <4>2. Moved(e.lines, x) = 0 \/ Moved(work[a].todo[j].lines, x) = 0
        BY <1>5, <1>7, <2>2, <4>1 DEF Apart, e
      <4>3. /\ Retained(S, x) + Moved(work[a].todo[j].lines, x) <= Gained(S, x)
            /\ Retained(T, x) <= Gained(T, x)
        BY <1>7, <3>4, <4>1 DEF Covered
      <4>4. Retained(T, x) = Retained(S, x) + Moved(e.lines, x) /\ Gained(T, x) = Gained(S, x)
        BY <2>1, <3>3
      <4> QED
        BY <1>9, <2>1, <4>1, <4>2, <4>3, <4>4
    <3>6. ASSUME NEW p \in Ledger!Poster
          PROVE  /\ Covered(work'[p], T) /\ Apart(work'[p])
                 /\ p \notin Admin => NoClose(work'[p])
      <4>1. CASE p = a
        BY <1>6, <1>7, <3>1, <3>5, <4>1, RestIsCovered
      <4>2. CASE p # a
        <5>1. NoClose(work[p]) /\ work'[p] = work[p]
          BY <1>4, <1>7, <3>1, <4>2 DEF OneAdmin
        <5> QED
          BY <5>1, NoCloseIsCovered
      <4> QED
        BY <4>1, <4>2
    <3> QED
      BY <3>4, <3>6 DEF MoneyInv, T
  <2>3. CASE ~OfClose(e)
    <3>1. \A x \in Ledger!Income : Retained(T, x) <= Retained(S, x) /\ Gained(S, x) <= Gained(T, x)
      <4> SUFFICES ASSUME NEW x \in Ledger!Income
                   PROVE  Retained(T, x) <= Retained(S, x) /\ Gained(S, x) <= Gained(T, x)
        OBVIOUS
      <4>1. Fits(e, wtx)
        BY <1>1, <1>8 DEF Entries
      <4>2. CASE OfMovement(e, wtx)
        <5>1. e.source[1] = "wtx" /\ Moved(e.lines, x) = 0 /\ Earned(e.lines, x) \in Nat
          BY <1>8, <4>1, <4>2, FitsAmounts DEF OfMovement
        <5> HIDE DEF e, S, T
        <5> QED
          BY <1>9, <2>1, <5>1
      <4>3. CASE OfReversal(e)
        <5>1. e.source[1] # "wtx" /\ Moved(e.lines, x) <= 0
          BY <4>3 DEF OfReversal
        <5> HIDE DEF e, S, T
        <5> QED
          BY <1>9, <2>1, <5>1
      <4> QED
        BY <2>3, <4>1, <4>2, <4>3 DEF Fits
    <3> HIDE DEF e, S, T
    <3>2. \A x \in Ledger!Income : Retained(T, x) <= Gained(T, x)
      BY <1>7, <1>9, <3>1
    <3>3. ASSUME NEW p \in Ledger!Poster
          PROVE  Covered(work[p], T)
      <4> SUFFICES ASSUME NEW i \in 1 .. Len(work[p].todo), OfClose(work[p].todo[i]),
                          NEW x \in Ledger!Income
                   PROVE  Retained(T, x) + Moved(work[p].todo[i].lines, x) <= Gained(T, x)
        BY DEF Covered
      <4>1. Retained(S, x) + Moved(work[p].todo[i].lines, x) <= Gained(S, x)
        BY <1>7 DEF Covered
      <4>2. Moved(work[p].todo[i].lines, x) \in Int
        <5>1. Fits(work[p].todo[i], wtx)
          BY DEF LedgerInv, Doing
        <5> QED
          BY <1>8, <5>1, FitsAmounts
      <4> QED
        BY <1>9, <3>1, <4>1, <4>2
    <3>4. ASSUME NEW p \in Ledger!Poster
          PROVE  /\ Covered(work'[p], T) /\ Apart(work'[p])
                 /\ p \notin Admin => NoClose(work'[p])
      <4>1. CASE p = a
        BY <1>6, <1>7, <3>3, <4>1, RestIsCovered
      <4>2. CASE p # a
        BY <1>4, <1>7, <3>3, <4>2
      <4> QED
        BY <4>1, <4>2
    <3> QED
      BY <3>2, <3>4 DEF MoneyInv, T
  <2> QED
    BY <2>2, <2>3
<1> QED
  BY <1>10, <1>11

(* An entry made has no lines yet.                                         *)
LEMMA CreatedHasNoLines ==
  ASSUME LedgerInv, MoneyInv, NEW a \in Ledger!Poster, Ledger!postCreates(a),
         ~Ledger!Exists(Ledger!Asked(a).source)
  PROVE  MoneyInv'
<1>0. /\ work[a].todo # <<>> /\ work[a].step = "create" /\ Ledger!Creates(a) /\ UNCHANGED lined
  BY DEF Ledger!postCreates
<1>1. PICK e, S :
           /\ work[a].todo \in Seq(S)
           /\ e.id = Cardinality(journal) + 1
           /\ e.source = work[a].todo[1].source /\ e.lines = work[a].todo[1].lines
           /\ journal' = journal \cup {e}
           /\ DOMAIN work' = Ledger!Poster /\ \A p \in Ledger!Poster : p # a => work'[p] = work[p]
           /\ DOMAIN work'[a] = {"task", "step", "todo", "upTo"}
           /\ work'[a].step = "lines"
           /\ work'[a].todo = [work[a].todo EXCEPT ![1] = e]
           /\ \A f \in journal : f.source # e.source
  BY <1>0, Created
<1>2. Cardinality(journal) \in Nat
  BY FS_CardinalityType DEF LedgerInv, Entries
<1>3. e.id \notin lined
  BY <1>1, <1>2 DEF LedgerInv
<1>4. Ledger!Stored' = Ledger!Stored
  BY <1>0, <1>1, <1>3 DEF Ledger!Stored
<1>5. Len(work[a].todo) \in Nat \ {0}
  BY <1>0, <1>1
<1>6. /\ Len(work'[a].todo) = Len(work[a].todo)
      /\ work'[a].todo[1] = e
      /\ \A i \in 1 .. Len(work[a].todo) : i # 1 => work'[a].todo[i] = work[a].todo[i]
  BY <1>1, <1>5
<1>7. Rest(work'[a], work[a], 0)
  BY <1>1, <1>5, <1>6 DEF Rest
<1> QED
  BY <1>1, <1>4, <1>7, OneList

LEMMA MoneyKept ==
  ASSUME LedgerInv, MoneyInv, IsFiniteSet(Movement), OneAdmin, Ordered = TRUE,
         [Ledger!LedgerNext]_ledgerVars
  PROVE  MoneyInv'
<1>1. CASE UNCHANGED ledgerVars
  BY <1>1 DEF MoneyInv, ledgerVars, Ledger!Stored
<1>2. ASSUME NEW m \in Movement, Ledger!beginMovement(m) \/ Ledger!commitMovement(m)
      PROVE  MoneyInv'
  BY <1>2 DEF MoneyInv, Ledger!Stored, Ledger!beginMovement, Ledger!commitMovement
<1>3. ASSUME NEW a \in Ledger!Poster, OthersStay(a), NoClose(work'[a])
      PROVE  MoneyInv'
  <2>1. Ledger!Stored' = Ledger!Stored
    BY <1>3 DEF OthersStay, Ledger!Stored
  <2> QED
    BY <1>3, <2>1, OneList DEF OthersStay
<1>4. ASSUME NEW a \in Ledger!Poster,
             Ledger!syncLedgerFromWalletTx(a) \/ Ledger!postEntry(a) \/ Ledger!taskEnds(a)
      PROVE  MoneyInv'
  <2>1. CASE Ledger!syncLedgerFromWalletTx(a)
    BY <1>3, <2>1, SyncBegins
  <2>2. CASE Ledger!postRefused(a) \/ Ledger!taskEnds(a)
    <3>1. work' = [work EXCEPT ![a] = Ledger!AtRest] /\ UNCHANGED <<journal, lined>>
      BY <2>2 DEF Ledger!postRefused, Ledger!taskEnds
    <3>2. OthersStay(a) /\ work'[a] = Ledger!AtRest
      BY <3>1 DEF OthersStay, LedgerInv
    <3> QED
      BY <1>3, <3>2, AtRestHasNoClose
  <2>3. CASE Ledger!postLooks(a)
    <3>1. CASE work' = Ledger!Dropped(a)
      BY <2>3, <3>1, ListLeft DEF Ledger!postLooks
    <3>2. CASE work' = [work EXCEPT ![a].step = "create"]
      <4>1. Doing(work[a], wtx, journal)
        BY DEF LedgerInv
      <4>2. /\ work'[a].todo = work[a].todo /\ \E S : work[a].todo \in Seq(S)
            /\ \A p \in Ledger!Poster : p # a => work'[p] = work[p]
        BY <3>2, <4>1 DEF LedgerInv, Doing
      <4>3. \E k \in Nat : Rest(work'[a], work[a], k)
        BY <4>2, SameRest
      <4>4. Ledger!Stored' = Ledger!Stored
        BY <2>3 DEF Ledger!postLooks, Ledger!Stored
      <4> QED
        BY <4>2, <4>3, <4>4, OneList
    <3> QED
      BY <2>3, <3>1, <3>2 DEF Ledger!postLooks
  <2>4. CASE Ledger!postCreates(a)
    <3>1. CASE Ledger!Exists(Ledger!Asked(a).source)
      BY <2>4, <3>1, ListLeft DEF Ledger!postCreates
    <3>2. CASE ~Ledger!Exists(Ledger!Asked(a).source)
      BY <2>4, <3>2, CreatedHasNoLines
    <3> QED
      BY <3>1, <3>2
  <2>5. CASE Ledger!postLines(a)
    BY <2>5, LinesTake
  <2> QED
    BY <1>4, <2>1, <2>2, <2>3, <2>4, <2>5 DEF Ledger!postEntry
<1>5. ASSUME NEW a \in Admin, NEW e \in journal, Ledger!reverseEntry(a, e)
      PROVE  MoneyInv'
  BY <1>3, <1>5, ReversalBegins DEF Ledger!Poster
<1>6. ASSUME NEW a \in Admin, NEW asOf \in 1 .. clock, Ledger!closePeriod(a, asOf)
      PROVE  MoneyInv'
  BY <1>6, CloseTakes
<1>7. CASE Ledger!ledgerCrash
  <2>1. /\ work' = [a \in Ledger!Poster |-> Ledger!AtRest] /\ UNCHANGED <<journal, lined>>
    BY <1>7 DEF Ledger!ledgerCrash
  <2>2. Ledger!Stored' = Ledger!Stored
    BY <2>1 DEF Ledger!Stored
  <2>3. \A a \in Ledger!Poster : NoClose(work'[a])
    BY <2>1, AtRestHasNoClose
  <2> QED
    BY <2>2, <2>3, WorkIsCovered
<1> QED
  BY <1>1, <1>2, <1>4, <1>5, <1>6, <1>7 DEF Ledger!LedgerNext

(* The money that was moved was earned.                                    *)
LEMMA MoneyIsMovedOnce ==
  ASSUME MoneyInv
  PROVE  Ledger!TransferredOnce
BY DEF MoneyInv, Ledger!TransferredOnce, Retained, Gained

-----------------------------------------------------------------------------
(* The theorems.  What each part needs of its constants, and of what the   *)
(* runs let go wrong, is its hypothesis.                                   *)
MovedAssumption ==
  /\ Disbursement!Sane
  /\ Switch = FALSE           \* a withdrawal keeps its bank
  /\ MaxPayments \in Nat
  /\ WritesFail = FALSE       \* the record of a transit is stored
  /\ IsFiniteSet(Movement)
  /\ OneAdmin                 \* the admins close and reverse one after the other
  /\ Ordered = TRUE           \* and close forward in time
  /\ OneRun                   \* the runs that remind do not overlap,
  /\ NudgeWriteFails = FALSE  \* count what they mailed,
  /\ maxAvisos \in 0 .. 2     \* and mail a user twice at most
OfferAssumption == QuoteAssumption /\ RailAssumption

(* A charge is confirmed only if its own QR was paid, whatever webhooks,   *)
(* lists of the bank and sweeps say, however many charges are open and     *)
(* however often the bank is away.                                         *)
THEOREM ConfirmedChargesArePaid == Spec => []BankQr!ConfirmedIsPaid
<1>1. Init => ChargeInv
  BY ChargeStarts
<1>2. ChargeInv /\ [Next]_vars => ChargeInv'
  BY StepOfParts, ChargeKept
<1>3. ChargeInv => BankQr!ConfirmedIsPaid
  BY DEF ChargeInv
<1> QED
  BY <1>1, <1>2, <1>3, PTL DEF Spec

(* A payout that fails and is tried again, by the client, an admin or the  *)
(* other provider, is executed once, for any payouts and failures.         *)
THEOREM PayoutsTransferOnce == Spec => []Failures!TransferredOnce
<1>1. Init => PayoutInv
  BY PayoutStarts
<1>2. PayoutInv /\ [Next]_vars => PayoutInv'
  BY StepOfParts, PayoutKept
<1>3. PayoutInv => Failures!TransferredOnce
  BY DEF PayoutInv, Failures!TransferredOnce
<1> QED
  BY <1>1, <1>2, <1>3, PTL DEF Spec

(* A job that looks whether another run of it is recorded is not run twice *)
(* at a time, by the scheduler of the server, the external one and its     *)
(* retries.                                                                *)
THEOREM GuardedJobsRunAlone == Spec => []Jobs!GuardedRunsAlone
<1>1. Init => JobInv
  BY JobsStart
<1>2. JobInv /\ [Next]_vars => JobInv'
  BY StepOfParts, JobKept
<1>3. JobInv => Jobs!GuardedRunsAlone
  BY DEF JobInv
<1> QED
  BY <1>1, <1>2, <1>3, PTL DEF Spec

(* The transit of a payment over Stellar is sent once, and once more for   *)
(* each stop of the server between the submission and the record.          *)
THEOREM TransitsSentOncePerStop ==
  ASSUME WritesFail = FALSE
  PROVE  Spec => []Transit!SentOncePerStop
<1>1. Init => TransitInv
  BY TransitStarts
<1>2. TransitInv /\ [Next]_vars => TransitInv'
  BY StepOfParts, TransitKept
<1>3. TransitInv => Transit!SentOncePerStop
  BY DEF TransitInv, Transit!SentOncePerStop
<1> QED
  BY <1>1, <1>2, <1>3, PTL DEF Spec

(* Nobody is reminded twice of the same verification, wherever the run     *)
(* that mails is cut short.                                                *)
THEOREM RemindersGoOnce ==
  ASSUME OneRun, NudgeWriteFails = FALSE, maxAvisos \in 0 .. 2
  PROVE  Spec => []Reminders!RemindedOnce
<1>1. Init => ReminderInv
  BY RemindersStart
<1>2. ReminderInv /\ [Next]_vars => ReminderInv'
  BY StepOfParts, ReminderKept
<1>3. ReminderInv => Reminders!RemindedOnce
  BY DEF ReminderInv, ReminderTyped, Reminders!RemindedOnce
<1> QED
  BY <1>1, <1>2, <1>3, PTL DEF Spec

(* The ledger's control accounts hold what the posted movements did to the *)
(* wallets, each once, for any finite number of movements, any admins and  *)
(* wherever the server stops.                                              *)
THEOREM LedgerReconciles ==
  ASSUME IsFiniteSet(Movement)
  PROVE  Spec => []Ledger!Reconciles
<1>1. Init => LedgerInv
  BY LedgerStarts
<1>2. LedgerInv /\ [Next]_vars => LedgerInv'
  BY StepOfParts, LedgerKept
<1>3. LedgerInv => Ledger!Reconciles
  BY ControlsAgree
<1> QED
  BY <1>1, <1>2, <1>3, PTL DEF Spec

(* What closes moved to retained earnings, less what reversals took back,  *)
(* is never more than the movements earned, though a close is cut short    *)
(* and asked for again, reversed, or follows another on the same day, as   *)
(* long as one admin closes and goes forward in time.                      *)
THEOREM IncomeIsMovedOnce ==
  ASSUME IsFiniteSet(Movement), OneAdmin, Ordered = TRUE
  PROVE  Spec => []Ledger!TransferredOnce
<1> DEFINE Inv == LedgerInv /\ MoneyInv
<1>1. Init => Inv
  BY LedgerStarts, MoneyStarts
<1>2. Inv /\ [Next]_vars => Inv'
  BY StepOfParts, LedgerKept, MoneyKept
<1>3. Inv => Ledger!TransferredOnce
  BY MoneyIsMovedOnce
<1> QED
  BY <1>1, <1>2, <1>3, PTL DEF Spec

(* Money goes where it goes once, and the books follow it: every conjunct  *)
(* of MovedOnce, for any withdrawals, banks, movements, payments, charges, *)
(* payouts, jobs and users.                                                *)
THEOREM MoneyMovesOnce ==
  ASSUME MovedAssumption
  PROVE  Spec => []MovedOnce
<1>1. [Next]_vars => [Disbursement!DisbursementNext]_(Disbursement!disbursementVars)
  BY StepOfParts DEF Disbursement!disbursementVars, disbursementVars
<1>2. Init => Disbursement!DisbursementInit
  BY DEF Init
<1>3. Spec => []Disbursement!OrderedOnce
  <2>1. Disbursement!DisbursementSpec => []Disbursement!OrderedOnce
    BY Disbursement!OneOrderPerBank DEF MovedAssumption
  <2> QED
    BY <1>1, <1>2, <2>1, PTL DEF Spec, Disbursement!DisbursementSpec
<1>4. Spec => []Disbursement!CompletedIsPaid
  <2>1. Disbursement!DisbursementSpec => []Disbursement!CompletedIsPaid
    BY Disbursement!BankWordIsPayment DEF MovedAssumption
  <2> QED
    BY <1>1, <1>2, <2>1, PTL DEF Spec, Disbursement!DisbursementSpec
<1>5. Spec => []Disbursement!PaidNotReturned
  <2>1. Disbursement!DisbursementSpec => []Disbursement!PaidNotReturned
    BY Disbursement!PaidIsKept DEF MovedAssumption
  <2> QED
    BY <1>1, <1>2, <2>1, PTL DEF Spec, Disbursement!DisbursementSpec
<1>6. Spec => []Inflows!CountedOnce
  <2>1. Init => Inflows!InflowInit
    BY DEF Init
  <2>2. [Next]_vars => [Inflows!InflowNext]_(Inflows!inflowVars)
    BY StepOfParts DEF Inflows!inflowVars, inflowsVars
  <2>3. Inflows!InflowSpec => []Inflows!CountedOnce
    BY Inflows!InflowsCountedOnce DEF MovedAssumption
  <2> QED
    BY <2>1, <2>2, <2>3, PTL DEF Spec, Inflows!InflowSpec
<1>7. Spec => []Transit!SentOncePerStop
  BY TransitsSentOncePerStop DEF MovedAssumption
<1>8. Spec => []Ledger!Reconciles
  BY LedgerReconciles DEF MovedAssumption
<1>9. Spec => []Ledger!TransferredOnce
  BY IncomeIsMovedOnce DEF MovedAssumption
<1>10. Spec => []Reminders!RemindedOnce
  BY RemindersGoOnce DEF MovedAssumption
<1> QED
  BY <1>3, <1>4, <1>5, <1>6, <1>7, <1>8, <1>9, <1>10, ConfirmedChargesArePaid,
     PayoutsTransferOnce, GuardedJobsRunAlone, PTL DEF MovedOnce

(* The USDC of a payment buy what its quote promised, for any amounts,     *)
(* market rates, rates at Vita, spreads and tolerance.                     *)
THEOREM PromisesAreBacked ==
  ASSUME QuoteAssumption
  PROVE  Spec => []Quotes!PromiseIsBacked
<1>1. Init => QuoteInv
  BY QuotesStart
<1>2. QuoteInv /\ [Next]_vars => QuoteInv'
  BY StepOfParts, QuoteKept
<1>3. QuoteInv => Quotes!PromiseIsBacked
  BY DEF QuoteInv, Quotes!PromiseIsBacked
<1> QED
  BY <1>1, <1>2, <1>3, PTL DEF Spec

(* A payment that was collected has a beneficiary the rail can pay, for    *)
(* any number of payments under way.                                       *)
THEOREM CollectedCanBePaid ==
  ASSUME RailAssumption
  PROVE  Spec => []HarborRail!CollectedIsPayable
<1>1. Init => RailInv
  BY RailStarts
<1>2. RailInv /\ [Next]_vars => RailInv'
  BY StepOfParts, RailKept
<1>3. RailInv => HarborRail!CollectedIsPayable
  BY DEF RailInv, HarborRail!CollectedIsPayable
<1> QED
  BY <1>1, <1>2, <1>3, PTL DEF Spec

(* What the customer was told before the money was collected can be done.  *)
THEOREM OffersAreExecutable ==
  ASSUME OfferAssumption
  PROVE  Spec => []OfferIsExecutable
<1>1. Spec => []Quotes!PromiseIsBacked
  BY PromisesAreBacked DEF OfferAssumption
<1>2. Spec => []HarborRail!CollectedIsPayable
  BY CollectedCanBePaid DEF OfferAssumption
<1> QED
  BY <1>1, <1>2, PTL DEF OfferIsExecutable

(* The dispatch of a withdrawal, next to whatever else the server does,    *)
(* implements what its user is promised (WithdrawalPromise).               *)
THEOREM WithdrawalPromiseIsKept ==
  ASSUME Disbursement!Sane, Switch = FALSE
  PROVE  Spec => PromiseKept
<1>1. [Next]_vars => [Disbursement!DisbursementNext]_(Disbursement!disbursementVars)
  BY StepOfParts DEF Disbursement!disbursementVars, disbursementVars
<1>2. Init => Disbursement!DisbursementInit
  BY DEF Init
<1>3. Disbursement!DisbursementSpec => Disbursement!PromiseKept
  BY Disbursement!PromiseIsKept
<1> QED
  BY <1>1, <1>2, <1>3, PTL DEF Spec, Disbursement!DisbursementSpec, PromiseKept
=============================================================================
