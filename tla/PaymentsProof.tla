---------------------------- MODULE PaymentsProof -----------------------------
(***************************************************************************)
(* One payment, for any number of handlers, retries, restarts, failed      *)
(* saves and lost answers: its types; nothing is paid out that was not     *)
(* paid in; it is paid out once; "completed" is said of what was           *)
(* delivered; its USDC leaves once.  Each theorem names what it supposes   *)
(* of the corridors and of the admin.                                      *)
(***************************************************************************)
EXTENDS Payments, TLAPS

-----------------------------------------------------------------------------
(* Types: first what the handlers are built from.                          *)

(* The steps of which Handler asks nothing more.                           *)
Plain == Step \ {"admin", "harborLog", "retryMark"}

LEMMA IdleType == Idle \in Handler
BY LimitAssumption DEF Idle, Handler, NoDoc, TransactionDoc, Status, Step, Caller

LEMMA GoesType ==
  ASSUME work \in [Worker -> Handler], NEW w \in Worker, NEW h \in Handler, Goes(w, h)
  PROVE  work' \in [Worker -> Handler]
BY IdleType DEF Goes

LEMMA GotoType ==
  ASSUME work \in [Worker -> Handler], NEW w \in Worker, NEW s \in Plain, Goto(w, s)
  PROVE  work' \in [Worker -> Handler]
<1> DEFINE h == [work[w] EXCEPT !.step = s]
<1>1. h \in Handler
  BY DEF Handler, Plain
<1> QED
  BY <1>1, GoesType DEF Goto

LEMMA MergedType ==
  ASSUME tx \in TransactionDoc, NEW r \in TransactionDoc, NEW d \in TransactionDoc
  PROVE  Merged(r, d) \in TransactionDoc
BY DEF Merged, TransactionDoc

LEMMA SaveType ==
  ASSUME PaymentTypeOK, NEW w \in Worker, NEW d \in TransactionDoc, NEW s \in Plain,
         Save(w, d, s)
  PROVE  PaymentTypeOK'
<1> DEFINE h == [work[w] EXCEPT !.step = s, !.read = d, !.doc = d]
<1>1. work[w] \in Handler
  BY DEF PaymentTypeOK
<1>2. h \in Handler
  BY <1>1 DEF Handler, Plain
<1>3. work' \in [Worker -> Handler]
  BY <1>2, GoesType DEF Save, PaymentTypeOK
<1>4. tx' \in TransactionDoc
  BY <1>1, MergedType DEF Save, PaymentTypeOK, Handler
<1> QED
  BY <1>3, <1>4 DEF PaymentTypeOK, Save, providers

LEMMA FaultType ==
  ASSUME PaymentTypeOK, Fault
  PROVE  faults' \in 0 .. MaxFaults
BY LimitAssumption DEF PaymentTypeOK, Fault

LEMMA LoseType ==
  ASSUME PaymentTypeOK, NEW w \in Worker, NEW d \in TransactionDoc, NEW s \in Plain,
         Lose(w, d, s)
  PROVE  PaymentTypeOK'
<1> DEFINE h == [work[w] EXCEPT !.step = s, !.doc = d]
<1>1. work[w] \in Handler
  BY DEF PaymentTypeOK
<1>2. h \in Handler
  BY <1>1 DEF Handler, Plain
<1>3. work' \in [Worker -> Handler]
  BY <1>2, GoesType DEF Lose, PaymentTypeOK
<1> QED
  BY <1>3, FaultType DEF PaymentTypeOK, Lose, providers

LEMMA SaveOrLoseType ==
  ASSUME PaymentTypeOK, NEW w \in Worker, NEW d \in TransactionDoc, NEW s \in Plain,
         NEW l \in Plain, SaveOrLose(w, d, s, l)
  PROVE  PaymentTypeOK'
BY SaveType, LoseType DEF SaveOrLose

LEMMA ConfirmType ==
  ASSUME PaymentTypeOK, NEW w \in Worker, NEW d \in TransactionDoc, Confirm(w, d)
  PROVE  PaymentTypeOK'
<1> DEFINE h == [work[w] EXCEPT !.step = "gate", !.read = d, !.doc = d,
                                !.caller = "request"]
<1>1. work[w] \in Handler
  BY DEF PaymentTypeOK
<1>2. h \in Handler
  BY ZenonT(60), <1>1 DEF Handler, Step, Caller
<1>3. work' \in [Worker -> Handler]
  BY <1>2, GoesType DEF Confirm, PaymentTypeOK
<1>4. tx' \in TransactionDoc
  BY <1>1, MergedType DEF Confirm, PaymentTypeOK, Handler
<1> QED
  BY <1>3, <1>4 DEF PaymentTypeOK, Confirm, providers

LEMMA LoadType ==
  ASSUME PaymentTypeOK, NEW w \in Worker, NEW s \in Step, NEW a \in Notice \cup Status,
         NEW c \in Caller, Load(w, s, a, c),
         s = "admin" => a \in Status, s = "harborLog" => a \in Notice,
         s = "retryMark" => tx.retries < MaxRetries
  PROVE  PaymentTypeOK'
<1>1. Reads(s, a, c) \in Handler
  BY DEF Reads, Handler, PaymentTypeOK
<1>2. work' \in [Worker -> Handler]
  BY <1>1, GoesType DEF Load, PaymentTypeOK
<1> QED
  BY <1>2 DEF PaymentTypeOK, Load, Still, providers

LEMMA StillType ==
  ASSUME PaymentTypeOK, NEW w \in Worker, NEW s \in Plain, Goto(w, s), Still
  PROVE  PaymentTypeOK'
<1>1. work' \in [Worker -> Handler]
  BY GotoType DEF PaymentTypeOK
<1> QED
  BY <1>1 DEF PaymentTypeOK, Still, providers

-----------------------------------------------------------------------------
(* Types: the actions.                                                     *)

LEMMA EndType ==
  ASSUME PaymentTypeOK, NEW w \in Worker, End(w), Still
  PROVE  PaymentTypeOK'
BY StillType DEF Plain, End, Step

LEMMA PayinStepType ==
  ASSUME PaymentTypeOK, NEW w \in Worker, PayinStep(w)
  PROVE  PaymentTypeOK'
<1> DEFINE d == work[w].doc
<1>d. d \in TransactionDoc /\ work[w].arg \in Notice \cup Status
  BY DEF PaymentTypeOK, Handler
<1>1. CASE uploadPaymentProof(w)
  <2>1. CASE Load(w, "proof", "new", "request")
    BY <2>1, LoadType DEF Step, Status, Caller
  <2> DEFINE e == [d EXCEPT !.proof = TRUE, !.status = IF @ = "pending_comprobante"
                                                       THEN "payin_pending" ELSE @]
  <2>2. e \in TransactionDoc
    BY <1>d DEF TransactionDoc, Status
  <2>3. CASE SaveOrLose(w, e, "idle", "idle")
    BY <2>2, <2>3, SaveOrLoseType DEF Plain, Step
  <2> QED
    BY <1>1, <2>1, <2>3 DEF uploadPaymentProof
<1>2. CASE handleFintocIPN(w)
  <2>1. CASE Load(w, "fintocLog", "payin_completed", "request")
    BY <2>1, LoadType DEF Step, IpnStep, Notice, Caller
  <2> DEFINE e == [d EXCEPT !.log = @ \cup {"payin_completed"}]
  <2>2. e \in TransactionDoc
    BY <1>d DEF TransactionDoc, Notice
  <2>3. CASE SaveOrLose(w, e, "fintocDecide", "fintocDecide")
    BY <2>2, <2>3, SaveOrLoseType DEF Plain, Step, IpnStep
  <2>4. Confirmed(d) \in TransactionDoc
    BY <1>d DEF Confirmed, TransactionDoc, Status
  <2>5. CASE Confirm(w, Confirmed(d))
    BY <2>4, <2>5, ConfirmType
  <2>6. CASE Lose(w, d, "idle")
    BY <1>d, <2>6, LoseType DEF Plain, Step
  <2>7. CASE End(w) /\ Still
    BY <2>7, EndType
  <2> QED
    BY <1>2, <2>1, <2>3, <2>5, <2>6, <2>7 DEF handleFintocIPN
<1>3. CASE vitaDecide(w)
  <2>1. /\ Confirmed(d) \in TransactionDoc
        /\ Failed(d) \in TransactionDoc
        /\ [d EXCEPT !.status = "completed"] \in TransactionDoc
    BY <1>d DEF Confirmed, Failed, TransactionDoc, Status
  <2>2. \/ Confirm(w, Confirmed(d)) \/ Lose(w, d, "idle")
        \/ SaveOrLose(w, [d EXCEPT !.status = "completed"], "idle", "idle")
        \/ SaveOrLose(w, Failed(d), "idle", "idle")
        \/ End(w) /\ Still
    BY <1>3, Zenon DEF vitaDecide
  <2> HIDE DEF d
  <2> QED
    BY <1>d, <2>1, <2>2, ConfirmType, LoseType, SaveOrLoseType, EndType DEF Plain, Step
<1>4. CASE confirmBankQrTx(w)
  <2>1. [Confirmed(d) EXCEPT !.paidAt = TRUE] \in TransactionDoc
    BY <1>d DEF Confirmed, TransactionDoc, Status
  <2> QED
    BY <1>4, <1>d, <2>1, ConfirmType, LoseType DEF Plain, confirmBankQrTx, Step
<1>5. CASE sweepStatus(w)
  <2>1. PICK s \in {"idle", "bankConfirm", "sweepCancel", "sweepFail"} : Goto(w, s)
    BY <1>5 DEF sweepStatus
  <2>2. work' \in [Worker -> Handler]
    BY <2>1, GotoType DEF Plain, PaymentTypeOK, Step
  <2> QED
    BY <1>5, <2>2, FaultType DEF sweepStatus, PaymentTypeOK, providers
<1>6. CASE sweepCancel(w)
  <2>1. work' \in [Worker -> Handler]
    BY <1>6, GotoType DEF Plain, sweepCancel, PaymentTypeOK, Step
  <2> QED
    BY <1>6, <2>1, FaultType DEF sweepCancel, PaymentTypeOK
<1>7. CASE failExpiredBankQrTx(w)
  <2>1. Failed(d) \in TransactionDoc
    BY <1>d DEF Failed, TransactionDoc, Status
  <2> QED
    BY <1>7, <2>1, SaveOrLoseType DEF Plain, failExpiredBankQrTx, Step
<1>8. CASE updateTransactionStatus(w)
  <2>1. CASE Load(w, "admin", "payin_confirmed", "request")
    BY <2>1, LoadType DEF Step, Status, Caller
  <2>2. ASSUME NEW s \in AdminForces, Load(w, "admin", s, "request")
        PROVE  PaymentTypeOK'
    BY <2>2, AdminAssumption, LoadType DEF Step, Caller
  <2>3. CASE At(w, "admin")
    <3>1. \/ SaveOrLose(w, [d EXCEPT !.status = work[w].arg], "idle", "idle")
          \/ Confirm(w, Confirmed(d)) \/ Lose(w, d, "idle")
          \/ End(w) /\ Still
      BY <1>8, <2>3 DEF updateTransactionStatus, At, Load, Free
    <3>2. work[w].arg \in Status
      BY <2>3 DEF At, PaymentTypeOK, Handler
    <3>3. /\ [d EXCEPT !.status = work[w].arg] \in TransactionDoc
          /\ Confirmed(d) \in TransactionDoc
      BY <1>d, <3>2 DEF Confirmed, TransactionDoc, Status
    <3> HIDE DEF d
    <3> QED
      BY <1>d, <3>1, <3>3, ConfirmType, LoseType, SaveOrLoseType, EndType DEF Plain, Step
  <2> QED
    BY <1>8, <2>1, <2>2, <2>3 DEF updateTransactionStatus
<1> QED
  BY <1>1, <1>2, <1>3, <1>4, <1>5, <1>6, <1>7, <1>8 DEF PayinStep

LEMMA PayinStartType ==
  ASSUME PaymentTypeOK, NEW w \in Worker, PayinStart(w)
  PROVE  PaymentTypeOK'
<1>1. CASE initCrossBorderPayment(w)
  <2> DEFINE s == CASE corridor.payin = "walletUSDC" -> "payin_confirmed"
                    [] corridor.payin = "manual" -> "pending_comprobante"
                    [] OTHER -> "payin_pending"
  <2>s. s \in Status /\ tx' = [NoDoc EXCEPT !.status = s]
    BY <1>1 DEF initCrossBorderPayment, Status
  <2> HIDE DEF s
  <2>0. NoDoc \in TransactionDoc
    BY LimitAssumption DEF NoDoc, TransactionDoc, Status
  <2>1. tx' \in TransactionDoc
    BY <2>s, <2>0 DEF TransactionDoc
  <2> DEFINE h == [Idle EXCEPT !.step = "gate", !.caller = "create",
                               !.read = tx', !.doc = tx']
  <2>2. h \in Handler
    BY <2>1, IdleType DEF Idle, Handler, Step, Caller
  <2>3. CASE Goes(w, h) /\ hold' = "held"
    <3>1. work' \in [Worker -> Handler]
      BY <2>2, <2>3, GoesType DEF PaymentTypeOK
    <3> QED
      BY <1>1, <2>1, <2>3, <3>1 DEF initCrossBorderPayment, PaymentTypeOK, providers
  <2>4. CASE UNCHANGED <<hold, work>>
    BY <1>1, <2>1, <2>4 DEF initCrossBorderPayment, PaymentTypeOK, providers
  <2> QED
    BY <1>1, <2>3, <2>4 DEF initCrossBorderPayment
<1>2. ASSUME NEW n \in Notice, handleVitaIPN(w, n)
      PROVE  PaymentTypeOK'
  BY <1>2, LoadType DEF handleVitaIPN, Step, IpnStep, Caller
<1>3. CASE handleBankQrIPN(w) \/ reconcilePaidQRs(w) \/ sweepExpiredQRs(w)
  BY <1>3, LoadType DEF handleBankQrIPN, reconcilePaidQRs, sweepExpiredQRs,
                        Step, Caller, Notice, Status
<1>4. CASE retryPendingFundingTransactions(w)
  <2>1. tx' \in TransactionDoc
    BY <1>4 DEF retryPendingFundingTransactions, Confirmed, TransactionDoc, Status,
                PaymentTypeOK
  <2> DEFINE h == [Idle EXCEPT !.step = "gate", !.read = tx', !.doc = tx']
  <2>2. h \in Handler
    BY <2>1, IdleType DEF Idle, Handler, Step, Caller
  <2>3. work' \in [Worker -> Handler]
    BY <1>4, <2>2, GoesType DEF retryPendingFundingTransactions, PaymentTypeOK
  <2> QED
    BY <1>4, <2>1, <2>3 DEF retryPendingFundingTransactions, PaymentTypeOK, providers
<1> QED
  BY <1>1, <1>2, <1>3, <1>4 DEF PayinStart

LEMMA PayoutStepType ==
  ASSUME PaymentTypeOK, NEW w \in Worker, PayoutStep(w)
  PROVE  PaymentTypeOK'
<1> DEFINE d == work[w].doc
<1>d. work[w] \in Handler /\ d \in TransactionDoc
  BY DEF PaymentTypeOK, Handler
<1>a. /\ After(w) \in Plain
      /\ {"idle", "recover", "owlPay", "vitaPay", "send", "submit", "sent", "create",
          "store", "failTransient", "failOther", "vitaSent", "harborDecide"} \subseteq Plain
  BY DEF After, Plain, Step, IpnStep
<1>s. ASSUME NEW s \in Status
      PROVE  /\ [d EXCEPT !.status = s] \in TransactionDoc
             /\ [d EXCEPT !.ref = TRUE, !.status = s] \in TransactionDoc
             /\ [d EXCEPT !.hash = TRUE, !.status = s] \in TransactionDoc
             /\ [d EXCEPT !.status = s, !.transient = FALSE] \in TransactionDoc
  BY <1>d DEF TransactionDoc
<1>t. {"failed", "pending_funding", "pending_fx_review", "payout_pending", "completed",
       "payout_sent", "refunded", "payout_pending_usdc_send"} \subseteq Status
  BY DEF Status
<1>1. CASE dispatchGate(w)
  <2>1. CASE Goto(w, After(w)) /\ Still
    BY <1>a, <2>1, StillType
  <2>2. CASE tx.status = "payin_confirmed"
    <3>1. tx' \in TransactionDoc
      BY <1>1, <2>2 DEF dispatchGate, TransactionDoc, Status, PaymentTypeOK
    <3> DEFINE h == [work[w] EXCEPT !.step = "route", !.read = tx', !.doc = tx']
    <3>2. h \in Handler
      BY <1>d, <3>1 DEF Handler, Step
    <3>3. work' \in [Worker -> Handler]
      BY <1>1, <2>2, <3>2, GoesType DEF dispatchGate, PaymentTypeOK
    <3> QED
      BY <1>1, <2>2, <3>1, <3>3 DEF dispatchGate, PaymentTypeOK, providers
  <2> QED
    BY <1>1, <2>1, <2>2 DEF dispatchGate
<1>2. CASE dispatchRoute(w)
  <2>1. \/ \E s \in Plain : Goto(w, s) /\ Still
        \/ \E s \in Status : SaveOrLose(w, [d EXCEPT !.status = s], After(w), After(w))
        \/ \E s \in Plain : Lose(w, d, s)
    BY <1>2, <1>a, <1>t DEF dispatchRoute
  <2> HIDE DEF d
  <2> QED
    BY <1>a, <1>d, <1>s, <2>1, StillType, SaveOrLoseType, LoseType
<1>3. CASE dispatchRecover(w)
  <2>1. CASE At(w, "recover")
    <3> DEFINE t == IF tx.status = "processing" THEN "recoverSave" ELSE After(w)
               h == [work[w] EXCEPT !.step = t, !.read = tx, !.doc = tx]
    <3>1. Goes(w, h) /\ Still
      BY <1>3, <2>1 DEF dispatchRecover, At
    <3>t. t \in Plain
      BY <1>a DEF Plain, Step
    <3> HIDE DEF t
    <3>2. h \in Handler
      BY <1>d, <3>t DEF Handler, Plain, PaymentTypeOK
    <3>3. work' \in [Worker -> Handler]
      BY <3>1, <3>2, GoesType DEF PaymentTypeOK
    <3> QED
      BY <3>1, <3>3 DEF PaymentTypeOK, Still, providers
  <2>2. CASE SaveOrLose(w, [d EXCEPT !.status = "failed"], After(w), After(w))
    BY <1>a, <1>s, <1>t, <2>2, SaveOrLoseType
  <2> QED
    BY <1>3, <2>1, <2>2 DEF dispatchRecover
<1>4. CASE settleCreate(w)
  <2>1. CASE Lose(w, d, "idle")
    BY <1>a, <1>d, <2>1, LoseType
  <2>2. CASE End(w) /\ UNCHANGED <<tx, corridor, providers, faults>>
    <3>1. work' \in [Worker -> Handler]
      BY <1>a, <2>2, GotoType DEF End, PaymentTypeOK
    <3>2. hold' \in {"none", "held", "released"}
      BY ZenonT(60), <1>4 DEF settleCreate, PaymentTypeOK, Lose
    <3> QED
      BY <2>2, <3>1, <3>2 DEF PaymentTypeOK, providers
  <2> QED
    BY <1>4, <2>1, <2>2 DEF settleCreate
<1>5. CASE tryOwlPayV2(w) \/ storeTransfer(w) \/ storeSent(w)
  <2>1. \/ \E s \in Plain : Goto(w, s) /\ Still
        \/ \E s \in Status, p, q \in Plain :
              \/ SaveOrLose(w, [d EXCEPT !.status = s], p, q)
              \/ SaveOrLose(w, [d EXCEPT !.ref = TRUE, !.status = s], p, q)
              \/ SaveOrLose(w, [d EXCEPT !.hash = TRUE, !.status = s], p, q)
        \/ \E s \in Plain : Lose(w, d, s)
    BY <1>5, <1>a, <1>t DEF tryOwlPayV2, storeTransfer, storeSent, Throws
  <2> HIDE DEF d
  <2> QED
    BY ZenonT(60), <1>d, <1>s, <2>1, StillType, SaveOrLoseType, LoseType
<1>6. CASE createOwlPayTransfer(w)
  <2>1. PICK s \in Plain : Goto(w, s)
    BY <1>6, <1>a DEF createOwlPayTransfer, Throws
  <2>2. work' \in [Worker -> Handler]
    BY <2>1, GotoType DEF PaymentTypeOK
  <2>3. faults' \in 0 .. MaxFaults
    BY <1>6, FaultType DEF createOwlPayTransfer, PaymentTypeOK
  <2> QED
    BY <1>6, <2>2, <2>3 DEF createOwlPayTransfer, PaymentTypeOK, Notice
<1>7. CASE findTransactionByMemo(w)
  <2>1. (\E s \in Plain : Goto(w, s) /\ Still) \/ Lose(w, d, "submit")
    BY <1>7, <1>a DEF findTransactionByMemo
  <2> HIDE DEF d
  <2> QED
    BY <1>a, <1>d, <2>1, StillType, LoseType
<1>8. CASE submitTransaction(w)
  <2>1. PICK s \in Plain : Goto(w, s)
    BY <1>8, <1>a DEF submitTransaction
  <2>2. work' \in [Worker -> Handler]
    BY <2>1, GotoType DEF PaymentTypeOK
  <2>3. faults' \in 0 .. MaxFaults
    BY <1>8, FaultType DEF submitTransaction, PaymentTypeOK
  <2>4. sends' \in 0 .. 2
    BY <1>8 DEF submitTransaction, PaymentTypeOK, OneMore
  <2> QED
    BY <1>8, <2>2, <2>3, <2>4 DEF submitTransaction, PaymentTypeOK, Notice
<1>9. CASE dispatchFails(w)
  <2> DEFINE again == At(w, "failTransient")
                      /\ (work[w].caller = "retry" => d.retries < MaxRetries)
             e == [d EXCEPT !.status = "failed", !.transient = again]
  <2>1. again \in BOOLEAN
    OBVIOUS
  <2> HIDE DEF again
  <2>2. e \in TransactionDoc
    BY <1>d, <1>t, <2>1 DEF TransactionDoc
  <2>3. (End(w) /\ Still) \/ SaveOrLose(w, e, After(w), After(w))
    BY <1>9 DEF dispatchFails, again
  <2> QED
    BY <1>a, <2>2, <2>3, EndType, SaveOrLoseType
<1>10. CASE createPayout(w)
  <2>1. \/ \E s \in Status, p, q \in Plain : SaveOrLose(w, [d EXCEPT !.status = s], p, q)
        \/ \E s \in Plain : Lose(w, d, s)
        \/ \E s \in Plain : Goto(w, s) /\ Still
        \/ /\ \E s \in Plain : Goto(w, s)
           /\ orders' = OneMore(orders)
           /\ payout' = IF payout = "none" THEN "funded" ELSE payout
           /\ UNCHANGED faults \/ Fault
           /\ UNCHANGED <<tx, corridor, payer, sends, notices, hold>>
    BY <1>10, <1>a, <1>t DEF createPayout
  <2>2. ASSUME NEW s \in Plain, Goto(w, s), orders' = OneMore(orders),
               payout' = IF payout = "none" THEN "funded" ELSE payout,
               UNCHANGED faults \/ Fault,
               UNCHANGED <<tx, corridor, payer, sends, notices, hold>>
        PROVE  PaymentTypeOK'
    <3>1. work' \in [Worker -> Handler]
      BY <2>2, GotoType DEF PaymentTypeOK
    <3>2. faults' \in 0 .. MaxFaults
      BY <2>2, FaultType DEF PaymentTypeOK
    <3>3. orders' \in 0 .. 2
      BY SMTT(60), <2>2 DEF PaymentTypeOK, OneMore
    <3> QED
      BY <2>2, <3>1, <3>2, <3>3 DEF PaymentTypeOK
  <2> HIDE DEF d
  <2> QED
    BY <1>d, <1>s, <2>1, <2>2, StillType, SaveOrLoseType, LoseType
<1>11. CASE storeVitaPayout(w)
  <2>1. \E s \in Status, p, q \in Plain :
          SaveOrLose(w, [d EXCEPT !.ref = TRUE, !.status = s], p, q)
    BY <1>11, <1>a, <1>t DEF storeVitaPayout
  <2> HIDE DEF d
  <2> QED
    BY <1>s, <2>1, SaveOrLoseType
<1>12. CASE harborLog(w)
  <2> DEFINE e == [d EXCEPT !.log = @ \cup {work[w].arg}]
  <2>1. work[w].arg \in Notice
    BY <1>12, <1>d DEF harborLog, At, Handler
  <2>2. e \in TransactionDoc
    BY SMTT(60), <1>d, <2>1 DEF TransactionDoc
  <2>3. SaveOrLose(w, e, "harborDecide", "harborDecide")
    BY ZenonT(60), <1>12 DEF harborLog
  <2> QED
    BY <1>a, <2>2, <2>3, SaveOrLoseType
<1>13. CASE harborDecide(w)
  <2>1. \/ \E s \in Status : SaveOrLose(w, [d EXCEPT !.status = s], "idle", "idle")
        \/ SaveOrLose(w, d, "idle", "idle")
        \/ End(w) /\ Still
    BY ZenonT(60), <1>13, <1>t DEF harborDecide
  <2> HIDE DEF d
  <2> QED
    BY <1>a, <1>d, <1>s, <2>1, SaveOrLoseType, EndType
<1>14. CASE pollHarbor(w)
  <2> DEFINE moved == CASE payout = "completed" -> "completed"
                        [] payout \in {"failed", "expired"} -> "failed"
                        [] payout = "refunded" -> "refunded"
                        [] OTHER -> "payout_sent"
  <2>1. moved \in Status
    BY <1>t
  <2>2. \/ SaveOrLose(w, [d EXCEPT !.status = moved], "idle", "idle")
        \/ SaveOrLose(w, GivesUp(d), "idle", "idle")
        \/ Lose(w, d, "idle")
    BY ZenonT(60), <1>14 DEF pollHarbor
  <2> HIDE DEF d, moved
  <2> QED
    BY <1>a, <1>d, <1>s, <1>t, <2>1, <2>2, SaveOrLoseType, LoseType DEF GivesUp
<1>15. CASE handleHarborReversal(w) \/ handleVitaReversal(w)
  <2>1. \/ SaveOrLose(w, GivesUp(d), "idle", "idle")
        \/ End(w) /\ Still
        \/ Lose(w, d, "idle")
    BY <1>15 DEF handleHarborReversal, handleVitaReversal
  <2> HIDE DEF d
  <2> QED
    BY <1>a, <1>d, <1>s, <1>t, <2>1, SaveOrLoseType, EndType, LoseType DEF GivesUp
<1>16. CASE markRetry(w)
  <2>1. CASE End(w) /\ Still
    BY <2>1, EndType
  <2> DEFINE e == [d EXCEPT !.retries = @ + 1]
  <2>2. ASSUME NEW s \in Throws, SaveOrLose(w, e, "owlPay", s)
        PROVE  PaymentTypeOK'
    <3>1. d.retries < MaxRetries
      BY <1>16, <1>d DEF markRetry, At, Handler, End, Goto
    <3>2. e \in TransactionDoc
      BY SMTT(60), <1>d, <3>1, LimitAssumption DEF TransactionDoc
    <3> QED
      BY <1>a, <2>2, <3>2, SaveOrLoseType DEF Throws
  <2> QED
    BY <1>16, <2>1, <2>2 DEF markRetry
<1>17. CASE pollVita(w)
  <2>1. \/ SaveOrLose(w, [d EXCEPT !.status = "completed"], "idle", "idle")
        \/ SaveOrLose(w, GivesUp(d), "idle", "idle")
        \/ End(w) /\ Still
        \/ Lose(w, d, "idle")
    BY <1>17 DEF pollVita, finalizeVitaCompleted
  <2> HIDE DEF d
  <2> QED
    BY <1>a, <1>d, <1>s, <1>t, <2>1, SaveOrLoseType, EndType, LoseType DEF GivesUp
<1> QED
  BY <1>1, <1>2, <1>3, <1>4, <1>5, <1>6, <1>7, <1>8, <1>9, <1>10, <1>11, <1>12, <1>13,
     <1>14, <1>15, <1>16, <1>17
  DEF PayoutStep

LEMMA PayoutStartType ==
  ASSUME PaymentTypeOK, NEW w \in Worker, PayoutStart(w)
  PROVE  PaymentTypeOK'
<1>1. ASSUME NEW n \in Notice, handleOwlPayIPN(w, n)
      PROVE  PaymentTypeOK'
  BY <1>1, LoadType DEF handleOwlPayIPN, Step, IpnStep, Caller
<1>2. CASE reconcileHarborTransfers(w) \/ reconcileVitaTransfers(w)
  BY <1>2, LoadType DEF reconcileHarborTransfers, reconcileVitaTransfers,
                        Step, Caller, Status
<1>3. CASE retryFailed(w)
  BY <1>3, LoadType DEF retryFailed, Step, Caller, Status
<1>4. CASE resumeUsdcSend(w)
  BY <1>4, LoadType DEF resumeUsdcSend, Step, Caller, Status
<1> QED
  BY <1>1, <1>2, <1>3, <1>4 DEF PayoutStart

LEMMA NextType ==
  ASSUME PaymentTypeOK, [Next]_paymentVars
  PROVE  PaymentTypeOK'
<1>1. CASE UNCHANGED paymentVars
  BY <1>1 DEF paymentVars, PaymentTypeOK
<1>2. CASE cleanupOrphanTransactions
  <2>1. tx' \in TransactionDoc
    BY <1>2 DEF cleanupOrphanTransactions, PaymentTypeOK, TransactionDoc, Status
  <2> QED
    BY <1>2, <2>1 DEF cleanupOrphanTransactions, PaymentTypeOK, providers
<1>3. CASE collect
  BY <1>3 DEF collect, PaymentTypeOK, Notice
<1>4. CASE payoutEnds \/ payoutReverts
  BY <1>4 DEF payoutEnds, payoutReverts, PaymentTypeOK, Notice
<1>5. CASE Restart
  BY <1>5, IdleType, FaultType DEF Restart, PaymentTypeOK, providers
<1> QED
  BY <1>1, <1>2, <1>3, <1>4, <1>5, PayinStepType, PayinStartType, PayoutStepType,
     PayoutStartType
  DEF Next, WorkerStep, WorkerStart

(* The document, the handlers and what the providers know keep their types *)
(* through every handler and job; in particular the retries of a failed    *)
(* payment never pass MAX_RECONCILE_RETRIES.                               *)
THEOREM PaymentTypes == Spec => []PaymentTypeOK
<1>1. Init => PaymentTypeOK
  <2>1. NoDoc \in TransactionDoc
    BY LimitAssumption DEF NoDoc, TransactionDoc, Status
  <2> QED
    BY <2>1, IdleType, LimitAssumption DEF Init, StoreInit, PaymentTypeOK
<1>2. PaymentTypeOK /\ [Next]_paymentVars => PaymentTypeOK'
  BY NextType
<1> QED
  BY <1>1, <1>2, PTL DEF Spec

-----------------------------------------------------------------------------
(* Who has paid stays paid.                                                *)
LEMMA PaidStays ==
  ASSUME Paid, [Next]_paymentVars
  PROVE  Paid'
<1>1. CASE UNCHANGED paymentVars
  BY <1>1 DEF Paid, paymentVars
<1>2. CASE collect \/ cleanupOrphanTransactions \/ payoutEnds \/ payoutReverts \/ Restart
  BY <1>2 DEF Paid, collect, cleanupOrphanTransactions, payoutEnds, payoutReverts,
              Restart, providers
<1>3. ASSUME NEW w \in Worker, PayinStep(w) \/ PayinStart(w)
      PROVE  Paid'
  <2> USE DEF Paid, providers, Still, Load, Save, Lose, SaveOrLose, Confirm
  <2>1. CASE uploadPaymentProof(w) \/ handleFintocIPN(w)
    BY <2>1 DEF uploadPaymentProof, handleFintocIPN
  <2>2. CASE vitaDecide(w)
    BY <2>2 DEF vitaDecide
  <2>3. CASE confirmBankQrTx(w) \/ failExpiredBankQrTx(w)
    BY <2>3 DEF confirmBankQrTx, failExpiredBankQrTx
  <2>4. CASE sweepStatus(w) \/ sweepCancel(w)
    BY <2>4 DEF sweepStatus, sweepCancel
  <2>5. CASE updateTransactionStatus(w)
    BY <2>5 DEF updateTransactionStatus
  <2>6. CASE initCrossBorderPayment(w)
    BY <2>6 DEF initCrossBorderPayment
  <2>7. ASSUME NEW n \in Notice, handleVitaIPN(w, n)
        PROVE  Paid'
    BY <2>7 DEF handleVitaIPN
  <2>8. CASE handleBankQrIPN(w) \/ reconcilePaidQRs(w) \/ sweepExpiredQRs(w)
    BY <2>8 DEF handleBankQrIPN, reconcilePaidQRs, sweepExpiredQRs
  <2>9. CASE retryPendingFundingTransactions(w)
    BY <2>9 DEF retryPendingFundingTransactions
  <2> QED
    BY <1>3, <2>1, <2>2, <2>3, <2>4, <2>5, <2>6, <2>7, <2>8, <2>9
    DEF PayinStep, PayinStart
<1>4. ASSUME NEW w \in Worker, PayoutStep(w)
      PROVE  Paid'
  <2> USE DEF Paid, providers, Still, Load, Save, Lose, SaveOrLose
  <2>1. CASE dispatchGate(w) \/ dispatchRoute(w) \/ dispatchRecover(w)
    BY <2>1 DEF dispatchGate, dispatchRoute, dispatchRecover
  <2>2. CASE settleCreate(w)
    BY <2>2 DEF settleCreate
  <2>3. CASE tryOwlPayV2(w) \/ createOwlPayTransfer(w) \/ storeTransfer(w)
    BY <2>3 DEF tryOwlPayV2, createOwlPayTransfer, storeTransfer
  <2>4. CASE findTransactionByMemo(w) \/ submitTransaction(w) \/ storeSent(w)
    BY <2>4 DEF findTransactionByMemo, submitTransaction, storeSent
  <2>5. CASE dispatchFails(w) \/ createPayout(w) \/ storeVitaPayout(w)
    BY <2>5 DEF dispatchFails, createPayout, storeVitaPayout
  <2>6. CASE harborLog(w) \/ harborDecide(w)
    BY <2>6 DEF harborLog, harborDecide
  <2>7. CASE pollHarbor(w) \/ handleHarborReversal(w) \/ markRetry(w)
    BY <2>7 DEF pollHarbor, handleHarborReversal, markRetry
  <2>8. CASE pollVita(w) \/ handleVitaReversal(w)
    BY <2>8 DEF pollVita, handleVitaReversal
  <2> QED
    BY <1>4, <2>1, <2>2, <2>3, <2>4, <2>5, <2>6, <2>7, <2>8 DEF PayoutStep
<1>5. ASSUME NEW w \in Worker, PayoutStart(w)
      PROVE  Paid'
  BY <1>5 DEF PayoutStart, handleOwlPayIPN, reconcileHarborTransfers, retryFailed,
              resumeUsdcSend, reconcileVitaTransfers, Load, Paid, providers, Still
<1> QED
  BY <1>1, <1>2, <1>3, <1>4, <1>5 DEF Next, WorkerStep, WorkerStart

-----------------------------------------------------------------------------
(* An unpaid payment stays unstarted.                                      *)

LEMMA UnpaidIdle == UnpaidHandler(Idle)
BY DEF UnpaidHandler, Idle, NoDoc, UnpaidDoc, BeforePayin, StartsPayout

LEMMA UnpaidGoes ==
  ASSUME PaymentTypeOK, Unstarted, NEW w \in Worker, NEW h, UnpaidHandler(h), Goes(w, h)
  PROVE  \A v \in Worker : UnpaidHandler(work'[v])
BY UnpaidIdle DEF Goes, PaymentTypeOK, Unstarted

LEMMA UnpaidGoto ==
  ASSUME PaymentTypeOK, Unstarted, NEW w \in Worker,
         NEW s \in BeforePayin \ {"vitaDecide", "admin"}, Goto(w, s)
  PROVE  \A v \in Worker : UnpaidHandler(work'[v])
<1> DEFINE h == [work[w] EXCEPT !.step = s]
<1>1. UnpaidHandler(h)
  BY DEF PaymentTypeOK, Handler, Unstarted, UnpaidHandler
<1> QED
  BY <1>1, UnpaidGoes DEF Goto

LEMMA UnpaidStill ==
  ASSUME PaymentTypeOK, Unstarted, NEW w \in Worker, End(w), Still
  PROVE  Unstarted'
<1>1. \A v \in Worker : UnpaidHandler(work'[v])
  BY UnpaidGoto DEF End, BeforePayin
<1> QED
  BY <1>1 DEF Unstarted, Still, providers

LEMMA UnpaidLoad ==
  ASSUME PaymentTypeOK, Unstarted, NEW w \in Worker, NEW s \in BeforePayin, NEW a, NEW c,
         s = "vitaDecide" => a = "payin_denied",
         s = "admin" => a \notin StartsPayout,
         Load(w, s, a, c)
  PROVE  Unstarted'
<1>1. UnpaidHandler(Reads(s, a, c))
  BY DEF Reads, UnpaidHandler, Unstarted
<1>2. \A v \in Worker : UnpaidHandler(work'[v])
  BY <1>1, UnpaidGoes DEF Load
<1> QED
  BY <1>2 DEF Unstarted, Load, Still, providers

LEMMA UnpaidSaveOrLose ==
  ASSUME PaymentTypeOK, Unstarted, NEW w \in Worker, NEW d \in TransactionDoc,
         UnpaidDoc(d), SaveOrLose(w, d, "idle", "idle")
  PROVE  Unstarted'
<1>1. CASE Save(w, d, "idle")
  <2> DEFINE h == [work[w] EXCEPT !.step = "idle", !.read = d, !.doc = d]
  <2>1. UnpaidHandler(h)
    BY DEF PaymentTypeOK, Handler, Unstarted, UnpaidHandler, BeforePayin
  <2>2. \A v \in Worker : UnpaidHandler(work'[v])
    BY <1>1, <2>1, UnpaidGoes DEF Save
  <2>3. UnpaidDoc(tx')
    BY <1>1 DEF Save, Merged, UnpaidDoc, Unstarted
  <2> QED
    BY <1>1, <2>2, <2>3 DEF Unstarted, Save, providers
<1>2. CASE Lose(w, d, "idle")
  <2> DEFINE h == [work[w] EXCEPT !.step = "idle", !.doc = d]
  <2>1. UnpaidHandler(h)
    BY DEF PaymentTypeOK, Handler, Unstarted, UnpaidHandler, BeforePayin
  <2>2. \A v \in Worker : UnpaidHandler(work'[v])
    BY <1>2, <2>1, UnpaidGoes DEF Lose
  <2> QED
    BY <1>2, <2>2 DEF Unstarted, Lose, providers
<1> QED
  BY <1>1, <1>2 DEF SaveOrLose

LEMMA PayinStepUnpaid ==
  ASSUME PaymentTypeOK, Unstarted, ~Paid, "pending_funding" \notin AdminForces,
         NEW w \in Worker, PayinStep(w)
  PROVE  Unstarted'
<1> DEFINE d == work[w].doc
<1>d. /\ d \in TransactionDoc
      /\ UnpaidDoc(d)
      /\ work[w].step \in BeforePayin
      /\ work[w].step = "vitaDecide" => work[w].arg = "payin_denied"
      /\ work[w].step = "admin" => work[w].arg \in Status \ StartsPayout
  BY DEF PaymentTypeOK, Handler, Unstarted, UnpaidHandler
<1>f. Failed(d) \in TransactionDoc /\ UnpaidDoc(Failed(d))
  BY <1>d DEF Failed, TransactionDoc, Status, UnpaidDoc, StartsPayout
<1>1. CASE uploadPaymentProof(w)
  <2> DEFINE e == [d EXCEPT !.proof = TRUE, !.status = IF @ = "pending_comprobante"
                                                       THEN "payin_pending" ELSE @]
  <2>1. e \in TransactionDoc /\ UnpaidDoc(e)
    BY <1>d DEF TransactionDoc, Status, UnpaidDoc, StartsPayout
  <2>2. Load(w, "proof", "new", "request") \/ SaveOrLose(w, e, "idle", "idle")
    BY <1>1 DEF uploadPaymentProof
  <2> HIDE DEF e
  <2> QED
    BY <2>1, <2>2, UnpaidLoad, UnpaidSaveOrLose DEF BeforePayin
<1>2. CASE handleFintocIPN(w)
  BY <1>2, <1>d DEF handleFintocIPN, Unstarted, At, BeforePayin
<1>3. CASE vitaDecide(w)
  <2>1. work[w].arg = "payin_denied"
    BY <1>3, <1>d DEF vitaDecide, At
  <2>2. SaveOrLose(w, Failed(d), "idle", "idle") \/ (End(w) /\ Still)
    BY <1>3, <2>1, Zenon DEF vitaDecide
  <2> HIDE DEF d
  <2> QED
    BY <1>f, <2>2, UnpaidSaveOrLose, UnpaidStill
<1>4. CASE confirmBankQrTx(w)
  BY <1>4, <1>d DEF confirmBankQrTx, At, BeforePayin
<1>5. CASE sweepStatus(w)
  <2>1. PICK s \in {"idle", "sweepCancel", "sweepFail"} : Goto(w, s)
    BY <1>5 DEF sweepStatus, Paid
  <2>2. \A v \in Worker : UnpaidHandler(work'[v])
    BY <2>1, UnpaidGoto DEF BeforePayin
  <2> QED
    BY <1>5, <2>2 DEF sweepStatus, Unstarted, providers
<1>6. CASE sweepCancel(w)
  <2>1. \A v \in Worker : UnpaidHandler(work'[v])
    BY <1>6, UnpaidGoto DEF sweepCancel, BeforePayin
  <2> QED
    BY <1>6, <2>1 DEF sweepCancel, Unstarted
<1>7. CASE failExpiredBankQrTx(w)
  BY <1>7, <1>f, UnpaidSaveOrLose DEF failExpiredBankQrTx
<1>8. CASE updateTransactionStatus(w)
  <2>1. ~(payer = "paid")
    BY DEF Paid
  <2>2. ASSUME NEW s \in AdminForces, Load(w, "admin", s, "request")
        PROVE  Unstarted'
    BY <2>2, AdminAssumption, UnpaidLoad DEF BeforePayin, StartsPayout
  <2>3. CASE At(w, "admin")
    <3> DEFINE e == [d EXCEPT !.status = work[w].arg]
    <3>1. work[w].arg \in Status \ StartsPayout
      BY <1>d, <2>3 DEF At
    <3>2. e \in TransactionDoc /\ UnpaidDoc(e)
      BY <1>d, <3>1 DEF TransactionDoc, UnpaidDoc
    <3>3. SaveOrLose(w, e, "idle", "idle")
      BY <1>8, <2>3, <3>1 DEF updateTransactionStatus, At, Load, Free, StartsPayout
    <3> HIDE DEF e
    <3> QED
      BY <3>2, <3>3, UnpaidSaveOrLose
  <2> QED
    BY <1>8, <2>1, <2>2, <2>3 DEF updateTransactionStatus
<1> QED
  BY <1>1, <1>2, <1>3, <1>4, <1>5, <1>6, <1>7, <1>8 DEF PayinStep

LEMMA PayinStartUnpaid ==
  ASSUME PaymentTypeOK, Unstarted, ~Paid, ~Paid', NEW w \in Worker, PayinStart(w)
  PROVE  Unstarted'
<1>1. CASE initCrossBorderPayment(w)
  <2>1. /\ corridor.payin # "walletUSDC"
        /\ UNCHANGED <<work, hold>>
    BY <1>1 DEF initCrossBorderPayment, Paid
  <2>2. PICK s \in {"pending_comprobante", "payin_pending"} : tx' = [NoDoc EXCEPT !.status = s]
    BY <1>1, <2>1 DEF initCrossBorderPayment
  <2>3. UnpaidDoc(tx')
    BY <2>2 DEF NoDoc, UnpaidDoc, StartsPayout
  <2> QED
    BY <1>1, <2>1, <2>3 DEF initCrossBorderPayment, Unstarted, providers
<1>2. ASSUME NEW n \in Notice, handleVitaIPN(w, n)
      PROVE  Unstarted'
  <2>1. n = "payin_denied"
    BY <1>2 DEF handleVitaIPN, Unstarted
  <2> QED
    BY <1>2, <2>1, UnpaidLoad DEF handleVitaIPN, BeforePayin
<1>3. CASE handleBankQrIPN(w) \/ reconcilePaidQRs(w)
  BY <1>3 DEF handleBankQrIPN, reconcilePaidQRs, Unstarted, Paid
<1>4. CASE sweepExpiredQRs(w)
  BY <1>4, UnpaidLoad DEF sweepExpiredQRs, BeforePayin
<1>5. CASE retryPendingFundingTransactions(w)
  BY <1>5 DEF retryPendingFundingTransactions, Unstarted, UnpaidDoc, StartsPayout
<1> QED
  BY <1>1, <1>2, <1>3, <1>4, <1>5 DEF PayinStart

(* Every step of a payout is past the payin, and every job that starts one *)
(* needs a document that is.                                               *)
LEMMA NoPayoutUnpaid ==
  ASSUME Unstarted, NEW w \in Worker
  PROVE  ~PayoutStep(w) /\ ~PayoutStart(w)
<1>1. work[w].step \in BeforePayin
  BY DEF Unstarted, UnpaidHandler
<1>2. ~PayoutStep(w)
  BY <1>1 DEF PayoutStep, At, BeforePayin, Throws, dispatchGate, dispatchRoute,
     dispatchRecover, settleCreate, tryOwlPayV2, createOwlPayTransfer, storeTransfer,
     findTransactionByMemo, submitTransaction, storeSent, dispatchFails, createPayout,
     storeVitaPayout, harborLog, harborDecide, pollHarbor, handleHarborReversal,
     markRetry, pollVita, handleVitaReversal
<1>3. ~PayoutStart(w)
  BY DEF PayoutStart, Unstarted, UnpaidDoc, handleOwlPayIPN, HarborNotice,
     reconcileHarborTransfers, retryFailed, resumeUsdcSend, reconcileVitaTransfers
<1> QED
  BY <1>2, <1>3

LEMMA StaysUnstarted ==
  ASSUME PaymentTypeOK, Unstarted, ~Paid, ~Paid', "pending_funding" \notin AdminForces,
         [Next]_paymentVars
  PROVE  Unstarted'
<1>1. CASE UNCHANGED paymentVars
  BY <1>1 DEF paymentVars, Unstarted
<1>2. CASE cleanupOrphanTransactions
  <2>1. UnpaidDoc(tx')
    BY <1>2 DEF cleanupOrphanTransactions, PaymentTypeOK, TransactionDoc, Unstarted,
                UnpaidDoc, StartsPayout
  <2> QED
    BY <1>2, <2>1 DEF cleanupOrphanTransactions, Unstarted, providers
<1>3. CASE collect
  BY <1>3 DEF collect, Paid, Unstarted
<1>4. CASE payoutEnds \/ payoutReverts
  BY <1>4 DEF payoutEnds, payoutReverts, Unstarted
<1>5. CASE Restart
  BY <1>5, UnpaidIdle DEF Restart, Unstarted, providers
<1> QED
  BY <1>1, <1>2, <1>3, <1>4, <1>5, PayinStepUnpaid, PayinStartUnpaid, NoPayoutUnpaid
  DEF Next, WorkerStep, WorkerStart

(* As long as nobody has paid, no document, copy of it or handler is past  *)
(* the payin: holds for every corridor, number of handlers, retries and    *)
(* faults, unless an admin may put an unpaid payment in pending_funding.   *)
THEOREM UnpaidIsUnstarted ==
  ASSUME "pending_funding" \notin AdminForces
  PROVE  Spec => []PaidOrUnstarted
<1>1. Init => PaidOrUnstarted
  BY UnpaidIdle DEF Init, StoreInit, PaidOrUnstarted, Unstarted, NoDoc, UnpaidDoc, StartsPayout
<1>2. PaymentTypeOK /\ PaidOrUnstarted /\ [Next]_paymentVars => PaidOrUnstarted'
  BY PaidStays, StaysUnstarted DEF PaidOrUnstarted
<1> QED
  BY <1>1, <1>2, PaymentTypes, PTL DEF Spec

(* Nothing is paid out, on either rail, that was not paid in: no order at  *)
(* Vita, transfer at Harbor or USDC on Stellar before the bank or provider *)
(* collected or the wallet reserve was made.                               *)
THEOREM NothingPaidOutUnpaid ==
  ASSUME "pending_funding" \notin AdminForces
  PROVE  Spec => []BackedByPayin
<1>1. PaidOrUnstarted => BackedByPayin
  BY DEF PaidOrUnstarted, Paid, Unstarted, BackedByPayin
<1> QED
  BY <1>1, UnpaidIsUnstarted, PTL

-----------------------------------------------------------------------------
(* Paid out once.                                                          *)


(* Once: a payment leaves once.  Its status says whether the payout was    *)
(* begun; at most one handler at a time confirms it or dispatches it.      *)
OnceRails ==
  /\ Queued = TRUE
  /\ HorizonAnswers = TRUE
  /\ \A c \in Corridor : c.payin \in {"walletUSDC", "vita", "fintoc"}
  /\ AdminForces \cap (VitaPayinStates \cup {"pending_funding"}) = {}

Awaiting == {"new", "pending", "initiated", "pending_comprobante", "payin_pending"}
Unsent == Awaiting \cup {"payin_confirmed", "pending_funding"}
Underway == (Dispatching \ {"settle"}) \cup {"retryMark"}

(* A handler that may confirm the payin, or that dispatches the payout.    *)
Confirming(h) ==
  h.step \in {"fintocLog", "fintocDecide", "vitaDecide"} /\ h.doc.status \in Awaiting
Active(h) == h.step \in Underway \/ Confirming(h)

NothingOut == orders = 0 /\ sends = 0 /\ ~tx.ref
Untried == NothingOut /\ payout = "none" /\ ~tx.transient

OneActive == \A v, w \in Worker : Active(work[v]) /\ Active(work[w]) => v = w

(* What the document and the providers say of each other.                  *)
DocTells ==
  /\ tx.status \in Unsent => NothingOut
  /\ tx.status \in Awaiting => Untried
  /\ sends # 0 => sends = 1 /\ tx.ref /\ corridor.payout = "owlPay"
  /\ orders # 0 => orders = 1 /\ corridor.payout = "vitaWallet"
  /\ "completed" \in notices \/ "failed" \in notices => payout # "none"

(* What the document's status says of a handler.                           *)
StatusTells(h) ==
  /\ tx.status \in Awaiting => h.step \notin Underway
  /\ tx.status \in {"new", "pending_funding"} => ~Active(h)
  /\ tx.status = "payin_confirmed" /\ Active(h) => h.step = "gate"

Kept(h) ==
  h.doc.status = h.read.status /\ h.doc.ref = h.read.ref /\ h.doc.transient = h.read.transient

(* What the step of a handler says.                                        *)
StepTells(h) ==
  /\ h.step \notin {"proof", "bankConfirm", "sweepStatus", "sweepCancel", "sweepFail"}
  /\ h.read.ref => h.doc.ref
  /\ h.step = "admin" => h.arg \in AdminForces
  /\ h.step \in {"fintocLog", "fintocDecide"} => corridor.payin = "fintoc"
  /\ Confirming(h) => Untried /\ (h.step = "vitaDecide" => corridor.payin = "vita")
  /\ h.step \notin Dispatching => Kept(h)
  /\ h.step = "retryMark" => h.caller = "retry"
  /\ h.step \in {"route", "owlPay", "create", "store", "vitaPay", "retryMark"} =>
       ~tx.ref /\ ~h.doc.ref /\ ~h.read.ref
  /\ h.step \in {"route", "vitaPay"} => orders = 0
  /\ h.step = "submit" => sends = 0
  /\ h.step \in {"owlPay", "create", "store", "send", "submit", "sent", "retryMark"} =>
       corridor.payout = "owlPay"
  /\ h.step = "vitaPay" => corridor.payout = "vitaWallet"
  /\ h.step \in {"send", "submit", "sent"} => tx.ref

HandlerTells(h) == StatusTells(h) /\ StepTells(h)

OnceInv ==
  /\ OneActive
  /\ DocTells
  /\ \A w \in Worker : HandlerTells(work[w])

-----------------------------------------------------------------------------
LEMMA IdleTells == HandlerTells(Idle) /\ ~Active(Idle)
BY DEF HandlerTells, StatusTells, StepTells, Active, Confirming, Underway, Dispatching, Idle,
       NoDoc, Kept

LEMMA IdleTellsNext == HandlerTells(Idle)'
BY DEF HandlerTells, StatusTells, StepTells, Active, Confirming, Underway, Dispatching, Idle,
       NoDoc, Kept

(* A handler that is not active does not mind what the others write.       *)
LEMMA InactiveTells ==
  ASSUME NEW h, HandlerTells(h), ~Active(h), corridor' = corridor
  PROVE  HandlerTells(h)'
BY DEF HandlerTells, StatusTells, StepTells, Active, Confirming, Underway, Dispatching, Kept

(* The step of a handler next to which nobody is active.                   *)
LEMMA AloneKeeps ==
  ASSUME PaymentTypeOK, OnceInv, NEW w \in Worker, NEW h, Goes(w, h), corridor' = corridor,
         \A v \in Worker : v # w => ~Active(work[v]),
         DocTells', h.step # "idle" => HandlerTells(h)'
  PROVE  OnceInv'
<1>1. \A v \in Worker : v # w => work'[v] = work[v] /\ HandlerTells(work[v])'
  BY InactiveTells DEF Goes, PaymentTypeOK, OnceInv
<1>2. HandlerTells(work[w])'
  BY IdleTellsNext DEF Goes, PaymentTypeOK
<1>3. \A v \in Worker : HandlerTells(work[v])'
  BY <1>1, <1>2
<1>4. OneActive'
  BY <1>1 DEF OneActive
<1> QED
  BY <1>3, <1>4 DEF OnceInv

(* The step of a handler that becomes no more active than it is, and       *)
(* leaves the others what they rely on.                                    *)
Calm ==
  /\ UNCHANGED <<corridor, orders, sends, payout>>
  /\ tx'.ref = tx.ref
  /\ tx'.transient => tx.transient
  /\ tx'.status = tx.status \/ tx'.status \notin Unsent

LEMMA CalmTells ==
  ASSUME NEW h, HandlerTells(h), Calm
  PROVE  HandlerTells(h)'
BY DEF HandlerTells, StatusTells, StepTells, Active, Confirming, Kept, Calm, Untried, NothingOut,
       Awaiting, Unsent

LEMMA CalmDoc ==
  ASSUME DocTells, Calm, UNCHANGED notices
  PROVE  DocTells'
BY DEF DocTells, Calm, Untried, NothingOut, Unsent, Awaiting

LEMMA CalmKeeps ==
  ASSUME PaymentTypeOK, OnceInv, NEW w \in Worker, NEW h, Goes(w, h), Calm, UNCHANGED notices,
         h.step # "idle" => HandlerTells(h)' /\ (Active(h) => Active(work[w]))
  PROVE  OnceInv'
<1>1. \A v \in Worker : v # w => work'[v] = work[v] /\ HandlerTells(work[v])'
  BY CalmTells DEF Goes, PaymentTypeOK, OnceInv
<1>2. HandlerTells(work[w])'
  BY IdleTellsNext DEF Goes, PaymentTypeOK
<1>3. \A v \in Worker : HandlerTells(work[v])'
  BY <1>1, <1>2
<1>4. Active(work'[w]) => Active(work[w])
  BY IdleTells DEF Goes, PaymentTypeOK
<1>5. OneActive'
  BY <1>1, <1>4 DEF OneActive, OnceInv, Active, Confirming
<1>6. DocTells'
  BY CalmDoc DEF OnceInv, Calm
<1> QED
  BY <1>3, <1>5, <1>6 DEF OnceInv

(* What a save writes, and what a lost one does not.                       *)
LEMMA SaveFacts ==
  ASSUME PaymentTypeOK, NEW w \in Worker, NEW d \in TransactionDoc, NEW s, Save(w, d, s)
  PROVE  /\ UNCHANGED <<corridor, payer, payout, orders, sends, notices, hold, faults>>
         /\ tx'.status = IF d.status # work[w].read.status THEN d.status ELSE tx.status
         /\ tx'.ref = IF d.ref # work[w].read.ref THEN d.ref ELSE tx.ref
         /\ tx'.transient = IF d.transient # work[w].read.transient THEN d.transient ELSE tx.transient
         /\ \E h : /\ Goes(w, h) /\ h.step = s /\ h.read = d /\ h.doc = d
                   /\ h.arg = work[w].arg /\ h.caller = work[w].caller
<1> DEFINE h == [work[w] EXCEPT !.step = s, !.read = d, !.doc = d]
<1>1. h.step = s /\ h.read = d /\ h.doc = d /\ h.arg = work[w].arg /\ h.caller = work[w].caller
  BY DEF PaymentTypeOK, Handler
<1>2. Goes(w, h)
  BY DEF Save
<1> HIDE DEF h
<1> QED
  BY <1>1, <1>2 DEF Save, Merged, providers

LEMMA SaveMoves ==
  ASSUME PaymentTypeOK, NEW w \in Worker, NEW d \in TransactionDoc, NEW s, Save(w, d, s)
  PROVE  /\ tx'.status \in {d.status, tx.status}
         /\ (work[w].read.ref => d.ref) => (tx.ref => tx'.ref)
         /\ ~work[w].read.ref /\ ~d.ref => tx'.ref = tx.ref
<1> DEFINE r == work[w].read
<1>1. /\ tx'.status = IF d.status # r.status THEN d.status ELSE tx.status
      /\ tx'.ref = IF d.ref # r.ref THEN d.ref ELSE tx.ref
  BY SaveFacts
<1>2. r.ref \in BOOLEAN /\ d.ref \in BOOLEAN /\ tx.ref \in BOOLEAN
  BY DEF PaymentTypeOK, Handler, TransactionDoc
<1> HIDE DEF r
<1>3. (r.ref => d.ref) => (tx.ref => tx'.ref)
  BY <1>1, <1>2
<1>4. ~r.ref /\ ~d.ref => tx'.ref = tx.ref
  BY <1>1, <1>2
<1> QED
  BY <1>1, <1>3, <1>4 DEF r

LEMMA LoseFacts ==
  ASSUME PaymentTypeOK, NEW w \in Worker, NEW d \in TransactionDoc, NEW s, Lose(w, d, s)
  PROVE  /\ UNCHANGED <<tx, corridor, payer, payout, orders, sends, notices, hold>>
         /\ \E h : /\ Goes(w, h) /\ h.step = s /\ h.read = work[w].read /\ h.doc = d
                   /\ h.arg = work[w].arg /\ h.caller = work[w].caller
<1> DEFINE h == [work[w] EXCEPT !.step = s, !.doc = d]
<1>1. /\ h.step = s /\ h.read = work[w].read /\ h.doc = d
      /\ h.arg = work[w].arg /\ h.caller = work[w].caller
  BY DEF PaymentTypeOK, Handler
<1>2. Goes(w, h)
  BY DEF Lose
<1> HIDE DEF h
<1> QED
  BY <1>1, <1>2 DEF Lose, providers

LEMMA GotoFacts ==
  ASSUME PaymentTypeOK, NEW w \in Worker, NEW s, Goto(w, s)
  PROVE  \E h : /\ Goes(w, h) /\ h.step = s /\ h.read = work[w].read /\ h.doc = work[w].doc
                /\ h.arg = work[w].arg /\ h.caller = work[w].caller
<1> DEFINE h == [work[w] EXCEPT !.step = s]
<1>1. /\ h.step = s /\ h.read = work[w].read /\ h.doc = work[w].doc
      /\ h.arg = work[w].arg /\ h.caller = work[w].caller
  BY DEF PaymentTypeOK, Handler
<1>2. Goes(w, h)
  BY DEF Goto
<1> HIDE DEF h
<1> QED
  BY <1>1, <1>2

-----------------------------------------------------------------------------
(* The steps of the handlers that dispatch nothing.                        *)

LEMMA EndOnce ==
  ASSUME PaymentTypeOK, OnceInv, NEW w \in Worker, End(w), Still
  PROVE  OnceInv'
<1>1. PICK h : Goes(w, h) /\ h.step = "idle"
  BY GotoFacts DEF End
<1> QED
  BY <1>1, CalmKeeps DEF Calm, Still, providers

LEMMA LoadOnce ==
  ASSUME PaymentTypeOK, OnceInv, NEW w \in Worker, NEW s, NEW a, NEW c, Load(w, s, a, c),
         s \notin Underway \cup {"idle", "proof", "bankConfirm", "sweepStatus", "sweepCancel",
                                 "sweepFail"},
         ~Confirming(Reads(s, a, c)),
         s = "admin" => a \in AdminForces,
         s \in {"fintocLog", "fintocDecide"} => corridor.payin = "fintoc"
  PROVE  OnceInv'
<1> DEFINE h == Reads(s, a, c)
<1>1. h.step = s /\ h.read = tx /\ h.doc = tx /\ h.arg = a
  BY DEF Reads
<1>2. ~Active(h) /\ HandlerTells(h)
  BY <1>1 DEF Active, HandlerTells, StatusTells, StepTells, Kept, Underway, Dispatching
<1>3. Goes(w, h) /\ Calm /\ UNCHANGED notices
  BY DEF Load, Calm, Still, providers
<1> HIDE DEF h
<1> QED
  BY <1>2, <1>3, CalmTells, CalmKeeps

LEMMA QuietSaveOnce ==
  ASSUME PaymentTypeOK, OnceInv, NEW w \in Worker, NEW d \in TransactionDoc,
         work[w].step \notin Dispatching, d.ref = work[w].doc.ref,
         d.transient => work[w].doc.transient,
         d.status = work[w].doc.status \/ d.status \notin Unsent,
         SaveOrLose(w, d, "idle", "idle")
  PROVE  OnceInv'
<1>0. Kept(work[w]) /\ work[w].read \in TransactionDoc /\ work[w].doc \in TransactionDoc
  BY DEF OnceInv, HandlerTells, StepTells, PaymentTypeOK, Handler
<1>1. CASE Save(w, d, "idle")
  <2>1. PICK h : Goes(w, h) /\ h.step = "idle"
    BY <1>1, SaveFacts
  <2>2. Calm /\ UNCHANGED notices
    BY <1>0, <1>1, SaveFacts DEF Calm, Kept, TransactionDoc
  <2> QED
    BY <2>1, <2>2, CalmKeeps
<1>2. CASE Lose(w, d, "idle")
  <2>1. PICK h : Goes(w, h) /\ h.step = "idle"
    BY <1>2, LoseFacts
  <2>2. Calm /\ UNCHANGED notices
    BY <1>2, LoseFacts DEF Calm
  <2> QED
    BY <2>1, <2>2, CalmKeeps
<1> QED
  BY <1>1, <1>2 DEF SaveOrLose

(* The entry in the log: the handler goes on with the same document.       *)
LEMMA LogOnce ==
  ASSUME PaymentTypeOK, OnceInv, NEW w \in Worker, NEW d \in TransactionDoc,
         d.status = work[w].doc.status, d.ref = work[w].doc.ref,
         d.transient = work[w].doc.transient,
         \/ work[w].step = "fintocLog" /\ SaveOrLose(w, d, "fintocDecide", "fintocDecide")
         \/ work[w].step = "harborLog" /\ SaveOrLose(w, d, "harborDecide", "harborDecide")
  PROVE  OnceInv'
<1>0. /\ Kept(work[w]) /\ HandlerTells(work[w])
      /\ work[w].read \in TransactionDoc /\ work[w].doc \in TransactionDoc
  BY DEF OnceInv, HandlerTells, StepTells, PaymentTypeOK, Handler, Dispatching
<1>1. /\ d.status = work[w].doc.status /\ d.ref = work[w].doc.ref
      /\ d.transient = work[w].doc.transient
  OBVIOUS
<1>2. PICK s \in {"fintocDecide", "harborDecide"} :
        /\ SaveOrLose(w, d, s, s)
        /\ s = "fintocDecide" <=> work[w].step = "fintocLog"
        /\ work[w].step \in {"fintocLog", "harborLog"}
  OBVIOUS
<1>3. Calm /\ UNCHANGED notices
  <2>1. CASE Save(w, d, s)
    BY <1>0, <1>1, <2>1, SaveFacts DEF Calm, Kept
  <2>2. CASE Lose(w, d, s)
    BY <2>2, LoseFacts DEF Calm
  <2> QED
    BY <1>2, <2>1, <2>2 DEF SaveOrLose
<1>4. PICK h : /\ Goes(w, h) /\ h.step = s /\ h.doc = d
               /\ h.read \in {d, work[w].read} /\ h.arg = work[w].arg
  BY <1>2, SaveFacts, LoseFacts DEF SaveOrLose
<1>5. Kept(h) /\ (Confirming(h) <=> Confirming(work[w]))
  BY <1>0, <1>1, <1>2, <1>4 DEF Kept, Confirming
<1>6. HandlerTells(h)
  BY <1>0, <1>1, <1>2, <1>4, <1>5
     DEF HandlerTells, StatusTells, StepTells, Active, Kept, Confirming, Underway, Dispatching
<1>7. Active(h) => Active(work[w])
  BY <1>2, <1>4, <1>5 DEF Active, Underway, Dispatching
<1> QED
  BY <1>3, <1>4, <1>6, <1>7, CalmTells, CalmKeeps

-----------------------------------------------------------------------------
(* The payin.                                                              *)

(* Confirming: whoever confirms is the only one at work on the payment,    *)
(* and goes on to the gate.                                                *)
LEMMA ConfirmOnce ==
  ASSUME PaymentTypeOK, OnceInv, NEW w \in Worker, Confirming(work[w]),
         Confirm(w, Confirmed(work[w].doc))
  PROVE  OnceInv'
<1> DEFINE d == Confirmed(work[w].doc)
<1>0. /\ Kept(work[w]) /\ HandlerTells(work[w]) /\ Untried
      /\ work[w].read \in TransactionDoc /\ work[w].doc \in TransactionDoc
      /\ work[w].doc.status \in Awaiting
  BY DEF OnceInv, HandlerTells, StepTells, PaymentTypeOK, Handler, Confirming, Dispatching
<1>1. /\ d.status = "payin_confirmed" /\ d.ref = work[w].doc.ref
      /\ d.transient = work[w].doc.transient
  BY <1>0 DEF Confirmed, TransactionDoc
<1>2. PICK h : Goes(w, h) /\ h.step = "gate" /\ h.read = d /\ h.doc = d
  <2> DEFINE g == [work[w] EXCEPT !.step = "gate", !.read = d, !.doc = d, !.caller = "request"]
  <2>1. g.step = "gate" /\ g.read = d /\ g.doc = d
    BY DEF PaymentTypeOK, Handler
  <2>2. Goes(w, g)
    BY DEF Confirm
  <2> HIDE DEF g
  <2> QED
    BY <2>1, <2>2
<1>3. /\ tx' = Merged(work[w].read, d)
      /\ UNCHANGED <<corridor, payer, payout, orders, sends, notices>>
  BY DEF Confirm, providers
<1> HIDE DEF d
<1>4. tx'.status = "payin_confirmed" /\ ~tx'.ref
  BY <1>0, <1>1, <1>3 DEF Merged, Kept, Awaiting, Untried, NothingOut
<1>5. DocTells'
  BY <1>0, <1>3, <1>4 DEF OnceInv, DocTells, Untried, NothingOut, Awaiting
<1>6. HandlerTells(h)'
  BY <1>2, <1>4 DEF HandlerTells, StatusTells, StepTells, Active, Confirming, Awaiting,
                    Underway, Dispatching
<1>7. \A v \in Worker : v # w => ~Active(work[v])
  BY DEF OnceInv, OneActive, Active
<1> QED
  BY <1>2, <1>3, <1>5, <1>6, <1>7, AloneKeeps

(* A webhook read while the payin is awaited: nobody else is at work.      *)
LEMMA LoadConfirmOnce ==
  ASSUME PaymentTypeOK, OnceInv, NEW w \in Worker, NEW s \in {"fintocLog", "vitaDecide"},
         NEW a, NEW c, Load(w, s, a, c), tx.status \in Awaiting,
         corridor.payin = IF s = "fintocLog" THEN "fintoc" ELSE "vita",
         \A v \in Worker : work[v].step \notin (IF s = "fintocLog" THEN {"fintocLog", "fintocDecide"}
                                                                ELSE {"vitaDecide"})
  PROVE  OnceInv'
<1>1. PICK h : Goes(w, h) /\ h.step = s /\ h.read = tx /\ h.doc = tx
  BY DEF Load, Reads
<1>2. \A v \in Worker : ~Active(work[v])
  BY DEF OnceInv, HandlerTells, StatusTells, StepTells, Active, Confirming
<1>3. UNCHANGED <<tx, corridor, payout, orders, sends, notices>> /\ tx.status # "new"
  BY DEF Load, Still, providers
<1>4. DocTells' /\ Untried
  BY <1>3 DEF OnceInv, DocTells, Untried, NothingOut
<1>5. HandlerTells(h)'
  BY <1>1, <1>3, <1>4
     DEF HandlerTells, StatusTells, StepTells, Active, Confirming, Kept, Untried, NothingOut,
         Underway, Dispatching, Awaiting
<1> QED
  BY <1>1, <1>2, <1>3, <1>4, <1>5, AloneKeeps

LEMMA FintocOnce ==
  ASSUME OnceRails, PaymentTypeOK, OnceInv, NEW w \in Worker, handleFintocIPN(w)
  PROVE  OnceInv'
<1> DEFINE d == work[w].doc
<1>0. d \in TransactionDoc /\ work[w] \in Handler
  BY DEF PaymentTypeOK, Handler
<1>1. CASE /\ corridor.payin = "fintoc" /\ Turn("fintoc")
           /\ Load(w, "fintocLog", "payin_completed", "request")
  <2>1. \A v \in Worker : work[v].step \notin {"fintocLog", "fintocDecide"}
    BY <1>1 DEF Turn, OnceRails, IpnStep
  <2>2. CASE tx.status \notin Awaiting
    BY <1>1, <2>2, LoadOnce DEF Confirming, Reads, Underway, Dispatching
  <2>3. CASE tx.status \in Awaiting
    BY <1>1, <2>1, <2>3, LoadConfirmOnce
  <2> QED
    BY <2>2, <2>3
<1>2. CASE /\ At(w, "fintocLog")
           /\ LET e == [d EXCEPT !.log = @ \cup {"payin_completed"}]
              IN SaveOrLose(w, e, "fintocDecide", "fintocDecide")
  <2> DEFINE e == [d EXCEPT !.log = d.log \cup {"payin_completed"}]
  <2>1. /\ e \in TransactionDoc /\ e.status = d.status /\ e.ref = d.ref
        /\ e.transient = d.transient
    BY <1>0 DEF TransactionDoc, Notice
  <2>2. SaveOrLose(w, e, "fintocDecide", "fintocDecide")
    BY <1>2
  <2> HIDE DEF e
  <2> QED
    BY <1>2, <2>1, <2>2, LogOnce DEF At
<1>3. CASE At(w, "fintocDecide") /\ d.status = "payin_pending"
           /\ (Confirm(w, Confirmed(d)) \/ Lose(w, d, "idle"))
  <2>1. Confirming(work[w])
    BY <1>3 DEF At, Confirming, Awaiting
  <2>2. CASE Lose(w, d, "idle")
    <3>1. SaveOrLose(w, d, "idle", "idle") /\ work[w].step \notin Dispatching
      BY <1>3, <2>2 DEF SaveOrLose, At, Dispatching
    <3> QED
      BY <1>0, <3>1, QuietSaveOnce
  <2> QED
    BY <1>3, <2>1, <2>2, ConfirmOnce
<1>4. CASE End(w) /\ Still
  BY <1>4, EndOnce
<1> QED
  BY <1>1, <1>2, <1>3, <1>4 DEF handleFintocIPN

LEMMA VitaDecideOnce ==
  ASSUME PaymentTypeOK, OnceInv, NEW w \in Worker, vitaDecide(w)
  PROVE  OnceInv'
<1> DEFINE d == work[w].doc
<1>0. /\ d \in TransactionDoc /\ work[w].step = "vitaDecide" /\ work[w].step \notin Dispatching
  BY DEF PaymentTypeOK, Handler, vitaDecide, At, Dispatching
<1>1. \/ d.status \in VitaPayinStates /\ Confirm(w, Confirmed(d))
      \/ Lose(w, d, "idle")
      \/ SaveOrLose(w, [d EXCEPT !.status = "completed"], "idle", "idle")
      \/ SaveOrLose(w, Failed(d), "idle", "idle")
      \/ End(w) /\ Still
  BY Zenon DEF vitaDecide
<1>2. CASE d.status \in VitaPayinStates /\ Confirm(w, Confirmed(d))
  BY <1>0, <1>2, ConfirmOnce DEF VitaPayinStates, Confirming, Awaiting
<1>3. CASE Lose(w, d, "idle")
  <2>1. SaveOrLose(w, d, "idle", "idle")
    BY <1>3 DEF SaveOrLose
  <2> QED
    BY <1>0, <2>1, QuietSaveOnce
<1>4. CASE SaveOrLose(w, [d EXCEPT !.status = "completed"], "idle", "idle")
  <2> DEFINE e == [d EXCEPT !.status = "completed"]
  <2>1. /\ e \in TransactionDoc /\ e.ref = d.ref /\ e.transient = d.transient
        /\ e.status \notin Unsent
    BY <1>0 DEF TransactionDoc, Status, Unsent, Awaiting
  <2> QED
    BY <1>0, <1>4, <2>1, QuietSaveOnce
<1>5. CASE SaveOrLose(w, Failed(d), "idle", "idle")
  <2> DEFINE e == Failed(d)
  <2>1. /\ e \in TransactionDoc /\ e.ref = d.ref /\ (e.transient => d.transient)
        /\ e.status \notin Unsent
    BY <1>0 DEF Failed, TransactionDoc, Status, Unsent, Awaiting
  <2> HIDE DEF e
  <2> QED
    BY <1>0, <1>5, <2>1, QuietSaveOnce DEF e
<1>6. CASE End(w) /\ Still
  BY <1>6, EndOnce
<1> QED
  BY <1>1, <1>2, <1>3, <1>4, <1>5, <1>6

LEMMA AdminOnce ==
  ASSUME OnceRails, PaymentTypeOK, OnceInv, NEW w \in Worker, updateTransactionStatus(w)
  PROVE  OnceInv'
<1> DEFINE d == work[w].doc
<1>0. corridor.payin # "manual"
  BY DEF OnceRails, PaymentTypeOK
<1>1. ASSUME NEW s \in AdminForces, Load(w, "admin", s, "request")
      PROVE  OnceInv'
  BY <1>1, LoadOnce DEF Confirming, Reads, Underway, Dispatching
<1>2. CASE At(w, "admin")
  <2>1. work[w].step = "admin" /\ work[w].arg \in AdminForces /\ d \in TransactionDoc
    BY <1>2 DEF At, OnceInv, HandlerTells, StepTells, PaymentTypeOK, Handler
  <2>2. work[w].arg \in Status /\ work[w].arg \notin Unsent
    BY <2>1, AdminAssumption DEF OnceRails, Unsent, Awaiting, VitaPayinStates
  <2> DEFINE e == [d EXCEPT !.status = work[w].arg]
  <2>3. /\ e \in TransactionDoc /\ e.ref = d.ref /\ e.transient = d.transient
        /\ e.status \notin Unsent
    BY <2>1, <2>2 DEF TransactionDoc
  <2>4. SaveOrLose(w, e, "idle", "idle")
    BY <1>2, <2>1, <2>2 DEF updateTransactionStatus, At, Load, Free, Unsent
  <2> HIDE DEF e
  <2> QED
    BY <2>1, <2>3, <2>4, QuietSaveOnce DEF Dispatching
<1> QED
  BY <1>0, <1>1, <1>2 DEF updateTransactionStatus

LEMMA PayinStepOnce ==
  ASSUME OnceRails, PaymentTypeOK, OnceInv, NEW w \in Worker, PayinStep(w)
  PROVE  OnceInv'
<1>1. corridor.payin \notin {"manual", "bankQr"}
  BY DEF OnceRails, PaymentTypeOK
<1>2. work[w].step \notin {"proof", "bankConfirm", "sweepStatus", "sweepCancel", "sweepFail"}
  BY DEF OnceInv, HandlerTells, StepTells
<1>3. /\ ~uploadPaymentProof(w) /\ ~confirmBankQrTx(w) /\ ~sweepStatus(w)
      /\ ~sweepCancel(w) /\ ~failExpiredBankQrTx(w)
  BY <1>1, <1>2 DEF uploadPaymentProof, confirmBankQrTx, sweepStatus, sweepCancel,
                    failExpiredBankQrTx, At
<1> QED
  BY <1>3, FintocOnce, VitaDecideOnce, AdminOnce DEF PayinStep

LEMMA CreateOnce ==
  ASSUME OnceRails, PaymentTypeOK, OnceInv, NEW w \in Worker, initCrossBorderPayment(w)
  PROVE  OnceInv'
<1>1. corridor.payin # "manual"
  BY DEF OnceRails, PaymentTypeOK
<1>2. \A v \in Worker : ~Active(work[v])
  BY DEF initCrossBorderPayment, OnceInv, HandlerTells, StatusTells
<1>3. UNCHANGED <<corridor, payout, orders, sends, notices>>
  BY DEF initCrossBorderPayment, providers
<1>4. orders = 0 /\ sends = 0 /\ payout = "none"
  BY DEF initCrossBorderPayment, OnceInv, DocTells, Untried, NothingOut, Awaiting
<1>5. PICK s \in {"payin_confirmed", "payin_pending"} :
        /\ tx' = [NoDoc EXCEPT !.status = s]
        /\ s = "payin_pending" => work' = work
  BY <1>1 DEF initCrossBorderPayment
<1>6. tx'.status = s /\ tx'.ref = FALSE /\ tx'.transient = FALSE
  BY <1>5 DEF NoDoc
<1>7. DocTells'
  BY <1>3, <1>4, <1>6 DEF OnceInv, DocTells, Untried, NothingOut, Awaiting
<1>8. CASE work' = work
  <2>1. \A v \in Worker : HandlerTells(work[v])'
    BY <1>2, <1>3, <1>8, InactiveTells DEF OnceInv
  <2> QED
    BY <1>7, <1>8, <2>1 DEF OnceInv, OneActive
<1>9. CASE work' # work
  <2>1. s = "payin_confirmed"
    BY <1>5, <1>9
  <2>2. PICK h : Goes(w, h) /\ h.step = "gate" /\ h.read.ref = FALSE
    <3> DEFINE g == [Idle EXCEPT !.step = "gate", !.caller = "create", !.read = tx', !.doc = tx']
    <3>1. g.step = "gate" /\ g.read = tx'
      BY DEF Idle
    <3>2. Goes(w, g)
      BY <1>9 DEF initCrossBorderPayment
    <3> HIDE DEF g
    <3> QED
      BY <1>6, <3>1, <3>2
  <2>3. HandlerTells(h)'
    BY <1>6, <2>1, <2>2 DEF HandlerTells, StatusTells, StepTells, Active, Confirming, Awaiting,
                           Underway, Dispatching
  <2> QED
    BY <1>2, <1>3, <1>7, <2>2, <2>3, AloneKeeps
<1> QED
  BY <1>8, <1>9

(* Armed again: only a payment of which nothing was sent waits for funds.  *)
LEMMA RearmOnce ==
  ASSUME PaymentTypeOK, OnceInv, NEW w \in Worker, retryPendingFundingTransactions(w)
  PROVE  OnceInv'
<1>1. \A v \in Worker : ~Active(work[v])
  BY DEF retryPendingFundingTransactions, OnceInv, HandlerTells, StatusTells
<1>2. /\ UNCHANGED <<corridor, payout, orders, sends, notices>>
      /\ tx'.status = "payin_confirmed" /\ tx'.ref = tx.ref
  BY DEF retryPendingFundingTransactions, providers, Confirmed, PaymentTypeOK, TransactionDoc
<1>3. NothingOut
  BY DEF retryPendingFundingTransactions, OnceInv, DocTells, Unsent
<1>4. DocTells'
  BY <1>2, <1>3 DEF OnceInv, DocTells, NothingOut, Awaiting
<1>5. PICK h : Goes(w, h) /\ h.step = "gate" /\ h.read = h.doc
  <2> DEFINE g == [Idle EXCEPT !.step = "gate", !.read = tx', !.doc = tx']
  <2>1. g.step = "gate" /\ g.read = g.doc
    BY DEF Idle
  <2>2. Goes(w, g)
    BY DEF retryPendingFundingTransactions
  <2> HIDE DEF g
  <2> QED
    BY <2>1, <2>2
<1>6. HandlerTells(h)'
  BY <1>2, <1>5 DEF HandlerTells, StatusTells, StepTells, Active, Confirming, Awaiting,
                    Underway, Dispatching
<1> QED
  BY <1>1, <1>2, <1>4, <1>5, <1>6, AloneKeeps

LEMMA VitaNoticeOnce ==
  ASSUME OnceRails, PaymentTypeOK, OnceInv, NEW w \in Worker, NEW n \in Notice, handleVitaIPN(w, n)
  PROVE  OnceInv'
<1>1. \A v \in Worker : work[v].step # "vitaDecide"
  BY DEF handleVitaIPN, Turn, OnceRails, IpnStep
<1>2. Load(w, "vitaDecide", n, "request")
  BY DEF handleVitaIPN
<1>3. CASE tx.status \notin Awaiting
  BY <1>2, <1>3, LoadOnce DEF Confirming, Reads, Underway, Dispatching
<1>4. CASE tx.status \in Awaiting
  <2>1. n \notin {"completed", "failed"}
    BY <1>4 DEF handleVitaIPN, OnceInv, DocTells, Untried
  <2>2. corridor.payin = "vita"
    BY <2>1 DEF handleVitaIPN
  <2> QED
    BY <1>1, <1>2, <1>4, <2>2, LoadConfirmOnce
<1> QED
  BY <1>3, <1>4

LEMMA PayinStartOnce ==
  ASSUME OnceRails, PaymentTypeOK, OnceInv, NEW w \in Worker, PayinStart(w)
  PROVE  OnceInv'
<1>1. corridor.payin # "bankQr"
  BY DEF OnceRails, PaymentTypeOK
<1>2. ~handleBankQrIPN(w) /\ ~reconcilePaidQRs(w) /\ ~sweepExpiredQRs(w)
  BY <1>1 DEF handleBankQrIPN, reconcilePaidQRs, sweepExpiredQRs
<1> QED
  BY <1>2, CreateOnce, RearmOnce, VitaNoticeOnce DEF PayinStart

-----------------------------------------------------------------------------
(* The payout.                                                             *)

(* The steps that ask nothing of the payment.                              *)
Loose == {"settle", "failOther", "failTransient", "recover", "recoverSave", "vitaSent"}

(* A step past the gate: nobody else is active, and the status is one from *)
(* which no payout is begun, before and after.                             *)
LEMMA PastGate ==
  ASSUME PaymentTypeOK, OnceInv, NEW w \in Worker, work[w].step \in Underway \ {"gate"}
  PROVE  /\ \A v \in Worker : v # w => ~Active(work[v])
         /\ tx.status \notin Unsent
         /\ HandlerTells(work[w]) /\ StepTells(work[w])
         /\ work[w].read.ref => work[w].doc.ref
         /\ work[w].read \in TransactionDoc /\ work[w].doc \in TransactionDoc
BY DEF OnceInv, OneActive, HandlerTells, StatusTells, StepTells, Active, Unsent, PaymentTypeOK, Handler

LEMMA DispatchOnce ==
  ASSUME PaymentTypeOK, OnceInv, NEW w \in Worker, work[w].step \in Underway \ {"gate"},
         NEW h, Goes(w, h), corridor' = corridor, DocTells', tx'.status \notin Unsent,
         h.step # "idle" => StepTells(h)'
  PROVE  OnceInv'
<1>1. StatusTells(h)'
  BY DEF StatusTells, Unsent, Awaiting
<1>2. h.step # "idle" => HandlerTells(h)'
  BY <1>1 DEF HandlerTells
<1> QED
  BY <1>2, PastGate, AloneKeeps

LEMMA LooseTells ==
  ASSUME NEW h, h.step \in Loose, h.read.ref => h.doc.ref
  PROVE  StepTells(h)'
BY DEF StepTells, Loose, Confirming, Dispatching

LEMMA DispatchLoseOnce ==
  ASSUME PaymentTypeOK, OnceInv, NEW w \in Worker, work[w].step \in Underway \ {"gate"},
         NEW d \in TransactionDoc, work[w].doc.ref => d.ref, NEW s \in Loose \cup {"idle"},
         Lose(w, d, s)
  PROVE  OnceInv'
<1>1. PICK h : Goes(w, h) /\ h.step = s /\ h.read = work[w].read /\ h.doc = d
  BY LoseFacts
<1>2. UNCHANGED <<tx, corridor, payout, orders, sends, notices>>
  BY LoseFacts
<1>3. DocTells' /\ tx'.status \notin Unsent
  BY <1>2, PastGate DEF OnceInv, DocTells, Untried, NothingOut
<1>4. h.step # "idle" => StepTells(h)'
  BY <1>1, PastGate, LooseTells
<1> QED
  BY <1>1, <1>2, <1>3, <1>4, DispatchOnce

LEMMA DispatchSaveOnce ==
  ASSUME PaymentTypeOK, OnceInv, NEW w \in Worker, work[w].step \in Underway \ {"gate"},
         NEW d \in TransactionDoc, work[w].doc.ref => d.ref, d.status \notin Unsent,
         NEW s \in Loose \cup {"idle"}, NEW l \in Loose \cup {"idle"}, SaveOrLose(w, d, s, l)
  PROVE  OnceInv'
<1>1. CASE Save(w, d, s)
  <2>1. PICK h : Goes(w, h) /\ h.step = s /\ h.read = d /\ h.doc = d
    BY <1>1, SaveFacts
  <2>2. /\ UNCHANGED <<corridor, payout, orders, sends, notices>>
        /\ tx'.status \in {d.status, tx.status} /\ (tx.ref => tx'.ref)
    <3>1. work[w].read.ref => d.ref
      BY PastGate
    <3> QED
      BY <1>1, <3>1, SaveFacts, SaveMoves
  <2>3. tx'.status \notin Unsent
    BY <2>2, PastGate
  <2>4. DocTells'
    BY <2>2, <2>3 DEF OnceInv, DocTells, Unsent
  <2>5. h.step # "idle" => StepTells(h)'
    BY <2>1, LooseTells
  <2> QED
    BY <2>1, <2>2, <2>3, <2>4, <2>5, DispatchOnce
<1> QED
  BY <1>1, DispatchLoseOnce DEF SaveOrLose

(* Going on without a change of the document or of the providers.          *)
LEMMA DispatchGotoOnce ==
  ASSUME PaymentTypeOK, OnceInv, NEW w \in Worker, work[w].step \in Underway \ {"gate"},
         NEW s \in Loose \cup {"idle"}, Goto(w, s),
         UNCHANGED <<tx, corridor, payout, orders, sends, notices>>
  PROVE  OnceInv'
<1>1. PICK h : Goes(w, h) /\ h.step = s /\ h.read = work[w].read /\ h.doc = work[w].doc
  BY GotoFacts
<1>2. DocTells' /\ tx'.status \notin Unsent
  BY PastGate DEF OnceInv, DocTells, Untried, NothingOut
<1>3. h.step # "idle" => StepTells(h)'
  BY <1>1, PastGate, LooseTells
<1> QED
  BY <1>1, <1>2, <1>3, DispatchOnce

(* Not enough funds at the provider: nothing was sent.                     *)
LEMMA FundingOnce ==
  ASSUME PaymentTypeOK, OnceInv, NEW w \in Worker, work[w].step \in {"owlPay", "vitaPay"},
         NEW d \in TransactionDoc, d.ref = FALSE, d.status = "pending_funding",
         NEW s \in {"settle", "idle"}, NEW l \in Loose \cup {"idle"}, SaveOrLose(w, d, s, l)
  PROVE  OnceInv'
<1>0. work[w].step \in Underway \ {"gate"}
  BY DEF Underway, Dispatching
<1>1. CASE Save(w, d, s)
  <2>1. PICK h : Goes(w, h) /\ h.step = s /\ h.read = d /\ h.doc = d
    BY <1>1, SaveFacts
  <2>2. /\ UNCHANGED <<corridor, payout, orders, sends, notices>>
        /\ tx'.status \in {d.status, tx.status}
        /\ ~work[w].read.ref => tx'.ref = tx.ref
    BY <1>1, SaveFacts, SaveMoves
  <2>3. NothingOut /\ ~work[w].read.ref
    BY <1>0, PastGate DEF StepTells, OnceInv, DocTells, NothingOut, PaymentTypeOK
  <2>4. tx'.status = "pending_funding" \/ tx'.status \notin Unsent
    BY <1>0, <2>2, PastGate
  <2>5. DocTells'
    BY <2>2, <2>3, <2>4 DEF OnceInv, DocTells, NothingOut, Unsent, Awaiting
  <2>6. h.step # "idle" => HandlerTells(h)'
    BY <2>1, <2>4 DEF HandlerTells, StatusTells, StepTells, Active, Confirming, Unsent, Awaiting,
                     Underway, Dispatching
  <2> QED
    BY <1>0, <2>1, <2>2, <2>5, <2>6, PastGate, AloneKeeps
<1>2. CASE Lose(w, d, l)
  <2>1. work[w].doc.ref => d.ref
    BY <1>0, PastGate DEF StepTells
  <2> QED
    BY <1>0, <1>2, <2>1, DispatchLoseOnce
<1> QED
  BY <1>1, <1>2 DEF SaveOrLose

LEMMA GateOnce ==
  ASSUME PaymentTypeOK, OnceInv, NEW w \in Worker, dispatchGate(w)
  PROVE  OnceInv'
<1>0. work[w].step = "gate" /\ HandlerTells(work[w]) /\ work[w].step \in Underway
  BY DEF dispatchGate, At, OnceInv, Underway, Dispatching
<1>1. CASE tx.status = "payin_confirmed"
  <2>1. PICK h : Goes(w, h) /\ h.step = "route" /\ h.read = tx' /\ h.doc = tx'
    <3> DEFINE g == [work[w] EXCEPT !.step = "route", !.read = tx', !.doc = tx']
    <3>1. g.step = "route" /\ g.read = tx' /\ g.doc = tx'
      BY DEF PaymentTypeOK, Handler
    <3>2. Goes(w, g)
      BY <1>1 DEF dispatchGate
    <3> HIDE DEF g
    <3> QED
      BY <3>1, <3>2
  <2>2. /\ UNCHANGED <<corridor, payout, orders, sends, notices>>
        /\ tx'.status = "processing" /\ tx'.ref = tx.ref
    BY <1>1 DEF dispatchGate, providers, PaymentTypeOK, TransactionDoc
  <2>3. NothingOut
    BY <1>1 DEF OnceInv, DocTells, Unsent
  <2>4. DocTells'
    BY <2>2, <2>3 DEF OnceInv, DocTells, NothingOut, Unsent, Awaiting
  <2>5. HandlerTells(h)'
    BY <2>1, <2>2, <2>3 DEF HandlerTells, StatusTells, StepTells, Active, Confirming, NothingOut,
                            Awaiting, Dispatching
  <2>6. \A v \in Worker : v # w => ~Active(work[v])
    BY <1>0 DEF OnceInv, OneActive, Active
  <2> QED
    BY <2>1, <2>2, <2>4, <2>5, <2>6, AloneKeeps
<1>2. CASE tx.status # "payin_confirmed"
  <2>1. Goto(w, After(w)) /\ Still
    BY <1>2 DEF dispatchGate
  <2>2. PICK h : Goes(w, h) /\ h.step = After(w) /\ h.read = work[w].read /\ h.doc = work[w].doc
    BY <2>1, GotoFacts
  <2>3. h.step \in {"idle", "settle"}
    BY <2>2 DEF After
  <2>4. h.step # "idle" => HandlerTells(h) /\ ~Active(h)
    BY <1>0, <2>2, <2>3 DEF HandlerTells, StatusTells, StepTells, Active, Confirming, Underway,
                            Dispatching
  <2>5. Calm /\ UNCHANGED notices
    BY <2>1 DEF Calm, Still, providers
  <2> QED
    BY <2>2, <2>4, <2>5, CalmTells, CalmKeeps
<1> QED
  BY <1>1, <1>2

LEMMA AfterType == \A w \in Worker : After(w) \in {"idle", "settle"} /\ After(w) \in Loose \cup {"idle"}
BY DEF After, Loose

(* Going on along the rail the corridor names.                             *)
LEMMA RailOnce ==
  ASSUME PaymentTypeOK, OnceInv, NEW w \in Worker, work[w].step \in Underway \ {"gate"},
         NEW s, Goto(w, s), Still,
         \A h : h.step = s /\ h.read = work[w].read /\ h.doc = work[w].doc => StepTells(h)
  PROVE  OnceInv'
<1>1. PICK h : /\ Goes(w, h) /\ h.step = s /\ h.read = work[w].read /\ h.doc = work[w].doc
  BY GotoFacts
<1>2. UNCHANGED <<tx, corridor, payout, orders, sends, notices>>
  BY DEF Still, providers
<1>3. DocTells' /\ tx'.status \notin Unsent
  BY <1>2, PastGate DEF OnceInv, DocTells, Untried, NothingOut
<1>4. StepTells(h)
  BY <1>1
<1>5. StepTells(h)'
  BY <1>2, <1>4 DEF StepTells, Confirming, Kept, Untried, NothingOut
<1> QED
  BY <1>1, <1>2, <1>3, <1>5, DispatchOnce

LEMMA RouteOnce ==
  ASSUME PaymentTypeOK, OnceInv, NEW w \in Worker, dispatchRoute(w)
  PROVE  OnceInv'
<1> DEFINE d == work[w].doc
<1>0. work[w].step = "route" /\ work[w].step \in Underway \ {"gate"}
  BY DEF dispatchRoute, At, Underway, Dispatching
<1>1. /\ d \in TransactionDoc /\ StepTells(work[w]) /\ After(w) \in Loose \cup {"idle"}
  BY <1>0, PastGate, AfterType
<1>2. CASE corridor.payout = "owlPay" /\ Goto(w, "owlPay") /\ Still
  <2>1. \A h : h.step = "owlPay" /\ h.read = work[w].read /\ h.doc = work[w].doc => StepTells(h)
    BY <1>0, <1>1, <1>2 DEF StepTells, Confirming, Dispatching
  <2> QED
    BY <1>0, <1>2, <2>1, RailOnce
<1>3. CASE corridor.payout = "vitaWallet" /\ Goto(w, "vitaPay") /\ Still
  <2>1. \A h : h.step = "vitaPay" /\ h.read = work[w].read /\ h.doc = work[w].doc => StepTells(h)
    BY <1>0, <1>1, <1>3 DEF StepTells, Confirming, Dispatching
  <2> QED
    BY <1>0, <1>3, <2>1, RailOnce
<1>4. ASSUME NEW x \in {"payout_pending", "pending_fx_review"},
             SaveOrLose(w, [d EXCEPT !.status = x], After(w), After(w))
      PROVE  OnceInv'
  <2> DEFINE e == [d EXCEPT !.status = x]
  <2>1. e \in TransactionDoc /\ e.ref = d.ref /\ e.status = x /\ x \notin Unsent
    BY <1>1 DEF TransactionDoc, Status, Unsent, Awaiting
  <2>2. SaveOrLose(w, e, After(w), After(w))
    BY <1>4
  <2> HIDE DEF e
  <2> QED
    BY <1>0, <1>1, <2>1, <2>2, DispatchSaveOnce
<1>5. CASE Lose(w, d, After(w)) \/ Lose(w, d, "recover")
  BY <1>0, <1>1, <1>5, DispatchLoseOnce DEF Loose
<1> QED
  BY <1>2, <1>3, <1>4, <1>5 DEF dispatchRoute

LEMMA RecoverOnce ==
  ASSUME PaymentTypeOK, OnceInv, NEW w \in Worker, dispatchRecover(w)
  PROVE  OnceInv'
<1> DEFINE d == work[w].doc
<1>0. work[w].step \in {"recover", "recoverSave"} /\ work[w].step \in Underway \ {"gate"}
  BY DEF dispatchRecover, At, Underway, Dispatching
<1>1. /\ d \in TransactionDoc /\ After(w) \in Loose \cup {"idle"}
  BY <1>0, PastGate, AfterType
<1>2. CASE At(w, "recover")
  <2>1. Still
    BY <1>2 DEF dispatchRecover, At
  <2>2. PICK h : /\ Goes(w, h) /\ h.step \in {"recoverSave", After(w)} /\ h.read = h.doc
    <3> DEFINE x == IF tx.status = "processing" THEN "recoverSave" ELSE After(w)
               g == [work[w] EXCEPT !.step = x, !.read = tx, !.doc = tx]
    <3>1. g.step = x /\ g.read = tx /\ g.doc = tx
      BY DEF PaymentTypeOK, Handler
    <3>2. Goes(w, g)
      BY <1>2 DEF dispatchRecover, At
    <3>3. x \in {"recoverSave", After(w)}
      OBVIOUS
    <3> HIDE DEF g, x
    <3> QED
      BY <3>1, <3>2, <3>3
  <2>3. UNCHANGED <<tx, corridor, payout, orders, sends, notices>>
    BY <2>1 DEF Still, providers
  <2>4. DocTells' /\ tx'.status \notin Unsent
    BY <1>0, <2>3, PastGate DEF OnceInv, DocTells, Untried, NothingOut
  <2>5. h.step # "idle" => StepTells(h)'
    BY <1>1, <2>2, LooseTells DEF Loose
  <2> QED
    BY <1>0, <2>2, <2>3, <2>4, <2>5, DispatchOnce
<1>3. CASE At(w, "recoverSave")
  <2> DEFINE e == [d EXCEPT !.status = "failed"]
  <2>1. e \in TransactionDoc /\ e.ref = d.ref /\ e.status \notin Unsent
    BY <1>1 DEF TransactionDoc, Status, Unsent, Awaiting
  <2>2. SaveOrLose(w, e, After(w), After(w))
    BY <1>3 DEF dispatchRecover, At
  <2> HIDE DEF e
  <2> QED
    BY <1>0, <1>1, <2>1, <2>2, DispatchSaveOnce
<1> QED
  BY <1>2, <1>3 DEF dispatchRecover

LEMMA SettleOnce ==
  ASSUME PaymentTypeOK, OnceInv, NEW w \in Worker, settleCreate(w)
  PROVE  OnceInv'
<1>1. UNCHANGED <<tx, corridor, payout, orders, sends, notices>>
  BY DEF settleCreate, Lose, providers
<1>2. PICK h : Goes(w, h) /\ h.step = "idle"
  <2>1. End(w) \/ Lose(w, work[w].doc, "idle")
    BY DEF settleCreate
  <2>2. work[w].doc \in TransactionDoc
    BY DEF PaymentTypeOK, Handler
  <2> QED
    BY <2>1, <2>2, GotoFacts, LoseFacts DEF End
<1> QED
  BY <1>1, <1>2, CalmKeeps DEF Calm

LEMMA OwlPayOnce ==
  ASSUME PaymentTypeOK, OnceInv, NEW w \in Worker, tryOwlPayV2(w)
  PROVE  OnceInv'
<1> DEFINE d == work[w].doc
<1>0. work[w].step = "owlPay" /\ work[w].step \in Underway \ {"gate"}
  BY DEF tryOwlPayV2, At, Underway, Dispatching
<1>1. /\ d \in TransactionDoc /\ StepTells(work[w]) /\ d.ref = FALSE
      /\ After(w) \in Loose \cup {"idle"} /\ After(w) \in {"idle", "settle"}
      /\ "failOther" \in Loose
  <2>1. d \in TransactionDoc /\ StepTells(work[w])
    BY <1>0, PastGate
  <2> QED
    BY <1>0, <2>1, AfterType DEF StepTells, TransactionDoc, Loose
<1>2. \/ SaveOrLose(w, [d EXCEPT !.status = "failed"], After(w), "failOther")
      \/ SaveOrLose(w, [d EXCEPT !.status = "pending_funding"], After(w), "failOther")
      \/ Goto(w, "create") /\ Still
      \/ \E s \in Throws : Lose(w, d, s)
  BY <1>1 DEF tryOwlPayV2
<1>3. CASE SaveOrLose(w, [d EXCEPT !.status = "failed"], After(w), "failOther")
  <2> DEFINE e == [d EXCEPT !.status = "failed"]
  <2>1. e \in TransactionDoc /\ e.ref = d.ref /\ e.status \notin Unsent
    BY <1>1 DEF TransactionDoc, Status, Unsent, Awaiting
  <2>2. SaveOrLose(w, e, After(w), "failOther")
    BY <1>3
  <2> HIDE DEF e
  <2> QED
    BY <1>0, <1>1, <2>1, <2>2, DispatchSaveOnce
<1>4. CASE SaveOrLose(w, [d EXCEPT !.status = "pending_funding"], After(w), "failOther")
  <2> DEFINE e == [d EXCEPT !.status = "pending_funding"]
  <2>1. e \in TransactionDoc /\ e.ref = FALSE /\ e.status = "pending_funding"
    BY <1>1 DEF TransactionDoc, Status
  <2>2. SaveOrLose(w, e, After(w), "failOther")
    BY <1>4
  <2> HIDE DEF e
  <2> QED
    BY <1>0, <1>1, <2>1, <2>2, FundingOnce
<1>5. CASE Goto(w, "create") /\ Still
  <2>1. \A h : h.step = "create" /\ h.read = work[w].read /\ h.doc = work[w].doc => StepTells(h)
    BY <1>0, <1>1 DEF StepTells, Confirming, Dispatching
  <2> QED
    BY <1>0, <1>5, <2>1, RailOnce
<1>6. CASE \E s \in Throws : Lose(w, d, s)
  BY <1>0, <1>1, <1>6, DispatchLoseOnce DEF Throws, Loose
<1> QED
  BY <1>2, <1>3, <1>4, <1>5, <1>6

LEMMA HarborCreateOnce ==
  ASSUME PaymentTypeOK, OnceInv, NEW w \in Worker, createOwlPayTransfer(w)
  PROVE  OnceInv'
<1>0. work[w].step = "create" /\ work[w].step \in Underway \ {"gate"}
  BY DEF createOwlPayTransfer, At, Underway, Dispatching
<1>1. PICK s \in {"store", "failTransient", "failOther"} : Goto(w, s)
  BY DEF createOwlPayTransfer, Throws
<1>2. PICK h : Goes(w, h) /\ h.step = s /\ h.read = work[w].read /\ h.doc = work[w].doc
  BY <1>1, GotoFacts
<1>3. /\ UNCHANGED <<tx, corridor, orders, sends>>
      /\ payout' # "none" \/ UNCHANGED <<payout, notices>>
  BY DEF createOwlPayTransfer
<1>4. tx'.status \notin Unsent /\ DocTells'
  BY <1>0, <1>3, PastGate DEF OnceInv, DocTells, Unsent
<1>5. StepTells(work[w])
  BY <1>0, PastGate
<1>6. StepTells(h)'
  BY <1>0, <1>2, <1>3, <1>5 DEF StepTells, Confirming, Dispatching
<1> QED
  BY <1>0, <1>2, <1>3, <1>4, <1>6, DispatchOnce

LEMMA StoreTransferOnce ==
  ASSUME PaymentTypeOK, OnceInv, NEW w \in Worker, storeTransfer(w)
  PROVE  OnceInv'
<1> DEFINE d == [work[w].doc EXCEPT !.ref = TRUE, !.status = "payout_pending_usdc_send"]
<1>0. work[w].step = "store" /\ work[w].step \in Underway \ {"gate"}
  BY DEF storeTransfer, At, Underway, Dispatching
<1>1. /\ StepTells(work[w]) /\ work[w].doc \in TransactionDoc /\ work[w].read \in TransactionDoc
      /\ After(w) \in Loose \cup {"idle"} /\ "failOther" \in Loose
  BY <1>0, PastGate, AfterType DEF Loose
<1>2. d \in TransactionDoc /\ d.ref = TRUE /\ d.status \notin Unsent
  BY <1>1 DEF TransactionDoc, Status, Unsent, Awaiting
<1>3. \/ SaveOrLose(w, d, After(w), "failOther")
      \/ SaveOrLose(w, d, "send", "failOther")
  BY DEF storeTransfer
<1> HIDE DEF d
<1>4. CASE SaveOrLose(w, d, After(w), "failOther") \/ Lose(w, d, "failOther")
  BY <1>0, <1>1, <1>2, <1>4, DispatchSaveOnce, DispatchLoseOnce
<1>5. CASE Save(w, d, "send")
  <2>1. PICK h : Goes(w, h) /\ h.step = "send" /\ h.read = d /\ h.doc = d
    BY <1>2, <1>5, SaveFacts
  <2>2. UNCHANGED <<corridor, payout, orders, sends, notices>> /\ tx'.status \in {d.status, tx.status}
    BY <1>2, <1>5, SaveFacts, SaveMoves
  <2>3. tx'.ref = TRUE
    <3>1. tx'.ref = IF d.ref # work[w].read.ref THEN d.ref ELSE tx.ref
      BY <1>2, <1>5, SaveFacts
    <3>2. work[w].read.ref = FALSE
      BY <1>0, <1>1 DEF StepTells, TransactionDoc
    <3> QED
      BY <1>2, <3>1, <3>2
  <2>4. tx'.status \notin Unsent
    BY <1>0, <1>2, <2>2, PastGate
  <2>5. DocTells'
    BY <2>2, <2>3, <2>4 DEF OnceInv, DocTells, Unsent
  <2>6. StepTells(h)'
    BY <1>0, <1>1, <2>1, <2>2, <2>3 DEF StepTells, Confirming, Dispatching
  <2> QED
    BY <1>0, <2>1, <2>2, <2>4, <2>5, <2>6, DispatchOnce
<1> QED
  BY <1>3, <1>4, <1>5 DEF SaveOrLose

LEMMA LookupOnce ==
  ASSUME OnceRails, PaymentTypeOK, OnceInv, NEW w \in Worker, findTransactionByMemo(w)
  PROVE  OnceInv'
<1>0. work[w].step = "send" /\ work[w].step \in Underway \ {"gate"}
  BY DEF findTransactionByMemo, At, Underway, Dispatching
<1>1. StepTells(work[w])
  BY <1>0, PastGate
<1>2. PICK s \in {"sent", "submit", "failOther"} :
        Goto(w, s) /\ Still /\ (s = "submit" => ~(sends > 0))
  BY DEF findTransactionByMemo, OnceRails
<1>3. \A h : h.step = s /\ h.read = work[w].read /\ h.doc = work[w].doc => StepTells(h)
  BY <1>0, <1>1, <1>2 DEF StepTells, Confirming, Dispatching, PaymentTypeOK
<1> QED
  BY <1>0, <1>2, <1>3, RailOnce

LEMMA SubmitOnce ==
  ASSUME PaymentTypeOK, OnceInv, NEW w \in Worker, submitTransaction(w)
  PROVE  OnceInv'
<1>0. work[w].step = "submit" /\ work[w].step \in Underway \ {"gate"}
  BY DEF submitTransaction, At, Underway, Dispatching
<1>1. PICK s \in {"sent", "failOther"} : Goto(w, s)
  BY DEF submitTransaction
<1>2. PICK h : Goes(w, h) /\ h.step = s /\ h.read = work[w].read /\ h.doc = work[w].doc
  BY <1>1, GotoFacts
<1>3. StepTells(work[w])
  BY <1>0, PastGate
<1>4. sends = 0 /\ tx.ref /\ corridor.payout = "owlPay"
  BY <1>0, <1>3 DEF StepTells
<1>5. /\ UNCHANGED <<tx, corridor, orders>> /\ sends' \in {0, 1}
      /\ payout' # "none" \/ payout' = payout
      /\ "completed" \in notices' <=> "completed" \in notices
      /\ "failed" \in notices' <=> "failed" \in notices
  BY <1>4 DEF submitTransaction, OneMore
<1>6. tx'.status \notin Unsent
  BY <1>0, <1>5, PastGate
<1>7. DocTells'
  BY <1>4, <1>5, <1>6 DEF OnceInv, DocTells, Unsent
<1>8. StepTells(h)'
  BY <1>0, <1>2, <1>3, <1>4, <1>5 DEF StepTells, Confirming, Dispatching
<1> QED
  BY <1>0, <1>2, <1>5, <1>6, <1>7, <1>8, DispatchOnce

LEMMA StoreSentOnce ==
  ASSUME PaymentTypeOK, OnceInv, NEW w \in Worker, storeSent(w) \/ storeVitaPayout(w)
  PROVE  OnceInv'
<1> DEFINE d == work[w].doc
<1>0. work[w].step \in {"sent", "vitaSent"} /\ work[w].step \in Underway \ {"gate"}
  BY DEF storeSent, storeVitaPayout, At, Underway, Dispatching
<1>1. d \in TransactionDoc /\ After(w) \in Loose \cup {"idle"} /\ "failOther" \in Loose
  BY <1>0, PastGate, AfterType DEF Loose
<1>2. CASE storeSent(w)
  <2> DEFINE e == [d EXCEPT !.hash = TRUE, !.status = "payout_sent"]
  <2>1. e \in TransactionDoc /\ e.ref = d.ref /\ e.status \notin Unsent
    BY <1>1 DEF TransactionDoc, Status, Unsent, Awaiting
  <2>2. SaveOrLose(w, e, After(w), "failOther")
    BY <1>2 DEF storeSent
  <2> HIDE DEF e
  <2> QED
    BY <1>0, <1>1, <2>1, <2>2, DispatchSaveOnce
<1>3. CASE storeVitaPayout(w)
  <2> DEFINE e == [d EXCEPT !.ref = TRUE, !.status = "payout_sent"]
  <2>1. e \in TransactionDoc /\ e.ref = TRUE /\ e.status \notin Unsent
    BY <1>1 DEF TransactionDoc, Status, Unsent, Awaiting
  <2>2. SaveOrLose(w, e, After(w), After(w))
    BY <1>3 DEF storeVitaPayout
  <2> HIDE DEF e
  <2> QED
    BY <1>0, <1>1, <2>1, <2>2, DispatchSaveOnce
<1> QED
  BY <1>2, <1>3

LEMMA FailsOnce ==
  ASSUME PaymentTypeOK, OnceInv, NEW w \in Worker, dispatchFails(w)
  PROVE  OnceInv'
<1> DEFINE d == work[w].doc
           again == At(w, "failTransient") /\ (work[w].caller = "retry" => d.retries < MaxRetries)
           e == [d EXCEPT !.status = "failed", !.transient = again]
<1>0. work[w].step \in Throws /\ work[w].step \in Underway \ {"gate"}
  BY DEF dispatchFails, Throws, Underway, Dispatching
<1>1. d \in TransactionDoc /\ After(w) \in Loose \cup {"idle"}
  BY <1>0, PastGate, AfterType
<1>2. again \in BOOLEAN
  BY DEF At
<1>3. e \in TransactionDoc /\ e.ref = d.ref /\ e.status \notin Unsent
  <2> HIDE DEF again
  <2> QED
    BY <1>1, <1>2 DEF TransactionDoc, Status, Unsent, Awaiting
<1>4. (End(w) /\ Still) \/ SaveOrLose(w, e, After(w), After(w))
  BY DEF dispatchFails
<1> HIDE DEF e
<1> QED
  BY <1>0, <1>1, <1>3, <1>4, EndOnce, DispatchSaveOnce

(* Vita's order: the first, since the document had no reference.           *)
LEMMA VitaPayOnce ==
  ASSUME PaymentTypeOK, OnceInv, NEW w \in Worker, createPayout(w)
  PROVE  OnceInv'
<1> DEFINE d == work[w].doc
<1>0. work[w].step = "vitaPay" /\ work[w].step \in Underway \ {"gate"}
  BY DEF createPayout, At, Underway, Dispatching
<1>1. /\ d \in TransactionDoc /\ StepTells(work[w])
      /\ After(w) \in Loose \cup {"idle"} /\ After(w) \in {"idle", "settle"}
  BY <1>0, PastGate, AfterType
<1>2. /\ d.ref = FALSE /\ orders = 0 /\ corridor.payout = "vitaWallet"
      /\ work[w].read.ref => work[w].doc.ref
  BY <1>0, <1>1 DEF StepTells, TransactionDoc
<1>3. CASE SaveOrLose(w, [d EXCEPT !.status = "pending_funding"], After(w), After(w))
  <2> DEFINE e == [d EXCEPT !.status = "pending_funding"]
  <2>1. e \in TransactionDoc /\ e.ref = FALSE /\ e.status = "pending_funding"
    BY <1>1, <1>2 DEF TransactionDoc, Status
  <2>2. SaveOrLose(w, e, After(w), After(w))
    BY <1>3
  <2> HIDE DEF e
  <2> QED
    BY <1>0, <1>1, <2>1, <2>2, FundingOnce
<1>4. CASE Lose(w, d, "recover")
  BY <1>0, <1>1, <1>4, DispatchLoseOnce DEF Loose
<1>5. CASE Goto(w, "failOther") /\ Still
  BY <1>0, <1>5, DispatchGotoOnce DEF Loose, Still, providers
<1>6. CASE /\ orders' = OneMore(orders)
           /\ payout' = IF payout = "none" THEN "funded" ELSE payout
           /\ Goto(w, "vitaSent") \/ Goto(w, "failOther")
           /\ UNCHANGED <<tx, corridor, payer, sends, notices, hold>>
  <2>1. PICK s \in Loose : Goto(w, s)
    BY <1>6 DEF Loose
  <2>2. PICK h : Goes(w, h) /\ h.step = s /\ h.read = work[w].read /\ h.doc = work[w].doc
    BY <2>1, GotoFacts
  <2>3. orders' = 1 /\ payout' # "none" /\ tx'.status \notin Unsent
    BY <1>0, <1>2, <1>6, PastGate DEF OneMore
  <2>4. DocTells'
    BY <1>2, <1>6, <2>3 DEF OnceInv, DocTells, Unsent
  <2>5. StepTells(h)'
    BY <1>2, <2>2, LooseTells
  <2> QED
    BY <1>0, <1>6, <2>2, <2>3, <2>4, <2>5, DispatchOnce
<1> QED
  BY <1>3, <1>4, <1>5, <1>6 DEF createPayout

(* What a handler that dispatches nothing writes over a status.            *)
LEMMA QuietStatusOnce ==
  ASSUME PaymentTypeOK, OnceInv, NEW w \in Worker, work[w].step \notin Dispatching,
         NEW x \in Status, x \notin Unsent,
         SaveOrLose(w, [work[w].doc EXCEPT !.status = x], "idle", "idle")
  PROVE  OnceInv'
<1> DEFINE d == work[w].doc
           e == [d EXCEPT !.status = x]
<1>1. d \in TransactionDoc
  BY DEF PaymentTypeOK, Handler
<1>2. e \in TransactionDoc /\ e.ref = d.ref /\ e.transient = d.transient /\ e.status = x
  BY <1>1 DEF TransactionDoc
<1>3. SaveOrLose(w, e, "idle", "idle")
  OBVIOUS
<1> HIDE DEF e
<1> QED
  BY <1>2, <1>3, QuietSaveOnce

LEMMA GivesUpOnce ==
  ASSUME PaymentTypeOK, OnceInv, NEW w \in Worker, work[w].step \notin Dispatching,
         SaveOrLose(w, GivesUp(work[w].doc), "idle", "idle")
  PROVE  OnceInv'
<1> DEFINE d == work[w].doc
           e == GivesUp(d)
<1>1. d \in TransactionDoc
  BY DEF PaymentTypeOK, Handler
<1>2. e \in TransactionDoc /\ e.ref = d.ref /\ e.transient = FALSE /\ e.status \notin Unsent
  BY <1>1 DEF GivesUp, TransactionDoc, Status, Unsent, Awaiting
<1> HIDE DEF e
<1> QED
  BY <1>2, QuietSaveOnce DEF e

LEMMA QuietLoseOnce ==
  ASSUME PaymentTypeOK, OnceInv, NEW w \in Worker, work[w].step \notin Dispatching,
         Lose(w, work[w].doc, "idle")
  PROVE  OnceInv'
<1>1. work[w].doc \in TransactionDoc
  BY DEF PaymentTypeOK, Handler
<1> QED
  BY <1>1, QuietSaveOnce DEF SaveOrLose

LEMMA HarborLogOnce ==
  ASSUME PaymentTypeOK, OnceInv, NEW w \in Worker, harborLog(w)
  PROVE  OnceInv'
<1> DEFINE d == work[w].doc
           e == [d EXCEPT !.log = d.log \cup {work[w].arg}]
<1>1. d \in TransactionDoc /\ work[w].step = "harborLog" /\ work[w].arg \in Notice
  BY DEF PaymentTypeOK, Handler, harborLog, At
<1>2. /\ e \in TransactionDoc /\ e.status = d.status /\ e.ref = d.ref
      /\ e.transient = d.transient
  BY <1>1 DEF TransactionDoc
<1>3. SaveOrLose(w, e, "harborDecide", "harborDecide")
  BY DEF harborLog
<1> HIDE DEF e
<1> QED
  BY <1>1, <1>2, <1>3, LogOnce

LEMMA HarborDecideOnce ==
  ASSUME PaymentTypeOK, OnceInv, NEW w \in Worker, harborDecide(w)
  PROVE  OnceInv'
<1> DEFINE d == work[w].doc
<1>1. d \in TransactionDoc /\ work[w].step \notin Dispatching
  BY DEF PaymentTypeOK, Handler, harborDecide, At, Dispatching
<1>2. \/ \E x \in {"payout_sent", "completed", "failed"} :
           SaveOrLose(w, [d EXCEPT !.status = x], "idle", "idle")
      \/ SaveOrLose(w, d, "idle", "idle")
      \/ End(w) /\ Still
  BY Zenon DEF harborDecide
<1>3. CASE SaveOrLose(w, d, "idle", "idle")
  BY <1>1, <1>3, QuietSaveOnce
<1>4. \A x \in {"payout_sent", "completed", "failed"} : x \in Status /\ x \notin Unsent
  BY DEF Status, Unsent, Awaiting
<1> QED
  BY <1>1, <1>2, <1>3, <1>4, QuietStatusOnce, EndOnce

LEMMA PollOnce ==
  ASSUME PaymentTypeOK, OnceInv, NEW w \in Worker,
         pollHarbor(w) \/ handleHarborReversal(w) \/ pollVita(w) \/ handleVitaReversal(w)
  PROVE  OnceInv'
<1> DEFINE d == work[w].doc
<1>1. work[w].step \notin Dispatching
  BY DEF pollHarbor, handleHarborReversal, pollVita, handleVitaReversal, At, Dispatching
<1>2. \/ \E x \in {"completed", "failed", "refunded", "payout_sent"} :
           SaveOrLose(w, [d EXCEPT !.status = x], "idle", "idle")
      \/ SaveOrLose(w, GivesUp(d), "idle", "idle")
      \/ Lose(w, d, "idle")
      \/ End(w) /\ Still
  <2>1. CASE pollHarbor(w)
    <3> DEFINE moved == CASE payout = "completed" -> "completed"
                          [] payout \in {"failed", "expired"} -> "failed"
                          [] payout = "refunded" -> "refunded"
                          [] OTHER -> "payout_sent"
    <3>1. moved \in {"completed", "failed", "refunded", "payout_sent"}
      OBVIOUS
    <3>2. \/ SaveOrLose(w, [d EXCEPT !.status = moved], "idle", "idle")
          \/ SaveOrLose(w, GivesUp(d), "idle", "idle")
          \/ Lose(w, d, "idle")
      BY <2>1 DEF pollHarbor
    <3> HIDE DEF moved
    <3> QED
      BY <3>1, <3>2
  <2>2. CASE handleHarborReversal(w)
    BY <2>2 DEF handleHarborReversal
  <2>3. CASE pollVita(w)
    BY <2>3 DEF pollVita, finalizeVitaCompleted
  <2>4. CASE handleVitaReversal(w)
    BY <2>4 DEF handleVitaReversal
  <2> QED
    BY <2>1, <2>2, <2>3, <2>4
<1>3. \A x \in {"completed", "failed", "refunded", "payout_sent"} : x \in Status /\ x \notin Unsent
  BY DEF Status, Unsent, Awaiting
<1> HIDE DEF d
<1> QED
  BY <1>1, <1>2, <1>3, QuietStatusOnce, GivesUpOnce, QuietLoseOnce, EndOnce DEF d

(* The attempt is counted; the retry goes on as the dispatch it is.        *)
LEMMA MarkRetryOnce ==
  ASSUME PaymentTypeOK, OnceInv, NEW w \in Worker, markRetry(w)
  PROVE  OnceInv'
<1> DEFINE d == [work[w].doc EXCEPT !.retries = work[w].doc.retries + 1]
<1>0. work[w].step = "retryMark" /\ work[w].step \in Underway \ {"gate"}
  BY DEF markRetry, At, Underway
<1>1. /\ StepTells(work[w]) /\ work[w].doc \in TransactionDoc
      /\ work[w].doc.retries < MaxRetries
  BY <1>0, PastGate DEF PaymentTypeOK, Handler
<1>2. /\ d \in TransactionDoc /\ d.ref = work[w].doc.ref /\ d.status = work[w].doc.status
  <2>1. work[w].doc.retries + 1 \in 0 .. MaxRetries
    BY <1>1, LimitAssumption DEF TransactionDoc
  <2> QED
    BY <1>1, <2>1 DEF TransactionDoc
<1>3. /\ ~tx.ref /\ ~d.ref /\ corridor.payout = "owlPay" /\ d.status = work[w].read.status
      /\ ~work[w].read.ref
  BY <1>0, <1>1, <1>2 DEF StepTells, Kept, Dispatching
<1>4. \/ End(w) /\ Still
      \/ \E s \in Throws : SaveOrLose(w, d, "owlPay", s)
  BY DEF markRetry
<1> HIDE DEF d
<1>5. CASE Save(w, d, "owlPay")
  <2>1. PICK h : Goes(w, h) /\ h.step = "owlPay" /\ h.read = d /\ h.doc = d
    BY <1>2, <1>5, SaveFacts
  <2>2. /\ UNCHANGED <<corridor, payout, orders, sends, notices>>
        /\ tx'.status = tx.status /\ tx'.ref = tx.ref
    BY <1>2, <1>3, <1>5, SaveFacts, SaveMoves
  <2>3. tx'.status \notin Unsent
    BY <1>0, <2>2, PastGate
  <2>4. DocTells'
    BY <2>2, <2>3 DEF OnceInv, DocTells, Unsent
  <2>5. StepTells(h)'
    BY <1>3, <2>1, <2>2 DEF StepTells, Confirming, Dispatching
  <2> QED
    BY <1>0, <2>1, <2>2, <2>3, <2>4, <2>5, DispatchOnce
<1>6. ASSUME NEW s \in Throws, Lose(w, d, s)
      PROVE  OnceInv'
  <2>1. work[w].doc.ref => d.ref
    BY <1>2
  <2> QED
    BY <1>0, <1>2, <1>6, <2>1, DispatchLoseOnce DEF Throws, Loose
<1> QED
  BY <1>4, <1>5, <1>6, EndOnce DEF SaveOrLose

LEMMA PayoutStepOnce ==
  ASSUME OnceRails, PaymentTypeOK, OnceInv, NEW w \in Worker, PayoutStep(w)
  PROVE  OnceInv'
BY GateOnce, RouteOnce, RecoverOnce, SettleOnce, OwlPayOnce, HarborCreateOnce,
   StoreTransferOnce, LookupOnce, SubmitOnce, StoreSentOnce, FailsOnce, VitaPayOnce,
   HarborLogOnce, HarborDecideOnce, PollOnce, MarkRetryOnce
   DEF PayoutStep

(* The retry job and the script start only where nobody is at work.        *)
LEMMA StartAloneOnce ==
  ASSUME PaymentTypeOK, OnceInv, NEW w \in Worker, NEW s \in {"retryMark", "send"},
         NEW a, NEW c, Load(w, s, a, c), tx.status \notin Unsent,
         \A v \in Worker : ~Active(work[v]), corridor.payout = "owlPay",
         IF s = "send" THEN tx.ref ELSE ~tx.ref /\ c = "retry"
  PROVE  OnceInv'
<1>1. PICK h : Goes(w, h) /\ h.step = s /\ h.read = tx /\ h.doc = tx /\ h.caller = c
  BY DEF Load, Reads
<1>2. UNCHANGED <<tx, corridor, payout, orders, sends, notices>>
  BY DEF Load, Still, providers
<1>3. DocTells'
  BY <1>2 DEF OnceInv, DocTells, Untried, NothingOut
<1>4. HandlerTells(h)'
  BY <1>1, <1>2 DEF HandlerTells, StatusTells, StepTells, Active, Confirming, Kept, Unsent,
                    Awaiting, Dispatching
<1> QED
  BY <1>1, <1>2, <1>3, <1>4, AloneKeeps

LEMMA PayoutStartOnce ==
  ASSUME PaymentTypeOK, OnceInv, NEW w \in Worker, PayoutStart(w)
  PROVE  OnceInv'
<1>1. ASSUME NEW n \in Notice, handleOwlPayIPN(w, n)
      PROVE  OnceInv'
  BY <1>1, LoadOnce DEF handleOwlPayIPN, Confirming, Reads, Underway, Dispatching
<1>2. CASE reconcileHarborTransfers(w) \/ reconcileVitaTransfers(w)
  BY <1>2, LoadOnce DEF reconcileHarborTransfers, reconcileVitaTransfers, Confirming, Reads,
                        Underway, Dispatching
<1>3. CASE retryFailed(w)
  <2>1. \A v \in Worker : work[v].step \notin Dispatching /\ work[v].caller # "retry"
    BY <1>3 DEF retryFailed, HarborJobFree, Untouched, JobFree
  <2>2. \A v \in Worker : ~Confirming(work[v])
    BY <1>3 DEF retryFailed, OnceInv, HandlerTells, StepTells, Untried
  <2>3. \A v \in Worker : ~Active(work[v])
    BY <2>1, <2>2 DEF Active, Underway, OnceInv, HandlerTells, StepTells
  <2>4. Load(w, "retryMark", "new", "retry") /\ tx.status \notin Unsent /\ ~tx.ref
        /\ corridor.payout = "owlPay"
    BY <1>3 DEF retryFailed, HarborJobFree, Unsent, Awaiting
  <2> QED
    BY <2>3, <2>4, StartAloneOnce
<1>4. CASE resumeUsdcSend(w)
  <2>1. \A v \in Worker : work[v].step \notin Dispatching
    BY <1>4 DEF resumeUsdcSend, Untouched
  <2>2. \A v \in Worker : ~Active(work[v])
    BY <1>4, <2>1 DEF resumeUsdcSend, OnceInv, HandlerTells, StepTells, Untried, NothingOut,
                      Active, Underway
  <2>3. tx.status \notin Unsent
    BY <1>4 DEF resumeUsdcSend, OnceInv, DocTells, NothingOut
  <2> QED
    BY <1>4, <2>2, <2>3, StartAloneOnce DEF resumeUsdcSend
<1> QED
  BY <1>1, <1>2, <1>3, <1>4 DEF PayoutStart

LEMMA NextOnce ==
  ASSUME OnceRails, PaymentTypeOK, OnceInv, [Next]_paymentVars
  PROVE  OnceInv'
<1>0. ASSUME UNCHANGED work, UNCHANGED <<corridor, orders, sends>>, DocTells',
             tx'.ref = tx.ref, tx'.transient = tx.transient,
             tx'.status = tx.status \/ tx'.status \notin Unsent,
             payout' = payout \/ payout # "none"
      PROVE  OnceInv'
  <2>1. \A w \in Worker : HandlerTells(work[w])'
    BY <1>0 DEF OnceInv, HandlerTells, StatusTells, StepTells, Active, Confirming, Kept, Untried,
                NothingOut, Unsent, Awaiting
  <2> QED
    BY <1>0, <2>1 DEF OnceInv, OneActive
<1>1. CASE UNCHANGED paymentVars
  BY <1>0, <1>1 DEF paymentVars, OnceInv, DocTells, Untried, NothingOut
<1>2. CASE cleanupOrphanTransactions
  <2>1. /\ tx'.status = "failed" /\ tx'.ref = tx.ref /\ tx'.transient = tx.transient
        /\ UNCHANGED <<work, corridor, orders, sends, payout, notices>>
    BY <1>2 DEF cleanupOrphanTransactions, providers, PaymentTypeOK, TransactionDoc
  <2>2. DocTells' /\ tx'.status \notin Unsent
    BY <2>1 DEF OnceInv, DocTells, Unsent, Awaiting
  <2> QED
    BY <1>0, <2>1, <2>2
<1>3. CASE collect
  <2>1. /\ UNCHANGED <<tx, work, corridor, orders, sends, payout>>
        /\ "completed" \in notices' <=> "completed" \in notices
        /\ "failed" \in notices' <=> "failed" \in notices
    BY <1>3 DEF collect
  <2>2. DocTells'
    BY <2>1 DEF OnceInv, DocTells, Untried, NothingOut
  <2> QED
    BY <1>0, <2>1, <2>2
<1>4. CASE payoutEnds \/ payoutReverts
  <2>1. /\ UNCHANGED <<tx, work, corridor, orders, sends>>
        /\ payout # "none" /\ payout' # "none"
    BY <1>4 DEF payoutEnds, payoutReverts
  <2>2. DocTells'
    BY <2>1 DEF OnceInv, DocTells, Untried, NothingOut
  <2> QED
    BY <1>0, <2>1, <2>2
<1>5. CASE Restart
  <2>1. /\ UNCHANGED <<tx, corridor, orders, sends, payout, notices>>
        /\ work' = [w \in Worker |-> Idle]
    BY <1>5 DEF Restart, providers
  <2>2. DocTells'
    BY <2>1 DEF OnceInv, DocTells, Untried, NothingOut
  <2>3. \A w \in Worker : HandlerTells(work[w])'
    BY <2>1, IdleTellsNext
  <2>4. OneActive'
    BY <2>1, IdleTells DEF OneActive, Active, Confirming
  <2> QED
    BY <2>2, <2>3, <2>4 DEF OnceInv
<1> QED
  BY <1>1, <1>2, <1>3, <1>4, <1>5, PayinStepOnce, PayinStartOnce, PayoutStepOnce,
     PayoutStartOnce
  DEF Next, WorkerStep, WorkerStart

(* One withdrawal order or one USDC payment per payment, for any number of *)
(* handlers, retries, restarts, failed saves and lost answers: webhooks    *)
(* one at a time from the queue, Horizon answering the lookup of a memo,   *)
(* the payin from Fintoc, Vita or the wallet, and no admin putting a       *)
(* payment back before its payout.                                         *)
THEOREM PaymentsPaidOutOnce ==
  ASSUME OnceRails
  PROVE  Spec => []PaidOutOnce
<1>1. Init => OnceInv
  <2> SUFFICES ASSUME Init PROVE OnceInv
    OBVIOUS
  <2>1. \A w \in Worker : work[w] = Idle
    BY DEF Init, StoreInit
  <2>2. \A w \in Worker : HandlerTells(work[w]) /\ ~Active(work[w])
    BY <2>1, IdleTells
  <2>3. DocTells
    BY DEF Init, StoreInit, NoDoc, DocTells, Untried, NothingOut
  <2> QED
    BY <2>2, <2>3 DEF OnceInv, OneActive
<1>2. PaymentTypeOK /\ OnceInv /\ [Next]_paymentVars => OnceInv'
  BY NextOnce
<1>3. PaymentTypeOK /\ OnceInv => PaidOutOnce
  BY DEF OnceInv, DocTells, PaidOutOnce, PaymentTypeOK
<1> QED
  BY <1>1, <1>2, <1>3, PaymentTypes, PTL DEF Spec

-----------------------------------------------------------------------------
(* Completed means delivered.  Until the provider has ended the payout,    *)
(* nobody has the word "completed": no document, no copy of one, no        *)
(* webhook and no admin; and no webhook of Vita's that is about a payin    *)
(* can be taken for one about the payout.                                  *)
DeliveryRails ==
  /\ \A c \in Corridor : c.payin # "vita"
  /\ "completed" \notin AdminForces

Ended == payout \in {"completed", "failed", "refunded"}

Silent(h) ==
  /\ h.read.status # "completed"
  /\ h.doc.status # "completed"
  /\ h.arg # "completed"
  /\ h.step = "vitaDecide" => h.arg # "payin_completed"

Unsaid ==
  /\ tx.status # "completed"
  /\ "completed" \notin notices
  /\ \A w \in Worker : Silent(work[w])

LEMMA EndedStays ==
  ASSUME Ended, [Next]_paymentVars
  PROVE  Ended'
<1>1. CASE UNCHANGED paymentVars
  BY <1>1 DEF Ended, paymentVars
<1>2. CASE collect \/ cleanupOrphanTransactions \/ payoutEnds \/ payoutReverts \/ Restart
  BY <1>2 DEF Ended, collect, cleanupOrphanTransactions, payoutEnds, payoutReverts,
              Restart, providers
<1>3. ASSUME NEW w \in Worker, PayinStep(w) \/ PayinStart(w)
      PROVE  Ended'
  <2>1. UNCHANGED payout
    <3> USE DEF providers, Still, Load, Save, Lose, SaveOrLose, Confirm
    <3>1. CASE uploadPaymentProof(w) \/ handleFintocIPN(w)
      BY <3>1 DEF uploadPaymentProof, handleFintocIPN
    <3>2. CASE vitaDecide(w)
      BY <3>2 DEF vitaDecide
    <3>3. CASE confirmBankQrTx(w) \/ failExpiredBankQrTx(w)
      BY <3>3 DEF confirmBankQrTx, failExpiredBankQrTx
    <3>4. CASE sweepStatus(w) \/ sweepCancel(w)
      BY <3>4 DEF sweepStatus, sweepCancel
    <3>5. CASE updateTransactionStatus(w)
      BY <3>5 DEF updateTransactionStatus
    <3>6. CASE PayinStart(w)
      BY <3>6 DEF PayinStart, initCrossBorderPayment, handleVitaIPN, handleBankQrIPN,
                  reconcilePaidQRs, sweepExpiredQRs, retryPendingFundingTransactions
    <3> QED
      BY <1>3, <3>1, <3>2, <3>3, <3>4, <3>5, <3>6 DEF PayinStep
  <2> QED
    BY <2>1 DEF Ended
<1>4. ASSUME NEW w \in Worker, PayoutStep(w) \/ PayoutStart(w)
      PROVE  Ended'
  <2> USE DEF providers, Still, Load, Save, Lose, SaveOrLose, Ended
  <2>1. CASE dispatchGate(w) \/ dispatchRoute(w) \/ dispatchRecover(w)
    BY <2>1 DEF dispatchGate, dispatchRoute, dispatchRecover
  <2>2. CASE settleCreate(w) \/ tryOwlPayV2(w) \/ storeTransfer(w) \/ findTransactionByMemo(w)
    BY <2>2 DEF settleCreate, tryOwlPayV2, storeTransfer, findTransactionByMemo
  <2>3. CASE createOwlPayTransfer(w) \/ submitTransaction(w) \/ createPayout(w)
    BY <2>3 DEF createOwlPayTransfer, submitTransaction, createPayout
  <2>4. CASE storeSent(w) \/ dispatchFails(w) \/ storeVitaPayout(w) \/ harborLog(w)
    BY <2>4 DEF storeSent, dispatchFails, storeVitaPayout, harborLog
  <2>5. CASE harborDecide(w)
    BY <2>5 DEF harborDecide
  <2>6. CASE pollHarbor(w) \/ handleHarborReversal(w) \/ markRetry(w)
    BY <2>6 DEF pollHarbor, handleHarborReversal, markRetry
  <2>7. CASE pollVita(w) \/ handleVitaReversal(w)
    BY <2>7 DEF pollVita, handleVitaReversal
  <2>8. CASE PayoutStart(w)
    BY <2>8 DEF PayoutStart, handleOwlPayIPN, reconcileHarborTransfers, retryFailed,
                resumeUsdcSend, reconcileVitaTransfers
  <2> QED
    BY <1>4, <2>1, <2>2, <2>3, <2>4, <2>5, <2>6, <2>7, <2>8 DEF PayoutStep
<1> QED
  BY <1>1, <1>2, <1>3, <1>4 DEF Next, WorkerStep, WorkerStart

-----------------------------------------------------------------------------
LEMMA HandlerSilent ==
  ASSUME PaymentTypeOK, Unsaid, NEW w \in Worker, NEW h, Goes(w, h), Silent(h),
         tx'.status # "completed", "completed" \notin notices'
  PROVE  Unsaid'
<1>1. Silent(Idle)
  BY DEF Silent, Idle, NoDoc
<1>2. \A v \in Worker : work'[v] \in {work[v], h, Idle}
  BY DEF Goes, PaymentTypeOK
<1>3. \A v \in Worker : Silent(work'[v])
  BY <1>1, <1>2 DEF Unsaid
<1> QED
  BY <1>3 DEF Unsaid

LEMMA SaveSilent ==
  ASSUME PaymentTypeOK, Unsaid, NEW w \in Worker, NEW d \in TransactionDoc,
         d.status # "completed", NEW s, NEW l, s # "vitaDecide", l # "vitaDecide",
         SaveOrLose(w, d, s, l)
  PROVE  Unsaid'
<1>0. Silent(work[w]) /\ tx.status # "completed" /\ "completed" \notin notices
  BY DEF Unsaid
<1>1. CASE Save(w, d, s)
  <2>1. PICK h : Goes(w, h) /\ h.step = s /\ h.read = d /\ h.doc = d /\ h.arg = work[w].arg
    BY <1>1, SaveFacts
  <2>2. tx'.status # "completed" /\ notices' = notices
    BY <1>0, <1>1, SaveFacts, SaveMoves
  <2>3. Silent(h)
    BY <1>0, <2>1 DEF Silent
  <2> QED
    BY <1>0, <2>1, <2>2, <2>3, HandlerSilent
<1>2. CASE Lose(w, d, l)
  <2>1. PICK h : /\ Goes(w, h) /\ h.step = l /\ h.read = work[w].read /\ h.doc = d
                 /\ h.arg = work[w].arg
    BY <1>2, LoseFacts
  <2>2. UNCHANGED <<tx, notices>>
    BY <1>2, LoseFacts
  <2>3. Silent(h)
    BY <1>0, <2>1 DEF Silent
  <2> QED
    BY <1>0, <2>1, <2>2, <2>3, HandlerSilent
<1> QED
  BY <1>1, <1>2 DEF SaveOrLose

LEMMA LoseSilent ==
  ASSUME PaymentTypeOK, Unsaid, NEW w \in Worker, NEW s, s # "vitaDecide",
         Lose(w, work[w].doc, s)
  PROVE  Unsaid'
<1>1. work[w].doc \in TransactionDoc /\ work[w].doc.status # "completed"
  BY DEF PaymentTypeOK, Handler, Unsaid, Silent
<1>2. SaveOrLose(w, work[w].doc, s, s)
  BY DEF SaveOrLose
<1> QED
  BY <1>1, <1>2, SaveSilent

LEMMA GotoSilent ==
  ASSUME PaymentTypeOK, Unsaid, NEW w \in Worker, NEW s, s # "vitaDecide", Goto(w, s),
         tx' = tx, "completed" \notin notices'
  PROVE  Unsaid'
<1>1. PICK h : /\ Goes(w, h) /\ h.step = s /\ h.read = work[w].read /\ h.doc = work[w].doc
               /\ h.arg = work[w].arg
  BY GotoFacts
<1>2. Silent(h)
  BY <1>1 DEF Unsaid, Silent
<1> QED
  BY <1>1, <1>2, HandlerSilent DEF Unsaid

LEMMA StillSilent ==
  ASSUME PaymentTypeOK, Unsaid, NEW w \in Worker, NEW s, s # "vitaDecide", Goto(w, s), Still
  PROVE  Unsaid'
BY GotoSilent DEF Still, providers, Unsaid

LEMMA EndSilent ==
  ASSUME PaymentTypeOK, Unsaid, NEW w \in Worker, End(w), Still
  PROVE  Unsaid'
BY StillSilent DEF End

LEMMA LoadSilent ==
  ASSUME PaymentTypeOK, Unsaid, NEW w \in Worker, NEW s, NEW a, NEW c, Load(w, s, a, c),
         a # "completed", s = "vitaDecide" => a # "payin_completed"
  PROVE  Unsaid'
<1>1. PICK h : Goes(w, h) /\ h.step = s /\ h.read = tx /\ h.doc = tx /\ h.arg = a
  BY DEF Load, Reads
<1>2. Silent(h)
  BY <1>1 DEF Unsaid, Silent
<1> QED
  BY <1>1, <1>2, HandlerSilent DEF Load, Still, providers, Unsaid

LEMMA ConfirmSilent ==
  ASSUME PaymentTypeOK, Unsaid, NEW w \in Worker, NEW d \in TransactionDoc,
         d.status # "completed", Confirm(w, d)
  PROVE  Unsaid'
<1>1. PICK h : Goes(w, h) /\ h.step = "gate" /\ h.read = d /\ h.doc = d /\ h.arg = work[w].arg
  <2> DEFINE g == [work[w] EXCEPT !.step = "gate", !.read = d, !.doc = d, !.caller = "request"]
  <2>1. g.step = "gate" /\ g.read = d /\ g.doc = d /\ g.arg = work[w].arg
    BY DEF PaymentTypeOK, Handler
  <2>2. Goes(w, g)
    BY DEF Confirm
  <2> HIDE DEF g
  <2> QED
    BY <2>1, <2>2
<1>2. Silent(h)
  BY <1>1 DEF Unsaid, Silent
<1>3. tx'.status # "completed" /\ notices' = notices
  BY DEF Confirm, Merged, Unsaid, providers
<1> QED
  BY <1>1, <1>2, <1>3, HandlerSilent DEF Unsaid

-----------------------------------------------------------------------------
LEMMA PayinStepSilent ==
  ASSUME DeliveryRails, PaymentTypeOK, Unsaid, NEW w \in Worker, PayinStep(w)
  PROVE  Unsaid'
<1> DEFINE d == work[w].doc
<1>d. /\ d \in TransactionDoc /\ d.status # "completed"
      /\ work[w].arg # "completed" /\ work[w].arg \in Notice \cup Status
      /\ work[w].step = "vitaDecide" => work[w].arg # "payin_completed"
  BY DEF PaymentTypeOK, Handler, Unsaid, Silent
<1>c. /\ Confirmed(d) \in TransactionDoc /\ Confirmed(d).status # "completed"
      /\ Failed(d) \in TransactionDoc /\ Failed(d).status # "completed"
  BY <1>d DEF Confirmed, Failed, TransactionDoc, Status
<1>1. CASE uploadPaymentProof(w)
  <2> DEFINE e == [d EXCEPT !.proof = TRUE, !.status = IF @ = "pending_comprobante"
                                                       THEN "payin_pending" ELSE @]
  <2>1. e \in TransactionDoc /\ e.status # "completed"
    BY <1>d DEF TransactionDoc, Status
  <2>2. Load(w, "proof", "new", "request") \/ SaveOrLose(w, e, "idle", "idle")
    BY <1>1 DEF uploadPaymentProof
  <2> HIDE DEF e
  <2> QED
    BY <2>1, <2>2, LoadSilent, SaveSilent
<1>2. CASE handleFintocIPN(w)
  <2> DEFINE e == [d EXCEPT !.log = @ \cup {"payin_completed"}]
  <2>1. e \in TransactionDoc /\ e.status # "completed"
    BY <1>d DEF TransactionDoc, Notice
  <2>2. \/ Load(w, "fintocLog", "payin_completed", "request")
        \/ SaveOrLose(w, e, "fintocDecide", "fintocDecide")
        \/ Confirm(w, Confirmed(d)) \/ Lose(w, d, "idle") \/ (End(w) /\ Still)
    BY <1>2 DEF handleFintocIPN
  <2> HIDE DEF e
  <2> QED
    BY <1>c, <2>1, <2>2, LoadSilent, SaveSilent, ConfirmSilent, LoseSilent, EndSilent
<1>3. CASE vitaDecide(w)
  <2>1. work[w].arg \notin {"payin_completed", "completed"}
    BY <1>3, <1>d DEF vitaDecide, At
  <2>2. SaveOrLose(w, Failed(d), "idle", "idle") \/ (End(w) /\ Still)
    BY <1>3, <2>1, Zenon DEF vitaDecide
  <2> QED
    BY <1>c, <2>2, SaveSilent, EndSilent
<1>4. CASE confirmBankQrTx(w)
  <2> DEFINE e == [Confirmed(d) EXCEPT !.paidAt = TRUE]
  <2>1. e \in TransactionDoc /\ e.status # "completed"
    BY <1>d DEF Confirmed, TransactionDoc, Status
  <2>2. Confirm(w, e) \/ Lose(w, d, "idle")
    BY <1>4 DEF confirmBankQrTx
  <2> HIDE DEF e
  <2> QED
    BY <2>1, <2>2, ConfirmSilent, LoseSilent
<1>5. CASE sweepStatus(w)
  <2>1. PICK s \in {"idle", "bankConfirm", "sweepCancel", "sweepFail"} : Goto(w, s)
    BY <1>5 DEF sweepStatus
  <2> QED
    BY <1>5, <2>1, GotoSilent DEF sweepStatus, providers, Unsaid
<1>6. CASE sweepCancel(w)
  BY <1>6, GotoSilent DEF sweepCancel, Unsaid
<1>7. CASE failExpiredBankQrTx(w)
  BY <1>7, <1>c, SaveSilent DEF failExpiredBankQrTx
<1>8. CASE updateTransactionStatus(w)
  <2>1. CASE Load(w, "admin", "payin_confirmed", "request")
    BY <2>1, LoadSilent
  <2>2. ASSUME NEW s \in AdminForces, Load(w, "admin", s, "request")
        PROVE  Unsaid'
    BY <2>2, LoadSilent DEF DeliveryRails
  <2>3. CASE At(w, "admin")
    <3> DEFINE e == [d EXCEPT !.status = work[w].arg]
    <3>1. e \in TransactionDoc /\ e.status # "completed"
      BY <1>d, <2>3 DEF At, PaymentTypeOK, Handler, TransactionDoc
    <3>2. \/ SaveOrLose(w, e, "idle", "idle")
          \/ Confirm(w, Confirmed(d)) \/ Lose(w, d, "idle") \/ (End(w) /\ Still)
      BY <1>8, <2>3 DEF updateTransactionStatus, At, Load, Free
    <3> HIDE DEF e
    <3> QED
      BY <1>c, <3>1, <3>2, SaveSilent, ConfirmSilent, LoseSilent, EndSilent
  <2> QED
    BY <1>8, <2>1, <2>2, <2>3 DEF updateTransactionStatus
<1> QED
  BY <1>1, <1>2, <1>3, <1>4, <1>5, <1>6, <1>7, <1>8 DEF PayinStep

LEMMA PayinStartSilent ==
  ASSUME DeliveryRails, PaymentTypeOK, Unsaid, NEW w \in Worker, PayinStart(w)
  PROVE  Unsaid'
<1>0. Silent(Idle)
  BY DEF Silent, Idle, NoDoc
<1>1. CASE initCrossBorderPayment(w)
  <2>1. PICK s \in {"payin_confirmed", "pending_comprobante", "payin_pending"} :
          tx' = [NoDoc EXCEPT !.status = s]
    BY <1>1 DEF initCrossBorderPayment
  <2>2. tx'.status # "completed" /\ notices' = notices
    BY <1>1, <2>1 DEF NoDoc, initCrossBorderPayment, providers
  <2>3. CASE UNCHANGED work
    BY <2>2, <2>3 DEF Unsaid
  <2>4. CASE work' # work
    <3>1. PICK h : Goes(w, h) /\ Silent(h)
      <4> DEFINE g == [Idle EXCEPT !.step = "gate", !.caller = "create",
                                   !.read = tx', !.doc = tx']
      <4>1. g.step = "gate" /\ g.read = tx' /\ g.doc = tx' /\ g.arg = "new"
        BY DEF Idle
      <4>2. Goes(w, g)
        BY <1>1, <2>4 DEF initCrossBorderPayment
      <4> HIDE DEF g
      <4>3. Silent(g)
        BY <2>2, <4>1 DEF Silent
      <4> QED
        BY <4>2, <4>3
    <3> QED
      BY <2>2, <3>1, HandlerSilent DEF Unsaid
  <2> QED
    BY <2>3, <2>4
<1>2. ASSUME NEW n \in Notice, handleVitaIPN(w, n)
      PROVE  Unsaid'
  <2>1. corridor.payin # "vita"
    BY DEF DeliveryRails, PaymentTypeOK
  <2>2. n \notin {"completed", "payin_completed"}
    BY <1>2, <2>1 DEF handleVitaIPN, Unsaid
  <2> QED
    BY <1>2, <2>2, LoadSilent DEF handleVitaIPN
<1>3. CASE handleBankQrIPN(w) \/ reconcilePaidQRs(w) \/ sweepExpiredQRs(w)
  BY <1>3, LoadSilent DEF handleBankQrIPN, reconcilePaidQRs, sweepExpiredQRs
<1>4. CASE retryPendingFundingTransactions(w)
  <2>1. tx'.status # "completed" /\ notices' = notices
    BY <1>4 DEF retryPendingFundingTransactions, Confirmed, PaymentTypeOK, TransactionDoc,
                providers
  <2>2. PICK h : Goes(w, h) /\ Silent(h)
    <3> DEFINE g == [Idle EXCEPT !.step = "gate", !.read = tx', !.doc = tx']
    <3>1. g.step = "gate" /\ g.read = tx' /\ g.doc = tx' /\ g.arg = "new"
      BY DEF Idle
    <3>2. Goes(w, g)
      BY <1>4 DEF retryPendingFundingTransactions
    <3> HIDE DEF g
    <3>3. Silent(g)
      BY <2>1, <3>1 DEF Silent
    <3> QED
      BY <3>2, <3>3
  <2> QED
    BY <2>1, <2>2, HandlerSilent DEF Unsaid
<1> QED
  BY <1>1, <1>2, <1>3, <1>4 DEF PayinStart

LEMMA PayoutStepSilent ==
  ASSUME PaymentTypeOK, Unsaid, ~Ended, NEW w \in Worker, PayoutStep(w)
  PROVE  Ended' \/ Unsaid'
<1> DEFINE d == work[w].doc
           Other == Step \ {"vitaDecide"}
<1>d. d \in TransactionDoc /\ d.status # "completed" /\ work[w].arg # "completed"
  BY DEF PaymentTypeOK, Handler, Unsaid, Silent
<1>a. /\ After(w) \in Other
      /\ {"idle", "recover", "recoverSave", "owlPay", "vitaPay", "send", "submit", "sent",
          "create", "store", "failTransient", "failOther", "vitaSent", "harborDecide"}
         \subseteq Other
  BY DEF After, Step, IpnStep
<1>u. "vitaDecide" \notin Other
  OBVIOUS
<1> HIDE DEF Other
<1>s. ASSUME NEW s \in Status, s # "completed"
      PROVE  /\ [d EXCEPT !.status = s] \in TransactionDoc
             /\ [d EXCEPT !.status = s].status # "completed"
             /\ [d EXCEPT !.ref = TRUE, !.status = s] \in TransactionDoc
             /\ [d EXCEPT !.ref = TRUE, !.status = s].status # "completed"
             /\ [d EXCEPT !.hash = TRUE, !.status = s] \in TransactionDoc
             /\ [d EXCEPT !.hash = TRUE, !.status = s].status # "completed"
             /\ [d EXCEPT !.status = s, !.transient = FALSE] \in TransactionDoc
             /\ [d EXCEPT !.status = s, !.transient = FALSE].status # "completed"
  BY <1>d, <1>s DEF TransactionDoc
<1>t. {"failed", "pending_funding", "pending_fx_review", "payout_pending",
       "payout_sent", "refunded", "payout_pending_usdc_send"} \subseteq Status \ {"completed"}
  BY DEF Status
<1>x. ASSUME \/ \E s \in Other : Goto(w, s) /\ Still
             \/ \E s \in Other : Lose(w, d, s)
             \/ \E e \in TransactionDoc, p, q \in Other :
                  e.status # "completed" /\ SaveOrLose(w, e, p, q)
      PROVE  Unsaid'
  BY <1>x, <1>u, StillSilent, LoseSilent, SaveSilent
<1>y. ASSUME \/ \E s \in Status \ {"completed"}, p, q \in Other :
                  \/ SaveOrLose(w, [d EXCEPT !.status = s], p, q)
                  \/ SaveOrLose(w, [d EXCEPT !.ref = TRUE, !.status = s], p, q)
                  \/ SaveOrLose(w, [d EXCEPT !.hash = TRUE, !.status = s], p, q)
                  \/ SaveOrLose(w, [d EXCEPT !.status = s, !.transient = FALSE], p, q)
      PROVE  Unsaid'
  BY <1>s, <1>x, <1>y
<1>1. CASE dispatchGate(w)
  <2>1. CASE Goto(w, After(w)) /\ Still
    BY <1>a, <2>1, <1>x
  <2>2. CASE tx.status = "payin_confirmed"
    <3>1. tx'.status = "processing" /\ notices' = notices
      BY <1>1, <2>2 DEF dispatchGate, PaymentTypeOK, TransactionDoc, providers
    <3>2. PICK h : Goes(w, h) /\ Silent(h)
      <4> DEFINE g == [work[w] EXCEPT !.step = "route", !.read = tx', !.doc = tx']
      <4>1. g.step = "route" /\ g.read = tx' /\ g.doc = tx' /\ g.arg = work[w].arg
        BY DEF PaymentTypeOK, Handler
      <4>2. Goes(w, g)
        BY <1>1, <2>2 DEF dispatchGate
      <4> HIDE DEF g
      <4>3. Silent(g)
        BY ZenonT(60), <1>d, <3>1, <4>1 DEF Silent
      <4> QED
        BY <4>2, <4>3
    <3> QED
      BY <3>1, <3>2, HandlerSilent DEF Unsaid
  <2> QED
    BY <1>1, <2>1, <2>2 DEF dispatchGate
<1>2. CASE dispatchRoute(w)
  <2>1. \/ \E s \in Other : Goto(w, s) /\ Still
        \/ \E s \in Status \ {"completed"} :
             SaveOrLose(w, [d EXCEPT !.status = s], After(w), After(w))
        \/ \E s \in Other : Lose(w, d, s)
    BY <1>2, <1>a, <1>t DEF dispatchRoute
  <2> HIDE DEF d
  <2> QED
    BY <1>a, <1>x, <1>y, <2>1
<1>3. CASE dispatchRecover(w)
  <2>1. CASE At(w, "recover")
    <3>1. PICK h : Goes(w, h) /\ h.step \in Other /\ h.read = tx /\ h.doc = tx
                   /\ h.arg = work[w].arg
      <4> DEFINE t == IF tx.status = "processing" THEN "recoverSave" ELSE After(w)
                 g == [work[w] EXCEPT !.step = t, !.read = tx, !.doc = tx]
      <4>1. Goes(w, g)
        BY <1>3, <2>1 DEF dispatchRecover, At
      <4>2. t \in Other
        BY <1>a
      <4> HIDE DEF t
      <4>3. g.step = t /\ g.read = tx /\ g.doc = tx /\ g.arg = work[w].arg
        BY DEF PaymentTypeOK, Handler
      <4> HIDE DEF g
      <4> QED
        BY <4>1, <4>2, <4>3
    <3>2. Silent(h)
      BY <1>d, <1>u, <3>1 DEF Unsaid, Silent
    <3>3. UNCHANGED <<tx, notices>>
      BY ZenonT(60), <1>3, <2>1 DEF dispatchRecover, At, Still, providers
    <3> QED
      BY <3>1, <3>2, <3>3, HandlerSilent DEF Unsaid
  <2>2. CASE SaveOrLose(w, [d EXCEPT !.status = "failed"], After(w), After(w))
    BY <1>a, <1>t, <1>y, <2>2
  <2> QED
    BY <1>3, <2>1, <2>2 DEF dispatchRecover
<1>4. CASE settleCreate(w)
  <2>1. Lose(w, d, "idle") \/ (Goto(w, "idle") /\ UNCHANGED <<tx, notices>>)
    BY SMTT(60), <1>4 DEF settleCreate, End, providers
  <2> QED
    BY Zenon, <2>1, LoseSilent, GotoSilent DEF Unsaid
<1>5. CASE tryOwlPayV2(w) \/ storeTransfer(w) \/ storeSent(w) \/ storeVitaPayout(w)
  <2>1. \/ \E s \in Other : Goto(w, s) /\ Still
        \/ \E s \in Status \ {"completed"}, p, q \in Other :
              \/ SaveOrLose(w, [d EXCEPT !.status = s], p, q)
              \/ SaveOrLose(w, [d EXCEPT !.ref = TRUE, !.status = s], p, q)
              \/ SaveOrLose(w, [d EXCEPT !.hash = TRUE, !.status = s], p, q)
        \/ \E s \in Other : Lose(w, d, s)
    BY <1>5, <1>a, <1>t DEF tryOwlPayV2, storeTransfer, storeSent, storeVitaPayout, Throws
  <2> HIDE DEF d
  <2> QED
    BY ZenonT(60), <1>x, <1>y, <2>1
<1>6. CASE createOwlPayTransfer(w)
  <2>1. PICK s \in Other : Goto(w, s)
    BY <1>6, <1>a DEF createOwlPayTransfer, Throws
  <2>2. tx' = tx /\ "completed" \notin notices'
    BY <1>6 DEF createOwlPayTransfer, Unsaid
  <2> QED
    BY <1>u, <2>1, <2>2, GotoSilent
<1>7. CASE findTransactionByMemo(w)
  <2>1. (\E s \in Other : Goto(w, s) /\ Still) \/ Lose(w, d, "submit")
    BY <1>7, <1>a DEF findTransactionByMemo
  <2> HIDE DEF d
  <2> QED
    BY <1>a, <1>x, <2>1
<1>8. CASE submitTransaction(w)
  <2>1. PICK s \in Other : Goto(w, s)
    BY <1>8, <1>a DEF submitTransaction
  <2>2. tx' = tx /\ "completed" \notin notices'
    BY <1>8 DEF submitTransaction, Unsaid
  <2> QED
    BY <1>u, <2>1, <2>2, GotoSilent
<1>9. CASE dispatchFails(w)
  <2> DEFINE again == At(w, "failTransient")
                      /\ (work[w].caller = "retry" => d.retries < MaxRetries)
             e == [d EXCEPT !.status = "failed", !.transient = again]
  <2>1. again \in BOOLEAN
    OBVIOUS
  <2> HIDE DEF again
  <2>2. e \in TransactionDoc /\ e.status # "completed"
    BY <1>d, <1>t, <2>1 DEF TransactionDoc
  <2>3. (End(w) /\ Still) \/ SaveOrLose(w, e, After(w), After(w))
    BY <1>9 DEF dispatchFails, again
  <2> HIDE DEF e
  <2> QED
    BY <1>a, <1>x, <2>2, <2>3, EndSilent
<1>10. CASE createPayout(w)
  <2>1. \/ \E s \in Status \ {"completed"}, p, q \in Other :
             SaveOrLose(w, [d EXCEPT !.status = s], p, q)
        \/ \E s \in Other : Lose(w, d, s)
        \/ \E s \in Other : Goto(w, s) /\ Still
        \/ \E s \in Other : Goto(w, s) /\ UNCHANGED <<tx, notices>>
    BY <1>10, <1>a, <1>t DEF createPayout
  <2>2. ASSUME NEW s \in Other, Goto(w, s), UNCHANGED <<tx, notices>>
        PROVE  Unsaid'
    BY <1>u, <2>2, GotoSilent DEF Unsaid
  <2> HIDE DEF d
  <2> QED
    BY <1>x, <1>y, <2>1, <2>2
<1>11. CASE harborLog(w)
  <2> DEFINE e == [d EXCEPT !.log = @ \cup {work[w].arg}]
  <2>1. e \in TransactionDoc /\ e.status # "completed"
    <3>1. work[w].arg \in Notice
      BY <1>11 DEF harborLog, At, PaymentTypeOK, Handler
    <3> QED
      BY <1>d, <3>1 DEF TransactionDoc
  <2>2. SaveOrLose(w, e, "harborDecide", "harborDecide")
    BY ZenonT(60), <1>11 DEF harborLog
  <2> HIDE DEF e
  <2> QED
    BY <1>a, <1>x, <2>1, <2>2
<1>12. CASE harborDecide(w)
  <2>1. \/ SaveOrLose(w, [d EXCEPT !.status = "payout_sent"], "idle", "idle")
        \/ SaveOrLose(w, [d EXCEPT !.status = "failed"], "idle", "idle")
        \/ SaveOrLose(w, d, "idle", "idle")
        \/ End(w) /\ Still
    BY <1>12, <1>d, Zenon DEF harborDecide
  <2>2. CASE SaveOrLose(w, d, "idle", "idle") \/ (End(w) /\ Still)
    BY ZenonT(60), <1>a, <1>d, <1>x, <2>2, EndSilent
  <2> QED
    BY <1>a, <1>t, <1>y, <2>1, <2>2
<1>13. CASE pollHarbor(w)
  <2> DEFINE moved == CASE payout = "completed" -> "completed"
                        [] payout \in {"failed", "expired"} -> "failed"
                        [] payout = "refunded" -> "refunded"
                        [] OTHER -> "payout_sent"
  <2>1. moved \in Status \ {"completed"}
    BY <1>t DEF Ended
  <2>2. \/ SaveOrLose(w, [d EXCEPT !.status = moved], "idle", "idle")
        \/ SaveOrLose(w, GivesUp(d), "idle", "idle")
        \/ Lose(w, d, "idle")
    BY ZenonT(60), <1>13 DEF pollHarbor
  <2> HIDE DEF d, moved
  <2> QED
    BY <1>a, <1>t, <1>x, <1>y, <2>1, <2>2 DEF GivesUp
<1>14. CASE handleHarborReversal(w) \/ handleVitaReversal(w)
  <2>1. \/ SaveOrLose(w, GivesUp(d), "idle", "idle")
        \/ End(w) /\ Still
        \/ Lose(w, d, "idle")
    BY <1>14 DEF handleHarborReversal, handleVitaReversal
  <2> HIDE DEF d
  <2> QED
    BY <1>a, <1>t, <1>x, <1>y, <2>1, EndSilent DEF GivesUp
<1>15. CASE markRetry(w)
  <2> DEFINE e == [d EXCEPT !.retries = @ + 1]
  <2>1. CASE End(w) /\ Still
    BY <2>1, EndSilent
  <2>2. ASSUME NEW s \in Throws, SaveOrLose(w, e, "owlPay", s)
        PROVE  Unsaid'
    <3>1. d.retries < MaxRetries
      BY <1>15 DEF markRetry, At, PaymentTypeOK, Handler, End, Goto
    <3>2. e \in TransactionDoc /\ e.status # "completed"
      BY <1>d, <3>1, LimitAssumption DEF TransactionDoc
    <3> HIDE DEF e
    <3> QED
      BY <1>a, <1>x, <2>2, <3>2 DEF Throws
  <2> QED
    BY <1>15, <2>1, <2>2 DEF markRetry
<1>16. CASE pollVita(w)
  <2>1. \/ SaveOrLose(w, GivesUp(d), "idle", "idle")
        \/ End(w) /\ Still
        \/ Lose(w, d, "idle")
    BY <1>16 DEF pollVita, Ended
  <2> HIDE DEF d
  <2> QED
    BY <1>a, <1>t, <1>x, <1>y, <2>1, EndSilent DEF GivesUp
<1> QED
  BY <1>1, <1>2, <1>3, <1>4, <1>5, <1>6, <1>7, <1>8, <1>9, <1>10, <1>11, <1>12, <1>13,
     <1>14, <1>15, <1>16
  DEF PayoutStep

LEMMA PayoutStartSilent ==
  ASSUME PaymentTypeOK, Unsaid, NEW w \in Worker, PayoutStart(w)
  PROVE  Unsaid'
<1>1. ASSUME NEW n \in Notice, handleOwlPayIPN(w, n)
      PROVE  Unsaid'
  BY <1>1, LoadSilent DEF handleOwlPayIPN, Unsaid
<1>2. CASE reconcileHarborTransfers(w) \/ reconcileVitaTransfers(w)
  BY <1>2, LoadSilent DEF reconcileHarborTransfers, reconcileVitaTransfers
<1>3. CASE retryFailed(w) \/ resumeUsdcSend(w)
  BY <1>3, LoadSilent DEF retryFailed, resumeUsdcSend
<1> QED
  BY <1>1, <1>2, <1>3 DEF PayoutStart

LEMMA NextDelivered ==
  ASSUME DeliveryRails, PaymentTypeOK, Ended \/ Unsaid, [Next]_paymentVars
  PROVE  Ended' \/ Unsaid'
<1>1. CASE Ended
  BY <1>1, EndedStays
<1> SUFFICES ASSUME ~Ended, Unsaid
             PROVE  Ended' \/ Unsaid'
  BY <1>1
<1>2. CASE UNCHANGED paymentVars
  BY <1>2 DEF Unsaid, paymentVars
<1>3. CASE cleanupOrphanTransactions
  BY <1>3 DEF cleanupOrphanTransactions, Unsaid, PaymentTypeOK, TransactionDoc, providers
<1>4. CASE collect
  BY <1>4 DEF collect, Unsaid
<1>5. CASE payoutEnds \/ payoutReverts
  BY <1>5 DEF payoutEnds, payoutReverts, Unsaid, Ended
<1>6. CASE Restart
  BY <1>6 DEF Restart, Unsaid, Silent, Idle, NoDoc, providers
<1> QED
  BY <1>2, <1>3, <1>4, <1>5, <1>6, PayinStepSilent, PayinStartSilent, PayoutStepSilent,
     PayoutStartSilent
  DEF Next, WorkerStep, WorkerStart

(* The user is told "completed" only of a payout the provider completed,   *)
(* for any number of handlers, retries, restarts, failed saves and lost    *)
(* answers, on every corridor whose payin is not Vita's (whose webhook,    *)
(* when it comes again, is taken for one of the payout) and as long as no  *)
(* admin writes "completed" by hand.                                       *)
THEOREM CompletedMeansDelivered ==
  ASSUME DeliveryRails
  PROVE  Spec => []CompletedIsDelivered
<1>1. Init => Unsaid
  BY DEF Init, StoreInit, Unsaid, Silent, Idle, NoDoc
<1>2. PaymentTypeOK /\ (Ended \/ Unsaid) /\ [Next]_paymentVars => (Ended \/ Unsaid)'
  BY NextDelivered
<1>3. Ended \/ Unsaid => CompletedIsDelivered
  BY DEF Ended, Unsaid, CompletedIsDelivered
<1> QED
  BY <1>1, <1>2, <1>3, PaymentTypes, PTL DEF Spec

-----------------------------------------------------------------------------
(* The USDC leaves once.  A handler submits only after it has looked, and  *)
(* found nothing, under the memo: with nobody else at work in between and  *)
(* Horizon answering, what it saw still holds when it submits.             *)
OneAtATime == HorizonAnswers = TRUE /\ \A v, w \in Worker : v = w

NobodySubmits == \A w \in Worker : work[w].step # "submit"
Looked == sends = 0 \/ (sends = 1 /\ NobodySubmits)

LEMMA LandsOff ==
  ASSUME OneAtATime, PaymentTypeOK, NEW w \in Worker, NEW h, Goes(w, h), h.step # "submit"
  PROVE  NobodySubmits'
<1>1. work'[w].step # "submit"
  BY DEF Goes, PaymentTypeOK, Idle
<1> QED
  BY <1>1 DEF OneAtATime, NobodySubmits

LEMMA SaveOff ==
  ASSUME OneAtATime, PaymentTypeOK, NEW w \in Worker, NEW d, NEW s, NEW l,
         s # "submit", l # "submit", SaveOrLose(w, d, s, l)
  PROVE  NobodySubmits'
<1> DEFINE g == [work[w] EXCEPT !.step = s, !.read = d, !.doc = d]
           h == [work[w] EXCEPT !.step = l, !.doc = d]
<1>1. g.step = s /\ h.step = l
  BY DEF PaymentTypeOK, Handler
<1>2. Goes(w, g) \/ Goes(w, h)
  BY DEF SaveOrLose, Save, Lose
<1> HIDE DEF g, h
<1> QED
  BY <1>1, <1>2, LandsOff

LEMMA LoseOff ==
  ASSUME OneAtATime, PaymentTypeOK, NEW w \in Worker, NEW d, NEW s, s # "submit", Lose(w, d, s)
  PROVE  NobodySubmits'
BY SaveOff DEF SaveOrLose

LEMMA GotoOff ==
  ASSUME OneAtATime, PaymentTypeOK, NEW w \in Worker, NEW s, s # "submit", Goto(w, s)
  PROVE  NobodySubmits'
<1>1. PICK h : Goes(w, h) /\ h.step = s
  BY GotoFacts
<1> QED
  BY <1>1, LandsOff

LEMMA LoadOff ==
  ASSUME OneAtATime, PaymentTypeOK, NEW w \in Worker, NEW s, NEW a, NEW c, s # "submit",
         Load(w, s, a, c)
  PROVE  NobodySubmits'
<1>1. PICK h : Goes(w, h) /\ h.step = s
  BY DEF Load, Reads
<1> QED
  BY <1>1, LandsOff

LEMMA ConfirmOff ==
  ASSUME OneAtATime, PaymentTypeOK, NEW w \in Worker, NEW d, Confirm(w, d)
  PROVE  NobodySubmits'
<1> DEFINE g == [work[w] EXCEPT !.step = "gate", !.read = d, !.doc = d, !.caller = "request"]
<1>1. g.step = "gate"
  BY DEF PaymentTypeOK, Handler
<1>2. Goes(w, g)
  BY DEF Confirm
<1> HIDE DEF g
<1> QED
  BY <1>1, <1>2, LandsOff

LEMMA PayinOff ==
  ASSUME OneAtATime, PaymentTypeOK, NEW w \in Worker, PayinStep(w) \/ PayinStart(w)
  PROVE  UNCHANGED sends /\ (NobodySubmits' \/ UNCHANGED work)
<1>1. UNCHANGED sends
  <2> USE DEF providers, Still, Load, Save, Lose, SaveOrLose, Confirm
  <2>1. CASE uploadPaymentProof(w) \/ handleFintocIPN(w)
    BY <2>1 DEF uploadPaymentProof, handleFintocIPN
  <2>2. CASE vitaDecide(w)
    BY <2>2 DEF vitaDecide
  <2>3. CASE confirmBankQrTx(w) \/ failExpiredBankQrTx(w)
    BY <2>3 DEF confirmBankQrTx, failExpiredBankQrTx
  <2>4. CASE sweepStatus(w) \/ sweepCancel(w)
    BY <2>4 DEF sweepStatus, sweepCancel
  <2>5. CASE updateTransactionStatus(w)
    BY <2>5 DEF updateTransactionStatus
  <2>6. CASE PayinStart(w)
    BY <2>6 DEF PayinStart, initCrossBorderPayment, handleVitaIPN, handleBankQrIPN,
                reconcilePaidQRs, sweepExpiredQRs, retryPendingFundingTransactions
  <2> QED
    BY <2>1, <2>2, <2>3, <2>4, <2>5, <2>6 DEF PayinStep
<1>2. NobodySubmits' \/ UNCHANGED work
  <2>1. CASE uploadPaymentProof(w) \/ handleFintocIPN(w)
    BY <2>1, SaveOff, LoseOff, GotoOff, LoadOff, ConfirmOff
       DEF uploadPaymentProof, handleFintocIPN, End
  <2>2. CASE vitaDecide(w)
    <3>1. \/ \E d : Confirm(w, d) \/ Lose(w, d, "idle") \/ SaveOrLose(w, d, "idle", "idle")
          \/ End(w)
      BY <2>2, Zenon DEF vitaDecide
    <3> QED
      BY <3>1, SaveOff, LoseOff, GotoOff, ConfirmOff DEF End
  <2>3. CASE confirmBankQrTx(w) \/ failExpiredBankQrTx(w)
    BY <2>3, SaveOff, LoseOff, ConfirmOff DEF confirmBankQrTx, failExpiredBankQrTx
  <2>4. CASE sweepStatus(w) \/ sweepCancel(w)
    <3>1. PICK s \in {"idle", "bankConfirm", "sweepCancel", "sweepFail"} : Goto(w, s)
      BY <2>4 DEF sweepStatus, sweepCancel
    <3> QED
      BY <3>1, GotoOff
  <2>5. CASE updateTransactionStatus(w)
    <3>1. \/ \E s : Load(w, "admin", s, "request")
          \/ \E d : Confirm(w, d) \/ Lose(w, d, "idle") \/ SaveOrLose(w, d, "idle", "idle")
          \/ End(w)
      BY <2>5, Zenon DEF updateTransactionStatus
    <3> QED
      BY <3>1, LoadOff, SaveOff, LoseOff, GotoOff, ConfirmOff DEF End
  <2>6. CASE initCrossBorderPayment(w)
    <3> DEFINE g == [Idle EXCEPT !.step = "gate", !.caller = "create",
                                 !.read = tx', !.doc = tx']
    <3>1. g.step = "gate"
      BY DEF Idle
    <3>2. Goes(w, g) \/ UNCHANGED work
      BY <2>6 DEF initCrossBorderPayment
    <3> QED
      <4>1. \A h : h = g => h.step # "submit"
        BY <3>1
      <4>2. PICK h : h = g
        OBVIOUS
      <4>3. Goes(w, h) \/ UNCHANGED work
        BY <3>2, <4>2
      <4> HIDE DEF g
      <4> QED
        BY <4>1, <4>2, <4>3, LandsOff
  <2>7. CASE retryPendingFundingTransactions(w)
    <3> DEFINE g == [Idle EXCEPT !.step = "gate", !.read = tx', !.doc = tx']
    <3>1. g.step = "gate"
      BY DEF Idle
    <3>2. Goes(w, g)
      BY <2>7 DEF retryPendingFundingTransactions
    <3> HIDE DEF g
    <3> QED
      BY <3>1, <3>2, LandsOff
  <2>8. ASSUME NEW n \in Notice, handleVitaIPN(w, n)
        PROVE  NobodySubmits'
    BY <2>8, LoadOff DEF handleVitaIPN
  <2>9. CASE handleBankQrIPN(w) \/ reconcilePaidQRs(w) \/ sweepExpiredQRs(w)
    BY <2>9, LoadOff DEF handleBankQrIPN, reconcilePaidQRs, sweepExpiredQRs
  <2> QED
    BY <2>1, <2>2, <2>3, <2>4, <2>5, <2>6, <2>7, <2>8, <2>9 DEF PayinStep, PayinStart
<1> QED
  BY <1>1, <1>2

(* Looking is the only way to submit.                                      *)
LEMMA PayoutOff ==
  ASSUME OneAtATime, PaymentTypeOK, NEW w \in Worker, PayoutStep(w) \/ PayoutStart(w),
         ~findTransactionByMemo(w), ~submitTransaction(w)
  PROVE  UNCHANGED sends /\ NobodySubmits'
<1>1. UNCHANGED sends
  <2> USE DEF providers, Still, Load, Save, Lose, SaveOrLose
  <2>1. CASE dispatchGate(w) \/ dispatchRoute(w) \/ dispatchRecover(w)
    BY <2>1 DEF dispatchGate, dispatchRoute, dispatchRecover
  <2>2. CASE settleCreate(w) \/ tryOwlPayV2(w) \/ storeTransfer(w)
    BY <2>2 DEF settleCreate, tryOwlPayV2, storeTransfer
  <2>3. CASE createOwlPayTransfer(w) \/ createPayout(w)
    BY <2>3 DEF createOwlPayTransfer, createPayout
  <2>4. CASE storeSent(w) \/ dispatchFails(w) \/ storeVitaPayout(w) \/ harborLog(w)
    BY <2>4 DEF storeSent, dispatchFails, storeVitaPayout, harborLog
  <2>5. CASE harborDecide(w)
    BY <2>5 DEF harborDecide
  <2>6. CASE pollHarbor(w) \/ handleHarborReversal(w) \/ markRetry(w)
    BY <2>6 DEF pollHarbor, handleHarborReversal, markRetry
  <2>7. CASE pollVita(w) \/ handleVitaReversal(w)
    BY <2>7 DEF pollVita, handleVitaReversal
  <2>8. CASE PayoutStart(w)
    BY <2>8 DEF PayoutStart, handleOwlPayIPN, reconcileHarborTransfers, retryFailed,
                resumeUsdcSend, reconcileVitaTransfers
  <2> QED
    BY <2>1, <2>2, <2>3, <2>4, <2>5, <2>6, <2>7, <2>8 DEF PayoutStep
<1>2. NobodySubmits'
  <2>a. After(w) # "submit"
    BY DEF After
  <2>1. CASE dispatchGate(w)
    <3> DEFINE g == [work[w] EXCEPT !.step = "route", !.read = tx', !.doc = tx']
    <3>1. g.step = "route"
      BY DEF PaymentTypeOK, Handler
    <3>2. Goes(w, g) \/ Goto(w, After(w))
      BY <2>1 DEF dispatchGate
    <3> HIDE DEF g
    <3> QED
      BY <2>a, <3>1, <3>2, LandsOff, GotoOff
  <2>2. CASE dispatchRecover(w)
    <3> DEFINE t == IF tx.status = "processing" THEN "recoverSave" ELSE After(w)
               g == [work[w] EXCEPT !.step = t, !.read = tx, !.doc = tx]
    <3>t. t # "submit"
      BY <2>a
    <3>2. \/ Goes(w, g)
          \/ SaveOrLose(w, [work[w].doc EXCEPT !.status = "failed"], After(w), After(w))
      BY <2>2 DEF dispatchRecover
    <3> HIDE DEF t
    <3>1. g.step = t
      BY DEF PaymentTypeOK, Handler
    <3> HIDE DEF g
    <3> QED
      BY <2>a, <3>1, <3>2, <3>t, LandsOff, SaveOff
  <2>3. CASE dispatchRoute(w) \/ settleCreate(w) \/ tryOwlPayV2(w)
    BY <2>3, <2>a, SaveOff, LoseOff, GotoOff
       DEF dispatchRoute, settleCreate, tryOwlPayV2, Throws, End
  <2>4. CASE storeTransfer(w) \/ createOwlPayTransfer(w) \/ createPayout(w) \/ storeSent(w)
    BY <2>4, <2>a, SaveOff, LoseOff, GotoOff
       DEF storeTransfer, createOwlPayTransfer, createPayout, storeSent, Throws
  <2>5. CASE dispatchFails(w) \/ storeVitaPayout(w) \/ harborLog(w)
    BY <2>5, <2>a, SaveOff, GotoOff DEF dispatchFails, storeVitaPayout, harborLog, End
  <2>6. CASE harborDecide(w)
    <3>1. (\E d : SaveOrLose(w, d, "idle", "idle")) \/ End(w)
      BY <2>6, Zenon DEF harborDecide
    <3> QED
      BY <3>1, SaveOff, GotoOff DEF End
  <2>7. CASE pollHarbor(w) \/ handleHarborReversal(w)
    BY <2>7, SaveOff, LoseOff, GotoOff DEF pollHarbor, handleHarborReversal, End
  <2>8. CASE pollVita(w) \/ handleVitaReversal(w) \/ markRetry(w)
    BY <2>8, SaveOff, LoseOff, GotoOff DEF pollVita, handleVitaReversal, markRetry, Throws, End
  <2>9. CASE PayoutStart(w)
    BY <2>9, LoadOff DEF PayoutStart, handleOwlPayIPN, reconcileHarborTransfers, retryFailed,
                         resumeUsdcSend, reconcileVitaTransfers
  <2> QED
    BY <2>1, <2>2, <2>3, <2>4, <2>5, <2>6, <2>7, <2>8, <2>9 DEF PayoutStep
<1> QED
  BY <1>1, <1>2

LEMMA NextLooked ==
  ASSUME OneAtATime, PaymentTypeOK, Looked, [Next]_paymentVars
  PROVE  Looked'
<1>1. CASE UNCHANGED paymentVars
  BY <1>1 DEF Looked, NobodySubmits, paymentVars
<1>2. CASE cleanupOrphanTransactions \/ collect \/ payoutEnds \/ payoutReverts
  BY <1>2 DEF cleanupOrphanTransactions, collect, payoutEnds, payoutReverts, Looked,
              NobodySubmits, providers
<1>3. CASE Restart
  BY <1>3 DEF Restart, Looked, NobodySubmits, Idle, providers
<1>4. ASSUME NEW w \in Worker, PayinStep(w) \/ PayinStart(w)
      PROVE  Looked'
  BY <1>4, PayinOff DEF Looked, NobodySubmits
<1>5. ASSUME NEW w \in Worker, PayoutStep(w) \/ PayoutStart(w)
      PROVE  Looked'
  <2>1. CASE findTransactionByMemo(w)
    <3>1. /\ Goto(w, IF sends > 0 THEN "sent" ELSE "submit") \/ Goto(w, "failOther")
          /\ sends' = sends
      BY <2>1 DEF findTransactionByMemo, OneAtATime, Still, providers
    <3>2. CASE sends = 0
      BY <3>1, <3>2 DEF Looked
    <3>3. CASE sends = 1
      BY <3>1, <3>3, GotoOff DEF Looked
    <3> QED
      BY <3>2, <3>3 DEF Looked
  <2>2. CASE submitTransaction(w)
    <3>1. Goto(w, "sent") \/ Goto(w, "failOther")
      BY <2>2 DEF submitTransaction
    <3>2. NobodySubmits'
      BY <3>1, GotoOff
    <3>3. sends = 0
      BY <2>2 DEF submitTransaction, At, Looked, NobodySubmits
    <3>4. sends' = 1 \/ sends' = 0
      BY <2>2, <3>3 DEF submitTransaction, OneMore
    <3> QED
      BY <3>2, <3>4 DEF Looked
  <2>3. CASE ~findTransactionByMemo(w) /\ ~submitTransaction(w)
    BY <1>5, <2>3, PayoutOff DEF Looked
  <2> QED
    BY <2>1, <2>2, <2>3
<1> QED
  BY <1>1, <1>2, <1>3, <1>4, <1>5 DEF Next, WorkerStep, WorkerStart

(* The USDC of a payment leaves for Harbor once, on every corridor and     *)
(* whatever the admin does, through any restarts, failed saves, lost       *)
(* answers and retries, when the handlers follow one another and Horizon   *)
(* answers the lookup of the memo.                                         *)
THEOREM UsdcSentOnce ==
  ASSUME OneAtATime
  PROVE  Spec => []UsdcLeavesOnce
<1>1. Init => Looked
  BY DEF Init, StoreInit, Looked
<1>2. PaymentTypeOK /\ Looked /\ [Next]_paymentVars => Looked'
  BY NextLooked
<1>3. Looked => UsdcLeavesOnce
  BY DEF Looked, UsdcLeavesOnce
<1> QED
  BY <1>1, <1>2, <1>3, PaymentTypes, PTL DEF Spec

-----------------------------------------------------------------------------
(* An expired QR.                                                          *)

(* As long as nothing has gone wrong and the QR is unpaid, nobody has      *)
(* failed its payment or is about to: the job fails it only once the bank  *)
(* has cancelled the QR.                                                   *)
QrHandler(h) ==
  /\ h.step \notin {"sweepFail", "vitaDecide"}
  /\ h.doc.status # "failed"
  /\ h.step = "admin" => h.arg # "failed"

QrStands ==
  corridor.payin = "bankQr" /\ faults = 0 /\ payer = "unpaid" =>
    /\ hold = "none" /\ notices = {} /\ tx.status # "failed"
    /\ \A w \in Worker : QrHandler(work[w])

LEMMA QrIdle == QrHandler(Idle)
BY DEF QrHandler, Idle, NoDoc

LEMMA QrGoes ==
  ASSUME PaymentTypeOK, NEW w \in Worker, NEW h, Goes(w, h), QrHandler(h),
         \A v \in Worker : QrHandler(work[v])
  PROVE  \A v \in Worker : QrHandler(work'[v])
BY QrIdle DEF Goes, PaymentTypeOK

LEMMA QrGoto ==
  ASSUME PaymentTypeOK, NEW w \in Worker, NEW s \in {"idle", "sweepCancel"}, Goto(w, s),
         \A v \in Worker : QrHandler(work[v])
  PROVE  \A v \in Worker : QrHandler(work'[v])
<1> DEFINE h == [work[w] EXCEPT !.step = s]
<1>1. QrHandler(h)
  BY DEF PaymentTypeOK, Handler, QrHandler
<1> QED
  BY <1>1, QrGoes DEF Goto

(* No fault: what is saved is saved.                                       *)
LEMMA QrSaves ==
  ASSUME PaymentTypeOK, NEW w \in Worker, NEW d \in TransactionDoc, d.status # "failed",
         SaveOrLose(w, d, "idle", "idle"), faults' = 0, tx.status # "failed",
         \A v \in Worker : QrHandler(work[v])
  PROVE  /\ tx'.status # "failed" /\ \A v \in Worker : QrHandler(work'[v])
         /\ UNCHANGED <<corridor, providers, hold>>
<1>1. Save(w, d, "idle")
  BY DEF SaveOrLose, Lose, Fault, PaymentTypeOK
<1> DEFINE h == [work[w] EXCEPT !.step = "idle", !.read = d, !.doc = d]
<1>2. QrHandler(h)
  BY DEF PaymentTypeOK, Handler, QrHandler
<1>3. Goes(w, h) /\ tx' = Merged(work[w].read, d) /\ UNCHANGED <<corridor, providers, hold>>
  BY <1>1 DEF Save
<1>4. tx'.status # "failed"
  BY <1>3 DEF Merged
<1> HIDE DEF h
<1> QED
  BY <1>2, <1>3, <1>4, QrGoes

LEMMA QrLoads ==
  ASSUME PaymentTypeOK, NEW w \in Worker, NEW s \in {"proof", "admin", "sweepStatus"},
         NEW a, NEW c, Load(w, s, a, c), s = "admin" => a # "failed", tx.status # "failed",
         \A v \in Worker : QrHandler(work[v])
  PROVE  /\ tx' = tx /\ \A v \in Worker : QrHandler(work'[v])
         /\ UNCHANGED <<corridor, providers, hold>>
<1>1. QrHandler(Reads(s, a, c))
  BY DEF Reads, QrHandler
<1> QED
  BY <1>1, QrGoes DEF Load, Still

Forward == /\ corridor' = corridor
           /\ faults' = 0 => faults = 0
           /\ payer' = "unpaid" => payer = "unpaid"

(* The corridor is given, faults are not forgotten, and a payer who has    *)
(* paid or a QR that was cancelled stays so.                               *)
LEMMA OnlyForward ==
  ASSUME faults \in Nat, [Next]_paymentVars
  PROVE  Forward
<1>f. Fault => faults' # 0
  BY DEF Fault
<1>1. CASE UNCHANGED paymentVars
  BY <1>1 DEF Forward, paymentVars
<1>2. CASE collect \/ cleanupOrphanTransactions \/ payoutEnds \/ payoutReverts \/ Restart
  BY <1>2, <1>f DEF Forward, collect, cleanupOrphanTransactions, payoutEnds, payoutReverts,
              Restart, providers
<1>3. ASSUME NEW w \in Worker, PayinStep(w) \/ PayinStart(w)
      PROVE  Forward
  <2> USE DEF Forward, providers, Still, Load, Save, Lose, SaveOrLose, Confirm
  <2>1. CASE uploadPaymentProof(w) \/ handleFintocIPN(w)
    BY <2>1, <1>f DEF uploadPaymentProof, handleFintocIPN
  <2>2. CASE vitaDecide(w)
    BY <2>2, <1>f DEF vitaDecide
  <2>3. CASE confirmBankQrTx(w) \/ failExpiredBankQrTx(w)
    BY <2>3, <1>f DEF confirmBankQrTx, failExpiredBankQrTx
  <2>4. CASE sweepStatus(w) \/ sweepCancel(w)
    BY <2>4, <1>f DEF sweepStatus, sweepCancel
  <2>5. CASE updateTransactionStatus(w)
    BY <2>5, <1>f DEF updateTransactionStatus
  <2>6. CASE initCrossBorderPayment(w)
    BY <2>6, <1>f DEF initCrossBorderPayment
  <2>7. ASSUME NEW n \in Notice, handleVitaIPN(w, n)
        PROVE  Forward
    BY <2>7, <1>f DEF handleVitaIPN
  <2>8. CASE handleBankQrIPN(w) \/ reconcilePaidQRs(w) \/ sweepExpiredQRs(w)
    BY <2>8, <1>f DEF handleBankQrIPN, reconcilePaidQRs, sweepExpiredQRs
  <2>9. CASE retryPendingFundingTransactions(w)
    BY <2>9, <1>f DEF retryPendingFundingTransactions
  <2> QED
    BY <1>3, <2>1, <2>2, <2>3, <2>4, <2>5, <2>6, <2>7, <2>8, <2>9
    DEF PayinStep, PayinStart
<1>4. ASSUME NEW w \in Worker, PayoutStep(w)
      PROVE  Forward
  <2> USE DEF Forward, providers, Still, Load, Save, Lose, SaveOrLose
  <2>1. CASE dispatchGate(w) \/ dispatchRoute(w) \/ dispatchRecover(w)
    BY <2>1, <1>f DEF dispatchGate, dispatchRoute, dispatchRecover
  <2>2. CASE settleCreate(w)
    BY <2>2, <1>f DEF settleCreate
  <2>3. CASE tryOwlPayV2(w) \/ createOwlPayTransfer(w) \/ storeTransfer(w)
    BY <2>3, <1>f DEF tryOwlPayV2, createOwlPayTransfer, storeTransfer
  <2>4. CASE findTransactionByMemo(w) \/ submitTransaction(w) \/ storeSent(w)
    BY <2>4, <1>f DEF findTransactionByMemo, submitTransaction, storeSent
  <2>5. CASE dispatchFails(w) \/ createPayout(w) \/ storeVitaPayout(w)
    BY <2>5, <1>f DEF dispatchFails, createPayout, storeVitaPayout
  <2>6. CASE harborLog(w) \/ harborDecide(w)
    BY <2>6, <1>f DEF harborLog, harborDecide
  <2>7. CASE pollHarbor(w) \/ handleHarborReversal(w) \/ markRetry(w)
    BY <2>7, <1>f DEF pollHarbor, handleHarborReversal, markRetry
  <2>8. CASE pollVita(w) \/ handleVitaReversal(w)
    BY <2>8, <1>f DEF pollVita, handleVitaReversal
  <2> QED
    BY <1>4, <2>1, <2>2, <2>3, <2>4, <2>5, <2>6, <2>7, <2>8 DEF PayoutStep
<1>5. ASSUME NEW w \in Worker, PayoutStart(w)
      PROVE  Forward
  BY <1>5 DEF PayoutStart, handleOwlPayIPN, reconcileHarborTransfers, retryFailed,
              resumeUsdcSend, reconcileVitaTransfers, Load, Forward, providers, Still
<1> QED
  BY <1>1, <1>2, <1>3, <1>4, <1>5 DEF Next, WorkerStep, WorkerStart

LEMMA NextQr ==
  ASSUME PaymentTypeOK, PaidOrUnstarted, QrStands, "failed" \notin AdminForces, [Next]_paymentVars
  PROVE  QrStands'
<1> SUFFICES ASSUME corridor'.payin = "bankQr", faults' = 0, payer' = "unpaid"
             PROVE  /\ hold' = "none" /\ notices' = {} /\ tx'.status # "failed"
                    /\ \A w \in Worker : QrHandler(work'[w])
  BY DEF QrStands
<1>c. corridor.payin = "bankQr" /\ faults = 0 /\ payer = "unpaid"
  BY OnlyForward DEF Forward, PaymentTypeOK
<1>q. /\ hold = "none" /\ notices = {} /\ tx.status # "failed"
      /\ \A w \in Worker : QrHandler(work[w])
  BY <1>c DEF QrStands
<1>u. Unstarted
  BY <1>c, <1>q DEF PaidOrUnstarted, Paid
<1>1. CASE UNCHANGED paymentVars
  BY <1>1, <1>q DEF paymentVars
<1>2. CASE cleanupOrphanTransactions \/ collect \/ payoutEnds \/ payoutReverts \/ Restart
  BY <1>2, <1>c, <1>u DEF cleanupOrphanTransactions, collect, payoutEnds, payoutReverts, Restart,
     Fault, Unstarted, PaymentTypeOK
<1>k. ASSUME NEW w \in Worker
      PROVE  /\ ~PayoutStep(w) /\ ~PayoutStart(w)
             /\ work[w].step \in {"idle", "proof", "admin", "sweepStatus", "sweepCancel"}
             /\ work[w].doc \in TransactionDoc /\ work[w].doc.status # "failed"
             /\ work[w].step = "admin" => work[w].arg \notin {"failed", "payin_confirmed"}
                                          /\ work[w].arg \in Status
  BY <1>u, <1>q, NoPayoutUnpaid
  DEF Unstarted, UnpaidHandler, BeforePayin, QrHandler, PaymentTypeOK, Handler, StartsPayout
<1>s. ASSUME NEW w \in Worker, NEW d \in TransactionDoc, d.status # "failed",
             SaveOrLose(w, d, "idle", "idle")
      PROVE  /\ hold' = "none" /\ notices' = {} /\ tx'.status # "failed"
             /\ \A v \in Worker : QrHandler(work'[v])
  BY <1>s, <1>q, QrSaves DEF providers
<1>l. ASSUME NEW w \in Worker, NEW s \in {"proof", "admin", "sweepStatus"}, NEW a, NEW c,
             Load(w, s, a, c), s = "admin" => a # "failed"
      PROVE  /\ hold' = "none" /\ notices' = {} /\ tx'.status # "failed"
             /\ \A v \in Worker : QrHandler(work'[v])
  BY <1>l, <1>q, QrLoads DEF providers
<1>3. ASSUME NEW w \in Worker, uploadPaymentProof(w)
      PROVE  /\ hold' = "none" /\ notices' = {} /\ tx'.status # "failed"
             /\ \A v \in Worker : QrHandler(work'[v])
  <2> DEFINE d == work[w].doc
             e == [d EXCEPT !.proof = TRUE, !.status = IF @ = "pending_comprobante"
                                                       THEN "payin_pending" ELSE @]
  <2>1. SaveOrLose(w, e, "idle", "idle")
    BY <1>3, <1>c DEF uploadPaymentProof
  <2>2. e \in TransactionDoc /\ e.status # "failed"
    BY <1>k DEF TransactionDoc, Status
  <2> HIDE DEF e
  <2> QED
    BY <2>1, <2>2, <1>s
<1>4. ASSUME NEW w \in Worker, updateTransactionStatus(w)
      PROVE  /\ hold' = "none" /\ notices' = {} /\ tx'.status # "failed"
             /\ \A v \in Worker : QrHandler(work'[v])
  <2>1. ASSUME NEW s \in AdminForces, Load(w, "admin", s, "request")
        PROVE  /\ hold' = "none" /\ notices' = {} /\ tx'.status # "failed"
               /\ \A v \in Worker : QrHandler(work'[v])
    <3>1. s # "failed"
      OBVIOUS
    <3> QED
      BY <2>1, <3>1, <1>l
  <2>2. CASE At(w, "admin")
    <3> DEFINE e == [work[w].doc EXCEPT !.status = work[w].arg]
    <3>1. e \in TransactionDoc /\ e.status # "failed"
      BY <1>k, <2>2 DEF At, TransactionDoc
    <3>2. SaveOrLose(w, e, "idle", "idle")
      BY <1>4, <1>c, <1>k, <2>2 DEF updateTransactionStatus, At, Load, Free
    <3> HIDE DEF e
    <3> QED
      BY <3>1, <3>2, <1>s
  <2> QED
    BY <1>4, <1>c, <2>1, <2>2 DEF updateTransactionStatus
<1>5. ASSUME NEW w \in Worker, sweepStatus(w) \/ sweepCancel(w)
      PROVE  /\ hold' = "none" /\ notices' = {} /\ tx'.status # "failed"
             /\ \A v \in Worker : QrHandler(work'[v])
  <2>1. Goto(w, "sweepCancel") /\ UNCHANGED <<tx, providers, hold>>
    BY <1>5, <1>c DEF sweepStatus, sweepCancel, Fault
  <2> QED
    BY <2>1, <1>q, QrGoto DEF providers
<1>6. ASSUME NEW w \in Worker, PayinStep(w)
      PROVE  uploadPaymentProof(w) \/ updateTransactionStatus(w) \/ sweepStatus(w) \/ sweepCancel(w)
  BY <1>6, <1>c, <1>k, <1>q DEF PayinStep, handleFintocIPN, vitaDecide, confirmBankQrTx,
     failExpiredBankQrTx, At
<1>7. ASSUME NEW w \in Worker, PayinStart(w)
      PROVE  /\ hold' = "none" /\ notices' = {} /\ tx'.status # "failed"
             /\ \A v \in Worker : QrHandler(work'[v])
  <2>1. initCrossBorderPayment(w) \/ sweepExpiredQRs(w)
    BY <1>7, <1>c, <1>q, <1>u DEF PayinStart, handleVitaIPN, handleBankQrIPN, reconcilePaidQRs,
       retryPendingFundingTransactions, Unstarted, UnpaidDoc, StartsPayout
  <2>2. CASE initCrossBorderPayment(w)
    <3>1. tx' = [NoDoc EXCEPT !.status = "payin_pending"] /\ UNCHANGED <<hold, work, notices>>
      BY <2>2, <1>c DEF initCrossBorderPayment, providers
    <3> QED
      BY <3>1, <1>q DEF NoDoc
  <2>3. CASE sweepExpiredQRs(w)
    BY <2>3, <1>l DEF sweepExpiredQRs
  <2> QED
    BY <2>1, <2>2, <2>3
<1> QED
  BY <1>1, <1>2, <1>3, <1>4, <1>5, <1>6, <1>7, <1>k DEF Next, WorkerStep, WorkerStart

(* A QR whose payment was failed as expired cannot be paid any more, for   *)
(* any number of handlers at once, as long as the bank answers, no restart *)
(* comes in between and no admin fails the payment by hand.                *)
THEOREM ExpiredIsNotPaid ==
  ASSUME AdminForces \cap {"failed", "pending_funding"} = {}
  PROVE  Spec => NotPaidAfterFailed
<1>1. Init => QrStands
  BY QrIdle DEF Init, StoreInit, QrStands, NoDoc
<1>2. PaymentTypeOK /\ PaidOrUnstarted /\ QrStands /\ [Next]_paymentVars => QrStands'
  BY NextQr
<1>3. QrStands => [QrExpired /\ faults = 0 => payer' # "paid"]_paymentVars
  BY DEF QrStands, QrExpired
<1>4. Spec => []PaidOrUnstarted
  BY UnpaidIsUnstarted
<1> QED
  BY <1>1, <1>2, <1>3, <1>4, PaymentTypes, PTL DEF Spec, NotPaidAfterFailed
=============================================================================
