---------------------------- MODULE Progress ----------------------------
(***************************************************************************)
(* The parts of the system whose promise is that something happens in the  *)
(* end: the settlement of a withdrawal, the projection of a movement, the  *)
(* credit of a deposit.  They share no state, so each behaviour is one     *)
(* part's: "part" names it, and the others stay as they start.             *)
(***************************************************************************)
EXTENDS Integers, FiniteSets, Sequences, TLC

CONSTANTS
  Withdrawal, Bank, MaxAttempts, Switch,                          \* Disbursement
  Movement, Leg, Pairs, MaxClock, MaxEntries, Ordered,            \* Ledger
  EmptyFreeze,
  Intent, MaxPayments, CreditFails,                               \* StellarInflows
  Queued, MaxSends, HandlerFails,                                 \* IpnQueue
  MaxVerifications, MaxSweeps, Relaunch, KycWriteFails, Uploads,  \* Onboarding
  Listed, Customer, MaxListings, MaxByHand, MaxStarts,            \* Screening
  Claim, Monitor, MonitorRun, Term, Notice, MaxRefusals,          \* Alerts
  Amounts, Markets, VitaRates, Spreads, PayoutMethod,             \* Quotes
  FxBuffer, FloorUSD, MinAmount, MaxChanges,
  Payment, SpA, MaxSeals, WritesFail,                             \* Transit
  Purchase, FintocURL, StoreFails,                                \* PayinOrders
  BobMarkets, ClpMarkets, UsdSpreads, Overrides, EditsInRun,      \* Rates
  MaxMarkets, MaxEdits,
  Slot, Country, ThroughForm, RulesComplete, MethodsChange,       \* HarborRail
  RulesDown, MaxFlips,
  Charges, Deposits, SweepLimit, Strays, MaxOutages,              \* BankQr
  LongOutages, CancelFails, PaidInSweep, Vague,
  Payout, ByHarbor, ByVita, Fallback, HarborErrors,               \* Failures
  RetryErrors, VitaErrors, MaxRetries, LastIsLost,
  Scheduled, RulesOn, Slow, MaxLambdaRetries, MaxRestarts,        \* Jobs
  Users, MaxSessions, maxAvisos, maxPorCorrida, NudgeRun,         \* Reminders
  MailFails, NudgeWriteFails, Restarts,
  Admin, MaxStops, MaxCrashes, AnswersLost                        \* of several

VARIABLES
  part,
  wdoc, alias, counter, attempts, dispatch, order, asked,
  clock, wtx, cursor, journal, lined, work, closedThrough, crashes,
  chain, usdc, credits, cursors, monitor, anchor, funding, records, intents,
  cancels, stops,
  webhook, queue, consumer, handled, payin, dispatches, queueCrashes,
  kyc, session, events, resolver, restart,
  published, listChanges, entry, byHand, refresh, started,
  reclamo, reply, holds, age, run, told, refusals,
  market, vitaRate, vitaUp, corridor, ws, computing, quoted, payment, changes,
  pdoc, sent, transit, sealing, transitStops,
  route, request, atProvider, record, link, notices, stopped,
  markets, fetched, spread, rates, spaConfig, rateRefresh, marketMoves, edits,
  payments, active, breaker, cached, flips,
  bankOf, qr, charge, chargeAge, bankWebhook, verified, job, up, outages,
  doc, atHand, executed, exhausted, reported, retryStops,
  external, serving, due, lambda, running, job_runs, restarts,
  user, nudge, mails, nudgeRun

disbursementVars == <<wdoc, alias, counter, attempts, dispatch, order, asked>>
ledgerVars == <<clock, wtx, cursor, journal, lined, work, closedThrough, crashes>>
inflowsVars == <<chain, usdc, credits, cursors, monitor, anchor, funding, records, intents,
                cancels, stops>>
queueVars == <<webhook, queue, consumer, handled, payin, dispatches, queueCrashes>>
onboardingVars == <<kyc, session, events, resolver, restart>>
screeningVars == <<published, listChanges, entry, byHand, refresh, started>>
alertVars == <<reclamo, reply, holds, age, run, told, refusals>>
quoteVars == <<market, vitaRate, vitaUp, corridor, ws, computing, quoted, payment, changes>>
transitVars == <<pdoc, sent, transit, sealing, transitStops>>
orderVars == <<route, request, atProvider, record, link, notices, stopped>>
rateVars == <<markets, fetched, spread, rates, spaConfig, rateRefresh, marketMoves, edits>>
railVars == <<payments, active, breaker, cached, flips>>
bankQrVars == <<bankOf, qr, charge, chargeAge, bankWebhook, verified, job, up, outages>>
failureVars == <<doc, atHand, executed, exhausted, reported, retryStops>>
jobVars == <<external, serving, due, lambda, running, job_runs, restarts>>
reminderVars == <<user, nudge, mails, nudgeRun>>

-----------------------------------------------------------------------------
(* A constant of a part has its name here too, unless two parts share it.  *)
(* The parts with proofs of their own come with them.                      *)
Disbursement == INSTANCE DisbursementProof

(* Movements: one of a kind and the others of another.                     *)
Kinds == {"deposit", "usdc_deposit", "withdrawal", "send", "receive",
          "freeze", "unfreeze", "bob_to_usdc", "usdc_to_bob"}
Mix(one, others) == [m \in Movement |-> IF m = Leg THEN one ELSE others]
Ledger == INSTANCE Ledger WITH
  Mixes <- (IF Pairs THEN {Mix("receive", "send")} ELSE {}) \cup {Mix(k, "none") : k \in Kinds}

Inflows == INSTANCE StellarInflows

IpnQueue == INSTANCE IpnQueue WITH Payment <- Queued, crashes <- queueCrashes

Onboarding == INSTANCE Onboarding WITH
  MaxSessions <- MaxVerifications, MaxRetries <- MaxSweeps, WriteFails <- KycWriteFails

Screening == INSTANCE Screening WITH changes <- listChanges

AlertKey == {"reclamos-por-vencer", "reclamos-vencidos"} \cup Monitor
Alerts == INSTANCE Alerts WITH
  Run <- MonitorRun, InMemory <- Monitor,
  Cooldown <- [k \in AlertKey |-> IF k = "reclamos-vencidos" THEN 2 ELSE 1]

Quotes == INSTANCE Quotes WITH shown <- quoted

Transit == INSTANCE Transit WITH stops <- transitStops

PayinOrders == INSTANCE PayinOrders WITH Order <- Purchase, shown <- link

Rates == INSTANCE Rates WITH Spreads <- UsdSpreads, refresh <- rateRefresh

HarborRail == INSTANCE HarborRail WITH Complete <- RulesComplete

BankQr == INSTANCE BankQr WITH N <- Charges, age <- chargeAge, webhook <- bankWebhook

Failures == INSTANCE Failures WITH
  Method <- [p \in Payout |-> IF p \in ByHarbor THEN "harbor"
                              ELSE IF p \in ByVita THEN "vita" ELSE "retired"],
  stops <- retryStops

Jobs == INSTANCE Jobs WITH Job <- Scheduled, MaxRetries <- MaxLambdaRetries

Reminders == INSTANCE Reminders WITH
  N <- Users, Run <- NudgeRun, WriteFails <- NudgeWriteFails, run <- nudgeRun

-----------------------------------------------------------------------------
Part == {"disbursement", "ledger", "inflows", "queue", "onboarding", "screening", "alerts",
         "quotes", "transit", "orders", "rates", "rail", "bankqr", "failures", "jobs", "reminders"}

AnyOf(S) == CHOOSE x \in S : TRUE

(* A part that may start in several ways starts in one where it is still.  *)
Init ==
  /\ part \in Part
  /\ Disbursement!DisbursementInit /\ Inflows!InflowInit /\ IpnQueue!QueueInit
  /\ Onboarding!OnboardingInit /\ Alerts!AlertInit
  /\ Transit!TransitInit /\ HarborRail!RailInit
  /\ BankQr!BankQrInit /\ Failures!FailuresInit /\ Reminders!RemindersInit
  /\ Jobs!JobsInit /\ (part = "jobs" \/ external = FALSE)
  /\ Ledger!LedgerInit /\ (part = "ledger" \/ wtx = [m \in Movement |-> Ledger!NotBegun(Mix("deposit", "none")[m])])
  /\ Screening!ScreeningInit /\ (part = "screening" \/ published = {Customer})
  /\ PayinOrders!OrdersInit /\ (part = "orders" \/ \A o \in DOMAIN route : route[o] = "onRamp")
  /\ Quotes!QuotesInit
  /\ part = "quotes" \/ <<market, vitaRate, corridor.spread>> = <<AnyOf(Markets), AnyOf(VitaRates), AnyOf(Spreads)>>
  /\ Rates!RatesInit
  /\ part = "rates" \/ <<markets.BOB, markets.CLP, spread>> = <<AnyOf(BobMarkets), AnyOf(ClpMarkets), AnyOf(UsdSpreads)>>

(* A step of the part p leaves the others as they are.                     *)
Moves(p) ==
  /\ part = p
  /\ UNCHANGED part
  /\ IF p = "disbursement" THEN TRUE ELSE UNCHANGED disbursementVars
  /\ IF p = "ledger" THEN TRUE ELSE UNCHANGED ledgerVars
  /\ IF p = "inflows" THEN TRUE ELSE UNCHANGED inflowsVars
  /\ IF p = "queue" THEN TRUE ELSE UNCHANGED queueVars
  /\ IF p = "onboarding" THEN TRUE ELSE UNCHANGED onboardingVars
  /\ IF p = "screening" THEN TRUE ELSE UNCHANGED screeningVars
  /\ IF p = "alerts" THEN TRUE ELSE UNCHANGED alertVars
  /\ IF p = "quotes" THEN TRUE ELSE UNCHANGED quoteVars
  /\ IF p = "transit" THEN TRUE ELSE UNCHANGED transitVars
  /\ IF p = "orders" THEN TRUE ELSE UNCHANGED orderVars
  /\ IF p = "rates" THEN TRUE ELSE UNCHANGED rateVars
  /\ IF p = "rail" THEN TRUE ELSE UNCHANGED railVars
  /\ IF p = "bankqr" THEN TRUE ELSE UNCHANGED bankQrVars
  /\ IF p = "failures" THEN TRUE ELSE UNCHANGED failureVars
  /\ IF p = "jobs" THEN TRUE ELSE UNCHANGED jobVars
  /\ IF p = "reminders" THEN TRUE ELSE UNCHANGED reminderVars

Next ==
  \/ Moves("disbursement") /\ Disbursement!DisbursementNext
  \/ Moves("ledger") /\ Ledger!LedgerNext
  \/ Moves("inflows") /\ Inflows!InflowNext
  \/ Moves("queue") /\ IpnQueue!QueueNext
  \/ Moves("onboarding") /\ Onboarding!OnboardingNext
  \/ Moves("screening") /\ Screening!ScreeningNext
  \/ Moves("alerts") /\ Alerts!AlertNext
  \/ Moves("quotes") /\ Quotes!QuotesNext
  \/ Moves("transit") /\ Transit!TransitNext
  \/ Moves("orders") /\ PayinOrders!OrdersNext
  \/ Moves("rates") /\ Rates!RatesNext
  \/ Moves("rail") /\ HarborRail!RailNext
  \/ Moves("bankqr") /\ BankQr!BankQrNext
  \/ Moves("failures") /\ Failures!FailuresNext
  \/ Moves("jobs") /\ Jobs!JobsNext
  \/ Moves("reminders") /\ Reminders!RemindersNext

vars == <<part, disbursementVars, ledgerVars, inflowsVars,
          queueVars, onboardingVars, screeningVars,
          alertVars, quoteVars, transitVars,
          orderVars, rateVars, railVars,
          bankQrVars, failureVars, jobVars, reminderVars>>
Spec == Init /\ [][Next]_vars

-----------------------------------------------------------------------------
(* Type correctness of the part that moves: the others are as they start,  *)
(* where their own behaviours start too.                                   *)
ProgressTypeOK ==
  CASE part = "disbursement" -> Disbursement!DisbursementTypeOK
    [] part = "ledger" -> Ledger!LedgerTypeOK
    [] part = "inflows" -> Inflows!InflowTypeOK
    [] part = "queue" -> IpnQueue!QueueTypeOK
    [] part = "onboarding" -> Onboarding!OnboardingTypeOK
    [] part = "screening" -> Screening!ScreeningTypeOK
    [] part = "alerts" -> Alerts!AlertTypeOK
    [] part = "quotes" -> Quotes!QuotesTypeOK
    [] part = "transit" -> Transit!TransitTypeOK
    [] part = "orders" -> PayinOrders!OrdersTypeOK
    [] part = "rates" -> Rates!RatesTypeOK
    [] part = "rail" -> HarborRail!RailTypeOK
    [] part = "bankqr" -> BankQr!BankQrTypeOK
    [] part = "failures" -> Failures!FailuresTypeOK
    [] part = "jobs" -> Jobs!JobsTypeOK
    [] part = "reminders" -> Reminders!RemindersTypeOK

(* Money goes where it goes once, and the books follow it: one order at a  *)
(* bank for a withdrawal, which is not given back when the bank paid; one  *)
(* count of a Stellar payment; one transit for each stop of the server;    *)
(* ledger entries that add up to the wallets, and income closed once; a    *)
(* charge confirmed only if its QR was paid; one transfer of a payout that *)
(* is tried again; no second run of a job that looks for the first; one    *)
(* reminder of a verification.                                             *)
MovedOnce ==
  /\ Disbursement!OrderedOnce /\ Disbursement!CompletedIsPaid /\ Disbursement!PaidNotReturned
  /\ Inflows!CountedOnce /\ Transit!SentOncePerStop
  /\ Ledger!Reconciles /\ Ledger!TransferredOnce
  /\ BankQr!ConfirmedIsPaid /\ Failures!TransferredOnce
  /\ Jobs!GuardedRunsAlone /\ Reminders!RemindedOnce

(* What the customer was told before the money was collected can be done:  *)
(* the USDC of a payment buy what its quote promised, and its beneficiary  *)
(* can be paid by the rail it was checked for.                             *)
OfferIsExecutable == Quotes!PromiseIsBacked /\ HarborRail!CollectedIsPayable

(* The dispatch of a withdrawal implements what its user is promised: paid *)
(* once, settled by the bank's word, and for good (WithdrawalPromise).     *)
PromiseKept == Disbursement!PromiseKept

(* A dispatched withdrawal is settled or put before an admin, also when    *)
(* the bank's webhook is lost or the server stopped half way.              *)
DispatchedIsWatched ==
  part = "disbursement" =>
    (Disbursement!DisbursementFairness => Disbursement!DispatchedIsWatched)

(* Every movement that posts something has its entry in the ledger in the  *)
(* end: the cursor of the job passes none.                                 *)
LedgerCatchesUp ==
  part = "ledger" => (Ledger!LedgerFairness => Ledger!LedgerCatchesUp)

(* A deposit at the custodial address is credited, whatever stops the job  *)
(* that polls it, unless the wallet is frozen.                             *)
DepositCredited ==
  part = "inflows" => (Inflows!InflowFairness => Inflows!DepositCredited)

(* A webhook that was answered is handled, through restarts and messages   *)
(* the queue delivers again.                                               *)
AnsweredIsHandled ==
  part = "queue" => (IpnQueue!QueueFairness => IpnQueue!AnsweredIsHandled)

(* An identity Stripe reports verified is approved, also when the user has *)
(* opened another session since, or the session was never stored.          *)
VerifiedIsApproved ==
  part = "onboarding" => (Onboarding!OnboardingFairness => Onboarding!VerifiedIsApproved)

(* Whoever the sanctions lists name for good is screened for good, however *)
(* often the refresh was cut short or gave up.                             *)
ListedIsScreened ==
  part = "screening" => (Screening!ScreeningFairness => Screening!ListedIsScreened)

(* An overdue claim and a condition that lasts are named in a mail that    *)
(* was delivered, though mails are refused after their cooldown was taken; *)
(* a customer told that his payment is tried again has it sent or an admin *)
(* knows; every job runs again, whichever scheduler has it; who leaves his *)
(* verification half done is told.                                         *)
TroubleIsReported ==
  /\ part = "alerts" => (Alerts!AlertFairness => Alerts!TroubleIsReported)
  /\ part = "failures" => (Failures!FailuresFairness => Failures!ToldIsTried)
  /\ part = "jobs" => (Jobs!JobsFairness => Jobs!RunsAgain)
  /\ part = "reminders" => (Reminders!RemindersFairness => Reminders!InterruptedIsReminded)

(* The quote on screen comes to the amount typed last, although an earlier *)
(* refresh may answer later and Vita may not answer.                       *)
ShownCatchesUp == part = "quotes" => (Quotes!QuotesFairness => Quotes!ShownCatchesUp)

(* A completed payment is sealed on Stellar, or its attempts are spent.    *)
CompletedIsSealed ==
  part = "transit" => (Transit!TransitFairness => Transit!CompletedIsSealed)

(* What a client paid reaches its transaction, although the two are not    *)
(* created together, and the server may stop between them; and what he     *)
(* paid by QR, though no webhook comes and the bank is away for a while.   *)
PaidIsConfirmed ==
  /\ part = "orders" => (PayinOrders!OrdersFairness => PayinOrders!PaidIsConfirmed)
  /\ part = "bankqr" => (BankQr!BankQrFairness => BankQr!PaidQrIsConfirmed)

(* The published rates come to what the market says, whatever admins typed *)
(* before, except an override that stands.                                 *)
PublishedCatchesUp ==
  part = "rates" => (Rates!RatesFairness => Rates!PublishedCatchesUp)

(* While Harbor's customer is inactive, no more payments of the rail are   *)
(* collected in the end.                                                   *)
OutageStopsPayins ==
  part = "rail" => (HarborRail!RailFairness => HarborRail!OutageStopsPayins)
=============================================================================
