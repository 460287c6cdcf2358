# Alyto backend: specifications, model checking and proofs

TLA+ specifications of the Alyto backend (`src/src`, Node.js / Express / MongoDB),
the TLC runs that check them on small instances and the TLAPS proofs about them.
`PROJECT.json` says which lines of code each definition stands for, lists the
hazards the properties are aimed at, and names a plausible bug that breaks each
property (the definitions marked "Mutant": no specification uses them).

## 1. The system

Alyto moves money between Bolivia, Chile, Europe and the rest of the world: users
hold a BOB wallet and a USDC wallet, pay each other, deposit and withdraw through
banks, convert between the two currencies, and order cross-border payments that
are collected by one provider and paid out by another.

| Component | State it keeps | What is hard | Modules |
|---|---|---|---|
| BOB and USDC wallets (`walletController`, `qrWalletController`, `walletUSDCController`, `walletPaymentService`) | balance, reserve, frozen amount, status; `WalletTransaction` documents | concurrent requests over one wallet, bank answers late or twice, freezes in between, a shared revenue counter | `WalletStore`, `WalletBOB`, `WalletUSDC`, `Wallets` |
| Withdrawals at the bank (`bank/*`, `reconcileBecDisbursements`) | alias and attempts of a withdrawal, the bank's order | `transfer()` throws late, the webhook is lost, a second dispatch | `Disbursement`, `WithdrawalPromise` |
| Bank QRs (`bankQr/*`, `reconcileBankQrPayments`) | the QR of a charge | paid while it is cancelled, a bank that is away, webhooks lost | `BankQr`, with `Payin`, `WalletBOB` |
| Cross-border payments (`paymentController`, `ipnController`, `reconcileVitaTransfers`, `reconcileHarborTransfers`) | `Transaction.status`, provider references, log of webhooks | notifications out of order, find-then-save without a version check | `PaymentStore`, `Payin`, `Payout`, `Payments` |
| Payin orders (`fintocService`, `owlPayService`, `institutionalController`) | the order at the provider and the transaction, created apart | the server stops between them | `PayinOrders` |
| Harbor rail (`harborPreflight`, `beneficiaryValidation`) | a breaker, a cached answer | money collected for what cannot be paid out | `HarborRail` |
| Provider failures (`harborErrorMapper`, `vitaErrorMapper`, `failureTaxonomy`) | category of a failure, what the client was told | told that it is retried when it is not | `Failures` |
| Refunds and the BOB commitment (`adminController`, `treasuryLiquidity`, a script) | cash at the bank owed to payments | two people return the same money | `Refunds` |
| Quotes and rates (`quoteSocket`, `quoteCalculator`, `refreshExchangeRates`) | corridor, published rates | computed for what was replaced meanwhile | `Quotes`, `Rates` |
| Stellar (`monitorUSDCDeposits`, `reconcileTreasuryFunding`, `stellarService`, `custodyService`) | cursors, funding records, transits, seals, custodial accounts | a crash between an effect on chain and its record | `StellarInflows`, `Transit`, `Custody` |
| Treasury (`walletFeeController`, `anchorAdminService`) | hot account, harvested fees | liabilities against reserves | `Treasury` |
| Anchor protocols (`sep10`, `sep12`, `sep24`, `sep31`) | instructions of another wallet's customer | closed by a list read before the deposit came | `Anchor` |
| Accounting (`ledgerService`, `ledgerSync`, `ledgerClose`) | cursor, entries, lines, closed periods | entry and lines are two writes, closes in between | `Ledger` |
| Access (`authController`, `authMiddleware`, `adminTwoFactorService`, `idempotency`) | token versions, caches, codes, stored answers | codes sent twice, caches older than a logout | `Sessions`, `SecondFactor`, `Idempotency` |
| Compliance (`stripeWebhook`, `kyc*`, `kybController`, `sanctionsService`, `ecpLimits`, `rosMonitor*`, `clientIdentityIndex`) | statuses, lists, limits, alerts | events out of order, limits read before the write | `Onboarding`, `Reminders`, `DueDiligence`, `Screening`, `Limits`, `ClientIdentity` |
| Documents (`correlativoService`, `businessInvoiceController`) | numbered series | two hands issue one document | `Receipts` |
| Jobs, queue, alerts (`jobRegistry`, Lambda, `ipnQueueConsumer`, `adminAlertThrottle`, `reclamos*`) | runs, messages, cooldowns | redelivery, two schedulers, mails refused | `Jobs`, `IpnQueue`, `Alerts` |
| Push tokens, marketing agent | devices, pieces to publish | a token replaced while it is pulled out, a post made twice | `PushTokens`, `Marketing` |

Handlers and jobs share MongoDB documents and little else; banks, payment providers
and the Stellar network are reached by HTTP and answer by webhooks. The handlers of
the wallets use MongoDB transactions; nearly everything else is read, changed
and saved without a version check, so each `await` is a place where others act.

What makes it correct: a reserve is the sum of the operations that hold it, a
balance is what its documents say, nobody spends twice; a payment is paid out once,
only after it was paid in, and is reported as delivered only when it was; what was
sent or collected is settled in the end; what comes in from the chain or goes to a
bank is counted once; a code, a number, a refund is used once; a closed session is
out; the books follow the wallets; what the service owes stays on its lists.

## 2. How the models are built

Every await between a read and a write that depends on it is a boundary between two
actions; what a handler has read is kept in the state, so that it may be stale when
it is used. Jobs and requests run one next to the other. A restart loses what is
in memory and never what is in MongoDB. Providers are nondeterministic: they answer, refuse, lose the
answer after acting, repeat webhooks. Each module bounds its environment (payments,
restarts, faults, edits) by constants named `Max...`; counters in the code that have
a limit are constants too. Many constants are switches that admit a behaviour
the code does not exclude but under which one of its promises fails (section 5);
the passing runs set them off and say so here.

### Wallets

`wallet` maps a user and a currency to the fields of `WalletBOB` / `WalletUSDC`;
the singleton `WalletFeeConfig` is one more wallet. `wtx` holds the
`WalletTransaction` documents. Amounts are small integers (the code uses floating
point numbers; its rounding is not modelled).

Most handlers open a MongoDB transaction. They read a snapshot, check, write, do
more awaits and commit. `session[r]` keeps what request `r` is going to write,
computed from its snapshot; `Commit` installs it; whoever writes a document first
makes every other session that writes it abort (MongoDB's WriteConflict). Handlers
that use one `updateOne` (`UpdateOne`) are one step; those that wait for the bank
leave the document in `calls` and go on with a second action. `Abort` is any error
before the commit, `Restart` loses all sessions and calls.

### Payments

Payment handlers use no transaction: `findOne` gives an object, the handler
changes it, awaits, and saves it. `work[w]` is a handler in progress: the step it
takes next, the document as it read it (`read`) and the object (`doc`). `Save`
writes, filtered by `_id` alone, the fields in which `doc` differs from `read`
(Mongoose's dirty fields), and adds the log entries. A save may fail (`Lose`), an
answer of a provider may be lost, the process may stop (`Restart`): these are
`faults`, bounded by `MaxFaults`. The rest of the state is the outside world: what
the payer did, the payout at Harbor or Vita, the orders Vita took, the USDC sent on
Stellar, the webhooks, any of which may be delivered again at any time. With
`Queued`, the SQS consumer hands over one webhook of a provider at a time.

The document is reduced to what decides control: the status, whether the payout
reference and the Stellar hash are set, whether the failure is a transient one
and how often it was retried, `bankQr.paidAt`, whether there is a proof, the log.
Limits, drift and liquidity checks are choices.

Assumptions about the outside, each at the definition that makes it: the jobs and
the operator's script leave alone a payment somebody is just dispatching
(`Untouched`: their age filter is longer than a dispatch takes); Harbor creates one
transfer per `application_transfer_uuid`; the memo lookup answers where a run sets
`HorizonAnswers`; Vita recognises nothing about a second order; an operator confirms
a manual payin after seeing the money.

### The other parts

They share no state with each other, or only a document whose races the wallet and
payment modules already have. Each is a module of 120 to 340 lines with its own
`...Init`, `...Next`, `...Spec`, `...TypeOK` and, where something must happen in
the end, `...Fairness`. Two modules put them side by side: `Progress` the sixteen that
promise progress, `Guards` the thirteen that stand guard. Both are parameterised; the
values TLC takes are in `progress.cfg` and `guards.cfg`, and section 6 proves
theorems about them for every value. `part`
names the part a behaviour is about; only it moves (`Moves`). The reachable states
are the disjoint union of the parts', each explored as it would be alone, and
one run evaluates all their properties.

A liveness property of such a part is `part = p => (Fairness => Property)` with the
part's own fairness: the run's specification is fair to nobody, and each property
supposes only the fairness of its own part.

| Module | Abstraction worth knowing |
|---|---|
| `Disbursement` | the bank keeps orders by alias; `Switch` lets an admin dispatch again through another bank, `AnswersLost` loses answers after the bank acted |
| `Ledger` | a movement has one amount, periods close by the clock; `Ordered`: movements become visible in the order of their timestamps, and closes go forward in time |
| `StellarInflows` | the chain is a sequence of payments; both cursors are positions in it |
| `Transit` | transactions on chain are a counter per payment; `MAX_WEB3_RETRIES` as in the code |
| `Refunds` | a payment is its status and where its cash is; `getBOBCommitted` is computed from statuses alone, as in the code |
| `SecondFactor` | time steps, codes and secrets are numbers; recovery codes are model values |
| `Sessions` | two caches with a time to live of `TTL`, a user document with `tokenVersion` |
| `Quotes`, `Rates` | integer arithmetic with the rounding the code's formulas do |
| `Screening` | names match or do not (set membership) |
| `Failures` | an error is the class of text its mapper's tests tell apart, in their order |
| `Treasury` | custodial accounts, hot account and mirror as small amounts; `Rich` is who starts with USDC |

## 3. The runs

| Run | Instance | The question |
|---|---|---|
| `all_wallets` | both currencies, 2 users, 4 documents, 2 sessions, amounts of 1, fee 1, a payment of the wallet, one freezable wallet, withdrawals through the bank | do reserves, books, solvency, revenue and settled documents survive every interleaving of every handler? |
| `bank_qr` | 1 user, 2 days, limit 1, deposits and withdrawals by QR | do concurrent requests pass the daily limit? |
| `single_use` | 2 users, a code in BOB and one in USDC, fee 0 or 1, amounts up to 2 | is a code paid once? |
| `payment_corridors` | 6 corridors, 1 handler, 2 faults, 1 retry, both positions of the sending switch, an admin who sends payments back to `payin_pending` | is only what was paid in paid out, is "completed" true, does the USDC leave once? |
| `two_handlers` | wallet to Harbor, Vita to Vita and Fintoc to Vita, 2 handlers, 2 faults, 2 retries | is a payment paid out once when handlers overlap? |
| `payments_live` | wallet to Harbor, Fintoc to Vita, bank QR to Vita, 2 handlers, 1 fault | does every payment come out of the states in between? |
| `progress` | sixteen parts (`Progress`) | does what was promised happen, once, although processes stop and answers are lost? |
| `guards` | thirteen parts (`Guards`) | do limits, locks, claims and lists hold when requests interleave? |
| `bankqr_double_credit`, `vita_double_dispatch`, `free_payout`, `half_provisioned` | the smallest instance that shows it | refuted, section 5 |

Why the parts run together: the runs are questions, and the small parts answer the
same two. They are kept apart by `part`, so nothing is lost by it: a part's
behaviours in `Progress` are its own behaviours next to constants.

Why these bounds are enough to be of use. Every property of a wallet speaks of one
wallet and a few documents; four or five documents fund a wallet and let two
operations meet in it, and two sessions are what a race needs (a third aborts or
commits like either). Amounts of 1 and 2 tell "enough for one" from "enough for
both". In the payments two handlers are a race, one fault is a crash and two are a
crash during recovery; two retries reach the limit after passing it once; in
`payments_live` retries are 0 because they concern payments without a transfer.
In the parts there are two of whatever may be confused (withdrawals, orders,
charges, accounts, refunders) or three where a third is needed (two users and two
requests with one key; a list of two devices; a sanctions list that loses one of
three names, more or less than half), one more than a limit where a limit
matters (requests against a daily maximum, users against `maxPorCorrida`), and one
restart (two where a second one during the repair is different). Where the proofs
of section 6 cover the property, the bounds no longer matter.

The documents and the sessions of the wallets are interchangeable, so those runs use
symmetry (they check no liveness). Deadlock is not checked: a closed payment, a
wallet without free documents or a settled withdrawal has nothing more to do.

### Fairness

`LiveSpec` of the payments assumes weak fairness of the steps of a handler (Node
runs a resolved promise in the end), strong fairness of Fintoc's webhook (delivered
again until answered) and of the jobs (they run at every interval; strong, because
the bound on handlers may be used up at times), and that the provider ends a
funded payout. Nothing about Vita's and Harbor's webhooks, admins, users, faults.

The parts follow the same rule: the steps of a handler or job that has begun are
weakly fair; the start of a job that runs at an interval is weakly fair, or strongly
where its guard is not continuously true (a cooldown, a provider that is away for a
while); webhooks are fair where the provider or the queue repeats them (Stripe, the
SQS queue, Fintoc's payin orders) and not at the banks. No admin, user, fault or
restart is ever fair. Where a property needs an outage to end, the outage is
bounded (`MaxOutages`, `LongOutages = FALSE`) and its end fair.

## 4. Refinement

`WithdrawalPromise` is what a user is promised about a withdrawal to a bank account:
the money is set aside, paid once or given back, the bank's word settles it, and
settled is final. It has three variables and no handler, no alias and no job.
`Disbursement!Promise` instantiates it with a mapping from the document, the orders
and the handlers in progress; `PromiseKept` says that every step of the detailed
module is a step or a stutter of the abstract one. TLC checks it in `progress` for two
withdrawals, `PromiseIsKept` proves it for any number of withdrawals, banks and
attempts, provided a withdrawal keeps its bank, and `WithdrawalPromiseIsKept` the same of the
composition the run checks (`Progress`), whatever other parts do.

## 5. What the runs refute

Findings, each with a trace by its run:

- `bankqr_double_credit`: `initiateDeposit` writes `pending` after `generateQR`
  with no condition on the status (`walletController.js:380`); a deposit that was
  confirmed meanwhile is opened again and credited by the bank's IPN.
- `vita_double_dispatch`: two webhooks of one payin both read `payin_pending`; the
  second save puts the payment back to `payin_confirmed` after the first handler
  went through the gate, and two orders are placed. Without the queue only. Two
  confirmations of a bank QR, by the IPN and by the job, do the same with it
  (`bankQrToVita`).
- `free_payout`: `initCrossBorderPayment` releases the reserve of a payment Harbor
  failed with a transient error; the retry job pays it out later.
- `half_provisioned`: healthy custodial accounts stay at the head of the repair job's
  batch, and a half-provisioned one is neither repaired nor reported.

Other promises fail when a constant admits a behaviour the code does not exclude. The
passing runs leave these out; each is one change of a constant away:

| Module | Change | What fails |
|---|---|---|
| `Payments` | `HorizonAnswers = FALSE` | USDC sent twice: the lookup answers null when Horizon fails (`stellarService.js:1056`) |
| | Vita on both sides | a repeated payin webhook completes a payment only sent (`ipnController.js:2383`) |
| | in `payments_live`, without `faults` in the properties | a stop after the log entry loses the webhook (`ipnController.js:2654`) |
| | `"failed" \in AdminForces` | a QR whose payment an admin failed can still be paid |
| `Wallets` | `Methods = {"bank"}` with a limit | a dispatched withdrawal no longer counts (`walletController.js:685`) |
| | no exception for freezable wallets | the unfreeze writes the balance it read (`:1581`); a withdrawal reserved before a freeze is confirmed after it (`:1928`) |
| `Disbursement` | `Switch = TRUE` | a second bank pays a withdrawal the first one executed |
| `Ledger` | `EmptyFreeze = TRUE` | a freeze of nothing never enters the ledger (`walletController.js:1465`) |
| | two admins or `Ordered = FALSE`, `MaxClock = 5` | two closes of different days at once, or a close before one that was posted earlier, take the same income to retained earnings twice (`TransferredOnce`) |
| `StellarInflows` | `CreditFails = TRUE` | the cursor passes a deposit whose credit failed (`monitorUSDCDeposits.js:199`) |
| `Sessions` | `TwoFactor = TRUE` | `SingleSession`: two sessions live (`authController.js:134` says one) |
| | `Overlap = TRUE` | an entry read before the logout is cached after it (`ClosedIsOut`) |
| `SecondFactor` | `Enrolments = TRUE` | two enrolments at once accept one code twice |
| `Idempotency` | property `ExecutedOnce` | two requests at once both run (`models/IdempotencyKey.js:4`) |
| `IpnQueue` | property `AnsweredIsDispatched` | the message is deleted before the dispatch it started ends |
| `Onboarding` | property `ApprovedIsKept` | an approved identity is degraded (`stripeWebhook.js:381` says never) |
| `Receipts` | `Midway` or `StoreFails` | one operation takes two numbers of a series |
| | property `BusinessHasNoBOL` | a business gets a retail receipt (`adminRoutes.js:1127`) |
| `Limits` | `AtOnce = TRUE` | two operations evaluated at once both pass (`ecpLimits.js:24`) |
| `Alerts` | property `ClosedStaysClosed` | a claim is reopened by a reply in flight (`reclamosController.js:390`) |
| `Custody` | `Concurrent = TRUE` | two address requests, the first key is lost (`stellarCustodyController.js:16`) |
| `Transit` | `WritesFail = TRUE` | USDC sent again although the server did not stop |
| | property `EveryCompletedIsSealed` | the transit's hash hides a payment from the reseal job (`resealAuditTrails.js:43`) |
| `Refunds` | `PaidInSweep = TRUE` | cash of a QR paid while it is cancelled is on no list (`reconcileBankQrPayments.js:298`) |
| | `Alone = FALSE` | an admin and the script credit one payment twice |
| | property `RefundedIsNotExecuted` | a refunded payment is paid out by a retry |
| `Treasury` | two conversions, `MaxMoves = 0`; or `RecordFails = TRUE` | USDC credited that no account holds; a harvest sent again (`walletFeeController.js:247`) |
| | two harvesters | both send against the revenue they read |
| `HarborRail` | `MethodsChange`, `RulesDown`, `ThroughForm` or `RulesComplete = FALSE` | money collected for a payout that cannot be built |
| `BankQr` | `Vague`, `PaidInSweep`, `CancelFails`, `LongOutages` | a paid QR whose charge is never confirmed |
| `PayinOrders` | `StoreFails = TRUE` or `FintocURL = {"older"}` | a paid order without a transaction |
| `Failures` | `LastIsLost = TRUE`, errors the retry job leaves alone | a client is told of a retry nobody makes |
| `Jobs` | property `NoneRunsTwice` | jobs without a guard overlap when the trigger retries |
| `Marketing` | `UnlocksInFlight` or `ServerErrors` | a piece posted twice |
| `Quotes`, `Rates` | `FloorIsReached`; `BobMarkets = {1000, 2000}` | a minimum below the floor; an implausible rate is quoted |
| `ClientIdentity` | property `KeyIsCurrent` | a change of telephone keeps the old key |
| | `Corrections = TRUE`, two documents | who was alerted about takes another's document in the cooldown, unreported |
| | `MaxRestarts = 1` | the review under way is lost with the process |
| | `PhoneElsewhere = TRUE`, `MaxUpdates = 3` | who was alerted about, and first gives a telephone in the general profile, gets the key of another account unreported |
| `PushTokens` | `BadPayloads = TRUE` | a valid device is pulled out (`notifications.js:61`) |
| `Reminders` | two runs, `NudgeWriteFails`, `MailFails`; `maxAvisos = 3` | a reminder twice, or none; the third mail about a session of the first |

No property is stated about the daily send limit, which `scanAndPayQR`
(`qrWalletController.js:218`) does not look at.

## 6. What is proved

TLAPS checks every theorem for all values of the constants that meet the named
assumptions of the modules (`TxAssumption`, `UserAssumption`, `BoundAssumption`,
`RefAssumption`, `FeeAssumption`, `BOBAssumption`, `CorridorAssumption`,
`LimitAssumption`, `SwitchAssumption`, `AdminAssumption`: shapes of the constants, which
TLC evaluates in every run) and the hypothesis in the table, if there is one. Each
hypothesis excludes a behaviour under which a run, or a changed constant of section
5, refutes the statement, unless the text below says otherwise.

| Theorem | Property | Hypothesis |
|---|---|---|
| `WalletsProof`: `Invariance`, `SafeInvariance`, `TypeCorrect` | `IInv`, `Safe`, `TypeOK` | |
| `ReservesAlwaysMatch` | `ReservesMatch` | |
| `AlwaysSolvent` | `Solvent` | |
| `RevenueAlwaysMatches` | `RevenueMatches` | |
| `PaymentsHeldOnce` | `PaymentHeldOnce` | |
| `ChargesPaidOnce` | `ChargePaidOnce` | |
| `FrozenIsIdle` | `FrozenTakesNoCommitment` (a step property) | |
| `LedgerAlwaysMatches` | `LedgerMatches` | `BankQr = FALSE` |
| `SettledStaysSettled` | `SettledIsFinal` (a step property) | `BankQr = FALSE` |
| `WithdrawalsCapped` | `DailyWithdrawalCap` | `"bank" \notin Methods` |
| `PaymentsProof`: `PaymentTypes` | `PaymentTypeOK` | |
| `UnpaidIsUnstarted` | `PaidOrUnstarted` | `"pending_funding" \notin AdminForces` |
| `NothingPaidOutUnpaid` | `BackedByPayin` | the same |
| `PaymentsPaidOutOnce` | `PaidOutOnce` | `OnceRails` |
| `CompletedMeansDelivered` | `CompletedIsDelivered` | `DeliveryRails` |
| `UsdcSentOnce` | `UsdcLeavesOnce` | `OneAtATime` |
| `ExpiredIsNotPaid` | `NotPaidAfterFailed` (a step property) | no `failed`, no `pending_funding` in `AdminForces` |
| `DisbursementProof`: `DisbursementInvariance`, `DisbursementTyped` | `DInv`, `DisbursementTypeOK` | `Sane` |
| `OneOrderPerBank` | `OrderedOnce` | `Sane` |
| `BankWordIsPayment` | `CompletedIsPaid` | `Sane` |
| `PaidIsKept` | `PaidNotReturned` | `Sane`, `Switch = FALSE` |
| `PromiseIsKept` | `PromiseKept` (refinement) | `Sane`, `Switch = FALSE` |
| `Refunds`: `OwedAlwaysCommitted` | `OwedIsCommitted` | `PaidInSweep = FALSE`, nobody refunds a pending payin |
| `RefundsCreditedOnce` | `CreditedOnce` | `Alone = TRUE`, `Apart` |
| `SecondFactor`: `CodesUsedOnce` | `CodeUsedOnce` | `Numbers`, `Enrolments = FALSE` |
| `FailuresAlwaysLock` | `FailuresLockOut` | `Numbers` |
| `StellarInflows`: `InflowsCountedOnce` | `CountedOnce` | `MaxPayments \in Nat` |
| `FundingNotSkipped` | `AnchorPassesRecorded` (a step property) | `MaxPayments \in Nat` |
| `GuardsProof`: `ClosedSessionsStayOut` | `Sessions!ClosedIsOut` | `TimeAssumption`, `Overlap = FALSE` |
| `AnswersAreTheirOwn` | `Idempotency!OwnAnswer` | `"none" \notin Request` |
| `RegisteredDevicesAreKept` | `PushTokens!RegisteredIsKept` | `BadPayloads = FALSE`, `MaxTokens` positive |
| `AccessAlwaysHolds` | `AccessHolds` | `AccessAssumption` |
| `ReceiptsHaveOneNumber` | `Receipts!OneNumber` | `Midway = FALSE`, `StoreFails = FALSE` |
| `PiecesArePostedOnce` | `Marketing!PostedOnce` | `UnlocksInFlight = FALSE`, `ServerErrors = FALSE` |
| `ClaimsGoToOne` | `ClaimedOnce` | `ClaimAssumption` |
| `CreditedDepositsStay` | `Anchor!CreditedIsNotClosed` | |
| `ShownAddressesAreHeld` | `Custody!AddressIsHeld` | `Concurrent = FALSE`, `Caller` finite |
| `OwedStaysKept` | `OwedIsKept` | `OwedAssumption` |
| `DeclaredLimitsHold`, `LargeOnesAreFlagged` | `Limits!EcpLimitHolds`, `Limits!LargeIsFlagged` | `LimitAssumption`, `AtOnce = FALSE` |
| `DuplicatesAreReported`, `ComplianceAlwaysHolds` | `ClientIdentity!DuplicateIsAlerted`, `ComplianceHolds` | `ComplianceAssumption` |
| `LiabilitiesStayBacked` | `LiabilitiesBacked` | `TreasuryAssumption` |
| `ProgressProof`: `ConfirmedChargesArePaid` | `BankQr!ConfirmedIsPaid` | |
| `PayoutsTransferOnce` | `Failures!TransferredOnce` | |
| `GuardedJobsRunAlone` | `Jobs!GuardedRunsAlone` | |
| `TransitsSentOncePerStop` | `Transit!SentOncePerStop` | `WritesFail = FALSE` |
| `RemindersGoOnce` | `Reminders!RemindedOnce` | `OneRun`, `NudgeWriteFails = FALSE`, `maxAvisos \in 0 .. 2` |
| `LedgerReconciles` | `Ledger!Reconciles` | `Movement` finite |
| `IncomeIsMovedOnce` | `Ledger!TransferredOnce` | the same, `OneAdmin`, `Ordered = TRUE` |
| `MoneyMovesOnce` | `MovedOnce` | `MovedAssumption` |
| `PromisesAreBacked` | `Quotes!PromiseIsBacked` | `QuoteAssumption` |
| `CollectedCanBePaid` | `HarborRail!CollectedIsPayable` | `RailAssumption` |
| `OffersAreExecutable` | `OfferIsExecutable` | `OfferAssumption` |
| `WithdrawalPromiseIsKept` | `PromiseKept`, of the composition | `Sane`, `Switch = FALSE` |

`Sane`, `Numbers`, `Apart`, `TimeAssumption`, `LimitAssumption` and `QuoteAssumption` only
say that bounds, amounts and rates are numbers (a spread is between 0 and 100), that sets are
finite where something is summed over them, and that names that mean "nobody" are
nobody's. The `...Assumption` of a composed property joins those of its parts. Three
hold more than shapes. `ComplianceAssumption`: operations are checked and created one at a
time; no correction of a document, no telephone from the general profile and no restart
meets a review; at most eleven accounts, because a review compares with the first ten
others. `TreasuryAssumption`: one harvester at a time, what it sent is recorded, at most
one conversion, which is what the fee reserve covers. `RailAssumption`: the rules of
Harbor are complete, answer and do not change; each country is Harbor's or Peru,
whose rules Vita's form covers. All but the bound on accounts and the one on countries
are refuted in section 5 when they are dropped. The limit of two reminders is the
code's default (`kycRetryNudge.js:47`).

The theorems of the parts in `Refunds`, `SecondFactor` and `StellarInflows` are in the
parts' own modules, about their own specifications; `GuardsProof` and `ProgressProof`
carry them over to the compositions.

### Along which argument

**Wallets, reserves.** `ReservesMatch` is not inductive, because an open session
computed its writes from an older state. `IInv` adds that the writes of a session,
against the current documents, move each reserve by exactly what the hold of one
document changes. It is kept because writing a document drops every other session
that writes it: this is where MongoDB's conflict rule is used. Each handler is shown
to begin a session of that kind, or to make a plain update that moves no hold.

**Wallets, the rest.** `Safe` says, besides the same of the documents (books match,
one claim on each code and payment, limits, coverage), that the writes of every open
session are safe against the current documents (`SafeWrites`): what they book is
what they move, a wallet they debit stays covered, a code they claim is unclaimed.
It mentions only documents the session writes, so whoever could disturb it also
drops the session. Two facts do not concern a written document: that a code is
unclaimed, and what a user asked for today; whoever changes those writes the code's
creator's wallet, or the user's, which the session writes too. So what makes
`ChargePaidOnce` true is not the lookup of an earlier payment, which is outside any
lock, but that both payers write the creator's wallet. `BankQr = FALSE` is what
`bankqr_double_credit` refutes otherwise; a dispatched withdrawal is not counted
against the daily limit, hence `"bank" \notin Methods`. The step properties follow
from `Safe`, and from the fact that a commit writes what was safe to write.

**Payments, nothing unpaid leaves.** A handler may be on its way with a document it
read earlier. `Unstarted` says that, while nobody has paid, no document, no
handler's copy, no webhook and no handler is past the payin. The panel lets an admin
set `pending_funding`, whose retry pays out whatever the payer did.

**Payments, paid out once.** `OnceInv`: at most one handler is *active* (may confirm
the payin, or is between the gate and the provider), and what the document's status
and the handler's step say of the providers. `OnceRails` supposes that webhooks come
from the queue, that the memo lookup answers, that the payin is the wallet's,
Vita's or Fintoc's, and that no admin puts a payment before its payout. Each is
needed: without the queue two webhooks open the gate twice (`vita_double_dispatch`),
a bank QR or a manual payin is confirmed by two handlers that the queue does not
order. With one handler at a time only the lookup is needed for the USDC
(`UsdcSentOnce`, invariant `Looked`: nobody is about to submit once it was sent).

**Payments, completed.** Until the payout has ended, nobody has heard "completed":
no document, copy, webhook or handler's argument (`Unsaid`). `DeliveryRails` leaves
out Vita payins, whose repeated webhook is taken for the payout's, and an admin who
writes "completed".

**Payments, expired QRs.** `QrStands`: as long as nothing has failed, an unpaid QR's
payment is not failed and no handler is about to fail it, except the one that has
just cancelled the QR. The hypothesis on `failed` came from the proof: an admin who
fails such a payment leaves its QR payable.

**Withdrawals at the bank.** `DInv`: an alias names one withdrawal; an order is known
by its alias at Red Enlace, by the withdrawal at Banco Económico; a dispatch in
progress keeps admins and the job out; what the job was told, and what settled the
withdrawal, is a verdict of the bank; orders are at the withdrawal's bank unless it
may switch. The refinement takes each handler in turn: those that touch only the
alias or the copy stutter, the others are one step of the promise.

**Refunds.** `CollectedInv`: cash at the bank belongs to a payment whose status, or
whose proof, says so, and only a delivered one is completed. `CreditInv`: a credit to
the wallet leaves evidence, and whoever is about to credit has none in sight: the
condition of the update (for admins) or running alone (for the script).

**Second factor.** `SecondInv`: a code that has given a session for the enrolled
secret is spent in the document; a verification whose version is still current
read the current secret. `StreakCounts`: the document's streak is the number of
failures since it was cleared, and whoever reached the limit is at the lock.

**Stellar inflows.** `InflowInv`: credits are of users' payments and records of the
treasury's, one for each, and a job that is about to write has seen that nobody
wrote (`Recorded`, the transaction's hash), though the cursor still stands before
it. `NoGap`: every treasury payment between the cursor and the one at work is a
user's or recorded. That the next payment after a cursor exists and is the smallest
(`FirstIsFirst`) is well-founded induction over `Nat`, by the library's theorem.

**Parts, in the compositions.** `StepOfParts` (of `Guards` and of `Progress`): a step of
the composition is a step of one part and leaves the variables of the others alone.
So each part has an invariant of its own, and a composed property follows from the parts'
theorems.

**Sessions.** `SessionInv`: what a cache or a request in progress holds was read no longer
ago than its time to live, and no later than now. A closed session is either revoked or behind the
account's version (`ClosedFor`), and whatever still carries its version was read before
it closed; so it lives `TTL` at most.

**Idempotency, devices, pieces, numbers.** `IdempotencyInv`: what is stored under a key is
the answer of a request that had that key and has ended. `TokensInv`: a registration
whose version is still current has read every device of the list, so replacing the
list loses none; only invalid devices are pulled out. `OutIsSeen`: whoever is at
work on a piece is alone, holds its lock, and nothing was posted yet where he may still
let go of it; a piece that is out is locked or marked. `IssuedOnce`: a number that was
issued is in the document or in the hands of the one person about to store it.

**Anchor and custody.** `AnchorInv`: an instruction with a credit is past the statuses that
can be closed, so the condition of the update refuses what the older list says.
`CustodyInv`: every shown address is the one of the document; whoever is about to store a
key finds none there, because nobody else provisions the same user.

**Limits and monitor.** `EcpInv`: the sum of what counts, with the amount one request has
checked and not yet created, stays within the limits of the day and the period.
`FlagInv`: a large operation has its alert as soon as the monitor of its source has run
after it completed. The sums are counted over sets of units, so that no induction over
a fold is needed.

**Duplicates.** `AlertInv`: two accounts that share a key are named together, or one of
them has a review pending with that key; and if one of them is silenced by the
cooldown, the other is not.

**Treasury.** `Books`: what custodial accounts hold, plus conversions and what a harvest
has sent but not recorded, is what users own, what is arriving and the accrued
revenue. `HarvestInv` bounds a harvest by the revenue, `HotInv` keeps what conversions credited
in the hot account.

**Charges, payouts, jobs, transits, reminders.** `ChargeInv`: whoever is about to confirm a
charge heard of a payment of its own QR. `PayoutInv`: a payout that is to be tried (again)
was not executed, and no transfer of it is at hand. `JobInv`: a guarded run begins only
when none is recorded, in the same step. `TransitInv`: submissions are at most the stops
plus one, and at most the stops while a transit can still be sent. `ReminderInv`: a
mail is counted with its session, or in the list of the only run, which has one
letter of a user.

**Quotes and rail.** `QuoteInv` needs only that figures are numbers, and that the tolerance of the
check against the server's quote and the tolerance of the destination add up to what is
promised (`TolerancesAdd`, the one lemma on products). `RailInv`: whatever was collected, or
is retried, has a method and a beneficiary the rail of its country takes.

**Ledger.** `LedgerInv`: an entry has one number and one source, and its lines are what
its movement, its close or its reversal builds; whoever is about to write lines has
the entry. So entries with lines correspond one to one with posted movements, and the
control accounts hold what those did (`ControlsAgree`). Balances are folds over sets; they
are taken as numbers of units (`Units`), which makes sums cardinalities of finite sets.
`MoneyInv`: what a pending close will take is covered by what is left of its account, and
two closes of one list take different accounts. Two lists at once break it, and so does
a close before one already posted: hence `OneAdmin` and `Ordered`. The property is net
of reversals, after which a period may be closed again.

### Only model-checked, and why

- Liveness (all `PROPERTIES` of `payments_live` except `NotPaidAfterFailed`, and of
  `progress` except `PromiseKept`): under fairness, and ENABLED, it is beyond the prover.
- `ProgressTypeOK`, `GuardsTypeOK`: type invariants of all twenty-nine parts. The parts that
  have theorems have the types they need in their invariants (`...Typed`).

Every other invariant and step property of a passing run is stated by a theorem of the
table. The conjuncts of `MovedOnce`, `ClaimedOnce`, `AccessHolds`, `OwedIsKept`,
`ComplianceHolds` and `OfferIsExecutable` each have one of their own, too.

## 7. Plan

1. An atomic ledger (balances and reserves with atomic operations) that `Wallets`
   implements, from `IInv` and `Safe`; a payment with the states unpaid, paid, sent,
   delivered, failed, that `Payments` implements on the rails of section 6.
2. The hold of `WalletUSDC` composed with `Payments`: the settlement sweep.

## 8. Not modelled, and why

- Handlers that only read, format or notify: listings, statements, PDFs, mail texts,
  dashboards, analytics, the support agent.
- Checks that only refuse (P2P limits, schema validation): a request they refuse is
  one that was not made.
- `paymentOrchestrator`, `transactionRouter` and `fallbackExecutor`: nothing calls
  `orchestrateCrossBorderPayment`; the handlers of `ipnController` do this work.
- Payments: the Stripe payin webhook, sandbox simulations, archiving, the age of a
  payment except where a job filters by it.
- Wallets: the accounts of `swapRevenueAccruedBob`, limits of USDC transfers, rounding.
- Compliance: name matching (a name matches or does not), the assisted analysis of
  documents, risk scores. Marketing: campaigns and texts.
- Seeds, migrations and one-off scripts, except those that move money
  (`regularizar-bob-comprometido`, `resume-usdc-send`).

The status and the reason of each component are in `PROJECT.json`.
