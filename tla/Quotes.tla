---- MODULE Quotes ----
(* Quotes and what becomes of them: the socket that keeps one on the customer's    *)
(* screen, the payment created from it, and the guard on exchange drift before it  *)
(* is paid out.  One customer, one corridor from BOB paid out by Vita Wallet or    *)
(* Harbor.  Amounts are cents; a rate is cents of BOB per USDC, or units of the      *)
(* destination currency per USDC.                                                  *)
EXTENDS Integers

CONSTANTS
    Amounts,        \* what the customer may want to send, in whole BOB
    Markets,        \* BOB-USDT on the market
    VitaRates,      \* destination currency per USD at the provider
    Spreads,        \* alytoCSpread an admin may set, in percent
    PayoutMethod,   \* "vitaWallet" or "owlPay"
    FxBuffer,       \* fxBufferPct of the corridor
    FloorUSD,       \* the provider's minimum
    MinAmount,      \* minAmountOrigin of the corridor, in whole BOB
    MaxChanges      \* bound on the changes of rates and corridor

VARIABLES
    market, vitaRate, vitaUp,
    corridor,    \* TransactionConfig: spread and isActive
    ws,          \* quoteState of the customer's socket
    computing,   \* computeQuote in progress: what each caller read from the state
    shown,       \* the last quote the customer received
    payment,     \* the Transaction
    changes

quoteVars == <<market, vitaRate, vitaUp, corridor, ws, computing, shown, payment, changes>>
worldVars == <<market, vitaRate, vitaUp, corridor, changes>>

\* A corridor's document; its buffer and its minimums are constants here.
Corridor == [spread : Spreads, isActive : BOOLEAN]

Callers == {"message", "timer"}
None == 0
NoPayment == [stage |-> "none"]

QuotesTypeOK ==
    /\ market \in Markets /\ vitaRate \in VitaRates /\ vitaUp \in BOOLEAN
    /\ corridor \in Corridor
    /\ ws \in [open : BOOLEAN, spread : Spreads, amount : Amounts, timer : BOOLEAN]
    /\ computing \in [Callers -> [amount : Amounts \cup {None}, spread : Spreads]]
    /\ shown.amount \in Amounts \cup {None}
    /\ payment.stage \in {"none", "checking", "created", "sent", "pending_fx_review"}
    /\ changes \in 0 .. MaxChanges

NotComputing == [amount |-> None, spread |-> CHOOSE s \in Spreads : TRUE]

QuotesInit ==
    /\ market \in Markets /\ vitaRate \in VitaRates /\ vitaUp = TRUE
    /\ \E s \in Spreads : corridor = [spread |-> s, isActive |-> TRUE]
    /\ ws = [open |-> FALSE, spread |-> corridor.spread,
             amount |-> CHOOSE a \in Amounts : TRUE, timer |-> FALSE]
    /\ computing = [c \in Callers |-> NotComputing]
    /\ shown = [amount |-> None, dest |-> 0, usdc |-> 0]
    /\ payment = NoPayment
    /\ changes = 0

-----------------------------------------------------------------------------
(* The arithmetic of a quote.                                                      *)

Round(a, b) == (2 * a + b) \div (2 * b)
Ceil(a, b) == (a + b - 1) \div b
Within(x, y, perMille) == x * 1000 \in (y * (1000 - perMille)) .. (y * (1000 + perMille))

\* resolveQuoteRate: the market with the corridor's buffer.
resolveQuoteRate(m) == Round(m * (100 + FxBuffer), 100)

netBOB(amount, spread) == amount * (100 - spread)

\* calculateQuote. The percentages of payin and retention and the fixed fees add to the
\* spread: one of them stands for all.
usdcTransit(amount, spread, m) == Round(netBOB(amount, spread) * 100, resolveQuoteRate(m))
destination(amount, spread, m, r) == usdcTransit(amount, spread, m) * r
calculateQuote(amount, spread, m, r) ==
    [amount |-> amount, usdc |-> usdcTransit(amount, spread, m),
     dest |-> destination(amount, spread, m, r)]

\* minOriginForFloor, in whole BOB: the gross amount whose net reaches the floor.
minOriginForFloor(spread, rate) == Ceil(FloorUSD * rate, 100 - spread)

effectiveMinOrigin(spread, rate) ==
    IF minOriginForFloor(spread, rate) > MinAmount THEN minOriginForFloor(spread, rate)
    ELSE MinAmount

\* resolveEffectiveMinimum: by the market's rate (originPerUsdFor).
minExact(spread) == effectiveMinOrigin(spread, market)

-----------------------------------------------------------------------------
(* The world: rates move, Vita answers or not, an admin edits the corridor.         *)

ratesMove ==
    /\ changes < MaxChanges
    /\ changes' = changes + 1
    /\ \E m \in Markets, r \in VitaRates :
          /\ <<m, r>> # <<market, vitaRate>>
          /\ market' = m /\ vitaRate' = r
    /\ UNCHANGED <<vitaUp, corridor, ws, computing, shown, payment>>

vitaFails ==
    /\ changes < MaxChanges /\ vitaUp
    /\ changes' = changes + 1
    /\ vitaUp' = FALSE
    /\ UNCHANGED <<market, vitaRate, corridor, ws, computing, shown, payment>>

vitaRecovers ==
    /\ ~vitaUp
    /\ vitaUp' = TRUE
    /\ UNCHANGED <<market, vitaRate, corridor, changes, ws, computing, shown, payment>>

\* updateCorridor and updateGlobalPricing.
updateCorridor ==
    /\ changes < MaxChanges
    /\ changes' = changes + 1
    /\ \E s \in Spreads \ {corridor.spread} : corridor' = [corridor EXCEPT !.spread = s]
    /\ UNCHANGED <<market, vitaRate, vitaUp, ws, computing, shown, payment>>

\* deactivateCorridor refuses while payments of the corridor are under way.
deactivateCorridor ==
    /\ corridor.isActive
    /\ payment.stage # "created"
    /\ corridor' = [corridor EXCEPT !.isActive = FALSE]
    /\ UNCHANGED <<market, vitaRate, vitaUp, changes, ws, computing, shown, payment>>

-----------------------------------------------------------------------------
(* The socket.                                                                    *)

startComputing(caller, amount, spread) ==
    computing' = [computing EXCEPT ![caller] = [amount |-> amount, spread |-> spread]]

\* handleSubscribe reads the corridor once, for the life of the connection.
handleSubscribe(amount) ==
    /\ ~ws.open /\ corridor.isActive
    /\ ws' = [open |-> TRUE, spread |-> corridor.spread, amount |-> amount, timer |-> FALSE]
    /\ startComputing("message", amount, corridor.spread)
    /\ UNCHANGED <<worldVars, shown, payment>>

\* handleUpdateAmount computes while a refresh may be computing too.
handleUpdateAmount(amount) ==
    /\ ws.open /\ amount # ws.amount
    /\ computing["message"] = NotComputing
    /\ ws' = [ws EXCEPT !.amount = amount]
    /\ startComputing("message", amount, ws.spread)
    /\ UNCHANGED <<worldVars, shown, payment>>

\* The refresh timer fires.
scheduleRefresh ==
    /\ ws.open /\ ws.timer /\ computing["timer"] = NotComputing
    /\ ws' = [ws EXCEPT !.timer = FALSE]
    /\ startComputing("timer", ws.amount, ws.spread)
    /\ UNCHANGED <<worldVars, shown, payment>>

\* The quote of what the caller read, by the prices of now.
quoteOf(caller) ==
    calculateQuote(computing[caller].amount, computing[caller].spread, market, vitaRate)

\* It is sent while the socket is open; without prices an error is.
sendQuote(caller) == IF ws.open /\ vitaUp THEN shown' = quoteOf(caller) ELSE UNCHANGED shown

\* Mutant: a refresh without an answer is not scheduled again.
computeQuoteGivingUp(caller) ==
    /\ computing[caller] # NotComputing
    /\ computing' = [computing EXCEPT ![caller] = NotComputing]
    /\ sendQuote(caller)
    /\ ws' = [ws EXCEPT !.timer = ws.open /\ (vitaUp \/ caller = "message")]
    /\ UNCHANGED <<worldVars, payment>>

\* computeQuote returns: the quote of what was read, or nothing without Vita's prices;
\* the next refresh is scheduled in either case.
computeQuote(caller) ==
    /\ computing[caller] # NotComputing
    /\ computing' = [computing EXCEPT ![caller] = NotComputing]
    /\ sendQuote(caller)
    /\ ws' = [ws EXCEPT !.timer = ws.open]
    /\ UNCHANGED <<worldVars, payment>>

unsubscribe ==
    /\ ws.open
    /\ ws' = [ws EXCEPT !.open = FALSE, !.timer = FALSE]
    /\ UNCHANGED <<worldVars, computing, shown, payment>>

\* getQuote refuses a corridor that is not active and an amount below its minimum.
quotable(amount) == corridor.isActive /\ amount >= minExact(corridor.spread)

quoteNow(amount) == calculateQuote(amount, corridor.spread, market, vitaRate)

\* It computes from the current corridor and prices, without which there is no quote,
\* and keeps nothing.
getQuote(amount) ==
    /\ quotable(amount) /\ vitaUp
    /\ shown' = quoteNow(amount)
    /\ UNCHANGED <<worldVars, ws, computing, payment>>

-----------------------------------------------------------------------------
(* The payment.                                                                   *)

\* initCrossBorderPayment: an active corridor and an amount above the minimum. The body
\* carries the quote the customer saw.
initReads ==
    /\ payment = NoPayment
    /\ shown.amount # None /\ corridor.isActive
    /\ shown.amount >= minExact(corridor.spread)
    /\ payment' = [stage |-> "checking", quote |-> shown, spread |-> corridor.spread]
    /\ UNCHANGED <<worldVars, ws, computing, shown>>

\* What is left of the amount after the fees the server computes.
serverNet == netBOB(payment.quote.amount, payment.spread)

serverUsdcTransit == usdcTransit(payment.quote.amount, payment.spread, market)

digitalAssetAmountAsQuoted == payment.quote.usdc

\* The amount in USDC: the quoted one within 1.5 % of the server's, else the server's.
digitalAssetAmount ==
    IF Within(payment.quote.usdc, serverUsdcTransit, 15) THEN payment.quote.usdc
    ELSE serverUsdcTransit

\* validateQuotedDestinationAmount: within 1 % of what the server expects. Only payments
\* through Vita are checked, and only while Vita gives prices.
validateQuotedDestinationAmount ==
    \/ PayoutMethod # "vitaWallet"
    \/ ~vitaUp
    \/ Within(payment.quote.dest, serverUsdcTransit * vitaRate, 10)

createPayment ==
    /\ payment.stage = "checking"
    /\ validateQuotedDestinationAmount
    /\ payment' = [stage |-> "created", usdc |-> digitalAssetAmount,
                   dest |-> payment.quote.dest, rate |-> vitaRate,
                   net |-> serverNet,
                   checked |-> vitaUp /\ PayoutMethod = "vitaWallet"]
    /\ UNCHANGED <<worldVars, ws, computing, shown>>

\* QUOTE_MISMATCH, or a preflight on the balance, the rail or the beneficiary refuses.
rejectPayment ==
    /\ payment.stage = "checking"
    /\ payment' = NoPayment
    /\ UNCHANGED <<worldVars, ws, computing, shown>>

\* checkFxDrift: the market against the rate the payment was collected at.
checkFxDrift == market * payment.usdc > payment.net * 103

\* A drift stops the payment for review; otherwise the USDC stand and it goes on.
afterDrift == IF checkFxDrift THEN "pending_fx_review" ELSE "sent"

\* dispatchPayout: the destination of the quote is kept, and the USDC sent are the ones
\* the payment was created with. An admin sends again what waits for review.
dispatchPayout ==
    /\ payment.stage \in {"created", "pending_fx_review"}
    /\ payment' = [payment EXCEPT !.stage = afterDrift]
    /\ UNCHANGED <<worldVars, ws, computing, shown>>

QuotesNext ==
    \/ ratesMove \/ vitaFails \/ vitaRecovers \/ updateCorridor \/ deactivateCorridor
    \/ \E a \in Amounts : handleSubscribe(a) \/ handleUpdateAmount(a) \/ getQuote(a)
    \/ scheduleRefresh \/ unsubscribe \/ \E c \in Callers : computeQuote(c)
    \/ initReads \/ createPayment \/ rejectPayment \/ dispatchPayout

\* Timers fire, requests to Vita end, and Vita comes back.
QuotesFairness ==
    /\ WF_quoteVars(scheduleRefresh) /\ WF_quoteVars(vitaRecovers)
    /\ \A c \in Callers : WF_quoteVars(computeQuote(c))

QuotesSpec == QuotesInit /\ [][QuotesNext]_quoteVars /\ QuotesFairness

-----------------------------------------------------------------------------
\* The quote on screen catches up with the amount the customer typed last, although a
\* refresh that read the previous amount may answer later and Vita may not answer
\* (quoteSocket computeQuote, scheduleRefresh, handleUpdateAmount).
ShownCatchesUp ==
    \A a \in Amounts :
        (ws.open /\ ws.amount = a) ~> (shown.amount = a \/ ws.amount # a \/ ~ws.open)

\* What is promised is backed: the USDC a checked payment was created with buy, at the
\* rates of that moment, what was promised, within 2.6 %. The two are taken from a quote
\* of other rates and an older corridor, each with its own tolerance
\* (initCrossBorderPayment, validateQuotedDestinationAmount).
PromiseIsBacked ==
    payment.stage \in {"created", "sent", "pending_fx_review"} /\ payment.checked
        => payment.dest * 1000 <= payment.usdc * payment.rate * 1026

\* A payment that was accepted reaches the provider's minimum (corridorMinimums).
FloorIsReached ==
    payment.stage \in {"created", "sent", "pending_fx_review"} => payment.usdc >= FloorUSD * 100
====
