-------------------------------- MODULE Guards --------------------------------
(***************************************************************************)
(* The parts of the system that stand guard: who gets in, what is answered *)
(* twice, what a customer may move and what the treasury can bear.  They   *)
(* share no state, so each behaviour is one part's: "part" names it, and   *)
(* the others stay as they start.                                          *)
(***************************************************************************)
EXTENDS Integers, FiniteSets, TLC

CONSTANTS
  Request, Requester, RequestKey, AnswerStoreFails,            \* Idempotency
  Session, TTL, MaxTime, MaxVersion, TwoFactor, Overlap,      \* Sessions
  Attempt, Code, MaxFailures, MaxCount, MaxStep, MaxSecrets,  \* SecondFactor
  Enrolments,
  Operation, Business, Manual, Issuer, MaxNumber, Midway,     \* Receipts
  StoreFails,
  Movement, Wallet, Amounts, OperationMax, DailyMax,          \* Limits
  PeriodMax, SingleTx, DailyCumul, Ticks, MaxNow, AtOnce,
  Handler, MaxProfiles, MaxReviews, Incomplete,               \* DueDiligence
  Owner, Document, Phone, Corrections, PhoneElsewhere,      \* ClientIdentity
  MaxUpdates, MaxRestarts,
  MaxOrders, MaxSends,                                        \* Anchor
  Payin, ByQr, PaidInSweep, Refunder, Script, Alone,          \* Refunds
  RefundFrom,
  Holder, Rich, Payout, PayoutUSDC, InitialHot, Harvester,    \* Treasury
  RecordFails, MaxMoves, MaxConversions, MaxFundings,
  Piece, Admin, Signals, Forbidden, Carousels,                \* Marketing
  UnlocksInFlight, ServerErrors, MaxCrashes,
  Users, Caller, BatchSize, MaxAttempts, ChannelXLM,          \* Custody
  MaxStops, Concurrent,
  Token, MaxTokens, MaxPushes, MaxChanges, BadPayloads,       \* PushTokens
  Deletes

VARIABLES
  part,
  call, store, saving, ran,
  account, login, token, revoked, reset, request, users, jtis, clock, closed, served,
  factor, counter, attempt, secrets, granted, failures,
  tx, seq, issuer, issued,
  op, now, alerts, rejected, monitored,
  profile, user, handler, count, edd,
  client, reviews, throttled, told, done,
  customer, orders, paidFor, arrived, credited, closures, patches,
  payins, cash, delivered, credits, payouts, sweeps, refunds,
  mirror, chain, arriving, revenue, harvests, paying, waitings, cachedHot, moves,
  conversions, fundings,
  pieces, posts, calls, lists, stops,
  custody, onChain, channelXLM, keyRequest, shown, repair, restarts,
  fcmTokens, version, installed, wants, registering, push, inbox, deletedAt, deviceChanges

idempotencyVars == <<call, store, saving, ran>>
sessionVars == <<account, login, token, revoked, reset, request, users, jtis, clock,
                 closed, served>>
factorVars == <<factor, counter, attempt, secrets, granted, failures>>
receiptVars == <<tx, seq, issuer, issued>>
limitVars == <<op, now, alerts, rejected, monitored>>
diligenceVars == <<profile, user, handler, count, edd>>
identityVars == <<client, reviews, throttled, told, done>>
anchorVars == <<customer, orders, paidFor, arrived, credited, closures, patches>>
cashVars == <<payins, cash, delivered, credits, payouts, sweeps, refunds>>
treasuryVars == <<mirror, chain, arriving, revenue, harvests, paying, waitings, cachedHot,
                  moves, conversions, fundings>>
marketingVars == <<pieces, posts, calls, lists, stops>>
custodyVars == <<custody, onChain, channelXLM, keyRequest, shown, repair, restarts>>
tokenVars == <<fcmTokens, version, installed, wants, registering, push, inbox, deletedAt,
               deviceChanges>>

-----------------------------------------------------------------------------
(* A constant of a part has its name here too, unless two parts share it.  *)
Idempotency == INSTANCE Idempotency WITH
  Client <- Requester, Key <- RequestKey, StoreFails <- AnswerStoreFails
Sessions == INSTANCE Sessions WITH now <- clock
SecondFactor == INSTANCE SecondFactor
Receipts == INSTANCE Receipts
Limits == INSTANCE Limits WITH Operation <- Movement, ran <- monitored
DueDiligence == INSTANCE DueDiligence
ClientIdentity == INSTANCE ClientIdentity WITH Account <- Owner
Anchor == INSTANCE Anchor
Refunds == INSTANCE Refunds
Treasury == INSTANCE Treasury WITH Amount <- [p \in Payout |-> PayoutUSDC]
Marketing == INSTANCE Marketing
Custody == INSTANCE Custody WITH MaxRestarts <- MaxStops, request <- keyRequest
PushTokens == INSTANCE PushTokens

-----------------------------------------------------------------------------
Part == {"idempotency", "sessions", "factor", "receipts", "limits", "diligence",
         "identity", "anchor", "refunds", "treasury", "marketing", "custody", "tokens"}

(* A part that may start in several ways starts in one where it is still.  *)
Init ==
  /\ part \in Part
  /\ Idempotency!IdempotencyInit /\ Sessions!SessionInit /\ SecondFactor!FactorInit
  /\ Receipts!ReceiptInit /\ Limits!LimitsInit /\ DueDiligence!DiligenceInit
  /\ ClientIdentity!IdentityInit /\ Refunds!CashInit /\ Treasury!TreasuryInit
  /\ Custody!CustodyInit /\ PushTokens!TokensInit
  /\ Anchor!AnchorInit /\ (part = "anchor" \/ customer = "registered")
  /\ Marketing!MarketingInit /\ (part = "marketing" \/ lists = {})

(* A step of the part p leaves the others as they are.                     *)
Moves(p) ==
  /\ part = p
  /\ UNCHANGED part
  /\ IF p = "idempotency" THEN TRUE ELSE UNCHANGED idempotencyVars
  /\ IF p = "sessions" THEN TRUE ELSE UNCHANGED sessionVars
  /\ IF p = "factor" THEN TRUE ELSE UNCHANGED factorVars
  /\ IF p = "receipts" THEN TRUE ELSE UNCHANGED receiptVars
  /\ IF p = "limits" THEN TRUE ELSE UNCHANGED limitVars
  /\ IF p = "diligence" THEN TRUE ELSE UNCHANGED diligenceVars
  /\ IF p = "identity" THEN TRUE ELSE UNCHANGED identityVars
  /\ IF p = "anchor" THEN TRUE ELSE UNCHANGED anchorVars
  /\ IF p = "refunds" THEN TRUE ELSE UNCHANGED cashVars
  /\ IF p = "treasury" THEN TRUE ELSE UNCHANGED treasuryVars
  /\ IF p = "marketing" THEN TRUE ELSE UNCHANGED marketingVars
  /\ IF p = "custody" THEN TRUE ELSE UNCHANGED custodyVars
  /\ IF p = "tokens" THEN TRUE ELSE UNCHANGED tokenVars

Next ==
  \/ Moves("idempotency") /\ Idempotency!IdempotencyNext
  \/ Moves("sessions") /\ Sessions!SessionNext
  \/ Moves("factor") /\ SecondFactor!FactorNext
  \/ Moves("receipts") /\ Receipts!ReceiptNext
  \/ Moves("limits") /\ Limits!LimitsNext
  \/ Moves("diligence") /\ DueDiligence!DiligenceNext
  \/ Moves("identity") /\ ClientIdentity!IdentityNext
  \/ Moves("anchor") /\ Anchor!AnchorNext
  \/ Moves("refunds") /\ Refunds!CashNext
  \/ Moves("treasury") /\ Treasury!TreasuryNext
  \/ Moves("marketing") /\ Marketing!MarketingNext
  \/ Moves("custody") /\ Custody!CustodyNext
  \/ Moves("tokens") /\ PushTokens!TokensNext

vars == <<part, idempotencyVars, sessionVars, factorVars, receiptVars, limitVars,
          diligenceVars, identityVars, anchorVars, cashVars, treasuryVars, marketingVars,
          custodyVars, tokenVars>>
Spec == Init /\ [][Next]_vars

-----------------------------------------------------------------------------
(* Type correctness, of every part.                                        *)
GuardsTypeOK ==
  /\ part \in Part
  /\ Idempotency!IdempotencyTypeOK /\ Sessions!SessionTypeOK /\ SecondFactor!FactorTypeOK
  /\ Receipts!ReceiptTypeOK /\ Limits!LimitsTypeOK /\ DueDiligence!DiligenceTypeOK
  /\ ClientIdentity!IdentityTypeOK /\ Anchor!AnchorTypeOK /\ Refunds!RefundsTypeOK
  /\ Treasury!TreasuryTypeOK /\ Marketing!MarketingTypeOK /\ Custody!CustodyTypeOK
  /\ PushTokens!TokensTypeOK

(* Nobody gets what is another's or no longer theirs: a session that was   *)
(* closed is let in no longer than a cached answer lives, as many wrong    *)
(* codes as the limit lock the account though they come at the same time,  *)
(* and an answer served from the idempotency store is the user's own.  And *)
(* who belongs there stays: a device the user registered goes on being     *)
(* pushed to until he unlinks it or a newer one takes its place.           *)
AccessHolds ==
  /\ Sessions!ClosedIsOut /\ SecondFactor!FailuresLockOut /\ Idempotency!OwnAnswer
  /\ PushTokens!RegisteredIsKept

(* What two hands claim at the same time one of them gets: a code gives    *)
(* one session, an operation takes one number of a series, a payment is    *)
(* credited back to its wallet once, a piece is posted once.               *)
ClaimedOnce ==
  /\ SecondFactor!CodeUsedOnce /\ Receipts!OneNumber
  /\ Refunds!CreditedOnce /\ Marketing!PostedOnce

(* Compliance keeps pace with the requests: the declared limits hold over  *)
(* what was created, a large operation has its alert, and two accounts of  *)
(* one customer are reported, whatever cooldown an earlier alert started.  *)
ComplianceHolds ==
  Limits!EcpLimitHolds /\ Limits!LargeIsFlagged /\ ClientIdentity!DuplicateIsAlerted

(* What the service owes is not written off: a deposit that was credited   *)
(* is not closed as unfunded though the admin's list is read before, the   *)
(* coverage sets aside all the cash that was collected and neither paid    *)
(* out nor given back, and an address a user was shown is one whose key is *)
(* still held.                                                             *)
OwedIsKept ==
  Anchor!CreditedIsNotClosed /\ Refunds!OwedIsCommitted /\ Custody!AddressIsHeld

(* The reserves on the chain cover what the users own, while the fees are  *)
(* harvested and payouts leave.  One conversion: the second is another     *)
(* matter (README).                                                        *)
LiabilitiesBacked == Treasury!LiabilitiesBacked
=============================================================================
