------------------------------ MODULE Treasury ------------------------------
(***************************************************************************)
(* The USDC of the platform.  Users own what the mirror says (balance and  *)
(* frozen); on the chain it lies in custodial accounts, one per user, and  *)
(* in the hot account of the treasury, which backs what conversions credit *)
(* and pays the payouts in bolivianos.  Transfers between users move the   *)
(* mirror only: their fees stay on the sender's account until an admin     *)
(* harvests them.  Payouts that find too little wait for a funding.        *)
(***************************************************************************)
EXTENDS Naturals, SequencesExt

CONSTANTS
  Holder,          \* users with a custodial account
  Rich,            \* the one who starts with USDC
  Payout,          \* payouts paid by the treasury
  Amount,          \* USDC of each
  InitialHot,      \* what the hot account starts with
  Harvester,       \* admins who harvest
  RecordFails,     \* FundingRecord.create may fail after the send
  MaxMoves,        \* bound on deposits, freezes and transfers
  MaxConversions,  \* bound on conversions, of 1 USDC each
  MaxFundings      \* bound on fundings

VARIABLES
  mirror,      \* WalletUSDC: balance and balanceFrozen
  chain,       \* USDC on the accounts
  arriving,    \* deposits the monitor has not credited
  revenue,     \* WalletFeeConfig.revenueAccruedUsdc
  harvests,    \* per admin: what remains, the sources left, what was just sent
  paying,      \* status of the payouts
  waitings,    \* retryPendingFundingTransactions: the list it read
  cachedHot,   \* getStellarUSDCBalance of the hot account, for 30 seconds
  moves, conversions, fundings

treasuryVars == <<mirror, chain, arriving, revenue, harvests, paying, waitings, cachedHot,
                  moves, conversions, fundings>>
userVars == <<mirror, arriving, revenue, moves, conversions>>
payoutVars == <<paying, waitings, cachedHot, fundings>>

Hot == "hot"
NotCached == {}
Reserve == 1    \* USDC kept for the fees of the network
Fee == 1
INFLIGHT_STATUSES == {"payout_pending_usdc_send", "payout_sent"}

Idle == [phase |-> "idle", remaining |-> 0, sources |-> [u \in Holder |-> 0], sent |-> 0]

TreasuryInit ==
  /\ mirror = [u \in Holder |-> [balance |-> IF u = Rich THEN 2 ELSE 0, frozen |-> 0]]
  /\ chain = [a \in Holder \cup {Hot} |-> IF a = Hot THEN InitialHot
                                          ELSE IF a = Rich THEN 2 ELSE 0]
  /\ arriving = [u \in Holder |-> 0] /\ revenue = 0
  /\ harvests = [a \in Harvester |-> Idle]
  /\ paying = [p \in Payout |-> "payin_pending"]
  /\ waitings = <<>> /\ cachedHot = NotCached
  /\ moves = 0 /\ conversions = 0 /\ fundings = 0

(* The sum of whole amounts of USDC, one by one.                           *)
Tally(f) == Cardinality(UNION {{x} \X (1 .. f[x]) : x \in DOMAIN f})

Owed == [u \in Holder |-> mirror[u].balance + mirror[u].frozen]
Liabilities == Tally(Owed)
Reserves == Tally(chain)

(* What getStellarUSDCBalance returns, and the cache it leaves.            *)
hotBalance == IF cachedHot = NotCached THEN chain[Hot] ELSE CHOOSE n \in cachedHot : TRUE
Inflight == Tally([p \in {q \in Payout : paying[q] \in INFLIGHT_STATUSES} |-> Amount[p]])
(* A payout whose USDC already left the account counts as in flight too.   *)
getUSDCAvailableNow == IF hotBalance > Inflight THEN hotBalance - Inflight ELSE 0

-----------------------------------------------------------------------------
(* Users.                                                                  *)
Moving == moves < MaxMoves /\ moves' = moves + 1

depositUSDC(u) ==
  /\ Moving
  /\ chain' = [chain EXCEPT ![u] = @ + 1]
  /\ arriving' = [arriving EXCEPT ![u] = @ + 1]
  /\ UNCHANGED <<mirror, revenue, harvests, payoutVars, conversions>>

creditDeposit(u) ==
  /\ arriving[u] > 0
  /\ arriving' = [arriving EXCEPT ![u] = @ - 1]
  /\ mirror' = [mirror EXCEPT ![u].balance = @ + 1]
  /\ UNCHANGED <<chain, revenue, harvests, payoutVars, moves, conversions>>

(* Only the mirror moves: the fee stays where the sender's USDC is.        *)
executeUsdcP2pTransfer(u, v) ==
  /\ Moving
  /\ u # v /\ mirror[u].balance >= 1 + Fee
  /\ mirror' = [mirror EXCEPT ![u].balance = @ - 1 - Fee, ![v].balance = @ + 1]
  /\ revenue' = revenue + Fee
  /\ UNCHANGED <<chain, arriving, harvests, payoutVars, conversions>>

adminFreezeWallet(u) ==
  /\ Moving
  /\ mirror[u].balance > 0
  /\ mirror' = [mirror EXCEPT ![u] = [balance |-> 0, frozen |-> @.frozen + @.balance]]
  /\ UNCHANGED <<chain, arriving, revenue, harvests, payoutVars, conversions>>

(* The USDC is credited if the treasury has it: nothing sets it aside.     *)
adminConfirmBOBtoUSDC(u) ==
  /\ conversions < MaxConversions /\ conversions' = conversions + 1
  /\ getUSDCAvailableNow >= 1
  /\ cachedHot' = {hotBalance}
  /\ mirror' = [mirror EXCEPT ![u].balance = @ + 1]
  /\ UNCHANGED <<chain, arriving, revenue, harvests, paying, waitings, moves, fundings>>

-----------------------------------------------------------------------------
(* harvestRevenueToTreasury.                                               *)

(* The surplus is over the balance: what is frozen counts as surplus.      *)
Surplus(u) == IF chain[u] > mirror[u].balance THEN chain[u] - mirror[u].balance ELSE 0

harvestReads(a) ==
  /\ harvests[a].phase = "idle" /\ revenue > 0
  /\ \E u \in Holder : Surplus(u) > 0
  /\ harvests' = [harvests EXCEPT ![a] =
       [phase |-> "sending", remaining |-> revenue, sources |-> [u \in Holder |-> Surplus(u)],
        sent |-> 0]]
  /\ UNCHANGED <<userVars, chain, payoutVars>>

Richest(a, u) ==
  /\ harvests[a].sources[u] > 0
  /\ \A v \in Holder : harvests[a].sources[v] <= harvests[a].sources[u]

(* Mutant: the whole surplus is taken, not only what remains of the fees.  *)
wholeSurplus(a, u) == harvests[a].sources[u]
harvestedAmount(a, u) ==
  IF harvests[a].remaining < harvests[a].sources[u]
  THEN harvests[a].remaining ELSE harvests[a].sources[u]

(* sendCustodialUSDC: the network refuses what the account does not have.  *)
harvestSends(a, u) ==
  /\ harvests[a].phase = "sending" /\ harvests[a].remaining > 0 /\ Richest(a, u)
  /\ LET amount == harvestedAmount(a, u) IN
     \/ /\ chain[u] >= amount
        /\ chain' = [chain EXCEPT ![u] = @ - amount, ![Hot] = @ + amount]
        /\ harvests' = [harvests EXCEPT ![a] = [@ EXCEPT !.phase = "sent", !.sources[u] = 0,
                                                          !.sent = amount]]
     \/ /\ chain[u] < amount
        /\ harvests' = [harvests EXCEPT ![a].sources[u] = 0]
        /\ UNCHANGED chain
  /\ UNCHANGED <<userVars, payoutVars>>

(* The FundingRecord, then the counter of revenue; when the record fails   *)
(* the loop goes on to the next source with as much remaining as before.   *)
harvestRecords(a) ==
  /\ harvests[a].phase = "sent"
  /\ LET amount == harvests[a].sent IN
     \/ /\ revenue' = IF revenue > amount THEN revenue - amount ELSE 0
        /\ harvests' = [harvests EXCEPT ![a].phase = "sending", ![a].sent = 0,
                                        ![a].remaining = IF @ > amount THEN @ - amount ELSE 0]
     \/ /\ RecordFails
        /\ harvests' = [harvests EXCEPT ![a].phase = "sending", ![a].sent = 0]
        /\ UNCHANGED revenue
  /\ UNCHANGED <<mirror, arriving, moves, conversions, chain, payoutVars>>

harvestEnds(a) ==
  /\ harvests[a].phase = "sending"
  /\ harvests[a].remaining = 0 \/ \A u \in Holder : harvests[a].sources[u] = 0
  /\ harvests' = [harvests EXCEPT ![a] = Idle]
  /\ UNCHANGED <<userVars, chain, payoutVars>>

-----------------------------------------------------------------------------
(* Payouts.                                                                *)
payinConfirmed(p) ==
  /\ paying[p] = "payin_pending"
  /\ paying' = [paying EXCEPT ![p] = "payin_confirmed"]
  /\ UNCHANGED <<userVars, harvests, chain, waitings, cachedHot, fundings>>

(* tryOwlPayV2: the liquidity, then the order at the provider.             *)
dispatchPayout(p) ==
  /\ paying[p] = "payin_confirmed"
  /\ cachedHot' = {hotBalance}
  /\ paying' = [paying EXCEPT ![p] =
       IF getUSDCAvailableNow < Amount[p] + Reserve
       THEN "pending_funding" ELSE "payout_pending_usdc_send"]
  /\ UNCHANGED <<userVars, harvests, chain, waitings, fundings>>

keepsReserve(p) == hotBalance >= Amount[p] + Reserve

(* sendUSDCToHarbor, which clears the cache; without funds the payout      *)
(* fails for good.                                                         *)
sendUSDCToHarbor(p) ==
  /\ paying[p] = "payout_pending_usdc_send"
  /\ \/ /\ keepsReserve(p) /\ chain[Hot] >= Amount[p]
        /\ chain' = [chain EXCEPT ![Hot] = @ - Amount[p]]
        /\ paying' = [paying EXCEPT ![p] = "payout_sent"]
        /\ cachedHot' = NotCached
     \/ /\ ~keepsReserve(p) \/ chain[Hot] < Amount[p]
        /\ paying' = [paying EXCEPT ![p] = "failed"]
        /\ cachedHot' = {hotBalance}
        /\ UNCHANGED chain
  /\ UNCHANGED <<userVars, harvests, waitings, fundings>>

payoutCompleted(p) ==
  /\ paying[p] = "payout_sent"
  /\ paying' = [paying EXCEPT ![p] = "completed"]
  /\ UNCHANGED <<userVars, harvests, chain, waitings, cachedHot, fundings>>

cacheExpires ==
  /\ cachedHot # NotCached /\ cachedHot' = NotCached
  /\ UNCHANGED <<userVars, harvests, chain, paying, waitings, fundings>>

-----------------------------------------------------------------------------
(* The funding.                                                            *)
Waiting == {p \in Payout : paying[p] = "pending_funding"}

(* getUSDCForecast: what the panel tells the admin to send.                *)
pendingNeeds == Tally([p \in Waiting |-> Amount[p] + Reserve])
fundingNeeded == IF pendingNeeds > getUSDCAvailableNow
                 THEN pendingNeeds - getUSDCAvailableNow ELSE 0

(* The admin sends that; createFunding, or the job that reads the chain,   *)
(* records it and starts the retry of what waits.                          *)
createFunding ==
  /\ fundings < MaxFundings /\ fundings' = fundings + 1
  /\ waitings = <<>> /\ fundingNeeded > 0
  /\ chain' = [chain EXCEPT ![Hot] = @ + fundingNeeded]
  /\ cachedHot' \in {{hotBalance}, NotCached}
  /\ waitings' \in SetToSeqs(Waiting)
  /\ UNCHANGED <<userVars, harvests, paying>>

(* One after the other: armed again and dispatched, until one still waits. *)
retryPendingFunding ==
  /\ waitings # <<>>
  /\ LET p == Head(waitings) IN
     \/ /\ paying[p] = "pending_funding" /\ cachedHot' = {hotBalance}
        /\ \/ /\ getUSDCAvailableNow >= Amount[p] + Reserve
              /\ paying' = [paying EXCEPT ![p] = "payout_pending_usdc_send"]
              /\ UNCHANGED waitings
           \/ /\ getUSDCAvailableNow < Amount[p] + Reserve
              /\ waitings' = <<>> /\ UNCHANGED paying
     \/ /\ paying[p] \notin {"pending_funding", "payout_pending_usdc_send"}
        /\ waitings' = Tail(waitings)
        /\ UNCHANGED <<paying, cachedHot>>
  /\ UNCHANGED <<userVars, harvests, chain, fundings>>

TreasuryNext ==
  \/ \E u \in Holder : depositUSDC(u) \/ creditDeposit(u) \/ adminFreezeWallet(u)
                         \/ adminConfirmBOBtoUSDC(u)
  \/ \E u, v \in Holder : executeUsdcP2pTransfer(u, v)
  \/ \E a \in Harvester : harvestReads(a) \/ harvestRecords(a) \/ harvestEnds(a)
  \/ \E a \in Harvester, u \in Holder : harvestSends(a, u)
  \/ \E p \in Payout : payinConfirmed(p) \/ dispatchPayout(p) \/ sendUSDCToHarbor(p)
                         \/ payoutCompleted(p)
  \/ createFunding \/ retryPendingFunding \/ cacheExpires

TreasurySpec == TreasuryInit /\ [][TreasuryNext]_treasuryVars

(* What started goes on, the provider answers, and the admin follows the   *)
(* forecast.                                                               *)
TreasuryLive ==
  /\ TreasurySpec
  /\ WF_treasuryVars(createFunding) /\ WF_treasuryVars(retryPendingFunding)
  /\ WF_treasuryVars(cacheExpires)
  /\ \A p \in Payout : WF_treasuryVars(dispatchPayout(p) \/ sendUSDCToHarbor(p)
                                       \/ payoutCompleted(p))

-----------------------------------------------------------------------------
TreasuryTypeOK ==
  /\ mirror \in [Holder -> [balance : Nat, frozen : Nat]]
  /\ chain \in [Holder \cup {Hot} -> Nat] /\ arriving \in [Holder -> Nat] /\ revenue \in Nat
  /\ \A a \in Harvester : harvests[a].phase \in {"idle", "sending", "sent"}
  /\ paying \in [Payout -> {"payin_pending", "payin_confirmed", "pending_funding", "failed",
                            "completed"} \cup INFLIGHT_STATUSES]
  /\ waitings \in Seq(Payout) /\ \A n \in cachedHot : n \in Nat

(* The reserves on the chain cover what the users own: "no acreditar más   *)
(* de lo que la tesorería puede respaldar".                                *)
LiabilitiesBacked == Liabilities <= Reserves

(* A payout that waits for funds is dispatched, when the admin sends what  *)
(* the forecast says releases it.                                          *)
FundedAreReleased ==
  \A p \in Payout : paying[p] = "pending_funding" ~> paying[p] # "pending_funding"
=============================================================================
