------------------------------- MODULE Rates -------------------------------
(***************************************************************************)
(* The exchange rates.  A job asks the P2P market every half hour and      *)
(* publishes the pairs, the rate of conversions with its spread and the    *)
(* rate the corridor from Chile quotes; admins write the same documents by *)
(* hand.  A rate that jumps too far from the last one is not published.    *)
(***************************************************************************)
EXTENDS Naturals, FiniteSets

CONSTANTS
  BobMarkets, ClpMarkets,   \* BOB per USDT, in cents, and CLP per USDT, in cents
  Spreads,                  \* convertBuySpreadPct
  Overrides,                \* rates an admin types
  EditsInRun,               \* admins may write while the job runs
  MaxMarkets, MaxEdits      \* bounds on market moves and on writes of admins

VARIABLES
  markets,      \* what the P2P market says, per currency
  fetched,      \* the cache of the process, per currency: one rate or none
  spread,       \* WalletFeeConfig.convertBuySpreadPct
  rates,        \* the ExchangeRate documents: rate and source
  spaConfig,    \* SpAConfig: clpPerBob and who wrote it last
  refresh,      \* where the job is and the rates it fetched
  marketMoves, edits

rateVars == <<markets, fetched, spread, rates, spaConfig, refresh, marketMoves, edits>>
rateBounds == <<marketMoves, edits>>

Pair == {"BOB-USDT", "BOB-USDC", "CLP-USDT", "CLP-BOB"}
Missing == [rate |-> 0, source |-> "none"]
SALTO_MAXIMO_PCT == 25

AtRefresh(phase) == refresh.phase = phase
derivedRate(bob, pct) == (bob * (100 + pct)) \div 100
clpPerBob(clp, bob) == clp \div bob

Distance(a, b) == IF a > b THEN a - b ELSE b - a
Jumps(previous, rate) == previous > 0 /\ Distance(previous, rate) * 100 > SALTO_MAXIMO_PCT * previous

RatesInit ==
  /\ \E bob \in BobMarkets, clp \in ClpMarkets :
       /\ markets = [BOB |-> bob, CLP |-> clp]
       /\ spaConfig = [clpPerBob |-> clpPerBob(clp, bob), by |-> "job"]
  /\ spread \in Spreads
  /\ fetched = [c \in {"BOB", "CLP"} |-> {}]
  /\ rates = [pair \in Pair |-> Missing]
  /\ refresh = [phase |-> "idle", bob |-> 0, clp |-> 0, manual |-> FALSE]
  /\ marketMoves = 0 /\ edits = 0

marketChanges ==
  /\ marketMoves < MaxMarkets /\ marketMoves' = marketMoves + 1
  /\ \E bob \in BobMarkets, clp \in ClpMarkets : markets' = [BOB |-> bob, CLP |-> clp]
  /\ UNCHANGED <<fetched, spread, rates, spaConfig, refresh, edits>>

cacheEnds(c) ==
  /\ fetched[c] # {} /\ fetched' = [fetched EXCEPT ![c] = {}]
  /\ UNCHANGED <<markets, spread, rates, spaConfig, refresh, rateBounds>>

(* fetchFiatUSDTRate: the cache while it is fresh, else the market.        *)
Fetches(c) == IF fetched[c] = {} THEN markets[c] ELSE CHOOSE r \in fetched[c] : TRUE

-----------------------------------------------------------------------------
(* Admins.                                                                 *)
Editing ==
  /\ edits < MaxEdits /\ edits' = edits + 1
  /\ EditsInRun \/ AtRefresh("idle")

updateWalletFeeConfig ==
  /\ Editing
  /\ spread' \in Spreads
  /\ UNCHANGED <<markets, fetched, rates, spaConfig, refresh, marketMoves>>

upsertExchangeRate(rate) ==
  /\ Editing
  /\ rates' = [rates EXCEPT !["BOB-USDC"] = [rate |-> rate, source |-> "manual"]]
  /\ UNCHANGED <<markets, fetched, spread, spaConfig, refresh, marketMoves>>

deleteBOBUSDCOverride ==
  /\ Editing
  /\ rates["BOB-USDC"].source = "manual"
  /\ rates' = [rates EXCEPT !["BOB-USDC"] = Missing]
  /\ UNCHANGED <<markets, fetched, spread, spaConfig, refresh, marketMoves>>

(* The three pairs and the rate of the corridor, from what the admin       *)
(* bought at; nothing says that the rate is the admin's.                   *)
updateCLPBOBRate(clp, bob) ==
  /\ Editing
  /\ rates' = [rates EXCEPT !["CLP-USDT"] = [rate |-> clp, source |-> "binance_p2p"],
                            !["BOB-USDT"] = [rate |-> bob, source |-> "binance_p2p"],
                            !["CLP-BOB"] = [rate |-> clpPerBob(clp, bob), source |-> "calculated"]]
  /\ spaConfig' = [clpPerBob |-> clpPerBob(clp, bob), by |-> "admin"]
  /\ UNCHANGED <<markets, fetched, spread, refresh, marketMoves>>

updateSpAConfig(clp, bob) ==
  /\ Editing
  /\ spaConfig' = [clpPerBob |-> clpPerBob(clp, bob), by |-> "admin"]
  /\ UNCHANGED <<markets, fetched, spread, rates, refresh, marketMoves>>

-----------------------------------------------------------------------------
(* refreshExchangeRates.                                                   *)

(* Mutant: the jump is measured in cents, not in percent.                  *)
jumpsInCents(pair, rate) ==
  rates[pair].rate > 0 /\ Distance(rates[pair].rate, rate) > SALTO_MAXIMO_PCT
publicarTasa(pair, rate) == Jumps(rates[pair].rate, rate)

Published(pair, rate, source) ==
  IF publicarTasa(pair, rate) THEN rates[pair] ELSE [rate |-> rate, source |-> source]

(* BOB-USDT is published and BOB-USDC is read.                             *)
refreshStarts ==
  /\ AtRefresh("idle")
  /\ LET bob == Fetches("BOB") IN
     /\ fetched' = [fetched EXCEPT !["BOB"] = {bob}]
     /\ rates' = [rates EXCEPT !["BOB-USDT"] = Published("BOB-USDT", bob, "binance_p2p_auto")]
     /\ refresh' = [phase |-> "usdc", bob |-> bob, clp |-> 0,
                    manual |-> rates["BOB-USDC"].source = "manual"]
  /\ UNCHANGED <<markets, spread, spaConfig, rateBounds>>

(* BOB-USDC, unless what was read is an override.                          *)
refreshUSDC ==
  /\ AtRefresh("usdc")
  /\ IF refresh.manual THEN UNCHANGED rates
     ELSE rates' = [rates EXCEPT !["BOB-USDC"] =
            Published("BOB-USDC", derivedRate(refresh.bob, spread), "binance_p2p_auto")]
  /\ refresh' = [refresh EXCEPT !.phase = "clp"]
  /\ UNCHANGED <<markets, fetched, spread, spaConfig, rateBounds>>

(* The side of Chile; when it does not answer the run is over.             *)
refreshCLP ==
  /\ AtRefresh("clp")
  /\ \/ LET clp == Fetches("CLP") IN
        /\ fetched' = [fetched EXCEPT !["CLP"] = {clp}]
        /\ rates' = [rates EXCEPT
             !["CLP-USDT"] = Published("CLP-USDT", clp, "binance_p2p_auto"),
             !["CLP-BOB"] = Published("CLP-BOB", clpPerBob(clp, refresh.bob), "calculated")]
        /\ refresh' = [refresh EXCEPT !.phase = "spa", !.clp = clp]
     \/ /\ refresh' = [refresh EXCEPT !.phase = "idle"]
        /\ UNCHANGED <<fetched, rates>>
  /\ UNCHANGED <<markets, spread, spaConfig, rateBounds>>

(* The rate the corridor quotes: rateSource is 'manual' in no handler, and *)
(* what publicarTasa answered is not looked at.                            *)
refreshSpAConfig ==
  /\ AtRefresh("spa")
  /\ spaConfig' = [clpPerBob |-> clpPerBob(refresh.clp, refresh.bob), by |-> "job"]
  /\ refresh' = [refresh EXCEPT !.phase = "idle"]
  /\ UNCHANGED <<markets, fetched, spread, rates, rateBounds>>

RatesNext ==
  \/ marketChanges \/ updateWalletFeeConfig \/ deleteBOBUSDCOverride
  \/ refreshStarts \/ refreshUSDC \/ refreshCLP \/ refreshSpAConfig
  \/ \E c \in {"BOB", "CLP"} : cacheEnds(c)
  \/ \E rate \in Overrides : upsertExchangeRate(rate)
  \/ \E clp \in ClpMarkets, bob \in BobMarkets :
       updateCLPBOBRate(clp, bob) \/ updateSpAConfig(clp, bob)

(* The job runs every half hour, its caches end, and the market of Chile   *)
(* answers again and again.                                                *)
RatesFairness ==
  /\ WF_rateVars(refreshStarts) /\ WF_rateVars(refreshUSDC) /\ WF_rateVars(refreshSpAConfig)
  /\ WF_rateVars(refreshCLP) /\ SF_rateVars(refreshCLP /\ refresh'.phase = "spa")
  /\ \A c \in {"BOB", "CLP"} : SF_rateVars(cacheEnds(c))

RatesSpec == RatesInit /\ [][RatesNext]_rateVars /\ RatesFairness

-----------------------------------------------------------------------------
RatesTypeOK ==
  /\ rates \in [Pair -> [rate : Nat, source : {"none", "manual", "binance_p2p",
                                               "binance_p2p_auto", "calculated"}]]
  /\ spaConfig.clpPerBob \in Nat /\ spread \in Spreads
  /\ refresh.phase \in {"idle", "usdc", "clp", "spa"}
  /\ \A c \in {"BOB", "CLP"} : Cardinality(fetched[c]) <= 1

(* The published rates come to what the market says, whatever admins typed *)
(* before, except an override that stands.                                 *)
PublishedCatchesUp ==
  <>[](/\ rates["BOB-USDC"].source # "manual" =>
            rates["BOB-USDC"].rate = derivedRate(markets["BOB"], spread)
       /\ rates["CLP-BOB"].rate = clpPerBob(markets["CLP"], markets["BOB"]))

(* "Un salto mayor no se publica: preferimos quedarnos con la tasa         *)
(* anterior": the job does not move the rate a corridor quotes further     *)
(* than that.                                                              *)
ImplausibleIsNotQuoted ==
  [][spaConfig'.by = "job" /\ spaConfig' # spaConfig
       => ~Jumps(spaConfig.clpPerBob, spaConfig'.clpPerBob)]_rateVars

(* "Se respeta un override manual del admin".                              *)
ManualRateStands == [][spaConfig.by = "admin" => spaConfig'.by = "admin"]_rateVars
OverrideStands ==
  [][rates["BOB-USDC"].source = "manual"
       => rates'["BOB-USDC"].source \in {"manual", "none"}]_rateVars
=============================================================================
