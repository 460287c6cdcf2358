--------------------------- MODULE StellarInflows ---------------------------
(***************************************************************************)
(* USDC arriving on Stellar: at a user's custodial address and at the      *)
(* treasury's.                                                             *)
(*                                                                         *)
(* Two jobs poll Horizon with cursors of their own.  The monitor credits   *)
(* users' wallets (at the treasury, the payments with a user's memo); the  *)
(* reconciliation records the treasury's other payments as funding and     *)
(* matches them with the intent an admin announced.                        *)
(***************************************************************************)
EXTENDS Integers, Sequences, FiniteSets, WellFoundedInduction, FiniteSetTheorems, TLAPS

CONSTANTS
  Intent,        \* the funding intents an admin creates
  MaxPayments,   \* bound on the payments on the chain
  MaxStops,      \* bound on restarts and on errors of the database
  CreditFails    \* the transaction that credits a wallet may fail

Address == {"custody", "treasury"}
Memo == Intent \cup {"none", "ALYTO"}

VARIABLES
  chain,     \* the payments, in the order of their paging tokens
  usdc,      \* the user's WalletUSDC: "none", "active" or "frozen"
  credits,   \* the usdc_deposit movements: per payment, how many
  cursors,   \* the monitor's cursor per address
  monitor,   \* the payment the monitor is at, and the next step
  anchor,    \* the reconciliation's cursor, -1 before its first run
  funding,   \* the payment the reconciliation is at, the next step, the intent
  records,   \* the FundingRecords: the payment and the intent
  intents,   \* the FundingIntents
  cancels,   \* the intents an admin's cancellation has read as open
  stops      \* restarts and errors so far

inflowVars == <<chain, usdc, credits, cursors, monitor, anchor, funding, records, intents,
                cancels, stops>>
monitorVars == <<usdc, credits, cursors, monitor>>
fundingVars == <<anchor, funding, records, intents, cancels>>

NoJob == [step |-> "idle", at |-> 0, intent |-> "none"]

InflowInit ==
  /\ chain = <<>>
  /\ usdc = "none"
  /\ credits = [i \in 1 .. MaxPayments |-> 0]
  /\ cursors = [a \in Address |-> 0]
  /\ monitor = NoJob
  /\ anchor = -1
  /\ funding = NoJob
  /\ records = {}
  /\ intents = [n \in Intent |-> "none"]
  /\ cancels = {}
  /\ stops = 0

-----------------------------------------------------------------------------
(* The chain and the people.                                               *)

payUSDC(a, memo) ==
  /\ Len(chain) < MaxPayments
  /\ memo \in Intent => intents[memo] # "none"
  /\ chain' = Append(chain, [to |-> a, memo |-> memo])
  /\ UNCHANGED <<monitorVars, fundingVars, stops>>

(* Compliance freezes and unfreezes the wallet.                            *)
freezeUSDC ==
  /\ usdc # "none"
  /\ usdc' = IF usdc = "active" THEN "frozen" ELSE "active"
  /\ UNCHANGED <<chain, credits, cursors, monitor, fundingVars, stops>>

createFundingIntent(n) ==
  /\ intents[n] = "none"
  /\ intents' = [intents EXCEPT ![n] = "open"]
  /\ UNCHANGED <<chain, monitorVars, anchor, funding, records, cancels, stops>>

(* The cancellation reads the intent, then saves what it changed.          *)
cancelReads(n) ==
  /\ intents[n] = "open" /\ n \notin cancels
  /\ cancels' = cancels \cup {n}
  /\ UNCHANGED <<chain, monitorVars, anchor, funding, records, intents, stops>>
cancelFundingIntent(n) ==
  /\ n \in cancels
  /\ cancels' = cancels \ {n}
  /\ intents' = [intents EXCEPT ![n] = "cancelled"]
  /\ UNCHANGED <<chain, monitorVars, anchor, funding, records, stops>>

-----------------------------------------------------------------------------
(* The monitor.  Payments do not change: a batch is read one by one.       *)

After(cursor, a) == {i \in 1 .. Len(chain) : i > cursor /\ chain[i].to = a}
First(S) == CHOOSE i \in S : \A j \in S : i <= j

MonitorAt(i, step) ==
  monitor' = IF step = "idle" THEN NoJob ELSE [NoJob EXCEPT !.step = step, !.at = i]

(* Mutant: the cursor is stored before the payment is processed.           *)
pollAdvancing(a) ==
  /\ monitor = NoJob
  /\ After(cursors[a], a) # {}
  /\ MonitorAt(First(After(cursors[a], a)), "look")
  /\ cursors' = [cursors EXCEPT ![a] = First(After(cursors[a], a))]
  /\ UNCHANGED <<chain, usdc, credits, fundingVars, stops>>

_pollAddress(a) ==
  /\ monitor = NoJob
  /\ After(cursors[a], a) # {}
  /\ MonitorAt(First(After(cursors[a], a)), "look")
  /\ UNCHANGED <<chain, usdc, credits, cursors, fundingVars, stops>>

(* Mutant: no look for an earlier credit of this operation.                *)
processUnchecked ==
  LET i == monitor.at
      legacy == chain[i].to = "treasury"
  IN /\ monitor.step = "look"
     /\ \/ /\ usdc = "active"
           /\ legacy => chain[i].memo = "ALYTO"
           /\ MonitorAt(i, "credit")
           /\ UNCHANGED usdc
        \/ /\ usdc = "none" /\ ~legacy
           /\ usdc' = "active"
           /\ MonitorAt(i, "credit")
        \/ /\ \/ usdc = "frozen"
              \/ legacy /\ (usdc = "none" \/ chain[i].memo # "ALYTO")
           /\ MonitorAt(i, "advance")
           /\ UNCHANGED usdc
     /\ UNCHANGED <<chain, credits, cursors, fundingVars, stops>>

(* Credited before, a wallet that is not active, or no memo of a user at   *)
(* the treasury: nothing.  The first deposit opens the wallet.             *)
_processPayment ==
  LET i == monitor.at
      legacy == chain[i].to = "treasury"
  IN /\ monitor.step = "look"
     /\ \/ /\ usdc = "active" /\ credits[i] = 0
           /\ legacy => chain[i].memo = "ALYTO"
           /\ MonitorAt(i, "credit")
           /\ UNCHANGED usdc
        \/ /\ usdc = "none" /\ ~legacy
           /\ usdc' = "active"
           /\ MonitorAt(i, "credit")
        \/ /\ \/ credits[i] > 0 \/ usdc = "frozen"
              \/ legacy /\ (usdc = "none" \/ chain[i].memo # "ALYTO")
           /\ MonitorAt(i, "advance")
           /\ UNCHANGED usdc
     /\ UNCHANGED <<chain, credits, cursors, fundingVars, stops>>

(* The wallet's balance and the movement, in one transaction; it fails if  *)
(* the wallet has been frozen.                                             *)
creditDeposit ==
  LET i == monitor.at
  IN /\ monitor.step = "credit"
     /\ \/ /\ usdc = "active"
           /\ credits' = [credits EXCEPT ![i] = @ + 1]
           /\ MonitorAt(i, IF chain[i].to = "custody" THEN "sep24" ELSE "advance")
        \/ /\ usdc = "frozen" \/ CreditFails
           /\ MonitorAt(i, "advance")
           /\ UNCHANGED credits
     /\ UNCHANGED <<chain, usdc, cursors, fundingVars, stops>>

(* The oldest pending SEP-24 deposit of the user is completed (Anchor).    *)
reconcileSep24 ==
  /\ monitor.step = "sep24"
  /\ MonitorAt(monitor.at, "advance")
  /\ UNCHANGED <<chain, usdc, credits, cursors, fundingVars, stops>>

(* After a success and after an error alike.                               *)
advanceCursor ==
  /\ monitor.step = "advance"
  /\ cursors' = [cursors EXCEPT ![chain[monitor.at].to] = monitor.at]
  /\ MonitorAt(monitor.at, "idle")
  /\ UNCHANGED <<chain, usdc, credits, fundingVars, stops>>

-----------------------------------------------------------------------------
(* The reconciliation of the treasury.                                     *)

FundingAt(i, step, n) ==
  funding' = IF step = "idle" THEN NoJob ELSE [step |-> step, at |-> i, intent |-> n]

(* The first run starts at the payments there are.                         *)
anchorCursor ==
  /\ anchor = -1
  /\ anchor' = Len(chain)
  /\ UNCHANGED <<chain, monitorVars, funding, records, intents, cancels, stops>>

reconcileTreasuryFunding ==
  /\ anchor >= 0 /\ funding = NoJob
  /\ After(anchor, "treasury") # {}
  /\ FundingAt(First(After(anchor, "treasury")), "look", "none")
  /\ UNCHANGED <<chain, monitorVars, anchor, records, intents, cancels, stops>>

Recorded(i) == \E r \in records : r.op = i

_processFundingInflow ==
  LET i == funding.at
      memo == chain[i].memo
      open == memo \in Intent /\ intents[memo] = "open"
  IN /\ funding.step = "look"
     /\ IF Recorded(i) \/ memo = "ALYTO" THEN FundingAt(i, "advance", "none")
        ELSE FundingAt(i, "record", IF open THEN memo ELSE "none")
     /\ UNCHANGED <<chain, monitorVars, anchor, records, intents, cancels, stops>>

createFundingRecord ==
  /\ funding.step = "record"
  /\ records' = records \cup {[op |-> funding.at, intent |-> funding.intent]}
  /\ FundingAt(funding.at, IF funding.intent = "none" THEN "advance" ELSE "match",
               funding.intent)
  /\ UNCHANGED <<chain, monitorVars, anchor, intents, cancels, stops>>

(* The intent is saved as it was read, whatever became of it since.        *)
matchIntent ==
  /\ funding.step = "match"
  /\ intents' = [intents EXCEPT ![funding.intent] = "matched"]
  /\ FundingAt(funding.at, "advance", "none")
  /\ UNCHANGED <<chain, monitorVars, anchor, records, cancels, stops>>

advanceAnchor ==
  /\ funding.step = "advance"
  /\ anchor' = funding.at
  /\ FundingAt(funding.at, "idle", "none")
  /\ UNCHANGED <<chain, monitorVars, records, intents, cancels, stops>>

(* Mutant: the cursor passes a payment whose record failed.                *)
fundingSkips ==
  /\ stops < MaxStops
  /\ funding.step \in {"record", "match"}
  /\ stops' = stops + 1
  /\ FundingAt(funding.at, "advance", "none")
  /\ UNCHANGED <<chain, monitorVars, anchor, records, intents, cancels>>

(* A write fails: the batch ends and the cursor stays.                     *)
fundingFails ==
  /\ stops < MaxStops
  /\ funding.step \in {"record", "match"}
  /\ stops' = stops + 1
  /\ FundingAt(funding.at, "idle", "none")
  /\ UNCHANGED <<chain, monitorVars, anchor, records, intents, cancels>>

inflowRestart ==
  /\ stops < MaxStops
  /\ monitor # NoJob \/ funding # NoJob \/ cancels # {}
  /\ stops' = stops + 1
  /\ monitor' = NoJob /\ funding' = NoJob /\ cancels' = {}
  /\ UNCHANGED <<chain, usdc, credits, cursors, anchor, records, intents>>

monitorStep == _processPayment \/ creditDeposit \/ reconcileSep24 \/ advanceCursor
fundingStep ==
  \/ anchorCursor
  \/ reconcileTreasuryFunding
  \/ _processFundingInflow
  \/ createFundingRecord
  \/ matchIntent
  \/ advanceAnchor

InflowNext ==
  \/ \E a \in Address : _pollAddress(a)
  \/ \E memo \in Memo : payUSDC("treasury", memo)
  \/ payUSDC("custody", "none")
  \/ freezeUSDC
  \/ \E n \in Intent : createFundingIntent(n) \/ cancelReads(n) \/ cancelFundingIntent(n)
  \/ monitorStep
  \/ fundingStep
  \/ fundingFails
  \/ inflowRestart

InflowSpec == InflowInit /\ [][InflowNext]_inflowVars

(* Both jobs run every few seconds, over every address.                    *)
InflowFairness ==
  /\ \A a \in Address : SF_inflowVars(_pollAddress(a))
  /\ WF_inflowVars(monitorStep)
  /\ WF_inflowVars(fundingStep)

-----------------------------------------------------------------------------
InflowTypeOK ==
  /\ chain \in Seq([to : Address, memo : Memo]) /\ Len(chain) <= MaxPayments
  /\ usdc \in {"none", "active", "frozen"}
  /\ credits \in [1 .. MaxPayments -> Nat]
  /\ cursors \in [Address -> 0 .. Len(chain)]
  /\ monitor.step \in {"idle", "look", "credit", "sep24", "advance"}
  /\ anchor \in -1 .. Len(chain)
  /\ funding.step \in {"idle", "look", "record", "match", "advance"}
  /\ records \subseteq [op : 1 .. Len(chain), intent : Intent \cup {"none"}]
  /\ intents \in [Intent -> {"none", "open", "matched", "cancelled"}]
  /\ cancels \subseteq Intent

(* A payment is a user's deposit or the treasury's funding, never both,    *)
(* and it is counted once, though either job stops between the credit or   *)
(* the record and its cursor.                                              *)
CountedOnce ==
  \A i \in 1 .. Len(chain) :
    credits[i] + Cardinality({r \in records : r.op = i}) <= 1

(* A deposit at the custodial address is credited, unless the wallet is    *)
(* frozen or the credit fails.                                             *)
DepositCredited ==
  ([](usdc # "frozen")) =>
    \A i \in 1 .. MaxPayments :
      (i <= Len(chain) /\ chain[i].to = "custody") ~> credits[i] > 0

(* Every funding of the treasury after the first run is recorded in the    *)
(* end, also when a write fails: the cursor does not pass it.              *)
InflowRecorded ==
  \A i \in 1 .. MaxPayments :
    (/\ anchor \in 0 .. i - 1 /\ i <= Len(chain)
     /\ chain[i].to = "treasury" /\ chain[i].memo # "ALYTO") ~> Recorded(i)

(* Only an intent that was not reconciled is cancelled, as the comment on  *)
(* cancelFundingIntent has it: refuted by a run of its own.                *)
CancelledIsUnmatched ==
  \A n \in Intent :
    intents[n] = "cancelled" => \A r \in records : r.intent # n

-----------------------------------------------------------------------------
(* The next payment after a cursor is one of them, and none is before it.  *)
LEMMA FirstIsFirst ==
  ASSUME NEW S \in SUBSET Nat, S # {}
  PROVE  First(S) \in S /\ \A j \in S : First(S) <= j
<1>1. PICK x \in S : \A y \in S : ~ (<<y, x>> \in OpToRel(<, Nat))
  BY WFMin, NatLessThanWellFounded
<1>2. \A y \in S : ~ (y < x)
  <2>1. OpToRel(<, Nat) = {ss \in Nat \X Nat : ss[1] < ss[2]}
    BY DEF OpToRel
  <2>2. TAKE y \in S
  <2>3. <<y, x>> \in Nat \X Nat /\ <<y, x>>[1] = y /\ <<y, x>>[2] = x
    OBVIOUS
  <2> QED
    BY <1>1, <2>1, <2>3
<1>3. \A y \in S : x <= y
  BY <1>2
<1> QED
  BY <1>3, Zenon DEF First

Job == [step : {"idle", "look", "credit", "sep24", "advance", "record", "match"},
        at : Nat, intent : Intent \cup {"none"}]
InflowTypes ==
  /\ chain \in Seq([to : Address, memo : Memo]) /\ Len(chain) <= MaxPayments
  /\ credits \in [1 .. MaxPayments -> Nat]
  /\ monitor \in Job /\ funding \in Job
  /\ monitor.step # "idle" => monitor.at \in 1 .. Len(chain)
  /\ funding.step # "idle" => funding.at \in 1 .. Len(chain)
  /\ anchor \in -1 .. Len(chain)

(* Which payments are a user's, and which the treasury's funding.          *)
OfUser(i) == chain[i].to = "custody" \/ chain[i].memo = "ALYTO"
OfTreasury(i) == chain[i].to = "treasury" /\ chain[i].memo # "ALYTO"

(* The monitor credits a user's payment that has no credit; before the     *)
(* wallet is open there is none.                                           *)
CreditsAreUsers ==
  /\ \A i \in 1 .. MaxPayments :
       credits[i] <= 1 /\ (credits[i] > 0 => i <= Len(chain) /\ OfUser(i))
  /\ usdc = "none" => \A i \in 1 .. MaxPayments : credits[i] = 0
  /\ monitor.step = "credit" => credits[monitor.at] = 0 /\ OfUser(monitor.at)

(* The reconciliation records a funding that has no record.                *)
RecordsAreTreasury ==
  /\ \A r \in records : r.op \in 1 .. Len(chain) /\ OfTreasury(r.op)
  /\ \A r, t \in records : r.op = t.op => r = t
  /\ funding.step # "idle" => chain[funding.at].to = "treasury"
  /\ funding.step = "record" => ~Recorded(funding.at) /\ OfTreasury(funding.at)

InflowInv == InflowTypes /\ CreditsAreUsers /\ RecordsAreTreasury

(* What the chain says of the payments there are is not changed by a new   *)
(* one.                                                                    *)
LEMMA ChainGrows ==
  ASSUME MaxPayments \in Nat, InflowTypes, NEW a \in Address, NEW memo \in Memo, payUSDC(a, memo)
  PROVE  /\ Len(chain) \in Nat /\ chain' \in Seq([to : Address, memo : Memo])
         /\ Len(chain') = Len(chain) + 1 /\ Len(chain') <= MaxPayments
         /\ \A i \in 1 .. Len(chain) : chain'[i] = chain[i]
<1>1. PICK d \in [to : Address, memo : Memo] : chain' = Append(chain, d)
  BY DEF payUSDC
<1>2. PICK c \in Seq([to : Address, memo : Memo]) : c = chain
  BY DEF InflowTypes
<1>3. /\ Append(c, d) \in Seq([to : Address, memo : Memo]) /\ Len(c) \in Nat
      /\ Len(Append(c, d)) = Len(c) + 1
      /\ \A i \in 1 .. Len(c) : Append(c, d)[i] = c[i]
  OBVIOUS
<1>4. Len(chain) < MaxPayments
  BY DEF payUSDC
<1> QED
  BY <1>1, <1>2, <1>3, <1>4

LEMMA PayKeeps ==
  ASSUME MaxPayments \in Nat, InflowInv, NEW a \in Address, NEW memo \in Memo, payUSDC(a, memo)
  PROVE  InflowInv'
<1>1. UNCHANGED <<usdc, credits, cursors, monitor, anchor, funding, records, intents, cancels>>
  BY DEF payUSDC, monitorVars, fundingVars
<1>t. InflowTypes /\ CreditsAreUsers /\ RecordsAreTreasury
  BY DEF InflowInv
<1>g. /\ Len(chain) \in Nat /\ chain' \in Seq([to : Address, memo : Memo])
      /\ Len(chain') = Len(chain) + 1 /\ Len(chain') <= MaxPayments
      /\ \A i \in 1 .. Len(chain) : chain'[i] = chain[i]
  BY <1>t, ChainGrows
<1>2. InflowTypes'
  BY SMTT(60), <1>1, <1>t, <1>g DEF InflowTypes
<1>3. CreditsAreUsers'
  BY SMTT(60), <1>1, <1>t, <1>g DEF InflowTypes, CreditsAreUsers, OfUser
<1>4. RecordsAreTreasury'
  BY SMTT(60), <1>1, <1>t, <1>g DEF InflowTypes, RecordsAreTreasury, OfTreasury, Recorded
<1> QED
  BY <1>2, <1>3, <1>4 DEF InflowInv

(* Where the jobs go.                                                      *)
LEMMA MonitorGoes ==
  ASSUME NEW i \in Nat, NEW step \in {"idle", "look", "credit", "sep24", "advance"},
         MonitorAt(i, step)
  PROVE  monitor' \in Job /\ monitor'.step = step /\ (step # "idle" => monitor'.at = i)
BY DEF MonitorAt, NoJob, Job

LEMMA FundingGoes ==
  ASSUME NEW i \in Nat, NEW step \in {"idle", "look", "record", "match", "advance"},
         NEW n \in Intent \cup {"none"}, FundingAt(i, step, n)
  PROVE  funding' \in Job /\ funding'.step = step /\ (step # "idle" => funding'.at = i)
BY DEF FundingAt, NoJob, Job

LEMMA AfterIsNext ==
  ASSUME InflowTypes, NEW cursor \in Int, cursor >= -1, NEW a \in Address, After(cursor, a) # {}
  PROVE  LET i == First(After(cursor, a))
         IN  /\ i \in 1 .. Len(chain) /\ i > cursor /\ chain[i].to = a
             /\ \A j \in 1 .. Len(chain) : cursor < j /\ j < i => chain[j].to # a
<1>1. After(cursor, a) \in SUBSET Nat
  BY DEF After, InflowTypes
<1>2. PICK i : i = First(After(cursor, a))
  OBVIOUS
<1>3. i \in After(cursor, a) /\ \A j \in After(cursor, a) : i <= j
  BY <1>1, <1>2, FirstIsFirst
<1>4. /\ i \in 1 .. Len(chain) /\ i > cursor /\ chain[i].to = a
      /\ \A j \in 1 .. Len(chain) : cursor < j /\ j < i => chain[j].to # a
  BY <1>3 DEF After, InflowTypes
<1> QED
  BY <1>2, <1>4

(* The monitor's steps keep the invariant.                                 *)
LEMMA MonitorKeeps ==
  ASSUME MaxPayments \in Nat, InflowInv, cursors \in [Address -> Nat],
         monitorStep \/ \E a \in Address : _pollAddress(a)
  PROVE  InflowInv'
<1>t. /\ InflowTypes /\ CreditsAreUsers /\ RecordsAreTreasury
  BY DEF InflowInv
<1>u. UNCHANGED <<chain, anchor, funding, records, intents, cancels>>
  BY DEF monitorStep, _pollAddress, _processPayment, creditDeposit, reconcileSep24,
         advanceCursor, fundingVars
<1>r. RecordsAreTreasury'
  BY <1>t, <1>u DEF RecordsAreTreasury, OfTreasury, Recorded
<1>1. ASSUME NEW a \in Address, _pollAddress(a)
      PROVE  InflowInv'
  <2>1. PICK i \in 1 .. Len(chain) : MonitorAt(i, "look")
    BY SMTT(60), <1>1, <1>t, AfterIsNext DEF _pollAddress, InflowTypes
  <2>2. i \in Nat
    BY <1>t, <2>1 DEF InflowTypes
  <2>3. monitor' \in Job /\ monitor'.step = "look" /\ monitor'.at = i
    BY <2>1, <2>2, MonitorGoes
  <2> QED
    BY <1>1, <1>t, <1>u, <1>r, <2>1, <2>3
    DEF _pollAddress, InflowInv, InflowTypes, CreditsAreUsers, OfUser
<1>m. ASSUME monitor.step # "idle"
      PROVE  monitor.at \in 1 .. Len(chain) /\ monitor.at \in Nat /\ monitor.at \in 1 .. MaxPayments
  BY SMTT(60), <1>t, <1>m DEF InflowTypes
<1>2. CASE _processPayment
  <2>1. PICK i : i = monitor.at
    OBVIOUS
  <2>2. i \in 1 .. Len(chain) /\ i \in Nat /\ i \in 1 .. MaxPayments
    BY <1>2, <1>m, <2>1 DEF _processPayment
  <2>c. chain[i].to = "custody" \/ chain[i].to = "treasury"
    <3>1. PICK R : R = [to : Address, memo : Memo]
      OBVIOUS
    <3>2. chain \in Seq(R)
      BY <1>t, <3>1 DEF InflowTypes
    <3>3. chain[i] \in R
      BY <2>2, <3>2
    <3> QED
      BY <3>1, <3>3 DEF Address
  <2>3. \/ MonitorAt(i, "credit") /\ OfUser(i) /\ (usdc = "none" \/ credits[i] = 0)
        \/ MonitorAt(i, "advance")
    BY <1>2, <2>1, <2>c DEF _processPayment, OfUser
  <2>4. credits' = credits /\ (usdc' = "none" => usdc = "none")
    BY <1>2 DEF _processPayment
  <2>5. /\ monitor' \in Job /\ monitor'.step \in {"credit", "advance"} /\ monitor'.at = i
        /\ monitor'.step = "credit" => OfUser(i) /\ (usdc = "none" \/ credits[i] = 0)
    BY <2>2, <2>3, MonitorGoes
  <2> QED
    BY <1>t, <1>u, <1>r, <2>2, <2>4, <2>5 DEF InflowInv, InflowTypes, CreditsAreUsers, OfUser
<1>3. CASE creditDeposit
  <2>1. PICK i : i = monitor.at
    OBVIOUS
  <2>2. i \in 1 .. Len(chain) /\ i \in Nat /\ i \in 1 .. MaxPayments
    BY <1>3, <1>m, <2>1 DEF creditDeposit
  <2>3. monitor' \in Job /\ monitor'.step \in {"sep24", "advance"} /\ monitor'.at = i
    <3>1. MonitorAt(i, "sep24") \/ MonitorAt(i, "advance")
      BY <1>3, <2>1 DEF creditDeposit
    <3> QED
      BY <3>1, <2>2, MonitorGoes
  <2>4. credits[i] = 0 /\ OfUser(i)
    BY <1>3, <1>t, <2>1 DEF creditDeposit, CreditsAreUsers
  <2>5. usdc' = usdc /\ (credits' = credits
                         \/ (usdc = "active" /\ credits' = [credits EXCEPT ![i] = @ + 1]))
    BY <1>3, <2>1 DEF creditDeposit
  <2>6. CreditsAreUsers'
    BY SMTT(60), <1>t, <1>u, <2>2, <2>3, <2>4, <2>5 DEF InflowTypes, CreditsAreUsers, OfUser
  <2> QED
    <3>1. credits' \in [1 .. MaxPayments -> Nat]
      BY SMTT(60), <1>t, <2>2, <2>5 DEF InflowTypes
    <3>2. InflowTypes'
      BY <1>t, <1>u, <2>2, <2>3, <3>1 DEF InflowTypes
    <3> QED
      BY <1>r, <2>6, <3>2 DEF InflowInv
<1>4. CASE reconcileSep24 \/ advanceCursor
  <2>1. PICK i : i = monitor.at
    OBVIOUS
  <2>2. i \in 1 .. Len(chain) /\ i \in Nat /\ i \in 1 .. MaxPayments
    BY <1>4, <1>m, <2>1 DEF reconcileSep24, advanceCursor
  <2>3. monitor' \in Job /\ monitor'.step \in {"advance", "idle"}
        /\ (monitor'.step # "idle" => monitor'.at = i)
    <3>1. MonitorAt(i, "advance") \/ MonitorAt(i, "idle")
      BY <1>4, <2>1 DEF reconcileSep24, advanceCursor
    <3> QED
      BY <3>1, <2>2, MonitorGoes
  <2> QED
    BY <1>4, <1>t, <1>u, <1>r, <2>2, <2>3
    DEF reconcileSep24, advanceCursor, InflowInv, InflowTypes, CreditsAreUsers, OfUser
<1> QED
  BY <1>1, <1>2, <1>3, <1>4 DEF monitorStep

(* The reconciliation's.                                                   *)
LEMMA FundingKeeps ==
  ASSUME MaxPayments \in Nat, InflowInv, fundingStep \/ fundingFails
  PROVE  InflowInv'
<1>t. /\ InflowTypes /\ CreditsAreUsers /\ RecordsAreTreasury
  BY DEF InflowInv
<1>u. UNCHANGED <<chain, usdc, credits, cursors, monitor>>
  BY DEF fundingStep, anchorCursor, reconcileTreasuryFunding, _processFundingInflow,
         createFundingRecord, matchIntent, advanceAnchor, fundingFails, monitorVars
<1>c. CreditsAreUsers'
  BY <1>t, <1>u DEF CreditsAreUsers, OfUser
<1>k. ASSUME funding' \in Job, records' = records, anchor' \in -1 .. Len(chain),
             funding'.step # "idle" => /\ funding'.at \in 1 .. Len(chain)
                                       /\ chain[funding'.at].to = "treasury",
             funding'.step = "record" => ~Recorded(funding'.at) /\ OfTreasury(funding'.at)
      PROVE  InflowInv'
  <2>1. InflowTypes'
    BY <1>k, <1>t, <1>u DEF InflowTypes
  <2>2. RecordsAreTreasury'
    BY <1>k, <1>t, <1>u DEF RecordsAreTreasury, OfTreasury, Recorded
  <2> QED
    BY <1>c, <2>1, <2>2 DEF InflowInv
<1>1. CASE anchorCursor
  BY <1>1, <1>t, <1>k DEF anchorCursor, InflowTypes, RecordsAreTreasury
<1>2. CASE reconcileTreasuryFunding
  <2>1. PICK i \in 1 .. Len(chain) : FundingAt(i, "look", "none") /\ chain[i].to = "treasury"
    BY SMTT(60), <1>2, <1>t, AfterIsNext DEF reconcileTreasuryFunding, InflowTypes, Address
  <2>2. funding' \in Job /\ funding'.step = "look" /\ funding'.at = i
    BY <2>1, <1>t, FundingGoes DEF InflowTypes
  <2> QED
    BY <1>2, <1>t, <1>k, <2>1, <2>2 DEF reconcileTreasuryFunding, InflowTypes
<1>m. ASSUME funding.step # "idle"
      PROVE  /\ funding.at \in 1 .. Len(chain) /\ funding.at \in Nat
             /\ chain[funding.at].to = "treasury"
  BY <1>t, <1>m DEF InflowTypes, RecordsAreTreasury
<1>3. CASE _processFundingInflow
  <2>1. PICK i \in 1 .. Len(chain) : i = funding.at /\ i \in Nat /\ chain[i].to = "treasury"
    BY <1>3, <1>m DEF _processFundingInflow
  <2>2. \/ FundingAt(i, "advance", "none")
        \/ /\ ~Recorded(i) /\ chain[i].memo # "ALYTO"
           /\ \E n \in Intent \cup {"none"} : FundingAt(i, "record", n)
    BY <1>3, <2>1 DEF _processFundingInflow
  <2>3. /\ funding' \in Job /\ funding'.step \in {"advance", "record"} /\ funding'.at = i
        /\ funding'.step = "record" => ~Recorded(i) /\ OfTreasury(i)
    BY <2>1, <2>2, FundingGoes DEF OfTreasury
  <2> QED
    BY <1>3, <1>t, <1>k, <2>1, <2>3 DEF _processFundingInflow, InflowTypes
<1>4. CASE createFundingRecord
  <2>1. PICK i \in 1 .. Len(chain) : i = funding.at /\ i \in Nat /\ chain[i].to = "treasury"
    BY <1>4, <1>m DEF createFundingRecord
  <2>2. PICK n \in Intent \cup {"none"} : n = funding.intent
    BY <1>t DEF InflowTypes, Job
  <2>3. FundingAt(i, "advance", n) \/ FundingAt(i, "match", n)
    BY <1>4, <2>1, <2>2 DEF createFundingRecord
  <2>4. funding' \in Job /\ funding'.step \in {"advance", "match"} /\ funding'.at = i
    BY <2>1, <2>3, FundingGoes
  <2>5. PICK d : d = [op |-> i, intent |-> n]
    OBVIOUS
  <2>6. records' = records \cup {d} /\ d.op = i /\ anchor' = anchor
    BY <1>4, <2>1, <2>2, <2>5 DEF createFundingRecord
  <2>7. ~Recorded(i) /\ OfTreasury(i)
    BY <1>4, <1>t, <2>1 DEF createFundingRecord, RecordsAreTreasury
  <2>8. RecordsAreTreasury'
    BY <1>t, <1>u, <2>1, <2>4, <2>6, <2>7 DEF RecordsAreTreasury, Recorded, OfTreasury
  <2>9. InflowTypes'
    BY <1>t, <1>u, <2>1, <2>4, <2>6 DEF InflowTypes
  <2> QED
    BY <1>c, <2>8, <2>9 DEF InflowInv
<1>5. CASE matchIntent \/ advanceAnchor \/ fundingFails
  <2>1. PICK i \in 1 .. Len(chain) : i = funding.at /\ i \in Nat /\ chain[i].to = "treasury"
    BY <1>5, <1>m DEF matchIntent, advanceAnchor, fundingFails
  <2>2. FundingAt(i, "advance", "none") \/ FundingAt(i, "idle", "none")
    BY <1>5, <2>1 DEF matchIntent, advanceAnchor, fundingFails
  <2>3. /\ funding' \in Job /\ funding'.step \in {"advance", "idle"}
        /\ (funding'.step # "idle" => funding'.at = i)
    BY <2>1, <2>2, FundingGoes
  <2>4. records' = records /\ anchor' \in -1 .. Len(chain)
    BY <1>5, <1>t, <2>1 DEF matchIntent, advanceAnchor, fundingFails, InflowTypes
  <2> QED
    BY <1>k, <2>1, <2>3, <2>4
<1> QED
  BY <1>1, <1>2, <1>3, <1>4, <1>5 DEF fundingStep

LEMMA InflowKeeps ==
  ASSUME MaxPayments \in Nat, InflowInv, cursors \in [Address -> Nat], [InflowNext]_inflowVars
  PROVE  InflowInv' /\ cursors' \in [Address -> Nat]
<1>1. cursors' \in [Address -> Nat]
  <2>1. cursors' = cursors \/ advanceCursor
    BY DEF InflowNext, inflowVars, monitorStep, fundingStep, _pollAddress, _processPayment,
           creditDeposit, reconcileSep24, anchorCursor, reconcileTreasuryFunding,
           _processFundingInflow, createFundingRecord, matchIntent, advanceAnchor, fundingFails,
           inflowRestart, payUSDC, freezeUSDC, createFundingIntent, cancelReads,
           cancelFundingIntent, monitorVars, fundingVars
  <2>2. ASSUME advanceCursor PROVE monitor.at \in Nat
    BY <2>2 DEF advanceCursor, InflowInv, InflowTypes
  <2> QED
    BY <2>1, <2>2 DEF advanceCursor
<1>2. CASE freezeUSDC
  BY <1>2 DEF freezeUSDC, fundingVars, InflowInv, InflowTypes, CreditsAreUsers, OfUser,
              RecordsAreTreasury, OfTreasury, Recorded
<1>3. ASSUME NEW n \in Intent, createFundingIntent(n) \/ cancelReads(n) \/ cancelFundingIntent(n)
      PROVE  InflowInv'
  BY <1>3 DEF createFundingIntent, cancelReads, cancelFundingIntent, monitorVars, InflowInv,
              InflowTypes, CreditsAreUsers, OfUser, RecordsAreTreasury, OfTreasury, Recorded
<1>4. CASE inflowRestart
  <2>1. NoJob \in Job /\ NoJob.step = "idle"
    BY DEF NoJob, Job
  <2> QED
    BY <1>4, <2>1 DEF inflowRestart, InflowInv, InflowTypes, CreditsAreUsers, OfUser,
                      RecordsAreTreasury, OfTreasury, Recorded
<1>5. CASE UNCHANGED inflowVars
  BY <1>5 DEF inflowVars, InflowInv, InflowTypes, CreditsAreUsers, OfUser,
              RecordsAreTreasury, OfTreasury, Recorded
<1>6. "none" \in Memo
  BY DEF Memo
<1> QED
  BY <1>1, <1>2, <1>3, <1>4, <1>5, <1>6, PayKeeps, MonitorKeeps, FundingKeeps
  DEF InflowNext, Address

LEMMA InflowStarts ==
  ASSUME MaxPayments \in Nat, InflowInit
  PROVE  InflowInv /\ cursors \in [Address -> Nat]
<1>1. NoJob \in Job /\ NoJob.step = "idle"
  BY DEF NoJob, Job
<1> QED
  BY <1>1 DEF InflowInit, InflowInv, InflowTypes, CreditsAreUsers, RecordsAreTreasury

(* At most one record of a payment.                                        *)
LEMMA AtMostOne ==
  ASSUME NEW S, \A r, t \in S : r = t
  PROVE  Cardinality(S) \in Nat /\ Cardinality(S) <= 1 /\ (S = {} => Cardinality(S) = 0)
<1>1. CASE S = {}
  BY <1>1, FS_EmptySet
<1>2. CASE S # {}
  <2>1. PICK x : S = {x}
    BY <1>2
  <2> QED
    BY <2>1, FS_Singleton
<1> QED
  BY <1>1, <1>2

(* For any number of payments and intents, a payment on the chain is       *)
(* counted once: as a user's deposit, or as a funding of the treasury,     *)
(* however often either job stops between the credit or the record and its *)
(* cursor and reads the payment again.                                     *)
THEOREM InflowsCountedOnce ==
  ASSUME MaxPayments \in Nat
  PROVE  InflowSpec => []CountedOnce
<1> DEFINE J == InflowInv /\ cursors \in [Address -> Nat]
<1>1. InflowInit => J
  BY InflowStarts
<1>2. J /\ [InflowNext]_inflowVars => J'
  BY InflowKeeps
<1>3. J => CountedOnce
  <2> SUFFICES ASSUME InflowInv, NEW i \in 1 .. Len(chain)
               PROVE  credits[i] + Cardinality({r \in records : r.op = i}) <= 1
    BY DEF CountedOnce
  <2> DEFINE S == {r \in records : r.op = i}
  <2>1. \A r, t \in S : r = t
    BY DEF InflowInv, RecordsAreTreasury
  <2>2. Cardinality(S) \in Nat /\ Cardinality(S) <= 1 /\ (S = {} => Cardinality(S) = 0)
    BY <2>1, AtMostOne
  <2>3. credits[i] \in Nat /\ credits[i] <= 1 /\ i \in 1 .. MaxPayments
    BY DEF InflowInv, InflowTypes, CreditsAreUsers
  <2>4. credits[i] > 0 => S = {}
    BY <2>3 DEF InflowInv, CreditsAreUsers, RecordsAreTreasury, OfUser, OfTreasury
  <2> HIDE DEF S
  <2>5. credits[i] + Cardinality(S) <= 1
    BY <2>2, <2>3, <2>4
  <2> QED
    BY <2>5 DEF S
<1> HIDE DEF J
<1> QED
  BY <1>1, <1>2, <1>3, PTL DEF InflowSpec

-----------------------------------------------------------------------------
(* After its first run the reconciliation's cursor passes no funding of    *)
(* the treasury that has no record: nobody would look at it again          *)
(* (reconcileTreasuryFunding, lastCursor).                                 *)
AnchorPassesRecorded ==
  [][anchor >= 0 =>
       \A i \in 1 .. Len(chain) : anchor < i /\ i <= anchor' /\ OfTreasury(i) => Recorded(i)]_inflowVars

(* The reconciliation is at the first payment after the cursor, and leaves *)
(* it for the cursor when it is recorded or a user's.                      *)
NoGap ==
  /\ funding.step # "idle" =>
       /\ anchor >= 0 /\ anchor < funding.at
       /\ \A j \in 1 .. Len(chain) :
            anchor < j /\ j < funding.at => chain[j].to # "treasury"
  /\ funding.step \in {"match", "advance"} =>
       Recorded(funding.at) \/ chain[funding.at].memo = "ALYTO"

LEMMA NoGapKept ==
  ASSUME MaxPayments \in Nat, InflowInv, NoGap, [InflowNext]_inflowVars
  PROVE  NoGap'
<1>t. InflowTypes
  BY DEF InflowInv
<1>n. Len(chain) \in Nat
  BY <1>t DEF InflowTypes
<1>1. ASSUME NEW a \in Address, NEW memo \in Memo, payUSDC(a, memo)
      PROVE  NoGap'
  <2>1. UNCHANGED <<anchor, funding, records>>
    BY <1>1 DEF payUSDC, fundingVars
  <2>2. Len(chain') = Len(chain) + 1 /\ \A i \in 1 .. Len(chain) : chain'[i] = chain[i]
    BY <1>1, <1>t, ChainGrows
  <2>3. funding.step # "idle" => funding.at \in 1 .. Len(chain)
    BY <1>t DEF InflowTypes
  <2> QED
    BY <1>n, <2>1, <2>2, <2>3 DEF NoGap, Recorded
<1>2. CASE UNCHANGED <<chain, anchor, funding, records>>
  BY <1>2 DEF NoGap, Recorded
<1>3. CASE inflowRestart
  BY <1>3 DEF inflowRestart, NoGap, NoJob
<1>4. CASE anchorCursor
  BY <1>4, <1>n DEF anchorCursor, NoGap
<1>5. CASE reconcileTreasuryFunding
  <2>1. PICK i \in 1 .. Len(chain) :
          /\ FundingAt(i, "look", "none") /\ i > anchor
          /\ \A j \in 1 .. Len(chain) : anchor < j /\ j < i => chain[j].to # "treasury"
    BY <1>5, <1>t, AfterIsNext DEF reconcileTreasuryFunding, InflowTypes, Address
  <2>2. funding'.step = "look" /\ funding'.at = i
    BY <2>1, <1>n, FundingGoes
  <2> QED
    BY <1>5, <2>1, <2>2 DEF reconcileTreasuryFunding, NoGap
<1>m. ASSUME funding.step # "idle"
      PROVE  funding.at \in Nat
  BY <1>t, <1>m DEF InflowTypes
<1>6. CASE _processFundingInflow
  <2>1. PICK i \in Nat : i = funding.at
    BY <1>6, <1>m DEF _processFundingInflow
  <2>2. \/ FundingAt(i, "advance", "none") /\ (Recorded(i) \/ chain[i].memo = "ALYTO")
        \/ \E n \in Intent \cup {"none"} : FundingAt(i, "record", n)
    BY <1>6, <2>1 DEF _processFundingInflow
  <2>3. /\ funding'.step \in {"advance", "record"} /\ funding'.at = i
        /\ funding'.step = "advance" => Recorded(i) \/ chain[i].memo = "ALYTO"
    BY <2>1, <2>2, FundingGoes
  <2> QED
    BY <1>6, <2>1, <2>3 DEF _processFundingInflow, NoGap, Recorded
<1>7. CASE createFundingRecord
  <2>1. PICK i \in Nat : i = funding.at
    BY <1>7, <1>m DEF createFundingRecord
  <2>2. PICK n \in Intent \cup {"none"} : n = funding.intent
    BY <1>t DEF InflowTypes, Job
  <2>3. FundingAt(i, "advance", n) \/ FundingAt(i, "match", n)
    BY <1>7, <2>1, <2>2 DEF createFundingRecord
  <2>4. funding'.step \in {"advance", "match"} /\ funding'.at = i
    BY <2>1, <2>3, FundingGoes
  <2>5. \E r \in records' : r.op = i
    <3>1. PICK d : d = [op |-> i, intent |-> n]
      OBVIOUS
    <3>2. records' = records \cup {d} /\ d.op = i
      BY <1>7, <2>1, <2>2, <3>1 DEF createFundingRecord
    <3> QED
      BY <3>2
  <2> QED
    BY <1>7, <2>1, <2>4, <2>5 DEF createFundingRecord, NoGap, Recorded
<1>8. CASE matchIntent
  <2>1. PICK i \in Nat : i = funding.at
    BY <1>8, <1>m DEF matchIntent
  <2>2. funding'.step = "advance" /\ funding'.at = i
    BY <1>8, <2>1, FundingGoes DEF matchIntent
  <2> QED
    BY <1>8, <2>1, <2>2 DEF matchIntent, NoGap, Recorded
<1>9. CASE advanceAnchor \/ fundingFails
  <2>1. PICK i \in Nat : i = funding.at
    BY <1>9, <1>m DEF advanceAnchor, fundingFails
  <2>2. funding'.step = "idle"
    BY <1>9, <2>1, FundingGoes DEF advanceAnchor, fundingFails
  <2> QED
    BY <2>2 DEF NoGap
<1>10. ASSUME monitorStep \/ (\E a \in Address : _pollAddress(a)) \/ freezeUSDC
              \/ (\E n \in Intent : createFundingIntent(n) \/ cancelReads(n) \/ cancelFundingIntent(n))
       PROVE  UNCHANGED <<chain, anchor, funding, records>>
  BY <1>10 DEF monitorStep, _pollAddress, _processPayment, creditDeposit, reconcileSep24,
               advanceCursor, freezeUSDC, createFundingIntent, cancelReads, cancelFundingIntent,
               fundingVars
<1>11. CASE UNCHANGED inflowVars
  BY <1>2, <1>11 DEF inflowVars
<1>12. "none" \in Memo
  BY DEF Memo
<1> QED
  BY <1>1, <1>2, <1>3, <1>4, <1>5, <1>6, <1>7, <1>8, <1>9, <1>10, <1>11, <1>12
  DEF InflowNext, fundingStep, Address

(* The cursor moves to the payment the reconciliation has done, or for the *)
(* first time.                                                             *)
LEMMA AnchorMoves ==
  ASSUME [InflowNext]_inflowVars
  PROVE  anchor' = anchor \/ anchor = -1 \/ (advanceAnchor /\ anchor' = funding.at)
BY DEF InflowNext, inflowVars, monitorStep, fundingStep, _pollAddress, _processPayment,
       creditDeposit, reconcileSep24, advanceCursor, anchorCursor, reconcileTreasuryFunding,
       _processFundingInflow, createFundingRecord, matchIntent, advanceAnchor, fundingFails,
       inflowRestart, payUSDC, freezeUSDC, createFundingIntent, cancelReads,
       cancelFundingIntent, monitorVars, fundingVars

(* For any number of payments, whichever writes fail and wherever the      *)
(* process restarts, the reconciliation leaves no funding of the treasury  *)
(* behind its cursor without a record.                                     *)
THEOREM FundingNotSkipped ==
  ASSUME MaxPayments \in Nat
  PROVE  InflowSpec => AnchorPassesRecorded
<1> DEFINE J == InflowInv /\ NoGap /\ cursors \in [Address -> Nat]
           Passes == anchor >= 0 => \A i \in 1 .. Len(chain) :
                       anchor < i /\ i <= anchor' /\ OfTreasury(i) => Recorded(i)
<1>1. InflowInit => J
  BY InflowStarts DEF InflowInit, NoGap, NoJob
<1>2. J /\ [InflowNext]_inflowVars => J'
  BY InflowKeeps, NoGapKept
<1>3. J /\ [InflowNext]_inflowVars => [Passes]_inflowVars
  <2> SUFFICES ASSUME InflowInv, NoGap, [InflowNext]_inflowVars, anchor >= 0,
                      NEW i \in 1 .. Len(chain), anchor < i, i <= anchor', OfTreasury(i)
               PROVE  Recorded(i)
    OBVIOUS
  <2>1. anchor \in Int /\ Len(chain) \in Nat
    BY DEF InflowInv, InflowTypes
  <2>2. advanceAnchor /\ anchor' = funding.at
    BY <2>1, AnchorMoves
  <2>3. funding.step = "advance" /\ funding.at \in Nat
    BY <2>2 DEF advanceAnchor, InflowInv, InflowTypes
  <2>4. i = funding.at
    BY <2>1, <2>2, <2>3 DEF NoGap, OfTreasury
  <2> QED
    BY <2>3, <2>4 DEF NoGap, OfTreasury
<1> HIDE DEF J
<1> QED
  BY <1>1, <1>2, <1>3, PTL DEF InflowSpec, AnchorPassesRecorded
=============================================================================
