------------------------------- MODULE Custody -------------------------------
(***************************************************************************)
(* The custodial Stellar accounts: provisioned when a user's identity is   *)
(* approved or first asks for a deposit address, in four steps that may    *)
(* each fail, and completed by a job when one of them did.                 *)
(***************************************************************************)
EXTENDS Integers, Sequences, SequencesExt, FiniteSets, FiniteSetsExt

CONSTANTS
  Users,        \* 1 .. Users, in the order of their createdAt
  Caller,       \* requests that may provision at the same time
  BatchSize,    \* CUSTODY_REPAIR_BATCH
  MaxAttempts,  \* CUSTODY_REPAIR_MAX_ATTEMPTS
  ChannelXLM,   \* what the channel account has at first, in halves of an XLM
  MaxRestarts,  \* bound on the restarts of the server
  Concurrent    \* a user may be provisioned by two requests at once

User == 1 .. Users
Key == 1 .. Cardinality(Caller)   \* the keypair a caller draws
NoKey == 0

VARIABLES
  custody,    \* stellarAccount of a user's document
  onChain,    \* the accounts on the network
  channelXLM, \* the balance of the channel account
  request,    \* a provisionUserKeypair in progress
  shown,      \* the addresses callers have been given for a user
  repair,     \* the reconcileCustodialAccounts in progress
  restarts

custodyVars == <<custody, onChain, channelXLM, request, shown, repair, restarts>>

Account == [publicKey : {NoKey} \cup Key, trustline : BOOLEAN,
            repairAttempts : 0 .. MaxAttempts, cooling : BOOLEAN]
NoRepair == [step |-> "idle", batch |-> <<>>, budget |-> 0, funded |-> FALSE]

keyOf == CHOOSE f \in [Caller -> Key] : \A p, q \in Caller : f[p] = f[q] => p = q

CustodyInit ==
  /\ custody = [u \in User |-> [publicKey |-> NoKey, trustline |-> FALSE,
                                repairAttempts |-> 0, cooling |-> FALSE]]
  /\ onChain = [k \in Key |-> "absent"]
  /\ channelXLM = ChannelXLM
  /\ request = [p \in Caller |-> [step |-> "idle", user |-> 1]]
  /\ shown = [u \in User |-> {}]
  /\ repair = NoRepair
  /\ restarts = 0

-----------------------------------------------------------------------------
(* The network.                                                            *)
XLM_PER_ACCOUNT == 3
XLM_HEADROOM == 4

(* createAccount: refused when the account exists or the channel cannot    *)
(* pay.  A submission that timed out is repeated, and the repetition is    *)
(* refused though the first one went through: an error with the effect.    *)
fundUserAccount(k, done) ==
  \/ /\ onChain[k] = "absent" /\ channelXLM >= XLM_PER_ACCOUNT
     /\ onChain' = [onChain EXCEPT ![k] = "funded"]
     /\ channelXLM' = channelXLM - XLM_PER_ACCOUNT
     /\ done \in BOOLEAN
  \/ done = FALSE /\ UNCHANGED <<onChain, channelXLM>>

(* changeTrust: signed with the key the user's document has now, so it     *)
(* needs that key to be the account's.                                     *)
createUsdcTrustline(u, k, done) ==
  \/ /\ onChain[k] # "absent" /\ custody[u].publicKey = k
     /\ onChain' = [onChain EXCEPT ![k] = "ready"]
     /\ done \in BOOLEAN
  \/ done = FALSE /\ UNCHANGED onChain

-----------------------------------------------------------------------------
(* Provisioning.  Neither funding nor the trustline fails the request.     *)
At(p, step) == request[p].step = step
Goes(p, step) == request' = [request EXCEPT ![p].step = step]

provisionUserKeypair(p, u) ==
  /\ At(p, "idle")
  /\ custody[u].publicKey = NoKey
  /\ Concurrent \/ \A q \in Caller : request[q].user = u => At(q, "idle") \/ At(q, "done")
  /\ request' = [request EXCEPT ![p] = [step |-> "store", user |-> u]]
  /\ UNCHANGED <<custody, onChain, channelXLM, shown, repair, restarts>>

(* The KMS may refuse; then nothing is written and the request fails.      *)
storeKeypair(p) ==
  /\ At(p, "store")
  /\ \/ /\ custody' = [custody EXCEPT ![request[p].user] =
                         [@ EXCEPT !.publicKey = keyOf[p], !.trustline = FALSE]]
        /\ Goes(p, "fund")
     \/ Goes(p, "done") /\ UNCHANGED custody
  /\ UNCHANGED <<onChain, channelXLM, shown, repair, restarts>>

fundProvisioned(p) ==
  /\ At(p, "fund")
  /\ \E done \in BOOLEAN : fundUserAccount(keyOf[p], done)
  /\ Goes(p, "trust")
  /\ UNCHANGED <<custody, shown, repair, restarts>>

trustProvisioned(p) ==
  /\ At(p, "trust")
  /\ \E done \in BOOLEAN :
       /\ createUsdcTrustline(request[p].user, keyOf[p], done)
       /\ Goes(p, IF done THEN "mark" ELSE "answer")
  /\ UNCHANGED <<custody, channelXLM, shown, repair, restarts>>

(* The asset is added to the document after the transaction.               *)
markTrustline(p) ==
  /\ At(p, "mark")
  /\ custody' = [custody EXCEPT ![request[p].user].trustline = TRUE]
  /\ Goes(p, "answer")
  /\ UNCHANGED <<onChain, channelXLM, shown, repair, restarts>>

answerAddress(p) ==
  /\ At(p, "answer")
  /\ shown' = [shown EXCEPT ![request[p].user] = @ \cup {keyOf[p]}]
  /\ Goes(p, "done")
  /\ UNCHANGED <<custody, onChain, channelXLM, repair, restarts>>

provisionStep(p) ==
  storeKeypair(p) \/ fundProvisioned(p) \/ trustProvisioned(p) \/ markTrustline(p)
    \/ answerAddress(p)

-----------------------------------------------------------------------------
(* The repair job.                                                         *)
buildRepairFilter(u) ==
  /\ custody[u].publicKey # NoKey
  /\ custody[u].repairAttempts < MaxAttempts
  /\ ~custody[u].cooling

(* Mutant: all of the batch or none.                                       *)
alcanzaTodoONada(xlm, n) == IF xlm >= n * XLM_PER_ACCOUNT + XLM_HEADROOM THEN n ELSE 0

(* How many of n accounts the channel can fund; none if it was not read.   *)
alcanzaElCanal(xlm, n) ==
  IF xlm >= n * XLM_PER_ACCOUNT + XLM_HEADROOM THEN n
  ELSE Max({0, (xlm - XLM_HEADROOM) \div XLM_PER_ACCOUNT})

RepairUnchanged == UNCHANGED <<request, shown, restarts>>

(* The oldest candidates, as many as a batch holds; xlm is what the job    *)
(* reads of the channel, 0 when the query fails.                           *)
repairStarts(xlm) ==
  /\ repair.step = "idle"
  /\ LET candidates == SetToSortSeq({u \in User : buildRepairFilter(u)}, <)
         batch == SubSeq(candidates, 1, Min({BatchSize, Len(candidates)}))
         taken == [i \in DOMAIN batch |->
                    [user |-> batch[i], attempts |-> custody[batch[i]].repairAttempts]]
     IN /\ batch # <<>>
        /\ repair' = [step |-> "load", batch |-> taken, funded |-> FALSE,
                      budget |-> alcanzaElCanal(xlm, Len(batch))]
  /\ UNCHANGED <<custody, onChain, channelXLM>> /\ RepairUnchanged

Head1 == Head(repair.batch)
Account1 == custody[Head1.user].publicKey
NextAccount(budget) ==
  repair' = IF Len(repair.batch) = 1 THEN NoRepair
            ELSE [step |-> "load", batch |-> Tail(repair.batch), funded |-> FALSE, budget |-> budget]

(* The counters after an attempt: spent, or cleared when all was well.     *)
Attempted ==
  custody' = [custody EXCEPT ![Head1.user] =
                [@ EXCEPT !.repairAttempts = Head1.attempts + 1, !.cooling = TRUE]]

(* Horizon does not answer.                                                *)
loadFails ==
  /\ repair.step = "load"
  /\ Attempted /\ NextAccount(repair.budget)
  /\ UNCHANGED <<onChain, channelXLM>> /\ RepairUnchanged

accountMissing ==
  /\ repair.step = "load" /\ onChain[Account1] = "absent"
  /\ \/ /\ repair.budget = 0            \* needsFunding: no attempt is spent
        /\ NextAccount(0)
        /\ UNCHANGED <<custody, onChain, channelXLM>>
     \/ /\ repair.budget > 0
        /\ \E done \in BOOLEAN :
             /\ fundUserAccount(Account1, done)
             /\ \/ /\ done
                   /\ repair' = [repair EXCEPT !.step = "trust", !.funded = TRUE]
                   /\ UNCHANGED custody
                \/ ~done /\ Attempted /\ NextAccount(repair.budget)
  /\ RepairUnchanged

accountFound ==
  /\ repair.step = "load" /\ onChain[Account1] = "funded"
  /\ repair' = [repair EXCEPT !.step = "trust"]
  /\ UNCHANGED <<custody, onChain, channelXLM>> /\ RepairUnchanged

alreadyOk ==
  /\ repair.step = "load" /\ onChain[Account1] = "ready"
  /\ custody' = [custody EXCEPT ![Head1.user] =
                   [@ EXCEPT !.trustline = TRUE, !.repairAttempts = 0, !.cooling = FALSE]]
  /\ NextAccount(repair.budget)
  /\ UNCHANGED <<onChain, channelXLM>> /\ RepairUnchanged

repairTrustline ==
  /\ repair.step = "trust"
  /\ \E done \in BOOLEAN :
       /\ createUsdcTrustline(Head1.user, Account1, done)
       /\ custody' = [custody EXCEPT ![Head1.user] =
                        [@ EXCEPT !.repairAttempts = Head1.attempts + 1, !.cooling = TRUE,
                                  !.trustline = done \/ custody[Head1.user].trustline]]
       /\ NextAccount(IF done /\ repair.funded THEN repair.budget - 1 ELSE repair.budget)
  /\ UNCHANGED channelXLM /\ RepairUnchanged

repairStep ==
  (\E xlm \in {channelXLM, 0} : repairStarts(xlm)) \/ loadFails \/ accountMissing \/ accountFound
    \/ alreadyOk \/ repairTrustline

(* CUSTODY_REPAIR_COOLDOWN_MS passes.                                      *)
cooldownEnds(u) ==
  /\ custody[u].cooling
  /\ custody' = [custody EXCEPT ![u].cooling = FALSE]
  /\ UNCHANGED <<onChain, channelXLM, request, shown, repair, restarts>>

(* The server stops: the requests and the job are lost.                    *)
custodyRestart ==
  /\ restarts < MaxRestarts
  /\ restarts' = restarts + 1
  /\ request' = [p \in Caller |-> [request[p] EXCEPT !.step = IF @ = "idle" THEN @ ELSE "done"]]
  /\ repair' = NoRepair
  /\ UNCHANGED <<custody, onChain, channelXLM, shown>>

CustodyNext ==
  \/ \E p \in Caller : (\E u \in User : provisionUserKeypair(p, u)) \/ provisionStep(p)
  \/ repairStep
  \/ \E u \in User : cooldownEnds(u)
  \/ custodyRestart

(* The job runs every 30 minutes and reads the channel now and then, an    *)
(* attempt's cooldown ends, and a request goes on.                         *)
CustodyFairness ==
  /\ WF_custodyVars(repairStep)
  /\ SF_custodyVars(repairStarts(channelXLM))
  /\ \A u \in User : SF_custodyVars(cooldownEnds(u))
  /\ \A p \in Caller : WF_custodyVars(provisionStep(p))
CustodySpec == CustodyInit /\ [][CustodyNext]_custodyVars /\ CustodyFairness

-----------------------------------------------------------------------------
CustodyTypeOK ==
  /\ custody \in [User -> Account]
  /\ onChain \in [Key -> {"absent", "funded", "ready"}]
  /\ channelXLM \in 0 .. ChannelXLM
  /\ request \in [Caller -> [step : {"idle", "store", "fund", "trust", "mark", "answer", "done"},
                             user : User]]
  /\ shown \in [User -> SUBSET Key]
  /\ repair.step \in {"idle", "load", "trust"}
  /\ repair.budget \in 0 .. BatchSize
  /\ restarts \in 0 .. MaxRestarts

(* An address a user was given is one whose key the service has, as the    *)
(* comment on provisionKeypair has it ("si ya tiene keypair, retorna el    *)
(* existente").                                                            *)
AddressIsHeld == \A u \in User : \A k \in shown[u] : custody[u].publicKey = k

(* No account stays half provisioned unseen: it can receive USDC, its      *)
(* attempts are spent and logged as an error, or the channel cannot pay.   *)
HalfProvisioned(u) ==
  /\ custody[u].publicKey # NoKey
  /\ onChain[custody[u].publicKey] # "ready"
HalfProvisionedIsSeen ==
  \A u \in User :
    HalfProvisioned(u) ~>
      \/ ~HalfProvisioned(u)
      \/ custody[u].repairAttempts >= MaxAttempts
      \/ channelXLM < XLM_PER_ACCOUNT + XLM_HEADROOM
=============================================================================
