----------------------------- MODULE WalletStore -----------------------------
(***************************************************************************)
(* The documents every wallet handler works on, and the way MongoDB lets   *)
(* handlers change them.                                                   *)
(*                                                                         *)
(* A handler either opens a MongoDB transaction (startSession /            *)
(* startTransaction .. commitTransaction) or changes one document with a   *)
(* single conditional updateOne.  A transaction reads a snapshot; of two   *)
(* transactions that write a common document, or of a transaction and a    *)
(* plain update that lands after its snapshot, MongoDB lets one through    *)
(* and aborts the transaction with a WriteConflict.  So an open            *)
(* transaction is kept here as what it is going to install, computed from  *)
(* its snapshot: the wallet documents (w) and the WalletTransaction        *)
(* documents (t) it writes.  It can commit as long as nobody wrote one of  *)
(* those documents since; whoever does drops it.                           *)
(***************************************************************************)
EXTENDS Integers, FiniteSets

CONSTANTS
  User,        \* SRL users with an approved KYC
  Tx,          \* identities for WalletTransaction documents (bounds their number)
  Req,         \* request contexts that can hold a MongoDB session
  MaxAmount,   \* amounts are 1 .. MaxAmount, in units of the wallet's currency
  MaxDay,      \* days are 0 .. MaxDay
  Charge,      \* single-use QR codes ("charge" and "p2p")
  chargeOf,    \* the signed payload of each code: its creator, amount and asset
  Payment,     \* cross-border payments funded from a USDC wallet
  payer,       \* the user of each payment
  NoRef        \* a document that belongs to no code and no payment

ASSUME TxAssumption == IsFiniteSet(Tx)
ASSUME UserAssumption == "alyto" \notin User     \* WalletFeeConfig is no user's
ASSUME BoundAssumption == MaxAmount \in Nat /\ MaxDay \in Nat
ASSUME RefAssumption ==
  /\ NoRef \notin Charge \cup Payment
  /\ Charge \cap Payment = {}
  /\ \A q \in Charge : /\ chargeOf[q].creator \in User
                        /\ chargeOf[q].amount \in 1 .. MaxAmount
                        /\ chargeOf[q].asset \in {"BOB", "USDC"}
  /\ \A p \in Payment : payer[p] \in User

VARIABLES
  wallet,      \* WalletBOB, WalletUSDC and WalletFeeConfig documents
  wtx,         \* WalletTransaction documents
  session,     \* the open transaction of each request context
  calls,       \* documents whose handler awaits an answer of the bank
  today        \* the current day

storeVars == <<wallet, wtx, session, calls, today>>

-----------------------------------------------------------------------------
Currency == {"BOB", "USDC"}
feeConfig == <<"alyto", "USDC">>     \* its balance is revenueAccruedUsdc
Wallet == (User \X Currency) \cup {feeConfig}
BOB(u) == <<u, "BOB">>
USDC(u) == <<u, "USDC">>

Amount == 1 .. MaxAmount

WalletDoc == [balance : Int, balanceReserved : Int, balanceFrozen : Int,
              status : {"active", "frozen"}]

TxType == {"deposit", "withdrawal", "send", "receive", "fee", "freeze",
           "unfreeze", "bob_to_usdc", "usdc_to_bob", "usdc_deposit",
           "refund", "crossborder_payin"}
Terminal == {"completed", "failed", "reversed"}
TxStatus == {"unused", "awaiting_proof", "pending", "dispatched"} \cup Terminal

(* counter: what a conversion credits on the other wallet (metadata);      *)
(* method: how a withdrawal leaves; qrId: the bank issued a QR for this    *)
(* deposit; ref: the QR charge or the payment the document belongs to;     *)
(* day: the day of createdAt.                                              *)
Method == {"none", "bank", "qr"}
TxDoc == [type : TxType, wallet : Wallet, amount : Int, counter : Int,
          status : TxStatus, method : Method, qrId : BOOLEAN,
          ref : Charge \cup Payment \cup {NoRef}, day : Nat]

EmptyWallet == [balance |-> 0, balanceReserved |-> 0, balanceFrozen |-> 0,
                status |-> "active"]
Unused ==
  [type |-> "deposit", wallet |-> feeConfig, amount |-> 0, counter |-> 0,
   status |-> "unused", method |-> "none", qrId |-> FALSE, ref |-> NoRef,
   day |-> 0]

Doc(type, k, amount, status) ==
  [Unused EXCEPT !.type = type, !.wallet = k, !.amount = amount,
                 !.status = status, !.day = today]

Idle == [w |-> [k \in {} |-> EmptyWallet], t |-> [x \in {} |-> Unused]]

StoreInit ==
  /\ wallet = [k \in Wallet |-> EmptyWallet]
  /\ wtx = [x \in Tx |-> Unused]
  /\ session = [r \in Req |-> Idle]
  /\ calls = {}
  /\ today = 0

-----------------------------------------------------------------------------
(* Sessions.                                                               *)

(* Function f, and g where f says nothing.                                 *)
f (+) g == [k \in (DOMAIN f) \cup (DOMAIN g) |->
              IF k \in DOMAIN f THEN f[k] ELSE g[k]]

(* A handler has read its snapshot, passed its guards and issued its       *)
(* writes; nobody else sees them yet.                                      *)
Begin(r, w, t) ==
  /\ session[r] = Idle
  /\ session' = [session EXCEPT ![r] = [w |-> w, t |-> t]]
  /\ UNCHANGED <<wallet, wtx, calls, today>>

Clashes(s, w, t) ==
  \/ DOMAIN s.w \cap w # {}
  \/ DOMAIN s.t \cap t # {}

(* What other sessions are left with once documents w and t are written.   *)
Surviving(w, t) ==
  [q \in Req |-> IF Clashes(session[q], w, t) THEN Idle ELSE session[q]]

Commit(r) ==
  /\ session[r] # Idle
  /\ wallet' = session[r].w (+) wallet
  /\ wtx' = session[r].t (+) wtx
  /\ session' = Surviving(DOMAIN session[r].w, DOMAIN session[r].t)
  /\ UNCHANGED <<calls, today>>

(* abortTransaction: any error after the writes (network, audit insert).   *)
Abort(r) ==
  /\ session[r] # Idle
  /\ session' = [session EXCEPT ![r] = Idle]
  /\ UNCHANGED <<wallet, wtx, calls, today>>

(* A plain updateOne, outside any transaction, of one WalletTransaction.   *)
UpdateOne(x, doc) ==
  /\ wtx' = [wtx EXCEPT ![x] = doc]
  /\ session' = Surviving({}, {x})
  /\ UNCHANGED <<wallet, today>>

NoUpdate == UNCHANGED <<wallet, wtx, session, today>>

(* The server stops: open transactions roll back, awaited answers of the   *)
(* bank are lost.                                                          *)
Restart ==
  /\ session' = [r \in Req |-> Idle]
  /\ calls' = {}
  /\ UNCHANGED <<wallet, wtx, today>>

NewDay ==
  /\ today < MaxDay
  /\ today' = today + 1
  /\ UNCHANGED <<wallet, wtx, session, calls>>

-----------------------------------------------------------------------------
(* Reading and writing documents.                                          *)

Is(x, type, status) == wtx[x].type = type /\ wtx[x].status = status

(* A new document takes an identity no document and no open session uses.  *)
New(x) ==
  /\ wtx[x].status = "unused"
  /\ \A r \in Req : x \notin DOMAIN session[r].t

Active(k) == wallet[k].status = "active"
Available(k) == wallet[k].balance - wallet[k].balanceReserved

(* The $inc updates of a wallet document.                                  *)
Inc(k, b, r) ==
  [wallet[k] EXCEPT !.balance = @ + b, !.balanceReserved = @ + r]

Set(x, status) == [wtx[x] EXCEPT !.status = status]

(* The payload of a code, and the anti-replay lookup by metadata.qrId.     *)
PaysCharge(q, asset, v, a) ==
  chargeOf[q].asset = asset /\ chargeOf[q].creator = v /\ chargeOf[q].amount = a
(* Mutant: the receive document, which a USDC transfer does not tag.       *)
alreadyReceived(q) == \E x \in Tx : Is(x, "receive", "completed") /\ wtx[x].ref = q
alreadyPaid(q) == \E x \in Tx : Is(x, "send", "completed") /\ wtx[x].ref = q

Write(k, d) == [i \in {k} |-> d]

-----------------------------------------------------------------------------
(* Sums of amounts without recursion: an amount is that many units of its  *)
(* document, and a total counts units.                                     *)

Total(f) == Cardinality({p \in Tx \X Amount : p[2] <= f[p[1]]})
SumWhere(S) == Total([x \in Tx |-> IF x \in S THEN wtx[x].amount ELSE 0])

(* RETIENEN_RESERVA: the operations that keep an amount reserved; the USDC *)
(* ones follow the same scheme.                                            *)
HoldsReserve(doc) ==
  \/ doc.type = "withdrawal" /\ doc.status \in {"pending", "dispatched"}
  \/ doc.type \in {"bob_to_usdc", "usdc_to_bob", "crossborder_payin"}
       /\ doc.status = "pending"

Held(doc, k) == IF doc.wallet = k /\ HoldsReserve(doc) THEN doc.amount ELSE 0

(* What a completed document has moved into (out of) wallet k.             *)
CreditTypes == {"deposit", "receive", "usdc_deposit", "refund"}
DebitTypes == {"withdrawal", "send", "fee", "bob_to_usdc", "usdc_to_bob",
               "crossborder_payin"}
Moved(doc, k, types) ==
  IF doc.wallet = k /\ doc.status = "completed" /\ doc.type \in types
    THEN doc.amount ELSE 0
=============================================================================
