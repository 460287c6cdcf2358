------------------------------- MODULE Wallets -------------------------------
(***************************************************************************)
(* The wallet subsystem: BOB and USDC handlers over the same documents,    *)
(* and the properties that make it correct.                                *)
(***************************************************************************)
EXTENDS WalletBOB, WalletUSDC

SessionNext == \/ \E r \in Req : Commit(r) \/ Abort(r)
               \/ Restart
               \/ NewDay

(* Money from a bank and between users, in bolivianos only.                *)
BOBNext == \/ DepositNext
           \/ TransferNext
           \/ WithdrawalNext
           \/ ComplianceNext
           \/ SessionNext

(* Money that moves between users, in both currencies.                     *)
TransfersNext == ComplianceNext \/ TransferNext \/ UsdcNext \/ SessionNext

Next == BOBNext \/ ConversionNext \/ UsdcNext

TransfersSpec == StoreInit /\ [][TransfersNext]_storeVars
BOBSpec == StoreInit /\ [][BOBNext]_storeVars
Spec == StoreInit /\ [][Next]_storeVars

-----------------------------------------------------------------------------
(* Type correctness: documents and the pending writes of every session     *)
(* have the fields of their schemas.                                       *)
TypeOK ==
  /\ wallet \in [Wallet -> WalletDoc]
  /\ wtx \in [Tx -> TxDoc]
  /\ \A r \in Req :
       /\ DOMAIN session[r].w \subseteq Wallet
       /\ \A k \in DOMAIN session[r].w : session[r].w[k] \in WalletDoc
       /\ DOMAIN session[r].t \subseteq Tx
       /\ \A x \in DOMAIN session[r].t : session[r].t[x] \in TxDoc
  /\ calls \subseteq Tx
  /\ today \in 0 .. MaxDay

-----------------------------------------------------------------------------
(* Safety.                                                                 *)

(* What auditWalletReserves checks every night: the balanceReserved of     *)
(* every wallet is the sum of the operations that still hold a reserve, so *)
(* no reserve outlives its operation and none is released twice.           *)
ReservesMatch ==
  \A k \in Wallet :
    wallet[k].balanceReserved = Total([x \in Tx |-> Held(wtx[x], k)])

Funds(k) == wallet[k].balance + wallet[k].balanceFrozen
Movements(k) == Total([x \in Tx |-> Moved(wtx[x], k, CreditTypes)])
                - Total([x \in Tx |-> Moved(wtx[x], k, DebitTypes)])

(* No movement without its document, no document without its movement: the *)
(* money of a wallet is what its completed WalletTransactions say.  A BOB  *)
(* wallet that is frozen and thawed is not covered: adminUnfreezeWallet    *)
(* writes back the balance it read, and a credit in between is lost.       *)
LedgerMatches ==
  /\ \A u \in User \ Freezable : Funds(BOB(u)) = Movements(BOB(u))
  /\ \A u \in User : Funds(USDC(u)) = Movements(USDC(u))

(* No user promises or spends money they do not have, whatever requests    *)
(* overlap: the reserve is covered by the balance of a wallet no           *)
(* compliance order reaches (a freeze empties the balance and leaves the   *)
(* reserve).                                                               *)
Solvent ==
  \A u \in User \ Freezable, c \in Currency :
    0 <= wallet[<<u, c>>].balanceReserved
      /\ wallet[<<u, c>>].balanceReserved <= wallet[<<u, c>>].balance

(* The revenue accrued in WalletFeeConfig is the fees that were charged.   *)
RevenueMatches ==
  wallet[feeConfig].balance =
    Total([x \in Tx |-> IF wtx[x].type = "fee" THEN wtx[x].amount ELSE 0])

(* A charge or p2p code is single-use: two payers who scan it at the same  *)
(* time, or one who retries, pay it once.                                  *)
PaidWith(q) == {x \in Tx : wtx[x].type = "send" /\ wtx[x].ref = q}
ChargePaidOnce == \A q \in Charge : Cardinality(PaidWith(q)) <= 1

(* A payment holds or has taken the payer's USDC at most once.             *)
PaymentHeldOnce ==
  \A p \in Payment :
    Cardinality({x \in payinOf(p) : wtx[x].status \in {"pending", "completed"}}) <= 1

(* No user takes more than the daily limit out of the wallet: what         *)
(* requestWithdrawal refuses, over everything requested that day.          *)
RequestedToday(u) ==
  SumWhere({x \in Tx : /\ wtx[x].wallet = BOB(u)
                       /\ wtx[x].type = "withdrawal"
                       /\ wtx[x].status \in {"pending", "dispatched", "completed"}
                       /\ wtx[x].day = today})
DailyWithdrawalCap ==
  WithdrawLimit > 0 => \A u \in User : RequestedToday(u) <= WithdrawLimit

-----------------------------------------------------------------------------
(* Steps that must never happen.                                           *)

(* A document that reached completed, failed or reversed keeps that        *)
(* status, however late the bank's answer or another admin's click comes.  *)
Settles ==
  \A x \in Tx : wtx[x].status \in Terminal => wtx'[x].status = wtx[x].status
SettledIsFinal == [][Settles]_storeVars

(* A frozen wallet takes no new commitment: its reserve does not grow and  *)
(* no send or fee of its owner completes, not even one whose handler read  *)
(* the wallet before the freeze.                                           *)
StaysFrozen(k) == ~Active(k) /\ wallet'[k].status = "frozen"
NoCommitment(k) ==
  /\ wallet'[k].balanceReserved <= wallet[k].balanceReserved
  /\ \A x \in Tx : (wtx[x].wallet # k \/ wtx[x].status = "unused") =>
        ~(wtx'[x].wallet = k /\ wtx'[x].type \in {"send", "fee"})
FrozenTakesNoCommitment ==
  [][\A k \in Wallet : StaysFrozen(k) => NoCommitment(k)]_storeVars

-----------------------------------------------------------------------------
(* What the code says and does not do: refuted by a run of its own.        *)

(* "Blocking the manual confirmation avoids the double credit": no more    *)
(* money enters a wallet than its credit documents, settled or not, name.  *)
Expected(k) == SumWhere({x \in Tx : wtx[x].wallet = k /\ wtx[x].type \in CreditTypes})
NoDoubleCredit == \A u \in User : Funds(BOB(u)) <= Expected(BOB(u))

-----------------------------------------------------------------------------
(* The inductive invariant behind ReservesMatch.                           *)
(*                                                                         *)
(* ReservesMatch is not inductive: an open session computed its writes     *)
(* from an older state.  The strengthening (Sound) says that what a        *)
(* session is going to install still changes, against the CURRENT          *)
(* documents, each reserve by exactly what one document's hold changes.    *)
(* It is kept because whoever writes a document drops every other session  *)
(* that writes it.                                                         *)

(* Writes that are well-formed: the part of TypeOK about one session.      *)
Formed(w, t) ==
  /\ DOMAIN w \subseteq Wallet /\ DOMAIN t \subseteq Tx
  /\ w \in [DOMAIN w -> WalletDoc]
  /\ t \in [DOMAIN t -> TxDoc]

(* Only a user's wallet is held, and by no more than the largest amount.   *)
HoldOK(doc) ==
  HoldsReserve(doc) => doc.amount \in Amount /\ doc.wallet \in User \X Currency
HoldsOK(t) == \A x \in DOMAIN t : HoldOK(t[x])

Grows(w, k) ==
  IF k \in DOMAIN w THEN w[k].balanceReserved - wallet[k].balanceReserved ELSE 0

(* Writes that move each reserve by what the hold of document x changes.   *)
SoundBy(x, w, t) ==
  /\ x \in DOMAIN t
  /\ \A k \in Wallet : /\ Grows(w, k) = Held(t[x], k) - Held(wtx[x], k)
                       /\ \A y \in DOMAIN t \ {x} : Held(t[y], k) = Held(wtx[y], k)
Good(w, t) == Formed(w, t) /\ HoldsOK(t) /\ \E x \in Tx : SoundBy(x, w, t)
Sound(r) == session[r] = Idle \/ Good(session[r].w, session[r].t)

Sessions == session = [r \in Req |-> session[r]]
(* Every reserve matches its operations now, and after any open session    *)
(* commits.                                                                *)
IInv ==
  /\ wallet \in [Wallet -> WalletDoc]
  /\ wtx \in [Tx -> TxDoc]
  /\ calls \subseteq Tx
  /\ today \in 0 .. MaxDay
  /\ HoldsOK(wtx)
  /\ Sessions
  /\ ReservesMatch
  /\ \A r \in Req : Sound(r)
=============================================================================
