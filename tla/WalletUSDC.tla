----------------------------- MODULE WalletUSDC ------------------------------
(***************************************************************************)
(* The USDC wallet: conversions in both directions and USDC transfers      *)
(* (walletUSDCController.js), the hold that pays a cross-border payment    *)
(* with USDC (walletPaymentService.js) and the credit of on-chain deposits *)
(* (monitorUSDCDeposits.js).  The rate of a conversion is an arbitrary     *)
(* counter amount fixed when it is requested.                              *)
(***************************************************************************)
EXTENDS WalletStore

CONSTANT Fees      \* usdcP2p fees of a transfer, as admins configure them over time

ASSUME FeeAssumption == Fees \subseteq 0 .. MaxAmount

-----------------------------------------------------------------------------
(* Conversions.  A request reserves the amount; a confirmation debits it   *)
(* and credits the counter amount; a rejection releases it.                *)

(* Mutant: the reserve is not subtracted from the balance.                 *)
requestConversionOfReserved(r, x, type, from, to, a, c) ==
  /\ New(x)
  /\ Active(from) /\ Active(to)
  /\ wallet[from].balance >= a
  /\ Begin(r, Write(from, Inc(from, 0, a)),
              Write(x, [Doc(type, from, a, "pending") EXCEPT !.counter = c]))

requestConversion(r, x, type, from, to, a, c) ==
  /\ New(x)
  /\ Active(from) /\ Active(to)
  /\ Available(from) >= a
  /\ Begin(r, Write(from, Inc(from, 0, a)),
              Write(x, [Doc(type, from, a, "pending") EXCEPT !.counter = c]))

(* Mutant: the spread is booked as USDC revenue too.                       *)
swapRevenueInUsdc(spread) ==
  IF spread THEN Write(feeConfig, Inc(feeConfig, 1, 0))
            ELSE [k \in {} |-> EmptyWallet]

(* computeSwapRevenue: when there is a spread the singleton WalletFeeConfig *)
(* is written in the same session (its swapRevenueAccruedBob is left out). *)
swapRevenue(spread) ==
  IF spread THEN Write(feeConfig, wallet[feeConfig])
            ELSE [k \in {} |-> EmptyWallet]

confirmConversion(r, x, y, type, to, creditType, spread) ==
  LET from == wtx[x].wallet IN
  /\ Is(x, type, "pending")
  /\ New(y)
  /\ Begin(r, Write(from, Inc(from, -wtx[x].amount, -wtx[x].amount))
              (+) (Write(to, Inc(to, wtx[x].counter, 0)) (+) swapRevenue(spread)),
              Write(x, Set(x, "completed"))
              (+) Write(y, Doc(creditType, to, wtx[x].counter, "completed")))

(* Mutant: a rejection forgets the reserve.                                *)
rejectConversionReserved(r, x, type) ==
  LET from == wtx[x].wallet IN
  /\ Is(x, type, "pending")
  /\ Begin(r, Write(from, Inc(from, 0, 0)), Write(x, Set(x, "failed")))

rejectConversion(r, x, type) ==
  LET from == wtx[x].wallet IN
  /\ Is(x, type, "pending")
  /\ Begin(r, Write(from, Inc(from, 0, -wtx[x].amount)), Write(x, Set(x, "failed")))

requestBOBtoUSDC(r, x, u, a, c) ==
  requestConversion(r, x, "bob_to_usdc", BOB(u), USDC(u), a, c)

adminConfirmBOBtoUSDC(r, x, y, spread) ==
  confirmConversion(r, x, y, "bob_to_usdc", USDC(wtx[x].wallet[1]),
                    "usdc_deposit", spread)

adminRejectBOBtoUSDC(r, x) == rejectConversion(r, x, "bob_to_usdc")

requestUSDCtoBOB(r, x, u, a, c) ==
  requestConversion(r, x, "usdc_to_bob", USDC(u), BOB(u), a, c)

adminConfirmUSDCtoBOB(r, x, y, spread) ==
  confirmConversion(r, x, y, "usdc_to_bob", BOB(wtx[x].wallet[1]),
                    "deposit", spread)

adminRejectUSDCtoBOB(r, x) == rejectConversion(r, x, "usdc_to_bob")

-----------------------------------------------------------------------------
(* Transfers of USDC between users, and deposits from the chain.           *)

(* Mutant: the fee is written down and not taken.                          *)
transferFeeNotTaken(r, x, y, z, u, v, a, q, f) ==
  /\ u # v
  /\ Cardinality({x, y, z}) = 3 /\ New(x) /\ New(y) /\ New(z)
  /\ q # NoRef => ~alreadyPaid(q)
  /\ Active(USDC(u)) /\ Active(USDC(v))
  /\ Available(USDC(u)) >= a + f
  /\ Begin(r, Write(USDC(u), Inc(USDC(u), -a, 0)) (+) Write(USDC(v), Inc(USDC(v), a, 0)),
              Write(x, [Doc("send", USDC(u), a, "completed") EXCEPT !.ref = q])
              (+) Write(y, Doc("receive", USDC(v), a, "completed"))
              (+) Write(z, Doc("fee", USDC(u), f, "completed")))

(* x, y, z: the send, receive and fee documents.  The fee goes to the      *)
(* singleton WalletFeeConfig (revenueAccruedUsdc).  The per-transfer and   *)
(* daily limits, which only refuse, are left out.                          *)
transferAtFee(r, x, y, z, u, v, a, q, f) ==
  LET total == a + f
      send == Write(x, [Doc("send", USDC(u), a, "completed") EXCEPT !.ref = q])
      receive == Write(y, Doc("receive", USDC(v), a, "completed"))
      fee == Write(z, Doc("fee", USDC(u), f, "completed"))
      move == Write(USDC(u), Inc(USDC(u), -total, 0))
              (+) Write(USDC(v), Inc(USDC(v), a, 0))
      accrue == Write(feeConfig, Inc(feeConfig, f, 0))
  IN /\ u # v
     /\ x # y /\ New(x) /\ New(y)
     /\ q # NoRef => ~alreadyPaid(q)
     /\ Active(USDC(u)) /\ Active(USDC(v))
     /\ Available(USDC(u)) >= total
     /\ IF f > 0
          THEN /\ z \notin {x, y} /\ New(z)
               /\ Begin(r, move (+) accrue, send (+) receive (+) fee)
          ELSE z = x /\ Begin(r, move, send (+) receive)

executeUsdcP2pTransfer(r, x, y, z, u, v, a, q) ==
  \E f \in Fees : transferAtFee(r, x, y, z, u, v, a, q, f)

sendUSDC(r, x, y, z, u, v, a) == executeUsdcP2pTransfer(r, x, y, z, u, v, a, NoRef)

scanAndPayUSDC(r, x, y, z, u, v, a, q) ==
  /\ PaysCharge(q, "USDC", v, a)
  /\ executeUsdcP2pTransfer(r, x, y, z, u, v, a, q)

(* _processPayment: an operation seen on the chain, once (the cursor and   *)
(* the duplicate check on horizonOperationId are not part of this module). *)
creditUSDCDeposit(r, x, u, a) ==
  /\ New(x)
  /\ Active(USDC(u))
  /\ Begin(r, Write(USDC(u), Inc(USDC(u), a, 0)),
              Write(x, Doc("usdc_deposit", USDC(u), a, "completed")))

-----------------------------------------------------------------------------
(* The hold of a cross-border payment.                                     *)

payinOf(p) == {x \in Tx : wtx[x].ref = p /\ wtx[x].type = "crossborder_payin"}

(* Mutants: no look at an earlier hold; the wallet may be frozen.          *)
reserveUSDCAgain(r, x, p, a) ==
  LET k == USDC(payer[p]) IN
  /\ New(x)
  /\ Active(k)
  /\ Available(k) >= a
  /\ Begin(r, Write(k, Inc(k, 0, a)),
              Write(x, [Doc("crossborder_payin", k, a, "pending") EXCEPT !.ref = p]))
reserveUSDCFrozen(r, x, p, a) ==
  LET k == USDC(payer[p]) IN
  /\ New(x)
  /\ \A y \in payinOf(p) : wtx[y].status \notin {"pending", "completed"}
  /\ Available(k) + wallet[k].balanceFrozen >= a
  /\ Begin(r, Write(k, Inc(k, 0, a)),
              Write(x, [Doc("crossborder_payin", k, a, "pending") EXCEPT !.ref = p]))

reserveUSDCForPayment(r, x, p, a) ==
  LET k == USDC(payer[p]) IN
  /\ New(x)
  /\ \A y \in payinOf(p) : wtx[y].status \notin {"pending", "completed"}
  /\ Active(k)
  /\ Available(k) >= a
  /\ Begin(r, Write(k, Inc(k, 0, a)),
              Write(x, [Doc("crossborder_payin", k, a, "pending") EXCEPT !.ref = p]))

(* Mutant: the payment completes and the USDC stay.                        *)
confirmUSDCPaymentFree(r, x) ==
  LET k == wtx[x].wallet IN
  /\ Is(x, "crossborder_payin", "pending")
  /\ Begin(r, Write(k, Inc(k, 0, -wtx[x].amount)), Write(x, Set(x, "completed")))

confirmUSDCPayment(r, x) ==
  LET k == wtx[x].wallet IN
  /\ Is(x, "crossborder_payin", "pending")
  /\ Begin(r, Write(k, Inc(k, -wtx[x].amount, -wtx[x].amount)),
              Write(x, Set(x, "completed")))

(* Mutant: released whatever its status.                                   *)
releaseUSDCAnyStatus(r, x) ==
  LET k == wtx[x].wallet IN
  /\ wtx[x].type = "crossborder_payin"
  /\ Begin(r, Write(k, Inc(k, 0, -wtx[x].amount)), Write(x, Set(x, "reversed")))

releaseUSDCReservation(r, x) ==
  LET k == wtx[x].wallet IN
  /\ Is(x, "crossborder_payin", "pending")
  /\ Begin(r, Write(k, Inc(k, 0, -wtx[x].amount)), Write(x, Set(x, "reversed")))

-----------------------------------------------------------------------------
ConversionNext ==
  \E r \in Req, x \in Tx :
    \/ \E u \in User, a, c \in Amount : requestBOBtoUSDC(r, x, u, a, c)
    \/ \E y \in Tx, spread \in BOOLEAN : adminConfirmBOBtoUSDC(r, x, y, spread)
    \/ adminRejectBOBtoUSDC(r, x)
    \/ \E u \in User, a, c \in Amount : requestUSDCtoBOB(r, x, u, a, c)
    \/ \E y \in Tx, spread \in BOOLEAN : adminConfirmUSDCtoBOB(r, x, y, spread)
    \/ adminRejectUSDCtoBOB(r, x)

UsdcNext ==
  \E r \in Req, x \in Tx :
    \/ \E y, z \in Tx, u, v \in User, a \in Amount :
         \/ sendUSDC(r, x, y, z, u, v, a)
         \/ \E q \in Charge : scanAndPayUSDC(r, x, y, z, u, v, a, q)
    \/ \E u \in User, a \in Amount : creditUSDCDeposit(r, x, u, a)
    \/ \E p \in Payment, a \in Amount : reserveUSDCForPayment(r, x, p, a)
    \/ confirmUSDCPayment(r, x)
    \/ releaseUSDCReservation(r, x)
=============================================================================
