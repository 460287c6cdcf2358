------------------------------- MODULE Anchor --------------------------------
(***************************************************************************)
(* The Stellar anchor as other wallets see it: a customer (SEP-12) with a  *)
(* token (SEP-10) opens deposits and withdrawals (SEP-24) and payments     *)
(* (SEP-31), and sends USDC for them.  Each of these instructions is a     *)
(* Transaction; deposits are completed by the monitor of the custodial     *)
(* address, and the instructions that expired are closed by an admin.      *)
(***************************************************************************)
EXTENDS Naturals, FiniteSets, FiniteSetsExt

CONSTANTS
  MaxOrders,    \* bound on the instructions
  MaxSends      \* bound on the payments of USDC

Order == 1 .. MaxOrders

VARIABLES
  customer,   \* the User behind the token
  orders,     \* the instructions, oldest first
  paidFor,    \* the instructions the customer sent USDC for
  arrived,    \* deposits of USDC the monitor has not looked at
  credited,   \* deposits credited to the wallet, not matched yet
  closures,   \* instructions the closing admin read as safe to cancel
  patches     \* instructions a SEP-31 callback has read

anchorVars == <<customer, orders, paidFor, arrived, credited, closures, patches>>
chainVars == <<paidFor, arrived, credited>>

Kind == {"deposit", "withdraw", "sep31"}
Waiting == [deposit |-> "sep24_deposit_pending", withdraw |-> "sep24_withdraw_pending",
            sep31 |-> "sep31_waiting"]
SEP24_PENDING_STATUSES == {Waiting["deposit"], Waiting["withdraw"]}
None == [kind |-> "none", status |-> "none", expired |-> FALSE, trace |-> FALSE]

AnchorInit ==
  /\ customer \in {"registered", "unknown"}
  /\ orders = [o \in Order |-> None]
  /\ paidFor = {}
  /\ arrived = 0
  /\ credited = 0
  /\ closures = {}
  /\ patches = {}

Becomes(o, status) == orders' = [orders EXCEPT ![o].status = status]

-----------------------------------------------------------------------------
(* sep10Protect: a token without a user reads only; one whose user is      *)
(* flagged or suspended does nothing.  deleteCustomer leaves the user      *)
(* active and the token good.                                              *)
sep10Protect == customer \in {"registered", "deleted"}

(* A registered account signs the challenge only after provisioning.       *)
verifyChallenge ==
  /\ customer = "unknown"
  /\ customer' = "registered"
  /\ UNCHANGED <<orders, chainVars, closures, patches>>

deleteCustomer ==
  /\ sep10Protect
  /\ customer' = "deleted"
  /\ UNCHANGED <<orders, chainVars, closures, patches>>

(* Screening sets the flag; an officer clears it, with a reason.           *)
flagCustomer ==
  /\ customer = "registered"
  /\ customer' = "restricted"
  /\ UNCHANGED <<orders, chainVars, closures, patches>>

clearSanctionsFlag ==
  /\ customer = "restricted"
  /\ customer' = "registered"
  /\ UNCHANGED <<orders, chainVars, closures, patches>>

(* The three that open an instruction.                                     *)
Opens(kind) ==
  /\ sep10Protect
  /\ \E o \in Order :
       /\ orders[o] = None /\ \A p \in 1 .. (o - 1) : orders[p] # None
       /\ orders' = [orders EXCEPT ![o] = [None EXCEPT !.kind = kind, !.status = Waiting[kind]]]
  /\ UNCHANGED <<customer, chainVars, closures, patches>>

initiateDeposit == Opens("deposit")
initiateWithdraw == Opens("withdraw")
createTransaction == Opens("sep31")

(* An hour passes.                                                         *)
expires(o) ==
  /\ orders[o].kind # "none" /\ ~orders[o].expired
  /\ orders' = [orders EXCEPT ![o].expired = TRUE]
  /\ UNCHANGED <<customer, chainVars, closures, patches>>

-----------------------------------------------------------------------------
(* The customer sends the USDC, in time or late: to the custodial address, *)
(* or to the SRL's with the instruction's id as memo, where the jobs find  *)
(* neither a user's memo nor a funding intent's (StellarInflows).          *)
sendUSDC(o) ==
  /\ orders[o].kind # "none" /\ o \notin paidFor
  /\ Cardinality(paidFor) < MaxSends
  /\ paidFor' = paidFor \cup {o}
  /\ arrived' = IF orders[o].kind = "deposit" THEN arrived + 1 ELSE arrived
  /\ UNCHANGED <<customer, orders, credited, closures, patches>>

(* _processPayment credits the wallet, then completes the oldest deposit   *)
(* that waits; an error there is only logged.                              *)
creditDeposit ==
  /\ arrived > 0 /\ credited = 0
  /\ arrived' = arrived - 1
  /\ credited' = 1
  /\ UNCHANGED <<customer, orders, paidFor, closures, patches>>

WaitingDeposits == {o \in Order : orders[o].status = Waiting["deposit"]}

completeDeposit ==
  /\ credited = 1
  /\ credited' = 0
  /\ \/ /\ WaitingDeposits # {}
        /\ LET oldest == Min(WaitingDeposits)
           IN  orders' = [orders EXCEPT ![oldest].status = "completed", ![oldest].trace = TRUE]
     \/ UNCHANGED orders
  /\ UNCHANGED <<customer, paidFor, arrived, closures, patches>>

-----------------------------------------------------------------------------
(* patchTransaction, the callback of the sending anchor, for any of the    *)
(* customer's instructions: it reads, and saves the status or the fields.  *)
readPatched(o) ==
  /\ sep10Protect /\ orders[o].kind # "none"
  /\ patches' = patches \cup {o}
  /\ UNCHANGED <<customer, orders, chainVars, closures>>

patchTransaction(o) ==
  /\ o \in patches
  /\ patches' = patches \ {o}
  /\ Becomes(o, "payin_pending") \/ UNCHANGED orders
  /\ UNCHANGED <<customer, chainVars, closures>>

(* An admin confirms the money, which starts the payout (Payments).        *)
updateTransactionStatus(o) ==
  /\ orders[o].status = "payin_pending"
  /\ \E status \in {"payin_confirmed", "failed"} : Becomes(o, status)
  /\ UNCHANGED <<customer, chainVars, closures, patches>>

payOut(o) ==
  /\ orders[o].status = "payin_confirmed"
  /\ \E status \in {"completed", "failed"} : Becomes(o, status)
  /\ UNCHANGED <<customer, chainVars, closures, patches>>

-----------------------------------------------------------------------------
(* evaluateSep24Closure: expired, pending, and no trace of funds.          *)
safeToCancel(order) ==
  order.status \in SEP24_PENDING_STATUSES /\ order.expired /\ ~order.trace

evaluateSep24Closure(o) ==
  /\ o \notin closures /\ safeToCancel(orders[o])
  /\ closures' = closures \cup {o}
  /\ UNCHANGED <<customer, orders, chainVars, patches>>

(* Mutant: the status is not part of the update's filter.                  *)
cancelAsRead(o) ==
  /\ o \in closures
  /\ closures' = closures \ {o}
  /\ Becomes(o, "cancelled")
  /\ UNCHANGED <<customer, chainVars, patches>>

(* The update holds only while the status is pending; the audit entry in   *)
(* the same transaction may fail and takes the update with it.             *)
cancelExpiredSep24(o) ==
  /\ o \in closures
  /\ closures' = closures \ {o}
  /\ \/ orders[o].status \in SEP24_PENDING_STATUSES /\ Becomes(o, "cancelled")
     \/ UNCHANGED orders
  /\ UNCHANGED <<customer, chainVars, patches>>

AnchorNext ==
  \/ verifyChallenge \/ deleteCustomer \/ flagCustomer \/ clearSanctionsFlag
  \/ initiateDeposit \/ initiateWithdraw \/ createTransaction
  \/ creditDeposit \/ completeDeposit
  \/ \E o \in Order :
       \/ expires(o) \/ sendUSDC(o)
       \/ readPatched(o) \/ patchTransaction(o) \/ updateTransactionStatus(o) \/ payOut(o)
       \/ evaluateSep24Closure(o) \/ cancelExpiredSep24(o)

AnchorSpec == AnchorInit /\ [][AnchorNext]_anchorVars

-----------------------------------------------------------------------------
Status == {"none", "sep24_deposit_pending", "sep24_withdraw_pending", "sep31_waiting",
           "payin_pending", "payin_confirmed", "completed", "failed", "cancelled"}

AnchorTypeOK ==
  /\ customer \in {"unknown", "registered", "restricted", "deleted"}
  /\ orders \in [Order -> [kind : Kind \cup {"none"}, status : Status,
                           expired : BOOLEAN, trace : BOOLEAN]]
  /\ paidFor \subseteq Order
  /\ arrived \in 0 .. MaxSends /\ credited \in 0 .. 1
  /\ closures \subseteq Order /\ patches \subseteq Order

(* What the anchor answers of an instruction.                              *)
SEP24_STATUS(status) ==
  CASE status \in SEP24_PENDING_STATUSES -> "pending_user_transfer_start"
    [] status = "payin_pending" -> "pending_external"
    [] status = "completed" -> "completed"
    [] status = "failed" -> "error"
    [] OTHER -> "pending_anchor"

(* A deposit that was credited is not closed as one that never received    *)
(* funds, though the admin's list is read before.                          *)
CreditedIsNotClosed == \A o \in Order : orders[o].trace => orders[o].status # "cancelled"

(* "Cierra instrucciones SEP-24 caducadas que nunca recibieron fondos".    *)
ClosedIsUnpaid == \A o \in Order : orders[o].status = "cancelled" => o \notin paidFor

(* "pending_anchor": the anchor is working on it.                          *)
ClosedIsReported ==
  \A o \in Order : orders[o].status = "cancelled" =>
                     SEP24_STATUS(orders[o].status) # "pending_anchor"
=============================================================================
