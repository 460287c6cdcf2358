---------------------------- MODULE PayinOrders -----------------------------
(***************************************************************************)
(* The orders by which a payment is collected: an order is created at the  *)
(* provider and a transaction is stored, in an order that differs by       *)
(* route, before the client learns where to pay; later the provider's      *)
(* webhook has to find the transaction.  What the webhook does with it is  *)
(* in Payin and Payout.                                                    *)
(***************************************************************************)
EXTENDS Naturals

CONSTANTS
  Order,        \* requests of clients
  FintocURL,    \* the webhooks registered at Fintoc, of {"ipn", "older"}
  StoreFails,   \* a write of the database may fail
  MaxStops      \* bound on the restarts of the server

VARIABLES
  route,      \* which handler serves the request
  request,    \* its step
  atProvider, \* the order at the provider
  record,     \* the transaction: its status and what it holds of the order
  shown,      \* the client knows where to pay
  notices,    \* webhooks not answered: the order and the URL
  stopped     \* restarts so far

orderVars == <<route, request, atProvider, record, shown, notices, stopped>>

(* initiateFintocPayin, initCrossBorderPayment with a widget of Fintoc or  *)
(* its CLP to BOB branch, which shows a bank account and asks nobody, and  *)
(* initiateCorporateOnRamp.                                                *)
Route == {"fintocPayin", "crossBorder", "clpToBob", "onRamp"}
OrderFirst == {"fintocPayin", "crossBorder"}
NoRecord == [status |-> "none", reference |-> FALSE, leg |-> FALSE]

OrdersInit ==
  /\ route \in [Order -> Route]
  /\ request = [o \in Order |-> "asked"]
  /\ atProvider = [o \in Order |-> "none"]
  /\ record = [o \in Order |-> NoRecord]
  /\ shown = [o \in Order |-> FALSE]
  /\ notices = {}
  /\ stopped = 0

Goes(o, step) == request' = [request EXCEPT ![o] = step]
Answered(o, pays) ==
  /\ Goes(o, "answered")
  /\ shown' = [shown EXCEPT ![o] = pays]
Stores(o, r) == record' = [record EXCEPT ![o] = r]

-----------------------------------------------------------------------------
(* The provider takes the order, or the call fails, perhaps after it did.  *)
createOrder(o) ==
  \/ request[o] = "asked" /\ route[o] \in OrderFirst
  \/ request[o] = "recorded" /\ route[o] = "onRamp"

orderCreated(o) ==
  /\ createOrder(o)
  /\ atProvider' = [atProvider EXCEPT ![o] = "open"]
  /\ Goes(o, "ordered")
  /\ UNCHANGED <<route, record, shown, notices, stopped>>

(* The on-ramp fails the transaction it stored before.                     *)
orderThrows(o) ==
  /\ createOrder(o)
  /\ \E taken \in {"none", "open"} : atProvider' = [atProvider EXCEPT ![o] = taken]
  /\ Answered(o, FALSE)
  /\ IF route[o] = "onRamp"
       THEN \/ Stores(o, [record[o] EXCEPT !.status = "failed"])
            \/ StoreFails /\ UNCHANGED record
       ELSE UNCHANGED record
  /\ UNCHANGED <<route, notices, stopped>>

(* Transaction.create.  When it fails the request fails too, except that   *)
(* of initiateFintocPayin, which gives the client the widget all the same. *)
NewRecord(o) ==
  CASE route[o] = "fintocPayin" -> [status |-> "payin_pending", reference |-> FALSE, leg |-> TRUE]
    [] route[o] = "crossBorder" -> [status |-> "payin_pending", reference |-> TRUE, leg |-> TRUE]
    [] route[o] = "clpToBob" -> [NoRecord EXCEPT !.status = "payin_pending"]
    [] route[o] = "onRamp" -> [NoRecord EXCEPT !.status = "initiated"]

createTransaction(o) ==
  /\ \/ request[o] = "ordered" /\ route[o] \in OrderFirst
     \/ request[o] = "asked" /\ route[o] \notin OrderFirst
  /\ \/ /\ Stores(o, NewRecord(o))
        /\ IF route[o] = "onRamp"
             THEN Goes(o, "recorded") /\ UNCHANGED shown
             ELSE Answered(o, TRUE)
     \/ /\ StoreFails
        /\ Answered(o, route[o] = "fintocPayin")
        /\ UNCHANGED record
  /\ UNCHANGED <<route, atProvider, notices, stopped>>

(* The on-ramp links the order; a failure is only logged.                  *)
linkOrder(o) ==
  /\ request[o] = "ordered" /\ route[o] = "onRamp"
  /\ \/ Stores(o, [record[o] EXCEPT !.status = "payin_pending", !.leg = TRUE])
     \/ StoreFails /\ UNCHANGED record
  /\ Answered(o, TRUE)
  /\ UNCHANGED <<route, atProvider, notices, stopped>>

-----------------------------------------------------------------------------
(* The client pays what it was shown, and the provider says so; a transfer *)
(* to the bank account is confirmed by a person (Payin).                   *)
URLs(o) == IF route[o] = "onRamp" THEN {"owlpay"} ELSE FintocURL
Notifies(o) == notices' = notices \cup {<<o, url>> : url \in URLs(o)}

clientPays(o) ==
  /\ shown[o] /\ atProvider[o] = "open"
  /\ atProvider' = [atProvider EXCEPT ![o] = "paid"]
  /\ Notifies(o)
  /\ UNCHANGED <<route, request, record, shown, stopped>>

providerFails(o) ==
  /\ atProvider[o] = "open"
  /\ atProvider' = [atProvider EXCEPT ![o] = "failed"]
  /\ Notifies(o)
  /\ UNCHANGED <<route, request, record, shown, stopped>>

Outcome(o, paid) == IF atProvider[o] = "paid" THEN paid ELSE "failed"

(* Mutant: the legs are not searched.                                      *)
foundByReference(o) == record[o].reference

(* handleFintocIPN looks for the payinReference, then among the legs.      *)
foundByFintocIPN(o) == record[o].reference \/ record[o].leg

(* It does nothing for a payment that failed, and only moves one that is   *)
(* pending.                                                                *)
handleFintocIPN(o) ==
  IF foundByFintocIPN(o) /\ record[o].status = "payin_pending" /\ atProvider[o] = "paid"
    THEN Stores(o, [record[o] EXCEPT !.status = "payin_confirmed"])
    ELSE UNCHANGED record

(* fintocWebhook goes by the transaction the order's metadata names, and   *)
(* initiateFintocPayin names none.                                         *)
fintocWebhook(o) ==
  IF route[o] = "crossBorder" /\ record[o].status # "none"
         /\ (atProvider[o] = "paid" => record[o].status = "payin_pending")
    THEN Stores(o, [record[o] EXCEPT !.status = Outcome(o, "payin_confirmed")])
    ELSE UNCHANGED record

(* The on-ramp's order carries the transaction's id.                       *)
handleOwlPayIPN(o) ==
  /\ record[o].status # "none"
  /\ Stores(o, [record[o] EXCEPT !.status = Outcome(o, "completed")])

(* Every webhook is answered with 200, whether it was of use or not.       *)
webhook(o, url) ==
  /\ <<o, url>> \in notices
  /\ notices' = notices \ {<<o, url>>}
  /\ \/ url = "ipn" /\ handleFintocIPN(o)
     \/ url = "older" /\ fintocWebhook(o)
     \/ url = "owlpay" /\ handleOwlPayIPN(o)
  /\ UNCHANGED <<route, request, atProvider, shown, stopped>>

orderRestart ==
  /\ stopped < MaxStops
  /\ stopped' = stopped + 1
  /\ request' = [o \in Order |-> IF request[o] = "asked" THEN "asked" ELSE "answered"]
  /\ UNCHANGED <<route, atProvider, record, shown, notices>>

OrdersNext ==
  \/ \E o \in Order :
       \/ orderCreated(o) \/ orderThrows(o) \/ createTransaction(o) \/ linkOrder(o)
       \/ clientPays(o) \/ providerFails(o)
       \/ \E url \in URLs(o) : webhook(o, url)
  \/ orderRestart

(* The providers repeat a webhook until it is answered.                    *)
OrdersFairness ==
  /\ \A o \in Order : WF_orderVars(\E url \in {"ipn", "older", "owlpay"} : webhook(o, url))
OrdersSpec == OrdersInit /\ [][OrdersNext]_orderVars /\ OrdersFairness

-----------------------------------------------------------------------------
OrdersTypeOK ==
  /\ route \in [Order -> Route]
  /\ request \in [Order -> {"asked", "ordered", "recorded", "answered"}]
  /\ atProvider \in [Order -> {"none", "open", "paid", "failed"}]
  /\ record \in [Order -> [status : {"none", "initiated", "payin_pending", "payin_confirmed",
                                     "completed", "failed"},
                           reference : BOOLEAN, leg : BOOLEAN]]
  /\ shown \in [Order -> BOOLEAN]
  /\ notices \subseteq Order \X {"ipn", "older", "owlpay"}

(* What a client paid reaches its transaction, although the two are not    *)
(* created together, and the server may stop between them.                 *)
PaidIsConfirmed ==
  \A o \in Order :
    atProvider[o] = "paid" ~> record[o].status \in {"payin_confirmed", "completed"}
=============================================================================
