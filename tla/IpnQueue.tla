------------------------------ MODULE IpnQueue ------------------------------
(***************************************************************************)
(* The queue between the providers' webhooks and their handlers.           *)
(*                                                                         *)
(* A webhook is put in an SQS queue and answered; a consumer runs the      *)
(* handler and then deletes the message.  The handler confirms the payin   *)
(* and starts its dispatch without waiting for it.  Payin and Payout have  *)
(* the steps of the handlers; here they are one.                           *)
(***************************************************************************)
EXTENDS Integers, FiniteSets

CONSTANTS
  Payment,      \* payments whose payin the provider reports
  MaxSends,     \* bound on the deliveries of a webhook
  MaxCrashes,   \* bound on restarts of the server
  HandlerFails  \* the handler may fail to find the payment, and answers 200

VARIABLES
  webhook,    \* at the provider: deliveries so far and whether one was answered
  queue,      \* the messages: payment, number and whether it can be received
  consumer,   \* the messages of the batch it received, still to process
  handled,    \* the message handled and not yet deleted
  payin,      \* the payment's status
  dispatches, \* dispatches in progress, in memory
  crashes     \* restarts so far

queueVars == <<webhook, queue, consumer, handled, payin, dispatches, crashes>>

Message == [payment : Payment, n : 1 .. MaxSends]
Messages == {m.id : m \in queue}

QueueInit ==
  /\ webhook = [p \in Payment |-> [sends |-> 0, answered |-> FALSE]]
  /\ queue = {}
  /\ consumer = {}
  /\ handled = {}
  /\ payin = [p \in Payment |-> "payin_pending"]
  /\ dispatches = {}
  /\ crashes = 0

-----------------------------------------------------------------------------
(* The provider sends until it is answered; an answer may be lost.         *)
Delivered(p) ==
  /\ ~webhook[p].answered
  /\ webhook[p].sends < MaxSends
  /\ \E answered \in {TRUE} \cup (IF webhook[p].sends + 1 < MaxSends THEN {FALSE} ELSE {}) :
       webhook' = [webhook EXCEPT ![p] = [sends |-> @.sends + 1, answered |-> answered]]

(* The handler: a payin still pending is confirmed and its dispatch begins.*)
Handles(p) ==
  \/ /\ payin[p] = "payin_pending"
     /\ payin' = [payin EXCEPT ![p] = "payin_confirmed"]
     /\ dispatches' = dispatches \cup {p}
  \/ /\ payin[p] # "payin_pending" \/ HandlerFails
     /\ UNCHANGED <<payin, dispatches>>

enqueueIpnEvent(p) ==
  /\ Delivered(p)
  /\ queue' = queue \cup
       {[id |-> [payment |-> p, n |-> webhook[p].sends + 1], visible |-> TRUE]}
  /\ UNCHANGED <<consumer, handled, payin, dispatches, crashes>>

(* The queue does not take it: the handler runs at once.                   *)
handleAtOnce(p) ==
  /\ Delivered(p)
  /\ Handles(p)
  /\ UNCHANGED <<queue, consumer, handled, crashes>>

-----------------------------------------------------------------------------
(* The consumer.                                                           *)

(* Mutant: the message is deleted when it is received.                     *)
receiveAndDelete ==
  /\ consumer = {} /\ handled = {}
  /\ \E batch \in SUBSET {m \in queue : m.visible} \ {{}} :
       /\ consumer' = {m.id : m \in batch}
       /\ queue' = queue \ batch
  /\ UNCHANGED <<webhook, handled, payin, dispatches, crashes>>

receiveMessages ==
  /\ consumer = {} /\ handled = {}
  /\ \E batch \in SUBSET {m \in queue : m.visible} \ {{}} :
       /\ consumer' = {m.id : m \in batch}
       /\ queue' = {IF m \in batch THEN [m EXCEPT !.visible = FALSE] ELSE m : m \in queue}
  /\ UNCHANGED <<webhook, handled, payin, dispatches, crashes>>

handleMessage(m) ==
  /\ m \in consumer /\ handled = {}
  /\ Handles(m.payment)
  /\ consumer' = consumer \ {m}
  /\ handled' = {m}
  /\ UNCHANGED <<webhook, queue, crashes>>

deleteMessage(m) ==
  /\ m \in handled
  /\ queue' = {x \in queue : x.id # m}
  /\ handled' = {}
  /\ UNCHANGED <<webhook, consumer, payin, dispatches, crashes>>

(* A message that is not deleted in a minute can be received again.        *)
visibilityTimeout(m) ==
  /\ m \in Messages
  /\ [id |-> m, visible |-> FALSE] \in queue
  /\ queue' = {IF x.id = m THEN [x EXCEPT !.visible = TRUE] ELSE x : x \in queue}
  /\ UNCHANGED <<webhook, consumer, handled, payin, dispatches, crashes>>

dispatchPayout(p) ==
  /\ p \in dispatches
  /\ dispatches' = dispatches \ {p}
  /\ payin' = [payin EXCEPT ![p] = "dispatched"]
  /\ UNCHANGED <<webhook, queue, consumer, handled, crashes>>

queueRestart ==
  /\ crashes < MaxCrashes
  /\ consumer # {} \/ handled # {} \/ dispatches # {}
  /\ crashes' = crashes + 1
  /\ consumer' = {} /\ handled' = {} /\ dispatches' = {}
  /\ UNCHANGED <<webhook, queue, payin>>

ConsumerStep == receiveMessages \/ (\E m \in Message : handleMessage(m) \/ deleteMessage(m))

QueueNext ==
  \/ \E p \in Payment : enqueueIpnEvent(p) \/ handleAtOnce(p) \/ dispatchPayout(p)
  \/ ConsumerStep
  \/ \E m \in Message : visibilityTimeout(m)
  \/ queueRestart

QueueSpec == QueueInit /\ [][QueueNext]_queueVars

(* The consumer's loop never ends, a message is visible again in the end,  *)
(* and a dispatch in progress goes on.                                     *)
QueueFairness ==
  /\ WF_queueVars(ConsumerStep)
  /\ WF_queueVars(\E m \in Message : visibilityTimeout(m))
  /\ WF_queueVars(\E p \in Payment : dispatchPayout(p))

-----------------------------------------------------------------------------
QueueTypeOK ==
  /\ webhook \in [Payment -> [sends : 0 .. MaxSends, answered : BOOLEAN]]
  /\ queue \subseteq [id : Message, visible : BOOLEAN]
  /\ consumer \subseteq Message /\ handled \subseteq Message
  /\ payin \in [Payment -> {"payin_pending", "payin_confirmed", "dispatched"}]
  /\ dispatches \subseteq Payment

(* A webhook that was answered is handled, through restarts, messages      *)
(* received again and the answers the provider did not get.                *)
AnsweredIsHandled ==
  \A p \in Payment : webhook[p].answered ~> payin[p] # "payin_pending"

(* And its payin is dispatched, as the comment on the consumer has it      *)
(* ("cierra el gap de durabilidad de dispatchPayout fire-and-forget"):     *)
(* refuted by a run of its own.                                            *)
AnsweredIsDispatched ==
  \A p \in Payment : webhook[p].answered ~> payin[p] = "dispatched"
=============================================================================
