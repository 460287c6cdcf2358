---------------------------- MODULE Disbursement ----------------------------
(***************************************************************************)
(* Withdrawals to a bank account, with the bank on the other side.         *)
(*                                                                         *)
(* An admin dispatches a withdrawal: the document is claimed, an alias is  *)
(* issued, the bank gets an order and confirms it by a webhook, and a job  *)
(* asks about what stays unconfirmed.  WalletBOB has the effect of these   *)
(* handlers on the wallet; here a withdrawal is its document, and the      *)
(* state is what the document, the alias and the bank know of each other.  *)
(***************************************************************************)
EXTENDS Integers, FiniteSets

CONSTANTS
  Withdrawal,    \* withdrawals in progress
  Bank,          \* the providers an admin may choose
  MaxAttempts,   \* bound on the dispatches of one withdrawal
  Switch,        \* a second dispatch may go to another bank
  AnswersLost    \* the bank may take an order although transfer() throws

VARIABLES
  wdoc,      \* the WalletTransaction of a withdrawal
  alias,     \* its ProviderReference at Red Enlace
  counter,   \* the Counter of the aliases
  attempts,  \* dispatches so far: names the processId of the last one
  dispatch,  \* the step an adminDispatchWithdrawal in progress takes next
  order,     \* the orders at the banks
  asked      \* what the job has been told and not yet acted on

disbursementVars == <<wdoc, alias, counter, attempts, dispatch, order, asked>>

(* via: metadata.settledVia, or "hand"; alerted: disbursementAlertedAt.    *)
WithdrawalDoc ==
  [status : {"pending", "dispatched", "completed", "failed"},
   provider : Bank \cup {"none"}, via : {"none", "bank", "hand"}, alerted : BOOLEAN]

(* An order: ref is what the bank knows the withdrawal by (the wtxId at     *)
(* BANECO, the alias at Red Enlace), process the processId of the attempt,  *)
(* for the withdrawal whose account it pays, answered: transfer() returned.*)
Order == [bank : Bank, ref : Withdrawal \cup Nat, process : 1 .. MaxAttempts,
          for : Withdrawal, answered : BOOLEAN,
          state : {"accepted", "paid", "refused", "reverted"}]
NoAlias == [reference |-> 0, process |-> 0]

DisbursementInit ==
  /\ wdoc = [w \in Withdrawal |-> [status |-> "pending", provider |-> "none",
                                   via |-> "none", alerted |-> FALSE]]
  /\ alias = [w \in Withdrawal |-> NoAlias]
  /\ counter = 0
  /\ attempts = [w \in Withdrawal |-> 0]
  /\ dispatch = [w \in Withdrawal |-> "idle"]
  /\ order = {}
  /\ asked = [w \in Withdrawal |-> "nothing"]

-----------------------------------------------------------------------------
(* The adapters: which bank can be asked for the state of a batch.         *)
getBatchStatus == {"redenlace"}

(* 'accepted', 'rejected' or 'unknown'; a payment that came back is left   *)
(* to a person.                                                            *)
mapNotifyStatus(state) ==
  CASE state = "paid" -> "accepted"
    [] state = "refused" -> "rejected"
    [] OTHER -> "unknown"

refAt(p, w) == IF p = "redenlace" THEN alias[w].reference ELSE w
OrdersOf(p, w) == {o \in order : o.bank = p /\ o.ref = refAt(p, w)}

-----------------------------------------------------------------------------
(* Dispatch.                                                               *)

Steps(w, step) == dispatch' = [dispatch EXCEPT ![w] = step]

(* The claim pending -> dispatched, before the bank is called.             *)
claimWithdrawal(w, p) ==
  /\ wdoc[w].status = "pending"
  /\ attempts[w] < MaxAttempts
  /\ Switch \/ wdoc[w].provider \in {"none", p}
  /\ wdoc' = [wdoc EXCEPT ![w].status = "dispatched", ![w].provider = p]
  /\ attempts' = [attempts EXCEPT ![w] = @ + 1]
  /\ Steps(w, IF p = "redenlace" THEN "alias" ELSE "order")
  /\ UNCHANGED <<alias, counter, order, asked>>

(* Mutant: each dispatch gets an alias of its own.                         *)
issueNewReference(w) ==
  /\ dispatch[w] = "alias"
  /\ counter' = counter + 1
  /\ alias' = [alias EXCEPT ![w] = [reference |-> counter', process |-> 0]]
  /\ Steps(w, "order")
  /\ UNCHANGED <<wdoc, attempts, order, asked>>

(* Mutant: the alias is the last number given out, not the next one.       *)
issueLastReference(w) ==
  /\ dispatch[w] = "alias"
  /\ counter' = IF counter = 0 THEN 1 ELSE counter
  /\ alias' = [alias EXCEPT ![w].reference = counter']
  /\ Steps(w, "order")
  /\ UNCHANGED <<wdoc, attempts, order, asked>>

(* The alias of a withdrawal: the one it has, or the next number.          *)
nextReference == counter + 1
issueReference(w) ==
  /\ dispatch[w] = "alias"
  /\ \/ /\ alias[w].reference # 0
        /\ UNCHANGED <<alias, counter>>
     \/ /\ alias[w].reference = 0
        /\ counter' = nextReference
        /\ alias' = [alias EXCEPT ![w].reference = nextReference]
  /\ Steps(w, "order")
  /\ UNCHANGED <<wdoc, attempts, order, asked>>

(* transfer() throws: the withdrawal goes back to pending, unless it was   *)
(* settled in the meantime.                                                *)
transferThrows(w) ==
  /\ wdoc' = [wdoc EXCEPT ![w].status = IF @ = "dispatched" THEN "pending" ELSE @]
  /\ Steps(w, "idle")

(* The bank takes an order once per reference.                             *)
Accepts(w, answered) ==
  LET p == wdoc[w].provider
  IN /\ OrdersOf(p, w) = {}
     /\ order' = order \cup
          {[bank |-> p, ref |-> refAt(p, w), process |-> attempts[w], for |-> w,
            answered |-> answered, state |-> "accepted"]}

(* A missing field, no token, a batch or an item in error, or a reference  *)
(* the bank has already seen.                                              *)
orderRejected(w) ==
  /\ dispatch[w] = "order"
  /\ transferThrows(w)
  /\ UNCHANGED <<alias, counter, attempts, order, asked>>

(* The bank took it and the answer was lost.                               *)
orderAnswerLost(w) ==
  /\ AnswersLost
  /\ dispatch[w] = "order"
  /\ Accepts(w, FALSE)
  /\ transferThrows(w)
  /\ UNCHANGED <<alias, counter, attempts, asked>>

(* BANECO needs nothing more; Red Enlace's processId is stored next.       *)
orderTaken(w) ==
  /\ dispatch[w] = "order"
  /\ Accepts(w, TRUE)
  /\ Steps(w, IF wdoc[w].provider = "redenlace" THEN "persist" ELSE "idle")
  /\ UNCHANGED <<wdoc, alias, counter, attempts, asked>>

(* Mutant: storing it fails the dispatch.                                  *)
persistirOrThrow(w) ==
  /\ dispatch[w] = "persist"
  /\ \/ /\ alias' = [alias EXCEPT ![w].process = attempts[w]]
        /\ Steps(w, "idle")
        /\ UNCHANGED wdoc
     \/ transferThrows(w) /\ UNCHANGED alias
  /\ UNCHANGED <<counter, attempts, order, asked>>

(* Storing it may fail: the error is swallowed.                            *)
persistirDatosDelLote(w) ==
  /\ dispatch[w] = "persist"
  /\ \/ alias' = [alias EXCEPT ![w].process = attempts[w]]
     \/ UNCHANGED alias
  /\ Steps(w, "idle")
  /\ UNCHANGED <<wdoc, counter, attempts, order, asked>>

(* The server stops: the dispatch and the job are lost.                    *)
disbursementRestart ==
  /\ \E w \in Withdrawal : dispatch[w] # "idle" \/ asked[w] # "nothing"
  /\ dispatch' = [w \in Withdrawal |-> "idle"]
  /\ asked' = [w \in Withdrawal |-> "nothing"]
  /\ UNCHANGED <<wdoc, alias, counter, attempts, order>>

-----------------------------------------------------------------------------
(* What ends a withdrawal.                                                 *)

(* By hand: with the bank's receipt, or a rejection that gives it back.    *)
handConfirms(w) ==
  /\ wdoc[w].status = "pending"
  /\ wdoc' = [wdoc EXCEPT ![w].status = "completed", ![w].via = "hand"]
  /\ UNCHANGED <<alias, counter, attempts, dispatch, order, asked>>

(* Mutant: a status the wallet's documents do not have.                    *)
handRejectsAsRejected(w) ==
  /\ wdoc[w].status = "pending"
  /\ wdoc' = [wdoc EXCEPT ![w].status = "rejected", ![w].via = "hand"]
  /\ UNCHANGED <<alias, counter, attempts, dispatch, order, asked>>
handRejects(w) ==
  /\ wdoc[w].status = "pending"
  /\ wdoc' = [wdoc EXCEPT ![w].status = "failed", ![w].via = "hand"]
  /\ UNCHANGED <<alias, counter, attempts, dispatch, order, asked>>

(* A withdrawal that is not dispatched is left as it is.                   *)
settle(w, outcome) ==
  wdoc' = [wdoc EXCEPT ![w] =
    IF @.status # "dispatched" THEN @
    ELSE [@ EXCEPT !.status = IF outcome = "accepted" THEN "completed" ELSE "failed",
                   !.via = "bank"]]

(* The alias in the webhook names the withdrawal.                          *)
normalizeNotify(o) ==
  IF o.bank = "redenlace" THEN {w \in Withdrawal : alias[w].reference = o.ref} ELSE {o.ref}

(* The bank's webhook about an order, as it stands; it may come again.     *)
handleBankDisbursementIPN(o) ==
  /\ mapNotifyStatus(o.state) # "unknown"
  /\ \E w \in normalizeNotify(o) : settle(w, mapNotifyStatus(o.state))
  /\ UNCHANGED <<alias, counter, attempts, dispatch, order, asked>>

(* The job lists what is dispatched and was not alerted (after an hour,    *)
(* which a dispatch in progress does not take).                            *)
Stuck(w) == wdoc[w].status = "dispatched" /\ ~wdoc[w].alerted /\ dispatch[w] = "idle"

Told(w, answer) ==
  /\ asked' = [asked EXCEPT ![w] = answer]
  /\ UNCHANGED <<wdoc, alias, counter, attempts, dispatch, order>>

(* It asks the bank by the stored processId.  "stuck": the bank cannot be  *)
(* asked, does not know the order, or the payment came back.  A query that *)
(* fails or finds the order in progress is left for the next run.          *)
intentarResolver(w) ==
  /\ Stuck(w)
  /\ \A v \in Withdrawal : asked[v] = "nothing"
  /\ LET p == wdoc[w].provider
         known == {o \in OrdersOf(p, w) : o.process = alias[w].process}
     IN \/ /\ p \notin getBatchStatus \/ alias[w].process = 0 \/ known = {}
           /\ Told(w, "stuck")
        \/ \E o \in known :
             /\ p \in getBatchStatus
             /\ o.state # "accepted"
             /\ Told(w, IF o.state = "reverted" THEN "stuck" ELSE o.state)

(* Mutant: a bank that cannot be asked is not a reason to alert.           *)
resolveSilently(w) ==
  /\ asked[w] # "nothing"
  /\ asked' = [asked EXCEPT ![w] = "nothing"]
  /\ \/ asked[w] = "stuck" /\ UNCHANGED wdoc
     \/ asked[w] # "stuck" /\ settle(w, mapNotifyStatus(asked[w]))
  /\ UNCHANGED <<alias, counter, attempts, dispatch, order>>

(* The bank's word settles the withdrawal; otherwise an admin is alerted.  *)
resolve(w) ==
  /\ asked[w] # "nothing"
  /\ asked' = [asked EXCEPT ![w] = "nothing"]
  /\ \/ /\ asked[w] = "stuck"
        /\ wdoc' = [wdoc EXCEPT ![w].alerted = TRUE]
     \/ /\ asked[w] # "stuck"
        /\ settle(w, mapNotifyStatus(asked[w]))
  /\ UNCHANGED <<alias, counter, attempts, dispatch, order>>

-----------------------------------------------------------------------------
(* The bank: pays or refuses, and may return what it has paid.             *)
Moves(o, state) ==
  /\ order' = (order \ {o}) \cup {[o EXCEPT !.state = state]}
  /\ UNCHANGED <<wdoc, alias, counter, attempts, dispatch, asked>>
bankDecides(o) == o.state = "accepted" /\ \E s \in {"paid", "refused"} : Moves(o, s)
bankReverts(o) == o.state = "paid" /\ Moves(o, "reverted")

dispatchStep(w) ==
  \/ issueReference(w)
  \/ orderRejected(w)
  \/ orderTaken(w)
  \/ orderAnswerLost(w)
  \/ persistirDatosDelLote(w)

DisbursementNext ==
  \/ \E w \in Withdrawal :
       \/ \E p \in Bank : claimWithdrawal(w, p)
       \/ dispatchStep(w)
       \/ handConfirms(w)
       \/ handRejects(w)
       \/ intentarResolver(w)
       \/ resolve(w)
  \/ \E o \in order : bankDecides(o) \/ bankReverts(o) \/ handleBankDisbursementIPN(o)
  \/ disbursementRestart

DisbursementSpec == DisbursementInit /\ [][DisbursementNext]_disbursementVars

(* A dispatch in progress goes on, the job reaches each withdrawal and     *)
(* acts on what it heard though restarts interrupt it (it runs again every *)
(* 15 minutes), and the bank decides what it has taken.                    *)
DisbursementFairness ==
  /\ \A w \in Withdrawal :
       /\ WF_disbursementVars(dispatchStep(w))
       /\ SF_disbursementVars(intentarResolver(w))
       /\ SF_disbursementVars(resolve(w))
  /\ WF_disbursementVars(\E o \in order : bankDecides(o))

-----------------------------------------------------------------------------
DisbursementTypeOK ==
  /\ wdoc \in [Withdrawal -> WithdrawalDoc]
  /\ alias \in [Withdrawal -> [reference : Nat, process : 0 .. MaxAttempts]]
  /\ counter \in Nat
  /\ attempts \in [Withdrawal -> 0 .. MaxAttempts]
  /\ dispatch \in [Withdrawal -> {"idle", "alias", "order", "persist"}]
  /\ order \subseteq Order
  /\ asked \in [Withdrawal -> {"nothing", "stuck", "paid", "refused"}]

(* A withdrawal is one order at a bank, however often it is dispatched and *)
(* whatever becomes of the bank's answers: the alias is issued once.       *)
OrderedOnce ==
  \A p \in Bank, w \in Withdrawal :
    Cardinality({o \in order : o.bank = p /\ o.for = w}) <= 1

(* A withdrawal the bank's word completed is one the bank has paid: no     *)
(* webhook, alias or query settles another one's withdrawal.               *)
CompletedIsPaid ==
  \A w \in Withdrawal :
    wdoc[w].status = "completed" /\ wdoc[w].via = "bank" =>
      \E o \in order : o.for = w /\ o.state \in {"paid", "reverted"}

(* The user does not get back a withdrawal the bank paid, as long as the   *)
(* bank's answer to the order arrived.                                     *)
PaidNotReturned ==
  \A o \in order :
    o.answered /\ o.state = "paid" => wdoc[o.for].status \notin {"failed", "pending"}

(* The same of every order, as the comment on the return to pending has it *)
(* ("no se movió dinero"): refuted by a run of its own.                    *)
FailedIsUnpaid ==
  \A o \in order : o.state = "paid" => wdoc[o.for].status # "failed"

(* The withdrawals as their users and the bank see them: the bank pays     *)
(* once, its word is what settles, and a settled withdrawal stays so.      *)
Promise == INSTANCE WithdrawalPromise WITH
  phase <- [w \in Withdrawal |-> wdoc[w].status],
  paid <- [w \in Withdrawal |->
             Cardinality({o \in order : o.for = w /\ o.state \in {"paid", "reverted"}})]
PromiseKept == Promise!PromiseSpec

(* A dispatched withdrawal is settled or put before an admin, also when    *)
(* the webhook is lost or the server stopped half way.                     *)
DispatchedIsWatched ==
  \A w \in Withdrawal :
    wdoc[w].status = "dispatched" ~> (wdoc[w].status # "dispatched" \/ wdoc[w].alerted)
=============================================================================
