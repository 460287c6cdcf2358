-------------------------- MODULE WithdrawalPromise --------------------------
(***************************************************************************)
(* What the service promises about a withdrawal to a bank account, whoever *)
(* confirms it and however often it is dispatched.                         *)
(***************************************************************************)
EXTENDS Naturals

CONSTANT Withdrawal

VARIABLES
  phase,   \* what the user is shown
  paid     \* how often the bank has paid it

promiseVars == <<phase, paid>>

PromiseInit ==
  /\ phase = [w \in Withdrawal |-> "pending"]
  /\ paid = [w \in Withdrawal |-> 0]

Turns(w, from, to) ==
  /\ phase[w] = from
  /\ phase' = [phase EXCEPT ![w] = to]
  /\ UNCHANGED paid

Dispatch(w) == Turns(w, "pending", "dispatched")
GiveBack(w) == Turns(w, "dispatched", "pending")

(* The bank pays once, and only what it was asked to.                      *)
Pay(w) ==
  /\ paid[w] = 0
  /\ paid' = [paid EXCEPT ![w] = 1]
  /\ UNCHANGED phase

(* The bank's word is kept: completed when it paid, failed when it did not.*)
Complete(w) == paid[w] = 1 /\ Turns(w, "dispatched", "completed")
Fail(w) == paid[w] = 0 /\ Turns(w, "dispatched", "failed")

(* An admin decides about a withdrawal that is in nobody's hands.          *)
Decide(w) == \E to \in {"completed", "failed"} : Turns(w, "pending", to)

PromiseNext ==
  \E w \in Withdrawal :
    Dispatch(w) \/ GiveBack(w) \/ Pay(w) \/ Complete(w) \/ Fail(w) \/ Decide(w)

PromiseSpec == PromiseInit /\ [][PromiseNext]_promiseVars
=============================================================================
