----------------------------- MODULE Idempotency -----------------------------
(***************************************************************************)
(* The idempotency layer before the endpoints that move money.             *)
(*                                                                         *)
(* A request with an Idempotency-Key looks for the stored answer of its    *)
(* user and key, runs its handler when there is none, and stores the       *)
(* answer while it is on its way to the client.                            *)
(***************************************************************************)
EXTENDS Integers, FiniteSets

CONSTANTS
  Request,    \* the requests that arrive
  Client,     \* the users
  Key,        \* the Idempotency-Keys they send
  StoreFails  \* reading or writing the store may fail

VARIABLES
  call,     \* each request: user, key, step and whose answer it got
  store,    \* the IdempotencyKeys: whose answer is under each key
  saving,   \* requests whose answer is being stored
  ran       \* the requests whose handler ran, with what it moved

idempotencyVars == <<call, store, saving, ran>>

NotArrived == [step |-> "none", user |-> "none", key |-> "none", got |-> "none"]

IdempotencyInit ==
  /\ call = [r \in Request |-> NotArrived]
  /\ store = [k \in Key |-> "none"]
  /\ saving = {}
  /\ ran = {}

Moves(r, step) == call' = [call EXCEPT ![r].step = step]

arrive(r, u, k) ==
  /\ call[r].step = "none"
  /\ call' = [call EXCEPT ![r] = [step |-> "lookup", user |-> u, key |-> k, got |-> "none"]]
  /\ UNCHANGED <<store, saving, ran>>

(* Mutant: the answer under this key, whoever asked for it.                *)
StoredForAnyone(r) == store[call[r].key] # "none"

(* The stored answer of this user under this key, if any.                  *)
Stored(r) ==
  LET s == store[call[r].key] IN s # "none" /\ call[s].user = call[r].user

idempotencyReplays(r) ==
  /\ call[r].step = "lookup"
  /\ Stored(r)
  /\ call' = [call EXCEPT ![r].step = "answered", ![r].got = store[call[r].key]]
  /\ UNCHANGED <<store, saving, ran>>

(* Nothing stored; or the store cannot be read, and the request is let by  *)
(* with nothing to store its answer.                                       *)
idempotencyPasses(r) ==
  /\ call[r].step = "lookup"
  /\ \/ ~Stored(r) /\ Moves(r, "run")
     \/ StoreFails /\ Moves(r, "runUnseen")
  /\ UNCHANGED <<store, saving, ran>>

(* The handler runs and answers, and storing the answer begins.            *)
handlerAnswers(r) ==
  /\ call[r].step \in {"run", "runUnseen"}
  /\ call' = [call EXCEPT ![r].step = "answered", ![r].got = r]
  /\ ran' = ran \cup {r}
  /\ saving' = IF call[r].step = "run" THEN saving \cup {r} ELSE saving
  /\ UNCHANGED store

(* The key is unique, whoever uses it: under a key that is taken, and when *)
(* the write fails, the answer is not stored.                              *)
storeAnswer(r) ==
  /\ r \in saving
  /\ saving' = saving \ {r}
  /\ \/ /\ store[call[r].key] = "none"
        /\ store' = [store EXCEPT ![call[r].key] = r]
     \/ /\ store[call[r].key] # "none" \/ StoreFails
        /\ UNCHANGED store
  /\ UNCHANGED <<call, ran>>

(* A day later.                                                            *)
expire(k) ==
  /\ store[k] # "none"
  /\ store' = [store EXCEPT ![k] = "none"]
  /\ UNCHANGED <<call, saving, ran>>

(* The server stops: answers on their way to the store are lost.           *)
idempotencyRestart ==
  /\ saving # {}
  /\ saving' = {}
  /\ UNCHANGED <<call, store, ran>>

IdempotencyNext ==
  \/ \E r \in Request :
       \/ \E u \in Client, k \in Key : arrive(r, u, k)
       \/ idempotencyReplays(r)
       \/ idempotencyPasses(r)
       \/ handlerAnswers(r)
       \/ storeAnswer(r)
  \/ \E k \in Key : expire(k)
  \/ idempotencyRestart

IdempotencySpec == IdempotencyInit /\ [][IdempotencyNext]_idempotencyVars

-----------------------------------------------------------------------------
IdempotencyTypeOK ==
  /\ call \in [Request -> [step : {"none", "lookup", "run", "runUnseen", "answered"},
                           user : Client \cup {"none"}, key : Key \cup {"none"},
                           got : Request \cup {"none"}]]
  /\ store \in [Key -> Request \cup {"none"}]
  /\ saving \subseteq ran /\ ran \subseteq Request

(* An answer is the request's own, or one its user was given before under  *)
(* the same key: no user is served another's, though a key is unique over  *)
(* all users and theirs collide.                                           *)
OwnAnswer ==
  \A r \in Request :
    call[r].step = "answered" =>
      /\ call[r].got \in ran
      /\ call[call[r].got].user = call[r].user
      /\ call[call[r].got].key = call[r].key

(* A key runs its handler once: a second request under it gets the answer  *)
(* of the first, as the comment on the model has it.  Refuted by a run of  *)
(* its own: of two requests at once neither finds the other's answer.      *)
ExecutedOnce ==
  \A r, s \in ran : call[r].user = call[s].user /\ call[r].key = call[s].key => r = s
=============================================================================
