------------------------------- MODULE Failures -------------------------------
(***************************************************************************)
(* A payout that fails: what the provider answered, the category it is     *)
(* given, what the customer is told, and whether what he was told is done. *)
(*                                                                         *)
(* Payout has the steps of the dispatch and of the retry job over a        *)
(* payment's document; here they are the call and its outcome, and what is *)
(* kept is the error: the mappers classify it by order of their tests, the *)
(* retry job only knows one category, and Harbor refuses a transfer it has *)
(* already under the same application_transfer_uuid.                       *)
(***************************************************************************)
EXTENDS Integers, FiniteSets

CONSTANTS
  Payout,       \* the payouts
  Method,       \* of each: "harbor", "vita" or "retired" (the first OwlPay)
  Fallback,     \* the corridor's second provider: "none", "owlPay", "vitaWallet"
  HarborErrors, \* what Harbor may answer to a first call
  RetryErrors,  \* and to a retry
  VitaErrors,   \* what Vita may answer
  MaxRetries,   \* MAX_RECONCILE_RETRIES
  MaxStops,     \* bound on the restarts of the server during a retry
  LastIsLost,   \* the one during the last retry too
  AnswersLost   \* a call that timed out may have been executed

HarborAnswers == {"postalCode", "cpf", "sepaSwift", "account", "swift", "phone", "rejected", "corridor",
                  "inactive", "customer", "schema", "duplicate", "apiKey", "usdc", "unavailable",
                  "noJson"}
VitaAnswers == {"prices", "balance", "field", "login", "unavailable", "other"}

VARIABLES
  doc,       \* of a payment: status, category, retryable, retries, what it tells the customer
  atHand,    \* payouts the retry job has counted an attempt of and is calling for
  executed,  \* transfers at the provider
  exhausted, \* payouts the retry job will name in its mail
  reported,  \* payouts an admin was told of
  stops

failureVars == <<doc, atHand, executed, exhausted, reported, stops>>

FailuresInit ==
  /\ doc = [p \in Payout |-> [status |-> "processing", category |-> "none", retryable |-> FALSE,
                              retries |-> 0, told |-> "nothing"]]
  /\ atHand = {}
  /\ executed = [p \in Payout |-> 0]
  /\ exhausted = {} /\ reported = {}
  /\ stops = 0

-----------------------------------------------------------------------------
(* The mappers.  "told": correct the data, it will be retried, the team is *)
(* at it ("funding"), it was notified, or nothing that can be done.        *)
Mapped(category, retryable, told) ==
  [category |-> category, retryable |-> retryable, told |-> told]

(* Code 3004: what the bank says is wrong with the beneficiary.            *)
Beneficiary == [postalCode |-> "INVALID_POSTAL_CODE", cpf |-> "INVALID_CPF",
                sepaSwift |-> "HARBOR_BUG_SEPA", account |-> "INVALID_ACCOUNT_FORMAT",
                swift |-> "INVALID_SWIFT", phone |-> "INVALID_PHONE",
                rejected |-> "WITHDRAWAL_REJECTED", schema |-> "VALIDATION_ERROR"]

mapHarborError(e) ==
  CASE e \in DOMAIN Beneficiary -> Mapped(Beneficiary[e], TRUE, "correct")
    [] e = "corridor"    -> Mapped("CORRIDOR_NOT_ENABLED", FALSE, "elsewhere")
    [] e = "inactive"    -> Mapped("CUSTOMER_NOT_ACTIVE", FALSE, "elsewhere")
    [] e = "customer"    -> Mapped("INVALID_CUSTOMER_UUID", FALSE, "notified")
    [] e = "duplicate"   -> Mapped("DUPLICATE_TRANSFER", FALSE, "done")
    [] e = "apiKey"      -> Mapped("AUTH_ERROR", FALSE, "notified")
    [] e = "usdc"        -> Mapped("INSUFFICIENT_LIQUIDITY", FALSE, "funding")
    [] e = "unavailable" -> Mapped("TRANSIENT_ERROR", TRUE, "again")
    [] e = "noJson"      -> Mapped("UNKNOWN", TRUE, "notified")

mapVitaError(e) ==
  CASE e = "prices"      -> Mapped("VITA_PRICES_EXPIRED", TRUE, "again")
    [] e = "balance"     -> Mapped("VITA_INSUFFICIENT_BALANCE", FALSE, "funding")
    [] e = "field"       -> Mapped("VITA_INVALID_FIELD", TRUE, "correct")
    [] e = "login"       -> Mapped("VITA_AUTH_ERROR", FALSE, "notified")
    [] e = "unavailable" -> Mapped("VITA_TRANSIENT", TRUE, "again")
    [] e = "other"       -> Mapped("VITA_UNKNOWN", TRUE, "correct")

(* A rejection by webhook: what could not be told apart is the team's.     *)
mapVitaIpnFailure(e) ==
  IF e = "other" THEN Mapped("VITA_IPN_DENIED", FALSE, "notified") ELSE mapVitaError(e)

FAILURE_CATALOG ==
  {Beneficiary[e] : e \in DOMAIN Beneficiary} \cup
  {"CORRIDOR_NOT_ENABLED", "DUPLICATE_TRANSFER", "VITA_PRICES_EXPIRED", "TRANSIENT_ERROR",
   "VITA_TRANSIENT", "AUTH_ERROR", "VITA_AUTH_ERROR", "INVALID_CUSTOMER_UUID",
   "INSUFFICIENT_LIQUIDITY", "VITA_INSUFFICIENT_BALANCE", "VITA_INVALID_FIELD", "UNKNOWN",
   "VITA_UNKNOWN"}

-----------------------------------------------------------------------------
(* The calls.                                                              *)

(* Mutant: every attempt has an application_transfer_uuid of its own.      *)
takesAnything(p) == TRUE

takes(p) == executed[p] = 0

(* What a call may come to: whether a transfer was made, and the error the *)
(* caller sees.  Harbor has one transfer of a uuid; a call may be executed *)
(* unanswered.                                                             *)
Outcomes(errors) ==
  {[made |-> 1, error |-> "none"]}
  \cup {[made |-> 0, error |-> e] : e \in errors \ {"duplicate"}}
  \cup {[made |-> 1, error |-> e] : e \in {f \in errors : AnswersLost /\ f = "unavailable"}}

owlPayRequest(p, errors) ==
  IF takes(p) THEN Outcomes(errors) ELSE {[made |-> 0, error |-> "duplicate"]}
vitaRequest(p) == Outcomes(VitaErrors)
Called(p, o) == executed' = [executed EXCEPT ![p] = @ + o.made]

Sent(p) == doc' = [doc EXCEPT ![p].status = "payout_sent"]
Failed(p, m) ==
  doc' = [doc EXCEPT ![p].status = "failed", ![p].category = m.category,
                     ![p].retryable = m.retryable, ![p].told = m.told]

(* The dispatch by Harbor.  Nobody but the customer is told that it failed.*)
dispatchHarbor(p) ==
  /\ doc[p].status = "processing" /\ Method[p] = "harbor"
  /\ \E o \in owlPayRequest(p, HarborErrors) :
       /\ Called(p, o)
       /\ IF o.error = "none" THEN Sent(p) ELSE Failed(p, mapHarborError(o.error))
  /\ UNCHANGED <<atHand, exhausted, reported, stops>>

(* The others: the corridor's fallback is tried after an error, which can  *)
(* only be Vita after the retired provider; if both fail nothing is told.  *)
effectiveFallback(p) ==
  IF Fallback = "owlPay" \/ (Fallback = "vitaWallet" /\ Method[p] = "vita") THEN "none"
  ELSE Fallback

dispatchVita(p) ==
  /\ doc[p].status = "processing" /\ Method[p] = "vita"
  /\ \E o \in vitaRequest(p) :
       /\ Called(p, o)
       /\ IF o.error = "none" THEN Sent(p) ELSE Failed(p, mapVitaError(o.error))
  /\ UNCHANGED <<atHand, exhausted, reported, stops>>

(* Mutant: the fallback is tried although the first call was made.         *)
dispatchTwice(p) ==
  /\ doc[p].status = "processing"
  /\ executed' = [executed EXCEPT ![p] = @ + 2]
  /\ Sent(p)
  /\ UNCHANGED <<atHand, exhausted, reported, stops>>

dispatchFallback(p) ==
  /\ doc[p].status = "processing" /\ Method[p] = "retired"
  /\ IF effectiveFallback(p) = "vitaWallet"
     THEN \E o \in vitaRequest(p) :
            /\ Called(p, o)
            /\ IF o.error = "none" THEN Sent(p) ELSE Failed(p, Mapped("none", FALSE, "nothing"))
     ELSE /\ Failed(p, Mapped("PAYOUT_FAILED", TRUE, "correct"))
          /\ UNCHANGED executed
  /\ UNCHANGED <<atHand, exhausted, reported, stops>>

(* Anything thrown before the call: an admin gets a mail.                  *)
dispatchThrows(p) ==
  /\ doc[p].status = "processing"
  /\ Failed(p, Mapped("none", TRUE, "notified"))
  /\ reported' = reported \cup {p}
  /\ UNCHANGED <<atHand, executed, exhausted, stops>>

(* Vita's webhook: the bank of the beneficiary did not take it, or did.    *)
vitaDenies(p) ==
  /\ doc[p].status = "payout_sent" /\ Method[p] # "harbor"
  /\ \E e \in VitaErrors : Failed(p, mapVitaIpnFailure(e))
  /\ executed' = [executed EXCEPT ![p] = 0]
  /\ reported' = reported \cup {p}
  /\ UNCHANGED <<atHand, exhausted, stops>>

completes(p) ==
  /\ doc[p].status = "payout_sent"
  /\ doc' = [doc EXCEPT ![p].status = "completed"]
  /\ UNCHANGED <<atHand, executed, exhausted, reported, stops>>

-----------------------------------------------------------------------------
(* The retry job: one category, counted before the call.                   *)
Picked(p) ==
  /\ doc[p].status = "failed" /\ doc[p].retryable
  /\ doc[p].category = "TRANSIENT_ERROR"
  /\ doc[p].retries < MaxRetries

retryFailed(p) ==
  /\ Picked(p) /\ p \notin atHand
  /\ doc' = [doc EXCEPT ![p].retries = @ + 1]
  /\ atHand' = atHand \cup {p}
  /\ UNCHANGED <<executed, exhausted, reported, stops>>

(* Mutant: only an error that cannot be retried is reported.               *)
retryCatchUncounted(p, e) ==
  LET m == mapHarborError(e) IN
  /\ doc' = [doc EXCEPT ![p].category = m.category, ![p].retryable = m.retryable]
  /\ exhausted' = IF m.retryable THEN exhausted ELSE exhausted \cup {p}

(* What the customer was told stays as it was.                             *)
retryCatch(p, e) ==
  LET m == mapHarborError(e)
      retryable == doc[p].retries < MaxRetries /\ m.retryable IN
  /\ doc' = [doc EXCEPT ![p].category = m.category, ![p].retryable = retryable]
  /\ exhausted' = IF retryable THEN exhausted ELSE exhausted \cup {p}

retryCalls(p) ==
  /\ p \in atHand
  /\ atHand' = atHand \ {p}
  /\ \E o \in owlPayRequest(p, RetryErrors) :
       /\ Called(p, o)
       /\ IF o.error = "none" THEN Sent(p) /\ UNCHANGED exhausted ELSE retryCatch(p, o.error)
  /\ UNCHANGED <<reported, stops>>

(* Its mail, at the end of the run.                                        *)
reportExhausted ==
  /\ exhausted # {} /\ atHand = {}
  /\ reported' = reported \cup exhausted
  /\ exhausted' = {}
  /\ UNCHANGED <<doc, atHand, executed, stops>>

retryRestart(p) ==
  /\ stops < MaxStops
  /\ p \in atHand /\ exhausted = {}
  /\ doc[p].retries < MaxRetries \/ LastIsLost
  /\ atHand' = {}
  /\ stops' = stops + 1
  /\ UNCHANGED <<doc, executed, exhausted, reported>>

RetryJob == (\E p \in Payout : retryFailed(p) \/ retryCalls(p)) \/ reportExhausted

FailuresNext ==
  \/ \E p \in Payout :
       \/ dispatchHarbor(p) \/ dispatchVita(p) \/ dispatchFallback(p) \/ dispatchThrows(p)
       \/ vitaDenies(p) \/ completes(p) \/ retryRestart(p)
  \/ RetryJob

FailuresSpec == FailuresInit /\ [][FailuresNext]_failureVars

(* The job runs every ten minutes.                                         *)
FailuresFairness == WF_failureVars(RetryJob)

-----------------------------------------------------------------------------
FailuresTypeOK ==
  /\ \A p \in Payout :
       /\ doc[p].status \in {"processing", "failed", "payout_sent", "completed"}
       /\ doc[p].retries \in 0 .. MaxRetries
       /\ doc[p].told \in {"nothing", "correct", "again", "funding", "notified", "elsewhere", "done"}
  /\ atHand \subseteq Payout /\ exhausted \subseteq Payout /\ reported \subseteq Payout
  /\ executed \in [Payout -> 0 .. 1]

(* However often it is tried, by whichever provider, a payout is one       *)
(* transfer.                                                               *)
TransferredOnce == \A p \in Payout : executed[p] <= 1

(* Who was told "we will try again automatically" has his payment sent, or *)
(* an admin is told of it.  Refuted by Vita's "unavailable" and "prices",  *)
(* which no job retries; by a retry that meets another error it may retry  *)
(* ("schema", "noJson"); and by a restart during the last one.             *)
ToldIsTried ==
  \A p \in Payout :
    (doc[p].status = "failed" /\ doc[p].told = "again")
      ~> (doc[p].status # "failed" \/ p \in reported)

(* A payment marked failed was not executed: refuted by a call that timed  *)
(* out (AnswersLost), whose retry Harbor refuses as a duplicate.           *)
FailedIsNotExecuted ==
  \A p \in Payout : doc[p].status = "failed" /\ p \notin atHand => executed[p] = 0

(* "Nuestro equipo ya fue notificado": refuted by "apiKey", "customer",    *)
(* "noJson" and Vita's "login" in a dispatch, after which nobody is.       *)
NotifiedIsTrue ==
  \A p \in Payout : doc[p].status = "failed" /\ doc[p].told = "notified" => p \in reported

(* Every category is in the catalog incidents are classified by: refuted   *)
(* by "inactive", whose category CUSTOMER_NOT_ACTIVE it does not have.     *)
CategoryIsKnown ==
  \A p \in Payout : doc[p].category \in FAILURE_CATALOG \cup {"none", "PAYOUT_FAILED", "VITA_IPN_DENIED"}
=============================================================================
