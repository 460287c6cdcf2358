----------------------------- MODULE HarborRail -----------------------------
(***************************************************************************)
(* What is known of a payout before its money is collected.  The creation  *)
(* of a payment refuses beneficiaries that the payout cannot be built      *)
(* from, and a breaker refuses a whole rail after a payout died because    *)
(* the provider's customer is not active; the dispatch, after the money is *)
(* in, chooses a method among those the provider offers and builds the     *)
(* payout for good.                                                        *)
(***************************************************************************)
EXTENDS Naturals, FiniteSets, Sequences, TLC

CONSTANTS
  Slot,          \* payments at a time
  Country,       \* destinations, a subset of DOMAIN SUPPORTED_METHODS_BY_COUNTRY and "PE"
  ThroughForm,   \* what the form requires is filled in
  Complete,      \* what no check looks at is filled in too
  MethodsChange, \* the provider may offer other methods than the one asked for
  RulesDown,     \* the other provider's rules may be unreadable
  MaxFlips       \* bound on changes of the provider's customer

VARIABLES
  payments,      \* the payment in each slot
  active,        \* the provider's customer is active
  breaker,       \* harbor:customer-inactivo in SystemConfig
  cached,        \* what verificarRielHarbor answered within a minute
  flips

railVars == <<payments, active, breaker, cached, flips>>

Wire == {{"account_holder_name", "name"}, {"bank_name"}, {"account_number"}, {"swift_code"}}
SUPPORTED_METHODS_BY_COUNTRY ==
  [c \in {"CN", "EU", "GB", "NG", "BR", "IN", "MX", "AE", "HK", "JP", "SG", "US"} |->
     CASE c \in {"CN", "EU"} -> <<"WIRE">>
       [] c \in {"NG", "SG"} -> <<"BANK-TRANSFER">>
       [] c = "GB" -> <<"BANK-TRANSFER", "FPS", "WIRE">>
       [] c = "BR" -> <<"PIX">>
       [] c = "IN" -> <<"IMPS">>
       [] c = "MX" -> <<"SPEI">>
       [] c = "AE" -> <<"BANK-TRANSFER", "FTS", "AANI">>
       [] c = "HK" -> <<"CHATS", "WIRE">>
       [] c = "JP" -> <<"BANK-TRANSFER", "WIRE">>
       [] c = "US" -> <<"ACH_PUSH", "DOMESTIC_WIRE", "FEDWIRE", "WIRE">>]
Harbor(c) == c \in DOMAIN SUPPORTED_METHODS_BY_COUNTRY
MethodsOf(c) == IF Harbor(c) THEN {SUPPORTED_METHODS_BY_COUNTRY[c][i] :
                                     i \in DOMAIN SUPPORTED_METHODS_BY_COUNTRY[c]} ELSE {}

(* The fields the form requires.                                           *)
HARBOR_FORM_FIELDS ==
  LET wire == {"account_holder_name", "bank_name", "account_number", "swift_code"} IN
  [CN |-> wire, EU |-> wire, GB |-> wire, HK |-> wire, SG |-> wire, JP |-> wire,
   NG |-> wire \ {"swift_code"}, BR |-> {"br_cpf"}, MX |-> {"mx_clabe"},
   AE |-> (wire \ {"bank_name"}) \cup {"dob", "id_doc"},
   US |-> (wire \ {"swift_code"}) \cup {"routing_number", "address", "state_province"},
   PE |-> {}] @@ ("IN" :> {"bank_code", "account_number"})

(* A payout_instrument: of each set one field, and for a PIX one key only. *)
PixKeys == {"phone_number", "email", "br_pix_evp"}
Instrument(c, method, given) ==
  CASE c \in {"CN", "SG", "JP"} -> Wire
    [] c = "NG" -> Wire \ {{"swift_code"}}
    [] c = "BR" -> {{"br_cpf"}, PixKeys}
    [] c = "MX" -> {{"mx_clabe"}}
    [] c = "HK" -> Wire \cup (IF method = "CHATS" THEN {{"bank_code"}} ELSE {})
    [] c = "IN" -> {{"bank_code"}, {"account_number"}}
    [] c = "EU" -> IF method = "WIRE" THEN Wire ELSE Wire \ {{"bank_name"}}
    [] c = "GB" -> IF method = "WIRE" \/ "swift_code" \in given THEN Wire
                   ELSE {{"account_holder_name", "name"}, {"account_number"}, {"sort_code"}}
    [] c = "US" -> (Wire \ {{"swift_code"}}) \cup {{"routing_number"}}
    [] c = "AE" -> Wire \ {{"bank_name"}}
    [] OTHER -> {}

Gives(b, clauses) == \A clause \in clauses : clause \cap b.given # {}
Format == {"mx_clabe", "routing_number"}

buildPayoutInstrument(c, method, b) ==
  /\ Gives(b, Instrument(c, method, b.given))
  /\ c = "BR" => Cardinality(PixKeys \cap b.given) = 1
  /\ b.bad \cap Format = {}

(* The rest of the payout: the address, and who the beneficiary is.        *)
Person(c) ==
  {{"address"}} \cup
  CASE c = "US" -> {{"state_province"}}
    [] c = "MX" -> {{"dob"}, {"id_doc"}}
    [] c = "IN" -> {{"dob"}, {"id_doc"}, {"email"}, {"phone_number"}}
    [] OTHER -> {}

buildOwlPayBeneficiary(c, method, b) ==
  buildPayoutInstrument(c, method, b) /\ Gives(b, Person(c))

(* The other provider's rules: a choice of a list, a field asked for by    *)
(* the choice made, a name.                                                *)
validateAgainstVitaFields(b) ==
  /\ "pix_key_type" \in b.given => "pix_key_type" \notin b.bad
  /\ "pix_key_type" \in b.given => "pix_key" \in b.given
  /\ "pix_key" \in b.given => "pix_key" \notin b.bad
vitaTakes(b) == {"pix_key_type", "pix_key", "beneficiary_name"} \subseteq b.given /\ b.bad = {}

-----------------------------------------------------------------------------
(* Beneficiaries: the fields the destination knows, some of them wrong.    *)
Fields(c) ==
  UNION Person(c) \cup
  CASE c = "BR" -> {"br_cpf"} \cup PixKeys
    [] c = "HK" -> UNION Wire \cup {"bank_code"}
    [] c = "GB" -> UNION Wire \cup {"sort_code"}
    [] c = "PE" -> {"pix_key_type", "pix_key", "beneficiary_name"}
    [] OTHER -> UNION Instrument(c, "none", {})
Wrong(c) == IF c = "PE" THEN {"pix_key_type", "pix_key"} ELSE Format
Unchecked(c) == IF c = "PE" THEN {"pix_key_type", "beneficiary_name"} ELSE UNION Person(c)

Beneficiaries(c) ==
  {b \in [given : SUBSET Fields(c), bad : SUBSET (Wrong(c) \cap Fields(c))] :
     /\ b.bad \subseteq b.given
     /\ Complete => Unchecked(c) \ PixKeys \subseteq b.given
     /\ Complete /\ c = "IN" => PixKeys \cap Fields(c) \subseteq b.given
     /\ ThroughForm => HARBOR_FORM_FIELDS[c] \cap Fields(c) \subseteq b.given}

NoPayment == [phase |-> "none"]
RailInit ==
  /\ payments = [s \in Slot |-> NoPayment]
  /\ active = TRUE /\ breaker = FALSE /\ cached = "nothing" /\ flips = 0

(* The provider's.                                                         *)
customerChanges ==
  /\ flips < MaxFlips /\ flips' = flips + 1
  /\ active' = ~active
  /\ UNCHANGED <<payments, breaker, cached>>

cacheEnds ==
  /\ cached # "nothing" /\ cached' = "nothing"
  /\ UNCHANGED <<payments, active, breaker, flips>>

(* verificarRielHarbor.                                                    *)

(* Mutant: the stored flag is never read, only what this process knows.    *)
blockedFromMemory == cached = "blocked"
blocked == IF cached # "nothing" THEN cached = "blocked" ELSE breaker

verificarRielHarbor == cached' = IF blocked THEN "blocked" ELSE "ok"

checkBeneficiaryExecutable(c, method, b, readable) ==
  IF Harbor(c) THEN buildPayoutInstrument(c, method, b)
  ELSE readable => validateAgainstVitaFields(b)

(* initCrossBorderPayment: both checks, then the money is asked for and    *)
(* comes in.                                                               *)
initCrossBorderPayment(s, c, method, b) ==
  /\ payments[s].phase \in {"none", "sent", "failed"}
  /\ IF Harbor(c) THEN verificarRielHarbor ELSE UNCHANGED cached
  /\ Harbor(c) => ~blocked
  /\ \E readable \in (IF RulesDown THEN BOOLEAN ELSE {TRUE}) :
       checkBeneficiaryExecutable(c, method, b, readable)
  /\ payments' = [payments EXCEPT ![s] = [phase |-> "collected", country |-> c,
                                          method |-> method, beneficiary |-> b]]
  /\ UNCHANGED <<active, breaker, flips>>

(* A destination of this rail that is not refused but blocked.             *)
initIsBlocked ==
  /\ blocked /\ verificarRielHarbor
  /\ UNCHANGED <<payments, active, breaker, flips>>

-----------------------------------------------------------------------------
(* tryOwlPayV2: the method asked for when it is offered, else the first of *)
(* those that work, else whatever is offered.                              *)

(* Mutant: the best method, whatever was asked for.                        *)
methodIgnored(c, asked, offered) ==
  LET works == SelectSeq(SUPPORTED_METHODS_BY_COUNTRY[c], LAMBDA m : m \in offered) IN
  IF works # <<>> THEN works[1] ELSE CHOOSE m \in offered : TRUE
selectHarborQuote(c, asked, offered) ==
  IF asked \in offered THEN asked
  ELSE LET works == SelectSeq(SUPPORTED_METHODS_BY_COUNTRY[c], LAMBDA m : m \in offered) IN
       IF works # <<>> THEN works[1] ELSE CHOOSE m \in offered : TRUE

Offers(p) ==
  {offered \in SUBSET MethodsOf(p.country) : offered # {} /\ (~MethodsChange => p.method \in offered)}

tryOwlPayV2(s) ==
  LET p == payments[s] IN
  /\ p.phase \in {"collected", "retried"} /\ Harbor(p.country)
  /\ \E offered \in Offers(p) :
       LET built == buildOwlPayBeneficiary(p.country,
                      selectHarborQuote(p.country, p.method, offered), p.beneficiary)
       IN /\ payments' = [payments EXCEPT ![s].phase =
               IF ~built THEN "stuck" ELSE IF active THEN "sent" ELSE "failed"]
          /\ breaker' = IF built THEN ~active ELSE breaker
          /\ cached' = IF built /\ breaker' # breaker THEN "nothing" ELSE cached
  /\ UNCHANGED <<active, flips>>

vitaDispatch(s) ==
  LET p == payments[s] IN
  /\ p.phase = "collected" /\ ~Harbor(p.country)
  /\ payments' = [payments EXCEPT ![s].phase = IF vitaTakes(p.beneficiary) THEN "sent" ELSE "stuck"]
  /\ UNCHANGED <<active, breaker, cached, flips>>

(* An admin sends a failed payment again.                                  *)
adminRetries(s) ==
  /\ payments[s].phase = "failed"
  /\ payments' = [payments EXCEPT ![s].phase = "retried"]
  /\ UNCHANGED <<active, breaker, cached, flips>>

customerAsks(s) ==
  \E c \in Country : \E method \in MethodsOf(c) \cup {"none"}, b \in Beneficiaries(c) :
    /\ MethodsChange \/ ~Harbor(c) \/ method # "none"
    /\ initCrossBorderPayment(s, c, method, b)

RailNext ==
  \/ customerChanges \/ cacheEnds \/ initIsBlocked
  \/ \E s \in Slot :
       tryOwlPayV2(s) \/ vitaDispatch(s) \/ adminRetries(s) \/ customerAsks(s)

(* What was collected is dispatched, and the cache ends; an admin does not *)
(* have to retry.  Customers go on asking for payments.                    *)
RailFairness ==
  /\ \A s \in Slot : WF_railVars(tryOwlPayV2(s) \/ vitaDispatch(s))
  /\ SF_railVars(cacheEnds)
Demand == \A s \in Slot : WF_railVars(customerAsks(s))
RailSpec == RailInit /\ [][RailNext]_railVars /\ RailFairness /\ Demand

-----------------------------------------------------------------------------
RailTypeOK ==
  /\ cached \in {"nothing", "ok", "blocked"} /\ active \in BOOLEAN /\ breaker \in BOOLEAN
  /\ \A s \in Slot : payments[s].phase \in {"none", "collected", "retried", "sent", "failed", "stuck"}

(* "Ejecutabilidad de los DATOS del beneficiario, verificada ANTES de      *)
(* emitir instrucciones de cobro": no payment whose money is in has a      *)
(* payout that cannot be built.                                            *)
CollectedIsPayable == \A s \in Slot : payments[s].phase # "stuck"

(* "A partir de ahí los cobros de ese riel se bloquean": while the breaker *)
(* stays up nothing more of the rail is collected in the end.              *)
OutageStopsPayins ==
  []breaker ~> [](\A s \in Slot : payments[s].phase = "collected" =>
                    ~Harbor(payments[s].country))

(* "Se levanta sola cuando un payout vuelve a salir bien": the breaker     *)
(* does not stay up when the customer is active again.                     *)
RailReopens == <>[]active => <>[]~breaker
=============================================================================
