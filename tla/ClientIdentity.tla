--------------------------- MODULE ClientIdentity ---------------------------
(***************************************************************************)
(* One person behind several accounts.  Registration and the compliance    *)
(* profile store search keys of the document and the telephone, and then,  *)
(* fire and forget, look for other accounts with the same keys and tell    *)
(* the administrators, once a day per account and reason.                  *)
(***************************************************************************)
EXTENDS Naturals, FiniteSets

CONSTANTS
  Account,
  Document, Phone,    \* what a person declares
  Corrections,        \* a document or a telephone given before may be replaced
  PhoneElsewhere,     \* the general profile may be where a telephone comes first
  MaxUpdates,         \* bound on the updates of profiles
  MaxRestarts         \* bound on the restarts of the server

Unset == "unset"

VARIABLES
  client,     \* users: the declared values, the search keys, the status
  reviews,    \* revisarClienteDuplicado's under way, with the values that came in
  throttled,  \* adminAlertThrottle's keys within their cooldown
  told,       \* pairs of accounts some alert named
  done        \* updates and restarts so far

identityVars == <<client, reviews, throttled, told, done>>

Client == [status : {"none", "active", "closed"},
           document : Document \cup {Unset}, fingerprint : Document \cup {Unset},
           phone : Phone \cup {Unset}, phoneTail : Phone \cup {Unset}]
NoClient == [status |-> "none", document |-> Unset, fingerprint |-> Unset,
             phone |-> Unset, phoneTail |-> Unset]

Live(a) == client[a].status = "active"
Pair(a, b) == {a, b}

IdentityInit ==
  /\ client = [a \in Account |-> NoClient]
  /\ reviews = {} /\ throttled = {} /\ told = {}
  /\ done = [updates |-> 0, restarts |-> 0]

-----------------------------------------------------------------------------
(* resolveDocumentNumberStorage and phoneTail: a value and its key.  With  *)
(* no key from the KMS the request fails before it stores anything.        *)
WithDocument(c, d) == IF d = Unset THEN c ELSE [c EXCEPT !.document = d, !.fingerprint = d]
WithPhone(c, p) == IF p = Unset THEN c ELSE [c EXCEPT !.phone = p, !.phoneTail = p]

Review(a, d, p) == reviews' = reviews \cup {[of |-> a, document |-> d, phone |-> p]}

Updates ==
  /\ done.updates < MaxUpdates
  /\ done' = [done EXCEPT !.updates = @ + 1]

registerUser(a, d, p) ==
  /\ client[a].status = "none"
  /\ client' = [client EXCEPT ![a] =
                  WithPhone(WithDocument([NoClient EXCEPT !.status = "active"], d), p)]
  /\ Review(a, d, p)
  /\ UNCHANGED <<throttled, told, done>>

(* The telephone is required, in the request or from before.               *)
updateKycProfile(a, d, p) ==
  LET phone == IF p = Unset THEN client[a].phone ELSE p
  IN  /\ Live(a) /\ phone # Unset
      /\ Corrections \/ (d \in {Unset, client[a].document} \/ client[a].document = Unset)
      /\ Corrections \/ p = Unset \/ client[a].phoneTail \in {Unset, p}
      /\ client' = [client EXCEPT ![a] = WithPhone(WithDocument(@, d), p)]
      /\ Review(a, d, phone)
      /\ Updates
      /\ UNCHANGED <<throttled, told>>

(* The general profile: the telephone without its key, and no review.      *)
updateProfile(a, p) ==
  /\ Live(a) /\ p # Unset
  /\ Corrections \/ client[a].phoneTail \in {Unset, p}
  /\ PhoneElsewhere \/ client[a].phoneTail # Unset
  /\ client' = [client EXCEPT ![a].phone = p]
  /\ Updates
  /\ UNCHANGED <<reviews, throttled, told>>

-----------------------------------------------------------------------------
SameDocument(r, b) == r.document # Unset /\ client[b].fingerprint = r.document
SamePhone(r, b) == r.phone # Unset /\ client[b].phoneTail = r.phone

(* Closed accounts count too.                                              *)
buscarCoincidencias(r) ==
  {b \in Account \ {r.of} : client[b].status # "none" /\ (SameDocument(r, b) \/ SamePhone(r, b))}

motivos(r) ==
  {m \in {"documento", "telefono"} :
     \E b \in buscarCoincidencias(r) :
       IF m = "documento" THEN SameDocument(r, b) ELSE SamePhone(r, b)}

(* Mutant: one alert per account a day, whatever the reason.               *)
claveDeCuenta(r) == <<r.of, {}>>

claveDeAlerta(r) == <<r.of, motivos(r)>>

(* The mail names the accounts that share a key: the ten oldest, which are *)
(* all here.                                                               *)
enviarCorreoAdmin(r) == {Pair(r.of, b) : b \in buscarCoincidencias(r)}

revisarClienteDuplicado(r) ==
  /\ r \in reviews
  /\ reviews' = reviews \ {r}
  /\ \/ /\ motivos(r) = {} \/ claveDeAlerta(r) \in throttled
        /\ UNCHANGED <<throttled, told>>
     \/ /\ motivos(r) # {} /\ claveDeAlerta(r) \notin throttled
        /\ throttled' = throttled \cup {claveDeAlerta(r)}
        /\ told' = told \cup enviarCorreoAdmin(r)
  /\ UNCHANGED <<client, done>>

cooldownEnds(k) ==
  /\ k \in throttled
  /\ throttled' = throttled \ {k}
  /\ UNCHANGED <<client, reviews, told, done>>

(* The telephone is removed; its key stays.  Whether its wallets and       *)
(* payments let the user close the account is left open.                   *)
deleteAccount(a) ==
  /\ Live(a)
  /\ client' = [client EXCEPT ![a].status = "closed", ![a].phone = Unset]
  /\ UNCHANGED <<reviews, throttled, told, done>>

-----------------------------------------------------------------------------
(* Reviews under way do not survive the process.                           *)
identityRestart ==
  /\ done.restarts < MaxRestarts
  /\ reviews' = {}
  /\ done' = [done EXCEPT !.restarts = @ + 1]
  /\ UNCHANGED <<client, throttled, told>>

IdentityNext ==
  \/ \E a \in Account, d \in Document \cup {Unset}, p \in Phone \cup {Unset} :
       \/ registerUser(a, d, p) \/ updateKycProfile(a, d, p)
       \/ d = Unset /\ updateProfile(a, p)
  \/ \E r \in reviews : revisarClienteDuplicado(r)
  \/ \E k \in throttled : cooldownEnds(k)
  \/ \E a \in Account : deleteAccount(a)
  \/ identityRestart

IdentitySpec == IdentityInit /\ [][IdentityNext]_identityVars

-----------------------------------------------------------------------------
IdentityTypeOK ==
  /\ client \in [Account -> Client]
  /\ reviews \subseteq [of : Account, document : Document \cup {Unset}, phone : Phone \cup {Unset}]
  /\ told \subseteq SUBSET Account

(* Two accounts stored with the same key of a document or a telephone have *)
(* been named to the administrators together once their reviews are done,  *)
(* whatever the order of the requests and of the reviews, and in spite of  *)
(* the cooldown.  Refuted by PhoneElsewhere: an account without a key of   *)
(* its telephone is alerted about, and in the cooldown that began with it  *)
(* gets the key another account has meanwhile.                             *)
Reviewed(a) == \A r \in reviews : r.of # a
SharesKey(a, b) ==
  \/ client[a].fingerprint # Unset /\ client[a].fingerprint = client[b].fingerprint
  \/ client[a].phoneTail # Unset /\ client[a].phoneTail = client[b].phoneTail
DuplicateIsAlerted ==
  \A a, b \in Account :
    a # b /\ SharesKey(a, b) /\ Reviewed(a) /\ Reviewed(b) => Pair(a, b) \in told

(* The key is that of the telephone, "los dos puntos donde se toma el      *)
(* teléfono: el registro y el perfil de cumplimiento".                     *)
KeyIsCurrent == \A a \in Account : Live(a) => client[a].phoneTail = client[a].phone
=============================================================================
