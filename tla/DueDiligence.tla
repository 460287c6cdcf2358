---- MODULE DueDiligence ----
(* What compliance officers decide about one customer: the business account       *)
(* (kybController: the application, its documents, the reviews) and the enhanced   *)
(* due diligence of an exposed person (declararPep, clasificarPep, resolverEdd).   *)
(* Every handler reads, then saves the BusinessProfile, then updates the User;     *)
(* other handlers run in between and the server may stop.                          *)
EXTENDS Naturals

CONSTANTS
    Handler,      \* requests in progress at once
    MaxProfiles,  \* bound on the applications
    MaxReviews,   \* bound on the reviews and uploads
    Incomplete    \* whether the customer may apply with fields or documents missing

VARIABLES
    profile,      \* the BusinessProfile document, at most one per user: its id and kybStatus
    user,         \* kybStatus, accountType, businessProfileId
    handler,      \* requests in progress
    count,        \* profiles created and reviews made so far
    edd           \* PEP declaration, list match, eddStatus, and what a handler is to write

diligenceVars == <<profile, user, handler, count, edd>>

KybStatus == {"not_started", "pending", "under_review", "approved", "rejected", "more_info"}
EddStatus == {"not_required", "pending", "approved", "rejected"}
NoProfile == [id |-> 0, kybStatus |-> "not_started"]
NoWork == [op |-> "none", id |-> 0, kybStatus |-> "not_started"]
Ops == {"none", "apply", "applied", "save", "update"}

DiligenceTypeOK ==
    /\ profile \in [id : 0 .. MaxProfiles, kybStatus : KybStatus]
    /\ user \in [kybStatus : KybStatus, accountType : {"personal", "business"},
                 businessProfileId : 0 .. MaxProfiles]
    /\ handler \in [Handler -> [op : Ops, id : 0 .. MaxProfiles, kybStatus : KybStatus]]
    /\ count \in [profiles : 0 .. MaxProfiles, reviews : 0 .. MaxReviews]
    /\ edd \in [declared : {"null", "yes", "no"}, status : EddStatus,
                asked : {"none", "keep", "hit", "miss", "approved", "rejected"}]

DiligenceInit ==
    /\ profile = NoProfile
    /\ user = [kybStatus |-> "not_started", accountType |-> "personal", businessProfileId |-> 0]
    /\ handler = [h \in Handler |-> NoWork]
    /\ count = [profiles |-> 0, reviews |-> 0]
    /\ edd = [declared |-> "null", status |-> "not_required", asked |-> "none"]

-----------------------------------------------------------------------------
(* Business accounts                                                              *)

\* applyKYB looks for the customer's profile: none, or a rejected one.
applyKYB(h) ==
    /\ handler[h].op = "none" /\ count.profiles < MaxProfiles
    /\ profile.id = 0 \/ profile.kybStatus = "rejected"
    /\ handler' = [handler EXCEPT ![h] = [op |-> "apply", id |-> profile.id,
                                          kybStatus |-> "pending"]]
    /\ UNCHANGED <<profile, user, count, edd>>

\* It deletes the rejected profile it found, whatever that is by now, and only then
\* looks at the fields: an incomplete application ends here. A second profile of the
\* user is refused by the unique index.
applyValidates(h) ==
    /\ handler[h].op = "apply"
    /\ LET left == IF handler[h].id # 0 /\ profile.id = handler[h].id THEN NoProfile ELSE profile IN
       \/ /\ Incomplete \/ left.id # 0
          /\ profile' = left
          /\ handler' = [handler EXCEPT ![h] = NoWork]
          /\ UNCHANGED <<user, count, edd>>
       \/ /\ left.id = 0 /\ count.profiles < MaxProfiles
          /\ count' = [count EXCEPT !.profiles = @ + 1]
          /\ profile' = [id |-> count.profiles + 1, kybStatus |-> "pending"]
          /\ handler' = [handler EXCEPT ![h] = [op |-> "applied", id |-> count.profiles + 1,
                                                kybStatus |-> "pending"]]
          /\ UNCHANGED <<user, edd>>

applyUpdatesUser(h) ==
    /\ handler[h].op = "applied"
    /\ user' = [user EXCEPT !.kybStatus = "pending", !.businessProfileId = handler[h].id]
    /\ handler' = [handler EXCEPT ![h] = NoWork]
    /\ UNCHANGED <<profile, count, edd>>

\* uploadKYBDocuments: more documents, when an officer asked for them.
uploadKYBDocuments(h) ==
    /\ handler[h].op = "none" /\ count.reviews < MaxReviews
    /\ profile.id # 0 /\ user.businessProfileId = profile.id /\ profile.kybStatus = "more_info"
    /\ handler' = [handler EXCEPT ![h] = [op |-> "save", id |-> profile.id, kybStatus |-> "pending"]]
    /\ count' = [count EXCEPT !.reviews = @ + 1]
    /\ UNCHANGED <<profile, user, edd>>

\* reviewKYBApplication: an officer's decision, whatever the profile's status.
reviewKYBApplication(h) ==
    /\ handler[h].op = "none" /\ count.reviews < MaxReviews /\ profile.id # 0
    /\ \E s \in {"approved", "rejected", "more_info", "under_review"} :
          handler' = [handler EXCEPT ![h] = [op |-> "save", id |-> profile.id, kybStatus |-> s]]
    /\ count' = [count EXCEPT !.reviews = @ + 1]
    /\ UNCHANGED <<profile, user, edd>>

\* profile.save(): a profile deleted meanwhile is an error, nothing more is written.
saveProfile(h) ==
    /\ handler[h].op = "save"
    /\ IF profile.id = handler[h].id
       THEN /\ profile' = [profile EXCEPT !.kybStatus = handler[h].kybStatus]
            /\ handler' = [handler EXCEPT ![h].op = "update"]
       ELSE handler' = [handler EXCEPT ![h] = NoWork] /\ UNCHANGED profile
    /\ UNCHANGED <<user, count, edd>>

\* Mutant: a rejected business goes back to a type the schema does not have.
typeForIndividual(status) == IF status = "approved" THEN "business"
                             ELSE IF status = "rejected" THEN "individual" ELSE user.accountType
typeFor(status) == IF status = "approved" THEN "business"
                   ELSE IF status = "rejected" THEN "personal" ELSE user.accountType

updateUser(h) ==
    /\ handler[h].op = "update"
    /\ user' = [user EXCEPT !.kybStatus = handler[h].kybStatus,
                            !.accountType = typeFor(handler[h].kybStatus)]
    /\ handler' = [handler EXCEPT ![h] = NoWork]
    /\ UNCHANGED <<profile, count, edd>>

\* The server stops: what was saved stays, the rest of the request is lost.
diligenceStops ==
    /\ \E h \in Handler : handler[h].op \in {"applied", "update"}
    /\ count.reviews < MaxReviews
    /\ count' = [count EXCEPT !.reviews = @ + 1]
    /\ handler' = [h \in Handler |-> NoWork]
    /\ UNCHANGED <<profile, user, edd>>

\* checkBusinessKYB: who may use the business services.
checkBusinessKYB == user.accountType = "business" /\ user.kybStatus = "approved"

-----------------------------------------------------------------------------
(* Enhanced due diligence                                                         *)

\* clasificarRiesgo: a declared or listed exposed person has to be reviewed.
clasificarRiesgo(declared, hit) ==
    IF declared = "yes" \/ hit THEN "pending" ELSE "not_required"

\* declararPep writes the status that follows from the declaration alone.
declararPep(d) ==
    /\ edd' = [edd EXCEPT !.declared = d, !.status = clasificarRiesgo(d, FALSE)]
    /\ UNCHANGED <<profile, user, handler, count>>

\* clasificarPep searches the list of exposed persons and reads the user; a decision
\* of the officer (yaResuelto) is kept.
clasificarPep ==
    /\ edd.asked = "none"
    /\ \E w \in (IF edd.status \in {"approved", "rejected"} THEN {"keep"} ELSE {"hit", "miss"}) :
          edd' = [edd EXCEPT !.asked = w]
    /\ UNCHANGED <<profile, user, handler, count>>

\* resolverEdd reads the status: only what is pending is decided.
resolverEdd ==
    /\ edd.asked = "none" /\ edd.status = "pending"
    /\ \E d \in {"approved", "rejected"} : edd' = [edd EXCEPT !.asked = d]
    /\ UNCHANGED <<profile, user, handler, count>>

\* Both then write what follows from what they read.
writesEdd ==
    /\ edd.asked # "none"
    /\ edd' = [edd EXCEPT !.asked = "none",
                 !.status = CASE edd.asked \in {"approved", "rejected"} -> edd.asked
                              [] edd.asked = "keep" -> edd.status
                              [] OTHER -> clasificarRiesgo(edd.declared, edd.asked = "hit")]
    /\ UNCHANGED <<profile, user, handler, count>>

DiligenceNext ==
    \/ \E h \in Handler :
          applyKYB(h) \/ applyValidates(h) \/ applyUpdatesUser(h) \/ uploadKYBDocuments(h)
          \/ reviewKYBApplication(h) \/ saveProfile(h) \/ updateUser(h)
    \/ diligenceStops
    \/ (\E d \in {"yes", "no"} : declararPep(d)) \/ clasificarPep \/ resolverEdd \/ writesEdd

DiligenceSpec == DiligenceInit /\ [][DiligenceNext]_diligenceVars

-----------------------------------------------------------------------------
\* Sincronizado con BusinessProfile.kybStatus (models/User.js kybStatus): with no
\* request in progress the user has the status of the profile it refers to.
StatusesAgree ==
    (\A h \in Handler : handler[h].op = "none") => user.kybStatus = profile.kybStatus

\* A decision of the compliance officer is not undone by a classification: nunca se
\* baja un estado ya resuelto por un humano (kycController clasificarPep).
DecisionStands ==
    [][edd.status \in {"approved", "rejected"} => edd'.status \in {"approved", "rejected"}]_diligenceVars
====
