----------------------------- MODULE Onboarding -----------------------------
(***************************************************************************)
(* A user's identity check at Stripe (KYC).                                *)
(*                                                                         *)
(* The user opens verification sessions; Stripe decides each and tells the *)
(* server by webhooks that it repeats until they are answered.  The app's  *)
(* polling and a sweep of users in review ask Stripe themselves, and the   *)
(* user may restart.  All of them write kycStatus.                         *)
(***************************************************************************)
EXTENDS Integers

CONSTANTS
  MaxSessions,    \* bound on the sessions the user opens
  MaxRetries,     \* bound on the submissions of one session
  Relaunch,       \* an approved user opens another session
  WriteFails,     \* the update after creating a session may fail
  Uploads         \* users upload their documents by hand

VARIABLES
  kyc,        \* kycStatus and stripeVerificationSessionId (0 for null)
  session,    \* the sessions at Stripe, with the submissions made
  events,     \* webhooks not answered: the session and what it became
  resolver,   \* resolveKycFromStripe: its step, the session, what Stripe said
  restart     \* restartKycSession, likewise

onboardingVars == <<kyc, session, events, resolver, restart>>

VerificationSession == 1 .. MaxSessions

(* requires_input is "open" without a last_error, "error" with one, "hard" *)
(* with one of the rejection codes.                                        *)
RequiresInput == {"open", "error", "hard"}
StripeStatus == RequiresInput \cup {"none", "processing", "verified", "canceled"}
Idle == [step |-> "idle", id |-> 0, saw |-> "none"]

OnboardingInit ==
  /\ kyc = [status |-> "pending", id |-> 0]
  /\ session = [s \in VerificationSession |-> [status |-> "none", submitted |-> 0]]
  /\ events = {}
  /\ resolver = Idle
  /\ restart = Idle

-----------------------------------------------------------------------------
(* Stripe and the user there.                                              *)
Becomes(s, status) ==
  /\ session' = [session EXCEPT ![s].status = status]
  /\ events' = events \cup {[id |-> s, status |-> status]}

submits(s) ==
  /\ session[s].status \in RequiresInput
  /\ session[s].submitted < MaxRetries
  /\ session' = [session EXCEPT ![s] = [status |-> "processing", submitted |-> @.submitted + 1]]
  /\ UNCHANGED <<kyc, events, resolver, restart>>

stripeDecides(s) ==
  /\ session[s].status = "processing"
  /\ \E status \in {"verified", "error", "hard"} : Becomes(s, status)
  /\ UNCHANGED <<kyc, resolver, restart>>

(* The session is created at Stripe, then the user is in review by it; the *)
(* route asks for the profile, not for a status.                           *)
createKycSession ==
  /\ Relaunch \/ kyc.status # "approved"
  /\ \E s \in VerificationSession :
       /\ session[s].status = "none"
       /\ \A r \in 1 .. s - 1 : session[r].status # "none"
       /\ session' = [session EXCEPT ![s].status = "open"]
       /\ \/ kyc' = [status |-> "in_review", id |-> s]
          \/ WriteFails /\ UNCHANGED kyc
  /\ UNCHANGED <<events, resolver, restart>>

-----------------------------------------------------------------------------
(* What the webhooks, the resolver and the restart write.                  *)
SetStatus(status) == kyc' = [kyc EXCEPT !.status = status]

(* Mutant: only the user's current session approves.                       *)
approveCurrentOnly(s) == IF kyc.id = s THEN SetStatus("approved") ELSE UNCHANGED kyc

(* A verified session approves, current or not.                            *)
_approveKyc(s) == SetStatus("approved")

(* A failure of another session than the current one is ignored, and one   *)
(* that comes when the user is no longer in review.                        *)
_recoverKyc(s) ==
  IF kyc.id = s /\ kyc.status = "in_review" THEN SetStatus("pending") ELSE UNCHANGED kyc
_rejectKyc(s) ==
  IF kyc.id = s /\ kyc.status # "approved" THEN SetStatus("rejected") ELSE UNCHANGED kyc

(* A handler that fails answers 500 and the event comes again.             *)
handleStripeWebhook(e) ==
  /\ CASE e.status = "verified" -> _approveKyc(e.id)
       [] e.status = "hard" -> _rejectKyc(e.id)
       [] OTHER -> _recoverKyc(e.id)
  /\ events' = events \ {e}
  /\ UNCHANGED <<session, resolver, restart>>

-----------------------------------------------------------------------------
(* The polling and the sweep: read the user, ask Stripe, write.            *)
resolveReads ==
  /\ resolver.step = "idle"
  /\ kyc.status = "in_review"
  /\ kyc.id # 0
  /\ resolver' = [step |-> "asks", id |-> kyc.id, saw |-> "none"]
  /\ UNCHANGED <<kyc, session, events, restart>>

(* Stripe does not answer: until the next poll or sweep.                   *)
resolveAsks ==
  /\ resolver.step = "asks"
  /\ \/ resolver' = [resolver EXCEPT !.step = "writes", !.saw = session[resolver.id].status]
     \/ resolver' = Idle
  /\ UNCHANGED <<kyc, session, events, restart>>

(* Mutant: a session without an error is never given up.                   *)
neverStale == resolver.saw \in {"processing", "open"}

(* An open session is given up when it is old enough, maybe not yet.       *)
(* The write does not ask for the status it read.                          *)
InProgress == resolver.saw = "processing"
resolveKycFromStripe ==
  /\ resolver.step = "writes"
  /\ \/ InProgress /\ UNCHANGED kyc
     \/ /\ ~InProgress
        /\ CASE resolver.saw = "verified" -> _approveKyc(resolver.id)
             [] resolver.saw = "hard" -> SetStatus("rejected")
             [] resolver.saw \in {"error", "open", "canceled"} -> SetStatus("pending")
  /\ resolver' = Idle
  /\ UNCHANGED <<session, events, restart>>

(* A young open session is left in review.                                 *)
resolveTooYoung ==
  /\ resolver.step = "writes"
  /\ resolver.saw = "open"
  /\ resolver' = Idle
  /\ UNCHANGED <<kyc, session, events, restart>>

-----------------------------------------------------------------------------
(* The user restarts: the session is read, asked about and canceled, and   *)
(* the user is pending without one.                                        *)
restartReads ==
  /\ restart.step = "idle"
  /\ kyc.status # "approved"
  /\ restart' = [step |-> IF kyc.id = 0 THEN "writes" ELSE "asks", id |-> kyc.id,
                 saw |-> "none"]
  /\ UNCHANGED <<kyc, session, events, resolver>>

restartAsks ==
  /\ restart.step = "asks"
  /\ LET s == restart.id
     IN \/ /\ session[s].status = "verified"
           /\ _approveKyc(s)
           /\ restart' = Idle
           /\ UNCHANGED <<session, events>>
        \/ /\ session[s].status = "processing"
           /\ restart' = Idle
           /\ UNCHANGED <<kyc, session, events>>
        \/ /\ session[s].status \in RequiresInput
           /\ Becomes(s, "canceled")
           /\ restart' = [restart EXCEPT !.step = "writes"]
           /\ UNCHANGED kyc
        \/ /\ restart' = [restart EXCEPT !.step = "writes"]
           /\ UNCHANGED <<kyc, session, events>>
  /\ UNCHANGED resolver

restartKycSession ==
  /\ restart.step = "writes"
  /\ kyc' = [status |-> "pending", id |-> 0]
  /\ restart' = Idle
  /\ UNCHANGED <<session, events, resolver>>

-----------------------------------------------------------------------------
(* Documents uploaded by hand: whatever the status was, one that no sweep  *)
(* looks for takes its place.                                              *)
processKyc ==
  /\ Uploads
  /\ SetStatus("under_review")
  /\ UNCHANGED <<session, events, resolver, restart>>

OnboardingNext ==
  \/ createKycSession
  \/ \E s \in VerificationSession : submits(s) \/ stripeDecides(s)
  \/ \E e \in events : handleStripeWebhook(e)
  \/ resolveReads
  \/ resolveAsks
  \/ resolveKycFromStripe
  \/ resolveTooYoung
  \/ restartReads
  \/ restartAsks
  \/ restartKycSession
  \/ processKyc

OnboardingSpec == OnboardingInit /\ [][OnboardingNext]_onboardingVars

Events == [id : VerificationSession, status : {"verified", "error", "hard", "canceled"}]

(* Stripe repeats a webhook until it is answered and decides what was      *)
(* submitted; the sweep runs again and again, Stripe answers some of its   *)
(* questions, and a session it finds open is old one day.                  *)
OnboardingFairness ==
  /\ WF_onboardingVars(\E e \in events : handleStripeWebhook(e))
  /\ \A s \in VerificationSession : WF_onboardingVars(stripeDecides(s))
  /\ WF_onboardingVars(resolveReads)
  /\ SF_onboardingVars(resolveAsks /\ resolver'.step = "writes")
  /\ WF_onboardingVars(resolveAsks)
  /\ SF_onboardingVars(resolveKycFromStripe)

-----------------------------------------------------------------------------
OnboardingTypeOK ==
  /\ kyc \in [status : {"pending", "in_review", "approved", "rejected", "under_review"},
             id : 0 .. MaxSessions]
  /\ session \in [VerificationSession -> [status : StripeStatus, submitted : 0 .. MaxRetries]]
  /\ events \subseteq Events
  /\ {resolver, restart} \subseteq [step : {"idle", "asks", "writes"}, id : 0 .. MaxSessions,
                                    saw : StripeStatus]

(* An identity Stripe reports verified is approved, also when the user has opened  *)
(* another session since, or the session was never stored.                 *)
VerifiedIsApproved ==
  \A s \in VerificationSession :
    [id |-> s, status |-> "verified"] \in events ~> kyc.status = "approved"

(* Nobody stays in review: a session left, canceled or decided whose       *)
(* webhook found another status is given up by the sweep.                  *)
ReviewEnds == kyc.status = "in_review" ~> kyc.status # "in_review"

(* An approved user stays approved (stripeWebhook: a late rejection never  *)
(* takes an identity back): refuted, see the README.                       *)
ApprovedIsKept == [][kyc.status = "approved" => kyc'.status = "approved"]_onboardingVars
=============================================================================
