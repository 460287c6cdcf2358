------------------------------ MODULE Reminders ------------------------------
(***************************************************************************)
(* The mails that remind a user of a verification he left half done.       *)
(*                                                                         *)
(* A run of kycRetryNudge reads the users, takes the first ones it may     *)
(* write to, and for each sends the mail and then writes that it did, with *)
(* the session it had read.  Meanwhile the user opens, abandons or cancels *)
(* sessions and may be verified.  Onboarding has the sessions themselves.  *)
(***************************************************************************)
EXTENDS Integers, FiniteSets

CONSTANTS
  N,           \* users 1 .. N, in the database's order
  MaxSessions, \* bound on the sessions a user opens
  maxAvisos, maxPorCorrida,
  Run,         \* runs that may be under way: the job does not look for another
  MailFails,   \* SendGrid may refuse a mail
  WriteFails,  \* the write after the mail may fail
  Restarts     \* he may cancel a session without opening another

VARIABLES
  user,    \* pending, session (0 for none), fresh: within the hours of grace
  nudge,   \* kycNudge: count, and the session of the last one (Never if none)
  mails,   \* mails delivered for each session
  run      \* what a run has left to do, and the one it has mailed

reminderVars == <<user, nudge, mails, run>>

User == 1 .. N
Sessions == 0 .. MaxSessions
Never == -1
Letter == User \X Sessions
Idle == [todo |-> {}, mailed |-> {}]

RemindersInit ==
  /\ user = [u \in User |-> [pending |-> TRUE, session |-> 0, opened |-> 0, fresh |-> TRUE]]
  /\ nudge = [u \in User |-> [count |-> 0, sessionId |-> Never]]
  /\ mails = [l \in Letter |-> 0]
  /\ run = [r \in Run |-> Idle]

-----------------------------------------------------------------------------
(* The user.  In review is not pending: only an abandoned session is, once *)
(* the sweep has seen it, so opening and abandoning are one step here.     *)
opensAndAbandons(u) ==
  /\ user[u].pending /\ user[u].opened < MaxSessions
  /\ user' = [user EXCEPT ![u] = [pending |-> TRUE, session |-> @.opened + 1,
                                  opened |-> @.opened + 1, fresh |-> TRUE]]
  /\ UNCHANGED <<nudge, mails, run>>

restartKycSession(u) ==
  /\ Restarts
  /\ user[u].pending /\ user[u].session # 0
  /\ user' = [user EXCEPT ![u].session = 0]
  /\ UNCHANGED <<nudge, mails, run>>

isVerified(u) ==
  /\ user[u].pending
  /\ user' = [user EXCEPT ![u].pending = FALSE]
  /\ UNCHANGED <<nudge, mails, run>>

(* graciaMs after the last attempt, or after the account was created.      *)
graceEnds(u) ==
  /\ user[u].fresh
  /\ user' = [user EXCEPT ![u].fresh = FALSE]
  /\ UNCHANGED <<nudge, mails, run>>

-----------------------------------------------------------------------------
(* Mutants: whoever has not had all his mails; whoever has had none.       *)
evaluarInsisting(u) ==
  /\ user[u].pending /\ ~user[u].fresh
  /\ nudge[u].count < maxAvisos

evaluarOnce(u) ==
  /\ user[u].pending /\ ~user[u].fresh
  /\ nudge[u].count = 0

(* Again only if the session is another one than the last mail's.          *)
evaluarUsuario(u) ==
  /\ user[u].pending /\ ~user[u].fresh
  /\ nudge[u].count < maxAvisos
  /\ nudge[u].sessionId # user[u].session

(* The run's list is as it was read: nobody in it is looked at again.      *)
kycRetryNudge(r) ==
  /\ run[r] = Idle
  /\ LET elegibles == {u \in User : evaluarUsuario(u)}
         aEnviar == {u \in elegibles : Cardinality({v \in elegibles : v < u}) < maxPorCorrida} IN
     run' = [run EXCEPT ![r].todo = {<<u, user[u].session>> : u \in aEnviar}]
  /\ UNCHANGED <<user, nudge, mails>>

(* A refused mail is not an exception: it answers false, and nobody looks. *)
sendKycRetryEmail(r, l) ==
  /\ l \in run[r].todo /\ run[r].mailed = {}
  /\ run' = [run EXCEPT ![r] = [todo |-> @.todo \ {l}, mailed |-> {l}]]
  /\ \/ mails' = [mails EXCEPT ![l] = @ + 1]
     \/ MailFails /\ UNCHANGED mails
  /\ UNCHANGED <<user, nudge>>

(* Written for the session that was read, whatever the user's is by now.   *)
recordNudge(r) ==
  \E l \in run[r].mailed :
    /\ run' = [run EXCEPT ![r].mailed = {}]
    /\ \/ nudge' = [nudge EXCEPT ![l[1]] = [count |-> @.count + 1, sessionId |-> l[2]]]
       \/ WriteFails /\ UNCHANGED nudge
    /\ UNCHANGED <<user, mails>>

RunStep(r) ==
  \/ kycRetryNudge(r) \/ recordNudge(r)
  \/ \E l \in Letter : sendKycRetryEmail(r, l)

RemindersNext ==
  \/ \E u \in User :
       opensAndAbandons(u) \/ restartKycSession(u) \/ isVerified(u) \/ graceEnds(u)
  \/ \E r \in Run : RunStep(r)

RemindersSpec == RemindersInit /\ [][RemindersNext]_reminderVars

(* The job comes round with the monitor of incomplete verifications.       *)
RemindersFairness ==
  /\ \A u \in User : WF_reminderVars(graceEnds(u))
  /\ \A r \in Run : WF_reminderVars(RunStep(r))

-----------------------------------------------------------------------------
RemindersTypeOK ==
  /\ \A u \in User :
       /\ user[u].session \in Sessions /\ user[u].opened \in Sessions
       /\ nudge[u].sessionId \in Sessions \cup {Never}
       /\ nudge[u].count \in Nat
  /\ \A r \in Run : run[r].todo \cup run[r].mailed \subseteq Letter

(* A user gets at most one mail for a session, and maxAvisos in all: the   *)
(* second only for another one.  Refuted by two runs and by a write that   *)
(* fails, after which the user is written to in every run.                 *)
RemindedOnce ==
  /\ \A l \in Letter : mails[l] <= 1
  /\ \A u \in User : nudge[u].count <= maxAvisos

(* Nobody whose verification ended is told that it did not: refuted by one *)
(* that ends between the list and the mail.                                *)
RemindedIsPending ==
  [][\A l \in Letter : mails'[l] # mails[l] => user[l[1]].pending]_reminderVars

(* Who stays with a verification half done is told, or has had his mails:  *)
(* the cap of a run passes nobody over.  Refuted by a refused mail.        *)
InterruptedIsReminded ==
  \A u \in User :
    <>[]user[u].pending
      => []<>(mails[<<u, user[u].session>>] > 0 \/ nudge[u].count = maxAvisos)
=============================================================================
