---------------------------- MODULE SecondFactor ----------------------------
(***************************************************************************)
(* An admin's second factor and the lockout both factors share.            *)
(*                                                                         *)
(* Enrolment, verification and reset read the document and update it later;*)
(* what must not happen twice is a condition of the update.                *)
(***************************************************************************)
EXTENDS Integers, FiniteSets, TLAPS

CONSTANTS
  Attempt,       \* requests at work on one account
  Code,          \* the recovery codes of an enrolment
  MaxFailures,   \* AUTH_MAX_FAILED_ATTEMPTS
  MaxCount,      \* bound on the failed attempts
  MaxStep,       \* the time steps: each has one TOTP code
  MaxSecrets,    \* bound on the secrets generated
  Enrolments     \* two requests of an enrolment may be at work at once

VARIABLES
  factor,    \* twoFactor of the User, with its tokenVersion
  counter,   \* failedLoginAttempts and lockedUntil
  attempt,   \* each request: its step, the document it read, the code it brings
  secrets,   \* secrets generated so far
  granted,   \* how often each code gave a session that is valid
  failures   \* failed attempts since the counter was last cleared

factorVars == <<factor, counter, attempt, secrets, granted, failures>>

Factor == [secret : 0 .. MaxSecrets, enabled : BOOLEAN, lastUsedStep : 0 .. MaxStep,
           unused : SUBSET Code, version : Nat]
Counter == [streak : 0 .. MaxCount, locked : {"no", "yes", "past"}]
Brought == (1 .. MaxStep) \cup Code \cup {0}   \* 0: a wrong code
Idle == [step |-> "idle", saw |-> [secret |-> 0, enabled |-> FALSE, lastUsedStep |-> 0,
                                   unused |-> {}, version |-> 0],
         count |-> [streak |-> 0, locked |-> "no"], code |-> 0]

FactorInit ==
  /\ factor = Idle.saw
  /\ counter = Idle.count
  /\ attempt = [q \in Attempt |-> Idle]
  /\ secrets = 0
  /\ granted = [x \in (1 .. MaxSecrets) \X Brought |-> 0]
  /\ failures = 0

-----------------------------------------------------------------------------
(* The lockout.                                                            *)

Ends(q) == attempt' = [attempt EXCEPT ![q] = Idle]

(* Mutant: the streak is the one the request read, plus one.               *)
streakFromRead(q) == attempt[q].count.streak + 1

(* The database increments, and the streak it returns decides.             *)
nextStreak(q) == counter.streak + 1

registerFailedAttempt(q) ==
  /\ counter.streak < MaxCount /\ failures < MaxCount
  /\ failures' = failures + 1
  /\ counter' = [counter EXCEPT !.streak = nextStreak(q)]
  /\ IF nextStreak(q) >= MaxFailures
     THEN attempt' = [attempt EXCEPT ![q] = [Idle EXCEPT !.step = "lock"]]
     ELSE Ends(q)
lockAccount(q) ==
  /\ attempt[q].step = "lock"
  /\ counter' = [counter EXCEPT !.locked = "yes"]
  /\ Ends(q)
  /\ UNCHANGED <<factor, secrets, granted, failures>>
lockExpires ==
  /\ counter.locked = "yes"
  /\ counter' = [counter EXCEPT !.locked = "past"]
  /\ UNCHANGED <<factor, attempt, secrets, granted, failures>>

(* The counter is cleared if the request read one to clear.                *)
registerSuccess(q) ==
  IF attempt[q].count.streak > 0 \/ attempt[q].count.locked # "no"
  THEN counter' = Idle.count /\ failures' = 0
  ELSE UNCHANGED <<counter, failures>>

-----------------------------------------------------------------------------
(* The requests: each reads the document, unless the account is locked.    *)

Reads(q, step, code) ==
  /\ attempt[q].step = "idle"
  /\ counter.locked # "yes"
  /\ attempt' = [attempt EXCEPT ![q] =
       [step |-> step, saw |-> factor, count |-> counter, code |-> code]]
  /\ UNCHANGED <<factor, counter, secrets, granted, failures>>

mayEnrol ==
  /\ ~factor.enabled
  /\ Enrolments \/ \A r \in Attempt : attempt[r].step \notin {"enroll", "confirm"}

enroll(q) == mayEnrol /\ Reads(q, "enroll", 0)
confirm(q, code) ==
  /\ mayEnrol
  /\ factor.secret # 0 /\ code \in 0 .. MaxStep
  /\ Reads(q, "confirm", code)
verify(q, code) == factor.enabled /\ Reads(q, "verify", code)

(* A secret of its own, until it is confirmed of no use.                   *)
beginEnrollment(q) ==
  /\ attempt[q].step = "enroll" /\ secrets < MaxSecrets
  /\ secrets' = secrets + 1
  /\ factor' = [Idle.saw EXCEPT !.secret = secrets', !.version = factor.version]
  /\ Ends(q)
  /\ UNCHANGED <<counter, granted, failures>>

(* A session is issued at the tokenVersion that was read.                  *)
issued(q) == attempt[q].saw.version = factor.version
Use(q) == <<attempt[q].saw.secret, attempt[q].code>>

(* The code that confirms is used up; recovery codes are handed out.       *)
confirmEnrollment(q) ==
  /\ attempt[q].step = "confirm" /\ attempt[q].code # 0
  /\ factor' = [factor EXCEPT !.enabled = TRUE, !.lastUsedStep = attempt[q].code,
                              !.unused = Code]
  /\ granted' = [granted EXCEPT ![Use(q)] = 1]
  /\ registerSuccess(q)
  /\ Ends(q)
  /\ UNCHANGED secrets

(* Mutant: the update has no condition.                                    *)
unusedAsRead(q) ==
  IF attempt[q].code \in Code THEN attempt[q].code \in attempt[q].saw.unused
  ELSE attempt[q].code > attempt[q].saw.lastUsedStep

(* The condition of the update: a later step than the last, a recovery     *)
(* code that is unused (in a list that was emptied none is used).          *)
stillUnused(q) ==
  IF attempt[q].code \in Code
  THEN attempt[q].code \in factor.unused \/ ~factor.enabled
  ELSE attempt[q].code > factor.lastUsedStep

(* verifySecondFactor, consumeRecoveryCode.                                *)
consumeCode(q) ==
  LET code == attempt[q].code
  IN /\ attempt[q].step = "verify"
     /\ code # 0
     /\ code \in Code => code \in attempt[q].saw.unused
     /\ stillUnused(q)
     /\ factor' = IF code \in Code THEN [factor EXCEPT !.unused = @ \ {code}]
                  ELSE [factor EXCEPT !.lastUsedStep = code]
     /\ granted' = IF issued(q) THEN [granted EXCEPT ![Use(q)] = @ + 1] ELSE granted
     /\ registerSuccess(q)
     /\ Ends(q)
     /\ UNCHANGED secrets

(* A wrong code, one used before, or a used recovery code.                 *)
refuseCode(q) ==
  LET a == attempt[q]
  IN /\ \/ a.step \in {"verify", "confirm"} /\ a.code = 0
        \/ a.step = "verify" /\ a.code \in Code \ a.saw.unused
        \/ a.step = "verify" /\ a.code # 0 /\ ~stillUnused(q)
     /\ registerFailedAttempt(q)
     /\ UNCHANGED <<factor, secrets, granted>>

(* No secret, no code used, and the sessions ended.                        *)
resetSecondFactor == [Idle.saw EXCEPT !.version = factor.version + 1]

(* Another admin takes the factor away, with a reason.                     *)
reset ==
  /\ factor.enabled
  /\ secrets < MaxSecrets
  /\ factor' = resetSecondFactor
  /\ UNCHANGED <<counter, attempt, secrets, granted, failures>>

FactorNext ==
  \/ \E q \in Attempt :
       \/ enroll(q)
       \/ \E code \in Brought : confirm(q, code) \/ verify(q, code)
       \/ beginEnrollment(q)
       \/ confirmEnrollment(q)
       \/ consumeCode(q)
       \/ refuseCode(q)
       \/ lockAccount(q)
  \/ lockExpires
  \/ reset

FactorSpec == FactorInit /\ [][FactorNext]_factorVars

-----------------------------------------------------------------------------
FactorTypeOK ==
  /\ factor \in Factor
  /\ counter \in Counter
  /\ \A q \in Attempt : /\ attempt[q].step \in {"idle", "enroll", "confirm", "verify", "lock"}
                        /\ attempt[q].saw \in Factor /\ attempt[q].count \in Counter
                        /\ attempt[q].code \in Brought
  /\ secrets \in 0 .. MaxSecrets /\ failures \in 0 .. MaxCount

(* A code, of the application or for recovery, gives one session, though   *)
(* it is sent twice at a time, around a confirmation or around a reset.    *)
CodeUsedOnce == \A x \in DOMAIN granted : granted[x] <= 1

(* As many failures as the limit, though they come at the same time, lock  *)
(* the account once each has been counted.                                 *)
FailuresLockOut ==
  (failures >= MaxFailures /\ \A q \in Attempt : attempt[q].step # "lock")
     => counter.locked # "no"

-----------------------------------------------------------------------------
(* What the proofs suppose: the bounds are numbers, and no recovery code   *)
(* is one.                                                                 *)
Numbers ==
  /\ MaxStep \in Nat /\ MaxSecrets \in Nat /\ MaxCount \in Nat /\ MaxFailures \in Nat \ {0}
  /\ Code \cap Nat = {}

Requests == [step : {"idle", "enroll", "confirm", "verify", "lock"}, saw : Factor,
             count : Counter, code : Brought]
FactorTypes ==
  /\ factor \in Factor
  /\ counter \in Counter
  /\ attempt \in [Attempt -> Requests]
  /\ secrets \in 0 .. MaxSecrets /\ failures \in 0 .. MaxCount
  /\ granted \in [(1 .. MaxSecrets) \X Brought -> Nat]

(* Where a code has given a session for the secret that is enrolled, the   *)
(* document knows: the code's step is not after the last one used, the     *)
(* recovery code is off the list.                                          *)
Spent(c) == factor.enabled /\ IF c \in Code THEN c \notin factor.unused
                              ELSE c <= factor.lastUsedStep
SpentIsKnown ==
  /\ \A s \in 1 .. MaxSecrets, c \in Brought :
       granted[<<s, c>>] > 0 => s <= secrets /\ (s = factor.secret => Spent(c))
  /\ factor.secret <= secrets
  /\ factor.enabled => factor.secret # 0

(* One request of an enrolment is at work, on the secret of the document;  *)
(* a verification whose session will be valid read the same secret.        *)
OneEnrols ==
  /\ \A q, r \in Attempt : attempt[q].step \in {"enroll", "confirm"}
                             /\ attempt[r].step \in {"enroll", "confirm"} => q = r
  /\ \A q \in Attempt : attempt[q].step \in {"enroll", "confirm"} => ~factor.enabled
ReadIsCurrent ==
  \A q \in Attempt :
    /\ attempt[q].saw.version <= factor.version
    /\ attempt[q].step = "confirm" => /\ attempt[q].saw.secret = factor.secret
                                      /\ factor.secret # 0 /\ attempt[q].code \in 0 .. MaxStep
    /\ attempt[q].step = "verify" /\ attempt[q].saw.version = factor.version
         => factor.enabled /\ attempt[q].saw.secret = factor.secret

SecondInv == /\ FactorTypes /\ SpentIsKnown /\ OneEnrols /\ ReadIsCurrent
             /\ \A s \in 1 .. MaxSecrets, c \in Brought : granted[<<s, c>>] <= 1

(* A request that ends, or is to lock the account, is at no document.      *)
LEMMA IdleTyped ==
  ASSUME Numbers
  PROVE  /\ Idle \in Requests /\ Idle.saw \in Factor /\ Idle.count \in Counter
         /\ [Idle EXCEPT !.step = "lock"] \in Requests
         /\ Idle.saw.version = 0 /\ Idle.saw.secret = 0 /\ Idle.saw.enabled = FALSE
         /\ Idle.step = "idle" /\ [Idle EXCEPT !.step = "lock"].step = "lock"
         /\ [Idle EXCEPT !.step = "lock"].saw = Idle.saw
         /\ Idle.count = [streak |-> 0, locked |-> "no"]
<1>1. /\ Idle.step = "idle" /\ Idle.code = 0
      /\ Idle.saw = [secret |-> 0, enabled |-> FALSE, lastUsedStep |-> 0, unused |-> {}, version |-> 0]
      /\ Idle.count = [streak |-> 0, locked |-> "no"]
  BY DEF Idle
<1>2. Idle.saw \in Factor /\ Idle.count \in Counter
  BY <1>1 DEF Factor, Counter, Numbers
<1>3. Idle = [step |-> "idle", saw |-> Idle.saw, count |-> Idle.count, code |-> 0]
  BY <1>1, Zenon DEF Idle
<1>4. Idle \in Requests
  BY <1>2, <1>3 DEF Requests, Brought
<1>5. PICK i : i = Idle
  OBVIOUS
<1>6. [i EXCEPT !.step = "lock"] \in Requests /\ [i EXCEPT !.step = "lock"].step = "lock"
      /\ [i EXCEPT !.step = "lock"].saw = i.saw
  BY <1>4, <1>5 DEF Requests
<1> QED
  BY <1>1, <1>2, <1>4, <1>5, <1>6

Leaves(q) == \/ Ends(q)
             \/ attempt' = [attempt EXCEPT ![q] = [Idle EXCEPT !.step = "lock"]]

(* Requests that end disturb nothing of what was read.                     *)
LEMMA LeavesKeeps ==
  ASSUME Numbers, FactorTypes, NEW q \in Attempt, Leaves(q)
  PROVE  /\ attempt' \in [Attempt -> Requests]
         /\ \A r \in Attempt : r # q => attempt'[r] = attempt[r]
         /\ attempt'[q].step \notin {"enroll", "confirm", "verify"}
         /\ attempt'[q].saw.version = 0
<1>1. PICK idle \in Requests : /\ attempt' = [attempt EXCEPT ![q] = idle]
                               /\ idle.step \notin {"enroll", "confirm", "verify"}
                               /\ idle.saw.version = 0
  BY IdleTyped DEF Leaves, Ends
<1> QED
  BY <1>1 DEF FactorTypes

(* A step that leaves the document and what was granted.                   *)
LEMMA LeftAlone ==
  ASSUME Numbers, SecondInv, NEW q \in Attempt, Leaves(q),
         UNCHANGED <<factor, secrets, granted>>, counter' \in Counter, failures' \in 0 .. MaxCount
  PROVE  SecondInv'
<1>1. FactorTypes'
  BY LeavesKeeps DEF SecondInv, FactorTypes
<1>2. SpentIsKnown' /\ \A s \in 1 .. MaxSecrets, c \in Brought : granted'[<<s, c>>] <= 1
  BY DEF SecondInv, SpentIsKnown, Spent
<1>3. OneEnrols'
  BY LeavesKeeps DEF SecondInv, OneEnrols
<1>4. ReadIsCurrent'
  BY LeavesKeeps DEF SecondInv, ReadIsCurrent, FactorTypes, Factor
<1> QED
  BY <1>1, <1>2, <1>3, <1>4 DEF SecondInv

(* registerSuccess keeps the counter's type.                               *)
LEMMA SuccessTyped ==
  ASSUME Numbers, FactorTypes, NEW q \in Attempt, registerSuccess(q)
  PROVE  counter' \in Counter /\ failures' \in 0 .. MaxCount
<1>1. /\ counter' = counter \/ counter' \in Counter
      /\ failures' = failures \/ failures' = 0
  BY IdleTyped, Zenon DEF registerSuccess
<1> QED
  BY <1>1 DEF FactorTypes, Numbers

LEMMA FailureTyped ==
  ASSUME Numbers, FactorTypes, NEW q \in Attempt, registerFailedAttempt(q)
  PROVE  counter' \in Counter /\ failures' \in 0 .. MaxCount /\ Leaves(q)
<1>1. PICK n \in 1 .. MaxCount : counter' = [counter EXCEPT !.streak = n]
  <2>1. counter.streak + 1 \in 1 .. MaxCount
    BY DEF FactorTypes, registerFailedAttempt, Numbers, Counter
  <2>2. counter' = [counter EXCEPT !.streak = counter.streak + 1]
    BY Zenon DEF registerFailedAttempt, nextStreak
  <2> QED
    BY <2>1, <2>2
<1>2. counter' \in Counter
  BY <1>1 DEF FactorTypes, Counter
<1>3. failures' \in 0 .. MaxCount
  BY DEF FactorTypes, registerFailedAttempt, Numbers
<1>4. Leaves(q)
  BY Zenon DEF registerFailedAttempt, Leaves
<1> QED
  BY <1>2, <1>3, <1>4

(* A request that reads: the document it read is the one there is.         *)
LEMMA ReadsKeeps ==
  ASSUME Numbers, SecondInv, NEW q \in Attempt, NEW code \in Brought,
         NEW step \in {"enroll", "confirm", "verify"}, Reads(q, step, code),
         step = "verify" => factor.enabled,
         step = "confirm" => factor.secret # 0 /\ code \in 0 .. MaxStep,
         step # "verify" => /\ ~factor.enabled
                            /\ \A r \in Attempt : attempt[r].step \notin {"enroll", "confirm"}
  PROVE  SecondInv'
<1> DEFINE a == [step |-> step, saw |-> factor, count |-> counter, code |-> code]
<1>a. a \in Requests /\ a.step = step /\ a.saw = factor /\ a.code = code
  BY DEF SecondInv, FactorTypes, Requests
<1>b. attempt' = [attempt EXCEPT ![q] = a] /\ UNCHANGED <<factor, counter, secrets, granted, failures>>
  BY DEF Reads
<1> HIDE DEF a
<1>c. /\ attempt'[q] = a /\ attempt' \in [Attempt -> Requests]
      /\ \A r \in Attempt : r # q => attempt'[r] = attempt[r]
  BY <1>a, <1>b DEF SecondInv, FactorTypes
<1>1. FactorTypes'
  BY <1>b, <1>c DEF SecondInv, FactorTypes
<1>2. SpentIsKnown' /\ \A s \in 1 .. MaxSecrets, c \in Brought : granted'[<<s, c>>] <= 1
  BY <1>b DEF SecondInv, SpentIsKnown, Spent
<1>3. OneEnrols'
  BY <1>a, <1>b, <1>c DEF SecondInv, OneEnrols
<1>4. ReadIsCurrent'
  BY <1>a, <1>b, <1>c DEF SecondInv, ReadIsCurrent, FactorTypes, Factor
<1> QED
  BY <1>1, <1>2, <1>3, <1>4 DEF SecondInv

(* A secret nobody has seen.                                               *)
LEMMA EnrolKeeps ==
  ASSUME Numbers, SecondInv, NEW q \in Attempt, beginEnrollment(q)
  PROVE  SecondInv'
<1>s. PICK i : i = Idle.saw
  OBVIOUS
<1>i. i \in Factor /\ i.enabled = FALSE
  BY <1>s, IdleTyped
<1>d. /\ factor' = [i EXCEPT !.secret = secrets + 1, !.version = factor.version]
      /\ secrets' = secrets + 1 /\ secrets < MaxSecrets /\ attempt[q].step = "enroll"
  BY <1>s DEF beginEnrollment
<1>t. factor.version \in Nat /\ secrets + 1 \in 0 .. MaxSecrets
  BY <1>d DEF SecondInv, FactorTypes, Factor, Numbers
<1>f. /\ factor' \in Factor /\ factor'.secret = secrets + 1 /\ factor'.version = factor.version
      /\ factor'.enabled = FALSE /\ ~factor.enabled
  <2>1. ~factor.enabled
    BY <1>d DEF SecondInv, OneEnrols
  <2> QED
    BY <2>1, <1>d, <1>t, <1>i DEF Factor
<1>l. Leaves(q) /\ secrets' = secrets + 1 /\ secrets' \in 0 .. MaxSecrets /\ UNCHANGED <<counter, granted, failures>>
  BY DEF beginEnrollment, Leaves, SecondInv, FactorTypes, Numbers
<1>1. FactorTypes'
  BY <1>f, <1>l, LeavesKeeps DEF SecondInv, FactorTypes
<1>2. SpentIsKnown' /\ \A s \in 1 .. MaxSecrets, c \in Brought : granted'[<<s, c>>] <= 1
  BY <1>f, <1>l DEF SecondInv, SpentIsKnown, FactorTypes
<1>3. OneEnrols'
  BY <1>f, <1>l, LeavesKeeps DEF SecondInv, OneEnrols
<1>4. ReadIsCurrent'
  <2>1. \A r \in Attempt : r # q => attempt[r].step # "confirm"
    BY DEF SecondInv, OneEnrols, beginEnrollment
  <2> QED
    BY <1>f, <1>l, <2>1, LeavesKeeps DEF SecondInv, ReadIsCurrent, FactorTypes, Factor
<1> QED
  BY <1>1, <1>2, <1>3, <1>4 DEF SecondInv

(* The code that confirms is the first of its secret, and used up.         *)
LEMMA ConfirmKeeps ==
  ASSUME Numbers, SecondInv, NEW q \in Attempt, confirmEnrollment(q)
  PROVE  SecondInv'
<1> DEFINE a == attempt[q]
<1>a. /\ a.step = "confirm" /\ a.code \in 1 .. MaxStep
      /\ a.saw.secret = factor.secret /\ factor.secret \in 1 .. MaxSecrets /\ ~factor.enabled
  BY DEF confirmEnrollment, SecondInv, OneEnrols, ReadIsCurrent, FactorTypes, Requests, Factor,
         Numbers
<1>n. PICK code \in 1 .. MaxStep : code = a.code
  BY <1>a
<1>m. PICK s \in 1 .. MaxSecrets : s = factor.secret
  BY <1>a
<1>c. code \in Brought /\ code \notin Code /\ code \in 0 .. MaxStep
  BY DEF Brought, Numbers
<1>z. /\ granted' = [granted EXCEPT ![<<s, code>>] = 1]
      /\ factor' = [factor EXCEPT !.enabled = TRUE, !.lastUsedStep = code, !.unused = Code]
      /\ Leaves(q) /\ registerSuccess(q) /\ secrets' = secrets
  BY <1>a, <1>n, <1>m, Zenon DEF confirmEnrollment, Use, Leaves
<1>f. /\ factor' \in Factor /\ factor'.secret = s /\ factor'.version = factor.version
      /\ factor'.enabled = TRUE /\ factor'.lastUsedStep = code
  BY <1>z, <1>m, <1>c DEF SecondInv, FactorTypes, Factor
<1>g. /\ granted' \in [(1 .. MaxSecrets) \X Brought -> Nat]
      /\ granted'[<<s, code>>] = 1
      /\ \A t \in 1 .. MaxSecrets, c \in Brought :
           <<t, c>> # <<s, code>> => granted'[<<t, c>>] = granted[<<t, c>>]
  BY <1>z, <1>c DEF SecondInv, FactorTypes
<1> HIDE DEF a
<1>1. FactorTypes'
  BY <1>f, <1>g, <1>z, LeavesKeeps, SuccessTyped DEF SecondInv, FactorTypes
<1>o. \A c \in Brought : granted[<<s, c>>] = 0
  BY <1>a, <1>m DEF SecondInv, SpentIsKnown, Spent, FactorTypes
<1>2. SpentIsKnown' /\ \A t \in 1 .. MaxSecrets, c \in Brought : granted'[<<t, c>>] <= 1
  BY <1>o, <1>f, <1>g, <1>z, <1>c, <1>m DEF SecondInv, SpentIsKnown, Spent
<1>3. OneEnrols'
  BY <1>z, <1>a, LeavesKeeps DEF SecondInv, OneEnrols, a
<1>4. ReadIsCurrent'
  BY <1>z, <1>f, <1>m, LeavesKeeps DEF SecondInv, ReadIsCurrent, FactorTypes, Factor
<1> QED
  BY <1>1, <1>2, <1>3, <1>4 DEF SecondInv

(* What the factor is after a code of a verification was used.             *)
LEMMA ConsumeKeeps ==
  ASSUME Numbers, SecondInv, NEW q \in Attempt, consumeCode(q)
  PROVE  SecondInv'
<1>n. PICK code : code = attempt[q].code
  OBVIOUS
<1>a. /\ code \in Brought /\ code # 0 /\ attempt[q].step = "verify"
      /\ IF code \in Code THEN code \in factor.unused \/ ~factor.enabled
         ELSE code > factor.lastUsedStep
  BY <1>n DEF consumeCode, stillUnused, SecondInv, FactorTypes, Requests
<1>z. /\ factor' = IF code \in Code THEN [factor EXCEPT !.unused = @ \ {code}]
                   ELSE [factor EXCEPT !.lastUsedStep = code]
      /\ Leaves(q) /\ registerSuccess(q) /\ secrets' = secrets
  BY <1>n, Zenon DEF consumeCode, Leaves
<1>k. code \notin Code => code \in 0 .. MaxStep /\ code \in Nat
  BY <1>a DEF Brought, Numbers
<1>f. /\ factor' \in Factor /\ factor'.secret = factor.secret /\ factor'.version = factor.version
      /\ factor'.enabled = factor.enabled
      /\ code \in Code => factor'.unused = factor.unused \ {code}
                          /\ factor'.lastUsedStep = factor.lastUsedStep
      /\ code \notin Code => factor'.unused = factor.unused /\ factor'.lastUsedStep = code
  <2>1. CASE code \in Code
    BY <2>1, <1>z DEF SecondInv, FactorTypes, Factor
  <2>2. CASE code \notin Code
    BY <2>2, <1>k, <1>z DEF SecondInv, FactorTypes, Factor
  <2> QED
    BY <2>1, <2>2
<1>s. \A c \in Brought : Spent(c) => Spent(c)'
  BY <1>f, <1>a, <1>k DEF Spent, Brought, Numbers, SecondInv, FactorTypes, Factor
<1>3. OneEnrols'
  BY <1>z, <1>f, LeavesKeeps DEF SecondInv, OneEnrols
<1>4. ReadIsCurrent'
  BY <1>z, <1>f, LeavesKeeps DEF SecondInv, ReadIsCurrent, FactorTypes, Factor
<1>5. CASE granted' = granted
  <2>1. FactorTypes'
    BY <1>5, <1>f, <1>z, LeavesKeeps, SuccessTyped DEF SecondInv, FactorTypes
  <2>2. SpentIsKnown' /\ \A t \in 1 .. MaxSecrets, c \in Brought : granted'[<<t, c>>] <= 1
    BY <1>5, <1>s, <1>f, <1>z DEF SecondInv, SpentIsKnown, Spent
  <2> QED
    BY <2>1, <2>2, <1>3, <1>4 DEF SecondInv
<1>6. CASE issued(q) /\ granted' = [granted EXCEPT ![Use(q)] = @ + 1]
  <2>a. factor.enabled /\ attempt[q].saw.secret = factor.secret /\ factor.secret \in 1 .. MaxSecrets
    BY <1>6, <1>a DEF issued, SecondInv, ReadIsCurrent, FactorTypes, Factor, SpentIsKnown, Numbers
  <2>m. PICK s \in 1 .. MaxSecrets : s = factor.secret
    BY <2>a
  <2>z. granted' = [granted EXCEPT ![<<s, code>>] = @ + 1]
    BY <1>6, <2>a, <2>m, <1>n DEF Use
  <2>g. /\ granted' \in [(1 .. MaxSecrets) \X Brought -> Nat]
        /\ granted'[<<s, code>>] = granted[<<s, code>>] + 1
        /\ \A t \in 1 .. MaxSecrets, c \in Brought :
             <<t, c>> # <<s, code>> => granted'[<<t, c>>] = granted[<<t, c>>]
    BY <2>z, <1>a DEF SecondInv, FactorTypes
  <2>o. granted[<<s, code>>] = 0
    <3>1. ~Spent(code)
      BY <1>a, <1>k, <2>a DEF Spent, SecondInv, FactorTypes, Factor
    <3> QED
      BY <3>1, <2>m, <1>a DEF SecondInv, SpentIsKnown, FactorTypes
  <2>p. Spent(code)'
    BY <1>f, <2>a, <1>k DEF Spent, Factor
  <2>1. FactorTypes'
    BY <1>f, <2>g, <1>z, LeavesKeeps, SuccessTyped DEF SecondInv, FactorTypes
  <2>2. SpentIsKnown'
    <3>1. ASSUME NEW t \in 1 .. MaxSecrets, NEW c \in Brought, granted'[<<t, c>>] > 0
          PROVE  t <= secrets' /\ (t = factor'.secret => Spent(c)')
      <4>1. CASE <<t, c>> = <<s, code>>
        BY <4>1, <2>p, <2>m, <1>z DEF SecondInv, SpentIsKnown
      <4>2. CASE <<t, c>> # <<s, code>>
        BY <4>2, <3>1, <2>g, <1>s, <1>f, <1>z DEF SecondInv, SpentIsKnown
      <4> QED
        BY <4>1, <4>2
    <3> QED
      BY <3>1, <1>f, <1>z DEF SecondInv, SpentIsKnown
  <2>3. \A t \in 1 .. MaxSecrets, c \in Brought : granted'[<<t, c>>] <= 1
    <3>1. ASSUME NEW t \in 1 .. MaxSecrets, NEW c \in Brought
          PROVE  granted'[<<t, c>>] <= 1
      <4>1. CASE <<t, c>> = <<s, code>>
        BY <4>1, <2>g, <2>o
      <4>2. CASE <<t, c>> # <<s, code>>
        BY <4>2, <2>g DEF SecondInv
      <4> QED
        BY <4>1, <4>2
    <3> QED
      BY <3>1
  <2> QED
    BY <2>1, <2>2, <2>3, <1>3, <1>4 DEF SecondInv
<1> QED
  BY <1>5, <1>6 DEF consumeCode

LEMMA ResetKeeps ==
  ASSUME Numbers, SecondInv, reset
  PROVE  SecondInv'
<1>s. PICK i : i = Idle.saw
  OBVIOUS
<1>i. i \in Factor /\ i.enabled = FALSE /\ i.secret = 0
  BY <1>s, IdleTyped
<1>d. /\ factor' = [i EXCEPT !.version = factor.version + 1] /\ factor.enabled
      /\ UNCHANGED <<counter, attempt, secrets, granted, failures>>
  BY <1>s DEF reset, resetSecondFactor
<1>f. /\ factor' \in Factor /\ factor'.secret = 0 /\ factor'.version = factor.version + 1
      /\ factor'.enabled = FALSE
  BY <1>d, <1>i DEF SecondInv, FactorTypes, Factor
<1>1. FactorTypes'
  BY <1>d, <1>f DEF SecondInv, FactorTypes
<1>2. SpentIsKnown' /\ \A s \in 1 .. MaxSecrets, c \in Brought : granted'[<<s, c>>] <= 1
  BY <1>d, <1>f DEF SecondInv, SpentIsKnown, FactorTypes
<1>3. OneEnrols' /\ \A r \in Attempt : attempt[r].step # "confirm"
  BY <1>d, <1>f DEF SecondInv, OneEnrols
<1>4. ReadIsCurrent'
  BY <1>3, <1>d, <1>f DEF SecondInv, ReadIsCurrent, FactorTypes, Requests, Factor
<1> QED
  BY <1>1, <1>2, <1>3, <1>4 DEF SecondInv

LEMMA SecondInvKept ==
  ASSUME Numbers, Enrolments = FALSE, SecondInv, [FactorNext]_factorVars
  PROVE  SecondInv'
<1>t. FactorTypes
  BY DEF SecondInv
<1>1. ASSUME NEW q \in Attempt, enroll(q)
      PROVE  SecondInv'
  BY <1>1, ReadsKeeps DEF enroll, mayEnrol, Brought
<1>2. ASSUME NEW q \in Attempt, NEW code \in Brought, confirm(q, code)
      PROVE  SecondInv'
  BY <1>2, ReadsKeeps DEF confirm, mayEnrol
<1>3. ASSUME NEW q \in Attempt, NEW code \in Brought, verify(q, code)
      PROVE  SecondInv'
  BY <1>3, ReadsKeeps DEF verify
<1>4. ASSUME NEW q \in Attempt, refuseCode(q)
      PROVE  SecondInv'
  BY <1>4, <1>t, FailureTyped, LeftAlone DEF refuseCode
<1>5. ASSUME NEW q \in Attempt, lockAccount(q)
      PROVE  SecondInv'
  <2>1. counter' \in Counter
    BY <1>5, <1>t DEF lockAccount, FactorTypes, Counter
  <2> QED
    BY <1>5, <1>t, <2>1, LeftAlone DEF lockAccount, Leaves, FactorTypes
<1>6. CASE lockExpires
  <2>1. counter' \in Counter
    BY <1>6, <1>t DEF lockExpires, FactorTypes, Counter
  <2> QED
    BY <1>6, <2>1 DEF lockExpires, SecondInv, FactorTypes, SpentIsKnown, Spent, OneEnrols,
                      ReadIsCurrent
<1>7. CASE UNCHANGED factorVars
  BY <1>7 DEF factorVars, SecondInv, FactorTypes, SpentIsKnown, Spent, OneEnrols, ReadIsCurrent
<1> QED
  BY <1>1, <1>2, <1>3, <1>4, <1>5, <1>6, <1>7, EnrolKeeps, ConfirmKeeps, ConsumeKeeps,
     ResetKeeps DEF FactorNext

LEMMA SecondInit == ASSUME Numbers, FactorInit PROVE SecondInv
<1>s. PICK i \in Requests : /\ i.saw \in Factor /\ i.count \in Counter /\ i = Idle
                           /\ i.saw.version = 0 /\ i.saw.secret = 0 /\ i.saw.enabled = FALSE
                           /\ i.step = "idle"
  BY IdleTyped
<1>i. /\ factor = i.saw /\ counter = i.count /\ attempt = [q \in Attempt |-> i]
      /\ secrets = 0 /\ failures = 0
      /\ granted = [x \in (1 .. MaxSecrets) \X Brought |-> 0]
  BY <1>s DEF FactorInit
<1>1. FactorTypes
  BY <1>s, <1>i DEF FactorTypes, Numbers
<1>2. SpentIsKnown /\ \A s \in 1 .. MaxSecrets, c \in Brought : granted[<<s, c>>] <= 1
  BY <1>s, <1>i DEF SpentIsKnown
<1>3. OneEnrols /\ ReadIsCurrent
  BY <1>s, <1>i DEF OneEnrols, ReadIsCurrent
<1> QED
  BY <1>1, <1>2, <1>3 DEF SecondInv

(* For any number of requests, codes and secrets, a code gives one session *)
(* that is valid, though it is sent twice at a time, around a confirmation *)
(* or around a reset, when the requests of an enrolment come one by one.   *)
THEOREM CodesUsedOnce ==
  ASSUME Numbers, Enrolments = FALSE
  PROVE  FactorSpec => []CodeUsedOnce
<1>1. FactorInit => SecondInv
  BY SecondInit
<1>2. SecondInv /\ [FactorNext]_factorVars => SecondInv'
  BY SecondInvKept
<1>3. SecondInv => CodeUsedOnce
  BY DEF SecondInv, FactorTypes, CodeUsedOnce
<1> QED
  BY <1>1, <1>2, <1>3, PTL DEF FactorSpec

-----------------------------------------------------------------------------
(* The lockout: the streak of the document is the number of failures since *)
(* it was last cleared, and whoever reached the limit is at the lock.      *)
StreakCounts ==
  /\ attempt = [q \in Attempt |-> attempt[q]] /\ counter \in Counter
  /\ failures = counter.streak
  /\ (failures >= MaxFailures /\ \A q \in Attempt : attempt[q].step # "lock")
       => counter.locked # "no"

LEMMA OneLeaves ==
  ASSUME attempt = [q \in Attempt |-> attempt[q]], NEW q \in Attempt, NEW v,
         attempt' = [attempt EXCEPT ![q] = v]
  PROVE  /\ attempt' = [r \in Attempt |-> attempt'[r]] /\ attempt'[q] = v
         /\ \A r \in Attempt : r # q => attempt'[r] = attempt[r]
OBVIOUS

LEMMA StreakKept ==
  ASSUME Numbers, StreakCounts, [FactorNext]_factorVars
  PROVE  StreakCounts'
<1>l. ASSUME NEW q \in Attempt, Ends(q), attempt[q].step # "lock",
             \/ UNCHANGED <<counter, failures>>
             \/ counter' = Idle.count /\ failures' = 0
      PROVE  StreakCounts'
  <2>1. /\ attempt' = [r \in Attempt |-> attempt'[r]]
        /\ \A r \in Attempt : r # q => attempt'[r] = attempt[r]
    BY <1>l, OneLeaves DEF Ends, StreakCounts
  <2>2. PICK z \in Counter : z = Idle.count /\ z.streak = 0
    BY IdleTyped
  <2> QED
    BY <1>l, <2>1, <2>2 DEF StreakCounts, Numbers
<1>1. ASSUME NEW q \in Attempt, NEW code \in Brought, NEW step \in {"enroll", "confirm", "verify"},
             Reads(q, step, code)
      PROVE  StreakCounts'
  <2>1. PICK a : a = [step |-> step, saw |-> factor, count |-> counter, code |-> code]
    OBVIOUS
  <2>2. attempt' = [attempt EXCEPT ![q] = a] /\ attempt[q].step = "idle"
        /\ UNCHANGED <<counter, failures>> /\ a.step = step
    BY <1>1, <2>1 DEF Reads
  <2>3. /\ attempt' = [r \in Attempt |-> attempt'[r]] /\ attempt'[q] = a
        /\ \A r \in Attempt : r # q => attempt'[r] = attempt[r]
    BY <2>2, OneLeaves DEF StreakCounts
  <2> QED
    BY <2>2, <2>3 DEF StreakCounts
<1>2. ASSUME NEW q \in Attempt, enroll(q) \/ \E code \in Brought : confirm(q, code) \/ verify(q, code)
      PROVE  StreakCounts'
  BY <1>1, <1>2 DEF enroll, confirm, verify, Brought
<1>3. ASSUME NEW q \in Attempt, beginEnrollment(q) \/ confirmEnrollment(q) \/ consumeCode(q)
      PROVE  StreakCounts'
  BY <1>3, <1>l DEF beginEnrollment, confirmEnrollment, consumeCode, registerSuccess
<1>4. ASSUME NEW q \in Attempt, refuseCode(q)
      PROVE  StreakCounts'
  <2>r. registerFailedAttempt(q)
    BY <1>4 DEF refuseCode
  <2>0. attempt[q].step # "lock"
    BY <1>4 DEF refuseCode
  <2>n. counter.streak + 1 \in Nat /\ counter.streak \in Nat
    BY DEF StreakCounts, Counter, Numbers
  <2>d. /\ counter' = [counter EXCEPT !.streak = counter.streak + 1]
        /\ failures' = failures + 1
        /\ IF counter.streak + 1 >= MaxFailures
           THEN attempt' = [attempt EXCEPT ![q] = [Idle EXCEPT !.step = "lock"]]
           ELSE Ends(q)
    BY <2>r, Zenon DEF registerFailedAttempt, nextStreak
  <2>m. counter.streak + 1 \in 0 .. MaxCount
    BY <2>r, <2>n DEF registerFailedAttempt, Numbers
  <2>e. counter' \in Counter /\ counter'.streak = failures' /\ counter'.locked = counter.locked
    BY <2>d, <2>m DEF StreakCounts, Counter
  <2>1. CASE counter.streak + 1 >= MaxFailures
    <3>1. PICK i : i.step = "lock" /\ attempt' = [attempt EXCEPT ![q] = i]
      BY <2>d, <2>1, IdleTyped
    <3>2. attempt' = [r \in Attempt |-> attempt'[r]] /\ attempt'[q].step = "lock"
      BY <3>1, OneLeaves DEF StreakCounts
    <3> QED
      BY <3>2, <2>e DEF StreakCounts
  <2>2. CASE ~(counter.streak + 1 >= MaxFailures)
    <3>1. attempt' = [r \in Attempt |-> attempt'[r]]
      BY <2>d, <2>2, OneLeaves DEF Ends, StreakCounts
    <3>2. ~(failures' >= MaxFailures)
      BY <2>2, <2>d, <2>n DEF StreakCounts, Numbers
    <3> QED
      BY <3>1, <3>2, <2>e DEF StreakCounts
  <2> QED
    BY <2>1, <2>2
<1>5. ASSUME NEW q \in Attempt, lockAccount(q)
      PROVE  StreakCounts'
  <2>1. counter' \in Counter /\ counter'.streak = counter.streak /\ counter'.locked = "yes"
    BY <1>5 DEF lockAccount, StreakCounts, Counter
  <2>2. attempt' = [r \in Attempt |-> attempt'[r]]
    BY <1>5, OneLeaves DEF lockAccount, Ends, StreakCounts
  <2> QED
    BY <1>5, <2>1, <2>2 DEF lockAccount, StreakCounts
<1>6. CASE lockExpires
  <2>1. counter' \in Counter /\ counter'.streak = counter.streak /\ counter'.locked = "past"
    BY <1>6 DEF lockExpires, StreakCounts, Counter
  <2> QED
    BY <1>6, <2>1 DEF lockExpires, StreakCounts
<1>7. CASE reset \/ UNCHANGED factorVars
  BY <1>7 DEF reset, factorVars, StreakCounts
<1> QED
  BY <1>2, <1>3, <1>4, <1>5, <1>6, <1>7 DEF FactorNext

(* As many failures as the limit lock the account once each of them has    *)
(* been counted, though any number of requests fail at the same time.      *)
THEOREM FailuresAlwaysLock ==
  ASSUME Numbers
  PROVE  FactorSpec => []FailuresLockOut
<1>1. FactorInit => StreakCounts
  <2> SUFFICES ASSUME FactorInit PROVE StreakCounts
    OBVIOUS
  <2>1. counter \in Counter /\ counter.streak = 0 /\ failures = 0
    BY IdleTyped DEF FactorInit
  <2>2. attempt = [q \in Attempt |-> attempt[q]]
    BY DEF FactorInit
  <2> QED
    BY <2>1, <2>2 DEF StreakCounts, Numbers
<1>2. StreakCounts /\ [FactorNext]_factorVars => StreakCounts'
  BY StreakKept
<1>3. StreakCounts => FailuresLockOut
  BY DEF StreakCounts, FailuresLockOut
<1> QED
  BY <1>1, <1>2, <1>3, PTL DEF FactorSpec
=============================================================================
