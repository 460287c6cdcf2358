------------------------------ MODULE Sessions ------------------------------
(***************************************************************************)
(* The sessions of one user: what opens and what ends them, and the guard  *)
(* before every endpoint.                                                  *)
(*                                                                         *)
(* A session is a token with a jti and the tokenVersion it was issued at.  *)
(* protect() lets it in on the word of two caches, of the user's document  *)
(* and of the revoked jtis, that may be TTL old.                           *)
(***************************************************************************)
EXTENDS Integers, FiniteSets

CONSTANTS
  Session,     \* the sessions there may be: a login works on one
  TTL,         \* the lifetime of a cached answer, in ticks
  MaxTime,     \* bound on the clock
  MaxVersion,  \* bound on tokenVersion
  TwoFactor,   \* the login goes through the second factor
  Overlap      \* two changes of credentials may be at work at once

VARIABLES
  account,   \* the User's document: tokenVersion, isActive, activeSessionJti
  login,     \* each session's login: its step and the document it read
  token,     \* the tokenVersion of each session issued, -1 before
  revoked,   \* the RevokedTokens
  reset,     \* a password reset: no link, the link mailed, or the tokenVersion it read
  request,   \* each session's request at protect(): its step and the user it saw
  users,     \* userCache: the entry of the user
  jtis,      \* jtiCache: an entry per session
  now,       \* the clock
  closed,    \* when each session was ended, Never before
  served     \* when each session was last let in, -1 before

sessionVars == <<account, login, token, revoked, reset, request, users, jtis, now,
                 closed, served>>
guardVars == <<request, jtis, served, now>>

Never == MaxTime + 1
NoLink == -2
Mailed == -1
Account == [version : 0 .. MaxVersion, active : BOOLEAN, jti : Session \cup {"none"}]
NoAccount == [version |-> 0, active |-> FALSE, jti |-> "none"]
NoEntry == [at |-> -1 - TTL, version |-> 0, active |-> FALSE]

SessionInit ==
  /\ account = [version |-> 0, active |-> TRUE, jti |-> "none"]
  /\ login = [s \in Session |-> [step |-> "none", saw |-> NoAccount]]
  /\ token = [s \in Session |-> -1]
  /\ revoked = {}
  /\ reset = NoLink
  /\ request = [s \in Session |-> [step |-> "none", saw |-> NoEntry]]
  /\ users = NoEntry
  /\ jtis = [s \in Session |-> [at |-> -1 - TTL, revoked |-> FALSE]]
  /\ now = 0
  /\ closed = [s \in Session |-> Never]
  /\ served = [s \in Session |-> -1]

-----------------------------------------------------------------------------
(* Login.  A login that is refused leaves everything as it is.             *)

Closes(S) ==
  closed' = [s \in Session |-> IF s \in S /\ token[s] >= 0 /\ closed[s] = Never
                               THEN now ELSE closed[s]]

loginUser(s) ==
  /\ login[s].step = "none" /\ token[s] = -1
  /\ account.active
  /\ login' = [login EXCEPT ![s] =
       [step |-> IF account.jti # "none" /\ ~TwoFactor THEN "replace" ELSE "issue",
        saw |-> account]]
  /\ UNCHANGED <<account, token, revoked, reset, users, closed, guardVars>>

(* issueSession: the session it read as the current one is revoked (the    *)
(* second factor does not read it), then the new one takes its place.      *)
revokePrevious(s) ==
  /\ login[s].step = "replace"
  /\ revoked' = revoked \cup {login[s].saw.jti}
  /\ Closes({login[s].saw.jti})
  /\ login' = [login EXCEPT ![s].step = "issue"]
  /\ UNCHANGED <<account, token, reset, users, guardVars>>
issueSession(s) ==
  /\ login[s].step = "issue"
  /\ account' = [account EXCEPT !.jti = s]
  /\ token' = [token EXCEPT ![s] = login[s].saw.version]
  /\ users' = NoEntry
  /\ login' = [login EXCEPT ![s] = [step |-> "none", saw |-> NoAccount]]
  /\ UNCHANGED <<revoked, reset, closed, guardVars>>

-----------------------------------------------------------------------------
(* What ends sessions.                                                     *)

(* Mutant: the new tokenVersion is not one more.                           *)
bumpForgotten(version) == version

(* Every token issued at an earlier version is refused.                    *)
bump(version) == version + 1

(* Only the session it comes from.                                         *)
logoutUser(s) ==
  /\ token[s] >= 0
  /\ revoked' = revoked \cup {s}
  /\ account' = IF account.jti = s THEN [account EXCEPT !.jti = "none"] ELSE account
  /\ users' = NoEntry
  /\ Closes({s})
  /\ UNCHANGED <<login, token, reset, guardVars>>

(* By link: the document is read, and saved with the next tokenVersion.    *)
(* The link is good once, for an hour; another takes its place.            *)
forgotPassword ==
  /\ reset = NoLink
  /\ reset' = Mailed
  /\ UNCHANGED <<account, login, token, revoked, users, closed, guardVars>>
resetReads ==
  /\ reset = Mailed
  /\ account.version < MaxVersion
  /\ reset' = account.version
  /\ UNCHANGED <<account, login, token, revoked, users, closed, guardVars>>
resetPassword ==
  /\ reset >= 0
  /\ account' = [account EXCEPT !.version = bump(reset)]
  /\ users' = NoEntry
  /\ Closes(Session)
  /\ reset' = NoLink
  /\ UNCHANGED <<login, token, revoked, guardVars>>

(* From a session, which gets a new one (n) without revoking the old.      *)
changePassword(s, n) ==
  /\ Overlap \/ reset < 0
  /\ token[s] >= 0 /\ token[n] = -1 /\ login[n].step = "none"
  /\ account.version < MaxVersion
  /\ account' = [account EXCEPT !.version = bump(@)]
  /\ users' = NoEntry
  /\ Closes(Session)
  /\ login' = [login EXCEPT ![n] = [step |-> "issue", saw |-> account']]
  /\ UNCHANGED <<token, revoked, reset, guardVars>>

(* An admin suspends the user, or the user deletes the account.            *)
suspend ==
  /\ Overlap \/ reset < 0
  /\ account.active /\ account.version < MaxVersion
  /\ account' = [account EXCEPT !.active = FALSE, !.version = bump(@)]
  /\ users' = NoEntry
  /\ Closes(Session)
  /\ UNCHANGED <<login, token, revoked, reset, guardVars>>

-----------------------------------------------------------------------------
(* protect().  A request is through before the clock moves.                *)

Fresh(entry) == now - entry.at < TTL

Asks(s, step, saw) == request' = [request EXCEPT ![s] = [step |-> step, saw |-> saw]]
Refuses(s) == Asks(s, "none", NoEntry)

protect(s) ==
  /\ token[s] >= 0 /\ request[s].step = "none"
  /\ IF Fresh(users) THEN Asks(s, "check", users)
     ELSE Asks(s, "cache", [at |-> now, version |-> account.version,
                            active |-> account.active])
  /\ UNCHANGED <<account, login, token, revoked, reset, users, jtis, now, closed, served>>

(* An invalidation in between is undone.                                   *)
setCachedUser(s) ==
  /\ request[s].step = "cache"
  /\ users' = request[s].saw
  /\ Asks(s, "check", request[s].saw)
  /\ UNCHANGED <<account, login, token, revoked, reset, jtis, now, closed, served>>

checkVersion(s) ==
  /\ request[s].step = "check"
  /\ IF request[s].saw.active
     THEN /\ IF request[s].saw.version = token[s] THEN Asks(s, "jti", NoEntry)
             ELSE Refuses(s)
          /\ UNCHANGED users
     ELSE Refuses(s) /\ users' = NoEntry
  /\ UNCHANGED <<account, login, token, revoked, reset, jtis, now, closed, served>>

(* Mutant: "not revoked" is remembered as long as "revoked".               *)
RememberedForever(s) == jtis[s].at >= 0

(* "Revoked" is remembered for good, "not revoked" for TTL.                *)
Remembered(s) == jtis[s].at >= 0 /\ (jtis[s].revoked \/ Fresh(jtis[s]))

tokenRevocado(s) ==
  /\ request[s].step = "jti"
  /\ LET answer == IF Remembered(s) THEN jtis[s].revoked ELSE s \in revoked
     IN /\ jtis' = IF Remembered(s) THEN jtis
                   ELSE [jtis EXCEPT ![s] = [at |-> now, revoked |-> answer]]
        /\ served' = IF answer THEN served ELSE [served EXCEPT ![s] = now]
  /\ Refuses(s)
  /\ UNCHANGED <<account, login, token, revoked, reset, users, now, closed>>

Tick ==
  /\ now < MaxTime
  /\ \A s \in Session : request[s].step = "none"
  /\ now' = now + 1
  /\ UNCHANGED <<account, login, token, revoked, reset, request, users, jtis, closed,
                 served>>

SessionNext ==
  \/ \E s \in Session :
       \/ loginUser(s)
       \/ revokePrevious(s)
       \/ issueSession(s)
       \/ logoutUser(s)
       \/ \E n \in Session : changePassword(s, n)
       \/ protect(s)
       \/ setCachedUser(s)
       \/ checkVersion(s)
       \/ tokenRevocado(s)
  \/ forgotPassword
  \/ resetReads
  \/ resetPassword
  \/ suspend
  \/ Tick

SessionSpec == SessionInit /\ [][SessionNext]_sessionVars

-----------------------------------------------------------------------------
SessionTypeOK ==
  /\ account \in Account
  /\ \A s \in Session :
       /\ login[s].step \in {"none", "replace", "issue"}
       /\ login[s].saw \in Account
       /\ request[s].step \in {"none", "cache", "check", "jti"}
       /\ served[s] \in -1 .. MaxTime
  /\ token \in [Session -> -1 .. MaxVersion]
  /\ revoked \subseteq Session
  /\ reset \in NoLink .. MaxVersion
  /\ closed \in [Session -> 0 .. Never]
  /\ now \in 0 .. MaxTime

(* A session that was closed (logged out, replaced by a login, or ended    *)
(* with all others by a change of password or a suspension) is let in for  *)
(* no longer than a cached answer lives, whatever the order of the cache's *)
(* entries, their invalidations and the requests on their way.             *)
ClosedIsOut == \A s \in Session : served[s] - closed[s] < TTL

(* "Un solo dispositivo (gana el último)": of the sessions issued one is   *)
(* open.  Refuted by a run of its own.                                     *)
SingleSession ==
  \A s, t \in Session :
    (/\ token[s] >= 0 /\ closed[s] = Never
     /\ token[t] >= 0 /\ closed[t] = Never) => s = t
=============================================================================
