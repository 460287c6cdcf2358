------------------------------ MODULE PushTokens ------------------------------
(***************************************************************************)
(* The devices a user's notifications are pushed to.                       *)
(*                                                                         *)
(* An app registers its token in fcmTokens, of which the last few are      *)
(* kept; a push reads them, sends to each, and pulls out those Firebase    *)
(* called invalid.  notify also leaves each notification in the app's      *)
(* list, whatever becomes of its push.                                     *)
(***************************************************************************)
EXTENDS Integers, Sequences, SequencesExt, FiniteSets

CONSTANTS
  Token,       \* Firebase gives a new one to an app that is installed again
  MaxTokens,   \* 5 in the code
  MaxPushes,   \* bound on notifications
  MaxChanges,  \* bound on installations, registrations and unlinkings
  BadPayloads, \* Firebase may refuse the message itself, as an invalid argument
  Deletes      \* the user may delete his account

VARIABLES
  fcmTokens,   \* the user's, oldest first
  version,     \* __v of the user's document
  installed,   \* of a token: "no", "yes", and "gone" for good
  wants,       \* those the user has registered, and has not unlinked
  registering, \* of a token: its request's step and the tokens and version it read
  push,        \* step, the tokens read, those sent to, those called invalid
  inbox,       \* notifications in the app's list
  deletedAt,
  deviceChanges

tokenVars == <<fcmTokens, version, installed, wants, registering, push, inbox, deletedAt,
               deviceChanges>>

Free == [step |-> "idle", read |-> <<>>, version |-> 0]
Quiet == [step |-> "idle", todo |-> {}, stale |-> {}]

TokensInit ==
  /\ fcmTokens = <<>> /\ version = 0
  /\ installed = [d \in Token |-> "no"]
  /\ wants = {}
  /\ registering = [d \in Token |-> Free]
  /\ push = Quiet
  /\ inbox = 0
  /\ deletedAt = FALSE
  /\ deviceChanges = 0

(* $pull: those that are not in out, in the order they have.               *)
Pull(tokens, out) ==
  LET stay == {i \in DOMAIN tokens : tokens[i] \notin out}
      Place(i) == Cardinality({j \in stay : j <= i})
  IN [k \in 1 .. Cardinality(stay) |-> tokens[CHOOSE i \in stay : Place(i) = k]]

Changes == deviceChanges < MaxChanges /\ deviceChanges' = deviceChanges + 1

-----------------------------------------------------------------------------
(* The app: Firebase gives it a token, or forgets it.                      *)
installs(d) ==
  /\ Changes
  /\ installed[d] = "no"
  /\ installed' = [installed EXCEPT ![d] = "yes"]
  /\ UNCHANGED <<fcmTokens, version, wants, registering, push, inbox, deletedAt>>

uninstalls(d) ==
  /\ Changes
  /\ installed[d] = "yes" /\ registering[d] = Free
  /\ installed' = [installed EXCEPT ![d] = "gone"]
  /\ wants' = wants \ {d}
  /\ UNCHANGED <<fcmTokens, version, registering, push, inbox, deletedAt>>

(* The document is read, and saved if its token is not there.              *)
registerReads(d) ==
  /\ Changes
  /\ installed[d] = "yes" /\ ~deletedAt /\ registering[d] = Free
  /\ IF Contains(fcmTokens, d)
     THEN /\ wants' = wants \cup {d}
          /\ UNCHANGED registering
     ELSE /\ registering' = [registering EXCEPT ![d] =
                               [step |-> "saves", read |-> fcmTokens, version |-> version]]
          /\ UNCHANGED wants
  /\ UNCHANGED <<fcmTokens, version, installed, push, inbox, deletedAt>>

(* Mongoose saves a shifted array as a whole, if the version is the one    *)
(* read: a VersionError otherwise, and the client is told 500.             *)
isCurrent(d) == registering[d].version = version

(* The oldest makes room, and one more is pushed.                          *)
registerFcmToken(d) ==
  LET r == registering[d] IN
  /\ r.step = "saves"
  /\ registering' = [registering EXCEPT ![d] = Free]
  /\ IF Len(r.read) < MaxTokens
     THEN /\ fcmTokens' = Append(fcmTokens, d)
          /\ version' = version + 1
          /\ wants' = wants \cup {d}
     ELSE IF isCurrent(d)
     THEN /\ fcmTokens' = Append(Tail(r.read), d)
          /\ version' = version + 1
          /\ wants' = (wants \ {Head(r.read)}) \cup {d}
     ELSE UNCHANGED <<fcmTokens, version, wants>>
  /\ UNCHANGED <<installed, push, inbox, deletedAt, deviceChanges>>

deleteFcmToken(d) ==
  /\ Changes
  /\ d \in wants /\ ~deletedAt /\ registering[d] = Free
  /\ fcmTokens' = Pull(fcmTokens, {d})
  /\ wants' = wants \ {d}
  /\ UNCHANGED <<version, installed, registering, push, inbox, deletedAt>>

(* The list is replaced by an empty one.                                   *)
deleteAccount ==
  /\ Deletes /\ ~deletedAt
  /\ deletedAt' = TRUE
  /\ fcmTokens' = <<>>
  /\ version' = version + 1
  /\ wants' = {}
  /\ UNCHANGED <<installed, registering, push, inbox, deviceChanges>>

-----------------------------------------------------------------------------
(* The list of the app first, then the push, which nobody waits for.       *)
notify ==
  /\ push = Quiet /\ inbox < MaxPushes
  /\ inbox' = inbox + 1
  /\ push' = [push EXCEPT !.step = "reads"]
  /\ UNCHANGED <<fcmTokens, version, installed, wants, registering, deletedAt, deviceChanges>>

pushReads ==
  /\ push.step = "reads"
  /\ push' = IF fcmTokens = <<>> THEN Quiet
             ELSE [step |-> "sends", todo |-> Range(fcmTokens), stale |-> {}]
  /\ UNCHANGED <<fcmTokens, version, installed, wants, registering, inbox, deletedAt,
                 deviceChanges>>

(* What Firebase answers for a token; a transient error is possible.       *)
Answers(d) ==
  {"unavailable"}
    \cup (IF installed[d] = "yes" THEN {"ok"} ELSE {"registration-token-not-registered"})
    \cup (IF BadPayloads THEN {"invalid-argument"} ELSE {})

(* Mutant: whatever was not delivered is called invalid.                   *)
INVALID_TOKEN_ERRORS_Any == {"unavailable", "registration-token-not-registered"}

INVALID_TOKEN_ERRORS ==
  {"registration-token-not-registered", "invalid-registration-token", "invalid-argument"}

pushSends(d) ==
  /\ push.step = "sends" /\ d \in push.todo
  /\ \E answer \in Answers(d) :
       push' = [push EXCEPT !.todo = @ \ {d},
                            !.stale = IF answer \in INVALID_TOKEN_ERRORS THEN @ \cup {d} ELSE @]
  /\ UNCHANGED <<fcmTokens, version, installed, wants, registering, inbox, deletedAt,
                 deviceChanges>>

(* $pull of what was invalid, whatever registered it since.                *)
sendPushNotification ==
  /\ push.step = "sends" /\ push.todo = {}
  /\ fcmTokens' = Pull(fcmTokens, push.stale)
  /\ push' = Quiet
  /\ UNCHANGED <<version, installed, wants, registering, inbox, deletedAt, deviceChanges>>

TokensNext ==
  \/ \E d \in Token :
       \/ installs(d) \/ uninstalls(d)
       \/ registerReads(d) \/ registerFcmToken(d) \/ deleteFcmToken(d) \/ pushSends(d)
  \/ deleteAccount \/ notify \/ pushReads \/ sendPushNotification

TokensSpec == TokensInit /\ [][TokensNext]_tokenVars

-----------------------------------------------------------------------------
TokensTypeOK ==
  /\ installed \in [Token -> {"no", "yes", "gone"}]
  /\ Range(fcmTokens) \subseteq Token /\ wants \subseteq Token
  /\ push.todo \cup push.stale \subseteq Token
  /\ inbox \in 0 .. MaxPushes /\ deviceChanges \in 0 .. MaxChanges

(* A device the user has registered goes on being pushed to, until a newer *)
(* one takes its place.  Refuted by a message Firebase refuses as an       *)
(* invalid argument: every token of the user is pulled.                    *)
RegisteredIsKept == \A d \in wants : Contains(fcmTokens, d)

(* No more than MaxTokens: refuted by two registrations at once, each of   *)
(* which read one less.                                                    *)
TokensAreFew == Len(fcmTokens) <= MaxTokens

(* Nothing is pushed to who deleted his account ("corta el push"): refuted *)
(* by a registration that had read the document before.                    *)
DeletedIsSilent == deletedAt => fcmTokens = <<>>
=============================================================================
