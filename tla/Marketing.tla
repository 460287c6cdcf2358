----------------------------- MODULE Marketing -----------------------------
(***************************************************************************)
(* The marketing agent: a model writes a piece, the classifier decides     *)
(* whether it needs a human, admins approve or reject it, and an approved  *)
(* piece is published on its network, whose API knows no idempotency key.  *)
(***************************************************************************)
EXTENDS Naturals, FiniteSets

CONSTANTS
  Piece, Admin,
  Signals,          \* what the classifier looks for
  Forbidden,        \* signals that no context allows, the sooner and the later lists
  Carousels,        \* the model may write carousels
  UnlocksInFlight,  \* an admin may look at the network while a call is in flight
  ServerErrors,     \* the network may answer 5xx to a post it did publish
  MaxCrashes        \* bound on restarts

VARIABLES
  pieces,     \* the ContentPiece documents; {} or the piece
  posts,      \* posts that are out on the network, per piece
  calls,      \* what each admin's request is doing
  lists,      \* the lists of prohibitions this deployment has
  stops

marketingVars == <<pieces, posts, calls, lists, stops>>

Idle == [phase |-> "idle", piece |-> "none"]
PUBLICABLES == {"aprobado", "autopublicado"}

(* verificarProhibiciones and clasificarRiesgo: one signal is enough.      *)
prohibited(signals) == signals \cap lists # {}
clasificarRiesgo(signals) == IF signals = {} THEN "bajo" ELSE "alto"

(* What the model writes is refused unless a carousel has from two to ten  *)
(* slides and a post none.                                                 *)
wellFormed(formato, n) == IF formato = "carrusel" THEN n \in 2..10 ELSE n = 0
generarContenido ==
  {g \in [signals : SUBSET Signals, formato : {"post", "carrusel"}, slides : {0, 1, 2}] :
     wellFormed(g.formato, g.slides) /\ (g.formato = "carrusel" => Carousels)}

Unresolved(p) == pieces[p].enCurso

MarketingInit ==
  /\ pieces = [p \in Piece |-> [estado |-> "none", formato |-> "post", signals |-> {},
                                 enCurso |-> FALSE, postId |-> FALSE, by |-> "nobody"]]
  /\ posts = [p \in Piece |-> 0]
  /\ calls = [a \in Admin |-> Idle]
  /\ lists \in Forbidden
  /\ stops = 0

(* procesarPieza: what the model says of its own risk decides nothing.     *)
procesarPieza(p, g) ==
  /\ pieces[p].estado = "none"
  /\ pieces' = [pieces EXCEPT
       ![p].estado = IF clasificarRiesgo(g.signals) = "bajo" THEN "autopublicado"
                     ELSE "pendiente_aprobacion",
       ![p].signals = g.signals, ![p].formato = g.formato]
  /\ UNCHANGED <<posts, calls, lists, stops>>

aprobar(p) ==
  /\ pieces[p].estado = "pendiente_aprobacion"
  /\ ~prohibited(pieces[p].signals)
  /\ pieces' = [pieces EXCEPT ![p].estado = "aprobado", ![p].by = "human"]
  /\ UNCHANGED <<posts, calls, lists, stops>>

rechazar(p) ==
  /\ pieces[p].estado = "pendiente_aprobacion"
  /\ pieces' = [pieces EXCEPT ![p].estado = "rechazado", ![p].by = "human"]
  /\ UNCHANGED <<posts, calls, lists, stops>>

-----------------------------------------------------------------------------
(* publicarPieza: the checks on what was read, then the claim.             *)
Publishable(p) ==
  pieces[p].estado \in PUBLICABLES /\ ~pieces[p].postId /\ ~pieces[p].enCurso

publishReads(a, p) ==
  /\ calls[a] = Idle
  /\ Publishable(p) /\ ~prohibited(pieces[p].signals)
  /\ calls' = [calls EXCEPT ![a] = [phase |-> "read", piece |-> p]]
  /\ UNCHANGED <<pieces, posts, lists, stops>>

(* Mutant: the claim trusts the checks made on what was read.              *)
claimedAsRead(p) == TRUE
claimed(p) == Publishable(p)

publishClaims(a) ==
  LET p == calls[a].piece IN
  /\ calls[a].phase = "read"
  /\ IF claimed(p)
     THEN /\ pieces' = [pieces EXCEPT ![p].enCurso = TRUE]
          /\ calls' = [calls EXCEPT ![a].phase = "claimed"]
     ELSE /\ calls' = [calls EXCEPT ![a] = Idle]
          /\ UNCHANGED pieces
  /\ UNCHANGED <<posts, lists, stops>>

(* The network: the post is out or it is not, and the answer says so, says *)
(* nothing (lost, or without an id) or refuses.                            *)
Outcomes ==
  {[out |-> TRUE, answer |-> "posted"], [out |-> TRUE, answer |-> "nothing"],
   [out |-> FALSE, answer |-> "nothing"], [out |-> FALSE, answer |-> "refused"]}
    \cup (IF ServerErrors THEN {[out |-> TRUE, answer |-> "refused"]} ELSE {})

publicar(a) ==
  /\ calls[a].phase = "claimed"
  /\ \E o \in Outcomes :
       /\ posts' = [posts EXCEPT ![calls[a].piece] = @ + IF o.out THEN 1 ELSE 0]
       /\ calls' = [calls EXCEPT ![a].phase = o.answer]
  /\ UNCHANGED <<pieces, lists, stops>>

publishEnds(a) ==
  LET p == calls[a].piece IN
  /\ calls[a].phase \in {"posted", "nothing", "refused"}
  /\ pieces' = IF calls[a].phase = "posted"
               THEN [pieces EXCEPT ![p].estado = "publicado", ![p].postId = TRUE, ![p].enCurso = FALSE]
               ELSE [pieces EXCEPT ![p].enCurso = calls[a].phase = "nothing"]
  /\ calls' = [calls EXCEPT ![a] = Idle]
  /\ UNCHANGED <<posts, lists, stops>>

(* destrabarPieza: the admin has looked and found no post.                 *)
destrabarReads(a, p) ==
  /\ calls[a] = Idle
  /\ ~pieces[p].postId /\ Unresolved(p)
  /\ posts[p] = 0
  /\ UnlocksInFlight \/ \A b \in Admin : calls[b].piece # p
  /\ calls' = [calls EXCEPT ![a] = [phase |-> "unlocks", piece |-> p]]
  /\ UNCHANGED <<pieces, posts, lists, stops>>

destrabarPieza(a) ==
  /\ calls[a].phase = "unlocks"
  /\ pieces' = [pieces EXCEPT ![calls[a].piece].enCurso = FALSE]
  /\ calls' = [calls EXCEPT ![a] = Idle]
  /\ UNCHANGED <<posts, lists, stops>>

(* The requests that were running are gone, and the deployment that starts *)
(* may forbid more.                                                        *)
restart ==
  /\ stops < MaxCrashes /\ stops' = stops + 1
  /\ calls' = [a \in Admin |-> Idle]
  /\ \E later \in Forbidden : lists \subseteq later /\ lists' = later
  /\ UNCHANGED <<pieces, posts>>

MarketingNext ==
  \/ restart
  \/ \E p \in Piece :
       \/ aprobar(p) \/ rechazar(p)
       \/ \E g \in generarContenido : procesarPieza(p, g)
  \/ \E a \in Admin :
       \/ publishClaims(a) \/ publicar(a) \/ publishEnds(a) \/ destrabarPieza(a)
       \/ \E p \in Piece : publishReads(a, p) \/ destrabarReads(a, p)

MarketingSpec == MarketingInit /\ [][MarketingNext]_marketingVars

-----------------------------------------------------------------------------
MarketingTypeOK ==
  /\ \A p \in Piece :
       /\ pieces[p].estado \in {"none", "pendiente_aprobacion", "aprobado", "rechazado",
                                "publicado", "autopublicado"}
       /\ pieces[p].signals \subseteq Signals
  /\ posts \in [Piece -> Nat] /\ lists \in Forbidden
  /\ \A a \in Admin : calls[a].phase \in {"idle", "read", "claimed", "posted", "nothing",
                                          "refused", "unlocks"}

(* "Publicar dos veces es tan grave como aprobar dos veces": no piece is   *)
(* posted twice, whoever publishes and whatever answers get lost.          *)
PostedOnce == \A p \in Piece : posts[p] <= 1

(* What is out was approved by a human or carries no signal at all.        *)
RiskIsDecided ==
  \A p \in Piece : posts[p] > 0 => pieces[p].by = "human" \/ pieces[p].signals = {}

(* "Un carrusel no es un post con más campos": it is not posted as text.   *)
CarouselIsNotText == \A p \in Piece : pieces[p].formato = "carrusel" => posts[p] = 0
=============================================================================
