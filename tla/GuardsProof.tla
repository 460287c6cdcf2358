----------------------------- MODULE GuardsProof -----------------------------
(***************************************************************************)
(* What the parts that stand guard promise, for any requests, users,       *)
(* sessions, documents, payments and bounds.  Each part has its inductive  *)
(* invariant and its lemma of preservation; the composition has a step of  *)
(* a part or a stutter for each of its steps.                              *)
(***************************************************************************)
EXTENDS Guards, Sequences, TLAPS, FiniteSetTheorems

(* A step of the composition is, to each part, its own step or none.       *)
LEMMA StepOfParts ==
  ASSUME [Next]_vars
  PROVE  /\ [Idempotency!IdempotencyNext]_idempotencyVars
         /\ [Sessions!SessionNext]_sessionVars
         /\ [SecondFactor!FactorNext]_factorVars
         /\ [Receipts!ReceiptNext]_receiptVars
         /\ [Anchor!AnchorNext]_anchorVars
         /\ [Refunds!CashNext]_cashVars
         /\ [Marketing!MarketingNext]_marketingVars
         /\ [Custody!CustodyNext]_custodyVars
         /\ [PushTokens!TokensNext]_tokenVars
         /\ [ClientIdentity!IdentityNext]_identityVars
         /\ [Limits!LimitsNext]_limitVars
         /\ [Treasury!TreasuryNext]_treasuryVars
         /\ [DueDiligence!DiligenceNext]_diligenceVars
BY DEF Next, Moves, vars

-----------------------------------------------------------------------------
(* The anchor: a deposit that was credited is no longer an instruction     *)
(* that waits, and only one that waits is closed.                          *)
Settled(order) == order.trace => order.status \notin Anchor!SEP24_PENDING_STATUSES \cup {"cancelled"}

AnchorInv ==
  /\ orders \in [Anchor!Order -> [kind : Anchor!Kind \cup {"none"}, status : Anchor!Status,
                                  expired : BOOLEAN, trace : BOOLEAN]]
  /\ \A o \in Anchor!Order : Settled(orders[o])

USE DEF Anchor!Waiting, Anchor!SEP24_PENDING_STATUSES

(* What setting the status of an instruction does.                         *)
LEMMA AnchorBecomes ==
  ASSUME AnchorInv, NEW o \in Anchor!Order, NEW s \in Anchor!Status, Anchor!Becomes(o, s),
         orders[o].trace => s \notin Anchor!SEP24_PENDING_STATUSES \cup {"cancelled"}
  PROVE  AnchorInv'
<1>1. orders[o] \in [kind : Anchor!Kind \cup {"none"}, status : Anchor!Status,
                     expired : BOOLEAN, trace : BOOLEAN]
  BY DEF AnchorInv
<1>2. [orders[o] EXCEPT !.status = s] \in [kind : Anchor!Kind \cup {"none"}, status : Anchor!Status,
                                           expired : BOOLEAN, trace : BOOLEAN]
  BY <1>1
<1>3. Settled([orders[o] EXCEPT !.status = s])
  BY <1>1 DEF Settled
<1>4. orders' = [orders EXCEPT ![o] = [orders[o] EXCEPT !.status = s]]
  BY DEF Anchor!Becomes
<1> QED
  BY <1>2, <1>3, <1>4 DEF AnchorInv

LEMMA AnchorKept ==
  ASSUME AnchorInv, [Anchor!AnchorNext]_anchorVars
  PROVE  AnchorInv'
<1>1. CASE UNCHANGED orders
  BY <1>1 DEF AnchorInv
<1>2. ASSUME NEW kind \in Anchor!Kind, Anchor!Opens(kind)
      PROVE  AnchorInv'
  <2>1. PICK o \in Anchor!Order :
          orders' = [orders EXCEPT ![o] = [Anchor!None EXCEPT !.kind = kind,
                                                              !.status = Anchor!Waiting[kind]]]
    BY <1>2 DEF Anchor!Opens
  <2> DEFINE new == [Anchor!None EXCEPT !.kind = kind, !.status = Anchor!Waiting[kind]]
  <2>2. Anchor!Waiting[kind] \in Anchor!Status
    BY DEF Anchor!Status, Anchor!Kind
  <2>3. /\ new \in [kind : Anchor!Kind \cup {"none"}, status : Anchor!Status,
                    expired : BOOLEAN, trace : BOOLEAN]
        /\ new.trace = FALSE
    BY <2>2 DEF Anchor!None, Anchor!Status
  <2> HIDE DEF new
  <2>4. orders' = [orders EXCEPT ![o] = new]
    BY <2>1 DEF new
  <2> QED
    BY <2>3, <2>4 DEF AnchorInv, Settled
<1>3. ASSUME NEW o \in Anchor!Order, Anchor!expires(o)
      PROVE  AnchorInv'
  BY <1>3 DEF Anchor!expires, AnchorInv, Settled
<1>4. ASSUME NEW o \in Anchor!Order,
             \/ Anchor!patchTransaction(o) \/ Anchor!updateTransactionStatus(o)
             \/ Anchor!payOut(o) \/ Anchor!cancelExpiredSep24(o)
      PROVE  AnchorInv'
  <2>1. CASE UNCHANGED orders
    BY <2>1, <1>1
  <2>2. CASE \/ Anchor!Becomes(o, "payin_pending") \/ Anchor!Becomes(o, "payin_confirmed")
             \/ Anchor!Becomes(o, "failed") \/ Anchor!Becomes(o, "completed")
    BY <2>2, AnchorBecomes DEF Anchor!Status
  <2>3. CASE orders[o].status \in Anchor!SEP24_PENDING_STATUSES /\ Anchor!Becomes(o, "cancelled")
    <3>1. ~orders[o].trace
      BY <2>3 DEF AnchorInv, Settled
    <3> QED
      BY <2>3, <3>1, AnchorBecomes DEF Anchor!Status
  <2> QED
    BY <1>4, <2>1, <2>2, <2>3 DEF Anchor!patchTransaction, Anchor!updateTransactionStatus,
         Anchor!payOut, Anchor!cancelExpiredSep24
<1>5. CASE Anchor!completeDeposit
  <2>1. CASE UNCHANGED orders
    BY <2>1, <1>1
  <2>2. ASSUME NEW oldest,
               orders' = [orders EXCEPT ![oldest].status = "completed", ![oldest].trace = TRUE]
        PROVE  AnchorInv'
    <3>1. CASE oldest \in Anchor!Order
      <4> DEFINE ended == [orders[oldest] EXCEPT !.status = "completed", !.trace = TRUE]
      <4>1. orders[oldest] \in [kind : Anchor!Kind \cup {"none"}, status : Anchor!Status,
                                expired : BOOLEAN, trace : BOOLEAN]
        BY <3>1 DEF AnchorInv
      <4>2. ended \in [kind : Anchor!Kind \cup {"none"}, status : Anchor!Status,
                      expired : BOOLEAN, trace : BOOLEAN]
        BY <4>1 DEF Anchor!Status
      <4>3. Settled(ended)
        BY <4>1 DEF Settled
      <4> HIDE DEF ended
      <4>4. orders' = [orders EXCEPT ![oldest] = ended]
        BY <3>1, <2>2 DEF ended, AnchorInv
      <4> QED
        BY <4>2, <4>3, <4>4, <3>1 DEF AnchorInv
    <3>2. CASE oldest \notin Anchor!Order
      <4>1. orders' = orders
        BY <3>2, <2>2 DEF AnchorInv
      <4> QED
        BY <4>1, <1>1
    <3> QED
      BY <3>1, <3>2
  <2> QED
    BY <1>5, <2>1, <2>2 DEF Anchor!completeDeposit
<1> QED
  BY <1>1, <1>2, <1>3, <1>4, <1>5
     DEF Anchor!AnchorNext, anchorVars, Anchor!Kind, Anchor!initiateDeposit,
         Anchor!initiateWithdraw, Anchor!createTransaction, Anchor!verifyChallenge,
         Anchor!deleteCustomer, Anchor!flagCustomer, Anchor!clearSanctionsFlag,
         Anchor!creditDeposit, Anchor!sendUSDC, Anchor!readPatched, Anchor!evaluateSep24Closure

LEMMA AnchorStarts == Init => AnchorInv
BY DEF Init, Anchor!AnchorInit, AnchorInv, Settled, Anchor!None, Anchor!Kind, Anchor!Status

HIDE DEF Anchor!Waiting, Anchor!SEP24_PENDING_STATUSES

-----------------------------------------------------------------------------
(* Marketing: whoever may post a piece has it claimed, alone, and it is    *)
(* not out; an admin unlocks one that nobody is at.                        *)
Active == {"claimed", "posted", "nothing", "refused", "unlocks"}
Working(a, p) == calls[a].phase \in Active /\ calls[a].piece = p

ContentPiece ==
  [estado : {"none", "pendiente_aprobacion", "aprobado", "rechazado", "publicado", "autopublicado"},
   formato : {"post", "carrusel"}, signals : SUBSET Signals, enCurso : BOOLEAN, postId : BOOLEAN,
   by : {"nobody", "human"}]

PiecesTyped ==
  /\ pieces \in [Piece -> ContentPiece] /\ posts \in [Piece -> Nat]
  /\ calls \in [Admin -> [phase : Active \cup {"idle", "read"}, piece : Piece \cup {"none"}]]
  /\ \A a \in Admin : calls[a].phase # "idle" => calls[a].piece \in Piece

OutIsSeen(p) ==
  /\ posts[p] <= 1
  /\ posts[p] > 0 => pieces[p].enCurso \/ pieces[p].postId
  /\ \A a \in Admin : Working(a, p) =>
       /\ pieces[p].enCurso
       /\ calls[a].phase \in {"claimed", "refused", "unlocks"} => posts[p] = 0
       /\ \A b \in Admin : Working(b, p) => b = a

MarketingInv == PiecesTyped /\ \A p \in Piece : OutIsSeen(p)

LEMMA PieceBecomes ==
  ASSUME MarketingInv, NEW p \in Piece, NEW d \in ContentPiece, pieces' = [pieces EXCEPT ![p] = d]
  PROVE  /\ pieces' \in [Piece -> ContentPiece] /\ pieces'[p] = d
         /\ \A q \in Piece : q # p => pieces'[q] = pieces[q]
BY DEF MarketingInv, PiecesTyped

(* A call that goes from one phase to the next, or begins, or ends.        *)
LEMMA CallGoes ==
  ASSUME MarketingInv, NEW a \in Admin, NEW phase \in Active \cup {"read"}, NEW p \in Piece,
         calls' = [calls EXCEPT ![a] = [phase |-> phase, piece |-> p]]
  PROVE  /\ calls' \in [Admin -> [phase : Active \cup {"idle", "read"}, piece : Piece \cup {"none"}]]
         /\ \A b \in Admin : calls'[b].phase # "idle" => calls'[b].piece \in Piece
         /\ calls'[a].phase = phase /\ calls'[a].piece = p
         /\ \A b \in Admin : b # a => calls'[b] = calls[b]
BY DEF MarketingInv, PiecesTyped, Active

LEMMA CallMoves ==
  ASSUME MarketingInv, NEW a \in Admin, calls[a].phase # "idle", NEW phase \in Active,
         calls' = [calls EXCEPT ![a].phase = phase]
  PROVE  calls' = [calls EXCEPT ![a] = [phase |-> phase, piece |-> calls[a].piece]]
<1>1. calls[a] \in [phase : Active \cup {"idle", "read"}, piece : Piece \cup {"none"}]
  BY DEF MarketingInv, PiecesTyped
<1>2. [calls[a] EXCEPT !.phase = phase] = [phase |-> phase, piece |-> calls[a].piece]
  BY <1>1
<1>3. calls' = [calls EXCEPT ![a] = [calls[a] EXCEPT !.phase = phase]]
  OBVIOUS
<1> QED
  BY <1>2, <1>3

LEMMA CallEnds ==
  ASSUME MarketingInv, NEW a \in Admin, calls' = [calls EXCEPT ![a] = Marketing!Idle]
  PROVE  /\ calls' \in [Admin -> [phase : Active \cup {"idle", "read"}, piece : Piece \cup {"none"}]]
         /\ \A b \in Admin : calls'[b].phase # "idle" => calls'[b].piece \in Piece
         /\ calls'[a].phase = "idle"
         /\ \A b \in Admin : b # a => calls'[b] = calls[b]
BY DEF MarketingInv, PiecesTyped, Active, Marketing!Idle

LEMMA MarketingKept ==
  ASSUME UnlocksInFlight = FALSE, ServerErrors = FALSE, MarketingInv,
         [Marketing!MarketingNext]_marketingVars
  PROVE  MarketingInv'
<1> DEFINE Calls == [phase : Active \cup {"idle", "read"}, piece : Piece \cup {"none"}]
<1>t. PiecesTyped /\ calls \in [Admin -> Calls]
  BY DEF MarketingInv, PiecesTyped
<1>1. CASE UNCHANGED marketingVars
  BY <1>1 DEF marketingVars, MarketingInv, PiecesTyped, OutIsSeen, Working
<1>2. CASE Marketing!restart
  <2>1. \A a \in Admin : calls'[a] = Marketing!Idle
    BY <1>2 DEF Marketing!restart
  <2>2. \A a \in Admin, p \in Piece : ~Working(a, p)'
    BY <2>1 DEF Working, Active, Marketing!Idle
  <2>3. PiecesTyped'
    BY <1>2, <1>t DEF Marketing!restart, PiecesTyped, Marketing!Idle
  <2> QED
    BY <1>2, <2>2, <2>3 DEF Marketing!restart, MarketingInv, OutIsSeen
<1>3. ASSUME NEW p \in Piece,
             \/ Marketing!aprobar(p) \/ Marketing!rechazar(p)
             \/ \E g \in Marketing!generarContenido : Marketing!procesarPieza(p, g)
      PROVE  MarketingInv'
  <2>1. UNCHANGED <<posts, calls>>
    BY <1>3 DEF Marketing!aprobar, Marketing!rechazar, Marketing!procesarPieza
  <2>2. pieces[p] \in ContentPiece
    BY <1>t DEF PiecesTyped
  <2>3. PICK d \in ContentPiece : /\ pieces' = [pieces EXCEPT ![p] = d]
                                  /\ d.enCurso = pieces[p].enCurso /\ d.postId = pieces[p].postId
    <3>1. CASE Marketing!aprobar(p)
      <4> DEFINE d == [pieces[p] EXCEPT !.estado = "aprobado", !.by = "human"]
      <4>1. d \in ContentPiece /\ d.enCurso = pieces[p].enCurso /\ d.postId = pieces[p].postId
        BY ONLY <2>2 DEF ContentPiece
      <4>2. pieces' = [pieces EXCEPT ![p] = d]
        BY <3>1 DEF Marketing!aprobar
      <4> QED
        BY <4>1, <4>2
    <3>2. CASE Marketing!rechazar(p)
      <4> DEFINE d == [pieces[p] EXCEPT !.estado = "rechazado", !.by = "human"]
      <4>1. d \in ContentPiece /\ d.enCurso = pieces[p].enCurso /\ d.postId = pieces[p].postId
        BY ONLY <2>2 DEF ContentPiece
      <4>2. pieces' = [pieces EXCEPT ![p] = d]
        BY <3>2 DEF Marketing!rechazar
      <4> QED
        BY <4>1, <4>2
    <3>3. ASSUME NEW g \in Marketing!generarContenido, Marketing!procesarPieza(p, g)
          PROVE  \E d \in ContentPiece :
                   /\ pieces' = [pieces EXCEPT ![p] = d]
                   /\ d.enCurso = pieces[p].enCurso /\ d.postId = pieces[p].postId
      <4> DEFINE e == IF Marketing!clasificarRiesgo(g.signals) = "bajo" THEN "autopublicado"
                      ELSE "pendiente_aprobacion"
      <4> DEFINE d == [pieces[p] EXCEPT !.estado = e, !.signals = g.signals, !.formato = g.formato]
      <4>0. /\ e \in {"autopublicado", "pendiente_aprobacion"} /\ g.signals \in SUBSET Signals
            /\ g.formato \in {"post", "carrusel"}
        BY DEF Marketing!generarContenido
      <4>2. pieces' = [pieces EXCEPT ![p] = d]
        BY <3>3 DEF Marketing!procesarPieza
      <4> HIDE DEF e
      <4>1. d \in ContentPiece /\ d.enCurso = pieces[p].enCurso /\ d.postId = pieces[p].postId
        BY ONLY <2>2, <4>0 DEF ContentPiece
      <4> QED
        BY <4>1, <4>2
    <3> QED
      BY <1>3, <3>1, <3>2, <3>3
  <2>4. /\ pieces' \in [Piece -> ContentPiece]
        /\ \A q \in Piece : pieces'[q].enCurso = pieces[q].enCurso /\ pieces'[q].postId = pieces[q].postId
    BY <2>3, PieceBecomes
  <2> QED
    BY SMTT(60), <2>1, <2>4 DEF MarketingInv, PiecesTyped, OutIsSeen, Working
<1>4. ASSUME NEW a \in Admin, NEW p \in Piece, Marketing!publishReads(a, p)
      PROVE  MarketingInv'
  <2>1. /\ calls' = [calls EXCEPT ![a] = [phase |-> "read", piece |-> p]]
        /\ UNCHANGED <<pieces, posts>>
    BY <1>4 DEF Marketing!publishReads
  <2>2. /\ calls' \in [Admin -> Calls] /\ \A b \in Admin : calls'[b].phase # "idle" => calls'[b].piece \in Piece
        /\ calls'[a].phase = "read"
        /\ \A b \in Admin : b # a => calls'[b] = calls[b]
    BY <2>1, CallGoes
  <2>3. PiecesTyped'
    BY <2>1, <2>2, <1>t DEF PiecesTyped
  <2>4. \A b \in Admin, q \in Piece : Working(b, q)' => b # a /\ Working(b, q)
    BY <2>2 DEF Working, Active
  <2> QED
    BY <2>1, <2>2, <2>3, <2>4 DEF MarketingInv, OutIsSeen
<1>5. ASSUME NEW a \in Admin, NEW p \in Piece, Marketing!destrabarReads(a, p)
      PROVE  MarketingInv'
  <2>1. /\ calls' = [calls EXCEPT ![a] = [phase |-> "unlocks", piece |-> p]]
        /\ UNCHANGED <<pieces, posts>>
        /\ posts[p] = 0 /\ pieces[p].enCurso /\ \A b \in Admin : ~Working(b, p)
    BY <1>5 DEF Marketing!destrabarReads, Marketing!Unresolved, Working
  <2>2. /\ calls' \in [Admin -> Calls] /\ \A b \in Admin : calls'[b].phase # "idle" => calls'[b].piece \in Piece
        /\ calls'[a].phase = "unlocks" /\ calls'[a].piece = p
        /\ \A b \in Admin : b # a => calls'[b] = calls[b]
    BY <2>1, CallGoes DEF Active
  <2>3. PiecesTyped'
    BY <2>1, <2>2, <1>t DEF PiecesTyped
  <2>4. \A b \in Admin, q \in Piece : Working(b, q)' =>
          (b = a /\ q = p) \/ (b # a /\ q # p /\ Working(b, q))
    BY <2>1, <2>2 DEF Working
  <2>5. \A b \in Admin, q \in Piece : b # a => calls'[b].phase = calls[b].phase
    BY <2>2
  <2> QED
    BY <2>1, <2>2, <2>3, <2>4, <2>5 DEF MarketingInv, OutIsSeen
<1>6. ASSUME NEW a \in Admin, Marketing!publishClaims(a)
      PROVE  MarketingInv'
  <2> DEFINE p == calls[a].piece
  <2>0. p \in Piece /\ calls[a].phase = "read"
    BY <1>6, <1>t DEF Marketing!publishClaims, PiecesTyped
  <2>1. CASE Marketing!claimed(p)
    <3>1. /\ calls' = [calls EXCEPT ![a].phase = "claimed"] /\ posts' = posts
          /\ pieces' = [pieces EXCEPT ![p].enCurso = TRUE]
          /\ ~pieces[p].enCurso /\ ~pieces[p].postId
      BY <1>6, <2>1 DEF Marketing!publishClaims, Marketing!claimed, Marketing!Publishable
    <3>2. /\ calls' \in [Admin -> Calls] /\ \A b \in Admin : calls'[b].phase # "idle" => calls'[b].piece \in Piece
          /\ calls'[a].phase = "claimed" /\ calls'[a].piece = p
          /\ \A b \in Admin : b # a => calls'[b] = calls[b]
      <4>1. calls' = [calls EXCEPT ![a] = [phase |-> "claimed", piece |-> calls[a].piece]]
        BY <2>0, <3>1, CallMoves DEF Active
      <4> QED
        BY <4>1, <2>0, CallGoes DEF Active
    <3>3. posts[p] = 0 /\ \A b \in Admin : ~Working(b, p)
      BY <3>1, <2>0, <1>t DEF MarketingInv, OutIsSeen, PiecesTyped
    <3>4. PiecesTyped' /\ pieces'[p].enCurso /\ \A q \in Piece : q # p => pieces'[q] = pieces[q]
      <4> DEFINE d == [pieces[p] EXCEPT !.enCurso = TRUE]
      <4>0. pieces[p] \in ContentPiece
        BY <2>0, <1>t DEF PiecesTyped
      <4>1. d \in ContentPiece /\ d.enCurso
        BY ONLY <4>0 DEF ContentPiece
      <4>2. pieces' = [pieces EXCEPT ![p] = d]
        BY <3>1
      <4> HIDE DEF d
      <4>3. /\ pieces' \in [Piece -> ContentPiece] /\ pieces'[p] = d
            /\ \A q \in Piece : q # p => pieces'[q] = pieces[q]
        BY <2>0, <4>1, <4>2, PieceBecomes
      <4> QED
        BY <4>1, <4>3, <3>1, <3>2, <1>t DEF PiecesTyped
    <3>5. \A b \in Admin, q \in Piece : Working(b, q)' =>
          (b = a /\ q = p) \/ (b # a /\ q # p /\ Working(b, q))
      BY <3>3, <3>2 DEF Working
    <3>6. \A b \in Admin : b # a => calls'[b].phase = calls[b].phase
      BY <3>2
    <3> HIDE DEF p
    <3> QED
      BY <2>0, <3>1, <3>2, <3>3, <3>4, <3>5, <3>6 DEF MarketingInv, OutIsSeen
  <2>2. CASE ~Marketing!claimed(p)
    <3>1. calls' = [calls EXCEPT ![a] = Marketing!Idle] /\ UNCHANGED <<pieces, posts>>
      BY <1>6, <2>2 DEF Marketing!publishClaims
    <3>2. /\ calls' \in [Admin -> Calls] /\ \A b \in Admin : calls'[b].phase # "idle" => calls'[b].piece \in Piece
          /\ calls'[a].phase = "idle"
          /\ \A b \in Admin : b # a => calls'[b] = calls[b]
      BY <3>1, CallEnds
    <3>3. PiecesTyped'
      BY <3>1, <3>2, <1>t DEF PiecesTyped
    <3>4. \A b \in Admin, q \in Piece : Working(b, q)' => b # a /\ Working(b, q)
      BY <3>2 DEF Working, Active
    <3> QED
      BY <3>1, <3>2, <3>3, <3>4 DEF MarketingInv, OutIsSeen
  <2> QED
    BY <2>1, <2>2
<1>7. ASSUME NEW a \in Admin, Marketing!publicar(a)
      PROVE  MarketingInv'
  <2>p. PICK p \in Piece : p = calls[a].piece
    BY <1>7, <1>t DEF Marketing!publicar, PiecesTyped
  <2>0. p \in Piece /\ calls[a].phase = "claimed" /\ Working(a, p)
    BY <1>7, <1>t, <2>p DEF Marketing!publicar, PiecesTyped, Working, Active
  <2>1. PICK o \in Marketing!Outcomes :
          /\ posts' = [posts EXCEPT ![p] = @ + IF o.out THEN 1 ELSE 0]
          /\ calls' = [calls EXCEPT ![a].phase = o.answer]
    BY <1>7, <2>p DEF Marketing!publicar
  <2>2. /\ o.answer \in {"posted", "nothing", "refused"} /\ (o.answer = "refused" => ~o.out)
        /\ pieces' = pieces
    BY <1>7 DEF Marketing!publicar, Marketing!Outcomes
  <2>3. /\ calls' \in [Admin -> Calls] /\ \A b \in Admin : calls'[b].phase # "idle" => calls'[b].piece \in Piece
        /\ calls'[a].phase = o.answer /\ calls'[a].piece = p
        /\ \A b \in Admin : b # a => calls'[b] = calls[b]
    <3>1. calls' = [calls EXCEPT ![a] = [phase |-> o.answer, piece |-> calls[a].piece]]
      BY <2>0, <2>1, <2>2, <2>p, CallMoves DEF Active
    <3> QED
      BY <3>1, <2>0, <2>2, <2>p, CallGoes DEF Active
  <2>4. /\ posts[p] = 0 /\ pieces[p].enCurso
        /\ \A b \in Admin : Working(b, p) => b = a
    BY <2>0 DEF MarketingInv, OutIsSeen
  <2>5. /\ posts' \in [Piece -> Nat] /\ posts'[p] = (IF o.out THEN 1 ELSE 0)
        /\ \A q \in Piece : q # p => posts'[q] = posts[q]
    BY <2>0, <2>1, <2>4, <1>t DEF PiecesTyped
  <2>6. PiecesTyped'
    BY <2>2, <2>3, <2>5, <1>t DEF PiecesTyped
  <2>7. \A b \in Admin, q \in Piece : Working(b, q)' =>
          (b = a /\ q = p) \/ (b # a /\ q # p /\ Working(b, q))
    BY <2>4, <2>3, <2>p DEF Working
  <2>8. \A b \in Admin : b # a => calls'[b].phase = calls[b].phase
    BY <2>3
  <2>9. OutIsSeen(p)'
    BY <2>0, <2>2, <2>3, <2>4, <2>5, <2>7 DEF OutIsSeen
  <2>10. \A q \in Piece : q # p => OutIsSeen(q)'
    BY <2>2, <2>5, <2>7, <2>8 DEF MarketingInv, OutIsSeen
  <2> QED
    BY <2>6, <2>9, <2>10 DEF MarketingInv
<1>8. ASSUME NEW a \in Admin, Marketing!publishEnds(a) \/ Marketing!destrabarPieza(a)
      PROVE  MarketingInv'
  <2>p. PICK p \in Piece : p = calls[a].piece
    BY <1>8, <1>t DEF Marketing!publishEnds, Marketing!destrabarPieza, PiecesTyped
  <2>0. p \in Piece /\ Working(a, p) /\ calls[a].phase \in {"posted", "nothing", "refused", "unlocks"}
    BY <1>8, <1>t, <2>p DEF Marketing!publishEnds, Marketing!destrabarPieza, PiecesTyped, Working, Active
  <2>1. calls' = [calls EXCEPT ![a] = Marketing!Idle] /\ posts' = posts
    BY <1>8 DEF Marketing!publishEnds, Marketing!destrabarPieza
  <2>2. /\ calls' \in [Admin -> Calls] /\ \A b \in Admin : calls'[b].phase # "idle" => calls'[b].piece \in Piece
        /\ calls'[a].phase = "idle"
        /\ \A b \in Admin : b # a => calls'[b] = calls[b]
    BY <2>1, CallEnds
  <2>3. /\ pieces' \in [Piece -> ContentPiece]
        /\ \A q \in Piece : q # p => pieces'[q] = pieces[q]
        /\ calls[a].phase = "posted" => pieces'[p].postId
        /\ calls[a].phase = "nothing" => pieces'[p].enCurso
    <3>0. pieces[p] \in ContentPiece
      BY <2>0, <1>t DEF PiecesTyped
    <3>1. CASE calls[a].phase = "posted"
      <4> DEFINE d == [pieces[p] EXCEPT !.estado = "publicado", !.postId = TRUE, !.enCurso = FALSE]
      <4>1. d \in ContentPiece /\ d.postId
        BY ONLY <3>0 DEF ContentPiece
      <4>2. pieces' = [pieces EXCEPT ![p] = d]
        BY <1>8, <3>1, <2>p DEF Marketing!publishEnds, Marketing!destrabarPieza
      <4> HIDE DEF d
      <4> QED
        BY <3>1, <4>1, <4>2, <2>0, PieceBecomes
    <3>2. CASE calls[a].phase # "posted"
      <4> DEFINE b == calls[a].phase = "nothing"
      <4> DEFINE d == [pieces[p] EXCEPT !.enCurso = b]
      <4>0. b \in BOOLEAN
        OBVIOUS
      <4>2. pieces' = [pieces EXCEPT ![p] = d]
        BY <1>8, <3>2, <2>p DEF Marketing!publishEnds, Marketing!destrabarPieza
      <4>3. b <=> calls[a].phase = "nothing"
        OBVIOUS
      <4> HIDE DEF b
      <4>1. d \in ContentPiece /\ d.enCurso = b
        BY ONLY <3>0, <4>0 DEF ContentPiece
      <4> HIDE DEF d
      <4> QED
        BY <3>2, <4>1, <4>2, <4>3, <2>0, PieceBecomes
    <3> QED
      BY <3>1, <3>2
  <2>4. PiecesTyped'
    BY <2>1, <2>2, <2>3, <1>t DEF PiecesTyped
  <2>5. /\ calls[a].phase \in {"refused", "unlocks"} => posts[p] = 0
        /\ \A b \in Admin : Working(b, p) => b = a
    BY <2>0 DEF MarketingInv, OutIsSeen
  <2>6. \A b \in Admin, q \in Piece : Working(b, q)' => b # a /\ q # p /\ Working(b, q)
    BY <2>2, <2>5 DEF Working, Active
  <2>7. \A b \in Admin : b # a => calls'[b].phase = calls[b].phase
    BY <2>2
  <2>8. OutIsSeen(p)'
    BY <2>0, <2>1, <2>3, <2>5, <2>6 DEF MarketingInv, OutIsSeen
  <2>9. \A q \in Piece : q # p => OutIsSeen(q)'
    BY <2>1, <2>3, <2>6, <2>7 DEF MarketingInv, OutIsSeen
  <2> QED
    BY <2>4, <2>8, <2>9 DEF MarketingInv
<1> QED
  BY <1>1, <1>2, <1>3, <1>4, <1>5, <1>6, <1>7, <1>8 DEF Marketing!MarketingNext

LEMMA MarketingStarts == Init => MarketingInv
BY DEF Init, Marketing!MarketingInit, MarketingInv, PiecesTyped, OutIsSeen, Working, Active,
       ContentPiece, Marketing!Idle

-----------------------------------------------------------------------------
(* Custody: an address that was shown is the user's key, a request that    *)
(* gets on has stored its own, and no two of them are for one user.        *)
AccountShape(d) ==
  d = [publicKey |-> d.publicKey, trustline |-> d.trustline,
       repairAttempts |-> d.repairAttempts, cooling |-> d.cooling]
HasStored(p) == keyRequest[p].step \in {"fund", "trust", "mark", "answer"}
Provisions(p) == keyRequest[p].step = "store" \/ HasStored(p)

CustodyTyped ==
  /\ custody = [u \in Custody!User |-> custody[u]]
  /\ \A u \in Custody!User : AccountShape(custody[u])
  /\ keyRequest \in [Caller -> [step : {"idle", "store", "fund", "trust", "mark", "answer", "done"},
                                user : Custody!User \cup {1}]]
  /\ \A p \in Caller : Provisions(p) => keyRequest[p].user \in Custody!User

CustodyInv ==
  /\ CustodyTyped
  /\ shown \in [Custody!User -> SUBSET Custody!Key]
  /\ \A u \in Custody!User : \A k \in shown[u] : custody[u].publicKey = k
  /\ \A p \in Caller : keyRequest[p].step = "store" => custody[keyRequest[p].user].publicKey = Custody!NoKey
  /\ \A p \in Caller : HasStored(p) => custody[keyRequest[p].user].publicKey = Custody!keyOf[p]
  /\ \A p, q \in Caller : Provisions(p) /\ Provisions(q) /\ keyRequest[p].user = keyRequest[q].user => p = q

(* The callers draw different keypairs, and each draws one.                *)
LEMMA KeysAreDrawn ==
  ASSUME IsFiniteSet(Caller)
  PROVE  Custody!keyOf \in [Caller -> Custody!Key]
<1>1. PICK n \in Nat : ExistsBijection(1..n, Caller)
  BY FS_NatBijection
<1>2. n = Cardinality(Caller)
  BY <1>1, FS_CountingElements
<1>3. PICK f \in Bijection(1..n, Caller) : TRUE
  BY <1>1 DEF ExistsBijection
<1> DEFINE g == [c \in Caller |-> CHOOSE i \in 1..n : f[i] = c]
<1>4. \A c \in Caller : g[c] \in 1..n /\ f[g[c]] = c
  BY <1>3 DEF Bijection, Surjection
<1>0. g = [c \in Caller |-> g[c]]
  OBVIOUS
<1> HIDE DEF g
<1>5. \A p, q \in Caller : g[p] = g[q] => p = q
  BY <1>4
<1>7. \A c \in Caller : g[c] \in Custody!Key
  BY <1>2, <1>4 DEF Custody!Key, Custody!Cardinality, Cardinality
<1>6. g \in [Caller -> Custody!Key]
  BY <1>0, <1>7, Zenon
<1> QED
  BY <1>5, <1>6 DEF Custody!keyOf

LEMMA ShapeIsKept ==
  ASSUME NEW d, AccountShape(d), NEW f \in {"trustline", "repairAttempts", "cooling"}, NEW x
  PROVE  AccountShape([d EXCEPT ![f] = x]) /\ [d EXCEPT ![f] = x].publicKey = d.publicKey
<1> DEFINE e == [d EXCEPT ![f] = x]
<1>1. DOMAIN d = {"publicKey", "trustline", "repairAttempts", "cooling"}
  BY DEF AccountShape
<1>2. e = [g \in {"publicKey", "trustline", "repairAttempts", "cooling"} |-> IF g = f THEN x ELSE d[g]]
  BY <1>1
<1>3. e.publicKey = d.publicKey
  BY <1>2
<1>4. e = [publicKey |-> e.publicKey, trustline |-> e.trustline,
           repairAttempts |-> e.repairAttempts, cooling |-> e.cooling]
  BY <1>2
<1> QED
  BY <1>3, <1>4 DEF AccountShape

Spent(d, n, b) == [[d EXCEPT !["repairAttempts"] = n] EXCEPT !["cooling"] = b]
Trusts(d, b) == [d EXCEPT !["trustline"] = b]

LEMMA ShapesAreKept ==
  ASSUME NEW d, AccountShape(d), NEW x, NEW y
  PROVE  /\ AccountShape(Spent(d, x, y)) /\ Spent(d, x, y).publicKey = d.publicKey
         /\ AccountShape(Trusts(d, x)) /\ Trusts(d, x).publicKey = d.publicKey
<1> DEFINE d1 == [d EXCEPT !["repairAttempts"] = x]
<1> DEFINE d2 == [d1 EXCEPT !["cooling"] = y]
<1>1. AccountShape(d1) /\ d1.publicKey = d.publicKey
  BY ShapeIsKept
<1> HIDE DEF d1
<1>2. AccountShape(d2) /\ d2.publicKey = d.publicKey
  BY <1>1, ShapeIsKept
<1> HIDE DEF d2
<1>3. Spent(d, x, y) = d2
  BY DEF d1, d2, Spent
<1>4. AccountShape(Trusts(d, x)) /\ Trusts(d, x).publicKey = d.publicKey
  BY ShapeIsKept DEF Trusts
<1> QED
  BY <1>2, <1>3, <1>4

(* What a step that leaves the keys and the requests does, and one of a    *)
(* request that goes from one step to the next.                            *)
LEMMA AccountBecomes ==
  ASSUME CustodyTyped, NEW u \in Custody!User, NEW d, AccountShape(d),
         custody' = [custody EXCEPT ![u] = d]
  PROVE  /\ custody' = [v \in Custody!User |-> custody'[v]]
         /\ \A v \in Custody!User : AccountShape(custody'[v])
         /\ custody'[u] = d
         /\ \A v \in Custody!User : v # u => custody'[v] = custody[v]
BY DEF CustodyTyped

KeysStay ==
  /\ custody' = [v \in Custody!User |-> custody'[v]]
  /\ \A v \in Custody!User : AccountShape(custody'[v]) /\ custody'[v].publicKey = custody[v].publicKey

LEMMA KeyStays ==
  ASSUME CustodyTyped, NEW u, NEW d, custody' = [custody EXCEPT ![u] = d],
         u \in Custody!User => AccountShape(d) /\ d.publicKey = custody[u].publicKey
  PROVE  KeysStay
<1>1. CASE u \in Custody!User
  BY <1>1, AccountBecomes DEF KeysStay
<1>2. CASE u \notin Custody!User
  <2>1. custody' = custody
    BY <1>2 DEF CustodyTyped
  <2> QED
    BY <2>1 DEF CustodyTyped, KeysStay
<1> QED
  BY <1>1, <1>2

LEMMA OnlyTheRequest ==
  ASSUME CustodyInv, KeysStay, UNCHANGED <<keyRequest, shown>>
  PROVE  CustodyInv'
BY DEF CustodyInv, CustodyTyped, KeysStay, HasStored, Provisions

LEMMA RequestGoes ==
  ASSUME CustodyInv, NEW p \in Caller,
         NEW s \in {"idle", "store", "fund", "trust", "mark", "answer", "done"},
         Custody!Goes(p, s)
  PROVE  /\ keyRequest' \in [Caller -> [step : {"idle", "store", "fund", "trust", "mark", "answer", "done"},
                                        user : Custody!User \cup {1}]]
         /\ keyRequest'[p].step = s /\ keyRequest'[p].user = keyRequest[p].user
         /\ \A q \in Caller : q # p => keyRequest'[q] = keyRequest[q]
<1> DEFINE R == [step : {"idle", "store", "fund", "trust", "mark", "answer", "done"},
                 user : Custody!User \cup {1}]
<1> DEFINE r == [keyRequest[p] EXCEPT !.step = s]
<1>1. keyRequest \in [Caller -> R]
  BY DEF CustodyInv, CustodyTyped
<1>2. keyRequest[p] \in R
  BY <1>1
<1>3. r \in R /\ r.step = s /\ r.user = keyRequest[p].user
  BY ONLY <1>2, s \in {"idle", "store", "fund", "trust", "mark", "answer", "done"}
<1>4. keyRequest' = [keyRequest EXCEPT ![p] = r]
  BY DEF Custody!Goes
<1> HIDE DEF r, R
<1>5. keyRequest' \in [Caller -> R] /\ keyRequest'[p] = r /\ \A q \in Caller : q # p => keyRequest'[q] = keyRequest[q]
  BY <1>1, <1>3, <1>4
<1> QED
  BY <1>3, <1>5 DEF R

LEMMA RequestGoesOn ==
  ASSUME CustodyInv, NEW p \in Caller, HasStored(p), KeysStay, UNCHANGED shown,
         NEW s \in {"fund", "trust", "mark", "answer", "done"}, Custody!Goes(p, s)
  PROVE  CustodyInv'
<1>1. /\ keyRequest' \in [Caller -> [step : {"idle", "store", "fund", "trust", "mark", "answer", "done"},
                                     user : Custody!User \cup {1}]]
      /\ keyRequest'[p].step = s /\ keyRequest'[p].user = keyRequest[p].user
      /\ \A q \in Caller : q # p => keyRequest'[q] = keyRequest[q]
  BY RequestGoes
<1>2. \A q \in Caller : /\ Provisions(q)' => Provisions(q)
                        /\ HasStored(q)' => HasStored(q)
                        /\ keyRequest'[q].step = "store" => keyRequest[q].step = "store"
                        /\ keyRequest'[q].user = keyRequest[q].user
  BY <1>1 DEF Provisions, HasStored
<1>3. CustodyTyped'
  BY <1>1, <1>2 DEF CustodyInv, CustodyTyped, KeysStay
<1>4. \A u \in Custody!User : \A k \in shown'[u] : custody'[u].publicKey = k
  BY DEF CustodyInv, KeysStay
<1>5. \A q \in Caller : HasStored(q)' => custody'[keyRequest'[q].user].publicKey = Custody!keyOf[q]
  BY <1>2 DEF CustodyInv, CustodyTyped, KeysStay, Provisions
<1>6. \A q \in Caller : keyRequest'[q].step = "store" => custody'[keyRequest'[q].user].publicKey = Custody!NoKey
  BY <1>2 DEF CustodyInv, CustodyTyped, KeysStay, Provisions
<1> QED
  BY <1>2, <1>3, <1>4, <1>5, <1>6 DEF CustodyInv

LEMMA CustodyKept ==
  ASSUME Concurrent = FALSE, IsFiniteSet(Caller), CustodyInv, [Custody!CustodyNext]_custodyVars
  PROVE  CustodyInv'
<1>t. CustodyTyped
  BY DEF CustodyInv
<1>k. UNCHANGED custody => KeysStay
  BY <1>t DEF CustodyTyped, KeysStay
<1>1. CASE UNCHANGED custodyVars
  BY <1>1, <1>k, OnlyTheRequest DEF custodyVars
<1>2. ASSUME NEW p \in Caller, NEW u \in Custody!User, Custody!provisionUserKeypair(p, u)
      PROVE  CustodyInv'
  <2>1. /\ keyRequest' = [keyRequest EXCEPT ![p] = [step |-> "store", user |-> u]]
        /\ UNCHANGED <<custody, shown>> /\ custody[u].publicKey = Custody!NoKey
        /\ \A q \in Caller : Provisions(q) => keyRequest[q].user # u
    BY <1>2 DEF Custody!provisionUserKeypair, Custody!At, Provisions, HasStored
  <2>2. /\ keyRequest' \in [Caller -> [step : {"idle", "store", "fund", "trust", "mark", "answer", "done"},
                                     user : Custody!User \cup {1}]]
        /\ keyRequest'[p].step = "store" /\ keyRequest'[p].user = u
        /\ \A q \in Caller : q # p => keyRequest'[q] = keyRequest[q]
    BY <2>1, <1>t DEF CustodyTyped
  <2>3. \A q \in Caller : /\ Provisions(q)' => q = p \/ (q # p /\ Provisions(q))
                          /\ HasStored(q)' => HasStored(q) /\ q # p
    BY <2>2 DEF Provisions, HasStored
  <2>4. CustodyTyped'
    BY <2>1, <2>2, <2>3, <1>t DEF CustodyTyped
  <2> QED
    BY <2>1, <2>2, <2>3, <2>4 DEF CustodyInv
<1>3. ASSUME NEW p \in Caller, Custody!storeKeypair(p)
      PROVE  CustodyInv'
  <2>p. PICK u \in Custody!User : u = keyRequest[p].user
    BY <1>3, <1>t DEF CustodyTyped, Custody!storeKeypair, Custody!At, Provisions
  <2>0. keyRequest[p].step = "store" /\ custody[u].publicKey = Custody!NoKey /\ UNCHANGED shown
    BY <1>3, <2>p DEF Custody!storeKeypair, Custody!At, CustodyInv
  <2>5. Custody!keyOf[p] \in Custody!Key /\ Custody!keyOf[p] # Custody!NoKey
    BY KeysAreDrawn DEF Custody!Key, Custody!NoKey
  <2>6. shown[u] = {}
    <3>1. shown[u] \subseteq Custody!Key /\ \A k \in shown[u] : k = Custody!NoKey
      BY <2>0 DEF CustodyInv
    <3>2. Custody!NoKey \notin Custody!Key
      BY DEF Custody!Key, Custody!NoKey
    <3> QED
      BY <3>1, <3>2
  <2>7. \A q \in Caller : q # p /\ Provisions(q) => keyRequest[q].user # u
    BY <2>0, <2>p DEF CustodyInv, Provisions
  <2>1. CASE /\ custody' = [custody EXCEPT ![keyRequest[p].user] =
                           [@ EXCEPT !.publicKey = Custody!keyOf[p], !.trustline = FALSE]]
             /\ Custody!Goes(p, "fund")
    <3> DEFINE k == Custody!keyOf[p]
    <3> DEFINE d == [custody[u] EXCEPT !.publicKey = k, !.trustline = FALSE]
    <3>1. AccountShape(custody[u])
      BY <1>t DEF CustodyTyped
    <3> HIDE DEF k
    <3>2. AccountShape(d) /\ d.publicKey = k
      <4> DEFINE e == [custody[u] EXCEPT !["trustline"] = FALSE]
      <4>1. AccountShape(e)
        BY <3>1, ShapeIsKept
      <4>2. d = [e EXCEPT !["publicKey"] = k]
        BY <3>1 DEF AccountShape
      <4> HIDE DEF e, d
      <4>3. DOMAIN e = {"publicKey", "trustline", "repairAttempts", "cooling"}
        BY <4>1 DEF AccountShape
      <4>4. d = [g \in {"publicKey", "trustline", "repairAttempts", "cooling"} |->
                   IF g = "publicKey" THEN k ELSE e[g]]
        BY <4>2, <4>3
      <4>5. d.publicKey = k
        BY <4>4
      <4>6. d = [publicKey |-> d.publicKey, trustline |-> d.trustline,
                 repairAttempts |-> d.repairAttempts, cooling |-> d.cooling]
        BY <4>4
      <4> QED
        BY <4>5, <4>6 DEF AccountShape
    <3>3. custody' = [custody EXCEPT ![u] = d]
      BY <2>1, <2>p DEF k
    <3> HIDE DEF d
    <3>4. /\ custody' = [v \in Custody!User |-> custody'[v]]
          /\ \A v \in Custody!User : AccountShape(custody'[v])
          /\ custody'[u] = d
          /\ \A v \in Custody!User : v # u => custody'[v] = custody[v]
      BY <3>2, <3>3, <1>t, AccountBecomes
    <3>5. /\ keyRequest' \in [Caller -> [step : {"idle", "store", "fund", "trust", "mark", "answer", "done"},
                                     user : Custody!User \cup {1}]]
          /\ keyRequest'[p].step = "fund" /\ keyRequest'[p].user = u
          /\ \A q \in Caller : q # p => keyRequest'[q] = keyRequest[q]
      BY <2>1, <2>p, RequestGoes
    <3>6. \A q \in Caller : q # p /\ Provisions(q)' => Provisions(q) /\ keyRequest'[q] = keyRequest[q]
      BY <3>5 DEF Provisions, HasStored
    <3>7. CustodyTyped'
      BY <3>4, <3>5, <3>6, <1>t DEF CustodyTyped
    <3>8. \A q \in Caller : HasStored(q)' => custody'[keyRequest'[q].user].publicKey = Custody!keyOf[q]
      <4>1. custody'[u].publicKey = Custody!keyOf[p]
        BY <3>2, <3>4 DEF k
      <4>2. \A q \in Caller : q # p /\ HasStored(q)' =>
              HasStored(q) /\ keyRequest'[q].user # u /\ keyRequest'[q].user \in Custody!User
        BY <2>7, <3>5, <1>t DEF HasStored, Provisions, CustodyTyped
      <4> QED
        BY <3>4, <3>5, <4>1, <4>2 DEF CustodyInv
    <3>9. \A q \in Caller : keyRequest'[q].step = "store" =>
              custody'[keyRequest'[q].user].publicKey = Custody!NoKey
      <4>1. \A q \in Caller : keyRequest'[q].step = "store" =>
              /\ q # p /\ keyRequest[q].step = "store" /\ keyRequest'[q].user = keyRequest[q].user
              /\ keyRequest'[q].user # u /\ keyRequest'[q].user \in Custody!User
        BY <2>7, <3>5, <1>t DEF Provisions, CustodyTyped
      <4> QED
        BY <3>4, <4>1 DEF CustodyInv
    <3>10. \A v \in Custody!User : \A j \in shown'[v] : custody'[v].publicKey = j
      BY <2>0, <2>6, <3>4 DEF CustodyInv
    <3>11. \A q, r \in Caller :
             Provisions(q)' /\ Provisions(r)' /\ keyRequest'[q].user = keyRequest'[r].user => q = r
      BY <2>7, <3>5, <3>6 DEF CustodyInv
    <3> QED
      BY <2>0, <3>7, <3>8, <3>9, <3>10, <3>11 DEF CustodyInv
  <2>2. CASE Custody!Goes(p, "done") /\ UNCHANGED custody
    <3>1. /\ keyRequest' \in [Caller -> [step : {"idle", "store", "fund", "trust", "mark", "answer", "done"},
                                     user : Custody!User \cup {1}]]
          /\ keyRequest'[p].step = "done"
          /\ \A q \in Caller : q # p => keyRequest'[q] = keyRequest[q]
      BY <2>2, RequestGoes
    <3>2. \A q \in Caller : /\ Provisions(q)' => Provisions(q) /\ q # p
                            /\ HasStored(q)' => HasStored(q) /\ q # p
      BY <3>1 DEF Provisions, HasStored
    <3>3. CustodyTyped'
      BY <2>2, <3>1, <3>2, <1>t DEF CustodyTyped
    <3> QED
      BY <2>0, <2>2, <3>1, <3>2, <3>3 DEF CustodyInv
  <2> QED
    BY <1>3, <2>1, <2>2 DEF Custody!storeKeypair
<1>4. ASSUME NEW p \in Caller, Custody!fundProvisioned(p)
      PROVE  CustodyInv'
  <2>1. HasStored(p) /\ Custody!Goes(p, "trust") /\ UNCHANGED <<custody, shown>>
    BY <1>4 DEF Custody!fundProvisioned, Custody!At, HasStored
  <2> QED
    BY <2>1, <1>k, RequestGoesOn
<1>5. ASSUME NEW p \in Caller, Custody!trustProvisioned(p)
      PROVE  CustodyInv'
  <2>1. PICK done1 \in BOOLEAN : Custody!Goes(p, IF done1 THEN "mark" ELSE "answer")
    BY <1>5 DEF Custody!trustProvisioned
  <2>2. HasStored(p) /\ UNCHANGED <<custody, shown>>
    BY <1>5 DEF Custody!trustProvisioned, Custody!At, HasStored
  <2>3. Custody!Goes(p, "mark") \/ Custody!Goes(p, "answer")
    BY <2>1
  <2> QED
    BY <2>2, <2>3, <1>k, RequestGoesOn
<1>6. ASSUME NEW p \in Caller, Custody!markTrustline(p)
      PROVE  CustodyInv'
  <2> DEFINE u == keyRequest[p].user
  <2>1. HasStored(p) /\ Custody!Goes(p, "answer") /\ UNCHANGED shown
        /\ custody' = [custody EXCEPT ![u] = [custody[u] EXCEPT !["trustline"] = TRUE]]
    BY <1>6 DEF Custody!markTrustline, Custody!At, HasStored
  <2>2. u \in Custody!User => AccountShape(custody[u])
    BY <1>t DEF CustodyTyped
  <2> DEFINE d == [custody[u] EXCEPT !["trustline"] = TRUE]
  <2>3. u \in Custody!User => AccountShape(d) /\ d.publicKey = custody[u].publicKey
    BY <2>2, ShapeIsKept
  <2> HIDE DEF u, d
  <2>4. KeysStay
    BY <2>1, <2>3, <1>t, KeyStays DEF d
  <2> QED
    BY <2>1, <2>4, RequestGoesOn
<1>7. ASSUME NEW p \in Caller, Custody!answerAddress(p)
      PROVE  CustodyInv'
  <2>p. PICK u \in Custody!User : u = keyRequest[p].user
    BY <1>7, <1>t DEF CustodyTyped, Custody!answerAddress, Custody!At, Provisions, HasStored
  <2>0. /\ HasStored(p) /\ Custody!Goes(p, "done") /\ UNCHANGED custody
        /\ shown' = [shown EXCEPT ![u] = @ \cup {Custody!keyOf[p]}]
    BY <1>7, <2>p DEF Custody!answerAddress, Custody!At, HasStored
  <2>1. /\ keyRequest' \in [Caller -> [step : {"idle", "store", "fund", "trust", "mark", "answer", "done"},
                                     user : Custody!User \cup {1}]]
        /\ keyRequest'[p].step = "done"
        /\ \A q \in Caller : q # p => keyRequest'[q] = keyRequest[q]
    BY <2>0, RequestGoes
  <2>2. \A q \in Caller : /\ Provisions(q)' => Provisions(q) /\ q # p
                          /\ HasStored(q)' => HasStored(q) /\ q # p
    BY <2>1 DEF Provisions, HasStored
  <2>3. CustodyTyped'
    BY <2>0, <2>1, <2>2, <1>t DEF CustodyTyped
  <2>4. custody[u].publicKey = Custody!keyOf[p] /\ Custody!keyOf[p] \in Custody!Key
    BY <2>0, <2>p, KeysAreDrawn DEF CustodyInv
  <2>5. /\ shown' \in [Custody!User -> SUBSET Custody!Key]
        /\ \A v \in Custody!User : \A k \in shown'[v] : custody'[v].publicKey = k
    BY <2>0, <2>4 DEF CustodyInv
  <2> QED
    BY <2>0, <2>1, <2>2, <2>3, <2>5 DEF CustodyInv

<1>8. CASE Custody!repairStep
  <2>1. UNCHANGED <<keyRequest, shown>>
    BY <1>8 DEF Custody!repairStep, Custody!repairStarts, Custody!loadFails, Custody!accountMissing,
         Custody!accountFound, Custody!alreadyOk, Custody!repairTrustline, Custody!RepairUnchanged
  <2> DEFINE u == Custody!Head1.user
  <2> DEFINE old == custody[u]
  <2>2. u \in Custody!User => AccountShape(old)
    BY <1>t DEF CustodyTyped
  <2>3. CASE Custody!Attempted
    <3> DEFINE n == Custody!Head1.attempts + 1
    <3> DEFINE d == Spent(old, n, TRUE)
    <3>1. custody' = [custody EXCEPT ![u] = d]
      BY <2>3 DEF Custody!Attempted, Spent
    <3> HIDE DEF n, u
    <3>2. u \in Custody!User => AccountShape(d) /\ d.publicKey = custody[u].publicKey
      BY <2>2, ShapesAreKept
    <3> HIDE DEF d
    <3>3. KeysStay
      BY <3>1, <3>2, <1>t, KeyStays
    <3> QED
      BY <2>1, <3>3, OnlyTheRequest
  <2>4. CASE Custody!alreadyOk
    <3> DEFINE e == Trusts(old, TRUE)
    <3> DEFINE n == 0
    <3> DEFINE b == FALSE
    <3> DEFINE d == Spent(e, n, b)
    <3>1. custody' = [custody EXCEPT ![u] = d]
      BY <2>4 DEF Custody!alreadyOk, Spent, Trusts
    <3> HIDE DEF u
    <3>4. u \in Custody!User => AccountShape(e) /\ e.publicKey = custody[u].publicKey
      BY <2>2, ShapesAreKept
    <3> HIDE DEF e, n, b
    <3>2. ASSUME u \in Custody!User
          PROVE  AccountShape(d) /\ d.publicKey = custody[u].publicKey
      <4>1. AccountShape(e) /\ e.publicKey = custody[u].publicKey
        BY <3>4, <3>2
      <4> QED
        BY <4>1, ShapesAreKept
    <3> HIDE DEF d
    <3>3. KeysStay
      BY <3>1, <3>2, <1>t, KeyStays
    <3> QED
      BY <2>1, <3>3, OnlyTheRequest
  <2>5. CASE Custody!repairTrustline
    <3>0. PICK paid \in BOOLEAN :
            custody' = [custody EXCEPT ![u] =
                        [@ EXCEPT !.repairAttempts = Custody!Head1.attempts + 1, !.cooling = TRUE,
                                  !.trustline = paid \/ custody[Custody!Head1.user].trustline]]
      BY <2>5 DEF Custody!repairTrustline
    <3> DEFINE n == Custody!Head1.attempts + 1
    <3> DEFINE b == paid \/ old.trustline
    <3> DEFINE r == [old EXCEPT !.repairAttempts = n, !.cooling = TRUE, !.trustline = b]
    <3>3. custody' = [custody EXCEPT ![u] = r]
      BY <3>0
    <3> HIDE DEF u, n, b
    <3>1. CASE u \in Custody!User
      <4>2. r = Trusts(Spent(old, n, TRUE), b)
        BY DEF Spent, Trusts
      <4> HIDE DEF r
      <4> DEFINE e == Spent(old, n, TRUE)
      <4>3. AccountShape(e) /\ e.publicKey = custody[u].publicKey
        BY <2>2, <3>1, ShapesAreKept
      <4> HIDE DEF e
      <4>4. AccountShape(Trusts(e, b)) /\ Trusts(e, b).publicKey = custody[u].publicKey
        BY <4>3, ShapesAreKept
      <4>5. AccountShape(r) /\ r.publicKey = custody[u].publicKey
        BY <4>2, <4>4 DEF e
      <4>6. KeysStay
        BY <4>5, <3>3, <1>t, KeyStays
      <4> QED
        BY <2>1, <4>6, OnlyTheRequest
    <3>2. CASE u \notin Custody!User
      <4>1. custody' = custody
        BY <3>0, <3>2, <1>t DEF CustodyTyped
      <4> QED
        BY <4>1, <2>1, <1>k, OnlyTheRequest
    <3> QED
      BY <3>1, <3>2
  <2>6. CASE UNCHANGED custody
    BY <2>1, <2>6, <1>k, OnlyTheRequest
  <2> QED
    BY <1>8, <2>3, <2>4, <2>5, <2>6
       DEF Custody!repairStep, Custody!repairStarts, Custody!loadFails, Custody!accountMissing,
           Custody!accountFound
<1>9. ASSUME NEW u \in Custody!User, Custody!cooldownEnds(u)
      PROVE  CustodyInv'
  <2> DEFINE d == [custody[u] EXCEPT !["cooling"] = FALSE]
  <2>1. UNCHANGED <<keyRequest, shown>> /\ custody' = [custody EXCEPT ![u] = d]
    BY <1>9 DEF Custody!cooldownEnds
  <2>2. AccountShape(d) /\ d.publicKey = custody[u].publicKey
    BY <1>t, ShapeIsKept DEF CustodyTyped
  <2> HIDE DEF d
  <2>3. KeysStay
    BY <2>1, <2>2, <1>t, KeyStays
  <2> QED
    BY <2>1, <2>3, OnlyTheRequest
<1>10. CASE Custody!custodyRestart
  <2>0. UNCHANGED <<custody, shown>>
    BY <1>10 DEF Custody!custodyRestart
  <2> DEFINE R == [step : {"idle", "store", "fund", "trust", "mark", "answer", "done"},
                   user : Custody!User \cup {1}]
  <2>1. \A p \in Caller : keyRequest'[p] \in R /\ keyRequest'[p].step \in {"idle", "done"}
    <3> SUFFICES ASSUME NEW p \in Caller
                 PROVE  keyRequest'[p] \in R /\ keyRequest'[p].step \in {"idle", "done"}
      OBVIOUS
    <3> DEFINE s == IF keyRequest[p].step = "idle" THEN keyRequest[p].step ELSE "done"
    <3>1. keyRequest[p] \in R /\ s \in {"idle", "done"}
      BY <1>t DEF CustodyTyped
    <3>2. keyRequest'[p] = [keyRequest[p] EXCEPT !.step = s]
      BY <1>10 DEF Custody!custodyRestart
    <3> HIDE DEF s
    <3> QED
      BY <3>1, <3>2
  <2>2. keyRequest' = [p \in Caller |-> keyRequest'[p]]
    BY <1>10 DEF Custody!custodyRestart
  <2>3. keyRequest' \in [Caller -> R] /\ \A p \in Caller : ~Provisions(p)' /\ ~HasStored(p)'
                                                          /\ keyRequest'[p].step # "store"
    BY <2>1, <2>2 DEF Provisions, HasStored
  <2> QED
    BY <2>0, <2>3, <1>t DEF CustodyInv, CustodyTyped
<1> QED
  BY <1>1, <1>2, <1>3, <1>4, <1>5, <1>6, <1>7, <1>8, <1>9, <1>10
     DEF Custody!CustodyNext, Custody!provisionStep

LEMMA CustodyStarts == Init => CustodyInv
BY DEF Init, Custody!CustodyInit, CustodyInv, CustodyTyped, AccountShape, HasStored, Provisions,
       Custody!NoKey

-----------------------------------------------------------------------------
(* Idempotency: what is stored under a key is the answer of a request that *)
(* ran under it, and one that has its answer moves no more.                *)
IdempotencyInv ==
  /\ Idempotency!IdempotencyTypeOK
  /\ \A r \in Request : call[r].step # "none" => call[r].key \in RequestKey
  /\ \A r \in ran : call[r].step = "answered"
  /\ \A k \in RequestKey : store[k] # "none" => store[k] \in ran /\ call[store[k]].key = k
  /\ Idempotency!OwnAnswer

AnyCall == [step : {"none", "lookup", "run", "runUnseen", "answered"},
            user : Requester \cup {"none"}, key : RequestKey \cup {"none"}, got : Request \cup {"none"}]

(* A request that is not answered yet goes on under its user and its key.  *)
LEMMA CallGoesOn ==
  ASSUME IdempotencyInv, NEW r \in Request, NEW d \in AnyCall, call[r].step # "answered",
         call' = [call EXCEPT ![r] = d], d.step # "none" => d.key \in RequestKey
  PROVE  /\ call' \in [Request -> AnyCall] /\ call'[r] = d
         /\ \A s \in Request : s # r => call'[s] = call[s]
         /\ \A s \in ran : call'[s] = call[s]
         /\ \A s \in Request : call'[s].step # "none" => call'[s].key \in RequestKey
<1>1. call \in [Request -> AnyCall] /\ ran \subseteq Request
  BY DEF IdempotencyInv, Idempotency!IdempotencyTypeOK, AnyCall
<1>2. call' \in [Request -> AnyCall] /\ call'[r] = d /\ \A s \in Request : s # r => call'[s] = call[s]
  BY <1>1
<1>3. \A s \in ran : s # r
  BY DEF IdempotencyInv
<1> QED
  BY <1>1, <1>2, <1>3 DEF IdempotencyInv

LEMMA IdempotencyKept ==
  ASSUME "none" \notin Request, IdempotencyInv, [Idempotency!IdempotencyNext]_idempotencyVars
  PROVE  IdempotencyInv'
<1> USE DEF AnyCall
<1>t. /\ call \in [Request -> AnyCall] /\ store \in [RequestKey -> Request \cup {"none"}]
      /\ saving \subseteq ran /\ ran \subseteq Request
  BY DEF IdempotencyInv, Idempotency!IdempotencyTypeOK
<1>1. CASE UNCHANGED idempotencyVars
  BY <1>1 DEF idempotencyVars, IdempotencyInv, Idempotency!IdempotencyTypeOK, Idempotency!OwnAnswer
<1>2. ASSUME NEW r \in Request, NEW u \in Requester, NEW k \in RequestKey, Idempotency!arrive(r, u, k)
      PROVE  IdempotencyInv'
  <2> DEFINE d == [step |-> "lookup", user |-> u, key |-> k, got |-> "none"]
  <2>1. /\ d \in AnyCall /\ d.key \in RequestKey /\ d.step = "lookup" /\ call[r].step # "answered"
        /\ call' = [call EXCEPT ![r] = d] /\ UNCHANGED <<store, saving, ran>>
    BY <1>2 DEF Idempotency!arrive
  <2> HIDE DEF d
  <2>2. /\ call' \in [Request -> AnyCall] /\ call'[r] = d
        /\ \A s \in Request : s # r => call'[s] = call[s]
        /\ \A s \in ran : call'[s] = call[s]
        /\ \A s \in Request : call'[s].step # "none" => call'[s].key \in RequestKey
    BY <2>1, CallGoesOn
  <2>3. Idempotency!IdempotencyTypeOK'
    BY <2>1, <2>2, <1>t DEF Idempotency!IdempotencyTypeOK
  <2>4. Idempotency!OwnAnswer'
    BY <2>1, <2>2, <1>t DEF IdempotencyInv, Idempotency!OwnAnswer
  <2> QED
    BY <2>1, <2>2, <2>3, <2>4, <1>t DEF IdempotencyInv
<1>3. ASSUME NEW r \in Request, Idempotency!idempotencyReplays(r)
      PROVE  IdempotencyInv'
  <2> DEFINE s0 == store[call[r].key]
  <2> DEFINE d == [call[r] EXCEPT !.step = "answered", !.got = s0]
  <2>0. /\ call[r] \in AnyCall /\ call[r].step = "lookup" /\ call[r].key \in RequestKey
        /\ s0 \in ran /\ call[s0].key = call[r].key /\ call[s0].user = call[r].user
    BY <1>3, <1>t DEF Idempotency!idempotencyReplays, Idempotency!Stored, IdempotencyInv
  <2>1. /\ call' = [call EXCEPT ![r] = d] /\ UNCHANGED <<store, saving, ran>>
    BY <1>3 DEF Idempotency!idempotencyReplays
  <2> HIDE DEF s0
  <2>2. /\ d \in AnyCall /\ d.step = "answered" /\ d.got = s0
        /\ d.key = call[r].key /\ d.user = call[r].user
    BY <2>0, <1>t
  <2> HIDE DEF d
  <2>3. /\ call' \in [Request -> AnyCall] /\ call'[r] = d
        /\ \A s \in Request : s # r => call'[s] = call[s]
        /\ \A s \in ran : call'[s] = call[s]
        /\ \A s \in Request : call'[s].step # "none" => call'[s].key \in RequestKey
    BY <2>0, <2>1, <2>2, CallGoesOn
  <2>4. Idempotency!IdempotencyTypeOK'
    BY <2>1, <2>3, <1>t DEF Idempotency!IdempotencyTypeOK
  <2>5. Idempotency!OwnAnswer'
    <3> SUFFICES ASSUME NEW s \in Request, call'[s].step = "answered"
                 PROVE  /\ call'[s].got \in ran' /\ call'[call'[s].got].user = call'[s].user
                        /\ call'[call'[s].got].key = call'[s].key
      BY DEF Idempotency!OwnAnswer
    <3>1. CASE s = r
      BY <3>1, <2>0, <2>1, <2>2, <2>3
    <3>2. CASE s # r
      BY <3>2, <2>1, <2>3 DEF IdempotencyInv, Idempotency!OwnAnswer
    <3> QED
      BY <3>1, <3>2
  <2> QED
    BY <2>1, <2>3, <2>4, <2>5, <1>t DEF IdempotencyInv
<1>4. ASSUME NEW r \in Request, Idempotency!idempotencyPasses(r)
      PROVE  IdempotencyInv'
  <2>1. PICK s1 \in {"run", "runUnseen"} : Idempotency!Moves(r, s1)
    BY <1>4 DEF Idempotency!idempotencyPasses
  <2> DEFINE d == [call[r] EXCEPT !.step = s1]
  <2>0. call[r] \in AnyCall /\ call[r].step = "lookup" /\ call[r].key \in RequestKey
    BY <1>4, <1>t DEF Idempotency!idempotencyPasses, IdempotencyInv
  <2>2. /\ call' = [call EXCEPT ![r] = d] /\ UNCHANGED <<store, saving, ran>>
    BY <1>4, <2>1 DEF Idempotency!idempotencyPasses, Idempotency!Moves
  <2>3. d \in AnyCall /\ d.step # "answered" /\ d.key = call[r].key
    BY <2>0
  <2> HIDE DEF d
  <2>4. /\ call' \in [Request -> AnyCall] /\ call'[r] = d
        /\ \A s \in Request : s # r => call'[s] = call[s]
        /\ \A s \in ran : call'[s] = call[s]
        /\ \A s \in Request : call'[s].step # "none" => call'[s].key \in RequestKey
    BY <2>0, <2>2, <2>3, CallGoesOn
  <2>5. Idempotency!IdempotencyTypeOK'
    BY <2>2, <2>4, <1>t DEF Idempotency!IdempotencyTypeOK
  <2>6. Idempotency!OwnAnswer'
    BY <2>2, <2>3, <2>4 DEF IdempotencyInv, Idempotency!OwnAnswer
  <2> QED
    BY <2>2, <2>4, <2>5, <2>6, <1>t DEF IdempotencyInv
<1>5. ASSUME NEW r \in Request, Idempotency!handlerAnswers(r)
      PROVE  IdempotencyInv'
  <2> DEFINE d == [call[r] EXCEPT !.step = "answered", !.got = r]
  <2>0. call[r] \in AnyCall /\ call[r].step \in {"run", "runUnseen"} /\ call[r].key \in RequestKey
    BY <1>5, <1>t DEF Idempotency!handlerAnswers, IdempotencyInv
  <2>1. /\ call' = [call EXCEPT ![r] = d] /\ UNCHANGED store
        /\ ran' = ran \cup {r} /\ saving' \subseteq saving \cup {r}
    BY <1>5 DEF Idempotency!handlerAnswers
  <2>2. d \in AnyCall /\ d.step = "answered" /\ d.got = r /\ d.key = call[r].key /\ d.user = call[r].user
    BY <2>0
  <2> HIDE DEF d
  <2>3. /\ call' \in [Request -> AnyCall] /\ call'[r] = d
        /\ \A s \in Request : s # r => call'[s] = call[s]
        /\ \A s \in ran : call'[s] = call[s]
        /\ \A s \in Request : call'[s].step # "none" => call'[s].key \in RequestKey
    BY <2>0, <2>1, <2>2, CallGoesOn
  <2>4. Idempotency!IdempotencyTypeOK'
    BY <2>1, <2>3, <1>t DEF Idempotency!IdempotencyTypeOK
  <2>5. Idempotency!OwnAnswer'
    BY <2>1, <2>2, <2>3 DEF IdempotencyInv, Idempotency!OwnAnswer
  <2> QED
    BY <2>1, <2>2, <2>3, <2>4, <2>5, <1>t DEF IdempotencyInv
<1>6. ASSUME NEW r \in Request, Idempotency!storeAnswer(r)
      PROVE  IdempotencyInv'
  <2>1. r \in ran /\ UNCHANGED <<call, ran>> /\ saving' \subseteq saving /\ call[r].key \in RequestKey
    BY <1>6, <1>t DEF Idempotency!storeAnswer, IdempotencyInv
  <2>2. store' = store \/ store' = [store EXCEPT ![call[r].key] = r]
    BY <1>6 DEF Idempotency!storeAnswer
  <2>3. /\ store' \in [RequestKey -> Request \cup {"none"}]
        /\ \A k \in RequestKey : store'[k] = store[k] \/ (k = call[r].key /\ store'[k] = r)
    BY <2>1, <2>2, <1>t
  <2> QED
    BY <2>1, <2>3, <1>t DEF IdempotencyInv, Idempotency!IdempotencyTypeOK, Idempotency!OwnAnswer
<1>7. ASSUME NEW k \in RequestKey, Idempotency!expire(k)
      PROVE  IdempotencyInv'
  BY <1>7, <1>t DEF Idempotency!expire, IdempotencyInv, Idempotency!IdempotencyTypeOK,
                    Idempotency!OwnAnswer
<1>8. CASE Idempotency!idempotencyRestart
  BY <1>8, <1>t DEF Idempotency!idempotencyRestart, IdempotencyInv, Idempotency!IdempotencyTypeOK,
                    Idempotency!OwnAnswer
<1> QED
  BY <1>1, <1>2, <1>3, <1>4, <1>5, <1>6, <1>7, <1>8 DEF Idempotency!IdempotencyNext

LEMMA IdempotencyStarts == "none" \notin Request /\ Init => IdempotencyInv
BY DEF Init, Idempotency!IdempotencyInit, IdempotencyInv, Idempotency!IdempotencyTypeOK,
       Idempotency!OwnAnswer, Idempotency!NotArrived

-----------------------------------------------------------------------------
(* Receipts: one issuer at a time is at a transaction's documents, the     *)
(* transaction is completed meanwhile, and a number that was taken is      *)
(* stored or about to be.                                                  *)
Takes == {"payoutNumber", "number"}
Stores == {"payoutStore", "store"}
Issuing == Takes \cup Stores \cup {"read"}
NumberOf(t, s) == IF s = "SRV" THEN t.SRV ELSE t.BOL
Busy(i, o) == issuer[i].step \in Issuing /\ issuer[i].op = o
Stored(i, o, s) == issuer[i].step \in Stores /\ issuer[i].op = o /\ issuer[i].series = s

TxDoc == [status : {"in_transit", "completed"}, BOL : Nat, url : BOOLEAN, SRV : Nat]
IssuerDoc == [step : Issuing \cup {"idle", "claim"}, op : Operation \cup {"none"},
              series : Receipts!Series, number : Nat]

ReceiptTyped ==
  /\ tx \in [Operation -> TxDoc] /\ seq \in [Receipts!Series -> Nat]
  /\ issuer \in [Issuer -> IssuerDoc]
  /\ issued \subseteq [series : Receipts!Series, number : Nat \ {0}, op : Operation]
  /\ \A i \in Issuer : issuer[i].step # "idle" => issuer[i].op \in Operation
  /\ \A i \in Issuer : issuer[i].step \in {"claim", "payoutNumber", "payoutStore"} =>
       issuer[i].series = "BOL" /\ issuer[i].op \in Manual

IssuedOnce ==
  /\ \A o \in Operation \ Manual : tx[o].BOL # 0 => tx[o].url
  /\ \A i \in Issuer : issuer[i].step \in Issuing => tx[issuer[i].op].status = "completed"
  /\ \A o \in Operation, i, j \in Issuer : Busy(i, o) /\ Busy(j, o) => i = j
  /\ \A i \in Issuer : issuer[i].step \in Takes =>
       \A d \in issued : d.op = issuer[i].op => d.series # issuer[i].series
  /\ \A i \in Issuer : issuer[i].step \in Stores =>
       \E d \in issued : d.op = issuer[i].op /\ d.series = issuer[i].series /\ d.number = issuer[i].number
  /\ \A d \in issued : \/ NumberOf(tx[d.op], d.series) = d.number
                       \/ \E i \in Issuer : Stored(i, d.op, d.series)

ReceiptInv == ReceiptTyped /\ IssuedOnce /\ Receipts!OneNumber

(* A step that takes no number: one issuer, at one transaction.            *)
MovesOn(i, r, o, t) ==
  /\ issuer' = [issuer EXCEPT ![i] = r] /\ tx' = [tx EXCEPT ![o] = t] /\ UNCHANGED <<seq, issued>>
  /\ r \in IssuerDoc /\ t \in TxDoc
  /\ issuer[i].step # "idle" => issuer[i].op = o
  /\ r.step # "idle" => r.op = o
  /\ r.step \in {"claim", "payoutNumber", "payoutStore"} => r.series = "BOL" /\ o \in Manual
  /\ o \notin Manual /\ t.BOL # 0 => t.url
  /\ r.step \in Issuing => t.status = "completed" /\ \A j \in Issuer \ {i} : ~Busy(j, o)
  /\ (\E j \in Issuer \ {i} : Busy(j, o)) => t.status = "completed"
  /\ r.step \in Takes => \A d \in issued : d.op = o => d.series # r.series
  /\ r.step \notin Stores
  /\ \A d \in issued : d.op = o => \/ NumberOf(t, d.series) = d.number
                                   \/ \E j \in Issuer \ {i} : Stored(j, o, d.series)

LEMMA ReceiptMoves ==
  ASSUME ReceiptInv, NEW i \in Issuer, NEW r, NEW o \in Operation, NEW t, MovesOn(i, r, o, t)
  PROVE  ReceiptInv'
<1> USE DEF MovesOn
<1>1. /\ issuer' \in [Issuer -> IssuerDoc] /\ issuer'[i] = r
      /\ \A j \in Issuer : j # i => issuer'[j] = issuer[j]
  BY DEF ReceiptInv, ReceiptTyped
<1>2. /\ tx' \in [Operation -> TxDoc] /\ tx'[o] = t
      /\ \A p \in Operation : p # o => tx'[p] = tx[p]
  BY DEF ReceiptInv, ReceiptTyped
<1>3. ReceiptTyped'
  <2>1. \A j \in Issuer : issuer'[j].step # "idle" => issuer'[j].op \in Operation
    BY <1>1 DEF ReceiptInv, ReceiptTyped
  <2>2. \A j \in Issuer : issuer'[j].step \in {"claim", "payoutNumber", "payoutStore"} =>
          issuer'[j].series = "BOL" /\ issuer'[j].op \in Manual
    BY <1>1 DEF ReceiptInv, ReceiptTyped
  <2> QED
    BY <1>1, <1>2, <2>1, <2>2 DEF ReceiptInv, ReceiptTyped
<1>4. \A p \in Operation \ Manual : tx'[p].BOL # 0 => tx'[p].url
  BY <1>2 DEF ReceiptInv, IssuedOnce
<1>5. \A j \in Issuer : issuer'[j].step \in Issuing => tx'[issuer'[j].op].status = "completed"
  <2> SUFFICES ASSUME NEW j \in Issuer, issuer'[j].step \in Issuing
               PROVE  tx'[issuer'[j].op].status = "completed"
    OBVIOUS
  <2>1. CASE j = i
    BY <2>1, <1>1, <1>2 DEF Issuing, Takes, Stores
  <2>2. CASE j # i
    <3>1. issuer'[j] = issuer[j] /\ issuer[j].op \in Operation /\ tx[issuer[j].op].status = "completed"
      BY <2>2, <1>1 DEF ReceiptInv, ReceiptTyped, IssuedOnce, Issuing, Takes, Stores
    <3>2. issuer[j].op = o => Busy(j, o)
      BY <3>1 DEF Busy
    <3> QED
      BY <3>1, <3>2, <2>2, <1>2
  <2> QED
    BY <2>1, <2>2
<1>6. \A p \in Operation, j, k \in Issuer : Busy(j, p)' /\ Busy(k, p)' => j = k
  <2>1. \A p \in Operation, j \in Issuer : j # i => (Busy(j, p)' <=> Busy(j, p))
    BY <1>1 DEF Busy
  <2>2. \A p \in Operation : Busy(i, p)' => p = o /\ \A j \in Issuer \ {i} : ~Busy(j, o)
    BY <1>1 DEF Busy, Issuing, Takes, Stores
  <2>3. \A p \in Operation, j, k \in Issuer : Busy(j, p) /\ Busy(k, p) => j = k
    BY DEF ReceiptInv, IssuedOnce
  <2> QED
    BY <2>1, <2>2, <2>3
<1>7. \A j \in Issuer : issuer'[j].step \in Takes =>
        \A d \in issued' : d.op = issuer'[j].op => d.series # issuer'[j].series
  BY <1>1 DEF ReceiptInv, IssuedOnce, Takes
<1>8. \A j \in Issuer : issuer'[j].step \in Stores =>
        \E d \in issued' : d.op = issuer'[j].op /\ d.series = issuer'[j].series /\ d.number = issuer'[j].number
  BY <1>1 DEF ReceiptInv, IssuedOnce
<1>9. \A d \in issued' : \/ NumberOf(tx'[d.op], d.series) = d.number
                         \/ \E j \in Issuer : Stored(j, d.op, d.series)'
  <2> SUFFICES ASSUME NEW d \in issued
               PROVE  \/ NumberOf(tx'[d.op], d.series) = d.number
                      \/ \E j \in Issuer : Stored(j, d.op, d.series)'
    OBVIOUS
  <2>1. d.op \in Operation
    BY DEF ReceiptInv, ReceiptTyped
  <2>2. \A j \in Issuer \ {i} : Stored(j, d.op, d.series) => Stored(j, d.op, d.series)'
    BY <1>1 DEF Stored
  <2>3. CASE d.op = o
    BY <2>2, <2>3, <1>2
  <2>4. CASE d.op # o
    <3>1. ~Stored(i, d.op, d.series)
      BY <2>4 DEF Stored, Stores
    <3> QED
      BY <2>1, <2>2, <2>4, <3>1, <1>2 DEF ReceiptInv, IssuedOnce
  <2> QED
    BY <2>3, <2>4
<1> QED
  BY <1>3, <1>4, <1>5, <1>6, <1>7, <1>8, <1>9 DEF ReceiptInv, IssuedOnce, Receipts!OneNumber

LEMMA ReceiptKept ==
  ASSUME Midway = FALSE, StoreFails = FALSE, ReceiptInv, [Receipts!ReceiptNext]_receiptVars
  PROVE  ReceiptInv'
<1>t. ReceiptTyped /\ IssuedOnce
  BY DEF ReceiptInv
<1>b. \A o \in Operation : tx[o].status = "in_transit" => \A j \in Issuer : ~Busy(j, o)
  BY <1>t DEF IssuedOnce, Busy
<1>c. \A o \in Operation : Receipts!LeftAlone(o) => \A j \in Issuer : ~Busy(j, o)
  BY DEF Receipts!LeftAlone, Busy, Issuing, Takes, Stores
<1>d. ASSUME NEW o \in Operation, \A j \in Issuer : ~Busy(j, o)
      PROVE  \A d \in issued : d.op = o => NumberOf(tx[o], d.series) = d.number /\ d.number # 0
  <2>1. \A j \in Issuer, s \in Receipts!Series : ~Stored(j, o, s)
    BY <1>d DEF Busy, Stored, Issuing
  <2>2. \A d \in issued : d.series \in Receipts!Series /\ d.number # 0
    BY <1>t DEF ReceiptTyped
  <2> QED
    BY <2>1, <2>2, <1>t DEF IssuedOnce
<1>r. Receipts!Resting \in IssuerDoc /\ Receipts!Resting.step = "idle"
  BY DEF IssuerDoc, Receipts!Resting, Receipts!Series
<1>e. \A i \in Issuer : issuer[i] \in IssuerDoc
  BY <1>t DEF ReceiptTyped
<1>f. \A o \in Operation : tx[o] \in TxDoc
  BY <1>t DEF ReceiptTyped
<1>g. \A o \in Operation : tx' = [tx EXCEPT ![o] = tx[o]] <=> tx' = tx
  BY <1>t DEF ReceiptTyped
<1>1. CASE UNCHANGED receiptVars
  BY <1>1 DEF receiptVars, ReceiptInv, ReceiptTyped, IssuedOnce, Receipts!OneNumber, Busy, Stored
<1>2. ASSUME NEW i \in Issuer, Receipts!payoutClaims(i)
      PROVE  ReceiptInv'
  <2>p. PICK o \in Operation : o = issuer[i].op
    BY <1>2, <1>t DEF Receipts!payoutClaims, ReceiptTyped
  <2>0. issuer[i].step = "claim" /\ o \in Manual /\ UNCHANGED <<seq, issued>>
    BY <1>2, <2>p, <1>t DEF Receipts!payoutClaims, ReceiptTyped
  <2>1. CASE Receipts!Claimable(o)
    <3> DEFINE r == [step |-> "payoutNumber", op |-> o, series |-> "BOL", number |-> 0]
    <3> DEFINE t == [tx[o] EXCEPT !.status = "completed"]
    <3>1. /\ r \in IssuerDoc /\ r.step = "payoutNumber" /\ r.op = o /\ r.series = "BOL"
      BY DEF IssuerDoc, Issuing, Takes, Receipts!Series
    <3>2. tx[o].status = "in_transit" /\ tx[o].BOL = 0
      BY <2>1 DEF Receipts!Claimable
    <3>3. /\ t \in TxDoc /\ t.status = "completed" /\ t.BOL = tx[o].BOL /\ t.SRV = tx[o].SRV
      BY <1>f DEF TxDoc
    <3>4. issuer' = [issuer EXCEPT ![i] = r] /\ tx' = [tx EXCEPT ![o] = t]
      BY <1>2, <2>p, <2>1 DEF Receipts!payoutClaims, Receipts!Does
    <3> HIDE DEF r, t
    <3>5. \A d \in issued : d.op = o => /\ d.series # "BOL"
                                       /\ NumberOf(t, d.series) = d.number
      BY <1>b, <1>d, <3>2, <3>3, <1>t DEF NumberOf, ReceiptTyped, Receipts!Series
    <3>20. MovesOn(i, r, o, t)
      BY <1>t, <1>b, <2>0, <2>p, <3>1, <3>2, <3>3, <3>4, <3>5 DEF MovesOn, Stores
    <3> QED
      BY <3>20, ReceiptMoves
  <2>2. CASE ~Receipts!Claimable(o)
    <3>1. issuer' = [issuer EXCEPT ![i] = Receipts!Resting] /\ tx' = [tx EXCEPT ![o] = tx[o]]
      BY <1>2, <2>p, <2>2, <1>g DEF Receipts!payoutClaims, Receipts!Rests
    <3>2. \A j \in Issuer \ {i} : Busy(j, o) => tx[o].status = "completed"
      BY <1>t DEF IssuedOnce, Busy
    <3>3. \A d \in issued : d.op = o => \/ NumberOf(tx[o], d.series) = d.number
                                       \/ \E j \in Issuer \ {i} : Stored(j, o, d.series)
      BY <2>0, <1>t DEF IssuedOnce, Stored, Stores
    <3>4. o \notin Manual /\ tx[o].BOL # 0 => tx[o].url
      BY <1>t DEF IssuedOnce
    <3>20. MovesOn(i, Receipts!Resting, o, tx[o])
      BY <1>t, <1>f, <1>r, <2>0, <2>p, <3>1, <3>2, <3>3, <3>4 DEF MovesOn, Stores, Issuing, Takes
    <3> QED
      BY <3>20, ReceiptMoves
  <2> QED
    BY <2>1, <2>2
<1>3. ASSUME NEW i \in Issuer, Receipts!generarNumeroCorrelativo(i)
      PROVE  ReceiptInv'
  <2>p. PICK o \in Operation, s \in Receipts!Series : o = issuer[i].op /\ s = issuer[i].series
    BY <1>3, <1>t, <1>e DEF Receipts!generarNumeroCorrelativo, ReceiptTyped, IssuerDoc
  <2> DEFINE n == seq[s] + 1
  <2> DEFINE step == IF issuer[i].step = "number" THEN "store" ELSE "payoutStore"
  <2> DEFINE r == [issuer[i] EXCEPT !.step = step, !.number = n]
  <2> DEFINE new == [series |-> s, number |-> n, op |-> o]
  <2>0. /\ issuer[i].step \in Takes /\ UNCHANGED tx
        /\ seq' = [seq EXCEPT ![s] = @ + 1]
        /\ issuer' = [issuer EXCEPT ![i].step = step, ![i].number = seq'[s]]
        /\ issued' = issued \cup {[series |-> s, number |-> seq'[s], op |-> o]}
    BY <1>3, <2>p DEF Receipts!generarNumeroCorrelativo, Takes
  <2>1. n \in Nat \ {0} /\ seq' \in [Receipts!Series -> Nat] /\ seq'[s] = n
    BY <2>0, <1>t DEF ReceiptTyped
  <2>2. issuer' = [issuer EXCEPT ![i] = r]
    BY <2>0, <2>1
  <2>3. step \in Stores /\ (step = "payoutStore" => issuer[i].step = "payoutNumber")
    BY <2>0 DEF Takes, Stores
  <2> HIDE DEF n, step
  <2>4. /\ r \in IssuerDoc /\ r.step = step /\ r.op = o /\ r.series = s /\ r.number = n
    BY <2>1, <2>3, <2>p, <1>e DEF IssuerDoc, Issuing, Stores
  <2>5. /\ new \in [series : Receipts!Series, number : Nat \ {0}, op : Operation]
        /\ new.series = s /\ new.number = n /\ new.op = o
    BY <2>1
  <2>6. issued' = issued \cup {new}
    BY <2>0, <2>1
  <2> HIDE DEF r, new
  <2>7. /\ issuer' \in [Issuer -> IssuerDoc] /\ issuer'[i] = r
        /\ \A j \in Issuer : j # i => issuer'[j] = issuer[j]
    BY <2>2, <2>4, <1>t DEF ReceiptTyped
  <2>8. ReceiptTyped'
    <3>1. \A j \in Issuer : issuer'[j].step # "idle" => issuer'[j].op \in Operation
      BY <2>7, <2>4, <1>t DEF ReceiptTyped
    <3>2. \A j \in Issuer : issuer'[j].step \in {"claim", "payoutNumber", "payoutStore"} =>
            issuer'[j].series = "BOL" /\ issuer'[j].op \in Manual
      BY <2>7, <2>4, <2>3, <2>p, <1>t DEF ReceiptTyped, Stores
    <3> QED
      BY <2>0, <2>1, <2>5, <2>6, <2>7, <3>1, <3>2, <1>t DEF ReceiptTyped
  <2>9. \A j \in Issuer, p \in Operation : Busy(j, p)' => Busy(j, p)
    BY <2>0, <2>4, <2>7, <2>p DEF Busy, Issuing
  <2>10. Busy(i, o)
    BY <2>0, <2>p DEF Busy, Issuing
  <2>11. \A j \in Issuer : j # i => ~Busy(j, o)
    BY <2>10, <1>t DEF IssuedOnce
  <2>12. \A d \in issued : d.op = o => d.series # s
    BY <2>0, <2>p, <1>t DEF IssuedOnce
  <2>13. \A j \in Issuer : issuer'[j].step \in Issuing => tx'[issuer'[j].op].status = "completed"
    <3> SUFFICES ASSUME NEW j \in Issuer, issuer'[j].step \in Issuing
                 PROVE  tx[issuer'[j].op].status = "completed"
      BY <2>0
    <3>1. issuer'[j].op = issuer[j].op /\ issuer[j].step \in Issuing
      BY <2>0, <2>4, <2>7, <2>p DEF Issuing
    <3> QED
      BY <3>1, <1>t DEF IssuedOnce
  <2>14. \A j \in Issuer : issuer'[j].step \in Takes =>
           \A d \in issued' : d.op = issuer'[j].op => d.series # issuer'[j].series
    <3> SUFFICES ASSUME NEW j \in Issuer, issuer'[j].step \in Takes
                 PROVE  \A d \in issued' : d.op = issuer'[j].op => d.series # issuer'[j].series
      OBVIOUS
    <3>1. j # i
      BY <2>3, <2>4, <2>7 DEF Takes, Stores
    <3>2. issuer'[j] = issuer[j] /\ issuer[j].op # o
      BY <3>1, <2>7, <2>11 DEF Busy, Issuing
    <3> QED
      BY <3>2, <2>5, <2>6, <1>t DEF IssuedOnce
  <2>15. \A j \in Issuer : issuer'[j].step \in Stores =>
           \E d \in issued' : d.op = issuer'[j].op /\ d.series = issuer'[j].series /\ d.number = issuer'[j].number
    <3> SUFFICES ASSUME NEW j \in Issuer, issuer'[j].step \in Stores
                 PROVE  \E d \in issued' : d.op = issuer'[j].op /\ d.series = issuer'[j].series
                                                              /\ d.number = issuer'[j].number
      OBVIOUS
    <3>1. CASE j = i
      BY <3>1, <2>4, <2>5, <2>6, <2>7
    <3>2. CASE j # i
      BY <3>2, <2>6, <2>7, <1>t DEF IssuedOnce
    <3> QED
      BY <3>1, <3>2
  <2>16. \A d \in issued' : \/ NumberOf(tx'[d.op], d.series) = d.number
                            \/ \E j \in Issuer : Stored(j, d.op, d.series)'
    <3>1. Stored(i, o, s)'
      BY <2>3, <2>4, <2>7 DEF Stored
    <3>2. \A j \in Issuer, p \in Operation, q \in Receipts!Series : Stored(j, p, q) => Stored(j, p, q)'
      BY <2>7, <2>0 DEF Stored, Takes, Stores
    <3>3. \A d \in issued : d.op \in Operation /\ d.series \in Receipts!Series
      BY <1>t DEF ReceiptTyped
    <3>4. \A d \in issued : \/ NumberOf(tx'[d.op], d.series) = d.number
                            \/ \E j \in Issuer : Stored(j, d.op, d.series)'
      BY <3>2, <3>3, <2>0, <1>t DEF IssuedOnce
    <3> QED
      BY <3>1, <3>4, <2>5, <2>6
  <2>17. Receipts!OneNumber'
    BY <2>5, <2>6, <2>12 DEF ReceiptInv, Receipts!OneNumber
  <2> QED
    BY <2>0, <2>8, <2>9, <2>13, <2>14, <2>15, <2>16, <2>17, <1>t DEF ReceiptInv, IssuedOnce

<1>o. ASSUME NEW i \in Issuer, NEW o \in Operation, issuer[i].step \in Stores, issuer[i].op = o
      PROVE  /\ tx[o].status = "completed" /\ \A j \in Issuer \ {i} : ~Busy(j, o)
             /\ \A d \in issued : d.op = o =>
                  IF d.series = issuer[i].series THEN d.number = issuer[i].number
                  ELSE NumberOf(tx[o], d.series) = d.number
  <2>1. Busy(i, o)
    BY <1>o DEF Busy, Issuing
  <2>2. tx[o].status = "completed" /\ \A j \in Issuer \ {i} : ~Busy(j, o)
    BY <2>1, <1>o, <1>t DEF IssuedOnce, Issuing
  <2>3. PICK e \in issued : e.op = o /\ e.series = issuer[i].series /\ e.number = issuer[i].number
    BY <1>o, <1>t DEF IssuedOnce
  <2>4. \A d \in issued : d.op = o /\ d.series = issuer[i].series => d.number = issuer[i].number
    BY <2>3 DEF ReceiptInv, Receipts!OneNumber
  <2>5. ASSUME NEW d \in issued, d.op = o, d.series # issuer[i].series
        PROVE  NumberOf(tx[o], d.series) = d.number
    <3>1. \A j \in Issuer : ~Stored(j, o, d.series)
      BY <2>2, <2>5 DEF Stored, Busy, Issuing
    <3> QED
      BY <3>1, <2>5, <1>t DEF IssuedOnce
  <2> QED
    BY <2>2, <2>4, <2>5
<1>4. ASSUME NEW i \in Issuer, Receipts!payoutStores(i)
      PROVE  ReceiptInv'
  <2>p. PICK o \in Operation : o = issuer[i].op
    BY <1>4, <1>t DEF Receipts!payoutStores, ReceiptTyped
  <2> DEFINE n == issuer[i].number
  <2> DEFINE t == [tx[o] EXCEPT !.BOL = n]
  <2>0. /\ issuer[i].step = "payoutStore" /\ issuer[i].series = "BOL" /\ o \in Manual
        /\ UNCHANGED <<seq, issued>> /\ tx' = [tx EXCEPT ![o] = t]
    BY <1>4, <2>p, <1>t DEF Receipts!payoutStores, ReceiptTyped
  <2>1. n \in Nat
    BY <1>e DEF IssuerDoc
  <2> HIDE DEF n
  <2>2. /\ t \in TxDoc /\ t.status = tx[o].status /\ t.BOL = n /\ t.SRV = tx[o].SRV
    BY <1>f, <2>1 DEF TxDoc
  <2> HIDE DEF t
  <2>3. /\ t.status = "completed" /\ \A j \in Issuer \ {i} : ~Busy(j, o)
        /\ \A d \in issued : d.op = o => NumberOf(t, d.series) = d.number
    BY <1>o, <1>t, <2>p, <2>0, <2>2 DEF Stores, NumberOf, ReceiptTyped, Receipts!Series, n
  <2>4. CASE Receipts!Rests(i)
    <3>1. issuer' = [issuer EXCEPT ![i] = Receipts!Resting]
      BY <2>4 DEF Receipts!Rests
    <3>20. MovesOn(i, Receipts!Resting, o, t)
      BY <1>t, <1>r, <2>p, <2>0, <2>2, <2>3, <3>1 DEF MovesOn, Issuing, Takes, Stores
    <3> QED
      BY <3>20, ReceiptMoves
  <2>5. CASE Receipts!Does(i, "read", o, "SRV")
    <3> DEFINE r == [step |-> "read", op |-> o, series |-> "SRV", number |-> 0]
    <3>1. issuer' = [issuer EXCEPT ![i] = r]
      BY <2>5 DEF Receipts!Does
    <3>2. r \in IssuerDoc /\ r.step = "read" /\ r.op = o
      BY DEF IssuerDoc, Issuing, Receipts!Series
    <3> HIDE DEF r
    <3>20. MovesOn(i, r, o, t)
      BY <1>t, <2>p, <2>0, <2>2, <2>3, <3>1, <3>2 DEF MovesOn, Takes, Stores
    <3> QED
      BY <3>20, ReceiptMoves
  <2> QED
    BY <1>4, <2>p, <2>4, <2>5 DEF Receipts!payoutStores
<1>5. ASSUME NEW i \in Issuer, Receipts!storesDocument(i)
      PROVE  ReceiptInv'
  <2>p. PICK o \in Operation : o = issuer[i].op
    BY <1>5, <1>t DEF Receipts!storesDocument, ReceiptTyped
  <2> DEFINE n == issuer[i].number
  <2> DEFINE t == IF issuer[i].series = "SRV" THEN [tx[o] EXCEPT !.SRV = n]
                  ELSE [tx[o] EXCEPT !.BOL = n, !.url = TRUE]
  <2>0. /\ issuer[i].step = "store" /\ UNCHANGED <<seq, issued>>
        /\ tx' = [tx EXCEPT ![o] = t] /\ issuer' = [issuer EXCEPT ![i] = Receipts!Resting]
    BY <1>5, <2>p DEF Receipts!storesDocument, Receipts!Rests
  <2>1. n \in Nat /\ issuer[i].series \in Receipts!Series
    BY <1>e DEF IssuerDoc
  <2> HIDE DEF n
  <2>2. /\ t \in TxDoc /\ t.status = tx[o].status
        /\ issuer[i].series = "SRV" => t.SRV = n /\ t.BOL = tx[o].BOL /\ t.url = tx[o].url
        /\ issuer[i].series # "SRV" => t.BOL = n /\ t.SRV = tx[o].SRV /\ t.url = TRUE
    BY <1>f, <2>1 DEF TxDoc
  <2> HIDE DEF t
  <2>3. /\ t.status = "completed" /\ \A j \in Issuer \ {i} : ~Busy(j, o)
        /\ \A d \in issued : d.op = o => NumberOf(t, d.series) = d.number
    BY <1>o, <1>t, <2>p, <2>0, <2>1, <2>2 DEF Stores, NumberOf, ReceiptTyped, Receipts!Series, n
  <2>4. o \notin Manual /\ t.BOL # 0 => t.url
    BY <2>2, <1>t DEF IssuedOnce
  <2>20. MovesOn(i, Receipts!Resting, o, t)
    BY <1>t, <1>r, <2>p, <2>0, <2>2, <2>3, <2>4 DEF MovesOn, Issuing, Takes, Stores
  <2> QED
    BY <2>20, ReceiptMoves
<1>u. \A o \in Operation : o \notin Manual /\ tx[o].BOL # 0 => tx[o].url
  BY <1>t DEF IssuedOnce
<1>6. ASSUME NEW i \in Issuer, Receipts!autoGenerateBusinessInvoice(i)
      PROVE  ReceiptInv'
  <2>p. PICK o \in Operation : o = issuer[i].op
    BY <1>6, <1>t DEF Receipts!autoGenerateBusinessInvoice, ReceiptTyped
  <2>0. issuer[i].step = "read" /\ UNCHANGED <<seq, issued>> /\ tx' = [tx EXCEPT ![o] = tx[o]]
    BY <1>6, <1>g DEF Receipts!autoGenerateBusinessInvoice
  <2>1. tx[o].status = "completed" /\ \A j \in Issuer \ {i} : ~Busy(j, o)
    BY <2>0, <2>p, <1>t DEF IssuedOnce, Busy, Issuing
  <2>2. \A d \in issued : d.op = o => NumberOf(tx[o], d.series) = d.number /\ d.number # 0
    <3>1. \A j \in Issuer, s \in Receipts!Series : ~Stored(j, o, s)
      BY <2>0, <2>1 DEF Busy, Stored, Issuing, Stores
    <3> QED
      BY <3>1, <1>t DEF IssuedOnce, ReceiptTyped
  <2>3. CASE tx[o].SRV # 0
    <3>1. issuer' = [issuer EXCEPT ![i] = Receipts!Resting]
      BY <1>6, <2>p, <2>3 DEF Receipts!autoGenerateBusinessInvoice, Receipts!Rests
    <3>20. MovesOn(i, Receipts!Resting, o, tx[o])
      BY <1>t, <1>f, <1>r, <1>u, <2>p, <2>0, <2>1, <2>2, <3>1 DEF MovesOn, Issuing, Takes, Stores
    <3> QED
      BY <3>20, ReceiptMoves
  <2>4. CASE tx[o].SRV = 0
    <3> DEFINE r == [step |-> "number", op |-> o, series |-> "SRV", number |-> 0]
    <3>1. issuer' = [issuer EXCEPT ![i] = r]
      BY <1>6, <2>p, <2>4 DEF Receipts!autoGenerateBusinessInvoice, Receipts!Does
    <3>2. r \in IssuerDoc /\ r.step = "number" /\ r.op = o /\ r.series = "SRV"
      BY DEF IssuerDoc, Issuing, Takes, Receipts!Series
    <3> HIDE DEF r
    <3>3. \A d \in issued : d.op = o => d.series # "SRV"
      BY <2>2, <2>4 DEF NumberOf
    <3>20. MovesOn(i, r, o, tx[o])
      BY <1>t, <1>f, <1>u, <2>p, <2>0, <2>1, <2>2, <3>1, <3>2, <3>3 DEF MovesOn, Stores
    <3> QED
      BY <3>20, ReceiptMoves
  <2> QED
    BY <2>3, <2>4, <1>f DEF TxDoc
<1>7. ASSUME NEW i \in Issuer, NEW o \in Operation, Receipts!payoutReads(i, o)
      PROVE  ReceiptInv'
  <2> DEFINE r == [step |-> "claim", op |-> o, series |-> "BOL", number |-> 0]
  <2>0. /\ issuer[i].step = "idle" /\ o \in Manual /\ tx[o].status = "in_transit"
        /\ issuer' = [issuer EXCEPT ![i] = r] /\ tx' = [tx EXCEPT ![o] = tx[o]]
        /\ UNCHANGED <<seq, issued>>
    BY <1>7, <1>g DEF Receipts!payoutReads, Receipts!Does
  <2>1. r \in IssuerDoc /\ r.step = "claim" /\ r.op = o /\ r.series = "BOL"
    BY DEF IssuerDoc, Receipts!Series
  <2> HIDE DEF r
  <2>20. MovesOn(i, r, o, tx[o])
    BY <1>t, <1>b, <1>d, <1>f, <2>0, <2>1 DEF MovesOn, Issuing, Takes, Stores
  <2> QED
    BY <2>20, ReceiptMoves
<1>8. ASSUME NEW i \in Issuer, NEW o \in Operation, Receipts!generateComprobanteOnCompletion(i, o)
      PROVE  ReceiptInv'
  <2> DEFINE t == [tx[o] EXCEPT !.status = "completed"]
  <2>0. /\ issuer[i].step = "idle" /\ o \notin Manual /\ tx[o].status = "in_transit"
        /\ tx' = [tx EXCEPT ![o] = t] /\ UNCHANGED <<seq, issued>>
    BY <1>8 DEF Receipts!generateComprobanteOnCompletion
  <2>1. t \in TxDoc /\ t.status = "completed" /\ t.BOL = tx[o].BOL /\ t.SRV = tx[o].SRV /\ t.url = tx[o].url
    BY <1>f DEF TxDoc
  <2> HIDE DEF t
  <2>2. /\ \A j \in Issuer : ~Busy(j, o)
        /\ \A d \in issued : d.op = o => NumberOf(tx[o], d.series) = d.number /\ d.number # 0
    BY <1>b, <1>d, <2>0
  <2>3. \A d \in issued : d.op = o => NumberOf(t, d.series) = d.number
    BY <2>1, <2>2 DEF NumberOf
  <2>4. CASE Receipts!HasDocument(o)
    <3>1. issuer' = [issuer EXCEPT ![i] = issuer[i]]
      BY <1>8, <2>4, <1>t DEF Receipts!generateComprobanteOnCompletion, ReceiptTyped
    <3>20. MovesOn(i, issuer[i], o, t)
      BY <1>t, <1>e, <1>u, <2>0, <2>1, <2>2, <2>3, <3>1 DEF MovesOn, Issuing, Takes, Stores
    <3> QED
      BY <3>20, ReceiptMoves
  <2>5. CASE ~Receipts!HasDocument(o)
    <3> DEFINE s == Receipts!SeriesOf(o)
    <3> DEFINE r == [step |-> "number", op |-> o, series |-> s, number |-> 0]
    <3>1. issuer' = [issuer EXCEPT ![i] = r]
      BY <1>8, <2>5 DEF Receipts!generateComprobanteOnCompletion, Receipts!Does
    <3>2. s \in Receipts!Series /\ NumberOf(tx[o], s) = 0
      BY <2>0, <2>5, <1>f, <1>u DEF Receipts!HasDocument, Receipts!SeriesOf, NumberOf, Receipts!Series, TxDoc
    <3> HIDE DEF s
    <3>3. r \in IssuerDoc /\ r.step = "number" /\ r.op = o /\ r.series = s
      BY <3>2 DEF IssuerDoc, Issuing, Takes
    <3> HIDE DEF r
    <3>4. \A d \in issued : d.op = o => d.series # s
      BY <2>2, <3>2
    <3>20. MovesOn(i, r, o, t)
      BY <1>t, <1>u, <2>0, <2>1, <2>2, <2>3, <3>1, <3>3, <3>4 DEF MovesOn, Stores
    <3> QED
      BY <3>20, ReceiptMoves
  <2> QED
    BY <2>4, <2>5
<1>9. ASSUME NEW i \in Issuer, NEW o \in Operation, Receipts!generateAndStreamPDF(i, o)
      PROVE  ReceiptInv'
  <2> DEFINE r == [step |-> "number", op |-> o, series |-> "SRV", number |-> 0]
  <2>0. /\ issuer[i].step = "idle" /\ tx[o].status = "completed" /\ tx[o].SRV = 0
        /\ issuer' = [issuer EXCEPT ![i] = r] /\ tx' = [tx EXCEPT ![o] = tx[o]]
        /\ UNCHANGED <<seq, issued>> /\ Receipts!LeftAlone(o)
    BY <1>9, <1>g DEF Receipts!generateAndStreamPDF, Receipts!Does
  <2>1. r \in IssuerDoc /\ r.step = "number" /\ r.op = o /\ r.series = "SRV"
    BY DEF IssuerDoc, Issuing, Takes, Receipts!Series
  <2> HIDE DEF r
  <2>2. /\ \A j \in Issuer : ~Busy(j, o)
        /\ \A d \in issued : d.op = o => NumberOf(tx[o], d.series) = d.number /\ d.number # 0
    BY <1>c, <1>d, <2>0
  <2>3. \A d \in issued : d.op = o => d.series # "SRV"
    BY <2>0, <2>2 DEF NumberOf
  <2>20. MovesOn(i, r, o, tx[o])
    BY <1>t, <1>f, <1>u, <2>0, <2>1, <2>2, <2>3 DEF MovesOn, Stores
  <2> QED
    BY <2>20, ReceiptMoves
<1>10. ASSUME NEW i \in Issuer, NEW o \in Operation, Receipts!regenerateComprobante(i, o)
       PROVE  ReceiptInv'
  <2>0. /\ issuer[i].step = "idle" /\ tx[o].status = "completed"
        /\ UNCHANGED <<seq, issued>> /\ Receipts!LeftAlone(o)
    BY <1>10 DEF Receipts!regenerateComprobante
  <2>2. /\ \A j \in Issuer : ~Busy(j, o)
        /\ \A d \in issued : d.op = o => NumberOf(tx[o], d.series) = d.number /\ d.number # 0
    BY <1>c, <1>d, <2>0
  <2>3. CASE tx[o].BOL = 0
    <3> DEFINE r == [step |-> "number", op |-> o, series |-> "BOL", number |-> 0]
    <3>1. issuer' = [issuer EXCEPT ![i] = r] /\ tx' = [tx EXCEPT ![o] = tx[o]]
      BY <1>10, <1>g, <2>3 DEF Receipts!regenerateComprobante, Receipts!Does
    <3>2. r \in IssuerDoc /\ r.step = "number" /\ r.op = o /\ r.series = "BOL"
      BY DEF IssuerDoc, Issuing, Takes, Receipts!Series
    <3> HIDE DEF r
    <3>3. \A d \in issued : d.op = o => d.series # "BOL"
      BY <2>2, <2>3 DEF NumberOf
    <3>20. MovesOn(i, r, o, tx[o])
      BY <1>t, <1>f, <1>u, <2>0, <2>2, <3>1, <3>2, <3>3 DEF MovesOn, Stores
    <3> QED
      BY <3>20, ReceiptMoves
  <2>4. CASE tx[o].BOL # 0
    <3> DEFINE t == [tx[o] EXCEPT !.url = TRUE]
    <3>1. issuer' = [issuer EXCEPT ![i] = issuer[i]] /\ tx' = [tx EXCEPT ![o] = t]
      BY <1>10, <2>4, <1>t DEF Receipts!regenerateComprobante, ReceiptTyped
    <3>2. t \in TxDoc /\ t.url = TRUE /\ t.BOL = tx[o].BOL /\ t.SRV = tx[o].SRV
      BY <1>f DEF TxDoc
    <3> HIDE DEF t
    <3>3. \A d \in issued : d.op = o => NumberOf(t, d.series) = d.number
      BY <2>2, <3>2 DEF NumberOf
    <3>20. MovesOn(i, issuer[i], o, t)
      BY <1>t, <1>e, <2>0, <2>2, <3>1, <3>2, <3>3 DEF MovesOn, Issuing, Takes, Stores
    <3> QED
      BY <3>20, ReceiptMoves
  <2> QED
    BY <2>3, <2>4
<1>11. ASSUME NEW o \in Operation, Receipts!revertStatus(o)
       PROVE  ReceiptInv'
  <2> DEFINE t == [tx[o] EXCEPT !.status = "in_transit"]
  <2>0. UNCHANGED <<seq, issuer, issued>> /\ Receipts!LeftAlone(o) /\ tx' = [tx EXCEPT ![o] = t]
    BY <1>11 DEF Receipts!revertStatus
  <2>1. t \in TxDoc /\ t.BOL = tx[o].BOL /\ t.SRV = tx[o].SRV /\ t.url = tx[o].url
    BY <1>f DEF TxDoc
  <2> HIDE DEF t
  <2>2. /\ tx' \in [Operation -> TxDoc] /\ \A p \in Operation : p # o => tx'[p] = tx[p]
        /\ tx'[o] = t
    BY <2>0, <2>1, <1>t DEF ReceiptTyped
  <2>3. \A p \in Operation : tx'[p].BOL = tx[p].BOL /\ tx'[p].SRV = tx[p].SRV /\ tx'[p].url = tx[p].url
    BY <2>1, <2>2
  <2>4. ReceiptTyped'
    BY <2>0, <2>2, <1>t DEF ReceiptTyped
  <2>5. \A i \in Issuer : issuer'[i].step \in Issuing => tx'[issuer'[i].op].status = "completed"
    <3> SUFFICES ASSUME NEW i \in Issuer, issuer[i].step \in Issuing
                 PROVE  tx'[issuer[i].op].status = "completed"
      BY <2>0
    <3>1. issuer[i].op # o /\ issuer[i].op \in Operation
      BY <1>c, <2>0, <1>t DEF Busy, ReceiptTyped, Issuing, Takes, Stores
    <3> QED
      BY <3>1, <2>2, <1>t DEF IssuedOnce
  <2>6. \A d \in issued' : \/ NumberOf(tx'[d.op], d.series) = d.number
                           \/ \E i \in Issuer : Stored(i, d.op, d.series)'
    <3> SUFFICES ASSUME NEW d \in issued
                 PROVE  \/ NumberOf(tx'[d.op], d.series) = d.number
                        \/ \E i \in Issuer : Stored(i, d.op, d.series)'
      BY <2>0
    <3>1. d.op \in Operation
      BY <1>t DEF ReceiptTyped
    <3> QED
      BY <3>1, <2>0, <2>3, <1>t DEF IssuedOnce, Stored, NumberOf
  <2> QED
    BY <2>0, <2>3, <2>4, <2>5, <2>6, <1>t DEF ReceiptInv, IssuedOnce, Receipts!OneNumber, Busy
<1> QED
  BY <1>1, <1>2, <1>3, <1>4, <1>5, <1>6, <1>7, <1>8, <1>9, <1>10, <1>11 DEF Receipts!ReceiptNext

LEMMA ReceiptStarts == Init => ReceiptInv
BY DEF Init, Receipts!ReceiptInit, ReceiptInv, ReceiptTyped, IssuedOnce, Receipts!OneNumber, TxDoc,
       IssuerDoc, Receipts!Unpaid, Receipts!Resting, Receipts!Series, Issuing, Takes, Stores, Busy

-----------------------------------------------------------------------------
(* Sessions: why a closed one is not let in.  It was revoked, and no       *)
(* answer that says otherwise is younger than its end; or the account has  *)
(* a later version, and no copy of the old one is.                         *)
AccountDoc == [version : Nat, active : BOOLEAN, jti : Session \cup {"none"}]
Entry == [at : Int, version : Nat, active : BOOLEAN]

SessionTyped ==
  /\ account \in AccountDoc
  /\ login \in [Session -> [step : {"none", "replace", "issue"}, saw : AccountDoc]]
  /\ token \in [Session -> Int] /\ reset \in Int
  /\ request \in [Session -> [step : {"none", "cache", "check", "jti"}, saw : Entry]]
  /\ users \in Entry /\ jtis \in [Session -> [at : Int, revoked : BOOLEAN]]
  /\ clock \in 0 .. MaxTime /\ closed \in [Session -> Int] /\ served \in [Session -> Int]

InTime ==
  /\ users.at <= clock
  /\ \A s \in Session :
       /\ jtis[s].at <= clock /\ served[s] <= clock /\ request[s].saw.at <= clock
       /\ request[s].step \in {"cache", "check"} => clock - request[s].saw.at < TTL

Versions ==
  /\ reset >= 0 => account.version = reset
  /\ \A s \in Session :
       /\ token[s] <= account.version /\ login[s].saw.version <= account.version
       /\ login[s].step # "none" => token[s] = -1

ByRevocation(s) == s \in revoked /\ (jtis[s].revoked \/ jtis[s].at <= closed[s])
ByVersion(s) ==
  /\ token[s] < account.version
  /\ users.version = token[s] => users.at <= closed[s]
  /\ \A t \in Session : request[t].saw.version = token[s] => request[t].saw.at <= closed[s]
  /\ request[s].step = "jti" => clock - closed[s] < TTL
ClosedFor(s) ==
  \/ closed[s] = Sessions!Never
  \/ closed[s] \in 0 .. clock /\ token[s] >= 0 /\ (ByRevocation(s) \/ ByVersion(s))

SessionInv ==
  /\ SessionTyped /\ InTime /\ Versions /\ Sessions!ClosedIsOut
  /\ \A s \in Session : ClosedFor(s)

TimeAssumption == MaxTime \in Nat /\ TTL \in Nat \ {0}

(* A request goes from one step to the next.                               *)
LEMMA RequestAsks ==
  ASSUME SessionInv, NEW s \in Session, NEW step \in {"none", "cache", "check", "jti"}, NEW e \in Entry,
         Sessions!Asks(s, step, e)
  PROVE  /\ request' \in [Session -> [step : {"none", "cache", "check", "jti"}, saw : Entry]]
         /\ request'[s].step = step /\ request'[s].saw = e
         /\ \A t \in Session : t # s => request'[t] = request[t]
BY DEF SessionInv, SessionTyped, Sessions!Asks

LEMMA NoEntryIsOld ==
  ASSUME TimeAssumption
  PROVE  /\ Sessions!NoEntry \in Entry /\ Sessions!NoEntry.at < 0
         /\ Sessions!NoEntry.at \in Int /\ Sessions!NoEntry.version \in Nat
BY DEF TimeAssumption, Sessions!NoEntry, Entry

(* What ends sessions at this time, of those in S, for a reason each has.  *)
LEMMA SessionsClose ==
  ASSUME TimeAssumption, SessionInv, NEW S, Sessions!Closes(S)
  PROVE  /\ closed' \in [Session -> Int]
         /\ \A s \in Session : \/ closed'[s] = closed[s] /\ ~(s \in S /\ token[s] >= 0 /\ closed[s] = Sessions!Never)
                               \/ /\ s \in S /\ token[s] >= 0 /\ closed[s] = Sessions!Never
                                  /\ closed'[s] = clock
         /\ served' = served => Sessions!ClosedIsOut'
<1>1. closed' \in [Session -> Int]
  BY DEF SessionInv, SessionTyped, Sessions!Closes
<1>2. \A s \in Session : \/ closed'[s] = closed[s] /\ ~(s \in S /\ token[s] >= 0 /\ closed[s] = Sessions!Never)
                         \/ /\ s \in S /\ token[s] >= 0 /\ closed[s] = Sessions!Never
                            /\ closed'[s] = clock
  BY DEF Sessions!Closes
<1>3. ASSUME served' = served
      PROVE  Sessions!ClosedIsOut'
  BY <1>1, <1>2, <1>3 DEF SessionInv, SessionTyped, InTime, Sessions!ClosedIsOut, TimeAssumption
<1> QED
  BY <1>1, <1>2, <1>3

(* A step of an account or a login that ends no session.                   *)
LEMMA NothingCloses ==
  ASSUME TimeAssumption, SessionInv, UNCHANGED <<closed, served, jtis, request, clock>>,
         revoked \subseteq revoked',
         account' \in AccountDoc, account'.version = account.version,
         users' = users \/ users' = Sessions!NoEntry,
         \A s \in Session : token'[s] = token[s] \/ token[s] = -1
  PROVE  \A s \in Session : ClosedFor(s)'
<1> SUFFICES ASSUME NEW s \in Session
             PROVE  ClosedFor(s)'
  OBVIOUS
<1>1. CASE closed[s] = Sessions!Never
  BY <1>1 DEF ClosedFor, Sessions!Never
<1>2. CASE closed[s] \in 0 .. clock /\ token[s] >= 0 /\ (ByRevocation(s) \/ ByVersion(s))
  <2>1. token'[s] = token[s]
    BY <1>2
  <2>2. users'.version = token[s] => users'.at <= closed[s] \/ users' = users
    BY <1>2, NoEntryIsOld DEF SessionInv, SessionTyped, TimeAssumption
  <2>3. ByVersion(s) => ByVersion(s)'
    BY <2>1, <2>2 DEF ByVersion
  <2>4. ByRevocation(s) => ByRevocation(s)'
    BY DEF ByRevocation
  <2> QED
    BY <1>2, <2>1, <2>3, <2>4 DEF ClosedFor
<1> QED
  BY <1>1, <1>2 DEF SessionInv, ClosedFor

(* Whatever raises the version ends every session that is open.            *)
LEMMA VersionGrows ==
  ASSUME TimeAssumption, SessionInv, Sessions!Closes(Session),
         account' \in AccountDoc, account'.version = account.version + 1,
         users' = Sessions!NoEntry, UNCHANGED <<token, revoked, request, jtis, served, clock>>
  PROVE  /\ closed' \in [Session -> Int] /\ Sessions!ClosedIsOut' /\ InTime'
         /\ \A s \in Session : ClosedFor(s)'
<1>t. SessionTyped /\ InTime /\ Versions
  BY DEF SessionInv
<1>1. /\ closed' \in [Session -> Int]
      /\ \A t \in Session : \/ closed'[t] = closed[t]
                            \/ token[t] >= 0 /\ closed'[t] = clock
      /\ Sessions!ClosedIsOut'
  BY SessionsClose
<1>2. InTime'
  BY <1>t, NoEntryIsOld DEF InTime, SessionTyped
<1>3. ASSUME NEW s \in Session
      PROVE  ClosedFor(s)'
  <2>0. /\ token[s] \in Int /\ account.version \in Nat /\ token[s] <= account.version
        /\ clock \in 0 .. MaxTime
    BY <1>t DEF SessionTyped, Versions, AccountDoc
  <2>1. CASE closed'[s] = closed[s] /\ closed[s] = Sessions!Never
    BY <2>1 DEF ClosedFor, Sessions!Never
  <2>2. CASE closed'[s] = closed[s] /\ closed[s] # Sessions!Never
    <3>1. ByVersion(s) => ByVersion(s)'
      BY <2>0, <2>2, NoEntryIsOld DEF ByVersion, ClosedFor, SessionInv
    <3>2. ByRevocation(s) => ByRevocation(s)'
      BY <2>2 DEF ByRevocation
    <3> QED
      BY <2>2, <3>1, <3>2 DEF ClosedFor, SessionInv
  <2>3. CASE token[s] >= 0 /\ closed'[s] = clock
    <3>1. token'[s] < account'.version
      BY <2>0
    <3>2. \A t \in Session : request'[t].saw.at <= closed'[s]
      BY <2>3, <1>t DEF InTime
    <3>3. users'.at <= closed'[s]
      BY <2>0, <2>3, NoEntryIsOld, <1>t DEF TimeAssumption
    <3>4. clock' - closed'[s] < TTL
      BY <2>0, <2>3 DEF TimeAssumption
    <3>5. ByVersion(s)'
      BY <3>1, <3>2, <3>3, <3>4 DEF ByVersion
    <3> QED
      BY <2>0, <2>3, <3>5 DEF ClosedFor
  <2> QED
    BY <1>1, <2>1, <2>2, <2>3
<1> QED
  BY <1>1, <1>2, <1>3

LEMMA SessionKept ==
  ASSUME TimeAssumption, Overlap = FALSE, SessionInv, [Sessions!SessionNext]_sessionVars
  PROVE  SessionInv'
<1> DEFINE Logins == [step : {"none", "replace", "issue"}, saw : AccountDoc]
<1>t. SessionTyped /\ InTime /\ Versions /\ Sessions!ClosedIsOut /\ \A s \in Session : ClosedFor(s)
  BY DEF SessionInv
<1>a. account \in AccountDoc /\ account.version \in Nat /\ account.active \in BOOLEAN
      /\ account.jti \in Session \cup {"none"}
  BY <1>t DEF SessionTyped, AccountDoc
<1>l. \A s \in Session : login[s] \in Logins /\ login[s].saw \in AccountDoc /\ login[s].saw.version \in Nat
  BY <1>t DEF SessionTyped, AccountDoc
<1>e. ASSUME NEW s \in Session
      PROVE  /\ request[s].saw \in Entry /\ users \in Entry /\ Sessions!NoEntry \in Entry
             /\ users.at \in Int /\ request[s].saw.at \in Int
  BY <1>t, NoEntryIsOld DEF SessionTyped, Entry
<1>1. CASE UNCHANGED sessionVars
  BY <1>1, <1>t DEF sessionVars, SessionInv, SessionTyped, InTime, Versions, Sessions!ClosedIsOut,
       ClosedFor, ByRevocation, ByVersion
<1>2. ASSUME NEW s \in Session, Sessions!loginUser(s)
      PROVE  SessionInv'
  <2> DEFINE step == IF account.jti # "none" /\ ~TwoFactor THEN "replace" ELSE "issue"
  <2> DEFINE r == [step |-> step, saw |-> account]
  <2>1. /\ token[s] = -1 /\ login' = [login EXCEPT ![s] = r]
        /\ UNCHANGED <<account, token, revoked, reset, users, closed, request, jtis, served, clock>>
    BY <1>2 DEF Sessions!loginUser, Sessions!guardVars
  <2>2. r \in Logins /\ r.saw = account
    BY <1>a
  <2> HIDE DEF r
  <2>3. /\ login' \in [Session -> Logins] /\ login'[s] = r
        /\ \A t \in Session : t # s => login'[t] = login[t]
    BY <2>1, <2>2, <1>t DEF SessionTyped
  <2>4. SessionTyped' /\ InTime' /\ Sessions!ClosedIsOut'
    BY <2>1, <2>3, <1>t DEF SessionTyped, InTime, Sessions!ClosedIsOut
  <2>5. Versions'
    BY <2>1, <2>2, <2>3, <1>a, <1>t DEF Versions
  <2>6. \A t \in Session : ClosedFor(t)'
    BY <2>1, <1>a, NothingCloses
  <2> QED
    BY <2>4, <2>5, <2>6 DEF SessionInv
<1>3. ASSUME NEW s \in Session, Sessions!revokePrevious(s)
      PROVE  SessionInv'
  <2> DEFINE p == login[s].saw.jti
  <2> DEFINE r == [login[s] EXCEPT !.step = "issue"]
  <2>1. /\ login[s].step = "replace" /\ login' = [login EXCEPT ![s] = r]
        /\ revoked' = revoked \cup {p} /\ Sessions!Closes({p})
        /\ UNCHANGED <<account, token, reset, users, request, jtis, served, clock>>
    BY <1>3 DEF Sessions!revokePrevious, Sessions!guardVars
  <2> HIDE DEF p
  <2>2. r \in Logins /\ r.saw = login[s].saw
    BY <1>l
  <2> HIDE DEF r
  <2>3. /\ login' \in [Session -> Logins] /\ login'[s] = r
        /\ \A t \in Session : t # s => login'[t] = login[t]
    BY <2>1, <2>2, <1>t DEF SessionTyped
  <2>4. /\ closed' \in [Session -> Int]
        /\ \A t \in Session : \/ closed'[t] = closed[t]
                              \/ t = p /\ token[t] >= 0 /\ closed'[t] = clock
        /\ Sessions!ClosedIsOut'
    BY <2>1, SessionsClose, <1>t
  <2>5. SessionTyped' /\ InTime'
    BY <2>1, <2>3, <2>4, <1>t DEF SessionTyped, InTime
  <2>6. Versions'
    BY <2>1, <2>2, <2>3, <1>t DEF Versions
  <2>7. \A t \in Session : ClosedFor(t)'
    <3> SUFFICES ASSUME NEW t \in Session
                 PROVE  ClosedFor(t)'
      OBVIOUS
    <3>1. CASE closed'[t] = closed[t]
      <4>1. ByVersion(t) => ByVersion(t)'
        BY <3>1, <2>1 DEF ByVersion
      <4>2. ByRevocation(t) => ByRevocation(t)'
        BY <3>1, <2>1 DEF ByRevocation
      <4> QED
        BY <3>1, <4>1, <4>2, <2>1, <1>t DEF ClosedFor, Sessions!Never
    <3>2. CASE t = p /\ token[t] >= 0 /\ closed'[t] = clock
      BY <3>2, <2>1, <1>t DEF ClosedFor, ByRevocation, InTime, SessionTyped
    <3> QED
      BY <3>1, <3>2, <2>4
  <2> QED
    BY <2>4, <2>5, <2>6, <2>7 DEF SessionInv
<1>4. ASSUME NEW s \in Session, Sessions!issueSession(s)
      PROVE  SessionInv'
  <2> DEFINE r == [step |-> "none", saw |-> Sessions!NoAccount]
  <2>1. /\ login[s].step = "issue" /\ login' = [login EXCEPT ![s] = r]
        /\ account' = [account EXCEPT !.jti = s] /\ token' = [token EXCEPT ![s] = login[s].saw.version]
        /\ users' = Sessions!NoEntry
        /\ UNCHANGED <<revoked, reset, closed, request, jtis, served, clock>>
    BY <1>4 DEF Sessions!issueSession, Sessions!guardVars
  <2>2. r \in Logins /\ r.saw.version = 0 /\ r.step = "none"
    BY DEF Sessions!NoAccount, AccountDoc
  <2> HIDE DEF r
  <2>3. /\ login' \in [Session -> Logins] /\ login'[s] = r
        /\ \A t \in Session : t # s => login'[t] = login[t]
    BY <2>1, <2>2, <1>t DEF SessionTyped
  <2>4. /\ token' \in [Session -> Int] /\ token'[s] = login[s].saw.version
        /\ \A t \in Session : t # s => token'[t] = token[t]
    BY <2>1, <1>l, <1>t DEF SessionTyped
  <2>5. account' \in AccountDoc /\ account'.version = account.version
    BY <2>1, <1>a DEF AccountDoc
  <2>6. SessionTyped' /\ InTime'
    BY <2>1, <2>3, <2>4, <2>5, <1>t, <1>e, NoEntryIsOld DEF SessionTyped, InTime
  <2>7. Versions'
    BY <2>1, <2>2, <2>3, <2>4, <2>5, <1>a, <1>t DEF Versions
  <2>8. \A t \in Session : ClosedFor(t)'
    <3>1. \A t \in Session : token'[t] = token[t] \/ token[t] = -1
      BY <2>1, <2>4, <1>t DEF Versions
    <3> QED
      BY <2>1, <2>5, <3>1, NothingCloses
  <2> QED
    BY <2>1, <2>6, <2>7, <2>8, <1>t DEF SessionInv, Sessions!ClosedIsOut
<1>5. ASSUME NEW s \in Session, Sessions!logoutUser(s)
      PROVE  SessionInv'
  <2>1. /\ token[s] >= 0 /\ revoked' = revoked \cup {s} /\ Sessions!Closes({s})
        /\ account' = (IF account.jti = s THEN [account EXCEPT !.jti = "none"] ELSE account)
        /\ users' = Sessions!NoEntry
        /\ UNCHANGED <<login, token, reset, request, jtis, served, clock>>
    BY <1>5 DEF Sessions!logoutUser, Sessions!guardVars
  <2>2. account' \in AccountDoc /\ account'.version = account.version
    BY <2>1, <1>a DEF AccountDoc
  <2>4. /\ closed' \in [Session -> Int]
        /\ \A t \in Session : \/ closed'[t] = closed[t]
                              \/ t = s /\ token[t] >= 0 /\ closed'[t] = clock
        /\ Sessions!ClosedIsOut'
    BY <2>1, SessionsClose, <1>t
  <2>5. SessionTyped' /\ InTime'
    BY <2>1, <2>2, <2>4, <1>e, <1>t, NoEntryIsOld DEF SessionTyped, InTime
  <2>6. Versions'
    BY <2>1, <2>2, <1>t DEF Versions
  <2>7. \A t \in Session : ClosedFor(t)'
    <3> SUFFICES ASSUME NEW t \in Session
                 PROVE  ClosedFor(t)'
      OBVIOUS
    <3>1. CASE closed'[t] = closed[t] /\ closed[t] # Sessions!Never
      <4>1. ByVersion(t) => ByVersion(t)'
        BY <3>1, <2>1, <2>2, <1>t, NoEntryIsOld DEF ByVersion, ClosedFor
      <4>2. ByRevocation(t) => ByRevocation(t)'
        BY <3>1, <2>1 DEF ByRevocation
      <4> QED
        BY <3>1, <4>1, <4>2, <2>1, <1>t DEF ClosedFor
    <3>2. CASE t = s /\ token[t] >= 0 /\ closed'[t] = clock
      BY <3>2, <2>1, <1>t DEF ClosedFor, ByRevocation, InTime, SessionTyped
    <3>3. CASE closed'[t] = closed[t] /\ closed[t] = Sessions!Never
      BY <3>3 DEF ClosedFor, Sessions!Never
    <3> QED
      BY <3>1, <3>2, <3>3, <2>4
  <2> QED
    BY <2>4, <2>5, <2>6, <2>7 DEF SessionInv
<1>6. CASE Sessions!forgotPassword \/ Sessions!resetReads
  <2>1. /\ reset' \in Int /\ (reset' >= 0 => reset' = account.version)
        /\ UNCHANGED <<account, login, token, revoked, users, closed, request, jtis, served, clock>>
    BY <1>6, <1>a DEF Sessions!forgotPassword, Sessions!resetReads, Sessions!guardVars, Sessions!Mailed
  <2> QED
    BY <2>1, <1>t DEF SessionInv, SessionTyped, InTime, Versions, Sessions!ClosedIsOut,
         ClosedFor, ByRevocation, ByVersion, Sessions!Never

<1>7. CASE Sessions!resetPassword
  <2>1. /\ reset >= 0 /\ account' = [account EXCEPT !.version = reset + 1]
        /\ users' = Sessions!NoEntry /\ Sessions!Closes(Session) /\ reset' = -2
        /\ UNCHANGED <<login, token, revoked, request, jtis, served, clock>>
    BY <1>7 DEF Sessions!resetPassword, Sessions!guardVars, Sessions!bump, Sessions!NoLink
  <2>2. account' \in AccountDoc /\ account'.version = account.version + 1
    BY <2>1, <1>a, <1>t DEF AccountDoc, Versions
  <2>3. /\ closed' \in [Session -> Int] /\ Sessions!ClosedIsOut' /\ InTime'
        /\ \A s \in Session : ClosedFor(s)'
    BY <2>1, <2>2, VersionGrows
  <2>4. SessionTyped'
    BY <2>1, <2>2, <2>3, <1>e, <1>t, NoEntryIsOld DEF SessionTyped
  <2>5. Versions'
    BY <2>1, <2>2, <1>a, <1>l, <1>t DEF Versions, SessionTyped
  <2> QED
    BY <2>3, <2>4, <2>5 DEF SessionInv
<1>8. ASSUME NEW s \in Session, NEW n \in Session, Sessions!changePassword(s, n)
      PROVE  SessionInv'
  <2> DEFINE r == [step |-> "issue", saw |-> account']
  <2>1. /\ reset < 0 /\ token[n] = -1 /\ account' = [account EXCEPT !.version = @ + 1]
        /\ users' = Sessions!NoEntry /\ Sessions!Closes(Session)
        /\ login' = [login EXCEPT ![n] = r]
        /\ UNCHANGED <<token, revoked, reset, request, jtis, served, clock>>
    BY <1>8 DEF Sessions!changePassword, Sessions!guardVars, Sessions!bump
  <2>2. account' \in AccountDoc /\ account'.version = account.version + 1
    BY <2>1, <1>a DEF AccountDoc
  <2>3. /\ closed' \in [Session -> Int] /\ Sessions!ClosedIsOut' /\ InTime'
        /\ \A t \in Session : ClosedFor(t)'
    BY <2>1, <2>2, VersionGrows
  <2>6. r \in Logins /\ r.saw = account'
    BY <2>2
  <2> HIDE DEF r
  <2>7. /\ login' \in [Session -> Logins] /\ login'[n] = r
        /\ \A t \in Session : t # n => login'[t] = login[t]
    BY <2>1, <2>6, <1>t DEF SessionTyped
  <2>4. SessionTyped'
    BY <2>1, <2>2, <2>3, <2>7, <1>e, <1>t, NoEntryIsOld DEF SessionTyped
  <2>5. Versions'
    <3> SUFFICES ASSUME NEW t \in Session
                 PROVE  /\ token[t] <= account'.version /\ login'[t].saw.version <= account'.version
                        /\ login'[t].step # "none" => token[t] = -1
      BY <2>1, <1>t DEF Versions, SessionTyped
    <3>1. token[t] <= account'.version
      BY <2>2, <1>a, <1>t DEF Versions, SessionTyped
    <3>2. CASE t = n
      <4>1. login'[t].saw = account'
        BY <3>2, <2>6, <2>7
      <4>2. account'.version \in Nat
        BY <2>2, <1>a
      <4>3. login'[t].saw.version <= account'.version
        BY <4>1, <4>2
      <4> QED
        BY <3>1, <3>2, <4>3, <2>1
    <3>3. CASE t # n
      BY <3>1, <3>3, <2>2, <2>7, <1>a, <1>l, <1>t DEF Versions
    <3> QED
      BY <3>2, <3>3
  <2> QED
    BY <2>3, <2>4, <2>5 DEF SessionInv
<1>9. CASE Sessions!suspend
  <2> DEFINE v == account.version + 1
  <2>1. /\ reset < 0 /\ account' = [account EXCEPT !.active = FALSE, !.version = v]
        /\ users' = Sessions!NoEntry /\ Sessions!Closes(Session)
        /\ UNCHANGED <<login, token, revoked, reset, request, jtis, served, clock>>
    BY <1>9 DEF Sessions!suspend, Sessions!guardVars, Sessions!bump
  <2>0. v \in Nat
    BY <1>a
  <2> HIDE DEF v
  <2>6. account' \in AccountDoc /\ account'.version = v
    BY <2>0, <2>1, <1>a DEF AccountDoc
  <2>2. account' \in AccountDoc /\ account'.version = account.version + 1
    BY <2>6 DEF v
  <2>3. /\ closed' \in [Session -> Int] /\ Sessions!ClosedIsOut' /\ InTime'
        /\ \A t \in Session : ClosedFor(t)'
    BY <2>1, <2>2, VersionGrows
  <2>4. SessionTyped'
    BY <2>1, <2>2, <2>3, <1>e, <1>t, NoEntryIsOld DEF SessionTyped
  <2>5. Versions'
    BY <2>1, <2>2, <1>a, <1>l, <1>t DEF Versions, SessionTyped
  <2> QED
    BY <2>3, <2>4, <2>5 DEF SessionInv
<1>10. ASSUME NEW s \in Session, Sessions!protect(s)
       PROVE  SessionInv'
  <2> DEFINE copy == [at |-> clock, version |-> account.version, active |-> account.active]
  <2>1. UNCHANGED <<account, login, token, revoked, reset, users, jtis, clock, closed, served>>
    BY <1>10 DEF Sessions!protect
  <2>2. copy \in Entry /\ copy.at = clock /\ copy.version = account.version
    BY <1>a, <1>t DEF SessionTyped, Entry
  <2>3. PICK step \in {"cache", "check"}, e \in Entry :
          /\ Sessions!Asks(s, step, e)
          /\ \/ e = users /\ clock - users.at < TTL
             \/ e.at = clock /\ e.version = account.version
    <3>1. CASE Sessions!Fresh(users)
      BY <3>1, <1>10, <1>e DEF Sessions!protect, Sessions!Fresh
    <3>2. CASE ~Sessions!Fresh(users)
      <4>1. Sessions!Asks(s, "cache", copy)
        BY <3>2, <1>10 DEF Sessions!protect
      <4> HIDE DEF copy
      <4> QED
        BY <4>1, <2>2
    <3> QED
      BY <3>1, <3>2
  <2>4. /\ request' \in [Session -> [step : {"none", "cache", "check", "jti"}, saw : Entry]]
        /\ request'[s].step = step /\ request'[s].saw = e
        /\ \A t \in Session : t # s => request'[t] = request[t]
    BY <2>3, RequestAsks
  <2>5. SessionTyped' /\ Versions' /\ Sessions!ClosedIsOut'
    BY <2>1, <2>4, <1>t DEF SessionTyped, Versions, Sessions!ClosedIsOut
  <2>6. InTime'
    BY SMTT(60), <2>1, <2>3, <2>4, <1>t DEF InTime, SessionTyped, TimeAssumption
  <2>7. \A t \in Session : ClosedFor(t)'
    <3> SUFFICES ASSUME NEW t \in Session
                 PROVE  ClosedFor(t)'
      OBVIOUS
    <3>1. ByRevocation(t) => ByRevocation(t)'
      BY <2>1 DEF ByRevocation
    <3>2. ByVersion(t) => ByVersion(t)'
      <4> SUFFICES ASSUME ByVersion(t)
                   PROVE  ByVersion(t)'
        OBVIOUS
      <4>1. e.version = token[t] => e.at <= closed[t]
        BY <2>3, <1>a, <1>t DEF ByVersion, SessionTyped
      <4> QED
        BY <4>1, <2>1, <2>3, <2>4 DEF ByVersion
    <3> QED
      BY <3>1, <3>2, <2>1, <1>t DEF ClosedFor, Sessions!Never
  <2> QED
    BY <2>5, <2>6, <2>7 DEF SessionInv
<1>11. ASSUME NEW s \in Session, Sessions!setCachedUser(s)
       PROVE  SessionInv'
  <2> DEFINE e == request[s].saw
  <2>1. /\ request[s].step = "cache" /\ users' = e /\ Sessions!Asks(s, "check", e)
        /\ UNCHANGED <<account, login, token, revoked, reset, jtis, clock, closed, served>>
    BY <1>11 DEF Sessions!setCachedUser
  <2>2. e \in Entry /\ e.at <= clock /\ clock - e.at < TTL
    BY <2>1, <1>e, <1>t DEF InTime
  <2>4. /\ request' \in [Session -> [step : {"none", "cache", "check", "jti"}, saw : Entry]]
        /\ request'[s].step = "check" /\ request'[s].saw = e
        /\ \A t \in Session : t # s => request'[t] = request[t]
    BY <2>1, <2>2, RequestAsks
  <2>5. SessionTyped' /\ Versions' /\ Sessions!ClosedIsOut'
    BY <2>1, <2>2, <2>4, <1>t DEF SessionTyped, Versions, Sessions!ClosedIsOut
  <2>6. InTime'
    BY <2>1, <2>2, <2>4, <1>t DEF InTime
  <2>7. \A t \in Session : ClosedFor(t)'
    BY <2>1, <2>4, <1>t DEF ClosedFor, ByRevocation, ByVersion, Sessions!Never
  <2> QED
    BY <2>5, <2>6, <2>7 DEF SessionInv
<1>12. ASSUME NEW s \in Session, Sessions!checkVersion(s)
       PROVE  SessionInv'
  <2>1. /\ request[s].step = "check" /\ (users' = users \/ users' = Sessions!NoEntry)
        /\ UNCHANGED <<account, login, token, revoked, reset, jtis, clock, closed, served>>
    BY <1>12 DEF Sessions!checkVersion
  <2>3. PICK step \in {"none", "jti"} :
          /\ Sessions!Asks(s, step, Sessions!NoEntry)
          /\ step = "jti" => request[s].saw.version = token[s]
    BY <1>12 DEF Sessions!checkVersion, Sessions!Refuses
  <2>4. /\ request' \in [Session -> [step : {"none", "cache", "check", "jti"}, saw : Entry]]
        /\ request'[s].step = step /\ request'[s].saw = Sessions!NoEntry
        /\ \A t \in Session : t # s => request'[t] = request[t]
    BY <2>3, <1>e, RequestAsks
  <2>5. SessionTyped' /\ Versions' /\ Sessions!ClosedIsOut'
    BY <2>1, <2>4, <1>e, <1>t DEF SessionTyped, Versions, Sessions!ClosedIsOut
  <2>6. InTime'
    BY <2>1, <2>3, <2>4, <1>t, NoEntryIsOld, SMTT(40) DEF InTime, SessionTyped
  <2>7. \A t \in Session : ClosedFor(t)'
    <3> SUFFICES ASSUME NEW t \in Session
                 PROVE  ClosedFor(t)'
      OBVIOUS
    <3>1. ByRevocation(t) => ByRevocation(t)'
      BY <2>1 DEF ByRevocation
    <3>2. ASSUME closed[t] \in 0 .. clock, ByVersion(t)
          PROVE  ByVersion(t)'
      <4>0. Sessions!NoEntry.at <= closed[t]
        BY <3>2, <1>t, NoEntryIsOld DEF SessionTyped
      <4>3. users'.version = token[t] => users'.at <= closed[t]
        BY <4>0, <2>1, <3>2 DEF ByVersion
      <4>1. /\ users'.version = token[t] => users'.at <= closed[t]
            /\ \A r \in Session : request'[r].saw.version = token[t] => request'[r].saw.at <= closed[t]
        BY <4>0, <4>3, <2>4, <3>2 DEF ByVersion
      <4>2. request'[t].step = "jti" => clock - closed[t] < TTL
        <5>1. CASE t = s
          <6>1. request[s].saw.version = token[s] => request[s].saw.at <= closed[s]
            BY <3>2, <5>1 DEF ByVersion
          <6>2. clock - request[s].saw.at < TTL /\ request[s].saw.at \in Int
            BY <2>1, <1>e, <1>t DEF InTime, Entry
          <6> QED
            BY <5>1, <6>1, <6>2, <2>3, <2>4, <3>2, <1>t DEF SessionTyped, TimeAssumption
        <5>2. CASE t # s
          BY <5>2, <2>4, <3>2 DEF ByVersion
        <5> QED
          BY <5>1, <5>2
      <4> QED
        BY <4>1, <4>2, <2>1, <3>2 DEF ByVersion
    <3> QED
      BY <3>1, <3>2, <2>1, <1>t DEF ClosedFor, Sessions!Never
  <2> QED
    BY <2>5, <2>6, <2>7 DEF SessionInv
<1>13. ASSUME NEW s \in Session, Sessions!tokenRevocado(s)
       PROVE  SessionInv'
  <2> DEFINE JtiDoc == [at : Int, revoked : BOOLEAN]
  <2>1. /\ request[s].step = "jti" /\ Sessions!Asks(s, "none", Sessions!NoEntry)
        /\ UNCHANGED <<account, login, token, revoked, reset, users, clock, closed>>
    BY <1>13 DEF Sessions!tokenRevocado, Sessions!Refuses
  <2>2. jtis \in [Session -> JtiDoc] /\ jtis[s] \in JtiDoc /\ clock \in 0 .. MaxTime
    BY <1>t DEF SessionTyped
  <2>3. PICK j \in JtiDoc :
          /\ jtis' = [jtis EXCEPT ![s] = j]
          /\ j = jtis[s] \/ (j.at = clock /\ (s \in revoked => j.revoked))
          /\ \/ served' = served
             \/ /\ served' = [served EXCEPT ![s] = clock]
                /\ s \in revoked => ~jtis[s].revoked /\ clock - jtis[s].at < TTL
    <3>1. CASE Sessions!Remembered(s)
      <4>1. jtis' = [jtis EXCEPT ![s] = jtis[s]]
        BY <3>1, <1>13, <2>2 DEF Sessions!tokenRevocado
      <4>2. \/ served' = served
            \/ /\ served' = [served EXCEPT ![s] = clock]
               /\ ~jtis[s].revoked /\ clock - jtis[s].at < TTL
        BY <3>1, <1>13, <2>2 DEF Sessions!tokenRevocado, Sessions!Remembered, Sessions!Fresh
      <4> QED
        BY <4>1, <4>2, <2>2
    <3>2. CASE ~Sessions!Remembered(s) /\ s \in revoked
      <4> DEFINE j == [at |-> clock, revoked |-> TRUE]
      <4>1. j \in JtiDoc /\ j.at = clock /\ j.revoked
        BY <2>2
      <4>2. jtis' = [jtis EXCEPT ![s] = j] /\ served' = served
        BY <3>2, <1>13 DEF Sessions!tokenRevocado
      <4> QED
        BY <4>1, <4>2
    <3>3. CASE ~Sessions!Remembered(s) /\ s \notin revoked
      <4> DEFINE j == [at |-> clock, revoked |-> FALSE]
      <4>1. j \in JtiDoc /\ j.at = clock
        BY <2>2
      <4>3. (s \in revoked) = FALSE
        BY <3>3
      <4>2. jtis' = [jtis EXCEPT ![s] = j] /\ served' = [served EXCEPT ![s] = clock]
        BY <3>3, <4>3, <1>13, Zenon DEF Sessions!tokenRevocado
      <4> QED
        BY <3>3, <4>1, <4>2
    <3> QED
      BY <3>1, <3>2, <3>3
  <2>4. /\ jtis' \in [Session -> JtiDoc] /\ jtis'[s] = j
        /\ \A t \in Session : t # s => jtis'[t] = jtis[t]
    BY <2>2, <2>3
  <2>5. /\ request' \in [Session -> [step : {"none", "cache", "check", "jti"}, saw : Entry]]
        /\ request'[s].step = "none" /\ request'[s].saw = Sessions!NoEntry
        /\ \A t \in Session : t # s => request'[t] = request[t]
    BY <2>1, <1>e, RequestAsks
  <2>6. /\ served' \in [Session -> Int]
        /\ \A t \in Session : served'[t] = served[t] \/ (t = s /\ served'[t] = clock)
    BY <2>2, <2>3, <1>t DEF SessionTyped
  <2>7. SessionTyped' /\ Versions'
    BY <2>1, <2>4, <2>5, <2>6, <1>t DEF SessionTyped, Versions
  <2>8. InTime'
    BY <2>1, <2>2, <2>3, <2>4, <2>5, <2>6, <1>t, NoEntryIsOld DEF InTime
  <2>9. \A t \in Session : ClosedFor(t)'
    <3> SUFFICES ASSUME NEW t \in Session
                 PROVE  ClosedFor(t)'
      OBVIOUS
    <3>1. ByRevocation(t) => ByRevocation(t)'
      BY <2>1, <2>3, <2>4 DEF ByRevocation
    <3>2. ASSUME closed[t] \in 0 .. clock, ByVersion(t)
          PROVE  ByVersion(t)'
      <4>0. Sessions!NoEntry.at <= closed[t]
        BY <3>2, <2>2, NoEntryIsOld
      <4> QED
        BY <4>0, <2>1, <2>5, <3>2 DEF ByVersion
    <3> QED
      BY <3>1, <3>2, <2>1, <1>t DEF ClosedFor, Sessions!Never
  <2>10. Sessions!ClosedIsOut'
    <3>1. ASSUME served'[s] = clock, served' # served
          PROVE  clock - closed[s] < TTL
      <4>1. s \in revoked => ~jtis[s].revoked /\ clock - jtis[s].at < TTL
        BY <3>1, <2>3
      <4>2. CASE closed[s] = Sessions!Never
        BY <4>2, <2>2 DEF Sessions!Never, TimeAssumption
      <4>3. CASE closed[s] \in 0 .. clock /\ ByRevocation(s)
        <5>1. clock - jtis[s].at < TTL /\ jtis[s].at <= closed[s] /\ jtis[s].at \in Int
          BY <4>1, <4>3, <2>2 DEF ByRevocation
        <5> QED
          BY <5>1, <4>3, <2>2 DEF TimeAssumption
      <4>4. CASE closed[s] \in 0 .. clock /\ ByVersion(s)
        BY <4>4, <2>1 DEF ByVersion
      <4> QED
        BY <4>2, <4>3, <4>4, <1>t DEF ClosedFor
    <3> QED
      BY <3>1, <2>1, <2>6, <1>t DEF Sessions!ClosedIsOut
  <2> QED
    BY <2>7, <2>8, <2>9, <2>10 DEF SessionInv
<1>14. CASE Sessions!Tick
  <2>1. /\ clock < MaxTime /\ clock' = clock + 1 /\ \A s \in Session : request[s].step = "none"
        /\ UNCHANGED <<account, login, token, revoked, reset, request, users, jtis, closed, served>>
    BY <1>14 DEF Sessions!Tick
  <2>2. clock \in 0 .. MaxTime /\ clock' \in 0 .. MaxTime
    BY <2>1, <1>t DEF SessionTyped, TimeAssumption
  <2>3. SessionTyped' /\ Versions' /\ Sessions!ClosedIsOut'
    BY <2>1, <2>2, <1>t DEF SessionTyped, Versions, Sessions!ClosedIsOut
  <2>4. InTime'
    <3>1. \A s \in Session : jtis[s].at \in Int /\ served[s] \in Int /\ request[s].saw.at \in Int
      BY <1>t DEF SessionTyped, Entry
    <3>2. users.at \in Int
      BY <1>t DEF SessionTyped, Entry
    <3> QED
      BY <2>1, <2>2, <3>1, <3>2, <1>t DEF InTime
  <2>5. \A s \in Session : ClosedFor(s)'
    BY <2>1, <2>2, <1>t DEF ClosedFor, ByRevocation, ByVersion, Sessions!Never
  <2> QED
    BY <2>3, <2>4, <2>5 DEF SessionInv
<1> QED
  BY <1>1, <1>2, <1>3, <1>4, <1>5, <1>6, <1>7, <1>8, <1>9, <1>10, <1>11, <1>12, <1>13, <1>14
     DEF Sessions!SessionNext

LEMMA SessionStarts == TimeAssumption /\ Init => SessionInv
BY DEF TimeAssumption, Init, Sessions!SessionInit, SessionInv, SessionTyped, InTime, Versions,
       Sessions!ClosedIsOut, ClosedFor, AccountDoc, Entry, Sessions!NoAccount, Sessions!NoEntry,
       Sessions!Never, Sessions!NoLink

-----------------------------------------------------------------------------
(* The push tokens: what is pulled is gone, and a registration that may    *)
(* still replace the list has read all that it holds.                      *)
Among(d, tokens) == \E i \in 1 .. Len(tokens) : tokens[i] = d

TokensInv ==
  /\ fcmTokens \in Seq(Token) /\ version \in Nat
  /\ installed \in [Token -> {"no", "yes", "gone"}]
  /\ registering \in [Token -> [step : {"idle", "saves"}, read : Seq(Token), version : Nat]]
  /\ push \in [step : {"idle", "reads", "sends"}, todo : SUBSET Token, stale : SUBSET Token]
  /\ wants \subseteq Token
  /\ \A d \in wants : installed[d] = "yes" /\ Among(d, fcmTokens)
  /\ \A d \in Token : Among(d, fcmTokens) \/ d \in push.todo => installed[d] # "no"
  /\ \A d \in push.stale : installed[d] = "gone"
  /\ \A d \in Token : registering[d].step = "saves" =>
       /\ installed[d] = "yes" /\ registering[d].version <= version
       /\ \A e \in Token : Among(e, registering[d].read) => installed[e] # "no"
       /\ registering[d].version = version =>
            \A e \in Token : Among(e, fcmTokens) => Among(e, registering[d].read)

(* A pull leaves those that are not in out, and no other.                  *)
LEMMA PullKeeps ==
  ASSUME NEW s \in Seq(Token), NEW out
  PROVE  /\ PushTokens!Pull(s, out) \in Seq(Token)
         /\ \A d : Among(d, PushTokens!Pull(s, out)) <=> Among(d, s) /\ d \notin out
<1> DEFINE stay == {i \in DOMAIN s : s[i] \notin out}
           before(i) == {j \in stay : j <= i}
           Place(i) == Cardinality(before(i))
           n == Cardinality(stay)
           at(k) == CHOOSE i \in stay : Place(i) = k
           kept == [k \in 1 .. n |-> s[at(k)]]
<1>1. kept = PushTokens!Pull(s, out)
  BY DEF PushTokens!Pull, PushTokens!Cardinality, Cardinality
<1>2. stay \subseteq Nat /\ IsFiniteSet(stay) /\ n \in Nat
  <2>1. DOMAIN s = 1 .. Len(s) /\ Len(s) \in Nat
    OBVIOUS
  <2>2. IsFiniteSet(DOMAIN s)
    BY <2>1, FS_Interval
  <2>3. stay \in SUBSET DOMAIN s
    OBVIOUS
  <2>4. IsFiniteSet(stay)
    BY <2>2, <2>3, FS_Subset
  <2> QED
    BY <2>1, <2>3, <2>4, FS_CardinalityType
<1>3. \A i \in stay : i \in 1 .. Len(s) /\ s[i] \in Token /\ s[i] \notin out
  OBVIOUS
<1>4. \A d : Among(d, s) /\ d \notin out => \E i \in stay : s[i] = d
  BY DEF Among
<1> HIDE DEF stay
<1>5. \A i \in stay : before(i) \in SUBSET stay /\ IsFiniteSet(before(i)) /\ Place(i) \in 1 .. n
  <2> SUFFICES ASSUME NEW i \in stay
               PROVE  before(i) \in SUBSET stay /\ IsFiniteSet(before(i)) /\ Place(i) \in 1 .. n
    OBVIOUS
  <2> DEFINE b == before(i)
  <2>1. b \in SUBSET stay /\ i \in b
    BY <1>2
  <2> HIDE DEF b
  <2>2. IsFiniteSet(b) /\ Cardinality(b) <= n
    BY <2>1, <1>2, FS_Subset
  <2>3. Cardinality(b) \in Nat /\ Cardinality(b) # 0
    BY <2>1, <2>2, FS_CardinalityType, FS_EmptySet
  <2>4. Cardinality(b) \in 1 .. n
    BY <2>2, <2>3, <1>2
  <2> QED
    BY <2>1, <2>2, <2>4 DEF b
<1>6. \A i, j \in stay : i < j => Place(i) # Place(j)
  <2> SUFFICES ASSUME NEW i \in stay, NEW j \in stay, i < j
               PROVE  Place(i) # Place(j)
    OBVIOUS
  <2> DEFINE b == before(i)
             c == before(j)
  <2>0. i \in Nat /\ j \in Nat /\ \A k \in stay : k \in Nat
    BY <1>2
  <2>5. j <= j /\ ~(j <= i)
    BY <2>0
  <2>6. \A k \in stay : k <= i => k <= j
    BY <2>0
  <2>1. b \in SUBSET c /\ j \in c /\ j \notin b
    BY <2>5, <2>6, Zenon
  <2>2. IsFiniteSet(c)
    BY <1>5
  <2> HIDE DEF b, c
  <2>3. Cardinality(c) # Cardinality(b)
    BY <2>1, <2>2, FS_Subset
  <2> QED
    BY <2>3 DEF b, c
<1>7. \A i \in stay : at(Place(i)) = i
  <2> SUFFICES ASSUME NEW i \in stay
               PROVE  at(Place(i)) = i
    OBVIOUS
  <2> DEFINE j == at(Place(i))
  <2>1. j \in stay /\ Place(j) = Place(i)
    OBVIOUS
  <2> HIDE DEF j
  <2>2. ~(i < j) /\ ~(j < i)
    BY <2>1, <1>6
  <2>3. j = i
    BY <2>1, <2>2, <1>2
  <2> QED
    BY <2>3 DEF j
<1>8. \A k \in 1 .. n : \E i \in stay : Place(i) = k
  <2> DEFINE f == [i \in stay |-> Place(i)]
             places == {Place(i) : i \in stay}
  <2>1. places \in SUBSET (1 .. n)
    BY <1>5
  <2>2. f \in Bijection(stay, places)
    <3>1. f \in [stay -> places]
      OBVIOUS
    <3>2. \A i, j \in stay : f[i] = f[j] => i = j
      <4> SUFFICES ASSUME NEW i \in stay, NEW j \in stay, f[i] = f[j]
                   PROVE  i = j
        OBVIOUS
      <4>1. Place(i) = Place(j)
        OBVIOUS
      <4> HIDE DEF Place
      <4>2. ~(i < j) /\ ~(j < i)
        BY <4>1, <1>6
      <4> QED
        BY <4>2, <1>2
    <3>3. \A k \in places : \E i \in stay : f[i] = k
      OBVIOUS
    <3> HIDE DEF f, places, Place
    <3> QED
      BY <3>1, <3>2, <3>3 DEF Bijection, Injection, Surjection, IsInjective
  <2>3. Cardinality(places) = n
    <3> HIDE DEF f, places
    <3>1. ExistsBijection(stay, places)
      BY <2>2 DEF ExistsBijection
    <3> QED
      BY <3>1, <1>2, FS_Bijection
  <2>4. IsFiniteSet(1 .. n) /\ Cardinality(1 .. n) = n
    BY <1>2, FS_Interval
  <2> HIDE DEF places
  <2>5. 1 .. n = places
    BY <2>1, <2>3, <2>4, FS_Subset
  <2> QED
    BY <2>5 DEF places
<1>9. \A k \in 1 .. n : at(k) \in stay
  BY <1>8
<1> HIDE DEF at, Place, n
<1>10. kept \in Seq(Token) /\ Len(kept) = n
  <2>1. kept \in [1 .. n -> Token]
    BY <1>9, <1>3
  <2> QED
    BY <2>1, <1>2
<1>11. \A d : Among(d, kept) => Among(d, s) /\ d \notin out
  BY <1>10, <1>9, <1>3 DEF Among
<1>12. \A d : Among(d, s) /\ d \notin out => Among(d, kept)
  <2> SUFFICES ASSUME NEW d, Among(d, s), d \notin out
               PROVE  Among(d, kept)
    OBVIOUS
  <2>1. PICK i \in stay : s[i] = d
    BY <1>4
  <2>2. Place(i) \in 1 .. n
    BY <1>5
  <2>3. kept[Place(i)] = d
    BY <2>1, <2>2, <1>7
  <2> QED
    BY <2>2, <2>3, <1>10 DEF Among
<1> QED
  BY <1>1, <1>10, <1>11, <1>12

(* What an append and a tail leave.                                        *)
LEMMA AppendHas ==
  ASSUME NEW s \in Seq(Token), NEW d \in Token
  PROVE  /\ Append(s, d) \in Seq(Token)
         /\ \A e : Among(e, Append(s, d)) <=> Among(e, s) \/ e = d
<1> DEFINE a == Append(s, d)
<1>1. a \in Seq(Token) /\ Len(a) = Len(s) + 1 /\ Len(s) \in Nat /\ a[Len(s) + 1] = d
  OBVIOUS
<1>2. \A i \in 1 .. Len(s) : a[i] = s[i]
  OBVIOUS
<1> HIDE DEF a
<1>3. \A i \in 1 .. Len(a) : i \in 1 .. Len(s) \/ i = Len(s) + 1
  BY <1>1
<1>4. \A i \in 1 .. Len(s) : i \in 1 .. Len(a)
  BY <1>1
<1>5. Len(s) + 1 \in 1 .. Len(a)
  BY <1>1
<1>6. \A e : Among(e, a) => Among(e, s) \/ e = d
  BY <1>1, <1>2, <1>3 DEF Among
<1>7. \A e : Among(e, s) \/ e = d => Among(e, a)
  BY <1>1, <1>2, <1>4, <1>5 DEF Among
<1> QED
  BY <1>1, <1>6, <1>7 DEF a

LEMMA TailHas ==
  ASSUME NEW s \in Seq(Token), Len(s) > 0
  PROVE  /\ Tail(s) \in Seq(Token)
         /\ \A e : Among(e, Tail(s)) => Among(e, s)
         /\ \A e : Among(e, s) => e = Head(s) \/ Among(e, Tail(s))
<1> DEFINE t == Tail(s)
<1>1. t \in Seq(Token) /\ Len(t) = Len(s) - 1 /\ Len(s) \in Nat /\ Head(s) = s[1]
  OBVIOUS
<1>2. \A i \in 1 .. Len(t) : t[i] = s[i + 1] /\ i + 1 \in 1 .. Len(s)
  OBVIOUS
<1> HIDE DEF t
<1>3. \A i \in 1 .. Len(s) : i = 1 \/ i - 1 \in 1 .. Len(t)
  BY <1>1
<1>4. \A i \in 1 .. Len(s) : i = 1 \/ t[i - 1] = s[i]
  BY <1>1, <1>2, <1>3
<1>5. \A e : Among(e, t) => Among(e, s)
  BY <1>2 DEF Among
<1>6. \A e : Among(e, s) => e = Head(s) \/ Among(e, t)
  BY <1>1, <1>3, <1>4 DEF Among
<1> QED
  BY <1>1, <1>5, <1>6 DEF t

LEMMA TokensKept ==
  ASSUME TokensInv, [PushTokens!TokensNext]_tokenVars,
         BadPayloads = FALSE, MaxTokens \in Nat \ {0}
  PROVE  TokensInv'
<1> DEFINE C(d) == PushTokens!Contains(fcmTokens, d)
<1>0. \A d : C(d) <=> Among(d, fcmTokens)
  BY DEF PushTokens!Contains, Among
<1>1. CASE UNCHANGED tokenVars
  BY <1>1 DEF TokensInv, tokenVars
<1>2. ASSUME NEW d \in Token, PushTokens!installs(d)
      PROVE  TokensInv'
  BY <1>2 DEF TokensInv, PushTokens!installs, PushTokens!Changes
<1>3. ASSUME NEW d \in Token, PushTokens!uninstalls(d)
      PROVE  TokensInv'
  BY <1>3 DEF TokensInv, PushTokens!uninstalls, PushTokens!Changes, PushTokens!Free
<1>4. ASSUME NEW d \in Token, PushTokens!registerReads(d)
      PROVE  TokensInv'
  <2>1. CASE C(d)
    BY <1>0, <1>4, <2>1 DEF TokensInv, PushTokens!registerReads, PushTokens!Changes
  <2>2. CASE ~C(d)
    <3> DEFINE r == [step |-> "saves", read |-> fcmTokens, version |-> version]
    <3>1. registering' = [registering EXCEPT ![d] = r]
          /\ UNCHANGED <<fcmTokens, version, installed, push, wants>>
          /\ installed[d] = "yes"
      BY <1>4, <2>2 DEF PushTokens!registerReads
    <3>2. r \in [step : {"idle", "saves"}, read : Seq(Token), version : Nat]
      BY DEF TokensInv
    <3>3. r.step = "saves" /\ r.read = fcmTokens /\ r.version = version
      OBVIOUS
    <3> HIDE DEF r
    <3>4. registering' \in [Token -> [step : {"idle", "saves"}, read : Seq(Token), version : Nat]]
      BY <3>1, <3>2 DEF TokensInv
    <3>5. registering'[d] = r /\ \A e \in Token : e # d => registering'[e] = registering[e]
      BY <3>1 DEF TokensInv
    <3>6. version <= version
      BY DEF TokensInv
    <3> QED
      BY <3>1, <3>3, <3>4, <3>5, <3>6 DEF TokensInv
  <2> QED
    BY <2>1, <2>2
<1>5. ASSUME NEW d \in Token, PushTokens!registerFcmToken(d)
      PROVE  TokensInv'
  <2> DEFINE r == registering[d]
             f == PushTokens!Free
             appended == Append(fcmTokens, d)
             shifted == Append(Tail(r.read), d)
  <2>1. /\ r.step = "saves" /\ installed[d] = "yes" /\ r.read \in Seq(Token)
        /\ r.version \in Nat /\ r.version <= version
        /\ \A e \in Token : Among(e, r.read) => installed[e] # "no"
    BY <1>5 DEF TokensInv, PushTokens!registerFcmToken
  <2>2. /\ registering' = [registering EXCEPT ![d] = f]
        /\ UNCHANGED <<installed, push>>
    BY <1>5 DEF PushTokens!registerFcmToken
  <2>3. f \in [step : {"idle", "saves"}, read : Seq(Token), version : Nat] /\ f.step = "idle"
    BY DEF PushTokens!Free
  <2> HIDE DEF f
  <2>4. registering' \in [Token -> [step : {"idle", "saves"}, read : Seq(Token), version : Nat]]
    BY <2>2, <2>3 DEF TokensInv
  <2>5. registering'[d] = f /\ \A e \in Token : e # d => registering'[e] = registering[e]
    BY <2>2 DEF TokensInv
  <2>6. \A e \in Token : registering'[e].step = "saves" => e # d /\ registering[e].step = "saves"
    BY <2>3, <2>5
  <2>7. version' = version + 1 => \A e \in Token : registering'[e].step = "saves" =>
          /\ installed'[e] = "yes" /\ registering'[e].version <= version'
          /\ \A g \in Token : Among(g, registering'[e].read) => installed'[g] # "no"
          /\ registering'[e].version # version'
    <3> SUFFICES ASSUME version' = version + 1, NEW e \in Token, registering'[e].step = "saves"
                 PROVE  /\ installed'[e] = "yes" /\ registering'[e].version <= version'
                        /\ \A g \in Token : Among(g, registering'[e].read) => installed'[g] # "no"
                        /\ registering'[e].version # version'
      OBVIOUS
    <3>1. e # d /\ registering'[e] = registering[e] /\ registering[e].step = "saves"
      BY <2>5, <2>6
    <3>2. registering[e].version \in Nat /\ registering[e].version <= version /\ version \in Nat
      BY <3>1 DEF TokensInv
    <3> QED
      BY <2>2, <3>1, <3>2 DEF TokensInv
  <2>8. CASE Len(r.read) < MaxTokens
    <3>1. fcmTokens' = appended /\ version' = version + 1 /\ wants' = wants \cup {d}
      BY <1>5, <2>8 DEF PushTokens!registerFcmToken
    <3>2. appended \in Seq(Token) /\ \A e : Among(e, appended) <=> Among(e, fcmTokens) \/ e = d
      BY AppendHas DEF TokensInv
    <3> HIDE DEF appended, r
    <3>3. fcmTokens' \in Seq(Token) /\ \A e : Among(e, fcmTokens') <=> Among(e, fcmTokens) \/ e = d
      BY <3>1, <3>2
    <3> QED
      BY <2>1, <2>2, <2>4, <2>7, <3>1, <3>3 DEF TokensInv
  <2>9. CASE ~(Len(r.read) < MaxTokens) /\ PushTokens!isCurrent(d)
    <3>1. /\ fcmTokens' = shifted /\ version' = version + 1
          /\ wants' = (wants \ {Head(r.read)}) \cup {d} /\ r.version = version
      BY <1>5, <2>9 DEF PushTokens!registerFcmToken, PushTokens!isCurrent
    <3>2. Len(r.read) > 0
      BY <2>1, <2>9
    <3>3. /\ Tail(r.read) \in Seq(Token)
          /\ \A e : Among(e, Tail(r.read)) => Among(e, r.read)
          /\ \A e : Among(e, r.read) => e = Head(r.read) \/ Among(e, Tail(r.read))
      BY <2>1, <3>2, TailHas
    <3>4. /\ shifted \in Seq(Token)
          /\ \A e : Among(e, shifted) <=> Among(e, Tail(r.read)) \/ e = d
      BY <3>3, AppendHas
    <3>5. \A e \in Token : Among(e, fcmTokens) => Among(e, r.read)
      BY <2>1, <3>1 DEF TokensInv
    <3>6. \A e \in Token : Among(e, Tail(r.read)) => installed[e] # "no"
      BY <2>1, <3>3
    <3>7. \A e \in wants : e # Head(r.read) => Among(e, Tail(r.read))
      BY <3>3, <3>5 DEF TokensInv
    <3> DEFINE t == Tail(r.read)
    <3> HIDE DEF shifted, r, t
    <3>8. fcmTokens' \in Seq(Token) /\ \A e : Among(e, fcmTokens') <=> Among(e, t) \/ e = d
      BY <3>1, <3>4 DEF t
    <3>9. \A e \in wants' : e = d \/ (e \in wants /\ Among(e, t))
      BY <3>1, <3>7 DEF t
    <3>10. \A e \in Token : Among(e, t) => installed[e] # "no"
      BY <3>6 DEF t
    <3>11. wants' \subseteq Token
      BY <3>1 DEF TokensInv
    <3> QED
      BY <2>1, <2>2, <2>4, <2>7, <3>1, <3>8, <3>9, <3>10, <3>11 DEF TokensInv
  <2>10. CASE ~(Len(r.read) < MaxTokens) /\ ~PushTokens!isCurrent(d)
    <3>1. UNCHANGED <<fcmTokens, version, wants>>
      BY <1>5, <2>10 DEF PushTokens!registerFcmToken
    <3> QED
      BY <2>2, <2>4, <2>5, <2>6, <3>1 DEF TokensInv
  <2> QED
    BY <2>8, <2>9, <2>10
<1>6. ASSUME NEW out, fcmTokens' = PushTokens!Pull(fcmTokens, out), UNCHANGED <<version, installed, registering>>,
             push' \in [step : {"idle", "reads", "sends"}, todo : SUBSET Token, stale : SUBSET Token],
             wants' \subseteq wants, \A e \in wants' : e \notin out,
             push'.todo \subseteq push.todo, push'.stale \subseteq push.stale
      PROVE  TokensInv'
  <2>1. /\ fcmTokens' \in Seq(Token)
        /\ \A e : Among(e, fcmTokens') <=> Among(e, fcmTokens) /\ e \notin out
    BY <1>6, PullKeeps DEF TokensInv
  <2> QED
    BY <1>6, <2>1 DEF TokensInv
<1>7. ASSUME NEW d \in Token, PushTokens!deleteFcmToken(d)
      PROVE  TokensInv'
  BY <1>6, <1>7 DEF PushTokens!deleteFcmToken, TokensInv
<1>8. CASE PushTokens!sendPushNotification
  <2>1. PushTokens!Quiet \in [step : {"idle", "reads", "sends"}, todo : SUBSET Token, stale : SUBSET Token]
        /\ PushTokens!Quiet.todo = {} /\ PushTokens!Quiet.stale = {}
    BY DEF PushTokens!Quiet
  <2>2. \A e \in wants : e \notin push.stale
    BY DEF TokensInv
  <2> QED
    BY <1>6, <1>8, <2>1, <2>2 DEF PushTokens!sendPushNotification
<1>9. ASSUME NEW d \in Token, PushTokens!pushSends(d)
      PROVE  TokensInv'
  <2>1. PICK answer \in PushTokens!Answers(d) :
          push' = [push EXCEPT !.todo = @ \ {d},
                               !.stale = IF answer \in PushTokens!INVALID_TOKEN_ERRORS
                                         THEN @ \cup {d} ELSE @]
    BY <1>9 DEF PushTokens!pushSends
  <2>2. d \in push.todo /\ UNCHANGED <<fcmTokens, version, installed, wants, registering>>
    BY <1>9 DEF PushTokens!pushSends
  <2>3. answer \in PushTokens!INVALID_TOKEN_ERRORS => installed[d] = "gone"
    BY <2>2 DEF PushTokens!Answers, PushTokens!INVALID_TOKEN_ERRORS, TokensInv
  <2> HIDE DEF PushTokens!INVALID_TOKEN_ERRORS, PushTokens!Answers
  <2>4. /\ push' \in [step : {"idle", "reads", "sends"}, todo : SUBSET Token, stale : SUBSET Token]
        /\ push'.todo \subseteq push.todo
        /\ \A e \in push'.stale : e \in push.stale \/ (e = d /\ installed[d] = "gone")
    BY <2>1, <2>3 DEF TokensInv
  <2> QED
    BY <2>2, <2>4 DEF TokensInv
<1>10. CASE PushTokens!deleteAccount
  <2>1. fcmTokens' = <<>> /\ version' = version + 1 /\ wants' = {} /\ UNCHANGED <<installed, registering, push>>
    BY <1>10 DEF PushTokens!deleteAccount
  <2>2. fcmTokens' \in Seq(Token) /\ \A e : ~Among(e, fcmTokens')
    BY <2>1 DEF Among
  <2>3. \A e \in Token : registering[e].step = "saves" =>
          registering[e].version <= version' /\ registering[e].version # version'
    BY <2>1 DEF TokensInv
  <2> QED
    BY <2>1, <2>2, <2>3 DEF TokensInv
<1>11. CASE PushTokens!notify
  <2>1. push' \in [step : {"idle", "reads", "sends"}, todo : SUBSET Token, stale : SUBSET Token]
        /\ push'.todo = push.todo /\ push'.stale = push.stale
    BY <1>11 DEF PushTokens!notify, TokensInv
  <2>2. UNCHANGED <<fcmTokens, version, installed, wants, registering>>
    BY <1>11 DEF PushTokens!notify
  <2> QED
    BY <2>1, <2>2 DEF TokensInv
<1>12. CASE PushTokens!pushReads
  <2> DEFINE R == PushTokens!Range(fcmTokens)
  <2>1. \A e : e \in R => Among(e, fcmTokens) /\ e \in Token
    BY DEF PushTokens!Range, Among, TokensInv
  <2>2. PushTokens!Quiet \in [step : {"idle", "reads", "sends"}, todo : SUBSET Token, stale : SUBSET Token]
        /\ PushTokens!Quiet.todo = {} /\ PushTokens!Quiet.stale = {}
    BY DEF PushTokens!Quiet
  <2> HIDE DEF R
  <2> DEFINE s == [step |-> "sends", todo |-> R, stale |-> {}]
  <2>3. s \in [step : {"idle", "reads", "sends"}, todo : SUBSET Token, stale : SUBSET Token]
        /\ s.todo = R /\ s.stale = {}
    BY <2>1
  <2>4. push' \in {PushTokens!Quiet, s} /\ UNCHANGED <<fcmTokens, version, installed, wants, registering>>
    BY <1>12 DEF PushTokens!pushReads, R
  <2> HIDE DEF s
  <2>5. push' \in [step : {"idle", "reads", "sends"}, todo : SUBSET Token, stale : SUBSET Token]
        /\ push'.todo \subseteq R /\ push'.stale = {}
    BY <2>2, <2>3, <2>4
  <2> QED
    BY <2>1, <2>4, <2>5 DEF TokensInv
<1> QED
  BY <1>1, <1>2, <1>3, <1>4, <1>5, <1>7, <1>8, <1>9, <1>10, <1>11, <1>12 DEF PushTokens!TokensNext

LEMMA TokensStart == Init => TokensInv
BY DEF Init, PushTokens!TokensInit, TokensInv, PushTokens!Free, PushTokens!Quiet, Among

LEMMA TokensAreKept == TokensInv => PushTokens!RegisteredIsKept
BY DEF TokensInv, PushTokens!RegisteredIsKept, PushTokens!Contains, Among

-----------------------------------------------------------------------------
(* The duplicates of a client.  "documento" and "telefono" go the same     *)
(* way: a key that is set once, the reviews that carry it, and the alerts  *)
(* about it.                                                               *)
Reason == {"documento", "telefono"}
KeyOf(b, m) == IF m = "documento" THEN b.fingerprint ELSE b.phoneTail
Carries(r, m) == IF m = "documento" THEN r.document ELSE r.phone
NoKeyYet == ClientIdentity!Unset

(* The alerts about an account for a reason are in their cooldown.         *)
Silent(a, m) == \E M \in SUBSET Reason : m \in M /\ <<a, M>> \in throttled
Awaited(a, m) == \E r \in reviews : r.of = a /\ Carries(r, m) # NoKeyYet
Named(a, b) == {a, b} \in told
Shares(a, b, m) == KeyOf(client[a], m) # NoKeyYet /\ KeyOf(client[a], m) = KeyOf(client[b], m)

IdentityTyped ==
  /\ client \in [Owner -> ClientIdentity!Client]
  /\ \A r \in reviews : r.of \in Owner
  /\ done \in [updates : Nat, restarts : Nat]
  /\ \A a \in Owner : client[a].status = "none" => \A m \in Reason : KeyOf(client[a], m) = NoKeyYet
  /\ \A a \in Owner : client[a].status = "active" => client[a].phoneTail = client[a].phone
  /\ \A a \in Owner : client[a].fingerprint = client[a].document

(* What a review carries is the key that was stored; who is silent has a   *)
(* key, and has been named with whoever had that key, or else the other    *)
(* came later and is still to be reviewed, with nothing to silence it.     *)
AlertInv ==
  /\ \A r \in reviews : \A m \in Reason :
       Carries(r, m) # NoKeyYet => KeyOf(client[r.of], m) = Carries(r, m)
  /\ \A a \in Owner, m \in Reason : Silent(a, m) => KeyOf(client[a], m) # NoKeyYet
  /\ \A a, b \in Owner, m \in Reason :
       a # b /\ Shares(a, b, m) => Named(a, b) \/ Awaited(a, m) \/ Awaited(b, m)
  /\ \A a, b \in Owner, m \in Reason :
       a # b /\ Shares(a, b, m) /\ Silent(a, m)
         => Named(a, b) \/ (Awaited(b, m) /\ ~Silent(b, m))

IdentityInv == IdentityTyped /\ AlertInv

(* The account a gets keys it did not have, or the ones it had, and a      *)
(* review that carries those it got.                                       *)
Writes(a, r) ==
  /\ r.of = a /\ reviews' = reviews \cup {r}
  /\ UNCHANGED <<throttled, told>>
  /\ \A b \in Owner : b # a => client'[b] = client[b]
  /\ \A m \in Reason :
       \/ KeyOf(client'[a], m) = KeyOf(client[a], m) /\ Carries(r, m) \in {NoKeyYet, KeyOf(client[a], m)}
       \/ KeyOf(client[a], m) = NoKeyYet /\ KeyOf(client'[a], m) = Carries(r, m) /\ Carries(r, m) # NoKeyYet

LEMMA StoringIsReviewed ==
  ASSUME AlertInv, \A s \in reviews : s.of \in Owner, NEW a \in Owner, NEW r, Writes(a, r)
  PROVE  AlertInv'
<1>1. \A s \in reviews : s \in reviews'
  BY DEF Writes
<1>2. \A b \in Owner, m \in Reason : Awaited(b, m) => Awaited(b, m)'
  BY <1>1 DEF Awaited
<1>3. \A b \in Owner, m \in Reason : Silent(b, m)' <=> Silent(b, m)
  BY DEF Writes, Silent
<1>4. \A b, c \in Owner : Named(b, c)' <=> Named(b, c)
  BY DEF Writes, Named
<1>5. \A m \in Reason : Carries(r, m) # NoKeyYet => Awaited(a, m)'
  BY DEF Writes, Awaited
<1>6. \A b \in Owner, m \in Reason :
        \/ KeyOf(client'[b], m) = KeyOf(client[b], m)
        \/ b = a /\ KeyOf(client[a], m) = NoKeyYet /\ ~Silent(a, m) /\ Awaited(a, m)'
  BY <1>5 DEF Writes, AlertInv
<1>7. \A s \in reviews' : \A m \in Reason :
        Carries(s, m) # NoKeyYet => KeyOf(client'[s.of], m) = Carries(s, m)
  <2> SUFFICES ASSUME NEW s \in reviews', NEW m \in Reason, Carries(s, m) # NoKeyYet
               PROVE  KeyOf(client'[s.of], m) = Carries(s, m)
    OBVIOUS
  <2>1. CASE s \in reviews
    BY <1>6, <2>1 DEF AlertInv
  <2>2. CASE s = r
    BY <2>2 DEF Writes
  <2> QED
    BY <2>1, <2>2 DEF Writes
<1>8. \A b, c \in Owner, m \in Reason :
        b # c /\ Shares(b, c, m)' => Named(b, c)' \/ Awaited(b, m)' \/ Awaited(c, m)'
  BY <1>2, <1>4, <1>6 DEF AlertInv, Shares
<1>9. \A b \in Owner, m \in Reason : Silent(b, m)' => KeyOf(client'[b], m) # NoKeyYet
  BY <1>3, <1>6 DEF AlertInv
<1>10. \A b, c \in Owner, m \in Reason :
        b # c /\ Shares(b, c, m)' /\ Silent(b, m)'
          => Named(b, c)' \/ (Awaited(c, m)' /\ ~Silent(c, m)')
  BY <1>2, <1>3, <1>4, <1>6 DEF AlertInv, Shares
<1> QED
  BY <1>7, <1>8, <1>9, <1>10 DEF AlertInv

(* A review that ends told about everyone who has one of its keys, or was  *)
(* silent for every reason it had.                                         *)
LEMMA ReviewingNames ==
  ASSUME IdentityInv, NEW r, ClientIdentity!revisarClienteDuplicado(r)
  PROVE  AlertInv'
<1> DEFINE a == r.of
           M == ClientIdentity!motivos(r)
           key == ClientIdentity!claveDeAlerta(r)
<1>1. /\ r \in reviews /\ a \in Owner /\ reviews' = reviews \ {r} /\ UNCHANGED client
      /\ \A m \in Reason : Carries(r, m) # NoKeyYet => KeyOf(client[a], m) = Carries(r, m)
  BY DEF ClientIdentity!revisarClienteDuplicado, IdentityInv, IdentityTyped, AlertInv
<1>2. M \in SUBSET Reason /\ key = <<a, M>>
  BY DEF ClientIdentity!motivos, ClientIdentity!claveDeAlerta, Reason
<1>3. \A b \in Owner, m \in Reason : b # a /\ Carries(r, m) # NoKeyYet /\ Shares(a, b, m) =>
        m \in M /\ b \in ClientIdentity!buscarCoincidencias(r)
  <2> SUFFICES ASSUME NEW b \in Owner, NEW m \in Reason, b # a, Carries(r, m) # NoKeyYet, Shares(a, b, m)
               PROVE  m \in M /\ b \in ClientIdentity!buscarCoincidencias(r)
    OBVIOUS
  <2>1. KeyOf(client[b], m) = Carries(r, m)
    BY <1>1 DEF Shares
  <2>2. client[b].status # "none"
    BY <2>1 DEF IdentityInv, IdentityTyped
  <2>3. m = "documento" => ClientIdentity!SameDocument(r, b)
    BY <2>1 DEF KeyOf, Carries, NoKeyYet, ClientIdentity!SameDocument
  <2>4. m = "telefono" => ClientIdentity!SamePhone(r, b)
    BY <2>1 DEF KeyOf, Carries, NoKeyYet, ClientIdentity!SamePhone
  <2>5. b \in ClientIdentity!buscarCoincidencias(r)
    BY <2>2, <2>3, <2>4 DEF ClientIdentity!buscarCoincidencias, Reason
  <2> QED
    BY <2>3, <2>4, <2>5 DEF ClientIdentity!motivos, Reason
<1>4. \A m \in M : Carries(r, m) # NoKeyYet /\ KeyOf(client[a], m) # NoKeyYet
  BY <1>1, <1>2 DEF ClientIdentity!motivos, ClientIdentity!buscarCoincidencias, Carries, NoKeyYet,
       ClientIdentity!SameDocument, ClientIdentity!SamePhone, Reason
<1>5. told \subseteq told'
  BY DEF ClientIdentity!revisarClienteDuplicado
<1>6. \A b, c \in Owner, m \in Reason : Shares(b, c, m)' <=> Shares(b, c, m)
  BY <1>1 DEF Shares
<1>7. \A b, c \in Owner : Named(b, c) => Named(b, c)'
  BY <1>5 DEF Named
<1>8. \A b, c \in Owner, m \in Reason : Shares(b, c, m) => Shares(c, b, m)
  BY DEF Shares
<1>9. \A b, c \in Owner : Named(b, c) => Named(c, b)
  BY DEF Named
<1>10. \A b \in Owner, m \in Reason :
         /\ Awaited(b, m)' => Awaited(b, m)
         /\ Awaited(b, m) => Awaited(b, m)' \/ (b = a /\ Carries(r, m) # NoKeyYet)
  BY <1>1 DEF Awaited
<1>11. \A s \in reviews' : \A m \in Reason :
         Carries(s, m) # NoKeyYet => KeyOf(client'[s.of], m) = Carries(s, m)
  BY <1>1 DEF IdentityInv, AlertInv
<1>12. CASE UNCHANGED <<throttled, told>> /\ (M = {} \/ key \in throttled)
  <2>1. \A b \in Owner, m \in Reason : Silent(b, m)' <=> Silent(b, m)
    BY <1>12 DEF Silent
  <2>2. \A b \in Owner, m \in Reason : b # a /\ Carries(r, m) # NoKeyYet /\ Shares(a, b, m) =>
          Silent(a, m)
    BY <1>2, <1>3, <1>12 DEF Silent
  <2>3. \A b \in Owner, m \in Reason : b # a /\ Carries(r, m) # NoKeyYet /\ Shares(a, b, m) =>
          Named(a, b) \/ (Awaited(b, m)' /\ ~Silent(b, m)')
    BY <2>1, <2>2, <1>1, <1>10 DEF IdentityInv, AlertInv
  <2>4. \A b, c \in Owner, m \in Reason :
          b # c /\ Shares(b, c, m)' => Named(b, c)' \/ Awaited(b, m)' \/ Awaited(c, m)'
    BY <2>3, <1>6, <1>7, <1>8, <1>9, <1>10 DEF IdentityInv, AlertInv
  <2>5. \A b, c \in Owner, m \in Reason : b # c /\ Shares(b, c, m)' /\ Silent(b, m)'
          => Named(b, c)' \/ (Awaited(c, m)' /\ ~Silent(c, m)')
    <3> SUFFICES ASSUME NEW b \in Owner, NEW c \in Owner, NEW m \in Reason,
                        b # c, Shares(b, c, m), Silent(b, m), ~Named(b, c)
                 PROVE  Awaited(c, m)' /\ ~Silent(c, m)'
      BY <1>6, <1>7, <2>1
    <3>1. Awaited(c, m) /\ ~Silent(c, m)
      BY DEF IdentityInv, AlertInv
    <3>2. ~(c = a /\ Carries(r, m) # NoKeyYet)
      BY <2>2, <1>8, <3>1
    <3> QED
      BY <1>10, <2>1, <3>1, <3>2
  <2>6. \A b \in Owner, m \in Reason : Silent(b, m)' => KeyOf(client'[b], m) # NoKeyYet
    BY <1>1, <2>1 DEF IdentityInv, AlertInv
  <2> QED
    BY <1>11, <2>4, <2>5, <2>6 DEF AlertInv
<1>13. CASE throttled' = throttled \cup {key} /\ told' = told \cup ClientIdentity!enviarCorreoAdmin(r)
  <2>1. \A b \in Owner, m \in Reason : Silent(b, m)' <=> Silent(b, m) \/ (b = a /\ m \in M)
    <3> SUFFICES ASSUME NEW b \in Owner, NEW m \in Reason
                 PROVE  Silent(b, m)' <=> Silent(b, m) \/ (b = a /\ m \in M)
      OBVIOUS
    <3> HIDE DEF M, a, key
    <3>1. \A N \in SUBSET Reason : <<b, N>> \in throttled' <=> <<b, N>> \in throttled \/ (b = a /\ N = M)
      BY <1>2, <1>13
    <3>2. Silent(b, m)' <=> \E N \in SUBSET Reason : m \in N /\ <<b, N>> \in throttled'
      BY DEF Silent
    <3> QED
      BY <1>2, <3>1, <3>2 DEF Silent
  <2>2. \A b \in ClientIdentity!buscarCoincidencias(r) : Named(a, b)'
    BY <1>13 DEF Named, ClientIdentity!enviarCorreoAdmin, ClientIdentity!Pair
  <2>3. \A b \in Owner, m \in Reason : b # a /\ Carries(r, m) # NoKeyYet /\ Shares(a, b, m) =>
          Named(a, b)' /\ Named(b, a)'
    BY <1>3, <2>2 DEF Named
  <2>4. \A b, c \in Owner, m \in Reason :
          b # c /\ Shares(b, c, m)' => Named(b, c)' \/ Awaited(b, m)' \/ Awaited(c, m)'
    BY <2>3, <1>6, <1>7, <1>8, <1>10 DEF IdentityInv, AlertInv
  <2>5. \A b, c \in Owner, m \in Reason : b # c /\ Shares(b, c, m)' /\ Silent(b, m)'
          => Named(b, c)' \/ (Awaited(c, m)' /\ ~Silent(c, m)')
    <3> SUFFICES ASSUME NEW b \in Owner, NEW c \in Owner, NEW m \in Reason,
                        b # c, Shares(b, c, m), Silent(b, m)', ~Named(b, c)'
                 PROVE  Awaited(c, m)' /\ ~Silent(c, m)'
      BY <1>6
    <3>1. Shares(c, b, m) /\ ~Named(b, c)
      BY <1>7, <1>8
    <3>2. ~(b = a /\ Carries(r, m) # NoKeyYet) /\ ~(c = a /\ Carries(r, m) # NoKeyYet)
      BY <2>3, <3>1
    <3>3. ~(b = a /\ m \in M) /\ ~(c = a /\ m \in M)
      BY <1>4, <3>2
    <3>4. Silent(b, m)
      BY <2>1, <3>3
    <3>5. Awaited(c, m) /\ ~Silent(c, m)
      BY <3>1, <3>4 DEF IdentityInv, AlertInv
    <3> QED
      BY <1>10, <2>1, <3>2, <3>3, <3>5
  <2>6. \A b \in Owner, m \in Reason : Silent(b, m)' => KeyOf(client'[b], m) # NoKeyYet
    BY <1>1, <1>4, <2>1 DEF IdentityInv, AlertInv
  <2> QED
    BY <1>11, <2>4, <2>5, <2>6 DEF AlertInv
<1> QED
  BY <1>12, <1>13 DEF ClientIdentity!revisarClienteDuplicado

(* A step that changes no key and no review, and silences nothing.         *)
LEMMA AlertsStand ==
  ASSUME AlertInv, UNCHANGED <<reviews, told>>, throttled' \subseteq throttled,
         \A s \in reviews : s.of \in Owner,
         \A a \in Owner, m \in Reason : KeyOf(client'[a], m) = KeyOf(client[a], m)
  PROVE  AlertInv'
<1>1. \A b \in Owner, m \in Reason : Silent(b, m)' => Silent(b, m)
  BY DEF Silent
<1>2. \A b \in Owner, m \in Reason : Awaited(b, m)' <=> Awaited(b, m)
  BY DEF Awaited
<1>3. \A b, c \in Owner, m \in Reason : Shares(b, c, m)' <=> Shares(b, c, m)
  BY DEF Shares
<1>4. \A b, c \in Owner : Named(b, c)' <=> Named(b, c)
  BY DEF Named
<1>5. \A s \in reviews' : \A m \in Reason :
        Carries(s, m) # NoKeyYet => KeyOf(client'[s.of], m) = Carries(s, m)
  BY DEF AlertInv
<1>6. \A b, c \in Owner, m \in Reason :
        b # c /\ Shares(b, c, m)' => Named(b, c)' \/ Awaited(b, m)' \/ Awaited(c, m)'
  BY <1>2, <1>3, <1>4 DEF AlertInv
<1>7. \A b, c \in Owner, m \in Reason : b # c /\ Shares(b, c, m)' /\ Silent(b, m)'
        => Named(b, c)' \/ (Awaited(c, m)' /\ ~Silent(c, m)')
  BY <1>1, <1>2, <1>3, <1>4 DEF AlertInv
<1>8. \A b \in Owner, m \in Reason : Silent(b, m)' => KeyOf(client'[b], m) # NoKeyYet
  BY <1>1 DEF AlertInv
<1> QED
  BY <1>5, <1>6, <1>7, <1>8 DEF AlertInv

(* What an account's record becomes.                                       *)
LEMMA RecordsStored ==
  ASSUME NEW c \in ClientIdentity!Client, NEW d \in Document \cup {NoKeyYet}, NEW p \in Phone \cup {NoKeyYet}
  PROVE  LET n == ClientIdentity!WithPhone(ClientIdentity!WithDocument(c, d), p)
         IN  /\ n \in ClientIdentity!Client /\ n.status = c.status
             /\ n.document = (IF d = NoKeyYet THEN c.document ELSE d)
             /\ n.fingerprint = (IF d = NoKeyYet THEN c.fingerprint ELSE d)
             /\ n.phone = (IF p = NoKeyYet THEN c.phone ELSE p)
             /\ n.phoneTail = (IF p = NoKeyYet THEN c.phoneTail ELSE p)
<1> DEFINE b == ClientIdentity!WithDocument(c, d)
           n == ClientIdentity!WithPhone(b, p)
<1>1. /\ b \in ClientIdentity!Client /\ b.status = c.status
      /\ b.document = (IF d = NoKeyYet THEN c.document ELSE d)
      /\ b.fingerprint = (IF d = NoKeyYet THEN c.fingerprint ELSE d)
      /\ b.phone = c.phone /\ b.phoneTail = c.phoneTail
  BY DEF ClientIdentity!WithDocument, ClientIdentity!Client, NoKeyYet
<1> HIDE DEF b
<1>2. /\ n \in ClientIdentity!Client /\ n.status = b.status
      /\ n.document = b.document /\ n.fingerprint = b.fingerprint
      /\ n.phone = (IF p = NoKeyYet THEN b.phone ELSE p)
      /\ n.phoneTail = (IF p = NoKeyYet THEN b.phoneTail ELSE p)
  BY <1>1 DEF ClientIdentity!WithPhone, ClientIdentity!Client, NoKeyYet
<1> HIDE DEF n
<1>3. /\ n \in ClientIdentity!Client /\ n.status = c.status
      /\ n.document = (IF d = NoKeyYet THEN c.document ELSE d)
      /\ n.fingerprint = (IF d = NoKeyYet THEN c.fingerprint ELSE d)
      /\ n.phone = (IF p = NoKeyYet THEN c.phone ELSE p)
      /\ n.phoneTail = (IF p = NoKeyYet THEN c.phoneTail ELSE p)
  BY <1>1, <1>2
<1> QED
  BY <1>3 DEF n, b

(* A record of the account a replaces the one it had.                      *)
LEMMA RecordReplaces ==
  ASSUME IdentityTyped, NEW a \in Owner, NEW n \in ClientIdentity!Client,
         client' = [client EXCEPT ![a] = n]
  PROVE  /\ client' \in [Owner -> ClientIdentity!Client] /\ client'[a] = n
         /\ \A b \in Owner : b # a => client'[b] = client[b]
BY DEF IdentityTyped

LEMMA IdentityKept ==
  ASSUME IdentityInv, [ClientIdentity!IdentityNext]_identityVars,
         Corrections = FALSE, PhoneElsewhere = FALSE, MaxRestarts = 0
  PROVE  IdentityInv'
<1> USE DEF IdentityInv
<1>0. \A s \in reviews : s.of \in Owner
  BY DEF IdentityTyped
<1>1. CASE UNCHANGED identityVars
  <2>1. UNCHANGED <<client, reviews, throttled, told, done>>
    BY <1>1 DEF identityVars
  <2>2. AlertInv'
    BY <2>1, <1>0, AlertsStand
  <2> QED
    BY <2>1, <2>2 DEF IdentityTyped
<1>2. ASSUME NEW a \in Owner, NEW d \in Document \cup {NoKeyYet}, NEW p \in Phone \cup {NoKeyYet},
             ClientIdentity!registerUser(a, d, p)
      PROVE  IdentityInv'
  <2> DEFINE c == [ClientIdentity!NoClient EXCEPT !.status = "active"]
             n == ClientIdentity!WithPhone(ClientIdentity!WithDocument(c, d), p)
             r == [of |-> a, document |-> d, phone |-> p]
  <2>1. /\ c \in ClientIdentity!Client /\ c.status = "active" /\ c.document = NoKeyYet
        /\ c.fingerprint = NoKeyYet /\ c.phone = NoKeyYet /\ c.phoneTail = NoKeyYet
    BY DEF ClientIdentity!Client, ClientIdentity!NoClient, NoKeyYet
  <2>2. /\ client[a].status = "none" /\ client' = [client EXCEPT ![a] = n]
        /\ reviews' = reviews \cup {r} /\ UNCHANGED <<throttled, told, done>>
    BY <1>2 DEF ClientIdentity!registerUser, ClientIdentity!Review
  <2> HIDE DEF c
  <2>3. /\ n \in ClientIdentity!Client /\ n.status = "active"
        /\ n.document = d /\ n.fingerprint = d /\ n.phone = p /\ n.phoneTail = p
    BY <2>1, RecordsStored
  <2>4. r.of = a /\ r.document = d /\ r.phone = p
    OBVIOUS
  <2> HIDE DEF n, r
  <2>5. /\ client' \in [Owner -> ClientIdentity!Client] /\ client'[a] = n
        /\ \A b \in Owner : b # a => client'[b] = client[b]
    BY <2>2, <2>3, RecordReplaces
  <2>6. \A m \in Reason : KeyOf(client[a], m) = NoKeyYet /\ KeyOf(client'[a], m) = Carries(r, m)
    BY <2>2, <2>3, <2>4, <2>5 DEF IdentityTyped, KeyOf, Carries, Reason
  <2>7. Writes(a, r)
    BY <2>2, <2>4, <2>5, <2>6 DEF Writes
  <2>8. AlertInv'
    BY <1>0, <2>7, StoringIsReviewed
  <2>9. IdentityTyped'
    BY <2>2, <2>3, <2>4, <2>5 DEF IdentityTyped
  <2> QED
    BY <2>8, <2>9
<1>3. ASSUME NEW a \in Owner, NEW d \in Document \cup {NoKeyYet}, NEW p \in Phone \cup {NoKeyYet},
             ClientIdentity!updateKycProfile(a, d, p)
      PROVE  IdentityInv'
  <2> DEFINE c == client[a]
             n == ClientIdentity!WithPhone(ClientIdentity!WithDocument(c, d), p)
             phone == IF p = NoKeyYet THEN c.phone ELSE p
             r == [of |-> a, document |-> d, phone |-> phone]
  <2>1. /\ c \in ClientIdentity!Client /\ c.status = "active"
        /\ c.phoneTail = c.phone /\ c.fingerprint = c.document
    BY <1>3 DEF IdentityTyped, ClientIdentity!updateKycProfile, ClientIdentity!Live
  <2>2. /\ client' = [client EXCEPT ![a] = n]
        /\ reviews' = reviews \cup {r} /\ UNCHANGED <<throttled, told>>
        /\ done' = [done EXCEPT !.updates = @ + 1]
    BY <1>3 DEF ClientIdentity!updateKycProfile, ClientIdentity!Review, ClientIdentity!Updates, NoKeyYet
  <2>3. /\ d \in {NoKeyYet, c.document} \/ c.document = NoKeyYet
        /\ p = NoKeyYet \/ c.phoneTail \in {NoKeyYet, p}
    BY <1>3 DEF ClientIdentity!updateKycProfile, NoKeyYet
  <2> HIDE DEF c
  <2>4. /\ n \in ClientIdentity!Client /\ n.status = c.status
        /\ n.document = (IF d = NoKeyYet THEN c.document ELSE d)
        /\ n.fingerprint = (IF d = NoKeyYet THEN c.fingerprint ELSE d)
        /\ n.phone = phone
        /\ n.phoneTail = (IF p = NoKeyYet THEN c.phoneTail ELSE p)
    BY <2>1, RecordsStored
  <2>5. r.of = a /\ r.document = d /\ r.phone = phone
    OBVIOUS
  <2> HIDE DEF n, r
  <2>6. /\ client' \in [Owner -> ClientIdentity!Client] /\ client'[a] = n
        /\ \A b \in Owner : b # a => client'[b] = client[b]
    BY <2>2, <2>4, RecordReplaces
  <2>7. \/ KeyOf(n, "documento") = KeyOf(c, "documento") /\ Carries(r, "documento") \in {NoKeyYet, KeyOf(c, "documento")}
        \/ KeyOf(c, "documento") = NoKeyYet /\ KeyOf(n, "documento") = Carries(r, "documento") /\ Carries(r, "documento") # NoKeyYet
    BY <2>1, <2>3, <2>4, <2>5 DEF KeyOf, Carries
  <2>8. \/ KeyOf(n, "telefono") = KeyOf(c, "telefono") /\ Carries(r, "telefono") \in {NoKeyYet, KeyOf(c, "telefono")}
        \/ KeyOf(c, "telefono") = NoKeyYet /\ KeyOf(n, "telefono") = Carries(r, "telefono") /\ Carries(r, "telefono") # NoKeyYet
    BY <2>1, <2>3, <2>4, <2>5 DEF KeyOf, Carries
  <2>9. Writes(a, r)
    BY <2>2, <2>5, <2>6, <2>7, <2>8 DEF Writes, Reason, c
  <2>10. AlertInv'
    BY <1>0, <2>9, StoringIsReviewed
  <2>11. done' \in [updates : Nat, restarts : Nat]
    BY <2>2 DEF IdentityTyped
  <2>12. n.status = "active" /\ n.phoneTail = n.phone /\ n.fingerprint = n.document
    BY <2>1, <2>4
  <2>13. IdentityTyped'
    BY <2>2, <2>4, <2>5, <2>6, <2>11, <2>12 DEF IdentityTyped
  <2> QED
    BY <2>10, <2>13
<1>4. ASSUME NEW a \in Owner, NEW n \in ClientIdentity!Client, client' = [client EXCEPT ![a] = n],
             UNCHANGED <<reviews, throttled, told>>, done' \in [updates : Nat, restarts : Nat],
             n.fingerprint = client[a].fingerprint, n.phoneTail = client[a].phoneTail,
             n.document = client[a].document, n.status # "none",
             n.status = "active" => n.phone = n.phoneTail
      PROVE  IdentityInv'
  <2>1. /\ client' \in [Owner -> ClientIdentity!Client] /\ client'[a] = n
        /\ \A b \in Owner : b # a => client'[b] = client[b]
    BY <1>4, RecordReplaces
  <2>2. \A b \in Owner, m \in Reason : KeyOf(client'[b], m) = KeyOf(client[b], m)
    BY <1>4, <2>1 DEF KeyOf
  <2>3. AlertInv'
    BY <1>0, <1>4, <2>2, AlertsStand
  <2>4. IdentityTyped'
    BY <1>4, <2>1 DEF IdentityTyped
  <2> QED
    BY <2>3, <2>4
<1>5. ASSUME NEW a \in Owner, NEW p \in Phone \cup {NoKeyYet}, ClientIdentity!updateProfile(a, p)
      PROVE  IdentityInv'
  <2> DEFINE c == client[a]
             n == [c EXCEPT !.phone = p]
  <2>1. /\ c \in ClientIdentity!Client /\ c.status = "active"
        /\ c.phoneTail = c.phone /\ p = c.phoneTail
    BY <1>5 DEF IdentityTyped, ClientIdentity!updateProfile, ClientIdentity!Live, NoKeyYet
  <2>2. /\ client' = [client EXCEPT ![a] = n] /\ UNCHANGED <<reviews, throttled, told>>
        /\ done' = [done EXCEPT !.updates = @ + 1]
    BY <1>5 DEF ClientIdentity!updateProfile, ClientIdentity!Updates
  <2>3. /\ n \in ClientIdentity!Client /\ n.status = "active" /\ n.phone = n.phoneTail
        /\ n.phoneTail = c.phoneTail /\ n.document = c.document /\ n.fingerprint = c.fingerprint
    BY <2>1 DEF ClientIdentity!Client, NoKeyYet
  <2>4. done' \in [updates : Nat, restarts : Nat]
    BY <2>2 DEF IdentityTyped
  <2> HIDE DEF n
  <2> QED
    BY <1>4, <2>2, <2>3, <2>4
<1>6. ASSUME NEW a \in Owner, ClientIdentity!deleteAccount(a)
      PROVE  IdentityInv'
  <2> DEFINE c == client[a]
             n == [c EXCEPT !.status = "closed", !.phone = NoKeyYet]
  <2>1. c \in ClientIdentity!Client
    BY DEF IdentityTyped
  <2>2. /\ client' = [client EXCEPT ![a] = n] /\ UNCHANGED <<reviews, throttled, told, done>>
    BY <1>6 DEF ClientIdentity!deleteAccount, NoKeyYet
  <2>3. /\ n \in ClientIdentity!Client /\ n.status = "closed"
        /\ n.phoneTail = c.phoneTail /\ n.document = c.document /\ n.fingerprint = c.fingerprint
    BY <2>1 DEF ClientIdentity!Client, NoKeyYet
  <2>4. done' \in [updates : Nat, restarts : Nat]
    BY <2>2 DEF IdentityTyped
  <2> HIDE DEF n
  <2> QED
    BY <1>4, <2>2, <2>3, <2>4
<1>7. ASSUME NEW r, ClientIdentity!revisarClienteDuplicado(r)
      PROVE  IdentityInv'
  <2>1. AlertInv'
    BY <1>7, ReviewingNames
  <2>2. reviews' \subseteq reviews /\ UNCHANGED <<client, done>>
    BY <1>7 DEF ClientIdentity!revisarClienteDuplicado
  <2> QED
    BY <2>1, <2>2 DEF IdentityTyped
<1>8. ASSUME NEW k, ClientIdentity!cooldownEnds(k)
      PROVE  IdentityInv'
  <2>1. UNCHANGED <<client, reviews, told, done>> /\ throttled' \subseteq throttled
    BY <1>8 DEF ClientIdentity!cooldownEnds
  <2>2. AlertInv'
    BY <1>0, <2>1, AlertsStand
  <2> QED
    BY <2>1, <2>2 DEF IdentityTyped
<1>9. ~ClientIdentity!identityRestart
  BY DEF ClientIdentity!identityRestart, IdentityTyped
<1> QED
  BY <1>1, <1>2, <1>3, <1>5, <1>6, <1>7, <1>8, <1>9 DEF ClientIdentity!IdentityNext, NoKeyYet

LEMMA IdentityStarts == Init => IdentityInv
<1> SUFFICES ASSUME Init PROVE IdentityInv
  OBVIOUS
<1>1. /\ client = [a \in Owner |-> ClientIdentity!NoClient] /\ reviews = {} /\ throttled = {}
      /\ done = [updates |-> 0, restarts |-> 0]
  BY DEF Init, ClientIdentity!IdentityInit
<1> DEFINE c == ClientIdentity!NoClient
<1>2. /\ c \in ClientIdentity!Client /\ c.status = "none" /\ c.fingerprint = NoKeyYet
      /\ c.phoneTail = NoKeyYet /\ c.document = NoKeyYet
  BY DEF ClientIdentity!NoClient, ClientIdentity!Client, NoKeyYet
<1> HIDE DEF c
<1>3. \A a \in Owner, m \in Reason : KeyOf(client[a], m) = NoKeyYet /\ ~Silent(a, m)
  BY <1>1, <1>2 DEF KeyOf, Silent, c
<1>4. IdentityTyped
  BY <1>1, <1>2, <1>3 DEF IdentityTyped, c
<1>5. AlertInv
  BY <1>1, <1>3 DEF AlertInv, Shares
<1> QED
  BY <1>4, <1>5 DEF IdentityInv

LEMMA DuplicatesAreNamed == IdentityInv => ClientIdentity!DuplicateIsAlerted
<1> SUFFICES ASSUME IdentityInv, NEW a \in Owner, NEW b \in Owner, a # b,
                    ClientIdentity!SharesKey(a, b),
                    ClientIdentity!Reviewed(a), ClientIdentity!Reviewed(b)
             PROVE  ClientIdentity!Pair(a, b) \in told
  BY DEF ClientIdentity!DuplicateIsAlerted
<1>1. PICK m \in Reason : Shares(a, b, m)
  <2>1. Shares(a, b, "documento") \/ Shares(a, b, "telefono")
    BY DEF ClientIdentity!SharesKey, Shares, KeyOf, NoKeyYet
  <2> QED
    BY <2>1 DEF Reason
<1>2. ~Awaited(a, m) /\ ~Awaited(b, m)
  BY DEF ClientIdentity!Reviewed, Awaited
<1> QED
  BY <1>1, <1>2 DEF IdentityInv, AlertInv, Named, ClientIdentity!Pair

-----------------------------------------------------------------------------
(* The limits: sums of the amounts of operations, counted by the boliviano. *)
Bolivianos(f, o) == {o} \X (1 .. f[o].amount)
Sum(f, S) == Cardinality(UNION {Bolivianos(f, o) : o \in S})
Sums(f, S) == IsFiniteSet(S) /\ \A o \in S : f[o].amount \in Nat

LEMMA TotalIsSum == ASSUME NEW S PROVE Limits!Total(S) = Sum(op, S)
BY DEF Limits!Total, Sum, Bolivianos, Limits!Cardinality, Cardinality

LEMMA OneSum ==
  ASSUME NEW f, NEW o, f[o].amount \in Nat
  PROVE  IsFiniteSet(Bolivianos(f, o)) /\ Cardinality(Bolivianos(f, o)) = f[o].amount
<1> DEFINE n == f[o].amount
           I == 1 .. n
<1>1. IsFiniteSet({o}) /\ Cardinality({o}) = 1
  BY FS_Singleton
<1>0. n \in Nat
  OBVIOUS
<1> HIDE DEF n
<1>6. IsFiniteSet(1 .. n) /\ Cardinality(1 .. n) = n
  BY <1>0, FS_Interval
<1>2. IsFiniteSet(I) /\ Cardinality(I) = n
  BY <1>6
<1> HIDE DEF I
<1>3. IsFiniteSet({o} \X I) /\ Cardinality({o} \X I) = 1 * n
  BY <1>1, <1>2, FS_Product
<1>4. {o} \X I = Bolivianos(f, o)
  BY DEF Bolivianos, I, n
<1>5. 1 * n = n
  BY DEF n
<1> QED
  BY <1>3, <1>4, <1>5 DEF n

LEMMA SumTyped ==
  ASSUME NEW f, NEW S, Sums(f, S)
  PROVE  IsFiniteSet(UNION {Bolivianos(f, o) : o \in S}) /\ Sum(f, S) \in Nat
<1> DEFINE T == {Bolivianos(f, o) : o \in S}
           g == [o \in S |-> Bolivianos(f, o)]
<1>1. \A t \in T : IsFiniteSet(t)
  BY OneSum DEF Sums
<1>2. g \in [S -> T] /\ \A t \in T : \E o \in S : g[o] = t
  OBVIOUS
<1> HIDE DEF T, g
<1>3. g \in Surjection(S, T)
  BY <1>2 DEF Surjection
<1>4. IsFiniteSet(T)
  BY <1>3, FS_Surjection DEF Sums
<1>5. IsFiniteSet(UNION T)
  BY <1>1, <1>4, FS_UNION
<1>6. Cardinality(UNION T) \in Nat
  BY <1>5, FS_CardinalityType
<1> QED
  BY <1>5, <1>6 DEF Sum, T

LEMMA SumGrows ==
  ASSUME NEW f, NEW S, NEW T, Sums(f, T), S \subseteq T
  PROVE  Sum(f, S) \in Nat /\ Sum(f, T) \in Nat /\ Sum(f, S) <= Sum(f, T)
<1>1. IsFiniteSet(S) /\ Sums(f, S)
  BY FS_Subset DEF Sums
<1>2. UNION {Bolivianos(f, o) : o \in S} \in SUBSET UNION {Bolivianos(f, o) : o \in T}
  BY DEF Bolivianos
<1>3. IsFiniteSet(UNION {Bolivianos(f, o) : o \in T})
  BY SumTyped
<1>4. Sum(f, S) <= Sum(f, T)
  BY <1>2, <1>3, FS_Subset DEF Sum
<1> QED
  BY <1>1, <1>4, SumTyped

LEMMA SumAgrees ==
  ASSUME NEW f, NEW g, NEW S, \A o \in S : f[o].amount = g[o].amount
  PROVE  Sum(f, S) = Sum(g, S)
<1>1. \A o \in S : Bolivianos(f, o) = Bolivianos(g, o)
  BY DEF Bolivianos
<1>2. {Bolivianos(f, o) : o \in S} = {Bolivianos(g, o) : o \in S}
  BY <1>1
<1> QED
  BY <1>2 DEF Sum

LEMMA SumAdds ==
  ASSUME NEW f, NEW S, NEW o, Sums(f, S), f[o].amount \in Nat
  PROVE  /\ Sums(f, S \cup {o})
         /\ Sum(f, S \cup {o}) <= Sum(f, S) + f[o].amount
<1> DEFINE A == UNION {Bolivianos(f, p) : p \in S}
           B == Bolivianos(f, o)
           C == UNION {Bolivianos(f, p) : p \in S \cup {o}}
<1>1. Sums(f, S \cup {o})
  BY FS_AddElement DEF Sums
<1>2. IsFiniteSet(A) /\ Cardinality(A) \in Nat
  BY SumTyped DEF Sum
<1>3. IsFiniteSet(B) /\ Cardinality(B) = f[o].amount
  BY OneSum
<1>4. C = A \cup B
  OBVIOUS
<1> HIDE DEF A, B, C
<1>5. /\ IsFiniteSet(A \cup B)
      /\ Cardinality(A \cup B) = Cardinality(A) + Cardinality(B) - Cardinality(A \cap B)
  BY <1>2, <1>3, FS_Union
<1>6. Cardinality(A \cap B) \in Nat
  BY <1>2, <1>3, FS_Intersection, FS_CardinalityType
<1>7. Cardinality(C) <= Cardinality(A) + f[o].amount
  BY <1>2, <1>3, <1>4, <1>5, <1>6
<1> QED
  BY <1>1, <1>7 DEF Sum, A, C

(* The days: a later one does not begin earlier.                           *)
LEMMA DaysGoOn ==
  ASSUME NEW t \in Nat, NEW k \in Nat \ {0}
  PROVE  /\ t - (t % k) \in Nat /\ t - (t % k) <= t
         /\ (t + 1) - ((t + 1) % k) >= t - (t % k)
OBVIOUS

OpDoc == [status : {"none", "checked", "pending", "completed", "failed"}, amount : Nat,
          createdAt : Nat, completedAt : Nat]
AlertDoc == [rule : {"single_tx_high", "daily_cumulative"}, source : {"crossborder", "wallet"},
             status : {"open", "closed"}, createdAt : Nat, transactionIds : SUBSET Movement]

LimitsTyped ==
  /\ op \in [Movement -> OpDoc] /\ now \in Nat
  /\ alerts \subseteq AlertDoc
  /\ \A a \in alerts : a.createdAt <= now
  /\ \A o \in Movement : op[o].status \in {"pending", "completed"} => op[o].createdAt <= now
  /\ \A o \in Movement : op[o].status = "completed" => op[o].completedAt <= now

LimitAssumption ==
  /\ IsFiniteSet(Movement) /\ Amounts \subseteq Nat
  /\ Ticks \in Nat \ {0}
  /\ OperationMax \in Nat /\ DailyMax \in Nat /\ PeriodMax \in Nat /\ SingleTx \in Nat

(* What counts against the limits, in the period and since a time.         *)
Counts(f, o) == o \in Movement \ Wallet /\ f[o].status \in {"pending", "completed"}
Counted(f) == {o \in Movement : Counts(f, o)}
Since(f, t) == {o \in Movement : Counts(f, o) /\ f[o].createdAt >= t}
Day(t) == t - (t % Ticks)
OfDay(f, t) == {o \in Movement : Counts(f, o) /\ Day(f[o].createdAt) = t}

(* The limits hold, and still do with what one request has checked.        *)
EcpInv ==
  /\ Sum(op, Counted(op)) <= PeriodMax
  /\ \A t \in Nat : Sum(op, OfDay(op, t)) <= DailyMax
  /\ \A o \in Movement : op[o].status = "checked" =>
       /\ o \notin Wallet
       /\ Sum(op, Counted(op)) + op[o].amount <= PeriodMax
       /\ Sum(op, Since(op, Day(now))) + op[o].amount <= DailyMax
       /\ \A p \in Movement : op[p].status = "checked" => p = o

(* A large operation has its alert once the monitor of its source has run  *)
(* after it completed.                                                     *)
LargeOne(f, o) ==
  f[o].status = "completed" /\ f[o].amount >= SingleTx /\ f[o].completedAt < f[o].createdAt + Ticks
Flagged(f, A, o) ==
  \E a \in A : /\ a.rule = "single_tx_high"
               /\ a.createdAt + Ticks >= f[o].createdAt /\ a.createdAt <= f[o].createdAt + Ticks
SourceOf(o) == IF o \in Wallet THEN "wallet" ELSE "crossborder"
FlagInv ==
  \A o \in Movement :
    /\ LargeOne(op, o) /\ now > op[o].completedAt
    /\ SourceOf(o) \in monitored \/ now > op[o].completedAt + 1
    => Flagged(op, alerts, o)

LimitsInv == LimitsTyped /\ EcpInv /\ FlagInv

LEMMA SumsAreTyped ==
  ASSUME LimitAssumption, NEW f \in [Movement -> OpDoc], NEW S, S \subseteq Movement
  PROVE  Sums(f, S)
<1>1. IsFiniteSet(S)
  BY FS_Subset DEF LimitAssumption
<1>2. \A o \in S : f[o].amount \in Nat
  BY DEF OpDoc
<1> QED
  BY <1>1, <1>2 DEF Sums

(* An operation changes, and does not begin to count: less is counted.     *)
LEMMA LessIsCounted ==
  ASSUME LimitAssumption, NEW f \in [Movement -> OpDoc], NEW g \in [Movement -> OpDoc],
         \A o \in Movement : Counts(g, o) =>
           Counts(f, o) /\ g[o].amount = f[o].amount /\ g[o].createdAt = f[o].createdAt
  PROVE  /\ Sum(g, Counted(g)) \in Nat /\ Sum(f, Counted(f)) \in Nat
         /\ Sum(g, Counted(g)) <= Sum(f, Counted(f))
         /\ \A t \in Nat : /\ Sum(g, OfDay(g, t)) \in Nat /\ Sum(f, OfDay(f, t)) \in Nat
                           /\ Sum(g, OfDay(g, t)) <= Sum(f, OfDay(f, t))
         /\ \A t, u \in Nat : t <= u =>
              /\ Sum(g, Since(g, u)) \in Nat /\ Sum(f, Since(f, t)) \in Nat
              /\ Sum(g, Since(g, u)) <= Sum(f, Since(f, t))
<1>1. ASSUME NEW S, NEW T, S \subseteq T, T \subseteq Movement, \A o \in S : Counts(g, o)
      PROVE  Sum(g, S) \in Nat /\ Sum(f, T) \in Nat /\ Sum(g, S) <= Sum(f, T)
  <2>1. Sums(f, T)
    BY <1>1, SumsAreTyped
  <2>2. Sum(f, S) \in Nat /\ Sum(f, T) \in Nat /\ Sum(f, S) <= Sum(f, T)
    BY <1>1, <2>1, SumGrows
  <2>3. \A o \in S : g[o].amount = f[o].amount
    BY <1>1
  <2>4. Sum(g, S) = Sum(f, S)
    BY <2>3, SumAgrees
  <2> QED
    BY <2>2, <2>4
<1>2. Counted(g) \subseteq Counted(f) /\ Counted(f) \subseteq Movement /\ \A o \in Counted(g) : Counts(g, o)
  BY DEF Counted
<1>3. \A t \in Nat : OfDay(g, t) \subseteq OfDay(f, t) /\ OfDay(f, t) \subseteq Movement
                     /\ \A o \in OfDay(g, t) : Counts(g, o)
  BY DEF OfDay
<1>4. \A t, u \in Nat : t <= u => Since(g, u) \subseteq Since(f, t) /\ Since(f, t) \subseteq Movement
                                  /\ \A o \in Since(g, u) : Counts(g, o)
  <2> SUFFICES ASSUME NEW t \in Nat, NEW u \in Nat, t <= u
               PROVE  /\ Since(g, u) \subseteq Since(f, t) /\ Since(f, t) \subseteq Movement
                      /\ \A o \in Since(g, u) : Counts(g, o)
    OBVIOUS
  <2>1. \A o \in Movement : f[o].createdAt \in Nat
    BY DEF OpDoc
  <2>2. \A o \in Movement : f[o].createdAt >= u => f[o].createdAt >= t
    BY <2>1
  <2> QED
    BY <2>2 DEF Since
<1>5. Sum(g, Counted(g)) \in Nat /\ Sum(f, Counted(f)) \in Nat /\ Sum(g, Counted(g)) <= Sum(f, Counted(f))
  BY <1>1, <1>2
<1>6. \A t \in Nat : /\ Sum(g, OfDay(g, t)) \in Nat /\ Sum(f, OfDay(f, t)) \in Nat
                     /\ Sum(g, OfDay(g, t)) <= Sum(f, OfDay(f, t))
  BY <1>1, <1>3
<1>7. \A t, u \in Nat : t <= u =>
              /\ Sum(g, Since(g, u)) \in Nat /\ Sum(f, Since(f, t)) \in Nat
              /\ Sum(g, Since(g, u)) <= Sum(f, Since(f, t))
  BY <1>1, <1>4
<1> QED
  BY <1>5, <1>6, <1>7

(* A step after which nothing more is counted and nothing more is checked. *)
LEMMA EcpStands ==
  ASSUME LimitAssumption, LimitsTyped, EcpInv, op' \in [Movement -> OpDoc],
         now' \in {now, now + 1},
         \A o \in Movement : Counts(op', o) =>
           Counts(op, o) /\ op'[o].amount = op[o].amount /\ op'[o].createdAt = op[o].createdAt,
         \A o \in Movement : op'[o].status = "checked" =>
           op[o].status = "checked" /\ op'[o].amount = op[o].amount
  PROVE  EcpInv'
<1>1. op \in [Movement -> OpDoc] /\ now \in Nat /\ PeriodMax \in Nat /\ DailyMax \in Nat
  BY DEF LimitsTyped, LimitAssumption
<1>2. /\ Sum(op', Counted(op')) \in Nat /\ Sum(op, Counted(op)) \in Nat
      /\ Sum(op', Counted(op')) <= Sum(op, Counted(op))
      /\ \A t \in Nat : /\ Sum(op', OfDay(op', t)) \in Nat /\ Sum(op, OfDay(op, t)) \in Nat
                        /\ Sum(op', OfDay(op', t)) <= Sum(op, OfDay(op, t))
      /\ \A t, u \in Nat : t <= u =>
           /\ Sum(op', Since(op', u)) \in Nat /\ Sum(op, Since(op, t)) \in Nat
           /\ Sum(op', Since(op', u)) <= Sum(op, Since(op, t))
  BY <1>1, LessIsCounted
<1>3. Day(now) \in Nat /\ Day(now') \in Nat /\ Day(now) <= Day(now')
  <2>1. /\ Day(now) \in Nat
        /\ Day(now + 1) \in Nat /\ Day(now + 1) >= Day(now)
    <3>1. now + 1 \in Nat /\ Ticks \in Nat \ {0}
      BY <1>1 DEF LimitAssumption
    <3>2. now - (now % Ticks) \in Nat /\ (now + 1) - ((now + 1) % Ticks) >= now - (now % Ticks)
      BY <1>1, <3>1, DaysGoOn
    <3>3. (now + 1) - ((now + 1) % Ticks) \in Nat
      BY <3>1, DaysGoOn
    <3> QED
      BY <3>2, <3>3 DEF Day
  <2>2. CASE now' = now
    <3>1. Day(now') = Day(now)
      BY <2>2 DEF Day
    <3> QED
      BY <2>1, <3>1
  <2>3. CASE now' = now + 1
    <3>1. Day(now') = Day(now + 1)
      BY <2>3 DEF Day
    <3> QED
      BY <2>1, <3>1
  <2> QED
    BY <2>2, <2>3
<1>4. /\ Sum(op', Since(op', Day(now'))) \in Nat /\ Sum(op, Since(op, Day(now))) \in Nat
      /\ Sum(op', Since(op', Day(now'))) <= Sum(op, Since(op, Day(now)))
  BY <1>2, <1>3
<1>5. Sum(op', Counted(op')) <= PeriodMax
  <2>1. Sum(op, Counted(op)) <= PeriodMax
    BY DEF EcpInv
  <2> QED
    BY <1>1, <1>2, <2>1
<1>7. \A t \in Nat : Sum(op', OfDay(op', t)) <= DailyMax
  <2> SUFFICES ASSUME NEW t \in Nat
               PROVE  Sum(op', OfDay(op', t)) <= DailyMax
    OBVIOUS
  <2>1. Sum(op, OfDay(op, t)) <= DailyMax
    BY DEF EcpInv
  <2>2. /\ Sum(op', OfDay(op', t)) \in Nat /\ Sum(op, OfDay(op, t)) \in Nat
        /\ Sum(op', OfDay(op', t)) <= Sum(op, OfDay(op, t))
    BY <1>2
  <2> QED
    BY <1>1, <2>1, <2>2
<1>6. ASSUME NEW o \in Movement, op'[o].status = "checked"
      PROVE  /\ o \notin Wallet
             /\ Sum(op', Counted(op')) + op'[o].amount <= PeriodMax
             /\ Sum(op', Since(op', Day(now'))) + op'[o].amount <= DailyMax
             /\ \A p \in Movement : op'[p].status = "checked" => p = o
  <2>1. op[o].status = "checked" /\ op'[o].amount = op[o].amount /\ op[o].amount \in Nat
    BY <1>1, <1>6 DEF OpDoc
  <2>2. /\ o \notin Wallet
        /\ Sum(op, Counted(op)) + op[o].amount <= PeriodMax
        /\ Sum(op, Since(op, Day(now))) + op[o].amount <= DailyMax
        /\ \A p \in Movement : op[p].status = "checked" => p = o
    BY <2>1 DEF EcpInv
  <2>3. Sum(op', Counted(op')) + op'[o].amount <= PeriodMax
    <3>1. /\ Sum(op', Counted(op')) \in Nat /\ Sum(op, Counted(op)) \in Nat
          /\ Sum(op', Counted(op')) <= Sum(op, Counted(op))
      BY <1>2
    <3> QED
      BY <1>1, <2>1, <2>2, <3>1
  <2>4. Sum(op', Since(op', Day(now'))) + op'[o].amount <= DailyMax
    BY <1>1, <1>4, <2>1, <2>2
  <2>5. \A p \in Movement : op'[p].status = "checked" => p = o
    BY <2>2
  <2> QED
    BY <2>2, <2>3, <2>4, <2>5
<1> QED
  BY <1>5, <1>6, <1>7 DEF EcpInv

(* What setting an operation does.                                         *)
LEMMA OpBecomes ==
  ASSUME LimitsTyped, NEW o \in Movement, NEW d \in OpDoc, op' = [op EXCEPT ![o] = d]
  PROVE  /\ op' \in [Movement -> OpDoc] /\ op'[o] = d
         /\ \A p \in Movement : p # o => op'[p] = op[p]
BY DEF LimitsTyped

(* A request that passed the check: its amount is within what is left.     *)
LEMMA CheckedFits ==
  ASSUME LimitAssumption, LimitsTyped, EcpInv, AtOnce = FALSE,
         NEW o \in Movement, NEW m \in Amounts, Limits!checkEcpLimits(o, m)
  PROVE  EcpInv' /\ op' \in [Movement -> OpDoc]
         /\ op'[o].status = "checked" /\ \A p \in Movement : p # o => op'[p] = op[p]
<1> DEFINE d == [op[o] EXCEPT !.status = "checked", !.amount = m]
<1>1. op[o] \in OpDoc /\ m \in Nat /\ op \in [Movement -> OpDoc] /\ now \in Nat
  BY DEF LimitsTyped, LimitAssumption
<1>2. d \in OpDoc /\ d.status = "checked" /\ d.amount = m
  BY <1>1 DEF OpDoc
<1>3. op' = [op EXCEPT ![o] = d] /\ now' = now
  BY <1>1 DEF Limits!checkEcpLimits
<1> HIDE DEF d
<1>4. /\ op' \in [Movement -> OpDoc] /\ op'[o] = d
      /\ \A p \in Movement : p # o => op'[p] = op[p]
  BY <1>2, <1>3, OpBecomes
<1>5. o \notin Wallet /\ op[o].status = "none" /\ \A p \in Movement : op[p].status # "checked"
  BY DEF Limits!checkEcpLimits
<1>6. \A p \in Movement : Counts(op', p) <=> Counts(op, p)
  BY <1>2, <1>4, <1>5 DEF Counts
<1>7. \A p \in Movement : Counts(op, p) => op'[p] = op[p]
  BY <1>4, <1>5 DEF Counts
<1>8. Sum(op', Counted(op')) = Sum(op, Counted(op))
  <2>1. Counted(op') = Counted(op)
    BY <1>6 DEF Counted
  <2>2. \A p \in Counted(op) : op'[p].amount = op[p].amount
    BY <1>7 DEF Counted
  <2> QED
    BY <2>1, <2>2, SumAgrees
<1>9. \A t \in Nat : Sum(op', OfDay(op', t)) = Sum(op, OfDay(op, t))
  <2> SUFFICES ASSUME NEW t \in Nat
               PROVE  Sum(op', OfDay(op', t)) = Sum(op, OfDay(op, t))
    OBVIOUS
  <2>1. OfDay(op', t) = OfDay(op, t)
    BY <1>6, <1>7 DEF OfDay
  <2>2. \A p \in OfDay(op, t) : op'[p].amount = op[p].amount
    BY <1>7 DEF OfDay
  <2> QED
    BY <2>1, <2>2, SumAgrees
<1>10. Sum(op', Since(op', Day(now'))) = Sum(op, Since(op, Day(now)))
  <2>1. Since(op', Day(now')) = Since(op, Day(now))
    BY <1>3, <1>6, <1>7 DEF Since
  <2>2. \A p \in Since(op, Day(now)) : op'[p].amount = op[p].amount
    BY <1>7 DEF Since
  <2> QED
    BY <2>1, <2>2, SumAgrees
<1>11. /\ Limits!getEcpUsage(Limits!startOfDay(now)) = Sum(op, Since(op, Day(now)))
       /\ Limits!getEcpUsage(0) = Sum(op, Counted(op))
  <2>1. {p \in Movement \ Wallet : Limits!consuming(p) /\ op[p].createdAt >= Day(now)} = Since(op, Day(now))
    BY DEF Since, Counts, Limits!consuming
  <2>2. \A p \in Movement : op[p].createdAt >= 0
    BY <1>1 DEF OpDoc
  <2>3. {p \in Movement \ Wallet : Limits!consuming(p) /\ op[p].createdAt >= 0} = Counted(op)
    BY <2>2 DEF Counted, Counts, Limits!consuming
  <2>4. Limits!startOfDay(now) = Day(now)
    BY DEF Limits!startOfDay, Day
  <2> QED
    BY <2>1, <2>3, <2>4, TotalIsSum DEF Limits!getEcpUsage
<1>12. Sum(op, Since(op, Day(now))) + m <= DailyMax /\ Sum(op, Counted(op)) + m <= PeriodMax
  BY <1>11 DEF Limits!checkEcpLimits, Limits!evaluateEcpLimits
<1>13. EcpInv'
  <2>1. Sum(op', Counted(op')) <= PeriodMax /\ \A t \in Nat : Sum(op', OfDay(op', t)) <= DailyMax
    BY <1>8, <1>9 DEF EcpInv
  <2>2. \A p \in Movement : op'[p].status = "checked" => p = o
    BY <1>4, <1>5
  <2>3. /\ Sum(op', Counted(op')) + op'[o].amount <= PeriodMax
        /\ Sum(op', Since(op', Day(now'))) + op'[o].amount <= DailyMax
    BY <1>2, <1>4, <1>8, <1>10, <1>12
  <2> QED
    BY <1>5, <2>1, <2>2, <2>3 DEF EcpInv
<1> QED
  BY <1>2, <1>4, <1>13

(* The payment is created, maybe on a later day: it fits there too.        *)
LEMMA CreatedFits ==
  ASSUME LimitAssumption, LimitsTyped, EcpInv, NEW o \in Movement, Limits!createPayment(o)
  PROVE  EcpInv' /\ op' \in [Movement -> OpDoc] /\ now' = now
         /\ op'[o].status = "pending" /\ op'[o].createdAt = now
         /\ \A p \in Movement : p # o => op'[p] = op[p]
<1> DEFINE d == [op[o] EXCEPT !.status = "pending", !.createdAt = now]
<1>1. op[o] \in OpDoc /\ op \in [Movement -> OpDoc] /\ now \in Nat
  BY DEF LimitsTyped
<1>2. d \in OpDoc /\ d.status = "pending" /\ d.amount = op[o].amount /\ d.createdAt = now
  BY <1>1 DEF OpDoc
<1>3. op' = [op EXCEPT ![o] = d] /\ now' = now
  BY <1>1 DEF Limits!createPayment
<1> HIDE DEF d
<1>4. /\ op' \in [Movement -> OpDoc] /\ op'[o] = d
      /\ \A p \in Movement : p # o => op'[p] = op[p]
  BY <1>2, <1>3, OpBecomes
<1>5. op[o].status = "checked" /\ op[o].amount \in Nat
  BY <1>1 DEF Limits!createPayment, OpDoc
<1>6. /\ o \notin Wallet
      /\ Sum(op, Counted(op)) + op[o].amount <= PeriodMax
      /\ Sum(op, Since(op, Day(now))) + op[o].amount <= DailyMax
      /\ \A p \in Movement : op[p].status = "checked" => p = o
  BY <1>5 DEF EcpInv
<1>7. \A p \in Movement : Counts(op', p) => p = o \/ (Counts(op, p) /\ op'[p] = op[p])
  BY <1>4 DEF Counts
<1>8. \A p \in Movement : op'[p].amount = op[p].amount
  BY <1>2, <1>4
<1>9. \A S \in SUBSET Movement : \A T \in SUBSET Movement :
        T \subseteq S \cup {o} => Sum(op', T) \in Nat /\ Sum(op, S) \in Nat /\ Sum(op', T) <= Sum(op, S) + op[o].amount
  <2> SUFFICES ASSUME NEW S \in SUBSET Movement, NEW T \in SUBSET Movement, T \subseteq S \cup {o}
               PROVE  Sum(op', T) \in Nat /\ Sum(op, S) \in Nat /\ Sum(op', T) <= Sum(op, S) + op[o].amount
    OBVIOUS
  <2>1. Sums(op, S)
    BY <1>1, SumsAreTyped
  <2>2. Sums(op, S \cup {o}) /\ Sum(op, S \cup {o}) <= Sum(op, S) + op[o].amount
    BY <1>5, <2>1, SumAdds
  <2>3. Sum(op, T) \in Nat /\ Sum(op, S \cup {o}) \in Nat /\ Sum(op, T) <= Sum(op, S \cup {o})
    BY <2>2, SumGrows
  <2>4. Sum(op', T) = Sum(op, T)
    BY <1>8, SumAgrees
  <2>5. Sum(op, S) \in Nat
    BY <2>1, SumTyped
  <2> QED
    BY <1>5, <2>2, <2>3, <2>4, <2>5
<1>10. Sum(op', Counted(op')) <= PeriodMax
  <2>1. Counted(op') \in SUBSET Movement /\ Counted(op) \in SUBSET Movement /\ Counted(op') \subseteq Counted(op) \cup {o}
    BY <1>7 DEF Counted
  <2>2. Sum(op', Counted(op')) \in Nat /\ Sum(op, Counted(op)) \in Nat
        /\ Sum(op', Counted(op')) <= Sum(op, Counted(op)) + op[o].amount
    BY <1>9, <2>1
  <2> QED
    BY <1>5, <1>6, <2>2 DEF LimitAssumption
<1>11. \A t \in Nat : Sum(op', OfDay(op', t)) <= DailyMax
  <2> SUFFICES ASSUME NEW t \in Nat
               PROVE  Sum(op', OfDay(op', t)) <= DailyMax
    OBVIOUS
  <2>1. CASE t = Day(now)
    <3>1. \A p \in Movement : Day(op[p].createdAt) = t => op[p].createdAt >= Day(now)
      <4> SUFFICES ASSUME NEW p \in Movement, Day(op[p].createdAt) = t
                   PROVE  op[p].createdAt >= Day(now)
        OBVIOUS
      <4>1. op[p].createdAt \in Nat
        BY <1>1 DEF OpDoc
      <4>2. Day(op[p].createdAt) \in Nat /\ Day(op[p].createdAt) <= op[p].createdAt
        BY <4>1, DaysGoOn DEF Day, LimitAssumption
      <4> QED
        BY <2>1, <4>1, <4>2
    <3>2. OfDay(op', t) \in SUBSET Movement /\ Since(op, Day(now)) \in SUBSET Movement
          /\ OfDay(op', t) \subseteq Since(op, Day(now)) \cup {o}
      BY <1>7, <3>1 DEF OfDay, Since
    <3>3. Sum(op', OfDay(op', t)) \in Nat /\ Sum(op, Since(op, Day(now))) \in Nat
          /\ Sum(op', OfDay(op', t)) <= Sum(op, Since(op, Day(now))) + op[o].amount
      BY <1>9, <3>2
    <3> QED
      BY <1>5, <1>6, <3>3 DEF LimitAssumption
  <2>2. CASE t # Day(now)
    <3>1. o \notin OfDay(op', t)
      BY <1>2, <1>4, <2>2 DEF OfDay
    <3>2. OfDay(op', t) \subseteq OfDay(op, t) /\ OfDay(op, t) \subseteq Movement
      BY <1>7, <3>1 DEF OfDay
    <3>3. Sums(op, OfDay(op, t))
      BY <1>1, <3>2, SumsAreTyped
    <3>4. Sum(op, OfDay(op', t)) \in Nat /\ Sum(op, OfDay(op, t)) \in Nat
          /\ Sum(op, OfDay(op', t)) <= Sum(op, OfDay(op, t))
      BY <3>2, <3>3, SumGrows
    <3>5. Sum(op', OfDay(op', t)) = Sum(op, OfDay(op', t))
      BY <1>8, <3>2, SumAgrees
    <3>6. Sum(op, OfDay(op, t)) <= DailyMax
      BY DEF EcpInv
    <3> QED
      BY <3>4, <3>5, <3>6 DEF LimitAssumption
  <2> QED
    BY <2>1, <2>2
<1>12. \A p \in Movement : op'[p].status # "checked"
  BY <1>2, <1>4, <1>6
<1> QED
  BY <1>2, <1>3, <1>4, <1>10, <1>11, <1>12 DEF EcpInv
(* An alert of which the rule and the time remain flags as it did.         *)
LEMMA FlagsStand ==
  ASSUME LimitsTyped, FlagInv, now' = now, monitored' = monitored,
         \A o \in Movement : op'[o] = op[o] \/ op'[o].status # "completed" \/ op'[o].completedAt = now,
         \A a \in alerts : \E b \in alerts' : b.rule = a.rule /\ b.createdAt = a.createdAt
  PROVE  FlagInv'
<1> SUFFICES ASSUME NEW o \in Movement,
                    LargeOne(op', o), now' > op'[o].completedAt,
                    SourceOf(o) \in monitored' \/ now' > op'[o].completedAt + 1
             PROVE  Flagged(op', alerts', o)
  BY DEF FlagInv
<1>1. now \in Nat
  BY DEF LimitsTyped
<1>2. op'[o] = op[o]
  BY <1>1 DEF LargeOne
<1>3. LargeOne(op, o) /\ now > op[o].completedAt
      /\ (SourceOf(o) \in monitored \/ now > op[o].completedAt + 1)
  BY <1>2 DEF LargeOne
<1>4. Flagged(op, alerts, o)
  BY <1>3 DEF FlagInv
<1> QED
  BY <1>2, <1>4 DEF Flagged

(* A monitor that runs flags the large operations it can still see.        *)
LEMMA MonitorFlags ==
  ASSUME LimitAssumption, LimitsTyped, FlagInv,
         NEW src \in {"crossborder", "wallet"}, Limits!rosMonitor(src)
  PROVE  FlagInv'
<1> SUFFICES ASSUME NEW o \in Movement,
                    LargeOne(op', o), now' > op'[o].completedAt,
                    SourceOf(o) \in monitored' \/ now' > op'[o].completedAt + 1
             PROVE  Flagged(op', alerts', o)
  BY DEF FlagInv
<1>1. op' = op /\ now' = now /\ alerts \subseteq alerts' /\ monitored' = monitored \cup {src}
  BY DEF Limits!rosMonitor
<1>2. CASE SourceOf(o) \in monitored \/ now > op[o].completedAt + 1
  <2>1. Flagged(op, alerts, o)
    BY <1>1, <1>2 DEF FlagInv
  <2> QED
    BY <1>1, <2>1 DEF Flagged
<1>3. CASE SourceOf(o) = src /\ ~(now > op[o].completedAt + 1)
  <2>1. /\ op[o].createdAt \in Nat /\ op[o].completedAt \in Nat /\ now \in Nat /\ Ticks \in Nat
        /\ op[o].status = "completed" /\ op[o].amount >= SingleTx
        /\ op[o].completedAt < op[o].createdAt + Ticks
    BY <1>1 DEF LargeOne, LimitsTyped, OpDoc, LimitAssumption
  <2>2. now = op[o].completedAt + 1 /\ op[o].createdAt <= now
    BY <1>1, <1>3, <2>1 DEF LimitsTyped
  <2>3. op[o].createdAt + Ticks >= now
    BY <2>1, <2>2
  <2>4. o \in Limits!highTxs(src)
    BY <1>3, <2>1, <2>3 DEF Limits!highTxs, Limits!txs24h, Limits!Source, SourceOf
  <2>5. [rule |-> "single_tx_high", txIds |-> Limits!highTxs(src)] \in Limits!findings(src)
    BY <2>4 DEF Limits!findings
  <2>6. CASE Limits!onCooldown("single_tx_high", src)
    <3>1. PICK a \in alerts : a.rule = "single_tx_high" /\ a.createdAt + Ticks >= now
      BY <2>6 DEF Limits!onCooldown
    <3>2. a.createdAt <= now /\ a.createdAt \in Nat
      BY <3>1 DEF LimitsTyped, AlertDoc
    <3>3. a.createdAt + Ticks >= op[o].createdAt /\ a.createdAt <= op[o].createdAt + Ticks
      BY <2>1, <2>2, <2>3, <3>1, <3>2
    <3> QED
      BY <1>1, <3>1, <3>3 DEF Flagged
  <2>7. CASE ~Limits!onCooldown("single_tx_high", src)
    <3> DEFINE a == [rule |-> "single_tx_high", source |-> src, status |-> "open", createdAt |-> now,
                     transactionIds |-> Limits!highTxs(src)]
    <3>1. a \in alerts'
      BY <2>5, <2>7 DEF Limits!rosMonitor
    <3>2. a.createdAt + Ticks >= op[o].createdAt /\ a.createdAt <= op[o].createdAt + Ticks
      BY <2>1, <2>2, <2>3
    <3> QED
      BY <1>1, <3>1, <3>2 DEF Flagged
  <2> QED
    BY <2>6, <2>7
<1> QED
  BY <1>1, <1>2, <1>3

(* What a monitor stores is an alert.                                      *)
LEMMA MonitorStores ==
  ASSUME LimitsTyped, NEW src \in {"crossborder", "wallet"}, Limits!rosMonitor(src)
  PROVE  alerts' \subseteq AlertDoc /\ \A a \in alerts' : a.createdAt <= now
<1>1. \A f \in Limits!findings(src) :
        f.rule \in {"single_tx_high", "daily_cumulative"} /\ f.txIds \in SUBSET Movement
  <2>1. Limits!txs24h(src) \subseteq Movement
    BY DEF Limits!txs24h
  <2>2. Limits!highTxs(src) \subseteq Movement
    BY <2>1 DEF Limits!highTxs
  <2> QED
    BY <2>1, <2>2 DEF Limits!findings
<1>2. now \in Nat /\ alerts \subseteq AlertDoc /\ \A a \in alerts : a.createdAt <= now
  BY DEF LimitsTyped
<1> SUFFICES ASSUME NEW a \in alerts'
             PROVE  a \in AlertDoc /\ a.createdAt <= now
  OBVIOUS
<1>3. CASE a \in alerts
  BY <1>2, <1>3
<1>4. CASE a \notin alerts
  <2>1. PICK f \in Limits!findings(src) :
          a = [rule |-> f.rule, source |-> src, status |-> "open", createdAt |-> now,
               transactionIds |-> f.txIds]
    BY <1>4 DEF Limits!rosMonitor
  <2>2. f.rule \in {"single_tx_high", "daily_cumulative"} /\ f.txIds \in SUBSET Movement
    BY <1>1
  <2>3. a \in AlertDoc
    BY <1>2, <2>1, <2>2 DEF AlertDoc
  <2>4. a.createdAt = now
    BY <2>1
  <2> QED
    BY <1>2, <2>3, <2>4
<1> QED
  BY <1>3, <1>4

(* An operation ends, or leaves its check, and begins to count nothing.    *)
LEMMA OneStands ==
  ASSUME LimitAssumption, LimitsInv, NEW o \in Movement, NEW d \in OpDoc,
         op' = [op EXCEPT ![o] = d], UNCHANGED <<now, alerts, monitored>>,
         d.status \notin {"checked", "pending"},
         d.status = "completed" =>
           /\ d.completedAt = now /\ d.createdAt <= now
           /\ o \in Wallet \/ (Counts(op, o) /\ d.amount = op[o].amount /\ d.createdAt = op[o].createdAt)
  PROVE  LimitsInv'
<1>1. LimitsTyped /\ EcpInv /\ FlagInv /\ now \in Nat
  BY DEF LimitsInv, LimitsTyped
<1>2. /\ op' \in [Movement -> OpDoc] /\ op'[o] = d
      /\ \A p \in Movement : p # o => op'[p] = op[p]
  BY <1>1, OpBecomes
<1>3. LimitsTyped'
  <2>1. \A p \in Movement : op'[p].status \in {"pending", "completed"} => op'[p].createdAt <= now
    BY <1>1, <1>2 DEF LimitsTyped
  <2>2. \A p \in Movement : op'[p].status = "completed" => op'[p].completedAt <= now
    BY <1>1, <1>2 DEF LimitsTyped
  <2> QED
    BY <1>1, <1>2, <2>1, <2>2 DEF LimitsTyped
<1>4. EcpInv'
  <2>1. \A p \in Movement : Counts(op', p) =>
          Counts(op, p) /\ op'[p].amount = op[p].amount /\ op'[p].createdAt = op[p].createdAt
    BY <1>2 DEF Counts
  <2>2. \A p \in Movement : op'[p].status = "checked" =>
          op[p].status = "checked" /\ op'[p].amount = op[p].amount
    BY <1>2
  <2> QED
    BY <1>1, <1>2, <2>1, <2>2, EcpStands
<1>5. FlagInv'
  <2>1. \A p \in Movement : op'[p] = op[p] \/ op'[p].status # "completed" \/ op'[p].completedAt = now
    BY <1>2
  <2> QED
    BY <1>1, <2>1, FlagsStand
<1> QED
  BY <1>3, <1>4, <1>5 DEF LimitsInv

LEMMA LimitsKept ==
  ASSUME LimitsInv, [Limits!LimitsNext]_limitVars, LimitAssumption, AtOnce = FALSE
  PROVE  LimitsInv'
<1>1. /\ LimitsTyped /\ EcpInv /\ FlagInv
      /\ op \in [Movement -> OpDoc] /\ now \in Nat /\ alerts \subseteq AlertDoc
      /\ \A a \in alerts : a.createdAt <= now
  BY DEF LimitsInv, LimitsTyped
<1>2. ASSUME op' = op, now' = now, alerts' \subseteq AlertDoc, \A a \in alerts' : a.createdAt <= now
      PROVE  LimitsTyped' /\ EcpInv'
  <2>1. LimitsTyped'
    BY <1>1, <1>2 DEF LimitsTyped
  <2>2. \A o \in Movement : Counts(op', o) =>
          Counts(op, o) /\ op'[o].amount = op[o].amount /\ op'[o].createdAt = op[o].createdAt
    BY <1>2
  <2>3. EcpInv'
    BY <1>1, <1>2, <2>2, EcpStands
  <2> QED
    BY <2>1, <2>3
<1>3. CASE op' = op /\ UNCHANGED <<now, alerts, monitored>>
  <2>1. LimitsTyped' /\ EcpInv'
    BY <1>1, <1>2, <1>3
  <2>2. FlagInv'
    BY <1>1, <1>3, FlagsStand
  <2> QED
    BY <2>1, <2>2 DEF LimitsInv
<1>4. ASSUME NEW o \in Movement, NEW m \in Amounts, Limits!checkEcpLimits(o, m)
      PROVE  LimitsInv'
  <2>1. /\ EcpInv' /\ op' \in [Movement -> OpDoc]
        /\ op'[o].status = "checked" /\ \A p \in Movement : p # o => op'[p] = op[p]
    BY <1>1, <1>4, CheckedFits
  <2>2. UNCHANGED <<now, alerts, monitored>>
    BY <1>4 DEF Limits!checkEcpLimits
  <2>3. LimitsTyped'
    <3>1. \A p \in Movement : op'[p].status \in {"pending", "completed"} => op'[p].createdAt <= now
      BY <1>1, <2>1 DEF LimitsTyped
    <3>2. \A p \in Movement : op'[p].status = "completed" => op'[p].completedAt <= now
      BY <1>1, <2>1 DEF LimitsTyped
    <3> QED
      BY <1>1, <2>1, <2>2, <3>1, <3>2 DEF LimitsTyped
  <2>4. FlagInv'
    <3>1. \A p \in Movement : op'[p] = op[p] \/ op'[p].status # "completed" \/ op'[p].completedAt = now
      BY <2>1
    <3> QED
      BY <1>1, <2>2, <3>1, FlagsStand
  <2> QED
    BY <2>1, <2>3, <2>4 DEF LimitsInv
<1>5. ASSUME NEW o \in Movement, Limits!createPayment(o)
      PROVE  LimitsInv'
  <2>1. /\ EcpInv' /\ op' \in [Movement -> OpDoc]
        /\ op'[o].status = "pending" /\ op'[o].createdAt = now
        /\ \A p \in Movement : p # o => op'[p] = op[p]
    BY <1>1, <1>5, CreatedFits
  <2>2. UNCHANGED <<now, alerts, monitored>>
    BY <1>5 DEF Limits!createPayment
  <2>3. LimitsTyped'
    <3>1. \A p \in Movement : op'[p].status \in {"pending", "completed"} => op'[p].createdAt <= now
      BY <1>1, <2>1 DEF LimitsTyped
    <3>2. \A p \in Movement : op'[p].status = "completed" => op'[p].completedAt <= now
      BY <1>1, <2>1 DEF LimitsTyped
    <3> QED
      BY <1>1, <2>1, <2>2, <3>1, <3>2 DEF LimitsTyped
  <2>4. FlagInv'
    <3>1. \A p \in Movement : op'[p] = op[p] \/ op'[p].status # "completed" \/ op'[p].completedAt = now
      BY <2>1
    <3> QED
      BY <1>1, <2>2, <3>1, FlagsStand
  <2> QED
    BY <2>1, <2>3, <2>4 DEF LimitsInv
<1>6. ASSUME NEW o \in Movement, NEW m \in Amounts, Limits!transfer(o, m)
      PROVE  LimitsInv'
  <2> DEFINE d == [status |-> "completed", amount |-> m, createdAt |-> now, completedAt |-> now]
  <2>1. m \in Nat /\ d \in OpDoc
    BY <1>1 DEF LimitAssumption, OpDoc
  <2>2. op' = [op EXCEPT ![o] = d] /\ UNCHANGED <<now, alerts, monitored>> /\ o \in Wallet
    BY <1>6 DEF Limits!transfer
  <2>3. d.status = "completed" /\ d.completedAt = now /\ d.createdAt <= now
    BY <1>1
  <2> HIDE DEF d
  <2> QED
    BY <2>1, <2>2, <2>3, OneStands
<1>7. ASSUME NEW o \in Movement, Limits!abandonPayment(o)
      PROVE  LimitsInv'
  <2> DEFINE d == [op[o] EXCEPT !.status = "none", !.amount = 0]
  <2>1. op[o] \in OpDoc /\ 0 \in Nat
    BY <1>1
  <2>2. d \in OpDoc /\ d.status = "none"
    BY <2>1 DEF OpDoc
  <2>3. op' = [op EXCEPT ![o] = d] /\ UNCHANGED <<now, alerts, monitored>>
    BY <1>7, <2>1 DEF Limits!abandonPayment
  <2> HIDE DEF d
  <2> QED
    BY <2>2, <2>3, OneStands
<1>8. ASSUME NEW o \in Movement, Limits!settlePayment(o)
      PROVE  LimitsInv'
  <2>1. op[o] \in OpDoc /\ op[o].status = "pending"
    BY <1>1, <1>8 DEF Limits!settlePayment
  <2>2. PICK s \in {"completed", "failed"} :
          op' = [op EXCEPT ![o].status = s, ![o].completedAt = IF s = "completed" THEN now ELSE 0]
    BY <1>8 DEF Limits!settlePayment
  <2> DEFINE d == [op[o] EXCEPT !.status = s, !.completedAt = IF s = "completed" THEN now ELSE 0]
  <2>3. /\ d \in OpDoc /\ d.status = s /\ d.amount = op[o].amount /\ d.createdAt = op[o].createdAt
        /\ s = "completed" => d.completedAt = now
    BY <1>1, <2>1, <2>2 DEF OpDoc
  <2>4. op' = [op EXCEPT ![o] = d] /\ UNCHANGED <<now, alerts, monitored>>
    BY <1>8, <2>1, <2>2 DEF Limits!settlePayment
  <2>5. op[o].createdAt <= now
    BY <1>1, <2>1 DEF LimitsTyped
  <2>6. o \in Wallet \/ Counts(op, o)
    BY <2>1 DEF Counts
  <2> HIDE DEF d
  <2> QED
    BY <2>2, <2>3, <2>4, <2>5, <2>6, OneStands
<1>9. ASSUME NEW src \in {"crossborder", "wallet"}, Limits!rosMonitor(src)
      PROVE  LimitsInv'
  <2>1. FlagInv'
    BY <1>1, <1>9, MonitorFlags
  <2>2. alerts' \subseteq AlertDoc /\ \A a \in alerts' : a.createdAt <= now
    BY <1>1, <1>9, MonitorStores
  <2>3. op' = op /\ now' = now
    BY <1>9 DEF Limits!rosMonitor
  <2> QED
    BY <1>2, <2>1, <2>2, <2>3 DEF LimitsInv
<1>10. ASSUME NEW a \in alerts, Limits!reviewAlert(a)
       PROVE  LimitsInv'
  <2> DEFINE b == [a EXCEPT !.status = "closed"]
  <2>1. alerts' = (alerts \ {a}) \cup {b} /\ op' = op /\ now' = now /\ monitored' = monitored
    BY <1>10 DEF Limits!reviewAlert
  <2>2. a \in AlertDoc /\ a.createdAt <= now
    BY <1>1
  <2>3. b \in AlertDoc /\ b.rule = a.rule /\ b.createdAt = a.createdAt
    BY <2>2 DEF AlertDoc
  <2> HIDE DEF b
  <2>4. alerts' \subseteq AlertDoc /\ \A c \in alerts' : c.createdAt <= now
    BY <1>1, <2>1, <2>2, <2>3
  <2>5. \A c \in alerts : \E e \in alerts' : e.rule = c.rule /\ e.createdAt = c.createdAt
    BY <2>1, <2>3
  <2>6. FlagInv'
    BY <1>1, <2>1, <2>5, FlagsStand
  <2> QED
    BY <1>2, <2>1, <2>4, <2>6 DEF LimitsInv
<1>11. CASE Limits!limitTick
  <2>1. /\ now' = now + 1 /\ op' = op /\ alerts' = alerts
        /\ monitored = {"crossborder", "wallet"} /\ monitored' = {}
    BY <1>11 DEF Limits!limitTick
  <2>2. LimitsTyped'
    <3>1. \A a \in alerts : a.createdAt \in Nat /\ a.createdAt <= now + 1
      BY <1>1 DEF AlertDoc
    <3>2. \A o \in Movement : op[o].createdAt \in Nat /\ op[o].completedAt \in Nat
      BY <1>1 DEF OpDoc
    <3>3. \A o \in Movement : op[o].status \in {"pending", "completed"} => op[o].createdAt <= now + 1
      BY <1>1, <3>2 DEF LimitsTyped
    <3>4. \A o \in Movement : op[o].status = "completed" => op[o].completedAt <= now + 1
      BY <1>1, <3>2 DEF LimitsTyped
    <3> QED
      BY <1>1, <2>1, <3>1, <3>3, <3>4 DEF LimitsTyped
  <2>3. EcpInv'
    <3>1. \A o \in Movement : Counts(op', o) =>
            Counts(op, o) /\ op'[o].amount = op[o].amount /\ op'[o].createdAt = op[o].createdAt
      BY <2>1
    <3> QED
      BY <1>1, <2>1, <3>1, EcpStands
  <2>4. FlagInv'
    <3> SUFFICES ASSUME NEW o \in Movement, LargeOne(op, o), now + 1 > op[o].completedAt + 1
                 PROVE  Flagged(op, alerts, o)
      BY <2>1 DEF FlagInv
    <3>1. op[o].completedAt \in Nat
      BY <1>1 DEF OpDoc
    <3>2. now > op[o].completedAt /\ SourceOf(o) \in monitored
      BY <1>1, <2>1, <3>1 DEF SourceOf
    <3> QED
      BY <1>1, <3>2 DEF FlagInv
  <2> QED
    BY <2>2, <2>3, <2>4 DEF LimitsInv
<1>12. ASSUME NEW o \in Movement, NEW m \in Amounts, Limits!recordEcpRejection(o, m)
       PROVE  LimitsInv'
  BY <1>3, <1>12 DEF Limits!recordEcpRejection
<1>13. CASE UNCHANGED limitVars
  BY <1>3, <1>13 DEF limitVars
<1> QED
  BY <1>4, <1>5, <1>6, <1>7, <1>8, <1>9, <1>10, <1>11, <1>12, <1>13 DEF Limits!LimitsNext

LEMMA LimitsStart ==
  ASSUME Init, LimitAssumption
  PROVE  LimitsInv
<1>1. /\ op = [o \in Movement |-> [status |-> "none", amount |-> 0, createdAt |-> 0, completedAt |-> 0]]
      /\ now = 0 /\ alerts = {} /\ monitored = {}
  BY DEF Init, Limits!LimitsInit
<1>2. op \in [Movement -> OpDoc] /\ \A o \in Movement : op[o].status = "none"
  BY <1>1 DEF OpDoc
<1>3. LimitsTyped
  BY <1>1, <1>2 DEF LimitsTyped
<1>4. EcpInv
  <2>1. Sum(op, {}) = 0
    <3>1. UNION {Bolivianos(op, o) : o \in {}} = {}
      OBVIOUS
    <3> QED
      BY <3>1, FS_EmptySet DEF Sum
  <2>2. Counted(op) = {} /\ \A t \in Nat : OfDay(op, t) = {}
    BY <1>2 DEF Counted, OfDay, Counts
  <2>3. Sum(op, Counted(op)) <= PeriodMax /\ \A t \in Nat : Sum(op, OfDay(op, t)) <= DailyMax
    BY <2>1, <2>2 DEF LimitAssumption
  <2> QED
    BY <1>2, <2>3 DEF EcpInv
<1>5. FlagInv
  BY <1>2 DEF FlagInv, LargeOne
<1> QED
  BY <1>3, <1>4, <1>5 DEF LimitsInv

(* What is invariant says what the limits and the monitors promise.        *)
LEMMA LimitsStay ==
  ASSUME LimitsInv, LimitAssumption
  PROVE  Limits!EcpLimitHolds /\ Limits!LargeIsFlagged
<1>1. op \in [Movement -> OpDoc] /\ now \in Nat /\ EcpInv /\ FlagInv
  BY DEF LimitsInv, LimitsTyped
<1>2. \A S \in SUBSET Movement :
        {p \in S \ Wallet : Limits!consuming(p)} = {p \in S : Counts(op, p)}
  BY DEF Counts, Limits!consuming
<1>3. Limits!Total({p \in Movement \ Wallet : Limits!consuming(p)}) <= PeriodMax
  <2>1. {p \in Movement \ Wallet : Limits!consuming(p)} = Counted(op)
    BY <1>2 DEF Counted
  <2>2. Sum(op, Counted(op)) <= PeriodMax
    BY <1>1 DEF EcpInv
  <2> QED
    BY <2>1, <2>2, TotalIsSum
<1>4. ASSUME NEW o \in Movement
      PROVE  Limits!Total({p \in {q \in Movement : Limits!startOfDay(op[q].createdAt)
                                                     = Limits!startOfDay(op[o].createdAt)} \ Wallet :
                             Limits!consuming(p)}) <= DailyMax
  <2> DEFINE t == Day(op[o].createdAt)
             S == {q \in Movement : Limits!startOfDay(op[q].createdAt) = Limits!startOfDay(op[o].createdAt)}
  <2>1. t \in Nat
    <3>1. op[o].createdAt \in Nat /\ Ticks \in Nat \ {0}
      BY <1>1 DEF OpDoc, LimitAssumption
    <3> QED
      BY <3>1, DaysGoOn DEF Day
  <2>2. {p \in S \ Wallet : Limits!consuming(p)} = {p \in S : Counts(op, p)}
    BY <1>2
  <2>3. {p \in S : Counts(op, p)} = OfDay(op, t)
    BY DEF OfDay, Day, Limits!startOfDay
  <2>4. Sum(op, OfDay(op, t)) <= DailyMax
    BY <1>1, <2>1 DEF EcpInv
  <2>5. Limits!Total({p \in S \ Wallet : Limits!consuming(p)}) = Sum(op, OfDay(op, t))
    BY <2>2, <2>3, TotalIsSum
  <2> QED
    BY <2>4, <2>5
<1>5. Limits!EcpLimitHolds
  BY <1>3, <1>4 DEF Limits!EcpLimitHolds
<1>6. Limits!LargeIsFlagged
  <2> SUFFICES ASSUME NEW o \in Movement,
                      op[o].status = "completed", op[o].amount >= SingleTx,
                      op[o].completedAt < op[o].createdAt + Ticks,
                      op[o].createdAt + Ticks < now
               PROVE  Flagged(op, alerts, o)
    BY DEF Limits!LargeIsFlagged, Flagged
  <2>1. op[o].createdAt \in Nat /\ op[o].completedAt \in Nat /\ Ticks \in Nat
    BY <1>1 DEF OpDoc, LimitAssumption
  <2>2. now > op[o].completedAt /\ now > op[o].completedAt + 1
    BY <1>1, <2>1
  <2> QED
    BY <1>1, <2>2 DEF FlagInv, LargeOne
<1> QED
  BY <1>5, <1>6
-----------------------------------------------------------------------------
(* The treasury: sums over accounts, and the books that tie them.          *)
Priced(f) == [x \in DOMAIN f |-> [amount |-> f[x]]]

LEMMA TallyIsSum == ASSUME NEW f PROVE Treasury!Tally(f) = Sum(Priced(f), DOMAIN f)
<1>1. \A x \in DOMAIN f : {x} \X (1 .. f[x]) = Bolivianos(Priced(f), x)
  BY DEF Bolivianos, Priced
<1>2. {{x} \X (1 .. f[x]) : x \in DOMAIN f} = {Bolivianos(Priced(f), x) : x \in DOMAIN f}
  BY <1>1
<1> QED
  BY <1>2 DEF Treasury!Tally, Sum, Treasury!Cardinality, Cardinality

LEMMA SumSplits ==
  ASSUME NEW f, NEW S, NEW o \in S, Sums(f, S)
  PROVE  /\ Sum(f, S \ {o}) \in Nat /\ Sum(f, S) \in Nat
         /\ Sum(f, S) = Sum(f, S \ {o}) + f[o].amount
<1> DEFINE A == UNION {Bolivianos(f, p) : p \in S \ {o}}
           B == Bolivianos(f, o)
           C == UNION {Bolivianos(f, p) : p \in S}
<1>1. Sums(f, S \ {o}) /\ f[o].amount \in Nat
  BY FS_RemoveElement DEF Sums
<1>2. IsFiniteSet(A) /\ Cardinality(A) \in Nat
  BY <1>1, SumTyped DEF Sum
<1>3. IsFiniteSet(B) /\ Cardinality(B) = f[o].amount
  BY <1>1, OneSum
<1>4. C = A \cup B
  OBVIOUS
<1>5. A \cap B = {}
  BY DEF Bolivianos
<1> HIDE DEF A, B, C
<1>6. Cardinality(A \cup B) = Cardinality(A) + Cardinality(B) - Cardinality({})
  BY <1>2, <1>3, <1>5, FS_Union
<1>7. Cardinality({}) = 0
  BY FS_EmptySet
<1>8. Cardinality(C) = Cardinality(A) + f[o].amount
  BY <1>1, <1>2, <1>3, <1>4, <1>6, <1>7
<1> QED
  BY <1>1, <1>2, <1>8 DEF Sum, A, C

LEMMA Countable ==
  ASSUME NEW D, IsFiniteSet(D), NEW f \in [D -> Nat]
  PROVE  Sums(Priced(f), D) /\ DOMAIN f = D /\ \A x \in D : Priced(f)[x].amount = f[x]
BY DEF Sums, Priced

LEMMA TallyTyped ==
  ASSUME NEW D, IsFiniteSet(D), NEW f \in [D -> Nat]
  PROVE  Treasury!Tally(f) \in Nat
BY Countable, TallyIsSum, SumTyped

(* One account changes: so much the sum does.                              *)
LEMMA TallyChanges ==
  ASSUME NEW D, IsFiniteSet(D), NEW f \in [D -> Nat], NEW g \in [D -> Nat], NEW x \in D,
         \A y \in D : y # x => g[y] = f[y]
  PROVE  /\ Treasury!Tally(f) \in Nat /\ Treasury!Tally(g) \in Nat
         /\ Treasury!Tally(g) + f[x] = Treasury!Tally(f) + g[x]
<1>1. /\ Sums(Priced(f), D) /\ DOMAIN f = D /\ \A y \in D : Priced(f)[y].amount = f[y]
      /\ Sums(Priced(g), D) /\ DOMAIN g = D /\ \A y \in D : Priced(g)[y].amount = g[y]
  BY Countable
<1>2. /\ Sum(Priced(f), D \ {x}) \in Nat /\ Sum(Priced(f), D) = Sum(Priced(f), D \ {x}) + f[x]
      /\ Sum(Priced(g), D \ {x}) \in Nat /\ Sum(Priced(g), D) = Sum(Priced(g), D \ {x}) + g[x]
  <2>1. /\ Sum(Priced(f), D \ {x}) \in Nat
        /\ Sum(Priced(f), D) = Sum(Priced(f), D \ {x}) + Priced(f)[x].amount
    BY <1>1, SumSplits
  <2>2. /\ Sum(Priced(g), D \ {x}) \in Nat
        /\ Sum(Priced(g), D) = Sum(Priced(g), D \ {x}) + Priced(g)[x].amount
    BY <1>1, SumSplits
  <2> QED
    BY <1>1, <2>1, <2>2
<1>3. \A y \in D \ {x} : Priced(f)[y].amount = Priced(g)[y].amount
  BY <1>1
<1>4. Sum(Priced(f), D \ {x}) = Sum(Priced(g), D \ {x})
  BY <1>3, SumAgrees
<1>5. Treasury!Tally(f) = Sum(Priced(f), D) /\ Treasury!Tally(g) = Sum(Priced(g), D)
  BY <1>1, TallyIsSum
<1>6. f[x] \in Nat /\ g[x] \in Nat
  OBVIOUS
<1> QED
  BY <1>2, <1>4, <1>5, <1>6

LEMMA TallyOfNothing ==
  ASSUME NEW D, NEW f, DOMAIN f = D, \A x \in D : f[x] = 0
  PROVE  Treasury!Tally(f) = 0
<1>1. \A x \in D : {x} \X (1 .. f[x]) = {}
  <2>1. \A x \in D : 1 .. f[x] = {}
    OBVIOUS
  <2> QED
    BY <2>1
<1>2. UNION {{x} \X (1 .. f[x]) : x \in DOMAIN f} = {}
  BY <1>1
<1> QED
  BY <1>2, FS_EmptySet DEF Treasury!Tally, Treasury!Cardinality, Cardinality

(* With one account apart: the others, and it.                             *)
LEMMA TallyApart ==
  ASSUME NEW D, IsFiniteSet(D), NEW h, h \notin D, NEW f \in [D \cup {h} -> Nat]
  PROVE  /\ Treasury!Tally([x \in D |-> f[x]]) \in Nat
         /\ Treasury!Tally(f) = Treasury!Tally([x \in D |-> f[x]]) + f[h]
<1> DEFINE g == [x \in D |-> f[x]]
<1>1. IsFiniteSet(D \cup {h}) /\ (D \cup {h}) \ {h} = D /\ g \in [D -> Nat]
  BY FS_AddElement
<1>2. /\ Sums(Priced(f), D \cup {h}) /\ DOMAIN f = D \cup {h}
      /\ \A y \in D \cup {h} : Priced(f)[y].amount = f[y]
  BY <1>1, Countable
<1>3. DOMAIN g = D /\ \A y \in D : Priced(g)[y].amount = f[y]
  BY <1>1 DEF Priced
<1>4. Treasury!Tally(g) \in Nat
  BY <1>1, TallyTyped
<1> HIDE DEF g
<1>5. Sum(Priced(f), D \cup {h}) = Sum(Priced(f), D) + f[h]
  <2> DEFINE S == D \cup {h}
  <2>1. h \in S /\ Sums(Priced(f), S) /\ Priced(f)[h].amount = f[h]
    BY <1>2
  <2>2. S \ {h} = D
    BY <1>1
  <2> HIDE DEF S
  <2>3. Sum(Priced(f), S) = Sum(Priced(f), S \ {h}) + Priced(f)[h].amount
    BY <2>1, SumSplits
  <2> QED
    BY <2>1, <2>2, <2>3 DEF S
<1>6. Sum(Priced(f), D) = Sum(Priced(g), D)
  <2>1. \A y \in D : Priced(f)[y].amount = Priced(g)[y].amount
    BY <1>2, <1>3
  <2> QED
    BY <2>1, SumAgrees
<1>7. Treasury!Tally(f) = Sum(Priced(f), D \cup {h}) /\ Treasury!Tally(g) = Sum(Priced(g), D)
  BY <1>2, <1>3, TallyIsSum
<1> QED
  BY <1>4, <1>5, <1>6, <1>7 DEF g

TreasuryAssumption ==
  /\ IsFiniteSet(Holder) /\ "hot" \notin Holder
  /\ IsFiniteSet(Payout) /\ PayoutUSDC \in Nat /\ InitialHot \in Nat
  /\ IsFiniteSet(Harvester)
  /\ \A a, b \in Harvester : a = b   \* the admins harvest one after the other
  /\ RecordFails = FALSE             \* what was sent is recorded
  /\ MaxConversions \in {0, 1}       \* the conversions are within the reserve for fees

HarvestDoc == [phase : {"idle", "sending", "sent"}, remaining : Nat, sources : [Holder -> Nat],
               sent : Nat]

TreasuryTyped ==
  /\ mirror \in [Holder -> [balance : Nat, frozen : Nat]]
  /\ chain \in [Holder \cup {"hot"} -> Nat] /\ arriving \in [Holder -> Nat]
  /\ revenue \in Nat /\ conversions \in Nat
  /\ harvests \in [Harvester -> HarvestDoc]

(* What a harvest has to send is revenue, what it sent is part of it.      *)
HarvestInv ==
  \A a \in Harvester :
    /\ harvests[a].phase # "idle" => harvests[a].remaining <= revenue
    /\ harvests[a].phase = "sent" => harvests[a].sent <= harvests[a].remaining
    /\ harvests[a].phase # "sent" => harvests[a].sent = 0

(* The hot account has what conversions credited, and what the cache says. *)
HotInv ==
  /\ conversions <= chain["hot"] /\ conversions <= MaxConversions
  /\ \A n \in cachedHot : n \in Nat /\ n <= chain["hot"]

(* The books: the custodial accounts hold what users own but for the       *)
(* conversions, what is on its way to the mirror, and the fees not sent.   *)
Held == [u \in Holder |-> chain[u]]
Owns == [u \in Holder |-> mirror[u].balance + mirror[u].frozen]
Unrecorded == [a \in Harvester |-> harvests[a].sent]
Books ==
  Treasury!Tally(Held) + conversions + Treasury!Tally(Unrecorded)
    = Treasury!Tally(Owns) + Treasury!Tally(arriving) + revenue

TreasuryInv == TreasuryTyped /\ HarvestInv /\ HotInv /\ Books

LEMMA BooksTyped ==
  ASSUME TreasuryTyped, TreasuryAssumption
  PROVE  /\ Held \in [Holder -> Nat] /\ Owns \in [Holder -> Nat] /\ Unrecorded \in [Harvester -> Nat]
         /\ arriving \in [Holder -> Nat] /\ IsFiniteSet(Holder) /\ IsFiniteSet(Harvester)
         /\ Treasury!Tally(Held) \in Nat /\ Treasury!Tally(Owns) \in Nat
         /\ Treasury!Tally(Unrecorded) \in Nat /\ Treasury!Tally(arriving) \in Nat
         /\ revenue \in Nat /\ conversions \in Nat /\ chain["hot"] \in Nat
<1>1. Held \in [Holder -> Nat]
  BY DEF Held, TreasuryTyped
<1>2. Owns \in [Holder -> Nat]
  BY DEF Owns, TreasuryTyped
<1>3. Unrecorded \in [Harvester -> Nat]
  BY DEF Unrecorded, TreasuryTyped, HarvestDoc
<1>4. arriving \in [Holder -> Nat] /\ IsFiniteSet(Holder) /\ IsFiniteSet(Harvester)
  BY DEF TreasuryTyped, TreasuryAssumption
<1>5. revenue \in Nat /\ conversions \in Nat /\ chain["hot"] \in Nat
  BY DEF TreasuryTyped
<1> QED
  BY <1>1, <1>2, <1>3, <1>4, <1>5, TallyTyped

(* Where the cache is not empty it says what the account has at least.     *)
LEMMA BalanceIsThere ==
  ASSUME TreasuryTyped, HotInv
  PROVE  Treasury!hotBalance \in Nat /\ Treasury!hotBalance <= chain["hot"]
<1>1. CASE cachedHot = {}
  BY <1>1 DEF Treasury!hotBalance, Treasury!NotCached, Treasury!Hot, TreasuryTyped
<1>2. CASE cachedHot # {}
  <2>1. (CHOOSE n \in cachedHot : TRUE) \in cachedHot
    BY <1>2
  <2> QED
    BY <1>2, <2>1 DEF Treasury!hotBalance, Treasury!NotCached, HotInv
<1> QED
  BY <1>1, <1>2

LEMMA NeedsTyped ==
  ASSUME TreasuryTyped, HotInv, TreasuryAssumption
  PROVE  /\ Treasury!getUSDCAvailableNow >= 1 => Treasury!hotBalance >= 1
         /\ Treasury!fundingNeeded \in Nat
<1> DEFINE S == {q \in Payout : paying[q] \in Treasury!INFLIGHT_STATUSES}
           f == [p \in S |-> [q \in Payout |-> PayoutUSDC][p]]
           g == [p \in Treasury!Waiting |-> [q \in Payout |-> PayoutUSDC][p] + Treasury!Reserve]
<1>1. IsFiniteSet(Payout) /\ PayoutUSDC \in Nat /\ S \subseteq Payout /\ Treasury!Waiting \subseteq Payout
  BY DEF TreasuryAssumption, Treasury!Waiting
<1>2. IsFiniteSet(S) /\ IsFiniteSet(Treasury!Waiting)
  BY <1>1, FS_Subset
<1>3. f \in [S -> Nat] /\ g \in [Treasury!Waiting -> Nat]
  BY <1>1 DEF Treasury!Reserve
<1>4. Treasury!Inflight = Treasury!Tally(f) /\ Treasury!pendingNeeds = Treasury!Tally(g)
  BY DEF Treasury!Inflight, Treasury!pendingNeeds
<1> HIDE DEF S, f, g
<1>5. Treasury!Inflight \in Nat /\ Treasury!pendingNeeds \in Nat
  BY <1>2, <1>3, <1>4, TallyTyped
<1>6. Treasury!hotBalance \in Nat
  BY BalanceIsThere
<1>7. Treasury!getUSDCAvailableNow \in Nat
  BY <1>5, <1>6 DEF Treasury!getUSDCAvailableNow
<1>8. Treasury!getUSDCAvailableNow >= 1 => Treasury!hotBalance >= 1
  BY <1>5, <1>6 DEF Treasury!getUSDCAvailableNow
<1>9. Treasury!fundingNeeded \in Nat
  BY <1>5, <1>7 DEF Treasury!fundingNeeded
<1> QED
  BY <1>8, <1>9

(* What leaves the custodial accounts, the mirror and the fees alone.      *)
LEMMA BooksStand ==
  ASSUME TreasuryTyped, HarvestInv, Books,
         UNCHANGED <<mirror, arriving, revenue, harvests, conversions>>,
         chain' \in [Holder \cup {"hot"} -> Nat], \A u \in Holder : chain'[u] = chain[u]
  PROVE  TreasuryTyped' /\ HarvestInv' /\ Books'
<1>1. TreasuryTyped' /\ HarvestInv'
  BY DEF TreasuryTyped, HarvestInv
<1>2. Held' = Held /\ Owns' = Owns /\ Unrecorded' = Unrecorded
  BY DEF Held, Owns, Unrecorded
<1>3. Books'
  BY <1>2 DEF Books
<1> QED
  BY <1>1, <1>3

LEMMA UsersKeepBooks ==
  ASSUME TreasuryInv, TreasuryAssumption,
         NEW u \in Holder, NEW v \in Holder,
         \/ Treasury!depositUSDC(u) \/ Treasury!creditDeposit(u) \/ Treasury!adminFreezeWallet(u)
         \/ Treasury!adminConfirmBOBtoUSDC(u) \/ Treasury!executeUsdcP2pTransfer(u, v)
  PROVE  TreasuryInv'
<1>1. TreasuryTyped /\ HarvestInv /\ HotInv /\ Books
  BY DEF TreasuryInv
<1>2. /\ Held \in [Holder -> Nat] /\ Owns \in [Holder -> Nat] /\ Unrecorded \in [Harvester -> Nat]
      /\ arriving \in [Holder -> Nat] /\ IsFiniteSet(Holder) /\ IsFiniteSet(Harvester)
      /\ Treasury!Tally(Held) \in Nat /\ Treasury!Tally(Owns) \in Nat
      /\ Treasury!Tally(Unrecorded) \in Nat /\ Treasury!Tally(arriving) \in Nat
      /\ revenue \in Nat /\ conversions \in Nat /\ chain["hot"] \in Nat
  BY <1>1, BooksTyped
<1>3. /\ mirror \in [Holder -> [balance : Nat, frozen : Nat]]
      /\ chain \in [Holder \cup {"hot"} -> Nat] /\ "hot" \notin Holder
      /\ mirror[u].balance \in Nat /\ mirror[u].frozen \in Nat
      /\ mirror[v].balance \in Nat /\ mirror[v].frozen \in Nat
  BY <1>1 DEF TreasuryTyped, TreasuryAssumption
<1>4. CASE Treasury!depositUSDC(u)
  <2>1. /\ chain' = [chain EXCEPT ![u] = @ + 1] /\ arriving' = [arriving EXCEPT ![u] = @ + 1]
        /\ UNCHANGED <<mirror, revenue, harvests, conversions, cachedHot>>
    BY <1>4 DEF Treasury!depositUSDC, Treasury!payoutVars
  <2>2. chain' \in [Holder \cup {"hot"} -> Nat] /\ chain'[u] = chain[u] + 1 /\ chain'["hot"] = chain["hot"]
        /\ \A w \in Holder : w # u => chain'[w] = chain[w]
    BY <1>3, <2>1
  <2>3. arriving' \in [Holder -> Nat] /\ arriving'[u] = arriving[u] + 1
        /\ \A w \in Holder : w # u => arriving'[w] = arriving[w]
    BY <1>2, <2>1
  <2>4. TreasuryTyped' /\ HarvestInv' /\ HotInv'
    BY <1>1, <2>1, <2>2, <2>3 DEF TreasuryTyped, HarvestInv, HotInv
  <2>5. Owns' = Owns /\ Unrecorded' = Unrecorded
    BY <2>1 DEF Owns, Unrecorded
  <2>6. Held' \in [Holder -> Nat] /\ Held'[u] = Held[u] + 1 /\ \A w \in Holder : w # u => Held'[w] = Held[w]
    BY <2>2 DEF Held
  <2>7. Treasury!Tally(Held') \in Nat /\ Treasury!Tally(Held') + Held[u] = Treasury!Tally(Held) + Held'[u]
    BY <1>2, <2>6, TallyChanges
  <2>8. Treasury!Tally(arriving') \in Nat
        /\ Treasury!Tally(arriving') + arriving[u] = Treasury!Tally(arriving) + arriving'[u]
    BY <1>2, <2>3, TallyChanges
  <2>9. Held[u] \in Nat /\ arriving[u] \in Nat
    BY <1>2
  <2>10. Treasury!Tally(Held') = Treasury!Tally(Held) + 1
    BY <1>2, <2>6, <2>7, <2>9
  <2>11. Treasury!Tally(arriving') = Treasury!Tally(arriving) + 1
    BY <1>2, <2>3, <2>8, <2>9
  <2>12. Books'
    BY <1>1, <1>2, <2>1, <2>5, <2>10, <2>11 DEF Books
  <2> QED
    BY <2>4, <2>12 DEF TreasuryInv
<1>5. CASE Treasury!creditDeposit(u)
  <2>1. /\ arriving' = [arriving EXCEPT ![u] = @ - 1] /\ arriving[u] > 0
        /\ mirror' = [mirror EXCEPT ![u].balance = @ + 1]
        /\ UNCHANGED <<chain, revenue, harvests, conversions, cachedHot>>
    BY <1>5 DEF Treasury!creditDeposit, Treasury!payoutVars
  <2>2. mirror' \in [Holder -> [balance : Nat, frozen : Nat]]
        /\ mirror'[u].balance = mirror[u].balance + 1 /\ mirror'[u].frozen = mirror[u].frozen
        /\ \A w \in Holder : w # u => mirror'[w] = mirror[w]
    BY <1>3, <2>1
  <2>3. arriving' \in [Holder -> Nat] /\ arriving'[u] = arriving[u] - 1
        /\ \A w \in Holder : w # u => arriving'[w] = arriving[w]
    BY <1>2, <2>1
  <2>4. TreasuryTyped' /\ HarvestInv' /\ HotInv'
    BY <1>1, <2>1, <2>2, <2>3 DEF TreasuryTyped, HarvestInv, HotInv
  <2>5. Held' = Held /\ Unrecorded' = Unrecorded
    BY <2>1 DEF Held, Unrecorded
  <2>6. Owns' \in [Holder -> Nat] /\ Owns'[u] = Owns[u] + 1 /\ \A w \in Holder : w # u => Owns'[w] = Owns[w]
    <3>1. \A w \in Holder : mirror'[w].balance \in Nat /\ mirror'[w].frozen \in Nat
      BY <2>2
    <3>2. Owns' \in [Holder -> Nat]
      BY <3>1 DEF Owns
    <3>3. \A w \in Holder : w # u => Owns'[w] = Owns[w]
      BY <2>2 DEF Owns
    <3>4. Owns'[u] = mirror[u].balance + 1 + mirror[u].frozen /\ Owns[u] = mirror[u].balance + mirror[u].frozen
      BY <2>2 DEF Owns
    <3>5. mirror[u].balance \in Nat /\ mirror[u].frozen \in Nat
      BY <1>3
    <3> QED
      BY <3>2, <3>3, <3>4, <3>5
  <2>7. Treasury!Tally(Owns') \in Nat /\ Treasury!Tally(Owns') + Owns[u] = Treasury!Tally(Owns) + Owns'[u]
    BY <1>2, <2>6, TallyChanges
  <2>8. Treasury!Tally(arriving') \in Nat
        /\ Treasury!Tally(arriving') + arriving[u] = Treasury!Tally(arriving) + arriving'[u]
    BY <1>2, <2>3, TallyChanges
  <2>9. Owns[u] \in Nat /\ arriving[u] \in Nat
    BY <1>2
  <2>10. Treasury!Tally(Owns') = Treasury!Tally(Owns) + 1
    BY <1>2, <2>6, <2>7, <2>9
  <2>11. Treasury!Tally(arriving') = Treasury!Tally(arriving) - 1
    BY <1>2, <2>3, <2>8, <2>9
  <2>12. Books'
    BY <1>1, <1>2, <2>1, <2>5, <2>7, <2>8, <2>10, <2>11 DEF Books
  <2> QED
    BY <2>4, <2>12 DEF TreasuryInv
<1>6. CASE Treasury!adminFreezeWallet(u)
  <2> DEFINE d == [balance |-> 0, frozen |-> mirror[u].frozen + mirror[u].balance]
  <2>1. /\ mirror' = [mirror EXCEPT ![u] = d]
        /\ UNCHANGED <<chain, arriving, revenue, harvests, conversions, cachedHot>>
    BY <1>3, <1>6 DEF Treasury!adminFreezeWallet, Treasury!payoutVars
  <2>2. d \in [balance : Nat, frozen : Nat] /\ d.balance + d.frozen = mirror[u].balance + mirror[u].frozen
    BY <1>3
  <2> HIDE DEF d
  <2>3. mirror' \in [Holder -> [balance : Nat, frozen : Nat]] /\ mirror'[u] = d
        /\ \A w \in Holder : w # u => mirror'[w] = mirror[w]
    BY <1>3, <2>1, <2>2
  <2>4. TreasuryTyped' /\ HarvestInv' /\ HotInv'
    BY <1>1, <2>1, <2>3 DEF TreasuryTyped, HarvestInv, HotInv
  <2>5. \A w \in Holder : mirror'[w].balance + mirror'[w].frozen = mirror[w].balance + mirror[w].frozen
    BY <2>2, <2>3
  <2>6. Held' = Held /\ Unrecorded' = Unrecorded /\ Owns' = Owns
    BY <2>1, <2>5 DEF Held, Unrecorded, Owns
  <2>7. Books'
    BY <1>1, <2>1, <2>6 DEF Books
  <2> QED
    BY <2>4, <2>7 DEF TreasuryInv
<1>7. CASE Treasury!adminConfirmBOBtoUSDC(u)
  <2>1. /\ conversions < MaxConversions /\ conversions' = conversions + 1
        /\ Treasury!getUSDCAvailableNow >= 1 /\ cachedHot' = {Treasury!hotBalance}
        /\ mirror' = [mirror EXCEPT ![u].balance = @ + 1]
        /\ UNCHANGED <<chain, arriving, revenue, harvests>>
    BY <1>7 DEF Treasury!adminConfirmBOBtoUSDC
  <2>2. mirror' \in [Holder -> [balance : Nat, frozen : Nat]]
        /\ mirror'[u].balance = mirror[u].balance + 1 /\ mirror'[u].frozen = mirror[u].frozen
        /\ \A w \in Holder : w # u => mirror'[w] = mirror[w]
    BY <1>3, <2>1
  <2>3. TreasuryTyped' /\ HarvestInv'
    BY <1>1, <1>2, <2>1, <2>2 DEF TreasuryTyped, HarvestInv
  <2>4. HotInv'
    <3>1. Treasury!hotBalance \in Nat /\ Treasury!hotBalance <= chain["hot"] /\ Treasury!hotBalance >= 1
      BY <1>1, <2>1, BalanceIsThere, NeedsTyped
    <3>2. conversions' <= chain["hot"] /\ conversions' <= MaxConversions
      BY <1>2, <2>1, <3>1 DEF TreasuryAssumption
    <3> QED
      BY <2>1, <3>1, <3>2 DEF HotInv
  <2>5. Held' = Held /\ Unrecorded' = Unrecorded
    BY <2>1 DEF Held, Unrecorded
  <2>6. Owns' \in [Holder -> Nat] /\ Owns'[u] = Owns[u] + 1 /\ \A w \in Holder : w # u => Owns'[w] = Owns[w]
    <3>1. \A w \in Holder : mirror'[w].balance \in Nat /\ mirror'[w].frozen \in Nat
      BY <2>2
    <3>2. Owns' \in [Holder -> Nat]
      BY <3>1 DEF Owns
    <3>3. \A w \in Holder : w # u => Owns'[w] = Owns[w]
      BY <2>2 DEF Owns
    <3>4. Owns'[u] = mirror[u].balance + 1 + mirror[u].frozen /\ Owns[u] = mirror[u].balance + mirror[u].frozen
      BY <2>2 DEF Owns
    <3>5. mirror[u].balance \in Nat /\ mirror[u].frozen \in Nat
      BY <1>3
    <3> QED
      BY <3>2, <3>3, <3>4, <3>5
  <2>7. Treasury!Tally(Owns') \in Nat /\ Treasury!Tally(Owns') + Owns[u] = Treasury!Tally(Owns) + Owns'[u]
    BY <1>2, <2>6, TallyChanges
  <2>8. Owns[u] \in Nat
    BY <1>2
  <2>9. Treasury!Tally(Owns') = Treasury!Tally(Owns) + 1
    BY <1>2, <2>6, <2>7, <2>8
  <2>10. Books'
    BY <1>1, <1>2, <2>1, <2>5, <2>9 DEF Books
  <2> QED
    BY <2>3, <2>4, <2>10 DEF TreasuryInv
<1>8. CASE Treasury!executeUsdcP2pTransfer(u, v)
  <2> DEFINE m == [mirror EXCEPT ![u].balance = @ - 2]
             h == [w \in Holder |-> m[w].balance + m[w].frozen]
  <2>1. /\ u # v /\ mirror[u].balance >= 2 /\ revenue' = revenue + 1
        /\ UNCHANGED <<chain, arriving, harvests, conversions, cachedHot>>
    BY <1>8 DEF Treasury!executeUsdcP2pTransfer, Treasury!Fee, Treasury!payoutVars
  <2>2. mirror' = [mirror EXCEPT ![u].balance = @ - 1 - 1, ![v].balance = @ + 1]
    BY <1>8 DEF Treasury!executeUsdcP2pTransfer, Treasury!Fee
  <2>3. mirror[u].balance - 1 - 1 = mirror[u].balance - 2 /\ mirror[u].balance - 2 \in Nat
    BY <1>3, <2>1
  <2>4. m \in [Holder -> [balance : Nat, frozen : Nat]]
        /\ m[u].balance = mirror[u].balance - 2 /\ m[u].frozen = mirror[u].frozen
        /\ \A w \in Holder : w # u => m[w] = mirror[w]
    BY <1>3, <2>3
  <2>5. mirror' = [m EXCEPT ![v].balance = @ + 1]
    BY <1>3, <2>1, <2>2, <2>3
  <2> HIDE DEF m
  <2>6. mirror' \in [Holder -> [balance : Nat, frozen : Nat]]
        /\ mirror'[v].balance = m[v].balance + 1 /\ mirror'[v].frozen = m[v].frozen
        /\ \A w \in Holder : w # v => mirror'[w] = m[w]
    BY <2>4, <2>5
  <2>7. TreasuryTyped' /\ HotInv'
    BY <1>1, <1>2, <2>1, <2>6 DEF TreasuryTyped, HotInv
  <2>8. HarvestInv'
    <3>1. \A a \in Harvester : harvests[a].remaining \in Nat
      BY <1>1 DEF TreasuryTyped, HarvestDoc
    <3> QED
      BY <1>1, <1>2, <2>1, <3>1 DEF HarvestInv
  <2>9. Held' = Held /\ Unrecorded' = Unrecorded
    BY <2>1 DEF Held, Unrecorded
  <2>10. h \in [Holder -> Nat] /\ h[u] = Owns[u] - 2 /\ \A w \in Holder : w # u => h[w] = Owns[w]
    BY <1>3, <2>4 DEF Owns
  <2>11. Owns' \in [Holder -> Nat] /\ Owns'[v] = h[v] + 1 /\ \A w \in Holder : w # v => Owns'[w] = h[w]
    <3>1. m[v].balance \in Nat /\ m[v].frozen \in Nat
      BY <2>4
    <3> QED
      BY <2>6, <3>1 DEF Owns
  <2> HIDE DEF h
  <2>12. Treasury!Tally(h) \in Nat /\ Treasury!Tally(h) + Owns[u] = Treasury!Tally(Owns) + h[u]
    BY <1>2, <2>10, TallyChanges
  <2>13. Treasury!Tally(Owns') \in Nat /\ Treasury!Tally(Owns') + h[v] = Treasury!Tally(h) + Owns'[v]
    BY <1>2, <2>10, <2>11, TallyChanges
  <2>14. Owns[u] \in Nat /\ h[v] \in Nat
    BY <1>2, <2>10
  <2>15. Treasury!Tally(h) = Treasury!Tally(Owns) - 2 /\ Treasury!Tally(Owns') = Treasury!Tally(h) + 1
    BY <1>2, <2>10, <2>11, <2>12, <2>13, <2>14
  <2>16. Books'
    BY <1>1, <1>2, <2>1, <2>9, <2>12, <2>13, <2>15 DEF Books
  <2> QED
    BY <2>7, <2>8, <2>16 DEF TreasuryInv
<1> QED
  BY <1>4, <1>5, <1>6, <1>7, <1>8
LEMMA HarvestKeepsBooks ==
  ASSUME TreasuryInv, TreasuryAssumption, NEW a \in Harvester,
         \/ Treasury!harvestReads(a) \/ Treasury!harvestRecords(a) \/ Treasury!harvestEnds(a)
         \/ \E u \in Holder : Treasury!harvestSends(a, u)
  PROVE  TreasuryInv'
<1>1. TreasuryTyped /\ HarvestInv /\ HotInv /\ Books
  BY DEF TreasuryInv
<1>2. /\ Held \in [Holder -> Nat] /\ Owns \in [Holder -> Nat] /\ Unrecorded \in [Harvester -> Nat]
      /\ arriving \in [Holder -> Nat] /\ IsFiniteSet(Holder) /\ IsFiniteSet(Harvester)
      /\ Treasury!Tally(Held) \in Nat /\ Treasury!Tally(Owns) \in Nat
      /\ Treasury!Tally(Unrecorded) \in Nat /\ Treasury!Tally(arriving) \in Nat
      /\ revenue \in Nat /\ conversions \in Nat /\ chain["hot"] \in Nat
  BY <1>1, BooksTyped
<1>3. /\ harvests \in [Harvester -> HarvestDoc] /\ harvests[a] \in HarvestDoc
      /\ harvests[a].remaining \in Nat /\ harvests[a].sent \in Nat
      /\ harvests[a].sources \in [Holder -> Nat]
      /\ chain \in [Holder \cup {"hot"} -> Nat] /\ "hot" \notin Holder
      /\ mirror \in [Holder -> [balance : Nat, frozen : Nat]]
      /\ \A b \in Harvester : b = a
  BY <1>1 DEF TreasuryTyped, HarvestDoc, TreasuryAssumption
<1>4. ASSUME NEW d \in HarvestDoc, harvests' = [harvests EXCEPT ![a] = d]
      PROVE  /\ harvests' \in [Harvester -> HarvestDoc]
             /\ \A b \in Harvester : harvests'[b] = d
             /\ Unrecorded' \in [Harvester -> Nat] /\ Unrecorded'[a] = d.sent
             /\ Treasury!Tally(Unrecorded') \in Nat
             /\ Treasury!Tally(Unrecorded') + harvests[a].sent = Treasury!Tally(Unrecorded) + d.sent
  <2>1. harvests' \in [Harvester -> HarvestDoc] /\ \A b \in Harvester : harvests'[b] = d
    BY <1>3, <1>4
  <2>2. Unrecorded' \in [Harvester -> Nat] /\ Unrecorded'[a] = d.sent
    BY <2>1 DEF Unrecorded, HarvestDoc
  <2>3. \A b \in Harvester : b # a => Unrecorded'[b] = Unrecorded[b]
    BY <1>3
  <2>4. Treasury!Tally(Unrecorded') \in Nat
        /\ Treasury!Tally(Unrecorded') + Unrecorded[a] = Treasury!Tally(Unrecorded) + Unrecorded'[a]
    BY <1>2, <2>2, <2>3, TallyChanges
  <2>5. Unrecorded[a] = harvests[a].sent
    BY DEF Unrecorded
  <2> QED
    BY <2>1, <2>2, <2>4, <2>5
<1>5. ASSUME NEW d \in HarvestDoc, harvests' = [harvests EXCEPT ![a] = d],
             UNCHANGED <<mirror, arriving, revenue, chain, conversions, cachedHot>>,
             d.sent = harvests[a].sent, d.phase = "sent" => harvests[a].phase = "sent",
             d.phase # "sent" => d.sent = 0,
             d.phase # "idle" => d.remaining <= revenue,
             d.phase = "sent" => d.sent <= d.remaining
      PROVE  TreasuryInv'
  <2>1. /\ harvests' \in [Harvester -> HarvestDoc] /\ \A b \in Harvester : harvests'[b] = d
        /\ Treasury!Tally(Unrecorded') \in Nat
        /\ Treasury!Tally(Unrecorded') + harvests[a].sent = Treasury!Tally(Unrecorded) + d.sent
    BY <1>4, <1>5
  <2>2. TreasuryTyped' /\ HotInv'
    BY <1>1, <1>5, <2>1 DEF TreasuryTyped, HotInv
  <2>3. HarvestInv'
    BY <1>5, <2>1 DEF HarvestInv
  <2>4. Held' = Held /\ Owns' = Owns
    BY <1>5 DEF Held, Owns
  <2>5. Treasury!Tally(Unrecorded') = Treasury!Tally(Unrecorded)
    <3>1. Treasury!Tally(Unrecorded') + harvests[a].sent = Treasury!Tally(Unrecorded) + harvests[a].sent
      BY <1>5, <2>1
    <3>2. /\ Treasury!Tally(Unrecorded') \in Nat /\ Treasury!Tally(Unrecorded) \in Nat
          /\ harvests[a].sent \in Nat
      BY <1>2, <1>3, <2>1
    <3> QED
      BY <3>1, <3>2
  <2>6. Books'
    BY <1>1, <1>5, <2>4, <2>5 DEF Books
  <2> QED
    BY <2>2, <2>3, <2>6 DEF TreasuryInv
<1>6. CASE Treasury!harvestReads(a)
  <2> DEFINE d == [phase |-> "sending", remaining |-> revenue,
                   sources |-> [u \in Holder |-> Treasury!Surplus(u)], sent |-> 0]
  <2>1. /\ harvests' = [harvests EXCEPT ![a] = d] /\ harvests[a].phase = "idle"
        /\ UNCHANGED <<mirror, arriving, revenue, chain, conversions, cachedHot>>
    BY <1>6 DEF Treasury!harvestReads, Treasury!userVars, Treasury!payoutVars
  <2>2. \A u \in Holder : Treasury!Surplus(u) \in Nat
    BY <1>3 DEF Treasury!Surplus
  <2>3. d \in HarvestDoc /\ d.sent = 0 /\ d.phase = "sending" /\ d.remaining = revenue
    BY <1>2, <2>2 DEF HarvestDoc
  <2>4. harvests[a].sent = 0
    BY <1>1, <2>1 DEF HarvestInv
  <2>5. d.remaining <= revenue /\ d.sent = harvests[a].sent /\ d.phase # "sent"
    BY <1>2, <2>4
  <2> HIDE DEF d
  <2> QED
    BY <1>5, <2>1, <2>3, <2>5
<1>7. CASE Treasury!harvestEnds(a)
  <2> DEFINE d == Treasury!Idle
  <2>1. /\ harvests' = [harvests EXCEPT ![a] = d] /\ harvests[a].phase = "sending"
        /\ UNCHANGED <<mirror, arriving, revenue, chain, conversions, cachedHot>>
    BY <1>7 DEF Treasury!harvestEnds, Treasury!userVars, Treasury!payoutVars
  <2>2. d \in HarvestDoc /\ d.sent = 0 /\ d.phase = "idle"
    BY DEF HarvestDoc, Treasury!Idle
  <2>3. harvests[a].sent = 0
    BY <1>1, <2>1 DEF HarvestInv
  <2> HIDE DEF d
  <2> QED
    BY <1>5, <2>1, <2>2, <2>3
<1>8. CASE Treasury!harvestRecords(a)
  <2> DEFINE n == harvests[a].sent
             d == [harvests[a] EXCEPT !.phase = "sending", !.sent = 0,
                                      !.remaining = IF harvests[a].remaining > n
                                                    THEN harvests[a].remaining - n ELSE 0]
  <2>1. harvests[a].phase = "sent" /\ n <= harvests[a].remaining /\ harvests[a].remaining <= revenue
    BY <1>1, <1>8 DEF Treasury!harvestRecords, HarvestInv
  <2>2. revenue' = revenue - n /\ revenue' \in Nat
    <3>1. revenue' = IF revenue > n THEN revenue - n ELSE 0
      BY <1>8 DEF Treasury!harvestRecords, TreasuryAssumption
    <3>2. n \in Nat /\ revenue \in Nat /\ n <= revenue
      BY <1>2, <1>3, <2>1
    <3> HIDE DEF n
    <3> QED
      BY <3>1, <3>2
  <2>3. /\ harvests' = [harvests EXCEPT ![a] = d]
        /\ UNCHANGED <<mirror, arriving, chain, conversions, cachedHot>>
    BY <1>3, <1>8 DEF Treasury!harvestRecords, Treasury!payoutVars, TreasuryAssumption
  <2>4. (IF harvests[a].remaining > n THEN harvests[a].remaining - n ELSE 0) = harvests[a].remaining - n
        /\ harvests[a].remaining - n \in Nat
    BY <1>3, <2>1
  <2>5. d \in HarvestDoc /\ d.phase = "sending" /\ d.sent = 0 /\ d.remaining = harvests[a].remaining - n
    BY <1>3, <2>4 DEF HarvestDoc
  <2> HIDE DEF d
  <2>6. /\ harvests' \in [Harvester -> HarvestDoc] /\ \A b \in Harvester : harvests'[b] = d
        /\ Treasury!Tally(Unrecorded') \in Nat
        /\ Treasury!Tally(Unrecorded') + n = Treasury!Tally(Unrecorded) + d.sent
    BY <1>4, <2>3, <2>5
  <2>7. TreasuryTyped' /\ HotInv'
    BY <1>1, <2>2, <2>3, <2>6 DEF TreasuryTyped, HotInv
  <2>8. HarvestInv'
    <3>1. d.remaining <= revenue'
      BY <1>2, <1>3, <2>1, <2>2, <2>5
    <3> QED
      BY <2>5, <2>6, <3>1 DEF HarvestInv
  <2>9. Held' = Held /\ Owns' = Owns
    BY <2>3 DEF Held, Owns
  <2>10. Treasury!Tally(Unrecorded') = Treasury!Tally(Unrecorded) - n
    BY <1>2, <1>3, <2>5, <2>6
  <2>11. Books'
    <3>1. n \in Nat
      BY <1>3
    <3> HIDE DEF n
    <3>2. Treasury!Tally(Held) + conversions + (Treasury!Tally(Unrecorded) - n)
            = Treasury!Tally(Owns) + Treasury!Tally(arriving) + (revenue - n)
      BY SMTT(60), <1>1, <1>2, <3>1 DEF Books
    <3> QED
      BY <2>2, <2>3, <2>9, <2>10, <3>2 DEF Books
  <2> QED
    BY <2>7, <2>8, <2>11 DEF TreasuryInv
<1>9. ASSUME NEW u \in Holder, Treasury!harvestSends(a, u)
      PROVE  TreasuryInv'
  <2> DEFINE n == Treasury!harvestedAmount(a, u)
             s == [harvests[a].sources EXCEPT ![u] = 0]
  <2>1. /\ harvests[a].phase = "sending" /\ harvests[a].sent = 0
        /\ harvests[a].remaining <= revenue /\ harvests[a].sources[u] \in Nat
        /\ UNCHANGED <<mirror, arriving, revenue, conversions, cachedHot>>
    BY <1>1, <1>3, <1>9 DEF Treasury!harvestSends, HarvestInv, Treasury!userVars, Treasury!payoutVars
  <2>2. n \in Nat /\ n <= harvests[a].remaining
    BY <1>3, <2>1 DEF Treasury!harvestedAmount
  <2>3. s \in [Holder -> Nat]
    BY <1>3
  <2>4. CASE chain[u] >= n /\ chain' = [chain EXCEPT ![u] = @ - n, !["hot"] = @ + n]
             /\ harvests' = [harvests EXCEPT ![a] = [@ EXCEPT !.phase = "sent", !.sources[u] = 0, !.sent = n]]
    <3> DEFINE d == [harvests[a] EXCEPT !.phase = "sent", !.sources[u] = 0, !.sent = n]
    <3>1. harvests' = [harvests EXCEPT ![a] = d]
      BY <1>3, <2>4
    <3>2. d \in HarvestDoc /\ d.phase = "sent" /\ d.sent = n /\ d.remaining = harvests[a].remaining
      <4> HIDE DEF n
      <4> QED
        BY <1>3, <2>2, <2>3 DEF HarvestDoc
    <3> HIDE DEF d
    <3>3. chain' \in [Holder \cup {"hot"} -> Nat] /\ chain'[u] = chain[u] - n
          /\ chain'["hot"] = chain["hot"] + n /\ \A w \in Holder : w # u => chain'[w] = chain[w]
      <4> HIDE DEF n
      <4>1. chain[u] \in Nat /\ chain["hot"] \in Nat /\ u # "hot"
        BY <1>3
      <4>2. chain[u] - n \in Nat /\ chain["hot"] + n \in Nat
        BY <2>2, <2>4, <4>1
      <4> QED
        BY <1>3, <2>4, <4>1, <4>2
    <3> HIDE DEF n
    <3>4. /\ harvests' \in [Harvester -> HarvestDoc] /\ \A b \in Harvester : harvests'[b] = d
          /\ Treasury!Tally(Unrecorded') \in Nat
          /\ Treasury!Tally(Unrecorded') + harvests[a].sent = Treasury!Tally(Unrecorded) + d.sent
      BY <1>4, <3>1, <3>2
    <3>5. TreasuryTyped'
      BY <1>1, <2>1, <3>3, <3>4 DEF TreasuryTyped
    <3>6. HotInv'
      <4>1. chain["hot"] <= chain'["hot"] /\ chain'["hot"] \in Nat
        BY <1>2, <2>2, <3>3
      <4>2. \A k \in cachedHot : k \in Nat /\ k <= chain'["hot"]
        BY <1>1, <1>2, <4>1 DEF HotInv
      <4>3. conversions <= chain'["hot"] /\ conversions <= MaxConversions
        BY <1>1, <1>2, <4>1 DEF HotInv
      <4> QED
        BY <2>1, <4>2, <4>3 DEF HotInv
    <3>7. HarvestInv'
      BY <2>1, <2>2, <3>2, <3>4 DEF HarvestInv
    <3>8. Owns' = Owns
      BY <2>1 DEF Owns
    <3>9. Held' \in [Holder -> Nat] /\ Held'[u] = Held[u] - n /\ \A w \in Holder : w # u => Held'[w] = Held[w]
      BY <3>3 DEF Held
    <3>10. Treasury!Tally(Held') \in Nat /\ Treasury!Tally(Held') + Held[u] = Treasury!Tally(Held) + Held'[u]
      BY <1>2, <3>9, TallyChanges
    <3>11. Held[u] \in Nat
      BY <1>2
    <3>12. Treasury!Tally(Held') = Treasury!Tally(Held) - n
      <4>1. Treasury!Tally(Held') + Held[u] = Treasury!Tally(Held) + (Held[u] - n)
        BY <3>9, <3>10
      <4>2. /\ Treasury!Tally(Held') \in Nat /\ Treasury!Tally(Held) \in Nat
            /\ Held[u] \in Nat /\ n \in Nat
        BY <1>2, <2>2, <3>10, <3>11
      <4> QED
        BY <4>1, <4>2
    <3>13. Treasury!Tally(Unrecorded') = Treasury!Tally(Unrecorded) + n
      BY <1>2, <2>1, <2>2, <3>2, <3>4
    <3>14. Books'
      BY <1>1, <1>2, <2>1, <2>2, <3>8, <3>12, <3>13 DEF Books
    <3> QED
      BY <3>5, <3>6, <3>7, <3>14 DEF TreasuryInv
  <2>5. CASE harvests' = [harvests EXCEPT ![a].sources[u] = 0] /\ UNCHANGED chain
    <3> DEFINE d == [harvests[a] EXCEPT !.sources = s]
    <3>1. harvests' = [harvests EXCEPT ![a] = d]
      BY <1>3, <2>5
    <3>2. d \in HarvestDoc /\ d.phase = "sending" /\ d.sent = 0 /\ d.remaining = harvests[a].remaining
      BY <1>3, <2>1, <2>3 DEF HarvestDoc
    <3> HIDE DEF d
    <3> QED
      BY <1>5, <2>1, <2>5, <3>1, <3>2
  <2> QED
    BY <1>9, <2>4, <2>5 DEF Treasury!harvestSends, Treasury!Hot
<1> QED
  BY <1>6, <1>7, <1>8, <1>9

LEMMA PayoutsKeepBooks ==
  ASSUME TreasuryInv, TreasuryAssumption, NEW p,
         \/ /\ p \in Payout
            /\ \/ Treasury!payinConfirmed(p) \/ Treasury!dispatchPayout(p)
               \/ Treasury!sendUSDCToHarbor(p) \/ Treasury!payoutCompleted(p)
         \/ Treasury!createFunding \/ Treasury!retryPendingFunding \/ Treasury!cacheExpires
  PROVE  TreasuryInv'
<1>1. TreasuryTyped /\ HarvestInv /\ HotInv /\ Books
  BY DEF TreasuryInv
<1>2. /\ chain \in [Holder \cup {"hot"} -> Nat] /\ "hot" \notin Holder /\ chain["hot"] \in Nat
      /\ conversions \in Nat /\ PayoutUSDC \in Nat /\ MaxConversions \in {0, 1}
  BY <1>1 DEF TreasuryTyped, TreasuryAssumption
<1>3. Treasury!hotBalance \in Nat /\ Treasury!hotBalance <= chain["hot"]
  BY <1>1, BalanceIsThere
<1>4. UNCHANGED <<mirror, arriving, revenue, harvests, conversions>>
  BY DEF Treasury!payinConfirmed, Treasury!dispatchPayout, Treasury!sendUSDCToHarbor,
         Treasury!payoutCompleted, Treasury!createFunding, Treasury!retryPendingFunding,
         Treasury!cacheExpires, Treasury!userVars
<1>5. ASSUME chain' \in [Holder \cup {"hot"} -> Nat], \A u \in Holder : chain'[u] = chain[u],
             conversions <= chain'["hot"],
             \A n \in cachedHot' : n \in Nat /\ n <= chain'["hot"]
      PROVE  TreasuryInv'
  <2>1. TreasuryTyped' /\ HarvestInv' /\ Books'
    BY <1>1, <1>4, <1>5, BooksStand
  <2>2. HotInv'
    BY <1>1, <1>4, <1>5 DEF HotInv
  <2> QED
    BY <2>1, <2>2 DEF TreasuryInv
<1>6. ASSUME chain' = chain, cachedHot' \in {cachedHot, {Treasury!hotBalance}, {}}
      PROVE  TreasuryInv'
  <2>1. \A n \in cachedHot' : n \in Nat /\ n <= chain'["hot"]
    BY <1>1, <1>3, <1>6 DEF HotInv
  <2>2. conversions <= chain'["hot"]
    BY <1>1, <1>6 DEF HotInv
  <2> QED
    BY <1>2, <1>5, <1>6, <2>1, <2>2
<1>7. CASE p \in Payout /\ Treasury!sendUSDCToHarbor(p)
  <2>3. [q \in Payout |-> PayoutUSDC][p] = PayoutUSDC
    BY <1>7
  <2>1. CASE Treasury!keepsReserve(p) /\ chain' = [chain EXCEPT !["hot"] = @ - PayoutUSDC]
             /\ cachedHot' = {}
    <3>1. Treasury!hotBalance >= PayoutUSDC + 1
      BY <2>1, <2>3 DEF Treasury!keepsReserve, Treasury!Reserve
    <3>2. chain["hot"] - PayoutUSDC \in Nat /\ chain["hot"] - PayoutUSDC >= 1
      BY <1>2, <1>3, <3>1
    <3>3. chain' \in [Holder \cup {"hot"} -> Nat] /\ chain'["hot"] = chain["hot"] - PayoutUSDC
          /\ \A u \in Holder : chain'[u] = chain[u]
      BY <1>2, <2>1, <3>2
    <3>4. conversions <= 1
      BY <1>1, <1>2 DEF HotInv
    <3>5. conversions <= chain'["hot"]
      BY <1>2, <3>2, <3>3, <3>4
    <3> QED
      BY <1>5, <2>1, <3>3, <3>5
  <2>2. CASE chain' = chain /\ cachedHot' = {Treasury!hotBalance}
    BY <1>6, <2>2
  <2>4. \/ /\ Treasury!keepsReserve(p) /\ cachedHot' = {}
           /\ chain' = [chain EXCEPT !["hot"] = @ - [q \in Payout |-> PayoutUSDC][p]]
        \/ chain' = chain /\ cachedHot' = {Treasury!hotBalance}
    BY <1>7 DEF Treasury!sendUSDCToHarbor, Treasury!Hot, Treasury!NotCached
  <2> QED
    BY <2>1, <2>2, <2>3, <2>4
<1>8. CASE Treasury!createFunding
  <2>1. Treasury!fundingNeeded \in Nat
    BY <1>1, NeedsTyped
  <2>2. chain' = [chain EXCEPT !["hot"] = @ + Treasury!fundingNeeded]
        /\ cachedHot' \in {{Treasury!hotBalance}, {}}
    BY <1>8 DEF Treasury!createFunding, Treasury!Hot, Treasury!NotCached
  <2>3. chain["hot"] + Treasury!fundingNeeded \in Nat /\ chain["hot"] <= chain["hot"] + Treasury!fundingNeeded
    BY <1>2, <2>1
  <2>4. chain' \in [Holder \cup {"hot"} -> Nat] /\ chain["hot"] <= chain'["hot"] /\ chain'["hot"] \in Nat
        /\ \A u \in Holder : chain'[u] = chain[u]
    BY <1>2, <2>2, <2>3
  <2>5. conversions <= chain'["hot"]
    BY <1>1, <1>2, <2>4 DEF HotInv
  <2>6. \A n \in cachedHot' : n \in Nat /\ n <= chain'["hot"]
    BY <1>2, <1>3, <2>2, <2>4
  <2> QED
    BY <1>5, <2>4, <2>5, <2>6
<1>9. CASE Treasury!payinConfirmed(p) \/ Treasury!dispatchPayout(p) \/ Treasury!payoutCompleted(p)
           \/ Treasury!retryPendingFunding \/ Treasury!cacheExpires
  <2>1. chain' = chain /\ cachedHot' \in {cachedHot, {Treasury!hotBalance}, {}}
    BY <1>9 DEF Treasury!payinConfirmed, Treasury!dispatchPayout, Treasury!payoutCompleted,
         Treasury!retryPendingFunding, Treasury!cacheExpires, Treasury!NotCached
  <2> QED
    BY <1>6, <2>1
<1> QED
  BY <1>7, <1>8, <1>9

LEMMA TreasuryKept ==
  ASSUME TreasuryInv, [Treasury!TreasuryNext]_treasuryVars, TreasuryAssumption
  PROVE  TreasuryInv'
<1>1. CASE UNCHANGED treasuryVars
  <2>1. UNCHANGED <<mirror, chain, arriving, revenue, harvests, conversions, cachedHot>>
    BY <1>1 DEF treasuryVars
  <2>2. TreasuryTyped' /\ HarvestInv' /\ HotInv'
    BY <2>1 DEF TreasuryInv, TreasuryTyped, HarvestInv, HotInv
  <2>3. Held' = Held /\ Owns' = Owns /\ Unrecorded' = Unrecorded
    BY <2>1 DEF Held, Owns, Unrecorded
  <2>4. Books'
    BY <2>1, <2>3 DEF TreasuryInv, Books
  <2> QED
    BY <2>2, <2>4 DEF TreasuryInv
<1>2. ASSUME NEW u \in Holder,
             Treasury!depositUSDC(u) \/ Treasury!creditDeposit(u) \/ Treasury!adminFreezeWallet(u)
               \/ Treasury!adminConfirmBOBtoUSDC(u)
      PROVE  TreasuryInv'
  BY <1>2, UsersKeepBooks
<1>3. ASSUME NEW u \in Holder, NEW v \in Holder, Treasury!executeUsdcP2pTransfer(u, v)
      PROVE  TreasuryInv'
  BY <1>3, UsersKeepBooks
<1>4. ASSUME NEW a \in Harvester,
             \/ Treasury!harvestReads(a) \/ Treasury!harvestRecords(a) \/ Treasury!harvestEnds(a)
             \/ \E u \in Holder : Treasury!harvestSends(a, u)
      PROVE  TreasuryInv'
  BY <1>4, HarvestKeepsBooks
<1>5. ASSUME NEW p \in Payout,
             \/ Treasury!payinConfirmed(p) \/ Treasury!dispatchPayout(p) \/ Treasury!sendUSDCToHarbor(p)
             \/ Treasury!payoutCompleted(p)
      PROVE  TreasuryInv'
  BY <1>5, PayoutsKeepBooks
<1>6. CASE Treasury!createFunding \/ Treasury!retryPendingFunding \/ Treasury!cacheExpires
  BY <1>6, PayoutsKeepBooks
<1> QED
  BY <1>1, <1>2, <1>3, <1>4, <1>5, <1>6 DEF Treasury!TreasuryNext

LEMMA TreasuryStarts ==
  ASSUME Init, TreasuryAssumption
  PROVE  TreasuryInv
<1>1. /\ mirror = [u \in Holder |-> [balance |-> IF u = Rich THEN 2 ELSE 0, frozen |-> 0]]
      /\ chain = [a \in Holder \cup {"hot"} |-> IF a = "hot" THEN InitialHot ELSE IF a = Rich THEN 2 ELSE 0]
      /\ arriving = [u \in Holder |-> 0] /\ revenue = 0 /\ conversions = 0 /\ cachedHot = {}
      /\ harvests = [a \in Harvester |-> Treasury!Idle]
  BY DEF Init, Treasury!TreasuryInit, Treasury!Hot, Treasury!NotCached
<1>2. InitialHot \in Nat /\ "hot" \notin Holder /\ MaxConversions \in {0, 1}
  BY DEF TreasuryAssumption
<1>3. Treasury!Idle \in HarvestDoc /\ Treasury!Idle.phase = "idle" /\ Treasury!Idle.sent = 0
  BY DEF Treasury!Idle, HarvestDoc
<1>4. TreasuryTyped
  <2>1. mirror \in [Holder -> [balance : Nat, frozen : Nat]]
    BY <1>1
  <2>2. chain \in [Holder \cup {"hot"} -> Nat]
    BY <1>1, <1>2
  <2> QED
    BY <1>1, <1>3, <2>1, <2>2 DEF TreasuryTyped
<1>5. HarvestInv
  BY <1>1, <1>3 DEF HarvestInv
<1>6. HotInv
  BY <1>1, <1>2 DEF HotInv
<1>7. Books
  <2>1. Held = Owns
    <3>1. Held = [u \in Holder |-> IF u = Rich THEN 2 ELSE 0]
      BY <1>1, <1>2 DEF Held
    <3>2. Owns = [u \in Holder |-> IF u = Rich THEN 2 ELSE 0]
      BY <1>1 DEF Owns
    <3> QED
      BY <3>1, <3>2
  <2>2. Treasury!Tally(arriving) = 0
    BY <1>1, TallyOfNothing
  <2>3. Treasury!Tally(Unrecorded) = 0
    <3>1. DOMAIN Unrecorded = Harvester /\ \A a \in Harvester : Unrecorded[a] = 0
      BY <1>1, <1>3 DEF Unrecorded
    <3> QED
      BY <3>1, TallyOfNothing
  <2>4. Treasury!Tally(Held) \in Nat
    BY <1>4, BooksTyped
  <2> QED
    BY <1>1, <2>1, <2>2, <2>3, <2>4 DEF Books
<1> QED
  BY <1>4, <1>5, <1>6, <1>7 DEF TreasuryInv

(* The books say that what users own is there.                             *)
LEMMA BooksBack ==
  ASSUME TreasuryInv, TreasuryAssumption
  PROVE  LiabilitiesBacked
<1>1. TreasuryTyped /\ HarvestInv /\ HotInv /\ Books
  BY DEF TreasuryInv
<1>2. /\ Held \in [Holder -> Nat] /\ Owns \in [Holder -> Nat] /\ Unrecorded \in [Harvester -> Nat]
      /\ arriving \in [Holder -> Nat] /\ IsFiniteSet(Holder) /\ IsFiniteSet(Harvester)
      /\ Treasury!Tally(Held) \in Nat /\ Treasury!Tally(Owns) \in Nat
      /\ Treasury!Tally(Unrecorded) \in Nat /\ Treasury!Tally(arriving) \in Nat
      /\ revenue \in Nat /\ conversions \in Nat /\ chain["hot"] \in Nat
  BY <1>1, BooksTyped
<1>3. Treasury!Tally(Unrecorded) <= revenue
  <2>1. CASE \A a \in Harvester : Unrecorded[a] = 0
    <3>1. DOMAIN Unrecorded = Harvester
      BY <1>2
    <3>2. Treasury!Tally(Unrecorded) = 0
      BY <2>1, <3>1, TallyOfNothing
    <3> QED
      BY <1>2, <3>2
  <2>2. ASSUME NEW a \in Harvester, Unrecorded[a] # 0
        PROVE  Treasury!Tally(Unrecorded) <= revenue
    <3> DEFINE z == [b \in Harvester |-> 0]
    <3>1. z \in [Harvester -> Nat] /\ z[a] = 0 /\ \A b \in Harvester : b # a => Unrecorded[b] = z[b]
      BY DEF TreasuryAssumption
    <3>2. Treasury!Tally(z) = 0
      BY TallyOfNothing
    <3> HIDE DEF z
    <3>3. Treasury!Tally(Unrecorded) + z[a] = Treasury!Tally(z) + Unrecorded[a]
      BY <1>2, <3>1, TallyChanges
    <3>4. Unrecorded[a] \in Nat
      BY <1>2
    <3>5. Treasury!Tally(Unrecorded) = Unrecorded[a]
      BY <1>2, <3>1, <3>2, <3>3, <3>4
    <3>6. Unrecorded[a] = harvests[a].sent /\ harvests[a].remaining \in Nat /\ harvests[a].sent \in Nat
      BY <1>1 DEF Unrecorded, TreasuryTyped, HarvestDoc
    <3>7. harvests[a].sent <= harvests[a].remaining /\ harvests[a].remaining <= revenue
      BY <1>1, <2>2, <3>6 DEF HarvestInv
    <3> QED
      BY <1>2, <3>5, <3>6, <3>7
  <2> QED
    BY <2>1, <2>2
<1>4. conversions <= chain["hot"]
  BY <1>1 DEF HotInv
<1>5. Treasury!Tally(chain) = Treasury!Tally(Held) + chain["hot"]
  <2>1. chain \in [Holder \cup {"hot"} -> Nat] /\ IsFiniteSet(Holder) /\ "hot" \notin Holder
    BY <1>1 DEF TreasuryTyped, TreasuryAssumption
  <2> QED
    BY <2>1, TallyApart DEF Held
<1>6. Treasury!Tally(Owns) <= Treasury!Tally(chain)
  BY <1>1, <1>2, <1>3, <1>4, <1>5 DEF Books
<1>7. Treasury!Owed = Owns
  BY DEF Treasury!Owed, Owns
<1> QED
  BY <1>6, <1>7 DEF LiabilitiesBacked, Treasury!LiabilitiesBacked, Treasury!Liabilities, Treasury!Reserves

-----------------------------------------------------------------------------
(* What the theorems suppose of the constants: their kinds, and, of the    *)
(* scenarios a run refutes or a part leaves to its README, that they do    *)
(* not happen.                                                             *)
AccessAssumption ==
  /\ TimeAssumption /\ SecondFactor!Numbers
  /\ "none" \notin Request
  /\ MaxTokens \in Nat \ {0}
  /\ Overlap = FALSE      \* the requests that close sessions come one by one
  /\ BadPayloads = FALSE  \* Firebase refuses no message as an invalid argument

ClaimAssumption ==
  /\ SecondFactor!Numbers /\ Refunds!Apart
  /\ Enrolments = FALSE     \* the requests of an enrolment come one by one
  /\ Midway = FALSE /\ StoreFails = FALSE
  /\ Alone = TRUE           \* the admins wait for the script to end
  /\ UnlocksInFlight = FALSE /\ ServerErrors = FALSE

OwedAssumption ==
  /\ IsFiniteSet(Caller)
  /\ Concurrent = FALSE     \* a user's requests for an address come one by one
  /\ PaidInSweep = FALSE    \* a QR that is being cancelled is not paid
  /\ "payin_pending" \notin RefundFrom /\ "none" \notin Payin

ComplianceAssumption ==
  /\ LimitAssumption
  /\ AtOnce = FALSE         \* a consumer's payments are checked and created one by one
  /\ Corrections = FALSE    \* no document is corrected while a review is under way
  /\ PhoneElsewhere = FALSE \* nor is a phone first given by the general profile
  /\ MaxRestarts = 0        \* the reviews under way are lost with the process
  /\ IsFiniteSet(Owner) /\ Cardinality(Owner) <= 11

(* A session that was closed is let in no longer than the cached answer    *)
(* lives, whoever logs in, changes a password or loses a device meanwhile. *)
THEOREM ClosedSessionsStayOut ==
  ASSUME TimeAssumption, Overlap = FALSE
  PROVE  Spec => []Sessions!ClosedIsOut
<1>1. Init => SessionInv
  BY SessionStarts
<1>2. SessionInv /\ [Next]_vars => SessionInv'
  BY StepOfParts, SessionKept
<1>3. SessionInv => Sessions!ClosedIsOut
  BY DEF SessionInv
<1> QED
  BY <1>1, <1>2, <1>3, PTL DEF Spec

(* An answer that is served from the store of the idempotency middleware   *)
(* is the user's own, for any requests, clients and keys.                  *)
THEOREM AnswersAreTheirOwn ==
  ASSUME "none" \notin Request
  PROVE  Spec => []Idempotency!OwnAnswer
<1>1. Init => IdempotencyInv
  BY IdempotencyStarts
<1>2. IdempotencyInv /\ [Next]_vars => IdempotencyInv'
  BY StepOfParts, IdempotencyKept
<1>3. IdempotencyInv => Idempotency!OwnAnswer
  BY DEF IdempotencyInv
<1> QED
  BY <1>1, <1>2, <1>3, PTL DEF Spec

(* A device the user registered stays in the list a push reads, whatever   *)
(* registrations, pulls of other tokens and failures come between, until   *)
(* he unlinks it, a newer one takes its place or his account is deleted.   *)
THEOREM RegisteredDevicesAreKept ==
  ASSUME BadPayloads = FALSE, MaxTokens \in Nat \ {0}
  PROVE  Spec => []PushTokens!RegisteredIsKept
<1>1. Init => TokensInv
  BY TokensStart
<1>2. TokensInv /\ [Next]_vars => TokensInv'
  BY StepOfParts, TokensKept
<1>3. TokensInv => PushTokens!RegisteredIsKept
  BY TokensAreKept
<1> QED
  BY <1>1, <1>2, <1>3, PTL DEF Spec

(* Nobody gets what is another's or no longer theirs, and who belongs      *)
(* there stays: sessions, the second factor, idempotency and push tokens,  *)
(* for any number of requests, users and devices.                          *)
THEOREM AccessAlwaysHolds ==
  ASSUME AccessAssumption
  PROVE  Spec => []AccessHolds
<1>1. Spec => []Sessions!ClosedIsOut
  BY ClosedSessionsStayOut DEF AccessAssumption
<1>2. Spec => []Idempotency!OwnAnswer
  BY AnswersAreTheirOwn DEF AccessAssumption
<1>3. Spec => []PushTokens!RegisteredIsKept
  BY RegisteredDevicesAreKept DEF AccessAssumption
<1>4. Spec => []SecondFactor!FailuresLockOut
  <2>1. Init => SecondFactor!FactorInit
    BY DEF Init
  <2>2. [Next]_vars => [SecondFactor!FactorNext]_factorVars
    BY StepOfParts
  <2>3. SecondFactor!FactorSpec => []SecondFactor!FailuresLockOut
    BY SecondFactor!FailuresAlwaysLock DEF AccessAssumption
  <2> QED
    BY <2>1, <2>2, <2>3, PTL DEF Spec, SecondFactor!FactorSpec, SecondFactor!factorVars, factorVars
<1> QED
  BY <1>1, <1>2, <1>3, <1>4, PTL DEF AccessHolds

(* An operation takes one number of a series, though the counter, the      *)
(* operation and the fallback are written by requests of their own.        *)
THEOREM ReceiptsHaveOneNumber ==
  ASSUME Midway = FALSE, StoreFails = FALSE
  PROVE  Spec => []Receipts!OneNumber
<1>1. Init => ReceiptInv
  BY ReceiptStarts
<1>2. ReceiptInv /\ [Next]_vars => ReceiptInv'
  BY StepOfParts, ReceiptKept
<1>3. ReceiptInv => Receipts!OneNumber
  BY DEF ReceiptInv
<1> QED
  BY <1>1, <1>2, <1>3, PTL DEF Spec

(* A piece is posted once, whatever admins press at the same time and      *)
(* however often the server stops, unless a lock is taken from a call that *)
(* goes on or a post that went through is answered with an error.          *)
THEOREM PiecesArePostedOnce ==
  ASSUME UnlocksInFlight = FALSE, ServerErrors = FALSE
  PROVE  Spec => []Marketing!PostedOnce
<1>1. Init => MarketingInv
  BY MarketingStarts
<1>2. MarketingInv /\ [Next]_vars => MarketingInv'
  BY StepOfParts, MarketingKept
<1>3. MarketingInv => Marketing!PostedOnce
  BY DEF MarketingInv, OutIsSeen, Marketing!PostedOnce
<1> QED
  BY <1>1, <1>2, <1>3, PTL DEF Spec

(* What two hands claim at the same time one of them gets: a code, a       *)
(* receipt's number, a credit and a post, for any number of hands.         *)
THEOREM ClaimsGoToOne ==
  ASSUME ClaimAssumption
  PROVE  Spec => []ClaimedOnce
<1>1. Spec => []Receipts!OneNumber
  BY ReceiptsHaveOneNumber DEF ClaimAssumption
<1>2. Spec => []Marketing!PostedOnce
  BY PiecesArePostedOnce DEF ClaimAssumption
<1>3. Spec => []SecondFactor!CodeUsedOnce
  <2>1. Init => SecondFactor!FactorInit
    BY DEF Init
  <2>2. [Next]_vars => [SecondFactor!FactorNext]_factorVars
    BY StepOfParts
  <2>3. SecondFactor!FactorSpec => []SecondFactor!CodeUsedOnce
    BY SecondFactor!CodesUsedOnce DEF ClaimAssumption
  <2> QED
    BY <2>1, <2>2, <2>3, PTL DEF Spec, SecondFactor!FactorSpec, SecondFactor!factorVars, factorVars
<1>4. Spec => []Refunds!CreditedOnce
  <2>1. Init => Refunds!CashInit
    BY DEF Init
  <2>2. [Next]_vars => [Refunds!CashNext]_cashVars
    BY StepOfParts
  <2>3. Refunds!RefundsSpec => []Refunds!CreditedOnce
    BY Refunds!RefundsCreditedOnce DEF ClaimAssumption
  <2> QED
    BY <2>1, <2>2, <2>3, PTL DEF Spec, Refunds!RefundsSpec, Refunds!cashVars, cashVars
<1> QED
  BY <1>1, <1>2, <1>3, <1>4, PTL DEF ClaimedOnce

(* A deposit at the anchor that was credited is not closed as unfunded,    *)
(* whatever list the admin or the sweep read before.                       *)
THEOREM CreditedDepositsStay == Spec => []Anchor!CreditedIsNotClosed
<1>1. Init => AnchorInv
  BY AnchorStarts
<1>2. AnchorInv /\ [Next]_vars => AnchorInv'
  BY StepOfParts, AnchorKept
<1>3. AnchorInv => Anchor!CreditedIsNotClosed
  BY DEF AnchorInv, Settled, Anchor!CreditedIsNotClosed
<1> QED
  BY <1>1, <1>2, <1>3, PTL DEF Spec

(* An address a user was shown is one whose key is still held, however     *)
(* many users and callers, and wherever the server stops.                  *)
THEOREM ShownAddressesAreHeld ==
  ASSUME Concurrent = FALSE, IsFiniteSet(Caller)
  PROVE  Spec => []Custody!AddressIsHeld
<1>1. Init => CustodyInv
  BY CustodyStarts
<1>2. CustodyInv /\ [Next]_vars => CustodyInv'
  BY StepOfParts, CustodyKept
<1>3. CustodyInv => Custody!AddressIsHeld
  BY DEF CustodyInv, Custody!AddressIsHeld
<1> QED
  BY <1>1, <1>2, <1>3, PTL DEF Spec

(* What the service owes is not written off: the deposits at the anchor,   *)
(* the cash that was collected and the addresses that were shown, for any  *)
(* number of orders, payments, admins and users.                           *)
THEOREM OwedStaysKept ==
  ASSUME OwedAssumption
  PROVE  Spec => []OwedIsKept
<1>1. Spec => []Anchor!CreditedIsNotClosed
  BY CreditedDepositsStay
<1>2. Spec => []Custody!AddressIsHeld
  BY ShownAddressesAreHeld DEF OwedAssumption
<1>3. Spec => []Refunds!OwedIsCommitted
  <2>1. Init => Refunds!CashInit
    BY DEF Init
  <2>2. [Next]_vars => [Refunds!CashNext]_cashVars
    BY StepOfParts
  <2>3. Refunds!RefundsSpec => []Refunds!OwedIsCommitted
    BY Refunds!OwedAlwaysCommitted DEF OwedAssumption
  <2> QED
    BY <2>1, <2>2, <2>3, PTL DEF Spec, Refunds!RefundsSpec, Refunds!cashVars, cashVars
<1> QED
  BY <1>1, <1>2, <1>3, PTL DEF OwedIsKept

(* The declared limits hold over whatever was created and did not fail, in *)
(* each day and in the period, for any payments, amounts and limits.       *)
THEOREM DeclaredLimitsHold ==
  ASSUME LimitAssumption, AtOnce = FALSE
  PROVE  Spec => []Limits!EcpLimitHolds
<1>1. Init => LimitsInv
  BY LimitsStart
<1>2. LimitsInv /\ [Next]_vars => LimitsInv'
  BY StepOfParts, LimitsKept
<1>3. LimitsInv => Limits!EcpLimitHolds
  BY LimitsStay
<1> QED
  BY <1>1, <1>2, <1>3, PTL DEF Spec

(* A large operation that completed in time to be seen has its alert,      *)
(* whatever cooldowns and reviews come between, for any operations.        *)
THEOREM LargeOnesAreFlagged ==
  ASSUME LimitAssumption, AtOnce = FALSE
  PROVE  Spec => []Limits!LargeIsFlagged
<1>1. Init => LimitsInv
  BY LimitsStart
<1>2. LimitsInv /\ [Next]_vars => LimitsInv'
  BY StepOfParts, LimitsKept
<1>3. LimitsInv => Limits!LargeIsFlagged
  BY LimitsStay
<1> QED
  BY <1>1, <1>2, <1>3, PTL DEF Spec

(* Two accounts of one customer are in an alert once their reviews ended,  *)
(* for as many accounts as the search for a duplicate returns.             *)
THEOREM DuplicatesAreReported ==
  ASSUME ComplianceAssumption
  PROVE  Spec => []ClientIdentity!DuplicateIsAlerted
<1>1. Init => IdentityInv
  BY IdentityStarts
<1>2. IdentityInv /\ [Next]_vars => IdentityInv'
  BY StepOfParts, IdentityKept DEF ComplianceAssumption
<1>3. IdentityInv => ClientIdentity!DuplicateIsAlerted
  BY DuplicatesAreNamed
<1> QED
  BY <1>1, <1>2, <1>3, PTL DEF Spec

(* Compliance keeps pace with the requests: limits, monitors and the       *)
(* search for duplicates, for any payments, amounts, clients and times.    *)
THEOREM ComplianceAlwaysHolds ==
  ASSUME ComplianceAssumption
  PROVE  Spec => []ComplianceHolds
<1>1. Spec => []Limits!EcpLimitHolds
  BY DeclaredLimitsHold DEF ComplianceAssumption
<1>2. Spec => []Limits!LargeIsFlagged
  BY LargeOnesAreFlagged DEF ComplianceAssumption
<1>3. Spec => []ClientIdentity!DuplicateIsAlerted
  BY DuplicatesAreReported
<1> QED
  BY <1>1, <1>2, <1>3, PTL DEF ComplianceHolds

(* The reserves on the chain cover what the users own, whatever deposits,  *)
(* transfers, freezes, harvests, payouts and fundings come between, for    *)
(* any accounts and payouts, as long as conversions stay within the USDC   *)
(* kept for the fees of the network: two of them refute it.                *)
THEOREM LiabilitiesStayBacked ==
  ASSUME TreasuryAssumption
  PROVE  Spec => []LiabilitiesBacked
<1>1. Init => TreasuryInv
  BY TreasuryStarts
<1>2. TreasuryInv /\ [Next]_vars => TreasuryInv'
  BY StepOfParts, TreasuryKept
<1>3. TreasuryInv => LiabilitiesBacked
  BY BooksBack
<1> QED
  BY <1>1, <1>2, <1>3, PTL DEF Spec
=============================================================================
