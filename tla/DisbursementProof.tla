-------------------------- MODULE DisbursementProof --------------------------
(***************************************************************************)
(* Withdrawals to a bank account, for any number of withdrawals, banks and *)
(* dispatches: an order per bank, a settlement that is the bank's word,    *)
(* and the promise to the user (WithdrawalPromise), kept by every step.    *)
(*                                                                         *)
(* The invariant says who may still write what: an alias names one         *)
(* withdrawal, an order is known by it, a dispatch in progress keeps the   *)
(* others out, and what the job was told of an order stays true.           *)
(***************************************************************************)
EXTENDS Disbursement, FiniteSetTheorems, TLAPS

Settled == {"completed", "failed"}

(* What the alias, the order and the bank know of each other.              *)
AliasesDiffer ==
  \A v, w \in Withdrawal :
    /\ alias[v].reference <= counter
    /\ alias[v].reference = alias[w].reference /\ alias[v].reference # 0 => v = w
KnownBy(o) ==
  IF o.bank = "redenlace" THEN o.ref = alias[o.for].reference /\ o.ref # 0
                          ELSE o.ref = o.for
OrdersDiffer ==
  \A o1, o2 \in order : o1.bank = o2.bank /\ o1.for = o2.for => o1 = o2

(* A dispatch in progress.                                                 *)
InProgress(w) ==
  /\ dispatch[w] # "idle" =>
       /\ wdoc[w].status # "pending" /\ wdoc[w].via # "hand"
       /\ wdoc[w].provider \in Bank /\ attempts[w] # 0
  /\ dispatch[w] = "alias" => wdoc[w].provider = "redenlace"
  /\ dispatch[w] = "order" /\ wdoc[w].provider = "redenlace" => alias[w].reference # 0
  /\ dispatch[w] \in {"alias", "order"} => \A o \in order : o.for = w => ~o.answered

(* An answered order is not taken back.                                    *)
AnsweredStands(o) ==
  o.answered => wdoc[o.for].status # "pending" /\ wdoc[o.for].via # "hand"

(* What the bank decided about a withdrawal.                               *)
Verdict(w, states) == \E o \in order : o.for = w /\ o.state \in states
SettledRight(w) ==
  /\ wdoc[w].status \in Settled <=> wdoc[w].via # "none"
  /\ wdoc[w].via = "bank" =>
       IF wdoc[w].status = "completed" THEN Verdict(w, {"paid", "reverted"})
                                       ELSE Verdict(w, {"refused"})
ToldRight(w) ==
  /\ asked[w] = "paid" => Verdict(w, {"paid", "reverted"})
  /\ asked[w] = "refused" => Verdict(w, {"refused"})

(* Without a change of bank, every order is at the withdrawal's bank.      *)
OneBank == ~Switch => \A o \in order : o.bank = wdoc[o.for].provider

DInv ==
  /\ DisbursementTypeOK
  /\ AliasesDiffer
  /\ OrdersDiffer
  /\ \A o \in order : KnownBy(o) /\ AnsweredStands(o)
  /\ \A w \in Withdrawal : InProgress(w) /\ SettledRight(w) /\ ToldRight(w)
  /\ OneBank

Sane == MaxAttempts \in Nat /\ "none" \notin Bank

LEMMA InitDInv == Sane /\ DisbursementInit => DInv
BY DEF Sane, DisbursementInit, DInv, DisbursementTypeOK, WithdrawalDoc, NoAlias, AliasesDiffer,
       OrdersDiffer, InProgress, SettledRight, ToldRight, Verdict, OneBank, Settled

(* A document is written with one that has the shape of a document.        *)
LEMMA DocWritten ==
  ASSUME DisbursementTypeOK, NEW w \in Withdrawal, NEW d \in WithdrawalDoc,
         wdoc' = [wdoc EXCEPT ![w] = d]
  PROVE  /\ wdoc' \in [Withdrawal -> WithdrawalDoc]
         /\ wdoc'[w] = d
         /\ \A v \in Withdrawal : v # w => wdoc'[v] = wdoc[v]
<1>1. wdoc \in [Withdrawal -> WithdrawalDoc]
  BY DEF DisbursementTypeOK
<1> QED
  BY <1>1

-----------------------------------------------------------------------------
(* One lemma per action.                                                   *)

LEMMA ClaimInv ==
  ASSUME Sane, DInv, NEW w \in Withdrawal, NEW p \in Bank, claimWithdrawal(w, p)
  PROVE  DInv'
<1> USE DEF DInv, DisbursementTypeOK, claimWithdrawal, Steps
<1>1. DisbursementTypeOK'
  <2>1. wdoc' \in [Withdrawal -> WithdrawalDoc]
    <3>1. [wdoc[w] EXCEPT !.status = "dispatched", !.provider = p] \in WithdrawalDoc
      <4>1. wdoc[w] \in WithdrawalDoc
        OBVIOUS
      <4> QED
        BY ONLY <4>1, p \in Bank DEF WithdrawalDoc
    <3>2. wdoc' = [wdoc EXCEPT ![w] = [wdoc[w] EXCEPT !.status = "dispatched", !.provider = p]]
      OBVIOUS
    <3> QED
      BY <3>1, <3>2, DocWritten
  <2>2. attempts[w] \in 0 .. MaxAttempts /\ attempts[w] + 1 \in 0 .. MaxAttempts
    BY DEF Sane
  <2>3. attempts' \in [Withdrawal -> 0 .. MaxAttempts]
    BY <2>2
  <2>4. dispatch' \in [Withdrawal -> {"idle", "alias", "order", "persist"}]
    OBVIOUS
  <2>5. UNCHANGED <<alias, counter, order, asked>>
    OBVIOUS
  <2> QED
    BY <2>1, <2>3, <2>4, <2>5
<1>2. dispatch[w] = "idle" /\ \A o \in order : o.for = w => ~o.answered
  BY DEF InProgress, AnsweredStands
<1>3. \A v \in Withdrawal : /\ v # w => /\ wdoc'[v] = wdoc[v] /\ dispatch'[v] = dispatch[v]
                                        /\ attempts'[v] = attempts[v]
                            /\ wdoc'[v].via = wdoc[v].via
                            /\ wdoc'[v].status \in Settled <=> wdoc[v].status \in Settled
                            /\ wdoc'[v].status = "completed" <=> wdoc[v].status = "completed"
  BY DEF WithdrawalDoc, Settled
<1>4. /\ wdoc'[w].status = "dispatched" /\ wdoc'[w].provider = p /\ wdoc'[w].via = "none"
      /\ attempts'[w] = attempts[w] + 1
      /\ dispatch'[w] = IF p = "redenlace" THEN "alias" ELSE "order"
  BY DEF SettledRight, WithdrawalDoc, Settled
<1>5. AliasesDiffer' /\ OrdersDiffer'
  BY DEF AliasesDiffer, OrdersDiffer
<1>6. \A o \in order : KnownBy(o)' /\ AnsweredStands(o)'
  BY <1>2, <1>3 DEF KnownBy, AnsweredStands, Order
<1>7. \A v \in Withdrawal : InProgress(v)' /\ SettledRight(v)' /\ ToldRight(v)'
  BY <1>2, <1>3, <1>4 DEF InProgress, SettledRight, ToldRight, Verdict
<1>8. OneBank'
  BY <1>3, <1>4 DEF OneBank, Sane, Order
<1> QED
  BY <1>1, <1>5, <1>6, <1>7, <1>8

LEMMA IssueInv ==
  ASSUME Sane, DInv, NEW w \in Withdrawal, issueReference(w)
  PROVE  DInv'
<1> USE DEF DInv, DisbursementTypeOK, issueReference, Steps, nextReference
<1>1. DisbursementTypeOK'
  <2>1. dispatch' \in [Withdrawal -> {"idle", "alias", "order", "persist"}]
    OBVIOUS
  <2>2. /\ counter' \in Nat
        /\ alias' \in [Withdrawal -> [reference : Nat, process : 0 .. MaxAttempts]]
    <3>1. counter + 1 \in Nat
      OBVIOUS
    <3>2. CASE alias' = [alias EXCEPT ![w].reference = counter + 1] /\ counter' = counter + 1
      BY <3>1, <3>2
    <3> QED
      BY <3>2
  <2> QED
    BY <2>1, <2>2
<1>2. /\ counter' \in Nat /\ counter <= counter'
      /\ alias'[w].reference # 0
      /\ alias[w].reference # 0 => alias'[w].reference = alias[w].reference
      /\ alias[w].reference = 0 => alias'[w].reference = counter + 1 /\ counter' = counter + 1
      /\ \A v \in Withdrawal : v # w => alias'[v] = alias[v] /\ dispatch'[v] = dispatch[v]
      /\ dispatch'[w] = "order"
  OBVIOUS
<1>3. AliasesDiffer'
  BY <1>2 DEF AliasesDiffer
<1>4. OrdersDiffer' /\ OneBank'
  BY DEF OrdersDiffer, OneBank
<1>5. \A o \in order : KnownBy(o)' /\ AnsweredStands(o)'
  BY <1>2 DEF KnownBy, AnsweredStands, Order
<1>6. \A v \in Withdrawal : InProgress(v)' /\ SettledRight(v)' /\ ToldRight(v)'
  BY <1>2 DEF InProgress, SettledRight, ToldRight, Verdict
<1> QED
  BY <1>1, <1>3, <1>4, <1>5, <1>6

(* The way back to pending: no order of the withdrawal was answered.       *)
LEMMA ThrowsInv ==
  ASSUME Sane, DInv, NEW w \in Withdrawal, dispatch[w] = "order", transferThrows(w)
  PROVE  /\ wdoc' \in [Withdrawal -> WithdrawalDoc]
         /\ dispatch' = [dispatch EXCEPT ![w] = "idle"]
         /\ \A v \in Withdrawal : /\ v # w => wdoc'[v] = wdoc[v]
                                  /\ wdoc'[v].via = wdoc[v].via
                                  /\ wdoc'[v].provider = wdoc[v].provider
                                  /\ wdoc'[v].status \in Settled <=> wdoc[v].status \in Settled
                                  /\ wdoc'[v].status = "completed" <=> wdoc[v].status = "completed"
         /\ \A o \in order : o.for = w => ~o.answered
<1>1. wdoc[w] \in WithdrawalDoc /\ DisbursementTypeOK
  BY DEF DInv, DisbursementTypeOK
<1> DEFINE back == [wdoc[w] EXCEPT !.status = IF @ = "dispatched" THEN "pending" ELSE @]
<1>2. back \in WithdrawalDoc
  BY ONLY <1>1 DEF WithdrawalDoc
<1>3. wdoc' = [wdoc EXCEPT ![w] = back] /\ dispatch' = [dispatch EXCEPT ![w] = "idle"]
  BY DEF transferThrows, Steps
<1>4. /\ wdoc' \in [Withdrawal -> WithdrawalDoc] /\ wdoc'[w] = back
      /\ \A v \in Withdrawal : v # w => wdoc'[v] = wdoc[v]
  <2> HIDE DEF back
  <2> QED
    BY <1>1, <1>2, <1>3, DocWritten
<1>5. /\ back.via = wdoc[w].via /\ back.provider = wdoc[w].provider
      /\ back.status \in Settled <=> wdoc[w].status \in Settled
      /\ back.status = "completed" <=> wdoc[w].status = "completed"
  BY <1>1 DEF WithdrawalDoc, Settled
<1>6. \A o \in order : o.for = w => ~o.answered
  BY DEF DInv, InProgress
<1> HIDE DEF back
<1> QED
  BY <1>3, <1>4, <1>5, <1>6

LEMMA RejectedInv ==
  ASSUME Sane, DInv, NEW w \in Withdrawal, orderRejected(w)
  PROVE  DInv'
<1> USE DEF DInv, orderRejected
<1>1. DisbursementTypeOK'
  BY ThrowsInv DEF DisbursementTypeOK
<1>2. AliasesDiffer' /\ OrdersDiffer'
  BY DEF AliasesDiffer, OrdersDiffer
<1>3. OneBank'
  BY SMTT(60), ThrowsInv DEF OneBank, DisbursementTypeOK, Order
<1>4. \A o \in order : KnownBy(o)' /\ AnsweredStands(o)'
  BY ThrowsInv DEF KnownBy, AnsweredStands, DisbursementTypeOK, Order
<1>5. \A v \in Withdrawal : InProgress(v)' /\ SettledRight(v)' /\ ToldRight(v)'
  BY SMTT(60), ThrowsInv DEF InProgress, SettledRight, ToldRight, Verdict, DisbursementTypeOK
<1> QED
  BY <1>1, <1>2, <1>3, <1>4, <1>5

(* A new order: the first of the withdrawal at its bank.                   *)
LEMMA AcceptsNew ==
  ASSUME Sane, DInv, NEW w \in Withdrawal, NEW b \in BOOLEAN, dispatch[w] = "order", Accepts(w, b)
  PROVE  \E new \in Order :
           /\ order' = order \cup {new}
           /\ new.for = w /\ new.bank = wdoc[w].provider /\ new.answered = b
           /\ new.state = "accepted" /\ KnownBy(new)
           /\ \A o \in order : ~(o.bank = new.bank /\ o.for = w)
<1> DEFINE p == wdoc[w].provider
<1> DEFINE new == [bank |-> p, ref |-> refAt(p, w), process |-> attempts[w], for |-> w,
                   answered |-> b, state |-> "accepted"]
<1>1. p \in Bank /\ attempts[w] \in 1 .. MaxAttempts
  BY DEF DInv, InProgress, DisbursementTypeOK, Sane
<1>2. p = "redenlace" => alias[w].reference \in Nat /\ alias[w].reference # 0
  BY DEF DInv, InProgress, DisbursementTypeOK
<1>3. new \in Order
  BY <1>1, <1>2 DEF Order, refAt
<1>4. KnownBy(new)
  BY <1>2 DEF KnownBy, refAt
<1>5. \A o \in order : ~(o.bank = p /\ o.for = w)
  BY DEF Accepts, OrdersOf, refAt, DInv, KnownBy
<1>6. order' = order \cup {new}
  BY DEF Accepts
<1> QED
  BY <1>3, <1>4, <1>5, <1>6

LEMMA LostInv ==
  ASSUME Sane, DInv, NEW w \in Withdrawal, orderAnswerLost(w)
  PROVE  DInv'
<1> USE DEF DInv
<1>1. PICK new \in Order :
        /\ order' = order \cup {new}
        /\ new.for = w /\ new.bank = wdoc[w].provider /\ new.answered = FALSE
        /\ new.state = "accepted" /\ KnownBy(new)
        /\ \A o \in order : ~(o.bank = new.bank /\ o.for = w)
  BY AcceptsNew DEF orderAnswerLost
<1>2. /\ dispatch[w] = "order" /\ transferThrows(w)
      /\ UNCHANGED <<alias, counter, attempts, asked>>
  BY DEF orderAnswerLost
<1>3. DisbursementTypeOK'
  BY SMTT(60), <1>1, <1>2, ThrowsInv DEF DisbursementTypeOK
<1>4. AliasesDiffer' /\ OrdersDiffer'
  BY <1>1, <1>2 DEF AliasesDiffer, OrdersDiffer
<1>5. OneBank'
  BY <1>1, <1>2, ThrowsInv DEF OneBank, DisbursementTypeOK, Order
<1>6. \A o \in order' : KnownBy(o)' /\ AnsweredStands(o)'
  BY <1>1, <1>2, ThrowsInv DEF KnownBy, AnsweredStands, DisbursementTypeOK, Order
<1>7. \A v \in Withdrawal : InProgress(v)' /\ SettledRight(v)' /\ ToldRight(v)'
  BY SMTT(60), <1>1, <1>2, ThrowsInv DEF InProgress, SettledRight, ToldRight, Verdict, DisbursementTypeOK
<1> QED
  BY <1>3, <1>4, <1>5, <1>6, <1>7

LEMMA TakenInv ==
  ASSUME Sane, DInv, NEW w \in Withdrawal, orderTaken(w)
  PROVE  DInv'
<1> USE DEF DInv
<1>1. PICK new \in Order :
        /\ order' = order \cup {new}
        /\ new.for = w /\ new.bank = wdoc[w].provider /\ new.answered = TRUE
        /\ new.state = "accepted" /\ KnownBy(new)
        /\ \A o \in order : ~(o.bank = new.bank /\ o.for = w)
  BY AcceptsNew DEF orderTaken
<1>2. /\ dispatch[w] = "order" /\ UNCHANGED <<wdoc, alias, counter, attempts, asked>>
      /\ \E s \in {"persist", "idle"} : dispatch' = [dispatch EXCEPT ![w] = s]
  BY DEF orderTaken, Steps
<1>3. DisbursementTypeOK'
  BY <1>1, <1>2 DEF DisbursementTypeOK
<1>4. AliasesDiffer' /\ OrdersDiffer'
  BY <1>1, <1>2 DEF AliasesDiffer, OrdersDiffer
<1>5. OneBank'
  BY <1>1, <1>2 DEF OneBank
<1>6. \A o \in order' : KnownBy(o)' /\ AnsweredStands(o)'
  BY <1>1, <1>2 DEF KnownBy, AnsweredStands, InProgress
<1>7. \A v \in Withdrawal : InProgress(v)' /\ SettledRight(v)' /\ ToldRight(v)'
  BY <1>1, <1>2 DEF InProgress, SettledRight, ToldRight, Verdict, DisbursementTypeOK
<1> QED
  BY <1>3, <1>4, <1>5, <1>6, <1>7

LEMMA PersistInv ==
  ASSUME Sane, DInv, NEW w \in Withdrawal, persistirDatosDelLote(w)
  PROVE  DInv'
<1> USE DEF DInv
<1>1. /\ dispatch' = [dispatch EXCEPT ![w] = "idle"]
      /\ UNCHANGED <<wdoc, counter, attempts, order, asked>>
      /\ alias' \in [Withdrawal -> [reference : Nat, process : 0 .. MaxAttempts]]
      /\ \A v \in Withdrawal : alias'[v].reference = alias[v].reference
  BY SMTT(60) DEF persistirDatosDelLote, Steps, DisbursementTypeOK
<1>2. DisbursementTypeOK'
  BY <1>1 DEF DisbursementTypeOK
<1>3. AliasesDiffer' /\ OrdersDiffer' /\ OneBank'
  BY <1>1 DEF AliasesDiffer, OrdersDiffer, OneBank
<1>4. \A o \in order : KnownBy(o)' /\ AnsweredStands(o)'
  BY <1>1 DEF KnownBy, AnsweredStands, DisbursementTypeOK, Order
<1>5. \A v \in Withdrawal : InProgress(v)' /\ SettledRight(v)' /\ ToldRight(v)'
  BY <1>1 DEF InProgress, SettledRight, ToldRight, Verdict, DisbursementTypeOK
<1> QED
  BY <1>1, <1>2, <1>3, <1>4, <1>5

LEMMA RestartInv ==
  ASSUME Sane, DInv, disbursementRestart
  PROVE  DInv'
<1> USE DEF DInv, disbursementRestart
<1>1. DisbursementTypeOK'
  BY DEF DisbursementTypeOK
<1>2. AliasesDiffer' /\ OrdersDiffer' /\ OneBank'
  BY DEF AliasesDiffer, OrdersDiffer, OneBank
<1>3. \A o \in order : KnownBy(o)' /\ AnsweredStands(o)'
  BY DEF KnownBy, AnsweredStands
<1>4. \A v \in Withdrawal : InProgress(v)' /\ SettledRight(v)' /\ ToldRight(v)'
  BY DEF InProgress, SettledRight, ToldRight, Verdict
<1> QED
  BY <1>1, <1>2, <1>3, <1>4

(* By hand: only what is pending, so no dispatch is in progress and no     *)
(* answered order exists.                                                  *)
LEMMA HandInv ==
  ASSUME Sane, DInv, NEW w \in Withdrawal, handConfirms(w) \/ handRejects(w)
  PROVE  DInv'
<1> USE DEF DInv
<1>1. PICK s \in Settled : wdoc' = [wdoc EXCEPT ![w].status = s, ![w].via = "hand"]
  BY DEF handConfirms, handRejects, Settled
<1>2. wdoc[w].status = "pending" /\ UNCHANGED <<alias, counter, attempts, dispatch, order, asked>>
  BY DEF handConfirms, handRejects
<1>3. DisbursementTypeOK'
  <2>1. wdoc[w] \in WithdrawalDoc
    BY DEF DisbursementTypeOK
  <2>2. [wdoc[w] EXCEPT !.status = s, !.via = "hand"] \in WithdrawalDoc
    BY ONLY <2>1, s \in Settled DEF WithdrawalDoc, Settled
  <2>3. wdoc' = [wdoc EXCEPT ![w] = [wdoc[w] EXCEPT !.status = s, !.via = "hand"]]
    BY <1>1
  <2>4. wdoc' \in [Withdrawal -> WithdrawalDoc]
    BY <2>2, <2>3, DocWritten
  <2> QED
    BY <1>2, <2>4 DEF DisbursementTypeOK
<1>4. /\ \A v \in Withdrawal : /\ v # w => wdoc'[v] = wdoc[v]
                               /\ wdoc'[v].provider = wdoc[v].provider
      /\ wdoc'[w].status \in Settled /\ wdoc'[w].via = "hand"
      /\ dispatch[w] = "idle" /\ \A o \in order : o.for = w => ~o.answered
  BY <1>1, <1>2 DEF DisbursementTypeOK, WithdrawalDoc, InProgress, AnsweredStands
<1>5. AliasesDiffer' /\ OrdersDiffer'
  BY <1>2 DEF AliasesDiffer, OrdersDiffer
<1>6. OneBank'
  BY <1>2, <1>4 DEF OneBank, DisbursementTypeOK, Order
<1>7. \A o \in order : KnownBy(o)' /\ AnsweredStands(o)'
  BY <1>2, <1>4 DEF KnownBy, AnsweredStands, DisbursementTypeOK, Order
<1>8. \A v \in Withdrawal : InProgress(v)' /\ SettledRight(v)' /\ ToldRight(v)'
  BY <1>2, <1>4 DEF InProgress, SettledRight, ToldRight, Verdict
<1> QED
  BY <1>2, <1>3, <1>5, <1>6, <1>7, <1>8

(* The bank's word about an order of the withdrawal.                       *)
LEMMA SettleInv ==
  ASSUME Sane, DInv, NEW w \in Withdrawal, NEW outcome \in {"accepted", "rejected"},
         outcome = "accepted" => Verdict(w, {"paid", "reverted"}),
         outcome = "rejected" => Verdict(w, {"refused"}),
         settle(w, outcome), asked' \in [Withdrawal -> {"nothing", "stuck", "paid", "refused"}],
         \A v \in Withdrawal : asked'[v] = asked[v] \/ asked'[v] = "nothing",
         UNCHANGED <<alias, counter, attempts, dispatch, order>>
  PROVE  DInv'
<1> USE DEF DInv
<1>1. /\ wdoc' \in [Withdrawal -> WithdrawalDoc]
      /\ \A v \in Withdrawal : /\ v # w => wdoc'[v] = wdoc[v]
                               /\ wdoc'[v].provider = wdoc[v].provider
                               /\ wdoc'[v].status = "pending" <=> wdoc[v].status = "pending"
                               /\ wdoc'[v].via = "hand" <=> wdoc[v].via = "hand"
      /\ \/ wdoc'[w] = wdoc[w]
         \/ /\ wdoc'[w].via = "bank"
            /\ wdoc'[w].status = IF outcome = "accepted" THEN "completed" ELSE "failed"
  <2> DEFINE e == wdoc[w]
             s == IF outcome = "accepted" THEN "completed" ELSE "failed"
             d == [e EXCEPT !.status = s, !.via = "bank"]
  <2>1. wdoc \in [Withdrawal -> WithdrawalDoc] /\ e \in WithdrawalDoc
    BY DEF DisbursementTypeOK
  <2>2. CASE e.status # "dispatched"
    <3>1. wdoc' = [wdoc EXCEPT ![w] = e]
      BY <2>2 DEF settle
    <3>2. wdoc' = wdoc
      BY <2>1, <3>1
    <3> QED
      BY <2>1, <3>2
  <2>3. CASE e.status = "dispatched"
    <3>1. wdoc' = [wdoc EXCEPT ![w] = d]
      BY <2>3 DEF settle
    <3>2. e.via = "none"
      BY <2>3 DEF SettledRight, Settled
    <3>3. d \in WithdrawalDoc /\ d.provider = e.provider /\ d.status = s /\ d.via = "bank"
      BY <2>1 DEF WithdrawalDoc
    <3>4. s \in {"completed", "failed"}
      OBVIOUS
    <3> HIDE DEF d, s
    <3>5. /\ wdoc' \in [Withdrawal -> WithdrawalDoc] /\ wdoc'[w] = d
          /\ \A v \in Withdrawal : v # w => wdoc'[v] = wdoc[v]
      BY <2>1, <3>1, <3>3
    <3>6. wdoc'[w].status = IF outcome = "accepted" THEN "completed" ELSE "failed"
      BY <3>3, <3>5 DEF s
    <3> QED
      BY <2>3, <3>2, <3>3, <3>4, <3>5, <3>6
  <2> QED
    BY <2>2, <2>3
<1>2. DisbursementTypeOK'
  BY <1>1 DEF DisbursementTypeOK
<1>3. AliasesDiffer' /\ OrdersDiffer'
  BY DEF AliasesDiffer, OrdersDiffer
<1>4. OneBank'
  BY <1>1 DEF OneBank, DisbursementTypeOK, Order
<1>5. \A o \in order : KnownBy(o)' /\ AnsweredStands(o)'
  BY <1>1 DEF KnownBy, AnsweredStands, DisbursementTypeOK, Order
<1>6. \A v \in Withdrawal : InProgress(v)' /\ ToldRight(v)'
  BY <1>1 DEF InProgress, ToldRight, Verdict
<1>7. \A v \in Withdrawal : SettledRight(v)'
  BY <1>1 DEF SettledRight, Verdict, Settled
<1> QED
  BY <1>2, <1>3, <1>4, <1>5, <1>6, <1>7

(* The webhook names the withdrawal the order is for.                      *)
LEMMA WebhookNames ==
  ASSUME DInv, NEW o \in order, NEW w \in normalizeNotify(o)
  PROVE  w = o.for /\ w \in Withdrawal
BY DEF DInv, normalizeNotify, KnownBy, AliasesDiffer, DisbursementTypeOK, Order

LEMMA WebhookInv ==
  ASSUME Sane, DInv, NEW o \in order, handleBankDisbursementIPN(o)
  PROVE  DInv'
<1>1. PICK w \in normalizeNotify(o) : settle(w, mapNotifyStatus(o.state))
  BY DEF handleBankDisbursementIPN
<1>2. w = o.for /\ w \in Withdrawal
  BY WebhookNames
<1>3. /\ mapNotifyStatus(o.state) \in {"accepted", "rejected"}
      /\ mapNotifyStatus(o.state) = "accepted" => Verdict(w, {"paid", "reverted"})
      /\ mapNotifyStatus(o.state) = "rejected" => Verdict(w, {"refused"})
  BY <1>2 DEF handleBankDisbursementIPN, mapNotifyStatus, Verdict
<1>4. /\ UNCHANGED <<alias, counter, attempts, dispatch, order, asked>>
      /\ asked \in [Withdrawal -> {"nothing", "stuck", "paid", "refused"}]
  BY DEF handleBankDisbursementIPN, DInv, DisbursementTypeOK
<1> HIDE DEF mapNotifyStatus
<1> QED
  BY <1>1, <1>2, <1>3, <1>4, SettleInv

(* What the job is told is about the withdrawal's own order.               *)
LEMMA AskInv ==
  ASSUME Sane, DInv, NEW w \in Withdrawal, intentarResolver(w)
  PROVE  DInv'
<1> USE DEF DInv
<1>1. PICK answer \in {"stuck", "paid", "refused"} :
        /\ Told(w, answer)
        /\ answer = "paid" => Verdict(w, {"paid", "reverted"})
        /\ answer = "refused" => Verdict(w, {"refused"})
  <2> DEFINE p == wdoc[w].provider
  <2> DEFINE known == {o \in OrdersOf(p, w) : o.process = alias[w].process}
  <2>1. CASE Told(w, "stuck")
    BY <2>1
  <2>2. CASE \E o \in known :
               /\ p \in getBatchStatus
               /\ o.state # "accepted"
               /\ Told(w, IF o.state = "reverted" THEN "stuck" ELSE o.state)
    <3>1. PICK o \in known :
            /\ p \in getBatchStatus
            /\ o.state # "accepted"
            /\ Told(w, IF o.state = "reverted" THEN "stuck" ELSE o.state)
      BY <2>2
    <3>2. o \in order /\ o.bank = "redenlace" /\ o.ref = alias[w].reference
      BY <3>1 DEF OrdersOf, getBatchStatus, refAt
    <3>3. o.for = w
      BY <3>2 DEF KnownBy, AliasesDiffer, DisbursementTypeOK, Order
    <3>4. o.state \in {"paid", "refused", "reverted"}
      BY <3>1, <3>2 DEF DisbursementTypeOK, Order
    <3> HIDE DEF known
    <3> QED
      BY <3>1, <3>2, <3>3, <3>4 DEF Verdict
  <2> QED
    BY <2>1, <2>2 DEF intentarResolver
<1>2. asked' = [asked EXCEPT ![w] = answer] /\ UNCHANGED <<wdoc, alias, counter, attempts, dispatch, order>>
  BY <1>1 DEF Told
<1>3. DisbursementTypeOK'
  BY <1>2 DEF DisbursementTypeOK
<1>4. AliasesDiffer' /\ OrdersDiffer' /\ OneBank'
  BY <1>2 DEF AliasesDiffer, OrdersDiffer, OneBank
<1>5. \A o \in order : KnownBy(o)' /\ AnsweredStands(o)'
  BY <1>2 DEF KnownBy, AnsweredStands
<1>6. \A v \in Withdrawal : InProgress(v)' /\ SettledRight(v)'
  BY <1>2 DEF InProgress, SettledRight, Verdict
<1>7. \A v \in Withdrawal : ToldRight(v)'
  BY <1>1, <1>2 DEF ToldRight, Verdict, DisbursementTypeOK
<1> QED
  BY <1>2, <1>3, <1>4, <1>5, <1>6, <1>7

LEMMA ResolveInv ==
  ASSUME Sane, DInv, NEW w \in Withdrawal, resolve(w)
  PROVE  DInv'
<1> USE DEF DInv
<1>1. /\ asked' = [asked EXCEPT ![w] = "nothing"]
      /\ UNCHANGED <<alias, counter, attempts, dispatch, order>>
      /\ asked' \in [Withdrawal -> {"nothing", "stuck", "paid", "refused"}]
      /\ \A v \in Withdrawal : asked'[v] = asked[v] \/ asked'[v] = "nothing"
  BY DEF resolve, DisbursementTypeOK
<1>2. CASE wdoc' = [wdoc EXCEPT ![w].alerted = TRUE]
  <2>1. /\ wdoc' \in [Withdrawal -> WithdrawalDoc]
        /\ \A v \in Withdrawal : /\ wdoc'[v].provider = wdoc[v].provider
                                 /\ wdoc'[v].status = wdoc[v].status
                                 /\ wdoc'[v].via = wdoc[v].via
    <3>1. wdoc[w] \in WithdrawalDoc
      BY DEF DisbursementTypeOK
    <3>2. [wdoc[w] EXCEPT !.alerted = TRUE] \in WithdrawalDoc
      BY ONLY <3>1 DEF WithdrawalDoc
    <3>3. wdoc' = [wdoc EXCEPT ![w] = [wdoc[w] EXCEPT !.alerted = TRUE]]
      BY <1>2
    <3>4. /\ wdoc' \in [Withdrawal -> WithdrawalDoc]
          /\ wdoc'[w] = [wdoc[w] EXCEPT !.alerted = TRUE]
          /\ \A v \in Withdrawal : v # w => wdoc'[v] = wdoc[v]
      BY <3>2, <3>3, DocWritten
    <3> QED
      BY ONLY <3>1, <3>4 DEF WithdrawalDoc
  <2>2. DisbursementTypeOK'
    BY <1>1, <2>1 DEF DisbursementTypeOK
  <2>3. AliasesDiffer' /\ OrdersDiffer'
    BY <1>1 DEF AliasesDiffer, OrdersDiffer
  <2>4. OneBank'
    BY <1>1, <2>1 DEF OneBank, DisbursementTypeOK, Order
  <2>5. \A o \in order : KnownBy(o)' /\ AnsweredStands(o)'
    BY <1>1, <2>1 DEF KnownBy, AnsweredStands, DisbursementTypeOK, Order
  <2>6. \A v \in Withdrawal : InProgress(v)' /\ SettledRight(v)' /\ ToldRight(v)'
    BY <1>1, <2>1 DEF InProgress, SettledRight, ToldRight, Verdict
  <2> QED
    BY <1>1, <2>2, <2>3, <2>4, <2>5, <2>6
<1>3. CASE asked[w] \notin {"nothing", "stuck"} /\ settle(w, mapNotifyStatus(asked[w]))
  <2>1. asked[w] \in {"paid", "refused"}
    BY <1>3 DEF DisbursementTypeOK
  <2>2. /\ mapNotifyStatus(asked[w]) \in {"accepted", "rejected"}
        /\ mapNotifyStatus(asked[w]) = "accepted" => Verdict(w, {"paid", "reverted"})
        /\ mapNotifyStatus(asked[w]) = "rejected" => Verdict(w, {"refused"})
    BY <2>1 DEF mapNotifyStatus, ToldRight
  <2> HIDE DEF mapNotifyStatus
  <2> QED
    BY <1>1, <1>3, <2>2, SettleInv
<1> QED
  BY <1>2, <1>3 DEF resolve

(* The bank decides, or returns what it has paid: the order stays the same *)
(* in everything but its state, and a refusal is final.                    *)
LEMMA BankInv ==
  ASSUME Sane, DInv, NEW o \in order, bankDecides(o) \/ bankReverts(o)
  PROVE  DInv'
<1> USE DEF DInv
<1>1. PICK s \in {"paid", "refused", "reverted"} :
        /\ Moves(o, s)
        /\ o.state = "accepted" \/ (o.state = "paid" /\ s = "reverted")
  BY DEF bankDecides, bankReverts
<1> DEFINE n == [o EXCEPT !.state = s]
<1>2. /\ n \in Order /\ n.for = o.for /\ n.bank = o.bank /\ n.ref = o.ref
      /\ n.answered = o.answered /\ n.state = s
  BY DEF DisbursementTypeOK, Order
<1>3. order' = (order \ {o}) \cup {n} /\ UNCHANGED <<wdoc, alias, counter, attempts, dispatch, asked>>
  BY <1>1 DEF Moves
<1> HIDE DEF n
<1>4. DisbursementTypeOK'
  BY <1>2, <1>3 DEF DisbursementTypeOK
<1>5. AliasesDiffer' /\ OrdersDiffer' /\ OneBank'
  BY <1>2, <1>3 DEF AliasesDiffer, OrdersDiffer, OneBank
<1>6. \A q \in order' : KnownBy(q)' /\ AnsweredStands(q)'
  BY <1>2, <1>3 DEF KnownBy, AnsweredStands
<1>7. \A v \in Withdrawal : /\ Verdict(v, {"paid", "reverted"}) => Verdict(v, {"paid", "reverted"})'
                            /\ Verdict(v, {"refused"}) => Verdict(v, {"refused"})'
  BY <1>1, <1>2, <1>3 DEF Verdict
<1>8. \A v \in Withdrawal : InProgress(v)' /\ SettledRight(v)' /\ ToldRight(v)'
  BY <1>2, <1>3, <1>7 DEF InProgress, SettledRight, ToldRight
<1> QED
  BY <1>4, <1>5, <1>6, <1>8

(* Every step keeps the invariant.                                         *)
LEMMA StepDInv ==
  ASSUME Sane, DInv, [DisbursementNext]_disbursementVars
  PROVE  DInv'
<1>1. CASE UNCHANGED disbursementVars
  BY <1>1 DEF disbursementVars, DInv, DisbursementTypeOK, AliasesDiffer, OrdersDiffer, KnownBy,
              AnsweredStands, InProgress, SettledRight, ToldRight, Verdict, OneBank
<1>2. ASSUME NEW w \in Withdrawal, NEW p \in Bank, claimWithdrawal(w, p)
      PROVE  DInv'
  BY <1>2, ClaimInv
<1>3. ASSUME NEW w \in Withdrawal, dispatchStep(w)
      PROVE  DInv'
  BY <1>3, IssueInv, RejectedInv, TakenInv, LostInv, PersistInv DEF dispatchStep
<1>4. ASSUME NEW w \in Withdrawal, handConfirms(w) \/ handRejects(w)
      PROVE  DInv'
  BY <1>4, HandInv
<1>5. ASSUME NEW w \in Withdrawal, intentarResolver(w) \/ resolve(w)
      PROVE  DInv'
  BY <1>5, AskInv, ResolveInv
<1>6. ASSUME NEW o \in order, bankDecides(o) \/ bankReverts(o) \/ handleBankDisbursementIPN(o)
      PROVE  DInv'
  BY <1>6, BankInv, WebhookInv
<1>7. CASE disbursementRestart
  BY <1>7, RestartInv
<1> QED
  BY <1>1, <1>2, <1>3, <1>4, <1>5, <1>6, <1>7 DEF DisbursementNext

(* The inductive invariant, for any withdrawals, banks, attempts and lost  *)
(* answers: what a withdrawal says is true of the orders its banks hold.   *)
THEOREM DisbursementInvariance ==
  ASSUME Sane
  PROVE  DisbursementSpec => []DInv
<1>1. DisbursementInit => DInv
  BY InitDInv
<1>2. DInv /\ [DisbursementNext]_disbursementVars => DInv'
  BY StepDInv
<1> QED
  BY <1>1, <1>2, PTL DEF DisbursementSpec

-----------------------------------------------------------------------------
(* What the invariant says to a user and to an accountant.                 *)

(* Withdrawals, the orders at the banks and the handlers' copies keep      *)
(* their types, and the attempts never pass MaxAttempts.                   *)
THEOREM DisbursementTyped ==
  ASSUME Sane
  PROVE  DisbursementSpec => []DisbursementTypeOK
<1>1. DInv => DisbursementTypeOK
  BY DEF DInv
<1> QED
  BY <1>1, DisbursementInvariance, PTL

LEMMA AtMostOne ==
  ASSUME NEW S, \A x, y \in S : x = y
  PROVE  IsFiniteSet(S) /\ Cardinality(S) = IF S = {} THEN 0 ELSE 1
<1>1. CASE S = {}
  BY <1>1, FS_EmptySet
<1>2. CASE S # {}
  <2>1. PICK x \in S : S = {x}
    BY <1>2
  <2> QED
    BY <1>2, <2>1, FS_Singleton
<1> QED
  BY <1>1, <1>2

(* However often a withdrawal is dispatched, a bank holds one order of it. *)
THEOREM OneOrderPerBank ==
  ASSUME Sane
  PROVE  DisbursementSpec => []OrderedOnce
<1>1. ASSUME DInv, NEW p \in Bank, NEW w \in Withdrawal
      PROVE  Cardinality({o \in order : o.bank = p /\ o.for = w}) <= 1
  <2> DEFINE S == {o \in order : o.bank = p /\ o.for = w}
  <2>1. \A x, y \in S : x = y
    BY <1>1 DEF DInv, OrdersDiffer
  <2> HIDE DEF S
  <2>2. Cardinality(S) = IF S = {} THEN 0 ELSE 1
    BY <2>1, AtMostOne
  <2>3. Cardinality(S) <= 1
    BY <2>2
  <2> QED
    BY <2>3 DEF S
<1>2. DInv => OrderedOnce
  BY <1>1 DEF OrderedOnce
<1> QED
  BY <1>2, DisbursementInvariance, PTL

(* A withdrawal completed by the bank's word is one the bank has paid.     *)
THEOREM BankWordIsPayment ==
  ASSUME Sane
  PROVE  DisbursementSpec => []CompletedIsPaid
<1>1. DInv => CompletedIsPaid
  BY DEF DInv, SettledRight, Verdict, CompletedIsPaid
<1> QED
  BY <1>1, DisbursementInvariance, PTL

-----------------------------------------------------------------------------
(* A withdrawal keeps its bank: the hypothesis the next results need,      *)
(* since a second dispatch to another bank can pay a second time.          *)

(* One order for each withdrawal.                                          *)
LEMMA OneOrder ==
  ASSUME DInv, Switch = FALSE, NEW o1 \in order, NEW o2 \in order, o1.for = o2.for
  PROVE  o1 = o2
BY DEF DInv, OneBank, OrdersDiffer

(* What the bank paid after answering is not given back to the user.       *)
THEOREM PaidIsKept ==
  ASSUME Sane, Switch = FALSE
  PROVE  DisbursementSpec => []PaidNotReturned
<1>1. ASSUME DInv, NEW o \in order, o.answered, o.state = "paid"
      PROVE  wdoc[o.for].status \notin {"failed", "pending"}
  <2>1. o.for \in Withdrawal
    BY <1>1 DEF DInv, DisbursementTypeOK, Order
  <2>2. wdoc[o.for].status # "pending" /\ wdoc[o.for].via # "hand"
    BY <1>1 DEF DInv, AnsweredStands
  <2>3. ~Verdict(o.for, {"refused"})
    BY <1>1, OneOrder DEF Verdict
  <2>4. wdoc[o.for] \in WithdrawalDoc
    BY <1>1, <2>1 DEF DInv, DisbursementTypeOK
  <2>5. wdoc[o.for].status # "failed"
    <3> SUFFICES ASSUME wdoc[o.for].status = "failed" PROVE FALSE
      OBVIOUS
    <3>1. wdoc[o.for].via = "bank"
      BY <1>1, <2>1, <2>2, <2>4 DEF DInv, SettledRight, Settled, WithdrawalDoc
    <3> QED
      BY <1>1, <2>1, <2>3, <3>1 DEF DInv, SettledRight
  <2> QED
    BY <2>2, <2>5
<1>2. DInv => PaidNotReturned
  BY <1>1 DEF PaidNotReturned
<1> QED
  BY <1>2, DisbursementInvariance, PTL

-----------------------------------------------------------------------------
(* The refinement: what the user and the bank see of a step.               *)

Phase == [w \in Withdrawal |-> wdoc[w].status]
PaidOrders(w) == {o \in order : o.for = w /\ o.state \in {"paid", "reverted"}}
Paid == [w \in Withdrawal |-> Cardinality(PaidOrders(w))]
IsPaid(w) == Verdict(w, {"paid", "reverted"})

LEMMA PaidCounts ==
  ASSUME DInv, Switch = FALSE, NEW w \in Withdrawal
  PROVE  Paid[w] = IF IsPaid(w) THEN 1 ELSE 0
<1>1. \A x, y \in PaidOrders(w) : x = y
  BY OneOrder DEF PaidOrders
<1>2. Cardinality(PaidOrders(w)) = IF PaidOrders(w) = {} THEN 0 ELSE 1
  BY <1>1, AtMostOne
<1>3. PaidOrders(w) = {} <=> ~IsPaid(w)
  BY DEF PaidOrders, IsPaid, Verdict
<1> QED
  BY <1>2, <1>3 DEF Paid

PaidOnce == \A w \in Withdrawal : Paid[w] = IF IsPaid(w) THEN 1 ELSE 0
LEMMA PaidOnceHolds == Switch = FALSE /\ DInv => PaidOnce
BY PaidCounts DEF PaidOnce

LEMMA PaidOnceAfter ==
  ASSUME Switch = FALSE, DInv'
  PROVE  PaidOnce'
BY PaidOnceHolds, PTL

(* The same orders are paid after a step as before.                        *)
LEMMA PaidStays ==
  ASSUME DInv, DInv', Switch = FALSE, \A w \in Withdrawal : IsPaid(w)' = IsPaid(w)
  PROVE  Paid' = Paid
<1>1. PaidOnce /\ PaidOnce'
  BY PaidOnceHolds, PaidOnceAfter
<1>2. \A w \in Withdrawal : Paid'[w] = Paid[w]
  BY <1>1 DEF PaidOnce
<1> QED
  BY <1>2 DEF Paid

(* The steps of the promise, in the withdrawals' own terms.                *)
Turned(w, from, to) ==
  Phase[w] = from /\ Phase' = [Phase EXCEPT ![w] = to] /\ Paid' = Paid
PromisedStep ==
  \/ Phase' = Phase /\ Paid' = Paid
  \/ \E w \in Withdrawal :
       \/ Turned(w, "pending", "dispatched")
       \/ Turned(w, "dispatched", "pending")
       \/ Paid[w] = 0 /\ Paid' = [Paid EXCEPT ![w] = 1] /\ Phase' = Phase
       \/ Paid[w] = 1 /\ Turned(w, "dispatched", "completed")
       \/ Paid[w] = 0 /\ Turned(w, "dispatched", "failed")
       \/ \E to \in {"completed", "failed"} : Turned(w, "pending", to)

LEMMA PhaseTurns ==
  ASSUME DInv, DInv', NEW w \in Withdrawal, NEW to,
         wdoc'[w].status = to, \A v \in Withdrawal : v # w => wdoc'[v].status = wdoc[v].status
  PROVE  Phase' = [Phase EXCEPT ![w] = to]
BY DEF Phase

LEMMA SameOrders ==
  ASSUME DInv, DInv', Switch = FALSE, order' = order
  PROVE  Paid' = Paid
BY PaidStays DEF IsPaid, Verdict

LEMMA ClaimPromised ==
  ASSUME DInv, DInv', Switch = FALSE, NEW w \in Withdrawal, NEW p \in Bank, claimWithdrawal(w, p)
  PROVE  PromisedStep
<1>1. Paid' = Paid
  BY SameOrders DEF claimWithdrawal
<1>2. /\ wdoc'[w].status = "dispatched" /\ wdoc[w].status = "pending"
      /\ \A v \in Withdrawal : v # w => wdoc'[v].status = wdoc[v].status
  BY DEF claimWithdrawal, DInv, DisbursementTypeOK, WithdrawalDoc
<1>3. Phase[w] = "pending" /\ Phase' = [Phase EXCEPT ![w] = "dispatched"]
  BY <1>2, PhaseTurns DEF Phase
<1> QED
  BY <1>1, <1>3 DEF PromisedStep, Turned

(* transfer() throws: back to pending, unless it was settled meanwhile.    *)
LEMMA ThrowPromised ==
  ASSUME DInv, DInv', NEW w \in Withdrawal, transferThrows(w), Paid' = Paid
  PROVE  PromisedStep
<1>1. CASE wdoc[w].status = "dispatched"
  <2>1. Phase[w] = "dispatched" /\ Phase' = [Phase EXCEPT ![w] = "pending"]
    BY <1>1 DEF transferThrows, Phase, DInv, DisbursementTypeOK, WithdrawalDoc
  <2> QED
    BY <2>1 DEF PromisedStep, Turned
<1>2. CASE wdoc[w].status # "dispatched"
  <2>1. Phase' = Phase
    BY <1>2 DEF transferThrows, Phase, DInv, DisbursementTypeOK, WithdrawalDoc
  <2> QED
    BY <2>1 DEF PromisedStep
<1> QED
  BY <1>1, <1>2

(* An order the bank takes is not paid yet.                                *)
LEMMA AcceptedIsUnpaid ==
  ASSUME Sane, DInv, DInv', Switch = FALSE, NEW w \in Withdrawal, NEW b \in BOOLEAN,
         dispatch[w] = "order", Accepts(w, b)
  PROVE  Paid' = Paid
<1>1. PICK new \in Order : order' = order \cup {new} /\ new.state = "accepted"
  BY AcceptsNew
<1>2. \A v \in Withdrawal : IsPaid(v)' = IsPaid(v)
  BY <1>1 DEF IsPaid, Verdict
<1> QED
  BY <1>2, PaidStays

LEMMA DispatchPromised ==
  ASSUME Sane, DInv, DInv', Switch = FALSE, NEW w \in Withdrawal, dispatchStep(w)
  PROVE  PromisedStep
<1>1. CASE issueReference(w) \/ persistirDatosDelLote(w)
  <2>1. wdoc' = wdoc /\ order' = order
    BY <1>1 DEF issueReference, persistirDatosDelLote
  <2> QED
    BY <2>1, SameOrders DEF PromisedStep, Phase
<1>2. CASE orderRejected(w)
  BY <1>2, SameOrders, ThrowPromised DEF orderRejected
<1>3. CASE orderAnswerLost(w)
  BY <1>3, AcceptedIsUnpaid, ThrowPromised DEF orderAnswerLost
<1>4. CASE orderTaken(w)
  <2>1. Paid' = Paid
    BY <1>4, AcceptedIsUnpaid DEF orderTaken
  <2>2. Phase' = Phase
    BY <1>4 DEF orderTaken, Phase
  <2> QED
    BY <2>1, <2>2 DEF PromisedStep
<1> QED
  BY <1>1, <1>2, <1>3, <1>4 DEF dispatchStep

LEMMA HandPromised ==
  ASSUME DInv, DInv', Switch = FALSE, NEW w \in Withdrawal, handConfirms(w) \/ handRejects(w)
  PROVE  PromisedStep
<1>1. PICK s \in {"completed", "failed"} :
        wdoc[w].status = "pending" /\ wdoc' = [wdoc EXCEPT ![w].status = s, ![w].via = "hand"]
  BY DEF handConfirms, handRejects
<1>2. /\ wdoc'[w].status = s
      /\ \A v \in Withdrawal : v # w => wdoc'[v].status = wdoc[v].status
  BY <1>1 DEF DInv, DisbursementTypeOK, WithdrawalDoc
<1>3. Phase[w] = "pending" /\ Phase' = [Phase EXCEPT ![w] = s]
  BY <1>1, <1>2, PhaseTurns DEF Phase
<1>4. Paid' = Paid
  BY SameOrders DEF handConfirms, handRejects
<1> QED
  BY <1>3, <1>4 DEF PromisedStep, Turned

(* The bank's word: what was paid completes, what was refused fails.       *)
LEMMA SettlePromised ==
  ASSUME DInv, DInv', Switch = FALSE, NEW w \in Withdrawal, NEW outcome \in {"accepted", "rejected"},
         outcome = "accepted" => IsPaid(w), outcome = "rejected" => Verdict(w, {"refused"}),
         settle(w, outcome), order' = order
  PROVE  PromisedStep
<1>1. Paid' = Paid
  BY SameOrders
<1>2. CASE wdoc[w].status # "dispatched"
  <2>1. Phase' = Phase
    BY <1>2 DEF settle, Phase, DInv, DisbursementTypeOK
  <2> QED
    BY <1>1, <2>1 DEF PromisedStep
<1>3. CASE wdoc[w].status = "dispatched"
  <2> DEFINE s == IF outcome = "accepted" THEN "completed" ELSE "failed"
  <2>1. wdoc[w] \in WithdrawalDoc /\ wdoc \in [Withdrawal -> WithdrawalDoc]
    BY DEF DInv, DisbursementTypeOK
  <2>2. wdoc' = [wdoc EXCEPT ![w] = [wdoc[w] EXCEPT !.status = s, !.via = "bank"]]
    BY <1>3 DEF settle
  <2>3. /\ wdoc'[w].status = s
        /\ \A v \in Withdrawal : v # w => wdoc'[v].status = wdoc[v].status
    BY <2>1, <2>2 DEF WithdrawalDoc
  <2> HIDE DEF s
  <2>4. Phase[w] = "dispatched" /\ Phase' = [Phase EXCEPT ![w] = s]
    BY <1>3, <2>3, PhaseTurns DEF Phase
  <2>5. CASE outcome = "accepted"
    <3>1. Paid[w] = 1
      BY <2>5, PaidCounts
    <3> QED
      BY <1>1, <2>4, <2>5, <3>1 DEF PromisedStep, Turned, s
  <2>6. CASE outcome = "rejected"
    <3>1. ~IsPaid(w)
      BY <2>6, OneOrder DEF IsPaid, Verdict
    <3>2. Paid[w] = 0
      BY <3>1, PaidCounts
    <3> QED
      BY <1>1, <2>4, <2>6, <3>2 DEF PromisedStep, Turned, s
  <2> QED
    BY <2>5, <2>6
<1> QED
  BY <1>2, <1>3

LEMMA WebhookPromised ==
  ASSUME DInv, DInv', Switch = FALSE, NEW o \in order, handleBankDisbursementIPN(o)
  PROVE  PromisedStep
<1>1. PICK w \in normalizeNotify(o) : settle(w, mapNotifyStatus(o.state))
  BY DEF handleBankDisbursementIPN
<1>2. w = o.for /\ w \in Withdrawal
  BY WebhookNames
<1>3. /\ mapNotifyStatus(o.state) \in {"accepted", "rejected"}
      /\ mapNotifyStatus(o.state) = "accepted" => IsPaid(w)
      /\ mapNotifyStatus(o.state) = "rejected" => Verdict(w, {"refused"})
      /\ order' = order
  BY <1>2 DEF handleBankDisbursementIPN, mapNotifyStatus, IsPaid, Verdict
<1> HIDE DEF mapNotifyStatus
<1> QED
  BY <1>1, <1>2, <1>3, SettlePromised

LEMMA ResolvePromised ==
  ASSUME DInv, DInv', Switch = FALSE, NEW w \in Withdrawal, resolve(w)
  PROVE  PromisedStep
<1>1. order' = order
  BY DEF resolve
<1>2. CASE wdoc' = [wdoc EXCEPT ![w].alerted = TRUE]
  <2>1. \A v \in Withdrawal : wdoc'[v].status = wdoc[v].status
    BY <1>2 DEF DInv, DisbursementTypeOK, WithdrawalDoc
  <2>2. Phase' = Phase
    BY <2>1 DEF Phase
  <2> QED
    BY <1>1, <2>2, SameOrders DEF PromisedStep
<1>3. CASE asked[w] \notin {"nothing", "stuck"} /\ settle(w, mapNotifyStatus(asked[w]))
  <2>1. asked[w] \in {"paid", "refused"}
    BY <1>3 DEF DInv, DisbursementTypeOK
  <2>2. /\ mapNotifyStatus(asked[w]) \in {"accepted", "rejected"}
        /\ mapNotifyStatus(asked[w]) = "accepted" => IsPaid(w)
        /\ mapNotifyStatus(asked[w]) = "rejected" => Verdict(w, {"refused"})
    BY <2>1 DEF mapNotifyStatus, DInv, ToldRight, IsPaid
  <2> HIDE DEF mapNotifyStatus
  <2> QED
    BY <1>1, <1>3, <2>2, SettlePromised
<1> QED
  BY <1>2, <1>3 DEF resolve

(* The bank pays the one order of a withdrawal, and once.                  *)
LEMMA BankPromised ==
  ASSUME DInv, DInv', Switch = FALSE, NEW o \in order, bankDecides(o) \/ bankReverts(o)
  PROVE  PromisedStep
<1>1. PICK s \in {"paid", "refused", "reverted"} :
        /\ Moves(o, s)
        /\ \/ o.state = "accepted" /\ s \in {"paid", "refused"}
           \/ o.state = "paid" /\ s = "reverted"
  BY DEF bankDecides, bankReverts
<1> DEFINE n == [o EXCEPT !.state = s]
<1>2. n.for = o.for /\ n.state = s /\ o.for \in Withdrawal
  BY DEF DInv, DisbursementTypeOK, Order
<1>3. order' = (order \ {o}) \cup {n} /\ wdoc' = wdoc
  BY <1>1 DEF Moves
<1> HIDE DEF n
<1>4. Phase' = Phase
  BY <1>3 DEF Phase
<1>5. \A v \in Withdrawal : v # o.for => IsPaid(v)' = IsPaid(v)
  BY <1>2, <1>3 DEF IsPaid, Verdict
<1>6. CASE s = "paid"
  <2>1. ~IsPaid(o.for) /\ IsPaid(o.for)'
    BY <1>1, <1>2, <1>3, <1>6, OneOrder DEF IsPaid, Verdict
  <2>2. Paid[o.for] = 0
    BY <1>2, <2>1, PaidCounts
  <2>3. PaidOnce /\ PaidOnce'
    BY PaidOnceHolds, PaidOnceAfter
  <2>4. \A v \in Withdrawal : Paid'[v] = IF v = o.for THEN 1 ELSE Paid[v]
    BY <1>5, <2>1, <2>3 DEF PaidOnce
  <2>5. Paid' = [Paid EXCEPT ![o.for] = 1]
    BY <2>4 DEF Paid
  <2> QED
    BY <1>2, <1>4, <2>2, <2>5 DEF PromisedStep
<1>7. CASE s # "paid"
  <2>1. IsPaid(o.for)' = IsPaid(o.for)
    BY <1>1, <1>2, <1>3, <1>7, OneOrder DEF IsPaid, Verdict
  <2> QED
    BY <1>4, <1>5, <2>1, PaidStays DEF PromisedStep
<1> QED
  BY <1>6, <1>7

LEMMA EveryStepPromised ==
  ASSUME Sane, DInv, DInv', Switch = FALSE, [DisbursementNext]_disbursementVars
  PROVE  PromisedStep
<1>1. CASE UNCHANGED disbursementVars
  BY <1>1, SameOrders DEF disbursementVars, PromisedStep, Phase
<1>2. ASSUME NEW w \in Withdrawal, NEW p \in Bank, claimWithdrawal(w, p)
      PROVE  PromisedStep
  BY <1>2, ClaimPromised
<1>3. ASSUME NEW w \in Withdrawal, dispatchStep(w)
      PROVE  PromisedStep
  BY <1>3, DispatchPromised
<1>4. ASSUME NEW w \in Withdrawal, handConfirms(w) \/ handRejects(w)
      PROVE  PromisedStep
  BY <1>4, HandPromised
<1>5. ASSUME NEW w \in Withdrawal, intentarResolver(w)
      PROVE  PromisedStep
  <2>1. wdoc' = wdoc /\ order' = order
    BY <1>5 DEF intentarResolver, Told
  <2> QED
    BY <2>1, SameOrders DEF PromisedStep, Phase
<1>6. ASSUME NEW w \in Withdrawal, resolve(w)
      PROVE  PromisedStep
  BY <1>6, ResolvePromised
<1>7. ASSUME NEW o \in order, bankDecides(o) \/ bankReverts(o)
      PROVE  PromisedStep
  BY <1>7, BankPromised
<1>8. ASSUME NEW o \in order, handleBankDisbursementIPN(o)
      PROVE  PromisedStep
  BY <1>8, WebhookPromised
<1>9. CASE disbursementRestart
  BY <1>9, SameOrders DEF disbursementRestart, PromisedStep, Phase
<1> QED
  BY <1>1, <1>2, <1>3, <1>4, <1>5, <1>6, <1>7, <1>8, <1>9 DEF DisbursementNext

(* The dispatch, the bank, its webhook and the job together keep the       *)
(* promise: the bank pays once, its word settles, settled stays settled.   *)
THEOREM PromiseIsKept ==
  ASSUME Sane, Switch = FALSE
  PROVE  DisbursementSpec => PromiseKept
<1>1. DisbursementInit => Promise!PromiseInit
  <2>1. DisbursementInit => \A w \in Withdrawal : PaidOrders(w) = {}
    BY DEF DisbursementInit, PaidOrders
  <2>2. DisbursementInit => Phase = [w \in Withdrawal |-> "pending"]
    BY DEF DisbursementInit, Phase
  <2>3. DisbursementInit => Paid = [w \in Withdrawal |-> 0]
    BY <2>1, FS_EmptySet DEF Paid
  <2> QED
    BY <2>2, <2>3 DEF Promise!PromiseInit, Phase, Paid, PaidOrders
<1>2. DInv /\ DInv' /\ [DisbursementNext]_disbursementVars
        => [Promise!PromiseNext]_(Promise!promiseVars)
  <2> SUFFICES ASSUME DInv, DInv', [DisbursementNext]_disbursementVars
               PROVE  [Promise!PromiseNext]_(Promise!promiseVars)
    OBVIOUS
  <2>1. PromisedStep
    BY EveryStepPromised
  <2> QED
    BY <2>1 DEF PromisedStep, Turned, Phase, Paid, PaidOrders, Promise!PromiseNext,
                Promise!promiseVars, Promise!Dispatch, Promise!GiveBack, Promise!Pay,
                Promise!Complete, Promise!Fail, Promise!Decide, Promise!Turns
<1> QED
  BY <1>1, <1>2, DisbursementInvariance, PTL DEF DisbursementSpec, PromiseKept, Promise!PromiseSpec
=============================================================================
