---------------------------- MODULE WalletsProof -----------------------------
(***************************************************************************)
(* The nightly audit of the wallet reserves (auditWalletReserves) can      *)
(* never find a difference: for any users, documents, requests, amounts    *)
(* and limits, balanceReserved is the sum of the operations that hold it.  *)
(***************************************************************************)
EXTENDS Wallets, FiniteSetTheorems, TLAPS

-----------------------------------------------------------------------------
(* Sums.                                                                   *)

Units(f) == {p \in Tx \X Amount : p[2] <= f[p[1]]}

(* Total counts a finite set of units.                                     *)
LEMMA UnitsFinite ==
  ASSUME NEW f
  PROVE  IsFiniteSet(Units(f))
<1>1. IsFiniteSet(Amount)
  BY BoundAssumption, FS_Interval DEF Amount
<1>2. IsFiniteSet(Tx \X Amount)
  BY <1>1, TxAssumption, FS_Product
<1>3. Units(f) \subseteq Tx \X Amount
  BY DEF Units
<1> QED
  BY <1>2, <1>3, FS_Subset

(* One document contributes as many units as its amount.                   *)
LEMMA UnitsOfOne ==
  ASSUME NEW x, NEW n \in 0 .. MaxAmount
  PROVE  /\ IsFiniteSet({x} \X (1 .. n))
         /\ Cardinality({x} \X (1 .. n)) = n
<1>1. IsFiniteSet(1 .. n) /\ Cardinality(1 .. n) = n
  BY BoundAssumption, FS_Interval
<1>2. IsFiniteSet({x}) /\ Cardinality({x}) = 1
  BY FS_Singleton
<1> QED
  BY SMTT(60), <1>1, <1>2, FS_Product, BoundAssumption

(* Changing what one document contributes changes the total by as much.    *)
LEMMA TotalUpdate ==
  ASSUME NEW f \in [Tx -> 0 .. MaxAmount], NEW g \in [Tx -> 0 .. MaxAmount],
         NEW x \in Tx, \A y \in Tx \ {x} : g[y] = f[y]
  PROVE  Total(g) = Total(f) + g[x] - f[x]
<1> DEFINE Rest == {p \in Units(f) : p[1] # x}
<1> DEFINE Of(n) == {x} \X (1 .. n)
<1>1. IsFiniteSet(Rest)
  BY UnitsFinite, FS_Subset
<1>2. Units(f) = Rest \cup Of(f[x]) /\ Units(g) = Rest \cup Of(g[x])
  <2>1. f[x] \in 0 .. MaxAmount /\ g[x] \in 0 .. MaxAmount
    OBVIOUS
  <2>2. Units(f) = Rest \cup Of(f[x])
    BY <2>1, BoundAssumption DEF Units, Amount
  <2>3. Units(g) = Rest \cup Of(g[x])
    BY <2>1, BoundAssumption DEF Units, Amount
  <2> QED
    BY <2>2, <2>3
<1>3. \A n : Rest \cap Of(n) = {}
  OBVIOUS
<1>4. ASSUME NEW n \in 0 .. MaxAmount
      PROVE  Cardinality(Rest \cup Of(n)) = Cardinality(Rest) + n
  <2>1. IsFiniteSet(Of(n)) /\ Cardinality(Of(n)) = n
    BY UnitsOfOne
  <2>2. Cardinality(Rest \cup Of(n)) =
          Cardinality(Rest) + Cardinality(Of(n)) - Cardinality(Rest \cap Of(n))
    BY <1>1, <2>1, FS_Union
  <2>3. Cardinality(Rest \cap Of(n)) = 0
    BY <1>3, FS_EmptySet
  <2>4. Cardinality(Rest) \in Nat
    BY <1>1, FS_CardinalityType
  <2> HIDE DEF Rest, Of
  <2> QED
    BY <2>1, <2>2, <2>3, <2>4, BoundAssumption
<1>5. Cardinality(Rest) \in Nat
  BY <1>1, FS_CardinalityType
<1>6. Cardinality(Units(f)) = Cardinality(Rest) + f[x]
  BY <1>2, <1>4
<1>7. Cardinality(Units(g)) = Cardinality(Rest) + g[x]
  BY <1>2, <1>4
<1> QED
  BY <1>5, <1>6, <1>7, BoundAssumption DEF Total, Units

-----------------------------------------------------------------------------
(* Sessions.                                                               *)

HeldIn(k) == [x \in Tx |-> Held(wtx[x], k)]

(* What a document holds is at most the largest amount.                    *)
LEMMA HeldBounded ==
  ASSUME NEW doc, HoldOK(doc), NEW k
  PROVE  Held(doc, k) \in 0 .. MaxAmount
BY BoundAssumption DEF Held, HoldOK, Amount

(* The reserves match in the initial state, where nothing is held.         *)
LEMMA InitInv == StoreInit => IInv
<1> SUFFICES ASSUME StoreInit PROVE IInv
  OBVIOUS
<1> USE DEF StoreInit
<1>1. wallet \in [Wallet -> WalletDoc]
  BY DEF EmptyWallet, WalletDoc
<1>2. wtx \in [Tx -> TxDoc] /\ \A x \in Tx : ~HoldsReserve(wtx[x])
  BY DEF Unused, TxDoc, TxType, TxStatus, Wallet, Method, HoldsReserve
<1>3. HoldsOK(wtx)
  BY <1>2 DEF HoldsOK, HoldOK
<1>4. ReservesMatch
  <2> SUFFICES ASSUME NEW k \in Wallet
               PROVE  wallet[k].balanceReserved = Total(HeldIn(k))
    BY DEF ReservesMatch, HeldIn
  <2>1. HeldIn(k) = [x \in Tx |-> 0]
    BY <1>2 DEF HeldIn, Held
  <2>2. {p \in Tx \X Amount : p[2] <= HeldIn(k)[p[1]]} = {}
    BY <2>1, BoundAssumption DEF Amount
  <2>3. Total(HeldIn(k)) = 0
    BY <2>2, FS_EmptySet DEF Total
  <2> QED
    BY <2>3 DEF EmptyWallet
<1>5. Sessions /\ \A r \in Req : Sound(r)
  BY DEF Sessions, Sound
<1>6. calls \subseteq Tx /\ today \in 0 .. MaxDay
  BY BoundAssumption
<1> QED
  BY <1>1, <1>2, <1>3, <1>4, <1>5, <1>6 DEF IInv

(* A session that writes none of the documents that changed is as sound as *)
(* before: dropping the others is enough.                                  *)
LEMMA Survivors ==
  ASSUME IInv, NEW w, NEW t,
         \A k \in Wallet \ w : wallet'[k] = wallet[k],
         \A x \in Tx \ t : wtx'[x] = wtx[x],
         session' = Surviving(w, t)
  PROVE  Sessions' /\ (\A r \in Req : Sound(r))'
<1>1. Sessions'
  BY DEF Sessions, Surviving
<1>2. ASSUME NEW r \in Req
      PROVE  Sound(r)'
  <2>1. CASE Clashes(session[r], w, t)
    BY <2>1 DEF Surviving, Sound
  <2>2. CASE ~Clashes(session[r], w, t)
    <3>1. session'[r] = session[r]
      BY <2>2 DEF Surviving
    <3>2. CASE session[r] = Idle
      BY <3>1, <3>2 DEF Sound
    <3>3. CASE session[r] # Idle
      <4> DEFINE sw == session[r].w
      <4> DEFINE st == session[r].t
      <4>1. Good(sw, st)
        BY <3>3 DEF IInv, Sound
      <4>2. DOMAIN sw \subseteq Wallet /\ DOMAIN st \subseteq Tx
        BY <4>1 DEF Good, Formed
      <4>3. \A k \in DOMAIN sw : wallet'[k] = wallet[k]
        BY <2>2, <4>2 DEF Clashes
      <4>4. \A x \in DOMAIN st : wtx'[x] = wtx[x]
        BY <2>2, <4>2 DEF Clashes
      <4>5. PICK x \in Tx : SoundBy(x, sw, st)
        BY <4>1 DEF Good
      <4>6. SoundBy(x, sw, st)'
        BY <3>1, <4>3, <4>4, <4>5 DEF SoundBy, Grows
      <4>7. Formed(sw, st)' /\ HoldsOK(st)'
        BY <3>1, <4>1 DEF Good, Formed, HoldsOK
      <4> QED
        BY <4>6, <4>7 DEF Sound, Good
    <3> QED
      BY <3>2, <3>3
  <2> QED
    BY <2>1, <2>2
<1> QED
  BY <1>1, <1>2

(* The step of a commit: sound writes keep every reserve matched.          *)
LEMMA CommitInv ==
  ASSUME IInv, NEW r \in Req, Commit(r)
  PROVE  IInv'
<1> DEFINE w == session[r].w
<1> DEFINE t == session[r].t
<1>1. Good(w, t)
  BY DEF IInv, Commit, Sound
<1>2. wallet' = w (+) wallet /\ wtx' = t (+) wtx
  BY DEF Commit
<1>3. wallet \in [Wallet -> WalletDoc] /\ wtx \in [Tx -> TxDoc]
  BY DEF IInv
<1> HIDE DEF w, t
<1>4. wallet' \in [Wallet -> WalletDoc] /\ wtx' \in [Tx -> TxDoc]
  BY <1>1, <1>2, <1>3 DEF Good, Formed, (+)
<1>5. /\ \A k \in Wallet \ DOMAIN w : wallet'[k] = wallet[k]
      /\ \A k \in DOMAIN w : wallet'[k] = w[k]
      /\ \A x \in Tx \ DOMAIN t : wtx'[x] = wtx[x]
      /\ \A x \in DOMAIN t : wtx'[x] = t[x]
  BY <1>1, <1>2, <1>3 DEF Good, Formed, (+)
<1>6. HoldsOK(wtx)'
  BY <1>1, <1>3, <1>4, <1>5 DEF Good, HoldsOK, IInv
<1>7. ReservesMatch'
  <2> SUFFICES ASSUME NEW k \in Wallet
               PROVE  wallet'[k].balanceReserved = Total(HeldIn(k)')
    BY DEF ReservesMatch, HeldIn
  <2>1. PICK x \in Tx : SoundBy(x, w, t)
    BY <1>1 DEF Good
  <2>2. HeldIn(k) \in [Tx -> 0 .. MaxAmount]
    BY <1>3, HeldBounded DEF HeldIn, IInv, HoldsOK
  <2>3. HeldIn(k)' \in [Tx -> 0 .. MaxAmount]
    BY <1>4, <1>6, HeldBounded DEF HeldIn, HoldsOK
  <2>4. \A y \in Tx \ {x} : HeldIn(k)'[y] = HeldIn(k)[y]
    BY <1>5, <2>1 DEF HeldIn, SoundBy
  <2>5. HeldIn(k)'[x] - HeldIn(k)[x] = Grows(w, k)
    BY <1>5, <2>1 DEF HeldIn, SoundBy
  <2>6. Total(HeldIn(k)') = Total(HeldIn(k)) + HeldIn(k)'[x] - HeldIn(k)[x]
    <3> DEFINE f == HeldIn(k)
    <3> DEFINE g == HeldIn(k)'
    <3> HIDE DEF f, g
    <3> QED
      BY <2>2, <2>3, <2>4, TotalUpdate DEF f, g
  <2>7. wallet[k].balanceReserved = Total(HeldIn(k))
    BY DEF IInv, ReservesMatch, HeldIn
  <2>8. wallet'[k].balanceReserved = wallet[k].balanceReserved + Grows(w, k)
    BY <1>3, <1>4, <1>5 DEF Grows, WalletDoc
  <2>9. /\ HeldIn(k)'[x] \in Int /\ HeldIn(k)[x] \in Int
        /\ wallet[k].balanceReserved \in Int
    BY <1>3, <2>2, <2>3, BoundAssumption DEF WalletDoc
  <2> QED
    BY <2>5, <2>6, <2>7, <2>8, <2>9
<1>8. Sessions' /\ (\A q \in Req : Sound(q))'
  <2>1. session' = Surviving(DOMAIN w, DOMAIN t)
    BY DEF Commit, w, t
  <2> QED
    BY <1>5, <2>1, Survivors
<1>9. (calls \subseteq Tx)' /\ (today \in 0 .. MaxDay)'
  BY DEF Commit, IInv
<1> QED
  BY <1>4, <1>6, <1>7, <1>8, <1>9 DEF IInv

(* The step of a handler that issues its writes: they must be good.        *)
LEMMA BeginInv ==
  ASSUME IInv, NEW r \in Req, NEW w, NEW t, Good(w, t), Begin(r, w, t)
  PROVE  IInv'
<1>1. UNCHANGED <<wallet, wtx, calls, today>>
  BY DEF Begin
<1>2. session' = [session EXCEPT ![r] = [w |-> w, t |-> t]]
  BY DEF Begin
<1>3. Sessions'
  BY <1>2 DEF IInv, Sessions
<1>4. \A w1, t1 : Good(w1, t1) => Good(w1, t1)'
  BY <1>1 DEF Good, Formed, HoldsOK, SoundBy, Grows
<1>5. ASSUME NEW q \in Req PROVE Sound(q)'
  <2>1. CASE q = r
    BY <1>2, <1>4, <2>1 DEF IInv, Sessions, Sound
  <2>2. CASE q # r
    <3>1. session'[q] = session[q]
      BY <1>2, <2>2 DEF IInv, Sessions
    <3> QED
      BY <1>4, <3>1 DEF IInv, Sound
  <2> QED
    BY <2>1, <2>2
<1>6. ReservesMatch' /\ HoldsOK(wtx)'
  BY <1>1 DEF IInv, ReservesMatch, HoldsOK
<1> QED
  BY <1>1, <1>3, <1>5, <1>6 DEF IInv

(* A plain update of one document that keeps what it holds.                *)
LEMMA UpdateInv ==
  ASSUME IInv, NEW x \in Tx, NEW doc \in TxDoc, HoldOK(doc),
         \A k \in Wallet : Held(doc, k) = Held(wtx[x], k),
         UpdateOne(x, doc), calls' \subseteq Tx
  PROVE  IInv'
<1>1. wallet' = wallet /\ today' = today /\ wtx' = [wtx EXCEPT ![x] = doc]
  BY DEF UpdateOne
<1>2. wtx' \in [Tx -> TxDoc] /\ HoldsOK(wtx)'
  BY <1>1 DEF IInv, HoldsOK
<1>3. \A k \in Wallet : HeldIn(k)' = HeldIn(k)
  BY <1>1 DEF IInv, HeldIn
<1>4. ReservesMatch'
  BY <1>1, <1>3 DEF IInv, ReservesMatch, HeldIn
<1>5. Sessions' /\ (\A r \in Req : Sound(r))'
  <2>1. session' = Surviving({}, {x})
    BY DEF UpdateOne
  <2>2. \A y \in Tx \ {x} : wtx'[y] = wtx[y]
    BY <1>1 DEF IInv
  <2> QED
    BY <1>1, <2>1, <2>2, Survivors
<1> QED
  BY <1>1, <1>2, <1>4, <1>5 DEF IInv

(* A step that leaves the documents alone and only drops sessions or the   *)
(* awaited answers.                                                        *)
LEMMA DropInv ==
  ASSUME IInv, UNCHANGED <<wallet, wtx>>, calls' \subseteq Tx,
         today' \in 0 .. MaxDay, Sessions',
         \A r \in Req : session'[r] = Idle \/ session'[r] = session[r]
  PROVE  IInv'
<1>1. \A w1, t1 : Good(w1, t1) => Good(w1, t1)'
  BY DEF Good, Formed, HoldsOK, SoundBy, Grows
<1>2. (\A r \in Req : Sound(r))'
  BY <1>1 DEF IInv, Sound
<1>3. ReservesMatch' /\ HoldsOK(wtx)'
  BY DEF IInv, ReservesMatch, HoldsOK
<1> QED
  BY <1>2, <1>3 DEF IInv

-----------------------------------------------------------------------------
(* The three shapes of a handler's writes.                                 *)

Keeps(w) == \A k \in DOMAIN w : w[k].balanceReserved = wallet[k].balanceReserved
NoHold(t) == \A x \in DOMAIN t : ~HoldsReserve(t[x]) /\ ~HoldsReserve(wtx[x])

(* Writes are put together from single writes.                             *)
LEMMA Writes ==
  /\ \A k \in Wallet, d \in WalletDoc, x \in Tx, doc \in TxDoc :
       Formed(Write(k, d), Write(x, doc))
  /\ \A w1, w2, t1, t2 :
       Formed(w1, t1) /\ Formed(w2, t2) => Formed(w1 (+) w2, t1 (+) t2)
  /\ \A w1, w2, t : Formed(w1, t) /\ Formed(w2, t) => Formed(w1 (+) w2, t)
  /\ \A k, d : d.balanceReserved = wallet[k].balanceReserved => Keeps(Write(k, d))
  /\ \A w1, w2 : Keeps(w1) /\ Keeps(w2) => Keeps(w1 (+) w2)
  /\ \A x, doc : ~HoldsReserve(doc) /\ ~HoldsReserve(wtx[x]) => NoHold(Write(x, doc))
  /\ \A t1, t2 : NoHold(t1) /\ NoHold(t2) => NoHold(t1 (+) t2)
  /\ \A x, doc : DOMAIN Write(x, doc) # {}
  /\ \A t1, t2 : DOMAIN t1 # {} => DOMAIN (t1 (+) t2) # {}
<1>1. \A k \in Wallet, d \in WalletDoc, x \in Tx, doc \in TxDoc :
       Formed(Write(k, d), Write(x, doc))
  BY DEF Formed, Write
<1>2. /\ \A w1, w2, t1, t2 :
           Formed(w1, t1) /\ Formed(w2, t2) => Formed(w1 (+) w2, t1 (+) t2)
      /\ \A w1, w2, t : Formed(w1, t) /\ Formed(w2, t) => Formed(w1 (+) w2, t)
  BY DEF Formed, (+)
<1>3. /\ \A k, d : d.balanceReserved = wallet[k].balanceReserved => Keeps(Write(k, d))
      /\ \A w1, w2 : Keeps(w1) /\ Keeps(w2) => Keeps(w1 (+) w2)
  BY DEF Keeps, Write, (+)
<1>4. /\ \A x, doc : ~HoldsReserve(doc) /\ ~HoldsReserve(wtx[x]) => NoHold(Write(x, doc))
      /\ \A t1, t2 : NoHold(t1) /\ NoHold(t2) => NoHold(t1 (+) t2)
  BY DEF NoHold, Write, (+)
<1>5. /\ \A x, doc : DOMAIN Write(x, doc) # {}
      /\ \A t1, t2 : DOMAIN t1 # {} => DOMAIN (t1 (+) t2) # {}
  BY DEF Write, (+)
<1> QED
  BY <1>1, <1>2, <1>3, <1>4, <1>5

(* Neither a reserve nor a hold changes: deposits, transfers, freezes.     *)
LEMMA NeutralGood ==
  ASSUME wallet \in [Wallet -> WalletDoc],
         NEW w, NEW t, Formed(w, t), DOMAIN t # {}, Keeps(w), NoHold(t)
  PROVE  Good(w, t)
<1>1. PICK x \in DOMAIN t : TRUE
  OBVIOUS
<1>2. \A k \in Wallet : Grows(w, k) = 0
  BY DEF Grows, WalletDoc, Keeps
<1>3. SoundBy(x, w, t) /\ x \in Tx
  BY <1>1, <1>2 DEF SoundBy, Held, Formed, NoHold
<1> QED
  BY <1>3 DEF Good, HoldsOK, HoldOK, NoHold

(* What an $inc returns.                                                   *)
LEMMA IncResult ==
  ASSUME wallet \in [Wallet -> WalletDoc], NEW k \in Wallet, NEW b \in Int, NEW r \in Int
  PROVE  /\ Inc(k, b, r) \in WalletDoc
         /\ Inc(k, b, r).balanceReserved = wallet[k].balanceReserved + r
<1> DEFINE d == wallet[k]
<1>1. /\ d \in WalletDoc
      /\ d.balance + b \in Int /\ d.balanceReserved + r \in Int
  BY DEF WalletDoc
<1>2. Inc(k, b, r) = [d EXCEPT !.balance = d.balance + b,
                               !.balanceReserved = d.balanceReserved + r]
  BY <1>1 DEF Inc, WalletDoc
<1> HIDE DEF d
<1>3. /\ Inc(k, b, r) \in WalletDoc
      /\ Inc(k, b, r).balanceReserved = d.balanceReserved + r
  BY <1>1, <1>2 DEF WalletDoc
<1> QED
  BY <1>3 DEF d

(* What a handler puts in a new document.                                  *)
LEMMA DocResult ==
  ASSUME today \in Nat, NEW ty \in TxType, NEW k \in Wallet, NEW a \in Int,
         NEW s \in TxStatus
  PROVE  /\ Doc(ty, k, a, s) \in TxDoc
         /\ Doc(ty, k, a, s).type = ty /\ Doc(ty, k, a, s).status = s
         /\ Doc(ty, k, a, s).wallet = k /\ Doc(ty, k, a, s).amount = a
<1> DEFINE u == Unused
<1>1. u \in TxDoc
  BY DEF Unused, TxDoc, TxType, TxStatus, Wallet, Method
<1>2. Doc(ty, k, a, s) = [u EXCEPT !.type = ty, !.wallet = k, !.amount = a,
                                   !.status = s, !.day = today]
  BY DEF Doc
<1> HIDE DEF u
<1> QED
  BY <1>1, <1>2 DEF TxDoc

(* One document takes a hold and its wallet reserves as much: requests.    *)
LEMMA HoldGood ==
  ASSUME wallet \in [Wallet -> WalletDoc],
         NEW x \in Tx, NEW doc \in TxDoc, ~HoldsReserve(wtx[x]),
         HoldsReserve(doc), HoldOK(doc)
  PROVE  Good(Write(doc.wallet, Inc(doc.wallet, 0, doc.amount)), Write(x, doc))
<1> DEFINE k == doc.wallet
<1> DEFINE w == Write(k, Inc(k, 0, doc.amount))
<1> DEFINE t == Write(x, doc)
<1>1. k \in Wallet /\ doc.amount \in Int
  BY DEF TxDoc
<1>2. Inc(k, 0, doc.amount) \in WalletDoc
  BY <1>1, IncResult
<1>3. Formed(w, t)
  BY <1>1, <1>2 DEF Formed, Write
<1>4. \A j \in Wallet : Grows(w, j) = Held(doc, j)
  BY <1>1 DEF Grows, Held, Write, Inc, WalletDoc
<1>5. SoundBy(x, w, t)
  BY <1>1, <1>4 DEF SoundBy, Held, Write
<1> QED
  BY <1>3, <1>5 DEF Good, HoldsOK, HoldOK, Write

(* One document gives up its hold and its wallet releases as much:         *)
(* confirmations, rejections and the bank's verdict.                       *)
LEMMA ReleaseGood ==
  ASSUME wallet \in [Wallet -> WalletDoc], wtx \in [Tx -> TxDoc],
         NEW x \in Tx, HoldsReserve(wtx[x]),
         NEW doc \in TxDoc, ~HoldsReserve(doc),
         NEW d \in WalletDoc,
         d.balanceReserved = wallet[wtx[x].wallet].balanceReserved - wtx[x].amount
  PROVE  /\ Good(Write(wtx[x].wallet, d), Write(x, doc))
         /\ \A w, t : Formed(w, t) /\ Keeps(w) /\ NoHold(t) =>
              Good(Write(wtx[x].wallet, d) (+) w, Write(x, doc) (+) t)
<1> DEFINE k == wtx[x].wallet
<1>1. k \in Wallet /\ wtx[x].amount \in Int
  BY DEF TxDoc
<1>2. Formed(Write(k, d), Write(x, doc))
  BY <1>1, Writes
<1>3. SoundBy(x, Write(k, d), Write(x, doc))
  BY <1>1 DEF SoundBy, Grows, Held, Write, WalletDoc
<1>4. ASSUME NEW w, NEW t, Formed(w, t), Keeps(w), NoHold(t)
      PROVE  Good(Write(k, d) (+) w, Write(x, doc) (+) t)
  <2>1. Formed(Write(k, d) (+) w, Write(x, doc) (+) t)
    BY <1>2, <1>4, Writes
  <2>2. \A j \in Wallet : Grows(Write(k, d) (+) w, j) = Held(doc, j) - Held(wtx[x], j)
    BY <1>1, <1>4 DEF Grows, Held, Write, (+), WalletDoc, Keeps
  <2>3. SoundBy(x, Write(k, d) (+) w, Write(x, doc) (+) t)
    BY <1>4, <2>2 DEF SoundBy, NoHold, Held, Write, (+)
  <2>4. HoldsOK(Write(x, doc) (+) t)
    BY <1>4 DEF HoldsOK, HoldOK, NoHold, Write, (+)
  <2> QED
    BY <2>1, <2>3, <2>4 DEF Good
<1> QED
  BY <1>2, <1>3, <1>4 DEF Good, HoldsOK, HoldOK, Write

(* The documents handlers build have the fields of their schemas.          *)
LEMMA Built ==
  ASSUME IInv
  PROVE  /\ wallet \in [Wallet -> WalletDoc] /\ wtx \in [Tx -> TxDoc] /\ today \in Nat
         /\ \A k \in Wallet, b, r \in Int :
              /\ Inc(k, b, r) \in WalletDoc
              /\ Inc(k, b, r).balanceReserved = wallet[k].balanceReserved + r
         /\ \A x \in Tx, s \in TxStatus :
              /\ Set(x, s) \in TxDoc
              /\ Set(x, s).type = wtx[x].type /\ Set(x, s).status = s
              /\ Set(x, s).wallet = wtx[x].wallet /\ Set(x, s).amount = wtx[x].amount
         /\ \A ty \in TxType, k \in Wallet, a \in Int, s \in TxStatus :
              /\ Doc(ty, k, a, s) \in TxDoc
              /\ Doc(ty, k, a, s).type = ty /\ Doc(ty, k, a, s).status = s
              /\ Doc(ty, k, a, s).wallet = k /\ Doc(ty, k, a, s).amount = a
<1>1. wallet \in [Wallet -> WalletDoc] /\ wtx \in [Tx -> TxDoc] /\ today \in Nat
  BY BoundAssumption DEF IInv
<1>2. \A k \in Wallet, b, r \in Int :
              /\ Inc(k, b, r) \in WalletDoc
              /\ Inc(k, b, r).balanceReserved = wallet[k].balanceReserved + r
  BY <1>1, IncResult
<1>3. \A x \in Tx, s \in TxStatus :
              /\ Set(x, s) \in TxDoc
              /\ Set(x, s).type = wtx[x].type /\ Set(x, s).status = s
              /\ Set(x, s).wallet = wtx[x].wallet /\ Set(x, s).amount = wtx[x].amount
  BY <1>1 DEF Set, TxDoc
<1>4. \A ty \in TxType, k \in Wallet, a \in Int, s \in TxStatus :
              /\ Doc(ty, k, a, s) \in TxDoc
              /\ Doc(ty, k, a, s).type = ty /\ Doc(ty, k, a, s).status = s
              /\ Doc(ty, k, a, s).wallet = k /\ Doc(ty, k, a, s).amount = a
  BY <1>1, DocResult
<1> QED
  BY <1>1, <1>2, <1>3, <1>4

(* A document no one has used yet holds nothing.                           *)
LEMMA NewHoldsNothing ==
  ASSUME NEW x, New(x)
  PROVE  ~HoldsReserve(wtx[x])
BY DEF New, HoldsReserve

-----------------------------------------------------------------------------
(* One lemma per group of handlers, one step per handler.                  *)

(* A deposit never holds anything: an update that leaves a deposit a       *)
(* deposit of the same wallet is harmless.                                 *)
LEMMA DepositUpdate ==
  ASSUME IInv, NEW x \in Tx, NEW doc \in TxDoc, wtx[x].type = "deposit",
         doc.type = "deposit", UpdateOne(x, doc), calls' \subseteq Tx
  PROVE  IInv'
<1>1. \A k \in Wallet : Held(doc, k) = Held(wtx[x], k)
  BY DEF Held, HoldsReserve
<1>2. HoldOK(doc)
  BY DEF HoldOK, HoldsReserve
<1> QED
  BY <1>1, <1>2, UpdateInv

(* Crediting a deposit.                                                    *)
LEMMA CreditGood ==
  ASSUME IInv, NEW x \in Tx, wtx[x].type = "deposit"
  PROVE  Good(credit(x), Write(x, Set(x, "completed")))
<1> DEFINE k == wtx[x].wallet
<1>1. k \in Wallet /\ wtx[x].amount \in Int
  BY DEF IInv, TxDoc
<1>2. /\ Inc(k, wtx[x].amount, 0) \in WalletDoc
      /\ Inc(k, wtx[x].amount, 0).balanceReserved = wallet[k].balanceReserved
  BY <1>1, Built DEF WalletDoc
<1>3. /\ Set(x, "completed") \in TxDoc
      /\ Set(x, "completed").type = "deposit"
  BY Built DEF TxStatus, Terminal
<1>4. ~HoldsReserve(Set(x, "completed")) /\ ~HoldsReserve(wtx[x])
  BY <1>3 DEF HoldsReserve
<1>5. Formed(credit(x), Write(x, Set(x, "completed")))
  BY <1>1, <1>2, <1>3, Writes DEF credit
<1>6. Keeps(credit(x)) /\ NoHold(Write(x, Set(x, "completed")))
  BY <1>2, <1>4, Writes DEF credit
<1>7. DOMAIN Write(x, Set(x, "completed")) # {}
  BY Writes
<1> QED
  BY <1>5, <1>6, <1>7, Built, NeutralGood

LEMMA DepositStep ==
  ASSUME IInv, DepositNext
  PROVE  IInv'
<1>1. PICK x \in Tx :
        \/ \E u \in User, a \in Amount : initiateDeposit(x, u, a)
        \/ generateQRSucceeds(x)
        \/ generateQRFails(x)
        \/ uploadDepositProof(x)
        \/ \E r \in Req : adminConfirmDeposit(r, x)
        \/ \E r \in Req : confirmBankQrDeposit(r, x)
        \/ failExpiredBankQrDeposit(x)
        \/ cleanupOrphanWalletDeposits(x)
  BY DEF DepositNext
<1>2. \A s \in {"pending", "failed"} : Set(x, s) \in TxDoc /\ Set(x, s).type = wtx[x].type
  BY Built DEF TxStatus, Terminal
<1>3. calls \subseteq Tx
  BY DEF IInv
<1>4. ASSUME NEW u \in User, NEW a \in Amount, initiateDeposit(x, u, a)
      PROVE  IInv'
  <2> DEFINE doc == Doc("deposit", BOB(u), a, "awaiting_proof")
  <2>1. BOB(u) \in Wallet /\ a \in Int
    BY DEF BOB, Wallet, Currency, Amount
  <2>2. doc \in TxDoc /\ doc.type = "deposit"
    BY <2>1, Built DEF TxType, TxStatus
  <2>3. ~HoldsReserve(wtx[x]) /\ ~HoldsReserve(doc)
    BY <1>4, <2>2, NewHoldsNothing DEF initiateDeposit, HoldsReserve
  <2>4. HoldOK(doc) /\ \A k \in Wallet : Held(doc, k) = Held(wtx[x], k)
    BY <2>3 DEF HoldOK, Held
  <2>5. calls' \subseteq Tx /\ UpdateOne(x, doc)
    BY <1>3, <1>4 DEF initiateDeposit
  <2> QED
    BY <2>2, <2>4, <2>5, UpdateInv
<1>5. ASSUME generateQRSucceeds(x)
      PROVE  IInv'
  <2> DEFINE doc == [Set(x, "pending") EXCEPT !.qrId = TRUE]
  <2>1. doc \in TxDoc /\ doc.type = wtx[x].type
    BY <1>2 DEF TxDoc
  <2> QED
    BY <1>3, <1>5, <2>1, DepositUpdate DEF generateQRSucceeds
<1>6. ASSUME generateQRFails(x)
      PROVE  IInv'
  <2>1. CASE UpdateOne(x, Set(x, "failed"))
    BY <1>2, <1>3, <1>6, <2>1, DepositUpdate DEF generateQRFails
  <2>2. CASE NoUpdate
    BY <1>3, <1>6, <2>2, DropInv DEF generateQRFails, NoUpdate, IInv, Sessions
  <2> QED
    BY <1>6, <2>1, <2>2 DEF generateQRFails
<1>7. ASSUME uploadDepositProof(x)
      PROVE  IInv'
  BY <1>2, <1>3, <1>7, DepositUpdate DEF uploadDepositProof, Is
<1>8. ASSUME failExpiredBankQrDeposit(x) \/ cleanupOrphanWalletDeposits(x)
      PROVE  IInv'
  BY <1>2, <1>3, <1>8, DepositUpdate
     DEF failExpiredBankQrDeposit, cleanupOrphanWalletDeposits, Is
<1>9. ASSUME NEW r \in Req, adminConfirmDeposit(r, x) \/ confirmBankQrDeposit(r, x)
      PROVE  IInv'
  BY <1>9, CreditGood, BeginInv DEF adminConfirmDeposit, confirmBankQrDeposit, Is
<1> QED
  BY <1>1, <1>4, <1>5, <1>6, <1>7, <1>8, <1>9

(* A transfer moves balances and leaves both reserves alone.               *)
LEMMA TransferStep ==
  ASSUME IInv, TransferNext
  PROVE  IInv'
<1>1. PICK r \in Req, x \in Tx, y \in Tx, u \in User, v \in User, a \in Amount,
           q \in Charge \cup {NoRef} : transfer(r, x, y, u, v, a, q)
  BY DEF TransferNext, sendP2P, scanAndPayQR
<1> DEFINE w == Write(BOB(u), Inc(BOB(u), -a, 0)) (+) Write(BOB(v), Inc(BOB(v), a, 0))
<1> DEFINE s1 == [Doc("send", BOB(u), a, "completed") EXCEPT !.ref = q]
<1> DEFINE s2 == [Doc("receive", BOB(v), a, "completed") EXCEPT !.ref = q]
<1> DEFINE t == Write(x, s1) (+) Write(y, s2)
<1>2. BOB(u) \in Wallet /\ BOB(v) \in Wallet /\ a \in Int /\ -a \in Int
  BY DEF BOB, Wallet, Currency, Amount
<1>3. /\ Inc(BOB(u), -a, 0) \in WalletDoc /\ Inc(BOB(v), a, 0) \in WalletDoc
      /\ Inc(BOB(u), -a, 0).balanceReserved = wallet[BOB(u)].balanceReserved
      /\ Inc(BOB(v), a, 0).balanceReserved = wallet[BOB(v)].balanceReserved
  BY <1>2, Built DEF WalletDoc
<1>4. /\ s1 \in TxDoc /\ s2 \in TxDoc
      /\ s1.type = "send" /\ s2.type = "receive"
  <2>1. /\ Doc("send", BOB(u), a, "completed") \in TxDoc
        /\ Doc("send", BOB(u), a, "completed").type = "send"
        /\ Doc("receive", BOB(v), a, "completed") \in TxDoc
        /\ Doc("receive", BOB(v), a, "completed").type = "receive"
    BY <1>2, Built DEF TxType, TxStatus, Terminal
  <2> QED
    BY <2>1 DEF TxDoc
<1>5. /\ ~HoldsReserve(s1) /\ ~HoldsReserve(s2)
      /\ ~HoldsReserve(wtx[x]) /\ ~HoldsReserve(wtx[y])
  BY <1>1, <1>4, NewHoldsNothing DEF HoldsReserve, transfer
<1>6. Begin(r, w, t)
  BY <1>1 DEF transfer
<1> HIDE DEF s1, s2
<1>7. Formed(w, t)
  BY <1>2, <1>3, <1>4, Writes
<1>8. Keeps(w) /\ NoHold(t) /\ DOMAIN t # {}
  BY <1>3, <1>5, Writes
<1> HIDE DEF w, t
<1> QED
  BY <1>6, <1>7, <1>8, Built, NeutralGood, BeginInv

(* A document that holds a reserve and is settled: its wallet loses the    *)
(* reserve, and b of its balance.                                          *)
LEMMA SettleGood ==
  ASSUME IInv, NEW x \in Tx, HoldsReserve(wtx[x]),
         NEW b \in Int, NEW s \in {"completed", "failed", "reversed"}
  PROVE  LET k == wtx[x].wallet
             d == Inc(k, b, -wtx[x].amount)
         IN /\ Good(Write(k, d), Write(x, Set(x, s)))
            /\ \A w, t : Formed(w, t) /\ Keeps(w) /\ NoHold(t) =>
                 Good(Write(k, d) (+) w, Write(x, Set(x, s)) (+) t)
<1> DEFINE k == wtx[x].wallet
<1> DEFINE d == Inc(k, b, -wtx[x].amount)
<1>1. k \in Wallet /\ wtx[x].amount \in Int /\ -wtx[x].amount \in Int
  BY DEF IInv, TxDoc
<1>2. d \in WalletDoc /\ d.balanceReserved = wallet[k].balanceReserved - wtx[x].amount
  BY <1>1, Built DEF WalletDoc
<1>3. Set(x, s) \in TxDoc /\ ~HoldsReserve(Set(x, s))
  <2>1. Set(x, s) \in TxDoc /\ Set(x, s).status = s
    BY Built DEF TxStatus, Terminal
  <2> QED
    BY <2>1 DEF HoldsReserve
<1> HIDE DEF d
<1>4. /\ Good(Write(k, d), Write(x, Set(x, s)))
      /\ \A w, t : Formed(w, t) /\ Keeps(w) /\ NoHold(t) =>
           Good(Write(k, d) (+) w, Write(x, Set(x, s)) (+) t)
  BY <1>2, <1>3, Built, ReleaseGood
<1> QED
  BY <1>4 DEF d

(* A new document that holds its amount.                                   *)
LEMMA RequestGood ==
  ASSUME IInv, NEW x \in Tx, New(x), NEW k \in User \X Currency, NEW a \in Amount,
         NEW doc \in TxDoc, doc.wallet = k, doc.amount = a, HoldsReserve(doc)
  PROVE  Good(Write(k, Inc(k, 0, a)), Write(x, doc))
BY Built, NewHoldsNothing, HoldGood DEF HoldOK

LEMMA WithdrawalStep ==
  ASSUME IInv, WithdrawalNext
  PROVE  IInv'
<1>1. PICK x \in Tx :
        \/ \E r \in Req, u \in User, a \in Amount, m \in Methods :
             requestWithdrawal(r, x, u, a, m)
        \/ \E r \in Req : adminConfirmWithdrawal(r, x)
        \/ \E r \in Req : adminRejectWithdrawal(r, x)
        \/ adminDispatchWithdrawal(x)
        \/ transferFails(x)
        \/ transferAccepted(x)
        \/ \E r \in Req, b \in BOOLEAN : settleDispatchedWithdrawal(r, x, b)
  BY DEF WithdrawalNext
<1>2. /\ calls \subseteq Tx /\ wtx[x] \in TxDoc
      /\ wtx[x].amount \in Int /\ -wtx[x].amount \in Int /\ HoldOK(wtx[x])
  BY DEF IInv, HoldsOK, TxDoc
<1>3. ASSUME NEW r \in Req, NEW u \in User, NEW a \in Amount, NEW m \in Methods,
             requestWithdrawal(r, x, u, a, m)
      PROVE  IInv'
  <2> DEFINE doc == [Doc("withdrawal", BOB(u), a, "pending") EXCEPT !.method = m]
  <2>1. /\ BOB(u) \in User \X Currency /\ BOB(u) \in Wallet
        /\ a \in Int /\ m \in Method
    BY BOBAssumption DEF BOB, Wallet, Currency, Amount, Method
  <2>2. /\ doc \in TxDoc /\ doc.wallet = BOB(u) /\ doc.amount = a
        /\ doc.type = "withdrawal" /\ doc.status = "pending"
    <3> DEFINE base == Doc("withdrawal", BOB(u), a, "pending")
    <3>1. /\ base \in TxDoc /\ base.wallet = BOB(u) /\ base.amount = a
          /\ base.type = "withdrawal" /\ base.status = "pending"
      BY <2>1, Built DEF TxType, TxStatus
    <3> HIDE DEF base
    <3>2. [base EXCEPT !.method = m] \in TxDoc
      BY <2>1, <3>1 DEF TxDoc
    <3> QED
      BY <3>1, <3>2 DEF base, TxDoc
  <2>3. Begin(r, Write(BOB(u), Inc(BOB(u), 0, a)), Write(x, doc)) /\ New(x)
    BY <1>3 DEF requestWithdrawal
  <2>4. HoldsReserve(doc)
    BY <2>2 DEF HoldsReserve
  <2> HIDE DEF doc
  <2> QED
    BY <2>1, <2>2, <2>3, <2>4, RequestGood, BeginInv
<1>4. ASSUME NEW r \in Req, adminConfirmWithdrawal(r, x)
      PROVE  IInv'
  BY <1>2, <1>4, SettleGood, BeginInv DEF adminConfirmWithdrawal, debitReserved, Is, HoldsReserve
<1>5. ASSUME NEW r \in Req, adminRejectWithdrawal(r, x)
      PROVE  IInv'
  BY <1>2, <1>5, SettleGood, BeginInv DEF adminRejectWithdrawal, releaseReserved, Is, HoldsReserve
<1>6. ASSUME NEW r \in Req, NEW b \in BOOLEAN, settleDispatchedWithdrawal(r, x, b)
      PROVE  IInv'
  BY <1>2, <1>6, SettleGood, BeginInv
     DEF settleDispatchedWithdrawal, debitReserved, releaseReserved, Is, HoldsReserve
<1>7. ASSUME wtx[x].type = "withdrawal", wtx[x].status \in {"pending", "dispatched"},
             NEW s \in {"pending", "dispatched"}
      PROVE  /\ Set(x, s) \in TxDoc /\ HoldOK(Set(x, s))
             /\ \A k \in Wallet : Held(Set(x, s), k) = Held(wtx[x], k)
  <2>1. /\ Set(x, s) \in TxDoc /\ Set(x, s).type = "withdrawal" /\ Set(x, s).status = s
        /\ Set(x, s).wallet = wtx[x].wallet /\ Set(x, s).amount = wtx[x].amount
    BY <1>7, Built DEF TxStatus
  <2> QED
    BY <1>2, <1>7, <2>1 DEF HoldOK, Held, HoldsReserve
<1>8. ASSUME adminDispatchWithdrawal(x)
      PROVE  IInv'
  BY <1>2, <1>7, <1>8, UpdateInv DEF adminDispatchWithdrawal, Is
<1>9. ASSUME transferFails(x)
      PROVE  IInv'
  <2>1. CASE wtx[x].status = "dispatched" /\ UpdateOne(x, Set(x, "pending"))
    BY <1>2, <1>7, <1>9, <2>1, UpdateInv DEF transferFails
  <2>2. CASE NoUpdate
    BY <1>2, <1>9, <2>2, DropInv DEF transferFails, NoUpdate, IInv, Sessions
  <2> QED
    BY <1>9, <2>1, <2>2 DEF transferFails
<1>10. ASSUME transferAccepted(x)
       PROVE  IInv'
  BY <1>2, <1>10, UpdateInv DEF transferAccepted
<1> QED
  BY <1>1, <1>3, <1>4, <1>5, <1>6, <1>8, <1>9, <1>10

(* New documents that hold nothing, with writes that keep every reserve.   *)
LEMMA FreshInv ==
  ASSUME IInv, NEW r \in Req, NEW x \in Tx, New(x), NEW doc \in TxDoc,
         ~HoldsReserve(doc), NEW w, Formed(w, Write(x, doc)), Keeps(w),
         Begin(r, w, Write(x, doc))
  PROVE  IInv'
<1>1. NoHold(Write(x, doc)) /\ DOMAIN Write(x, doc) # {}
  BY NewHoldsNothing, Writes
<1>2. Good(w, Write(x, doc))
  BY <1>1, Built, NeutralGood
<1> QED
  BY <1>2, BeginInv

LEMMA ComplianceStep ==
  ASSUME IInv, ComplianceNext
  PROVE  IInv'
<1>1. PICK r \in Req, x \in Tx :
        \/ \E u \in Freezable : adminFreezeWallet(r, x, u)
        \/ \E u \in Freezable : adminUnfreezeWallet(r, x, u)
        \/ \E u \in User, a \in Amount : acreditarDevolucionEnBilletera(r, x, u, a)
  BY DEF ComplianceNext
<1>2. \A u \in User : BOB(u) \in Wallet /\ USDC(u) \in Wallet
  BY DEF BOB, USDC, Wallet, Currency
<1>3. \A k \in Wallet :
        /\ wallet[k] \in WalletDoc
        /\ wallet[k].balance \in Int /\ wallet[k].balanceFrozen \in Int
  BY Built DEF WalletDoc
<1>4. ASSUME NEW k \in Wallet, NEW st \in {"active", "frozen"}, NEW b \in Int, NEW f \in Int
      PROVE  /\ moveFrozen(k, st, b, f) \in WalletDoc
             /\ moveFrozen(k, st, b, f).balanceReserved = wallet[k].balanceReserved
  BY <1>3 DEF moveFrozen, WalletDoc
<1>5. ASSUME NEW k \in Wallet
      PROVE  \A d \in {frozenBOB(k), frozenUSDC(k), thawedBOB(k), thawedUSDC(k)} :
               d \in WalletDoc /\ d.balanceReserved = wallet[k].balanceReserved
  <2>1. wallet[k].balance \in Int /\ wallet[k].balanceFrozen \in Int
    BY <1>3
  <2> QED
    BY <1>4, <2>1 DEF frozenBOB, frozenUSDC, thawedBOB, thawedUSDC
<1>6. \A doc \in TxDoc : Formed(noWrite, Write(x, doc))
  BY DEF Formed, Write, noWrite
<1>7. Keeps(noWrite)
  BY DEF Keeps, noWrite
<1>8. ASSUME NEW u \in Freezable, adminFreezeWallet(r, x, u)
      PROVE  IInv'
  <2> DEFINE doc == Doc("freeze", BOB(u), wallet[BOB(u)].balance, "completed")
  <2> DEFINE w1 == Write(BOB(u), frozenBOB(BOB(u)))
  <2> DEFINE w2 == IF Active(USDC(u)) THEN Write(USDC(u), frozenUSDC(USDC(u)))
                                      ELSE noWrite
  <2>1. BOB(u) \in Wallet /\ USDC(u) \in Wallet
    BY <1>2, BOBAssumption
  <2>2. doc \in TxDoc /\ doc.type = "freeze"
    <3>1. wallet[BOB(u)].balance \in Int
      BY <1>3, <2>1
    <3>2. "freeze" \in TxType /\ "completed" \in TxStatus
      BY DEF TxType, TxStatus, Terminal
    <3> QED
      BY <2>1, <3>1, <3>2, Built
  <2>3. ~HoldsReserve(doc)
    BY <2>2 DEF HoldsReserve
  <2>4. New(x) /\ Begin(r, w1 (+) w2, Write(x, doc))
    BY <1>8 DEF adminFreezeWallet
  <2> HIDE DEF doc
  <2>5. Formed(w1, Write(x, doc)) /\ Keeps(w1)
    BY <1>5, <2>1, <2>2, Writes
  <2>6. Formed(w2, Write(x, doc)) /\ Keeps(w2)
    BY <1>5, <1>6, <1>7, <2>1, <2>2, Writes
  <2> HIDE DEF w1, w2
  <2>7. Formed(w1 (+) w2, Write(x, doc)) /\ Keeps(w1 (+) w2)
    BY <2>5, <2>6, Writes
  <2> QED
    BY <2>2, <2>3, <2>4, <2>7, FreshInv
<1>9. ASSUME NEW u \in Freezable, adminUnfreezeWallet(r, x, u)
      PROVE  IInv'
  <2> DEFINE doc == Doc("unfreeze", BOB(u), wallet[BOB(u)].balanceFrozen, "completed")
  <2> DEFINE w1 == Write(BOB(u), thawedBOB(BOB(u)))
  <2> DEFINE w2 == IF Active(USDC(u)) THEN noWrite
                                      ELSE Write(USDC(u), thawedUSDC(USDC(u)))
  <2>1. BOB(u) \in Wallet /\ USDC(u) \in Wallet
    BY <1>2, BOBAssumption
  <2>2. doc \in TxDoc /\ doc.type = "unfreeze"
    <3>1. wallet[BOB(u)].balanceFrozen \in Int
      BY <1>3, <2>1
    <3>2. "unfreeze" \in TxType /\ "completed" \in TxStatus
      BY DEF TxType, TxStatus, Terminal
    <3> QED
      BY <2>1, <3>1, <3>2, Built
  <2>3. ~HoldsReserve(doc)
    BY <2>2 DEF HoldsReserve
  <2>4. New(x) /\ Begin(r, w1 (+) w2, Write(x, doc))
    BY <1>9 DEF adminUnfreezeWallet
  <2> HIDE DEF doc
  <2>5. Formed(w1, Write(x, doc)) /\ Keeps(w1)
    BY <1>5, <2>1, <2>2, Writes
  <2>6. Formed(w2, Write(x, doc)) /\ Keeps(w2)
    BY <1>5, <1>6, <1>7, <2>1, <2>2, Writes
  <2> HIDE DEF w1, w2
  <2>7. Formed(w1 (+) w2, Write(x, doc)) /\ Keeps(w1 (+) w2)
    BY <2>5, <2>6, Writes
  <2> QED
    BY <2>2, <2>3, <2>4, <2>7, FreshInv
<1>10. ASSUME NEW u \in User, NEW a \in Amount, acreditarDevolucionEnBilletera(r, x, u, a)
       PROVE  IInv'
  <2> DEFINE doc == Doc("refund", BOB(u), a, "completed")
  <2> DEFINE w == Write(BOB(u), Inc(BOB(u), a, 0))
  <2>1. BOB(u) \in Wallet /\ a \in Int
    BY <1>2 DEF Amount
  <2>2. doc \in TxDoc /\ doc.type = "refund"
    BY <2>1, Built DEF TxType, TxStatus, Terminal
  <2>3. ~HoldsReserve(doc)
    BY <2>2 DEF HoldsReserve
  <2>4. New(x) /\ Begin(r, w, Write(x, doc))
    BY <1>10 DEF acreditarDevolucionEnBilletera
  <2> HIDE DEF doc
  <2>5. /\ Inc(BOB(u), a, 0) \in WalletDoc
        /\ Inc(BOB(u), a, 0).balanceReserved = wallet[BOB(u)].balanceReserved
    BY <2>1, Built DEF WalletDoc
  <2>6. Formed(w, Write(x, doc)) /\ Keeps(w)
    BY <2>1, <2>2, <2>5, Writes
  <2> QED
    BY <2>2, <2>3, <2>4, <2>6, FreshInv
<1> QED
  BY <1>1, <1>8, <1>9, <1>10

LEMMA SessionStep ==
  ASSUME IInv, SessionNext
  PROVE  IInv'
<1>1. ASSUME NEW r \in Req, Abort(r)
      PROVE  IInv'
  BY <1>1, DropInv DEF Abort, IInv, Sessions
<1>2. ASSUME Restart
      PROVE  IInv'
  BY <1>2, DropInv DEF Restart, IInv, Sessions
<1>3. ASSUME NewDay
      PROVE  IInv'
  <2>1. today' \in 0 .. MaxDay
    BY <1>3, BoundAssumption DEF NewDay, IInv
  <2> QED
    BY <1>3, <2>1, DropInv DEF NewDay, IInv, Sessions
<1> QED
  BY <1>1, <1>2, <1>3, CommitInv DEF SessionNext

(* The three operations on a conversion, whatever its direction.           *)
LEMMA ConversionHandlers ==
  ASSUME IInv, NEW r \in Req, NEW x \in Tx,
         NEW type \in {"bob_to_usdc", "usdc_to_bob"}
  PROVE  /\ \A from, to \in User \X Currency, a, c \in Amount :
              requestConversion(r, x, type, from, to, a, c) => IInv'
         /\ \A y \in Tx, to \in Wallet, credited \in CreditTypes, b \in BOOLEAN :
              confirmConversion(r, x, y, type, to, credited, b) => IInv'
         /\ rejectConversion(r, x, type) => IInv'
<1> DEFINE k == wtx[x].wallet
<1>1. /\ wtx[x] \in TxDoc /\ k \in Wallet
      /\ wtx[x].amount \in Int /\ -wtx[x].amount \in Int /\ wtx[x].counter \in Int
  BY DEF IInv, TxDoc
<1>2. Is(x, type, "pending") => HoldsReserve(wtx[x])
  BY DEF Is, HoldsReserve
<1>3. ASSUME NEW from \in User \X Currency, NEW to \in User \X Currency, NEW a \in Amount, NEW c \in Amount,
             requestConversion(r, x, type, from, to, a, c)
      PROVE  IInv'
  <2> DEFINE base == Doc(type, from, a, "pending")
  <2> DEFINE doc == [base EXCEPT !.counter = c]
  <2>1. a \in Int /\ c \in Int /\ from \in Wallet
    BY DEF Amount, Wallet
  <2>2. /\ base \in TxDoc /\ base.wallet = from /\ base.amount = a
        /\ base.type = type /\ base.status = "pending"
    BY <2>1, Built DEF TxType, TxStatus
  <2> HIDE DEF base
  <2>3. /\ doc \in TxDoc /\ doc.wallet = from /\ doc.amount = a
        /\ doc.type = type /\ doc.status = "pending"
    BY <2>1, <2>2 DEF TxDoc
  <2>4. HoldsReserve(doc)
    BY <2>3 DEF HoldsReserve
  <2>5. New(x) /\ Begin(r, Write(from, Inc(from, 0, a)), Write(x, doc))
    BY <1>3 DEF requestConversion, base
  <2> HIDE DEF doc
  <2> QED
    BY <2>3, <2>4, <2>5, RequestGood, BeginInv
<1>4. ASSUME NEW y \in Tx, NEW to \in Wallet, NEW credited \in CreditTypes,
             NEW b \in BOOLEAN, confirmConversion(r, x, y, type, to, credited, b)
      PROVE  IInv'
  <2> DEFINE w1 == Write(to, Inc(to, wtx[x].counter, 0))
  <2> DEFINE w == w1 (+) swapRevenue(b)
  <2> DEFINE doc == Doc(credited, to, wtx[x].counter, "completed")
  <2> DEFINE t == Write(y, doc)
  <2>1. doc \in TxDoc /\ doc.status = "completed"
    <3>1. credited \in TxType /\ "completed" \in TxStatus
      BY DEF CreditTypes, TxType, TxStatus, Terminal
    <3> QED
      BY <1>1, <3>1, Built
  <2>2. NoHold(t)
    BY <1>4, <2>1, NewHoldsNothing, Writes DEF confirmConversion, HoldsReserve
  <2>3. /\ Inc(to, wtx[x].counter, 0) \in WalletDoc
        /\ Inc(to, wtx[x].counter, 0).balanceReserved = wallet[to].balanceReserved
    BY <1>1, Built DEF WalletDoc
  <2> HIDE DEF doc
  <2>4. Formed(w1, t) /\ Keeps(w1)
    BY <2>1, <2>3, Writes
  <2>5. Formed(swapRevenue(b), t) /\ Keeps(swapRevenue(b))
    BY <2>1, Built DEF swapRevenue, Formed, Keeps, Write, Wallet
  <2>6. Formed(w, t) /\ Keeps(w)
    BY <2>4, <2>5, Writes
  <2>7. Begin(r, Write(k, Inc(k, -wtx[x].amount, -wtx[x].amount)) (+) w,
                 Write(x, Set(x, "completed")) (+) t)
    BY <1>4 DEF confirmConversion, doc
  <2> HIDE DEF w, t
  <2>8. Good(Write(k, Inc(k, -wtx[x].amount, -wtx[x].amount)) (+) w,
             Write(x, Set(x, "completed")) (+) t)
    BY <1>1, <1>2, <1>4, <2>2, <2>6, SettleGood DEF confirmConversion
  <2> QED
    BY <2>7, <2>8, BeginInv
<1>5. ASSUME rejectConversion(r, x, type)
      PROVE  IInv'
  <2>1. /\ HoldsReserve(wtx[x])
        /\ Begin(r, Write(k, Inc(k, 0, -wtx[x].amount)), Write(x, Set(x, "failed")))
    BY <1>2, <1>5 DEF rejectConversion
  <2>2. Good(Write(k, Inc(k, 0, -wtx[x].amount)), Write(x, Set(x, "failed")))
    BY <2>1, SettleGood
  <2> QED
    BY <2>1, <2>2, BeginInv
<1> QED
  BY <1>3, <1>4, <1>5

LEMMA ConversionStep ==
  ASSUME IInv, ConversionNext
  PROVE  IInv'
<1>1. PICK r \in Req, x \in Tx :
    \/ \E u \in User, a, c \in Amount : requestBOBtoUSDC(r, x, u, a, c)
    \/ \E y \in Tx, b \in BOOLEAN : adminConfirmBOBtoUSDC(r, x, y, b)
    \/ adminRejectBOBtoUSDC(r, x)
    \/ \E u \in User, a, c \in Amount : requestUSDCtoBOB(r, x, u, a, c)
    \/ \E y \in Tx, b \in BOOLEAN : adminConfirmUSDCtoBOB(r, x, y, b)
    \/ adminRejectUSDCtoBOB(r, x)
  BY DEF ConversionNext
<1>2. \A u \in User : /\ BOB(u) \in User \X Currency /\ USDC(u) \in User \X Currency
                     /\ BOB(u) \in Wallet /\ USDC(u) \in Wallet
  BY DEF BOB, USDC, Wallet, Currency
<1>3. "usdc_deposit" \in CreditTypes /\ "deposit" \in CreditTypes
  BY DEF CreditTypes
<1>4. ASSUME NEW u \in User, NEW a \in Amount, NEW c \in Amount,
             requestBOBtoUSDC(r, x, u, a, c) \/ requestUSDCtoBOB(r, x, u, a, c)
      PROVE  IInv'
  BY <1>2, <1>4, ConversionHandlers DEF requestBOBtoUSDC, requestUSDCtoBOB
<1>5. ASSUME NEW y \in Tx, NEW b \in BOOLEAN,
             adminConfirmBOBtoUSDC(r, x, y, b) \/ adminConfirmUSDCtoBOB(r, x, y, b)
      PROVE  IInv'
  <2>1. HoldsReserve(wtx[x])
    BY <1>5 DEF adminConfirmBOBtoUSDC, adminConfirmUSDCtoBOB, confirmConversion, Is,
                HoldsReserve
  <2>2. wtx[x].wallet[1] \in User
    BY <2>1 DEF IInv, HoldsOK, HoldOK
  <2> QED
    BY <1>2, <1>3, <1>5, <2>2, ConversionHandlers
       DEF adminConfirmBOBtoUSDC, adminConfirmUSDCtoBOB
<1>6. ASSUME adminRejectBOBtoUSDC(r, x) \/ adminRejectUSDCtoBOB(r, x)
      PROVE  IInv'
  BY <1>6, ConversionHandlers DEF adminRejectBOBtoUSDC, adminRejectUSDCtoBOB
<1> QED
  BY <1>1, <1>4, <1>5, <1>6

(* A transfer of USDC, with or without a fee, moves balances only.         *)
LEMMA UsdcTransfer ==
  ASSUME IInv, NEW r \in Req, NEW x \in Tx, NEW y \in Tx, NEW z \in Tx,
         NEW u \in User, NEW v \in User, NEW a \in Amount, NEW q \in Charge \cup {NoRef},
         NEW f \in Fees, transferAtFee(r, x, y, z, u, v, a, q, f)
  PROVE  IInv'
<1> DEFINE total == a + f
<1> DEFINE base == Doc("send", USDC(u), a, "completed")
<1> DEFINE s1 == [base EXCEPT !.ref = q]
<1> DEFINE s2 == Doc("receive", USDC(v), a, "completed")
<1> DEFINE s3 == Doc("fee", USDC(u), f, "completed")
<1> DEFINE w12 == Write(USDC(u), Inc(USDC(u), -total, 0))
                  (+) Write(USDC(v), Inc(USDC(v), a, 0))
<1> DEFINE w3 == Write(feeConfig, Inc(feeConfig, f, 0))
<1> DEFINE t12 == Write(x, s1) (+) Write(y, s2)
<1> DEFINE t3 == Write(z, s3)
<1>1. /\ a \in Int /\ f \in Int /\ -total \in Int
      /\ USDC(u) \in Wallet /\ USDC(v) \in Wallet /\ feeConfig \in Wallet
  BY FeeAssumption DEF Amount, USDC, Wallet, Currency
<1>2. \A k \in Wallet, b \in Int :
        /\ Inc(k, b, 0) \in WalletDoc
        /\ Inc(k, b, 0).balanceReserved = wallet[k].balanceReserved
  BY Built DEF WalletDoc
<1>3. /\ base \in TxDoc /\ base.status = "completed"
      /\ s2 \in TxDoc /\ s2.status = "completed"
      /\ s3 \in TxDoc /\ s3.status = "completed"
  <2>1. /\ {"send", "receive", "fee"} \subseteq TxType
        /\ "completed" \in TxStatus
    BY DEF TxType, TxStatus, Terminal
  <2> QED
    BY <1>1, <2>1, Built
<1>4. s1 \in TxDoc /\ s1.status = "completed"
  <2> HIDE DEF base
  <2> QED
    BY <1>3 DEF TxDoc
<1>5. ~HoldsReserve(s1) /\ ~HoldsReserve(s2) /\ ~HoldsReserve(s3)
  BY <1>3, <1>4 DEF HoldsReserve
<1> HIDE DEF s1, s2, s3, total
<1>6. Formed(w12, t12) /\ Keeps(w12) /\ Formed(w3, t3) /\ Keeps(w3)
  BY <1>1, <1>2, <1>3, <1>4, Writes
<1>7. NoHold(t12) /\ DOMAIN t12 # {}
  <2>1. ~HoldsReserve(wtx[x]) /\ ~HoldsReserve(wtx[y])
    BY NewHoldsNothing DEF transferAtFee
  <2> QED
    BY <1>5, <2>1, Writes
<1>8. CASE f > 0
  <2>1. Begin(r, w12 (+) w3, t12 (+) t3) /\ New(z)
    BY <1>8 DEF transferAtFee, s1, s2, s3, total
  <2>2. NoHold(t3)
    BY <1>5, <2>1, NewHoldsNothing, Writes
  <2> HIDE DEF w12, w3, t12, t3
  <2>3. /\ Formed(w12 (+) w3, t12 (+) t3) /\ Keeps(w12 (+) w3)
        /\ NoHold(t12 (+) t3) /\ DOMAIN (t12 (+) t3) # {}
    BY <1>6, <1>7, <2>2, Writes
  <2>4. Good(w12 (+) w3, t12 (+) t3)
    BY <2>3, Built, NeutralGood
  <2> QED
    BY <2>1, <2>4, BeginInv
<1>9. CASE ~(f > 0)
  <2>1. Begin(r, w12, t12)
    BY <1>9 DEF transferAtFee, s1, s2, s3, total
  <2>2. Good(w12, t12)
    BY <1>6, <1>7, Built, NeutralGood
  <2> QED
    BY <2>1, <2>2, BeginInv
<1> QED
  BY <1>8, <1>9

LEMMA UsdcStep ==
  ASSUME IInv, UsdcNext
  PROVE  IInv'
<1>1. PICK r \in Req, x \in Tx :
        \/ \E y, z \in Tx, u, v \in User, a \in Amount :
             \/ sendUSDC(r, x, y, z, u, v, a)
             \/ \E q \in Charge : scanAndPayUSDC(r, x, y, z, u, v, a, q)
        \/ \E u \in User, a \in Amount : creditUSDCDeposit(r, x, u, a)
        \/ \E p \in Payment, a \in Amount : reserveUSDCForPayment(r, x, p, a)
        \/ confirmUSDCPayment(r, x)
        \/ releaseUSDCReservation(r, x)
  BY DEF UsdcNext
<1>2. \A u \in User : USDC(u) \in User \X Currency /\ USDC(u) \in Wallet
  BY DEF USDC, Wallet, Currency
<1>3. wtx[x] \in TxDoc /\ wtx[x].amount \in Int /\ -wtx[x].amount \in Int
  BY DEF IInv, TxDoc
<1>4. Is(x, "crossborder_payin", "pending") => HoldsReserve(wtx[x])
  BY DEF Is, HoldsReserve
<1>5. ASSUME NEW y \in Tx, NEW z \in Tx, NEW u \in User, NEW v \in User, NEW a \in Amount,
             \/ sendUSDC(r, x, y, z, u, v, a)
             \/ \E q \in Charge : scanAndPayUSDC(r, x, y, z, u, v, a, q)
      PROVE  IInv'
  BY <1>5, UsdcTransfer DEF sendUSDC, scanAndPayUSDC, executeUsdcP2pTransfer
<1>6. ASSUME NEW u \in User, NEW a \in Amount, creditUSDCDeposit(r, x, u, a)
      PROVE  IInv'
  <2> DEFINE doc == Doc("usdc_deposit", USDC(u), a, "completed")
  <2> DEFINE w == Write(USDC(u), Inc(USDC(u), a, 0))
  <2>1. USDC(u) \in Wallet /\ a \in Int
    BY <1>2 DEF Amount
  <2>2. doc \in TxDoc /\ doc.status = "completed"
    BY <2>1, Built DEF TxType, TxStatus, Terminal
  <2>3. ~HoldsReserve(doc)
    BY <2>2 DEF HoldsReserve
  <2>4. New(x) /\ Begin(r, w, Write(x, doc))
    BY <1>6 DEF creditUSDCDeposit
  <2> HIDE DEF doc
  <2>5. /\ Inc(USDC(u), a, 0) \in WalletDoc
        /\ Inc(USDC(u), a, 0).balanceReserved = wallet[USDC(u)].balanceReserved
    BY <2>1, Built DEF WalletDoc
  <2>6. Formed(w, Write(x, doc)) /\ Keeps(w)
    BY <2>1, <2>2, <2>5, Writes
  <2> QED
    BY <2>2, <2>3, <2>4, <2>6, FreshInv
<1>7. ASSUME NEW p \in Payment, NEW a \in Amount, reserveUSDCForPayment(r, x, p, a)
      PROVE  IInv'
  <2> DEFINE k == USDC(payer[p])
  <2> DEFINE base == Doc("crossborder_payin", k, a, "pending")
  <2> DEFINE doc == [base EXCEPT !.ref = p]
  <2>1. k \in User \X Currency /\ k \in Wallet /\ a \in Int
    BY <1>2, RefAssumption DEF Amount
  <2> HIDE DEF k
  <2>2. /\ base \in TxDoc /\ base.wallet = k /\ base.amount = a
        /\ base.type = "crossborder_payin" /\ base.status = "pending"
    BY <2>1, Built DEF TxType, TxStatus
  <2> HIDE DEF base
  <2>3. /\ doc \in TxDoc /\ doc.wallet = k /\ doc.amount = a
        /\ doc.type = "crossborder_payin" /\ doc.status = "pending"
    BY <2>2 DEF TxDoc
  <2>4. HoldsReserve(doc)
    BY <2>3 DEF HoldsReserve
  <2>5. New(x) /\ Begin(r, Write(k, Inc(k, 0, a)), Write(x, doc))
    BY <1>7 DEF reserveUSDCForPayment, base, k
  <2> HIDE DEF doc
  <2> QED
    BY <2>1, <2>3, <2>4, <2>5, RequestGood, BeginInv
<1>8. ASSUME confirmUSDCPayment(r, x)
      PROVE  IInv'
  BY <1>3, <1>4, <1>8, SettleGood, BeginInv DEF confirmUSDCPayment
<1>9. ASSUME releaseUSDCReservation(r, x)
      PROVE  IInv'
  BY <1>3, <1>4, <1>9, SettleGood, BeginInv DEF releaseUSDCReservation
<1> QED
  BY <1>1, <1>5, <1>6, <1>7, <1>8, <1>9

-----------------------------------------------------------------------------
(* IInv is an invariant: every handler, every commit, every restart.       *)
THEOREM Invariance == Spec => []IInv
<1>1. StoreInit => IInv
  BY InitInv
<1>2. IInv /\ [Next]_storeVars => IInv'
  <2> SUFFICES ASSUME IInv, [Next]_storeVars
               PROVE  IInv'
    OBVIOUS
  <2>1. CASE DepositNext
    BY <2>1, DepositStep
  <2>2. CASE TransferNext
    BY <2>2, TransferStep
  <2>3. CASE WithdrawalNext
    BY <2>3, WithdrawalStep
  <2>4. CASE ComplianceNext
    BY <2>4, ComplianceStep
  <2>5. CASE SessionNext
    BY <2>5, SessionStep
  <2>6. CASE ConversionNext
    BY <2>6, ConversionStep
  <2>7. CASE UsdcNext
    BY <2>7, UsdcStep
  <2>8. CASE UNCHANGED storeVars
    BY <2>8, DropInv DEF storeVars, IInv, Sessions
  <2> QED
    BY <2>1, <2>2, <2>3, <2>4, <2>5, <2>6, <2>7, <2>8 DEF Next, BOBNext
<1> QED
  BY <1>1, <1>2, PTL DEF Spec

(* The reserve of every wallet is the sum of the operations that hold it,  *)
(* for any number of users, documents, requests and restarts: what         *)
(* auditWalletReserves looks for cannot happen.                            *)
THEOREM ReservesAlwaysMatch == Spec => []ReservesMatch
<1>1. IInv => ReservesMatch
  BY DEF IInv
<1> QED
  BY <1>1, Invariance, PTL

(* Type correctness of documents and of the writes of open sessions.       *)
THEOREM TypeCorrect == Spec => []TypeOK
<1>1. IInv => TypeOK
  <2> SUFFICES ASSUME IInv PROVE TypeOK
    OBVIOUS
  <2>1. ASSUME NEW r \in Req
        PROVE  /\ DOMAIN session[r].w \subseteq Wallet
               /\ \A k \in DOMAIN session[r].w : session[r].w[k] \in WalletDoc
               /\ DOMAIN session[r].t \subseteq Tx
               /\ \A x \in DOMAIN session[r].t : session[r].t[x] \in TxDoc
    <3>1. CASE session[r] = Idle
      BY <3>1 DEF Idle
    <3>2. CASE session[r] # Idle
      BY <3>2 DEF IInv, Sound, Good, Formed
    <3> QED
      BY <3>1, <3>2
  <2> QED
    BY <2>1 DEF IInv, TypeOK
<1> QED
  BY <1>1, Invariance, PTL

-----------------------------------------------------------------------------
(***************************************************************************)
(* What the wallets keep besides their reserves, for any users, documents, *)
(* requests, amounts and limits: the books, solvency, single use of codes  *)
(* and holds, the daily limit, settled documents and frozen wallets.       *)
(*                                                                         *)
(* None of these is inductive: an open session computed its writes from an *)
(* older state.  SafeWrites says of every open session, against the        *)
(* CURRENT documents, that its commit keeps them.  It mentions only        *)
(* documents the session writes, except for claims and the daily limit:    *)
(* there, whoever could disturb it writes the same wallet and drops it.    *)
(***************************************************************************)

-----------------------------------------------------------------------------
(* One document.                                                           *)

(* It belongs to a user, its amounts are small and positive (a freeze      *)
(* writes down any balance), a transfer is completed from the start, and a *)
(* conversion leaves the wallet of its currency.                           *)
Proper(doc) ==
  /\ doc.status # "unused" => doc.wallet \in User \X Currency
  /\ doc.type \notin {"freeze", "unfreeze"} =>
       doc.amount \in 0 .. MaxAmount /\ doc.counter \in 0 .. MaxAmount
  /\ doc.type \in {"send", "fee"} => doc.status = "completed"
  /\ doc.type = "bob_to_usdc" => doc.wallet[2] = "BOB"
  /\ doc.type = "usdc_to_bob" => doc.wallet[2] = "USDC"

(* A later version of the same movement.                                   *)
SameEntry(new, old) ==
  /\ new.type = old.type /\ new.wallet = old.wallet /\ new.amount = old.amount
  /\ new.ref = old.ref /\ new.day = old.day /\ new.method = old.method
Opens(new, old) ==
  /\ new.status # "unused"
  /\ old.status \notin Terminal
  /\ old.status = "unused" \/ SameEntry(new, old)

-----------------------------------------------------------------------------
(* Solvency.                                                               *)
Spender == (User \ Freezable) \X Currency
Covered(d) == 0 <= d.balanceReserved /\ d.balanceReserved <= d.balance

-----------------------------------------------------------------------------
(* The books.  The wallet of the fees counts every fee; a user's wallet    *)
(* counts what was moved in and out.  With bank QRs a deposit can be       *)
(* credited twice, and only the fees are accounted for.                    *)
In(doc, k) ==
  IF k = feeConfig THEN IF doc.type = "fee" THEN doc.amount ELSE 0
                   ELSE Moved(doc, k, CreditTypes)
Out(doc, k) == IF k = feeConfig THEN 0 ELSE Moved(doc, k, DebitTypes)
Booked ==
  IF BankQr THEN {feeConfig} ELSE Wallet \ {BOB(u) : u \in Freezable}
Value(k, d) == IF k = feeConfig THEN d.balance ELSE d.balance + d.balanceFrozen

Ins(k) == [x \in Tx |-> In(wtx[x], k)]
Outs(k) == [x \in Tx |-> Out(wtx[x], k)]
BooksMatch == \A k \in Booked : Value(k, wallet[k]) = Total(Ins(k)) - Total(Outs(k))

Net(doc, k) == In(doc, k) - Out(doc, k)
Adds(w, k) == IF k \in DOMAIN w THEN Value(k, w[k]) - Value(k, wallet[k]) ELSE 0
Posts(t, x, k) == Net(t[x], k) - Net(wtx[x], k)
BookedBy(x, y, z, w, t) ==
  /\ DOMAIN t = {x, y, z}
  /\ \A k \in Booked :
       Adds(w, k) = Posts(t, x, k) + (IF y = x THEN 0 ELSE Posts(t, y, k))
                                   + (IF z \in {x, y} THEN 0 ELSE Posts(t, z, k))

-----------------------------------------------------------------------------
(* Claims: a code is claimed by the send that pays it, a payment by the    *)
(* hold of its payer.  Whoever claims writes the wallet at the gate.       *)
Claims(doc, c) ==
  /\ doc.ref = c
  /\ \/ c \in Charge /\ doc.type = "send"
     \/ /\ c \in Payment /\ doc.type = "crossborder_payin"
        /\ doc.status \in {"pending", "completed"}
Gate(c) == IF c \in Charge THEN <<chargeOf[c].creator, chargeOf[c].asset>>
                           ELSE USDC(payer[c])
Claim == Charge \cup Payment
Unclaimed(c) == \A x \in Tx : ~Claims(wtx[x], c)
ClaimedOnce ==
  \A c \in Claim, x, y \in Tx : Claims(wtx[x], c) /\ Claims(wtx[y], c) => x = y
ClaimSafe(w, t) ==
  \A c \in Claim, x \in DOMAIN t :
    Claims(t[x], c) /\ ~Claims(wtx[x], c) =>
      Gate(c) \in DOMAIN w /\ Unclaimed(c) /\ \A y \in DOMAIN t \ {x} : ~Claims(t[y], c)

-----------------------------------------------------------------------------
(* The daily limit of withdrawals.  A withdrawal at the bank ("dispatched") *)
(* is not counted by requestWithdrawal, so the limit is one on the         *)
(* withdrawals that are paid by hand.                                      *)
Capped == WithdrawLimit > 0 /\ "bank" \notin Methods
Day == 0 .. MaxDay
ByHand(doc) ==
  Capped /\ doc.type = "withdrawal" => doc.method # "bank" /\ doc.status # "dispatched"
Asks(doc, u, d) ==
  IF /\ doc.wallet = BOB(u) /\ doc.type = "withdrawal" /\ doc.day = d
     /\ doc.status \in {"pending", "dispatched", "completed"}
    THEN doc.amount ELSE 0
RequestedOn(u, d) == Total([x \in Tx |-> Asks(wtx[x], u, d)])
CapKept == Capped => \A u \in User, d \in Day : RequestedOn(u, d) <= WithdrawLimit
CapSafe(w, t) ==
  Capped =>
    \A u \in User, d \in Day, x \in DOMAIN t :
      Asks(t[x], u, d) > Asks(wtx[x], u, d) =>
        /\ BOB(u) \in DOMAIN w /\ DOMAIN t = {x}
        /\ RequestedOn(u, d) + Asks(t[x], u, d) <= WithdrawLimit

-----------------------------------------------------------------------------
(* Commitments of a wallet are made while it is active.                    *)
CommitmentSafe(w, t) ==
  /\ \A k \in DOMAIN w : w[k].balanceReserved > wallet[k].balanceReserved => Active(k)
  /\ \A x \in DOMAIN t :
       t[x].type \in {"send", "fee"} => t[x].wallet \in DOMAIN w /\ Active(t[x].wallet)

-----------------------------------------------------------------------------
(* What a bank is asked about: never a deposit, without bank QRs.          *)
CallsOK == \A x \in calls : /\ wtx[x].status # "unused"
                            /\ ~BankQr => wtx[x].type # "deposit"

SafeWrites(w, t) ==
  /\ Formed(w, t)
  /\ \A x \in DOMAIN t : Proper(t[x]) /\ ByHand(t[x]) /\ Opens(t[x], wtx[x])
  /\ \A k \in DOMAIN w \cap Spender : Covered(w[k])
  /\ \E x, y, z \in Tx : BookedBy(x, y, z, w, t)
  /\ ClaimSafe(w, t)
  /\ CapSafe(w, t)
  /\ CommitmentSafe(w, t)

SafeSession(r) == session[r] = Idle \/ SafeWrites(session[r].w, session[r].t)

Safe ==
  /\ IInv
  /\ \A x \in Tx : Proper(wtx[x]) /\ ByHand(wtx[x])
  /\ \A k \in Spender : Covered(wallet[k])
  /\ BooksMatch
  /\ ClaimedOnce
  /\ CapKept
  /\ CallsOK
  /\ \A r \in Req : SafeSession(r)

-----------------------------------------------------------------------------
(* More about sums.                                                        *)

LEMMA TotalMonotone ==
  ASSUME NEW f \in [Tx -> Int], NEW g \in [Tx -> Int], \A x \in Tx : f[x] <= g[x]
  PROVE  Total(f) <= Total(g)
<1>1. Units(f) \subseteq Units(g)
  BY BoundAssumption DEF Units, Amount
<1>2. Cardinality(Units(f)) <= Cardinality(Units(g))
  BY <1>1, UnitsFinite, FS_Subset
<1> QED
  BY <1>2 DEF Total, Units

LEMMA TotalNat == ASSUME NEW f PROVE Total(f) \in Nat
<1>1. Cardinality(Units(f)) \in Nat
  BY UnitsFinite, FS_CardinalityType
<1> QED
  BY <1>1 DEF Total, Units

(* One document is no larger than the total it is part of.                 *)
LEMMA TotalCovers ==
  ASSUME NEW f \in [Tx -> 0 .. MaxAmount], NEW x \in Tx
  PROVE  f[x] <= Total(f)
<1> DEFINE g == [f EXCEPT ![x] = 0]
<1>1. g \in [Tx -> 0 .. MaxAmount] /\ g[x] = 0 /\ \A y \in Tx \ {x} : g[y] = f[y]
  BY BoundAssumption
<1> HIDE DEF g
<1>2. Total(g) = Total(f) + g[x] - f[x]
  BY <1>1, TotalUpdate
<1> QED
  BY <1>1, <1>2, TotalNat, BoundAssumption

(* Three documents change (some of them may be one and the same).          *)
Drift(f, g, x, y, z) ==
  (g[x] - f[x]) + (IF y = x THEN 0 ELSE g[y] - f[y])
                + (IF z \in {x, y} THEN 0 ELSE g[z] - f[z])
LEMMA TotalThree ==
  ASSUME NEW f \in [Tx -> 0 .. MaxAmount], NEW g \in [Tx -> 0 .. MaxAmount],
         NEW x \in Tx, NEW y \in Tx, NEW z \in Tx,
         \A v \in Tx \ {x, y, z} : g[v] = f[v]
  PROVE  Total(g) = Total(f) + Drift(f, g, x, y, z)
<1> DEFINE f1 == [f EXCEPT ![x] = g[x]]
<1> DEFINE f2 == [f1 EXCEPT ![y] = g[y]]
<1>1. /\ f1 \in [Tx -> 0 .. MaxAmount] /\ f1[x] = g[x]
      /\ \A v \in Tx \ {x} : f1[v] = f[v]
  OBVIOUS
<1> HIDE DEF f1
<1>2. /\ f2 \in [Tx -> 0 .. MaxAmount] /\ f2[y] = g[y]
      /\ \A v \in Tx \ {y} : f2[v] = f1[v]
  BY <1>1
<1> HIDE DEF f2
<1>3. \A v \in Tx \ {z} : g[v] = f2[v]
  BY <1>1, <1>2
<1>4. Total(f1) = Total(f) + f1[x] - f[x]
  BY <1>1, TotalUpdate
<1>5. Total(f2) = Total(f1) + f2[y] - f1[y]
  BY <1>1, <1>2, TotalUpdate
<1>6. Total(g) = Total(f2) + g[z] - f2[z]
  BY <1>2, <1>3, TotalUpdate
<1>7. /\ f[x] \in Int /\ f[y] \in Int /\ f[z] \in Int
      /\ g[x] \in Int /\ g[y] \in Int /\ g[z] \in Int
      /\ Total(f) \in Int /\ Total(g) \in Int
  BY TotalNat, BoundAssumption
<1>8. /\ f1[y] = IF y = x THEN g[y] ELSE f[y]
      /\ f2[z] = IF z \in {x, y} THEN g[z] ELSE f[z]
  BY <1>1, <1>2
<1> QED
  BY <1>1, <1>2, <1>4, <1>5, <1>6, <1>7, <1>8 DEF Drift

(* What a movement counts for is at most the largest amount.               *)
LEMMA EntryBounded ==
  ASSUME NEW doc \in TxDoc, Proper(doc), NEW k
  PROVE  /\ In(doc, k) \in 0 .. MaxAmount /\ Out(doc, k) \in 0 .. MaxAmount
         /\ Net(doc, k) \in Int
<1>1. In(doc, k) \in 0 .. MaxAmount /\ Out(doc, k) \in 0 .. MaxAmount
  BY BoundAssumption DEF Proper, In, Out, Moved, CreditTypes, DebitTypes
<1> QED
  BY <1>1, BoundAssumption DEF Net

LEMMA AskBounded ==
  ASSUME NEW doc \in TxDoc, Proper(doc), NEW u, NEW d
  PROVE  Asks(doc, u, d) \in 0 .. MaxAmount
BY BoundAssumption DEF Proper, Asks

-----------------------------------------------------------------------------
(* Sessions.                                                               *)

(* What a step that writes wallets W and documents T does to the rest: it  *)
(* claims nothing, and asks for nothing, of which it does not write the    *)
(* wallet.                                                                 *)
Gated(W) ==
  /\ \A c \in Claim, x \in Tx : Claims(wtx'[x], c) /\ ~Claims(wtx[x], c) => Gate(c) \in W
  /\ Capped => \A u \in User, d \in Day, x \in Tx :
                 Asks(wtx'[x], u, d) > Asks(wtx[x], u, d) => BOB(u) \in W
Outside(W, T) ==
  /\ \A k \in Wallet \ W : wallet'[k] = wallet[k]
  /\ \A x \in Tx \ T : wtx'[x] = wtx[x]

(* A session that writes none of the documents that changed is as safe as  *)
(* before.                                                                 *)
LEMMA SafeKept ==
  ASSUME wallet' \in [Wallet -> WalletDoc], wtx' \in [Tx -> TxDoc],
         wallet \in [Wallet -> WalletDoc], wtx \in [Tx -> TxDoc],
         \A x \in Tx : Proper(wtx[x]) /\ Proper(wtx'[x]),
         NEW W, NEW T, Outside(W, T), Gated(W),
         NEW w, NEW t, SafeWrites(w, t), DOMAIN w \cap W = {}, DOMAIN t \cap T = {}
  PROVE  SafeWrites(w, t)'
<1>1. DOMAIN w \subseteq Wallet /\ DOMAIN t \subseteq Tx
  BY DEF SafeWrites, Formed
<1>2. /\ \A k \in DOMAIN w : wallet'[k] = wallet[k]
      /\ \A x \in DOMAIN t : wtx'[x] = wtx[x]
  BY <1>1 DEF Outside
<1>3. Formed(w, t)'
  BY DEF SafeWrites, Formed
<1>4. (\A x \in DOMAIN t : Proper(t[x]) /\ ByHand(t[x]) /\ Opens(t[x], wtx[x]))'
  BY <1>2 DEF SafeWrites, Proper, ByHand, Capped, Opens, SameEntry
<1>5. (\A k \in DOMAIN w \cap Spender : Covered(w[k]))'
  BY DEF SafeWrites, Covered, Spender, Currency
<1>6. (\E x, y, z \in Tx : BookedBy(x, y, z, w, t))'
  <2>1. PICK x \in Tx, y \in Tx, z \in Tx : BookedBy(x, y, z, w, t)
    BY DEF SafeWrites
  <2>2. \A v \in DOMAIN t, k \in Wallet : Posts(t, v, k)' = Posts(t, v, k)
    BY <1>2 DEF Posts, Net, In, Out, Moved
  <2>3. \A k \in Wallet : Adds(w, k)' = Adds(w, k)
    BY <1>2 DEF Adds, Value
  <2>4. Booked' = Booked /\ Booked \subseteq Wallet
    BY DEF Booked, BOB, Wallet
  <2>5. BookedBy(x, y, z, w, t)'
    BY <2>1, <2>2, <2>3, <2>4 DEF BookedBy
  <2> QED
    BY <2>5
<1>7. ClaimSafe(w, t)'
  <2> SUFFICES ASSUME NEW c \in Claim, NEW x \in DOMAIN t,
                      Claims(t[x], c)', ~Claims(wtx[x], c)'
               PROVE  (/\ Gate(c) \in DOMAIN w /\ Unclaimed(c)
                       /\ \A y \in DOMAIN t \ {x} : ~Claims(t[y], c))'
    BY DEF ClaimSafe, Claim
  <2>1. Claims(t[x], c) /\ ~Claims(wtx[x], c)
    BY <1>2 DEF Claims
  <2>2. /\ Gate(c) \in DOMAIN w /\ Unclaimed(c)
        /\ \A y \in DOMAIN t \ {x} : ~Claims(t[y], c)
    BY <2>1 DEF SafeWrites, ClaimSafe
  <2>3. Gate(c) \notin W
    BY <2>2
  <2>4. Unclaimed(c)'
    BY <2>2, <2>3 DEF Unclaimed, Gated, Claims
  <2> QED
    BY <2>2, <2>4 DEF Claims, Gate, USDC
<1>8. CapSafe(w, t)'
  <2> SUFFICES ASSUME Capped, NEW u \in User, NEW d \in Day, NEW x \in DOMAIN t,
                      Asks(t[x], u, d) > Asks(wtx'[x], u, d)
               PROVE  /\ BOB(u) \in DOMAIN w /\ DOMAIN t = {x}
                      /\ RequestedOn(u, d)' + Asks(t[x], u, d) <= WithdrawLimit
    BY DEF CapSafe, Capped, Day, Asks, BOB
  <2>1. Asks(t[x], u, d) > Asks(wtx[x], u, d)
    BY <1>2
  <2>2. /\ BOB(u) \in DOMAIN w /\ DOMAIN t = {x}
        /\ RequestedOn(u, d) + Asks(t[x], u, d) <= WithdrawLimit
    BY <2>1 DEF SafeWrites, CapSafe
  <2>3. \A y \in Tx : Asks(wtx'[y], u, d) \in 0 .. MaxAmount /\ Asks(wtx[y], u, d) \in 0 .. MaxAmount
    BY AskBounded
  <2>4. BOB(u) \notin W
    BY <2>2
  <2>5. \A y \in Tx : Asks(wtx'[y], u, d) <= Asks(wtx[y], u, d)
    BY <2>3, <2>4, BoundAssumption DEF Gated
  <2>6. RequestedOn(u, d)' <= RequestedOn(u, d)
    <3> DEFINE f == [y \in Tx |-> Asks(wtx[y], u, d)]
    <3> DEFINE g == [y \in Tx |-> Asks(wtx'[y], u, d)]
    <3>1. f \in [Tx -> Int] /\ g \in [Tx -> Int] /\ \A y \in Tx : g[y] <= f[y]
      BY <2>3, <2>5, BoundAssumption
    <3>2. RequestedOn(u, d) = Total(f) /\ RequestedOn(u, d)' = Total(g)
      BY DEF RequestedOn, Asks, BOB
    <3> HIDE DEF f, g
    <3> QED
      BY <3>1, <3>2, TotalMonotone
  <2>7. Asks(t[x], u, d) \in Int
    <3>1. t[x] \in TxDoc /\ Proper(t[x])
      BY DEF SafeWrites, Formed
    <3> QED
      BY <3>1, AskBounded, BoundAssumption
  <2>8. RequestedOn(u, d) \in Nat /\ RequestedOn(u, d)' \in Nat
    BY TotalNat DEF RequestedOn
  <2> QED
    BY <2>2, <2>6, <2>7, <2>8, BOBAssumption
<1>9. CommitmentSafe(w, t)'
  BY <1>1, <1>2 DEF SafeWrites, CommitmentSafe, Active
<1> QED
  BY <1>3, <1>4, <1>5, <1>6, <1>7, <1>8, <1>9 DEF SafeWrites

(* The documents and their sums, without the sessions.                     *)
Docs ==
  /\ \A x \in Tx : Proper(wtx[x]) /\ ByHand(wtx[x])
  /\ \A k \in Spender : Covered(wallet[k])
  /\ BooksMatch
  /\ ClaimedOnce
  /\ CapKept

(* Safe writes keep the documents safe.                                    *)
LEMMA InstalledSafe ==
  ASSUME IInv, IInv', Docs, NEW w, NEW t, SafeWrites(w, t),
         wallet' = w (+) wallet, wtx' = t (+) wtx
  PROVE  Docs' /\ Gated(DOMAIN w) /\ Outside(DOMAIN w, DOMAIN t)
<1>1. /\ wallet \in [Wallet -> WalletDoc] /\ wtx \in [Tx -> TxDoc]
      /\ wallet' \in [Wallet -> WalletDoc] /\ wtx' \in [Tx -> TxDoc]
  BY DEF IInv
<1>2. DOMAIN w \subseteq Wallet /\ DOMAIN t \subseteq Tx
  BY DEF SafeWrites, Formed
<1>3. /\ \A k \in Wallet \ DOMAIN w : wallet'[k] = wallet[k]
      /\ \A k \in DOMAIN w : wallet'[k] = w[k]
      /\ \A x \in Tx \ DOMAIN t : wtx'[x] = wtx[x]
      /\ \A x \in DOMAIN t : wtx'[x] = t[x]
  BY <1>1, <1>2 DEF (+)
<1>4. (\A x \in Tx : Proper(wtx[x]) /\ ByHand(wtx[x]))'
  BY <1>3 DEF Docs, SafeWrites, Proper, ByHand, Capped
<1>5. (\A k \in Spender : Covered(wallet[k]))'
  <2>1. Spender \subseteq Wallet
    BY DEF Spender, Wallet
  <2> QED
    BY <1>3, <2>1 DEF Docs, SafeWrites, Covered, Spender, Currency
<1>6. BooksMatch'
  <2>1. PICK x \in Tx, y \in Tx, z \in Tx : BookedBy(x, y, z, w, t)
    BY DEF SafeWrites
  <2> SUFFICES ASSUME NEW k \in Booked
               PROVE  Value(k, wallet'[k]) = Total(Ins(k)') - Total(Outs(k)')
    BY DEF BooksMatch, Booked, Value, BOB, feeConfig, Wallet, Currency
  <2>2. k \in Wallet
    BY DEF Booked, Wallet
  <2>3. \A v \in Tx : /\ In(wtx[v], k) \in 0 .. MaxAmount /\ Out(wtx[v], k) \in 0 .. MaxAmount
                      /\ In(wtx'[v], k) \in 0 .. MaxAmount /\ Out(wtx'[v], k) \in 0 .. MaxAmount
    BY <1>1, <1>4, EntryBounded DEF Docs
  <2>4. \A v \in Tx \ {x, y, z} : wtx'[v] = wtx[v]
    BY <1>3, <2>1 DEF BookedBy
  <2> DEFINE i == Ins(k)
  <2> DEFINE j == Ins(k)'
  <2> DEFINE o == Outs(k)
  <2> DEFINE p == Outs(k)'
  <2>5. /\ i \in [Tx -> 0 .. MaxAmount] /\ j \in [Tx -> 0 .. MaxAmount]
        /\ o \in [Tx -> 0 .. MaxAmount] /\ p \in [Tx -> 0 .. MaxAmount]
        /\ \A v \in Tx \ {x, y, z} : j[v] = i[v]
        /\ \A v \in Tx \ {x, y, z} : p[v] = o[v]
    BY <2>3, <2>4 DEF Ins, Outs
  <2>6. \A v \in {x, y, z} : Posts(t, v, k) = (j[v] - i[v]) - (p[v] - o[v])
    BY <1>3, <2>1, <2>3 DEF Posts, Net, Ins, Outs, BookedBy
  <2>7. \A v \in Tx : i[v] \in Int /\ j[v] \in Int /\ o[v] \in Int /\ p[v] \in Int
    BY <2>5, BoundAssumption
  <2>8. Value(k, wallet[k]) = Total(i) - Total(o)
    BY DEF Docs, BooksMatch
  <2>9. Value(k, wallet'[k]) = Value(k, wallet[k]) + Adds(w, k)
    BY <1>1, <1>3, <2>2 DEF Adds, Value, WalletDoc
  <2>10. Adds(w, k) = Posts(t, x, k) + (IF y = x THEN 0 ELSE Posts(t, y, k))
                      + (IF z \in {x, y} THEN 0 ELSE Posts(t, z, k))
    BY <2>1 DEF BookedBy
  <2> HIDE DEF i, j, o, p
  <2>11. Total(j) = Total(i) + Drift(i, j, x, y, z)
    BY SMTT(30), <2>5, TotalThree
  <2>12. Total(p) = Total(o) + Drift(o, p, x, y, z)
    BY SMTT(30), <2>5, TotalThree
  <2>13. Total(i) \in Int /\ Total(j) \in Int /\ Total(o) \in Int /\ Total(p) \in Int
    BY TotalNat
  <2>14. /\ Posts(t, x, k) = (j[x] - i[x]) - (p[x] - o[x])
         /\ Posts(t, y, k) = (j[y] - i[y]) - (p[y] - o[y])
         /\ Posts(t, z, k) = (j[z] - i[z]) - (p[z] - o[z])
    BY <2>6
  <2>15. Adds(w, k) = Drift(i, j, x, y, z) - Drift(o, p, x, y, z)
    BY <2>7, <2>10, <2>14 DEF Drift
  <2>16. Drift(i, j, x, y, z) \in Int /\ Drift(o, p, x, y, z) \in Int
    BY <2>7 DEF Drift
  <2>17. Value(k, wallet'[k]) = Total(j) - Total(p)
    BY <2>8, <2>9, <2>11, <2>12, <2>13, <2>15, <2>16
  <2> QED
    BY <2>17 DEF j, p
<1>7. ClaimedOnce' /\ \A c \in Claim, x \in Tx :
                         Claims(wtx'[x], c) /\ ~Claims(wtx[x], c) => Gate(c) \in DOMAIN w
  <2>1. \A c \in Claim, x \in Tx : Claims(wtx'[x], c) /\ ~Claims(wtx[x], c) =>
          /\ x \in DOMAIN t /\ Gate(c) \in DOMAIN w /\ Unclaimed(c)
          /\ \A y \in Tx \ {x} : ~Claims(wtx'[y], c)
    BY <1>2, <1>3 DEF SafeWrites, ClaimSafe, Unclaimed
  <2>2. \A c \in Claim, x, y \in Tx : Claims(wtx'[x], c) /\ Claims(wtx'[y], c) => x = y
    BY <2>1 DEF Docs, ClaimedOnce
  <2> QED
    BY <2>1, <2>2 DEF ClaimedOnce, Claims, Claim
<1>8. ASSUME Capped, NEW u \in User, NEW d \in Day
      PROVE  /\ RequestedOn(u, d)' <= WithdrawLimit
             /\ \A x \in Tx : Asks(wtx'[x], u, d) > Asks(wtx[x], u, d) => BOB(u) \in DOMAIN w
  <2> DEFINE f == [x \in Tx |-> Asks(wtx[x], u, d)]
  <2> DEFINE g == [x \in Tx |-> Asks(wtx'[x], u, d)]
  <2>1. f \in [Tx -> 0 .. MaxAmount] /\ g \in [Tx -> 0 .. MaxAmount]
    BY <1>1, <1>4, AskBounded DEF Docs
  <2>2. RequestedOn(u, d) = Total(f) /\ RequestedOn(u, d)' = Total(g)
    BY DEF RequestedOn, Asks, BOB
  <2>3. Total(f) <= WithdrawLimit
    BY <1>8, <2>2 DEF Docs, CapKept
  <2>4. CASE \A x \in Tx : ~(Asks(wtx'[x], u, d) > Asks(wtx[x], u, d))
    <3>1. f \in [Tx -> Int] /\ g \in [Tx -> Int]
      BY <2>1, BoundAssumption
    <3>2. \A x \in Tx : g[x] <= f[x]
      BY <2>4, <3>1
    <3> HIDE DEF f, g
    <3>3. Total(g) <= Total(f)
      BY <3>1, <3>2, TotalMonotone
    <3>4. Total(g) \in Int /\ Total(f) \in Int
      BY TotalNat
    <3> QED
      BY <2>2, <2>3, <2>4, <3>3, <3>4, BOBAssumption
  <2>5. ASSUME NEW x \in Tx, Asks(wtx'[x], u, d) > Asks(wtx[x], u, d)
        PROVE  RequestedOn(u, d)' <= WithdrawLimit /\ BOB(u) \in DOMAIN w
    <3>1. Asks(wtx[x], u, d) \in Int
      BY <2>1, BoundAssumption
    <3>2. x \in DOMAIN t
      BY <1>3, <2>5, <3>1
    <3>3. /\ BOB(u) \in DOMAIN w /\ DOMAIN t = {x}
          /\ RequestedOn(u, d) + Asks(t[x], u, d) <= WithdrawLimit
      BY <1>3, <1>8, <2>5, <3>2 DEF SafeWrites, CapSafe
    <3>4. \A y \in Tx \ {x} : g[y] = f[y]
      BY <1>3, <3>3
    <3>5. f[x] \in 0 .. MaxAmount /\ g[x] = Asks(t[x], u, d) /\ g[x] \in 0 .. MaxAmount
      BY <1>3, <2>1, <3>2
    <3> HIDE DEF f, g
    <3>6. Total(g) = Total(f) + g[x] - f[x]
      BY <2>1, <3>4, TotalUpdate
    <3>7. Total(g) \in Int /\ Total(f) \in Int
      BY TotalNat
    <3> QED
      BY <2>2, <3>3, <3>5, <3>6, <3>7, BOBAssumption, BoundAssumption
  <2> QED
    BY <2>4, <2>5
<1>9. CapKept'
  BY <1>8 DEF CapKept, Capped, Day
<1> QED
  BY <1>3, <1>4, <1>5, <1>6, <1>7, <1>8, <1>9 DEF Docs, Gated, Outside

(* A step that writes wallets W and documents T and drops the sessions     *)
(* they clash with.                                                        *)
LEMMA OthersSafe ==
  ASSUME Safe, IInv', Docs', NEW W, NEW T, Outside(W, T), Gated(W),
         session' = Surviving(W, T)
  PROVE  (\A q \in Req : SafeSession(q))'
<1> SUFFICES ASSUME NEW r \in Req, session'[r] # Idle
             PROVE  SafeSession(r)'
  BY DEF SafeSession
<1>1. ~Clashes(session[r], W, T) /\ session'[r] = session[r]
  BY DEF Surviving
<1>2. SafeWrites(session[r].w, session[r].t)
  BY <1>1 DEF Safe, SafeSession
<1>3. DOMAIN session[r].w \cap W = {} /\ DOMAIN session[r].t \cap T = {}
  BY <1>1 DEF Clashes
<1>4. /\ wallet' \in [Wallet -> WalletDoc] /\ wtx' \in [Tx -> TxDoc]
      /\ wallet \in [Wallet -> WalletDoc] /\ wtx \in [Tx -> TxDoc]
  BY DEF IInv, Safe
<1>5. \A x \in Tx : Proper(wtx[x]) /\ Proper(wtx'[x])
  BY DEF Docs, Safe, Proper
<1>6. \A w, t : SafeWrites(w, t) /\ DOMAIN w \cap W = {} /\ DOMAIN t \cap T = {}
                  => SafeWrites(w, t)'
  BY <1>4, <1>5, SafeKept
<1> QED
  BY <1>1, <1>2, <1>3, <1>6 DEF SafeSession

(* The commit of a session.                                                *)
LEMMA CommitSafe ==
  ASSUME Safe, IInv', NEW r \in Req, Commit(r)
  PROVE  Safe'
<1> DEFINE w == session[r].w
<1> DEFINE t == session[r].t
<1>1. SafeWrites(w, t) /\ wallet' = w (+) wallet /\ wtx' = t (+) wtx
  BY DEF Safe, SafeSession, Commit
<1>2. session' = Surviving(DOMAIN w, DOMAIN t) /\ calls' = calls
  BY DEF Commit
<1>3. IInv /\ Docs
  BY DEF Safe, Docs
<1> HIDE DEF w, t
<1>4. Docs' /\ Gated(DOMAIN w) /\ Outside(DOMAIN w, DOMAIN t)
  BY <1>1, <1>3, InstalledSafe
<1>5. (\A q \in Req : SafeSession(q))'
  BY <1>2, <1>4, OthersSafe
<1>6. CallsOK'
  <2> SUFFICES ASSUME NEW x \in calls
               PROVE  wtx'[x].status # "unused" /\ (~BankQr => wtx'[x].type # "deposit")
    BY <1>2 DEF CallsOK
  <2>1. x \in Tx /\ wtx[x].status # "unused" /\ (~BankQr => wtx[x].type # "deposit")
    BY <1>3 DEF IInv, Safe, CallsOK
  <2>2. CASE x \notin DOMAIN t
    BY <1>4, <2>1, <2>2 DEF Outside
  <2>3. CASE x \in DOMAIN t
    <3>1. wtx'[x] = t[x]
      BY <1>1, <1>3, <2>1, <2>3 DEF (+), IInv
    <3>2. Opens(t[x], wtx[x])
      BY <1>1, <2>3 DEF SafeWrites
    <3> QED
      BY <2>1, <3>1, <3>2 DEF Opens, SameEntry
  <2> QED
    BY <2>2, <2>3
<1> QED
  BY <1>4, <1>5, <1>6 DEF Safe, Docs

(* A handler that issues its writes.                                       *)
LEMMA BeginSafe ==
  ASSUME Safe, IInv', NEW r \in Req, NEW w, NEW t, SafeWrites(w, t), Begin(r, w, t)
  PROVE  Safe'
<1>1. UNCHANGED <<wallet, wtx, calls, today>>
  BY DEF Begin
<1>2. session' = [session EXCEPT ![r] = [w |-> w, t |-> t]]
  BY DEF Begin
<1>3. /\ wallet' \in [Wallet -> WalletDoc] /\ wtx' \in [Tx -> TxDoc]
      /\ wallet \in [Wallet -> WalletDoc] /\ wtx \in [Tx -> TxDoc]
      /\ \A x \in Tx : Proper(wtx[x]) /\ Proper(wtx'[x])
  BY <1>1 DEF Safe, IInv
<1>4. Outside({}, {}) /\ Gated({})
  <2>1. \A u, d : \A x \in Tx : ~(Asks(wtx[x], u, d) > Asks(wtx[x], u, d))
    BY <1>3, AskBounded, BoundAssumption
  <2> QED
    BY <1>1, <2>1 DEF Outside, Gated
<1>5. \A w1, t1 : SafeWrites(w1, t1) => SafeWrites(w1, t1)'
  BY <1>3, <1>4, SafeKept
<1>6. (\A q \in Req : SafeSession(q))'
  <2> SUFFICES ASSUME NEW q \in Req
               PROVE  SafeSession(q)'
    OBVIOUS
  <2>1. CASE q = r
    BY <1>2, <1>5, <2>1 DEF Safe, SafeSession, IInv, Sessions
  <2>2. CASE q # r
    <3>1. session'[q] = session[q]
      BY <1>2, <2>2 DEF Safe, IInv, Sessions
    <3> QED
      BY <1>5, <3>1 DEF Safe, SafeSession
  <2> QED
    BY <2>1, <2>2
<1>7. Docs'
  BY <1>1 DEF Safe, Docs, BooksMatch, Ins, Outs, ClaimedOnce, CapKept, RequestedOn
<1> QED
  BY <1>1, <1>6, <1>7 DEF Safe, Docs, CallsOK

(* A plain update of one document that moves nothing, claims nothing and   *)
(* asks for no more.                                                       *)
LEMMA UpdateSafe ==
  ASSUME Safe, IInv', NEW x \in Tx, NEW doc \in TxDoc, UpdateOne(x, doc),
         Proper(doc), ByHand(doc),
         \A k \in Booked : In(doc, k) = In(wtx[x], k) /\ Out(doc, k) = Out(wtx[x], k),
         \A c \in Claim : Claims(doc, c) => Claims(wtx[x], c),
         \A u \in User, d \in Day : Asks(doc, u, d) <= Asks(wtx[x], u, d),
         CallsOK'
  PROVE  Safe'
<1>1. wallet' = wallet /\ wtx' = [wtx EXCEPT ![x] = doc] /\ session' = Surviving({}, {x})
  BY DEF UpdateOne
<1>2. wtx \in [Tx -> TxDoc] /\ wtx'[x] = doc /\ \A y \in Tx \ {x} : wtx'[y] = wtx[y]
  BY <1>1 DEF Safe, IInv
<1>3. \A y \in Tx : Proper(wtx'[y]) /\ ByHand(wtx'[y])
  BY <1>2 DEF Safe
<1>4. BooksMatch'
  <2>1. \A k \in Booked : Ins(k)' = Ins(k) /\ Outs(k)' = Outs(k)
    BY <1>2 DEF Ins, Outs
  <2> QED
    BY <1>1, <2>1 DEF BooksMatch, Safe, Booked, Value, BOB
<1>5. \A c \in Claim, y \in Tx : Claims(wtx'[y], c) => Claims(wtx[y], c)
  BY <1>2
<1>6. ClaimedOnce'
  BY <1>5 DEF Safe, ClaimedOnce, Claims, Claim
<1>7. \A u \in User, d \in Day, y \in Tx :
        /\ Asks(wtx'[y], u, d) \in 0 .. MaxAmount /\ Asks(wtx[y], u, d) \in 0 .. MaxAmount
        /\ Asks(wtx'[y], u, d) <= Asks(wtx[y], u, d)
  <2>1. \A y \in Tx : wtx'[y] \in TxDoc
    BY <1>2
  <2> SUFFICES ASSUME NEW u \in User, NEW d \in Day, NEW y \in Tx
               PROVE  /\ Asks(wtx'[y], u, d) \in 0 .. MaxAmount
                      /\ Asks(wtx[y], u, d) \in 0 .. MaxAmount
                      /\ Asks(wtx'[y], u, d) <= Asks(wtx[y], u, d)
    OBVIOUS
  <2>2. Asks(wtx'[y], u, d) \in 0 .. MaxAmount /\ Asks(wtx[y], u, d) \in 0 .. MaxAmount
    BY <1>2, <1>3, <2>1, AskBounded DEF Safe
  <2>3. CASE y = x
    BY <1>2, <2>2, <2>3
  <2>4. CASE y # x
    BY <1>2, <2>2, <2>4, BoundAssumption
  <2> QED
    BY <2>2, <2>3, <2>4
<1>8. CapKept'
  <2> SUFFICES ASSUME Capped, NEW u \in User, NEW d \in Day
               PROVE  RequestedOn(u, d)' <= WithdrawLimit
    BY DEF CapKept, Capped, Day
  <2> DEFINE f == [y \in Tx |-> Asks(wtx[y], u, d)]
  <2> DEFINE g == [y \in Tx |-> Asks(wtx'[y], u, d)]
  <2>1. f \in [Tx -> Int] /\ g \in [Tx -> Int] /\ \A y \in Tx : g[y] <= f[y]
    BY <1>7, BoundAssumption
  <2>2. RequestedOn(u, d) = Total(f) /\ RequestedOn(u, d)' = Total(g)
    BY DEF RequestedOn, Asks, BOB
  <2>3. RequestedOn(u, d) <= WithdrawLimit
    BY DEF Safe, CapKept
  <2> HIDE DEF f, g
  <2>4. Total(g) <= Total(f) /\ Total(g) \in Int /\ Total(f) \in Int
    BY <2>1, TotalMonotone, TotalNat
  <2> QED
    BY <2>2, <2>3, <2>4, BOBAssumption
<1>9. Docs'
  BY <1>1, <1>3, <1>4, <1>6, <1>8 DEF Docs, Safe, Covered, Spender, Currency
<1>10. Outside({}, {x}) /\ Gated({})
  <2>1. Capped => \A u \in User, d \in Day, y \in Tx : ~(Asks(wtx'[y], u, d) > Asks(wtx[y], u, d))
    BY <1>7, BoundAssumption
  <2> QED
    BY <1>1, <1>2, <1>5, <2>1 DEF Outside, Gated
<1>11. (\A q \in Req : SafeSession(q))'
  BY <1>1, <1>9, <1>10, OthersSafe
<1> QED
  BY <1>9, <1>11 DEF Safe, Docs

(* A step that leaves the documents alone and only drops sessions or the   *)
(* awaited answers.                                                        *)
LEMMA DropSafe ==
  ASSUME Safe, IInv', UNCHANGED <<wallet, wtx>>, calls' \subseteq calls,
         \A r \in Req : session'[r] = Idle \/ session'[r] = session[r]
  PROVE  Safe'
<1>1. /\ wallet' \in [Wallet -> WalletDoc] /\ wtx' \in [Tx -> TxDoc]
      /\ wallet \in [Wallet -> WalletDoc] /\ wtx \in [Tx -> TxDoc]
      /\ \A x \in Tx : Proper(wtx[x]) /\ Proper(wtx'[x])
  BY DEF Safe, IInv
<1>2. Outside({}, {}) /\ Gated({})
  <2>1. \A u, d : \A x \in Tx : ~(Asks(wtx[x], u, d) > Asks(wtx[x], u, d))
    BY <1>1, AskBounded, BoundAssumption
  <2> QED
    BY <2>1 DEF Outside, Gated
<1>3. \A w, t : SafeWrites(w, t) => SafeWrites(w, t)'
  BY <1>1, <1>2, SafeKept
<1>4. (\A q \in Req : SafeSession(q))'
  BY <1>3 DEF Safe, SafeSession
<1>5. Docs' /\ CallsOK'
  BY DEF Safe, Docs, BooksMatch, Ins, Outs, ClaimedOnce, CapKept, RequestedOn, CallsOK
<1> QED
  BY <1>4, <1>5 DEF Safe, Docs

-----------------------------------------------------------------------------
(* The shapes of a handler's writes.                                       *)

LEMMA SafeTypes ==
  ASSUME Safe
  PROVE  /\ wallet \in [Wallet -> WalletDoc] /\ wtx \in [Tx -> TxDoc] /\ today \in Day
         /\ \A x \in Tx : Proper(wtx[x]) /\ ByHand(wtx[x])
         /\ \A k \in User \X Currency : k \in Wallet /\ k # feeConfig
         /\ \A k \in Wallet : /\ wallet[k] \in WalletDoc
                              /\ wallet[k].balance \in Int
                              /\ wallet[k].balanceReserved \in Int
                              /\ wallet[k].balanceFrozen \in Int
BY UserAssumption DEF Safe, IInv, Day, Wallet, feeConfig, WalletDoc

(* A document that is not settled has moved nothing.                       *)
LEMMA OpenMovesNothing ==
  ASSUME Safe, NEW x \in Tx, wtx[x].status \notin Terminal
  PROVE  \A k : /\ In(wtx[x], k) = 0 /\ Out(wtx[x], k) = 0 /\ Net(wtx[x], k) = 0
BY SafeTypes DEF In, Out, Net, Moved, Terminal, Proper

(* One wallet and one document: most handlers.                             *)
LEMMA OneMove ==
  ASSUME Safe, NEW x \in Tx, NEW k \in User \X Currency, NEW d \in WalletDoc,
         NEW doc \in TxDoc, doc.wallet = k, Proper(doc), ByHand(doc), Opens(doc, wtx[x]),
         doc.type \notin {"send", "fee"},
         d.balanceFrozen = wallet[k].balanceFrozen,
         d.balance = wallet[k].balance + Net(doc, k),
         k \in Spender => Covered(d),
         d.balanceReserved > wallet[k].balanceReserved => Active(k),
         \A c \in Claim : Claims(doc, c) => Claims(wtx[x], c) \/ (Gate(c) = k /\ Unclaimed(c)),
         Capped => \A u \in User, e \in Day :
                     \/ Asks(doc, u, e) <= Asks(wtx[x], u, e)
                     \/ k = BOB(u) /\ RequestedOn(u, e) + Asks(doc, u, e) <= WithdrawLimit
  PROVE  SafeWrites(Write(k, d), Write(x, doc))
<1> DEFINE w == Write(k, d)
<1> DEFINE t == Write(x, doc)
<1>1. DOMAIN w = {k} /\ w[k] = d /\ DOMAIN t = {x} /\ t[x] = doc
  BY DEF Write
<1>2. k \in Wallet /\ k # feeConfig
  BY SafeTypes
<1>3. Formed(w, t)
  BY <1>2 DEF Formed, Write
<1> HIDE DEF w, t
<1>4. BookedBy(x, x, x, w, t)
  <2>2. wtx[x].status \notin Terminal
    BY DEF Opens
  <2>3. \A j : Net(wtx[x], j) = 0
    BY <2>2, OpenMovesNothing
  <2>4. \A j : Net(doc, j) \in Int
    BY EntryBounded
  <2>5. \A j \in Booked \ {k} : Net(doc, j) = 0
    BY DEF Net, In, Out, Moved
  <2>6. Adds(w, k) = Net(doc, k)
    <3>1. /\ wallet[k].balance \in Int /\ wallet[k].balanceFrozen \in Int /\ d.balance \in Int
          /\ Net(doc, k) \in Int
      BY <1>2, <2>4, SafeTypes DEF WalletDoc
    <3> QED
      BY <1>1, <1>2, <3>1 DEF Adds, Value
  <2>7. \A j \in Booked : Adds(w, j) = Net(doc, j)
    BY <1>1, <2>5, <2>6 DEF Adds
  <2>8. \A j \in Booked : Adds(w, j) = Posts(t, x, j)
    BY <1>1, <2>3, <2>4, <2>7 DEF Posts
  <2>9. \A j \in Booked : Posts(t, x, j) \in Int
    BY <1>1, <2>3, <2>4 DEF Posts
  <2> QED
    BY <1>1, <2>8, <2>9 DEF BookedBy
<1>5. ClaimSafe(w, t)
  BY <1>1 DEF ClaimSafe
<1>6. CapSafe(w, t)
  <2>1. \A u, e : Asks(doc, u, e) \in Int /\ Asks(wtx[x], u, e) \in Int
    BY AskBounded, SafeTypes, BoundAssumption
  <2> QED
    BY <1>1, <2>1 DEF CapSafe
<1>7. CommitmentSafe(w, t)
  BY <1>1 DEF CommitmentSafe
<1> QED
  BY <1>1, <1>3, <1>4, <1>5, <1>6, <1>7 DEF SafeWrites, w, t

(* What an $inc returns, field by field.                                   *)
LEMMA IncFields ==
  ASSUME Safe, NEW k \in Wallet, NEW b \in Int, NEW r \in Int
  PROVE  /\ Inc(k, b, r) \in WalletDoc
         /\ Inc(k, b, r).balance = wallet[k].balance + b
         /\ Inc(k, b, r).balanceReserved = wallet[k].balanceReserved + r
         /\ Inc(k, b, r).balanceFrozen = wallet[k].balanceFrozen
<1> DEFINE d == wallet[k]
<1>1. d \in WalletDoc
  BY SafeTypes
<1>2. Inc(k, b, r) = [d EXCEPT !.balance = d.balance + b,
                               !.balanceReserved = d.balanceReserved + r]
  BY <1>1 DEF Inc, WalletDoc
<1>3. d.balance + b \in Int /\ d.balanceReserved + r \in Int
  BY <1>1 DEF WalletDoc
<1> HIDE DEF d
<1>4. /\ Inc(k, b, r) \in WalletDoc
      /\ Inc(k, b, r).balance = d.balance + b
      /\ Inc(k, b, r).balanceReserved = d.balanceReserved + r
      /\ Inc(k, b, r).balanceFrozen = d.balanceFrozen
  BY <1>1, <1>2, <1>3 DEF WalletDoc
<1> QED
  BY <1>4 DEF d

(* What changes when a document gets another status.                       *)
LEMMA SetFields ==
  ASSUME Safe, NEW x \in Tx, NEW s \in TxStatus
  PROVE  /\ Set(x, s) \in TxDoc
         /\ Set(x, s).status = s
         /\ SameEntry(Set(x, s), wtx[x])
         /\ Set(x, s).counter = wtx[x].counter
<1>1. wtx[x] \in TxDoc
  BY SafeTypes
<1> QED
  BY <1>1 DEF Set, TxDoc, SameEntry

(* A wallet reserves at least what each of its operations holds.           *)
LEMMA ReserveCovers ==
  ASSUME Safe, NEW x \in Tx, HoldsReserve(wtx[x])
  PROVE  /\ wtx[x].wallet \in User \X Currency /\ wtx[x].amount \in Amount
         /\ wtx[x].amount <= wallet[wtx[x].wallet].balanceReserved
<1> DEFINE k == wtx[x].wallet
<1>1. k \in User \X Currency /\ wtx[x].amount \in Amount
  BY DEF Safe, IInv, HoldsOK, HoldOK
<1>2. k \in Wallet
  BY <1>1, SafeTypes
<1>3. wallet[k].balanceReserved = Total(HeldIn(k))
  BY <1>2 DEF Safe, IInv, ReservesMatch, HeldIn
<1>4. HeldIn(k) \in [Tx -> 0 .. MaxAmount]
  BY HeldBounded DEF HeldIn, Safe, IInv, HoldsOK
<1>5. HeldIn(k)[x] = wtx[x].amount
  BY DEF HeldIn, Held
<1>6. HeldIn(k)[x] <= Total(HeldIn(k))
  BY <1>4, TotalCovers
<1> QED
  BY <1>1, <1>3, <1>5, <1>6

(* A document in progress reaches its final status.                        *)
LEMMA SettledDoc ==
  ASSUME Safe, NEW x \in Tx, wtx[x].status \in {"pending", "dispatched"}, NEW s \in Terminal
  PROVE  LET doc == Set(x, s) IN
         /\ doc \in TxDoc /\ doc.wallet = wtx[x].wallet /\ doc.wallet \in User \X Currency
         /\ Proper(doc) /\ ByHand(doc) /\ Opens(doc, wtx[x])
         /\ doc.type = wtx[x].type /\ doc.type \notin {"send", "fee"}
         /\ doc.status = s /\ doc.amount = wtx[x].amount /\ doc.counter = wtx[x].counter
         /\ \A c \in Claim : wtx[x].status = "pending" /\ Claims(doc, c) => Claims(wtx[x], c)
         /\ Capped => \A u \in User, e \in Day : Asks(doc, u, e) <= Asks(wtx[x], u, e)
<1> DEFINE doc == Set(x, s)
<1>1. doc \in TxDoc /\ doc.status = s /\ SameEntry(doc, wtx[x]) /\ doc.counter = wtx[x].counter
  BY SetFields DEF TxStatus
<1>2. Proper(wtx[x]) /\ ByHand(wtx[x])
  BY SafeTypes
<1> HIDE DEF doc
<1>3. doc.type \notin {"send", "fee"} /\ doc.wallet \in User \X Currency
  BY <1>1, <1>2 DEF Proper, SameEntry, Terminal
<1>4. Proper(doc) /\ ByHand(doc) /\ Opens(doc, wtx[x])
  BY <1>1, <1>2, <1>3 DEF Proper, ByHand, Opens, SameEntry, Terminal
<1>5. \A c \in Claim : wtx[x].status = "pending" /\ Claims(doc, c) => Claims(wtx[x], c)
  BY <1>1, RefAssumption DEF Claims, SameEntry
<1>6. \A u \in User, e \in Day : Asks(doc, u, e) <= Asks(wtx[x], u, e)
  <2> SUFFICES ASSUME NEW u \in User, NEW e \in Day
               PROVE  Asks(doc, u, e) <= Asks(wtx[x], u, e)
    OBVIOUS
  <2>1. Asks(doc, u, e) \in 0 .. MaxAmount /\ Asks(wtx[x], u, e) \in 0 .. MaxAmount
    BY <1>1, <1>2, <1>4, SafeTypes, AskBounded
  <2>2. Asks(doc, u, e) = 0 \/ Asks(doc, u, e) = Asks(wtx[x], u, e)
    BY <1>1 DEF Asks, SameEntry
  <2> QED
    BY <2>1, <2>2, BoundAssumption
<1> QED
  BY <1>1, <1>3, <1>4, <1>5, <1>6 DEF doc, SameEntry

(* An operation that held its amount is paid out, or gives it back.        *)
LEMMA ReleaseSafe ==
  ASSUME Safe, NEW x \in Tx, HoldsReserve(wtx[x])
  PROVE  LET k == wtx[x].wallet
             a == wtx[x].amount
         IN /\ SafeWrites(Write(k, Inc(k, -a, -a)), Write(x, Set(x, "completed")))
            /\ \A s \in {"failed", "reversed"} :
                 SafeWrites(Write(k, Inc(k, 0, -a)), Write(x, Set(x, s)))
<1> DEFINE k == wtx[x].wallet
<1> DEFINE a == wtx[x].amount
<1>1. /\ k \in User \X Currency /\ a \in Amount /\ a \in Nat /\ -a \in Int
      /\ a <= wallet[k].balanceReserved
  BY ReserveCovers, BoundAssumption DEF Amount
<1>2. /\ k \in Wallet /\ k # feeConfig /\ wallet[k].balance \in Int
      /\ wallet[k].balanceReserved \in Int /\ wallet[k].balanceFrozen \in Int
  BY <1>1, SafeTypes
<1>3. wtx[x].status \in {"pending", "dispatched"} /\ wtx[x].type \in DebitTypes \ CreditTypes
      /\ (wtx[x].status # "pending" => wtx[x].type = "withdrawal")
  BY DEF HoldsReserve, DebitTypes, CreditTypes
<1>4. k \in Spender => Covered(wallet[k])
  BY DEF Safe
<1>5. ASSUME NEW s \in Terminal, NEW b \in {0, -a}, s = "completed" <=> b = -a
      PROVE  SafeWrites(Write(k, Inc(k, b, -a)), Write(x, Set(x, s)))
  <2> DEFINE d == Inc(k, b, -a)
  <2> DEFINE doc == Set(x, s)
  <2>1. b \in Int
    BY <1>1
  <2>2. /\ d \in WalletDoc /\ d.balance = wallet[k].balance + b
        /\ d.balanceReserved = wallet[k].balanceReserved - a
        /\ d.balanceFrozen = wallet[k].balanceFrozen
    BY <1>1, <1>2, <2>1, IncFields
  <2>3. /\ doc \in TxDoc /\ doc.wallet = k /\ Proper(doc) /\ ByHand(doc)
        /\ Opens(doc, wtx[x]) /\ doc.type = wtx[x].type /\ doc.type \notin {"send", "fee"}
        /\ doc.status = s /\ doc.amount = a
        /\ \A c \in Claim : wtx[x].status = "pending" /\ Claims(doc, c) => Claims(wtx[x], c)
        /\ Capped => \A u \in User, e \in Day : Asks(doc, u, e) <= Asks(wtx[x], u, e)
    BY <1>3, SettledDoc
  <2> HIDE DEF d, doc, k, a
  <2>4. Net(doc, k) = b
    BY <1>1, <1>2, <1>3, <1>5, <2>3 DEF Net, In, Out, Moved
  <2>5. k \in Spender => Covered(d)
    BY <1>1, <1>2, <1>4, <1>5, <2>2 DEF Covered
  <2>6. ~(d.balanceReserved > wallet[k].balanceReserved)
    BY <1>1, <1>2, <2>2
  <2>7. \A c \in Claim : Claims(doc, c) => Claims(wtx[x], c)
    BY <1>3, <2>3, RefAssumption DEF Claims
  <2>8. SafeWrites(Write(k, d), Write(x, doc))
    BY <1>1, <2>2, <2>3, <2>4, <2>5, <2>6, <2>7, OneMove
  <2> QED
    BY <2>8 DEF d, doc
<1>6. a # 0 /\ -a # 0
  BY <1>1 DEF Amount
<1>7. {"completed", "failed", "reversed"} = Terminal
  BY DEF Terminal
<1> HIDE DEF k, a
<1>8. SafeWrites(Write(k, Inc(k, -a, -a)), Write(x, Set(x, "completed")))
  BY <1>5, <1>7
<1>9. \A s \in {"failed", "reversed"} : SafeWrites(Write(k, Inc(k, 0, -a)), Write(x, Set(x, s)))
  BY <1>5, <1>6, <1>7
<1> QED
  BY <1>8, <1>9 DEF k, a

(* Money that comes in: a pending deposit, or a new document.              *)
LEMMA CreditSafe ==
  ASSUME Safe, NEW x \in Tx, NEW k \in User \X Currency, NEW a \in 0 .. MaxAmount,
         NEW doc \in TxDoc, doc.wallet = k, Proper(doc), ByHand(doc), Opens(doc, wtx[x]),
         doc.type \in CreditTypes, doc.status = "completed", doc.amount = a
  PROVE  SafeWrites(Write(k, Inc(k, a, 0)), Write(x, doc))
<1> DEFINE d == Inc(k, a, 0)
<1>1. a \in Nat /\ a \in Int
  BY BoundAssumption
<1>2. /\ k \in Wallet /\ k # feeConfig /\ wallet[k].balance \in Int
      /\ wallet[k].balanceReserved \in Int /\ wallet[k].balanceFrozen \in Int
  BY SafeTypes
<1>3. /\ d \in WalletDoc /\ d.balance = wallet[k].balance + a
      /\ d.balanceReserved = wallet[k].balanceReserved + 0
      /\ d.balanceFrozen = wallet[k].balanceFrozen
  BY <1>1, <1>2, IncFields
<1> HIDE DEF d
<1>4. Net(doc, k) = a
  BY <1>1, <1>2 DEF Net, In, Out, Moved, CreditTypes, DebitTypes
<1>5. k \in Spender => Covered(d)
  BY <1>1, <1>2, <1>3 DEF Covered, Safe
<1>6. ~(d.balanceReserved > wallet[k].balanceReserved)
  BY <1>2, <1>3
<1>7. \A c \in Claim : ~Claims(doc, c)
  BY DEF Claims, CreditTypes
<1>8. \A u \in User, e \in Day : Asks(doc, u, e) <= Asks(wtx[x], u, e)
  <2>1. \A u, e : Asks(doc, u, e) = 0
    BY DEF Asks, CreditTypes
  <2>2. \A u, e : Asks(wtx[x], u, e) \in 0 .. MaxAmount
    BY SafeTypes, AskBounded
  <2> QED
    BY <2>1, <2>2, BoundAssumption
<1>9. doc.type \notin {"send", "fee"}
  BY DEF CreditTypes
<1>10. SafeWrites(Write(k, d), Write(x, doc))
  BY <1>3, <1>4, <1>5, <1>6, <1>7, <1>8, <1>9, OneMove
<1> QED
  BY <1>10 DEF d

(* A request reserves what the wallet can spare.                           *)
LEMMA RequestSafe ==
  ASSUME Safe, NEW x \in Tx, New(x), NEW k \in User \X Currency, NEW a \in Amount,
         Active(k), Available(k) >= a,
         NEW doc \in TxDoc, doc.wallet = k, doc.amount = a, doc.status = "pending",
         Proper(doc), ByHand(doc), doc.type \notin {"send", "fee"},
         \A c \in Claim : Claims(doc, c) => Gate(c) = k /\ Unclaimed(c),
         Capped => \A u \in User, e \in Day :
                     Asks(doc, u, e) > 0 =>
                       k = BOB(u) /\ RequestedOn(u, e) + Asks(doc, u, e) <= WithdrawLimit
  PROVE  SafeWrites(Write(k, Inc(k, 0, a)), Write(x, doc))
<1> DEFINE d == Inc(k, 0, a)
<1>1. a \in Nat /\ a \in Int
  BY BoundAssumption DEF Amount
<1>2. /\ k \in Wallet /\ k # feeConfig /\ wallet[k].balance \in Int
      /\ wallet[k].balanceReserved \in Int /\ wallet[k].balanceFrozen \in Int
  BY SafeTypes
<1>3. /\ d \in WalletDoc /\ d.balance = wallet[k].balance
      /\ d.balanceReserved = wallet[k].balanceReserved + a
      /\ d.balanceFrozen = wallet[k].balanceFrozen
  <2>1. 0 \in Int /\ wallet[k].balance + 0 = wallet[k].balance
    BY <1>2
  <2> QED
    BY SMTT(60), <1>1, <1>2, <2>1, IncFields
<1> HIDE DEF d
<1>4. Net(doc, k) = 0
  BY <1>2 DEF Net, In, Out, Moved
<1>5. k \in Spender => Covered(d)
  BY <1>1, <1>2, <1>3 DEF Covered, Safe, Available
<1>6. Opens(doc, wtx[x])
  BY DEF Opens, New, Terminal
<1>7. Capped => \A u \in User, e \in Day :
        \/ Asks(doc, u, e) <= Asks(wtx[x], u, e)
        \/ k = BOB(u) /\ RequestedOn(u, e) + Asks(doc, u, e) <= WithdrawLimit
  <2>1. \A u, e : Asks(doc, u, e) \in 0 .. MaxAmount /\ Asks(wtx[x], u, e) \in 0 .. MaxAmount
    BY SafeTypes, AskBounded
  <2>2. \A u, e : Asks(doc, u, e) > 0 \/ Asks(doc, u, e) <= Asks(wtx[x], u, e)
    BY <2>1, BoundAssumption
  <2> QED
    BY <2>2
<1>8. SafeWrites(Write(k, d), Write(x, doc))
  BY <1>2, <1>3, <1>4, <1>5, <1>6, <1>7, OneMove
<1> QED
  BY <1>8 DEF d

(* A transfer: the payer's and the payee's wallets, the send and the       *)
(* receive document, and, with a fee, the fees' wallet and the fee's       *)
(* document (without one, z is x).                                         *)
MoveOf(x, y, z, k, m, a, f, s1, s2, s3, w, t) ==
  /\ x \in Tx /\ y \in Tx /\ z \in Tx /\ x # y /\ New(x) /\ New(y) /\ New(z)
  /\ IF f > 0 THEN z \notin {x, y} ELSE z = x
  /\ k \in User \X Currency /\ m \in User \X Currency /\ k # m
  /\ a \in Amount /\ f \in 0 .. MaxAmount
  /\ Active(k) /\ Active(m) /\ Available(k) >= a + f
  /\ s1 \in TxDoc /\ s1.type = "send" /\ s1.wallet = k /\ s1.amount = a
  /\ s1.status = "completed" /\ s1.counter = 0
  /\ s2 \in TxDoc /\ s2.type = "receive" /\ s2.wallet = m /\ s2.amount = a
  /\ s2.status = "completed" /\ s2.counter = 0
  /\ s3 \in TxDoc /\ s3.type = "fee" /\ s3.wallet = k /\ s3.amount = f
  /\ s3.status = "completed" /\ s3.counter = 0
  /\ \A c \in Claim : Claims(s1, c) => Gate(c) = m /\ Unclaimed(c)
  /\ Formed(w, t)
  /\ DOMAIN w = IF f > 0 THEN {k, m, feeConfig} ELSE {k, m}
  /\ w[k] = Inc(k, -(a + f), 0) /\ w[m] = Inc(m, a, 0)
  /\ f > 0 => w[feeConfig] = Inc(feeConfig, f, 0)
  /\ DOMAIN t = {x, y, z} /\ t[x] = s1 /\ t[y] = s2 /\ (f > 0 => t[z] = s3)
LEMMA MovesSafe ==
  ASSUME Safe, NEW x, NEW y, NEW z, NEW k, NEW m, NEW a, NEW f, NEW s1, NEW s2, NEW s3,
         NEW w, NEW t, MoveOf(x, y, z, k, m, a, f, s1, s2, s3, w, t)
  PROVE  SafeWrites(w, t)
<1> USE DEF MoveOf
<1>1. /\ a \in Nat /\ a \in Int /\ f \in Nat /\ f \in Int /\ -(a + f) \in Int /\ 0 \in Int
      /\ a \in 0 .. MaxAmount /\ 0 \in 0 .. MaxAmount
  BY BoundAssumption DEF Amount
<1>2. /\ k \in Wallet /\ k # feeConfig /\ m \in Wallet /\ m # feeConfig /\ feeConfig \in Wallet
  BY SafeTypes DEF Wallet
<1>3. \A j \in Wallet : /\ wallet[j].balance \in Int /\ wallet[j].balanceReserved \in Int
                        /\ wallet[j].balanceFrozen \in Int
  BY SafeTypes
<1>4. /\ w[k].balance = wallet[k].balance - (a + f)
      /\ w[k].balanceReserved = wallet[k].balanceReserved
      /\ w[k].balanceFrozen = wallet[k].balanceFrozen
  <2>1. /\ Inc(k, -(a + f), 0).balance = wallet[k].balance + -(a + f)
        /\ Inc(k, -(a + f), 0).balanceReserved = wallet[k].balanceReserved + 0
        /\ Inc(k, -(a + f), 0).balanceFrozen = wallet[k].balanceFrozen
    BY <1>1, <1>2, IncFields
  <2> QED
    BY <1>1, <1>2, <1>3, <2>1
<1>5. /\ w[m].balance = wallet[m].balance + a
      /\ w[m].balanceReserved = wallet[m].balanceReserved
      /\ w[m].balanceFrozen = wallet[m].balanceFrozen
  <2>1. /\ Inc(m, a, 0).balance = wallet[m].balance + a
        /\ Inc(m, a, 0).balanceReserved = wallet[m].balanceReserved + 0
        /\ Inc(m, a, 0).balanceFrozen = wallet[m].balanceFrozen
    BY <1>1, <1>2, IncFields
  <2> QED
    BY <1>2, <1>3, <2>1
<1>6. f > 0 => /\ w[feeConfig].balance = wallet[feeConfig].balance + f
               /\ w[feeConfig].balanceReserved = wallet[feeConfig].balanceReserved
  <2>1. /\ Inc(feeConfig, f, 0).balance = wallet[feeConfig].balance + f
        /\ Inc(feeConfig, f, 0).balanceReserved = wallet[feeConfig].balanceReserved + 0
    BY <1>1, <1>2, IncFields
  <2> QED
    BY <1>2, <1>3, <2>1
<1>7. \A e \in DOMAIN t : /\ wtx[e].status = "unused" /\ wtx[e].status \notin Terminal
                          /\ \A j : Net(wtx[e], j) = 0
  <2>1. \A e \in {x, y, z} : wtx[e].status = "unused" /\ wtx[e].status \notin Terminal
    BY DEF New, Terminal
  <2> QED
    BY <2>1, OpenMovesNothing
<1>8. \A e \in DOMAIN t : t[e] \in {s1, s2, s3}
  OBVIOUS
<1>9. \A doc \in {s1, s2, s3} : Proper(doc) /\ ByHand(doc)
  BY <1>1 DEF Proper, ByHand
<1>10. \A e \in DOMAIN t : Proper(t[e]) /\ ByHand(t[e]) /\ Opens(t[e], wtx[e])
  BY <1>7, <1>8, <1>9 DEF Opens
<1>11. \A j \in DOMAIN w \cap Spender : Covered(w[j])
  <2>1. k \in Spender => Covered(w[k])
    BY <1>1, <1>2, <1>3, <1>4 DEF Covered, Safe, Available
  <2>2. m \in Spender => Covered(w[m])
    BY <1>1, <1>2, <1>3, <1>5 DEF Covered, Safe
  <2>3. feeConfig \notin Spender
    BY SafeTypes DEF Spender
  <2> QED
    BY <2>1, <2>2, <2>3
<1>12. BookedBy(x, y, z, w, t)
  <2>1. \A j : /\ Net(s1, j) = (IF j = k THEN -a ELSE 0)
               /\ Net(s2, j) = (IF j = m THEN a ELSE 0)
               /\ Net(s3, j) = (IF j = feeConfig THEN f ELSE IF j = k THEN -f ELSE 0)
    BY <1>1, <1>2 DEF Net, In, Out, Moved, CreditTypes, DebitTypes
  <2>2. \A j : /\ Posts(t, x, j) = (IF j = k THEN -a ELSE 0)
               /\ Posts(t, y, j) = (IF j = m THEN a ELSE 0)
               /\ f > 0 => Posts(t, z, j) = (IF j = feeConfig THEN f ELSE IF j = k THEN -f ELSE 0)
    BY <1>1, <1>7, <2>1 DEF Posts
  <2>3. \A j : Adds(w, j) = IF j = k THEN -(a + f) ELSE IF j = m THEN a
                            ELSE IF j = feeConfig THEN f ELSE 0
    <3>1. Adds(w, k) = -(a + f)
      BY <1>1, <1>2, <1>3, <1>4 DEF Adds, Value
    <3>2. Adds(w, m) = a
      BY <1>1, <1>2, <1>3, <1>5 DEF Adds, Value
    <3>3. Adds(w, feeConfig) = f
      BY <1>1, <1>2, <1>3, <1>6 DEF Adds, Value
    <3>4. \A j : j \notin {k, m, feeConfig} => Adds(w, j) = 0
      BY DEF Adds
    <3> QED
      BY <3>1, <3>2, <3>3, <3>4
  <2>4. CASE f > 0
    BY <1>1, <1>2, <2>2, <2>3, <2>4 DEF BookedBy
  <2>5. CASE ~(f > 0)
    <3>1. f = 0 /\ z = x
      BY <1>1, <2>5
    <3> QED
      BY <1>1, <1>2, <2>2, <2>3, <3>1 DEF BookedBy
  <2> QED
    BY <2>4, <2>5
<1>13. ClaimSafe(w, t)
  <2>1. \A c \in Claim : ~Claims(s2, c) /\ ~Claims(s3, c)
    BY DEF Claims
  <2>2. \A e \in DOMAIN t \ {x} : t[e] \in {s2, s3}
    OBVIOUS
  <2> QED
    BY <2>1, <2>2 DEF ClaimSafe
<1>14. CapSafe(w, t)
  <2>1. \A e \in DOMAIN t : \A u, d : Asks(t[e], u, d) = 0
    BY <1>8 DEF Asks
  <2>2. \A e \in DOMAIN t : \A u, d : Asks(wtx[e], u, d) = 0
    BY <1>7 DEF Asks
  <2> QED
    BY <2>1, <2>2 DEF CapSafe
<1>15. CommitmentSafe(w, t)
  <2>1. \A j \in DOMAIN w : ~(w[j].balanceReserved > wallet[j].balanceReserved)
    BY <1>2, <1>3, <1>4, <1>5, <1>6
  <2>2. \A e \in DOMAIN t : t[e].type \in {"send", "fee"} => t[e].wallet = k
    BY <1>8
  <2> QED
    BY <2>1, <2>2 DEF CommitmentSafe
<1> QED
  BY <1>10, <1>11, <1>12, <1>13, <1>14, <1>15 DEF SafeWrites

(* A conversion is confirmed: what was held leaves one wallet, the counter *)
(* amount enters the other, and the fees' wallet may be touched.           *)
LEMMA ConvertSafe ==
  ASSUME Safe, NEW x \in Tx, NEW y \in Tx, New(y), wtx[x].status = "pending",
         wtx[x].type \in {"bob_to_usdc", "usdc_to_bob"},
         NEW m \in User \X Currency, m # wtx[x].wallet,
         NEW credited \in {"usdc_deposit", "deposit"}, NEW b \in BOOLEAN
  PROVE  LET k == wtx[x].wallet IN
         SafeWrites(Write(k, Inc(k, -wtx[x].amount, -wtx[x].amount))
                      (+) (Write(m, Inc(m, wtx[x].counter, 0)) (+) swapRevenue(b)),
                    Write(x, Set(x, "completed"))
                      (+) Write(y, Doc(credited, m, wtx[x].counter, "completed")))
<1> DEFINE k == wtx[x].wallet
<1> DEFINE a == wtx[x].amount
<1> DEFINE c == wtx[x].counter
<1> DEFINE s1 == Set(x, "completed")
<1> DEFINE s2 == Doc(credited, m, c, "completed")
<1> DEFINE w == Write(k, Inc(k, -a, -a)) (+) (Write(m, Inc(m, c, 0)) (+) swapRevenue(b))
<1> DEFINE t == Write(x, s1) (+) Write(y, s2)
<1>1. HoldsReserve(wtx[x])
  BY DEF HoldsReserve
<1>2. /\ k \in User \X Currency /\ a \in Amount /\ a \in Nat /\ -a \in Int
      /\ a <= wallet[k].balanceReserved
  BY <1>1, ReserveCovers, BoundAssumption DEF Amount
<1>3. c \in 0 .. MaxAmount /\ c \in Nat
  BY SafeTypes, BoundAssumption DEF Proper
<1>4. /\ k \in Wallet /\ k # feeConfig /\ m \in Wallet /\ m # feeConfig
      /\ feeConfig \in Wallet /\ k # m
  BY <1>2, SafeTypes DEF Wallet
<1>5. \A j \in Wallet : /\ wallet[j] \in WalletDoc
                        /\ wallet[j].balance \in Int /\ wallet[j].balanceReserved \in Int
                        /\ wallet[j].balanceFrozen \in Int
  BY SafeTypes
<1>6. /\ s1 \in TxDoc /\ s1.wallet = k /\ Proper(s1) /\ ByHand(s1) /\ Opens(s1, wtx[x])
      /\ s1.type = wtx[x].type /\ s1.status = "completed" /\ s1.amount = a
      /\ \A q \in Claim : Claims(s1, q) => Claims(wtx[x], q)
  BY SettledDoc DEF Terminal
<1>7. /\ s2 \in TxDoc /\ s2.type = credited /\ s2.wallet = m /\ s2.amount = c
      /\ s2.status = "completed" /\ s2.counter = 0
  <2>1. credited \in TxType /\ "completed" \in TxStatus /\ c \in Int /\ today \in Nat
    BY <1>3, SafeTypes, BoundAssumption DEF TxType, TxStatus, Terminal, Day
  <2>2. s2.counter = 0
    BY DEF Doc, Unused
  <2> QED
    BY <1>4, <2>1, <2>2, DocResult
<1>8. Proper(s2) /\ ByHand(s2) /\ Opens(s2, wtx[y])
  BY <1>3, <1>7, BoundAssumption DEF Proper, ByHand, Opens, New, Terminal
<1>9. x # y /\ wtx[y].status = "unused"
  BY DEF New
<1>10. /\ Inc(k, -a, -a) \in WalletDoc
       /\ Inc(k, -a, -a).balance = wallet[k].balance - a
       /\ Inc(k, -a, -a).balanceReserved = wallet[k].balanceReserved - a
       /\ Inc(k, -a, -a).balanceFrozen = wallet[k].balanceFrozen
  BY <1>2, <1>4, <1>5, IncFields
<1>11. /\ Inc(m, c, 0) \in WalletDoc
       /\ Inc(m, c, 0).balance = wallet[m].balance + c
       /\ Inc(m, c, 0).balanceReserved = wallet[m].balanceReserved
       /\ Inc(m, c, 0).balanceFrozen = wallet[m].balanceFrozen
  <2>1. /\ Inc(m, c, 0) \in WalletDoc
        /\ Inc(m, c, 0).balance = wallet[m].balance + c
        /\ Inc(m, c, 0).balanceReserved = wallet[m].balanceReserved + 0
        /\ Inc(m, c, 0).balanceFrozen = wallet[m].balanceFrozen
    BY <1>3, <1>4, IncFields
  <2> QED
    BY <1>4, <1>5, <2>1
<1> HIDE DEF k, a, c, s1, s2
<1>12. /\ DOMAIN w \subseteq {k, m, feeConfig} /\ {k, m} \subseteq DOMAIN w
       /\ w[k] = Inc(k, -a, -a) /\ w[m] = Inc(m, c, 0)
       /\ feeConfig \in DOMAIN w => w[feeConfig] = wallet[feeConfig]
  BY <1>4 DEF swapRevenue, Write, (+)
<1>13. DOMAIN t = {x, y} /\ t[x] = s1 /\ t[y] = s2
  BY <1>9 DEF Write, (+)
<1>14. w \in [DOMAIN w -> WalletDoc] /\ t \in [DOMAIN t -> TxDoc]
  <2>1. w = [j \in DOMAIN w |-> w[j]] /\ t = [e \in DOMAIN t |-> t[e]]
    BY DEF (+)
  <2>2. \A j \in DOMAIN w : w[j] \in WalletDoc
    BY <1>4, <1>5, <1>10, <1>11, <1>12
  <2>3. \A e \in DOMAIN t : t[e] \in TxDoc
    BY <1>6, <1>7, <1>13
  <2> HIDE DEF w, t
  <2> QED
    BY <2>1, <2>2, <2>3
<1> HIDE DEF w, t
<1>15. Formed(w, t)
  BY <1>4, <1>12, <1>13, <1>14 DEF Formed
<1>16. \A e \in DOMAIN t : Proper(t[e]) /\ ByHand(t[e]) /\ Opens(t[e], wtx[e])
  BY <1>6, <1>8, <1>13
<1>17. \A j \in DOMAIN w \cap Spender : Covered(w[j])
  <2>1. k \in Spender => Covered(w[k])
    BY <1>2, <1>4, <1>5, <1>10, <1>12 DEF Covered, Safe
  <2>2. m \in Spender => Covered(w[m])
    BY <1>3, <1>4, <1>5, <1>11, <1>12 DEF Covered, Safe
  <2>3. feeConfig \notin Spender
    BY SafeTypes DEF Spender
  <2> QED
    BY <1>12, <2>1, <2>2, <2>3
<1>18. BookedBy(x, y, y, w, t)
  <2>1. \A j : /\ Net(s1, j) = (IF j = k THEN -a ELSE 0)
               /\ Net(s2, j) = (IF j = m THEN c ELSE 0)
    BY <1>2, <1>3, <1>4, <1>6, <1>7 DEF Net, In, Out, Moved, CreditTypes, DebitTypes
  <2>2. \A j : Net(wtx[x], j) = 0 /\ Net(wtx[y], j) = 0
    BY <1>9, OpenMovesNothing DEF Terminal
  <2>3. \A j : /\ Posts(t, x, j) = (IF j = k THEN -a ELSE 0)
               /\ Posts(t, y, j) = (IF j = m THEN c ELSE 0)
    BY <1>2, <1>3, <1>13, <2>1, <2>2 DEF Posts
  <2>4. \A j : Adds(w, j) = IF j = k THEN -a ELSE IF j = m THEN c ELSE 0
    <3>1. Adds(w, k) = -a
      BY <1>2, <1>4, <1>5, <1>10, <1>12 DEF Adds, Value
    <3>2. Adds(w, m) = c
      BY <1>3, <1>4, <1>5, <1>11, <1>12 DEF Adds, Value
    <3>3. Adds(w, feeConfig) = 0
      BY <1>4, <1>5, <1>12 DEF Adds, Value
    <3>4. \A j : j \notin {k, m, feeConfig} => Adds(w, j) = 0
      BY <1>12 DEF Adds
    <3> QED
      BY <1>4, <3>1, <3>2, <3>3, <3>4
  <2> QED
    BY <1>2, <1>3, <1>4, <1>9, <1>13, <2>3, <2>4 DEF BookedBy
<1>19. ClaimSafe(w, t)
  <2>1. \A q \in Claim : ~Claims(s2, q)
    BY <1>7 DEF Claims
  <2> QED
    BY <1>6, <1>13, <2>1 DEF ClaimSafe
<1>20. CapSafe(w, t)
  <2>1. \A u, d : Asks(s1, u, d) = 0 /\ Asks(s2, u, d) = 0
    BY <1>6, <1>7 DEF Asks
  <2>2. \A u, d : Asks(wtx[x], u, d) = 0 /\ Asks(wtx[y], u, d) = 0
    BY <1>9 DEF Asks
  <2> QED
    BY <1>13, <2>1, <2>2 DEF CapSafe
<1>21. CommitmentSafe(w, t)
  <2>1. \A j \in DOMAIN w : ~(w[j].balanceReserved > wallet[j].balanceReserved)
    BY <1>2, <1>4, <1>5, <1>10, <1>11, <1>12
  <2>2. \A e \in DOMAIN t : t[e].type \notin {"send", "fee"}
    BY <1>6, <1>7, <1>13
  <2> QED
    BY <2>1, <2>2 DEF CommitmentSafe
<1>22. SafeWrites(w, t)
  BY <1>15, <1>16, <1>17, <1>18, <1>19, <1>20, <1>21 DEF SafeWrites
<1> QED
  BY <1>22 DEF w, t, k, a, c, s1, s2

(* A compliance order moves the balance of a user's wallets to the frozen  *)
(* one and back.  In USDC it is added to what is there; in bolivianos it   *)
(* replaces it, and the wallet is not Booked.                              *)
LEMMA ComplianceSafe ==
  ASSUME Safe, NEW x \in Tx, New(x), NEW u \in Freezable,
         NEW doc \in TxDoc, doc.type \in {"freeze", "unfreeze"}, doc.wallet = BOB(u),
         doc.status = "completed",
         NEW d1 \in WalletDoc, d1.balanceReserved = wallet[BOB(u)].balanceReserved,
         NEW d2 \in WalletDoc, d2.balanceReserved = wallet[USDC(u)].balanceReserved,
         d2.balance + d2.balanceFrozen = wallet[USDC(u)].balance + wallet[USDC(u)].balanceFrozen,
         NEW b \in BOOLEAN
  PROVE  SafeWrites(Write(BOB(u), d1) (+) (IF b THEN Write(USDC(u), d2) ELSE noWrite),
                    Write(x, doc))
<1> DEFINE w == Write(BOB(u), d1) (+) (IF b THEN Write(USDC(u), d2) ELSE noWrite)
<1> DEFINE t == Write(x, doc)
<1>1. /\ BOB(u) \in User \X Currency /\ USDC(u) \in User \X Currency /\ BOB(u) # USDC(u)
      /\ BOB(u) \notin Spender /\ USDC(u) \notin Spender
  BY BOBAssumption DEF BOB, USDC, Currency, Spender
<1>2. /\ BOB(u) \in Wallet /\ BOB(u) # feeConfig /\ USDC(u) \in Wallet /\ USDC(u) # feeConfig
      /\ BOB(u) \notin Booked
  BY <1>1, SafeTypes DEF Booked
<1>3. \A j \in Wallet : /\ wallet[j] \in WalletDoc
                        /\ wallet[j].balance \in Int /\ wallet[j].balanceReserved \in Int
                        /\ wallet[j].balanceFrozen \in Int
  BY SafeTypes
<1>4. /\ DOMAIN w \subseteq {BOB(u), USDC(u)} /\ w[BOB(u)] = d1
      /\ USDC(u) \in DOMAIN w => w[USDC(u)] = d2
  BY <1>1 DEF Write, (+), noWrite
<1>5. DOMAIN t = {x} /\ t[x] = doc
  BY DEF Write
<1>6. Formed(w, t)
  <2>1. w = [j \in DOMAIN w |-> w[j]] /\ t = [e \in DOMAIN t |-> t[e]]
    BY DEF (+), Write
  <2> HIDE DEF w, t
  <2> QED
    BY <1>2, <1>4, <1>5, <2>1 DEF Formed
<1> HIDE DEF w, t
<1>7. /\ wtx[x].status = "unused" /\ Opens(doc, wtx[x]) /\ ByHand(doc)
      /\ \A j : Net(wtx[x], j) = 0
  BY OpenMovesNothing DEF New, Opens, ByHand, Terminal
<1>8. Proper(doc)
  BY <1>1 DEF Proper
<1>9. BookedBy(x, x, x, w, t)
  <2>1. \A j : Net(doc, j) = 0
    BY DEF Net, In, Out, Moved, CreditTypes, DebitTypes
  <2>2. \A j : Posts(t, x, j) = 0
    BY <1>5, <1>7, <2>1 DEF Posts
  <2>3. Adds(w, USDC(u)) = 0
    <3>1. d2.balance \in Int /\ d2.balanceFrozen \in Int
      BY DEF WalletDoc
    <3> QED
      BY <1>2, <1>3, <1>4, <3>1 DEF Adds, Value
  <2>4. \A j \in Booked : Adds(w, j) = 0
    BY <1>2, <1>4, <2>3 DEF Adds
  <2> QED
    BY <1>5, <2>2, <2>4 DEF BookedBy
<1>10. ClaimSafe(w, t)
  BY <1>5 DEF ClaimSafe, Claims
<1>11. CapSafe(w, t)
  <2>1. \A v, e : Asks(doc, v, e) = 0 /\ Asks(wtx[x], v, e) = 0
    BY <1>7 DEF Asks
  <2> QED
    BY <1>5, <2>1 DEF CapSafe
<1>12. CommitmentSafe(w, t)
  <2>1. \A j \in DOMAIN w : ~(w[j].balanceReserved > wallet[j].balanceReserved)
    BY <1>2, <1>3, <1>4
  <2> QED
    BY <1>5, <2>1 DEF CommitmentSafe
<1>13. \A j \in DOMAIN w \cap Spender : Covered(w[j])
  BY <1>1, <1>4
<1> QED
  BY <1>5, <1>6, <1>7, <1>8, <1>9, <1>10, <1>11, <1>12, <1>13 DEF SafeWrites, w, t

-----------------------------------------------------------------------------
(* One lemma per group of handlers, one step per handler.                  *)

(* What a handler puts in a new document, field by field.                  *)
LEMMA NewDoc ==
  ASSUME Safe, NEW ty \in TxType, NEW k \in Wallet, NEW a \in Int, NEW s \in TxStatus
  PROVE  LET doc == Doc(ty, k, a, s) IN
         /\ doc \in TxDoc /\ doc.type = ty /\ doc.status = s /\ doc.wallet = k
         /\ doc.amount = a /\ doc.counter = 0 /\ doc.ref = NoRef /\ doc.day = today
         /\ doc.method = "none"
<1> DEFINE e == Unused
<1>1. /\ e \in TxDoc /\ e.counter = 0 /\ e.ref = NoRef /\ e.method = "none"
  BY DEF Unused, TxDoc, TxType, TxStatus, Wallet, Method
<1>2. Doc(ty, k, a, s) = [e EXCEPT !.type = ty, !.wallet = k, !.amount = a,
                                   !.status = s, !.day = today]
  BY DEF Doc
<1>3. today \in Nat
  BY SafeTypes, BoundAssumption DEF Day
<1> HIDE DEF e
<1> QED
  BY <1>1, <1>2, <1>3 DEF TxDoc

(* Deposits: a plain update leaves a deposit that is not settled, or that  *)
(* only bank QRs can touch again, as it is in every sum.                   *)
LEMMA DepositUpdateSafe ==
  ASSUME Safe, IInv', NEW x \in Tx, wtx[x].type = "deposit", wtx[x].status # "unused",
         BankQr \/ wtx[x].status \notin Terminal,
         NEW s \in {"pending", "failed"}, NEW doc \in TxDoc,
         SameEntry(doc, wtx[x]), doc.counter = wtx[x].counter, doc.status = s,
         UpdateOne(x, doc), calls' \subseteq calls
  PROVE  Safe'
<1>1. Proper(wtx[x]) /\ ByHand(wtx[x])
  BY SafeTypes
<1>2. Proper(doc) /\ ByHand(doc)
  BY <1>1 DEF Proper, ByHand, SameEntry
<1>3. \A k \in Booked : In(doc, k) = In(wtx[x], k) /\ Out(doc, k) = Out(wtx[x], k)
  <2>1. CASE wtx[x].status \notin Terminal
    BY <2>1, OpenMovesNothing DEF In, Out, Moved, SameEntry
  <2>2. CASE BankQr
    BY <2>2 DEF Booked, In, Out, SameEntry
  <2> QED
    BY <2>1, <2>2
<1>4. \A c \in Claim : Claims(doc, c) => Claims(wtx[x], c)
  BY DEF Claims, SameEntry
<1>5. \A u \in User, d \in Day : Asks(doc, u, d) <= Asks(wtx[x], u, d)
  BY DEF Asks, SameEntry
<1>6. CallsOK'
  <2>1. wtx' = [wtx EXCEPT ![x] = doc] /\ wtx \in [Tx -> TxDoc] /\ calls' \subseteq Tx
    BY SafeTypes DEF UpdateOne, IInv
  <2>2. CallsOK
    BY DEF Safe
  <2> QED
    BY <2>1, <2>2 DEF CallsOK, SameEntry
<1> QED
  BY <1>2, <1>3, <1>4, <1>5, <1>6, UpdateSafe

LEMMA DepositSafe ==
  ASSUME Safe, IInv', DepositNext
  PROVE  Safe'
<1>1. PICK x \in Tx :
        \/ \E u \in User, a \in Amount : initiateDeposit(x, u, a)
        \/ generateQRSucceeds(x)
        \/ generateQRFails(x)
        \/ uploadDepositProof(x)
        \/ \E r \in Req : adminConfirmDeposit(r, x)
        \/ \E r \in Req : confirmBankQrDeposit(r, x)
        \/ failExpiredBankQrDeposit(x)
        \/ cleanupOrphanWalletDeposits(x)
  BY DEF DepositNext
<1>2. ASSUME NEW s \in {"pending", "failed"}
      PROVE  /\ Set(x, s) \in TxDoc /\ Set(x, s).status = s
             /\ SameEntry(Set(x, s), wtx[x]) /\ Set(x, s).counter = wtx[x].counter
  <2>1. s \in TxStatus
    BY DEF TxStatus, Terminal
  <2> QED
    BY <2>1, SetFields
<1>3. ASSUME NEW u \in User, NEW a \in Amount, initiateDeposit(x, u, a)
      PROVE  Safe'
  <2> DEFINE doc == Doc("deposit", BOB(u), a, "awaiting_proof")
  <2>1. /\ BOB(u) \in User \X Currency /\ BOB(u) \in Wallet /\ a \in Int
        /\ a \in 0 .. MaxAmount /\ 0 \in 0 .. MaxAmount
    BY SafeTypes, BoundAssumption DEF BOB, Currency, Amount
  <2>2. /\ doc \in TxDoc /\ doc.type = "deposit" /\ doc.status = "awaiting_proof"
        /\ doc.wallet = BOB(u) /\ doc.amount = a /\ doc.counter = 0
    BY <2>1, NewDoc DEF TxType, TxStatus
  <2>3. /\ wtx[x].status = "unused" /\ UpdateOne(x, doc)
        /\ calls' = IF BankQr THEN calls \cup {x} ELSE calls
    BY <1>3 DEF initiateDeposit, New
  <2> HIDE DEF doc
  <2>4. Proper(doc) /\ ByHand(doc)
    BY <2>1, <2>2 DEF Proper, ByHand
  <2>5. \A k \in Booked : In(doc, k) = In(wtx[x], k) /\ Out(doc, k) = Out(wtx[x], k)
    BY <2>2, <2>3, OpenMovesNothing DEF In, Out, Moved, Terminal
  <2>6. \A c \in Claim : ~Claims(doc, c)
    BY <2>2 DEF Claims
  <2>7. \A v \in User, d \in Day : Asks(doc, v, d) <= Asks(wtx[x], v, d)
    BY <2>2, <2>3 DEF Asks
  <2>8. CallsOK'
    <3>1. wtx' = [wtx EXCEPT ![x] = doc] /\ wtx \in [Tx -> TxDoc] /\ calls' \subseteq Tx
      BY <2>3, SafeTypes DEF UpdateOne, IInv
    <3>2. CallsOK /\ calls \subseteq Tx
      BY DEF Safe, IInv
    <3> QED
      BY <2>2, <2>3, <3>1, <3>2 DEF CallsOK
  <2> QED
    BY <2>2, <2>3, <2>4, <2>5, <2>6, <2>7, <2>8, UpdateSafe
<1>4. x \in calls /\ wtx[x].type = "deposit" => wtx[x].status # "unused" /\ BankQr
  BY BOBAssumption DEF Safe, CallsOK
<1>5. ASSUME generateQRSucceeds(x)
      PROVE  Safe'
  <2> DEFINE doc == [Set(x, "pending") EXCEPT !.qrId = TRUE]
  <2>1. doc \in TxDoc /\ doc.status = "pending" /\ SameEntry(doc, wtx[x])
        /\ doc.counter = wtx[x].counter
    BY <1>2 DEF TxDoc, SameEntry
  <2> QED
    BY <1>4, <1>5, <2>1, DepositUpdateSafe DEF generateQRSucceeds
<1>6. ASSUME generateQRFails(x)
      PROVE  Safe'
  <2>1. CASE UpdateOne(x, Set(x, "failed"))
    BY <1>2, <1>4, <1>6, <2>1, DepositUpdateSafe DEF generateQRFails
  <2>2. CASE NoUpdate
    BY <1>6, <2>2, DropSafe DEF generateQRFails, NoUpdate
  <2> QED
    BY <1>6, <2>1, <2>2 DEF generateQRFails
<1>7. ASSUME uploadDepositProof(x)
      PROVE  Safe'
  BY <1>2, <1>7, DepositUpdateSafe DEF uploadDepositProof, Is, Terminal
<1>8. ASSUME failExpiredBankQrDeposit(x) \/ cleanupOrphanWalletDeposits(x)
      PROVE  Safe'
  BY <1>2, <1>8, DepositUpdateSafe
     DEF failExpiredBankQrDeposit, cleanupOrphanWalletDeposits, Is, Terminal
<1>9. ASSUME NEW r \in Req, adminConfirmDeposit(r, x) \/ confirmBankQrDeposit(r, x)
      PROVE  Safe'
  <2> DEFINE doc == Set(x, "completed")
  <2>1. /\ wtx[x].type = "deposit" /\ wtx[x].status = "pending"
        /\ Begin(r, credit(x), Write(x, doc))
    BY <1>9 DEF adminConfirmDeposit, confirmBankQrDeposit, Is
  <2>2. wtx[x].amount \in 0 .. MaxAmount
    BY <2>1, SafeTypes DEF Proper
  <2>3. /\ doc \in TxDoc /\ doc.wallet = wtx[x].wallet /\ doc.wallet \in User \X Currency
        /\ Proper(doc) /\ ByHand(doc) /\ Opens(doc, wtx[x])
        /\ doc.type = "deposit" /\ doc.status = "completed" /\ doc.amount = wtx[x].amount
    BY <2>1, SettledDoc DEF Terminal
  <2> HIDE DEF doc
  <2>4. SafeWrites(credit(x), Write(x, doc))
    BY <2>2, <2>3, CreditSafe DEF credit, CreditTypes
  <2> QED
    BY <2>1, <2>4, BeginSafe
<1> QED
  BY <1>1, <1>3, <1>5, <1>6, <1>7, <1>8, <1>9

(* A new document of a code or of a payment.                               *)
LEMMA RefDoc ==
  ASSUME Safe, NEW ty \in TxType, NEW k \in Wallet, NEW a \in Int, NEW s \in TxStatus,
         NEW q \in Charge \cup Payment \cup {NoRef}
  PROVE  LET doc == [Doc(ty, k, a, s) EXCEPT !.ref = q] IN
         /\ doc \in TxDoc /\ doc.type = ty /\ doc.status = s /\ doc.wallet = k
         /\ doc.amount = a /\ doc.counter = 0 /\ doc.ref = q /\ doc.method = "none"
<1> DEFINE e == Doc(ty, k, a, s)
<1>1. /\ e \in TxDoc /\ e.type = ty /\ e.status = s /\ e.wallet = k
      /\ e.amount = a /\ e.counter = 0 /\ e.method = "none"
  BY NewDoc
<1> HIDE DEF e
<1>2. LET doc == [e EXCEPT !.ref = q] IN
      /\ doc \in TxDoc /\ doc.type = ty /\ doc.status = s /\ doc.wallet = k
      /\ doc.amount = a /\ doc.counter = 0 /\ doc.ref = q /\ doc.method = "none"
  BY <1>1 DEF TxDoc
<1> QED
  BY <1>2 DEF e

(* A code that has not been paid is not claimed.                           *)
LEMMA UnpaidUnclaimed ==
  ASSUME Safe, NEW q \in Charge, ~alreadyPaid(q)
  PROVE  Unclaimed(q)
<1>1. \A x \in Tx : Proper(wtx[x])
  BY SafeTypes
<1>2. q \notin Payment
  BY RefAssumption
<1> QED
  BY <1>1, <1>2 DEF Unclaimed, Claims, alreadyPaid, Is, Proper

LEMMA TransferSafe ==
  ASSUME Safe, IInv', TransferNext
  PROVE  Safe'
<1>1. PICK r \in Req, x \in Tx, y \in Tx, u \in User, v \in User, a \in Amount,
           q \in Charge \cup {NoRef} :
        /\ transfer(r, x, y, u, v, a, q)
        /\ q \in Charge => PaysCharge(q, "BOB", v, a) /\ ~alreadyPaid(q)
  BY RefAssumption DEF TransferNext, sendP2P, scanAndPayQR
<1> DEFINE k == BOB(u)
<1> DEFINE m == BOB(v)
<1> DEFINE w == Write(k, Inc(k, -a, 0)) (+) Write(m, Inc(m, a, 0))
<1> DEFINE s1 == [Doc("send", k, a, "completed") EXCEPT !.ref = q]
<1> DEFINE s2 == [Doc("receive", m, a, "completed") EXCEPT !.ref = q]
<1> DEFINE s3 == Doc("fee", k, 0, "completed")
<1> DEFINE t == Write(x, s1) (+) Write(y, s2)
<1>2. /\ k \in User \X Currency /\ m \in User \X Currency /\ k # m
      /\ a \in Int /\ -a \in Int /\ 0 \in Int /\ -(a + 0) = -a /\ a + 0 = a
      /\ 0 \in 0 .. MaxAmount
  BY <1>1, BoundAssumption DEF BOB, Currency, Amount, transfer
<1>3. k \in Wallet /\ m \in Wallet
  BY <1>2, SafeTypes
<1>4. /\ {"send", "receive", "fee"} \subseteq TxType /\ "completed" \in TxStatus
      /\ q \in Charge \cup Payment \cup {NoRef}
  BY DEF TxType, TxStatus, Terminal
<1>5. /\ s1 \in TxDoc /\ s1.type = "send" /\ s1.wallet = k /\ s1.amount = a
      /\ s1.status = "completed" /\ s1.counter = 0 /\ s1.ref = q
      /\ s2 \in TxDoc /\ s2.type = "receive" /\ s2.wallet = m /\ s2.amount = a
      /\ s2.status = "completed" /\ s2.counter = 0
      /\ s3 \in TxDoc /\ s3.type = "fee" /\ s3.wallet = k /\ s3.amount = 0
      /\ s3.status = "completed" /\ s3.counter = 0
  <2>1. "send" \in TxType /\ "receive" \in TxType /\ "fee" \in TxType
    BY <1>4
  <2>2. /\ s1 \in TxDoc /\ s1.type = "send" /\ s1.wallet = k /\ s1.amount = a
        /\ s1.status = "completed" /\ s1.counter = 0 /\ s1.ref = q
    BY <1>2, <1>3, <1>4, <2>1, RefDoc
  <2>3. /\ s2 \in TxDoc /\ s2.type = "receive" /\ s2.wallet = m /\ s2.amount = a
        /\ s2.status = "completed" /\ s2.counter = 0
    BY <1>2, <1>3, <1>4, <2>1, RefDoc
  <2>4. /\ s3 \in TxDoc /\ s3.type = "fee" /\ s3.wallet = k /\ s3.amount = 0
        /\ s3.status = "completed" /\ s3.counter = 0
    BY <1>2, <1>3, <1>4, <2>1, NewDoc
  <2> QED
    BY <2>2, <2>3, <2>4
<1>6. Inc(k, -a, 0) \in WalletDoc /\ Inc(m, a, 0) \in WalletDoc
  BY <1>2, <1>3, IncFields
<1>7. /\ Begin(r, w, t) /\ x # y /\ New(x) /\ New(y) /\ Active(k) /\ Active(m)
      /\ Available(k) >= a
  BY <1>1 DEF transfer
<1>8. \A c \in Claim : Claims(s1, c) => Gate(c) = m /\ Unclaimed(c)
  <2> SUFFICES ASSUME NEW c \in Claim, Claims(s1, c)
               PROVE  Gate(c) = m /\ Unclaimed(c)
    OBVIOUS
  <2>1. c = q /\ q \in Charge
    BY <1>5, RefAssumption DEF Claims, Claim
  <2>2. PaysCharge(q, "BOB", v, a) /\ ~alreadyPaid(q)
    BY <1>1, <2>1
  <2> QED
    BY <2>1, <2>2, UnpaidUnclaimed DEF Gate, PaysCharge, BOB
<1> HIDE DEF s1, s2, s3, k, m
<1>9. Formed(w, t)
  BY <1>3, <1>5, <1>6, Writes
<1>10. /\ DOMAIN w = {k, m} /\ w[k] = Inc(k, -a, 0) /\ w[m] = Inc(m, a, 0)
       /\ DOMAIN t = {x, y} /\ t[x] = s1 /\ t[y] = s2
  BY <1>2, <1>7 DEF Write, (+)
<1> HIDE DEF w, t
<1>11. SafeWrites(w, t)
  <2> DEFINE f == 0
  <2>1. /\ w[k] = Inc(k, -(a + f), 0) /\ Available(k) >= a + f
        /\ f > 0 => w[feeConfig] = Inc(feeConfig, f, 0)
        /\ f > 0 => t[x] = s3
        /\ f \in 0 .. MaxAmount /\ s3.amount = f
        /\ DOMAIN w = (IF f > 0 THEN {k, m, feeConfig} ELSE {k, m})
        /\ (IF f > 0 THEN x \notin {x, y} ELSE x = x)
        /\ DOMAIN t = {x, y, x}
    BY <1>2, <1>5, <1>7, <1>10
  <2> HIDE DEF f
  <2> QED
    <3>1. MoveOf(x, y, x, k, m, a, f, s1, s2, s3, w, t)
      BY <1>2, <1>5, <1>7, <1>8, <1>9, <1>10, <2>1 DEF MoveOf
    <3> QED
      BY <3>1, MovesSafe
<1> QED
  BY <1>7, <1>11, BeginSafe

(* By hand, what requestWithdrawal counts is everything asked for that day. *)
LEMMA CountedIsRequested ==
  ASSUME Safe, Capped, NEW u \in User
  PROVE  withdrawnToday(u) = RequestedOn(u, today)
<1> DEFINE f == [x \in Tx |-> IF x \in {y \in Tx : /\ wtx[y].wallet = BOB(u)
                                                  /\ wtx[y].type = "withdrawal"
                                                  /\ wtx[y].status \in {"pending", "completed"}
                                                  /\ wtx[y].day = today}
                                THEN wtx[x].amount ELSE 0]
<1> DEFINE g == [x \in Tx |-> Asks(wtx[x], u, today)]
<1>1. \A x \in Tx : ByHand(wtx[x])
  BY SafeTypes
<1>2. f = g
  BY <1>1 DEF Asks, ByHand
<1>3. withdrawnToday(u) = Total(f) /\ RequestedOn(u, today) = Total(g)
  BY DEF withdrawnToday, SumWhere, RequestedOn
<1> QED
  BY <1>2, <1>3

LEMMA WithdrawalSafe ==
  ASSUME Safe, IInv', WithdrawalNext
  PROVE  Safe'
<1>1. PICK x \in Tx :
        \/ \E r \in Req, u \in User, a \in Amount, m \in Methods :
             requestWithdrawal(r, x, u, a, m)
        \/ \E r \in Req : adminConfirmWithdrawal(r, x)
        \/ \E r \in Req : adminRejectWithdrawal(r, x)
        \/ adminDispatchWithdrawal(x)
        \/ transferFails(x)
        \/ transferAccepted(x)
        \/ \E r \in Req, b \in BOOLEAN : settleDispatchedWithdrawal(r, x, b)
  BY DEF WithdrawalNext
<1>2. ASSUME NEW r \in Req, NEW u \in User, NEW a \in Amount, NEW m \in Methods,
             requestWithdrawal(r, x, u, a, m)
      PROVE  Safe'
  <2> DEFINE k == BOB(u)
  <2> DEFINE e == Doc("withdrawal", k, a, "pending")
  <2> DEFINE doc == [e EXCEPT !.method = m]
  <2>1. /\ k \in User \X Currency /\ k \in Wallet /\ a \in Int /\ a \in 0 .. MaxAmount
        /\ m \in Method /\ m \in Methods /\ 0 \in 0 .. MaxAmount
    BY SafeTypes, BOBAssumption, BoundAssumption DEF BOB, Currency, Amount, Method
  <2>2. /\ e \in TxDoc /\ e.type = "withdrawal" /\ e.status = "pending" /\ e.wallet = k
        /\ e.amount = a /\ e.counter = 0 /\ e.day = today
    BY <2>1, NewDoc DEF TxType, TxStatus
  <2> HIDE DEF e
  <2>3. /\ doc \in TxDoc /\ doc.type = "withdrawal" /\ doc.status = "pending" /\ doc.wallet = k
        /\ doc.amount = a /\ doc.counter = 0 /\ doc.day = today /\ doc.method = m
    BY <2>1, <2>2 DEF TxDoc
  <2>4. /\ New(x) /\ Active(k) /\ Available(k) >= a
        /\ WithdrawLimit > 0 => withdrawnToday(u) + a <= WithdrawLimit
        /\ Begin(r, Write(k, Inc(k, 0, a)), Write(x, doc))
    BY <1>2 DEF requestWithdrawal, e
  <2> HIDE DEF doc
  <2>5. Proper(doc) /\ ByHand(doc)
    BY <2>1, <2>3 DEF Proper, ByHand, Capped
  <2>6. \A c \in Claim : ~Claims(doc, c)
    BY <2>3 DEF Claims
  <2>7. Capped => \A v \in User, d \in Day :
                    Asks(doc, v, d) > 0 =>
                      k = BOB(v) /\ RequestedOn(v, d) + Asks(doc, v, d) <= WithdrawLimit
    <3> SUFFICES ASSUME Capped, NEW v \in User, NEW d \in Day, Asks(doc, v, d) > 0
                 PROVE  k = BOB(v) /\ RequestedOn(v, d) + Asks(doc, v, d) <= WithdrawLimit
      OBVIOUS
    <3>1. k = BOB(v) /\ d = today /\ Asks(doc, v, d) = a
      BY <2>3 DEF Asks
    <3>2. v = u
      BY <3>1 DEF BOB
    <3>3. withdrawnToday(u) + a <= WithdrawLimit
      BY <2>4 DEF Capped
    <3> QED
      BY <3>1, <3>2, <3>3, CountedIsRequested
  <2> HIDE DEF k
  <2>8. SafeWrites(Write(k, Inc(k, 0, a)), Write(x, doc))
    BY <2>1, <2>3, <2>4, <2>5, <2>6, <2>7, RequestSafe
  <2> QED
    BY <2>4, <2>8, BeginSafe
<1>3. wtx[x].type = "withdrawal" /\ wtx[x].status \in {"pending", "dispatched"} =>
        /\ SafeWrites(debitReserved(x), Write(x, Set(x, "completed")))
        /\ SafeWrites(releaseReserved(x), Write(x, Set(x, "failed")))
  BY ReleaseSafe DEF HoldsReserve, debitReserved, releaseReserved
<1>4. ASSUME NEW r \in Req, \/ adminConfirmWithdrawal(r, x) \/ adminRejectWithdrawal(r, x)
                            \/ \E b \in BOOLEAN : settleDispatchedWithdrawal(r, x, b)
      PROVE  Safe'
  <2>1. /\ wtx[x].type = "withdrawal" /\ wtx[x].status \in {"pending", "dispatched"}
        /\ \/ Begin(r, debitReserved(x), Write(x, Set(x, "completed")))
           \/ Begin(r, releaseReserved(x), Write(x, Set(x, "failed")))
    BY <1>4 DEF adminConfirmWithdrawal, adminRejectWithdrawal, settleDispatchedWithdrawal, Is
  <2> QED
    BY <1>3, <2>1, BeginSafe
<1>5. ASSUME wtx[x].type = "withdrawal", wtx[x].status \in {"pending", "dispatched"},
             NEW s \in {"pending", "dispatched"}, s = "dispatched" => wtx[x].method = "bank",
             UpdateOne(x, Set(x, s)), calls' \subseteq calls \cup {x}
      PROVE  Safe'
  <2> DEFINE doc == Set(x, s)
  <2>1. /\ doc \in TxDoc /\ doc.status = s /\ SameEntry(doc, wtx[x])
        /\ doc.counter = wtx[x].counter
    BY SetFields DEF TxStatus
  <2>2. Proper(wtx[x]) /\ ByHand(wtx[x]) /\ wtx \in [Tx -> TxDoc]
    BY SafeTypes
  <2> HIDE DEF doc
  <2>3. Proper(doc) /\ ByHand(doc)
    BY <1>5, <2>1, <2>2 DEF Proper, ByHand, SameEntry
  <2>4. \A k \in Booked : In(doc, k) = In(wtx[x], k) /\ Out(doc, k) = Out(wtx[x], k)
    BY <1>5, <2>1 DEF In, Out, Moved, SameEntry
  <2>5. \A c \in Claim : ~Claims(doc, c)
    BY <1>5, <2>1 DEF Claims, SameEntry
  <2>6. \A u \in User, d \in Day : Asks(doc, u, d) <= Asks(wtx[x], u, d)
    <3>1. \A u, d : Asks(doc, u, d) = Asks(wtx[x], u, d)
      BY <1>5, <2>1 DEF Asks, SameEntry
    <3>2. \A u, d : Asks(wtx[x], u, d) \in 0 .. MaxAmount
      BY <2>2, AskBounded
    <3> QED
      BY <3>1, <3>2, BoundAssumption
  <2>7. CallsOK'
    <3>1. wtx' = [wtx EXCEPT ![x] = doc] /\ calls' \subseteq Tx
      BY <1>5 DEF UpdateOne, IInv, doc
    <3>2. CallsOK
      BY DEF Safe
    <3>3. \A y \in calls' : y = x \/ (y \in calls /\ wtx'[y] = wtx[y])
      BY <1>5, <2>2, <3>1
    <3>4. wtx'[x] = doc /\ doc.status # "unused" /\ doc.type # "deposit"
      BY <1>5, <2>1, <2>2, <3>1 DEF SameEntry
    <3> QED
      BY <3>2, <3>3, <3>4 DEF CallsOK
  <2>8. UpdateOne(x, doc)
    BY <1>5 DEF doc
  <2> QED
    BY <2>1, <2>3, <2>4, <2>5, <2>6, <2>7, <2>8, UpdateSafe
<1>6. ASSUME adminDispatchWithdrawal(x)
      PROVE  Safe'
  BY <1>5, <1>6 DEF adminDispatchWithdrawal, Is
<1>7. ASSUME transferFails(x)
      PROVE  Safe'
  <2>1. CASE wtx[x].status = "dispatched" /\ UpdateOne(x, Set(x, "pending"))
    BY <1>5, <1>7, <2>1 DEF transferFails
  <2>2. CASE NoUpdate
    BY <1>7, <2>2, DropSafe DEF transferFails, NoUpdate
  <2> QED
    BY <1>7, <2>1, <2>2 DEF transferFails
<1>8. ASSUME transferAccepted(x)
      PROVE  Safe'
  <2>1. /\ wtx \in [Tx -> TxDoc] /\ Proper(wtx[x]) /\ ByHand(wtx[x]) /\ wtx[x] \in TxDoc
    BY SafeTypes
  <2>2. UpdateOne(x, wtx[x]) /\ wtx' = wtx /\ calls' \subseteq calls
    BY <1>8, <2>1 DEF transferAccepted, UpdateOne
  <2>3. CallsOK'
    BY <2>2 DEF Safe, CallsOK
  <2>4. \A u, d : Asks(wtx[x], u, d) \in 0 .. MaxAmount
    BY <2>1, AskBounded
  <2>5. \A u \in User, d \in Day : Asks(wtx[x], u, d) <= Asks(wtx[x], u, d)
    BY <2>4, BoundAssumption
  <2> QED
    BY <2>1, <2>2, <2>3, <2>5, UpdateSafe
<1> QED
  BY <1>1, <1>2, <1>4, <1>6, <1>7, <1>8

(* A refund, or a deposit seen on the chain, in a new document.            *)
LEMMA IncomeSafe ==
  ASSUME Safe, IInv', NEW r \in Req, NEW x \in Tx, New(x), NEW k \in User \X Currency,
         NEW a \in Amount, NEW ty \in {"refund", "usdc_deposit"},
         Begin(r, Write(k, Inc(k, a, 0)), Write(x, Doc(ty, k, a, "completed")))
  PROVE  Safe'
<1> DEFINE doc == Doc(ty, k, a, "completed")
<1>1. a \in 0 .. MaxAmount /\ 0 \in 0 .. MaxAmount
  BY BoundAssumption DEF Amount
<1>2. /\ doc \in TxDoc /\ doc.type = ty /\ doc.status = "completed" /\ doc.wallet = k
      /\ doc.amount = a /\ doc.counter = 0
  <2>1. /\ k \in Wallet /\ a \in Int /\ "completed" \in TxStatus
        /\ "refund" \in TxType /\ "usdc_deposit" \in TxType
    BY SafeTypes, BoundAssumption DEF Amount, TxType, TxStatus, Terminal
  <2>2. ty \in TxType
    BY <2>1
  <2> QED
    BY <2>1, <2>2, NewDoc
<1> HIDE DEF doc
<1>3. Proper(doc) /\ ByHand(doc) /\ Opens(doc, wtx[x]) /\ doc.type \in CreditTypes
  BY <1>1, <1>2 DEF Proper, ByHand, Opens, New, Terminal, CreditTypes
<1>4. SafeWrites(Write(k, Inc(k, a, 0)), Write(x, doc))
  BY <1>1, <1>2, <1>3, CreditSafe
<1> QED
  BY <1>4, BeginSafe DEF doc

LEMMA ComplianceNextSafe ==
  ASSUME Safe, IInv', ComplianceNext
  PROVE  Safe'
<1>1. PICK r \in Req, x \in Tx :
        \/ \E u \in Freezable : adminFreezeWallet(r, x, u)
        \/ \E u \in Freezable : adminUnfreezeWallet(r, x, u)
        \/ \E u \in User, a \in Amount : acreditarDevolucionEnBilletera(r, x, u, a)
  BY DEF ComplianceNext
<1>2. \A u \in User : /\ BOB(u) \in User \X Currency /\ USDC(u) \in User \X Currency
                      /\ BOB(u) \in Wallet /\ USDC(u) \in Wallet
  BY SafeTypes DEF BOB, USDC, Currency
<1>3. \A u \in Freezable : u \in User
  BY BOBAssumption
<1>4. \A k \in Wallet, status \in {"active", "frozen"}, b \in Int, f \in Int :
        /\ moveFrozen(k, status, b, f) \in WalletDoc
        /\ moveFrozen(k, status, b, f).balanceReserved = wallet[k].balanceReserved
        /\ moveFrozen(k, status, b, f).balance = b
        /\ moveFrozen(k, status, b, f).balanceFrozen = f
  <2> SUFFICES ASSUME NEW k \in Wallet, NEW status \in {"active", "frozen"},
                      NEW b \in Int, NEW f \in Int
               PROVE  /\ moveFrozen(k, status, b, f) \in WalletDoc
                      /\ moveFrozen(k, status, b, f).balanceReserved = wallet[k].balanceReserved
                      /\ moveFrozen(k, status, b, f).balance = b
                      /\ moveFrozen(k, status, b, f).balanceFrozen = f
    OBVIOUS
  <2>1. wallet[k] \in WalletDoc
    BY SafeTypes
  <2> QED
    BY <2>1 DEF moveFrozen, WalletDoc
<1>5. \A k \in Wallet : wallet[k].balance \in Int /\ wallet[k].balanceFrozen \in Int
  BY SafeTypes
<1>6. "freeze" \in TxType /\ "unfreeze" \in TxType /\ "completed" \in TxStatus
  BY DEF TxType, TxStatus, Terminal
<1>7. ASSUME NEW u \in Freezable, adminFreezeWallet(r, x, u)
      PROVE  Safe'
  <2> DEFINE doc == Doc("freeze", BOB(u), wallet[BOB(u)].balance, "completed")
  <2> DEFINE d1 == frozenBOB(BOB(u))
  <2> DEFINE d2 == frozenUSDC(USDC(u))
  <2> DEFINE b == Active(USDC(u))
  <2>1. /\ doc \in TxDoc /\ doc.type = "freeze" /\ doc.wallet = BOB(u)
        /\ doc.status = "completed"
    BY <1>2, <1>3, <1>5, <1>6, NewDoc
  <2>2. d1 \in WalletDoc /\ d1.balanceReserved = wallet[BOB(u)].balanceReserved
    BY <1>2, <1>3, <1>4, <1>5 DEF frozenBOB
  <2>3. /\ d2 \in WalletDoc /\ d2.balanceReserved = wallet[USDC(u)].balanceReserved
        /\ d2.balance + d2.balanceFrozen = wallet[USDC(u)].balance + wallet[USDC(u)].balanceFrozen
    BY <1>2, <1>3, <1>4, <1>5 DEF frozenUSDC
  <2>4. New(x) /\ Begin(r, Write(BOB(u), d1) (+) (IF b THEN Write(USDC(u), d2) ELSE noWrite),
                        Write(x, doc))
    BY <1>7 DEF adminFreezeWallet
  <2>5. b \in BOOLEAN
    BY DEF Active
  <2> HIDE DEF doc, d1, d2, b
  <2>6. SafeWrites(Write(BOB(u), d1) (+) (IF b THEN Write(USDC(u), d2) ELSE noWrite),
                   Write(x, doc))
    BY <2>1, <2>2, <2>3, <2>4, <2>5, ComplianceSafe
  <2> QED
    BY <2>4, <2>6, BeginSafe
<1>8. ASSUME NEW u \in Freezable, adminUnfreezeWallet(r, x, u)
      PROVE  Safe'
  <2> DEFINE doc == Doc("unfreeze", BOB(u), wallet[BOB(u)].balanceFrozen, "completed")
  <2> DEFINE d1 == thawedBOB(BOB(u))
  <2> DEFINE d2 == thawedUSDC(USDC(u))
  <2> DEFINE b == ~Active(USDC(u))
  <2>1. /\ doc \in TxDoc /\ doc.type = "unfreeze" /\ doc.wallet = BOB(u)
        /\ doc.status = "completed"
    BY <1>2, <1>3, <1>5, <1>6, NewDoc
  <2>2. d1 \in WalletDoc /\ d1.balanceReserved = wallet[BOB(u)].balanceReserved
    BY <1>2, <1>3, <1>4, <1>5 DEF thawedBOB
  <2>3. /\ d2 \in WalletDoc /\ d2.balanceReserved = wallet[USDC(u)].balanceReserved
        /\ d2.balance + d2.balanceFrozen = wallet[USDC(u)].balance + wallet[USDC(u)].balanceFrozen
    BY <1>2, <1>3, <1>4, <1>5 DEF thawedUSDC
  <2>4. New(x) /\ Begin(r, Write(BOB(u), d1) (+) (IF b THEN Write(USDC(u), d2) ELSE noWrite),
                        Write(x, doc))
    BY <1>8 DEF adminUnfreezeWallet
  <2>5. b \in BOOLEAN
    BY DEF Active
  <2> HIDE DEF doc, d1, d2, b
  <2>6. SafeWrites(Write(BOB(u), d1) (+) (IF b THEN Write(USDC(u), d2) ELSE noWrite),
                   Write(x, doc))
    BY <2>1, <2>2, <2>3, <2>4, <2>5, ComplianceSafe
  <2> QED
    BY <2>4, <2>6, BeginSafe
<1>9. ASSUME NEW u \in User, NEW a \in Amount, acreditarDevolucionEnBilletera(r, x, u, a)
      PROVE  Safe'
  BY <1>2, <1>9, IncomeSafe DEF acreditarDevolucionEnBilletera
<1> QED
  BY <1>1, <1>7, <1>8, <1>9

(* A conversion is requested.                                              *)
LEMMA RequestConversionSafe ==
  ASSUME Safe, IInv', NEW r \in Req, NEW x \in Tx,
         NEW type \in {"bob_to_usdc", "usdc_to_bob"},
         NEW from \in User \X Currency, NEW to, NEW a \in Amount, NEW c \in Amount,
         from[2] = IF type = "bob_to_usdc" THEN "BOB" ELSE "USDC",
         requestConversion(r, x, type, from, to, a, c)
  PROVE  Safe'
<1> DEFINE e == Doc(type, from, a, "pending")
<1> DEFINE doc == [e EXCEPT !.counter = c]
<1>1. /\ from \in Wallet /\ a \in Int /\ a \in 0 .. MaxAmount /\ c \in Int /\ c \in 0 .. MaxAmount
      /\ type \in TxType /\ "pending" \in TxStatus
  BY SafeTypes, BoundAssumption DEF Amount, TxType, TxStatus
<1>2. e \in TxDoc /\ e.type = type /\ e.status = "pending" /\ e.wallet = from /\ e.amount = a
  BY <1>1, NewDoc
<1> HIDE DEF e
<1>3. /\ doc \in TxDoc /\ doc.type = type /\ doc.status = "pending" /\ doc.wallet = from
      /\ doc.amount = a /\ doc.counter = c
  BY <1>1, <1>2 DEF TxDoc
<1>4. /\ New(x) /\ Active(from) /\ Available(from) >= a
      /\ Begin(r, Write(from, Inc(from, 0, a)), Write(x, doc))
  BY DEF requestConversion, e
<1> HIDE DEF doc
<1>5. Proper(doc) /\ ByHand(doc)
  BY <1>1, <1>3 DEF Proper, ByHand
<1>6. \A q \in Claim : ~Claims(doc, q)
  BY <1>3 DEF Claims
<1>7. \A u \in User, d \in Day : ~(Asks(doc, u, d) > 0)
  BY <1>3 DEF Asks
<1>8. SafeWrites(Write(from, Inc(from, 0, a)), Write(x, doc))
  BY <1>3, <1>4, <1>5, <1>6, <1>7, RequestSafe
<1> QED
  BY <1>4, <1>8, BeginSafe

LEMMA ConversionSafe ==
  ASSUME Safe, IInv', ConversionNext
  PROVE  Safe'
<1>1. PICK r \in Req, x \in Tx :
    \/ \E u \in User, a, c \in Amount : requestBOBtoUSDC(r, x, u, a, c)
    \/ \E y \in Tx, spread \in BOOLEAN : adminConfirmBOBtoUSDC(r, x, y, spread)
    \/ adminRejectBOBtoUSDC(r, x)
    \/ \E u \in User, a, c \in Amount : requestUSDCtoBOB(r, x, u, a, c)
    \/ \E y \in Tx, spread \in BOOLEAN : adminConfirmUSDCtoBOB(r, x, y, spread)
    \/ adminRejectUSDCtoBOB(r, x)
  BY DEF ConversionNext
<1>2. \A u \in User : BOB(u) \in User \X Currency /\ USDC(u) \in User \X Currency
  BY DEF BOB, USDC, Currency
<1>3. ASSUME NEW u \in User, NEW a \in Amount, NEW c \in Amount,
             requestBOBtoUSDC(r, x, u, a, c) \/ requestUSDCtoBOB(r, x, u, a, c)
      PROVE  Safe'
  BY <1>2, <1>3, RequestConversionSafe DEF requestBOBtoUSDC, requestUSDCtoBOB, BOB, USDC
<1>4. ASSUME adminRejectBOBtoUSDC(r, x) \/ adminRejectUSDCtoBOB(r, x)
      PROVE  Safe'
  <2>1. /\ wtx[x].type \in {"bob_to_usdc", "usdc_to_bob"} /\ wtx[x].status = "pending"
        /\ Begin(r, Write(wtx[x].wallet, Inc(wtx[x].wallet, 0, -wtx[x].amount)),
                 Write(x, Set(x, "failed")))
    BY <1>4 DEF adminRejectBOBtoUSDC, adminRejectUSDCtoBOB, rejectConversion, Is
  <2>2. SafeWrites(Write(wtx[x].wallet, Inc(wtx[x].wallet, 0, -wtx[x].amount)),
                   Write(x, Set(x, "failed")))
    BY <2>1, ReleaseSafe DEF HoldsReserve
  <2> QED
    BY <2>1, <2>2, BeginSafe
<1>5. ASSUME NEW y \in Tx, NEW spread \in BOOLEAN,
             adminConfirmBOBtoUSDC(r, x, y, spread) \/ adminConfirmUSDCtoBOB(r, x, y, spread)
      PROVE  Safe'
  <2> DEFINE k == wtx[x].wallet
  <2> DEFINE a == wtx[x].amount
  <2>1. PICK m, credited :
          /\ \/ m = USDC(k[1]) /\ credited = "usdc_deposit" /\ Is(x, "bob_to_usdc", "pending")
             \/ m = BOB(k[1]) /\ credited = "deposit" /\ Is(x, "usdc_to_bob", "pending")
          /\ New(y)
          /\ Begin(r, Write(k, Inc(k, -a, -a))
                        (+) (Write(m, Inc(m, wtx[x].counter, 0)) (+) swapRevenue(spread)),
                      Write(x, Set(x, "completed"))
                        (+) Write(y, Doc(credited, m, wtx[x].counter, "completed")))
    BY <1>5 DEF adminConfirmBOBtoUSDC, adminConfirmUSDCtoBOB, confirmConversion
  <2>2. wtx[x].status = "pending" /\ wtx[x].type \in {"bob_to_usdc", "usdc_to_bob"}
    BY <2>1 DEF Is
  <2>3. Proper(wtx[x])
    BY SafeTypes
  <2>4. k \in User \X Currency
    BY <2>2, <2>3 DEF Proper
  <2>5. m \in User \X Currency /\ m # k /\ credited \in {"usdc_deposit", "deposit"}
    BY <2>1, <2>3, <2>4 DEF Proper, Is, USDC, BOB, Currency
  <2>6. SafeWrites(Write(k, Inc(k, -a, -a))
                     (+) (Write(m, Inc(m, wtx[x].counter, 0)) (+) swapRevenue(spread)),
                   Write(x, Set(x, "completed"))
                     (+) Write(y, Doc(credited, m, wtx[x].counter, "completed")))
    BY <2>1, <2>2, <2>5, ConvertSafe
  <2> QED
    BY <2>1, <2>6, BeginSafe
<1> QED
  BY <1>1, <1>3, <1>4, <1>5

(* A transfer of USDC, with or without a fee.                              *)
LEMMA UsdcTransferSafe ==
  ASSUME Safe, IInv', NEW r \in Req, NEW x \in Tx, NEW y \in Tx, NEW z \in Tx,
         NEW u \in User, NEW v \in User, NEW a \in Amount, NEW q \in Charge \cup {NoRef},
         NEW f \in Fees, transferAtFee(r, x, y, z, u, v, a, q, f),
         q \in Charge => PaysCharge(q, "USDC", v, a)
  PROVE  Safe'
<1> DEFINE k == USDC(u)
<1> DEFINE m == USDC(v)
<1> DEFINE total == a + f
<1> DEFINE s1 == [Doc("send", k, a, "completed") EXCEPT !.ref = q]
<1> DEFINE s2 == Doc("receive", m, a, "completed")
<1> DEFINE s3 == Doc("fee", k, f, "completed")
<1> DEFINE w12 == Write(k, Inc(k, -total, 0)) (+) Write(m, Inc(m, a, 0))
<1> DEFINE w3 == Write(feeConfig, Inc(feeConfig, f, 0))
<1> DEFINE t12 == Write(x, s1) (+) Write(y, s2)
<1> DEFINE t3 == Write(z, s3)
<1>1. /\ x # y /\ New(x) /\ New(y) /\ u # v
      /\ q # NoRef => ~alreadyPaid(q)
      /\ Active(k) /\ Active(m) /\ Available(k) >= total
      /\ IF f > 0 THEN z \notin {x, y} /\ New(z) /\ Begin(r, w12 (+) w3, t12 (+) t3)
                  ELSE z = x /\ Begin(r, w12, t12)
  BY DEF transferAtFee
<1>2. /\ a \in Int /\ f \in Int /\ -total \in Int /\ f \in 0 .. MaxAmount /\ total = a + f
  BY FeeAssumption, BoundAssumption DEF Amount
<1>3. /\ k \in User \X Currency /\ m \in User \X Currency /\ k # m
  BY <1>1 DEF USDC, Currency
<1>4. k \in Wallet /\ m \in Wallet /\ feeConfig \in Wallet /\ k # feeConfig /\ m # feeConfig
  BY <1>3, SafeTypes DEF Wallet
<1>5. /\ "send" \in TxType /\ "receive" \in TxType /\ "fee" \in TxType
      /\ "completed" \in TxStatus /\ q \in Charge \cup Payment \cup {NoRef}
  BY DEF TxType, TxStatus, Terminal
<1>6. /\ s1 \in TxDoc /\ s1.type = "send" /\ s1.wallet = k /\ s1.amount = a
      /\ s1.status = "completed" /\ s1.counter = 0 /\ s1.ref = q
  BY <1>2, <1>4, <1>5, RefDoc
<1>7. /\ s2 \in TxDoc /\ s2.type = "receive" /\ s2.wallet = m /\ s2.amount = a
      /\ s2.status = "completed" /\ s2.counter = 0
  BY <1>2, <1>4, <1>5, NewDoc
<1>8. /\ s3 \in TxDoc /\ s3.type = "fee" /\ s3.wallet = k /\ s3.amount = f
      /\ s3.status = "completed" /\ s3.counter = 0
  BY <1>2, <1>4, <1>5, NewDoc
<1>9. /\ Inc(k, -total, 0) \in WalletDoc /\ Inc(m, a, 0) \in WalletDoc
      /\ Inc(feeConfig, f, 0) \in WalletDoc
  BY <1>2, <1>4, IncFields
<1>10. \A c \in Claim : Claims(s1, c) => Gate(c) = m /\ Unclaimed(c)
  <2> SUFFICES ASSUME NEW c \in Claim, Claims(s1, c)
               PROVE  Gate(c) = m /\ Unclaimed(c)
    OBVIOUS
  <2>1. c = q /\ q \in Charge /\ q # NoRef
    BY <1>6, RefAssumption DEF Claims, Claim
  <2> QED
    BY <1>1, <2>1, UnpaidUnclaimed DEF Gate, PaysCharge, USDC
<1> HIDE DEF s1, s2, s3, k, m, total
<1>11. Formed(w12, t12) /\ Formed(w3, t3)
  BY <1>4, <1>6, <1>7, <1>8, <1>9, Writes
<1>12. /\ DOMAIN w12 = {k, m} /\ w12[k] = Inc(k, -total, 0) /\ w12[m] = Inc(m, a, 0)
       /\ DOMAIN t12 = {x, y} /\ t12[x] = s1 /\ t12[y] = s2
  BY <1>1, <1>3 DEF Write, (+)
<1>13. CASE f > 0
  <2> DEFINE w == w12 (+) w3
  <2> DEFINE t == t12 (+) t3
  <2>1. Begin(r, w, t) /\ New(z) /\ z \notin {x, y}
    BY <1>1, <1>13
  <2>2. /\ DOMAIN w = {k, m, feeConfig} /\ w[k] = Inc(k, -total, 0) /\ w[m] = Inc(m, a, 0)
        /\ w[feeConfig] = Inc(feeConfig, f, 0)
        /\ DOMAIN t = {x, y, z} /\ t[x] = s1 /\ t[y] = s2 /\ t[z] = s3
    BY <1>4, <1>12, <2>1 DEF Write, (+)
  <2>3. Formed(w, t)
    <3> HIDE DEF w12, w3, t12, t3
    <3> QED
      BY <1>11, Writes
  <2> HIDE DEF w, t
  <2>4. MoveOf(x, y, z, k, m, a, f, s1, s2, s3, w, t)
    BY <1>1, <1>2, <1>3, <1>6, <1>7, <1>8, <1>10, <1>13, <2>1, <2>2, <2>3 DEF MoveOf
  <2> QED
    BY <2>1, <2>4, MovesSafe, BeginSafe
<1>14. CASE ~(f > 0)
  <2>1. Begin(r, w12, t12) /\ z = x
    BY <1>1, <1>14
  <2> HIDE DEF w12, t12
  <2>2. MoveOf(x, y, z, k, m, a, f, s1, s2, s3, w12, t12)
    BY <1>1, <1>2, <1>3, <1>6, <1>7, <1>8, <1>10, <1>11, <1>12, <1>14, <2>1 DEF MoveOf
  <2> QED
    BY <2>1, <2>2, MovesSafe, BeginSafe
<1> QED
  BY <1>13, <1>14

LEMMA UsdcSafe ==
  ASSUME Safe, IInv', UsdcNext
  PROVE  Safe'
<1>1. PICK r \in Req, x \in Tx :
        \/ \E y, z \in Tx, u, v \in User, a \in Amount :
             \/ sendUSDC(r, x, y, z, u, v, a)
             \/ \E q \in Charge : scanAndPayUSDC(r, x, y, z, u, v, a, q)
        \/ \E u \in User, a \in Amount : creditUSDCDeposit(r, x, u, a)
        \/ \E p \in Payment, a \in Amount : reserveUSDCForPayment(r, x, p, a)
        \/ confirmUSDCPayment(r, x)
        \/ releaseUSDCReservation(r, x)
  BY DEF UsdcNext
<1>2. \A u \in User : USDC(u) \in User \X Currency /\ USDC(u) \in Wallet
  BY DEF USDC, Wallet, Currency
<1>3. ASSUME NEW y \in Tx, NEW z \in Tx, NEW u \in User, NEW v \in User, NEW a \in Amount,
             \/ sendUSDC(r, x, y, z, u, v, a)
             \/ \E q \in Charge : scanAndPayUSDC(r, x, y, z, u, v, a, q)
      PROVE  Safe'
  <2>1. PICK q \in Charge \cup {NoRef}, f \in Fees :
          /\ transferAtFee(r, x, y, z, u, v, a, q, f)
          /\ q \in Charge => PaysCharge(q, "USDC", v, a)
    BY <1>3, RefAssumption DEF sendUSDC, scanAndPayUSDC, executeUsdcP2pTransfer
  <2> QED
    BY <2>1, UsdcTransferSafe
<1>4. ASSUME NEW u \in User, NEW a \in Amount, creditUSDCDeposit(r, x, u, a)
      PROVE  Safe'
  BY <1>2, <1>4, IncomeSafe DEF creditUSDCDeposit
<1>5. ASSUME NEW p \in Payment, NEW a \in Amount, reserveUSDCForPayment(r, x, p, a)
      PROVE  Safe'
  <2> DEFINE k == USDC(payer[p])
  <2> DEFINE doc == [Doc("crossborder_payin", k, a, "pending") EXCEPT !.ref = p]
  <2>1. /\ k \in User \X Currency /\ k \in Wallet /\ a \in Int
        /\ a \in 0 .. MaxAmount /\ 0 \in 0 .. MaxAmount
    BY <1>2, RefAssumption, BoundAssumption DEF Amount
  <2>2. "crossborder_payin" \in TxType /\ "pending" \in TxStatus
    BY DEF TxType, TxStatus
  <2>3. /\ doc \in TxDoc /\ doc.type = "crossborder_payin" /\ doc.status = "pending"
        /\ doc.wallet = k /\ doc.amount = a /\ doc.counter = 0 /\ doc.ref = p
    BY <2>1, <2>2, RefDoc
  <2>4. /\ New(x) /\ Active(k) /\ Available(k) >= a
        /\ \A y \in payinOf(p) : wtx[y].status \notin {"pending", "completed"}
        /\ Begin(r, Write(k, Inc(k, 0, a)), Write(x, doc))
    BY <1>5 DEF reserveUSDCForPayment
  <2>5. k = USDC(payer[p])
    OBVIOUS
  <2> HIDE DEF doc, k
  <2>6. Proper(doc) /\ ByHand(doc)
    BY <2>1, <2>3 DEF Proper, ByHand
  <2>7. \A c \in Claim : Claims(doc, c) => Gate(c) = k /\ Unclaimed(c)
    <3>1. \A y \in Tx : ~Claims(wtx[y], p)
      BY <2>4, RefAssumption DEF Claims, payinOf
    <3>2. p \notin Charge
      BY RefAssumption
    <3> QED
      BY <2>3, <2>5, <3>1, <3>2 DEF Claims, Gate, Unclaimed
  <2>8. \A u \in User, d \in Day : ~(Asks(doc, u, d) > 0)
    BY <2>3 DEF Asks
  <2>9. SafeWrites(Write(k, Inc(k, 0, a)), Write(x, doc))
    BY <2>1, <2>3, <2>4, <2>6, <2>7, <2>8, RequestSafe
  <2> QED
    BY <2>4, <2>9, BeginSafe
<1>6. ASSUME confirmUSDCPayment(r, x) \/ releaseUSDCReservation(r, x)
      PROVE  Safe'
  <2>1. HoldsReserve(wtx[x])
    BY <1>6 DEF confirmUSDCPayment, releaseUSDCReservation, Is, HoldsReserve
  <2> QED
    BY <1>6, <2>1, ReleaseSafe, BeginSafe DEF confirmUSDCPayment, releaseUSDCReservation
<1> QED
  BY <1>1, <1>3, <1>4, <1>5, <1>6

LEMMA SessionSafe ==
  ASSUME Safe, IInv', SessionNext
  PROVE  Safe'
<1>1. ASSUME NEW r \in Req, Abort(r)
      PROVE  Safe'
  <2>1. \A q \in Req : session'[q] = Idle \/ session'[q] = session[q]
    BY <1>1 DEF Abort, Safe, IInv, Sessions
  <2> QED
    BY <1>1, <2>1, DropSafe DEF Abort
<1>2. ASSUME Restart
      PROVE  Safe'
  BY <1>2, DropSafe DEF Restart
<1>3. ASSUME NewDay
      PROVE  Safe'
  BY <1>3, DropSafe DEF NewDay
<1> QED
  BY <1>1, <1>2, <1>3, CommitSafe DEF SessionNext

-----------------------------------------------------------------------------
(* The invariant.                                                          *)

LEMMA TotalZero ==
  ASSUME NEW f, \A x \in Tx : f[x] = 0
  PROVE  Total(f) = 0
<1>1. Units(f) = {}
  BY DEF Units, Amount
<1> QED
  BY <1>1, FS_EmptySet DEF Total, Units

LEMMA InitSafe == StoreInit => Safe
<1> SUFFICES ASSUME StoreInit PROVE Safe
  OBVIOUS
<1>1. IInv
  BY InitInv
<1>2. \A x \in Tx : /\ wtx[x].status = "unused" /\ wtx[x].type = "deposit"
                    /\ wtx[x].amount = 0 /\ wtx[x].counter = 0
  BY DEF StoreInit, Unused
<1>3. \A k \in Wallet : wallet[k].balance = 0 /\ wallet[k].balanceReserved = 0
                          /\ wallet[k].balanceFrozen = 0
  BY DEF StoreInit, EmptyWallet
<1>4. \A x \in Tx : Proper(wtx[x]) /\ ByHand(wtx[x])
  BY <1>2, BoundAssumption DEF Proper, ByHand
<1>5. \A k \in Spender : Covered(wallet[k])
  BY <1>3 DEF Spender, Wallet, Covered
<1>6. BooksMatch
  <2>1. \A k : \A x \in Tx : Ins(k)[x] = 0 /\ Outs(k)[x] = 0
    BY <1>2 DEF Ins, Outs, In, Out, Moved
  <2>2. \A k : Total(Ins(k)) = 0 /\ Total(Outs(k)) = 0
    BY <2>1, TotalZero
  <2>3. \A k \in Booked : Value(k, wallet[k]) = 0
    BY <1>3 DEF Booked, Wallet, Value
  <2> QED
    BY <2>2, <2>3 DEF BooksMatch
<1>7. ClaimedOnce
  BY <1>2 DEF ClaimedOnce, Claims
<1>8. CapKept
  <2>1. \A u, d : RequestedOn(u, d) = 0
    <3>1. \A u, d : \A x \in Tx : Asks(wtx[x], u, d) = 0
      BY <1>2 DEF Asks
    <3> QED
      BY <3>1, TotalZero DEF RequestedOn
  <2> QED
    BY <2>1, BOBAssumption DEF CapKept
<1>9. CallsOK /\ \A r \in Req : SafeSession(r)
  BY DEF StoreInit, CallsOK, SafeSession
<1> QED
  BY <1>1, <1>4, <1>5, <1>6, <1>7, <1>8, <1>9 DEF Safe

(* Whatever sessions overlap, abort or are lost in a restart, every open   *)
(* session would leave the documents safe if it committed now.             *)
THEOREM SafeInvariance == Spec => []Safe
<1>1. StoreInit => Safe
  BY InitSafe
<1>2. Safe /\ IInv' /\ [Next]_storeVars => Safe'
  <2> SUFFICES ASSUME Safe, IInv', [Next]_storeVars
               PROVE  Safe'
    OBVIOUS
  <2>1. CASE DepositNext
    BY <2>1, DepositSafe
  <2>2. CASE TransferNext
    BY <2>2, TransferSafe
  <2>3. CASE WithdrawalNext
    BY <2>3, WithdrawalSafe
  <2>4. CASE ComplianceNext
    BY <2>4, ComplianceNextSafe
  <2>5. CASE SessionNext
    BY <2>5, SessionSafe
  <2>6. CASE ConversionNext
    BY <2>6, ConversionSafe
  <2>7. CASE UsdcNext
    BY <2>7, UsdcSafe
  <2>8. CASE UNCHANGED storeVars
    BY <2>8, DropSafe DEF storeVars
  <2> QED
    BY <2>1, <2>2, <2>3, <2>4, <2>5, <2>6, <2>7, <2>8 DEF Next, BOBNext
<1> QED
  BY <1>1, <1>2, Invariance, PTL DEF Spec

-----------------------------------------------------------------------------
(* What follows.                                                           *)

(* No user promises or spends money they do not have: a wallet compliance  *)
(* cannot reach covers its reserve, whatever withdrawals, transfers,       *)
(* conversions and holds overlap.                                          *)
THEOREM AlwaysSolvent == Spec => []Solvent
<1>1. Safe => Solvent
  BY DEF Safe, Solvent, Spender, Covered
<1> QED
  BY <1>1, SafeInvariance, PTL

(* revenueAccruedUsdc is the sum of the fee documents, also when two       *)
(* transfers write the singleton at the same time.                         *)
THEOREM RevenueAlwaysMatches == Spec => []RevenueMatches
<1>1. Safe => RevenueMatches
  <2> SUFFICES ASSUME Safe PROVE RevenueMatches
    OBVIOUS
  <2>1. feeConfig \in Booked
    BY SafeTypes DEF Booked, BOB, Wallet, feeConfig
  <2>2. Value(feeConfig, wallet[feeConfig]) = Total(Ins(feeConfig)) - Total(Outs(feeConfig))
    BY <2>1 DEF Safe, BooksMatch
  <2>3. Total(Outs(feeConfig)) = 0
    <3>1. \A x \in Tx : Outs(feeConfig)[x] = 0
      BY DEF Outs, Out
    <3> QED
      BY <3>1, TotalZero
  <2>4. Ins(feeConfig) = [x \in Tx |-> IF wtx[x].type = "fee" THEN wtx[x].amount ELSE 0]
    BY DEF Ins, In
  <2>5. Total(Ins(feeConfig)) \in Int
    BY TotalNat
  <2> QED
    BY <2>2, <2>3, <2>4, <2>5 DEF RevenueMatches, Value
<1> QED
  BY <1>1, SafeInvariance, PTL

LEMMA AtMostOne ==
  ASSUME NEW S, \A x, y \in S : x = y
  PROVE  Cardinality(S) <= 1
<1>1. CASE S = {}
  BY <1>1, FS_EmptySet
<1>2. CASE S # {}
  <2>1. PICK x : S = {x}
    BY <1>2
  <2> QED
    BY <2>1, FS_Singleton
<1> QED
  BY <1>1, <1>2

(* A cross-border payment holds or has taken its payer's USDC at most      *)
(* once, however many requests reserve for it at the same time.            *)
THEOREM PaymentsHeldOnce == Spec => []PaymentHeldOnce
<1>1. Safe => PaymentHeldOnce
  <2> SUFFICES ASSUME Safe, NEW p \in Payment
               PROVE  Cardinality({x \in payinOf(p) :
                                     wtx[x].status \in {"pending", "completed"}}) <= 1
    BY DEF PaymentHeldOnce
  <2> DEFINE S == {x \in payinOf(p) : wtx[x].status \in {"pending", "completed"}}
  <2>1. \A x \in S : x \in Tx /\ Claims(wtx[x], p)
    BY DEF payinOf, Claims
  <2>2. \A x, y \in S : x = y
    BY <2>1 DEF Safe, ClaimedOnce, Claim
  <2> QED
    BY <2>2, AtMostOne
<1> QED
  BY <1>1, SafeInvariance, PTL

(* A charge or p2p code is paid once: the anti-replay lookup is outside    *)
(* any lock, and what keeps two payers apart is that both write the        *)
(* creator's wallet.                                                       *)
THEOREM ChargesPaidOnce == Spec => []ChargePaidOnce
<1>1. Safe => ChargePaidOnce
  <2> SUFFICES ASSUME Safe, NEW q \in Charge
               PROVE  Cardinality(PaidWith(q)) <= 1
    BY DEF ChargePaidOnce
  <2>1. \A x \in PaidWith(q) : x \in Tx /\ Claims(wtx[x], q)
    BY DEF PaidWith, Claims
  <2>2. \A x, y \in PaidWith(q) : x = y
    BY <2>1 DEF Safe, ClaimedOnce, Claim
  <2> QED
    BY <2>2, AtMostOne
<1> QED
  BY <1>1, SafeInvariance, PTL

(* The daily limit of withdrawals holds over everything a user asks for in *)
(* a day, as long as no withdrawal goes through the bank: one the bank has *)
(* ("dispatched") is not counted by requestWithdrawal.                     *)
THEOREM WithdrawalsCapped ==
  ASSUME "bank" \notin Methods
  PROVE  Spec => []DailyWithdrawalCap
<1>1. Safe => DailyWithdrawalCap
  <2> SUFFICES ASSUME Safe, WithdrawLimit > 0, NEW u \in User
               PROVE  RequestedToday(u) <= WithdrawLimit
    BY DEF DailyWithdrawalCap
  <2> DEFINE f == [x \in Tx |-> IF x \in {y \in Tx :
                      /\ wtx[y].wallet = BOB(u)
                      /\ wtx[y].type = "withdrawal"
                      /\ wtx[y].status \in {"pending", "dispatched", "completed"}
                      /\ wtx[y].day = today} THEN wtx[x].amount ELSE 0]
  <2> DEFINE g == [x \in Tx |-> Asks(wtx[x], u, today)]
  <2>1. f = g
    BY DEF Asks
  <2>2. RequestedToday(u) = Total(f) /\ RequestedOn(u, today) = Total(g)
    BY DEF RequestedToday, SumWhere, RequestedOn
  <2>3. today \in Day
    BY SafeTypes
  <2> QED
    BY <2>1, <2>2, <2>3 DEF Safe, CapKept, Capped
<1> QED
  BY <1>1, SafeInvariance, PTL

(* The money of a wallet is what its completed documents say, where a bank *)
(* QR cannot credit a deposit twice.                                       *)
THEOREM LedgerAlwaysMatches ==
  ASSUME BankQr = FALSE
  PROVE  Spec => []LedgerMatches
<1>1. Safe => LedgerMatches
  <2> SUFFICES ASSUME Safe PROVE LedgerMatches
    OBVIOUS
  <2>1. \A k \in Booked \ {feeConfig} : Funds(k) = Movements(k)
    <3> SUFFICES ASSUME NEW k \in Booked \ {feeConfig}
                 PROVE  Funds(k) = Movements(k)
      OBVIOUS
    <3>1. /\ Ins(k) = [x \in Tx |-> Moved(wtx[x], k, CreditTypes)]
          /\ Outs(k) = [x \in Tx |-> Moved(wtx[x], k, DebitTypes)]
      BY DEF Ins, Outs, In, Out
    <3> QED
      BY <3>1 DEF Safe, BooksMatch, Value, Funds, Movements
  <2>2. \A u \in User \ Freezable : BOB(u) \in Booked \ {feeConfig}
    BY SafeTypes DEF Booked, BOB, Currency
  <2>3. \A u \in User : USDC(u) \in Booked \ {feeConfig}
    BY SafeTypes DEF Booked, BOB, USDC, Currency
  <2> QED
    BY <2>1, <2>2, <2>3 DEF LedgerMatches
<1> QED
  BY <1>1, SafeInvariance, PTL

-----------------------------------------------------------------------------
(* What a step may never do.                                               *)

(* Documents change when a session commits, or one at a time: a deposit or *)
(* a withdrawal, and without bank QRs never one that is settled.           *)
LEMMA HowDocumentsChange ==
  ASSUME Safe, [Next]_storeVars
  PROVE  \/ \E r \in Req : session[r] # Idle /\ Commit(r)
         \/ wallet' = wallet /\ wtx' = wtx
         \/ /\ wallet' = wallet
            /\ \E x \in Tx, doc \in TxDoc :
                 /\ wtx' = [wtx EXCEPT ![x] = doc]
                 /\ doc.type \in {"deposit", "withdrawal"}
                 /\ BankQr \/ wtx[x].status \notin Terminal \/ doc.status = wtx[x].status
<1> DEFINE Once == \E x \in Tx, doc \in TxDoc :
                     /\ wtx' = [wtx EXCEPT ![x] = doc]
                     /\ doc.type \in {"deposit", "withdrawal"}
                     /\ BankQr \/ wtx[x].status \notin Terminal \/ doc.status = wtx[x].status
<1>1. \A x \in Tx : wtx[x] \in TxDoc
  BY SafeTypes
<1>2. ASSUME NEW x \in Tx, NEW s \in TxStatus
      PROVE  Set(x, s) \in TxDoc /\ Set(x, s).type = wtx[x].type
  BY SetFields DEF SameEntry
<1>3. {"pending", "failed", "dispatched", "awaiting_proof"} \subseteq TxStatus
  BY DEF TxStatus, Terminal
<1>4. CASE DepositNext
  <2>1. PICK x \in Tx :
          \/ \E u \in User, a \in Amount : initiateDeposit(x, u, a)
          \/ generateQRSucceeds(x)
          \/ generateQRFails(x)
          \/ uploadDepositProof(x)
          \/ \E r \in Req : adminConfirmDeposit(r, x)
          \/ \E r \in Req : confirmBankQrDeposit(r, x)
          \/ failExpiredBankQrDeposit(x)
          \/ cleanupOrphanWalletDeposits(x)
    BY <1>4 DEF DepositNext
  <2>2. x \in calls /\ wtx[x].type = "deposit" => BankQr
    BY BOBAssumption DEF Safe, CallsOK
  <2>3. ASSUME NEW u \in User, NEW a \in Amount, initiateDeposit(x, u, a)
        PROVE  wallet' = wallet /\ Once
    <3> DEFINE doc == Doc("deposit", BOB(u), a, "awaiting_proof")
    <3>1. BOB(u) \in Wallet /\ a \in Int /\ "deposit" \in TxType /\ "awaiting_proof" \in TxStatus
      BY DEF BOB, Wallet, Currency, Amount, TxType, TxStatus
    <3>2. doc \in TxDoc /\ doc.type = "deposit"
      BY <3>1, NewDoc
    <3>3. /\ wallet' = wallet /\ wtx' = [wtx EXCEPT ![x] = doc]
          /\ wtx[x].status \notin Terminal
      BY <2>3 DEF initiateDeposit, UpdateOne, New, Terminal
    <3> HIDE DEF doc
    <3> QED
      BY <3>2, <3>3
  <2>4. ASSUME generateQRSucceeds(x)
        PROVE  wallet' = wallet /\ Once
    <3> DEFINE e == Set(x, "pending")
    <3> DEFINE doc == [e EXCEPT !.qrId = TRUE]
    <3>1. wallet' = wallet /\ wtx' = [wtx EXCEPT ![x] = doc] /\ wtx[x].type = "deposit" /\ BankQr
      BY <2>2, <2>4 DEF generateQRSucceeds, UpdateOne
    <3>2. e \in TxDoc /\ e.type = wtx[x].type
      BY <1>2, <1>3
    <3> HIDE DEF e
    <3>3. doc \in TxDoc /\ doc.type = wtx[x].type
      BY <3>2 DEF TxDoc
    <3> HIDE DEF doc
    <3> QED
      BY <3>1, <3>3
  <2>5. ASSUME NEW s \in {"pending", "failed"}, UpdateOne(x, Set(x, s)),
               wtx[x].type = "deposit", BankQr \/ wtx[x].status \notin Terminal
        PROVE  wallet' = wallet /\ Once
    BY <1>2, <1>3, <2>5 DEF UpdateOne
  <2>6. ASSUME generateQRFails(x)
        PROVE  wallet' = wallet /\ (wtx' = wtx \/ Once)
    BY <2>2, <2>5, <2>6 DEF generateQRFails, NoUpdate
  <2>7. ASSUME \/ uploadDepositProof(x) \/ failExpiredBankQrDeposit(x)
               \/ cleanupOrphanWalletDeposits(x)
        PROVE  wallet' = wallet /\ Once
    BY <2>5, <2>7 DEF uploadDepositProof, failExpiredBankQrDeposit,
                      cleanupOrphanWalletDeposits, Is, Terminal
  <2>8. ASSUME NEW r \in Req, adminConfirmDeposit(r, x) \/ confirmBankQrDeposit(r, x)
        PROVE  wallet' = wallet /\ wtx' = wtx
    BY <2>8 DEF adminConfirmDeposit, confirmBankQrDeposit, Begin
  <2> HIDE DEF Once
  <2>9. wallet' = wallet /\ (wtx' = wtx \/ Once)
    BY <2>1, <2>3, <2>4, <2>6, <2>7, <2>8
  <2> QED
    BY <2>9 DEF Once
<1>5. CASE WithdrawalNext
  <2>1. PICK x \in Tx :
          \/ \E r \in Req, u \in User, a \in Amount, m \in Methods :
               requestWithdrawal(r, x, u, a, m)
          \/ \E r \in Req : adminConfirmWithdrawal(r, x)
          \/ \E r \in Req : adminRejectWithdrawal(r, x)
          \/ adminDispatchWithdrawal(x)
          \/ transferFails(x)
          \/ transferAccepted(x)
          \/ \E r \in Req, b \in BOOLEAN : settleDispatchedWithdrawal(r, x, b)
    BY <1>5 DEF WithdrawalNext
  <2>2. ASSUME NEW s \in {"pending", "dispatched"}, UpdateOne(x, Set(x, s)),
               wtx[x].type = "withdrawal", wtx[x].status \notin Terminal
        PROVE  wallet' = wallet /\ Once
    BY <1>2, <1>3, <2>2 DEF UpdateOne
  <2>3. ASSUME adminDispatchWithdrawal(x)
        PROVE  wallet' = wallet /\ Once
    BY <2>2, <2>3 DEF adminDispatchWithdrawal, Is, Terminal
  <2>4. ASSUME transferFails(x)
        PROVE  wallet' = wallet /\ (wtx' = wtx \/ Once)
    BY <2>2, <2>4 DEF transferFails, NoUpdate, Terminal
  <2>5. ASSUME transferAccepted(x)
        PROVE  wallet' = wallet /\ Once
    BY <1>1, <2>5 DEF transferAccepted, UpdateOne
  <2>6. ASSUME NEW r \in Req, NEW w, NEW t, Begin(r, w, t)
        PROVE  wallet' = wallet /\ wtx' = wtx
    BY <2>6 DEF Begin
  <2>7. ASSUME NEW r \in Req,
               \/ \E u \in User, a \in Amount, m \in Methods : requestWithdrawal(r, x, u, a, m)
               \/ adminConfirmWithdrawal(r, x)
               \/ adminRejectWithdrawal(r, x)
               \/ \E b \in BOOLEAN : settleDispatchedWithdrawal(r, x, b)
        PROVE  wallet' = wallet /\ wtx' = wtx
    BY <2>6, <2>7 DEF requestWithdrawal, adminConfirmWithdrawal, adminRejectWithdrawal,
                      settleDispatchedWithdrawal
  <2> HIDE DEF Once
  <2>8. wallet' = wallet /\ (wtx' = wtx \/ Once)
    BY <2>1, <2>3, <2>4, <2>5, <2>7
  <2> QED
    BY <2>8 DEF Once
<1>6. CASE TransferNext \/ ComplianceNext \/ ConversionNext \/ UsdcNext
  <2>1. ASSUME NEW r, NEW w, NEW t, Begin(r, w, t)
        PROVE  wallet' = wallet /\ wtx' = wtx
    BY <2>1 DEF Begin
  <2>2. CASE TransferNext
    <3>1. PICK r \in Req, x \in Tx, y \in Tx, u \in User, v \in User, a \in Amount,
               q \in Charge \cup {NoRef} : transfer(r, x, y, u, v, a, q)
      BY <2>2 DEF TransferNext, sendP2P, scanAndPayQR
    <3>2. wallet' = wallet /\ wtx' = wtx
      BY <2>1, <3>1 DEF transfer
    <3> QED
      BY <3>2
  <2>3. CASE ComplianceNext
    BY <2>1, <2>3 DEF ComplianceNext, adminFreezeWallet, adminUnfreezeWallet,
                      acreditarDevolucionEnBilletera
  <2>4. CASE ConversionNext
    <3>1. \A r, x, type, from, to, a, c :
            requestConversion(r, x, type, from, to, a, c) => wallet' = wallet /\ wtx' = wtx
      BY <2>1 DEF requestConversion
    <3>2. \A r, x, y, type, to, credited, spread :
            confirmConversion(r, x, y, type, to, credited, spread) => wallet' = wallet /\ wtx' = wtx
      BY <2>1 DEF confirmConversion
    <3>3. \A r, x, type : rejectConversion(r, x, type) => wallet' = wallet /\ wtx' = wtx
      BY <2>1 DEF rejectConversion
    <3>4. PICK r \in Req, x \in Tx :
            \/ \E u \in User, a, c \in Amount : requestBOBtoUSDC(r, x, u, a, c)
            \/ \E y \in Tx, spread \in BOOLEAN : adminConfirmBOBtoUSDC(r, x, y, spread)
            \/ adminRejectBOBtoUSDC(r, x)
            \/ \E u \in User, a, c \in Amount : requestUSDCtoBOB(r, x, u, a, c)
            \/ \E y \in Tx, spread \in BOOLEAN : adminConfirmUSDCtoBOB(r, x, y, spread)
            \/ adminRejectUSDCtoBOB(r, x)
      BY <2>4 DEF ConversionNext
    <3>5. wallet' = wallet /\ wtx' = wtx
      <4>1. CASE \E u \in User, a, c \in Amount :
                   requestBOBtoUSDC(r, x, u, a, c) \/ requestUSDCtoBOB(r, x, u, a, c)
        BY <3>1, <4>1 DEF requestBOBtoUSDC, requestUSDCtoBOB
      <4>2. CASE \E y \in Tx, spread \in BOOLEAN :
                   adminConfirmBOBtoUSDC(r, x, y, spread) \/ adminConfirmUSDCtoBOB(r, x, y, spread)
        BY <3>2, <4>2 DEF adminConfirmBOBtoUSDC, adminConfirmUSDCtoBOB
      <4>3. CASE adminRejectBOBtoUSDC(r, x) \/ adminRejectUSDCtoBOB(r, x)
        BY <3>3, <4>3 DEF adminRejectBOBtoUSDC, adminRejectUSDCtoBOB
      <4> QED
        BY <3>4, <4>1, <4>2, <4>3
    <3> QED
      BY <3>5
  <2>5. CASE UsdcNext
    <3>1. \A r, x, y, z, u, v, a, q, f :
            transferAtFee(r, x, y, z, u, v, a, q, f) => wallet' = wallet /\ wtx' = wtx
      BY <2>1 DEF transferAtFee
    <3>2. \A r, x, u, a : creditUSDCDeposit(r, x, u, a) => wallet' = wallet /\ wtx' = wtx
      BY <2>1 DEF creditUSDCDeposit
    <3>3. \A r, x, p, a : reserveUSDCForPayment(r, x, p, a) => wallet' = wallet /\ wtx' = wtx
      BY <2>1 DEF reserveUSDCForPayment
    <3>4. \A r, x : confirmUSDCPayment(r, x) \/ releaseUSDCReservation(r, x)
                     => wallet' = wallet /\ wtx' = wtx
      BY <2>1 DEF confirmUSDCPayment, releaseUSDCReservation
    <3> QED
      BY <2>5, <3>1, <3>2, <3>3, <3>4
         DEF UsdcNext, sendUSDC, scanAndPayUSDC, executeUsdcP2pTransfer
  <2> QED
    BY <1>6, <2>2, <2>3, <2>4, <2>5
<1>7. CASE SessionNext
  <2>1. ASSUME NEW r \in Req, Abort(r)
        PROVE  wallet' = wallet /\ wtx' = wtx
    BY <2>1 DEF Abort
  <2> QED
    BY <1>7, <2>1 DEF SessionNext, Commit, Restart, NewDay
<1>8. CASE UNCHANGED storeVars
  BY <1>8 DEF storeVars
<1> QED
  BY <1>4, <1>5, <1>6, <1>7, <1>8 DEF Next, BOBNext

(* A settled document stays as it is, where the bank issues no QRs: the    *)
(* answers that come late find another status and write nothing, and a     *)
(* session opened before the settlement is dropped by it.                  *)
THEOREM SettledStaysSettled ==
  ASSUME BankQr = FALSE
  PROVE  Spec => SettledIsFinal
<1>1. Safe /\ [Next]_storeVars => [Settles]_storeVars
  <2> SUFFICES ASSUME Safe, [Next]_storeVars, NEW x \in Tx, wtx[x].status \in Terminal
               PROVE  wtx'[x].status = wtx[x].status
    BY DEF Settles
  <2>1. wtx \in [Tx -> TxDoc]
    BY SafeTypes
  <2>2. CASE \E r \in Req : session[r] # Idle /\ Commit(r)
    <3>1. PICK r \in Req : session[r] # Idle /\ Commit(r)
      BY <2>2
    <3> DEFINE t == session[r].t
    <3>2. wtx' = t (+) wtx /\ SafeWrites(session[r].w, t)
      BY <3>1 DEF Commit, Safe, SafeSession
    <3>3. x \notin DOMAIN t
      BY <3>2 DEF SafeWrites, Opens
    <3> HIDE DEF t
    <3> QED
      BY <2>1, <3>2, <3>3 DEF (+)
  <2>3. CASE \E y \in Tx, doc \in TxDoc :
               /\ wtx' = [wtx EXCEPT ![y] = doc]
               /\ wtx[y].status \notin Terminal \/ doc.status = wtx[y].status
    BY <2>1, <2>3
  <2>4. CASE wtx' = wtx
    BY <2>4
  <2> QED
    BY <2>2, <2>3, <2>4, HowDocumentsChange
<1> QED
  BY <1>1, SafeInvariance, PTL DEF Spec, SettledIsFinal

(* A frozen wallet takes no new commitment: the freeze writes the wallet,  *)
(* so it drops whoever read it before, and who reads it later is refused.  *)
THEOREM FrozenIsIdle == Spec => FrozenTakesNoCommitment
<1>1. Safe /\ [Next]_storeVars =>
        [\A k \in Wallet : StaysFrozen(k) => NoCommitment(k)]_storeVars
  <2> SUFFICES ASSUME Safe, [Next]_storeVars, NEW k \in Wallet, ~Active(k)
               PROVE  NoCommitment(k)
    BY DEF StaysFrozen
  <2>1. /\ wallet \in [Wallet -> WalletDoc] /\ wtx \in [Tx -> TxDoc]
        /\ wallet[k].balanceReserved \in Int
        /\ \A x \in Tx : Proper(wtx[x])
    BY SafeTypes
  <2>2. CASE \E r \in Req : session[r] # Idle /\ Commit(r)
    <3>1. PICK r \in Req : session[r] # Idle /\ Commit(r)
      BY <2>2
    <3> DEFINE w == session[r].w
    <3> DEFINE t == session[r].t
    <3>2. wallet' = w (+) wallet /\ wtx' = t (+) wtx /\ SafeWrites(w, t)
      BY <3>1 DEF Commit, Safe, SafeSession
    <3> HIDE DEF w, t
    <3>3. wallet'[k].balanceReserved <= wallet[k].balanceReserved
      <4>1. CASE k \notin DOMAIN w
        BY <2>1, <3>2, <4>1 DEF (+)
      <4>2. CASE k \in DOMAIN w
        <5>1. wallet'[k] = w[k] /\ w[k].balanceReserved \in Int
          BY <2>1, <3>2, <4>2 DEF (+), SafeWrites, Formed, WalletDoc
        <5>2. ~(w[k].balanceReserved > wallet[k].balanceReserved)
          BY <3>2, <4>2 DEF SafeWrites, CommitmentSafe
        <5> QED
          BY <2>1, <5>1, <5>2
      <4> QED
        BY <4>1, <4>2
    <3>4. ASSUME NEW x \in Tx, wtx[x].wallet # k \/ wtx[x].status = "unused"
          PROVE  ~(wtx'[x].wallet = k /\ wtx'[x].type \in {"send", "fee"})
      <4>1. CASE x \in DOMAIN t
        BY <2>1, <3>2, <4>1 DEF (+), SafeWrites, CommitmentSafe
      <4>2. CASE x \notin DOMAIN t
        BY <2>1, <3>2, <3>4, <4>2 DEF (+), Proper
      <4> QED
        BY <4>1, <4>2
    <3> QED
      BY <3>3, <3>4 DEF NoCommitment
  <2>3. CASE wallet' = wallet /\ wtx' = wtx
    BY <2>1, <2>3 DEF NoCommitment, Proper
  <2>4. CASE /\ wallet' = wallet
             /\ \E x \in Tx, doc \in TxDoc :
                  wtx' = [wtx EXCEPT ![x] = doc] /\ doc.type \in {"deposit", "withdrawal"}
    BY <2>1, <2>4 DEF NoCommitment, Proper
  <2> QED
    BY <2>2, <2>3, <2>4, HowDocumentsChange
<1> QED
  BY <1>1, SafeInvariance, PTL DEF Spec, FrozenTakesNoCommitment
=============================================================================
