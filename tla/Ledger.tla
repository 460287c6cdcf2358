------------------------------- MODULE Ledger -------------------------------
(***************************************************************************)
(* The general ledger, projected from the wallets' movements.              *)
(*                                                                         *)
(* A job (and an admin on demand) reads the completed WalletTransactions   *)
(* after its cursor and posts a balanced entry for each; an admin reverses *)
(* entries and closes periods.  None of them runs in a database            *)
(* transaction: an entry and its lines are two writes, and a close is an   *)
(* entry per currency and then the cut-off.                                *)
(***************************************************************************)
EXTENDS Integers, Sequences, FiniteSets

CONSTANTS
  Movement,    \* WalletTransactions after the opening entry
  Mixes,       \* what the movements may be: functions to Kinds or "none"
  Admin,       \* admins at work next to the job
  MaxClock,    \* bound on the clock
  MaxEntries,  \* bound on the entries, for an admin to post one more
  MaxCrashes,  \* bound on restarts of the server
  Ordered,     \* movements commit in the order of their updatedAt, and
               \* closes are asked for in the order of their dates
  EmptyFreeze  \* a wallet without a balance may be frozen

Kinds == {"deposit", "usdc_deposit", "withdrawal", "send", "receive",
          "freeze", "unfreeze", "bob_to_usdc", "usdc_to_bob"}

VARIABLES
  clock,          \* the time
  wtx,            \* each movement: its kind, amount, updatedAt; committed or not
  cursor,         \* 'ledger:sync:cursor': the updatedAt projected so far
  journal,        \* the JournalEntries
  lined,          \* the entries whose JournalLines are stored
  work,           \* what the job and each admin are doing
  closedThrough,  \* 'ledger:period:closedThrough'
  crashes         \* restarts so far

ledgerVars == <<clock, wtx, cursor, journal, lined, work, closedThrough, crashes>>

Poster == Admin \cup {"job"}
NotBegun(k) == [kind |-> k, amount |-> 0, updatedAt |-> 0, committed |-> FALSE]
AtRest == [task |-> "none", step |-> "look", todo |-> <<>>, upTo |-> 0]

LedgerInit ==
  /\ clock = 1
  /\ \E mix \in Mixes : wtx = [m \in Movement |-> NotBegun(mix[m])]
  /\ cursor = 0
  /\ journal = {}
  /\ lined = {}
  /\ work = [a \in Poster |-> AtRest]
  /\ closedThrough = 0
  /\ crashes = 0

-----------------------------------------------------------------------------
(* Entries: what each kind of movement posts.                              *)

Line(account, currency, debit, credit) ==
  [account |-> account, currency |-> currency, debit |-> debit, credit |-> credit]
Dr(account, currency, n) == Line(account, currency, n, 0)
Cr(account, currency, n) == Line(account, currency, 0, n)

Fee == 1   \* the fee of a transfer in USDC, and the spread of a conversion

(* A transfer is posted from its send; the other leg posts nothing.  The   *)
(* two conversions are posted from the credit leg, over the clearing 1090. *)
buildWalletTxEntry(w) ==
  LET n == w.amount
  IN CASE w.kind = "deposit" -> {Dr("1030", "BOB", n), Cr("2010", "BOB", n)}
       [] w.kind = "usdc_deposit" -> {Dr("1020", "USDC", n), Cr("2020", "USDC", n)}
       [] w.kind = "withdrawal" -> {Dr("2010", "BOB", n), Cr("1030", "BOB", n)}
       [] w.kind = "send" ->
            {Dr("2020", "USDC", n + Fee), Cr("2020", "USDC", n), Cr("4050", "USDC", Fee)}
       [] w.kind = "receive" -> {}
       [] w.kind = "freeze" -> {Dr("2010", "BOB", n), Cr("2011", "BOB", n)}
       [] w.kind = "unfreeze" -> {Dr("2011", "BOB", n), Cr("2010", "BOB", n)}
       [] w.kind = "bob_to_usdc" ->
            {Dr("2010", "BOB", n + Fee), Cr("1090", "BOB", n), Cr("4060", "BOB", Fee),
             Dr("1090", "USDC", n), Cr("2020", "USDC", n)}
       [] w.kind = "usdc_to_bob" ->
            {Dr("2020", "USDC", n), Cr("1090", "USDC", n),
             Dr("1090", "BOB", n + Fee), Cr("2010", "BOB", n), Cr("4060", "BOB", Fee)}

(* The sum of the values of f: a unit for each, less those below zero.     *)
Units(f) == UNION {{x} \X (1 .. f[x]) : x \in DOMAIN f}
Sum(f) == Cardinality(Units(f)) - Cardinality(Units([x \in DOMAIN f |-> -f[x]]))
Net(lines) == Sum([l \in lines |-> l.credit - l.debit])

(* Two lines at least, each on one side, and each currency in balance.     *)
assertBalanced(lines) ==
  /\ Cardinality(lines) >= 2
  /\ \A l \in lines : l.debit >= 0 /\ l.credit >= 0 /\ (l.debit > 0) # (l.credit > 0)
  /\ \A c \in {"BOB", "USDC"} : Net({l \in lines : l.currency = c}) = 0

buildReversalLines(lines) == {Line(l.account, l.currency, l.credit, l.debit) : l \in lines}

On(lines, account, currency) == {l \in lines : l.account = account /\ l.currency = currency}
Balance(entries, account, currency) ==
  Sum([e \in entries |-> Net(On(e.lines, account, currency))])

Stored == {e \in journal : e.id \in lined}

Income == {<<"4050", "USDC">>, <<"4060", "BOB">>}
Day(t) == (t + 1) \div 2

(* The entry that moves an income account's balance to 3090.               *)
buildClosingLines(account, currency, balance) ==
  {Dr(account, currency, balance), Cr("3090", currency, balance)}

-----------------------------------------------------------------------------
(* Movements: updatedAt is set when the wallet's transaction begins, the   *)
(* movement is seen when it commits.                                       *)

beginMovement(m) ==
  /\ wtx[m].kind # "none" /\ wtx[m].updatedAt = 0
  /\ clock < MaxClock
  /\ clock' = clock + 1
  /\ \E n \in {2} \cup (IF EmptyFreeze /\ wtx[m].kind = "freeze" THEN {0} ELSE {}) :
       wtx' = [wtx EXCEPT ![m].amount = n, ![m].updatedAt = clock']
  /\ UNCHANGED <<cursor, journal, lined, work, closedThrough, crashes>>

commitMovement(m) ==
  /\ wtx[m].updatedAt # 0 /\ ~wtx[m].committed
  /\ Ordered => \A o \in Movement :
       wtx[o].updatedAt \in 1 .. wtx[m].updatedAt - 1 => wtx[o].committed
  /\ wtx' = [wtx EXCEPT ![m].committed = TRUE]
  /\ UNCHANGED <<clock, cursor, journal, lined, work, closedThrough, crashes>>

-----------------------------------------------------------------------------
(* The tasks, each a list of entries to post and a value to store at the   *)
(* end.                                                                    *)

Begins(a, task, todo, upTo) ==
  /\ work' = [work EXCEPT ![a] =
       [task |-> task, step |-> "look", todo |-> todo, upTo |-> upTo]]
  /\ UNCHANGED <<wtx, cursor, journal, lined, closedThrough, crashes>>

Pending == {m \in Movement : wtx[m].committed /\ wtx[m].updatedAt > cursor}
Request(source, date, lines) == [source |-> source, date |-> date, lines |-> lines]

(* The lists of the members of a set.                                      *)
Listings(S) ==
  {list \in [1 .. Cardinality(S) -> S] : \A i, j \in DOMAIN list : list[i] = list[j] => i = j}
OldestFirst(list) ==
  \A i, j \in DOMAIN list : i < j => wtx[list[i]].updatedAt <= wtx[list[j]].updatedAt

(* The movements after the cursor, oldest first, those that post nothing   *)
(* left out.                                                               *)
syncLedgerFromWalletTx(a) ==
  /\ work[a] = AtRest
  /\ \E last \in Pending :
       /\ \A m \in Pending : wtx[m].updatedAt <= wtx[last].updatedAt
       /\ \E list \in Listings({m \in Pending : buildWalletTxEntry(wtx[m]) # {}}) :
            /\ OldestFirst(list)
            /\ Begins(a, "sync",
                      [i \in DOMAIN list |->
                         Request(<<"wtx", list[i]>>, 0, buildWalletTxEntry(wtx[list[i]]))],
                      wtx[last].updatedAt)
  /\ UNCHANGED clock

(* Not a reversal, not reversed, with its lines.                           *)
reverseEntry(a, e) ==
  /\ work[a] = AtRest
  /\ e.source[1] # "reversal"
  /\ \A r \in journal : r.source # <<"reversal", e.id>>
  /\ e.id \in lined
  /\ Cardinality(journal) < MaxEntries
  /\ Begins(a, "reverse",
            <<Request(<<"reversal", e.id>>, 0, buildReversalLines(e.lines))>>, 0)
  /\ UNCHANGED clock

(* A date after the last close, in the past: the clock has moved on.  In   *)
(* order: a close that was cut short is asked for again, not one before it.*)
MayClose(asOf) ==
  /\ asOf > closedThrough
  /\ clock < MaxClock /\ Cardinality(journal) < MaxEntries
  /\ Ordered => \A e \in journal : e.source[1] = "close" => e.date <= asOf

(* Mutant: a close adds up the movements' entries, not what earlier closes *)
(* took off the accounts.                                                  *)
closePeriodIgnoringCloses(a, asOf) ==
  LET dated == {e \in Stored : e.date <= asOf /\ e.source[1] # "close"}
      due == {x \in Income : Balance(dated, x[1], x[2]) # 0}
      todo == {Request(<<"close", Day(asOf), x[2]>>, asOf,
                 buildClosingLines(x[1], x[2], Balance(dated, x[1], x[2]))) : x \in due}
  IN /\ work[a] = AtRest
     /\ MayClose(asOf)
     /\ \E list \in Listings(todo) : Begins(a, "close", list, asOf)
     /\ clock' = clock + 1

(* What the income accounts hold up to a past date, an entry per currency. *)
closePeriod(a, asOf) ==
  LET dated == {e \in Stored : e.date <= asOf}
      due == {x \in Income : Balance(dated, x[1], x[2]) # 0}
      todo == {Request(<<"close", Day(asOf), x[2]>>, asOf,
                 buildClosingLines(x[1], x[2], Balance(dated, x[1], x[2]))) : x \in due}
  IN /\ work[a] = AtRest
     /\ MayClose(asOf)
     /\ \E list \in Listings(todo) : Begins(a, "close", list, asOf)
     /\ clock' = clock + 1

-----------------------------------------------------------------------------
(* postEntry, one write at a time.                                         *)

Asked(a) == Head(work[a].todo)
Exists(source) == \E e \in journal : e.source = source
Dropped(a) == [work EXCEPT ![a].step = "look", ![a].todo = Tail(@)]

(* An entry out of balance, or dated in a closed period, throws.           *)
Refused(r) ==
  \/ ~assertBalanced(r.lines)
  \/ r.source[1] # "close" /\ clock <= closedThrough

(* The task ends where it is; a sync does not move its cursor.             *)
postRefused(a) ==
  /\ work[a].todo # <<>> /\ work[a].step = "look"
  /\ Refused(Asked(a))
  /\ work' = [work EXCEPT ![a] = AtRest]
  /\ UNCHANGED <<clock, wtx, cursor, journal, lined, closedThrough, crashes>>

(* An entry of the same source is taken for this one.                      *)
postLooks(a) ==
  /\ work[a].todo # <<>> /\ work[a].step = "look"
  /\ ~Refused(Asked(a))
  /\ work' = IF Exists(Asked(a).source) THEN Dropped(a)
             ELSE [work EXCEPT ![a].step = "create"]
  /\ UNCHANGED <<clock, wtx, cursor, journal, lined, closedThrough, crashes>>

Creates(a) ==
  LET r == Asked(a)
      e == [id |-> Cardinality(journal) + 1, source |-> r.source, lines |-> r.lines,
            date |-> IF r.date = 0 THEN clock ELSE r.date]
  IN /\ journal' = journal \cup {e}
     /\ work' = [work EXCEPT ![a].step = "lines", ![a].todo[1] = e]

(* Mutant: the index on the source is not unique.                          *)
postCreatesAnyway(a) ==
  /\ work[a].todo # <<>> /\ work[a].step = "create"
  /\ Creates(a)
  /\ UNCHANGED <<clock, wtx, cursor, lined, closedThrough, crashes>>

(* The unique index on the source: the one that lost uses the winner's.    *)
postCreates(a) ==
  /\ work[a].todo # <<>> /\ work[a].step = "create"
  /\ IF Exists(Asked(a).source)
     THEN work' = Dropped(a) /\ UNCHANGED journal
     ELSE Creates(a)
  /\ UNCHANGED <<clock, wtx, cursor, lined, closedThrough, crashes>>

postLines(a) ==
  /\ work[a].todo # <<>> /\ work[a].step = "lines"
  /\ lined' = lined \cup {Asked(a).id}
  /\ work' = Dropped(a)
  /\ UNCHANGED <<clock, wtx, cursor, journal, closedThrough, crashes>>

(* Mutant: the cursor moves to the present, not to the last movement read. *)
taskEndsNow(a) ==
  /\ work[a].task # "none" /\ work[a].todo = <<>>
  /\ cursor' = IF work[a].task = "sync" THEN clock ELSE cursor
  /\ closedThrough' = IF work[a].task = "close" THEN work[a].upTo ELSE closedThrough
  /\ work' = [work EXCEPT ![a] = AtRest]
  /\ UNCHANGED <<clock, wtx, journal, lined, crashes>>

(* The cursor, or the cut-off, is stored when everything is posted.        *)
taskEnds(a) ==
  /\ work[a].task # "none" /\ work[a].todo = <<>>
  /\ cursor' = IF work[a].task = "sync" THEN work[a].upTo ELSE cursor
  /\ closedThrough' = IF work[a].task = "close" THEN work[a].upTo ELSE closedThrough
  /\ work' = [work EXCEPT ![a] = AtRest]
  /\ UNCHANGED <<clock, wtx, journal, lined, crashes>>

ledgerCrash ==
  /\ crashes < MaxCrashes
  /\ \E a \in Poster : work[a] # AtRest
  /\ crashes' = crashes + 1
  /\ work' = [a \in Poster |-> AtRest]
  /\ UNCHANGED <<clock, wtx, cursor, journal, lined, closedThrough>>

postEntry(a) == postRefused(a) \/ postLooks(a) \/ postCreates(a) \/ postLines(a)

LedgerNext ==
  \/ \E m \in Movement : beginMovement(m) \/ commitMovement(m)
  \/ \E a \in Poster : syncLedgerFromWalletTx(a) \/ postEntry(a) \/ taskEnds(a)
  \/ \E a \in Admin :
       \/ \E e \in journal : reverseEntry(a, e)
       \/ \E asOf \in 1 .. clock : closePeriod(a, asOf)
  \/ ledgerCrash

LedgerSpec == LedgerInit /\ [][LedgerNext]_ledgerVars

(* The job runs every five minutes to its end; wallets' transactions       *)
(* commit.                                                                 *)
LedgerFairness ==
  /\ WF_ledgerVars(syncLedgerFromWalletTx("job"))
  /\ WF_ledgerVars(postEntry("job") \/ taskEnds("job"))
  /\ \A m \in Movement : WF_ledgerVars(commitMovement(m))

-----------------------------------------------------------------------------
LedgerTypeOK ==
  /\ clock \in 1 .. MaxClock /\ cursor \in 0 .. MaxClock /\ closedThrough \in 0 .. MaxClock
  /\ wtx \in [Movement -> [kind : Kinds \cup {"none"}, amount : {0, 2},
                           updatedAt : 0 .. MaxClock, committed : BOOLEAN]]
  /\ \A e \in journal : e.id \in Nat /\ e.date \in 1 .. MaxClock
  /\ lined \subseteq {e.id : e \in journal}
  /\ \A a \in Poster : work[a].step \in {"look", "create", "lines"}
  /\ crashes \in 0 .. MaxCrashes

(* What a movement does to the wallets: the balance and the frozen balance *)
(* in BOB, and the balance in USDC.                                        *)
onWallets(w, account) ==
  LET n == w.amount
  IN CASE account = "2010" ->
            (CASE w.kind \in {"deposit", "unfreeze", "usdc_to_bob"} -> n
               [] w.kind \in {"withdrawal", "freeze"} -> -n
               [] w.kind = "bob_to_usdc" -> -(n + Fee)
               [] OTHER -> 0)
       [] account = "2011" ->
            (CASE w.kind = "freeze" -> n [] w.kind = "unfreeze" -> -n [] OTHER -> 0)
       [] account = "2020" ->
            (CASE w.kind \in {"usdc_deposit", "bob_to_usdc"} -> n
               [] w.kind = "send" -> -Fee
               [] w.kind = "usdc_to_bob" -> -n
               [] OTHER -> 0)

Control == {<<"2010", "BOB">>, <<"2011", "BOB">>, <<"2020", "USDC">>}

(* The control accounts of the ledger hold what the posted movements did   *)
(* to the wallets, each of them once, with the job and an admin projecting *)
(* at the same time (reconcileControlAccounts).                            *)
Reconciles ==
  LET entries == {e \in Stored : e.source[1] = "wtx"}
      moved == {e.source[2] : e \in entries}
  IN \A x \in Control :
       Balance(entries, x[1], x[2]) = Sum([m \in moved |-> onWallets(wtx[m], x[1])])

(* Closing never moves the same income to retained earnings twice, though  *)
(* a close is cut short and repeated, two fall on one day, or an admin     *)
(* reverses one and closes again.                                          *)
TransferredOnce ==
  \A x \in Income :
    Balance(Stored, "3090", x[2]) <= Balance({e \in Stored : e.source[1] = "wtx"}, x[1], x[2])

(* Every movement that posts something has its entry in the end: the       *)
(* cursor passes none, and none stops those behind it.                     *)
LedgerCatchesUp ==
  \A m \in Movement :
    (wtx[m].committed /\ buildWalletTxEntry(wtx[m]) # {}) ~> Exists(<<"wtx", m>>)
=============================================================================
