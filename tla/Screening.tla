---- MODULE Screening ----
(* Screening of customers: the sanctions lists reloaded from their publishers     *)
(* (refreshSanctionsLists) next to what officers add and remove by hand           *)
(* (sanctionsController), and the gate that every operation that moves money      *)
(* passes (checkSanctions).                                                       *)
EXTENDS Naturals, FiniteSets

CONSTANTS
    Listed,       \* entries the publisher may list; each is one person
    Customer,     \* the entry that names, by its document, our customer
    MaxListings,  \* bound on the changes the publisher makes
    MaxByHand,    \* bound on the entries officers add and remove
    MaxStarts     \* bound on the operations the customer starts

VARIABLES
    published,    \* the list at OFAC and the UN
    changes,      \* how often it changed
    entry,        \* SanctionsList, by (listSource, sourceId)
    byHand,       \* entries removed by hand so far, and the custom entry for the customer
    refresh,      \* the job: what it downloaded, what it still has to write
    started       \* operations the customer's screening let through

screeningVars == <<published, changes, entry, byHand, refresh, started>>

State == {"none", "active", "inactive"}
NoRefresh == [phase |-> "idle", got |-> {}, left |-> {}]

ScreeningTypeOK ==
    /\ published \subseteq Listed /\ changes \in 0 .. MaxListings
    /\ entry \in [Listed -> State]
    /\ byHand \in [count : 0 .. MaxByHand, custom : State]
    /\ refresh \in [phase : {"idle", "write", "retire"}, got : SUBSET Listed, left : SUBSET Listed]
    /\ started \in 0 .. MaxStarts

ScreeningInit ==
    /\ published \in (SUBSET Listed \ {{}}) /\ changes = 0
    /\ entry = [p \in Listed |-> "none"]
    /\ byHand = [count |-> 0, custom |-> "none"]
    /\ refresh = NoRefresh
    /\ started = 0

Active == {p \in Listed : entry[p] = "active"}
activas == Cardinality(Active) + (IF byHand.custom = "active" THEN 1 ELSE 0)

-----------------------------------------------------------------------------
(* The publishers, external: a person is listed or delisted. A list that loses    *)
(* half of its entries at once is left to an operator, so it does not happen here. *)
publish ==
    /\ changes < MaxListings
    /\ \E p \in Listed :
          published' = IF p \in published THEN published \ {p} ELSE published \cup {p}
    /\ 2 * Cardinality(published') >= Cardinality(Listed) + 1
    /\ changes' = changes + 1
    /\ UNCHANGED <<entry, byHand, refresh, started>>

(* refreshSanctionsLists                                                          *)

\* The lists are downloaded and parsed. A list with less than half of the active
\* entries is taken for a truncated download: the job gives up and touches nothing.
prepararEntradas ==
    /\ refresh.phase = "idle"
    /\ \E got \in {published} \cup {{}} :
          IF activas > 0 /\ 2 * Cardinality(got) < activas
          THEN UNCHANGED refresh
          ELSE refresh' = [phase |-> "write", got |-> got, left |-> got]
    /\ UNCHANGED <<published, changes, entry, byHand, started>>

bulkWriteKeepingActive(p) ==
    /\ refresh.phase = "write" /\ p \in refresh.left
    /\ entry' = [entry EXCEPT ![p] = IF @ = "none" THEN "active" ELSE @]
    /\ refresh' = [refresh EXCEPT !.left = @ \ {p}]
    /\ UNCHANGED <<published, changes, byHand, started>>

\* bulkWrite upserts the entries, unordered; an entry written is active again.
bulkWrite(p) ==
    /\ refresh.phase = "write" /\ p \in refresh.left
    /\ entry' = [entry EXCEPT ![p] = "active"]
    /\ refresh' = [refresh EXCEPT !.left = @ \ {p}]
    /\ UNCHANGED <<published, changes, byHand, started>>

\* Then what the downloaded lists no longer hold is deactivated.
retire ==
    /\ refresh.phase = "write" /\ refresh.left = {}
    /\ entry' = [p \in Listed |-> IF entry[p] = "active" /\ p \notin refresh.got
                                  THEN "inactive" ELSE entry[p]]
    /\ refresh' = NoRefresh
    /\ UNCHANGED <<published, changes, byHand, started>>

\* The server restarts in the middle: the job starts over at its next run.
refreshStops ==
    /\ refresh.phase # "idle" /\ changes < MaxListings
    /\ refresh' = NoRefresh /\ changes' = changes + 1
    /\ UNCHANGED <<published, entry, byHand, started>>

(* sanctionsController                                                            *)

\* addSanction creates an entry of listSource custom that names the customer.
addSanction ==
    /\ byHand.custom = "none" /\ byHand.count < MaxByHand
    /\ byHand' = [count |-> byHand.count + 1, custom |-> "active"]
    /\ UNCHANGED <<published, changes, entry, refresh, started>>

\* removeSanction deactivates any entry, published or not.
removeSanction ==
    /\ byHand.count < MaxByHand
    /\ \/ \E p \in Active : /\ entry' = [entry EXCEPT ![p] = "inactive"]
                            /\ byHand' = [byHand EXCEPT !.count = @ + 1]
       \/ /\ byHand.custom = "active" /\ UNCHANGED entry
          /\ byHand' = [count |-> byHand.count + 1, custom |-> "inactive"]
    /\ UNCHANGED <<published, changes, refresh, started>>

(* checkSanctions: the gate before every operation that moves money               *)

\* screenUser finds an active entry with the customer's document.
hasDocumentMatch == Customer \in Active \/ byHand.custom = "active"

\* The operation passes when the screening answers and finds no such entry; an error
\* of the screening refuses it (fail-closed), and a match of the name alone alerts.
checkSanctions ==
    /\ started < MaxStarts
    /\ ~hasDocumentMatch
    /\ started' = started + 1
    /\ UNCHANGED <<published, changes, entry, byHand, refresh>>

ScreeningNext ==
    \/ publish \/ prepararEntradas \/ (\E p \in Listed : bulkWrite(p)) \/ retire \/ refreshStops
    \/ addSanction \/ removeSanction \/ checkSanctions

\* The job runs every week and after every start; a good download comes in the end.
Downloads == prepararEntradas /\ refresh'.got = published
ScreeningFairness ==
    /\ SF_screeningVars(Downloads)
    /\ \A p \in Listed : WF_screeningVars(bulkWrite(p))
    /\ WF_screeningVars(retire)

ScreeningSpec == ScreeningInit /\ [][ScreeningNext]_screeningVars

-----------------------------------------------------------------------------
\* Whoever the publishers list for good ends up screened for good, whatever officers
\* removed, however often the job was cut short or gave up (refreshSanctionsLists).
ListedIsScreened == \A p \in Listed : <>[](p \in published) => <>[](entry[p] = "active")
====
