------------------------------ MODULE Receipts ------------------------------
(***************************************************************************)
(* The official documents of AV Finance SRL: the receipt of a retail       *)
(* client (series BOL) and the service invoice of a business (series SRV). *)
(*                                                                         *)
(* A document is issued by the manual payout of the Bolivia corridor, when *)
(* a handler completes a payment, by the user's or an admin's download and *)
(* by an admin's regeneration.  Each reads the transaction, takes a number *)
(* of the series and stores it later.                                      *)
(***************************************************************************)
EXTENDS Integers, FiniteSets

CONSTANTS
  Operation,    \* transactions of the SRL
  Business,     \* those of business clients
  Manual,       \* those paid out by hand; the rest a handler completes
  Issuer,       \* requests and handlers at work
  MaxNumber,    \* bound on the numbers given out of a series
  Midway,       \* people also act on a transaction whose document is being issued
  StoreFails    \* a document may fail after its number was taken

VARIABLES
  tx,         \* status, boliviaCompliance and businessInvoice of a Transaction
  seq,        \* the Counter of each series
  issuer,     \* what each issuer is at: step, transaction, series, number
  issued      \* the documents: series, number, transaction

receiptVars == <<tx, seq, issuer, issued>>

Series == {"BOL", "SRV"}
Unpaid == [status |-> "in_transit", BOL |-> 0, url |-> FALSE, SRV |-> 0]
Resting == [step |-> "idle", op |-> "none", series |-> "BOL", number |-> 0]

ReceiptInit ==
  /\ tx = [o \in Operation |-> Unpaid]
  /\ seq = [s \in Series |-> 0]
  /\ issuer = [i \in Issuer |-> Resting]
  /\ issued = {}

-----------------------------------------------------------------------------
Does(i, step, o, series) ==
  issuer' = [issuer EXCEPT ![i] = [step |-> step, op |-> o, series |-> series, number |-> 0]]
Rests(i) == issuer' = [issuer EXCEPT ![i] = Resting]
SeriesOf(o) == IF o \in Business THEN "SRV" ELSE "BOL"
LeftAlone(o) == Midway \/ \A i \in Issuer : issuer[i].op = o => issuer[i].step = "claim"

(* The next number of a series, one atomic $inc.                           *)
generarNumeroCorrelativo(i) ==
  /\ issuer[i].step \in {"number", "payoutNumber"}
  /\ LET s == issuer[i].series
     IN /\ seq[s] < MaxNumber
        /\ seq' = [seq EXCEPT ![s] = @ + 1]
        /\ issuer' = [issuer EXCEPT
             ![i].step = IF @ = "number" THEN "store" ELSE "payoutStore",
             ![i].number = seq'[s]]
        /\ issued' = issued \cup {[series |-> s, number |-> seq'[s], op |-> issuer[i].op]}
  /\ UNCHANGED tx

-----------------------------------------------------------------------------
(* The manual payout.                                                      *)

payoutReads(i, o) ==
  /\ issuer[i].step = "idle"
  /\ o \in Manual
  /\ tx[o].status = "in_transit"
  /\ tx[o].BOL = 0
  /\ Does(i, "claim", o, "BOL")
  /\ UNCHANGED <<tx, seq, issued>>

(* Mutant: the claim asks for the status only.                             *)
claimByStatus(i) ==
  /\ issuer[i].step = "claim"
  /\ LET o == issuer[i].op
     IN \/ /\ tx[o].status = "in_transit"
           /\ tx' = [tx EXCEPT ![o].status = "completed"]
           /\ Does(i, "payoutNumber", o, "BOL")
        \/ /\ tx[o].status # "in_transit"
           /\ Rests(i)
           /\ UNCHANGED tx
  /\ UNCHANGED <<seq, issued>>

(* One update: in_transit and without a number becomes completed.          *)
Claimable(o) == tx[o].status = "in_transit" /\ tx[o].BOL = 0
payoutClaims(i) ==
  /\ issuer[i].step = "claim"
  /\ LET o == issuer[i].op
     IN \/ /\ Claimable(o)
           /\ tx' = [tx EXCEPT ![o].status = "completed"]
           /\ Does(i, "payoutNumber", o, "BOL")
        \/ /\ ~Claimable(o)
           /\ Rests(i)
           /\ UNCHANGED tx
  /\ UNCHANGED <<seq, issued>>

(* A business gets its invoice next, from the transaction read again.      *)
payoutStores(i) ==
  /\ issuer[i].step = "payoutStore"
  /\ LET o == issuer[i].op
     IN /\ \/ tx' = [tx EXCEPT ![o].BOL = issuer[i].number]
           \/ StoreFails /\ UNCHANGED tx
        /\ IF o \in Business THEN Does(i, "read", o, "SRV") ELSE Rests(i)
  /\ UNCHANGED <<seq, issued>>

-----------------------------------------------------------------------------
(* A handler completes a payment: a receipt unless there is the URL of one,*)
(* an invoice unless there is the number of one.                           *)
HasDocument(o) == IF o \in Business THEN tx[o].SRV # 0 ELSE tx[o].url

generateComprobanteOnCompletion(i, o) ==
  /\ issuer[i].step = "idle"
  /\ o \notin Manual
  /\ tx[o].status = "in_transit"
  /\ tx' = [tx EXCEPT ![o].status = "completed"]
  /\ IF HasDocument(o) THEN UNCHANGED issuer ELSE Does(i, "number", o, SeriesOf(o))
  /\ UNCHANGED <<seq, issued>>

autoGenerateBusinessInvoice(i) ==
  /\ issuer[i].step = "read"
  /\ IF tx[issuer[i].op].SRV # 0 THEN Rests(i) ELSE Does(i, "number", issuer[i].op, "SRV")
  /\ UNCHANGED <<tx, seq, issued>>

(* The PDF is made, uploaded (for the receipt) and the number stored.      *)
storesDocument(i) ==
  /\ issuer[i].step = "store"
  /\ LET o == issuer[i].op
         n == issuer[i].number
     IN \/ tx' = [tx EXCEPT ![o] = IF issuer[i].series = "SRV" THEN [@ EXCEPT !.SRV = n]
                                   ELSE [@ EXCEPT !.BOL = n, !.url = TRUE]]
        \/ StoreFails /\ UNCHANGED tx
  /\ Rests(i)
  /\ UNCHANGED <<seq, issued>>

-----------------------------------------------------------------------------
(* People.                                                                 *)

(* The user's or the admin's download of an invoice makes it if missing.   *)
generateAndStreamPDF(i, o) ==
  /\ issuer[i].step = "idle"
  /\ LeftAlone(o)
  /\ o \in Business
  /\ tx[o].status = "completed"
  /\ tx[o].SRV = 0
  /\ Does(i, "number", o, "SRV")
  /\ UNCHANGED <<tx, seq, issued>>

(* Regeneration uses the number there is.                                  *)
regenerateComprobante(i, o) ==
  /\ issuer[i].step = "idle"
  /\ LeftAlone(o)
  /\ o \notin Business
  /\ tx[o].status = "completed"
  /\ IF tx[o].BOL = 0
     THEN Does(i, "number", o, "BOL") /\ UNCHANGED tx
     ELSE tx' = [tx EXCEPT ![o].url = TRUE] /\ UNCHANGED issuer
  /\ UNCHANGED <<seq, issued>>

(* PATCH status takes a completed transaction back to in_transit.          *)
revertStatus(o) ==
  /\ LeftAlone(o)
  /\ tx[o].status = "completed"
  /\ tx' = [tx EXCEPT ![o].status = "in_transit"]
  /\ UNCHANGED <<seq, issuer, issued>>

ReceiptNext ==
  \/ \E i \in Issuer :
       \/ payoutClaims(i)
       \/ generarNumeroCorrelativo(i)
       \/ payoutStores(i)
       \/ storesDocument(i)
       \/ autoGenerateBusinessInvoice(i)
       \/ \E o \in Operation :
            \/ payoutReads(i, o)
            \/ generateComprobanteOnCompletion(i, o)
            \/ generateAndStreamPDF(i, o)
            \/ regenerateComprobante(i, o)
  \/ \E o \in Operation : revertStatus(o)

ReceiptSpec == ReceiptInit /\ [][ReceiptNext]_receiptVars

-----------------------------------------------------------------------------
ReceiptTypeOK ==
  /\ tx \in [Operation -> [status : {"in_transit", "completed"}, BOL : 0 .. MaxNumber,
                           url : BOOLEAN, SRV : 0 .. MaxNumber]]
  /\ seq \in [Series -> 0 .. MaxNumber]
  /\ issuer \in [Issuer -> [step : {"idle", "claim", "payoutNumber", "payoutStore", "read",
                                    "number", "store"},
                            op : Operation \cup {"none"}, series : Series,
                            number : 0 .. MaxNumber]]
  /\ issued \subseteq [series : Series, number : 1 .. MaxNumber, op : Operation]

(* An operation takes one number of a series, however often it is paid out,*)
(* reverted, downloaded or regenerated, as long as people leave it alone   *)
(* while its document is being made.                                       *)
OneNumber ==
  \A d, e \in issued : d.op = e.op /\ d.series = e.series => d.number = e.number

(* A business transaction has no receipt of the other series (the comment  *)
(* in adminRoutes): refuted, the manual payout issues both.                *)
BusinessHasNoBOL == \A d \in issued : d.op \in Business => d.series = "SRV"
=============================================================================
