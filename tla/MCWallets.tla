------------------------------ MODULE MCWallets ------------------------------
(* Instances of Wallets for TLC.                                            *)
EXTENDS Wallets, TLC

CONSTANTS ana, beto

(* ana's codes: "qbob" asks for bolivianos, "qusdc" for USDC.              *)
MCchargeOf ==
  [q \in Charge |-> [creator |-> ana, amount |-> 1,
                     asset |-> IF q = "qbob" THEN "BOB" ELSE "USDC"]]
MCpayer == [p \in Payment |-> beto]

Symmetry == Permutations(Tx) \cup Permutations(Req)
=============================================================================
