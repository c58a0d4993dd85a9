-------------------------- MODULE MCOfferInventory --------------------------
(***************************************************************************)
(* Small instances of OfferInventory: a user pressing Buy twice within a   *)
(* minute (r1 and r2; with one Idempotency-Key in DoubleKeys), and another *)
(* user asking for two units (r3).                                         *)
(***************************************************************************)
EXTENDS OfferInventory

CONSTANTS r1, r2, r3, alice, bob, k1

TwoBuyers == [r \in {r1, r2} |-> IF r = r1 THEN alice ELSE bob]
TwoQty == [r \in {r1, r2} |-> 1]
UnevenQty == [r \in {r1, r2} |-> IF r = r1 THEN 1 ELSE 2]
TwoKeys == [r \in {r1, r2} |-> NoKey]

DoubleBuyers == [r \in {r1, r2, r3} |-> IF r = r3 THEN bob ELSE alice]
DoubleQty == [r \in {r1, r2, r3} |-> IF r = r3 THEN 2 ELSE 1]
DoubleKeys == [r \in {r1, r2, r3} |-> IF r = r3 THEN NoKey ELSE k1]

SameBuyer == [r \in {r1, r2} |-> alice]
=============================================================================
