---------------------------- MODULE OfferLedger ----------------------------
(***************************************************************************)
(* What the stock of one upsell offer promises, with every operation on    *)
(* the row taken as one atomic step: units are reserved only while they    *)
(* are available, a reservation is released or sold once, and the stock    *)
(* is never resized below what is committed.  OfferInventory is the code's *)
(* read-then-write version of the same row.                                *)
(***************************************************************************)
EXTENDS Integers

VARIABLES
    total,      \* inventory_total
    sold,       \* inventory_sold
    reserved    \* inventory_reserved

vars == <<total, sold, reserved>>

Init ==
    /\ total \in Nat
    /\ sold = 0
    /\ reserved = 0

Reserve ==
    /\ reserved' > reserved
    /\ reserved' \in Nat
    /\ sold + reserved' <= total
    /\ UNCHANGED <<total, sold>>

Release ==
    /\ reserved' \in 0..reserved
    /\ UNCHANGED <<total, sold>>

Sell ==
    /\ reserved' \in 0..reserved
    /\ sold' = sold + (reserved - reserved')
    /\ UNCHANGED total

Resize ==
    /\ total' \in Nat
    /\ total' >= sold + reserved
    /\ UNCHANGED <<sold, reserved>>

Next == Reserve \/ Release \/ Sell \/ Resize

Spec == Init /\ [][Next]_vars

\* The units sold and held never exceed the stock: what inventory_available
\* >= 0 means for the row, whatever mix of operations ran.
NeverOvercommitted == sold + reserved <= total
=============================================================================
