--------------------------- MODULE MCTicketOrders ---------------------------
(***************************************************************************)
(* Small instances of TicketOrders: a buyer of one ticket, and one whose   *)
(* cart names the type twice, compete for two tickets of general           *)
(* admission.                                                              *)
(***************************************************************************)
EXTENDS TicketOrders

CONSTANTS o1, o2, ga, k1

TwoTickets == [t \in {ga} |-> 2]
Single == <<[type |-> ga, qty |-> 1]>>
Carts == [o \in {o1, o2} |-> IF o = o1 THEN Single ELSE Single \o Single]
OneEach == [o \in {o1, o2} |-> 1]

OneCart == [o \in {o1} |-> Single]
TwoEuros == [o \in {o1} |-> 2]
=============================================================================
