------------------------- MODULE MCSessionWaitlist -------------------------
(***************************************************************************)
(* Small instances of SessionWaitlist: a VIP and one or two standard       *)
(* attendees competing for the single place of a session, which an         *)
(* organiser may close (0) or enlarge (2).                                 *)
(***************************************************************************)
EXTENDS SessionWaitlist

CONSTANTS vera, sam, sue

TwoTiers == [u \in {vera, sam} |-> IF u = vera THEN VIP ELSE STANDARD]
ThreeTiers == [u \in {vera, sam, sue} |-> IF u = vera THEN VIP ELSE STANDARD]
OneTier == [u \in {sam, sue} |-> STANDARD]
=============================================================================
