--------------------------- MODULE MCVenueWaitlist ---------------------------
(***************************************************************************)
(* Small instances of VenueWaitlist: two or three organisations, one or    *)
(* two venues.                                                             *)
(***************************************************************************)
EXTENDS VenueWaitlist, TLC

CONSTANTS o1, o2, o3, hall, loft, r1, r2

Twins == Permutations({o1, o2})
=============================================================================
