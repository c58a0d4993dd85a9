----------------------------- MODULE VenueQueue -----------------------------
(***************************************************************************)
(* What the venue waitlist of event-lifecycle-service promises: per venue  *)
(* one queue, served strictly first come, first served; an organiser       *)
(* stands at most once in it and has a bounded number of active tickets;   *)
(* a ticket that has left never comes back.                                *)
(***************************************************************************)
EXTENDS Naturals, FiniteSets

CONSTANTS
    Orgs,
    Venues,
    Turns,     \* the numbers tickets are drawn from
    MaxActive

VARIABLES
    waiting,  \* tickets in the queue: [org, venue, turn]
    held,     \* tickets whose owner has been offered the venue
    closed    \* tickets converted, cancelled or expired

vars == <<waiting, held, closed>>

Issued == waiting \cup held \cup closed
ActiveOf(o) == {x \in waiting \cup held : x.org = o}

Init ==
    /\ waiting = {}
    /\ held = {}
    /\ closed = {}

Join(x) ==
    /\ Cardinality(ActiveOf(x.org)) < MaxActive
    /\ \A y \in ActiveOf(x.org) : y.venue # x.venue
    /\ \A y \in Issued : y.venue = x.venue => y.turn < x.turn
    /\ waiting' = waiting \cup {x}
    /\ UNCHANGED <<held, closed>>

\* Only the ticket that has waited longest is served.
Offer(x) ==
    /\ x \in waiting
    /\ \A y \in waiting : y.venue = x.venue => x.turn <= y.turn
    /\ waiting' = waiting \ {x}
    /\ held' = held \cup {x}
    /\ UNCHANGED closed

Close(x) ==
    /\ waiting' = waiting \ {x}
    /\ held' = held \ {x}
    /\ closed' = closed \cup {x}

Next ==
    \/ \E x \in [org : Orgs, venue : Venues, turn : Turns] : Join(x)
    \/ \E x \in waiting : Offer(x)
    \/ \E x \in waiting \cup held : Close(x)

Spec == Init /\ [][Next]_vars
=============================================================================
