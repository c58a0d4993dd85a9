---------------------------- MODULE SessionSeats ----------------------------
(***************************************************************************)
(* The seats of one session of event-lifecycle-service: the RSVP rows and  *)
(* the session_capacity row.  The RSVP check counts RSVP rows; everybody   *)
(* else reads current_attendance, a counter kept beside them.              *)
(***************************************************************************)
EXTENDS Integers, FiniteSets

CONSTANTS
    Users,
    InitialCapacity,  \* session_capacity.maximum_capacity at the start
    Capacities,       \* the values an organiser sets it to
    MaxParticipants,  \* sessions.max_participants, or NoLimit
    NoLimit

ASSUME UsersAssumption == IsFiniteSet(Users)
ASSUME CapacityAssumption == InitialCapacity \in Nat /\ Capacities \subseteq Nat
ASSUME LimitAssumption == MaxParticipants \in Nat \cup {NoLimit}

VARIABLES
    rsvp,        \* rsvp[u]: the RSVP row of u: "none", "CONFIRMED" or "CANCELLED"
    capacity,    \* maximum_capacity
    attendance   \* current_attendance

seatVars == <<rsvp, capacity, attendance>>

Confirmed == {u \in Users : rsvp[u] = "CONFIRMED"}

\* rsvp_to_session lets the session model override the capacity table.
Limit == IF MaxParticipants = NoLimit THEN capacity ELSE MaxParticipants

IsFull == attendance >= capacity
Available == capacity - attendance

\* Mutant: no check for a full session.
UncheckedIncrement == attendance' = attendance + 1

\* A full session is reported with None and counts nobody.
IncrementAttendance ==
    attendance' = IF IsFull THEN attendance ELSE attendance + 1

DecrementAttendance ==
    attendance' = IF attendance > 0 THEN attendance - 1 ELSE 0

SeatsInit ==
    /\ rsvp = [u \in Users |-> "none"]
    /\ capacity = InitialCapacity
    /\ attendance = 0

\* A new row, or a cancelled one reactivated; the check counts rows, the
\* increment may silently count nobody.
RsvpToSession(u) ==
    /\ rsvp[u] # "CONFIRMED"
    /\ Cardinality(Confirmed) < Limit
    /\ rsvp' = [rsvp EXCEPT ![u] = "CONFIRMED"]
    /\ IncrementAttendance
    /\ UNCHANGED capacity

CancelRsvp(u) ==
    /\ rsvp[u] = "CONFIRMED"
    /\ rsvp' = [rsvp EXCEPT ![u] = "CANCELLED"]
    /\ DecrementAttendance
    /\ UNCHANGED capacity

SetMaximum(c) ==
    /\ c >= attendance
    /\ capacity' = c
    /\ UNCHANGED <<rsvp, attendance>>

\* Mutant: an accepted offer leaves no RSVP row.
RegisterNobody(u) == UNCHANGED seatVars

\* accept_waitlist_offer creates a row only when the user has none.
Register(u) ==
    /\ rsvp' = [rsvp EXCEPT ![u] = IF @ = "none" THEN "CONFIRMED" ELSE @]
    /\ UNCHANGED <<capacity, attendance>>

-----------------------------------------------------------------------------
(* Safety *)

\* The counter never passes the maximum, whatever organisers and attendees do
\* (CRUDSessionCapacity; the CHECK constraint of session_capacity would turn a
\* violation into a 500 in the middle of a handler).
AttendanceWithinCapacity == attendance \in 0..capacity
=============================================================================
