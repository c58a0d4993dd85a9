---------------------------- MODULE BreakoutRooms ----------------------------
(***************************************************************************)
(* The breakout rooms of a session: an organizer creates them, attendees   *)
(* join and leave, a facilitator starts a room, and a timer of the process *)
(* that started it warns and closes it (breakout.gateway.ts,               *)
(* breakout.service.ts of real-time-service).                              *)
(*                                                                         *)
(* Every await gives way to other messages, on any instance of the         *)
(* service.  The rows are shared; the timers of a room live in the memory  *)
(* of the instance that started it.  A timer that fires is a handler like  *)
(* any other.  Who may start or close a room, rate limits, the chat and    *)
(* the video room at Daily, which expires by itself, are left out; waiting *)
(* for Daily is a step between two queries.                                *)
(***************************************************************************)
EXTENDS Integers, FiniteSets

CONSTANTS
    Rooms,
    Attendees,
    Instances,          \* processes of the service
    BreakoutHandlers,   \* messages and timers that may be at work together
    RoomCapacity,       \* maxParticipants of every room
    MaxBreakoutFaults   \* restarts of an instance, queries that fail

ASSUME BreakoutBoundsAssumption == RoomCapacity \in Nat /\ MaxBreakoutFaults \in Nat

VARIABLES
    room,      \* room[r]: the status of the row, and whether endedAt is set
    seat,      \* seat[r][a]: a's participant row; "left" once leftAt is set
    timer,     \* timer[r][i]: what of r's timers is pending on instance i
    serving,   \* serving[h]: what handler h is at, where, and for whom
    breakoutFaults

breakoutVars == <<room, seat, timer, serving, breakoutFaults>>

NotServing == [at |-> "idle", on |-> "none", rooms |-> {}, by |-> "none"]

BreakoutInit ==
    /\ room = [r \in Rooms |-> [status |-> "none", ended |-> FALSE]]
    /\ seat = [r \in Rooms |-> [a \in Attendees |-> "none"]]
    /\ timer = [r \in Rooms |-> [i \in Instances |-> "off"]]
    /\ serving = [h \in BreakoutHandlers |-> NotServing]
    /\ breakoutFaults = 0

-----------------------------------------------------------------------------
(* Rows and handlers *)

Exists(r) == room[r].status # "none"

Open(r) == room[r].status \notin {"none", "CLOSED"}

Serves(h, i, step, rooms, a) ==
    /\ serving[h].at = "idle"
    /\ serving' = [serving EXCEPT ![h] =
                      [at |-> step, on |-> i, rooms |-> rooms, by |-> a]]

AtRoom(h, step, r) == serving[h].at = step /\ r \in serving[h].rooms

MovesTo(h, step) == serving' = [serving EXCEPT ![h].at = step]
Served(h) == serving' = [serving EXCEPT ![h] = NotServing]

CreateRoom(r) ==
    /\ ~Exists(r)
    /\ room' = [room EXCEPT ![r].status = "WAITING"]
    /\ UNCHANGED <<seat, timer, serving, breakoutFaults>>

-----------------------------------------------------------------------------
(* breakout.room.join, breakout.room.leave *)

\* Participants who left count as well.
Join(h, i, r, a) ==
    /\ Open(r)
    /\ Cardinality({b \in Attendees : seat[r][b] # "none"}) < RoomCapacity
    /\ Serves(h, i, "join", {r}, a)
    /\ UNCHANGED <<room, seat, timer, breakoutFaults>>

\* No row for this room, and no seat in another one that is not closed.
CheckOtherRooms(h, r) ==
    /\ AtRoom(h, "join", r)
    /\ LET a == serving[h].by IN
       IF \/ seat[r][a] # "none"
          \/ \E s \in Rooms \ {r} : Open(s) /\ seat[s][a] = "in"
       THEN Served(h) ELSE MovesTo(h, "insert")
    /\ UNCHANGED <<room, seat, timer, breakoutFaults>>

\* A second row is refused by the unique constraint; the room may be full or
\* closed by now.
TakeSeat(h, r) ==
    /\ AtRoom(h, "insert", r)
    /\ seat' = IF seat[r][serving[h].by] = "none"
               THEN [seat EXCEPT ![r][serving[h].by] = "in"] ELSE seat
    /\ Served(h)
    /\ UNCHANGED <<room, timer, breakoutFaults>>

\* A participant row is never deleted: whoever left cannot come back.
LeaveRoom(r, a) ==
    /\ seat[r][a] # "none"
    /\ seat' = [seat EXCEPT ![r][a] = "left"]
    /\ UNCHANGED <<room, timer, serving, breakoutFaults>>

-----------------------------------------------------------------------------
(* breakout.room.start *)

StartRoom(h, i, r) ==
    /\ room[r].status = "WAITING"
    /\ Serves(h, i, "start", {r}, "none")
    /\ UNCHANGED <<room, seat, timer, breakoutFaults>>

\* After Daily has answered, whatever has become of the room meanwhile.
WriteActive(h, r) ==
    /\ AtRoom(h, "start", r)
    /\ room' = [room EXCEPT ![r].status = "ACTIVE"]
    /\ MovesTo(h, "arm")
    /\ UNCHANGED <<seat, timer, breakoutFaults>>

\* Timers that this instance has pending for the room are cleared first.
StartRoomTimer(h, r) ==
    /\ AtRoom(h, "arm", r)
    /\ timer' = [timer EXCEPT ![r][serving[h].on] = "armed"]
    /\ Served(h)
    /\ UNCHANGED <<room, seat, breakoutFaults>>

-----------------------------------------------------------------------------
(* The timers: one warning that matters, then the end. *)

TimerWarns(h, i, r) ==
    /\ timer[r][i] = "armed"
    /\ timer' = [timer EXCEPT ![r][i] = "warned"]
    /\ Serves(h, i, "warn", {r}, "none")
    /\ UNCHANGED <<room, seat, breakoutFaults>>

\* Unconditional: a room that is closed by then is reopened.
SetRoomClosing(h, r) ==
    /\ AtRoom(h, "warn", r)
    /\ room' = [room EXCEPT ![r].status = "CLOSING"]
    /\ Served(h)
    /\ UNCHANGED <<seat, timer, breakoutFaults>>

\* Its entry is dropped before the room is closed.
TimerEnds(h, i, r) ==
    /\ timer[r][i] = "warned"
    /\ timer' = [timer EXCEPT ![r][i] = "off"]
    /\ Serves(h, i, "close", {r}, "timer")
    /\ UNCHANGED <<room, seat, breakoutFaults>>

-----------------------------------------------------------------------------
(* breakout.room.close, breakout.all.recall *)

CloseRoom(h, i, r) ==
    /\ Exists(r)
    /\ Serves(h, i, "close", {r}, "none")
    /\ UNCHANGED <<room, seat, timer, breakoutFaults>>

\* Mutant: only a room that runs can be closed.
Running(r) == room[r].status = "ACTIVE"

NotClosed(r) == room[r].status # "CLOSED"

CheckNotClosed(h, r) ==
    /\ AtRoom(h, "close", r)
    /\ IF NotClosed(r) THEN MovesTo(h, "vacate") ELSE Served(h)
    /\ UNCHANGED <<room, seat, timer, breakoutFaults>>

Vacated(rooms) ==
    [r \in Rooms |-> [a \in Attendees |->
        IF r \in rooms /\ seat[r][a] = "in" THEN "left" ELSE seat[r][a]]]

\* After Daily has deleted the video room.
VacateRoom(h, r) ==
    /\ AtRoom(h, "vacate", r)
    /\ seat' = Vacated({r})
    /\ MovesTo(h, "end")
    /\ UNCHANGED <<room, timer, breakoutFaults>>

\* A message cancels the timers afterwards, a timer has dropped its entry.
EndRoom(h, r) ==
    /\ AtRoom(h, "end", r)
    /\ room' = [room EXCEPT ![r] = [status |-> "CLOSED", ended |-> TRUE]]
    /\ IF serving[h].by = "timer" THEN Served(h) ELSE MovesTo(h, "cancel")
    /\ UNCHANGED <<seat, timer, breakoutFaults>>

\* The rooms to notify are read first ...
RecallAll(h, i) ==
    /\ Serves(h, i, "recall", {r \in Rooms : Open(r)}, "none")
    /\ UNCHANGED <<room, seat, timer, breakoutFaults>>

\* ... and those that are open later are closed, in one transaction.
CloseAllRooms(h) ==
    /\ serving[h].at = "recall"
    /\ LET open == {r \in Rooms : Open(r)} IN
       /\ seat' = Vacated(open)
       /\ room' = [r \in Rooms |-> IF r \in open
                                   THEN [status |-> "CLOSED", ended |-> TRUE]
                                   ELSE room[r]]
    /\ MovesTo(h, "cancel")
    /\ UNCHANGED <<timer, breakoutFaults>>

\* Only the timers of the instance at work can be cancelled.
CancelRoomTimers(h) ==
    /\ serving[h].at = "cancel"
    /\ timer' = [r \in Rooms |-> [i \in Instances |->
                    IF r \in serving[h].rooms /\ i = serving[h].on
                    THEN "off" ELSE timer[r][i]]]
    /\ Served(h)
    /\ UNCHANGED <<room, seat, breakoutFaults>>

-----------------------------------------------------------------------------
\* An instance stops, and its handlers and timers with it; nothing reads the
\* rooms back when it starts again.
RestartInstance(i) ==
    /\ breakoutFaults < MaxBreakoutFaults
    /\ breakoutFaults' = breakoutFaults + 1
    /\ serving' = [h \in BreakoutHandlers |->
                      IF serving[h].on = i THEN NotServing ELSE serving[h]]
    /\ timer' = [r \in Rooms |-> [timer[r] EXCEPT ![i] = "off"]]
    /\ UNCHANGED <<room, seat>>

\* A query fails, and the handler reports an error.
QueryFails(h) ==
    /\ breakoutFaults < MaxBreakoutFaults
    /\ breakoutFaults' = breakoutFaults + 1
    /\ serving[h].at \notin {"idle", "arm", "cancel"}
    /\ Served(h)
    /\ UNCHANGED <<room, seat, timer>>

BreakoutArrives(h, i) ==
    \/ RecallAll(h, i)
    \/ \E r \in Rooms :
          \/ StartRoom(h, i, r) \/ CloseRoom(h, i, r)
          \/ TimerWarns(h, i, r) \/ TimerEnds(h, i, r)
          \/ \E a \in Attendees : Join(h, i, r, a)

BreakoutStep(h) ==
    \/ CloseAllRooms(h) \/ CancelRoomTimers(h) \/ QueryFails(h)
    \/ \E r \in Rooms :
          \/ CheckOtherRooms(h, r) \/ TakeSeat(h, r)
          \/ WriteActive(h, r) \/ StartRoomTimer(h, r) \/ SetRoomClosing(h, r)
          \/ CheckNotClosed(h, r) \/ VacateRoom(h, r) \/ EndRoom(h, r)

BreakoutNext ==
    \/ \E r \in Rooms : CreateRoom(r) \/ \E a \in Attendees : LeaveRoom(r, a)
    \/ \E h \in BreakoutHandlers :
          BreakoutStep(h) \/ \E i \in Instances : BreakoutArrives(h, i)
    \/ \E i \in Instances : RestartInstance(i)

BreakoutSpec == BreakoutInit /\ [][BreakoutNext]_breakoutVars

-----------------------------------------------------------------------------
(* Properties *)

BreakoutSteps == {"idle", "join", "insert", "start", "arm", "warn", "close",
                  "vacate", "end", "recall", "cancel"}

Tasks == [at : BreakoutSteps, on : Instances \cup {"none"}, rooms : SUBSET Rooms,
          by : Attendees \cup {"none", "timer"}]

\* The type invariant.
BreakoutTypeOK ==
    /\ room \in [Rooms -> [status : {"none", "WAITING", "ACTIVE", "CLOSING", "CLOSED"},
                           ended : BOOLEAN]]
    /\ seat \in [Rooms -> [Attendees -> {"none", "in", "left"}]]
    /\ timer \in [Rooms -> [Instances -> {"off", "armed", "warned"}]]
    /\ serving \in [BreakoutHandlers -> Tasks]
    /\ breakoutFaults \in 0..MaxBreakoutFaults

\* Somebody is on the way to time the room or to close it.
InHand(r) ==
    \/ \E i \in Instances : timer[r][i] # "off"
    \/ \E h \in BreakoutHandlers, step \in {"arm", "close", "vacate", "end"} :
          AtRoom(h, step, r)

\* Rooms are started twice, closed while they start, warned after they were
\* closed, and recalled by an instance that does not know their timers.  Still
\* a room that was opened and never ended is in hand: it has a timer somewhere,
\* or a handler that is about to arm or close it (breakout.gateway.ts:1125-1242).
\* A restart loses the timers, a failed query the handler that closes.
OpenRoomsAreTimed ==
    breakoutFaults = 0 =>
        \A r \in Rooms :
            room[r].status \in {"ACTIVE", "CLOSING"} /\ ~room[r].ended => InHand(r)

=============================================================================
