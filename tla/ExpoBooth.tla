------------------------------ MODULE ExpoBooth ------------------------------
(***************************************************************************)
(* Expo booths of real-time-service: visitors enter a booth of limited     *)
(* size, wait in its queue, are admitted when somebody leaves, and come    *)
(* and go with their sockets (expo.gateway.ts, expo.service.ts).           *)
(*                                                                         *)
(* Node runs one callback at a time, and a handler gives way at each       *)
(* query: between two queries any other handler may run, also on another   *)
(* instance of the service.  The transaction that admits reads committed   *)
(* rows and takes no lock before it writes.  Each socket has one message   *)
(* at work; its disconnect is handled when that one is done.  Metrics,     *)
(* video calls and broadcasts are left out.                                *)
(***************************************************************************)
EXTENDS Integers, FiniteSets

CONSTANTS
    Booths,
    Visitors,
    ExpoSockets,
    VisitorOf,     \* VisitorOf[k]: the user of socket k
    MaxVisitors,   \* maxVisitors of the booths
    MaxPosition,   \* no entry is made beyond this position
    MaxAtWork      \* messages that may be at work together

ASSUME VisitorOfAssumption == VisitorOf \in [ExpoSockets -> Visitors]
ASSUME VisitorNamesAssumption == {"none", "gone"} \cap Visitors = {}
ASSUME BoothBoundsAssumption == {MaxVisitors, MaxPosition, MaxAtWork} \subseteq Nat \ {0}

VARIABLES
    visits,     \* open visits: [booth, user, by, socket], `by' the socket that
                \* made the row, `socket' the one it is bound to now
    entries,    \* entries[b][u]: the row of the queue, or NoEntry; `by', the
                \* socket that made it, is kept for NoOvertaking
    lateEntries,\* [booth, user] of the entries admitted over 60 s ago
    message,    \* message[k]: what the handler for socket k is at
    behind      \* behind[b][k]: who was waiting when socket k found its place
                \* and has kept waiting; follows the queue for NoOvertaking

expoVars == <<visits, entries, lateEntries, message, behind>>

NoEntry == [status |-> "none", position |-> 0, socket |-> "none", by |-> "none"]
IdleMessage == [at |-> "idle", booth |-> "none", visit |-> "none",
                found |-> "none", position |-> 0, closing |-> FALSE]

ExpoInit ==
    /\ visits = {}
    /\ entries = [b \in Booths |-> [u \in Visitors |-> NoEntry]]
    /\ lateEntries = {}
    /\ message = [k \in ExpoSockets |-> IdleMessage]
    /\ behind = [b \in Booths |-> [k \in ExpoSockets |-> {}]]

-----------------------------------------------------------------------------
(* Rows *)

WaitingAt(b) == {u \in Visitors : entries[b][u].status = "WAITING"}
Inside(b) == {x \in visits : x.booth = b}
HasRoom(b) == Cardinality(Inside(b)) < MaxVisitors

SocketAt(k, step) == message[k].at = step
MayBegin(k) ==
    /\ SocketAt(k, "idle")
    /\ Cardinality({j \in ExpoSockets : ~SocketAt(j, "idle")}) < MaxAtWork
Goes(k, step) == message' = [message EXCEPT ![k].at = step]
Ends(k) == message' = [message EXCEPT ![k] = IdleMessage]

\* Handlers that are about to close one of these visits find it closed.
VisitsClose(k, closed, step) ==
    /\ visits' = visits \ closed
    /\ message' = [j \in ExpoSockets |->
            IF j = k THEN [message[k] EXCEPT !.at = step, !.visit = "none"]
            ELSE IF \E x \in closed : message[j].visit = x.by
                                      /\ message[j].booth = x.booth
            THEN [message[j] EXCEPT !.visit = "none"] ELSE message[j]]

\* Of a row only what is read again is kept: the position and its maker while
\* it waits, the socket until it is entered, left or expired.
Kept(row) ==
    IF row.status = "WAITING" THEN row
    ELSE [row EXCEPT !.position = 0, !.by = "none",
                     !.socket = IF row.status = "ADMITTED" THEN @ ELSE "none"]

\* Whoever stops waiting is no longer waited behind.
SetEntry(b, u, row) ==
    /\ entries' = [entries EXCEPT ![b][u] = Kept(row)]
    /\ behind' = IF row.status = "WAITING" THEN behind
                 ELSE [behind EXCEPT ![b] =
                          [k \in ExpoSockets |-> behind[b][k] \ {u}]]
    /\ lateEntries' = lateEntries \ {[booth |-> b, user |-> u]}

\* An update by primary key fails, and ends the handler, without the row.
Update(k, b, u, status, next) ==
    IF u \notin Visitors \/ entries[b][u] = NoEntry
    THEN Ends(k) /\ UNCHANGED <<entries, behind, lateEntries>>
    ELSE /\ SetEntry(b, u, [entries[b][u] EXCEPT !.status = status])
         /\ next

-----------------------------------------------------------------------------
(* expo.booth.enter *)

\* An open visit is bound to the socket, and that is all.
EnterBooth(k, b) ==
    /\ MayBegin(k)
    /\ LET mine == {x \in Inside(b) : x.user = VisitorOf[k]}
       IN  IF mine = {}
           THEN /\ message' = [message EXCEPT ![k] =
                        [IdleMessage EXCEPT !.at = "queued?", !.booth = b]]
                /\ UNCHANGED visits
           ELSE /\ \E x \in mine :
                      visits' = (visits \ {x}) \cup {[x EXCEPT !.socket = k]}
                /\ UNCHANGED message
    /\ UNCHANGED <<entries, lateEntries, behind>>

\* So is an entry that waits.  An admitted one is on its way in.
LookInQueue(k) ==
    /\ SocketAt(k, "queued?")
    /\ LET b == message[k].booth
           u == VisitorOf[k]
       IN  \/ /\ entries[b][u].status = "WAITING"
              /\ SetEntry(b, u, [entries[b][u] EXCEPT !.socket = k])
              /\ Ends(k)
           \/ /\ entries[b][u].status = "ADMITTED"
              /\ Goes(k, "mark")
              /\ UNCHANGED <<entries, lateEntries, behind>>
           \/ /\ entries[b][u].status \notin {"WAITING", "ADMITTED"}
              /\ Goes(k, "count")
              /\ UNCHANGED <<entries, lateEntries, behind>>
    /\ UNCHANGED visits

\* The admitted visitor enters whatever the number of visitors is.
MarkEntered(k) ==
    /\ SocketAt(k, "mark")
    /\ Update(k, message[k].booth, VisitorOf[k], "ENTERED", Goes(k, "switch"))
    /\ UNCHANGED visits

CheckCapacity(k) ==
    /\ SocketAt(k, "count")
    /\ Goes(k, IF HasRoom(message[k].booth) THEN "switch" ELSE "last")
    /\ UNCHANGED <<visits, entries, lateEntries, behind>>

\* The positions that follow the last one.
NextPosition(b) ==
    {p \in {entries[b][u].position + 1 : u \in WaitingAt(b)} \cup {1} :
        \A u \in WaitingAt(b) : p > entries[b][u].position}

FindLastEntry(k) ==
    /\ SocketAt(k, "last")
    /\ LET b == message[k].booth
       IN  /\ \E p \in NextPosition(b) :
                message' = [message EXCEPT ![k].at = "queue", ![k].position = p]
           /\ behind' = [behind EXCEPT ![b][k] = WaitingAt(b) \ {VisitorOf[k]}]
    /\ UNCHANGED <<visits, entries, lateEntries>>

\* One entry per user and booth: the insert fails while an old one is there,
\* be it LEFT or EXPIRED.
AddToQueue(k) ==
    /\ SocketAt(k, "queue")
    /\ message[k].position <= MaxPosition
    /\ LET b == message[k].booth
           u == VisitorOf[k]
       IN  entries' = IF entries[b][u] = NoEntry
                      THEN [entries EXCEPT ![b][u] =
                                [status |-> "WAITING", socket |-> k, by |-> k,
                                 position |-> message[k].position]]
                      ELSE entries
    /\ Ends(k)
    /\ UNCHANGED <<visits, lateEntries, behind>>

\* A visitor leaves every other booth by entering one; nobody is admitted
\* there for it.
ExitOtherBooths(k) ==
    /\ SocketAt(k, "switch")
    /\ VisitsClose(k, {x \in visits : x.user = VisitorOf[k]}, "clean")
    /\ UNCHANGED <<entries, lateEntries, behind>>

\* An admission that found the entry will not find it again.
DeleteQueueEntry(k) ==
    /\ SocketAt(k, "clean")
    /\ LET b == message[k].booth
           u == VisitorOf[k]
       IN  /\ SetEntry(b, u, NoEntry)
           /\ message' = [j \in ExpoSockets |->
                IF j = k THEN [message[k] EXCEPT !.at = "visit"]
                ELSE IF message[j].booth = b /\ message[j].found = u
                THEN [message[j] EXCEPT !.found = "gone"] ELSE message[j]]
    /\ UNCHANGED visits

CreateVisit(k) ==
    /\ SocketAt(k, "visit")
    /\ visits' = visits \cup {[booth |-> message[k].booth, by |-> k,
                               user |-> VisitorOf[k], socket |-> k]}
    /\ Ends(k)
    /\ UNCHANGED <<entries, lateEntries, behind>>

-----------------------------------------------------------------------------
(* Leaving: a message, or the disconnect of a socket *)

LeaveBooth(k, b) ==
    /\ MayBegin(k)
    /\ \E x \in Inside(b) :
          /\ x.user = VisitorOf[k]
          /\ message' = [message EXCEPT ![k] =
                [IdleMessage EXCEPT !.at = "exit", !.booth = b, !.visit = x.by]]
    /\ UNCHANGED <<visits, entries, lateEntries, behind>>

\* A socket that closes takes its visit and its entry along.
Disconnect(k) ==
    /\ MayBegin(k)
    /\ LET bound == {x \in visits : x.socket = k}
       IN  IF bound = {}
           THEN message' = [message EXCEPT ![k] =
                    [IdleMessage EXCEPT !.at = "unqueue", !.closing = TRUE]]
           ELSE \E x \in bound :
                message' = [message EXCEPT ![k] =
                    [IdleMessage EXCEPT !.at = "exit", !.booth = x.booth,
                                        !.visit = x.by, !.closing = TRUE]]
    /\ UNCHANGED <<visits, entries, lateEntries, behind>>

ExitVisit(k) ==
    /\ SocketAt(k, "exit")
    /\ VisitsClose(k, {x \in Inside(message[k].booth) :
                          x.by = message[k].visit}, "expire")
    /\ UNCHANGED <<entries, lateEntries, behind>>

Admitted(k) ==
    message' = [message EXCEPT ![k] =
        IF @.closing THEN [IdleMessage EXCEPT !.at = "unqueue", !.closing = TRUE]
        ELSE IdleMessage]

\* Admissions over 60 s old expire; then the visitors are counted.
ExpireAndCount(k) ==
    /\ SocketAt(k, "expire")
    /\ LET b == message[k].booth
           late == {u \in Visitors : [booth |-> b, user |-> u] \in lateEntries}
       IN  /\ entries' = [entries EXCEPT ![b] = [u \in Visitors |->
                    IF u \in late THEN Kept([@[u] EXCEPT !.status = "EXPIRED"])
                    ELSE @[u]]]
           /\ lateEntries' = {e \in lateEntries : e.booth # b}
           /\ IF HasRoom(b) THEN Goes(k, "find") ELSE Admitted(k)
    /\ UNCHANGED <<visits, behind>>

\* Mutant: the query has no order.
AnyWaiting(b) == WaitingAt(b)

FirstWaiting(b) ==
    {u \in WaitingAt(b) : \A w \in WaitingAt(b) :
        entries[b][u].position <= entries[b][w].position}

FindNext(k) ==
    /\ SocketAt(k, "find")
    /\ \/ /\ WaitingAt(message[k].booth) = {}
          /\ Admitted(k)
       \/ \E u \in FirstWaiting(message[k].booth) :
            message' = [message EXCEPT ![k].at = "admit", ![k].found = u]
    /\ UNCHANGED <<visits, entries, lateEntries, behind>>

\* The entry is updated by its key, whatever its status has become.
AdmitNext(k) ==
    /\ SocketAt(k, "admit")
    /\ Update(k, message[k].booth, message[k].found, "ADMITTED", Admitted(k))
    /\ UNCHANGED visits

\* The first entry of the socket that waits or is admitted, in any booth.
RemoveFromQueue(k) ==
    /\ SocketAt(k, "unqueue")
    /\ LET mine == {b \in Booths :
                      /\ entries[b][VisitorOf[k]].socket = k
                      /\ entries[b][VisitorOf[k]].status \in {"WAITING", "ADMITTED"}}
       IN  IF mine = {}
           THEN UNCHANGED <<entries, behind, lateEntries>>
           ELSE \E b \in mine :
                SetEntry(b, VisitorOf[k],
                         [entries[b][VisitorOf[k]] EXCEPT !.status = "LEFT"])
    /\ Ends(k)
    /\ UNCHANGED visits

LeaveQueue(k, b) ==
    /\ SocketAt(k, "idle")
    /\ entries[b][VisitorOf[k]].status \in {"WAITING", "ADMITTED"}
    /\ SetEntry(b, VisitorOf[k], [entries[b][VisitorOf[k]] EXCEPT !.status = "LEFT"])
    /\ UNCHANGED <<visits, message>>

\* A lead captured on a socket without a visit opens one, full booth or not.
GetOrCreateVisit(k, b) ==
    /\ SocketAt(k, "idle")
    /\ LET mine == {x \in Inside(b) : x.user = VisitorOf[k]}
       IN  IF mine = {}
           THEN visits' = visits \cup {[booth |-> b, by |-> k, socket |-> k,
                                        user |-> VisitorOf[k]]}
           ELSE \E x \in mine :
                visits' = (visits \ {x}) \cup {[x EXCEPT !.socket = k]}
    /\ UNCHANGED <<entries, lateEntries, message, behind>>

AdmissionTimesOut(b, u) ==
    /\ entries[b][u].status = "ADMITTED"
    /\ lateEntries' = lateEntries \cup {[booth |-> b, user |-> u]}
    /\ UNCHANGED <<visits, entries, message, behind>>

-----------------------------------------------------------------------------

ExpoNext ==
    \/ \E k \in ExpoSockets :
        \/ LookInQueue(k) \/ MarkEntered(k) \/ CheckCapacity(k)
        \/ FindLastEntry(k) \/ AddToQueue(k)
        \/ ExitOtherBooths(k) \/ DeleteQueueEntry(k) \/ CreateVisit(k)
        \/ Disconnect(k) \/ ExitVisit(k) \/ ExpireAndCount(k) \/ FindNext(k)
        \/ AdmitNext(k) \/ RemoveFromQueue(k)
        \/ \E b \in Booths : \/ EnterBooth(k, b) \/ LeaveBooth(k, b)
                             \/ LeaveQueue(k, b) \/ GetOrCreateVisit(k, b)
    \/ \E b \in Booths, u \in Visitors : AdmissionTimesOut(b, u)

ExpoSpec == ExpoInit /\ [][ExpoNext]_expoVars

-----------------------------------------------------------------------------
(* Properties *)

\* The type invariant.
ExpoTypeOK ==
    /\ visits \subseteq [booth : Booths, by : ExpoSockets, user : Visitors,
                         socket : ExpoSockets]
    /\ entries \in [Booths -> [Visitors ->
            [status : {"none", "WAITING", "ADMITTED", "ENTERED", "LEFT",
                       "EXPIRED"},
             position : 0 .. MaxPosition, socket : ExpoSockets \cup {"none"},
             by : ExpoSockets \cup {"none"}]]]
    /\ lateEntries \subseteq [booth : Booths, user : Visitors]
    /\ behind \in [Booths -> [ExpoSockets -> SUBSET Visitors]]

\* Nobody is admitted before somebody who was already waiting when the place in
\* the queue was given out and has waited since, however messages, disconnects
\* and admissions interleave: although two messages may be given the same
\* place, an admission by position never passes an earlier one
\* (expo.service.ts:623-654, 738-744).
NoOvertaking ==
    [][\A b \in Booths : \A u \in Visitors :
          entries[b][u].status = "WAITING" /\ entries'[b][u].status = "ADMITTED"
              => behind[b][entries[b][u].by] = {}]_expoVars
=============================================================================
