--------------------------- MODULE SessionWaitlist ---------------------------
(***************************************************************************)
(* The waitlist of one session of event-lifecycle-service: the rows of     *)
(* session_waitlist in Postgres, the per-tier queues in Redis, the GraphQL *)
(* mutations and the two scheduler jobs that offer and expire places.      *)
(*                                                                         *)
(* Mutations are synchronous resolvers on the event loop, one at a time    *)
(* (`api').  The jobs check_expired_offers and offer_spots_to_next_users   *)
(* run beside them, each on its own thread.  A row is loaded, its status   *)
(* validated and a new status written with no lock in between, so a write  *)
(* is blind to what happened since the read.                               *)
(***************************************************************************)
EXTENDS SessionSeats, Sequences, SequencesExt

CONSTANTS
    Tier,       \* Tier[u]: VIP, PREMIUM or STANDARD
    Nobody,
    Picks,      \* the users an organiser may send an offer by hand
    BulkCounts, \* the counts an organiser asks a bulk send for
    Faults      \* what may go wrong, a subset of FaultKinds

FaultKinds == {"overlap",  \* the jobs run beside the mutations
               "crash",    \* the process stops; Postgres and Redis stay
               "redis",    \* Redis becomes unreachable, and returns
               "ttl"}      \* 24 hours without a join: a tier's key expires

VIP == 1
PREMIUM == 2
STANDARD == 3
Tiers == {VIP, PREMIUM, STANDARD}

ASSUME TierAssumption == Tier \in [Users -> Tiers]
ASSUME NobodyAssumption == Nobody \notin Users
ASSUME FaultsAssumption == Faults \subseteq FaultKinds
ASSUME BulkAssumption == BulkCounts \subseteq Nat \ {0}

VARIABLES
    status,     \* status[u]: the row of u: "none", WAITING, OFFERED, ACCEPTED,
                \* DECLINED, EXPIRED or LEFT
    lapsed,     \* users whose offer has passed offer_expires_at
    responded,  \* users whose row has offer_responded_at
    queue,      \* queue[t]: the sorted set of tier t, by join time
    redisUp,
    api,        \* the mutation at work: [op, user]
    expirer,    \* check_expired_offers: [at, user, batch]
    offerer     \* offer_spots_to_next_users: [at, user]

rowVars == <<status, lapsed, responded>>
jobVars == <<expirer, offerer>>
vars == <<seatVars, rowVars, queue, redisUp, api, jobVars>>

Active == {"WAITING", "OFFERED"}

NoCall == [op |-> "idle", user |-> Nobody]
IdleExpirer == [at |-> "idle", user |-> Nobody, batch |-> {}]
IdleOfferer == [at |-> "idle", user |-> Nobody]

Init ==
    /\ SeatsInit
    /\ status = [u \in Users |-> "none"]
    /\ lapsed = {}
    /\ responded = {}
    /\ queue = [t \in Tiers |-> <<>>]
    /\ redisUp = TRUE
    /\ api = NoCall
    /\ expirer = IdleExpirer
    /\ offerer = IdleOfferer

-----------------------------------------------------------------------------
(* The rows and the queues *)

Waiting == {u \in Users : status[u] = "WAITING"}

\* update_status and set_offer: the write, validated earlier.
Write(u, s) ==
    /\ status' = [status EXCEPT ![u] = s]
    /\ lapsed' = lapsed \ {u}
    /\ responded' = IF s \in {"ACCEPTED", "DECLINED"}
                    THEN responded \cup {u} ELSE responded

Queued(u) == u \in Range(queue[Tier[u]])

\* ZADD NX with the time as score; swallowed while Redis is down.
Enqueue(u) ==
    queue' = IF redisUp /\ ~Queued(u)
             THEN [queue EXCEPT ![Tier[u]] = Append(@, u)] ELSE queue

\* Mutant: a removal empties the tier.
DequeueAll(u) ==
    queue' = IF redisUp THEN [queue EXCEPT ![Tier[u]] = <<>>] ELSE queue

\* ZREM of the one entry there may be; swallowed while Redis is down.
Dequeue(u) ==
    queue' = IF redisUp
             THEN [queue EXCEPT ![Tier[u]] = RemoveFirst(@, u)] ELSE queue

\* Mutant: the standard tier goes first.
LowestTierHead(q) ==
    LET used == {t \in Tiers : q[t] # <<>>}
    IN  {Head(q[t]) : t \in {t \in used : \A s \in used : s <= t}}

\* The head of the best tier that has one: a set of at most one user.
QueueHead(q) ==
    LET used == {t \in Tiers : q[t] # <<>>}
    IN  {Head(q[t]) : t \in {t \in used : \A s \in used : t <= s}}

\* The fallback orders by tier, then by a position column that may be stale.
BestWaiting == {u \in Waiting : \A v \in Waiting : Tier[u] <= Tier[v]}

\* get_next_in_queue looks at the head; it removes nobody.
NextInQueue(q) == IF redisUp THEN QueueHead(q) ELSE BestWaiting

\* What n rounds of "look at the head, offer it if WAITING" can offer: the
\* queue keeps its head between rounds, the fallback query finds the next row.
TopWaiting(n) ==
    {S \in SUBSET Waiting :
        /\ Cardinality(S) = IF n < Cardinality(Waiting)
                            THEN n ELSE Cardinality(Waiting)
        /\ \A u \in S, v \in Waiting \ S : Tier[u] <= Tier[v]}

Offerable(n) == IF redisUp THEN {QueueHead(queue) \cap Waiting}
                           ELSE TopWaiting(n)

SetOffers(S) ==
    /\ status' = [u \in Users |-> IF u \in S THEN "OFFERED" ELSE status[u]]
    /\ lapsed' = lapsed \ S
    /\ UNCHANGED responded

OfferRounds(n) == \E S \in Offerable(n) : SetOffers(S)

-----------------------------------------------------------------------------
(* Mutations *)

Overlap == "overlap" \in Faults
JobsIdle == expirer = IdleExpirer /\ offerer = IdleOfferer

MayCall == api = NoCall /\ (Overlap \/ JobsIdle)

Call(op, u) == api' = [op |-> op, user |-> u]

\* Only a full session has a waitlist.  The queue is joined before the row is
\* inserted; (session_id, user_id) is unique, so the insert fails for a user
\* whose row is terminal and leaves the queue entry behind.
JoinWaitlist(u) ==
    /\ MayCall
    /\ IsFull
    /\ status[u] \notin Active
    /\ Enqueue(u)
    /\ IF status[u] = "none" THEN Call("join", u) ELSE UNCHANGED api
    /\ UNCHANGED <<seatVars, rowVars, redisUp, jobVars>>

InsertRow ==
    /\ api.op = "join"
    /\ Write(api.user, "WAITING")
    /\ api' = NoCall
    /\ UNCHANGED <<seatVars, queue, redisUp, jobVars>>

LeaveWaitlist(u) ==
    /\ MayCall
    /\ status[u] \in Active
    /\ Dequeue(u)
    /\ Call("leave", u)
    /\ UNCHANGED <<seatVars, rowVars, redisUp, jobVars>>

RemoveFromWaitlist(u) ==
    /\ MayCall
    /\ status[u] \in Active
    /\ Dequeue(u)
    /\ Call("remove", u)
    /\ UNCHANGED <<seatVars, rowVars, redisUp, jobVars>>

\* Only a leaver's place is passed on, and whether or not it was a place.
RowLeft ==
    /\ api.op \in {"leave", "remove"}
    /\ Write(api.user, "LEFT")
    /\ IF api.op = "leave" THEN Call("offerNext", Nobody) ELSE api' = NoCall
    /\ UNCHANGED <<seatVars, queue, redisUp, jobVars>>

\* The token lives exactly as long as the offer.
AcceptWaitlistOffer(u) ==
    /\ MayCall
    /\ status[u] = "OFFERED"
    /\ u \notin lapsed
    /\ u \notin responded
    /\ Call("accept", u)
    /\ UNCHANGED <<seatVars, rowVars, queue, redisUp, jobVars>>

RowAccepted ==
    /\ api.op = "accept"
    /\ Write(api.user, "ACCEPTED")
    /\ Call("seat", api.user)
    /\ UNCHANGED <<seatVars, queue, redisUp, jobVars>>

\* A full session is only logged.
SeatCounted ==
    /\ api.op = "seat"
    /\ IncrementAttendance
    /\ Dequeue(api.user)
    /\ Call("register", api.user)
    /\ UNCHANGED <<rsvp, capacity, rowVars, redisUp, jobVars>>

Registered ==
    /\ api.op = "register"
    /\ Register(api.user)
    /\ api' = NoCall
    /\ UNCHANGED <<rowVars, queue, redisUp, jobVars>>

\* A row that is only WAITING is refused by validate_status_transition.
DeclineWaitlistOffer(u) ==
    /\ MayCall
    /\ status[u] = "OFFERED"
    /\ Call("decline", u)
    /\ UNCHANGED <<seatVars, rowVars, queue, redisUp, jobVars>>

\* The queue keeps the user.
RowDeclined ==
    /\ api.op = "decline"
    /\ Write(api.user, "DECLINED")
    /\ api' = NoCall
    /\ UNCHANGED <<seatVars, queue, redisUp, jobVars>>

\* leave_waitlist and cancel_session_rsvp end by offering the head a place.
OfferNext ==
    /\ api.op = "offerNext"
    /\ OfferRounds(1)
    /\ api' = NoCall
    /\ UNCHANGED <<seatVars, queue, redisUp, jobVars>>

\* An organiser picks the user.  Between this check and this write the jobs
\* can only have made the same offer, so they are one step.
SendWaitlistOffer(u) ==
    /\ MayCall
    /\ u \in Picks
    /\ status[u] = "WAITING"
    /\ Write(u, "OFFERED")
    /\ UNCHANGED <<seatVars, queue, redisUp, api, jobVars>>

BulkSendWaitlistOffers(n) ==
    /\ MayCall
    /\ Available > 0
    /\ OfferRounds(IF n < Available THEN n ELSE Available)
    /\ UNCHANGED <<seatVars, queue, redisUp, api, jobVars>>

UpdateSessionCapacity(c) ==
    /\ MayCall
    /\ SetMaximum(c)
    /\ IF c > capacity /\ c > attendance THEN OfferRounds(c - attendance)
                                         ELSE UNCHANGED rowVars
    /\ UNCHANGED <<queue, redisUp, api, jobVars>>

RsvpToSessionCall(u) ==
    /\ MayCall
    /\ RsvpToSession(u)
    /\ UNCHANGED <<rowVars, queue, redisUp, api, jobVars>>

CancelSessionRsvp(u) ==
    /\ MayCall
    /\ CancelRsvp(u)
    /\ Call("offerNext", Nobody)
    /\ UNCHANGED <<rowVars, queue, redisUp, jobVars>>

-----------------------------------------------------------------------------
(* check_expired_offers *)

MayRun == Overlap \/ (api = NoCall /\ JobsIdle)

\* get_expired_offers; the first row is validated as it was read.
ListExpired ==
    /\ expirer.at = "idle"
    /\ MayRun
    /\ \E u \in lapsed :
         expirer' = [at |-> "write", user |-> u, batch |-> lapsed \ {u}]
    /\ UNCHANGED <<seatVars, rowVars, queue, redisUp, api, offerer>>

RowExpired ==
    /\ expirer.at = "write"
    /\ Write(expirer.user, "EXPIRED")
    /\ expirer' = [expirer EXCEPT !.at = "cascade"]
    /\ UNCHANGED <<seatVars, queue, redisUp, api, offerer>>

\* The user leaves the queue and offer_spot_to_user loads the row of the new
\* head; whether a place is free is not asked.
Cascade ==
    /\ expirer.at = "cascade"
    /\ Dequeue(expirer.user)
    /\ IF NextInQueue(queue') \cap Waiting = {}
       THEN expirer' = [expirer EXCEPT !.at = "next"]
       ELSE \E u \in NextInQueue(queue') :
              expirer' = [expirer EXCEPT !.at = "offer", !.user = u]
    /\ UNCHANGED <<seatVars, rowVars, redisUp, api, offerer>>

CascadeOffer ==
    /\ expirer.at = "offer"
    /\ Write(expirer.user, "OFFERED")
    /\ expirer' = [expirer EXCEPT !.at = "next"]
    /\ UNCHANGED <<seatVars, queue, redisUp, api, offerer>>

\* Every commit expires the loaded rows, so the next one is read again; one
\* that was answered meanwhile fails validation and ends the run.
NextExpired ==
    /\ expirer.at = "next"
    /\ \/ /\ expirer.batch = {}
          /\ expirer' = IdleExpirer
       \/ \E u \in expirer.batch :
            expirer' = IF status[u] = "OFFERED"
                       THEN [at |-> "write", user |-> u,
                             batch |-> expirer.batch \ {u}]
                       ELSE IdleExpirer
    /\ UNCHANGED <<seatVars, rowVars, queue, redisUp, api, offerer>>

-----------------------------------------------------------------------------
(* offer_spots_to_next_users *)

\* Mutant: the last place is kept back.
PickNextKeepsOne ==
    /\ offerer.at = "idle"
    /\ MayRun
    /\ redisUp
    /\ Available > 1
    /\ \E u \in QueueHead(queue) \cap Waiting :
         offerer' = [at |-> "offer", user |-> u]
    /\ UNCHANGED <<seatVars, rowVars, queue, redisUp, api, expirer>>

\* The job needs Redis for its lock, a WAITING row and a place; offers already
\* out are not counted.
PickNext ==
    /\ offerer.at = "idle"
    /\ MayRun
    /\ redisUp
    /\ Available > 0
    /\ \E u \in QueueHead(queue) \cap Waiting :
         offerer' = [at |-> "offer", user |-> u]
    /\ UNCHANGED <<seatVars, rowVars, queue, redisUp, api, expirer>>

OfferSpot ==
    /\ offerer.at = "offer"
    /\ Write(offerer.user, "OFFERED")
    /\ offerer' = IdleOfferer
    /\ UNCHANGED <<seatVars, queue, redisUp, api, expirer>>

-----------------------------------------------------------------------------
(* Time and failures *)

OfferLapses(u) ==
    /\ status[u] = "OFFERED"
    /\ u \notin lapsed
    /\ lapsed' = lapsed \cup {u}
    /\ UNCHANGED <<seatVars, status, responded, queue, redisUp, api, jobVars>>

Crash ==
    /\ "crash" \in Faults
    /\ api' = NoCall
    /\ expirer' = IdleExpirer
    /\ offerer' = IdleOfferer
    /\ UNCHANGED <<seatVars, rowVars, queue, redisUp>>

RedisFlips ==
    /\ "redis" \in Faults
    /\ redisUp' = ~redisUp
    /\ UNCHANGED <<seatVars, rowVars, queue, api, jobVars>>

QueueExpires(t) ==
    /\ "ttl" \in Faults
    /\ queue' = [queue EXCEPT ![t] = <<>>]
    /\ UNCHANGED <<seatVars, rowVars, redisUp, api, jobVars>>

-----------------------------------------------------------------------------
Mutation ==
    \/ \E u \in Users :
         \/ JoinWaitlist(u)
         \/ LeaveWaitlist(u)
         \/ RemoveFromWaitlist(u)
         \/ AcceptWaitlistOffer(u)
         \/ DeclineWaitlistOffer(u)
         \/ SendWaitlistOffer(u)
         \/ RsvpToSessionCall(u)
         \/ CancelSessionRsvp(u)
    \/ \E n \in BulkCounts : BulkSendWaitlistOffers(n)
    \/ \E c \in Capacities : UpdateSessionCapacity(c)

Continue ==
    \/ InsertRow
    \/ RowLeft
    \/ RowAccepted
    \/ SeatCounted
    \/ Registered
    \/ RowDeclined
    \/ OfferNext

ExpirerStep ==
    \/ ListExpired
    \/ RowExpired
    \/ Cascade
    \/ CascadeOffer
    \/ NextExpired

OffererStep ==
    \/ PickNext
    \/ OfferSpot

Environment ==
    \/ \E u \in Users : OfferLapses(u)
    \/ Crash
    \/ RedisFlips
    \/ \E t \in Tiers : QueueExpires(t)

Next ==
    \/ Mutation
    \/ Continue
    \/ ExpirerStep
    \/ OffererStep
    \/ Environment

Spec == Init /\ [][Next]_vars

\* A mutation that has begun ends, the jobs are run again and again, time
\* passes.  Nobody is assumed to join, answer or leave.
Fairness ==
    /\ WF_vars(Continue)
    /\ WF_vars(ExpirerStep)
    /\ WF_vars(OffererStep)
    /\ WF_vars(\E u \in Users : OfferLapses(u))

FairSpec == Spec /\ Fairness

-----------------------------------------------------------------------------
(* Safety *)

\* Nobody who waits is forgotten: as long as Redis keeps its keys, a WAITING
\* row stands in the queue of its tier, except while its owner's own leave or
\* removal is at work (join_waitlist, get_next_in_queue).
WaitingIsQueued ==
    \A u \in Waiting : Queued(u) \/ api.user = u

\* Who accepted is on the session's RSVP list, confirmed or cancelled, once
\* the mutation is over (accept_waitlist_offer).
AcceptedHasRsvp ==
    \A u \in Users :
        status[u] = "ACCEPTED" /\ api.user # u => rsvp[u] # "none"

\* As long as Redis answers, a place that is offered automatically never passes over
\* a WAITING user of a better tier or, within a tier, one who stood in the
\* queue before (get_next_in_queue; an organiser's own choice is exempt, and so
\* is who lost the place in the queue with an expired key).
NobodyIsOvertaken ==
    [][\A u, v \in Users :
          /\ Queued(v)
          /\ status[u] = "WAITING" /\ status'[u] = "OFFERED"
          /\ status[v] = "WAITING" /\ status'[v] = "WAITING"
          /\ ~ SendWaitlistOffer(u)
          => \/ Tier[u] < Tier[v]
             \/ /\ Tier[u] = Tier[v]
                /\ \E i, j \in DOMAIN queue[Tier[u]] :
                     queue[Tier[u]][i] = u /\ queue[Tier[u]][j] = v /\ i < j]_vars

-----------------------------------------------------------------------------
(* Liveness *)

\* The user at the head has a row that no offer will reach.
HeadIsStale == \E u \in QueueHead(queue) : status[u] \notin Active

\* With a free place, waiting in vain is only possible behind a stale head
\* (offer_spots_to_next_users, check_expired_offers).
WaitersAreServed ==
    \A u \in Users :
        <>[](status[u] = "WAITING" /\ Available > 0) => []<>HeadIsStale
=============================================================================
