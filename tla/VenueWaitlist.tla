---------------------------- MODULE VenueWaitlist ----------------------------
(***************************************************************************)
(* The venue waitlist of event-lifecycle-service.  Organisations queue for *)
(* venues that answered an RFP with "unavailable".  When a venue improves, *)
(* the cascade offers a 48-hour hold to the first in the queue; an expired *)
(* or cancelled hold passes on, and three expirations in a row pause the   *)
(* cascade.                                                                *)
(*                                                                         *)
(* REST handlers run on a thread pool and the jobs of the scheduler on     *)
(* threads of their own.  Each loads a row, decides, and writes it back at *)
(* its commit without a lock or a condition on what the row holds then:    *)
(* every read and every commit is a step of the thread (`work').           *)
(***************************************************************************)
EXTENDS Integers, Sequences, FiniteSets

CONSTANTS
    Orgs,
    Venues,
    Requests,      \* threads of the pool
    Levels,        \* availability statuses owners and the inference set
    Jobs,          \* the jobs of the scheduler that are enabled
    MaxActive,     \* MAX_ACTIVE_WAITLIST_ENTRIES
    BreakerLimit,  \* expirations in a row that pause the cascade
    MaxEntries,    \* bound: entries ever made
    Faults         \* a subset of {"overlap", "crash"}

JobNames == {"holdExpiry", "autoExpiry", "breakerExpiry", "inference"}
Threads == Requests \cup Jobs
Rank == [not_set |-> -1, fully_booked |-> 0, limited_availability |-> 1,
         seasonal |-> 1, accepting_events |-> 2]

ASSUME JobsAssumption == Jobs \subseteq JobNames /\ Requests \cap JobNames = {}
ASSUME LevelsAssumption == Levels \subseteq DOMAIN Rank
ASSUME LimitsAssumption ==
    MaxActive \in Nat /\ BreakerLimit \in Nat /\ MaxEntries \in Nat
ASSUME FaultsAssumption == Faults \subseteq {"overlap", "crash"}

VARIABLES
    entries,       \* the rows, in the order of created_at
    availability,  \* availability[v]: availability_status
    work           \* work[t]: what thread t is about to do

vars == <<entries, availability, work>>

Active == {"waiting", "offered"}
TerminalStatuses == {"converted", "expired", "cancelled"}
\* A row that is not committed yet, and one whose insert failed.
Unseen == {"joining", "absent"}

Ids == DOMAIN entries
Idle == [at |-> "idle", entry |-> 0, venue |-> "none", to |-> "none",
         passOn |-> FALSE, batch |-> {}]

Row == [org : Orgs, venue : Venues,
        status : Active \cup TerminalStatuses \cup Unseen,
        hold : {"none", "running", "over"}, rfps : Nat]

Work == [at : {"idle", "insert", "convert", "close", "pick", "offer", "reset"},
         entry : {0} \cup Ids, venue : Venues \cup {"none"},
         to : {"none", "expired", "cancelled"}, passOn : BOOLEAN,
         batch : SUBSET Ids]

\* A step has its operands.
Ready(w) ==
    /\ w.at \in {"insert", "convert", "close", "offer"} => w.entry \in Ids
    /\ w.at \in {"close", "pick", "offer", "reset"} => w.venue \in Venues
    /\ w.at = "close" \/ w.batch # {} => w.to # "none"

\* Thread t is inserting row i.
Inserting(t, i) == work[t].at = "insert" /\ work[t].entry = i

\* A row that is not committed belongs to a thread.
TypeOK ==
    /\ entries \in Seq(Row)
    /\ availability \in [Venues -> DOMAIN Rank]
    /\ work \in [Threads -> Work]
    /\ \A t \in Threads : Ready(work[t])
    /\ \A i \in Ids : entries[i].status = "joining" =>
                      \E t \in Threads : Inserting(t, i)

Init ==
    /\ entries = <<>>
    /\ availability = [v \in Venues |-> "not_set"]
    /\ work = [t \in Threads |-> Idle]

-----------------------------------------------------------------------------
(* Queries *)

ActiveOf(o) == {i \in Ids : entries[i].org = o /\ entries[i].status \in Active}
Waiting(v) ==
    {i \in Ids : entries[i].venue = v /\ entries[i].status = "waiting"}

\* Mutant: the newest first.
LastWaiting(v) == {i \in Waiting(v) : \A j \in Waiting(v) : j <= i}

\* get_next_waiting_entry: FIFO by created_at.
NextWaiting(v) == {i \in Waiting(v) : \A j \in Waiting(v) : i <= j}

\* get_consecutive_no_responses: the terminal rows, newest first, up to one
\* that is not expired.
Closed(v) ==
    {i \in Ids : entries[i].venue = v /\ entries[i].status \in TerminalStatuses}
NoResponses(v) ==
    {i \in Closed(v) :
        \A j \in Closed(v) : j >= i => entries[j].status = "expired"}
Paused(v) == Cardinality(NoResponses(v)) >= BreakerLimit

\* Mutant: the index covers waiting rows only.
WaitingTwice(i) ==
    \E j \in Ids \ {i} : /\ entries[j].org = entries[i].org
                         /\ entries[j].venue = entries[i].venue
                         /\ entries[j].status = "waiting"

\* The partial unique index uq_vwl_org_venue_active.
IndexRefuses(i) ==
    \E j \in Ids \ {i} : /\ entries[j].org = entries[i].org
                         /\ entries[j].venue = entries[i].venue
                         /\ entries[j].status \in Active

-----------------------------------------------------------------------------
(* Threads *)

Overlap == "overlap" \in Faults

MayStart(t) ==
    /\ t \in Threads
    /\ work[t] = Idle
    /\ Overlap \/ \A s \in Threads : work[s] = Idle

Goto(t, step) == work' = [work EXCEPT ![t] = step]
ClosingStep(i, status, passOn, batch) ==
    [Idle EXCEPT !.at = "close", !.entry = i, !.venue = entries[i].venue,
                 !.to = status, !.passOn = passOn, !.batch = batch]
CascadeStep(v) == [Idle EXCEPT !.at = "pick", !.venue = v]

\* What follows a closed entry or a cascade: the job's next entry, which is
\* not looked at again, or the end.
Continue(t) ==
    IF work[t].batch # {}
    THEN \E i \in work[t].batch :
           Goto(t, ClosingStep(i, work[t].to, work[t].passOn,
                               work[t].batch \ {i}))
    ELSE Goto(t, IF t = "breakerExpiry"
                 THEN [Idle EXCEPT !.at = "reset", !.venue = work[t].venue]
                 ELSE Idle)

-----------------------------------------------------------------------------
(* Requests *)

\* created_at is the start of the transaction that inserts the row.
Join(r, o, v) ==
    /\ MayStart(r)
    /\ Len(entries) < MaxEntries
    /\ Cardinality(ActiveOf(o)) < MaxActive
    /\ \A i \in ActiveOf(o) : entries[i].venue # v
    /\ entries' = Append(entries, [org |-> o, venue |-> v, status |-> "joining",
                                   hold |-> "none", rfps |-> 0])
    /\ Goto(r, [Idle EXCEPT !.at = "insert", !.entry = Len(entries) + 1])
    /\ UNCHANGED availability

Insert(r) ==
    /\ work[r].at = "insert"
    /\ LET i == work[r].entry
       IN  entries' = [entries EXCEPT ![i].status =
                         IF IndexRefuses(i) THEN "absent" ELSE "waiting"]
    /\ Goto(r, Idle)
    /\ UNCHANGED availability

\* Mutant: the state of the entry is not asked for.
ConvertAny(r, i) ==
    /\ MayStart(r)
    /\ entries[i].hold = "running"
    /\ Goto(r, [Idle EXCEPT !.at = "convert", !.entry = i])
    /\ UNCHANGED <<entries, availability>>

\* The limit of active RFPs only delays a conversion: RFPs close on their own.
Convert(r, i) ==
    /\ MayStart(r)
    /\ entries[i].status = "offered"
    /\ entries[i].hold = "running"
    /\ Goto(r, [Idle EXCEPT !.at = "convert", !.entry = i])
    /\ UNCHANGED <<entries, availability>>

\* The RFP and the status are one commit; the hold was used, no cascade.
Converted(r) ==
    /\ work[r].at = "convert"
    /\ LET i == work[r].entry
       IN  entries' = [entries EXCEPT ![i].status = "converted",
                                      ![i].rfps = @ + 1]
    /\ Goto(r, Idle)
    /\ UNCHANGED availability

\* The REST handler passes an offered venue on, the GraphQL mutation any.
Cancel(r, i) ==
    /\ MayStart(r)
    /\ entries[i].status \in Active
    /\ \E graphql \in BOOLEAN :
         Goto(r, ClosingStep(i, "cancelled",
                             graphql \/ entries[i].status = "offered", {}))
    /\ UNCHANGED <<entries, availability>>

SetAvailability(r, v, level) ==
    /\ MayStart(r)
    /\ availability' = [availability EXCEPT ![v] = level]
    /\ Goto(r, IF level = "accepting_events" THEN CascadeStep(v) ELSE Idle)
    /\ UNCHANGED entries

\* Back to what was inferred last, or to not_set.
ClearOverride(r, v, level) ==
    /\ MayStart(r)
    /\ availability' = [availability EXCEPT ![v] = level]
    /\ UNCHANGED <<entries, work>>

\* The cascade that follows finds the breaker open again.
ResolveCircuitBreaker(r, v) ==
    /\ MayStart(r)
    /\ Paused(v)
    /\ Goto(r, CascadeStep(v))
    /\ UNCHANGED <<entries, availability>>

-----------------------------------------------------------------------------
(* Steps that requests and jobs share *)

\* Mutant: the venue stays with an entry that is closed.
CloseKeepsVenue(t) ==
    /\ work[t].at = "close"
    /\ entries' = [entries EXCEPT ![work[t].entry].status = work[t].to]
    /\ Continue(t)
    /\ UNCHANGED availability

\* cancel_entry, expire_hold and the bodies of the expiry jobs: the commit.
Close(t) ==
    /\ work[t].at = "close"
    /\ entries' = [entries EXCEPT ![work[t].entry].status = work[t].to]
    /\ IF work[t].passOn THEN Goto(t, [work[t] EXCEPT !.at = "pick"])
                         ELSE Continue(t)
    /\ UNCHANGED availability

\* trigger_cascade: nothing asks whether another hold is out.
Pick(t) ==
    /\ work[t].at = "pick"
    /\ IF Paused(work[t].venue) \/ Waiting(work[t].venue) = {}
       THEN Continue(t)
       ELSE \E i \in NextWaiting(work[t].venue) :
              Goto(t, [work[t] EXCEPT !.at = "offer", !.entry = i])
    /\ UNCHANGED <<entries, availability>>

\* offer_hold: the commit.  The index may refuse it, which ends the thread.
OfferHold(t) ==
    /\ work[t].at = "offer"
    /\ LET i == work[t].entry
       IN  IF IndexRefuses(i)
           THEN Goto(t, Idle) /\ UNCHANGED entries
           ELSE /\ entries' = [entries EXCEPT ![i].status = "offered",
                                              ![i].hold = "running"]
                /\ Continue(t)
    /\ UNCHANGED availability

-----------------------------------------------------------------------------
(* Jobs *)

StartClosing(job, ids, status, passOn) ==
    /\ MayStart(job)
    /\ \E i \in ids : Goto(job, ClosingStep(i, status, passOn, ids \ {i}))
    /\ UNCHANGED <<entries, availability>>

ProcessHoldExpiry ==
    StartClosing("holdExpiry",
                 {i \in Ids : /\ entries[i].status = "offered"
                              /\ entries[i].hold = "over"},
                 "expired", TRUE)

\* process_auto_expiry, and process_nudge_expiry, whose nudge cannot be
\* answered: waiting entries that are past their date, any of them.
ProcessAutoExpiry(due) ==
    /\ due \subseteq {i \in Ids : entries[i].status = "waiting"}
    /\ StartClosing("autoExpiry", due, "expired", FALSE)

\* Seven days after the last hold that expired, every waiting entry is
\* cancelled; with nobody waiting only the availability is reset.
ProcessCircuitBreakerExpiry(v) ==
    /\ MayStart("breakerExpiry")
    /\ Paused(v)
    /\ \E i \in Ids : /\ entries[i].venue = v
                      /\ entries[i].status = "expired"
                      /\ entries[i].hold # "none"
    /\ IF Waiting(v) = {}
       THEN Goto("breakerExpiry", [Idle EXCEPT !.at = "reset", !.venue = v])
       ELSE \E i \in Waiting(v) :
              Goto("breakerExpiry",
                   ClosingStep(i, "cancelled", FALSE, Waiting(v) \ {i}))
    /\ UNCHANGED <<entries, availability>>

ResetAvailability ==
    /\ "breakerExpiry" \in Jobs
    /\ work["breakerExpiry"].at = "reset"
    /\ LET v == work["breakerExpiry"].venue
       IN  availability' = [availability EXCEPT ![v] =
                              IF @ = "accepting_events" THEN "not_set" ELSE @]
    /\ Goto("breakerExpiry", Idle)
    /\ UNCHANGED entries

\* run_inference_all for one venue whose signals say something new.
RunInference(v, level) ==
    /\ MayStart("inference")
    /\ level # availability[v]
    /\ availability' = [availability EXCEPT ![v] = level]
    /\ Goto("inference",
            IF Rank[level] > Rank[availability[v]] /\ Waiting(v) # {}
            THEN CascadeStep(v) ELSE Idle)
    /\ UNCHANGED entries

-----------------------------------------------------------------------------
(* Time and failures *)

HoldLapses(i) ==
    /\ entries[i].status = "offered" /\ entries[i].hold = "running"
    /\ entries' = [entries EXCEPT ![i].hold = "over"]
    /\ UNCHANGED <<availability, work>>

\* An insert that was under way is rolled back.
Crash ==
    /\ "crash" \in Faults
    /\ work' = [t \in Threads |-> Idle]
    /\ entries' = [i \in Ids |->
                     [entries[i] EXCEPT !.status =
                        IF @ = "joining" THEN "absent" ELSE @]]
    /\ UNCHANGED availability

-----------------------------------------------------------------------------
Request(r) ==
    \/ \E v \in Venues :
         \/ \E o \in Orgs : Join(r, o, v)
         \/ \E level \in Levels :
              SetAvailability(r, v, level) \/ ClearOverride(r, v, level)
         \/ ResolveCircuitBreaker(r, v)
    \/ \E i \in Ids : Convert(r, i) \/ Cancel(r, i)

Step(t) ==
    \/ Insert(t)
    \/ Converted(t)
    \/ Close(t)
    \/ Pick(t)
    \/ OfferHold(t)

HoldJob ==
    \/ ProcessHoldExpiry
    \/ "holdExpiry" \in Jobs /\ Step("holdExpiry")

OtherJobs ==
    \/ \E due \in SUBSET Ids : ProcessAutoExpiry(due)
    \/ \E v \in Venues : ProcessCircuitBreakerExpiry(v)
    \/ ResetAvailability
    \/ \E v \in Venues, level \in Levels : RunInference(v, level)

Environment ==
    \/ \E i \in Ids : HoldLapses(i)
    \/ Crash

Next ==
    \/ \E r \in Requests : Request(r)
    \/ \E t \in Threads \ {"holdExpiry"} : Step(t)
    \/ HoldJob
    \/ OtherJobs
    \/ Environment

Spec == Init /\ [][Next]_vars

\* What a thread has begun it ends unless the service stops, and the hold job
\* has a timer of its own: it runs every minute however busy the others are,
\* which is strong fairness where they take turns.  The service is not
\* restarted for ever.  Nobody is assumed to join, answer, cancel or change a
\* status.
Fairness ==
    /\ \A t \in Threads \ {"holdExpiry"} : WF_vars(Step(t))
    /\ WF_vars(ResetAvailability)
    /\ SF_vars(HoldJob)
    /\ <>[][~Crash]_vars

FairSpec == Spec /\ Fairness

-----------------------------------------------------------------------------
(* Safety *)

\* An organisation stands at most once in the queue of a venue, although joins
\* overlap and a cascade may revive an entry that was cancelled meanwhile
\* (create_waitlist_entry, offer_hold, uq_vwl_org_venue_active).
OneActivePerVenue ==
    \A i, j \in Ids :
        /\ i # j
        /\ entries[i].status \in Active /\ entries[j].status \in Active
        /\ entries[i].org = entries[j].org
        => entries[i].venue # entries[j].venue

\* A hold becomes an RFP once at most, and only RFPs close an entry as
\* converted (convert_hold).
OneRfpPerHold ==
    \A i \in Ids :
        entries[i].rfps = IF entries[i].status = "converted" THEN 1 ELSE 0

\* While handlers and jobs take turns, the rows are the queue that VenueQueue
\* describes (create_waitlist_entry, trigger_cascade, cancel_entry and jobs).
Ticket(i) ==
    [org |-> entries[i].org, venue |-> entries[i].venue, turn |-> i]
TicketsIn(statuses) == {Ticket(i) : i \in {i \in Ids : entries[i].status \in statuses}}

Queue == INSTANCE VenueQueue WITH
    Turns <- 1..MaxEntries,
    waiting <- TicketsIn({"waiting"}),
    held <- TicketsIn({"offered"}),
    closed <- TicketsIn(TerminalStatuses)

ImplementsQueue == Queue!Spec

-----------------------------------------------------------------------------
(* Liveness *)

HoldIsOver(i) ==
    i \in Ids /\ entries[i].status = "offered" /\ entries[i].hold = "over"

\* A hold that is over reaches somebody else, unless its owner has converted
\* it in time, nobody waits, or the breaker is open (trigger_cascade).
HoldsMoveOn ==
    \A i \in 1..MaxEntries, v \in Venues :
        HoldIsOver(i) /\ entries[i].venue = v ~>
            \/ i \in Ids /\ entries[i].status = "converted"
            \/ Waiting(v) = {}
            \/ Paused(v)
            \/ \E j \in Ids \ {i} : /\ entries[j].venue = v
                                    /\ entries[j].status = "offered"
=============================================================================
