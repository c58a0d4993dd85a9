---------------------------- MODULE RfpLifecycle ----------------------------
(***************************************************************************)
(* Requests for proposal of event-lifecycle-service: an organizer drafts   *)
(* an RFP, sends it to venues, compares their responses and awards one;    *)
(* venues view and respond; a Celery task settles RFPs whose deadline has  *)
(* passed.                                                                 *)
(*                                                                         *)
(* Endpoints run on a pool of threads: a request loads the rows and checks *)
(* them, then writes by primary key whatever became of them meanwhile.     *)
(* The task runs in another process and commits once per venue list and    *)
(* once per RFP of the batch it loaded, with mails in between.  Rfps and   *)
(* venues are rows; audit entries, signals and mails are left out.         *)
(***************************************************************************)
EXTENDS Integers, FiniteSets

CONSTANTS
    Rfps,           \* the RFPs that may come to exist
    InvitedVenues,  \* the venues that may be invited
    RfpRequests,    \* requests at work at the same time
    MaxActiveRfps,  \* the limit of create_rfp
    Suitable,       \* Suitable[f]: venues the organizer of f may invite
    MaxInvitations, \* the limit of add_venues_to_rfp
    MaxExtensions,  \* deadlines that organizers extend
    MaxRfpCrashes,  \* restarts of the API or the worker
    RfpOverlap      \* FALSE: a request is over before anything else happens

ASSUME SuitableAssumption == Suitable \in [Rfps -> SUBSET InvitedVenues]
ASSUME RfpBoundsAssumption ==
    {MaxActiveRfps, MaxInvitations, MaxExtensions, MaxRfpCrashes} \subseteq Nat
ASSUME RfpOverlapAssumption == RfpOverlap \in BOOLEAN

VARIABLES
    rfpStatus,     \* rfpStatus[f]: RFP.status, "absent" when there is no row
    overdue,       \* RFPs whose response_deadline has passed
    settledRfps,   \* RFPs with deadline_processed_at
    invitation,    \* invitation[f][v]: RFPVenue.status, "none" without a row
    answers,       \* answers[f]: venues with a VenueResponse
    rfpCall,       \* rfpCall[c]: what request c has read and still has to write
    deadlineTask,  \* process_rfp_deadlines: the batch it has loaded, the RFP it
                   \* is at, how far it is, and whether it found a response
    extensions,
    rfpCrashes

rfpVars == <<rfpStatus, overdue, settledRfps, invitation, answers, rfpCall,
             deadlineTask, extensions, rfpCrashes>>

ActiveRfp == {"draft", "sent", "collecting_responses", "review"}
TerminalRfp == {"awarded", "closed", "expired"}
OpenForAnswers == {"sent", "collecting_responses"}
Invitations == {"none", "received", "viewed", "responded", "shortlisted",
                "awarded", "declined", "no_response"}
Undecided == {"responded", "shortlisted"}

NoRfpCall == [op |-> "idle", rfp |-> "none", venue |-> "none",
              seen |-> "none", rest |-> {}, verdict |-> "none"]

Between(batch) == [batch |-> batch, rfp |-> "none", at |-> "load", heard |-> FALSE]

IdleTask == Between({})

RfpInit ==
    /\ rfpStatus = [f \in Rfps |-> "absent"]
    /\ overdue = {}
    /\ settledRfps = {}
    /\ invitation = [f \in Rfps |-> [v \in InvitedVenues |-> "none"]]
    /\ answers = [f \in Rfps |-> {}]
    /\ rfpCall = [c \in RfpRequests |-> NoRfpCall]
    /\ deadlineTask = IdleTask
    /\ extensions = 0
    /\ rfpCrashes = 0

-----------------------------------------------------------------------------
(* What a request checks when it loads the rows *)

Invited(f) == {v \in InvitedVenues : invitation[f][v] # "none"}
With(f, state) == {v \in InvitedVenues : invitation[f][v] = state}
CountActive == Cardinality({f \in Rfps : rfpStatus[f] \in ActiveRfp})

CanUpdate(f) == rfpStatus[f] = "draft"
CanDelete(f) == rfpStatus[f] = "draft"
CanAddVenue(f, v) ==
    /\ rfpStatus[f] = "draft"
    /\ v \in Suitable[f] /\ invitation[f][v] = "none"
    /\ Cardinality(Invited(f)) < MaxInvitations
CanRemoveVenue(f, v) == rfpStatus[f] = "draft" /\ invitation[f][v] # "none"
CanSend(f) == rfpStatus[f] = "draft" /\ Invited(f) # {} /\ f \notin overdue
CanExtend(f) == rfpStatus[f] \in OpenForAnswers /\ extensions < MaxExtensions
CanClose(f) == rfpStatus[f] \in OpenForAnswers \cup {"review"}

\* Mutant: a venue that has only viewed the RFP can be shortlisted.
CanShortlistViewed(f, v) == invitation[f][v] \in {"viewed", "responded"}

CanShortlist(f, v) == invitation[f][v] = "responded"

\* The status of the RFP itself is not looked at.
CanAward(f, v) == invitation[f][v] \in Undecided /\ With(f, "awarded") = {}

CanDecline(f, v) == invitation[f][v] \in Undecided
CanView(f, v) == invitation[f][v] = "received"
CanRespond(f, v) ==
    /\ invitation[f][v] \in {"received", "viewed"}
    /\ f \notin overdue
    /\ v \notin answers[f]

OnRfp(op, f) ==
    \/ op = "update" /\ CanUpdate(f)
    \/ op = "delete" /\ CanDelete(f)
    \/ op = "send" /\ CanSend(f)
    \/ op = "extend" /\ CanExtend(f)
    \/ op = "close" /\ CanClose(f)

OnVenue(op, f, v) ==
    \/ op = "add" /\ CanAddVenue(f, v)
    \/ op = "remove" /\ CanRemoveVenue(f, v)
    \/ op = "shortlist" /\ CanShortlist(f, v)
    \/ op = "award" /\ CanAward(f, v)
    \/ op = "decline" /\ CanDecline(f, v)
    \/ op = "view" /\ CanView(f, v)
    \/ op = "respond" /\ CanRespond(f, v)

RfpOps == {"update", "delete", "send", "extend", "close"}
VenueOps == {"add", "remove", "shortlist", "award", "decline", "view", "respond"}

NoRequest == \A c \in RfpRequests : rfpCall[c].op = "idle"

LoadRows(c) ==
    /\ rfpCall[c].op = "idle"
    /\ RfpOverlap \/ NoRequest
    /\ \E f \in Rfps :
        \/ \E op \in RfpOps :
            /\ OnRfp(op, f)
            /\ rfpCall' = [rfpCall EXCEPT ![c] =
                    [NoRfpCall EXCEPT !.op = op, !.rfp = f,
                                      !.seen = rfpStatus[f]]]
        \/ \E op \in VenueOps, v \in InvitedVenues :
            /\ OnVenue(op, f, v)
            /\ rfpCall' = [rfpCall EXCEPT ![c] =
                    [NoRfpCall EXCEPT !.op = op, !.rfp = f, !.venue = v,
                                      !.seen = rfpStatus[f]]]
    /\ UNCHANGED <<rfpStatus, overdue, settledRfps, invitation, answers,
                   deadlineTask, extensions, rfpCrashes>>

-----------------------------------------------------------------------------
(* What it writes *)

Doing(c, op) == rfpCall[c].op = op
Now(c, op) == rfpCall' = [rfpCall EXCEPT ![c].op = op]
Done(c) == rfpCall' = [rfpCall EXCEPT ![c] = NoRfpCall]

\* Requests whose row another request deleted fail when they write; "none"
\* stands for a deleted row among those that an award still has to decline.
DoneAndOthersFail(c, f, venues) ==
    rfpCall' = [d \in RfpRequests |->
        IF d = c \/ (rfpCall[d].rfp = f /\ rfpCall[d].venue \in venues)
        THEN NoRfpCall
        ELSE IF rfpCall[d].rfp = f /\ rfpCall[d].rest \cap venues # {}
        THEN [rfpCall[d] EXCEPT !.rest = (@ \ venues) \cup {"none"}]
        ELSE rfpCall[d]]

\* A response that is not committed yet holds the rows it has written.
RowLocked(f, v) ==
    \E c \in RfpRequests :
        Doing(c, "commit") /\ rfpCall[c].rfp = f /\ rfpCall[c].venue = v

RfpLocked(f) ==
    \E c \in RfpRequests :
        Doing(c, "commit") /\ rfpCall[c].rfp = f /\ rfpCall[c].seen = "sent"

SetRfp(f, s) == ~RfpLocked(f) /\ rfpStatus' = [rfpStatus EXCEPT ![f] = s]
SetInvitation(f, v, s) ==
    ~RowLocked(f, v) /\ invitation' = [invitation EXCEPT ![f][v] = s]

\* create_rfp counts and inserts; duplicate_rfp inserts a copy without venues,
\* whatever the count.
CreateRfp(f) ==
    /\ RfpOverlap \/ NoRequest
    /\ rfpStatus[f] = "absent"
    /\ CountActive < MaxActiveRfps
    /\ SetRfp(f, "draft")
    /\ UNCHANGED <<overdue, settledRfps, invitation, answers, rfpCall,
                   deadlineTask, extensions, rfpCrashes>>

DuplicateRfp(f, copy) ==
    /\ RfpOverlap \/ NoRequest
    /\ rfpStatus[f] # "absent" /\ rfpStatus[copy] = "absent"
    /\ SetRfp(copy, "draft")
    /\ UNCHANGED <<overdue, settledRfps, invitation, answers, rfpCall,
                   deadlineTask, extensions, rfpCrashes>>

\* Of the fields, the deadline matters.
UpdateRfp(c) ==
    /\ Doing(c, "update")
    /\ overdue' \in {overdue, overdue \ {rfpCall[c].rfp}}
    /\ Done(c)
    /\ UNCHANGED <<rfpStatus, settledRfps, invitation, answers, deadlineTask,
                   extensions, rfpCrashes>>

DeleteRfp(c) ==
    /\ Doing(c, "delete")
    /\ LET f == rfpCall[c].rfp
       IN  /\ SetRfp(f, "absent")
           /\ \A v \in InvitedVenues : ~RowLocked(f, v)
           /\ overdue' = overdue \ {f}
           /\ settledRfps' = settledRfps \ {f}
           /\ invitation' = [invitation EXCEPT ![f] =
                                [v \in InvitedVenues |-> "none"]]
           /\ answers' = [answers EXCEPT ![f] = {}]
           /\ deadlineTask' = IF f \in deadlineTask.batch THEN IdleTask
                              ELSE deadlineTask
           /\ DoneAndOthersFail(c, f, InvitedVenues \cup {"none"})
    /\ UNCHANGED <<extensions, rfpCrashes>>

\* The pair (rfp_id, venue_id) is unique: a second insert fails.  A request
\* that names several venues is as many of these.
AddVenue(c) ==
    /\ Doing(c, "add")
    /\ LET f == rfpCall[c].rfp
           v == rfpCall[c].venue
       IN  IF invitation[f][v] = "none" THEN SetInvitation(f, v, "received")
                                        ELSE UNCHANGED invitation
    /\ Done(c)
    /\ UNCHANGED <<rfpStatus, overdue, settledRfps, answers, deadlineTask,
                   extensions, rfpCrashes>>

RemoveVenue(c) ==
    /\ Doing(c, "remove")
    /\ LET f == rfpCall[c].rfp
           v == rfpCall[c].venue
       IN  /\ SetInvitation(f, v, "none")
           /\ answers' = [answers EXCEPT ![f] = @ \ {v}]
           /\ DoneAndOthersFail(c, f, {v})
    /\ UNCHANGED <<rfpStatus, overdue, settledRfps, deadlineTask, extensions,
                   rfpCrashes>>

SendRfp(c) ==
    /\ Doing(c, "send")
    /\ SetRfp(rfpCall[c].rfp, "sent")
    /\ Done(c)
    /\ UNCHANGED <<overdue, settledRfps, invitation, answers, deadlineTask,
                   extensions, rfpCrashes>>

\* The new deadline follows the old one; it may have passed all the same.
ExtendDeadline(c) ==
    /\ Doing(c, "extend")
    /\ extensions' = extensions + 1
    /\ overdue' \in {overdue, overdue \ {rfpCall[c].rfp}}
    /\ Done(c)
    /\ UNCHANGED <<rfpStatus, settledRfps, invitation, answers, deadlineTask,
                   rfpCrashes>>

CloseRfp(c) ==
    /\ Doing(c, "close")
    /\ SetRfp(rfpCall[c].rfp, "closed")
    /\ Done(c)
    /\ UNCHANGED <<overdue, settledRfps, invitation, answers, deadlineTask,
                   extensions, rfpCrashes>>

ShortlistVenue(c) ==
    /\ Doing(c, "shortlist")
    /\ SetInvitation(rfpCall[c].rfp, rfpCall[c].venue, "shortlisted")
    /\ Done(c)
    /\ UNCHANGED <<rfpStatus, overdue, settledRfps, answers, deadlineTask,
                   extensions, rfpCrashes>>

DeclineVenue(c) ==
    /\ Doing(c, "decline")
    /\ SetInvitation(rfpCall[c].rfp, rfpCall[c].venue, "declined")
    /\ Done(c)
    /\ UNCHANGED <<rfpStatus, overdue, settledRfps, answers, deadlineTask,
                   extensions, rfpCrashes>>

MarkViewed(c) ==
    /\ Doing(c, "view")
    /\ SetInvitation(rfpCall[c].rfp, rfpCall[c].venue, "viewed")
    /\ Done(c)
    /\ UNCHANGED <<rfpStatus, overdue, settledRfps, answers, deadlineTask,
                   extensions, rfpCrashes>>

\* An award is a commit for the venue, one for the RFP, and one for each
\* venue found undecided then.
AwardVenue(c) ==
    /\ Doing(c, "award")
    /\ SetInvitation(rfpCall[c].rfp, rfpCall[c].venue, "awarded")
    /\ Now(c, "awardRfp")
    /\ UNCHANGED <<rfpStatus, overdue, settledRfps, answers, deadlineTask,
                   extensions, rfpCrashes>>

AwardRfp(c) ==
    /\ Doing(c, "awardRfp")
    /\ SetRfp(rfpCall[c].rfp, "awarded")
    /\ LET f == rfpCall[c].rfp
           others == {v \in InvitedVenues \ {rfpCall[c].venue} :
                         invitation[f][v] \in Undecided}
       IN  rfpCall' = [rfpCall EXCEPT ![c] =
                IF others = {} THEN NoRfpCall
                ELSE [@ EXCEPT !.op = "declineOthers", !.rest = others]]
    /\ UNCHANGED <<overdue, settledRfps, invitation, answers, deadlineTask,
                   extensions, rfpCrashes>>

DeclineOther(c, v) ==
    /\ Doing(c, "declineOthers")
    /\ v \in rfpCall[c].rest
    /\ IF v = "none" THEN UNCHANGED invitation
                     ELSE SetInvitation(rfpCall[c].rfp, v, "declined")
    /\ rfpCall' = [rfpCall EXCEPT ![c] =
            IF v = "none" \/ @.rest = {v} THEN NoRfpCall
            ELSE [rfpCall[c] EXCEPT !.rest = @ \ {v}]]
    /\ UNCHANGED <<rfpStatus, overdue, settledRfps, answers, deadlineTask,
                   extensions, rfpCrashes>>


\* The status a response gives to the RFP it read.
Verdict(seen, complete) ==
    IF seen \notin OpenForAnswers THEN "none"
    ELSE IF complete THEN "review"
    ELSE IF seen = "sent" THEN "collecting_responses" ELSE "none"

\* A response writes its own rows, and the RFP when it read "sent", and then
\* counts the responded venues it can see.
CountResponses(c) ==
    /\ Doing(c, "respond")
    /\ LET f == rfpCall[c].rfp
           v == rfpCall[c].venue
           complete == With(f, "responded") \cup {v} = Invited(f)
       IN  /\ ~RowLocked(f, v)
           /\ rfpCall[c].seen = "sent" => ~RfpLocked(f)
           /\ rfpCall' = [rfpCall EXCEPT ![c] =
                IF v \in answers[f] THEN NoRfpCall
                ELSE [@ EXCEPT !.op = "commit",
                               !.verdict = Verdict(rfpCall[c].seen, complete)]]
    /\ UNCHANGED <<rfpStatus, overdue, settledRfps, invitation, answers,
                   deadlineTask, extensions, rfpCrashes>>

CommitResponse(c) ==
    /\ Doing(c, "commit")
    /\ LET f == rfpCall[c].rfp
           v == rfpCall[c].venue
       IN  /\ invitation' = [invitation EXCEPT ![f][v] = "responded"]
           /\ answers' = [answers EXCEPT ![f] = @ \cup {v}]
           /\ rfpStatus' = IF rfpCall[c].verdict = "none" THEN rfpStatus
                           ELSE [rfpStatus EXCEPT ![f] = rfpCall[c].verdict]
    /\ Done(c)
    /\ UNCHANGED <<overdue, settledRfps, deadlineTask, extensions, rfpCrashes>>

-----------------------------------------------------------------------------
(* The deadline task, time and restarts *)

TaskMayRun == RfpOverlap \/ NoRequest

LoadOverdue ==
    /\ TaskMayRun
    /\ deadlineTask = IdleTask
    /\ LET found == {f \in overdue \ settledRfps :
                        rfpStatus[f] \in OpenForAnswers}
       IN  found # {} /\ deadlineTask' = [deadlineTask EXCEPT !.batch = found]
    /\ UNCHANGED <<rfpStatus, overdue, settledRfps, invitation, answers,
                   rfpCall, extensions, rfpCrashes>>

\* Mutant: the RFP is marked as processed with its venues, before its status.
MarksProcessedFirst(f) == settledRfps' = settledRfps \cup {f}

KeepsForRetry(f) == UNCHANGED settledRfps

\* Mutant: venues that have responded are marked as well.
Unanswering == {"received", "viewed", "responded"}

Silent == {"received", "viewed"}

CountAnswers(f) ==
    /\ TaskMayRun
    /\ f \in deadlineTask.batch /\ deadlineTask.at = "load"
    /\ deadlineTask' = [deadlineTask EXCEPT !.rfp = f, !.at = "counted",
                            !.heard = With(f, "responded") # {}]
    /\ UNCHANGED <<rfpStatus, overdue, settledRfps, invitation, answers,
                   rfpCall, extensions, rfpCrashes>>

\* One UPDATE on the status, committed on its own.
MarkNoResponse(f) ==
    /\ TaskMayRun
    /\ deadlineTask.rfp = f /\ deadlineTask.at = "counted"
    /\ \A v \in InvitedVenues : ~RowLocked(f, v)
    /\ invitation' = [invitation EXCEPT ![f] = [v \in InvitedVenues |->
            IF @[v] \in Silent THEN "no_response" ELSE @[v]]]
    /\ deadlineTask' = [deadlineTask EXCEPT !.at = "marked"]
    /\ KeepsForRetry(f)
    /\ UNCHANGED <<rfpStatus, overdue, answers, rfpCall, extensions,
                   rfpCrashes>>

\* The status is read again after that commit, the responses are not counted
\* again; anything but a "sent" without responses becomes "review".
SettleRfp(f) ==
    /\ TaskMayRun
    /\ deadlineTask.rfp = f /\ deadlineTask.at = "marked"
    /\ SetRfp(f, IF rfpStatus[f] = "sent" /\ ~deadlineTask.heard
                 THEN "expired" ELSE "review")
    /\ settledRfps' = settledRfps \cup {f}
    /\ deadlineTask' = Between(deadlineTask.batch \ {f})
    /\ UNCHANGED <<overdue, invitation, answers, rfpCall, extensions,
                   rfpCrashes>>

DeadlinePasses(f) ==
    /\ rfpStatus[f] # "absent"
    /\ overdue' = overdue \cup {f}
    /\ UNCHANGED <<rfpStatus, settledRfps, invitation, answers, rfpCall,
                   deadlineTask, extensions, rfpCrashes>>

RfpApiRestarts ==
    /\ rfpCrashes < MaxRfpCrashes
    /\ rfpCrashes' = rfpCrashes + 1
    /\ rfpCall' = [c \in RfpRequests |-> NoRfpCall]
    /\ UNCHANGED <<rfpStatus, overdue, settledRfps, invitation, answers,
                   deadlineTask, extensions>>

\* Celery gives the task out again.
RfpWorkerRestarts ==
    /\ rfpCrashes < MaxRfpCrashes
    /\ rfpCrashes' = rfpCrashes + 1
    /\ deadlineTask' = IdleTask
    /\ UNCHANGED <<rfpStatus, overdue, settledRfps, invitation, answers,
                   rfpCall, extensions>>

-----------------------------------------------------------------------------

RfpWrite(c) ==
    \/ UpdateRfp(c) \/ DeleteRfp(c) \/ AddVenue(c) \/ RemoveVenue(c)
    \/ SendRfp(c) \/ ExtendDeadline(c) \/ CloseRfp(c)
    \/ ShortlistVenue(c) \/ DeclineVenue(c) \/ MarkViewed(c)
    \/ AwardVenue(c) \/ AwardRfp(c)
    \/ \E v \in InvitedVenues \cup {"none"} : DeclineOther(c, v)
    \/ CountResponses(c) \/ CommitResponse(c)

DeadlineStep ==
    LoadOverdue \/ \E f \in Rfps : CountAnswers(f) \/ MarkNoResponse(f) \/ SettleRfp(f)

RfpNext ==
    \/ \E c \in RfpRequests : LoadRows(c) \/ RfpWrite(c)
    \/ \E f \in Rfps :
          CreateRfp(f) \/ DeadlinePasses(f) \/ \E g \in Rfps : DuplicateRfp(f, g)
    \/ DeadlineStep
    \/ RfpApiRestarts \/ RfpWorkerRestarts

RfpSpec == RfpInit /\ [][RfpNext]_rfpVars

\* Requests that were taken are answered.  Celery runs the task again and again
\* in a process of its own, however busy the API is, which is strong fairness
\* where the two take turns.
RfpFairness ==
    /\ \A c \in RfpRequests : WF_rfpVars(RfpWrite(c))
    /\ SF_rfpVars(DeadlineStep)

-----------------------------------------------------------------------------
(* Properties *)

\* The type invariant.
RfpTypeOK ==
    /\ rfpStatus \in [Rfps -> ActiveRfp \cup TerminalRfp \cup {"absent"}]
    /\ overdue \cup settledRfps \subseteq Rfps
    /\ invitation \in [Rfps -> [InvitedVenues -> Invitations]]
    /\ answers \in [Rfps -> SUBSET InvitedVenues]
    /\ deadlineTask \in [batch : SUBSET Rfps, rfp : Rfps \cup {"none"},
                         at : {"load", "counted", "marked"}, heard : BOOLEAN]

\* However requests, the task and restarts interleave, only a venue with a
\* response on record is shortlisted, awarded or declined.
DecisionsFollowAnswers ==
    \A f \in Rfps :
        With(f, "shortlisted") \cup With(f, "awarded") \cup With(f, "declined")
            \subseteq answers[f]

\* As long as requests do not overlap, a venue that responded stays in the
\* running until it is decided: neither a late view nor the deadline task takes
\* its response out of the comparison.
AnswersAreKept ==
    \A f \in Rfps : \A v \in answers[f] :
        invitation[f][v] \in Undecided \cup {"awarded", "declined"}

\* As long as requests do not overlap, an RFP that was sent and whose deadline
\* passes is settled, whatever restarts cut the task short, unless its
\* deadline is extended.
DeadlinesAreProcessed ==
    \A f \in Rfps :
        f \in overdue /\ rfpStatus[f] \in OpenForAnswers
            ~> f \notin overdue \/ rfpStatus[f] \notin OpenForAnswers
=============================================================================
