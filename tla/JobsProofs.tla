----------------------------- MODULE JobsProofs ------------------------------
(****************************************************************************)
(* Theorems about the background jobs, for any amount of work and any faults:*)
(* fulfilment of offers, scheduled mail, sponsor campaigns.                 *)
(****************************************************************************)
EXTENDS OfferFulfillment, ScheduledMail, SponsorCampaigns, TLAPS

-----------------------------------------------------------------------------
(***************************************************************************)
(* What a buyer received is final, for any number of purchases and faults. *)
(*                                                                         *)
(* The job only writes the purchase it is at.  JobInv says that this one   *)
(* is not fulfilled while the job may still write it, and that what waits  *)
(* in the batch is still PENDING: the batch is read once, and no other job *)
(* writes the statuses.                                                    *)
(***************************************************************************)

\* The purchase at work may be written at these steps.
Writing == job.at \in {"process", "deliver"}

JobInv ==
    /\ FulfillmentTypeOK
    /\ \A p \in job.pending : fulfillment[p] = "PENDING"
    /\ job.of \notin job.pending
    /\ job.at \notin {"idle", "next"} => job.of \in Purchases
    /\ Writing => fulfillment[job.of] \in {"PENDING", "PROCESSING"}

-----------------------------------------------------------------------------
\* A status that the job writes, or fails to write, leaves the statuses of all
\* other purchases and the batch alone.
LEMMA StatusWritten ==
    ASSUME JobInv, Writing,
           NEW status \in FulfillmentStates,
           NEW next \in {"next", "notify", "deliver"},
           UpdateStatus(status, next),
           next = "deliver" => status = "PROCESSING"
    PROVE  /\ JobInv'
           /\ \A p \in Purchases :
                fulfillment[p] = "FULFILLED" => fulfillment'[p] = "FULFILLED"
<1> USE JobBoundsAssumption DEF JobInv, FulfillmentTypeOK, Writing
<1>1. CASE /\ fulfillment' = [fulfillment EXCEPT ![job.of] = status]
           /\ job' = [job EXCEPT !.at = next]
           /\ UNCHANGED <<session, jobFaults>>
  BY <1>1 DEF FulfillmentStates
<1>2. CASE /\ Faulty
           /\ fulfillment' \in {fulfillment, [fulfillment EXCEPT ![job.of] = status]}
           /\ job' = [job EXCEPT !.at = "error"]
           /\ session' = "aborted"
  BY <1>2 DEF Faulty, FulfillmentStates
<1> QED BY <1>1, <1>2 DEF UpdateStatus

\* The end of a run leaves an empty batch.
LEMMA RunEnded ==
    ASSUME JobInv, RunEnds, UNCHANGED fulfillment, jobFaults' \in 0..MaxJobFaults
    PROVE  JobInv'
BY DEF JobInv, FulfillmentTypeOK, Writing, RunEnds, NoJob

LEMMA StepKeepsJob ==
    ASSUME JobInv, [FulfillmentNext]_fulfillmentVars
    PROVE  /\ JobInv'
           /\ \A p \in Purchases :
                fulfillment[p] = "FULFILLED" => fulfillment'[p] = "FULFILLED"
<1> DEFINE Kept == \A p \in Purchases :
                fulfillment[p] = "FULFILLED" => fulfillment'[p] = "FULFILLED"
<1>1. ASSUME NEW p \in Purchases, Purchase(p)
      PROVE  JobInv' /\ Kept
  BY <1>1 DEF Purchase, JobInv, FulfillmentTypeOK, FulfillmentStates, Writing
<1>2. CASE JobRestarts
  <2>1. jobFaults' \in 0..MaxJobFaults
    BY <1>2, JobBoundsAssumption DEF JobRestarts, Faulty, JobInv, FulfillmentTypeOK
  <2> QED BY <1>2, <2>1, RunEnded DEF JobRestarts
<1>3. CASE LoadFulfillments
  <2>1. PICK pending \in SUBSET {p \in Purchases : fulfillment[p] = "PENDING"} :
            job' = [at |-> "next", of |-> "none", pending |-> pending]
    BY <1>3 DEF LoadFulfillments, Limited, NoJob
  <2> QED
    BY <1>3, <2>1, DigitalAssumption
    DEF LoadFulfillments, JobInv, FulfillmentTypeOK, Writing
<1>4. ASSUME NEW p \in Purchases, TakeUp(p)
      PROVE  JobInv' /\ Kept
  BY <1>4 DEF TakeUp, JobInv, FulfillmentTypeOK, Writing, At
<1>5. CASE FinishRun
  BY <1>5, RunEnded DEF FinishRun, JobInv, FulfillmentTypeOK
<1>6. CASE FulfillDigital
  BY <1>6, StatusWritten DEF FulfillDigital, At, Writing, FulfillmentStates
<1>7. CASE LookUpBuyer
  BY <1>7 DEF LookUpBuyer, JobInv, FulfillmentTypeOK, Writing, At
<1>8. CASE MarkProcessing
  BY <1>8, StatusWritten DEF MarkProcessing, At, Writing, FulfillmentStates
<1>9. CASE MarkFulfilled
  BY <1>9, StatusWritten DEF MarkFulfilled, At, Writing, FulfillmentStates
<1>10. CASE HandlerRaises
  BY <1>10, RunEnded DEF HandlerRaises, JobInv, FulfillmentTypeOK
<1>11. CASE UNCHANGED fulfillmentVars
  BY <1>11 DEF fulfillmentVars, JobInv, FulfillmentTypeOK, Writing
<1> QED
  BY <1>1, <1>2, <1>3, <1>4, <1>5, <1>6, <1>7, <1>8, <1>9, <1>10, <1>11
  DEF FulfillmentNext, RunStep

LEMMA InitialJob == FulfillmentInit => JobInv
BY JobBoundsAssumption
DEF FulfillmentInit, JobInv, FulfillmentTypeOK, FulfillmentStates, NoJob, Writing

-----------------------------------------------------------------------------
\* Types are kept: every step of the job has the purchase it works on.
THEOREM FulfillmentTypes == FulfillmentSpec => []FulfillmentTypeOK
<1>1. JobInv /\ [FulfillmentNext]_fulfillmentVars => JobInv'
  BY StepKeepsJob
<1>2. JobInv => FulfillmentTypeOK
  BY DEF JobInv
<1> QED BY InitialJob, <1>1, <1>2, PTL DEF FulfillmentSpec

\* No step of a run, no error and no restart takes back what was fulfilled.
THEOREM FulfilmentIsFinal == FulfillmentSpec => FulfilledIsFinal
<1>1. JobInv /\ [FulfillmentNext]_fulfillmentVars => JobInv'
  BY StepKeepsJob
<1>2. JobInv /\ [FulfillmentNext]_fulfillmentVars =>
        [\A p \in Purchases : fulfillment[p] = "FULFILLED"
            => fulfillment'[p] = "FULFILLED"]_fulfillmentVars
  BY StepKeepsJob
<1> QED BY InitialJob, <1>1, <1>2, PTL DEF FulfillmentSpec, FulfilledIsFinal

-----------------------------------------------------------------------------
(***************************************************************************)
(* Mails are sent once, for any tables, mails, occasions, batches and      *)
(* faults.                                                                 *)
(*                                                                         *)
(* Neither job looks again at a row it has read, and neither needs to: the *)
(* sender writes rows that are QUEUED, the retrying job rows that are      *)
(* FAILED, and each leaves the rows of the other alone, so that what a job *)
(* read is still true when it writes (StillQueued, StillFailed).  A mail   *)
(* that Resend took is SENT or at work (Accounted), hence not loaded again.*)
(***************************************************************************)

StillQueued ==
    \A t \in MailTables : \A m \in sender[t].batch \cup ({sender[t].mail} \ {"none"}) :
        TableOf[m] = t /\ mailStatus[m] = "QUEUED"

StillFailed ==
    \A t \in MailTables : \A m \in retrier[t] :
        TableOf[m] = t /\ mailStatus[m] = "FAILED"

AtWork ==
    \A t \in MailTables :
        /\ sender[t].mail \notin sender[t].batch
        /\ sender[t].became = "unknown" <=> sender[t].mail = "none"

BeingRecorded(m) ==
    sender[TableOf[m]].mail = m /\ sender[TableOf[m]].became = "taken"

Accounted ==
    \A m \in Mails \ unrecorded :
        \/ accepted[m] = 0
        \/ accepted[m] = 1 /\ (mailStatus[m] = "SENT" \/ BeingRecorded(m))

MailInv == MailTypeOK /\ StillQueued /\ StillFailed /\ AtWork /\ Accounted

-----------------------------------------------------------------------------
LEMMA InitialMail == MailInit => MailInv
<1> SUFFICES ASSUME MailInit PROVE MailInv
  OBVIOUS
<1> USE MailAssumption DEF MailInit, NoMail
<1>1. MailTypeOK
  BY DEF MailTypeOK
<1>2. StillQueued /\ StillFailed /\ AtWork
  BY DEF StillQueued, StillFailed, AtWork
<1>3. Accounted
  BY DEF Accounted
<1> QED BY <1>1, <1>2, <1>3 DEF MailInv

LEMMA FilingKeeps ==
    ASSUME MailInv, NEW m \in Mails, FileMail(m)
    PROVE  MailInv'
<1> USE MailAssumption DEF MailInv, FileMail
<1>1. MailTypeOK'
  BY DEF MailTypeOK
<1>2. StillQueued' /\ StillFailed' /\ AtWork'
  BY DEF StillQueued, StillFailed, AtWork, MailTypeOK
<1>3. Accounted'
  BY DEF Accounted, BeingRecorded, MailTypeOK
<1> QED BY <1>1, <1>2, <1>3

\* Whatever becomes of it, the next mail of a batch was QUEUED and not taken,
\* unless its acceptance went unrecorded.
LEMMA ProcessingKeeps ==
    ASSUME MailInv, NEW t \in MailTables, NEW m \in Mails,
           SendMail(t, m) \/ SendFails(t, m) \/ AnswerLost(t, m)
    PROVE  MailInv'
<1> USE MailAssumption DEF MailInv
<1>1. PICK outcome \in {"taken", "refused"} :
        /\ Process(t, m, outcome)
        /\ outcome = "taken" => SendMail(t, m)
        /\ \/ Accept(m) /\ (outcome = "taken" \/ m \in unrecorded')
           \/ accepted' = accepted
  BY DEF SendMail, SendFails, AnswerLost
<1>2. /\ UNCHANGED <<started, filed, mailStatus, retrier>>
      /\ unrecorded \subseteq unrecorded' /\ unrecorded' \subseteq unrecorded \cup {m}
      /\ mailFaults' \in 0..MaxMailFaults
  BY DEF SendMail, SendFails, AnswerLost, MailFault, MailTypeOK
<1>3. /\ m \in sender[t].batch /\ sender[t].mail = "none" /\ m # "none"
      /\ sender' = [sender EXCEPT ![t] =
            [mail |-> m, became |-> outcome, batch |-> sender[t].batch \ {m}]]
      /\ TableOf[m] = t /\ mailStatus[m] = "QUEUED"
  BY <1>1 DEF Process, StillQueued, MailTypeOK
<1>4. accepted' \in [Mails -> 0..2]
  BY <1>1 DEF Accept, MailTypeOK
<1>5. MailTypeOK'
  BY <1>2, <1>3, <1>4 DEF MailTypeOK
<1>6. StillQueued' /\ StillFailed' /\ AtWork'
  BY <1>2, <1>3 DEF StillQueued, StillFailed, AtWork, MailTypeOK
<1>7. ASSUME NEW n \in Mails \ unrecorded', n # m
      PROVE  accepted'[n] = accepted[n] /\ (BeingRecorded(n) => BeingRecorded(n)')
  BY <1>1, <1>3, <1>7 DEF Accept, BeingRecorded, MailTypeOK
<1>8. ASSUME m \notin unrecorded'
      PROVE  \/ accepted'[m] = 0
             \/ accepted'[m] = 1 /\ BeingRecorded(m)'
  <2>1. accepted[m] = 0
    BY <1>2, <1>3, <1>8 DEF Accounted, BeingRecorded
  <2> QED BY <1>1, <1>3, <1>8, <2>1 DEF Accept, BeingRecorded, MailTypeOK
<1>9. Accounted'
  BY <1>2, <1>7, <1>8 DEF Accounted
<1> QED BY <1>5, <1>6, <1>9

LEMMA RecordingKeeps ==
    ASSUME MailInv, NEW t \in MailTables, MarkSent(t) \/ MarkMailFailed(t)
    PROVE  MailInv'
<1> USE MailAssumption DEF MailInv
<1> DEFINE m == sender[t].mail
<1>1. PICK status \in {"SENT", "FAILED"} :
        /\ mailStatus' = [mailStatus EXCEPT ![m] = status]
        /\ status = IF sender[t].became = "taken" THEN "SENT" ELSE "FAILED"
        /\ sender[t].became # "unknown"
        /\ sender' = [sender EXCEPT ![t].mail = "none", ![t].became = "unknown"]
        /\ UNCHANGED <<started, filed, accepted, unrecorded, retrier, mailFaults>>
  BY DEF MarkSent, MarkMailFailed, Record
<1>2. m \in Mails /\ TableOf[m] = t /\ mailStatus[m] = "QUEUED" /\ m \notin sender[t].batch
  BY <1>1 DEF AtWork, StillQueued, MailTypeOK
<1>3. MailTypeOK'
  BY <1>1, <1>2 DEF MailTypeOK
<1>4. StillQueued' /\ AtWork'
  BY <1>1, <1>2 DEF StillQueued, AtWork, MailTypeOK
<1>5. StillFailed'
  BY <1>1, <1>2 DEF StillFailed, MailTypeOK
<1>6. Accounted'
  BY <1>1, <1>2 DEF Accounted, BeingRecorded, MailTypeOK
<1> QED BY <1>3, <1>4, <1>5, <1>6

LEMMA RequeueKeeps ==
    ASSUME MailInv, NEW t \in MailTables, Requeue(t)
    PROVE  MailInv'
<1> USE MailAssumption DEF MailInv, Requeue
<1>1. MailTypeOK'
  BY DEF MailTypeOK
<1>2. StillQueued' /\ AtWork'
  BY DEF StillQueued, StillFailed, AtWork, MailTypeOK
<1>3. StillFailed'
  BY DEF StillFailed, MailTypeOK
<1>4. Accounted'
  BY DEF Accounted, StillFailed, BeingRecorded, MailTypeOK
<1> QED BY <1>1, <1>2, <1>3, <1>4

LEMMA SendingEndKeeps ==
    ASSUME MailInv, NEW t \in MailTables, SendingEnds(t)
    PROVE  MailInv'
<1> USE MailAssumption DEF MailInv, SendingEnds, NoMail
<1>1. sender[t].became = "taken" => sender[t].mail \in Mails
  BY DEF AtWork, MailTypeOK
<1>2. MailTypeOK'
  BY <1>1 DEF MailTypeOK, MailFault
<1>3. StillQueued' /\ StillFailed' /\ AtWork'
  BY DEF StillQueued, StillFailed, AtWork, MailTypeOK
<1>4. Accounted'
  BY DEF Accounted, BeingRecorded, MailTypeOK
<1> QED BY <1>2, <1>3, <1>4

LEMMA StepKeepsMail ==
    ASSUME MailInv, [MailNext]_mailVars
    PROVE  MailInv'
<1> USE MailAssumption DEF MailInv
<1>1. ASSUME NEW o \in Occasions, OccasionStarts(o)
      PROVE  MailInv'
  BY <1>1 DEF OccasionStarts, MailTypeOK, StillQueued, StillFailed, AtWork,
              Accounted, BeingRecorded
<1>2. ASSUME NEW t \in MailTables, LoadPending(t)
      PROVE  MailInv'
  <2>1. PICK loaded \in SUBSET Rows(t, "QUEUED") :
            loaded = First(SendBatch, Rows(t, "QUEUED"))
    BY DEF First
  <2>2. /\ sender[t] = NoMail
        /\ UNCHANGED <<started, filed, mailStatus, accepted, unrecorded, retrier,
                       mailFaults>>
    BY <1>2 DEF LoadPending
  <2>3. /\ loaded \in SUBSET Mails
        /\ \A m \in loaded : TableOf[m] = t /\ mailStatus[m] = "QUEUED"
    BY DEF Rows
  <2>4. sender' = [sender EXCEPT ![t] =
            [mail |-> "none", became |-> "unknown", batch |-> loaded]]
    <3>1. sender' = [sender EXCEPT ![t].batch = loaded]
      BY <1>2, <2>1 DEF LoadPending
    <3>2. [sender[t] EXCEPT !.batch = loaded]
            = [mail |-> "none", became |-> "unknown", batch |-> loaded]
      BY <2>2 DEF NoMail
    <3> QED BY <3>1, <3>2
  <2>5. MailTypeOK'
    BY <2>2, <2>3, <2>4 DEF MailTypeOK
  <2>6. StillQueued' /\ StillFailed' /\ AtWork'
    BY <2>2, <2>3, <2>4 DEF StillQueued, StillFailed, AtWork, MailTypeOK
  <2>7. Accounted'
    BY <2>2, <2>4 DEF Accounted, BeingRecorded, MailTypeOK, NoMail
  <2> QED BY <2>5, <2>6, <2>7
<1>3. ASSUME NEW t \in MailTables, LoadFailed(t)
      PROVE  MailInv'
  <2>1. StillAhead(DeadLetters(t)) \subseteq Rows(t, "FAILED")
    BY DEF StillAhead, DeadLetters, First
  <2>2. /\ retrier' = [retrier EXCEPT ![t] = StillAhead(DeadLetters(t))]
        /\ UNCHANGED <<started, filed, mailStatus, accepted, unrecorded, sender,
                       mailFaults>>
    BY <1>3 DEF LoadFailed
  <2>3. MailTypeOK'
    BY <2>1, <2>2 DEF MailTypeOK, Rows
  <2>4. StillFailed'
    BY <2>1, <2>2 DEF StillFailed, MailTypeOK, Rows
  <2>5. StillQueued' /\ AtWork' /\ Accounted'
    BY <2>2 DEF StillQueued, AtWork, Accounted, BeingRecorded
  <2> QED BY <2>3, <2>4, <2>5
<1>4. ASSUME NEW t \in MailTables, RetryEnds(t)
      PROVE  MailInv'
  BY <1>4 DEF RetryEnds, MailFault, MailTypeOK, StillQueued, StillFailed, AtWork,
              Accounted, BeingRecorded
<1>5. CASE UNCHANGED mailVars
  BY <1>5 DEF mailVars, MailTypeOK, StillQueued, StillFailed, AtWork,
              Accounted, BeingRecorded
<1> QED
  BY <1>1, <1>2, <1>3, <1>4, <1>5, FilingKeeps, ProcessingKeeps, RecordingKeeps,
     RequeueKeeps, SendingEndKeeps
  DEF MailNext, SendStep, RetryStep

-----------------------------------------------------------------------------
\* Types are kept, whichever jobs of whichever tables run together.
THEOREM MailTypes == MailSpec => []MailTypeOK
<1>1. MailInv /\ [MailNext]_mailVars => MailInv'
  BY StepKeepsMail
<1>2. MailInv => MailTypeOK
  BY DEF MailInv
<1> QED BY InitialMail, <1>1, <1>2, PTL DEF MailSpec

\* No mail is taken twice by Resend whose first acceptance is on record.
THEOREM MailsAreSentOnce == MailSpec => []SentOnce
<1>1. MailInv /\ [MailNext]_mailVars => MailInv'
  BY StepKeepsMail
<1>2. MailInv => SentOnce
  BY DEF MailInv, MailTypeOK, Accounted, SentOnce
<1> QED BY InitialMail, <1>1, <1>2, PTL DEF MailSpec

-----------------------------------------------------------------------------
(***************************************************************************)
(* Proofs about the mail campaigns, for any number of campaigns, leads,    *)
(* mailers and faults.                                                     *)
(*                                                                         *)
(* A mailer takes up every lead it has listed, and what it has taken up is *)
(* settled or spared before it takes up the next; rows and texts do not go *)
(* back.  So a mailer that has none left has a complete campaign, whatever *)
(* the others do.  As long as Kafka does not hand a message out again, its *)
(* campaign is worked on by the one mailer that holds the message; with    *)
(* the index, a lead has one row, which one mailer created before it mails.*)
(***************************************************************************)

-----------------------------------------------------------------------------
(* The invariant *)

\* Between the list of leads and the end of the campaign.
AtLeads == {"next", "create", "send", "sent", "failed", "contact"}

\* With a lead in hand that is neither settled nor spared yet.
InHand == {"create", "send", "sent", "failed"}

Working == AtLeads \cup {"begin", "audience", "nobody"}

HasOperands(d) ==
    /\ d.at \in Working => d.on \in Campaigns
    /\ d.at \in InHand \cup {"contact"} => d.lead \in Leads
    /\ d.at \in InHand => d.lead \notin d.todo

WorkHasOperands == \A w \in Mailers : HasOperands(mailing[w])

WorkedOff(c, l) == Settled(c, l) \/ l \in spared[c]

\* Every lead is still listed, in hand, or worked off.
Forgets(d) ==
    /\ d.at \in AtLeads
    /\ \E l \in Audience(d.on) :
          /\ l \notin d.todo /\ ~WorkedOff(d.on, l)
          /\ ~(l = d.lead /\ d.at \in InHand)

NobodyIsForgotten == \A w \in Mailers : ~Forgets(mailing[w])

CompleteInv ==
    /\ CampaignTypeOK
    /\ WorkHasOperands
    /\ NobodyIsForgotten
    /\ SentIsComplete

\* A message is published once.
PublishedOnce ==
    \A c \in Campaigns :
        /\ campaign[c] = "none" => publishing[c] = "nothing" /\ topic[c] = "none"
        /\ publishing[c] \in {"queue", "send"} => topic[c] = "none"

\* Who works on a campaign holds its message.
HoldsMessage ==
    \A c \in Campaigns \ redelivered : \A w \in Mailers :
        mailing[w].at \in Working /\ mailing[w].on = c => topic[c] = w

\* The mailer at desk d may still mail l.
ToMail(d, l) ==
    \/ d.at \in {"begin", "audience"}
    \/ d.at \in AtLeads /\ l \in d.todo
    \/ d.at \in {"create", "send"} /\ l = d.lead

\* A lead that is still to be mailed was not.
NotMailedYet ==
    \A c \in Campaigns \ redelivered : \A l \in Leads :
        /\ topic[c] \in {"none", "unread"} => mailed[c][l] = 0
        /\ \A w \in Mailers :
              mailing[w].on = c /\ ToMail(mailing[w], l) => mailed[c][l] = 0

MessageMailsOnce ==
    \A c \in Campaigns \ redelivered : \A l \in Leads : mailed[c][l] <= 1

OnceInv ==
    /\ CampaignTypeOK
    /\ WorkHasOperands
    /\ PublishedOnce
    /\ HoldsMessage
    /\ NotMailedYet
    /\ MessageMailsOnce

-----------------------------------------------------------------------------
(* Types *)

TypeInv == CampaignTypeOK /\ WorkHasOperands

LEMMA TypeInit == CampaignInit => TypeInv
BY CampaignAssumption
DEF CampaignInit, TypeInv, CampaignTypeOK, WorkHasOperands, NotMailing, CampaignStatus,
    MailingSteps, DeliveryStatus, Working, AtLeads, InHand, HasOperands, Desks

\* The step of a web handler.
LEMMA WebSteps ==
    ASSUME TypeInv, NEW c \in Campaigns,
           \/ CreateCampaign(c) \/ DeleteCampaign(c) \/ WebStep(c)
           \/ PublishFails(c) \/ NeverPublished(c)
    PROVE  /\ campaign' \in [Campaigns -> CampaignStatus]
           /\ \A d \in Campaigns : campaign'[d] = "sent" => campaign[d] = "sent"
           /\ publishing' \in [Campaigns -> {"nothing", "queue", "send", "fail"}]
           /\ topic' \in [Campaigns -> Mailers \cup {"none", "unread", "done"}]
           /\ campaignFaults' \in 0..MaxCampaignFaults
           /\ UNCHANGED <<mailing, deliveries, mailed, optedOut, contacted, spared,
                          redelivered, lost>>
<1>0. /\ campaign \in [Campaigns -> CampaignStatus]
      /\ publishing \in [Campaigns -> {"nothing", "queue", "send", "fail"}]
      /\ topic \in [Campaigns -> Mailers \cup {"none", "unread", "done"}]
      /\ campaignFaults \in 0..MaxCampaignFaults
  BY DEF TypeInv, CampaignTypeOK
<1> USE <1>0 DEF CampaignStatus, Writes, mailVarsOf, historyOf
<1>1. CASE CreateCampaign(c)
  <2>1. PICK next \in {"queue", "nothing"} :
          /\ campaign' = [campaign EXCEPT ![c] = "draft"]
          /\ publishing' = [publishing EXCEPT ![c] = next]
    BY <1>1 DEF CreateCampaign
  <2>2. UNCHANGED <<topic, mailing, deliveries, mailed, optedOut, contacted, spared,
                   redelivered, lost, campaignFaults>>
    BY <1>1 DEF CreateCampaign
  <2>3. /\ publishing' \in [Campaigns -> {"nothing", "queue", "send", "fail"}]
        /\ campaign' \in [Campaigns -> CampaignStatus]
    BY <2>1
  <2>4. \A d \in Campaigns : campaign'[d] = "sent" => campaign[d] = "sent"
    BY <2>1
  <2>5. QED BY <2>2, <2>3, <2>4
<1>2. CASE DeleteCampaign(c)
  BY <1>2 DEF DeleteCampaign
<1>3. CASE MarkQueued(c)
  BY <1>3 DEF MarkQueued
<1>4. CASE Publish(c)
  BY <1>4 DEF Publish
<1>5. CASE MarkUnpublished(c)
  BY <1>5 DEF MarkUnpublished
<1>6. CASE PublishFails(c)
  BY <1>6, CampaignAssumption DEF PublishFails, CampaignFault
<1>7. CASE NeverPublished(c)
  BY <1>7, CampaignAssumption DEF NeverPublished, CampaignFault
<1>8. QED BY <1>1, <1>2, <1>3, <1>4, <1>5, <1>6, <1>7 DEF WebStep

LEMMA WebTypes ==
    ASSUME TypeInv, NEW c \in Campaigns,
           \/ CreateCampaign(c) \/ DeleteCampaign(c) \/ WebStep(c)
           \/ PublishFails(c) \/ NeverPublished(c)
    PROVE  TypeInv'
BY WebSteps DEF TypeInv, CampaignTypeOK, WorkHasOperands

\* The step of a reader of a mail.
LEMMA ReaderTypes ==
    ASSUME TypeInv, NEW c \in Campaigns, NEW l \in Leads,
           Unsubscribe(c, l) \/ Resubscribe(c, l)
    PROVE  TypeInv'
<1>1. UNCHANGED <<campaign, publishing, topic, mailing, deliveries, mailed, contacted,
                 spared, redelivered, lost, campaignFaults>>
  BY DEF Unsubscribe, Resubscribe, mailVarsOf, historyOf
<1>2. optedOut \in [Campaigns -> [Leads -> Nat]] /\ optedOut[c] \in [Leads -> Nat]
  BY DEF TypeInv, CampaignTypeOK
<1>3. optedOut' \in [Campaigns -> [Leads -> Nat]]
  <2>1. CASE Unsubscribe(c, l)
    BY <2>1, <1>2 DEF Unsubscribe
  <2>2. CASE Resubscribe(c, l)
    <3>1. optedOut[c][l] - 1 \in Nat
      BY <2>2, <1>2 DEF Resubscribe
    <3>2. QED BY <3>1, <2>2, <1>2 DEF Resubscribe
  <2>3. QED BY <2>1, <2>2
<1>4. QED BY <1>1, <1>3 DEF TypeInv, CampaignTypeOK, WorkHasOperands

LEMMA NewDesk ==
    ASSUME mailing \in [Mailers -> Desks], NEW w \in Mailers, NEW d \in Desks,
           HasOperands(d), mailing' = [mailing EXCEPT ![w] = d]
    PROVE  /\ mailing' \in [Mailers -> Desks]
           /\ \A v \in Mailers \ {w} : mailing'[v] = mailing[v]
           /\ mailing'[w] = d /\ HasOperands(mailing'[w])
OBVIOUS

LEMMA EmptyDesk ==
    /\ NotMailing \in Desks /\ HasOperands(NotMailing)
    /\ [NotMailing EXCEPT !.at = "broken"] \in Desks
    /\ HasOperands([NotMailing EXCEPT !.at = "broken"])
BY DEF NotMailing, Desks, MailingSteps, CampaignStatus, HasOperands, Working, AtLeads, InHand

\* What a mailer does at its desk.
LEMMA DeskSteps ==
    ASSUME TypeInv, NEW w \in Mailers,
           \/ MailerStep(w) \/ TemplateRaises(w) \/ CampaignMailFails(w)
           \/ SessionBreaks(w) \/ KillMailer(w) \/ InterruptMailer(w)
           \/ \E c \in Campaigns : TakeCampaign(w, c)
    PROVE  /\ mailing' \in [Mailers -> Desks]
           /\ \A v \in Mailers \ {w} : mailing'[v] = mailing[v]
           /\ HasOperands(mailing'[w])
<1> DEFINE desk == mailing[w]
<1>0. /\ mailing \in [Mailers -> Desks] /\ HasOperands(desk)
      /\ campaign \in [Campaigns -> CampaignStatus]
      /\ contacted \subseteq Leads
      /\ desk \in Desks
  BY DEF TypeInv, CampaignTypeOK, WorkHasOperands
<1> USE <1>0
<1> DEFINE Ready(d) == d \in Desks /\ HasOperands(d)
<1>1. CASE MarkSending(w)
  <2> DEFINE d == [desk EXCEPT !.at = "audience", !.saw =
                     IF desk.saw = "sending" THEN campaign[desk.on] ELSE "sending"]
  <2>1. Ready(d)
    BY <1>1
    DEF MarkSending, Desks, MailingSteps, HasOperands, Working, AtLeads, InHand,
        CampaignStatus
  <2>2. mailing' = [mailing EXCEPT ![w] = d]
    BY <1>1 DEF MarkSending, Moves, CampaignStatus
  <2>3. QED BY <2>1, <2>2, NewDesk
<1>2. CASE GetRecipients(w)
  <2> DEFINE d == [desk EXCEPT
                     !.at = IF Audience(desk.on) = {} THEN "nobody" ELSE "next",
                     !.todo = Audience(desk.on)]
  <2>1. Ready(d)
    BY <1>2
    DEF GetRecipients, Desks, MailingSteps, HasOperands, Working, AtLeads, InHand,
        Audience
  <2>2. mailing' = [mailing EXCEPT ![w] = d]
    BY <1>2 DEF GetRecipients, Moves, Audience
  <2>3. QED BY <2>1, <2>2, NewDesk
<1>3. CASE NoRecipients(w)
  <2>1. mailing' = [mailing EXCEPT ![w] = NotMailing]
    BY <1>3 DEF NoRecipients, Rests
  <2>2. QED BY <2>1, NewDesk, EmptyDesk
<1>4. CASE \E l \in Leads : TakeUpLead(w, l)
  <2>0. PICK l \in Leads : TakeUpLead(w, l)
    BY <1>4
  <2> DEFINE d == [desk EXCEPT
                     !.at = IF PassesOver(l) THEN "next" ELSE "create",
                     !.todo = @ \ {l}, !.lead = l]
  <2>1. Ready(d)
    BY <2>0 DEF TakeUpLead, Desks, MailingSteps, HasOperands, Working, AtLeads, InHand
  <2>2. mailing' = [mailing EXCEPT ![w] = d]
    BY <2>0 DEF TakeUpLead, Moves
  <2>3. QED BY <2>1, <2>2, NewDesk
<1>5. CASE CreateDelivery(w)
  <2> DEFINE d == [desk EXCEPT !.at = "send"]
  <2>1. Ready(d)
    BY <1>5 DEF CreateDelivery, Desks, MailingSteps, HasOperands, Working, AtLeads, InHand
  <2>2. mailing' = [mailing EXCEPT ![w] = d]
    BY <1>5 DEF CreateDelivery, Moves
  <2>3. QED BY <2>1, <2>2, NewDesk
<1>6. CASE SendCampaignMail(w)
  <2> DEFINE d == [desk EXCEPT !.at = "sent"]
  <2>1. Ready(d)
    BY <1>6
    DEF SendCampaignMail, Desks, MailingSteps, HasOperands, Working, AtLeads, InHand
  <2>2. mailing' = [mailing EXCEPT ![w] = d]
    BY <1>6 DEF SendCampaignMail, Moves
  <2>3. QED BY <2>1, <2>2, NewDesk
<1>7. CASE RecordDelivery(w)
  <2> DEFINE d == [desk EXCEPT !.at = IF desk.at = "sent" THEN "contact" ELSE "next",
                            !.outcomes = @ \cup {desk.at}]
  <2>1. Ready(d)
    BY <1>7 DEF RecordDelivery, Desks, MailingSteps, HasOperands, Working, AtLeads, InHand
  <2>2. mailing' = [mailing EXCEPT ![w] = d]
    BY <1>7 DEF RecordDelivery, Moves
  <2>3. QED BY <2>1, <2>2, NewDesk
<1>8. CASE MarkContacted(w)
  <2> DEFINE d == [desk EXCEPT !.at = "next"]
  <2>1. Ready(d)
    BY <1>8 DEF MarkContacted, Desks, MailingSteps, HasOperands, Working, AtLeads, InHand
  <2>2. mailing' = [mailing EXCEPT ![w] = d]
    BY <1>8 DEF MarkContacted, Moves
  <2>3. QED BY <2>1, <2>2, NewDesk
<1>9. CASE FinishCampaign(w)
  <2>1. mailing' = [mailing EXCEPT ![w] = NotMailing]
    BY <1>9 DEF FinishCampaign, Rests
  <2>2. QED BY <2>1, NewDesk, EmptyDesk
<1>10. CASE TemplateRaises(w)
  <2> DEFINE d == [desk EXCEPT !.at = "next", !.outcomes = @ \cup {"failed"}]
  <2>1. Ready(d)
    BY <1>10
    DEF TemplateRaises, Desks, MailingSteps, HasOperands, Working, AtLeads, InHand
  <2>2. mailing' = [mailing EXCEPT ![w] = d]
    BY <1>10 DEF TemplateRaises, Moves
  <2>3. QED BY <2>1, <2>2, NewDesk
<1>11. CASE CampaignMailFails(w)
  <2> DEFINE d == [desk EXCEPT !.at = "failed"]
  <2>1. Ready(d)
    BY <1>11
    DEF CampaignMailFails, Desks, MailingSteps, HasOperands, Working, AtLeads, InHand
  <2>2. mailing' = [mailing EXCEPT ![w] = d]
    BY <1>11 DEF CampaignMailFails, Moves
  <2>3. QED BY <2>1, <2>2, NewDesk
<1>12. CASE SessionBreaks(w) \/ DeliveryRefused(w)
  <2>1. mailing' = [mailing EXCEPT ![w] = [NotMailing EXCEPT !.at = "broken"]]
    BY <1>12 DEF SessionBreaks, DeliveryRefused, Breaks
  <2>2. QED BY <2>1, NewDesk, EmptyDesk
<1>13. CASE KillMailer(w)
  <2>1. mailing' = [mailing EXCEPT ![w] = NotMailing]
    BY <1>13 DEF KillMailer, Rests
  <2>2. QED BY <2>1, NewDesk, EmptyDesk
<1>14. CASE InterruptMailer(w)
  <2>1. mailing' = [mailing EXCEPT ![w] = NotMailing]
    BY <1>14 DEF InterruptMailer, Rests
  <2>2. QED BY <2>1, NewDesk, EmptyDesk
<1>15. CASE \E c \in Campaigns : TakeCampaign(w, c)
  <2>0. PICK c \in Campaigns : TakeCampaign(w, c)
    BY <1>15
  <2> DEFINE d == [desk EXCEPT !.at = "begin", !.on = c, !.saw = campaign[c]]
  <2>1. CASE ToBeMailed(c)
    <3>1. Ready(d)
      BY DEF Desks, MailingSteps, HasOperands, Working, AtLeads, InHand
    <3>2. mailing' = [mailing EXCEPT ![w] = d]
      BY <2>0, <2>1 DEF TakeCampaign
    <3>3. QED BY <3>1, <3>2, NewDesk
  <2>2. CASE ~ToBeMailed(c)
    BY <2>0, <2>2 DEF TakeCampaign
  <2>3. QED BY <2>1, <2>2
<1>16. QED BY <1>1, <1>2, <1>3, <1>4, <1>5, <1>6, <1>7, <1>8, <1>9, <1>10, <1>11, <1>12, <1>13, <1>14, <1>15 DEF MailerStep


\* Everything but the desks.
RowsType ==
    /\ campaign \in [Campaigns -> CampaignStatus]
    /\ publishing \in [Campaigns -> {"nothing", "queue", "send", "fail"}]
    /\ topic \in [Campaigns -> Mailers \cup {"none", "unread", "done"}]
    /\ deliveries \in [Campaigns -> [Leads -> [DeliveryStatus -> Int]]]
    /\ \A c \in Campaigns, l \in Leads :
          deliveries[c][l]["sent"] >= 0 /\ deliveries[c][l]["failed"] >= 0
    /\ mailed \in [Campaigns -> [Leads -> Nat]]
    /\ optedOut \in [Campaigns -> [Leads -> Nat]]
    /\ contacted \subseteq Leads
    /\ spared \in [Campaigns -> SUBSET Leads]
    /\ redelivered \subseteq Campaigns
    /\ lost \subseteq Campaigns \cup {"none"}
    /\ campaignFaults \in 0..MaxCampaignFaults

\* What is worked off stays so, and nobody becomes new again.
Keeps ==
    /\ contacted \subseteq contacted'
    /\ \A c \in Campaigns, l \in Leads : WorkedOff(c, l) => WorkedOff(c, l)'

MailerActs(w) ==
    \/ MailerStep(w) \/ TemplateRaises(w) \/ CampaignMailFails(w)
    \/ SessionBreaks(w) \/ KillMailer(w) \/ InterruptMailer(w)
    \/ CommitOffsets(w) \/ PartitionMoves(w)
    \/ \E c \in Campaigns : TakeCampaign(w, c) \/ ConsumeInVain(w, c)

\* What a worker writes is one cell of deliveries.
LEMMA OneCellWritten ==
    ASSUME deliveries \in [Campaigns -> [Leads -> [DeliveryStatus -> Int]]],
           NEW w \in Mailers, mailing[w].on \in Campaigns, mailing[w].lead \in Leads,
           CreateDelivery(w) \/ RecordDelivery(w)
    PROVE  \E c, l, row :
             /\ c = mailing[w].on /\ l = mailing[w].lead
             /\ deliveries' = [deliveries EXCEPT ![c] = [deliveries[c] EXCEPT ![l] = row]]
<1> DEFINE c == mailing[w].on
           l == mailing[w].lead
           old == deliveries[c][l]
<1>0. deliveries[c] \in [Leads -> [DeliveryStatus -> Int]] /\ old \in [DeliveryStatus -> Int]
  OBVIOUS
<1>1. CASE CreateDelivery(w)
  <2>1. deliveries' = [deliveries EXCEPT ![c] =
            [deliveries[c] EXCEPT ![l] = [old EXCEPT !["pending"] = old["pending"] + 1]]]
    BY <1>1 DEF CreateDelivery
  <2> QED BY <2>1
<1>2. CASE RecordDelivery(w)
  <2> DEFINE s == mailing[w].at
  <2>1. deliveries' = [deliveries EXCEPT ![c] =
            [deliveries[c] EXCEPT ![l] =
                [old EXCEPT !["pending"] = old["pending"] - 1, ![s] = old[s] + 1]]]
    BY <1>2, <1>0 DEF RecordDelivery, DeliveryStatus
  <2> QED BY <2>1
<1> QED BY <1>1, <1>2

LEMMA OtherCellsStay ==
    ASSUME deliveries \in [Campaigns -> [Leads -> [DeliveryStatus -> Int]]],
           NEW w \in Mailers, mailing[w].on \in Campaigns, mailing[w].lead \in Leads,
           CreateDelivery(w) \/ RecordDelivery(w), NEW c \in Campaigns, NEW l \in Leads,
           mailing[w].on # c \/ mailing[w].lead # l
    PROVE  deliveries'[c][l] = deliveries[c][l]
<1>1. PICK d, k, row :
          /\ d = mailing[w].on /\ k = mailing[w].lead
          /\ deliveries' = [deliveries EXCEPT ![d] = [deliveries[d] EXCEPT ![k] = row]]
  BY OneCellWritten
<1>2. deliveries'[c] = IF c = d THEN [deliveries[d] EXCEPT ![k] = row] ELSE deliveries[c]
  BY <1>1
<1>3. deliveries[c] \in [Leads -> [DeliveryStatus -> Int]]
  OBVIOUS
<1> QED BY <1>1, <1>2, <1>3

LEMMA CellIsCreated ==
    ASSUME NEW old \in [DeliveryStatus -> Int], NEW row,
           row = [old EXCEPT !["pending"] = old["pending"] + 1]
    PROVE  /\ row \in [DeliveryStatus -> Int]
           /\ row["sent"] >= old["sent"] /\ row["failed"] >= old["failed"]
BY DEF DeliveryStatus

\* A lead whose attempt is recorded has an outcome.
LEMMA CellIsSettled ==
    ASSUME NEW old \in [DeliveryStatus -> Int], old["sent"] >= 0, old["failed"] >= 0,
           NEW s \in {"sent", "failed"}, NEW row,
           row = [old EXCEPT !["pending"] = old["pending"] - 1, ![s] = old[s] + 1]
    PROVE  /\ row \in [DeliveryStatus -> Int]
           /\ row["sent"] >= old["sent"] /\ row["failed"] >= old["failed"]
           /\ row["sent"] + row["failed"] > 0
<1>1. /\ {"pending", "sent", "failed"} \subseteq DeliveryStatus
      /\ old["pending"] \in Int /\ old["sent"] \in Int /\ old["failed"] \in Int
  BY DEF DeliveryStatus
<1>2. CASE s = "sent"
  BY <1>1, <1>2
<1>3. CASE s = "failed"
  BY <1>1, <1>3
<1> QED BY <1>2, <1>3

\* A row of a lead changes its status, or is created.
LEMMA DeliveriesStep ==
    ASSUME RowsType, NEW w \in Mailers, mailing[w].on \in Campaigns,
           mailing[w].lead \in Leads, CreateDelivery(w) \/ RecordDelivery(w)
    PROVE  /\ deliveries' \in [Campaigns -> [Leads -> [DeliveryStatus -> Int]]]
           /\ \A c \in Campaigns, l \in Leads, s \in {"sent", "failed"} :
                 deliveries'[c][l][s] >= deliveries[c][l][s]
           /\ RecordDelivery(w) =>
                 deliveries'[mailing[w].on][mailing[w].lead]["sent"]
                 + deliveries'[mailing[w].on][mailing[w].lead]["failed"] > 0
<1> DEFINE c == mailing[w].on
           l == mailing[w].lead
           old == deliveries[c][l]
<1>1. /\ deliveries \in [Campaigns -> [Leads -> [DeliveryStatus -> Int]]]
      /\ deliveries[c] \in [Leads -> [DeliveryStatus -> Int]]
      /\ old \in [DeliveryStatus -> Int]
      /\ old["pending"] \in Int /\ old["sent"] \in Int /\ old["failed"] \in Int
      /\ old["sent"] >= 0 /\ old["failed"] >= 0
  BY DEF RowsType, DeliveryStatus
<1>2. ASSUME NEW row \in [DeliveryStatus -> Int],
             deliveries' = [deliveries EXCEPT ![c] = [@ EXCEPT ![l] = row]],
             row["sent"] >= old["sent"], row["failed"] >= old["failed"]
      PROVE  /\ deliveries' \in [Campaigns -> [Leads -> [DeliveryStatus -> Int]]]
             /\ \A d \in Campaigns, k \in Leads, s \in {"sent", "failed"} :
                   deliveries'[d][k][s] >= deliveries[d][k][s]
             /\ deliveries'[c][l] = row
  <2>1. deliveries' \in [Campaigns -> [Leads -> [DeliveryStatus -> Int]]]
    BY <1>1, <1>2
  <2>2. deliveries'[c][l] = row
    BY <1>1, <1>2
  <2>3. ASSUME NEW d \in Campaigns, NEW k \in Leads, NEW s \in {"sent", "failed"}
        PROVE  deliveries'[d][k][s] >= deliveries[d][k][s]
    <3>1. deliveries[d][k] \in [DeliveryStatus -> Int] /\ s \in DeliveryStatus
      BY <1>1 DEF DeliveryStatus
    <3>2. CASE d = c /\ k = l
      BY <3>2, <2>2, <1>2
    <3>3. CASE ~(d = c /\ k = l)
      <4>1. deliveries'[d][k] = deliveries[d][k]
        BY <3>3, <1>1, <1>2
      <4>2. QED BY <4>1, <3>1
    <3>4. QED BY <3>2, <3>3
  <2>4. QED BY <2>1, <2>2, <2>3
<1>3. CASE CreateDelivery(w)
  <2> DEFINE row == [old EXCEPT !["pending"] = @ + 1]
  <2>1. row \in [DeliveryStatus -> Int] /\ row["sent"] >= old["sent"] /\ row["failed"] >= old["failed"]
    BY <1>1, CellIsCreated
  <2>2. deliveries' = [deliveries EXCEPT ![c] = [@ EXCEPT ![l] = row]]
    BY <1>3 DEF CreateDelivery
  <2>3. ~RecordDelivery(w)
    BY <1>3 DEF CreateDelivery, RecordDelivery
  <2>4. QED BY <2>1, <2>2, <2>3, <1>2
<1>4. CASE RecordDelivery(w)
  <2> DEFINE s == mailing[w].at
             row == [old EXCEPT !["pending"] = @ - 1, ![s] = @ + 1]
  <2>0. s \in {"sent", "failed"}
    BY <1>4 DEF RecordDelivery
  <2>1. /\ row \in [DeliveryStatus -> Int]
        /\ row["sent"] >= old["sent"] /\ row["failed"] >= old["failed"]
        /\ row["sent"] + row["failed"] > 0
    BY <1>1, <2>0, CellIsSettled
  <2>2. deliveries' = [deliveries EXCEPT ![c] = [@ EXCEPT ![l] = row]]
    BY <1>4, <1>1 DEF RecordDelivery, DeliveryStatus
  <2>3. QED BY <2>1, <2>2, <1>2
<1>5. QED BY <1>3, <1>4



\* The rows after a step of a mailer.
LEMMA RowsSteps ==
    ASSUME TypeInv, NEW w \in Mailers, MailerActs(w)
    PROVE  RowsType' /\ Keeps
<1>1. RowsType /\ mailing[w] \in Desks /\ HasOperands(mailing[w])
  BY DEF TypeInv, CampaignTypeOK, RowsType, WorkHasOperands
<1>2. \A c \in Campaigns, l \in Leads, s \in {"sent", "failed"} :
          deliveries[c][l][s] \in Int /\ deliveries[c][l][s] >= 0
  BY <1>1 DEF RowsType, DeliveryStatus
<1>3. CASE MarkSending(w)
  <2>1. RowsType'
    BY <1>3, <1>1 DEF MarkSending, Desks, CampaignStatus, RowsType, historyOf
  <2>2. Keeps
    BY <1>3 DEF MarkSending, Keeps, WorkedOff, Settled
  <2>3. QED BY <2>1, <2>2
<1>4. CASE GetRecipients(w)
  <2>1. RowsType'
    BY <1>4, <1>1 DEF GetRecipients, RowsType, historyOf
  <2>2. Keeps
    BY <1>4 DEF GetRecipients, Keeps, WorkedOff, Settled
  <2>3. QED BY <2>1, <2>2
<1>5. CASE NoRecipients(w)
  <2>1. RowsType'
    BY <1>5, <1>1 DEF NoRecipients, CampaignStatus, RowsType, historyOf
  <2>2. Keeps
    BY <1>5 DEF NoRecipients, Keeps, WorkedOff, Settled
  <2>3. QED BY <2>1, <2>2
<1>6. CASE SendCampaignMail(w)
  <2>1. mailing[w].on \in Campaigns /\ mailing[w].lead \in Leads
    BY <1>6, <1>1 DEF SendCampaignMail, HasOperands, Working, AtLeads, InHand
  <2>2. mailed[mailing[w].on][mailing[w].lead] \in Nat
    BY <2>1, <1>1 DEF RowsType
  <2>3. mailed' \in [Campaigns -> [Leads -> Nat]]
    BY <1>6, <2>1, <2>2, <1>1 DEF SendCampaignMail, RowsType
  <2>4. RowsType'
    BY <1>6, <2>3, <1>1 DEF SendCampaignMail, RowsType, historyOf
  <2>5. Keeps
    BY <1>6, <1>1 DEF SendCampaignMail, Keeps, WorkedOff, Settled
  <2>6. QED BY <2>4, <2>5
<1>7. CASE CampaignMailFails(w)
  <2>1. mailing[w].on \in Campaigns /\ mailing[w].lead \in Leads
    BY <1>7, <1>1 DEF CampaignMailFails, HasOperands, Working, AtLeads, InHand
  <2>2. mailed[mailing[w].on][mailing[w].lead] \in Nat
    BY <2>1, <1>1 DEF RowsType
  <2>3. mailed' \in [Campaigns -> [Leads -> Nat]]
    BY <1>7, <2>1, <2>2, <1>1 DEF CampaignMailFails, RowsType
  <2>4. RowsType'
    BY <1>7, <2>3, <1>1, CampaignAssumption DEF CampaignMailFails, RowsType, CampaignFault
  <2>5. Keeps
    BY <1>7, <1>1 DEF CampaignMailFails, Keeps, WorkedOff, Settled
  <2>6. QED BY <2>4, <2>5
<1>8. CASE FinishCampaign(w)
  <2>1. RowsType'
    BY <1>8, <1>1 DEF FinishCampaign, CampaignStatus, RowsType, historyOf
  <2>2. Keeps
    BY <1>8 DEF FinishCampaign, Keeps, WorkedOff, Settled
  <2>3. QED BY <2>1, <2>2
<1>9. CASE SessionBreaks(w) \/ DeliveryRefused(w)
  <2>1. RowsType'
    BY <1>9, <1>1, CampaignAssumption
    DEF SessionBreaks, DeliveryRefused, Breaks, CampaignFault, Desks, RowsType
  <2>2. Keeps
    BY <1>9 DEF SessionBreaks, DeliveryRefused, Breaks, Keeps, WorkedOff, Settled
  <2>3. QED BY <2>1, <2>2
<1>10. CASE KillMailer(w)
  <2>1. RowsType'
    BY <1>10, <1>1, CampaignAssumption
    DEF KillMailer, CampaignFault, Desks, RowsType, historyOf
  <2>2. Keeps
    BY <1>10 DEF KillMailer, Keeps, WorkedOff, Settled
  <2>3. QED BY <2>1, <2>2
<1>11. CASE InterruptMailer(w)
  <2>1. RowsType'
    BY <1>11, <1>1, CampaignAssumption
    DEF InterruptMailer, CampaignFault, Desks, RowsType, historyOf
  <2>2. Keeps
    BY <1>11 DEF InterruptMailer, Keeps, WorkedOff, Settled
  <2>3. QED BY <2>1, <2>2
<1>12. CASE CommitOffsets(w)
  <2>1. RowsType'
    BY <1>12, <1>1 DEF CommitOffsets, mailVarsOf, historyOf, RowsType
  <2>2. Keeps
    BY <1>12 DEF CommitOffsets, mailVarsOf, Keeps, WorkedOff, Settled
  <2>3. QED BY <2>1, <2>2
<1>13. CASE PartitionMoves(w)
  <2>0. mailing[w].on \in Campaigns
    BY <1>13, <1>1
    DEF PartitionMoves, Desks, MailingSteps, HasOperands, Working, AtLeads, InHand
  <2>1. RowsType'
    BY <1>13, <1>1, <2>0, CampaignAssumption
    DEF PartitionMoves, CampaignFault, mailVarsOf, Desks, RowsType, historyOf
  <2>2. Keeps
    BY <1>13 DEF PartitionMoves, mailVarsOf, Keeps, WorkedOff, Settled
  <2>3. QED BY <2>1, <2>2
<1>14. CASE \E c \in Campaigns : TakeCampaign(w, c)
  <2>1. RowsType'
    BY <1>14, <1>1 DEF TakeCampaign, historyOf, RowsType
  <2>2. Keeps
    BY <1>14 DEF TakeCampaign, Keeps, WorkedOff, Settled
  <2>3. QED BY <2>1, <2>2
<1>15. CASE \E c \in Campaigns : ConsumeInVain(w, c)
  <2>1. RowsType'
    BY <1>15, <1>1 DEF ConsumeInVain, mailVarsOf, RowsType, historyOf
  <2>2. Keeps
    BY <1>15 DEF ConsumeInVain, mailVarsOf, Keeps, WorkedOff, Settled
  <2>3. QED BY <2>1, <2>2
<1>16. CASE \E l \in Leads : TakeUpLead(w, l)
  <2>0. PICK l \in Leads : TakeUpLead(w, l)
    BY <1>16
  <2>1. mailing[w].on \in Campaigns
    BY <2>0, <1>1 DEF TakeUpLead, HasOperands, Working, AtLeads, InHand
  <2>2. /\ spared' \in [Campaigns -> SUBSET Leads]
        /\ \A c \in Campaigns : spared[c] \subseteq spared'[c]
    BY <2>0, <2>1, <1>1 DEF TakeUpLead, RowsType
  <2>3. RowsType'
    BY <2>0, <2>2, <1>1 DEF TakeUpLead, RowsType, historyOf
  <2>4. Keeps
    BY <2>0, <2>2 DEF TakeUpLead, Keeps, WorkedOff, Settled
  <2>5. QED BY <2>3, <2>4
<1>17. CASE TemplateRaises(w)
  <2>1. mailing[w].on \in Campaigns
    BY <1>17, <1>1 DEF TemplateRaises, HasOperands, Working, AtLeads, InHand
  <2>2. /\ spared' \in [Campaigns -> SUBSET Leads]
        /\ \A c \in Campaigns : spared[c] \subseteq spared'[c]
    BY <1>17, <2>1, <1>1 DEF TemplateRaises, RowsType, HasOperands, InHand
  <2>3. RowsType'
    BY <1>17, <2>2, <1>1, CampaignAssumption
    DEF TemplateRaises, RowsType, CampaignFault, historyOf
  <2>4. Keeps
    BY <1>17, <2>2 DEF TemplateRaises, Keeps, WorkedOff, Settled
  <2>5. QED BY <2>3, <2>4
<1>18. CASE CreateDelivery(w)
  <2>1. mailing[w].on \in Campaigns /\ mailing[w].lead \in Leads
    BY <1>18, <1>1 DEF CreateDelivery, HasOperands, Working, AtLeads, InHand
  <2>2. /\ deliveries' \in [Campaigns -> [Leads -> [DeliveryStatus -> Int]]]
        /\ \A c \in Campaigns, l \in Leads, s \in {"sent", "failed"} :
              deliveries'[c][l][s] >= deliveries[c][l][s]
    BY <1>18, <2>1, <1>1, DeliveriesStep
  <2>3. \A c \in Campaigns, l \in Leads, s \in {"sent", "failed"} :
            deliveries'[c][l][s] \in Int /\ deliveries'[c][l][s] >= 0
    BY <2>2, <1>2 DEF DeliveryStatus
  <2>4. RowsType'
    BY <1>18, <2>2, <2>3, <1>1 DEF CreateDelivery, RowsType, historyOf
  <2>5. \A c \in Campaigns, l \in Leads : Settled(c, l) => Settled(c, l)'
    BY <2>2, <2>3, <1>2 DEF Settled
  <2>6. Keeps
    BY <1>18, <2>5 DEF CreateDelivery, Keeps, WorkedOff
  <2>7. QED BY <2>4, <2>6
<1>19. CASE RecordDelivery(w)
  <2>1. mailing[w].on \in Campaigns /\ mailing[w].lead \in Leads
    BY <1>19, <1>1 DEF RecordDelivery, HasOperands, Working, AtLeads, InHand
  <2>2. /\ deliveries' \in [Campaigns -> [Leads -> [DeliveryStatus -> Int]]]
        /\ \A c \in Campaigns, l \in Leads, s \in {"sent", "failed"} :
              deliveries'[c][l][s] >= deliveries[c][l][s]
    BY <1>19, <2>1, <1>1, DeliveriesStep
  <2>3. \A c \in Campaigns, l \in Leads, s \in {"sent", "failed"} :
            deliveries'[c][l][s] \in Int /\ deliveries'[c][l][s] >= 0
    BY <2>2, <1>2 DEF DeliveryStatus
  <2>4. RowsType'
    BY <1>19, <2>2, <2>3, <1>1 DEF RecordDelivery, RowsType, historyOf
  <2>5. \A c \in Campaigns, l \in Leads : Settled(c, l) => Settled(c, l)'
    BY <2>2, <2>3, <1>2 DEF Settled
  <2>6. Keeps
    BY <1>19, <2>5 DEF RecordDelivery, Keeps, WorkedOff
  <2>7. QED BY <2>4, <2>6
<1>20. CASE MarkContacted(w)
  <2>1. mailing[w].lead \in Leads
    BY <1>20, <1>1 DEF MarkContacted, HasOperands
  <2>2. RowsType'
    BY <1>20, <2>1, <1>1 DEF MarkContacted, RowsType, historyOf
  <2>3. Keeps
    BY <1>20 DEF MarkContacted, Keeps, WorkedOff, Settled
  <2>4. QED BY <2>2, <2>3
<1>21. QED BY <1>3, <1>4, <1>5, <1>6, <1>7, <1>8, <1>9, <1>10, <1>11, <1>12, <1>13,
          <1>14, <1>15, <1>16, <1>17, <1>18, <1>19, <1>20 DEF MailerActs, MailerStep

LEMMA MailerTypes ==
    ASSUME TypeInv, NEW w \in Mailers, MailerActs(w)
    PROVE  TypeInv'
<1>1. RowsType'
  BY RowsSteps
<1>2. mailing' \in [Mailers -> Desks] /\ WorkHasOperands'
  <2>1. CASE \/ CommitOffsets(w) \/ PartitionMoves(w)
             \/ \E c \in Campaigns : ConsumeInVain(w, c)
    BY <2>1 DEF CommitOffsets, PartitionMoves, ConsumeInVain, mailVarsOf, TypeInv,
                CampaignTypeOK, WorkHasOperands
  <2>2. CASE \/ MailerStep(w) \/ TemplateRaises(w) \/ CampaignMailFails(w)
             \/ SessionBreaks(w) \/ KillMailer(w) \/ InterruptMailer(w)
             \/ \E c \in Campaigns : TakeCampaign(w, c)
    BY <2>2, DeskSteps DEF TypeInv, WorkHasOperands
  <2>3. QED BY <2>1, <2>2 DEF MailerActs
<1>3. QED BY <1>1, <1>2 DEF TypeInv, CampaignTypeOK, RowsType

\* Every step is one of a web handler, a reader or a mailer.
LEMMA Steps ==
    ASSUME CampaignNext
    PROVE  \/ \E c \in Campaigns : \/ CreateCampaign(c) \/ DeleteCampaign(c) \/ WebStep(c)
                                   \/ PublishFails(c) \/ NeverPublished(c)
           \/ \E c \in Campaigns, l \in Leads : Unsubscribe(c, l) \/ Resubscribe(c, l)
           \/ \E w \in Mailers : MailerActs(w)
<1>1. CASE CampaignGoesWrong
  BY <1>1 DEF CampaignGoesWrong, MailerActs
<1>2. CASE \E w \in Mailers : MailerStep(w) \/ CommitOffsets(w)
  BY <1>2 DEF MailerActs
<1>3. CASE \E c \in Campaigns : \E w \in Mailers : TakeCampaign(w, c) \/ ConsumeInVain(w, c)
  BY <1>3 DEF MailerActs
<1>4. QED BY <1>1, <1>2, <1>3 DEF CampaignNext

LEMMA TypeStep == TypeInv /\ [CampaignNext]_campaignVars => TypeInv'
<1> SUFFICES ASSUME TypeInv, [CampaignNext]_campaignVars PROVE TypeInv'
  OBVIOUS
<1>1. CASE CampaignNext
  BY <1>1, Steps, WebTypes, ReaderTypes, MailerTypes
<1>2. CASE UNCHANGED campaignVars
  BY <1>2 DEF campaignVars, TypeInv, CampaignTypeOK, WorkHasOperands
<1>3. QED BY <1>1, <1>2

\* Types hold in every state of the campaigns (sponsor_campaigns.py,
\* campaign_email_worker.py), for any number of campaigns, leads, mailers, faults.
THEOREM CampaignTypes == CampaignSpec => []CampaignTypeOK
<1>1. TypeInv => CampaignTypeOK
  BY DEF TypeInv
<1>2. QED BY <1>1, TypeInit, TypeStep, PTL DEF CampaignSpec

-----------------------------------------------------------------------------
(* A campaign that reads "sent" is complete *)

LEMMA CompleteInit == CampaignInit => CompleteInv
<1> SUFFICES ASSUME CampaignInit PROVE CompleteInv
  OBVIOUS
<1>1. NobodyIsForgotten
  BY DEF CampaignInit, NotMailing, NobodyIsForgotten, Forgets, AtLeads
<1>2. SentIsComplete
  BY DEF CampaignInit, SentIsComplete
<1>3. QED BY <1>1, <1>2, TypeInit DEF TypeInv, CompleteInv

\* Whoever does not move forgets nobody while others work.
LEMMA OthersForgetNobody ==
    ASSUME CompleteInv, Keeps, NEW v \in Mailers, mailing'[v] = mailing[v]
    PROVE  ~Forgets(mailing[v])'
<1>1. ~Forgets(mailing[v]) /\ (mailing[v].at \in AtLeads => mailing[v].on \in Campaigns)
  BY DEF CompleteInv, NobodyIsForgotten, WorkHasOperands, HasOperands, Working
<1>2. \A c : Audience(c)' \subseteq Audience(c) /\ Audience(c) \subseteq Leads
  BY DEF Keeps, Audience
<1>3. QED BY <1>1, <1>2 DEF Forgets, Keeps

\* Nor does the mailer that moves.
LEMMA MailerForgetsNobody ==
    ASSUME CompleteInv, NEW w \in Mailers, MailerActs(w)
    PROVE  ~Forgets(mailing[w])'
<1> DEFINE d == mailing[w]
<1>0. /\ TypeInv /\ mailing \in [Mailers -> Desks] /\ d \in Desks /\ HasOperands(d)
      /\ ~Forgets(d) /\ RowsType
  BY
  DEF CompleteInv, TypeInv, CampaignTypeOK, WorkHasOperands, NobodyIsForgotten, RowsType
<1>1. Keeps
  BY <1>0, RowsSteps
<1>2. \A c : Audience(c)' \subseteq Audience(c) /\ Audience(c) \subseteq Leads
  BY <1>1 DEF Keeps, Audience
<1>3. CASE UNCHANGED mailing
  BY <1>3, <1>1, OthersForgetNobody
<1>4. CASE MarkSending(w)
  <2>1. mailing'[w].at \in {"audience", "idle", "broken"}
    BY <1>4, <1>0 DEF MarkSending, Desks
  <2>2. QED BY <2>1 DEF Forgets, AtLeads
<1>5. CASE NoRecipients(w)
  <2>1. mailing'[w].at \in {"audience", "idle", "broken"}
    BY <1>5, <1>0 DEF NoRecipients, Rests, NotMailing, Desks
  <2>2. QED BY <2>1 DEF Forgets, AtLeads
<1>6. CASE FinishCampaign(w)
  <2>1. mailing'[w].at \in {"audience", "idle", "broken"}
    BY <1>6, <1>0 DEF FinishCampaign, Rests, NotMailing, Desks
  <2>2. QED BY <2>1 DEF Forgets, AtLeads
<1>7. CASE SessionBreaks(w) \/ DeliveryRefused(w)
  <2>1. mailing'[w].at \in {"audience", "idle", "broken"}
    BY <1>7, <1>0 DEF SessionBreaks, DeliveryRefused, Breaks, NotMailing, Desks
  <2>2. QED BY <2>1 DEF Forgets, AtLeads
<1>8. CASE KillMailer(w)
  <2>1. mailing'[w].at \in {"audience", "idle", "broken"}
    BY <1>8, <1>0 DEF KillMailer, Rests, NotMailing, Desks
  <2>2. QED BY <2>1 DEF Forgets, AtLeads
<1>9. CASE InterruptMailer(w)
  <2>1. mailing'[w].at \in {"audience", "idle", "broken"}
    BY <1>9, <1>0 DEF InterruptMailer, Rests, NotMailing, Desks
  <2>2. QED BY <2>1 DEF Forgets, AtLeads
<1>10. CASE \E c \in Campaigns : TakeCampaign(w, c) \/ ConsumeInVain(w, c)
  <2>1. UNCHANGED mailing \/ mailing'[w].at = "begin"
    BY <1>10, <1>0 DEF TakeCampaign, ConsumeInVain, mailVarsOf, Desks
  <2>2. QED BY <2>1, <1>3 DEF Forgets, AtLeads
<1>11. CASE CommitOffsets(w) \/ PartitionMoves(w)
  BY <1>11, <1>3 DEF CommitOffsets, PartitionMoves, mailVarsOf
<1>12. CASE GetRecipients(w)
  <2>1. /\ mailing'[w].on = d.on /\ mailing'[w].todo = Audience(d.on)
        /\ UNCHANGED contacted
    BY <1>12, <1>0 DEF GetRecipients, Desks
  <2>2. QED BY <2>1, <1>2 DEF Forgets
<1>13. CASE CreateDelivery(w)
  <2>1. /\ mailing'[w].on = d.on /\ mailing'[w].todo = d.todo /\ mailing'[w].lead = d.lead
        /\ d.at \in InHand /\ mailing'[w].at \in InHand
    BY <1>13, <1>0 DEF CreateDelivery, Moves, Desks, InHand
  <2>2. QED BY <2>1, <1>0, <1>1, <1>2 DEF Forgets, Keeps, HasOperands, Working, AtLeads, InHand
<1>14. CASE SendCampaignMail(w)
  <2>1. /\ mailing'[w].on = d.on /\ mailing'[w].todo = d.todo /\ mailing'[w].lead = d.lead
        /\ d.at \in InHand /\ mailing'[w].at \in InHand
    BY <1>14, <1>0 DEF SendCampaignMail, Moves, Desks, InHand
  <2>2. QED BY <2>1, <1>0, <1>1, <1>2 DEF Forgets, Keeps, HasOperands, Working, AtLeads, InHand
<1>15. CASE CampaignMailFails(w)
  <2>1. /\ mailing'[w].on = d.on /\ mailing'[w].todo = d.todo /\ mailing'[w].lead = d.lead
        /\ d.at \in InHand /\ mailing'[w].at \in InHand
    BY <1>15, <1>0 DEF CampaignMailFails, Moves, Desks, InHand
  <2>2. QED BY <2>1, <1>0, <1>1, <1>2 DEF Forgets, Keeps, HasOperands, Working, AtLeads, InHand
<1>16. CASE MarkContacted(w)
  <2>1. /\ mailing'[w].on = d.on /\ mailing'[w].todo = d.todo /\ d.at = "contact"
    BY <1>16, <1>0 DEF MarkContacted, Moves, Desks
  <2>2. QED BY <2>1, <1>0, <1>1, <1>2 DEF Forgets, Keeps, HasOperands, Working, AtLeads, InHand
<1>17. CASE RecordDelivery(w)
  <2>1. /\ mailing'[w].on = d.on /\ mailing'[w].todo = d.todo /\ d.at \in InHand
    BY <1>17, <1>0 DEF RecordDelivery, Desks, InHand
  <2>2. d.on \in Campaigns /\ d.lead \in Leads
    BY <2>1, <1>0 DEF HasOperands, Working, AtLeads, InHand
  <2>3. ASSUME NEW c \in {d.on}, NEW l \in {d.lead} PROVE WorkedOff(c, l)'
    BY <1>17, <2>2, <1>0, DeliveriesStep DEF WorkedOff, Settled
  <2>4. QED BY <2>1, <2>2, <2>3, <1>0, <1>1, <1>2
         DEF Forgets, Keeps, AtLeads, InHand
<1>18. CASE TemplateRaises(w)
  <2>1. /\ mailing'[w].on = d.on /\ mailing'[w].todo = d.todo /\ d.at \in InHand
    BY <1>18, <1>0 DEF TemplateRaises, Desks, InHand
  <2>2. d.on \in Campaigns /\ d.lead \in Leads
    BY <2>1, <1>0 DEF HasOperands, Working, AtLeads, InHand
  <2>3. ASSUME NEW c \in {d.on}, NEW l \in {d.lead} PROVE WorkedOff(c, l)'
    BY <1>18, <2>2, <1>0 DEF TemplateRaises, WorkedOff, RowsType
  <2>4. QED BY <2>1, <2>2, <2>3, <1>0, <1>1, <1>2
         DEF Forgets, Keeps, AtLeads, InHand
<1>19. CASE \E l \in Leads : TakeUpLead(w, l)
  <2>0. PICK k \in Leads : TakeUpLead(w, k)
    BY <1>19
  <2>1. /\ mailing'[w].on = d.on /\ mailing'[w].todo = d.todo \ {k}
        /\ mailing'[w].lead = k /\ d.at = "next"
        /\ ~PassesOver(k) => mailing'[w].at = "create"
    BY <2>0, <1>0 DEF TakeUpLead, Desks
  <2>2. d.on \in Campaigns
    BY <2>1, <1>0 DEF HasOperands, Working, AtLeads
  <2>3. ASSUME NEW c \in {d.on}, PassesOver(k) PROVE WorkedOff(c, k)'
    BY <2>0, <2>2, <2>3, <1>0 DEF TakeUpLead, WorkedOff, RowsType
  <2>4. QED BY <2>1, <2>2, <2>3, <1>0, <1>1, <1>2
         DEF Forgets, Keeps, AtLeads, InHand
<1>20. QED
  BY <1>3, <1>4, <1>5, <1>6, <1>7, <1>8, <1>9, <1>10, <1>11, <1>12,
     <1>13, <1>14, <1>15, <1>16, <1>17, <1>18, <1>19 DEF MailerActs, MailerStep

\* Only a mailer that is done with its leads writes "sent".
LEMMA MailerKeepsComplete ==
    ASSUME CompleteInv, NEW w \in Mailers, MailerActs(w)
    PROVE  SentIsComplete'
<1> DEFINE d == mailing[w]
<1>0. /\ TypeInv /\ d \in Desks /\ HasOperands(d) /\ ~Forgets(d) /\ SentIsComplete
      /\ campaign \in [Campaigns -> CampaignStatus]
  BY DEF CompleteInv, TypeInv, CampaignTypeOK, WorkHasOperands, NobodyIsForgotten
<1>1. Keeps
  BY <1>0, RowsSteps
<1>2. \A c : Audience(c)' \subseteq Audience(c) /\ Audience(c) \subseteq Leads
  BY <1>1 DEF Keeps, Audience
<1> SUFFICES ASSUME NEW c \in Campaigns, campaign'[c] = "sent", NEW l \in Audience(c)'
             PROVE  WorkedOff(c, l)'
  BY DEF SentIsComplete, WorkedOff
<1>3. CASE campaign[c] = "sent"
  <2>1. WorkedOff(c, l)
    BY <1>3, <1>0, <1>2 DEF SentIsComplete, WorkedOff
  <2>2. QED BY <2>1, <1>1, <1>2 DEF Keeps
<1>4. CASE campaign[c] # "sent"
  <2>1. CASE FinishCampaign(w)
    <3>1. d.on = c /\ d.at = "next" /\ d.todo = {}
      BY <2>1, <1>4, <1>0 DEF FinishCampaign, AllTakenUp, HasOperands, Working, AtLeads
    <3>2. WorkedOff(c, l)
      BY <3>1, <1>0, <1>2 DEF Forgets, AtLeads, InHand
    <3>3. QED BY <3>2, <1>1, <1>2 DEF Keeps
  <2>2. CASE MarkSending(w)
    BY <2>2, <1>4, <1>0 DEF MarkSending, HasOperands, Working
  <2>3. CASE NoRecipients(w)
    BY <2>3, <1>4, <1>0 DEF NoRecipients, HasOperands, Working
  <2>4. CASE UNCHANGED campaign
    BY <2>4, <1>4
  <2>5. QED
    BY <2>1, <2>2, <2>3, <2>4
    DEF MailerActs, MailerStep, GetRecipients, TakeUpLead, CreateDelivery, SendCampaignMail,
        RecordDelivery, MarkContacted, TemplateRaises, CampaignMailFails, SessionBreaks, DeliveryRefused,
        Breaks,
        KillMailer, InterruptMailer, CommitOffsets, PartitionMoves, TakeCampaign,
        ConsumeInVain
<1>5. QED BY <1>3, <1>4

LEMMA CompleteStep == CompleteInv /\ [CampaignNext]_campaignVars => CompleteInv'
<1> SUFFICES ASSUME CompleteInv, [CampaignNext]_campaignVars PROVE CompleteInv'
  OBVIOUS
<1>0. TypeInv /\ TypeInv'
  BY TypeStep DEF CompleteInv, TypeInv
<1>1. ASSUME NEW w \in Mailers, MailerActs(w) PROVE CompleteInv'
  <2>1. Keeps /\ \A v \in Mailers \ {w} : mailing'[v] = mailing[v]
    BY <1>0, <1>1, RowsSteps, DeskSteps
    DEF MailerActs, CommitOffsets, PartitionMoves, ConsumeInVain, mailVarsOf
  <2>2. \A v \in Mailers \ {w} : ~Forgets(mailing[v])'
    BY <2>1, OthersForgetNobody
  <2>3. NobodyIsForgotten'
    BY <2>2, <1>1, MailerForgetsNobody DEF NobodyIsForgotten
  <2>4. QED BY <1>0, <1>1, <2>3, MailerKeepsComplete DEF CompleteInv, TypeInv
<1>2. ASSUME UNCHANGED <<mailing, deliveries, contacted, spared>>,
             \A c \in Campaigns : campaign'[c] = "sent" => campaign[c] = "sent"
      PROVE  CompleteInv'
  <2>1. NobodyIsForgotten'
    BY <1>2 DEF CompleteInv, NobodyIsForgotten, Forgets, Audience, WorkedOff, Settled
  <2>2. SentIsComplete'
    BY <1>2 DEF CompleteInv, SentIsComplete, Audience, Settled
  <2>3. QED BY <1>0, <2>1, <2>2 DEF CompleteInv, TypeInv
<1>3. CASE CampaignNext
  <2>1. CASE \E c \in Campaigns : \/ CreateCampaign(c) \/ DeleteCampaign(c) \/ WebStep(c)
                                  \/ PublishFails(c) \/ NeverPublished(c)
    BY <2>1, <1>0, <1>2, WebSteps
  <2>2. CASE \E c \in Campaigns, l \in Leads : Unsubscribe(c, l) \/ Resubscribe(c, l)
    BY <2>2, <1>2 DEF Unsubscribe, Resubscribe, mailVarsOf
  <2>3. QED BY <1>1, <1>3, <2>1, <2>2, Steps
<1>4. CASE UNCHANGED campaignVars
  BY <1>4, <1>2 DEF campaignVars
<1>5. QED BY <1>3, <1>4

\* SentIsComplete: a campaign that reads "sent" has every lead of its audience
\* mailed, failed or passed over, however many mailers were killed, interrupted or
\* worked on it together (process_campaign).
THEOREM CampaignSentIsComplete == CampaignSpec => []SentIsComplete
<1>1. CompleteInv => SentIsComplete
  BY DEF CompleteInv
<1>2. QED BY <1>1, CompleteInit, CompleteStep, PTL DEF CampaignSpec

-----------------------------------------------------------------------------
(* Nobody is mailed twice unless a message is handed out again *)

LEMMA OnceInit == CampaignInit => OnceInv
<1> SUFFICES ASSUME CampaignInit PROVE OnceInv
  OBVIOUS
<1>1. HoldsMessage /\ NotMailedYet /\ MessageMailsOnce /\ PublishedOnce
  BY DEF CampaignInit, NotMailing, HoldsMessage, NotMailedYet, ToMail, MessageMailsOnce,
         PublishedOnce, Working, AtLeads
<1>2. QED BY <1>1, TypeInit DEF TypeInv, OnceInv

\* A web handler publishes only what nobody works on.
LEMMA WebOnce ==
    ASSUME OnceInv, NEW c \in Campaigns,
           \/ CreateCampaign(c) \/ DeleteCampaign(c) \/ WebStep(c)
           \/ PublishFails(c) \/ NeverPublished(c)
    PROVE  PublishedOnce' /\ HoldsMessage' /\ NotMailedYet' /\ MessageMailsOnce'
<1>0. /\ TypeInv /\ PublishedOnce /\ HoldsMessage /\ NotMailedYet /\ MessageMailsOnce
      /\ campaign \in [Campaigns -> CampaignStatus]
      /\ publishing \in [Campaigns -> {"nothing", "queue", "send", "fail"}]
      /\ topic \in [Campaigns -> Mailers \cup {"none", "unread", "done"}]
  BY DEF OnceInv, TypeInv, CampaignTypeOK
<1>1. UNCHANGED <<mailing, mailed, redelivered>>
  BY <1>0, WebSteps
<1>2. ASSUME UNCHANGED topic PROVE HoldsMessage' /\ NotMailedYet' /\ MessageMailsOnce'
  BY <1>0, <1>1, <1>2 DEF HoldsMessage, NotMailedYet, MessageMailsOnce
<1>3. ASSUME topic[c] = "none", NEW t \in {"none", "unread"},
             topic' = [topic EXCEPT ![c] = t]
      PROVE  HoldsMessage' /\ NotMailedYet' /\ MessageMailsOnce'
  BY <1>0, <1>1, <1>3, CampaignAssumption DEF HoldsMessage, NotMailedYet, MessageMailsOnce
<1>4. CASE CreateCampaign(c)
  <2>1. UNCHANGED topic
    BY <1>4 DEF CreateCampaign
  <2>2. PublishedOnce'
    BY <1>4, <1>0, <2>1 DEF CreateCampaign, Writes, PublishedOnce
  <2>3. QED BY <2>1, <2>2, <1>2
<1>5. CASE DeleteCampaign(c)
  <2>1. UNCHANGED topic
    BY <1>5 DEF DeleteCampaign
  <2>2. PublishedOnce'
    BY <1>5, <1>0, <2>1 DEF DeleteCampaign, Writes, PublishedOnce
  <2>3. QED BY <2>1, <2>2, <1>2
<1>6. CASE MarkQueued(c)
  <2>1. UNCHANGED topic
    BY <1>6 DEF MarkQueued
  <2>2. PublishedOnce'
    BY <1>6, <1>0, <2>1 DEF MarkQueued, Writes, PublishedOnce
  <2>3. QED BY <2>1, <2>2, <1>2
<1>7. CASE MarkUnpublished(c)
  <2>1. UNCHANGED topic
    BY <1>7 DEF MarkUnpublished
  <2>2. PublishedOnce'
    BY <1>7, <1>0, <2>1 DEF MarkUnpublished, Writes, PublishedOnce
  <2>3. QED BY <2>1, <2>2, <1>2
<1>8. CASE NeverPublished(c)
  <2>1. UNCHANGED topic
    BY <1>8 DEF NeverPublished
  <2>2. PublishedOnce'
    BY <1>8, <1>0, <2>1 DEF NeverPublished, Writes, PublishedOnce
  <2>3. QED BY <2>1, <2>2, <1>2
<1>9. CASE Publish(c)
  <2>1. topic[c] = "none" /\ campaign[c] # "none"
    BY <1>9, <1>0 DEF Publish, PublishedOnce
  <2>2. PICK t \in {"none", "unread"} : topic' = [topic EXCEPT ![c] = t]
    BY <1>9 DEF Publish
  <2>3. PublishedOnce'
    BY <1>9, <1>0, <2>1, <2>2 DEF Publish, PublishedOnce
  <2>4. QED BY <2>1, <2>2, <2>3, <1>3
<1>10. CASE PublishFails(c)
  <2>1. topic[c] = "none" /\ campaign[c] # "none"
    BY <1>10, <1>0 DEF PublishFails, PublishedOnce
  <2>2. PICK t \in {"none", "unread"} : topic' = [topic EXCEPT ![c] = t]
    BY <1>10 DEF PublishFails
  <2>3. PublishedOnce'
    BY <1>10, <1>0, <2>1, <2>2 DEF PublishFails, PublishedOnce
  <2>4. QED BY <2>1, <2>2, <2>3, <1>3
<1>11. QED BY <1>4, <1>5, <1>6, <1>7, <1>8, <1>9, <1>10 DEF WebStep

\* A mailer publishes nothing, and creates no campaign.
LEMMA MailerPublishesNothing ==
    ASSUME OnceInv, NEW w \in Mailers, MailerActs(w)
    PROVE  PublishedOnce'
<1>0. /\ TypeInv /\ PublishedOnce /\ HasOperands(mailing[w])
      /\ campaign \in [Campaigns -> CampaignStatus]
      /\ topic \in [Campaigns -> Mailers \cup {"none", "unread", "done"}]
  BY DEF OnceInv, TypeInv, CampaignTypeOK, WorkHasOperands
<1>1. UNCHANGED publishing
  BY DEF MailerActs, MailerStep, MarkSending, GetRecipients, NoRecipients, TakeUpLead,
         CreateDelivery, SendCampaignMail, RecordDelivery, MarkContacted, FinishCampaign,
         TemplateRaises, CampaignMailFails, SessionBreaks, DeliveryRefused,
        Breaks, KillMailer, InterruptMailer,
         CommitOffsets, PartitionMoves, TakeCampaign, ConsumeInVain
<1>2. \A c \in Campaigns : campaign'[c] = "none" => campaign[c] = "none"
  <2>1. CASE MarkSending(w)
    BY <2>1, <1>0 DEF MarkSending
  <2>2. CASE NoRecipients(w) \/ FinishCampaign(w)
    BY <2>2, <1>0 DEF NoRecipients, FinishCampaign
  <2>3. CASE UNCHANGED campaign
    BY <2>3
  <2>4. QED
    BY <2>1, <2>2, <2>3
    DEF MailerActs, MailerStep, GetRecipients, TakeUpLead, CreateDelivery, SendCampaignMail,
        RecordDelivery, MarkContacted, TemplateRaises, CampaignMailFails, SessionBreaks, DeliveryRefused,
        Breaks,
        KillMailer, InterruptMailer, CommitOffsets, PartitionMoves, TakeCampaign,
        ConsumeInVain
<1>3. \A c \in Campaigns : topic[c] = "none" => topic'[c] = "none"
  <2>1. CASE \/ \E c \in Campaigns : TakeCampaign(w, c) \/ ConsumeInVain(w, c)
             \/ CommitOffsets(w) \/ KillMailer(w) \/ InterruptMailer(w) \/ PartitionMoves(w)
    BY <2>1, <1>0, CampaignAssumption
    DEF TakeCampaign, ConsumeInVain, CommitOffsets, KillMailer, InterruptMailer,
        PartitionMoves
  <2>2. CASE UNCHANGED topic
    BY <2>2
  <2>3. QED
    BY <2>1, <2>2
    DEF MailerActs, MailerStep, MarkSending, GetRecipients, NoRecipients, TakeUpLead,
        CreateDelivery, SendCampaignMail, RecordDelivery, MarkContacted, FinishCampaign,
        TemplateRaises, CampaignMailFails, SessionBreaks, DeliveryRefused, Breaks
<1>4. QED BY <1>0, <1>1, <1>2, <1>3 DEF PublishedOnce

\* The three parts that a step of a mailer may disturb.
Once == HoldsMessage /\ NotMailedYet /\ MessageMailsOnce

\* A mailer that goes on with its campaign, or stops.
LEMMA GoesOn ==
    ASSUME Once, NEW w \in Mailers, UNCHANGED <<topic, mailed, redelivered>>,
           \A v \in Mailers \ {w} : mailing'[v] = mailing[v],
           \/ mailing'[w].at \notin Working
           \/ /\ mailing[w].at \in Working /\ mailing'[w].on = mailing[w].on
              /\ \A l \in Leads : ToMail(mailing'[w], l) => ToMail(mailing[w], l)
    PROVE  Once'
<1>1. \A v \in Mailers, l \in Leads : ToMail(mailing'[v], l) => mailing'[v].at \in Working
  BY DEF ToMail, Working, AtLeads
<1>2. \A v \in Mailers :
        mailing'[v].at \in Working =>
            /\ mailing[v].at \in Working /\ mailing'[v].on = mailing[v].on
            /\ \A l \in Leads : ToMail(mailing'[v], l) => ToMail(mailing[v], l)
  OBVIOUS
<1>3. HoldsMessage'
  BY <1>2 DEF Once, HoldsMessage
<1>4. NotMailedYet'
  <2> SUFFICES ASSUME NEW c \in Campaigns \ redelivered, NEW l \in Leads
               PROVE  /\ topic[c] \in {"none", "unread"} => mailed[c][l] = 0
                      /\ \A v \in Mailers :
                            mailing'[v].on = c /\ ToMail(mailing'[v], l) => mailed[c][l] = 0
    BY DEF NotMailedYet, ToMail
  <2>1. QED BY <1>1, <1>2 DEF Once, NotMailedYet
<1>5. MessageMailsOnce'
  BY DEF Once, MessageMailsOnce
<1>6. QED BY <1>3, <1>4, <1>5 DEF Once

\* Resend takes a mail from a mailer that is at "send".
LEMMA MailsOnce ==
    ASSUME OnceInv, NEW w \in Mailers, SendCampaignMail(w) \/ CampaignMailFails(w)
    PROVE  Once'
<1> DEFINE c == mailing[w].on
           l == mailing[w].lead
<1>0. /\ TypeInv /\ Once /\ HasOperands(mailing[w])
      /\ mailing \in [Mailers -> Desks]
      /\ mailed \in [Campaigns -> [Leads -> Nat]]
      /\ topic \in [Campaigns -> Mailers \cup {"none", "unread", "done"}]
  BY DEF OnceInv, TypeInv, CampaignTypeOK, WorkHasOperands, Once
<1>1. /\ mailing[w].at = "send" /\ c \in Campaigns /\ l \in Leads
      /\ l \notin mailing[w].todo
  BY <1>0 DEF SendCampaignMail, CampaignMailFails, HasOperands, Working, AtLeads, InHand
<1>2. /\ \A v \in Mailers \ {w} : mailing'[v] = mailing[v]
      /\ mailing'[w].at \in {"sent", "failed"} /\ mailing'[w].on = c
      /\ mailing'[w].todo = mailing[w].todo
  BY <1>0 DEF SendCampaignMail, CampaignMailFails, Moves, Desks
<1>3. UNCHANGED <<topic, redelivered>>
  BY DEF SendCampaignMail, CampaignMailFails, historyOf
<1>4. PICK n \in {0, 1} : mailed' = [mailed EXCEPT ![c][l] = @ + n]
  BY <1>1 DEF SendCampaignMail, CampaignMailFails
<1>5. mailed[c] \in [Leads -> Nat] /\ mailed[c][l] \in Nat
  BY <1>0, <1>1
<1>6. /\ mailed'[c][l] = mailed[c][l] + n
      /\ \A d \in Campaigns, k \in Leads :
            d # c \/ k # l => mailed'[d][k] = mailed[d][k]
  BY <1>0, <1>1, <1>4, <1>5
<1>7. c \notin redelivered => mailed[c][l] = 0 /\ topic[c] = w
  BY <1>0, <1>1 DEF Once, NotMailedYet, ToMail, HoldsMessage, Working, AtLeads
<1>8. HoldsMessage'
  BY <1>0, <1>1, <1>2, <1>3 DEF Once, HoldsMessage, Working, AtLeads
<1>9. NotMailedYet'
  <2> SUFFICES ASSUME NEW d \in Campaigns \ redelivered, NEW k \in Leads
               PROVE  /\ topic[d] \in {"none", "unread"} => mailed'[d][k] = 0
                      /\ \A v \in Mailers :
                            mailing'[v].on = d /\ ToMail(mailing'[v], k) => mailed'[d][k] = 0
    BY <1>3 DEF NotMailedYet, ToMail
  <2>1. topic[d] \in {"none", "unread"} => mailed'[d][k] = 0
    BY <1>0, <1>6, <1>7, CampaignAssumption DEF Once, NotMailedYet
  <2>2. ASSUME NEW v \in Mailers, mailing'[v].on = d, ToMail(mailing'[v], k)
        PROVE  mailed'[d][k] = 0
    <3>1. CASE v = w
      <4>1. d = c /\ k \in mailing[w].todo /\ k # l
        BY <3>1, <2>2, <1>1, <1>2 DEF ToMail
      <4>2. ToMail(mailing[w], k)
        BY <4>1, <1>1 DEF ToMail, AtLeads
      <4>3. QED BY <4>1, <4>2, <1>0, <1>6 DEF Once, NotMailedYet
    <3>2. CASE v # w
      <4>1. mailing[v].on = d /\ ToMail(mailing[v], k)
        BY <3>2, <2>2, <1>2
      <4>2. d # c
        BY <4>1, <3>2, <1>0, <1>7 DEF Once, HoldsMessage, ToMail, Working, AtLeads
      <4>3. QED BY <4>1, <4>2, <1>0, <1>6 DEF Once, NotMailedYet
    <3>3. QED BY <3>1, <3>2
  <2>3. QED BY <2>1, <2>2
<1>10. MessageMailsOnce'
  <2> SUFFICES ASSUME NEW d \in Campaigns \ redelivered, NEW k \in Leads
               PROVE  mailed'[d][k] <= 1
    BY <1>3 DEF MessageMailsOnce
  <2>1. QED BY <1>0, <1>5, <1>6, <1>7 DEF Once, MessageMailsOnce
<1>11. QED BY <1>8, <1>9, <1>10 DEF Once

\* A message changes hands.
LEMMA TopicOnce ==
    ASSUME OnceInv, NEW w \in Mailers,
           \/ \E c \in Campaigns : TakeCampaign(w, c) \/ ConsumeInVain(w, c)
           \/ CommitOffsets(w) \/ KillMailer(w) \/ InterruptMailer(w) \/ PartitionMoves(w)
    PROVE  Once'
<1>0. /\ TypeInv /\ Once /\ mailing \in [Mailers -> Desks]
      /\ campaign \in [Campaigns -> CampaignStatus]
      /\ topic \in [Campaigns -> Mailers \cup {"none", "unread", "done"}]
  BY DEF OnceInv, TypeInv, CampaignTypeOK, Once
<1>1. redelivered \subseteq redelivered' /\ UNCHANGED mailed
  BY DEF TakeCampaign, ConsumeInVain, CommitOffsets, KillMailer, InterruptMailer,
         PartitionMoves, mailVarsOf, historyOf
<1>2. MessageMailsOnce'
  BY <1>0, <1>1 DEF Once, MessageMailsOnce
\* The other mailers, and w if it goes on, hold what they hold.
<1>3. ASSUME NEW c \in Campaigns \ redelivered', NEW v \in Mailers, mailing'[v].at \in Working,
             mailing'[v].on = c
      PROVE  /\ topic'[c] = v
             /\ \A l \in Leads : ToMail(mailing'[v], l) => mailed[c][l] = 0
  <2>1. CASE \E d \in Campaigns : TakeCampaign(w, d)
    <3>0. PICK d \in Campaigns : TakeCampaign(w, d)
      BY <2>1
    <3>1. CASE v = w
      <4>0. mailing[w] \in Desks /\ mailing[w].at \notin Working
        BY <3>0, <1>0 DEF TakeCampaign, Working, AtLeads
      <4>1. d = c /\ mailing'[w].at = "begin"
        <5>1. mailing' = [mailing EXCEPT ![w] =
                  [mailing[w] EXCEPT !.at = "begin", !.on = d, !.saw = campaign[d]]]
          BY <3>0, <3>1, <4>0, <1>3 DEF TakeCampaign
        <5>2. mailing'[w].at = "begin" /\ mailing'[w].on = d
          BY <5>1, <4>0, <1>0 DEF Desks
        <5>3. QED BY <5>2, <3>1, <1>3
      <4>2. \A l \in Leads : mailed[c][l] = 0
        BY <4>1, <3>0, <1>0, <1>1 DEF TakeCampaign, Once, NotMailedYet
      <4>3. QED BY <4>1, <4>2, <3>0, <3>1, <1>0 DEF TakeCampaign
    <3>2. CASE v # w
      <4>1. mailing'[v] = mailing[v]
        BY <3>0, <3>2, <1>0 DEF TakeCampaign
      <4>2. topic[c] = v /\ \A l \in Leads : ToMail(mailing'[v], l) => mailed[c][l] = 0
        BY <4>1, <1>0, <1>1, <1>3 DEF Once, HoldsMessage, NotMailedYet
      <4>3. d # c
        BY <4>2, <3>0, CampaignAssumption DEF TakeCampaign
      <4>4. QED BY <4>2, <4>3, <3>0, <1>0 DEF TakeCampaign
    <3>3. QED BY <3>1, <3>2
  <2>2. CASE ~\E d \in Campaigns : TakeCampaign(w, d)
    <3>1. /\ mailing'[v] = mailing[v]
          /\ KillMailer(w) \/ InterruptMailer(w) \/ CommitOffsets(w) => v # w
      BY <2>2, <1>0, <1>3
      DEF ConsumeInVain, CommitOffsets, KillMailer, InterruptMailer, PartitionMoves,
          mailVarsOf, Rests, NotMailing, Working, AtLeads
    <3>2. topic[c] = v /\ \A l \in Leads : ToMail(mailing'[v], l) => mailed[c][l] = 0
      BY <3>1, <1>0, <1>1, <1>3 DEF Once, HoldsMessage, NotMailedYet
    <3>3. topic'[c] = v
      BY <3>1, <3>2, <2>2, <1>0, <1>3, CampaignAssumption
      DEF ConsumeInVain, CommitOffsets, KillMailer, InterruptMailer, PartitionMoves
    <3>4. QED BY <3>2, <3>3
  <2>3. QED BY <2>1, <2>2
<1>4. ASSUME NEW c \in Campaigns \ redelivered', NEW l \in Leads,
             topic'[c] \in {"none", "unread"}
      PROVE  mailed[c][l] = 0
  <2>1. topic[c] \in {"none", "unread"}
    BY <1>0, <1>4, CampaignAssumption
    DEF TakeCampaign, ConsumeInVain, CommitOffsets, KillMailer, InterruptMailer,
        PartitionMoves
  <2>2. QED BY <2>1, <1>0, <1>1 DEF Once, NotMailedYet
<1>5. HoldsMessage'
  BY <1>3 DEF HoldsMessage
<1>6. \A v \in Mailers, l \in Leads : ToMail(mailing'[v], l) => mailing'[v].at \in Working
  BY DEF ToMail, Working, AtLeads
<1>7. NotMailedYet'
  <2> SUFFICES ASSUME NEW c \in Campaigns \ redelivered', NEW l \in Leads
               PROVE  /\ topic'[c] \in {"none", "unread"} => mailed[c][l] = 0
                      /\ \A v \in Mailers :
                            mailing'[v].on = c /\ ToMail(mailing'[v], l) => mailed[c][l] = 0
    BY <1>1 DEF NotMailedYet, ToMail
  <2>1. QED BY <1>3, <1>4, <1>6
<1>8. QED BY <1>2, <1>5, <1>7 DEF Once

LEMMA MailerOnce ==
    ASSUME OnceInv, NEW w \in Mailers, MailerActs(w)
    PROVE  Once'
<1>0. /\ TypeInv /\ Once /\ mailing \in [Mailers -> Desks] /\ mailing[w] \in Desks
      /\ contacted \subseteq Leads
  BY DEF OnceInv, TypeInv, CampaignTypeOK, Once
<1>1. CASE \/ \E c \in Campaigns : TakeCampaign(w, c) \/ ConsumeInVain(w, c)
           \/ CommitOffsets(w) \/ KillMailer(w) \/ InterruptMailer(w) \/ PartitionMoves(w)
  BY <1>1, TopicOnce
<1>2. CASE SendCampaignMail(w) \/ CampaignMailFails(w)
  BY <1>2, MailsOnce
<1>3. CASE \/ NoRecipients(w) \/ FinishCampaign(w) \/ SessionBreaks(w) \/ DeliveryRefused(w)
  <2>1. /\ mailing'[w].at \notin Working
        /\ \A v \in Mailers \ {w} : mailing'[v] = mailing[v]
        /\ UNCHANGED <<topic, mailed, redelivered>>
    BY <1>3, <1>0 DEF NoRecipients, FinishCampaign, SessionBreaks, DeliveryRefused,
                      Breaks, Rests, NotMailing,
                      Working, AtLeads, historyOf
  <2>2. QED BY <2>1, <1>0, GoesOn
<1>4. ASSUME UNCHANGED <<topic, mailed, redelivered>>,
             \A v \in Mailers \ {w} : mailing'[v] = mailing[v],
             mailing[w].at \in Working, mailing'[w].on = mailing[w].on,
             \A l \in Leads : ToMail(mailing'[w], l) => ToMail(mailing[w], l)
      PROVE  Once'
  BY <1>0, <1>4, GoesOn
<1>5. CASE MarkSending(w)
  <2>1. /\ UNCHANGED <<topic, mailed, redelivered>>
        /\ \A v \in Mailers \ {w} : mailing'[v] = mailing[v]
        /\ mailing[w].at \in Working /\ mailing'[w].on = mailing[w].on
    BY <1>5, <1>0 DEF MarkSending, Desks, Working, AtLeads, historyOf
  <2>2. \A l \in Leads : ToMail(mailing'[w], l) => ToMail(mailing[w], l)
    BY <1>5, <1>0 DEF MarkSending, Desks, ToMail, AtLeads
  <2>3. QED BY <2>1, <2>2, <1>4
<1>6. CASE GetRecipients(w)
  <2>1. /\ UNCHANGED <<topic, mailed, redelivered>>
        /\ \A v \in Mailers \ {w} : mailing'[v] = mailing[v]
        /\ mailing[w].at \in Working /\ mailing'[w].on = mailing[w].on
    BY <1>6, <1>0 DEF GetRecipients, Desks, Working, AtLeads, historyOf
  <2>2. \A l \in Leads : ToMail(mailing'[w], l) => ToMail(mailing[w], l)
    BY <1>6, <1>0 DEF GetRecipients, Desks, ToMail, AtLeads
  <2>3. QED BY <2>1, <2>2, <1>4
<1>7. CASE \E l \in Leads : TakeUpLead(w, l)
  <2>1. /\ UNCHANGED <<topic, mailed, redelivered>>
        /\ \A v \in Mailers \ {w} : mailing'[v] = mailing[v]
        /\ mailing[w].at \in Working /\ mailing'[w].on = mailing[w].on
    BY <1>7, <1>0 DEF TakeUpLead, Desks, Working, AtLeads, historyOf
  <2>2. \A l \in Leads : ToMail(mailing'[w], l) => ToMail(mailing[w], l)
    BY <1>7, <1>0 DEF TakeUpLead, Desks, ToMail, AtLeads
  <2>3. QED BY <2>1, <2>2, <1>4
<1>8. CASE CreateDelivery(w)
  <2>1. /\ UNCHANGED <<topic, mailed, redelivered>>
        /\ \A v \in Mailers \ {w} : mailing'[v] = mailing[v]
        /\ mailing[w].at \in Working /\ mailing'[w].on = mailing[w].on
    BY <1>8, <1>0 DEF CreateDelivery, Moves, Desks, Working, AtLeads, historyOf
  <2>2. \A l \in Leads : ToMail(mailing'[w], l) => ToMail(mailing[w], l)
    BY <1>8, <1>0 DEF CreateDelivery, Moves, Desks, ToMail, AtLeads
  <2>3. QED BY <2>1, <2>2, <1>4
<1>9. CASE RecordDelivery(w)
  <2>1. /\ UNCHANGED <<topic, mailed, redelivered>>
        /\ \A v \in Mailers \ {w} : mailing'[v] = mailing[v]
        /\ mailing[w].at \in Working /\ mailing'[w].on = mailing[w].on
    BY <1>9, <1>0 DEF RecordDelivery, Desks, Working, AtLeads, historyOf
  <2>2. \A l \in Leads : ToMail(mailing'[w], l) => ToMail(mailing[w], l)
    BY <1>9, <1>0 DEF RecordDelivery, Desks, ToMail, AtLeads
  <2>3. QED BY <2>1, <2>2, <1>4
<1>10. CASE MarkContacted(w)
  <2>1. /\ UNCHANGED <<topic, mailed, redelivered>>
        /\ \A v \in Mailers \ {w} : mailing'[v] = mailing[v]
        /\ mailing[w].at \in Working /\ mailing'[w].on = mailing[w].on
    BY <1>10, <1>0 DEF MarkContacted, Moves, Desks, Working, AtLeads, historyOf
  <2>2. \A l \in Leads : ToMail(mailing'[w], l) => ToMail(mailing[w], l)
    BY <1>10, <1>0 DEF MarkContacted, Moves, Desks, ToMail, AtLeads
  <2>3. QED BY <2>1, <2>2, <1>4
<1>11. CASE TemplateRaises(w)
  <2>1. /\ UNCHANGED <<topic, mailed, redelivered>>
        /\ \A v \in Mailers \ {w} : mailing'[v] = mailing[v]
        /\ mailing[w].at \in Working /\ mailing'[w].on = mailing[w].on
    BY <1>11, <1>0 DEF TemplateRaises, Desks, Working, AtLeads, historyOf
  <2>2. \A l \in Leads : ToMail(mailing'[w], l) => ToMail(mailing[w], l)
    BY <1>11, <1>0 DEF TemplateRaises, Desks, ToMail, AtLeads
  <2>3. QED BY <2>1, <2>2, <1>4
<1>12. QED
  BY <1>1, <1>2, <1>3, <1>5, <1>6, <1>7, <1>8, <1>9, <1>10, <1>11
  DEF MailerActs, MailerStep

LEMMA OnceStep == OnceInv /\ [CampaignNext]_campaignVars => OnceInv'
<1> SUFFICES ASSUME OnceInv, [CampaignNext]_campaignVars PROVE OnceInv'
  OBVIOUS
<1>0. TypeInv /\ TypeInv'
  BY TypeStep DEF OnceInv, TypeInv
<1>1. CASE \E c \in Campaigns : \/ CreateCampaign(c) \/ DeleteCampaign(c) \/ WebStep(c)
                                \/ PublishFails(c) \/ NeverPublished(c)
  BY <1>0, <1>1, WebOnce DEF OnceInv, TypeInv
<1>2. ASSUME UNCHANGED <<campaign, publishing, topic, mailing, mailed, redelivered>>
      PROVE  OnceInv'
  BY <1>0, <1>2
  DEF OnceInv, TypeInv, PublishedOnce, HoldsMessage, NotMailedYet, ToMail, MessageMailsOnce
<1>3. CASE \E c \in Campaigns, l \in Leads : Unsubscribe(c, l) \/ Resubscribe(c, l)
  BY <1>2, <1>3 DEF Unsubscribe, Resubscribe, mailVarsOf, historyOf
<1>4. CASE \E w \in Mailers : MailerActs(w)
  BY <1>0, <1>4, MailerOnce, MailerPublishesNothing DEF OnceInv, TypeInv, Once
<1>5. CASE UNCHANGED campaignVars
  BY <1>2, <1>5 DEF campaignVars
<1>6. CASE CampaignNext
  BY <1>1, <1>3, <1>4, <1>6, Steps
<1>7. QED BY <1>5, <1>6

-----------------------------------------------------------------------------
(* Nor with the index, whoever works on a campaign *)

Sends(d, c, l) == d.at = "send" /\ d.on = c /\ d.lead = l

\* A row comes before its mail and has one mailer that may send it.
RowBeforeMail(c, l) ==
    /\ RowsOf(c, l) >= 0 /\ mailed[c][l] <= 1
    /\ mailed[c][l] > 0 => RowsOf(c, l) > 0
    /\ \A w \in Mailers :
          Sends(mailing[w], c, l) =>
              /\ RowsOf(c, l) > 0 /\ mailed[c][l] = 0
              /\ \A v \in Mailers : Sends(mailing[v], c, l) => v = w

RowsBeforeMails ==
    DeliveriesUnique => \A c \in Campaigns, l \in Leads : RowBeforeMail(c, l)

RowInv == TypeInv /\ RowsBeforeMails

LEMMA RowInit == CampaignInit => RowInv
<1> SUFFICES ASSUME CampaignInit PROVE RowsBeforeMails
  BY TypeInit DEF RowInv
<1>1. QED
  BY DEF CampaignInit, RowsBeforeMails, RowBeforeMail, RowsOf, Sends, NotMailing,
         DeliveryStatus

\* Rows are not removed.
LEMMA RowsStay ==
    ASSUME TypeInv, NEW w \in Mailers, MailerActs(w), NEW c \in Campaigns, NEW l \in Leads
    PROVE  /\ RowsOf(c, l) \in Int /\ RowsOf(c, l)' \in Int /\ RowsOf(c, l)' >= RowsOf(c, l)
           /\ CreateDelivery(w) /\ c = mailing[w].on /\ l = mailing[w].lead
                 => RowsOf(c, l)' = RowsOf(c, l) + 1
<1> DEFINE d == mailing[w]
<1>1. /\ deliveries \in [Campaigns -> [Leads -> [DeliveryStatus -> Int]]]
      /\ deliveries[c] \in [Leads -> [DeliveryStatus -> Int]]
      /\ deliveries[c][l] \in [DeliveryStatus -> Int]
      /\ \A s \in DeliveryStatus : deliveries[c][l][s] \in Int
      /\ RowsOf(c, l) \in Int
  BY DEF TypeInv, CampaignTypeOK, DeliveryStatus, RowsOf
<1>2. CASE UNCHANGED deliveries
  <2>1. ~CreateDelivery(w) \/ d.on # c \/ d.lead # l
    <3> SUFFICES ASSUME CreateDelivery(w), d.on = c, d.lead = l PROVE FALSE
      OBVIOUS
    <3>1. deliveries'[c][l]["pending"] = deliveries[c][l]["pending"] + 1
      BY <1>1 DEF CreateDelivery, DeliveryStatus
    <3>2. QED BY <3>1, <1>1, <1>2 DEF DeliveryStatus
  <2>2. QED BY <1>1, <1>2, <2>1 DEF RowsOf
<1>3. CASE CreateDelivery(w) \/ RecordDelivery(w)
  <2>0. d.on \in Campaigns /\ d.lead \in Leads
    BY <1>3 DEF TypeInv, WorkHasOperands, CreateDelivery, RecordDelivery, HasOperands,
                Working, AtLeads, InHand
  <2>1. CASE d.on = c /\ d.lead = l
    <3>1. CASE CreateDelivery(w)
      BY <3>1, <2>1, <1>1 DEF CreateDelivery, RowsOf, DeliveryStatus
    <3>2. CASE RecordDelivery(w)
      <4>1. ~CreateDelivery(w)
        BY <3>2 DEF CreateDelivery, RecordDelivery
      <4>2. PICK s \in {"sent", "failed"} :
              deliveries'[c][l] = [deliveries[c][l] EXCEPT !["pending"] = @ - 1, ![s] = @ + 1]
        BY <3>2, <2>1, <1>1 DEF RecordDelivery, DeliveryStatus
      <4>3. QED BY <4>1, <4>2, <1>1 DEF RowsOf, DeliveryStatus
    <3>3. QED BY <3>1, <3>2, <1>3
  <2>2. CASE ~(d.on = c /\ d.lead = l)
    <3>1. deliveries'[c][l] = deliveries[c][l]
      BY <1>3, <2>2, <2>0, <1>1, OtherCellsStay
    <3>2. QED BY <3>1, <2>2, <1>1 DEF RowsOf
  <2>3. QED BY <2>1, <2>2
<1>4. QED
  BY <1>2, <1>3
  DEF MailerActs, MailerStep, MarkSending, GetRecipients, NoRecipients, TakeUpLead,
      DeliveryRefused, Breaks, SendCampaignMail, MarkContacted, FinishCampaign,
      TemplateRaises, CampaignMailFails, SessionBreaks, KillMailer, InterruptMailer,
      CommitOffsets, PartitionMoves, TakeCampaign, ConsumeInVain, mailVarsOf

LEMMA MailerRows ==
    ASSUME RowInv, NEW w \in Mailers, MailerActs(w)
    PROVE  RowsBeforeMails'
<1> DEFINE d == mailing[w]
<1>0. /\ TypeInv /\ mailing \in [Mailers -> Desks] /\ d \in Desks /\ HasOperands(d)
      /\ mailed \in [Campaigns -> [Leads -> Nat]]
  BY DEF RowInv, TypeInv, CampaignTypeOK, WorkHasOperands
<1> SUFFICES ASSUME DeliveriesUnique, NEW c \in Campaigns, NEW l \in Leads
             PROVE  RowBeforeMail(c, l)'
  BY DEF RowsBeforeMails
<1>1. RowBeforeMail(c, l) /\ mailed[c] \in [Leads -> Nat] /\ mailed[c][l] \in Nat
  BY <1>0 DEF RowInv, RowsBeforeMails
<1>2. /\ RowsOf(c, l) \in Int /\ RowsOf(c, l)' \in Int /\ RowsOf(c, l)' >= RowsOf(c, l)
      /\ CreateDelivery(w) /\ c = d.on /\ l = d.lead => RowsOf(c, l)' = RowsOf(c, l) + 1
  BY <1>0, RowsStay
<1>3. \A v \in Mailers \ {w} : mailing'[v] = mailing[v]
  BY <1>0, DeskSteps
  DEF MailerActs, CommitOffsets, PartitionMoves, ConsumeInVain, mailVarsOf
<1>4. ASSUME UNCHANGED mailed, Sends(mailing'[w], c, l) => Sends(d, c, l)
      PROVE  RowBeforeMail(c, l)'
  BY <1>1, <1>2, <1>3, <1>4 DEF RowBeforeMail, Sends
<1>5. CASE CreateDelivery(w)
  <2>1. /\ UNCHANGED mailed /\ ~Refused(d.on, d.lead) /\ d.at = "create"
        /\ mailing'[w].at = "send" /\ mailing'[w].on = d.on /\ mailing'[w].lead = d.lead
    BY <1>5, <1>0 DEF CreateDelivery, Moves, Desks
  <2>2. CASE c = d.on /\ l = d.lead
    <3>1. RowsOf(c, l) = 0 /\ RowsOf(c, l)' > 0
      BY <2>1, <2>2, <1>1, <1>2, <1>5 DEF Refused, RowBeforeMail
    <3>2. mailed[c][l] = 0 /\ \A v \in Mailers : ~Sends(mailing[v], c, l)
      BY <3>1, <1>1 DEF RowBeforeMail
    <3>3. QED BY <3>1, <3>2, <2>1, <1>2, <1>3 DEF RowBeforeMail, Sends
  <2>3. CASE ~(c = d.on /\ l = d.lead)
    BY <2>1, <2>3, <1>4 DEF Sends
  <2>4. QED BY <2>2, <2>3
<1>6. CASE SendCampaignMail(w) \/ CampaignMailFails(w)
  <2>1. d.on \in Campaigns /\ d.lead \in Leads /\ d.at = "send"
    BY <1>6, <1>0
    DEF SendCampaignMail, CampaignMailFails, HasOperands, Working, AtLeads, InHand
  <2>2. mailing'[w].at \in {"sent", "failed"}
    BY <1>6, <1>0 DEF SendCampaignMail, CampaignMailFails, Moves, Desks
  <2>3. PICK n \in {0, 1} : mailed' = [mailed EXCEPT ![d.on][d.lead] = @ + n]
    BY <1>6 DEF SendCampaignMail, CampaignMailFails
  <2>4. CASE c = d.on /\ l = d.lead
    <3>1. RowsOf(c, l) > 0 /\ mailed[c][l] = 0 /\ Sends(d, c, l)
      BY <2>1, <2>4, <1>1 DEF RowBeforeMail, Sends
    <3>2. mailed'[c][l] = n
      BY <2>3, <2>4, <3>1, <1>0, <1>1
    <3>3. \A v \in Mailers : ~Sends(mailing'[v], c, l)
      BY <3>1, <2>2, <1>1, <1>3 DEF RowBeforeMail, Sends
    <3>4. QED BY <3>1, <3>2, <3>3, <1>2 DEF RowBeforeMail
  <2>5. CASE ~(c = d.on /\ l = d.lead)
    <3>1. mailed'[c][l] = mailed[c][l]
      BY <2>1, <2>3, <2>5, <1>0, <1>1
    <3>2. ~Sends(mailing'[w], c, l)
      BY <2>2 DEF Sends
    <3>3. QED BY <3>1, <3>2, <1>1, <1>2, <1>3 DEF RowBeforeMail
  <2>6. QED BY <2>4, <2>5
<1>7. CASE UNCHANGED mailing /\ UNCHANGED mailed
  BY <1>7, <1>4
<1>8. CASE \/ MarkSending(w) \/ GetRecipients(w) \/ NoRecipients(w) \/ FinishCampaign(w)
           \/ \E k \in Leads : TakeUpLead(w, k)
           \/ RecordDelivery(w) \/ MarkContacted(w) \/ DeliveryRefused(w)
  <2>1. CASE MarkSending(w) \/ GetRecipients(w)
    <3>1. UNCHANGED mailed /\ mailing'[w].at # "send"
      BY <2>1, <1>0 DEF MarkSending, GetRecipients, Desks
    <3>2. QED BY <3>1, <1>4 DEF Sends
  <2>2. CASE NoRecipients(w) \/ FinishCampaign(w) \/ DeliveryRefused(w)
    <3>1. UNCHANGED mailed /\ mailing'[w].at # "send"
      BY <2>2, <1>0 DEF NoRecipients, FinishCampaign, DeliveryRefused, Breaks, Rests,
                        NotMailing
    <3>2. QED BY <3>1, <1>4 DEF Sends
  <2>3. CASE \E k \in Leads : TakeUpLead(w, k)
    <3>1. UNCHANGED mailed /\ mailing'[w].at # "send"
      BY <2>3, <1>0 DEF TakeUpLead, Desks
    <3>2. QED BY <3>1, <1>4 DEF Sends
  <2>4. CASE RecordDelivery(w) \/ MarkContacted(w)
    <3>1. UNCHANGED mailed /\ mailing'[w].at # "send"
      BY <2>4, <1>0 DEF RecordDelivery, MarkContacted, Moves, Desks
    <3>2. QED BY <3>1, <1>4 DEF Sends
  <2>5. QED BY <1>8, <2>1, <2>2, <2>3, <2>4
<1>9. CASE \/ TemplateRaises(w) \/ SessionBreaks(w) \/ KillMailer(w) \/ InterruptMailer(w)
  <2>1. UNCHANGED mailed /\ mailing'[w].at # "send"
    BY <1>9, <1>0
    DEF TemplateRaises, SessionBreaks, Breaks, KillMailer, InterruptMailer, Rests,
        NotMailing, Desks
  <2>2. QED BY <2>1, <1>4 DEF Sends
<1>10. CASE \E k \in Campaigns : TakeCampaign(w, k)
  <2>1. UNCHANGED mailed /\ (UNCHANGED mailing \/ mailing'[w].at # "send")
    BY <1>10, <1>0 DEF TakeCampaign, Desks
  <2>2. QED BY <2>1, <1>4 DEF Sends
<1>11. CASE \/ CommitOffsets(w) \/ PartitionMoves(w)
            \/ \E k \in Campaigns : ConsumeInVain(w, k)
  BY <1>11, <1>7 DEF CommitOffsets, PartitionMoves, ConsumeInVain, mailVarsOf
<1>12. QED
  BY <1>5, <1>6, <1>8, <1>9, <1>10, <1>11 DEF MailerActs, MailerStep

LEMMA RowStep == RowInv /\ [CampaignNext]_campaignVars => RowInv'
<1> SUFFICES ASSUME RowInv, [CampaignNext]_campaignVars PROVE RowInv'
  OBVIOUS
<1>0. TypeInv /\ TypeInv'
  BY TypeStep DEF RowInv
<1>1. ASSUME UNCHANGED <<mailing, deliveries, mailed>> PROVE RowInv'
  BY <1>0, <1>1 DEF RowInv, RowsBeforeMails, RowBeforeMail, RowsOf
<1>2. CASE \E c \in Campaigns : \/ CreateCampaign(c) \/ DeleteCampaign(c) \/ WebStep(c)
                                \/ PublishFails(c) \/ NeverPublished(c)
  BY <1>0, <1>1, <1>2, WebSteps
<1>3. CASE \E c \in Campaigns, l \in Leads : Unsubscribe(c, l) \/ Resubscribe(c, l)
  BY <1>1, <1>3 DEF Unsubscribe, Resubscribe, mailVarsOf
<1>4. CASE \E w \in Mailers : MailerActs(w)
  BY <1>0, <1>4, MailerRows DEF RowInv
<1>5. CASE UNCHANGED campaignVars
  BY <1>1, <1>5 DEF campaignVars
<1>6. CASE CampaignNext
  BY <1>2, <1>3, <1>4, <1>6, Steps
<1>7. QED BY <1>5, <1>6

\* MailedOnce: nobody is mailed a campaign twice, for any number of mailers at
\* work; without the index, as long as Kafka has not handed its message out again
\* (process_campaign).
THEOREM CampaignMailsOnce == CampaignSpec => []MailedOnce
<1>1. OnceInv /\ RowInv => MailedOnce
  BY DEF OnceInv, MessageMailsOnce, RowInv, RowsBeforeMails, RowBeforeMail, MailedOnce
<1>2. QED BY <1>1, OnceInit, OnceStep, RowInit, RowStep, PTL DEF CampaignSpec
=============================================================================
