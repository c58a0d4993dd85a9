--------------------------- MODULE SponsorCampaigns ---------------------------
(***************************************************************************)
(* The mail campaigns of one sponsor: a web handler files a campaign and   *)
(* publishes it to Kafka, a worker of the consumer group mails it to the   *)
(* sponsor's leads one after the other (sponsor_campaigns.py,              *)
(* campaign_email_worker.py of event-lifecycle-service).                   *)
(*                                                                         *)
(* A worker commits after each query that writes, and handles one message *)
(* at a time.  It does not write the status that it believes a row to have *)
(* (SQLAlchemy leaves unchanged attributes out of an UPDATE).  Kafka hands *)
(* a message out again when its worker dies before the offset was          *)
(* committed, or is busy for longer than the poll interval.  The worker's  *)
(* Session is never rolled back: after one error every query on it fails.  *)
(*                                                                         *)
(* The table of deliveries is made by the service when it starts, as the   *)
(* model class says, or by a migration that adds a unique index on         *)
(* campaign and lead; DeliveriesUnique says which.                         *)
(*                                                                         *)
(* A lead has an address and is in the audience, unless the audience is    *)
(* "new" and the lead has been contacted.  Texts, intent levels and the    *)
(* counts of deliveries, opens and clicks are left out; a lead's follow-up *)
(* status is not put back to "new".                                        *)
(***************************************************************************)
EXTENDS Integers

CONSTANTS
    Campaigns,
    ForNewLeads,       \* campaigns whose audience_type is "new"
    Leads,
    Mailers,           \* worker processes
    DeliveriesUnique,  \* the table has the index of the migration
    MaxCampaignFaults  \* errors, stops, and messages handed out again

ASSUME CampaignAssumption ==
    /\ ForNewLeads \subseteq Campaigns
    /\ DeliveriesUnique \in BOOLEAN
    /\ MaxCampaignFaults \in Nat
    /\ Mailers \cap {"none", "unread", "done"} = {}
    /\ "none" \notin Campaigns \cup Leads

VARIABLES
    campaign,     \* campaign[c]: status of the row, "none" without one
    publishing,   \* publishing[c]: what its web handler does next
    topic,        \* topic[c]: its message: unread, with a mailer, done
    mailing,      \* mailing[w]: what mailer w is at
    deliveries,   \* deliveries[c][l][s]: how many rows of l are in status s
    mailed,       \* mailed[c][l]: how many mails Resend took
    optedOut,     \* optedOut[c][l]: how many rows have unsubscribed_at
    contacted,    \* leads whose follow_up_status is not "new"
    spared,       \* spared[c]: leads passed over: unsubscribed, or no text
    redelivered,  \* campaigns whose message was handed out again
    lost,         \* campaigns whose message was consumed and not worked off
    campaignFaults

campaignVars == <<campaign, publishing, topic, mailing, deliveries, mailed,
                  optedOut, contacted, spared, redelivered, lost,
                  campaignFaults>>

\* What the web handlers, and what the mailers, leave alone.
mailVarsOf == <<mailing, deliveries, mailed, contacted, spared>>
historyOf == <<redelivered, lost, campaignFaults>>

\* saw: the status of the row as loaded; outcomes: what the counters say.
NotMailing == [at |-> "idle", on |-> "none", saw |-> "none", todo |-> {},
               lead |-> "none", outcomes |-> {}]

DeliveryStatus == {"pending", "sent", "failed"}

CampaignInit ==
    /\ campaign = [c \in Campaigns |-> "none"]
    /\ publishing = [c \in Campaigns |-> "nothing"]
    /\ topic = [c \in Campaigns |-> "none"]
    /\ mailing = [w \in Mailers |-> NotMailing]
    /\ deliveries = [c \in Campaigns |->
                        [l \in Leads |-> [s \in DeliveryStatus |-> 0]]]
    /\ mailed = [c \in Campaigns |-> [l \in Leads |-> 0]]
    /\ optedOut = [c \in Campaigns |-> [l \in Leads |-> 0]]
    /\ contacted = {}
    /\ spared = [c \in Campaigns |-> {}]
    /\ redelivered = {}
    /\ lost = {}
    /\ campaignFaults = 0

CampaignFault ==
    /\ campaignFaults < MaxCampaignFaults
    /\ campaignFaults' = campaignFaults + 1

Audience(c) == IF c \in ForNewLeads THEN Leads \ contacted ELSE Leads

-----------------------------------------------------------------------------
(* The web handlers.  Each step ends in a commit or an answer of Kafka. *)

Writes(c, status, next) ==
    /\ campaign' = [campaign EXCEPT ![c] = status]
    /\ publishing' = [publishing EXCEPT ![c] = next]

\* A campaign for later stays a draft: nothing looks at scheduled_at.
CreateCampaign(c) ==
    /\ campaign[c] = "none"
    /\ Audience(c) # {}
    /\ \E next \in {"queue", "nothing"} : Writes(c, "draft", next)
    /\ UNCHANGED <<topic, mailVarsOf, optedOut, historyOf>>

\* In another process, or later.
DeleteCampaign(c) ==
    /\ campaign[c] = "draft"
    /\ campaign' = [campaign EXCEPT ![c] = "deleted"]
    /\ UNCHANGED <<publishing, topic, mailVarsOf, optedOut, historyOf>>

MarkQueued(c) ==
    /\ publishing[c] = "queue"
    /\ IF campaign[c] = "deleted" THEN Writes(c, "deleted", "nothing")
                                  ELSE Writes(c, "queued", "send")
    /\ UNCHANGED <<topic, mailVarsOf, optedOut, historyOf>>

Publish(c) ==
    /\ publishing[c] = "send"
    /\ topic' = [topic EXCEPT ![c] = "unread"]
    /\ publishing' = [publishing EXCEPT ![c] = "nothing"]
    /\ UNCHANGED <<campaign, mailVarsOf, optedOut, historyOf>>

\* No answer within ten seconds, whether or not Kafka has the message.
PublishFails(c) ==
    /\ CampaignFault
    /\ publishing[c] = "send"
    /\ \E there \in {"none", "unread"} : topic' = [topic EXCEPT ![c] = there]
    /\ publishing' = [publishing EXCEPT ![c] = "fail"]
    /\ UNCHANGED <<campaign, mailVarsOf, optedOut, redelivered, lost>>

\* Whatever a mailer has made of it meanwhile.
MarkUnpublished(c) ==
    /\ publishing[c] = "fail"
    /\ Writes(c, "failed", "nothing")
    /\ UNCHANGED <<topic, mailVarsOf, optedOut, historyOf>>

\* The process stops, or has no producer: the row stays as it is.
NeverPublished(c) ==
    /\ CampaignFault
    /\ publishing[c] # "nothing"
    /\ publishing' = [publishing EXCEPT ![c] = "nothing"]
    /\ UNCHANGED <<campaign, topic, mailVarsOf, optedOut, redelivered, lost>>

\* The links of a mail name its delivery; only that row is written.
Unsubscribe(c, l) ==
    /\ optedOut[c][l] < mailed[c][l]
    /\ optedOut' = [optedOut EXCEPT ![c][l] = @ + 1]
    /\ UNCHANGED <<campaign, publishing, topic, mailVarsOf, historyOf>>

Resubscribe(c, l) ==
    /\ optedOut[c][l] > 0
    /\ optedOut' = [optedOut EXCEPT ![c][l] = @ - 1]
    /\ UNCHANGED <<campaign, publishing, topic, mailVarsOf, historyOf>>

IsUnsubscribed(l) == \E c \in Campaigns : optedOut[c][l] > 0

-----------------------------------------------------------------------------
(* A mailer *)

Moves(w, step) == mailing' = [mailing EXCEPT ![w].at = step]
Rests(w) == mailing' = [mailing EXCEPT ![w] = NotMailing]

\* Mutant: a campaign that a mailer has begun is not taken up again.
OnlyQueued(c) == campaign[c] = "queued"

ToBeMailed(c) == campaign[c] \in {"queued", "sending"}

TakeCampaign(w, c) ==
    /\ mailing[w].at = "idle"
    /\ topic[c] = "unread"
    /\ topic' = [topic EXCEPT ![c] = w]
    /\ mailing' = IF ToBeMailed(c)
                  THEN [mailing EXCEPT ![w].at = "begin", ![w].on = c,
                                       ![w].saw = campaign[c]]
                  ELSE mailing
    /\ UNCHANGED <<campaign, publishing, deliveries, mailed, optedOut,
                   contacted, spared, historyOf>>

\* The Session refuses the first query; the message counts as consumed.
ConsumeInVain(w, c) ==
    /\ mailing[w].at = "broken"
    /\ topic[c] = "unread"
    /\ topic' = [topic EXCEPT ![c] = w]
    /\ lost' = lost \cup {c}
    /\ UNCHANGED <<campaign, publishing, mailVarsOf, optedOut, redelivered,
                   campaignFaults>>

\* When it asks for the next message.
CommitOffsets(w) ==
    /\ mailing[w].at \in {"idle", "broken"}
    /\ \E c \in Campaigns : topic[c] = w
    /\ topic' = [c \in Campaigns |-> IF topic[c] = w THEN "done" ELSE topic[c]]
    /\ UNCHANGED <<campaign, publishing, mailVarsOf, optedOut, historyOf>>

\* Refreshes the row.
MarkSending(w) ==
    LET c == mailing[w].on
        becomes == IF mailing[w].saw = "sending" THEN campaign[c] ELSE "sending" IN
    /\ mailing[w].at = "begin"
    /\ campaign' = [campaign EXCEPT ![c] = becomes]
    /\ mailing' = [mailing EXCEPT ![w].at = "audience", ![w].saw = becomes]
    /\ UNCHANGED <<publishing, topic, deliveries, mailed, optedOut, contacted,
                   spared, historyOf>>

GetRecipients(w) ==
    /\ mailing[w].at = "audience"
    /\ LET leads == Audience(mailing[w].on) IN
       mailing' = [mailing EXCEPT
                      ![w].at = IF leads = {} THEN "nobody" ELSE "next",
                      ![w].todo = leads]
    /\ UNCHANGED <<campaign, publishing, topic, deliveries, mailed, optedOut,
                   contacted, spared, historyOf>>

\* A redelivery for new leads finds none when the first went far enough.
NoRecipients(w) ==
    /\ mailing[w].at = "nobody"
    /\ campaign' = IF mailing[w].saw = "failed" THEN campaign
                   ELSE [campaign EXCEPT ![mailing[w].on] = "failed"]
    /\ Rests(w)
    /\ UNCHANGED <<publishing, topic, deliveries, mailed, optedOut, contacted,
                   spared, historyOf>>

PassesOver(l) == IsUnsubscribed(l)

TakeUpLead(w, l) ==
    LET c == mailing[w].on IN
    /\ mailing[w].at = "next"
    /\ l \in mailing[w].todo
    /\ mailing' = [mailing EXCEPT
                      ![w].at = IF PassesOver(l) THEN "next" ELSE "create",
                      ![w].todo = @ \ {l},
                      ![w].lead = l]
    /\ spared' = IF PassesOver(l)
                 THEN [spared EXCEPT ![c] = @ \cup {l}] ELSE spared
    /\ UNCHANGED <<campaign, publishing, topic, deliveries, mailed, optedOut,
                   contacted, historyOf>>

\* A template may raise more than a TemplateError; the next lead follows.
TemplateRaises(w) ==
    LET c == mailing[w].on IN
    /\ CampaignFault
    /\ mailing[w].at = "create"
    /\ mailing' = [mailing EXCEPT ![w].at = "next", ![w].outcomes = @ \cup {"failed"}]
    /\ spared' = [spared EXCEPT ![c] = @ \cup {mailing[w].lead}]
    /\ UNCHANGED <<campaign, publishing, topic, deliveries, mailed, optedOut,
                   contacted, redelivered, lost>>

RowsOf(c, l) ==
    deliveries[c][l]["pending"] + deliveries[c][l]["sent"] + deliveries[c][l]["failed"]

\* Mutant: the table of the model class.
NeverRefused(c, l) == FALSE

Refused(c, l) == DeliveriesUnique /\ RowsOf(c, l) > 0

\* A query fails: what is left of the campaign fails with it.
Breaks(w) ==
    /\ mailing' = [mailing EXCEPT ![w] = [NotMailing EXCEPT !.at = "broken"]]
    /\ lost' = lost \cup {mailing[w].on}
    /\ UNCHANGED <<campaign, publishing, topic, deliveries, mailed, optedOut,
                   contacted, spared, redelivered>>

\* Only the index knows of earlier rows of the lead.
CreateDelivery(w) ==
    LET c == mailing[w].on  l == mailing[w].lead IN
    /\ mailing[w].at = "create"
    /\ ~Refused(c, l)
    /\ deliveries' = [deliveries EXCEPT ![c][l]["pending"] = @ + 1]
    /\ Moves(w, "send")
    /\ UNCHANGED <<campaign, publishing, topic, mailed, optedOut, contacted,
                   spared, historyOf>>

DeliveryRefused(w) ==
    /\ mailing[w].at = "create"
    /\ Refused(mailing[w].on, mailing[w].lead)
    /\ Breaks(w)
    /\ UNCHANGED campaignFaults

SendCampaignMail(w) ==
    LET c == mailing[w].on  l == mailing[w].lead IN
    /\ mailing[w].at = "send"
    /\ mailed' = [mailed EXCEPT ![c][l] = @ + 1]
    /\ Moves(w, "sent")
    /\ UNCHANGED <<campaign, publishing, topic, deliveries, optedOut,
                   contacted, spared, historyOf>>

\* Resend refuses, or its answer is lost.
CampaignMailFails(w) ==
    LET c == mailing[w].on  l == mailing[w].lead IN
    /\ CampaignFault
    /\ mailing[w].at = "send"
    /\ \E taken \in {0, 1} : mailed' = [mailed EXCEPT ![c][l] = @ + taken]
    /\ Moves(w, "failed")
    /\ UNCHANGED <<campaign, publishing, topic, deliveries, optedOut,
                   contacted, spared, redelivered, lost>>

\* mark_sent, mark_failed: the row that this mailer has created.
RecordDelivery(w) ==
    LET c == mailing[w].on  l == mailing[w].lead  s == mailing[w].at IN
    /\ s \in {"sent", "failed"}
    /\ deliveries' = [deliveries EXCEPT ![c][l]["pending"] = @ - 1, ![c][l][s] = @ + 1]
    /\ mailing' = [mailing EXCEPT ![w].at = IF s = "sent" THEN "contact" ELSE "next",
                                  ![w].outcomes = @ \cup {s}]
    /\ UNCHANGED <<campaign, publishing, topic, mailed, optedOut, contacted,
                   spared, historyOf>>

MarkContacted(w) ==
    /\ mailing[w].at = "contact"
    /\ contacted' = contacted \cup {mailing[w].lead}
    /\ Moves(w, "next")
    /\ UNCHANGED <<campaign, publishing, topic, deliveries, mailed, optedOut,
                   spared, historyOf>>

\* Mutant: the last slice of the list is one short.
AlmostDone(w) == \A l, k \in mailing[w].todo : l = k

AllTakenUp(w) == mailing[w].todo = {}

\* The commit of the statistics before it has expired the loaded row.
FinishCampaign(w) ==
    /\ mailing[w].at = "next"
    /\ AllTakenUp(w)
    /\ campaign' = [campaign EXCEPT ![mailing[w].on] =
                       IF mailing[w].outcomes = {"failed"} THEN "failed" ELSE "sent"]
    /\ Rests(w)
    /\ UNCHANGED <<publishing, topic, deliveries, mailed, optedOut, contacted,
                   spared, historyOf>>

-----------------------------------------------------------------------------
(* What goes wrong *)

SessionBreaks(w) ==
    /\ CampaignFault
    /\ mailing[w].at # "broken"
    /\ Breaks(w)

\* The mailer is killed; what it had not committed is handed out again.  It may
\* still be at a campaign whose message has gone to another.
KillMailer(w) ==
    LET own == {c \in Campaigns : topic[c] = w} IN
    /\ CampaignFault
    /\ Rests(w)
    /\ topic' = [c \in Campaigns |-> IF c \in own THEN "unread" ELSE topic[c]]
    /\ redelivered' = redelivered \cup own
    /\ lost' = lost \cup ({mailing[w].on} \ own)
    /\ UNCHANGED <<campaign, publishing, deliveries, mailed, optedOut,
                   contacted, spared>>

\* The mailer is interrupted; closing the consumer commits its offsets.
InterruptMailer(w) ==
    /\ CampaignFault
    /\ Rests(w)
    /\ topic' = [c \in Campaigns |-> IF topic[c] = w THEN "done" ELSE topic[c]]
    /\ lost' = lost \cup {mailing[w].on}
    /\ UNCHANGED <<campaign, publishing, deliveries, mailed, optedOut,
                   contacted, spared, redelivered>>

\* A campaign takes longer than the poll interval: the message goes to another
\* mailer while this one works on.
PartitionMoves(w) ==
    /\ CampaignFault
    /\ mailing[w].at \notin {"idle", "broken"}
    /\ topic[mailing[w].on] = w
    /\ topic' = [topic EXCEPT ![mailing[w].on] = "unread"]
    /\ redelivered' = redelivered \cup {mailing[w].on}
    /\ UNCHANGED <<campaign, publishing, mailVarsOf, optedOut, lost>>

-----------------------------------------------------------------------------
WebStep(c) == MarkQueued(c) \/ Publish(c) \/ MarkUnpublished(c)

MailerStep(w) ==
    \/ MarkSending(w) \/ GetRecipients(w) \/ NoRecipients(w)
    \/ \E l \in Leads : TakeUpLead(w, l)
    \/ CreateDelivery(w) \/ DeliveryRefused(w) \/ SendCampaignMail(w)
    \/ RecordDelivery(w) \/ MarkContacted(w) \/ FinishCampaign(w)

CampaignGoesWrong ==
    \/ \E c \in Campaigns : PublishFails(c) \/ NeverPublished(c)
    \/ \E w \in Mailers :
          \/ TemplateRaises(w) \/ CampaignMailFails(w) \/ SessionBreaks(w)
          \/ KillMailer(w) \/ InterruptMailer(w) \/ PartitionMoves(w)

CampaignNext ==
    \/ \E c \in Campaigns :
          \/ CreateCampaign(c) \/ DeleteCampaign(c) \/ WebStep(c)
          \/ \E l \in Leads : Unsubscribe(c, l) \/ Resubscribe(c, l)
          \/ \E w \in Mailers : TakeCampaign(w, c) \/ ConsumeInVain(w, c)
    \/ \E w \in Mailers : MailerStep(w) \/ CommitOffsets(w)
    \/ CampaignGoesWrong

\* A mailer at work goes on and then asks for messages; a campaign to be
\* published is; nobody has to create one.
CampaignFairness ==
    /\ \A c \in Campaigns :
          /\ WF_campaignVars(WebStep(c))
          /\ WF_campaignVars(\E w \in Mailers : TakeCampaign(w, c) \/ ConsumeInVain(w, c))
    /\ \A w \in Mailers : WF_campaignVars(MailerStep(w))

CampaignSpec == CampaignInit /\ [][CampaignNext]_campaignVars

-----------------------------------------------------------------------------
(* Properties *)

CampaignStatus == {"none", "draft", "deleted", "queued", "sending", "sent", "failed"}

MailingSteps == {"idle", "begin", "audience", "nobody", "next", "create", "send",
                 "sent", "failed", "contact", "broken"}

Desks ==
    [at : MailingSteps, on : Campaigns \cup {"none"}, saw : CampaignStatus,
     todo : SUBSET Leads, lead : Leads \cup {"none"},
     outcomes : SUBSET {"sent", "failed"}]

\* The type invariant.  Nobody counts pending rows, so they are only numbers.
CampaignTypeOK ==
    /\ campaign \in [Campaigns -> CampaignStatus]
    /\ publishing \in [Campaigns -> {"nothing", "queue", "send", "fail"}]
    /\ topic \in [Campaigns -> Mailers \cup {"none", "unread", "done"}]
    /\ mailing \in [Mailers -> Desks]
    /\ deliveries \in [Campaigns -> [Leads -> [DeliveryStatus -> Int]]]
    /\ \A c \in Campaigns, l \in Leads :
          deliveries[c][l]["sent"] >= 0 /\ deliveries[c][l]["failed"] >= 0
    /\ mailed \in [Campaigns -> [Leads -> Nat]]
    /\ optedOut \in [Campaigns -> [Leads -> Nat]]
    /\ contacted \subseteq Leads
    /\ spared \in [Campaigns -> SUBSET Leads]
    /\ redelivered \subseteq Campaigns
    /\ lost \subseteq Campaigns \cup {"none"}
    /\ campaignFaults \in 0..MaxCampaignFaults

\* The row of l says what became of a mail to it.
Settled(c, l) == deliveries[c][l]["sent"] + deliveries[c][l]["failed"] > 0

\* A campaign reads "sent" only when every lead of its audience has been worked
\* off, by one mailer or by several that each got half-way: it has a delivery
\* that was sent or failed, unless it had unsubscribed or had no text.  Errors,
\* restarts and redeliveries leave it "sending" instead (process_campaign).
SentIsComplete ==
    \A c \in Campaigns :
        campaign[c] = "sent" =>
            \A l \in Audience(c) : Settled(c, l) \/ l \in spared[c]

\* Nobody is mailed a campaign twice, whoever works on it after a kill or beside
\* a mailer that is still busy: a row of the lead comes before its mail, and the
\* index refuses a second one.  Without the index that holds as long as Kafka
\* does not hand the message out again (campaign_email_worker.py:304).
MailedOnce ==
    \A c \in Campaigns :
        DeliveriesUnique \/ c \notin redelivered =>
            \A l \in Leads : mailed[c][l] <= 1

\* A campaign that Kafka has does not stay queued or sending, although mailers
\* may be killed and messages handed out again; one is lost only by an interrupt,
\* by an error on the mailer's Session, of which a lead that had its row before
\* is one, or with a mailer whose message had already gone to another (main).
CampaignsEnd ==
    \A c \in Campaigns :
        <>[](\/ topic[c] = "none" \/ c \in lost
             \/ campaign[c] \notin {"queued", "sending"})

=============================================================================
