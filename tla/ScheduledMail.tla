---------------------------- MODULE ScheduledMail ----------------------------
(***************************************************************************)
(* Session reminders and pre-event mails of event-lifecycle-service.  Each *)
(* of the two tables has three jobs on threads of their own: one inserts a *)
(* row per attendee of an occasion that approaches (a session or an event; *)
(* a unique constraint makes that idempotent), one sends what is QUEUED,   *)
(* one puts FAILED rows back while their occasion is ahead.                *)
(*                                                                         *)
(* A mail stands for its row; its occasion is what it announces.  Why a    *)
(* mail is not sent (no address, no recommendations, Resend refuses) makes *)
(* no difference: the row becomes FAILED.  Rows with the same scheduled_at *)
(* are read in the order of their insertion.                               *)
(***************************************************************************)
EXTENDS Integers, Sequences, FiniteSets

CONSTANTS
    MailTables,
    Mails,          \* rows that may come to exist
    TableOf,        \* TableOf[m]: the table of m
    Occasions,
    OccasionOf,     \* OccasionOf[m]: the session or event m announces
    SendBatch,      \* rows a sending job loads
    RetryBatch,     \* rows a retrying job loads
    MaxMailFaults   \* answers lost, writes that fail and restarts

ASSUME MailAssumption ==
    /\ TableOf \in [Mails -> MailTables]
    /\ OccasionOf \in [Mails -> Occasions]
    /\ {SendBatch, RetryBatch, MaxMailFaults} \subseteq Nat
    /\ "none" \notin Mails

VARIABLES
    started,     \* occasions that have begun
    filed,       \* the rows, ordered by scheduled_at
    mailStatus,  \* mailStatus[m]: email_status, "none" without a row
    accepted,    \* accepted[m]: how often Resend took m, up to 2
    unrecorded,  \* mails that Resend took and whose row did not become SENT
    sender,      \* sender[t]: the mail at work, what became of it, and the
                 \* rest of the batch
    retrier,     \* retrier[t]: rows about to be QUEUED again
    mailFaults

mailVars == <<started, filed, mailStatus, accepted, unrecorded, sender,
              retrier, mailFaults>>

NoMail == [mail |-> "none", became |-> "unknown", batch |-> {}]

MailInit ==
    /\ started = {}
    /\ filed = <<>>
    /\ mailStatus = [m \in Mails |-> "none"]
    /\ accepted = [m \in Mails |-> 0]
    /\ unrecorded = {}
    /\ sender = [t \in MailTables |-> NoMail]
    /\ retrier = [t \in MailTables |-> {}]
    /\ mailFaults = 0

-----------------------------------------------------------------------------
OccasionStarts(o) ==
    /\ o \notin started
    /\ started' = started \cup {o}
    /\ UNCHANGED <<filed, mailStatus, accepted, unrecorded, sender, retrier,
                   mailFaults>>

\* One row at a time is committed; a duplicate is refused and skipped.
FileMail(m) ==
    /\ OccasionOf[m] \notin started
    /\ mailStatus[m] = "none"
    /\ mailStatus' = [mailStatus EXCEPT ![m] = "QUEUED"]
    /\ filed' = Append(filed, m)
    /\ UNCHANGED <<started, accepted, unrecorded, sender, retrier, mailFaults>>

Before(m, n) ==
    \E i, j \in DOMAIN filed : i < j /\ filed[i] = m /\ filed[j] = n

First(limit, found) ==
    {m \in found : Cardinality({n \in found : Before(n, m)}) < limit}

Rows(t, status) == {m \in Mails : TableOf[m] = t /\ mailStatus[m] = status}

MailFault ==
    /\ mailFaults < MaxMailFaults
    /\ mailFaults' = mailFaults + 1

-----------------------------------------------------------------------------
(* The sending job *)

LoadPending(t) ==
    /\ sender[t] = NoMail
    /\ First(SendBatch, Rows(t, "QUEUED")) # {}
    /\ sender' = [sender EXCEPT ![t].batch = First(SendBatch, Rows(t, "QUEUED"))]
    /\ UNCHANGED <<started, filed, mailStatus, accepted, unrecorded, retrier,
                   mailFaults>>

\* The next mail of the batch, and what becomes of it.
Process(t, m, outcome) ==
    /\ sender[t].mail = "none"
    /\ m \in sender[t].batch
    /\ \A n \in sender[t].batch : ~ Before(n, m)
    /\ sender' = [sender EXCEPT ![t] =
            [mail |-> m, became |-> outcome, batch |-> @.batch \ {m}]]

Accept(m) == accepted' = [accepted EXCEPT ![m] = IF @ < 2 THEN @ + 1 ELSE @]

SendMail(t, m) ==
    /\ Process(t, m, "taken")
    /\ Accept(m)
    /\ UNCHANGED <<started, filed, mailStatus, unrecorded, retrier, mailFaults>>

SendFails(t, m) ==
    /\ Process(t, m, "refused")
    /\ UNCHANGED <<started, filed, mailStatus, accepted, unrecorded, retrier,
                   mailFaults>>

\* Resend took the mail, but the call raised, which counts as a refusal.
AnswerLost(t, m) ==
    /\ MailFault
    /\ Process(t, m, "refused")
    /\ Accept(m)
    /\ unrecorded' = unrecorded \cup {m}
    /\ UNCHANGED <<started, filed, mailStatus, retrier>>

Record(t, outcome, status) ==
    /\ sender[t].became = outcome
    /\ mailStatus' = [mailStatus EXCEPT ![sender[t].mail] = status]
    /\ sender' = [sender EXCEPT ![t].mail = "none", ![t].became = "unknown"]
    /\ UNCHANGED <<started, filed, accepted, unrecorded, retrier, mailFaults>>

MarkSent(t) == Record(t, "taken", "SENT")

MarkMailFailed(t) == Record(t, "refused", "FAILED")

\* A restart; or a write fails: the Session needs a rollback, the error handler
\* raises too, and only the end of the run rolls back.
SendingEnds(t) ==
    /\ sender[t] # NoMail
    /\ MailFault
    /\ unrecorded' = IF sender[t].became = "taken"
                     THEN unrecorded \cup {sender[t].mail} ELSE unrecorded
    /\ sender' = [sender EXCEPT ![t] = NoMail]
    /\ UNCHANGED <<started, filed, mailStatus, accepted, retrier>>

-----------------------------------------------------------------------------
(* The retrying job: reads, and one commit for all *)

\* Mutant: a job that also puts back what has been queued and not sent.
NotSent(t) == First(RetryBatch, Rows(t, "FAILED") \cup Rows(t, "QUEUED"))

\* Mutant: the loop stops at the first mail whose occasion has begun.
AllAhead(t) ==
    LET some == First(RetryBatch, Rows(t, "FAILED"))
    IN  IF \E m \in some : OccasionOf[m] \in started THEN {} ELSE some

\* The limit is applied before anybody looks whether the occasion has begun.
DeadLetters(t) == First(RetryBatch, Rows(t, "FAILED"))

StillAhead(S) == {m \in S : OccasionOf[m] \notin started}

LoadFailed(t) ==
    /\ retrier[t] = {}
    /\ StillAhead(DeadLetters(t)) # {}
    /\ retrier' = [retrier EXCEPT ![t] = StillAhead(DeadLetters(t))]
    /\ UNCHANGED <<started, filed, mailStatus, accepted, unrecorded, sender,
                   mailFaults>>

Requeue(t) ==
    /\ retrier[t] # {}
    /\ mailStatus' = [m \in Mails |-> IF m \in retrier[t] THEN "QUEUED" ELSE mailStatus[m]]
    /\ retrier' = [retrier EXCEPT ![t] = {}]
    /\ UNCHANGED <<started, filed, accepted, unrecorded, sender, mailFaults>>

RetryEnds(t) ==
    /\ retrier[t] # {}
    /\ MailFault
    /\ retrier' = [retrier EXCEPT ![t] = {}]
    /\ UNCHANGED <<started, filed, mailStatus, accepted, unrecorded, sender>>

-----------------------------------------------------------------------------
SendStep(t) ==
    \/ LoadPending(t)
    \/ \E m \in Mails : SendMail(t, m) \/ SendFails(t, m)
    \/ MarkSent(t) \/ MarkMailFailed(t)

RetryStep(t) == LoadFailed(t) \/ Requeue(t)

MailNext ==
    \/ \E o \in Occasions : OccasionStarts(o)
    \/ \E m \in Mails : FileMail(m)
    \/ \E t \in MailTables :
         \/ SendStep(t) \/ SendingEnds(t)
         \/ \E m \in Mails : AnswerLost(t, m)
         \/ RetryStep(t) \/ RetryEnds(t)

MailSpec == MailInit /\ [][MailNext]_mailVars

\* Each job has a timer and a thread of its own.
MailFairness ==
    \A t \in MailTables :
        WF_mailVars(SendStep(t)) /\ WF_mailVars(RetryStep(t))

-----------------------------------------------------------------------------
(* Properties *)

\* The type invariant.
MailTypeOK ==
    /\ started \subseteq Occasions
    /\ filed \in Seq(Mails)
    /\ mailStatus \in [Mails -> {"none", "QUEUED", "SENT", "FAILED"}]
    /\ accepted \in [Mails -> 0..2]
    /\ unrecorded \subseteq Mails
    /\ sender \in [MailTables -> [mail : Mails \cup {"none"},
                                  became : {"unknown", "taken", "refused"},
                                  batch : SUBSET Mails]]
    /\ retrier \in [MailTables -> SUBSET Mails]
    /\ mailFaults \in 0..MaxMailFaults

\* An attendee gets a mail twice only if Resend's acceptance of the first was
\* not recorded, although the retrying job rewrites rows it read earlier while
\* the sending job works through the batch it read earlier
\* (session_reminder_tasks.py:452).
SentOnce == \A m \in Mails : accepted[m] > 1 => m \in unrecorded

\* Mails in front of m in its table that are not sent, so that they may take
\* its place in the batch of the retrying job.
InFront(m) ==
    {n \in Mails : /\ TableOf[n] = TableOf[m]
                   /\ mailStatus[n] \in {"QUEUED", "FAILED"}
                   /\ Before(n, m)}

\* A failed mail is put back in time, unless its occasion begins or older
\* failures take up the batch (those of occasions long over stay in it).
FailedAreRetried ==
    \A m \in Mails :
        mailStatus[m] = "FAILED"
          ~> \/ mailStatus[m] # "FAILED"
             \/ OccasionOf[m] \in started
             \/ Cardinality(InFront(m)) >= RetryBatch
=============================================================================
