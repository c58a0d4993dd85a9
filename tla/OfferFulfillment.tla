-------------------------- MODULE OfferFulfillment --------------------------
(***************************************************************************)
(* process_pending_fulfillments of event-lifecycle-service: every five     *)
(* minutes one job loads the PENDING purchases and fulfils them one by     *)
(* one, each write a commit of its own.                                    *)
(*                                                                         *)
(* All writes of a run go through one Session, which after an error        *)
(* refuses every query until somebody rolls back.  Nobody does: the error  *)
(* handler counts the failure and writes FAILED through the same Session,  *)
(* which raises again and ends the run.  So FAILED is never written and    *)
(* the retries of FAILED purchases have nothing to do; both are left out.  *)
(* The look-up of the buyer's address reads `users', a table of another    *)
(* database, and always fails.                                             *)
(***************************************************************************)
EXTENDS Integers, FiniteSets

CONSTANTS
    Purchases,
    Digital,        \* those with fulfillment_type DIGITAL
    BatchLimit,     \* purchases loaded by one run
    MaxJobFaults    \* commits and refreshes that fail, and restarts

ASSUME DigitalAssumption == Digital \subseteq Purchases /\ "none" \notin Purchases
ASSUME JobBoundsAssumption == {BatchLimit, MaxJobFaults} \subseteq Nat

VARIABLES
    fulfillment,  \* fulfillment[p]: fulfillment_status, "none" without a row
    job,          \* how far the run is, the purchase it is at and what it has
                  \* still to take up
    session,      \* the run's Session
    jobFaults

fulfillmentVars == <<fulfillment, job, session, jobFaults>>

FulfillmentStates == {"none", "PENDING", "PROCESSING", "FULFILLED", "FAILED"}

NoJob == [at |-> "idle", of |-> "none", pending |-> {}]

FulfillmentInit ==
    /\ fulfillment = [p \in Purchases |-> "none"]
    /\ job = NoJob
    /\ session = "usable"
    /\ jobFaults = 0

At(step) == job.at = step

\* The webhook of a paid checkout inserts the row.
Purchase(p) ==
    /\ fulfillment[p] = "none"
    /\ fulfillment' = [fulfillment EXCEPT ![p] = "PENDING"]
    /\ UNCHANGED <<job, session, jobFaults>>

Faulty ==
    /\ jobFaults < MaxJobFaults
    /\ jobFaults' = jobFaults + 1

\* The finally clause closes the Session; a restart does as much.
RunEnds ==
    /\ job' = NoJob
    /\ session' = "usable"

JobRestarts ==
    /\ job # NoJob
    /\ Faulty
    /\ RunEnds
    /\ UNCHANGED fulfillment

-----------------------------------------------------------------------------
(* A run *)

\* LIMIT without ORDER BY: any rows, as many as the limit admits.
Limited(S) ==
    {L \in SUBSET S : \/ Cardinality(L) = BatchLimit
                      \/ L = S /\ Cardinality(S) < BatchLimit}

LoadFulfillments ==
    /\ job = NoJob
    /\ \E pending \in Limited({p \in Purchases : fulfillment[p] = "PENDING"}) \ {{}} :
         job' = [NoJob EXCEPT !.at = "next", !.pending = pending]
    /\ UNCHANGED <<fulfillment, session, jobFaults>>

TakeUp(p) ==
    /\ At("next") /\ session = "usable"
    /\ p \in job.pending
    /\ job' = [at |-> "process", of |-> p, pending |-> job.pending \ {p}]
    /\ UNCHANGED <<fulfillment, session, jobFaults>>

\* Nothing is left, or the next purchase cannot even be loaded.
FinishRun ==
    /\ At("next")
    /\ job.pending = {} \/ session = "aborted"
    /\ RunEnds
    /\ UNCHANGED <<fulfillment, jobFaults>>

\* update_fulfillment_status commits and then refreshes the row: an error
\* leaves the status as it was or, when it comes after the commit, as it is to be.
UpdateStatus(status, next) ==
    \/ /\ fulfillment' = [fulfillment EXCEPT ![job.of] = status]
       /\ job' = [job EXCEPT !.at = next]
       /\ UNCHANGED <<session, jobFaults>>
    \/ /\ Faulty
       /\ fulfillment' \in {fulfillment, [fulfillment EXCEPT ![job.of] = status]}
       /\ job' = [job EXCEPT !.at = "error"]
       /\ session' = "aborted"

\* Mutant: the buyer is looked up before the purchase is marked.
LooksUpFirst ==
    /\ At("process") /\ job.of \in Digital
    /\ job' = [job EXCEPT !.at = "notify"]
    /\ UNCHANGED <<fulfillment, session, jobFaults>>

FulfillDigital ==
    /\ At("process") /\ job.of \in Digital
    /\ UpdateStatus("FULFILLED", "notify")

\* The look-up raises, which is logged and not passed on.
LookUpBuyer ==
    /\ At("notify")
    /\ session' = "aborted"
    /\ job' = [job EXCEPT !.at = "next"]
    /\ UNCHANGED <<fulfillment, jobFaults>>

\* Ticket upgrades, merchandise and services: a reference stands for delivery.
MarkProcessing ==
    /\ At("process") /\ job.of \notin Digital
    /\ UpdateStatus("PROCESSING", "deliver")

MarkFulfilled ==
    /\ At("deliver")
    /\ UpdateStatus("FULFILLED", "next")

\* Mutant: the handler rolls back, writes FAILED and goes on.
WritesFailed ==
    /\ At("error")
    /\ fulfillment' = [fulfillment EXCEPT ![job.of] = "FAILED"]
    /\ session' = "usable"
    /\ job' = [job EXCEPT !.at = "next"]
    /\ UNCHANGED jobFaults

HandlerRaises ==
    /\ At("error")
    /\ RunEnds
    /\ UNCHANGED <<fulfillment, jobFaults>>

-----------------------------------------------------------------------------
RunStep ==
    \/ \E p \in Purchases : TakeUp(p)
    \/ LoadFulfillments \/ FinishRun
    \/ FulfillDigital \/ LookUpBuyer
    \/ MarkProcessing \/ MarkFulfilled \/ HandlerRaises

FulfillmentNext ==
    \/ \E p \in Purchases : Purchase(p)
    \/ RunStep
    \/ JobRestarts

FulfillmentSpec == FulfillmentInit /\ [][FulfillmentNext]_fulfillmentVars

\* The scheduler starts a run every five minutes, and a run goes on.
FulfillmentFairness == WF_fulfillmentVars(RunStep)

-----------------------------------------------------------------------------
(* Properties *)

\* The type invariant.
FulfillmentTypeOK ==
    /\ fulfillment \in [Purchases -> FulfillmentStates]
    /\ job \in [at : {"idle", "next", "process", "notify", "deliver", "error"},
                of : Purchases \cup {"none"}, pending : SUBSET Purchases]
    /\ session \in {"usable", "aborted"}
    /\ jobFaults \in 0..MaxJobFaults

\* What a buyer received is not taken back or produced again, although an
\* error after its commit sends the job to the handler that writes FAILED
\* (offer_tasks.py:189).
FulfilledIsFinal ==
    [][\A p \in Purchases :
         fulfillment[p] = "FULFILLED" => fulfillment'[p] = "FULFILLED"]_fulfillmentVars

\* Some run was interrupted while it delivered p, and no run looks at it again.
Stranded(p) == fulfillment[p] = "PROCESSING" /\ job.of # p

\* A purchase that is paid is fulfilled by some run, or stranded, although the
\* first digital purchase of every run ends it (offer_tasks.py:257).
PurchasesSettle ==
    \A p \in Purchases :
        fulfillment[p] = "PENDING"
          ~> fulfillment[p] = "FULFILLED" \/ Stranded(p)
=============================================================================
