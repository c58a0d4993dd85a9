------------------------------ MODULE MCServices ------------------------------
(***************************************************************************)
(* Small instances of components that share neither rows nor handlers,     *)
(* each with its fairness, in one run: two RFPs of an organisation, of     *)
(* which one finds venues and the other takes its place among the active;  *)
(* the fulfilment job; scheduled mails; a mail campaign of a sponsor; a    *)
(* challenge between teams, started by two organizers.                     *)
(* A behaviour is about one of them, its focus; the others keep their      *)
(* initial states, in which no step that fairness asks for is enabled.     *)
(***************************************************************************)
EXTENDS RfpLifecycle, OfferFulfillment, ScheduledMail, SponsorCampaigns,
        TeamChallenges

CONSTANTS f1, f2, v1, v2, c1,      \* RFPs, venues, a request
          p1, p2, p3,              \* purchases
          m1, m2, m3,              \* mails
          k1, l1, l2, w1, w2       \* a campaign, leads, mailers

VARIABLE focus

OnlyTheFirst == [f \in {f1, f2} |-> IF f = f1 THEN {v1, v2} ELSE {}]

OneTable == [m \in {m1, m2, m3} |-> "reminders"]

TwoOccasions == [m \in {m1, m2, m3} |-> IF m = m3 THEN "second" ELSE "first"]

ServicesInit ==
    /\ RfpInit /\ FulfillmentInit /\ MailInit /\ CampaignInit /\ ChallengeInit
    /\ focus \in {"rfp", "fulfilment", "mail", "campaign", "challenge"}

Turn(component) == focus = component /\ UNCHANGED focus

RfpTurn ==
    /\ Turn("rfp") /\ RfpNext
    /\ UNCHANGED <<fulfillmentVars, mailVars, campaignVars, challengeVars>>

FulfillmentTurn ==
    /\ Turn("fulfilment") /\ FulfillmentNext
    /\ UNCHANGED <<rfpVars, mailVars, campaignVars, challengeVars>>

MailTurn ==
    /\ Turn("mail") /\ MailNext
    /\ UNCHANGED <<rfpVars, fulfillmentVars, campaignVars, challengeVars>>

CampaignTurn ==
    /\ Turn("campaign") /\ CampaignNext
    /\ UNCHANGED <<rfpVars, fulfillmentVars, mailVars, challengeVars>>

ChallengeTurn ==
    /\ Turn("challenge") /\ ChallengeNext
    /\ UNCHANGED <<rfpVars, fulfillmentVars, mailVars, campaignVars>>

ServicesNext ==
    RfpTurn \/ FulfillmentTurn \/ MailTurn \/ CampaignTurn \/ ChallengeTurn

FairSpec ==
    /\ ServicesInit
    /\ [][ServicesNext]_<<rfpVars, fulfillmentVars, mailVars, campaignVars,
                       challengeVars, focus>>
    /\ RfpFairness /\ FulfillmentFairness /\ MailFairness /\ CampaignFairness
    /\ ChallengeFairness
=============================================================================
