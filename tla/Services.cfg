CONSTANTS
    f1 = f1  f2 = f2  v1 = v1  v2 = v2  c1 = c1
    p1 = p1  p2 = p2  p3 = p3  m1 = m1  m2 = m2  m3 = m3
    k1 = k1  l1 = l1  l2 = l2  w1 = w1  w2 = w2
    Rfps = {f1, f2}
    InvitedVenues = {v1, v2}
    Suitable <- OnlyTheFirst
    RfpRequests = {c1}
    MaxActiveRfps = 1
    MaxInvitations = 2
    MaxExtensions = 1
    MaxRfpCrashes = 1
    RfpOverlap = FALSE
    Purchases = {p1, p2, p3}
    Digital = {p1, p2}
    BatchLimit = 2
    MaxJobFaults = 2
    MailTables = {"reminders"}
    Mails = {m1, m2, m3}
    TableOf <- OneTable
    Occasions = {"first", "second"}
    OccasionOf <- TwoOccasions
    SendBatch = 2
    RetryBatch = 2
    MaxMailFaults = 1
    Campaigns = {k1}
    ForNewLeads = {k1}
    Leads = {l1, l2}
    Mailers = {w1, w2}
    DeliveriesUnique = TRUE
    MaxCampaignFaults = 1
    Contestants = {l1}
    Challenges = {k1}
    ChallengeMessages = {m1, m2}
    Looks = {w1}
    MaxActions = 0
    MaxChallengeFaults = 1
SPECIFICATION FairSpec
INVARIANTS AnswersAreKept SentOnce SentIsComplete MailedOnce
PROPERTIES DeadlinesAreProcessed FulfilledIsFinal PurchasesSettle  CampaignsEnd ChallengesEnd
CHECK_DEADLOCK FALSE
