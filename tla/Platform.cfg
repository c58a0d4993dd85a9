CONSTANTS
    s1 = s1  f1 = f1  b1 = b1  u1 = u1  u2 = u2  u3 = u3  one = one  two = two
    AgentSessions = {s1}
    Approvers = {one, two}
    Nobody = Nobody
    Limiters <- LimitsOfInterventions
    MaxPerHour = 1
    ApprovalTTL = 0
    LastTick = 1
    MaxRuns = 2
    MaxRestarts = 1
    MaxChanges = 1
    Rfps = {f1}
    InvitedVenues = {one, two}
    Suitable <- BothVenues
    RfpRequests = {one, two}
    MaxActiveRfps = 1
    MaxInvitations = 2
    MaxExtensions = 0
    MaxRfpCrashes = 0
    RfpOverlap = TRUE
    Booths = {b1}
    Visitors = {u1, u2, u3}
    ExpoSockets = {u1, u2, u3}
    VisitorOf <- OneSocketEach
    MaxVisitors = 1
    MaxPosition = 2
    MaxAtWork = 2
    People = {u1, u2, u3}
    HuddleMessages = {one, two}
    MinParticipants = 2
    MaxParticipants = 2
    MaxAcceptRetries = 1
    MaxVersion = 3
    MaxHuddleRestarts = 1
    Teams = {one, two}
    Questions = 2
    TriviaMessages = {one, two}
    MaxTriviaRestarts = 1
    Rooms = {b1}
    Attendees = {f1}
    Instances = {one, two}
    BreakoutHandlers = {one, two}
    RoomCapacity = 1
    MaxBreakoutFaults = 1
    Contestants = {one, two}
    Challenges = {b1}
    ChallengeMessages = {s1}
    Looks = {one, two}
    MaxActions = 2
    MaxChallengeFaults = 1
    Reasons = {f1, b1}
    OncePerSession = {b1}
    PointAwards = {one, two}
    NeededActions = 2
    Milestone = 3
    MaxPerReason = 3
    MaxPointFaults = 1
SPECIFICATION PlatformSpec
INVARIANTS PlatformTypeOK  EventHourlyCap DecisionsFollowAnswers NeverOverfull EnoughIsNoticed ScoresFollowAnswers OpenRoomsAreTimed RewardedPerStart StandingsFollowActions BadgesFollowActions
PROPERTIES NoOvertaking
SYMMETRY Alike
CHECK_DEADLOCK FALSE
