CONSTANTS
    vera = vera  sam = sam  sue = sue
    Nobody = Nobody  NoLimit = NoLimit
    Users = {sam, sue}
    Tier <- OneTier
    Picks = {sam}
    InitialCapacity = 1
    Capacities = {0, 2}
    MaxParticipants = NoLimit
    BulkCounts = {1}
    Faults = {"overlap", "redis"}
SPECIFICATION Spec
INVARIANTS  AcceptedHasRsvp
CHECK_DEADLOCK FALSE
