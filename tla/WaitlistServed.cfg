CONSTANTS
    vera = vera  sam = sam  sue = sue
    Nobody = Nobody  NoLimit = NoLimit
    Users = {sam, sue}
    Tier <- OneTier
    Picks = {}
    InitialCapacity = 0
    Capacities = {1}
    MaxParticipants = NoLimit
    BulkCounts = {1}
    Faults = {"overlap"}
SPECIFICATION FairSpec
INVARIANTS WaitingIsQueued
PROPERTIES WaitersAreServed
CHECK_DEADLOCK FALSE
