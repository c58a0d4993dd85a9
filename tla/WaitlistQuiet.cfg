CONSTANTS
    vera = vera  sam = sam  sue = sue
    Nobody = Nobody  NoLimit = NoLimit
    Users = {vera, sam, sue}
    Tier <- ThreeTiers
    Picks = {}
    InitialCapacity = 0
    Capacities = {1}
    MaxParticipants = 1
    BulkCounts = {2}
    Faults = {"crash", "ttl"}
SPECIFICATION Spec
PROPERTIES NobodyIsOvertaken
CHECK_DEADLOCK FALSE
