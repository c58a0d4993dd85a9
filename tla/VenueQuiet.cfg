CONSTANTS
    o1 = o1  o2 = o2  o3 = o3  hall = hall  loft = loft  r1 = r1  r2 = r2
    Orgs = {o1, o2}
    Venues = {hall, loft}
    Requests = {r1}
    Levels = {"accepting_events"}
    Jobs = {"holdExpiry", "autoExpiry", "breakerExpiry", "inference"}
    MaxActive = 1
    BreakerLimit = 2
    MaxEntries = 3
    Faults = {}
SPECIFICATION FairSpec
INVARIANTS OneRfpPerHold
PROPERTIES ImplementsQueue HoldsMoveOn
CHECK_DEADLOCK FALSE
