CONSTANTS
    o1 = o1  o2 = o2  o3 = o3  hall = hall  loft = loft  r1 = r1  r2 = r2
    Orgs = {o1, o2}
    Venues = {hall}
    Requests = {r1}
    Levels = {"accepting_events"}
    Jobs = {"holdExpiry", "inference"}
    MaxActive = 5
    BreakerLimit = 2
    MaxEntries = 3
    Faults = {"overlap", "crash"}
SPECIFICATION Spec
INVARIANTS OneActivePerVenue
SYMMETRY Twins
CHECK_DEADLOCK FALSE
