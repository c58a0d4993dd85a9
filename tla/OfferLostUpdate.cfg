CONSTANTS
    r1 = r1  r2 = r2  r3 = r3  alice = alice  bob = bob  k1 = k1
    NoKey = NoKey  None = None
    Requests = {r1, r2}
    Buyer <- TwoBuyers
    Qty <- TwoQty
    IdemKey <- TwoKeys
    Totals = {1}
    MaxDeliveries = 1
    Overlap = TRUE
SPECIFICATION Spec
INVARIANTS NeverOvercommitted
CHECK_DEADLOCK FALSE
