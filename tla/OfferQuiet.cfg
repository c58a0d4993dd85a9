CONSTANTS
    r1 = r1  r2 = r2  r3 = r3  alice = alice  bob = bob  k1 = k1
    NoKey = NoKey  None = None
    Requests = {r1, r2, r3}
    Buyer <- DoubleBuyers
    Qty <- DoubleQty
    IdemKey <- DoubleKeys
    Totals = {2, 4}
    MaxDeliveries = 1
    Overlap = FALSE
SPECIFICATION Spec
INVARIANTS NeverOvercommitted
PROPERTIES ImplementsLedger
CHECK_DEADLOCK FALSE
