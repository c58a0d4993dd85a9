CONSTANTS
    r1 = r1  r2 = r2  r3 = r3  alice = alice  bob = bob  k1 = k1
    NoKey = NoKey  None = None
    Requests = {r1, r2}
    Buyer <- SameBuyer
    Qty <- UnevenQty
    IdemKey <- TwoKeys
    Totals = {2, 3}
    MaxDeliveries = 2
    Overlap = TRUE
SPECIFICATION FairSpec
INVARIANTS PurchasesAreBacked SoldNeverExceedsBought
PROPERTIES ReservationsDrain
CHECK_DEADLOCK FALSE
