CONSTANTS
    o1 = o1  o2 = o2  ga = ga  k1 = k1  None = None
    Orders = {o1, o2}
    Types = {ga}
    Total <- TwoTickets
    Cart <- Carts
    Price <- OneEach
    Discount = 1
    MaxUses = 1
    Refunds = {k1}
    MaxCrashes = 1
SPECIFICATION FairSpec
INVARIANTS TypeOK  SoldOnce
PROPERTIES RefundsReachThePayment
CHECK_DEADLOCK FALSE
