CONSTANTS
    o1 = o1  o2 = o2  ga = ga  k1 = k1  None = None
    Orders = {o1}
    Types = {ga}
    Total <- TwoTickets
    Cart <- OneCart
    Price <- TwoEuros
    Discount = 1
    MaxUses = 1
    Refunds = {k1}
    MaxCrashes = 0
SPECIFICATION Spec
INVARIANTS RefundedMeansInFull
CHECK_DEADLOCK FALSE
