------------------------- MODULE TicketOrdersProofs -------------------------
(***************************************************************************)
(* Proofs about ticket orders, for every set of orders, carts, ticket      *)
(* types and refunds, every stock and price, and any number of restarts.   *)
(***************************************************************************)
EXTENDS TicketOrders, FunctionTheorems, FiniteSetTheorems, TLAPS

Line == [type : Types, qty : Nat \ {0}]

PaymentRow == [status : PaymentStatus, amount : Nat, refunded : Nat]

RefundRows == [of : Orders, amount : Nat, linked : BOOLEAN, status : RefundStatus]

(* What the handler at work has still to do. *)

CheckoutWork == [op : {"checkout"}, of : Orders,
                 at : {"item", "reserve", "intent", "link"}]
CancelWork == [op : {"cancel"}, of : Orders, left : Nat, event : Events \cup {None}]
SaleWork == [op : {"sale"}, of : Orders, left : Nat, event : Events,
             at : {"payment", "stock"}]
RefundAsked == [op : {"refund"}, of : Refunds, at : {"provider"}]
RefundGiven == [op : {"refund"}, of : Refunds, at : {"row", "amount", "order"},
                result : {"succeeded", "pending"}]

Work == CheckoutWork \cup CancelWork \cup SaleWork \cup RefundAsked \cup RefundGiven

(***************************************************************************)
(* What holds while a handler is at work: its order cannot change under    *)
(* it, and what it still has to do is within the cart.                     *)
(***************************************************************************)
CheckoutAtWork ==
    work # None /\ work.op = "checkout" =>
        /\ order[work.of].status = "pending"
        /\ work.at = "item" => order[work.of].items < Len(Cart[work.of])
        /\ work.at = "reserve" => order[work.of].items \in 1 .. Len(Cart[work.of])

CancelAtWork ==
    work # None /\ work.op = "cancel" =>
        /\ order[work.of].status = "pending"
        /\ work.left <= Len(Cart[work.of])
        /\ work.event \in events \cup {None}

SaleAtWork ==
    work # None /\ work.op = "sale" =>
        /\ order[work.of].status \in Settled
        /\ work.left <= Len(Cart[work.of])
        /\ work.event \in events

RefundAtWork ==
    work # None /\ work.op = "refund" =>
        /\ refund[work.of] \in RefundRows
        /\ order[refund[work.of].of].status \in Settled
        /\ pay[refund[work.of].of] \in PaymentRow

\* Stripe speaks only of refunds that have a row.
RefundsKnown ==
    \A k \in Refunds :
        (\E e \in events : e \in RefundEvents /\ e.of = k) => refund[k] \in RefundRows

\* A payment row is there only for an order that was completed.
PaymentsSettled ==
    \A o \in Orders : pay[o] # None => order[o].status \in Settled

Inv ==
    /\ TypeOK
    /\ work \in Work \cup {None}
    /\ CheckoutAtWork /\ CancelAtWork /\ SaleAtWork /\ RefundAtWork
    /\ RefundsKnown /\ PaymentsSettled

-----------------------------------------------------------------------------
LEMMA WorkKinds ==
    ASSUME work \in Work \cup {None}, work # None
    PROVE  /\ work.op = "checkout" => work \in CheckoutWork
           /\ work.op = "cancel" => work \in CancelWork
           /\ work.op = "sale" => work \in SaleWork
           /\ work.op = "refund" /\ work.at = "provider" => work \in RefundAsked
           /\ work.op = "refund" /\ work.at # "provider" => work \in RefundGiven
BY DEF Work, CheckoutWork, CancelWork, SaleWork, RefundAsked, RefundGiven

LEMMA Lines ==
    ASSUME NEW o \in Orders
    PROVE  /\ Len(Cart[o]) \in Nat \ {0}
           /\ \A i \in 1 .. Len(Cart[o]) :
                 Cart[o][i] \in Line /\ Cart[o][i].type \in Types
                 /\ Cart[o][i].qty \in Nat \ {0}
<1>1. Cart[o] \in Seq(Line) /\ Cart[o] # <<>>
  BY CartAssumption DEF Line
<1>2. \A i \in 1 .. Len(Cart[o]) : Cart[o][i] \in Line
  BY <1>1
<1>3. Len(Cart[o]) \in Nat \ {0}
  BY <1>1
<1> QED BY <1>2, <1>3 DEF Line

LEMMA InitInv == Init => Inv
<1> SUFFICES ASSUME Init PROVE Inv
  OBVIOUS
<1>1. TypeOK
  BY Lines, CrashesAssumption DEF Init, TypeOK, OrderStatus
<1>2. work = None /\ events = {} /\ \A o \in Orders : pay[o] = None
  BY DEF Init
<1> QED BY <1>1, <1>2 DEF Inv, CheckoutAtWork, CancelAtWork, SaleAtWork,
                          RefundAtWork, RefundsKnown, PaymentsSettled

-----------------------------------------------------------------------------
(* Stock *)

StockType == stock \in [Types -> [sold : Nat, reserved : Nat]]

LEMMA StockRow ==
    ASSUME StockType, NEW t \in Types, NEW row \in [sold : Nat, reserved : Nat],
           stock' = [stock EXCEPT ![t] = row]
    PROVE  /\ StockType'
           /\ NeverOversold /\ row.sold + row.reserved <= Total[t] => NeverOversold'
<1>1. StockType'
  BY DEF StockType
<1>2. \A u \in Types : stock'[u] = IF u = t THEN row ELSE stock[u]
  BY DEF StockType
<1> QED BY <1>1, <1>2 DEF NeverOversold

LEMMA ReserveStock ==
    ASSUME StockType, NEW t \in Types, NEW q \in Nat, ReserveQuantity(t, q)
    PROVE  /\ StockType'
           /\ Available(t) >= q /\ NeverOversold => NeverOversold'
<1> DEFINE row == [stock[t] EXCEPT !.reserved = stock[t].reserved + q]
<1>1. stock[t] \in [sold : Nat, reserved : Nat] /\ Total[t] \in Nat
  BY TotalAssumption DEF StockType
<1>2. /\ row \in [sold : Nat, reserved : Nat]
      /\ row.sold = stock[t].sold /\ row.reserved = stock[t].reserved + q
  BY <1>1
<1>3. stock' = [stock EXCEPT ![t] = row]
  BY DEF ReserveQuantity
<1>4. Available(t) >= q => row.sold + row.reserved <= Total[t]
  BY <1>1, <1>2 DEF Available
<1> QED BY <1>2, <1>3, <1>4, StockRow

LEMMA ReleaseStock ==
    ASSUME StockType, NEW t \in Types, NEW q \in Nat, ReleaseQuantity(t, q)
    PROVE  StockType' /\ (NeverOversold => NeverOversold')
<1> DEFINE left == AtLeastZero(stock[t].reserved - q)
           row == [stock[t] EXCEPT !.reserved = left]
<1>1. stock[t] \in [sold : Nat, reserved : Nat] /\ Total[t] \in Nat
  BY TotalAssumption DEF StockType
<1>2. left \in Nat /\ left <= stock[t].reserved
  BY <1>1 DEF AtLeastZero
<1>3. stock' = [stock EXCEPT ![t] = row]
  BY DEF ReleaseQuantity
<1> HIDE DEF left
<1>4. /\ row \in [sold : Nat, reserved : Nat]
      /\ row.sold = stock[t].sold /\ row.reserved = left
  BY <1>1, <1>2
<1>5. NeverOversold => row.sold + row.reserved <= Total[t]
  BY <1>1, <1>2, <1>4 DEF NeverOversold
<1> QED BY <1>3, <1>4, <1>5, StockRow

LEMMA CountStock ==
    ASSUME StockType, NEW t \in Types, NEW q \in Nat, IncrementQuantitySold(t, q)
    PROVE  StockType' /\ (NeverOversold => NeverOversold')
BY TotalAssumption
   DEF StockType, IncrementQuantitySold, AtLeastZero, NeverOversold

\* The only steps that touch the stock.
LEMMA StockSteps ==
    ASSUME [Next]_vars
    PROVE  stock' = stock \/ ReserveItem \/ ReleaseItem \/ CountItem
<1>1. ASSUME NEW o \in Orders, Buyer(o) PROVE stock' = stock
  BY <1>1 DEF Buyer, Checkout, ApplyPromoCode, RemovePromoCode, CancelOrder,
              BuyerPays, PaymentDeclined, IntentLapses
<1>2. ASSUME NEW e \in Events, Deliver(e) \/ MarkProcessed(e) PROVE stock' = stock
  BY <1>2 DEF Deliver, PaymentSucceeded, PaymentSucceededAgain, PaymentFailed,
              PaymentCancelled, ChargeRefunded, RefundEvent, MarkProcessed
<1>3. CASE Continue
  BY <1>3 DEF Continue, AddItem, FreeOrder, CreateIntent, IntentFails, LinkIntent,
              MarkCancelled, RecordPayment, CountPromo, CreateRefund,
              RefundRefused, RefundRow, RefundAmount, RefundOrder
<1>4. ASSUME NEW k \in Refunds, NEW o \in Orders, NEW amount,
             InitiateRefund(k, o, amount) \/ CancelRefund(k) \/ RefundSettles(k)
      PROVE  stock' = stock
  BY <1>4 DEF InitiateRefund, CancelRefund, RefundSettles
<1>5. ASSUME NEW k \in Refunds, CancelRefund(k) \/ RefundSettles(k)
      PROVE  stock' = stock
  BY <1>5 DEF CancelRefund, RefundSettles
<1>6. CASE Crash \/ UNCHANGED vars
  BY <1>6 DEF Crash, vars
<1> QED BY <1>1, <1>2, <1>3, <1>4, <1>5, <1>6 DEF Next

LEMMA StockStep ==
    ASSUME Inv, [Next]_vars
    PROVE  StockType' /\ (NeverOversold => NeverOversold')
<1> USE DEF Inv
<1>0. StockType
  BY DEF TypeOK, StockType
<1>1. CASE stock' = stock
  BY <1>0, <1>1 DEF StockType, NeverOversold
<1>2. CASE ReserveItem
  <2> DEFINE line == Cart[work.of][order[work.of].items]
  <2>1. work \in CheckoutWork
    BY <1>2, WorkKinds DEF ReserveItem
  <2>2. line.type \in Types /\ line.qty \in Nat
    BY <1>2, <2>1, Lines DEF ReserveItem, CheckoutAtWork, CheckoutWork
  <2>3. \/ Available(line.type) >= line.qty /\ ReserveQuantity(line.type, line.qty)
        \/ stock' = stock
    BY <1>2 DEF ReserveItem
  <2> QED BY <1>0, <1>1, <2>2, <2>3, ReserveStock
<1>3. CASE ReleaseItem
  <2> DEFINE line == Cart[work.of][work.left]
  <2>1. work \in CancelWork
    BY <1>3, WorkKinds DEF ReleaseItem
  <2>2. line.type \in Types /\ line.qty \in Nat
    BY <1>3, <2>1, Lines DEF ReleaseItem, CancelAtWork, CancelWork
  <2>3. ReleaseQuantity(line.type, line.qty)
    BY <1>3 DEF ReleaseItem
  <2> QED BY <1>0, <2>2, <2>3, ReleaseStock
<1>4. CASE CountItem
  <2> DEFINE line == Cart[work.of][work.left]
  <2>1. work \in SaleWork
    BY <1>4, WorkKinds DEF CountItem
  <2>2. line.type \in Types /\ line.qty \in Nat
    BY <1>4, <2>1, Lines DEF CountItem, SaleAtWork, SaleWork
  <2>3. IncrementQuantitySold(line.type, line.qty)
    BY <1>4 DEF CountItem
  <2> QED BY <1>0, <2>2, <2>3, CountStock
<1> QED BY <1>1, <1>2, <1>3, <1>4, StockSteps

-----------------------------------------------------------------------------
(* The types of the other variables, one by one, and what a change of one   *)
(* row does to them.                                                        *)

OrderRow == [status : OrderStatus, items : Nat, total : Nat, promo : BOOLEAN,
             linked : BOOLEAN]

IntentRow == [state : {"none", "open", "paid", "canceled"}, amount : Nat, back : Nat]

OrderType ==
    /\ order \in [Orders -> OrderRow]
    /\ \A o \in Orders : order[o].items <= Len(Cart[o])
IntentType == intent \in [Orders -> IntentRow]
PayType == pay \in [Orders -> PaymentRow \cup {None}]
PromoType == promo \in [times_used : Nat, current_uses : Nat]
RefundType == refund \in [Refunds -> RefundRows \cup {None}]
EventsType == events \subseteq Events /\ processed \subseteq events /\ emailing \subseteq events
CrashesType == crashes \in 0 .. MaxCrashes

LEMMA TypeParts ==
    TypeOK <=> /\ StockType /\ OrderType /\ IntentType /\ PayType /\ PromoType
               /\ RefundType /\ EventsType /\ CrashesType
BY DEF TypeOK, StockType, OrderType, IntentType, PayType, PromoType, RefundType,
       EventsType, CrashesType, OrderRow, IntentRow, PaymentRow, RefundRows

LEMMA TypePartsNext ==
    /\ StockType' /\ OrderType' /\ IntentType' /\ PayType' /\ PromoType'
    /\ RefundType' /\ EventsType' /\ CrashesType'
    => TypeOK'
BY DEF TypeOK, StockType, OrderType, IntentType, PayType, PromoType, RefundType,
       EventsType, CrashesType, OrderRow, IntentRow, PaymentRow, RefundRows

LEMMA OrderChange ==
    ASSUME OrderType, NEW o \in Orders, NEW row \in OrderRow,
           row.items <= Len(Cart[o]), order' = [order EXCEPT ![o] = row]
    PROVE  /\ OrderType'
           /\ order'[o] = row
           /\ \A p \in Orders : p # o => order'[p] = order[p]
BY DEF OrderType

LEMMA StatusChange ==
    ASSUME OrderType, NEW o \in Orders, NEW s \in OrderStatus,
           order' = [order EXCEPT ![o].status = s]
    PROVE  /\ OrderType'
           /\ order'[o].status = s
           /\ order'[o].items = order[o].items
           /\ \A p \in Orders : p # o => order'[p] = order[p]
<1> DEFINE row == [order[o] EXCEPT !.status = s]
<1>1. order[o] \in OrderRow /\ order[o].items <= Len(Cart[o])
  BY DEF OrderType
<1>2. row \in OrderRow /\ row.status = s /\ row.items = order[o].items
  BY <1>1 DEF OrderRow
<1>3. order' = [order EXCEPT ![o] = row]
  OBVIOUS
<1> QED BY <1>1, <1>2, <1>3, OrderChange

LEMMA IntentChange ==
    ASSUME IntentType, NEW o \in Orders, NEW row \in IntentRow,
           intent' = [intent EXCEPT ![o] = row]
    PROVE  IntentType'
BY DEF IntentType

LEMMA PayChange ==
    ASSUME PayType, NEW o \in Orders, NEW row \in PaymentRow \cup {None},
           pay' = [pay EXCEPT ![o] = row]
    PROVE  /\ PayType'
           /\ pay'[o] = row
           /\ \A p \in Orders : p # o => pay'[p] = pay[p]
BY DEF PayType

LEMMA RefundChange ==
    ASSUME RefundType, NEW k \in Refunds, NEW row \in RefundRows,
           refund' = [refund EXCEPT ![k] = row]
    PROVE  /\ RefundType'
           /\ refund'[k] = row
           /\ \A m \in Refunds : m # k => refund'[m] = refund[m]
           /\ RefundsKnown /\ events' = events => RefundsKnown'
<1>1. /\ RefundType'
      /\ refund'[k] = row
      /\ \A m \in Refunds : m # k => refund'[m] = refund[m]
  BY DEF RefundType
<1>2. RefundsKnown /\ events' = events => RefundsKnown'
  BY <1>1 DEF RefundsKnown
<1> QED BY <1>1, <1>2

-----------------------------------------------------------------------------
(* Every step keeps the invariant, and orders that are settled or cancelled *)
(* stay so.                                                                  *)

OrdersFinal ==
    \A o \in Orders :
        /\ order[o].status \in Settled => order'[o].status \in Settled
        /\ order[o].status = "cancelled" => order'[o].status = "cancelled"

AtWork == CheckoutAtWork /\ CancelAtWork /\ SaleAtWork /\ RefundAtWork

LEMMA IdleWork == work' = None => AtWork'
BY DEF AtWork, CheckoutAtWork, CancelAtWork, SaleAtWork, RefundAtWork

LEMMA SameWork ==
    ASSUME Inv, UNCHANGED <<work, order, pay, refund>>, events \subseteq events'
    PROVE  AtWork' /\ PaymentsSettled' /\ OrdersFinal
BY DEF Inv, AtWork, CheckoutAtWork, CancelAtWork, SaleAtWork, RefundAtWork,
       PaymentsSettled, OrdersFinal

\* A step that leaves the orders, the payments and the refunds alone.
LEMMA SameRows ==
    ASSUME Inv, UNCHANGED <<order, pay, refund, events>>
    PROVE  /\ OrderType' /\ PayType' /\ RefundType'
           /\ PaymentsSettled' /\ OrdersFinal /\ RefundsKnown'
<1> OrderType /\ PayType /\ RefundType
  BY TypeParts DEF Inv
<1> QED BY DEF Inv, OrderType, PayType, RefundType, PaymentsSettled, OrdersFinal,
               RefundsKnown

\* What happens to an order that has no sale and no refund at work.
LEMMA PendingRow ==
    ASSUME Inv, NEW o \in Orders, order[o].status \in {"none", "pending"},
           NEW row \in OrderRow, row.items <= Len(Cart[o]),
           order' = [order EXCEPT ![o] = row], UNCHANGED <<pay, refund, events>>
    PROVE  /\ OrderType' /\ PayType' /\ RefundType'
           /\ PaymentsSettled' /\ OrdersFinal /\ RefundsKnown'
           /\ order'[o] = row
           /\ \A p \in Orders : p # o => order'[p] = order[p]
<1>1. OrderType /\ PayType /\ RefundType
  BY TypeParts DEF Inv
<1>2. OrderType' /\ order'[o] = row /\ \A p \in Orders : p # o => order'[p] = order[p]
  BY <1>1, OrderChange
<1>3. PayType' /\ RefundType'
  BY <1>1 DEF PayType, RefundType
<1>4. order[o].status \notin Settled \cup {"cancelled"}
  BY DEF Settled
<1>5. PaymentsSettled'
  BY <1>2, <1>4 DEF Inv, PaymentsSettled
<1>6. OrdersFinal
  BY <1>2, <1>4 DEF OrdersFinal
<1>7. RefundsKnown'
  BY DEF Inv, RefundsKnown
<1> QED BY <1>2, <1>3, <1>5, <1>6, <1>7

\* The parts that a step leaves alone.
LEMMA SameParts ==
    ASSUME Inv
    PROVE  /\ stock' = stock => StockType'
           /\ intent' = intent => IntentType'
           /\ promo' = promo => PromoType'
           /\ crashes' = crashes => CrashesType'
           /\ UNCHANGED <<events, processed, emailing>> => EventsType'
           /\ work' = work => (work \in Work \cup {None})'
<1> StockType /\ IntentType /\ PromoType /\ EventsType /\ CrashesType
  BY TypeParts DEF Inv
<1> QED BY DEF StockType, IntentType, PromoType, EventsType, CrashesType, Inv, Work,
               CheckoutWork, CancelWork, SaleWork, RefundAsked, RefundGiven, Events,
               OrderEvents, RefundEvents

Kept == Inv' /\ OrdersFinal

LEMMA InvParts ==
    /\ StockType' /\ OrderType' /\ IntentType' /\ PayType' /\ PromoType'
    /\ RefundType' /\ EventsType' /\ CrashesType'
    /\ (work \in Work \cup {None})' /\ AtWork' /\ RefundsKnown' /\ PaymentsSettled'
    => Inv'
BY TypePartsNext DEF Inv, AtWork

LEMMA CheckoutStep ==
    ASSUME Inv, NEW o \in Orders, Checkout(o)
    PROVE  Kept
<1>1. PICK code \in BOOLEAN :
        order' = [order EXCEPT
              ![o] = [status |-> "pending", items |-> 0, promo |-> code,
                      total |-> AtLeastZero(Price[o] - IF code THEN Discount ELSE 0),
                      linked |-> FALSE]]
  BY DEF Checkout
<1> DEFINE total == AtLeastZero(Price[o] - IF code THEN Discount ELSE 0)
           row == [status |-> "pending", items |-> 0, promo |-> code,
                   total |-> total, linked |-> FALSE]
<1>2. total \in Nat
  BY PriceAssumption DEF AtLeastZero
<1> HIDE DEF total
<1>3. Len(Cart[o]) \in Nat \ {0}
  BY Lines
<1>4. row \in OrderRow /\ row.items <= Len(Cart[o])
  BY <1>2, <1>3 DEF OrderRow, OrderStatus
<1>5. order' = [order EXCEPT ![o] = row]
  BY <1>1 DEF total
<1>6. work' = [op |-> "checkout", of |-> o, at |-> "item"]
  BY DEF Checkout
<1>7. UNCHANGED <<stock, intent, pay, promo, refund, events, processed, emailing,
                  crashes>>
  BY DEF Checkout
<1>8. order[o].status \in {"none", "pending"}
  BY DEF Checkout
<1> HIDE DEF row
<1>9. /\ OrderType' /\ PayType' /\ RefundType'
      /\ PaymentsSettled' /\ OrdersFinal /\ RefundsKnown'
      /\ order'[o] = row
  BY <1>4, <1>5, <1>7, <1>8, PendingRow
<1>10. AtWork'
  BY <1>3, <1>6, <1>9 DEF AtWork, CheckoutAtWork, CancelAtWork, SaleAtWork,
                          RefundAtWork, row
<1>11. (work \in Work \cup {None})'
  BY <1>6 DEF Work, CheckoutWork
<1> QED BY <1>7, <1>9, <1>10, <1>11, SameParts, InvParts DEF Kept

LEMMA AddItemStep ==
    ASSUME Inv, AddItem
    PROVE  Kept
<1> DEFINE o == work.of
           n == order[o].items + 1
           row == [order[o] EXCEPT !.items = n]
<1>1. work \in CheckoutWork /\ work.at = "item"
  BY WorkKinds DEF Inv, AddItem
<1>2. o \in Orders
  BY <1>1 DEF CheckoutWork
<1>3. /\ order[o] \in OrderRow /\ order[o].status = "pending"
      /\ order[o].items < Len(Cart[o])
  BY <1>1, <1>2, TypeParts DEF Inv, AddItem, CheckoutAtWork, OrderType
<1>4. Len(Cart[o]) \in Nat /\ n \in 1 .. Len(Cart[o])
  BY <1>2, <1>3, Lines DEF OrderRow
<1> HIDE DEF n
<1>5. row \in OrderRow /\ row.items = n /\ row.status = "pending"
      /\ row.items <= Len(Cart[o])
  BY <1>3, <1>4 DEF OrderRow
<1>6. order' = [order EXCEPT ![o] = row]
  BY DEF AddItem, n
<1>7. work' = [work EXCEPT !.at = "reserve"] /\ UNCHANGED <<stock, intent, pay, promo,
        refund, events, processed, emailing, crashes>>
  BY DEF AddItem
<1>8. work' \in CheckoutWork /\ work'.of = o /\ work'.at = "reserve"
      /\ work'.op = "checkout"
  BY <1>1, <1>7 DEF CheckoutWork
<1> HIDE DEF row, o
<1>9. /\ OrderType' /\ PayType' /\ RefundType'
      /\ PaymentsSettled' /\ OrdersFinal /\ RefundsKnown'
      /\ order'[o] = row
  BY <1>2, <1>3, <1>5, <1>6, <1>7, PendingRow
<1>10. AtWork'
  BY <1>4, <1>5, <1>8, <1>9 DEF AtWork, CheckoutAtWork, CancelAtWork, SaleAtWork,
                                RefundAtWork
<1>11. (work \in Work \cup {None})'
  BY <1>8 DEF Work, CheckoutWork
<1> QED BY <1>7, <1>9, <1>10, <1>11, SameParts, InvParts DEF Kept

LEMMA ReserveItemStep ==
    ASSUME Inv, ReserveItem, StockType'
    PROVE  Kept
<1>1. work \in CheckoutWork /\ work.at = "reserve"
  BY WorkKinds DEF Inv, ReserveItem
<1>2. /\ work.of \in Orders /\ order[work.of].status = "pending"
      /\ order[work.of].items \in 1 .. Len(Cart[work.of])
  BY <1>1 DEF Inv, ReserveItem, CheckoutAtWork, CheckoutWork
<1>3. Len(Cart[work.of]) \in Nat
  BY <1>2, Lines
<1>4. UNCHANGED <<order, intent, pay, promo, refund, events, processed, emailing,
                  crashes>>
  BY DEF ReserveItem
<1>5. \/ work' = None
      \/ order[work.of].items < Len(Cart[work.of]) /\ work' = [work EXCEPT !.at = "item"]
      \/ work' = [work EXCEPT !.at = "intent"]
  BY DEF ReserveItem
<1>6. /\ OrderType' /\ PayType' /\ RefundType'
      /\ PaymentsSettled' /\ OrdersFinal /\ RefundsKnown'
  BY <1>4, SameRows
<1>7. (work \in Work \cup {None})' /\ AtWork'
  <2>1. CASE work' = None
    BY <2>1, IdleWork
  <2>2. ASSUME NEW at \in {"item", "intent"}, work' = [work EXCEPT !.at = at],
               at = "item" => order[work.of].items < Len(Cart[work.of])
        PROVE  (work \in Work \cup {None})' /\ AtWork'
    <3>1. work' \in CheckoutWork /\ work'.of = work.of /\ work'.at = at
          /\ work'.op = "checkout"
      BY <1>1, <2>2 DEF CheckoutWork
    <3>2. AtWork'
      BY <1>2, <1>4, <2>2, <3>1 DEF AtWork, CheckoutAtWork, CancelAtWork, SaleAtWork,
                                    RefundAtWork
    <3> QED BY <3>1, <3>2 DEF Work, CheckoutWork
  <2> QED BY <1>5, <2>1, <2>2
<1> QED BY <1>4, <1>6, <1>7, SameParts, InvParts DEF Kept

LEMMA FreeOrderStep ==
    ASSUME Inv, FreeOrder
    PROVE  Kept
<1>1. work' = None /\ UNCHANGED <<stock, order, intent, pay, promo, refund, events,
        processed, emailing, crashes>>
  BY DEF FreeOrder
<1> QED BY <1>1, SameRows, IdleWork, SameParts, InvParts DEF Kept

LEMMA CreateIntentStep ==
    ASSUME Inv, CreateIntent
    PROVE  Kept
<1> DEFINE o == work.of
           row == [state |-> "open", amount |-> order[o].total, back |-> 0]
<1>1. work \in CheckoutWork /\ order[o].status = "pending"
  BY WorkKinds DEF Inv, CreateIntent, CheckoutAtWork
<1>2. o \in Orders /\ IntentType /\ OrderType
  BY <1>1, TypeParts DEF CheckoutWork, Inv
<1>3. row \in IntentRow
  BY <1>2 DEF IntentRow, OrderType, OrderRow
<1>4. intent' = [intent EXCEPT ![o] = row]
  BY DEF CreateIntent
<1>5. IntentType'
  BY <1>2, <1>3, <1>4, IntentChange
<1>6. work' = [work EXCEPT !.at = "link"] /\ UNCHANGED <<stock, order, pay, promo,
        refund, events, processed, emailing, crashes>>
  BY DEF CreateIntent
<1>7. work' \in CheckoutWork /\ work'.of = o /\ work'.at = "link"
      /\ work'.op = "checkout"
  BY <1>1, <1>6 DEF CheckoutWork
<1>8. AtWork'
  BY <1>1, <1>6, <1>7 DEF AtWork, CheckoutAtWork, CancelAtWork, SaleAtWork,
                          RefundAtWork
<1>9. (work \in Work \cup {None})'
  BY <1>7 DEF Work, CheckoutWork
<1> QED BY <1>5, <1>6, <1>8, <1>9, SameRows, SameParts, InvParts DEF Kept

LEMMA IntentFailsStep ==
    ASSUME Inv, IntentFails
    PROVE  Kept
<1> DEFINE o == work.of
           row == [order[o] EXCEPT !.status = "cancelled"]
<1>1. work \in CheckoutWork /\ order[o].status = "pending"
  BY WorkKinds DEF Inv, IntentFails, CheckoutAtWork
<1>2. o \in Orders /\ order[o] \in OrderRow /\ order[o].items <= Len(Cart[o])
  BY <1>1, TypeParts DEF CheckoutWork, Inv, OrderType
<1>3. row \in OrderRow /\ row.items <= Len(Cart[o])
  BY <1>2 DEF OrderRow, OrderStatus
<1>4. order' = [order EXCEPT ![o] = row]
  BY DEF IntentFails
<1>5. work' = None /\ UNCHANGED <<stock, intent, pay, promo, refund, events, processed,
        emailing, crashes>>
  BY DEF IntentFails
<1> HIDE DEF row, o
<1>6. /\ OrderType' /\ PayType' /\ RefundType'
      /\ PaymentsSettled' /\ OrdersFinal /\ RefundsKnown'
  BY <1>1, <1>2, <1>3, <1>4, <1>5, PendingRow
<1> QED BY <1>5, <1>6, IdleWork, SameParts, InvParts DEF Kept

LEMMA LinkIntentStep ==
    ASSUME Inv, LinkIntent
    PROVE  Kept
<1> DEFINE o == work.of
           row == [order[o] EXCEPT !.linked = TRUE]
<1>1. work \in CheckoutWork /\ order[o].status = "pending"
  BY WorkKinds DEF Inv, LinkIntent, CheckoutAtWork
<1>2. o \in Orders /\ order[o] \in OrderRow /\ order[o].items <= Len(Cart[o])
  BY <1>1, TypeParts DEF CheckoutWork, Inv, OrderType
<1>3. row \in OrderRow /\ row.items <= Len(Cart[o])
  BY <1>2 DEF OrderRow
<1>4. order' = [order EXCEPT ![o] = row]
  BY DEF LinkIntent
<1>5. work' = None /\ UNCHANGED <<stock, intent, pay, promo, refund, events, processed,
        emailing, crashes>>
  BY DEF LinkIntent
<1> HIDE DEF row, o
<1>6. /\ OrderType' /\ PayType' /\ RefundType'
      /\ PaymentsSettled' /\ OrdersFinal /\ RefundsKnown'
  BY <1>1, <1>2, <1>3, <1>4, <1>5, PendingRow
<1> QED BY <1>5, <1>6, IdleWork, SameParts, InvParts DEF Kept

LEMMA ApplyPromoStep ==
    ASSUME Inv, NEW o \in Orders, ApplyPromoCode(o) \/ RemovePromoCode(o)
    PROVE  Kept
<1> DEFINE row(code, total) == [order[o] EXCEPT !.promo = code, !.total = total]
<1>1. order[o] \in OrderRow /\ order[o].items <= Len(Cart[o])
  BY TypeParts DEF Inv, OrderType
<1>2. \A code \in BOOLEAN, total \in Nat :
        row(code, total) \in OrderRow /\ row(code, total).items <= Len(Cart[o])
  BY <1>1 DEF OrderRow
<1>3. AtLeastZero(Price[o] - Discount) \in Nat /\ Price[o] \in Nat
  BY PriceAssumption DEF AtLeastZero
<1>4. \/ order' = [order EXCEPT ![o] = row(TRUE, AtLeastZero(Price[o] - Discount))]
      \/ order' = [order EXCEPT ![o] = row(FALSE, Price[o])]
  BY DEF ApplyPromoCode, RemovePromoCode
<1>5. /\ order[o].status = "pending" /\ work = None
      /\ UNCHANGED <<stock, intent, pay, promo, refund, events, processed,
                     emailing, work, crashes>>
  BY DEF ApplyPromoCode, RemovePromoCode
<1> HIDE DEF row
<1>6. PICK r \in OrderRow : r.items <= Len(Cart[o]) /\ order' = [order EXCEPT ![o] = r]
  BY <1>2, <1>3, <1>4
<1>7. /\ OrderType' /\ PayType' /\ RefundType'
      /\ PaymentsSettled' /\ OrdersFinal /\ RefundsKnown'
  BY <1>5, <1>6, PendingRow
<1> QED BY <1>5, <1>7, IdleWork, SameParts, InvParts DEF Kept

LEMMA IntentState ==
    ASSUME IntentType, NEW o \in Orders, NEW s \in {"none", "open", "paid", "canceled"},
           intent' = [intent EXCEPT ![o].state = s]
    PROVE  IntentType'
<1> DEFINE row == [intent[o] EXCEPT !.state = s]
<1>1. row \in IntentRow
  BY DEF IntentType, IntentRow
<1>2. intent' = [intent EXCEPT ![o] = row]
  OBVIOUS
<1> QED BY <1>1, <1>2, IntentChange

\* Stripe has something to tell about an order.
LEMMA OrderEvent ==
    ASSUME Inv, NEW o \in Orders, NEW type \in {"succeeded", "failed", "canceled"},
           events' = events \cup {[type |-> type, of |-> o]},
           UNCHANGED <<order, pay, refund, processed, emailing>>
    PROVE  /\ OrderType' /\ PayType' /\ RefundType' /\ EventsType'
           /\ PaymentsSettled' /\ OrdersFinal /\ RefundsKnown'
<1>1. OrderType /\ PayType /\ RefundType /\ EventsType
  BY TypeParts DEF Inv
<1>2. [type |-> type, of |-> o] \in OrderEvents
  BY DEF OrderEvents
<1>3. [type |-> type, of |-> o] \notin RefundEvents
  BY DEF RefundEvents
<1>4. EventsType'
  BY <1>1, <1>2 DEF EventsType, Events
<1>5. RefundsKnown'
  BY <1>3 DEF Inv, RefundsKnown
<1> QED BY <1>1, <1>4, <1>5
       DEF Inv, OrderType, PayType, RefundType, PaymentsSettled, OrdersFinal

LEMMA CancelOrderStep ==
    ASSUME Inv, NEW o \in Orders, CancelOrder(o)
    PROVE  Kept
<1>1. /\ order[o].status = "pending"
      /\ work' = [op |-> "cancel", of |-> o, left |-> order[o].items, event |-> None]
      /\ UNCHANGED <<stock, order, pay, promo, refund, processed, emailing, crashes>>
  BY DEF CancelOrder, Cancellable
<1>2. order[o].items \in Nat /\ order[o].items <= Len(Cart[o]) /\ IntentType
  BY TypeParts DEF Inv, OrderType, OrderRow
<1>3. IntentType' /\ events \subseteq events'
  BY <1>2, IntentState DEF CancelOrder, IntentType
<1>4. /\ OrderType' /\ PayType' /\ RefundType' /\ EventsType'
      /\ PaymentsSettled' /\ OrdersFinal /\ RefundsKnown'
  <2>1. CASE events' = events
    BY <1>1, <2>1, SameRows, SameParts
  <2>2. CASE events' = events \cup {[type |-> "canceled", of |-> o]}
    BY <1>1, <2>2, OrderEvent
  <2> QED BY <2>1, <2>2 DEF CancelOrder
<1>5. AtWork'
  BY <1>1, <1>2 DEF AtWork, CheckoutAtWork, CancelAtWork, SaleAtWork, RefundAtWork
<1>6. (work \in Work \cup {None})'
  BY <1>1, <1>2 DEF Work, CancelWork
<1> QED BY <1>1, <1>3, <1>4, <1>5, <1>6, SameParts, InvParts DEF Kept

LEMMA ReleaseItemStep ==
    ASSUME Inv, ReleaseItem, StockType'
    PROVE  Kept
<1>1. work \in CancelWork /\ work.left > 0
  BY WorkKinds DEF Inv, ReleaseItem
<1>2. /\ work.of \in Orders /\ order[work.of].status = "pending"
      /\ work.left \in Nat /\ work.left <= Len(Cart[work.of])
      /\ work.event \in events \cup {None}
  BY <1>1 DEF Inv, ReleaseItem, CancelAtWork, CancelWork
<1>3. work' = [work EXCEPT !.left = work.left - 1] /\ UNCHANGED <<order, intent, pay, promo,
        refund, events, processed, emailing, crashes>>
  BY DEF ReleaseItem
<1>4. Len(Cart[work.of]) \in Nat
  BY <1>2, Lines
<1> DEFINE n == work.left - 1
<1>5. n \in Nat /\ n <= Len(Cart[work.of])
  BY <1>1, <1>2, <1>4
<1>6. work' = [work EXCEPT !.left = n]
  BY <1>3
<1> HIDE DEF n
<1>7. /\ work' \in CancelWork /\ work'.op = "cancel" /\ work'.of = work.of
      /\ work'.left = n /\ work'.event = work.event
  BY <1>1, <1>5, <1>6 DEF CancelWork
<1>8. AtWork'
  BY <1>2, <1>3, <1>5, <1>7 DEF AtWork, CheckoutAtWork, CancelAtWork, SaleAtWork,
                                RefundAtWork
<1>9. (work \in Work \cup {None})'
  BY <1>7 DEF Work, CancelWork
<1> QED BY <1>3, <1>8, <1>9, SameRows, SameParts, InvParts DEF Kept

LEMMA MarkCancelledStep ==
    ASSUME Inv, MarkCancelled
    PROVE  Kept
<1> DEFINE o == work.of
           row == [order[o] EXCEPT !.status = "cancelled"]
<1>1. work \in CancelWork /\ order[o].status = "pending"
      /\ work.event \in events \cup {None}
  BY WorkKinds DEF Inv, MarkCancelled, CancelAtWork
<1>2. o \in Orders /\ order[o] \in OrderRow /\ order[o].items <= Len(Cart[o])
      /\ EventsType
  BY <1>1, TypeParts DEF CancelWork, Inv, OrderType
<1>3. row \in OrderRow /\ row.items <= Len(Cart[o])
  BY <1>2 DEF OrderRow, OrderStatus
<1>4. order' = [order EXCEPT ![o] = row]
  BY DEF MarkCancelled
<1>5. /\ work' = None
      /\ processed' = processed \cup ({work.event} \ {None})
      /\ UNCHANGED <<stock, intent, pay, promo, refund, events, emailing, crashes>>
  BY DEF MarkCancelled
<1>6. EventsType'
  BY <1>1, <1>2, <1>5 DEF EventsType
<1> HIDE DEF row, o
<1>7. /\ OrderType' /\ PayType' /\ RefundType'
      /\ PaymentsSettled' /\ OrdersFinal /\ RefundsKnown'
  BY <1>1, <1>2, <1>3, <1>4, <1>5, PendingRow
<1> QED BY <1>5, <1>6, <1>7, IdleWork, SameParts, InvParts DEF Kept

LEMMA StripeStep ==
    ASSUME Inv, NEW o \in Orders, BuyerPays(o) \/ PaymentDeclined(o) \/ IntentLapses(o)
    PROVE  Kept
<1>1. UNCHANGED <<stock, order, pay, promo, refund, processed, emailing, work, crashes>>
  BY DEF BuyerPays, PaymentDeclined, IntentLapses
<1>2. IntentType
  BY TypeParts DEF Inv
<1>3. IntentType'
  BY <1>2, IntentState DEF BuyerPays, PaymentDeclined, IntentLapses, IntentType
<1>4. \E type \in {"succeeded", "failed", "canceled"} :
        events' = events \cup {[type |-> type, of |-> o]}
  BY DEF BuyerPays, PaymentDeclined, IntentLapses
<1>5. /\ OrderType' /\ PayType' /\ RefundType' /\ EventsType'
      /\ PaymentsSettled' /\ OrdersFinal /\ RefundsKnown'
  BY <1>1, <1>4, OrderEvent
<1>6. AtWork'
  BY <1>1, <1>4, SameWork
<1> QED BY <1>1, <1>3, <1>5, <1>6, SameParts, InvParts DEF Kept

LEMMA RefundSettlesStep ==
    ASSUME Inv, NEW k \in Refunds, RefundSettles(k)
    PROVE  Kept
<1>1. UNCHANGED <<stock, order, intent, pay, promo, refund, processed, emailing, work,
                  crashes>>
  BY DEF RefundSettles
<1>2. PICK type \in {"refund_succeeded", "refund_failed"} :
        events' = events \cup {[type |-> type, of |-> k]}
  BY DEF RefundSettles
<1>3. [type |-> "charge_refunded", of |-> k] \in RefundEvents
      /\ [type |-> type, of |-> k] \in RefundEvents
  BY DEF RefundEvents
<1>4. refund[k] \in RefundRows
  BY <1>3 DEF RefundSettles, Inv, RefundsKnown
<1>5. RefundsKnown'
  BY <1>1, <1>2, <1>4 DEF Inv, RefundsKnown
<1>6. EventsType'
  BY <1>1, <1>2, <1>3, TypeParts DEF Inv, EventsType, Events
<1>7. AtWork' /\ PaymentsSettled' /\ OrdersFinal
  BY <1>1, <1>2, SameWork
<1>8. OrderType' /\ PayType' /\ RefundType'
  BY <1>1, TypeParts DEF Inv, OrderType, PayType, RefundType
<1> QED BY <1>1, <1>5, <1>6, <1>7, <1>8, SameParts, InvParts DEF Kept

LEMMA EventKinds ==
    ASSUME NEW e \in Events
    PROVE  /\ e.type \in {"succeeded", "failed", "canceled"} => e \in OrderEvents
           /\ e.type \in {"charge_refunded", "refund_succeeded", "refund_failed"}
                 => e \in RefundEvents
BY DEF Events, OrderEvents, RefundEvents

LEMMA PaymentSucceededStep ==
    ASSUME Inv, NEW e \in Events, PaymentSucceeded(e)
    PROVE  Kept
<1> DEFINE o == e.of
           row == [order[o] EXCEPT !.status = "completed"]
<1>1. o \in Orders /\ e \in events
  BY EventKinds DEF PaymentSucceeded, OrderEvents, Deliverable
<1>2. /\ order[o].status = "pending"
      /\ work' = [op |-> "sale", of |-> o, event |-> e, left |-> order[o].items,
                  at |-> "payment"]
      /\ order' = [order EXCEPT ![o] = row]
      /\ UNCHANGED <<stock, intent, pay, promo, refund, events, processed, emailing,
                     crashes>>
  BY DEF PaymentSucceeded, MarksCompleted
<1>3. order[o] \in OrderRow /\ order[o].items \in Nat
      /\ order[o].items <= Len(Cart[o])
  BY <1>1, TypeParts DEF Inv, OrderType, OrderRow
<1>4. row \in OrderRow /\ row.items <= Len(Cart[o]) /\ row.status \in Settled
  BY <1>3 DEF OrderRow, OrderStatus, Settled
<1> HIDE DEF row, o
<1>5. /\ OrderType' /\ PayType' /\ RefundType'
      /\ PaymentsSettled' /\ OrdersFinal /\ RefundsKnown'
      /\ order'[o] = row
  BY <1>1, <1>2, <1>4, PendingRow
<1>6. AtWork'
  BY <1>1, <1>2, <1>3, <1>4, <1>5 DEF AtWork, CheckoutAtWork, CancelAtWork, SaleAtWork,
                                      RefundAtWork
<1>7. (work \in Work \cup {None})'
  BY <1>1, <1>2, <1>3 DEF Work, SaleWork
<1> QED BY <1>2, <1>5, <1>6, <1>7, SameParts, InvParts DEF Kept

LEMMA AnsweredStep ==
    ASSUME Inv, NEW e \in Events, PaymentSucceededAgain(e)
    PROVE  Kept
<1>1. /\ work = None /\ e \in events /\ processed' = processed \cup {e}
      /\ UNCHANGED <<stock, order, intent, pay, promo, refund, events, emailing, work,
                     crashes>>
  BY DEF PaymentSucceededAgain, Deliverable, Processed
<1>2. EventsType'
  BY <1>1, TypeParts DEF Inv, EventsType
<1> QED BY <1>1, <1>2, IdleWork, SameRows, SameParts, InvParts DEF Kept

\* The payment row of an order that was completed is written.
LEMMA PaymentWritten ==
    ASSUME Inv, NEW o \in Orders, order[o].status \in Settled, NEW row \in PaymentRow,
           pay' = [pay EXCEPT ![o] = row], UNCHANGED <<order, refund, events>>
    PROVE  /\ OrderType' /\ PayType' /\ RefundType'
           /\ PaymentsSettled' /\ OrdersFinal /\ RefundsKnown'
           /\ pay'[o] \in PaymentRow
           /\ \A p \in Orders : pay[p] \in PaymentRow => pay'[p] \in PaymentRow
<1>1. OrderType /\ PayType /\ RefundType
  BY TypeParts DEF Inv
<1>2. PayType' /\ pay'[o] = row /\ \A p \in Orders : p # o => pay'[p] = pay[p]
  BY <1>1, PayChange
<1>3. OrderType' /\ RefundType'
  BY <1>1 DEF OrderType, RefundType
<1>4. PaymentsSettled'
  BY <1>2 DEF Inv, PaymentsSettled
<1>5. OrdersFinal /\ RefundsKnown'
  BY DEF Inv, OrdersFinal, RefundsKnown
<1> QED BY <1>2, <1>3, <1>4, <1>5

LEMMA RecordPaymentStep ==
    ASSUME Inv, RecordPayment
    PROVE  Kept
<1> DEFINE o == work.of
           row == IF pay[o] = None
                  THEN [status |-> "succeeded", amount |-> order[o].total, refunded |-> 0]
                  ELSE [pay[o] EXCEPT !.status = "succeeded"]
<1>1. work \in SaleWork
  BY WorkKinds DEF Inv, RecordPayment
<1>2. /\ o \in Orders /\ order[o].status \in Settled /\ work.left <= Len(Cart[o])
      /\ work.event \in events /\ order[o].total \in Nat
      /\ pay[o] \in PaymentRow \cup {None}
  BY <1>1, TypeParts DEF Inv, RecordPayment, SaleAtWork, SaleWork, OrderType, OrderRow,
                         PayType
<1>3. row \in PaymentRow
  BY <1>2 DEF PaymentRow, PaymentStatus
<1>4. pay' = [pay EXCEPT ![o] = row]
  BY DEF RecordPayment
<1>5. work' = [work EXCEPT !.at = "stock"] /\ UNCHANGED <<stock, order, intent, promo,
        refund, events, processed, emailing, crashes>>
  BY DEF RecordPayment
<1>6. /\ work' \in SaleWork /\ work'.op = "sale" /\ work'.of = o
      /\ work'.left = work.left /\ work'.event = work.event
  BY <1>1, <1>5 DEF SaleWork
<1> HIDE DEF row, o
<1>7. /\ OrderType' /\ PayType' /\ RefundType'
      /\ PaymentsSettled' /\ OrdersFinal /\ RefundsKnown'
  BY <1>2, <1>3, <1>4, <1>5, PaymentWritten
<1>8. AtWork'
  BY <1>2, <1>5, <1>6 DEF AtWork, CheckoutAtWork, CancelAtWork, SaleAtWork, RefundAtWork
<1>9. (work \in Work \cup {None})'
  BY <1>6 DEF Work, SaleWork
<1> QED BY <1>5, <1>7, <1>8, <1>9, SameParts, InvParts DEF Kept

LEMMA CountItemStep ==
    ASSUME Inv, CountItem, StockType'
    PROVE  Kept
<1> DEFINE n == work.left - 1
<1>1. work \in SaleWork /\ work.left > 0
  BY WorkKinds DEF Inv, CountItem
<1>2. /\ work.of \in Orders /\ order[work.of].status \in Settled
      /\ work.left \in Nat /\ work.left <= Len(Cart[work.of])
      /\ work.event \in events
  BY <1>1 DEF Inv, CountItem, SaleAtWork, SaleWork
<1>3. work' = [work EXCEPT !.left = n] /\ UNCHANGED <<order, intent, pay, promo,
        refund, events, processed, emailing, crashes>>
  BY DEF CountItem
<1>4. n \in Nat /\ n <= Len(Cart[work.of])
  BY <1>1, <1>2, Lines
<1> HIDE DEF n
<1>5. /\ work' \in SaleWork /\ work'.op = "sale" /\ work'.of = work.of
      /\ work'.left = n /\ work'.event = work.event
  BY <1>1, <1>3, <1>4 DEF SaleWork
<1>6. AtWork'
  BY <1>2, <1>3, <1>4, <1>5 DEF AtWork, CheckoutAtWork, CancelAtWork, SaleAtWork,
                                RefundAtWork
<1>7. (work \in Work \cup {None})'
  BY <1>5 DEF Work, SaleWork
<1> QED BY <1>3, <1>6, <1>7, SameRows, SameParts, InvParts DEF Kept

LEMMA CountPromoStep ==
    ASSUME Inv, CountPromo
    PROVE  Kept
<1>1. work \in SaleWork /\ work.event \in events
  BY WorkKinds DEF Inv, CountPromo, SaleAtWork
<1>2. /\ emailing' = emailing \cup {work.event} /\ work' = None
      /\ UNCHANGED <<stock, order, intent, pay, refund, events, processed, crashes>>
  BY DEF CountPromo
<1>3. EventsType' /\ PromoType
  BY <1>1, <1>2, TypeParts DEF Inv, EventsType
<1>4. PromoType'
  <2> DEFINE n == promo.times_used + 1
  <2>1. n \in Nat
    BY <1>3 DEF PromoType
  <2>2. promo' = [promo EXCEPT !.times_used = n] \/ promo' = promo
    BY DEF CountPromo, IncrementUsage
  <2> HIDE DEF n
  <2> QED BY <1>3, <2>1, <2>2 DEF PromoType
<1> QED BY <1>2, <1>3, <1>4, IdleWork, SameRows, SameParts, InvParts DEF Kept

LEMMA MarkProcessedStep ==
    ASSUME Inv, NEW e \in Events, MarkProcessed(e)
    PROVE  Kept
<1>1. /\ e \in emailing /\ emailing' = emailing \ {e} /\ processed' = processed \cup {e}
      /\ UNCHANGED <<stock, order, intent, pay, promo, refund, events, work, crashes>>
  BY DEF MarkProcessed, Processed
<1>2. EventsType'
  BY <1>1, TypeParts DEF Inv, EventsType
<1> QED BY <1>1, <1>2, SameWork, SameRows, SameParts, InvParts DEF Kept

LEMMA PaymentFailedStep ==
    ASSUME Inv, NEW e \in Events, PaymentFailed(e)
    PROVE  Kept
<1> DEFINE o == e.of
           row == [pay[o] EXCEPT !.status = "failed"]
<1>1. o \in Orders /\ e \in events /\ work = None
  BY EventKinds DEF PaymentFailed, OrderEvents, Deliverable
<1>2. processed' = processed \cup {e} /\ UNCHANGED <<stock, order, intent, promo, refund,
        events, emailing, work, crashes>>
  BY DEF PaymentFailed, Processed
<1>3. EventsType' /\ pay[o] \in PaymentRow \cup {None} /\ PayType
  BY <1>1, <1>2, TypeParts DEF Inv, EventsType, PayType
<1>4. pay' = [pay EXCEPT ![o] = pay[o]] \/ (pay[o] # None /\ pay' = [pay EXCEPT ![o] = row])
  BY DEF PaymentFailed
<1>5. /\ OrderType' /\ PayType' /\ RefundType'
      /\ PaymentsSettled' /\ OrdersFinal /\ RefundsKnown'
  <2>1. CASE pay' = [pay EXCEPT ![o] = pay[o]]
    <3>1. pay' = pay
      BY <1>3, <2>1 DEF PayType
    <3> QED BY <1>2, <3>1, SameRows
  <2>2. CASE pay[o] # None /\ pay' = [pay EXCEPT ![o] = row]
    <3>1. row \in PaymentRow
      BY <1>3, <2>2 DEF PaymentRow, PaymentStatus
    <3>2. order[o].status \in Settled
      BY <1>1, <2>2 DEF Inv, PaymentsSettled
    <3> HIDE DEF row, o
    <3> QED BY <1>1, <1>2, <2>2, <3>1, <3>2, PaymentWritten
  <2> QED BY <1>4, <2>1, <2>2
<1> QED BY <1>1, <1>2, <1>3, <1>5, IdleWork, SameParts, InvParts DEF Kept

LEMMA PaymentCancelledStep ==
    ASSUME Inv, NEW e \in Events, PaymentCancelled(e)
    PROVE  Kept
<1>1. e.of \in Orders /\ e \in events /\ work = None
  BY EventKinds DEF PaymentCancelled, OrderEvents, Deliverable
<1>2. UNCHANGED <<stock, order, intent, pay, promo, refund, events, emailing, crashes>>
  BY DEF PaymentCancelled
<1>3. order[e.of].items \in Nat /\ order[e.of].items <= Len(Cart[e.of])
  BY <1>1, TypeParts DEF Inv, OrderType, OrderRow
<1>4. EventsType' /\ AtWork' /\ (work \in Work \cup {None})'
  <2>1. CASE /\ order[e.of].status = "pending" /\ processed' = processed
             /\ work' = [op |-> "cancel", of |-> e.of, left |-> order[e.of].items,
                         event |-> e]
    <3>1. AtWork'
      BY <1>1, <1>2, <1>3, <2>1 DEF AtWork, CheckoutAtWork, CancelAtWork, SaleAtWork,
                                    RefundAtWork
    <3>2. (work \in Work \cup {None})'
      BY <1>1, <1>3, <2>1 DEF Work, CancelWork
    <3>3. EventsType'
      BY <1>2, <2>1, TypeParts DEF Inv, EventsType
    <3> QED BY <3>1, <3>2, <3>3
  <2>2. CASE processed' = processed \cup {e} /\ work' = work
    <3>1. EventsType'
      BY <1>1, <1>2, <2>2, TypeParts DEF Inv, EventsType
    <3> QED BY <1>1, <2>2, <3>1, IdleWork
  <2> QED BY <2>1, <2>2 DEF PaymentCancelled, Cancellable, Processed
<1> QED BY <1>2, <1>4, SameRows, SameParts, InvParts DEF Kept

(* Refunds *)

LEMMA AddRefundedRow ==
    ASSUME NEW o \in Orders, pay[o] \in PaymentRow, NEW n \in Nat
    PROVE  AddRefunded(o, n) \in PaymentRow /\ AddRefunded(o, n).status \in Settled
<1> DEFINE sum == pay[o].refunded + n
           status == IF sum >= pay[o].amount THEN "refunded" ELSE "partially_refunded"
           row == [pay[o] EXCEPT !.refunded = sum, !.status = status]
<1>1. sum \in Nat
  BY DEF PaymentRow
<1>2. status \in {"refunded", "partially_refunded"}
  OBVIOUS
<1>3. AddRefunded(o, n) = row
  BY DEF AddRefunded
<1> HIDE DEF sum, status
<1>4. row \in PaymentRow /\ row.status = status
  BY <1>1, <1>2 DEF PaymentRow, PaymentStatus
<1> QED BY <1>2, <1>3, <1>4 DEF Settled

\* The status of an order that was completed changes.
LEMMA SettledRow ==
    ASSUME Inv, NEW o \in Orders, order[o].status \in Settled, NEW s \in Settled,
           order' = [order EXCEPT ![o].status = s]
    PROVE  /\ OrderType' /\ OrdersFinal
           /\ \A p \in Orders : order[p].status \in Settled => order'[p].status \in Settled
<1>1. OrderType /\ s \in OrderStatus
  BY TypeParts DEF Inv, OrderStatus
<1>2. /\ OrderType' /\ order'[o].status = s
      /\ \A p \in Orders : p # o => order'[p] = order[p]
  BY <1>1, StatusChange
<1>3. order[o].status # "cancelled"
  BY DEF Settled
<1> QED BY <1>2, <1>3 DEF OrdersFinal

LEMMA InitiateRefundStep ==
    ASSUME Inv, NEW k \in Refunds, NEW o \in Orders, NEW amount,
           InitiateRefund(k, o, amount)
    PROVE  Kept
<1> DEFINE row == [of |-> o, amount |-> amount, status |-> "pending", linked |-> FALSE]
<1>1. /\ order[o].status \in {"completed", "partially_refunded"}
      /\ amount \in 1 .. Refundable(o)
      /\ refund' = [refund EXCEPT ![k] = row]
      /\ work' = [op |-> "refund", of |-> k, at |-> "provider"]
      /\ UNCHANGED <<stock, order, intent, pay, promo, events, processed, emailing,
                     crashes>>
  BY DEF InitiateRefund
<1>2. OrderType /\ PayType /\ RefundType
  BY TypeParts DEF Inv
<1>3. pay[o] \in PaymentRow /\ Refundable(o) \in Int
  <2>1. Refundable(o) \in Int
    BY <1>2 DEF Refundable, PayType, PaymentRow
  <2>2. pay[o] # None
    BY <1>1, <2>1 DEF Refundable
  <2> QED BY <1>2, <2>1, <2>2 DEF PayType
<1>4. row \in RefundRows
  BY <1>1, <1>3 DEF RefundRows, RefundStatus
<1>5. /\ RefundType' /\ refund'[k] = row /\ RefundsKnown'
  BY <1>1, <1>2, <1>4, RefundChange DEF Inv
<1>6. row.of = o /\ order[o].status \in Settled
  BY <1>1 DEF Settled
<1> HIDE DEF row
<1>7. AtWork'
  BY <1>1, <1>3, <1>4, <1>5, <1>6 DEF AtWork, CheckoutAtWork, CancelAtWork, SaleAtWork,
                                      RefundAtWork
<1>8. (work \in Work \cup {None})'
  BY <1>1 DEF Work, RefundAsked
<1>9. OrderType' /\ PayType' /\ PaymentsSettled' /\ OrdersFinal
  BY <1>1, <1>2 DEF Inv, OrderType, PayType, PaymentsSettled, OrdersFinal
<1> QED BY <1>1, <1>5, <1>7, <1>8, <1>9, SameParts, InvParts DEF Kept

LEMMA RefundWork ==
    ASSUME Inv, work # None, work.op = "refund"
    PROVE  /\ work.of \in Refunds
           /\ refund[work.of] \in RefundRows
           /\ refund[work.of].of \in Orders
           /\ refund[work.of].amount \in Nat
           /\ order[refund[work.of].of].status \in Settled
           /\ pay[refund[work.of].of] \in PaymentRow
BY WorkKinds DEF Inv, RefundAtWork, RefundAsked, RefundGiven, RefundRows

LEMMA CreateRefundStep ==
    ASSUME Inv, CreateRefund
    PROVE  Kept
<1> DEFINE k == work.of
           o == refund[k].of
           n == intent[o].back + refund[k].amount
           row == [intent[o] EXCEPT !.back = n]
<1>1. /\ k \in Refunds /\ refund[k] \in RefundRows /\ o \in Orders
      /\ refund[k].amount \in Nat
      /\ order[o].status \in Settled /\ pay[o] \in PaymentRow
  BY RefundWork DEF CreateRefund
<1>2. /\ intent' = [intent EXCEPT ![o] = row]
      /\ UNCHANGED <<stock, order, pay, promo, refund, processed, emailing, crashes>>
  BY DEF CreateRefund
<1>3. PICK at \in {"succeeded", "pending"} :
        /\ events' = events \cup {[type |-> "charge_refunded", of |-> k]}
                     \cup (IF at = "succeeded"
                           THEN {[type |-> "refund_succeeded", of |-> k]} ELSE {})
        /\ work' = [op |-> "refund", of |-> k, at |-> "row", result |-> at]
  BY DEF CreateRefund
<1>4. IntentType /\ OrderType /\ PayType /\ RefundType /\ EventsType
  BY TypeParts DEF Inv
<1>5. IntentType'
  <2>1. n \in Nat /\ intent[o] \in IntentRow
    BY <1>1, <1>4 DEF IntentType, IntentRow
  <2> HIDE DEF n
  <2>2. row \in IntentRow
    BY <2>1 DEF IntentRow
  <2> HIDE DEF row, o
  <2> QED BY <1>1, <1>2, <1>4, <2>2, IntentChange
<1>6. [type |-> "charge_refunded", of |-> k] \in RefundEvents
      /\ [type |-> "refund_succeeded", of |-> k] \in RefundEvents
  BY <1>1 DEF RefundEvents
<1>7. EventsType'
  BY <1>2, <1>3, <1>4, <1>6 DEF EventsType, Events
<1>8. RefundsKnown'
  BY <1>1, <1>2, <1>3 DEF Inv, RefundsKnown
<1>9. AtWork'
  BY <1>1, <1>2, <1>3 DEF AtWork, CheckoutAtWork, CancelAtWork, SaleAtWork, RefundAtWork
<1>10. (work \in Work \cup {None})'
  BY <1>1, <1>3 DEF Work, RefundGiven
<1>11. OrderType' /\ PayType' /\ RefundType' /\ PaymentsSettled' /\ OrdersFinal
  BY <1>2, <1>4 DEF Inv, OrderType, PayType, RefundType, PaymentsSettled, OrdersFinal
<1> QED BY <1>2, <1>5, <1>7, <1>8, <1>9, <1>10, <1>11, SameParts, InvParts DEF Kept

\* The row of a refund is rewritten, its order and its amount are not.
LEMMA RefundRewritten ==
    ASSUME Inv, NEW k \in Refunds, refund[k] \in RefundRows, NEW row \in RefundRows,
           row.of = refund[k].of, refund' = [refund EXCEPT ![k] = row],
           UNCHANGED <<order, pay, events>>
    PROVE  /\ OrderType' /\ PayType' /\ RefundType'
           /\ PaymentsSettled' /\ OrdersFinal /\ RefundsKnown'
           /\ refund'[k] = row
<1>1. OrderType /\ PayType /\ RefundType
  BY TypeParts DEF Inv
<1>2. RefundType' /\ refund'[k] = row /\ RefundsKnown'
  BY <1>1, RefundChange DEF Inv
<1>3. OrderType' /\ PayType' /\ PaymentsSettled' /\ OrdersFinal
  BY <1>1 DEF Inv, OrderType, PayType, PaymentsSettled, OrdersFinal
<1> QED BY <1>2, <1>3

LEMMA RefundRefusedStep ==
    ASSUME Inv, RefundRefused
    PROVE  Kept
<1> DEFINE row == [refund[work.of] EXCEPT !.status = "failed"]
<1>1. work.of \in Refunds /\ refund[work.of] \in RefundRows
  BY RefundWork DEF RefundRefused
<1>2. row \in RefundRows /\ row.of = refund[work.of].of
  BY <1>1 DEF RefundRows, RefundStatus
<1>3. refund' = [refund EXCEPT ![work.of] = row]
  BY DEF RefundRefused
<1>4. work' = None /\ UNCHANGED <<stock, order, intent, pay, promo, events, processed,
        emailing, crashes>>
  BY DEF RefundRefused
<1> HIDE DEF row
<1>5. /\ OrderType' /\ PayType' /\ RefundType'
      /\ PaymentsSettled' /\ OrdersFinal /\ RefundsKnown'
  BY <1>1, <1>2, <1>3, <1>4, RefundRewritten
<1> QED BY <1>4, <1>5, IdleWork, SameParts, InvParts DEF Kept

LEMMA RefundRowStep ==
    ASSUME Inv, RefundRow
    PROVE  Kept
<1> DEFINE k == work.of
           row == [refund[k] EXCEPT !.status = work.result, !.linked = TRUE]
<1>1. /\ k \in Refunds /\ refund[k] \in RefundRows
      /\ order[refund[k].of].status \in Settled /\ pay[refund[k].of] \in PaymentRow
  BY RefundWork DEF RefundRow
<1>2. work \in RefundGiven /\ work.result \in {"succeeded", "pending"}
  BY WorkKinds DEF Inv, RefundRow, RefundGiven
<1>3. row \in RefundRows /\ row.of = refund[k].of
  BY <1>1, <1>2 DEF RefundRows, RefundStatus
<1>4. refund' = [refund EXCEPT ![k] = row]
  BY DEF RefundRow
<1>5. work' = [work EXCEPT !.at = "amount"] /\ UNCHANGED <<stock, order, intent, pay,
        promo, events, processed, emailing, crashes>>
  BY DEF RefundRow
<1>6. work' \in RefundGiven /\ work'.op = "refund" /\ work'.of = k
  BY <1>2, <1>5 DEF RefundGiven
<1> HIDE DEF row, k
<1>7. /\ OrderType' /\ PayType' /\ RefundType'
      /\ PaymentsSettled' /\ OrdersFinal /\ RefundsKnown' /\ refund'[k] = row
  BY <1>1, <1>3, <1>4, <1>5, RefundRewritten
<1>8. AtWork'
  BY <1>1, <1>3, <1>5, <1>6, <1>7 DEF AtWork, CheckoutAtWork, CancelAtWork, SaleAtWork,
                                      RefundAtWork
<1>9. (work \in Work \cup {None})'
  BY <1>6 DEF Work, RefundGiven
<1> QED BY <1>5, <1>7, <1>8, <1>9, SameParts, InvParts DEF Kept

LEMMA RefundAmountStep ==
    ASSUME Inv, RefundAmount
    PROVE  Kept
<1> DEFINE k == work.of
           o == refund[k].of
           row == AddRefunded(o, refund[k].amount)
<1>1. /\ k \in Refunds /\ refund[k] \in RefundRows /\ o \in Orders
      /\ refund[k].amount \in Nat
      /\ order[o].status \in Settled /\ pay[o] \in PaymentRow
  BY RefundWork DEF RefundAmount
<1>2. row \in PaymentRow
  BY <1>1, AddRefundedRow
<1>3. pay' = [pay EXCEPT ![o] = row]
  BY DEF RefundAmount
<1>4. work' = [work EXCEPT !.at = "order"] /\ UNCHANGED <<stock, order, intent, promo,
        refund, events, processed, emailing, crashes>>
  BY DEF RefundAmount
<1>5. work' \in RefundGiven /\ work'.op = "refund" /\ work'.of = k
  BY <1>4, WorkKinds DEF Inv, RefundAmount, RefundGiven
<1> HIDE DEF row
<1>6. /\ OrderType' /\ PayType' /\ RefundType'
      /\ PaymentsSettled' /\ OrdersFinal /\ RefundsKnown' /\ pay'[o] \in PaymentRow
  BY <1>1, <1>2, <1>3, <1>4, PaymentWritten
<1>7. AtWork'
  BY <1>1, <1>4, <1>5, <1>6 DEF AtWork, CheckoutAtWork, CancelAtWork, SaleAtWork,
                                RefundAtWork
<1>8. (work \in Work \cup {None})'
  BY <1>5 DEF Work, RefundGiven
<1> QED BY <1>4, <1>6, <1>7, <1>8, SameParts, InvParts DEF Kept

LEMMA RefundOrderStep ==
    ASSUME Inv, RefundOrder
    PROVE  Kept
<1> DEFINE o == refund[work.of].of
           s == IF pay[o].refunded + refund[work.of].amount >= pay[o].amount
                THEN "refunded" ELSE "partially_refunded"
<1>1. o \in Orders /\ order[o].status \in Settled
  BY RefundWork DEF RefundOrder
<1>2. s \in Settled
  BY DEF Settled
<1>3. order' = [order EXCEPT ![o].status = s]
  BY DEF RefundOrder
<1>4. work' = None /\ UNCHANGED <<stock, intent, pay, promo, refund, events, processed,
        emailing, crashes>>
  BY DEF RefundOrder
<1> HIDE DEF s, o
<1>5. /\ OrderType' /\ OrdersFinal
      /\ \A p \in Orders : order[p].status \in Settled => order'[p].status \in Settled
  BY <1>1, <1>2, <1>3, SettledRow
<1>6. PaymentsSettled'
  BY <1>4, <1>5 DEF Inv, PaymentsSettled
<1>7. PayType' /\ RefundType' /\ RefundsKnown'
  BY <1>4, TypeParts DEF Inv, PayType, RefundType, RefundsKnown
<1> QED BY <1>4, <1>5, <1>6, <1>7, IdleWork, SameParts, InvParts DEF Kept

LEMMA CancelRefundStep ==
    ASSUME Inv, NEW k \in Refunds, CancelRefund(k)
    PROVE  Kept
<1> DEFINE row == [refund[k] EXCEPT !.status = "cancelled"]
<1>1. refund[k] \in RefundRows
  BY TypeParts DEF Inv, RefundType, CancelRefund
<1>2. row \in RefundRows /\ row.of = refund[k].of
  BY <1>1 DEF RefundRows, RefundStatus
<1>3. /\ refund' = [refund EXCEPT ![k] = row] /\ work = None
      /\ UNCHANGED <<stock, order, intent, pay, promo, events, processed, emailing,
                     work, crashes>>
  BY DEF CancelRefund
<1> HIDE DEF row
<1>4. /\ OrderType' /\ PayType' /\ RefundType'
      /\ PaymentsSettled' /\ OrdersFinal /\ RefundsKnown'
  BY <1>1, <1>2, <1>3, RefundRewritten
<1> QED BY <1>3, <1>4, IdleWork, SameParts, InvParts DEF Kept

LEMMA ChargeRefundedStep ==
    ASSUME Inv, NEW e \in Events, ChargeRefunded(e)
    PROVE  Kept
<1> DEFINE o == refund[e.of].of
           row == AddRefunded(o, intent[o].amount)
<1>1. e \in RefundEvents /\ e.of \in Refunds /\ e \in events /\ work = None
  BY EventKinds DEF ChargeRefunded, RefundEvents, Deliverable
<1>2. o \in Orders
  BY <1>1 DEF Inv, RefundsKnown, RefundRows
<1>3. /\ processed' = processed \cup {e}
      /\ UNCHANGED <<stock, intent, promo, refund, events, emailing, work, crashes>>
  BY DEF ChargeRefunded, Processed
<1>4. OrderType /\ PayType /\ RefundType /\ IntentType
  BY TypeParts DEF Inv
<1>5. EventsType'
  BY <1>1, <1>3, TypeParts DEF Inv, EventsType
<1>6. OrderType' /\ PayType' /\ RefundType' /\ PaymentsSettled' /\ OrdersFinal
      /\ RefundsKnown'
  <2>1. CASE UNCHANGED <<pay, order>>
    BY <1>3, <2>1, SameRows
  <2>2. CASE /\ pay[o] # None
             /\ pay' = [pay EXCEPT ![o] = row]
             /\ order' = [order EXCEPT ![o].status = pay'[o].status]
    <3>1. pay[o] \in PaymentRow /\ order[o].status \in Settled
      BY <1>2, <1>4, <2>2 DEF PayType, Inv, PaymentsSettled
    <3>2. intent[o].amount \in Nat
      BY <1>2, <1>4 DEF IntentType, IntentRow
    <3>3. row \in PaymentRow /\ row.status \in Settled
      BY <1>2, <3>1, <3>2, AddRefundedRow
    <3> HIDE DEF row, o
    <3>4. PayType' /\ pay'[o] = row /\ \A p \in Orders : p # o => pay'[p] = pay[p]
      BY <1>2, <1>4, <2>2, <3>3, PayChange
    <3>5. /\ OrderType' /\ OrdersFinal
          /\ \A p \in Orders : order[p].status \in Settled => order'[p].status \in Settled
      BY <1>2, <2>2, <3>1, <3>3, <3>4, SettledRow
    <3>6. PaymentsSettled'
      BY <1>2, <3>1, <3>4, <3>5 DEF Inv, PaymentsSettled
    <3>7. RefundType' /\ RefundsKnown'
      BY <1>3, <1>4 DEF Inv, RefundType, RefundsKnown
    <3> QED BY <3>4, <3>5, <3>6, <3>7
  <2> QED BY <2>1, <2>2 DEF ChargeRefunded
<1> QED BY <1>1, <1>3, <1>5, <1>6, IdleWork, SameParts, InvParts DEF Kept

LEMMA RefundEventStep ==
    ASSUME Inv, NEW e \in Events, RefundEvent(e)
    PROVE  Kept
<1> DEFINE k == e.of
           s == IF ~refund[k].linked THEN refund[k].status
                ELSE IF e.type = "refund_succeeded" THEN "succeeded" ELSE "failed"
           row == [refund[k] EXCEPT !.status = s]
<1>1. e \in RefundEvents /\ k \in Refunds /\ e \in events /\ work = None
  BY EventKinds DEF RefundEvent, RefundEvents, Deliverable
<1>2. refund[k] \in RefundRows
  BY <1>1 DEF Inv, RefundsKnown
<1>3. s \in RefundStatus
  BY <1>2 DEF RefundRows, RefundStatus
<1>4. refund' = [refund EXCEPT ![k] = row]
  BY DEF RefundEvent
<1>5. UNCHANGED <<stock, order, intent, pay, promo, events, work, crashes>>
  BY DEF RefundEvent
<1> HIDE DEF s
<1>6. row \in RefundRows /\ row.of = refund[k].of
  BY <1>2, <1>3 DEF RefundRows
<1>7. EventsType'
  BY <1>1, <1>5, TypeParts DEF Inv, EventsType, RefundEvent, Processed
<1> HIDE DEF row, k
<1>8. /\ OrderType' /\ PayType' /\ RefundType'
      /\ PaymentsSettled' /\ OrdersFinal /\ RefundsKnown'
  BY <1>1, <1>2, <1>4, <1>5, <1>6, RefundRewritten
<1> QED BY <1>1, <1>5, <1>7, <1>8, IdleWork, SameParts, InvParts DEF Kept

LEMMA CrashStep ==
    ASSUME Inv, Crash
    PROVE  Kept
<1>1. /\ crashes < MaxCrashes /\ crashes' = crashes + 1 /\ work' = None /\ emailing' = {}
      /\ UNCHANGED <<stock, order, intent, pay, promo, refund, events, processed>>
  BY DEF Crash
<1>2. CrashesType' /\ EventsType'
  BY <1>1, CrashesAssumption, TypeParts DEF Inv, CrashesType, EventsType
<1> QED BY <1>1, <1>2, IdleWork, SameRows, SameParts, InvParts DEF Kept

LEMMA IdleStep ==
    ASSUME Inv, UNCHANGED vars
    PROVE  Kept
<1>1. UNCHANGED <<stock, order, intent, pay, promo, refund, events, processed, emailing,
                  work, crashes>>
  BY DEF vars
<1> QED BY <1>1, SameWork, SameRows, SameParts, InvParts DEF Kept

-----------------------------------------------------------------------------
LEMMA InvStep ==
    ASSUME Inv, [Next]_vars
    PROVE  Kept
<1>0. StockType'
  BY StockStep
<1>1. ASSUME NEW o \in Orders, Buyer(o) PROVE Kept
  BY <1>1, CheckoutStep, ApplyPromoStep, CancelOrderStep, StripeStep DEF Buyer
<1>2. ASSUME NEW e \in Events, Deliver(e) \/ MarkProcessed(e) PROVE Kept
  BY <1>2, PaymentSucceededStep, AnsweredStep, PaymentFailedStep, PaymentCancelledStep,
     ChargeRefundedStep, RefundEventStep, MarkProcessedStep DEF Deliver
<1>3. CASE Continue
  BY <1>0, <1>3, AddItemStep, ReserveItemStep, FreeOrderStep, CreateIntentStep,
     IntentFailsStep, LinkIntentStep, ReleaseItemStep, MarkCancelledStep,
     RecordPaymentStep, CountItemStep, CountPromoStep, CreateRefundStep,
     RefundRefusedStep, RefundRowStep, RefundAmountStep, RefundOrderStep DEF Continue
<1>4. ASSUME NEW k \in Refunds, NEW o \in Orders, NEW amount \in 1 .. Refundable(o),
             InitiateRefund(k, o, amount)
      PROVE  Kept
  BY <1>4, InitiateRefundStep
<1>5. ASSUME NEW k \in Refunds, CancelRefund(k) \/ RefundSettles(k) PROVE Kept
  BY <1>5, CancelRefundStep, RefundSettlesStep
<1>6. CASE Crash \/ UNCHANGED vars
  BY <1>6, CrashStep, IdleStep
<1> QED BY <1>1, <1>2, <1>3, <1>4, <1>5, <1>6 DEF Next

LEMMA OrdersInvariant == Spec => []Inv
<1>1. Inv /\ [Next]_vars => Inv'
  BY InvStep DEF Kept
<1> QED BY <1>1, InitInv, PTL DEF Spec

\* Every row of every table stays what its columns allow, with at most as many
\* item rows as the cart has lines, and only known events answered.
THEOREM TicketTypes == Spec => []TypeOK
<1>1. Inv => TypeOK
  BY DEF Inv
<1> QED BY <1>1, OrdersInvariant, PTL

\* The stock of a ticket type is never oversold, wherever the service is
\* restarted and however often Stripe repeats an event
\* (models/ticket_type.py, reserve_quantity to increment_quantity_sold).
THEOREM TicketsNeverOversold == Spec => []NeverOversold
<1>1. Init => NeverOversold
  BY TotalAssumption DEF Init, NeverOversold
<1>2. Inv /\ NeverOversold /\ [Next]_vars => NeverOversold'
  BY StockStep
<1> QED BY <1>1, <1>2, OrdersInvariant, PTL DEF Spec

\* An order that was completed is never cancelled or reopened, and one that
\* was cancelled is never completed, by the buyer, a late event or a refund.
THEOREM OrdersStayFinal == Spec => [][OrdersFinal]_vars
<1>1. Inv /\ [Next]_vars => [OrdersFinal]_vars
  BY InvStep DEF Kept
<1> QED BY <1>1, OrdersInvariant, PTL DEF Spec
-----------------------------------------------------------------------------
(***************************************************************************)
(* Sales are counted once.  A ticket of a settled order is counted unless  *)
(* the sale at work has its line still before it: the count of a type is   *)
(* never above the tickets counted, and these never become fewer.          *)
(***************************************************************************)
SettledOrders == {p \in Orders : order[p].status \in Settled}

Uncounted(o, i) == work # None /\ work.op = "sale" /\ work.of = o /\ i <= work.left

Counted(t) == {u \in SettledTickets(t) : ~Uncounted(u[1][1], u[1][2])}

CountedOnce ==
    /\ IsFiniteSet(SettledOrders)
    /\ \A t \in Types : stock[t].sold <= Cardinality(Counted(t))

LEMMA FiniteImage ==
    ASSUME NEW S, IsFiniteSet(S), NEW f, f = [x \in S |-> f[x]]
    PROVE  IsFiniteSet({f[x] : x \in S})
<1> DEFINE T == {f[x] : x \in S}
<1>1. f \in Surjection(S, T)
  BY DEF Surjection
<1> QED BY <1>1, FS_Surjection

LEMMA TicketsOnLine ==
    ASSUME NEW o \in Orders, NEW i \in 1 .. Len(Cart[o])
    PROVE  /\ IsFiniteSet(TicketsOn(o, i))
           /\ Cardinality(TicketsOn(o, i)) = Cart[o][i].qty
<1> DEFINE q == Cart[o][i].qty
           l == <<o, i>>
<1>1. q \in Nat \ {0}
  BY Lines
<1>0. TicketsOn(o, i) = {l} \X (1 .. q)
  BY DEF TicketsOn
<1> HIDE DEF q, l
<1>2. IsFiniteSet(1 .. q) /\ Cardinality(1 .. q) = q
  BY <1>1, FS_Interval
<1>3. IsFiniteSet({l}) /\ Cardinality({l}) = 1
  BY FS_Singleton
<1>4. /\ IsFiniteSet({l} \X (1 .. q))
      /\ Cardinality({l} \X (1 .. q)) = Cardinality({l}) * Cardinality(1 .. q)
  BY <1>2, <1>3, FS_Product
<1> QED BY <1>0, <1>1, <1>2, <1>3, <1>4 DEF q

LEMMA TicketsOfOrder ==
    ASSUME NEW o \in Orders, NEW t
    PROVE  IsFiniteSet(TicketsOf(o, t))
<1> DEFINE D == {j \in DOMAIN Cart[o] : Cart[o][j].type = t}
           f == [i \in D |-> TicketsOn(o, i)]
<1>1. DOMAIN Cart[o] = 1 .. Len(Cart[o]) /\ Len(Cart[o]) \in Nat
  BY CartAssumption
<1>2. IsFiniteSet(D)
  <2>1. IsFiniteSet(1 .. Len(Cart[o]))
    BY <1>1, FS_Interval
  <2>2. D \in SUBSET (1 .. Len(Cart[o]))
    BY <1>1
  <2> QED BY <2>1, <2>2, FS_Subset
<1>3. \A i \in D : IsFiniteSet(TicketsOn(o, i))
  BY <1>1, TicketsOnLine
<1>4. TicketsOf(o, t) = UNION {f[i] : i \in D}
  BY DEF TicketsOf
<1>5. \A T \in {f[i] : i \in D} : IsFiniteSet(T)
  BY <1>3
<1>6. f = [i \in D |-> f[i]]
  OBVIOUS
<1> HIDE DEF f, D
<1>7. IsFiniteSet({f[i] : i \in D})
  BY <1>2, <1>6, FiniteImage
<1> QED BY <1>4, <1>5, <1>7, FS_UNION

LEMMA SettledTicketsFinite ==
    ASSUME IsFiniteSet(SettledOrders), NEW t
    PROVE  IsFiniteSet(SettledTickets(t))
<1> DEFINE f == [o \in SettledOrders |-> TicketsOf(o, t)]
<1>1. SettledTickets(t) = UNION {f[o] : o \in SettledOrders}
  BY DEF SettledTickets, SettledOrders
<1>2. \A T \in {f[o] : o \in SettledOrders} : IsFiniteSet(T)
  BY TicketsOfOrder DEF SettledOrders
<1>3. f = [o \in SettledOrders |-> f[o]]
  OBVIOUS
<1> HIDE DEF f
<1>4. IsFiniteSet({f[o] : o \in SettledOrders})
  BY <1>3, FiniteImage
<1> QED BY <1>1, <1>2, <1>4, FS_UNION

LEMMA SettledTicket ==
    ASSUME NEW t, NEW u
    PROVE  u \in SettledTickets(t) <=>
             \E o \in SettledOrders : \E i \in DOMAIN Cart[o] :
                Cart[o][i].type = t /\ u \in TicketsOn(o, i)
BY DEF SettledTickets, TicketsOf, SettledOrders
\* A step changes the status of one order at most.
OneOrderMoves ==
    \E x : \A p \in Orders : p # x => order'[p].status = order[p].status

LEMMA OrdersMoveAlone ==
    ASSUME Inv, [Next]_vars
    PROVE  OneOrderMoves
<1>0. order \in [Orders -> OrderRow]
  BY TypeParts DEF Inv, OrderType
<1>1. ASSUME NEW x, NEW row, order' = [order EXCEPT ![x] = row]
      PROVE  OneOrderMoves
  BY <1>0, <1>1 DEF OneOrderMoves
<1>2. CASE order' = order
  BY <1>2 DEF OneOrderMoves
<1>3. ASSUME NEW o \in Orders, Buyer(o) PROVE OneOrderMoves
  <2>1. CASE Checkout(o)
    BY <1>1, <2>1 DEF Checkout
  <2>2. CASE ApplyPromoCode(o)
    BY <1>0, <2>2 DEF ApplyPromoCode, OneOrderMoves
  <2>3. CASE RemovePromoCode(o)
    BY <1>0, <2>3 DEF RemovePromoCode, OneOrderMoves
  <2> QED BY <1>2, <1>3, <2>1, <2>2, <2>3 DEF Buyer, CancelOrder, BuyerPays,
                                              PaymentDeclined, IntentLapses
<1>4. ASSUME NEW e \in Events, Deliver(e) \/ MarkProcessed(e) PROVE OneOrderMoves
  <2>1. CASE PaymentSucceeded(e)
    BY <1>0, <2>1 DEF PaymentSucceeded, OneOrderMoves
  <2>2. CASE ChargeRefunded(e)
    <3> DEFINE o == refund[e.of].of
    <3>1. CASE order' = [order EXCEPT ![o].status = pay'[o].status]
      BY <1>0, <3>1 DEF OneOrderMoves
    <3> QED BY <1>2, <2>2, <3>1 DEF ChargeRefunded
  <2> QED BY <1>2, <1>4, <2>1, <2>2 DEF Deliver, PaymentSucceededAgain, PaymentFailed,
                                        PaymentCancelled, RefundEvent, MarkProcessed
<1>5. CASE Continue
  <2>1. CASE AddItem
    BY <1>0, <2>1 DEF AddItem, OneOrderMoves
  <2>2. CASE IntentFails \/ LinkIntent \/ MarkCancelled
    BY <1>0, <2>2 DEF IntentFails, LinkIntent, MarkCancelled, OneOrderMoves
  <2>3. CASE RefundOrder
    BY <1>0, <2>3 DEF RefundOrder, OneOrderMoves
  <2> QED BY <1>2, <1>5, <2>1, <2>2, <2>3
          DEF Continue, ReserveItem, FreeOrder, CreateIntent, ReleaseItem,
              RecordPayment, CountItem, CountPromo, CreateRefund, RefundRefused,
              RefundRow, RefundAmount
<1>6. ASSUME NEW k, NEW o, NEW amount,
             InitiateRefund(k, o, amount) \/ CancelRefund(k) \/ RefundSettles(k)
      PROVE  OneOrderMoves
  BY <1>2, <1>6 DEF InitiateRefund, CancelRefund, RefundSettles
<1>7. CASE Crash \/ UNCHANGED vars
  BY <1>2, <1>7 DEF Crash, vars
<1> QED BY <1>3, <1>4, <1>5, <1>6, <1>7 DEF Next

LEMMA SettledStayFinite ==
    ASSUME OneOrderMoves, IsFiniteSet(SettledOrders)
    PROVE  IsFiniteSet(SettledOrders')
<1>1. PICK x : \A p \in Orders : p # x => order'[p].status = order[p].status
  BY DEF OneOrderMoves
<1>2. IsFiniteSet(SettledOrders \cup {x})
  BY FS_AddElement
<1>3. SettledOrders' \in SUBSET (SettledOrders \cup {x})
  BY <1>1 DEF SettledOrders
<1> QED BY <1>2, <1>3, FS_Subset

\* A sale at work goes on where it was, or is of an order that was pending.
SaleGoesOn ==
    work' # None /\ work'.op = "sale" =>
        \/ order[work'.of].status \notin Settled
        \/ /\ work # None /\ work.op = "sale" /\ work'.of = work.of
           /\ work'.left = work.left

LEMMA SalesGoOn ==
    ASSUME Inv, [Next]_vars, ~CountItem
    PROVE  SaleGoesOn
<1>1. CASE work' = work \/ work' = None
  BY <1>1 DEF SaleGoesOn
<1>2. ASSUME NEW o \in Orders, Buyer(o) PROVE SaleGoesOn
  BY <1>1, <1>2 DEF Buyer, Checkout, ApplyPromoCode, RemovePromoCode, CancelOrder,
                    BuyerPays, PaymentDeclined, IntentLapses, SaleGoesOn
<1>3. ASSUME NEW e \in Events, Deliver(e) \/ MarkProcessed(e) PROVE SaleGoesOn
  <2>1. CASE PaymentSucceeded(e)
    BY <2>1 DEF PaymentSucceeded, MarksCompleted, Settled, SaleGoesOn
  <2>2. CASE PaymentCancelled(e)
    BY <1>1, <2>2 DEF PaymentCancelled, SaleGoesOn
  <2> QED BY <1>1, <1>3, <2>1, <2>2 DEF Deliver, PaymentSucceededAgain, PaymentFailed,
                                        ChargeRefunded, RefundEvent, MarkProcessed
<1>4. CASE Continue
  <2>1. CASE AddItem \/ ReserveItem \/ CreateIntent
    <3>1. work \in CheckoutWork
      BY <2>1, WorkKinds DEF Inv, AddItem, ReserveItem, CreateIntent
    <3>2. work' = None \/ \E at : work' = [work EXCEPT !.at = at]
      BY <2>1 DEF AddItem, ReserveItem, CreateIntent
    <3>3. work' = None \/ work'.op = "checkout"
      BY <3>1, <3>2 DEF CheckoutWork
    <3> QED BY <3>3 DEF SaleGoesOn
  <2>2. CASE ReleaseItem
    <3>1. work \in CancelWork
      BY <2>2, WorkKinds DEF Inv, ReleaseItem
    <3>2. work'.op = "cancel"
      BY <2>2, <3>1 DEF ReleaseItem, CancelWork
    <3> QED BY <3>2 DEF SaleGoesOn
  <2>3. CASE RecordPayment
    <3>1. work \in SaleWork /\ work # None
      BY <2>3, WorkKinds DEF Inv, RecordPayment
    <3>2. work' = [work EXCEPT !.at = "stock"] /\ work.op = "sale"
      BY <2>3 DEF RecordPayment
    <3>3. work'.of = work.of /\ work'.left = work.left
      BY <3>1, <3>2 DEF SaleWork
    <3> QED BY <3>1, <3>2, <3>3 DEF SaleGoesOn
  <2>4. CASE CreateRefund
    <3>1. work'.op = "refund"
      BY <2>4 DEF CreateRefund
    <3> QED BY <3>1 DEF SaleGoesOn
  <2>5. CASE RefundRow \/ RefundAmount
    <3>1. work \in RefundGiven
      BY <2>5, WorkKinds DEF Inv, RefundRow, RefundAmount
    <3>2. \E at : work' = [work EXCEPT !.at = at]
      BY <2>5 DEF RefundRow, RefundAmount
    <3>3. work'.op = "refund"
      BY <3>1, <3>2 DEF RefundGiven
    <3> QED BY <3>3 DEF SaleGoesOn
  <2> QED BY <1>1, <1>4, <2>1, <2>2, <2>3, <2>4, <2>5
          DEF Continue, FreeOrder, IntentFails, LinkIntent, MarkCancelled, CountPromo,
              RefundRefused, RefundOrder
<1>5. ASSUME NEW k, NEW o, NEW amount,
             InitiateRefund(k, o, amount) \/ CancelRefund(k) \/ RefundSettles(k)
      PROVE  SaleGoesOn
  <2>1. CASE InitiateRefund(k, o, amount)
    BY <2>1 DEF InitiateRefund, SaleGoesOn
  <2> QED BY <1>1, <1>5, <2>1 DEF CancelRefund, RefundSettles
<1>6. CASE Crash \/ UNCHANGED vars
  BY <1>1, <1>6 DEF Crash, vars
<1> QED BY <1>2, <1>3, <1>4, <1>5, <1>6 DEF Next
LEMMA TicketOnLine ==
    ASSUME NEW o, NEW i, NEW u \in TicketsOn(o, i)
    PROVE  u[1][1] = o /\ u[1][2] = i
BY DEF TicketsOn

LEMMA SoldStays ==
    ASSUME Inv, [Next]_vars, ~CountItem, NEW t \in Types
    PROVE  stock'[t].sold = stock[t].sold
<1>1. stock \in [Types -> [sold : Nat, reserved : Nat]]
  BY TypeParts DEF Inv, StockType
<1>2. CASE stock' = stock
  BY <1>2
<1>3. ASSUME NEW x, NEW n, stock' = [stock EXCEPT ![x].reserved = n]
      PROVE  stock'[t].sold = stock[t].sold
  BY <1>1, <1>3
<1>4. CASE ReserveItem
  BY <1>2, <1>3, <1>4 DEF ReserveItem, ReserveQuantity
<1>5. CASE ReleaseItem
  BY <1>3, <1>5 DEF ReleaseItem, ReleaseQuantity
<1> QED BY <1>2, <1>4, <1>5, StockSteps

LEMMA CountedStay ==
    ASSUME OrdersFinal, NEW t,
           \A o \in SettledOrders : \A i \in Int : Uncounted(o, i)' => Uncounted(o, i)
    PROVE  Counted(t) \subseteq Counted(t)'
<1> SUFFICES ASSUME NEW u \in Counted(t) PROVE u \in Counted(t)'
  OBVIOUS
<1>1. u \in SettledTickets(t) /\ ~Uncounted(u[1][1], u[1][2])
  BY DEF Counted
<1>2. PICK o \in SettledOrders : \E i \in DOMAIN Cart[o] :
        Cart[o][i].type = t /\ u \in TicketsOn(o, i)
  BY <1>1, SettledTicket
<1> PICK i \in DOMAIN Cart[o] : Cart[o][i].type = t /\ u \in TicketsOn(o, i)
  BY <1>2
<1> i \in Int
  BY CartAssumption DEF SettledOrders
<1>3. u[1][1] = o /\ u[1][2] = i
  BY TicketOnLine
<1>4. o \in SettledOrders'
  BY DEF SettledOrders, OrdersFinal
<1>5. u \in SettledTickets(t)'
  BY <1>4 DEF SettledTickets, TicketsOf, SettledOrders, TicketsOn
<1>6. ~Uncounted(u[1][1], u[1][2])'
  BY <1>1, <1>3
<1> QED BY <1>5, <1>6 DEF Counted

LEMMA CountedFinite ==
    ASSUME IsFiniteSet(SettledOrders), NEW t
    PROVE  IsFiniteSet(Counted(t)) /\ Cardinality(Counted(t)) \in Nat
<1>1. IsFiniteSet(SettledTickets(t))
  BY SettledTicketsFinite
<1>2. Counted(t) \in SUBSET SettledTickets(t)
  BY DEF Counted
<1> QED BY <1>1, <1>2, FS_Subset, FS_CardinalityType

LEMMA CountedNext ==
    ASSUME IsFiniteSet(SettledOrders'), NEW t
    PROVE  IsFiniteSet(Counted(t)') /\ Cardinality(Counted(t)') \in Nat
<1> PICK S : S = SettledOrders'
  OBVIOUS
<1> DEFINE f == [o \in S |-> TicketsOf(o, t)]
<1>1. SettledTickets(t)' = UNION {f[o] : o \in S}
  <2>1. SettledTickets(t)' = UNION {TicketsOf(o, t) : o \in S}
    BY DEF SettledTickets, SettledOrders, TicketsOf, TicketsOn
  <2>2. {f[o] : o \in S} = {TicketsOf(o, t) : o \in S}
    OBVIOUS
  <2> QED BY <2>1, <2>2
<1>2. \A T \in {f[o] : o \in S} : IsFiniteSet(T)
  BY TicketsOfOrder DEF SettledOrders
<1>3. f = [o \in S |-> f[o]]
  OBVIOUS
<1> HIDE DEF f
<1>4. IsFiniteSet({f[o] : o \in S})
  BY <1>3, FiniteImage
<1>5. IsFiniteSet(SettledTickets(t)')
  BY <1>1, <1>2, <1>4, FS_UNION
<1>6. Counted(t)' \in SUBSET SettledTickets(t)'
  BY DEF Counted
<1> QED BY <1>5, <1>6, FS_Subset, FS_CardinalityType

LEMMA NothingCounted ==
    ASSUME Inv, [Next]_vars, ~CountItem, CountedOnce
    PROVE  CountedOnce'
<1>1. OrdersFinal /\ SaleGoesOn /\ IsFiniteSet(SettledOrders')
  BY InvStep, SalesGoOn, OrdersMoveAlone, SettledStayFinite DEF Kept, CountedOnce
<1>2. \A o \in SettledOrders : \A i \in Int : Uncounted(o, i)' => Uncounted(o, i)
  BY <1>1 DEF Uncounted, SaleGoesOn, SettledOrders
<1>3. ASSUME NEW t \in Types
      PROVE  (stock[t].sold <= Cardinality(Counted(t)))'
  <2>1. Counted(t) \in SUBSET Counted(t)'
    BY <1>1, <1>2, CountedStay
  <2>2. IsFiniteSet(Counted(t)) /\ Cardinality(Counted(t)) \in Nat
    BY CountedFinite DEF CountedOnce
  <2>3. IsFiniteSet(Counted(t)') /\ Cardinality(Counted(t)') \in Nat
    BY <1>1, CountedNext
  <2>4. Cardinality(Counted(t)) <= Cardinality(Counted(t)')
    BY <2>1, <2>3, FS_Subset
  <2>5. stock'[t].sold = stock[t].sold /\ stock[t].sold \in Nat
    BY SoldStays, TypeParts DEF Inv, StockType
  <2>6. stock[t].sold <= Cardinality(Counted(t))
    BY DEF CountedOnce
  <2> QED BY <2>2, <2>3, <2>4, <2>5, <2>6
<1> QED BY <1>1, <1>3 DEF CountedOnce

LEMMA LineCounted ==
    ASSUME Inv, CountItem, CountedOnce
    PROVE  CountedOnce'
<1>0. PICK o, n : o = work.of /\ n = work.left
  OBVIOUS
<1> DEFINE line == Cart[o][n]
<1>1. work \in SaleWork /\ work # None /\ n > 0
  BY <1>0, WorkKinds DEF Inv, CountItem
<1>2. /\ o \in Orders /\ order[o].status \in Settled
      /\ n \in Nat /\ n <= Len(Cart[o])
  BY <1>0, <1>1 DEF Inv, CountItem, SaleAtWork, SaleWork
<1>3. Len(Cart[o]) \in Nat /\ DOMAIN Cart[o] = 1 .. Len(Cart[o])
  BY <1>2, CartAssumption
<1>4. n \in 1 .. Len(Cart[o])
  BY <1>1, <1>2, <1>3
<1>5. line.type \in Types /\ line.qty \in Nat
  BY <1>2, <1>4, Lines
<1>6. order' = order /\ work' = [work EXCEPT !.left = n - 1]
      /\ IncrementQuantitySold(line.type, line.qty)
  BY <1>0 DEF CountItem
<1>7. work'.of = o /\ work'.left = n - 1
  BY <1>0, <1>1, <1>6 DEF SaleWork
<1>8. OrdersFinal /\ SettledOrders' = SettledOrders
  BY <1>6 DEF OrdersFinal, SettledOrders
<1>9. o \in SettledOrders /\ IsFiniteSet(SettledOrders')
  BY <1>2, <1>8 DEF SettledOrders, CountedOnce
<1>10. Uncounted(o, n) /\ ~Uncounted(o, n)'
  BY <1>0, <1>1, <1>2, <1>7 DEF Uncounted, CountItem
<1>11. \A p \in SettledOrders : \A i \in Int : Uncounted(p, i)' => Uncounted(p, i)
  <2>1. work.op = "sale"
    BY DEF CountItem
  <2> QED BY <1>0, <1>1, <1>2, <1>7, <2>1 DEF Uncounted
<1> HIDE DEF line
<1>12. ASSUME NEW t \in Types
       PROVE  (stock[t].sold <= Cardinality(Counted(t)))'
  <2>1. Counted(t) \in SUBSET Counted(t)'
    BY <1>8, <1>11, CountedStay
  <2>2. IsFiniteSet(Counted(t)) /\ Cardinality(Counted(t)) \in Nat
    BY CountedFinite DEF CountedOnce
  <2>3. IsFiniteSet(Counted(t)') /\ Cardinality(Counted(t)') \in Nat
    BY <1>9, CountedNext
  <2>4. /\ stock[t].sold \in Nat /\ stock[t].sold <= Cardinality(Counted(t))
        /\ stock \in [Types -> [sold : Nat, reserved : Nat]]
    BY TypeParts DEF Inv, StockType, CountedOnce
  <2>5. CASE stock'[t].sold = stock[t].sold
    <3>1. Cardinality(Counted(t)) <= Cardinality(Counted(t)')
      BY <2>1, <2>3, FS_Subset
    <3> QED BY <2>2, <2>3, <2>4, <2>5, <3>1
  <2>6. CASE t = line.type /\ stock'[t].sold = stock[t].sold + line.qty
    <3> DEFINE C == Counted(t) \cup TicketsOn(o, n)
    <3>1. IsFiniteSet(TicketsOn(o, n)) /\ Cardinality(TicketsOn(o, n)) = line.qty
      BY <1>2, <1>4, TicketsOnLine DEF line
    <3>2. Counted(t) \cap TicketsOn(o, n) = {}
      BY <1>10, TicketOnLine DEF Counted
    <3>3. Cardinality(C) = Cardinality(Counted(t)) + line.qty
      BY <1>5, <2>2, <3>1, <3>2, FS_Union, FS_EmptySet
    <3>4. TicketsOn(o, n) \subseteq Counted(t)'
      <4>1. TicketsOn(o, n) \subseteq SettledTickets(t)
        BY <1>3, <1>4, <1>9, <2>6, SettledTicket DEF line
      <4>2. SettledTickets(t)' = SettledTickets(t)
        BY <1>8 DEF SettledTickets, SettledOrders, TicketsOf, TicketsOn
      <4> SUFFICES ASSUME NEW u \in TicketsOn(o, n) PROVE u \in Counted(t)'
        OBVIOUS
      <4>3. u[1][1] = o /\ u[1][2] = n
        BY TicketOnLine
      <4>4. ~Uncounted(u[1][1], u[1][2])'
        BY <1>10, <4>3 DEF Uncounted
      <4> QED BY <4>1, <4>2, <4>4 DEF Counted
    <3>5. C \in SUBSET Counted(t)'
      BY <2>1, <3>4
    <3>6. Cardinality(C) <= Cardinality(Counted(t)')
      BY <2>3, <3>5, FS_Subset
    <3> QED BY <1>5, <2>2, <2>3, <2>4, <2>6, <3>3, <3>6
  <2>7. \/ stock'[t].sold = stock[t].sold
        \/ t = line.type /\ stock'[t].sold = stock[t].sold + line.qty
    BY <1>5, <1>6, <2>4 DEF IncrementQuantitySold
  <2> QED BY <2>5, <2>6, <2>7
<1> QED BY <1>9, <1>12 DEF CountedOnce

-----------------------------------------------------------------------------
LEMMA CountedInit == Init => CountedOnce
<1> SUFFICES ASSUME Init PROVE CountedOnce
  OBVIOUS
<1>1. SettledOrders = {}
  BY DEF Init, SettledOrders, Settled
<1>2. IsFiniteSet(SettledOrders)
  BY <1>1, FS_EmptySet
<1>3. ASSUME NEW t \in Types PROVE stock[t].sold <= Cardinality(Counted(t))
  <2>1. stock[t].sold = 0
    BY DEF Init
  <2>2. Cardinality(Counted(t)) \in Nat
    BY <1>2, CountedFinite
  <2> QED BY <2>1, <2>2
<1> QED BY <1>2, <1>3 DEF CountedOnce

\* What is sold of a type is on orders that are completed or refunded, line by
\* line, and counted once, however often Stripe repeats the event of a payment
\* and wherever the service is restarted (webhooks.py:168-257,
\* mark_completed_atomic, increment_quantity_sold).
THEOREM SalesAreCountedOnce == Spec => []SoldOnce
<1>1. Inv /\ CountedOnce /\ [Next]_vars => CountedOnce'
  BY NothingCounted, LineCounted
<1>2. Inv /\ CountedOnce => SoldOnce
  <2> SUFFICES ASSUME Inv, CountedOnce, NEW t \in Types
               PROVE  stock[t].sold <= Cardinality(SettledTickets(t))
    BY DEF SoldOnce
  <2>1. IsFiniteSet(SettledTickets(t))
    BY SettledTicketsFinite DEF CountedOnce
  <2>2. Counted(t) \in SUBSET SettledTickets(t)
    BY DEF Counted
  <2>3. /\ Cardinality(Counted(t)) <= Cardinality(SettledTickets(t))
        /\ Cardinality(Counted(t)) \in Nat /\ Cardinality(SettledTickets(t)) \in Nat
    BY <2>1, <2>2, FS_Subset, FS_CardinalityType
  <2>4. stock[t].sold <= Cardinality(Counted(t)) /\ stock[t].sold \in Nat
    BY TypeParts DEF CountedOnce, Inv, StockType
  <2> QED BY <2>3, <2>4
<1> QED BY <1>1, <1>2, CountedInit, OrdersInvariant, PTL DEF Spec
=============================================================================
