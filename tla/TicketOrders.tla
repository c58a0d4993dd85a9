---------------------------- MODULE TicketOrders ----------------------------
(***************************************************************************)
(* Ticket sales of event-lifecycle-service: orders, the stock of ticket    *)
(* types, Stripe payment intents, payments, promo codes and refunds        *)
(* (services/payment/payment_service.py, api/v1/endpoints/webhooks.py).    *)
(*                                                                         *)
(* Resolvers and webhooks run on one event loop and the Stripe client      *)
(* blocks it, so a handler gives way only when it awaits the user service  *)
(* for an email.  It commits many times, and a restart of the service may  *)
(* fall between any two commits: `work' is the handler at work with what   *)
(* it still has to do.                                                     *)
(***************************************************************************)
EXTENDS Integers, Sequences, FiniteSets

CONSTANTS
    Orders,         \* create_checkout_session calls and the orders they create
    Types,          \* ticket types
    Total,          \* Total[t]: quantity_total
    Cart,           \* Cart[o]: the items asked for, one at least; a type may
                    \* occur twice
    Price,          \* Price[o]: the subtotal
    Discount,       \* what the promo code takes off
    MaxUses,        \* max_uses of the promo code
    Refunds,        \* initiate_refund calls and the rows they create
    MaxCrashes,     \* restarts of the service
    None

ASSUME OrdersAssumption == None \notin Orders
ASSUME TotalAssumption == Total \in [Types -> Nat]
ASSUME CartAssumption ==
    /\ Cart \in [Orders -> Seq([type : Types, qty : Nat \ {0}])]
    /\ \A o \in Orders : Cart[o] # <<>>
ASSUME PriceAssumption ==
    Price \in [Orders -> Nat] /\ Discount \in Nat /\ MaxUses \in Nat
ASSUME CrashesAssumption == MaxCrashes \in Nat

VARIABLES
    stock,      \* stock[t]: quantity_sold and quantity_reserved
    order,      \* order[o]: the row, with the number of its item rows
    intent,     \* intent[o]: the payment intent at Stripe
    pay,        \* pay[o]: the payment row of o, or None
    promo,      \* the promo code: times_used and current_uses
    refund,     \* refund[k]: the refund row k, or None
    events,     \* what Stripe has to tell
    processed,  \* the events whose row says "processed"
    emailing,   \* events whose handler awaits the user service
    work,       \* the handler at work, or None
    crashes

vars == <<stock, order, intent, pay, promo, refund, events, processed,
          emailing, work, crashes>>

Settled == {"completed", "partially_refunded", "refunded"}
OrderStatus == {"none", "pending", "cancelled"} \cup Settled
PaymentStatus == {"succeeded", "failed", "partially_refunded", "refunded"}
RefundStatus == {"pending", "succeeded", "failed", "cancelled"}

\* Events about an order's intent and charge, and about a refund.
OrderEvents == [type : {"succeeded", "failed", "canceled"}, of : Orders]
RefundEvents ==
    [type : {"charge_refunded", "refund_succeeded", "refund_failed"},
     of : Refunds]
Events == OrderEvents \cup RefundEvents

\* Mutant: no max(0, ...).
NoFloor(n) == n

AtLeastZero(n) == IF n < 0 THEN 0 ELSE n

Init ==
    /\ stock = [t \in Types |-> [sold |-> 0, reserved |-> 0]]
    /\ order = [o \in Orders |-> [status |-> "none", items |-> 0, total |-> 0,
                                  promo |-> FALSE, linked |-> FALSE]]
    /\ intent = [o \in Orders |-> [state |-> "none", amount |-> 0, back |-> 0]]
    /\ pay = [o \in Orders |-> None]
    /\ promo = [times_used |-> 0, current_uses |-> 0]
    /\ refund = [k \in Refunds |-> None]
    /\ events = {}
    /\ processed = {}
    /\ emailing = {}
    /\ work = None
    /\ crashes = 0

-----------------------------------------------------------------------------
(* Ticket types *)

\* Mutant: reservations of pending orders are not subtracted.
UnsoldOnly(t) == Total[t] - stock[t].sold

Available(t) == Total[t] - stock[t].sold - stock[t].reserved

ReserveQuantity(t, q) ==
    stock' = [stock EXCEPT ![t].reserved = @ + q]

ReleaseQuantity(t, q) ==
    stock' = [stock EXCEPT ![t].reserved = AtLeastZero(@ - q)]

\* A sale beyond quantity_total is not counted, and nobody looks at the answer.
IncrementQuantitySold(t, q) ==
    stock' = IF stock[t].sold + q > Total[t]
             THEN stock
             ELSE [stock EXCEPT ![t] = [sold |-> @.sold + q,
                                        reserved |-> AtLeastZero(@.reserved - q)]]

PromoIsValid == promo.current_uses < MaxUses

-----------------------------------------------------------------------------
(* create_checkout_session: the checks and the pending order, then an item  *)
(* row and a reservation per line, then the intent and its id on the order. *)

Checkout(o) ==
    /\ work = None
    /\ order[o].status = "none"
    /\ \A i \in DOMAIN Cart[o] : Available(Cart[o][i].type) >= Cart[o][i].qty
    /\ \E code \in BOOLEAN :
         /\ code => PromoIsValid
         /\ order' = [order EXCEPT
              ![o] = [status |-> "pending", items |-> 0, promo |-> code,
                      total |-> AtLeastZero(Price[o] - IF code THEN Discount ELSE 0),
                      linked |-> FALSE]]
    /\ work' = [op |-> "checkout", of |-> o, at |-> "item"]
    /\ UNCHANGED <<stock, intent, pay, promo, refund, events, processed,
                   emailing, crashes>>

AddItem ==
    /\ work # None /\ work.op = "checkout" /\ work.at = "item"
    /\ order' = [order EXCEPT ![work.of].items = @ + 1]
    /\ work' = [work EXCEPT !.at = "reserve"]
    /\ UNCHANGED <<stock, intent, pay, promo, refund, events, processed,
                   emailing, crashes>>

\* A line that finds too little raises: order, items and earlier
\* reservations stay.
ReserveItem ==
    /\ work # None /\ work.op = "checkout" /\ work.at = "reserve"
    /\ LET n == order[work.of].items
           line == Cart[work.of][n]
       IN  \/ /\ Available(line.type) >= line.qty
              /\ ReserveQuantity(line.type, line.qty)
              /\ work' = [work EXCEPT !.at =
                            IF n < Len(Cart[work.of]) THEN "item" ELSE "intent"]
           \/ /\ Available(line.type) < line.qty
              /\ work' = None
              /\ UNCHANGED stock
    /\ UNCHANGED <<order, intent, pay, promo, refund, events, processed,
                   emailing, crashes>>

\* Nothing to pay: the order is returned as it is, pending.
FreeOrder ==
    /\ work # None /\ work.op = "checkout" /\ work.at = "intent"
    /\ order[work.of].total = 0
    /\ work' = None
    /\ UNCHANGED <<stock, order, intent, pay, promo, refund, events,
                   processed, emailing, crashes>>

CreateIntent ==
    /\ work # None /\ work.op = "checkout" /\ work.at = "intent"
    /\ order[work.of].total > 0
    /\ intent' = [intent EXCEPT ![work.of] =
                    [state |-> "open", amount |-> order[work.of].total,
                     back |-> 0]]
    /\ work' = [work EXCEPT !.at = "link"]
    /\ UNCHANGED <<stock, order, pay, promo, refund, events, processed,
                   emailing, crashes>>

\* PaymentError cancels the order and keeps its reservations.
IntentFails ==
    /\ work # None /\ work.op = "checkout" /\ work.at = "intent"
    /\ order[work.of].total > 0
    /\ order' = [order EXCEPT ![work.of].status = "cancelled"]
    /\ work' = None
    /\ UNCHANGED <<stock, intent, pay, promo, refund, events, processed,
                   emailing, crashes>>

LinkIntent ==
    /\ work # None /\ work.op = "checkout" /\ work.at = "link"
    /\ order' = [order EXCEPT ![work.of].linked = TRUE]
    /\ work' = None
    /\ UNCHANGED <<stock, intent, pay, promo, refund, events, processed,
                   emailing, crashes>>

-----------------------------------------------------------------------------
(* Mutations on a pending order *)

ApplyPromoCode(o) ==
    /\ work = None
    /\ order[o].status = "pending"
    /\ PromoIsValid
    /\ order' = [order EXCEPT ![o].promo = TRUE,
                              ![o].total = AtLeastZero(Price[o] - Discount)]
    /\ UNCHANGED <<stock, intent, pay, promo, refund, events, processed,
                   emailing, work, crashes>>

RemovePromoCode(o) ==
    /\ work = None
    /\ order[o].status = "pending"
    /\ order' = [order EXCEPT ![o].promo = FALSE, ![o].total = Price[o]]
    /\ UNCHANGED <<stock, intent, pay, promo, refund, events, processed,
                   emailing, work, crashes>>

Cancellable(o) == order[o].status = "pending"

\* The intent is cancelled at Stripe, and an error there (it was paid, or the
\* call fails) is only logged.
CancelOrder(o) ==
    /\ work = None
    /\ Cancellable(o)
    /\ \/ /\ order[o].linked
          /\ intent[o].state = "open"
          /\ intent' = [intent EXCEPT ![o].state = "canceled"]
          /\ events' = events \cup {[type |-> "canceled", of |-> o]}
       \/ UNCHANGED <<intent, events>>
    /\ work' = [op |-> "cancel", of |-> o, left |-> order[o].items, event |-> None]
    /\ UNCHANGED <<stock, order, pay, promo, refund, processed, emailing,
                   crashes>>

\* One release and commit per item row, whether or not it was reserved.
ReleaseItem ==
    /\ work # None /\ work.op = "cancel" /\ work.left > 0
    /\ LET line == Cart[work.of][work.left]
       IN  ReleaseQuantity(line.type, line.qty)
    /\ work' = [work EXCEPT !.left = @ - 1]
    /\ UNCHANGED <<order, intent, pay, promo, refund, events, processed,
                   emailing, crashes>>

MarkCancelled ==
    /\ work # None /\ work.op = "cancel" /\ work.left = 0
    /\ order' = [order EXCEPT ![work.of].status = "cancelled"]
    /\ processed' = processed \cup ({work.event} \ {None})
    /\ work' = None
    /\ UNCHANGED <<stock, intent, pay, promo, refund, events, emailing,
                   crashes>>

-----------------------------------------------------------------------------
(* Stripe and the buyer *)

BuyerPays(o) ==
    /\ order[o].linked
    /\ intent[o].state = "open"
    /\ intent' = [intent EXCEPT ![o].state = "paid"]
    /\ events' = events \cup {[type |-> "succeeded", of |-> o]}
    /\ UNCHANGED <<stock, order, pay, promo, refund, processed, emailing,
                   work, crashes>>

\* A declined attempt leaves the intent open for another.
PaymentDeclined(o) ==
    /\ order[o].linked
    /\ intent[o].state = "open"
    /\ events' = events \cup {[type |-> "failed", of |-> o]}
    /\ UNCHANGED <<stock, order, intent, pay, promo, refund, processed,
                   emailing, work, crashes>>

IntentLapses(o) ==
    /\ intent[o].state = "open"
    /\ intent' = [intent EXCEPT ![o].state = "canceled"]
    /\ events' = events \cup {[type |-> "canceled", of |-> o]}
    /\ UNCHANGED <<stock, order, pay, promo, refund, processed, emailing,
                   work, crashes>>

\* A refund that Stripe accepted as pending is settled later.
RefundSettles(k) ==
    /\ [type |-> "charge_refunded", of |-> k] \in events
    /\ ~ \E e \in events : e.of = k /\ e.type # "charge_refunded"
    /\ \E outcome \in {"refund_succeeded", "refund_failed"} :
         events' = events \cup {[type |-> outcome, of |-> k]}
    /\ UNCHANGED <<stock, order, intent, pay, promo, refund, processed,
                   emailing, work, crashes>>

-----------------------------------------------------------------------------
(* stripe_webhook: Stripe delivers an event in any order and again until it *)
(* is answered, and perhaps after; a processed event is skipped.            *)

Deliverable(e) == work = None /\ e \in events \ processed

Processed(e) == processed' = processed \cup {e}

\* Mutant: the status of the order is read and then written, unconditionally.
MarksAnything(o) == order[o].status # "none"

\* mark_completed_atomic: UPDATE ... WHERE status = 'pending'.
MarksCompleted(o) == order[o].status = "pending"

\* _handle_payment_succeeded up to the commit of the transition.
PaymentSucceeded(e) ==
    /\ Deliverable(e)
    /\ e.type = "succeeded"
    /\ order[e.of].linked
    /\ MarksCompleted(e.of)
    /\ order' = [order EXCEPT ![e.of].status = "completed"]
    /\ work' = [op |-> "sale", of |-> e.of, event |-> e, left |-> order[e.of].items,
                at |-> "payment"]
    /\ UNCHANGED <<stock, intent, pay, promo, refund, events, processed,
                   emailing, crashes>>

\* No order carries the intent, or it is not pending any more.
PaymentSucceededAgain(e) ==
    /\ Deliverable(e)
    /\ e.type = "succeeded"
    /\ ~ (order[e.of].linked /\ MarksCompleted(e.of))
    /\ Processed(e)
    /\ UNCHANGED <<stock, order, intent, pay, promo, refund, events, emailing,
                   work, crashes>>

\* The payment is recorded with the order's total, whatever Stripe charged.
RecordPayment ==
    /\ work # None /\ work.op = "sale" /\ work.at = "payment"
    /\ pay' = [pay EXCEPT ![work.of] =
                 IF @ = None
                 THEN [status |-> "succeeded", amount |-> order[work.of].total,
                       refunded |-> 0]
                 ELSE [@ EXCEPT !.status = "succeeded"]]
    /\ work' = [work EXCEPT !.at = "stock"]
    /\ UNCHANGED <<stock, order, intent, promo, refund, events, processed,
                   emailing, crashes>>

CountItem ==
    /\ work # None /\ work.op = "sale" /\ work.at = "stock" /\ work.left > 0
    /\ LET line == Cart[work.of][work.left]
       IN  IncrementQuantitySold(line.type, line.qty)
    /\ work' = [work EXCEPT !.left = @ - 1]
    /\ UNCHANGED <<order, intent, pay, promo, refund, events, processed,
                   emailing, crashes>>

\* increment_usage counts times_used; the limit looks at current_uses.
IncrementUsage == promo' = [promo EXCEPT !.times_used = @ + 1]

\* The last commit; then the handler awaits the user service for the emails.
CountPromo ==
    /\ work # None /\ work.op = "sale" /\ work.at = "stock" /\ work.left = 0
    /\ \/ order[work.of].promo /\ IncrementUsage
       \/ ~order[work.of].promo /\ UNCHANGED promo
    /\ emailing' = emailing \cup {work.event}
    /\ work' = None
    /\ UNCHANGED <<stock, order, intent, pay, refund, events, processed,
                   crashes>>

MarkProcessed(e) ==
    /\ e \in emailing
    /\ emailing' = emailing \ {e}
    /\ Processed(e)
    /\ UNCHANGED <<stock, order, intent, pay, promo, refund, events, work,
                   crashes>>

PaymentFailed(e) ==
    /\ Deliverable(e)
    /\ e.type = "failed"
    /\ pay' = [pay EXCEPT ![e.of] =
                 IF @ = None \/ ~order[e.of].linked THEN @
                 ELSE [@ EXCEPT !.status = "failed"]]
    /\ Processed(e)
    /\ UNCHANGED <<stock, order, intent, promo, refund, events, emailing,
                   work, crashes>>

PaymentCancelled(e) ==
    /\ Deliverable(e)
    /\ e.type = "canceled"
    /\ \/ /\ order[e.of].linked /\ Cancellable(e.of)
          /\ work' = [op |-> "cancel", of |-> e.of, left |-> order[e.of].items,
                      event |-> e]
          /\ UNCHANGED processed
       \/ /\ ~ (order[e.of].linked /\ Cancellable(e.of))
          /\ Processed(e)
          /\ UNCHANGED work
    /\ UNCHANGED <<stock, order, intent, pay, promo, refund, events, emailing,
                   crashes>>

-----------------------------------------------------------------------------
(* Refunds *)

Refundable(o) ==
    IF pay[o] # None /\ pay[o].status = "succeeded"
    THEN pay[o].amount - pay[o].refunded
    ELSE 0

\* Mutant: only the status of the payment is changed.
MarksRefunded(o, amount) == [pay[o] EXCEPT !.status = "refunded"]

\* add_refunded_amount
AddRefunded(o, amount) ==
    LET sum == pay[o].refunded + amount
    IN  [pay[o] EXCEPT !.refunded = sum,
                       !.status = IF sum >= pay[o].amount THEN "refunded"
                                  ELSE "partially_refunded"]

InitiateRefund(k, o, amount) ==
    /\ work = None
    /\ refund[k] = None
    /\ order[o].status \in {"completed", "partially_refunded"}
    /\ amount \in 1 .. Refundable(o)
    /\ refund' = [refund EXCEPT ![k] = [of |-> o, amount |-> amount,
                                        status |-> "pending", linked |-> FALSE]]
    /\ work' = [op |-> "refund", of |-> k, at |-> "provider"]
    /\ UNCHANGED <<stock, order, intent, pay, promo, events, processed,
                   emailing, crashes>>

\* Stripe accepts what the charge still covers.
CreateRefund ==
    /\ work # None /\ work.op = "refund" /\ work.at = "provider"
    /\ LET k == work.of
           r == refund[k]
       IN  /\ intent[r.of].back + r.amount <= intent[r.of].amount
           /\ intent' = [intent EXCEPT ![r.of].back = @ + r.amount]
           /\ \E at \in {"succeeded", "pending"} :
                /\ events' = events \cup
                     {[type |-> "charge_refunded", of |-> k]}
                     \cup (IF at = "succeeded"
                           THEN {[type |-> "refund_succeeded", of |-> k]} ELSE {})
                /\ work' = [op |-> "refund", of |-> k, at |-> "row", result |-> at]
    /\ UNCHANGED <<stock, order, pay, promo, refund, processed, emailing,
                   crashes>>

RefundRefused ==
    /\ work # None /\ work.op = "refund" /\ work.at = "provider"
    /\ refund' = [refund EXCEPT ![work.of].status = "failed"]
    /\ work' = None
    /\ UNCHANGED <<stock, order, intent, pay, promo, events, processed,
                   emailing, crashes>>

RefundRow ==
    /\ work # None /\ work.op = "refund" /\ work.at = "row"
    /\ refund' = [refund EXCEPT ![work.of].status = work.result,
                                ![work.of].linked = TRUE]
    /\ work' = [work EXCEPT !.at = "amount"]
    /\ UNCHANGED <<stock, order, intent, pay, promo, events, processed,
                   emailing, crashes>>

RefundAmount ==
    /\ work # None /\ work.op = "refund" /\ work.at = "amount"
    /\ LET r == refund[work.of]
       IN  pay' = [pay EXCEPT ![r.of] = AddRefunded(r.of, r.amount)]
    /\ work' = [work EXCEPT !.at = "order"]
    /\ UNCHANGED <<stock, order, intent, promo, refund, events, processed,
                   emailing, crashes>>

\* The payment already counts this refund when it is added once more.
RefundOrder ==
    /\ work # None /\ work.op = "refund" /\ work.at = "order"
    /\ LET r == refund[work.of]
           p == pay[r.of]
       IN  order' = [order EXCEPT ![r.of].status =
                       IF p.refunded + r.amount >= p.amount THEN "refunded"
                       ELSE "partially_refunded"]
    /\ work' = None
    /\ UNCHANGED <<stock, intent, pay, promo, refund, events, processed,
                   emailing, crashes>>

CancelRefund(k) ==
    /\ work = None
    /\ refund[k] # None
    /\ refund[k].status = "pending"
    /\ refund' = [refund EXCEPT ![k].status = "cancelled"]
    /\ UNCHANGED <<stock, order, intent, pay, promo, events, processed,
                   emailing, work, crashes>>

\* _handle_charge_refunded adds the amount of the charge, not of the refund.
ChargeRefunded(e) ==
    /\ Deliverable(e)
    /\ e.type = "charge_refunded"
    /\ LET o == refund[e.of].of
       IN  \/ /\ pay[o] # None
              /\ pay' = [pay EXCEPT ![o] = AddRefunded(o, intent[o].amount)]
              /\ order' = [order EXCEPT ![o].status = pay'[o].status]
           \/ pay[o] = None /\ UNCHANGED <<pay, order>>
    /\ Processed(e)
    /\ UNCHANGED <<stock, intent, promo, refund, events, emailing, work,
                   crashes>>

RefundEvent(e) ==
    /\ Deliverable(e)
    /\ e.type \in {"refund_succeeded", "refund_failed"}
    /\ refund' = [refund EXCEPT ![e.of].status =
                    IF ~refund[e.of].linked THEN @
                    ELSE IF e.type = "refund_succeeded" THEN "succeeded"
                    ELSE "failed"]
    /\ \/ /\ refund[e.of].linked /\ e.type = "refund_succeeded"
          /\ emailing' = emailing \cup {e}
          /\ UNCHANGED processed
       \/ /\ ~ (refund[e.of].linked /\ e.type = "refund_succeeded")
          /\ Processed(e)
          /\ UNCHANGED emailing
    /\ UNCHANGED <<stock, order, intent, pay, promo, events, work, crashes>>

-----------------------------------------------------------------------------
\* The service is restarted: handlers end where they are.
Crash ==
    /\ crashes < MaxCrashes
    /\ work # None \/ emailing # {}
    /\ work' = None
    /\ emailing' = {}
    /\ crashes' = crashes + 1
    /\ UNCHANGED <<stock, order, intent, pay, promo, refund, events, processed>>

\* What a handler at work does next.
Continue ==
    \/ AddItem \/ ReserveItem \/ FreeOrder
    \/ CreateIntent \/ IntentFails \/ LinkIntent
    \/ ReleaseItem \/ MarkCancelled
    \/ RecordPayment \/ CountItem \/ CountPromo
    \/ CreateRefund \/ RefundRefused \/ RefundRow \/ RefundAmount \/ RefundOrder

Buyer(o) ==
    \/ Checkout(o) \/ ApplyPromoCode(o) \/ RemovePromoCode(o) \/ CancelOrder(o)
    \/ BuyerPays(o) \/ PaymentDeclined(o) \/ IntentLapses(o)

Deliver(e) ==
    \/ PaymentSucceeded(e) \/ PaymentSucceededAgain(e)
    \/ PaymentFailed(e) \/ PaymentCancelled(e)
    \/ ChargeRefunded(e) \/ RefundEvent(e)

Next ==
    \/ \E o \in Orders : Buyer(o)
    \/ \E k \in Refunds, o \in Orders :
         \E amount \in 1 .. Refundable(o) : InitiateRefund(k, o, amount)
    \/ \E k \in Refunds : CancelRefund(k) \/ RefundSettles(k)
    \/ \E e \in Events : Deliver(e) \/ MarkProcessed(e)
    \/ Continue
    \/ Crash

Spec == Init /\ [][Next]_vars

\* A handler that has begun goes on, and Stripe repeats an event for days
\* until it is answered.
FairSpec ==
    /\ Spec
    /\ WF_vars(Continue)
    /\ \A o \in Orders : SF_vars(Deliver([type |-> "succeeded", of |-> o]))
    /\ \A k \in Refunds : SF_vars(Deliver([type |-> "charge_refunded", of |-> k]))

-----------------------------------------------------------------------------
(* Properties *)

TypeOK ==
    /\ stock \in [Types -> [sold : Nat, reserved : Nat]]
    /\ order \in [Orders -> [status : OrderStatus, items : Nat, total : Nat,
                             promo : BOOLEAN, linked : BOOLEAN]]
    /\ \A o \in Orders : order[o].items <= Len(Cart[o])
    /\ intent \in [Orders -> [state : {"none", "open", "paid", "canceled"},
                              amount : Nat, back : Nat]]
    /\ pay \in [Orders -> [status : PaymentStatus, amount : Nat, refunded : Nat]
                          \cup {None}]
    /\ promo \in [times_used : Nat, current_uses : Nat]
    /\ refund \in [Refunds -> [of : Orders, amount : Nat, linked : BOOLEAN,
                               status : RefundStatus] \cup {None}]
    /\ events \subseteq Events
    /\ processed \subseteq events
    /\ emailing \subseteq events
    /\ crashes \in 0 .. MaxCrashes

\* Tickets counted as sold and tickets held for pending orders never exceed
\* the quantity of the type, whatever was reserved, released twice, sold late
\* or cut off by a restart.
NeverOversold == \A t \in Types : stock[t].sold + stock[t].reserved <= Total[t]

\* The tickets on line i of order o, those of type t on its lines, and those on
\* the lines of the orders that were completed.
TicketsOn(o, i) == {<<o, i>>} \X (1 .. Cart[o][i].qty)
TicketsOf(o, t) ==
    UNION {TicketsOn(o, i) : i \in {j \in DOMAIN Cart[o] : Cart[o][j].type = t}}
SettledTickets(t) ==
    UNION {TicketsOf(o, t) : o \in {p \in Orders : order[p].status \in Settled}}

\* A sale is counted once, however often Stripe repeats the event and wherever
\* the service is restarted, and no order that was completed is cancelled or
\* reopened, by the buyer, a late event or a refund: what is sold is on orders that
\* are completed or refunded.
SoldOnce == \A t \in Types : stock[t].sold <= Cardinality(SettledTickets(t))

\* Money that Stripe gave back is on the payment in the end, if not by the
\* handler that asked for it then by the event of the charge.
RefundsReachThePayment ==
    \A o \in Orders :
        \A n \in 1 .. Price[o] :
            intent[o].back = n ~> pay[o] # None /\ pay[o].refunded >= n

\* tests/test_refund_with_connect.py:271, "0 (amount_refunded) + 2000 < 5000
\* (payment.amount) => partially_refunded": an order is refunded only when
\* all its money is.
RefundedMeansInFull ==
    \A o \in Orders :
        order[o].status = "refunded" => pay[o].refunded >= pay[o].amount

=============================================================================
