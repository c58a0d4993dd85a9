--------------------------- MODULE OfferInventory ---------------------------
(***************************************************************************)
(* One upsell offer of event-lifecycle-service: its stock row, the         *)
(* purchase requests that reserve units and open a Stripe checkout, the    *)
(* Stripe webhooks that sell or release them, the Redis reservation keys   *)
(* and the five-minute job that zeroes reservations with no key.           *)
(*                                                                         *)
(* Every handler works on an ORM object.  SELECT ... FOR UPDATE locks the  *)
(* row, but a Session that already holds the object keeps the attribute    *)
(* values of its first read, and an attribute is written back only when    *)
(* its value differs from the one read.  `seen' is that first read.        *)
(***************************************************************************)
EXTENDS Integers, FiniteSets

CONSTANTS
    Requests,       \* purchase_offer calls; also names the checkout each opens
    Buyer,          \* Buyer[r]: the calling user
    Qty,            \* Qty[r]: the quantity asked for
    IdemKey,        \* IdemKey[r]: the Idempotency-Key header, or NoKey
    NoKey,
    None,           \* no checkout session, no handler at work
    Totals,         \* the values an organiser gives inventory_total
    MaxDeliveries,  \* deliveries of one Stripe event, duplicates included
    Overlap         \* may handlers of this offer be in progress together?

ASSUME RequestsAssumption == None \notin Requests
ASSUME QtyAssumption == Qty \in [Requests -> Nat \ {0}]
ASSUME TotalsAssumption == Totals \subseteq Nat /\ Totals # {}
ASSUME DeliveriesAssumption == MaxDeliveries \in Nat
ASSUME OverlapAssumption == Overlap \in BOOLEAN

VARIABLES
    offer,      \* the row: total, sold, reserved, active
    pc,         \* pc[r]: how far request r is
    seen,       \* seen[r]: the row as r's ORM session holds it, or None
    session,    \* session[r]: the checkout session Stripe gave r
    stripe,     \* stripe[s]: state of checkout session s at Stripe
    key,        \* key[s]: the Redis reservation key of s
    cached,     \* idempotency keys whose response is cached
    delivered,  \* delivered[s]: deliveries of the final event of s
    rows,       \* rows[s]: offer_purchases rows whose order_id is s
    bought,     \* units on all offer_purchases rows
    hook,       \* checkout.session.completed handler at work, or None
    cleaner,    \* cleanup_stale_reservations at work, or None
    editor      \* update_offer at work, or None

vars == <<offer, pc, seen, session, stripe, key, cached, delivered, rows,
          bought, hook, cleaner, editor>>

stripeVars == <<stripe, key, delivered>>

Row == [total : Nat, sold : Nat, reserved : Nat, active : BOOLEAN]

\* Mutant: units already reserved are forgotten.
IgnoresReserved(row) == row.total - row.sold

Available(row) == row.total - (row.sold + row.reserved)

InProgress == {"read", "reserved", "refreshed", "created"}

\* Nothing else holds a copy of the row.
Quiet ==
    /\ \A r \in Requests : pc[r] \notin InProgress
    /\ hook = None
    /\ cleaner = None
    /\ editor = None

MayStart == Overlap \/ Quiet

\* FOR UPDATE waits for the row lock the cleanup job keeps while it scans Redis.
RowFree == cleaner # "locked"

\* What a flush leaves in a column: unchanged attributes are not written.
Flushed(inDb, read, new) == IF new = read THEN inDb ELSE new

\* Mutant: confirm_purchase moves every reserved unit.
MovesAll(m, n) == m

AtLeastZero(n) == IF n < 0 THEN 0 ELSE n
Least(m, n) == IF m < n THEN m ELSE n

Init ==
    /\ \E t \in Totals :
         offer = [total |-> t, sold |-> 0, reserved |-> 0, active |-> TRUE]
    /\ pc = [r \in Requests |-> "idle"]
    /\ seen = [r \in Requests |-> None]
    /\ session = [r \in Requests |-> None]
    /\ stripe = [s \in Requests |-> "none"]
    /\ key = [s \in Requests |-> "none"]
    /\ cached = {}
    /\ delivered = [s \in Requests |-> 0]
    /\ rows = [s \in Requests |-> 0]
    /\ bought = 0
    /\ hook = None
    /\ cleaner = None
    /\ editor = None

-----------------------------------------------------------------------------
(* purchase_offer *)

Replay(r) ==
    /\ pc[r] = "idle"
    /\ IdemKey[r] \in cached
    /\ pc' = [pc EXCEPT ![r] = "replayed"]
    /\ UNCHANGED <<offer, seen, session, stripeVars, cached, rows, bought,
                   hook, cleaner, editor>>

\* crud_offer.get loads the row.
ReadOffer(r) ==
    /\ pc[r] = "idle"
    /\ IdemKey[r] \notin cached
    /\ MayStart
    /\ pc' = [pc EXCEPT ![r] = "read"]
    /\ seen' = [seen EXCEPT ![r] = offer]
    /\ UNCHANGED <<offer, session, stripeVars, cached, rows, bought, hook,
                   cleaner, editor>>

\* check_and_reserve_inventory, under the row lock but on the values of the
\* first read.
Reserve(r) ==
    /\ pc[r] = "read"
    /\ RowFree
    /\ seen[r].active
    /\ Available(seen[r]) >= Qty[r]
    /\ offer' = [offer EXCEPT !.reserved = seen[r].reserved + Qty[r]]
    /\ pc' = [pc EXCEPT ![r] = "reserved"]
    /\ UNCHANGED <<seen, session, stripeVars, cached, rows, bought, hook,
                   cleaner, editor>>

\* Refused: off sale, outside starts_at..expires_at (any time), or too few left.
Refuse(r) ==
    /\ pc[r] = "read"
    /\ RowFree
    /\ pc' = [pc EXCEPT ![r] = "refused"]
    /\ seen' = [seen EXCEPT ![r] = None]
    /\ UNCHANGED <<offer, session, stripeVars, cached, rows, bought,
                   hook, cleaner, editor>>

\* db.refresh after the commit, then the call to Stripe.
Refresh(r) ==
    /\ pc[r] = "reserved"
    /\ pc' = [pc EXCEPT ![r] = "refreshed"]
    /\ seen' = [seen EXCEPT ![r] = offer]
    /\ UNCHANGED <<offer, session, stripeVars, cached, rows, bought, hook,
                   cleaner, editor>>

\* Stripe's idempotency key is offer, user, quantity and minute: a second
\* request of the same minute is answered with the first one's session.
SameMinute(r, s) ==
    /\ stripe[s] \in {"open", "paid"}
    /\ key[s] # "gone"
    /\ Buyer[s] = Buyer[r]
    /\ Qty[s] = Qty[r]

CheckoutCreated(r) ==
    /\ pc[r] = "refreshed"
    /\ \/ /\ stripe[r] = "none"
          /\ session' = [session EXCEPT ![r] = r]
          /\ stripe' = [stripe EXCEPT ![r] = "open"]
       \/ \E s \in Requests \ {r} :
            /\ SameMinute(r, s)
            /\ session' = [session EXCEPT ![r] = s]
            /\ UNCHANGED stripe
    /\ pc' = [pc EXCEPT ![r] = "created"]
    /\ seen' = [seen EXCEPT ![r] = None]
    /\ UNCHANGED <<offer, key, delivered, cached, rows, bought, hook,
                   cleaner, editor>>

\* Stripe failed: release_inventory, again on the values read before the call.
CheckoutFailed(r) ==
    /\ pc[r] = "refreshed"
    /\ RowFree
    /\ offer' = [offer EXCEPT !.reserved =
                   Flushed(@, seen[r].reserved,
                           AtLeastZero(seen[r].reserved - Qty[r]))]
    /\ pc' = [pc EXCEPT ![r] = "failed"]
    /\ seen' = [seen EXCEPT ![r] = None]
    /\ UNCHANGED <<session, stripeVars, cached, rows, bought, hook,
                   cleaner, editor>>

\* create_reservation sets the Redis key and the response is cached; either
\* write may fail, and the request still answers.
Answer(r) ==
    /\ pc[r] = "created"
    /\ key' \in {key, [key EXCEPT ![session[r]] = "live"]}
    /\ cached' \in {cached, cached \cup ({IdemKey[r]} \ {NoKey})}
    /\ pc' = [pc EXCEPT ![r] = "done"]
    /\ UNCHANGED <<offer, seen, session, stripe, delivered, rows, bought,
                   hook, cleaner, editor>>

\* The process dies between two commits of the request.
Crash(r) ==
    /\ pc[r] \in InProgress
    /\ pc' = [pc EXCEPT ![r] = "crashed"]
    /\ seen' = [seen EXCEPT ![r] = None]
    /\ UNCHANGED <<offer, session, stripeVars, cached, rows, bought,
                   hook, cleaner, editor>>

-----------------------------------------------------------------------------
(* Stripe and Redis, as the service sees them *)

Pay(s) ==
    /\ stripe[s] = "open"
    /\ stripe' = [stripe EXCEPT ![s] = "paid"]
    /\ UNCHANGED <<offer, pc, seen, session, key, cached, delivered, rows,
                   bought, hook, cleaner, editor>>

\* The checkout lives 30 minutes, its Redis key 15: the key goes first.
KeyExpires(s) ==
    /\ key[s] = "live"
    /\ key' = [key EXCEPT ![s] = "gone"]
    /\ UNCHANGED <<offer, pc, seen, session, stripe, cached, delivered, rows,
                   bought, hook, cleaner, editor>>

CheckoutExpires(s) ==
    /\ stripe[s] = "open"
    /\ key[s] # "live"
    /\ \A r \in Requests : session[r] = s => pc[r] # "created"
    /\ stripe' = [stripe EXCEPT ![s] = "expired"]
    /\ UNCHANGED <<offer, pc, seen, session, key, cached, delivered, rows,
                   bought, hook, cleaner, editor>>

Deliver(s, event) ==
    /\ stripe[s] = event
    /\ delivered[s] < MaxDeliveries
    /\ delivered' = [delivered EXCEPT ![s] = @ + 1]

-----------------------------------------------------------------------------
(* Stripe webhooks.  They are async functions with no await of their own, on *)
(* the one event loop of the service: one at a time, but interleaved with    *)
(* the threads that serve purchases and run jobs.                            *)

\* Mutant: no look-up of an earlier purchase.
CompletedUnchecked(s) ==
    /\ hook = None
    /\ MayStart
    /\ Deliver(s, "paid")
    /\ hook' = [s |-> s, seen |-> offer]
    /\ UNCHANGED <<offer, pc, seen, session, stripe, key, cached, rows,
                   bought, cleaner, editor>>

\* Idempotency check, then crud_offer.get.
CompletedRead(s) ==
    /\ hook = None
    /\ MayStart
    /\ Deliver(s, "paid")
    /\ hook' = IF rows[s] > 0 THEN None ELSE [s |-> s, seen |-> offer]
    /\ UNCHANGED <<offer, pc, seen, session, stripe, key, cached, rows,
                   bought, cleaner, editor>>

\* confirm_purchase and the purchase row, in one commit.
CompletedCommit ==
    /\ hook # None
    /\ RowFree
    /\ LET s == hook.s
           read == hook.seen
           move == Least(read.reserved, Qty[s])
       IN  /\ offer' = [offer EXCEPT
                 !.reserved = Flushed(@, read.reserved, read.reserved - move),
                 !.sold = Flushed(@, read.sold, read.sold + move)]
           /\ rows' = [rows EXCEPT ![s] = @ + 1]
           /\ bought' = bought + Qty[s]
    /\ hook' = None
    /\ UNCHANGED <<pc, seen, session, stripeVars, cached, cleaner, editor>>

\* Any exception is logged and swallowed: Stripe gets its 200.
CompletedFails ==
    /\ hook # None
    /\ hook' = None
    /\ UNCHANGED <<offer, pc, seen, session, stripeVars, cached, rows, bought,
                   cleaner, editor>>

\* handle_checkout_expired: release_inventory in a fresh session.
ExpiredHook(s) ==
    /\ hook = None
    /\ MayStart
    /\ RowFree
    /\ Deliver(s, "expired")
    /\ offer' = [offer EXCEPT !.reserved = AtLeastZero(@ - Qty[s])]
    /\ UNCHANGED <<pc, seen, session, stripe, key, cached, rows, bought, hook,
                   cleaner, editor>>

-----------------------------------------------------------------------------
(* Jobs and the organiser *)

\* Mutant: a single reserved unit is not looked at.
CleanupSkipsOne ==
    /\ cleaner = None
    /\ MayStart
    /\ offer.reserved > 1
    /\ \A s \in Requests : key[s] # "live"
    /\ cleaner' \in {"locked", "unlocked"}
    /\ UNCHANGED <<offer, pc, seen, session, stripeVars, cached, rows, bought,
                   hook, editor>>

\* The scan of an offer with reservations.  The locks of a batch last until
\* its first commit, so a later offer of the batch is scanned unlocked.
CleanupScan ==
    /\ cleaner = None
    /\ MayStart
    /\ offer.reserved > 0
    /\ \A s \in Requests : key[s] # "live"
    /\ cleaner' \in {"locked", "unlocked"}
    /\ UNCHANGED <<offer, pc, seen, session, stripeVars, cached, rows, bought,
                   hook, editor>>

CleanupZero ==
    /\ cleaner # None
    /\ offer' = [offer EXCEPT !.reserved = 0]
    /\ cleaner' = None
    /\ UNCHANGED <<pc, seen, session, stripeVars, cached, rows, bought, hook,
                   editor>>

\* Any exception rolls the job back; it runs again five minutes later.
CleanupFails ==
    /\ cleaner # None
    /\ cleaner' = None
    /\ UNCHANGED <<offer, pc, seen, session, stripeVars, cached, rows, bought,
                   hook, editor>>

\* Mutant: the new total is compared with the sold units alone.
UpdateIgnoresReserved ==
    /\ editor = None
    /\ MayStart
    /\ \E t \in Totals :
         /\ t >= offer.sold
         /\ t # offer.total
         /\ editor' = t
    /\ UNCHANGED <<offer, pc, seen, session, stripeVars, cached, rows, bought,
                   hook, cleaner>>

\* update_offer checks the new total against the row it read ...
UpdateRead ==
    /\ editor = None
    /\ MayStart
    /\ \E t \in Totals :
         /\ t >= offer.sold + offer.reserved
         /\ t # offer.total
         /\ editor' = t
    /\ UNCHANGED <<offer, pc, seen, session, stripeVars, cached, rows, bought,
                   hook, cleaner>>

\* ... and writes inventory_total alone.
UpdateWrite ==
    /\ editor # None
    /\ RowFree
    /\ offer' = [offer EXCEPT !.total = editor]
    /\ editor' = None
    /\ UNCHANGED <<pc, seen, session, stripeVars, cached, rows, bought, hook,
                   cleaner>>

\* archive_offer, auto_expire_offers, or is_active set by update_offer.
SetActive ==
    /\ MayStart
    /\ RowFree
    /\ offer' = [offer EXCEPT !.active = ~@]
    /\ UNCHANGED <<pc, seen, session, stripeVars, cached, rows, bought, hook,
                   cleaner, editor>>

-----------------------------------------------------------------------------
RequestStep(r) ==
    \/ ReadOffer(r) \/ Replay(r)
    \/ Reserve(r) \/ Refuse(r) \/ Refresh(r)
    \/ CheckoutCreated(r) \/ CheckoutFailed(r) \/ Answer(r)
    \/ Crash(r)

StripeStep(s) ==
    \/ Pay(s) \/ KeyExpires(s) \/ CheckoutExpires(s)
    \/ CompletedRead(s) \/ ExpiredHook(s)

Next ==
    \/ \E r \in Requests : RequestStep(r) \/ StripeStep(r)
    \/ CompletedCommit \/ CompletedFails
    \/ CleanupScan \/ CleanupZero \/ CleanupFails
    \/ UpdateRead \/ UpdateWrite \/ SetActive

Spec == Init /\ [][Next]_vars

\* Request threads, webhook handlers, Redis TTLs and the scheduler's interval
\* jobs keep running, and the database does not fail every cleanup.  Nobody is
\* obliged to buy, pay, crash or edit.
Fairness ==
    /\ \A r \in Requests :
         /\ WF_vars(Reserve(r) \/ Refuse(r) \/ Refresh(r) \/ Answer(r))
         /\ WF_vars(CheckoutCreated(r) \/ CheckoutFailed(r))
         /\ WF_vars(KeyExpires(r))
    /\ WF_vars(CompletedCommit \/ CompletedFails)
    /\ WF_vars(UpdateWrite)
    /\ SF_vars(CleanupScan)
    /\ SF_vars(CleanupZero)

FairSpec == Spec /\ Fairness

-----------------------------------------------------------------------------
(* Properties *)

TypeOK ==
    /\ offer \in Row
    /\ pc \in [Requests -> InProgress \cup
                {"idle", "done", "refused", "failed", "crashed", "replayed"}]
    /\ seen \in [Requests -> Row \cup {None}]
    /\ session \in [Requests -> Requests \cup {None}]
    /\ stripe \in [Requests -> {"none", "open", "paid", "expired"}]
    /\ key \in [Requests -> {"none", "live", "gone"}]
    /\ cached \subseteq {IdemKey[r] : r \in Requests}
    /\ delivered \in [Requests -> 0..MaxDeliveries]
    /\ rows \in [Requests -> Nat]
    /\ bought \in Nat
    /\ hook \in [s : Requests, seen : Row] \cup {None}
    /\ cleaner \in {"locked", "unlocked", None}
    /\ editor \in Totals \cup {None}

\* A checkout gets at most one purchase row, and only when Stripe was paid for
\* it, however often the completed event is delivered and whatever purchases,
\* jobs and edits run between the handler's check and its commit.
PurchasesAreBacked ==
    \A s \in Requests :
        /\ rows[s] <= 1
        /\ rows[s] = 1 => stripe[s] = "paid"

\* inventory_sold never counts a unit that no purchase row accounts for, even
\* when handlers write back values they read before others committed.
SoldNeverExceedsBought == offer.sold <= bought

\* No handler's stale write-back takes a sale back: purchase rollbacks,
\* expired-checkout releases, the cleanup job and edits leave inventory_sold.
SalesAreFinal == [][offer'.sold >= offer.sold]_vars

\* A reservation left behind by a crash, a shared checkout session, an expired
\* checkout or a lost webhook is given back in the end by the cleanup job.
ReservationsDrain == []<>(offer.reserved = 0)

Ledger == INSTANCE OfferLedger WITH
    total <- offer.total, sold <- offer.sold, reserved <- offer.reserved

\* Committed units never exceed the stock ("prevents race conditions where two
\* requests both pass availability checks then both try to reserve").
NeverOvercommitted == Ledger!NeverOvercommitted

\* While no two handlers of the offer overlap, the row is the atomic ledger.
ImplementsLedger == Ledger!Spec
=============================================================================
