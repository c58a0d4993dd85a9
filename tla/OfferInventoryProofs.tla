------------------------ MODULE OfferInventoryProofs ------------------------
(***************************************************************************)
(* Theorems about OfferInventory for every set of requests, quantities and *)
(* totals: type correctness, what holds whatever overlaps (purchases are   *)
(* backed, recorded sales are never invented nor lost), and the atomic     *)
(* ledger while nothing overlaps.                                          *)
(***************************************************************************)
EXTENDS OfferInventory, TLAPS

\* A request that still works on the row has it loaded.
SessionsLoaded ==
    \A r \in Requests :
        pc[r] \in {"read", "reserved", "refreshed"} => seen[r] \in Row

\* Between its check and its commit a completed handler's checkout stays paid
\* and unrecorded, and no one else writes inventory_sold.
HookSafe ==
    hook # None => /\ rows[hook.s] = 0
                   /\ stripe[hook.s] = "paid"
                   /\ hook.seen.sold = offer.sold

\* What holds in every interleaving.
Inv == /\ TypeOK
       /\ SessionsLoaded
       /\ HookSafe
       /\ PurchasesAreBacked
       /\ SoldNeverExceedsBought

-----------------------------------------------------------------------------
LEMMA InitInv == Init => Inv
<1> SUFFICES ASSUME Init PROVE Inv
  OBVIOUS
<1> USE TotalsAssumption, DeliveriesAssumption DEF Init, InProgress
<1>1. offer \in Row /\ offer.sold = 0
  BY DEF Row
<1>2. /\ pc \in [Requests -> InProgress \cup
                 {"idle", "done", "refused", "failed", "crashed", "replayed"}]
      /\ seen \in [Requests -> Row \cup {None}]
      /\ session \in [Requests -> Requests \cup {None}]
  OBVIOUS
<1>3. /\ stripe \in [Requests -> {"none", "open", "paid", "expired"}]
      /\ key \in [Requests -> {"none", "live", "gone"}]
      /\ delivered \in [Requests -> 0..MaxDeliveries]
      /\ rows \in [Requests -> Nat]
  OBVIOUS
<1>4. TypeOK
  BY <1>1, <1>2, <1>3 DEF TypeOK
<1>5. SessionsLoaded /\ HookSafe /\ PurchasesAreBacked /\ SoldNeverExceedsBought
  BY <1>1 DEF SessionsLoaded, HookSafe, PurchasesAreBacked,
              SoldNeverExceedsBought
<1>6. QED BY <1>4, <1>5 DEF Inv

-----------------------------------------------------------------------------
(* One lemma per group of actions: the row's types, then the rest.         *)

LEMMA ReserveRow ==
    ASSUME Inv, NEW r \in Requests, Reserve(r)
    PROVE  offer' \in Row /\ offer'.sold = offer.sold
<1>1. seen[r] \in Row /\ offer \in Row
  BY DEF Inv, SessionsLoaded, Reserve, TypeOK
<1>2. seen[r].reserved + Qty[r] \in Nat
  BY <1>1, QtyAssumption DEF Row
<1>3. QED BY <1>1, <1>2 DEF Reserve, Row

LEMMA CheckoutFailedRow ==
    ASSUME Inv, NEW r \in Requests, CheckoutFailed(r)
    PROVE  offer' \in Row /\ offer'.sold = offer.sold
<1>1. seen[r] \in Row /\ offer \in Row
  BY DEF Inv, SessionsLoaded, CheckoutFailed, TypeOK
<1>2. seen[r].reserved - Qty[r] \in Int
  BY <1>1, QtyAssumption DEF Row
<1>3. Flushed(offer.reserved, seen[r].reserved,
              AtLeastZero(seen[r].reserved - Qty[r])) \in Nat
  BY <1>1, <1>2 DEF Flushed, AtLeastZero, Row
<1>4. QED BY <1>1, <1>3 DEF CheckoutFailed, Row

LEMMA RequestInv ==
    ASSUME Inv, NEW r \in Requests, RequestStep(r)
    PROVE  Inv'
<1> USE DEF Inv, TypeOK, SessionsLoaded, HookSafe, PurchasesAreBacked,
            SoldNeverExceedsBought, InProgress, stripeVars
<1>1. CASE ReadOffer(r)
  BY <1>1 DEF ReadOffer
<1>2. CASE Replay(r)
  BY <1>2 DEF Replay
<1>3. CASE Reserve(r)
  BY <1>3, ReserveRow DEF Reserve
<1>4. CASE Refuse(r)
  BY <1>4 DEF Refuse
<1>5. CASE Refresh(r)
  BY <1>5 DEF Refresh
<1>6. CASE CheckoutCreated(r)
  BY <1>6 DEF CheckoutCreated
<1>7. CASE CheckoutFailed(r)
  BY <1>7, CheckoutFailedRow DEF CheckoutFailed
<1>8. CASE Answer(r)
  BY <1>8 DEF Answer
<1>9. CASE Crash(r)
  BY <1>9 DEF Crash
<1>10. QED
  BY <1>1, <1>2, <1>3, <1>4, <1>5, <1>6, <1>7, <1>8, <1>9 DEF RequestStep

LEMMA StripeInv ==
    ASSUME Inv, NEW s \in Requests, StripeStep(s)
    PROVE  Inv'
<1> USE QtyAssumption, DeliveriesAssumption
    DEF Inv, TypeOK, SessionsLoaded, HookSafe, PurchasesAreBacked,
        SoldNeverExceedsBought, InProgress, stripeVars
<1>1. CASE Pay(s)
  BY <1>1 DEF Pay
<1>2. CASE KeyExpires(s)
  BY <1>2 DEF KeyExpires
<1>3. CASE CheckoutExpires(s)
  BY <1>3 DEF CheckoutExpires
<1>4. CASE CompletedRead(s)
  BY <1>4 DEF CompletedRead, Deliver
<1>5. CASE ExpiredHook(s)
  BY <1>5 DEF ExpiredHook, Deliver, AtLeastZero, Row
<1>6. QED BY <1>1, <1>2, <1>3, <1>4, <1>5 DEF StripeStep

LEMMA CompletedInv ==
    ASSUME Inv, CompletedCommit \/ CompletedFails
    PROVE  Inv'
<1> USE QtyAssumption
    DEF Inv, TypeOK, SessionsLoaded, HookSafe, PurchasesAreBacked,
        SoldNeverExceedsBought, InProgress, stripeVars
<1>1. CASE CompletedFails
  BY <1>1 DEF CompletedFails
<1>2. CASE CompletedCommit
  <2> DEFINE s == hook.s
             read == hook.seen
             move == Least(read.reserved, Qty[s])
  <2>1. s \in Requests /\ read \in Row /\ offer \in Row /\ Qty[s] \in Nat
    BY <1>2 DEF CompletedCommit
  <2>2. move \in Nat /\ move <= read.reserved /\ move <= Qty[s]
    BY <2>1 DEF Least, Row
  <2>3. /\ Flushed(offer.reserved, read.reserved, read.reserved - move) \in Nat
        /\ Flushed(offer.sold, read.sold, read.sold + move) = offer.sold + move
    BY <1>2, <2>1, <2>2 DEF CompletedCommit, Flushed, Row
  <2>4. offer' \in Row /\ offer'.sold = offer.sold + move
    <3> DEFINE left == Flushed(offer.reserved, read.reserved,
                               read.reserved - move)
    <3>1. offer' = [offer EXCEPT !.reserved = left,
                                 !.sold = offer.sold + move]
      BY <1>2, <2>3 DEF CompletedCommit
    <3>2. left \in Nat /\ offer.sold + move \in Nat
      BY <2>1, <2>2, <2>3 DEF Row
    <3> HIDE DEF left, move
    <3>3. QED BY <2>1, <3>1, <3>2 DEF Row
  <2>5. bought' = bought + Qty[s] /\ bought' \in Nat /\ offer'.sold <= bought'
    BY <1>2, <2>1, <2>2, <2>4 DEF CompletedCommit, Row
  <2>6. /\ rows' = [rows EXCEPT ![s] = @ + 1]
        /\ rows[s] = 0
        /\ stripe[s] = "paid"
        /\ hook' = None
    BY <1>2 DEF CompletedCommit
  <2>7. QED BY <1>2, <2>1, <2>4, <2>5, <2>6 DEF CompletedCommit
<1>3. QED BY <1>1, <1>2

LEMMA JobsInv ==
    ASSUME Inv, \/ CleanupScan \/ CleanupZero \/ CleanupFails
                \/ UpdateRead \/ UpdateWrite \/ SetActive
    PROVE  Inv'
<1> USE TotalsAssumption
    DEF Inv, TypeOK, SessionsLoaded, HookSafe, PurchasesAreBacked,
        SoldNeverExceedsBought, InProgress, stripeVars, Row
<1>1. CASE CleanupScan
  BY <1>1 DEF CleanupScan
<1>2. CASE CleanupZero
  BY <1>2 DEF CleanupZero
<1>3. CASE CleanupFails
  BY <1>3 DEF CleanupFails
<1>4. CASE UpdateRead
  BY <1>4 DEF UpdateRead
<1>5. CASE UpdateWrite
  BY <1>5 DEF UpdateWrite
<1>6. CASE SetActive
  BY <1>6 DEF SetActive
<1>7. QED BY <1>1, <1>2, <1>3, <1>4, <1>5, <1>6

LEMMA NextInv == Inv /\ [Next]_vars => Inv'
<1> SUFFICES ASSUME Inv, [Next]_vars PROVE Inv'
  OBVIOUS
<1>1. CASE UNCHANGED vars
  BY <1>1 DEF Inv, TypeOK, SessionsLoaded, HookSafe, PurchasesAreBacked,
              SoldNeverExceedsBought, vars, stripeVars
<1>2. CASE Next
  BY <1>2, RequestInv, StripeInv, CompletedInv, JobsInv DEF Next
<1>3. QED BY <1>1, <1>2

\* Every step keeps or raises inventory_sold.
LEMMA SoldStep == Inv /\ [Next]_vars => [offer'.sold >= offer.sold]_vars
<1> SUFFICES ASSUME Inv, Next PROVE offer'.sold >= offer.sold
  BY DEF vars
<1>1. offer \in Row /\ offer.sold \in Nat
  BY DEF Inv, TypeOK, Row
<1>2. CASE offer'.sold = offer.sold
  BY <1>1, <1>2
<1>3. CASE CompletedCommit
  <2>1. hook.s \in Requests /\ hook.seen \in Row
    BY <1>3 DEF CompletedCommit, Inv, TypeOK
  <2>2. Qty[hook.s] \in Nat /\ hook.seen.reserved \in Nat
    BY <2>1, QtyAssumption DEF Row
  <2>3. Least(hook.seen.reserved, Qty[hook.s]) \in Nat
    BY <2>2 DEF Least
  <2>4. hook.seen.sold = offer.sold
    BY <1>3 DEF CompletedCommit, Inv, HookSafe
  <2>5. Flushed(offer.sold, hook.seen.sold,
                hook.seen.sold + Least(hook.seen.reserved, Qty[hook.s]))
          >= offer.sold
    BY <1>1, <2>3, <2>4 DEF Flushed
  <2>6. QED BY <1>1, <1>3, <2>5 DEF CompletedCommit, Row
<1>4. ASSUME NEW r \in Requests, RequestStep(r) PROVE offer'.sold = offer.sold
  BY <1>1, <1>4 DEF RequestStep, ReadOffer, Replay, Reserve, Refuse, Refresh,
     CheckoutCreated, CheckoutFailed, Answer, Crash, Inv, TypeOK, Row
<1>5. ASSUME NEW r \in Requests, StripeStep(r) PROVE offer'.sold = offer.sold
  BY <1>1, <1>5 DEF StripeStep, Pay, KeyExpires, CheckoutExpires,
     CompletedRead, ExpiredHook, Inv, TypeOK, Row
<1>6. ASSUME \/ CompletedFails \/ CleanupScan \/ CleanupZero \/ CleanupFails
             \/ UpdateRead \/ UpdateWrite \/ SetActive
      PROVE  offer'.sold = offer.sold
  BY <1>1, <1>6 DEF CompletedFails, CleanupScan, CleanupZero, CleanupFails,
     UpdateRead, UpdateWrite, SetActive, Inv, TypeOK, Row
<1>7. QED BY <1>2, <1>3, <1>4, <1>5, <1>6 DEF Next

-----------------------------------------------------------------------------
\* Type correctness of the stock row, its requests, checkouts and handlers.
THEOREM TypeCorrect == Spec => []TypeOK
<1>1. Inv => TypeOK
  BY DEF Inv
<1>2. QED BY InitInv, NextInv, <1>1, PTL DEF Spec

\* A checkout gets one purchase row at most, and only once it is paid, for any
\* number of deliveries and any interleaving of purchases, jobs and edits.
THEOREM PurchasesBacked == Spec => []PurchasesAreBacked
<1>1. Inv => PurchasesAreBacked
  BY DEF Inv
<1>2. QED BY InitInv, NextInv, <1>1, PTL DEF Spec

\* inventory_sold counts only units of purchase rows.
THEOREM SoldBacked == Spec => []SoldNeverExceedsBought
<1>1. Inv => SoldNeverExceedsBought
  BY DEF Inv
<1>2. QED BY InitInv, NextInv, <1>1, PTL DEF Spec

\* No stale write-back of any handler takes a recorded sale back.
THEOREM SalesFinal == Spec => SalesAreFinal
BY InitInv, NextInv, SoldStep, PTL DEF Spec, SalesAreFinal

-----------------------------------------------------------------------------
(***************************************************************************)
(* While no two handlers of the offer overlap, the read-then-write code of *)
(* OfferInventory implements the atomic OfferLedger, so the stock is never *)
(* overcommitted.                                                          *)
(***************************************************************************)

\* At most one request, webhook, job or edit is under way.
OneAtATime ==
    /\ \A r, q \in Requests :
         pc[r] \in InProgress /\ pc[q] \in InProgress => r = q
    /\ \A r \in Requests :
         pc[r] \in InProgress => hook = None /\ cleaner = None /\ editor = None
    /\ hook # None => cleaner = None /\ editor = None
    /\ cleaner # None => editor = None

\* So the copy of the row a handler holds is the row, and the total an
\* organiser has had accepted is still large enough.
FreshCopies ==
    /\ \A r \in Requests : pc[r] \in {"read", "refreshed"} => seen[r] = offer
    /\ hook # None => hook.seen = offer
    /\ editor # None => editor >= offer.sold + offer.reserved

QuietInv == Inv /\ OneAtATime /\ FreshCopies /\ NeverOvercommitted

LEMMA QuietInit == Init => QuietInv
<1> SUFFICES ASSUME Init PROVE QuietInv
  OBVIOUS
<1>1. Inv
  BY InitInv
<1>2. OneAtATime
  BY DEF Init, OneAtATime, InProgress
<1>3. FreshCopies
  BY DEF Init, FreshCopies
<1>4. NeverOvercommitted
  BY TotalsAssumption DEF Init, NeverOvercommitted, Ledger!NeverOvercommitted
<1>5. QED BY <1>1, <1>2, <1>3, <1>4 DEF QuietInv

\* What a step does to the ledger, and the rest of the invariant after it.
Kept == OneAtATime' /\ FreshCopies' /\ NeverOvercommitted'
        /\ [Ledger!Next]_(Ledger!vars)

LEMMA RowNumbers ==
    ASSUME Inv
    PROVE  /\ offer \in Row
           /\ offer.total \in Nat /\ offer.sold \in Nat /\ offer.reserved \in Nat
BY DEF Inv, TypeOK, Row

LEMMA QuietRequest ==
    ASSUME ~Overlap, QuietInv, NEW r \in Requests, RequestStep(r)
    PROVE  Kept
<1> USE RowNumbers, QtyAssumption
    DEF Kept, QuietInv, OneAtATime, FreshCopies, NeverOvercommitted,
        Ledger!NeverOvercommitted, Ledger!Next, Ledger!vars, InProgress
<1>0. /\ Qty[r] \in Nat /\ Qty[r] > 0
      /\ pc = [q \in Requests |-> pc[q]]
      /\ seen \in [Requests -> Row \cup {None}]
  BY DEF Inv, TypeOK
<1>1. CASE ReadOffer(r)
  BY <1>0, <1>1 DEF ReadOffer, MayStart, Quiet
<1>2. CASE Replay(r)
  BY <1>0, <1>2 DEF Replay
<1>3. CASE Reserve(r)
  <2>1. seen[r] = offer
    BY <1>3 DEF Reserve
  <2>2. /\ offer' = [offer EXCEPT !.reserved = offer.reserved + Qty[r]]
        /\ Available(offer) >= Qty[r]
    BY <1>3, <2>1 DEF Reserve
  <2>3. /\ offer'.total = offer.total /\ offer'.sold = offer.sold
        /\ offer'.reserved = offer.reserved + Qty[r]
    BY <2>2 DEF Row
  <2>4. Ledger!Reserve /\ NeverOvercommitted'
    BY <1>0, <2>2, <2>3 DEF Available, Ledger!Reserve
  <2>5. OneAtATime' /\ FreshCopies'
    BY <1>0, <1>3 DEF Reserve
  <2>6. QED BY <2>4, <2>5
<1>4. CASE Refuse(r) \/ Crash(r)
  BY <1>0, <1>4 DEF Refuse, Crash
<1>5. CASE Refresh(r)
  BY <1>0, <1>5 DEF Refresh
<1>6. CASE CheckoutCreated(r)
  BY <1>0, <1>6 DEF CheckoutCreated
<1>7. CASE CheckoutFailed(r)
  <2>1. seen[r] = offer
    BY <1>7 DEF CheckoutFailed
  <2> DEFINE left == AtLeastZero(offer.reserved - Qty[r])
  <2>2. left \in 0..offer.reserved
    BY <1>0 DEF AtLeastZero
  <2>3. Flushed(offer.reserved, offer.reserved, left) = left
    BY DEF Flushed
  <2>4. offer' = [offer EXCEPT !.reserved = left]
    BY <1>7, <2>1, <2>3 DEF CheckoutFailed
  <2>5. /\ offer'.total = offer.total /\ offer'.sold = offer.sold
        /\ offer'.reserved = left
    BY <2>4 DEF Row
  <2> HIDE DEF left
  <2>6. Ledger!Release /\ NeverOvercommitted'
    BY <2>2, <2>5 DEF Ledger!Release
  <2>7. OneAtATime' /\ FreshCopies'
    BY <1>0, <1>7 DEF CheckoutFailed
  <2>8. QED BY <2>6, <2>7
<1>8. CASE Answer(r)
  BY <1>0, <1>8 DEF Answer
<1>9. QED
  BY <1>1, <1>2, <1>3, <1>4, <1>5, <1>6, <1>7, <1>8 DEF RequestStep

LEMMA QuietStripe ==
    ASSUME ~Overlap, QuietInv, NEW s \in Requests, StripeStep(s)
    PROVE  Kept
<1> USE RowNumbers, QtyAssumption
    DEF Kept, QuietInv, OneAtATime, FreshCopies, NeverOvercommitted,
        Ledger!NeverOvercommitted, Ledger!Next, Ledger!vars, InProgress
<1>1. CASE Pay(s) \/ KeyExpires(s) \/ CheckoutExpires(s)
  BY <1>1 DEF Pay, KeyExpires, CheckoutExpires
<1>2. CASE CompletedRead(s)
  BY <1>2 DEF CompletedRead, MayStart, Quiet
<1>3. CASE ExpiredHook(s)
  <2> DEFINE left == AtLeastZero(offer.reserved - Qty[s])
  <2>1. left \in 0..offer.reserved
    BY DEF AtLeastZero
  <2>2. offer' = [offer EXCEPT !.reserved = left]
    BY <1>3 DEF ExpiredHook
  <2>3. /\ offer'.total = offer.total /\ offer'.sold = offer.sold
        /\ offer'.reserved = left
    BY <2>2 DEF Row
  <2> HIDE DEF left
  <2>4. Ledger!Release /\ NeverOvercommitted'
    BY <2>1, <2>3 DEF Ledger!Release
  <2>5. OneAtATime' /\ FreshCopies'
    BY <1>3 DEF ExpiredHook, MayStart, Quiet
  <2>6. QED BY <2>4, <2>5
<1>4. QED BY <1>1, <1>2, <1>3 DEF StripeStep

LEMMA QuietCompleted ==
    ASSUME ~Overlap, QuietInv, CompletedCommit \/ CompletedFails
    PROVE  Kept
<1> USE RowNumbers, QtyAssumption
    DEF Kept, QuietInv, OneAtATime, FreshCopies, NeverOvercommitted,
        Ledger!NeverOvercommitted, Ledger!Next, Ledger!vars, InProgress
<1>1. CASE CompletedFails
  BY <1>1 DEF CompletedFails
<1>2. CASE CompletedCommit
  <2> DEFINE move == Least(offer.reserved, Qty[hook.s])
             left == offer.reserved - move
  <2>1. hook.seen = offer /\ Qty[hook.s] \in Nat
    BY <1>2 DEF CompletedCommit, Inv, TypeOK
  <2>2. move \in 0..offer.reserved /\ left \in 0..offer.reserved
    BY <2>1 DEF Least
  <2>3. /\ Flushed(offer.reserved, offer.reserved, left) = left
        /\ Flushed(offer.sold, offer.sold, offer.sold + move)
             = offer.sold + move
    BY <2>2 DEF Flushed
  <2>4. offer' = [offer EXCEPT !.reserved = left, !.sold = offer.sold + move]
    BY <1>2, <2>1, <2>3 DEF CompletedCommit
  <2>5. move = offer.reserved - left
    BY <2>2
  <2> HIDE DEF move, left
  <2>6. /\ offer'.total = offer.total /\ offer'.reserved = left
        /\ offer'.sold = offer.sold + move
    BY <2>4 DEF Row
  <2>7. Ledger!Sell /\ NeverOvercommitted'
    BY <2>2, <2>5, <2>6 DEF Ledger!Sell
  <2>8. OneAtATime' /\ FreshCopies'
    BY <1>2 DEF CompletedCommit
  <2>9. QED BY <2>7, <2>8
<1>3. QED BY <1>1, <1>2

LEMMA QuietJobs ==
    ASSUME ~Overlap, QuietInv,
           \/ CleanupScan \/ CleanupZero \/ CleanupFails
           \/ UpdateRead \/ UpdateWrite \/ SetActive
    PROVE  Kept
<1> USE RowNumbers, TotalsAssumption
    DEF Kept, QuietInv, OneAtATime, FreshCopies, NeverOvercommitted,
        Ledger!NeverOvercommitted, Ledger!Next, Ledger!vars, InProgress
<1>1. CASE CleanupScan
  BY <1>1 DEF CleanupScan, MayStart, Quiet
<1>2. CASE CleanupZero
  <2>1. /\ offer'.total = offer.total /\ offer'.sold = offer.sold
        /\ offer'.reserved = 0
    BY <1>2 DEF CleanupZero, Row
  <2>2. Ledger!Release /\ NeverOvercommitted'
    BY <2>1 DEF Ledger!Release
  <2>3. QED BY <1>2, <2>2 DEF CleanupZero
<1>3. CASE CleanupFails
  BY <1>3 DEF CleanupFails
<1>4. CASE UpdateRead
  BY <1>4 DEF UpdateRead, MayStart, Quiet
<1>5. CASE UpdateWrite
  <2>1. editor \in Nat /\ editor >= offer.sold + offer.reserved
    BY <1>5 DEF UpdateWrite, Inv, TypeOK
  <2>2. /\ offer'.total = editor /\ offer'.sold = offer.sold
        /\ offer'.reserved = offer.reserved
    BY <1>5 DEF UpdateWrite, Row
  <2>3. Ledger!Resize /\ NeverOvercommitted'
    BY <2>1, <2>2 DEF Ledger!Resize
  <2>4. QED BY <1>5, <2>3 DEF UpdateWrite
<1>6. CASE SetActive
  <2>1. /\ offer'.total = offer.total /\ offer'.sold = offer.sold
        /\ offer'.reserved = offer.reserved
    BY <1>6 DEF SetActive, Row
  <2>2. QED BY <1>6, <2>1 DEF SetActive, MayStart, Quiet
<1>7. QED BY <1>1, <1>2, <1>3, <1>4, <1>5, <1>6

LEMMA QuietNext ==
    ASSUME ~Overlap, QuietInv, [Next]_vars
    PROVE  QuietInv' /\ [Ledger!Next]_(Ledger!vars)
<1>1. Inv'
  BY NextInv DEF QuietInv
<1>2. CASE UNCHANGED vars
  BY <1>1, <1>2 DEF QuietInv, OneAtATime, FreshCopies, NeverOvercommitted,
     Ledger!NeverOvercommitted, Ledger!vars, vars, stripeVars
<1>3. CASE Next
  <2>1. Kept
    BY <1>3, QuietRequest, QuietStripe, QuietCompleted, QuietJobs DEF Next
  <2>2. QED BY <1>1, <2>1 DEF Kept, QuietInv
<1>4. QED BY <1>2, <1>3

-----------------------------------------------------------------------------
\* While handlers of the offer do not overlap, the row is the atomic ledger:
\* every reservation fits, every release and sale is covered by a reservation.
THEOREM OfferImplementsLedger == ASSUME ~Overlap PROVE Spec => ImplementsLedger
<1>1. Init => Ledger!Init
  BY TotalsAssumption DEF Init, Ledger!Init
<1>2. QuietInv /\ [Next]_vars => QuietInv' /\ [Ledger!Next]_(Ledger!vars)
  BY QuietNext
<1>3. QED
  BY QuietInit, <1>1, <1>2, PTL DEF Spec, ImplementsLedger, Ledger!Spec

\* Then sold and reserved units never exceed the stock.
THEOREM QuietNeverOvercommits ==
    ASSUME ~Overlap PROVE Spec => []NeverOvercommitted
<1>1. QuietInv /\ [Next]_vars => QuietInv'
  BY QuietNext
<1>2. QuietInv => NeverOvercommitted
  BY DEF QuietInv
<1>3. QED BY QuietInit, <1>1, <1>2, PTL DEF Spec
=============================================================================
