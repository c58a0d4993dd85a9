------------------------ MODULE SessionWaitlistProofs ------------------------
(***************************************************************************)
(* Theorems about the session waitlist for every set of users, every tier, *)
(* capacity and fault: the counter stays within the maximum, who accepted  *)
(* has an RSVP, who waits is in the queue, and the queue is served in its  *)
(* order: between the tiers while handlers take turns, within a tier also  *)
(* when they overlap and are stopped.                                      *)
(***************************************************************************)
EXTENDS SessionWaitlist, WellFoundedInduction,
        SequenceTheorems, TLAPS

(* Types *)

Statuses == {"none", "WAITING", "OFFERED", "ACCEPTED", "DECLINED", "EXPIRED", "LEFT"}
Alone == {"idle", "offerNext"}
Ops == Alone \cup {"join", "leave", "remove", "accept", "seat", "register", "decline"}

SeatsType ==
    /\ rsvp \in [Users -> {"none", "CONFIRMED", "CANCELLED"}]
    /\ capacity \in Nat
    /\ AttendanceWithinCapacity

RowsType ==
    /\ status \in [Users -> Statuses]
    /\ lapsed \subseteq Users
    /\ responded \subseteq Users

\* A queue only holds users of its tier.
QueueType ==
    /\ queue \in [Tiers -> Seq(Users)]
    /\ \A t \in Tiers : \A i \in 1 .. Len(queue[t]) : Tier[queue[t][i]] = t

ApiType ==
    /\ api \in [op : Ops, user : Users \cup {Nobody}]
    /\ api.op \in Alone <=> api.user = Nobody

JobsType ==
    /\ expirer \in [at : {"idle", "write", "cascade", "offer", "next"},
                    user : Users \cup {Nobody}, batch : SUBSET Users]
    /\ expirer.at # "idle" => expirer.user \in Users
    /\ offerer \in [at : {"idle", "offer"}, user : Users \cup {Nobody}]
    /\ offerer.at # "idle" => offerer.user \in Users

-----------------------------------------------------------------------------
(* The seats *)

LEMMA IncrementKeeps ==
    ASSUME capacity \in Nat, AttendanceWithinCapacity, IncrementAttendance,
           capacity' = capacity
    PROVE  AttendanceWithinCapacity'
BY DEF AttendanceWithinCapacity, IncrementAttendance, IsFull

\* What a step may do to the seats.
LEMMA SeatSteps ==
    ASSUME [Next]_vars
    PROVE  \/ UNCHANGED seatVars
           \/ IncrementAttendance /\ UNCHANGED <<rsvp, capacity>>
           \/ Registered
           \/ \E u \in Users : RsvpToSession(u) \/ CancelRsvp(u)
           \/ \E c \in Capacities : SetMaximum(c)
<1>1. CASE Mutation
  BY <1>1 DEF Mutation, JoinWaitlist, LeaveWaitlist, RemoveFromWaitlist,
              AcceptWaitlistOffer, DeclineWaitlistOffer, SendWaitlistOffer,
              RsvpToSessionCall, CancelSessionRsvp, BulkSendWaitlistOffers,
              UpdateSessionCapacity
<1>2. CASE Continue
  BY <1>2 DEF Continue, InsertRow, RowLeft, RowAccepted, SeatCounted, RowDeclined,
              OfferNext
<1>3. CASE ExpirerStep \/ OffererStep
  BY <1>3 DEF ExpirerStep, OffererStep, ListExpired, RowExpired, Cascade, CascadeOffer,
              NextExpired, PickNext, OfferSpot
<1>4. CASE Environment
  BY <1>4 DEF Environment, OfferLapses, Crash, RedisFlips, QueueExpires
<1>5. CASE UNCHANGED vars
  BY <1>5 DEF vars
<1> QED BY <1>1, <1>2, <1>3, <1>4, <1>5 DEF Next

LEMMA SeatsInitType == Init => SeatsType
BY CapacityAssumption DEF Init, SeatsInit, SeatsType, AttendanceWithinCapacity

\* An RSVP row is never deleted.
RowsStay == \A u \in Users : rsvp[u] # "none" => rsvp'[u] # "none"

LEMMA SeatsStep ==
    ASSUME SeatsType, [Next]_vars
    PROVE  SeatsType' /\ RowsStay
<1> USE DEF SeatsType
<1>1. CASE UNCHANGED seatVars
  BY <1>1 DEF seatVars, AttendanceWithinCapacity, RowsStay
<1>2. CASE IncrementAttendance /\ UNCHANGED <<rsvp, capacity>>
  BY <1>2, IncrementKeeps DEF RowsStay
<1>3. CASE Registered
  BY <1>3 DEF Registered, Register, AttendanceWithinCapacity, RowsStay
<1>4. ASSUME NEW u \in Users, RsvpToSession(u) PROVE SeatsType' /\ RowsStay
  <2>1. AttendanceWithinCapacity'
    BY <1>4, IncrementKeeps DEF RsvpToSession
  <2> QED BY <1>4, <2>1 DEF RsvpToSession, RowsStay
<1>5. ASSUME NEW u \in Users, CancelRsvp(u) PROVE SeatsType' /\ RowsStay
  BY <1>5 DEF CancelRsvp, DecrementAttendance, AttendanceWithinCapacity, RowsStay
<1>6. ASSUME NEW c \in Capacities, SetMaximum(c) PROVE SeatsType' /\ RowsStay
  BY <1>6, CapacityAssumption DEF SetMaximum, AttendanceWithinCapacity, RowsStay
<1> QED BY <1>1, <1>2, <1>3, <1>4, <1>5, <1>6, SeatSteps

LEMMA SeatsInvariant == Spec => []SeatsType
BY SeatsInitType, SeatsStep, PTL DEF Spec

\* current_attendance never passes maximum_capacity, whatever organisers and
\* attendees do and whatever overlaps or fails (CRUDSessionCapacity).
THEOREM AttendanceStaysWithin == Spec => []AttendanceWithinCapacity
<1>1. SeatsType => AttendanceWithinCapacity
  BY DEF SeatsType
<1> QED BY <1>1, SeatsInvariant, PTL

-----------------------------------------------------------------------------
(* The queues *)

LEMMA FirstIndex ==
    ASSUME NEW S, S \subseteq Nat, S # {}
    PROVE  Min(S) \in S
<1>1. PICK m \in S : \A n \in S : <<n, m>> \notin OpToRel(<, Nat)
  BY NatLessThanWellFounded, WFMin
<1>2. ASSUME NEW n \in S, n < m PROVE FALSE
  <2>1. <<n, m>> \in Nat \X Nat /\ <<n, m>>[1] = n /\ <<n, m>>[2] = m
    OBVIOUS
  <2>2. <<n, m>> \in {p \in Nat \X Nat : p[1] < p[2]}
    BY <1>2, <2>1
  <2>3. OpToRel(<, Nat) = {p \in Nat \X Nat : p[1] < p[2]}
    BY DEF OpToRel
  <2> QED BY <1>1, <2>2, <2>3
<1>3. m \in S /\ \A n \in S : m <= n
  BY <1>2
<1> QED BY <1>3 DEF Min

OfTier(r, t) == \A i \in 1 .. Len(r) : Tier[r[i]] = t
Drawn(r, s) == \A i \in 1 .. Len(r) : \E j \in 1 .. Len(s) : r[i] = s[j]
KeepsBut(u, r, s) ==
    \A j \in 1 .. Len(s) : s[j] # u => \E i \in 1 .. Len(r) : r[i] = s[j]

StartKept(u, r, s) == s # <<>> /\ s[1] # u => r # <<>> /\ r[1] = s[1]

\* Removing a user keeps everybody else, and the first unless it is this one.
LEMMA RemoveKeeps ==
    ASSUME NEW s \in Seq(Users), NEW u
    PROVE  /\ RemoveFirst(s, u) \in Seq(Users)
           /\ Drawn(RemoveFirst(s, u), s)
           /\ KeepsBut(u, RemoveFirst(s, u), s)
           /\ StartKept(u, RemoveFirst(s, u), s)
<1> USE DEF Drawn, KeepsBut
<1>1. CASE ~ \E i \in 1 .. Len(s) : s[i] = u
  BY <1>1 DEF RemoveFirst, StartKept
<1>2. CASE \E i \in 1 .. Len(s) : s[i] = u
  <2> DEFINE I == {i \in 1 .. Len(s) : s[i] = u}
             k == Min(I)
             r == SubSeq(s, 1, k - 1) \o SubSeq(s, k + 1, Len(s))
  <2>1. I # {} /\ I \subseteq Nat
    BY <1>2
  <2>2. k \in 1 .. Len(s) /\ s[k] = u
    BY <2>1, FirstIndex
  <2>3. RemoveFirst(s, u) = r
    BY <1>2, <2>1 DEF RemoveFirst, RemoveAt, SelectInSeq
  <2> HIDE DEF I, k
  <2>4. /\ SubSeq(s, 1, k - 1) \in Seq(Users) /\ Len(SubSeq(s, 1, k - 1)) = k - 1
        /\ SubSeq(s, k + 1, Len(s)) \in Seq(Users)
        /\ Len(SubSeq(s, k + 1, Len(s))) = Len(s) - k
        /\ \A i \in 1 .. k - 1 : SubSeq(s, 1, k - 1)[i] = s[i]
        /\ \A i \in 1 .. Len(s) - k : SubSeq(s, k + 1, Len(s))[i] = s[k + i]
    BY <2>2
  <2> DEFINE a == SubSeq(s, 1, k - 1)
             b == SubSeq(s, k + 1, Len(s))
  <2>5. /\ r \in Seq(Users) /\ Len(r) = Len(s) - 1
        /\ \A i \in 1 .. k - 1 : r[i] = s[i]
        /\ \A i \in k .. Len(s) - 1 : r[i] = s[i + 1]
    <3> HIDE DEF a, b
    <3>0. a \in Seq(Users) /\ Len(a) = k - 1 /\ b \in Seq(Users) /\ Len(b) = Len(s) - k
      BY <2>4 DEF a, b
    <3>1. a \o b \in Seq(Users) /\ Len(a \o b) = Len(s) - 1
      <4>1. a \o b \in Seq(Users) /\ Len(a \o b) = Len(a) + Len(b)
        BY <3>0, ConcatProperties
      <4>2. Len(s) \in Nat /\ k \in Int
        BY <2>2
      <4> HIDE DEF k
      <4> QED BY <3>0, <4>1, <4>2
    <3>2. \A i \in 1 .. Len(a \o b) :
             (a \o b)[i] = IF i <= Len(a) THEN a[i] ELSE b[i - Len(a)]
      BY <3>0, ConcatProperties
    <3>3. \A i \in 1 .. k - 1 : (a \o b)[i] = s[i]
      BY <2>2, <2>4, <3>1, <3>2 DEF a
    <3>4. \A i \in k .. Len(s) - 1 : (a \o b)[i] = s[i + 1]
      <4> TAKE i \in k .. Len(s) - 1
      <4>1. (a \o b)[i] = b[i - (k - 1)]
        BY <2>2, <2>4, <3>1, <3>2 DEF a
      <4>2. i - (k - 1) \in 1 .. Len(s) - k /\ k + (i - (k - 1)) = i + 1
        BY <2>2
      <4> QED BY <2>4, <4>1, <4>2 DEF b
    <3> QED BY <3>1, <3>3, <3>4 DEF a, b
  <2> HIDE DEF r
  <2>6. \A i \in 1 .. Len(r) : \E j \in 1 .. Len(s) : r[i] = s[j]
    <3> TAKE i \in 1 .. Len(r)
    <3>1. CASE i <= k - 1
      BY <2>2, <2>5, <3>1
    <3>2. CASE i > k - 1
      <4>1. r[i] = s[i + 1] /\ i + 1 \in 1 .. Len(s)
        BY <2>2, <2>5, <3>2
      <4> QED BY <4>1
    <3> QED BY <2>2, <3>1, <3>2
  <2>7. ASSUME NEW j \in 1 .. Len(s), s[j] # u
        PROVE  \E i \in 1 .. Len(r) : r[i] = s[j]
    <3>1. CASE j < k
      BY <2>2, <2>5, <3>1
    <3>2. CASE j > k
      <4>1. j - 1 \in 1 .. Len(r) /\ r[j - 1] = s[j - 1 + 1] /\ j - 1 + 1 = j
        BY <2>2, <2>5, <3>2
      <4> QED BY <4>1
    <3> QED BY <2>2, <2>7, <3>1, <3>2
  <2>8. StartKept(u, r, s)
    <3> SUFFICES ASSUME s[1] # u PROVE r # <<>> /\ r[1] = s[1]
      BY DEF StartKept
    <3>1. k # 1
      BY <2>2
    <3>2. 1 \in 1 .. k - 1 /\ Len(r) >= 1
      BY <2>2, <2>5, <3>1
    <3> QED BY <2>5, <3>2
  <2> QED BY <2>3, <2>5, <2>6, <2>7, <2>8
<1> QED BY <1>1, <1>2

LEMMA QueuedIs ==
    ASSUME QueueType, NEW u \in Users
    PROVE  /\ Tier[u] \in Tiers /\ queue[Tier[u]] \in Seq(Users)
           /\ Queued(u) <=> \E i \in 1 .. Len(queue[Tier[u]]) : queue[Tier[u]][i] = u
BY TierAssumption DEF QueueType, Queued, Range

LEMMA QueuedIsNext ==
    ASSUME QueueType', NEW u \in Users
    PROVE  /\ Tier[u] \in Tiers /\ queue'[Tier[u]] \in Seq(Users)
           /\ Queued(u)' <=> \E i \in 1 .. Len(queue'[Tier[u]]) : queue'[Tier[u]][i] = u
BY TierAssumption DEF QueueType, Queued, Range

\* One tier's queue is replaced by one that keeps its members, but for one.
LEMMA QueueChange ==
    ASSUME QueueType, NEW t \in Tiers, NEW r \in Seq(Users),
           OfTier(r, t), queue' = [queue EXCEPT ![t] = r],
           NEW u, KeepsBut(u, r, queue[t])
    PROVE  QueueType' /\ \A v \in Users : v # u /\ Queued(v) => Queued(v)'
<1>1. queue' \in [Tiers -> Seq(Users)] /\ queue'[t] = r
      /\ \A s \in Tiers : s # t => queue'[s] = queue[s]
  BY DEF QueueType
<1>2. QueueType'
  BY <1>1 DEF QueueType, OfTier
<1>3. ASSUME NEW v \in Users, v # u, Queued(v) PROVE Queued(v)'
  <2>1. PICK j \in 1 .. Len(queue[Tier[v]]) : queue[Tier[v]][j] = v
    BY <1>3, QueuedIs
  <2>2. \E i \in 1 .. Len(queue'[Tier[v]]) : queue'[Tier[v]][i] = v
    <3>1. CASE Tier[v] = t
      BY <1>1, <1>3, <2>1, <3>1 DEF KeepsBut
    <3>2. CASE Tier[v] # t
      BY <1>1, <2>1, <3>2, QueuedIs
    <3> QED BY <3>1, <3>2
  <2> QED BY <1>2, <2>2, QueuedIsNext
<1> QED BY <1>2, <1>3

LEMMA EnqueueKeeps ==
    ASSUME QueueType, NEW u \in Users, Enqueue(u)
    PROVE  /\ QueueType'
           /\ \A v \in Users : Queued(v) => Queued(v)'
           /\ redisUp => Queued(u)'
<1>1. CASE queue' = queue /\ (redisUp => Queued(u))
  BY <1>1 DEF QueueType, Queued
<1>2. CASE ~Queued(u) /\ queue' = [queue EXCEPT ![Tier[u]] = Append(queue[Tier[u]], u)]
  <2> DEFINE t == Tier[u]
             r == Append(queue[t], u)
  <2>1. t \in Tiers /\ queue[t] \in Seq(Users)
    BY QueuedIs
  <2>2. /\ r \in Seq(Users) /\ Len(r) = Len(queue[t]) + 1 /\ r[Len(r)] = u
        /\ \A i \in 1 .. Len(queue[t]) : r[i] = queue[t][i]
    BY <2>1, AppendProperties
  <2> HIDE DEF r
  <2>3. OfTier(r, t)
    <3> SUFFICES \A i \in 1 .. Len(r) : Tier[r[i]] = t
      BY DEF OfTier
    <3> TAKE i \in 1 .. Len(r)
    <3>1. i = Len(r) \/ i \in 1 .. Len(queue[t])
      BY <2>1, <2>2
    <3> QED BY <2>1, <2>2, <3>1 DEF QueueType
  <2>4. KeepsBut(Nobody, r, queue[t])
    BY <2>1, <2>2 DEF KeepsBut
  <2>5. queue' = [queue EXCEPT ![t] = r]
    BY <1>2 DEF r
  <2> HIDE DEF t
  <2>6. QueueType' /\ \A v \in Users : v # Nobody /\ Queued(v) => Queued(v)'
    BY <2>1, <2>2, <2>3, <2>4, <2>5, QueueChange
  <2>7. queue'[t] = r /\ Len(r) \in 1 .. Len(r)
    BY <2>1, <2>2, <2>5 DEF QueueType
  <2>8. Queued(u)'
    BY <2>2, <2>6, <2>7, QueuedIsNext DEF t
  <2> QED BY <2>6, <2>8, NobodyAssumption
<1> QED BY <1>1, <1>2 DEF Enqueue

LEMMA DequeueKeeps ==
    ASSUME QueueType, NEW u \in Users, Dequeue(u)
    PROVE  /\ QueueType'
           /\ \A v \in Users : v # u /\ Queued(v) => Queued(v)'
<1>1. CASE queue' = queue
  BY <1>1 DEF QueueType, Queued
<1>2. CASE queue' = [queue EXCEPT ![Tier[u]] = RemoveFirst(queue[Tier[u]], u)]
  <2> DEFINE t == Tier[u]
             r == RemoveFirst(queue[t], u)
  <2>1. t \in Tiers /\ queue[t] \in Seq(Users)
    BY QueuedIs
  <2> HIDE DEF t
  <2>2. r \in Seq(Users) /\ Drawn(r, queue[t]) /\ KeepsBut(u, r, queue[t])
    BY <2>1, RemoveKeeps
  <2>3. OfTier(r, t)
    BY <2>1, <2>2 DEF QueueType, OfTier, Drawn
  <2>4. queue' = [queue EXCEPT ![t] = r]
    BY <1>2 DEF t
  <2> HIDE DEF r
  <2> QED BY <2>1, <2>2, <2>3, <2>4, QueueChange
<1> QED BY <1>1, <1>2 DEF Dequeue

LEMMA HeadIsUser ==
    ASSUME QueueType, NEW u \in QueueHead(queue)
    PROVE  /\ u \in Users /\ queue[Tier[u]] # <<>> /\ Head(queue[Tier[u]]) = u
           /\ \A t \in Tiers : queue[t] # <<>> => Tier[u] <= t
<1>1. PICK t \in Tiers : /\ queue[t] # <<>> /\ u = Head(queue[t])
                         /\ \A s \in Tiers : queue[s] # <<>> => t <= s
  BY DEF QueueHead
<1>2. queue[t] \in Seq(Users)
  BY DEF QueueType
<1>3. u = queue[t][1] /\ 1 \in 1 .. Len(queue[t])
  BY <1>1, <1>2
<1>4. Tier[u] = t /\ u \in Users
  BY <1>2, <1>3 DEF QueueType
<1> QED BY <1>1, <1>4

LEMMA CascadedHeadIsUser ==
    ASSUME QueueType', NEW u \in NextInQueue(queue')
    PROVE  u \in Users
<1>1. CASE u \in QueueHead(queue')
  <2>1. PICK t \in Tiers : queue'[t] # <<>> /\ u = Head(queue'[t])
    BY <1>1 DEF QueueHead
  <2>2. queue'[t] \in Seq(Users)
    BY DEF QueueType
  <2> QED BY <2>1, <2>2
<1>2. CASE u \in BestWaiting
  BY <1>2 DEF BestWaiting, Waiting
<1> QED BY <1>1, <1>2 DEF NextInQueue

-----------------------------------------------------------------------------
(* Types of the rows, the queues and the handlers *)

Types == RowsType /\ QueueType /\ ApiType /\ JobsType

LEMMA InitTypes == Init => Types
BY NobodyAssumption DEF Init, Types, RowsType, QueueType, ApiType, JobsType, Statuses, Ops,
   Alone, NoCall, IdleExpirer, IdleOfferer

LEMMA WriteType ==
    ASSUME RowsType, NEW u \in Users, NEW s \in Statuses, Write(u, s)
    PROVE  /\ RowsType' /\ status'[u] = s
           /\ \A v \in Users : v # u => status'[v] = status[v]
           /\ lapsed' \subseteq lapsed
BY DEF RowsType, Write

\* What is offered in rounds is offered to users that wait.
LEMMA OfferRoundsOffer ==
    ASSUME RowsType, NEW n, OfferRounds(n)
    PROVE  /\ RowsType' /\ lapsed' \subseteq lapsed
           /\ \E S \in SUBSET Waiting :
                 /\ S \in Offerable(n)
                 /\ status' = [u \in Users |-> IF u \in S THEN "OFFERED" ELSE status[u]]
<1>1. PICK S \in Offerable(n) : SetOffers(S)
  BY DEF OfferRounds
<1>2. S \subseteq Waiting
  BY DEF Offerable, TopWaiting
<1>3. RowsType'
  BY <1>1 DEF RowsType, SetOffers, Statuses
<1> QED BY <1>1, <1>2, <1>3 DEF SetOffers

LEMMA CallType ==
    ASSUME NEW op \in Ops \ Alone, NEW u \in Users, Call(op, u)
    PROVE  ApiType' /\ api'.op = op /\ api'.user = u
BY NobodyAssumption DEF Call, ApiType, Ops, Alone

LEMMA CallNobodyType ==
    ASSUME Call("offerNext", Nobody) \/ api' = NoCall
    PROVE  ApiType' /\ api'.op \in Alone /\ api'.user = Nobody
BY DEF Call, ApiType, Ops, Alone, NoCall

LEMMA SameTypes ==
    ASSUME Types
    PROVE  /\ UNCHANGED rowVars => RowsType'
           /\ queue' = queue => QueueType'
           /\ api' = api => ApiType'
           /\ UNCHANGED jobVars => JobsType'
BY DEF Types, RowsType, QueueType, ApiType, JobsType, rowVars, jobVars

LEMMA MutationTypes ==
    ASSUME Types, Mutation
    PROVE  Types'
<1> USE DEF Types
<1>1. ASSUME NEW u \in Users, JoinWaitlist(u) PROVE Types'
  <2>1. QueueType'
    BY <1>1, EnqueueKeeps DEF JoinWaitlist
  <2>2. ApiType'
    BY <1>1, CallType DEF JoinWaitlist, Ops, Alone, ApiType
  <2> QED BY <1>1, <2>1, <2>2, SameTypes DEF JoinWaitlist
<1>2. ASSUME NEW u \in Users, LeaveWaitlist(u) \/ RemoveFromWaitlist(u) PROVE Types'
  <2>1. QueueType'
    BY <1>2, DequeueKeeps DEF LeaveWaitlist, RemoveFromWaitlist
  <2>2. ApiType'
    BY <1>2, CallType DEF LeaveWaitlist, RemoveFromWaitlist, Ops, Alone
  <2> QED BY <1>2, <2>1, <2>2, SameTypes DEF LeaveWaitlist, RemoveFromWaitlist
<1>3. ASSUME NEW u \in Users, AcceptWaitlistOffer(u) \/ DeclineWaitlistOffer(u)
      PROVE  Types'
  <2>1. ApiType'
    BY <1>3, CallType DEF AcceptWaitlistOffer, DeclineWaitlistOffer, Ops, Alone
  <2> QED BY <1>3, <2>1, SameTypes DEF AcceptWaitlistOffer, DeclineWaitlistOffer
<1>4. ASSUME NEW u \in Users, SendWaitlistOffer(u) PROVE Types'
  BY <1>4, WriteType, SameTypes DEF SendWaitlistOffer, Statuses
<1>5. ASSUME NEW u \in Users, RsvpToSessionCall(u) \/ CancelSessionRsvp(u) PROVE Types'
  BY <1>5, CallNobodyType, SameTypes DEF RsvpToSessionCall, CancelSessionRsvp
<1>6. ASSUME NEW n, BulkSendWaitlistOffers(n) \/ UpdateSessionCapacity(n)
      PROVE  Types'
  BY <1>6, OfferRoundsOffer, SameTypes DEF BulkSendWaitlistOffers, UpdateSessionCapacity
<1> QED BY <1>1, <1>2, <1>3, <1>4, <1>5, <1>6 DEF Mutation

LEMMA ContinueTypes ==
    ASSUME Types, Continue
    PROVE  Types'
<1> USE DEF Types
<1>1. ASSUME api.op \notin Alone PROVE api.user \in Users
  BY <1>1 DEF ApiType
<1>2. CASE InsertRow \/ RowDeclined
  <2>1. api.user \in Users
    BY <1>1, <1>2 DEF InsertRow, RowDeclined, Alone
  <2>2. RowsType'
    BY <1>2, <2>1, WriteType DEF InsertRow, RowDeclined, Statuses
  <2> QED BY <1>2, <2>2, CallNobodyType, SameTypes DEF InsertRow, RowDeclined
<1>3. CASE RowLeft
  <2>1. api.user \in Users
    BY <1>1, <1>3 DEF RowLeft, Alone
  <2>2. RowsType'
    BY <1>3, <2>1, WriteType DEF RowLeft, Statuses
  <2> QED BY <1>3, <2>2, CallNobodyType, SameTypes DEF RowLeft
<1>4. CASE RowAccepted
  <2>1. api.user \in Users
    BY <1>1, <1>4 DEF RowAccepted, Alone
  <2>2. RowsType'
    BY <1>4, <2>1, WriteType DEF RowAccepted, Statuses
  <2>3. ApiType'
    BY <1>4, <2>1, CallType DEF RowAccepted, Ops, Alone
  <2> QED BY <1>4, <2>2, <2>3, SameTypes DEF RowAccepted
<1>5. CASE SeatCounted
  <2>1. api.user \in Users
    BY <1>1, <1>5 DEF SeatCounted, Alone
  <2>2. QueueType'
    BY <1>5, <2>1, DequeueKeeps DEF SeatCounted
  <2>3. ApiType'
    BY <1>5, <2>1, CallType DEF SeatCounted, Ops, Alone
  <2> QED BY <1>5, <2>2, <2>3, SameTypes DEF SeatCounted
<1>6. CASE Registered
  BY <1>6, CallNobodyType, SameTypes DEF Registered
<1>7. CASE OfferNext
  BY <1>7, OfferRoundsOffer, CallNobodyType, SameTypes DEF OfferNext
<1> QED BY <1>2, <1>3, <1>4, <1>5, <1>6, <1>7 DEF Continue

LEMMA JobTypes ==
    ASSUME Types, ExpirerStep \/ OffererStep
    PROVE  Types'
<1> USE DEF Types
<1>1. CASE ListExpired
  <2>1. JobsType'
    BY <1>1 DEF ListExpired, JobsType, RowsType
  <2> QED BY <1>1, <2>1, SameTypes DEF ListExpired
<1>2. CASE RowExpired
  <2>1. expirer.user \in Users
    BY <1>2 DEF RowExpired, JobsType
  <2>2. RowsType'
    BY <1>2, <2>1, WriteType DEF RowExpired, Statuses
  <2>3. JobsType'
    BY <1>2 DEF RowExpired, JobsType
  <2> QED BY <1>2, <2>2, <2>3, SameTypes DEF RowExpired
<1>3. CASE Cascade
  <2>1. expirer.user \in Users
    BY <1>3 DEF Cascade, JobsType
  <2>2. QueueType'
    BY <1>3, <2>1, DequeueKeeps DEF Cascade
  <2>3. \/ expirer' = [expirer EXCEPT !.at = "next"]
        \/ \E u \in Users : expirer' = [expirer EXCEPT !.at = "offer", !.user = u]
    BY <1>3, <2>2, CascadedHeadIsUser DEF Cascade
  <2>4. JobsType'
    BY <1>3, <2>1, <2>3 DEF Cascade, JobsType
  <2> QED BY <1>3, <2>2, <2>4, SameTypes DEF Cascade
<1>4. CASE CascadeOffer
  <2>1. expirer.user \in Users
    BY <1>4 DEF CascadeOffer, JobsType
  <2>2. RowsType'
    BY <1>4, <2>1, WriteType DEF CascadeOffer, Statuses
  <2>3. JobsType'
    BY <1>4 DEF CascadeOffer, JobsType
  <2> QED BY <1>4, <2>2, <2>3, SameTypes DEF CascadeOffer
<1>5. CASE NextExpired
  <2>1. JobsType'
    BY <1>5 DEF NextExpired, JobsType, IdleExpirer
  <2> QED BY <1>5, <2>1, SameTypes DEF NextExpired
<1>6. CASE PickNext
  <2>1. JobsType'
    BY <1>6 DEF PickNext, JobsType, Waiting
  <2> QED BY <1>6, <2>1, SameTypes DEF PickNext
<1>7. CASE OfferSpot
  <2>1. offerer.user \in Users
    BY <1>7 DEF OfferSpot, JobsType
  <2>2. RowsType'
    BY <1>7, <2>1, WriteType DEF OfferSpot, Statuses
  <2>3. JobsType'
    BY <1>7 DEF OfferSpot, JobsType, IdleOfferer
  <2> QED BY <1>7, <2>2, <2>3, SameTypes DEF OfferSpot
<1> QED BY <1>1, <1>2, <1>3, <1>4, <1>5, <1>6, <1>7 DEF ExpirerStep, OffererStep

LEMMA EnvironmentTypes ==
    ASSUME Types, Environment \/ UNCHANGED vars
    PROVE  Types'
<1> USE DEF Types
<1>1. ASSUME NEW u \in Users, OfferLapses(u) PROVE Types'
  <2>1. RowsType'
    BY <1>1 DEF OfferLapses, RowsType
  <2> QED BY <1>1, <2>1, SameTypes DEF OfferLapses
<1>2. CASE Crash
  <2>1. JobsType'
    BY <1>2 DEF Crash, JobsType, IdleExpirer, IdleOfferer
  <2> QED BY <1>2, <2>1, CallNobodyType, SameTypes DEF Crash
<1>3. CASE RedisFlips
  BY <1>3, SameTypes DEF RedisFlips
<1>4. ASSUME NEW t \in Tiers, QueueExpires(t) PROVE Types'
  <2>1. QueueType'
    BY <1>4 DEF QueueExpires, QueueType
  <2> QED BY <1>4, <2>1, SameTypes DEF QueueExpires
<1>5. CASE UNCHANGED vars
  BY <1>5, SameTypes DEF vars, rowVars, jobVars
<1> QED BY <1>1, <1>2, <1>3, <1>4, <1>5 DEF Environment

LEMMA TypesStep == Types /\ [Next]_vars => Types'
BY MutationTypes, ContinueTypes, JobTypes, EnvironmentTypes DEF Next

LEMMA TypesInvariant == Spec => []Types
BY InitTypes, TypesStep, PTL DEF Spec

-----------------------------------------------------------------------------
(* Who accepted has an RSVP *)

OfferedInRounds(u) == \E n : \E S \in Offerable(n) : u \in S

\* What a step may do to the status of a row.
LEMMA StatusSteps ==
    ASSUME Types, [Next]_vars, NEW u \in Users
    PROVE  \/ status'[u] = status[u]
           \/ InsertRow /\ u = api.user /\ status'[u] = "WAITING"
           \/ RowLeft /\ u = api.user /\ status'[u] = "LEFT"
           \/ RowAccepted /\ u = api.user /\ status'[u] = "ACCEPTED"
           \/ RowDeclined /\ u = api.user /\ status'[u] = "DECLINED"
           \/ RowExpired /\ u = expirer.user /\ status'[u] = "EXPIRED"
           \/ CascadeOffer /\ u = expirer.user /\ status'[u] = "OFFERED"
           \/ OfferSpot /\ u = offerer.user /\ status'[u] = "OFFERED"
           \/ SendWaitlistOffer(u) /\ status'[u] = "OFFERED"
           \/ /\ status[u] = "WAITING" /\ status'[u] = "OFFERED"
              /\ api.op \in Alone
              /\ OfferedInRounds(u)
<1> USE DEF Types
<1>1. CASE Mutation
  <2>1. ASSUME NEW v \in Users, SendWaitlistOffer(v)
        PROVE  status'[u] = status[u] \/ (SendWaitlistOffer(u) /\ status'[u] = "OFFERED")
    <3>1. Write(v, "OFFERED") /\ "OFFERED" \in Statuses
      BY <2>1 DEF SendWaitlistOffer, Statuses
    <3>2. status'[v] = "OFFERED" /\ (u # v => status'[u] = status[u])
      BY <3>1, WriteType
    <3>3. CASE u = v
      <4>1. SendWaitlistOffer(u)
        BY <2>1, <3>3 DEF SendWaitlistOffer, Write, MayCall
      <4> QED BY <3>2, <3>3, <4>1
    <3> QED BY <3>2, <3>3
  <2>2. ASSUME NEW n, BulkSendWaitlistOffers(n) \/ UpdateSessionCapacity(n)
        PROVE  \/ status'[u] = status[u]
               \/ /\ status[u] = "WAITING" /\ status'[u] = "OFFERED"
                  /\ api.op \in Alone
                  /\ OfferedInRounds(u)
    <3>1. UNCHANGED status \/ \E m : OfferRounds(m)
      BY <2>2 DEF BulkSendWaitlistOffers, UpdateSessionCapacity, rowVars
    <3>2. api.op \in Alone
      BY <2>2 DEF BulkSendWaitlistOffers, UpdateSessionCapacity, MayCall, NoCall, Alone
    <3> QED BY <3>1, <3>2, OfferRoundsOffer DEF Waiting, OfferedInRounds
  <2>3. CASE UNCHANGED status
    BY <2>3
  <2>4. \/ UNCHANGED status
        \/ \E v \in Users : SendWaitlistOffer(v)
        \/ \E n : BulkSendWaitlistOffers(n) \/ UpdateSessionCapacity(n)
    BY <1>1 DEF Mutation, JoinWaitlist, LeaveWaitlist, RemoveFromWaitlist,
                AcceptWaitlistOffer, DeclineWaitlistOffer, RsvpToSessionCall,
                CancelSessionRsvp, rowVars
  <2> QED BY <2>1, <2>2, <2>3, <2>4
<1>2. CASE Continue
  <2>1. CASE InsertRow
    BY <2>1, WriteType DEF InsertRow, ApiType, Statuses, Alone
  <2>2. CASE RowLeft
    BY <2>2, WriteType DEF RowLeft, ApiType, Statuses, Alone
  <2>3. CASE RowAccepted
    BY <2>3, WriteType DEF RowAccepted, ApiType, Statuses, Alone
  <2>4. CASE RowDeclined
    BY <2>4, WriteType DEF RowDeclined, ApiType, Statuses, Alone
  <2>5. CASE OfferNext
    <3>1. api.op \in Alone /\ OfferRounds(1)
      BY <2>5 DEF OfferNext, Alone
    <3> QED BY <3>1, OfferRoundsOffer DEF Waiting, OfferedInRounds
  <2>6. CASE SeatCounted \/ Registered
    BY <2>6 DEF SeatCounted, Registered, rowVars
  <2> QED BY <1>2, <2>1, <2>2, <2>3, <2>4, <2>5, <2>6 DEF Continue
<1>3. CASE ExpirerStep
  <2>1. CASE RowExpired
    BY <2>1, WriteType DEF RowExpired, JobsType, Statuses
  <2>2. CASE CascadeOffer
    BY <2>2, WriteType DEF CascadeOffer, JobsType, Statuses
  <2>3. CASE ListExpired \/ Cascade \/ NextExpired
    BY <2>3 DEF ListExpired, Cascade, NextExpired, rowVars
  <2> QED BY <1>3, <2>1, <2>2, <2>3 DEF ExpirerStep
<1>4. CASE OffererStep
  <2>1. CASE OfferSpot
    BY <2>1, WriteType DEF OfferSpot, JobsType, Statuses
  <2>2. CASE PickNext
    BY <2>2 DEF PickNext, rowVars
  <2> QED BY <1>4, <2>1, <2>2 DEF OffererStep
<1>5. CASE Environment \/ UNCHANGED vars
  BY <1>5 DEF Environment, OfferLapses, Crash, RedisFlips, QueueExpires, vars, rowVars
<1> QED BY <1>1, <1>2, <1>3, <1>4, <1>5 DEF Next

\* Which mutation is at work after a step.
LEMMA CallOp == \A op, u : Call(op, u) => api'.op = op /\ api'.user = u
BY DEF Call

LEMMA MutationOps ==
    ASSUME Mutation
    PROVE  /\ api.op = "idle"
           /\ \/ \E u \in Users : JoinWaitlist(u)
              \/ api'.op \in {"idle", "leave", "remove", "accept", "decline", "offerNext"}
<1>1. ASSUME NEW u \in Users, JoinWaitlist(u) PROVE api.op = "idle"
  BY <1>1 DEF JoinWaitlist, MayCall, NoCall
<1>2. ASSUME NEW u \in Users, LeaveWaitlist(u) \/ RemoveFromWaitlist(u)
      PROVE  api.op = "idle" /\ api'.op \in {"leave", "remove"}
  BY <1>2, CallOp DEF LeaveWaitlist, RemoveFromWaitlist, MayCall, NoCall
<1>3. ASSUME NEW u \in Users, AcceptWaitlistOffer(u) \/ DeclineWaitlistOffer(u)
      PROVE  api.op = "idle" /\ api'.op \in {"accept", "decline"}
  BY <1>3, CallOp DEF AcceptWaitlistOffer, DeclineWaitlistOffer, MayCall, NoCall
<1>4. ASSUME NEW u \in Users,
             SendWaitlistOffer(u) \/ RsvpToSessionCall(u) \/ CancelSessionRsvp(u)
      PROVE  api.op = "idle" /\ api'.op \in {"idle", "offerNext"}
  BY <1>4, CallOp DEF SendWaitlistOffer, RsvpToSessionCall, CancelSessionRsvp, MayCall,
                      NoCall
<1>5. ASSUME NEW n, BulkSendWaitlistOffers(n) \/ UpdateSessionCapacity(n)
      PROVE  api.op = "idle" /\ api'.op = "idle"
  BY <1>5 DEF BulkSendWaitlistOffers, UpdateSessionCapacity, MayCall, NoCall
<1> QED BY <1>1, <1>2, <1>3, <1>4, <1>5 DEF Mutation

LEMMA ContinueOps ==
    ASSUME Continue
    PROVE  \/ api'.op \in {"idle", "offerNext"}
           \/ RowAccepted /\ api'.op = "seat" /\ api'.user = api.user
           \/ SeatCounted /\ api'.op = "register" /\ api'.user = api.user
<1>1. CASE InsertRow \/ Registered \/ RowDeclined \/ OfferNext
  BY <1>1 DEF InsertRow, Registered, RowDeclined, OfferNext, NoCall
<1>2. CASE RowLeft
  BY <1>2, CallOp DEF RowLeft, NoCall
<1>3. CASE RowAccepted
  BY <1>3, CallOp DEF RowAccepted
<1>4. CASE SeatCounted
  BY <1>4, CallOp DEF SeatCounted
<1> QED BY <1>1, <1>2, <1>3, <1>4 DEF Continue

LEMMA OtherOps ==
    ASSUME [Next]_vars, ~ Mutation, ~ Continue
    PROVE  api' = api \/ api'.op = "idle"
<1>1. CASE Crash
  BY <1>1 DEF Crash, NoCall
<1>2. CASE ExpirerStep \/ OffererStep
  BY <1>2 DEF ExpirerStep, OffererStep, ListExpired, RowExpired, Cascade, CascadeOffer,
              NextExpired, PickNext, OfferSpot
<1>3. CASE (Environment /\ ~ Crash) \/ UNCHANGED vars
  BY <1>3 DEF Environment, OfferLapses, RedisFlips, QueueExpires, vars
<1> QED BY <1>1, <1>2, <1>3 DEF Next

\* What a step may do to the mutation at work.
LEMMA ApiSteps ==
    ASSUME Types, [Next]_vars
    PROVE  \/ api.user = Nobody
           \/ api'.user = api.user
           \/ InsertRow \/ RowLeft \/ RowDeclined \/ Registered
           \/ Crash
<1>1. CASE Mutation
  BY <1>1 DEF Mutation, JoinWaitlist, LeaveWaitlist, RemoveFromWaitlist,
              AcceptWaitlistOffer, DeclineWaitlistOffer, SendWaitlistOffer,
              RsvpToSessionCall, CancelSessionRsvp, BulkSendWaitlistOffers,
              UpdateSessionCapacity, MayCall, NoCall
<1>2. CASE Continue
  BY <1>2 DEF Continue, RowAccepted, SeatCounted, OfferNext, Call, Types, ApiType, Alone
<1>3. CASE ExpirerStep \/ OffererStep
  BY <1>3 DEF ExpirerStep, OffererStep, ListExpired, RowExpired, Cascade, CascadeOffer,
              NextExpired, PickNext, OfferSpot
<1>4. CASE Environment \/ UNCHANGED vars
  BY <1>4 DEF Environment, OfferLapses, RedisFlips, QueueExpires, vars
<1> QED BY <1>1, <1>2, <1>3, <1>4 DEF Next

LEMMA AcceptedStep ==
    ASSUME "crash" \notin Faults, SeatsType, Types, AcceptedHasRsvp, [Next]_vars
    PROVE  AcceptedHasRsvp'
<1> USE DEF AcceptedHasRsvp
<1> SUFFICES ASSUME NEW u \in Users, status'[u] = "ACCEPTED", api'.user # u,
                    rsvp'[u] = "none"
             PROVE  FALSE
  OBVIOUS
<1>1. rsvp[u] = "none"
  BY SeatsStep DEF RowsStay
<1>2. status[u] = "ACCEPTED"
  <2>1. ~ RowAccepted \/ u # api.user
    BY DEF RowAccepted, Call
  <2> QED BY <2>1, StatusSteps
<1>3. api.user = u
  BY <1>1, <1>2
<1>4. ~ Crash
  BY DEF Crash
<1>5. InsertRow \/ RowLeft \/ RowDeclined \/ Registered
  BY <1>3, <1>4, ApiSteps, NobodyAssumption
<1>6. CASE InsertRow \/ RowLeft \/ RowDeclined
  BY <1>3, <1>6, WriteType DEF InsertRow, RowLeft, RowDeclined, Types, Statuses
<1>7. CASE Registered
  BY <1>1, <1>3, <1>7 DEF Registered, Register, SeatsType
<1> QED BY <1>5, <1>6, <1>7

\* Who accepted is on the session's RSVP list once the mutation is over,
\* whatever the jobs, an organiser and Redis do meanwhile, unless the service
\* is stopped in between (accept_waitlist_offer commits the two apart).
THEOREM AcceptedAreSeated ==
    ASSUME "crash" \notin Faults
    PROVE  Spec => []AcceptedHasRsvp
<1>1. Init => AcceptedHasRsvp
  BY DEF Init, AcceptedHasRsvp
<1>2. SeatsType /\ Types /\ AcceptedHasRsvp /\ [Next]_vars => AcceptedHasRsvp'
  BY AcceptedStep
<1> QED BY <1>1, <1>2, SeatsInvariant, TypesInvariant, PTL DEF Spec

-----------------------------------------------------------------------------
(* Who waits is in the queue *)

\* The handlers and jobs write rows that exist; only a join makes one.
RowsKnown ==
    /\ \A u \in lapsed : status[u] # "none"
    /\ expirer.at \in {"write", "cascade", "offer"} => status[expirer.user] # "none"
    /\ \A u \in expirer.batch : status[u] # "none"
    /\ offerer.at = "offer" => status[offerer.user] # "none"

\* A join has queued its user, who has no row yet.
JoinAtWork == api.op = "join" => status[api.user] = "none" /\ Queued(api.user)

\* Whoever leaves the queue does not wait.
LeavesTheQueue ==
    /\ expirer.at = "cascade" => status[expirer.user] # "WAITING"
    /\ api.op \in {"seat", "register"} => status[api.user] # "WAITING"

HandlersInv ==
    /\ redisUp
    /\ RowsKnown /\ JoinAtWork /\ LeavesTheQueue

QueueInv == HandlersInv /\ WaitingIsQueued

\* Rows are not deleted, and only a join makes a row wait.
LEMMA RowsGoOn ==
    ASSUME Types, [Next]_vars, NEW u \in Users
    PROVE  /\ status[u] # "none" => status'[u] # "none"
           /\ status'[u] = "WAITING" => status[u] = "WAITING" \/ (InsertRow /\ u = api.user)
BY StatusSteps

LEMMA ExpirerSteps ==
    ASSUME [Next]_vars
    PROVE  \/ expirer' = expirer /\ ~ ExpirerStep
           \/ ExpirerStep
           \/ Crash
<1>1. CASE Mutation \/ Continue \/ Environment
  BY <1>1 DEF Mutation, JoinWaitlist, LeaveWaitlist, RemoveFromWaitlist,
              AcceptWaitlistOffer, DeclineWaitlistOffer, SendWaitlistOffer,
              RsvpToSessionCall, CancelSessionRsvp, BulkSendWaitlistOffers,
              UpdateSessionCapacity, Continue, InsertRow, RowLeft, RowAccepted,
              SeatCounted, Registered, RowDeclined, OfferNext, Environment,
              OfferLapses, RedisFlips, QueueExpires, jobVars
<1>2. CASE OffererStep
  BY <1>2 DEF OffererStep, PickNext, OfferSpot
<1>3. CASE UNCHANGED vars
  BY <1>3 DEF vars, jobVars
<1> QED BY <1>1, <1>2, <1>3 DEF Next

LEMMA OffererSteps ==
    ASSUME [Next]_vars
    PROVE  offerer' = offerer \/ PickNext \/ offerer' = IdleOfferer
<1>1. CASE Mutation \/ Continue \/ Environment
  BY <1>1 DEF Mutation, JoinWaitlist, LeaveWaitlist, RemoveFromWaitlist,
              AcceptWaitlistOffer, DeclineWaitlistOffer, SendWaitlistOffer,
              RsvpToSessionCall, CancelSessionRsvp, BulkSendWaitlistOffers,
              UpdateSessionCapacity, Continue, InsertRow, RowLeft, RowAccepted,
              SeatCounted, Registered, RowDeclined, OfferNext, Environment,
              OfferLapses, Crash, RedisFlips, QueueExpires, jobVars
<1>2. CASE ExpirerStep
  BY <1>2 DEF ExpirerStep, ListExpired, RowExpired, Cascade, CascadeOffer, NextExpired
<1>3. CASE OffererStep
  BY <1>3 DEF OffererStep, OfferSpot
<1>4. CASE UNCHANGED vars
  BY <1>4 DEF vars, jobVars
<1> QED BY <1>1, <1>2, <1>3, <1>4 DEF Next

LEMMA LapsedSteps ==
    ASSUME Types, [Next]_vars
    PROVE  lapsed' \subseteq lapsed \/ \E u \in Users : OfferLapses(u)
<1> USE DEF Types
<1>1. CASE Mutation
  BY <1>1, OfferRoundsOffer
     DEF Mutation, JoinWaitlist, LeaveWaitlist, RemoveFromWaitlist,
         AcceptWaitlistOffer, DeclineWaitlistOffer, SendWaitlistOffer,
         RsvpToSessionCall, CancelSessionRsvp, BulkSendWaitlistOffers,
         UpdateSessionCapacity, Write, rowVars
<1>2. CASE Continue
  BY <1>2, OfferRoundsOffer
     DEF Continue, InsertRow, RowLeft, RowAccepted, SeatCounted, Registered, RowDeclined,
         OfferNext, Write, rowVars
<1>3. CASE ExpirerStep \/ OffererStep
  BY <1>3 DEF ExpirerStep, OffererStep, ListExpired, RowExpired, Cascade, CascadeOffer,
              NextExpired, PickNext, OfferSpot, Write, rowVars
<1>4. CASE Environment \/ UNCHANGED vars
  BY <1>4 DEF Environment, Crash, RedisFlips, QueueExpires, vars, rowVars
<1> QED BY <1>1, <1>2, <1>3, <1>4 DEF Next

LEMMA QueueSteps ==
    ASSUME [Next]_vars
    PROVE  \/ UNCHANGED queue
           \/ \E u \in Users : JoinWaitlist(u) \/ LeaveWaitlist(u) \/ RemoveFromWaitlist(u)
           \/ SeatCounted \/ Cascade
           \/ \E t \in Tiers : QueueExpires(t)
<1>1. CASE Mutation
  BY <1>1 DEF Mutation, AcceptWaitlistOffer, DeclineWaitlistOffer, SendWaitlistOffer,
              RsvpToSessionCall, CancelSessionRsvp, BulkSendWaitlistOffers,
              UpdateSessionCapacity
<1>2. CASE Continue
  BY <1>2 DEF Continue, InsertRow, RowLeft, RowAccepted, Registered, RowDeclined,
              OfferNext
<1>3. CASE ExpirerStep \/ OffererStep
  BY <1>3 DEF ExpirerStep, OffererStep, ListExpired, RowExpired, CascadeOffer,
              NextExpired, PickNext, OfferSpot
<1>4. CASE Environment \/ UNCHANGED vars
  BY <1>4 DEF Environment, OfferLapses, Crash, RedisFlips, vars
<1> QED BY <1>1, <1>2, <1>3, <1>4 DEF Next

\* The head of the best tier is one user.
LEMMA NextIsOne ==
    ASSUME NEW u \in NextInQueue(queue'), NextInQueue(queue') \cap Waiting # {}
    PROVE  u \in Waiting
<1>1. CASE NextInQueue(queue') = BestWaiting
  BY <1>1 DEF BestWaiting
<1>2. CASE NextInQueue(queue') = QueueHead(queue')
  <2>1. PICK v \in QueueHead(queue') : v \in Waiting
    BY <1>2
  <2>2. PICK t \in Tiers : /\ queue'[t] # <<>> /\ u = Head(queue'[t])
                           /\ \A s \in Tiers : queue'[s] # <<>> => t <= s
    BY <1>2 DEF QueueHead
  <2>3. PICK s \in Tiers : /\ queue'[s] # <<>> /\ v = Head(queue'[s])
                           /\ \A r \in Tiers : queue'[r] # <<>> => s <= r
    BY <2>1 DEF QueueHead
  <2>4. s = t
    <3>1. s <= t /\ t <= s
      BY <2>2, <2>3
    <3> QED BY <3>1 DEF Tiers, VIP, PREMIUM, STANDARD
  <2> QED BY <2>1, <2>2, <2>3, <2>4
<1> QED BY <1>1, <1>2 DEF NextInQueue

LEMMA RowsKnownStep ==
    ASSUME Types, RowsKnown, [Next]_vars
    PROVE  RowsKnown'
<1> USE DEF RowsKnown
<1>0. \A u \in Users : status[u] # "none" => status'[u] # "none"
  BY RowsGoOn
<1>1. \A u \in lapsed' : status'[u] # "none"
  <2>1. lapsed \subseteq Users
    BY DEF Types, RowsType
  <2>2. CASE lapsed' \subseteq lapsed
    BY <1>0, <2>1, <2>2
  <2>3. ASSUME NEW u \in Users, OfferLapses(u) PROVE \A v \in lapsed' : status'[v] # "none"
    BY <1>0, <2>1, <2>3 DEF OfferLapses
  <2> QED BY <2>2, <2>3, LapsedSteps
<1>2. /\ expirer'.at \in {"write", "cascade", "offer"} => status'[expirer'.user] # "none"
      /\ \A u \in expirer'.batch : status'[u] # "none"
  <2> USE DEF Types, JobsType, RowsType
  <2>1. CASE expirer' = expirer
    BY <1>0, <2>1
  <2>2. CASE ListExpired
    BY <1>0, <2>2 DEF ListExpired
  <2>3. CASE RowExpired
    BY <1>0, <2>3 DEF RowExpired
  <2>4. CASE Cascade
    <3>1. \/ expirer' = [expirer EXCEPT !.at = "next"]
          \/ \E u \in Waiting : expirer' = [expirer EXCEPT !.at = "offer", !.user = u]
      BY <2>4, NextIsOne DEF Cascade
    <3> QED BY <1>0, <2>4, <3>1 DEF Cascade, Waiting
  <2>5. CASE CascadeOffer
    BY <1>0, <2>5 DEF CascadeOffer
  <2>6. CASE NextExpired
    BY <1>0, <2>6 DEF NextExpired, IdleExpirer
  <2>7. CASE Crash
    BY <2>7 DEF Crash, IdleExpirer
  <2> QED BY <2>1, <2>2, <2>3, <2>4, <2>5, <2>6, <2>7, ExpirerSteps DEF ExpirerStep
<1>3. offerer'.at = "offer" => status'[offerer'.user] # "none"
  <2> USE DEF Types, JobsType
  <2>1. CASE offerer' = offerer
    BY <1>0, <2>1
  <2>2. CASE PickNext
    BY <1>0, <2>2 DEF PickNext, Waiting
  <2>3. CASE offerer' = IdleOfferer
    BY <2>3 DEF IdleOfferer
  <2> QED BY <2>1, <2>2, <2>3, OffererSteps
<1> QED BY <1>1, <1>2, <1>3

LEMMA JoinStep ==
    ASSUME Types, HandlersInv, [Next]_vars, "ttl" \notin Faults
    PROVE  JoinAtWork'
<1> USE DEF HandlersInv
<1> SUFFICES ASSUME api'.op = "join"
             PROVE  status'[api'.user] = "none" /\ Queued(api.user)'
  BY DEF JoinAtWork
<1>1. CASE \E u \in Users : JoinWaitlist(u)
  <2>1. PICK u \in Users : JoinWaitlist(u)
    BY <1>1
  <2>2. Queued(u)'
    BY <2>1, EnqueueKeeps DEF JoinWaitlist, Types
  <2>3. status[u] = "none" /\ api'.user = u
    BY <2>1 DEF JoinWaitlist, Call, MayCall, NoCall
  <2>4. status' = status
    BY <2>1 DEF JoinWaitlist, rowVars
  <2> QED BY <2>2, <2>3, <2>4 DEF Queued
<1>2. CASE ~ \E u \in Users : JoinWaitlist(u)
  <2>1. api' = api /\ ~ Mutation /\ ~ Continue
    <3>1. ~ Mutation
      BY <1>2, MutationOps
    <3>2. ~ Continue
      BY ContinueOps
    <3> QED BY <3>1, <3>2, OtherOps
  <2>2. PICK w \in Users : w = api.user /\ status[w] = "none" /\ Queued(w)
    BY <2>1 DEF Types, ApiType, Alone, JoinAtWork
  <2>3. status'[w] = "none"
    <3>1. ~ (InsertRow \/ RowLeft \/ RowAccepted \/ RowDeclined)
      BY <2>1 DEF Continue
    <3>2. api.op \notin Alone
      BY <2>1 DEF Alone
    <3>3. ~ SendWaitlistOffer(w)
      BY <2>1, <2>2 DEF SendWaitlistOffer
    <3>4. RowExpired => expirer.user # w
      BY <2>2 DEF RowExpired, RowsKnown
    <3>5. CascadeOffer => expirer.user # w
      BY <2>2 DEF CascadeOffer, RowsKnown
    <3>6. OfferSpot => offerer.user # w
      BY <2>2 DEF OfferSpot, RowsKnown
    <3> QED BY <2>2, <3>1, <3>2, <3>3, <3>4, <3>5, <3>6, StatusSteps
  <2>4. Queued(w)'
    <3>1. CASE UNCHANGED queue
      BY <2>1, <2>2, <3>1 DEF Queued
    <3>2. CASE Cascade
      <4>1. expirer.user \in Users /\ expirer.user # w
        BY <2>2, <3>2 DEF Cascade, RowsKnown, Types, JobsType
      <4> QED BY <2>1, <2>2, <3>2, <4>1, DequeueKeeps DEF Cascade, Types
    <3>3. ~ \E t \in Tiers : QueueExpires(t)
      BY DEF QueueExpires
    <3>4. ~ SeatCounted /\ ~ \E u \in Users : LeaveWaitlist(u) \/ RemoveFromWaitlist(u)
      BY <2>1 DEF Mutation, Continue
    <3> QED BY <1>2, <3>1, <3>2, <3>3, <3>4, QueueSteps
  <2> QED BY <2>1, <2>2, <2>3, <2>4 DEF Queued
<1> QED BY <1>1, <1>2

LEMMA LeavesStep ==
    ASSUME Types, HandlersInv, [Next]_vars
    PROVE  LeavesTheQueue'
<1> USE DEF HandlersInv
<1>1. \A u \in Users : status[u] \notin {"none", "WAITING"} => status'[u] # "WAITING"
  <2> TAKE u \in Users
  <2>1. InsertRow /\ u = api.user => status[u] = "none"
    BY DEF InsertRow, JoinAtWork
  <2> QED BY <2>1, RowsGoOn
<1>2. expirer'.at = "cascade" => status'[expirer'.user] # "WAITING"
  <2> USE DEF Types, JobsType
  <2>1. CASE expirer' = expirer
    BY <1>1, <2>1 DEF LeavesTheQueue, RowsKnown
  <2>2. CASE RowExpired
    BY <2>2, WriteType DEF RowExpired, Statuses
  <2>3. CASE Crash
    BY <2>3 DEF Crash, IdleExpirer
  <2>4. CASE ListExpired
    BY <2>4 DEF ListExpired
  <2>5. CASE Cascade
    BY <2>5 DEF Cascade
  <2>6. CASE CascadeOffer
    BY <2>6 DEF CascadeOffer
  <2>7. CASE NextExpired
    <3>1. expirer'.at \in {"idle", "write"}
      BY <2>7 DEF NextExpired, IdleExpirer
    <3> QED BY <3>1
  <2> QED BY <2>1, <2>2, <2>3, <2>4, <2>5, <2>6, <2>7, ExpirerSteps DEF ExpirerStep
<1>3. api'.op \in {"seat", "register"} => status'[api'.user] # "WAITING"
  <2>1. CASE RowAccepted
    <3>1. api.user \in Users /\ api'.user = api.user
      BY <2>1 DEF RowAccepted, Call, Types, ApiType, Alone
    <3> QED BY <2>1, <3>1, WriteType DEF RowAccepted, Types, Statuses
  <2>2. CASE SeatCounted
    BY <2>2 DEF SeatCounted, Call, LeavesTheQueue, rowVars
  <2>3. CASE api' = api /\ api.op \in {"seat", "register"}
    <3>1. api.user \in Users /\ status[api.user] # "WAITING"
      BY <2>3 DEF Types, ApiType, Alone, LeavesTheQueue
    <3>2. ~ InsertRow
      BY <2>3 DEF InsertRow
    <3> QED BY <2>3, <3>1, <3>2, RowsGoOn
  <2>4. \/ RowAccepted \/ SeatCounted \/ api' = api
        \/ api'.op \notin {"seat", "register"}
    <3>1. ASSUME NEW u \in Users, JoinWaitlist(u)
          PROVE  api' = api \/ api'.op = "join"
      BY <3>1, CallOp DEF JoinWaitlist
    <3> QED BY <3>1, MutationOps, ContinueOps, OtherOps
  <2> QED BY <2>1, <2>2, <2>3, <2>4
<1> QED BY <1>2, <1>3 DEF LeavesTheQueue

LEMMA WaitingStep ==
    ASSUME Types, QueueInv, [Next]_vars, "ttl" \notin Faults, "crash" \notin Faults
    PROVE  WaitingIsQueued'
<1> USE DEF QueueInv, HandlersInv
<1> SUFFICES ASSUME NEW u \in Users, status'[u] = "WAITING", api'.user # u
             PROVE  Queued(u)'
  BY DEF WaitingIsQueued, Waiting
<1>1. CASE InsertRow /\ u = api.user
  BY <1>1 DEF InsertRow, JoinAtWork, Queued
<1>2. CASE ~ (InsertRow /\ u = api.user)
  <2>1. status[u] = "WAITING"
    BY <1>2, RowsGoOn
  <2>2. Queued(u)
    <3>1. CASE api.user = u
      <4>1. InsertRow \/ RowLeft \/ RowDeclined \/ Registered
        BY <3>1, ApiSteps, NobodyAssumption DEF Crash
      <4>2. ~ RowLeft /\ ~ RowDeclined
        BY <3>1, WriteType DEF RowLeft, RowDeclined, Types, Statuses
      <4>3. ~ Registered
        BY <2>1, <3>1 DEF Registered, LeavesTheQueue
      <4> QED BY <1>2, <3>1, <4>1, <4>2, <4>3
    <3> QED BY <2>1, <3>1 DEF WaitingIsQueued, Waiting
  <2>3. CASE UNCHANGED queue
    BY <2>2, <2>3 DEF Queued
  <2>4. ASSUME NEW v \in Users,
               JoinWaitlist(v) \/ LeaveWaitlist(v) \/ RemoveFromWaitlist(v)
        PROVE  Queued(u)'
    <3>1. CASE JoinWaitlist(v)
      BY <2>2, <3>1, EnqueueKeeps DEF JoinWaitlist, Types
    <3>2. CASE LeaveWaitlist(v) \/ RemoveFromWaitlist(v)
      <4>1. v # u /\ Dequeue(v)
        BY <3>2, CallOp DEF LeaveWaitlist, RemoveFromWaitlist
      <4> QED BY <2>2, <4>1, DequeueKeeps DEF Types
    <3> QED BY <2>4, <3>1, <3>2
  <2>5. CASE SeatCounted
    <3>1. api.user # u /\ api.user \in Users /\ Dequeue(api.user)
      BY <2>1, <2>5 DEF SeatCounted, LeavesTheQueue, Types, ApiType, Alone
    <3> QED BY <2>2, <3>1, DequeueKeeps DEF Types
  <2>6. CASE Cascade
    <3>1. expirer.user # u /\ expirer.user \in Users /\ Dequeue(expirer.user)
      BY <2>1, <2>6 DEF Cascade, LeavesTheQueue, Types, JobsType
    <3> QED BY <2>2, <3>1, DequeueKeeps DEF Types
  <2>7. ~ \E t \in Tiers : QueueExpires(t)
    BY DEF QueueExpires
  <2> QED BY <2>3, <2>4, <2>5, <2>6, <2>7, QueueSteps
<1> QED BY <1>1, <1>2

LEMMA RedisStays ==
    ASSUME "redis" \notin Faults, redisUp, [Next]_vars
    PROVE  redisUp'
<1>1. CASE Mutation \/ Continue
  BY <1>1 DEF Mutation, JoinWaitlist, LeaveWaitlist, RemoveFromWaitlist,
              AcceptWaitlistOffer, DeclineWaitlistOffer, SendWaitlistOffer,
              RsvpToSessionCall, CancelSessionRsvp, BulkSendWaitlistOffers,
              UpdateSessionCapacity, Continue, InsertRow, RowLeft, RowAccepted,
              SeatCounted, Registered, RowDeclined, OfferNext
<1>2. CASE ExpirerStep \/ OffererStep \/ Environment \/ UNCHANGED vars
  BY <1>2 DEF ExpirerStep, OffererStep, Environment, ListExpired, RowExpired, Cascade,
              CascadeOffer, NextExpired, PickNext, OfferSpot, OfferLapses, Crash,
              RedisFlips, QueueExpires, vars
<1> QED BY <1>1, <1>2 DEF Next

\* As long as Redis answers and keeps its keys and the service is not stopped,
\* who waits stands in the queue of its tier, whatever the two jobs and the
\* mutations do to each other (join_waitlist, get_next_in_queue).
THEOREM WaitersStayQueued ==
    ASSUME Faults \cap {"redis", "ttl", "crash"} = {}
    PROVE  Spec => []WaitingIsQueued
<1>1. Init => QueueInv
  BY DEF Init, QueueInv, HandlersInv, RowsKnown, JoinAtWork, LeavesTheQueue, WaitingIsQueued, Waiting,
         NoCall, IdleExpirer, IdleOfferer
<1>2. Types /\ QueueInv /\ [Next]_vars => QueueInv'
  BY RowsKnownStep, JoinStep, LeavesStep, WaitingStep, RedisStays DEF QueueInv, HandlersInv
<1>3. QueueInv => WaitingIsQueued
  BY DEF QueueInv
<1> QED BY <1>1, <1>2, <1>3, TypesInvariant, PTL DEF Spec

-----------------------------------------------------------------------------
(* The queue is served in its order *)

\* Nobody in a queue comes before u.
FirstInLine(u) ==
    \A t \in Tiers : queue[t] # <<>> =>
        Tier[u] < t \/ (Tier[u] = t /\ Head(queue[t]) = u)

\* One mutation or one job is at work, on a user who is first in line.
Quiet ==
    /\ redisUp
    /\ JobsIdle \/ (api = NoCall /\ (expirer = IdleExpirer \/ offerer = IdleOfferer))
    /\ expirer.at = "offer" => FirstInLine(expirer.user)
    /\ offerer.at = "offer" => FirstInLine(offerer.user)

LEMMA HeadIsFirst ==
    ASSUME QueueType, NEW u \in QueueHead(queue)
    PROVE  u \in Users /\ FirstInLine(u)
<1>1. /\ u \in Users /\ queue[Tier[u]] # <<>> /\ Head(queue[Tier[u]]) = u
      /\ \A t \in Tiers : queue[t] # <<>> => Tier[u] <= t
  BY HeadIsUser
<1>2. Tier[u] \in Tiers
  BY <1>1, TierAssumption
<1>3. ASSUME NEW t \in Tiers, queue[t] # <<>>
      PROVE  Tier[u] < t \/ (Tier[u] = t /\ Head(queue[t]) = u)
  <2>1. Tier[u] <= t
    BY <1>1, <1>3
  <2>2. Tier[u] < t \/ Tier[u] = t
    BY <1>2, <2>1 DEF Tiers, VIP, PREMIUM, STANDARD
  <2> QED BY <1>1, <2>2
<1> QED BY <1>1, <1>3 DEF FirstInLine

LEMMA HeadIsFirstNext ==
    ASSUME QueueType', NEW u \in QueueHead(queue')
    PROVE  u \in Users /\ FirstInLine(u)'
<1>1. PICK s \in Tiers : /\ queue'[s] # <<>> /\ u = Head(queue'[s])
                         /\ \A t \in Tiers : queue'[t] # <<>> => s <= t
  BY DEF QueueHead
<1>2. queue'[s] \in Seq(Users) /\ \A i \in 1 .. Len(queue'[s]) : Tier[queue'[s][i]] = s
  BY DEF QueueType
<1>3. u = queue'[s][1] /\ 1 \in 1 .. Len(queue'[s])
  BY <1>1, <1>2
<1>4. u \in Users /\ Tier[u] = s
  BY <1>2, <1>3
<1>5. ASSUME NEW t \in Tiers, queue'[t] # <<>>
      PROVE  Tier[u] < t \/ (Tier[u] = t /\ Head(queue'[t]) = u)
  <2>1. s <= t
    BY <1>1, <1>5
  <2>2. s < t \/ s = t
    BY <2>1 DEF Tiers, VIP, PREMIUM, STANDARD
  <2> QED BY <1>1, <1>4, <2>2
<1> QED BY <1>4, <1>5 DEF FirstInLine

\* The first in line overtakes nobody.
LEMMA FirstOvertakesNobody ==
    ASSUME QueueType, NEW u \in Users, NEW v \in Users, FirstInLine(u), Queued(v), u # v
    PROVE  \/ Tier[u] < Tier[v]
           \/ /\ Tier[u] = Tier[v]
              /\ \E i, j \in DOMAIN queue[Tier[u]] :
                   queue[Tier[u]][i] = u /\ queue[Tier[u]][j] = v /\ i < j
<1> DEFINE t == Tier[v]
<1>1. t \in Tiers /\ queue[t] \in Seq(Users)
  BY QueuedIs
<1>2. PICK j \in 1 .. Len(queue[t]) : queue[t][j] = v
  BY QueuedIs
<1>3. queue[t] # <<>>
  BY <1>1, <1>2
<1>4. Tier[u] < t \/ (Tier[u] = t /\ Head(queue[t]) = u)
  BY <1>1, <1>3 DEF FirstInLine
<1>5. CASE Tier[u] = t /\ Head(queue[t]) = u
  <2>1. queue[t][1] = u /\ 1 \in DOMAIN queue[t] /\ j \in DOMAIN queue[t]
    BY <1>1, <1>2, <1>3, <1>5
  <2>2. j # 1
    BY <1>2, <2>1
  <2>3. 1 < j
    BY <1>2, <2>2
  <2> QED BY <1>2, <1>5, <2>1, <2>3
<1> QED BY <1>4, <1>5

\* A job at work has the queue to itself, but for an expired key.
LEMMA FirstStays ==
    ASSUME Types, NEW u, FirstInLine(u),
           UNCHANGED queue \/ \E t \in Tiers : QueueExpires(t)
    PROVE  FirstInLine(u)'
<1>1. CASE UNCHANGED queue
  BY <1>1 DEF FirstInLine
<1>2. ASSUME NEW t \in Tiers, QueueExpires(t) PROVE FirstInLine(u)'
  BY <1>2 DEF FirstInLine, QueueExpires, Types, QueueType
<1> QED BY <1>1, <1>2

\* While nothing overlaps, a job and a mutation are not at work together.
LEMMA OneAtWork ==
    ASSUME "overlap" \notin Faults, Types, Quiet, [Next]_vars
    PROVE  /\ api # NoCall => expirer' = IdleExpirer /\ offerer' = IdleOfferer
           /\ expirer # IdleExpirer => api' = NoCall /\ offerer' = IdleOfferer
           /\ offerer # IdleOfferer => api' = NoCall /\ expirer' = IdleExpirer
           /\ expirer # IdleExpirer \/ offerer # IdleOfferer =>
                 \/ UNCHANGED queue
                 \/ Cascade
                 \/ \E t \in Tiers : QueueExpires(t)
           /\ JobsIdle' \/ (api' = NoCall /\ (expirer' = IdleExpirer \/ offerer' = IdleOfferer))
<1> USE DEF Quiet
<1>1. CASE Mutation
  <2>1. api = NoCall /\ JobsIdle /\ UNCHANGED jobVars
    BY <1>1 DEF Mutation, JoinWaitlist, LeaveWaitlist, RemoveFromWaitlist,
                AcceptWaitlistOffer, DeclineWaitlistOffer, SendWaitlistOffer,
                RsvpToSessionCall, CancelSessionRsvp, BulkSendWaitlistOffers,
                UpdateSessionCapacity, MayCall, Overlap
  <2> QED BY <2>1 DEF JobsIdle, jobVars
<1>2. CASE Continue
  <2>1. api.op # "idle" /\ UNCHANGED jobVars
    BY <1>2 DEF Continue, InsertRow, RowLeft, RowAccepted, SeatCounted, Registered,
                RowDeclined, OfferNext
  <2>2. NoCall.op = "idle"
    BY DEF NoCall
  <2>3. api # NoCall
    BY <2>1, <2>2
  <2> QED BY <2>1, <2>3 DEF JobsIdle, jobVars
<1>3. CASE ExpirerStep
  <2>1. /\ api' = api /\ offerer' = offerer
        /\ expirer.at # "idle" \/ MayRun
    BY <1>3 DEF ExpirerStep, ListExpired, RowExpired, Cascade, CascadeOffer, NextExpired
  <2>2. IdleExpirer.at = "idle"
    BY DEF IdleExpirer
  <2>3. expirer # IdleExpirer \/ (api = NoCall /\ JobsIdle)
    BY <2>1, <2>2 DEF MayRun, Overlap
  <2>4. UNCHANGED queue \/ Cascade
    BY <1>3 DEF ExpirerStep, ListExpired, RowExpired, CascadeOffer, NextExpired
  <2> QED BY <2>1, <2>3, <2>4 DEF JobsIdle
<1>4. CASE OffererStep
  <2>1. /\ api' = api /\ expirer' = expirer /\ UNCHANGED queue
        /\ offerer.at # "idle" \/ MayRun
    BY <1>4 DEF OffererStep, PickNext, OfferSpot
  <2>2. IdleOfferer.at = "idle"
    BY DEF IdleOfferer
  <2>3. offerer # IdleOfferer \/ (api = NoCall /\ JobsIdle)
    BY <2>1, <2>2 DEF MayRun, Overlap
  <2> QED BY <2>1, <2>3 DEF JobsIdle
<1>5. CASE Crash
  BY <1>5 DEF Crash, JobsIdle
<1>6. CASE (Environment /\ ~ Crash) \/ UNCHANGED vars
  <2>1. api' = api /\ UNCHANGED jobVars
        /\ (UNCHANGED queue \/ \E t \in Tiers : QueueExpires(t))
    BY <1>6 DEF Environment, OfferLapses, RedisFlips, QueueExpires, vars
  <2> QED BY <2>1 DEF JobsIdle, jobVars
<1> QED BY <1>1, <1>2, <1>3, <1>4, <1>5, <1>6 DEF Next

LEMMA QuietStep ==
    ASSUME "overlap" \notin Faults, "redis" \notin Faults, Types, Quiet, [Next]_vars
    PROVE  Quiet'
<1> USE DEF Quiet
<1>1. redisUp'
  BY RedisStays
<1>2. expirer'.at = "offer" => FirstInLine(expirer.user)'
  <2>1. CASE expirer' = expirer /\ ~ ExpirerStep
    <3>1. CASE expirer.at = "offer"
      <4>1. PICK u : u = expirer.user
        OBVIOUS
      <4>2. expirer # IdleExpirer /\ ~ Cascade
        BY <2>1, <3>1 DEF IdleExpirer, ExpirerStep
      <4>3. FirstInLine(u)'
        BY <3>1, <4>1, <4>2, OneAtWork, FirstStays
      <4> QED BY <2>1, <4>1, <4>3 DEF FirstInLine
    <3> QED BY <2>1, <3>1
  <2>2. CASE Cascade
    <3>1. expirer.user \in Users
      BY <2>2 DEF Cascade, Types, JobsType
    <3>2. QueueType'
      BY <2>2, <3>1, DequeueKeeps DEF Cascade, Types
    <3>3. NextInQueue(queue') = QueueHead(queue')
      BY DEF NextInQueue
    <3>4. \/ expirer' = [expirer EXCEPT !.at = "next"]
          \/ \E u \in QueueHead(queue') :
                expirer' = [expirer EXCEPT !.at = "offer", !.user = u]
      BY <2>2, <3>3 DEF Cascade
    <3>5. CASE expirer' = [expirer EXCEPT !.at = "next"]
      BY <3>5 DEF Types, JobsType
    <3>6. ASSUME NEW u \in QueueHead(queue'),
                 expirer' = [expirer EXCEPT !.at = "offer", !.user = u]
          PROVE  FirstInLine(expirer.user)'
      <4>1. expirer'.user = u
        BY <3>6 DEF Types, JobsType
      <4>2. FirstInLine(u)'
        BY <3>2, HeadIsFirstNext
      <4> QED BY <4>1, <4>2 DEF FirstInLine
    <3> QED BY <3>4, <3>5, <3>6
  <2>3. CASE Crash
    BY <2>3 DEF Crash, IdleExpirer
  <2>4. CASE ListExpired
    BY <2>4 DEF ListExpired
  <2>5. CASE RowExpired \/ CascadeOffer
    BY <2>5 DEF RowExpired, CascadeOffer, Types, JobsType
  <2>6. CASE NextExpired
    <3>1. expirer'.at \in {"idle", "write"}
      BY <2>6 DEF NextExpired, IdleExpirer
    <3> QED BY <3>1
  <2> QED BY <2>1, <2>2, <2>3, <2>4, <2>5, <2>6, ExpirerSteps DEF ExpirerStep
<1>3. offerer'.at = "offer" => FirstInLine(offerer.user)'
  <2>1. CASE offerer' = offerer
    <3>1. CASE offerer.at = "offer"
      <4>1. PICK u : u = offerer.user
        OBVIOUS
      <4>2. offerer # IdleOfferer
        BY <3>1 DEF IdleOfferer
      <4>3. ~ Cascade
        <5>1. expirer.at = "idle"
          BY <4>2 DEF IdleExpirer, JobsIdle
        <5> QED BY <5>1 DEF Cascade
      <4>4. FirstInLine(u)'
        BY <3>1, <4>1, <4>2, <4>3, OneAtWork, FirstStays
      <4> QED BY <2>1, <4>1, <4>4 DEF FirstInLine
    <3> QED BY <2>1, <3>1
  <2>2. CASE PickNext
    <3>1. PICK u \in QueueHead(queue) : offerer' = [at |-> "offer", user |-> u]
      BY <2>2 DEF PickNext
    <3>2. FirstInLine(u) /\ UNCHANGED queue
      BY <2>2, HeadIsFirst DEF Types, PickNext
    <3> QED BY <3>1, <3>2 DEF FirstInLine
  <2>3. CASE offerer' = IdleOfferer
    BY <2>3 DEF IdleOfferer
  <2> QED BY <2>1, <2>2, <2>3, OffererSteps
<1>4. (JobsIdle \/ (api = NoCall /\ (expirer = IdleExpirer \/ offerer = IdleOfferer)))'
  BY OneAtWork DEF JobsIdle
<1> QED BY <1>1, <1>2, <1>3, <1>4

\* Who is offered a place is first in line.
LEMMA OfferedIsFirst ==
    ASSUME Types, Quiet, [Next]_vars, NEW u \in Users,
           status[u] = "WAITING", status'[u] = "OFFERED", ~ SendWaitlistOffer(u)
    PROVE  FirstInLine(u)
<1>1. \/ CascadeOffer /\ u = expirer.user
      \/ OfferSpot /\ u = offerer.user
      \/ OfferedInRounds(u)
  BY StatusSteps
<1>2. CASE CascadeOffer /\ u = expirer.user
  BY <1>2 DEF CascadeOffer, Quiet
<1>3. CASE OfferSpot /\ u = offerer.user
  BY <1>3 DEF OfferSpot, Quiet
<1>4. CASE OfferedInRounds(u)
  <2>1. u \in QueueHead(queue)
    BY <1>4 DEF OfferedInRounds, Offerable, Quiet
  <2> QED BY <2>1, HeadIsFirst DEF Types
<1> QED BY <1>1, <1>2, <1>3, <1>4

\* While Redis answers and the jobs do not overlap with the mutations, an
\* automatic offer never passes over a user of a better tier or one who stood
\* in the queue before, for any number of users and tiers, capacities and
\* restarts, and even when a tier's key expires (get_next_in_queue).
THEOREM QueueIsServedInOrder ==
    ASSUME Faults \cap {"overlap", "redis"} = {}
    PROVE  Spec => NobodyIsOvertaken
<1>1. Init => Quiet
  BY DEF Init, Quiet, JobsIdle, IdleExpirer, IdleOfferer
<1>2. Types /\ Quiet /\ [Next]_vars => Quiet'
  BY QuietStep
<1> DEFINE Fair(u, v) ==
             /\ Queued(v)
             /\ status[u] = "WAITING" /\ status'[u] = "OFFERED"
             /\ status[v] = "WAITING" /\ status'[v] = "WAITING"
             /\ ~ SendWaitlistOffer(u)
             => \/ Tier[u] < Tier[v]
                \/ /\ Tier[u] = Tier[v]
                   /\ \E i, j \in DOMAIN queue[Tier[u]] :
                        queue[Tier[u]][i] = u /\ queue[Tier[u]][j] = v /\ i < j
           Step == \A u, v \in Users : Fair(u, v)
<1>3. ASSUME Types, Quiet, [Next]_vars PROVE Step
  <2> SUFFICES ASSUME NEW u \in Users, NEW v \in Users PROVE Fair(u, v)
    OBVIOUS
  <2>1. CASE /\ Queued(v)
             /\ status[u] = "WAITING" /\ status'[u] = "OFFERED"
             /\ status'[v] = "WAITING"
             /\ ~ SendWaitlistOffer(u)
    <3>1. FirstInLine(u)
      BY <1>3, <2>1, OfferedIsFirst
    <3>2. u # v
      BY <2>1
    <3> QED BY <1>3, <2>1, <3>1, <3>2, FirstOvertakesNobody DEF Types
  <2> QED BY <2>1
<1>4. Types /\ Quiet /\ [Next]_vars => [Step]_vars
  BY <1>3
<1>5. Spec => [][Step]_vars
  BY <1>1, <1>2, <1>4, TypesInvariant, PTL DEF Spec
<1> QED BY <1>5 DEF NobodyIsOvertaken
-----------------------------------------------------------------------------
(* A tier is served in its order, whatever overlaps *)

\* A user whose own leave or removal is at work has left the queue but waits.
Leaving(u) == api.op \in {"leave", "remove"} /\ api.user = u

HeadOf(u) == queue[Tier[u]] # <<>> /\ Head(queue[Tier[u]]) = u

\* A job has picked the head of a tier.  By the time of the offer the head
\* may have been answered for elsewhere, or may be leaving; a head that
\* still waits is still the head.
StillHead(u) == status[u] = "WAITING" => Leaving(u) \/ HeadOf(u)

LineInv ==
    /\ HandlersInv
    /\ expirer.at = "offer" => StillHead(expirer.user)
    /\ offerer.at = "offer" => StillHead(offerer.user)

\* Removing somebody else leaves the head of a tier where it is.
LEMMA DequeueKeepsHead ==
    ASSUME QueueType, NEW u \in Users, NEW v \in Users, v # u, Dequeue(v), HeadOf(u)
    PROVE  HeadOf(u)'
<1>1. CASE queue' = queue
  BY <1>1 DEF HeadOf
<1>2. CASE queue' = [queue EXCEPT ![Tier[v]] = RemoveFirst(queue[Tier[v]], v)]
  <2> DEFINE s == queue[Tier[v]]
             r == RemoveFirst(s, v)
  <2>1. /\ Tier[u] \in Tiers /\ Tier[v] \in Tiers /\ s \in Seq(Users)
        /\ queue \in [Tiers -> Seq(Users)]
    BY QueuedIs DEF QueueType
  <2>2. CASE Tier[v] # Tier[u]
    <3>1. queue'[Tier[u]] = queue[Tier[u]]
      BY <1>2, <2>1, <2>2
    <3> QED BY <3>1 DEF HeadOf
  <2>3. CASE Tier[v] = Tier[u]
    <3>1. s # <<>> /\ Head(s) = u
      BY <2>3 DEF HeadOf
    <3>2. s[1] = u
      BY <2>1, <3>1
    <3>3. r \in Seq(Users) /\ r # <<>> /\ r[1] = u
      BY <2>1, <3>1, <3>2, RemoveKeeps DEF StartKept
    <3>4. queue'[Tier[u]] = r
      BY <1>2, <2>1, <2>3
    <3> HIDE DEF r
    <3>5. Head(r) = u
      BY <3>3
    <3> QED BY <3>3, <3>4, <3>5 DEF HeadOf
  <2> QED BY <2>2, <2>3
<1> QED BY <1>1, <1>2 DEF Dequeue

\* Who joins stands behind the head.
LEMMA EnqueueKeepsHead ==
    ASSUME QueueType, NEW u \in Users, NEW v \in Users, Enqueue(v), HeadOf(u)
    PROVE  HeadOf(u)'
<1>1. CASE queue' = queue
  BY <1>1 DEF HeadOf
<1>2. CASE queue' = [queue EXCEPT ![Tier[v]] = Append(queue[Tier[v]], v)]
  <2> DEFINE s == queue[Tier[v]]
             r == Append(s, v)
  <2>1. /\ Tier[u] \in Tiers /\ Tier[v] \in Tiers /\ s \in Seq(Users)
        /\ queue \in [Tiers -> Seq(Users)]
    BY QueuedIs DEF QueueType
  <2>2. CASE Tier[v] # Tier[u]
    <3>1. queue'[Tier[u]] = queue[Tier[u]]
      BY <1>2, <2>1, <2>2
    <3> QED BY <3>1 DEF HeadOf
  <2>3. CASE Tier[v] = Tier[u]
    <3>1. s # <<>> /\ Head(s) = u
      BY <2>3 DEF HeadOf
    <3>2. r \in Seq(Users) /\ r # <<>> /\ Head(r) = u
      BY <2>1, <3>1
    <3>3. queue'[Tier[u]] = r
      BY <1>2, <2>1, <2>3
    <3> QED BY <3>2, <3>3 DEF HeadOf
  <2> QED BY <2>2, <2>3
<1> QED BY <1>1, <1>2 DEF Enqueue

\* A head that waits stays the head until its own leave or removal.
LEMMA HeadStays ==
    ASSUME Types, HandlersInv, [Next]_vars, "ttl" \notin Faults,
           NEW u \in Users, status[u] = "WAITING", HeadOf(u)
    PROVE  Leaving(u)' \/ HeadOf(u)'
<1> USE DEF Types
<1>1. CASE UNCHANGED queue
  BY <1>1 DEF HeadOf
<1>2. ASSUME NEW v \in Users, JoinWaitlist(v) PROVE HeadOf(u)'
  BY <1>2, EnqueueKeepsHead DEF JoinWaitlist
<1>3. ASSUME NEW v \in Users, LeaveWaitlist(v) \/ RemoveFromWaitlist(v)
      PROVE  Leaving(u)' \/ HeadOf(u)'
  <2>1. /\ Dequeue(v)
        /\ api'.op \in {"leave", "remove"} /\ api'.user = v
    BY <1>3, CallOp DEF LeaveWaitlist, RemoveFromWaitlist
  <2>2. CASE v = u
    BY <2>1, <2>2 DEF Leaving
  <2>3. CASE v # u
    BY <2>1, <2>3, DequeueKeepsHead
  <2> QED BY <2>2, <2>3
<1>4. CASE SeatCounted
  <2>1. api.user # u /\ api.user \in Users /\ Dequeue(api.user)
    BY <1>4 DEF SeatCounted, HandlersInv, LeavesTheQueue, ApiType, Alone
  <2> QED BY <2>1, DequeueKeepsHead
<1>5. CASE Cascade
  <2>1. expirer.user # u /\ expirer.user \in Users /\ Dequeue(expirer.user)
    BY <1>5 DEF Cascade, HandlersInv, LeavesTheQueue, JobsType
  <2> QED BY <2>1, DequeueKeepsHead
<1>6. ~ \E t \in Tiers : QueueExpires(t)
  BY DEF QueueExpires
<1> QED BY <1>1, <1>2, <1>3, <1>4, <1>5, <1>6, QueueSteps

\* A leave or removal at work ends by writing the row, unless the service stops.
LEMMA LeavingStays ==
    ASSUME Types, [Next]_vars, ~ Crash,
           NEW u \in Users, Leaving(u), status'[u] = "WAITING"
    PROVE  Leaving(u)'
<1>1. api.op \in {"leave", "remove"} /\ api.user = u
  BY DEF Leaving
<1>2. ~ Mutation
  BY <1>1, MutationOps
<1>3. ~ Continue
  <2>1. ~ RowLeft
    BY <1>1, WriteType DEF RowLeft, Types, Statuses
  <2> QED BY <1>1, <2>1 DEF Continue, InsertRow, RowAccepted, SeatCounted, Registered,
                            RowDeclined, OfferNext
<1>4. api' = api
  BY <1>2, <1>3 DEF Next, ExpirerStep, OffererStep, ListExpired, RowExpired, Cascade,
                    CascadeOffer, NextExpired, PickNext, OfferSpot, Environment,
                    OfferLapses, RedisFlips, QueueExpires, vars
<1> QED BY <1>1, <1>4 DEF Leaving

LEMMA StillHeadStays ==
    ASSUME Types, HandlersInv, [Next]_vars, "ttl" \notin Faults, ~ Crash,
           NEW u \in Users, status[u] # "none", StillHead(u)
    PROVE  StillHead(u)'
<1> SUFFICES ASSUME status'[u] = "WAITING" PROVE Leaving(u)' \/ HeadOf(u)'
  BY DEF StillHead
<1>1. ~ (InsertRow /\ u = api.user)
  BY DEF InsertRow, HandlersInv, JoinAtWork
<1>2. status[u] = "WAITING"
  BY <1>1, RowsGoOn
<1>3. CASE Leaving(u)
  BY <1>3, LeavingStays
<1>4. CASE HeadOf(u)
  BY <1>2, <1>4, HeadStays
<1> QED BY <1>2, <1>3, <1>4 DEF StillHead

LEMMA HeadOfNext ==
    ASSUME QueueType', NEW u \in QueueHead(queue')
    PROVE  u \in Users /\ HeadOf(u)'
<1>1. PICK s \in Tiers : queue'[s] # <<>> /\ u = Head(queue'[s])
  BY DEF QueueHead
<1>2. queue'[s] \in Seq(Users) /\ \A i \in 1 .. Len(queue'[s]) : Tier[queue'[s][i]] = s
  BY DEF QueueType
<1>3. u = queue'[s][1] /\ 1 \in 1 .. Len(queue'[s])
  BY <1>1, <1>2
<1>4. u \in Users /\ Tier[u] = s
  BY <1>2, <1>3
<1> QED BY <1>1, <1>4 DEF HeadOf

LEMMA ExpirerPicksHead ==
    ASSUME Types, LineInv, [Next]_vars, "ttl" \notin Faults, expirer'.at = "offer"
    PROVE  StillHead(expirer.user)'
<1> USE DEF LineInv
<1>1. CASE expirer' = expirer
  <2>1. PICK u \in Users : u = expirer.user
    BY <1>1 DEF Types, JobsType
  <2>2. ~ Crash
    BY DEF Crash, IdleExpirer
  <2>3. status[u] # "none" /\ StillHead(u)
    BY <1>1, <2>1 DEF HandlersInv, RowsKnown
  <2>4. StillHead(u)'
    BY <2>2, <2>3, StillHeadStays
  <2> QED BY <1>1, <2>1, <2>4 DEF StillHead, Leaving, HeadOf
<1>2. CASE Cascade
  <2>1. expirer.user \in Users
    BY <1>2 DEF Cascade, Types, JobsType
  <2>2. QueueType' /\ redisUp
    BY <1>2, <2>1, DequeueKeeps DEF Cascade, Types, HandlersInv
  <2>3. NextInQueue(queue') = QueueHead(queue')
    BY <2>2 DEF NextInQueue
  <2>4. \/ expirer' = [expirer EXCEPT !.at = "next"]
        \/ \E u \in QueueHead(queue') :
              expirer' = [expirer EXCEPT !.at = "offer", !.user = u]
    BY <1>2, <2>3 DEF Cascade
  <2>5. PICK u \in QueueHead(queue') :
              expirer' = [expirer EXCEPT !.at = "offer", !.user = u]
    BY <2>4 DEF Types, JobsType
  <2>6. expirer'.user = u /\ HeadOf(u)'
    BY <2>2, <2>5, HeadOfNext DEF Types, JobsType
  <2> QED BY <2>6 DEF StillHead, HeadOf
<1>3. CASE NextExpired
  <2>1. expirer'.at \in {"idle", "write"}
    BY <1>3 DEF NextExpired, IdleExpirer
  <2> QED BY <2>1
<1>4. CASE ListExpired \/ RowExpired \/ CascadeOffer \/ Crash
  BY <1>4 DEF ListExpired, RowExpired, CascadeOffer, Crash, IdleExpirer, Types, JobsType
<1> QED BY <1>1, <1>2, <1>3, <1>4, ExpirerSteps DEF ExpirerStep

LEMMA OffererPicksHead ==
    ASSUME Types, LineInv, [Next]_vars, "ttl" \notin Faults, offerer'.at = "offer"
    PROVE  StillHead(offerer.user)'
<1> USE DEF LineInv
<1>1. CASE offerer' = offerer
  <2>1. PICK u \in Users : u = offerer.user
    BY <1>1 DEF Types, JobsType
  <2>2. ~ Crash
    BY DEF Crash, IdleOfferer
  <2>3. status[u] # "none" /\ StillHead(u)
    BY <1>1, <2>1 DEF HandlersInv, RowsKnown
  <2>4. StillHead(u)'
    BY <2>2, <2>3, StillHeadStays
  <2> QED BY <1>1, <2>1, <2>4 DEF StillHead, Leaving, HeadOf
<1>2. CASE PickNext
  <2>1. PICK u \in QueueHead(queue) : offerer' = [at |-> "offer", user |-> u]
    BY <1>2 DEF PickNext
  <2>2. HeadOf(u) /\ UNCHANGED queue
    BY <1>2, HeadIsUser DEF Types, PickNext, HeadOf
  <2> QED BY <2>1, <2>2 DEF StillHead, HeadOf
<1>3. CASE offerer' = IdleOfferer
  BY <1>3 DEF IdleOfferer
<1> QED BY <1>1, <1>2, <1>3, OffererSteps

LEMMA LineStep ==
    ASSUME Types, LineInv, [Next]_vars, "redis" \notin Faults, "ttl" \notin Faults
    PROVE  LineInv'
<1>1. HandlersInv'
  BY RowsKnownStep, JoinStep, LeavesStep, RedisStays DEF LineInv, HandlersInv
<1> QED BY <1>1, ExpirerPicksHead, OffererPicksHead DEF LineInv

\* Who is offered a place is the head of the tier, or leaving.
LEMMA OfferedIsHead ==
    ASSUME Types, LineInv, [Next]_vars, NEW u \in Users,
           status[u] = "WAITING", status'[u] = "OFFERED", ~ SendWaitlistOffer(u)
    PROVE  Leaving(u) \/ HeadOf(u)
<1>1. \/ CascadeOffer /\ u = expirer.user
      \/ OfferSpot /\ u = offerer.user
      \/ OfferedInRounds(u)
  BY StatusSteps
<1>2. CASE CascadeOffer /\ u = expirer.user
  BY <1>2 DEF CascadeOffer, LineInv, StillHead
<1>3. CASE OfferSpot /\ u = offerer.user
  BY <1>3 DEF OfferSpot, LineInv, StillHead
<1>4. CASE OfferedInRounds(u)
  <2>1. u \in QueueHead(queue)
    BY <1>4 DEF OfferedInRounds, Offerable, LineInv, HandlersInv
  <2> QED BY <2>1, HeadIsUser DEF Types, HeadOf
<1> QED BY <1>1, <1>2, <1>3, <1>4

\* Within a tier, an automatic offer never passes over a WAITING user who
\* stood in the queue before, unless the one offered is leaving meanwhile.
TierIsServedInOrder ==
    [][\A u, v \in Users :
          /\ Queued(v) /\ Tier[u] = Tier[v]
          /\ status[u] = "WAITING" /\ status'[u] = "OFFERED"
          /\ status[v] = "WAITING" /\ status'[v] = "WAITING"
          /\ ~ SendWaitlistOffer(u) /\ ~ Leaving(u)
          => \E i, j \in DOMAIN queue[Tier[u]] :
                queue[Tier[u]][i] = u /\ queue[Tier[u]][j] = v /\ i < j]_vars

\* As long as Redis answers and keeps its keys, each tier is served in the
\* order of its queue, for any number of users, even though the jobs run
\* beside the mutations, pick a user in one step and offer the place in a
\* later one, and may be stopped in between (get_next_in_queue,
\* check_expired_offers, offer_spots_to_next_users).  Across the tiers this
\* holds only while they take turns: QueueIsServedInOrder.
THEOREM TiersAreServedInOrder ==
    ASSUME Faults \cap {"redis", "ttl"} = {}
    PROVE  Spec => TierIsServedInOrder
<1>1. Init => LineInv
  BY DEF Init, LineInv, HandlersInv, RowsKnown, JoinAtWork, LeavesTheQueue, NoCall,
         IdleExpirer, IdleOfferer
<1>2. Types /\ LineInv /\ [Next]_vars => LineInv'
  BY LineStep
<1> DEFINE Offered(u, v) ==
             /\ Queued(v) /\ Tier[u] = Tier[v]
             /\ status[u] = "WAITING" /\ status'[u] = "OFFERED"
             /\ status[v] = "WAITING" /\ status'[v] = "WAITING"
             /\ ~ SendWaitlistOffer(u) /\ ~ Leaving(u)
           Before(u, v) ==
             \E i, j \in DOMAIN queue[Tier[u]] :
                queue[Tier[u]][i] = u /\ queue[Tier[u]][j] = v /\ i < j
           Step == \A u, v \in Users : Offered(u, v) => Before(u, v)
<1>3. ASSUME Types, LineInv, [Next]_vars PROVE Step
  <2> SUFFICES ASSUME NEW u \in Users, NEW v \in Users, Offered(u, v)
               PROVE  Before(u, v)
    OBVIOUS
  <2>1. HeadOf(u) /\ u # v
    BY <1>3, OfferedIsHead
  <2>2. queue[Tier[u]] \in Seq(Users)
    BY <1>3, QueuedIs DEF Types
  <2>3. PICK j \in 1 .. Len(queue[Tier[u]]) : queue[Tier[u]][j] = v
    BY <1>3, QueuedIs DEF Types
  <2>4. /\ queue[Tier[u]][1] = u
        /\ 1 \in DOMAIN queue[Tier[u]] /\ j \in DOMAIN queue[Tier[u]]
    BY <2>1, <2>2, <2>3 DEF HeadOf
  <2>5. 1 < j
    <3>1. j # 1
      BY <2>1, <2>3, <2>4
    <3> QED BY <2>3, <3>1
  <2> QED BY <2>3, <2>4, <2>5
<1>4. Types /\ LineInv /\ [Next]_vars => [Step]_vars
  BY <1>3
<1>5. Spec => [][Step]_vars
  BY <1>1, <1>2, <1>4, TypesInvariant, PTL DEF Spec
<1> QED BY <1>5 DEF TierIsServedInOrder
=============================================================================
