------------------------- MODULE VenueWaitlistProofs -------------------------
(***************************************************************************)
(* Theorems about VenueWaitlist for every set of organisations, venues and *)
(* request threads and every limit.  For every overlap and crash: its      *)
(* types, and that an organisation never stands twice in the queue of a    *)
(* venue.  While threads take turns: a hold becomes one RFP at most, and   *)
(* the rows are the queue that VenueQueue describes, which rest on         *)
(* QuietInv: what the thread at work has read still holds.  The queue's    *)
(* limit and the finality of its entries follow for the rows.              *)
(***************************************************************************)
EXTENDS VenueWaitlist, FiniteSetTheorems, TLAPS

LEMMA InitType == Init => TypeOK
<1> SUFFICES ASSUME Init PROVE TypeOK
  OBVIOUS
<1>1. entries \in Seq(Row) /\ Ids = {}
  BY DEF Init, Ids
<1>2. Idle \in Work /\ Ready(Idle)
  BY DEF Idle, Work, Ready
<1>3. work \in [Threads -> Work] /\ \A t \in Threads : work[t] = Idle
  BY <1>2 DEF Init
<1>4. availability \in [Venues -> DOMAIN Rank]
  BY DEF Init, Rank
<1> QED BY <1>1, <1>2, <1>3, <1>4 DEF TypeOK

-----------------------------------------------------------------------------
(* Moving one thread *)

\* A thread that goes on to a well-formed step, with rows that keep their
\* number and are not orphaned, leaves the types intact.
LEMMA MoveType ==
    ASSUME TypeOK, NEW t \in Threads, NEW w \in Work, Ready(w), Goto(t, w),
           entries' \in Seq(Row), Len(entries') = Len(entries),
           availability' \in [Venues -> DOMAIN Rank],
           \A i \in Ids : entries'[i].status = "joining" =>
               entries[i].status = "joining" /\ ~ Inserting(t, i)
    PROVE  TypeOK'
<1>1. entries \in Seq(Row) /\ work \in [Threads -> Work]
  BY DEF TypeOK
<1>2. Ids' = Ids
  BY <1>1 DEF Ids
<1>3. /\ work' \in [Threads -> Work]
      /\ work'[t] = w
      /\ \A s \in Threads \ {t} : work'[s] = work[s]
  BY <1>1 DEF Goto
<1>4. work' \in [Threads -> Work']
  <2>1. Work' = Work
    BY <1>2 DEF Work
  <2> QED BY <1>3, <2>1
<1>5. ASSUME NEW s \in Threads PROVE Ready(work[s])'
  <2>1. Ready(work'[s])
    BY <1>3 DEF TypeOK
  <2> QED BY <2>1, <1>2 DEF Ready
<1>6. ASSUME NEW i \in Ids', entries'[i].status = "joining"
      PROVE  \E s \in Threads : Inserting(s, i)'
  <2>1. entries[i].status = "joining" /\ ~ Inserting(t, i)
    BY <1>2, <1>6
  <2>2. PICK s \in Threads : Inserting(s, i)
    BY <1>2, <2>1 DEF TypeOK
  <2>3. s # t
    BY <2>1, <2>2
  <2> QED BY <1>3, <2>2, <2>3 DEF Inserting
<1>7. entries' \in Seq(Row')
  BY DEF Row
<1> QED BY <1>4, <1>5, <1>6, <1>7 DEF TypeOK

\* The rows stay as they are.
LEMMA QuietMoveType ==
    ASSUME TypeOK, NEW t \in Threads, NEW w \in Work, Ready(w), Goto(t, w),
           work[t].at # "insert", UNCHANGED entries,
           availability' \in [Venues -> DOMAIN Rank]
    PROVE  TypeOK'
<1>1. entries \in Seq(Row) /\ Len(entries') = Len(entries)
  BY DEF TypeOK
<1>2. \A i \in Ids : entries'[i].status = "joining" =>
          entries[i].status = "joining" /\ ~ Inserting(t, i)
  BY DEF Inserting
<1> QED BY <1>1, <1>2, MoveType

LEMMA RowOf == ASSUME TypeOK, NEW i \in Ids PROVE entries[i] \in Row
BY DEF TypeOK, Ids

LEMMA IdleStep == Idle \in Work /\ Ready(Idle)
BY DEF Idle, Work, Ready

LEMMA CascadeStepOK ==
    ASSUME NEW v \in Venues PROVE CascadeStep(v) \in Work /\ Ready(CascadeStep(v))
BY DEF CascadeStep, Idle, Work, Ready

LEMMA ClosingStepOK ==
    ASSUME TypeOK, NEW i \in Ids, NEW status \in {"expired", "cancelled"},
           NEW passOn \in BOOLEAN, NEW batch \in SUBSET Ids
    PROVE  /\ ClosingStep(i, status, passOn, batch) \in Work
           /\ Ready(ClosingStep(i, status, passOn, batch))
<1>1. entries[i].venue \in Venues
  BY RowOf DEF Row
<1> QED BY <1>1 DEF ClosingStep, Idle, Work, Ready

\* Where a thread goes on, it goes to a well-formed step.
LEMMA ContinueOK ==
    ASSUME TypeOK, NEW t \in Threads, work[t].at \in {"close", "pick", "offer"},
           Continue(t)
    PROVE  \E w \in Work : Ready(w) /\ Goto(t, w)
<1>1. work[t] \in Work /\ Ready(work[t])
  BY DEF TypeOK
<1>2. CASE work[t].batch # {}
  <2>1. PICK i \in work[t].batch :
          Goto(t, ClosingStep(i, work[t].to, work[t].passOn,
                              work[t].batch \ {i}))
    BY <1>2 DEF Continue
  <2>2. /\ i \in Ids
        /\ work[t].to \in {"expired", "cancelled"}
        /\ work[t].passOn \in BOOLEAN
        /\ work[t].batch \ {i} \in SUBSET Ids
    BY <1>1, <1>2, <2>1 DEF Work, Ready
  <2> QED BY <2>1, <2>2, ClosingStepOK
<1>3. CASE work[t].batch = {}
  <2>1. CASE t = "breakerExpiry"
    <3> DEFINE w == [Idle EXCEPT !.at = "reset", !.venue = work[t].venue]
    <3>1. w \in Work /\ Ready(w)
      BY <1>1 DEF Idle, Work, Ready
    <3>2. Goto(t, w)
      BY <1>3, <2>1 DEF Continue
    <3> QED BY <3>1, <3>2
  <2>2. CASE t # "breakerExpiry"
    BY <1>3, <2>2, IdleStep DEF Continue
  <2> QED BY <2>1, <2>2
<1> QED BY <1>2, <1>3

-----------------------------------------------------------------------------
(* Writing one row *)

LEMMA RowType ==
    ASSUME TypeOK, NEW i \in Ids, NEW row \in Row, row.status # "joining",
           entries' = [entries EXCEPT ![i] = row]
    PROVE  /\ entries' \in Seq(Row)
           /\ Len(entries') = Len(entries)
           /\ \A j \in Ids : entries'[j].status = "joining" =>
                             entries[j].status = "joining" /\ j # i
<1>1. entries \in Seq(Row) /\ i \in 1..Len(entries)
  BY DEF TypeOK, Ids
<1> QED BY <1>1 DEF Ids

LEMMA StatusType ==
    ASSUME TypeOK, NEW i \in Ids,
           NEW s \in Active \cup TerminalStatuses \cup {"absent"},
           entries' = [entries EXCEPT ![i].status = s]
    PROVE  /\ entries' \in Seq(Row)
           /\ Len(entries') = Len(entries)
           /\ \A j \in Ids : entries'[j].status = "joining" =>
                             entries[j].status = "joining" /\ j # i
<1> DEFINE row == [entries[i] EXCEPT !.status = s]
<1>1. row \in Row /\ row.status # "joining"
  BY RowOf DEF Row, Active, TerminalStatuses, Unseen
<1>2. entries' = [entries EXCEPT ![i] = row]
  OBVIOUS
<1> QED BY <1>1, <1>2, RowType

\* A thread that writes its row leaves the types intact.
LEMMA WriteType ==
    ASSUME TypeOK, NEW t \in Threads, NEW w \in Work, Ready(w), Goto(t, w),
           work[t].at # "insert" \/ entries'[work[t].entry].status # "joining",
           UNCHANGED availability,
           entries' \in Seq(Row), Len(entries') = Len(entries),
           \A j \in Ids : entries'[j].status = "joining" =>
                             entries[j].status = "joining"
    PROVE  TypeOK'
<1>1. \A i \in Ids : entries'[i].status = "joining" =>
          entries[i].status = "joining" /\ ~ Inserting(t, i)
  BY DEF Inserting
<1>2. availability' \in [Venues -> DOMAIN Rank]
  BY DEF TypeOK
<1> QED BY <1>1, <1>2, MoveType

-----------------------------------------------------------------------------
(* One lemma for every action *)

LEMMA JoinType ==
    ASSUME TypeOK, NEW r \in Requests, NEW o \in Orgs, NEW v \in Venues,
           Join(r, o, v)
    PROVE  TypeOK'
<1> DEFINE row == [org |-> o, venue |-> v, status |-> "joining",
                   hold |-> "none", rfps |-> 0]
           new == Len(entries) + 1
           w == [Idle EXCEPT !.at = "insert", !.entry = new]
<1>1. entries \in Seq(Row) /\ row \in Row /\ r \in Threads /\ work[r] = Idle
  BY DEF TypeOK, Row, Active, TerminalStatuses, Unseen, Threads, Join, MayStart
<1>2. entries' = Append(entries, row) /\ Goto(r, w) /\ UNCHANGED availability
  BY DEF Join
<1>3. /\ entries' \in Seq(Row)
      /\ Ids' = Ids \cup {new}
      /\ entries'[new] = row
      /\ \A i \in Ids : entries'[i] = entries[i]
  BY <1>1, <1>2 DEF Ids
<1>4. Work \subseteq Work' /\ \A u \in Work : Ready(u) => Ready(u)'
  BY <1>3 DEF Work, Ready
<1>5. w \in Work' /\ \A u : u = w => Ready(u)'
  BY <1>3 DEF Idle, Work, Ready
<1>6. /\ work \in [Threads -> Work]
      /\ work' = [work EXCEPT ![r] = w]
  BY <1>2 DEF TypeOK, Goto
<1>7. work' \in [Threads -> Work']
  BY <1>1, <1>4, <1>5, <1>6
<1>8. ASSUME NEW s \in Threads PROVE Ready(work[s])'
  <2>1. work'[s] = w \/ (work'[s] \in Work /\ Ready(work'[s]))
    BY <1>1, <1>6 DEF TypeOK
  <2>2. \A u : u = work'[s] => Ready(u)'
    BY <1>4, <1>5, <2>1
  <2> QED BY <2>2 DEF Ready
<1>9. ASSUME NEW i \in Ids', entries'[i].status = "joining"
      PROVE  \E s \in Threads : Inserting(s, i)'
  <2>1. CASE i = new
    BY <1>1, <1>6, <2>1 DEF Inserting, Idle
  <2>2. CASE i \in Ids
    <3>1. PICK s \in Threads : Inserting(s, i)
      BY <1>3, <1>9, <2>2 DEF TypeOK
    <3>2. s # r
      BY <1>1, <3>1 DEF Inserting, Idle
    <3> QED BY <1>6, <3>1, <3>2 DEF Inserting
  <2> QED BY <1>3, <2>1, <2>2
<1>10. entries' \in Seq(Row') /\ availability' \in [Venues -> DOMAIN Rank]
  BY <1>2, <1>3 DEF Row, TypeOK
<1> QED BY <1>7, <1>8, <1>9, <1>10 DEF TypeOK

LEMMA InsertType ==
    ASSUME TypeOK, NEW t \in Threads, Insert(t) PROVE TypeOK'
<1> DEFINE i == work[t].entry
           s == IF IndexRefuses(i) THEN "absent" ELSE "waiting"
<1>1. i \in Ids
  BY DEF Insert, TypeOK, Ready
<1>2. entries' = [entries EXCEPT ![i].status = s] /\ Goto(t, Idle)
  BY DEF Insert
<1>3. s \in Active \cup TerminalStatuses \cup {"absent"}
  BY DEF Active
<1>4. UNCHANGED availability
  BY DEF Insert
<1> HIDE DEF s
<1>5. /\ entries' \in Seq(Row)
      /\ Len(entries') = Len(entries)
      /\ \A j \in Ids : entries'[j].status = "joining" =>
                        entries[j].status = "joining" /\ j # i
  BY <1>1, <1>2, <1>3, StatusType
<1> QED BY <1>1, <1>2, <1>4, <1>5, IdleStep, WriteType

LEMMA CloseType ==
    ASSUME TypeOK, NEW t \in Threads, Close(t) PROVE TypeOK'
<1> DEFINE i == work[t].entry
<1>1. work[t] \in Work /\ Ready(work[t]) /\ work[t].at = "close"
  BY DEF TypeOK, Close
<1>2. i \in Ids /\ work[t].to \in {"expired", "cancelled"}
  BY <1>1 DEF Work, Ready
<1>3. entries' = [entries EXCEPT ![i].status = work[t].to]
  BY DEF Close
<1>4. work[t].to \in Active \cup TerminalStatuses \cup {"absent"}
  BY <1>2 DEF TerminalStatuses
<1>5. /\ entries' \in Seq(Row)
      /\ Len(entries') = Len(entries)
      /\ \A j \in Ids : entries'[j].status = "joining" =>
                        entries[j].status = "joining" /\ j # i
  BY <1>2, <1>3, <1>4, StatusType
<1>6. \E w \in Work : Ready(w) /\ Goto(t, w)
  <2>1. CASE work[t].passOn
    <3> DEFINE w == [work[t] EXCEPT !.at = "pick"]
    <3>1. w \in Work
      BY <1>1 DEF Work
    <3>2. Ready(w)
      BY <1>1 DEF Ready, Work
    <3>3. Goto(t, w)
      BY <2>1 DEF Close
    <3> QED BY <3>1, <3>2, <3>3
  <2>2. CASE ~ work[t].passOn
    <3>1. Continue(t)
      BY <2>2 DEF Close
    <3> QED BY <1>1, <3>1, ContinueOK
  <2> QED BY <2>1, <2>2
<1>7. UNCHANGED availability
  BY DEF Close
<1> QED BY <1>1, <1>5, <1>6, <1>7, WriteType

LEMMA ConvertedType ==
    ASSUME TypeOK, NEW t \in Threads, Converted(t) PROVE TypeOK'
<1> DEFINE i == work[t].entry
           row == [entries[i] EXCEPT !.status = "converted", !.rfps = @ + 1]
<1>1. i \in Ids /\ work[t].at = "convert"
  BY DEF TypeOK, Ready, Converted
<1>2. row \in Row /\ row.status # "joining"
  <2>1. entries[i] \in Row /\ entries[i].rfps + 1 \in Nat
    BY <1>1, RowOf DEF Row
  <2> QED BY <2>1 DEF Row, TerminalStatuses
<1>3. entries' = [entries EXCEPT ![i] = row]
  <2>1. entries' = [entries EXCEPT ![i].status = "converted",
                                   ![i].rfps = @ + 1]
    BY DEF Converted
  <2>2. entries \in Seq(Row) /\ entries[i] \in Row
    BY <1>1, RowOf DEF TypeOK
  <2> QED BY <1>1, <2>1, <2>2 DEF Ids, Row
<1>4. /\ entries' \in Seq(Row)
      /\ Len(entries') = Len(entries)
      /\ \A j \in Ids : entries'[j].status = "joining" =>
                        entries[j].status = "joining" /\ j # i
  BY <1>1, <1>2, <1>3, RowType
<1>5. Goto(t, Idle) /\ UNCHANGED availability
  BY DEF Converted
<1> QED BY <1>1, <1>4, <1>5, IdleStep, WriteType

LEMMA OfferHoldType ==
    ASSUME TypeOK, NEW t \in Threads, OfferHold(t) PROVE TypeOK'
<1> DEFINE i == work[t].entry
           row == [entries[i] EXCEPT !.status = "offered", !.hold = "running"]
<1>1. i \in Ids /\ work[t].at = "offer" /\ UNCHANGED availability
  BY DEF TypeOK, Ready, OfferHold
<1>2. CASE IndexRefuses(i)
  <2>1. Goto(t, Idle) /\ UNCHANGED entries
    BY <1>2 DEF OfferHold
  <2>2. availability' \in [Venues -> DOMAIN Rank]
    BY <1>1 DEF TypeOK
  <2> QED BY <1>1, <2>1, <2>2, IdleStep, QuietMoveType
<1>3. CASE ~ IndexRefuses(i)
  <2>1. /\ entries' = [entries EXCEPT ![i].status = "offered",
                                      ![i].hold = "running"]
        /\ Continue(t)
    BY <1>3 DEF OfferHold
  <2>2. entries \in Seq(Row) /\ entries[i] \in Row
    BY <1>1, RowOf DEF TypeOK
  <2>3. row \in Row /\ row.status # "joining"
    BY <2>2 DEF Row, Active
  <2>4. entries' = [entries EXCEPT ![i] = row]
    BY <1>1, <2>1, <2>2 DEF Ids, Row
  <2>5. /\ entries' \in Seq(Row)
        /\ Len(entries') = Len(entries)
        /\ \A j \in Ids : entries'[j].status = "joining" =>
                          entries[j].status = "joining" /\ j # i
    BY <1>1, <2>3, <2>4, RowType
  <2>6. \E w \in Work : Ready(w) /\ Goto(t, w)
    BY <1>1, <2>1, ContinueOK
  <2> QED BY <1>1, <2>5, <2>6, WriteType
<1> QED BY <1>2, <1>3

LEMMA PickType ==
    ASSUME TypeOK, NEW t \in Threads, Pick(t) PROVE TypeOK'
<1>1. work[t] \in Work /\ Ready(work[t]) /\ work[t].at = "pick"
  BY DEF TypeOK, Pick
<1>2. UNCHANGED entries /\ availability' \in [Venues -> DOMAIN Rank]
  BY DEF TypeOK, Pick
<1>3. \E w \in Work : Ready(w) /\ Goto(t, w)
  <2>1. CASE Continue(t)
    BY <1>1, <2>1, ContinueOK
  <2>2. CASE \E i \in NextWaiting(work[t].venue) :
               Goto(t, [work[t] EXCEPT !.at = "offer", !.entry = i])
    <3>1. PICK i \in Ids : Goto(t, [work[t] EXCEPT !.at = "offer", !.entry = i])
      BY <2>2 DEF NextWaiting, Waiting
    <3> DEFINE w == [work[t] EXCEPT !.at = "offer", !.entry = i]
    <3>2. w \in Work
      BY <1>1 DEF Work
    <3>3. Ready(w)
      BY <1>1 DEF Ready, Work
    <3> QED BY <3>1, <3>2, <3>3
  <2> QED BY <2>1, <2>2 DEF Pick
<1> QED BY <1>1, <1>2, <1>3, QuietMoveType

\* A request or a job that starts and leaves the rows alone.
LEMMA StartType ==
    ASSUME TypeOK, NEW t \in Threads, MayStart(t), NEW w \in Work, Ready(w),
           Goto(t, w), UNCHANGED entries,
           availability' \in [Venues -> DOMAIN Rank]
    PROVE  TypeOK'
<1>1. work[t].at # "insert"
  BY DEF MayStart, Idle
<1> QED BY <1>1, QuietMoveType

LEMMA RequestType ==
    ASSUME TypeOK, NEW r \in Requests, Request(r) PROVE TypeOK'
<1>1. r \in Threads /\ availability \in [Venues -> DOMAIN Rank]
  BY DEF Threads, TypeOK
<1>2. ASSUME NEW v \in Venues, NEW o \in Orgs, Join(r, o, v) PROVE TypeOK'
  BY <1>2, JoinType
<1>3. ASSUME NEW v \in Venues, NEW level \in Levels, SetAvailability(r, v, level)
      PROVE  TypeOK'
  <2>1. availability' \in [Venues -> DOMAIN Rank]
    BY <1>1, <1>3, LevelsAssumption DEF SetAvailability
  <2>2. \E w \in Work : Ready(w) /\ Goto(r, w)
    BY <1>3, CascadeStepOK, IdleStep DEF SetAvailability
  <2>3. MayStart(r) /\ UNCHANGED entries
    BY <1>3 DEF SetAvailability
  <2> QED BY <1>1, <2>1, <2>2, <2>3, StartType
<1>4. ASSUME NEW v \in Venues, NEW level \in Levels, ClearOverride(r, v, level)
      PROVE  TypeOK'
  <2>1. availability' \in [Venues -> DOMAIN Rank]
    BY <1>1, <1>4, LevelsAssumption DEF ClearOverride
  <2>2. Goto(r, Idle) /\ MayStart(r) /\ UNCHANGED entries
    <3>1. MayStart(r) /\ UNCHANGED <<entries, work>>
      BY <1>4 DEF ClearOverride
    <3>2. work \in [Threads -> Work] /\ work[r] = Idle
      BY <3>1 DEF TypeOK, MayStart
    <3> QED BY <1>1, <3>1, <3>2 DEF Goto
  <2> QED BY <1>1, <2>1, <2>2, IdleStep, StartType
<1>5. ASSUME NEW v \in Venues, ResolveCircuitBreaker(r, v) PROVE TypeOK'
  BY <1>1, <1>5, CascadeStepOK, StartType DEF ResolveCircuitBreaker
<1>6. ASSUME NEW i \in Ids, Convert(r, i) PROVE TypeOK'
  <2> DEFINE w == [Idle EXCEPT !.at = "convert", !.entry = i]
  <2>1. w \in Work /\ Ready(w)
    BY DEF Idle, Work, Ready
  <2>2. MayStart(r) /\ Goto(r, w) /\ UNCHANGED <<entries, availability>>
    BY <1>6 DEF Convert
  <2> QED BY <1>1, <2>1, <2>2, StartType
<1>7. ASSUME NEW i \in Ids, Cancel(r, i) PROVE TypeOK'
  <2>1. PICK graphql \in BOOLEAN :
          Goto(r, ClosingStep(i, "cancelled",
                              graphql \/ entries[i].status = "offered", {}))
    BY <1>7 DEF Cancel
  <2> DEFINE passOn == graphql \/ entries[i].status = "offered"
  <2>2. passOn \in BOOLEAN
    OBVIOUS
  <2>3. MayStart(r) /\ UNCHANGED <<entries, availability>>
    BY <1>7 DEF Cancel
  <2> HIDE DEF passOn
  <2>4. /\ ClosingStep(i, "cancelled", passOn, {}) \in Work
        /\ Ready(ClosingStep(i, "cancelled", passOn, {}))
    BY <2>2, ClosingStepOK
  <2>5. Goto(r, ClosingStep(i, "cancelled", passOn, {}))
    BY <2>1 DEF passOn
  <2> QED BY <1>1, <2>3, <2>4, <2>5, StartType
<1> QED BY <1>2, <1>3, <1>4, <1>5, <1>6, <1>7 DEF Request

LEMMA StartClosingType ==
    ASSUME TypeOK, NEW job \in Threads, NEW ids \in SUBSET Ids,
           NEW status \in {"expired", "cancelled"}, NEW passOn \in BOOLEAN,
           StartClosing(job, ids, status, passOn)
    PROVE  TypeOK'
<1>1. PICK i \in ids : Goto(job, ClosingStep(i, status, passOn, ids \ {i}))
  BY DEF StartClosing
<1>2. /\ ClosingStep(i, status, passOn, ids \ {i}) \in Work
      /\ Ready(ClosingStep(i, status, passOn, ids \ {i}))
  BY ClosingStepOK
<1>3. MayStart(job) /\ UNCHANGED <<entries, availability>>
  BY DEF StartClosing
<1>4. availability' \in [Venues -> DOMAIN Rank]
  BY <1>3 DEF TypeOK
<1> QED BY <1>1, <1>2, <1>3, <1>4, StartType

LEMMA StepType ==
    ASSUME TypeOK, NEW t \in Threads, Step(t) PROVE TypeOK'
BY InsertType, ConvertedType, CloseType, PickType, OfferHoldType DEF Step

LEMMA HoldJobType == ASSUME TypeOK, HoldJob PROVE TypeOK'
<1>1. CASE ProcessHoldExpiry
  <2> DEFINE ids == {i \in Ids : /\ entries[i].status = "offered"
                                 /\ entries[i].hold = "over"}
  <2>1. StartClosing("holdExpiry", ids, "expired", TRUE)
    BY <1>1 DEF ProcessHoldExpiry
  <2>2. ids \in SUBSET Ids /\ "holdExpiry" \in Threads
    BY <2>1 DEF StartClosing, MayStart
  <2> QED BY <2>1, <2>2, StartClosingType
<1>2. CASE "holdExpiry" \in Jobs /\ Step("holdExpiry")
  BY <1>2, StepType DEF Threads
<1> QED BY <1>1, <1>2 DEF HoldJob

LEMMA BreakerExpiryType ==
    ASSUME TypeOK, NEW v \in Venues, ProcessCircuitBreakerExpiry(v)
    PROVE  TypeOK'
<1> DEFINE t == "breakerExpiry"
<1>1. /\ MayStart(t) /\ t \in Threads
      /\ UNCHANGED <<entries, availability>>
      /\ availability \in [Venues -> DOMAIN Rank]
  BY DEF ProcessCircuitBreakerExpiry, MayStart, TypeOK
<1>2. CASE Waiting(v) = {}
  <2> DEFINE w == [Idle EXCEPT !.at = "reset", !.venue = v]
  <2>1. w \in Work /\ Ready(w)
    BY DEF Idle, Work, Ready
  <2>2. Goto(t, w)
    BY <1>2 DEF ProcessCircuitBreakerExpiry
  <2> QED BY <1>1, <2>1, <2>2, StartType
<1>3. CASE Waiting(v) # {}
  <2>1. PICK i \in Waiting(v) :
          Goto(t, ClosingStep(i, "cancelled", FALSE, Waiting(v) \ {i}))
    BY <1>3 DEF ProcessCircuitBreakerExpiry
  <2>2. i \in Ids /\ Waiting(v) \ {i} \in SUBSET Ids
    BY <2>1 DEF Waiting
  <2>3. /\ ClosingStep(i, "cancelled", FALSE, Waiting(v) \ {i}) \in Work
        /\ Ready(ClosingStep(i, "cancelled", FALSE, Waiting(v) \ {i}))
    BY <2>2, ClosingStepOK
  <2> QED BY <1>1, <2>1, <2>3, StartType
<1> QED BY <1>2, <1>3

LEMMA OtherJobsType == ASSUME TypeOK, OtherJobs PROVE TypeOK'
<1>1. ASSUME NEW due \in SUBSET Ids, ProcessAutoExpiry(due) PROVE TypeOK'
  <2>1. StartClosing("autoExpiry", due, "expired", FALSE)
    BY <1>1 DEF ProcessAutoExpiry
  <2>2. "autoExpiry" \in Threads
    BY <2>1 DEF StartClosing, MayStart
  <2> QED BY <2>1, <2>2, StartClosingType
<1>2. ASSUME NEW v \in Venues, ProcessCircuitBreakerExpiry(v) PROVE TypeOK'
  BY <1>2, BreakerExpiryType
<1>3. ASSUME ResetAvailability PROVE TypeOK'
  <2> DEFINE t == "breakerExpiry"
  <2>1. t \in Threads /\ work[t].at = "reset" /\ work[t].venue \in Venues
    BY <1>3 DEF ResetAvailability, Threads, TypeOK, Ready
  <2>2. Goto(t, Idle) /\ UNCHANGED entries
    BY <1>3 DEF ResetAvailability
  <2>3. availability' \in [Venues -> DOMAIN Rank]
    <3>1. availability \in [Venues -> DOMAIN Rank] /\ "not_set" \in DOMAIN Rank
      BY DEF TypeOK, Rank
    <3>2. availability' = [availability EXCEPT ![work[t].venue] =
                             IF @ = "accepting_events" THEN "not_set" ELSE @]
      BY <1>3 DEF ResetAvailability
    <3> QED BY <2>1, <3>1, <3>2
  <2> QED BY <2>1, <2>2, <2>3, IdleStep, QuietMoveType
<1>4. ASSUME NEW v \in Venues, NEW level \in Levels, RunInference(v, level)
      PROVE  TypeOK'
  <2> DEFINE t == "inference"
  <2>1. MayStart(t) /\ t \in Threads /\ UNCHANGED entries
    BY <1>4 DEF RunInference, MayStart
  <2>2. availability' \in [Venues -> DOMAIN Rank]
    BY <1>4, LevelsAssumption DEF RunInference, TypeOK
  <2>3. Goto(t, CascadeStep(v)) \/ Goto(t, Idle)
    BY <1>4 DEF RunInference
  <2> QED BY <2>1, <2>2, <2>3, CascadeStepOK, IdleStep, StartType
<1> QED BY <1>1, <1>2, <1>3, <1>4 DEF OtherJobs

\* Steps that leave the threads where they are, or all idle.
LEMMA HoldLapsesType ==
    ASSUME TypeOK, NEW i \in Ids, HoldLapses(i) PROVE TypeOK'
<1> DEFINE row == [entries[i] EXCEPT !.hold = "over"]
<1>1. row \in Row /\ row.status # "joining"
  BY RowOf DEF HoldLapses, Row
<1>2. entries' = [entries EXCEPT ![i] = row] /\ UNCHANGED <<availability, work>>
  BY DEF HoldLapses
<1>3. /\ entries' \in Seq(Row)
      /\ Len(entries') = Len(entries)
      /\ \A j \in Ids : entries'[j].status = "joining" =>
                        entries[j].status = "joining" /\ j # i
  BY <1>1, <1>2, RowType
<1>4. Ids' = Ids /\ entries' \in Seq(Row')
  BY <1>3 DEF Ids, TypeOK, Row
<1>5. work' \in [Threads -> Work'] /\ \A t \in Threads : Ready(work[t])'
  BY <1>2, <1>4 DEF TypeOK, Work, Ready
<1>6. \A j \in Ids' : entries'[j].status = "joining" =>
                      \E t \in Threads : Inserting(t, j)'
  BY <1>2, <1>3, <1>4 DEF TypeOK, Inserting
<1>7. availability' \in [Venues -> DOMAIN Rank]
  BY <1>2 DEF TypeOK
<1> QED BY <1>4, <1>5, <1>6, <1>7 DEF TypeOK

LEMMA CrashType == ASSUME TypeOK, Crash PROVE TypeOK'
<1> DEFINE row(i) == [entries[i] EXCEPT !.status =
                        IF @ = "joining" THEN "absent" ELSE @]
<1>1. entries' = [i \in Ids |-> row(i)]
  BY DEF Crash
<1>2. \A i \in Ids : row(i) \in Row /\ row(i).status # "joining"
  BY RowOf DEF Row, Unseen
<1> HIDE DEF row
<1>3. entries' \in Seq(Row) /\ Ids' = Ids
  BY <1>1, <1>2 DEF Ids, TypeOK
<1>4. \A i \in Ids' : entries'[i].status # "joining"
  BY <1>1, <1>2, <1>3
<1>5. work' = [t \in Threads |-> Idle] /\ UNCHANGED availability
  BY DEF Crash
<1>6. Idle \in Work' /\ \A u : u = Idle => Ready(u)'
  BY <1>3 DEF Idle, Work, Ready
<1>7. work' \in [Threads -> Work'] /\ \A t \in Threads : Ready(work[t])'
  <2>1. \A t \in Threads : work'[t] = Idle
    BY <1>5
  <2>2. \A t \in Threads : \A u : u = work'[t] => Ready(u)'
    BY <1>6, <2>1
  <2> QED BY <1>5, <1>6, <2>2 DEF Ready
<1>8. entries' \in Seq(Row') /\ availability' \in [Venues -> DOMAIN Rank]
  BY <1>3, <1>5 DEF Row, TypeOK
<1> QED BY <1>4, <1>7, <1>8 DEF TypeOK

LEMMA NextType == ASSUME TypeOK, [Next]_vars PROVE TypeOK'
<1>1. ASSUME NEW r \in Requests, Request(r) PROVE TypeOK'
  BY <1>1, RequestType
<1>2. ASSUME NEW t \in Threads, Step(t) PROVE TypeOK'
  BY <1>2, StepType
<1>3. CASE Environment
  BY <1>3, HoldLapsesType, CrashType DEF Environment
<1>4. CASE UNCHANGED vars
  BY <1>4 DEF vars, TypeOK, Ids, Work, Ready, Inserting, Row
<1> QED BY <1>1, <1>2, <1>3, <1>4, HoldJobType, OtherJobsType DEF Next

\* Every row, status and step of a thread has its type in every reachable
\* state, and a row that is not committed yet belongs to the thread that
\* inserts it, so none is left behind when the service stops
\* (create_waitlist_entry and the session of the request).
THEOREM TypeCorrect == Spec => []TypeOK
<1>1. Init => TypeOK
  BY InitType
<1>2. TypeOK /\ [Next]_vars => TypeOK'
  BY NextType
<1> QED BY <1>1, <1>2, PTL DEF Spec

-----------------------------------------------------------------------------
(* One place in the queue *)

\* A step keeps the property when no organisation and no venue changes and
\* the rows that are active afterwards were active before, but for one row of
\* whose organisation and venue no other row was active.
LEMMA OneMoreActive ==
    ASSUME OneActivePerVenue, Ids' = Ids, NEW k,
           \A i \in Ids : /\ entries'[i].org = entries[i].org
                          /\ entries'[i].venue = entries[i].venue
                          /\ entries'[i].status \in Active =>
                             entries[i].status \in Active
                             \/ (i = k /\ ~ IndexRefuses(k))
    PROVE  OneActivePerVenue'
<1> SUFFICES ASSUME NEW i \in Ids, NEW j \in Ids, i # j,
                    entries'[i].status \in Active,
                    entries'[j].status \in Active,
                    entries[i].org = entries[j].org,
                    entries[i].venue = entries[j].venue
             PROVE  FALSE
  BY DEF OneActivePerVenue, Active
<1>1. \/ entries[i].status \in Active
      \/ i = k /\ ~ IndexRefuses(k)
  OBVIOUS
<1>2. \/ entries[j].status \in Active
      \/ j = k /\ ~ IndexRefuses(k)
  OBVIOUS
<1>3. ASSUME entries[i].status \in Active, entries[j].status \in Active
      PROVE  FALSE
  BY <1>3 DEF OneActivePerVenue
<1>4. ASSUME i = k, ~ IndexRefuses(k) PROVE FALSE
  BY <1>2, <1>4 DEF IndexRefuses
<1>5. ASSUME j = k, ~ IndexRefuses(k) PROVE FALSE
  BY <1>1, <1>5 DEF IndexRefuses
<1> QED BY <1>1, <1>2, <1>3, <1>4, <1>5

\* The rows stay as they are.
LEMMA SameRows ==
    ASSUME OneActivePerVenue, UNCHANGED entries PROVE OneActivePerVenue'
BY DEF OneActivePerVenue, Ids, Active

LEMMA StepOneActive ==
    ASSUME TypeOK, OneActivePerVenue, NEW t \in Threads, Step(t)
    PROVE  OneActivePerVenue'
<1> DEFINE k == work[t].entry
<1>1. entries \in Seq(Row) /\ \A i \in Ids : entries[i] \in Row
  BY RowOf DEF TypeOK
<1>2. CASE Insert(t)
  <2>1. entries' = [entries EXCEPT ![k].status =
                      IF IndexRefuses(k) THEN "absent" ELSE "waiting"]
    BY <1>2 DEF Insert
  <2>2. Ids' = Ids
    BY <1>1, <2>1 DEF Ids
  <2>3. ASSUME NEW i \in Ids
        PROVE  /\ entries'[i].org = entries[i].org
               /\ entries'[i].venue = entries[i].venue
               /\ entries'[i].status \in Active =>
                  entries[i].status \in Active
                  \/ (i = k /\ ~ IndexRefuses(k))
    BY <1>1, <2>1 DEF Row, Ids, Active
  <2> HIDE DEF k
  <2> QED BY <2>2, <2>3, OneMoreActive
<1>3. CASE Converted(t)
  <2>1. entries' = [entries EXCEPT ![k].status = "converted",
                                   ![k].rfps = @ + 1]
    BY <1>3 DEF Converted
  <2>2. Ids' = Ids
    BY <1>1, <2>1 DEF Ids
  <2>3. ASSUME NEW i \in Ids
        PROVE  /\ entries'[i].org = entries[i].org
               /\ entries'[i].venue = entries[i].venue
               /\ entries'[i].status \in Active => entries[i].status \in Active
    BY <1>1, <2>1 DEF Row, Ids, Active
  <2> HIDE DEF k
  <2> QED BY <2>2, <2>3, OneMoreActive
<1>4. CASE Close(t)
  <2>1. entries' = [entries EXCEPT ![k].status = work[t].to]
    BY <1>4 DEF Close
  <2>2. work[t].to \in {"none", "expired", "cancelled"}
    BY DEF TypeOK, Work
  <2>3. Ids' = Ids
    BY <1>1, <2>1 DEF Ids
  <2>4. ASSUME NEW i \in Ids
        PROVE  /\ entries'[i].org = entries[i].org
               /\ entries'[i].venue = entries[i].venue
               /\ entries'[i].status \in Active => entries[i].status \in Active
    BY <1>1, <2>1, <2>2 DEF Row, Ids, Active
  <2> HIDE DEF k
  <2> QED BY <2>3, <2>4, OneMoreActive
<1>5. CASE Pick(t)
  BY <1>5, SameRows DEF Pick
<1>6. CASE OfferHold(t)
  <2>1. CASE UNCHANGED entries
    BY <2>1, SameRows
  <2>2. CASE /\ ~ IndexRefuses(k)
             /\ entries' = [entries EXCEPT ![k].status = "offered",
                                           ![k].hold = "running"]
    <3>1. Ids' = Ids
      BY <1>1, <2>2 DEF Ids
    <3>2. ASSUME NEW i \in Ids
          PROVE  /\ entries'[i].org = entries[i].org
                 /\ entries'[i].venue = entries[i].venue
                 /\ entries'[i].status \in Active =>
                    entries[i].status \in Active
                    \/ (i = k /\ ~ IndexRefuses(k))
      BY <1>1, <2>2 DEF Row, Ids, Active
    <3> HIDE DEF k
    <3> QED BY <3>1, <3>2, OneMoreActive
  <2> QED BY <1>6, <2>1, <2>2 DEF OfferHold
<1> QED BY <1>2, <1>3, <1>4, <1>5, <1>6 DEF Step

LEMMA JoinOneActive ==
    ASSUME TypeOK, OneActivePerVenue, NEW r, NEW o, NEW v, Join(r, o, v)
    PROVE  OneActivePerVenue'
<1> DEFINE new == Len(entries) + 1
           row == [org |-> o, venue |-> v, status |-> "joining",
                   hold |-> "none", rfps |-> 0]
<1>1. entries \in Seq(Row) /\ entries' = Append(entries, row)
  BY DEF TypeOK, Join
<1>2. /\ Ids' = Ids \cup {new}
      /\ entries'[new].status = "joining"
      /\ \A i \in Ids : entries'[i] = entries[i]
  BY <1>1 DEF Ids
<1>3. \A i \in Ids' : entries'[i].status \in Active =>
          i \in Ids /\ entries'[i] = entries[i]
  BY <1>2 DEF Active
<1>4. Active' = Active
  BY DEF Active
<1> HIDE DEF new, row
<1> QED BY <1>3, <1>4 DEF OneActivePerVenue

LEMMA EnvironmentOneActive ==
    ASSUME TypeOK, OneActivePerVenue, Environment PROVE OneActivePerVenue'
<1>1. entries \in Seq(Row) /\ \A i \in Ids : entries[i] \in Row
  BY RowOf DEF TypeOK
<1>2. Ids' = Ids
  BY <1>1 DEF Environment, HoldLapses, Crash, Ids
<1>3. ASSUME NEW i \in Ids
      PROVE  /\ entries'[i].org = entries[i].org
             /\ entries'[i].venue = entries[i].venue
             /\ entries'[i].status \in Active => entries[i].status \in Active
  <2>1. CASE Crash
    BY <1>1, <2>1 DEF Crash, Row, Active
  <2>2. ASSUME NEW k \in Ids, HoldLapses(k)
        PROVE  /\ entries'[i].org = entries[i].org
               /\ entries'[i].venue = entries[i].venue
               /\ entries'[i].status \in Active => entries[i].status \in Active
    BY <1>1, <2>2 DEF HoldLapses, Row, Ids
  <2> QED BY <2>1, <2>2 DEF Environment
<1> QED BY <1>2, <1>3, OneMoreActive

\* For every number of request threads and every order of their reads and
\* commits, an organisation stands at most once in the queue of a venue: the
\* partial unique index decides at both commits that make a row active
\* (create_waitlist_entry, offer_hold), and no other commit does.
THEOREM OneActive == Spec => []OneActivePerVenue
<1>1. Init => OneActivePerVenue
  BY DEF Init, OneActivePerVenue, Ids
<1>2. ASSUME TypeOK, OneActivePerVenue, [Next]_vars PROVE OneActivePerVenue'
  <2>1. ASSUME NEW r \in Requests, Request(r) PROVE OneActivePerVenue'
    BY <1>2, <2>1, JoinOneActive, SameRows
       DEF Request, SetAvailability, ClearOverride, ResolveCircuitBreaker,
           Convert, Cancel
  <2>2. ASSUME NEW t \in Threads, Step(t) PROVE OneActivePerVenue'
    BY <1>2, <2>2, StepOneActive
  <2>3. CASE ProcessHoldExpiry \/ OtherJobs
    BY <1>2, <2>3, SameRows
       DEF ProcessHoldExpiry, OtherJobs, ProcessAutoExpiry, StartClosing,
           ProcessCircuitBreakerExpiry, ResetAvailability, RunInference
  <2>4. CASE Environment
    BY <1>2, <2>4, EnvironmentOneActive
  <2>5. CASE UNCHANGED vars
    BY <1>2, <2>5, SameRows DEF vars
  <2> QED BY <1>2, <2>1, <2>2, <2>3, <2>4, <2>5 DEF Next, HoldJob, Threads
<1> QED BY <1>1, <1>2, TypeCorrect, PTL DEF Spec
-----------------------------------------------------------------------------
(* While handlers and jobs take turns *)

TakeTurns == \A s, t \in Threads : s # t => work[s] = Idle \/ work[t] = Idle

\* What a thread has read still holds when it writes.
Fits(w) ==
    /\ w.at = "insert" =>
          /\ w.entry = Len(entries)
          /\ entries[w.entry].status = "joining"
          /\ Cardinality(ActiveOf(entries[w.entry].org)) < MaxActive
          /\ \A j \in ActiveOf(entries[w.entry].org) :
                entries[j].venue # entries[w.entry].venue
    /\ w.at = "convert" => entries[w.entry].status = "offered"
    /\ w.at = "close" => entries[w.entry].status \in Active /\ w.entry \notin w.batch
    /\ w.at = "offer" => w.entry \in NextWaiting(w.venue)
    /\ \A j \in w.batch : entries[j].status \in Active

StepsFit == \A t \in Threads : Fits(work[t])

EntriesBounded == Len(entries) <= MaxEntries

QuietInv == TakeTurns /\ StepsFit /\ EntriesBounded /\ OneRfpPerHold

\* What an action makes of the rows: row i has status s, the others stay.
Moved(i, s) ==
    /\ Ids' = Ids
    /\ \A j \in Ids :
          /\ entries'[j].org = entries[j].org
          /\ entries'[j].venue = entries[j].venue
          /\ entries'[j].status = IF j = i THEN s ELSE entries[j].status
          /\ j # i => entries'[j].rfps = entries[j].rfps

LEMMA IdleFits == Fits(Idle)
BY DEF Fits, Idle

\* One thread is at work, the others are idle.
LEMMA TurnsMove ==
    ASSUME TypeOK, TakeTurns, ~ Overlap, NEW t \in Threads, NEW w,
           MayStart(t) \/ work[t].at # "idle", Goto(t, w), Fits(w)'
    PROVE  TakeTurns' /\ StepsFit'
<1>1. work \in [Threads -> Work] /\ Idle.at = "idle"
  BY DEF TypeOK, Idle
<1>2. \A s \in Threads \ {t} : work[s] = Idle
  BY <1>1 DEF TakeTurns, MayStart
<1>3. work'[t] = w /\ \A s \in Threads \ {t} : work'[s] = Idle
  BY <1>1, <1>2 DEF Goto
<1>4. TakeTurns'
  BY <1>3 DEF TakeTurns
<1>5. ASSUME NEW s \in Threads PROVE Fits(work[s])'
  <2>1. CASE s = t
    BY <1>3, <2>1 DEF Fits
  <2>2. CASE s # t
    BY <1>3, <2>2 DEF Fits, Idle
  <2> QED BY <2>1, <2>2
<1> QED BY <1>4, <1>5 DEF StepsFit
LEMMA StatusMoves ==
    ASSUME TypeOK, NEW i \in Ids, NEW s,
           entries' = [entries EXCEPT ![i].status = s]
    PROVE  /\ Moved(i, s)
           /\ entries'[i].rfps = entries[i].rfps
           /\ Len(entries') = Len(entries)
<1> DEFINE row == [entries[i] EXCEPT !.status = s]
<1>1. entries \in Seq(Row) /\ \A j \in Ids : entries[j] \in Row
  BY RowOf DEF TypeOK
<1>2. /\ row.org = entries[i].org /\ row.venue = entries[i].venue
      /\ row.status = s /\ row.rfps = entries[i].rfps
  BY <1>1 DEF Row
<1>3. entries' = [entries EXCEPT ![i] = row]
  OBVIOUS
<1> HIDE DEF row
<1>4. /\ Ids' = Ids /\ Len(entries') = Len(entries)
      /\ \A j \in Ids : entries'[j] = IF j = i THEN row ELSE entries[j]
  BY <1>1, <1>3 DEF Ids
<1> QED BY <1>2, <1>4 DEF Moved

LEMMA RfpsMove ==
    ASSUME OneRfpPerHold, NEW i \in Ids, NEW s, Moved(i, s), s # "converted",
           entries[i].status # "converted", entries'[i].rfps = entries[i].rfps
    PROVE  OneRfpPerHold'
<1>1. \A j \in Ids : entries[j].rfps = IF entries[j].status = "converted" THEN 1 ELSE 0
  BY DEF OneRfpPerHold
<1>2. \A j \in Ids : entries'[j].rfps = IF entries'[j].status = "converted" THEN 1 ELSE 0
  BY <1>1 DEF Moved
<1> QED BY <1>2 DEF OneRfpPerHold, Moved

LEMMA ContinueFits ==
    ASSUME TypeOK, NEW t \in Threads, Continue(t),
           \A j \in work[t].batch : entries'[j].status \in Active
    PROVE  \E w : Goto(t, w) /\ Fits(w)'
<1>1. CASE work[t].batch # {}
  <2>1. PICK i \in work[t].batch :
          Goto(t, ClosingStep(i, work[t].to, work[t].passOn,
                              work[t].batch \ {i}))
    BY <1>1 DEF Continue
  <2>2. PICK w : w = ClosingStep(i, work[t].to, work[t].passOn,
                                 work[t].batch \ {i})
    OBVIOUS
  <2>3. w.at = "close" /\ w.entry = i /\ w.batch = work[t].batch \ {i}
    BY <2>2 DEF ClosingStep, Idle
  <2>4. Fits(w)'
    BY <2>3 DEF Fits, Active
  <2> QED BY <2>1, <2>2, <2>4
<1>2. CASE work[t].batch = {}
  <2>1. PICK w : w = IF t = "breakerExpiry"
                     THEN [Idle EXCEPT !.at = "reset", !.venue = work[t].venue]
                     ELSE Idle
    OBVIOUS
  <2>2. Goto(t, w)
    BY <1>2, <2>1 DEF Continue
  <2>3. w.at \in {"idle", "reset"} /\ w.batch = {}
    BY <2>1 DEF Idle
  <2>4. Fits(w)'
    BY <2>3 DEF Fits
  <2> QED BY <2>2, <2>4
<1> QED BY <1>1, <1>2

-----------------------------------------------------------------------------
(* What the steps of a thread do to the rows *)

LEMMA InsertMoves ==
    ASSUME TypeOK, StepsFit, NEW t \in Threads, Insert(t)
    PROVE  /\ Moved(work[t].entry, "waiting")
           /\ entries'[work[t].entry].rfps = entries[work[t].entry].rfps
           /\ Len(entries') = Len(entries)
           /\ Goto(t, Idle) /\ ~ IndexRefuses(work[t].entry)
<1> DEFINE i == work[t].entry
<1>1. /\ work[t].at = "insert" /\ i \in Ids
  BY DEF Insert, TypeOK, Ready
<1>2. \A j \in ActiveOf(entries[i].org) : entries[j].venue # entries[i].venue
  BY <1>1 DEF StepsFit, Fits
<1>3. ~ IndexRefuses(i)
  BY <1>2 DEF IndexRefuses, ActiveOf
<1>4. entries' = [entries EXCEPT ![i].status = "waiting"] /\ Goto(t, Idle)
  BY <1>3 DEF Insert
<1> QED BY <1>1, <1>3, <1>4, StatusMoves

LEMMA ConvertedMoves ==
    ASSUME TypeOK, StepsFit, NEW t \in Threads, Converted(t)
    PROVE  /\ Moved(work[t].entry, "converted")
           /\ entries'[work[t].entry].rfps = entries[work[t].entry].rfps + 1
           /\ Len(entries') = Len(entries)
           /\ Goto(t, Idle)
           /\ work[t].entry \in Ids
           /\ entries[work[t].entry].status = "offered"
<1> DEFINE i == work[t].entry
           row == [entries[i] EXCEPT !.status = "converted", !.rfps = @ + 1]
<1>1. /\ work[t].at = "convert" /\ i \in Ids
  BY DEF Converted, TypeOK, Ready
<1>2. entries \in Seq(Row) /\ entries[i] \in Row
  BY <1>1, RowOf DEF TypeOK
<1>3. entries' = [entries EXCEPT ![i] = row] /\ Goto(t, Idle)
  BY DEF Converted
<1>4. /\ row.org = entries[i].org /\ row.venue = entries[i].venue
      /\ row.status = "converted" /\ row.rfps = entries[i].rfps + 1
  BY <1>2 DEF Row
<1>5. entries[i].status = "offered"
  BY <1>1 DEF StepsFit, Fits
<1> HIDE DEF row
<1>6. /\ Ids' = Ids /\ Len(entries') = Len(entries)
      /\ \A j \in Ids : entries'[j] = IF j = i THEN row ELSE entries[j]
  BY <1>1, <1>2, <1>3 DEF Ids
<1> QED BY <1>1, <1>3, <1>4, <1>5, <1>6 DEF Moved

LEMMA CloseMoves ==
    ASSUME TypeOK, StepsFit, NEW t \in Threads, Close(t)
    PROVE  /\ Moved(work[t].entry, work[t].to)
           /\ work[t].to \in {"expired", "cancelled"}
           /\ entries'[work[t].entry].rfps = entries[work[t].entry].rfps
           /\ Len(entries') = Len(entries)
           /\ work[t].entry \in Ids
           /\ entries[work[t].entry].status \in Active
<1> DEFINE i == work[t].entry
<1>1. /\ work[t].at = "close" /\ i \in Ids /\ work[t].to \in {"expired", "cancelled"}
  BY DEF Close, TypeOK, Ready, Work
<1>2. entries' = [entries EXCEPT ![i].status = work[t].to]
  BY DEF Close
<1>3. entries[i].status \in Active
  BY <1>1 DEF StepsFit, Fits
<1> HIDE DEF i
<1>4. /\ Moved(i, work[t].to)
      /\ entries'[i].rfps = entries[i].rfps
      /\ Len(entries') = Len(entries)
  BY <1>1, <1>2, StatusMoves
<1> QED BY <1>1, <1>3, <1>4 DEF i

\* The index refuses no offer: who is in the queue is not in it twice.
LEMMA OfferMoves ==
    ASSUME TypeOK, StepsFit, OneActivePerVenue, NEW t \in Threads, OfferHold(t)
    PROVE  /\ Moved(work[t].entry, "offered")
           /\ entries'[work[t].entry].rfps = entries[work[t].entry].rfps
           /\ Len(entries') = Len(entries)
           /\ Continue(t)
           /\ work[t].entry \in NextWaiting(work[t].venue)
<1> DEFINE i == work[t].entry
           row == [entries[i] EXCEPT !.status = "offered", !.hold = "running"]
<1>1. work[t].at = "offer"
  BY DEF OfferHold
<1>2. i \in NextWaiting(work[t].venue)
  BY <1>1 DEF StepsFit, Fits
<1>3. i \in Ids /\ entries[i].status = "waiting"
  BY <1>2 DEF NextWaiting, Waiting
<1>4. ~ IndexRefuses(i)
  BY <1>3 DEF IndexRefuses, OneActivePerVenue, Active
<1>5. entries \in Seq(Row) /\ entries[i] \in Row
  BY <1>3, RowOf DEF TypeOK
<1>6. entries' = [entries EXCEPT ![i] = row] /\ Continue(t)
  BY <1>4 DEF OfferHold
<1>7. /\ row.org = entries[i].org /\ row.venue = entries[i].venue
      /\ row.status = "offered" /\ row.rfps = entries[i].rfps
  BY <1>5 DEF Row
<1> HIDE DEF row
<1>8. /\ Ids' = Ids /\ Len(entries') = Len(entries)
      /\ \A j \in Ids : entries'[j] = IF j = i THEN row ELSE entries[j]
  BY <1>3, <1>5, <1>6 DEF Ids
<1> QED BY <1>2, <1>6, <1>7, <1>8 DEF Moved
-----------------------------------------------------------------------------
(* Each step keeps what its thread and the others have read *)

LEMMA QuietStep ==
    ASSUME TypeOK, OneActivePerVenue, QuietInv, ~ Overlap,
           NEW t \in Threads, Step(t)
    PROVE  QuietInv'
<1> DEFINE i == work[t].entry
<1>1. TakeTurns /\ StepsFit /\ EntriesBounded /\ OneRfpPerHold
  BY DEF QuietInv
<1>2. work[t].batch \subseteq Ids /\ \A j \in work[t].batch : entries[j].status \in Active
  BY <1>1 DEF StepsFit, Fits, TypeOK, Work
<1>3. Fits(Idle)'
  BY DEF Fits, Idle
<1>4. ASSUME NEW w, Goto(t, w), Fits(w)', work[t].at # "idle",
             Len(entries') = Len(entries), OneRfpPerHold'
      PROVE  QuietInv'
  BY <1>1, <1>4, TurnsMove DEF QuietInv, EntriesBounded
<1>5. CASE Insert(t)
  <2>1. /\ Moved(i, "waiting") /\ entries'[i].rfps = entries[i].rfps
        /\ Len(entries') = Len(entries) /\ Goto(t, Idle)
    BY <1>1, <1>5, InsertMoves
  <2>2. work[t].at = "insert" /\ i \in Ids /\ entries[i].status = "joining"
    BY <1>1, <1>5 DEF Insert, TypeOK, Ready, StepsFit, Fits
  <2> HIDE DEF i
  <2>3. OneRfpPerHold'
    BY <1>1, <2>1, <2>2, RfpsMove
  <2> QED BY <1>3, <1>4, <2>1, <2>2, <2>3
<1>6. CASE Converted(t)
  <2>1. /\ Moved(i, "converted") /\ entries'[i].rfps = entries[i].rfps + 1
        /\ Len(entries') = Len(entries) /\ Goto(t, Idle)
        /\ i \in Ids /\ entries[i].status = "offered"
    BY <1>1, <1>6, ConvertedMoves
  <2> HIDE DEF i
  <2>2. \A j \in Ids : entries[j].rfps = IF entries[j].status = "converted" THEN 1 ELSE 0
    BY <1>1 DEF OneRfpPerHold
  <2>3. \A j \in Ids : entries'[j].rfps = IF entries'[j].status = "converted" THEN 1 ELSE 0
    BY <2>1, <2>2 DEF Moved
  <2>4. OneRfpPerHold'
    BY <2>1, <2>3 DEF OneRfpPerHold, Moved
  <2> QED BY <1>3, <1>4, <1>6, <2>1, <2>4 DEF Converted
<1>7. CASE Close(t)
  <2>1. /\ Moved(i, work[t].to) /\ work[t].to \in {"expired", "cancelled"}
        /\ entries'[i].rfps = entries[i].rfps
        /\ Len(entries') = Len(entries) /\ i \in Ids
        /\ entries[i].status \in Active
    BY <1>1, <1>7, CloseMoves
  <2>2. work[t].at = "close" /\ i \notin work[t].batch
    BY <1>1, <1>7 DEF Close, StepsFit, Fits
  <2> HIDE DEF i
  <2>3. OneRfpPerHold'
    BY <1>1, <2>1, RfpsMove DEF Active
  <2>4. \A j \in work[t].batch : entries'[j].status \in Active
    BY <1>2, <2>1, <2>2 DEF Moved
  <2>5. CASE work[t].passOn
    <3>1. PICK w : w = [work[t] EXCEPT !.at = "pick"]
      OBVIOUS
    <3>2. w.at = "pick" /\ w.batch = work[t].batch
      BY <3>1 DEF TypeOK, Work
    <3>3. Fits(w)'
      BY <2>4, <3>2 DEF Fits, Active
    <3> QED BY <1>4, <1>7, <2>1, <2>2, <2>3, <2>5, <3>1, <3>3 DEF Close
  <2>6. CASE ~ work[t].passOn
    <3>1. PICK w : Goto(t, w) /\ Fits(w)'
      BY <1>7, <2>4, <2>6, ContinueFits DEF Close
    <3> QED BY <1>4, <2>1, <2>2, <2>3, <3>1
  <2> QED BY <2>5, <2>6
<1>8. CASE Pick(t)
  <2>1. work[t].at = "pick" /\ UNCHANGED entries
    BY <1>8 DEF Pick
  <2>2. OneRfpPerHold' /\ Len(entries') = Len(entries)
    BY <1>1, <2>1 DEF OneRfpPerHold, Ids
  <2>3. \A j \in work[t].batch : entries'[j].status \in Active
    BY <1>2, <2>1
  <2>4. CASE Continue(t)
    <3>1. PICK w : Goto(t, w) /\ Fits(w)'
      BY <2>3, <2>4, ContinueFits
    <3> QED BY <1>4, <2>1, <2>2, <3>1
  <2>5. ASSUME NEW k \in NextWaiting(work[t].venue),
               Goto(t, [work[t] EXCEPT !.at = "offer", !.entry = k])
        PROVE  QuietInv'
    <3>1. PICK w : w = [work[t] EXCEPT !.at = "offer", !.entry = k]
      OBVIOUS
    <3>2. /\ w.at = "offer" /\ w.entry = k
          /\ w.venue = work[t].venue /\ w.batch = work[t].batch
      BY <3>1 DEF TypeOK, Work
    <3>3. k \in NextWaiting(w.venue)'
      BY <2>1, <2>5, <3>2 DEF NextWaiting, Waiting, Ids
    <3>4. Fits(w)'
      BY <2>3, <3>2, <3>3 DEF Fits, Active
    <3> QED BY <1>4, <2>1, <2>2, <2>5, <3>1, <3>4
  <2> QED BY <1>8, <2>4, <2>5 DEF Pick
<1>9. CASE OfferHold(t)
  <2>1. /\ Moved(i, "offered") /\ entries'[i].rfps = entries[i].rfps
        /\ Len(entries') = Len(entries) /\ Continue(t)
        /\ i \in NextWaiting(work[t].venue)
    BY <1>1, <1>9, OfferMoves
  <2>2. i \in Ids /\ entries[i].status = "waiting"
    BY <2>1 DEF NextWaiting, Waiting
  <2> HIDE DEF i
  <2>3. OneRfpPerHold'
    BY <1>1, <2>1, <2>2, RfpsMove
  <2>4. \A j \in work[t].batch : entries'[j].status \in Active
    BY <1>2, <2>1 DEF Moved, Active
  <2>5. PICK w : Goto(t, w) /\ Fits(w)'
    BY <2>1, <2>4, ContinueFits
  <2> QED BY <1>4, <1>9, <2>1, <2>3, <2>5 DEF OfferHold
<1> QED BY <1>5, <1>6, <1>7, <1>8, <1>9 DEF Step

\* A thread starts while all are idle.
LEMMA QuietStart ==
    ASSUME TypeOK, QuietInv, ~ Overlap, NEW t, MayStart(t), NEW w,
           Goto(t, w), Fits(w)', UNCHANGED entries
    PROVE  QuietInv'
<1>1. t \in Threads
  BY DEF MayStart
<1>2. OneRfpPerHold' /\ EntriesBounded'
  BY DEF QuietInv, OneRfpPerHold, EntriesBounded, Ids
<1> QED BY <1>1, <1>2, TurnsMove DEF QuietInv

LEMMA ClosingFits ==
    ASSUME UNCHANGED entries, NEW ids, NEW i \in ids, NEW status, NEW passOn,
           \A j \in ids : entries[j].status \in Active,
           NEW w, w = ClosingStep(i, status, passOn, ids \ {i})
    PROVE  Fits(w)'
<1>1. w.at = "close" /\ w.entry = i /\ w.batch = ids \ {i}
  BY DEF ClosingStep, Idle
<1> QED BY <1>1 DEF Fits, Active

LEMMA QuietClosing ==
    ASSUME TypeOK, QuietInv, ~ Overlap, NEW t, NEW ids, NEW status, NEW passOn,
           \A j \in ids : entries[j].status \in Active,
           StartClosing(t, ids, status, passOn)
    PROVE  QuietInv'
<1>1. PICK i \in ids : Goto(t, ClosingStep(i, status, passOn, ids \ {i}))
  BY DEF StartClosing
<1>2. PICK w : w = ClosingStep(i, status, passOn, ids \ {i})
  OBVIOUS
<1>3. UNCHANGED entries /\ MayStart(t)
  BY DEF StartClosing
<1>4. Fits(w)'
  BY <1>2, <1>3, ClosingFits
<1> QED BY <1>1, <1>2, <1>3, <1>4, QuietStart

LEMMA QuietJoin ==
    ASSUME TypeOK, QuietInv, ~ Overlap, NEW r \in Requests, NEW o, NEW v,
           Join(r, o, v)
    PROVE  QuietInv'
<1> DEFINE new == Len(entries) + 1
           row == [org |-> o, venue |-> v, status |-> "joining",
                   hold |-> "none", rfps |-> 0]
<1>1. entries \in Seq(Row) /\ entries' = Append(entries, row)
  BY DEF TypeOK, Join
<1>2. /\ Ids' = Ids \cup {new}
      /\ entries'[new] = row /\ new \notin Ids
      /\ Len(entries') = new /\ new \in Nat
      /\ \A i \in Ids : entries'[i] = entries[i]
  BY <1>1 DEF Ids
<1>3. /\ Cardinality(ActiveOf(o)) < MaxActive
      /\ \A i \in ActiveOf(o) : entries[i].venue # v
      /\ Len(entries) < MaxEntries /\ MayStart(r)
  BY DEF Join
<1>4. row.status = "joining" /\ row.org = o /\ row.venue = v /\ row.rfps = 0
  OBVIOUS
<1>5. PICK w : w = [Idle EXCEPT !.at = "insert", !.entry = Len(entries) + 1]
  OBVIOUS
<1>6. w.at = "insert" /\ w.entry = new /\ w.batch = {} /\ Goto(r, w)
  BY <1>5 DEF Idle, Join
<1>7. ActiveOf(o)' = ActiveOf(o)
  <2> HIDE DEF new, row
  <2> QED BY <1>2, <1>4 DEF ActiveOf, Active
<1>8. EntriesBounded'
  BY <1>1, <1>2, <1>3, LimitsAssumption DEF EntriesBounded
<1> HIDE DEF new, row
<1>9. Fits(w)'
  <2>1. entries'[w.entry].org = o /\ entries'[w.entry].venue = v
    BY <1>2, <1>4, <1>6
  <2>2. Cardinality(ActiveOf(entries[w.entry].org))' < MaxActive
    BY <1>3, <1>7, <2>1 DEF ActiveOf
  <2>3. (\A j \in ActiveOf(entries[w.entry].org) :
            entries[j].venue # entries[w.entry].venue)'
    BY <1>2, <1>3, <1>7, <2>1 DEF ActiveOf
  <2> QED BY <1>2, <1>4, <1>6, <2>2, <2>3 DEF Fits
<1>10. OneRfpPerHold'
  BY <1>2, <1>4 DEF OneRfpPerHold, QuietInv
<1>11. r \in Threads /\ TakeTurns
  BY <1>3 DEF MayStart, QuietInv
<1> QED BY <1>3, <1>6, <1>8, <1>9, <1>10, <1>11, TurnsMove DEF QuietInv

LEMMA QuietRequest ==
    ASSUME TypeOK, QuietInv, ~ Overlap, NEW r \in Requests, Request(r)
    PROVE  QuietInv'
<1> USE DEF QuietInv
<1>0. r \in Threads /\ work \in [Threads -> Work]
  BY DEF Threads, TypeOK
<1>1. PICK idle : idle = Idle
  OBVIOUS
<1>2. Fits(idle)'
  BY <1>1 DEF Fits, Idle
<1>3. ASSUME NEW v \in Venues, NEW o \in Orgs, Join(r, o, v) PROVE QuietInv'
  BY <1>3, QuietJoin
<1>4. ASSUME NEW v \in Venues, NEW level \in Levels, SetAvailability(r, v, level)
      PROVE  QuietInv'
  <2>1. PICK w : w = CascadeStep(v)
    OBVIOUS
  <2>2. Fits(w)'
    BY <2>1 DEF Fits, CascadeStep, Idle
  <2> QED BY <1>1, <1>2, <1>4, <2>1, <2>2, QuietStart DEF SetAvailability
<1>5. ASSUME NEW v \in Venues, NEW level \in Levels, ClearOverride(r, v, level)
      PROVE  QuietInv'
  <2>1. MayStart(r) /\ UNCHANGED <<entries, work>> /\ work[r] = idle
    BY <1>1, <1>5 DEF ClearOverride, MayStart
  <2>2. Goto(r, idle)
    BY <1>0, <2>1 DEF Goto
  <2> QED BY <1>2, <2>1, <2>2, QuietStart
<1>6. ASSUME NEW v \in Venues, ResolveCircuitBreaker(r, v) PROVE QuietInv'
  <2>1. PICK w : w = CascadeStep(v)
    OBVIOUS
  <2>2. Fits(w)'
    BY <2>1 DEF Fits, CascadeStep, Idle
  <2> QED BY <1>6, <2>1, <2>2, QuietStart DEF ResolveCircuitBreaker
<1>7. ASSUME NEW i \in Ids, Convert(r, i) PROVE QuietInv'
  <2>1. PICK w : w = [Idle EXCEPT !.at = "convert", !.entry = i]
    OBVIOUS
  <2>2. w.at = "convert" /\ w.entry = i /\ w.batch = {}
    BY <2>1 DEF Idle
  <2>3. entries'[i].status = "offered" /\ MayStart(r) /\ UNCHANGED entries
        /\ Goto(r, w)
    BY <1>7, <2>1 DEF Convert
  <2>4. Fits(w)'
    BY <2>2, <2>3 DEF Fits
  <2> QED BY <2>3, <2>4, QuietStart
<1>8. ASSUME NEW i \in Ids, Cancel(r, i) PROVE QuietInv'
  <2>1. PICK graphql \in BOOLEAN :
          Goto(r, ClosingStep(i, "cancelled",
                              graphql \/ entries[i].status = "offered", {}))
    BY <1>8 DEF Cancel
  <2>2. PICK w : w = ClosingStep(i, "cancelled",
                                 graphql \/ entries[i].status = "offered", {})
    OBVIOUS
  <2>3. w.at = "close" /\ w.entry = i /\ w.batch = {}
    BY <2>2 DEF ClosingStep, Idle
  <2>4. UNCHANGED entries /\ MayStart(r) /\ entries[i].status \in Active
    BY <1>8 DEF Cancel
  <2>5. Fits(w)'
    BY <2>3, <2>4 DEF Fits, Active
  <2> QED BY <2>1, <2>2, <2>4, <2>5, QuietStart
<1> QED BY <1>3, <1>4, <1>5, <1>6, <1>7, <1>8 DEF Request
LEMMA QuietJobs ==
    ASSUME TypeOK, QuietInv, ~ Overlap, ProcessHoldExpiry \/ OtherJobs
    PROVE  QuietInv'
<1>1. PICK idle : idle = Idle
  OBVIOUS
<1>2. Fits(idle)'
  BY <1>1 DEF Fits, Idle
<1>3. CASE ProcessHoldExpiry
  <2> DEFINE ids == {i \in Ids : /\ entries[i].status = "offered"
                                 /\ entries[i].hold = "over"}
  <2>1. /\ StartClosing("holdExpiry", ids, "expired", TRUE)
        /\ \A j \in ids : entries[j].status \in Active
    BY <1>3 DEF ProcessHoldExpiry, Active
  <2>2. PICK S : S = ids
    OBVIOUS
  <2> QED BY <2>1, <2>2, QuietClosing
<1>4. ASSUME NEW due \in SUBSET Ids, ProcessAutoExpiry(due) PROVE QuietInv'
  <2>1. /\ StartClosing("autoExpiry", due, "expired", FALSE)
        /\ \A j \in due : entries[j].status \in Active
    BY <1>4 DEF ProcessAutoExpiry, Active
  <2> QED BY <2>1, QuietClosing
<1>5. ASSUME NEW v \in Venues, ProcessCircuitBreakerExpiry(v) PROVE QuietInv'
  <2>1. MayStart("breakerExpiry") /\ UNCHANGED entries
    BY <1>5 DEF ProcessCircuitBreakerExpiry
  <2>2. CASE Waiting(v) = {}
    <3>1. PICK w : w = [Idle EXCEPT !.at = "reset", !.venue = v]
      OBVIOUS
    <3>2. w.at = "reset" /\ w.batch = {}
      BY <3>1 DEF Idle
    <3>3. Fits(w)'
      BY <3>2 DEF Fits
    <3> QED BY <1>5, <2>1, <2>2, <3>1, <3>3, QuietStart
            DEF ProcessCircuitBreakerExpiry
  <2>3. ASSUME NEW i \in Waiting(v),
               Goto("breakerExpiry",
                    ClosingStep(i, "cancelled", FALSE, Waiting(v) \ {i}))
        PROVE  QuietInv'
    <3>1. PICK S : S = Waiting(v)
      OBVIOUS
    <3>2. PICK w : w = ClosingStep(i, "cancelled", FALSE, S \ {i})
      OBVIOUS
    <3>3. \A j \in S : entries[j].status \in Active
      BY <3>1 DEF Waiting, Active
    <3>4. Fits(w)'
      BY <2>1, <2>3, <3>1, <3>2, <3>3, ClosingFits
    <3> QED BY <2>1, <2>3, <3>1, <3>2, <3>4, QuietStart
  <2> QED BY <1>5, <2>2, <2>3 DEF ProcessCircuitBreakerExpiry
<1>6. CASE ResetAvailability
  <2>1. /\ "breakerExpiry" \in Threads
        /\ work["breakerExpiry"].at # "idle"
        /\ Goto("breakerExpiry", idle) /\ UNCHANGED entries
    BY <1>1, <1>6 DEF ResetAvailability, Threads
  <2>2. OneRfpPerHold' /\ EntriesBounded' /\ TakeTurns
    BY <2>1 DEF QuietInv, OneRfpPerHold, EntriesBounded, Ids
  <2> QED BY <1>2, <2>1, <2>2, TurnsMove DEF QuietInv
<1>7. ASSUME NEW v \in Venues, NEW level \in Levels, RunInference(v, level)
      PROVE  QuietInv'
  <2>1. PICK w : w = CascadeStep(v)
    OBVIOUS
  <2>2. Fits(w)'
    BY <2>1 DEF Fits, CascadeStep, Idle
  <2> QED BY <1>1, <1>2, <1>7, <2>1, <2>2, QuietStart DEF RunInference
<1> QED BY <1>3, <1>4, <1>5, <1>6, <1>7 DEF OtherJobs

\* A lapse changes what no thread relies on, and a stop ends them all.
LEMMA QuietEnvironment ==
    ASSUME TypeOK, QuietInv, Environment PROVE QuietInv'
<1>1. entries \in Seq(Row) /\ \A j \in Ids : entries[j] \in Row
  BY RowOf DEF TypeOK
<1>2. TakeTurns /\ StepsFit /\ EntriesBounded /\ OneRfpPerHold
  BY DEF QuietInv
<1>3. ASSUME NEW i \in Ids, HoldLapses(i) PROVE QuietInv'
  <2> DEFINE row == [entries[i] EXCEPT !.hold = "over"]
  <2>1. entries' = [entries EXCEPT ![i] = row] /\ UNCHANGED work
    BY <1>3 DEF HoldLapses
  <2>2. /\ row.org = entries[i].org /\ row.venue = entries[i].venue
        /\ row.status = entries[i].status /\ row.rfps = entries[i].rfps
    BY <1>1 DEF Row
  <2> HIDE DEF row
  <2>3. /\ Ids' = Ids /\ Len(entries') = Len(entries)
        /\ \A j \in Ids : /\ entries'[j].org = entries[j].org
                          /\ entries'[j].venue = entries[j].venue
                          /\ entries'[j].status = entries[j].status
                          /\ entries'[j].rfps = entries[j].rfps
    BY <1>1, <2>1, <2>2 DEF Ids
  <2>4. ASSUME NEW o PROVE ActiveOf(o)' = ActiveOf(o)
    BY <2>3 DEF ActiveOf, Active
  <2>5. ASSUME NEW v PROVE NextWaiting(v)' = NextWaiting(v)
    BY <2>3 DEF NextWaiting, Waiting
  <2>6. ASSUME NEW t \in Threads PROVE Fits(work[t])'
    <3>1. work[t] \in Work /\ Ready(work[t]) /\ Fits(work[t])
      BY <1>2 DEF TypeOK, StepsFit
    <3>2. PICK w : w = work[t] /\ w = work'[t]
      BY <2>1
    <3>3. w \in Work /\ Ready(w) /\ Fits(w)
      BY <3>1, <3>2
    <3>4. Fits(w)'
      <4>1. ASSUME w.at = "insert"
            PROVE  /\ (w.entry = Len(entries))'
                   /\ (entries[w.entry].status = "joining")'
                   /\ (Cardinality(ActiveOf(entries[w.entry].org)) < MaxActive)'
                   /\ (\A j \in ActiveOf(entries[w.entry].org) :
                         entries[j].venue # entries[w.entry].venue)'
        <5>1. PICK o : o = entries[w.entry].org
          OBVIOUS
        <5>2. w.entry \in Ids
          BY <3>3, <4>1 DEF Ready
        <5>3. /\ w.entry = Len(entries) /\ entries[w.entry].status = "joining"
              /\ Cardinality(ActiveOf(o)) < MaxActive
              /\ \A j \in ActiveOf(o) : entries[j].venue # entries[w.entry].venue
          BY <3>3, <4>1, <5>1 DEF Fits
        <5>4. o = entries'[w.entry].org
          BY <2>3, <5>1, <5>2
        <5>5. \A j \in ActiveOf(o) : j \in Ids
          BY DEF ActiveOf
        <5>6. ActiveOf(entries[w.entry].org)' = ActiveOf(o)
          BY <2>4, <5>4 DEF ActiveOf
        <5> QED BY <2>3, <5>2, <5>3, <5>5, <5>6
      <4>2. w.at \in {"convert", "close"} => w.entry \in Ids
        BY <3>3 DEF Ready
      <4>3. w.batch \subseteq Ids
        BY <3>3 DEF Work
      <4>4. (w.at = "offer" => w.entry \in NextWaiting(w.venue))'
        <5>1. w.at = "offer" => w.entry \in NextWaiting(w.venue)
          BY <3>3 DEF Fits
        <5> QED BY <2>5, <5>1
      <4>5. (w.at = "convert" => entries[w.entry].status = "offered")'
        BY <2>3, <3>3, <4>2 DEF Fits
      <4>6. (w.at = "close" => entries[w.entry].status \in Active
                               /\ w.entry \notin w.batch)'
        BY <2>3, <3>3, <4>2 DEF Fits, Active
      <4>7. (\A j \in w.batch : entries[j].status \in Active)'
        BY <2>3, <3>3, <4>3 DEF Fits, Active
      <4> QED BY <4>1, <4>4, <4>5, <4>6, <4>7 DEF Fits
    <3> QED BY <3>2, <3>4 DEF Fits
  <2>7. OneRfpPerHold' /\ EntriesBounded' /\ TakeTurns'
    BY <1>2, <2>1, <2>3 DEF OneRfpPerHold, EntriesBounded, TakeTurns, Idle
  <2> QED BY <2>6, <2>7 DEF QuietInv, StepsFit
<1>4. CASE Crash
  <2>1. \A t \in Threads : work'[t] = Idle
    BY <1>4 DEF Crash
  <2>2. TakeTurns' /\ StepsFit'
    BY <2>1 DEF TakeTurns, StepsFit, Fits, Idle
  <2>3. /\ Ids' = Ids /\ Len(entries') = Len(entries)
        /\ \A j \in Ids : /\ entries'[j].rfps = entries[j].rfps
                          /\ entries'[j].status = "converted" <=>
                             entries[j].status = "converted"
    BY <1>1, <1>4 DEF Crash, Row, Ids
  <2>4. OneRfpPerHold' /\ EntriesBounded'
    BY <1>2, <2>3 DEF OneRfpPerHold, EntriesBounded
  <2> QED BY <2>2, <2>4 DEF QuietInv
<1> QED BY <1>3, <1>4 DEF Environment
LEMMA QuietNext ==
    ASSUME TypeOK, OneActivePerVenue, QuietInv, ~ Overlap, [Next]_vars
    PROVE  QuietInv'
<1>1. CASE UNCHANGED vars
  <2>1. QuietInv' <=> QuietInv
    BY <1>1 DEF vars, QuietInv, TakeTurns, StepsFit, Fits, EntriesBounded,
          OneRfpPerHold, Ids, ActiveOf, NextWaiting, Waiting, Idle, Active
  <2> QED BY <2>1
<1>2. ASSUME NEW r \in Requests, Request(r) PROVE QuietInv'
  BY <1>2, QuietRequest
<1>3. ASSUME NEW t \in Threads, Step(t) PROVE QuietInv'
  BY <1>3, QuietStep
<1>4. CASE ProcessHoldExpiry \/ OtherJobs
  BY <1>4, QuietJobs
<1>5. CASE Environment
  BY <1>5, QuietEnvironment
<1> QED BY <1>1, <1>2, <1>3, <1>4, <1>5 DEF Next, HoldJob, Threads

LEMMA InitQuiet == Init => QuietInv
<1> SUFFICES ASSUME Init PROVE QuietInv
  OBVIOUS
<1>1. Len(entries) = 0 /\ Ids = {}
  BY DEF Init, Ids
<1>2. EntriesBounded /\ OneRfpPerHold
  BY <1>1, LimitsAssumption DEF EntriesBounded, OneRfpPerHold
<1>3. \A t \in Threads : work[t] = Idle
  BY DEF Init
<1> QED BY <1>2, <1>3, IdleFits DEF QuietInv, TakeTurns, StepsFit

\* While handlers and jobs take turns, a hold becomes one RFP at most, and only
\* a row that became one is closed as converted, whatever stops the service:
\* what a thread has read still holds at its commit (convert_hold).
THEOREM HoldsBecomeOneRfp ==
    ASSUME "overlap" \notin Faults PROVE Spec => []OneRfpPerHold
<1>1. TypeOK /\ OneActivePerVenue /\ QuietInv /\ [Next]_vars => QuietInv'
  BY QuietNext DEF Overlap
<1>2. QuietInv => OneRfpPerHold
  BY DEF QuietInv
<1> QED BY InitQuiet, TypeCorrect, OneActive, <1>1, <1>2, PTL DEF Spec

-----------------------------------------------------------------------------
(* The rows are the queue that VenueQueue describes *)

LEMMA TicketParts ==
    ASSUME NEW i
    PROVE  /\ Ticket(i).org = entries[i].org
           /\ Ticket(i).venue = entries[i].venue
           /\ Ticket(i).turn = i
BY DEF Ticket

LEMMA InTickets ==
    ASSUME NEW S, NEW i
    PROVE  Ticket(i) \in TicketsIn(S) <=> i \in Ids /\ entries[i].status \in S
<1>1. ASSUME Ticket(i) \in TicketsIn(S) PROVE i \in Ids /\ entries[i].status \in S
  <2>1. PICK j \in Ids : entries[j].status \in S /\ Ticket(j) = Ticket(i)
    BY <1>1 DEF TicketsIn
  <2>2. j = i
    BY <2>1, TicketParts
  <2> QED BY <2>1, <2>2
<1> QED BY <1>1 DEF TicketsIn

\* A row that moves takes its ticket along, the others stay where they are.
LEMMA TicketsMove ==
    ASSUME NEW i \in Ids, NEW s, Moved(i, s), NEW S
    PROVE  TicketsIn(S)' = IF s \in S THEN TicketsIn(S) \cup {Ticket(i)}
                                      ELSE TicketsIn(S) \ {Ticket(i)}
<1>1. \A j \in Ids : Ticket(j)' = Ticket(j)
  BY DEF Moved, Ticket
<1>2. TicketsIn(S)' = {Ticket(j) : j \in {j \in Ids : entries'[j].status \in S}}
  BY <1>1 DEF TicketsIn, Moved
<1>3. \A j \in Ids : j # i => Ticket(j) # Ticket(i)
  BY TicketParts
<1>4. \A j \in Ids : entries'[j].status = IF j = i THEN s ELSE entries[j].status
  BY DEF Moved
<1> HIDE DEF Moved
<1>5. ASSUME s \in S
      PROVE  TicketsIn(S)' = TicketsIn(S) \cup {Ticket(i)}
  BY <1>2, <1>4, <1>5 DEF TicketsIn
<1>6. ASSUME s \notin S
      PROVE  TicketsIn(S)' = TicketsIn(S) \ {Ticket(i)}
  BY <1>2, <1>3, <1>4, <1>6 DEF TicketsIn
<1> QED BY <1>5, <1>6

\* Rows that keep their statuses, or move where no ticket is, change nothing.
LEMMA TicketsStay ==
    ASSUME NEW S,
           Ids \subseteq Ids', \A i \in Ids' \ Ids : entries'[i].status \notin S,
           \A i \in Ids : /\ entries'[i].org = entries[i].org
                          /\ entries'[i].venue = entries[i].venue
                          /\ entries'[i].status \in S <=> entries[i].status \in S
    PROVE  TicketsIn(S)' = TicketsIn(S)
<1>1. \A j \in Ids : Ticket(j)' = Ticket(j)
  BY DEF Ticket
<1>2. {i \in Ids' : entries'[i].status \in S} = {i \in Ids : entries[i].status \in S}
  OBVIOUS
<1> QED BY <1>1, <1>2 DEF TicketsIn

LEMMA ActiveTickets ==
    ASSUME TypeOK, NEW o
    PROVE  Cardinality(Queue!ActiveOf(o)) = Cardinality(ActiveOf(o))
<1> DEFINE S == ActiveOf(o)
           T == Queue!ActiveOf(o)
           f == [i \in S |-> Ticket(i)]
<1>1. T = {Ticket(i) : i \in S}
  <2>1. \A x : x \in T <=> /\ x.org = o
                           /\ x \in TicketsIn({"waiting"}) \cup TicketsIn({"offered"})
    BY DEF Queue!ActiveOf
  <2>2. ASSUME NEW i \in S PROVE Ticket(i) \in T
    <3>1. i \in Ids /\ entries[i].org = o /\ entries[i].status \in {"waiting", "offered"}
      BY DEF ActiveOf, Active
    <3> QED BY <2>1, <3>1, TicketParts, InTickets
  <2>3. ASSUME NEW x \in T PROVE \E i \in S : x = Ticket(i)
    <3>1. PICK i \in Ids : x = Ticket(i) /\ entries[i].status \in {"waiting", "offered"}
      BY <2>1 DEF TicketsIn
    <3>2. entries[i].org = o
      BY <2>1, <3>1, TicketParts
    <3> QED BY <3>1, <3>2 DEF ActiveOf, Active
  <2> HIDE DEF S, T
  <2> QED BY <2>2, <2>3
<1>2. IsFiniteSet(S)
  <2>1. entries \in Seq(Row)
    BY DEF TypeOK
  <2>2. IsFiniteSet(1..Len(entries)) /\ Ids = 1..Len(entries)
    BY <2>1, FS_Interval DEF Ids
  <2> QED BY <2>2, FS_Subset DEF ActiveOf
<1>3. \A i \in S, j \in S : Ticket(i) = Ticket(j) => i = j
  BY TicketParts
<1> HIDE DEF S, T
<1>4. f \in Bijection(S, T)
  BY <1>1, <1>3 DEF Bijection, Injection, Surjection, IsInjective
<1>5. ExistsBijection(S, T)
  BY <1>4 DEF ExistsBijection
<1> QED BY <1>2, <1>5, FS_Bijection DEF S, T
\* The queue counts as the waitlist does.
LEMMA SameCardinality == \A S : Queue!Cardinality(S) = Cardinality(S)
BY DEF Queue!Cardinality, Cardinality

LEMMA NoTicketMoves ==
    ASSUME \A S \in {{"waiting"}, {"offered"}, TerminalStatuses} :
               TicketsIn(S)' = TicketsIn(S)
    PROVE  UNCHANGED Queue!vars
<1>1. /\ TicketsIn({"waiting"})' = TicketsIn({"waiting"})
      /\ TicketsIn({"offered"})' = TicketsIn({"offered"})
      /\ TicketsIn(TerminalStatuses)' = TicketsIn(TerminalStatuses)
  BY DEF TerminalStatuses
<1> QED BY <1>1 DEF Queue!vars

LEMMA SameRowsSameTickets == ASSUME UNCHANGED entries PROVE UNCHANGED Queue!vars
BY DEF Queue!vars, TicketsIn, Ticket, Ids, TerminalStatuses

LEMMA InsertJoins ==
    ASSUME TypeOK, StepsFit, EntriesBounded, NEW t \in Threads, Insert(t)
    PROVE  Queue!Next
<1> DEFINE i == work[t].entry
           x == Ticket(i)
<1>1. work[t].at = "insert" /\ i \in Ids /\ Fits(work[t])
  BY DEF Insert, TypeOK, Ready, StepsFit
<1>2. /\ i = Len(entries) /\ entries[i].status = "joining"
      /\ Cardinality(ActiveOf(entries[i].org)) < MaxActive
      /\ \A j \in ActiveOf(entries[i].org) : entries[j].venue # entries[i].venue
  BY <1>1 DEF Fits
<1>3. Moved(i, "waiting")
  BY InsertMoves
<1>4. entries \in Seq(Row) /\ entries[i] \in Row /\ Ids = 1..Len(entries)
  BY <1>1, RowOf DEF TypeOK, Ids
<1>5. PICK y : y = x
  OBVIOUS
<1>6. y.org = entries[i].org /\ y.venue = entries[i].venue /\ y.turn = i
  BY <1>5, TicketParts
<1>7. y \in [org : Orgs, venue : Venues, turn : 1..MaxEntries]
  <2>1. i \in 1..MaxEntries
    BY <1>1, <1>2, <1>4, LimitsAssumption DEF EntriesBounded
  <2>2. y = [org |-> entries[i].org, venue |-> entries[i].venue, turn |-> i]
    BY <1>5 DEF Ticket
  <2> QED BY <1>4, <2>1, <2>2 DEF Row
<1> HIDE DEF i, x
<1>8. Cardinality(Queue!ActiveOf(y.org)) < MaxActive
  BY <1>2, <1>6, ActiveTickets
<1>9. ASSUME NEW z \in Queue!ActiveOf(y.org) PROVE z.venue # y.venue
  <2>1. /\ z \in TicketsIn({"waiting"}) \cup TicketsIn({"offered"})
        /\ z.org = entries[i].org
    BY <1>6, <1>9 DEF Queue!ActiveOf
  <2>2. PICK j \in Ids : z = Ticket(j) /\ entries[j].status \in {"waiting", "offered"}
    BY <2>1 DEF TicketsIn
  <2>3. j \in ActiveOf(entries[i].org)
    BY <2>1, <2>2, TicketParts DEF ActiveOf, Active
  <2> QED BY <1>2, <1>6, <2>2, <2>3, TicketParts
<1>10. ASSUME NEW z \in Queue!Issued PROVE z.turn < y.turn
  <2>1. PICK j \in Ids : z = Ticket(j) /\ entries[j].status # "joining"
    BY <1>10 DEF Queue!Issued, TicketsIn, TerminalStatuses
  <2>2. j # i /\ z.turn = j
    BY <1>2, <2>1, TicketParts
  <2> QED BY <1>2, <1>4, <1>6, <2>2
<1>11. /\ TicketsIn({"waiting"})' = TicketsIn({"waiting"}) \cup {y}
       /\ TicketsIn({"offered"})' = TicketsIn({"offered"})
       /\ TicketsIn(TerminalStatuses)' = TicketsIn(TerminalStatuses)
  <2>1. /\ Ticket(i) \notin TicketsIn({"offered"})
        /\ Ticket(i) \notin TicketsIn(TerminalStatuses)
    BY <1>2, InTickets DEF TerminalStatuses
  <2>2. /\ TicketsIn({"waiting"})' = TicketsIn({"waiting"}) \cup {Ticket(i)}
        /\ TicketsIn({"offered"})' = TicketsIn({"offered"}) \ {Ticket(i)}
    BY <1>1, <1>3, TicketsMove DEF i
  <2>3. PICK S : S = TerminalStatuses
    OBVIOUS
  <2>4. "waiting" \notin S
    BY <2>3 DEF TerminalStatuses
  <2>5. TicketsIn(S)' = TicketsIn(S) \ {Ticket(i)}
    BY <1>1, <1>3, <2>4, TicketsMove DEF i
  <2>6. TicketsIn(TerminalStatuses)' = TicketsIn(TerminalStatuses) \ {Ticket(i)}
    BY <2>3, <2>5 DEF TicketsIn, TerminalStatuses
  <2> QED BY <1>5, <2>1, <2>2, <2>6 DEF x
<1>12. Queue!Join(y)
  <2>1. \A z \in Queue!ActiveOf(y.org) : z.venue # y.venue
    BY <1>9
  <2>2. \A z \in Queue!Issued : z.venue = y.venue => z.turn < y.turn
    BY <1>10
  <2> QED BY <1>8, <2>1, <2>2, <1>11, SameCardinality DEF Queue!Join
<1> QED BY <1>7, <1>12 DEF Queue!Next

LEMMA ClosingCloses ==
    ASSUME NEW i \in Ids, entries[i].status \in Active,
           NEW s \in TerminalStatuses, Moved(i, s)
    PROVE  Queue!Next
<1>1. s \notin {"waiting"} /\ s \notin {"offered"}
  BY DEF TerminalStatuses
<1>2. /\ TicketsIn({"waiting"})' = TicketsIn({"waiting"}) \ {Ticket(i)}
      /\ TicketsIn({"offered"})' = TicketsIn({"offered"}) \ {Ticket(i)}
  BY <1>1, TicketsMove
<1>3. PICK S : S = TerminalStatuses
  OBVIOUS
<1>4. TicketsIn(S)' = TicketsIn(S) \cup {Ticket(i)}
  BY <1>3, TicketsMove
<1>5. TicketsIn(TerminalStatuses)' = TicketsIn(TerminalStatuses) \cup {Ticket(i)}
  BY <1>3, <1>4 DEF TicketsIn, TerminalStatuses
<1>6. PICK y : y = Ticket(i)
  OBVIOUS
<1>7. y \in TicketsIn({"waiting"}) \cup TicketsIn({"offered"})
  BY <1>6, InTickets DEF Active
<1>8. Queue!Close(y)
  BY <1>2, <1>5, <1>6 DEF Queue!Close
<1> QED BY <1>7, <1>8 DEF Queue!Next

LEMMA OfferOffers ==
    ASSUME NEW v, NEW i \in NextWaiting(v), Moved(i, "offered")
    PROVE  Queue!Next
<1>1. /\ i \in Ids /\ entries[i].status = "waiting" /\ entries[i].venue = v
      /\ \A j \in Waiting(v) : i <= j
  BY DEF NextWaiting, Waiting
<1>2. /\ TicketsIn({"waiting"})' = TicketsIn({"waiting"}) \ {Ticket(i)}
      /\ TicketsIn({"offered"})' = TicketsIn({"offered"}) \cup {Ticket(i)}
  BY <1>1, TicketsMove
<1>3. PICK S : S = TerminalStatuses
  OBVIOUS
<1>4. TicketsIn(S)' = TicketsIn(S) \ {Ticket(i)}
  BY <1>1, <1>3, TicketsMove DEF TerminalStatuses
<1>5. Ticket(i) \notin TicketsIn(S)
  BY <1>1, <1>3, InTickets DEF TerminalStatuses
<1>6. TicketsIn(TerminalStatuses)' = TicketsIn(TerminalStatuses)
  BY <1>3, <1>4, <1>5 DEF TicketsIn, TerminalStatuses
<1>7. PICK y : y = Ticket(i)
  OBVIOUS
<1>8. y \in TicketsIn({"waiting"})
  BY <1>1, <1>7, InTickets
<1>9. ASSUME NEW z \in TicketsIn({"waiting"}), z.venue = y.venue
      PROVE  y.turn <= z.turn
  <2>1. PICK j \in Ids : z = Ticket(j) /\ entries[j].status = "waiting"
    BY <1>9 DEF TicketsIn
  <2>2. j \in Waiting(v)
    BY <1>1, <1>7, <1>9, <2>1, TicketParts DEF Waiting
  <2> QED BY <1>1, <1>7, <2>1, <2>2, TicketParts
<1>10. Queue!Offer(y)
  BY <1>2, <1>6, <1>7, <1>8, <1>9 DEF Queue!Offer
<1> QED BY <1>8, <1>10 DEF Queue!Next

\* Each step of a thread is a step of the queue or changes no ticket.
LEMMA StepIsQueueStep ==
    ASSUME TypeOK, OneActivePerVenue, QuietInv, NEW t \in Threads, Step(t)
    PROVE  [Queue!Next]_(Queue!vars)
<1>1. StepsFit /\ EntriesBounded
  BY DEF QuietInv
<1>2. CASE Insert(t)
  BY <1>1, <1>2, InsertJoins
<1>3. CASE Converted(t)
  BY <1>1, <1>3, ConvertedMoves, ClosingCloses DEF Active, TerminalStatuses
<1>4. CASE Close(t)
  BY <1>1, <1>4, CloseMoves, ClosingCloses DEF TerminalStatuses
<1>5. CASE Pick(t)
  BY <1>5, SameRowsSameTickets DEF Pick
<1>6. CASE OfferHold(t)
  BY <1>1, <1>6, OfferMoves, OfferOffers
<1> QED BY <1>2, <1>3, <1>4, <1>5, <1>6 DEF Step

\* A join is not seen yet, and no ticket moves when a hold lapses or the
\* service stops.
LEMMA JoinIsUnseen ==
    ASSUME TypeOK, NEW r, NEW o, NEW v, Join(r, o, v)
    PROVE  UNCHANGED Queue!vars
<1> DEFINE new == Len(entries) + 1
           row == [org |-> o, venue |-> v, status |-> "joining",
                   hold |-> "none", rfps |-> 0]
<1>1. entries \in Seq(Row) /\ entries' = Append(entries, row)
  BY DEF TypeOK, Join
<1>2. /\ Ids' = Ids \cup {new}
      /\ entries'[new].status = "joining" /\ new \notin Ids
      /\ \A i \in Ids : entries'[i] = entries[i]
  BY <1>1 DEF Ids
<1> HIDE DEF new, row
<1>3. ASSUME NEW S \in {{"waiting"}, {"offered"}, {"converted", "expired", "cancelled"}}
      PROVE  TicketsIn(S)' = TicketsIn(S)
  <2>1. "joining" \notin S
    OBVIOUS
  <2> QED BY <1>2, <2>1, TicketsStay
<1> QED BY <1>3, NoTicketMoves DEF TerminalStatuses

LEMMA EnvironmentIsUnseen ==
    ASSUME TypeOK, Environment PROVE UNCHANGED Queue!vars
<1>1. entries \in Seq(Row) /\ \A j \in Ids : entries[j] \in Row
  BY RowOf DEF TypeOK
<1>2. /\ Ids' = Ids
      /\ \A j \in Ids : /\ entries'[j].org = entries[j].org
                        /\ entries'[j].venue = entries[j].venue
                        /\ entries'[j].status # entries[j].status =>
                           /\ entries[j].status = "joining"
                           /\ entries'[j].status = "absent"
  <2>1. CASE Crash
    BY <1>1, <2>1 DEF Crash, Row, Ids
  <2>2. ASSUME NEW i \in Ids, HoldLapses(i)
        PROVE  /\ Ids' = Ids
               /\ \A j \in Ids : /\ entries'[j].org = entries[j].org
                                 /\ entries'[j].venue = entries[j].venue
                                 /\ entries'[j].status = entries[j].status
    BY <1>1, <2>2 DEF HoldLapses, Row, Ids
  <2> QED BY <2>1, <2>2 DEF Environment
<1>3. ASSUME NEW S \in {{"waiting"}, {"offered"}, {"converted", "expired", "cancelled"}}
      PROVE  TicketsIn(S)' = TicketsIn(S)
  <2>1. "joining" \notin S /\ "absent" \notin S
    OBVIOUS
  <2> QED BY <1>2, <2>1, TicketsStay
<1> QED BY <1>3, NoTicketMoves DEF TerminalStatuses

\* While threads take turns each step of the waitlist is one of the queue.
LEMMA QueueStep ==
    ASSUME TypeOK, OneActivePerVenue, QuietInv, [Next]_vars
    PROVE  [Queue!Next]_(Queue!vars)
<1>1. ASSUME NEW r \in Requests, Request(r) PROVE UNCHANGED Queue!vars
  BY <1>1, JoinIsUnseen, SameRowsSameTickets
     DEF Request, SetAvailability, ClearOverride, ResolveCircuitBreaker,
         Convert, Cancel
<1>2. ASSUME NEW t \in Threads, Step(t) PROVE [Queue!Next]_(Queue!vars)
  BY <1>2, StepIsQueueStep
<1>3. CASE ProcessHoldExpiry \/ OtherJobs
  BY <1>3, SameRowsSameTickets
     DEF ProcessHoldExpiry, OtherJobs, ProcessAutoExpiry, StartClosing,
         ProcessCircuitBreakerExpiry, ResetAvailability, RunInference
<1>4. CASE Environment
  BY <1>4, EnvironmentIsUnseen
<1>5. CASE UNCHANGED vars
  BY <1>5, SameRowsSameTickets DEF vars
<1> QED BY <1>1, <1>2, <1>3, <1>4, <1>5 DEF Next, HoldJob, Threads

\* For every set of organisations and venues and every limit: while handlers
\* and jobs take turns, the waitlist is the first-come first-served queue of
\* VenueQueue, whatever stops the service (create_waitlist_entry,
\* trigger_cascade, cancel_entry and the jobs).
THEOREM WaitlistIsAQueue ==
    ASSUME "overlap" \notin Faults PROVE Spec => ImplementsQueue
<1>1. Init => Queue!Init
  BY DEF Init, Queue!Init, TicketsIn, Ids
<1>2. TypeOK /\ OneActivePerVenue /\ QuietInv /\ [Next]_vars => [Queue!Next]_(Queue!vars)
  BY QueueStep
<1>3. TypeOK /\ OneActivePerVenue /\ QuietInv /\ [Next]_vars => QuietInv'
  BY QuietNext DEF Overlap
<1> QED BY InitQuiet, TypeCorrect, OneActive, <1>1, <1>2, <1>3, PTL
        DEF Spec, ImplementsQueue, Queue!Spec
-----------------------------------------------------------------------------
(* What the queue promises holds of the waitlist *)

\* No organisation has more active entries than the limit of a join.
LimitKept == \A o \in Orgs : Cardinality(ActiveOf(o)) <= MaxActive

\* An entry that was converted, cancelled or has expired never comes back.
LeftForGood ==
    [][\A i \in Ids : entries[i].status \in TerminalStatuses =>
          i \in Ids' /\ entries'[i].status \in TerminalStatuses]_vars

LEMMA ActiveIsFinite ==
    ASSUME TypeOK, NEW o
    PROVE  /\ IsFiniteSet(Queue!ActiveOf(o))
           /\ Cardinality(Queue!ActiveOf(o)) = Cardinality(ActiveOf(o))
<1>1. /\ IsFiniteSet(TicketsIn({"waiting"})) /\ IsFiniteSet(TicketsIn({"offered"}))
  <2>1. ASSUME NEW S PROVE IsFiniteSet(TicketsIn(S))
    <3> DEFINE A == {i \in Ids : entries[i].status \in S}
               f == [i \in A |-> Ticket(i)]
    <3>1. IsFiniteSet(A)
      <4>1. entries \in Seq(Row)
        BY DEF TypeOK
      <4>2. IsFiniteSet(1..Len(entries)) /\ Ids = 1..Len(entries)
        BY <4>1, FS_Interval DEF Ids
      <4> QED BY <4>2, FS_Subset
    <3>2. TicketsIn(S) = {Ticket(i) : i \in A}
      BY DEF TicketsIn
    <3> HIDE DEF A
    <3>3. f \in Surjection(A, TicketsIn(S))
      BY <3>2 DEF Surjection
    <3> QED BY <3>1, <3>3, FS_Surjection
  <2> QED BY <2>1
<1>2. IsFiniteSet(TicketsIn({"waiting"}) \cup TicketsIn({"offered"}))
  BY <1>1, FS_Union
<1>3. Queue!ActiveOf(o) \subseteq TicketsIn({"waiting"}) \cup TicketsIn({"offered"})
  BY DEF Queue!ActiveOf
<1> QED BY <1>2, <1>3, FS_Subset, ActiveTickets

\* A step of the queue adds an active ticket only below the limit.
LEMMA QueueKeepsLimit ==
    ASSUME TypeOK, NEW o, Cardinality(Queue!ActiveOf(o)) <= MaxActive,
           [Queue!Next]_(Queue!vars)
    PROVE  Cardinality(Queue!ActiveOf(o)') <= MaxActive
<1> DEFINE A == Queue!ActiveOf(o)
<1>1. IsFiniteSet(A) /\ Cardinality(A) <= MaxActive /\ MaxActive \in Nat
  BY ActiveIsFinite, LimitsAssumption
<1>2. CASE Queue!ActiveOf(o)' \subseteq A
  <2>1. PICK B : B = Queue!ActiveOf(o)'
    OBVIOUS
  <2> HIDE DEF A
  <2>2. Cardinality(B) <= Cardinality(A) /\ Cardinality(A) \in Nat
        /\ Cardinality(B) \in Nat
    BY <1>1, <1>2, <2>1, FS_Subset, FS_CardinalityType
  <2> QED BY <1>1, <2>1, <2>2
<1>3. ASSUME NEW x, Queue!Join(x)
      PROVE  Cardinality(Queue!ActiveOf(o)') <= MaxActive
  <2>1. CASE x.org # o
    <3>1. Queue!ActiveOf(o)' \subseteq A
      BY <1>3, <2>1 DEF Queue!Join, Queue!ActiveOf
    <3> QED BY <1>2, <3>1
  <2>2. CASE x.org = o
    <3>1. Queue!ActiveOf(o)' = A \cup {x}
      BY <1>3, <2>2 DEF Queue!Join, Queue!ActiveOf
    <3>2. Cardinality(A) < MaxActive
      BY <1>3, <2>2, SameCardinality DEF Queue!Join
    <3> HIDE DEF A
    <3>3. /\ Cardinality(A \cup {x}) = IF x \in A THEN Cardinality(A) ELSE Cardinality(A) + 1
          /\ Cardinality(A) \in Nat
      BY <1>1, FS_AddElement, FS_CardinalityType
    <3> QED BY <1>1, <3>1, <3>2, <3>3
  <2> QED BY <2>1, <2>2
<1>4. ASSUME NEW x \in TicketsIn({"waiting"}), Queue!Offer(x)
      PROVE  Queue!ActiveOf(o)' \subseteq A
  BY <1>4 DEF Queue!Offer, Queue!ActiveOf
<1>5. ASSUME NEW x, Queue!Close(x)
      PROVE  Queue!ActiveOf(o)' \subseteq A
  BY <1>5 DEF Queue!Close, Queue!ActiveOf
<1>6. CASE UNCHANGED Queue!vars
  <2>1. Queue!ActiveOf(o)' \subseteq A
    BY <1>6 DEF Queue!vars, Queue!ActiveOf
  <2> QED BY <1>2, <2>1
<1> QED BY <1>2, <1>3, <1>4, <1>5, <1>6 DEF Queue!Next

CountsAgree ==
    \A o \in Orgs : Cardinality(Queue!ActiveOf(o)) = Cardinality(ActiveOf(o))

LEMMA LimitStep ==
    ASSUME TypeOK, CountsAgree, CountsAgree', LimitKept, [Queue!Next]_(Queue!vars)
    PROVE  LimitKept'
<1> SUFFICES ASSUME NEW o \in Orgs PROVE Cardinality(ActiveOf(o)') <= MaxActive
  BY DEF LimitKept
<1>1. Cardinality(Queue!ActiveOf(o)) <= MaxActive
  BY DEF LimitKept, CountsAgree
<1>2. Cardinality(Queue!ActiveOf(o)') <= MaxActive
  BY <1>1, QueueKeepsLimit
<1> QED BY <1>2 DEF CountsAgree

\* While handlers and jobs take turns no organisation has more active entries
\* than MAX_ACTIVE_WAITLIST_ENTRIES, although it is counted in one step and the
\* row is inserted in a later one (create_waitlist_entry).
THEOREM ActiveEntriesAreLimited ==
    ASSUME "overlap" \notin Faults PROVE Spec => []LimitKept
<1>1. Init => LimitKept
  <2> SUFFICES ASSUME Init, NEW o \in Orgs PROVE Cardinality(ActiveOf(o)) <= MaxActive
    BY DEF LimitKept
  <2>1. ActiveOf(o) = {}
    BY DEF Init, ActiveOf, Ids
  <2> QED BY <2>1, FS_EmptySet, LimitsAssumption
<1>2. TypeOK => CountsAgree
  BY ActiveIsFinite DEF CountsAgree
<1>3. /\ TypeOK /\ CountsAgree /\ CountsAgree' /\ OneActivePerVenue /\ QuietInv
      /\ LimitKept /\ [Next]_vars
      => LimitKept'
  BY QueueStep, LimitStep
<1>4. TypeOK /\ OneActivePerVenue /\ QuietInv /\ [Next]_vars => QuietInv'
  BY QuietNext DEF Overlap
<1> QED BY InitQuiet, TypeCorrect, OneActive, <1>1, <1>2, <1>3, <1>4, PTL DEF Spec

LEMMA ClosedStayClosed ==
    ASSUME [Queue!Next]_(Queue!vars), NEW i \in Ids,
           entries[i].status \in TerminalStatuses
    PROVE  i \in Ids' /\ entries'[i].status \in TerminalStatuses
<1>1. PICK x : x = Ticket(i)
  OBVIOUS
<1>2. x \in TicketsIn(TerminalStatuses) /\ x.turn = i
  BY <1>1, InTickets, TicketParts
<1>3. x \in TicketsIn(TerminalStatuses)'
  BY <1>2 DEF Queue!Next, Queue!Join, Queue!Offer, Queue!Close, Queue!vars
<1>4. PICK j \in Ids' : x = Ticket(j)' /\ entries'[j].status \in TerminalStatuses
  BY <1>3 DEF TicketsIn, TerminalStatuses
<1>5. Ticket(j)'.turn = j
  BY DEF Ticket
<1> QED BY <1>2, <1>4, <1>5

\* While handlers and jobs take turns an entry that has left the queue never
\* comes back: neither a cascade nor a conversion that is under way writes to a
\* row that was cancelled or has expired meanwhile (offer_hold, convert_hold).
THEOREM WhoLeftStaysAway ==
    ASSUME "overlap" \notin Faults PROVE Spec => LeftForGood
<1> DEFINE NoReturn ==
             \A i \in Ids : entries[i].status \in TerminalStatuses =>
                i \in Ids' /\ entries'[i].status \in TerminalStatuses
<1>1. TypeOK /\ OneActivePerVenue /\ QuietInv /\ [Next]_vars => [NoReturn]_vars
  BY QueueStep, ClosedStayClosed
<1>2. TypeOK /\ OneActivePerVenue /\ QuietInv /\ [Next]_vars => QuietInv'
  BY QuietNext DEF Overlap
<1>3. Spec => [][NoReturn]_vars
  BY InitQuiet, TypeCorrect, OneActive, <1>1, <1>2, PTL DEF Spec
<1> QED BY <1>3 DEF LeftForGood
=============================================================================
