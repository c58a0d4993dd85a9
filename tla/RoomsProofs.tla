----------------------------- MODULE RoomsProofs -----------------------------
(****************************************************************************)
(* Theorems about the rooms of the real-time service, for every number of   *)
(* people, rooms, instances and handlers: huddles first, then breakout      *)
(* rooms, then the queues of expo booths.                                   *)
(****************************************************************************)
EXTENDS Huddles, BreakoutRooms, ExpoBooth, FiniteSetTheorems, TLAPS

-----------------------------------------------------------------------------
(***************************************************************************)
(* Theorems about Huddles for every number of people, messages, places,    *)
(* retries and restarts: the version of the row is enough to keep the      *)
(* huddle from overfilling, and a huddle with enough people is noticed.    *)
(***************************************************************************)

\* Before it is created nobody takes part and no handler works on it.
NothingBeforeCreation ==
    huddle.status = "none" =>
        /\ \A p \in People : standing[p] = "none"
        /\ \A m \in HuddleMessages : handling[m].at = "idle"

\* A version that was read is not ahead of the row; while the row still has
\* it, nobody has accepted since the participants were counted.
FreshClaim(m) ==
    /\ handling[m].at \in {"count", "claim"} =>
           handling[m].version <= huddle.version
    /\ handling[m].at = "claim" /\ handling[m].version = huddle.version =>
           Cardinality(Accepted) < MaxParticipants

ClaimsAreFresh == \A m \in HuddleMessages : FreshClaim(m)

\* No status turns into FORMING: who finds the huddle forming read it so.
FormingWasRead ==
    \A m \in HuddleMessages :
        handling[m].at = "enough?" /\ huddle.status = "FORMING" =>
            handling[m].status = "FORMING"

HuddleInv == /\ HuddleTypeOK
             /\ NothingBeforeCreation
             /\ ClaimsAreFresh
             /\ FormingWasRead
             /\ NeverOverfull
             /\ EnoughIsNoticed

-----------------------------------------------------------------------------
(* How many have accepted *)

LEMMA AcceptedIsFinite ==
    IsFiniteSet(Accepted) /\ Cardinality(Accepted) \in Nat
<1>1. IsFiniteSet(Accepted)
  BY PeopleAssumption, FS_Subset DEF Accepted
<1>2. QED BY <1>1, FS_CardinalityType

LEMMA AcceptedShrinks ==
    ASSUME Accepted' \subseteq Accepted
    PROVE  /\ Cardinality(Accepted') <= Cardinality(Accepted)
           /\ Cardinality(Accepted') \in Nat
<1>1. IsFiniteSet(Accepted') /\ Cardinality(Accepted') <= Cardinality(Accepted)
  BY AcceptedIsFinite, FS_Subset
<1>2. QED BY <1>1, FS_CardinalityType

LEMMA AcceptedGrows ==
    ASSUME NEW p, Accepted' \subseteq Accepted \cup {p}
    PROVE  /\ Cardinality(Accepted') <= Cardinality(Accepted) + 1
           /\ Cardinality(Accepted') \in Nat
<1>1. /\ IsFiniteSet(Accepted \cup {p})
      /\ Cardinality(Accepted \cup {p}) <= Cardinality(Accepted) + 1
  BY AcceptedIsFinite, FS_AddElement
<1>2. /\ IsFiniteSet(Accepted')
      /\ Cardinality(Accepted') <= Cardinality(Accepted \cup {p})
  BY <1>1, FS_Subset
<1>3. Cardinality(Accepted \cup {p}) \in Nat /\ Cardinality(Accepted') \in Nat
  BY <1>1, <1>2, FS_CardinalityType
<1>4. QED BY <1>1, <1>2, <1>3, AcceptedIsFinite

-----------------------------------------------------------------------------
(* The initial state and the types *)

LEMMA HuddleInitInv == HuddleInit => HuddleInv
<1> SUFFICES ASSUME HuddleInit PROVE HuddleInv
  OBVIOUS
<1>1. HuddleTypeOK
  BY HuddleBoundsAssumption
  DEF HuddleInit, HuddleTypeOK, IdleHandler, Handler, HandlerSteps
<1>2. Accepted = {}
  BY DEF HuddleInit, Accepted
<1>3. NeverOverfull
  BY <1>2, FS_EmptySet, ParticipantsAssumption DEF NeverOverfull
<1>4. NothingBeforeCreation /\ ClaimsAreFresh /\ FormingWasRead /\ EnoughIsNoticed
  BY DEF HuddleInit, IdleHandler, NothingBeforeCreation, ClaimsAreFresh, FreshClaim,
         FormingWasRead, EnoughIsNoticed
<1>5. QED BY <1>1, <1>3, <1>4 DEF HuddleInv

LEMMA BeginsType ==
    ASSUME HuddleTypeOK, NEW m \in HuddleMessages, NEW p \in People,
           NEW step \in HandlerSteps, Begins(m, p, step),
           UNCHANGED <<huddle, standing, huddleRestarts>>
    PROVE  HuddleTypeOK'
<1> DEFINE begun == [IdleHandler EXCEPT !.at = step, !.by = p]
<1>1. begun \in Handler /\ begun.by = p
  BY DEF IdleHandler, Handler
<1> HIDE DEF begun
<1>2. handling' = [handling EXCEPT ![m] = begun]
  BY DEF Begins, begun
<1>3. QED BY <1>1, <1>2 DEF HuddleTypeOK

\* A handler that goes on for the same person.
LEMMA GoesOnType ==
    ASSUME HuddleTypeOK, NEW m \in HuddleMessages, NEW h \in Handler,
           h.by = handling[m].by, handling[m].at # "idle",
           handling' = [handling EXCEPT ![m] = h]
    PROVE  /\ handling' \in [HuddleMessages -> Handler]
           /\ \A n \in HuddleMessages :
                  handling'[n].at # "idle" => handling'[n].by \in People
  BY DEF HuddleTypeOK

LEMMA RepliesType ==
    ASSUME HuddleTypeOK, NEW m \in HuddleMessages, Replies(m)
    PROVE  /\ handling' \in [HuddleMessages -> Handler]
           /\ \A n \in HuddleMessages :
                  handling'[n].at # "idle" => handling'[n].by \in People
<1>1. IdleHandler \in Handler /\ IdleHandler.at = "idle"
  BY DEF IdleHandler, Handler, HandlerSteps
<1>2. handling' = [handling EXCEPT ![m] = IdleHandler]
  BY DEF Replies
<1>3. QED BY <1>1, <1>2 DEF HuddleTypeOK

LEMMA ArrivalType ==
    ASSUME HuddleTypeOK, NothingBeforeCreation, HuddleArrives
    PROVE  HuddleTypeOK'
<1> USE DEF HuddleTypeOK
<1>1. CASE \E p \in People : CreateHuddle(p)
  BY <1>1 DEF CreateHuddle, HuddleStatus
<1>2. CASE \E p \in People : Decline(p)
  BY <1>2 DEF Decline
<1>3. ASSUME NEW m \in HuddleMessages, NEW p \in People,
             \/ InviterIsParticipant(m, p) \/ Accept(m, p) \/ Leave(m, p)
             \/ StartHuddle(m, p) \/ CompleteHuddle(m, p) \/ CancelHuddle(m, p)
      PROVE  HuddleTypeOK'
  <2>1. /\ \E step \in HandlerSteps : Begins(m, p, step)
        /\ UNCHANGED <<huddle, standing, huddleRestarts>>
    BY <1>3 DEF InviterIsParticipant, Accept, Leave, StartHuddle,
                CompleteHuddle, CancelHuddle, HandlerSteps
  <2>2. QED BY <2>1, BeginsType
<1>4. QED BY <1>1, <1>2, <1>3 DEF HuddleArrives

LEMMA StepType ==
    ASSUME HuddleTypeOK, NEW m \in HuddleMessages, HuddleStep(m)
    PROVE  HuddleTypeOK'
<1> USE DEF HuddleTypeOK
<1> DEFINE h == handling[m]
<1>0. h \in Handler /\ IdleHandler \in Handler
  BY DEF Handler, IdleHandler, HandlerSteps
<1>1. CASE HuddleIsOpen(m)
  BY <1>1, <1>0 DEF HuddleIsOpen, Replies, Handler, HandlerSteps, IdleHandler
<1>2. CASE CreateInvitation(m)
  BY <1>2, <1>0 DEF CreateInvitation, Replies, Handler, IdleHandler
<1>3. CASE ReadVersion(m)
  <2>1. [h EXCEPT !.at = "count", !.status = huddle.status,
                  !.version = huddle.version] \in Handler
    BY <1>0 DEF Handler, HandlerSteps
  <2>2. handling' = [handling EXCEPT ![m] =
            [h EXCEPT !.at = "count", !.status = huddle.status,
                      !.version = huddle.version]]
    BY <1>3 DEF ReadVersion
  <2>3. QED BY <2>1, <2>2, <1>3, <1>0, GoesOnType DEF ReadVersion, Handler
<1>4. CASE CountAccepted(m)
  BY <1>4, <1>0 DEF CountAccepted, Replies, Handler, HandlerSteps, IdleHandler
<1>5. CASE ClaimPlace(m)
  <2>1. CASE standing[h.by] = "none"
    BY <2>1, <1>5, RepliesType DEF ClaimPlace
  <2>2. CASE standing[h.by] # "none"
    <3>1. [IdleHandler EXCEPT !.at = "confirm?", !.by = h.by] \in Handler
      BY <1>0 DEF Handler, HandlerSteps, IdleHandler
    <3>2. huddle' \in [status : HuddleStatus \cup {"none"}, version : Nat,
                       creator : People \cup {"none"}]
      BY <2>2, <1>5 DEF ClaimPlace
    <3>3. [IdleHandler EXCEPT !.at = "confirm?", !.by = h.by].by = h.by
      BY DEF IdleHandler
    <3>4. /\ handling' = [handling EXCEPT ![m] =
                [IdleHandler EXCEPT !.at = "confirm?", !.by = h.by]]
          /\ h.at # "idle"
          /\ standing' = [standing EXCEPT ![h.by] = "ACCEPTED"]
          /\ UNCHANGED huddleRestarts
      BY <2>2, <1>5 DEF ClaimPlace
    <3>5. QED BY <3>1, <3>2, <3>3, <3>4, GoesOnType
  <2>3. QED BY <2>1, <2>2
<1>6. CASE RetryAccept(m)
  <2>1. [h EXCEPT !.at = "accept", !.version = 0, !.tries = h.tries + 1]
            \in Handler
    <3>1. PICK g \in Handler : g = h
      BY <1>0
    <3>2. g.tries + 1 \in Nat
      BY DEF Handler
    <3>3. [g EXCEPT !.at = "accept", !.version = 0, !.tries = g.tries + 1]
              \in Handler
      BY <3>2 DEF Handler, HandlerSteps
    <3>4. QED BY <3>1, <3>3
  <2>2. CASE h.tries >= MaxAcceptRetries
    BY <2>2, <1>6, RepliesType DEF RetryAccept
  <2>3. CASE ~(h.tries >= MaxAcceptRetries)
    <3>1. handling' = [handling EXCEPT ![m] =
              [h EXCEPT !.at = "accept", !.version = 0,
                        !.tries = h.tries + 1]]
      BY <2>3, <1>6 DEF RetryAccept
    <3>2. QED BY <2>1, <3>1, <1>6, <1>0, GoesOnType DEF RetryAccept, Handler
  <2>4. QED BY <2>2, <2>3
<1>7. CASE ReadForming(m)
  <2>1. [h EXCEPT !.at = "enough?", !.status = huddle.status] \in Handler
    BY <1>0 DEF Handler, HandlerSteps
  <2>2. handling' = [handling EXCEPT ![m] =
            [h EXCEPT !.at = "enough?", !.status = huddle.status]]
    BY <1>7 DEF ReadForming
  <2>3. QED BY <2>1, <2>2, <1>7, <1>0, GoesOnType DEF ReadForming, Handler
<1>8. CASE CheckEnough(m)
  BY <1>8, <1>0 DEF CheckEnough, Replies, Handler, HandlerSteps, IdleHandler
<1>9. CASE ConfirmHuddle(m)
  BY <1>9, RepliesType DEF ConfirmHuddle, HuddleStatus
<1>10. CASE WriteLeft(m)
  BY <1>10, RepliesType DEF WriteLeft
<1>11. CASE WriteStatus(m)
  BY <1>11, RepliesType DEF WriteStatus, HuddleStatus
<1>12. QED
  BY <1>1, <1>2, <1>3, <1>4, <1>5, <1>6, <1>7, <1>8, <1>9, <1>10, <1>11
  DEF HuddleStep

LEMMA HuddleTypeStep ==
    ASSUME HuddleTypeOK, NothingBeforeCreation, [HuddleNext]_huddleVars
    PROVE  HuddleTypeOK'
<1>1. CASE HuddleRestart
  BY <1>1, HuddleBoundsAssumption
  DEF HuddleRestart, HuddleTypeOK, IdleHandler, Handler, HandlerSteps
<1>2. CASE UNCHANGED huddleVars
  BY <1>2 DEF huddleVars, HuddleTypeOK
<1>3. QED BY <1>1, <1>2, ArrivalType, StepType DEF HuddleNext

-----------------------------------------------------------------------------
(* What a step may do to the row, the participants and the handlers *)

\* Whoever is accepted by this step was accepted before, except at the creation
\* and at a claim.
LEMMA AcceptedUnlessClaimed ==
    ASSUME HuddleTypeOK, [HuddleNext]_huddleVars,
           \A p \in People : ~CreateHuddle(p),
           \A m \in HuddleMessages : ~ClaimPlace(m)
    PROVE  Accepted' \subseteq Accepted
<1> USE DEF HuddleTypeOK, Accepted
<1>1. CASE HuddleArrives
  BY <1>1 DEF HuddleArrives, Decline, InviterIsParticipant, Accept, Leave,
              StartHuddle, CompleteHuddle, CancelHuddle
<1>2. ASSUME NEW m \in HuddleMessages, HuddleStep(m)
      PROVE  Accepted' \subseteq Accepted
  BY <1>2 DEF HuddleStep, HuddleIsOpen, CreateInvitation, ReadVersion,
              CountAccepted, RetryAccept, ReadForming, CheckEnough,
              ConfirmHuddle, WriteLeft, WriteStatus
<1>3. CASE HuddleRestart
  BY <1>3 DEF HuddleRestart
<1>4. CASE UNCHANGED huddleVars
  BY <1>4 DEF huddleVars
<1>5. QED BY <1>1, <1>2, <1>3, <1>4 DEF HuddleNext

LEMMA AcceptedAtCreation ==
    ASSUME HuddleInv, NEW p \in People, CreateHuddle(p)
    PROVE  Cardinality(Accepted') = 1
<1>1. Accepted' = {p}
  BY DEF HuddleInv, HuddleTypeOK, NothingBeforeCreation, CreateHuddle, Accepted
<1>2. QED BY <1>1, FS_Singleton

LEMMA AcceptedAtClaim ==
    ASSUME HuddleInv, NEW m \in HuddleMessages, ClaimPlace(m)
    PROVE  Cardinality(Accepted') <= MaxParticipants
<1>1. Cardinality(Accepted) < MaxParticipants
  BY DEF HuddleInv, ClaimsAreFresh, FreshClaim, ClaimPlace, SameVersion
<1>2. Accepted' \subseteq Accepted \cup {handling[m].by}
  BY DEF HuddleInv, HuddleTypeOK, ClaimPlace, Accepted
<1>3. QED BY <1>1, <1>2, AcceptedGrows, AcceptedIsFinite, ParticipantsAssumption

LEMMA NeverOverfullStep ==
    ASSUME HuddleInv, [HuddleNext]_huddleVars
    PROVE  NeverOverfull'
<1>1. CASE \E p \in People : CreateHuddle(p)
  BY <1>1, AcceptedAtCreation, ParticipantsAssumption DEF NeverOverfull
<1>2. CASE \E m \in HuddleMessages : ClaimPlace(m)
  BY <1>2, AcceptedAtClaim DEF NeverOverfull
<1>3. CASE /\ \A p \in People : ~CreateHuddle(p)
           /\ \A m \in HuddleMessages : ~ClaimPlace(m)
  BY <1>3, AcceptedUnlessClaimed, AcceptedShrinks, AcceptedIsFinite,
     ParticipantsAssumption DEF HuddleInv, NeverOverfull
<1>4. QED BY <1>1, <1>2, <1>3

-----------------------------------------------------------------------------
(* The parts of the invariant that make the others inductive *)

LEMMA NothingBeforeCreationStep ==
    ASSUME HuddleInv, [HuddleNext]_huddleVars
    PROVE  NothingBeforeCreation'
<1> USE DEF HuddleInv, HuddleTypeOK, NothingBeforeCreation
<1> SUFFICES ASSUME huddle'.status = "none" PROVE UNCHANGED huddleVars
             \/ HuddleRestart
  BY DEF huddleVars, HuddleRestart, IdleHandler
<1>1. huddle.status = "none"
  <2>1. CASE HuddleArrives
    BY <2>1 DEF HuddleArrives, CreateHuddle, Decline, InviterIsParticipant,
                Accept, Leave, StartHuddle, CompleteHuddle, CancelHuddle
  <2>2. ASSUME NEW m \in HuddleMessages, HuddleStep(m)
        PROVE  huddle.status = "none"
    BY <2>2 DEF HuddleStep, HuddleIsOpen, CreateInvitation, ReadVersion,
                CountAccepted, ClaimPlace, RetryAccept, ReadForming, CheckEnough,
                ConfirmHuddle, WriteLeft, WriteStatus
  <2>3. QED BY <2>1, <2>2 DEF HuddleNext, HuddleRestart, huddleVars
<1>2. \A m \in HuddleMessages : ~HuddleStep(m)
  BY <1>1 DEF HuddleStep, HuddleIsOpen, CreateInvitation, ReadVersion,
              CountAccepted, ClaimPlace, RetryAccept, ReadForming, CheckEnough,
              ConfirmHuddle, WriteLeft, WriteStatus
<1>3. ~HuddleArrives
  <2>1. ~ \E p \in People : CreateHuddle(p) \/ Decline(p)
    BY <1>1 DEF CreateHuddle, Decline
  <2>2. ASSUME NEW m \in HuddleMessages, NEW p \in People
        PROVE  ~ (\/ InviterIsParticipant(m, p) \/ Accept(m, p) \/ Leave(m, p)
                  \/ StartHuddle(m, p) \/ CompleteHuddle(m, p)
                  \/ CancelHuddle(m, p))
    BY <1>1 DEF InviterIsParticipant, Accept, Leave, StartHuddle,
                CompleteHuddle, CancelHuddle
  <2>3. QED BY <2>1, <2>2 DEF HuddleArrives
<1>4. QED BY <1>2, <1>3 DEF HuddleNext

\* What the version stands for: it grows at a claim only, and only then, or at
\* the creation, somebody is accepted.
LEMMA VersionStep ==
    ASSUME HuddleInv, [HuddleNext]_huddleVars
    PROVE  \/ \E m \in HuddleMessages : ClaimPlace(m)
           \/ \E p \in People : CreateHuddle(p)
           \/ /\ huddle'.version = huddle.version
              /\ Accepted' \subseteq Accepted
<1> USE DEF HuddleInv, HuddleTypeOK
<1>1. CASE HuddleArrives
  <2>1. (\E p \in People : CreateHuddle(p)) \/ huddle' = huddle
    BY <1>1 DEF HuddleArrives, Decline, InviterIsParticipant, Accept, Leave,
                StartHuddle, CompleteHuddle, CancelHuddle
  <2>2. QED BY <2>1, AcceptedUnlessClaimed
<1>2. ASSUME NEW m \in HuddleMessages, HuddleStep(m), ~ClaimPlace(m)
      PROVE  huddle'.version = huddle.version
  BY <1>2 DEF HuddleStep, HuddleIsOpen, CreateInvitation, ReadVersion,
              CountAccepted, RetryAccept, ReadForming, CheckEnough,
              ConfirmHuddle, WriteLeft, WriteStatus
<1>3. CASE HuddleRestart \/ UNCHANGED huddleVars
  BY <1>3, AcceptedUnlessClaimed DEF HuddleRestart, huddleVars
<1>4. QED BY <1>1, <1>2, <1>3, AcceptedUnlessClaimed DEF HuddleNext

\* How a handler comes to count, to claim a place or to check the number.
LEMMA HandlerStep ==
    ASSUME HuddleInv, [HuddleNext]_huddleVars, NEW n \in HuddleMessages
    PROVE  \/ handling'[n] = handling[n]
           \/ handling'[n].at \notin {"count", "claim", "enough?"}
           \/ ReadVersion(n)
           \/ CountAccepted(n)
           \/ ReadForming(n)
<1> USE DEF HuddleInv, HuddleTypeOK
<1>1. CASE HuddleArrives
  <2>1. CASE \E p \in People : CreateHuddle(p) \/ Decline(p)
    BY <2>1 DEF CreateHuddle, Decline
  <2>2. ASSUME NEW m \in HuddleMessages, NEW p \in People,
               \/ InviterIsParticipant(m, p) \/ Accept(m, p) \/ Leave(m, p)
               \/ StartHuddle(m, p) \/ CompleteHuddle(m, p)
               \/ CancelHuddle(m, p)
        PROVE  \/ handling'[n] = handling[n]
               \/ handling'[n].at \notin {"count", "claim", "enough?"}
    <3>1. \E step \in HandlerSteps \ {"count", "claim", "enough?"} :
              Begins(m, p, step)
      BY <2>2 DEF InviterIsParticipant, Accept, Leave, StartHuddle,
                  CompleteHuddle, CancelHuddle, HandlerSteps
    <3>2. QED BY <3>1 DEF Begins, IdleHandler
  <2>3. QED BY <1>1, <2>1, <2>2 DEF HuddleArrives
<1>2. ASSUME NEW m \in HuddleMessages, HuddleStep(m), m # n
      PROVE  handling'[n] = handling[n]
  BY <1>2 DEF HuddleStep, HuddleIsOpen, CreateInvitation, ReadVersion,
              CountAccepted, ClaimPlace, RetryAccept, ReadForming, CheckEnough,
              ConfirmHuddle, WriteLeft, WriteStatus, Replies
<1>3. ASSUME HuddleStep(n), ~ReadVersion(n), ~CountAccepted(n), ~ReadForming(n)
      PROVE  handling'[n].at \notin {"count", "claim", "enough?"}
  <2> USE DEF Handler, IdleHandler, Replies
  <2>1. CASE HuddleIsOpen(n) \/ CreateInvitation(n)
    BY <2>1 DEF HuddleIsOpen, CreateInvitation
  <2>2. CASE ClaimPlace(n)
    <3>1. CASE standing[handling[n].by] = "none"
      BY <2>2, <3>1 DEF ClaimPlace
    <3>2. CASE standing[handling[n].by] # "none"
      <4>1. handling'[n] = [IdleHandler EXCEPT !.at = "confirm?",
                                               !.by = handling[n].by]
        BY <2>2, <3>2 DEF ClaimPlace
      <4>2. handling'[n].at = "confirm?"
        BY <4>1
      <4>3. QED BY <4>2
    <3>3. QED BY <3>1, <3>2
  <2>3. CASE RetryAccept(n)
    BY <2>3 DEF RetryAccept
  <2>4. CASE CheckEnough(n)
    BY <2>4 DEF CheckEnough
  <2>5. CASE ConfirmHuddle(n) \/ WriteLeft(n) \/ WriteStatus(n)
    BY <2>5 DEF ConfirmHuddle, WriteLeft, WriteStatus
  <2>6. QED BY <1>3, <2>1, <2>2, <2>3, <2>4, <2>5 DEF HuddleStep
<1>4. CASE HuddleRestart \/ UNCHANGED huddleVars
  BY <1>4 DEF HuddleRestart, huddleVars, IdleHandler
<1>5. QED BY <1>1, <1>2, <1>3, <1>4 DEF HuddleNext

LEMMA ClaimsAreFreshStep ==
    ASSUME HuddleInv, [HuddleNext]_huddleVars
    PROVE  ClaimsAreFresh'
<1> USE DEF HuddleInv, HuddleTypeOK, ClaimsAreFresh, FreshClaim
<1> SUFFICES ASSUME NEW n \in HuddleMessages
             PROVE  FreshClaim(n)'
  BY DEF ClaimsAreFresh
<1>1. CASE handling'[n] = handling[n]
  <2>1. CASE \E m \in HuddleMessages : ClaimPlace(m)
    <3>1. PICK m \in HuddleMessages : ClaimPlace(m)
      BY <2>1
    <3>2. \/ huddle'.version = huddle.version + 1
          \/ huddle' = huddle /\ standing' = standing
      BY <3>1 DEF ClaimPlace
    <3>3. CASE huddle'.version = huddle.version + 1
      BY <1>1, <3>3 DEF Handler
    <3>4. CASE huddle' = huddle /\ standing' = standing
      BY <1>1, <3>4 DEF Accepted
    <3>5. QED BY <3>2, <3>3, <3>4
  <2>2. CASE \E p \in People : CreateHuddle(p)
    BY <1>1, <2>2 DEF CreateHuddle, NothingBeforeCreation
  <2>3. CASE huddle'.version = huddle.version /\ Accepted' \subseteq Accepted
    BY <1>1, <2>3, AcceptedShrinks, AcceptedIsFinite, ParticipantsAssumption
  <2>4. QED BY <2>1, <2>2, <2>3, VersionStep
<1>2. CASE handling'[n].at \notin {"count", "claim", "enough?"}
  BY <1>2
<1>3. CASE ReadVersion(n)
  BY <1>3 DEF ReadVersion, Handler
<1>4. CASE CountAccepted(n)
  <2>1. huddle' = huddle /\ Accepted' = Accepted
    BY <1>4 DEF CountAccepted, Accepted
  <2>2. \/ handling'[n].at = "idle"
        \/ /\ handling'[n].version = handling[n].version
           /\ Cardinality(Accepted) < MaxParticipants
    BY <1>4, AcceptedIsFinite, ParticipantsAssumption
    DEF CountAccepted, Replies, IdleHandler, Handler
  <2>3. QED BY <2>1, <2>2, <1>4 DEF CountAccepted
<1>5. CASE ReadForming(n)
  BY <1>5 DEF ReadForming, Handler
<1>6. QED BY <1>1, <1>2, <1>3, <1>4, <1>5, HandlerStep

\* FORMING is the first status and is never written again.
LEMMA FormingIsFirst ==
    ASSUME HuddleInv, [HuddleNext]_huddleVars, huddle'.status = "FORMING"
    PROVE  \/ huddle.status = "FORMING"
           \/ \E p \in People : CreateHuddle(p)
<1> USE DEF HuddleInv, HuddleTypeOK
<1>1. CASE HuddleArrives
  BY <1>1 DEF HuddleArrives, Decline, InviterIsParticipant, Accept, Leave,
              StartHuddle, CompleteHuddle, CancelHuddle
<1>2. ASSUME NEW m \in HuddleMessages, HuddleStep(m)
      PROVE  huddle.status = "FORMING"
  BY <1>2 DEF HuddleStep, HuddleIsOpen, CreateInvitation, ReadVersion,
              CountAccepted, ClaimPlace, RetryAccept, ReadForming, CheckEnough,
              ConfirmHuddle, WriteLeft, WriteStatus
<1>3. CASE HuddleRestart \/ UNCHANGED huddleVars
  BY <1>3 DEF HuddleRestart, huddleVars
<1>4. QED BY <1>1, <1>2, <1>3 DEF HuddleNext

LEMMA FormingWasReadStep ==
    ASSUME HuddleInv, [HuddleNext]_huddleVars
    PROVE  FormingWasRead'
<1> USE DEF HuddleInv, HuddleTypeOK, FormingWasRead
<1> SUFFICES ASSUME NEW n \in HuddleMessages, handling'[n].at = "enough?",
                    huddle'.status = "FORMING"
             PROVE  handling'[n].status = "FORMING"
  BY DEF FormingWasRead
<1>1. CASE handling'[n] = handling[n]
  <2>1. CASE \E p \in People : CreateHuddle(p)
    BY <1>1, <2>1 DEF CreateHuddle, NothingBeforeCreation
  <2>2. QED BY <1>1, <2>1, FormingIsFirst
<1>2. CASE ReadVersion(n) \/ CountAccepted(n)
  BY <1>2 DEF ReadVersion, CountAccepted, Replies, IdleHandler, Handler
<1>3. CASE ReadForming(n)
  BY <1>3 DEF ReadForming, Handler
<1>4. QED BY <1>1, <1>2, <1>3, HandlerStep

LEMMA EnoughIsNoticedStep ==
    ASSUME HuddleInv, [HuddleNext]_huddleVars
    PROVE  EnoughIsNoticed'
<1> USE DEF HuddleInv, HuddleTypeOK
<1> DEFINE Noticing(m) ==
        \/ handling[m].at \in {"confirm?", "confirm"}
        \/ handling[m].at = "enough?" /\ handling[m].status = "FORMING"
<1> SUFFICES ASSUME huddleRestarts' = 0, huddle'.status = "FORMING",
                    Cardinality(Accepted') >= MinParticipants
             PROVE  \E m \in HuddleMessages : Noticing(m)'
  BY DEF EnoughIsNoticed
<1>1. huddleRestarts = 0 /\ ~HuddleRestart
  <2>1. ~HuddleRestart
    BY HuddleBoundsAssumption DEF HuddleRestart
  <2>2. huddleRestarts' = huddleRestarts
    <3>1. CASE HuddleArrives
      BY <3>1 DEF HuddleArrives, CreateHuddle, Decline, InviterIsParticipant,
                  Accept, Leave, StartHuddle, CompleteHuddle, CancelHuddle
    <3>2. ASSUME NEW m \in HuddleMessages, HuddleStep(m)
          PROVE  huddleRestarts' = huddleRestarts
      BY <3>2 DEF HuddleStep, HuddleIsOpen, CreateInvitation, ReadVersion,
                  CountAccepted, ClaimPlace, RetryAccept, ReadForming,
                  CheckEnough, ConfirmHuddle, WriteLeft, WriteStatus
    <3>3. QED BY <2>1, <3>1, <3>2 DEF HuddleNext, huddleVars
  <2>3. QED BY <2>1, <2>2
<1>2. \A p \in People : ~CreateHuddle(p)
  BY AcceptedAtCreation, ParticipantsAssumption
<1>3. huddle.status = "FORMING"
  BY <1>2, FormingIsFirst
<1>4. CASE \E m \in HuddleMessages : ClaimPlace(m)
  <2>1. PICK m \in HuddleMessages : ClaimPlace(m)
    BY <1>4
  <2>2. CASE standing[handling[m].by] = "none"
    <3>1. Accepted' = Accepted
      BY <2>1, <2>2 DEF ClaimPlace, Accepted
    <3>2. PICK n \in HuddleMessages : Noticing(n)
      BY <1>1, <1>3, <3>1 DEF EnoughIsNoticed
    <3>3. n # m
      BY <2>1, <3>2 DEF ClaimPlace
    <3>4. handling'[n] = handling[n]
      BY <2>1, <2>2, <3>3 DEF ClaimPlace, Replies
    <3>5. QED BY <3>2, <3>4
  <2>3. CASE standing[handling[m].by] # "none"
    <3>1. handling'[m] = [IdleHandler EXCEPT !.at = "confirm?",
                                             !.by = handling[m].by]
      BY <2>1, <2>3 DEF ClaimPlace
    <3>2. [IdleHandler EXCEPT !.at = "confirm?", !.by = handling[m].by].at
              = "confirm?"
      BY DEF IdleHandler
    <3>3. QED BY <3>1, <3>2
  <2>4. QED BY <2>2, <2>3
<1>5. CASE \A m \in HuddleMessages : ~ClaimPlace(m)
  <2>1. Cardinality(Accepted) >= MinParticipants
    BY <1>2, <1>5, AcceptedUnlessClaimed, AcceptedShrinks, AcceptedIsFinite,
       ParticipantsAssumption
  <2>2. PICK n \in HuddleMessages : Noticing(n)
    BY <1>1, <1>3, <2>1 DEF EnoughIsNoticed
  <2>3. CASE handling'[n] = handling[n]
    BY <2>2, <2>3
  <2>4. CASE ReadForming(n)
    <3>1. handling'[n].at = "enough?" /\ handling'[n].status = "FORMING"
      BY <1>3, <2>4 DEF ReadForming, Handler
    <3>2. QED BY <3>1
  <2>5. CASE CheckEnough(n)
    <3>1. Enough /\ handling[n].status = "FORMING"
      BY <2>1, <2>2, <2>5 DEF CheckEnough, Enough
    <3>2. handling'[n].at = "confirm"
      BY <2>5, <3>1 DEF CheckEnough, Handler
    <3>3. QED BY <3>2
  <2>6. CASE ConfirmHuddle(n)
    BY <2>6 DEF ConfirmHuddle
  <2>7. \/ handling'[n] = handling[n] \/ ReadForming(n)
        \/ CheckEnough(n) \/ ConfirmHuddle(n)
    <3>1. CASE HuddleArrives
      BY <2>2, <3>1 DEF HuddleArrives, CreateHuddle, Decline,
         InviterIsParticipant, Accept, Leave, StartHuddle, CompleteHuddle,
         CancelHuddle, Begins
    <3>2. ASSUME NEW m \in HuddleMessages, HuddleStep(m), m # n
          PROVE  handling'[n] = handling[n]
      BY <3>2 DEF HuddleStep, HuddleIsOpen, CreateInvitation, ReadVersion,
                  CountAccepted, ClaimPlace, RetryAccept, ReadForming,
                  CheckEnough, ConfirmHuddle, WriteLeft, WriteStatus, Replies
    <3>3. CASE HuddleStep(n)
      BY <1>5, <2>2, <3>3
      DEF HuddleStep, HuddleIsOpen, CreateInvitation, ReadVersion,
          CountAccepted, RetryAccept, WriteLeft, WriteStatus
    <3>4. CASE UNCHANGED huddleVars
      BY <3>4 DEF huddleVars
    <3>5. QED BY <1>1, <3>1, <3>2, <3>3, <3>4 DEF HuddleNext
  <2>8. QED BY <2>3, <2>4, <2>5, <2>6, <2>7
<1>6. QED BY <1>4, <1>5

-----------------------------------------------------------------------------
(* The theorems *)

LEMMA HuddleInvStep ==
    HuddleInv /\ [HuddleNext]_huddleVars => HuddleInv'
<1> SUFFICES ASSUME HuddleInv, [HuddleNext]_huddleVars PROVE HuddleInv'
  OBVIOUS
<1>1. HuddleTypeOK'
  BY HuddleTypeStep DEF HuddleInv
<1>2. QED
  BY <1>1, NothingBeforeCreationStep, ClaimsAreFreshStep, FormingWasReadStep,
     NeverOverfullStep, EnoughIsNoticedStep DEF HuddleInv

\* The rows and the handlers keep their types in every behaviour of the
\* huddle's handlers (huddles.service.ts).
THEOREM HuddleTypes == HuddleSpec => []HuddleTypeOK
<1>1. HuddleInv => HuddleTypeOK
  BY DEF HuddleInv
<1>2. QED BY <1>1, HuddleInitInv, HuddleInvStep, PTL DEF HuddleSpec

\* For any number of places, and however many accept, decline and leave at
\* once, the huddle is never overfilled (recordResponse).
THEOREM HuddleNeverOverfull == HuddleSpec => []NeverOverfull
<1>1. HuddleInv => NeverOverfull
  BY DEF HuddleInv
<1>2. QED BY <1>1, HuddleInitInv, HuddleInvStep, PTL DEF HuddleSpec

\* For any number of people, a forming huddle that enough have accepted has a
\* handler on its way to confirm it (checkAndConfirmHuddle).
THEOREM HuddleEnoughIsNoticed == HuddleSpec => []EnoughIsNoticed
<1>1. HuddleInv => EnoughIsNoticed
  BY DEF HuddleInv
<1>2. QED BY <1>1, HuddleInitInv, HuddleInvStep, PTL DEF HuddleSpec

-----------------------------------------------------------------------------
(***************************************************************************)
(* Theorems about BreakoutRooms for every number of rooms, attendees,      *)
(* instances and handlers: a room that is open and was never ended is in   *)
(* hand.                                                                   *)
(*                                                                         *)
(* A timer, and a handler that arms or warns, belong to a room that has    *)
(* been opened; a handler that cancels timers comes after the room was     *)
(* ended, and a closed room was ended.  None of this is undone by another  *)
(* handler: rooms only go forward.                                         *)
(***************************************************************************)

Opened(r) == room[r].status \notin {"none", "WAITING"}

HandlerInv(h) ==
    /\ serving[h].at # "idle" => serving[h].on \in Instances
    /\ serving[h].at \notin {"idle", "recall", "cancel"} =>
           \E r \in Rooms : serving[h].rooms = {r}
    /\ serving[h].at \in {"arm", "warn"} => \A r \in serving[h].rooms : Opened(r)
    /\ serving[h].at = "recall" => \A r \in serving[h].rooms : Exists(r)
    /\ serving[h].at = "cancel" => \A r \in serving[h].rooms : room[r].ended

RoomInv(r) ==
    /\ room[r].status = "CLOSED" => room[r].ended
    /\ \A i \in Instances : timer[r][i] # "off" => Opened(r)

\* OpenRoomsAreTimed, of one room.
Timed(r) ==
    breakoutFaults = 0 =>
        (room[r].status \in {"ACTIVE", "CLOSING"} /\ ~room[r].ended => InHand(r))

BreakoutInv ==
    /\ BreakoutTypeOK
    /\ \A h \in BreakoutHandlers : HandlerInv(h)
    /\ \A r \in Rooms : RoomInv(r) /\ Timed(r)

\* What a step may do to the rows that a handler relies on.
Forward ==
    \A r \in Rooms :
        /\ Exists(r) => Exists(r)'
        /\ Opened(r) => Opened(r)'
        /\ room[r].ended => room[r].ended'

-----------------------------------------------------------------------------
(* The initial state and the types *)

LEMMA BreakoutInitInv == BreakoutInit => BreakoutInv
<1> SUFFICES ASSUME BreakoutInit PROVE BreakoutInv
  OBVIOUS
<1>1. BreakoutTypeOK
  BY BreakoutBoundsAssumption
  DEF BreakoutInit, BreakoutTypeOK, NotServing, BreakoutSteps, Tasks
<1>2. \A h \in BreakoutHandlers : HandlerInv(h)
  BY DEF BreakoutInit, HandlerInv, NotServing
<1>3. \A r \in Rooms : RoomInv(r) /\ Timed(r)
  BY DEF BreakoutInit, RoomInv, Timed
<1>4. QED BY <1>1, <1>2, <1>3 DEF BreakoutInv

\* The handlers that a step does not touch still have what they rely on.
LEMMA OtherHandlers ==
    ASSUME BreakoutInv, Forward, NEW h \in BreakoutHandlers,
           \A g \in BreakoutHandlers \ {h} : serving'[g] = serving[g],
           HandlerInv(h)'
    PROVE  \A g \in BreakoutHandlers : HandlerInv(g)'
<1> SUFFICES ASSUME NEW g \in BreakoutHandlers \ {h} PROVE HandlerInv(g)'
  OBVIOUS
<1>1. serving[g].rooms \subseteq Rooms
  BY DEF BreakoutInv, BreakoutTypeOK, Tasks
<1>2. HandlerInv(g) /\ serving'[g] = serving[g]
  BY DEF BreakoutInv
<1>3. QED BY <1>1, <1>2 DEF Forward, HandlerInv

\* A handler starts to serve some rooms.
LEMMA ServesType ==
    ASSUME BreakoutTypeOK, NEW h \in BreakoutHandlers, NEW i \in Instances,
           NEW step \in BreakoutSteps, NEW rooms \in SUBSET Rooms,
           NEW a \in Attendees \cup {"none", "timer"}, Serves(h, i, step, rooms, a)
    PROVE  /\ serving' \in [BreakoutHandlers -> Tasks]
           /\ serving'[h] = [at |-> step, on |-> i, rooms |-> rooms, by |-> a]
           /\ \A g \in BreakoutHandlers \ {h} : serving'[g] = serving[g]
BY DEF BreakoutTypeOK, Serves, Tasks

LEMMA MovesToType ==
    ASSUME BreakoutTypeOK, NEW h \in BreakoutHandlers, NEW step \in BreakoutSteps,
           MovesTo(h, step)
    PROVE  /\ serving' \in [BreakoutHandlers -> Tasks]
           /\ serving'[h].at = step /\ serving'[h].on = serving[h].on
           /\ serving'[h].rooms = serving[h].rooms
           /\ \A g \in BreakoutHandlers \ {h} : serving'[g] = serving[g]
BY DEF BreakoutTypeOK, MovesTo, Tasks

LEMMA ServedType ==
    ASSUME BreakoutTypeOK, NEW h \in BreakoutHandlers, Served(h)
    PROVE  /\ serving' \in [BreakoutHandlers -> Tasks]
           /\ serving'[h] = NotServing
           /\ HandlerInv(h)'
           /\ \A g \in BreakoutHandlers \ {h} : serving'[g] = serving[g]
BY DEF BreakoutTypeOK, Served, NotServing, BreakoutSteps, HandlerInv, Tasks

\* Whoever has a room in hand keeps it while its timers and its handlers stay.
LEMMA StaysTimed ==
    ASSUME BreakoutInv, NEW h \in BreakoutHandlers, NEW r \in Rooms,
           \A g \in BreakoutHandlers \ {h} : serving'[g] = serving[g],
           timer'[r] = timer[r], room'[r] = room[r],
           breakoutFaults' = breakoutFaults,
           \A step \in {"arm", "close", "vacate", "end"} :
               AtRoom(h, step, r) => InHand(r)'
    PROVE  Timed(r)' /\ RoomInv(r)'
<1>1. RoomInv(r)'
  BY DEF BreakoutInv, RoomInv, Opened
<1>2. InHand(r) => InHand(r)'
  <2> SUFFICES ASSUME InHand(r) PROVE InHand(r)'
    OBVIOUS
  <2>1. CASE \E i \in Instances : timer[r][i] # "off"
    BY <2>1 DEF InHand
  <2>2. ASSUME NEW g \in BreakoutHandlers,
               NEW step \in {"arm", "close", "vacate", "end"}, AtRoom(g, step, r)
        PROVE  InHand(r)'
    <3>1. CASE g = h
      BY <2>2, <3>1
    <3>2. CASE g # h
      BY <2>2, <3>2 DEF InHand, AtRoom
    <3>3. QED BY <3>1, <3>2
  <2>3. QED BY <2>1, <2>2 DEF InHand
<1>3. QED BY <1>1, <1>2 DEF BreakoutInv, Timed

\* A step that leaves rows and timers alone, and whose handler gives nothing up.
LEMMA OnlyServing ==
    ASSUME BreakoutInv, NEW h \in BreakoutHandlers,
           UNCHANGED <<room, timer, breakoutFaults>>,
           seat' \in [Rooms -> [Attendees -> {"none", "in", "left"}]],
           serving' \in [BreakoutHandlers -> Tasks],
           \A g \in BreakoutHandlers \ {h} : serving'[g] = serving[g],
           HandlerInv(h)',
           \A r \in Rooms, step \in {"arm", "close", "vacate", "end"} :
               AtRoom(h, step, r) => InHand(r)' \/ room[r].ended
    PROVE  BreakoutInv'
<1>1. BreakoutTypeOK'
  BY DEF BreakoutInv, BreakoutTypeOK
<1>2. Forward
  BY DEF Forward, Exists, Opened
<1>3. \A g \in BreakoutHandlers : HandlerInv(g)'
  BY <1>2, OtherHandlers
<1>4. ASSUME NEW r \in Rooms PROVE RoomInv(r)' /\ Timed(r)'
  <2>1. CASE room[r].ended
    BY <2>1 DEF BreakoutInv, RoomInv, Opened, Timed
  <2>2. CASE ~room[r].ended
    BY <2>2, StaysTimed
  <2>3. QED BY <2>1, <2>2
<1>5. QED BY <1>1, <1>3, <1>4 DEF BreakoutInv

-----------------------------------------------------------------------------
(* Creating, joining and leaving *)

LEMMA CreateRoomStep ==
    ASSUME BreakoutInv, NEW r \in Rooms, CreateRoom(r) PROVE BreakoutInv'
<1> USE DEF CreateRoom
<1>1. BreakoutTypeOK'
  BY DEF BreakoutInv, BreakoutTypeOK
<1>2. Forward
  BY DEF BreakoutInv, BreakoutTypeOK, Forward, Exists, Opened
<1>3. ASSUME NEW h \in BreakoutHandlers PROVE HandlerInv(h)'
  <2>1. HandlerInv(h) /\ serving[h].rooms \subseteq Rooms
    BY DEF BreakoutInv, BreakoutTypeOK, Tasks
  <2>2. QED BY <2>1, <1>2 DEF HandlerInv, Forward
<1>4. ASSUME NEW s \in Rooms PROVE RoomInv(s)' /\ Timed(s)'
  <2>1. CASE s = r
    BY <2>1 DEF BreakoutInv, BreakoutTypeOK, RoomInv, Timed, Opened, Exists
  <2>2. CASE s # r
    BY <2>2 DEF BreakoutInv, BreakoutTypeOK, RoomInv, Timed, Opened, InHand, AtRoom
  <2>3. QED BY <2>1, <2>2
<1>5. QED BY <1>1, <1>3, <1>4 DEF BreakoutInv

LEMMA LeaveRoomStep ==
    ASSUME BreakoutInv, NEW r \in Rooms, NEW a \in Attendees, LeaveRoom(r, a)
    PROVE  BreakoutInv'
<1>1. BreakoutTypeOK'
  BY DEF LeaveRoom, BreakoutInv, BreakoutTypeOK
<1>2. \A h \in BreakoutHandlers : HandlerInv(h)'
  BY DEF LeaveRoom, BreakoutInv, HandlerInv, Opened, Exists
<1>3. \A s \in Rooms : RoomInv(s)' /\ Timed(s)'
  BY DEF LeaveRoom, BreakoutInv, RoomInv, Timed, Opened, InHand, AtRoom
<1>4. QED BY <1>1, <1>2, <1>3 DEF BreakoutInv

LEMMA JoinStep ==
    ASSUME BreakoutInv, NEW h \in BreakoutHandlers, NEW i \in Instances,
           NEW r \in Rooms, NEW a \in Attendees, Join(h, i, r, a)
    PROVE  BreakoutInv'
<1>1. /\ BreakoutTypeOK /\ Serves(h, i, "join", {r}, a)
      /\ UNCHANGED <<room, seat, timer, breakoutFaults>>
      /\ "join" \in BreakoutSteps /\ a \in Attendees \cup {"none", "timer"}
      /\ serving[h].at = "idle"
  BY DEF BreakoutInv, Join, BreakoutSteps, Serves
<1>2. serving'[h] = [at |-> "join", on |-> i, rooms |-> {r}, by |-> a]
  BY <1>1, ServesType
<1>3. HandlerInv(h)'
  BY <1>2 DEF HandlerInv
<1>4. \A s \in Rooms, step \in {"arm", "close", "vacate", "end"} : ~AtRoom(h, step, s)
  BY <1>1 DEF AtRoom
<1>5. /\ \A g \in BreakoutHandlers \ {h} : serving'[g] = serving[g]
      /\ serving' \in [BreakoutHandlers -> Tasks]
  BY <1>1, ServesType
<1>6. QED BY <1>1, <1>3, <1>4, <1>5, OnlyServing DEF BreakoutTypeOK

LEMMA CheckOtherRoomsStep ==
    ASSUME BreakoutInv, NEW h \in BreakoutHandlers, NEW r \in Rooms,
           CheckOtherRooms(h, r)
    PROVE  BreakoutInv'
<1>1. BreakoutTypeOK /\ "insert" \in BreakoutSteps /\ serving[h].at = "join"
  BY DEF BreakoutInv, CheckOtherRooms, BreakoutSteps, AtRoom
<1>2. Served(h) \/ MovesTo(h, "insert")
  BY DEF CheckOtherRooms
<1>3. MovesTo(h, "insert") => HandlerInv(h)'
  BY <1>1, MovesToType DEF HandlerInv, BreakoutInv
<1>4. HandlerInv(h)'
  BY <1>1, <1>2, <1>3, ServedType
<1>5. \A s \in Rooms, step \in {"arm", "close", "vacate", "end"} : ~AtRoom(h, step, s)
  BY <1>1 DEF AtRoom
<1>6. UNCHANGED <<room, timer, breakoutFaults>> /\ seat' = seat
  BY DEF CheckOtherRooms
<1>7. QED
  BY <1>1, <1>2, <1>4, <1>5, <1>6, ServedType, MovesToType, OnlyServing
  DEF BreakoutTypeOK

LEMMA TakeSeatStep ==
    ASSUME BreakoutInv, NEW h \in BreakoutHandlers, NEW r \in Rooms, TakeSeat(h, r)
    PROVE  BreakoutInv'
<1>1. BreakoutTypeOK /\ Served(h) /\ serving[h].at = "insert"
  BY DEF BreakoutInv, TakeSeat, AtRoom
<1>2. seat' \in [Rooms -> [Attendees -> {"none", "in", "left"}]]
  BY <1>1 DEF TakeSeat, BreakoutTypeOK
<1>3. \A s \in Rooms, step \in {"arm", "close", "vacate", "end"} : ~AtRoom(h, step, s)
  BY <1>1 DEF AtRoom
<1>4. UNCHANGED <<room, timer, breakoutFaults>>
  BY DEF TakeSeat
<1>5. QED BY <1>1, <1>2, <1>3, <1>4, ServedType, OnlyServing

-----------------------------------------------------------------------------
(* Starting a room *)

LEMMA StartRoomStep ==
    ASSUME BreakoutInv, NEW h \in BreakoutHandlers, NEW i \in Instances,
           NEW r \in Rooms, StartRoom(h, i, r)
    PROVE  BreakoutInv'
<1>1. /\ BreakoutTypeOK /\ Serves(h, i, "start", {r}, "none")
      /\ UNCHANGED <<room, seat, timer, breakoutFaults>>
      /\ "start" \in BreakoutSteps /\ "none" \in Attendees \cup {"none", "timer"}
      /\ serving[h].at = "idle"
  BY DEF BreakoutInv, StartRoom, BreakoutSteps, Serves
<1>2. serving'[h] = [at |-> "start", on |-> i, rooms |-> {r}, by |-> "none"]
  BY <1>1, ServesType
<1>3. HandlerInv(h)'
  BY <1>2 DEF HandlerInv
<1>4. \A s \in Rooms, step \in {"arm", "close", "vacate", "end"} : ~AtRoom(h, step, s)
  BY <1>1 DEF AtRoom
<1>5. /\ \A g \in BreakoutHandlers \ {h} : serving'[g] = serving[g]
      /\ serving' \in [BreakoutHandlers -> Tasks]
  BY <1>1, ServesType
<1>6. QED BY <1>1, <1>3, <1>4, <1>5, OnlyServing DEF BreakoutTypeOK

LEMMA WriteActiveStep ==
    ASSUME BreakoutInv, NEW h \in BreakoutHandlers, NEW r \in Rooms, WriteActive(h, r)
    PROVE  BreakoutInv'
<1>1. /\ BreakoutTypeOK /\ MovesTo(h, "arm") /\ "arm" \in BreakoutSteps
      /\ serving[h].at = "start" /\ r \in serving[h].rooms
      /\ room' = [room EXCEPT ![r].status = "ACTIVE"]
      /\ UNCHANGED <<seat, timer, breakoutFaults>>
  BY DEF BreakoutInv, WriteActive, BreakoutSteps, AtRoom
<1>2. serving[h].rooms = {r} /\ serving[h].on \in Instances
  BY <1>1 DEF BreakoutInv, HandlerInv
<1>3. BreakoutTypeOK'
  <2>1. serving' \in [BreakoutHandlers -> Tasks]
    BY <1>1, MovesToType
  <2> QED BY <1>1, <2>1 DEF BreakoutTypeOK
<1>4. Forward
  BY <1>1 DEF BreakoutTypeOK, Forward, Exists, Opened
<1>5. Opened(r)'
  BY <1>1 DEF BreakoutTypeOK, Opened
<1>6. HandlerInv(h)'
  BY <1>1, <1>2, <1>5, MovesToType DEF HandlerInv
<1>7. \A g \in BreakoutHandlers : HandlerInv(g)'
  BY <1>1, <1>4, <1>6, MovesToType, OtherHandlers
<1>8. ASSUME NEW s \in Rooms PROVE RoomInv(s)' /\ Timed(s)'
  <2>1. CASE s = r
    <3>1. RoomInv(r)'
      BY <1>1, <1>5 DEF BreakoutTypeOK, RoomInv
    <3>2. AtRoom(h, "arm", r)'
      BY <1>1, <1>2, MovesToType DEF AtRoom
    <3>3. QED BY <2>1, <3>1, <3>2 DEF Timed, InHand
  <2>2. CASE s # r
    <3>1. \A step \in {"arm", "close", "vacate", "end"} : ~AtRoom(h, step, s)
      BY <1>1 DEF AtRoom
    <3>2. room'[s] = room[s]
      BY <1>1, <2>2 DEF BreakoutTypeOK
    <3>3. QED BY <1>1, <3>1, <3>2, MovesToType, StaysTimed
  <2>3. QED BY <2>1, <2>2
<1>9. QED BY <1>3, <1>7, <1>8 DEF BreakoutInv

LEMMA StartRoomTimerStep ==
    ASSUME BreakoutInv, NEW h \in BreakoutHandlers, NEW r \in Rooms,
           StartRoomTimer(h, r)
    PROVE  BreakoutInv'
<1>1. /\ BreakoutTypeOK /\ Served(h) /\ UNCHANGED <<room, seat, breakoutFaults>>
      /\ serving[h].at = "arm" /\ r \in serving[h].rooms
      /\ timer' = [timer EXCEPT ![r][serving[h].on] = "armed"]
  BY DEF BreakoutInv, StartRoomTimer, AtRoom
<1>2. serving[h].rooms = {r} /\ serving[h].on \in Instances /\ Opened(r)
  BY <1>1 DEF BreakoutInv, HandlerInv
<1>3. BreakoutTypeOK'
  BY <1>1, <1>2, ServedType DEF BreakoutTypeOK
<1>4. Forward
  BY <1>1 DEF Forward, Exists, Opened
<1>5. \A g \in BreakoutHandlers : HandlerInv(g)'
  BY <1>1, <1>4, ServedType, OtherHandlers
<1>6. ASSUME NEW s \in Rooms PROVE RoomInv(s)' /\ Timed(s)'
  <2>1. CASE s = r
    <3>1. timer'[r][serving[h].on] = "armed"
      BY <1>1, <1>2 DEF BreakoutTypeOK
    <3>2. RoomInv(r)'
      BY <1>1, <1>2 DEF BreakoutInv, RoomInv, Opened
    <3>3. QED BY <1>2, <2>1, <3>1, <3>2 DEF Timed, InHand
  <2>2. CASE s # r
    <3>1. \A step \in {"arm", "close", "vacate", "end"} : ~AtRoom(h, step, s)
      BY <1>2, <2>2 DEF AtRoom
    <3>2. timer'[s] = timer[s]
      BY <1>1, <2>2 DEF BreakoutTypeOK
    <3>3. QED BY <1>1, <3>1, <3>2, ServedType, StaysTimed
  <2>3. QED BY <2>1, <2>2
<1>7. QED BY <1>3, <1>5, <1>6 DEF BreakoutInv

-----------------------------------------------------------------------------
(* The timers *)

LEMMA TimerWarnsStep ==
    ASSUME BreakoutInv, NEW h \in BreakoutHandlers, NEW i \in Instances,
           NEW r \in Rooms, TimerWarns(h, i, r)
    PROVE  BreakoutInv'
<1>1. /\ BreakoutTypeOK /\ Serves(h, i, "warn", {r}, "none")
      /\ UNCHANGED <<room, seat, breakoutFaults>>
      /\ "warn" \in BreakoutSteps /\ "none" \in Attendees \cup {"none", "timer"}
      /\ serving[h].at = "idle" /\ timer[r][i] = "armed"
      /\ timer' = [timer EXCEPT ![r][i] = "warned"]
  BY DEF BreakoutInv, TimerWarns, BreakoutSteps, Serves
<1>2. serving'[h] = [at |-> "warn", on |-> i, rooms |-> {r}, by |-> "none"]
  BY <1>1, ServesType
<1>3. Opened(r) /\ Opened(r)'
  BY <1>1 DEF BreakoutInv, RoomInv, Opened
<1>4. HandlerInv(h)'
  BY <1>2, <1>3 DEF HandlerInv
<1>5. /\ \A g \in BreakoutHandlers \ {h} : serving'[g] = serving[g]
      /\ serving' \in [BreakoutHandlers -> Tasks]
  BY <1>1, ServesType
<1>6. BreakoutTypeOK'
  BY <1>1, <1>5 DEF BreakoutTypeOK
<1>7. Forward
  BY <1>1 DEF Forward, Exists, Opened
<1>8. \A g \in BreakoutHandlers : HandlerInv(g)'
  BY <1>4, <1>5, <1>7, OtherHandlers
<1>9. ASSUME NEW s \in Rooms PROVE RoomInv(s)' /\ Timed(s)'
  <2>1. CASE s = r
    <3>1. timer'[r][i] = "warned"
      BY <1>1 DEF BreakoutTypeOK
    <3>2. RoomInv(r)'
      BY <1>1, <1>3 DEF BreakoutInv, RoomInv
    <3>3. QED BY <2>1, <3>1, <3>2 DEF Timed, InHand
  <2>2. CASE s # r
    <3>1. \A step \in {"arm", "close", "vacate", "end"} : ~AtRoom(h, step, s)
      BY <1>1 DEF AtRoom
    <3>2. timer'[s] = timer[s]
      BY <1>1, <2>2 DEF BreakoutTypeOK
    <3>3. QED BY <1>1, <1>5, <3>1, <3>2, StaysTimed
  <2>3. QED BY <2>1, <2>2
<1>10. QED BY <1>6, <1>8, <1>9 DEF BreakoutInv

\* A room that is warned late is open again, but it has been ended.
LEMMA SetRoomClosingStep ==
    ASSUME BreakoutInv, NEW h \in BreakoutHandlers, NEW r \in Rooms,
           SetRoomClosing(h, r)
    PROVE  BreakoutInv'
<1>1. /\ BreakoutTypeOK /\ Served(h) /\ UNCHANGED <<seat, timer, breakoutFaults>>
      /\ serving[h].at = "warn" /\ r \in serving[h].rooms
      /\ room' = [room EXCEPT ![r].status = "CLOSING"]
  BY DEF BreakoutInv, SetRoomClosing, AtRoom
<1>2. Opened(r)
  BY <1>1 DEF BreakoutInv, HandlerInv
<1>3. BreakoutTypeOK'
  BY <1>1, ServedType DEF BreakoutTypeOK
<1>4. Forward
  BY <1>1 DEF BreakoutTypeOK, Forward, Exists, Opened
<1>5. \A g \in BreakoutHandlers : HandlerInv(g)'
  BY <1>1, <1>4, ServedType, OtherHandlers
<1>6. ASSUME NEW s \in Rooms PROVE RoomInv(s)' /\ Timed(s)'
  <2>1. \A step \in {"arm", "close", "vacate", "end"} : ~AtRoom(h, step, s)
    BY <1>1 DEF AtRoom
  <2>2. CASE s = r
    <3>1. room'[r] = [room[r] EXCEPT !.status = "CLOSING"]
      BY <1>1 DEF BreakoutTypeOK
    <3>2. Opened(r)' /\ room'[r].ended = room[r].ended
      BY <3>1, <1>1 DEF BreakoutTypeOK, Opened
    <3>3. RoomInv(r)'
      BY <1>1, <3>1, <3>2 DEF BreakoutTypeOK, RoomInv
    <3>4. room[r].status = "CLOSED" => room[r].ended
      BY DEF BreakoutInv, RoomInv
    <3>5. InHand(r) => InHand(r)'
      BY <1>1, <2>1, <2>2, ServedType DEF InHand, AtRoom
    <3>6. room[r].status \in {"ACTIVE", "CLOSING", "CLOSED"}
      BY <1>1, <1>2 DEF BreakoutTypeOK, Opened
    <3>7. Timed(r)'
      BY <1>1, <3>2, <3>4, <3>5, <3>6 DEF BreakoutInv, Timed
    <3>8. QED BY <2>2, <3>3, <3>7
  <2>3. CASE s # r
    <3>1. room'[s] = room[s]
      BY <1>1, <2>3 DEF BreakoutTypeOK
    <3>2. QED BY <1>1, <2>1, <3>1, ServedType, StaysTimed
  <2>4. QED BY <2>2, <2>3
<1>7. QED BY <1>3, <1>5, <1>6 DEF BreakoutInv

LEMMA TimerEndsStep ==
    ASSUME BreakoutInv, NEW h \in BreakoutHandlers, NEW i \in Instances,
           NEW r \in Rooms, TimerEnds(h, i, r)
    PROVE  BreakoutInv'
<1>1. /\ BreakoutTypeOK /\ Serves(h, i, "close", {r}, "timer")
      /\ UNCHANGED <<room, seat, breakoutFaults>>
      /\ "close" \in BreakoutSteps /\ "timer" \in Attendees \cup {"none", "timer"}
      /\ serving[h].at = "idle"
      /\ timer' = [timer EXCEPT ![r][i] = "off"]
  BY DEF BreakoutInv, TimerEnds, BreakoutSteps, Serves
<1>2. serving'[h] = [at |-> "close", on |-> i, rooms |-> {r}, by |-> "timer"]
  BY <1>1, ServesType
<1>3. HandlerInv(h)'
  BY <1>2 DEF HandlerInv
<1>4. /\ \A g \in BreakoutHandlers \ {h} : serving'[g] = serving[g]
      /\ serving' \in [BreakoutHandlers -> Tasks]
  BY <1>1, ServesType
<1>5. BreakoutTypeOK'
  BY <1>1, <1>4 DEF BreakoutTypeOK
<1>6. Forward
  BY <1>1 DEF Forward, Exists, Opened
<1>7. \A g \in BreakoutHandlers : HandlerInv(g)'
  BY <1>3, <1>4, <1>6, OtherHandlers
<1>8. ASSUME NEW s \in Rooms PROVE RoomInv(s)' /\ Timed(s)'
  <2>1. CASE s = r
    <3>1. AtRoom(h, "close", r)'
      BY <1>2 DEF AtRoom
    <3>2. \A j \in Instances : timer'[r][j] # "off" => timer[r][j] # "off"
      BY <1>1 DEF BreakoutTypeOK
    <3>3. RoomInv(r)'
      BY <1>1, <3>2 DEF BreakoutInv, RoomInv, Opened
    <3>4. QED BY <2>1, <3>1, <3>3 DEF Timed, InHand
  <2>2. CASE s # r
    <3>1. \A step \in {"arm", "close", "vacate", "end"} : ~AtRoom(h, step, s)
      BY <1>1 DEF AtRoom
    <3>2. timer'[s] = timer[s]
      BY <1>1, <2>2 DEF BreakoutTypeOK
    <3>3. QED BY <1>1, <1>4, <3>1, <3>2, StaysTimed
  <2>3. QED BY <2>1, <2>2
<1>9. QED BY <1>5, <1>7, <1>8 DEF BreakoutInv

-----------------------------------------------------------------------------
(* Closing a room, and all of them *)

LEMMA CloseRoomStep ==
    ASSUME BreakoutInv, NEW h \in BreakoutHandlers, NEW i \in Instances,
           NEW r \in Rooms, CloseRoom(h, i, r)
    PROVE  BreakoutInv'
<1>1. /\ BreakoutTypeOK /\ Serves(h, i, "close", {r}, "none")
      /\ UNCHANGED <<room, seat, timer, breakoutFaults>>
      /\ "close" \in BreakoutSteps /\ "none" \in Attendees \cup {"none", "timer"}
      /\ serving[h].at = "idle"
  BY DEF BreakoutInv, CloseRoom, BreakoutSteps, Serves
<1>2. serving'[h] = [at |-> "close", on |-> i, rooms |-> {r}, by |-> "none"]
  BY <1>1, ServesType
<1>3. HandlerInv(h)'
  BY <1>2 DEF HandlerInv
<1>4. \A s \in Rooms, step \in {"arm", "close", "vacate", "end"} : ~AtRoom(h, step, s)
  BY <1>1 DEF AtRoom
<1>5. /\ \A g \in BreakoutHandlers \ {h} : serving'[g] = serving[g]
      /\ serving' \in [BreakoutHandlers -> Tasks]
  BY <1>1, ServesType
<1>6. QED BY <1>1, <1>3, <1>4, <1>5, OnlyServing DEF BreakoutTypeOK

\* Whoever gives up has found the room closed, hence ended.
LEMMA CheckNotClosedStep ==
    ASSUME BreakoutInv, NEW h \in BreakoutHandlers, NEW r \in Rooms,
           CheckNotClosed(h, r)
    PROVE  BreakoutInv'
<1>1. /\ BreakoutTypeOK /\ UNCHANGED <<room, seat, timer, breakoutFaults>>
      /\ serving[h].at = "close" /\ r \in serving[h].rooms
      /\ "vacate" \in BreakoutSteps
  BY DEF BreakoutInv, CheckNotClosed, AtRoom, BreakoutSteps
<1>2. serving[h].rooms = {r} /\ serving[h].on \in Instances
  BY <1>1 DEF BreakoutInv, HandlerInv
<1>3. CASE MovesTo(h, "vacate")
  <2>1. HandlerInv(h)' /\ AtRoom(h, "vacate", r)'
    BY <1>1, <1>2, <1>3, MovesToType DEF HandlerInv, AtRoom
  <2>2. \A s \in Rooms, step \in {"arm", "close", "vacate", "end"} :
            AtRoom(h, step, s) => InHand(s)'
    BY <1>2, <2>1 DEF AtRoom, InHand
  <2>3. QED BY <1>1, <1>3, <2>1, <2>2, MovesToType, OnlyServing DEF BreakoutTypeOK
<1>4. CASE ~NotClosed(r) /\ Served(h)
  <2>1. room[r].ended
    BY <1>4 DEF NotClosed, BreakoutInv, RoomInv
  <2>2. \A s \in Rooms, step \in {"arm", "close", "vacate", "end"} :
            AtRoom(h, step, s) => room[s].ended
    BY <1>2, <2>1 DEF AtRoom
  <2>3. QED BY <1>1, <1>4, <2>2, ServedType, OnlyServing DEF BreakoutTypeOK
<1>5. QED BY <1>3, <1>4 DEF CheckNotClosed

LEMMA VacateRoomStep ==
    ASSUME BreakoutInv, NEW h \in BreakoutHandlers, NEW r \in Rooms, VacateRoom(h, r)
    PROVE  BreakoutInv'
<1>1. /\ BreakoutTypeOK /\ UNCHANGED <<room, timer, breakoutFaults>>
      /\ serving[h].at = "vacate" /\ r \in serving[h].rooms
      /\ "end" \in BreakoutSteps /\ MovesTo(h, "end") /\ seat' = Vacated({r})
  BY DEF BreakoutInv, VacateRoom, AtRoom, BreakoutSteps
<1>2. serving[h].rooms = {r} /\ serving[h].on \in Instances
  BY <1>1 DEF BreakoutInv, HandlerInv
<1>3. HandlerInv(h)' /\ AtRoom(h, "end", r)'
  BY <1>1, <1>2, MovesToType DEF HandlerInv, AtRoom
<1>4. \A s \in Rooms, step \in {"arm", "close", "vacate", "end"} :
          AtRoom(h, step, s) => InHand(s)'
  BY <1>2, <1>3 DEF AtRoom, InHand
<1>5. seat' \in [Rooms -> [Attendees -> {"none", "in", "left"}]]
  BY <1>1 DEF Vacated, BreakoutTypeOK
<1>6. QED BY <1>1, <1>3, <1>4, <1>5, MovesToType, OnlyServing

LEMMA EndRoomStep ==
    ASSUME BreakoutInv, NEW h \in BreakoutHandlers, NEW r \in Rooms, EndRoom(h, r)
    PROVE  BreakoutInv'
<1>1. /\ BreakoutTypeOK /\ UNCHANGED <<seat, timer, breakoutFaults>>
      /\ serving[h].at = "end" /\ r \in serving[h].rooms
      /\ "cancel" \in BreakoutSteps
      /\ room' = [room EXCEPT ![r] = [status |-> "CLOSED", ended |-> TRUE]]
      /\ Served(h) \/ MovesTo(h, "cancel")
  BY DEF BreakoutInv, EndRoom, AtRoom, BreakoutSteps
<1>2. serving[h].rooms = {r} /\ serving[h].on \in Instances
  BY <1>1 DEF BreakoutInv, HandlerInv
<1>3. room'[r] = [status |-> "CLOSED", ended |-> TRUE]
  BY <1>1 DEF BreakoutTypeOK
<1>4. /\ serving' \in [BreakoutHandlers -> Tasks]
      /\ \A g \in BreakoutHandlers \ {h} : serving'[g] = serving[g]
  BY <1>1, ServedType, MovesToType
<1>5. BreakoutTypeOK'
  BY <1>1, <1>4 DEF BreakoutTypeOK
<1>6. Forward
  BY <1>1, <1>3 DEF BreakoutTypeOK, Forward, Exists, Opened
<1>7. HandlerInv(h)'
  <2>1. CASE Served(h)
    BY <1>1, <2>1, ServedType
  <2>2. CASE MovesTo(h, "cancel")
    BY <1>1, <1>2, <1>3, <2>2, MovesToType DEF HandlerInv
  <2>3. QED BY <1>1, <2>1, <2>2
<1>8. \A g \in BreakoutHandlers : HandlerInv(g)'
  BY <1>4, <1>6, <1>7, OtherHandlers
<1>9. ASSUME NEW s \in Rooms PROVE RoomInv(s)' /\ Timed(s)'
  <2>1. CASE s = r
    BY <2>1, <1>3 DEF RoomInv, Timed, Opened
  <2>2. CASE s # r
    <3>1. \A step \in {"arm", "close", "vacate", "end"} : ~AtRoom(h, step, s)
      BY <1>2, <2>2 DEF AtRoom
    <3>2. room'[s] = room[s]
      BY <1>1, <2>2 DEF BreakoutTypeOK
    <3>3. QED BY <1>1, <1>4, <3>1, <3>2, StaysTimed
  <2>3. QED BY <2>1, <2>2
<1>10. QED BY <1>5, <1>8, <1>9 DEF BreakoutInv

LEMMA RecallAllStep ==
    ASSUME BreakoutInv, NEW h \in BreakoutHandlers, NEW i \in Instances,
           RecallAll(h, i)
    PROVE  BreakoutInv'
<1> DEFINE open == {r \in Rooms : Open(r)}
<1>1. /\ BreakoutTypeOK /\ Serves(h, i, "recall", open, "none")
      /\ UNCHANGED <<room, seat, timer, breakoutFaults>>
      /\ "recall" \in BreakoutSteps /\ "none" \in Attendees \cup {"none", "timer"}
      /\ serving[h].at = "idle"
  BY DEF BreakoutInv, RecallAll, BreakoutSteps, Serves
<1>2. open \in SUBSET Rooms /\ \A r \in open : Exists(r)
  BY DEF Open, Exists
<1> HIDE DEF open
<1>3. serving'[h] = [at |-> "recall", on |-> i, rooms |-> open, by |-> "none"]
  BY <1>1, <1>2, ServesType
<1>4. HandlerInv(h)'
  BY <1>1, <1>2, <1>3 DEF HandlerInv, Exists
<1>5. \A s \in Rooms, step \in {"arm", "close", "vacate", "end"} : ~AtRoom(h, step, s)
  BY <1>1 DEF AtRoom
<1>6. /\ \A g \in BreakoutHandlers \ {h} : serving'[g] = serving[g]
      /\ serving' \in [BreakoutHandlers -> Tasks]
  BY <1>1, <1>2, ServesType
<1>7. QED BY <1>1, <1>4, <1>5, <1>6, OnlyServing DEF BreakoutTypeOK

\* Every room that was read is closed by now, or was closed and ended before.
LEMMA CloseAllRoomsStep ==
    ASSUME BreakoutInv, NEW h \in BreakoutHandlers, CloseAllRooms(h)
    PROVE  BreakoutInv'
<1> DEFINE open == {r \in Rooms : Open(r)}
<1>1. /\ BreakoutTypeOK /\ UNCHANGED <<timer, breakoutFaults>>
      /\ serving[h].at = "recall" /\ MovesTo(h, "cancel")
      /\ "cancel" \in BreakoutSteps /\ seat' = Vacated(open)
      /\ room' = [r \in Rooms |-> IF r \in open
                                  THEN [status |-> "CLOSED", ended |-> TRUE]
                                  ELSE room[r]]
  BY DEF BreakoutInv, CloseAllRooms, BreakoutSteps
<1>2. /\ serving[h].on \in Instances /\ serving[h].rooms \subseteq Rooms
      /\ \A r \in serving[h].rooms : Exists(r)
  BY <1>1 DEF BreakoutInv, BreakoutTypeOK, HandlerInv, Tasks
<1>3. BreakoutTypeOK'
  BY <1>1, MovesToType DEF BreakoutTypeOK, Vacated
<1>4. Forward
  BY <1>1 DEF BreakoutTypeOK, Forward, Exists, Opened
<1>5. \A r \in serving[h].rooms : room'[r].ended
  <2> SUFFICES ASSUME NEW r \in serving[h].rooms PROVE room'[r].ended
    OBVIOUS
  <2>1. CASE r \in open
    BY <1>1, <1>2, <2>1
  <2>2. CASE r \notin open
    <3>1. room[r].status = "CLOSED"
      BY <1>2, <2>2 DEF Open, Exists
    <3>2. room[r].ended /\ room'[r] = room[r]
      BY <1>1, <1>2, <2>2, <3>1 DEF BreakoutInv, RoomInv
    <3>3. QED BY <3>2
  <2>3. QED BY <2>1, <2>2
<1>6. HandlerInv(h)'
  BY <1>1, <1>2, <1>5, MovesToType DEF HandlerInv
<1>7. \A g \in BreakoutHandlers : HandlerInv(g)'
  BY <1>1, <1>4, <1>6, MovesToType, OtherHandlers
<1>8. ASSUME NEW s \in Rooms PROVE RoomInv(s)' /\ Timed(s)'
  <2>1. CASE s \in open
    BY <1>1, <2>1 DEF RoomInv, Timed, Opened
  <2>2. CASE s \notin open
    <3>1. \A step \in {"arm", "close", "vacate", "end"} : ~AtRoom(h, step, s)
      BY <1>1 DEF AtRoom
    <3>2. room'[s] = room[s]
      BY <1>1, <2>2
    <3>3. QED BY <1>1, <3>1, <3>2, MovesToType, StaysTimed
  <2>3. QED BY <2>1, <2>2
<1>9. QED BY <1>3, <1>7, <1>8 DEF BreakoutInv

\* Only rooms that have been ended lose a timer.
LEMMA CancelRoomTimersStep ==
    ASSUME BreakoutInv, NEW h \in BreakoutHandlers, CancelRoomTimers(h)
    PROVE  BreakoutInv'
<1>1. /\ BreakoutTypeOK /\ UNCHANGED <<room, seat, breakoutFaults>>
      /\ serving[h].at = "cancel" /\ Served(h)
      /\ timer' = [r \in Rooms |-> [i \in Instances |->
                      IF r \in serving[h].rooms /\ i = serving[h].on
                      THEN "off" ELSE timer[r][i]]]
  BY DEF BreakoutInv, CancelRoomTimers
<1>2. \A r \in serving[h].rooms : room[r].ended
  BY <1>1 DEF BreakoutInv, HandlerInv
<1>3. BreakoutTypeOK'
  BY <1>1, ServedType DEF BreakoutTypeOK
<1>4. Forward
  BY <1>1 DEF Forward, Exists, Opened
<1>5. \A g \in BreakoutHandlers : HandlerInv(g)'
  BY <1>1, <1>4, ServedType, OtherHandlers
<1>6. ASSUME NEW s \in Rooms PROVE RoomInv(s)' /\ Timed(s)'
  <2>1. RoomInv(s)'
    BY <1>1 DEF BreakoutInv, RoomInv, Opened
  <2>2. CASE s \in serving[h].rooms
    BY <1>1, <1>2, <2>1, <2>2 DEF Timed
  <2>3. CASE s \notin serving[h].rooms
    <3>1. \A step \in {"arm", "close", "vacate", "end"} : ~AtRoom(h, step, s)
      BY <1>1 DEF AtRoom
    <3>2. timer'[s] = timer[s]
      BY <1>1, <2>3 DEF BreakoutTypeOK
    <3>3. QED BY <1>1, <3>1, <3>2, ServedType, StaysTimed
  <2>4. QED BY <2>1, <2>2, <2>3
<1>7. QED BY <1>3, <1>5, <1>6 DEF BreakoutInv

-----------------------------------------------------------------------------
(* Restarts and failed queries: rows stay, handlers and timers only go. *)

\* After a fault only the types and what handlers and timers rely on matter.
LEMMA FaultStep ==
    ASSUME BreakoutInv, UNCHANGED <<room, seat>>,
           breakoutFaults < MaxBreakoutFaults, breakoutFaults' = breakoutFaults + 1,
           serving' \in [BreakoutHandlers -> Tasks],
           \A h \in BreakoutHandlers : serving'[h] \in {serving[h], NotServing},
           timer' \in [Rooms -> [Instances -> {"off", "armed", "warned"}]],
           \A r \in Rooms, i \in Instances : timer'[r][i] \in {timer[r][i], "off"}
    PROVE  BreakoutInv'
<1>1. BreakoutTypeOK'
  BY BreakoutBoundsAssumption DEF BreakoutInv, BreakoutTypeOK
<1>2. ASSUME NEW h \in BreakoutHandlers PROVE HandlerInv(h)'
  <2>1. CASE serving'[h] = NotServing
    BY <2>1 DEF HandlerInv, NotServing
  <2>2. CASE serving'[h] = serving[h]
    BY <2>2 DEF BreakoutInv, HandlerInv, Opened, Exists
  <2>3. QED BY <2>1, <2>2
<1>3. ASSUME NEW r \in Rooms PROVE RoomInv(r)' /\ Timed(r)'
  <2>1. RoomInv(r)'
    BY DEF BreakoutInv, RoomInv, Opened
  <2>2. breakoutFaults' # 0
    BY DEF BreakoutInv, BreakoutTypeOK
  <2>3. QED BY <2>1, <2>2 DEF Timed
<1>4. QED BY <1>1, <1>2, <1>3 DEF BreakoutInv

LEMMA RestartInstanceStep ==
    ASSUME BreakoutInv, NEW i \in Instances, RestartInstance(i)
    PROVE  BreakoutInv'
<1>1. /\ serving' \in [BreakoutHandlers -> Tasks]
      /\ \A h \in BreakoutHandlers : serving'[h] \in {serving[h], NotServing}
  BY DEF BreakoutInv, BreakoutTypeOK, RestartInstance, NotServing, Tasks,
         BreakoutSteps
<1>2. /\ timer' \in [Rooms -> [Instances -> {"off", "armed", "warned"}]]
      /\ \A r \in Rooms, j \in Instances : timer'[r][j] \in {timer[r][j], "off"}
  BY DEF BreakoutInv, BreakoutTypeOK, RestartInstance
<1>3. QED BY <1>1, <1>2, FaultStep DEF RestartInstance

LEMMA QueryFailsStep ==
    ASSUME BreakoutInv, NEW h \in BreakoutHandlers, QueryFails(h)
    PROVE  BreakoutInv'
<1>1. BreakoutTypeOK /\ Served(h)
  BY DEF BreakoutInv, QueryFails
<1>2. /\ serving' \in [BreakoutHandlers -> Tasks]
      /\ \A g \in BreakoutHandlers : serving'[g] \in {serving[g], NotServing}
  BY <1>1, ServedType
<1>3. /\ timer' \in [Rooms -> [Instances -> {"off", "armed", "warned"}]]
      /\ \A r \in Rooms, i \in Instances : timer'[r][i] \in {timer[r][i], "off"}
  BY <1>1 DEF BreakoutTypeOK, QueryFails
<1>4. QED BY <1>2, <1>3, FaultStep DEF QueryFails

-----------------------------------------------------------------------------
(* The theorems *)

LEMMA BreakoutInvStep ==
    BreakoutInv /\ [BreakoutNext]_breakoutVars => BreakoutInv'
<1> SUFFICES ASSUME BreakoutInv, [BreakoutNext]_breakoutVars PROVE BreakoutInv'
  OBVIOUS
<1>1. ASSUME NEW r \in Rooms, CreateRoom(r) PROVE BreakoutInv'
  BY <1>1, CreateRoomStep
<1>2. ASSUME NEW r \in Rooms, NEW a \in Attendees, LeaveRoom(r, a)
      PROVE  BreakoutInv'
  BY <1>2, LeaveRoomStep
<1>3. ASSUME NEW h \in BreakoutHandlers, BreakoutStep(h) PROVE BreakoutInv'
  <2>1. CASE CloseAllRooms(h) \/ CancelRoomTimers(h) \/ QueryFails(h)
    BY <2>1, CloseAllRoomsStep, CancelRoomTimersStep, QueryFailsStep
  <2>2. ASSUME NEW r \in Rooms,
               \/ CheckOtherRooms(h, r) \/ TakeSeat(h, r)
               \/ WriteActive(h, r) \/ StartRoomTimer(h, r)
        PROVE  BreakoutInv'
    BY <2>2, CheckOtherRoomsStep, TakeSeatStep, WriteActiveStep, StartRoomTimerStep
  <2>3. ASSUME NEW r \in Rooms,
               \/ SetRoomClosing(h, r) \/ CheckNotClosed(h, r)
               \/ VacateRoom(h, r) \/ EndRoom(h, r)
        PROVE  BreakoutInv'
    BY <2>3, SetRoomClosingStep, CheckNotClosedStep, VacateRoomStep, EndRoomStep
  <2>4. QED BY <1>3, <2>1, <2>2, <2>3 DEF BreakoutStep
<1>4. ASSUME NEW h \in BreakoutHandlers, NEW i \in Instances,
             BreakoutArrives(h, i)
      PROVE  BreakoutInv'
  <2>1. CASE RecallAll(h, i)
    BY <2>1, RecallAllStep
  <2>2. ASSUME NEW r \in Rooms,
               \/ StartRoom(h, i, r) \/ CloseRoom(h, i, r)
               \/ TimerWarns(h, i, r) \/ TimerEnds(h, i, r)
        PROVE  BreakoutInv'
    BY <2>2, StartRoomStep, CloseRoomStep, TimerWarnsStep, TimerEndsStep
  <2>3. ASSUME NEW r \in Rooms, NEW a \in Attendees, Join(h, i, r, a)
        PROVE  BreakoutInv'
    BY <2>3, JoinStep
  <2>4. QED BY <1>4, <2>1, <2>2, <2>3 DEF BreakoutArrives
<1>5. ASSUME NEW i \in Instances, RestartInstance(i) PROVE BreakoutInv'
  BY <1>5, RestartInstanceStep
<1>6. CASE UNCHANGED breakoutVars
  BY <1>6 DEF breakoutVars, BreakoutInv, BreakoutTypeOK, HandlerInv, RoomInv, Timed,
              Opened, Exists, InHand, AtRoom
<1>7. QED BY <1>1, <1>2, <1>3, <1>4, <1>5, <1>6 DEF BreakoutNext

\* The rows, the timers of every instance and the handlers keep their types in
\* every behaviour of the breakout rooms (breakout.gateway.ts).
THEOREM BreakoutTypes == BreakoutSpec => []BreakoutTypeOK
<1>1. BreakoutInv => BreakoutTypeOK
  BY DEF BreakoutInv
<1>2. QED BY <1>1, BreakoutInitInv, BreakoutInvStep, PTL DEF BreakoutSpec

\* For any number of rooms, instances and handlers, and as long as nothing has
\* failed, a room that is open and was never ended has a timer or a handler
\* that will close it (handleStartRoom, startRoomTimer, handleTimerEnd).
THEOREM BreakoutOpenRoomsTimed == BreakoutSpec => []OpenRoomsAreTimed
<1>1. BreakoutInv => OpenRoomsAreTimed
  BY DEF BreakoutInv, Timed, OpenRoomsAreTimed
<1>2. QED BY <1>1, BreakoutInitInv, BreakoutInvStep, PTL DEF BreakoutSpec

-----------------------------------------------------------------------------
(***************************************************************************)
(* Theorems about ExpoBooth for every number of booths, visitors, sockets, *)
(* places and messages at work: an admission passes nobody who has waited  *)
(* longer.                                                                 *)
(***************************************************************************)

RowTypes ==
    [status : {"none", "WAITING", "ADMITTED", "ENTERED", "LEFT", "EXPIRED"},
     position : 0 .. MaxPosition, socket : ExpoSockets \cup {"none"},
     by : ExpoSockets \cup {"none"}]

VisitTypes == [booth : Booths, by : ExpoSockets, user : Visitors,
               socket : ExpoSockets]

MessageTypes ==
    [at : {"idle", "queued?", "mark", "count", "last", "queue", "switch", "clean",
           "visit", "exit", "unqueue", "expire", "find", "admit"},
     booth : Booths \cup {"none"}, visit : ExpoSockets \cup {"none"},
     found : Visitors \cup {"none", "gone"}, position : Nat, closing : BOOLEAN]

\* A message at work is about a booth, except for the last step of a disconnect.
HasBooth(msg) == msg.at \notin {"idle", "unqueue"} => msg.booth \in Booths

MessagesTyped ==
    /\ message \in [ExpoSockets -> MessageTypes]
    /\ \A k \in ExpoSockets : HasBooth(message[k])

ExpoTypes == ExpoTypeOK /\ MessagesTyped

LEMMA ExpoInitTypes == ExpoInit => ExpoTypes
<1> SUFFICES ASSUME ExpoInit PROVE ExpoTypes
  OBVIOUS
<1>1. NoEntry \in RowTypes
  BY BoothBoundsAssumption DEF NoEntry, RowTypes
<1>2. IdleMessage \in MessageTypes /\ HasBooth(IdleMessage)
  BY DEF IdleMessage, MessageTypes, HasBooth
<1>3. ExpoTypeOK
  BY <1>1 DEF ExpoInit, ExpoTypeOK, RowTypes
<1> QED BY <1>2, <1>3 DEF ExpoInit, ExpoTypes, MessagesTyped

\* One message goes on.
LEMMA MessageMoves ==
    ASSUME MessagesTyped, NEW k \in ExpoSockets, NEW msg \in MessageTypes,
           HasBooth(msg), message' = [message EXCEPT ![k] = msg]
    PROVE  /\ MessagesTyped'
           /\ \A j \in ExpoSockets : message'[j] = IF j = k THEN msg ELSE message[j]
BY DEF MessagesTyped, HasBooth

LEMMA MessageEnds ==
    ASSUME MessagesTyped, NEW k \in ExpoSockets, Ends(k)
    PROVE  /\ MessagesTyped'
           /\ \A j \in ExpoSockets : message'[j] = IF j = k THEN IdleMessage
                                                   ELSE message[j]
<1>1. IdleMessage \in MessageTypes /\ HasBooth(IdleMessage)
  BY DEF IdleMessage, MessageTypes, HasBooth
<1> QED BY <1>1, MessageMoves DEF Ends

LEMMA MessageGoes ==
    ASSUME MessagesTyped, NEW k \in ExpoSockets, message[k].booth \in Booths,
           NEW step \in {"mark", "count", "last", "queue", "switch", "clean",
                         "visit", "exit", "expire", "find", "admit"},
           Goes(k, step)
    PROVE  /\ MessagesTyped'
           /\ \A j \in ExpoSockets : j # k => message'[j] = message[j]
           /\ message'[k].at = step /\ message'[k].booth = message[k].booth
           /\ message'[k].found = message[k].found
           /\ message'[k].position = message[k].position
<1>1. PICK msg : msg = [message[k] EXCEPT !.at = step]
  OBVIOUS
<1>2. message[k] \in MessageTypes
  BY DEF MessagesTyped
<1>3. /\ msg \in MessageTypes /\ HasBooth(msg)
      /\ msg.at = step /\ msg.booth = message[k].booth
      /\ msg.found = message[k].found /\ msg.position = message[k].position
  BY <1>1, <1>2 DEF MessageTypes, HasBooth
<1>4. message' = [message EXCEPT ![k] = msg]
  BY <1>1 DEF Goes
<1>5. /\ MessagesTyped'
      /\ \A j \in ExpoSockets : message'[j] = IF j = k THEN msg ELSE message[j]
  BY <1>3, <1>4, MessageMoves
<1> QED BY <1>3, <1>5

LEMMA MessageAdmitted ==
    ASSUME MessagesTyped, NEW k \in ExpoSockets, Admitted(k)
    PROVE  /\ MessagesTyped'
           /\ \A j \in ExpoSockets : j # k => message'[j] = message[j]
           /\ message'[k].at \in {"idle", "unqueue"}
<1>1. PICK msg : /\ msg = IF message[k].closing
                          THEN [IdleMessage EXCEPT !.at = "unqueue", !.closing = TRUE]
                          ELSE IdleMessage
                 /\ message' = [message EXCEPT ![k] = msg]
  BY DEF Admitted
<1>2. msg \in MessageTypes /\ HasBooth(msg) /\ msg.at \in {"idle", "unqueue"}
  BY <1>1 DEF MessageTypes, HasBooth, IdleMessage
<1>3. message' = [message EXCEPT ![k] = msg]
  BY <1>1
<1>4. /\ MessagesTyped'
      /\ \A j \in ExpoSockets : message'[j] = IF j = k THEN msg ELSE message[j]
  BY <1>2, <1>3, MessageMoves
<1> QED BY <1>2, <1>4

\* What a message at work knows.
LEMMA MessageAt ==
    ASSUME MessagesTyped, NEW k \in ExpoSockets
    PROVE  /\ message[k] \in MessageTypes
           /\ message[k].at \notin {"idle", "unqueue"} => message[k].booth \in Booths
           /\ VisitorOf[k] \in Visitors
BY VisitorOfAssumption DEF MessagesTyped, HasBooth

\* Closed visits, and the messages that looked for them.
LEMMA VisitsCloseTypes ==
    ASSUME ExpoTypes, NEW k \in ExpoSockets, message[k].booth \in Booths,
           NEW closed, NEW step \in {"clean", "expire"}, VisitsClose(k, closed, step)
    PROVE  /\ MessagesTyped' /\ visits' \subseteq visits
           /\ message'[k].at = step
           /\ \A j \in ExpoSockets :
                 /\ j # k => message'[j].at = message[j].at
                 /\ message'[j].booth = message[j].booth
                 /\ message'[j].found = message[j].found
                 /\ message'[j].position = message[j].position
<1>1. message \in [ExpoSockets -> MessageTypes]
      /\ \A j \in ExpoSockets : HasBooth(message[j])
  BY DEF ExpoTypes, MessagesTyped
<1>2. message' = [j \in ExpoSockets |-> message'[j]]
  BY DEF VisitsClose
<1>3. ASSUME NEW j \in ExpoSockets
      PROVE  /\ message'[j] \in MessageTypes /\ HasBooth(message'[j])
             /\ j # k => message'[j].at = message[j].at
             /\ j = k => message'[j].at = step
             /\ message'[j].booth = message[j].booth
             /\ message'[j].found = message[j].found
             /\ message'[j].position = message[j].position
  <2>1. message[j] \in MessageTypes /\ HasBooth(message[j])
    BY <1>1
  <2>2. CASE j = k
    <3>1. message'[j] = [message[k] EXCEPT !.at = step, !.visit = "none"]
      BY <2>2 DEF VisitsClose
    <3>2. message'[j].booth \in Booths
      BY <2>1, <2>2, <3>1 DEF MessageTypes
    <3> QED BY <2>1, <2>2, <3>1, <3>2 DEF MessageTypes, HasBooth
  <2>3. CASE j # k
    <3>1. message'[j] \in {[message[j] EXCEPT !.visit = "none"], message[j]}
      BY <2>3 DEF VisitsClose
    <3> QED BY <2>1, <2>3, <3>1 DEF MessageTypes, HasBooth
  <2> QED BY <2>2, <2>3
<1>4. visits' \subseteq visits
  BY DEF VisitsClose
<1> QED BY <1>2, <1>3, <1>4 DEF MessagesTyped

LEMMA KeptRow ==
    ASSUME NEW row \in RowTypes
    PROVE  /\ Kept(row) \in RowTypes /\ Kept(row).status = row.status
           /\ row.status = "WAITING" => Kept(row) = row
<1>1. CASE row.status = "WAITING"
  BY <1>1 DEF Kept
<1>2. CASE row.status # "WAITING"
  <2>1. PICK socket \in ExpoSockets \cup {"none"} :
          Kept(row) = [row EXCEPT !.position = 0, !.by = "none", !.socket = socket]
    BY <1>2 DEF Kept, RowTypes
  <2>2. 0 \in 0..MaxPosition
    BY BoothBoundsAssumption
  <2> QED BY <1>2, <2>1, <2>2 DEF RowTypes
<1> QED BY <1>1, <1>2

EntryWritten(b, u, row) ==
    /\ entries' \in [Booths -> [Visitors -> RowTypes]]
    /\ lateEntries' \subseteq lateEntries
    /\ behind' \in [Booths -> [ExpoSockets -> SUBSET Visitors]]
    /\ entries'[b][u] = Kept(row)
    /\ \A c \in Booths, w \in Visitors :
          c # b \/ w # u => entries'[c][w] = entries[c][w]
    /\ \A c \in Booths, k \in ExpoSockets :
          behind'[c][k] = IF c = b /\ row.status # "WAITING"
                          THEN behind[c][k] \ {u} ELSE behind[c][k]

\* One row of the queue is written.
LEMMA SetEntryTypes ==
    ASSUME ExpoTypeOK, NEW b \in Booths, NEW u \in Visitors, NEW row \in RowTypes,
           SetEntry(b, u, row)
    PROVE  EntryWritten(b, u, row)
<1>1. /\ entries \in [Booths -> [Visitors -> RowTypes]]
      /\ behind \in [Booths -> [ExpoSockets -> SUBSET Visitors]]
  BY DEF ExpoTypeOK, RowTypes
<1>2. PICK kept \in RowTypes : kept = Kept(row)
  BY KeptRow
<1>3. PICK rows : rows = [entries[b] EXCEPT ![u] = kept]
  OBVIOUS
<1>4. entries' = [entries EXCEPT ![b] = rows]
  BY <1>2, <1>3 DEF SetEntry
<1>5. rows \in [Visitors -> RowTypes]
      /\ \A w \in Visitors : rows[w] = IF w = u THEN kept ELSE entries[b][w]
  BY <1>1, <1>3
<1>6. /\ entries' \in [Booths -> [Visitors -> RowTypes]]
      /\ \A c \in Booths : entries'[c] = IF c = b THEN rows ELSE entries[c]
  BY <1>1, <1>4, <1>5
<1>7. /\ behind' \in [Booths -> [ExpoSockets -> SUBSET Visitors]]
      /\ \A c \in Booths, k \in ExpoSockets :
            behind'[c][k] = IF c = b /\ row.status # "WAITING"
                            THEN behind[c][k] \ {u} ELSE behind[c][k]
  <2>1. CASE row.status = "WAITING"
    BY <1>1, <2>1 DEF SetEntry
  <2>2. CASE row.status # "WAITING"
    <3>1. PICK sets : sets = [k \in ExpoSockets |-> behind[b][k] \ {u}]
      OBVIOUS
    <3>2. behind' = [behind EXCEPT ![b] = sets]
      BY <2>2, <3>1 DEF SetEntry
    <3>3. sets \in [ExpoSockets -> SUBSET Visitors]
      BY <1>1, <3>1
    <3> QED BY <1>1, <2>2, <3>1, <3>2, <3>3
  <2> QED BY <2>1, <2>2
<1>8. lateEntries' \subseteq lateEntries
  BY DEF SetEntry
<1> QED BY <1>2, <1>5, <1>6, <1>7, <1>8 DEF EntryWritten

-----------------------------------------------------------------------------
(* Places in the queue *)

Waits(b, u) == entries[b][u].status = "WAITING"

\* Who waits has a place behind those who waited when it was found.
QueuedBehind ==
    \A b \in Booths, u \in Visitors : Waits(b, u) =>
        /\ entries[b][u].by \in ExpoSockets /\ VisitorOf[entries[b][u].by] = u
        /\ \A w \in behind[b][entries[b][u].by] :
              Waits(b, w) /\ entries[b][w].position < entries[b][u].position

\* A place that was found is behind theirs, a socket that looks for a place has
\* made no entry that waits, and whoever is found to be the next is behind
\* nobody.  A row that was found is not deleted unnoticed.
Fits(k, msg) ==
    /\ msg.at = "queue" => \A w \in behind[msg.booth][k] :
          Waits(msg.booth, w) /\ entries[msg.booth][w].position < msg.position
    /\ msg.at \in {"count", "last", "queue"} => \A u \in Visitors :
          Waits(msg.booth, u) => entries[msg.booth][u].by # k
    /\ msg.at = "admit" /\ msg.found \in Visitors =>
          /\ entries[msg.booth][msg.found] # NoEntry
          /\ Waits(msg.booth, msg.found) =>
                behind[msg.booth][entries[msg.booth][msg.found].by] = {}

\* Only admitted visitors are late.
LateWereAdmitted ==
    \A e \in lateEntries : entries[e.booth][e.user].status = "ADMITTED"

PlacesFit ==
    /\ QueuedBehind /\ LateWereAdmitted
    /\ \A k \in ExpoSockets : Fits(k, message[k])

ExpoInv == ExpoTypes /\ PlacesFit

\* Steps after which nobody new waits, and who no longer waits is no longer
\* waited behind.
QueueGoesOn ==
    \A b \in Booths :
        /\ \A u \in Visitors : Waits(b, u)' =>
              /\ Waits(b, u)
              /\ entries'[b][u].position = entries[b][u].position
              /\ entries'[b][u].by = entries[b][u].by
        /\ \A k \in ExpoSockets :
              /\ behind'[b][k] \subseteq behind[b][k]
              /\ \A w \in behind'[b][k] : Waits(b, w) => Waits(b, w)'

\* Of a message its place does not depend on the visit.
SamePlace(msg, old) ==
    /\ msg.at = old.at /\ msg.booth = old.booth
    /\ msg.found = old.found /\ msg.position = old.position

LEMMA RowsTyped ==
    ASSUME ExpoTypeOK
    PROVE  /\ entries \in [Booths -> [Visitors -> RowTypes]]
           /\ behind \in [Booths -> [ExpoSockets -> SUBSET Visitors]]
           /\ lateEntries \subseteq [booth : Booths, user : Visitors]
           /\ visits \subseteq VisitTypes
BY DEF ExpoTypeOK, RowTypes, VisitTypes

LEMMA TypedAgain ==
    ASSUME entries' \in [Booths -> [Visitors -> RowTypes]],
           behind' \in [Booths -> [ExpoSockets -> SUBSET Visitors]],
           lateEntries' \subseteq [booth : Booths, user : Visitors],
           visits' \subseteq VisitTypes
    PROVE  ExpoTypeOK'
BY DEF ExpoTypeOK, RowTypes, VisitTypes

LEMMA PlacesStay ==
    ASSUME ExpoInv, QueueGoesOn
    PROVE  QueuedBehind'
<1> SUFFICES ASSUME NEW b \in Booths, NEW u \in Visitors, Waits(b, u)'
             PROVE  /\ entries'[b][u].by \in ExpoSockets
                    /\ VisitorOf[entries'[b][u].by] = u
                    /\ \A w \in behind'[b][entries'[b][u].by] :
                          /\ Waits(b, w)'
                          /\ entries'[b][w].position < entries'[b][u].position
  BY DEF QueuedBehind
<1>1. /\ Waits(b, u)
      /\ entries'[b][u].position = entries[b][u].position
      /\ entries'[b][u].by = entries[b][u].by
  BY DEF QueueGoesOn
<1>2. PICK k : k = entries[b][u].by
  OBVIOUS
<1>3. /\ k \in ExpoSockets /\ VisitorOf[k] = u
      /\ \A w \in behind[b][k] : Waits(b, w) /\ entries[b][w].position < entries[b][u].position
  BY <1>1, <1>2 DEF ExpoInv, PlacesFit, QueuedBehind
<1>4. ASSUME NEW w \in behind'[b][k]
      PROVE  Waits(b, w)' /\ entries'[b][w].position < entries'[b][u].position
  <2>1. w \in behind[b][k] /\ w \in Visitors
    BY <1>3, <1>4, RowsTyped DEF QueueGoesOn, ExpoInv, ExpoTypes
  <2>2. Waits(b, w)'
    BY <1>3, <1>4, <2>1 DEF QueueGoesOn
  <2> QED BY <1>1, <1>3, <2>1, <2>2 DEF QueueGoesOn
<1> QED BY <1>1, <1>2, <1>3, <1>4

LEMMA PlaceFits ==
    ASSUME ExpoInv, QueueGoesOn, NEW k \in ExpoSockets, NEW msg, Fits(k, msg),
           msg.at \in {"count", "last", "queue", "admit"} => msg.booth \in Booths,
           msg.at = "admit" /\ msg.found \in Visitors =>
               entries'[msg.booth][msg.found] # NoEntry
    PROVE  Fits(k, msg)'
<1> DEFINE b == msg.booth
<1>0. \A c \in Booths, j \in ExpoSockets : behind[c][j] \subseteq Visitors
  BY RowsTyped DEF ExpoInv, ExpoTypes
<1>1. ASSUME msg.at = "queue", NEW w \in behind'[b][k]
      PROVE  Waits(b, w)' /\ entries'[b][w].position < msg.position
  <2>1. b \in Booths
    BY <1>1
  <2>2. w \in behind[b][k] /\ w \in Visitors
    BY <1>0, <1>1, <2>1 DEF QueueGoesOn
  <2>3. Waits(b, w) /\ entries[b][w].position < msg.position
    BY <1>1, <2>2 DEF Fits
  <2>4. Waits(b, w)'
    BY <1>1, <2>1, <2>3 DEF QueueGoesOn
  <2> QED BY <2>1, <2>2, <2>3, <2>4 DEF QueueGoesOn
<1>2. ASSUME msg.at \in {"count", "last", "queue"}, NEW u \in Visitors, Waits(b, u)'
      PROVE  entries'[b][u].by # k
  <2>1. b \in Booths
    BY <1>2
  <2>2. Waits(b, u) /\ entries'[b][u].by = entries[b][u].by
    BY <1>2, <2>1 DEF QueueGoesOn
  <2> QED BY <1>2, <2>2 DEF Fits
<1>3. ASSUME msg.at = "admit", msg.found \in Visitors, Waits(b, msg.found)'
      PROVE  behind'[b][entries'[b][msg.found].by] = {}
  <2>1. b \in Booths
    BY <1>3
  <2>2. Waits(b, msg.found) /\ entries'[b][msg.found].by = entries[b][msg.found].by
    BY <1>3, <2>1 DEF QueueGoesOn
  <2>3. PICK j : j = entries[b][msg.found].by
    OBVIOUS
  <2>4. j \in ExpoSockets /\ behind[b][j] = {}
    BY <1>3, <2>1, <2>2, <2>3 DEF Fits, ExpoInv, PlacesFit, QueuedBehind
  <2>5. behind'[b][j] = {}
    BY <2>1, <2>4 DEF QueueGoesOn
  <2> QED BY <2>2, <2>3, <2>5
<1> QED BY <1>1, <1>2, <1>3 DEF Fits

\* One message goes on beside a queue that goes on.
LEMMA MessagesFit ==
    ASSUME ExpoInv, QueueGoesOn, NEW k \in ExpoSockets,
           \A j \in ExpoSockets : j # k => SamePlace(message'[j], message[j]),
           \A b \in Booths, u \in Visitors :
               entries[b][u] # NoEntry => entries'[b][u] # NoEntry,
           Fits(k, message[k])'
    PROVE  QueuedBehind' /\ \A j \in ExpoSockets : Fits(j, message[j])'
<1>1. ASSUME NEW j \in ExpoSockets, j # k PROVE Fits(j, message[j])'
  <2>1. PICK msg : msg = message[j]
    OBVIOUS
  <2>2. Fits(j, msg) /\ msg \in MessageTypes /\ HasBooth(msg)
    BY <2>1 DEF ExpoInv, PlacesFit, ExpoTypes, MessagesTyped
  <2>3. /\ msg.at \in {"count", "last", "queue", "admit"} => msg.booth \in Booths
        /\ msg.at = "admit" /\ msg.found \in Visitors =>
               entries'[msg.booth][msg.found] # NoEntry
    BY <2>2 DEF Fits, HasBooth
  <2>4. Fits(j, msg)'
    BY <2>2, <2>3, PlaceFits
  <2>5. PICK new : new = message'[j]
    OBVIOUS
  <2>6. SamePlace(new, msg)
    BY <1>1, <2>1, <2>5
  <2>7. Fits(j, new)'
    BY <2>4, <2>6 DEF Fits, SamePlace
  <2> QED BY <2>5, <2>7 DEF Fits
<1> QED BY <1>1, PlacesStay

\* The rows of the queue stay as they are.
LEMMA QueueStays ==
    ASSUME ExpoInv, UNCHANGED <<entries, behind, lateEntries>>
    PROVE  /\ QueueGoesOn /\ LateWereAdmitted'
           /\ \A b \in Booths, u \in Visitors :
                 entries[b][u] # NoEntry => entries'[b][u] # NoEntry
           /\ entries' \in [Booths -> [Visitors -> RowTypes]]
           /\ behind' \in [Booths -> [ExpoSockets -> SUBSET Visitors]]
           /\ lateEntries' \subseteq [booth : Booths, user : Visitors]
<1>1. QueueGoesOn
  BY DEF QueueGoesOn, Waits
<1>2. LateWereAdmitted'
  BY DEF LateWereAdmitted, ExpoInv, PlacesFit
<1> QED BY <1>1, <1>2, RowsTyped DEF ExpoInv, ExpoTypes

\* One row is written, and nobody new waits.
LEMMA SetEntryGoesOn ==
    ASSUME ExpoInv, NEW b \in Booths, NEW u \in Visitors, NEW row \in RowTypes,
           SetEntry(b, u, row),
           row.status = "WAITING" => /\ Waits(b, u)
                                     /\ row.position = entries[b][u].position
                                     /\ row.by = entries[b][u].by
    PROVE  /\ QueueGoesOn /\ LateWereAdmitted'
           /\ row.status # "none" =>
                 \A c \in Booths, w \in Visitors :
                     entries[c][w] # NoEntry => entries'[c][w] # NoEntry
           /\ entries' \in [Booths -> [Visitors -> RowTypes]]
           /\ behind' \in [Booths -> [ExpoSockets -> SUBSET Visitors]]
           /\ lateEntries' \subseteq [booth : Booths, user : Visitors]
<1>1. /\ entries' \in [Booths -> [Visitors -> RowTypes]]
      /\ lateEntries' \subseteq lateEntries
      /\ behind' \in [Booths -> [ExpoSockets -> SUBSET Visitors]]
      /\ entries'[b][u] = Kept(row)
      /\ \A c \in Booths, w \in Visitors :
            c # b \/ w # u => entries'[c][w] = entries[c][w]
      /\ \A c \in Booths, k \in ExpoSockets :
            behind'[c][k] = IF c = b /\ row.status # "WAITING"
                            THEN behind[c][k] \ {u} ELSE behind[c][k]
  <2>1. ExpoTypeOK
    BY DEF ExpoInv, ExpoTypes
  <2>2. EntryWritten(b, u, row)
    BY <2>1, SetEntryTypes
  <2> QED BY <2>2 DEF EntryWritten
<1>2. /\ Kept(row).status = row.status
      /\ row.status = "WAITING" => Kept(row) = row
  BY KeptRow
<1>3. ASSUME NEW c \in Booths
      PROVE  /\ \A w \in Visitors : Waits(c, w)' =>
                  /\ Waits(c, w)
                  /\ entries'[c][w].position = entries[c][w].position
                  /\ entries'[c][w].by = entries[c][w].by
             /\ \A k \in ExpoSockets :
                  /\ behind'[c][k] \subseteq behind[c][k]
                  /\ \A w \in behind'[c][k] : Waits(c, w) => Waits(c, w)'
  <2>1. \A w \in Visitors : Waits(c, w)' =>
                  /\ Waits(c, w)
                  /\ entries'[c][w].position = entries[c][w].position
                  /\ entries'[c][w].by = entries[c][w].by
    <3> SUFFICES ASSUME NEW w \in Visitors, Waits(c, w)'
                 PROVE  /\ Waits(c, w)
                        /\ entries'[c][w].position = entries[c][w].position
                        /\ entries'[c][w].by = entries[c][w].by
      OBVIOUS
    <3>1. CASE c = b /\ w = u
      BY <1>1, <1>2, <3>1 DEF Waits
    <3>2. CASE c # b \/ w # u
      BY <1>1, <3>2 DEF Waits
    <3> QED BY <3>1, <3>2
  <2>2. ASSUME NEW k \in ExpoSockets
        PROVE  /\ behind'[c][k] \subseteq behind[c][k]
               /\ \A w \in behind'[c][k] : Waits(c, w) => Waits(c, w)'
    <3>1. behind'[c][k] \subseteq behind[c][k] /\ behind[c][k] \subseteq Visitors
      <4>1. behind \in [Booths -> [ExpoSockets -> SUBSET Visitors]]
        BY RowsTyped DEF ExpoInv, ExpoTypes
      <4>2. behind'[c][k] = behind[c][k] \ {u} \/ behind'[c][k] = behind[c][k]
        BY <1>1
      <4> QED BY <4>1, <4>2
    <3>2. ASSUME NEW w \in behind'[c][k], Waits(c, w) PROVE Waits(c, w)'
      <4>1. CASE c = b /\ w = u
        <5>1. row.status = "WAITING"
          BY <1>1, <3>2, <4>1
        <5> QED BY <1>1, <1>2, <4>1, <5>1 DEF Waits
      <4>2. CASE c # b \/ w # u
        BY <1>1, <3>1, <3>2, <4>2 DEF Waits
      <4> QED BY <4>1, <4>2
    <3> QED BY <3>1, <3>2
  <2> QED BY <2>1, <2>2
<1>4. QueueGoesOn
  BY <1>3 DEF QueueGoesOn
<1>5. lateEntries' \subseteq [booth : Booths, user : Visitors]
  BY <1>1, RowsTyped DEF ExpoInv, ExpoTypes
<1>6. LateWereAdmitted'
  <2> SUFFICES ASSUME NEW e \in lateEntries'
               PROVE  entries'[e.booth][e.user].status = "ADMITTED"
    BY DEF LateWereAdmitted
  <2>1. /\ e \in lateEntries /\ e # [booth |-> b, user |-> u]
        /\ e \in [booth : Booths, user : Visitors]
    BY <1>5 DEF SetEntry
  <2>2. e.booth # b \/ e.user # u
    BY <2>1
  <2>3. entries'[e.booth][e.user] = entries[e.booth][e.user]
    BY <1>1, <2>1, <2>2
  <2> QED BY <2>1, <2>3 DEF ExpoInv, PlacesFit, LateWereAdmitted
<1>7. ASSUME row.status # "none", NEW c \in Booths, NEW w \in Visitors,
             entries[c][w] # NoEntry
      PROVE  entries'[c][w] # NoEntry
  <2>1. CASE c = b /\ w = u
    <3>1. NoEntry.status = "none"
      BY DEF NoEntry
    <3> QED BY <1>1, <1>2, <1>7, <2>1, <3>1
  <2>2. CASE c # b \/ w # u
    BY <1>1, <1>7, <2>2
  <2> QED BY <2>1, <2>2
<1> QED BY <1>1, <1>4, <1>5, <1>6, <1>7
LEMMA StepFits ==
    ASSUME ExpoInv, NEW k \in ExpoSockets, QueueGoesOn, LateWereAdmitted',
           \A b \in Booths, u \in Visitors :
               entries[b][u] # NoEntry => entries'[b][u] # NoEntry,
           entries' \in [Booths -> [Visitors -> RowTypes]],
           behind' \in [Booths -> [ExpoSockets -> SUBSET Visitors]],
           lateEntries' \subseteq [booth : Booths, user : Visitors],
           visits' \subseteq VisitTypes, MessagesTyped',
           \A j \in ExpoSockets : j # k => SamePlace(message'[j], message[j]),
           Fits(k, message[k])'
    PROVE  ExpoInv'
<1>1. ExpoTypeOK'
  BY TypedAgain
<1>2. QueuedBehind' /\ \A j \in ExpoSockets : Fits(j, message[j])'
  BY MessagesFit
<1> QED BY <1>1, <1>2 DEF ExpoInv, ExpoTypes, PlacesFit

\* A message that looks for no place fits.
LEMMA Placeless ==
    ASSUME NEW k, message'[k].at \notin {"count", "last", "queue", "admit"}
    PROVE  Fits(k, message[k])'
BY DEF Fits

LEMMA SameMessages ==
    ASSUME NEW k, NEW msg,
           \A j \in ExpoSockets : message'[j] = IF j = k THEN msg ELSE message[j]
    PROVE  \A j \in ExpoSockets : j # k => SamePlace(message'[j], message[j])
BY DEF SamePlace

LEMMA Visiting ==
    ASSUME ExpoInv
    PROVE  /\ ExpoTypeOK /\ MessagesTyped /\ visits \subseteq VisitTypes
           /\ \A k \in ExpoSockets : Fits(k, message[k])
BY RowsTyped DEF ExpoInv, ExpoTypes, PlacesFit

-----------------------------------------------------------------------------
(* Steps that leave the queue alone *)

LEMMA BeginsOK ==
    ASSUME ExpoInv, NEW k \in ExpoSockets, NEW b \in Booths,
           EnterBooth(k, b) \/ LeaveBooth(k, b) \/ GetOrCreateVisit(k, b)
    PROVE  ExpoInv'
<1>1. UNCHANGED <<entries, behind, lateEntries>> /\ SocketAt(k, "idle")
  BY DEF EnterBooth, LeaveBooth, GetOrCreateVisit, MayBegin
<1>2. visits \subseteq VisitTypes /\ VisitorOf[k] \in Visitors /\ MessagesTyped
  BY Visiting, VisitorOfAssumption
<1>3. visits' \subseteq VisitTypes
  <2>1. ASSUME NEW x \in Inside(b), visits' = (visits \ {x}) \cup {[x EXCEPT !.socket = k]}
        PROVE  visits' \subseteq VisitTypes
    <3>1. x \in VisitTypes
      BY <1>2 DEF Inside
    <3>2. [x EXCEPT !.socket = k] \in VisitTypes
      BY <3>1 DEF VisitTypes
    <3> QED BY <1>2, <2>1, <3>2
  <2>2. ASSUME visits' = visits \cup {[booth |-> b, by |-> k, socket |-> k,
                                       user |-> VisitorOf[k]]}
        PROVE  visits' \subseteq VisitTypes
    BY <1>2, <2>2 DEF VisitTypes
  <2> QED BY <1>2, <2>1, <2>2 DEF EnterBooth, LeaveBooth, GetOrCreateVisit
<1>4. /\ MessagesTyped'
      /\ \A j \in ExpoSockets : j # k => SamePlace(message'[j], message[j])
      /\ message'[k].at \notin {"count", "last", "queue", "admit"}
  <2>1. CASE UNCHANGED message
    BY <1>1, <1>2, <2>1 DEF MessagesTyped, HasBooth, SamePlace, SocketAt
  <2>2. ASSUME NEW msg \in MessageTypes, message' = [message EXCEPT ![k] = msg],
               msg.at \in {"queued?", "exit"}, msg.booth = b
        PROVE  /\ MessagesTyped'
               /\ \A j \in ExpoSockets : j # k => SamePlace(message'[j], message[j])
               /\ message'[k].at \notin {"count", "last", "queue", "admit"}
    <3>1. HasBooth(msg)
      BY <2>2 DEF HasBooth
    <3>2. /\ MessagesTyped'
          /\ \A j \in ExpoSockets : message'[j] = IF j = k THEN msg ELSE message[j]
      BY <1>2, <2>2, <3>1, MessageMoves
    <3>3. message'[k] = msg
      BY <3>2
    <3> QED BY <2>2, <3>2, <3>3, SameMessages
  <2>3. CASE EnterBooth(k, b) /\ ~UNCHANGED message
    <3>1. PICK msg : /\ msg = [IdleMessage EXCEPT !.at = "queued?", !.booth = b]
                     /\ message' = [message EXCEPT ![k] = msg]
      BY <2>3 DEF EnterBooth
    <3>2. msg \in MessageTypes /\ msg.at = "queued?" /\ msg.booth = b
      BY <3>1 DEF MessageTypes, IdleMessage
    <3> QED BY <2>2, <3>1, <3>2
  <2>4. CASE LeaveBooth(k, b)
    <3>1. PICK x \in Inside(b) : message' = [message EXCEPT ![k] =
            [IdleMessage EXCEPT !.at = "exit", !.booth = b, !.visit = x.by]]
      BY <2>4 DEF LeaveBooth
    <3>2. x.by \in ExpoSockets
      BY <1>2 DEF Inside, VisitTypes
    <3>3. PICK msg : msg = [IdleMessage EXCEPT !.at = "exit", !.booth = b, !.visit = x.by]
      OBVIOUS
    <3>4. msg \in MessageTypes /\ msg.at = "exit" /\ msg.booth = b
      BY <3>2, <3>3 DEF MessageTypes, IdleMessage
    <3> QED BY <2>2, <3>1, <3>3, <3>4
  <2> QED BY <2>1, <2>3, <2>4 DEF EnterBooth, LeaveBooth, GetOrCreateVisit
<1> QED BY <1>1, <1>3, <1>4, QueueStays, Placeless, StepFits

LEMMA DisconnectOK ==
    ASSUME ExpoInv, NEW k \in ExpoSockets, Disconnect(k) PROVE ExpoInv'
<1>1. UNCHANGED <<visits, entries, behind, lateEntries>>
  BY DEF Disconnect
<1>2. visits \subseteq VisitTypes /\ MessagesTyped
  BY Visiting
<1>3. PICK msg \in MessageTypes : /\ message' = [message EXCEPT ![k] = msg]
                                  /\ msg.at \in {"unqueue", "exit"} /\ HasBooth(msg)
  <2>1. CASE message' = [message EXCEPT ![k] =
                    [IdleMessage EXCEPT !.at = "unqueue", !.closing = TRUE]]
    <3>1. PICK msg : msg = [IdleMessage EXCEPT !.at = "unqueue", !.closing = TRUE]
      OBVIOUS
    <3>2. msg \in MessageTypes /\ msg.at = "unqueue" /\ HasBooth(msg)
      BY <3>1 DEF MessageTypes, IdleMessage, HasBooth
    <3> QED BY <2>1, <3>1, <3>2
  <2>2. ASSUME NEW x \in visits, message' = [message EXCEPT ![k] =
                    [IdleMessage EXCEPT !.at = "exit", !.booth = x.booth,
                                        !.visit = x.by, !.closing = TRUE]]
        PROVE  \E msg \in MessageTypes :
                  /\ message' = [message EXCEPT ![k] = msg]
                  /\ msg.at \in {"unqueue", "exit"} /\ HasBooth(msg)
    <3>1. PICK msg : msg = [IdleMessage EXCEPT !.at = "exit", !.booth = x.booth,
                                               !.visit = x.by, !.closing = TRUE]
      OBVIOUS
    <3>2. x.booth \in Booths /\ x.by \in ExpoSockets
      BY <1>2 DEF VisitTypes
    <3>3. msg \in MessageTypes /\ msg.at = "exit" /\ HasBooth(msg)
      BY <3>1, <3>2 DEF MessageTypes, IdleMessage, HasBooth
    <3> QED BY <2>2, <3>1, <3>3
  <2> QED BY <2>1, <2>2 DEF Disconnect
<1>4. /\ MessagesTyped'
      /\ \A j \in ExpoSockets : message'[j] = IF j = k THEN msg ELSE message[j]
  BY <1>2, <1>3, MessageMoves
<1>5. message'[k].at \notin {"count", "last", "queue", "admit"}
  BY <1>3, <1>4
<1>6. \A j \in ExpoSockets : j # k => SamePlace(message'[j], message[j])
  BY <1>4, SameMessages
<1> QED BY <1>1, <1>2, <1>4, <1>5, <1>6, QueueStays, Placeless, StepFits

LEMMA VisitsOK ==
    ASSUME ExpoInv, NEW k \in ExpoSockets,
           ExitOtherBooths(k) \/ ExitVisit(k) \/ CreateVisit(k)
    PROVE  ExpoInv'
<1>1. UNCHANGED <<entries, behind, lateEntries>>
  BY DEF ExitOtherBooths, ExitVisit, CreateVisit
<1>2. /\ visits \subseteq VisitTypes /\ MessagesTyped
      /\ message[k].booth \in Booths /\ VisitorOf[k] \in Visitors
  BY Visiting, MessageAt
     DEF ExitOtherBooths, ExitVisit, CreateVisit, SocketAt
<1>3. ASSUME NEW closed, NEW step \in {"clean", "expire"}, VisitsClose(k, closed, step)
      PROVE  ExpoInv'
  <2>1. /\ MessagesTyped' /\ visits' \subseteq visits
        /\ message'[k].at = step
        /\ \A j \in ExpoSockets : j # k => SamePlace(message'[j], message[j])
    BY <1>2, <1>3, VisitsCloseTypes DEF ExpoInv, SamePlace
  <2>2. Fits(k, message[k])'
    BY <2>1, Placeless
  <2>3. visits' \subseteq VisitTypes
    BY <1>2, <2>1
  <2> QED BY <1>1, <2>1, <2>2, <2>3, QueueStays, StepFits
<1>4. CASE CreateVisit(k)
  <2>1. visits' \subseteq VisitTypes
    BY <1>2, <1>4 DEF CreateVisit, VisitTypes
  <2>2. /\ MessagesTyped'
        /\ \A j \in ExpoSockets : message'[j] = IF j = k THEN IdleMessage
                                                ELSE message[j]
    BY <1>2, <1>4, MessageEnds DEF CreateVisit
  <2>3. Fits(k, message[k])'
    BY <2>2, Placeless DEF IdleMessage
  <2> QED BY <1>1, <2>1, <2>2, <2>3, SameMessages, QueueStays, StepFits
<1> QED BY <1>3, <1>4 DEF ExitOtherBooths, ExitVisit

\* Whoever is first waits behind nobody.
LEMMA LooksOK ==
    ASSUME ExpoInv, NEW k \in ExpoSockets, CheckCapacity(k) \/ FindNext(k)
    PROVE  ExpoInv'
<1>1. UNCHANGED <<visits, entries, behind, lateEntries>>
  BY DEF CheckCapacity, FindNext
<1>2. /\ visits \subseteq VisitTypes /\ MessagesTyped
      /\ message[k].booth \in Booths /\ Fits(k, message[k])
      /\ message[k] \in MessageTypes
  BY Visiting, MessageAt DEF CheckCapacity, FindNext, SocketAt
<1>3. CASE CheckCapacity(k)
  <2>1. PICK step \in {"switch", "last"} : Goes(k, step)
    BY <1>3 DEF CheckCapacity
  <2>2. step \in {"mark", "count", "last", "queue", "switch", "clean",
                  "visit", "exit", "expire", "find", "admit"}
    BY <2>1
  <2>3. /\ MessagesTyped'
        /\ \A j \in ExpoSockets : j # k => message'[j] = message[j]
        /\ message'[k].at = step /\ message'[k].booth = message[k].booth
    BY <1>2, <2>1, <2>2, MessageGoes
  <2>4. message[k].at = "count"
    BY <1>3 DEF CheckCapacity, SocketAt
  <2>5. PICK msg : msg = message'[k]
    OBVIOUS
  <2>6. Fits(k, msg)'
    BY <1>1, <1>2, <2>3, <2>4, <2>5, <2>1 DEF Fits, Waits
  <2>7. Fits(k, message[k])'
    BY <2>5, <2>6 DEF Fits
  <2>8. \A j \in ExpoSockets : j # k => SamePlace(message'[j], message[j])
    BY <2>3 DEF SamePlace
  <2> QED BY <1>1, <1>2, <2>3, <2>7, <2>8, QueueStays, StepFits
<1>4. CASE FindNext(k) /\ Admitted(k)
  <2>1. /\ MessagesTyped'
        /\ \A j \in ExpoSockets : j # k => message'[j] = message[j]
        /\ message'[k].at \in {"idle", "unqueue"}
    BY <1>2, <1>4, MessageAdmitted
  <2>2. Fits(k, message[k])'
    BY <2>1, Placeless
  <2>3. \A j \in ExpoSockets : j # k => SamePlace(message'[j], message[j])
    BY <2>1 DEF SamePlace
  <2> QED BY <1>1, <1>2, <2>1, <2>2, <2>3, QueueStays, StepFits
<1>5. ASSUME NEW u \in FirstWaiting(message[k].booth),
             message' = [message EXCEPT ![k].at = "admit", ![k].found = u]
      PROVE  ExpoInv'
  <2>1. PICK msg : msg = [message[k] EXCEPT !.at = "admit", !.found = u]
    OBVIOUS
  <2>2. PICK b \in Booths : b = message[k].booth
    BY <1>2
  <2>3. /\ u \in Visitors /\ Waits(b, u)
        /\ \A w \in Visitors : Waits(b, w) => entries[b][u].position <= entries[b][w].position
    BY <1>5, <2>2 DEF FirstWaiting, WaitingAt, Waits
  <2>4. /\ msg \in MessageTypes /\ HasBooth(msg)
        /\ msg.at = "admit" /\ msg.booth = b /\ msg.found = u
    BY <1>2, <2>1, <2>2, <2>3 DEF MessageTypes, HasBooth
  <2>5. message' = [message EXCEPT ![k] = msg]
    BY <1>2, <1>5, <2>1
  <2>6. /\ MessagesTyped'
        /\ \A j \in ExpoSockets : message'[j] = IF j = k THEN msg ELSE message[j]
    BY <1>2, <2>4, <2>5, MessageMoves
  <2>7. PICK maker : maker = entries[b][u].by
    OBVIOUS
  <2>8. /\ maker \in ExpoSockets
        /\ \A w \in behind[b][maker] :
              Waits(b, w) /\ entries[b][w].position < entries[b][u].position
    BY <2>3, <2>7 DEF ExpoInv, PlacesFit, QueuedBehind
  <2>9. behind[b][maker] = {}
    <3> SUFFICES ASSUME NEW w \in behind[b][maker] PROVE FALSE
      OBVIOUS
    <3>1. w \in Visitors
      BY <2>8, RowsTyped DEF ExpoInv, ExpoTypes
    <3>2. /\ entries[b][w].position < entries[b][u].position
          /\ entries[b][u].position <= entries[b][w].position
      BY <2>3, <2>8, <3>1
    <3>3. entries[b][w] \in RowTypes /\ entries[b][u] \in RowTypes
      BY <2>3, <3>1, RowsTyped DEF ExpoInv, ExpoTypes
    <3>4. entries[b][w].position \in Int /\ entries[b][u].position \in Int
      BY <3>3 DEF RowTypes
    <3> QED BY <3>2, <3>4
  <2>10. entries[b][u] # NoEntry
    BY <2>3 DEF Waits, NoEntry
  <2>11. Fits(k, msg)'
    BY <1>1, <2>4, <2>7, <2>9, <2>10 DEF Fits, Waits
  <2>12. Fits(k, message[k])'
    BY <2>6, <2>11 DEF Fits
  <2> QED BY <1>1, <1>2, <2>6, <2>12, SameMessages, QueueStays, StepFits
<1> QED BY <1>3, <1>4, <1>5 DEF FindNext
-----------------------------------------------------------------------------
(* Steps that write the queue *)

\* Nobody who waits is admitted.
NobodyAdmitted ==
    \A b \in Booths, u \in Visitors :
        Waits(b, u) => entries'[b][u].status # "ADMITTED"

LEMMA RowsStay == ASSUME UNCHANGED entries PROVE NobodyAdmitted
BY DEF NobodyAdmitted, Waits

LEMMA RowWritten ==
    ASSUME ExpoInv, NEW b \in Booths, NEW u \in Visitors, NEW row \in RowTypes,
           SetEntry(b, u, row), row.status # "ADMITTED"
    PROVE  NobodyAdmitted
<1>1. /\ entries'[b][u] = Kept(row) /\ Kept(row).status = row.status
      /\ \A c \in Booths, w \in Visitors :
            c # b \/ w # u => entries'[c][w] = entries[c][w]
  BY SetEntryTypes, KeptRow DEF ExpoInv, ExpoTypes, EntryWritten
<1> SUFFICES ASSUME NEW c \in Booths, NEW w \in Visitors, Waits(c, w)
             PROVE  entries'[c][w].status # "ADMITTED"
  BY DEF NobodyAdmitted
<1>2. CASE c = b /\ w = u
  BY <1>1, <1>2
<1>3. CASE c # b \/ w # u
  BY <1>1, <1>3 DEF Waits
<1> QED BY <1>2, <1>3

\* A socket that has made no entry may look for a place.
LEMMA LookInQueueOK ==
    ASSUME ExpoInv, NEW k \in ExpoSockets, LookInQueue(k)
    PROVE  ExpoInv' /\ NobodyAdmitted
<1>1. PICK b \in Booths, u \in Visitors : b = message[k].booth /\ u = VisitorOf[k]
  BY Visiting, MessageAt DEF LookInQueue, SocketAt
<1>2. /\ visits' \subseteq VisitTypes /\ MessagesTyped
      /\ entries[b][u] \in RowTypes
  BY Visiting, RowsTyped DEF LookInQueue, ExpoInv, ExpoTypes
<1>3. CASE /\ entries[b][u].status = "WAITING"
           /\ SetEntry(b, u, [entries[b][u] EXCEPT !.socket = k])
           /\ Ends(k)
  <2>1. PICK row : row = [entries[b][u] EXCEPT !.socket = k]
    OBVIOUS
  <2>2. /\ row \in RowTypes /\ row.status = "WAITING"
        /\ row.position = entries[b][u].position
        /\ row.by = entries[b][u].by
    BY <1>2, <1>3, <2>1 DEF RowTypes
  <2>3. SetEntry(b, u, row) /\ Waits(b, u)
    BY <1>3, <2>1 DEF Waits
  <2>4. /\ QueueGoesOn /\ LateWereAdmitted'
        /\ \A c \in Booths, w \in Visitors :
              entries[c][w] # NoEntry => entries'[c][w] # NoEntry
        /\ entries' \in [Booths -> [Visitors -> RowTypes]]
        /\ behind' \in [Booths -> [ExpoSockets -> SUBSET Visitors]]
        /\ lateEntries' \subseteq [booth : Booths, user : Visitors]
    <3>1. row.status # "none"
      BY <2>2
    <3> QED BY <2>2, <2>3, <3>1, SetEntryGoesOn
  <2>5. /\ MessagesTyped'
        /\ \A j \in ExpoSockets : message'[j] = IF j = k THEN IdleMessage
                                                ELSE message[j]
    BY <1>2, <1>3, MessageEnds
  <2>6. Fits(k, message[k])'
    BY <2>5, Placeless DEF IdleMessage
  <2>7. NobodyAdmitted
    BY <2>2, <2>3, RowWritten
  <2> QED BY <1>2, <2>4, <2>5, <2>6, <2>7, SameMessages, StepFits
<1>4. ASSUME NEW step \in {"mark", "count"}, Goes(k, step),
             UNCHANGED <<entries, lateEntries, behind>>,
             step = "count" => ~Waits(b, u)
      PROVE  ExpoInv' /\ NobodyAdmitted
  <2>1. step \in {"mark", "count", "last", "queue", "switch", "clean",
                  "visit", "exit", "expire", "find", "admit"}
    OBVIOUS
  <2>2. /\ MessagesTyped'
        /\ \A j \in ExpoSockets : j # k => message'[j] = message[j]
        /\ message'[k].at = step /\ message'[k].booth = b
    BY <1>1, <1>2, <1>4, <2>1, MessageGoes
  <2>3. ASSUME step = "count", NEW w \in Visitors, Waits(b, w)
        PROVE  entries[b][w].by # k
    BY <1>1, <1>4, <2>3 DEF ExpoInv, PlacesFit, QueuedBehind
  <2>4. PICK msg : msg = message'[k]
    OBVIOUS
  <2>5. Fits(k, msg)'
    BY <1>4, <2>2, <2>3, <2>4 DEF Fits, Waits
  <2>6. Fits(k, message[k])'
    BY <2>4, <2>5 DEF Fits
  <2>7. \A j \in ExpoSockets : j # k => SamePlace(message'[j], message[j])
    BY <2>2 DEF SamePlace
  <2> QED BY <1>2, <1>4, <2>2, <2>6, <2>7, QueueStays, StepFits, RowsStay
<1> QED BY <1>1, <1>3, <1>4 DEF LookInQueue, Waits

\* A row that is entered, admitted or left.
LEMMA RowMoves ==
    ASSUME ExpoInv, NEW k \in ExpoSockets, NEW b \in Booths, NEW u \in Visitors,
           NEW status \in {"ADMITTED", "ENTERED", "LEFT"},
           SetEntry(b, u, [entries[b][u] EXCEPT !.status = status]),
           UNCHANGED visits, MessagesTyped',
           \A j \in ExpoSockets : j # k => message'[j] = message[j],
           message'[k].at \notin {"count", "last", "queue", "admit"}
    PROVE  ExpoInv' /\ (status # "ADMITTED" => NobodyAdmitted)
<1>1. visits' \subseteq VisitTypes /\ entries[b][u] \in RowTypes
  BY Visiting, RowsTyped DEF ExpoInv, ExpoTypes
<1>2. PICK row : row = [entries[b][u] EXCEPT !.status = status]
  OBVIOUS
<1>3. row \in RowTypes /\ row.status = status /\ SetEntry(b, u, row)
  BY <1>1, <1>2 DEF RowTypes
<1>4. row.status # "none" /\ row.status # "WAITING"
  BY <1>3
<1>5. /\ QueueGoesOn /\ LateWereAdmitted'
      /\ \A c \in Booths, w \in Visitors :
            entries[c][w] # NoEntry => entries'[c][w] # NoEntry
      /\ entries' \in [Booths -> [Visitors -> RowTypes]]
      /\ behind' \in [Booths -> [ExpoSockets -> SUBSET Visitors]]
      /\ lateEntries' \subseteq [booth : Booths, user : Visitors]
  BY <1>3, <1>4, SetEntryGoesOn
<1>6. Fits(k, message[k])'
  BY Placeless
<1>7. \A j \in ExpoSockets : j # k => SamePlace(message'[j], message[j])
  BY DEF SamePlace
<1>8. ExpoInv'
  BY <1>1, <1>5, <1>6, <1>7, StepFits
<1>9. status # "ADMITTED" => NobodyAdmitted
  BY <1>3, RowWritten
<1> QED BY <1>8, <1>9

\* The rows stay and a message ends.
LEMMA EndsOK ==
    ASSUME ExpoInv, NEW k \in ExpoSockets, Ends(k),
           UNCHANGED <<visits, entries, lateEntries, behind>>
    PROVE  ExpoInv' /\ NobodyAdmitted
<1>1. visits' \subseteq VisitTypes /\ MessagesTyped
  BY Visiting
<1>2. /\ MessagesTyped'
      /\ \A j \in ExpoSockets : message'[j] = IF j = k THEN IdleMessage
                                              ELSE message[j]
  BY <1>1, MessageEnds
<1>3. Fits(k, message[k])'
  BY <1>2, Placeless DEF IdleMessage
<1> QED BY <1>1, <1>2, <1>3, SameMessages, QueueStays, StepFits, RowsStay

LEMMA MarkEnteredOK ==
    ASSUME ExpoInv, NEW k \in ExpoSockets, MarkEntered(k)
    PROVE  ExpoInv' /\ NobodyAdmitted
<1>1. PICK b \in Booths, u \in Visitors : b = message[k].booth /\ u = VisitorOf[k]
  BY Visiting, MessageAt DEF MarkEntered, SocketAt
<1>2. MessagesTyped /\ UNCHANGED visits
  BY Visiting DEF MarkEntered
<1>3. CASE Ends(k) /\ UNCHANGED <<entries, lateEntries, behind>>
  BY <1>2, <1>3, EndsOK
<1>4. CASE /\ SetEntry(b, u, [entries[b][u] EXCEPT !.status = "ENTERED"])
           /\ Goes(k, "switch")
  <2>1. /\ MessagesTyped'
        /\ \A j \in ExpoSockets : j # k => message'[j] = message[j]
        /\ message'[k].at = "switch"
    BY <1>1, <1>2, <1>4, MessageGoes
  <2> QED BY <1>2, <1>4, <2>1, RowMoves
<1> QED BY <1>1, <1>3, <1>4 DEF MarkEntered, Update

\* Whoever is admitted was found to be the next.
LEMMA AdmitNextOK ==
    ASSUME ExpoInv, NEW k \in ExpoSockets, AdmitNext(k)
    PROVE  /\ ExpoInv'
           /\ \A b \in Booths, u \in Visitors :
                 Waits(b, u) /\ entries'[b][u].status = "ADMITTED" =>
                     behind[b][entries[b][u].by] = {}
<1>1. PICK b \in Booths : b = message[k].booth
  BY Visiting, MessageAt DEF AdmitNext, SocketAt
<1>2. MessagesTyped /\ UNCHANGED visits /\ Fits(k, message[k])
  BY Visiting DEF AdmitNext
<1>3. CASE Ends(k) /\ UNCHANGED <<entries, lateEntries, behind>>
  BY <1>2, <1>3, EndsOK DEF NobodyAdmitted
<1>4. CASE /\ message[k].found \in Visitors /\ message[k].at = "admit"
           /\ SetEntry(b, message[k].found,
                       [entries[b][message[k].found] EXCEPT !.status = "ADMITTED"])
           /\ Admitted(k)
  <2>1. PICK v \in Visitors : v = message[k].found
    BY <1>4
  <2>2. SetEntry(b, v, [entries[b][v] EXCEPT !.status = "ADMITTED"])
    BY <1>4, <2>1
  <2>3. /\ MessagesTyped'
        /\ \A j \in ExpoSockets : j # k => message'[j] = message[j]
        /\ message'[k].at \in {"idle", "unqueue"}
    BY <1>2, <1>4, MessageAdmitted
  <2>4. ExpoInv'
    BY <1>2, <2>2, <2>3, RowMoves
  <2>5. ASSUME NEW c \in Booths, NEW w \in Visitors, Waits(c, w),
               entries'[c][w].status = "ADMITTED"
        PROVE  behind[c][entries[c][w].by] = {}
    <3>1. CASE c = b /\ w = v
      BY <1>1, <1>2, <1>4, <2>1, <2>5, <3>1 DEF Fits
    <3>2. CASE c # b \/ w # v
      <4>1. PICK row : row = [entries[b][v] EXCEPT !.status = "ADMITTED"]
        OBVIOUS
      <4>2. entries[b][v] \in RowTypes
        BY RowsTyped DEF ExpoInv, ExpoTypes
      <4>3. row \in RowTypes
        BY <4>1, <4>2 DEF RowTypes
      <4>4. entries'[c][w] = entries[c][w]
        BY <2>2, <3>2, <4>1, <4>3, SetEntryTypes DEF ExpoInv, ExpoTypes, EntryWritten
      <4> QED BY <2>5, <4>4 DEF Waits
    <3> QED BY <3>1, <3>2
  <2> QED BY <2>4, <2>5
<1> QED BY <1>1, <1>3, <1>4 DEF AdmitNext, Update, SocketAt

LEMMA LeavesOK ==
    ASSUME ExpoInv, NEW k \in ExpoSockets,
           RemoveFromQueue(k) \/ \E b \in Booths : LeaveQueue(k, b)
    PROVE  ExpoInv' /\ NobodyAdmitted
<1>1. MessagesTyped /\ UNCHANGED visits /\ VisitorOf[k] \in Visitors
  BY Visiting, MessageAt DEF RemoveFromQueue, LeaveQueue
<1>2. CASE Ends(k) /\ UNCHANGED <<entries, lateEntries, behind>>
  BY <1>1, <1>2, EndsOK
<1>3. ASSUME NEW b \in Booths, NEW u \in Visitors, u = VisitorOf[k],
             SetEntry(b, u, [entries[b][u] EXCEPT !.status = "LEFT"]),
             Ends(k) \/ (UNCHANGED message /\ SocketAt(k, "idle"))
      PROVE  ExpoInv' /\ NobodyAdmitted
  <2>1. /\ MessagesTyped'
        /\ \A j \in ExpoSockets : j # k => message'[j] = message[j]
        /\ message'[k].at = "idle"
    <3>1. CASE Ends(k)
      BY <1>1, <3>1, MessageEnds DEF IdleMessage
    <3>2. CASE UNCHANGED message /\ SocketAt(k, "idle")
      BY <1>1, <3>2 DEF MessagesTyped, HasBooth, SocketAt
    <3> QED BY <1>3, <3>1, <3>2
  <2> QED BY <1>1, <1>3, <2>1, RowMoves
<1> QED BY <1>1, <1>2, <1>3 DEF RemoveFromQueue, LeaveQueue
\* Who found the row that is deleted finds it gone.
LEMMA DeleteOK ==
    ASSUME ExpoInv, NEW k \in ExpoSockets, DeleteQueueEntry(k)
    PROVE  ExpoInv' /\ NobodyAdmitted
<1>1. PICK b \in Booths, u \in Visitors : b = message[k].booth /\ u = VisitorOf[k]
  BY Visiting, MessageAt DEF DeleteQueueEntry, SocketAt
<1>2. /\ MessagesTyped /\ visits' \subseteq VisitTypes
      /\ \A j \in ExpoSockets : Fits(j, message[j])
  BY Visiting DEF DeleteQueueEntry
<1>3. PICK row \in RowTypes : row = NoEntry
  <2>1. NoEntry \in RowTypes
    BY BoothBoundsAssumption DEF NoEntry, RowTypes
  <2> QED BY <2>1
<1>4. row.status = "none" /\ SetEntry(b, u, row)
  BY <1>1, <1>3 DEF DeleteQueueEntry, NoEntry
<1>5. /\ QueueGoesOn /\ LateWereAdmitted'
      /\ entries' \in [Booths -> [Visitors -> RowTypes]]
      /\ behind' \in [Booths -> [ExpoSockets -> SUBSET Visitors]]
      /\ lateEntries' \subseteq [booth : Booths, user : Visitors]
  BY <1>4, SetEntryGoesOn
<1>6. \A c \in Booths, w \in Visitors :
          c # b \/ w # u => entries'[c][w] = entries[c][w]
  BY <1>4, SetEntryTypes DEF ExpoInv, ExpoTypes, EntryWritten
<1>7. message' = [j \in ExpoSockets |-> message'[j]]
  BY DEF DeleteQueueEntry
<1>8. ASSUME NEW j \in ExpoSockets
      PROVE  /\ message'[j] \in MessageTypes /\ HasBooth(message'[j])
             /\ Fits(j, message[j])'
  <2>1. message[j] \in MessageTypes /\ HasBooth(message[j])
    BY <1>2 DEF MessagesTyped
  <2>2. PICK new : new = message'[j]
    OBVIOUS
  <2>3. CASE j = k
    <3>1. new = [message[k] EXCEPT !.at = "visit"]
      BY <1>1, <2>2, <2>3 DEF DeleteQueueEntry
    <3>2. new \in MessageTypes /\ HasBooth(new) /\ new.at = "visit"
      BY <1>1, <2>1, <2>3, <3>1 DEF MessageTypes, HasBooth
    <3> QED BY <2>2, <3>2 DEF Fits
  <2>4. CASE j # k /\ message[j].booth = b /\ message[j].found = u
    <3>1. new = [message[j] EXCEPT !.found = "gone"]
      BY <1>1, <2>2, <2>4 DEF DeleteQueueEntry
    <3>2. /\ new \in MessageTypes /\ HasBooth(new)
          /\ new.at = message[j].at /\ new.booth = message[j].booth
          /\ new.position = message[j].position /\ new.found \notin Visitors
      BY <2>1, <3>1, VisitorNamesAssumption DEF MessageTypes, HasBooth
    <3>3. Fits(j, new)
      <4>1. Fits(j, message[j])
        BY <1>2
      <4> QED BY <3>2, <4>1 DEF Fits
    <3>4. Fits(j, new)'
      BY <3>2, <3>3, <1>5, PlaceFits DEF HasBooth
    <3> QED BY <2>2, <3>2, <3>4 DEF Fits
  <2>5. CASE j # k /\ ~(message[j].booth = b /\ message[j].found = u)
    <3>1. new = message[j]
      BY <1>1, <2>2, <2>5 DEF DeleteQueueEntry
    <3>2. Fits(j, new) /\ HasBooth(new)
      BY <1>2, <2>1, <3>1
    <3>3. ASSUME new.at = "admit", new.found \in Visitors
          PROVE  entries'[new.booth][new.found] # NoEntry
      <4>1. new.booth \in Booths
        BY <3>2, <3>3 DEF HasBooth
      <4>2. entries'[new.booth][new.found] = entries[new.booth][new.found]
        BY <1>6, <2>5, <3>1, <3>3, <4>1
      <4> QED BY <3>2, <3>3, <4>2 DEF Fits
    <3>4. Fits(j, new)'
      BY <3>2, <3>3, <1>5, PlaceFits DEF HasBooth
    <3> QED BY <2>1, <2>2, <3>1, <3>4 DEF Fits
  <2> QED BY <2>3, <2>4, <2>5
<1>9. MessagesTyped'
  BY <1>7, <1>8 DEF MessagesTyped
<1>10. QueuedBehind' /\ ExpoTypeOK'
  BY <1>2, <1>5, PlacesStay, TypedAgain
<1>11. NobodyAdmitted
  BY <1>4, RowWritten
<1> QED BY <1>5, <1>8, <1>9, <1>10, <1>11 DEF ExpoInv, ExpoTypes, PlacesFit

\* The place that is found is behind everybody who waits.
LEMMA FindLastOK ==
    ASSUME ExpoInv, NEW k \in ExpoSockets, FindLastEntry(k)
    PROVE  ExpoInv' /\ NobodyAdmitted
<1>1. PICK b \in Booths, u \in Visitors : b = message[k].booth /\ u = VisitorOf[k]
  BY Visiting, MessageAt DEF FindLastEntry, SocketAt
<1>2. /\ MessagesTyped /\ visits' \subseteq VisitTypes
      /\ message[k] \in MessageTypes /\ message[k].at = "last"
      /\ \A j \in ExpoSockets : Fits(j, message[j])
      /\ UNCHANGED <<entries, lateEntries>>
  BY Visiting, MessageAt DEF FindLastEntry, SocketAt
<1>3. /\ entries \in [Booths -> [Visitors -> RowTypes]]
      /\ behind \in [Booths -> [ExpoSockets -> SUBSET Visitors]]
      /\ lateEntries \subseteq [booth : Booths, user : Visitors]
  BY RowsTyped DEF ExpoInv, ExpoTypes
<1>4. PICK p \in NextPosition(b) :
          message' = [message EXCEPT ![k].at = "queue", ![k].position = p]
  BY <1>1 DEF FindLastEntry
<1>5. p \in Nat /\ \A w \in Visitors : Waits(b, w) => entries[b][w].position < p
  <2>1. \A w \in Visitors : entries[b][w].position \in Nat
    BY <1>3 DEF RowTypes
  <2>2. p \in Nat
    BY <2>1 DEF NextPosition, WaitingAt
  <2>3. \A w \in Visitors : Waits(b, w) => p > entries[b][w].position
    BY DEF NextPosition, WaitingAt, Waits
  <2> QED BY <2>1, <2>2, <2>3
<1>6. PICK msg : msg = [message[k] EXCEPT !.at = "queue", !.position = p]
  OBVIOUS
<1>7. /\ msg \in MessageTypes /\ HasBooth(msg) /\ msg.at = "queue"
      /\ msg.booth = b /\ msg.position = p
  BY <1>1, <1>2, <1>5, <1>6 DEF MessageTypes, HasBooth
<1>8. message' = [message EXCEPT ![k] = msg]
  BY <1>2, <1>4, <1>6 DEF MessagesTyped
<1>9. /\ MessagesTyped'
      /\ \A j \in ExpoSockets : message'[j] = IF j = k THEN msg ELSE message[j]
  BY <1>2, <1>7, <1>8, MessageMoves
<1>10. /\ behind' \in [Booths -> [ExpoSockets -> SUBSET Visitors]]
       /\ \A c \in Booths, j \in ExpoSockets :
             c # b \/ j # k => behind'[c][j] = behind[c][j]
       /\ behind'[b][k] \subseteq WaitingAt(b)
  <2>1. PICK sets : sets = [behind[b] EXCEPT ![k] = WaitingAt(b) \ {u}]
    OBVIOUS
  <2>2. behind' = [behind EXCEPT ![b] = sets]
    BY <1>1, <2>1 DEF FindLastEntry
  <2>3. WaitingAt(b) \ {u} \subseteq Visitors
    BY DEF WaitingAt
  <2>4. /\ sets \in [ExpoSockets -> SUBSET Visitors]
        /\ \A j \in ExpoSockets :
              sets[j] = IF j = k THEN WaitingAt(b) \ {u} ELSE behind[b][j]
    BY <1>3, <2>1, <2>3
  <2> QED BY <1>3, <2>2, <2>4
<1>11. \A w \in Visitors : Waits(b, w) => entries[b][w].by # k
  BY <1>1, <1>2 DEF Fits
<1>12. ASSUME NEW c \in Booths, NEW w \in Visitors, Waits(c, w)
       PROVE  /\ entries[c][w].by \in ExpoSockets
              /\ VisitorOf[entries[c][w].by] = w
              /\ behind'[c][entries[c][w].by] = behind[c][entries[c][w].by]
  BY <1>10, <1>11, <1>12 DEF ExpoInv, PlacesFit, QueuedBehind
<1>13. QueuedBehind'
  BY <1>2, <1>12 DEF ExpoInv, PlacesFit, QueuedBehind, Waits
<1>14. ASSUME NEW j \in ExpoSockets PROVE Fits(j, message[j])'
  <2>1. PICK new : new = message'[j]
    OBVIOUS
  <2>2. CASE j = k
    <3>1. new = msg
      BY <1>9, <2>1, <2>2
    <3>2. \A w \in behind'[b][k] : Waits(b, w) /\ entries[b][w].position < p
      BY <1>5, <1>10 DEF WaitingAt, Waits
    <3>3. Fits(k, new)'
      BY <1>2, <1>7, <1>11, <3>1, <3>2 DEF Fits, Waits
    <3> QED BY <2>1, <2>2, <3>3 DEF Fits
  <2>3. CASE j # k
    <3>1. new = message[j] /\ Fits(j, new) /\ HasBooth(new)
      BY <1>2, <1>9, <2>1, <2>3 DEF MessagesTyped
    <3>2. Fits(j, new)'
      <4>1. new.at = "queue" => behind'[new.booth][j] = behind[new.booth][j]
        BY <1>10, <2>3, <3>1 DEF HasBooth
      <4>2. new.at = "admit" /\ new.found \in Visitors /\ Waits(new.booth, new.found) =>
              behind'[new.booth][entries[new.booth][new.found].by]
                = behind[new.booth][entries[new.booth][new.found].by]
        BY <1>12, <3>1 DEF HasBooth
      <4> QED BY <1>2, <3>1, <4>1, <4>2 DEF Fits, Waits
    <3> QED BY <2>1, <3>2 DEF Fits
  <2> QED BY <2>2, <2>3
<1>15. ExpoTypeOK' /\ LateWereAdmitted' /\ NobodyAdmitted
  BY <1>2, <1>3, <1>10, TypedAgain, RowsStay
     DEF LateWereAdmitted, ExpoInv, PlacesFit
<1> QED BY <1>9, <1>13, <1>14, <1>15 DEF ExpoInv, ExpoTypes, PlacesFit

\* The row that is made waits behind those who waited when its place was found.
LEMMA AddToQueueOK ==
    ASSUME ExpoInv, NEW k \in ExpoSockets, AddToQueue(k)
    PROVE  ExpoInv' /\ NobodyAdmitted
<1>1. PICK b \in Booths, u \in Visitors : b = message[k].booth /\ u = VisitorOf[k]
  BY Visiting, MessageAt DEF AddToQueue, SocketAt
<1>2. /\ MessagesTyped /\ visits' \subseteq VisitTypes
      /\ message[k] \in MessageTypes /\ message[k].at = "queue"
      /\ \A j \in ExpoSockets : Fits(j, message[j])
      /\ UNCHANGED <<visits, behind, lateEntries>> /\ Ends(k)
  BY Visiting, MessageAt DEF AddToQueue, SocketAt
<1>3. /\ entries \in [Booths -> [Visitors -> RowTypes]]
      /\ behind \in [Booths -> [ExpoSockets -> SUBSET Visitors]]
      /\ lateEntries \subseteq [booth : Booths, user : Visitors]
  BY RowsTyped DEF ExpoInv, ExpoTypes
<1>4. CASE UNCHANGED entries
  BY <1>2, <1>4, EndsOK
<1>5. CASE entries' # entries
  <2>1. PICK row : row = [status |-> "WAITING", socket |-> k, by |-> k,
                          position |-> message[k].position]
    OBVIOUS
  <2>2. /\ row \in RowTypes /\ row.status = "WAITING" /\ row.by = k
        /\ row.position = message[k].position
    <3>1. message[k].position \in 0..MaxPosition
      BY <1>2, BoothBoundsAssumption DEF AddToQueue, MessageTypes
    <3> QED BY <2>1, <3>1 DEF RowTypes
  <2>3. entries[b][u] = NoEntry /\ entries' = [entries EXCEPT ![b][u] = row]
    BY <1>1, <1>5, <2>1 DEF AddToQueue
  <2>4. /\ entries' \in [Booths -> [Visitors -> RowTypes]]
        /\ \A c \in Booths, w \in Visitors :
              entries'[c][w] = IF c = b /\ w = u THEN row ELSE entries[c][w]
    <3>1. PICK rows : rows = [entries[b] EXCEPT ![u] = row]
      OBVIOUS
    <3>2. entries' = [entries EXCEPT ![b] = rows]
      BY <2>3, <3>1
    <3>3. rows \in [Visitors -> RowTypes]
          /\ \A w \in Visitors : rows[w] = IF w = u THEN row ELSE entries[b][w]
      BY <1>3, <2>2, <3>1
    <3> QED BY <1>3, <3>2, <3>3
  <2>5. ~Waits(b, u) /\ entries[b][u].status # "ADMITTED"
    BY <2>3 DEF Waits, NoEntry
  <2>6. ASSUME NEW c \in Booths, NEW w \in Visitors, Waits(c, w)
        PROVE  Waits(c, w)' /\ entries'[c][w] = entries[c][w]
    BY <2>4, <2>5, <2>6 DEF Waits
  <2>7. QueuedBehind'
    <3> SUFFICES ASSUME NEW c \in Booths, NEW w \in Visitors, Waits(c, w)'
                 PROVE  /\ entries'[c][w].by \in ExpoSockets
                        /\ VisitorOf[entries'[c][w].by] = w
                        /\ \A x \in behind[c][entries'[c][w].by] :
                              /\ Waits(c, x)'
                              /\ entries'[c][x].position < entries'[c][w].position
      BY <1>2 DEF QueuedBehind
    <3>1. CASE c = b /\ w = u
      <4>1. entries'[c][w] = row
        BY <2>4, <3>1
      <4>2. \A x \in behind[b][k] :
              /\ Waits(b, x) /\ x \in Visitors
              /\ entries[b][x].position < message[k].position
        <5>1. /\ message[k].at = "queue" /\ message[k].booth = b
              /\ \A w2 \in behind[b][k] : w2 \in Visitors
          BY <1>1, <1>2, <1>3
        <5>2. Fits(k, message[k])
          BY <1>2
        <5> QED BY <5>1, <5>2 DEF Fits
      <4> QED BY <1>1, <2>2, <2>6, <3>1, <4>1, <4>2
    <3>2. CASE c # b \/ w # u
      <4>1. entries'[c][w] = entries[c][w] /\ Waits(c, w)
        BY <2>4, <3>2 DEF Waits
      <4>2. PICK j : j = entries[c][w].by
        OBVIOUS
      <4>3. /\ j \in ExpoSockets /\ VisitorOf[j] = w
            /\ \A x \in behind[c][j] :
                  Waits(c, x) /\ entries[c][x].position < entries[c][w].position
        BY <4>1, <4>2 DEF ExpoInv, PlacesFit, QueuedBehind
      <4>4. behind[c][j] \subseteq Visitors
        BY <1>3, <4>3
      <4> QED BY <2>6, <4>1, <4>2, <4>3, <4>4
    <3> QED BY <3>1, <3>2
  <2>8. /\ MessagesTyped'
        /\ \A j \in ExpoSockets : message'[j] = IF j = k THEN IdleMessage
                                                ELSE message[j]
    BY <1>2, MessageEnds
  <2>9. ASSUME NEW j \in ExpoSockets PROVE Fits(j, message[j])'
    <3>1. CASE j = k
      BY <2>8, <3>1, Placeless DEF IdleMessage
    <3>2. CASE j # k
      <4>1. PICK new : new = message[j]
        OBVIOUS
      <4>2. message'[j] = new /\ Fits(j, new) /\ HasBooth(new)
        BY <1>2, <2>8, <3>2, <4>1 DEF MessagesTyped
      <4>3. ASSUME new.at = "queue", NEW w \in behind[new.booth][j]
            PROVE  Waits(new.booth, w)' /\ entries'[new.booth][w].position < new.position
        <5>1. new.booth \in Booths
          BY <4>2, <4>3 DEF HasBooth
        <5>2. Waits(new.booth, w) /\ entries[new.booth][w].position < new.position
              /\ w \in Visitors
          BY <1>3, <4>2, <4>3, <5>1 DEF Fits
        <5> QED BY <2>6, <5>1, <5>2
      <4>4. ASSUME new.at \in {"count", "last", "queue"}, NEW w \in Visitors,
                   Waits(new.booth, w)'
            PROVE  entries'[new.booth][w].by # j
        <5>1. new.booth \in Booths
          BY <4>2, <4>4 DEF HasBooth
        <5>2. CASE new.booth = b /\ w = u
          BY <2>2, <2>4, <3>2, <5>2
        <5>3. CASE new.booth # b \/ w # u
          BY <2>4, <4>2, <4>4, <5>1, <5>3 DEF Fits, Waits
        <5> QED BY <5>2, <5>3
      <4>5. ASSUME new.at = "admit", new.found \in Visitors
            PROVE  /\ entries'[new.booth][new.found] # NoEntry
                   /\ Waits(new.booth, new.found)' =>
                         behind[new.booth][entries'[new.booth][new.found].by] = {}
        <5>1. new.booth \in Booths /\ entries[new.booth][new.found] # NoEntry
          BY <4>2, <4>5 DEF HasBooth, Fits
        <5>2. new.booth # b \/ new.found # u
          BY <2>3, <5>1
        <5>3. entries'[new.booth][new.found] = entries[new.booth][new.found]
          BY <2>4, <4>5, <5>1, <5>2
        <5> QED BY <4>2, <4>5, <5>1, <5>3 DEF Fits, Waits
      <4>6. Fits(j, new)'
        BY <1>2, <4>3, <4>4, <4>5 DEF Fits
      <4> QED BY <4>2, <4>6 DEF Fits
    <3> QED BY <3>1, <3>2
  <2>10. LateWereAdmitted'
    <3> SUFFICES ASSUME NEW e \in lateEntries
                 PROVE  entries'[e.booth][e.user].status = "ADMITTED"
      BY <1>2 DEF LateWereAdmitted
    <3>1. e.booth \in Booths /\ e.user \in Visitors
          /\ entries[e.booth][e.user].status = "ADMITTED"
      BY <1>3 DEF LateWereAdmitted, ExpoInv, PlacesFit
    <3>2. e.booth # b \/ e.user # u
      BY <2>5, <3>1
    <3> QED BY <2>4, <3>1, <3>2
  <2>11. ExpoTypeOK'
    BY <1>2, <1>3, <2>4, TypedAgain
  <2>12. NobodyAdmitted
    BY <2>6 DEF NobodyAdmitted, Waits
  <2> QED BY <2>7, <2>8, <2>9, <2>10, <2>11, <2>12 DEF ExpoInv, ExpoTypes, PlacesFit
<1> QED BY <1>4, <1>5
LEMMA ExpireOK ==
    ASSUME ExpoInv, NEW k \in ExpoSockets, ExpireAndCount(k)
    PROVE  ExpoInv' /\ NobodyAdmitted
<1>1. PICK b \in Booths : b = message[k].booth
  BY Visiting, MessageAt DEF ExpireAndCount, SocketAt
<1>2. /\ MessagesTyped /\ visits' \subseteq VisitTypes
      /\ UNCHANGED <<visits, behind>> /\ lateEntries' \subseteq lateEntries
  BY Visiting DEF ExpireAndCount
<1>3. /\ entries \in [Booths -> [Visitors -> RowTypes]]
      /\ behind \in [Booths -> [ExpoSockets -> SUBSET Visitors]]
      /\ lateEntries \subseteq [booth : Booths, user : Visitors]
  BY RowsTyped DEF ExpoInv, ExpoTypes
<1> DEFINE late == {u \in Visitors : [booth |-> b, user |-> u] \in lateEntries}
<1>4. PICK rows : /\ rows = [u \in Visitors |->
                        IF u \in late THEN Kept([entries[b][u] EXCEPT !.status = "EXPIRED"])
                        ELSE entries[b][u]]
                  /\ entries' = [entries EXCEPT ![b] = rows]
  BY <1>1 DEF ExpireAndCount
<1>5. ASSUME NEW u \in Visitors
      PROVE  /\ rows[u] \in RowTypes
             /\ u \in late => rows[u].status = "EXPIRED" /\ ~Waits(b, u)
             /\ u \notin late => rows[u] = entries[b][u]
  <2>1. CASE u \in late
    <3>1. PICK row : row = [entries[b][u] EXCEPT !.status = "EXPIRED"]
      OBVIOUS
    <3>2. row \in RowTypes /\ row.status = "EXPIRED"
      <4>1. entries[b][u] \in RowTypes
        BY <1>3
      <4> QED BY <3>1, <4>1 DEF RowTypes
    <3>3. rows[u] = Kept(row)
      BY <1>4, <2>1, <3>1
    <3>4. PICK e \in lateEntries : e = [booth |-> b, user |-> u]
      BY <2>1
    <3>5. entries[b][u].status = "ADMITTED"
      BY <3>4 DEF ExpoInv, PlacesFit, LateWereAdmitted
    <3> QED BY <2>1, <3>2, <3>3, <3>5, KeptRow DEF Waits
  <2>2. CASE u \notin late
    BY <1>3, <1>4, <2>2
  <2> QED BY <2>1, <2>2
<1>6. /\ entries' \in [Booths -> [Visitors -> RowTypes]]
      /\ \A c \in Booths : entries'[c] = IF c = b THEN rows ELSE entries[c]
  <2>1. rows \in [Visitors -> RowTypes]
    BY <1>4, <1>5
  <2> QED BY <1>3, <1>4, <2>1
<1>7. ASSUME NEW c \in Booths, NEW w \in Visitors
      PROVE  /\ Waits(c, w)' <=> Waits(c, w)
             /\ Waits(c, w) => entries'[c][w] = entries[c][w]
             /\ entries[c][w] # NoEntry => entries'[c][w] # NoEntry
             /\ c # b => entries'[c][w] = entries[c][w]
  <2>1. CASE c = b /\ w \in late
    <3>1. entries'[c][w].status = "EXPIRED" /\ ~Waits(c, w)
      BY <1>5, <1>6, <2>1
    <3> QED BY <2>1, <3>1 DEF Waits, NoEntry
  <2>2. CASE ~(c = b /\ w \in late)
    BY <1>5, <1>6, <2>2 DEF Waits
  <2> QED BY <2>1, <2>2
<1>8. QueueGoesOn
  <2>1. ASSUME NEW c \in Booths, NEW j \in ExpoSockets, NEW w \in behind'[c][j], Waits(c, w)
        PROVE  Waits(c, w)'
    <3>1. w \in Visitors
      BY <1>2, <1>3, <2>1
    <3> QED BY <1>7, <2>1, <3>1
  <2> QED BY <1>2, <1>7, <2>1 DEF QueueGoesOn
<1>9. LateWereAdmitted'
  <2> SUFFICES ASSUME NEW e \in lateEntries'
               PROVE  entries'[e.booth][e.user].status = "ADMITTED"
    BY DEF LateWereAdmitted
  <2>1. /\ e \in lateEntries /\ e.booth # b /\ e.booth \in Booths /\ e.user \in Visitors
    BY <1>1, <1>2, <1>3 DEF ExpireAndCount
  <2> QED BY <1>7, <2>1 DEF ExpoInv, PlacesFit, LateWereAdmitted
<1>10. /\ MessagesTyped'
       /\ \A j \in ExpoSockets : j # k => message'[j] = message[j]
       /\ message'[k].at \in {"find", "idle", "unqueue"}
  <2>1. CASE Goes(k, "find")
    BY <1>1, <1>2, <2>1, MessageGoes
  <2>2. CASE Admitted(k)
    BY <1>2, <2>2, MessageAdmitted
  <2> QED BY <2>1, <2>2 DEF ExpireAndCount
<1>11. Fits(k, message[k])' /\ \A j \in ExpoSockets : j # k => SamePlace(message'[j], message[j])
  BY <1>10, Placeless DEF SamePlace
<1>12. ExpoInv'
  <2>1. \A c \in Booths, w \in Visitors :
            entries[c][w] # NoEntry => entries'[c][w] # NoEntry
    BY <1>7
  <2>2. /\ behind' \in [Booths -> [ExpoSockets -> SUBSET Visitors]]
        /\ lateEntries' \subseteq [booth : Booths, user : Visitors]
    BY <1>2, <1>3
  <2> QED BY <1>2, <1>6, <1>8, <1>9, <1>10, <1>11, <2>1, <2>2, StepFits
<1>13. NobodyAdmitted
  BY <1>7 DEF NobodyAdmitted, Waits
<1> QED BY <1>12, <1>13

LEMMA TimesOutOK ==
    ASSUME ExpoInv, NEW b \in Booths, NEW u \in Visitors, AdmissionTimesOut(b, u)
    PROVE  ExpoInv' /\ NobodyAdmitted
<1>1. /\ entries[b][u].status = "ADMITTED"
      /\ lateEntries' = lateEntries \cup {[booth |-> b, user |-> u]}
      /\ UNCHANGED <<visits, entries, message, behind>>
  BY DEF AdmissionTimesOut
<1>2. ExpoTypeOK'
  BY <1>1 DEF ExpoInv, ExpoTypes, ExpoTypeOK
<1>3. MessagesTyped' /\ QueuedBehind'
  BY <1>1 DEF ExpoInv, ExpoTypes, MessagesTyped, HasBooth, PlacesFit, QueuedBehind, Waits
<1>4. LateWereAdmitted'
  BY <1>1 DEF ExpoInv, PlacesFit, LateWereAdmitted
<1>5. \A k \in ExpoSockets : Fits(k, message[k])'
  BY <1>1 DEF ExpoInv, PlacesFit, Fits, Waits
<1> QED BY <1>1, <1>2, <1>3, <1>4, <1>5, RowsStay DEF ExpoInv, ExpoTypes, PlacesFit

-----------------------------------------------------------------------------

NobodyOvertakes ==
    \A b \in Booths : \A u \in Visitors :
        entries[b][u].status = "WAITING" /\ entries'[b][u].status = "ADMITTED"
            => behind[b][entries[b][u].by] = {}

LEMMA ExpoNextOK ==
    ASSUME ExpoInv, ExpoNext PROVE ExpoInv' /\ NobodyOvertakes
<1>1. ASSUME NobodyAdmitted PROVE NobodyOvertakes
  BY <1>1 DEF NobodyAdmitted, NobodyOvertakes, Waits
<1>2. ASSUME NEW k \in ExpoSockets,
             \/ CheckCapacity(k) \/ FindNext(k) \/ Disconnect(k)
             \/ ExitOtherBooths(k) \/ ExitVisit(k) \/ CreateVisit(k)
             \/ \E b \in Booths : \/ EnterBooth(k, b) \/ LeaveBooth(k, b)
                                  \/ GetOrCreateVisit(k, b)
      PROVE  ExpoInv' /\ NobodyOvertakes
  <2>1. UNCHANGED entries
    BY <1>2 DEF CheckCapacity, FindNext, Disconnect, ExitOtherBooths, ExitVisit,
                CreateVisit, EnterBooth, LeaveBooth, GetOrCreateVisit
  <2>2. ExpoInv'
    BY <1>2, LooksOK, DisconnectOK, VisitsOK, BeginsOK
  <2> QED BY <1>1, <2>1, <2>2, RowsStay
<1>3. ASSUME NEW k \in ExpoSockets,
             \/ LookInQueue(k) \/ MarkEntered(k) \/ RemoveFromQueue(k)
             \/ DeleteQueueEntry(k) \/ FindLastEntry(k) \/ AddToQueue(k)
             \/ ExpireAndCount(k) \/ \E b \in Booths : LeaveQueue(k, b)
      PROVE  ExpoInv' /\ NobodyOvertakes
  BY <1>1, <1>3, LookInQueueOK, MarkEnteredOK, LeavesOK, DeleteOK, FindLastOK,
     AddToQueueOK, ExpireOK
<1>4. ASSUME NEW k \in ExpoSockets, AdmitNext(k)
      PROVE  ExpoInv' /\ NobodyOvertakes
  BY <1>4, AdmitNextOK DEF NobodyOvertakes, Waits
<1>5. ASSUME NEW b \in Booths, NEW u \in Visitors, AdmissionTimesOut(b, u)
      PROVE  ExpoInv' /\ NobodyOvertakes
  BY <1>1, <1>5, TimesOutOK
<1> QED BY <1>2, <1>3, <1>4, <1>5 DEF ExpoNext

LEMMA ExpoStutter == ASSUME ExpoInv, UNCHANGED expoVars PROVE ExpoInv'
<1>1. UNCHANGED <<visits, entries, lateEntries, message, behind>>
  BY DEF expoVars
<1>2. ExpoTypeOK' /\ MessagesTyped'
  BY <1>1 DEF ExpoInv, ExpoTypes, ExpoTypeOK, MessagesTyped, HasBooth
<1>3. QueuedBehind' /\ LateWereAdmitted'
  BY <1>1 DEF ExpoInv, PlacesFit, QueuedBehind, Waits, LateWereAdmitted
<1>4. \A k \in ExpoSockets : Fits(k, message[k])'
  BY <1>1 DEF ExpoInv, PlacesFit, Fits, Waits
<1> QED BY <1>2, <1>3, <1>4 DEF ExpoInv, ExpoTypes, PlacesFit

LEMMA ExpoInitInv == ExpoInit => ExpoInv
<1> SUFFICES ASSUME ExpoInit PROVE PlacesFit
  BY ExpoInitTypes DEF ExpoInv
<1>1. \A b \in Booths, u \in Visitors : ~Waits(b, u)
  BY DEF ExpoInit, Waits, NoEntry
<1>2. \A k \in ExpoSockets : Fits(k, message[k])
  BY DEF ExpoInit, Fits, IdleMessage
<1> QED BY <1>1, <1>2 DEF PlacesFit, QueuedBehind, LateWereAdmitted, ExpoInit

\* The rows of visits and queues and the messages at work have their types in
\* every state; a message at work is about a booth.
THEOREM BoothTypes == ExpoSpec => []ExpoTypes
<1>1. ExpoInv /\ [ExpoNext]_expoVars => ExpoInv'
  BY ExpoNextOK, ExpoStutter
<1>2. ExpoInv => ExpoTypes
  BY DEF ExpoInv
<1> QED BY ExpoInitInv, <1>1, <1>2, PTL DEF ExpoSpec

\* No admission passes somebody who was waiting when the place was given out
\* and has waited since, for any number of sockets, of one user or of many:
\* places found later are behind all that wait, a row that is found cannot be
\* deleted unnoticed, and who is first by position is behind nobody
\* (addToQueue, admitNextFromQueue).
THEOREM NobodyIsPassed == ExpoSpec => NoOvertaking
<1>1. ExpoInv /\ [ExpoNext]_expoVars => ExpoInv'
  BY ExpoNextOK, ExpoStutter
<1>2. ExpoInv /\ [ExpoNext]_expoVars => [NobodyOvertakes]_expoVars
  BY ExpoNextOK
<1> QED BY ExpoInitInv, <1>1, <1>2, PTL DEF ExpoSpec, NoOvertaking, NobodyOvertakes
=============================================================================
