------------------------------- MODULE Huddles -------------------------------
(***************************************************************************)
(* A huddle of real-time-service: somebody proposes it, participants       *)
(* invite others, and it is confirmed once enough of them have accepted    *)
(* (huddles.gateway.ts, huddles.service.ts).                               *)
(*                                                                         *)
(* A handler gives way at each query, also to handlers on other instances. *)
(* What a transaction writes shows when it commits; its reads see what     *)
(* others committed before each of them (Read Committed).  Accepting takes *)
(* the version it read first with it, and commits only while the row still *)
(* has that version.  One huddle: huddles share no row.  The statistics    *)
(* cached in Redis are only displayed, and left out.                       *)
(***************************************************************************)
EXTENDS Integers, FiniteSets

CONSTANTS
    People,
    HuddleMessages,    \* messages of the gateway that may be at work together
    MinParticipants,
    MaxParticipants,
    MaxAcceptRetries,  \* MAX_RETRIES
    MaxVersion,        \* nobody accepts beyond this version of the row
    MaxHuddleRestarts  \* restarts of the service

ASSUME PeopleAssumption == IsFiniteSet(People)
ASSUME ParticipantsAssumption ==
    MinParticipants \in Nat \ {0, 1} /\ MaxParticipants \in Nat \ {0, 1}
ASSUME HuddleBoundsAssumption ==
    {MaxAcceptRetries, MaxVersion, MaxHuddleRestarts} \subseteq Nat

VARIABLES
    huddle,         \* the row: its status, its version and who created it
    standing,       \* standing[p]: the status of p's participant row
    handling,       \* handling[m]: what the handler of message m is at
    huddleRestarts

huddleVars == <<huddle, standing, handling, huddleRestarts>>

HuddleStatus == {"FORMING", "CONFIRMED", "IN_PROGRESS", "COMPLETED", "CANCELLED"}

IdleHandler == [at |-> "idle", by |-> "none", status |-> "none", version |-> 0,
                tries |-> 0, invitees |-> {}]

HuddleInit ==
    /\ huddle = [status |-> "none", version |-> 0, creator |-> "none"]
    /\ standing = [p \in People |-> "none"]
    /\ handling = [m \in HuddleMessages |-> IdleHandler]
    /\ huddleRestarts = 0

-----------------------------------------------------------------------------
(* Rows and handlers *)

Accepted == {p \in People : standing[p] = "ACCEPTED"}

Begins(m, p, step) ==
    /\ handling[m].at = "idle"
    /\ handling' = [handling EXCEPT ![m] =
                        [IdleHandler EXCEPT !.at = step, !.by = p]]

Replies(m) == handling' = [handling EXCEPT ![m] = IdleHandler]

\* The row and its participants are created in one transaction.
CreateHuddle(p) ==
    /\ huddle.status = "none"
    /\ huddle' = [status |-> "FORMING", version |-> 1, creator |-> p]
    /\ standing' = [standing EXCEPT ![p] = "ACCEPTED"]
    /\ UNCHANGED <<handling, huddleRestarts>>

-----------------------------------------------------------------------------
(* huddle.invite *)

\* Any participant who has not declined may invite, invited ones included.
InviterIsParticipant(m, p) ==
    /\ standing[p] \notin {"none", "DECLINED"}
    /\ Begins(m, p, "invite")
    /\ UNCHANGED <<huddle, standing, huddleRestarts>>

HuddleIsOpen(m) ==
    /\ handling[m].at = "invite"
    /\ IF huddle.status \in {"CANCELLED", "COMPLETED"}
       THEN Replies(m)
       ELSE \E invitees \in SUBSET People \ {{}} :
                handling' = [handling EXCEPT ![m].at = "rows",
                                             ![m].invitees = invitees]
    /\ UNCHANGED <<huddle, standing, huddleRestarts>>

\* Rows are created one by one; somebody who has one keeps it as it is.
CreateInvitation(m) ==
    /\ handling[m].at = "rows"
    /\ \E p \in handling[m].invitees :
          /\ standing' = IF standing[p] = "none"
                         THEN [standing EXCEPT ![p] = "INVITED"] ELSE standing
          /\ IF handling[m].invitees = {p} THEN Replies(m)
             ELSE handling' = [handling EXCEPT ![m].invitees = @ \ {p}]
    /\ UNCHANGED <<huddle, huddleRestarts>>

-----------------------------------------------------------------------------
(* huddle.respond *)

\* Declining asks neither for an invitation nor how far the huddle is; without
\* a row the update fails.
Decline(p) ==
    /\ standing[p] # "none"
    /\ standing' = [standing EXCEPT ![p] = "DECLINED"]
    /\ UNCHANGED <<huddle, handling, huddleRestarts>>

Accept(m, p) ==
    /\ huddle.status # "none" /\ huddle.version < MaxVersion
    /\ Begins(m, p, "accept")
    /\ UNCHANGED <<huddle, standing, huddleRestarts>>

ReadVersion(m) ==
    /\ handling[m].at = "accept"
    /\ handling' = [handling EXCEPT ![m].at = "count",
                                    ![m].status = huddle.status,
                                    ![m].version = huddle.version]
    /\ UNCHANGED <<huddle, standing, huddleRestarts>>

\* Everybody who has accepted counts, the one who accepts again as well.
CountAccepted(m) ==
    /\ handling[m].at = "count"
    /\ IF \/ handling[m].status \in {"CANCELLED", "COMPLETED"}
          \/ Cardinality(Accepted) >= MaxParticipants
       THEN Replies(m)
       ELSE handling' = [handling EXCEPT ![m].at = "claim", ![m].status = "none"]
    /\ UNCHANGED <<huddle, standing, huddleRestarts>>

\* Mutant: the row is taken whatever its version.
AnyVersion(m) == TRUE

SameVersion(m) == huddle.version = handling[m].version

\* The version is raised and the participant's row updated when the
\* transaction commits; without a row it is rolled back.
ClaimPlace(m) ==
    /\ handling[m].at = "claim" /\ SameVersion(m)
    /\ IF standing[handling[m].by] = "none"
       THEN Replies(m) /\ UNCHANGED <<huddle, standing>>
       ELSE /\ huddle' = [huddle EXCEPT !.version = @ + 1]
            /\ standing' = [standing EXCEPT ![handling[m].by] = "ACCEPTED"]
            /\ handling' = [handling EXCEPT ![m] = [IdleHandler EXCEPT
                                !.at = "confirm?", !.by = handling[m].by]]
    /\ UNCHANGED huddleRestarts

RetryAccept(m) ==
    /\ handling[m].at = "claim" /\ ~SameVersion(m)
    /\ IF handling[m].tries >= MaxAcceptRetries
       THEN Replies(m)
       ELSE handling' = [handling EXCEPT ![m].at = "accept", ![m].version = 0,
                                         ![m].tries = @ + 1]
    /\ UNCHANGED <<huddle, standing, huddleRestarts>>

\* Having accepted, the handler looks whether the huddle is still forming ...
ReadForming(m) ==
    /\ handling[m].at = "confirm?"
    /\ handling' = [handling EXCEPT ![m].at = "enough?",
                                    ![m].status = huddle.status]
    /\ UNCHANGED <<huddle, standing, huddleRestarts>>

\* Mutant: one more than the minimum is asked for.
MoreThanEnough == Cardinality(Accepted) > MinParticipants

Enough == Cardinality(Accepted) >= MinParticipants

\* ... whether enough have accepted ...
CheckEnough(m) ==
    /\ handling[m].at = "enough?"
    /\ IF handling[m].status = "FORMING" /\ Enough
       THEN handling' = [handling EXCEPT ![m].at = "confirm", ![m].status = "none"]
       ELSE Replies(m)
    /\ UNCHANGED <<huddle, standing, huddleRestarts>>

\* ... and confirms it, whatever has become of it by then.
ConfirmHuddle(m) ==
    /\ handling[m].at = "confirm"
    /\ huddle' = [huddle EXCEPT !.status = "CONFIRMED"]
    /\ Replies(m)
    /\ UNCHANGED <<standing, huddleRestarts>>

-----------------------------------------------------------------------------
(* huddle.leave, huddle.start, huddle.complete, huddle.cancel: each reads the *)
(* row, checks it, and then writes whatever has become of it meanwhile.       *)

Leave(m, p) ==
    /\ standing[p] # "none" /\ huddle.status \notin {"IN_PROGRESS", "COMPLETED"}
    /\ Begins(m, p, "leave")
    /\ UNCHANGED <<huddle, standing, huddleRestarts>>

WriteLeft(m) ==
    /\ handling[m].at = "leave"
    /\ standing' = [standing EXCEPT ![handling[m].by] = "DECLINED"]
    /\ Replies(m)
    /\ UNCHANGED <<huddle, huddleRestarts>>

StartHuddle(m, p) ==
    /\ huddle.creator = p /\ huddle.status = "CONFIRMED"
    /\ Begins(m, p, "IN_PROGRESS")
    /\ UNCHANGED <<huddle, standing, huddleRestarts>>

CompleteHuddle(m, p) ==
    /\ huddle.creator = p /\ huddle.status = "IN_PROGRESS"
    /\ Begins(m, p, "COMPLETED")
    /\ UNCHANGED <<huddle, standing, huddleRestarts>>

CancelHuddle(m, p) ==
    /\ huddle.creator = p
    /\ huddle.status \notin {"none", "COMPLETED", "CANCELLED"}
    /\ Begins(m, p, "CANCELLED")
    /\ UNCHANGED <<huddle, standing, huddleRestarts>>

WriteStatus(m) ==
    /\ handling[m].at \in {"IN_PROGRESS", "COMPLETED", "CANCELLED"}
    /\ huddle' = [huddle EXCEPT !.status = handling[m].at]
    /\ Replies(m)
    /\ UNCHANGED <<standing, huddleRestarts>>

-----------------------------------------------------------------------------
\* The service stops: transactions are rolled back, and a handler that has
\* accepted does not get to confirm.
HuddleRestart ==
    /\ huddleRestarts < MaxHuddleRestarts
    /\ huddleRestarts' = huddleRestarts + 1
    /\ handling' = [m \in HuddleMessages |-> IdleHandler]
    /\ UNCHANGED <<huddle, standing>>

HuddleArrives ==
    \/ \E p \in People : CreateHuddle(p) \/ Decline(p)
    \/ \E m \in HuddleMessages, p \in People :
          \/ InviterIsParticipant(m, p) \/ Accept(m, p) \/ Leave(m, p)
          \/ StartHuddle(m, p) \/ CompleteHuddle(m, p) \/ CancelHuddle(m, p)

HuddleStep(m) ==
    \/ HuddleIsOpen(m) \/ CreateInvitation(m)
    \/ ReadVersion(m) \/ CountAccepted(m) \/ ClaimPlace(m) \/ RetryAccept(m)
    \/ ReadForming(m) \/ CheckEnough(m) \/ ConfirmHuddle(m)
    \/ WriteLeft(m) \/ WriteStatus(m)

HuddleNext ==
    \/ HuddleArrives
    \/ \E m \in HuddleMessages : HuddleStep(m)
    \/ HuddleRestart

HuddleSpec == HuddleInit /\ [][HuddleNext]_huddleVars

-----------------------------------------------------------------------------
(* Properties *)

HandlerSteps ==
    {"idle", "invite", "rows", "accept", "count", "claim", "confirm?", "enough?",
     "confirm", "leave", "IN_PROGRESS", "COMPLETED", "CANCELLED"}

Handler ==
    [at : HandlerSteps, by : People \cup {"none"},
     status : HuddleStatus \cup {"none"}, version : Nat, tries : Nat,
     invitees : SUBSET People]

\* The type invariant.
HuddleTypeOK ==
    /\ huddle \in [status : HuddleStatus \cup {"none"}, version : Nat,
                   creator : People \cup {"none"}]
    /\ standing \in [People -> {"none", "INVITED", "ACCEPTED", "DECLINED"}]
    /\ handling \in [HuddleMessages -> Handler]
    /\ \A m \in HuddleMessages : handling[m].at # "idle" => handling[m].by \in People
    /\ huddleRestarts \in 0..MaxHuddleRestarts

\* However many accept at once, leave and accept again, no more than
\* maxParticipants ever take part: "Prevents overselling spots when multiple
\* users accept simultaneously" (huddles.service.ts:223).
NeverOverfull == Cardinality(Accepted) <= MaxParticipants

\* Each handler counts on its own after it has accepted, and none of them sees
\* the others at work.  Still a huddle that enough people have accepted is not
\* left forming: as long as it forms, some handler is on its way to find that
\* out and confirm it (huddles.service.ts:336-367), unless a restart ended it.
EnoughIsNoticed ==
    huddleRestarts = 0 /\ huddle.status = "FORMING"
    /\ Cardinality(Accepted) >= MinParticipants =>
        \E m \in HuddleMessages :
            \/ handling[m].at \in {"confirm?", "confirm"}
            \/ handling[m].at = "enough?" /\ handling[m].status = "FORMING"

=============================================================================
