----------------------------- MODULE Gamification -----------------------------
(***************************************************************************)
(* Points and badges of one user in one session: every handler that has    *)
(* something to award calls awardPoints, without waiting for it; it books  *)
(* the points in a transaction, and then grants the badges they earn       *)
(* (gamification.service.ts of real-time-service).                         *)
(*                                                                         *)
(* Calls of all instances share the rows and the keys of Redis.  Users do  *)
(* not share any.  Transactions are Read Committed: an update of a row     *)
(* waits for another of the same row, a sum does not see what others have  *)
(* not committed.  An award is worth more during a streak or beside active *)
(* team-mates; here it is worth one or two.  Each reason has one badge     *)
(* that asks for a number of actions, and there is one badge for points.   *)
(* The session is over before the keys of Redis expire.                    *)
(***************************************************************************)
EXTENDS Integers, FiniteSets

CONSTANTS
    Reasons,         \* what points are awarded for
    OncePerSession,  \* those that are awarded once in a session
    PointAwards,     \* calls of awardPoints that may be at work together
    NeededActions,          \* actions that a badge asks for
    Milestone,       \* points that the badge for points asks for
    MaxPerReason,    \* actions of a reason
    MaxPointFaults   \* calls that an error or a crash ends

ASSUME ReasonsAssumption ==
    /\ IsFiniteSet(Reasons) /\ "none" \notin Reasons /\ "points" \notin Reasons
    /\ OncePerSession \subseteq Reasons
ASSUME PointBoundsAssumption ==
    /\ {NeededActions, Milestone} \subseteq Nat \ {0}
    /\ MaxPerReason \in Nat /\ MaxPointFaults \in Nat

VARIABLES
    entry,       \* entry[r]: points and actionCount of the row, committed
    marked,      \* the reasons with a key in Redis that says: awarded
    badges,      \* the badges granted: reasons, and "points"
    awarding,    \* awarding[a]: what call a is at
    overlapped,  \* two transactions have not seen each other's points
    pointFaults

pointVars == <<entry, marked, badges, awarding, overlapped, pointFaults>>

NotAwarding == [at |-> "idle", reason |-> "none", worth |-> 0, total |-> 0, has |-> {}]

GamificationInit ==
    /\ entry = [r \in Reasons |-> [points |-> 0, actions |-> 0]]
    /\ marked = {}
    /\ badges = {}
    /\ awarding = [a \in PointAwards |-> NotAwarding]
    /\ overlapped = FALSE
    /\ pointFaults = 0

Reason(a) == awarding[a].reason
Awards(a, step) == awarding' = [awarding EXCEPT ![a].at = step]
Returns(a) == awarding' = [awarding EXCEPT ![a] = NotAwarding]

InTransaction(r) ==
    {a \in PointAwards : awarding[a].at \in {"sum", "commit"} /\ Reason(a) = r}

-----------------------------------------------------------------------------
(* awardPoints *)

\* An action that counts once is awarded when SET NX makes its key.
BeginAward(a, r) ==
    /\ awarding[a].at = "idle"
    /\ entry[r].actions + Cardinality({b \in PointAwards : Reason(b) = r}) < MaxPerReason
    /\ IF r \in OncePerSession /\ r \in marked
       THEN UNCHANGED <<marked, awarding>>
       ELSE /\ marked' = IF r \in OncePerSession THEN marked \cup {r} ELSE marked
            /\ awarding' = [awarding EXCEPT ![a].at = "book", ![a].reason = r]
    /\ UNCHANGED <<entry, badges, overlapped, pointFaults>>

\* The transaction, by its queries.  The upsert locks the row.
BookPoints(a) ==
    /\ awarding[a].at = "book" /\ InTransaction(Reason(a)) = {}
    /\ \E worth \in 1..2 :
          awarding' = [awarding EXCEPT ![a].at = "sum", ![a].worth = worth]
    /\ UNCHANGED <<entry, marked, badges, overlapped, pointFaults>>

\* The points that are committed, whatever they were awarded for, and how many
\* they are.
AllPoints == UNION {{r} \X (1 .. entry[r].points) : r \in Reasons}
Points == Cardinality(AllPoints)

\* The sum over the rows that are committed, and its own.
SumPoints(a) ==
    /\ awarding[a].at = "sum"
    /\ awarding' = [awarding EXCEPT ![a].at = "commit",
                                    ![a].total = Points + awarding[a].worth]
    /\ overlapped' = (overlapped \/ \E r \in Reasons : InTransaction(r) \ {a} # {})
    /\ UNCHANGED <<entry, marked, badges, pointFaults>>

CommitPoints(a) ==
    /\ awarding[a].at = "commit"
    /\ entry' = [entry EXCEPT ![Reason(a)].points = @ + awarding[a].worth,
                              ![Reason(a)].actions = @ + 1]
    /\ Awards(a, "badges")
    /\ UNCHANGED <<marked, badges, overlapped, pointFaults>>

-----------------------------------------------------------------------------
(* _checkAndGrantAchievements *)

ReadBadges(a) ==
    /\ awarding[a].at = "badges"
    /\ awarding' = [awarding EXCEPT ![a].at = "actions", ![a].has = badges]
    /\ UNCHANGED <<entry, marked, badges, overlapped, pointFaults>>

\* Mutant: the badge is for the one action that makes it enough.
JustEnough(r) == entry[r].actions = NeededActions

HasEnough(r) == entry[r].actions >= NeededActions

\* Reads the row again.  A badge that another call has granted meanwhile is
\* refused by its unique constraint, which is no error.
GrantForActions(a) ==
    LET r == Reason(a) IN
    /\ awarding[a].at = "actions"
    /\ badges' = IF r \notin awarding[a].has /\ HasEnough(r)
                 THEN badges \cup {r} ELSE badges
    /\ Awards(a, "points")
    /\ UNCHANGED <<entry, marked, overlapped, pointFaults>>

\* By the sum of its own transaction.
GrantForPoints(a) ==
    /\ awarding[a].at = "points"
    /\ badges' = IF "points" \notin awarding[a].has /\ awarding[a].total >= Milestone
                 THEN badges \cup {"points"} ELSE badges
    /\ Returns(a)
    /\ UNCHANGED <<entry, marked, overlapped, pointFaults>>

\* An error, caught or not, or the end of the instance: a transaction is rolled
\* back, a key stays.
AwardFails(a) ==
    /\ pointFaults < MaxPointFaults
    /\ pointFaults' = pointFaults + 1
    /\ awarding[a].at # "idle"
    /\ Returns(a)
    /\ UNCHANGED <<entry, marked, badges, overlapped>>

AwardStep(a) ==
    \/ BookPoints(a) \/ SumPoints(a) \/ CommitPoints(a)
    \/ ReadBadges(a) \/ GrantForActions(a) \/ GrantForPoints(a)

GamificationNext ==
    \E a \in PointAwards :
        \/ \E r \in Reasons : BeginAward(a, r)
        \/ AwardStep(a)
        \/ AwardFails(a)

GamificationSpec == GamificationInit /\ [][GamificationNext]_pointVars

-----------------------------------------------------------------------------
(* Properties *)

\* The type invariant.
GamificationTypeOK ==
    /\ entry \in [Reasons -> [points : Nat, actions : 0..MaxPerReason]]
    /\ \A r \in OncePerSession : entry[r].actions <= 1
    /\ marked \subseteq OncePerSession
    /\ badges \subseteq Reasons \cup {"points"}
    /\ awarding \in [PointAwards ->
          [at : {"idle", "book", "sum", "commit", "badges", "actions", "points"},
           reason : Reasons \cup {"none"}, worth : 0..2, total : Nat,
           has : SUBSET (Reasons \cup {"points"})]]
    /\ overlapped \in BOOLEAN
    /\ pointFaults \in 0..MaxPointFaults

\* When nothing is being awarded and no call was cut short, the user has every
\* badge that the actions earn, although calls overtake each other between the
\* transaction and the look at the row, and each passes over the badges it read
\* before; the badge for points may be missing only if two transactions did not
\* see each other's points (gamification.service.ts:316-341, 642-690).
BadgesFollowActions ==
    pointFaults = 0 /\ (\A a \in PointAwards : awarding[a].at = "idle") =>
        /\ \A r \in Reasons : entry[r].actions >= NeededActions => r \in badges
        /\ ~overlapped /\ Points >= Milestone => "points" \in badges

=============================================================================
