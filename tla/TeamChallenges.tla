---------------------------- MODULE TeamChallenges ----------------------------
(***************************************************************************)
(* Challenges between the teams of a session.  An organizer creates,       *)
(* starts and cancels them; what members do counts for their team while a  *)
(* challenge is on the list of the session in Redis; every instance looks  *)
(* through the list every five seconds, without waiting for its last look, *)
(* and completes what is over (challenges.service.ts, challenges.gateway.ts*)
(* and challenges.scheduler.ts of real-time-service).                      *)
(*                                                                         *)
(* Statuses and final scores are rows; the list, and the counters of the   *)
(* teams, are keys of Redis.  Every query gives way to other handlers.     *)
(* Messages and looks belong to any of the instances.  Which actions a     *)
(* challenge counts, and with which weight, is left out: one counts for    *)
(* one or not at all.  Counters expire a minute after the end.             *)
(***************************************************************************)
EXTENDS Integers, FiniteSets, Sequences

CONSTANTS
    Contestants,
    Challenges,
    ChallengeMessages,  \* messages and actions that may be at work together
    Looks,              \* looks of the schedulers that may be at work together
    MaxActions,         \* actions that count, per challenge
    MaxChallengeFaults  \* handlers that an error or a crash ends

ASSUME ChallengesAssumption ==
    /\ IsFiniteSet(Contestants) /\ "none" \notin Contestants
    /\ ChallengeMessages \cap Looks = {}
    /\ MaxActions \in Nat /\ MaxChallengeFaults \in Nat

VARIABLES
    challenge,  \* challenge[c]: status of the row, "none" without one
    standings,   \* standings[c][t]: score and finalRank of the teams with a row
    listing,    \* listing[c]: "no", or whether the end of the entry has passed
    counter,    \* counter[c][t]: the counters there are
    timed,      \* timed[c]: the teams whose counter has a time to live
    busy,       \* busy[w]: what message or look w is at
    starts,     \* starts[c]: how often c was put on the list
    counted,    \* counted[c][t]: actions counted while c was on the list
    rewarded,   \* rewarded[c][t]: how often t got its points for c
    stranded,   \* challenges that a handler has left half-way
    challengeFaults

challengeVars == <<challenge, standings, listing, counter, timed, busy, starts,
                   counted, rewarded, stranded, challengeFaults>>

rowVars == <<challenge, standings>>
countVars == <<counter, timed, counted>>
tallyVars == <<starts, rewarded, stranded>>

Idle == [at |-> "idle", on |-> {}, teams |-> {}, team |-> "none",
         scores |-> [t \in {} |-> 0], todo |-> <<>>]

Workers == ChallengeMessages \cup Looks

ChallengeInit ==
    /\ challenge = [c \in Challenges |-> "none"]
    /\ standings = [c \in Challenges |-> [t \in {} |-> [score |-> 0, rank |-> 0]]]
    /\ listing = [c \in Challenges |-> "no"]
    /\ counter = [c \in Challenges |-> [t \in {} |-> 0]]
    /\ timed = [c \in Challenges |-> {}]
    /\ busy = [w \in Workers |-> Idle]
    /\ starts = [c \in Challenges |-> 0]
    /\ counted = [c \in Challenges |-> [t \in Contestants |-> 0]]
    /\ rewarded = [c \in Challenges |-> [t \in Contestants |-> 0]]
    /\ stranded = {}
    /\ challengeFaults = 0

IsAt(w, c, step) == busy[w].at = step /\ c \in busy[w].on
Leaves(w) == busy' = [busy EXCEPT ![w] = Idle]
GoesOn(w, step) == busy' = [busy EXCEPT ![w].at = step]
TakesUp(w, c, step) ==
    /\ busy[w].at = "idle"
    /\ busy' = [busy EXCEPT ![w].at = step, ![w].on = {c}]

-----------------------------------------------------------------------------
(* challenge.create, challenge.start, challenge.cancel *)

CreateChallenge(c) ==
    /\ challenge[c] = "none"
    /\ challenge' = [challenge EXCEPT ![c] = "PENDING"]
    /\ UNCHANGED <<standings, listing, countVars, busy, tallyVars, challengeFaults>>

ReadToStart(m, c) ==
    /\ challenge[c] = "PENDING"
    /\ TakesUp(m, c, "start")
    /\ UNCHANGED <<rowVars, listing, countVars, tallyVars, challengeFaults>>

\* One transaction, for the teams there are; a team that has a row keeps it.
ActivateChallenge(m, c) ==
    /\ IsAt(m, c, "start")
    /\ challenge' = [challenge EXCEPT ![c] = "ACTIVE"]
    /\ \E teams \in SUBSET Contestants :
          /\ standings' = [standings EXCEPT ![c] =
                [t \in DOMAIN @ \cup teams |->
                   IF t \in DOMAIN @ THEN @[t] ELSE [score |-> 0, rank |-> 0]]]
          /\ busy' = [busy EXCEPT ![m].at = "list", ![m].teams = teams]
    /\ UNCHANGED <<listing, countVars, tallyVars, challengeFaults>>

\* One pipeline; what an earlier start has put there is overwritten.
ListChallenge(m, c) ==
    LET teams == busy[m].teams IN
    /\ IsAt(m, c, "list")
    /\ listing' = [listing EXCEPT ![c] = "running"]
    /\ counter' = [counter EXCEPT ![c] =
                      [t \in DOMAIN @ \cup teams |-> IF t \in teams THEN 0 ELSE @[t]]]
    /\ timed' = [timed EXCEPT ![c] = @ \cup teams]
    /\ counted' = [counted EXCEPT ![c] =
                      [t \in Contestants |-> IF t \in teams THEN 0 ELSE @[t]]]
    /\ starts' = [starts EXCEPT ![c] = @ + 1]
    /\ Leaves(m)
    /\ UNCHANGED <<rowVars, rewarded, stranded, challengeFaults>>

ReadToCancel(m, c) ==
    /\ challenge[c] \in {"PENDING", "ACTIVE"}
    /\ TakesUp(m, c, "cancel")
    /\ UNCHANGED <<rowVars, listing, countVars, tallyVars, challengeFaults>>

CancelChallenge(m, c) ==
    /\ IsAt(m, c, "cancel")
    /\ challenge' = [challenge EXCEPT ![c] = "CANCELLED"]
    /\ GoesOn(m, "unlist")
    /\ UNCHANGED <<standings, listing, countVars, tallyVars, challengeFaults>>

\* A second start may have made the challenge active again, and listed it.
Unlist(m, c) ==
    /\ IsAt(m, c, "unlist")
    /\ listing' = [listing EXCEPT ![c] = "no"]
    /\ stranded' = IF challenge[c] = "ACTIVE" THEN stranded \cup {c} ELSE stranded
    /\ Leaves(m)
    /\ UNCHANGED <<rowVars, countVars, starts, rewarded, challengeFaults>>

-----------------------------------------------------------------------------
(* trackAction, of the event that follows an award of points *)

CounterOf(c, t) == IF t \in DOMAIN counter[c] THEN counter[c][t] ELSE 0

\* Reads the list, and passes over what has ended.
ReadList(m, t) ==
    LET running == {c \in Challenges : listing[c] = "running"} IN
    /\ busy[m].at = "idle"
    /\ running # {} /\ \A c \in running : CounterOf(c, t) < MaxActions
    /\ busy' = [busy EXCEPT ![m].at = "count", ![m].on = running, ![m].team = t]
    /\ UNCHANGED <<rowVars, listing, countVars, tallyVars, challengeFaults>>

\* INCRBY makes a counter where there is none, and gives it no time to live.
CountAction(m, t, c) ==
    LET rest == busy[m].on \ {c} IN
    /\ IsAt(m, c, "count") /\ busy[m].team = t
    /\ counter' = [counter EXCEPT ![c] =
                      [u \in DOMAIN @ \cup {t} |->
                         IF u = t THEN CounterOf(c, t) + 1 ELSE @[u]]]
    /\ counted' = IF listing[c] = "no" THEN counted
                  ELSE [counted EXCEPT ![c][t] = @ + 1]
    /\ busy' = [busy EXCEPT ![m] = IF rest = {} THEN Idle ELSE [@ EXCEPT !.on = rest]]
    /\ UNCHANGED <<rowVars, listing, timed, tallyVars, challengeFaults>>

\* The end of the challenge, and a minute later.
TimePasses(c) ==
    /\ listing[c] = "running"
    /\ listing' = [listing EXCEPT ![c] = "over"]
    /\ UNCHANGED <<rowVars, countVars, busy, tallyVars, challengeFaults>>

CountersExpire(c) ==
    /\ listing[c] # "running" /\ timed[c] # {}
    /\ counter' = [counter EXCEPT ![c] = [t \in DOMAIN @ \ timed[c] |-> @[t]]]
    /\ counted' = [counted EXCEPT ![c] =
                      [t \in Contestants |-> IF t \in timed[c] THEN 0 ELSE @[t]]]
    /\ timed' = [timed EXCEPT ![c] = {}]
    /\ UNCHANGED <<rowVars, listing, busy, tallyVars, challengeFaults>>
-----------------------------------------------------------------------------
(* A look through the lists.  It completes what is over one after the other; *)
(* each entry it has read is here a look of its own, and may be old by then. *)

\* Mutant: it looks for counters instead of entries.
StillCounted(c) == listing[c] = "over" /\ counter[c] # [t \in {} |-> 0]

IsOver(c) == listing[c] = "over"

FindOver(p, c) ==
    /\ IsOver(c)
    /\ TakesUp(p, c, "read")
    /\ UNCHANGED <<rowVars, listing, countVars, tallyVars, challengeFaults>>

ReadStanding(p, c) ==
    /\ IsAt(p, c, "read")
    /\ busy' = [busy EXCEPT ![p].at = "claim", ![p].teams = DOMAIN standings[c]]
    /\ UNCHANGED <<rowVars, listing, countVars, tallyVars, challengeFaults>>

\* Mutant: the number of entries that HDEL removed is not looked at.
Unchecked(c) == TRUE

IsFirst(c) == listing[c] # "no"

\* HDEL: only who has removed the entry goes on.
Claim(p, c) ==
    /\ IsAt(p, c, "claim")
    /\ listing' = [listing EXCEPT ![c] = "no"]
    /\ IF IsFirst(c) THEN GoesOn(p, "scores") ELSE Leaves(p)
    /\ UNCHANGED <<rowVars, countVars, tallyVars, challengeFaults>>

\* Mutant: the score of the row, which nobody has written yet.
RowScore(c, t) == standings[c][t].score

FinalScore(c, t) == CounterOf(c, t)

ReadScore(p, c, t) ==
    /\ IsAt(p, c, "scores") /\ t \in busy[p].teams \ DOMAIN busy[p].scores
    /\ busy' = [busy EXCEPT ![p].scores =
                   [u \in DOMAIN @ \cup {t} |-> IF u = t THEN FinalScore(c, t) ELSE @[u]]]
    /\ UNCHANGED <<rowVars, listing, countVars, tallyVars, challengeFaults>>

\* The teams by descending score; equal ones come in any order.
Rankings(scores) ==
    LET n == Cardinality(DOMAIN scores) IN
    {r \in [1..n -> DOMAIN scores] :
        /\ \A t \in DOMAIN scores : \E i \in 1..n : r[i] = t
        /\ \A i, j \in 1..n : i < j => scores[r[i]] >= scores[r[j]]}

\* One transaction, whatever the status is by now.
Complete(p, c) ==
    LET scores == busy[p].scores IN
    /\ IsAt(p, c, "scores") /\ DOMAIN scores = busy[p].teams
    /\ challenge' = [challenge EXCEPT ![c] = "COMPLETED"]
    /\ \E ranking \in Rankings(scores) :
          /\ standings' = [standings EXCEPT ![c] =
                [t \in DOMAIN @ |->
                   IF t \notin DOMAIN scores THEN @[t]
                   ELSE [score |-> scores[t],
                         rank |-> CHOOSE i \in DOMAIN ranking : ranking[i] = t]]]
          /\ busy' = [busy EXCEPT ![p].at = "drop", ![p].todo = ranking,
                                 ![p].scores = Idle.scores]
    /\ UNCHANGED <<listing, countVars, tallyVars, challengeFaults>>

DropCounters(p, c) ==
    LET teams == busy[p].teams IN
    /\ IsAt(p, c, "drop")
    /\ counter' = [counter EXCEPT ![c] = [t \in DOMAIN @ \ teams |-> @[t]]]
    /\ timed' = [timed EXCEPT ![c] = @ \ teams]
    /\ IF teams = {} THEN Leaves(p) ELSE GoesOn(p, "reward")
    /\ UNCHANGED <<rowVars, listing, counted, tallyVars, challengeFaults>>

NextTeam(p) ==
    LET todo == Tail(busy[p].todo) IN
    busy' = [busy EXCEPT ![p] = IF todo = <<>> THEN Idle ELSE [@ EXCEPT !.todo = todo]]

\* The members of the next team get their points; nobody waits for that.
Reward(p, c) ==
    /\ IsAt(p, c, "reward")
    /\ rewarded' = [rewarded EXCEPT ![c][Head(busy[p].todo)] = @ + 1]
    /\ NextTeam(p)
    /\ UNCHANGED <<rowVars, listing, countVars, starts, stranded, challengeFaults>>

-----------------------------------------------------------------------------
(* What goes wrong *)

ChallengeFault ==
    /\ challengeFaults < MaxChallengeFaults
    /\ challengeFaults' = challengeFaults + 1

\* An error, or the end of its instance, ends a handler where it is: the list
\* does not know of an active challenge yet, or no longer.
HandlerStops(w) ==
    /\ ChallengeFault
    /\ busy[w].at # "idle"
    /\ stranded' = IF busy[w].at \in {"list", "scores"}
                   THEN stranded \cup busy[w].on ELSE stranded
    /\ Leaves(w)
    /\ UNCHANGED <<rowVars, listing, countVars, starts, rewarded>>

\* The connection is lost after HDEL has been served: the client sends it again,
\* and the second one removes nothing.
ClaimIsResent(p, c) ==
    /\ ChallengeFault
    /\ IsAt(p, c, "claim")
    /\ listing' = [listing EXCEPT ![c] = "no"]
    /\ stranded' = stranded \cup {c}
    /\ Leaves(p)
    /\ UNCHANGED <<rowVars, countVars, starts, rewarded>>

\* The members are not found; the next team is rewarded all the same.
RewardFails(p, c) ==
    /\ ChallengeFault
    /\ IsAt(p, c, "reward")
    /\ NextTeam(p)
    /\ UNCHANGED <<rowVars, listing, countVars, tallyVars>>

-----------------------------------------------------------------------------
MessageStep(m) ==
    \E c \in Challenges :
        \/ ActivateChallenge(m, c) \/ ListChallenge(m, c)
        \/ CancelChallenge(m, c) \/ Unlist(m, c)
        \/ \E t \in Contestants : CountAction(m, t, c)

LookStep(p) ==
    \E c \in Challenges :
        \/ FindOver(p, c) \/ ReadStanding(p, c) \/ Claim(p, c)
        \/ \E t \in Contestants : ReadScore(p, c, t)
        \/ Complete(p, c) \/ DropCounters(p, c) \/ Reward(p, c)

ChallengeNext ==
    \/ \E c \in Challenges :
          \/ CreateChallenge(c) \/ TimePasses(c) \/ CountersExpire(c)
          \/ \E m \in ChallengeMessages : ReadToStart(m, c) \/ ReadToCancel(m, c)
          \/ \E p \in Looks : ClaimIsResent(p, c) \/ RewardFails(p, c)
    \/ \E m \in ChallengeMessages : MessageStep(m) \/ \E t \in Contestants : ReadList(m, t)
    \/ \E p \in Looks : LookStep(p)
    \/ \E w \in Workers : HandlerStops(w)

\* Time passes, what is at work goes on, and some instance looks every five
\* seconds.
ChallengeFairness ==
    /\ \A c \in Challenges : WF_challengeVars(TimePasses(c))
    /\ \A m \in ChallengeMessages : WF_challengeVars(MessageStep(m))
    /\ \A p \in Looks : WF_challengeVars(LookStep(p))

ChallengeSpec == ChallengeInit /\ [][ChallengeNext]_challengeVars

-----------------------------------------------------------------------------
(* Properties *)

\* The type invariant.
ChallengeTypeOK ==
    /\ challenge \in [Challenges ->
          {"none", "PENDING", "ACTIVE", "COMPLETED", "CANCELLED"}]
    /\ listing \in [Challenges -> {"no", "running", "over"}]
    /\ \A c \in Challenges :
          /\ DOMAIN standings[c] \subseteq Contestants
          /\ standings[c] \in [DOMAIN standings[c] ->
                               [score : Nat, rank : 0..Cardinality(Contestants)]]
          /\ DOMAIN counter[c] \subseteq Contestants /\ counter[c] \in [DOMAIN counter[c] -> Nat]
          /\ timed[c] \subseteq DOMAIN counter[c]
    /\ \A w \in Workers :
          /\ busy[w].on \subseteq Challenges /\ busy[w].teams \subseteq Contestants
          /\ DOMAIN busy[w].scores \subseteq busy[w].teams
    /\ starts \in [Challenges -> Nat]
    /\ {counted, rewarded} \subseteq [Challenges -> [Contestants -> Nat]]
    /\ stranded \subseteq Challenges /\ challengeFaults \in 0..MaxChallengeFaults

\* Several instances look at the same list at the same time, and one may still be
\* at what another has completed.  Still a team gets its points for a challenge
\* at most once for each time that a start has put it on the list, which is once
\* unless two starts have read it as pending (challenges.service.ts:280-290).
RewardedPerStart ==
    \A c \in Challenges, t \in Contestants : rewarded[c][t] <= starts[c]

\* Every action that was counted before the challenge was claimed, and while the
\* counter was there, is in the final score of its team, and the ranks follow the
\* scores; of a challenge that was started once.  Actions that arrive with a list
\* read before may add to the score and to nothing else (completeChallenge).
StandingsFollowActions ==
    \A c \in Challenges :
        challenge[c] = "COMPLETED" /\ starts[c] = 1 =>
            \A t \in DOMAIN standings[c] :
                standings[c][t].rank > 0 =>
                    /\ standings[c][t].score >= counted[c][t]
                    /\ \A u \in DOMAIN standings[c] :
                          standings[c][u].score > standings[c][t].score =>
                              standings[c][u].rank \in 1..(standings[c][t].rank - 1)

\* A challenge that is active does not stay so: its time runs out and some look
\* completes it, or it is cancelled; only a handler that stops between Redis and
\* the database, or a cancellation that meets a second start, can leave it active
\* for ever, for then nothing lists it (challenges.scheduler.ts:42-85).
ChallengesEnd ==
    \A c \in Challenges : <>[](challenge[c] # "ACTIVE" \/ c \in stranded)

=============================================================================
