------------------------------ MODULE MCPlatform ------------------------------
(***************************************************************************)
(* Small instances of components that share neither rows nor handlers, in  *)
(* one run.  A behaviour is about one of them, its focus; the others keep  *)
(* their initial states.                                                   *)
(***************************************************************************)
EXTENDS EngagementAgent, RfpLifecycle, ExpoBooth, Huddles, TriviaGame,
        BreakoutRooms, TeamChallenges, Gamification, TLC

CONSTANTS s1, f1, b1,   \* a session, an RFP, a booth
          u1, u2, u3,   \* users, and the socket of each
          one, two      \* requests, messages, venues, teams

VARIABLE focus

LimitsOfInterventions ==
    "short" :> [slots |-> 1, span |-> 0] @@ "medium" :> [slots |-> 2, span |-> 1]
    @@ "long" :> [slots |-> 5, span |-> 1]

BothVenues == [f \in {f1} |-> {one, two}]

OneSocketEach == [u \in {u1, u2, u3} |-> u]

Alike == Permutations({u1, u2, u3}) \cup Permutations({one, two})

platformVars == <<agentVars, rfpVars, expoVars, huddleVars, triviaVars,
                  breakoutVars, challengeVars, pointVars>>

PlatformInit ==
    /\ AgentInit /\ RfpInit /\ ExpoInit /\ HuddleInit /\ TriviaInit
    /\ BreakoutInit /\ ChallengeInit /\ GamificationInit
    /\ focus \in {"agent", "rfp", "expo", "huddle", "trivia", "breakout",
                  "challenge", "points"}

Turn(component) == focus = component /\ UNCHANGED focus

AgentTurn ==
    /\ Turn("agent") /\ AgentNext
    /\ UNCHANGED <<rfpVars, expoVars, huddleVars, triviaVars, breakoutVars,
                   challengeVars, pointVars>>

RfpTurn ==
    /\ Turn("rfp") /\ RfpNext
    /\ UNCHANGED <<agentVars, expoVars, huddleVars, triviaVars, breakoutVars,
                   challengeVars, pointVars>>

ExpoTurn ==
    /\ Turn("expo") /\ ExpoNext
    /\ UNCHANGED <<agentVars, rfpVars, huddleVars, triviaVars, breakoutVars,
                   challengeVars, pointVars>>

HuddleTurn ==
    /\ Turn("huddle") /\ HuddleNext
    /\ UNCHANGED <<agentVars, rfpVars, expoVars, triviaVars, breakoutVars,
                   challengeVars, pointVars>>

TriviaTurn ==
    /\ Turn("trivia") /\ TriviaNext
    /\ UNCHANGED <<agentVars, rfpVars, expoVars, huddleVars, breakoutVars,
                   challengeVars, pointVars>>

BreakoutTurn ==
    /\ Turn("breakout") /\ BreakoutNext
    /\ UNCHANGED <<agentVars, rfpVars, expoVars, huddleVars, triviaVars,
                   challengeVars, pointVars>>

ChallengeTurn ==
    /\ Turn("challenge") /\ ChallengeNext
    /\ UNCHANGED <<agentVars, rfpVars, expoVars, huddleVars, triviaVars,
                   breakoutVars, pointVars>>

PointsTurn ==
    /\ Turn("points") /\ GamificationNext
    /\ UNCHANGED <<agentVars, rfpVars, expoVars, huddleVars, triviaVars,
                   breakoutVars, challengeVars>>

PlatformNext ==
    \/ AgentTurn \/ RfpTurn \/ ExpoTurn \/ HuddleTurn \/ TriviaTurn
    \/ BreakoutTurn \/ ChallengeTurn \/ PointsTurn

PlatformSpec == PlatformInit /\ [][PlatformNext]_<<platformVars, focus>>

\* The type invariants of the components.
PlatformTypeOK ==
    /\ AgentTypeOK /\ RfpTypeOK /\ ExpoTypeOK /\ HuddleTypeOK /\ TriviaTypeOK
    /\ BreakoutTypeOK /\ ChallengeTypeOK /\ GamificationTypeOK
=============================================================================
