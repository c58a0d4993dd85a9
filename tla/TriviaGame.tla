------------------------------ MODULE TriviaGame ------------------------------
(***************************************************************************)
(* A trivia game between the teams of a session: an organizer creates and  *)
(* starts it, captains answer the question that is active, the organizer   *)
(* moves on from question to question and ends the game                    *)
(* (trivia.gateway.ts, trivia.service.ts of real-time-service).            *)
(*                                                                         *)
(* Every query gives way to other handlers.  A handler is a first step,    *)
(* which reads and checks, and later steps that write, whatever has become *)
(* of the rows meanwhile.  One game; a game that was deleted has lost its  *)
(* questions, answers and scores with it.  What a right answer is worth,   *)
(* and its bonus for speed, only scale what a team is credited with; here  *)
(* it is one.  Answers are right or wrong.                                 *)
(***************************************************************************)
EXTENDS Integers, FiniteSets

CONSTANTS
    Teams,
    Questions,        \* number of questions of the game
    TriviaMessages,   \* messages of the gateway that may be at work together
    MaxTriviaRestarts \* restarts of the service

ASSUME TeamsAssumption == IsFiniteSet(Teams) /\ "none" \notin Teams
ASSUME QuestionsAssumption == Questions \in Nat \ {0}
ASSUME TriviaBoundsAssumption == MaxTriviaRestarts \in Nat

VARIABLES
    game,           \* status of the game, "none" while there is no row
    question,       \* question[q]: status of the q-th question
    submitted,      \* submitted[q][t]: what team t has answered to it
    score,          \* score[t]: correctCount, of the teams that have a row
    playing,        \* playing[m]: what the handler of message m is at
    triviaRestarts

triviaVars == <<game, question, submitted, score, playing, triviaRestarts>>

Order == 1..Questions

NotPlaying == [at |-> "idle", team |-> "none", q |-> 0, next |-> 0, answer |-> "none"]

TriviaInit ==
    /\ game = "none"
    /\ question = [q \in Order |-> "PENDING"]
    /\ submitted = [q \in Order |-> [t \in Teams |-> "none"]]
    /\ score = [t \in {} |-> 0]
    /\ playing = [m \in TriviaMessages |-> NotPlaying]
    /\ triviaRestarts = 0

Played == game \in {"DRAFT", "ACTIVE", "COMPLETED"}

GoesTo(m, step) == playing' = [playing EXCEPT ![m].at = step]
Finishes(m) == playing' = [playing EXCEPT ![m] = NotPlaying]

-----------------------------------------------------------------------------
(* trivia.create, trivia.delete, trivia.start *)

CreateGame ==
    /\ game = "none" /\ game' = "DRAFT"
    /\ UNCHANGED <<question, submitted, score, playing, triviaRestarts>>

\* Both check for a draft, and write in a transaction of their own.
ReadDraft(m, step) ==
    /\ playing[m].at = "idle" /\ game = "DRAFT"
    /\ GoesTo(m, step)
    /\ UNCHANGED <<game, question, submitted, score, triviaRestarts>>

\* Mutant: the scores are set to zero for all teams there are.
FreshScores(teams) == [t \in teams |-> 0]

\* createMany with skipDuplicates: a team that has a row keeps it.
TeamScores(teams) ==
    [t \in DOMAIN score \cup teams |-> IF t \in DOMAIN score THEN score[t] ELSE 0]

\* A second start that read the draft as well opens the first question again,
\* and even a game that is over by now.
StartGame(m) ==
    /\ playing[m].at = "start"
    /\ IF Played
       THEN \E teams \in SUBSET Teams :
                /\ game' = "ACTIVE"
                /\ question' = [question EXCEPT ![1] = "ACTIVE"]
                /\ score' = TeamScores(teams)
       ELSE UNCHANGED <<game, question, score>>
    /\ Finishes(m)
    /\ UNCHANGED <<submitted, triviaRestarts>>

\* The rows of the game go with it, also when it has been started meanwhile.
DeleteGame(m) ==
    /\ playing[m].at = "delete"
    /\ IF Played
       THEN /\ game' = "deleted"
            /\ question' = [q \in Order |-> "PENDING"]
            /\ submitted' = [q \in Order |-> [t \in Teams |-> "none"]]
            /\ score' = [t \in {} |-> 0]
       ELSE UNCHANGED <<game, question, submitted, score>>
    /\ Finishes(m)
    /\ UNCHANGED triviaRestarts

-----------------------------------------------------------------------------
(* trivia.answer.submit *)

\* The captain of a team answers a question that is active now.  Its message
\* carries a key that has not been used within a minute; a captain may send
\* another message with another key.
SubmitAnswer(m, t, q) ==
    /\ playing[m].at = "idle"
    /\ Played /\ question[q] = "ACTIVE"
    /\ \E answer \in {"right", "wrong"} :
          playing' = [playing EXCEPT ![m] = [at |-> "answer", team |-> t, q |-> q,
                                             next |-> 0, answer |-> answer]]
    /\ UNCHANGED <<game, question, submitted, score, triviaRestarts>>

\* Mutant: the constraint asks for different answers only.
SameAnswerOnly(m) ==
    submitted[playing[m].q][playing[m].team] # playing[m].answer

\* The unique constraint on the question and the team.
Unanswered(m) == submitted[playing[m].q][playing[m].team] = "none"

\* The question may have been revealed meanwhile; nothing asks for that again.
InsertAnswer(m) ==
    /\ playing[m].at = "answer"
    /\ IF Played /\ Unanswered(m)
       THEN /\ submitted' = [submitted EXCEPT
                  ![playing[m].q][playing[m].team] = playing[m].answer]
            /\ IF playing[m].answer = "right" THEN GoesTo(m, "credit") ELSE Finishes(m)
       ELSE Finishes(m) /\ UNCHANGED submitted
    /\ UNCHANGED <<game, question, score, triviaRestarts>>

\* An upsert, which increments the row of the team or creates it.
CreditTeam(m) ==
    /\ playing[m].at = "credit"
    /\ LET t == playing[m].team IN
       score' = IF ~Played THEN score
                ELSE [u \in DOMAIN score \cup {t} |->
                        (IF u \in DOMAIN score THEN score[u] ELSE 0)
                          + IF u = t THEN 1 ELSE 0]
    /\ Finishes(m)
    /\ UNCHANGED <<game, question, submitted, triviaRestarts>>

-----------------------------------------------------------------------------
(* trivia.advance, trivia.end *)

\* The first question that is active, as the handler reads them ...
FirstActive ==
    CHOOSE q \in Order : question[q] = "ACTIVE" /\
                         \A p \in 1..(q - 1) : question[p] # "ACTIVE"

\* Mutant: the next one by number, and one past the last.
NextInOrder(q) == q + 1

\* ... and the first later one that is pending; 0 for none.
FollowingPending(q) ==
    LET later == {p \in (q + 1)..Questions : question[p] = "PENDING"} IN
    IF later = {} THEN 0 ELSE CHOOSE p \in later : \A r \in later : p <= r

ReadQuestions(m) ==
    /\ playing[m].at = "idle"
    /\ game = "ACTIVE" /\ \E q \in Order : question[q] = "ACTIVE"
    /\ playing' = [playing EXCEPT ![m] =
                      [NotPlaying EXCEPT !.at = "reveal", !.q = FirstActive,
                                         !.next = FollowingPending(FirstActive)]]
    /\ UNCHANGED <<game, question, submitted, score, triviaRestarts>>

RevealQuestion(m) ==
    /\ playing[m].at = "reveal"
    /\ question' = IF Played THEN [question EXCEPT ![playing[m].q] = "REVEALED"]
                   ELSE question
    /\ IF Played /\ playing[m].next # 0 THEN GoesTo(m, "activate") ELSE Finishes(m)
    /\ UNCHANGED <<game, submitted, score, triviaRestarts>>

ActivateNext(m) ==
    /\ playing[m].at = "activate"
    /\ question' = IF Played THEN [question EXCEPT ![playing[m].next] = "ACTIVE"]
                   ELSE question
    /\ Finishes(m)
    /\ UNCHANGED <<game, submitted, score, triviaRestarts>>

EndGame(m) ==
    /\ playing[m].at = "idle" /\ game = "ACTIVE"
    /\ GoesTo(m, "close")
    /\ UNCHANGED <<game, question, submitted, score, triviaRestarts>>

CloseQuestions(m) ==
    /\ playing[m].at = "close"
    /\ question' = IF Played THEN [q \in Order |-> "REVEALED"] ELSE question
    /\ GoesTo(m, "complete")
    /\ UNCHANGED <<game, submitted, score, triviaRestarts>>

CompleteGame(m) ==
    /\ playing[m].at = "complete"
    /\ game' = IF Played THEN "COMPLETED" ELSE game
    /\ Finishes(m)
    /\ UNCHANGED <<question, submitted, score, triviaRestarts>>

-----------------------------------------------------------------------------
\* The service stops between two writes of a handler.
TriviaRestart ==
    /\ triviaRestarts < MaxTriviaRestarts
    /\ triviaRestarts' = triviaRestarts + 1
    /\ playing' = [m \in TriviaMessages |-> NotPlaying]
    /\ UNCHANGED <<game, question, submitted, score>>

TriviaStep(m) ==
    \/ StartGame(m) \/ DeleteGame(m)
    \/ InsertAnswer(m) \/ CreditTeam(m)
    \/ RevealQuestion(m) \/ ActivateNext(m)
    \/ CloseQuestions(m) \/ CompleteGame(m)

TriviaNext ==
    \/ CreateGame
    \/ \E m \in TriviaMessages :
          \/ ReadDraft(m, "start") \/ ReadDraft(m, "delete")
          \/ \E t \in Teams, q \in Order : SubmitAnswer(m, t, q)
          \/ ReadQuestions(m) \/ EndGame(m)
          \/ TriviaStep(m)
    \/ TriviaRestart

TriviaSpec == TriviaInit /\ [][TriviaNext]_triviaVars

-----------------------------------------------------------------------------
(* Properties *)

TriviaSteps == {"idle", "start", "delete", "answer", "credit", "reveal",
                "activate", "close", "complete"}

\* The type invariant.
TriviaTypeOK ==
    /\ game \in {"none", "DRAFT", "ACTIVE", "COMPLETED", "deleted"}
    /\ question \in [Order -> {"PENDING", "ACTIVE", "REVEALED"}]
    /\ submitted \in [Order -> [Teams -> {"none", "right", "wrong"}]]
    /\ DOMAIN score \subseteq Teams /\ score \in [DOMAIN score -> Nat]
    /\ playing \in [TriviaMessages ->
          [at : TriviaSteps, team : Teams \cup {"none"}, q : 0..Questions,
           next : 0..Questions, answer : {"none", "right", "wrong"}]]
    /\ triviaRestarts \in 0..MaxTriviaRestarts

Right(t) == {q \in Order : submitted[q][t] = "right"}
Credit(t) == IF t \in DOMAIN score THEN score[t] ELSE 0
Crediting(t) == {m \in TriviaMessages : playing[m].at = "credit" /\ playing[m].team = t}

\* The answer and the score are written one after the other, while captains
\* repeat themselves, questions are revealed, and games are started twice or
\* deleted while they run.  Still a team is credited once for each of its right
\* answers, and never for another; only a restart between the two writes
\* leaves an answer without its credit (trivia.service.ts:219-263).
ScoresFollowAnswers ==
    Played => \A t \in Teams :
        /\ Credit(t) + Cardinality(Crediting(t)) <= Cardinality(Right(t))
        /\ triviaRestarts = 0 =>
              Credit(t) + Cardinality(Crediting(t)) = Cardinality(Right(t))

=============================================================================
