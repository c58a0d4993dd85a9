------------------------------ MODULE GamesProofs ------------------------------
(***************************************************************************)
(* What is proved of the games of real-time-service: the scores of trivia  *)
(* games, the rewards and standings of team challenges, and the points and *)
(* badges of a user.                                                       *)
(***************************************************************************)
EXTENDS TriviaGame, TeamChallenges, Gamification, FunctionTheorems,
        FiniteSetTheorems, WellFoundedInduction, TLAPS

-----------------------------------------------------------------------------
(* Trivia: types *)

\* An answer, until it is credited, is one of a team to a question.
Submission ==
    {row \in [at : TriviaSteps, team : Teams \cup {"none"}, q : 0..Questions,
              next : 0..Questions, answer : {"none", "right", "wrong"}] :
        row.at \in {"answer", "credit"} => row.team \in Teams /\ row.q \in Order}

ScoresTyped == DOMAIN score \subseteq Teams /\ score \in [DOMAIN score -> Nat]

TriviaTyped ==
    /\ game \in {"none", "DRAFT", "ACTIVE", "COMPLETED", "deleted"}
    /\ question \in [Order -> {"PENDING", "ACTIVE", "REVEALED"}]
    /\ submitted \in [Order -> [Teams -> {"none", "right", "wrong"}]]
    /\ ScoresTyped
    /\ playing \in [TriviaMessages -> Submission]
    /\ triviaRestarts \in 0..MaxTriviaRestarts

LEMMA TriviaOrder ==
    /\ Order \subseteq Nat /\ 1 \in Order /\ IsFiniteSet(Order)
    /\ Order \subseteq 0..Questions /\ 0 \in 0..Questions
<1>1. IsFiniteSet(1..Questions)
  BY FS_Interval, QuestionsAssumption
<1> QED BY <1>1, QuestionsAssumption DEF Order

LEMMA LeastOrder ==
    ASSUME NEW S, S \subseteq Nat, S # {}
    PROVE  \E m \in S : \A n \in S : m <= n
<1>1. PICK m \in S : \A n \in S : <<n, m>> \notin OpToRel(<, Nat)
  BY NatLessThanWellFounded, WFMin
<1>2. ASSUME NEW n \in S, n < m PROVE FALSE
  <2>1. <<n, m>> \in Nat \X Nat /\ <<n, m>>[1] = n /\ <<n, m>>[2] = m
    OBVIOUS
  <2>2. <<n, m>> \in {p \in Nat \X Nat : p[1] < p[2]}
    BY <1>2, <2>1
  <2>3. OpToRel(<, Nat) = {p \in Nat \X Nat : p[1] < p[2]}
    BY DEF OpToRel
  <2> QED BY <1>1, <2>2, <2>3
<1> QED BY <1>2

LEMMA FirstActiveIs ==
    ASSUME TriviaTyped, \E q \in Order : question[q] = "ACTIVE"
    PROVE  FirstActive \in Order
<1> DEFINE S == {q \in Order : question[q] = "ACTIVE"}
<1>1. PICK m \in S : \A n \in S : m <= n
  BY TriviaOrder, LeastOrder
<1>2. \A p \in 1..(m - 1) : p \in Order /\ ~ (m <= p)
  BY <1>1, QuestionsAssumption DEF Order
<1>3. \A p \in 1..(m - 1) : question[p] # "ACTIVE"
  BY <1>1, <1>2
<1> QED BY <1>1, <1>3 DEF FirstActive

LEMMA FollowingPendingIs ==
    ASSUME TriviaTyped, NEW q \in Order
    PROVE  FollowingPending(q) \in 0..Questions
<1> DEFINE later == {p \in (q + 1)..Questions : question[p] = "PENDING"}
<1>1. CASE later = {}
  BY <1>1, TriviaOrder DEF FollowingPending
<1>2. CASE later # {}
  <2>1. later \subseteq Nat /\ later \subseteq 0..Questions
    BY QuestionsAssumption DEF Order
  <2>2. PICK m \in later : \A n \in later : m <= n
    BY <1>2, <2>1, LeastOrder
  <2> QED BY <1>2, <2>1, <2>2 DEF FollowingPending
<1> QED BY <1>1, <1>2

LEMMA TriviaPlayingStep ==
    ASSUME TriviaTyped, NEW m \in TriviaMessages, NEW row \in Submission,
           playing' = [playing EXCEPT ![m] = row]
    PROVE  playing' \in [TriviaMessages -> Submission]
BY DEF TriviaTyped

LEMMA TriviaFinishes ==
    ASSUME TriviaTyped, NEW m \in TriviaMessages, Finishes(m)
    PROVE  playing' \in [TriviaMessages -> Submission]
<1>1. NotPlaying \in Submission
  BY TriviaOrder DEF NotPlaying, Submission, TriviaSteps
<1> QED BY <1>1, TriviaPlayingStep DEF Finishes

LEMMA TriviaGoesTo ==
    ASSUME TriviaTyped, NEW m \in TriviaMessages, NEW step \in TriviaSteps,
           GoesTo(m, step), step \in {"answer", "credit"} => playing[m].at = "answer"
    PROVE  playing' \in [TriviaMessages -> Submission]
<1> DEFINE row == [playing[m] EXCEPT !.at = step]
<1>1. playing[m] \in Submission
  BY DEF TriviaTyped
<1>2. row \in Submission
  BY <1>1 DEF Submission
<1>3. playing' = [playing EXCEPT ![m] = row]
  BY DEF GoesTo
<1> HIDE DEF row
<1> QED BY <1>2, <1>3, TriviaPlayingStep

LEMMA TriviaPlaysStep ==
    ASSUME TriviaTyped, [TriviaNext]_triviaVars
    PROVE  playing' \in [TriviaMessages -> Submission]
<1> DEFINE Plays == playing' \in [TriviaMessages -> Submission]
<1> SUFFICES Plays
  OBVIOUS
<1> HIDE DEF Plays
<1>1. CASE CreateGame \/ UNCHANGED triviaVars
  BY <1>1 DEF CreateGame, triviaVars, TriviaTyped, Plays
<1>2. ASSUME NEW m \in TriviaMessages,
             ReadDraft(m, "start") \/ ReadDraft(m, "delete") \/ EndGame(m)
      PROVE  Plays
  <2>1. \E step \in {"start", "delete", "close"} : GoesTo(m, step)
    BY <1>2 DEF ReadDraft, EndGame
  <2> QED BY <2>1, TriviaGoesTo DEF TriviaSteps, Plays
<1>3. ASSUME NEW m \in TriviaMessages, NEW t \in Teams, NEW q \in Order,
             SubmitAnswer(m, t, q)
      PROVE  Plays
  <2>1. PICK answer \in {"right", "wrong"} :
           playing' = [playing EXCEPT ![m] = [at |-> "answer", team |-> t, q |-> q,
                                              next |-> 0, answer |-> answer]]
    BY <1>3 DEF SubmitAnswer
  <2>2. [at |-> "answer", team |-> t, q |-> q, next |-> 0, answer |-> answer]
           \in Submission
    BY TriviaOrder DEF Submission, TriviaSteps
  <2> QED BY <2>1, <2>2, TriviaPlayingStep DEF Plays
<1>4. ASSUME NEW m \in TriviaMessages, ReadQuestions(m) PROVE Plays
  <2>1. FirstActive \in Order
    BY <1>4, FirstActiveIs DEF ReadQuestions
  <2>2. FollowingPending(FirstActive) \in 0..Questions
    BY <2>1, FollowingPendingIs
  <2> DEFINE row == [NotPlaying EXCEPT !.at = "reveal", !.q = FirstActive,
                                       !.next = FollowingPending(FirstActive)]
  <2>3. row \in Submission
    BY <2>1, <2>2, TriviaOrder DEF Submission, NotPlaying, TriviaSteps
  <2>4. playing' = [playing EXCEPT ![m] = row]
    BY <1>4 DEF ReadQuestions
  <2> HIDE DEF row
  <2> QED BY <2>3, <2>4, TriviaPlayingStep DEF Plays
<1>5. ASSUME NEW m \in TriviaMessages, TriviaStep(m) PROVE Plays
  <2>1. \/ Finishes(m)
        \/ \E step \in {"credit", "activate", "complete"} :
              GoesTo(m, step) /\ (step = "credit" => playing[m].at = "answer")
    BY <1>5 DEF TriviaStep, StartGame, DeleteGame, InsertAnswer, CreditTeam,
                RevealQuestion, ActivateNext, CloseQuestions, CompleteGame
  <2> QED BY <2>1, TriviaFinishes, TriviaGoesTo DEF TriviaSteps, Plays
<1>6. CASE TriviaRestart
  BY <1>6, TriviaOrder DEF TriviaRestart, NotPlaying, Submission, TriviaSteps, Plays
<1> QED BY <1>1, <1>2, <1>3, <1>4, <1>5, <1>6 DEF TriviaNext

LEMMA TriviaScoresStep ==
    ASSUME TriviaTyped, [TriviaNext]_triviaVars
    PROVE  ScoresTyped'
<1>1. CASE UNCHANGED score
  BY <1>1 DEF TriviaTyped, ScoresTyped
<1>2. ASSUME NEW teams \in SUBSET Teams, score' = TeamScores(teams)
      PROVE  ScoresTyped'
  BY <1>2 DEF TeamScores, TriviaTyped, ScoresTyped
<1>3. CASE score' = [t \in {} |-> 0]
  BY <1>3 DEF ScoresTyped
<1>4. ASSUME NEW m \in TriviaMessages, CreditTeam(m)
      PROVE  ScoresTyped'
  <2>1. playing[m] \in Submission /\ playing[m].at = "credit"
    BY <1>4 DEF CreditTeam, TriviaTyped
  <2>2. playing[m].team \in Teams
    BY <2>1 DEF Submission
  <2> DEFINE t == playing[m].team
  <2>3. CASE Played
    <3>1. score' = [u \in DOMAIN score \cup {t} |->
                      (IF u \in DOMAIN score THEN score[u] ELSE 0)
                        + IF u = t THEN 1 ELSE 0]
      BY <1>4, <2>3 DEF CreditTeam
    <3>2. \A u \in DOMAIN score : score[u] \in Nat
      BY DEF TriviaTyped, ScoresTyped
    <3> HIDE DEF t
    <3> QED BY <2>2, <3>1, <3>2 DEF TriviaTyped, ScoresTyped, t
  <2> QED BY <1>1, <1>4, <2>3 DEF CreditTeam
<1>5. ASSUME NEW m \in TriviaMessages, StartGame(m) \/ DeleteGame(m) PROVE ScoresTyped'
  BY <1>1, <1>2, <1>3, <1>5 DEF StartGame, DeleteGame
<1>6. CASE CreateGame \/ TriviaRestart \/ UNCHANGED triviaVars
  BY <1>1, <1>6 DEF CreateGame, TriviaRestart, triviaVars
<1>7. ASSUME NEW m \in TriviaMessages,
             \/ ReadDraft(m, "start") \/ ReadDraft(m, "delete")
             \/ \E t \in Teams, q \in Order : SubmitAnswer(m, t, q)
             \/ ReadQuestions(m) \/ EndGame(m)
             \/ InsertAnswer(m) \/ RevealQuestion(m) \/ ActivateNext(m)
             \/ CloseQuestions(m) \/ CompleteGame(m)
      PROVE  ScoresTyped'
  BY <1>1, <1>7 DEF ReadDraft, SubmitAnswer, ReadQuestions, EndGame, InsertAnswer,
                    RevealQuestion, ActivateNext, CloseQuestions, CompleteGame
<1> QED BY <1>4, <1>5, <1>6, <1>7 DEF TriviaNext, TriviaStep

LEMMA TriviaTypedInvariant == TriviaSpec => []TriviaTyped
<1>1. TriviaInit => TriviaTyped
  BY TriviaOrder, TriviaBoundsAssumption DEF TriviaInit, TriviaTyped, ScoresTyped,
     NotPlaying, Submission, TriviaSteps
<1>2. TriviaTyped /\ [TriviaNext]_triviaVars => TriviaTyped'
  <2> SUFFICES ASSUME TriviaTyped, [TriviaNext]_triviaVars PROVE TriviaTyped'
    OBVIOUS
  <2>1. game' \in {"none", "DRAFT", "ACTIVE", "COMPLETED", "deleted"}
    BY DEF TriviaTyped, TriviaNext, TriviaStep, triviaVars, CreateGame, ReadDraft,
           SubmitAnswer, ReadQuestions, EndGame, StartGame, DeleteGame, InsertAnswer,
           CreditTeam, RevealQuestion, ActivateNext, CloseQuestions, CompleteGame,
           TriviaRestart
  <2>2. question' \in [Order -> {"PENDING", "ACTIVE", "REVEALED"}]
    BY DEF TriviaTyped, TriviaNext, TriviaStep, triviaVars, CreateGame, ReadDraft,
           SubmitAnswer, ReadQuestions, EndGame, StartGame, DeleteGame, InsertAnswer,
           CreditTeam, RevealQuestion, ActivateNext, CloseQuestions, CompleteGame,
           TriviaRestart
  <2>3. submitted' \in [Order -> [Teams -> {"none", "right", "wrong"}]]
    <3>1. ASSUME NEW m \in TriviaMessages, InsertAnswer(m)
          PROVE  submitted' \in [Order -> [Teams -> {"none", "right", "wrong"}]]
      <4>1. playing[m].answer \in {"none", "right", "wrong"}
        BY DEF TriviaTyped, Submission
      <4> QED BY <3>1, <4>1 DEF InsertAnswer, TriviaTyped
    <3>2. \/ UNCHANGED submitted
          \/ submitted' = [q \in Order |-> [t \in Teams |-> "none"]]
          \/ \E m \in TriviaMessages : InsertAnswer(m)
      BY DEF TriviaNext, TriviaStep, triviaVars, CreateGame, ReadDraft, SubmitAnswer,
             ReadQuestions, EndGame, StartGame, DeleteGame, CreditTeam, RevealQuestion,
             ActivateNext, CloseQuestions, CompleteGame, TriviaRestart
    <3>3. CASE submitted' = [q \in Order |-> [t \in Teams |-> "none"]]
      BY <3>3
    <3> QED BY <3>1, <3>2, <3>3 DEF TriviaTyped
  <2>4. triviaRestarts' \in 0..MaxTriviaRestarts
    <3>1. UNCHANGED triviaRestarts \/ TriviaRestart
      BY DEF TriviaNext, TriviaStep, triviaVars, CreateGame, ReadDraft, SubmitAnswer,
             ReadQuestions, EndGame, StartGame, DeleteGame, InsertAnswer, CreditTeam,
             RevealQuestion, ActivateNext, CloseQuestions, CompleteGame
    <3> QED BY <3>1, TriviaBoundsAssumption DEF TriviaTyped, TriviaRestart
  <2> QED BY <2>1, <2>2, <2>3, <2>4, TriviaPlaysStep, TriviaScoresStep DEF TriviaTyped
<1> QED BY <1>1, <1>2, PTL DEF TriviaSpec

\* Games, questions, answers and scores have their types, and so has what a
\* handler is at.
THEOREM TriviaTypes == TriviaSpec => []TriviaTypeOK
<1>1. TriviaTyped => TriviaTypeOK
  <2> SUFFICES ASSUME TriviaTyped PROVE TriviaTypeOK
    OBVIOUS
  <2>1. playing \in [TriviaMessages ->
          [at : TriviaSteps, team : Teams \cup {"none"}, q : 0..Questions,
           next : 0..Questions, answer : {"none", "right", "wrong"}]]
    BY DEF TriviaTyped, Submission
  <2> QED BY <2>1 DEF TriviaTyped, ScoresTyped, TriviaTypeOK
<1> QED BY <1>1, TriviaTypedInvariant, PTL

-----------------------------------------------------------------------------
(* Trivia: every right answer is credited once *)

\* Nothing is at work on a game that has not been created.
BeforeTheGame ==
    game = "none" =>
        /\ \A m \in TriviaMessages : playing[m].at = "idle"
        /\ submitted = [q \in Order |-> [t \in Teams |-> "none"]]
        /\ score = [t \in {} |-> 0]

\* Only right answers are credited; at most finitely many at a time.
CreditsAtWork == \A t \in Teams : IsFiniteSet(Crediting(t))

\* What team t is credited with, or will be, against its right answers.
Settled(t) ==
    /\ Credit(t) + Cardinality(Crediting(t)) <= Cardinality(Right(t))
    /\ triviaRestarts = 0 =>
          Credit(t) + Cardinality(Crediting(t)) = Cardinality(Right(t))

ScoreInv == CreditsAtWork /\ BeforeTheGame /\ ScoresFollowAnswers

LEMMA RightIsFinite ==
    ASSUME NEW t PROVE IsFiniteSet(Right(t)) /\ IsFiniteSet(Right(t)')
<1>1. Right(t) \in SUBSET Order /\ Right(t)' \in SUBSET Order
  BY DEF Right
<1> QED BY <1>1, TriviaOrder, FS_Subset

LEMMA CreditIsNat ==
    ASSUME TriviaTyped, NEW t PROVE Credit(t) \in Nat
BY DEF TriviaTyped, ScoresTyped, Credit

\* A handler that is not about to credit a team changes nothing of the count.
LEMMA OthersDoNotCredit ==
    ASSUME TriviaTyped, NEW m \in TriviaMessages, playing[m].at # "credit",
           NEW row, row.at # "credit", playing' = [playing EXCEPT ![m] = row]
    PROVE  \A t : Crediting(t)' = Crediting(t)
BY DEF TriviaTyped, Crediting

LEMMA OthersDoNotFinish ==
    ASSUME TriviaTyped, NEW m \in TriviaMessages, playing[m].at # "credit",
           \/ Finishes(m)
           \/ \E step \in TriviaSteps \ {"credit"} : GoesTo(m, step)
    PROVE  \A t : Crediting(t)' = Crediting(t)
<1>1. CASE Finishes(m)
  BY <1>1, OthersDoNotCredit DEF Finishes, NotPlaying
<1>2. ASSUME NEW step \in TriviaSteps \ {"credit"}, GoesTo(m, step)
      PROVE  \A t : Crediting(t)' = Crediting(t)
  <2> DEFINE row == [playing[m] EXCEPT !.at = step]
  <2>1. playing[m] \in Submission
    BY DEF TriviaTyped
  <2>2. row.at # "credit"
    BY <2>1 DEF Submission
  <2>3. playing' = [playing EXCEPT ![m] = row]
    BY <1>2 DEF GoesTo
  <2> HIDE DEF row
  <2> QED BY <2>2, <2>3, OthersDoNotCredit
<1> QED BY <1>1, <1>2

\* A step that changes neither answers, nor credits, nor what is to be credited.
LEMMA NothingCredited ==
    ASSUME CreditsAtWork, ScoresFollowAnswers, UNCHANGED <<submitted, triviaRestarts>>,
           Played' => Played,
           \A t \in Teams : Credit(t)' = Credit(t) /\ Crediting(t)' = Crediting(t)
    PROVE  CreditsAtWork' /\ ScoresFollowAnswers'
<1>1. \A t : Right(t)' = Right(t)
  BY DEF Right
<1> QED BY <1>1 DEF CreditsAtWork, ScoresFollowAnswers

LEMMA AnswerIsCounted ==
    ASSUME TriviaTyped, CreditsAtWork, ScoresFollowAnswers,
           NEW m \in TriviaMessages, InsertAnswer(m)
    PROVE  CreditsAtWork' /\ ScoresFollowAnswers'
<1>1. /\ playing[m].at = "answer" /\ playing[m] \in Submission
      /\ UNCHANGED <<game, score, triviaRestarts>>
  BY DEF InsertAnswer, TriviaTyped
<1>2. PICK t \in Teams, q \in Order : playing[m].team = t /\ playing[m].q = q
  BY <1>1 DEF Submission
<1>3. \A u : Credit(u)' = Credit(u)
  BY <1>1 DEF Credit
<1>4. Played' = Played
  BY <1>1 DEF Played
<1>5. CASE Played /\ Unanswered(m) /\ playing[m].answer = "right"
  <2>1. submitted' = [submitted EXCEPT ![q][t] = "right"] /\ submitted[q][t] = "none"
    BY <1>2, <1>5 DEF InsertAnswer, Unanswered
  <2>2. q \notin Right(t) /\ Right(t)' = Right(t) \cup {q}
    BY <1>2, <2>1 DEF Right, TriviaTyped
  <2>3. \A u \in Teams \ {t} : Right(u)' = Right(u)
    BY <1>2, <2>1 DEF Right, TriviaTyped
  <2>4. playing' = [playing EXCEPT ![m].at = "credit"]
    BY <1>5 DEF InsertAnswer, GoesTo
  <2>5. m \notin Crediting(t) /\ Crediting(t)' = Crediting(t) \cup {m}
    BY <1>1, <1>2, <2>4 DEF Crediting, TriviaTyped, Submission
  <2>6. \A u \in Teams \ {t} : Crediting(u)' = Crediting(u)
    BY <1>1, <1>2, <2>4 DEF Crediting, TriviaTyped, Submission
  <2>7. /\ IsFiniteSet(Crediting(t)')
        /\ Cardinality(Crediting(t)') = Cardinality(Crediting(t)) + 1
    BY <1>2, <2>5, FS_AddElement DEF CreditsAtWork
  <2>8. Cardinality(Right(t)') = Cardinality(Right(t)) + 1
    BY <2>2, RightIsFinite, FS_AddElement
  <2>9. CreditsAtWork'
    BY <2>6, <2>7 DEF CreditsAtWork
  <2>10. /\ Credit(t) \in Nat /\ Cardinality(Crediting(t)) \in Nat
         /\ Cardinality(Right(t)) \in Nat
    BY <1>2, CreditIsNat, RightIsFinite, FS_CardinalityType DEF CreditsAtWork
  <2>11. Settled(t)'
    <3>1. Settled(t)
      BY <1>2, <1>5 DEF ScoresFollowAnswers, Settled
    <3> QED BY <1>1, <1>3, <2>7, <2>8, <2>10, <3>1 DEF Settled
  <2>12. \A u \in Teams \ {t} : Settled(u)'
    BY <1>1, <1>3, <1>5, <2>3, <2>6 DEF ScoresFollowAnswers, Settled
  <2>13. \A u \in Teams : Settled(u)'
    BY <2>11, <2>12
  <2> QED BY <2>9, <2>13 DEF ScoresFollowAnswers, Settled
<1>6. CASE ~ (Played /\ Unanswered(m) /\ playing[m].answer = "right")
  <2>1. Finishes(m)
    BY <1>6 DEF InsertAnswer
  <2>2. \A u : Crediting(u)' = Crediting(u)
    BY <1>1, <2>1, OthersDoNotFinish
  <2>3. \A u \in Teams : Right(u)' = Right(u)
    <3>1. CASE UNCHANGED submitted
      BY <3>1 DEF Right
    <3>2. CASE ~ UNCHANGED submitted
      <4>1. /\ submitted' = [submitted EXCEPT ![q][t] = playing[m].answer]
            /\ submitted[q][t] = "none" /\ playing[m].answer # "right"
        BY <1>2, <1>6, <3>2 DEF InsertAnswer, Unanswered
      <4> QED BY <1>2, <4>1 DEF Right, TriviaTyped
    <3> QED BY <3>1, <3>2
  <2> QED BY <1>1, <1>3, <1>4, <2>2, <2>3 DEF CreditsAtWork, ScoresFollowAnswers
<1> QED BY <1>5, <1>6

LEMMA CreditIsBooked ==
    ASSUME TriviaTyped, CreditsAtWork, ScoresFollowAnswers,
           NEW m \in TriviaMessages, CreditTeam(m)
    PROVE  CreditsAtWork' /\ ScoresFollowAnswers'
<1>1. /\ playing[m].at = "credit" /\ playing[m] \in Submission
      /\ UNCHANGED <<game, submitted, triviaRestarts>>
      /\ playing' = [playing EXCEPT ![m] = NotPlaying]
  BY DEF CreditTeam, TriviaTyped, Finishes
<1>2. PICK t \in Teams : playing[m].team = t
  BY <1>1 DEF Submission
<1>3. m \in Crediting(t) /\ Crediting(t)' = Crediting(t) \ {m}
  BY <1>1, <1>2 DEF Crediting, TriviaTyped, NotPlaying
<1>4. \A u \in Teams \ {t} : Crediting(u)' = Crediting(u)
  BY <1>1, <1>2 DEF Crediting, TriviaTyped, NotPlaying
<1>5. /\ IsFiniteSet(Crediting(t)')
      /\ Cardinality(Crediting(t)') = Cardinality(Crediting(t)) - 1
  BY <1>2, <1>3, FS_RemoveElement DEF CreditsAtWork
<1>6. CreditsAtWork'
  BY <1>4, <1>5 DEF CreditsAtWork
<1>7. Played' = Played
  BY <1>1 DEF Played
<1>8. \A u : Right(u)' = Right(u)
  BY <1>1 DEF Right
<1>9. CASE Played
  <2>1. score' = [u \in DOMAIN score \cup {t} |->
                    (IF u \in DOMAIN score THEN score[u] ELSE 0)
                      + IF u = t THEN 1 ELSE 0]
    BY <1>2, <1>9 DEF CreditTeam
  <2>2. Credit(t)' = Credit(t) + 1
    BY <2>1 DEF Credit
  <2>3. \A u \in Teams \ {t} : Credit(u)' = Credit(u)
    <3> SUFFICES ASSUME NEW u \in Teams \ {t} PROVE Credit(u)' = Credit(u)
      OBVIOUS
    <3>1. Credit(u) \in Nat
      BY CreditIsNat
    <3> QED BY <2>1, <3>1 DEF Credit
  <2>4. /\ Credit(t) \in Nat /\ Cardinality(Crediting(t)) \in Nat
        /\ Cardinality(Right(t)) \in Nat
    BY <1>2, CreditIsNat, RightIsFinite, FS_CardinalityType DEF CreditsAtWork
  <2>5. Settled(t)'
    <3>1. Settled(t)
      BY <1>2, <1>9 DEF ScoresFollowAnswers, Settled
    <3> QED BY <1>1, <1>5, <1>8, <2>2, <2>4, <3>1 DEF Settled
  <2>6. \A u \in Teams \ {t} : Settled(u)'
    BY <1>1, <1>4, <1>8, <1>9, <2>3 DEF ScoresFollowAnswers, Settled
  <2>7. \A u \in Teams : Settled(u)'
    BY <2>5, <2>6
  <2> QED BY <1>6, <2>7 DEF ScoresFollowAnswers, Settled
<1> QED BY <1>6, <1>7, <1>9 DEF ScoresFollowAnswers

LEMMA NothingIsCreditedTwice ==
    ASSUME TriviaTyped, ScoreInv, [TriviaNext]_triviaVars
    PROVE  CreditsAtWork' /\ ScoresFollowAnswers'
<1> USE DEF ScoreInv
<1>1. CASE CreateGame
  <2>1. \A t \in Teams : Crediting(t)' = {} /\ Right(t)' = {} /\ Credit(t)' = 0
    <3>1. /\ \A n \in TriviaMessages : playing'[n].at = "idle"
          /\ submitted' = [q \in Order |-> [t \in Teams |-> "none"]]
          /\ score' = [t \in {} |-> 0]
      BY <1>1 DEF CreateGame, BeforeTheGame
    <3> QED BY <3>1 DEF Crediting, Right, Credit
  <2> QED BY <2>1, FS_EmptySet DEF CreditsAtWork, ScoresFollowAnswers
<1>2. ASSUME NEW m \in TriviaMessages,
             \/ ReadDraft(m, "start") \/ ReadDraft(m, "delete") \/ EndGame(m)
             \/ RevealQuestion(m) \/ ActivateNext(m)
             \/ CloseQuestions(m) \/ CompleteGame(m)
      PROVE  CreditsAtWork' /\ ScoresFollowAnswers'
  <2>1. /\ playing[m].at # "credit" /\ UNCHANGED <<submitted, score, triviaRestarts>>
        /\ \/ Finishes(m)
           \/ \E step \in TriviaSteps \ {"credit"} : GoesTo(m, step)
    BY <1>2 DEF ReadDraft, EndGame, RevealQuestion, ActivateNext, CloseQuestions,
                CompleteGame, TriviaSteps
  <2>2. Played' => Played
    BY <1>2 DEF ReadDraft, EndGame, RevealQuestion, ActivateNext, CloseQuestions,
                CompleteGame, Played
  <2> QED BY <2>1, <2>2, OthersDoNotFinish, NothingCredited DEF Credit
<1>3. ASSUME NEW m \in TriviaMessages,
             ReadQuestions(m) \/ \E t \in Teams, q \in Order : SubmitAnswer(m, t, q)
      PROVE  CreditsAtWork' /\ ScoresFollowAnswers'
  <2>1. /\ playing[m].at # "credit" /\ UNCHANGED <<game, submitted, score, triviaRestarts>>
        /\ \E row : row.at # "credit" /\ playing' = [playing EXCEPT ![m] = row]
    BY <1>3 DEF ReadQuestions, SubmitAnswer, NotPlaying
  <2> QED BY <2>1, OthersDoNotCredit, NothingCredited DEF Credit, Played
<1>4. ASSUME NEW m \in TriviaMessages, StartGame(m)
      PROVE  CreditsAtWork' /\ ScoresFollowAnswers'
  <2>1. \A t : Credit(t)' = Credit(t)
    BY <1>4 DEF StartGame, TeamScores, Credit
  <2>2. Played' => Played
    BY <1>4 DEF StartGame, Played
  <2> QED BY <1>4, <2>1, <2>2, OthersDoNotFinish, NothingCredited DEF StartGame
<1>5. ASSUME NEW m \in TriviaMessages, DeleteGame(m)
      PROVE  CreditsAtWork' /\ ScoresFollowAnswers'
  <2>1. ~ Played'
    BY <1>5 DEF DeleteGame, Played
  <2>2. \A t : Crediting(t)' = Crediting(t)
    BY <1>5, OthersDoNotFinish DEF DeleteGame
  <2> QED BY <2>1, <2>2 DEF CreditsAtWork, ScoresFollowAnswers
<1>6. CASE TriviaRestart
  <2>1. /\ \A t : Crediting(t)' = {} /\ Right(t)' = Right(t) /\ Credit(t)' = Credit(t)
        /\ Played' = Played /\ triviaRestarts' # 0
    BY <1>6 DEF TriviaRestart, NotPlaying, Crediting, Right, Credit, Played, TriviaTyped
  <2>2. \A t \in Teams : /\ Credit(t) \in Nat /\ Cardinality(Crediting(t)) \in Nat
                         /\ Cardinality(Right(t)) \in Nat
    BY CreditIsNat, RightIsFinite, FS_CardinalityType DEF CreditsAtWork
  <2>3. Played => \A t \in Teams : Credit(t) <= Cardinality(Right(t))
    BY <2>2 DEF ScoresFollowAnswers
  <2> QED BY <2>1, <2>2, <2>3, FS_EmptySet DEF CreditsAtWork, ScoresFollowAnswers
<1>7. CASE UNCHANGED triviaVars
  BY <1>7 DEF triviaVars, CreditsAtWork, ScoresFollowAnswers, Credit, Crediting, Right, Played
<1> QED BY <1>1, <1>2, <1>3, <1>4, <1>5, <1>6, <1>7, AnswerIsCounted, CreditIsBooked
        DEF TriviaNext, TriviaStep

LEMMA NothingBeforeTheGame ==
    ASSUME TriviaTyped, BeforeTheGame, [TriviaNext]_triviaVars
    PROVE  BeforeTheGame'
<1> SUFFICES ASSUME game' = "none" PROVE BeforeTheGame'
  BY DEF BeforeTheGame
<1>1. game = "none"
  BY DEF TriviaNext, TriviaStep, triviaVars, CreateGame, ReadDraft, SubmitAnswer,
         ReadQuestions, EndGame, StartGame, DeleteGame, InsertAnswer, CreditTeam,
         RevealQuestion, ActivateNext, CloseQuestions, CompleteGame, TriviaRestart
<1>2. /\ \A m \in TriviaMessages : playing[m].at = "idle" /\ ~ TriviaStep(m)
      /\ ~ CreateGame
  BY <1>1 DEF BeforeTheGame, TriviaStep, StartGame, DeleteGame, InsertAnswer,
              CreditTeam, RevealQuestion, ActivateNext, CloseQuestions, CompleteGame,
              CreateGame
<1>3. \A m \in TriviaMessages :
         /\ ~ ReadDraft(m, "start") /\ ~ ReadDraft(m, "delete")
         /\ \A t \in Teams, q \in Order : ~ SubmitAnswer(m, t, q)
         /\ ~ ReadQuestions(m) /\ ~ EndGame(m)
  BY <1>1 DEF ReadDraft, SubmitAnswer, ReadQuestions, EndGame, Played
<1>4. TriviaRestart \/ UNCHANGED triviaVars
  BY <1>2, <1>3 DEF TriviaNext
<1> QED BY <1>1, <1>4 DEF BeforeTheGame, TriviaRestart, triviaVars, NotPlaying

\* For any number of teams, questions and messages at work: a team is credited
\* once for each right answer, whatever overtakes what, and only a restart of
\* the service can leave an answer without its credit.
THEOREM AnswersAreCreditedOnce == TriviaSpec => []ScoresFollowAnswers
<1>1. TriviaInit => ScoreInv
  <2> SUFFICES ASSUME TriviaInit PROVE ScoreInv
    OBVIOUS
  <2>1. \A t : Crediting(t) = {} /\ ~ Played
    BY DEF TriviaInit, Crediting, NotPlaying, Played
  <2> QED BY <2>1, FS_EmptySet
          DEF ScoreInv, TriviaInit, CreditsAtWork, BeforeTheGame, ScoresFollowAnswers,
              NotPlaying
<1>2. TriviaTyped /\ ScoreInv /\ [TriviaNext]_triviaVars => ScoreInv'
  BY NothingIsCreditedTwice, NothingBeforeTheGame DEF ScoreInv
<1>3. ScoreInv => ScoresFollowAnswers
  BY DEF ScoreInv
<1> QED BY <1>1, <1>2, <1>3, TriviaTypedInvariant, PTL DEF TriviaSpec
-----------------------------------------------------------------------------
(* Challenges: types *)

Partial(S) == UNION {[D -> S] : D \in SUBSET Contestants}
Standing == [score : Nat, rank : 0..Cardinality(Contestants)]

WorkerSteps == {"idle", "start", "list", "cancel", "unlist", "count",
                "read", "claim", "scores", "drop", "reward"}

WorkerRows == [at : WorkerSteps, on : SUBSET Challenges, teams : SUBSET Contestants,
               team : Contestants \cup {"none"}, scores : Partial(Nat),
               todo : Seq(Contestants)]

NoneTwice(s) == \A i, j \in 1..Len(s) : s[i] = s[j] => i = j

\* What the steps of a handler have left for the next one.
Consistent(h) ==
    /\ h.at = "idle" => h = Idle
    /\ h.at # "scores" => h.scores = Idle.scores
    /\ DOMAIN h.scores \subseteq h.teams
    /\ h.at \in {"drop", "reward"} => NoneTwice(h.todo)
    /\ h.at = "drop" /\ h.teams # {} => h.todo # <<>>
    /\ h.at = "reward" => h.todo # <<>>

OnOne(h) == h.at # "idle" => \E c \in Challenges : h.on = {c}

Handlers ==
    /\ busy \in [Workers -> WorkerRows]
    /\ \A w \in Workers : Consistent(busy[w])
    /\ \A p \in Looks : OnOne(busy[p])

ChallengeTyped ==
    /\ challenge \in [Challenges ->
          {"none", "PENDING", "ACTIVE", "COMPLETED", "CANCELLED"}]
    /\ listing \in [Challenges -> {"no", "running", "over"}]
    /\ standings \in [Challenges -> Partial(Standing)]
    /\ counter \in [Challenges -> Partial(Nat)]
    /\ timed \in [Challenges -> SUBSET Contestants]
    /\ \A c \in Challenges : timed[c] \subseteq DOMAIN counter[c]
    /\ Handlers
    /\ starts \in [Challenges -> Nat]
    /\ counted \in [Challenges -> [Contestants -> Nat]]
    /\ rewarded \in [Challenges -> [Contestants -> Nat]]
    /\ stranded \subseteq Challenges
    /\ challengeFaults \in 0..MaxChallengeFaults

LEMMA PartialIs ==
    ASSUME NEW S, NEW f, NEW D \in SUBSET Contestants, f \in [D -> S]
    PROVE  f \in Partial(S)
BY DEF Partial

LEMMA IsPartial ==
    ASSUME NEW S, NEW f \in Partial(S)
    PROVE  DOMAIN f \subseteq Contestants /\ f \in [DOMAIN f -> S]
BY DEF Partial

LEMMA EmptyIsPartial ==
    ASSUME NEW S, NEW x PROVE [t \in {} |-> x] \in Partial(S)
<1>1. [t \in {} |-> x] \in [{} -> S]
  OBVIOUS
<1> QED BY <1>1, PartialIs

LEMMA IdleIsWorkerRow == Idle \in WorkerRows /\ Consistent(Idle) /\ OnOne(Idle)
<1>1. Idle.scores \in Partial(Nat) /\ DOMAIN Idle.scores = {}
  BY EmptyIsPartial DEF Idle
<1> QED BY <1>1 DEF Idle, WorkerRows, WorkerSteps, Consistent, OnOne

LEMMA HandlerGoesOn ==
    ASSUME Handlers, NEW w \in Workers, NEW row \in WorkerRows, Consistent(row),
           w \in Looks => OnOne(row), busy' = [busy EXCEPT ![w] = row]
    PROVE  Handlers'
BY DEF Handlers, Workers

LEMMA HandlerLeaves ==
    ASSUME Handlers, NEW w \in Workers, Leaves(w)
    PROVE  Handlers'
BY HandlerGoesOn, IdleIsWorkerRow DEF Leaves

LEMMA HandlerTakesUp ==
    ASSUME Handlers, NEW w \in Workers, NEW c \in Challenges,
           NEW step \in {"start", "cancel", "read"}, TakesUp(w, c, step)
    PROVE  Handlers'
<1> DEFINE row == [Idle EXCEPT !.at = step, !.on = {c}]
<1>1. busy[w] = Idle
  BY DEF TakesUp, Handlers, Consistent
<1>2. busy' = [busy EXCEPT ![w] = row]
  BY <1>1 DEF TakesUp, Handlers
<1>3. row \in WorkerRows /\ Consistent(row) /\ OnOne(row)
  <2>1. Idle \in WorkerRows /\ Consistent(Idle)
    BY IdleIsWorkerRow
  <2>2. /\ row.at = step /\ row.on = {c} /\ row.teams = Idle.teams
        /\ row.scores = Idle.scores /\ row \in WorkerRows
    BY <2>1 DEF WorkerRows, WorkerSteps
  <2>3. DOMAIN row.scores \subseteq row.teams
    BY <2>1, <2>2 DEF Consistent
  <2> HIDE DEF row
  <2> QED BY <2>2, <2>3 DEF Consistent, OnOne
<1> HIDE DEF row
<1> QED BY <1>2, <1>3, HandlerGoesOn

LEMMA HandlerGoesTo ==
    ASSUME Handlers, NEW w \in Workers, NEW step \in {"unlist", "scores", "reward"},
           GoesOn(w, step), busy[w].at \in {"cancel", "claim", "drop"},
           step = "reward" => busy[w].at = "drop" /\ busy[w].teams # {}
    PROVE  Handlers'
<1> DEFINE row == [busy[w] EXCEPT !.at = step]
<1>1. busy[w] \in WorkerRows /\ Consistent(busy[w]) /\ (w \in Looks => OnOne(busy[w]))
  BY DEF Handlers
<1>2. busy' = [busy EXCEPT ![w] = row]
  BY DEF GoesOn
<1>3. row \in WorkerRows
  BY <1>1 DEF WorkerRows, WorkerSteps
<1>4. Consistent(row)
  BY <1>1 DEF WorkerRows, Consistent
<1>5. OnOne(busy[w]) => OnOne(row)
  BY <1>1 DEF WorkerRows, OnOne
<1> HIDE DEF row
<1> QED BY <1>1, <1>2, <1>3, <1>4, <1>5, HandlerGoesOn

\* A ranking of some teams has each of them in one place.
LEMMA RankingIs ==
    ASSUME NEW D \in SUBSET Contestants, NEW scores \in [D -> Nat],
           NEW ranking \in Rankings(scores)
    PROVE  /\ ranking \in Seq(Contestants) /\ NoneTwice(ranking)
           /\ D # {} => ranking # <<>>
           /\ Len(ranking) \in 0..Cardinality(Contestants)
           /\ \A t \in D : \E i \in 1..Len(ranking) : ranking[i] = t
           /\ \A i, j \in 1..Len(ranking) : i < j => scores[ranking[i]] >= scores[ranking[j]]
<1> DEFINE n == Cardinality(D)
<1>1. IsFiniteSet(D) /\ n \in Nat /\ n <= Cardinality(Contestants)
      /\ Cardinality(Contestants) \in Nat
  BY ChallengesAssumption, FS_Subset, FS_CardinalityType
<1>2. DOMAIN scores = D
  OBVIOUS
<1>3. /\ ranking \in [1..n -> D]
      /\ \A t \in D : \E i \in 1..n : ranking[i] = t
      /\ \A i, j \in 1..n : i < j => scores[ranking[i]] >= scores[ranking[j]]
  BY <1>2 DEF Rankings
<1>4. ranking \in Seq(Contestants) /\ Len(ranking) = n
  BY <1>1, <1>3
<1>5. NoneTwice(ranking)
  <2>1. ranking \in Surjection(1..n, D)
    BY <1>3 DEF Surjection
  <2>2. IsFiniteSet(1..n) /\ Cardinality(1..n) = n
    BY <1>1, FS_Interval
  <2>3. ranking \in Injection(1..n, D)
    BY <2>1, <2>2, FS_SurjSameCardinalityImpliesInj
  <2> QED BY <1>4, <2>3 DEF Injection, NoneTwice, IsInjective
<1>6. D # {} => ranking # <<>>
  BY <1>3, <1>4
<1> QED BY <1>1, <1>3, <1>4, <1>5, <1>6
LEMMA ReadsList ==
    ASSUME Handlers, NEW m \in ChallengeMessages, NEW t \in Contestants, ReadList(m, t)
    PROVE  Handlers'
<1> DEFINE running == {c \in Challenges : listing[c] = "running"}
           row == [Idle EXCEPT !.at = "count", !.on = running, !.team = t]
<1>1. busy[m] = Idle /\ m \in Workers /\ m \notin Looks
  BY ChallengesAssumption DEF ReadList, Handlers, Consistent, Workers
<1>2. busy' = [busy EXCEPT ![m] = row]
  BY <1>1 DEF ReadList, Handlers
<1>3. Idle \in WorkerRows /\ Consistent(Idle)
  BY IdleIsWorkerRow
<1>4. /\ row.at = "count" /\ row.teams = Idle.teams /\ row.scores = Idle.scores
      /\ row \in WorkerRows
  BY <1>3 DEF WorkerRows, WorkerSteps
<1>5. DOMAIN row.scores \subseteq row.teams
  BY <1>3, <1>4 DEF Consistent
<1> HIDE DEF row
<1>6. Consistent(row)
  BY <1>4, <1>5 DEF Consistent
<1> QED BY <1>1, <1>2, <1>4, <1>6, HandlerGoesOn

LEMMA MessageHandlers ==
    ASSUME ChallengeTyped, NEW m \in ChallengeMessages, MessageStep(m)
    PROVE  Handlers'
<1>1. PICK c \in Challenges :
         \/ ActivateChallenge(m, c) \/ ListChallenge(m, c)
         \/ CancelChallenge(m, c) \/ Unlist(m, c)
         \/ \E t \in Contestants : CountAction(m, t, c)
  BY DEF MessageStep
<1>2. Handlers /\ m \in Workers /\ m \notin Looks
  BY ChallengesAssumption DEF ChallengeTyped, Workers
<1>3. /\ busy[m] \in WorkerRows /\ Consistent(busy[m])
  BY <1>2 DEF Handlers
<1>4. CASE ActivateChallenge(m, c)
  <2>1. PICK teams \in SUBSET Contestants :
           busy' = [busy EXCEPT ![m].at = "list", ![m].teams = teams]
    BY <1>4 DEF ActivateChallenge
  <2> DEFINE row == [busy[m] EXCEPT !.at = "list", !.teams = teams]
  <2>2. busy' = [busy EXCEPT ![m] = row]
    BY <1>2, <2>1 DEF Handlers
  <2>3. row \in WorkerRows /\ row.at = "list" /\ row.scores = busy[m].scores
    BY <1>3 DEF WorkerRows, WorkerSteps
  <2>4. busy[m].scores = Idle.scores /\ DOMAIN Idle.scores = {}
    BY <1>3, <1>4 DEF ActivateChallenge, IsAt, Consistent, Idle
  <2> HIDE DEF row
  <2>5. Consistent(row)
    BY <2>3, <2>4 DEF Consistent
  <2> QED BY <1>2, <2>2, <2>3, <2>5, HandlerGoesOn
<1>5. CASE ListChallenge(m, c) \/ Unlist(m, c)
  BY <1>2, <1>5, HandlerLeaves DEF ListChallenge, Unlist
<1>6. CASE CancelChallenge(m, c)
  BY <1>2, <1>6, HandlerGoesTo DEF CancelChallenge, IsAt
<1>7. ASSUME NEW t \in Contestants, CountAction(m, t, c) PROVE Handlers'
  <2> DEFINE rest == busy[m].on \ {c}
             row == [busy[m] EXCEPT !.on = rest]
  <2>1. CASE rest = {}
    BY <1>2, <1>7, <2>1, HandlerLeaves DEF CountAction, Leaves
  <2>2. CASE rest # {}
    <3>1. busy' = [busy EXCEPT ![m] = row]
      BY <1>7, <2>2 DEF CountAction
    <3>2. row \in WorkerRows /\ Consistent(row)
      BY <1>3, <1>7 DEF CountAction, IsAt, WorkerRows, Consistent
    <3> HIDE DEF row
    <3> QED BY <1>2, <3>1, <3>2, HandlerGoesOn
  <2> QED BY <2>1, <2>2
<1> QED BY <1>1, <1>4, <1>5, <1>6, <1>7

\* The next team of a look, or the end of it.
LEMMA NextTeamHandlers ==
    ASSUME Handlers, NEW p \in Looks, busy[p].at = "reward", NextTeam(p)
    PROVE  /\ Handlers' /\ Head(busy[p].todo) \in Contestants
           /\ busy'[p].at = "reward" =>
                 busy'[p].todo = Tail(busy[p].todo) /\ busy'[p].on = busy[p].on
           /\ busy'[p].at \in {"idle", "reward"}
           /\ \A q \in Looks \ {p} : busy'[q] = busy[q]
<1> DEFINE rest == Tail(busy[p].todo)
           row == [busy[p] EXCEPT !.todo = rest]
<1>1. /\ p \in Workers /\ busy[p] \in WorkerRows /\ Consistent(busy[p]) /\ OnOne(busy[p])
  BY DEF Handlers, Workers
<1>2. busy[p].todo \in Seq(Contestants) /\ busy[p].todo # <<>> /\ NoneTwice(busy[p].todo)
  BY <1>1 DEF WorkerRows, Consistent
<1>3. rest \in Seq(Contestants) /\ Head(busy[p].todo) \in Contestants
  BY <1>2
<1>4. NoneTwice(rest)
  <2>1. Len(rest) = Len(busy[p].todo) - 1 /\ Len(busy[p].todo) \in Nat
        /\ \A i \in 1..Len(rest) : rest[i] = busy[p].todo[i + 1]
    BY <1>2
  <2> SUFFICES ASSUME NEW i \in 1..Len(rest), NEW j \in 1..Len(rest), rest[i] = rest[j]
               PROVE  i = j
    BY DEF NoneTwice
  <2>2. i + 1 \in 1..Len(busy[p].todo) /\ j + 1 \in 1..Len(busy[p].todo)
    BY <2>1
  <2>3. i + 1 = j + 1
    BY <1>2, <2>1, <2>2 DEF NoneTwice
  <2> QED BY <2>1, <2>3
<1>5. CASE rest = <<>>
  <2>1. busy' = [busy EXCEPT ![p] = Idle]
    BY <1>5 DEF NextTeam
  <2>2. Handlers'
    BY <1>1, <2>1, HandlerLeaves DEF Leaves
  <2> QED BY <1>1, <1>3, <2>1, <2>2 DEF Handlers, Idle, Workers
<1>6. CASE rest # <<>>
  <2>1. busy' = [busy EXCEPT ![p] = row]
    BY <1>6 DEF NextTeam
  <2>2. /\ row \in WorkerRows /\ row.at = "reward" /\ row.todo = rest /\ row.on = busy[p].on
        /\ row.scores = busy[p].scores /\ row.teams = busy[p].teams
    BY <1>1, <1>3 DEF WorkerRows
  <2> HIDE DEF row
  <2>3. Consistent(row) /\ OnOne(row)
    BY <1>1, <1>4, <1>6, <2>2 DEF Consistent, OnOne
  <2>4. Handlers'
    BY <1>1, <2>1, <2>2, <2>3, HandlerGoesOn
  <2> QED BY <1>1, <1>3, <2>1, <2>2, <2>4 DEF Handlers, Workers
<1> QED BY <1>5, <1>6

LEMMA LookHandlers ==
    ASSUME ChallengeTyped, NEW p \in Looks, LookStep(p)
    PROVE  Handlers'
<1>1. PICK c \in Challenges :
         \/ FindOver(p, c) \/ ReadStanding(p, c) \/ Claim(p, c)
         \/ \E t \in Contestants : ReadScore(p, c, t)
         \/ Complete(p, c) \/ DropCounters(p, c) \/ Reward(p, c)
  BY DEF LookStep
<1>2. Handlers /\ p \in Workers
  BY DEF ChallengeTyped, Workers
<1>3. busy[p] \in WorkerRows /\ Consistent(busy[p]) /\ OnOne(busy[p])
  BY <1>2 DEF Handlers
<1>4. CASE FindOver(p, c)
  BY <1>2, <1>4, HandlerTakesUp DEF FindOver
<1>5. CASE ReadStanding(p, c)
  <2> DEFINE row == [busy[p] EXCEPT !.at = "claim", !.teams = DOMAIN standings[c]]
  <2>1. busy' = [busy EXCEPT ![p] = row]
    BY <1>2, <1>5 DEF ReadStanding, Handlers
  <2>2. DOMAIN standings[c] \subseteq Contestants
    BY IsPartial DEF ChallengeTyped
  <2>3. /\ row \in WorkerRows /\ row.at = "claim" /\ row.scores = busy[p].scores
        /\ row.on = busy[p].on
    BY <1>3, <2>2 DEF WorkerRows, WorkerSteps
  <2>4. busy[p].scores = Idle.scores /\ DOMAIN Idle.scores = {} /\ busy[p].at # "idle"
    BY <1>3, <1>5 DEF ReadStanding, IsAt, Consistent, Idle
  <2> HIDE DEF row
  <2>5. Consistent(row) /\ OnOne(row)
    BY <1>3, <2>3, <2>4 DEF Consistent, OnOne
  <2> QED BY <1>2, <2>1, <2>3, <2>5, HandlerGoesOn
<1>6. CASE Claim(p, c)
  BY <1>2, <1>6, HandlerGoesTo, HandlerLeaves DEF Claim, IsAt
<1>7. ASSUME NEW t \in Contestants, ReadScore(p, c, t) PROVE Handlers'
  <2> DEFINE scores == [u \in DOMAIN busy[p].scores \cup {t} |->
                          IF u = t THEN FinalScore(c, t) ELSE busy[p].scores[u]]
             row == [busy[p] EXCEPT !.scores = scores]
  <2>1. busy' = [busy EXCEPT ![p] = row]
    BY <1>7 DEF ReadScore
  <2>2. /\ busy[p].at = "scores" /\ t \in busy[p].teams
        /\ DOMAIN busy[p].scores \subseteq busy[p].teams
        /\ busy[p].teams \subseteq Contestants
    BY <1>3, <1>7 DEF ReadScore, IsAt, Consistent, WorkerRows
  <2>3. busy[p].scores \in Partial(Nat) /\ counter[c] \in Partial(Nat)
    BY <1>3 DEF WorkerRows, ChallengeTyped
  <2>4. FinalScore(c, t) \in Nat
    BY <2>3, IsPartial DEF FinalScore, CounterOf
  <2>5. scores \in [DOMAIN busy[p].scores \cup {t} -> Nat]
    BY <2>3, <2>4, IsPartial
  <2>6. scores \in Partial(Nat) /\ DOMAIN scores \subseteq busy[p].teams
    BY <2>2, <2>5, PartialIs
  <2> HIDE DEF scores
  <2>7. /\ row \in WorkerRows /\ row.at = "scores" /\ row.scores = scores
        /\ row.on = busy[p].on /\ row.teams = busy[p].teams
    BY <1>3, <2>2, <2>6 DEF WorkerRows
  <2> HIDE DEF row
  <2>8. Consistent(row) /\ OnOne(row)
    BY <1>3, <2>2, <2>6, <2>7 DEF Consistent, OnOne
  <2> QED BY <1>2, <2>1, <2>7, <2>8, HandlerGoesOn
<1>8. CASE Complete(p, c)
  <2>1. PICK ranking \in Rankings(busy[p].scores) :
           busy' = [busy EXCEPT ![p].at = "drop", ![p].todo = ranking,
                                ![p].scores = Idle.scores]
    BY <1>8 DEF Complete
  <2> DEFINE row == [busy[p] EXCEPT !.at = "drop", !.todo = ranking,
                                    !.scores = Idle.scores]
  <2>2. busy' = [busy EXCEPT ![p] = row]
    BY <1>2, <2>1 DEF Handlers
  <2>3. /\ busy[p].at = "scores" /\ DOMAIN busy[p].scores = busy[p].teams
        /\ busy[p].teams \subseteq Contestants
        /\ busy[p].scores \in [busy[p].teams -> Nat]
    BY <1>3, <1>8, IsPartial DEF Complete, IsAt, WorkerRows
  <2>4. /\ ranking \in Seq(Contestants) /\ NoneTwice(ranking)
        /\ busy[p].teams # {} => ranking # <<>>
    <3>1. PICK D, scores : D = busy[p].teams /\ scores = busy[p].scores
      OBVIOUS
    <3>2. D \in SUBSET Contestants /\ scores \in [D -> Nat] /\ ranking \in Rankings(scores)
      BY <2>1, <2>3, <3>1
    <3>3. /\ ranking \in Seq(Contestants) /\ NoneTwice(ranking)
          /\ D # {} => ranking # <<>>
      BY <3>2, RankingIs
    <3> QED BY <3>1, <3>3
  <2>5. Idle.scores \in Partial(Nat) /\ DOMAIN Idle.scores = {}
    BY EmptyIsPartial DEF Idle
  <2>6. /\ row \in WorkerRows /\ row.at = "drop" /\ row.scores = Idle.scores
        /\ row.on = busy[p].on /\ row.teams = busy[p].teams /\ row.todo = ranking
    BY <1>3, <2>4, <2>5 DEF WorkerRows, WorkerSteps
  <2> HIDE DEF row
  <2>7. Consistent(row) /\ OnOne(row)
    BY <1>3, <2>3, <2>4, <2>5, <2>6 DEF Consistent, OnOne
  <2> QED BY <1>2, <2>2, <2>6, <2>7, HandlerGoesOn
<1>9. CASE DropCounters(p, c)
  BY <1>2, <1>9, HandlerGoesTo, HandlerLeaves DEF DropCounters, IsAt
<1>10. CASE Reward(p, c)
  BY <1>2, <1>10, NextTeamHandlers DEF Reward, IsAt
<1> QED BY <1>1, <1>4, <1>5, <1>6, <1>7, <1>8, <1>9, <1>10

LEMMA HandlersStay ==
    ASSUME ChallengeTyped, [ChallengeNext]_challengeVars
    PROVE  Handlers'
<1>1. Handlers
  BY DEF ChallengeTyped
<1>2. ASSUME UNCHANGED busy PROVE Handlers'
  BY <1>1, <1>2 DEF Handlers
<1>3. ASSUME NEW c \in Challenges,
             CreateChallenge(c) \/ TimePasses(c) \/ CountersExpire(c)
      PROVE  Handlers'
  BY <1>2, <1>3 DEF CreateChallenge, TimePasses, CountersExpire
<1>4. ASSUME NEW c \in Challenges, NEW m \in ChallengeMessages,
             ReadToStart(m, c) \/ ReadToCancel(m, c)
      PROVE  Handlers'
  BY <1>1, <1>4, HandlerTakesUp DEF ReadToStart, ReadToCancel, Workers
<1>5. ASSUME NEW c \in Challenges, NEW p \in Looks, ClaimIsResent(p, c) \/ RewardFails(p, c)
      PROVE  Handlers'
  BY <1>1, <1>5, HandlerLeaves, NextTeamHandlers DEF ClaimIsResent, RewardFails, IsAt, Workers
<1>6. ASSUME NEW w \in Workers, HandlerStops(w) PROVE Handlers'
  BY <1>1, <1>6, HandlerLeaves DEF HandlerStops
<1>7. CASE UNCHANGED challengeVars
  BY <1>2, <1>7 DEF challengeVars
<1> QED BY <1>1, <1>3, <1>4, <1>5, <1>6, <1>7, MessageHandlers, LookHandlers, ReadsList
        DEF ChallengeNext
LEMMA ContestantsCounted == Cardinality(Contestants) \in Nat
BY ChallengesAssumption, FS_CardinalityType

\* The rows of a challenge that is completed with some scores.
Completed(rows, scores, ranking) ==
    [t \in DOMAIN rows |->
        IF t \notin DOMAIN scores THEN rows[t]
        ELSE [score |-> scores[t], rank |-> CHOOSE i \in DOMAIN ranking : ranking[i] = t]]

LEMMA CompletedIs ==
    ASSUME NEW rows \in Partial(Standing), NEW scores \in Partial(Nat),
           NEW ranking \in Rankings(scores)
    PROVE  /\ Completed(rows, scores, ranking) \in Partial(Standing)
           /\ DOMAIN Completed(rows, scores, ranking) = DOMAIN rows
           /\ \A t \in DOMAIN rows :
                 LET row == Completed(rows, scores, ranking)[t] IN
                 IF t \notin DOMAIN scores THEN row = rows[t]
                 ELSE /\ row.score = scores[t]
                      /\ row.rank \in 1..Len(ranking) /\ ranking[row.rank] = t
<1> DEFINE D == DOMAIN scores
           new == Completed(rows, scores, ranking)
<1>1. D \in SUBSET Contestants /\ scores \in [D -> Nat]
  BY IsPartial
<1>2. /\ ranking \in Seq(Contestants)
      /\ Len(ranking) \in 0..Cardinality(Contestants)
      /\ \A t \in D : \E i \in 1..Len(ranking) : ranking[i] = t
  <2> HIDE DEF D
  <2> QED BY <1>1, RankingIs
<1>3. \A t \in D : LET i == CHOOSE k \in DOMAIN ranking : ranking[k] = t
                  IN  i \in 1..Len(ranking) /\ ranking[i] = t
  BY <1>2
<1>4. DOMAIN rows \subseteq Contestants /\ rows \in [DOMAIN rows -> Standing]
  BY IsPartial
<1>5. DOMAIN new = DOMAIN rows
  BY DEF Completed
<1>6. ASSUME NEW t \in DOMAIN rows, t \notin D PROVE new[t] = rows[t] /\ new[t] \in Standing
  BY <1>4, <1>6 DEF Completed
<1>7. ASSUME NEW t \in DOMAIN rows, t \in D
      PROVE  /\ new[t].score = scores[t] /\ new[t] \in Standing
             /\ new[t].rank \in 1..Len(ranking) /\ ranking[new[t].rank] = t
  <2>1. PICK i : i = CHOOSE k \in DOMAIN ranking : ranking[k] = t
    OBVIOUS
  <2>2. i \in 1..Len(ranking) /\ ranking[i] = t
    BY <1>3, <1>7, <2>1
  <2>3. new[t] = [score |-> scores[t], rank |-> i]
    BY <1>7, <2>1 DEF Completed
  <2>4. i \in 0..Cardinality(Contestants) /\ scores[t] \in Nat
    BY <1>1, <1>2, <1>7, <2>2, ContestantsCounted
  <2> HIDE DEF new
  <2> QED BY <2>2, <2>3, <2>4 DEF Standing
<1>8. new \in [DOMAIN rows -> Standing]
  <2>1. \A t \in DOMAIN rows : new[t] \in Standing
    BY <1>6, <1>7
  <2>2. new = [t \in DOMAIN rows |-> new[t]]
    BY DEF Completed
  <2> HIDE DEF new
  <2> QED BY <2>1, <2>2
<1>9. new \in Partial(Standing)
  <2> HIDE DEF new
  <2> QED BY <1>4, <1>8, PartialIs
<1> QED BY <1>5, <1>6, <1>7, <1>9

\* Which steps change the rows, and which the counters.
LEMMA WhoChangesRows ==
    ASSUME [ChallengeNext]_challengeVars
    PROVE  /\ \/ UNCHANGED standings
              \/ \E m \in ChallengeMessages, c \in Challenges : ActivateChallenge(m, c)
              \/ \E p \in Looks, c \in Challenges : Complete(p, c)
           /\ \/ UNCHANGED rewarded
              \/ \E p \in Looks, c \in Challenges : Reward(p, c)
           /\ \/ UNCHANGED starts
              \/ \E m \in ChallengeMessages, c \in Challenges : ListChallenge(m, c)
<1>1. \/ UNCHANGED standings
      \/ \E m \in ChallengeMessages, c \in Challenges : ActivateChallenge(m, c)
      \/ \E p \in Looks, c \in Challenges : Complete(p, c)
  <2>1. ASSUME NEW c \in Challenges,
               \/ CreateChallenge(c) \/ TimePasses(c) \/ CountersExpire(c)
               \/ \E m \in ChallengeMessages : ReadToStart(m, c) \/ ReadToCancel(m, c)
               \/ \E p \in Looks : ClaimIsResent(p, c) \/ RewardFails(p, c)
        PROVE  UNCHANGED standings
    BY <2>1 DEF CreateChallenge, TimePasses, CountersExpire, ReadToStart, ReadToCancel,
                ClaimIsResent, RewardFails, rowVars
  <2>2. ASSUME NEW m \in ChallengeMessages, NEW c \in Challenges,
               \/ ListChallenge(m, c) \/ CancelChallenge(m, c) \/ Unlist(m, c)
               \/ \E t \in Contestants : CountAction(m, t, c)
        PROVE  UNCHANGED standings
    BY <2>2 DEF ListChallenge, CancelChallenge, Unlist, CountAction, rowVars
  <2>3. ASSUME NEW p \in Looks, NEW c \in Challenges,
               \/ FindOver(p, c) \/ ReadStanding(p, c) \/ Claim(p, c)
               \/ \E t \in Contestants : ReadScore(p, c, t)
               \/ DropCounters(p, c) \/ Reward(p, c)
        PROVE  UNCHANGED standings
    BY <2>3 DEF FindOver, ReadStanding, Claim, ReadScore, DropCounters, Reward, rowVars
  <2>4. ASSUME NEW m \in ChallengeMessages, NEW t \in Contestants, ReadList(m, t)
        PROVE  UNCHANGED standings
    BY <2>4 DEF ReadList, rowVars
  <2>5. ASSUME NEW w \in Workers, HandlerStops(w) PROVE UNCHANGED standings
    BY <2>5 DEF HandlerStops, rowVars
  <2>6. CASE UNCHANGED challengeVars
    BY <2>6 DEF challengeVars
  <2> QED BY <2>1, <2>2, <2>3, <2>4, <2>5, <2>6 DEF ChallengeNext, MessageStep, LookStep
<1>2. ASSUME \A p \in Looks, c \in Challenges : ~ Reward(p, c)
      PROVE  UNCHANGED rewarded
  <2>1. ASSUME NEW c \in Challenges,
               \/ CreateChallenge(c) \/ TimePasses(c) \/ CountersExpire(c)
               \/ \E m \in ChallengeMessages : ReadToStart(m, c) \/ ReadToCancel(m, c)
               \/ \E p \in Looks : ClaimIsResent(p, c) \/ RewardFails(p, c)
        PROVE  UNCHANGED rewarded
    BY <2>1 DEF CreateChallenge, TimePasses, CountersExpire, ReadToStart, ReadToCancel,
                ClaimIsResent, RewardFails, tallyVars
  <2>2. ASSUME NEW m \in ChallengeMessages,
               MessageStep(m) \/ \E t \in Contestants : ReadList(m, t)
        PROVE  UNCHANGED rewarded
    BY <2>2 DEF MessageStep, ActivateChallenge, ListChallenge, CancelChallenge, Unlist,
                CountAction, ReadList, tallyVars
  <2>3. ASSUME NEW p \in Looks, LookStep(p) PROVE UNCHANGED rewarded
    BY <1>2, <2>3 DEF LookStep, FindOver, ReadStanding, Claim, ReadScore, Complete,
                      DropCounters, tallyVars
  <2>4. ASSUME NEW w \in Workers, HandlerStops(w) PROVE UNCHANGED rewarded
    BY <2>4 DEF HandlerStops
  <2>5. CASE UNCHANGED challengeVars
    BY <2>5 DEF challengeVars
  <2> QED BY <2>1, <2>2, <2>3, <2>4, <2>5 DEF ChallengeNext
<1>3. \/ UNCHANGED starts
      \/ \E m \in ChallengeMessages, c \in Challenges : ListChallenge(m, c)
  <2>1. ASSUME NEW c \in Challenges,
               \/ CreateChallenge(c) \/ TimePasses(c) \/ CountersExpire(c)
               \/ \E m \in ChallengeMessages : ReadToStart(m, c) \/ ReadToCancel(m, c)
               \/ \E p \in Looks : ClaimIsResent(p, c) \/ RewardFails(p, c)
        PROVE  UNCHANGED starts
    BY <2>1 DEF CreateChallenge, TimePasses, CountersExpire, ReadToStart, ReadToCancel,
                ClaimIsResent, RewardFails, tallyVars
  <2>2. ASSUME NEW m \in ChallengeMessages, NEW c \in Challenges,
               \/ ActivateChallenge(m, c) \/ CancelChallenge(m, c) \/ Unlist(m, c)
               \/ \E t \in Contestants : CountAction(m, t, c)
        PROVE  UNCHANGED starts
    BY <2>2 DEF ActivateChallenge, CancelChallenge, Unlist, CountAction, tallyVars
  <2>3. ASSUME NEW p \in Looks, NEW c \in Challenges,
               \/ FindOver(p, c) \/ ReadStanding(p, c) \/ Claim(p, c)
               \/ \E t \in Contestants : ReadScore(p, c, t)
               \/ Complete(p, c) \/ DropCounters(p, c) \/ Reward(p, c)
        PROVE  UNCHANGED starts
    BY <2>3 DEF FindOver, ReadStanding, Claim, ReadScore, Complete, DropCounters,
                Reward, tallyVars
  <2>4. ASSUME NEW m \in ChallengeMessages, NEW t \in Contestants, ReadList(m, t)
        PROVE  UNCHANGED starts
    BY <2>4 DEF ReadList, tallyVars
  <2>5. ASSUME NEW w \in Workers, HandlerStops(w) PROVE UNCHANGED starts
    BY <2>5 DEF HandlerStops, tallyVars
  <2>6. CASE UNCHANGED challengeVars
    BY <2>6 DEF challengeVars
  <2> QED BY <2>1, <2>2, <2>3, <2>4, <2>5, <2>6 DEF ChallengeNext, MessageStep, LookStep
<1> QED BY <1>1, <1>2, <1>3

LEMMA WhoChangesCounters ==
    ASSUME [ChallengeNext]_challengeVars
    PROVE  \/ UNCHANGED countVars
           \/ \E m \in ChallengeMessages, c \in Challenges :
                 \/ ListChallenge(m, c)
                 \/ \E t \in Contestants : CountAction(m, t, c)
           \/ \E p \in Looks, c \in Challenges : DropCounters(p, c)
           \/ \E c \in Challenges : CountersExpire(c)
<1>1. ASSUME NEW c \in Challenges,
             \/ CreateChallenge(c) \/ TimePasses(c)
             \/ \E m \in ChallengeMessages : ReadToStart(m, c) \/ ReadToCancel(m, c)
             \/ \E p \in Looks : ClaimIsResent(p, c) \/ RewardFails(p, c)
      PROVE  UNCHANGED countVars
  BY <1>1 DEF CreateChallenge, TimePasses, ReadToStart, ReadToCancel, ClaimIsResent,
              RewardFails
<1>2. ASSUME NEW m \in ChallengeMessages, NEW c \in Challenges,
             ActivateChallenge(m, c) \/ CancelChallenge(m, c) \/ Unlist(m, c)
      PROVE  UNCHANGED countVars
  BY <1>2 DEF ActivateChallenge, CancelChallenge, Unlist
<1>3. ASSUME NEW m \in ChallengeMessages, NEW t \in Contestants, ReadList(m, t)
      PROVE  UNCHANGED countVars
  BY <1>3 DEF ReadList
<1>4. ASSUME NEW p \in Looks, NEW c \in Challenges,
             \/ FindOver(p, c) \/ ReadStanding(p, c) \/ Claim(p, c)
             \/ \E t \in Contestants : ReadScore(p, c, t)
             \/ Complete(p, c) \/ Reward(p, c)
      PROVE  UNCHANGED countVars
  BY <1>4 DEF FindOver, ReadStanding, Claim, ReadScore, Complete, Reward
<1>5. ASSUME NEW w \in Workers, HandlerStops(w) PROVE UNCHANGED countVars
  BY <1>5 DEF HandlerStops
<1>6. CASE UNCHANGED challengeVars
  BY <1>6 DEF challengeVars, countVars
<1> QED BY <1>1, <1>2, <1>3, <1>4, <1>5, <1>6 DEF ChallengeNext, MessageStep, LookStep

LEMMA StandingsTyped ==
    ASSUME ChallengeTyped, [ChallengeNext]_challengeVars
    PROVE  standings' \in [Challenges -> Partial(Standing)]
<1>1. CASE UNCHANGED standings
  BY <1>1 DEF ChallengeTyped
<1>2. ASSUME NEW c \in Challenges, NEW row \in Partial(Standing),
             standings' = [standings EXCEPT ![c] = row]
      PROVE  standings' \in [Challenges -> Partial(Standing)]
  BY <1>2 DEF ChallengeTyped
<1>3. ASSUME NEW m \in ChallengeMessages, NEW c \in Challenges, ActivateChallenge(m, c)
      PROVE  standings' \in [Challenges -> Partial(Standing)]
  <2>1. PICK teams \in SUBSET Contestants :
           standings' = [standings EXCEPT ![c] =
              [t \in DOMAIN @ \cup teams |->
                 IF t \in DOMAIN @ THEN @[t] ELSE [score |-> 0, rank |-> 0]]]
    BY <1>3 DEF ActivateChallenge
  <2> DEFINE old == standings[c]
             row == [t \in DOMAIN old \cup teams |->
                       IF t \in DOMAIN old THEN old[t] ELSE [score |-> 0, rank |-> 0]]
  <2>2. standings' = [standings EXCEPT ![c] = row]
    BY <2>1
  <2>3. DOMAIN old \subseteq Contestants /\ old \in [DOMAIN old -> Standing]
    BY IsPartial DEF ChallengeTyped
  <2>4. [score |-> 0, rank |-> 0] \in Standing
    BY ContestantsCounted DEF Standing
  <2>5. row \in [DOMAIN old \cup teams -> Standing]
    <3> HIDE DEF old
    <3> QED BY <2>3, <2>4
  <2>6. DOMAIN old \cup teams \in SUBSET Contestants
    BY <2>3
  <2> HIDE DEF row, old
  <2>7. row \in Partial(Standing)
    BY <2>5, <2>6, PartialIs
  <2> QED BY <1>2, <2>2, <2>7
<1>4. ASSUME NEW p \in Looks, NEW c \in Challenges, Complete(p, c)
      PROVE  standings' \in [Challenges -> Partial(Standing)]
  <2> DEFINE scores == busy[p].scores
             old == standings[c]
  <2>1. PICK ranking \in Rankings(scores) :
           standings' = [standings EXCEPT ![c] = Completed(old, scores, ranking)]
    BY <1>4 DEF Complete, Completed
  <2>2. scores \in Partial(Nat) /\ old \in Partial(Standing)
    BY DEF ChallengeTyped, Handlers, WorkerRows, Workers
  <2> HIDE DEF scores, old
  <2>3. Completed(old, scores, ranking) \in Partial(Standing)
    BY <2>2, CompletedIs
  <2> QED BY <1>2, <2>1, <2>3
<1> QED BY <1>1, <1>3, <1>4, WhoChangesRows
CountersTyped ==
    /\ counter \in [Challenges -> Partial(Nat)]
    /\ timed \in [Challenges -> SUBSET Contestants]
    /\ \A c \in Challenges : timed[c] \subseteq DOMAIN counter[c]
    /\ counted \in [Challenges -> [Contestants -> Nat]]

\* One challenge is given new counters.
LEMMA CountersStep ==
    ASSUME CountersTyped, NEW c \in Challenges, NEW row \in Partial(Nat),
           NEW some \in SUBSET Contestants, some \subseteq DOMAIN row,
           NEW actions \in [Contestants -> Nat],
           counter' = [counter EXCEPT ![c] = row],
           timed' = [timed EXCEPT ![c] = some],
           counted' = [counted EXCEPT ![c] = actions]
    PROVE  CountersTyped'
BY DEF CountersTyped

LEMMA CountedUp ==
    ASSUME ChallengeTyped, NEW m \in ChallengeMessages, NEW c \in Challenges,
           NEW t \in Contestants, CountAction(m, t, c)
    PROVE  /\ DOMAIN counter'[c] = DOMAIN counter[c] \cup {t}
           /\ counter'[c][t] = CounterOf(c, t) + 1
           /\ \A u \in DOMAIN counter[c] \ {t} : counter'[c][u] = counter[c][u]
           /\ \A d \in Challenges \ {c} : counter'[d] = counter[d]
           /\ counter'[c] \in Partial(Nat)
           /\ CounterOf(c, t) \in Nat
<1> DEFINE old == counter[c]
           row == [u \in DOMAIN old \cup {t} |->
                     IF u = t THEN CounterOf(c, t) + 1 ELSE old[u]]
<1>1. counter' = [counter EXCEPT ![c] = row]
  BY DEF CountAction
<1>2. old \in Partial(Nat)
  BY DEF ChallengeTyped
<1>3. CounterOf(c, t) \in Nat
  BY <1>2, IsPartial DEF CounterOf
<1>4. DOMAIN old \subseteq Contestants /\ old \in [DOMAIN old -> Nat]
  BY <1>2, IsPartial
<1>5. row \in [DOMAIN old \cup {t} -> Nat]
  <2> HIDE DEF old
  <2> QED BY <1>3, <1>4
<1>6. counter'[c] = row /\ \A d \in Challenges \ {c} : counter'[d] = counter[d]
  BY <1>1 DEF ChallengeTyped
<1>7. row \in Partial(Nat)
  <2> HIDE DEF row, old
  <2> QED BY <1>4, <1>5, PartialIs
<1> QED BY <1>3, <1>6, <1>7

LEMMA Restricted ==
    ASSUME NEW f \in Partial(Nat), NEW D, D \subseteq DOMAIN f
    PROVE  [t \in D |-> f[t]] \in Partial(Nat)
<1>1. DOMAIN f \subseteq Contestants /\ f \in [DOMAIN f -> Nat]
  BY IsPartial
<1>2. [t \in D |-> f[t]] \in [D -> Nat]
  BY <1>1
<1> QED BY <1>1, <1>2, PartialIs

LEMMA CountersTypedStep ==
    ASSUME ChallengeTyped, [ChallengeNext]_challengeVars
    PROVE  CountersTyped'
<1>1. CountersTyped
  BY DEF ChallengeTyped, CountersTyped
<1>2. CASE UNCHANGED countVars
  BY <1>1, <1>2 DEF countVars, CountersTyped
<1>3. ASSUME NEW m \in ChallengeMessages, NEW c \in Challenges, ListChallenge(m, c)
      PROVE  CountersTyped'
  <2> DEFINE teams == busy[m].teams
             old == counter[c]
             row == [t \in DOMAIN old \cup teams |-> IF t \in teams THEN 0 ELSE old[t]]
             actions == [t \in Contestants |-> IF t \in teams THEN 0 ELSE counted[c][t]]
  <2>1. /\ counter' = [counter EXCEPT ![c] = row]
        /\ timed' = [timed EXCEPT ![c] = timed[c] \cup teams]
        /\ counted' = [counted EXCEPT ![c] = actions]
    BY <1>3 DEF ListChallenge
  <2>2. teams \subseteq Contestants
    BY DEF ChallengeTyped, Handlers, WorkerRows, Workers
  <2>3. DOMAIN old \subseteq Contestants /\ old \in [DOMAIN old -> Nat]
    BY IsPartial DEF ChallengeTyped
  <2>4. row \in [DOMAIN old \cup teams -> Nat]
    <3> HIDE DEF old, teams
    <3> QED BY <2>3
  <2>5. row \in Partial(Nat) /\ DOMAIN row = DOMAIN old \cup teams
    <3>1. DOMAIN row = DOMAIN old \cup teams
      OBVIOUS
    <3> HIDE DEF row, old, teams
    <3> QED BY <2>2, <2>3, <2>4, <3>1, PartialIs
  <2>6. actions \in [Contestants -> Nat]
    BY DEF ChallengeTyped
  <2>7. timed[c] \cup teams \subseteq DOMAIN old \cup teams
        /\ timed[c] \cup teams \in SUBSET Contestants
    BY <2>2 DEF ChallengeTyped
  <2> HIDE DEF row, old, teams, actions
  <2> QED BY <1>1, <2>1, <2>5, <2>6, <2>7, CountersStep
<1>4. ASSUME NEW m \in ChallengeMessages, NEW c \in Challenges, NEW t \in Contestants,
             CountAction(m, t, c)
      PROVE  CountersTyped'
  <2>1. /\ DOMAIN counter'[c] = DOMAIN counter[c] \cup {t}
        /\ \A d \in Challenges \ {c} : counter'[d] = counter[d]
        /\ counter'[c] \in Partial(Nat)
    BY <1>4, CountedUp
  <2>2. counter' \in [Challenges -> Partial(Nat)]
    <3>1. DOMAIN counter' = Challenges /\ counter' = [counter EXCEPT ![c] = counter'[c]]
      BY <1>4 DEF CountAction, ChallengeTyped
    <3> QED BY <2>1, <3>1 DEF ChallengeTyped
  <2>3. counted' \in [Challenges -> [Contestants -> Nat]]
    BY <1>4 DEF CountAction, ChallengeTyped
  <2>4. UNCHANGED timed
    BY <1>4 DEF CountAction
  <2> QED BY <1>1, <2>1, <2>2, <2>3, <2>4 DEF CountersTyped
<1>5. ASSUME NEW p \in Looks, NEW c \in Challenges, DropCounters(p, c)
      PROVE  CountersTyped'
  <2> DEFINE rest == DOMAIN counter[c] \ busy[p].teams
             row == [t \in rest |-> counter[c][t]]
  <2>1. /\ counter' = [counter EXCEPT ![c] = row]
        /\ timed' = [timed EXCEPT ![c] = timed[c] \ busy[p].teams]
        /\ counted' = [counted EXCEPT ![c] = counted[c]]
    BY <1>5 DEF DropCounters, ChallengeTyped
  <2>2. row \in Partial(Nat)
    BY Restricted DEF ChallengeTyped
  <2>3. timed[c] \ busy[p].teams \subseteq DOMAIN row
        /\ timed[c] \ busy[p].teams \in SUBSET Contestants
        /\ counted[c] \in [Contestants -> Nat]
    BY DEF ChallengeTyped
  <2> HIDE DEF row
  <2> QED BY <1>1, <2>1, <2>2, <2>3, CountersStep
<1>6. ASSUME NEW c \in Challenges, CountersExpire(c) PROVE CountersTyped'
  <2> DEFINE rest == DOMAIN counter[c] \ timed[c]
             row == [t \in rest |-> counter[c][t]]
             actions == [t \in Contestants |-> IF t \in timed[c] THEN 0 ELSE counted[c][t]]
  <2>1. /\ counter' = [counter EXCEPT ![c] = row]
        /\ timed' = [timed EXCEPT ![c] = {}]
        /\ counted' = [counted EXCEPT ![c] = actions]
    BY <1>6 DEF CountersExpire
  <2>2. row \in Partial(Nat) /\ actions \in [Contestants -> Nat]
    BY Restricted DEF ChallengeTyped
  <2> HIDE DEF row, actions
  <2> QED BY <1>1, <2>1, <2>2, CountersStep
<1> QED BY <1>2, <1>3, <1>4, <1>5, <1>6, WhoChangesCounters

ListsTyped ==
    /\ challenge \in [Challenges ->
          {"none", "PENDING", "ACTIVE", "COMPLETED", "CANCELLED"}]
    /\ listing \in [Challenges -> {"no", "running", "over"}]
    /\ starts \in [Challenges -> Nat]
    /\ stranded \subseteq Challenges
    /\ challengeFaults \in 0..MaxChallengeFaults

LEMMA ListsTypedStep ==
    ASSUME ChallengeTyped, [ChallengeNext]_challengeVars
    PROVE  ListsTyped'
<1>1. ListsTyped
  BY DEF ChallengeTyped, ListsTyped
<1> HIDE DEF ListsTyped
<1>2. ASSUME NEW c \in Challenges, CreateChallenge(c) \/ TimePasses(c) \/ CountersExpire(c)
      PROVE  ListsTyped'
  BY <1>1, <1>2 DEF CreateChallenge, TimePasses, CountersExpire, tallyVars, rowVars,
                    ListsTyped
<1>3. ASSUME NEW c \in Challenges, NEW m \in ChallengeMessages,
             ReadToStart(m, c) \/ ReadToCancel(m, c)
      PROVE  ListsTyped'
  BY <1>1, <1>3 DEF ReadToStart, ReadToCancel, tallyVars, rowVars, ListsTyped
<1>4. ASSUME ChallengeFault PROVE challengeFaults' \in 0..MaxChallengeFaults
  BY <1>1, <1>4, ChallengesAssumption DEF ChallengeFault, ListsTyped
<1>5. ASSUME NEW c \in Challenges, NEW p \in Looks, ClaimIsResent(p, c) \/ RewardFails(p, c)
      PROVE  ListsTyped'
  BY <1>1, <1>4, <1>5 DEF ClaimIsResent, RewardFails, tallyVars, rowVars, ListsTyped
<1>6. ASSUME NEW w \in Workers, HandlerStops(w) PROVE ListsTyped'
  <2>1. busy[w].on \subseteq Challenges
    BY DEF ChallengeTyped, Handlers, WorkerRows
  <2> QED BY <1>1, <1>4, <1>6, <2>1 DEF HandlerStops, rowVars, ListsTyped
<1>7. ASSUME NEW m \in ChallengeMessages, NEW c \in Challenges,
             ActivateChallenge(m, c) \/ CancelChallenge(m, c) \/ Unlist(m, c)
      PROVE  ListsTyped'
  BY <1>1, <1>7 DEF ActivateChallenge, CancelChallenge, Unlist, tallyVars, rowVars, ListsTyped
<1>8. ASSUME NEW m \in ChallengeMessages, NEW c \in Challenges, ListChallenge(m, c)
      PROVE  ListsTyped'
  BY <1>1, <1>8 DEF ListChallenge, rowVars, ListsTyped
<1>9. ASSUME NEW m \in ChallengeMessages, NEW t \in Contestants,
             ReadList(m, t) \/ \E c \in Challenges : CountAction(m, t, c)
      PROVE  ListsTyped'
  BY <1>1, <1>9 DEF CountAction, ReadList, tallyVars, rowVars, ListsTyped
<1>10. ASSUME NEW p \in Looks, NEW c \in Challenges,
              \/ FindOver(p, c) \/ ReadStanding(p, c) \/ Claim(p, c)
              \/ \E t \in Contestants : ReadScore(p, c, t)
              \/ DropCounters(p, c) \/ Reward(p, c)
       PROVE  ListsTyped'
  BY <1>1, <1>10 DEF FindOver, ReadStanding, Claim, ReadScore, DropCounters, Reward,
                     tallyVars, rowVars, ListsTyped
<1>11. ASSUME NEW p \in Looks, NEW c \in Challenges, Complete(p, c) PROVE ListsTyped'
  BY <1>1, <1>11 DEF Complete, tallyVars, ListsTyped
<1>12. CASE UNCHANGED challengeVars
  BY <1>1, <1>12 DEF challengeVars, ListsTyped
<1> QED BY <1>2, <1>3, <1>5, <1>6, <1>7, <1>8, <1>9, <1>10, <1>11, <1>12
        DEF ChallengeNext, MessageStep, LookStep

\* Rows, lists and counters have their types, and every handler has what its
\* next step needs.
LEMMA ChallengeTypedInvariant == ChallengeSpec => []ChallengeTyped
<1>1. ChallengeInit => ChallengeTyped
  <2> SUFFICES ASSUME ChallengeInit PROVE ChallengeTyped
    OBVIOUS
  <2>1. Handlers
    BY IdleIsWorkerRow DEF ChallengeInit, Handlers, Workers
  <2>2. /\ standings \in [Challenges -> Partial(Standing)]
        /\ counter \in [Challenges -> Partial(Nat)]
    BY EmptyIsPartial DEF ChallengeInit
  <2> QED BY <2>1, <2>2, ChallengesAssumption DEF ChallengeInit, ChallengeTyped
<1>2. ChallengeTyped /\ [ChallengeNext]_challengeVars => ChallengeTyped'
  <2> SUFFICES ASSUME ChallengeTyped, [ChallengeNext]_challengeVars PROVE ChallengeTyped'
    OBVIOUS
  <2>1. rewarded' \in [Challenges -> [Contestants -> Nat]]
    <3>1. ASSUME NEW p \in Looks, NEW c \in Challenges, Reward(p, c)
          PROVE  rewarded' \in [Challenges -> [Contestants -> Nat]]
      <4>1. Head(busy[p].todo) \in Contestants
        BY <3>1, NextTeamHandlers DEF Reward, IsAt, ChallengeTyped
      <4> QED BY <3>1, <4>1 DEF Reward, ChallengeTyped
    <3> QED BY <3>1, WhoChangesRows DEF ChallengeTyped
  <2> QED BY <2>1, HandlersStay, StandingsTyped, ListsTypedStep, CountersTypedStep
          DEF ChallengeTyped, CountersTyped, ListsTyped
<1> QED BY <1>1, <1>2, PTL DEF ChallengeSpec
\* The type invariant of the challenges.
THEOREM ChallengeTypes == ChallengeSpec => []ChallengeTypeOK
<1>1. ChallengeTyped => ChallengeTypeOK
  <2> SUFFICES ASSUME ChallengeTyped PROVE ChallengeTypeOK
    OBVIOUS
  <2>1. \A w \in Workers :
           /\ busy[w].on \subseteq Challenges /\ busy[w].teams \subseteq Contestants
           /\ DOMAIN busy[w].scores \subseteq busy[w].teams
    BY DEF ChallengeTyped, Handlers, WorkerRows, Consistent
  <2>2. \A c \in Challenges :
           /\ DOMAIN standings[c] \subseteq Contestants
           /\ standings[c] \in [DOMAIN standings[c] ->
                                [score : Nat, rank : 0..Cardinality(Contestants)]]
           /\ DOMAIN counter[c] \subseteq Contestants
           /\ counter[c] \in [DOMAIN counter[c] -> Nat]
    BY IsPartial DEF ChallengeTyped, Standing
  <2> QED BY <2>1, <2>2 DEF ChallengeTyped, ChallengeTypeOK
<1> QED BY <1>1, ChallengeTypedInvariant, PTL

-----------------------------------------------------------------------------
(* Challenges: a team is rewarded once for each start *)

Awaits(h, t) == \E i \in 1..Len(h.todo) : h.todo[i] = t

\* A look that will still reward t for c, or may.
Pending(c, h, t) ==
    /\ c \in h.on
    /\ h.at \in {"scores", "drop"} \/ (h.at = "reward" /\ Awaits(h, t))

Owing(c, t) == {p \in Looks : Pending(c, busy[p], t)}

Listed(c) == IF listing[c] = "no" THEN 0 ELSE 1

\* Each start lists a challenge once, each entry is removed by one look, and
\* that look rewards a team once.
OwedOnce(c, t) ==
    /\ IsFiniteSet(Owing(c, t))
    /\ rewarded[c][t] + Cardinality(Owing(c, t)) + Listed(c) <= starts[c]

Owed == \A c \in Challenges, t \in Contestants : OwedOnce(c, t)

LEMMA OwingShrinks ==
    ASSUME NEW c, NEW t,
           \A p \in Looks : Pending(c, busy'[p], t) => Pending(c, busy[p], t)
    PROVE  Owing(c, t)' \subseteq Owing(c, t)
BY DEF Owing

\* Steps that reward nobody and list nothing.
LEMMA OwedNoMore ==
    ASSUME ChallengeTyped, NEW c \in Challenges, NEW t \in Contestants, OwedOnce(c, t),
           Owing(c, t)' \subseteq Owing(c, t),
           rewarded'[c] = rewarded[c], starts'[c] = starts[c],
           listing[c] = "no" => listing'[c] = "no"
    PROVE  OwedOnce(c, t)'
<1>1. /\ IsFiniteSet(Owing(c, t)')
      /\ Cardinality(Owing(c, t)') <= Cardinality(Owing(c, t))
      /\ Cardinality(Owing(c, t)') \in Nat /\ Cardinality(Owing(c, t)) \in Nat
  BY FS_Subset, FS_CardinalityType DEF OwedOnce
<1>2. Listed(c)' <= Listed(c) /\ Listed(c) \in Nat /\ Listed(c)' \in Nat
  BY DEF Listed
<1>3. rewarded[c][t] \in Nat /\ starts[c] \in Nat
  BY DEF ChallengeTyped
<1> QED BY <1>1, <1>2, <1>3 DEF OwedOnce

\* Messages leave what the looks are at alone.
LEMMA MessagesOweNothing ==
    ASSUME ChallengeTyped, NEW m \in ChallengeMessages,
           \/ MessageStep(m) \/ \E t \in Contestants : ReadList(m, t)
           \/ \E c \in Challenges : ReadToStart(m, c) \/ ReadToCancel(m, c)
    PROVE  \A p \in Looks : busy'[p] = busy[p]
<1>1. m \notin Looks
  BY ChallengesAssumption
<1> QED BY <1>1 DEF MessageStep, ReadList, ReadToStart, ReadToCancel, ActivateChallenge,
                    ListChallenge, CancelChallenge, Unlist, CountAction, TakesUp, Leaves,
                    GoesOn, ChallengeTyped, Handlers, Workers

\* A look, but for its claim, owes no more than it did.
LEMMA LooksOweNoMore ==
    ASSUME ChallengeTyped, NEW p \in Looks, NEW c \in Challenges,
           \/ FindOver(p, c) \/ ReadStanding(p, c) \/ (Claim(p, c) /\ ~ IsFirst(c))
           \/ \E t \in Contestants : ReadScore(p, c, t)
           \/ Complete(p, c) \/ DropCounters(p, c)
           \/ ClaimIsResent(p, c) \/ Reward(p, c) \/ RewardFails(p, c)
    PROVE  /\ \A q \in Looks \ {p} : busy'[q] = busy[q]
           /\ \A d, t : Pending(d, busy'[p], t) => Pending(d, busy[p], t)
<1>1. busy \in [Workers -> WorkerRows] /\ p \in Workers /\ busy[p] \in WorkerRows
      /\ Consistent(busy[p])
  BY DEF ChallengeTyped, Handlers, Workers
<1>2. CASE FindOver(p, c) \/ ReadStanding(p, c)
  BY <1>1, <1>2 DEF FindOver, TakesUp, ReadStanding, Pending, Workers, WorkerRows
<1>3. CASE (Claim(p, c) /\ ~ IsFirst(c)) \/ ClaimIsResent(p, c)
  BY <1>1, <1>3 DEF Claim, ClaimIsResent, Leaves, Idle, Pending, Workers
<1>4. ASSUME NEW t \in Contestants, ReadScore(p, c, t)
      PROVE  /\ \A q \in Looks \ {p} : busy'[q] = busy[q]
             /\ \A d, u : Pending(d, busy'[p], u) => Pending(d, busy[p], u)
  <2>1. PICK scores : busy' = [busy EXCEPT ![p] = [busy[p] EXCEPT !.scores = scores]]
    BY <1>4 DEF ReadScore
  <2>2. busy'[p].at = "scores" /\ busy[p].at = "scores" /\ busy'[p].on = busy[p].on
    BY <1>1, <1>4, <2>1 DEF WorkerRows, ReadScore, IsAt
  <2> QED BY <1>1, <2>1, <2>2 DEF Pending, Workers
<1>5. CASE Complete(p, c)
  <2>1. PICK ranking : busy' = [busy EXCEPT ![p].at = "drop", ![p].todo = ranking,
                                            ![p].scores = Idle.scores]
    BY <1>5 DEF Complete
  <2>2. busy'[p].at = "drop" /\ busy[p].at = "scores" /\ busy'[p].on = busy[p].on
    BY <1>1, <1>5, <2>1 DEF WorkerRows, Complete, IsAt
  <2> QED BY <1>1, <2>1, <2>2 DEF Pending, Workers
<1>6. CASE DropCounters(p, c)
  <2>1. /\ busy[p].at = "drop"
        /\ Leaves(p) \/ GoesOn(p, "reward")
    BY <1>6 DEF DropCounters, IsAt
  <2> QED BY <1>1, <2>1 DEF Leaves, GoesOn, Idle, Pending, Workers, WorkerRows
<1>7. CASE Reward(p, c) \/ RewardFails(p, c)
  <2>1. busy[p].at = "reward" /\ NextTeam(p) /\ Handlers
    BY <1>7 DEF Reward, RewardFails, IsAt, ChallengeTyped
  <2>2. /\ busy'[p].at = "reward" =>
              busy'[p].todo = Tail(busy[p].todo) /\ busy'[p].on = busy[p].on
        /\ busy'[p].at \in {"idle", "reward"}
        /\ \A q \in Looks \ {p} : busy'[q] = busy[q]
    BY <2>1, NextTeamHandlers
  <2>3. busy[p].todo \in Seq(Contestants) /\ busy[p].todo # <<>>
    BY <1>1, <2>1 DEF WorkerRows, Consistent
  <2>4. \A h, t : h.todo = Tail(busy[p].todo) /\ Awaits(h, t) => Awaits(busy[p], t)
    <3> SUFFICES ASSUME NEW h, NEW t, h.todo = Tail(busy[p].todo), Awaits(h, t)
                 PROVE  Awaits(busy[p], t)
      OBVIOUS
    <3>1. PICK i \in 1..Len(Tail(busy[p].todo)) : Tail(busy[p].todo)[i] = t
      BY DEF Awaits
    <3>2. i + 1 \in 1..Len(busy[p].todo) /\ busy[p].todo[i + 1] = t
      BY <2>3, <3>1
    <3> QED BY <3>2 DEF Awaits
  <2> QED BY <2>1, <2>2, <2>4 DEF Pending
<1> QED BY <1>2, <1>3, <1>4, <1>5, <1>6, <1>7

LEMMA StopsOweNoMore ==
    ASSUME ChallengeTyped, NEW w \in Workers, HandlerStops(w)
    PROVE  \A p \in Looks : \A c, t : Pending(c, busy'[p], t) => Pending(c, busy[p], t)
BY DEF ChallengeTyped, Handlers, HandlerStops, Leaves, Idle, Pending, Workers

LEMMA ClaimOwes ==
    ASSUME ChallengeTyped, Owed, NEW p \in Looks, NEW c \in Challenges,
           Claim(p, c), IsFirst(c)
    PROVE  Owed'
<1>1. /\ busy \in [Workers -> WorkerRows] /\ p \in Workers
      /\ busy[p].at = "claim" /\ OnOne(busy[p]) /\ c \in busy[p].on
  BY DEF ChallengeTyped, Handlers, Workers, Claim, IsAt
<1>2. busy[p].on = {c}
  BY <1>1 DEF OnOne
<1>3. /\ busy' = [busy EXCEPT ![p].at = "scores"]
      /\ listing' = [listing EXCEPT ![c] = "no"]
      /\ UNCHANGED <<rewarded, starts>>
  BY DEF Claim, GoesOn, tallyVars
<1>4. \A d \in Challenges, t \in Contestants :
         Owing(d, t)' \subseteq IF d = c THEN Owing(d, t) \cup {p} ELSE Owing(d, t)
  BY <1>1, <1>2, <1>3 DEF Owing, Pending, WorkerRows, Workers
<1>5. ASSUME NEW d \in Challenges, NEW t \in Contestants, d # c PROVE OwedOnce(d, t)'
  <2>1. Owing(d, t)' \subseteq Owing(d, t)
    BY <1>4, <1>5
  <2>2. rewarded'[d] = rewarded[d] /\ starts'[d] = starts[d] /\ listing'[d] = listing[d]
    BY <1>3, <1>5 DEF ChallengeTyped
  <2>3. OwedOnce(d, t)
    BY DEF Owed
  <2> QED BY <2>1, <2>2, <2>3, OwedNoMore
<1>6. ASSUME NEW t \in Contestants PROVE OwedOnce(c, t)'
  <2>1. Owing(c, t)' \subseteq Owing(c, t) \cup {p} /\ OwedOnce(c, t)
    BY <1>4 DEF Owed
  <2>2. /\ IsFiniteSet(Owing(c, t) \cup {p})
        /\ Cardinality(Owing(c, t) \cup {p}) <= Cardinality(Owing(c, t)) + 1
        /\ Cardinality(Owing(c, t)) \in Nat
    <3>1. IsFiniteSet(Owing(c, t)) /\ Cardinality(Owing(c, t)) \in Nat
      BY <2>1, FS_CardinalityType DEF OwedOnce
    <3>2. PICK S : S = Owing(c, t)
      OBVIOUS
    <3>3. /\ IsFiniteSet(S \cup {p})
          /\ Cardinality(S \cup {p}) =
                IF p \in S THEN Cardinality(S) ELSE Cardinality(S) + 1
      BY <3>1, <3>2, FS_AddElement
    <3> QED BY <3>1, <3>2, <3>3
  <2>3. /\ IsFiniteSet(Owing(c, t)') /\ Cardinality(Owing(c, t)') \in Nat
        /\ Cardinality(Owing(c, t)') <= Cardinality(Owing(c, t) \cup {p})
        /\ Cardinality(Owing(c, t) \cup {p}) \in Nat
    BY <2>1, <2>2, FS_Subset, FS_CardinalityType
  <2>4. Listed(c) = 1 /\ Listed(c)' = 0
    BY <1>3 DEF Listed, IsFirst, ChallengeTyped
  <2>5. rewarded[c][t] \in Nat /\ starts[c] \in Nat
    BY DEF ChallengeTyped
  <2> QED BY <1>3, <2>1, <2>2, <2>3, <2>4, <2>5 DEF OwedOnce
<1> QED BY <1>5, <1>6 DEF Owed

LEMMA RewardOwes ==
    ASSUME ChallengeTyped, Owed, NEW p \in Looks, NEW c \in Challenges, Reward(p, c)
    PROVE  Owed'
<1>1. /\ \A q \in Looks \ {p} : busy'[q] = busy[q]
      /\ \A d, t : Pending(d, busy'[p], t) => Pending(d, busy[p], t)
  BY LooksOweNoMore
<1>2. /\ busy[p] \in WorkerRows /\ Consistent(busy[p])
      /\ busy[p].at = "reward" /\ c \in busy[p].on /\ NextTeam(p) /\ Handlers
  BY DEF ChallengeTyped, Handlers, Workers, Reward, IsAt
<1>3. /\ busy[p].todo \in Seq(Contestants) /\ busy[p].todo # <<>> /\ NoneTwice(busy[p].todo)
  BY <1>2 DEF WorkerRows, Consistent
<1>4. PICK h \in Contestants : h = Head(busy[p].todo)
  BY <1>3
<1>5. /\ rewarded' = [rewarded EXCEPT ![c][h] = rewarded[c][h] + 1]
      /\ UNCHANGED <<listing, starts>>
  BY <1>4 DEF Reward
<1>6. \A d, t : Owing(d, t)' \subseteq Owing(d, t)
  BY <1>1 DEF Owing
<1>7. ASSUME NEW d \in Challenges, NEW t \in Contestants, d # c \/ t # h
      PROVE  OwedOnce(d, t)'
  <2>1. rewarded'[d][t] = rewarded[d][t]
    BY <1>5, <1>7 DEF ChallengeTyped
  <2>2. OwedOnce(d, t)
    BY DEF Owed
  <2>3. /\ IsFiniteSet(Owing(d, t)')
        /\ Cardinality(Owing(d, t)') <= Cardinality(Owing(d, t))
        /\ Cardinality(Owing(d, t)') \in Nat /\ Cardinality(Owing(d, t)) \in Nat
    BY <1>6, <2>2, FS_Subset, FS_CardinalityType DEF OwedOnce
  <2>4. rewarded[d][t] \in Nat /\ starts[d] \in Nat
    BY DEF ChallengeTyped
  <2>5. Listed(d)' = Listed(d) /\ Listed(d) \in Nat /\ starts'[d] = starts[d]
    BY <1>5 DEF Listed
  <2> QED BY <2>1, <2>2, <2>3, <2>4, <2>5 DEF OwedOnce
<1>8. OwedOnce(c, h)'
  <2>1. p \in Owing(c, h)
    <3>1. 1 \in 1..Len(busy[p].todo) /\ busy[p].todo[1] = h
      BY <1>3, <1>4
    <3> QED BY <1>2, <3>1 DEF Owing, Pending, Awaits
  <2>2. p \notin Owing(c, h)'
    <3>1. /\ busy'[p].at = "reward" => busy'[p].todo = Tail(busy[p].todo)
          /\ busy'[p].at \in {"idle", "reward"}
      BY <1>2, NextTeamHandlers
    <3>2. ASSUME NEW i \in 1..Len(Tail(busy[p].todo)), Tail(busy[p].todo)[i] = h
          PROVE  FALSE
      <4>1. /\ i + 1 \in 1..Len(busy[p].todo) /\ busy[p].todo[i + 1] = h
            /\ 1 \in 1..Len(busy[p].todo) /\ busy[p].todo[1] = h /\ i + 1 # 1
        BY <1>3, <1>4, <3>2
      <4> QED BY <1>3, <4>1 DEF NoneTwice
    <3> QED BY <3>1, <3>2 DEF Owing, Pending, Awaits
  <2>3. Owing(c, h)' \subseteq Owing(c, h) \ {p} /\ OwedOnce(c, h)
    BY <1>6, <2>2 DEF Owed
  <2>4. /\ IsFiniteSet(Owing(c, h) \ {p})
        /\ Cardinality(Owing(c, h) \ {p}) = Cardinality(Owing(c, h)) - 1
        /\ Cardinality(Owing(c, h)) \in Nat
    BY <2>1, <2>3, FS_RemoveElement, FS_CardinalityType DEF OwedOnce
  <2>5. /\ IsFiniteSet(Owing(c, h)') /\ Cardinality(Owing(c, h)') \in Nat
        /\ Cardinality(Owing(c, h)') <= Cardinality(Owing(c, h)) - 1
    BY <2>3, <2>4, FS_Subset, FS_CardinalityType
  <2>6. rewarded'[c][h] = rewarded[c][h] + 1 /\ rewarded[c][h] \in Nat /\ starts[c] \in Nat
    BY <1>5 DEF ChallengeTyped
  <2>7. Listed(c)' = Listed(c) /\ Listed(c) \in Nat /\ starts'[c] = starts[c]
    BY <1>5 DEF Listed
  <2> QED BY <2>3, <2>4, <2>5, <2>6, <2>7 DEF OwedOnce
<1> QED BY <1>7, <1>8 DEF Owed

LEMMA StartOwes ==
    ASSUME ChallengeTyped, Owed, NEW m \in ChallengeMessages, NEW c \in Challenges,
           ListChallenge(m, c)
    PROVE  Owed'
<1>1. \A p \in Looks : busy'[p] = busy[p]
  BY MessagesOweNothing DEF MessageStep
<1>2. \A d, t : Owing(d, t)' = Owing(d, t)
  BY <1>1 DEF Owing
<1>3. /\ listing' = [listing EXCEPT ![c] = "running"]
      /\ starts' = [starts EXCEPT ![c] = starts[c] + 1] /\ UNCHANGED rewarded
  BY DEF ListChallenge
<1>4. ASSUME NEW d \in Challenges, NEW t \in Contestants, d # c PROVE OwedOnce(d, t)'
  <2>1. listing'[d] = listing[d] /\ starts'[d] = starts[d] /\ OwedOnce(d, t)
    BY <1>3, <1>4 DEF ChallengeTyped, Owed
  <2> QED BY <1>2, <1>3, <2>1, OwedNoMore
<1>5. ASSUME NEW t \in Contestants PROVE OwedOnce(c, t)'
  <2>1. OwedOnce(c, t) /\ Listed(c)' = 1 /\ Listed(c) \in Nat
    BY <1>3 DEF Owed, Listed, ChallengeTyped
  <2>2. rewarded[c][t] \in Nat /\ starts[c] \in Nat /\ starts'[c] = starts[c] + 1
    BY <1>3 DEF ChallengeTyped
  <2>3. Cardinality(Owing(c, t)) \in Nat
    BY <2>1, FS_CardinalityType DEF OwedOnce
  <2> QED BY <1>2, <1>3, <2>1, <2>2, <2>3 DEF OwedOnce
<1> QED BY <1>4, <1>5 DEF Owed

LEMMA OwedStep ==
    ASSUME ChallengeTyped, Owed, [ChallengeNext]_challengeVars
    PROVE  Owed'
<1> DEFINE Still == /\ \A p \in Looks : \A c, t : Pending(c, busy'[p], t) => Pending(c, busy[p], t)
                    /\ UNCHANGED <<rewarded, starts>>
                    /\ \A c \in Challenges : listing[c] = "no" => listing'[c] = "no"
<1>1. ASSUME Still PROVE Owed'
  <2> SUFFICES ASSUME NEW c \in Challenges, NEW t \in Contestants PROVE OwedOnce(c, t)'
    BY DEF Owed
  <2>1. Owing(c, t)' \subseteq Owing(c, t)
    BY <1>1, OwingShrinks
  <2>2. OwedOnce(c, t)
    BY DEF Owed
  <2> QED BY <1>1, <2>1, <2>2, OwedNoMore
<1>2. ASSUME NEW c \in Challenges, CreateChallenge(c) \/ TimePasses(c) \/ CountersExpire(c)
      PROVE  Still
  BY <1>2 DEF CreateChallenge, TimePasses, CountersExpire, tallyVars, ChallengeTyped
<1>3. ASSUME NEW c \in Challenges, NEW m \in ChallengeMessages,
             ReadToStart(m, c) \/ ReadToCancel(m, c)
      PROVE  Still
  <2>1. \A p \in Looks : busy'[p] = busy[p]
    BY <1>3, MessagesOweNothing
  <2> QED BY <1>3, <2>1 DEF ReadToStart, ReadToCancel, tallyVars
<1>4. ASSUME NEW m \in ChallengeMessages, NEW c \in Challenges,
             \/ ActivateChallenge(m, c) \/ CancelChallenge(m, c) \/ Unlist(m, c)
             \/ \E t \in Contestants : CountAction(m, t, c)
      PROVE  Still
  <2>1. \A p \in Looks : busy'[p] = busy[p]
    BY <1>4, MessagesOweNothing DEF MessageStep
  <2> QED BY <1>4, <2>1 DEF ActivateChallenge, CancelChallenge, Unlist, CountAction,
                            tallyVars, ChallengeTyped
<1>5. ASSUME NEW m \in ChallengeMessages, NEW t \in Contestants, ReadList(m, t)
      PROVE  Still
  <2>1. \A p \in Looks : busy'[p] = busy[p]
    BY <1>5, MessagesOweNothing
  <2> QED BY <1>5, <2>1 DEF ReadList, tallyVars
<1>6. ASSUME NEW p \in Looks, NEW c \in Challenges,
             \/ FindOver(p, c) \/ ReadStanding(p, c) \/ (Claim(p, c) /\ ~ IsFirst(c))
             \/ \E t \in Contestants : ReadScore(p, c, t)
             \/ Complete(p, c) \/ DropCounters(p, c)
             \/ ClaimIsResent(p, c) \/ RewardFails(p, c)
      PROVE  Still
  <2>1. /\ \A q \in Looks \ {p} : busy'[q] = busy[q]
        /\ \A d, t : Pending(d, busy'[p], t) => Pending(d, busy[p], t)
    BY <1>6, LooksOweNoMore
  <2>2. \A q \in Looks : \A d, t : Pending(d, busy'[q], t) => Pending(d, busy[q], t)
    BY <2>1
  <2>3. /\ UNCHANGED <<rewarded, starts>>
        /\ \A d \in Challenges : listing[d] = "no" => listing'[d] = "no"
    BY <1>6 DEF FindOver, ReadStanding, Claim, ReadScore, Complete, DropCounters,
                ClaimIsResent, RewardFails, tallyVars, ChallengeTyped
  <2> QED BY <2>2, <2>3
<1>7. ASSUME NEW w \in Workers, HandlerStops(w) PROVE Still
  BY <1>7, StopsOweNoMore DEF HandlerStops
<1>8. ASSUME UNCHANGED challengeVars PROVE Still
  <2>1. UNCHANGED <<busy, rewarded, starts, listing>>
    BY <1>8 DEF challengeVars
  <2>2. \A p \in Looks : \A c, t : Pending(c, busy'[p], t) => Pending(c, busy[p], t)
    BY <2>1
  <2> QED BY <2>1, <2>2
<1> HIDE DEF Still
<1> QED BY <1>1, <1>2, <1>3, <1>4, <1>5, <1>6, <1>7, <1>8, ClaimOwes, RewardOwes, StartOwes
        DEF ChallengeNext, MessageStep, LookStep

\* For any number of instances, looks, teams and challenges, and whatever fails:
\* a team gets its points for a challenge at most once for each start that has
\* put it on the list, although several looks are at it at the same time.
THEOREM RewardsFollowStarts == ChallengeSpec => []RewardedPerStart
<1>1. ChallengeInit => Owed
  <2> SUFFICES ASSUME ChallengeInit, NEW c \in Challenges, NEW t \in Contestants
               PROVE  OwedOnce(c, t)
    BY DEF Owed
  <2>1. Owing(c, t) = {}
    BY DEF ChallengeInit, Owing, Pending, Idle, Workers
  <2> QED BY <2>1, FS_EmptySet DEF OwedOnce, Listed, ChallengeInit
<1>2. ChallengeTyped /\ Owed /\ [ChallengeNext]_challengeVars => Owed'
  BY OwedStep
<1>3. ChallengeTyped /\ Owed => RewardedPerStart
  <2> SUFFICES ASSUME ChallengeTyped, Owed, NEW c \in Challenges, NEW t \in Contestants
               PROVE  rewarded[c][t] <= starts[c]
    BY DEF RewardedPerStart
  <2>1. OwedOnce(c, t) /\ Listed(c) \in Nat
    BY DEF Owed, Listed
  <2>2. Cardinality(Owing(c, t)) \in Nat
    BY <2>1, FS_CardinalityType DEF OwedOnce
  <2> QED BY <2>1, <2>2 DEF OwedOnce, ChallengeTyped
<1> QED BY <1>1, <1>2, <1>3, ChallengeTypedInvariant, PTL DEF ChallengeSpec
-----------------------------------------------------------------------------
(* Challenges: final scores and ranks follow the actions *)

Unranked(c) == \A t \in DOMAIN standings[c] : standings[c][t].rank = 0

\* The counters hold what was counted.
CountersKept(c) == \A t \in Contestants : CounterOf(c, t) >= counted[c][t]

\* The looks that have claimed c, until its counters are dropped.
Finishing(c) == {p \in Looks : c \in busy[p].on /\ busy[p].at \in {"scores", "drop"}}

\* What was counted is in the scores that were read, or still in the counter.
ScoresKept(c, h) ==
    \A t \in Contestants :
        IF t \in DOMAIN h.scores THEN h.scores[t] >= counted[c][t]
                                 ELSE CounterOf(c, t) >= counted[c][t]

RankedFairly(c) ==
    \A t \in DOMAIN standings[c] :
        standings[c][t].rank > 0 =>
            /\ standings[c][t].score >= counted[c][t]
            /\ \A u \in DOMAIN standings[c] :
                  standings[c][u].score > standings[c][t].score =>
                      standings[c][u].rank \in 1..(standings[c][t].rank - 1)

NeverStarted(c) ==
    /\ listing[c] = "no" /\ Unranked(c) /\ Finishing(c) = {}
    /\ \A t \in Contestants : counted[c][t] = 0

StartedOnce(c) ==
    /\ listing[c] # "no" => Unranked(c) /\ CountersKept(c) /\ Finishing(c) = {}
    /\ \A p, q \in Finishing(c) : p = q
    /\ \A p \in Finishing(c) :
          busy[p].at = "scores" => Unranked(c) /\ ScoresKept(c, busy[p])
    /\ RankedFairly(c)

Recorded(c) ==
    /\ \A t \in DOMAIN standings[c] :
          standings[c][t].rank = 0 => standings[c][t].score = 0
    /\ starts[c] = 0 => NeverStarted(c)
    /\ starts[c] = 1 => StartedOnce(c)

AllRecorded == \A c \in Challenges : Recorded(c)

\* What a step leaves alone: the rows and counters of c, and the looks that
\* are about to finish it.
LeftAlone(c) ==
    /\ standings'[c] = standings[c] /\ starts'[c] = starts[c]
    /\ counter'[c] = counter[c] /\ counted'[c] = counted[c]
    /\ listing[c] = "no" => listing'[c] = "no"
    /\ \A p \in Looks :
          c \in busy'[p].on /\ busy'[p].at \in {"scores", "drop"} => busy'[p] = busy[p]

LEMMA RecordedStays ==
    ASSUME NEW c \in Challenges, Recorded(c), LeftAlone(c)
    PROVE  Recorded(c)'
<1>1. Finishing(c)' \subseteq Finishing(c)
      /\ \A p \in Finishing(c)' : busy'[p] = busy[p]
  BY DEF Finishing, LeftAlone
<1>2. /\ standings'[c] = standings[c] /\ starts'[c] = starts[c]
      /\ counter'[c] = counter[c] /\ counted'[c] = counted[c]
      /\ listing[c] = "no" => listing'[c] = "no"
  BY DEF LeftAlone
<1>3. \A t : CounterOf(c, t)' = CounterOf(c, t)
  BY <1>2 DEF CounterOf
<1>4. /\ Unranked(c)' = Unranked(c) /\ RankedFairly(c)' = RankedFairly(c)
      /\ CountersKept(c)' = CountersKept(c)
  BY <1>2, <1>3 DEF Unranked, RankedFairly, CountersKept
<1>5. \A p \in Finishing(c)' : ScoresKept(c, busy[p])' <=> ScoresKept(c, busy[p])
  BY <1>1, <1>2, <1>3 DEF ScoresKept
<1>6. starts[c] = 0 => NeverStarted(c)'
  BY <1>1, <1>2, <1>4 DEF Recorded, NeverStarted
<1>7. starts[c] = 1 => StartedOnce(c)'
  BY <1>1, <1>2, <1>4, <1>5 DEF Recorded, StartedOnce
<1> QED BY <1>2, <1>6, <1>7 DEF Recorded
LEMMA NumbersAre ==
    ASSUME ChallengeTyped, NEW c \in Challenges
    PROVE  /\ \A t : CounterOf(c, t) \in Nat
           /\ \A t \in Contestants : counted[c][t] \in Nat
           /\ \A t \in DOMAIN standings[c] :
                 t \in Contestants /\ standings[c][t].score \in Nat
                 /\ standings[c][t].rank \in Nat
<1>1. counter[c] \in Partial(Nat) /\ standings[c] \in Partial(Standing)
      /\ counted[c] \in [Contestants -> Nat]
  BY DEF ChallengeTyped
<1>2. \A t : CounterOf(c, t) \in Nat
  BY <1>1, IsPartial DEF CounterOf
<1>3. DOMAIN standings[c] \subseteq Contestants
      /\ \A t \in DOMAIN standings[c] : standings[c][t] \in Standing
  BY <1>1, IsPartial
<1> QED BY <1>1, <1>2, <1>3, ContestantsCounted DEF Standing

LEMMA ActivateRecorded ==
    ASSUME ChallengeTyped, NEW m \in ChallengeMessages, NEW c \in Challenges,
           Recorded(c), ActivateChallenge(m, c)
    PROVE  Recorded(c)'
<1>1. PICK teams \in SUBSET Contestants :
         standings' = [standings EXCEPT ![c] =
            [t \in DOMAIN standings[c] \cup teams |->
               IF t \in DOMAIN standings[c] THEN standings[c][t]
               ELSE [score |-> 0, rank |-> 0]]]
  BY DEF ActivateChallenge
<1>2. /\ DOMAIN standings'[c] = DOMAIN standings[c] \cup teams
      /\ \A t \in DOMAIN standings[c] : standings'[c][t] = standings[c][t]
      /\ \A t \in DOMAIN standings'[c] \ DOMAIN standings[c] :
            standings'[c][t].score = 0 /\ standings'[c][t].rank = 0
  BY <1>1 DEF ChallengeTyped
<1>3. /\ \A p \in Looks : busy'[p] = busy[p]
      /\ UNCHANGED <<listing, counter, counted, starts>>
  BY MessagesOweNothing DEF MessageStep, ActivateChallenge, countVars, tallyVars
<1>4. Finishing(c)' = Finishing(c) /\ \A p \in Finishing(c) : busy'[p] = busy[p]
  BY <1>3 DEF Finishing
<1>5. Unranked(c) => Unranked(c)'
  BY <1>2 DEF Unranked
<1>6. /\ \A t : CounterOf(c, t)' = CounterOf(c, t)
      /\ CountersKept(c)' = CountersKept(c)
  BY <1>3 DEF CounterOf, CountersKept
<1>7. \A p \in Finishing(c) : ScoresKept(c, busy[p])' <=> ScoresKept(c, busy[p])
  BY <1>3, <1>4, <1>6 DEF ScoresKept
<1>8. RankedFairly(c) => RankedFairly(c)'
  <2> SUFFICES ASSUME RankedFairly(c), NEW t \in DOMAIN standings'[c],
                      standings'[c][t].rank > 0
               PROVE  /\ standings'[c][t].score >= counted'[c][t]
                      /\ \A u \in DOMAIN standings'[c] :
                            standings'[c][u].score > standings'[c][t].score =>
                                standings'[c][u].rank \in 1..(standings'[c][t].rank - 1)
    BY DEF RankedFairly
  <2>1. t \in DOMAIN standings[c] /\ standings'[c][t] = standings[c][t]
        /\ standings[c][t].rank > 0
    BY <1>2
  <2>2. standings[c][t].score \in Nat
    BY <2>1, NumbersAre
  <2>3. \A u \in DOMAIN standings'[c] \ DOMAIN standings[c] :
           ~ (standings'[c][u].score > standings'[c][t].score)
    BY <1>2, <2>1, <2>2
  <2> QED BY <1>2, <1>3, <2>1, <2>3 DEF RankedFairly
<1>9. \A t \in DOMAIN standings'[c] :
         standings'[c][t].rank = 0 => standings'[c][t].score = 0
  BY <1>2 DEF Recorded
<1>10. starts[c] = 0 => NeverStarted(c)'
  BY <1>3, <1>4, <1>5 DEF Recorded, NeverStarted
<1>11. starts[c] = 1 => StartedOnce(c)'
  BY <1>3, <1>4, <1>5, <1>6, <1>7, <1>8 DEF Recorded, StartedOnce
<1> QED BY <1>3, <1>9, <1>10, <1>11 DEF Recorded

LEMMA ListRecorded ==
    ASSUME ChallengeTyped, NEW m \in ChallengeMessages, NEW c \in Challenges,
           Recorded(c), ListChallenge(m, c)
    PROVE  Recorded(c)'
<1> DEFINE teams == busy[m].teams
<1>1. /\ counter' = [counter EXCEPT ![c] =
            [t \in DOMAIN counter[c] \cup teams |->
               IF t \in teams THEN 0 ELSE counter[c][t]]]
      /\ counted' = [counted EXCEPT ![c] =
            [t \in Contestants |-> IF t \in teams THEN 0 ELSE counted[c][t]]]
      /\ listing' = [listing EXCEPT ![c] = "running"]
      /\ starts' = [starts EXCEPT ![c] = starts[c] + 1]
      /\ UNCHANGED standings
  BY DEF ListChallenge, rowVars
<1>2. \A p \in Looks : busy'[p] = busy[p]
  BY MessagesOweNothing DEF MessageStep
<1>3. starts'[c] = starts[c] + 1 /\ starts[c] \in Nat
  BY <1>1 DEF ChallengeTyped
<1>4. CASE starts[c] = 0
  <2>1. Unranked(c)' /\ Finishing(c)' = {} /\ RankedFairly(c)'
    BY <1>1, <1>2, <1>4 DEF Recorded, NeverStarted, Unranked, Finishing, RankedFairly
  <2>2. CountersKept(c)'
    <3> SUFFICES ASSUME NEW t \in Contestants PROVE CounterOf(c, t)' >= counted'[c][t]
      BY DEF CountersKept
    <3>1. counted'[c][t] = 0
      BY <1>1, <1>4 DEF Recorded, NeverStarted, ChallengeTyped
    <3>2. CounterOf(c, t)' \in Nat
      <4>1. CASE t \in teams
        BY <1>1, <4>1 DEF CounterOf, ChallengeTyped
      <4>2. CASE t \notin teams
        <5>1. CounterOf(c, t)' = CounterOf(c, t)
          BY <1>1, <4>2 DEF CounterOf, ChallengeTyped
        <5> QED BY <5>1, NumbersAre
      <4> QED BY <4>1, <4>2
    <3> QED BY <3>1, <3>2
  <2>3. StartedOnce(c)'
    BY <2>1, <2>2 DEF StartedOnce
  <2> QED BY <1>1, <1>3, <1>4, <2>3 DEF Recorded
<1>5. CASE starts[c] # 0
  BY <1>1, <1>3, <1>5 DEF Recorded
<1> QED BY <1>4, <1>5

LEMMA CountRecorded ==
    ASSUME ChallengeTyped, NEW m \in ChallengeMessages, NEW c \in Challenges,
           NEW t \in Contestants, Recorded(c), CountAction(m, t, c)
    PROVE  Recorded(c)'
<1>1. /\ DOMAIN counter'[c] = DOMAIN counter[c] \cup {t}
      /\ counter'[c][t] = CounterOf(c, t) + 1
      /\ \A u \in DOMAIN counter[c] \ {t} : counter'[c][u] = counter[c][u]
  BY CountedUp
<1>2. /\ CounterOf(c, t)' = CounterOf(c, t) + 1
      /\ \A u \in Contestants \ {t} : CounterOf(c, u)' = CounterOf(c, u)
      /\ \A u : CounterOf(c, u) \in Nat
      /\ \A u \in Contestants : counted[c][u] \in Nat
  BY <1>1, NumbersAre DEF CounterOf
<1>3. /\ counted' = IF listing[c] = "no" THEN counted
                    ELSE [counted EXCEPT ![c][t] = counted[c][t] + 1]
      /\ UNCHANGED <<standings, listing, starts>>
  BY DEF CountAction, rowVars, tallyVars
<1>4. \A p \in Looks : busy'[p] = busy[p]
  BY MessagesOweNothing DEF MessageStep
<1>5. Finishing(c)' = Finishing(c) /\ \A p \in Finishing(c) : busy'[p] = busy[p]
  BY <1>4 DEF Finishing
<1>6. Unranked(c)' = Unranked(c)
  BY <1>3 DEF Unranked
<1>7. CountersKept(c) => CountersKept(c)'
  <2> SUFFICES ASSUME CountersKept(c), NEW u \in Contestants
               PROVE  CounterOf(c, u)' >= counted'[c][u]
    BY DEF CountersKept
  <2>1. CounterOf(c, u) >= counted[c][u]
    BY DEF CountersKept
  <2>2. counted'[c][u] = counted[c][u] \/ (u = t /\ counted'[c][u] = counted[c][u] + 1)
    BY <1>3 DEF ChallengeTyped
  <2> QED BY <1>2, <2>1, <2>2
<1>8. listing[c] = "no" =>
        \A p \in Finishing(c) : ScoresKept(c, busy[p]) => ScoresKept(c, busy[p])'
  <2> SUFFICES ASSUME listing[c] = "no", NEW p \in Finishing(c), ScoresKept(c, busy[p])
               PROVE  ScoresKept(c, busy[p])'
    OBVIOUS
  <2>1. counted' = counted /\ busy'[p] = busy[p]
    BY <1>3, <1>5
  <2>2. \A u \in Contestants : CounterOf(c, u)' >= CounterOf(c, u)
    BY <1>2
  <2>3. \A u \in Contestants :
           CounterOf(c, u) >= counted[c][u] => CounterOf(c, u)' >= counted[c][u]
    BY <1>2
  <2> QED BY <2>1, <2>3 DEF ScoresKept
<1>9. RankedFairly(c)' \/ ~ RankedFairly(c) \/ listing[c] # "no"
  BY <1>3 DEF RankedFairly
<1>10. Unranked(c)' => RankedFairly(c)'
  BY DEF Unranked, RankedFairly
<1>11. starts[c] = 0 => NeverStarted(c)'
  BY <1>3, <1>5, <1>6 DEF Recorded, NeverStarted
<1>12. starts[c] = 1 => StartedOnce(c)'
  <2> SUFFICES ASSUME starts[c] = 1 PROVE StartedOnce(c)'
    OBVIOUS
  <2>1. StartedOnce(c)
    BY DEF Recorded
  <2>2. CASE listing[c] = "no"
    BY <1>3, <1>5, <1>6, <1>8, <1>9, <2>1, <2>2 DEF StartedOnce
  <2>3. CASE listing[c] # "no"
    BY <1>3, <1>5, <1>6, <1>7, <1>10, <2>1, <2>3 DEF StartedOnce
  <2> QED BY <2>2, <2>3
<1> QED BY <1>3, <1>11, <1>12 DEF Recorded

LEMMA ExpireRecorded ==
    ASSUME ChallengeTyped, NEW c \in Challenges, Recorded(c), CountersExpire(c)
    PROVE  Recorded(c)'
<1>1. /\ counter' = [counter EXCEPT ![c] =
                        [t \in DOMAIN counter[c] \ timed[c] |-> counter[c][t]]]
      /\ counted' = [counted EXCEPT ![c] =
                        [t \in Contestants |-> IF t \in timed[c] THEN 0 ELSE counted[c][t]]]
      /\ UNCHANGED <<standings, listing, starts, busy>>
  BY DEF CountersExpire, rowVars, tallyVars
<1>2. /\ \A t : CounterOf(c, t) \in Nat
      /\ \A t \in Contestants : counted[c][t] \in Nat
      /\ \A t \in DOMAIN standings[c] : t \in Contestants /\ standings[c][t].score \in Nat
  BY NumbersAre
<1>3. \A t \in Contestants :
         \/ counted'[c][t] = 0 /\ CounterOf(c, t)' \in Nat
         \/ counted'[c][t] = counted[c][t] /\ CounterOf(c, t)' = CounterOf(c, t)
  <2> SUFFICES ASSUME NEW t \in Contestants
               PROVE  \/ counted'[c][t] = 0 /\ CounterOf(c, t)' \in Nat
                      \/ counted'[c][t] = counted[c][t] /\ CounterOf(c, t)' = CounterOf(c, t)
    OBVIOUS
  <2>1. CASE t \in timed[c]
    BY <1>1, <2>1 DEF CounterOf, ChallengeTyped
  <2>2. CASE t \notin timed[c]
    BY <1>1, <2>2 DEF CounterOf, ChallengeTyped
  <2> QED BY <2>1, <2>2
<1>4. Unranked(c)' = Unranked(c) /\ Finishing(c)' = Finishing(c)
  BY <1>1 DEF Unranked, Finishing
<1>5. CountersKept(c) => CountersKept(c)'
  BY <1>2, <1>3 DEF CountersKept
<1>6. \A p \in Finishing(c) : ScoresKept(c, busy[p]) => ScoresKept(c, busy[p])'
  <2> SUFFICES ASSUME NEW p \in Finishing(c), ScoresKept(c, busy[p])
               PROVE  ScoresKept(c, busy[p])'
    OBVIOUS
  <2>1. p \in Workers /\ busy[p].scores \in Partial(Nat)
    BY DEF Finishing, Workers, ChallengeTyped, Handlers, WorkerRows
  <2>2. \A t \in DOMAIN busy[p].scores : busy[p].scores[t] \in Nat
    BY <2>1, IsPartial
  <2> QED BY <1>1, <1>2, <1>3, <2>2 DEF ScoresKept
<1>7. RankedFairly(c) => RankedFairly(c)'
  <2>1. \A t \in DOMAIN standings[c] :
           standings[c][t].score >= counted[c][t] => standings[c][t].score >= counted'[c][t]
    BY <1>2, <1>3
  <2> QED BY <1>1, <2>1 DEF RankedFairly
<1>8. starts[c] = 0 => NeverStarted(c)'
  BY <1>1, <1>3, <1>4 DEF Recorded, NeverStarted
<1>9. starts[c] = 1 => StartedOnce(c)'
  BY <1>1, <1>4, <1>5, <1>6, <1>7 DEF Recorded, StartedOnce
<1> QED BY <1>1, <1>8, <1>9 DEF Recorded
\* A look is at one challenge.
LEMMA LooksAtOne ==
    ASSUME ChallengeTyped, NEW p \in Looks, NEW c \in Challenges,
           busy[p].at # "idle", c \in busy[p].on
    PROVE  /\ busy[p].on = {c} /\ busy[p] \in WorkerRows /\ Consistent(busy[p])
           /\ p \in Workers /\ busy \in [Workers -> WorkerRows]
BY DEF ChallengeTyped, Handlers, OnOne, Workers

LEMMA ClaimRecorded ==
    ASSUME ChallengeTyped, NEW p \in Looks, NEW c \in Challenges, Recorded(c),
           Claim(p, c), IsFirst(c)
    PROVE  Recorded(c)'
<1>1. /\ busy[p].at = "claim" /\ c \in busy[p].on /\ listing[c] # "no"
      /\ busy' = [busy EXCEPT ![p].at = "scores"]
      /\ listing' = [listing EXCEPT ![c] = "no"]
      /\ UNCHANGED <<standings, counter, counted, starts>>
  BY DEF Claim, IsAt, IsFirst, GoesOn, rowVars, countVars, tallyVars
<1>2. busy[p] \in WorkerRows /\ Consistent(busy[p]) /\ busy \in [Workers -> WorkerRows]
      /\ p \in Workers
  BY <1>1, LooksAtOne
<1>3. busy[p].scores = Idle.scores /\ DOMAIN Idle.scores = {}
  BY <1>1, <1>2 DEF Consistent, Idle
<1>4. /\ busy'[p].at = "scores" /\ DOMAIN busy'[p].scores = {}
      /\ \A q \in Looks \ {p} : busy'[q] = busy[q]
  BY <1>1, <1>2, <1>3 DEF WorkerRows, Workers
<1>5. starts[c] # 0
  BY <1>1 DEF Recorded, NeverStarted
<1>6. CASE starts[c] = 1
  <2>1. Unranked(c) /\ CountersKept(c) /\ Finishing(c) = {}
    BY <1>1, <1>6 DEF Recorded, StartedOnce
  <2>2. Finishing(c)' \subseteq {p}
    BY <1>4, <2>1 DEF Finishing
  <2>3. Unranked(c)' /\ RankedFairly(c)'
    BY <1>1, <2>1 DEF Unranked, RankedFairly
  <2>4. \A t : CounterOf(c, t)' = CounterOf(c, t)
    BY <1>1 DEF CounterOf
  <2>5. ScoresKept(c, busy[p])'
    BY <1>1, <1>4, <2>1, <2>4 DEF ScoresKept, CountersKept
  <2>6. listing'[c] = "no"
    BY <1>1 DEF ChallengeTyped
  <2>7. StartedOnce(c)'
    BY <2>2, <2>3, <2>5, <2>6 DEF StartedOnce
  <2> QED BY <1>1, <1>6, <2>7 DEF Recorded
<1>7. CASE starts[c] \notin {0, 1}
  BY <1>1, <1>7 DEF Recorded
<1> QED BY <1>5, <1>6, <1>7

LEMMA ReadScoreRecorded ==
    ASSUME ChallengeTyped, NEW p \in Looks, NEW c \in Challenges, NEW t \in Contestants,
           Recorded(c), ReadScore(p, c, t)
    PROVE  Recorded(c)'
<1>1. /\ busy[p].at = "scores" /\ c \in busy[p].on
      /\ busy' = [busy EXCEPT ![p].scores =
                    [u \in DOMAIN busy[p].scores \cup {t} |->
                       IF u = t THEN CounterOf(c, t) ELSE busy[p].scores[u]]]
      /\ UNCHANGED <<standings, listing, counter, counted, starts>>
  BY DEF ReadScore, IsAt, FinalScore, rowVars, countVars, tallyVars
<1>2. busy[p] \in WorkerRows /\ busy \in [Workers -> WorkerRows] /\ p \in Workers
  BY <1>1, LooksAtOne
<1>3. /\ busy'[p].at = "scores" /\ busy'[p].on = busy[p].on
      /\ DOMAIN busy'[p].scores = DOMAIN busy[p].scores \cup {t}
      /\ \A u \in DOMAIN busy'[p].scores :
            busy'[p].scores[u] = IF u = t THEN CounterOf(c, t) ELSE busy[p].scores[u]
      /\ \A q \in Looks \ {p} : busy'[q] = busy[q]
  BY <1>1, <1>2 DEF WorkerRows, Workers
<1>4. Finishing(c)' = Finishing(c) /\ p \in Finishing(c)
  BY <1>1, <1>3 DEF Finishing
<1>5. /\ Unranked(c)' = Unranked(c) /\ RankedFairly(c)' = RankedFairly(c)
      /\ \A u : CounterOf(c, u)' = CounterOf(c, u)
  BY <1>1 DEF Unranked, RankedFairly, CounterOf
<1>6. CASE starts[c] = 1
  <2>1. /\ Unranked(c) /\ ScoresKept(c, busy[p]) /\ RankedFairly(c)
        /\ listing[c] = "no" /\ \A q, r \in Finishing(c) : q = r
    BY <1>1, <1>4, <1>6 DEF Recorded, StartedOnce
  <2>2. ScoresKept(c, busy[p])'
    <3> SUFFICES ASSUME NEW u \in Contestants
                 PROVE  IF u \in DOMAIN busy'[p].scores
                        THEN busy'[p].scores[u] >= counted'[c][u]
                        ELSE CounterOf(c, u)' >= counted'[c][u]
      BY DEF ScoresKept
    <3>1. CASE u = t
      <4>1. CounterOf(c, t) >= counted[c][t]
        <5>1. t \notin DOMAIN busy[p].scores
          BY DEF ReadScore
        <5> QED BY <2>1, <5>1 DEF ScoresKept
      <4> QED BY <1>1, <1>3, <3>1, <4>1
    <3>2. CASE u # t
      BY <1>1, <1>3, <1>5, <2>1, <3>2 DEF ScoresKept
    <3> QED BY <3>1, <3>2
  <2>3. StartedOnce(c)'
    BY <1>1, <1>4, <1>5, <2>1, <2>2 DEF StartedOnce
  <2> QED BY <1>1, <1>6, <2>3 DEF Recorded
<1>7. CASE starts[c] # 1
  BY <1>1, <1>4, <1>5, <1>7 DEF Recorded, NeverStarted
<1> QED BY <1>6, <1>7

LEMMA CompleteRecorded ==
    ASSUME ChallengeTyped, NEW p \in Looks, NEW c \in Challenges, Recorded(c),
           Complete(p, c)
    PROVE  Recorded(c)'
<1> DEFINE scores == busy[p].scores
           old == standings[c]
<1>1. busy[p].at = "scores" /\ c \in busy[p].on /\ DOMAIN scores = busy[p].teams
  BY DEF Complete, IsAt
<1>2. busy[p] \in WorkerRows /\ busy \in [Workers -> WorkerRows] /\ p \in Workers
  BY <1>1, LooksAtOne
<1>3. PICK ranking \in Rankings(scores) :
         /\ standings' = [standings EXCEPT ![c] = Completed(old, scores, ranking)]
         /\ busy' = [busy EXCEPT ![p].at = "drop", ![p].todo = ranking,
                                 ![p].scores = Idle.scores]
  BY DEF Complete, Completed
<1>4. UNCHANGED <<listing, counter, counted, starts>>
  BY DEF Complete, countVars, tallyVars
<1>5. scores \in Partial(Nat) /\ old \in Partial(Standing)
  BY <1>2 DEF WorkerRows, ChallengeTyped
<1>6. PICK new : new = Completed(old, scores, ranking)
  OBVIOUS
<1>7. standings'[c] = new
  BY <1>3, <1>6 DEF ChallengeTyped
<1>8. PICK D : D = DOMAIN scores
  OBVIOUS
<1> HIDE DEF old
<1>9. /\ DOMAIN new = DOMAIN old
      /\ \A t \in DOMAIN old :
            IF t \notin D THEN new[t] = old[t]
            ELSE /\ new[t].score = scores[t]
                 /\ new[t].rank \in 1..Len(ranking) /\ ranking[new[t].rank] = t
  <2> HIDE DEF scores
  <2> QED BY <1>3, <1>5, <1>6, <1>8, CompletedIs
<1>10. /\ D \in SUBSET Contestants /\ scores \in [D -> Nat]
  <2> HIDE DEF scores
  <2> QED BY <1>5, <1>8, IsPartial
<1>11. /\ ranking \in Seq(Contestants)
       /\ \A i, j \in 1..Len(ranking) : i < j => scores[ranking[i]] >= scores[ranking[j]]
  <2> HIDE DEF scores
  <2> QED BY <1>3, <1>10, RankingIs
<1>12. Finishing(c)' = Finishing(c) /\ p \in Finishing(c) /\ busy'[p].at = "drop"
  BY <1>1, <1>2, <1>3 DEF Finishing, WorkerRows, Workers
<1>13. \A t \in DOMAIN old : old[t].rank = 0 => old[t].score = 0
  BY DEF Recorded, old
<1>14. \A t \in DOMAIN new : new[t].rank = 0 => new[t].score = 0
  BY <1>9, <1>13
<1>15. starts[c] # 0
  BY <1>12 DEF Recorded, NeverStarted
<1>16. CASE starts[c] = 1
  <2>1. /\ Unranked(c) /\ ScoresKept(c, busy[p])
        /\ listing[c] = "no" /\ \A q, r \in Finishing(c) : q = r
    BY <1>1, <1>12, <1>16 DEF Recorded, StartedOnce
  <2>2. \A t \in DOMAIN old : old[t].rank = 0 /\ old[t].score = 0
    BY <1>13, <2>1 DEF Unranked, old
  <2>3. RankedFairly(c)'
    <3> SUFFICES ASSUME NEW t \in DOMAIN new, new[t].rank > 0
                 PROVE  /\ new[t].score >= counted[c][t]
                        /\ \A u \in DOMAIN new :
                              new[u].score > new[t].score =>
                                  new[u].rank \in 1..(new[t].rank - 1)
      BY <1>4, <1>7 DEF RankedFairly
    <3>1. t \in D
      BY <1>9, <2>2
    <3>2. /\ new[t].score = scores[t] /\ scores[t] \in Nat /\ t \in Contestants
          /\ new[t].rank \in 1..Len(ranking) /\ ranking[new[t].rank] = t
      BY <1>9, <1>10, <3>1
    <3>3. scores[t] >= counted[c][t]
      BY <1>8, <2>1, <3>1, <3>2 DEF ScoresKept
    <3>4. ASSUME NEW u \in DOMAIN new, new[u].score > new[t].score
          PROVE  new[u].rank \in 1..(new[t].rank - 1)
      <4>1. u \in D
        BY <1>9, <2>2, <3>2, <3>4
      <4>2. /\ new[u].score = scores[u] /\ scores[u] \in Nat
            /\ new[u].rank \in 1..Len(ranking) /\ ranking[new[u].rank] = u
        BY <1>9, <1>10, <4>1
      <4>3. ~ (new[t].rank < new[u].rank)
        BY <1>11, <3>2, <3>4, <4>2
      <4>4. new[t].rank # new[u].rank
        BY <3>2, <3>4, <4>2
      <4>5. Len(ranking) \in Nat
        BY <1>11
      <4> QED BY <3>2, <4>2, <4>3, <4>4, <4>5
    <3> QED BY <3>2, <3>3, <3>4
  <2>4. \A q \in Finishing(c)' : busy'[q].at # "scores"
    BY <1>12, <2>1
  <2>5. StartedOnce(c)'
    BY <1>4, <1>12, <2>1, <2>3, <2>4 DEF StartedOnce
  <2> QED BY <1>4, <1>7, <1>14, <1>16, <2>5 DEF Recorded
<1>17. CASE starts[c] \notin {0, 1}
  BY <1>4, <1>7, <1>14, <1>17 DEF Recorded
<1> QED BY <1>15, <1>16, <1>17

LEMMA DropRecorded ==
    ASSUME ChallengeTyped, NEW p \in Looks, NEW c \in Challenges, Recorded(c),
           DropCounters(p, c)
    PROVE  Recorded(c)'
<1>1. /\ busy[p].at = "drop" /\ c \in busy[p].on
      /\ Leaves(p) \/ GoesOn(p, "reward")
      /\ UNCHANGED <<standings, listing, counted, starts>>
  BY DEF DropCounters, IsAt, rowVars, tallyVars
<1>2. busy[p] \in WorkerRows /\ busy \in [Workers -> WorkerRows] /\ p \in Workers
  BY <1>1, LooksAtOne
<1>3. /\ busy'[p].at \in {"idle", "reward"}
      /\ \A q \in Looks \ {p} : busy'[q] = busy[q]
  BY <1>1, <1>2 DEF Leaves, GoesOn, Idle, WorkerRows, Workers
<1>4. p \in Finishing(c) /\ Finishing(c)' = Finishing(c) \ {p}
  BY <1>1, <1>3 DEF Finishing
<1>5. Unranked(c)' = Unranked(c) /\ RankedFairly(c)' = RankedFairly(c)
  BY <1>1 DEF Unranked, RankedFairly
<1>6. starts[c] # 0
  BY <1>4 DEF Recorded, NeverStarted
<1>7. CASE starts[c] = 1
  <2>1. listing[c] = "no" /\ Finishing(c)' = {} /\ RankedFairly(c)
    BY <1>4, <1>7 DEF Recorded, StartedOnce
  <2>2. StartedOnce(c)'
    BY <1>1, <1>5, <2>1 DEF StartedOnce
  <2> QED BY <1>1, <1>7, <2>2 DEF Recorded
<1>8. CASE starts[c] \notin {0, 1}
  BY <1>1, <1>8 DEF Recorded
<1> QED BY <1>6, <1>7, <1>8

\* Every other step leaves the challenge alone, as far as this is concerned.
LEMMA OtherStepsLeaveAlone ==
    ASSUME ChallengeTyped, NEW c \in Challenges,
           \/ \E d \in Challenges :
                 \/ CreateChallenge(d) \/ TimePasses(d)
                 \/ \E m \in ChallengeMessages :
                       \/ ReadToStart(m, d) \/ ReadToCancel(m, d)
                       \/ CancelChallenge(m, d) \/ Unlist(m, d)
           \/ \E m \in ChallengeMessages, t \in Contestants : ReadList(m, t)
           \/ UNCHANGED challengeVars
    PROVE  LeftAlone(c)
<1>1. ASSUME UNCHANGED <<standings, starts, counter, counted>>,
             listing[c] = "no" => listing'[c] = "no",
             \A p \in Looks : busy'[p] = busy[p]
      PROVE  LeftAlone(c)
  BY <1>1 DEF LeftAlone
<1>2. ASSUME NEW d \in Challenges, CreateChallenge(d) \/ TimePasses(d) PROVE LeftAlone(c)
  <2>1. UNCHANGED <<standings, starts, counter, counted, busy>>
        /\ (listing[c] = "no" => listing'[c] = "no")
    BY <1>2 DEF CreateChallenge, TimePasses, rowVars, countVars, tallyVars, ChallengeTyped
  <2> QED BY <1>1, <2>1
<1>3. ASSUME NEW d \in Challenges, NEW m \in ChallengeMessages,
             \/ ReadToStart(m, d) \/ ReadToCancel(m, d)
             \/ CancelChallenge(m, d) \/ Unlist(m, d)
      PROVE  LeftAlone(c)
  <2>1. \A p \in Looks : busy'[p] = busy[p]
    BY <1>3, MessagesOweNothing DEF MessageStep
  <2>2. UNCHANGED <<standings, starts, counter, counted>>
        /\ (listing[c] = "no" => listing'[c] = "no")
    BY <1>3 DEF ReadToStart, ReadToCancel, CancelChallenge, Unlist, rowVars, countVars,
                tallyVars, ChallengeTyped
  <2> QED BY <1>1, <2>1, <2>2
<1>4. ASSUME NEW m \in ChallengeMessages, NEW t \in Contestants, ReadList(m, t)
      PROVE  LeftAlone(c)
  <2>1. \A p \in Looks : busy'[p] = busy[p]
    BY <1>4, MessagesOweNothing
  <2>2. UNCHANGED <<standings, starts, counter, counted, listing>>
    BY <1>4 DEF ReadList, rowVars, countVars, tallyVars
  <2> QED BY <1>1, <2>1, <2>2
<1>5. CASE UNCHANGED challengeVars
  <2>1. UNCHANGED <<standings, starts, counter, counted, listing, busy>>
    BY <1>5 DEF challengeVars
  <2> QED BY <1>1, <2>1
<1> QED BY <1>2, <1>3, <1>4, <1>5

LEMMA LooksLeaveAlone ==
    ASSUME ChallengeTyped, NEW c \in Challenges, NEW p \in Looks, NEW d \in Challenges,
           \/ FindOver(p, d) \/ ReadStanding(p, d) \/ (Claim(p, d) /\ ~ IsFirst(d))
           \/ ClaimIsResent(p, d) \/ Reward(p, d) \/ RewardFails(p, d)
    PROVE  LeftAlone(c)
<1>1. UNCHANGED <<standings, starts, counter, counted>>
      /\ (listing[c] = "no" => listing'[c] = "no")
  BY DEF FindOver, ReadStanding, Claim, ClaimIsResent, Reward, RewardFails,
         rowVars, countVars, tallyVars, ChallengeTyped
<1>2. \A q \in Looks \ {p} : busy'[q] = busy[q]
  BY LooksOweNoMore
<1>3. busy'[p].at \notin {"scores", "drop"}
  <2>1. busy \in [Workers -> WorkerRows] /\ p \in Workers /\ busy[p] \in WorkerRows /\ Handlers
    BY DEF ChallengeTyped, Handlers, Workers
  <2>2. CASE FindOver(p, d) \/ ReadStanding(p, d)
    BY <2>1, <2>2 DEF FindOver, TakesUp, ReadStanding, WorkerRows
  <2>3. CASE (Claim(p, d) /\ ~ IsFirst(d)) \/ ClaimIsResent(p, d)
    BY <2>1, <2>3 DEF Claim, ClaimIsResent, Leaves, Idle
  <2>4. CASE Reward(p, d) \/ RewardFails(p, d)
    <3>1. busy'[p].at \in {"idle", "reward"}
      BY <2>1, <2>4, NextTeamHandlers DEF Reward, RewardFails, IsAt
    <3> QED BY <3>1
  <2> QED BY <2>2, <2>3, <2>4
<1> QED BY <1>1, <1>2, <1>3 DEF LeftAlone

LEMMA StopsLeaveAlone ==
    ASSUME ChallengeTyped, NEW c \in Challenges, NEW w \in Workers, HandlerStops(w)
    PROVE  LeftAlone(c)
<1>1. UNCHANGED <<standings, starts, counter, counted, listing>>
  BY DEF HandlerStops, rowVars, countVars
<1>2. /\ busy'[w].at = "idle" /\ \A q \in Workers \ {w} : busy'[q] = busy[q]
  BY DEF HandlerStops, Leaves, Idle, ChallengeTyped, Handlers
<1>3. \A p \in Looks : busy'[p] = busy[p] \/ busy'[p].at = "idle"
  BY <1>2 DEF Workers
<1> QED BY <1>1, <1>3 DEF LeftAlone

\* What is done to one challenge leaves another alone.
LEMMA OneAtATime ==
    ASSUME ChallengeTyped, NEW c \in Challenges, NEW d \in Challenges \ {c},
           \/ \E m \in ChallengeMessages :
                 \/ ActivateChallenge(m, d) \/ ListChallenge(m, d)
                 \/ \E t \in Contestants : CountAction(m, t, d)
           \/ \E p \in Looks :
                 \/ Claim(p, d) /\ IsFirst(d)
                 \/ \E t \in Contestants : ReadScore(p, d, t)
                 \/ Complete(p, d) \/ DropCounters(p, d)
           \/ CountersExpire(d)
    PROVE  LeftAlone(c)
<1>1. CASE \E m \in ChallengeMessages :
              \/ ActivateChallenge(m, d) \/ ListChallenge(m, d)
              \/ \E t \in Contestants : CountAction(m, t, d)
  <2>1. \A p \in Looks : busy'[p] = busy[p]
    BY <1>1, MessagesOweNothing DEF MessageStep
  <2>2. /\ standings'[c] = standings[c] /\ starts'[c] = starts[c]
        /\ counter'[c] = counter[c] /\ counted'[c] = counted[c]
        /\ listing'[c] = listing[c]
    <3>1. CASE \E m \in ChallengeMessages : ActivateChallenge(m, d)
      BY <3>1 DEF ActivateChallenge, countVars, tallyVars, ChallengeTyped
    <3>2. CASE \E m \in ChallengeMessages : ListChallenge(m, d)
      BY <3>2 DEF ListChallenge, rowVars, ChallengeTyped
    <3>3. CASE \E m \in ChallengeMessages, t \in Contestants : CountAction(m, t, d)
      BY <3>3 DEF CountAction, rowVars, tallyVars, ChallengeTyped
    <3> QED BY <1>1, <3>1, <3>2, <3>3
  <2> QED BY <2>1, <2>2 DEF LeftAlone
<1>2. ASSUME NEW p \in Looks,
             \/ Claim(p, d) /\ IsFirst(d)
             \/ \E t \in Contestants : ReadScore(p, d, t)
             \/ Complete(p, d) \/ DropCounters(p, d)
      PROVE  LeftAlone(c)
  <2>1. busy[p].on = {d} /\ busy[p] \in WorkerRows /\ busy \in [Workers -> WorkerRows]
        /\ p \in Workers
    BY <1>2, LooksAtOne DEF Claim, ReadScore, Complete, DropCounters, IsAt
  <2>2. /\ busy'[p].on = {d} \/ busy'[p].at = "idle"
        /\ \A q \in Looks \ {p} : busy'[q] = busy[q]
    <3>1. CASE Claim(p, d) /\ IsFirst(d)
      BY <2>1, <3>1 DEF Claim, GoesOn, WorkerRows, Workers
    <3>2. ASSUME NEW t \in Contestants, ReadScore(p, d, t)
          PROVE  /\ busy'[p].on = {d} \/ busy'[p].at = "idle"
                 /\ \A q \in Looks \ {p} : busy'[q] = busy[q]
      <4>1. PICK scores : busy' = [busy EXCEPT ![p] = [busy[p] EXCEPT !.scores = scores]]
        BY <3>2 DEF ReadScore
      <4> QED BY <2>1, <4>1 DEF WorkerRows, Workers
    <3>3. CASE Complete(p, d)
      <4>1. PICK ranking : busy' = [busy EXCEPT ![p].at = "drop", ![p].todo = ranking,
                                                ![p].scores = Idle.scores]
        BY <3>3 DEF Complete
      <4> QED BY <2>1, <4>1 DEF WorkerRows, Workers
    <3>4. CASE DropCounters(p, d)
      BY <2>1, <3>4 DEF DropCounters, Leaves, GoesOn, Idle, WorkerRows, Workers
    <3> QED BY <1>2, <3>1, <3>2, <3>3, <3>4
  <2>3. /\ standings'[c] = standings[c] /\ starts'[c] = starts[c]
        /\ counter'[c] = counter[c] /\ counted'[c] = counted[c]
        /\ listing'[c] = listing[c]
    BY <1>2 DEF Claim, ReadScore, Complete, DropCounters, rowVars, countVars,
                tallyVars, ChallengeTyped
  <2> QED BY <2>2, <2>3 DEF LeftAlone
<1>3. CASE CountersExpire(d)
  <2>1. /\ UNCHANGED <<standings, listing, starts, busy>>
        /\ counter'[c] = counter[c] /\ counted'[c] = counted[c]
    BY <1>3 DEF CountersExpire, rowVars, tallyVars, ChallengeTyped
  <2> QED BY <2>1 DEF LeftAlone
<1> QED BY <1>1, <1>2, <1>3

LEMMA RecordedStep ==
    ASSUME ChallengeTyped, NEW c \in Challenges, Recorded(c),
           [ChallengeNext]_challengeVars
    PROVE  Recorded(c)'
<1>1. ASSUME NEW d \in Challenges,
             \/ CreateChallenge(d) \/ TimePasses(d)
             \/ \E m \in ChallengeMessages :
                   \/ ReadToStart(m, d) \/ ReadToCancel(m, d)
                   \/ CancelChallenge(m, d) \/ Unlist(m, d)
      PROVE  Recorded(c)'
  <2>1. LeftAlone(c)
    BY <1>1, OtherStepsLeaveAlone
  <2> QED BY <2>1, RecordedStays
<1>2. ASSUME (\E m \in ChallengeMessages, t \in Contestants : ReadList(m, t))
             \/ UNCHANGED challengeVars
      PROVE  Recorded(c)'
  <2>1. LeftAlone(c)
    BY <1>2, OtherStepsLeaveAlone
  <2> QED BY <2>1, RecordedStays
<1>3. ASSUME NEW p \in Looks, NEW d \in Challenges,
             \/ FindOver(p, d) \/ ReadStanding(p, d) \/ (Claim(p, d) /\ ~ IsFirst(d))
             \/ ClaimIsResent(p, d) \/ Reward(p, d) \/ RewardFails(p, d)
      PROVE  Recorded(c)'
  BY <1>3, LooksLeaveAlone, RecordedStays
<1>4. ASSUME NEW w \in Workers, HandlerStops(w) PROVE Recorded(c)'
  BY <1>4, StopsLeaveAlone, RecordedStays
<1>5. ASSUME NEW d \in Challenges, NEW m \in ChallengeMessages,
             \/ ActivateChallenge(m, d) \/ ListChallenge(m, d)
             \/ \E t \in Contestants : CountAction(m, t, d)
      PROVE  Recorded(c)'
  <2>1. CASE d = c
    BY <1>5, <2>1, ActivateRecorded, ListRecorded, CountRecorded
  <2>2. CASE d # c
    <3>1. LeftAlone(c)
      BY <1>5, <2>2, OneAtATime
    <3> QED BY <3>1, RecordedStays
  <2> QED BY <2>1, <2>2
<1>6. ASSUME NEW d \in Challenges, NEW p \in Looks,
             \/ Claim(p, d) /\ IsFirst(d)
             \/ \E t \in Contestants : ReadScore(p, d, t)
             \/ Complete(p, d) \/ DropCounters(p, d)
      PROVE  Recorded(c)'
  <2>1. CASE d = c
    BY <1>6, <2>1, ClaimRecorded, ReadScoreRecorded, CompleteRecorded, DropRecorded
  <2>2. CASE d # c
    <3>1. LeftAlone(c)
      BY <1>6, <2>2, OneAtATime
    <3> QED BY <3>1, RecordedStays
  <2> QED BY <2>1, <2>2
<1>7. ASSUME NEW d \in Challenges, CountersExpire(d) PROVE Recorded(c)'
  <2>1. CASE d = c
    BY <1>7, <2>1, ExpireRecorded
  <2>2. CASE d # c
    <3>1. LeftAlone(c)
      BY <1>7, <2>2, OneAtATime
    <3> QED BY <3>1, RecordedStays
  <2> QED BY <2>1, <2>2
<1> QED BY <1>1, <1>2, <1>3, <1>4, <1>5, <1>6, <1>7 DEF ChallengeNext, MessageStep, LookStep

\* For any number of instances, teams and challenges, and whatever fails: when a
\* challenge that was started once is completed, the score of every team that is
\* ranked holds all that was counted for it, and who has more is ranked before.
THEOREM ActionsDecideStandings == ChallengeSpec => []StandingsFollowActions
<1>1. ChallengeInit => AllRecorded
  <2> SUFFICES ASSUME ChallengeInit, NEW c \in Challenges PROVE Recorded(c)
    BY DEF AllRecorded
  <2>1. DOMAIN standings[c] = {} /\ listing[c] = "no" /\ starts[c] = 0
        /\ \A t \in Contestants : counted[c][t] = 0
    BY DEF ChallengeInit
  <2>2. Finishing(c) = {}
    BY DEF ChallengeInit, Finishing, Idle, Workers
  <2> QED BY <2>1, <2>2 DEF Recorded, NeverStarted, Unranked
<1>2. ChallengeTyped /\ AllRecorded /\ [ChallengeNext]_challengeVars => AllRecorded'
  BY RecordedStep DEF AllRecorded
<1>3. AllRecorded => StandingsFollowActions
  BY DEF AllRecorded, Recorded, StartedOnce, RankedFairly, StandingsFollowActions
<1> QED BY <1>1, <1>2, <1>3, ChallengeTypedInvariant, PTL DEF ChallengeSpec
-----------------------------------------------------------------------------
(* Points and badges: types *)

AwardSteps == {"idle", "book", "sum", "commit", "badges", "actions", "points"}

AwardCall == [at : AwardSteps, reason : Reasons \cup {"none"}, worth : 0..2,
              total : Nat, has : SUBSET (Reasons \cup {"points"})]

EntryRow == [points : Nat, actions : Nat]

\* A call knows its reason until it returns, and what it is worth once booked.
CallsMakeSense ==
    \A a \in PointAwards :
        /\ awarding[a].at = "idle" <=> awarding[a].reason = "none"
        /\ awarding[a].at \in {"sum", "commit"} => awarding[a].worth > 0

PointsTyped ==
    /\ entry \in [Reasons -> EntryRow]
    /\ marked \subseteq OncePerSession
    /\ badges \subseteq Reasons \cup {"points"}
    /\ awarding \in [PointAwards -> AwardCall]
    /\ overlapped \in BOOLEAN
    /\ pointFaults \in 0..MaxPointFaults
    /\ CallsMakeSense

\* What a step of call a makes of it, and that it leaves the others alone.
AwardGoesOn(a) ==
    /\ awarding'[a] \in AwardCall
    /\ awarding' \in [PointAwards -> AwardCall]
    /\ \A b \in PointAwards \ {a} : awarding'[b] = awarding[b]

LEMMA AwardRow ==
    ASSUME PointsTyped, NEW a \in PointAwards, NEW row \in AwardCall,
           awarding' = [awarding EXCEPT ![a] = row]
    PROVE  AwardGoesOn(a) /\ awarding'[a] = row
BY DEF PointsTyped, AwardGoesOn

LEMMA AwardMovesTo ==
    ASSUME PointsTyped, NEW a \in PointAwards, NEW step \in AwardSteps, Awards(a, step)
    PROVE  /\ AwardGoesOn(a)
           /\ awarding'[a].at = step
           /\ awarding'[a].reason = awarding[a].reason
           /\ awarding'[a].worth = awarding[a].worth
           /\ awarding'[a].total = awarding[a].total
           /\ awarding'[a].has = awarding[a].has
<1> DEFINE row == [awarding[a] EXCEPT !.at = step]
<1>1. awarding[a] \in AwardCall
  BY DEF PointsTyped
<1>2. row \in AwardCall /\ row.at = step /\ row.reason = awarding[a].reason
      /\ row.worth = awarding[a].worth /\ row.total = awarding[a].total
      /\ row.has = awarding[a].has
  BY <1>1 DEF AwardCall
<1>3. awarding' = [awarding EXCEPT ![a] = row]
  BY DEF Awards
<1> HIDE DEF row
<1> QED BY <1>2, <1>3, AwardRow

LEMMA AwardReturns ==
    ASSUME PointsTyped, NEW a \in PointAwards, Returns(a)
    PROVE  AwardGoesOn(a) /\ awarding'[a] = NotAwarding
<1>1. NotAwarding \in AwardCall
  BY DEF NotAwarding, AwardCall, AwardSteps
<1> QED BY <1>1, AwardRow DEF Returns

LEMMA AwardBegins ==
    ASSUME PointsTyped, NEW a \in PointAwards, NEW r \in Reasons, BeginAward(a, r)
    PROVE  \/ awarding' = awarding /\ marked' = marked
           \/ /\ AwardGoesOn(a)
              /\ awarding'[a].at = "book" /\ awarding'[a].reason = r
              /\ r \in OncePerSession => r \notin marked
              /\ marked' = IF r \in OncePerSession THEN marked \cup {r} ELSE marked
<1> DEFINE row == [awarding[a] EXCEPT !.at = "book", !.reason = r]
<1>1. awarding[a] \in AwardCall
  BY DEF PointsTyped
<1>2. row \in AwardCall /\ row.at = "book" /\ row.reason = r
  BY <1>1 DEF AwardCall, AwardSteps
<1>3. CASE awarding' = [awarding EXCEPT ![a].at = "book", ![a].reason = r]
  <2>1. awarding' = [awarding EXCEPT ![a] = row]
    BY <1>1, <1>3 DEF PointsTyped
  <2>2. AwardGoesOn(a) /\ awarding'[a] = row
    BY <1>2, <2>1, AwardRow
  <2>3. \/ awarding' = awarding /\ marked' = marked
        \/ /\ r \in OncePerSession => r \notin marked
           /\ marked' = IF r \in OncePerSession THEN marked \cup {r} ELSE marked
    BY DEF BeginAward
  <2> QED BY <1>2, <2>2, <2>3
<1> QED BY <1>3 DEF BeginAward

LEMMA AwardIsBooked ==
    ASSUME PointsTyped, NEW a \in PointAwards, BookPoints(a)
    PROVE  /\ AwardGoesOn(a)
           /\ awarding'[a].at = "sum" /\ awarding'[a].reason = awarding[a].reason
           /\ awarding'[a].worth \in 1..2
<1>1. PICK worth \in 1..2 :
        awarding' = [awarding EXCEPT ![a].at = "sum", ![a].worth = worth]
  BY DEF BookPoints
<1> DEFINE row == [awarding[a] EXCEPT !.at = "sum", !.worth = worth]
<1>2. awarding[a] \in AwardCall
  BY DEF PointsTyped
<1>3. row \in AwardCall /\ row.at = "sum" /\ row.reason = awarding[a].reason
      /\ row.worth = worth
  <2>1. worth \in 0..2
    BY <1>1
  <2> HIDE <1>1
  <2> QED BY <1>2, <2>1 DEF AwardCall, AwardSteps
<1>4. awarding' = [awarding EXCEPT ![a] = row]
  BY <1>1, <1>2 DEF PointsTyped
<1> HIDE DEF row
<1> QED BY <1>3, <1>4, AwardRow
\* A sum of points is the points that are committed: they are finitely many.
LEMMA PointsAreFinite ==
    ASSUME entry \in [Reasons -> EntryRow]
    PROVE  IsFiniteSet(AllPoints) /\ Points \in Nat
<1> DEFINE f == [r \in Reasons |-> {r} \X (1 .. entry[r].points)]
           S == {f[r] : r \in Reasons}
<1>1. AllPoints = UNION S
  BY DEF AllPoints
<1>2. f \in Surjection(Reasons, S)
  BY DEF Surjection
<1>3. ASSUME NEW r \in Reasons PROVE IsFiniteSet(f[r])
  <2> PICK n : n = entry[r].points
    OBVIOUS
  <2>1. n \in Int /\ 1 \in Int
    BY DEF EntryRow
  <2>2. IsFiniteSet(1 .. n) /\ IsFiniteSet({r})
    BY <2>1, FS_Interval, FS_Singleton
  <2>3. IsFiniteSet({r} \X (1 .. entry[r].points))
    BY <2>2, FS_Product
  <2> QED BY <2>3
<1> HIDE DEF f
<1>4. IsFiniteSet(S)
  BY <1>2, ReasonsAssumption, FS_Surjection
<1>5. IsFiniteSet(AllPoints)
  BY <1>1, <1>3, <1>4, FS_UNION
<1> QED BY <1>5, FS_CardinalityType DEF Points

LEMMA PointsAreAdded ==
    ASSUME entry \in [Reasons -> EntryRow], NEW r \in Reasons, NEW w \in Nat \ {0},
           NEW row \in EntryRow, row.points = entry[r].points + w,
           entry' = [entry EXCEPT ![r] = row]
    PROVE  Points' = Points + w
<1> DEFINE p == entry[r].points
           more == {r} \X (p + 1 .. p + w)
<1>1. p \in Nat
  BY DEF EntryRow
<1>2. IsFiniteSet(p + 1 .. p + w) /\ Cardinality(p + 1 .. p + w) = w
  <2>1. p + 1 \in Int /\ p + w \in Int /\ ~(p + 1 > p + w) /\ (p + w) - (p + 1) + 1 = w
    BY <1>1
  <2> HIDE DEF p
  <2> QED BY <2>1, FS_Interval
<1>3. IsFiniteSet({r}) /\ Cardinality({r}) = 1
  BY FS_Singleton
<1>4. IsFiniteSet(more) /\ Cardinality(more) = w
  <2> DEFINE T == p + 1 .. p + w
  <2>1. IsFiniteSet(T) /\ Cardinality(T) = w
    BY <1>2
  <2> HIDE DEF T
  <2>2. IsFiniteSet({r} \X T) /\ Cardinality({r} \X T) = Cardinality({r}) * Cardinality(T)
    BY <1>3, <2>1, FS_Product
  <2>3. Cardinality({r} \X T) = w
    BY <1>3, <2>1, <2>2
  <2> QED BY <2>2, <2>3 DEF T
<1>5. AllPoints' = AllPoints \cup more
  <2>1. \A u \in Reasons : u # r => entry'[u].points = entry[u].points
    OBVIOUS
  <2>2. entry'[r].points = p + w
    OBVIOUS
  <2>3. 1 .. p + w = (1 .. p) \cup (p + 1 .. p + w)
    BY <1>1
  <2> HIDE DEF p
  <2>4. AllPoints' = UNION {{u} \X (1 .. entry'[u].points) : u \in Reasons}
    BY DEF AllPoints
  <2>5. ASSUME NEW x PROVE x \in AllPoints' <=> x \in AllPoints \cup more
    <3>1. x \in AllPoints' <=> \E u \in Reasons : x \in {u} \X (1 .. entry'[u].points)
      BY <2>4
    <3>2. x \in AllPoints <=> \E u \in Reasons : x \in {u} \X (1 .. entry[u].points)
      BY DEF AllPoints
    <3>3. x \in {r} \X (1 .. p + w) <=> x \in {r} \X (1 .. p) \/ x \in more
      BY <2>3
    <3> QED BY <2>1, <2>2, <3>1, <3>2, <3>3 DEF p
  <2> QED BY <2>5
<1>6. AllPoints \cap more = {}
  <2> SUFFICES ASSUME NEW x \in AllPoints, x \in more PROVE FALSE
    OBVIOUS
  <2>1. PICK u \in Reasons : x \in {u} \X (1 .. entry[u].points)
    BY DEF AllPoints
  <2>2. u = r /\ x[2] \in 1 .. p /\ x[2] \in p + 1 .. p + w
    BY <2>1
  <2> QED BY <1>1, <2>2
<1>7. IsFiniteSet(AllPoints) /\ Points \in Nat
  BY PointsAreFinite
<1> HIDE DEF more
<1>8. Cardinality(AllPoints \cup more) = Cardinality(AllPoints) + w
  <2>1. Cardinality(AllPoints \cap more) = 0
    BY <1>6, FS_EmptySet
  <2>2. Cardinality(AllPoints \cup more) =
          Cardinality(AllPoints) + Cardinality(more) - Cardinality(AllPoints \cap more)
    BY <1>4, <1>7, FS_Union
  <2>3. Cardinality(AllPoints) \in Nat
    BY <1>7 DEF Points
  <2> HIDE <1>5
  <2> QED BY <1>4, <2>1, <2>2, <2>3
<1> QED BY <1>5, <1>8 DEF Points
\* What holds of the call of a step afterwards is enough to keep the types.
LEMMA CallsKeepTypes ==
    ASSUME PointsTyped, NEW a \in PointAwards, AwardGoesOn(a),
           awarding'[a].at = "idle" <=> awarding'[a].reason = "none",
           awarding'[a].at \in {"sum", "commit"} => awarding'[a].worth > 0
    PROVE  CallsMakeSense'
BY DEF PointsTyped, CallsMakeSense, AwardGoesOn

LEMMA AwardTypedStep ==
    ASSUME PointsTyped, NEW a \in PointAwards,
           AwardStep(a) \/ AwardFails(a) \/ \E r \in Reasons : BeginAward(a, r)
    PROVE  PointsTyped'
<1>1. awarding[a] \in AwardCall /\ (awarding[a].at = "idle" <=> awarding[a].reason = "none")
  BY DEF PointsTyped, CallsMakeSense
<1>2. CASE \E r \in Reasons : BeginAward(a, r)
  <2> PICK r \in Reasons : BeginAward(a, r)
    BY <1>2
  <2>1. UNCHANGED <<entry, badges, overlapped, pointFaults>>
    BY DEF BeginAward
  <2>2. CASE awarding' = awarding /\ marked' = marked
    BY <2>1, <2>2 DEF PointsTyped, CallsMakeSense
  <2>3. CASE /\ AwardGoesOn(a)
             /\ awarding'[a].at = "book" /\ awarding'[a].reason = r
             /\ marked' = IF r \in OncePerSession THEN marked \cup {r} ELSE marked
    <3>1. CallsMakeSense'
      BY <2>3, ReasonsAssumption, CallsKeepTypes
    <3> QED BY <2>1, <2>3, <3>1 DEF PointsTyped, AwardGoesOn
  <2> QED BY <2>2, <2>3, AwardBegins
<1>3. CASE BookPoints(a)
  <2>1. /\ AwardGoesOn(a) /\ awarding'[a].at = "sum"
        /\ awarding'[a].reason = awarding[a].reason /\ awarding'[a].worth \in 1..2
    BY <1>3, AwardIsBooked
  <2>0. awarding[a].reason # "none" /\ awarding'[a].worth > 0
    BY <1>1, <1>3, <2>1 DEF BookPoints
  <2>2. CallsMakeSense'
    BY <2>0, <2>1, CallsKeepTypes
  <2> QED BY <1>3, <2>1, <2>2 DEF PointsTyped, AwardGoesOn, BookPoints
<1>4. CASE SumPoints(a)
  <2> DEFINE row == [awarding[a] EXCEPT !.at = "commit", !.total = Points + awarding[a].worth]
  <2>1. Points + awarding[a].worth \in Nat
    BY <1>1, PointsAreFinite DEF PointsTyped, AwardCall
  <2>2. row \in AwardCall /\ row.at = "commit" /\ row.reason = awarding[a].reason
        /\ row.worth = awarding[a].worth
    BY <1>1, <2>1 DEF AwardCall, AwardSteps
  <2>3. awarding' = [awarding EXCEPT ![a] = row]
    BY <1>1, <1>4 DEF SumPoints, PointsTyped
  <2>4. awarding[a].at = "sum" /\ awarding[a].worth > 0
    BY <1>4 DEF SumPoints, PointsTyped, CallsMakeSense
  <2> HIDE DEF row
  <2>5. AwardGoesOn(a) /\ awarding'[a] = row
    BY <2>2, <2>3, AwardRow
  <2>6. CallsMakeSense'
    BY <1>1, <2>2, <2>4, <2>5, CallsKeepTypes
  <2> QED BY <1>4, <2>5, <2>6 DEF PointsTyped, AwardGoesOn, SumPoints
<1>5. CASE CommitPoints(a)
  <2>1. awarding[a].at = "commit" /\ Awards(a, "badges")
        /\ UNCHANGED <<marked, badges, overlapped, pointFaults>>
    BY <1>5 DEF CommitPoints
  <2>2. AwardGoesOn(a) /\ awarding'[a].at = "badges"
        /\ awarding'[a].reason = awarding[a].reason
    BY <2>1, AwardMovesTo DEF AwardSteps
  <2>3. CallsMakeSense'
    BY <1>1, <2>1, <2>2, CallsKeepTypes
  <2>4. entry' \in [Reasons -> EntryRow]
    <3> DEFINE r == awarding[a].reason
    <3>1. awarding[a].worth \in Nat
      BY <1>1 DEF AwardCall
    <3>2. entry' = [entry EXCEPT ![r].points = @ + awarding[a].worth, ![r].actions = @ + 1]
      BY <1>5 DEF CommitPoints, Reason
    <3>3. r \in Reasons
      BY <1>1, <2>1 DEF AwardCall
    <3> HIDE DEF r
    <3> QED BY <3>1, <3>2, <3>3 DEF PointsTyped, EntryRow
  <2> QED BY <2>1, <2>2, <2>3, <2>4 DEF PointsTyped, AwardGoesOn
<1>6. CASE ReadBadges(a)
  <2> DEFINE row == [awarding[a] EXCEPT !.at = "actions", !.has = badges]
  <2>1. row \in AwardCall /\ row.at = "actions" /\ row.reason = awarding[a].reason
    BY <1>1 DEF PointsTyped, AwardCall, AwardSteps
  <2>2. awarding' = [awarding EXCEPT ![a] = row]
    BY <1>1, <1>6 DEF ReadBadges, PointsTyped
  <2> HIDE DEF row
  <2>3. AwardGoesOn(a) /\ awarding'[a] = row
    BY <2>1, <2>2, AwardRow
  <2>4. CallsMakeSense'
    BY <1>1, <1>6, <2>1, <2>3, CallsKeepTypes DEF ReadBadges
  <2> QED BY <1>6, <2>3, <2>4 DEF PointsTyped, AwardGoesOn, ReadBadges
<1>7. CASE GrantForActions(a)
  <2>1. awarding[a].at = "actions" /\ Awards(a, "points")
        /\ UNCHANGED <<entry, marked, overlapped, pointFaults>>
    BY <1>7 DEF GrantForActions
  <2>2. AwardGoesOn(a) /\ awarding'[a].at = "points"
        /\ awarding'[a].reason = awarding[a].reason
    BY <2>1, AwardMovesTo DEF AwardSteps
  <2>3. CallsMakeSense'
    BY <1>1, <2>1, <2>2, CallsKeepTypes
  <2>4. badges' \subseteq Reasons \cup {"points"}
    <3>1. awarding[a].reason \in Reasons
      BY <1>1, <2>1 DEF AwardCall
    <3> QED BY <1>7, <3>1 DEF GrantForActions, PointsTyped, Reason
  <2> QED BY <2>1, <2>2, <2>3, <2>4 DEF PointsTyped, AwardGoesOn
<1>8. CASE GrantForPoints(a) \/ AwardFails(a)
  <2>1. Returns(a) /\ UNCHANGED <<entry, marked, overlapped>>
    BY <1>8 DEF GrantForPoints, AwardFails
  <2>2. AwardGoesOn(a) /\ awarding'[a] = NotAwarding
    BY <2>1, AwardReturns
  <2>3. CallsMakeSense'
    BY <2>2, CallsKeepTypes DEF NotAwarding
  <2>4. badges' \subseteq Reasons \cup {"points"} /\ pointFaults' \in 0..MaxPointFaults
    BY <1>8, PointBoundsAssumption DEF GrantForPoints, AwardFails, PointsTyped
  <2> QED BY <2>1, <2>2, <2>3, <2>4 DEF PointsTyped, AwardGoesOn
<1> QED BY <1>2, <1>3, <1>4, <1>5, <1>6, <1>7, <1>8 DEF AwardStep

LEMMA PointsTypedInit == GamificationInit => PointsTyped
<1> SUFFICES ASSUME GamificationInit PROVE PointsTyped
  OBVIOUS
<1>1. NotAwarding \in AwardCall /\ NotAwarding.at = "idle" /\ NotAwarding.reason = "none"
  BY DEF NotAwarding, AwardCall, AwardSteps
<1>2. \A a \in PointAwards : awarding[a] = NotAwarding
  BY DEF GamificationInit
<1>3. CallsMakeSense
  BY <1>1, <1>2 DEF CallsMakeSense
<1>4. entry \in [Reasons -> EntryRow]
  BY DEF GamificationInit, EntryRow
<1>5. pointFaults \in 0..MaxPointFaults
  BY PointBoundsAssumption DEF GamificationInit
<1>6. awarding \in [PointAwards -> AwardCall]
  BY <1>1 DEF GamificationInit
<1> QED BY <1>3, <1>4, <1>5, <1>6 DEF GamificationInit, PointsTyped
-----------------------------------------------------------------------------
(* Points and badges: a reason is awarded as often as it may be *)

CallsFor(r) == {b \in PointAwards : awarding[b].reason = r}

Unbooked(r) == {b \in CallsFor(r) : awarding[b].at \in {"book", "sum", "commit"}}

RoomLeft(r) ==
    /\ IsFiniteSet(CallsFor(r))
    /\ entry[r].actions + Cardinality(Unbooked(r)) <= MaxPerReason

\* What counts once was not begun, or is being booked, or was.
OnceLeft(r) ==
    r \in OncePerSession =>
        /\ r \notin marked => entry[r].actions = 0 /\ Unbooked(r) = {}
        /\ entry[r].actions <= 1
        /\ Unbooked(r) # {} => entry[r].actions = 0
        /\ \A a, b \in Unbooked(r) : a = b

AwardsFit == \A r \in Reasons : RoomLeft(r) /\ OnceLeft(r)

LEMMA UnbookedFinite ==
    ASSUME NEW r, RoomLeft(r)
    PROVE  /\ IsFiniteSet(Unbooked(r)) /\ Cardinality(Unbooked(r)) \in Nat
           /\ Cardinality(CallsFor(r)) \in Nat
           /\ Cardinality(Unbooked(r)) <= Cardinality(CallsFor(r))
<1>1. Unbooked(r) \in SUBSET CallsFor(r)
  BY DEF Unbooked
<1>2. IsFiniteSet(CallsFor(r))
  BY DEF RoomLeft
<1>3. IsFiniteSet(Unbooked(r)) /\ Cardinality(Unbooked(r)) <= Cardinality(CallsFor(r))
  BY <1>1, <1>2, FS_Subset
<1> QED BY <1>2, <1>3, FS_CardinalityType

\* A step that begins nothing and commits nothing.
LEMMA RoomStays ==
    ASSUME PointsTyped, NEW r \in Reasons, RoomLeft(r), OnceLeft(r),
           CallsFor(r)' \subseteq CallsFor(r), Unbooked(r)' \subseteq Unbooked(r),
           marked' = marked, entry'[r] = entry[r]
    PROVE  RoomLeft(r)' /\ OnceLeft(r)'
<1>1. IsFiniteSet(Unbooked(r)) /\ Cardinality(Unbooked(r)) \in Nat
  BY UnbookedFinite
<1> PICK U, C : U = Unbooked(r)' /\ C = CallsFor(r)'
  OBVIOUS
<1>2. IsFiniteSet(U) /\ Cardinality(U) <= Cardinality(Unbooked(r))
  BY <1>1, FS_Subset
<1>3. Cardinality(U) \in Nat
  BY <1>2, FS_CardinalityType
<1>4. IsFiniteSet(C)
  BY FS_Subset DEF RoomLeft
<1>5. entry[r].actions \in Nat /\ MaxPerReason \in Nat
  BY PointBoundsAssumption DEF PointsTyped, EntryRow
<1>6. entry[r].actions + Cardinality(U) <= MaxPerReason
  BY <1>1, <1>2, <1>3, <1>5 DEF RoomLeft
<1>7. RoomLeft(r)'
  BY <1>4, <1>6 DEF RoomLeft
<1>8. OnceLeft(r)'
  BY DEF OnceLeft
<1> QED BY <1>7, <1>8

LEMMA AwardsFitBegin ==
    ASSUME PointsTyped, AwardsFit, NEW a \in PointAwards, NEW r \in Reasons,
           BeginAward(a, r)
    PROVE  AwardsFit'
<1>1. /\ awarding[a].at = "idle" /\ awarding[a].reason = "none" /\ entry' = entry
      /\ entry[r].actions + Cardinality(CallsFor(r)) < MaxPerReason
  BY DEF BeginAward, PointsTyped, CallsMakeSense, CallsFor, Reason
<1>2. entry[r].actions \in Nat /\ MaxPerReason \in Nat
  BY PointBoundsAssumption DEF PointsTyped, EntryRow
<1>3. CASE awarding' = awarding /\ marked' = marked
  <2>1. \A s : CallsFor(s)' = CallsFor(s) /\ Unbooked(s)' = Unbooked(s)
    BY <1>3 DEF CallsFor, Unbooked
  <2> QED BY <1>1, <1>3, <2>1 DEF AwardsFit, RoomLeft, OnceLeft
<1>4. CASE /\ AwardGoesOn(a)
           /\ awarding'[a].at = "book" /\ awarding'[a].reason = r
           /\ r \in OncePerSession => r \notin marked
           /\ marked' = IF r \in OncePerSession THEN marked \cup {r} ELSE marked
  <2>1. \A s \in Reasons : s # r => CallsFor(s)' = CallsFor(s) /\ Unbooked(s)' = Unbooked(s)
    <3> SUFFICES ASSUME NEW s \in Reasons, s # r
                 PROVE  CallsFor(s)' = CallsFor(s) /\ Unbooked(s)' = Unbooked(s)
      OBVIOUS
    <3>1. s # "none"
      BY ReasonsAssumption
    <3>2. CallsFor(s)' = CallsFor(s)
      BY <1>1, <1>4, <3>1 DEF CallsFor, AwardGoesOn
    <3>3. \A b \in CallsFor(s) : b \in PointAwards /\ b # a
      BY <1>1, <3>1 DEF CallsFor
    <3> QED BY <1>4, <3>2, <3>3 DEF Unbooked, AwardGoesOn
  <2>2. CallsFor(r)' = CallsFor(r) \cup {a} /\ Unbooked(r)' = Unbooked(r) \cup {a}
    <3>1. CallsFor(r)' = CallsFor(r) \cup {a}
      BY <1>1, <1>4 DEF CallsFor, AwardGoesOn
    <3>2. \A b \in CallsFor(r) : b \in PointAwards /\ b # a
      BY <1>1, ReasonsAssumption DEF CallsFor
    <3> QED BY <1>4, <3>1, <3>2 DEF Unbooked, AwardGoesOn
  <2>3. a \notin Unbooked(r)
    BY <1>1, ReasonsAssumption DEF CallsFor, Unbooked
  <2>4. /\ IsFiniteSet(Unbooked(r)) /\ Cardinality(Unbooked(r)) \in Nat
        /\ Cardinality(CallsFor(r)) \in Nat
        /\ Cardinality(Unbooked(r)) <= Cardinality(CallsFor(r))
        /\ IsFiniteSet(CallsFor(r))
    BY UnbookedFinite DEF AwardsFit, RoomLeft
  <2>5. /\ IsFiniteSet(CallsFor(r) \cup {a})
        /\ Cardinality(Unbooked(r) \cup {a}) = Cardinality(Unbooked(r)) + 1
    BY <2>3, <2>4, FS_AddElement
  <2>6. entry[r].actions + Cardinality(Unbooked(r) \cup {a}) <= MaxPerReason
    BY <1>1, <1>2, <2>4, <2>5
  <2>7. RoomLeft(r)'
    BY <1>1, <2>2, <2>5, <2>6 DEF RoomLeft
  <2>8. OnceLeft(r)'
    BY <1>1, <1>4, <2>2 DEF OnceLeft, AwardsFit
  <2>9. ASSUME NEW s \in Reasons, s # r PROVE RoomLeft(s)' /\ OnceLeft(s)'
    <3>1. CallsFor(s)' = CallsFor(s) /\ Unbooked(s)' = Unbooked(s)
      BY <2>1, <2>9
    <3>2. s \in marked' <=> s \in marked
      BY <1>4, <2>9
    <3> QED BY <1>1, <3>1, <3>2 DEF AwardsFit, RoomLeft, OnceLeft
  <2> QED BY <2>7, <2>8, <2>9 DEF AwardsFit
<1> QED BY <1>3, <1>4, AwardBegins
LEMMA AwardsFitCommit ==
    ASSUME PointsTyped, AwardsFit, NEW a \in PointAwards, CommitPoints(a)
    PROVE  AwardsFit'
<1> PICK r : r = awarding[a].reason
  OBVIOUS
<1>1. /\ awarding[a].at = "commit" /\ awarding[a] \in AwardCall /\ awarding[a].reason = r
      /\ r \in Reasons /\ awarding[a].worth \in Nat /\ marked' = marked
  BY DEF CommitPoints, PointsTyped, CallsMakeSense, AwardCall
<1>2. entry' = [entry EXCEPT ![r].points = @ + awarding[a].worth, ![r].actions = @ + 1]
  BY DEF CommitPoints, Reason
<1>3. entry[r] \in EntryRow /\ entry'[r].actions = entry[r].actions + 1
  BY <1>1, <1>2 DEF PointsTyped, EntryRow
<1>4. \A s \in Reasons : s # r => entry'[s] = entry[s]
  BY <1>2 DEF PointsTyped
<1>5. /\ AwardGoesOn(a) /\ awarding'[a].at = "badges" /\ awarding'[a].reason = r
  BY <1>1, AwardMovesTo DEF CommitPoints, AwardSteps
<1>6. \A s : CallsFor(s)' = CallsFor(s)
  BY <1>1, <1>5 DEF CallsFor, AwardGoesOn
<1>7. \A s : Unbooked(s)' = Unbooked(s) \ {a}
  BY <1>5, <1>6 DEF Unbooked, CallsFor, AwardGoesOn
<1>8. a \in Unbooked(r) /\ \A s : s # r => a \notin Unbooked(s)
  BY <1>1 DEF Unbooked, CallsFor
<1>9. /\ IsFiniteSet(Unbooked(r)) /\ Cardinality(Unbooked(r)) \in Nat
      /\ entry[r].actions \in Nat /\ MaxPerReason \in Nat
      /\ entry[r].actions + Cardinality(Unbooked(r)) <= MaxPerReason
      /\ IsFiniteSet(CallsFor(r))
  BY <1>1, <1>3, UnbookedFinite, PointBoundsAssumption DEF AwardsFit, RoomLeft, EntryRow
<1>10. /\ IsFiniteSet(Unbooked(r) \ {a})
       /\ Cardinality(Unbooked(r) \ {a}) = Cardinality(Unbooked(r)) - 1
  BY <1>8, <1>9, FS_RemoveElement
<1>11. entry'[r].actions + Cardinality(Unbooked(r) \ {a}) <= MaxPerReason
  BY <1>3, <1>9, <1>10
<1>12. RoomLeft(r)'
  BY <1>6, <1>7, <1>9, <1>11 DEF RoomLeft
<1>13. OnceLeft(r)'
  <2> SUFFICES ASSUME r \in OncePerSession PROVE OnceLeft(r)'
    BY DEF OnceLeft
  <2>1. entry[r].actions = 0 /\ r \in marked /\ Unbooked(r) \ {a} = {}
    BY <1>1, <1>8 DEF AwardsFit, OnceLeft
  <2>2. Unbooked(r)' = {}
    BY <1>7, <2>1
  <2> HIDE <1>7
  <2> QED BY <1>1, <1>3, <2>1, <2>2 DEF OnceLeft
<1>14. ASSUME NEW s \in Reasons, s # r PROVE RoomLeft(s)' /\ OnceLeft(s)'
  <2>1. RoomLeft(s) /\ OnceLeft(s) /\ entry'[s] = entry[s]
    BY <1>4, <1>14 DEF AwardsFit
  <2>2. CallsFor(s)' \subseteq CallsFor(s) /\ Unbooked(s)' \subseteq Unbooked(s)
    BY <1>6, <1>7
  <2> QED BY <1>1, <2>1, <2>2, RoomStays
<1> QED BY <1>12, <1>13, <1>14 DEF AwardsFit

LEMMA AwardsFitOther ==
    ASSUME PointsTyped, AwardsFit, NEW a \in PointAwards,
           AwardStep(a) \/ AwardFails(a), ~CommitPoints(a)
    PROVE  AwardsFit'
<1>1. marked' = marked /\ entry' = entry
  BY DEF AwardStep, BookPoints, SumPoints, ReadBadges, GrantForActions, GrantForPoints,
         AwardFails
<1>2. /\ AwardGoesOn(a)
      /\ \/ awarding'[a].reason = "none"
         \/ /\ awarding'[a].reason = awarding[a].reason
            /\ awarding[a].at \in {"book", "sum"} \/ awarding'[a].at \in {"actions", "points"}
  <2>1. awarding[a] \in AwardCall /\ Points \in Nat /\ badges \subseteq Reasons \cup {"points"}
    BY PointsAreFinite DEF PointsTyped
  <2>2. CASE BookPoints(a)
    BY <2>2, AwardIsBooked DEF BookPoints
  <2>3. CASE SumPoints(a)
    <3> DEFINE n == Points + awarding[a].worth
               row == [awarding[a] EXCEPT !.at = "commit", !.total = n]
    <3>1. n \in Nat
      BY <2>1 DEF AwardCall
    <3>2. row \in AwardCall /\ row.reason = awarding[a].reason
      BY <2>1, <3>1 DEF AwardCall, AwardSteps
    <3>3. awarding' = [awarding EXCEPT ![a] = row]
      BY <2>1, <2>3 DEF SumPoints, PointsTyped
    <3> HIDE DEF row
    <3> QED BY <2>3, <3>2, <3>3, AwardRow DEF SumPoints
  <2>4. CASE ReadBadges(a)
    <3> DEFINE row == [awarding[a] EXCEPT !.at = "actions", !.has = badges]
    <3>1. row \in AwardCall /\ row.reason = awarding[a].reason /\ row.at = "actions"
      BY <2>1 DEF AwardCall, AwardSteps
    <3>2. awarding' = [awarding EXCEPT ![a] = row]
      BY <2>1, <2>4 DEF ReadBadges, PointsTyped
    <3> HIDE DEF row
    <3> QED BY <3>1, <3>2, AwardRow
  <2>5. CASE GrantForActions(a)
    BY <2>5, AwardMovesTo DEF GrantForActions, AwardSteps
  <2>6. CASE GrantForPoints(a) \/ AwardFails(a)
    BY <2>6, AwardReturns DEF GrantForPoints, AwardFails, NotAwarding
  <2> QED BY <2>2, <2>3, <2>4, <2>5, <2>6 DEF AwardStep
<1>3. ASSUME NEW r \in Reasons PROVE RoomLeft(r)' /\ OnceLeft(r)'
  <2>0. r # "none"
    BY ReasonsAssumption
  <2>1. CallsFor(r)' \subseteq CallsFor(r)
    BY <1>2, <2>0 DEF CallsFor, AwardGoesOn
  <2>2. Unbooked(r)' \subseteq Unbooked(r)
    <3> SUFFICES ASSUME NEW b \in PointAwards, b \in Unbooked(r)' PROVE b \in Unbooked(r)
      BY DEF Unbooked, CallsFor
    <3>1. CASE b # a
      BY <3>1, <1>2 DEF Unbooked, CallsFor, AwardGoesOn
    <3>2. CASE b = a
      <4>1. awarding'[a].reason = r /\ awarding'[a].at \in {"book", "sum", "commit"}
        BY <3>2 DEF Unbooked, CallsFor
      <4>2. awarding[a].reason = r /\ awarding[a].at \in {"book", "sum"}
        BY <1>2, <2>0, <4>1
      <4> QED BY <3>2, <4>2 DEF Unbooked, CallsFor
    <3> QED BY <3>1, <3>2
  <2> QED BY <1>1, <2>1, <2>2, RoomStays DEF AwardsFit
<1> QED BY <1>3 DEF AwardsFit

LEMMA AwardsFitInit == GamificationInit => AwardsFit
<1> SUFFICES ASSUME GamificationInit, NEW r \in Reasons PROVE RoomLeft(r) /\ OnceLeft(r)
  BY DEF AwardsFit
<1>1. CallsFor(r) = {}
  BY ReasonsAssumption DEF GamificationInit, CallsFor, NotAwarding
<1>2. Unbooked(r) = {}
  BY <1>1 DEF Unbooked
<1>3. entry[r].actions = 0 /\ MaxPerReason \in Nat
  BY PointBoundsAssumption DEF GamificationInit
<1>4. RoomLeft(r)
  BY <1>1, <1>2, <1>3, FS_EmptySet DEF RoomLeft
<1> QED BY <1>2, <1>3, <1>4 DEF OnceLeft

LEMMA AwardsInvariant == GamificationSpec => [](PointsTyped /\ AwardsFit)
<1>1. PointsTyped /\ AwardsFit /\ [GamificationNext]_pointVars => (PointsTyped /\ AwardsFit)'
  <2> SUFFICES ASSUME PointsTyped, AwardsFit, [GamificationNext]_pointVars
               PROVE  PointsTyped' /\ AwardsFit'
    OBVIOUS
  <2>1. CASE UNCHANGED pointVars
    <3>1. UNCHANGED <<entry, marked, badges, awarding, overlapped, pointFaults>>
      BY <2>1 DEF pointVars
    <3>2. \A r : CallsFor(r)' = CallsFor(r) /\ Unbooked(r)' = Unbooked(r)
      BY <3>1 DEF CallsFor, Unbooked
    <3>3. AwardsFit'
      BY <3>1, <3>2 DEF AwardsFit, RoomLeft, OnceLeft
    <3> QED BY <3>1, <3>3 DEF PointsTyped, CallsMakeSense
  <2>2. ASSUME NEW a \in PointAwards, NEW r \in Reasons, BeginAward(a, r)
        PROVE  PointsTyped' /\ AwardsFit'
    BY <2>2, AwardTypedStep, AwardsFitBegin
  <2>3. ASSUME NEW a \in PointAwards, AwardStep(a) \/ AwardFails(a)
        PROVE  PointsTyped' /\ AwardsFit'
    BY <2>3, AwardTypedStep, AwardsFitCommit, AwardsFitOther
  <2> QED BY <2>1, <2>2, <2>3 DEF GamificationNext
<1> QED BY <1>1, PointsTypedInit, AwardsFitInit, PTL DEF GamificationSpec

\* Every row, key, badge and call stays what it may be: no reason is counted
\* more often than it happens, one that is awarded once in a session at most
\* once, however many calls of it meet (gamification.service.ts:248-354).
THEOREM PointTypes == GamificationSpec => []GamificationTypeOK
<1>1. PointsTyped /\ AwardsFit => GamificationTypeOK
  <2> SUFFICES ASSUME PointsTyped, AwardsFit PROVE GamificationTypeOK
    OBVIOUS
  <2>1. ASSUME NEW r \in Reasons PROVE entry[r].actions \in 0..MaxPerReason
    <3>1. entry[r].actions \in Nat /\ MaxPerReason \in Nat
      BY PointBoundsAssumption DEF PointsTyped, EntryRow
    <3>2. Cardinality(Unbooked(r)) \in Nat
      BY UnbookedFinite DEF AwardsFit
    <3>3. entry[r].actions + Cardinality(Unbooked(r)) <= MaxPerReason
      BY DEF AwardsFit, RoomLeft
    <3> QED BY <3>1, <3>2, <3>3
  <2>2. entry \in [Reasons -> [points : Nat, actions : 0..MaxPerReason]]
    BY <2>1 DEF PointsTyped, EntryRow
  <2>3. \A r \in OncePerSession : entry[r].actions <= 1
    BY ReasonsAssumption DEF AwardsFit, OnceLeft
  <2> QED BY <2>2, <2>3 DEF PointsTyped, AwardCall, AwardSteps, GamificationTypeOK
<1> QED BY <1>1, AwardsInvariant, PTL
-----------------------------------------------------------------------------
(* Points and badges: what was earned is granted *)

\* A call that is past the transaction has read badges that were granted, and
\* keeps them.
BadgesRead ==
    \A a \in PointAwards :
        awarding[a].at \in {"actions", "points"} => awarding[a].has \subseteq badges

\* While no two transactions missed each other, one at most holds a sum, and it
\* is the sum that its commit makes true.
SumsAreTrue ==
    ~overlapped =>
        \A a \in PointAwards :
            awarding[a].at = "commit" =>
                /\ awarding[a].total = Points + awarding[a].worth
                /\ \A b \in PointAwards : awarding[b].at = "commit" => b = a

\* Whoever made it enough, or a later call of the reason, has yet to look.
BadgeDue(r) ==
    HasEnough(r) =>
        \/ r \in badges
        \/ \E a \in PointAwards :
              awarding[a].reason = r /\ awarding[a].at \in {"badges", "actions"}

PointsBadgeDue ==
    ~overlapped /\ Points >= Milestone =>
        \/ "points" \in badges
        \/ \E a \in PointAwards :
              /\ awarding[a].at \in {"badges", "actions", "points"}
              /\ awarding[a].total >= Milestone

BadgesDue == pointFaults = 0 => PointsBadgeDue /\ \A r \in Reasons : BadgeDue(r)

BadgeInv == BadgesRead /\ SumsAreTrue /\ BadgesDue

\* A step before the badges are looked at, that commits nothing and takes no
\* sum.
LEMMA BadgesStay ==
    ASSUME PointsTyped, BadgeInv, NEW a \in PointAwards, AwardGoesOn(a),
           UNCHANGED <<entry, badges, overlapped, pointFaults>>,
           awarding[a].at \in {"idle", "book", "sum"},
           awarding'[a].at \in {"book", "sum"}
    PROVE  BadgeInv'
<1>1. Points' = Points
  BY DEF Points, AllPoints
<1>2. \A b \in PointAwards :
        awarding[b].at \notin {"idle", "book", "sum"} => awarding'[b] = awarding[b]
  BY DEF AwardGoesOn
<1>3. \A b \in PointAwards :
        awarding'[b].at \notin {"idle", "book", "sum"} => awarding'[b] = awarding[b]
  BY DEF AwardGoesOn
<1>4. BadgesRead'
  BY <1>3 DEF BadgeInv, BadgesRead
<1>5. SumsAreTrue'
  BY <1>1, <1>3 DEF BadgeInv, SumsAreTrue
<1>6. \A r \in Reasons : BadgeDue(r) => BadgeDue(r)'
  BY <1>2 DEF BadgeDue, HasEnough
<1>7. PointsBadgeDue => PointsBadgeDue'
  BY <1>1, <1>2 DEF PointsBadgeDue
<1> QED BY <1>4, <1>5, <1>6, <1>7 DEF BadgeInv, BadgesDue

LEMMA SumKeepsBadges ==
    ASSUME PointsTyped, BadgeInv, NEW a \in PointAwards, SumPoints(a)
    PROVE  BadgeInv'
<1>1. /\ awarding[a].at = "sum" /\ awarding[a] \in AwardCall /\ Points \in Nat
      /\ UNCHANGED <<entry, badges, pointFaults>>
  BY PointsAreFinite DEF PointsTyped, SumPoints
<1> DEFINE n == Points + awarding[a].worth
           row == [awarding[a] EXCEPT !.at = "commit", !.total = n]
<1>2. n \in Nat
  BY <1>1 DEF AwardCall
<1>3. row \in AwardCall /\ row.at = "commit" /\ row.total = n
      /\ row.worth = awarding[a].worth
  BY <1>1, <1>2 DEF AwardCall, AwardSteps
<1>4. awarding' = [awarding EXCEPT ![a] = row]
  BY <1>1 DEF SumPoints, PointsTyped
<1>5. AwardGoesOn(a) /\ awarding'[a] = row
  BY <1>3, <1>4, AwardRow
<1> HIDE DEF row
<1>6. Points' = Points
  BY <1>1 DEF Points, AllPoints
<1>7. BadgesRead'
  BY <1>1, <1>3, <1>5 DEF BadgeInv, BadgesRead, AwardGoesOn
<1>8. SumsAreTrue'
  <2> SUFFICES ASSUME ~overlapped' PROVE SumsAreTrue'
    BY DEF SumsAreTrue
  <2>1. ~overlapped /\ \A r \in Reasons : InTransaction(r) \ {a} = {}
    BY DEF SumPoints
  <2>2. \A b \in PointAwards \ {a} : awarding[b].at # "commit"
    <3> SUFFICES ASSUME NEW b \in PointAwards \ {a}, awarding[b].at = "commit" PROVE FALSE
      OBVIOUS
    <3>1. awarding[b].reason \in Reasons
      BY DEF PointsTyped, CallsMakeSense, AwardCall
    <3>2. b \in InTransaction(awarding[b].reason) \ {a}
      BY DEF InTransaction, Reason
    <3> QED BY <2>1, <3>1, <3>2
  <2>3. \A b \in PointAwards : awarding'[b].at = "commit" => b = a
    BY <1>5, <2>2 DEF AwardGoesOn
  <2>4. awarding'[a].total = Points' + awarding'[a].worth
    BY <1>3, <1>5, <1>6
  <2> QED BY <2>3, <2>4 DEF SumsAreTrue
<1>9. ASSUME NEW b \in PointAwards, awarding[b].at \in {"badges", "actions", "points"}
      PROVE  awarding'[b] = awarding[b]
  BY <1>1, <1>5, <1>9 DEF AwardGoesOn
<1>10. \A r \in Reasons : BadgeDue(r) => BadgeDue(r)'
  BY <1>1, <1>9 DEF BadgeDue, HasEnough
<1>11. PointsBadgeDue => PointsBadgeDue'
  <2>1. ~overlapped' => ~overlapped
    BY DEF SumPoints
  <2> QED BY <1>1, <1>6, <1>9, <2>1 DEF PointsBadgeDue
<1> QED BY <1>1, <1>7, <1>8, <1>10, <1>11 DEF BadgeInv, BadgesDue

LEMMA CommitKeepsBadges ==
    ASSUME PointsTyped, BadgeInv, NEW a \in PointAwards, CommitPoints(a)
    PROVE  BadgeInv'
<1> PICK r, w : r = awarding[a].reason /\ w = awarding[a].worth
  OBVIOUS
<1>1. /\ awarding[a].at = "commit" /\ awarding[a].reason = r /\ awarding[a].worth = w
      /\ r \in Reasons /\ w \in Nat \ {0}
      /\ UNCHANGED <<marked, badges, overlapped, pointFaults>>
  BY DEF CommitPoints, PointsTyped, CallsMakeSense, AwardCall
<1> DEFINE row == [points |-> entry[r].points + w, actions |-> entry[r].actions + 1]
<1>2. entry \in [Reasons -> EntryRow] /\ entry[r].points \in Nat /\ entry[r].actions \in Nat
  BY <1>1 DEF PointsTyped, EntryRow
<1>3. row \in EntryRow
  BY <1>1, <1>2 DEF EntryRow
<1>4. entry' = [entry EXCEPT ![r] = row]
  <2>1. entry' = [entry EXCEPT ![r].points = @ + w, ![r].actions = @ + 1]
    BY <1>1 DEF CommitPoints, Reason
  <2> QED BY <1>1, <1>2, <2>1 DEF EntryRow
<1>5. Points' = Points + w
  BY <1>1, <1>2, <1>3, <1>4, PointsAreAdded
<1>6. /\ AwardGoesOn(a) /\ awarding'[a].at = "badges" /\ awarding'[a].reason = r
      /\ awarding'[a].total = awarding[a].total
  BY <1>1, AwardMovesTo DEF CommitPoints, AwardSteps
<1>7. BadgesRead'
  BY <1>1, <1>6 DEF BadgeInv, BadgesRead, AwardGoesOn
<1>8. SumsAreTrue'
  BY <1>1, <1>6 DEF BadgeInv, SumsAreTrue, AwardGoesOn
<1>9. ASSUME NEW b \in PointAwards, awarding[b].at \in {"badges", "actions", "points"}
      PROVE  awarding'[b] = awarding[b]
  BY <1>1, <1>6, <1>9 DEF AwardGoesOn
<1>10. ASSUME NEW s \in Reasons, BadgeDue(s) PROVE BadgeDue(s)'
  <2>1. CASE s = r
    BY <1>6, <2>1 DEF BadgeDue
  <2>2. CASE s # r
    <3>1. entry'[s] = entry[s]
      BY <1>2, <1>4, <2>2
    <3> QED BY <1>1, <1>9, <1>10, <3>1 DEF BadgeDue, HasEnough
  <2> QED BY <2>1, <2>2
<1>11. ASSUME PointsBadgeDue PROVE PointsBadgeDue'
  <2> SUFFICES ASSUME ~overlapped, Points' >= Milestone PROVE PointsBadgeDue'
    BY <1>1 DEF PointsBadgeDue
  <2>1. awarding'[a].total = Points'
    BY <1>1, <1>5, <1>6 DEF BadgeInv, SumsAreTrue
  <2> QED BY <1>6, <2>1 DEF PointsBadgeDue
<1> QED BY <1>1, <1>7, <1>8, <1>10, <1>11 DEF BadgeInv, BadgesDue

LEMMA ReadKeepsBadges ==
    ASSUME PointsTyped, BadgeInv, NEW a \in PointAwards, ReadBadges(a)
    PROVE  BadgeInv'
<1> DEFINE row == [awarding[a] EXCEPT !.at = "actions", !.has = badges]
<1>1. awarding[a] \in AwardCall /\ awarding[a].at = "badges"
      /\ UNCHANGED <<entry, badges, overlapped, pointFaults>>
  BY DEF PointsTyped, ReadBadges
<1>2. /\ row \in AwardCall /\ row.at = "actions" /\ row.has = badges
      /\ row.reason = awarding[a].reason /\ row.total = awarding[a].total
  BY <1>1 DEF PointsTyped, AwardCall, AwardSteps
<1>3. awarding' = [awarding EXCEPT ![a] = row]
  BY <1>1 DEF ReadBadges, PointsTyped
<1>4. AwardGoesOn(a) /\ awarding'[a] = row
  BY <1>2, <1>3, AwardRow
<1> HIDE DEF row
<1>5. Points' = Points
  BY <1>1 DEF Points, AllPoints
<1>6. BadgesRead'
  BY <1>1, <1>2, <1>4 DEF BadgeInv, BadgesRead, AwardGoesOn
<1>7. SumsAreTrue'
  BY <1>1, <1>2, <1>4, <1>5 DEF BadgeInv, SumsAreTrue, AwardGoesOn
<1>8. ASSUME NEW b \in PointAwards
      PROVE  /\ awarding'[b].reason = awarding[b].reason
             /\ awarding'[b].total = awarding[b].total
             /\ awarding'[b].at = awarding[b].at \/ (b = a /\ awarding'[b].at = "actions")
  BY <1>2, <1>4 DEF AwardGoesOn
<1>9. \A r \in Reasons : BadgeDue(r) => BadgeDue(r)'
  BY <1>1, <1>8 DEF BadgeDue, HasEnough
<1>10. PointsBadgeDue => PointsBadgeDue'
  BY <1>1, <1>5, <1>8 DEF PointsBadgeDue
<1> QED BY <1>1, <1>6, <1>7, <1>9, <1>10 DEF BadgeInv, BadgesDue
LEMMA ActionsKeepBadges ==
    ASSUME PointsTyped, BadgeInv, NEW a \in PointAwards, GrantForActions(a)
    PROVE  BadgeInv'
<1>1. /\ awarding[a].at = "actions" /\ Awards(a, "points")
      /\ UNCHANGED <<entry, marked, overlapped, pointFaults>>
  BY DEF GrantForActions
<1>2. /\ AwardGoesOn(a) /\ awarding'[a].at = "points"
      /\ awarding'[a].reason = awarding[a].reason
      /\ awarding'[a].total = awarding[a].total
      /\ awarding'[a].has = awarding[a].has
  BY <1>1, AwardMovesTo DEF AwardSteps
<1>3. Points' = Points /\ badges \subseteq badges'
  BY <1>1 DEF Points, AllPoints, GrantForActions
<1>4. BadgesRead'
  BY <1>1, <1>2, <1>3 DEF BadgeInv, BadgesRead, AwardGoesOn
<1>5. SumsAreTrue'
  BY <1>1, <1>2, <1>3 DEF BadgeInv, SumsAreTrue, AwardGoesOn
<1>6. ASSUME NEW r \in Reasons, BadgeDue(r) PROVE BadgeDue(r)'
  <2>1. CASE r = awarding[a].reason
    <3> SUFFICES ASSUME HasEnough(r)' PROVE r \in badges'
      BY DEF BadgeDue
    <3>1. HasEnough(r)
      BY <1>1 DEF HasEnough
    <3>2. r \in awarding[a].has => r \in badges
      BY <1>1 DEF BadgeInv, BadgesRead
    <3> QED BY <1>3, <2>1, <3>1, <3>2 DEF GrantForActions, Reason
  <2>2. CASE r # awarding[a].reason
    BY <1>1, <1>2, <1>3, <1>6, <2>2 DEF BadgeDue, HasEnough, AwardGoesOn
  <2> QED BY <2>1, <2>2
<1>7. PointsBadgeDue => PointsBadgeDue'
  <2>1. \A b \in PointAwards :
          /\ awarding'[b].total = awarding[b].total
          /\ awarding[b].at \in {"badges", "actions", "points"}
                => awarding'[b].at \in {"badges", "actions", "points"}
    BY <1>2 DEF AwardGoesOn
  <2> QED BY <1>1, <1>3, <2>1 DEF PointsBadgeDue
<1> QED BY <1>1, <1>4, <1>5, <1>6, <1>7 DEF BadgeInv, BadgesDue

LEMMA PointsKeepBadges ==
    ASSUME PointsTyped, BadgeInv, NEW a \in PointAwards, GrantForPoints(a)
    PROVE  BadgeInv'
<1>1. /\ awarding[a].at = "points" /\ Returns(a)
      /\ UNCHANGED <<entry, marked, overlapped, pointFaults>>
  BY DEF GrantForPoints
<1>2. AwardGoesOn(a) /\ awarding'[a].at = "idle"
  BY <1>1, AwardReturns DEF NotAwarding
<1>3. Points' = Points /\ badges \subseteq badges'
  BY <1>1 DEF Points, AllPoints, GrantForPoints
<1>4. BadgesRead'
  BY <1>2, <1>3 DEF BadgeInv, BadgesRead, AwardGoesOn
<1>5. SumsAreTrue'
  BY <1>1, <1>2, <1>3 DEF BadgeInv, SumsAreTrue, AwardGoesOn
<1>6. \A r \in Reasons : BadgeDue(r) => BadgeDue(r)'
  BY <1>1, <1>2, <1>3 DEF BadgeDue, HasEnough, AwardGoesOn
<1>7. PointsBadgeDue => PointsBadgeDue'
  <2> SUFFICES ASSUME PointsBadgeDue, ~overlapped, Points >= Milestone
               PROVE  PointsBadgeDue'
    BY <1>1, <1>3 DEF PointsBadgeDue
  <2>1. CASE awarding[a].total >= Milestone
    <3>1. "points" \in awarding[a].has => "points" \in badges
      BY <1>1 DEF BadgeInv, BadgesRead
    <3>2. "points" \in badges'
      BY <1>3, <2>1, <3>1 DEF GrantForPoints
    <3> QED BY <3>2 DEF PointsBadgeDue
  <2>2. CASE ~(awarding[a].total >= Milestone)
    BY <1>2, <1>3, <2>2 DEF PointsBadgeDue, AwardGoesOn
  <2> QED BY <2>1, <2>2
<1> QED BY <1>1, <1>4, <1>5, <1>6, <1>7 DEF BadgeInv, BadgesDue

LEMMA FailureKeepsBadges ==
    ASSUME PointsTyped, BadgeInv, NEW a \in PointAwards, AwardFails(a)
    PROVE  BadgeInv'
<1>1. Returns(a) /\ UNCHANGED <<entry, marked, badges, overlapped>>
      /\ pointFaults' = pointFaults + 1
  BY DEF AwardFails
<1>2. AwardGoesOn(a) /\ awarding'[a].at = "idle"
  BY <1>1, AwardReturns DEF NotAwarding
<1>3. Points' = Points
  BY <1>1 DEF Points, AllPoints
<1>4. BadgesRead'
  BY <1>1, <1>2 DEF BadgeInv, BadgesRead, AwardGoesOn
<1>5. SumsAreTrue'
  BY <1>1, <1>2, <1>3 DEF BadgeInv, SumsAreTrue, AwardGoesOn
<1>6. pointFaults' # 0
  BY <1>1, PointBoundsAssumption DEF PointsTyped
<1> QED BY <1>4, <1>5, <1>6 DEF BadgeInv, BadgesDue

LEMMA BadgesUnchanged ==
    ASSUME BadgeInv, UNCHANGED <<entry, badges, awarding, overlapped, pointFaults>>
    PROVE  BadgeInv'
<1>1. Points' = Points /\ \A r : HasEnough(r)' = HasEnough(r)
  BY DEF Points, AllPoints, HasEnough
<1>2. BadgesRead' /\ SumsAreTrue'
  BY <1>1 DEF BadgeInv, BadgesRead, SumsAreTrue
<1>3. BadgesDue'
  BY <1>1 DEF BadgeInv, BadgesDue, BadgeDue, PointsBadgeDue
<1> QED BY <1>2, <1>3 DEF BadgeInv

LEMMA BadgeInvStep ==
    ASSUME PointsTyped, BadgeInv, [GamificationNext]_pointVars
    PROVE  BadgeInv'
<1>1. CASE UNCHANGED pointVars
  BY <1>1, BadgesUnchanged DEF pointVars
<1>2. ASSUME NEW a \in PointAwards, NEW r \in Reasons, BeginAward(a, r) PROVE BadgeInv'
  <2>1. awarding[a].at = "idle" /\ UNCHANGED <<entry, badges, overlapped, pointFaults>>
    BY <1>2 DEF BeginAward
  <2>2. CASE awarding' = awarding
    BY <2>1, <2>2, BadgesUnchanged
  <2>3. CASE AwardGoesOn(a) /\ awarding'[a].at = "book"
    BY <2>1, <2>3, BadgesStay
  <2> QED BY <1>2, <2>2, <2>3, AwardBegins
<1>3. ASSUME NEW a \in PointAwards, BookPoints(a) PROVE BadgeInv'
  <2>1. awarding[a].at = "book" /\ UNCHANGED <<entry, badges, overlapped, pointFaults>>
    BY <1>3 DEF BookPoints
  <2>2. AwardGoesOn(a) /\ awarding'[a].at = "sum"
    BY <1>3, AwardIsBooked
  <2> QED BY <2>1, <2>2, BadgesStay
<1>4. ASSUME NEW a \in PointAwards, AwardStep(a) \/ AwardFails(a) PROVE BadgeInv'
  BY <1>3, <1>4, SumKeepsBadges, CommitKeepsBadges, ReadKeepsBadges, ActionsKeepBadges,
     PointsKeepBadges, FailureKeepsBadges DEF AwardStep
<1> QED BY <1>1, <1>2, <1>4 DEF GamificationNext

LEMMA BadgeInvInit == GamificationInit => BadgeInv
<1> SUFFICES ASSUME GamificationInit PROVE BadgeInv
  OBVIOUS
<1>1. \A a \in PointAwards : awarding[a].at = "idle"
  BY DEF GamificationInit, NotAwarding
<1>2. AllPoints = {}
  <2>1. \A r \in Reasons : entry[r].points = 0
    BY DEF GamificationInit
  <2>2. 1 .. 0 = {}
    OBVIOUS
  <2> QED BY <2>1, <2>2 DEF AllPoints
<1>3. Points = 0
  BY <1>2, FS_EmptySet DEF Points
<1>4. \A r \in Reasons : ~HasEnough(r)
  BY PointBoundsAssumption DEF GamificationInit, HasEnough
<1>5. ~(Points >= Milestone)
  BY <1>3, PointBoundsAssumption
<1> QED BY <1>1, <1>4, <1>5 DEF BadgeInv, BadgesRead, SumsAreTrue, BadgesDue, BadgeDue,
                                PointsBadgeDue

\* When nothing is being awarded and no call was cut short, the user has every
\* badge that the actions earned, and the badge for points unless two
\* transactions did not see each other's points, however calls overtake each
\* other between the transaction and the look at the badges
\* (gamification.service.ts:316-341, 642-735).
THEOREM BadgesAreGranted == GamificationSpec => []BadgesFollowActions
<1>1. PointsTyped /\ BadgeInv /\ [GamificationNext]_pointVars => BadgeInv'
  BY BadgeInvStep
<1>2. BadgeInv => BadgesFollowActions
  BY DEF BadgeInv, BadgesDue, BadgeDue, PointsBadgeDue, HasEnough, BadgesFollowActions
<1>3. GamificationSpec => []PointsTyped
  BY AwardsInvariant, PTL
<1> QED BY <1>1, <1>2, <1>3, BadgeInvInit, PTL DEF GamificationSpec
=============================================================================
