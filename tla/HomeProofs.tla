------------------------------ MODULE HomeProofs ------------------------------
(***************************************************************************)
(* Proofs about HomeViewController, for every set of images, every set of  *)
(* levels and every player.                                                *)
(***************************************************************************)
EXTENDS HomeViewController, SequenceTheorems, FiniteSetTheorems, TLAPS

(***************************************************************************)
(* Facts about the constants and the operators.                            *)
(***************************************************************************)
\* The number of cards of a level, of its lines and of its images.
LEMMA LevelFacts ==
  ASSUME NEW m \in GameModes
  PROVE  /\ chooseGameModes[m] \in Nat \ {0}
         /\ numberOfLinesNeedToPlaceCards(m) \in Nat
         /\ numberOfImagesToCreateCards(m) \in Nat
  <1>1. chooseGameModes[m] \in Nat \ {0}
    BY LevelAssumption
  <1>2. CardsPerLine \in Nat \ {0}
    BY LevelAssumption
  <1> QED
    BY <1>1, <1>2 DEF numberOfLinesNeedToPlaceCards, numberOfImagesToCreateCards

\* A deal puts an image on every card of its level.
LEMMA DealsAreFunctions ==
  ASSUME NEW m, NEW deal \in Deals(m)
  PROVE  deal \in [Numbers(m) -> cardImages]
  BY DEF Deals

\* Changing the elements of a sequence one by one keeps it a sequence.
LEMMA MappedSequence ==
  ASSUME NEW S, NEW T, NEW s \in Seq(S), NEW f, f \in [DOMAIN s -> T]
  PROVE  f \in Seq(T) /\ Len(f) = Len(s)
  <1>1. /\ Len(s) \in Nat
        /\ DOMAIN s = 1 .. Len(s)
    OBVIOUS
  <1>2. f \in [1 .. Len(s) -> T]
    BY <1>1
  <1>3. f \in Seq(T)
    BY <1>1, <1>2, SeqDef
  <1> QED
    BY <1>1, <1>2, <1>3

\* One of several blocks has run: their number stays a number.
LEMMA OneLessIsNat ==
  ASSUME NEW n \in Nat
  PROVE  OneLess(n) \in Nat
  BY DEF OneLess

----------------------------------------------------------------------------
(***************************************************************************)
(* Type correctness.                                                       *)
(***************************************************************************)
\* What a flip does to the opened cards: nothing, or one card more.
LEMMA flipCardFacts ==
  ASSUME NEW N, NEW card \in N,
         isFlipped \in [N -> BOOLEAN], inGameCards \in [N -> cardImages],
         flippedCardNumber \in Seq(N), imagesThatUserHasChosen \in Seq(cardImages),
         Len(flippedCardNumber) <= 2, flipCard(card)
  PROVE  /\ isFlipped' \in [N -> BOOLEAN]
         /\ flippedCardNumber' \in Seq(N)
         /\ imagesThatUserHasChosen' \in Seq(cardImages)
         /\ Len(flippedCardNumber') <= 2
         /\ \/ UNCHANGED <<isFlipped, flippedCardNumber, imagesThatUserHasChosen>>
            \/ /\ ~isFlipped[card] /\ Len(flippedCardNumber) < 2
               /\ isFlipped' = [isFlipped EXCEPT ![card] = TRUE]
               /\ flippedCardNumber' = Append(flippedCardNumber, card)
               /\ imagesThatUserHasChosen' = Append(imagesThatUserHasChosen, inGameCards[card])
  <1>1. CASE CanFlip(card)
    <2>1. /\ ~isFlipped[card] /\ Len(flippedCardNumber) < 2
          /\ isFlipped' = [isFlipped EXCEPT ![card] = TRUE]
          /\ flippedCardNumber' = Append(flippedCardNumber, card)
          /\ imagesThatUserHasChosen' = Append(imagesThatUserHasChosen, inGameCards[card])
      BY <1>1 DEF flipCard, CanFlip, countSelectedCards, saveUsersChoice
    <2>2. isFlipped' \in [N -> BOOLEAN] /\ inGameCards[card] \in cardImages
      BY <2>1
    <2>3. /\ Append(flippedCardNumber, card) \in Seq(N)
          /\ Len(Append(flippedCardNumber, card)) = Len(flippedCardNumber) + 1
      BY AppendProperties
    <2>4. Append(imagesThatUserHasChosen, inGameCards[card]) \in Seq(cardImages)
      BY <2>2, AppendProperties
    <2>5. Len(flippedCardNumber) \in Nat
      OBVIOUS
    <2>6. Len(flippedCardNumber') <= 2
      BY <2>1, <2>3, <2>5
    <2> QED
      BY <2>1, <2>2, <2>3, <2>4, <2>6
  <1>2. CASE ~CanFlip(card)
    BY <1>2 DEF flipCard
  <1> QED
    BY <1>1, <1>2

\* Two opened cards are cards of the board.
LEMMA chosenFacts ==
  ASSUME NEW N, flippedCardNumber \in Seq(N), countSelectedCards = 2
  PROVE  flippedCardNumber[1] \in N /\ flippedCardNumber[2] \in N /\ Chosen \subseteq N
  <1>1. 1 \in 1 .. Len(flippedCardNumber) /\ 2 \in 1 .. Len(flippedCardNumber)
    BY DEF countSelectedCards
  <1>2. flippedCardNumber[1] \in N /\ flippedCardNumber[2] \in N
    BY <1>1, ElementOfSeq
  <1> QED
    BY <1>2 DEF Chosen

\* What removing two open cards does: both are on the board.
LEMMA removalFacts ==
  ASSUME TypeOK, removeCardsFromTheBoard, countSelectedCards = 2
  PROVE  /\ faded' = faded \cup Chosen
         /\ numberOfClearedCards' = numberOfClearedCards + 1
         /\ flippedCardNumber' = <<>>
         /\ imagesThatUserHasChosen' = <<>>
  <1>1. Chosen \subseteq Numbers(difficulty) /\ DOMAIN isFlipped = Numbers(difficulty)
    BY chosenFacts DEF TypeOK
  <1>2. Chosen \cap DOMAIN isFlipped = Chosen
    BY <1>1
  <1> QED
    BY <1>2 DEF removeCardsFromTheBoard, deleteUsersChoice

\* updateTurns writes a screen and a number.
LEMMA updateTurnsType ==
  ASSUME NEW shown \in Screens, updateTurns(shown), userHasTried' \in Nat
  PROVE  presented' \in Screens /\ score' \in Nat
  BY DEF updateTurns, present, Screens, Alerts, Sheets

\* A check turns one of the jobs that wait for it into one with a result.
LEMMA checkBlockJobs ==
  ASSUME checks \in Nat, results \in Seq(Job), checkBlock
  PROVE  /\ checks' \in Nat
         /\ results' \in Seq(Job)
         /\ results' # <<>>
  <1> DEFINE job == [right |-> AnswerIsRight, checksAhead |-> checks - 1]
             older == [j \in DOMAIN results |->
                         [results[j] EXCEPT !.checksAhead = OneLess(@)]]
  <1>1. checks > 0 /\ checks - 1 \in Nat
    BY DEF checkBlock
  <1>2. AnswerIsRight \in BOOLEAN
    BY DEF AnswerIsRight
  <1>3. job \in Job
    BY <1>1, <1>2 DEF Job
  <1>4. ASSUME NEW j \in DOMAIN results
        PROVE  [results[j] EXCEPT !.checksAhead = OneLess(@)] \in Job
    <2>1. results[j] \in Job
      OBVIOUS
    <2>2. OneLess(results[j].checksAhead) \in Nat
      BY <2>1, OneLessIsNat DEF Job
    <2> QED
      BY <2>1, <2>2 DEF Job
  <1>5. older \in [DOMAIN results -> Job]
    BY <1>4
  <1>6. older \in Seq(Job)
    BY <1>5, MappedSequence
  <1>7. results' = Append(older, job) /\ checks' = checks - 1
    BY DEF checkBlock
  <1> HIDE DEF older, job
  <1> QED
    BY <1>1, <1>3, <1>6, <1>7, AppendProperties

\* A resolution leaves the face-down timers in place.
LEMMA resolveBlockTimers ==
  ASSUME faceDownTimers \in Seq(Nat), resolveBlock
  PROVE  faceDownTimers' \in Seq(Nat) /\ Len(faceDownTimers') = Len(faceDownTimers)
  <1>1. ASSUME NEW t \in DOMAIN faceDownTimers
        PROVE  OneLess(faceDownTimers[t]) \in Nat
    <2>1. t \in 1 .. Len(faceDownTimers)
      OBVIOUS
    <2>2. faceDownTimers[t] \in Nat
      BY <2>1, ElementOfSeq
    <2> QED
      BY <2>2, OneLessIsNat
  <1>2. faceDownTimers' \in [DOMAIN faceDownTimers -> Nat]
    BY <1>1 DEF resolveBlock
  <1> QED
    BY <1>2, MappedSequence

\* A restart leaves a board of the chosen level.
LEMMA restartGameType ==
  ASSUME TypeOK, NEW mode \in GameModes, restartGame(mode)
  PROVE  TypeOK'
  <1>1. presented' \in Screens /\ score' \in Nat
    <2>1. "nothing" \in Screens /\ userHasTried' \in Nat
      BY DEF restartGame, initailizeCardGame, newBrain, Screens
    <2> QED
      BY <2>1, updateTurnsType DEF restartGame
  <1>2. faceDownTimers' \in Seq(Nat)
    <2>1. pendingJobs \in Nat
      BY DEF TypeOK, pendingJobs
    <2> QED
      BY <2>1 DEF TypeOK, restartGame, initailizeCardGame
  <1>3. /\ difficulty' = mode
        /\ inGameCards' \in Deals(mode)
        /\ isFlipped' \in [Numbers(mode) -> BOOLEAN]
    BY DEF restartGame, initailizeCardGame, newBrain, newCards
  <1> QED
    BY <1>1, <1>2, <1>3 DEF TypeOK, restartGame, configureUI, initailizeCardGame, newBrain, newCards

\* Every step of Next keeps TypeOK.
LEMMA TypeStep == TypeOK /\ [Next]_vars => TypeOK'
  <1> SUFFICES ASSUME TypeOK, [Next]_vars
               PROVE  TypeOK'
    OBVIOUS
  <1>0. /\ inGameCards \in [Numbers(difficulty) -> cardImages]
        /\ DOMAIN inGameCards = Numbers(difficulty)
        /\ DOMAIN isFlipped = Numbers(difficulty)
    BY DealsAreFunctions DEF TypeOK
  <1>1. ASSUME NEW card \in DOMAIN inGameCards, cardSelected(card)
        PROVE  TypeOK'
    <2>1. card \in Numbers(difficulty) /\ inGameCards[card] \in cardImages
      BY <1>0
    <2>2. /\ isFlipped' \in [Numbers(difficulty) -> BOOLEAN]
          /\ flippedCardNumber' \in Seq(Numbers(difficulty))
          /\ imagesThatUserHasChosen' \in Seq(cardImages)
          /\ Len(flippedCardNumber') <= 2
      BY <1>0, <1>1, <2>1, flipCardFacts DEF TypeOK, cardSelected
    <2>3. checks' \in Nat
      BY <1>1 DEF TypeOK, cardSelected
    <2> QED
      BY <1>1, <2>2, <2>3 DEF TypeOK, cardSelected, flipCard, ui, layout
  <1>2. CASE checkBlock
    <2>1. userHasTried' \in Nat
      BY <1>2 DEF TypeOK, checkBlock, checkAnswer
    <2>2. presented' \in Screens /\ score' \in Nat
      BY <1>2, <2>1, updateTurnsType DEF TypeOK, checkBlock
    <2>3. results' \in Seq(Job) /\ checks' \in Nat
      BY <1>2, checkBlockJobs DEF TypeOK
    <2> QED
      BY <1>2, <2>1, <2>2, <2>3 DEF TypeOK, checkBlock, checkAnswer, layout
  <1>3. CASE resolveBlock
    <2>1. /\ isFlipped' \in [Numbers(difficulty) -> BOOLEAN]
          /\ faded' \subseteq Numbers(difficulty)
          /\ flippedCardNumber' \in Seq(Numbers(difficulty))
          /\ imagesThatUserHasChosen' \in Seq(cardImages)
          /\ Len(flippedCardNumber') <= 2
          /\ numberOfClearedCards' \in Nat
      <3>1. CASE removeCardsFromTheBoard
        <4>1. CASE countSelectedCards = 2
          <5>1. Chosen \subseteq Numbers(difficulty)
            BY <4>1, chosenFacts DEF TypeOK
          <5>2. faded' \subseteq Numbers(difficulty) /\ numberOfClearedCards' \in Nat
            BY <3>1, <4>1, <5>1, removalFacts DEF TypeOK
          <5>3. flippedCardNumber' = <<>> /\ imagesThatUserHasChosen' = <<>>
            BY <3>1, <4>1, removalFacts
          <5> QED
            BY <3>1, <5>2, <5>3 DEF TypeOK, removeCardsFromTheBoard
        <4>2. CASE countSelectedCards # 2
          BY <3>1, <4>2 DEF TypeOK, removeCardsFromTheBoard
        <4> QED
          BY <4>1, <4>2
      <3>2. CASE unflipCard
        <4>1. CASE countSelectedCards = 2
          <5>1. isFlipped' \in [Numbers(difficulty) -> BOOLEAN]
            BY <1>0, <3>2, <4>1 DEF TypeOK, unflipCard
          <5>2. flippedCardNumber' = <<>> /\ imagesThatUserHasChosen' = <<>>
            BY <3>2, <4>1 DEF unflipCard, deleteUsersChoice
          <5> QED
            BY <3>2, <5>1, <5>2 DEF TypeOK, unflipCard
        <4>2. CASE countSelectedCards # 2
          BY <3>2, <4>2 DEF TypeOK, unflipCard
        <4> QED
          BY <4>1, <4>2
      <3> QED
        BY <1>3, <3>1, <3>2 DEF resolveBlock
    <2>2. /\ UNCHANGED <<difficulty, inGameCards, userHasTried>>
      BY <1>3 DEF resolveBlock, removeCardsFromTheBoard, unflipCard
    <2>3. presented' \in Screens /\ score' \in Nat
      BY <1>3, <2>2, updateTurnsType DEF TypeOK, resolveBlock
    <2>4. results' \in Seq(Job)
      BY <1>3 DEF TypeOK, resolveBlock
    <2>5. faceDownTimers' \in Seq(Nat)
      BY <1>3, resolveBlockTimers DEF TypeOK
    <2> QED
      BY <1>3, <2>1, <2>2, <2>3, <2>4, <2>5 DEF TypeOK, resolveBlock, layout
  <1>4. CASE unflipAllCards
    <2>1. isFlipped' \in [Numbers(difficulty) -> BOOLEAN] /\ faceDownTimers' \in Seq(Nat)
      BY <1>0, <1>4 DEF TypeOK, unflipAllCards
    <2> QED
      BY <1>4, <2>1 DEF TypeOK, unflipAllCards, ui, layout
  <1>5. CASE handleResetButton \/ confirmAlert
    BY <1>5, restartGameType DEF handleResetButton, confirmAlert, TypeOK
  <1>6. ASSUME NEW mode \in GameModes, chooseLevel(mode)
        PROVE  TypeOK'
    BY <1>6, restartGameType DEF chooseLevel
  <1>7. CASE handleScoreButton \/ handleLogout
    BY <1>7 DEF TypeOK, handleScoreButton, handleLogout, present, Screens, Alerts, Sheets,
                brain, timers, layout
  <1>8. ASSUME NEW signedOut \in BOOLEAN, logout(signedOut)
        PROVE  TypeOK'
    BY <1>8 DEF TypeOK, logout, Screens, brain, timers, layout
  <1>9. CASE cancelSheet \/ loginDismissed
    BY <1>9 DEF TypeOK, cancelSheet, loginDismissed, Screens, brain, timers, layout
  <1>10. CASE presentLoginController
    BY <1>10 DEF TypeOK, presentLoginController, present, Screens, Alerts, Sheets,
                 brain, timers, layout
  <1>11. CASE UNCHANGED vars
    BY <1>11 DEF TypeOK, vars, brain, timers, ui, layout
  <1> QED
    BY <1>1, <1>2, <1>3, <1>4, <1>5, <1>6, <1>7, <1>8, <1>9, <1>10, <1>11 DEF Next

\* The home screen starts with variables of their types.
LEMMA TypeInit == viewDidLoad => TypeOK
  <1> SUFFICES ASSUME viewDidLoad PROVE TypeOK
    OBVIOUS
  <1>1. expert \in GameModes
    BY LevelAssumption
  <1>2. numberOfLinesNeedToPlaceCards(expert) \in Nat
    BY <1>1, LevelFacts
  <1>3. isFlipped \in [Numbers(expert) -> BOOLEAN]
    BY DEF viewDidLoad, firstBrain, newCards
  <1> QED
    BY <1>1, <1>2, <1>3 DEF viewDidLoad, firstBrain, TypeOK, Screens

\* The variables of the home screen keep their types, whatever the player does
\* and in whatever order the timers fire.
THEOREM TypeCorrect == Spec => []TypeOK
  BY TypeInit, TypeStep, PTL DEF Spec

----------------------------------------------------------------------------
(***************************************************************************)
(* The steps, by what they leave alone.                                    *)
(***************************************************************************)
\* The steps that only change what is presented, and the stuttering step.
ScreenStep ==
  \/ MayOpenSheet /\ (handleScoreButton \/ handleLogout)
  \/ cancelSheet \/ presentLoginController \/ loginDismissed
  \/ \E signedOut \in BOOLEAN : logout(signedOut)
  \/ UNCHANGED vars

\* The steps that start a new game.
RestartStep == MayRestart /\ \E mode \in GameModes : restartGame(mode)

\* Every step is a touch, a timer block, a restart or a screen step.
LEMMA StepCases ==
  ASSUME TypeOK, [Next]_vars
  PROVE  \/ \E card \in DOMAIN inGameCards : MayTap /\ cardSelected(card)
         \/ checkBlock
         \/ resolveBlock
         \/ unflipAllCards
         \/ RestartStep
         \/ ScreenStep
  <1>1. CASE MayRestart /\ (handleResetButton \/ confirmAlert)
    BY <1>1 DEF handleResetButton, confirmAlert, RestartStep, TypeOK
  <1>2. CASE \E mode \in GameModes : MayRestart /\ chooseLevel(mode)
    BY <1>2 DEF chooseLevel, RestartStep
  <1> QED
    BY <1>1, <1>2 DEF Next, ScreenStep

\* A screen step leaves the game, its timers and the score alone.
LEMMA ScreenStepFacts ==
  ASSUME ScreenStep
  PROVE  UNCHANGED <<difficulty, inGameCards, isFlipped, faded, flippedCardNumber,
                     imagesThatUserHasChosen, numberOfClearedCards, userHasTried,
                     currentGameMode, checks, results, faceDownTimers>>
  BY DEF ScreenStep, handleScoreButton, handleLogout, cancelSheet, presentLoginController,
         loginDismissed, logout, vars, brain, timers

\* A restart puts a fresh game in place of the old one and keeps the jobs.
LEMMA RestartFacts ==
  ASSUME NEW mode, restartGame(mode)
  PROVE  /\ flippedCardNumber' = <<>>
         /\ imagesThatUserHasChosen' = <<>>
         /\ faded' = {}
         /\ numberOfClearedCards' = 0
         /\ isFlipped' = [c \in Numbers(mode) |-> TRUE]
         /\ faceDownTimers' = Append(faceDownTimers, pendingJobs)
  BY DEF restartGame, initailizeCardGame, newBrain, newCards

----------------------------------------------------------------------------
(***************************************************************************)
(* Until the queued login screen is presented nobody plays.  Touches reach *)
(* the board, but the dealt cards are face up and flipCard refuses them;   *)
(* the block that turns them over comes later, and so does every job.      *)
(***************************************************************************)
LaunchWaits ==
  loginQueued => /\ \A card \in DOMAIN isFlipped : isFlipped[card]
                 /\ flippedCardNumber = <<>>
                 /\ checks = 0
                 /\ results = <<>>
                 /\ presented = "nothing"

Ended == gameCleared \/ gameOver

\* A new game has not ended.
LEMMA RestartBeginsNewGame ==
  ASSUME NEW mode \in GameModes, restartGame(mode)
  PROVE  ~Ended'
  <1>1. difficulty' = mode /\ numberOfClearedCards' = 0 /\ userHasTried' = 0
    BY DEF restartGame, initailizeCardGame, newBrain
  <1>2. numberOfImagesToCreateCards(mode) >= 1 /\ gameOverCondition >= 1
    BY LevelAssumption DEF numberOfImagesToCreateCards
  <1>3. numberOfImagesToCreateCards(mode) \in Nat /\ gameOverCondition \in Nat
    BY LevelFacts, LevelAssumption
  <1> QED
    BY <1>1, <1>2, <1>3 DEF Ended, gameCleared, gameOver

\* A touch of a card that is face up does nothing.
LEMMA FaceUpIsRefused ==
  ASSUME NEW card, cardSelected(card), isFlipped[card]
  PROVE  UNCHANGED <<isFlipped, flippedCardNumber>>
  BY DEF cardSelected, flipCard, CanFlip

LEMMA LaunchStep == TypeOK /\ LaunchWaits /\ [Next]_vars => LaunchWaits'
  <1> SUFFICES ASSUME TypeOK, LaunchWaits, [Next]_vars, loginQueued'
               PROVE  /\ \A card \in DOMAIN isFlipped' : isFlipped'[card]
                      /\ flippedCardNumber' = <<>>
                      /\ checks' = 0
                      /\ results' = <<>>
                      /\ presented' = "nothing"
    BY DEF LaunchWaits
  <1>0. loginQueued
    BY StepCases DEF cardSelected, checkBlock, resolveBlock, unflipAllCards, RestartStep,
       restartGame, ScreenStep, handleScoreButton, handleLogout, cancelSheet,
       presentLoginController, loginDismissed, logout, vars, ui
  <1>a. /\ \A card \in DOMAIN isFlipped : isFlipped[card]
        /\ flippedCardNumber = <<>>
        /\ checks = 0
        /\ results = <<>>
        /\ presented = "nothing"
    BY <1>0 DEF LaunchWaits
  <1>1. ASSUME NEW card \in DOMAIN inGameCards, cardSelected(card)
        PROVE  UNCHANGED <<isFlipped, flippedCardNumber, checks, results, presented>>
    <2>1. card \in DOMAIN isFlipped
      BY <1>1, DealsAreFunctions DEF TypeOK
    <2>2. UNCHANGED <<isFlipped, flippedCardNumber>>
      BY <1>1, <1>a, <2>1, FaceUpIsRefused
    <2>3. Len(flippedCardNumber') # 2
      BY <1>a, <2>2
    <2> QED
      BY <1>1, <2>2, <2>3 DEF cardSelected, countSelectedCards, ui
  <1>2. ~checkBlock /\ ~resolveBlock
    BY <1>a DEF checkBlock, resolveBlock
  <1>3. ~unflipAllCards
    BY <1>0 DEF unflipAllCards
  <1>4. ASSUME RestartStep
        PROVE  /\ \A card \in DOMAIN isFlipped' : isFlipped'[card]
               /\ flippedCardNumber' = <<>>
               /\ UNCHANGED <<checks, results>>
               /\ presented' = "nothing"
    <2>1. PICK mode \in GameModes : restartGame(mode)
      BY <1>4 DEF RestartStep
    <2>2. ~gameCleared' /\ ~gameOver'
      BY <2>1, RestartBeginsNewGame DEF Ended
    <2>3. presented' = "nothing" /\ UNCHANGED <<checks, results>>
      BY <2>1, <2>2 DEF restartGame, updateTurns
    <2> QED
      BY <2>1, <2>3, RestartFacts
  <1>5. ASSUME ScreenStep
        PROVE  UNCHANGED <<isFlipped, flippedCardNumber, checks, results, presented>>
    <2>1. UNCHANGED presented
      BY <1>0, <1>5, <1>a DEF ScreenStep, handleScoreButton, handleLogout, OnDisplay,
         cancelSheet, Sheets, presentLoginController, loginDismissed, logout, vars, ui
    <2> QED
      BY <1>5, <2>1, ScreenStepFacts
  <1> QED
    BY <1>a, <1>1, <1>2, <1>3, <1>4, <1>5, StepCases

LEMMA LaunchInit == viewDidLoad => LaunchWaits
  BY DEF viewDidLoad, firstBrain, newCards, LaunchWaits

----------------------------------------------------------------------------
(***************************************************************************)
(* An open pair is always going to be closed.                              *)
(***************************************************************************)
LEMMA PendingStep == TypeOK /\ OpenPairIsPending /\ [Next]_vars => OpenPairIsPending'
  <1> SUFFICES ASSUME TypeOK, OpenPairIsPending, [Next]_vars,
                      Len(flippedCardNumber') = 2
               PROVE  checks' + Len(results') > 0
    BY DEF OpenPairIsPending, countSelectedCards, pendingJobs
  <1>0. checks \in Nat /\ results \in Seq(Job) /\ Len(results) \in Nat
    BY DEF TypeOK
  <1>1. ASSUME NEW card \in DOMAIN inGameCards, cardSelected(card)
        PROVE  checks' + Len(results') > 0
    BY <1>0, <1>1 DEF cardSelected, countSelectedCards
  <1>2. CASE checkBlock
    <2>1. results' \in Seq(Job) /\ checks' \in Nat /\ results' # <<>>
      BY <1>0, <1>2, checkBlockJobs
    <2>2. Len(results') > 0
      BY <2>1
    <2> QED
      BY <2>1, <2>2
  <1>3. CASE resolveBlock
    <2>1. CASE countSelectedCards = 2
      <3>1. flippedCardNumber' = <<>>
        BY <1>3, <2>1 DEF resolveBlock, removeCardsFromTheBoard, unflipCard, deleteUsersChoice
      <3> QED
        BY <3>1
    <2>2. CASE countSelectedCards # 2
      BY <1>3, <2>2 DEF resolveBlock, removeCardsFromTheBoard, unflipCard, countSelectedCards
    <2> QED
      BY <2>1, <2>2
  <1>4. CASE unflipAllCards
    BY <1>4 DEF unflipAllCards, OpenPairIsPending, countSelectedCards, pendingJobs
  <1>5. CASE RestartStep
    <2>1. flippedCardNumber' = <<>>
      BY <1>5, RestartFacts DEF RestartStep
    <2> QED
      BY <2>1
  <1>6. CASE ScreenStep
    BY <1>6, ScreenStepFacts DEF OpenPairIsPending, countSelectedCards, pendingJobs
  <1> QED
    BY <1>1, <1>2, <1>3, <1>4, <1>5, <1>6, StepCases

LEMMA PendingInit == viewDidLoad => OpenPairIsPending
  BY DEF viewDidLoad, firstBrain, OpenPairIsPending, countSelectedCards

\* While two cards are open and flipCard refuses all others, a job that will
\* close them is pending, for every player and every order of the timers.
THEOREM OpenPairIsAlwaysPending == Spec => []OpenPairIsPending
  BY PendingInit, TypeCorrect, PendingStep, PTL DEF Spec

----------------------------------------------------------------------------
(***************************************************************************)
(* What the brain remembers of the open cards is true of the board.        *)
(***************************************************************************)
LEMMA SelectionStep == TypeOK /\ SelectionOnBoard /\ [Next]_vars => SelectionOnBoard'
  <1> SUFFICES ASSUME TypeOK, SelectionOnBoard, [Next]_vars
               PROVE  SelectionOnBoard'
    OBVIOUS
  <1> DEFINE Emptied == flippedCardNumber' = <<>> /\ imagesThatUserHasChosen' = <<>>
             Kept == UNCHANGED <<flippedCardNumber, imagesThatUserHasChosen, faded, inGameCards>>
  <1>a. CASE Emptied
    <2>1. DOMAIN flippedCardNumber' = {} /\ Len(flippedCardNumber') = Len(imagesThatUserHasChosen')
      BY <1>a
    <2> QED
      BY <2>1 DEF SelectionOnBoard
  <1>b. CASE Kept
    BY <1>b DEF SelectionOnBoard
  <1>1. ASSUME NEW card \in DOMAIN inGameCards, cardSelected(card)
        PROVE  SelectionOnBoard'
    <2>0. /\ inGameCards \in [Numbers(difficulty) -> cardImages]
          /\ card \in Numbers(difficulty)
          /\ inGameCards[card] \in cardImages
      BY <1>1, DealsAreFunctions DEF TypeOK
    <2>1. UNCHANGED <<faded, inGameCards>> /\ card \notin faded
      BY <1>1 DEF cardSelected, flipCard, Touchable
    <2>2. CASE UNCHANGED <<flippedCardNumber, imagesThatUserHasChosen>>
      BY <2>1, <2>2, <1>b
    <2>3. CASE /\ flippedCardNumber' = Append(flippedCardNumber, card)
               /\ imagesThatUserHasChosen' = Append(imagesThatUserHasChosen, inGameCards[card])
      <3> DEFINE n == Len(flippedCardNumber)
      <3>1. /\ n \in Nat /\ n = Len(imagesThatUserHasChosen)
            /\ flippedCardNumber \in Seq(Numbers(difficulty))
            /\ imagesThatUserHasChosen \in Seq(cardImages)
            /\ DOMAIN flippedCardNumber = 1 .. n
        BY DEF TypeOK, SelectionOnBoard
      <3>2. /\ Len(flippedCardNumber') = n + 1 /\ Len(imagesThatUserHasChosen') = n + 1
            /\ DOMAIN flippedCardNumber' = 1 .. n + 1
            /\ \A i \in 1 .. n : /\ flippedCardNumber'[i] = flippedCardNumber[i]
                                 /\ imagesThatUserHasChosen'[i] = imagesThatUserHasChosen[i]
            /\ flippedCardNumber'[n + 1] = card
            /\ imagesThatUserHasChosen'[n + 1] = inGameCards[card]
        BY <2>0, <2>3, <3>1, AppendProperties
      <3>3. ASSUME NEW i \in 1 .. n + 1
            PROVE  /\ flippedCardNumber'[i] \notin faded'
                   /\ imagesThatUserHasChosen'[i] = inGameCards'[flippedCardNumber'[i]]
        <4>1. CASE i = n + 1
          BY <2>1, <3>2, <4>1
        <4>2. CASE i \in 1 .. n
          BY <2>1, <3>1, <3>2, <4>2 DEF SelectionOnBoard
        <4> QED
          BY <3>1, <4>1, <4>2
      <3> HIDE DEF n
      <3> QED
        BY <3>2, <3>3 DEF SelectionOnBoard
    <2> QED
      BY <1>1, <2>2, <2>3 DEF cardSelected, flipCard, saveUsersChoice
  <1>2. CASE checkBlock
    BY <1>2, <1>b DEF checkBlock, checkAnswer
  <1>3. CASE resolveBlock
    BY <1>3, <1>a, <1>b DEF resolveBlock, removeCardsFromTheBoard, unflipCard, deleteUsersChoice
  <1>4. CASE unflipAllCards
    BY <1>4, <1>b DEF unflipAllCards
  <1>5. CASE RestartStep
    BY <1>5, <1>a, RestartFacts DEF RestartStep
  <1>6. CASE ScreenStep
    BY <1>6, <1>b, ScreenStepFacts
  <1> QED
    BY <1>1, <1>2, <1>3, <1>4, <1>5, <1>6, StepCases

LEMMA SelectionInit == viewDidLoad => SelectionOnBoard
  <1> SUFFICES ASSUME flippedCardNumber = <<>>, imagesThatUserHasChosen = <<>>
               PROVE  SelectionOnBoard
    BY DEF viewDidLoad, firstBrain, newCards
  <1>1. DOMAIN flippedCardNumber = {}
    OBVIOUS
  <1> QED
    BY <1>1 DEF SelectionOnBoard

\* The cards the brain holds as open are on the board and carry the images it
\* holds for them, through restarts and blocks of earlier games.
THEOREM SelectionIsOnBoard == Spec => []SelectionOnBoard
  BY SelectionInit, TypeCorrect, SelectionStep, PTL DEF Spec

----------------------------------------------------------------------------
(***************************************************************************)
(* Alerts tell the truth.                                                  *)
(***************************************************************************)
\* updateTurns keeps a true alert and presents only a true one.
LEMMA updateTurnsTruth ==
  ASSUME NEW shown, updateTurns(shown),
         shown = "Game Clear" => gameCleared',
         shown = "Game Over" => gameOver'
  PROVE  AlertIsTruthful'
  BY DEF updateTurns, present, AlertIsTruthful

LEMMA AlertStep == TypeOK /\ AlertIsTruthful /\ [Next]_vars => AlertIsTruthful'
  <1> SUFFICES ASSUME TypeOK, AlertIsTruthful, [Next]_vars
               PROVE  AlertIsTruthful'
    OBVIOUS
  <1>0. /\ numberOfImagesToCreateCards(difficulty) \in Nat
        /\ numberOfClearedCards \in Nat /\ userHasTried \in Nat
        /\ gameOverCondition \in Nat
    BY LevelFacts, LevelAssumption DEF TypeOK
  <1>1. ASSUME NEW card \in DOMAIN inGameCards, cardSelected(card)
        PROVE  AlertIsTruthful'
    BY <1>1 DEF cardSelected, Touchable, Uncovered, ui, AlertIsTruthful
  <1>2. CASE checkBlock
    <2>1. gameCleared => gameCleared'
      BY <1>2 DEF checkBlock, checkAnswer, gameCleared
    <2>2. gameOver => gameOver'
      BY <1>0, <1>2 DEF checkBlock, checkAnswer, gameOver
    <2> QED
      BY <1>2, <2>1, <2>2, updateTurnsTruth DEF checkBlock, AlertIsTruthful
  <1>3. CASE resolveBlock
    <2>1. gameCleared => gameCleared'
      BY <1>0, <1>3 DEF resolveBlock, removeCardsFromTheBoard, unflipCard, gameCleared
    <2>2. gameOver => gameOver'
      BY <1>3 DEF resolveBlock, removeCardsFromTheBoard, unflipCard, gameOver
    <2> QED
      BY <1>3, <2>1, <2>2, updateTurnsTruth DEF resolveBlock, AlertIsTruthful
  <1>4. CASE unflipAllCards
    BY <1>4 DEF unflipAllCards, ui, AlertIsTruthful, gameCleared, gameOver
  <1>5. CASE RestartStep
    BY <1>5, updateTurnsTruth DEF RestartStep, restartGame
  <1>6. CASE ScreenStep
    <2>1. presented' = presented \/ presented' \notin Alerts
      BY <1>6 DEF ScreenStep, handleScoreButton, handleLogout, cancelSheet,
                  presentLoginController, loginDismissed, logout, present, vars, ui, Alerts
    <2> QED
      BY <1>6, <2>1, ScreenStepFacts DEF AlertIsTruthful, gameCleared, gameOver, Alerts
  <1> QED
    BY <1>1, <1>2, <1>3, <1>4, <1>5, <1>6, StepCases

LEMMA AlertInit == viewDidLoad => AlertIsTruthful
  BY DEF viewDidLoad, AlertIsTruthful

\* "Game Clear" and "Game Over" are on display only while they are true of the
\* game behind them, whatever blocks run while the user reads them.
THEOREM AlertsAreTruthful == Spec => []AlertIsTruthful
  BY AlertInit, TypeCorrect, AlertStep, PTL DEF Spec

----------------------------------------------------------------------------
(***************************************************************************)
(* A player who waits for the deal never opens one card twice.             *)
(***************************************************************************)
LEMMA WaitingStep ==
  ASSUME EagerRestart = FALSE
  PROVE  TypeOK /\ BoardWaits /\ [Next]_vars => BoardWaits'
  <1> SUFFICES ASSUME TypeOK, BoardWaits, [Next]_vars
               PROVE  BoardWaits'
    OBVIOUS
  <1>0. /\ DOMAIN isFlipped = Numbers(difficulty)
        /\ flippedCardNumber \in Seq(Numbers(difficulty))
        /\ faceDownTimers \in Seq(Nat)
        /\ Len(faceDownTimers) \in Nat
        /\ Len(faceDownTimers) <= 1
    BY DEF TypeOK, BoardWaits
  \* Nothing is open, and the timers are no more than before.
  <1>a. ASSUME flippedCardNumber' = <<>>, Len(faceDownTimers') <= 1,
               faceDownTimers' # <<>> => \A c \in DOMAIN isFlipped' : isFlipped'[c]
        PROVE  BoardWaits'
    <2>1. DOMAIN flippedCardNumber' = {}
      BY <1>a
    <2> QED
      BY <1>a, <2>1 DEF BoardWaits
  \* Nothing changes.
  <1>b. ASSUME UNCHANGED <<isFlipped, flippedCardNumber, faceDownTimers>>
        PROVE  BoardWaits'
    BY <1>b DEF BoardWaits
  <1>1. ASSUME NEW card \in DOMAIN inGameCards, cardSelected(card)
        PROVE  BoardWaits'
    <2>1. /\ inGameCards \in [Numbers(difficulty) -> cardImages]
          /\ card \in Numbers(difficulty)
          /\ UNCHANGED faceDownTimers
      BY <1>1, DealsAreFunctions DEF TypeOK, cardSelected
    <2>2. CASE CanFlip(card)
      <3> DEFINE n == Len(flippedCardNumber)
      <3>1. /\ ~isFlipped[card]
            /\ isFlipped' = [isFlipped EXCEPT ![card] = TRUE]
            /\ flippedCardNumber' = Append(flippedCardNumber, card)
        BY <1>1, <2>2 DEF cardSelected, flipCard, CanFlip, saveUsersChoice
      <3>2. faceDownTimers = <<>>
        BY <1>0, <2>1, <3>1 DEF BoardWaits
      <3>3. /\ n \in Nat
            /\ DOMAIN flippedCardNumber = 1 .. n
            /\ DOMAIN flippedCardNumber' = 1 .. n + 1
            /\ \A i \in 1 .. n : flippedCardNumber'[i] = flippedCardNumber[i]
            /\ flippedCardNumber'[n + 1] = card
        BY <1>0, <2>1, <3>1, AppendProperties
      <3>4. \A i \in 1 .. n : /\ flippedCardNumber[i] \in Numbers(difficulty)
                              /\ isFlipped[flippedCardNumber[i]]
                              /\ flippedCardNumber[i] # card
        BY <1>0, <3>1, <3>3, ElementOfSeq DEF BoardWaits
      <3> HIDE DEF n
      <3>5. \A i \in 1 .. n + 1 : isFlipped'[flippedCardNumber'[i]]
        <4> TAKE i \in 1 .. n + 1
        <4>1. CASE i = n + 1
          BY <1>0, <2>1, <3>1, <3>3, <4>1
        <4>2. CASE i \in 1 .. n
          BY <1>0, <2>1, <3>1, <3>3, <3>4, <4>2
        <4> QED
          BY <3>3, <4>1, <4>2
      <3>6. \A i, j \in 1 .. n + 1 : flippedCardNumber'[i] = flippedCardNumber'[j] => i = j
        <4> TAKE i, j \in 1 .. n + 1
        <4>1. CASE i \in 1 .. n /\ j \in 1 .. n
          BY <3>3, <4>1 DEF BoardWaits
        <4>2. CASE i = n + 1 \/ j = n + 1
          BY <3>3, <3>4, <4>2
        <4> QED
          BY <3>3, <4>1, <4>2
      <3> QED
        BY <1>0, <2>1, <3>2, <3>3, <3>5, <3>6 DEF BoardWaits
    <2>3. CASE ~CanFlip(card)
      BY <1>1, <2>1, <2>3, <1>b DEF cardSelected, flipCard
    <2> QED
      BY <2>2, <2>3
  <1>2. CASE checkBlock
    BY <1>2, <1>b DEF checkBlock, checkAnswer
  <1>3. CASE resolveBlock
    <2>1. /\ Len(faceDownTimers') = Len(faceDownTimers)
          /\ faceDownTimers' # <<>> => faceDownTimers # <<>>
      <3>1. /\ faceDownTimers' \in Seq(Nat)
            /\ DOMAIN faceDownTimers' = DOMAIN faceDownTimers
        BY <1>3, TypeStep DEF TypeOK, resolveBlock
      <3> QED
        BY <1>0, <3>1
    <2>2. CASE countSelectedCards = 2
      <3>1. flippedCardNumber' = <<>> /\ flippedCardNumber # <<>>
        <4>1. flippedCardNumber' = <<>>
          BY <1>3, <2>2 DEF resolveBlock, removeCardsFromTheBoard, unflipCard,
                            deleteUsersChoice
        <4>2. flippedCardNumber # <<>>
          BY <2>2 DEF countSelectedCards
        <4> QED
          BY <4>1, <4>2
      <3>2. faceDownTimers = <<>>
        BY <3>1 DEF BoardWaits
      <3> QED
        BY <1>0, <1>a, <2>1, <3>1, <3>2
    <2>3. CASE countSelectedCards # 2
      <3>1. UNCHANGED <<isFlipped, flippedCardNumber>>
        BY <1>3, <2>3 DEF resolveBlock, removeCardsFromTheBoard, unflipCard
      <3> QED
        BY <1>0, <2>1, <3>1 DEF BoardWaits
    <2> QED
      BY <2>2, <2>3
  <1>4. CASE unflipAllCards
    <2>1. faceDownTimers # <<>> /\ faceDownTimers' = Tail(faceDownTimers)
      BY <1>4 DEF unflipAllCards
    <2>2. faceDownTimers' = <<>>
      BY <1>0, <2>1
    <2>3. flippedCardNumber' = <<>>
      BY <1>4, <2>1 DEF unflipAllCards, BoardWaits
    <2> QED
      BY <1>a, <2>2, <2>3
  <1>5. CASE RestartStep
    <2>1. faceDownTimers = <<>>
      BY <1>5 DEF RestartStep, MayRestart
    <2>2. PICK mode \in GameModes : restartGame(mode)
      BY <1>5 DEF RestartStep
    <2>3. /\ flippedCardNumber' = <<>>
          /\ \A c \in DOMAIN isFlipped' : isFlipped'[c]
          /\ faceDownTimers' = Append(<<>>, pendingJobs)
      BY <2>1, <2>2, RestartFacts
    <2>4. Len(faceDownTimers') = 1
      BY <2>3
    <2> QED
      BY <1>a, <2>3, <2>4
  <1>6. CASE ScreenStep
    BY <1>6, <1>b, ScreenStepFacts
  <1> QED
    BY <1>1, <1>2, <1>3, <1>4, <1>5, <1>6, StepCases

\* A player who does not restart before the dealt cards have turned over opens
\* none of them before that, and finds the ones they opened face up.
THEOREM WaitingPlayerFindsBoardWaiting ==
  ASSUME EagerRestart = FALSE
  PROVE  Spec => []BoardWaits
  <1>1. viewDidLoad => BoardWaits
    <2> SUFFICES ASSUME viewDidLoad
                 PROVE  BoardWaits
      OBVIOUS
    <2>1. /\ flippedCardNumber = <<>>
          /\ isFlipped = [c \in Numbers(expert) |-> TRUE]
          /\ Len(faceDownTimers) = 1
      BY DEF viewDidLoad, firstBrain, newCards
    <2>2. DOMAIN flippedCardNumber = {} /\ \A c \in DOMAIN isFlipped : isFlipped[c]
      BY <2>1
    <2> QED
      BY <2>1, <2>2 DEF BoardWaits
  <1>2. TypeOK /\ BoardWaits /\ [Next]_vars => BoardWaits'
    BY WaitingStep
  <1> QED
    BY <1>1, <1>2, TypeCorrect, PTL DEF Spec

\* Two open cards are two cards.
LEMMA OpenCardsDiffer ==
  ASSUME TypeOK, BoardWaits, countSelectedCards = 2
  PROVE  flippedCardNumber[1] # flippedCardNumber[2]
  <1>1. 1 \in DOMAIN flippedCardNumber /\ 2 \in DOMAIN flippedCardNumber
    BY DEF TypeOK, countSelectedCards
  <1> QED
    BY <1>1 DEF BoardWaits

\* A player who does not restart before the dealt cards have turned over always
\* opens two different cards, however many other cards they touch meanwhile.
THEOREM WaitingPlayerOpensTwoCards ==
  ASSUME EagerRestart = FALSE
  PROVE  Spec => []TwoDifferentCards
  <1>1. TypeOK /\ BoardWaits => TwoDifferentCards
    BY OpenCardsDiffer DEF TwoDifferentCards
  <1>2. Spec => []BoardWaits
    BY WaitingPlayerFindsBoardWaiting
  <1> QED
    BY <1>1, <1>2, TypeCorrect, PTL

----------------------------------------------------------------------------
(***************************************************************************)
(* Every removal that is counted takes one or two cards off the board.     *)
(***************************************************************************)
\* The inductive form: the count speaks of a finite set.
RemovalsCounted == IsFiniteSet(faded) /\ EveryRemovalTakesCards

LEMMA RemovalStep ==
  TypeOK /\ SelectionOnBoard /\ RemovalsCounted /\ [Next]_vars => RemovalsCounted'
  <1> SUFFICES ASSUME TypeOK, SelectionOnBoard, RemovalsCounted, [Next]_vars
               PROVE  RemovalsCounted'
    OBVIOUS
  <1>a. ASSUME UNCHANGED <<faded, numberOfClearedCards>>
        PROVE  RemovalsCounted'
    BY <1>a DEF RemovalsCounted, EveryRemovalTakesCards
  <1>1. ASSUME NEW card \in DOMAIN inGameCards, cardSelected(card)
        PROVE  RemovalsCounted'
    BY <1>1, <1>a DEF cardSelected, flipCard
  <1>2. CASE checkBlock
    BY <1>2, <1>a DEF checkBlock, checkAnswer
  <1>3. CASE resolveBlock
    <2>1. CASE removeCardsFromTheBoard /\ countSelectedCards = 2
      <3> DEFINE one == flippedCardNumber[1]
                 two == flippedCardNumber[2]
      <3>1. one \notin faded /\ two \notin faded
        <4>1. 1 \in DOMAIN flippedCardNumber /\ 2 \in DOMAIN flippedCardNumber
          BY <2>1 DEF TypeOK, countSelectedCards
        <4> QED
          BY <4>1 DEF SelectionOnBoard
      <3>2. faded' = (faded \cup {one}) \cup {two}
        BY <2>1, removalFacts DEF Chosen
      <3>3. numberOfClearedCards' = numberOfClearedCards + 1
        BY <2>1, removalFacts
      <3>4. IsFiniteSet(faded) /\ Cardinality(faded) \in Nat
        BY FS_CardinalityType DEF RemovalsCounted
      <3> HIDE DEF one, two
      <3>5. /\ IsFiniteSet(faded \cup {one})
            /\ Cardinality(faded \cup {one}) = Cardinality(faded) + 1
        BY <3>1, <3>4, FS_AddElement
      <3>6. /\ IsFiniteSet(faded')
            /\ Cardinality(faded') \in {Cardinality(faded) + 1, Cardinality(faded) + 2}
        <4>1. /\ IsFiniteSet(faded')
              /\ \/ Cardinality(faded') = Cardinality(faded \cup {one})
                 \/ Cardinality(faded') = Cardinality(faded \cup {one}) + 1
          BY <3>2, <3>5, FS_AddElement
        <4> QED
          BY <3>4, <3>5, <4>1
      <3>7. numberOfClearedCards \in Nat
        BY DEF TypeOK
      <3> QED
        BY <3>3, <3>4, <3>6, <3>7 DEF RemovalsCounted, EveryRemovalTakesCards
    <2>2. CASE ~(removeCardsFromTheBoard /\ countSelectedCards = 2)
      BY <1>3, <2>2, <1>a DEF resolveBlock, removeCardsFromTheBoard, unflipCard
    <2> QED
      BY <2>1, <2>2
  <1>4. CASE unflipAllCards
    BY <1>4, <1>a DEF unflipAllCards
  <1>5. CASE RestartStep
    <2>1. faded' = {} /\ numberOfClearedCards' = 0
      BY <1>5, RestartFacts DEF RestartStep
    <2> QED
      BY <2>1, FS_EmptySet DEF RemovalsCounted, EveryRemovalTakesCards
  <1>6. CASE ScreenStep
    BY <1>6, <1>a, ScreenStepFacts
  <1> QED
    BY <1>1, <1>2, <1>3, <1>4, <1>5, <1>6, StepCases

LEMMA RemovalInit == viewDidLoad => RemovalsCounted
  BY FS_EmptySet DEF viewDidLoad, firstBrain, RemovalsCounted, EveryRemovalTakesCards

\* The number of pairs that gameCleared compares never counts a removal that
\* took no card, nor misses one that took some, whatever stale results the
\* resolutions act on.
THEOREM RemovalsTakeCards == Spec => []EveryRemovalTakesCards
  <1>1. RemovalsCounted => EveryRemovalTakesCards
    BY DEF RemovalsCounted
  <1> QED
    BY <1>1, RemovalInit, RemovalStep, TypeCorrect, SelectionIsOnBoard, PTL DEF Spec

----------------------------------------------------------------------------
(***************************************************************************)
(* What the screen shows: the score and the whole board.                   *)
(***************************************************************************)
LEMMA ScoreInit == viewDidLoad => ScoreIsFresh
  BY DEF viewDidLoad, firstBrain, ScoreIsFresh

LEMMA ScoreStep == TypeOK /\ ScoreIsFresh /\ [Next]_vars => ScoreIsFresh'
  <1> SUFFICES ASSUME TypeOK, ScoreIsFresh, [Next]_vars
               PROVE  ScoreIsFresh'
    OBVIOUS
  <1>1. ASSUME NEW card \in DOMAIN inGameCards, cardSelected(card)
        PROVE  ScoreIsFresh'
    BY <1>1 DEF cardSelected, flipCard, ui, ScoreIsFresh
  <1>2. CASE checkBlock \/ resolveBlock
    BY <1>2 DEF checkBlock, resolveBlock, updateTurns, ScoreIsFresh
  <1>3. CASE unflipAllCards
    BY <1>3 DEF unflipAllCards, ui, ScoreIsFresh
  <1>4. CASE RestartStep
    BY <1>4 DEF RestartStep, restartGame, updateTurns, ScoreIsFresh
  <1>5. CASE ScreenStep
    BY <1>5 DEF ScreenStep, handleScoreButton, handleLogout, cancelSheet,
                presentLoginController, loginDismissed, logout, vars, brain, ui, ScoreIsFresh
  <1> QED
    BY <1>1, <1>2, <1>3, <1>4, <1>5, StepCases

\* The score title shows the tries of the game in progress, through blocks of
\* earlier games and restarts.
THEOREM ScoreIsAlwaysFresh == Spec => []ScoreIsFresh
  BY ScoreInit, ScoreStep, TypeCorrect, PTL DEF Spec

\* The lines of the largest level hold the cards of every level.
LEMMA LinesOfExpertAreEnough ==
  ASSUME NEW m \in GameModes, NEW card \in Numbers(m)
  PROVE  LineOf(card) < numberOfLinesNeedToPlaceCards(expert)
  <1> DEFINE k == CardsPerLine
             n == chooseGameModes[expert]
             q == n \div k
             d == card \div k
  <1>1. /\ k \in Nat \ {0} /\ n \in Nat
        /\ card \in Nat /\ card < n
    BY LevelAssumption DEF Numbers
  <1>2. n % k = 0
    BY LevelAssumption
  <1> HIDE DEF k, n
  <1>3. q \in Nat /\ d \in Nat /\ n = k * q /\ card >= k * d
    BY <1>1, <1>2
  <1> HIDE DEF q, d
  <1>4. d >= q => k * d >= k * q
    BY <1>1, <1>3
  <1>5. d < q
    BY <1>1, <1>3, <1>4
  <1> QED
    BY <1>5 DEF LineOf, numberOfLinesNeedToPlaceCards, k, n, q, d

\* The inductive form of EveryCardIsShown: every board has the lines of the first.
LinesOfExpert ==
  /\ horizontalNumberOfLinesNeededToPlaceCards = numberOfLinesNeedToPlaceCards(expert)
  /\ numberOfLinesNeedToCreate = numberOfLinesNeedToPlaceCards(expert)

LEMMA LinesInit == viewDidLoad => LinesOfExpert
  BY DEF viewDidLoad, LinesOfExpert

LEMMA LinesStep == TypeOK /\ LinesOfExpert /\ [Next]_vars => LinesOfExpert'
  <1> SUFFICES ASSUME TypeOK, LinesOfExpert, [Next]_vars
               PROVE  LinesOfExpert'
    OBVIOUS
  <1>1. CASE RestartStep
    BY <1>1 DEF RestartStep, restartGame, configureUI, LinesOfExpert
  <1>2. CASE UNCHANGED layout
    BY <1>2 DEF layout, LinesOfExpert
  <1>3. RestartStep \/ UNCHANGED layout
    BY StepCases DEF cardSelected, checkBlock, resolveBlock, unflipAllCards, ScreenStep,
       handleScoreButton, handleLogout, cancelSheet, presentLoginController,
       loginDismissed, logout, vars
  <1> QED
    BY <1>1, <1>2, <1>3

LEMMA LinesShowCards == TypeOK /\ LinesOfExpert => EveryCardIsShown
  BY LinesOfExpertAreEnough, DealsAreFunctions DEF TypeOK, LinesOfExpert, EveryCardIsShown

\* Every card of every game is in a line that the board shows, although the
\* number of lines is computed once, from the first game.
THEOREM EveryCardIsAlwaysShown == Spec => []EveryCardIsShown
  BY LinesInit, LinesStep, LinesShowCards, TypeCorrect, PTL DEF Spec

----------------------------------------------------------------------------
(***************************************************************************)
(* All of the above, as one inductive invariant: viewDidLoad establishes   *)
(* it and every step keeps it.  A specification with more steps than Next  *)
(* needs to look only at the steps it adds.                                *)
(***************************************************************************)
GameInv ==
  /\ TypeOK
  /\ LaunchWaits
  /\ OpenPairIsPending
  /\ SelectionOnBoard
  /\ AlertIsTruthful
  /\ RemovalsCounted
  /\ ScoreIsFresh
  /\ LinesOfExpert

LEMMA GameStarts == viewDidLoad => GameInv
  BY TypeInit, LaunchInit, PendingInit, SelectionInit, AlertInit, RemovalInit, ScoreInit,
     LinesInit
     DEF GameInv

LEMMA GameGoesOn == GameInv /\ [Next]_vars => GameInv'
  BY TypeStep, LaunchStep, PendingStep, SelectionStep, AlertStep, RemovalStep, ScoreStep,
     LinesStep
     DEF GameInv
=============================================================================
