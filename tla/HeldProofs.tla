------------------------------ MODULE HeldProofs ------------------------------
(***************************************************************************)
(* Proofs about HeldTouch.  An old card puts its number and image into the *)
(* selection of a game that may not have them, so TypeOK and               *)
(* SelectionOnBoard, on which the proofs of HomeProofs rest, do not hold   *)
(* here: what is left of them must be enough.                              *)
(***************************************************************************)
EXTENDS HeldTouch, HomeProofs

----------------------------------------------------------------------------
(***************************************************************************)
(* The inductive invariants.                                               *)
(***************************************************************************)
\* What the brain holds as open: any numbers and images of any level.
SelectionType ==
  /\ flippedCardNumber \in Seq(Numbers(expert))
  /\ imagesThatUserHasChosen \in Seq(cardImages)
  /\ Len(flippedCardNumber) <= 2
  /\ Len(imagesThatUserHasChosen) = Len(flippedCardNumber)

\* The game and its timers.
BoardType ==
  /\ currentGameMode \in GameModes
  /\ difficulty \in GameModes
  /\ inGameCards \in [Numbers(difficulty) -> cardImages]
  /\ isFlipped \in [Numbers(difficulty) -> BOOLEAN]
  /\ faded \subseteq Numbers(difficulty)
  /\ numberOfClearedCards \in Nat
  /\ checks \in Nat
  /\ results \in Seq(Job)
  /\ faceDownTimers \in Seq(Nat)

TouchRecord == [number : Numbers(expert), image : cardImages, old : BOOLEAN, up : BOOLEAN]

\* The fingers.  One that is not marked as old rests on a card of this board.
TouchesType ==
  /\ touches \subseteq TouchRecord
  /\ IsFiniteSet(touches)
  /\ Cardinality(touches) <= MaxTouches
  /\ \A t \in touches : ~t.old => t.number \in Numbers(difficulty)

HeldInv == SelectionType /\ BoardType /\ TouchesType /\ OpenPairIsPending

\* The numbers whose removal takes a card off the board.
OnBoard == Numbers(difficulty) \ faded

\* With one finger at most one of two open cards is not on the board.  When a
\* card under the finger leaves the board, by a removal or a restart, nothing is
\* open: so while a card that is not on the board is open, the finger is on none.
OneIsOnBoard ==
  /\ countSelectedCards = 2
       => flippedCardNumber[1] \in OnBoard \/ flippedCardNumber[2] \in OnBoard
  /\ (\E i \in DOMAIN flippedCardNumber : flippedCardNumber[i] \notin OnBoard)
       => \A t \in touches : t.number \in OnBoard

----------------------------------------------------------------------------
(***************************************************************************)
(* Facts about levels, steps and touches.                                  *)
(***************************************************************************)
\* The first level has the numbers of every level.
LEMMA ExpertHasAllNumbers ==
  ASSUME NEW m \in GameModes
  PROVE  Numbers(m) \subseteq Numbers(expert)
  <1>1. /\ chooseGameModes[m] \in Nat /\ chooseGameModes[expert] \in Nat
        /\ chooseGameModes[m] <= chooseGameModes[expert]
    BY LevelAssumption
  <1> QED
    BY <1>1 DEF Numbers

\* A step of the home screen, with what it does to the fingers.
HomeStep ==
  /\ \/ \E card \in DOMAIN inGameCards : cardSelected(card)
     \/ checkBlock
     \/ resolveBlock
     \/ unflipAllCards
     \/ \E mode \in GameModes : restartGame(mode)
     \/ ScreenStep
  /\ underTheFingers

LEMMA HeldCases ==
  ASSUME BoardType, [HeldNext]_heldVars
  PROVE  \/ HomeStep
         \/ \E card \in DOMAIN inGameCards : touchDown(card)
         \/ \E touch \in touches : touchUpInside(touch)
         \/ \E touch \in touches : touchCancel(touch)
         \/ UNCHANGED heldVars
  <1>1. ASSUME Next, underTheFingers PROVE HomeStep
    <2>1. CASE handleResetButton \/ confirmAlert
      BY <1>1, <2>1 DEF handleResetButton, confirmAlert, BoardType, HomeStep
    <2>2. CASE \E mode \in GameModes : chooseLevel(mode)
      BY <1>1, <2>2 DEF chooseLevel, HomeStep
    <2>3. CASE \E card \in DOMAIN inGameCards : cardSelected(card)
      BY <1>1, <2>3 DEF HomeStep
    <2>4. CASE checkBlock \/ resolveBlock \/ unflipAllCards
      BY <1>1, <2>4 DEF HomeStep
    <2>5. CASE ScreenStep
      BY <1>1, <2>5 DEF HomeStep
    <2> QED
      BY <1>1, <2>1, <2>2, <2>3, <2>4, <2>5 DEF Next, ScreenStep
  <1> QED
    BY <1>1 DEF HeldNext

\* A card is opened, or flipCard refuses it.
Opens(number, image) ==
  \/ UNCHANGED <<flippedCardNumber, imagesThatUserHasChosen>>
  \/ /\ Len(flippedCardNumber) < 2
     /\ flippedCardNumber' = Append(flippedCardNumber, number)
     /\ imagesThatUserHasChosen' = Append(imagesThatUserHasChosen, image)

LEMMA OpensFacts ==
  ASSUME SelectionType, NEW number \in Numbers(expert), NEW image \in cardImages,
         Opens(number, image)
  PROVE  /\ SelectionType'
         /\ \/ flippedCardNumber' = flippedCardNumber
            \/ /\ Len(flippedCardNumber') = Len(flippedCardNumber) + 1
               /\ DOMAIN flippedCardNumber' = 1 .. Len(flippedCardNumber) + 1
               /\ \A i \in 1 .. Len(flippedCardNumber) :
                    flippedCardNumber'[i] = flippedCardNumber[i]
               /\ flippedCardNumber'[Len(flippedCardNumber) + 1] = number
  <1>1. CASE UNCHANGED <<flippedCardNumber, imagesThatUserHasChosen>>
    BY <1>1 DEF SelectionType
  <1>2. CASE /\ Len(flippedCardNumber) < 2
             /\ flippedCardNumber' = Append(flippedCardNumber, number)
             /\ imagesThatUserHasChosen' = Append(imagesThatUserHasChosen, image)
    <2>1. /\ flippedCardNumber' \in Seq(Numbers(expert))
          /\ Len(flippedCardNumber') = Len(flippedCardNumber) + 1
          /\ \A i \in 1 .. Len(flippedCardNumber) :
               flippedCardNumber'[i] = flippedCardNumber[i]
          /\ flippedCardNumber'[Len(flippedCardNumber) + 1] = number
      BY <1>2, AppendProperties DEF SelectionType
    <2>2. /\ imagesThatUserHasChosen' \in Seq(cardImages)
          /\ Len(imagesThatUserHasChosen') = Len(imagesThatUserHasChosen) + 1
      BY <1>2, AppendProperties DEF SelectionType
    <2>3. DOMAIN flippedCardNumber' = 1 .. Len(flippedCardNumber')
      BY <2>1
    <2>4. Len(flippedCardNumber) \in Nat
      BY DEF SelectionType
    <2> QED
      BY <1>2, <2>1, <2>2, <2>3, <2>4 DEF SelectionType
  <1> QED
    BY <1>1, <1>2 DEF Opens

\* flipCard opens a card of the board.
LEMMA flipCardOpens ==
  ASSUME BoardType, NEW card \in Numbers(difficulty), flipCard(card)
  PROVE  /\ Opens(card, inGameCards[card])
         /\ isFlipped' \in [Numbers(difficulty) -> BOOLEAN]
         /\ UNCHANGED <<difficulty, inGameCards, faded, numberOfClearedCards>>
  <1>1. CASE CanFlip(card)
    <2>1. isFlipped' = [isFlipped EXCEPT ![card] = TRUE]
      BY <1>1 DEF flipCard
    <2>2. Opens(card, inGameCards[card])
      BY <1>1 DEF flipCard, CanFlip, countSelectedCards, saveUsersChoice, Opens
    <2> QED
      BY <2>1, <2>2 DEF BoardType, flipCard
  <1>2. CASE ~CanFlip(card)
    BY <1>2 DEF flipCard, BoardType, Opens
  <1> QED
    BY <1>1, <1>2

\* A lifted finger opens the card of this board or the old one it is on.
LEMMA LiftOpens ==
  ASSUME BoardType, TouchesType, NEW touch \in touches, touchUpInside(touch)
  PROVE  /\ \/ ~touch.old /\ Opens(touch.number, inGameCards[touch.number])
                          /\ inGameCards[touch.number] \in cardImages
            \/ touch.old /\ Opens(touch.number, touch.image)
         /\ touch.number \in Numbers(expert) /\ touch.image \in cardImages
         /\ isFlipped' \in [Numbers(difficulty) -> BOOLEAN]
         /\ UNCHANGED <<difficulty, inGameCards, faded, numberOfClearedCards,
                        currentGameMode, results, faceDownTimers>>
         /\ checks' = IF countSelectedCards' = 2 THEN checks + 1 ELSE checks
         /\ touches' = touches \ {touch}
  <1>1. touch.number \in Numbers(expert) /\ touch.image \in cardImages
    BY DEF TouchesType, TouchRecord
  <1>2. CASE ~touch.old /\ flipCard(touch.number)
    <2>1. touch.number \in Numbers(difficulty)
      BY <1>2 DEF TouchesType
    <2>2. /\ Opens(touch.number, inGameCards[touch.number])
          /\ isFlipped' \in [Numbers(difficulty) -> BOOLEAN]
          /\ UNCHANGED <<difficulty, inGameCards, faded, numberOfClearedCards>>
      BY <1>2, <2>1, flipCardOpens
    <2>3. inGameCards[touch.number] \in cardImages
      BY <2>1 DEF BoardType
    <2> QED
      BY <1>1, <1>2, <2>2, <2>3 DEF touchUpInside
  <1>3. CASE touch.old /\ flipOldCard(touch)
    <2>1. Opens(touch.number, touch.image)
      BY <1>3 DEF flipOldCard, Opens, countSelectedCards
    <2> QED
      BY <1>1, <1>3, <2>1 DEF touchUpInside, flipOldCard, BoardType
  <1> QED
    BY <1>2, <1>3 DEF touchUpInside

\* What is left of a finger after a step of the home screen: its number stays,
\* and a restart leaves no finger on a card of the new board.
LEMMA FingersStay ==
  ASSUME BoardType, TouchesType, underTheFingers
  PROVE  /\ touches' \subseteq TouchRecord
         /\ IsFiniteSet(touches')
         /\ Cardinality(touches') <= MaxTouches
         /\ \A t \in touches' : \E s \in touches : t.number = s.number /\ (~t.old => ~s.old)
         /\ restarted => \A t \in touches' : t.old
  <1>0. IsFiniteSet(touches) /\ Cardinality(touches) \in Nat
    BY FS_CardinalityType DEF TouchesType
  <1>1. CASE touches' = {}
    <2>1. 0 <= MaxTouches
      BY TouchAssumption
    <2> QED
      BY <1>1, <2>1, FS_EmptySet
  <1>2. CASE touches' = touches /\ ~restarted
    BY <1>2 DEF TouchesType
  <1>3. CASE touches' = leftBehind
    <2> DEFINE left(t) == [t EXCEPT !.old = TRUE,
                                    !.up = IF t.old THEN t.up ELSE isFlipped[t.number]]
               f == [t \in touches |-> left(t)]
    <2>1. touches' = {left(t) : t \in touches}
      BY <1>3 DEF leftBehind
    <2>2. ASSUME NEW t \in touches
          PROVE  left(t) \in TouchRecord /\ left(t).number = t.number /\ left(t).old = TRUE
      <3>1. t \in TouchRecord
        BY DEF TouchesType
      <3>2. (IF t.old THEN t.up ELSE isFlipped[t.number]) \in BOOLEAN
        <4>1. CASE t.old
          BY <3>1, <4>1 DEF TouchRecord
        <4>2. CASE ~t.old
          <5>1. t.number \in Numbers(difficulty)
            BY <4>2 DEF TouchesType
          <5> QED
            BY <4>2, <5>1 DEF BoardType
        <4> QED
          BY <4>1, <4>2
      <3> QED
        BY <3>1, <3>2 DEF TouchRecord
    <2>3. f \in Surjection(touches, touches')
      BY <2>1 DEF Surjection
    <2>4. IsFiniteSet(touches') /\ Cardinality(touches') <= Cardinality(touches)
      BY <1>0, <2>3, FS_Surjection
    <2>5. Cardinality(touches') \in Nat /\ MaxTouches \in Nat
      BY <2>4, FS_CardinalityType, TouchAssumption
    <2>6. Cardinality(touches') <= MaxTouches
      BY <1>0, <2>4, <2>5 DEF TouchesType
    <2> HIDE DEF left
    <2>7. touches' \subseteq TouchRecord
      BY <2>1, <2>2
    <2>8. ASSUME NEW t \in touches'
          PROVE  t.old /\ \E s \in touches : t.number = s.number
      <3>1. PICK s \in touches : t = left(s)
        BY <2>1
      <3> QED
        BY <2>2, <3>1
    <2> QED
      BY <2>4, <2>6, <2>7, <2>8
  <1> QED
    BY <1>1, <1>2, <1>3 DEF underTheFingers

----------------------------------------------------------------------------
(***************************************************************************)
(* The invariant of any number of fingers.                                 *)
(***************************************************************************)
\* An empty selection is one.
LEMMA NothingOpen ==
  ASSUME flippedCardNumber' = <<>>, imagesThatUserHasChosen' = <<>>
  PROVE  SelectionType'
  BY DEF SelectionType

\* resolveBlock closes two open cards, or leaves the selection alone.
LEMMA resolveCloses ==
  ASSUME resolveBlock
  PROVE  /\ \/ flippedCardNumber' = <<>> /\ imagesThatUserHasChosen' = <<>>
            \/ /\ UNCHANGED <<flippedCardNumber, imagesThatUserHasChosen, faded>>
               /\ countSelectedCards # 2
         /\ UNCHANGED <<difficulty, inGameCards, currentGameMode, checks>>
         /\ results' = Tail(results) /\ results # <<>>
  BY DEF resolveBlock, removeCardsFromTheBoard, unflipCard, deleteUsersChoice

LEMMA resolveBoard ==
  ASSUME BoardType, resolveBlock
  PROVE  BoardType'
  <1>1. faceDownTimers' \in Seq(Nat)
    BY resolveBlockTimers DEF BoardType
  <1>2. results' \in Seq(Job)
    <2>1. results \in Seq(Job) /\ results # <<>> /\ results' = Tail(results)
      BY resolveCloses DEF BoardType
    <2> QED
      BY <2>1, HeadTailProperties
  <1>3. /\ isFlipped' \in [Numbers(difficulty) -> BOOLEAN]
        /\ faded' \subseteq Numbers(difficulty)
        /\ numberOfClearedCards' \in Nat
    <2>1. CASE removeCardsFromTheBoard
      BY <2>1 DEF removeCardsFromTheBoard, BoardType
    <2>2. CASE unflipCard
      BY <2>2 DEF unflipCard, BoardType
    <2> QED
      BY <2>1, <2>2 DEF resolveBlock
  <1> QED
    BY <1>1, <1>2, <1>3, resolveCloses DEF BoardType

LEMMA restartBoard ==
  ASSUME BoardType, NEW mode \in GameModes, restartGame(mode)
  PROVE  BoardType' /\ SelectionType' /\ restarted
  <1>1. pendingJobs \in Nat
    BY DEF BoardType, pendingJobs
  <1>2. faceDownTimers' = Append(faceDownTimers, pendingJobs)
    BY DEF restartGame, initailizeCardGame
  <1>3. faceDownTimers' \in Seq(Nat) /\ Len(faceDownTimers') = Len(faceDownTimers) + 1
    BY <1>1, <1>2, AppendProperties DEF BoardType
  <1>4. /\ difficulty' = mode /\ currentGameMode' = mode
        /\ inGameCards' \in [Numbers(mode) -> cardImages]
        /\ isFlipped' \in [Numbers(mode) -> BOOLEAN]
        /\ faded' = {} /\ numberOfClearedCards' = 0
        /\ UNCHANGED <<checks, results>>
    BY DealsAreFunctions DEF restartGame, initailizeCardGame, newBrain, newCards
  <1>5. SelectionType'
    BY NothingOpen, RestartFacts
  <1>6. restarted
    BY <1>3 DEF restarted, BoardType
  <1> QED
    BY <1>3, <1>4, <1>5, <1>6 DEF BoardType

\* A step of the home screen keeps the game and the selection.
LEMMA HomeStepKeeps ==
  ASSUME HeldInv, HomeStep
  PROVE  /\ BoardType' /\ SelectionType' /\ OpenPairIsPending'
         /\ restarted \/ difficulty' = difficulty
  <1>0. BoardType /\ SelectionType /\ OpenPairIsPending
    BY DEF HeldInv
  <1>a. checks \in Nat /\ Len(results) \in Nat
    BY <1>0 DEF BoardType
  <1>1. ASSUME NEW card \in DOMAIN inGameCards, cardSelected(card)
        PROVE  /\ BoardType' /\ SelectionType' /\ OpenPairIsPending'
               /\ difficulty' = difficulty
    <2>1. card \in Numbers(difficulty) /\ card \in Numbers(expert)
      BY <1>0, ExpertHasAllNumbers DEF BoardType
    <2>2. /\ Opens(card, inGameCards[card])
          /\ isFlipped' \in [Numbers(difficulty) -> BOOLEAN]
          /\ UNCHANGED <<difficulty, inGameCards, faded, numberOfClearedCards>>
      BY <1>0, <1>1, <2>1, flipCardOpens DEF cardSelected
    <2>3. inGameCards[card] \in cardImages
      BY <1>0, <2>1 DEF BoardType
    <2>4. SelectionType'
      BY <1>0, <2>1, <2>2, <2>3, OpensFacts
    <2>5. /\ UNCHANGED <<currentGameMode, results, faceDownTimers>>
          /\ checks' = IF countSelectedCards' = 2 THEN checks + 1 ELSE checks
      BY <1>1 DEF cardSelected
    <2>6. BoardType'
      BY <1>0, <2>2, <2>5 DEF BoardType
    <2>7. OpenPairIsPending'
      BY <1>a, <2>5 DEF OpenPairIsPending, pendingJobs, countSelectedCards
    <2> QED
      BY <2>2, <2>4, <2>6, <2>7
  <1>2. CASE checkBlock
    <2>1. results' \in Seq(Job) /\ checks' \in Nat /\ results' # <<>>
      BY <1>0, <1>2, checkBlockJobs DEF BoardType
    <2>2. UNCHANGED <<difficulty, inGameCards, isFlipped, faded, flippedCardNumber,
                      imagesThatUserHasChosen, numberOfClearedCards, currentGameMode,
                      faceDownTimers>>
      BY <1>2 DEF checkBlock, checkAnswer
    <2>3. Len(results') > 0
      BY <2>1
    <2>4. pendingJobs' > 0
      BY <2>1, <2>3 DEF pendingJobs
    <2> QED
      BY <1>0, <2>1, <2>2, <2>4 DEF BoardType, SelectionType, OpenPairIsPending
  <1>3. CASE resolveBlock
    <2>1. BoardType'
      BY <1>0, <1>3, resolveBoard
    <2>2. CASE flippedCardNumber' = <<>> /\ imagesThatUserHasChosen' = <<>>
      BY <1>3, <2>1, <2>2, NothingOpen, resolveCloses DEF OpenPairIsPending, countSelectedCards
    <2>3. CASE /\ UNCHANGED <<flippedCardNumber, imagesThatUserHasChosen>>
               /\ countSelectedCards # 2
      BY <1>0, <1>3, <2>1, <2>3, resolveCloses
         DEF SelectionType, OpenPairIsPending, countSelectedCards
    <2> QED
      BY <1>3, <2>2, <2>3, resolveCloses
  <1>4. CASE unflipAllCards
    <2>1. isFlipped' \in [Numbers(difficulty) -> BOOLEAN] /\ faceDownTimers' \in Seq(Nat)
      BY <1>0, <1>4 DEF BoardType, unflipAllCards
    <2>2. UNCHANGED <<difficulty, inGameCards, faded, flippedCardNumber,
                      imagesThatUserHasChosen, numberOfClearedCards, currentGameMode,
                      checks, results>>
      BY <1>4 DEF unflipAllCards
    <2> QED
      BY <1>0, <2>1, <2>2
         DEF BoardType, SelectionType, OpenPairIsPending, countSelectedCards, pendingJobs
  <1>5. ASSUME NEW mode \in GameModes, restartGame(mode)
        PROVE  BoardType' /\ SelectionType' /\ OpenPairIsPending' /\ restarted
    <2>1. BoardType' /\ SelectionType' /\ restarted
      BY <1>0, <1>5, restartBoard
    <2>2. flippedCardNumber' = <<>>
      BY <1>5, RestartFacts
    <2>3. OpenPairIsPending'
      BY <2>2 DEF OpenPairIsPending, countSelectedCards
    <2> QED
      BY <2>1, <2>3
  <1>6. CASE ScreenStep
    BY <1>0, <1>6, ScreenStepFacts
       DEF BoardType, SelectionType, OpenPairIsPending, countSelectedCards, pendingJobs
  <1> QED
    BY <1>1, <1>2, <1>3, <1>4, <1>5, <1>6 DEF HomeStep

\* The fingers' steps leave the game alone, but for the card that is opened.
LEMMA HeldStep == HeldInv /\ [HeldNext]_heldVars => HeldInv'
  <1> SUFFICES ASSUME HeldInv, [HeldNext]_heldVars
               PROVE  HeldInv'
    OBVIOUS
  <1>0. BoardType /\ SelectionType /\ TouchesType /\ OpenPairIsPending
    BY DEF HeldInv
  <1>a. /\ IsFiniteSet(touches) /\ Cardinality(touches) \in Nat /\ MaxTouches \in Nat
        /\ Cardinality(touches) <= MaxTouches
    BY <1>0, FS_CardinalityType, TouchAssumption DEF TouchesType
  <1>b. ASSUME UNCHANGED vars
        PROVE  /\ BoardType' /\ SelectionType' /\ OpenPairIsPending'
               /\ UNCHANGED <<difficulty, faded, flippedCardNumber>>
    <2>1. UNCHANGED <<difficulty, inGameCards, isFlipped, faded, flippedCardNumber,
                      imagesThatUserHasChosen, numberOfClearedCards, currentGameMode,
                      checks, results, faceDownTimers>>
      BY <1>b DEF vars, brain, timers
    <2> QED
      BY <1>0, <2>1
         DEF BoardType, SelectionType, OpenPairIsPending, countSelectedCards, pendingJobs
  <1>c. ASSUME NEW touch \in touches, touches' = touches \ {touch},
               difficulty' = difficulty
        PROVE  TouchesType'
    <2>1. IsFiniteSet(touches') /\ Cardinality(touches') <= Cardinality(touches)
      BY <1>a, <1>c, FS_Subset
    <2>2. Cardinality(touches') \in Nat
      BY <2>1, FS_CardinalityType
    <2>3. Cardinality(touches') <= MaxTouches
      BY <1>a, <2>1, <2>2
    <2> QED
      BY <1>0, <1>c, <2>1, <2>3 DEF TouchesType
  <1>1. CASE HomeStep
    <2>1. /\ BoardType' /\ SelectionType' /\ OpenPairIsPending'
          /\ restarted \/ difficulty' = difficulty
      BY <1>1, HomeStepKeeps
    <2>2. /\ touches' \subseteq TouchRecord
          /\ IsFiniteSet(touches')
          /\ Cardinality(touches') <= MaxTouches
          /\ \A t \in touches' : \E s \in touches : t.number = s.number /\ (~t.old => ~s.old)
          /\ restarted => \A t \in touches' : t.old
      BY <1>0, <1>1, FingersStay DEF HomeStep
    <2>3. \A t \in touches' : ~t.old => t.number \in Numbers(difficulty')
      BY <1>0, <2>1, <2>2 DEF TouchesType
    <2>4. TouchesType'
      BY <2>2, <2>3 DEF TouchesType, Numbers, TouchRecord
    <2> QED
      BY <2>1, <2>4 DEF HeldInv
  <1>2. ASSUME NEW card \in DOMAIN inGameCards, touchDown(card)
        PROVE  HeldInv'
    <2>1. /\ UNCHANGED vars
          /\ Cardinality(touches) < MaxTouches
          /\ touches' = touches \cup {Touch(card)}
      BY <1>2 DEF touchDown
    <2>2. card \in Numbers(difficulty) /\ card \in Numbers(expert)
      BY <1>0, ExpertHasAllNumbers DEF BoardType
    <2>3. /\ Touch(card) \in TouchRecord
          /\ Touch(card).number = card
      BY <1>0, <2>2 DEF Touch, TouchRecord, BoardType
    <2>4. IsFiniteSet(touches') /\ Cardinality(touches') <= MaxTouches
      <3>1. /\ IsFiniteSet(touches')
            /\ \/ Cardinality(touches') = Cardinality(touches)
               \/ Cardinality(touches') = Cardinality(touches) + 1
        BY <1>a, <2>1, FS_AddElement
      <3> QED
        BY <1>a, <2>1, <3>1
    <2>5. TouchesType'
      BY <1>0, <1>b, <2>1, <2>2, <2>3, <2>4 DEF TouchesType
    <2> QED
      BY <1>b, <2>1, <2>5 DEF HeldInv
  <1>3. ASSUME NEW touch \in touches, touchUpInside(touch)
        PROVE  HeldInv'
    <2>1. /\ isFlipped' \in [Numbers(difficulty) -> BOOLEAN]
          /\ UNCHANGED <<difficulty, inGameCards, faded, numberOfClearedCards,
                         currentGameMode, results, faceDownTimers>>
          /\ checks' = IF countSelectedCards' = 2 THEN checks + 1 ELSE checks
          /\ touches' = touches \ {touch}
      BY <1>0, <1>3, LiftOpens
    <2>2. SelectionType'
      BY <1>0, <1>3, LiftOpens, OpensFacts
    <2>3. checks \in Nat /\ Len(results) \in Nat
      BY <1>0 DEF BoardType
    <2>4. OpenPairIsPending'
      BY <2>1, <2>3 DEF OpenPairIsPending, pendingJobs, countSelectedCards
    <2>5. BoardType'
      BY <1>0, <2>1, <2>3 DEF BoardType
    <2>6. TouchesType'
      BY <1>c, <2>1
    <2> QED
      BY <2>2, <2>4, <2>5, <2>6 DEF HeldInv
  <1>4. ASSUME NEW touch \in touches, touchCancel(touch)
        PROVE  HeldInv'
    <2>1. UNCHANGED vars /\ touches' = touches \ {touch}
      BY <1>4 DEF touchCancel
    <2> QED
      BY <1>b, <1>c, <2>1 DEF HeldInv
  <1>5. CASE UNCHANGED heldVars
    <2>1. UNCHANGED vars /\ touches' = touches
      BY <1>5 DEF heldVars
    <2>2. TouchesType'
      BY <1>0, <1>b, <2>1 DEF TouchesType
    <2> QED
      BY <1>b, <2>1, <2>2 DEF HeldInv
  <1> QED
    BY <1>0, <1>1, <1>2, <1>3, <1>4, <1>5, HeldCases

LEMMA HeldAlways == HeldSpec => []HeldInv
  <1>1. HeldInit => HeldInv
    <2> SUFFICES ASSUME HeldInit PROVE HeldInv
      OBVIOUS
    <2>1. viewDidLoad /\ touches = {}
      BY DEF HeldInit
    <2>2. TypeOK /\ OpenPairIsPending
      BY <2>1, TypeInit, PendingInit
    <2>3. BoardType
      BY <2>2, DealsAreFunctions DEF TypeOK, BoardType
    <2>4. SelectionType
      BY <2>1 DEF viewDidLoad, firstBrain, SelectionType
    <2>5. TouchesType
      BY <2>1, FS_EmptySet, TouchAssumption DEF TouchesType
    <2> QED
      BY <2>2, <2>3, <2>4, <2>5 DEF HeldInv
  <1> QED
    BY <1>1, HeldStep, PTL DEF HeldSpec

\* However many fingers rest on cards while the game is restarted, the touches
\* and the selection keep their types: at most two open cards, with an image for
\* each, and no faded card that is not of this board.
THEOREM HeldTypeCorrect == HeldSpec => []HeldTypeOK
  <1>1. HeldInv => HeldTypeOK
    BY DEF HeldInv, SelectionType, BoardType, TouchesType, TouchRecord, HeldTypeOK
  <1> QED
    BY <1>1, HeldAlways, PTL

\* Two open cards will be closed even if they are cards of boards that are gone.
THEOREM HeldPairIsPending == HeldSpec => []OpenPairIsPending
  <1>1. HeldInv => OpenPairIsPending
    BY DEF HeldInv
  <1> QED
    BY <1>1, HeldAlways, PTL
----------------------------------------------------------------------------
(***************************************************************************)
(* One finger: removals take cards.                                        *)
(***************************************************************************)
\* What opens is on the board, or it is the card the only finger was on.
LEMMA OpensKeepsOne ==
  ASSUME SelectionType, OneIsOnBoard,
         NEW number \in Numbers(expert), NEW image \in cardImages, Opens(number, image),
         OnBoard' = OnBoard,
         \A t \in touches' : \E s \in touches : t.number = s.number,
         number \notin OnBoard => touches' = {} /\ \E t \in touches : t.number = number
  PROVE  OneIsOnBoard'
  <1>1. CASE flippedCardNumber' = flippedCardNumber
    BY <1>1 DEF OneIsOnBoard, countSelectedCards
  <1>2. CASE flippedCardNumber' # flippedCardNumber
    <2> DEFINE n == Len(flippedCardNumber)
    <2>1. /\ Len(flippedCardNumber') = n + 1
          /\ DOMAIN flippedCardNumber' = 1 .. n + 1
          /\ \A i \in 1 .. n : flippedCardNumber'[i] = flippedCardNumber[i]
          /\ flippedCardNumber'[n + 1] = number
      BY <1>2, OpensFacts
    <2>2. n \in Nat /\ DOMAIN flippedCardNumber = 1 .. n
      BY DEF SelectionType
    <2> HIDE DEF n
    <2>3. ASSUME number \in OnBoard
          PROVE  OneIsOnBoard'
      <3>1. Len(flippedCardNumber') = 2 => flippedCardNumber'[2] \in OnBoard'
        <4>1. Len(flippedCardNumber') = 2 => n + 1 = 2
          BY <2>1, <2>2
        <4> QED
          BY <2>1, <2>3, <4>1
      <3>2. ASSUME NEW i \in DOMAIN flippedCardNumber', flippedCardNumber'[i] \notin OnBoard
            PROVE  \A t \in touches' : t.number \in OnBoard
        <4>1. i # n + 1
          BY <2>1, <2>3, <3>2
        <4>2. i \in 1 .. n
          BY <2>1, <2>2, <4>1
        <4>3. flippedCardNumber[i] \notin OnBoard
          BY <2>1, <3>2, <4>2
        <4> QED
          BY <2>2, <4>2, <4>3 DEF OneIsOnBoard
      <3> QED
        BY <3>1, <3>2 DEF OneIsOnBoard, countSelectedCards
    <2>4. ASSUME number \notin OnBoard
          PROVE  OneIsOnBoard'
      <3>1. \A i \in 1 .. n : flippedCardNumber[i] \in OnBoard
        BY <2>2, <2>4 DEF OneIsOnBoard
      <3>2. Len(flippedCardNumber') = 2 => flippedCardNumber'[1] \in OnBoard
        <4>1. Len(flippedCardNumber') = 2 => 1 \in 1 .. n
          BY <2>1, <2>2
        <4> QED
          BY <2>1, <3>1, <4>1
      <3> QED
        BY <2>4, <3>2 DEF OneIsOnBoard, countSelectedCards
    <2> QED
      BY <2>3, <2>4
  <1> QED
    BY <1>1, <1>2

\* The fingers' numbers stay, and what is open stays or is closed.
LEMMA OneStays ==
  ASSUME OneIsOnBoard, \A t \in touches' : \E s \in touches : t.number = s.number,
         \/ flippedCardNumber' = <<>>
         \/ flippedCardNumber' = flippedCardNumber /\ OnBoard' = OnBoard
  PROVE  OneIsOnBoard'
  <1>1. CASE flippedCardNumber' = <<>>
    <2>1. Len(flippedCardNumber') = 0 /\ DOMAIN flippedCardNumber' = {}
      BY <1>1
    <2> QED
      BY <2>1 DEF OneIsOnBoard, countSelectedCards
  <1>2. CASE flippedCardNumber' = flippedCardNumber /\ OnBoard' = OnBoard
    BY <1>2 DEF OneIsOnBoard, countSelectedCards
  <1> QED
    BY <1>1, <1>2

LEMMA OneStep ==
  ASSUME MaxTouches <= 1, HeldInv, OneIsOnBoard, [HeldNext]_heldVars
  PROVE  OneIsOnBoard'
  <1>0. BoardType /\ SelectionType /\ TouchesType
    BY DEF HeldInv
  <1>a. ASSUME UNCHANGED <<difficulty, faded>> PROVE OnBoard' = OnBoard
    BY <1>a DEF OnBoard, Numbers
  <1>b. ASSUME UNCHANGED vars PROVE UNCHANGED <<difficulty, faded, flippedCardNumber>>
    BY <1>b DEF vars, brain
  <1>1. CASE HomeStep
    <2>1. \A t \in touches' : \E s \in touches : t.number = s.number
      BY <1>0, <1>1, FingersStay DEF HomeStep
    <2>2. ASSUME NEW card \in DOMAIN inGameCards, cardSelected(card)
          PROVE  OneIsOnBoard'
      <3>1. card \in Numbers(difficulty) /\ card \in Numbers(expert)
        BY <1>0, ExpertHasAllNumbers DEF BoardType
      <3>2. /\ Opens(card, inGameCards[card])
            /\ UNCHANGED <<difficulty, faded>>
        BY <1>0, <2>2, <3>1, flipCardOpens DEF cardSelected
      <3>3. inGameCards[card] \in cardImages
        BY <1>0, <3>1 DEF BoardType
      <3>4. card \in OnBoard
        BY <2>2, <3>1 DEF cardSelected, Touchable, OnBoard
      <3> QED
        BY <1>0, <1>a, <2>1, <3>1, <3>2, <3>3, <3>4, OpensKeepsOne
    <2>3. CASE checkBlock
      <3>1. UNCHANGED <<difficulty, faded, flippedCardNumber>>
        BY <2>3 DEF checkBlock, checkAnswer
      <3> QED
        BY <1>a, <2>1, <3>1, OneStays
    <2>4. CASE resolveBlock
      BY <1>a, <2>1, <2>4, resolveCloses, OneStays
    <2>5. CASE unflipAllCards
      <3>1. UNCHANGED <<difficulty, faded, flippedCardNumber>>
        BY <2>5 DEF unflipAllCards
      <3> QED
        BY <1>a, <2>1, <3>1, OneStays
    <2>6. ASSUME NEW mode \in GameModes, restartGame(mode)
          PROVE  OneIsOnBoard'
      BY <2>1, <2>6, RestartFacts, OneStays
    <2>7. CASE ScreenStep
      BY <1>a, <2>1, <2>7, ScreenStepFacts, OneStays
    <2> QED
      BY <1>1, <2>2, <2>3, <2>4, <2>5, <2>6, <2>7 DEF HomeStep
  <1>2. ASSUME NEW card \in DOMAIN inGameCards, touchDown(card)
        PROVE  OneIsOnBoard'
    <2>1. /\ UNCHANGED <<difficulty, faded, flippedCardNumber>>
          /\ touches' = touches \cup {Touch(card)}
          /\ card \notin faded
      BY <1>2, <1>b DEF touchDown, Touchable
    <2>2. Touch(card).number \in OnBoard
      BY <1>0, <2>1 DEF BoardType, Touch, OnBoard
    <2>3. OnBoard' = OnBoard
      BY <1>a, <2>1
    <2> QED
      BY <2>1, <2>2, <2>3 DEF OneIsOnBoard, countSelectedCards
  <1>3. ASSUME NEW touch \in touches, touchUpInside(touch)
        PROVE  OneIsOnBoard'
    <2>1. /\ \/ ~touch.old /\ Opens(touch.number, inGameCards[touch.number])
                           /\ inGameCards[touch.number] \in cardImages
             \/ touch.old /\ Opens(touch.number, touch.image)
          /\ touch.number \in Numbers(expert) /\ touch.image \in cardImages
          /\ UNCHANGED <<difficulty, faded>>
          /\ touches' = touches \ {touch}
      BY <1>0, <1>3, LiftOpens
    <2>2. touches' = {}
      <3>1. IsFiniteSet(touches) /\ Cardinality(touches) <= MaxTouches
        BY <1>0 DEF TouchesType
      <3>2. IsFiniteSet(touches') /\ Cardinality(touches') = Cardinality(touches) - 1
        BY <1>3, <2>1, <3>1, FS_RemoveElement
      <3>3. Cardinality(touches) \in Nat /\ Cardinality(touches') \in Nat /\ MaxTouches \in Nat
        BY <3>1, <3>2, FS_CardinalityType, TouchAssumption
      <3>4. Cardinality(touches') = 0
        BY <3>1, <3>2, <3>3
      <3> QED
        BY <3>2, <3>4, FS_EmptySet
    <2>3. OnBoard' = OnBoard
      BY <1>a, <2>1
    <2> QED
      BY <1>0, <1>3, <2>1, <2>2, <2>3, OpensKeepsOne
  <1>4. ASSUME NEW touch \in touches, touchCancel(touch)
        PROVE  OneIsOnBoard'
    <2>1. /\ UNCHANGED <<difficulty, faded, flippedCardNumber>>
          /\ touches' = touches \ {touch}
      BY <1>4, <1>b DEF touchCancel
    <2> QED
      BY <1>a, <2>1, OneStays
  <1>5. CASE UNCHANGED heldVars
    <2>1. UNCHANGED <<difficulty, faded, flippedCardNumber, touches>>
      BY <1>5, <1>b DEF heldVars
    <2> QED
      BY <1>a, <2>1, OneStays
  <1> QED
    BY <1>0, <1>1, <1>2, <1>3, <1>4, <1>5, HeldCases

\* A removal of two open numbers, one of them on the board, takes one or two cards.
LEMMA RemovalTakes ==
  ASSUME BoardType, RemovalsCounted, OneIsOnBoard, countSelectedCards = 2,
         removeCardsFromTheBoard
  PROVE  RemovalsCounted'
  <1>1. PICK one, two : /\ one \in Chosen /\ two \in Chosen /\ Chosen = {one, two}
                        /\ one \in OnBoard
    <2>1. flippedCardNumber[1] \in OnBoard \/ flippedCardNumber[2] \in OnBoard
      BY DEF OneIsOnBoard
    <2> QED
      BY <2>1 DEF Chosen
  <1>2. /\ faded' = faded \cup (Chosen \cap Numbers(difficulty))
        /\ numberOfClearedCards' = numberOfClearedCards + 1
        /\ numberOfClearedCards \in Nat
    BY DEF removeCardsFromTheBoard, BoardType
  <1>3. one \in Numbers(difficulty) /\ one \notin faded
    BY <1>1 DEF OnBoard
  <1>4. /\ faded \cup {one} \subseteq faded'
        /\ faded' \subseteq (faded \cup {one}) \cup {two}
    BY <1>1, <1>2, <1>3
  <1>5. IsFiniteSet(faded) /\ Cardinality(faded) \in Nat
    BY FS_CardinalityType DEF RemovalsCounted
  <1>6. /\ IsFiniteSet(faded \cup {one})
        /\ Cardinality(faded \cup {one}) = Cardinality(faded) + 1
    BY <1>3, <1>5, FS_AddElement
  <1>7. /\ IsFiniteSet((faded \cup {one}) \cup {two})
        /\ Cardinality((faded \cup {one}) \cup {two}) \in
             {Cardinality(faded \cup {one}), Cardinality(faded \cup {one}) + 1}
    BY <1>6, FS_AddElement
  <1>8. /\ IsFiniteSet(faded')
        /\ Cardinality(faded') <= Cardinality((faded \cup {one}) \cup {two})
    BY <1>4, <1>7, FS_Subset
  <1>9. Cardinality(faded \cup {one}) <= Cardinality(faded') /\ Cardinality(faded') \in Nat
    BY <1>4, <1>8, FS_Subset, FS_CardinalityType
  <1>10. /\ Cardinality(faded) + 1 <= Cardinality(faded')
         /\ Cardinality(faded') <= Cardinality(faded) + 2
    BY <1>5, <1>6, <1>7, <1>8, <1>9
  <1> QED
    BY <1>2, <1>5, <1>8, <1>9, <1>10 DEF RemovalsCounted, EveryRemovalTakesCards

LEMMA CountStep ==
  ASSUME HeldInv, OneIsOnBoard, RemovalsCounted, [HeldNext]_heldVars
  PROVE  RemovalsCounted'
  <1>0. BoardType /\ TouchesType
    BY DEF HeldInv
  <1>a. ASSUME UNCHANGED <<faded, numberOfClearedCards>>
        PROVE  RemovalsCounted'
    BY <1>a DEF RemovalsCounted, EveryRemovalTakesCards
  <1>1. CASE HomeStep
    <2>1. ASSUME NEW card \in DOMAIN inGameCards, cardSelected(card)
          PROVE  RemovalsCounted'
      BY <2>1, <1>a DEF cardSelected, flipCard
    <2>2. CASE checkBlock
      BY <2>2, <1>a DEF checkBlock, checkAnswer
    <2>3. CASE resolveBlock
      <3>1. CASE removeCardsFromTheBoard /\ countSelectedCards = 2
        BY <1>0, <3>1, RemovalTakes
      <3>2. CASE ~(removeCardsFromTheBoard /\ countSelectedCards = 2)
        BY <2>3, <3>2, <1>a DEF resolveBlock, removeCardsFromTheBoard, unflipCard
      <3> QED
        BY <3>1, <3>2
    <2>4. CASE unflipAllCards
      BY <2>4, <1>a DEF unflipAllCards
    <2>5. ASSUME NEW mode \in GameModes, restartGame(mode)
          PROVE  RemovalsCounted'
      <3>1. faded' = {} /\ numberOfClearedCards' = 0
        BY <2>5, RestartFacts
      <3> QED
        BY <3>1, FS_EmptySet DEF RemovalsCounted, EveryRemovalTakesCards
    <2>6. CASE ScreenStep
      BY <2>6, <1>a, ScreenStepFacts
    <2> QED
      BY <1>1, <2>1, <2>2, <2>3, <2>4, <2>5, <2>6 DEF HomeStep
  <1>2. ASSUME NEW touch \in touches, touchUpInside(touch)
        PROVE  RemovalsCounted'
    BY <1>0, <1>2, <1>a, LiftOpens
  <1>3. CASE UNCHANGED vars
    BY <1>3, <1>a DEF vars, brain
  <1> QED
    BY <1>0, <1>1, <1>2, <1>3, HeldCases DEF touchDown, touchCancel, heldVars

\* With one finger resting on cards, every removal that is counted takes one or
\* two cards off the board, although an old card may be one of the open two and
\* a stale result may judge them.  (With two fingers both may be old.)
THEOREM OneFingerTakesCards ==
  ASSUME MaxTouches <= 1
  PROVE  HeldSpec => []EveryRemovalTakesCards
  <1>1. HeldInit => OneIsOnBoard /\ RemovalsCounted
    <2> SUFFICES ASSUME HeldInit PROVE OneIsOnBoard /\ RemovalsCounted
      OBVIOUS
    <2>1. viewDidLoad /\ flippedCardNumber = <<>> /\ touches = {}
      BY DEF HeldInit, viewDidLoad, firstBrain
    <2> QED
      BY <2>1, RemovalInit DEF OneIsOnBoard, countSelectedCards
  <1>2. HeldInv /\ OneIsOnBoard /\ RemovalsCounted /\ [HeldNext]_heldVars
          => OneIsOnBoard' /\ RemovalsCounted'
    BY OneStep, CountStep
  <1>3. RemovalsCounted => EveryRemovalTakesCards
    BY DEF RemovalsCounted
  <1> QED
    BY <1>1, <1>2, <1>3, HeldAlways, PTL DEF HeldSpec
=============================================================================
