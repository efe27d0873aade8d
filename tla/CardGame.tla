------------------------------ MODULE CardGame ------------------------------
(***************************************************************************)
(* The card-matching game: the brain (CardGameBrain.swift) and the cards   *)
(* on the board (Cards.swift, Board.swift).                                *)
(*                                                                         *)
(* A card is known by its number; "inGameCards" gives the image on it.     *)
(* What the screen shows of a card is its isFlipped flag (face up or down) *)
(* and its alpha (0 once the pair was removed).                            *)
(*                                                                         *)
(* The operators below say what the methods of the brain do to this state; *)
(* HomeViewController decides when they are called.                        *)
(***************************************************************************)
EXTENDS Levels, Sequences

VARIABLES
  difficulty,               \* the level of this game
  inGameCards,              \* card number -> image
  isFlipped,                \* card number -> is the card face up?
  faded,                    \* numbers of the cards whose alpha is 0
  flippedCardNumber,        \* numbers of the cards the user has opened
  imagesThatUserHasChosen,  \* the images on them
  numberOfClearedCards,     \* how often a pair was removed
  userHasTried              \* how many pairs were judged

brain == <<difficulty, inGameCards, isFlipped, faded, flippedCardNumber,
           imagesThatUserHasChosen, numberOfClearedCards, userHasTried>>

----------------------------------------------------------------------------
\* Fault: new cards are face down.
faceDownCards(m) == [c \in Numbers(m) |-> FALSE]

\* New cards are face up.
newCards(m) == [c \in Numbers(m) |-> TRUE]

\* A new CardGameBrain for level m whose generateGameInfo has run: fresh
\* cards, all face up and visible, nothing opened, cleared or tried.
firstBrain(m) ==
  /\ difficulty = m
  /\ inGameCards \in Deals(m)
  /\ isFlipped = newCards(m)
  /\ faded = {}
  /\ flippedCardNumber = <<>>
  /\ imagesThatUserHasChosen = <<>>
  /\ numberOfClearedCards = 0
  /\ userHasTried = 0

newBrain(m) ==
  /\ difficulty' = m
  /\ inGameCards' \in Deals(m)
  /\ isFlipped' = newCards(m)
  /\ faded' = {}
  /\ flippedCardNumber' = <<>>
  /\ imagesThatUserHasChosen' = <<>>
  /\ numberOfClearedCards' = 0
  /\ userHasTried' = 0

----------------------------------------------------------------------------
(***************************************************************************)
(* The methods of the brain.                                               *)
(***************************************************************************)
countSelectedCards == Len(flippedCardNumber)

saveUsersChoice(card) ==
  /\ flippedCardNumber' = Append(flippedCardNumber, card)
  /\ imagesThatUserHasChosen' = Append(imagesThatUserHasChosen, inGameCards[card])

deleteUsersChoice ==
  /\ flippedCardNumber' = <<>>
  /\ imagesThatUserHasChosen' = <<>>

\* Faults: flipCard forgets one half of its guard.
NoLimitOfTwo(card) == ~isFlipped[card]
FaceUpAllowed(card) == countSelectedCards < 2

\* The guard of flipCard: fewer than two cards open, and this one face down.
CanFlip(card) == countSelectedCards < 2 /\ ~isFlipped[card]

flipCard(card) ==
  /\ \/ /\ CanFlip(card)
        /\ isFlipped' = [isFlipped EXCEPT ![card] = TRUE]
        /\ saveUsersChoice(card)
     \/ /\ ~CanFlip(card)
        /\ UNCHANGED <<isFlipped, flippedCardNumber, imagesThatUserHasChosen>>
  /\ UNCHANGED <<difficulty, inGameCards, faded, numberOfClearedCards, userHasTried>>

\* The cards that unflipCard and removeCardsFromTheBoard look for.
Chosen == {flippedCardNumber[1], flippedCardNumber[2]}

\* Fault: unflipCard does not forget the user's choice.
unflipKeepsChoice ==
  /\ isFlipped' = [c \in DOMAIN isFlipped |->
                    isFlipped[c] /\ ~(countSelectedCards = 2 /\ c \in Chosen)]
  /\ UNCHANGED <<difficulty, inGameCards, faded, flippedCardNumber,
                 imagesThatUserHasChosen, numberOfClearedCards, userHasTried>>

unflipCard ==
  /\ \/ /\ countSelectedCards = 2
        /\ isFlipped' = [c \in DOMAIN isFlipped |-> isFlipped[c] /\ c \notin Chosen]
        /\ deleteUsersChoice
     \/ /\ countSelectedCards # 2
        /\ UNCHANGED <<isFlipped, flippedCardNumber, imagesThatUserHasChosen>>
  /\ UNCHANGED <<difficulty, inGameCards, faded, numberOfClearedCards, userHasTried>>

\* Fault: removeCardsFromTheBoard does not forget the user's choice.
removeKeepsChoice ==
  /\ countSelectedCards = 2
  /\ faded' = faded \cup (Chosen \cap DOMAIN isFlipped)
  /\ numberOfClearedCards' = numberOfClearedCards + 1
  /\ UNCHANGED <<difficulty, inGameCards, isFlipped, flippedCardNumber,
                 imagesThatUserHasChosen, userHasTried>>

\* Fault: the removal is counted before the guard.
removeCountsFirst ==
  /\ numberOfClearedCards' = numberOfClearedCards + 1
  /\ \/ /\ countSelectedCards = 2
        /\ faded' = faded \cup (Chosen \cap DOMAIN isFlipped)
        /\ deleteUsersChoice
     \/ /\ countSelectedCards # 2
        /\ UNCHANGED <<faded, flippedCardNumber, imagesThatUserHasChosen>>
  /\ UNCHANGED <<difficulty, inGameCards, isFlipped, userHasTried>>

removeCardsFromTheBoard ==
  /\ \/ /\ countSelectedCards = 2
        /\ faded' = faded \cup (Chosen \cap DOMAIN isFlipped)
        /\ numberOfClearedCards' = numberOfClearedCards + 1
        /\ deleteUsersChoice
     \/ /\ countSelectedCards # 2
        /\ UNCHANGED <<faded, numberOfClearedCards, flippedCardNumber,
                       imagesThatUserHasChosen>>
  /\ UNCHANGED <<difficulty, inGameCards, isFlipped, userHasTried>>

\* Fault: any two cards are taken for a pair.
AnyTwoAreRight == Len(imagesThatUserHasChosen) = 2

\* What checkAnswer returns, and what it changes.
AnswerIsRight ==
  /\ Len(imagesThatUserHasChosen) = 2
  /\ imagesThatUserHasChosen[1] = imagesThatUserHasChosen[2]

checkAnswer ==
  /\ userHasTried' = IF Len(imagesThatUserHasChosen) = 2
                     THEN userHasTried + 1 ELSE userHasTried
  /\ UNCHANGED <<difficulty, inGameCards, isFlipped, faded, flippedCardNumber,
                 imagesThatUserHasChosen, numberOfClearedCards>>

turnsLeftTillGameOver == gameOverCondition - userHasTried

gameCleared == numberOfClearedCards >= numberOfImagesToCreateCards(difficulty)

\* Fault: only the try that reaches the limit ends the game.
overAtLimitOnly == userHasTried = gameOverCondition

gameOver == userHasTried >= gameOverCondition
=============================================================================
