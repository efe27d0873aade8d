-------------------------------- MODULE Levels --------------------------------
(***************************************************************************)
(* The levels of the card game (GameModes.swift), the images of the cards  *)
(* (CardGameBrain.swift) and the shape of the board (Board.swift).         *)
(***************************************************************************)
EXTENDS Integers

CONSTANTS
  cardImages,         \* the images a card can carry (27 emoji)
  GameModes,          \* the levels: easy, hard, expert
  chooseGameModes,    \* how many cards a level has: 12, 16, 20
  expert,             \* the level of the first game
  CardsPerLine,       \* cards in one line of the board: 4
  LinesOnBoard,       \* stack views of a Board: 5
  gameOverCondition   \* tries after which the game is over: 20

(***************************************************************************)
(* The levels have an even number of cards, fill whole lines, fit on the   *)
(* board, and none is larger than the first one.                           *)
(***************************************************************************)
ASSUME LevelAssumption ==
  /\ CardsPerLine \in Nat \ {0}
  /\ LinesOnBoard \in Nat
  /\ gameOverCondition \in Nat \ {0}
  /\ expert \in GameModes
  /\ chooseGameModes \in [GameModes -> Nat \ {0}]
  /\ \A m \in GameModes : /\ chooseGameModes[m] % 2 = 0
                          /\ chooseGameModes[m] % CardsPerLine = 0
                          /\ chooseGameModes[m] <= CardsPerLine * LinesOnBoard
                          /\ chooseGameModes[m] <= chooseGameModes[expert]

Numbers(m) == 0 .. chooseGameModes[m] - 1

\* Fault: one image per card instead of one per pair.
imageForEveryCard(m) == chooseGameModes[m]

numberOfImagesToCreateCards(m) == chooseGameModes[m] \div 2

numberOfLinesNeedToPlaceCards(m) == chooseGameModes[m] \div CardsPerLine

\* The line (from 0) in which arrangeCardsIntoSubviewsAndAddActions puts card c.
LineOf(c) == c \div CardsPerLine

\* What generateCardsWithImage can leave in inGameCards: each card has exactly
\* one partner with the same image. (DealCards shows that its loop does this.)
Deals(m) ==
  { deal \in [Numbers(m) -> cardImages] :
      \A c \in Numbers(m) :
        \E d \in Numbers(m) \ {c} :
          \A e \in Numbers(m) : deal[e] = deal[c] <=> e \in {c, d} }
=============================================================================
