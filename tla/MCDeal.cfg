SPECIFICATION FairSpec
CONSTANTS
  easy = easy
  hard = hard
  expert = expert
  cardImages = {apple, lemon, ghost, frog}
  GameModes <- Levels3
  chooseGameModes <- Boards3
  CardsPerLine = 2
  LinesOnBoard = 4
  gameOverCondition = 20
INVARIANTS
  TypeOK
  NoIndexOutOfRange
  BoardIsADeal
  EveryCardIsPlaced
PROPERTY
  BoardIsMade
