SPECIFICATION Spec
CONSTANTS
  easy = easy
  hard = hard
  expert = expert
  cardImages = {apple, lemon}
  GameModes <- TwoLevels
  chooseGameModes <- TwoBoards
  CardsPerLine = 2
  LinesOnBoard = 2
  gameOverCondition = 3
  EagerRestart = TRUE
  ExtraTaps = FALSE
  EagerSheets = FALSE
  MaxJobs = 1
  MaxDeals = 2
  MaxTries = 3
INVARIANT TwoDifferentCards
