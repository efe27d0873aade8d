SPECIFICATION Spec
CONSTANTS
  easy = easy
  hard = hard
  expert = expert
  cardImages = {apple, lemon}
  GameModes <- TwoLevels
  chooseGameModes <- TwoBoards
  CardsPerLine = 2
  LinesOnBoard = 2
  gameOverCondition = 2
  EagerRestart = FALSE
  ExtraTaps = FALSE
  EagerSheets = FALSE
  MaxJobs = 1
  MaxDeals = 1
  MaxTries = 3
INVARIANT OverMeansNotCleared
