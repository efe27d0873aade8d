SPECIFICATION HeldSpec
CONSTANTS
  easy = easy
  expert = expert
  cardImages = {apple, lemon}
  GameModes <- TwoLevels
  chooseGameModes <- TwoBoards
  CardsPerLine = 2
  LinesOnBoard = 2
  gameOverCondition = 2
  EagerRestart = TRUE
  ExtraTaps = FALSE
  EagerSheets = FALSE
  MaxJobs = 2
  MaxDeals = 2
  MaxTries = 2
  MaxTouches = 1
SYMMETRY AnyImage
INVARIANTS
  HeldTypeOK
  OpenPairIsPending
  EveryRemovalTakesCards
