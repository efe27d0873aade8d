SPECIFICATION Spec
CONSTANTS
  easy = easy
  hard = hard
  expert = expert
  cardImages = {apple, lemon}
  GameModes <- TwoLevels
  chooseGameModes <- TwoBoards
  CardsPerLine = 2
  LinesOnBoard = 2
  gameOverCondition = 2
  EagerRestart = TRUE
  ExtraTaps = TRUE
  EagerSheets = TRUE
  MaxJobs = 3
  MaxDeals = 2
  MaxTries = 3
SYMMETRY AnyImage
INVARIANTS
  TypeOK
  OpenPairIsPending
  SelectionOnBoard
  EveryRemovalTakesCards
  AlertIsTruthful
  ScoreIsFresh
  EveryCardIsShown
