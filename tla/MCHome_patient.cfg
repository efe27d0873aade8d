SPECIFICATION Spec
CONSTANTS
  easy = easy
  hard = hard
  expert = expert
  cardImages = {apple, lemon, ghost}
  GameModes <- ThreeLevels
  chooseGameModes <- ThreeBoards
  CardsPerLine = 2
  LinesOnBoard = 3
  gameOverCondition = 4
  EagerRestart = FALSE
  ExtraTaps = FALSE
  EagerSheets = FALSE
  MaxJobs = 3
  MaxDeals = 2
  MaxTries = 5
SYMMETRY AnyImage
INVARIANTS
  BoardWaits
  OneJobPerPair
  VerdictIsFresh
  RemovedInPairs
  EndIsAnnounced
PROPERTY
  ChargedOnce
  ImplementsMemoryGame
