SPECIFICATION Spec
CONSTANTS
  expert = expert
  cardImages = {apple}
  GameModes <- OneLevel
  chooseGameModes <- OneBoard
  CardsPerLine = 2
  LinesOnBoard = 1
  gameOverCondition = 2
  EagerRestart = TRUE
  ExtraTaps = FALSE
  EagerSheets = TRUE
  MaxJobs = 1
  MaxDeals = 2
  MaxTries = 2
  Emails = {ann}
  Passwords = {secret}
  Fullnames = {name}
  Empty = Empty
  None = None
  Slots = {s1}
INVARIANT ScreensAgree
PROPERTIES
  OnlyUsersPlay
  SignInUncoversGame
