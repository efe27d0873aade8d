-------------------------- MODULE HomeViewController --------------------------
(***************************************************************************)
(* The home screen (HomeViewController.swift): it owns the card game, sets *)
(* the timers that judge a pair and turn the dealt cards face down, keeps  *)
(* the score title, and presents alerts, action sheets and the login       *)
(* screen.                                                                 *)
(*                                                                         *)
(* Everything runs on the main queue, so a handler or a timer block is one *)
(* atomic step; what interleaves is their order.  A judging job is the     *)
(* pair of blocks that cardSelected hands to asyncAfter: the check after   *)
(* 0.10 s and the resolution after 0.75 s, which share the variable        *)
(* "result".  Blocks with the same delay run in the order in which they    *)
(* were scheduled; a job's check runs before its resolution, and so does   *)
(* every check scheduled before that check ran (it is due 0.10 s later at  *)
(* the latest); a block with the 2 s delay runs after every shorter one    *)
(* scheduled before it, and so after the login block that viewDidLoad      *)
(* queues without a delay.  No other order is assumed.                     *)
(*                                                                         *)
(* Every block reaches the game through "self", so it acts on the game in  *)
(* progress when it runs, not on the one in progress when it was           *)
(* scheduled.                                                              *)
(***************************************************************************)
EXTENDS CardGame, FiniteSets

CONSTANTS
  EagerRestart,  \* may the player restart before the dealt cards turn over?
  ExtraTaps,     \* may the player touch a card while two are open?
  EagerSheets,   \* may the player open a sheet while a pair is being judged?
  MaxJobs,       \* bound: judging jobs pending at a time
  MaxDeals,      \* bound: face-down timers pending at a time
  MaxTries       \* bound: tries of one game

ASSUME PlayerAssumption ==
  /\ EagerRestart \in BOOLEAN
  /\ ExtraTaps \in BOOLEAN
  /\ EagerSheets \in BOOLEAN
  /\ MaxJobs \in Nat \ {0}
  /\ MaxDeals \in Nat \ {0}
  /\ MaxTries \in Nat

VARIABLES
  currentGameMode,  \* the level the user chose
  checks,           \* how many jobs still wait for their check block
  results,          \* the jobs that wait for their resolution, oldest first: their
                    \* "result", and how many checks are due before it
  faceDownTimers,   \* one entry per pending unflipAllCards block, oldest first:
                    \* how many of the jobs scheduled before it are pending
  score,            \* the number of tries in the title of the score button
  presented,        \* what the home screen presents modally
  loginQueued,      \* is authenticateUser's async block pending?
  horizontalNumberOfLinesNeededToPlaceCards,  \* lazy, evaluated once
  numberOfLinesNeedToCreate                   \* lines the board shows

ui == <<score, presented, loginQueued>>
timers == <<checks, results, faceDownTimers>>
layout == <<horizontalNumberOfLinesNeededToPlaceCards, numberOfLinesNeedToCreate>>
vars == <<brain, currentGameMode, timers, ui, layout>>

Alerts == {"Game Clear", "Game Over"}
Sheets == {"levels", "logout"}
Screens == {"nothing", "login"} \cup Alerts \cup Sheets

Job == [right : BOOLEAN, checksAhead : Nat]

pendingJobs == checks + Len(results)

\* One of the blocks that were counted as due earlier has run.
OneLess(n) == IF n > 0 THEN n - 1 ELSE 0
----------------------------------------------------------------------------
(***************************************************************************)
(* viewDidLoad: authenticateUser (which queues the login screen when no    *)
(* user is signed in), the first deal with its timer, configureUI.  The    *)
(* lazy line count is read here, after the deal, for the first time.       *)
(***************************************************************************)
\* Fault: the lazy line count is read before the cards are dealt.
LinesReadTooEarly ==
  /\ currentGameMode = expert
  /\ firstBrain(expert)
  /\ checks = 0
  /\ results = <<>>
  /\ faceDownTimers = <<0>>
  /\ score = 0
  /\ presented = "nothing"
  /\ loginQueued \in BOOLEAN
  /\ horizontalNumberOfLinesNeededToPlaceCards = 0
  /\ numberOfLinesNeedToCreate = 0

viewDidLoad ==
  /\ currentGameMode = expert
  /\ firstBrain(expert)
  /\ checks = 0
  /\ results = <<>>
  /\ faceDownTimers = <<0>>
  /\ score = 0
  /\ presented = "nothing"
  /\ loginQueued \in BOOLEAN
  /\ horizontalNumberOfLinesNeededToPlaceCards = numberOfLinesNeedToPlaceCards(expert)
  /\ numberOfLinesNeedToCreate = horizontalNumberOfLinesNeededToPlaceCards

----------------------------------------------------------------------------
(***************************************************************************)
(* Presenting.  UIKit ignores present(_:) while something is presented.    *)
(* "shown" is what is presented when the call is made.                     *)
(***************************************************************************)
\* Fault: what is presented already is replaced.
presentOverAnything(screen, shown) == presented' = screen

present(screen, shown) ==
  presented' = IF shown = "nothing" THEN screen ELSE shown

\* The user can touch the home screen when nothing covers it.
Uncovered == presented = "nothing"

\* A sheet can be opened once the home screen was drawn.  The login screen that
\* viewDidLoad queued, before there was a window to touch, has been presented then.
OnDisplay == Uncovered /\ ~loginQueued

\* Faults: updateTurns announces the end one try early, or only when all is cleared.
OverOneTryEarly(shown) ==
  /\ \/ gameCleared' /\ present("Game Clear", shown)
     \/ ~gameCleared' /\ turnsLeftTillGameOver' <= 1 /\ present("Game Over", shown)
     \/ ~gameCleared' /\ turnsLeftTillGameOver' > 1 /\ presented' = shown
  /\ score' = userHasTried'

OverNotAnnounced(shown) ==
  /\ \/ gameCleared' /\ present("Game Clear", shown)
     \/ ~gameCleared' /\ presented' = shown
  /\ score' = userHasTried'

\* updateTurns, with the score title its callers set from the value returned.
updateTurns(shown) ==
  /\ \/ gameCleared' /\ present("Game Clear", shown)
     \/ ~gameCleared' /\ gameOver' /\ present("Game Over", shown)
     \/ ~gameCleared' /\ ~gameOver' /\ presented' = shown
  /\ score' = userHasTried'

----------------------------------------------------------------------------
(***************************************************************************)
(* Playing.                                                                *)
(***************************************************************************)
\* A card takes touches unless it has faded or its line is not in the board.
Touchable(card) ==
  /\ Uncovered
  /\ card \notin faded
  /\ LineOf(card) < numberOfLinesNeedToCreate

\* Faults: the cards are counted before the flip; the check is scheduled twice.
CountsBeforeFlip(card) ==
  /\ Touchable(card)
  /\ flipCard(card)
  /\ checks' = IF countSelectedCards = 2 THEN checks + 1 ELSE checks
  /\ UNCHANGED <<currentGameMode, results, faceDownTimers, ui, layout>>

ChecksTwice(card) ==
  /\ Touchable(card)
  /\ flipCard(card)
  /\ checks' = IF countSelectedCards' = 2 THEN checks + 2 ELSE checks
  /\ UNCHANGED <<currentGameMode, results, faceDownTimers, ui, layout>>

cardSelected(card) ==
  /\ Touchable(card)
  /\ flipCard(card)
  /\ checks' = IF countSelectedCards' = 2 THEN checks + 1 ELSE checks
  /\ UNCHANGED <<currentGameMode, results, faceDownTimers, ui, layout>>

\* Fault: the resolution captured "result" by value, before it was computed.
ResultCapturedEarly ==
  /\ checks > 0
  /\ checkAnswer
  /\ checks' = checks - 1
  /\ results' = Append(results, [right |-> FALSE, checksAhead |-> 0])
  /\ updateTurns(presented)
  /\ UNCHANGED <<currentGameMode, faceDownTimers, loginQueued, layout>>

\* The block after 0.10 s: judge the open cards and remember the result.
checkBlock ==
  /\ checks > 0
  /\ checkAnswer
  /\ checks' = checks - 1
  /\ results' = Append([j \in DOMAIN results |->
                          [results[j] EXCEPT !.checksAhead = OneLess(@)]],
                       [right |-> AnswerIsRight, checksAhead |-> checks - 1])
  /\ updateTurns(presented)
  /\ UNCHANGED <<currentGameMode, faceDownTimers, loginQueued, layout>>

\* The block after 0.75 s: remove or turn over whatever cards are open now.
resolveBlock ==
  /\ results # <<>>
  /\ Head(results).checksAhead = 0
  /\ \/ Head(results).right /\ removeCardsFromTheBoard
     \/ ~Head(results).right /\ unflipCard
  /\ results' = Tail(results)
  /\ faceDownTimers' = [t \in DOMAIN faceDownTimers |-> OneLess(faceDownTimers[t])]
  /\ updateTurns(presented)
  /\ UNCHANGED <<currentGameMode, checks, loginQueued, layout>>

\* Fault: the loop over the lines returns after the first one.
UnflipsFirstLine ==
  /\ faceDownTimers # <<>>
  /\ Head(faceDownTimers) = 0
  /\ ~loginQueued
  /\ isFlipped' = [c \in DOMAIN isFlipped |-> isFlipped[c] /\ LineOf(c) > 0]
  /\ faceDownTimers' = Tail(faceDownTimers)
  /\ UNCHANGED <<difficulty, inGameCards, faded, flippedCardNumber,
                 imagesThatUserHasChosen, numberOfClearedCards, userHasTried,
                 currentGameMode, checks, results, ui, layout>>

\* The block after 2 s: turn every card of the current board face down.
unflipAllCards ==
  /\ faceDownTimers # <<>>
  /\ Head(faceDownTimers) = 0
  /\ ~loginQueued
  /\ isFlipped' = [c \in DOMAIN isFlipped |-> FALSE]
  /\ faceDownTimers' = Tail(faceDownTimers)
  /\ UNCHANGED <<difficulty, inGameCards, faded, flippedCardNumber,
                 imagesThatUserHasChosen, numberOfClearedCards, userHasTried,
                 currentGameMode, checks, results, ui, layout>>

----------------------------------------------------------------------------
(***************************************************************************)
(* Restarting: a new brain and a new board, laid out before the deal; the  *)
(* pending blocks are not cancelled.                                       *)
(***************************************************************************)
\* configureUI tells the new board how many lines to show (sendDataToBoard).
configureUI ==
  /\ numberOfLinesNeedToCreate' = horizontalNumberOfLinesNeededToPlaceCards
  /\ UNCHANGED horizontalNumberOfLinesNeededToPlaceCards

\* The cards are dealt and placed, and their timer starts.
initailizeCardGame(mode) ==
  /\ newBrain(mode)
  /\ faceDownTimers' = Append(faceDownTimers, pendingJobs)

\* Fault: the score title is not refreshed.
RestartKeepsScore(mode) ==
  /\ currentGameMode' = mode
  /\ configureUI
  /\ initailizeCardGame(mode)
  /\ presented' = "nothing"
  /\ UNCHANGED <<checks, results, score, loginQueued>>

restartGame(mode) ==
  /\ currentGameMode' = mode
  /\ configureUI
  /\ initailizeCardGame(mode)
  /\ updateTurns("nothing")
  /\ UNCHANGED <<checks, results, loginQueued>>

handleResetButton ==
  /\ Uncovered
  /\ restartGame(currentGameMode)

\* The user confirms the alert, which is gone when its handler runs.
confirmAlert ==
  /\ presented \in Alerts
  /\ restartGame(currentGameMode)

handleScoreButton ==
  /\ OnDisplay
  /\ present("levels", presented)
  /\ UNCHANGED <<brain, currentGameMode, timers, score, loginQueued, layout>>

chooseLevel(mode) ==
  /\ presented = "levels"
  /\ restartGame(mode)

----------------------------------------------------------------------------
(***************************************************************************)
(* Logging out and in.  Whether signOut throws, when a user is signed in   *)
(* and when the login screen dismisses itself is up to AuthFlow.           *)
(***************************************************************************)
handleLogout ==
  /\ OnDisplay
  /\ present("logout", presented)
  /\ UNCHANGED <<brain, currentGameMode, timers, score, loginQueued, layout>>

logout(signedOut) ==
  /\ presented = "logout"
  /\ presented' = IF signedOut THEN "login" ELSE "nothing"
  /\ UNCHANGED <<brain, currentGameMode, timers, score, loginQueued, layout>>

cancelSheet ==
  /\ presented \in Sheets
  /\ presented' = "nothing"
  /\ UNCHANGED <<brain, currentGameMode, timers, score, loginQueued, layout>>

\* The block authenticateUser queued.
presentLoginController ==
  /\ loginQueued
  /\ loginQueued' = FALSE
  /\ present("login", presented)
  /\ UNCHANGED <<brain, currentGameMode, timers, score, layout>>

loginDismissed ==
  /\ presented = "login"
  /\ presented' = "nothing"
  /\ UNCHANGED <<brain, currentGameMode, timers, score, loginQueued, layout>>
----------------------------------------------------------------------------
(***************************************************************************)
(* The player, and the bounds of the model.                                *)
(***************************************************************************)
MayTap ==
  /\ ExtraTaps \/ countSelectedCards < 2
  /\ pendingJobs < MaxJobs
  /\ userHasTried + checks < MaxTries

MayRestart ==
  /\ EagerRestart \/ faceDownTimers = <<>>
  /\ Len(faceDownTimers) < MaxDeals

MayOpenSheet == EagerSheets \/ pendingJobs = 0

Next ==
  \/ \E card \in DOMAIN inGameCards : MayTap /\ cardSelected(card)
  \/ checkBlock
  \/ resolveBlock
  \/ unflipAllCards
  \/ MayRestart /\ handleResetButton
  \/ MayRestart /\ confirmAlert
  \/ MayOpenSheet /\ handleScoreButton
  \/ \E mode \in GameModes : MayRestart /\ chooseLevel(mode)
  \/ MayOpenSheet /\ handleLogout
  \/ \E signedOut \in BOOLEAN : logout(signedOut)
  \/ cancelSheet
  \/ presentLoginController
  \/ loginDismissed

Spec == viewDidLoad /\ [][Next]_vars

(***************************************************************************)
(* The main queue runs every block it was given.  The user owes nothing.   *)
(***************************************************************************)
MainQueue ==
  /\ WF_vars(checkBlock)
  /\ WF_vars(resolveBlock)
  /\ WF_vars(unflipAllCards)
  /\ WF_vars(presentLoginController)

FairSpec == Spec /\ MainQueue
----------------------------------------------------------------------------
(***************************************************************************)
(* Properties of every player.                                             *)
(***************************************************************************)
\* The types of the variables.  The game in progress is one of the level the
\* user chose, and at most two cards are open.
TypeOK ==
  /\ currentGameMode \in GameModes
  /\ difficulty = currentGameMode
  /\ inGameCards \in Deals(difficulty)
  /\ isFlipped \in [Numbers(difficulty) -> BOOLEAN]
  /\ faded \subseteq Numbers(difficulty)
  /\ flippedCardNumber \in Seq(Numbers(difficulty))
  /\ imagesThatUserHasChosen \in Seq(cardImages)
  /\ Len(flippedCardNumber) <= 2
  /\ numberOfClearedCards \in Nat
  /\ userHasTried \in Nat
  /\ checks \in Nat
  /\ results \in Seq(Job)
  /\ faceDownTimers \in Seq(Nat)
  /\ score \in Nat
  /\ presented \in Screens
  /\ loginQueued \in BOOLEAN
  /\ horizontalNumberOfLinesNeededToPlaceCards \in Nat
  /\ numberOfLinesNeedToCreate \in Nat

\* While two cards are open flipCard refuses every further card, so the board
\* would be stuck if no block were left to close them: one always is.
OpenPairIsPending == countSelectedCards = 2 => pendingJobs > 0

\* What the brain remembers of the open cards stays true of the board, through
\* restarts and late blocks: the cards are still there, the images are theirs.
SelectionOnBoard ==
  /\ Len(imagesThatUserHasChosen) = Len(flippedCardNumber)
  /\ \A i \in DOMAIN flippedCardNumber :
       /\ flippedCardNumber[i] \notin faded
       /\ imagesThatUserHasChosen[i] = inGameCards[flippedCardNumber[i]]

\* Every removal that removeCardsFromTheBoard counts took one or two cards off
\* the board, so gameCleared is never reached by removals that took nothing.
EveryRemovalTakesCards ==
  /\ numberOfClearedCards <= Cardinality(faded)
  /\ Cardinality(faded) <= 2 * numberOfClearedCards

\* An alert on display tells the truth about the game behind it, whatever
\* blocks run while the user reads it.
AlertIsTruthful ==
  /\ presented = "Game Clear" => gameCleared
  /\ presented = "Game Over" => gameOver

\* The score title shows the tries of the game in progress.
ScoreIsFresh == score = userHasTried

\* Every card is in a line that the board shows, although the number of lines
\* sent to each new board was computed once, from the first game.
EveryCardIsShown ==
  \A card \in DOMAIN inGameCards : LineOf(card) < numberOfLinesNeedToCreate

\* Two open cards do not stay open: the resolution always comes.
OpenPairIsResolved == countSelectedCards = 2 ~> countSelectedCards # 2

\* A Game Over alert that was dropped because a sheet was open is not lost for
\* good: the next pair that is opened over the limit is judged, and updateTurns
\* presents the alert again unless something else is on display.
LostAlertComesBack ==
  userHasTried >= gameOverCondition /\ countSelectedCards = 2
    ~> presented # "nothing" \/ userHasTried < gameOverCondition

\* Dealt cards do not stay face up: the whole board is turned face down.
DealIsTurnedDown ==
  faceDownTimers # <<>> ~> \A card \in DOMAIN isFlipped : ~isFlipped[card]

----------------------------------------------------------------------------
(***************************************************************************)
(* Properties of the player who waits (see EagerRestart, ExtraTaps and     *)
(* EagerSheets).                                                           *)
(***************************************************************************)
\* Until the dealt cards turn over none can be opened, at most one deal is
\* waiting for that, and the opened cards are face up and different: the
\* inductive invariant behind TwoDifferentCards.
BoardWaits ==
  /\ Len(faceDownTimers) <= 1
  /\ faceDownTimers # <<>> =>
       flippedCardNumber = <<>> /\ \A card \in DOMAIN isFlipped : isFlipped[card]
  /\ \A i \in DOMAIN flippedCardNumber : isFlipped[flippedCardNumber[i]]
  /\ \A i, j \in DOMAIN flippedCardNumber :
       flippedCardNumber[i] = flippedCardNumber[j] => i = j

\* A player who does not restart during the deal opens two different cards.
TwoDifferentCards ==
  countSelectedCards = 2 => flippedCardNumber[1] # flippedCardNumber[2]

\* An open pair is judged by one job and nothing else is: the jobs that a restart
\* has left behind are done before the cards of the new deal turn over, so none
\* of them meets a pair of the new game.
OneJobPerPair ==
  /\ faceDownTimers = <<>> => pendingJobs = (IF countSelectedCards = 2 THEN 1 ELSE 0)
  /\ faceDownTimers # <<>> => pendingJobs = Head(faceDownTimers)

\* The result that a resolution acts on is that of the two cards open now.
VerdictIsFresh ==
  countSelectedCards = 2 /\ results # <<>> =>
    (Head(results).right <=>
       inGameCards[flippedCardNumber[1]] = inGameCards[flippedCardNumber[2]])

\* Cards leave the board in matching pairs, and each pair is counted once.
RemovedInPairs ==
  /\ \A c, d \in DOMAIN inGameCards :
       inGameCards[c] = inGameCards[d] /\ c \in faded => d \in faded
  /\ Cardinality(faded) = 2 * numberOfClearedCards

\* A pair is charged one try: no try is counted while a verdict is out.
ChargedOnce ==
  [][userHasTried' > userHasTried => results = <<>> /\ countSelectedCards = 2]_vars

\* When the game has ended, the alert that says so is on display.
EndIsAnnounced == gameCleared \/ gameOver => presented \in Alerts

----------------------------------------------------------------------------
(***************************************************************************)
(* What comments and messages of the source say, and some player refutes.  *)
(***************************************************************************)
\* The player who is told to succeed next time has not succeeded.
OverMeansNotCleared == presented = "Game Over" => ~gameCleared
=============================================================================
