---------------------------------- MODULE App ----------------------------------
(***************************************************************************)
(* The app: the game of the home screen together with the session.  The    *)
(* home screen is the root of the window; the login screen is presented    *)
(* over it, and the blocks of the game go on running underneath.           *)
(*                                                                         *)
(* Steps that both sides know are taken together: queueing and presenting  *)
(* the login screen, signing out, dismissing the login screen, relaunching *)
(* the app.  Every other step belongs to one side and leaves the other     *)
(* alone.                                                                  *)
(***************************************************************************)
EXTENDS Naturals, Sequences

CONSTANTS  \* of the game
  expert, cardImages, GameModes, chooseGameModes, CardsPerLine, LinesOnBoard,
  gameOverCondition, EagerRestart, ExtraTaps, EagerSheets, MaxJobs, MaxDeals, MaxTries

CONSTANTS  \* of the session
  Emails, Passwords, Fullnames, Empty, None, Slots

VARIABLES  \* of the game
  difficulty, inGameCards, isFlipped, faded, flippedCardNumber, imagesThatUserHasChosen,
  numberOfClearedCards, userHasTried, currentGameMode, checks, results, faceDownTimers,
  score, presented, loginQueued, horizontalNumberOfLinesNeededToPlaceCards,
  numberOfLinesNeedToCreate

VARIABLES  \* of the session
  screen, forms, requests, currentUser, revoked, accounts, profiles, reported

Home == INSTANCE HomeViewController
Auth == INSTANCE AuthFlow

\* The assumptions of the two sides.
ASSUME AppAssumption ==
  Home!LevelAssumption /\ Home!PlayerAssumption /\ Auth!AuthAssumption

game == <<difficulty, inGameCards, isFlipped, faded, flippedCardNumber,
          imagesThatUserHasChosen, numberOfClearedCards, userHasTried, currentGameMode,
          checks, results, faceDownTimers, score, presented, loginQueued,
          horizontalNumberOfLinesNeededToPlaceCards, numberOfLinesNeedToCreate>>
session == <<screen, forms, requests, currentUser, revoked, accounts, profiles, reported>>
vars == <<game, session>>
----------------------------------------------------------------------------
\* viewDidLoad of the home screen, with authenticateUser.
Init ==
  /\ Auth!Init
  /\ Home!viewDidLoad
  /\ loginQueued = (currentUser = None)

\* A new process: viewDidLoad again, for whatever user the keychain has.
relaunch ==
  /\ Auth!relaunch
  /\ currentGameMode' = expert
  /\ Home!newBrain(expert)
  /\ checks' = 0
  /\ results' = <<>>
  /\ faceDownTimers' = <<0>>
  /\ score' = 0
  /\ presented' = "nothing"
  /\ loginQueued' = (currentUser = None)
  /\ horizontalNumberOfLinesNeededToPlaceCards' = Home!numberOfLinesNeedToPlaceCards(expert)
  /\ numberOfLinesNeedToCreate' = Home!numberOfLinesNeedToPlaceCards(expert)

\* The block that authenticateUser queued.
presentLoginController == Home!presentLoginController /\ Auth!loginQueued

\* The user confirms the sheet of handleLogout; signOut may throw.
logout ==
  \/ Home!logout(TRUE) /\ Auth!logout
  \/ Home!logout(FALSE) /\ UNCHANGED session

\* The completion of a sign-in, which may dismiss the login screen.
signInCompletion(slot) ==
  /\ Auth!signInCompletion(slot)
  /\ \/ screen # "home" /\ screen' = "home" /\ Home!loginDismissed
     \/ (screen = "home" \/ screen' # "home") /\ UNCHANGED game

\* The steps of the game alone.
play ==
  /\ \/ \E card \in DOMAIN inGameCards : Home!MayTap /\ Home!cardSelected(card)
     \/ Home!MayRestart /\ Home!handleResetButton
     \/ Home!MayRestart /\ Home!confirmAlert
     \/ Home!MayOpenSheet /\ Home!handleScoreButton
     \/ \E mode \in GameModes : Home!MayRestart /\ Home!chooseLevel(mode)
     \/ Home!MayOpenSheet /\ Home!handleLogout
     \/ Home!cancelSheet
  /\ UNCHANGED session

gameBlock ==
  /\ Home!checkBlock \/ Home!resolveBlock \/ Home!unflipAllCards
  /\ UNCHANGED session

\* The steps of the session alone.
fillForms ==
  /\ \/ \E field \in {"email", "password", "fullname"} :
          \E text \in Auth!Texts(field) : Auth!textDidChange(field, text)
     \/ Auth!showRegistrationController
     \/ Auth!showForgotPassword
     \/ Auth!showLoginController
     \/ Auth!handleDismissal
     \/ \E slot \in Slots : Auth!handleLogin(slot) \/ Auth!handleSignUp(slot)
  /\ UNCHANGED game

backendStep ==
  /\ \/ Auth!signOutByForce
     \/ \E slot \in Slots :
          \/ Auth!signInAccepted(slot)
          \/ Auth!createUserOnBackend(slot)
          \/ Auth!createUserAccepted(slot)
          \/ Auth!uploadAccepted(slot)
          \/ Auth!requestRejected(slot)
  /\ UNCHANGED game

signUpCompletion(slot) ==
  /\ Auth!createUserCompletion(slot) \/ Auth!uploadCompletion(slot)
  /\ UNCHANGED game

Next ==
  \/ relaunch
  \/ presentLoginController
  \/ logout
  \/ play
  \/ gameBlock
  \/ fillForms
  \/ backendStep
  \/ \E slot \in Slots : signInCompletion(slot) \/ signUpCompletion(slot)

(***************************************************************************)
(* The main queue runs every block it was given, here of both sides.       *)
(***************************************************************************)
MainQueue ==
  /\ WF_vars(presentLoginController)
  /\ WF_vars(Home!checkBlock /\ UNCHANGED session)
  /\ WF_vars(Home!resolveBlock /\ UNCHANGED session)
  /\ WF_vars(Home!unflipAllCards /\ UNCHANGED session)
  /\ \A slot \in Slots : WF_vars(signInCompletion(slot)) /\ WF_vars(signUpCompletion(slot))

Spec == Init /\ [][Next]_vars /\ MainQueue
----------------------------------------------------------------------------
\* What the home screen presents and what the session believes is on display
\* agree, although alerts of blocks that run behind the login screen, sheets and
\* late completions compete for the presentation.
ScreensAgree ==
  /\ (presented = "login") <=> (screen \in Auth!FormScreens)
  /\ loginQueued <=> (screen = "launching")

\* Cards are opened only by a signed-in user, or one whose token was revoked
\* with the board on display.  Touches do get to the board that was dealt at
\* launch before the queued login screen covers it: what keeps its cards closed
\* is that they are face up for 2 s and flipCard refuses such a card.
OnlyUsersPlay ==
  [][Len(flippedCardNumber') > Len(flippedCardNumber) => currentUser # None \/ revoked]_vars

\* A sign-in that was accepted uncovers the game, whatever its blocks do
\* meanwhile, unless the token is revoked.
SignInUncoversGame ==
  \A slot \in Slots :
    Auth!InStage(slot, "signIn", "accepted") /\ requests[slot].onScreen
      ~> revoked \/ (presented # "login" /\ ~loginQueued)
=============================================================================
