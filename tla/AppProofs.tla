------------------------------- MODULE AppProofs -------------------------------
(***************************************************************************)
(* Proofs about App: what is proved of the game and of the session alone   *)
(* holds of the app, and they agree on what is on the screen.              *)
(***************************************************************************)
EXTENDS App, TLAPS

\* The results of HomeProofs and AuthProofs, about the variables of the app.
HomeFacts == INSTANCE HomeProofs
AuthFacts == INSTANCE AuthProofs

----------------------------------------------------------------------------
(***************************************************************************)
(* The definitions that App takes from HomeViewController and AuthFlow are *)
(* those that the proofs are about.                                        *)
(***************************************************************************)
LEMMA SameAssumptions ==
  /\ HomeFacts!LevelAssumption /\ HomeFacts!PlayerAssumption
  /\ AuthFacts!AuthAssumption
  BY AppAssumption
     DEF Home!LevelAssumption, Home!PlayerAssumption, Auth!AuthAssumption,
         HomeFacts!LevelAssumption, HomeFacts!PlayerAssumption, AuthFacts!AuthAssumption

LEMMA SameSession ==
  /\ Auth!Init <=> AuthFacts!Init
  /\ [Auth!Next]_(Auth!vars) <=> [AuthFacts!Next]_(AuthFacts!vars)
  BY DEF Auth!Init, Auth!Next, Auth!vars, Auth!client, Auth!backend, Auth!FormScreens,
         Auth!LoginFields, Auth!RegistrationFields, Auth!ResetPasswordFields,
         Auth!FieldsOf, Auth!Texts, Auth!blank, Auth!newForm, Auth!noForms,
         Auth!authenticateUser, Auth!relaunch, Auth!presentLoginController,
         Auth!loginQueued, Auth!logout, Auth!formIsValid, Auth!updateForm,
         Auth!textDidChange, Auth!push, Auth!showRegistrationController,
         Auth!showForgotPassword, Auth!popFrom, Auth!showLoginController,
         Auth!handleDismissal, Auth!send, Auth!handleLogin, Auth!handleSignUp,
         Auth!IsOut, Auth!InStage, Auth!Answered, Auth!answer, Auth!signInAccepted,
         Auth!createUserOnBackend, Auth!createUserAccepted, Auth!uploadAccepted,
         Auth!requestRejected, Auth!signOutByForce, Auth!dismissLogin,
         Auth!signInCompletion, Auth!createUserCompletion, Auth!uploadCompletion,
         AuthFacts!Init, AuthFacts!Next, AuthFacts!vars, AuthFacts!client,
         AuthFacts!backend, AuthFacts!FormScreens, AuthFacts!LoginFields,
         AuthFacts!RegistrationFields, AuthFacts!ResetPasswordFields,
         AuthFacts!FieldsOf, AuthFacts!Texts, AuthFacts!blank, AuthFacts!newForm,
         AuthFacts!noForms, AuthFacts!authenticateUser, AuthFacts!relaunch,
         AuthFacts!presentLoginController, AuthFacts!loginQueued, AuthFacts!logout,
         AuthFacts!formIsValid, AuthFacts!updateForm, AuthFacts!textDidChange,
         AuthFacts!push, AuthFacts!showRegistrationController,
         AuthFacts!showForgotPassword, AuthFacts!popFrom,
         AuthFacts!showLoginController, AuthFacts!handleDismissal, AuthFacts!send,
         AuthFacts!handleLogin, AuthFacts!handleSignUp, AuthFacts!IsOut,
         AuthFacts!InStage, AuthFacts!Answered, AuthFacts!answer,
         AuthFacts!signInAccepted, AuthFacts!createUserOnBackend,
         AuthFacts!createUserAccepted, AuthFacts!uploadAccepted,
         AuthFacts!requestRejected, AuthFacts!signOutByForce, AuthFacts!dismissLogin,
         AuthFacts!signInCompletion, AuthFacts!createUserCompletion,
         AuthFacts!uploadCompletion

LEMMA SameGame ==
  /\ Home!viewDidLoad <=> HomeFacts!viewDidLoad
  /\ [Home!Next]_(Home!vars) <=> [HomeFacts!Next]_(HomeFacts!vars)
  BY DEF Home!viewDidLoad, Home!Next, Home!vars, Home!brain, Home!timers, Home!ui,
         Home!layout, Home!Alerts, Home!Sheets, Home!pendingJobs, Home!OneLess,
         Home!Numbers, Home!Deals, Home!LineOf, Home!numberOfImagesToCreateCards,
         Home!numberOfLinesNeedToPlaceCards, Home!newCards, Home!firstBrain,
         Home!newBrain, Home!countSelectedCards, Home!saveUsersChoice,
         Home!deleteUsersChoice, Home!CanFlip, Home!flipCard, Home!Chosen,
         Home!unflipCard, Home!removeCardsFromTheBoard, Home!AnswerIsRight,
         Home!checkAnswer, Home!gameCleared, Home!gameOver, Home!present,
         Home!Uncovered, Home!OnDisplay, Home!updateTurns, Home!Touchable,
         Home!cardSelected,
         Home!checkBlock, Home!resolveBlock, Home!unflipAllCards, Home!configureUI,
         Home!initailizeCardGame, Home!restartGame, Home!handleResetButton,
         Home!confirmAlert, Home!handleScoreButton, Home!chooseLevel,
         Home!handleLogout, Home!logout, Home!cancelSheet,
         Home!presentLoginController, Home!loginDismissed, Home!MayTap,
         Home!MayRestart, Home!MayOpenSheet,
         HomeFacts!viewDidLoad, HomeFacts!Next, HomeFacts!vars, HomeFacts!brain,
         HomeFacts!timers, HomeFacts!ui, HomeFacts!layout, HomeFacts!Alerts,
         HomeFacts!Sheets, HomeFacts!pendingJobs, HomeFacts!OneLess,
         HomeFacts!Numbers, HomeFacts!Deals, HomeFacts!LineOf,
         HomeFacts!numberOfImagesToCreateCards,
         HomeFacts!numberOfLinesNeedToPlaceCards, HomeFacts!newCards,
         HomeFacts!firstBrain, HomeFacts!newBrain, HomeFacts!countSelectedCards,
         HomeFacts!saveUsersChoice, HomeFacts!deleteUsersChoice, HomeFacts!CanFlip,
         HomeFacts!flipCard, HomeFacts!Chosen, HomeFacts!unflipCard,
         HomeFacts!removeCardsFromTheBoard, HomeFacts!AnswerIsRight,
         HomeFacts!checkAnswer, HomeFacts!gameCleared, HomeFacts!gameOver,
         HomeFacts!present, HomeFacts!Uncovered, HomeFacts!OnDisplay,
         HomeFacts!updateTurns,
         HomeFacts!Touchable, HomeFacts!cardSelected, HomeFacts!checkBlock,
         HomeFacts!resolveBlock, HomeFacts!unflipAllCards, HomeFacts!configureUI,
         HomeFacts!initailizeCardGame, HomeFacts!restartGame,
         HomeFacts!handleResetButton, HomeFacts!confirmAlert,
         HomeFacts!handleScoreButton, HomeFacts!chooseLevel, HomeFacts!handleLogout,
         HomeFacts!logout, HomeFacts!cancelSheet, HomeFacts!presentLoginController,
         HomeFacts!loginDismissed, HomeFacts!MayTap, HomeFacts!MayRestart,
         HomeFacts!MayOpenSheet

----------------------------------------------------------------------------
(***************************************************************************)
(* Every step of the app is a step of the session or leaves it alone, and  *)
(* every step but a relaunch is one of the game or leaves that alone.      *)
(***************************************************************************)
LEMMA SessionStep == [Next]_vars => [Auth!Next]_(Auth!vars)
  <1> SUFFICES ASSUME [Next]_vars, ~UNCHANGED Auth!vars
               PROVE  Auth!Next
    OBVIOUS
  <1>0. UNCHANGED session => UNCHANGED Auth!vars
    BY DEF session, Auth!vars
  <1>1. CASE relaunch
    BY <1>1 DEF relaunch, Auth!Next
  <1>2. CASE presentLoginController
    BY <1>2 DEF presentLoginController, Auth!Next
  <1>3. CASE logout
    BY <1>0, <1>3 DEF logout, Auth!Next
  <1>4. CASE play \/ gameBlock
    BY <1>0, <1>4 DEF play, gameBlock
  <1>5. CASE fillForms
    BY <1>5 DEF fillForms, Auth!Next
  <1>6. CASE backendStep
    BY <1>6 DEF backendStep, Auth!Next
  <1>7. CASE \E slot \in Slots : signInCompletion(slot) \/ signUpCompletion(slot)
    BY <1>7 DEF signInCompletion, signUpCompletion, Auth!Next
  <1>8. CASE UNCHANGED vars
    <2>1. UNCHANGED session
      BY <1>8 DEF vars
    <2> QED
      BY <1>0, <2>1
  <1> QED
    BY <1>1, <1>2, <1>3, <1>4, <1>5, <1>6, <1>7, <1>8 DEF Next

LEMMA GameStep == [Next]_vars => relaunch \/ [Home!Next]_(Home!vars)
  <1> SUFFICES ASSUME [Next]_vars, ~UNCHANGED Home!vars, ~relaunch
               PROVE  Home!Next
    OBVIOUS
  <1>0. UNCHANGED game => UNCHANGED Home!vars
    BY DEF game, Home!vars, Home!brain, Home!timers, Home!ui, Home!layout
  <1>1. CASE presentLoginController
    BY <1>1 DEF presentLoginController, Home!Next
  <1>2. CASE logout
    BY <1>2 DEF logout, Home!Next
  <1>3. CASE play
    BY <1>3 DEF play, Home!Next
  <1>4. CASE gameBlock
    BY <1>4 DEF gameBlock, Home!Next
  <1>5. CASE fillForms \/ backendStep
    BY <1>0, <1>5 DEF fillForms, backendStep
  <1>6. CASE \E slot \in Slots : signInCompletion(slot) \/ signUpCompletion(slot)
    BY <1>0, <1>6 DEF signInCompletion, signUpCompletion, Home!Next
  <1>7. CASE UNCHANGED vars
    <2>1. UNCHANGED game
      BY <1>7 DEF vars
    <2> QED
      BY <1>0, <2>1
  <1> QED
    BY <1>1, <1>2, <1>3, <1>4, <1>5, <1>6, <1>7 DEF Next

\* A relaunch leaves the home screen as viewDidLoad leaves it.
LEMMA RelaunchStartsGame == relaunch => Home!viewDidLoad'
  BY DEF relaunch, Home!newBrain, Home!viewDidLoad, Home!firstBrain, Home!newCards,
         Home!Numbers, Home!Deals, Home!numberOfLinesNeedToPlaceCards

----------------------------------------------------------------------------
(***************************************************************************)
(* The parts in the whole.                                                 *)
(***************************************************************************)
\* In the app the session behaves as AuthFlow says, although its screens are
\* presented and dismissed by the home screen: all that is proved of AuthFlow
\* holds of the app.
THEOREM AppRunsSession == Spec => Auth!Spec
  <1>1. Init => Auth!Init
    BY DEF Init
  <1> QED
    BY <1>1, SessionStep, PTL DEF Spec, Auth!Spec

\* The home screen is uncovered only for a signed-in user, or one whose token was
\* revoked under it, with the game running behind the login screen.
LEMMA AppHomeNeedsUser == Spec => [](Auth!HomeNeedsUser /\ screen \in Auth!Screens)
  <1>1. Auth!Spec => AuthFacts!Spec
    <2>1. Auth!Init => AuthFacts!Init
      BY SameSession
    <2>2. [Auth!Next]_(Auth!vars) => [AuthFacts!Next]_(AuthFacts!vars)
      BY SameSession
    <2> QED
      BY <2>1, <2>2, PTL DEF Auth!Spec, AuthFacts!Spec
  <1>2. AuthFacts!Spec => []AuthFacts!HomeNeedsUser
    BY SameAssumptions, AuthFacts!HomeAlwaysNeedsUser
  <1>3. AuthFacts!Spec => []AuthFacts!TypeOK
    BY SameAssumptions, AuthFacts!TypeCorrect
  <1>4. AuthFacts!HomeNeedsUser /\ AuthFacts!TypeOK
          => Auth!HomeNeedsUser /\ screen \in Auth!Screens
    BY DEF AuthFacts!HomeNeedsUser, AuthFacts!TypeOK, AuthFacts!Screens,
           AuthFacts!FormScreens, Auth!HomeNeedsUser, Auth!Screens, Auth!FormScreens
  <1> QED
    BY <1>1, <1>2, <1>3, <1>4, AppRunsSession, PTL

\* The invariant of the game survives relaunches.
LEMMA AppKeepsGameInv == Spec => []HomeFacts!GameInv
  <1>1. Home!viewDidLoad => HomeFacts!GameInv
    BY SameAssumptions, SameGame, HomeFacts!GameStarts
  <1>2. Init => HomeFacts!GameInv
    BY <1>1 DEF Init
  <1>3. relaunch => HomeFacts!GameInv'
    BY <1>1, RelaunchStartsGame, PTL
  <1>4. HomeFacts!GameInv /\ [Home!Next]_(Home!vars) => HomeFacts!GameInv'
    BY SameAssumptions, SameGame, HomeFacts!GameGoesOn
  <1>5. HomeFacts!GameInv /\ [Next]_vars => HomeFacts!GameInv'
    BY <1>3, <1>4, GameStep
  <1> QED
    BY <1>2, <1>5, PTL DEF Spec

\* What holds of the home screen alone holds of it in the app, with logouts,
\* late sign-ins and relaunches: an open pair is pending, the selection is on
\* the board, alerts are true, removals take cards, the score is fresh and every
\* card is shown.
THEOREM AppKeepsGameSound ==
  Spec => [](/\ Home!TypeOK
             /\ Home!OpenPairIsPending
             /\ Home!SelectionOnBoard
             /\ Home!AlertIsTruthful
             /\ Home!EveryRemovalTakesCards
             /\ Home!ScoreIsFresh
             /\ Home!EveryCardIsShown)
  <1> USE DEF Home!Numbers, Home!Deals, Home!numberOfImagesToCreateCards, Home!LineOf,
              Home!countSelectedCards, Home!gameCleared, Home!gameOver, Home!pendingJobs,
              HomeFacts!Numbers, HomeFacts!Deals, HomeFacts!numberOfImagesToCreateCards,
              HomeFacts!LineOf, HomeFacts!countSelectedCards, HomeFacts!gameCleared,
              HomeFacts!gameOver, HomeFacts!pendingJobs
  <1>1. HomeFacts!TypeOK => Home!TypeOK
    BY DEF Home!TypeOK, Home!Job, Home!Screens, Home!Alerts, Home!Sheets,
           HomeFacts!TypeOK, HomeFacts!Job, HomeFacts!Screens, HomeFacts!Alerts,
           HomeFacts!Sheets
  <1>2. HomeFacts!OpenPairIsPending => Home!OpenPairIsPending
    BY DEF Home!OpenPairIsPending, HomeFacts!OpenPairIsPending
  <1>3. HomeFacts!SelectionOnBoard => Home!SelectionOnBoard
    BY DEF Home!SelectionOnBoard, HomeFacts!SelectionOnBoard
  <1>4. HomeFacts!AlertIsTruthful => Home!AlertIsTruthful
    BY DEF Home!AlertIsTruthful, HomeFacts!AlertIsTruthful
  <1>5. HomeFacts!RemovalsCounted => Home!EveryRemovalTakesCards
    BY DEF Home!EveryRemovalTakesCards, HomeFacts!RemovalsCounted,
           HomeFacts!EveryRemovalTakesCards, Home!Cardinality, HomeFacts!Cardinality
  <1>6. HomeFacts!ScoreIsFresh => Home!ScoreIsFresh
    BY DEF Home!ScoreIsFresh, HomeFacts!ScoreIsFresh
  <1>7. HomeFacts!TypeOK /\ HomeFacts!LinesOfExpert => Home!EveryCardIsShown
    <2>1. HomeFacts!TypeOK /\ HomeFacts!LinesOfExpert => HomeFacts!EveryCardIsShown
      BY SameAssumptions, HomeFacts!LinesShowCards
    <2> QED
      BY <2>1 DEF Home!EveryCardIsShown, HomeFacts!EveryCardIsShown
  <1> QED
    BY <1>1, <1>2, <1>3, <1>4, <1>5, <1>6, <1>7, AppKeepsGameInv, PTL
       DEF HomeFacts!GameInv

----------------------------------------------------------------------------
(***************************************************************************)
(* The two sides agree on the screen.  Not inductive by itself: the block  *)
(* that presents the login screen must find nothing presented.  It does:   *)
(* LaunchWaits, of the invariant of the game, says that no job that could  *)
(* bring up an alert is pending before that block has run.                 *)
(***************************************************************************)
\* updateTurns neither presents the login screen nor takes it away.
LEMMA updateTurnsKeepsLogin ==
  ASSUME NEW shown, Home!updateTurns(shown)
  PROVE  presented' = "login" <=> shown = "login"
  BY DEF Home!updateTurns, Home!present

\* A step of the session alone stays among the forms, or on the home screen.
LEMMA FormsStayForms ==
  ASSUME fillForms \/ backendStep \/ \E slot \in Slots : signUpCompletion(slot)
  PROVE  /\ (screen' \in Auth!FormScreens) <=> (screen \in Auth!FormScreens)
         /\ (screen' = "launching") <=> (screen = "launching")
         /\ UNCHANGED <<presented, loginQueued>>
  <1>1. UNCHANGED game
    BY DEF fillForms, backendStep, signUpCompletion
  <1>2. UNCHANGED <<presented, loginQueued>>
    BY <1>1 DEF game
  <1>3. CASE fillForms
    BY <1>2, <1>3 DEF fillForms, Auth!textDidChange, Auth!showRegistrationController,
       Auth!showForgotPassword, Auth!push, Auth!showLoginController, Auth!handleDismissal,
       Auth!popFrom, Auth!handleLogin, Auth!handleSignUp, Auth!send, Auth!client,
       Auth!FormScreens
  <1>4. CASE backendStep
    BY <1>2, <1>4 DEF backendStep, Auth!signOutByForce, Auth!signInAccepted,
       Auth!createUserOnBackend, Auth!createUserAccepted, Auth!uploadAccepted,
       Auth!requestRejected, Auth!client
  <1>5. CASE \E slot \in Slots : signUpCompletion(slot)
    BY <1>2, <1>5 DEF signUpCompletion, Auth!createUserCompletion, Auth!uploadCompletion,
       Auth!client
  <1> QED
    BY <1>3, <1>4, <1>5

LEMMA ScreensStep ==
  HomeFacts!GameInv /\ ScreensAgree /\ [Next]_vars => ScreensAgree'
  <1> SUFFICES ASSUME HomeFacts!LaunchWaits, ScreensAgree, [Next]_vars
               PROVE  ScreensAgree'
    BY DEF HomeFacts!GameInv
  <1> USE DEF ScreensAgree
  <1>1. CASE relaunch
    BY <1>1 DEF relaunch, Auth!relaunch, Auth!authenticateUser, Auth!FormScreens
  <1>2. CASE presentLoginController
    <2>1. presented' = "login" /\ loginQueued' = FALSE
      BY <1>2 DEF presentLoginController, Home!presentLoginController, Home!present,
                  HomeFacts!LaunchWaits
    <2>2. screen' = "login"
      BY <1>2 DEF presentLoginController, Auth!loginQueued, Auth!presentLoginController
    <2> QED
      BY <2>1, <2>2 DEF Auth!FormScreens
  <1>3. CASE logout
    <2>1. CASE Home!logout(TRUE) /\ Auth!logout
      BY <2>1 DEF Home!logout, Auth!logout, Auth!presentLoginController, Auth!FormScreens
    <2>2. CASE Home!logout(FALSE) /\ UNCHANGED session
      BY <2>2 DEF Home!logout, session
    <2> QED
      BY <1>3, <2>1, <2>2 DEF logout
  <1>4. CASE play
    <2>0. screen' = screen
      BY <1>4 DEF play, session
    <2>1. CASE \E card \in DOMAIN inGameCards : Home!MayTap /\ Home!cardSelected(card)
      BY <2>0, <2>1 DEF Home!cardSelected, Home!Touchable, Home!Uncovered, Home!ui
    <2>2. ASSUME NEW mode, Home!restartGame(mode), presented # "login"
          PROVE  ScreensAgree'
      <3>1. presented' # "login" /\ loginQueued' = loginQueued
        BY <2>2, updateTurnsKeepsLogin DEF Home!restartGame
      <3> QED
        BY <2>0, <2>2, <3>1
    <2>3. CASE Home!handleResetButton
      BY <2>2, <2>3 DEF Home!handleResetButton, Home!Uncovered
    <2>4. CASE Home!confirmAlert
      BY <2>2, <2>4 DEF Home!confirmAlert, Home!Alerts
    <2>5. CASE \E mode \in GameModes : Home!chooseLevel(mode)
      BY <2>2, <2>5 DEF Home!chooseLevel
    <2>6. CASE Home!handleScoreButton \/ Home!handleLogout
      BY <2>0, <2>6 DEF Home!handleScoreButton, Home!handleLogout, Home!OnDisplay,
                        Home!Uncovered, Home!present
    <2>7. CASE Home!cancelSheet
      BY <2>0, <2>7 DEF Home!cancelSheet, Home!Sheets
    <2> QED
      BY <1>4, <2>1, <2>3, <2>4, <2>5, <2>6, <2>7 DEF play
  <1>5. CASE gameBlock
    <2>0. screen' = screen
      BY <1>5 DEF gameBlock, session
    <2>1. CASE Home!checkBlock
      <3>1. (presented' = "login" <=> presented = "login") /\ loginQueued' = loginQueued
        BY <2>1, updateTurnsKeepsLogin DEF Home!checkBlock
      <3> QED
        BY <2>0, <3>1
    <2>2. CASE Home!resolveBlock
      <3>1. (presented' = "login" <=> presented = "login") /\ loginQueued' = loginQueued
        BY <2>2, updateTurnsKeepsLogin DEF Home!resolveBlock
      <3> QED
        BY <2>0, <3>1
    <2>3. CASE Home!unflipAllCards
      BY <2>0, <2>3 DEF Home!unflipAllCards, Home!ui
    <2> QED
      BY <1>5, <2>1, <2>2, <2>3 DEF gameBlock
  <1>6. CASE fillForms \/ backendStep \/ \E slot \in Slots : signUpCompletion(slot)
    BY <1>6, FormsStayForms
  <1>7. ASSUME NEW slot \in Slots, signInCompletion(slot)
        PROVE  ScreensAgree'
    <2>1. screen' = "home" \/ screen' = screen
      BY <1>7 DEF signInCompletion, Auth!signInCompletion, Auth!dismissLogin, Auth!client
    <2>2. CASE Home!loginDismissed /\ screen' = "home"
      BY <2>2 DEF Home!loginDismissed, Auth!FormScreens
    <2>3. CASE (screen = "home" \/ screen' # "home") /\ UNCHANGED game
      <3>1. screen' = screen
        BY <2>1, <2>3
      <3> QED
        BY <2>3, <3>1 DEF game
    <2> QED
      BY <1>7, <2>2, <2>3 DEF signInCompletion
  <1>8. CASE UNCHANGED vars
    <2>1. UNCHANGED game /\ UNCHANGED session
      BY <1>8 DEF vars
    <2> QED
      BY <2>1 DEF game, session
  <1> QED
    BY <1>1, <1>2, <1>3, <1>4, <1>5, <1>6, <1>7, <1>8 DEF Next

\* The login screen that the home screen presents and the one the session is on
\* are the same at all times: no alert of a late block keeps it away, no late
\* completion dismisses it on one side only.
THEOREM ScreensAlwaysAgree == Spec => []ScreensAgree
  <1>1. Init => ScreensAgree
    BY DEF Init, Auth!Init, Auth!authenticateUser, Auth!FormScreens, Home!viewDidLoad,
           ScreensAgree
  <1> QED
    BY <1>1, ScreensStep, AppKeepsGameInv, PTL DEF Spec

----------------------------------------------------------------------------
(***************************************************************************)
(* Only a signed-in user opens cards.                                      *)
(***************************************************************************)
\* A step that opens a card is a touch of the uncovered home screen, and the
\* login block that viewDidLoad may have queued has run: until then every card
\* is face up, and flipCard opens none that is.
LEMMA OpeningIsTouch ==
  ASSUME Home!TypeOK, HomeFacts!LaunchWaits, [Next]_vars,
         Len(flippedCardNumber') > Len(flippedCardNumber)
  PROVE  presented = "nothing" /\ ~loginQueued
  <1>0. Len(flippedCardNumber) \in Nat
    BY DEF Home!TypeOK
  <1>1. flippedCardNumber' # <<>> /\ flippedCardNumber' # flippedCardNumber
    BY <1>0
  <1>2. ~relaunch
    BY <1>1 DEF relaunch, Home!newBrain
  <1>3. ~UNCHANGED Home!vars
    BY <1>1 DEF Home!vars, Home!brain
  <1>4. Home!Next
    BY <1>2, <1>3, GameStep
  <1>5. ASSUME NEW mode, Home!restartGame(mode) PROVE FALSE
    BY <1>1, <1>5 DEF Home!restartGame, Home!initailizeCardGame, Home!newBrain
  <1>6. ~(Home!handleResetButton \/ Home!confirmAlert)
    BY <1>5 DEF Home!handleResetButton, Home!confirmAlert
  <1>7. ~(\E mode \in GameModes : Home!chooseLevel(mode))
    BY <1>5 DEF Home!chooseLevel
  <1>8. ~(Home!checkBlock \/ Home!unflipAllCards)
    BY <1>1 DEF Home!checkBlock, Home!checkAnswer, Home!unflipAllCards
  <1>9. ~Home!resolveBlock
    BY <1>1 DEF Home!resolveBlock, Home!removeCardsFromTheBoard, Home!unflipCard,
                Home!deleteUsersChoice
  <1>10. ~(Home!handleScoreButton \/ Home!handleLogout \/ Home!cancelSheet
           \/ Home!presentLoginController \/ Home!loginDismissed)
    BY <1>1 DEF Home!handleScoreButton, Home!handleLogout, Home!cancelSheet,
                Home!presentLoginController, Home!loginDismissed, Home!brain
  <1>11. ~(\E signedOut \in BOOLEAN : Home!logout(signedOut))
    BY <1>1 DEF Home!logout, Home!brain
  <1>12. PICK card \in DOMAIN inGameCards : Home!cardSelected(card)
    BY <1>4, <1>6, <1>7, <1>8, <1>9, <1>10, <1>11 DEF Home!Next
  <1>13. presented = "nothing"
    BY <1>12 DEF Home!cardSelected, Home!Touchable, Home!Uncovered
  <1>14. ~isFlipped[card]
    BY <1>1, <1>12 DEF Home!cardSelected, Home!flipCard, Home!CanFlip
  <1>15. card \in DOMAIN isFlipped
    BY <1>12 DEF Home!TypeOK, Home!Deals
  <1> QED
    BY <1>13, <1>14, <1>15 DEF HomeFacts!LaunchWaits

\* Cards are opened by a signed-in user, or by one whose token was revoked while
\* the board was on display: neither before the queued login screen covers the
\* board that viewDidLoad dealt face up, nor behind that screen.
THEOREM OnlyUsersEverPlay == Spec => OnlyUsersPlay
  <1>1. ASSUME Home!TypeOK, HomeFacts!GameInv, ScreensAgree, Auth!HomeNeedsUser,
               screen \in Auth!Screens, [Next]_vars
        PROVE  [Len(flippedCardNumber') > Len(flippedCardNumber)
                  => currentUser # None \/ revoked]_vars
    <2> SUFFICES ASSUME Len(flippedCardNumber') > Len(flippedCardNumber)
                 PROVE  currentUser # None \/ revoked
      OBVIOUS
    <2>1. presented = "nothing" /\ ~loginQueued
      BY <1>1, OpeningIsTouch DEF HomeFacts!GameInv
    <2>2. screen = "home"
      BY <1>1, <2>1 DEF ScreensAgree, Auth!Screens
    <2> QED
      BY <1>1, <2>2 DEF Auth!HomeNeedsUser
  <1> QED
    BY <1>1, AppKeepsGameInv, AppKeepsGameSound, AppHomeNeedsUser, ScreensAlwaysAgree, PTL
       DEF Spec, OnlyUsersPlay
=============================================================================
