# Verification of the Card Nil app (login, sign-up and card game)

The app is an iOS program in Swift (`src/LoginPage_Udemy/LoginPage_Udemy`, about
1300 lines; `Pods/` is vendored). A user signs in with Firebase and then plays a
memory game: cards are dealt face up, turn over after two seconds, and are opened two
at a time; equal cards leave the board; twenty tries are allowed.

Nothing in it is multi-threaded in the usual sense. What makes it hard is *order*:
blocks handed to `DispatchQueue.main.asyncAfter` that outlive the game they were made
for, handlers that run while such blocks are pending, `present` calls that UIKit drops,
and Firebase completions that arrive when the user has moved on. The Database client
below it is sequential as well (one queue), but faces a network that loses connections
and answers.

## 1. Inventory

| Component | State | Operations | Meets | Should be true |
|---|---|---|---|---|
| `CardGameBrain`, `Cards`, `GameModes` | cards, open cards and their images, cleared pairs, tries | `flipCard`, `unflipCard`, `removeCardsFromTheBoard`, `checkAnswer`, `gameCleared`, `gameOver` | called by the home screen | at most two open cards, which are on the board; removals match the count of pairs |
| dealing (`chooseCardImagesFromImageList`, `generateCardsWithImage`, `arrangeCardsIntoSubviewsAndAddActions`) | drawn images, images left, lines of the board | three loops | called by the home screen | ends; two cards per image; every card on the board |
| `HomeViewController`, `Board` | game in progress, level, timers, score title, what is presented, cached number of lines | touches, check block (0.10 s), resolve block (0.75 s), face-down block (2 s), restart, level and logout sheets, alerts | owns the brain; presents the login screen | an open pair is closed; verdict is of the open pair; alerts true and shown; score of this game |
| `LoginController`, `RegistrationController`, `ResetPasswordController`, view models | text fields, button, navigation | edits, log in, sign up, push, pop, completions | Firebase; dismissed onto the home screen | no empty credentials; an accepted sign-in reaches home; profile of the right account |
| launch and session (`AppDelegate`, `authenticateUser`, `logout`) | current user (keychain) | launch, log out | decides whether login covers home | home only for a signed-in user |
| Firebase Auth (vendored) | current user, accounts, requests | answer on a work queue, then complete on the main queue | called by the screens | taken from the vendored client |
| Firebase Database connection (vendored) | connection state, token, outstanding writes, reasons to stay closed, scheduled attempt | fetch a token, connect, authenticate, write, restore, reconnect, be interrupted | carries the upload of a profile; told of users by Auth | each write answered once, in order, as its user; never stuck |
| `Extensions`, `CustomTextField`, `DividerView`, other pods | none | layout | | not modelled |

The hazards of this code are listed, with their lines, in `PROJECT.json`.

## 2. Modules

| Module | Models | Extends |
|---|---|---|
| `Levels` | sizes of the levels, lines of the board, what a deal may be | |
| `CardGame` | the brain and the cards; one operator per method | `Levels` |
| `HomeViewController` | the home screen: one action per handler and per block | `CardGame` |
| `DealCards` | the dealing and placing loops, one iteration per step | `Levels` |
| `AuthFlow` | the three forms, requests and completions, session, relaunch, Firebase clients | |
| `HeldTouch` | fingers resting on cards while the game is restarted, and the old boards | `HomeViewController` |
| `MemoryGame` | abstract: the memory game as its player knows it | `Levels` |
| `HomeRefinement` | the home screen of a patient player implements `MemoryGame` | `HomeViewController` |
| `App` | the composition: game and session with one screen | instances of `HomeViewController`, `AuthFlow` |
| `PersistentConnection` | the connection of the Database client, network and server | |
| `WriteQueue` | abstract: what the Database client promises a writer | |
| `HomeProofs` | theorems about `HomeViewController`, for every player | `HomeViewController` |
| `PatientProofs` | theorems about the player who waits; the refinement of `MemoryGame` | `HomeProofs`, `HomeRefinement` |
| `HeldProofs` | theorems about `HeldTouch` | `HeldTouch`, `HomeProofs` |
| `DealProofs` | theorems about `DealCards` | `DealCards` |
| `AuthProofs` | theorems about `AuthFlow` | `AuthFlow` |
| `AppProofs` | theorems about `App` | `App`; instances of `HomeProofs`, `AuthProofs` |
| `ConnectionProofs` | theorems about `PersistentConnection`; the refinement of `WriteQueue` | `PersistentConnection` |
| `MCHome`, `MCHeld`, `MCDeal`, `MCAuth`, `MCApp`, `MCConnection` | constants for TLC | |

Names follow the source. Operators introduced by the words "Fault:" are
deliberately wrong versions of the definition that follows them; they are used by no
specification and serve to see that each property would notice such a mistake.

### CardGame and HomeViewController

A card is its number; `inGameCards` gives its image, `isFlipped` and `faded` (alpha 0)
what is seen of it. `firstBrain`/`newBrain` are a new brain whose cards are dealt, in
one step, as any member of `Deals(m)`; that the loops produce exactly such boards
is what `DealCards` is for.

Handlers and blocks run one at a time on the main queue, so each is an action:

* `cardSelected` is the whole handler: `flipCard`, which may refuse, and then the
  test on the number of open cards *after* it, which schedules a judging job. A refused
  tap on a third card passes this test too.
* A **job** is the pair of blocks of `cardSelected`. Jobs waiting for the check are
  indistinguishable, so `checks` counts them; jobs waiting for the resolution are the
  sequence `results`, each with its captured `result`.
* `checkBlock`, `resolveBlock` and `unflipAllCards` act on the game in progress, as
  the blocks do through `self`. `updateTurns` is part of each, with the alert it presents
  and the score title its caller writes.
* `restartGame` replaces brain and board and cancels nothing; it is called by the reset
  button, the alerts and the level sheet.
* `present` keeps what is presented already: UIKit ignores the second call.
* `Uncovered`: cards and the reset button take touches whenever nothing is presented, also
  at launch while the login screen is still queued (`loginQueued`). The two bar buttons
  that open a sheet are different (`OnDisplay`): a sheet opened before the queued block ran
  would make UIKit drop the login screen for good. The block is queued in `viewDidLoad`,
  before the window was drawn once, so the model assumes of UIKit that it runs before such
  a touch is delivered. No line of the app sees to that.

Time is abstracted to the order it guarantees. Blocks with equal delays run in the order
they were scheduled. A resolution is due 0.65 s after its check, so every check
scheduled before that check ran is due earlier: `checksAhead` counts these.
A face-down block runs after the resolutions of all jobs scheduled before it:
`faceDownTimers` counts those. It also runs after the login block, which `viewDidLoad`
queues first and without a delay. Any other order is possible in the model, e.g. a
face-down block before or after a job scheduled later. The order of due times is taken
for the order of execution, so a main thread that stalls for longer than 0.65 s is left
out; no property is decided by `checksAhead`.

What the player does is bounded by constants. `ExtraTaps`, `EagerRestart` and
`EagerSheets` say whether they tap while two cards are open, restart while the dealt
cards are face up, and open a sheet while a pair is judged: the three things that
the code does not prevent. `MaxJobs`, `MaxDeals` and `MaxTries` bound the pending jobs,
the pending face-down blocks and the tries of a game.

### MemoryGame and HomeRefinement

`MemoryGame` knows a board, the cards off it, the cards open in this turn, whether
the turn was charged, and the tries. `HomeRefinement` maps the home screen to it: the open
cards are the selection as a set (so opening one card twice is no step of the game), and a
turn is judged when two cards are open and the check of some job has run. Jobs that a
restart left behind, face-down blocks, sheets and the score are invisible. The
refinement holds for the patient player only; `home_selfmatch` shows one of the steps of
another player that is none of the game.

### HeldTouch

A card reports `touchUpInside`, so a finger that went down before a restart is lifted
after it, on a card that is no longer on the board. `configureUI` has laid the new board
over the old one without removing it, and the old card still calls `cardSelected`. The
module adds the fingers (`touches`) and what an old card keeps of its own. `touchUpInside` is
`cardSelected` for either kind; an old card's number and image go into the selection of the
new brain, whatever card has that number now. A full-screen login takes the
home screen out of the window and cancels the touches. `MaxTouches` bounds the fingers.

### DealCards

The three loops, with `imagesForCards` as the number of copies left of each image.
Drawing from an empty array or reading past the end of one (both would crash)
is a state without successor, so TLC's deadlock check covers them; `NoIndexOutOfRange`
says it as an invariant.

### AuthFlow

`screen` is what the user sees, `forms` the fields, view model and button of each
form. A request occupies a slot and goes through the stages the client gives it: sent;
for sign-ups, created on the backend; accepted or rejected on the client's
work queue, where an accepted one becomes `currentUser` and is saved in the keychain
*before* its completion is queued on the main queue; then the completion.
`onScreen` says whether the login screen that sent a sign-in is still presented: `dismiss`
does nothing in a controller that is not. The user may edit, navigate, send
another request or be signed out by force at any moment, and the app may be killed
(`relaunch`): the keychain and the backend survive, requests do not.
The uid of an account is represented by its email.

### App

Both sides keep their variables. A step that both know is one action of `App`: launch and
relaunch (`viewDidLoad` with `authenticateUser`), the queued block that presents the login
screen, logging out, and the completion that dismisses the login screen. All others are
steps of one side, with the other unchanged. The home screen has `presented` and
`loginQueued`, the session has `screen`; that they agree is not built in but checked.

### PersistentConnection and WriteQueue

`updateChildValues` of the sign-up ends in `putInternal`. Handlers, timers and callbacks
run on the one database queue: an action each. Environment actions are the network
(`connectionLost`), the server (`serverAuth`, `serverUnauth`, `serverPut`,
`serverRevokes`, `serverShutsDown`) and Auth (token callbacks, `refreshAuthToken`).

* `tryScheduleReconnect` captures and clears `forceAuthTokenRefresh`; `scheduledRetry` is
  the task of the retry helper, which replaces one that is scheduled already.
* A token fetch is identified by its attempt number in the code; the model tells the
  fetch of the current attempt (`latestFetch`) from earlier ones (`staleFetches`).
* A message stands for its callback, too: `requestCBHash` is emptied when the connection
  closes. Messages of a connection arrive in order or are lost with it, since a
  closed `FConnection` is released and its late messages reach nobody.
* A write (put) is its number. A sent one carries the token the client had when it
  sent it, which is no part of the message but what `WriteIsJudgedAsItsUser` compares.
* The server may accept or refuse any write, and store one whose answer is then lost.

`WriteQueue` is the promise to the writer of one location. It lets a write be stored
several times before it is answered, also one whose answer will be "error": a write stored
on a connection that was lost may be refused when it is sent again. It is implemented with
`issued <- putCounter - 1`, `answers <- completions`, `value <- stored`.

`MaxEvents` bounds what goes wrong or changes (lost connections, failed fetches,
refused and revoked credentials, interruptions, changes of user), `MaxPuts` the writes.

## 3. Runs

Boards are scaled down: lines of two cards instead of four, two, four and six cards
instead of 12, 16, 20, and two to four tries instead of twenty. Two
images are enough for right and wrong verdicts, and two levels for blocks of one game
to reach a larger or smaller one.

| Run | Shows |
|---|---|
| `home_any_player` | for any player: types, an open pair is pending, the selection is on the board, removals are counted, alerts are true, the score is fresh, every card is shown. Three jobs, two face-down blocks at a time, three tries with a limit of two, so that jobs of an old game meet a new one and tries pass the limit |
| `home_patient_player` | for a player who waits, on three levels: the board waits for the deal to turn over and the open cards are face up and different, one judging job per open pair, a verdict of that pair, removal in matching pairs, one try per pair, the end is announced, and the refinement of `MemoryGame` |
| `home_live` | for any player: an open pair is closed, a deal is turned down, and a Game Over alert that was dropped because a sheet was open comes back with the next pair. Three tries with a limit of two, so that a pair is judged over the limit |
| `home_held` | one finger resting on a card across restarts: the open pair is still pending, removals still take cards, the selection keeps its wider type. Two tries and no extra taps keep it small (449 000 states) |
| `deal` | the loops end, never read past an array, and make a board the game expects, for every draw |
| `auth` | two emails, two requests at a time, every interleaving of users, backend and completions: home needs a user, no empty credentials, profiles belong to their accounts |
| `app` | one board of two cards and one request at a time, with impatient restarts and sheets: game and session agree on the screen, only users open cards (the board takes touches before the queued login screen covers it; its cards are face up then), an accepted sign-in uncovers the game |
| `db_connection` | two users, two writes, four events: the assertions of the code, the user of a write, the refinement of `WriteQueue`, and every write is answered |
| `home_selfmatch` | **violated**: after a restart during the deal a card can be opened twice and matched with itself (`HomeViewController.swift:170`) |
| `home_lastpair` | **violated**: the last pair found with the last try is answered with "Game Over" (`HomeViewController.swift:212`) |
| `auth_upload` | **violated**: a failed upload is reported as success (`RegistrationController.swift:69`) |
| `db_refresh` | **violated**: a forced refresh of the token that is due is forgotten when the attempt is replaced, cancelled or fails (`FPersistentConnection.m:451`) |

The four violations are findings about the code; `PROJECT.json` quotes the lines that say
otherwise. The properties of `home_patient_player` are exactly those that a less patient
player breaks, so they say which habits the code relies on.

`home_held` is about one finger. With two (`MaxTouches = 2`) both open cards can be old
ones, and a removal is counted that takes nothing off the board: `EveryRemovalTakesCards`
does not hold then.

Two writes are the fewest that can be reordered, and with four events a connection can be
lost after a write was stored and again while it is sent again, with changes of user in
between. `db_connection` does not check for deadlock: an idle connection, or a client
that is shut out, may stop.

Symmetry is used for images (they are only compared), emails and request slots, and in
no run that checks liveness.

**Fairness.** `MainQueue` of `HomeViewController` and `App`: the main queue runs each block
it was given (weak fairness of the blocks and completions). Nothing is assumed of the
user, the network or the backend: a request may stay unanswered for ever. In `DealCards` weak
fairness says that the loops run, and that `randomElement` does not return images
already drawn for ever, which has probability zero. In `PersistentConnection` the database
queue runs its blocks, Auth calls back, and messages are delivered and answered; a lost
connection, a failed fetch or a refused credential can always come first, but only
`MaxEvents` of them, so `WritesAreAnswered` speaks of what happens once the faults are
over. Going online again is not assumed, and a client that is offline or shut out owes
nothing.

**Constants of the real app.** 27 images; 12, 16 and 20 cards; lines of four, five lines;
limit 20. They satisfy `LevelAssumption` and `ImagesAssumption`.

## 4. Proofs

Every invariant, action property and refinement that a passing run checks is also a
theorem, proved with TLAPS for every value of the constants that satisfies the
assumptions, the constants of the real app among them. The bounds of the model
(`MaxJobs`, `MaxDeals`, `MaxTries`, `MaxTouches`, `MaxPuts`, `MaxEvents`, the slots for
requests) are constants too, so the theorems hold for any number of jobs, deals, tries,
fingers, writes, faults and requests.

**Assumptions.** `LevelAssumption`: the level sizes are even, fill whole lines, fit on the
board, and the level of the first game is the largest. `ImagesAssumption`: there
are enough images for every level (`DealCards` only). `PlayerAssumption`, `TouchAssumption`,
`ConnectionAssumption`: types of the constants, and that `None` is no token. `AuthAssumption`:
no email or password is the value that stands for "none" or for an empty field.
`AppAssumption` repeats those of the parts for the composition. TLC evaluates each in a run.

**Hypotheses.** Theorems about the player who waits assume `EagerRestart`, `ExtraTaps` or
`EagerSheets` to be `FALSE`, each only those its argument needs. `OneFingerTakesCards` assumes `MaxTouches <= 1`.

### The home screen, every player (`HomeProofs`)

| Theorem | Property | Argument |
|---|---|---|
| `TypeCorrect` | `TypeOK` | inductive by itself; lemmas for the sequences of jobs and timers |
| `OpenPairIsAlwaysPending` | `OpenPairIsPending` | the second card adds a check, a check becomes a resolution, and a resolution leaves no open pair |
| `SelectionIsOnBoard` | `SelectionOnBoard` | a faded card takes no touches, a removal forgets the selection |
| `AlertsAreTruthful` | `AlertIsTruthful` | within a game tries and cleared pairs only grow; a restart happens with no alert up |
| `RemovalsTakeCards` | `EveryRemovalTakesCards` | needs `SelectionOnBoard` (the chosen cards were not faded) and that `faded` is finite |
| `ScoreIsAlwaysFresh` | `ScoreIsFresh` | all that change the tries or the game end in `updateTurns` |
| `EveryCardIsAlwaysShown` | `EveryCardIsShown` | not inductive: strengthened to `LinesOfExpert`, every board has the lines of the first game, and those are enough for each level |
| `WaitingPlayerFindsBoardWaiting`, `WaitingPlayerOpensTwoCards` | `BoardWaits`, `TwoDifferentCards`, if `EagerRestart = FALSE` | `TwoDifferentCards` is not inductive: it needs the open cards to be face up, which a face-down block destroys. `BoardWaits` adds that at most one such block is pending and that while it is, all cards are face up, so none is open |

The last holds whatever `ExtraTaps` and `EagerSheets` are: it names the one habit
that matters for it. `home_selfmatch` shows that the habit is needed. `GameInv` gathers
the invariants of every player for the modules that add steps to `Next`. One of them,
`LaunchWaits`, is about the time until the queued login screen is presented: all cards
are face up, none is open, no job is pending and nothing is presented. A touch cannot
break it, because `flipCard` refuses a card that is face up; nor can a restart, which deals
face up again and announces nothing; the block that turns the cards over comes later.

### The player who waits (`PatientProofs`)

| Theorem | Property | Argument |
|---|---|---|
| `OneJobForEveryPair` | `OneJobPerPair` | the invariant behind all others of this table but `EndIsAnnounced`. With no deal waiting, an open pair has one job and otherwise there is none; while a deal waits, the jobs left are those its face-down block waits for, so they are done before a card of the new game can be opened |
| `VerdictIsAlwaysFresh` | `VerdictIsFresh` | the only job was checked while these two cards were open |
| `CardsLeaveInPairs` | `RemovedInPairs` | a fresh verdict on two different cards that are on the board, so a removal takes both cards of an image, and an image is on two cards only |
| `PairIsChargedOnce` | `ChargedOnce` | an action property: the check that charges is that of the only job of the pair, so no verdict is out |
| `EndIsAlwaysAnnounced` | `EndIsAnnounced` | not inductive: `NothingHidesTheEnd` says that the screen is free for the alert while a pair is open, and `LaunchWaits` that no login screen is about to take it. Needs no hypothesis on restarts |
| `PatientPlayerPlaysMemoryGame` | `ImplementsMemoryGame` | step by step, from the invariants above: a check is the charge of the abstract turn, a resolution ends it, a late block of the game before is a stutter |

### Fingers that outlive a board (`HeldProofs`)

`SelectionOnBoard` and the narrow `TypeOK` fail here, and with them the arguments of
`HomeProofs`. `HeldInv` keeps what is left: numbers of any level, at most two of
them, an image for each; a finger on a card of this board has a number of this board.

| Theorem | Property | Argument |
|---|---|---|
| `HeldTypeCorrect` | `HeldTypeOK` | `HeldInv`; a restart maps the fingers one to one or merges them, so they do not become more |
| `HeldPairIsPending` | `OpenPairIsPending` | as above; it does not depend on which cards are open |
| `OneFingerTakesCards` | `EveryRemovalTakesCards`, if `MaxTouches <= 1` | `OneIsOnBoard`: of two open cards one is on the board, and while an open card is not, the finger is on none that is not. A card leaves the board under the finger only in a step that leaves nothing open |

### Dealing (`DealProofs`)

| Theorem | Property | Argument |
|---|---|---|
| `TypeCorrect` | `TypeOK` | part of `DealInv` |
| `LoopsStayInRange` | `NoIndexOutOfRange` | while a card is missing a copy of an image is left: otherwise the cards would map onto the drawn images times two, which are more |
| `LoopsMakeADeal` | `BoardIsADeal` | `DealInv` says that the copies of an image that are not in the array are on cards. That all are dealt when the loop ends is a counting argument: the cards are injected into the drawn images times two, a set of the same size, so the injection is onto |
| `LoopPlacesEveryCard` | `EveryCardIsPlaced` | `DealInv` says how many cards each line holds (`Filled`) and which; the rest is division with remainder |

### The session (`AuthProofs`)

One inductive invariant, `AuthInv`, for any number of requests at once: the fields
of a form are those of its view model, and its button is enabled only when they are filled
in; a sign-in that is on screen still has a login screen, and a user (or a revoked one)
once it is accepted; a sign-up that got past the backend has its account.
`TypeCorrect` (`TypeOK`), `HomeAlwaysNeedsUser` (`HomeNeedsUser`),
`CredentialsAreNeverEmpty` (`NoEmptyCredentials`) and `ProfileAlwaysBelongsToAccount`
(`ProfileBelongsToAccount`) follow. None of the last three is inductive: each speaks
of the outcome of requests that were sent several steps before.

### The whole app (`AppProofs`)

| Theorem | Property | Argument |
|---|---|---|
| `AppRunsSession` | `Auth!Spec` | every step of the app is one of the session or leaves it alone, so the theorems of `AuthProofs` hold in the app |
| `AppKeepsGameSound` | all invariants of `GameInv` | every step of the app is one of the home screen, leaves it alone, or is the launch of a new process, which leaves the state of `viewDidLoad`: `GameInv` is kept |
| `ScreensAlwaysAgree` | `ScreensAgree` | not inductive: the block that presents the login screen must find nothing presented. `LaunchWaits` says that no job is pending until it has run, so no alert can be up |
| `OnlyUsersEverPlay` | `OnlyUsersPlay` | a card that is opened was face down, so the login screen is not queued any more (`LaunchWaits`); nothing is presented, so the session is on the home screen (`ScreensAgree`), which needs a user (`HomeNeedsUser`) |

### The database connection (`ConnectionProofs`)

| Theorem | Property | Argument |
|---|---|---|
| `TypeCorrect` | `TypeOK` | with the types of the messages on the wire |
| `ConnectionIsAlwaysConsistent` | `ConnectionIsConsistent` | inductive with the types, and that the server has a session only on a connection that is up |
| `WriteIsAlwaysJudgedAsItsUser` | `WriteIsJudgedAsItsUser` | `CredentialsAgree`: each put on the wire is tagged with the credential that the request before it leaves in force, unless a refusal is on its way back |
| `ConnectionIsAWriteQueue` | `ImplementsWriteQueue` | `RestoreComesFirst` (no put before the connection is authenticated), `OutstandingFollow`, `PutsInOrder` and `AllPutsSent`: the outstanding writes follow the completed ones, those on the wire and their answers are ascending, and a connected client has sent them all; so the answer that arrives is that of the next write |

### Only model-checked

Liveness under fairness is out of the prover's reach: `OpenPairIsResolved`,
`LostAlertComesBack`, `DealIsTurnedDown`, `BoardIsMade`, `SignInUncoversGame`,
`WritesAreAnswered`. That nothing
deadlocks speaks of `ENABLED` and stays with TLC as well. The four violated properties have no theorem,
of course; `TwoDifferentCards` has one with the hypothesis that makes it true.

## 5. Not modelled

* Layout, colours, fonts, animations, logging; the Korean and English wording.
* Gradient layers that `configureUI` adds again, and touches that reach an old board
  first: the newest board is on top. Old boards matter only to a finger that was
  on them already (`HeldTouch`).
* `resetGame`, `checkModes` (no caller), `handleGoogleLogin` (prints),
  `handleResetPassword` (empty).
* That a touch lands during the animation of a sheet being dismissed.
* A forced sign-out whose keychain write fails (the user would return at the next launch),
  and other sign-in providers.
* In the Database client: listens, transactions, `onDisconnect` writes and purging, none
  of which the app uses; persistence of writes on disk, which it does not enable; the
  back-off delays; the redirection to another host and the shutdown message during the handshake; the queues inside
  Auth that decide which of two tokens is newer.
* The rest of `Pods/`. Nearly all lines of the repository are there, most of them C and
  C++ of Firestore, gRPC, BoringSSL, abseil, leveldb and nanopb, which the Podfile links and no
  line of the app leads to. Models of them would say nothing about this program, so
  the project covers the app's own Swift code and the parts of the Firebase clients
  (Objective-C) that the app's behaviour rests on.
* Several stored properties pass `self` to `addTarget` in a closure that runs before the
  controller is initialised; the buttons are taken to reach their controller.

## 6. Plan

1. *Done*: the modules and runs above, and a theorem for each of their safety properties
   and for both refinements.
2. Action properties of `PersistentConnection` and `AuthFlow` that the invariants of the
   proofs make easy: a completed write is never sent again, an account's password is
   never replaced.
