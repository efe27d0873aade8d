------------------------------- MODULE HeldTouch -------------------------------
(***************************************************************************)
(* Fingers that rest on a card of the home screen.                         *)
(*                                                                         *)
(* A card reports touchUpInside, so cardSelected runs when the finger is   *)
(* lifted.  Meanwhile a second finger, or a block, can restart the game;   *)
(* configureUI lays the new board over the old one without removing it,    *)
(* and the old card still reports to cardSelected.  The brain of the new   *)
(* game then gets a card of the old one: a number that another card of the *)
(* new board may have, or none, and an image of its own.                   *)
(***************************************************************************)
EXTENDS HomeViewController

CONSTANT MaxTouches  \* bound: fingers resting on cards

ASSUME TouchAssumption == MaxTouches \in Nat

VARIABLE touches  \* the cards under a resting finger

\* A card of the current board is known by its number; one of an older board
\* also keeps its own isFlipped ("up"), which nothing changes any more.
Touch(number) == [number |-> number, image |-> inGameCards[number], old |-> FALSE, up |-> FALSE]

heldVars == <<vars, touches>>

HeldInit == viewDidLoad /\ touches = {}

touchDown(card) ==
  /\ Touchable(card)
  /\ Cardinality(touches) < MaxTouches
  /\ touches' = touches \cup {Touch(card)}
  /\ UNCHANGED vars

\* Fault: an old card is opened although two are open.
oldCardIsThird(touch) ==
  /\ flippedCardNumber' = Append(flippedCardNumber, touch.number)
  /\ imagesThatUserHasChosen' = Append(imagesThatUserHasChosen, touch.image)
  /\ UNCHANGED <<difficulty, inGameCards, isFlipped, faded, numberOfClearedCards, userHasTried>>

\* flipCard for a card that is no longer on the board.
flipOldCard(touch) ==
  /\ \/ /\ countSelectedCards < 2 /\ ~touch.up
        /\ flippedCardNumber' = Append(flippedCardNumber, touch.number)
        /\ imagesThatUserHasChosen' = Append(imagesThatUserHasChosen, touch.image)
     \/ /\ ~(countSelectedCards < 2 /\ ~touch.up)
        /\ UNCHANGED <<flippedCardNumber, imagesThatUserHasChosen>>
  /\ UNCHANGED <<difficulty, inGameCards, isFlipped, faded, numberOfClearedCards, userHasTried>>

\* Fault: an old card schedules no blocks.
oldCardSchedulesNothing(touch) ==
  /\ touch \in touches
  /\ touches' = touches \ {touch}
  /\ \/ ~touch.old /\ flipCard(touch.number)
     \/ touch.old /\ flipOldCard(touch)
  /\ checks' = IF countSelectedCards' = 2 /\ ~touch.old THEN checks + 1 ELSE checks
  /\ UNCHANGED <<currentGameMode, results, faceDownTimers, ui, layout>>

\* The finger is lifted: cardSelected, whatever alert or sheet has appeared since.
touchUpInside(touch) ==
  /\ touch \in touches
  /\ touches' = touches \ {touch}
  /\ \/ ~touch.old /\ flipCard(touch.number)
     \/ touch.old /\ flipOldCard(touch)
  /\ checks' = IF countSelectedCards' = 2 THEN checks + 1 ELSE checks
  /\ UNCHANGED <<currentGameMode, results, faceDownTimers, ui, layout>>

\* The finger leaves the card, or UIKit cancels the touch.
touchCancel(touch) ==
  /\ touch \in touches
  /\ touches' = touches \ {touch}
  /\ UNCHANGED vars

\* A restart leaves the touched cards on the old board.
restarted == Len(faceDownTimers') > Len(faceDownTimers)

leftBehind ==
  {[t EXCEPT !.old = TRUE, !.up = IF t.old THEN t.up ELSE isFlipped[t.number]] : t \in touches}

\* Any step of the home screen.  The login screen is full screen: it takes the
\* home screen out of the window and cancels its touches.
underTheFingers ==
  touches' = IF presented' = "login" THEN {}
             ELSE IF restarted THEN leftBehind ELSE touches

MayRelease == pendingJobs < MaxJobs /\ userHasTried + checks < MaxTries

HeldNext ==
  \/ Next /\ underTheFingers
  \/ \E card \in DOMAIN inGameCards : touchDown(card)
  \/ \E touch \in touches : MayRelease /\ touchUpInside(touch)
  \/ \E touch \in touches : touchCancel(touch)

HeldSpec == HeldInit /\ [][HeldNext]_heldVars
----------------------------------------------------------------------------
\* The types of the touches, and of the selection, which old cards widen: any
\* number of any level, any image.
HeldTypeOK ==
  /\ touches \subseteq [number : Numbers(expert), image : cardImages,
                        old : BOOLEAN, up : BOOLEAN]
  /\ Cardinality(touches) <= MaxTouches
  /\ flippedCardNumber \in Seq(Numbers(expert))
  /\ Len(flippedCardNumber) <= 2
  /\ Len(imagesThatUserHasChosen) = Len(flippedCardNumber)
  /\ faded \subseteq Numbers(difficulty)
=============================================================================
