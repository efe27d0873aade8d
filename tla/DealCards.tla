------------------------------ MODULE DealCards ------------------------------
(***************************************************************************)
(* Making a board: the two random loops of CardGameBrain that draw the     *)
(* images and deal them onto the cards, and the loop of HomeViewController *)
(* that places the cards into the lines of the board.                      *)
(*                                                                         *)
(* The game treats the whole computation as one step that yields a member  *)
(* of Deals(m) (see CardGame); this module runs its loops one iteration at *)
(* a time to show that it does, that it ends, and that no iteration draws  *)
(* from an empty array or reads past the end of one: such a state would    *)
(* have no successor.                                                      *)
(***************************************************************************)
EXTENDS Levels, FiniteSets, Sequences

\* The image list is long enough for every level.
ASSUME ImagesAssumption ==
  /\ IsFiniteSet(cardImages)
  /\ \A m \in GameModes : chooseGameModes[m] <= 2 * Cardinality(cardImages)

VARIABLES
  difficulty,
  randomlySelectedImages,  \* the images drawn so far
  imagesForCards,          \* image -> copies not yet dealt
  cardNumber,              \* number of the next card
  inGameCards,             \* the cards made so far, in order: number and image
  arrayOfStackViews,       \* the lines of the board: the numbers placed in them
  imageCounter,            \* how many cards have been placed
  pc                       \* which loop is running

vars == <<difficulty, randomlySelectedImages, imagesForCards, cardNumber,
          inGameCards, arrayOfStackViews, imageCounter, pc>>

Init ==
  /\ difficulty \in GameModes
  /\ randomlySelectedImages = {}
  /\ imagesForCards = [image \in cardImages |-> 0]
  /\ cardNumber = 0
  /\ inGameCards = <<>>
  /\ arrayOfStackViews = [line \in 1 .. LinesOnBoard |-> <<>>]
  /\ imageCounter = 0
  /\ pc = "choosing"

\* An iteration of the while loop: a random image, which may be an old one.
chooseCardImagesFromImageList ==
  /\ pc = "choosing"
  /\ Cardinality(randomlySelectedImages) < numberOfImagesToCreateCards(difficulty)
  /\ \E image \in cardImages :
       randomlySelectedImages' = randomlySelectedImages \cup {image}
  /\ UNCHANGED <<difficulty, imagesForCards, cardNumber, inGameCards,
                 arrayOfStackViews, imageCounter, pc>>

\* Fault: every image is taken once.
takeImagesOnce ==
  /\ pc = "choosing"
  /\ Cardinality(randomlySelectedImages) >= numberOfImagesToCreateCards(difficulty)
  /\ imagesForCards' = [image \in cardImages |->
                          IF image \in randomlySelectedImages THEN 1 ELSE 0]
  /\ pc' = "dealing"
  /\ UNCHANGED <<difficulty, randomlySelectedImages, cardNumber, inGameCards,
                 arrayOfStackViews, imageCounter>>

\* The loop is left; every image is taken twice.
doubleImages ==
  /\ pc = "choosing"
  /\ Cardinality(randomlySelectedImages) >= numberOfImagesToCreateCards(difficulty)
  /\ imagesForCards' = [image \in cardImages |->
                          IF image \in randomlySelectedImages THEN 2 ELSE 0]
  /\ pc' = "dealing"
  /\ UNCHANGED <<difficulty, randomlySelectedImages, cardNumber, inGameCards,
                 arrayOfStackViews, imageCounter>>

\* The number of iterations of the dealing loop, fixed when it starts.
numberOfCards == 2 * Cardinality(randomlySelectedImages)

\* Fault: the image of the new card is not taken out of the array.
DealsWithReplacement ==
  /\ pc = "dealing"
  /\ Len(inGameCards) < numberOfCards
  /\ \E image \in cardImages :
       /\ imagesForCards[image] > 0
       /\ inGameCards' = Append(inGameCards, [number |-> cardNumber, image |-> image])
  /\ cardNumber' = cardNumber + 1
  /\ UNCHANGED <<difficulty, randomlySelectedImages, imagesForCards,
                 arrayOfStackViews, imageCounter, pc>>

\* Fault: the image is drawn from the selected ones instead of those left.
DealsSelectedImage ==
  /\ pc = "dealing"
  /\ Len(inGameCards) < numberOfCards
  /\ \E image \in randomlySelectedImages :
       /\ inGameCards' = Append(inGameCards, [number |-> cardNumber, image |-> image])
       /\ imagesForCards' = [imagesForCards EXCEPT ![image] = @ - 1]
  /\ cardNumber' = cardNumber + 1
  /\ UNCHANGED <<difficulty, randomlySelectedImages, arrayOfStackViews,
                 imageCounter, pc>>

\* An iteration of the for loop: a card with a random image of those left.
generateCardsWithImage ==
  /\ pc = "dealing"
  /\ Len(inGameCards) < numberOfCards
  /\ \E image \in cardImages :
       /\ imagesForCards[image] > 0
       /\ inGameCards' = Append(inGameCards, [number |-> cardNumber, image |-> image])
       /\ imagesForCards' = [imagesForCards EXCEPT ![image] = @ - 1]
  /\ cardNumber' = cardNumber + 1
  /\ UNCHANGED <<difficulty, randomlySelectedImages, arrayOfStackViews,
                 imageCounter, pc>>

finishDealing ==
  /\ pc = "dealing"
  /\ Len(inGameCards) = numberOfCards
  /\ cardNumber' = 0
  /\ pc' = "arranging"
  /\ UNCHANGED <<difficulty, randomlySelectedImages, imagesForCards, inGameCards,
                 arrayOfStackViews, imageCounter>>

----------------------------------------------------------------------------
\* Fault: the loop breaks one line early.
linesWithoutTheLast == Len(inGameCards) \div CardsPerLine - 1

linesNeeded == Len(inGameCards) \div CardsPerLine

\* The lines that the loop has still to fill.
openLines ==
  { line \in 1 .. LinesOnBoard :
      line <= linesNeeded /\ Len(arrayOfStackViews[line]) < CardsPerLine }

\* An iteration of the inner while loop: the next card goes into the first line
\* that is not full.
arrangeCardsIntoSubviewsAndAddActions ==
  /\ pc = "arranging"
  /\ \E line \in openLines :
       /\ \A other \in openLines : line <= other
       /\ imageCounter < Len(inGameCards)
       /\ arrayOfStackViews' = [arrayOfStackViews EXCEPT
            ![line] = Append(@, inGameCards[imageCounter + 1].number)]
  /\ imageCounter' = imageCounter + 1
  /\ UNCHANGED <<difficulty, randomlySelectedImages, imagesForCards, cardNumber,
                 inGameCards, pc>>

finishArranging ==
  /\ pc = "arranging"
  /\ openLines = {}
  /\ pc' = "done"
  /\ UNCHANGED <<difficulty, randomlySelectedImages, imagesForCards, cardNumber,
                 inGameCards, arrayOfStackViews, imageCounter>>

ready == pc = "done" /\ UNCHANGED vars

Next ==
  \/ chooseCardImagesFromImageList
  \/ doubleImages
  \/ generateCardsWithImage
  \/ finishDealing
  \/ arrangeCardsIntoSubviewsAndAddActions
  \/ finishArranging
  \/ ready

Spec == Init /\ [][Next]_vars

(***************************************************************************)
(* The loops are straight-line code, so they run.  For the first one this  *)
(* also says that randomElement does not return old images forever, which  *)
(* it does with probability zero.                                          *)
(***************************************************************************)
FairSpec == Spec /\ WF_vars(Next)
----------------------------------------------------------------------------
\* The types of the variables.
TypeOK ==
  /\ difficulty \in GameModes
  /\ randomlySelectedImages \subseteq cardImages
  /\ imagesForCards \in [cardImages -> 0 .. 2]
  /\ cardNumber \in Nat
  /\ inGameCards \in Seq([number : Nat, image : cardImages])
  /\ arrayOfStackViews \in [1 .. LinesOnBoard -> Seq(Nat)]
  /\ imageCounter \in Nat
  /\ pc \in {"choosing", "dealing", "arranging", "done"}

\* An iteration finds what it reads: remove(at:) an image in the array, however
\* the images were drawn before, and the line that is filled a card.  Otherwise
\* Swift would stop the app.
NoIndexOutOfRange ==
  /\ pc = "dealing" /\ Len(inGameCards) < numberOfCards =>
       \E image \in cardImages : imagesForCards[image] > 0
  /\ pc = "arranging" /\ openLines # {} => imageCounter < Len(inGameCards)

\* When the board is ready the cards carry the numbers 0, 1, 2, ... in order,
\* every image is on exactly two of them, and gameCleared, which counts the
\* drawn images, counts the pairs: the board CardGame starts from.
BoardIsADeal ==
  pc = "done" =>
    /\ \A i \in DOMAIN inGameCards : inGameCards[i].number = i - 1
    /\ [c \in 0 .. Len(inGameCards) - 1 |-> inGameCards[c + 1].image] \in Deals(difficulty)
    /\ Cardinality(randomlySelectedImages) = numberOfImagesToCreateCards(difficulty)

\* When the board is ready every card is in one place, in the line that LineOf
\* names, and the first lines are full: no pair is split off the board.
EveryCardIsPlaced ==
  pc = "done" =>
    \A c \in Numbers(difficulty) :
      { p \in (1 .. LinesOnBoard) \X (1 .. CardsPerLine) :
          /\ p[2] <= Len(arrayOfStackViews[p[1]])
          /\ arrayOfStackViews[p[1]][p[2]] = c }
        = { <<LineOf(c) + 1, (c % CardsPerLine) + 1>> }

\* The loops end: the main thread is not held for ever by a level that needs
\* more images than there are.
BoardIsMade == <>(pc = "done")
=============================================================================
