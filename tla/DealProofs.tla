------------------------------ MODULE DealProofs ------------------------------
(***************************************************************************)
(* Proofs about DealCards, for every image list and all levels that        *)
(* satisfy LevelAssumption and ImagesAssumption.                           *)
(***************************************************************************)
EXTENDS DealCards, FiniteSetTheorems, SequenceTheorems, TLAPS

(***************************************************************************)
(* The inductive invariant.                                                *)
(***************************************************************************)
\* The positions of the cards with this image.
Bears(i, image) == i \in DOMAIN inGameCards /\ inGameCards[i].image = image

\* The first loop adds one image at a time and stops when there are enough.
DrawingOK ==
  /\ Cardinality(randomlySelectedImages) <= numberOfImagesToCreateCards(difficulty)
  /\ pc = "choosing" => inGameCards = <<>> /\ cardNumber = 0
  /\ pc # "choosing" =>
       Cardinality(randomlySelectedImages) = numberOfImagesToCreateCards(difficulty)

\* The cards are numbered in order, and no card too many is made.
NumberingOK ==
  /\ \A i \in DOMAIN inGameCards : inGameCards[i].number = i - 1
  /\ pc = "dealing" => cardNumber = Len(inGameCards)
  /\ pc # "choosing" => Len(inGameCards) <= numberOfCards
  /\ pc \in {"arranging", "done"} => Len(inGameCards) = numberOfCards

\* The copies of an image that are not left in the array are on the cards.
CopiesOf(image) ==
  /\ image \notin randomlySelectedImages =>
       imagesForCards[image] = 0 /\ \A k \in DOMAIN inGameCards : ~Bears(k, image)
  /\ imagesForCards[image] = 2 => \A k \in DOMAIN inGameCards : ~Bears(k, image)
  /\ imagesForCards[image] = 1 =>
       \E i \in DOMAIN inGameCards :
         \A k \in DOMAIN inGameCards : Bears(k, image) <=> k = i
  /\ image \in randomlySelectedImages /\ imagesForCards[image] = 0 =>
       \E i, j \in DOMAIN inGameCards :
         /\ i < j
         /\ \A k \in DOMAIN inGameCards : Bears(k, image) <=> k \in {i, j}

CopiesOK == pc # "choosing" => \A image \in cardImages : CopiesOf(image)

\* How many cards line "line" holds when "placed" cards have been placed.
Filled(line, placed) ==
  IF placed <= (line - 1) * CardsPerLine THEN 0
  ELSE IF placed >= line * CardsPerLine THEN CardsPerLine
  ELSE placed - (line - 1) * CardsPerLine

\* The lines are filled one after the other, with the cards in order.
PlacingOK ==
  /\ pc \in {"choosing", "dealing"} => imageCounter = 0
  /\ imageCounter <= Len(inGameCards)
  /\ \A line \in 1 .. LinesOnBoard :
       /\ Len(arrayOfStackViews[line]) = Filled(line, imageCounter)
       /\ \A k \in 1 .. Len(arrayOfStackViews[line]) :
            arrayOfStackViews[line][k] = (line - 1) * CardsPerLine + k - 1
  /\ pc = "done" => openLines = {}

DealInv == TypeOK /\ DrawingOK /\ NumberingOK /\ CopiesOK /\ PlacingOK

(***************************************************************************)
(* Lemmas about the levels, the images and arithmetic.                     *)
(***************************************************************************)
\* A product grows with its first factor.
LEMMA ProductGrows ==
  ASSUME NEW a \in Nat, NEW b \in Nat, NEW C \in Nat, a <= b
  PROVE  a * C \in Nat /\ b * C \in Nat /\ a * C <= b * C
  OBVIOUS

\* A number is its quotient times the divisor plus its remainder.
LEMMA QuotientAndRemainder ==
  ASSUME NEW c \in Nat, NEW C \in Nat \ {0}
  PROVE  /\ c \div C \in Nat
         /\ c % C \in 0 .. C - 1
         /\ c = (c \div C) * C + (c % C)
  OBVIOUS

\* Quotient and remainder are unique.
LEMMA UniqueQuotient ==
  ASSUME NEW C \in Nat \ {0}, NEW q \in Nat, NEW r \in Nat, r < C
  PROVE  (q * C + r) \div C = q /\ (q * C + r) % C = r
  OBVIOUS

\* A level has as many cards as the images drawn for it, twice, and fills
\* whole lines of the board.
LEMMA LevelFacts ==
  ASSUME NEW m \in GameModes
  PROVE  /\ chooseGameModes[m] \in Nat \ {0}
         /\ numberOfImagesToCreateCards(m) \in Nat
         /\ 2 * numberOfImagesToCreateCards(m) = chooseGameModes[m]
         /\ CardsPerLine \in Nat \ {0}
         /\ LinesOnBoard \in Nat
         /\ chooseGameModes[m] \div CardsPerLine \in 0 .. LinesOnBoard
         /\ (chooseGameModes[m] \div CardsPerLine) * CardsPerLine = chooseGameModes[m]
  <1> DEFINE n == chooseGameModes[m]
  <1> DEFINE lines == n \div CardsPerLine
  <1>1. n \in Nat \ {0} /\ CardsPerLine \in Nat \ {0} /\ LinesOnBoard \in Nat
    BY LevelAssumption
  <1>2. n % 2 = 0 /\ n % CardsPerLine = 0 /\ n <= CardsPerLine * LinesOnBoard
    BY LevelAssumption
  <1>3. n \div 2 \in Nat /\ 2 * (n \div 2) = n
    <2> HIDE DEF n
    <2> QED BY <1>1, <1>2
  <1>4. lines \in Nat /\ n = lines * CardsPerLine + (n % CardsPerLine)
    BY <1>1, QuotientAndRemainder
  <1>5. lines * CardsPerLine = n
    <2>1. lines * CardsPerLine \in Nat
      BY <1>1, <1>4, ProductGrows
    <2> QED BY <2>1, <1>1, <1>2, <1>4
  <1>6. lines <= LinesOnBoard
    <2> SUFFICES ASSUME lines > LinesOnBoard PROVE FALSE
      BY <1>1, <1>4
    <2> HIDE DEF n, lines
    <2>1. (LinesOnBoard + 1) * CardsPerLine <= lines * CardsPerLine
      BY <1>1, <1>4, ProductGrows
    <2> QED BY <2>1, <1>1, <1>2, <1>4, <1>5
  <1> QED
    BY <1>1, <1>2, <1>3, <1>4, <1>5, <1>6 DEF numberOfImagesToCreateCards

\* The drawn images are a finite set.
LEMMA DrawnFacts ==
  ASSUME TypeOK
  PROVE  /\ IsFiniteSet(randomlySelectedImages)
         /\ Cardinality(randomlySelectedImages) \in Nat
         /\ numberOfCards \in Nat
  <1>1. IsFiniteSet(randomlySelectedImages)
    BY ImagesAssumption, FS_Subset DEF TypeOK
  <1> QED BY <1>1, FS_CardinalityType DEF numberOfCards

\* There are as many copies of the drawn images as cards to be made.
LEMMA CopiesOfDrawn ==
  ASSUME TypeOK
  PROVE  /\ IsFiniteSet(randomlySelectedImages \X {1, 2})
         /\ Cardinality(randomlySelectedImages \X {1, 2}) = numberOfCards
  <1>1. IsFiniteSet({1, 2}) /\ Cardinality({1, 2}) = 2
    <2>1. {1, 2} = 1 .. 2
      OBVIOUS
    <2>2. \A n \in Nat : IsFiniteSet(1 .. n) /\ Cardinality(1 .. n) = n
      BY FS_Interval
    <2> QED BY <2>1, <2>2
  <1>2. IsFiniteSet(randomlySelectedImages) /\ Cardinality(randomlySelectedImages) \in Nat
    BY DrawnFacts
  <1>3. /\ IsFiniteSet(randomlySelectedImages \X {1, 2})
        /\ Cardinality(randomlySelectedImages \X {1, 2})
             = Cardinality(randomlySelectedImages) * 2
    BY <1>1, <1>2, FS_Product
  <1> QED BY <1>2, <1>3 DEF numberOfCards

\* The cards made so far, as a function of their positions.
LEMMA CardFacts ==
  ASSUME TypeOK
  PROVE  /\ Len(inGameCards) \in Nat
         /\ DOMAIN inGameCards = 1 .. Len(inGameCards)
         /\ \A i \in DOMAIN inGameCards : /\ inGameCards[i].number \in Nat
                                          /\ inGameCards[i].image \in cardImages
  <1> DEFINE CardType == [number : Nat, image : cardImages]
  <1>1. inGameCards \in Seq(CardType)
    BY DEF TypeOK
  <1>2. \A card \in CardType : card.number \in Nat /\ card.image \in cardImages
    OBVIOUS
  <1> HIDE DEF CardType
  <1>3. /\ Len(inGameCards) \in Nat
        /\ DOMAIN inGameCards = 1 .. Len(inGameCards)
        /\ \A i \in DOMAIN inGameCards : inGameCards[i] \in CardType
    BY <1>1
  <1> QED BY <1>2, <1>3

(***************************************************************************)
(* The invariant holds of the initial states.                              *)
(***************************************************************************)
LEMMA InvInit == Init => DealInv
  <1> SUFFICES ASSUME Init PROVE DealInv
    OBVIOUS
  <1>1. TypeOK
    BY DEF Init, TypeOK
  <1>2. DrawingOK
    BY FS_EmptySet, LevelFacts DEF Init, DrawingOK
  <1>3. NumberingOK
    BY DEF Init, NumberingOK
  <1>4. CopiesOK
    BY DEF Init, CopiesOK
  <1>5. PlacingOK
    <2>1. ASSUME NEW line \in 1 .. LinesOnBoard
          PROVE  Filled(line, 0) = 0 /\ arrayOfStackViews[line] = <<>>
      <3>1. (line - 1) * CardsPerLine \in Nat
        BY LevelAssumption, ProductGrows
      <3> QED BY <3>1, LevelAssumption DEF Filled, Init
    <2> QED BY <2>1 DEF Init, PlacingOK
  <1> QED BY <1>1, <1>2, <1>3, <1>4, <1>5 DEF DealInv

(***************************************************************************)
(* The types are preserved by every step.                                  *)
(***************************************************************************)
LEMMA TypeStep == TypeOK /\ [Next]_vars => TypeOK'
  <1> SUFFICES ASSUME TypeOK, [Next]_vars PROVE TypeOK'
    OBVIOUS
  <1> USE DEF TypeOK
  <1>1. CASE chooseCardImagesFromImageList
    BY <1>1 DEF chooseCardImagesFromImageList
  <1>2. CASE doubleImages
    BY <1>2 DEF doubleImages
  <1>3. CASE generateCardsWithImage
    <2>1. PICK image \in cardImages :
            /\ imagesForCards[image] > 0
            /\ inGameCards' = Append(inGameCards, [number |-> cardNumber, image |-> image])
            /\ imagesForCards' = [imagesForCards EXCEPT ![image] = @ - 1]
      BY <1>3 DEF generateCardsWithImage
    <2>2. imagesForCards' \in [cardImages -> 0 .. 2]
      BY <2>1
    <2>3. inGameCards' \in Seq([number : Nat, image : cardImages])
      BY <2>1, AppendProperties
    <2> QED BY <1>3, <2>2, <2>3 DEF generateCardsWithImage
  <1>4. CASE finishDealing
    BY <1>4 DEF finishDealing
  <1>5. CASE arrangeCardsIntoSubviewsAndAddActions
    <2>1. PICK line \in openLines :
            /\ imageCounter < Len(inGameCards)
            /\ arrayOfStackViews' = [arrayOfStackViews EXCEPT
                 ![line] = Append(@, inGameCards[imageCounter + 1].number)]
      BY <1>5 DEF arrangeCardsIntoSubviewsAndAddActions
    <2>2. inGameCards[imageCounter + 1].number \in Nat
      BY <2>1, CardFacts
    <2>3. arrayOfStackViews' \in [1 .. LinesOnBoard -> Seq(Nat)]
      BY <2>1, <2>2, AppendProperties DEF openLines
    <2> QED BY <1>5, <2>3 DEF arrangeCardsIntoSubviewsAndAddActions
  <1>6. CASE finishArranging
    BY <1>6 DEF finishArranging
  <1>7. CASE UNCHANGED vars
    BY <1>7 DEF vars
  <1> QED
    BY <1>1, <1>2, <1>3, <1>4, <1>5, <1>6, <1>7 DEF Next, ready

(***************************************************************************)
(* What dealing one card does to the sequence of cards.                    *)
(***************************************************************************)
LEMMA DealtCard ==
  ASSUME TypeOK, generateCardsWithImage
  PROVE  \E image \in cardImages :
           /\ imagesForCards[image] > 0
           /\ imagesForCards' = [imagesForCards EXCEPT ![image] = @ - 1]
           /\ Len(inGameCards') = Len(inGameCards) + 1
           /\ DOMAIN inGameCards' = 1 .. Len(inGameCards) + 1
           /\ \A i \in 1 .. Len(inGameCards) : inGameCards'[i] = inGameCards[i]
           /\ inGameCards'[Len(inGameCards) + 1].number = cardNumber
           /\ inGameCards'[Len(inGameCards) + 1].image = image
  <1>1. PICK image \in cardImages :
          /\ imagesForCards[image] > 0
          /\ inGameCards' = Append(inGameCards, [number |-> cardNumber, image |-> image])
          /\ imagesForCards' = [imagesForCards EXCEPT ![image] = @ - 1]
    BY DEF generateCardsWithImage
  <1> DEFINE CardType == [number : Nat, image : cardImages]
  <1> DEFINE card == [number |-> cardNumber, image |-> image]
  <1>2. inGameCards \in Seq(CardType) /\ card \in CardType
    BY DEF TypeOK
  <1>3. card.number = cardNumber /\ card.image = image
    OBVIOUS
  <1> HIDE DEF CardType, card
  <1>4. inGameCards' = Append(inGameCards, card)
    BY <1>1 DEF card
  <1>5. /\ inGameCards' \in Seq(CardType)
        /\ Len(inGameCards') = Len(inGameCards) + 1
        /\ \A i \in 1 .. Len(inGameCards) : inGameCards'[i] = inGameCards[i]
        /\ inGameCards'[Len(inGameCards) + 1] = card
    BY <1>2, <1>4, AppendProperties
  <1>6. DOMAIN inGameCards' = 1 .. Len(inGameCards) + 1
    BY <1>5
  <1> QED BY <1>1, <1>3, <1>5, <1>6

(***************************************************************************)
(* The number of drawn images is right when the first loop is left.        *)
(***************************************************************************)
LEMMA DrawingStep == TypeOK /\ DrawingOK /\ [Next]_vars => DrawingOK'
  <1> SUFFICES ASSUME TypeOK, DrawingOK, [Next]_vars PROVE DrawingOK'
    OBVIOUS
  <1> DEFINE drawn == Cardinality(randomlySelectedImages)
  <1> DEFINE needed == numberOfImagesToCreateCards(difficulty)
  <1>0. drawn \in Nat /\ needed \in Nat
    BY DrawnFacts, LevelFacts DEF TypeOK
  <1>1. CASE chooseCardImagesFromImageList
    <2>1. PICK image \in cardImages :
            randomlySelectedImages' = randomlySelectedImages \cup {image}
      BY <1>1 DEF chooseCardImagesFromImageList
    <2>2. drawn' = drawn \/ drawn' = drawn + 1
      BY <2>1, DrawnFacts, FS_AddElement
    <2>3. drawn < needed /\ pc = "choosing" /\ UNCHANGED <<difficulty, inGameCards, cardNumber, pc>>
      BY <1>1 DEF chooseCardImagesFromImageList
    <2>4. needed' = needed
      BY <2>3
    <2>5. drawn' <= needed'
      <3> HIDE DEF drawn, needed
      <3> QED BY <1>0, <2>2, <2>3, <2>4
    <2> QED BY <2>3, <2>5 DEF DrawingOK
  <1>2. CASE doubleImages
    <2>1. drawn = needed
      BY <1>0, <1>2 DEF DrawingOK, doubleImages
    <2>2. pc' = "dealing" /\ UNCHANGED <<difficulty, randomlySelectedImages>>
      BY <1>2 DEF doubleImages
    <2> QED BY <1>0, <2>1, <2>2 DEF DrawingOK
  <1>3. CASE generateCardsWithImage
    BY <1>3 DEF DrawingOK, generateCardsWithImage
  <1>4. CASE finishDealing
    BY <1>4 DEF DrawingOK, finishDealing
  <1>5. CASE arrangeCardsIntoSubviewsAndAddActions
    BY <1>5 DEF DrawingOK, arrangeCardsIntoSubviewsAndAddActions
  <1>6. CASE finishArranging
    BY <1>6 DEF DrawingOK, finishArranging
  <1>7. CASE UNCHANGED vars
    BY <1>7 DEF DrawingOK, vars
  <1> QED
    BY <1>1, <1>2, <1>3, <1>4, <1>5, <1>6, <1>7 DEF Next, ready

(***************************************************************************)
(* The cards are numbered in order.                                        *)
(***************************************************************************)
LEMMA NumberingStep ==
  TypeOK /\ DrawingOK /\ NumberingOK /\ [Next]_vars => NumberingOK'
  <1> SUFFICES ASSUME TypeOK, DrawingOK, NumberingOK, [Next]_vars PROVE NumberingOK'
    OBVIOUS
  <1>1. CASE chooseCardImagesFromImageList
    BY <1>1 DEF NumberingOK, chooseCardImagesFromImageList
  <1>2. CASE doubleImages
    <2>1. inGameCards' = <<>> /\ cardNumber' = 0 /\ pc' = "dealing"
      BY <1>2 DEF DrawingOK, doubleImages
    <2>2. numberOfCards' = numberOfCards
      BY <1>2 DEF doubleImages, numberOfCards
    <2> QED BY <2>1, <2>2, DrawnFacts DEF NumberingOK
  <1>3. CASE generateCardsWithImage
    <2>1. /\ Len(inGameCards') = Len(inGameCards) + 1
          /\ DOMAIN inGameCards' = 1 .. Len(inGameCards) + 1
          /\ \A i \in 1 .. Len(inGameCards) : inGameCards'[i] = inGameCards[i]
          /\ inGameCards'[Len(inGameCards) + 1].number = cardNumber
      BY <1>3, DealtCard
    <2>2. /\ pc = "dealing" /\ pc' = "dealing"
          /\ Len(inGameCards) < numberOfCards
          /\ cardNumber' = cardNumber + 1
          /\ numberOfCards' = numberOfCards
      BY <1>3 DEF generateCardsWithImage, numberOfCards
    <2>3. cardNumber = Len(inGameCards)
      BY <2>2 DEF NumberingOK
    <2>4. ASSUME NEW i \in DOMAIN inGameCards' PROVE inGameCards'[i].number = i - 1
      <3>1. CASE i = Len(inGameCards) + 1
        BY <3>1, <2>1, <2>3, CardFacts
      <3>2. CASE i # Len(inGameCards) + 1
        BY <3>2, <2>1, CardFacts DEF NumberingOK
      <3> QED BY <3>1, <3>2
    <2>5. Len(inGameCards) + 1 <= numberOfCards
      BY <2>2, CardFacts, DrawnFacts
    <2> QED BY <2>1, <2>2, <2>3, <2>4, <2>5 DEF NumberingOK
  <1>4. CASE finishDealing
    BY <1>4 DEF NumberingOK, finishDealing, numberOfCards
  <1>5. CASE arrangeCardsIntoSubviewsAndAddActions
    BY <1>5 DEF NumberingOK, arrangeCardsIntoSubviewsAndAddActions, numberOfCards
  <1>6. CASE finishArranging
    BY <1>6 DEF NumberingOK, finishArranging, numberOfCards
  <1>7. CASE UNCHANGED vars
    BY <1>7 DEF NumberingOK, vars, numberOfCards
  <1> QED
    BY <1>1, <1>2, <1>3, <1>4, <1>5, <1>6, <1>7 DEF Next, ready

(***************************************************************************)
(* The copies that are left and the cards made stay two per image.         *)
(***************************************************************************)
LEMMA CopiesStep ==
  TypeOK /\ DrawingOK /\ CopiesOK /\ [Next]_vars => CopiesOK'
  <1> SUFFICES ASSUME TypeOK, DrawingOK, CopiesOK, [Next]_vars PROVE CopiesOK'
    OBVIOUS
  <1>1. CASE chooseCardImagesFromImageList
    BY <1>1 DEF CopiesOK, chooseCardImagesFromImageList
  <1>2. CASE doubleImages
    <2>1. /\ DOMAIN inGameCards' = {}
          /\ imagesForCards' = [image \in cardImages |->
                                  IF image \in randomlySelectedImages THEN 2 ELSE 0]
          /\ randomlySelectedImages' = randomlySelectedImages
      BY <1>2 DEF DrawingOK, doubleImages
    <2>2. ASSUME NEW image \in cardImages PROVE CopiesOf(image)'
      BY <2>1 DEF CopiesOf, Bears
    <2> QED BY <2>2 DEF CopiesOK
  <1>3. CASE generateCardsWithImage
    <2>0. PICK n \in Nat : n = Len(inGameCards) + 1
      BY CardFacts
    <2>1. PICK dealt \in cardImages :
            /\ imagesForCards[dealt] > 0
            /\ imagesForCards' = [imagesForCards EXCEPT ![dealt] = @ - 1]
            /\ DOMAIN inGameCards' = 1 .. n
            /\ \A i \in 1 .. Len(inGameCards) : inGameCards'[i] = inGameCards[i]
            /\ inGameCards'[n].image = dealt
      BY <1>3, <2>0, DealtCard
    <2>2. randomlySelectedImages' = randomlySelectedImages /\ pc # "choosing"
      BY <1>3 DEF generateCardsWithImage
    <2>3. DOMAIN inGameCards = 1 .. Len(inGameCards) /\ Len(inGameCards) \in Nat
      BY CardFacts
    <2>4. /\ n \in DOMAIN inGameCards'
          /\ n \notin DOMAIN inGameCards
          /\ \A i \in DOMAIN inGameCards : i < n
          /\ DOMAIN inGameCards' = DOMAIN inGameCards \cup {n}
      BY <2>0, <2>1, <2>3
    <2>5. \A k \in DOMAIN inGameCards, image \in cardImages :
            Bears(k, image)' <=> Bears(k, image)
      BY <2>1, <2>3, <2>4 DEF Bears
    <2>6. \A image \in cardImages : Bears(n, image)' <=> image = dealt
      BY <2>1, <2>4 DEF Bears
    <2>7. \A image \in cardImages : imagesForCards[image] \in 0 .. 2
      BY DEF TypeOK
    <2>8. \A image \in cardImages : imagesForCards'[image] =
            IF image = dealt THEN imagesForCards[image] - 1 ELSE imagesForCards[image]
      BY <2>1 DEF TypeOK
    <2>9. ASSUME NEW image \in cardImages PROVE CopiesOf(image)'
      <3>0. CopiesOf(image)
        BY <2>2 DEF CopiesOK
      <3>1. CASE image # dealt
        <4>1. imagesForCards'[image] = imagesForCards[image] /\ ~Bears(n, image)'
          BY <3>1, <2>6, <2>8
        <4> QED BY <3>0, <4>1, <2>2, <2>4, <2>5 DEF CopiesOf
      <3>2. CASE image = dealt /\ imagesForCards[image] = 2
        <4>1. imagesForCards'[image] = 1 /\ Bears(n, image)'
          BY <3>2, <2>6, <2>8
        <4>2. image \in randomlySelectedImages'
          BY <3>0, <3>2, <2>2 DEF CopiesOf
        <4>3. \A k \in DOMAIN inGameCards' : Bears(k, image)' <=> k = n
          BY <3>0, <3>2, <4>1, <2>4, <2>5 DEF CopiesOf
        <4> QED BY <4>1, <4>2, <4>3, <2>4 DEF CopiesOf
      <3>3. CASE image = dealt /\ imagesForCards[image] = 1
        <4>1. imagesForCards'[image] = 0 /\ Bears(n, image)'
          BY <3>3, <2>6, <2>8
        <4>2. image \in randomlySelectedImages'
          BY <3>0, <3>3, <2>2 DEF CopiesOf
        <4>3. PICK i \in DOMAIN inGameCards :
                \A k \in DOMAIN inGameCards : Bears(k, image) <=> k = i
          BY <3>0, <3>3 DEF CopiesOf
        <4>4. \A k \in DOMAIN inGameCards' : Bears(k, image)' <=> k \in {i, n}
          BY <4>1, <4>3, <2>4, <2>5
        <4>5. i < n /\ i \in DOMAIN inGameCards'
          BY <2>4
        <4> QED BY <4>1, <4>2, <4>4, <4>5, <2>4 DEF CopiesOf
      <3> QED BY <3>1, <3>2, <3>3, <2>1, <2>7
    <2> QED BY <2>9 DEF CopiesOK
  <1>4. CASE finishDealing
    BY <1>4 DEF CopiesOK, CopiesOf, Bears, finishDealing
  <1>5. CASE arrangeCardsIntoSubviewsAndAddActions
    BY <1>5 DEF CopiesOK, CopiesOf, Bears, arrangeCardsIntoSubviewsAndAddActions
  <1>6. CASE finishArranging
    BY <1>6 DEF CopiesOK, CopiesOf, Bears, finishArranging
  <1>7. CASE UNCHANGED vars
    BY <1>7 DEF CopiesOK, CopiesOf, Bears, vars
  <1> QED
    BY <1>1, <1>2, <1>3, <1>4, <1>5, <1>6, <1>7 DEF Next, ready

(***************************************************************************)
(* Arithmetic of the lines: where they start, and what one more card does. *)
(***************************************************************************)
LEMMA LineStarts ==
  ASSUME NEW line \in 1 .. LinesOnBoard
  PROVE  /\ CardsPerLine \in Nat \ {0}
         /\ (line - 1) * CardsPerLine \in Nat
         /\ line * CardsPerLine = (line - 1) * CardsPerLine + CardsPerLine
  <1>1. CardsPerLine \in Nat \ {0} /\ line \in Nat \ {0}
    BY LevelAssumption
  <1>2. ASSUME NEW a \in Nat \ {0}, NEW C \in Nat \ {0}
        PROVE  (a - 1) * C \in Nat /\ a * C = (a - 1) * C + C
    OBVIOUS
  <1> QED BY <1>1, <1>2

\* A line is full when all cards up to its end have been placed.
LEMMA FullLine ==
  ASSUME NEW line \in 1 .. LinesOnBoard, NEW placed \in Nat
  PROVE  /\ Filled(line, placed) \in 0 .. CardsPerLine
         /\ Filled(line, placed) = CardsPerLine <=> placed >= line * CardsPerLine
  BY LineStarts DEF Filled

\* A card placed in the line whose turn it is fills this line and no other.
LEMMA FillOne ==
  ASSUME NEW line \in 1 .. LinesOnBoard, NEW placed \in Nat,
         (line - 1) * CardsPerLine <= placed, placed < line * CardsPerLine
  PROVE  /\ Filled(line, placed) = placed - (line - 1) * CardsPerLine
         /\ Filled(line, placed + 1) = Filled(line, placed) + 1
         /\ \A other \in 1 .. LinesOnBoard :
              other # line => Filled(other, placed + 1) = Filled(other, placed)
  <1>1. /\ Filled(line, placed) = placed - (line - 1) * CardsPerLine
        /\ Filled(line, placed + 1) = Filled(line, placed) + 1
    BY LineStarts DEF Filled
  <1>2. ASSUME NEW other \in 1 .. LinesOnBoard, other < line
        PROVE  Filled(other, placed + 1) = Filled(other, placed)
    <2>1. other * CardsPerLine <= (line - 1) * CardsPerLine
      BY <1>2, LevelAssumption, ProductGrows
    <2>2. other * CardsPerLine = (other - 1) * CardsPerLine + CardsPerLine
      BY LineStarts
    <2> QED BY <2>1, <2>2, LineStarts DEF Filled
  <1>3. ASSUME NEW other \in 1 .. LinesOnBoard, other > line
        PROVE  Filled(other, placed + 1) = Filled(other, placed)
    <2>1. line * CardsPerLine <= (other - 1) * CardsPerLine
      BY <1>3, LevelAssumption, ProductGrows
    <2> QED BY <2>1, LineStarts DEF Filled
  <1> QED BY <1>1, <1>2, <1>3

\* The first open line is the one whose turn it is.
LEMMA FirstOpenLine ==
  ASSUME TypeOK, PlacingOK, NEW line \in openLines,
         \A other \in openLines : line <= other
  PROVE  /\ line \in 1 .. LinesOnBoard
         /\ (line - 1) * CardsPerLine <= imageCounter
         /\ imageCounter < line * CardsPerLine
  <1>1. line \in 1 .. LinesOnBoard /\ line <= linesNeeded /\ linesNeeded \in Int
    <2>1. Len(inGameCards) \in Nat /\ CardsPerLine \in Nat \ {0}
      BY CardFacts, LevelAssumption
    <2> QED BY <2>1, QuotientAndRemainder DEF openLines, linesNeeded
  <1>2. imageCounter \in Nat
    BY DEF TypeOK
  <1>3. \A other \in 1 .. LinesOnBoard :
          Len(arrayOfStackViews[other]) = Filled(other, imageCounter)
    BY DEF PlacingOK
  <1>4. imageCounter < line * CardsPerLine
    <2>1. Filled(line, imageCounter) < CardsPerLine
      BY <1>1, <1>3 DEF openLines
    <2>2. CardsPerLine \in Nat /\ line * CardsPerLine \in Nat
      BY <1>1, LevelAssumption, LineStarts
    <2>3. ~(imageCounter >= line * CardsPerLine)
      BY <1>1, <1>2, <2>1, <2>2, FullLine
    <2> QED BY <1>2, <2>2, <2>3
  <1>5. (line - 1) * CardsPerLine <= imageCounter
    <2>1. CASE line = 1
      <3>1. (line - 1) * CardsPerLine = 0
        BY <2>1, LevelAssumption
      <3> QED BY <3>1, <1>2
    <2>2. CASE line # 1
      <3>1. line - 1 \in 1 .. LinesOnBoard /\ line - 1 <= linesNeeded
        BY <1>1, <2>2, LevelAssumption
      <3>2. line - 1 \notin openLines
        BY <1>1
      <3>3. ~(Filled(line - 1, imageCounter) < CardsPerLine)
        BY <1>3, <3>1, <3>2 DEF openLines
      <3>4. Filled(line - 1, imageCounter) = CardsPerLine
        <4>1. Filled(line - 1, imageCounter) \in 0 .. CardsPerLine
          BY <1>2, <3>1, FullLine
        <4>2. CardsPerLine \in Nat
          BY LevelAssumption
        <4> QED BY <3>3, <4>1, <4>2
      <3>5. imageCounter >= (line - 1) * CardsPerLine
        BY <1>2, <3>1, <3>4, FullLine
      <3>6. (line - 1) * CardsPerLine \in Nat
        BY <1>1, LineStarts
      <3> QED BY <1>2, <3>5, <3>6
    <2> QED BY <2>1, <2>2
  <1> QED BY <1>1, <1>4, <1>5

(***************************************************************************)
(* The lines are filled in order.                                          *)
(***************************************************************************)
LEMMA PlacingStep ==
  TypeOK /\ NumberingOK /\ PlacingOK /\ [Next]_vars => PlacingOK'
  <1> SUFFICES ASSUME TypeOK, NumberingOK, PlacingOK, [Next]_vars PROVE PlacingOK'
    OBVIOUS
  <1>1. CASE chooseCardImagesFromImageList
    BY <1>1 DEF PlacingOK, chooseCardImagesFromImageList
  <1>2. CASE doubleImages
    BY <1>2 DEF PlacingOK, doubleImages
  <1>3. CASE generateCardsWithImage
    <2>1. /\ imageCounter = 0 /\ imageCounter' = 0
          /\ pc' = "dealing"
          /\ arrayOfStackViews' = arrayOfStackViews
      BY <1>3 DEF PlacingOK, generateCardsWithImage
    <2>2. Len(inGameCards') = Len(inGameCards) + 1 /\ Len(inGameCards) \in Nat
      BY <1>3, DealtCard, CardFacts
    <2> QED BY <2>1, <2>2 DEF PlacingOK
  <1>4. CASE finishDealing
    BY <1>4 DEF PlacingOK, finishDealing
  <1>5. CASE arrangeCardsIntoSubviewsAndAddActions
    <2>1. PICK line \in openLines :
            /\ \A other \in openLines : line <= other
            /\ imageCounter < Len(inGameCards)
            /\ arrayOfStackViews' = [arrayOfStackViews EXCEPT
                 ![line] = Append(@, inGameCards[imageCounter + 1].number)]
      BY <1>5 DEF arrangeCardsIntoSubviewsAndAddActions
    <2>2. /\ pc = "arranging" /\ pc' = "arranging"
          /\ imageCounter' = imageCounter + 1
          /\ inGameCards' = inGameCards
      BY <1>5 DEF arrangeCardsIntoSubviewsAndAddActions
    <2>3. /\ line \in 1 .. LinesOnBoard
          /\ (line - 1) * CardsPerLine <= imageCounter
          /\ imageCounter < line * CardsPerLine
      BY <2>1, FirstOpenLine
    <2>4. imageCounter \in Nat /\ Len(inGameCards) \in Nat
      BY CardFacts DEF TypeOK
    <2>5. inGameCards[imageCounter + 1].number = imageCounter
      BY <2>1, <2>4, CardFacts DEF NumberingOK
    <2> DEFINE old == arrayOfStackViews[line]
    <2>6. old \in Seq(Nat) /\ Len(old) = imageCounter - (line - 1) * CardsPerLine
      BY <2>3, <2>4, FillOne DEF PlacingOK, TypeOK
    <2>7. arrayOfStackViews'[line] = Append(old, imageCounter)
      BY <2>1, <2>3, <2>5 DEF TypeOK
    <2>8. ASSUME NEW other \in 1 .. LinesOnBoard
          PROVE  /\ Len(arrayOfStackViews'[other]) = Filled(other, imageCounter + 1)
                 /\ \A k \in 1 .. Len(arrayOfStackViews'[other]) :
                      arrayOfStackViews'[other][k] = (other - 1) * CardsPerLine + k - 1
      <3>1. CASE other # line
        <4>1. arrayOfStackViews'[other] = arrayOfStackViews[other]
          BY <3>1, <2>1 DEF TypeOK
        <4>2. Filled(other, imageCounter + 1) = Filled(other, imageCounter)
          BY <3>1, <2>3, <2>4, FillOne
        <4> QED BY <4>1, <4>2 DEF PlacingOK
      <3>2. CASE other = line
        <4>1. /\ Len(Append(old, imageCounter)) = Len(old) + 1
              /\ \A k \in 1 .. Len(old) : Append(old, imageCounter)[k] = old[k]
              /\ Append(old, imageCounter)[Len(old) + 1] = imageCounter
          BY <2>4, <2>6, AppendProperties
        <4>2. Len(old) + 1 = Filled(line, imageCounter + 1)
          BY <2>3, <2>4, <2>6, FillOne
        <4>3. \A k \in 1 .. Len(old) : old[k] = (line - 1) * CardsPerLine + k - 1
          BY <2>3 DEF PlacingOK
        <4>4. (line - 1) * CardsPerLine \in Nat /\ Len(old) \in Nat
          BY <2>3, <2>6, LineStarts
        <4> HIDE DEF old
        <4>5. ASSUME NEW k \in 1 .. Len(old) + 1
              PROVE  Append(old, imageCounter)[k] = (line - 1) * CardsPerLine + k - 1
          <5>1. CASE k = Len(old) + 1
            BY <5>1, <4>1, <4>4, <2>4, <2>6
          <5>2. CASE k # Len(old) + 1
            BY <5>2, <4>1, <4>3, <4>4
          <5> QED BY <5>1, <5>2
        <4> QED BY <3>2, <2>7, <4>1, <4>2, <4>5
      <3> QED BY <3>1, <3>2
    <2>9. imageCounter + 1 <= Len(inGameCards)
      BY <2>1, <2>4
    <2> QED BY <2>2, <2>8, <2>9 DEF PlacingOK, Filled
  <1>6. CASE finishArranging
    <2>1. openLines' = openLines
      BY <1>6 DEF finishArranging, openLines, linesNeeded
    <2> QED BY <1>6, <2>1 DEF PlacingOK, finishArranging
  <1>7. CASE UNCHANGED vars
    <2>1. openLines' = openLines
      BY <1>7 DEF vars, openLines, linesNeeded
    <2> QED BY <1>7, <2>1 DEF PlacingOK, vars
  <1> QED
    BY <1>1, <1>2, <1>3, <1>4, <1>5, <1>6, <1>7 DEF Next, ready

(***************************************************************************)
(* The inductive invariant holds throughout.                               *)
(***************************************************************************)
LEMMA InvAlways == Spec => []DealInv
  <1>1. DealInv /\ [Next]_vars => DealInv'
    BY TypeStep, DrawingStep, NumberingStep, CopiesStep, PlacingStep DEF DealInv
  <1> QED BY <1>1, InvInit, PTL DEF Spec

(***************************************************************************)
(* When as many cards are made as copies were put into the array, none is  *)
(* left: the cards, each with its image and whether it is the second one   *)
(* with it, are as many as the pairs of a drawn image and 1 or 2, and no   *)
(* two of them agree.                                                      *)
(***************************************************************************)
LEMMA AllDealt ==
  ASSUME DealInv, pc # "choosing", Len(inGameCards) = numberOfCards
  PROVE  \A image \in randomlySelectedImages : imagesForCards[image] = 0
  <1> DEFINE Pairs == randomlySelectedImages \X {1, 2}
  <1> DEFINE Second(i) == \E k \in DOMAIN inGameCards :
                            k < i /\ inGameCards[k].image = inGameCards[i].image
  <1> DEFINE f == [i \in DOMAIN inGameCards |->
                     <<inGameCards[i].image, IF Second(i) THEN 2 ELSE 1>>]
  <1>0. TypeOK /\ CopiesOK
    BY DEF DealInv
  <1>1. /\ DOMAIN inGameCards = 1 .. Len(inGameCards)
        /\ Len(inGameCards) \in Nat
        /\ \A i \in DOMAIN inGameCards : inGameCards[i].image \in cardImages
    BY <1>0, CardFacts
  <1>2. \A image \in cardImages : CopiesOf(image) /\ imagesForCards[image] \in 0 .. 2
    BY <1>0 DEF CopiesOK, TypeOK
  <1>3. \A i \in DOMAIN inGameCards : inGameCards[i].image \in randomlySelectedImages
    BY <1>1, <1>2 DEF CopiesOf, Bears
  \* Of three cards with one image two are the same card.
  <1>4. ASSUME NEW h \in DOMAIN inGameCards, NEW i \in DOMAIN inGameCards,
               NEW j \in DOMAIN inGameCards,
               inGameCards[h].image = inGameCards[j].image,
               inGameCards[i].image = inGameCards[j].image
        PROVE  h = i \/ h = j \/ i = j
    <2> DEFINE image == inGameCards[j].image
    <2>1. Bears(h, image) /\ Bears(i, image) /\ Bears(j, image)
      BY <1>4 DEF Bears
    <2>2. image \in randomlySelectedImages /\ CopiesOf(image) /\ imagesForCards[image] \in 0 .. 2
      BY <1>1, <1>2, <1>3
    <2> HIDE DEF image
    <2>3. CASE imagesForCards[image] = 2
      BY <2>1, <2>2, <2>3 DEF CopiesOf
    <2>4. CASE imagesForCards[image] = 1
      BY <2>1, <2>2, <2>4 DEF CopiesOf
    <2>5. CASE imagesForCards[image] = 0
      BY <2>1, <2>2, <2>5 DEF CopiesOf
    <2> QED BY <2>2, <2>3, <2>4, <2>5
  <1>5. f \in Injection(DOMAIN inGameCards, Pairs)
    <2>1. f \in [DOMAIN inGameCards -> Pairs]
      BY <1>3
    <2>2. ASSUME NEW i \in DOMAIN inGameCards, NEW j \in DOMAIN inGameCards,
                 f[i] = f[j], i < j
          PROVE  FALSE
      <3>1. inGameCards[i].image = inGameCards[j].image /\ (Second(i) <=> Second(j))
        BY <2>2
      <3>2. Second(j)
        BY <2>2, <3>1
      <3>3. PICK h \in DOMAIN inGameCards :
              h < i /\ inGameCards[h].image = inGameCards[i].image
        BY <3>1, <3>2
      <3>4. h = i \/ h = j \/ i = j
        BY <1>4, <3>1, <3>3
      <3> QED BY <1>1, <2>2, <3>3, <3>4
    <2>3. \A i, j \in DOMAIN inGameCards : f[i] = f[j] => i = j
      <3> SUFFICES ASSUME NEW i \in DOMAIN inGameCards, NEW j \in DOMAIN inGameCards,
                          f[i] = f[j]
                   PROVE  i = j
        OBVIOUS
      <3> HIDE DEF f
      <3>1. ~(i < j) /\ ~(j < i)
        BY <2>2
      <3> QED BY <1>1, <3>1
    <2> HIDE DEF f, Pairs
    <2> QED BY <2>1, <2>3 DEF Injection, IsInjective
  <1>6. IsFiniteSet(Pairs) /\ Cardinality(Pairs) = numberOfCards
    BY <1>0, CopiesOfDrawn
  <1>7. Cardinality(DOMAIN inGameCards) = numberOfCards
    BY <1>1, FS_Interval
  <1>8. f \in Surjection(DOMAIN inGameCards, Pairs)
    <2> HIDE DEF f, Pairs
    <2> QED BY <1>5, <1>6, <1>7, FS_Injection
  <1>9. ASSUME NEW image \in randomlySelectedImages PROVE imagesForCards[image] = 0
    <2>1. <<image, 1>> \in Pairs /\ <<image, 2>> \in Pairs
      OBVIOUS
    <2>2. PICK i \in DOMAIN inGameCards, j \in DOMAIN inGameCards :
            f[i] = <<image, 1>> /\ f[j] = <<image, 2>>
      <3> HIDE DEF f, Pairs
      <3> QED BY <1>8, <2>1 DEF Surjection
    <2>3. Bears(i, image) /\ Bears(j, image)
      BY <2>2 DEF Bears
    <2>4. i # j
      BY <2>2
    <2>5. CopiesOf(image) /\ imagesForCards[image] \in 0 .. 2
      BY <1>0, <1>2 DEF TypeOK
    <2> QED BY <2>3, <2>4, <2>5 DEF CopiesOf
  <1> QED BY <1>9

(***************************************************************************)
(* The other way round: while a card is missing a copy is left.  If none   *)
(* were, each drawn image would be on two cards, a first and a second one, *)
(* and there would be as many cards as copies.                             *)
(***************************************************************************)
LEMMA CopyIsLeft ==
  ASSUME DealInv, pc = "dealing", Len(inGameCards) < numberOfCards
  PROVE  \E image \in cardImages : imagesForCards[image] > 0
  <1> SUFFICES ASSUME \A image \in cardImages : ~(imagesForCards[image] > 0)
               PROVE  FALSE
    OBVIOUS
  <1> DEFINE Pairs == randomlySelectedImages \X {1, 2}
  <1> DEFINE Second(i) == \E k \in DOMAIN inGameCards :
                            k < i /\ inGameCards[k].image = inGameCards[i].image
  <1> DEFINE f == [i \in DOMAIN inGameCards |->
                     <<inGameCards[i].image, IF Second(i) THEN 2 ELSE 1>>]
  <1>0. TypeOK /\ CopiesOK
    BY DEF DealInv
  <1>1. /\ DOMAIN inGameCards = 1 .. Len(inGameCards)
        /\ Len(inGameCards) \in Nat
        /\ \A i \in DOMAIN inGameCards : inGameCards[i].image \in cardImages
    BY <1>0, CardFacts
  <1>2. \A image \in cardImages : CopiesOf(image) /\ imagesForCards[image] = 0
    <2>1. \A image \in cardImages : imagesForCards[image] \in 0 .. 2
      BY <1>0 DEF TypeOK
    <2>2. \A n \in 0 .. 2 : ~(n > 0) => n = 0
      OBVIOUS
    <2>3. \A image \in cardImages : imagesForCards[image] = 0
      BY <2>1, <2>2
    <2> QED BY <1>0, <2>3 DEF CopiesOK
  <1>3. f \in [DOMAIN inGameCards -> Pairs]
    <2>1. \A i \in DOMAIN inGameCards : inGameCards[i].image \in randomlySelectedImages
      BY <1>1, <1>2 DEF CopiesOf, Bears
    <2> QED BY <2>1
  <1>4. ASSUME NEW image \in randomlySelectedImages
        PROVE  \E i, j \in DOMAIN inGameCards : f[i] = <<image, 1>> /\ f[j] = <<image, 2>>
    <2>1. image \in cardImages
      BY <1>0 DEF TypeOK
    <2>2. PICK i \in DOMAIN inGameCards, j \in DOMAIN inGameCards :
            /\ i < j
            /\ \A k \in DOMAIN inGameCards : Bears(k, image) <=> k \in {i, j}
      BY <1>2, <2>1 DEF CopiesOf
    <2>3. inGameCards[i].image = image /\ inGameCards[j].image = image
      BY <2>2 DEF Bears
    <2>4. Second(j)
      BY <2>2, <2>3
    <2>5. ~Second(i)
      <3> SUFFICES ASSUME NEW k \in DOMAIN inGameCards, k < i,
                          inGameCards[k].image = inGameCards[i].image
                   PROVE  FALSE
        OBVIOUS
      <3>1. k = i \/ k = j
        BY <2>2, <2>3 DEF Bears
      <3>2. k \in Nat /\ i \in Nat /\ j \in Nat /\ i < j
        BY <1>1, <2>2
      <3> QED BY <3>1, <3>2
    <2> HIDE DEF Second
    <2>6. f[i] = <<image, 1>> /\ f[j] = <<image, 2>>
      BY <2>3, <2>4, <2>5
    <2> QED BY <2>6
  <1>5. f \in Surjection(DOMAIN inGameCards, Pairs)
    <2>1. ASSUME NEW q \in Pairs PROVE \E i \in DOMAIN inGameCards : f[i] = q
      <3>1. PICK image \in randomlySelectedImages : q = <<image, 1>> \/ q = <<image, 2>>
        OBVIOUS
      <3> HIDE DEF f
      <3> QED BY <1>4, <3>1
    <2> HIDE DEF f, Pairs
    <2> QED BY <1>3, <2>1 DEF Surjection
  <1>6. Cardinality(Pairs) = numberOfCards
    BY <1>0, CopiesOfDrawn
  <1>7. IsFiniteSet(DOMAIN inGameCards) /\ Cardinality(DOMAIN inGameCards) = Len(inGameCards)
    BY <1>1, FS_Interval
  <1>8. numberOfCards <= Len(inGameCards)
    <2> HIDE DEF f, Pairs
    <2> QED BY <1>5, <1>6, <1>7, FS_Surjection
  <1>9. numberOfCards \in Nat
    BY <1>0, DrawnFacts
  <1> QED BY <1>1, <1>8, <1>9

\* While a line is open there are cards that have not been placed.
LEMMA CardIsLeft ==
  ASSUME DealInv, pc = "arranging", NEW line \in openLines
  PROVE  imageCounter < Len(inGameCards)
  <1>0. TypeOK /\ PlacingOK
    BY DEF DealInv
  <1>1. /\ line \in 1 .. LinesOnBoard /\ line \in Nat
        /\ line <= Len(inGameCards) \div CardsPerLine
        /\ Len(arrayOfStackViews[line]) < CardsPerLine
    BY DEF openLines, linesNeeded
  <1>2. /\ imageCounter \in Nat /\ Len(inGameCards) \in Nat
        /\ CardsPerLine \in Nat \ {0} /\ line * CardsPerLine \in Nat
    BY <1>0, <1>1, CardFacts, LineStarts DEF TypeOK
  <1>3. Filled(line, imageCounter) < CardsPerLine
    BY <1>0, <1>1 DEF PlacingOK
  <1>4. ~(imageCounter >= line * CardsPerLine)
    <2>1. Filled(line, imageCounter) # CardsPerLine
      BY <1>2, <1>3
    <2> QED BY <1>1, <1>2, <2>1, FullLine
  <1>5. line * CardsPerLine <= Len(inGameCards)
    <2> DEFINE lines == Len(inGameCards) \div CardsPerLine
               rest == Len(inGameCards) % CardsPerLine
    <2>1. lines \in Nat /\ rest \in Nat /\ Len(inGameCards) = lines * CardsPerLine + rest
      <3>1. ASSUME NEW c \in Nat, NEW C \in Nat \ {0}
            PROVE  c \div C \in Nat /\ c % C \in Nat /\ c = (c \div C) * C + (c % C)
        BY QuotientAndRemainder
      <3> QED BY <1>2, <3>1
    <2>2. line <= lines
      BY <1>1
    <2> HIDE DEF lines, rest
    <2>3. line * CardsPerLine <= lines * CardsPerLine /\ lines * CardsPerLine \in Nat
      BY <1>1, <1>2, <2>1, <2>2, ProductGrows
    <2> QED BY <1>2, <2>1, <2>3
  <1> QED BY <1>2, <1>4, <1>5

LEMMA InvInRange == DealInv => NoIndexOutOfRange
  BY CopyIsLeft, CardIsLeft DEF NoIndexOutOfRange

\* Once the cards are dealt there are as many as the level has.
LEMMA AllCards ==
  ASSUME DealInv, pc = "done"
  PROVE  /\ Len(inGameCards) = numberOfCards
         /\ Len(inGameCards) = chooseGameModes[difficulty]
         /\ Cardinality(randomlySelectedImages) = numberOfImagesToCreateCards(difficulty)
  <1>1. /\ Len(inGameCards) = numberOfCards
        /\ Cardinality(randomlySelectedImages) = numberOfImagesToCreateCards(difficulty)
    BY DEF DealInv, NumberingOK, DrawingOK
  <1>2. difficulty \in GameModes
    BY DEF DealInv, TypeOK
  <1> QED BY <1>1, <1>2, LevelFacts DEF numberOfCards

(***************************************************************************)
(* BoardIsADeal follows from the invariant.                                *)
(***************************************************************************)
LEMMA InvMakesDeal == DealInv => BoardIsADeal
  <1> SUFFICES ASSUME DealInv, pc = "done" PROVE BoardIsADeal
    BY DEF BoardIsADeal
  <1> DEFINE n == chooseGameModes[difficulty]
  <1> DEFINE deal == [c \in 0 .. Len(inGameCards) - 1 |-> inGameCards[c + 1].image]
  <1>1. \A i \in DOMAIN inGameCards : inGameCards[i].number = i - 1
    BY DEF DealInv, NumberingOK
  <1>2. /\ Len(inGameCards) = numberOfCards
        /\ Len(inGameCards) = n
        /\ Cardinality(randomlySelectedImages) = numberOfImagesToCreateCards(difficulty)
    BY AllCards
  <1>3. /\ DOMAIN inGameCards = 1 .. n /\ n \in Nat
        /\ \A i \in 1 .. n : inGameCards[i].image \in cardImages
    BY <1>2, CardFacts DEF DealInv
  <1>4. \A image \in cardImages : CopiesOf(image)
    BY DEF DealInv, CopiesOK
  <1>5. deal \in [0 .. n - 1 -> cardImages]
    BY <1>2, <1>3
  <1>6. \A c \in 0 .. n - 1 : deal[c] = inGameCards[c + 1].image
    BY <1>2
  <1> HIDE DEF deal, n
  <1>7. ASSUME NEW c \in 0 .. n - 1
        PROVE  \E d \in (0 .. n - 1) \ {c} :
                 \A e \in 0 .. n - 1 : deal[e] = deal[c] <=> e \in {c, d}
    <2>1. PICK image \in cardImages : image = deal[c]
      BY <1>5
    <2>2. c + 1 \in DOMAIN inGameCards /\ Bears(c + 1, image)
      BY <1>3, <1>6, <2>1 DEF Bears
    <2>3. image \in randomlySelectedImages
      BY <1>4, <2>2 DEF CopiesOf
    <2>4. imagesForCards[image] = 0
      BY <1>2, <2>3, AllDealt
    <2>5. PICK i \in DOMAIN inGameCards, j \in DOMAIN inGameCards :
            /\ i < j
            /\ \A k \in DOMAIN inGameCards : Bears(k, image) <=> k \in {i, j}
      BY <1>4, <2>3, <2>4 DEF CopiesOf
    <2>6. \A e \in 0 .. n - 1 : deal[e] = image <=> e + 1 \in {i, j}
      BY <1>3, <1>6, <2>5 DEF Bears
    <2>7. c + 1 \in {i, j}
      BY <2>2, <2>5
    <2>8. CASE c + 1 = i
      <3>1. j - 1 \in (0 .. n - 1) \ {c}
        BY <1>3, <2>5, <2>8
      <3>2. \A e \in 0 .. n - 1 : deal[e] = deal[c] <=> e \in {c, j - 1}
        BY <1>3, <2>1, <2>6, <2>8
      <3> QED BY <3>1, <3>2
    <2>9. CASE c + 1 = j
      <3>1. i - 1 \in (0 .. n - 1) \ {c}
        BY <1>3, <2>5, <2>9
      <3>2. \A e \in 0 .. n - 1 : deal[e] = deal[c] <=> e \in {c, i - 1}
        BY <1>3, <2>1, <2>6, <2>9
      <3> QED BY <3>1, <3>2
    <2> QED BY <2>7, <2>8, <2>9
  <1>8. deal \in Deals(difficulty)
    BY <1>5, <1>7 DEF Deals, Numbers, n
  <1> QED BY <1>1, <1>2, <1>8 DEF BoardIsADeal, deal

(***************************************************************************)
(* EveryCardIsPlaced follows from the invariant.                           *)
(***************************************************************************)
\* The lines are full when the loop is left: every card has been placed.
LEMMA AllPlaced ==
  ASSUME DealInv, pc = "done"
  PROVE  imageCounter = chooseGameModes[difficulty]
  <1> DEFINE n == chooseGameModes[difficulty]
  <1> DEFINE lines == n \div CardsPerLine
  <1>1. difficulty \in GameModes /\ imageCounter \in Nat /\ PlacingOK /\ openLines = {}
    BY DEF DealInv, TypeOK, PlacingOK
  <1>2. /\ n \in Nat \ {0} /\ lines \in 0 .. LinesOnBoard /\ lines * CardsPerLine = n
        /\ CardsPerLine \in Nat \ {0} /\ LinesOnBoard \in Nat
    BY <1>1, LevelFacts
  <1>3. linesNeeded = lines /\ imageCounter <= n
    BY <1>1, AllCards DEF linesNeeded, PlacingOK
  <1> HIDE DEF n, lines
  <1>4. lines \in 1 .. LinesOnBoard
    <2>1. lines # 0
      BY <1>2
    <2> QED BY <1>2, <2>1
  <1>5. ~(Filled(lines, imageCounter) < CardsPerLine)
    BY <1>1, <1>2, <1>3, <1>4 DEF openLines, PlacingOK
  <1>6. Filled(lines, imageCounter) \in 0 .. CardsPerLine
    BY <1>1, <1>4, FullLine
  <1>7. Filled(lines, imageCounter) = CardsPerLine
    BY <1>2, <1>5, <1>6
  <1>8. imageCounter >= lines * CardsPerLine
    BY <1>1, <1>4, <1>7, FullLine
  <1> QED BY <1>1, <1>2, <1>3, <1>8 DEF n

LEMMA InvPlacesCards == DealInv => EveryCardIsPlaced
  <1> SUFFICES ASSUME DealInv, pc = "done", NEW c \in Numbers(difficulty)
               PROVE  { p \in (1 .. LinesOnBoard) \X (1 .. CardsPerLine) :
                          /\ p[2] <= Len(arrayOfStackViews[p[1]])
                          /\ arrayOfStackViews[p[1]][p[2]] = c }
                        = { <<LineOf(c) + 1, (c % CardsPerLine) + 1>> }
    BY DEF EveryCardIsPlaced
  <1> DEFINE n == chooseGameModes[difficulty]
  <1> DEFINE lines == n \div CardsPerLine
  <1> DEFINE q == c \div CardsPerLine
  <1> DEFINE r == c % CardsPerLine
  <1>1. difficulty \in GameModes /\ imageCounter = n /\ PlacingOK
    BY AllPlaced DEF DealInv, TypeOK
  <1>2. /\ n \in Nat \ {0} /\ lines \in 0 .. LinesOnBoard /\ lines * CardsPerLine = n
        /\ CardsPerLine \in Nat \ {0} /\ LinesOnBoard \in Nat
    BY <1>1, LevelFacts
  <1>3. c \in 0 .. n - 1
    BY DEF Numbers
  <1>4. q \in Nat /\ r \in 0 .. CardsPerLine - 1 /\ c = q * CardsPerLine + r
    <2>1. c \in Nat /\ CardsPerLine \in Nat \ {0}
      BY <1>2, <1>3
    <2> QED BY <2>1, QuotientAndRemainder
  <1> HIDE DEF n, lines, q, r
  <1>5. q < lines
    <2> SUFFICES ASSUME lines <= q PROVE FALSE
      BY <1>2, <1>4
    <2>1. lines * CardsPerLine <= q * CardsPerLine /\ q * CardsPerLine \in Nat
      BY <1>2, <1>4, ProductGrows
    <2> QED BY <1>2, <1>3, <1>4, <2>1
  <1>6. q + 1 \in 1 .. LinesOnBoard
    BY <1>2, <1>4, <1>5
  <1>7. Len(arrayOfStackViews[q + 1]) = CardsPerLine
    <2>1. (q + 1) * CardsPerLine <= n
      BY <1>2, <1>4, <1>5, ProductGrows
    <2>2. (q + 1) * CardsPerLine \in Nat
      BY <1>2, <1>4, ProductGrows
    <2>3. n >= (q + 1) * CardsPerLine
      BY <1>2, <2>1, <2>2
    <2>4. Filled(q + 1, n) = CardsPerLine
      BY <1>2, <1>6, <2>3, FullLine
    <2> QED BY <1>1, <1>6, <2>4 DEF PlacingOK
  <1>8. \A line \in 1 .. LinesOnBoard : \A k \in 1 .. CardsPerLine :
          k <= Len(arrayOfStackViews[line]) =>
            arrayOfStackViews[line][k] = (line - 1) * CardsPerLine + k - 1
    <2> SUFFICES ASSUME NEW line \in 1 .. LinesOnBoard, NEW k \in 1 .. CardsPerLine,
                        k <= Len(arrayOfStackViews[line])
                 PROVE  arrayOfStackViews[line][k] = (line - 1) * CardsPerLine + k - 1
      OBVIOUS
    <2>1. Len(arrayOfStackViews[line]) \in Nat
      BY DEF DealInv, TypeOK
    <2>2. k \in 1 .. Len(arrayOfStackViews[line])
      BY <1>2, <2>1
    <2> QED BY <1>1, <2>2 DEF PlacingOK
  <1>9. arrayOfStackViews[q + 1][r + 1] = c
    <2>1. arrayOfStackViews[q + 1][r + 1] = (q + 1 - 1) * CardsPerLine + (r + 1) - 1
      BY <1>2, <1>4, <1>6, <1>7, <1>8
    <2>2. q + 1 - 1 = q /\ q * CardsPerLine \in Nat
      BY <1>2, <1>4, ProductGrows
    <2> QED BY <1>4, <2>1, <2>2
  <1>10. ASSUME NEW line \in 1 .. LinesOnBoard, NEW k \in 1 .. CardsPerLine,
                k <= Len(arrayOfStackViews[line]),
                arrayOfStackViews[line][k] = c
         PROVE  line = q + 1 /\ k = r + 1
    <2>1. c = (line - 1) * CardsPerLine + k - 1
      BY <1>8, <1>10
    <2>2. (line - 1) * CardsPerLine \in Nat
      BY LineStarts
    <2>3. c = (line - 1) * CardsPerLine + (k - 1)
      BY <1>2, <2>1, <2>2
    <2>4. line - 1 \in Nat /\ k - 1 \in Nat /\ k - 1 < CardsPerLine
      BY <1>2
    <2>5. q = line - 1 /\ r = k - 1
      BY <1>2, <2>3, <2>4, UniqueQuotient DEF q, r
    <2> QED BY <1>2, <2>5
  <1>11. r + 1 \in 1 .. CardsPerLine /\ r + 1 <= Len(arrayOfStackViews[q + 1])
    BY <1>2, <1>4, <1>7
  <1>12. { p \in (1 .. LinesOnBoard) \X (1 .. CardsPerLine) :
             /\ p[2] <= Len(arrayOfStackViews[p[1]])
             /\ arrayOfStackViews[p[1]][p[2]] = c }
           = { <<q + 1, r + 1>> }
    BY <1>6, <1>9, <1>10, <1>11
  <1> QED BY <1>12 DEF LineOf, q, r

(***************************************************************************)
(* The theorems.                                                           *)
(***************************************************************************)
\* The loops of CardGameBrain and of the board keep their types; in
\* particular no image is taken out of the array more often than it was put in.
THEOREM TypeCorrect == Spec => []TypeOK
  BY InvAlways, PTL DEF DealInv

\* No iteration of the loops removes an image from an empty array or reads a card
\* past the last one, whatever images were drawn.
THEOREM LoopsStayInRange == Spec => []NoIndexOutOfRange
  BY InvAlways, InvInRange, PTL

\* Whatever images are drawn, generateCardsWithImage makes a board that CardGame
\* may start from: numbered in order, every image on exactly two cards.
THEOREM LoopsMakeADeal == Spec => []BoardIsADeal
  BY InvAlways, InvMakesDeal, PTL

\* arrangeCardsIntoSubviewsAndAddActions puts every card of the level into one
\* place on the board, the one that LineOf names.
THEOREM LoopPlacesEveryCard == Spec => []EveryCardIsPlaced
  BY InvAlways, InvPlacesCards, PTL
=============================================================================
