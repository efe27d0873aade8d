---------------------------- MODULE PatientProofs ----------------------------
(***************************************************************************)
(* Proofs about the player who waits: one who restarts only after the      *)
(* dealt cards have turned over, touches no third card and opens no sheet  *)
(* while a pair is judged.  The last of them is that this player plays the *)
(* memory game of MemoryGame.                                              *)
(***************************************************************************)
EXTENDS HomeProofs, HomeRefinement

(***************************************************************************)
(* What a touch and the blocks do to the jobs and to the open cards.       *)
(***************************************************************************)
\* A touch opens a card, which schedules a job if it is the second, or nothing
\* happens.
LEMMA TapFacts ==
  ASSUME TypeOK, ExtraTaps = FALSE, MayTap,
         NEW card \in DOMAIN inGameCards, cardSelected(card)
  PROVE  /\ Len(flippedCardNumber) < 2
         /\ UNCHANGED <<difficulty, inGameCards, faded, numberOfClearedCards, userHasTried,
                        results, faceDownTimers, presented, loginQueued>>
         /\ presented = "nothing" /\ card \notin faded
         /\ \/ UNCHANGED <<isFlipped, flippedCardNumber, checks>>
            \/ /\ ~isFlipped[card]
               /\ flippedCardNumber' = Append(flippedCardNumber, card)
               /\ Len(flippedCardNumber') = Len(flippedCardNumber) + 1
               /\ checks' = IF Len(flippedCardNumber') = 2 THEN checks + 1 ELSE checks
  <1>1. Len(flippedCardNumber) < 2
    BY DEF MayTap, countSelectedCards
  <1>2. /\ UNCHANGED <<difficulty, inGameCards, faded, numberOfClearedCards, userHasTried,
                       results, faceDownTimers, presented, loginQueued>>
        /\ presented = "nothing" /\ card \notin faded
        /\ checks' = IF Len(flippedCardNumber') = 2 THEN checks + 1 ELSE checks
    BY DEF cardSelected, flipCard, Touchable, Uncovered, ui, countSelectedCards
  <1>3. CASE ~CanFlip(card)
    <2>1. UNCHANGED <<isFlipped, flippedCardNumber>>
      BY <1>3 DEF cardSelected, flipCard
    <2>2. flippedCardNumber' = flippedCardNumber
      BY <2>1
    <2>3. Len(flippedCardNumber') # 2
      BY <1>1, <2>2
    <2> QED
      BY <1>1, <1>2, <2>1, <2>3
  <1>4. CASE CanFlip(card)
    <2>1. ~isFlipped[card] /\ flippedCardNumber' = Append(flippedCardNumber, card)
      BY <1>4 DEF cardSelected, flipCard, CanFlip, saveUsersChoice
    <2>2. flippedCardNumber \in Seq(Numbers(difficulty)) /\ card \in Numbers(difficulty)
      BY DealsAreFunctions DEF TypeOK
    <2>3. Len(flippedCardNumber') = Len(flippedCardNumber) + 1
      BY <2>1, <2>2, AppendProperties
    <2> QED
      BY <1>1, <1>2, <2>1, <2>3
  <1> QED
    BY <1>3, <1>4

\* A check turns a job that waits for it into one that waits for its resolution;
\* the result of the first such job is that of the open cards.
LEMMA CheckFacts ==
  ASSUME TypeOK, checkBlock
  PROVE  /\ checks > 0 /\ checks' = checks - 1
         /\ results' \in Seq(Job) /\ Len(results') = Len(results) + 1
         /\ results = <<>> => Head(results').right = AnswerIsRight
         /\ UNCHANGED <<difficulty, inGameCards, isFlipped, faded, flippedCardNumber,
                        imagesThatUserHasChosen, numberOfClearedCards, faceDownTimers>>
  <1> DEFINE job == [right |-> AnswerIsRight, checksAhead |-> checks - 1]
             older == [j \in DOMAIN results |->
                         [results[j] EXCEPT !.checksAhead = OneLess(@)]]
             T == {older[j] : j \in DOMAIN results} \cup {job}
  <1>1. /\ checks > 0 /\ checks' = checks - 1
        /\ results' = Append(older, job)
        /\ UNCHANGED <<difficulty, inGameCards, isFlipped, faded, flippedCardNumber,
                       imagesThatUserHasChosen, numberOfClearedCards, faceDownTimers>>
    BY DEF checkBlock, checkAnswer
  <1>2. job.right = AnswerIsRight
    OBVIOUS
  <1>3. older \in [DOMAIN results -> T] /\ job \in T
    OBVIOUS
  <1>4. results' \in Seq(Job) /\ results \in Seq(Job)
    <2>1. [Next]_vars
      BY DEF Next
    <2> QED
      BY <2>1, TypeStep DEF TypeOK
  <1> HIDE DEF older, job, T
  <1>5. older \in Seq(T) /\ Len(older) = Len(results)
    BY <1>3, <1>4, MappedSequence
  <1>6. Len(results') = Len(results) + 1
    BY <1>1, <1>3, <1>5, AppendProperties
  <1>7. ASSUME results = <<>>
        PROVE  Head(results') = job
    <2>1. Len(older) = 0
      BY <1>5, <1>7
    <2>2. results'[Len(older) + 1] = job
      BY <1>1, <1>3, <1>5, AppendProperties
    <2> QED
      BY <1>4, <2>1, <2>2
  <1> QED
    BY <1>1, <1>2, <1>4, <1>6, <1>7

\* A resolution ends a job, closes an open pair, and is one block less that the
\* pending timers wait for.
LEMMA ResolveFacts ==
  ASSUME TypeOK, resolveBlock
  PROVE  /\ Len(results) > 0 /\ Len(results') = Len(results) - 1
         /\ UNCHANGED <<difficulty, inGameCards, userHasTried, checks, loginQueued>>
         /\ Len(faceDownTimers') = Len(faceDownTimers)
         /\ faceDownTimers # <<>> =>
              Head(faceDownTimers') = OneLess(Head(faceDownTimers))
         /\ Len(flippedCardNumber) = 2 => flippedCardNumber' = <<>>
         /\ Len(flippedCardNumber) # 2 =>
              UNCHANGED <<flippedCardNumber, faded, numberOfClearedCards>>
  <1>1. TypeOK'
    <2>1. [Next]_vars
      BY DEF Next
    <2> QED
      BY <2>1, TypeStep
  <1>2. /\ results # <<>> /\ results' = Tail(results)
        /\ UNCHANGED <<difficulty, inGameCards, userHasTried, checks, loginQueued>>
        /\ faceDownTimers' = [t \in DOMAIN faceDownTimers |-> OneLess(faceDownTimers[t])]
    BY DEF resolveBlock, removeCardsFromTheBoard, unflipCard
  <1>3. Len(results) > 0 /\ Len(results') = Len(results) - 1
    BY <1>2 DEF TypeOK
  <1>4. /\ Len(faceDownTimers') = Len(faceDownTimers)
        /\ faceDownTimers # <<>> => Head(faceDownTimers') = OneLess(Head(faceDownTimers))
    <2>1. /\ faceDownTimers \in Seq(Nat) /\ faceDownTimers' \in Seq(Nat)
          /\ DOMAIN faceDownTimers' = DOMAIN faceDownTimers
      BY <1>1, <1>2 DEF TypeOK
    <2>2. Len(faceDownTimers') = Len(faceDownTimers)
      BY <2>1
    <2>3. ASSUME faceDownTimers # <<>>
          PROVE  Head(faceDownTimers') = OneLess(Head(faceDownTimers))
      <3>1. 1 \in DOMAIN faceDownTimers /\ faceDownTimers' # <<>>
        BY <2>1, <2>2, <2>3
      <3>2. faceDownTimers'[1] = OneLess(faceDownTimers[1])
        BY <1>2, <3>1
      <3> QED
        BY <2>1, <2>3, <3>1, <3>2
    <2> QED
      BY <2>2, <2>3
  <1>5. /\ Len(flippedCardNumber) = 2 => flippedCardNumber' = <<>>
        /\ Len(flippedCardNumber) # 2 =>
             UNCHANGED <<flippedCardNumber, faded, numberOfClearedCards>>
    BY DEF resolveBlock, removeCardsFromTheBoard, unflipCard, deleteUsersChoice,
           countSelectedCards
  <1> QED
    BY <1>2, <1>3, <1>4, <1>5

----------------------------------------------------------------------------
(***************************************************************************)
(* One job per pair.                                                       *)
(***************************************************************************)
LEMMA JobStep ==
  ASSUME EagerRestart = FALSE, ExtraTaps = FALSE
  PROVE  TypeOK /\ BoardWaits /\ OneJobPerPair /\ [Next]_vars => OneJobPerPair'
  <1> SUFFICES ASSUME TypeOK, BoardWaits, OneJobPerPair, [Next]_vars
               PROVE  OneJobPerPair'
    OBVIOUS
  <1>0. /\ checks \in Nat /\ Len(results) \in Nat /\ Len(flippedCardNumber) \in Nat
        /\ faceDownTimers \in Seq(Nat) /\ Len(faceDownTimers) <= 1
        /\ flippedCardNumber \in Seq(Numbers(difficulty))
        /\ results \in Seq(Job)
    BY DEF TypeOK, BoardWaits
  <1>t. /\ checks' \in Nat /\ Len(results') \in Nat /\ Len(flippedCardNumber') \in Nat
        /\ faceDownTimers' \in Seq(Nat)
    BY TypeStep DEF TypeOK
  <1> USE DEF OneJobPerPair, pendingJobs, countSelectedCards
  <1>1. ASSUME NEW card \in DOMAIN inGameCards, MayTap, cardSelected(card)
        PROVE  OneJobPerPair'
    <2>1. CASE UNCHANGED <<isFlipped, flippedCardNumber, checks>>
      BY <1>1, <2>1, TapFacts
    <2>2. CASE ~isFlipped[card]
      <3>1. card \in DOMAIN isFlipped
        BY DealsAreFunctions DEF TypeOK
      <3>2. faceDownTimers = <<>>
        BY <2>2, <3>1 DEF BoardWaits
      <3>3. /\ Len(flippedCardNumber) < 2
            /\ results' = results /\ faceDownTimers' = faceDownTimers
        BY <1>1, TapFacts
      <3>4. checks' = IF Len(flippedCardNumber') = 2 THEN checks + 1 ELSE checks
        BY <1>1 DEF cardSelected
      <3>5. checks = 0 /\ Len(results) = 0
        <4> HIDE DEF OneJobPerPair, pendingJobs, countSelectedCards
        <4>a. Len(flippedCardNumber) \in Nat /\ Len(flippedCardNumber) < 2
          BY <1>0, <3>3
        <4>1. countSelectedCards # 2
          BY <4>a DEF countSelectedCards
        <4>2. pendingJobs = 0
          BY <3>2, <4>1 DEF OneJobPerPair
        <4>3. checks \in Nat /\ Len(results) \in Nat
          BY <1>0
        <4> QED
          BY <4>2, <4>3 DEF pendingJobs
      <3>6. checks' + Len(results') = IF Len(flippedCardNumber') = 2 THEN 1 ELSE 0
        BY <1>0, <1>t, <3>3, <3>4, <3>5
      <3> QED
        BY <3>2, <3>3, <3>6
    <2>3. UNCHANGED <<isFlipped, flippedCardNumber, checks>> \/ ~isFlipped[card]
      BY <1>1, TapFacts
    <2> QED
      BY <2>1, <2>2, <2>3
  <1>2. CASE checkBlock
    <2>1. /\ checks > 0 /\ checks' = checks - 1 /\ Len(results') = Len(results) + 1
          /\ flippedCardNumber' = flippedCardNumber /\ faceDownTimers' = faceDownTimers
      BY <1>2, CheckFacts
    <2> QED
      BY <1>0, <1>t, <2>1
  <1>3. CASE resolveBlock
    <2>1. CASE faceDownTimers = <<>>
      <3>1. faceDownTimers' = <<>>
        <4>1. faceDownTimers' \in Seq(Nat)
          BY TypeStep DEF TypeOK
        <4>2. Len(faceDownTimers') = 0
          BY <1>3, <2>1, ResolveFacts
        <4> QED
          BY <4>1, <4>2
      <3>2. Len(flippedCardNumber) = 2 /\ Len(results) = 1 /\ checks = 0
        BY <1>0, <1>3, <2>1, ResolveFacts
      <3>3. flippedCardNumber' = <<>> /\ Len(results') = 0 /\ checks' = 0
        BY <1>3, <3>2, ResolveFacts
      <3> QED
        BY <3>1, <3>3
    <2>2. CASE faceDownTimers # <<>>
      <3>1. faceDownTimers' # <<>>
        BY <1>0, <1>3, <2>2, ResolveFacts
      <3>2. Head(faceDownTimers') = checks + Len(results) - 1
        BY <1>0, <1>3, <2>2, ResolveFacts DEF OneLess
      <3> QED
        BY <1>0, <1>3, <3>1, <3>2, ResolveFacts
    <2> QED
      BY <2>1, <2>2
  <1>4. CASE unflipAllCards
    <2>1. /\ faceDownTimers # <<>> /\ Head(faceDownTimers) = 0
          /\ faceDownTimers' = Tail(faceDownTimers)
          /\ UNCHANGED <<flippedCardNumber, checks, results>>
      BY <1>4 DEF unflipAllCards
    <2>2. faceDownTimers' = <<>>
      BY <1>0, <2>1
    <2>3. Len(flippedCardNumber) = 0
      BY <2>1 DEF BoardWaits
    <2> QED
      BY <1>0, <2>1, <2>2, <2>3
  <1>5. CASE RestartStep
    <2>1. faceDownTimers = <<>>
      BY <1>5 DEF RestartStep, MayRestart
    <2>2. /\ faceDownTimers' = Append(<<>>, checks + Len(results))
          /\ UNCHANGED <<checks, results>>
      BY <1>5, <2>1, RestartFacts DEF RestartStep, restartGame
    <2> QED
      BY <1>0, <2>2
  <1>6. CASE ScreenStep
    BY <1>6, ScreenStepFacts
  <1> QED
    BY <1>1, <1>2, <1>3, <1>4, <1>5, <1>6, StepCases

\* For a player who waits, an open pair is judged by exactly one job, and the
\* jobs that a restart left behind are done before the dealt cards turn over.
THEOREM OneJobForEveryPair ==
  ASSUME EagerRestart = FALSE, ExtraTaps = FALSE
  PROVE  Spec => []OneJobPerPair
  <1>1. viewDidLoad => OneJobPerPair
    BY DEF viewDidLoad, OneJobPerPair, pendingJobs
  <1>2. TypeOK /\ BoardWaits /\ OneJobPerPair /\ [Next]_vars => OneJobPerPair'
    BY JobStep
  <1>3. Spec => []BoardWaits
    BY WaitingPlayerFindsBoardWaiting
  <1> QED
    BY <1>1, <1>2, <1>3, TypeCorrect, PTL DEF Spec

----------------------------------------------------------------------------
(***************************************************************************)
(* Verdicts and removals.                                                  *)
(***************************************************************************)
\* The job of an open pair waits for its check or for its resolution, and there
\* is no other.
LEMMA OpenPairJob ==
  ASSUME TypeOK, BoardWaits, OneJobPerPair, countSelectedCards = 2
  PROVE  /\ faceDownTimers = <<>>
         /\ checks > 0 => results = <<>>
         /\ results # <<>> => checks = 0
  <1>1. flippedCardNumber # <<>>
    BY DEF countSelectedCards
  <1>2. faceDownTimers = <<>>
    BY <1>1 DEF BoardWaits
  <1>3. checks + Len(results) = 1 /\ checks \in Nat /\ results \in Seq(Job)
    BY <1>2 DEF OneJobPerPair, pendingJobs, TypeOK
  <1> QED
    BY <1>2, <1>3

\* The images that checkAnswer compares are those of the two open cards.
LEMMA AnswerOfOpenPair ==
  ASSUME TypeOK, SelectionOnBoard
  PROVE  /\ Len(imagesThatUserHasChosen) = 2 <=> countSelectedCards = 2
         /\ countSelectedCards = 2 =>
              (AnswerIsRight <=>
                 inGameCards[flippedCardNumber[1]] = inGameCards[flippedCardNumber[2]])
  <1>1. Len(imagesThatUserHasChosen) = Len(flippedCardNumber)
    BY DEF SelectionOnBoard
  <1>2. ASSUME countSelectedCards = 2
        PROVE  AnswerIsRight <=>
                 inGameCards[flippedCardNumber[1]] = inGameCards[flippedCardNumber[2]]
    <2>1. 1 \in DOMAIN flippedCardNumber /\ 2 \in DOMAIN flippedCardNumber
      BY <1>2 DEF TypeOK, countSelectedCards
    <2>2. /\ imagesThatUserHasChosen[1] = inGameCards[flippedCardNumber[1]]
          /\ imagesThatUserHasChosen[2] = inGameCards[flippedCardNumber[2]]
      BY <2>1 DEF SelectionOnBoard
    <2> QED
      BY <1>1, <1>2, <2>2 DEF AnswerIsRight, countSelectedCards
  <1> QED
    BY <1>1, <1>2 DEF countSelectedCards

LEMMA VerdictStep ==
  ASSUME ExtraTaps = FALSE
  PROVE  TypeOK /\ BoardWaits /\ OneJobPerPair /\ SelectionOnBoard /\ VerdictIsFresh
           /\ [Next]_vars => VerdictIsFresh'
  <1> SUFFICES ASSUME TypeOK, BoardWaits, OneJobPerPair, SelectionOnBoard, VerdictIsFresh,
                      [Next]_vars
               PROVE  VerdictIsFresh'
    OBVIOUS
  <1>a. ASSUME Len(flippedCardNumber') # 2 \/ results' = <<>>
        PROVE  VerdictIsFresh'
    BY <1>a DEF VerdictIsFresh, countSelectedCards
  <1>b. ASSUME UNCHANGED <<flippedCardNumber, results, inGameCards>>
        PROVE  VerdictIsFresh'
    BY <1>b DEF VerdictIsFresh, countSelectedCards
  <1>1. ASSUME NEW card \in DOMAIN inGameCards, MayTap, cardSelected(card)
        PROVE  VerdictIsFresh'
    <2>1. /\ Len(flippedCardNumber) < 2
          /\ results' = results /\ inGameCards' = inGameCards
      BY <1>1, TapFacts
    <2>2. CASE ~isFlipped[card]
      <3>1. card \in DOMAIN isFlipped
        BY DealsAreFunctions DEF TypeOK
      <3>2. faceDownTimers = <<>>
        BY <2>2, <3>1 DEF BoardWaits
      <3>3. Len(flippedCardNumber) # 2
        BY <2>1
      <3>4. checks + Len(results) = 0
        BY <3>2, <3>3 DEF OneJobPerPair, pendingJobs, countSelectedCards
      <3>5. checks \in Nat /\ results \in Seq(Job)
        BY DEF TypeOK
      <3>6. results = <<>>
        BY <3>4, <3>5
      <3> QED
        BY <1>a, <2>1, <3>6
    <2>3. UNCHANGED flippedCardNumber \/ ~isFlipped[card]
      BY <1>1, TapFacts
    <2> QED
      BY <1>b, <2>1, <2>2, <2>3
  <1>2. CASE checkBlock
    <2>1. CASE countSelectedCards = 2
      <3>1. results = <<>>
        BY <1>2, <2>1, OpenPairJob, CheckFacts
      <3>2. /\ Head(results').right = AnswerIsRight
            /\ UNCHANGED <<flippedCardNumber, inGameCards>>
        BY <1>2, <3>1, CheckFacts
      <3> QED
        BY <2>1, <3>2, AnswerOfOpenPair DEF VerdictIsFresh
    <2>2. CASE countSelectedCards # 2
      <3>1. flippedCardNumber' = flippedCardNumber
        BY <1>2, CheckFacts
      <3> QED
        BY <1>a, <2>2, <3>1 DEF countSelectedCards
    <2> QED
      BY <2>1, <2>2
  <1>3. CASE resolveBlock
    <2>1. CASE Len(flippedCardNumber) = 2
      <3>1. flippedCardNumber' = <<>>
        BY <1>3, <2>1, ResolveFacts
      <3> QED
        BY <1>a, <3>1
    <2>2. CASE Len(flippedCardNumber) # 2
      <3>1. flippedCardNumber' = flippedCardNumber
        BY <1>3, <2>2, ResolveFacts
      <3> QED
        BY <1>a, <2>2, <3>1
    <2> QED
      BY <2>1, <2>2
  <1>4. CASE unflipAllCards
    BY <1>4, <1>b DEF unflipAllCards
  <1>5. CASE RestartStep
    <2>1. flippedCardNumber' = <<>>
      BY <1>5, RestartFacts DEF RestartStep
    <2> QED
      BY <1>a, <2>1
  <1>6. CASE ScreenStep
    BY <1>6, <1>b, ScreenStepFacts
  <1> QED
    BY <1>1, <1>2, <1>3, <1>4, <1>5, <1>6, StepCases

\* For a player who waits, the result that the resolution after 0.75 s acts on
\* is that of the cards open at that moment, although it was computed earlier and
\* restarts may have come between.
THEOREM VerdictIsAlwaysFresh ==
  ASSUME EagerRestart = FALSE, ExtraTaps = FALSE
  PROVE  Spec => []VerdictIsFresh
  <1>1. viewDidLoad => VerdictIsFresh
    BY DEF viewDidLoad, VerdictIsFresh
  <1>2. TypeOK /\ BoardWaits /\ OneJobPerPair /\ SelectionOnBoard /\ VerdictIsFresh
          /\ [Next]_vars => VerdictIsFresh'
    BY VerdictStep
  <1>3. Spec => []BoardWaits /\ []OneJobPerPair
    BY WaitingPlayerFindsBoardWaiting, OneJobForEveryPair
  <1> QED
    BY <1>1, <1>2, <1>3, TypeCorrect, SelectionIsOnBoard, PTL DEF Spec

\* A card has one partner: the other card with its image.
LEMMA OnePartner ==
  ASSUME NEW m, NEW deal \in Deals(m), NEW one \in Numbers(m), NEW two \in Numbers(m),
         one # two, deal[one] = deal[two]
  PROVE  \A c \in Numbers(m) : deal[c] = deal[one] <=> c \in {one, two}
  <1>1. PICK d \in Numbers(m) \ {one} :
               \A e \in Numbers(m) : deal[e] = deal[one] <=> e \in {one, d}
    BY DEF Deals
  <1>2. d = two
    BY <1>1
  <1> QED
    BY <1>1, <1>2

\* Adding two new elements to a finite set.
LEMMA AddTwo ==
  ASSUME NEW S, IsFiniteSet(S), NEW one, NEW two, one \notin S, two \notin S, one # two
  PROVE  /\ IsFiniteSet(S \cup {one, two})
         /\ Cardinality(S \cup {one, two}) = Cardinality(S) + 2
  <1>1. IsFiniteSet(S \cup {one}) /\ Cardinality(S \cup {one}) = Cardinality(S) + 1
    BY FS_AddElement
  <1>2. /\ IsFiniteSet((S \cup {one}) \cup {two})
        /\ Cardinality((S \cup {one}) \cup {two}) = Cardinality(S) + 1 + 1
    <2>1. two \notin S \cup {one}
      OBVIOUS
    <2> QED
      BY <1>1, <2>1, FS_AddElement
  <1>3. (S \cup {one}) \cup {two} = S \cup {one, two}
    OBVIOUS
  <1>4. Cardinality(S) \in Nat
    BY FS_CardinalityType
  <1> QED
    BY <1>2, <1>3, <1>4

\* The inductive form of RemovedInPairs.
PairsCounted == IsFiniteSet(faded) /\ RemovedInPairs

LEMMA PairsStep ==
  TypeOK /\ BoardWaits /\ SelectionOnBoard /\ VerdictIsFresh /\ PairsCounted
    /\ [Next]_vars => PairsCounted'
  <1> SUFFICES ASSUME TypeOK, BoardWaits, SelectionOnBoard, VerdictIsFresh, PairsCounted,
                      [Next]_vars
               PROVE  PairsCounted'
    OBVIOUS
  <1>a. ASSUME UNCHANGED <<faded, numberOfClearedCards, inGameCards>>
        PROVE  PairsCounted'
    BY <1>a DEF PairsCounted, RemovedInPairs
  <1>1. ASSUME NEW card \in DOMAIN inGameCards, cardSelected(card)
        PROVE  PairsCounted'
    BY <1>1, <1>a DEF cardSelected, flipCard
  <1>2. CASE checkBlock
    BY <1>2, <1>a DEF checkBlock, checkAnswer
  <1>3. CASE resolveBlock
    <2>1. CASE countSelectedCards = 2 /\ Head(results).right
      <3> DEFINE one == flippedCardNumber[1]
                 two == flippedCardNumber[2]
      <3>1. removeCardsFromTheBoard /\ results # <<>> /\ inGameCards' = inGameCards
        BY <1>3, <2>1 DEF resolveBlock, removeCardsFromTheBoard
      <3>2. /\ one \in Numbers(difficulty) /\ two \in Numbers(difficulty)
            /\ one \notin faded /\ two \notin faded
        <4>1. 1 \in DOMAIN flippedCardNumber /\ 2 \in DOMAIN flippedCardNumber
          BY <2>1 DEF TypeOK, countSelectedCards
        <4> QED
          BY <2>1, <4>1, chosenFacts DEF SelectionOnBoard, TypeOK
      <3>3. one # two
        BY <2>1, OpenCardsDiffer
      <3>4. inGameCards[one] = inGameCards[two]
        BY <2>1, <3>1 DEF VerdictIsFresh
      <3>5. /\ faded' = faded \cup {one, two}
            /\ numberOfClearedCards' = numberOfClearedCards + 1
        BY <2>1, <3>1, removalFacts DEF Chosen
      <3>6. /\ inGameCards \in Deals(difficulty)
            /\ DOMAIN inGameCards = Numbers(difficulty)
        BY DealsAreFunctions DEF TypeOK
      <3> HIDE DEF one, two
      <3>7. IsFiniteSet(faded') /\ Cardinality(faded') = Cardinality(faded) + 2
        BY <3>2, <3>3, <3>5, AddTwo DEF PairsCounted
      <3>8. Cardinality(faded') = 2 * numberOfClearedCards'
        BY <3>5, <3>7 DEF PairsCounted, RemovedInPairs, TypeOK
      <3>9. \A c \in Numbers(difficulty) : inGameCards[c] = inGameCards[one] <=> c \in {one, two}
        BY <3>2, <3>3, <3>4, <3>6, OnePartner
      <3>10. ASSUME NEW c \in Numbers(difficulty), NEW d \in Numbers(difficulty),
                    inGameCards[c] = inGameCards[d], c \in faded'
             PROVE  d \in faded'
        <4>1. CASE c \in faded
          BY <3>5, <3>6, <3>10, <4>1 DEF PairsCounted, RemovedInPairs
        <4>2. CASE c \in {one, two}
          BY <3>5, <3>9, <3>10, <4>2
        <4> QED
          BY <3>5, <3>10, <4>1, <4>2
      <3> QED
        BY <3>1, <3>6, <3>7, <3>8, <3>10 DEF PairsCounted, RemovedInPairs
    <2>2. CASE ~(countSelectedCards = 2 /\ Head(results).right)
      BY <1>3, <2>2, <1>a DEF resolveBlock, removeCardsFromTheBoard, unflipCard
    <2> QED
      BY <2>1, <2>2
  <1>4. CASE unflipAllCards
    BY <1>4, <1>a DEF unflipAllCards
  <1>5. CASE RestartStep
    <2>1. faded' = {} /\ numberOfClearedCards' = 0
      BY <1>5, RestartFacts DEF RestartStep
    <2> QED
      BY <2>1, FS_EmptySet DEF PairsCounted, RemovedInPairs
  <1>6. CASE ScreenStep
    BY <1>6, <1>a, ScreenStepFacts
  <1> QED
    BY <1>1, <1>2, <1>3, <1>4, <1>5, <1>6, StepCases

\* For a player who waits, cards leave the board in pairs of equal images, and
\* the number that gameCleared compares is the number of those pairs.
THEOREM CardsLeaveInPairs ==
  ASSUME EagerRestart = FALSE, ExtraTaps = FALSE
  PROVE  Spec => []RemovedInPairs
  <1>1. viewDidLoad => PairsCounted
    BY FS_EmptySet DEF viewDidLoad, firstBrain, PairsCounted, RemovedInPairs
  <1>2. PairsCounted => RemovedInPairs
    BY DEF PairsCounted
  <1>3. Spec => []BoardWaits /\ []VerdictIsFresh
    BY WaitingPlayerFindsBoardWaiting, VerdictIsAlwaysFresh
  <1> QED
    BY <1>1, <1>2, <1>3, PairsStep, TypeCorrect, SelectionIsOnBoard, PTL DEF Spec

\* For a player who waits, a pair costs one try: a try is counted only while two
\* cards are open and no result for them is out yet.
THEOREM PairIsChargedOnce ==
  ASSUME EagerRestart = FALSE, ExtraTaps = FALSE
  PROVE  Spec => ChargedOnce
  <1> DEFINE Charge == userHasTried' > userHasTried =>
                         results = <<>> /\ countSelectedCards = 2
  <1>1. TypeOK /\ BoardWaits /\ OneJobPerPair /\ SelectionOnBoard /\ [Next]_vars
          => [Charge]_vars
    <2> SUFFICES ASSUME TypeOK, BoardWaits, OneJobPerPair, SelectionOnBoard, [Next]_vars
                 PROVE  Charge
      OBVIOUS
    <2>0. userHasTried \in Nat
      BY DEF TypeOK
    <2>1. CASE checkBlock
      <3>1. CASE countSelectedCards = 2
        BY <2>1, <3>1, CheckFacts, OpenPairJob
      <3>2. CASE countSelectedCards # 2
        <4>1. userHasTried' = userHasTried
          BY <2>1, <3>2, AnswerOfOpenPair DEF checkBlock, checkAnswer
        <4> QED
          BY <2>0, <4>1
      <3> QED
        BY <3>1, <3>2
    <2>2. CASE UNCHANGED userHasTried
      BY <2>0, <2>2
    <2>3. CASE RestartStep
      <3>1. userHasTried' = 0
        BY <2>3 DEF RestartStep, restartGame, initailizeCardGame, newBrain
      <3> QED
        BY <2>0, <3>1
    <2>4. checkBlock \/ RestartStep \/ UNCHANGED userHasTried
      BY StepCases, ScreenStepFacts DEF cardSelected, flipCard, resolveBlock, unflipAllCards,
         removeCardsFromTheBoard, unflipCard
    <2> QED
      BY <2>1, <2>2, <2>3, <2>4
  <1>2. Spec => []BoardWaits /\ []OneJobPerPair
    BY WaitingPlayerFindsBoardWaiting, OneJobForEveryPair
  <1> QED
    BY <1>1, <1>2, TypeCorrect, SelectionIsOnBoard, PTL DEF Spec, ChargedOnce

----------------------------------------------------------------------------
(***************************************************************************)
(* The end is announced.                                                   *)
(***************************************************************************)
\* While a pair is open the screen is free for the alert, or shows it already.
NothingHidesTheEnd ==
  countSelectedCards = 2 => presented \in {"nothing"} \cup Alerts

\* updateTurns puts the alert on a free screen when the game has ended.
LEMMA updateTurnsAnnounces ==
  ASSUME NEW shown, updateTurns(shown)
  PROVE  /\ shown \in Alerts => presented' = shown
         /\ shown = "nothing" /\ Ended' => presented' \in Alerts
         /\ shown \in {"nothing"} \cup Alerts => presented' \in {"nothing"} \cup Alerts
  BY DEF updateTurns, present, Ended, Alerts

LEMMA NothingHidesStep ==
  ASSUME EagerSheets = FALSE, ExtraTaps = FALSE
  PROVE  TypeOK /\ LaunchWaits /\ OpenPairIsPending /\ NothingHidesTheEnd /\ [Next]_vars
           => NothingHidesTheEnd'
  <1> SUFFICES ASSUME TypeOK, LaunchWaits, OpenPairIsPending, NothingHidesTheEnd,
                      [Next]_vars, Len(flippedCardNumber') = 2
               PROVE  presented' \in {"nothing"} \cup Alerts
    BY DEF NothingHidesTheEnd, countSelectedCards
  <1>1. ASSUME NEW card \in DOMAIN inGameCards, MayTap, cardSelected(card)
        PROVE  presented' \in {"nothing"} \cup Alerts
    BY <1>1, TapFacts
  <1>2. CASE checkBlock
    <2>1. countSelectedCards = 2
      BY <1>2, CheckFacts DEF countSelectedCards
    <2> QED
      BY <1>2, <2>1, updateTurnsAnnounces DEF checkBlock, NothingHidesTheEnd
  <1>3. ~resolveBlock
    <2> SUFFICES ASSUME resolveBlock
                 PROVE  FALSE
      OBVIOUS
    <2>1. CASE Len(flippedCardNumber) = 2
      <3>1. flippedCardNumber' = <<>>
        BY <2>1, ResolveFacts
      <3> QED
        BY <3>1
    <2>2. CASE Len(flippedCardNumber) # 2
      <3>1. flippedCardNumber' = flippedCardNumber
        BY <2>2, ResolveFacts
      <3> QED
        BY <2>2, <3>1
    <2> QED
      BY <2>1, <2>2
  <1>4. CASE unflipAllCards
    BY <1>4 DEF unflipAllCards, ui, NothingHidesTheEnd, countSelectedCards
  <1>5. ~RestartStep
    <2> SUFFICES ASSUME RestartStep
                 PROVE  FALSE
      OBVIOUS
    <2>1. flippedCardNumber' = <<>>
      BY RestartFacts DEF RestartStep
    <2> QED
      BY <2>1
  <1>6. CASE ScreenStep
    <2>1. countSelectedCards = 2
      BY <1>6, ScreenStepFacts DEF countSelectedCards
    <2>2. presented \in {"nothing"} \cup Alerts
      BY <2>1 DEF NothingHidesTheEnd
    <2>3. ~loginQueued
      <3>1. flippedCardNumber # <<>>
        BY <2>1 DEF countSelectedCards
      <3> QED
        BY <3>1 DEF LaunchWaits
    <2>4. ~MayOpenSheet
      <3>1. pendingJobs > 0 /\ pendingJobs \in Nat
        BY <2>1 DEF OpenPairIsPending, pendingJobs, TypeOK
      <3> QED
        BY <3>1 DEF MayOpenSheet
    <2>5. UNCHANGED presented
      BY <1>6, <2>2, <2>3, <2>4 DEF ScreenStep, cancelSheet, presentLoginController,
         loginDismissed, logout, Sheets, Alerts, vars, ui
    <2> QED
      BY <2>2, <2>5
  <1> QED
    BY <1>1, <1>2, <1>3, <1>4, <1>5, <1>6, StepCases

LEMMA EndStep ==
  ASSUME ExtraTaps = FALSE
  PROVE  TypeOK /\ SelectionOnBoard /\ NothingHidesTheEnd /\ EndIsAnnounced /\ [Next]_vars
           => EndIsAnnounced'
  <1> SUFFICES ASSUME TypeOK, SelectionOnBoard, NothingHidesTheEnd, EndIsAnnounced, [Next]_vars,
                      Ended'
               PROVE  presented' \in Alerts
    BY DEF EndIsAnnounced, Ended
  <1>0. Ended => presented \in Alerts
    BY DEF EndIsAnnounced, Ended
  <1>a. ASSUME UNCHANGED <<difficulty, numberOfClearedCards, userHasTried>>
        PROVE  Ended
    BY <1>a DEF Ended, gameCleared, gameOver
  <1>b. ASSUME countSelectedCards # 2 => UNCHANGED <<difficulty, numberOfClearedCards, userHasTried>>,
               updateTurns(presented)
        PROVE  presented' \in Alerts
    <2>1. CASE countSelectedCards = 2
      <3>1. presented \in {"nothing"} \cup Alerts
        BY <2>1 DEF NothingHidesTheEnd
      <3> QED
        BY <1>b, <3>1, updateTurnsAnnounces
    <2>2. CASE countSelectedCards # 2
      BY <1>0, <1>a, <1>b, <2>2, updateTurnsAnnounces
    <2> QED
      BY <2>1, <2>2
  <1>1. ASSUME NEW card \in DOMAIN inGameCards, MayTap, cardSelected(card)
        PROVE  presented' \in Alerts
    BY <1>0, <1>1, <1>a, TapFacts
  <1>2. CASE checkBlock
    <2>1. countSelectedCards # 2 => UNCHANGED <<difficulty, numberOfClearedCards, userHasTried>>
      BY <1>2, AnswerOfOpenPair DEF checkBlock, checkAnswer
    <2> QED
      BY <1>2, <1>b, <2>1 DEF checkBlock
  <1>3. CASE resolveBlock
    <2>1. countSelectedCards # 2 => UNCHANGED <<difficulty, numberOfClearedCards, userHasTried>>
      BY <1>3, ResolveFacts DEF countSelectedCards
    <2> QED
      BY <1>3, <1>b, <2>1 DEF resolveBlock
  <1>4. CASE unflipAllCards
    BY <1>0, <1>4, <1>a DEF unflipAllCards, ui
  <1>5. ~RestartStep
    BY RestartBeginsNewGame DEF RestartStep
  <1>6. CASE ScreenStep
    <2>1. presented \in Alerts
      BY <1>0, <1>6, <1>a, ScreenStepFacts
    <2>2. UNCHANGED presented
      BY <1>6, <2>1 DEF ScreenStep, handleScoreButton, handleLogout, cancelSheet, OnDisplay,
         Uncovered, presentLoginController, loginDismissed, logout, present, Sheets, Alerts, vars, ui
    <2> QED
      BY <2>1, <2>2
  <1> QED
    BY <1>1, <1>2, <1>3, <1>4, <1>5, <1>6, StepCases

\* For a player who waits and opens no sheet while a pair is judged, the end of
\* a game is announced: no present(_:) of an alert is lost to what is on display.
THEOREM EndIsAlwaysAnnounced ==
  ASSUME EagerSheets = FALSE, ExtraTaps = FALSE
  PROVE  Spec => []EndIsAnnounced
  <1>1. viewDidLoad => NothingHidesTheEnd /\ EndIsAnnounced
    <2> SUFFICES ASSUME viewDidLoad
                 PROVE  NothingHidesTheEnd /\ EndIsAnnounced
      OBVIOUS
    <2>1. Len(flippedCardNumber) # 2
      BY DEF viewDidLoad, firstBrain
    <2>2. /\ difficulty \in GameModes /\ numberOfClearedCards = 0 /\ userHasTried = 0
      BY LevelAssumption DEF viewDidLoad, firstBrain
    <2>3. /\ numberOfImagesToCreateCards(difficulty) >= 1
          /\ numberOfImagesToCreateCards(difficulty) \in Nat
      BY <2>2, LevelAssumption DEF numberOfImagesToCreateCards
    <2>4. gameOverCondition \in Nat /\ gameOverCondition >= 1
      BY LevelAssumption
    <2>5. ~gameCleared /\ ~gameOver
      BY <2>2, <2>3, <2>4 DEF gameCleared, gameOver
    <2> QED
      BY <2>1, <2>5 DEF NothingHidesTheEnd, EndIsAnnounced, countSelectedCards
  <1>2. TypeOK /\ LaunchWaits /\ OpenPairIsPending /\ NothingHidesTheEnd /\ [Next]_vars
          => NothingHidesTheEnd'
    BY NothingHidesStep
  <1>3. TypeOK /\ SelectionOnBoard /\ NothingHidesTheEnd /\ EndIsAnnounced /\ [Next]_vars
          => EndIsAnnounced'
    BY EndStep
  <1> QED
    BY <1>1, <1>2, <1>3, LaunchInit, LaunchStep, TypeCorrect, SelectionIsOnBoard,
       OpenPairIsAlwaysPending, PTL DEF Spec

----------------------------------------------------------------------------
(***************************************************************************)
(* The home screen implements the memory game.                             *)
(***************************************************************************)
\* The open cards as the set that the refinement mapping makes of them.
OpenCards == {flippedCardNumber[i] : i \in DOMAIN flippedCardNumber}

\* No card, one card or two different ones are open.
LEMMA OpenCardsFacts ==
  ASSUME TypeOK, BoardWaits
  PROVE  /\ flippedCardNumber = <<>> => OpenCards = {}
         /\ Len(flippedCardNumber) = 2 =>
              OpenCards = {flippedCardNumber[1], flippedCardNumber[2]}
         /\ Len(flippedCardNumber) < 2 => Cardinality(OpenCards) < 2
         /\ Len(flippedCardNumber) = 2 => Cardinality(OpenCards) = 2
  <1>0. flippedCardNumber \in Seq(Numbers(difficulty)) /\ Len(flippedCardNumber) \in Nat
    BY DEF TypeOK
  <1>1. CASE Len(flippedCardNumber) = 0
    <2>1. DOMAIN flippedCardNumber = {}
      BY <1>0, <1>1
    <2>2. OpenCards = {}
      BY <2>1 DEF OpenCards
    <2>3. Cardinality(OpenCards) = 0
      BY <2>2, FS_EmptySet
    <2> QED
      BY <1>1, <2>2, <2>3
  <1>2. CASE Len(flippedCardNumber) = 1
    <2>1. DOMAIN flippedCardNumber = {1}
      BY <1>0, <1>2
    <2>2. OpenCards = {flippedCardNumber[1]}
      BY <2>1 DEF OpenCards
    <2>3. Cardinality(OpenCards) = 1
      BY <2>2, FS_Singleton
    <2>4. flippedCardNumber # <<>>
      BY <1>2
    <2> QED
      BY <1>2, <2>3, <2>4
  <1>3. CASE Len(flippedCardNumber) = 2
    <2>1. DOMAIN flippedCardNumber = {1, 2}
      BY <1>0, <1>3
    <2>2. OpenCards = {flippedCardNumber[1], flippedCardNumber[2]}
      BY <2>1 DEF OpenCards
    <2>3. flippedCardNumber[1] # flippedCardNumber[2]
      BY <1>3, OpenCardsDiffer DEF countSelectedCards
    <2>4. IsFiniteSet({}) /\ Cardinality({}) = 0
      BY FS_EmptySet
    <2>5. {} \cup {flippedCardNumber[1], flippedCardNumber[2]} = OpenCards
      BY <2>2
    <2>6. Cardinality(OpenCards) = 0 + 2
      BY <2>3, <2>4, <2>5, AddTwo
    <2>7. flippedCardNumber # <<>>
      BY <1>3
    <2> QED
      BY <1>3, <2>2, <2>6, <2>7
  <1>4. Len(flippedCardNumber) <= 2
    BY DEF TypeOK
  <1>5. \A n \in Nat : n <= 2 => n = 0 \/ n = 1 \/ n = 2
    OBVIOUS
  <1> QED
    BY <1>0, <1>1, <1>2, <1>3, <1>4, <1>5, Zenon

\* A card more is open.
LEMMA OneMoreOpen ==
  ASSUME NEW N, NEW s \in Seq(N), NEW card \in N
  PROVE  LET t == Append(s, card)
         IN  {t[i] : i \in DOMAIN t} = {s[i] : i \in DOMAIN s} \cup {card}
  <1> DEFINE t == Append(s, card)
             n == Len(s)
  <1>1. /\ n \in Nat /\ DOMAIN s = 1 .. n /\ DOMAIN t = 1 .. n + 1
        /\ \A i \in 1 .. n : t[i] = s[i]
        /\ t[n + 1] = card
    BY AppendProperties
  <1> HIDE DEF t, n
  <1>2. 1 .. n + 1 = (1 .. n) \cup {n + 1}
    BY <1>1
  <1> QED
    BY <1>1, <1>2 DEF t

\* A board whose cards are all gone is cleared.
LEMMA EmptyBoardIsCleared ==
  ASSUME TypeOK, RemovedInPairs, faded = DOMAIN inGameCards
  PROVE  gameCleared
  <1> DEFINE n == chooseGameModes[difficulty]
  <1>1. n \in Nat \ {0} /\ n % 2 = 0
    BY LevelAssumption DEF TypeOK
  <1>2. DOMAIN inGameCards = 0 .. n - 1
    BY DealsAreFunctions DEF TypeOK, Numbers
  <1> HIDE DEF n
  <1>3. Cardinality(0 .. n - 1) = n
    <2>1. 0 \in Int /\ n - 1 \in Int /\ ~(0 > n - 1) /\ (n - 1) - 0 + 1 = n
      BY <1>1
    <2> QED
      BY <2>1, FS_Interval
  <1>4. n = 2 * numberOfClearedCards /\ numberOfClearedCards \in Nat
    BY <1>2, <1>3 DEF RemovedInPairs, TypeOK
  <1>5. numberOfClearedCards >= n \div 2
    BY <1>1, <1>4
  <1> QED
    BY <1>5 DEF gameCleared, numberOfImagesToCreateCards, n

\* The abstract game counts as this module does.
LEMMA SameCardinality ==
  ASSUME NEW S
  PROVE  Game!Cardinality(S) = Cardinality(S)
  BY DEF Cardinality, Game!Cardinality, IsFiniteSet, Game!IsFiniteSet

\* What the proofs above established of the player who waits.
Patient ==
  /\ TypeOK /\ SelectionOnBoard /\ BoardWaits /\ OneJobPerPair /\ VerdictIsFresh
  /\ RemovedInPairs /\ EndIsAnnounced

\* Opening a card is opening a card of a game that has not ended.
LEMMA TapIsOpen ==
  ASSUME ExtraTaps = FALSE, Patient, TypeOK', BoardWaits',
         NEW card \in DOMAIN inGameCards, MayTap, cardSelected(card)
  PROVE  Game!Open(card) \/ UNCHANGED Game!vars
  <1> USE DEF Patient
  <1>0. /\ Len(flippedCardNumber) < 2
        /\ UNCHANGED <<difficulty, inGameCards, faded, userHasTried, results>>
        /\ presented = "nothing" /\ card \notin faded
    BY TapFacts
  <1>t. Len(flippedCardNumber) # 2
    BY <1>0
  <1>1. CASE UNCHANGED flippedCardNumber
    BY <1>0, <1>1 DEF Game!vars, countSelectedCards
  <1>2. CASE ~isFlipped[card] /\ flippedCardNumber' = Append(flippedCardNumber, card)
    <2>1. card \in Numbers(difficulty) /\ DOMAIN isFlipped = Numbers(difficulty)
      BY DealsAreFunctions DEF TypeOK
    <2>2. OpenCards' = OpenCards \cup {card}
      <3>1. flippedCardNumber \in Seq(Numbers(difficulty))
        BY DEF TypeOK
      <3> QED
        BY <1>2, <2>1, <3>1, OneMoreOpen DEF OpenCards
    <2>3. card \notin OpenCards
      BY <1>2 DEF OpenCards, BoardWaits
    <2>4. Game!Cardinality(OpenCards) < 2
      BY <1>0, OpenCardsFacts, SameCardinality
    <2>5. results = <<>>
      <3>1. faceDownTimers = <<>>
        BY <1>2, <2>1 DEF BoardWaits
      <3>2. checks + Len(results) = 0
        BY <1>t, <3>1 DEF OneJobPerPair, pendingJobs, countSelectedCards
      <3>3. checks \in Nat /\ results \in Seq(Job)
        BY DEF TypeOK
      <3> QED
        BY <3>2, <3>3
    <2>6. ~Game!Ended
      <3>1. ~gameCleared /\ ~gameOver
        BY <1>0 DEF EndIsAnnounced, Alerts
      <3> QED
        BY <3>1, EmptyBoardIsCleared DEF Game!Ended, gameOver
    <2>7. UNCHANGED <<difficulty, inGameCards, faded,
                      countSelectedCards = 2 /\ results # <<>>, userHasTried>>
      BY <1>0, <2>5
    <2>8. card \notin OpenCards \cup faded
      BY <1>0, <2>3
    <2>9. Game!Open(card)
      BY <2>2, <2>4, <2>6, <2>7, <2>8, Zenon DEF Game!Open, OpenCards
    <2> QED
      BY <2>9
  <1> QED
    BY <1>1, <1>2, TapFacts

\* The check of an open pair charges the turn; any other is invisible.
LEMMA CheckIsJudge ==
  ASSUME Patient, checkBlock
  PROVE  Game!Judge \/ UNCHANGED Game!vars
  <1> USE DEF Patient
  <1>0. UNCHANGED <<difficulty, inGameCards, faded, flippedCardNumber>>
    BY CheckFacts
  <1>1. CASE countSelectedCards = 2
    <2>1. results = <<>> /\ results' # <<>>
      <3>1. results = <<>>
        BY <1>1, CheckFacts, OpenPairJob
      <3>2. results' \in Seq(Job) /\ Len(results') = Len(results) + 1
        BY CheckFacts
      <3>3. Len(results') = 1
        BY <3>1, <3>2
      <3> QED
        BY <3>1, <3>3
    <2>2. userHasTried' = userHasTried + 1
      BY <1>1, AnswerOfOpenPair DEF checkBlock, checkAnswer
    <2>3. Game!Cardinality(OpenCards) = 2
      BY <1>1, OpenCardsFacts, SameCardinality DEF countSelectedCards
    <2>4. countSelectedCards' = 2 /\ UNCHANGED OpenCards
      BY <1>0, <1>1 DEF countSelectedCards, OpenCards
    <2>5. /\ ~(countSelectedCards = 2 /\ results # <<>>)
          /\ (countSelectedCards = 2 /\ results # <<>>)' = TRUE
      BY <2>1, <2>4
    <2>6. UNCHANGED <<difficulty, inGameCards, faded, OpenCards>>
      BY <1>0, <2>4
    <2>7. Game!Judge
      BY <2>2, <2>3, <2>5, <2>6, Zenon DEF Game!Judge, OpenCards
    <2> QED
      BY <2>7
  <1>2. CASE countSelectedCards # 2
    <2>1. userHasTried' = userHasTried
      BY <1>2, AnswerOfOpenPair DEF checkBlock, checkAnswer
    <2>2. countSelectedCards' # 2
      BY <1>0, <1>2 DEF countSelectedCards
    <2> QED
      BY <1>0, <1>2, <2>1, <2>2 DEF Game!vars
  <1> QED
    BY <1>1, <1>2

\* The resolution of an open pair ends the turn; any other is invisible.
LEMMA ResolveIsEndTurn ==
  ASSUME Patient, TypeOK', BoardWaits', resolveBlock
  PROVE  Game!EndTurn \/ UNCHANGED Game!vars
  <1> USE DEF Patient
  <1>0. /\ UNCHANGED <<difficulty, inGameCards, userHasTried>>
        /\ results # <<>>
    BY ResolveFacts DEF resolveBlock
  <1>1. CASE countSelectedCards = 2
    <2> DEFINE one == flippedCardNumber[1]
               two == flippedCardNumber[2]
    <2>1. flippedCardNumber' = <<>> /\ countSelectedCards' # 2
      BY <1>1, ResolveFacts DEF countSelectedCards
    <2>2. OpenCards' = {}
      <3>1. DOMAIN flippedCardNumber' = {}
        BY <2>1
      <3> QED
        BY <3>1 DEF OpenCards
    <2>3. OpenCards = {one, two}
      BY <1>1, OpenCardsFacts DEF countSelectedCards
    <2>4. Head(results).right <=> inGameCards[one] = inGameCards[two]
      BY <1>0, <1>1 DEF VerdictIsFresh
    <2>5. Game!Equal(OpenCards) <=> inGameCards[one] = inGameCards[two]
      BY <2>3 DEF Game!Equal
    <2>6. faded' = IF Game!Equal(OpenCards) THEN faded \cup OpenCards ELSE faded
      <3>1. CASE Head(results).right
        <4>1. faded' = faded \cup Chosen
          BY <1>1, <3>1, removalFacts DEF resolveBlock
        <4> QED
          BY <2>3, <2>4, <2>5, <3>1, <4>1 DEF Chosen
      <3>2. CASE ~Head(results).right
        <4>1. faded' = faded
          BY <3>2 DEF resolveBlock, unflipCard
        <4> QED
          BY <2>4, <2>5, <3>2, <4>1
      <3> QED
        BY <3>1, <3>2
    <2> HIDE DEF one, two
    <2> QED
      BY <1>0, <1>1, <2>1, <2>2, <2>6 DEF Game!EndTurn, OpenCards
  <1>2. CASE countSelectedCards # 2
    <2>1. UNCHANGED <<flippedCardNumber, faded>>
      BY <1>2, ResolveFacts DEF countSelectedCards
    <2>2. countSelectedCards' # 2
      BY <1>2, <2>1 DEF countSelectedCards
    <2> QED
      BY <1>0, <1>2, <2>1, <2>2 DEF Game!vars
  <1> QED
    BY <1>1, <1>2

\* A restart deals.
LEMMA RestartIsDeal ==
  ASSUME NEW mode, restartGame(mode)
  PROVE  Game!Deal(mode)
  <1>1. /\ difficulty' = mode /\ inGameCards' \in Deals(mode)
        /\ faded' = {} /\ flippedCardNumber' = <<>> /\ userHasTried' = 0
    BY DEF restartGame, initailizeCardGame, newBrain
  <1>2. {flippedCardNumber'[i] : i \in DOMAIN flippedCardNumber'} = {}
    <2>1. DOMAIN flippedCardNumber' = {}
      BY <1>1
    <2> QED
      BY <2>1
  <1>3. countSelectedCards' # 2
    BY <1>1 DEF countSelectedCards
  <1>4. Deals(mode) = Game!Deals(mode)
    BY DEF Deals, Game!Deals, Numbers, Game!Numbers
  <1> QED
    BY <1>1, <1>2, <1>3, <1>4 DEF Game!Deal

\* The player who waits plays a memory game: every step of the home screen is
\* one of the abstract game's, or changes nothing that its player sees.
THEOREM PatientPlayerPlaysMemoryGame ==
  ASSUME EagerRestart = FALSE, ExtraTaps = FALSE, EagerSheets = FALSE
  PROVE  Spec => ImplementsMemoryGame
  <1>1. viewDidLoad => Game!Init
    <2> SUFFICES ASSUME viewDidLoad
                 PROVE  Game!Init
      OBVIOUS
    <2>1. /\ difficulty = expert /\ inGameCards \in Deals(expert)
          /\ faded = {} /\ flippedCardNumber = <<>> /\ userHasTried = 0
      BY DEF viewDidLoad, firstBrain
    <2>2. {flippedCardNumber[i] : i \in DOMAIN flippedCardNumber} = {}
      <3>1. DOMAIN flippedCardNumber = {}
        BY <2>1
      <3> QED
        BY <3>1
    <2>3. countSelectedCards # 2
      BY <2>1 DEF countSelectedCards
    <2>4. Deals(expert) = Game!Deals(expert)
      BY DEF Deals, Game!Deals, Numbers, Game!Numbers
    <2> QED
      BY <2>1, <2>2, <2>3, <2>4 DEF Game!Init
  <1>2. Patient /\ TypeOK' /\ BoardWaits' /\ [Next]_vars => [Game!Next]_(Game!vars)
    <2> SUFFICES ASSUME Patient, TypeOK', BoardWaits', [Next]_vars
                 PROVE  Game!Next \/ UNCHANGED Game!vars
      OBVIOUS
    <2>1. ASSUME NEW card \in DOMAIN inGameCards, MayTap, cardSelected(card)
          PROVE  Game!Next \/ UNCHANGED Game!vars
      BY <2>1, TapIsOpen DEF Game!Next
    <2>2. CASE checkBlock
      BY <2>2, CheckIsJudge DEF Game!Next
    <2>3. CASE resolveBlock
      BY <2>3, ResolveIsEndTurn DEF Game!Next
    <2>4. CASE unflipAllCards
      BY <2>4 DEF unflipAllCards, Game!vars, countSelectedCards
    <2>5. CASE RestartStep
      BY <2>5, RestartIsDeal DEF RestartStep, Game!Next
    <2>6. CASE ScreenStep
      BY <2>6, ScreenStepFacts DEF Game!vars, countSelectedCards
    <2> QED
      BY <2>1, <2>2, <2>3, <2>4, <2>5, <2>6, StepCases DEF Patient
  <1>3. Spec => []BoardWaits /\ []OneJobPerPair /\ []VerdictIsFresh /\ []RemovedInPairs
                  /\ []EndIsAnnounced
    BY WaitingPlayerFindsBoardWaiting, OneJobForEveryPair, VerdictIsAlwaysFresh,
       CardsLeaveInPairs, EndIsAlwaysAnnounced
  <1>4. TypeOK /\ SelectionOnBoard /\ BoardWaits /\ OneJobPerPair /\ VerdictIsFresh
          /\ RemovedInPairs /\ EndIsAnnounced => Patient
    BY DEF Patient
  <1> QED
    BY <1>1, <1>2, <1>3, <1>4, TypeCorrect, SelectionIsOnBoard, PTL
    DEF Spec, ImplementsMemoryGame, Game!Spec
=============================================================================
