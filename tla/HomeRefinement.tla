---------------------------- MODULE HomeRefinement ----------------------------
(***************************************************************************)
(* The home screen implements the memory game for the player who waits     *)
(* (EagerRestart, ExtraTaps and EagerSheets are FALSE).  A turn is judged  *)
(* when two cards are open and the check of a job has run; jobs that a     *)
(* restart left behind are invisible.                                      *)
(***************************************************************************)
EXTENDS HomeViewController

Game == INSTANCE MemoryGame WITH
          level  <- difficulty,
          board  <- inGameCards,
          gone   <- faded,
          open   <- {flippedCardNumber[i] : i \in DOMAIN flippedCardNumber},
          judged <- countSelectedCards = 2 /\ results # <<>>,
          tries  <- userHasTried

\* Whatever order the blocks of cardSelected and of the deals run in, and
\* whatever jobs of an earlier game are still pending after a restart, the
\* patient player plays a memory game: each turn opens two different cards, is
\* charged once, takes exactly the equal pairs off the board, and none begins
\* after the end.
ImplementsMemoryGame == Game!Spec
=============================================================================
