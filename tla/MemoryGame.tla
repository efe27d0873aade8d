------------------------------ MODULE MemoryGame ------------------------------
(***************************************************************************)
(* The memory game as its player knows it: what the home screen promises,  *)
(* without timers, blocks, flags and cached results.                       *)
(*                                                                         *)
(* A turn opens two different cards, is charged one try, and ends with the *)
(* cards off the board if they are equal and closed if they are not.  No   *)
(* card is opened once the game has ended.                                 *)
(***************************************************************************)
EXTENDS Levels, FiniteSets

VARIABLES
  level,   \* the level of this game
  board,   \* card -> image
  gone,    \* the cards off the board
  open,    \* the cards opened in this turn
  judged,  \* was this turn charged?
  tries    \* the turns charged

vars == <<level, board, gone, open, judged, tries>>

Equal(cards) == \A c, d \in cards : board[c] = board[d]

Ended == gone = DOMAIN board \/ tries >= gameOverCondition

Init ==
  /\ level = expert
  /\ board \in Deals(level)
  /\ gone = {}
  /\ open = {}
  /\ judged = FALSE
  /\ tries = 0

Deal(m) ==
  /\ level' = m
  /\ board' \in Deals(m)
  /\ gone' = {}
  /\ open' = {}
  /\ judged' = FALSE
  /\ tries' = 0

Open(card) ==
  /\ ~Ended
  /\ Cardinality(open) < 2
  /\ card \notin open \cup gone
  /\ open' = open \cup {card}
  /\ UNCHANGED <<level, board, gone, judged, tries>>

Judge ==
  /\ Cardinality(open) = 2
  /\ ~judged
  /\ judged' = TRUE
  /\ tries' = tries + 1
  /\ UNCHANGED <<level, board, gone, open>>

EndTurn ==
  /\ judged
  /\ gone' = IF Equal(open) THEN gone \cup open ELSE gone
  /\ open' = {}
  /\ judged' = FALSE
  /\ UNCHANGED <<level, board, tries>>

Next ==
  \/ \E m \in GameModes : Deal(m)
  \/ \E card \in DOMAIN board : Open(card)
  \/ Judge
  \/ EndTurn

Spec == Init /\ [][Next]_vars
=============================================================================
