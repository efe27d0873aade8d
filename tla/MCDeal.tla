------------------------------- MODULE MCDeal -------------------------------
(***************************************************************************)
(* DealCards for TLC: boards of two, four and six cards in lines of two.   *)
(***************************************************************************)
EXTENDS DealCards

CONSTANTS easy, hard

Levels3 == {easy, hard, expert}
Boards3 == [m \in Levels3 |-> IF m = easy THEN 2 ELSE IF m = hard THEN 4 ELSE 6]
=============================================================================
