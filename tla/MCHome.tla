------------------------------- MODULE MCHome -------------------------------
(***************************************************************************)
(* HomeViewController for TLC.  The boards are scaled down: lines of two   *)
(* cards instead of four; two, four and six cards instead of 12, 16, 20.   *)
(***************************************************************************)
EXTENDS HomeRefinement, TLC

CONSTANTS easy, hard

TwoLevels == {easy, expert}
TwoBoards == [m \in TwoLevels |-> IF m = easy THEN 2 ELSE 4]

ThreeLevels == {easy, hard, expert}
ThreeBoards == [m \in ThreeLevels |-> IF m = easy THEN 2 ELSE IF m = hard THEN 4 ELSE 6]

AnyImage == Permutations(cardImages)
=============================================================================
