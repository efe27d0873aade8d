------------------------------- MODULE MCHeld -------------------------------
(***************************************************************************)
(* HeldTouch for TLC, with boards scaled down as in MCHome.                *)
(***************************************************************************)
EXTENDS HeldTouch, TLC

CONSTANT easy

TwoLevels == {easy, expert}
TwoBoards == [m \in TwoLevels |-> IF m = easy THEN 2 ELSE 4]

AnyImage == Permutations(cardImages)
=============================================================================
