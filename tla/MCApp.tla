--------------------------------- MODULE MCApp ---------------------------------
(***************************************************************************)
(* App for TLC: one board of two cards, one account.                       *)
(***************************************************************************)
EXTENDS App, TLC

OneLevel == {expert}
OneBoard == [m \in OneLevel |-> 2]
=============================================================================
