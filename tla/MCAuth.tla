------------------------------- MODULE MCAuth -------------------------------
(***************************************************************************)
(* AuthFlow for TLC.                                                       *)
(***************************************************************************)
EXTENDS AuthFlow, TLC

AnyEmailAndSlot == Permutations(Emails) \cup Permutations(Slots)
=============================================================================
