----------------------------- MODULE MCConnection -----------------------------
(***************************************************************************)
(* PersistentConnection for TLC.                                           *)
(***************************************************************************)
EXTENDS PersistentConnection
=============================================================================
