------------------------------ MODULE WriteQueue ------------------------------
(***************************************************************************)
(* What the Database client promises the writer of a location: however     *)
(* often a write has to be sent again, the writes are answered once each,  *)
(* in the order they were made; a write answered with "ok" is stored, and  *)
(* no older write comes back over it.                                      *)
(*                                                                         *)
(* Writes are numbered from 1, and all go to one location.                 *)
(***************************************************************************)
EXTENDS Naturals, Sequences

Status == {"ok", "error"}  \* what a write may be answered with

VARIABLES
  issued,   \* the number of writes made
  answers,  \* the answers given
  value     \* the number of the write the location holds, 0 before the first

vars == <<issued, answers, value>>

Init ==
  /\ issued = 0
  /\ answers = <<>>
  /\ value = 0

Issue ==
  /\ issued' = issued + 1
  /\ UNCHANGED <<answers, value>>

\* Only a write that is not answered yet may still be stored (again).
Store(write) ==
  /\ Len(answers) < write
  /\ value' = write
  /\ UNCHANGED <<issued, answers>>

\* The oldest open write is answered: with "ok" only if the location holds it,
\* or one made later.
Answer(status) ==
  /\ Len(answers) < issued
  /\ status = "ok" => Len(answers) < value
  /\ answers' = Append(answers, [write |-> Len(answers) + 1, status |-> status])
  /\ UNCHANGED <<issued, value>>

Next ==
  \/ Issue
  \/ \E write \in 1 .. issued : Store(write)
  \/ \E status \in Status : Answer(status)

Spec == Init /\ [][Next]_vars
=============================================================================
