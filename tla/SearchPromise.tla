---------------------------- MODULE SearchPromise ----------------------------
(***************************************************************************)
(* What Tuner::run promises its caller, whatever stages it goes through    *)
(* (src/include/fluxinfer/tuner/tuner.hpp): the best score it holds only    *)
(* ever improves, the result is assigned once, and the verdict is success   *)
(* exactly when some configuration worked.                                 *)
(***************************************************************************)
EXTENDS Integers

CONSTANTS
  Floor   \* the score of a configuration that did not work

VARIABLES
  phase,      \* "searching", "published", "done"
  score,      \* the best score so far
  published,  \* the score of the assigned result
  success     \* the verdict

vars == <<phase, score, published, success>>

Init ==
  /\ phase = "searching"
  /\ score = Floor
  /\ published = Floor
  /\ success = FALSE

\* Once the result is assigned, only a search that has one goes on looking.
Improve ==
  /\ phase = "searching" \/ (phase = "published" /\ score > Floor)
  /\ score' \in Int /\ score' > score
  /\ UNCHANGED <<phase, published, success>>

Publish ==
  /\ phase = "searching"
  /\ phase' = "published"
  /\ published' = score
  /\ UNCHANGED <<score, success>>

Conclude ==
  /\ phase = "published"
  /\ phase' = "done"
  /\ success' = (score > Floor)
  /\ UNCHANGED <<score, published>>

\* The search cannot start at all.
GiveUp ==
  /\ phase = "searching" /\ score = Floor
  /\ phase' = "done"
  /\ UNCHANGED <<score, published, success>>

Next == Improve \/ Publish \/ Conclude \/ GiveUp

Spec == Init /\ [][Next]_vars
=============================================================================
