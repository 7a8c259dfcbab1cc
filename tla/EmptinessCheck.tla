--------------------------- MODULE EmptinessCheck ---------------------------
(***************************************************************************)
(* What spot/twaalgos/emptiness.hh promises of any emptiness_check object  *)
(* for which safe() holds: the first check() answers a result exactly when *)
(* the automaton has an accepting run, later calls may report other runs,  *)
(* and a null answer ends the enumeration.  The algorithms of the other    *)
(* modules are shown to implement this specification.                      *)
(***************************************************************************)
EXTENDS Twa

VARIABLES
  edges,    \* the automaton a_, fixed when the object is built
  answer    \* "none" before any answer, then the last answer of check()

vars == <<edges, answer>>

Answer == {"none", "run", "null"}

Init == edges \subseteq Edge /\ answer = "none"

(* The first call: null iff the automaton accepts no run.                  *)
First ==
  /\ answer = "none"
  /\ answer' \in {"run", "null"}
  /\ (answer' = "run") = NonEmpty(edges)
  /\ UNCHANGED edges

(* A later call found no further run.  (One that does leaves "run".)       *)
Exhausted ==
  /\ answer = "run"
  /\ answer' = "null"
  /\ UNCHANGED edges

Next == First \/ Exhausted

Spec == Init /\ [][Next]_vars
=============================================================================
