------------------------------ MODULE MCMagic ------------------------------
(* Instances of MagicSearch: every automaton over a few states with a      *)
(* bounded number of edges, of which at most one is labelled by false.     *)
EXTENDS MagicSearch

Labelled(cond) == [src : State, cond : {cond}, acc : SUBSET Mark, dst : State]

(* All automata with at most five edges, and those with at most two and    *)
(* one more that is labelled by false.                                     *)
UpTo2 == {{e, f} : e, f \in Labelled(TRUE)}
UpTo3 == {E \cup {e} : E \in UpTo2, e \in Labelled(TRUE)}
UpTo5 == {E \cup F : E \in UpTo3, F \in UpTo2}
AndFalse == {E \cup {e} : E \in UpTo2, e \in Labelled(FALSE)}
MCAutomata == UpTo5 \cup AndFalse

(* one entry per state: explicit_magic_search_heap                         *)
MCExplicit == [s \in State |-> s]

(* Inf(0)                                                                  *)
MCBuchi == {Mark}
=============================================================================
