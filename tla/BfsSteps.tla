------------------------------ MODULE BfsSteps ------------------------------
(***************************************************************************)
(* bfs_steps::search() of spot/twaalgos/bfssteps.cc, by what it computes:  *)
(* a path that starts in a given state and ends with an edge that matches, *)
(* with as few edges as possible.  Which one of these paths depends on the *)
(* order of the successors, so that the set of them all is given; it is    *)
(* empty where the code returns a null pointer.                            *)
(***************************************************************************)
EXTENDS Twa, Sequences

(* The paths of n edges of E from start.                                   *)
PathsFrom(E, start, n) ==
  {p \in [1..n -> E] : /\ p[1].src = start
                       /\ \A i \in 1 .. n - 1 : p[i].dst = p[i + 1].src}

(* E holds the edges that are not labelled by false and whose destination  *)
(* filter() lets through, matches those for which match() is true.  A      *)
(* shortest path leaves no state twice.                                    *)
search(E, start, matches) ==
  LET found(n) == {p \in PathsFrom(E, start, n) : p[n] \in matches}
      shortest == {n \in 1 .. Cardinality(State) :
                     found(n) # {} /\ \A k \in 1 .. n - 1 : found(k) = {}}
  IN UNION {found(n) : n \in shortest}
=============================================================================
