----------------------------- MODULE MCTwaGraph -----------------------------
(* Instances of TwaGraph.                                                  *)
EXTENDS TwaGraph

Label(cond, acc) == [cond |-> cond, acc |-> acc]

Pairs(n) == (0 .. n) \X (0 .. n)

(* All the shapes of small alternating automata.                           *)
Shapes ==
  [states |-> 3, edges |-> 3, dests |-> 2, inits |-> {0}, kills |-> 1, shuffles |-> FALSE, fin |-> FALSE,
   pairs |-> Pairs(2), univ |-> 0 .. 2, groups |-> {<<1, 2>>}, labels |-> {Label({0}, {})}]

(* Larger ones, in which state 1 is on a cycle through a universal edge.   *)
Cycles ==
  [states |-> 4, edges |-> 5, dests |-> 1, inits |-> {0}, kills |-> 0, shuffles |-> FALSE, fin |-> FALSE,
   pairs |-> {<<0, 0>>, <<0, 1>>, <<0, 2>>, <<2, 1>>},
   univ |-> {1}, groups |-> {<<2, 3>>}, labels |-> {Label({0}, {})}]

(* The labels of existential ones.                                         *)
Labels ==
  [states |-> 2, edges |-> 3, dests |-> 0, inits |-> {0, 1}, kills |-> 1, shuffles |-> TRUE, fin |-> FALSE,
   pairs |-> Pairs(1), univ |-> {}, groups |-> {},
   labels |-> {Label({0}, {}), Label({0}, {0}), Label({1}, {})}]

(* Labels that are false, and Fin acceptance.                              *)
FinLabels ==
  [Labels EXCEPT !.edges = 2, !.fin = TRUE,
                 !.labels = {Label({0}, {}), Label({0}, {0}), Label({}, {})}]

MCClients == {Shapes, Cycles, Labels, FinLabels}
=============================================================================
