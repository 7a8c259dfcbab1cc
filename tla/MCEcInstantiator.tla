-------------------------- MODULE MCEcInstantiator --------------------------
(* Instances of EcInstantiator on the automata of SmallAutomata.           *)
EXTENDS EcInstantiator

SA == INSTANCE SmallAutomata

(* With one mark: up to four edges with any marks, five or more of which   *)
(* one has it, or three of which one is labelled by false.  With Fin(0),   *)
(* weak ones among up to three edges and one that is labelled by false.    *)
MCSingle ==
  UNION {SA!FullyMarked({mark}, G) : G \in SA!Shapes(SA!Fours)}
    \cup UNION {SA!Marked({mark}, G) : G \in SA!Shapes(SA!Fives) \cup SA!Tailed(SA!Shapes(SA!Threes))}
    \cup UNION {SA!AndFalse({mark}, E) :
                  E \in UNION {SA!FullyMarked({mark}, G) : G \in SA!Shapes(SA!Twos)}}

MCWeak ==
  LET Es == UNION {SA!FullyMarked({mark}, G) : G \in SA!Shapes(SA!Threes)}
  IN Es \cup UNION {SA!AndFalse({}, E) : E \in Es}

(* With two marks: up to four edges.                                       *)
MCTwoMarks == UNION {SA!Marked(Mark, G) : G \in SA!Shapes(SA!Fours)}

(* all states but s0 share an entry of the heap                            *)
MCColliding == [s \in State |-> IF s = s0 THEN 0 ELSE 1]

MCSets == <<"a", "b">>

(* Inf(0)&Inf(1), and Inf(1)                                               *)
MCInf01 == {Mark}
MCInf1 == {{"b"}, Mark}
=============================================================================
