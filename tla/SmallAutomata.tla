--------------------------- MODULE SmallAutomata ---------------------------
(* Small automata over the states 0, 1, 2, and maybe 3, for the instances  *)
(* that TLC checks: graphs with a bounded number of edges, and their marks.*)
EXTENDS Twa, FiniteSetsExt

Core == State \ {3}
Arc == Core \X Core
Twos == {{a, b} : a, b \in Arc}
Threes == {G \cup {a} : G \in Twos, a \in Arc}
Fours == {G \cup H : G, H \in Twos}
Fives == {G \cup H : G \in Threes, H \in Twos}

(* The graphs in which every edge can be reached.  States 1 and 2 play the *)
(* same part: one of two mirrored graphs is enough.                        *)
Connected(G) ==
  \A C \in SUBSET State :
    s0 \in C /\ (\A a \in G : a[1] \in C => a[2] \in C) => \A a \in G : a[1] \in C

Mirror == [s \in State |-> IF s = 1 THEN 2 ELSE IF s = 2 THEN 1 ELSE s]
Weight(G) == SumSet({s + 3 * t : <<s, t>> \in G})

Shapes(Gs) ==
  {G \in Gs : /\ Connected(G)
              /\ Weight(G) <= Weight({<<Mirror[a[1]], Mirror[a[2]]>> : a \in G})}

(* Some state of G leads to the state 3, and that perhaps back.            *)
Tailed(Gs) ==
  UNION {{G \cup {<<s, 3>>} \cup H : s \in Core, H \in SUBSET {<<3, t>> : t \in Core}} : G \in Gs}

(* The automata over such a graph where each mark is on one edge or none,  *)
(* and those where it is on any edges.                                     *)
Marked(Ms, G) ==
  {{[src |-> a[1], cond |-> TRUE, acc |-> {m \in Ms : f[m] = a}, dst |-> a[2]] : a \in G} :
     f \in [Ms -> G \cup {<< >>}]}

FullyMarked(Ms, G) ==
  {{[src |-> a[1], cond |-> TRUE, acc |-> f[a], dst |-> a[2]] : a \in G} :
     f \in [G -> SUBSET Ms]}

(* With another edge, labelled by false, that has the marks Ms.            *)
AndFalse(Ms, E) ==
  {E \cup {[src |-> a[1], cond |-> FALSE, acc |-> Ms, dst |-> a[2]]} : a \in Arc}
=============================================================================
