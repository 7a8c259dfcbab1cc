----------------------------- MODULE MCCouvreur -----------------------------
(* An instance of Couvreur99Result: automata over a few states with a      *)
(* bounded number of edges, of which one may be labelled by false.         *)
EXTENDS Couvreur99Result, SmallAutomata

MCAutomata ==
  UNION {Marked(Mark, G) : G \in Shapes(Fives)}
    \cup UNION {AndFalse(Mark, E) : E \in UNION {Marked(Mark, G) : G \in Shapes(Twos)}}

(* Inf(0)&Inf(1)                                                           *)
MCGeneralized == {Mark}

(* the combinations of options that lead to different code                 *)
MCOptions ==
  {p \in [shy : BOOLEAN, poprem : BOOLEAN, group : BOOLEAN, group2 : BOOLEAN] :
     (p.group2 => p.group) /\ (p.group => p.shy)}
=============================================================================
