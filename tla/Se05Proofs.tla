----------------------------- MODULE Se05Proofs -----------------------------
(***************************************************************************)
(* The nested depth-first search of se05.cc is right, for every automaton  *)
(* its constructor accepts: each result it returns has an accepting lasso  *)
(* on the stacks, even when hashes collide; and when they do not, the red  *)
(* dfs never meets a white state, and the first call returns a null        *)
(* pointer only if the automaton is empty.                                 *)
(***************************************************************************)
EXTENDS Se05, NdfsStackProofs

TypeOK ==
  /\ edges \in SUBSET Edge
  /\ IsFiniteSet(Mark)
  /\ is_weak(edges) \/ Mark = {} \/ is_buchi
  /\ slot \in [State -> Slot]
  /\ hc \in SUBSET State
  /\ color \in [Slot -> {"WHITE", "BLUE", "RED"}]
  /\ IsStack(edges, st_blue) /\ Distinct(st_blue) /\ IsStack(edges, st_red)
  /\ pc \in {"idle", "blue", "red"}
  /\ result \in {"none", "run", "null"}

(* What the phases of check() say about the stacks.                        *)
Phases ==
  /\ pc = "idle" /\ result = "none" =>
       st_blue = << >> /\ st_red = << >> /\ \A s \in State : is_white(s)
  /\ pc = "blue" => st_red = << >>
  /\ (pc = "idle" /\ result = "none") \/ ~is_white(s0)
  /\ pc # "idle" => result # "null"

(* The states that stay cyan, and those of the stacks.                     *)
Colored ==
  /\ hc \subseteq States(st_blue)
  /\ \A s \in States(st_blue) : ~is_white(s)
  /\ \A s \in States(st_red) : ~is_white(s)

(* The red stack continues the blue one, and was entered through an        *)
(* accepting edge unless a cycle of the blue stack alone is reported.      *)
Lasso ==
  /\ Linked(edges, st_blue) /\ Linked(edges, st_red)
  /\ st_blue # << >> => st_blue[1].s = s0
  /\ st_red # << >> => st_blue # << >> /\ Hop(Last(st_blue).s, st_red[1].acc, st_red[1].s) \in edges
  /\ pc = "red" /\ st_red # << >> => accepting(st_red[1].acc)
  /\ pc = "idle" /\ result = "run" =>
       /\ st_red # << >> /\ Last(st_red).s \in States(st_blue)
       /\ \/ accepting(st_red[1].acc)
          \/ /\ pop(st_red) = << >> /\ accepting(Last(st_blue).acc)
             /\ Last(st_blue).s # Last(st_red).s

(* The red dfs goes through states that the blue one has left, but for the *)
(* one that closes the cycle it reports.                                   *)
RedIsLeft ==
  /\ pc = "red" => States(st_red) \cap States(st_blue) = {}
  /\ pc = "idle" /\ result = "run" => States(pop(st_red)) \cap States(st_blue) = {}

(* An explicit search: what has been left leads to visited states.         *)
Explored ==
  /\ \A s \in State : ~is_white(s) => s \in Reach(Live(edges), s0)
  /\ \A s \in State : get_color(s) = "BLUE" => s \notin States(st_blue)
  /\ \A e \in Live(edges) : is_white(e.src) \/ ~is_white(e.dst) \/ e \in Ahead(st_blue)

(* The first call of an explicit search: red states lead to red ones only, *)
(* and an accepting edge that is done with is on no cycle.                 *)
First ==
  /\ \A s \in States(st_blue) : s \in hc
  /\ \A e \in Live(edges) :
       get_color(e.src) = "RED" => get_color(e.dst) = "RED" \/ (pc = "red" /\ e \in Ahead(st_red))
  /\ \A e \in Live(edges) :
       accepting(e.acc) /\ ~is_white(e.src) =>
         \/ e \in Ahead(st_blue) \/ Along(st_blue, e)
         \/ e.src \in States(st_blue) /\ get_color(e.dst) = "RED"
         \/ e.src \notin Reach(Live(edges), e.dst)

Inv ==
  /\ TypeOK /\ Phases /\ Colored /\ Lasso
  /\ Safe => RedIsLeft /\ Explored
  /\ Safe /\ result = "none" => First

-----------------------------------------------------------------------------
(* The fields of the edges.                                                *)
LEMMA EdgeFacts ==
  ASSUME TypeOK
  PROVE  /\ Live(edges) \in SUBSET Edge /\ Live(edges) \subseteq edges
         /\ \A e \in edges : /\ e.src \in State /\ e.dst \in State
                             /\ e.acc \in SUBSET Mark /\ e.cond \in BOOLEAN
                             /\ e.cond => e \in Live(edges)
         /\ \A e \in Live(edges) :
              e = Hop(e.src, e.acc, e.dst)
<1>1. \A e \in edges : /\ e.src \in State /\ e.dst \in State
                       /\ e.acc \in SUBSET Mark /\ e.cond \in BOOLEAN
                       /\ e = [src |-> e.src, cond |-> e.cond, acc |-> e.acc, dst |-> e.dst]
  BY DEF TypeOK, Edge
<1>2. Live(edges) \in SUBSET Edge /\ Live(edges) \subseteq edges
  BY DEF TypeOK, Live
<1>3. \A e \in Live(edges) : e.cond = TRUE
  BY <1>1 DEF Live
<1>4. \A e \in edges : e.cond => e \in Live(edges)
  BY DEF Live
<1>5. \A e \in Live(edges) : e = Hop(e.src, e.acc, e.dst)
  BY <1>1, <1>2, <1>3 DEF Hop
<1>6. QED
  BY <1>1, <1>2, <1>4, <1>5

(* set_color() uncovers no white state; without collisions it changes the  *)
(* colour of s only.                                                       *)
LEMMA ColorFacts ==
  ASSUME TypeOK, NEW s \in State, NEW c \in {"BLUE", "RED"}, set_color(s, c)
  PROVE  /\ hc' = hc \ {s} /\ hc' \in SUBSET State
         /\ color' \in [Slot -> {"WHITE", "BLUE", "RED"}]
         /\ get_color(s)' = c /\ ~is_white(s)'
         /\ \A t \in State : ~is_white(t) => ~is_white(t)'
         /\ Safe => \A t \in State : t # s => /\ get_color(t)' = get_color(t)
                                              /\ is_white(t)' <=> is_white(t)
<1>1. /\ hc' = hc \ {s} /\ hc' \in SUBSET State /\ slot[s] \in Slot
      /\ color' \in [Slot -> {"WHITE", "BLUE", "RED"}]
      /\ color'[slot[s]] = c
      /\ \A t \in State : slot[t] # slot[s] => color'[slot[t]] = color[slot[t]]
  BY DEF TypeOK, set_color
<1>2. get_color(s)' = c
  BY <1>1 DEF get_color
<1>3. ASSUME NEW t \in State, ~is_white(t) PROVE ~is_white(t)'
  BY <1>1, <1>2, <1>3 DEF is_white, get_color
<1>4. ASSUME Safe, NEW t \in State, t # s PROVE get_color(t)' = get_color(t)
  <2>1. slot[t] # slot[s]
    BY <1>4 DEF Safe
  <2>2. QED
    BY <1>1, <1>4, <2>1 DEF get_color
<1>5. ~is_white(s)'
  BY <1>2 DEF is_white
<1>6. QED
  BY <1>1, <1>2, <1>3, <1>4, <1>5 DEF is_white

(* A new state is cyan.                                                    *)
LEMMA NewFacts ==
  ASSUME TypeOK, NEW s \in State, add_new_state(s)
  PROVE  /\ hc' = hc \cup {s} /\ hc' \in SUBSET State /\ color' = color
         /\ get_color(s)' = "CYAN" /\ ~is_white(s)'
         /\ \A t \in State : ~is_white(t) => ~is_white(t)'
         /\ \A t \in State : t # s => /\ get_color(t)' = get_color(t)
                                      /\ is_white(t)' <=> is_white(t)
BY DEF TypeOK, add_new_state, is_white, get_color

(* An edge that the blue dfs is on.                                        *)
LEMMA BlueEdgeFacts ==
  ASSUME Inv, NEW e, BlueEdge(e)
  PROVE  /\ TypeOK /\ pc = "blue" /\ st_blue # << >> /\ e \in edges /\ edges \in SUBSET Edge
         /\ e.src = Last(st_blue).s /\ e.src \in States(st_blue)
         /\ e.src \in State /\ e.dst \in State /\ e.acc \in SUBSET Mark /\ e.cond \in BOOLEAN
         /\ e.cond => e \in Live(edges) /\ e.dst \in Reach(Live(edges), e.src)
         /\ st_red = << >> /\ States(st_blue) \subseteq State /\ result # "null"
<1>1. /\ TypeOK /\ pc = "blue" /\ st_blue # << >> /\ e \in Last(st_blue).it
      /\ IsStack(edges, st_blue) /\ edges \in SUBSET Edge /\ st_red = << >> /\ result # "null"
  BY DEF Inv, Phases, BlueEdge, IsOn, TypeOK
<1>2. /\ e \in edges /\ e.src = Last(st_blue).s /\ e.src \in States(st_blue)
      /\ States(st_blue) \subseteq State
  BY <1>1, FrontFacts
<1>3. /\ e.src \in State /\ e.dst \in State /\ e.acc \in SUBSET Mark /\ e.cond \in BOOLEAN
  BY <1>1, <1>2, EdgeFacts
<1>4. e.cond => e \in Live(edges) /\ e.dst \in Reach(Live(edges), e.src)
  BY <1>1, <1>2, EdgeFacts, ReachEdge
<1>5. QED
  BY <1>1, <1>2, <1>3, <1>4

(* What next() on the blue stack leaves as it was.                         *)
LEMMA BlueNextFacts ==
  ASSUME Inv, NEW e, BlueEdge(e), NEW n, n = next(st_blue, e)
  PROVE  /\ IsStack(edges, n) /\ Distinct(n) /\ n # << >> /\ n \in Seq(Item)
         /\ States(n) = States(st_blue) /\ Last(n).s = Last(st_blue).s
         /\ Ahead(st_blue) \subseteq Ahead(n) \cup {e}
         /\ Linked(edges, n) /\ n[1].s = s0 /\ Last(n).acc = Last(st_blue).acc
         /\ \A g : Along(st_blue, g) => Along(n, g)
<1>1. st_blue # << >> /\ IsStack(edges, st_blue) /\ Distinct(st_blue) /\ st_blue \in Seq(Item)
  BY BlueEdgeFacts DEF TypeOK, IsStack
<1>2. /\ IsStack(edges, n) /\ Distinct(n) /\ n # << >> /\ n \in Seq(Item)
      /\ States(n) = States(st_blue) /\ Last(n).s = Last(st_blue).s
      /\ Ahead(st_blue) \subseteq Ahead(n) \cup {e}
  BY <1>1, NextStack DEF IsStack
<1>3. /\ Linked(edges, n) /\ n[1].s = s0 /\ Last(n).acc = Last(st_blue).acc
      /\ \A g : Along(st_blue, g) => Along(n, g)
  BY <1>1, NextLinked DEF Inv, Lasso
<1>4. QED
  BY <1>2, <1>3

(* In the first call, what is red when no red dfs runs leads to no state   *)
(* of the blue stack.                                                      *)
LEMMA RedClosed ==
  ASSUME TypeOK, First, pc # "red" \/ st_red = << >>, NEW e \in Live(edges),
         e.src \in States(st_blue), get_color(e.dst) = "RED"
  PROVE  e.src \notin Reach(Live(edges), e.dst)
<1> DEFINE C == {s \in State : get_color(s) = "RED"}
<1>1. Closed(Live(edges), C)
  BY EdgeFacts, EmptyStack DEF First, Closed
<1>2. e.dst \in C /\ C \in SUBSET State
  BY EdgeFacts
<1>3. Reach(Live(edges), e.dst) \subseteq C
  BY <1>1, <1>2, ReachInClosed
<1>4. e.src \notin C
  BY DEF First, get_color
<1>5. QED
  BY <1>3, <1>4

(* A new search.                                                           *)
LEMMA InitInv ==
  ASSUME Automata \subseteq SUBSET Edge, slot \in [State -> Slot], IsFiniteSet(Mark), Init
  PROVE  Inv
<1> USE DEF Init, se05_search
<1>1. TypeOK
  BY EmptyStack DEF TypeOK
<1>2. \A s \in State : get_color(s) = "WHITE" /\ is_white(s)
  BY <1>1 DEF get_color, is_white, TypeOK
<1>3. Phases /\ Colored
  BY <1>2, EmptyStack DEF Phases, Colored
<1>4. Lasso
  BY EmptySeq DEF Lasso, Linked
<1>5. RedIsLeft /\ Explored
  BY <1>1, <1>2, EdgeFacts, EmptyStack DEF RedIsLeft, Explored
<1>6. First
  BY <1>1, <1>2, EdgeFacts, EmptyStack DEF First
<1>7. QED
  BY <1>1, <1>3, <1>4, <1>5, <1>6 DEF Inv

-----------------------------------------------------------------------------
(* The blue dfs passes over an edge, labelled by false or to a state for   *)
(* which there is nothing to do.                                           *)
LEMMA BluePassInv ==
  ASSUME Inv, NEW e, BlueEdge(e), st_blue' = next(st_blue, e),
         UNCHANGED <<edges, hc, color, st_red, pc, result>>,
         e.cond => ~is_white(e.dst) /\ (accepting(e.acc) => get_color(e.dst) = "RED")
  PROVE  Inv'
<1> USE DEF Inv
<1>0. /\ TypeOK /\ pc = "blue" /\ e \in edges /\ e.src = Last(st_blue).s
      /\ e.src \in States(st_blue) /\ st_red = << >>
      /\ e \in Live(edges) => ~is_white(e.dst) /\ (accepting(e.acc) => get_color(e.dst) = "RED")
  BY BlueEdgeFacts DEF Live
<1>1. /\ IsStack(edges, st_blue') /\ Distinct(st_blue') /\ st_blue' # << >>
      /\ States(st_blue') = States(st_blue) /\ Last(st_blue').s = Last(st_blue).s
      /\ Ahead(st_blue) \subseteq Ahead(st_blue') \cup {e}
      /\ Linked(edges, st_blue') /\ st_blue'[1].s = s0
      /\ \A g : Along(st_blue, g) => Along(st_blue', g)
  BY BlueNextFacts
<1>2. \A s : get_color(s)' = get_color(s) /\ (is_white(s)' <=> is_white(s))
  BY DEF get_color, is_white
<1>3. TypeOK'
  BY <1>1 DEF TypeOK
<1>4. Phases' /\ Colored'
  BY <1>0, <1>1, <1>2 DEF Phases, Colored
<1>5. Lasso'
  BY <1>0, <1>1 DEF Lasso
<1>6. ASSUME Safe PROVE RedIsLeft' /\ Explored'
  BY <1>0, <1>1, <1>2, <1>6 DEF RedIsLeft, Explored
<1>7. ASSUME Safe, result = "none" PROVE First'
  <2>1. First
    BY <1>7
  <2>2. QED
    BY <1>0, <1>1, <1>2, <2>1 DEF First
<1>8. QED
  BY <1>3, <1>4, <1>5, <1>6, <1>7 DEF Safe

(* The first call of check().                                              *)
LEMMA CheckInv == ASSUME Inv, Check PROVE Inv'
<1> USE TwaAssumption DEF Inv, Check
<1>0. /\ TypeOK /\ st_blue = << >> /\ st_red = << >> /\ \A s \in State : is_white(s)
      /\ edges \in SUBSET Edge /\ st_blue \in Seq(Item) /\ s0 \in State /\ {} \in SUBSET Mark
  BY DEF Phases, TypeOK, IsStack
<1>1. PICK label \in BOOLEAN : st_blue' = push(st_blue, edges, s0, label, {})
  BY Zenon
<1>2. /\ IsStack(edges, st_blue') /\ st_blue' # << >> /\ Distinct(st_blue')
      /\ States(st_blue') = {s0} /\ Ahead(st_blue') = succ_iter(edges, s0)
  BY ONLY <1>0, <1>1, PushFirst
<1>3. Linked(edges, st_blue') /\ st_blue'[1].s = s0
  BY ONLY <1>0, <1>1, FirstLinked
<1>4. /\ hc' = hc \cup {s0} /\ hc' \in SUBSET State /\ color' = color
      /\ get_color(s0)' = "CYAN" /\ ~is_white(s0)'
      /\ \A t \in State : t # s0 => /\ get_color(t)' = get_color(t)
                                    /\ is_white(t)' <=> is_white(t)
  BY <1>0, NewFacts
<1>5. TypeOK'
  BY <1>2, <1>4 DEF TypeOK
<1>6. Phases'
  BY <1>0, <1>4 DEF Phases
<1>7. Colored'
  BY <1>0, <1>2, <1>4, EmptyStack DEF Colored
<1>8. Lasso'
  BY <1>0, <1>2, <1>3 DEF Lasso
<1>9. \A e \in Live(edges) : is_white(e.src)' \/ e \in Ahead(st_blue')
  <2> SUFFICES ASSUME NEW e \in Live(edges), ~is_white(e.src)'
               PROVE  e \in Ahead(st_blue')
    OBVIOUS
  <2>1. e \in edges /\ e.src = s0
    BY <1>0, <1>4, EdgeFacts
  <2>2. QED
    BY <1>2, <2>1 DEF succ_iter
<1>10. RedIsLeft' /\ Explored'
  <2>1. s0 \in Reach(Live(edges), s0)
    BY <1>0, EdgeFacts, ReachFacts
  <2>2. \A s \in State : get_color(s)' # "BLUE"
    BY <1>0, <1>4 DEF is_white
  <2>3. QED
    BY <1>0, <1>2, <1>4, <1>9, <2>1, <2>2 DEF RedIsLeft, Explored
<1>11. First'
  <2>1. \A s \in State : get_color(s)' # "RED"
    BY <1>0, <1>4 DEF is_white
  <2>2. QED
    BY <1>0, <1>2, <1>4, <1>9, <2>1, EdgeFacts DEF First
<1>12. QED
  BY <1>5, <1>6, <1>7, <1>8, <1>10, <1>11

(* A later call.                                                           *)
LEMMA CheckAgainInv == ASSUME Inv, CheckAgain PROVE Inv'
<1> USE DEF Inv, CheckAgain
<1>0. /\ TypeOK /\ st_red # << >> /\ IsStack(edges, st_red) /\ st_red \in Seq(Item)
      /\ st_red' = pop(st_red)
  BY DEF Lasso, TypeOK, IsStack
<1>1. IsStack(edges, st_red') /\ States(st_red') \subseteq States(st_red)
  BY <1>0, PopStack
<1>2. /\ Linked(edges, st_red) => Linked(edges, st_red')
      /\ st_red' # << >> => Len(st_red) > 1 /\ st_red'[1] = st_red[1]
  BY <1>0, PopLinked
<1>3. \A s : get_color(s)' = get_color(s) /\ (is_white(s)' <=> is_white(s))
  BY DEF get_color, is_white
<1>4. TypeOK'
  BY <1>1 DEF TypeOK
<1>5. Phases' /\ Colored'
  BY <1>1, <1>3 DEF Phases, Colored
<1>6. Lasso'
  BY <1>0, <1>2 DEF Lasso
<1>7. Safe => RedIsLeft' /\ Explored'
  BY <1>0, <1>1, <1>3 DEF RedIsLeft, Explored
<1>8. QED
  BY <1>4, <1>5, <1>6, <1>7 DEF Safe

(* dfs_blue() goes down an edge to a white state.                          *)
LEMMA BlueDownInv == ASSUME Inv, NEW e, BlueDown(e) PROVE Inv'
<1> USE DEF Inv, BlueDown
<1> DEFINE n == next(st_blue, e)
<1>0. /\ TypeOK /\ pc = "blue" /\ e \in edges /\ e \in Live(edges) /\ e.src = Last(st_blue).s
      /\ e.src \in States(st_blue) /\ e.src \in State /\ e.dst \in State
      /\ e.acc \in SUBSET Mark /\ e.cond \in BOOLEAN /\ edges \in SUBSET Edge
      /\ e.dst \in Reach(Live(edges), e.src) /\ st_red = << >>
      /\ States(st_blue) \subseteq State /\ is_white(e.dst)
  BY BlueEdgeFacts
<1>1. /\ IsStack(edges, n) /\ Distinct(n) /\ n # << >> /\ n \in Seq(Item)
      /\ States(n) = States(st_blue) /\ Last(n).s = e.src
      /\ Ahead(st_blue) \subseteq Ahead(n) \cup {e}
      /\ Linked(edges, n) /\ n[1].s = s0
      /\ \A g : Along(st_blue, g) => Along(n, g)
  BY <1>0, BlueNextFacts
<1> HIDE DEF n
<1>2. st_blue' = push(n, edges, e.dst, e.cond, e.acc)
  BY DEF n
<1>3. e.dst \notin States(st_blue)
  BY <1>0 DEF Colored
<1>4. /\ IsStack(edges, st_blue') /\ st_blue' # << >> /\ Distinct(st_blue')
      /\ States(st_blue') = States(st_blue) \cup {e.dst}
      /\ Ahead(st_blue') = Ahead(n) \cup succ_iter(edges, e.dst)
  BY ONLY <1>0, <1>1, <1>2, <1>3, PushStack
<1>5. /\ Linked(edges, st_blue') /\ st_blue'[1].s = s0
      /\ \A g : Along(st_blue, g) => Along(st_blue', g)
      /\ Along(st_blue', e)
  <2>1. Hop(Last(n).s, e.acc, e.dst) \in edges
    BY <1>0, <1>1, EdgeFacts
  <2>2. Linked(edges, st_blue') /\ st_blue'[1] = n[1]
    BY ONLY <1>0, <1>1, <1>2, <2>1, PushLinked, PushBottom
  <2>3. /\ \A g : Along(n, g) => Along(st_blue', g)
        /\ \A g : n # << >> /\ g.src = Last(n).s /\ g.dst = e.dst /\ g.acc = e.acc
             => Along(st_blue', g)
    BY ONLY <1>0, <1>1, <1>2, PushAlong
  <2>4. QED
    BY <1>0, <1>1, <2>2, <2>3
<1>6. /\ hc' = hc \cup {e.dst} /\ hc' \in SUBSET State /\ color' = color
      /\ get_color(e.dst)' = "CYAN" /\ ~is_white(e.dst)'
      /\ \A t \in State : ~is_white(t) => ~is_white(t)'
      /\ \A t \in State : t # e.dst => /\ get_color(t)' = get_color(t)
                                       /\ is_white(t)' <=> is_white(t)
  BY <1>0, NewFacts
<1>7. TypeOK'
  BY <1>4, <1>6 DEF TypeOK
<1>8. Phases'
  BY <1>0, <1>6, TwaAssumption DEF Phases
<1>9. Colored'
  BY <1>0, <1>4, <1>6, EmptyStack DEF Colored
<1>10. Lasso'
  BY <1>0, <1>4, <1>5 DEF Lasso
<1>11. \A g \in Live(edges) : is_white(g.src)' =>  is_white(g.src)
  BY <1>0, <1>6, EdgeFacts
<1>12. ASSUME Safe PROVE RedIsLeft' /\ Explored'
  <2>1. Explored
    BY <1>12
  <2>2. ASSUME NEW g \in Live(edges), ~is_white(g.src)', is_white(g.dst)'
        PROVE  g \in Ahead(st_blue')
    <3>1. g \in edges /\ g.src \in State /\ g.dst \in State
      BY <1>0, EdgeFacts
    <3>2. CASE g.src = e.dst
      BY <1>4, <3>1, <3>2 DEF succ_iter
    <3>3. CASE g.src # e.dst
      <4>1. ~is_white(g.src) /\ is_white(g.dst)
        BY <1>6, <2>2, <3>1, <3>3
      <4>2. g \in Ahead(st_blue) /\ g # e
        BY <1>6, <2>1, <2>2, <4>1 DEF Explored
      <4>3. QED
        BY <1>1, <1>4, <4>2
    <3>4. QED
      BY <3>2, <3>3
  <2>3. e.dst \in Reach(Live(edges), s0)
    <3>1. e.src \in Reach(Live(edges), s0)
      BY <1>0, <2>1 DEF Explored, Colored
    <3>2. QED
      BY <1>0, <3>1, EdgeFacts, ReachTrans, TwaAssumption
  <2>4. \A s \in State : ~is_white(s)' => s \in Reach(Live(edges), s0)
    BY <1>6, <2>1, <2>3 DEF Explored
  <2>5. \A s \in State : get_color(s)' = "BLUE" => s \notin States(st_blue')
    BY <1>4, <1>6, <2>1 DEF Explored
  <2>6. QED
    BY <1>0, <2>2, <2>4, <2>5 DEF RedIsLeft, Explored
<1>13. ASSUME Safe, result = "none" PROVE First'
  <2>1. First
    BY <1>13
  <2>2. get_color(e.dst) = "WHITE"
    BY <1>0 DEF is_white
  <2>3. \A s \in States(st_blue') : s \in hc'
    BY <1>4, <1>6, <2>1 DEF First
  <2>4. \A s \in State : get_color(s)' = "RED" <=> get_color(s) = "RED"
    BY <1>6, <2>2
  <2>5. \A g \in Live(edges) : get_color(g.src)' = "RED" => get_color(g.dst)' = "RED"
    BY <1>0, <2>1, <2>4, EdgeFacts DEF First
  <2>6. ASSUME NEW g \in Live(edges), accepting(g.acc), ~is_white(g.src)'
        PROVE  \/ g \in Ahead(st_blue') \/ Along(st_blue', g)
               \/ g.src \in States(st_blue') /\ get_color(g.dst)' = "RED"
               \/ g.src \notin Reach(Live(edges), g.dst)
    <3>1. g \in edges /\ g.src \in State /\ g.dst \in State
      BY <1>0, EdgeFacts
    <3>2. CASE g.src = e.dst
      BY <1>4, <3>1, <3>2 DEF succ_iter
    <3>3. CASE g.src # e.dst
      <4>1. \/ g \in Ahead(st_blue) \/ Along(st_blue, g)
            \/ g.src \in States(st_blue) /\ get_color(g.dst) = "RED"
            \/ g.src \notin Reach(Live(edges), g.dst)
        BY <1>6, <2>1, <2>6, <3>1, <3>3 DEF First
      <4>2. QED
        BY <1>1, <1>4, <1>5, <2>4, <3>1, <4>1
    <3>4. QED
      BY <3>2, <3>3
  <2>7. QED
    BY <2>3, <2>5, <2>6 DEF First
<1>14. QED
  BY <1>7, <1>8, <1>9, <1>10, <1>12, <1>13 DEF Safe

(* dfs_blue() reports a cycle of the blue stack.                           *)
LEMMA BlueReportInv == ASSUME Inv, NEW e, BlueReport(e) PROVE Inv'
<1> USE DEF Inv, BlueReport, Return
<1>0. /\ TypeOK /\ pc = "blue" /\ e \in edges /\ e \in Live(edges) /\ e.src = Last(st_blue).s
      /\ e.src \in States(st_blue) /\ e.src \in State /\ e.dst \in State
      /\ e.acc \in SUBSET Mark /\ e.cond \in BOOLEAN /\ edges \in SUBSET Edge
      /\ st_red = << >> /\ States(st_blue) \subseteq State /\ st_blue # << >>
  BY BlueEdgeFacts
<1>1. /\ IsStack(edges, st_blue') /\ Distinct(st_blue') /\ st_blue' # << >>
      /\ States(st_blue') = States(st_blue) /\ Last(st_blue').s = e.src
      /\ Ahead(st_blue) \subseteq Ahead(st_blue') \cup {e}
      /\ Linked(edges, st_blue') /\ st_blue'[1].s = s0 /\ Last(st_blue').acc = Last(st_blue).acc
  BY <1>0, BlueNextFacts
<1>2. /\ IsStack(edges, st_red') /\ st_red' # << >> /\ States(st_red') = {e.dst}
      /\ Linked(edges, st_red') /\ st_red'[1].s = e.dst /\ st_red'[1].acc = e.acc
      /\ Last(st_red').s = e.dst /\ pop(st_red') = << >>
  <2>1. st_red' = push(st_red, edges, e.dst, e.cond, e.acc)
    OBVIOUS
  <2>2. QED
    BY ONLY <1>0, <2>1, PushFirst, FirstLinked
<1>3. e.dst \in hc /\ ~is_white(e.dst)
  BY <1>0 DEF Closes, get_color, TypeOK, is_white
<1>4. e.dst \in States(st_blue)
  BY <1>3 DEF Colored
<1>5. /\ hc' = hc \ {e.dst} /\ hc' \in SUBSET State
      /\ color' \in [Slot -> {"WHITE", "BLUE", "RED"}]
      /\ get_color(e.dst)' = "RED" /\ ~is_white(e.dst)'
      /\ \A t \in State : ~is_white(t) => ~is_white(t)'
      /\ Safe => \A t \in State : t # e.dst => /\ get_color(t)' = get_color(t)
                                               /\ is_white(t)' <=> is_white(t)
  BY <1>0, ColorFacts
<1>6. TypeOK'
  BY <1>1, <1>2, <1>5 DEF TypeOK
<1>7. Phases'
  BY <1>0, <1>5, TwaAssumption DEF Phases
<1>8. Colored'
  BY <1>0, <1>1, <1>2, <1>5 DEF Colored
<1>9. Lasso'
  <2>1. Hop(Last(st_blue').s, st_red'[1].acc, st_red'[1].s) \in edges
    BY ZenonT(30), <1>0, <1>1, <1>2, EdgeFacts
  <2>2. accepting(e.acc) \/ (accepting(Last(st_blue').acc) /\ Last(st_blue').s # Last(st_red').s)
    BY <1>0, <1>1, <1>2 DEF Closes
  <2>3. QED
    BY <1>1, <1>2, <1>4, <2>1, <2>2 DEF Lasso
<1>10. ASSUME Safe PROVE RedIsLeft' /\ Explored'
  <2>1. RedIsLeft'
    BY <1>2, EmptyStack DEF RedIsLeft
  <2>2. \A g \in Live(edges) : is_white(g.src)' \/ ~is_white(g.dst)' \/ g \in Ahead(st_blue')
    BY <1>0, <1>1, <1>3, <1>5, <1>10, EdgeFacts DEF Explored
  <2>3. \A s \in State : get_color(s)' = "BLUE" => s \notin States(st_blue')
    BY <1>1, <1>5, <1>10 DEF Explored
  <2>4. \A s \in State : ~is_white(s)' => s \in Reach(Live(edges), s0)
    BY <1>3, <1>5, <1>10 DEF Explored
  <2>5. QED
    BY <2>1, <2>2, <2>3, <2>4 DEF Explored
<1>11. QED
  BY <1>6, <1>7, <1>8, <1>9, <1>10 DEF Safe

(* dfs_blue() starts a red dfs over an edge to a state it has left.        *)
LEMMA BlueStartRedInv == ASSUME Inv, NEW e, BlueStartRed(e) PROVE Inv'
<1> USE DEF Inv, BlueStartRed, StartRed
<1>0. /\ TypeOK /\ pc = "blue" /\ e \in edges /\ e \in Live(edges) /\ e.src = Last(st_blue).s
      /\ e.src \in States(st_blue) /\ e.src \in State /\ e.dst \in State
      /\ e.acc \in SUBSET Mark /\ e.cond \in BOOLEAN /\ edges \in SUBSET Edge
      /\ st_red = << >> /\ States(st_blue) \subseteq State /\ st_blue # << >>
      /\ result # "null" /\ result' = result
  BY BlueEdgeFacts
<1>1. /\ IsStack(edges, st_blue') /\ Distinct(st_blue') /\ st_blue' # << >>
      /\ States(st_blue') = States(st_blue) /\ Last(st_blue').s = e.src
      /\ Ahead(st_blue) \subseteq Ahead(st_blue') \cup {e}
      /\ Linked(edges, st_blue') /\ st_blue'[1].s = s0
      /\ \A g : Along(st_blue, g) => Along(st_blue', g)
  BY <1>0, BlueNextFacts
<1>2. /\ IsStack(edges, st_red') /\ st_red' # << >> /\ States(st_red') = {e.dst}
      /\ Ahead(st_red') = succ_iter(edges, e.dst)
      /\ Linked(edges, st_red') /\ st_red'[1].s = e.dst /\ st_red'[1].acc = e.acc
  <2>1. st_red' = push(st_red, edges, e.dst, e.cond, e.acc)
    OBVIOUS
  <2>2. QED
    BY ONLY <1>0, <2>1, PushFirst, FirstLinked
<1>3. /\ accepting(e.acc) /\ e.dst \notin hc
      /\ get_color(e.dst) = "BLUE" /\ ~is_white(e.dst)
  <2>1. /\ accepting(e.acc) /\ get_color(e.dst) # "RED" /\ get_color(e.dst) # "CYAN"
        /\ get_color(e.dst) # "WHITE"
    BY DEF Starts, Closes, is_white
  <2>2. QED
    BY <1>0, <2>1 DEF get_color, is_white, TypeOK
<1>5. /\ hc' = hc \ {e.dst} /\ hc' \in SUBSET State
      /\ color' \in [Slot -> {"WHITE", "BLUE", "RED"}]
      /\ get_color(e.dst)' = "RED" /\ ~is_white(e.dst)'
      /\ \A t \in State : ~is_white(t) => ~is_white(t)'
      /\ Safe => \A t \in State : t # e.dst => /\ get_color(t)' = get_color(t)
                                               /\ is_white(t)' <=> is_white(t)
  BY <1>0, ColorFacts
<1>6. TypeOK'
  BY <1>1, <1>2, <1>5 DEF TypeOK
<1>7. Phases'
  BY <1>0, <1>5, TwaAssumption DEF Phases
<1>8. Colored'
  BY <1>0, <1>1, <1>2, <1>5 DEF Colored
<1>9. Lasso'
  <2>1. Hop(Last(st_blue').s, st_red'[1].acc, st_red'[1].s) \in edges
    BY ZenonT(30), <1>0, <1>1, <1>2, EdgeFacts
  <2>3. QED
    BY <1>1, <1>2, <1>3, <2>1 DEF Lasso
<1>10. ASSUME Safe PROVE RedIsLeft' /\ Explored'
  <2>1. RedIsLeft'
    BY <1>0, <1>1, <1>2, <1>3, <1>10 DEF RedIsLeft, Explored
  <2>2. \A g \in Live(edges) : is_white(g.src)' \/ ~is_white(g.dst)' \/ g \in Ahead(st_blue')
    BY <1>0, <1>1, <1>3, <1>5, <1>10, EdgeFacts DEF Explored
  <2>3. \A s \in State : get_color(s)' = "BLUE" => s \notin States(st_blue')
    BY <1>1, <1>5, <1>10 DEF Explored
  <2>4. \A s \in State : ~is_white(s)' => s \in Reach(Live(edges), s0)
    BY <1>3, <1>5, <1>10 DEF Explored
  <2>5. QED
    BY <2>1, <2>2, <2>3, <2>4 DEF Explored
<1>11. ASSUME Safe, result = "none" PROVE First'
  <2>1. First
    BY <1>11
  <2>2. \A s \in States(st_blue') : s \in hc'
    BY <1>1, <1>3, <1>5, <2>1 DEF First
  <2>3. ASSUME NEW g \in Live(edges), get_color(g.src)' = "RED"
        PROVE  get_color(g.dst)' = "RED" \/ g \in Ahead(st_red')
    <3>1. g \in edges /\ g.src \in State /\ g.dst \in State
      BY <1>0, EdgeFacts
    <3>2. CASE g.src = e.dst
      BY <1>2, <3>1, <3>2 DEF succ_iter
    <3>3. CASE g.src # e.dst
      BY <1>0, <1>5, <1>11, <2>1, <2>3, <3>1, <3>3 DEF First
    <3>4. QED
      BY <3>2, <3>3
  <2>4. ASSUME NEW g \in Live(edges), accepting(g.acc), ~is_white(g.src)'
        PROVE  \/ g \in Ahead(st_blue') \/ Along(st_blue', g)
               \/ g.src \in States(st_blue') /\ get_color(g.dst)' = "RED"
               \/ g.src \notin Reach(Live(edges), g.dst)
    <3>1. g \in edges /\ g.src \in State /\ g.dst \in State
      BY <1>0, EdgeFacts
    <3>2. ~is_white(g.src)
      BY <1>3, <1>5, <1>11, <2>4, <3>1
    <3>3. CASE g = e
      BY <1>0, <1>1, <1>5, <3>3
    <3>4. CASE g # e
      BY <1>1, <1>5, <1>11, <2>1, <2>4, <3>1, <3>2, <3>4 DEF First
    <3>5. QED
      BY <3>3, <3>4
  <2>5. QED
    BY <2>2, <2>3, <2>4 DEF First
<1>12. QED
  BY <1>0, <1>6, <1>7, <1>8, <1>9, <1>10, <1>11 DEF Safe

(* The front of a blue stack that is about to be popped.                   *)
LEMMA BlueBackFacts ==
  ASSUME Inv, pc = "blue", Done(st_blue)
  PROVE  LET f == Last(st_blue)
             p == pop(st_blue)
         IN  /\ TypeOK /\ edges \in SUBSET Edge /\ st_red = << >> /\ result # "null"
             /\ f.s \in State /\ f.label \in BOOLEAN /\ f.acc \in SUBSET Mark
             /\ f.s \in States(st_blue) /\ ~is_white(f.s) /\ States(st_blue) \subseteq State
             /\ IsStack(edges, p) /\ Distinct(p) /\ f.s \notin States(p)
             /\ States(st_blue) = States(p) \cup {f.s} /\ Ahead(p) = Ahead(st_blue)
             /\ Linked(edges, p) /\ (p # << >> => p[1].s = s0)
<1>1. /\ TypeOK /\ edges \in SUBSET Edge /\ st_red = << >> /\ st_blue # << >>
      /\ Last(st_blue).it = {} /\ IsStack(edges, st_blue) /\ Distinct(st_blue)
      /\ st_blue \in Seq(Item) /\ result # "null"
  BY DEF Inv, Phases, Done, TypeOK, IsStack
<1>2. /\ Last(st_blue) \in Item /\ Last(st_blue).s \in States(st_blue)
      /\ States(st_blue) \subseteq State
  BY <1>1, FrontFacts
<1>3. /\ IsStack(edges, pop(st_blue)) /\ Distinct(pop(st_blue))
      /\ Last(st_blue).s \notin States(pop(st_blue))
      /\ States(st_blue) = States(pop(st_blue)) \cup {Last(st_blue).s}
  BY <1>1, PopStack
<1>3a. Ahead(st_blue) = Ahead(pop(st_blue)) \cup Last(st_blue).it
  BY <1>1, PopStack
<1>3b. Ahead(pop(st_blue)) = Ahead(st_blue)
  BY <1>1, <1>3a
<1>4. Linked(edges, pop(st_blue)) /\ (pop(st_blue) # << >> => pop(st_blue)[1].s = s0)
  BY <1>1, PopLinked DEF Inv, Lasso
<1>5. ~is_white(Last(st_blue).s)
  BY <1>2 DEF Inv, Colored
<1>6. Last(st_blue).s \in State /\ Last(st_blue).label \in BOOLEAN /\ Last(st_blue).acc \in SUBSET Mark
  BY <1>2 DEF Item
<1>7. QED
  BY <1>1, <1>2, <1>3, <1>3b, <1>4, <1>5, <1>6

(* What starting a red dfs from s does, when none is running.              *)
LEMMA StartRedFacts ==
  ASSUME TypeOK, st_red = << >>, NEW s \in State, NEW label, label \in BOOLEAN,
         NEW acc \in SUBSET Mark, StartRed(s, label, acc)
  PROVE  /\ IsStack(edges, st_red') /\ st_red' # << >> /\ States(st_red') = {s}
         /\ Ahead(st_red') = succ_iter(edges, s)
         /\ Linked(edges, st_red') /\ st_red'[1].s = s /\ st_red'[1].acc = acc
         /\ hc' = hc \ {s} /\ hc' \in SUBSET State
         /\ color' \in [Slot -> {"WHITE", "BLUE", "RED"}]
         /\ get_color(s)' = "RED" /\ ~is_white(s)'
         /\ \A t \in State : ~is_white(t) => ~is_white(t)'
         /\ Safe => \A t \in State : t # s => /\ get_color(t)' = get_color(t)
                                              /\ is_white(t)' <=> is_white(t)
<1>1. /\ st_red' = push(st_red, edges, s, label, acc) /\ edges \in SUBSET Edge
      /\ st_red = << >> /\ s \in State /\ label \in BOOLEAN /\ acc \in SUBSET Mark
  BY DEF StartRed, TypeOK
<1>2. /\ IsStack(edges, st_red') /\ st_red' # << >> /\ States(st_red') = {s}
      /\ Ahead(st_red') = succ_iter(edges, s)
  BY ONLY <1>1, PushFirst
<1>3. Linked(edges, st_red') /\ st_red'[1].s = s /\ st_red'[1].acc = acc
  BY ONLY <1>1, FirstLinked
<1>4. /\ hc' = hc \ {s} /\ hc' \in SUBSET State
      /\ color' \in [Slot -> {"WHITE", "BLUE", "RED"}]
      /\ get_color(s)' = "RED" /\ ~is_white(s)'
      /\ \A t \in State : ~is_white(t) => ~is_white(t)'
      /\ Safe => \A t \in State : t # s => /\ get_color(t)' = get_color(t)
                                           /\ is_white(t)' <=> is_white(t)
  BY ColorFacts DEF StartRed
<1>5. QED
  BY <1>2, <1>3, <1>4

(* dfs_blue() starts a red dfs over the edge it backtracks.                *)
LEMMA BlueBackStartRedInv ==
  ASSUME Inv, BlueBackStartRed, NEW f, f = Last(st_blue)
  PROVE  Inv'
<1> USE DEF Inv, BlueBackStartRed, StartRed
<1>0. /\ TypeOK /\ edges \in SUBSET Edge /\ st_red = << >> /\ result # "null"
      /\ f.s \in State /\ f.label \in BOOLEAN /\ f.acc \in SUBSET Mark
      /\ f.s \in States(st_blue) /\ ~is_white(f.s) /\ States(st_blue) \subseteq State
      /\ IsStack(edges, st_blue') /\ Distinct(st_blue') /\ f.s \notin States(st_blue')
      /\ States(st_blue) = States(st_blue') \cup {f.s} /\ Ahead(st_blue') = Ahead(st_blue)
      /\ Linked(edges, st_blue') /\ (st_blue' # << >> => st_blue'[1].s = s0)
      /\ pc = "blue" /\ pc' = "red" /\ result' = result /\ st_blue \in Seq(Item) /\ st_blue # << >>
      /\ accepting(f.acc) /\ get_color(f.s) # "RED" /\ Len(st_blue) > 1
  BY BlueBackFacts DEF Starts, TypeOK, IsStack, Done
<1>1. st_blue' # << >> /\ Last(st_blue') = st_blue[Len(st_blue) - 1]
  BY <1>0, PopLinked
<1>3. Hop(Last(st_blue').s, f.acc, f.s) \in edges
  <2>1. Linked(edges, st_blue) /\ Len(st_blue) \in 2..Len(st_blue)
    BY <1>0 DEF Lasso
  <2>2. [src |-> st_blue[Len(st_blue) - 1].s, cond |-> TRUE, acc |-> st_blue[Len(st_blue)].acc,
         dst |-> st_blue[Len(st_blue)].s] \in edges
    BY <2>1 DEF Linked
  <2>3. QED
    BY <1>1, <2>2 DEF Hop, Last
<1>2. /\ IsStack(edges, st_red') /\ st_red' # << >> /\ States(st_red') = {f.s}
      /\ Ahead(st_red') = succ_iter(edges, f.s)
      /\ Linked(edges, st_red') /\ st_red'[1].s = f.s /\ st_red'[1].acc = f.acc
      /\ hc' = hc \ {f.s} /\ hc' \in SUBSET State
      /\ color' \in [Slot -> {"WHITE", "BLUE", "RED"}]
      /\ get_color(f.s)' = "RED" /\ ~is_white(f.s)'
      /\ \A t \in State : ~is_white(t) => ~is_white(t)'
      /\ Safe => \A t \in State : t # f.s => /\ get_color(t)' = get_color(t)
                                             /\ is_white(t)' <=> is_white(t)
  <2>1. StartRed(f.s, f.label, f.acc)
    BY DEF BlueBackStartRed
  <2> HIDE DEF StartRed
  <2>2. QED
    BY ONLY <1>0, <2>1, StartRedFacts
<1>2a. \A g : Along(st_blue, g) =>
        \/ Along(st_blue', g)
        \/ g.src = st_blue[Len(st_blue) - 1].s /\ g.dst = f.s
  BY <1>0, PopLinked
<1>6. TypeOK'
  BY <1>0, <1>2 DEF TypeOK
<1>7. Phases'
  BY <1>0, <1>2, TwaAssumption DEF Phases
<1>8. Colored'
  BY <1>0, <1>2 DEF Colored
<1>9. Lasso'
  BY <1>0, <1>1, <1>2, <1>3 DEF Lasso
<1>10. ASSUME Safe PROVE RedIsLeft' /\ Explored'
  <2>1. RedIsLeft'
    BY <1>0, <1>2 DEF RedIsLeft
  <2>2. \A g \in Live(edges) : is_white(g.src)' \/ ~is_white(g.dst)' \/ g \in Ahead(st_blue')
    BY <1>0, <1>2, <1>10, EdgeFacts DEF Explored
  <2>3. \A s \in State : get_color(s)' = "BLUE" => s \notin States(st_blue')
    BY <1>0, <1>2, <1>10 DEF Explored
  <2>4. \A s \in State : ~is_white(s)' => s \in Reach(Live(edges), s0)
    BY <1>0, <1>2, <1>10 DEF Explored
  <2>5. QED
    BY <2>1, <2>2, <2>3, <2>4 DEF Explored
<1>11. ASSUME Safe, result = "none" PROVE First'
  <2>1. First
    BY <1>11
  <2>2. \A s \in States(st_blue') : s \in hc'
    BY <1>0, <1>2, <2>1 DEF First
  <2>3. ASSUME NEW g \in Live(edges), get_color(g.src)' = "RED"
        PROVE  get_color(g.dst)' = "RED" \/ g \in Ahead(st_red')
    <3>1. g \in edges /\ g.src \in State /\ g.dst \in State
      BY <1>0, EdgeFacts
    <3>2. CASE g.src = f.s
      BY <1>2, <3>1, <3>2 DEF succ_iter
    <3>3. CASE g.src # f.s
      BY <1>0, <1>2, <1>11, <2>1, <2>3, <3>1, <3>3 DEF First
    <3>4. QED
      BY <3>2, <3>3
  <2>4. ASSUME NEW g \in Live(edges), accepting(g.acc), ~is_white(g.src)'
        PROVE  \/ g \in Ahead(st_blue') \/ Along(st_blue', g)
               \/ g.src \in States(st_blue') /\ get_color(g.dst)' = "RED"
               \/ g.src \notin Reach(Live(edges), g.dst)
    <3>1. g \in edges /\ g.src \in State /\ g.dst \in State
      BY <1>0, EdgeFacts
    <3>2. ~is_white(g.src)
      BY <1>0, <1>2, <1>11, <2>4, <3>1
    <3>3. CASE Along(st_blue, g)
      <4>1. \/ Along(st_blue', g)
            \/ g.src = st_blue[Len(st_blue) - 1].s /\ g.dst = f.s
        BY <1>2a, <3>3
      <4>2. Last(st_blue').s \in States(st_blue')
        BY <1>0, <1>1, FrontFacts
      <4>3. QED
        BY <1>1, <1>2, <4>1, <4>2
    <3>4. CASE g.src \in States(st_blue) /\ get_color(g.dst) = "RED"
      <4>1. g.src \notin Reach(Live(edges), g.dst)
        BY <1>0, <2>1, <3>4, RedClosed
      <4>2. QED
        BY <4>1
    <3>5. QED
      BY <1>0, <2>1, <2>4, <3>2, <3>3, <3>4 DEF First
  <2>5. QED
    BY <1>0, <2>2, <2>3, <2>4 DEF First
<1>12. QED
  BY <1>0, <1>6, <1>7, <1>8, <1>9, <1>10, <1>11 DEF Safe

(* dfs_blue() backtracks.                                                  *)
LEMMA BlueBackPopInv ==
  ASSUME Inv, BlueBackPop, NEW f, f = Last(st_blue)
  PROVE  Inv'
<1> USE DEF Inv, BlueBackPop
<1>0. /\ TypeOK /\ edges \in SUBSET Edge /\ st_red = << >> /\ result # "null"
      /\ f.s \in State /\ f.s \in States(st_blue) /\ ~is_white(f.s)
      /\ States(st_blue) \subseteq State
      /\ IsStack(edges, st_blue') /\ Distinct(st_blue') /\ f.s \notin States(st_blue')
      /\ States(st_blue) = States(st_blue') \cup {f.s} /\ Ahead(st_blue') = Ahead(st_blue)
      /\ Linked(edges, st_blue') /\ (st_blue' # << >> => st_blue'[1].s = s0)
      /\ pc = "blue" /\ st_blue \in Seq(Item) /\ st_blue # << >>
      /\ ~(Len(st_blue) > 1 /\ accepting(f.acc) /\ get_color(f.s) # "RED")
  BY BlueBackFacts DEF Starts, TypeOK, IsStack, Done
<1>5. /\ hc' = hc \ {f.s} /\ hc' \in SUBSET State
      /\ color' \in [Slot -> {"WHITE", "BLUE", "RED"}]
      /\ get_color(f.s)' = "BLUE" /\ ~is_white(f.s)'
      /\ \A t \in State : ~is_white(t) => ~is_white(t)'
      /\ Safe => \A t \in State : t # f.s => /\ get_color(t)' = get_color(t)
                                             /\ is_white(t)' <=> is_white(t)
  <2>1. set_color(f.s, "BLUE")
    OBVIOUS
  <2>2. QED
    BY <1>0, <2>1, ColorFacts
<1>6. TypeOK'
  BY <1>0, <1>5 DEF TypeOK
<1>7. Phases'
  BY <1>0, <1>5, TwaAssumption DEF Phases
<1>8. Colored'
  BY <1>0, <1>5, EmptyStack DEF Colored
<1>9. Lasso'
  BY <1>0 DEF Lasso
<1>10. ASSUME Safe PROVE RedIsLeft' /\ Explored'
  <2>1. RedIsLeft'
    BY <1>0 DEF RedIsLeft
  <2>2. \A g \in Live(edges) : is_white(g.src)' \/ ~is_white(g.dst)' \/ g \in Ahead(st_blue')
    BY <1>0, <1>5, <1>10, EdgeFacts DEF Explored
  <2>3. \A s \in State : get_color(s)' = "BLUE" => s \notin States(st_blue')
    BY <1>0, <1>5, <1>10 DEF Explored
  <2>4. \A s \in State : ~is_white(s)' => s \in Reach(Live(edges), s0)
    BY <1>0, <1>5, <1>10 DEF Explored
  <2>5. QED
    BY <2>1, <2>2, <2>3, <2>4 DEF Explored
<1>11. ASSUME Safe, result = "none" PROVE First'
  <2>1. First /\ get_color(f.s) = "CYAN"
    BY <1>0, <1>11 DEF First, get_color
  <2>2. \A s \in States(st_blue') : s \in hc'
    BY <1>0, <1>5, <2>1 DEF First
  <2>3. \A s \in State : get_color(s)' = "RED" <=> get_color(s) = "RED"
    BY <1>5, <1>11, <2>1
  <2>4. \A g \in Live(edges) : get_color(g.src)' = "RED" => get_color(g.dst)' = "RED"
    BY <1>0, <2>1, <2>3, EdgeFacts DEF First
  <2>5. ASSUME NEW g \in Live(edges), accepting(g.acc), ~is_white(g.src)'
        PROVE  \/ g \in Ahead(st_blue') \/ Along(st_blue', g)
               \/ g.src \in States(st_blue') /\ get_color(g.dst)' = "RED"
               \/ g.src \notin Reach(Live(edges), g.dst)
    <3>1. g \in edges /\ g.src \in State /\ g.dst \in State
      BY <1>0, EdgeFacts
    <3>2. ~is_white(g.src)
      BY <1>0, <1>5, <1>11, <2>5, <3>1
    <3>3. CASE Along(st_blue, g)
      <4>1. \/ Along(st_blue', g)
            \/ Len(st_blue) > 1 /\ g.acc = f.acc
        BY <1>0, <3>3, PopLinked
      <4>2. QED
        BY <1>0, <2>1, <2>5, <4>1
    <3>4. CASE g.src \in States(st_blue) /\ get_color(g.dst) = "RED"
      <4>1. g.src \notin Reach(Live(edges), g.dst)
        BY <1>0, <2>1, <3>4, RedClosed
      <4>2. QED
        BY <4>1
    <3>5. QED
      BY <1>0, <2>1, <2>5, <3>2, <3>3, <3>4 DEF First
  <2>6. QED
    BY <1>0, <2>2, <2>4, <2>5 DEF First
<1>12. QED
  BY <1>0, <1>6, <1>7, <1>8, <1>9, <1>10, <1>11 DEF Safe

-----------------------------------------------------------------------------
(* An edge that the red dfs is on.                                         *)
LEMMA RedEdgeFacts ==
  ASSUME Inv, NEW e, RedEdge(e)
  PROVE  /\ TypeOK /\ pc = "red" /\ st_red # << >> /\ e \in edges /\ edges \in SUBSET Edge
         /\ st_red \in Seq(Item) /\ IsStack(edges, st_red)
         /\ e.src = Last(st_red).s /\ e.src \in States(st_red)
         /\ e.src \in State /\ e.dst \in State /\ e.acc \in SUBSET Mark /\ e.cond \in BOOLEAN
         /\ e.cond => e \in Live(edges) /\ e.dst \in Reach(Live(edges), e.src)
         /\ States(st_red) \subseteq State /\ result # "null"
         /\ Safe /\ e.cond => ~is_white(e.dst)
<1>1. /\ TypeOK /\ pc = "red" /\ st_red # << >> /\ e \in Last(st_red).it
      /\ IsStack(edges, st_red) /\ edges \in SUBSET Edge /\ result # "null" /\ st_red \in Seq(Item)
  BY DEF Inv, Phases, RedEdge, IsOn, TypeOK, IsStack
<1>2. /\ e \in edges /\ e.src = Last(st_red).s /\ e.src \in States(st_red)
      /\ States(st_red) \subseteq State
  BY <1>1, FrontFacts
<1>3. /\ e.src \in State /\ e.dst \in State /\ e.acc \in SUBSET Mark /\ e.cond \in BOOLEAN
  BY <1>1, <1>2, EdgeFacts
<1>4. e.cond => e \in Live(edges) /\ e.dst \in Reach(Live(edges), e.src)
  BY <1>1, <1>2, EdgeFacts, ReachEdge
<1>5. ASSUME Safe, e.cond PROVE ~is_white(e.dst)
  <2>1. ~is_white(e.src) /\ e.src \notin States(st_blue)
    BY <1>1, <1>2, <1>5 DEF Inv, Colored, RedIsLeft
  <2>2. e \notin Ahead(st_blue)
    BY <1>1, <2>1, AheadFacts DEF TypeOK
  <2>3. QED
    BY <1>4, <1>5, <2>1, <2>2 DEF Inv, Explored
<1>6. QED
  BY <1>1, <1>2, <1>3, <1>4, <1>5

(* What next() on the red stack leaves as it was.                          *)
LEMMA RedNextFacts ==
  ASSUME Inv, NEW e, RedEdge(e), NEW n, n = next(st_red, e)
  PROVE  /\ IsStack(edges, n) /\ n # << >> /\ n \in Seq(Item)
         /\ States(n) = States(st_red) /\ Last(n).s = e.src
         /\ Ahead(st_red) \subseteq Ahead(n) \cup {e}
         /\ Linked(edges, n) /\ n[1].s = st_red[1].s /\ n[1].acc = st_red[1].acc
<1>1. st_red # << >> /\ IsStack(edges, st_red) /\ st_red \in Seq(Item) /\ e.src = Last(st_red).s
  BY RedEdgeFacts
<1>2. /\ IsStack(edges, n) /\ n # << >> /\ n \in Seq(Item)
      /\ States(n) = States(st_red) /\ Last(n).s = e.src
      /\ Ahead(st_red) \subseteq Ahead(n) \cup {e}
  BY <1>1, NextStack DEF IsStack
<1>3. Linked(edges, n) /\ n[1].s = st_red[1].s /\ n[1].acc = st_red[1].acc
  BY <1>1, NextLinked DEF Inv, Lasso
<1>4. QED
  BY <1>2, <1>3

(* dfs_red() passes over an edge, labelled by false or to a state that is  *)
(* white or red.                                                           *)
LEMMA RedIgnoreInv == ASSUME Inv, NEW e, RedIgnore(e) PROVE Inv'
<1> USE DEF Inv, RedIgnore
<1>0. /\ TypeOK /\ pc = "red" /\ st_red # << >> /\ e \in edges /\ result # "null"
      /\ Safe /\ e.cond => ~is_white(e.dst)
  BY RedEdgeFacts
<1>1. /\ IsStack(edges, st_red') /\ st_red' # << >>
      /\ States(st_red') = States(st_red)
      /\ Ahead(st_red) \subseteq Ahead(st_red') \cup {e}
      /\ Linked(edges, st_red') /\ st_red'[1].s = st_red[1].s /\ st_red'[1].acc = st_red[1].acc
  BY RedNextFacts
<1>2. \A s : get_color(s)' = get_color(s) /\ (is_white(s)' <=> is_white(s))
  BY DEF get_color, is_white
<1>3. TypeOK'
  BY <1>1 DEF TypeOK
<1>4. Phases' /\ Colored'
  BY <1>0, <1>1, <1>2 DEF Phases, Colored
<1>5. Lasso'
  BY <1>0, <1>1 DEF Lasso
<1>6. ASSUME Safe PROVE RedIsLeft' /\ Explored'
  BY <1>0, <1>1, <1>2, <1>6 DEF RedIsLeft, Explored
<1>7. ASSUME Safe, result = "none" PROVE First'
  <2>1. First
    BY <1>7
  <2>2. e \in Live(edges) => get_color(e.dst) = "RED"
    BY <1>0, <1>7 DEF Live, is_white
  <2>3. QED
    BY <1>0, <1>1, <1>2, <2>1, <2>2 DEF First
<1>8. QED
  BY <1>3, <1>4, <1>5, <1>6, <1>7 DEF Safe

(* The red stack after dfs_red() has gone over e to a state it has not     *)
(* visited.                                                                *)
LEMMA RedPushFacts ==
  ASSUME Inv, NEW e, RedEdge(e), e \in Live(edges), NEW label, label \in BOOLEAN, NEW p,
         p = push(next(st_red, e), edges, e.dst, label, e.acc)
  PROVE  /\ IsStack(edges, p) /\ p # << >> /\ States(p) = States(st_red) \cup {e.dst}
         /\ Ahead(st_red) \subseteq Ahead(p) \cup {e} /\ succ_iter(edges, e.dst) \subseteq Ahead(p)
         /\ Linked(edges, p) /\ p[1].s = st_red[1].s /\ p[1].acc = st_red[1].acc
         /\ Last(p).s = e.dst /\ States(pop(p)) = States(st_red) /\ pop(p) # << >>
<1>0. /\ TypeOK /\ edges \in SUBSET Edge /\ e \in edges /\ e.dst \in State /\ e.acc \in SUBSET Mark
      /\ label \in BOOLEAN /\ e \in Live(edges) /\ e.dst \in Reach(Live(edges), e.src)
  BY RedEdgeFacts DEF Live
<1> DEFINE n == next(st_red, e)
<1>1. /\ IsStack(edges, n) /\ n # << >> /\ n \in Seq(Item)
      /\ States(n) = States(st_red) /\ Last(n).s = e.src
      /\ Ahead(st_red) \subseteq Ahead(n) \cup {e}
      /\ Linked(edges, n) /\ n[1].s = st_red[1].s /\ n[1].acc = st_red[1].acc
  BY RedNextFacts
<1> HIDE DEF n
<1>2. p = push(n, edges, e.dst, label, e.acc)
  BY DEF n
<1>3. /\ IsStack(edges, p) /\ p # << >> /\ States(p) = States(n) \cup {e.dst}
      /\ Ahead(p) = Ahead(n) \cup succ_iter(edges, e.dst)
  BY ONLY <1>0, <1>1, <1>2, PushStack
<1>4. p[1] = n[1]
  BY ONLY <1>0, <1>1, <1>2, PushBottom
<1>5. Last(p).s = e.dst
  BY ONLY <1>0, <1>1, <1>2, PushTop
<1>6. pop(p) = n
  BY ONLY <1>0, <1>1, <1>2, PopPush
<1>7. Hop(Last(n).s, e.acc, e.dst) \in edges
  BY <1>0, <1>1, EdgeFacts
<1>8. Linked(edges, p)
  BY ONLY <1>0, <1>1, <1>2, <1>7, PushLinked
<1>9. QED
  BY <1>1, <1>3, <1>4, <1>5, <1>6, <1>8

(* dfs_red() meets a cyan state.                                           *)
LEMMA RedReportInv == ASSUME Inv, NEW e, RedReport(e) PROVE Inv'
<1> USE DEF Inv, RedReport, Return
<1>0. /\ TypeOK /\ pc = "red" /\ st_red # << >> /\ e \in edges /\ e.dst \in State /\ result # "null"
      /\ e.cond
  BY RedEdgeFacts
<1>0a. e.cond \in BOOLEAN /\ st_red' = push(next(st_red, e), edges, e.dst, e.cond, e.acc)
  BY RedEdgeFacts
<1>1. /\ IsStack(edges, st_red') /\ st_red' # << >> /\ States(st_red') = States(st_red) \cup {e.dst}
      /\ Linked(edges, st_red') /\ st_red'[1].s = st_red[1].s /\ st_red'[1].acc = st_red[1].acc
      /\ Last(st_red').s = e.dst /\ States(pop(st_red')) = States(st_red)
  <2>1. Inv /\ RedEdge(e) /\ e \in Live(edges)
    BY <1>0 DEF Live
  <2>2. PICK label \in BOOLEAN : st_red' = push(next(st_red, e), edges, e.dst, label, e.acc)
    BY <1>0a
  <2>3. QED
    BY ONLY <2>1, <2>2, RedPushFacts
<1>2. /\ hc' = hc \ {e.dst} /\ hc' \in SUBSET State
      /\ color' \in [Slot -> {"WHITE", "BLUE", "RED"}]
      /\ get_color(e.dst)' = "RED" /\ ~is_white(e.dst)'
      /\ \A t \in State : ~is_white(t) => ~is_white(t)'
      /\ Safe => \A t \in State : t # e.dst => /\ get_color(t)' = get_color(t)
                                               /\ is_white(t)' <=> is_white(t)
  BY <1>0, ColorFacts
<1>2a. e.dst \in States(st_blue) /\ ~is_white(e.dst) /\ get_color(e.dst) = "CYAN"
  <2>1. get_color(e.dst) = "CYAN"
    OBVIOUS
  <2>2. e.dst \in hc
    BY <1>0, <2>1 DEF get_color, TypeOK
  <2>3. QED
    BY <2>1, <2>2 DEF Colored, is_white
<1>3. TypeOK'
  BY <1>1, <1>2 DEF TypeOK
<1>4. Phases'
  BY <1>0, <1>2, TwaAssumption DEF Phases
<1>5. Colored'
  <2>1. States(st_red) \subseteq State /\ States(st_blue) \subseteq State
    BY <1>0, FrontFacts, EmptyStack DEF TypeOK
  <2>2. QED
    BY <1>0, <1>1, <1>2, <2>1 DEF Colored
<1>6. Lasso'
  BY <1>0, <1>1, <1>2a DEF Lasso
<1>7. ASSUME Safe PROVE RedIsLeft' /\ Explored'
  <2>1. RedIsLeft'
    BY <1>0, <1>1, <1>7 DEF RedIsLeft
  <2>2. \A g \in Live(edges) : is_white(g.src)' \/ ~is_white(g.dst)' \/ g \in Ahead(st_blue)
    BY <1>0, <1>2, <1>2a, <1>7, EdgeFacts DEF Explored
  <2>3. \A s \in State : get_color(s)' = "BLUE" => s \notin States(st_blue)
    BY <1>2, <1>7 DEF Explored
  <2>4. \A s \in State : ~is_white(s)' => s \in Reach(Live(edges), s0)
    BY <1>2, <1>2a, <1>7 DEF Explored
  <2>5. QED
    BY <2>1, <2>2, <2>3, <2>4 DEF Explored
<1>8. QED
  BY <1>3, <1>4, <1>5, <1>6, <1>7 DEF Safe

(* dfs_red() goes down an edge to a blue state.                            *)
LEMMA RedDownInv == ASSUME Inv, NEW e, RedDown(e) PROVE Inv'
<1> USE DEF Inv, RedDown
<1>0. /\ TypeOK /\ pc = "red" /\ st_red # << >> /\ e \in edges /\ e.dst \in State /\ result # "null"
      /\ e.cond
  BY RedEdgeFacts
<1>0a. e.cond \in BOOLEAN /\ st_red' = push(next(st_red, e), edges, e.dst, e.cond, e.acc)
  BY RedEdgeFacts
<1>1. /\ IsStack(edges, st_red') /\ st_red' # << >> /\ States(st_red') = States(st_red) \cup {e.dst}
      /\ Ahead(st_red) \subseteq Ahead(st_red') \cup {e} /\ succ_iter(edges, e.dst) \subseteq Ahead(st_red')
      /\ Linked(edges, st_red') /\ st_red'[1].s = st_red[1].s /\ st_red'[1].acc = st_red[1].acc
  <2>1. Inv /\ RedEdge(e) /\ e \in Live(edges)
    BY <1>0 DEF Live
  <2>2. PICK label \in BOOLEAN : st_red' = push(next(st_red, e), edges, e.dst, label, e.acc)
    BY <1>0a
  <2>3. QED
    BY ONLY <2>1, <2>2, RedPushFacts
<1>2. /\ hc' = hc \ {e.dst} /\ hc' \in SUBSET State
      /\ color' \in [Slot -> {"WHITE", "BLUE", "RED"}]
      /\ get_color(e.dst)' = "RED" /\ ~is_white(e.dst)'
      /\ \A t \in State : ~is_white(t) => ~is_white(t)'
      /\ Safe => \A t \in State : t # e.dst => /\ get_color(t)' = get_color(t)
                                               /\ is_white(t)' <=> is_white(t)
  BY <1>0, ColorFacts
<1>2a. ~is_white(e.dst) /\ get_color(e.dst) = "BLUE" /\ e.dst \notin hc
  BY DEF get_color, is_white
<1>2b. States(st_red) \subseteq State /\ States(st_blue) \subseteq State
  BY <1>0, FrontFacts, EmptyStack DEF TypeOK
<1>3. TypeOK'
  BY <1>1, <1>2 DEF TypeOK
<1>4. Phases'
  BY <1>0, <1>2, TwaAssumption DEF Phases
<1>5. Colored'
  BY <1>0, <1>1, <1>2, <1>2b DEF Colored
<1>6. Lasso'
  BY <1>0, <1>1 DEF Lasso
<1>7. ASSUME Safe PROVE RedIsLeft' /\ Explored'
  <2>1. RedIsLeft'
    BY <1>0, <1>1, <1>2a, <1>7 DEF RedIsLeft, Explored
  <2>2. \A g \in Live(edges) : is_white(g.src)' \/ ~is_white(g.dst)' \/ g \in Ahead(st_blue)
    BY <1>0, <1>2, <1>2a, <1>7, EdgeFacts DEF Explored
  <2>3. \A s \in State : get_color(s)' = "BLUE" => s \notin States(st_blue)
    BY <1>2, <1>7 DEF Explored
  <2>4. \A s \in State : ~is_white(s)' => s \in Reach(Live(edges), s0)
    BY <1>2, <1>2a, <1>7 DEF Explored
  <2>5. QED
    BY <2>1, <2>2, <2>3, <2>4 DEF Explored
<1>8. ASSUME Safe, result = "none" PROVE First'
  <2>1. First
    BY <1>8
  <2>2. \A s \in States(st_blue) : s \in hc'
    BY <1>2, <1>2a, <2>1 DEF First
  <2>3. ASSUME NEW g \in Live(edges), get_color(g.src)' = "RED"
        PROVE  get_color(g.dst)' = "RED" \/ g \in Ahead(st_red')
    <3>1. g \in edges /\ g.src \in State /\ g.dst \in State
      BY <1>0, EdgeFacts
    <3>2. CASE g.src = e.dst
      BY <1>1, <3>1, <3>2 DEF succ_iter
    <3>3. CASE g.src # e.dst
      <4>1. get_color(g.dst) = "RED" \/ g \in Ahead(st_red)
        BY <1>2, <1>8, <2>1, <2>3, <3>1, <3>3 DEF First
      <4>2. QED
        BY <1>1, <1>2, <1>8, <3>1, <4>1
    <3>4. QED
      BY <3>2, <3>3
  <2>4. \A s \in State : is_white(s)' <=> is_white(s)
    BY <1>2, <1>2a, <1>8
  <2>5. \A s \in State : get_color(s) = "RED" => get_color(s)' = "RED"
    BY <1>2, <1>8
  <2>6. QED
    BY <1>0, <2>1, <2>2, <2>3, <2>4, <2>5, EdgeFacts DEF First
<1>9. QED
  BY <1>3, <1>4, <1>5, <1>6, <1>7, <1>8 DEF Safe

(* dfs_red() backtracks.                                                   *)
LEMMA RedPopInv == ASSUME Inv, RedPop PROVE Inv'
<1> USE DEF Inv, RedPop
<1>0. /\ TypeOK /\ pc = "red" /\ st_red # << >> /\ IsStack(edges, st_red) /\ st_red \in Seq(Item)
      /\ Last(st_red).it = {}
  BY DEF TypeOK, IsStack, Done
<1>1. IsStack(edges, st_red') /\ States(st_red') \subseteq States(st_red)
  BY <1>0, PopStack
<1>1a. Ahead(st_red) = Ahead(st_red') \cup Last(st_red).it
  BY <1>0, PopStack
<1>1b. Ahead(st_red') = Ahead(st_red)
  BY <1>0, <1>1a
<1>2. /\ Linked(edges, st_red) => Linked(edges, st_red')
      /\ st_red' # << >> => st_red'[1] = st_red[1]
  BY <1>0, PopLinked
<1>3. \A s : get_color(s)' = get_color(s) /\ (is_white(s)' <=> is_white(s))
  BY DEF get_color, is_white
<1>4. TypeOK'
  BY <1>1 DEF TypeOK
<1>5. Phases' /\ Colored'
  BY <1>0, <1>1, <1>3 DEF Phases, Colored
<1>6. Lasso'
  BY <1>0, <1>2 DEF Lasso
<1>7. Safe => RedIsLeft' /\ Explored'
  BY <1>0, <1>1, <1>3 DEF RedIsLeft, Explored
<1>8. Safe /\ result = "none" => First'
  BY <1>0, <1>1b, <1>3 DEF First
<1>9. QED
  BY <1>4, <1>5, <1>6, <1>7, <1>8 DEF Safe

(* The steps that change no stack.                                         *)
LEMMA ReturnInv ==
  ASSUME Inv, RedReturn \/ BlueReturn \/ UNCHANGED vars
  PROVE  Inv'
<1> USE DEF Inv
<1>0. UNCHANGED <<edges, hc, color, st_blue, st_red>>
  BY DEF RedReturn, BlueReturn, vars
<1>1. \A s : get_color(s)' = get_color(s) /\ (is_white(s)' <=> is_white(s))
  BY <1>0 DEF get_color, is_white
<1>2. CASE UNCHANGED vars
  BY <1>2 DEF vars, TypeOK, Phases, Colored, Lasso, RedIsLeft, Explored, First, Safe, get_color, is_white
<1>3. CASE RedReturn
  <2> USE <1>3 DEF RedReturn
  <2>1. TypeOK' /\ Phases' /\ Colored' /\ Lasso'
    BY <1>1 DEF TypeOK, Phases, Colored, Lasso
  <2>2. Safe => RedIsLeft' /\ Explored'
    BY <1>1 DEF RedIsLeft, Explored
  <2>3. Safe /\ result = "none" => First'
    BY <1>1, EmptyStack DEF First
  <2>4. QED
    BY <2>1, <2>2, <2>3 DEF Safe
<1>4. CASE BlueReturn
  <2> USE <1>4 DEF BlueReturn, Return
  <2>1. TypeOK' /\ Phases' /\ Colored' /\ Lasso'
    BY <1>1 DEF TypeOK, Phases, Colored, Lasso
  <2>2. Safe => RedIsLeft' /\ Explored'
    BY <1>1 DEF RedIsLeft, Explored
  <2>4. QED
    BY <2>1, <2>2 DEF Safe
<1>5. QED
  BY <1>2, <1>3, <1>4

(* Every step keeps the invariant.                                         *)
LEMMA NextInv == ASSUME Inv, [Next]_vars PROVE Inv'
<1>1. ASSUME NEW e \in edges, BlueSkip(e) PROVE Inv'
  BY <1>1, BluePassInv DEF BlueSkip
<1>2. ASSUME NEW e \in edges, BlueIgnore(e) PROVE Inv'
  BY <1>2, BluePassInv DEF BlueIgnore, Starts
<1>3. CASE dfs_blue
  BY <1>1, <1>2, <1>3, BlueDownInv, BlueReportInv, BlueStartRedInv, BlueBackStartRedInv,
     BlueBackPopInv, ReturnInv DEF dfs_blue
<1>4. CASE dfs_red
  BY <1>4, RedIgnoreInv, RedReportInv, RedDownInv, RedPopInv, ReturnInv DEF dfs_red
<1>5. CASE Finished \/ UNCHANGED vars
  BY <1>5, ReturnInv DEF Finished
<1>6. QED
  BY <1>3, <1>4, <1>5, CheckInv, CheckAgainInv DEF Next

-----------------------------------------------------------------------------
(* What keeps the red dfs from a false alarm.                              *)
LEMMA InvCyan == ASSUME Inv PROVE CyanIsOnBlueStack
<1>1. DOMAIN st_blue = 1..Len(st_blue)
  BY StackFacts DEF Inv, TypeOK, IsStack
<1>2. QED
  BY <1>1 DEF Inv, Colored, CyanIsOnBlueStack, States

(* The red dfs meets no white state.                                       *)
LEMMA InvWhite == ASSUME Inv PROVE RedNeverSeesWhite
<1> SUFFICES ASSUME Safe, pc = "red", NEW e \in Live(edges), IsOn(st_red, e)
             PROVE  ~is_white(e.dst)
  BY DEF RedNeverSeesWhite
<1>1. RedEdge(e) /\ e.cond
  BY DEF RedEdge, Live
<1>2. QED
  BY <1>1, RedEdgeFacts

(* Where a reported cycle leaves the blue stack and comes back to it.      *)
LEMMA LassoFacts ==
  ASSUME Inv, pc = "idle", result = "run"
  PROVE  /\ TypeOK /\ edges \in SUBSET Edge /\ Live(edges) \in SUBSET Edge
         /\ st_blue \in Seq(Item) /\ st_red \in Seq(Item)
         /\ Len(st_blue) \in Nat \ {0} /\ Len(st_red) \in Nat \ {0}
         /\ Last(st_blue) = st_blue[Len(st_blue)] /\ Last(st_red) = st_red[Len(st_red)]
         /\ \A i \in 1..Len(st_blue) : st_blue[i] \in Item /\ st_blue[i].s \in State
         /\ \A i \in 1..Len(st_red) : st_red[i] \in Item /\ st_red[i].s \in State
         /\ \A i, j \in 1..Len(st_blue) :
              i <= j => st_blue[j].s \in Reach(Live(edges), st_blue[i].s)
         /\ \A i, j \in 1..Len(st_red) :
              i <= j => st_red[j].s \in Reach(Live(edges), st_red[i].s)
         /\ st_red[1].s \in Reach(Live(edges), Last(st_blue).s)
         /\ \E k \in 1..Len(st_blue) : st_blue[k].s = Last(st_red).s
<1>1. /\ TypeOK /\ edges \in SUBSET Edge /\ st_blue \in Seq(Item) /\ st_red \in Seq(Item)
      /\ st_blue # << >> /\ st_red # << >> /\ Last(st_red).s \in States(st_blue)
      /\ Hop(Last(st_blue).s, st_red[1].acc, st_red[1].s) \in edges
      /\ Path(edges, st_blue) /\ Path(edges, st_red)
  BY DEF Inv, Lasso, TypeOK, IsStack
<1>2. Live(edges) \in SUBSET Edge
  BY <1>1, EdgeFacts
<1>3. /\ Len(st_blue) \in Nat \ {0} /\ Len(st_red) \in Nat \ {0}
      /\ Last(st_blue) = st_blue[Len(st_blue)] /\ Last(st_red) = st_red[Len(st_red)]
      /\ \A i \in 1..Len(st_blue) : st_blue[i] \in Item
      /\ \A i \in 1..Len(st_red) : st_red[i] \in Item
  BY <1>1, StackFacts
<1>4. /\ \A i \in 1..Len(st_blue) : st_blue[i].s \in State
      /\ \A i \in 1..Len(st_red) : st_red[i].s \in State
  BY <1>3 DEF Item
<1>5. \E k \in 1..Len(st_blue) : st_blue[k].s = Last(st_red).s
  BY <1>1 DEF States
<1>6. st_red[1].s \in Reach(Live(edges), Last(st_blue).s)
  <2> DEFINE e == Hop(Last(st_blue).s, st_red[1].acc, st_red[1].s)
  <2>1. e \in Live(edges) /\ e.src = Last(st_blue).s /\ e.dst = st_red[1].s
    BY <1>1 DEF Hop, Live
  <2> HIDE DEF e
  <2>2. QED
    BY <1>2, <2>1, ReachEdge
<1>7. QED
  BY <1>1, <1>2, <1>3, <1>4, <1>5, <1>6 DEF Path

(* The cycle that a result stands for has an accepting edge, that can be   *)
(* reached.                                                                *)
LEMMA ReportedIsNonEmpty == Inv /\ pc = "idle" /\ result = "run" => NonEmpty(edges)
<1> SUFFICES ASSUME Inv, pc = "idle", result = "run"
             PROVE  NonEmpty(edges)
  OBVIOUS
<1> DEFINE L == Live(edges)
<1>1. /\ TypeOK /\ edges \in SUBSET Edge /\ L \in SUBSET Edge
      /\ Len(st_blue) \in Nat \ {0} /\ Len(st_red) \in Nat \ {0}
      /\ Last(st_blue) = st_blue[Len(st_blue)] /\ Last(st_red) = st_red[Len(st_red)]
      /\ \A i \in 1..Len(st_blue) : st_blue[i].s \in State
      /\ \A i \in 1..Len(st_red) : st_red[i].s \in State
      /\ \A i, j \in 1..Len(st_blue) : i <= j => st_blue[j].s \in Reach(L, st_blue[i].s)
      /\ \A i, j \in 1..Len(st_red) : i <= j => st_red[j].s \in Reach(L, st_red[i].s)
      /\ st_red[1].s \in Reach(L, Last(st_blue).s)
  BY LassoFacts
<1>2. PICK k \in 1..Len(st_blue) : st_blue[k].s = Last(st_red).s
  BY LassoFacts
<1>3. \A e \in edges : e.cond => e \in L
  BY DEF Live
<1> HIDE DEF L
<1>4. \A x, y, z \in State : y \in Reach(L, x) /\ z \in Reach(L, y) => z \in Reach(L, x)
  BY <1>1, ReachTrans
<1>5. /\ 1 \in 1..Len(st_blue) /\ Len(st_blue) \in 1..Len(st_blue)
      /\ 1 \in 1..Len(st_red) /\ Len(st_red) \in 1..Len(st_red)
  BY <1>1
<1>6. Last(st_red).s \in Reach(L, st_red[1].s) /\ Last(st_blue).s \in Reach(L, Last(st_red).s)
  BY <1>1, <1>2, <1>5
<1>7. st_blue[1].s = s0 /\ Last(st_blue).s \in State /\ Last(st_red).s \in State /\ st_red[1].s \in State
  BY <1>1, <1>5 DEF Inv, Lasso
<1>8. SUFFICES \E e \in L : accepting(e.acc) /\ e.src \in Reach(L, s0) /\ e.src \in Reach(L, e.dst)
  BY <1>1, TwaAssumption, AcceptingEdge DEF TypeOK, L
<1>9. CASE accepting(st_red[1].acc)
  <2> DEFINE e == Hop(Last(st_blue).s, st_red[1].acc, st_red[1].s)
  <2>1. e.src = Last(st_blue).s /\ e.dst = st_red[1].s /\ e.acc = st_red[1].acc /\ e \in L
    <3>1. e \in edges
      BY DEF Inv, Lasso
    <3>2. QED
      BY <1>3, <3>1 DEF Hop
  <2> HIDE DEF e
  <2>2. e.src \in Reach(L, s0)
    BY <1>1, <1>5, <1>7, <2>1
  <2>3. e.src \in Reach(L, e.dst)
    BY <1>4, <1>6, <1>7, <2>1
  <2>4. QED
    BY <1>9, <2>1, <2>2, <2>3
<1>10. CASE accepting(Last(st_blue).acc) /\ Last(st_blue).s # Last(st_red).s
  <2> DEFINE n == Len(st_blue)
             e == Hop(st_blue[n - 1].s, Last(st_blue).acc, Last(st_blue).s)
  <2>1. k # n /\ n \in 2..n /\ n - 1 \in 1..n /\ k <= n - 1
    BY <1>1, <1>2, <1>10
  <2>2. e.src = st_blue[n - 1].s /\ e.dst = Last(st_blue).s /\ e.acc = Last(st_blue).acc /\ e \in L
    <3>1. e \in edges
      BY <1>1, <2>1 DEF Inv, Lasso, Linked, Hop
    <3>2. QED
      BY <1>3, <3>1 DEF Hop
  <2> HIDE DEF n, e
  <2>3. e.src \in Reach(L, s0)
    BY <1>1, <1>5, <1>7, <2>1, <2>2 DEF n
  <2>4. e.src \in Reach(L, st_blue[k].s) /\ e.src \in State
    BY <1>1, <2>1, <2>2 DEF n
  <2>5. Last(st_red).s \in Reach(L, Last(st_blue).s)
    BY <1>1, <1>4, <1>6, <1>7
  <2>6. e.src \in Reach(L, e.dst)
    BY <1>2, <1>4, <1>7, <2>2, <2>4, <2>5
  <2>7. QED
    BY <1>10, <2>2, <2>3, <2>6
<1>11. QED
  BY <1>9, <1>10 DEF Inv, Lasso

(* The lasso on the stacks is accepting.                                   *)
LEMMA InvRun == ASSUME Inv PROVE RunIsAccepting
<1> SUFFICES ASSUME pc = "idle", result = "run" PROVE RunOnStacks
  BY DEF RunIsAccepting
<1> DEFINE L == Live(edges)
           n == Len(st_blue)
           m == Len(st_red)
           c == <<Last(st_blue)>> \o st_red
<1>1. /\ TypeOK /\ edges \in SUBSET Edge /\ L \in SUBSET Edge
      /\ st_blue \in Seq(Item) /\ st_red \in Seq(Item)
      /\ n \in Nat \ {0} /\ m \in Nat \ {0}
      /\ Last(st_blue) = st_blue[n] /\ Last(st_red) = st_red[m]
      /\ \A i \in 1..n : st_blue[i] \in Item /\ st_blue[i].s \in State
      /\ \A i \in 1..m : st_red[i] \in Item /\ st_red[i].s \in State
      /\ \A i, j \in 1..n : i <= j => st_blue[j].s \in Reach(L, st_blue[i].s)
      /\ \A i, j \in 1..m : i <= j => st_red[j].s \in Reach(L, st_red[i].s)
      /\ st_red[1].s \in Reach(L, Last(st_blue).s)
  BY LassoFacts
<1>2. PICK k \in 1..n : st_blue[k].s = Last(st_red).s
  BY LassoFacts
<1>3. /\ st_blue # << >> /\ st_red # << >> /\ st_blue[1].s = s0
      /\ Linked(edges, st_blue) /\ Linked(edges, st_red) /\ Distinct(st_blue)
      /\ Hop(st_blue[n].s, st_red[1].acc, st_red[1].s) \in edges
      /\ accepting(st_red[1].acc) \/ (accepting(st_blue[n].acc) /\ st_blue[n].s # Last(st_red).s)
      /\ DOMAIN st_red = 1..m
  BY <1>1, StackFacts DEF Inv, Lasso, TypeOK
<1>4. \A e \in edges : e.cond => e \in L
  BY DEF Live
<1>4a. n \in Nat \ {0} /\ m \in Nat \ {0}
  BY <1>1
<1> HIDE DEF L, n, m, c
<1>5. /\ Len(c) = m + 1 /\ c[1] = st_blue[n] /\ \A i \in 1..m : c[i + 1] = st_red[i]
  <2>1. <<Last(st_blue)>> \in Seq(Item) /\ Len(<<Last(st_blue)>>) = 1 /\ <<Last(st_blue)>>[1] = Last(st_blue)
    BY <1>1
  <2>2. QED
    BY <1>1, <2>1, ConcatProperties DEF c, m
<1>5a. Len(c) = m + 1
  BY <1>5
<1>6. \A i \in 2..Len(c) : Hop(c[i - 1].s, c[i].acc, c[i].s) \in edges
  <2> SUFFICES ASSUME NEW i \in 2..Len(c) PROVE Hop(c[i - 1].s, c[i].acc, c[i].s) \in edges
    OBVIOUS
  <2>1. CASE i = 2
    <3>1. c[i - 1] = st_blue[n] /\ c[i] = st_red[1]
      BY <1>1, <1>5, <2>1
    <3>2. QED
      BY <1>3, <3>1
  <2>2. CASE i # 2
    <3>1. i - 1 \in 2..m /\ i - 2 \in 1..m /\ i - 1 \in 1..m
      BY SMTT(30), <1>1, <1>5, <2>2
    <3>2. c[i - 1] = st_red[(i - 1) - 1] /\ c[i] = st_red[i - 1]
      <4>1. (i - 2) + 1 = i - 1 /\ (i - 1) + 1 = i /\ (i - 1) - 1 = i - 2
        BY <3>1
      <4>2. QED
        BY <1>5, <3>1, <4>1
    <3>3. QED
      BY <1>3, <3>1, <3>2 DEF Linked, Hop, m
  <2>3. QED
    BY <2>1, <2>2
<1>7. Linked(edges, c)
  BY <1>6 DEF Linked, Hop
<1>8. LET I == {i \in 1..Len(st_blue) : st_blue[i].s = Last(st_red).s}
      IN  (IF I # {} THEN Min(I) ELSE 0) = k
  <2>1. {i \in 1..Len(st_blue) : st_blue[i].s = Last(st_red).s} = {k}
    BY <1>1, <1>2, <1>3 DEF Distinct, n
  <2>2. Min({k}) = k
    BY DEF Min
  <2>3. QED
    BY <2>1, <2>2
<1> DEFINE B == {Hop(st_blue[i - 1].s, st_blue[i].acc, st_blue[i].s) : i \in (k + 1)..n}
           R == {Hop(c[i - 1].s, c[i].acc, c[i].s) : i \in 2..Len(c)}
           x == st_blue[n].s
           y == st_blue[k].s
<1>9. x \in State /\ y \in State /\ x \in Reach(L, y) /\ y \in Reach(L, x)
  <2>1. x \in State /\ y \in State /\ x \in Reach(L, y) /\ st_red[1].s \in State
    BY <1>1, <1>2
  <2>2. y \in Reach(L, st_red[1].s)
    BY <1>1, <1>2
  <2>3. QED
    BY <1>1, <2>1, <2>2, ReachTrans
<1>10. ASSUME NEW f \in B
       PROVE  f \in L /\ f.src \in Reach(L, y) /\ x \in Reach(L, f.dst)
  <2>1. PICK i \in (k + 1)..n : f = Hop(st_blue[i - 1].s, st_blue[i].acc, st_blue[i].s)
    BY <1>10
  <2>2. i \in 2..n /\ i - 1 \in 1..n /\ k <= i - 1 /\ i \in 1..n
    BY <1>4a
  <2>3. f.src = st_blue[i - 1].s /\ f.dst = st_blue[i].s /\ f.cond /\ f \in edges
    BY <1>3, <2>1, <2>2 DEF Hop, Linked, n
  <2>4. QED
    BY <1>1, <1>4, <2>2, <2>3
<1>11. ASSUME NEW f \in R
       PROVE  f \in L /\ f.src \in Reach(L, x) /\ y \in Reach(L, f.dst)
  <2>1. PICK i \in 2..Len(c) : f = Hop(c[i - 1].s, c[i].acc, c[i].s)
    BY <1>11
  <2>2. f.src = c[i - 1].s /\ f.dst = c[i].s /\ f.cond /\ f \in edges
    BY <1>6, <2>1 DEF Hop
  <2>3. \A j \in 1..m : st_red[j].s \in Reach(L, x)
    <3>1. \A j \in 1..m : st_red[j].s \in Reach(L, st_red[1].s)
      BY <1>1
    <3>2. QED
      BY <1>1, <1>9, <3>1, ReachTrans
  <2>4. \A j \in 1..Len(c) : c[j].s \in Reach(L, x)
    <3> SUFFICES ASSUME NEW j \in 1..Len(c) PROVE c[j].s \in Reach(L, x)
      OBVIOUS
    <3>1. CASE j = 1
      BY <1>1, <1>5, <1>9, <3>1, ReachFacts
    <3>2. CASE j # 1
      <4>1. j - 1 \in 1..m /\ (j - 1) + 1 = j
        BY <1>1, <1>5, <3>2
      <4>2. QED
        BY <1>5, <2>3, <4>1
    <3>3. QED
      BY <3>1, <3>2
  <2>5. y \in Reach(L, f.dst)
    <3>1. i - 1 \in 1..m /\ (i - 1) + 1 = i
      BY <1>4a, <1>5a
    <3>2. f.dst = st_red[i - 1].s
      BY <1>5, <2>2, <3>1
    <3>3. QED
      BY <1>1, <1>2, <3>1, <3>2
  <2>6. i - 1 \in 1..Len(c)
    BY SMTT(30), <1>1, <1>5, <2>1
  <2>7. QED
    BY <1>4, <2>2, <2>4, <2>5, <2>6
<1>12. \A f \in B \cup R : /\ f \in L /\ f.src \in Reach(L, x) /\ x \in Reach(L, f.dst)
  <2>1. \A s, t, u \in State : t \in Reach(L, s) /\ u \in Reach(L, t) => u \in Reach(L, s)
    BY <1>1, ReachTrans
  <2>2. \A f \in L : f.src \in State /\ f.dst \in State
    BY <1>1, ReachEdge
  <2> HIDE DEF B, R, x, y
  <2>3. QED
    BY <1>9, <1>10, <1>11, <2>1, <2>2
<1>13. \A e, f \in B \cup R : e.src \in Reach(L, f.dst)
  <2>1. \A f \in L : f.src \in State /\ f.dst \in State
    BY <1>1, ReachEdge
  <2> HIDE DEF B, R, x, y
  <2>2. QED
    BY <1>1, <1>9, <1>12, <2>1, ReachTrans
<1>14. \E e \in B \cup R : accepting(e.acc)
  <2>1. CASE accepting(st_red[1].acc)
    <3>1. 2 \in 2..Len(c) /\ c[2] = st_red[1]
      BY <1>1, <1>5
    <3>2. Hop(c[2 - 1].s, c[2].acc, c[2].s) \in R
      BY <3>1
    <3>3. Hop(c[2 - 1].s, c[2].acc, c[2].s).acc = c[2].acc
      BY DEF Hop
    <3>4. QED
      BY <2>1, <3>1, <3>2, <3>3
  <2>2. CASE accepting(st_blue[n].acc) /\ st_blue[n].s # Last(st_red).s
    <3>1. n \in (k + 1)..n
      BY <1>1, <1>2, <2>2
    <3>2. Hop(st_blue[n - 1].s, st_blue[n].acc, st_blue[n].s) \in B
      BY <3>1
    <3>3. Hop(st_blue[n - 1].s, st_blue[n].acc, st_blue[n].s).acc = st_blue[n].acc
      BY DEF Hop
    <3>4. QED
      BY <2>2, <3>2, <3>3
  <2>3. QED
    BY <1>3, <2>1, <2>2
<1>15. Marks(B \cup R) = (UNION {st_blue[i].acc : i \in (k + 1)..n})
                           \cup (UNION {st_red[i].acc : i \in 1..m})
  <2>1. UNION {e.acc : e \in B} = UNION {st_blue[i].acc : i \in (k + 1)..n}
    <3>1. \A i \in (k + 1)..n : Hop(st_blue[i - 1].s, st_blue[i].acc, st_blue[i].s).acc = st_blue[i].acc
      BY DEF Hop
    <3>2. {e.acc : e \in B} = {st_blue[i].acc : i \in (k + 1)..n}
      BY <3>1
    <3>3. QED
      BY <3>2
  <2>2. UNION {e.acc : e \in R} = UNION {c[i].acc : i \in 2..Len(c)}
    <3>1. \A i \in 2..Len(c) : Hop(c[i - 1].s, c[i].acc, c[i].s).acc = c[i].acc
      BY DEF Hop
    <3>2. {e.acc : e \in R} = {c[i].acc : i \in 2..Len(c)}
      BY <3>1
    <3>3. QED
      BY <3>2
  <2>3. UNION {c[i].acc : i \in 2..Len(c)} = UNION {st_red[i].acc : i \in 1..m}
    <3>1. \A i \in 2..Len(c) : i - 1 \in 1..m /\ c[i] = st_red[i - 1]
      <4> SUFFICES ASSUME NEW i \in 2..Len(c) PROVE i - 1 \in 1..m /\ c[i] = st_red[i - 1]
        OBVIOUS
      <4>1. i - 1 \in 1..m /\ (i - 1) + 1 = i
        BY <1>1, <1>5
      <4>2. QED
        BY <1>5, <4>1
    <3>2. \A i \in 1..m : i + 1 \in 2..Len(c) /\ c[i + 1] = st_red[i]
      BY <1>1, <1>5
    <3>3. QED
      BY <3>1, <3>2
  <2> HIDE DEF B, R
  <2>4. QED
    BY ZenonT(30), <2>1, <2>2, <2>3 DEF Marks
<1>16. accepting(Marks(B \cup R))
  <2>1. B \cup R \in SUBSET Live(edges) /\ B \cup R # {}
    BY <1>12, <1>14 DEF L
  <2> HIDE DEF B, R
  <2>2. QED
    BY <1>1, <1>13, <1>14, <2>1, OneAccepting DEF L, TypeOK
<1>17. accepting((UNION {st_blue[i].acc : i \in k + 1 .. Len(st_blue)})
                   \cup (UNION {st_red[i].acc : i \in DOMAIN st_red}))
  BY <1>3, <1>15, <1>16 DEF n
<1>18. Linked(edges, <<Last(st_blue)>> \o st_red) /\ k > 0
  BY <1>4a, <1>7 DEF c
<1> HIDE DEF B, R, x, y
<1>19. QED
  BY <1>3, <1>8, <1>17, <1>18 DEF RunOnStacks, SelectInSeq

(* A null pointer as the first answer of an explicit search: no accepting  *)
(* edge that can be reached is on a cycle.                                 *)
LEMMA NullIsEmpty ==
  ASSUME Inv, Safe, BlueReturn, result = "none"
  PROVE  ~NonEmpty(edges)
<1> DEFINE L == Live(edges)
           C == {s \in State : ~is_white(s)}
<1>1. TypeOK /\ Explored /\ First /\ st_blue = << >> /\ pc = "blue"
  BY DEF Inv, BlueReturn
<1>2. Ahead(st_blue) = {} /\ States(st_blue) = {}
  BY <1>1, EmptyStack
<1>3. \A e : ~Along(st_blue, e)
  BY <1>1 DEF Along
<1>4. s0 \in C /\ C \in SUBSET State
  BY <1>1, TwaAssumption DEF Inv, Phases
<1>5. Closed(L, C)
  BY <1>1, <1>2, EdgeFacts DEF Closed, Explored
<1>6. Reach(L, s0) \subseteq C
  BY <1>4, <1>5, ReachInClosed
<1>7. \A e \in L : accepting(e.acc) /\ e.src \in Reach(L, s0) => e.src \notin Reach(L, e.dst)
  BY <1>1, <1>2, <1>3, <1>6 DEF First
<1>8. QED
  BY <1>1, <1>7, TwaAssumption, AcceptingEdge DEF TypeOK

(* The automaton of a search is fixed.                                     *)
LEMMA EdgesStay == [Next]_vars => UNCHANGED edges
BY DEF Next, dfs_blue, dfs_red, Check, CheckAgain, BlueSkip, BlueDown, BlueReport, BlueStartRed,
       StartRed, BlueIgnore, BlueBackStartRed, BlueBackPop, BlueReturn, RedIgnore, RedReport,
       RedDown, RedPop, RedReturn, Finished, vars

(* Every step of an explicit search answers as emptiness.hh promises.      *)
LEMMA StepAnswers ==
  ASSUME Inv, [Next]_vars, Safe
  PROVE  /\ UNCHANGED edges
         /\ \/ UNCHANGED result
            \/ result = "none" /\ result' = "run" /\ NonEmpty(edges)
            \/ result = "none" /\ result' = "null" /\ ~NonEmpty(edges)
            \/ result = "run" /\ result' = "null"
<1>0. Inv' /\ pc' = "idle" /\ result' = "run" => NonEmpty(edges)'
  <2>1. Inv'
    BY NextInv
  <2>2. Inv' /\ (pc = "idle")' /\ (result = "run")' => NonEmpty(edges)'
    BY ReportedIsNonEmpty, PTL
  <2>3. QED
    BY <2>1, <2>2
<1>1. ASSUME NEW e \in edges, BlueReport(e) \/ RedReport(e)
      PROVE  UNCHANGED edges /\ result' = "run" /\ NonEmpty(edges) /\ result \in {"none", "run"}
  <2>1. UNCHANGED edges /\ result' = "run" /\ pc' = "idle"
    BY <1>1 DEF BlueReport, RedReport, Return
  <2>2. NonEmpty(edges)'
    BY <1>0, <2>1, NextInv
  <2>3. NonEmpty(edges)
    BY <2>1, <2>2 DEF NonEmpty, Live, Reach, Closed
  <2>4. result \in {"none", "run"}
    BY <1>1 DEF Inv, TypeOK, Phases, BlueReport, RedReport, BlueEdge, RedEdge
  <2>5. QED
    BY <2>1, <2>3, <2>4
<1>2. CASE BlueReturn
  <2>1. UNCHANGED edges /\ result' = "null" /\ result \in {"none", "run"}
    BY <1>2 DEF BlueReturn, Return, Inv, TypeOK, Phases
  <2>2. QED
    BY <1>2, <2>1, NullIsEmpty
<1>3. CASE UNCHANGED <<edges, result>>
  BY <1>3
<1>4. QED
  BY <1>1, <1>2, <1>3
     DEF Next, dfs_blue, dfs_red, Check, CheckAgain, BlueSkip, BlueDown, BlueStartRed, StartRed,
         BlueIgnore, BlueBackStartRed, BlueBackPop, RedIgnore, RedDown, RedPop, RedReturn,
         Finished, vars
=============================================================================
