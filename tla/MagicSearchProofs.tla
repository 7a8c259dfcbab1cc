------------------------- MODULE MagicSearchProofs -------------------------
(***************************************************************************)
(* The magic search is right, for every automaton its constructor accepts  *)
(* and every hash function: each result it returns has an accepting lasso  *)
(* on the stacks, in the first call and in every resumed one; and with one *)
(* heap entry per state it implements the promise of emptiness.hh, the     *)
(* white states that its red dfs passes over notwithstanding.              *)
(***************************************************************************)
EXTENDS MagicSearch, NdfsStackProofs

(* The stacks, in more detail than TypeOK.                                 *)
Stacks ==
  /\ is_weak(edges) \/ Mark = {} \/ is_buchi
  /\ IsStack(edges, st_blue) /\ Distinct(st_blue) /\ IsStack(edges, st_red)

(* What the phases of check() say about the stacks.                        *)
Phases ==
  /\ pc = "idle" /\ result = "none" =>
       st_blue = << >> /\ st_red = << >> /\ \A s \in State : is_white(s)
  /\ pc = "blue" => st_red = << >>
  /\ pc = "red" => st_blue # << >> /\ target = Last(st_blue).s
  /\ (pc = "idle" /\ result = "none") \/ ~is_white(s0)
  /\ pc # "idle" => result # "null"

Colored ==
  /\ \A s \in States(st_blue) : ~is_white(s)
  /\ \A s \in States(st_red) : ~is_white(s)

(* The red stack leaves the front of the blue one by an accepting edge,    *)
(* and comes back to it when a result is returned.                         *)
Lasso ==
  /\ Linked(edges, st_blue) /\ Linked(edges, st_red)
  /\ st_blue # << >> => st_blue[1].s = s0
  /\ st_red # << >> =>
       /\ st_blue # << >> /\ target = Last(st_blue).s /\ accepting(st_red[1].acc)
       /\ Hop(target, st_red[1].acc, st_red[1].s) \in edges
  /\ pc = "idle" /\ result = "run" => st_red # << >> /\ Last(st_red).s = target

(* An explicit search: what has been left leads to visited states.         *)
Explored ==
  /\ \A s \in State : ~is_white(s) => s \in Reach(Live(edges), s0)
  /\ \A e \in Live(edges) : is_white(e.src) \/ ~is_white(e.dst) \/ e \in Ahead(st_blue)

(* The first call of an explicit search: a red dfs leads red states to red *)
(* or white ones only, and unless it runs no state of the blue stack is    *)
(* red; an accepting edge that is done with is on no cycle.                *)
First ==
  /\ pc = "blue" => \A s \in States(st_blue) : get_color(s) # "RED"
  /\ pc = "red" => get_color(target) # "RED"
  /\ \A e \in Live(edges) :
       get_color(e.src) = "RED" =>
         get_color(e.dst) = "RED" \/ (pc = "red" /\ (is_white(e.dst) \/ e \in Ahead(st_red)))
  /\ \A e \in Live(edges) :
       accepting(e.acc) /\ ~is_white(e.src) =>
         \/ e \in Ahead(st_blue) \/ Along(st_blue, e)
         \/ e.src \in States(st_blue) /\ get_color(e.dst) = "RED"
         \/ e.src \notin Reach(Live(edges), e.dst)

Inv ==
  /\ TypeOK /\ Stacks /\ Phases /\ Colored /\ Lasso
  /\ Safe => Explored
  /\ Safe /\ result = "none" => First

-----------------------------------------------------------------------------
(* The fields of the edges.                                                *)
LEMMA EdgeFacts ==
  ASSUME edges \subseteq Edge
  PROVE  /\ Live(edges) \in SUBSET Edge /\ Live(edges) \subseteq edges
         /\ \A e \in edges : /\ e.src \in State /\ e.dst \in State
                             /\ e.acc \in SUBSET Mark /\ e.cond \in BOOLEAN
                             /\ e.cond => e \in Live(edges)
         /\ \A e \in Live(edges) : e = Hop(e.src, e.acc, e.dst)
<1>1. \A e \in edges : /\ e.src \in State /\ e.dst \in State
                       /\ e.acc \in SUBSET Mark /\ e.cond \in BOOLEAN
                       /\ e = [src |-> e.src, cond |-> e.cond, acc |-> e.acc, dst |-> e.dst]
  BY DEF Edge
<1>2. Live(edges) \in SUBSET Edge /\ Live(edges) \subseteq edges
  BY DEF Live
<1>3. \A e \in Live(edges) : e.cond = TRUE
  BY <1>1 DEF Live
<1>4. \A e \in edges : e.cond => e \in Live(edges)
  BY DEF Live
<1>5. \A e \in Live(edges) : e = Hop(e.src, e.acc, e.dst)
  BY <1>1, <1>2, <1>3 DEF Hop
<1>6. QED
  BY <1>1, <1>2, <1>4, <1>5

(* set_color() uncovers no white state; without collisions it changes the  *)
(* colour of s only.                                                       *)
LEMMA ColorFacts ==
  ASSUME color \in [Slot -> Color], NEW s \in State, NEW c \in {"BLUE", "RED"}, set_color(s, c)
  PROVE  /\ color' \in [Slot -> Color]
         /\ get_color(s)' = c /\ ~is_white(s)'
         /\ \A t \in State : ~is_white(t) => ~is_white(t)'
         /\ Safe => \A t \in State : t # s => /\ get_color(t)' = get_color(t)
                                              /\ is_white(t)' <=> is_white(t)
<1>1. /\ color' \in [Slot -> Color] /\ color'[slot[s]] = c
      /\ \A t \in State : slot[t] # slot[s] => color'[slot[t]] = color[slot[t]]
  BY MagicAssumption DEF set_color, Color
<1>2. get_color(s)' = c /\ ~is_white(s)'
  BY <1>1 DEF get_color, is_white
<1>3. ASSUME NEW t \in State, ~is_white(t) PROVE ~is_white(t)'
  BY <1>1, <1>3 DEF is_white
<1>4. ASSUME Safe, NEW t \in State, t # s PROVE get_color(t)' = get_color(t)
  <2>1. slot[t] # slot[s]
    BY <1>4 DEF Safe
  <2>2. QED
    BY <1>1, <2>1 DEF get_color
<1>5. QED
  BY <1>1, <1>2, <1>3, <1>4 DEF is_white, get_color

(* A new search.                                                           *)
LEMMA InitInv == Init => Inv
<1> SUFFICES ASSUME Init PROVE Inv
  OBVIOUS
<1> USE TwaAssumption, MagicAssumption DEF Init, magic_search
<1>1. TypeOK /\ Stacks
  BY EmptyStack DEF TypeOK, Stacks, Color, IsStack
<1>2. \A s \in State : get_color(s) = "WHITE" /\ is_white(s)
  BY DEF get_color, is_white
<1>3. Phases /\ Colored
  BY <1>2, EmptyStack DEF Phases, Colored
<1>4. Lasso
  BY EmptySeq DEF Lasso, Linked
<1>5. Explored
  BY <1>1, <1>2, EdgeFacts, EmptyStack DEF Explored, TypeOK
<1>6. First
  BY <1>1, <1>2, EdgeFacts, EmptyStack DEF First, TypeOK
<1>7. QED
  BY <1>1, <1>3, <1>4, <1>5, <1>6 DEF Inv

-----------------------------------------------------------------------------
(* An edge that the blue dfs is on.                                        *)
LEMMA BlueEdgeFacts ==
  ASSUME Inv, NEW e, BlueEdge(e)
  PROVE  /\ pc = "blue" /\ st_blue # << >> /\ e \in edges /\ edges \in SUBSET Edge
         /\ e.src = Last(st_blue).s /\ e.src \in States(st_blue)
         /\ e.src \in State /\ e.dst \in State /\ e.acc \in SUBSET Mark /\ e.cond \in BOOLEAN
         /\ e.cond => e \in Live(edges) /\ e.dst \in Reach(Live(edges), e.src)
         /\ st_red = << >> /\ States(st_blue) \subseteq State /\ result # "null"
<1>1. /\ pc = "blue" /\ st_blue # << >> /\ e \in Last(st_blue).it
      /\ IsStack(edges, st_blue) /\ edges \in SUBSET Edge /\ st_red = << >> /\ result # "null"
  BY DEF Inv, Phases, BlueEdge, IsOn, TypeOK, Stacks
<1>2. /\ e \in edges /\ e.src = Last(st_blue).s /\ e.src \in States(st_blue)
      /\ States(st_blue) \subseteq State
  BY <1>1, FrontFacts
<1>3. /\ e.src \in State /\ e.dst \in State /\ e.acc \in SUBSET Mark /\ e.cond \in BOOLEAN
  BY <1>1, <1>2, EdgeFacts
<1>4. e.cond => e \in Live(edges) /\ e.dst \in Reach(Live(edges), e.src)
  BY <1>1, <1>2, EdgeFacts, ReachEdge
<1>5. QED
  BY <1>1, <1>2, <1>3, <1>4

(* What next() on the blue stack leaves as it was.                         *)
LEMMA BlueNextFacts ==
  ASSUME Inv, NEW e, BlueEdge(e), NEW n, n = next(st_blue, e)
  PROVE  /\ IsStack(edges, n) /\ Distinct(n) /\ n # << >> /\ n \in Seq(Item)
         /\ States(n) = States(st_blue) /\ Last(n).s = e.src
         /\ Ahead(st_blue) \subseteq Ahead(n) \cup {e}
         /\ Linked(edges, n) /\ n[1].s = s0
         /\ \A g : Along(st_blue, g) => Along(n, g)
<1>1. /\ st_blue # << >> /\ IsStack(edges, st_blue) /\ Distinct(st_blue) /\ st_blue \in Seq(Item)
      /\ e.src = Last(st_blue).s
  BY BlueEdgeFacts DEF Inv, TypeOK, Stacks
<1>2. /\ IsStack(edges, n) /\ Distinct(n) /\ n # << >> /\ n \in Seq(Item)
      /\ States(n) = States(st_blue) /\ Last(n).s = e.src
      /\ Ahead(st_blue) \subseteq Ahead(n) \cup {e}
  BY <1>1, NextStack DEF IsStack
<1>3. Linked(edges, n) /\ n[1].s = s0 /\ \A g : Along(st_blue, g) => Along(n, g)
  BY <1>1, NextLinked DEF Inv, Lasso
<1>4. QED
  BY <1>2, <1>3

(* In the first call, what is red when no red dfs runs leads to no state   *)
(* of the blue stack.                                                      *)
LEMMA RedClosed ==
  ASSUME TypeOK, First, pc = "blue", NEW e \in Live(edges),
         e.src \in States(st_blue), get_color(e.dst) = "RED"
  PROVE  e.src \notin Reach(Live(edges), e.dst)
<1> DEFINE C == {s \in State : get_color(s) = "RED"}
<1>0. edges \subseteq Edge
  BY DEF TypeOK
<1>1. Closed(Live(edges), C)
  BY <1>0, EdgeFacts DEF First, Closed
<1>2. e.dst \in C /\ C \in SUBSET State
  BY <1>0, EdgeFacts
<1>3. Reach(Live(edges), e.dst) \subseteq C
  BY <1>1, <1>2, ReachInClosed
<1>4. e.src \notin C
  BY DEF First
<1>5. QED
  BY <1>3, <1>4

(* The blue dfs passes over an edge, labelled by false or to a state for   *)
(* which there is nothing to do.                                           *)
LEMMA BluePassInv ==
  ASSUME Inv, NEW e, BlueEdge(e), st_blue' = next(st_blue, e),
         UNCHANGED <<edges, color, st_red, target, pc, result>>,
         e.cond => ~is_white(e.dst) /\ (accepting(e.acc) => get_color(e.dst) = "RED")
  PROVE  Inv'
<1> USE DEF Inv
<1>0. /\ pc = "blue" /\ e \in edges /\ e.src = Last(st_blue).s
      /\ e.src \in States(st_blue) /\ st_red = << >>
      /\ e \in Live(edges) => ~is_white(e.dst) /\ (accepting(e.acc) => get_color(e.dst) = "RED")
  BY BlueEdgeFacts DEF Live
<1>1. /\ IsStack(edges, st_blue') /\ Distinct(st_blue') /\ st_blue' # << >>
      /\ States(st_blue') = States(st_blue) /\ Last(st_blue').s = Last(st_blue).s
      /\ Ahead(st_blue) \subseteq Ahead(st_blue') \cup {e}
      /\ Linked(edges, st_blue') /\ st_blue'[1].s = s0
      /\ \A g : Along(st_blue, g) => Along(st_blue', g)
  BY <1>0, BlueNextFacts
<1>2. \A s : get_color(s)' = get_color(s) /\ (is_white(s)' <=> is_white(s))
  BY DEF get_color, is_white
<1>3. TypeOK' /\ Stacks'
  BY <1>1 DEF TypeOK, Stacks, IsStack
<1>4. Phases' /\ Colored'
  BY <1>0, <1>1, <1>2 DEF Phases, Colored
<1>5. Lasso'
  BY <1>0, <1>1 DEF Lasso
<1>6. ASSUME Safe PROVE Explored'
  BY <1>0, <1>1, <1>2, <1>6 DEF Explored
<1>7. ASSUME Safe, result = "none" PROVE First'
  <2>1. First
    BY <1>7
  <2>2. QED
    BY <1>0, <1>1, <1>2, <2>1 DEF First
<1>8. QED
  BY <1>3, <1>4, <1>5, <1>6, <1>7

(* The first call of check().                                              *)
LEMMA CheckInv == ASSUME Inv, Check PROVE Inv'
<1> USE TwaAssumption DEF Inv, Check
<1>0. /\ st_blue = << >> /\ st_red = << >> /\ \A s \in State : is_white(s)
      /\ edges \in SUBSET Edge /\ st_blue \in Seq(Item) /\ s0 \in State /\ {} \in SUBSET Mark
      /\ color \in [Slot -> Color]
  BY DEF Phases, TypeOK
<1>1. PICK label \in BOOLEAN : st_blue' = push(st_blue, edges, s0, label, {})
  BY Zenon
<1>2. /\ IsStack(edges, st_blue') /\ st_blue' # << >> /\ Distinct(st_blue')
      /\ States(st_blue') = {s0} /\ Ahead(st_blue') = succ_iter(edges, s0)
  BY ONLY <1>0, <1>1, PushFirst
<1>3. Linked(edges, st_blue') /\ st_blue'[1].s = s0
  BY ONLY <1>0, <1>1, FirstLinked
<1>4. /\ color' \in [Slot -> Color]
      /\ get_color(s0)' = "BLUE" /\ ~is_white(s0)'
      /\ Safe => \A t \in State : t # s0 => /\ get_color(t)' = get_color(t)
                                            /\ is_white(t)' <=> is_white(t)
  BY <1>0, ColorFacts
<1>5. TypeOK' /\ Stacks'
  BY <1>2, <1>4 DEF TypeOK, Stacks, IsStack
<1>6. Phases'
  BY <1>0, <1>4 DEF Phases
<1>7. Colored'
  BY <1>0, <1>2, <1>4, EmptyStack DEF Colored
<1>8. Lasso'
  BY <1>0, <1>2, <1>3 DEF Lasso
<1>9. ASSUME Safe PROVE \A e \in Live(edges) : is_white(e.src)' \/ e \in Ahead(st_blue')
  <2> SUFFICES ASSUME NEW e \in Live(edges), ~is_white(e.src)'
               PROVE  e \in Ahead(st_blue')
    OBVIOUS
  <2>1. e \in edges /\ e.src = s0
    BY <1>0, <1>4, <1>9, EdgeFacts
  <2>2. QED
    BY <1>2, <2>1 DEF succ_iter
<1>10. ASSUME Safe PROVE Explored'
  <2>1. s0 \in Reach(Live(edges), s0)
    BY <1>0, EdgeFacts, ReachFacts
  <2>2. QED
    BY <1>0, <1>4, <1>9, <1>10, <2>1 DEF Explored
<1>11. ASSUME Safe PROVE First'
  <2>1. \A s \in State : get_color(s)' # "RED"
    BY <1>0, <1>4, <1>11 DEF is_white, get_color
  <2>2. QED
    BY <1>0, <1>2, <1>4, <1>9, <1>11, <2>1, EdgeFacts DEF First
<1>12. QED
  BY <1>5, <1>6, <1>7, <1>8, <1>10, <1>11

(* A later call.                                                           *)
LEMMA CheckAgainInv == ASSUME Inv, CheckAgain PROVE Inv'
<1> USE DEF Inv, CheckAgain
<1>0. /\ st_red # << >> /\ IsStack(edges, st_red) /\ st_red \in Seq(Item)
      /\ st_red' = pop(st_red)
  BY DEF Lasso, TypeOK, Stacks
<1>1. IsStack(edges, st_red') /\ States(st_red') \subseteq States(st_red)
  BY <1>0, PopStack
<1>2. /\ Linked(edges, st_red) => Linked(edges, st_red')
      /\ st_red' # << >> => st_red'[1] = st_red[1]
  BY <1>0, PopLinked
<1>3. \A s : get_color(s)' = get_color(s) /\ (is_white(s)' <=> is_white(s))
  BY DEF get_color, is_white
<1>4. TypeOK' /\ Stacks'
  BY <1>1 DEF TypeOK, Stacks, IsStack
<1>5. Phases' /\ Colored'
  BY <1>0, <1>1, <1>3 DEF Phases, Colored, Lasso
<1>6. Lasso'
  BY <1>0, <1>2 DEF Lasso
<1>7. Safe => Explored'
  BY <1>3 DEF Explored
<1>8. QED
  BY <1>4, <1>5, <1>6, <1>7

(* dfs_blue() goes down an edge to a white state.                          *)
LEMMA BlueDownInv == ASSUME Inv, NEW e, BlueDown(e) PROVE Inv'
<1> USE DEF Inv, BlueDown
<1> DEFINE n == next(st_blue, e)
<1>0. /\ pc = "blue" /\ e \in edges /\ e \in Live(edges) /\ e.src = Last(st_blue).s
      /\ e.src \in States(st_blue) /\ e.src \in State /\ e.dst \in State
      /\ e.acc \in SUBSET Mark /\ e.cond \in BOOLEAN /\ edges \in SUBSET Edge
      /\ e.dst \in Reach(Live(edges), e.src) /\ st_red = << >>
      /\ States(st_blue) \subseteq State /\ is_white(e.dst) /\ color \in [Slot -> Color]
  BY BlueEdgeFacts DEF TypeOK
<1>1. /\ IsStack(edges, n) /\ Distinct(n) /\ n # << >> /\ n \in Seq(Item)
      /\ States(n) = States(st_blue) /\ Last(n).s = e.src
      /\ Ahead(st_blue) \subseteq Ahead(n) \cup {e}
      /\ Linked(edges, n) /\ n[1].s = s0
      /\ \A g : Along(st_blue, g) => Along(n, g)
  BY <1>0, BlueNextFacts
<1> HIDE DEF n
<1>2. st_blue' = push(n, edges, e.dst, e.cond, e.acc)
  BY DEF n
<1>3. e.dst \notin States(st_blue)
  BY <1>0 DEF Colored
<1>4. /\ IsStack(edges, st_blue') /\ st_blue' # << >> /\ Distinct(st_blue')
      /\ States(st_blue') = States(st_blue) \cup {e.dst}
      /\ Ahead(st_blue') = Ahead(n) \cup succ_iter(edges, e.dst)
  BY ONLY <1>0, <1>1, <1>2, <1>3, PushStack
<1>5. /\ Linked(edges, st_blue') /\ st_blue'[1].s = s0
      /\ \A g : Along(st_blue, g) => Along(st_blue', g)
      /\ Along(st_blue', e)
  <2>1. Hop(Last(n).s, e.acc, e.dst) \in edges
    BY <1>0, <1>1, EdgeFacts
  <2>2. Linked(edges, st_blue') /\ st_blue'[1] = n[1]
    BY ONLY <1>0, <1>1, <1>2, <2>1, PushLinked, PushBottom
  <2>3. /\ \A g : Along(n, g) => Along(st_blue', g)
        /\ \A g : n # << >> /\ g.src = Last(n).s /\ g.dst = e.dst /\ g.acc = e.acc
             => Along(st_blue', g)
    BY ONLY <1>0, <1>1, <1>2, PushAlong
  <2>4. QED
    BY <1>0, <1>1, <2>2, <2>3
<1>6. /\ color' \in [Slot -> Color]
      /\ get_color(e.dst)' = "BLUE" /\ ~is_white(e.dst)'
      /\ \A t \in State : ~is_white(t) => ~is_white(t)'
      /\ Safe => \A t \in State : t # e.dst => /\ get_color(t)' = get_color(t)
                                               /\ is_white(t)' <=> is_white(t)
  BY <1>0, ColorFacts
<1>7. TypeOK' /\ Stacks'
  BY <1>4, <1>6 DEF TypeOK, Stacks, IsStack
<1>8. Phases'
  BY <1>0, <1>6, TwaAssumption DEF Phases
<1>9. Colored'
  BY <1>0, <1>4, <1>6, EmptyStack DEF Colored
<1>10. Lasso'
  BY <1>0, <1>4, <1>5 DEF Lasso
<1>12. ASSUME Safe PROVE Explored'
  <2>1. Explored
    BY <1>12
  <2>2. ASSUME NEW g \in Live(edges), ~is_white(g.src)', is_white(g.dst)'
        PROVE  g \in Ahead(st_blue')
    <3>1. g \in edges /\ g.src \in State /\ g.dst \in State
      BY <1>0, EdgeFacts
    <3>2. CASE g.src = e.dst
      BY <1>4, <3>1, <3>2 DEF succ_iter
    <3>3. CASE g.src # e.dst
      <4>1. ~is_white(g.src) /\ is_white(g.dst)
        BY <1>6, <1>12, <2>2, <3>1, <3>3
      <4>2. g \in Ahead(st_blue) /\ g # e
        BY <1>6, <2>1, <2>2, <4>1 DEF Explored
      <4>3. QED
        BY <1>1, <1>4, <4>2
    <3>4. QED
      BY <3>2, <3>3
  <2>3. e.dst \in Reach(Live(edges), s0)
    <3>1. e.src \in Reach(Live(edges), s0)
      BY <1>0, <2>1 DEF Explored, Colored
    <3>2. QED
      BY <1>0, <3>1, EdgeFacts, ReachTrans, TwaAssumption
  <2>4. \A s \in State : ~is_white(s)' => s \in Reach(Live(edges), s0)
    BY <1>6, <1>12, <2>1, <2>3 DEF Explored
  <2>6. QED
    BY <1>0, <2>2, <2>4 DEF Explored
<1>13. ASSUME Safe, result = "none" PROVE First'
  <2>1. First
    BY <1>13
  <2>2. get_color(e.dst) = "WHITE"
    BY <1>0 DEF is_white, get_color
  <2>3. \A s \in State : get_color(s)' = "RED" <=> get_color(s) = "RED"
    BY <1>6, <1>13, <2>2
  <2>4. \A s \in States(st_blue') : get_color(s)' # "RED"
    BY <1>0, <1>4, <1>6, <2>1, <2>3 DEF First
  <2>5. \A g \in Live(edges) : get_color(g.src)' = "RED" => get_color(g.dst)' = "RED"
    BY <1>0, <2>1, <2>3, EdgeFacts DEF First
  <2>6. ASSUME NEW g \in Live(edges), accepting(g.acc), ~is_white(g.src)'
        PROVE  \/ g \in Ahead(st_blue') \/ Along(st_blue', g)
               \/ g.src \in States(st_blue') /\ get_color(g.dst)' = "RED"
               \/ g.src \notin Reach(Live(edges), g.dst)
    <3>1. g \in edges /\ g.src \in State /\ g.dst \in State
      BY <1>0, EdgeFacts
    <3>2. CASE g.src = e.dst
      BY <1>4, <3>1, <3>2 DEF succ_iter
    <3>3. CASE g.src # e.dst
      <4>1. \/ g \in Ahead(st_blue) \/ Along(st_blue, g)
            \/ g.src \in States(st_blue) /\ get_color(g.dst) = "RED"
            \/ g.src \notin Reach(Live(edges), g.dst)
        BY <1>6, <1>13, <2>1, <2>6, <3>1, <3>3 DEF First
      <4>2. QED
        BY <1>1, <1>4, <1>5, <2>3, <3>1, <4>1
    <3>4. QED
      BY <3>2, <3>3
  <2>7. QED
    BY <1>0, <2>4, <2>5, <2>6 DEF First
<1>14. QED
  BY <1>7, <1>8, <1>9, <1>10, <1>12, <1>13

(* What starting a red dfs on s does, when none is running: it may report  *)
(* a cycle at once.                                                        *)
LEMMA StartRedFacts ==
  ASSUME TypeOK, st_red = << >>, NEW t \in State, NEW s \in State,
         NEW label, label \in BOOLEAN, NEW acc \in SUBSET Mark, StartRed(t, s, label, acc)
  PROVE  /\ IsStack(edges, st_red') /\ st_red' # << >> /\ States(st_red') = {s}
         /\ Ahead(st_red') = succ_iter(edges, s)
         /\ Linked(edges, st_red') /\ st_red'[1].s = s /\ st_red'[1].acc = acc
         /\ Last(st_red').s = s /\ target' = t
         /\ color' \in [Slot -> Color]
         /\ get_color(s)' = "RED" /\ ~is_white(s)'
         /\ \A u \in State : ~is_white(u) => ~is_white(u)'
         /\ Safe => \A u \in State : u # s => /\ get_color(u)' = get_color(u)
                                              /\ is_white(u)' <=> is_white(u)
         /\ \/ pc' = "idle" /\ result' = "run" /\ t = s
            \/ pc' = "red" /\ result' = result /\ t # s
<1>1. /\ st_red' = push(st_red, edges, s, label, acc) /\ edges \in SUBSET Edge
      /\ st_red = << >> /\ s \in State /\ label \in BOOLEAN /\ acc \in SUBSET Mark
  BY DEF StartRed, TypeOK
<1>2. /\ IsStack(edges, st_red') /\ st_red' # << >> /\ States(st_red') = {s}
      /\ Ahead(st_red') = succ_iter(edges, s)
  BY ONLY <1>1, PushFirst
<1>3. Linked(edges, st_red') /\ st_red'[1].s = s /\ st_red'[1].acc = acc /\ Last(st_red').s = s
  BY ONLY <1>1, FirstLinked
<1>4. /\ color' \in [Slot -> Color]
      /\ get_color(s)' = "RED" /\ ~is_white(s)'
      /\ \A u \in State : ~is_white(u) => ~is_white(u)'
      /\ Safe => \A u \in State : u # s => /\ get_color(u)' = get_color(u)
                                           /\ is_white(u)' <=> is_white(u)
  BY ColorFacts DEF StartRed, TypeOK
<1>5. /\ target' = t
      /\ \/ pc' = "idle" /\ result' = "run" /\ t = s
         \/ pc' = "red" /\ result' = result /\ t # s
  BY DEF StartRed
<1>6. QED
  BY <1>2, <1>3, <1>4, <1>5

(* dfs_blue() starts a red dfs over an edge to a visited state.            *)
LEMMA BlueStartRedInv == ASSUME Inv, NEW e, BlueStartRed(e) PROVE Inv'
<1> USE DEF Inv, BlueStartRed
<1>0. /\ TypeOK /\ pc = "blue" /\ e \in edges /\ e \in Live(edges) /\ e.src = Last(st_blue).s
      /\ e.src \in States(st_blue) /\ e.src \in State /\ e.dst \in State
      /\ e.acc \in SUBSET Mark /\ e.cond \in BOOLEAN /\ edges \in SUBSET Edge
      /\ st_red = << >> /\ States(st_blue) \subseteq State /\ st_blue # << >>
      /\ result # "null" /\ ~is_white(e.dst) /\ accepting(e.acc) /\ get_color(e.dst) # "RED"
      /\ StartRed(e.src, e.dst, e.cond, e.acc)
  BY BlueEdgeFacts
<1>1. /\ IsStack(edges, st_blue') /\ Distinct(st_blue') /\ st_blue' # << >>
      /\ States(st_blue') = States(st_blue) /\ Last(st_blue').s = e.src
      /\ Ahead(st_blue) \subseteq Ahead(st_blue') \cup {e}
      /\ Linked(edges, st_blue') /\ st_blue'[1].s = s0
      /\ \A g : Along(st_blue, g) => Along(st_blue', g)
  BY <1>0, BlueNextFacts
<1>2. /\ IsStack(edges, st_red') /\ st_red' # << >> /\ States(st_red') = {e.dst}
      /\ Ahead(st_red') = succ_iter(edges, e.dst)
      /\ Linked(edges, st_red') /\ st_red'[1].s = e.dst /\ st_red'[1].acc = e.acc
      /\ Last(st_red').s = e.dst /\ target' = e.src
      /\ color' \in [Slot -> Color]
      /\ get_color(e.dst)' = "RED" /\ ~is_white(e.dst)'
      /\ \A u \in State : ~is_white(u) => ~is_white(u)'
      /\ Safe => \A u \in State : u # e.dst => /\ get_color(u)' = get_color(u)
                                               /\ is_white(u)' <=> is_white(u)
      /\ \/ pc' = "idle" /\ result' = "run" /\ e.src = e.dst
         \/ pc' = "red" /\ result' = result /\ e.src # e.dst
  BY ONLY <1>0, StartRedFacts
<1>3. TypeOK' /\ Stacks'
  BY <1>0, <1>1, <1>2 DEF TypeOK, Stacks, IsStack
<1>4. Phases'
  BY <1>0, <1>1, <1>2, TwaAssumption DEF Phases
<1>5. Colored'
  BY <1>0, <1>1, <1>2 DEF Colored
<1>6. Lasso'
  <2>1. Hop(e.src, e.acc, e.dst) \in edges
    BY <1>0, EdgeFacts
  <2>2. QED
    BY <1>0, <1>1, <1>2, <2>1 DEF Lasso
<1>7. ASSUME Safe PROVE Explored'
  <2>1. \A g \in Live(edges) : is_white(g.src)' \/ ~is_white(g.dst)' \/ g \in Ahead(st_blue')
    BY <1>0, <1>1, <1>2, <1>7, EdgeFacts DEF Explored
  <2>2. \A s \in State : ~is_white(s)' => s \in Reach(Live(edges), s0)
    BY <1>0, <1>2, <1>7 DEF Explored
  <2>3. QED
    BY <2>1, <2>2 DEF Explored
<1>8. ASSUME Safe, result' = "none" PROVE First'
  <2>1. First /\ pc' = "red" /\ e.src # e.dst
    BY <1>2, <1>8
  <2>2. get_color(target)' # "RED"
    <3>1. get_color(e.src) # "RED" /\ get_color(e.src)' = get_color(e.src)
      BY <1>0, <1>2, <1>8, <2>1 DEF First
    <3>2. QED
      BY <1>2, <3>1 DEF get_color
  <2>3. ASSUME NEW g \in Live(edges), get_color(g.src)' = "RED"
        PROVE  get_color(g.dst)' = "RED" \/ g \in Ahead(st_red')
    <3>1. g \in edges /\ g.src \in State /\ g.dst \in State
      BY <1>0, EdgeFacts
    <3>2. CASE g.src = e.dst
      BY <1>2, <3>1, <3>2 DEF succ_iter
    <3>3. CASE g.src # e.dst
      BY <1>0, <1>2, <1>8, <2>1, <2>3, <3>1, <3>3 DEF First
    <3>4. QED
      BY <3>2, <3>3
  <2>4. ASSUME NEW g \in Live(edges), accepting(g.acc), ~is_white(g.src)'
        PROVE  \/ g \in Ahead(st_blue') \/ Along(st_blue', g)
               \/ g.src \in States(st_blue') /\ get_color(g.dst)' = "RED"
               \/ g.src \notin Reach(Live(edges), g.dst)
    <3>1. g \in edges /\ g.src \in State /\ g.dst \in State
      BY <1>0, EdgeFacts
    <3>2. ~is_white(g.src)
      BY <1>0, <1>2, <1>8, <2>4, <3>1
    <3>3. CASE g = e
      BY <1>0, <1>1, <1>2, <3>3
    <3>4. CASE g # e
      BY <1>1, <1>2, <1>8, <2>1, <2>4, <3>1, <3>2, <3>4 DEF First
    <3>5. QED
      BY <3>3, <3>4
  <2>5. QED
    BY <1>0, <2>1, <2>2, <2>3, <2>4 DEF First
<1>9. QED
  BY <1>3, <1>4, <1>5, <1>6, <1>7, <1>8

(* The front of a blue stack that is about to be popped.                   *)
LEMMA BlueBackFacts ==
  ASSUME Inv, pc = "blue", Done(st_blue)
  PROVE  LET f == Last(st_blue)
             p == pop(st_blue)
         IN  /\ TypeOK /\ edges \in SUBSET Edge /\ st_red = << >> /\ result # "null"
             /\ st_blue \in Seq(Item) /\ st_blue # << >>
             /\ f.s \in State /\ f.label \in BOOLEAN /\ f.acc \in SUBSET Mark
             /\ f.s \in States(st_blue) /\ ~is_white(f.s) /\ States(st_blue) \subseteq State
             /\ IsStack(edges, p) /\ Distinct(p) /\ f.s \notin States(p)
             /\ States(st_blue) = States(p) \cup {f.s} /\ Ahead(p) = Ahead(st_blue)
             /\ Linked(edges, p) /\ (p # << >> => p[1].s = s0)
<1>1. /\ TypeOK /\ edges \in SUBSET Edge /\ st_red = << >> /\ st_blue # << >>
      /\ Last(st_blue).it = {} /\ IsStack(edges, st_blue) /\ Distinct(st_blue)
      /\ st_blue \in Seq(Item) /\ result # "null"
  BY DEF Inv, Phases, Done, TypeOK, Stacks
<1>2. /\ Last(st_blue) \in Item /\ Last(st_blue).s \in States(st_blue)
      /\ States(st_blue) \subseteq State
  BY <1>1, FrontFacts
<1>3. /\ IsStack(edges, pop(st_blue)) /\ Distinct(pop(st_blue))
      /\ Last(st_blue).s \notin States(pop(st_blue))
      /\ States(st_blue) = States(pop(st_blue)) \cup {Last(st_blue).s}
  BY <1>1, PopStack
<1>4. Ahead(st_blue) = Ahead(pop(st_blue)) \cup Last(st_blue).it
  BY <1>1, PopStack
<1>5. Ahead(pop(st_blue)) = Ahead(st_blue)
  BY <1>1, <1>4
<1>6. Linked(edges, pop(st_blue)) /\ (pop(st_blue) # << >> => pop(st_blue)[1].s = s0)
  BY <1>1, PopLinked DEF Inv, Lasso
<1>7. ~is_white(Last(st_blue).s)
  BY <1>2 DEF Inv, Colored
<1>8. Last(st_blue).s \in State /\ Last(st_blue).label \in BOOLEAN /\ Last(st_blue).acc \in SUBSET Mark
  BY <1>2 DEF Item
<1>9. QED
  BY <1>1, <1>2, <1>3, <1>5, <1>6, <1>7, <1>8

(* dfs_blue() starts a red dfs over the edge it backtracks.                *)
LEMMA BlueBackStartRedInv ==
  ASSUME Inv, BlueBackStartRed, NEW f, f = Last(st_blue), NEW t, t = Last(st_blue').s
  PROVE  Inv'
<1> USE DEF Inv, BlueBackStartRed, BlueDoneWith
<1>0. /\ TypeOK /\ edges \in SUBSET Edge /\ st_red = << >> /\ result # "null"
      /\ f.s \in State /\ f.label \in BOOLEAN /\ f.acc \in SUBSET Mark
      /\ f.s \in States(st_blue) /\ ~is_white(f.s) /\ States(st_blue) \subseteq State
      /\ IsStack(edges, st_blue') /\ Distinct(st_blue') /\ f.s \notin States(st_blue')
      /\ States(st_blue) = States(st_blue') \cup {f.s} /\ Ahead(st_blue') = Ahead(st_blue)
      /\ Linked(edges, st_blue') /\ (st_blue' # << >> => st_blue'[1].s = s0)
      /\ pc = "blue" /\ st_blue \in Seq(Item) /\ st_blue # << >>
      /\ accepting(f.acc) /\ get_color(f.s) # "RED" /\ Len(st_blue) > 1
      /\ edges' = edges /\ st_blue' = pop(st_blue)
  BY BlueBackFacts DEF Backtracked
<1>1. st_blue' # << >> /\ Last(st_blue') = st_blue[Len(st_blue) - 1]
  BY <1>0, PopLinked
<1>2. t \in States(st_blue') /\ t \in State /\ t # f.s
  BY <1>0, <1>1, FrontFacts
<1>3. Hop(t, f.acc, f.s) \in edges
  <2>1. Linked(edges, st_blue) /\ Len(st_blue) \in 2..Len(st_blue)
    BY <1>0 DEF Lasso
  <2>2. [src |-> st_blue[Len(st_blue) - 1].s, cond |-> TRUE, acc |-> st_blue[Len(st_blue)].acc,
         dst |-> st_blue[Len(st_blue)].s] \in edges
    BY <2>1 DEF Linked
  <2>3. QED
    BY <1>1, <2>2 DEF Hop, Last
<1>4. /\ IsStack(edges, st_red') /\ st_red' # << >> /\ States(st_red') = {f.s}
      /\ Ahead(st_red') = succ_iter(edges, f.s)
      /\ Linked(edges, st_red') /\ st_red'[1].s = f.s /\ st_red'[1].acc = f.acc
      /\ target' = t
      /\ color' \in [Slot -> Color]
      /\ get_color(f.s)' = "RED" /\ ~is_white(f.s)'
      /\ \A u \in State : ~is_white(u) => ~is_white(u)'
      /\ Safe => \A u \in State : u # f.s => /\ get_color(u)' = get_color(u)
                                             /\ is_white(u)' <=> is_white(u)
      /\ pc' = "red" /\ result' = result
  <2>1. StartRed(t, f.s, f.label, f.acc)
    BY DEF BlueBackStartRed
  <2>2. QED
    BY ONLY <1>0, <1>2, <2>1, StartRedFacts
<1>5. \A g : Along(st_blue, g) => Along(st_blue', g) \/ (g.src = t /\ g.dst = f.s)
  BY <1>0, <1>1, PopLinked
<1>6. TypeOK' /\ Stacks'
  BY <1>0, <1>2, <1>4 DEF TypeOK, Stacks, IsStack
<1>7. Phases'
  BY <1>0, <1>1, <1>4, TwaAssumption DEF Phases
<1>8. Colored'
  BY <1>0, <1>4 DEF Colored
<1>9. Lasso'
  BY <1>0, <1>1, <1>3, <1>4 DEF Lasso
<1>10. ASSUME Safe PROVE Explored'
  <2>1. \A g \in Live(edges) : is_white(g.src)' \/ ~is_white(g.dst)' \/ g \in Ahead(st_blue')
    BY <1>0, <1>4, <1>10, EdgeFacts DEF Explored
  <2>2. \A s \in State : ~is_white(s)' => s \in Reach(Live(edges), s0)
    BY <1>0, <1>4, <1>10 DEF Explored
  <2>3. QED
    BY <1>0, <2>1, <2>2 DEF Explored
<1>11. ASSUME Safe, result = "none" PROVE First'
  <2>1. First
    BY <1>11
  <2>2. get_color(target)' # "RED"
    <3>1. get_color(t) # "RED" /\ get_color(t)' = get_color(t)
      BY <1>0, <1>2, <1>4, <1>11, <2>1 DEF First
    <3>2. QED
      BY <1>4, <3>1 DEF get_color
  <2>3. ASSUME NEW g \in Live(edges), get_color(g.src)' = "RED"
        PROVE  get_color(g.dst)' = "RED" \/ g \in Ahead(st_red')
    <3>1. g \in edges /\ g.src \in State /\ g.dst \in State
      BY <1>0, EdgeFacts
    <3>2. CASE g.src = f.s
      BY <1>4, <3>1, <3>2 DEF succ_iter
    <3>3. CASE g.src # f.s
      BY <1>0, <1>4, <1>11, <2>1, <2>3, <3>1, <3>3 DEF First
    <3>4. QED
      BY <3>2, <3>3
  <2>4. ASSUME NEW g \in Live(edges), accepting(g.acc), ~is_white(g.src)'
        PROVE  \/ g \in Ahead(st_blue') \/ Along(st_blue', g)
               \/ g.src \in States(st_blue') /\ get_color(g.dst)' = "RED"
               \/ g.src \notin Reach(Live(edges), g.dst)
    <3>1. g \in edges /\ g.src \in State /\ g.dst \in State
      BY <1>0, EdgeFacts
    <3>2. ~is_white(g.src)
      BY <1>0, <1>4, <1>11, <2>4, <3>1
    <3>3. CASE Along(st_blue, g)
      BY <1>2, <1>4, <1>5, <3>3
    <3>4. CASE g.src \in States(st_blue) /\ get_color(g.dst) = "RED"
      BY <1>0, <2>1, <3>4, RedClosed
    <3>5. QED
      BY <1>0, <2>1, <2>4, <3>2, <3>3, <3>4 DEF First
  <2>5. QED
    BY <1>0, <1>4, <2>2, <2>3, <2>4 DEF First
<1>12. QED
  BY <1>4, <1>6, <1>7, <1>8, <1>9, <1>10, <1>11

(* dfs_blue() backtracks.                                                  *)
LEMMA BlueBackPopInv ==
  ASSUME Inv, BlueBackPop, NEW f, f = Last(st_blue)
  PROVE  Inv'
<1> USE DEF Inv, BlueBackPop, BlueDoneWith
<1>0. /\ TypeOK /\ edges \in SUBSET Edge /\ st_red = << >> /\ result # "null"
      /\ f.s \in State /\ f.s \in States(st_blue) /\ ~is_white(f.s)
      /\ States(st_blue) \subseteq State
      /\ IsStack(edges, st_blue') /\ Distinct(st_blue') /\ f.s \notin States(st_blue')
      /\ States(st_blue) = States(st_blue') \cup {f.s} /\ Ahead(st_blue') = Ahead(st_blue)
      /\ Linked(edges, st_blue') /\ (st_blue' # << >> => st_blue'[1].s = s0)
      /\ pc = "blue" /\ st_blue \in Seq(Item) /\ st_blue # << >>
      /\ ~(Len(st_blue) > 1 /\ accepting(f.acc) /\ get_color(f.s) # "RED")
  BY BlueBackFacts DEF Backtracked
<1>1. \A s : get_color(s)' = get_color(s) /\ (is_white(s)' <=> is_white(s))
  BY DEF get_color, is_white
<1>2. TypeOK' /\ Stacks'
  BY <1>0 DEF TypeOK, Stacks, IsStack
<1>3. Phases' /\ Colored'
  BY <1>0, <1>1, EmptyStack DEF Phases, Colored
<1>4. Lasso'
  BY <1>0 DEF Lasso
<1>5. ASSUME Safe PROVE Explored'
  BY <1>0, <1>1, <1>5 DEF Explored
<1>6. ASSUME Safe, result = "none" PROVE First'
  <2>1. First /\ get_color(f.s) # "RED"
    BY <1>0, <1>6 DEF First
  <2>2. ASSUME NEW g \in Live(edges), accepting(g.acc), ~is_white(g.src)
        PROVE  \/ g \in Ahead(st_blue') \/ Along(st_blue', g)
               \/ g.src \notin Reach(Live(edges), g.dst)
    <3>1. CASE Along(st_blue, g)
      <4>1. \/ Along(st_blue', g)
            \/ Len(st_blue) > 1 /\ g.acc = f.acc
        BY <1>0, <3>1, PopLinked
      <4>2. QED
        BY <1>0, <2>1, <2>2, <4>1
    <3>2. CASE g.src \in States(st_blue) /\ get_color(g.dst) = "RED"
      BY <1>0, <2>1, <3>2, RedClosed
    <3>3. QED
      BY <1>0, <2>1, <2>2, <3>1, <3>2 DEF First
  <2>3. QED
    BY <1>0, <1>1, <2>1, <2>2 DEF First
<1>7. QED
  BY <1>2, <1>3, <1>4, <1>5, <1>6

-----------------------------------------------------------------------------
(* An edge that the red dfs is on.                                         *)
LEMMA RedEdgeFacts ==
  ASSUME Inv, NEW e, RedEdge(e)
  PROVE  /\ TypeOK /\ pc = "red" /\ st_red # << >> /\ e \in edges /\ edges \in SUBSET Edge
         /\ st_red \in Seq(Item) /\ IsStack(edges, st_red)
         /\ e.src = Last(st_red).s /\ e.src \in States(st_red)
         /\ e.src \in State /\ e.dst \in State /\ e.acc \in SUBSET Mark /\ e.cond \in BOOLEAN
         /\ e.cond => e \in Live(edges) /\ e.dst \in Reach(Live(edges), e.src)
         /\ States(st_red) \subseteq State /\ States(st_blue) \subseteq State
         /\ st_blue # << >> /\ target = Last(st_blue).s /\ target \in State /\ result # "null"
<1>1. /\ TypeOK /\ pc = "red" /\ st_red # << >> /\ e \in Last(st_red).it
      /\ IsStack(edges, st_red) /\ edges \in SUBSET Edge /\ result # "null" /\ st_red \in Seq(Item)
      /\ st_blue # << >> /\ target = Last(st_blue).s /\ target \in State /\ IsStack(edges, st_blue)
  BY DEF Inv, Phases, RedEdge, IsOn, TypeOK, Stacks
<1>2. /\ e \in edges /\ e.src = Last(st_red).s /\ e.src \in States(st_red)
      /\ States(st_red) \subseteq State
  BY <1>1, FrontFacts
<1>3. States(st_blue) \subseteq State
  BY <1>1, FrontFacts
<1>4. /\ e.src \in State /\ e.dst \in State /\ e.acc \in SUBSET Mark /\ e.cond \in BOOLEAN
  BY <1>1, <1>2, EdgeFacts
<1>5. e.cond => e \in Live(edges) /\ e.dst \in Reach(Live(edges), e.src)
  BY <1>1, <1>2, EdgeFacts, ReachEdge
<1>6. QED
  BY <1>1, <1>2, <1>3, <1>4, <1>5

(* What next() on the red stack leaves as it was.                          *)
LEMMA RedNextFacts ==
  ASSUME Inv, NEW e, RedEdge(e), NEW n, n = next(st_red, e)
  PROVE  /\ IsStack(edges, n) /\ n # << >> /\ n \in Seq(Item)
         /\ States(n) = States(st_red) /\ Last(n).s = e.src
         /\ Ahead(st_red) \subseteq Ahead(n) \cup {e}
         /\ Linked(edges, n) /\ n[1].s = st_red[1].s /\ n[1].acc = st_red[1].acc
<1>1. st_red # << >> /\ IsStack(edges, st_red) /\ st_red \in Seq(Item) /\ e.src = Last(st_red).s
  BY RedEdgeFacts
<1>2. /\ IsStack(edges, n) /\ n # << >> /\ n \in Seq(Item)
      /\ States(n) = States(st_red) /\ Last(n).s = e.src
      /\ Ahead(st_red) \subseteq Ahead(n) \cup {e}
  BY <1>1, NextStack DEF IsStack
<1>3. Linked(edges, n) /\ n[1].s = st_red[1].s /\ n[1].acc = st_red[1].acc
  BY <1>1, NextLinked DEF Inv, Lasso
<1>4. QED
  BY <1>2, <1>3

(* dfs_red() passes over an edge, labelled by false or to a state that is  *)
(* white or red.                                                           *)
LEMMA RedPassInv ==
  ASSUME Inv, NEW e, RedEdge(e), st_red' = next(st_red, e),
         UNCHANGED <<edges, color, st_blue, target, pc, result>>,
         e.cond => is_white(e.dst) \/ get_color(e.dst) = "RED"
  PROVE  Inv'
<1> USE DEF Inv
<1>0. /\ pc = "red" /\ st_red # << >> /\ e \in edges /\ result # "null"
      /\ e \in Live(edges) => is_white(e.dst) \/ get_color(e.dst) = "RED"
  BY RedEdgeFacts DEF Live
<1>1. /\ IsStack(edges, st_red') /\ st_red' # << >>
      /\ States(st_red') = States(st_red)
      /\ Ahead(st_red) \subseteq Ahead(st_red') \cup {e}
      /\ Linked(edges, st_red') /\ st_red'[1].s = st_red[1].s /\ st_red'[1].acc = st_red[1].acc
  BY RedNextFacts
<1>2. \A s : get_color(s)' = get_color(s) /\ (is_white(s)' <=> is_white(s))
  BY DEF get_color, is_white
<1>3. TypeOK' /\ Stacks'
  BY <1>1 DEF TypeOK, Stacks, IsStack
<1>4. Phases' /\ Colored'
  BY <1>0, <1>1, <1>2 DEF Phases, Colored
<1>5. Lasso'
  BY <1>0, <1>1 DEF Lasso
<1>6. ASSUME Safe PROVE Explored'
  BY <1>0, <1>1, <1>2, <1>6 DEF Explored
<1>7. ASSUME Safe, result = "none" PROVE First'
  <2>1. First
    BY <1>7
  <2>2. QED
    BY <1>0, <1>1, <1>2, <2>1 DEF First
<1>8. QED
  BY <1>3, <1>4, <1>5, <1>6, <1>7

(* The red stack after dfs_red() has gone over e to a blue state.          *)
LEMMA RedPushFacts ==
  ASSUME Inv, NEW e, RedEdge(e), e \in Live(edges), NEW label, label \in BOOLEAN, NEW p,
         p = push(next(st_red, e), edges, e.dst, label, e.acc)
  PROVE  /\ IsStack(edges, p) /\ p # << >> /\ States(p) = States(st_red) \cup {e.dst}
         /\ Ahead(st_red) \subseteq Ahead(p) \cup {e} /\ succ_iter(edges, e.dst) \subseteq Ahead(p)
         /\ Linked(edges, p) /\ p[1].s = st_red[1].s /\ p[1].acc = st_red[1].acc
         /\ Last(p).s = e.dst
<1>0. /\ TypeOK /\ edges \in SUBSET Edge /\ e \in edges /\ e.dst \in State /\ e.acc \in SUBSET Mark
      /\ label \in BOOLEAN /\ e \in Live(edges) /\ e.dst \in Reach(Live(edges), e.src)
  BY RedEdgeFacts DEF Live
<1> DEFINE n == next(st_red, e)
<1>1. /\ IsStack(edges, n) /\ n # << >> /\ n \in Seq(Item)
      /\ States(n) = States(st_red) /\ Last(n).s = e.src
      /\ Ahead(st_red) \subseteq Ahead(n) \cup {e}
      /\ Linked(edges, n) /\ n[1].s = st_red[1].s /\ n[1].acc = st_red[1].acc
  BY RedNextFacts
<1> HIDE DEF n
<1>2. p = push(n, edges, e.dst, label, e.acc)
  BY DEF n
<1>3. /\ IsStack(edges, p) /\ p # << >> /\ States(p) = States(n) \cup {e.dst}
      /\ Ahead(p) = Ahead(n) \cup succ_iter(edges, e.dst)
  BY ONLY <1>0, <1>1, <1>2, PushStack
<1>4. p[1] = n[1]
  BY ONLY <1>0, <1>1, <1>2, PushBottom
<1>5. Last(p).s = e.dst
  BY ONLY <1>0, <1>1, <1>2, PushTop
<1>6. Hop(Last(n).s, e.acc, e.dst) \in edges
  BY <1>0, <1>1, EdgeFacts
<1>7. Linked(edges, p)
  BY ONLY <1>0, <1>1, <1>2, <1>6, PushLinked
<1>8. QED
  BY <1>1, <1>3, <1>4, <1>5, <1>7

(* dfs_red() goes down an edge to a blue state, which may be the target.   *)
LEMMA RedDownInv == ASSUME Inv, NEW e, RedDown(e) PROVE Inv'
<1> USE DEF Inv, RedDown
<1>0. /\ TypeOK /\ pc = "red" /\ st_red # << >> /\ e \in edges /\ e.dst \in State /\ result # "null"
      /\ e.cond /\ get_color(e.dst) = "BLUE" /\ ~is_white(e.dst)
      /\ States(st_red) \subseteq State /\ States(st_blue) \subseteq State /\ target \in State
      /\ color \in [Slot -> Color] /\ edges \in SUBSET Edge
  BY RedEdgeFacts DEF is_white, get_color, TypeOK
<1>1. /\ IsStack(edges, st_red') /\ st_red' # << >> /\ States(st_red') = States(st_red) \cup {e.dst}
      /\ Ahead(st_red) \subseteq Ahead(st_red') \cup {e} /\ succ_iter(edges, e.dst) \subseteq Ahead(st_red')
      /\ Linked(edges, st_red') /\ st_red'[1].s = st_red[1].s /\ st_red'[1].acc = st_red[1].acc
      /\ Last(st_red').s = e.dst
  <2>1. Inv /\ RedEdge(e) /\ e \in Live(edges)
    BY <1>0 DEF Live
  <2>2. e.cond \in BOOLEAN /\ st_red' = push(next(st_red, e), edges, e.dst, e.cond, e.acc)
    BY RedEdgeFacts
  <2>3. PICK label \in BOOLEAN : st_red' = push(next(st_red, e), edges, e.dst, label, e.acc)
    BY <2>2
  <2>4. QED
    BY ONLY <2>1, <2>3, RedPushFacts
<1>2. /\ color' \in [Slot -> Color]
      /\ get_color(e.dst)' = "RED" /\ ~is_white(e.dst)'
      /\ \A t \in State : ~is_white(t) => ~is_white(t)'
      /\ Safe => \A t \in State : t # e.dst => /\ get_color(t)' = get_color(t)
                                               /\ is_white(t)' <=> is_white(t)
  BY <1>0, ColorFacts
<1>3. \/ pc' = "idle" /\ result' = "run" /\ target = e.dst
      \/ pc' = "red" /\ result' = result /\ target # e.dst
  BY <1>0
<1>4. TypeOK' /\ Stacks'
  BY <1>1, <1>2, <1>3 DEF TypeOK, Stacks, IsStack
<1>5. Phases'
  BY <1>0, <1>2, <1>3, TwaAssumption DEF Phases
<1>6. Colored'
  BY <1>0, <1>1, <1>2 DEF Colored
<1>7. Lasso'
  BY <1>0, <1>1, <1>3 DEF Lasso
<1>8. ASSUME Safe PROVE Explored'
  <2>1. \A g \in Live(edges) : is_white(g.src)' \/ ~is_white(g.dst)' \/ g \in Ahead(st_blue)
    BY <1>0, <1>2, <1>8, EdgeFacts DEF Explored
  <2>2. \A s \in State : ~is_white(s)' => s \in Reach(Live(edges), s0)
    BY <1>0, <1>2, <1>8 DEF Explored
  <2>3. QED
    BY <2>1, <2>2 DEF Explored
<1>9. ASSUME Safe, result' = "none" PROVE First'
  <2>1. First /\ pc' = "red" /\ target # e.dst
    BY <1>3, <1>9
  <2>2. get_color(target)' # "RED"
    <3>1. get_color(target) # "RED"
      BY <1>0, <2>1 DEF First
    <3>2. \A t \in State : t # e.dst => get_color(t)' = get_color(t)
      BY <1>2, <1>9
    <3>3. QED
      BY <1>0, <2>1, <3>1, <3>2 DEF get_color
  <2>3. ASSUME NEW g \in Live(edges), get_color(g.src)' = "RED"
        PROVE  get_color(g.dst)' = "RED" \/ is_white(g.dst)' \/ g \in Ahead(st_red')
    <3>1. g \in edges /\ g.src \in State /\ g.dst \in State
      BY <1>0, EdgeFacts
    <3>2. CASE g.src = e.dst
      BY <1>1, <3>1, <3>2 DEF succ_iter
    <3>3. CASE g.src # e.dst
      <4>1. get_color(g.dst) = "RED" \/ is_white(g.dst) \/ g \in Ahead(st_red)
        BY <1>2, <1>9, <2>1, <2>3, <3>1, <3>3 DEF First
      <4>2. QED
        BY <1>1, <1>2, <1>9, <3>1, <4>1
    <3>4. QED
      BY <3>2, <3>3
  <2>4. \A s \in State : is_white(s)' <=> is_white(s)
    BY <1>0, <1>2, <1>9
  <2>5. \A s \in State : get_color(s) = "RED" => get_color(s)' = "RED"
    BY <1>2, <1>9
  <2>6. ASSUME NEW g \in Live(edges), accepting(g.acc), ~is_white(g.src)'
        PROVE  \/ g \in Ahead(st_blue) \/ Along(st_blue, g)
               \/ g.src \in States(st_blue) /\ get_color(g.dst)' = "RED"
               \/ g.src \notin Reach(Live(edges), g.dst)
    BY <1>0, <2>1, <2>4, <2>5, <2>6, EdgeFacts DEF First
  <2>7. QED
    BY <1>0, <2>1, <2>2, <2>3, <2>6 DEF First
<1>10. QED
  BY <1>4, <1>5, <1>6, <1>7, <1>8, <1>9

(* dfs_red() backtracks.                                                   *)
LEMMA RedPopInv == ASSUME Inv, RedPop PROVE Inv'
<1> USE DEF Inv, RedPop
<1>0. /\ pc = "red" /\ st_red # << >> /\ IsStack(edges, st_red) /\ st_red \in Seq(Item)
      /\ Last(st_red).it = {}
  BY DEF TypeOK, Stacks, Done
<1>1. IsStack(edges, st_red') /\ States(st_red') \subseteq States(st_red)
  BY <1>0, PopStack
<1>2. Ahead(st_red) = Ahead(st_red') \cup Last(st_red).it
  BY <1>0, PopStack
<1>3. Ahead(st_red') = Ahead(st_red)
  BY <1>0, <1>2
<1>4. /\ Linked(edges, st_red) => Linked(edges, st_red')
      /\ st_red' # << >> => st_red'[1] = st_red[1]
  BY <1>0, PopLinked
<1>5. \A s : get_color(s)' = get_color(s) /\ (is_white(s)' <=> is_white(s))
  BY DEF get_color, is_white
<1>6. TypeOK' /\ Stacks'
  BY <1>1 DEF TypeOK, Stacks, IsStack
<1>7. Phases' /\ Colored'
  BY <1>0, <1>1, <1>5 DEF Phases, Colored
<1>8. Lasso'
  BY <1>0, <1>4 DEF Lasso
<1>9. Safe => Explored'
  BY <1>5 DEF Explored
<1>10. Safe /\ result = "none" => First'
  BY <1>0, <1>3, <1>5 DEF First
<1>11. QED
  BY <1>6, <1>7, <1>8, <1>9, <1>10

(* The end of a red dfs that found nothing, in the first call: were a      *)
(* state of the blue stack red, redness would have climbed the stack to    *)
(* the target.  Hence the white states that the red dfs passed over were   *)
(* ends of no edge from a red state.                                       *)
LEMMA RedEnds ==
  ASSUME Inv, Safe, result = "none", pc = "red", st_red = << >>
  PROVE  /\ \A s \in States(st_blue) : get_color(s) # "RED"
         /\ \A e \in Live(edges) : get_color(e.src) = "RED" => get_color(e.dst) = "RED"
<1> DEFINE C == {s \in State : get_color(s) = "RED"}
<1>1. /\ Explored /\ First /\ Colored /\ TypeOK /\ st_blue \in Seq(Item) /\ IsStack(edges, st_blue)
      /\ edges \in SUBSET Edge /\ Linked(edges, st_blue)
      /\ st_blue # << >> /\ target = Last(st_blue).s /\ get_color(target) # "RED"
  BY DEF Inv, TypeOK, Stacks, Phases, Lasso, First
<1>2. \A e \in Live(edges) : get_color(e.src) = "RED" => get_color(e.dst) = "RED" \/ is_white(e.dst)
  BY <1>1, EmptyStack DEF First
<1>3. ASSUME NEW i \in 2..Len(st_blue), st_blue[i - 1].s \in C PROVE st_blue[i].s \in C
  <2> DEFINE e == Hop(st_blue[i - 1].s, st_blue[i].acc, st_blue[i].s)
  <2>1. e \in edges /\ e.cond /\ e.src = st_blue[i - 1].s /\ e.dst = st_blue[i].s
    BY <1>1 DEF Linked, Hop
  <2> HIDE DEF e
  <2>2. e \in Live(edges) /\ e.dst \in State
    BY <1>1, <2>1, EdgeFacts
  <2>3. i \in 1..Len(st_blue)
    BY <1>1
  <2>4. e.dst \in States(st_blue)
    BY <2>1, <2>3 DEF States
  <2>5. QED
    BY <1>1, <1>2, <1>3, <2>1, <2>2, <2>4 DEF Colored
<1>4. ASSUME NEW s \in States(st_blue) PROVE get_color(s) # "RED"
  <2>1. PICK k \in 1..Len(st_blue) : s = st_blue[k].s
    BY DEF States
  <2>2. s \in State
    BY <1>1, FrontFacts
  <2>3. ~(st_blue[k].s \in C)
    <3>1. Last(st_blue).s \notin C
      BY <1>1
    <3> HIDE DEF C
    <3>2. QED
      BY ONLY <1>1, <1>3, <3>1, k \in 1..Len(st_blue), ClimbStack
  <2>4. QED
    BY <2>1, <2>2, <2>3
<1>5. ASSUME NEW e \in Live(edges), get_color(e.src) = "RED" PROVE ~is_white(e.dst)
  <2>1. ~is_white(e.src)
    BY <1>5 DEF is_white, get_color
  <2>2. e \notin Ahead(st_blue)
    BY <1>1, <1>4, <1>5, AheadFacts
  <2>3. QED
    BY <1>1, <2>1, <2>2 DEF Explored
<1>6. QED
  BY <1>2, <1>4, <1>5

(* The steps that change no stack.                                         *)
LEMMA ReturnInv ==
  ASSUME Inv, RedReturn \/ BlueReturn \/ UNCHANGED vars
  PROVE  Inv'
<1> USE DEF Inv
<1>0. UNCHANGED <<edges, color, st_blue, st_red, target>>
  BY DEF RedReturn, BlueReturn, vars
<1>1. \A s : get_color(s)' = get_color(s) /\ (is_white(s)' <=> is_white(s))
  BY <1>0 DEF get_color, is_white
<1>2. CASE UNCHANGED vars
  BY <1>2 DEF vars, TypeOK, Stacks, Phases, Colored, Lasso, Explored, First, get_color, is_white
<1>3. TypeOK' /\ Stacks' /\ Colored'
  BY <1>0, <1>1 DEF RedReturn, BlueReturn, vars, TypeOK, Stacks, Colored
<1>4. Safe => Explored'
  BY <1>0, <1>1 DEF Explored
<1>5. CASE RedReturn
  <2> USE <1>5 DEF RedReturn
  <2>1. Phases' /\ Lasso'
    BY <1>0, <1>1 DEF Phases, Lasso
  <2>2. ASSUME Safe, result = "none" PROVE First'
    <3>1. First
      BY <2>2
    <3>2. /\ \A s \in States(st_blue) : get_color(s) # "RED"
          /\ \A e \in Live(edges) : get_color(e.src) = "RED" => get_color(e.dst) = "RED"
      BY <2>2, RedEnds
    <3>3. QED
      BY <1>0, <1>1, <3>1, <3>2 DEF First
  <2>3. QED
    BY <1>3, <1>4, <2>1, <2>2
<1>6. CASE BlueReturn
  <2> USE <1>6 DEF BlueReturn
  <2>1. Phases' /\ Lasso'
    BY <1>0, <1>1 DEF Phases, Lasso
  <2>2. QED
    BY <1>3, <1>4, <2>1
<1>7. QED
  BY <1>2, <1>5, <1>6

(* Every step keeps the invariant.                                         *)
LEMMA NextInv == Inv /\ [Next]_vars => Inv'
<1> SUFFICES ASSUME Inv, [Next]_vars PROVE Inv'
  OBVIOUS
<1>1. ASSUME NEW e \in edges, BlueSkip(e) \/ BlueIgnore(e) PROVE Inv'
  BY <1>1, BluePassInv DEF BlueSkip, BlueIgnore
<1>2. CASE dfs_blue
  BY <1>1, <1>2, BlueDownInv, BlueStartRedInv, BlueBackStartRedInv, BlueBackPopInv, ReturnInv
     DEF dfs_blue
<1>3. ASSUME NEW e \in edges, RedSkip(e) \/ RedWhite(e) \/ RedIgnore(e) PROVE Inv'
  BY <1>3, RedPassInv DEF RedSkip, RedWhite, RedIgnore
<1>4. CASE dfs_red
  BY <1>3, <1>4, RedDownInv, RedPopInv, ReturnInv DEF dfs_red
<1>5. CASE Finished \/ UNCHANGED vars
  BY <1>5, ReturnInv DEF Finished
<1>6. QED
  BY <1>2, <1>4, <1>5, CheckInv, CheckAgainInv DEF Next

(* The inductive invariant holds throughout.                               *)
LEMMA SpecInv == Spec => []Inv
BY InitInv, NextInv, PTL DEF Spec

-----------------------------------------------------------------------------
(* The type of the search object, whatever the automaton and the hash      *)
(* function: push() pairs each state on a stack with an iterator over its  *)
(* own successors.                                                         *)
THEOREM TypeCorrect == Spec => []TypeOK
<1>1. Inv => TypeOK
  BY DEF Inv
<1>2. QED
  BY <1>1, SpecInv, PTL

(* What the stacks hold when a result is returned.                         *)
LEMMA InvRun == Inv => RunIsAccepting
<1> SUFFICES ASSUME Inv, pc = "idle", result = "run" PROVE RunOnStacks
  BY DEF RunIsAccepting
<1>1. /\ edges \in SUBSET Edge /\ st_blue \in Seq(Item) /\ st_red \in Seq(Item)
      /\ IsStack(edges, st_red)
      /\ is_weak(edges) \/ Mark = {} \/ is_buchi
  BY DEF Inv, TypeOK, Stacks
<1>2. /\ Linked(edges, st_blue) /\ Linked(edges, st_red)
      /\ st_red # << >> /\ Last(st_red).s = target
      /\ st_blue # << >> /\ target = Last(st_blue).s /\ accepting(st_red[1].acc)
      /\ Hop(target, st_red[1].acc, st_red[1].s) \in edges /\ st_blue[1].s = s0
  BY DEF Inv, Lasso
<1>3. Last(st_blue) \in Item /\ target \in State
  BY <1>1, <1>2, StackFacts DEF Inv, TypeOK
<1>4. Linked(edges, <<Last(st_blue)>> \o st_red)
  BY <1>1, <1>2, <1>3, JoinLinked
<1>5. accepting(UNION {st_red[i].acc : i \in DOMAIN st_red})
  BY <1>1, <1>2, <1>3, MagicAssumption, CycleOnStack
<1>6. QED
  BY <1>2, <1>4, <1>5 DEF RunOnStacks

(* Whenever check() has returned a result, the stacks from which           *)
(* accepting_run() builds its answer are an accepting lasso: for every     *)
(* automaton the constructor lets through and every hash function, hence   *)
(* for bit-state hashing too, in the first call and in every later one.    *)
THEOREM Sound == Spec => []RunIsAccepting
BY InvRun, SpecInv, PTL

(* A reported lasso is one of the automaton.                               *)
LEMMA ReportedIsNonEmpty == Inv /\ pc = "idle" /\ result = "run" => NonEmpty(edges)
<1> SUFFICES ASSUME Inv, pc = "idle", result = "run"
             PROVE  NonEmpty(edges)
  OBVIOUS
<1> DEFINE L == Live(edges)
           e == Hop(target, st_red[1].acc, st_red[1].s)
<1>1. /\ edges \in SUBSET Edge /\ IsStack(edges, st_blue) /\ IsStack(edges, st_red)
      /\ st_blue \in Seq(Item) /\ st_red \in Seq(Item)
      /\ is_weak(edges) \/ Mark = {} \/ is_buchi
  BY DEF Inv, TypeOK, Stacks
<1>2. /\ st_red # << >> /\ Last(st_red).s = target
      /\ st_blue # << >> /\ target = Last(st_blue).s /\ accepting(st_red[1].acc)
      /\ e \in edges /\ st_blue[1].s = s0
  BY DEF Inv, Lasso
<1>3. e.src = target /\ e.acc = st_red[1].acc /\ e.dst = st_red[1].s /\ e.cond
  BY DEF Hop
<1> HIDE DEF e
<1>4. e \in L
  BY <1>1, <1>2, <1>3, EdgeFacts
<1>5. 1 \in 1..Len(st_blue) /\ 1 \in 1..Len(st_red)
  BY <1>1, <1>2, StackFacts
<1>6. s0 \in States(st_blue) /\ st_red[1].s \in States(st_red)
  BY <1>2, <1>5 DEF States
<1>7. target \in Reach(L, s0) /\ target \in Reach(L, st_red[1].s)
  BY <1>1, <1>2, <1>6, FrontFacts
<1>8. QED
  BY <1>1, <1>2, <1>3, <1>4, <1>7, TwaAssumption, MagicAssumption, AcceptingEdge

(* A null pointer as the first answer of an explicit search: no accepting  *)
(* edge that can be reached is on a cycle.                                 *)
LEMMA NullIsEmpty ==
  ASSUME Inv, Safe, BlueReturn, result = "none"
  PROVE  ~NonEmpty(edges)
<1> DEFINE L == Live(edges)
           C == {s \in State : ~is_white(s)}
<1>1. /\ edges \in SUBSET Edge /\ Explored /\ First /\ st_blue = << >> /\ pc = "blue"
      /\ is_weak(edges) \/ Mark = {} \/ is_buchi
  BY DEF Inv, BlueReturn, TypeOK, Stacks
<1>2. Ahead(st_blue) = {} /\ States(st_blue) = {}
  BY <1>1, EmptyStack
<1>3. \A e : ~Along(st_blue, e)
  BY <1>1 DEF Along
<1>4. s0 \in C /\ C \in SUBSET State
  BY <1>1, TwaAssumption DEF Inv, Phases
<1>5. Closed(L, C)
  BY <1>1, <1>2, EdgeFacts DEF Closed, Explored
<1>6. Reach(L, s0) \subseteq C
  BY <1>4, <1>5, ReachInClosed
<1>7. \A e \in L : accepting(e.acc) /\ e.src \in Reach(L, s0) => e.src \notin Reach(L, e.dst)
  BY <1>1, <1>2, <1>3, <1>6 DEF First
<1>8. QED
  BY <1>1, <1>7, TwaAssumption, MagicAssumption, AcceptingEdge

(* The automaton of a search is fixed.                                     *)
LEMMA EdgesStay == [Next]_vars => UNCHANGED edges
BY DEF Next, dfs_blue, dfs_red, Check, CheckAgain, BlueSkip, BlueDown, BlueStartRed,
       BlueIgnore, BlueBackStartRed, BlueBackPop, BlueReturn, RedSkip, RedWhite, RedDown,
       RedIgnore, RedPop, RedReturn, Finished, vars

(* Every step of an explicit search answers as emptiness.hh promises.      *)
LEMMA StepAnswers ==
  ASSUME Inv, [Next]_vars, Safe
  PROVE  /\ UNCHANGED edges
         /\ \/ UNCHANGED result
            \/ result = "none" /\ result' = "run" /\ NonEmpty(edges)
            \/ result = "none" /\ result' = "null" /\ ~NonEmpty(edges)
            \/ result = "run" /\ result' = "null"
<1>1. UNCHANGED edges
  BY EdgesStay
<1>2. pc' = "idle" /\ result' = "run" => NonEmpty(edges)
  <2>1. Inv'
    BY NextInv
  <2>2. Inv' /\ (pc = "idle")' /\ (result = "run")' => NonEmpty(edges)'
    BY ReportedIsNonEmpty, PTL
  <2>3. NonEmpty(edges)' <=> NonEmpty(edges)
    BY <1>1 DEF NonEmpty, Live, Reach, Closed
  <2>4. QED
    BY <2>1, <2>2, <2>3
<1>3. pc # "idle" => result \in {"none", "run"}
  BY DEF Inv, TypeOK, Phases
<1>4. ASSUME NEW e \in edges, BlueStartRed(e)
      PROVE  UNCHANGED result \/ (pc # "idle" /\ pc' = "idle" /\ result' = "run")
  BY <1>4 DEF BlueStartRed, BlueEdge, StartRed
<1>5. ASSUME BlueBackStartRed
      PROVE  UNCHANGED result \/ (pc # "idle" /\ pc' = "idle" /\ result' = "run")
  BY <1>5 DEF BlueBackStartRed, BlueDoneWith, StartRed
<1>6. ASSUME NEW e \in edges, RedDown(e)
      PROVE  UNCHANGED result \/ (pc # "idle" /\ pc' = "idle" /\ result' = "run")
  BY <1>6 DEF RedDown, RedEdge
<1>7. CASE BlueReturn
  BY <1>1, <1>3, <1>7, NullIsEmpty DEF BlueReturn
<1>8. CASE UNCHANGED result \/ (pc # "idle" /\ pc' = "idle" /\ result' = "run")
  BY <1>1, <1>2, <1>3, <1>8
<1>9. QED
  BY <1>4, <1>5, <1>6, <1>7, <1>8
     DEF Next, dfs_blue, dfs_red, Check, CheckAgain, BlueSkip, BlueDown,
         BlueIgnore, BlueBackPop, RedSkip, RedWhite, RedIgnore, RedPop, RedReturn,
         Finished, vars

(* With one heap entry per state the magic search implements the promise   *)
(* of emptiness_check, for every automaton its constructor accepts: the    *)
(* first answer is right, although the red dfs passes over white states,   *)
(* and a null pointer is final.                                            *)
THEOREM MagicIsAnEmptinessCheck == ASSUME Safe PROVE Spec => ImplementsEmptinessCheck
<1>1. Init => EC!Init
  BY MagicAssumption DEF Init, magic_search, EC!Init, EC!Edge, Edge
<1>2. Inv /\ [Next]_vars => [EC!Next]_EC!vars
  <2> SUFFICES ASSUME Inv, [Next]_vars PROVE [EC!Next]_EC!vars
    OBVIOUS
  <2>1. NonEmpty(edges) <=> EC!NonEmpty(edges)
    BY DEF NonEmpty, Live, Reach, Closed, StronglyConnected, Touched, Marks, accepting,
           EC!NonEmpty, EC!Live, EC!Reach, EC!Closed, EC!StronglyConnected, EC!Touched,
           EC!Marks, EC!accepting
  <2>2. /\ UNCHANGED edges
        /\ \/ UNCHANGED result
           \/ result = "none" /\ result' = "run" /\ EC!NonEmpty(edges)
           \/ result = "none" /\ result' = "null" /\ ~EC!NonEmpty(edges)
           \/ result = "run" /\ result' = "null"
    BY <2>1, StepAnswers
  <2>3. EC!NonEmpty(edges) \in BOOLEAN
    BY DEF EC!NonEmpty
  <2>4. QED
    BY <2>2, <2>3 DEF EC!Next, EC!First, EC!Exhausted, EC!vars
<1>3. QED
  BY <1>1, <1>2, SpecInv, PTL DEF Spec, ImplementsEmptinessCheck, EC!Spec
=============================================================================
