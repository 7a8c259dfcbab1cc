---------------------------- MODULE Tau03Proofs ----------------------------
(***************************************************************************)
(* The nested depth-first search of tau03.cc is right, for every automaton *)
(* and any number of marks: between two propagations the marks are closed, *)
(* what check() reports lies on an accepting cycle, and it returns a null  *)
(* pointer only when there is no accepting run.                            *)
(***************************************************************************)
EXTENDS Tau03, NdfsStackProofs

TypeOK ==
  /\ edges \in SUBSET Edge
  /\ color \in [State -> {"WHITE", "BLUE"}]
  /\ marks \in [State -> SUBSET Mark]
  /\ IsStack(edges, st_blue) /\ Distinct(st_blue) /\ IsStack(edges, st_red)
  /\ succ \in SUBSET edges
  /\ acu \in SUBSET Mark
  /\ pc \in {"idle", "blue", "rescan", "red"}
  /\ result \in {"none", "run", "null"}
  /\ Mark # {} /\ Sat = {Mark}

(* The state of the front of the blue stack.                               *)
Top == Last(st_blue).s

(* What the phases of check() say about the stacks.                        *)
Phases ==
  /\ pc = "idle" /\ result = "none" => st_blue = << >> /\ \A s \in State : color[s] = "WHITE"
  /\ pc = "idle" /\ result = "run" => st_blue # << >> /\ accepting(marks[Top])
  /\ pc # "idle" => result = "none"
  /\ pc # "red" => st_red = << >>
  /\ pc \in {"rescan", "red"} => Done(st_blue) /\ \A e \in succ : e.src = Top

(* The visited states are reached from s0, and lead to no other ones but   *)
(* by edges the blue dfs has still to follow.                              *)
Visited ==
  /\ pc # "idle" => color[s0] # "WHITE"
  /\ \A s \in States(st_blue) : color[s] # "WHITE"
  /\ \A s \in State : color[s] # "WHITE" => s \in Reach(Live(edges), s0)
  /\ \A s \in State : color[s] = "WHITE" => marks[s] = {}
  /\ \A e \in Live(edges) :
       color[e.src] # "WHITE" => color[e.dst] # "WHITE" \/ e \in Ahead(st_blue)

(* m is the mark of an edge that s reaches and that leads to t.            *)
Between(m, s, t) ==
  \E e \in Live(edges) : /\ m \in e.acc /\ e.src \in Reach(Live(edges), s)
                         /\ t \in Reach(Live(edges), e.dst)

(* The marks of a state of the blue stack are on cycles through it; those  *)
(* that dfs_red() propagates, on paths from the front of the blue stack to *)
(* the states of the red one.                                              *)
MarksOnCycles ==
  /\ \A s \in States(st_blue) : \A m \in marks[s] : Between(m, s, s)
  /\ pc = "red" => \A s \in States(st_red) : \A m \in acu : Between(m, Top, s)

(* The states that have been popped from the blue stack.                   *)
Left(s) == color[s] # "WHITE" /\ s \notin States(st_blue)

(* The edges whose source has been left, or is about to.                   *)
Scanned(e) ==
  Left(e.src) \/ (pc \in {"rescan", "red"} /\ e.src = Top /\ e \notin succ)

Handed(e) == e.acc \cup marks[e.src] \subseteq marks[e.dst]

(* Of e, dfs_red() has still to propagate acu.                             *)
Pending(e) ==
  pc = "red" /\ e \in Ahead(st_red) /\ e.acc \cup (marks[e.src] \ acu) \subseteq marks[e.dst]

(* The marks are closed, but for what the running dfs_red() has to do.     *)
Propagated ==
  /\ \A e \in Live(edges) : Scanned(e) => Handed(e) \/ Pending(e)
  /\ pc = "red" => \A s \in States(st_red) : acu \subseteq marks[s]

(* No accepting cycle has been left.                                       *)
NoneLeft ==
  \A E \in SUBSET Live(edges) :
    StronglyConnected(E) /\ (\A s \in Touched(E) : Left(s)) => ~accepting(Marks(E))

Inv == TypeOK /\ Phases /\ Visited /\ MarksOnCycles /\ Propagated /\ NoneLeft

-----------------------------------------------------------------------------
(* The edges of a subset of the live ones lie between states.              *)
LEMMA LiveFacts ==
  ASSUME TypeOK
  PROVE  /\ Live(edges) \in SUBSET Edge /\ Live(edges) \subseteq edges
         /\ \A e \in edges : /\ e.src \in State /\ e.dst \in State
                             /\ e.acc \in SUBSET Mark /\ e.cond \in BOOLEAN
         /\ \A E \in SUBSET Live(edges) : Touched(E) \subseteq State
<1>1. \A e \in edges : /\ e.src \in State /\ e.dst \in State
                       /\ e.acc \in SUBSET Mark /\ e.cond \in BOOLEAN
  BY DEF TypeOK, Edge
<1>2. Live(edges) \in SUBSET Edge /\ Live(edges) \subseteq edges
  BY DEF TypeOK, Live
<1>3. \A E \in SUBSET Live(edges) : Touched(E) \subseteq State
  BY <1>1, <1>2 DEF Touched
<1>4. QED
  BY <1>1, <1>2, <1>3

(* The invariant of a new search.                                          *)
LEMMA InitInv ==
  ASSUME Automata \subseteq SUBSET Edge, Init
  PROVE  Inv
<1> USE DEF Init, tau03_search, is_generalized_buchi
<1>1. TypeOK
  BY EmptyStack DEF TypeOK
<1>2. Phases
  BY DEF Phases
<1>3. Visited
  BY <1>1, LiveFacts, EmptyStack DEF Visited
<1>4. MarksOnCycles
  BY EmptyStack DEF MarksOnCycles
<1>5. Propagated
  BY <1>1, LiveFacts DEF Propagated, Scanned, Left
<1>6. NoneLeft
  <2> SUFFICES ASSUME NEW E \in SUBSET Live(edges), StronglyConnected(E),
                      \A s \in Touched(E) : Left(s)
               PROVE  FALSE
    BY DEF NoneLeft
  <2>1. PICK e \in E : e.src \in Touched(E)
    BY DEF StronglyConnected, Touched
  <2>2. QED
    BY <1>1, <2>1, LiveFacts DEF Left
<1>7. QED
  BY <1>1, <1>2, <1>3, <1>4, <1>5, <1>6 DEF Inv

(* As long as no state is popped, no cycle is left.                        *)
LEMMA NoneLeftKept ==
  ASSUME TypeOK, NoneLeft, UNCHANGED edges, \A s \in State : Left(s)' => Left(s)
  PROVE  NoneLeft'
<1> SUFFICES ASSUME NEW E \in SUBSET Live(edges'), StronglyConnected(E),
                    \A s \in Touched(E) : Left(s)'
             PROVE  ~accepting(Marks(E))
  BY DEF NoneLeft
<1>1. E \in SUBSET Live(edges)
  OBVIOUS
<1>2. \A s \in Touched(E) : Left(s)
  BY <1>1, LiveFacts
<1>3. QED
  BY <1>1, <1>2 DEF NoneLeft

(* An edge that the blue dfs is on.                                        *)
LEMMA BlueEdgeFacts ==
  ASSUME TypeOK, Visited, NEW e, BlueEdge(e)
  PROVE  /\ st_blue # << >> /\ e \in edges /\ e.src = Top /\ e.src \in State /\ e.dst \in State
         /\ e.acc \in SUBSET Mark /\ e.cond \in BOOLEAN
         /\ color[e.src] # "WHITE" /\ e.src \in States(st_blue)
         /\ e.cond => e \in Live(edges) /\ e.dst \in Reach(Live(edges), e.src)
<1>1. st_blue # << >> /\ e \in Last(st_blue).it /\ IsStack(edges, st_blue) /\ edges \in SUBSET Edge
  BY DEF BlueEdge, IsOn, TypeOK
<1>2. e \in edges /\ e.src = Top /\ e.src \in States(st_blue)
  BY <1>1, FrontFacts DEF Top
<1>3. /\ e.src \in State /\ e.dst \in State /\ e.acc \in SUBSET Mark /\ e.cond \in BOOLEAN
  BY <1>2, LiveFacts
<1>4. e.cond => e \in Live(edges) /\ e.dst \in Reach(Live(edges), e.src)
  BY <1>2, LiveFacts, ReachEdge DEF Live
<1>5. QED
  BY <1>1, <1>2, <1>3, <1>4 DEF Visited

(* check() starts.                                                         *)
LEMMA CheckInv == ASSUME Inv, Check PROVE Inv'
<1> USE TwaAssumption DEF Inv, Check
<1>0. TypeOK /\ st_blue = << >> /\ st_red = << >> /\ \A s \in State : color[s] = "WHITE"
  BY DEF Phases
<1>1. /\ IsStack(edges, st_blue') /\ st_blue' # << >> /\ Distinct(st_blue')
      /\ States(st_blue') = {s0} /\ Ahead(st_blue') = succ_iter(edges, s0)
  <2>1. edges \in SUBSET Edge /\ {} \in SUBSET Mark /\ s0 \in State
    BY <1>0 DEF TypeOK
  <2>2. PICK label \in BOOLEAN : st_blue' = push(st_blue, edges, s0, label, {})
    BY Zenon
  <2>3. QED
    BY ONLY <1>0, <2>1, <2>2, PushFirst
<1>2. color' = [s \in State |-> IF s = s0 THEN "BLUE" ELSE "WHITE"]
  BY <1>0 DEF TypeOK
<1>3. TypeOK'
  BY <1>0, <1>1, <1>2 DEF TypeOK
<1>4. Phases'
  BY <1>0 DEF Phases
<1>5. s0 \in Reach(Live(edges), s0)
  BY <1>0, LiveFacts, ReachFacts
<1>6. Visited'
  <2>1. \A e \in Live(edges) : color'[e.src] # "WHITE" => e \in Ahead(st_blue')
    BY <1>0, <1>1, <1>2, LiveFacts DEF succ_iter
  <2>2. QED
    BY <1>0, <1>1, <1>2, <1>5, <2>1 DEF Visited
<1>7. marks[s0] = {}
  BY <1>0 DEF Visited
<1>8. MarksOnCycles'
  BY <1>1, <1>7 DEF MarksOnCycles
<1>9. \A s \in State : ~Left(s)'
  BY <1>1, <1>2 DEF Left
<1>10. Propagated'
  BY <1>0, <1>9, LiveFacts DEF Propagated, Scanned
<1>11. NoneLeft'
  BY <1>0, <1>9, NoneLeftKept
<1>12. QED
  BY <1>3, <1>4, <1>6, <1>8, <1>10, <1>11

(* dfs_blue() goes down an edge.                                           *)
LEMMA BlueDownInv == ASSUME Inv, NEW e, BlueDown(e) PROVE Inv'
<1> USE DEF Inv, BlueDown
<1> DEFINE n == next(st_blue, e)
<1>0. /\ TypeOK /\ Visited /\ st_blue # << >> /\ e \in Live(edges) /\ e.src = Top /\ pc = "blue"
      /\ e.dst \in State /\ e.acc \in SUBSET Mark /\ e.cond \in BOOLEAN /\ e.src \in State
      /\ e.dst \in Reach(Live(edges), Top) /\ color[Top] # "WHITE"
  BY BlueEdgeFacts DEF BlueEdge
<1>1. /\ IsStack(edges, n) /\ n # << >> /\ Distinct(n) /\ States(n) = States(st_blue)
      /\ Last(n).s = Top /\ Ahead(st_blue) \subseteq Ahead(n) \cup {e}
  BY <1>0, NextStack DEF TypeOK, Top
<1>2. e.dst \notin States(st_blue)
  BY DEF Visited
<1> HIDE DEF n
<1>3. st_blue' = push(n, edges, e.dst, e.cond, e.acc) /\ edges \in SUBSET Edge
  BY DEF n, TypeOK
<1>4. /\ IsStack(edges, st_blue') /\ st_blue' # << >> /\ Distinct(st_blue')
      /\ States(st_blue') = States(st_blue) \cup {e.dst}
      /\ Ahead(st_blue') = Ahead(n) \cup succ_iter(edges, e.dst)
  BY ONLY <1>0, <1>1, <1>2, <1>3, PushStack
<1>5. color' \in [State -> {"WHITE", "BLUE"}] /\ color'[e.dst] = "BLUE"
      /\ \A s \in State : s # e.dst => color'[s] = color[s]
  BY <1>0 DEF TypeOK
<1>6. TypeOK'
  BY <1>4, <1>5 DEF TypeOK
<1>7. Phases'
  BY <1>0 DEF Phases
<1>8. Visited'
  <2>1. e.dst \in Reach(Live(edges), s0)
    <3>1. Top \in Reach(Live(edges), s0)
      BY <1>0 DEF Visited
    <3>2. QED
      BY <1>0, <3>1, LiveFacts, ReachTrans, TwaAssumption
  <2>2. ASSUME NEW g \in Live(edges), color'[g.src] # "WHITE", g.src # e.dst
        PROVE  color'[g.dst] # "WHITE" \/ g \in Ahead(st_blue')
    <3>1. g.src \in State /\ g.dst \in State
      BY <1>0, LiveFacts
    <3>2. color[g.dst] # "WHITE" \/ g \in Ahead(st_blue)
      BY <1>5, <2>2, <3>1 DEF Visited
    <3>3. QED
      BY <1>1, <1>4, <1>5, <3>1, <3>2
  <2>3. ASSUME NEW g \in Live(edges), g.src = e.dst
        PROVE  g \in Ahead(st_blue')
    BY <1>0, <1>4, <2>3, LiveFacts DEF succ_iter
  <2>4. \A s \in State : color'[s] # "WHITE" => s \in Reach(Live(edges), s0)
    BY <1>5, <2>1 DEF Visited
  <2>5. /\ \A s \in State : color'[s] = "WHITE" => marks[s] = {}
        /\ color'[s0] # "WHITE"
    BY <1>0, <1>5, TwaAssumption DEF Visited
  <2>6. \A s \in States(st_blue) : s \in State
    BY <1>0, FrontFacts DEF TypeOK
  <2>7. \A s \in States(st_blue') : color'[s] # "WHITE"
    BY <1>4, <1>5, <2>6 DEF Visited
  <2>8. QED
    BY <2>2, <2>3, <2>4, <2>5, <2>7 DEF Visited
<1>9. marks[e.dst] = {}
  BY <1>0 DEF Visited
<1>10. MarksOnCycles'
  BY <1>0, <1>4, <1>9 DEF MarksOnCycles, Between
<1>11. \A s \in State : Left(s)' => Left(s)
  BY <1>4, <1>5 DEF Left
<1>12. Propagated'
  <2> SUFFICES ASSUME NEW g \in Live(edges), Scanned(g)' PROVE Handed(g)'
    BY <1>0 DEF Propagated
  <2>1. Left(g.src)
    BY <1>0, <1>11, LiveFacts DEF Scanned
  <2>2. Handed(g)
    BY <1>0, <2>1 DEF Propagated, Scanned, Pending
  <2>3. QED
    BY <2>2 DEF Handed
<1>13. NoneLeft'
  BY <1>0, <1>11, NoneLeftKept
<1>14. QED
  BY <1>6, <1>7, <1>8, <1>10, <1>12, <1>13

(* The steps of the blue dfs that only pass over an edge, which leads      *)
(* nowhere new.                                                            *)
LEMMA BlueIgnoreInv == ASSUME Inv, NEW e, BlueIgnore(e) PROVE Inv'
<1> USE DEF Inv, BlueIgnore
<1>0. /\ TypeOK /\ Visited /\ st_blue # << >> /\ pc = "blue" /\ e \in edges
  BY BlueEdgeFacts DEF BlueEdge
<1>1. /\ IsStack(edges, st_blue') /\ Distinct(st_blue') /\ States(st_blue') = States(st_blue)
      /\ Ahead(st_blue) \subseteq Ahead(st_blue') \cup {e}
  BY <1>0, NextStack DEF TypeOK
<1>2. TypeOK'
  BY <1>1 DEF TypeOK
<1>3. Phases'
  BY <1>0 DEF Phases
<1>4. Visited'
  <2>1. e \in Live(edges) => color[e.dst] # "WHITE"
    BY DEF Live
  <2>2. QED
    BY <1>1, <2>1 DEF Visited
<1>5. MarksOnCycles'
  BY <1>0, <1>1 DEF MarksOnCycles, Between
<1>6. \A s \in State : Left(s)' <=> Left(s)
  BY <1>1 DEF Left
<1>7. Propagated'
  <2> SUFFICES ASSUME NEW g \in Live(edges), Scanned(g)' PROVE Handed(g)'
    BY <1>0 DEF Propagated
  <2>1. Left(g.src)
    BY <1>0, <1>6, LiveFacts DEF Scanned
  <2>2. Handed(g)
    BY <1>0, <2>1 DEF Propagated, Scanned, Pending
  <2>3. QED
    BY <2>2 DEF Handed
<1>8. NoneLeft'
  BY <1>0, <1>6, NoneLeftKept
<1>9. QED
  BY <1>2, <1>3, <1>4, <1>5, <1>7, <1>8

(* The rescan of the successors of the front starts.                       *)
LEMMA RescanInv == ASSUME Inv, Rescan PROVE Inv'
<1> USE DEF Inv, Rescan
<1>1. TypeOK'
  BY DEF TypeOK, succ_iter
<1>2. Phases'
  BY DEF Phases, Top, succ_iter
<1>3. Visited' /\ MarksOnCycles'
  BY DEF Visited, MarksOnCycles, Between
<1>4. \A s \in State : Left(s)' <=> Left(s)
  BY DEF Left
<1>5. Propagated'
  <2> SUFFICES ASSUME NEW g \in Live(edges), Scanned(g)' PROVE Handed(g)'
    BY DEF Propagated
  <2>1. Left(g.src)
    BY <1>4, LiveFacts DEF Scanned, succ_iter, Top
  <2>2. Handed(g)
    BY <2>1 DEF Propagated, Scanned, Pending
  <2>3. QED
    BY <2>2 DEF Handed
<1>6. NoneLeft'
  BY <1>4, NoneLeftKept
<1>7. QED
  BY <1>1, <1>2, <1>3, <1>5, <1>6

(* "assert(!c_prime.is_white())": the edges out of a front all of whose    *)
(* successors have been visited.                                           *)
LEMMA TopFacts ==
  ASSUME TypeOK, Phases, Visited, pc \in {"rescan", "red"}
  PROVE  /\ Top \in State /\ Top \in States(st_blue) /\ color[Top] # "WHITE"
         /\ st_blue # << >> /\ Last(st_blue).it = {}
         /\ \A e \in Live(edges) : e.src = Top => color[e.dst] # "WHITE"
         /\ \A e \in succ : /\ e \in edges /\ e.src = Top /\ e.dst \in State
                            /\ e.acc \in SUBSET Mark /\ e.cond \in BOOLEAN
                            /\ e.cond => e \in Live(edges)
         /\ \A s \in States(st_blue) : s \in State /\ Top \in Reach(Live(edges), s)
<1>1. /\ st_blue # << >> /\ Last(st_blue).it = {} /\ IsStack(edges, st_blue)
      /\ Distinct(st_blue) /\ edges \in SUBSET Edge
  BY DEF Phases, Done, TypeOK
<1>2. /\ Top \in State /\ Top \in States(st_blue)
      /\ \A s \in States(st_blue) : s \in State /\ Top \in Reach(Live(edges), s)
  BY <1>1, FrontFacts DEF Top
<1>3. \A e \in Live(edges) : e.src = Top => e \notin Ahead(st_blue)
  BY <1>1, AheadFacts DEF Top
<1>4. color[Top] # "WHITE" /\ \A e \in Live(edges) : e.src = Top => color[e.dst] # "WHITE"
  BY <1>2, <1>3 DEF Visited
<1>5. \A e \in succ : /\ e \in edges /\ e.src = Top /\ e.dst \in State
                      /\ e.acc \in SUBSET Mark /\ e.cond \in BOOLEAN
                      /\ e.cond => e \in Live(edges)
  BY LiveFacts DEF TypeOK, Phases, Live
<1>6. QED
  BY <1>1, <1>2, <1>4, <1>5

(* A successor that has the marks already, or behind a label false.        *)
LEMMA RescanIgnoreInv == ASSUME Inv, NEW e, RescanIgnore(e) PROVE Inv'
<1> USE DEF Inv, RescanIgnore
<1>1. TypeOK'
  BY DEF TypeOK
<1>2. Phases'
  BY DEF Phases, Top
<1>3. Visited' /\ MarksOnCycles'
  BY DEF Visited, MarksOnCycles, Between
<1>4. \A s \in State : Left(s)' <=> Left(s)
  BY DEF Left
<1>5. Propagated'
  <2> SUFFICES ASSUME NEW g \in Live(edges), Scanned(g)' PROVE Handed(g)'
    BY DEF Propagated
  <2>1. Scanned(g) \/ g = e
    BY <1>4, LiveFacts DEF Scanned, Top
  <2>2. Handed(g)
    BY <2>1 DEF Propagated, Pending, Handed, Acu, Live
  <2>3. QED
    BY <2>2 DEF Handed
<1>6. NoneLeft'
  BY <1>4, NoneLeftKept
<1>7. QED
  BY <1>1, <1>2, <1>3, <1>5, <1>6

(* A mark between r and s is, further on, between r and t.                 *)
LEMMA BetweenTrans ==
  ASSUME TypeOK, NEW m, NEW r \in State, NEW s \in State, Between(m, r, s),
         NEW t \in Reach(Live(edges), s)
  PROVE  Between(m, r, t)
<1>1. PICK e \in Live(edges) : /\ m \in e.acc /\ e.src \in Reach(Live(edges), r)
                               /\ s \in Reach(Live(edges), e.dst)
  BY DEF Between
<1>2. t \in Reach(Live(edges), e.dst)
  BY <1>1, LiveFacts, ReachTrans
<1>3. QED
  BY <1>1, <1>2 DEF Between

(* And also from what leads to r.                                          *)
LEMMA BetweenFrom ==
  ASSUME TypeOK, NEW m, NEW r \in State, NEW s, Between(m, r, s),
         NEW q \in State, r \in Reach(Live(edges), q)
  PROVE  Between(m, q, s)
<1>1. PICK e \in Live(edges) : /\ m \in e.acc /\ e.src \in Reach(Live(edges), r)
                               /\ s \in Reach(Live(edges), e.dst)
  BY DEF Between
<1>2. e.src \in Reach(Live(edges), q)
  BY <1>1, LiveFacts, ReachTrans
<1>3. QED
  BY <1>1, <1>2 DEF Between

(* A red dfs starts: the end of e gets the marks of the front and of e.    *)
LEMMA RescanDownInv == ASSUME Inv, NEW e, RescanDown(e) PROVE Inv'
<1> USE DEF Inv, RescanDown
<1>0. /\ TypeOK /\ Phases /\ Visited /\ pc = "rescan" /\ pc' = "red"
      /\ e \in Live(edges) /\ e \in edges /\ e.src = Top /\ Top \in State /\ e.dst \in State
      /\ e.acc \in SUBSET Mark /\ e.cond \in BOOLEAN /\ color[e.dst] # "WHITE"
      /\ Top \in States(st_blue) /\ st_red = << >> /\ edges \in SUBSET Edge /\ Top' = Top
  BY TopFacts DEF TypeOK, Phases, Top
<1>1. acu' = e.acc \cup marks[Top] /\ acu' \in SUBSET Mark
  BY <1>0 DEF Acu, TypeOK
<1>2. /\ marks' \in [State -> SUBSET Mark] /\ marks'[e.dst] = marks[e.dst] \cup acu'
      /\ \A s \in State : s # e.dst => marks'[s] = marks[s]
      /\ \A s \in State : marks[s] \subseteq marks'[s] /\ marks'[s] \subseteq marks[s] \cup acu'
  BY <1>0, <1>1 DEF TypeOK
<1>3. /\ IsStack(edges, st_red') /\ States(st_red') = {e.dst}
      /\ Ahead(st_red') = succ_iter(edges, e.dst)
  <2>1. st_red' = push(st_red, edges, e.dst, e.cond, e.acc)
    OBVIOUS
  <2>2. /\ edges \in SUBSET Edge /\ st_red = << >> /\ e.dst \in State
        /\ e.cond \in BOOLEAN /\ e.acc \in SUBSET Mark
    BY <1>0
  <2>3. LET p == push(st_red, edges, e.dst, e.cond, e.acc)
        IN  IsStack(edges, p) /\ States(p) = {e.dst} /\ Ahead(p) = succ_iter(edges, e.dst)
    BY ONLY <2>2, PushFirst
  <2>4. QED
    BY ONLY <2>1, <2>3
<1>4. TypeOK'
  BY <1>0, <1>1, <1>2, <1>3 DEF TypeOK
<1>5. Phases'
  BY <1>0 DEF Phases, Top
<1>6. Visited'
  BY <1>0, <1>2 DEF Visited
<1>7. \A s \in State : Left(s)' <=> Left(s)
  BY DEF Left
<1>8. \A m \in acu' : Between(m, Top, e.dst)
  <2>1. Live(edges) \in SUBSET Edge
    BY <1>0, LiveFacts
  <2>2. ASSUME NEW m \in e.acc PROVE Between(m, Top, e.dst)
    BY <1>0, <2>1, ReachFacts DEF Between
  <2>3. ASSUME NEW m \in marks[Top] PROVE Between(m, Top, e.dst)
    <3>1. Between(m, Top, Top)
      BY <1>0 DEF MarksOnCycles
    <3>2. e.dst \in Reach(Live(edges), Top)
      BY <1>0, <2>1, ReachEdge
    <3>3. QED
      BY <1>0, <3>1, <3>2, BetweenTrans
  <2>4. QED
    BY <1>1, <2>2, <2>3
<1>9. ASSUME NEW s \in States(st_blue), NEW m \in marks'[s] PROVE Between(m, s, s)
  <2>1. s \in State /\ Top \in Reach(Live(edges), s)
    BY <1>0, TopFacts
  <2>2. CASE m \in marks[s]
    BY <2>2 DEF MarksOnCycles
  <2>3. CASE m \notin marks[s]
    <3>1. s = e.dst /\ m \in acu'
      BY <1>2, <2>1, <2>3
    <3>2. QED
      BY <1>0, <1>8, <2>1, <3>1, BetweenFrom
  <2>4. QED
    BY <2>2, <2>3
<1>10. MarksOnCycles'
  <2>1. \A m, s, t : Between(m, s, t)' <=> Between(m, s, t)
    BY DEF Between
  <2>2. QED
    BY <1>0, <1>3, <1>8, <1>9, <2>1 DEF MarksOnCycles
<1>11. ASSUME NEW g \in Live(edges), Scanned(g)' PROVE Handed(g)' \/ Pending(g)'
  <2>1. g \in edges /\ g.src \in State /\ g.dst \in State
    BY <1>0, LiveFacts
  <2>2. CASE g = e
    BY <1>0, <1>1, <1>2, <2>2 DEF Handed
  <2>3. CASE g # e
    <3>1. Scanned(g)
      BY <1>0, <1>7, <1>11, <2>1, <2>3 DEF Scanned, Top
    <3>2. Handed(g)
      BY <1>0, <3>1 DEF Propagated, Pending
    <3>3. CASE g.src = e.dst
      <4>1. g \in Ahead(st_red')
        BY <1>3, <2>1, <3>3 DEF succ_iter
      <4>2. g.acc \cup (marks'[g.src] \ acu') \subseteq marks'[g.dst]
        BY <1>2, <2>1, <3>2, <3>3 DEF Handed
      <4>3. QED
        BY <1>0, <4>1, <4>2 DEF Pending
    <3>4. CASE g.src # e.dst
      BY <1>2, <2>1, <3>2, <3>4 DEF Handed
    <3>5. QED
      BY <3>3, <3>4
  <2>4. QED
    BY <2>2, <2>3
<1>12. Propagated'
  BY <1>2, <1>3, <1>11 DEF Propagated
<1>13. NoneLeft'
  BY <1>0, <1>7, NoneLeftKept
<1>14. QED
  BY <1>4, <1>5, <1>6, <1>10, <1>12, <1>13

(* An edge that the red dfs is on.                                         *)
LEMMA RedEdgeFacts ==
  ASSUME TypeOK, Phases, Visited, NEW e, RedEdge(e)
  PROVE  /\ st_red # << >> /\ e \in edges /\ e.src \in State /\ e.dst \in State
         /\ e.acc \in SUBSET Mark /\ e.cond \in BOOLEAN
         /\ e.src = Last(st_red).s /\ e.src \in States(st_red) /\ e \in Ahead(st_red)
         /\ States(st_red) \subseteq State
         /\ e.cond => e \in Live(edges) /\ e.dst \in Reach(Live(edges), e.src)
<1>1. st_red # << >> /\ e \in Last(st_red).it /\ IsStack(edges, st_red) /\ edges \in SUBSET Edge
  BY DEF RedEdge, IsOn, TypeOK
<1>2. /\ e \in edges /\ e.src = Last(st_red).s /\ e.src \in States(st_red) /\ e \in Ahead(st_red)
      /\ States(st_red) \subseteq State
  BY <1>1, FrontFacts
<1>3. /\ e.src \in State /\ e.dst \in State /\ e.acc \in SUBSET Mark /\ e.cond \in BOOLEAN
  BY <1>2, LiveFacts
<1>4. e.cond => e \in Live(edges) /\ e.dst \in Reach(Live(edges), e.src)
  BY <1>2, LiveFacts, ReachEdge DEF Live
<1>5. QED
  BY <1>1, <1>2, <1>3, <1>4

(* What has been scanned leads to no white state.                          *)
LEMMA ScannedFacts ==
  ASSUME TypeOK, Phases, Visited, NEW g \in Live(edges), Scanned(g)
  PROVE  color[g.dst] # "WHITE"
<1>1. CASE Left(g.src)
  BY <1>1, AheadFacts DEF Left, Visited, TypeOK
<1>2. CASE pc \in {"rescan", "red"} /\ g.src = Top
  BY <1>2, TopFacts
<1>3. QED
  BY <1>1, <1>2 DEF Scanned

(* dfs_red() propagates acu over an edge.                                  *)
LEMMA RedDownInv == ASSUME Inv, NEW e, RedDown(e) PROVE Inv'
<1> USE DEF Inv, RedDown
<1> DEFINE n == next(st_red, e)
<1>0. /\ TypeOK /\ Phases /\ Visited /\ pc = "red" /\ pc' = "red"
      /\ e \in Live(edges) /\ e \in edges /\ e.src \in State /\ e.dst \in State
      /\ e.acc \in SUBSET Mark /\ e.cond \in BOOLEAN /\ color[e.dst] # "WHITE"
      /\ edges \in SUBSET Edge /\ Top' = Top /\ st_red # << >>
      /\ e.src = Last(st_red).s /\ e.src \in States(st_red) /\ States(st_red) \subseteq State
      /\ e.dst \in Reach(Live(edges), e.src) /\ acu' = acu /\ acu \in SUBSET Mark
  BY RedEdgeFacts DEF RedEdge, TypeOK, Top
<1>1. /\ IsStack(edges, n) /\ n # << >> /\ States(n) = States(st_red)
      /\ Last(n).s = e.src /\ Ahead(st_red) \subseteq Ahead(n) \cup {e}
  BY <1>0, NextStack DEF TypeOK
<1> HIDE DEF n
<1>2. /\ marks' \in [State -> SUBSET Mark] /\ marks'[e.dst] = marks[e.dst] \cup acu
      /\ \A s \in State : s # e.dst => marks'[s] = marks[s]
      /\ \A s \in State : marks[s] \subseteq marks'[s] /\ marks'[s] \subseteq marks[s] \cup acu
  BY <1>0 DEF TypeOK
<1>3. /\ IsStack(edges, st_red') /\ States(st_red') = States(st_red) \cup {e.dst}
      /\ Ahead(st_red') = Ahead(n) \cup succ_iter(edges, e.dst)
  <2>2. st_red' = push(n, edges, e.dst, e.cond, e.acc)
    BY DEF n
  <2>3. QED
    BY ONLY <1>0, <1>1, <2>2, PushStack
<1>4. TypeOK'
  BY <1>0, <1>2, <1>3 DEF TypeOK
<1>5. Phases'
  BY <1>0 DEF Phases, Top
<1>6. Visited'
  BY <1>0, <1>2 DEF Visited
<1>7. \A s \in State : Left(s)' <=> Left(s)
  BY DEF Left
<1>7a. Top \in State
  BY <1>0, TopFacts
<1>8. \A m \in acu : Between(m, Top, e.dst)
  <2> SUFFICES ASSUME NEW m \in acu PROVE Between(m, Top, e.dst)
    OBVIOUS
  <2>1. Between(m, Top, e.src)
    BY <1>0 DEF MarksOnCycles
  <2>2. QED
    BY <1>0, <1>7a, <2>1, BetweenTrans
<1>9. ASSUME NEW s \in States(st_blue), NEW m \in marks'[s] PROVE Between(m, s, s)
  <2>1. s \in State /\ Top \in Reach(Live(edges), s)
    BY <1>0, TopFacts
  <2>2. CASE m \in marks[s]
    BY <2>2 DEF MarksOnCycles
  <2>3. CASE m \notin marks[s]
    <3>1. s = e.dst /\ m \in acu
      BY <1>2, <2>1, <2>3
    <3>2. QED
      BY <1>0, <1>7a, <1>8, <2>1, <3>1, BetweenFrom
  <2>4. QED
    BY <2>2, <2>3
<1>10. MarksOnCycles'
  <2>1. \A m, s, t : Between(m, s, t)' <=> Between(m, s, t)
    BY DEF Between
  <2>2. \A s \in States(st_red) : \A m \in acu : Between(m, Top, s)
    BY <1>0 DEF MarksOnCycles
  <2>3. QED
    BY <1>0, <1>3, <1>8, <1>9, <2>1, <2>2 DEF MarksOnCycles
<1>11. ASSUME NEW g \in Live(edges), Scanned(g)' PROVE Handed(g)' \/ Pending(g)'
  <2>1. g \in edges /\ g.src \in State /\ g.dst \in State
    BY <1>0, LiveFacts
  <2>2. Scanned(g)
    BY <1>0, <1>7, <1>11, <2>1 DEF Scanned
  <2>3. Handed(g) \/ Pending(g)
    BY <2>2 DEF Propagated
  <2>4. g.acc \cup (marks'[g.src] \ acu) \subseteq marks'[g.dst]
    BY <1>2, <2>1, <2>3 DEF Handed, Pending
  <2>5. CASE g \in Ahead(st_red')
    BY <1>0, <2>4, <2>5 DEF Pending
  <2>6. CASE g \notin Ahead(st_red')
    <3>1. g.src # e.dst
      BY <1>3, <2>1, <2>6 DEF succ_iter
    <3>2. g \notin Ahead(st_red) \/ g = e
      BY <1>1, <1>3, <2>6
    <3>3. CASE g \notin Ahead(st_red)
      BY <1>2, <2>1, <2>3, <3>1, <3>3 DEF Handed, Pending
    <3>4. CASE g = e
      BY <1>2, <2>1, <2>4, <3>4 DEF Handed
    <3>5. QED
      BY <3>2, <3>3, <3>4
  <2>7. QED
    BY <2>5, <2>6
<1>12. Propagated'
  <2>1. \A s \in States(st_red) : acu \subseteq marks[s]
    BY <1>0 DEF Propagated
  <2>2. \A s \in States(st_red') : acu' \subseteq marks'[s]
    BY <1>0, <1>2, <1>3, <2>1
  <2>3. QED
    BY <1>11, <2>2 DEF Propagated
<1>13. NoneLeft'
  BY <1>0, <1>7, NoneLeftKept
<1>14. QED
  BY <1>4, <1>5, <1>6, <1>10, <1>12, <1>13

(* dfs_red() passes over an edge whose end has acu, or which it may not    *)
(* follow.                                                                 *)
LEMMA RedIgnoreInv == ASSUME Inv, NEW e, RedIgnore(e) PROVE Inv'
<1> USE DEF Inv, RedIgnore
<1>0. /\ TypeOK /\ Phases /\ Visited /\ pc = "red" /\ pc' = "red" /\ e \in edges
      /\ st_red # << >> /\ e.cond \in BOOLEAN /\ Top' = Top /\ acu' = acu
  BY RedEdgeFacts DEF RedEdge, Top
<1>1. /\ IsStack(edges, st_red') /\ States(st_red') = States(st_red)
      /\ Ahead(st_red) \subseteq Ahead(st_red') \cup {e}
  BY <1>0, NextStack DEF TypeOK
<1>2. TypeOK'
  BY <1>1 DEF TypeOK
<1>3. Phases' /\ Visited'
  BY <1>0 DEF Phases, Visited, Top
<1>4. MarksOnCycles'
  BY <1>0, <1>1 DEF MarksOnCycles, Between
<1>5. \A s \in State : Left(s)' <=> Left(s)
  BY DEF Left
<1>6. ASSUME NEW g \in Live(edges), Scanned(g)' PROVE Handed(g)' \/ Pending(g)'
  <2>1. Scanned(g)
    BY <1>0, <1>5, <1>6, LiveFacts DEF Scanned
  <2>2. Handed(g) \/ Pending(g)
    BY <2>1 DEF Propagated
  <2>3. color[g.dst] # "WHITE" /\ g.cond
    BY <1>0, <2>1, ScannedFacts DEF Live
  <2>4. CASE g \in Ahead(st_red') \/ Handed(g)
    BY <1>0, <2>2, <2>4 DEF Pending, Handed
  <2>5. CASE g \notin Ahead(st_red') /\ ~Handed(g)
    <3>1. g = e /\ g.acc \cup (marks[g.src] \ acu) \subseteq marks[g.dst]
      BY <1>1, <2>2, <2>5 DEF Pending
    <3>2. acu \subseteq marks[g.dst]
      BY <2>3, <3>1
    <3>3. QED
      BY <2>5, <3>1, <3>2 DEF Handed
  <2>6. QED
    BY <2>4, <2>5
<1>7. Propagated'
  BY <1>0, <1>1, <1>6 DEF Propagated
<1>8. NoneLeft'
  BY <1>0, <1>5, NoneLeftKept
<1>9. QED
  BY <1>2, <1>3, <1>4, <1>7, <1>8

(* dfs_red() pops a state whose edges it has followed.                     *)
LEMMA RedPopInv == ASSUME Inv, RedPop PROVE Inv'
<1> USE DEF Inv, RedPop
<1>0. st_red # << >> /\ Last(st_red).it = {} /\ Top' = Top /\ IsStack(edges, st_red)
  BY DEF Done, Top, TypeOK
<1>1. /\ IsStack(edges, st_red') /\ States(st_red') \subseteq States(st_red)
      /\ Ahead(st_red') = Ahead(st_red)
  <2>1. /\ IsStack(edges, pop(st_red))
        /\ States(st_red) = States(pop(st_red)) \cup {Last(st_red).s}
        /\ Ahead(st_red) = Ahead(pop(st_red)) \cup Last(st_red).it
    BY ONLY <1>0, PopStack
  <2>2. QED
    BY <1>0, <2>1
<1>2. TypeOK'
  BY <1>1 DEF TypeOK
<1>3. Phases' /\ Visited'
  BY <1>0 DEF Phases, Visited, Top
<1>4. MarksOnCycles'
  BY <1>0, <1>1 DEF MarksOnCycles, Between
<1>5. \A s \in State : Left(s)' <=> Left(s)
  BY DEF Left
<1>6. Propagated'
  <2> SUFFICES ASSUME NEW g \in Live(edges), Scanned(g)' PROVE Handed(g)' \/ Pending(g)'
    BY <1>1 DEF Propagated
  <2>1. Scanned(g)
    BY <1>0, <1>5, LiveFacts DEF Scanned
  <2>2. Handed(g) \/ Pending(g)
    BY <2>1 DEF Propagated
  <2>3. QED
    BY <1>1, <2>2 DEF Handed, Pending
<1>7. NoneLeft'
  BY <1>5, NoneLeftKept
<1>8. QED
  BY <1>2, <1>3, <1>4, <1>6, <1>7

(* dfs_red() returns: there is nothing left to propagate.                  *)
LEMMA RedReturnInv == ASSUME Inv, RedReturn PROVE Inv'
<1> USE DEF Inv, RedReturn
<1>1. TypeOK' /\ Phases' /\ Visited' /\ MarksOnCycles'
  BY DEF TypeOK, Phases, Visited, MarksOnCycles, Between, Top
<1>2. \A s \in State : Left(s)' <=> Left(s)
  BY DEF Left
<1>3. Propagated'
  <2> SUFFICES ASSUME NEW g \in Live(edges), Scanned(g)' PROVE Handed(g)'
    BY DEF Propagated
  <2>1. Scanned(g)
    BY <1>2, LiveFacts DEF Scanned, Top
  <2>2. Handed(g)
    BY <2>1, EmptyStack DEF Propagated, Pending
  <2>3. QED
    BY <2>2 DEF Handed
<1>4. NoneLeft'
  BY <1>2, NoneLeftKept
<1>5. QED
  BY <1>1, <1>3, <1>4

(* The returns of check(), and calls of it that find nothing to do.        *)
LEMMA ReturnInv ==
  ASSUME Inv, CheckAgain \/ RescanReport \/ BlueReturn \/ UNCHANGED vars
  PROVE  Inv'
<1> USE DEF Inv, CheckAgain, RescanReport, BlueReturn, vars
<1>0. /\ UNCHANGED <<edges, color, marks, st_blue, st_red, acu, succ>>
      /\ UNCHANGED pc \/ (pc' = "idle" /\ pc \in {"rescan", "blue"})
      /\ pc' = "red" => pc = "red"
      /\ pc' \in {"rescan", "red"} => pc \in {"rescan", "red"}
  OBVIOUS
<1>1. TypeOK'
  BY <1>0 DEF TypeOK
<1>2. Phases'
  BY <1>0 DEF Phases, Top, TypeOK, Done
<1>3. Visited' /\ MarksOnCycles'
  BY <1>0 DEF Visited, MarksOnCycles, Between, Top, TypeOK
<1>4. \A s \in State : Left(s)' <=> Left(s)
  BY <1>0 DEF Left
<1>5. Propagated'
  <2>1. ASSUME NEW g \in Live(edges), Scanned(g)' PROVE Handed(g)' \/ Pending(g)'
    <3>1. Scanned(g)
      BY <1>0, <1>4, <2>1, LiveFacts DEF Scanned, Top
    <3>2. Handed(g) \/ Pending(g)
      BY <3>1 DEF Propagated
    <3>3. QED
      BY <1>0, <3>2 DEF Handed, Pending
  <2>2. QED
    BY <1>0, <2>1 DEF Propagated
<1>6. NoneLeft'
  BY <1>0, <1>4, NoneLeftKept
<1>7. QED
  BY <1>1, <1>2, <1>3, <1>5, <1>6

(* The front is popped: it does not have all the marks, hence is on no     *)
(* accepting cycle among the states that were left before it.              *)
LEMMA RescanPopInv == ASSUME Inv, RescanPop PROVE Inv'
<1> USE DEF Inv, RescanPop
<1>0. /\ TypeOK /\ Phases /\ Visited /\ st_blue # << >> /\ Last(st_blue).it = {}
      /\ Top \in State /\ edges \in SUBSET Edge /\ color[Top] # "WHITE"
      /\ IsStack(edges, st_blue) /\ Distinct(st_blue)
  BY TopFacts DEF TypeOK
<1>1. /\ IsStack(edges, st_blue') /\ Distinct(st_blue')
      /\ States(st_blue) = States(st_blue') \cup {Top} /\ Top \notin States(st_blue')
      /\ Ahead(st_blue') = Ahead(st_blue)
  <2>1. st_blue' = pop(st_blue)
    OBVIOUS
  <2>2. Ahead(st_blue) = Ahead(st_blue') \cup Last(st_blue).it
    BY ONLY <1>0, <2>1, PopStack
  <2>3. QED
    BY ONLY <1>0, <2>1, <2>2, PopStack DEF Top
<1>2. TypeOK'
  BY <1>1 DEF TypeOK
<1>3. Phases'
  BY DEF Phases
<1>4. Visited'
  BY <1>1 DEF Visited
<1>5. MarksOnCycles'
  BY <1>1 DEF MarksOnCycles, Between
<1>6. \A s \in State : Left(s)' <=> Left(s) \/ s = Top
  BY <1>0, <1>1 DEF Left
<1>7. \A e \in Live(edges) : Left(e.src)' => Handed(e)
  BY <1>0, <1>6, LiveFacts DEF Propagated, Scanned, Pending
<1>8. Propagated'
  BY <1>7 DEF Propagated, Scanned, Handed
<1>9. NoneLeft'
  <2> SUFFICES ASSUME NEW E \in SUBSET Live(edges), StronglyConnected(E),
                      \A s \in Touched(E) : Left(s)', accepting(Marks(E))
               PROVE  FALSE
    BY DEF NoneLeft
  <2>1. Touched(E) \subseteq State
    BY <1>0, LiveFacts
  <2>2. CASE Top \notin Touched(E)
    BY <1>6, <2>1, <2>2 DEF NoneLeft
  <2>3. CASE Top \in Touched(E)
    <3>1. \A e \in E : e.acc \cup marks[e.src] \subseteq marks[e.dst]
      BY <1>7 DEF Handed, Touched
    <3>2. Marks(E) \subseteq marks[Top]
      BY <2>3, <3>1, MarksInStronglyConnected
    <3>3. Marks(E) = Mark /\ marks[Top] \subseteq Mark
      BY <1>0 DEF accepting, TypeOK
    <3>4. marks[Top] = Mark
      BY <3>2, <3>3
    <3>4a. accepting(marks[Top])
      BY <1>0, <3>4 DEF accepting, TypeOK
    <3>5. QED
      BY <3>4a DEF Top
  <2>4. QED
    BY <2>2, <2>3
<1>10. QED
  BY <1>2, <1>3, <1>4, <1>5, <1>8, <1>9

(* Every step of the search keeps the invariant.                           *)
LEMMA NextInv == ASSUME Inv, [Next]_vars PROVE Inv'
<1>1. CASE Check
  BY <1>1, CheckInv
<1>2. CASE CheckAgain \/ RescanReport \/ BlueReturn \/ UNCHANGED vars \/ Finished
  BY <1>2, ReturnInv DEF Finished
<1>3. ASSUME NEW e \in edges, BlueDown(e) \/ BlueIgnore(e) \/ RescanDown(e) \/ RescanIgnore(e)
      PROVE  Inv'
  BY <1>3, BlueDownInv, BlueIgnoreInv, RescanDownInv, RescanIgnoreInv
<1>4. CASE Rescan
  BY <1>4, RescanInv
<1>5. CASE RescanPop
  BY <1>5, RescanPopInv
<1>6. ASSUME NEW e \in edges, RedDown(e) \/ RedIgnore(e)
      PROVE  Inv'
  BY <1>6, RedDownInv, RedIgnoreInv
<1>7. CASE RedPop
  BY <1>7, RedPopInv
<1>8. CASE RedReturn
  BY <1>8, RedReturnInv
<1>9. QED
  BY <1>1, <1>2, <1>3, <1>4, <1>5, <1>6, <1>7, <1>8 DEF Next, dfs_blue, dfs_red

-----------------------------------------------------------------------------
(* Between two propagations the marks of what was left are closed.         *)
LEMMA InvClosed == Inv => PropagationIsComplete
<1> SUFFICES ASSUME Inv PROVE PropagationIsComplete
  OBVIOUS
<1> USE DEF Inv
<1>1. ASSUME pc = "rescan", NEW e \in succ, e.cond PROVE color[e.dst] # "WHITE"
  BY <1>1, TopFacts
<1>2. ASSUME pc = "blue", NEW e \in Live(edges), color[e.src] # "WHITE",
             \A i \in DOMAIN st_blue : st_blue[i].s # e.src
      PROVE  e.acc \cup marks[e.src] \subseteq marks[e.dst]
  <2>1. DOMAIN st_blue = 1..Len(st_blue)
    BY StackFacts DEF TypeOK, IsStack
  <2>2. Left(e.src)
    BY <1>2, <2>1 DEF Left, States
  <2>3. QED
    BY <1>2, <2>2 DEF Propagated, Scanned, Handed, Pending
<1>3. QED
  BY <1>1, <1>2 DEF PropagationIsComplete

(* A front with all the marks is on an accepting cycle, which s0 reaches.  *)
LEMMA FullFront ==
  ASSUME Inv, st_blue # << >>, accepting(marks[Top])
  PROVE  OnAcceptingCycle(Top) /\ NonEmpty(edges)
<1> USE DEF Inv
<1> DEFINE L == Live(edges)
           F == {e \in L : e.src \in Reach(L, Top) /\ Top \in Reach(L, e.dst)}
<1>1. /\ Top \in State /\ Top \in States(st_blue) /\ edges \in SUBSET Edge
      /\ Mark # {} /\ Sat = {Mark} /\ L \in SUBSET Edge
  BY FrontFacts, LiveFacts DEF TypeOK, Top
<1>2. marks[Top] = Mark
  BY <1>1 DEF accepting
<1>3. \A m \in Mark : \E e \in F : m \in e.acc
  BY <1>1, <1>2 DEF MarksOnCycles, Between
<1>4. F # {} /\ \A e \in F : e.acc \subseteq Mark
  BY <1>1, <1>3 DEF Edge
<1>5. Marks(F) = Mark
  BY <1>3, <1>4 DEF Marks
<1>6. StronglyConnected(F) /\ Top \in Touched(F)
  BY <1>1, <1>4, CyclesAreStronglyConnected
<1>7. accepting(Marks(F))
  BY <1>1, <1>5 DEF accepting
<1>8. Top \in Reach(L, s0)
  BY <1>1 DEF Visited
<1>9. Reach(L, Top) \subseteq Reach(L, s0)
  BY <1>1, <1>8, ReachTrans, TwaAssumption
<1> HIDE DEF L
<1>10. F \in SUBSET {e \in L : e.src \in Reach(L, s0)} /\ F \in SUBSET L
  BY <1>9
<1> HIDE DEF F
<1>11. QED
  BY <1>6, <1>7, <1>10 DEF OnAcceptingCycle, NonEmpty, L

(* The report is right: its state is on an accepting cycle.                *)
LEMMA InvFront == Inv => FrontIsOnCycle
BY FullFront DEF Inv, Phases, FrontIsOnCycle, Top

(* When all the states have been left, the automaton is empty.             *)
LEMMA EmptyBlue ==
  ASSUME Inv, pc = "blue", st_blue = << >>
  PROVE  ~NonEmpty(edges)
<1> USE DEF Inv
<1> DEFINE L == Live(edges)
           C == {s \in State : color[s] # "WHITE"}
<1>1. L \in SUBSET Edge /\ s0 \in C /\ C \in SUBSET State
  BY LiveFacts, TwaAssumption DEF Visited
<1>2. \A e \in L : e.src \in C => e.dst \in C
  BY EmptyStack, LiveFacts DEF Visited
<1>3. Reach(L, s0) \subseteq C
  BY <1>1, <1>2, ReachInClosed DEF Closed
<1>4. \A s \in C : Left(s)
  BY EmptyStack DEF Left
<1>5. ASSUME NEW E \in SUBSET {e \in L : e.src \in Reach(L, s0)}
      PROVE  E \in SUBSET L /\ \A s \in Touched(E) : Left(s)
  BY <1>2, <1>3, <1>4 DEF Touched
<1>6. QED
  BY <1>5 DEF NonEmpty, NoneLeft

(* What check() answers first is right, and null is its last answer.       *)
LEMMA StepAnswers ==
  ASSUME Inv, [Next]_vars
  PROVE  /\ UNCHANGED edges
         /\ \/ UNCHANGED result
            \/ result = "none" /\ result' = "run" /\ NonEmpty(edges)
            \/ result = "none" /\ result' = "null" /\ ~NonEmpty(edges)
            \/ result = "run" /\ result' = "null"
<1>1. CASE RescanReport
  <2>1. st_blue # << >> /\ accepting(marks[Top]) /\ result = "none"
    BY <1>1 DEF RescanReport, Inv, Phases, Done, Top
  <2>2. QED
    BY <1>1, <2>1, FullFront DEF RescanReport
<1>2. CASE BlueReturn
  <2>1. result = "none"
    BY <1>2 DEF BlueReturn, Inv, Phases
  <2>2. QED
    BY <1>2, <2>1, EmptyBlue DEF BlueReturn
<1>3. CASE CheckAgain
  BY <1>3 DEF CheckAgain
<1>4. CASE UNCHANGED vars
  BY <1>4 DEF vars
<1>5. CASE UNCHANGED <<edges, result>>
  BY <1>5
<1>6. QED
  BY <1>1, <1>2, <1>3, <1>4, <1>5
     DEF Next, dfs_blue, dfs_red, Check, Rescan, RescanPop, RedPop, RedReturn, Finished,
         BlueDown, BlueIgnore, RescanDown, RescanIgnore, RedDown, RedIgnore
=============================================================================
