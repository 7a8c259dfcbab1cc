-------------------------- MODULE NdfsStackProofs --------------------------
(***************************************************************************)
(* What the proofs about the searches of spot/twaalgos rest on: facts      *)
(* about reachability and strongly connected sets of edges, and about the  *)
(* stacks of the nested depth-first searches.                              *)
(***************************************************************************)
EXTENDS NdfsStack, SequenceTheorems, FiniteSetTheorems, WellFoundedInduction, TLAPS

-----------------------------------------------------------------------------
(* Reachability                                                            *)

(* A state reaches itself, and what is reached is closed.                  *)
LEMMA ReachFacts ==
  ASSUME NEW E \in SUBSET Edge, NEW s \in State
  PROVE  /\ Reach(E, s) \in SUBSET State
         /\ s \in Reach(E, s)
         /\ Closed(E, Reach(E, s))
<1>1. \A e \in E : e.src \in State /\ e.dst \in State
  BY DEF Edge
<1>2. Reach(E, s) \in SUBSET State /\ s \in Reach(E, s)
  BY DEF Reach
<1>3. Closed(E, Reach(E, s))
  BY <1>1 DEF Closed, Reach
<1>4. QED
  BY <1>2, <1>3

(* A closed set around s holds all that s reaches.                         *)
LEMMA ReachInClosed ==
  ASSUME NEW E, NEW s, NEW C \in SUBSET State, s \in C, Closed(E, C)
  PROVE  Reach(E, s) \subseteq C
BY DEF Reach

(* What a reached state reaches is reached.                                *)
LEMMA ReachTrans ==
  ASSUME NEW E \in SUBSET Edge, NEW s \in State, NEW t \in Reach(E, s)
  PROVE  Reach(E, t) \subseteq Reach(E, s)
BY ReachFacts, ReachInClosed

(* The end of an edge is reached from its start.                           *)
LEMMA ReachEdge ==
  ASSUME NEW E \in SUBSET Edge, NEW e \in E
  PROVE  e.src \in State /\ e.dst \in State /\ e.dst \in Reach(E, e.src)
<1>1. e.src \in State /\ e.dst \in State
  BY DEF Edge
<1>2. QED
  BY <1>1, ReachFacts DEF Closed

(* The edges on the cycles through s form a strongly connected set.        *)
LEMMA CyclesAreStronglyConnected ==
  ASSUME NEW E \in SUBSET Edge, NEW s \in State,
         NEW F, F = {e \in E : e.src \in Reach(E, s) /\ s \in Reach(E, e.dst)},
         F # {}
  PROVE  StronglyConnected(F) /\ s \in Touched(F)
<1> DEFINE Back == {x \in State : s \in Reach(E, x)}
<1>1. ASSUME NEW x \in Touched(F)
      PROVE  x \in State /\ x \in Reach(E, s) /\ x \in Back
  <2>1. PICK e \in F : x = e.src \/ x = e.dst
    BY <1>1 DEF Touched
  <2>2. /\ e \in E /\ e.src \in State /\ e.dst \in State
        /\ e.src \in Reach(E, s) /\ s \in Reach(E, e.dst) /\ e.dst \in Reach(E, e.src)
    BY <2>1, ReachEdge
  <2>3. e.dst \in Reach(E, s) /\ s \in Reach(E, e.src)
    BY <2>2, ReachTrans
  <2>4. QED
    BY <2>1, <2>2, <2>3
<1>2. ASSUME NEW e \in E, e.src \in Reach(E, s), e.dst \in Back
      PROVE  e \in F
  BY <1>2
<1>3. ASSUME NEW e \in E, e.dst \in Back
      PROVE  e.src \in Back
  <2>1. e.src \in State /\ e.dst \in State /\ e.dst \in Reach(E, e.src)
    BY ReachEdge
  <2>2. Reach(E, e.dst) \subseteq Reach(E, e.src)
    BY <2>1, ReachTrans
  <2>3. QED
    BY <1>3, <2>1, <2>2
<1>4. ASSUME NEW C \in SUBSET Touched(F), Closed(F, C), NEW c \in C, NEW x \in Touched(F),
             x \in Reach(E, c)
      PROVE  x \in C
  <2> DEFINE D == C \cup (State \ Back)
  <2>1. D \in SUBSET State /\ c \in D
    BY <1>1
  <2>2. ASSUME NEW e \in E, e.src \in D PROVE e.dst \in D
    <3>1. e.dst \in State
      BY ReachEdge
    <3>2. CASE e.dst \in Back
      <4>1. e.src \in Back
        BY <1>3, <3>2
      <4>2. e.src \in C /\ e.src \in Reach(E, s)
        BY <2>2, <4>1, <1>1
      <4>3. QED
        BY <1>2, <1>4, <3>2, <4>2 DEF Closed
    <3>3. CASE e.dst \notin Back
      BY <3>1, <3>3
    <3>4. QED
      BY <3>2, <3>3
  <2>3. Closed(E, D)
    BY <2>2 DEF Closed
  <2> HIDE DEF D
  <2>4. x \in D
    BY <2>1, <2>3, <1>4, ReachInClosed
  <2>5. QED
    BY <1>1, <2>4 DEF D
<1>5. s \in Touched(F)
  <2>1. PICK e \in F : TRUE
    OBVIOUS
  <2>2. e.dst \in Touched(F) /\ e.dst \in State /\ e \in E
    BY <2>1, ReachEdge DEF Touched
  <2>3. s \in Reach(E, s)
    BY ReachFacts
  <2> DEFINE D == Touched(F) \cup (State \ Back)
  <2>4. D \in SUBSET State /\ e.dst \in D
    BY <1>1, <2>2
  <2>5. Closed(E, D)
    <3> SUFFICES ASSUME NEW g \in E, g.src \in D PROVE g.dst \in D
      BY DEF Closed
    <3>1. g.dst \in State
      BY ReachEdge
    <3>2. CASE g.dst \in Back
      <4>1. g.src \in Reach(E, s)
        BY <1>1, <1>3, <3>2
      <4>2. QED
        BY <1>2, <3>2, <4>1 DEF Touched
    <3>3. QED
      BY <3>1, <3>2
  <2> HIDE DEF D
  <2>6. s \in D
    BY <2>1, <2>4, <2>5, ReachInClosed
  <2>7. QED
    BY <2>3, <2>6 DEF D
<1>6. ASSUME NEW C \in SUBSET Touched(F), C # {}, Closed(F, C), NEW x \in Touched(F)
      PROVE  x \in C
  <2>1. PICK c \in C : TRUE
    BY <1>6
  <2>2. s \in Reach(E, c) /\ x \in Reach(E, s)
    BY <1>1, <1>6, <2>1
  <2>3. s \in C
    BY <1>4, <1>5, <1>6, <2>1, <2>2
  <2>4. QED
    BY <1>4, <1>6, <2>2, <2>3
<1>7. StronglyConnected(F)
  BY <1>6, Zenon DEF StronglyConnected
<1>8. QED
  BY <1>5, <1>7

(* Marks that every edge hands on to its end are the same everywhere in a  *)
(* strongly connected set, and include those of its edges if they too are  *)
(* handed on.                                                              *)
LEMMA MarksInStronglyConnected ==
  ASSUME NEW E, StronglyConnected(E), NEW m,
         \A e \in E : e.acc \cup m[e.src] \subseteq m[e.dst]
  PROVE  \A x \in Touched(E) : Marks(E) \subseteq m[x]
<1> SUFFICES ASSUME NEW x \in Touched(E), NEW e \in E
             PROVE  e.acc \subseteq m[x]
  BY DEF Marks
<1> DEFINE C == {y \in Touched(E) : e.acc \subseteq m[y]}
<1>1. e.dst \in C
  BY DEF Touched
<1>2. Closed(E, C)
  BY DEF Closed, Touched
<1>3. C = Touched(E)
  BY <1>1, <1>2 DEF StronglyConnected
<1>4. QED
  BY <1>3

-----------------------------------------------------------------------------
(* Stacks                                                                  *)

(* The states on a stack, and the edges its iterators have still to        *)
(* deliver.                                                                *)
States(st) == {st[i].s : i \in 1..Len(st)}

Ahead(st) == UNION {st[i].it : i \in 1..Len(st)}

(* No state is on the stack twice.                                         *)
Distinct(st) == \A i, j \in 1..Len(st) : st[i].s = st[j].s => i = j

(* An item reaches those above it.                                         *)
Path(E, st) == \A i, j \in 1..Len(st) : i <= j => st[j].s \in Reach(Live(E), st[i].s)

IsStack(E, st) == st \in Seq(Item) /\ Iterators(E, st) /\ Path(E, st)

(* The empty stack.                                                        *)
LEMMA EmptyStack ==
  ASSUME NEW E
  PROVE  /\ IsStack(E, << >>) /\ Distinct(<< >>)
         /\ States(<< >>) = {} /\ Ahead(<< >>) = {}
<1>1. << >> \in Seq(Item) /\ 1..Len(<< >>) = {}
  OBVIOUS
<1>2. QED
  BY <1>1 DEF IsStack, Iterators, Path, Distinct, States, Ahead

(* A stack has a front unless it is empty, and its items have their type.  *)
LEMMA StackFacts ==
  ASSUME NEW st \in Seq(Item)
  PROVE  /\ Len(st) \in Nat
         /\ st # << >> <=> Len(st) > 0
         /\ \A i \in 1..Len(st) : st[i] \in Item
         /\ st # << >> => Last(st) \in Item /\ Last(st) = st[Len(st)] /\ Len(st) \in 1..Len(st)
         /\ DOMAIN st = 1..Len(st)
BY EmptySeq, ElementOfSeq DEF Last

(* The states and the edges of a stack are those of the automaton, and all *)
(* its states lead to its front.                                           *)
LEMMA FrontFacts ==
  ASSUME NEW E \in SUBSET Edge, NEW st, IsStack(E, st), st # << >>
  PROVE  /\ Last(st) \in Item /\ Last(st).s \in State /\ Last(st).s \in States(st)
         /\ States(st) \subseteq State /\ Ahead(st) \subseteq E
         /\ \A e \in Last(st).it : e \in E /\ e.src = Last(st).s /\ e \in Ahead(st)
         /\ \A s \in States(st) : Last(st).s \in Reach(Live(E), s)
<1>1. /\ Len(st) \in Nat /\ Len(st) \in 1..Len(st) /\ Last(st) = st[Len(st)]
      /\ \A i \in 1..Len(st) : st[i] \in Item
  BY StackFacts DEF IsStack
<1>2. \A i \in 1..Len(st) : st[i].s \in State
  BY <1>1 DEF Item
<1>3. States(st) \subseteq State /\ Last(st).s \in States(st) /\ Last(st).s \in State
  BY <1>1, <1>2 DEF States
<1>4. \A i \in 1..Len(st) : \A e \in st[i].it : e \in E /\ e.src = st[i].s
  BY DEF IsStack, Iterators, succ_iter
<1>5. Ahead(st) \subseteq E /\ \A e \in Last(st).it : e \in E /\ e.src = Last(st).s /\ e \in Ahead(st)
  BY <1>1, <1>4 DEF Ahead
<1>6. \A i \in 1..Len(st) : Last(st).s \in Reach(Live(E), st[i].s)
  BY <1>1 DEF IsStack, Path
<1>7. \A s \in States(st) : Last(st).s \in Reach(Live(E), s)
  BY <1>6 DEF States
<1>8. QED
  BY <1>1, <1>3, <1>5, <1>7

(* An edge still to be delivered comes from a state of the stack: from its *)
(* front only through the iterator of the front, if no state is there      *)
(* twice.                                                                  *)
LEMMA AheadFacts ==
  ASSUME NEW E \in SUBSET Edge, NEW st, IsStack(E, st), NEW e \in Ahead(st)
  PROVE  /\ e \in E /\ e.src \in States(st)
         /\ Distinct(st) /\ e.src = Last(st).s => e \in Last(st).it
<1>1. PICK i \in 1..Len(st) : e \in st[i].it
  BY DEF Ahead
<1>2. e \in E /\ e.src = st[i].s
  BY <1>1 DEF IsStack, Iterators, succ_iter
<1>3. e.src \in States(st)
  BY <1>2 DEF States
<1>4. st # << >> /\ Len(st) \in 1..Len(st) /\ Last(st) = st[Len(st)]
  BY <1>1, StackFacts DEF IsStack
<1>5. Distinct(st) /\ e.src = Last(st).s => i = Len(st)
  BY <1>2, <1>4 DEF Distinct
<1>6. QED
  BY <1>1, <1>2, <1>3, <1>4, <1>5

(* What next() changes of a stack: only the iterator of its front.         *)
LEMMA NextItems ==
  ASSUME NEW st \in Seq(Item), st # << >>, NEW e
  PROVE  /\ next(st, e) \in Seq(Item)
         /\ Len(next(st, e)) = Len(st)
         /\ \A i \in 1..Len(st) :
              /\ next(st, e)[i].s = st[i].s
              /\ next(st, e)[i].label = st[i].label
              /\ next(st, e)[i].acc = st[i].acc
              /\ i = Len(st) => next(st, e)[i].it = st[i].it \ {e}
              /\ i # Len(st) => next(st, e)[i].it = st[i].it
<1> DEFINE k == Len(st)
           x == [st[k] EXCEPT !.it = @ \ {e}]
<1>1. k \in 1..Len(st) /\ st[k] \in Item /\ k \in Nat
  BY StackFacts
<1>2. /\ x \in Item /\ x.it = st[k].it \ {e}
      /\ x.s = st[k].s /\ x.label = st[k].label /\ x.acc = st[k].acc
  BY <1>1 DEF Item
<1>3. next(st, e) = [st EXCEPT ![k] = x]
  BY DEF next
<1> HIDE DEF x
<1>4. /\ next(st, e) \in Seq(Item)
      /\ Len(next(st, e)) = Len(st)
      /\ \A i \in 1..Len(st) : next(st, e)[i] = IF i = k THEN x ELSE st[i]
  <2> HIDE DEF k
  <2>1. QED
    BY <1>1, <1>2, <1>3, ExceptSeq
<1>5. QED
  BY <1>2, <1>4

(* next() leaves a stack of the same states with one edge less to deliver. *)
LEMMA NextStack ==
  ASSUME NEW E, NEW st, IsStack(E, st), st # << >>, NEW e
  PROVE  /\ IsStack(E, next(st, e)) /\ next(st, e) # << >>
         /\ States(next(st, e)) = States(st)
         /\ Last(next(st, e)).s = Last(st).s
         /\ Last(next(st, e)).it = Last(st).it \ {e}
         /\ Ahead(next(st, e)) \subseteq Ahead(st)
         /\ Ahead(st) \subseteq Ahead(next(st, e)) \cup {e}
         /\ Distinct(st) => Distinct(next(st, e))
<1> DEFINE n == next(st, e)
<1>0. st \in Seq(Item)
  BY DEF IsStack
<1>1. /\ n \in Seq(Item) /\ Len(n) = Len(st)
      /\ \A i \in 1..Len(st) :
           /\ n[i].s = st[i].s
           /\ i = Len(st) => n[i].it = st[i].it \ {e}
           /\ i # Len(st) => n[i].it = st[i].it
  BY <1>0, NextItems
<1> HIDE DEF n
<1>2. n # << >> /\ Len(n) \in 1..Len(n) /\ Last(n) = n[Len(n)] /\ Last(st) = st[Len(st)]
  BY <1>1, StackFacts DEF IsStack
<1>3. States(n) = States(st)
  BY <1>1 DEF States
<1>4. \A i \in 1..Len(st) : n[i].it \subseteq st[i].it /\ st[i].it \subseteq n[i].it \cup {e}
  BY <1>1
<1>5. Ahead(n) \subseteq Ahead(st) /\ Ahead(st) \subseteq Ahead(n) \cup {e}
  BY <1>1, <1>4 DEF Ahead
<1>6. Iterators(E, n)
  BY <1>1, <1>4 DEF Iterators, IsStack
<1>7. Path(E, n)
  BY <1>1 DEF Path, IsStack
<1>8. Distinct(st) => Distinct(n)
  BY <1>1 DEF Distinct
<1>9. Last(n).s = Last(st).s /\ Last(n).it = Last(st).it \ {e}
  BY <1>1, <1>2
<1>10. QED
  BY <1>1, <1>2, <1>3, <1>5, <1>6, <1>7, <1>8, <1>9 DEF n, IsStack

(* pop() drops the front.                                                  *)
LEMMA PopItems ==
  ASSUME NEW st \in Seq(Item), st # << >>
  PROVE  /\ pop(st) \in Seq(Item)
         /\ Len(pop(st)) = Len(st) - 1
         /\ \A i \in 1..(Len(st) - 1) : pop(st)[i] = st[i]
<1>1. Len(st) \in Nat \ {0} /\ \A i \in 1..Len(st) : st[i] \in Item
  BY StackFacts
<1>2. pop(st) \in Seq(Item) /\ \A i \in 1..(Len(st) - 1) : pop(st)[i] = st[i]
  BY <1>1 DEF pop, Front
<1>3. Len(pop(st)) = Len(st) - 1
  <2> DEFINE n == Len(st) - 1
  <2>1. n \in Int /\ n >= 0 /\ 1 \in Int /\ \A i \in 1..n : st[i] \in Item
    BY <1>1
  <2> HIDE DEF n
  <2>2. Len(SubSeq(st, 1, n)) = n
    BY <2>1, SubSeqProperties
  <2>3. QED
    BY <2>2 DEF n, pop, Front
<1>4. QED
  BY <1>2, <1>3

(* pop() leaves the states and the edges that were not those of the front. *)
LEMMA PopStack ==
  ASSUME NEW E, NEW st, IsStack(E, st), st # << >>
  PROVE  /\ IsStack(E, pop(st))
         /\ States(st) = States(pop(st)) \cup {Last(st).s}
         /\ Ahead(st) = Ahead(pop(st)) \cup Last(st).it
         /\ Distinct(st) => Distinct(pop(st)) /\ Last(st).s \notin States(pop(st))
<1> DEFINE p == pop(st)
<1>1. /\ p \in Seq(Item) /\ Len(p) = Len(st) - 1
      /\ \A i \in 1..(Len(st) - 1) : p[i] = st[i]
  BY PopItems DEF IsStack
<1> HIDE DEF p
<1>2. Len(st) \in Nat \ {0} /\ Len(st) \in 1..Len(st) /\ Last(st) = st[Len(st)]
  BY StackFacts DEF IsStack
<1>3. \A i \in 1..Len(st) : i \in 1..Len(p) \/ i = Len(st)
  BY <1>1, <1>2
<1>4. \A i \in 1..Len(p) : i \in 1..Len(st) /\ i # Len(st) /\ p[i] = st[i]
  BY <1>1, <1>2
<1>5. States(st) = States(p) \cup {Last(st).s}
  BY <1>2, <1>3, <1>4 DEF States
<1>6. Ahead(st) = Ahead(p) \cup Last(st).it
  BY <1>2, <1>3, <1>4 DEF Ahead
<1>7. Iterators(E, p) /\ Path(E, p)
  BY <1>4 DEF Iterators, Path, IsStack
<1>8. Distinct(st) => Distinct(p) /\ Last(st).s \notin States(p)
  BY <1>2, <1>4 DEF Distinct, States
<1>9. QED
  BY <1>1, <1>5, <1>6, <1>7, <1>8 DEF p, IsStack

(* push() adds a state that the front leads to.                            *)
LEMMA PushStack ==
  ASSUME NEW E \in SUBSET Edge, NEW st, IsStack(E, st), NEW s \in State,
         NEW label, label \in BOOLEAN, NEW acc \in SUBSET Mark,
         st # << >> => s \in Reach(Live(E), Last(st).s)
  PROVE  LET p == push(st, E, s, label, acc)
         IN  /\ IsStack(E, p) /\ p # << >>
             /\ States(p) = States(st) \cup {s}
             /\ Ahead(p) = Ahead(st) \cup succ_iter(E, s)
             /\ Last(p) = [s |-> s, it |-> succ_iter(E, s), label |-> label, acc |-> acc]
             /\ Distinct(st) /\ s \notin States(st) => Distinct(p)
<1> DEFINE x == [s |-> s, it |-> succ_iter(E, s), label |-> label, acc |-> acc]
           p == push(st, E, s, label, acc)
<1>1. x \in Item /\ x.s = s /\ x.it = succ_iter(E, s)
  BY DEF Item, succ_iter
<1>2. p = Append(st, x)
  BY DEF push
<1> HIDE DEF x
<1>3. /\ p \in Seq(Item) /\ Len(p) = Len(st) + 1 /\ p # << >>
      /\ \A i \in 1..Len(st) : p[i] = st[i]
      /\ p[Len(st) + 1] = x
  BY <1>1, <1>2, AppendProperties DEF IsStack
<1> HIDE DEF p
<1>4. Len(st) \in Nat
  BY DEF IsStack
<1>5. \A i \in 1..Len(p) : i \in 1..Len(st) \/ i = Len(p)
  BY <1>3, <1>4
<1>6. \A i \in 1..Len(st) : i \in 1..Len(p) /\ i < Len(p) /\ p[i] = st[i]
  BY <1>3, <1>4
<1>7. Len(p) \in 1..Len(p) /\ p[Len(p)] = x /\ Last(p) = x
  BY <1>3, <1>4 DEF Last
<1>8. States(p) = States(st) \cup {s}
  BY <1>1, <1>5, <1>6, <1>7 DEF States
<1>9. Ahead(p) = Ahead(st) \cup succ_iter(E, s)
  BY <1>1, <1>5, <1>6, <1>7 DEF Ahead
<1>10. Iterators(E, p)
  BY <1>1, <1>5, <1>6, <1>7 DEF Iterators, IsStack
<1>11. Path(E, p)
  <2>1. Live(E) \in SUBSET Edge
    BY DEF Live
  <2>2. ASSUME NEW i \in 1..Len(st) PROVE s \in Reach(Live(E), st[i].s)
    <3>1. st # << >> /\ Last(st).s \in Reach(Live(E), st[i].s)
      <4>1. st # << >> /\ st[i].s \in States(st)
        BY <2>2, StackFacts DEF IsStack, States
      <4>2. QED
        BY <4>1, FrontFacts
    <3>2. st[i].s \in State
      BY <2>2, StackFacts DEF IsStack, Item
    <3>3. QED
      BY <2>1, <3>1, <3>2, ReachTrans
  <2>3. s \in Reach(Live(E), s)
    BY <2>1, ReachFacts
  <2> SUFFICES ASSUME NEW i \in 1..Len(p), NEW j \in 1..Len(p), i <= j
               PROVE  p[j].s \in Reach(Live(E), p[i].s)
    BY DEF Path
  <2>4. CASE j \in 1..Len(st)
    <3>1. i \in 1..Len(st)
      BY <2>4, <1>4
    <3>2. QED
      BY <2>4, <3>1, <1>6 DEF Path, IsStack
  <2>5. CASE j = Len(p) /\ i \in 1..Len(st)
    BY <2>5, <2>2, <1>1, <1>6, <1>7
  <2>6. CASE j = Len(p) /\ i = Len(p)
    BY <2>6, <2>3, <1>1, <1>7
  <2>7. QED
    BY <2>4, <2>5, <2>6, <1>5
<1>12. Distinct(st) /\ s \notin States(st) => Distinct(p)
  BY <1>1, <1>5, <1>6, <1>7 DEF Distinct, States
<1>13. QED
  BY <1>3, <1>7, <1>8, <1>9, <1>10, <1>11, <1>12 DEF IsStack, p, x

(* The first push() on an empty stack.                                     *)
LEMMA PushFirst ==
  ASSUME NEW E \in SUBSET Edge, NEW st, st = << >>, NEW s \in State,
         NEW label, label \in BOOLEAN, NEW acc \in SUBSET Mark
  PROVE  LET p == push(st, E, s, label, acc)
         IN  /\ IsStack(E, p) /\ p # << >> /\ Distinct(p)
             /\ States(p) = {s} /\ Ahead(p) = succ_iter(E, s)
<1>1. /\ IsStack(E, st) /\ Distinct(st) /\ States(st) = {} /\ Ahead(st) = {}
      /\ st # << >> => s \in Reach(Live(E), Last(st).s)
  BY EmptyStack
<1>2. LET p == push(st, E, s, label, acc)
      IN  /\ IsStack(E, p) /\ p # << >>
          /\ States(p) = States(st) \cup {s}
          /\ Ahead(p) = Ahead(st) \cup succ_iter(E, s)
          /\ Last(p) = [s |-> s, it |-> succ_iter(E, s), label |-> label, acc |-> acc]
          /\ Distinct(st) /\ s \notin States(st) => Distinct(p)
  <2>1. ASSUME NEW q, IsStack(E, q), q # << >> => s \in Reach(Live(E), Last(q).s)
        PROVE  LET p == push(q, E, s, label, acc)
               IN  /\ IsStack(E, p) /\ p # << >>
                   /\ States(p) = States(q) \cup {s}
                   /\ Ahead(p) = Ahead(q) \cup succ_iter(E, s)
                   /\ Last(p) = [s |-> s, it |-> succ_iter(E, s), label |-> label, acc |-> acc]
                   /\ Distinct(q) /\ s \notin States(q) => Distinct(p)
    BY ONLY <2>1, PushStack, E \in SUBSET Edge, s \in State, label \in BOOLEAN, acc \in SUBSET Mark
  <2>2. QED
    BY <1>1, <2>1
<1> DEFINE p == push(st, E, s, label, acc)
<1>3. IsStack(E, p) /\ p # << >> /\ Distinct(p) /\ States(p) = {s} /\ Ahead(p) = succ_iter(E, s)
  BY <1>1, <1>2
<1>4. QED
  BY <1>3

-----------------------------------------------------------------------------
(* The edges that brought a search up a stack                              *)

(* e leads from an item to the next one, with the marks kept there.        *)
Along(st, e) ==
  \E i \in 2..Len(st) : e.src = st[i - 1].s /\ e.dst = st[i].s /\ e.acc = st[i].acc

(* next() does not change them.                                            *)
LEMMA NextLinked ==
  ASSUME NEW E, NEW st \in Seq(Item), st # << >>, NEW e
  PROVE  /\ Linked(E, st) => Linked(E, next(st, e))
         /\ next(st, e)[1].s = st[1].s /\ next(st, e)[1].acc = st[1].acc
         /\ Last(next(st, e)).acc = Last(st).acc
         /\ \A g : Along(st, g) => Along(next(st, e), g)
<1> DEFINE n == next(st, e)
<1>1. /\ n \in Seq(Item) /\ Len(n) = Len(st) /\ Len(st) \in Nat \ {0}
      /\ \A i \in 1..Len(st) : n[i].s = st[i].s /\ n[i].acc = st[i].acc
  BY NextItems, StackFacts
<1> HIDE DEF n
<1>2. \A i \in 2..Len(st) : i \in 1..Len(st) /\ i - 1 \in 1..Len(st)
  BY <1>1
<1>3. Linked(E, st) => Linked(E, n)
  BY <1>1, <1>2 DEF Linked
<1>4. \A g : Along(st, g) => Along(n, g)
  BY <1>1, <1>2 DEF Along
<1>5. n[1].s = st[1].s /\ n[1].acc = st[1].acc /\ Last(n).acc = Last(st).acc
  BY <1>1 DEF Last
<1>6. QED
  BY <1>3, <1>4, <1>5 DEF n

(* pop() drops the one into the front.                                     *)
LEMMA PopLinked ==
  ASSUME NEW E, NEW st \in Seq(Item), st # << >>
  PROVE  /\ Linked(E, st) => Linked(E, pop(st))
         /\ pop(st) # << >> <=> Len(st) > 1
         /\ pop(st) # << >> => pop(st)[1] = st[1] /\ Last(pop(st)) = st[Len(st) - 1]
         /\ \A g : Along(st, g) =>
              \/ Along(pop(st), g)
              \/ /\ Len(st) > 1 /\ g.src = st[Len(st) - 1].s
                 /\ g.dst = Last(st).s /\ g.acc = Last(st).acc
<1> DEFINE p == pop(st)
<1>1. /\ p \in Seq(Item) /\ Len(p) = Len(st) - 1 /\ Len(st) \in Nat \ {0}
      /\ \A i \in 1..(Len(st) - 1) : p[i] = st[i]
  BY PopItems, StackFacts
<1>2. p # << >> <=> Len(st) > 1
  BY <1>1, StackFacts
<1> HIDE DEF p
<1>3. Linked(E, st) => Linked(E, p)
  BY <1>1 DEF Linked
<1>4. p # << >> => p[1] = st[1] /\ Last(p) = st[Len(st) - 1]
  BY <1>1, <1>2 DEF Last
<1>5. ASSUME NEW g, Along(st, g)
      PROVE  \/ Along(p, g)
             \/ /\ Len(st) > 1 /\ g.src = st[Len(st) - 1].s
                /\ g.dst = Last(st).s /\ g.acc = Last(st).acc
  <2>1. PICK i \in 2..Len(st) : g.src = st[i - 1].s /\ g.dst = st[i].s /\ g.acc = st[i].acc
    BY <1>5 DEF Along
  <2>2. CASE i = Len(st)
    BY <1>1, <2>1, <2>2 DEF Last
  <2>3. CASE i # Len(st)
    <3>1. i \in 2..Len(p) /\ p[i] = st[i] /\ p[i - 1] = st[i - 1]
      BY <1>1, <2>3
    <3>2. QED
      BY <2>1, <3>1 DEF Along
  <2>4. QED
    BY <2>2, <2>3
<1>6. QED
  BY <1>2, <1>3, <1>4, <1>5 DEF p

(* The edge that Linked() asks for between items for s and t.              *)
Hop(s, acc, t) == [src |-> s, cond |-> TRUE, acc |-> acc, dst |-> t]

(* The items after push().                                                 *)
LEMMA PushItems ==
  ASSUME NEW E \in SUBSET Edge, NEW st \in Seq(Item), NEW s \in State,
         NEW label, label \in BOOLEAN, NEW acc \in SUBSET Mark, NEW p,
         p = push(st, E, s, label, acc)
  PROVE  \E x \in Item :
           /\ x.s = s /\ x.acc = acc
           /\ p \in Seq(Item) /\ Len(p) = Len(st) + 1 /\ Len(st) \in Nat
           /\ \A i \in 1..Len(st) : p[i] = st[i]
           /\ p[Len(st) + 1] = x /\ Last(p) = x
           /\ st # << >> <=> Len(st) > 0
           /\ st # << >> => Last(st) = p[Len(st)]
<1> DEFINE x == [s |-> s, it |-> succ_iter(E, s), label |-> label, acc |-> acc]
<1>1. x \in Item /\ x.s = s /\ x.acc = acc
  BY DEF Item, succ_iter
<1>2. p = Append(st, x)
  BY DEF push
<1> HIDE DEF x
<1>3. /\ p \in Seq(Item) /\ Len(p) = Len(st) + 1 /\ Len(st) \in Nat
      /\ \A i \in 1..Len(st) : p[i] = st[i]
      /\ p[Len(st) + 1] = x
  BY <1>1, <1>2, AppendProperties
<1>4. st # << >> <=> Len(st) > 0
  BY StackFacts
<1>5. Last(p) = x /\ (st # << >> => Last(st) = p[Len(st)])
  BY <1>3, <1>4 DEF Last
<1>6. QED
  BY <1>1, <1>3, <1>4, <1>5

(* push() keeps the bottom of a stack that has one.                        *)
LEMMA PushBottom ==
  ASSUME NEW E \in SUBSET Edge, NEW st \in Seq(Item), NEW s \in State,
         NEW label, label \in BOOLEAN, NEW acc \in SUBSET Mark
  PROVE  LET p == push(st, E, s, label, acc)
         IN  /\ st # << >> => p[1] = st[1]
             /\ st = << >> => p[1].s = s /\ p[1].acc = acc
BY PushItems

(* The front after push().                                                 *)
LEMMA PushTop ==
  ASSUME NEW E \in SUBSET Edge, NEW st \in Seq(Item), NEW s \in State,
         NEW label, label \in BOOLEAN, NEW acc \in SUBSET Mark
  PROVE  LET p == push(st, E, s, label, acc)
         IN  Last(p).s = s /\ Last(p).acc = acc
BY PushItems

(* push() adds an edge to the path, if it is one of the automaton.         *)
LEMMA PushLinked ==
  ASSUME NEW E \in SUBSET Edge, NEW st \in Seq(Item), NEW s \in State,
         NEW label, label \in BOOLEAN, NEW acc \in SUBSET Mark,
         Linked(E, st), st # << >> => Hop(Last(st).s, acc, s) \in E
  PROVE  Linked(E, push(st, E, s, label, acc))
<1> DEFINE p == push(st, E, s, label, acc)
<1> HIDE DEF p
<1>1. PICK x \in Item :
           /\ x.s = s /\ x.acc = acc
           /\ p \in Seq(Item) /\ Len(p) = Len(st) + 1 /\ Len(st) \in Nat
           /\ \A i \in 1..Len(st) : p[i] = st[i]
           /\ p[Len(st) + 1] = x /\ Last(p) = x
           /\ st # << >> <=> Len(st) > 0
           /\ st # << >> => Last(st) = p[Len(st)]
  BY PushItems DEF p
<1>2. ASSUME NEW i \in 2..Len(p)
      PROVE  [src |-> p[i - 1].s, cond |-> TRUE, acc |-> p[i].acc, dst |-> p[i].s] \in E
  <2>1. CASE i \in 2..Len(st)
    <3>1. p[i] = st[i] /\ p[i - 1] = st[i - 1]
      BY <1>1, <2>1
    <3>2. QED
      BY <2>1, <3>1 DEF Linked
  <2>2. CASE i = Len(st) + 1
    <3>1. st # << >> /\ p[i - 1] = Last(st) /\ p[i] = x
      BY <1>1, <2>2
    <3>2. QED
      BY <1>1, <3>1 DEF Hop
  <2>3. QED
    BY <1>1, <2>1, <2>2
<1>3. QED
  BY <1>2 DEF Linked, p

(* The path of one item that the first push() makes.                       *)
LEMMA FirstLinked ==
  ASSUME NEW E \in SUBSET Edge, NEW st, st = << >>, NEW s \in State,
         NEW label, label \in BOOLEAN, NEW acc \in SUBSET Mark
  PROVE  LET p == push(st, E, s, label, acc)
         IN  /\ Linked(E, p) /\ p[1].s = s /\ p[1].acc = acc
             /\ Last(p).s = s /\ pop(p) = << >>
<1>1. st \in Seq(Item) /\ Len(st) = 0
  OBVIOUS
<1> DEFINE p == push(st, E, s, label, acc)
<1>2. PICK x \in Item :
        /\ x.s = s /\ x.acc = acc /\ p \in Seq(Item) /\ Len(p) = Len(st) + 1
        /\ p[Len(st) + 1] = x /\ Last(p) = x
  <2>1. st \in Seq(Item)
    BY <1>1
  <2>2. QED
    BY ONLY <2>1, PushItems, E \in SUBSET Edge, s \in State, label \in BOOLEAN, acc \in SUBSET Mark
<1> HIDE DEF p
<1>3. Linked(E, p) /\ p[1].s = s /\ p[1].acc = acc /\ Last(p).s = s /\ p # << >> /\ Len(p) = 1
  BY <1>1, <1>2 DEF Linked
<1>4. pop(p) \in Seq(Item) /\ Len(pop(p)) = 0
  <2>1. pop(p) \in Seq(Item) /\ Len(pop(p)) = Len(p) - 1
    BY <1>2, <1>3, PopItems
  <2>2. QED
    BY <1>3, <2>1
<1>5. pop(p) = << >>
  BY <1>4, EmptySeq
<1>6. QED
  BY <1>3, <1>5 DEF p

(* And the edges it came by are those of before and the new one.           *)
LEMMA PushAlong ==
  ASSUME NEW E \in SUBSET Edge, NEW st \in Seq(Item), NEW s \in State,
         NEW label, label \in BOOLEAN, NEW acc \in SUBSET Mark
  PROVE  LET p == push(st, E, s, label, acc)
         IN  /\ \A g : Along(st, g) => Along(p, g)
             /\ \A g : st # << >> /\ g.src = Last(st).s /\ g.dst = s /\ g.acc = acc
                  => Along(p, g)
<1> DEFINE p == push(st, E, s, label, acc)
<1> HIDE DEF p
<1>1. PICK x \in Item :
           /\ x.s = s /\ x.acc = acc
           /\ p \in Seq(Item) /\ Len(p) = Len(st) + 1 /\ Len(st) \in Nat
           /\ \A i \in 1..Len(st) : p[i] = st[i]
           /\ p[Len(st) + 1] = x /\ Last(p) = x
           /\ st # << >> <=> Len(st) > 0
           /\ st # << >> => Last(st) = p[Len(st)]
  BY PushItems DEF p
<1>2. \A g : Along(st, g) => Along(p, g)
  <2>1. \A i \in 2..Len(st) : i \in 2..Len(p) /\ p[i] = st[i] /\ p[i - 1] = st[i - 1]
    BY <1>1
  <2>2. QED
    BY <2>1 DEF Along
<1>3. ASSUME NEW g, st # << >>, g.src = Last(st).s, g.dst = s, g.acc = acc
      PROVE  Along(p, g)
  <2>1. Len(p) \in 2..Len(p) /\ p[Len(p) - 1] = Last(st) /\ p[Len(p)] = x
    BY <1>1, <1>3
  <2>2. QED
    BY <1>1, <1>3, <2>1 DEF Along
<1>4. QED
  BY <1>2, <1>3 DEF p

(* pop() undoes push().                                                    *)
LEMMA PopPush ==
  ASSUME NEW E \in SUBSET Edge, NEW st \in Seq(Item), NEW s \in State,
         NEW label, label \in BOOLEAN, NEW acc \in SUBSET Mark
  PROVE  pop(push(st, E, s, label, acc)) = st
<1> DEFINE x == [s |-> s, it |-> succ_iter(E, s), label |-> label, acc |-> acc]
           p == push(st, E, s, label, acc)
<1>1. x \in Item /\ p = Append(st, x)
  BY DEF Item, succ_iter, push
<1> HIDE DEF x
<1>2. /\ p \in Seq(Item) /\ Len(p) = Len(st) + 1 /\ p # << >> /\ Len(st) \in Nat
      /\ \A i \in 1..Len(st) : p[i] = st[i]
  BY <1>1, AppendProperties
<1> HIDE DEF p
<1>3. /\ pop(p) \in Seq(Item) /\ Len(pop(p)) = Len(st)
      /\ \A i \in 1..Len(st) : pop(p)[i] = st[i]
  <2>1. /\ pop(p) \in Seq(Item) /\ Len(pop(p)) = Len(p) - 1
        /\ \A i \in 1..(Len(p) - 1) : pop(p)[i] = p[i]
    BY <1>2, PopItems
  <2>2. Len(p) - 1 = Len(st)
    BY <1>2
  <2>3. QED
    BY <1>2, <2>1, <2>2
<1>4. pop(p) = st
  BY <1>3, SeqEqual
<1>5. QED
  BY <1>4 DEF p

(* Such an edge does not leave the front, if no state is there twice.      *)
LEMMA AlongFacts ==
  ASSUME NEW st \in Seq(Item), Distinct(st), NEW e, Along(st, e)
  PROVE  e.src \in States(st) /\ e.src # Last(st).s
<1>1. PICK i \in 2..Len(st) : e.src = st[i - 1].s
  BY DEF Along
<1>2. Len(st) \in Nat /\ i - 1 \in 1..Len(st) /\ i - 1 # Len(st) /\ Len(st) \in 1..Len(st)
  BY <1>1
<1>3. QED
  BY <1>1, <1>2 DEF Distinct, States, Last

-----------------------------------------------------------------------------
(* Acceptance                                                              *)

(* In a strongly connected set of edges every state reaches the others.    *)
LEMMA ConnectedReach ==
  ASSUME NEW L \in SUBSET Edge, NEW E \in SUBSET L, StronglyConnected(E),
         NEW x \in Touched(E), NEW y \in Touched(E)
  PROVE  y \in Reach(L, x)
<1>1. x \in State
  BY DEF Touched, Edge
<1> DEFINE C == Reach(L, x) \cap Touched(E)
<1>2. x \in C
  BY <1>1, ReachFacts
<1>3. \A e \in E : e.dst \in Touched(E)
  BY DEF Touched
<1>4. Closed(E, C)
  BY <1>1, <1>3, ReachFacts DEF Closed
<1>5. C = Touched(E)
  BY <1>2, <1>4 DEF StronglyConnected
<1>6. QED
  BY <1>5

(* With one mark to be seen infinitely often, on a weak automaton, or      *)
(* without marks: a cycle is accepting iff one of its edges is.            *)
LEMMA OneAccepting ==
  ASSUME NEW A \in SUBSET Edge, is_weak(A) \/ Mark = {} \/ is_buchi, IsFiniteSet(Mark),
         NEW F \in SUBSET Live(A),
         \A e, f \in F : e.src \in Reach(Live(A), f.dst), F # {}
  PROVE  accepting(Marks(F)) <=> \E e \in F : accepting(e.acc)
<1>1. \A e \in F : e.acc \in SUBSET Mark /\ e \in Live(A)
  BY DEF Live, Edge
<1>2. CASE (\A e, f \in F : e.acc = f.acc)
  <2>1. \A e \in F : Marks(F) = e.acc
    BY <1>2 DEF Marks
  <2>2. QED
    BY <2>1
<1>3. CASE is_weak(A)
  <2>1. \A e, f \in F : e.acc = f.acc
    BY <1>1, <1>3 DEF is_weak
  <2>2. QED
    BY <1>2, <2>1
<1>4. CASE Mark = {}
  <2>1. \A e \in F : e.acc = {}
    BY <1>1, <1>4
  <2>2. QED
    BY <1>2, <2>1
<1>5. CASE is_buchi
  <2>1. PICK m : Mark = {m}
    <3>1. Cardinality(Mark) = 1 /\ Sat = {Mark}
      BY <1>5 DEF is_buchi
    <3>2. QED
      BY <3>1, FS_Singleton
  <2>2. \A X : accepting(X) <=> X = {m}
    BY <1>5, <2>1 DEF is_buchi, accepting
  <2>3. Marks(F) \subseteq {m}
    BY <1>1, <2>1 DEF Marks
  <2>4. Marks(F) = {m} <=> \E e \in F : e.acc = {m}
    BY <1>1, <2>1, <2>3 DEF Marks
  <2>5. QED
    BY <2>2, <2>4
<1>6. QED
  BY <1>3, <1>4, <1>5

(* Such an automaton accepts a run iff an accepting edge that can be       *)
(* reached is on a cycle.                                                  *)
LEMMA AcceptingEdge ==
  ASSUME NEW A \in SUBSET Edge, is_weak(A) \/ Mark = {} \/ is_buchi, IsFiniteSet(Mark), s0 \in State
  PROVE  NonEmpty(A) <=> \E e \in Live(A) : /\ accepting(e.acc)
                                            /\ e.src \in Reach(Live(A), s0)
                                            /\ e.src \in Reach(Live(A), e.dst)
<1> DEFINE L == Live(A)
<1>1. L \in SUBSET Edge /\ L = Live(A)
  BY DEF Live
<1> HIDE DEF L
<1>2. ASSUME NonEmpty(A)
      PROVE  \E e \in L : /\ accepting(e.acc) /\ e.src \in Reach(L, s0)
                          /\ e.src \in Reach(L, e.dst)
  <2>1. PICK F \in SUBSET {e \in L : e.src \in Reach(L, s0)} :
          StronglyConnected(F) /\ accepting(Marks(F))
    BY <1>1, <1>2 DEF NonEmpty
  <2>2. F \in SUBSET L /\ F # {} /\ \A e \in F : e.src \in Touched(F) /\ e.dst \in Touched(F)
    BY <2>1 DEF StronglyConnected, Touched
  <2>3. \A e, f \in F : e.src \in Reach(L, f.dst)
    BY <1>1, <2>1, <2>2, ConnectedReach
  <2>4. PICK e \in F : accepting(e.acc)
    BY <1>1, <2>1, <2>2, <2>3, OneAccepting
  <2>5. QED
    BY <2>1, <2>2, <2>3, <2>4
<1>3. ASSUME NEW e \in L, accepting(e.acc), e.src \in Reach(L, s0), e.src \in Reach(L, e.dst)
      PROVE  NonEmpty(A)
  <2> DEFINE F == {g \in L : g.src \in Reach(L, e.src) /\ e.src \in Reach(L, g.dst)}
  <2>1. e.src \in State /\ e.src \in Reach(L, e.src)
    BY <1>1, ReachEdge, ReachFacts
  <2>2. e \in F /\ F \in SUBSET L
    BY <1>3, <2>1
  <2>3. StronglyConnected(F)
    BY <1>1, <2>1, <2>2, CyclesAreStronglyConnected
  <2>4. \A g \in F : g.src \in Reach(L, s0)
    BY <1>1, <1>3, ReachTrans
  <2>5. \A g, f \in F : g.src \in Reach(L, f.dst)
    <3> SUFFICES ASSUME NEW g \in F, NEW f \in F PROVE g.src \in Reach(L, f.dst)
      OBVIOUS
    <3>1. f.dst \in State /\ e.src \in Reach(L, f.dst) /\ g.src \in Reach(L, e.src)
      BY <1>1, ReachEdge
    <3>2. QED
      BY <1>1, <3>1, ReachTrans
  <2> HIDE DEF F
  <2>6. accepting(Marks(F))
    BY <1>1, <1>3, <2>2, <2>5, OneAccepting
  <2>7. QED
    BY <1>1, <2>2, <2>3, <2>4, <2>6 DEF NonEmpty
<1>4. QED
  BY <1>1, <1>2, <1>3

(* A cycle through x, of which the stack st holds the steps, is accepting  *)
(* if its first edge is.                                                   *)
LEMMA CycleOnStack ==
  ASSUME NEW A \in SUBSET Edge, is_weak(A) \/ Mark = {} \/ is_buchi, IsFiniteSet(Mark),
         NEW st, IsStack(A, st), st # << >>, Linked(A, st), NEW x \in State, Last(st).s = x,
         Hop(x, st[1].acc, st[1].s) \in A, accepting(st[1].acc)
  PROVE  accepting(UNION {st[i].acc : i \in DOMAIN st})
<1> DEFINE L == Live(A)
           n == Len(st)
           From(i) == IF i = 1 THEN x ELSE st[i - 1].s
           Step(i) == Hop(From(i), st[i].acc, st[i].s)
           F == {Step(i) : i \in 1..n}
<1>1. /\ L \in SUBSET Edge /\ n \in Nat \ {0} /\ DOMAIN st = 1..n /\ st[n].s = x
      /\ \A i \in 1..n : st[i].s \in State
      /\ \A i, j \in 1..n : i <= j => st[j].s \in Reach(L, st[i].s)
  <2>1. /\ n \in Nat \ {0} /\ DOMAIN st = 1..n /\ Last(st) = st[n]
        /\ \A i \in 1..n : st[i] \in Item
    BY StackFacts DEF IsStack
  <2>2. \A i \in 1..n : st[i].s \in State
    BY <2>1 DEF Item
  <2>3. \A i, j \in 1..n : i <= j => st[j].s \in Reach(L, st[i].s)
    BY DEF IsStack, Path
  <2>4. L \in SUBSET Edge
    BY DEF Live
  <2>5. QED
    BY <2>1, <2>2, <2>3, <2>4
<1>2. \A i \in 1..n : Step(i) \in A
  <2>1. \A i \in 2..n : Hop(st[i - 1].s, st[i].acc, st[i].s) \in A
    BY DEF Linked, Hop
  <2>2. \A i \in 1..n : i = 1 \/ i \in 2..n
    BY <1>1
  <2> HIDE DEF n
  <2>3. QED
    BY <2>1, <2>2
<1>3. \A i \in 1..n : /\ Step(i).src = From(i) /\ Step(i).dst = st[i].s
                      /\ Step(i).acc = st[i].acc /\ Step(i).cond = TRUE
  BY DEF Hop
<1>4. \A i \in 1..n : Step(i) \in L
  BY <1>2, <1>3 DEF Live
<1>5. x \in Reach(L, x) /\ st[1].s \in Reach(L, x)
  <2>1. 1 \in 1..n
    BY <1>1
  <2>2. From(1) = x
    OBVIOUS
  <2> HIDE DEF L, n, Step, From
  <2>3. st[1].s \in Reach(L, x)
    BY <1>1, <1>3, <1>4, <2>1, <2>2, ReachEdge
  <2>4. QED
    BY <1>1, <2>3, ReachFacts
<1>6. \A i \in 1..n : From(i) \in Reach(L, x) /\ x \in Reach(L, st[i].s)
  <2> HIDE DEF L, n, Step
  <2>1. \A i \in 1..n : st[i].s \in Reach(L, st[1].s) /\ x \in Reach(L, st[i].s)
    BY <1>1
  <2>2. \A i \in 1..n : st[i].s \in Reach(L, x)
    BY <1>1, <1>5, <2>1, ReachTrans
  <2>3. QED
    BY <1>1, <1>5, <2>1, <2>2
<1> HIDE DEF L, n, Step, From
<1>7. \A e \in F : e.src \in Reach(L, x) /\ x \in Reach(L, e.dst) /\ e \in L
  BY <1>3, <1>4, <1>6
<1>8. Step(1) \in F /\ accepting(Step(1).acc)
  BY <1>1, <1>3
<1>9. Marks(F) = UNION {st[i].acc : i \in DOMAIN st}
  <2>1. {e.acc : e \in F} = {st[i].acc : i \in 1..n}
    BY <1>3
  <2>2. QED
    BY <1>1, <2>1 DEF Marks
<1> HIDE DEF F
<1>10. \A e, f \in F : e.src \in Reach(L, f.dst)
  <2>1. \A e \in L : e.src \in State /\ e.dst \in State
    BY <1>1, ReachEdge
  <2>2. QED
    BY <1>1, <1>7, <2>1, ReachTrans
<1>11. F \in SUBSET Live(A) /\ F # {} /\ \E e \in F : accepting(e.acc)
  BY <1>7, <1>8 DEF L
<1>12. accepting(Marks(F))
  BY <1>10, <1>11, OneAccepting DEF L
<1>13. QED
  BY <1>9, <1>12

(* A path that is entered from x starts in x.                              *)
LEMMA JoinLinked ==
  ASSUME NEW E, NEW st \in Seq(Item), st # << >>, Linked(E, st), NEW x \in Item,
         Hop(x.s, st[1].acc, st[1].s) \in E
  PROVE  Linked(E, <<x>> \o st)
<1> DEFINE c == <<x>> \o st
           m == Len(st)
<1>1. m \in Nat \ {0}
  BY StackFacts
<1>2. /\ Len(c) = m + 1 /\ c[1] = x /\ \A i \in 1..m : c[i + 1] = st[i]
  <2>1. <<x>> \in Seq(Item) /\ Len(<<x>>) = 1 /\ <<x>>[1] = x
    OBVIOUS
  <2>2. QED
    BY <1>1, <2>1, ConcatProperties
<1>3. \A i \in 2..m : Hop(st[i - 1].s, st[i].acc, st[i].s) \in E
  BY DEF Linked, Hop
<1> HIDE DEF c, m
<1>4. ASSUME NEW i \in 2..Len(c) PROVE Hop(c[i - 1].s, c[i].acc, c[i].s) \in E
  <2>1. CASE i = 2
    <3>1. c[i - 1] = x /\ c[i] = st[1]
      BY <1>1, <1>2, <2>1
    <3>2. QED
      BY <3>1
  <2>2. CASE i # 2
    <3>0. i \in 2..(m + 1)
      BY <1>2
    <3>1. i - 1 \in 2..m /\ i - 2 \in 1..m /\ i - 1 \in 1..m
      BY <1>1, <2>2, <3>0
    <3>2. c[i - 1] = st[(i - 1) - 1] /\ c[i] = st[i - 1]
      <4>1. (i - 2) + 1 = i - 1 /\ (i - 1) + 1 = i /\ (i - 1) - 1 = i - 2
        BY <3>1
      <4>2. QED
        BY <1>2, <3>1, <4>1
    <3>3. QED
      BY <1>3, <3>1, <3>2
  <2>3. QED
    BY <2>1, <2>2
<1>5. QED
  BY <1>4 DEF Linked, Hop, c

(* A set of numbers has a least element.                                   *)
LEMMA LeastNumber ==
  ASSUME NEW T \in SUBSET Nat, T # {}
  PROVE  \E x \in T : \A y \in T : x <= y
<1> DEFINE R == OpToRel(<, Nat)
<1>1. IsWellFoundedOn(R, Nat)
  BY NatLessThanWellFounded
<1>2. \A x, y \in Nat : <<y, x>> \in R <=> y < x
  BY DEF OpToRel
<1> HIDE DEF R
<1>3. PICK x \in T : \A y \in T : ~(<<y, x>> \in R)
  BY <1>1, WFMin
<1>4. \A y \in T : ~(y < x)
  BY <1>2, <1>3
<1>5. QED
  BY <1>3, <1>4

(* What each item of a stack hands on to the next one reaches the front.   *)
LEMMA ClimbStack ==
  ASSUME NEW st \in Seq(Item), NEW C, NEW k \in 1..Len(st), st[k].s \in C,
         \A i \in 2..Len(st) : st[i - 1].s \in C => st[i].s \in C
  PROVE  Last(st).s \in C
<1> DEFINE n == Len(st)
           T == {i \in k..n : st[i].s \notin C}
<1>1. n \in Nat /\ Last(st) = st[n]
  BY DEF Last
<1>2. SUFFICES ASSUME T # {} PROVE FALSE
  BY <1>1
<1>3. T \in SUBSET Nat
  BY <1>1
<1>4. PICK x \in T : \A y \in T : x <= y
  BY <1>2, <1>3, LeastNumber
<1>5. x # k /\ x \in 2..n /\ x - 1 \in k..n /\ x - 1 < x
  BY <1>1, <1>4
<1>6. x - 1 \notin T
  BY <1>4, <1>5
<1>7. QED
  BY <1>4, <1>5, <1>6
=============================================================================
