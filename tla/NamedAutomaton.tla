--------------------------- MODULE NamedAutomaton ---------------------------
(***************************************************************************)
(* What a twa_graph stands for, and what its methods promise: an automaton *)
(* of which the states are known by their names, whatever the numbers they *)
(* have and the vectors they are in.  The edges are a bag of               *)
(* [src, dsts, cond, acc], dsts being the set of (universal) destinations. *)
(***************************************************************************)
EXTENDS Integers, Bags, FiniteSetsExt

Edges(A) == BagToSet(A.edges)

(* The sub-bag of the edges of E.                                          *)
Only(B, E) == [e \in E |-> B[e]]

(* The states reached from S by the edges of E.                            *)
Reachable(S, E) ==
  LET Step(R) == R \cup UNION {e.dsts : e \in {x \in E : x.src \in R}}
      grow[k \in 0 .. Cardinality(E)] == IF k = 0 THEN S ELSE Step(grow[k - 1])
  IN grow[Cardinality(E)]

(* The automaton without other states than S.                              *)
RestrictTo(A, S) ==
  [A EXCEPT !.states = S,
            !.edges = Only(@, {e \in Edges(A) : e.src \in S /\ e.dsts \subseteq S})]

(* "A state is unreachable if it cannot be reached from the initial state" *)
WithoutUnreachable(A) == RestrictTo(A, Reachable(A.init, Edges(A)))

(* The largest set of states that each have an edge that stays in the set: *)
(* those that have an infinite run.                                        *)
Alive(A) ==
  LET Step(R) == {s \in R : \E e \in Edges(A) : e.src = s /\ e.dsts \subseteq R}
      shrink[k \in 0 .. Cardinality(A.states)] == IF k = 0 THEN A.states ELSE Step(shrink[k - 1])
  IN shrink[Cardinality(A.states)]

(* "Dead states are all the states that cannot be part of an infinite run  *)
(* of the automaton"; an automaton of which the initial state is dead has  *)
(* none left, but for a new one without edges.                             *)
IsEmpty(A) == ~(A.init \subseteq Alive(A))
WithoutDead(A) == WithoutUnreachable(RestrictTo(A, Alive(A)))

(* The triples (letter, destinations, marks) that leave s; those with less *)
(* marks are of no use when marks are only there to be seen.               *)
Moves(A, s, fin) ==
  LET M == UNION {{<<l, e.dsts, e.acc>> : l \in e.cond} : e \in {x \in Edges(A) : x.src = s}}
  IN {m \in M : fin \/ ~\E n \in M : n[1] = m[1] /\ n[2] = m[2] /\ m[3] # n[3] /\ m[3] \subseteq n[3]}

(* Both have the same states, and these the same moves.                    *)
SameMoves(A, B, fin) ==
  /\ A.states = B.states /\ A.init = B.init
  /\ \A s \in A.states : Moves(A, s, fin) = Moves(B, s, fin)

(* r takes the states of A to states of B that have exactly their edges.   *)
IsQuotient(A, B, r) ==
  /\ B.init = {r[s] : s \in A.init}
  /\ \A s \in A.states :
       {<<{r[d] : d \in e.dsts}, e.cond, e.acc>> : e \in {x \in Edges(A) : x.src = s}}
         = {<<e.dsts, e.cond, e.acc>> : e \in {x \in Edges(B) : x.src = r[s]}}

Merges(A, B) ==
  /\ B.states \subseteq A.states
  /\ \E r \in [A.states -> B.states] : IsQuotient(A, B, r)
=============================================================================
