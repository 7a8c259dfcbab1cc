----------------------------- MODULE Couvreur99 -----------------------------
(***************************************************************************)
(* The emptiness check couvreur99_check of spot/twaalgos/gtec/gtec.cc: a   *)
(* depth-first search that keeps, on the stack root, the strongly          *)
(* connected components of the part of the automaton it has explored, each *)
(* with the marks seen inside it.  One action per path through the body of *)
(* the loop of check().                                                    *)
(*                                                                         *)
(* The order in which an iterator delivers its edges is chosen when it is  *)
(* created.                                                                *)
(***************************************************************************)
EXTENDS Twa, Integers, SequencesExt

CONSTANTS
  Automata,   \* the automata the check may be built for
  Options     \* the option_map it may be built with

ASSUME CouvreurAssumption ==
  /\ IsFiniteSet(State)
  /\ \A A \in Automata : A \subseteq Edge /\ IsFiniteSet(A)
  /\ Options \subseteq [shy : BOOLEAN, poprem : BOOLEAN,
                        group : BOOLEAN, group2 : BOOLEAN]

VARIABLES
  edges,       \* the automaton ecs_->aut
  o,           \* the options
  h,           \* ecs_->h: the order of a state, -1 when dead, 0 when not in h
  root,        \* ecs_->root, its top at the end
  arc,         \* the marks of the edges between the components of root
  num,         \* the number of visited states
  todo,        \* the depth-first search stack
  depth,       \* ec_statistics::depth_
  cycle_seed,  \* ecs_->cycle_seed
  pc,          \* "call" before check(), "loop" in its loop, "idle" after it
  result       \* what check() returned

base == <<edges, o, h, root, arc, num, todo, depth, cycle_seed, pc, result>>

(* couvreur99_check_shy::todo_item; without shy, q is what the iterator    *)
(* has not delivered yet.                                                  *)
Todo == [s : State, n : Nat, q : Seq(Edge)]

(* scc_stack::connected_component                                          *)
Component == [index : Int, condition : SUBSET Mark, rem : Seq(State)]

connected_component(i) == [index |-> i, condition |-> {}, rem |-> << >>]

top == Last(root)

(* acc_cond::uses_fin_acceptance(), of the meaning of the condition: with  *)
(* Inf alone more marks never hurt.                                        *)
uses_fin_acceptance ==
  \E m \in Sat, n \in SUBSET Mark : m \subseteq n /\ n \notin Sat

(* get_acceptance().is_f(): without Fin, only "f" accepts nothing.         *)
is_f == Sat = {}

-----------------------------------------------------------------------------
(* couvreur99_check::couvreur99_check()                                    *)
couvreur99_check ==
  /\ edges \in Automata
  /\ o \in Options /\ ~o.shy
  /\ h = [s \in State |-> 0]
  /\ root = << >> /\ arc = << >> /\ todo = << >>
  /\ num = 0 /\ depth = 0
  /\ cycle_seed = s0     \* unset in the code, read only after a result
  /\ pc = "call" /\ result = "none"

Return(r) == pc' = "idle" /\ result' = r

(* The head of check(), on which nothing was pushed yet.                   *)
Check ==
  /\ pc = "call" /\ ~o.shy /\ ~uses_fin_acceptance
  /\ IF is_f
     THEN Return("null") /\ UNCHANGED <<h, root, arc, num, todo, depth>>
     ELSE /\ h' = [h EXCEPT ![s0] = 1]
          /\ root' = Append(root, connected_component(1))
          /\ arc' = Append(arc, {})
          /\ num' = 1
          /\ \E q \in SetToSeqs(succ_iter(edges, s0)) :
               todo' = << [s |-> s0, n |-> 1, q |-> q] >>
          /\ depth' = depth + 1
          /\ pc' = "loop" /\ UNCHANGED result
  /\ UNCHANGED <<edges, o, cycle_seed>>

-----------------------------------------------------------------------------
(* Mutant: the second search does not go beyond the successors of from.    *)
Removed_OneLevel(from, rem) ==
  IF o.poprem THEN ToSet(rem)
  ELSE {from} \cup {e.dst : e \in succ_iter(Live(edges), from)}

(* The states remove_component(from) declares dead: the ones remembered in *)
(* rem, or the ones a second search from the root still finds alive.       *)
Removed(from, rem) ==
  IF o.poprem THEN ToSet(rem)
  ELSE Reach({e \in Live(edges) : h[e.dst] # -1}, from)

(* d is the depth when it is called.                                       *)
remove_component(from, rem, d) ==
  /\ h' = [s \in State |-> IF s \in Removed(from, rem) THEN -1 ELSE h[s]]
  /\ depth' = IF o.poprem THEN d - Len(rem) ELSE d

(* root once curr was popped from todo: with poprem, its component         *)
(* remembers it.                                                           *)
Remembering(curr) ==
  IF o.poprem THEN [root EXCEPT ![Len(root)].rem = <<curr>> \o @] ELSE root

(* curr, whose order is index, has just been popped from todo; when it is  *)
(* the root of a component, the component is removed.                      *)
Leave(curr, index) ==
  LET r == Remembering(curr)
      d == IF o.poprem THEN depth ELSE depth - 1   \* dec_depth(), inc_depth()
  IN IF top.index = index
     THEN /\ arc' = Front(arc)
          /\ remove_component(curr, Last(r).rem, d)
          /\ root' = Front(r)
     ELSE root' = r /\ depth' = d /\ UNCHANGED <<h, arc>>

(* The component in which the loop "threshold < root.top().index" stops.   *)
Stop(threshold) == SelectLastInSeq(root, LAMBDA c : c.index <= threshold)

(* Mutants: the marks of the edges between the components, or those of the *)
(* components, are lost.                                                   *)
Gathered_NoArc(k) == UNION {root[i].condition : i \in k + 1 .. Len(root)}

Gathered_OnlyArcs(k) == UNION {arc[Len(arc) - i] : i \in 0 .. Len(root) - k - 1}

(* The marks of the components above k and of the edges into them.         *)
Gathered(k) ==
  (UNION {root[i].condition : i \in k + 1 .. Len(root)})
    \cup (UNION {arc[Len(arc) - i] : i \in 0 .. Len(root) - k - 1})

(* Mutant: what these components remember is lost.                         *)
Spliced_Lost(k) == << >>

(* What these components remember, the last component first.               *)
Spliced(k) == FlattenSeq([i \in 1 .. Len(root) - k |-> root[Len(root) + 1 - i].rem])

(* root after an edge with marks acc reached a live state of this order.   *)
Merged(threshold, acc) ==
  LET k == Stop(threshold)
  IN [SubSeq(root, 1, k) EXCEPT ![k].condition = @ \cup acc \cup Gathered(k),
                                ![k].rem = @ \o Spliced(k)]

(* arc, from which as many entries were popped.                            *)
MergedArc(threshold) == SubSeq(arc, 1, Len(arc) - (Len(root) - Stop(threshold)))

-----------------------------------------------------------------------------
(* The loop of couvreur99_check::check()                                   *)

Loop == pc = "loop" /\ ~o.shy

(* No more successor: backtrack.                                           *)
Backtrack ==
  /\ Loop /\ todo # << >> /\ Last(todo).q = << >>
  /\ todo' = Front(todo)
  /\ Leave(Last(todo).s, h[Last(todo).s])
  /\ UNCHANGED <<edges, o, num, cycle_seed, pc, result>>

(* The iterator of the last state is on e.                                 *)
On(e) == Loop /\ todo # << >> /\ Last(todo).q # << >> /\ e = Head(Last(todo).q)

(* todo once that iterator was moved.                                      *)
Moved == [todo EXCEPT ![Len(todo)].q = Tail(@)]

Skip(e) ==
  /\ On(e) /\ ~e.cond
  /\ todo' = Moved
  /\ UNCHANGED <<edges, o, h, root, arc, num, depth, cycle_seed, pc, result>>

NewState(e) ==
  /\ On(e) /\ e.cond /\ h[e.dst] = 0
  /\ num' = num + 1
  /\ h' = [h EXCEPT ![e.dst] = num']
  /\ root' = Append(root, connected_component(num'))
  /\ arc' = Append(arc, e.acc)
  /\ \E q \in SetToSeqs(succ_iter(edges, e.dst)) :
       todo' = Append(Moved, [s |-> e.dst, n |-> num', q |-> q])
  /\ depth' = depth + 1
  /\ UNCHANGED <<edges, o, cycle_seed, pc, result>>

Dead(e) ==
  /\ On(e) /\ e.cond /\ h[e.dst] = -1
  /\ todo' = Moved
  /\ UNCHANGED <<edges, o, h, root, arc, num, depth, cycle_seed, pc, result>>

Merge(e) ==
  /\ On(e) /\ e.cond /\ h[e.dst] > 0
  /\ root' = Merged(h[e.dst], e.acc)
  /\ arc' = MergedArc(h[e.dst])
  /\ IF accepting(Last(root').condition)
     THEN /\ cycle_seed' = e.dst
          /\ todo' = << >> /\ depth' = depth - Len(todo)
          /\ Return("run")
     ELSE todo' = Moved /\ UNCHANGED <<depth, cycle_seed, pc, result>>
  /\ UNCHANGED <<edges, o, h, num>>

(* This automaton recognizes no word.                                      *)
ReturnNull ==
  /\ Loop /\ todo = << >>
  /\ Return("null")
  /\ UNCHANGED <<edges, o, h, root, arc, num, todo, depth, cycle_seed>>

check ==
  \/ Check
  \/ Backtrack
  \/ \E e \in edges : Skip(e) \/ NewState(e) \/ Dead(e) \/ Merge(e)
  \/ ReturnNull
=============================================================================
