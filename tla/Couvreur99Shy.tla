--------------------------- MODULE Couvreur99Shy ---------------------------
(***************************************************************************)
(* couvreur99_check_shy of spot/twaalgos/gtec/gtec.cc, the variant of      *)
(* couvreur99_check chosen by the option "shy": the edges out of a state   *)
(* are all queued when it is stacked, and known destinations are looked    *)
(* for before a new one is visited.  With "group" the queues of merged     *)
(* states are merged too; with "group2" they go to the front.              *)
(***************************************************************************)
EXTENDS Couvreur99

VARIABLE pos   \* position of the pass over known successors in the last queue

(* todo_item::todo_item(): edges labelled by false are left out.           *)
todo_items(s, n) ==
  {[s |-> s, n |-> n, q |-> q] : q \in SetToSeqs(succ_iter(Live(edges), s))}

(* The constructor stacks the initial state.                               *)
couvreur99_check_shy ==
  /\ edges \in Automata
  /\ o \in Options /\ o.shy /\ (o.group2 => o.group)   \* group_ |= group2_
  /\ num = 2
  /\ h = [s \in State |-> IF s = s0 THEN 2 ELSE 0]
  /\ root = <<connected_component(2)>> /\ arc = << >>
  /\ \E t \in todo_items(s0, 2) : todo = <<t>> /\ depth = Len(t.q) + 1
  /\ pos = 1
  /\ cycle_seed = s0
  /\ pc = "call" /\ result = "none"

ShyCheck ==
  /\ pc = "call" /\ o.shy /\ ~uses_fin_acceptance
  /\ IF is_f THEN Return("null") ELSE pc' = "loop" /\ UNCHANGED result
  /\ pos' = 1
  /\ UNCHANGED <<edges, o, h, root, arc, num, todo, depth, cycle_seed>>

-----------------------------------------------------------------------------
(* The loop of couvreur99_check_shy::check()                               *)

ShyLoop == pc = "loop" /\ o.shy

queue == Last(todo).q

ShyReturnNull ==
  /\ ShyLoop /\ queue = << >> /\ Len(todo) = 1
  /\ todo' = << >> /\ depth' = depth - 1
  /\ Return("null")
  /\ UNCHANGED <<edges, o, h, root, arc, num, pos, cycle_seed>>

ShyBacktrack ==
  /\ ShyLoop /\ queue = << >> /\ Len(todo) > 1
  /\ todo' = Front(todo) /\ pos' = 1
  /\ Leave(Last(todo).s, Last(todo).n)
  /\ UNCHANGED <<edges, o, num, cycle_seed, pc, result>>

(* The position of the successor to look at: pos, or the first one when    *)
(* the pass is over.                                                       *)
old == IF pos > Len(queue) THEN 1 ELSE pos

(* That pass ends with the successor under consideration.                  *)
PassEnds == pos >= Len(queue)

Considered(e) == ShyLoop /\ queue # << >> /\ e = queue[old]

(* A new state, while known states are sought.                             *)
ShySkip(e) ==
  /\ Considered(e) /\ h[e.dst] = 0 /\ ~PassEnds
  /\ pos' = pos + 1
  /\ UNCHANGED base

(* Mutant: the successor stays in the queue.                               *)
Erased_Not == todo

(* queue.erase(old); pos, which is already beyond old, stays valid.        *)
Erased == [todo EXCEPT ![Len(todo)].q = RemoveAt(@, old)]

ErasedPos == IF pos > Len(queue) THEN Len(queue) ELSE pos

ShyNew(e) ==
  /\ Considered(e) /\ h[e.dst] = 0 /\ PassEnds
  /\ num' = num + 1
  /\ h' = [h EXCEPT ![e.dst] = num']
  /\ root' = Append(root, connected_component(num'))
  /\ arc' = Append(arc, e.acc)
  /\ \E t \in todo_items(e.dst, num') :
       /\ todo' = Append(Erased, t)
       /\ depth' = depth - 1 + Len(t.q) + 1
  /\ pos' = 1
  /\ UNCHANGED <<edges, o, cycle_seed, pc, result>>

ShyDead(e) ==
  /\ Considered(e) /\ h[e.dst] = -1
  /\ todo' = Erased /\ pos' = ErasedPos
  /\ depth' = depth - 1
  /\ UNCHANGED <<edges, o, h, root, arc, num, cycle_seed, pc, result>>

(* clear_todo(), t being the stack and r the components at that time, and  *)
(* d the depth.                                                            *)
clear_todo(t, r, d) ==
  /\ todo' = << >>
  /\ root' = [i \in DOMAIN r |-> [r[i] EXCEPT !.rem = << >>]]
  /\ depth' = d - Len(t) - Len(FlattenSeq([i \in DOMAIN t |-> t[i].q]))
                - Len(FlattenSeq([i \in DOMAIN r |-> r[i].rem]))

(* The last state of the stack t that is not above the component r.        *)
Kept(t, r) == SelectLastInSeq(t, LAMBDA i : i.n <= r.index)

(* The pending successors of the states above k, moved to the queue of k.  *)
Grouped(t, k) ==
  LET up == FlattenSeq([i \in 1 .. Len(t) - k |-> t[k + i].q])
      down == FlattenSeq([i \in 1 .. Len(t) - k |-> t[Len(t) + 1 - i].q])
  IN [SubSeq(t, 1, k) EXCEPT ![k].q = IF o.group2 THEN down \o @ ELSE @ \o up]

(* Group the pending successors of the formed component.  A grouped state  *)
(* leaves todo for rem, where it counts as much for the depth.             *)
Group(t, r) ==
  LET k == Kept(t, Last(r))
      states == [i \in 1 .. Len(t) - k |-> t[k + i].s]
  IN /\ todo' = Grouped(t, k)
     /\ IF o.poprem
        THEN /\ root' = [r EXCEPT ![Len(r)].rem = states \o @]
             /\ depth' = depth - 1
        ELSE root' = r /\ depth' = depth - 1 - Len(states)
     /\ pos' = 1

ShyMerge(e) ==
  /\ Considered(e) /\ h[e.dst] > 0
  /\ LET r == Merged(h[e.dst], e.acc)
     IN IF accepting(Last(r).condition)
        THEN /\ clear_todo(Erased, r, depth - 1)
             /\ cycle_seed' = e.dst
             /\ Return("run") /\ UNCHANGED pos
        ELSE /\ IF o.group THEN Group(Erased, r)
                ELSE /\ todo' = Erased /\ pos' = ErasedPos
                     /\ root' = r /\ depth' = depth - 1
             /\ UNCHANGED <<cycle_seed, pc, result>>
  /\ arc' = MergedArc(h[e.dst])
  /\ UNCHANGED <<edges, o, h, num>>

shy_check ==
  \/ ShyCheck
  \/ ShyReturnNull
  \/ ShyBacktrack
  \/ \E e \in edges : ShySkip(e) \/ ShyNew(e) \/ ShyDead(e) \/ ShyMerge(e)
=============================================================================
