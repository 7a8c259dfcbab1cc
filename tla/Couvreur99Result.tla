-------------------------- MODULE Couvreur99Result --------------------------
(***************************************************************************)
(* The whole life of an emptiness check made by couvreur99(a, o): check()  *)
(* of couvreur99_check or, with the option "shy", couvreur99_check_shy,    *)
(* and then couvreur99_check_result::accepting_run() of                    *)
(* spot/twaalgos/gtec/ce.cc, which computes an accepting run from what     *)
(* check() has left in ecs_: the orders h, the components on root and      *)
(* cycle_seed.                                                             *)
(***************************************************************************)
EXTENDS Couvreur99Shy, BfsSteps

VARIABLES
  prefix, cycle,     \* run_, the edges of its steps
  acc_to_traverse,   \* the marks the cycle still has to go through
  substart           \* where the next search starts

run == <<prefix, cycle, acc_to_traverse, substart>>

vars == <<base, pos, run>>

(* couvreur99(a, o)                                                        *)
Init ==
  /\ \/ couvreur99_check /\ pos = 1
     \/ couvreur99_check_shy
  /\ prefix = << >> /\ cycle = << >>
  /\ acc_to_traverse = {} /\ substart = s0

-----------------------------------------------------------------------------
(* accepting_run()                                                         *)

(* acc_cond::accepting_sets(inf): which marks of inf satisfy the condition *)
(* depends on how it is written.                                           *)
accepting_sets(inf) == {m \in Sat : m \subseteq inf}

accepting_run ==
  /\ pc = "idle" /\ result = "run"
  /\ acc_to_traverse' \in accepting_sets(top.condition)
  /\ substart' = cycle_seed
  /\ pc' = "cycle"
  /\ UNCHANGED <<edges, o, h, root, arc, num, todo, depth, cycle_seed, result, pos,
                 prefix, cycle>>

(* scc_bfs::filter(): stay in the final component.                         *)
InLast == {e \in Live(edges) : h[e.dst] >= top.index}

(* scc_bfs::match()                                                        *)
SccMatches ==
  {e \in InLast : \/ acc_to_traverse \ e.acc # acc_to_traverse
                  \/ acc_to_traverse = {} /\ e.dst = cycle_seed}

(* One round of the loop of accepting_cycle().                             *)
accepting_cycle ==
  /\ pc = "cycle"
  /\ \E p \in search(InLast, substart, SccMatches) :
       /\ cycle' = cycle \o p
       /\ acc_to_traverse' = acc_to_traverse \ Last(p).acc
       /\ substart' = Last(p).dst
  /\ pc' = IF acc_to_traverse' = {} /\ substart' = cycle_seed THEN "prefix" ELSE "cycle"
  /\ UNCHANGED <<edges, o, h, root, arc, num, todo, depth, cycle_seed, result, pos, prefix>>

(* shortest_path::filter(): ignore unknown and dead states.                *)
Known == {e \in Live(edges) : h[e.dst] > 0}

(* Mutant: the cycle is left as it was found.                              *)
Shifted_Not(s) == cycle

(* The cycle, shifted so that it starts in s.                              *)
Shifted(s) ==
  LET i == SelectInSeq(cycle, LAMBDA e : e.src = s)
  IN SubSeq(cycle, i, Len(cycle)) \o SubSeq(cycle, 1, i - 1)

OnCycle == {e.src : e \in ToSet(cycle)}

(* The prefix, and the cycle shifted to its end.                           *)
ComputePrefix ==
  /\ pc = "prefix"
  /\ \/ s0 \in OnCycle /\ prefix' = << >> /\ cycle' = Shifted(s0)
     \/ /\ s0 \notin OnCycle
        /\ \E p \in search(Known, s0, {e \in Known : e.dst \in OnCycle}) :
             prefix' = p /\ cycle' = Shifted(Last(p).dst)
  /\ pc' = "done"
  /\ UNCHANGED <<edges, o, h, root, arc, num, todo, depth, cycle_seed, result, pos,
                 acc_to_traverse, substart>>

Finished == (pc = "done" \/ result = "null") /\ UNCHANGED vars

Next ==
  \/ check /\ UNCHANGED <<pos, run>>
  \/ shy_check /\ UNCHANGED run
  \/ accepting_run
  \/ accepting_cycle
  \/ ComputePrefix
  \/ Finished

Spec == Init /\ [][Next]_vars

-----------------------------------------------------------------------------
(* The states of the i-th component of root.                               *)
Members(i) ==
  {s \in State : /\ h[s] >= root[i].index
                 /\ i < Len(root) => h[s] < root[i + 1].index}

Pending == UNION {ToSet(todo[i].q) : i \in DOMAIN todo}

(* The edges check() has taken.                                            *)
Explored == {e \in Live(edges) : h[e.src] # 0} \ Pending

Within(E, C) == {e \in E : e.src \in C /\ e.dst \in C}

(* While check() runs, the components on root are the strongly connected   *)
(* components of what it has explored and not declared dead, each with     *)
(* exactly the marks of the explored edges inside it, and in the order in  *)
(* which the search path crosses them: "Any such non-dead SCC has          *)
(* necessarily been crossed by our path to this state".                    *)
RootsAreComponents ==
  pc = "loop" =>
    /\ \A i \in DOMAIN root :
         LET E == Within(Explored, Members(i))
         IN /\ \A C \in SUBSET Members(i) : C # {} /\ Closed(E, C) => C = Members(i)
            /\ root[i].condition = Marks(E)
            /\ i > 1 => \E e \in Explored :
                          /\ e.src \in Members(i - 1) /\ e.dst \in Members(i)
                          /\ e.acc = arc[Len(arc) - (Len(root) - i)]
    /\ \A i, j \in DOMAIN root : \A e \in Explored :
         e.src \in Members(j) /\ e.dst \in Members(i) => j <= i

(* A dead state stays out of every cycle still to be found: whichever way  *)
(* remove_component() found the states of a component, it left none of     *)
(* them, nor of their successors, alive.                                   *)
DeadIsClosed == \A e \in Live(edges) : h[e.src] = -1 => h[e.dst] = -1

(* With poprem each component remembers, once each, exactly its states     *)
(* that have left todo, so that remove_component() can do without a second *)
(* search; and the depth of ec_statistics counts what todo and rem hold:   *)
(* no dec_depth(n) ever finds less than n, and clear_todo() leaves nothing *)
(* ("assert(depth() == 0)").                                               *)
RemIsComplete ==
  /\ pc = "loop" =>
       /\ o.poprem => \A i \in DOMAIN root :
            /\ IsInjective(root[i].rem)
            /\ ToSet(root[i].rem) = Members(i) \ {todo[k].s : k \in DOMAIN todo}
       /\ depth = Len(todo) + Len(FlattenSeq([i \in DOMAIN root |-> root[i].rem]))
                    + IF o.shy THEN Len(FlattenSeq([i \in DOMAIN todo |-> todo[i].q])) ELSE 0
  /\ o.shy /\ (result = "run" \/ (result = "null" /\ ~o.poprem /\ ~is_f)) => depth = 0

(* accepting_run() returns an accepting run of the automaton: the prefix   *)
(* leads from the initial state to a cycle of edges a run can take, whose  *)
(* marks satisfy the acceptance condition.                                 *)
RunIsAccepting ==
  pc = "done" =>
    /\ cycle # << >> /\ accepting(Marks(ToSet(cycle)))
    /\ LET p == prefix \o cycle
       IN /\ p[1].src = s0 /\ ToSet(p) \subseteq Live(edges)
          /\ \A i \in 1 .. Len(p) - 1 : p[i].dst = p[i + 1].src
          /\ Last(p).dst = cycle[1].src

(* The answer of check() is the one emptiness_check promises, whatever the *)
(* options and the order of the edges.                                     *)
EC == INSTANCE EmptinessCheck WITH answer <- result

ImplementsEmptinessCheck == EC!Spec

(* The edges check() has still to look at, each as often as a queue holds  *)
(* it, and the states it has still to leave.                               *)
Left ==
  LET queued == Len(FlattenSeq([i \in DOMAIN todo |-> todo[i].q]))
      unseen == Cardinality({e \in edges : h[e.src] = 0})
  IN 2 * (queued + unseen) + Len(todo)

(* check() returns: each step of its loop leaves less to do, be it one     *)
(* that merges queues or goes back to the start of one, or brings the pass *)
(* over the known successors closer to its end.                            *)
EveryStepCounts ==
  [][pc = "loop" /\ pc' = "loop" =>
       Left' < Left \/ (Left' = Left /\ todo' = todo /\ pos' > pos)]_vars
=============================================================================
