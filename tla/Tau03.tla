------------------------------- MODULE Tau03 -------------------------------
(***************************************************************************)
(* The nested depth-first search of spot/twaalgos/tau03.cc for generalized *)
(* Buchi acceptance.  Each visited state has a set of marks.  When a state *)
(* is about to leave the blue stack, a red search propagates its marks and *)
(* those of each of its edges to what that edge leads to; if the state     *)
(* comes out with all the marks, it lies on an accepting cycle.            *)
(***************************************************************************)
EXTENDS NdfsStack

CONSTANT Automata   \* the automata the check may be built for

VARIABLES
  edges,      \* the automaton a_
  color, marks,    \* the heap h: colour and acc of each state
  st_blue,    \* stack of the blue dfs
  st_red,     \* stack of the red dfs
  succ,       \* the edges a_->succ(f.s) has still to deliver to the rescan
  acu,        \* the argument of dfs_red()
  pc,         \* "blue", "rescan" or "red" in check(), "idle" outside
  result      \* what check() last returned

vars == <<edges, color, marks, st_blue, st_red, succ, acu, pc, result>>

(* acc_cond::is_generalized_buchi(): all marks, infinitely often.          *)
is_generalized_buchi == Sat = {Mark}

(* The constructor throws otherwise.                                       *)
tau03_search ==
  /\ edges \in Automata
  /\ Mark # {} /\ is_generalized_buchi

Init ==
  /\ tau03_search
  /\ color = [s \in State |-> "WHITE"] /\ marks = [s \in State |-> {}]
  /\ st_blue = << >> /\ st_red = << >>
  /\ succ = {} /\ acu = {}
  /\ pc = "idle" /\ result = "none"

Check ==
  /\ pc = "idle" /\ result = "none"
  /\ color' = [color EXCEPT ![s0] = "BLUE"]
  /\ st_blue' = push(st_blue, edges, s0, FALSE, {})
  /\ pc' = "blue"
  /\ UNCHANGED <<edges, marks, st_red, succ, acu, result>>

(* A call after a result finds the blue stack as it was left.              *)
CheckAgain ==
  /\ pc = "idle" /\ result = "run" /\ st_blue # << >>
  /\ result' = "null"
  /\ UNCHANGED <<edges, color, marks, st_blue, st_red, succ, acu, pc>>

-----------------------------------------------------------------------------
(* dfs_blue()                                                              *)

BlueEdge(e) == pc = "blue" /\ IsOn(st_blue, e)

BlueDown(e) ==
  /\ BlueEdge(e) /\ e.cond /\ color[e.dst] = "WHITE"
  /\ color' = [color EXCEPT ![e.dst] = "BLUE"]
  /\ st_blue' = push(next(st_blue, e), edges, e.dst, e.cond, e.acc)
  /\ UNCHANGED <<edges, marks, st_red, succ, acu, pc, result>>

(* Labelled by false, or blue.                                             *)
BlueIgnore(e) ==
  /\ BlueEdge(e) /\ (~e.cond \/ color[e.dst] # "WHITE")
  /\ st_blue' = next(st_blue, e)
  /\ UNCHANGED <<edges, color, marks, st_red, succ, acu, pc, result>>

(* All the successors have been visited: rescan them.                      *)
Rescan ==
  /\ pc = "blue" /\ Done(st_blue)
  /\ succ' = succ_iter(edges, Last(st_blue).s)
  /\ pc' = "rescan"
  /\ UNCHANGED <<edges, color, marks, st_blue, st_red, acu, result>>

(* Mutant: the marks of the state are not propagated.                      *)
Acu_OnlyEdge(e) == e.acc

(* What a rescan of e propagates.                                          *)
Acu(e) == e.acc \cup marks[e.src]

RescanDown(e) ==
  /\ pc = "rescan" /\ e \in succ /\ e.cond /\ ~(Acu(e) \subseteq marks[e.dst])
  /\ succ' = succ \ {e}
  /\ marks' = [marks EXCEPT ![e.dst] = @ \cup Acu(e)]
  /\ st_red' = push(st_red, edges, e.dst, e.cond, e.acc)
  /\ acu' = Acu(e)
  /\ pc' = "red"
  /\ UNCHANGED <<edges, color, st_blue, result>>

RescanIgnore(e) ==
  /\ pc = "rescan" /\ e \in succ /\ (~e.cond \/ Acu(e) \subseteq marks[e.dst])
  /\ succ' = succ \ {e}
  /\ UNCHANGED <<edges, color, marks, st_blue, st_red, acu, pc, result>>

RescanReport ==
  /\ pc = "rescan" /\ succ = {} /\ accepting(marks[Last(st_blue).s])
  /\ pc' = "idle" /\ result' = "run"
  /\ UNCHANGED <<edges, color, marks, st_blue, st_red, succ, acu>>

RescanPop ==
  /\ pc = "rescan" /\ succ = {} /\ ~accepting(marks[Last(st_blue).s])
  /\ st_blue' = pop(st_blue)
  /\ pc' = "blue"
  /\ UNCHANGED <<edges, color, marks, st_red, succ, acu, result>>

BlueReturn ==
  /\ pc = "blue" /\ st_blue = << >>
  /\ pc' = "idle" /\ result' = "null"
  /\ UNCHANGED <<edges, color, marks, st_blue, st_red, succ, acu>>

-----------------------------------------------------------------------------
(* dfs_red()                                                               *)

RedEdge(e) == pc = "red" /\ IsOn(st_red, e)

RedDown(e) ==
  /\ RedEdge(e) /\ e.cond /\ color[e.dst] # "WHITE" /\ ~(acu \subseteq marks[e.dst])
  /\ marks' = [marks EXCEPT ![e.dst] = @ \cup acu]
  /\ st_red' = push(next(st_red, e), edges, e.dst, e.cond, e.acc)
  /\ UNCHANGED <<edges, color, st_blue, succ, acu, pc, result>>

(* Labelled by false, white, or blue without need of propagation.          *)
RedIgnore(e) ==
  /\ RedEdge(e) /\ (~e.cond \/ color[e.dst] = "WHITE" \/ acu \subseteq marks[e.dst])
  /\ st_red' = next(st_red, e)
  /\ UNCHANGED <<edges, color, marks, st_blue, succ, acu, pc, result>>

RedPop ==
  /\ pc = "red" /\ Done(st_red)
  /\ st_red' = pop(st_red)
  /\ UNCHANGED <<edges, color, marks, st_blue, succ, acu, pc, result>>

RedReturn ==
  /\ pc = "red" /\ st_red = << >>
  /\ pc' = "rescan"
  /\ UNCHANGED <<edges, color, marks, st_blue, st_red, succ, acu, result>>

-----------------------------------------------------------------------------
dfs_blue ==
  \/ \E e \in edges : BlueDown(e) \/ BlueIgnore(e) \/ RescanDown(e) \/ RescanIgnore(e)
  \/ Rescan
  \/ RescanReport
  \/ RescanPop
  \/ BlueReturn

dfs_red ==
  \/ \E e \in edges : RedDown(e) \/ RedIgnore(e)
  \/ RedPop
  \/ RedReturn

Finished == pc = "idle" /\ result = "null" /\ UNCHANGED vars

Next == Check \/ CheckAgain \/ dfs_blue \/ dfs_red \/ Finished

-----------------------------------------------------------------------------
(* "assert(!c_prime.is_white())": when the successors of a state are       *)
(* rescanned, they all have been visited.  And between two propagations    *)
(* the marks are closed: what left the blue stack has handed its marks,    *)
(* and those of its edges, to all its successors.                          *)
PropagationIsComplete ==
  /\ pc = "rescan" => \A e \in succ : e.cond => color[e.dst] # "WHITE"
  /\ pc = "blue" =>
       \A e \in Live(edges) :
         color[e.src] # "WHITE" /\ (\A i \in DOMAIN st_blue : st_blue[i].s # e.src)
           => e.acc \cup marks[e.src] \subseteq marks[e.dst]

(* A state e.src has its marks from edges on paths to it, so that marks    *)
(* that are all there once its successors were rescanned lie on a cycle.   *)
OnAcceptingCycle(s) ==
  \E E \in SUBSET Live(edges) :
    StronglyConnected(E) /\ s \in Touched(E) /\ accepting(Marks(E))

(* The state from which ndfs_result starts to build its accepting run, the *)
(* front of the blue stack, lies on an accepting cycle.                    *)
FrontIsOnCycle == pc = "idle" /\ result = "run" => OnAcceptingCycle(Last(st_blue).s)
=============================================================================
