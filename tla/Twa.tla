-------------------------------- MODULE Twa --------------------------------
(***************************************************************************)
(* An omega-automaton as the emptiness checks of spot/twaalgos see it      *)
(* through the interface of spot/twa/twa.hh: an initial state, and for     *)
(* each state an iterator over edges carrying a label, a set of acceptance *)
(* marks and a destination.                                                *)
(*                                                                         *)
(* A label is abstracted to the only thing the checks ask of it: whether   *)
(* it differs from bddfalse.  The acceptance condition is given by its     *)
(* meaning, the set Sat of the sets of marks it accepts, which is all that *)
(* acc_cond::accepting() depends on.                                       *)
(***************************************************************************)
EXTENDS Naturals, FiniteSets

CONSTANTS
  State,   \* the states of the automaton
  s0,      \* its initial state: twa::get_init_state()
  Mark,    \* the acceptance sets: 0 .. num_sets()-1
  Sat      \* the sets of marks that satisfy the acceptance condition

ASSUME TwaAssumption == s0 \in State /\ Sat \subseteq SUBSET Mark

(* twa_succ_iterator: dst(), cond() /= bddfalse, acc().                    *)
Edge == [src : State, cond : BOOLEAN, acc : SUBSET Mark, dst : State]

(* twa::succ_iter(s): every edge out of s, in any order.                   *)
succ_iter(edges, s) == {e \in edges : e.src = s}

(* acc_cond::accepting(m).                                                 *)
accepting(m) == m \in Sat

(* acc_cond::is_buchi(): one acceptance set, condition Inf(0).             *)
is_buchi == Cardinality(Mark) = 1 /\ Sat = {Mark}

-----------------------------------------------------------------------------
(***************************************************************************)
(* The reference against which the checks are judged: an automaton accepts *)
(* some word iff the edges seen infinitely often by some run, which form a *)
(* strongly connected set reachable from s0, satisfy the acceptance        *)
(* condition.  An edge labelled by false cannot be taken by any run.       *)
(***************************************************************************)
Live(edges) == {e \in edges : e.cond}

(* C is closed: no edge of E leaves it.                                    *)
Closed(E, C) == \A e \in E : e.src \in C => e.dst \in C

(* The states in every closed set around s: the ones reachable from s.     *)
Reach(E, s) ==
  {t \in State : \A C \in SUBSET State : s \in C /\ Closed(E, C) => t \in C}

Touched(E) == {e.src : e \in E} \cup {e.dst : e \in E}

(* Every state an edge of E touches reaches, inside E, all the others.     *)
StronglyConnected(E) ==
  E # {} /\ \A C \in SUBSET Touched(E) : C # {} /\ Closed(E, C) => C = Touched(E)

Marks(E) == UNION {e.acc : e \in E}

NonEmpty(edges) ==
  \E E \in SUBSET {e \in Live(edges) : e.src \in Reach(Live(edges), s0)} :
    StronglyConnected(E) /\ accepting(Marks(E))

(* twa::prop_weak(): on a cycle, all edges carry the same marks.           *)
is_weak(edges) ==
  \A e, f \in Live(edges) :
    (/\ e.src \in Reach(Live(edges), f.dst)
     /\ f.src \in Reach(Live(edges), e.dst)) => e.acc = f.acc
=============================================================================
