----------------------------- MODULE NdfsStack -----------------------------
(***************************************************************************)
(* The stacks of the nested depth-first searches magic, se05, tau03 and    *)
(* tau03opt of spot/twaalgos: stack_item of ndfs_result.hxx, and the       *)
(* push() and pop() these classes repeat.  The front of a stack is its     *)
(* last element.                                                           *)
(***************************************************************************)
EXTENDS Twa, SequencesExt

(* it is the set of the edges the iterator has not delivered yet.          *)
Item == [s : State, it : SUBSET Edge, label : BOOLEAN, acc : SUBSET Mark]

(* Mutant: the iterator of the initial state.                              *)
push_InitIter(st, E, s, label, acc) ==
  Append(st, [s |-> s, it |-> succ_iter(E, s0), label |-> label, acc |-> acc])

(* E is the automaton.                                                     *)
push(st, E, s, label, acc) ==
  Append(st, [s |-> s, it |-> succ_iter(E, s), label |-> label, acc |-> acc])

pop(st) == Front(st)

(* f.it->next() on the front f of st, e being the edge f.it was on.        *)
next(st, e) == [st EXCEPT ![Len(st)].it = @ \ {e}]

(* The edge e the iterator of the front of st is on, if it is not done.    *)
IsOn(st, e) == st # << >> /\ e \in Last(st).it

Done(st) == st # << >> /\ Last(st).it = {}

(* Each iterator is over edges out of the state of its item.               *)
Iterators(E, st) == \A i \in 1..Len(st) : st[i].it \subseteq succ_iter(E, st[i].s)

(* Each item above the bottom was reached from the one below by an edge of *)
(* the automaton, with the label and marks kept.                           *)
Linked(E, st) ==
  \A i \in 2..Len(st) :
    [src |-> st[i - 1].s, cond |-> TRUE, acc |-> st[i].acc, dst |-> st[i].s] \in E
=============================================================================
