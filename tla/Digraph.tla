------------------------------ MODULE Digraph ------------------------------
(***************************************************************************)
(* class digraph of spot/graph/graph.hh: the vectors states_, edges_ and   *)
(* dests_, the chains of outgoing edges that run through them, and the     *)
(* operations that keep, break and restore these chains.                   *)
(*                                                                         *)
(* A graph is a record; each operator returns the graph it leaves.  States *)
(* are numbered from 0 and edges from 1, as in the code, where edge 0 is   *)
(* no edge.  A destination d < 0 is the universal one that the code writes *)
(* ~(-d-1); the groups of dests_ are told apart by their rank instead of   *)
(* their offset.  -1U, that marks an erased state, is the -1 of group 1.   *)
(***************************************************************************)
EXTENDS Integers, SequencesExt

Erased == -1

empty == [states |-> << >>, edges |-> << >>, dests |-> << >>, killed |-> 0]

num_states(g) == Cardinality(DOMAIN g.states)

num_edges(g) == Len(g.edges) - g.killed

is_existential(g) == g.dests = << >>

is_dead_edge(g, t) == g.edges[t].next_succ = t

(* The edges that edges() iterates over.                                   *)
Valid(g) == {t \in DOMAIN g.edges : ~is_dead_edge(g, t)}

new_state(g) ==
  LET n == num_states(g)
  IN [g EXCEPT !.states = [s \in 0 .. n |-> IF s = n THEN [succ |-> 0, succ_tail |-> 0] ELSE @[s]]]

new_edge(g, src, dst, label) ==
  LET t == Len(g.edges) + 1
      st == g.states[src].succ_tail
      linked == IF st = 0 THEN g.edges ELSE [g.edges EXCEPT ![st].next_succ = t]
  IN [g EXCEPT !.edges = Append(linked, [src |-> src, dst |-> dst, cond |-> label.cond,
                                         acc |-> label.acc, next_succ |-> 0]),
               !.states[src] = [succ |-> IF st = 0 THEN t ELSE @.succ, succ_tail |-> t]]

(* The graph with the group, and the number of the latter.                 *)
new_univ_dests(g, group) ==
  IF Len(group) = 1 THEN [g |-> g, d |-> group[1]]
  ELSE [g |-> [g EXCEPT !.dests = Append(@, group)], d |-> -(Len(g.dests) + 1)]

univ_dests(g, d) == IF d >= 0 THEN <<d>> ELSE g.dests[-d]

(* univ_dest_mapper::new_univ_dests(), while dests_ holds only groups that *)
(* it made: sorted, without duplicates, and each one once.                 *)
Reuse(g, group) ==
  LET known == {k \in DOMAIN g.dests : g.dests[k] = group}
  IN IF known # {} THEN [g |-> g, d |-> -(CHOOSE k \in known : TRUE)]
     ELSE new_univ_dests(g, group)

uniq_univ_dests(g, S) == Reuse(g, SetToSortSeq(S, <))

(* The chain of edges from t on; it ascends.                               *)
chain(g, t) ==
  LET follow[i \in 0 .. Len(g.edges)] ==
        IF i = 0 THEN << >>
        ELSE <<i>> \o (IF g.edges[i].next_succ > i THEN follow[g.edges[i].next_succ] ELSE << >>)
  IN follow[t]

out(g, s) == chain(g, g.states[s].succ)

-----------------------------------------------------------------------------
(* Mutant: the last edge of the state is not updated.                      *)
erase_Tail(g, s, prev, t) ==
  LET next == g.edges[t].next_succ
      linked == IF prev # 0 THEN [g.edges EXCEPT ![prev].next_succ = next] ELSE g.edges
  IN [g EXCEPT !.edges = [linked EXCEPT ![t].next_succ = t],
               !.states[s].succ = IF prev = 0 /\ @ = t THEN next ELSE @,
               !.killed = @ + 1]

(* killer_edge_iterator::erase()                                           *)
erase(g, s, prev, t) ==
  LET next == g.edges[t].next_succ
      linked == IF prev # 0 THEN [g.edges EXCEPT ![prev].next_succ = next] ELSE g.edges
  IN [g EXCEPT !.edges = [linked EXCEPT ![t].next_succ = t],
               !.states[s].succ = IF prev = 0 /\ @ = t THEN next ELSE @,
               !.states[s].succ_tail = IF @ = t THEN prev ELSE @,
               !.killed = @ + 1]

(* An iteration with out_iteraser(s) that erases the edges in K.           *)
out_iteraser(g, s, K) ==
  FoldLeft(LAMBDA a, t : IF t \in K THEN [a EXCEPT !.g = erase(a.g, s, a.prev, t)]
                         ELSE [a EXCEPT !.prev = t],
           [g |-> g, prev |-> 0], out(g, s)).g

(* The edges of v, in the order in which their indices are in order.       *)
Reordered(v, order) == [i \in DOMAIN order |-> v[order[i]]]

(* What is left of the vector of edges without the dead ones.              *)
Kept(g) == Reordered(g.edges, SetToSortSeq(Valid(g), <))

remove_dead_edges_(g) ==
  IF g.killed = 0 THEN g ELSE [g EXCEPT !.edges = Kept(g), !.killed = 0]

(* std::stable_sort(): less tells, for two edges, which one comes first.   *)
sort_edges_(g, less) ==
  LET Before(i, j) == \/ less[g.edges[i], g.edges[j]]
                      \/ ~less[g.edges[j], g.edges[i]] /\ i < j
  IN [g EXCEPT !.edges = Reordered(@, SetToSortSeq(DOMAIN @, Before))]

(* All the edges are in the order of their sources, and chained so; dead   *)
(* ones are not told from others.                                          *)
chain_edges_(g) ==
  LET From(s) == {t \in DOMAIN g.edges : g.edges[t].src = s}
      Chained(t) == IF t < Len(g.edges) /\ g.edges[t + 1].src = g.edges[t].src THEN t + 1 ELSE 0
  IN [g EXCEPT
       !.edges = [t \in DOMAIN @ |-> [@[t] EXCEPT !.next_succ = Chained(t)]],
       !.states = [s \in DOMAIN @ |-> [succ |-> IF From(s) = {} THEN 0 ELSE Min(From(s)),
                                       succ_tail |-> IF From(s) = {} THEN 0 ELSE Max(From(s))]]]

rename_states_(g, newst) ==
  [g EXCEPT !.edges = [t \in DOMAIN @ |-> [@[t] EXCEPT !.src = newst[@], !.dst = newst[@]]]]

-----------------------------------------------------------------------------
(* The first loop of defrag_states(), for state s: move it, or kill its    *)
(* edges.                                                                  *)
Shifted(g, newst, s) ==
  CASE newst[s] = s -> g
    [] newst[s] = Erased ->
         LET gone == ToSet(out(g, s))
         IN [g EXCEPT !.edges = [t \in DOMAIN @ |-> IF t \in gone THEN [@[t] EXCEPT !.next_succ = t]
                                                   ELSE @[t]]]
    [] OTHER -> [g EXCEPT !.states[newst[s]] = g.states[s]]

(* The other loops, for g with the edges v that are left: newidx has their *)
(* new numbers.                                                            *)
Compacted(g, v, newidx, newst, used_states) ==
  [g EXCEPT
     !.states = [s \in 0 .. used_states - 1 |->
                   [succ |-> newidx[@[s].succ], succ_tail |-> newidx[@[s].succ_tail]]],
     !.edges = [t \in DOMAIN v |->
                  [v[t] EXCEPT !.src = newst[@], !.dst = newst[@], !.next_succ = newidx[@]]],
     !.killed = 0]

NewIdx(g) ==
  [t \in 0 .. Len(g.edges) |-> IF t \in Valid(g) THEN Cardinality({u \in Valid(g) : u <= t}) ELSE 0]

Compact(g, newst, used_states) == Compacted(g, Kept(g), NewIdx(g), newst, used_states)

(* newst has an entry for each state, and more for universal destinations. *)
defrag_states(g, newst, used_states) ==
  Compact(FoldLeftDomain(LAMBDA a, i : Shifted(a, newst, i - 1), g, [i \in 1 .. num_states(g) |-> i]),
          newst, used_states)
=============================================================================
