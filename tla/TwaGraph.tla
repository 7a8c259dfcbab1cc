------------------------------ MODULE TwaGraph ------------------------------
(***************************************************************************)
(* class twa_graph of spot/twa/twagraph.cc, and randomize() of             *)
(* spot/twaalgos/randomize.cc: what clients do to an explicit automaton.   *)
(* The automaton aut is its digraph with init, the number of its initial   *)
(* state, and names, its "state-names".                                    *)
(***************************************************************************)
EXTENDS Digraph, NamedAutomaton

CONSTANT
  Clients    \* what clients do: bounds, labels, edges and universal groups,
             \* whether they randomize(), and the acceptance they use

VARIABLES
  client,    \* the client of this automaton
  aut

vars == <<client, aut>>

(* acc().uses_fin_acceptance()                                             *)
fin == client.fin

(* The numbers are unsigned.                                               *)
Number(d) == IF d < 0 THEN 1000 + d ELSE d

-----------------------------------------------------------------------------
(* Edge t, or the initial state, leads to the group of r.                  *)
Redirected(r, t) == [r.g EXCEPT !.edges[t].dst = r.d]
Started(r) == [r.g EXCEPT !.init = r.d]

MergeEdgeDests(a) ==
  FoldLeftDomain(LAMBDA b, t :
      IF is_dead_edge(a, t) \/ a.edges[t].dst >= 0 THEN b
      ELSE Redirected(uniq_univ_dests(b, ToSet(univ_dests(a, a.edges[t].dst))), t),
    [a EXCEPT !.dests = << >>], a.edges)

(* Mutant: the initial state is forgotten.                                 *)
merge_univ_dests_Init(a) == MergeEdgeDests(a)

merge_univ_dests(a) ==
  IF a.init >= 0 THEN MergeEdgeDests(a)
  ELSE Started(uniq_univ_dests(MergeEdgeDests(a), ToSet(univ_dests(a, a.init))))

(* Rank: an order of conditions, or of sets of marks.                      *)
Rank(S) == FoldSet(LAMBDA x, n : n + 2 ^ x, 0, S)

BySrcDst(e, f, x, y) ==
  \/ e.src < f.src
  \/ e.src = f.src /\ Number(e.dst) < Number(f.dst)
  \/ e.src = f.src /\ e.dst = f.dst /\ Rank(x) < Rank(y)

(* Mutant: the sources are not compared.                                   *)
MergeCond_AnySrc(v) ==
  FoldLeft(LAMBDA w, e :
      IF e.cond = {} THEN w
      ELSE IF w # << >> /\ Last(w).dst = e.dst /\ Last(w).acc = e.acc
      THEN [w EXCEPT ![Len(w)].cond = @ \cup e.cond]
      ELSE Append(w, e),
    << >>, v)

(* Merge edges with the same source, destination, and acceptance; drop     *)
(* those that are false.                                                   *)
MergeCond(v) ==
  FoldLeft(LAMBDA w, e :
      IF e.cond = {} THEN w
      ELSE IF w # << >> /\ Last(w).dst = e.dst /\ Last(w).acc = e.acc /\ Last(w).src = e.src
      THEN [w EXCEPT ![Len(w)].cond = @ \cup e.cond]
      ELSE Append(w, e),
    << >>, v)

(* Merge edges with the same source, destination, and conditions, from     *)
(* the second one on.                                                      *)
MergeAcc(v) ==
  FoldLeft(LAMBDA w, e :
      IF Len(w) >= 2 /\ Last(w).dst = e.dst /\ Last(w).cond = e.cond /\ Last(w).src = e.src
      THEN [w EXCEPT ![Len(w)].acc = @ \cup e.acc]
      ELSE Append(w, e),
    << >>, v)

(* The two passes of merge_edges(); the second only without Fin.           *)
FirstPass(a) ==
  [sort_edges_(a, [e, f \in ToSet(a.edges) |-> BySrcDst(e, f, e.acc, f.acc)])
     EXCEPT !.edges = MergeCond(@)]

SecondPass(a) ==
  IF fin \/ Len(a.edges) < 2 THEN a
  ELSE [sort_edges_(a, [e, f \in ToSet(a.edges) |-> BySrcDst(e, f, e.cond, f.cond)])
          EXCEPT !.edges = MergeAcc(@)]

merge_edges(a) ==
  chain_edges_(SecondPass(FirstPass(
    IF is_existential(a) THEN remove_dead_edges_(a) ELSE merge_univ_dests(remove_dead_edges_(a)))))

-----------------------------------------------------------------------------
(* Universal destinations are renamed and merged, and get an entry of      *)
(* newst that g_.defrag_states() will use: x is [g, newst].                *)
NewEntry(newst, r) ==
  LET nd == Cardinality(DOMAIN newst)
  IN [g |-> r.g, newst |-> [i \in 0 .. nd |-> IF i = nd THEN r.d ELSE newst[i]], d |-> nd]

Fixup(x, old, d) ==
  LET named == {x.newst[s] : s \in ToSet(old[-d])} \ {Erased}
  IN CASE d >= 0 -> [g |-> x.g, newst |-> x.newst, d |-> d]
       [] d < 0 /\ named = {} -> [g |-> x.g, newst |-> x.newst, d |-> Erased]
       [] OTHER -> NewEntry(x.newst, uniq_univ_dests(x.g, named))

FixEdge(r, t) == [g |-> Redirected(r, t), newst |-> r.newst]
FixInit(r) == [g |-> Started(r), newst |-> r.newst]

FixAll(a, newst) ==
  FoldLeftDomain(LAMBDA x, t :
      IF is_dead_edge(a, t) THEN x ELSE FixEdge(Fixup(x, a.dests, a.edges[t].dst), t),
    FixInit(Fixup([g |-> [a EXCEPT !.dests = << >>], newst |-> newst], a.dests, a.init)),
    a.edges)

(* "state-names" and the other vectors that have an entry per state.       *)
ShiftNames(names, newst, used_states) ==
  SubSeq(FoldLeftDomain(LAMBDA v, i :
             IF newst[i - 1] \in {i - 1, Erased} THEN v ELSE [v EXCEPT ![newst[i - 1] + 1] = v[i]],
           names, names), 1, used_states)

(* twa_graph::defrag_states(), after the universal destinations.           *)
TwaDefrag(x, newst, used_states) ==
  defrag_states([x.g EXCEPT !.names = ShiftNames(@, newst, used_states), !.init = x.newst[@]],
                x.newst, used_states)

twa_defrag_states(a, newst, used_states) ==
  TwaDefrag(IF is_existential(a) THEN [g |-> a, newst |-> newst] ELSE FixAll(a, newst),
            newst, used_states)

(* Number the states of S in order, and erase the others.                  *)
KeepOnly(a, S) ==
  twa_defrag_states(a, [s \in DOMAIN a.states |->
                          IF s \in S THEN Cardinality({u \in S : u < s}) ELSE Erased],
                    Cardinality(S))

-----------------------------------------------------------------------------
(* The edges of a chain, without what tells them apart.                    *)
Data(a, c) == [k \in DOMAIN c |-> <<a.edges[c[k]].dst, a.edges[c[k]].cond, a.edges[c[k]].acc>>]

(* Each state becomes the first one that has the same edges.               *)
Remap(a) ==
  LET data == [s \in DOMAIN a.states |-> Data(a, out(a, s))]
  IN [i \in DOMAIN a.states |-> Min({j \in 0 .. i : data[i] = data[j]})]

MergeInto(a, remap) ==
  KeepOnly([a EXCEPT !.edges = [t \in DOMAIN @ |-> IF is_dead_edge(a, t) THEN @[t]
                                                   ELSE [@[t] EXCEPT !.dst = remap[@]]],
                     !.init = remap[@]],
           {i \in DOMAIN a.states : remap[i] = i})

merge_states(a) == MergeInto(a, Remap(a))

-----------------------------------------------------------------------------
(* purge_unreachable_states(): todo has, for each state, whether it was    *)
(* seen, and is at the same time a stack of states.                        *)
Seeded(a, group) == [seen |-> [s \in DOMAIN a.states |-> s \in ToSet(group)], stack |-> group]

Pushed(todo, group) ==
  FoldLeft(LAMBDA x, d : IF x.seen[d] THEN x
                         ELSE [x EXCEPT !.seen[d] = TRUE, !.stack = Append(@, d)],
           todo, group)

RECURSIVE Visit(_, _)
Visit(a, todo) ==
  IF todo.stack = << >> THEN {s \in DOMAIN a.states : todo.seen[s]}
  ELSE Visit(a, FoldLeft(LAMBDA x, t : Pushed(x, univ_dests(a, a.edges[t].dst)),
                         [todo EXCEPT !.stack = Front(@)], out(a, Last(todo.stack))))

KeepSeen(a, S) == IF S = DOMAIN a.states THEN a ELSE KeepOnly(a, S)

purge_unreachable_states(a) == KeepSeen(a, Visit(a, Seeded(a, univ_dests(a, a.init))))

-----------------------------------------------------------------------------
(* purge_dead_states(): a DFS that gives the states in topological order.  *)
(* x is [todo, useful, order].  On existential automata, todo has pairs of *)
(* a state and its next edge.                                              *)
RECURSIVE TopoExistential(_, _)
TopoExistential(a, x) ==
  IF x.todo = << >> THEN x
  ELSE LET src == Last(x.todo)[1]
           tid == Last(x.todo)[2]
           dst == a.edges[tid].dst
           next == [x EXCEPT !.todo[Len(x.todo)][2] = a.edges[tid].next_succ]
       IN TopoExistential(a,
            IF tid = 0 THEN [x EXCEPT !.todo = Front(@), !.order = Append(@, src)]
            ELSE IF dst \in x.useful THEN next
            ELSE [next EXCEPT !.todo = Append(@, <<dst, a.states[dst].succ>>),
                              !.useful = @ \cup {dst}])

(* On alternating automata, todo has triples of a state, its current edge, *)
(* and the destinations of the latter that are left; the first triple is   *)
(* about the initial state and no edge.                                    *)
RECURSIVE TopoUniversal(_, _)
TopoUniversal(a, x) ==
  IF x.todo = << >> THEN x
  ELSE LET top == Last(x.todo)
           src == top[1]
           popped == Front(x.todo)
           dst == Head(top[3])
           tid == IF Len(top[3]) = 1 /\ top[2] # 0 THEN a.edges[top[2]].next_succ ELSE top[2]
           rest == IF Len(top[3]) = 1 /\ tid # 0 THEN univ_dests(a, a.edges[tid].dst)
                   ELSE Tail(top[3])
           next == [x EXCEPT !.todo = Append(popped, <<src, tid, rest>>)]
           succ == a.states[dst].succ
       IN TopoUniversal(a,
            IF top[2] = 0 /\ top[3] = << >>
            THEN [x EXCEPT !.todo = popped,
                           !.order = IF src >= 0 /\ (popped = << >> \/ src # Last(popped)[1])
                                     THEN Append(@, src) ELSE @]
            ELSE IF dst \in x.useful \/ succ = 0 THEN next
            ELSE [next EXCEPT !.useful = @ \cup {dst},
                              !.todo = Append(@, <<dst, succ, univ_dests(a, a.edges[succ].dst)>>)])

Topo(a) ==
  IF is_existential(a)
  THEN TopoExistential(a, [todo |-> <<<<a.init, a.states[a.init].succ>>>>,
                           useful |-> {a.init}, order |-> << >>])
  ELSE TopoUniversal(a, [todo |-> <<<<a.init, 0, univ_dests(a, a.init)>>>>,
                         useful |-> {}, order |-> << >>])

(* Mutant: an edge is useful if one of its destinations is.                *)
Useless_AnyDest(x, c) ==
  {t \in ToSet(c) : ToSet(univ_dests(x.a, x.a.edges[t].dst)) \cap x.useful = {}}

(* The edges of the chain c with a useless destination: x is [a, useful,   *)
(* univ].                                                                  *)
Useless(x, c) ==
  {t \in ToSet(c) : ~(ToSet(univ_dests(x.a, x.a.edges[t].dst)) \subseteq x.useful)}

(* Erase the useless edges of s; it is useless when no edge is left.       *)
Prune(x, s) ==
  LET c == out(x.a, s)
      K == Useless(x, c)
  IN [a |-> out_iteraser(x.a, s, K),
      useful |-> IF K = ToSet(c) THEN x.useful \ {s} ELSE x.useful,
      univ |-> x.univ \/ \E t \in K : x.a.edges[t].dst < 0]

(* Passes are repeated as long as universal edges are erased; some tells   *)
(* whether any was.                                                        *)
RECURSIVE PruneAll(_, _, _)
PruneAll(x, order, some) ==
  IF x.univ THEN PruneAll(FoldLeft(Prune, [x EXCEPT !.univ = FALSE], order), order, TRUE)
  ELSE [x EXCEPT !.univ = some]

FirstPrune(a, topo) ==
  PruneAll(FoldLeft(Prune, [a |-> a, useful |-> topo.useful, univ |-> FALSE], topo.order),
           topo.order, FALSE)

(* What purge_dead_states() makes of a pruned automaton.                   *)
KeepUseful(x) ==
  IF ~(ToSet(univ_dests(x.a, x.a.init)) \subseteq x.useful)
  THEN [x.a EXCEPT !.states = new_state(empty).states, !.edges = << >>, !.dests = << >>,
                   !.killed = 0, !.init = 0]
  ELSE IF x.useful = DOMAIN x.a.states THEN x.a
  ELSE IF x.univ THEN purge_unreachable_states(KeepOnly(x.a, x.useful))
  ELSE KeepOnly(x.a, x.useful)

purge_dead_states(a) == KeepUseful(FirstPrune(a, Topo(a)))

-----------------------------------------------------------------------------
(* randomize(): nums permutes the states, and order the edges, when they   *)
(* are not asked to stay.                                                  *)
BySrc(a) == chain_edges_(sort_edges_(a, [e, f \in ToSet(a.edges) |-> e.src < f.src]))

(* Mutant: the names stay.                                                 *)
RandomStates_Names(a, nums) == [rename_states_(a, nums) EXCEPT !.init = nums[@]]

RandomStates(a, nums) ==
  [rename_states_(a, nums) EXCEPT
     !.init = nums[@],
     !.names = [i \in 1 .. num_states(a) |-> @[1 + CHOOSE s \in DOMAIN nums : nums[s] = i - 1]]]

RandomEdges(a, order) == [a EXCEPT !.edges = [t \in DOMAIN @ |-> @[order[t]]]]

-----------------------------------------------------------------------------
(* The clients                                                             *)
Init ==
  /\ client \in Clients
  /\ aut = [states |-> << >>, edges |-> << >>, dests |-> << >>, killed |-> 0,
            init |-> 0, names |-> << >>]

States == DOMAIN aut.states

(* The vector of names has an entry for each state.                        *)
NamesFit == Len(aut.names) = num_states(aut)

Call(a) == aut' = a /\ UNCHANGED client

(* new_state(), and a name for it: states are created before edges, and    *)
(* named after their numbers.                                              *)
NewState ==
  LET n == num_states(aut)
  IN /\ n < client.states /\ aut.edges = << >> /\ aut.names = [i \in 1 .. n |-> i - 1]
     /\ Call([new_state(aut) EXCEPT !.names = Append(@, n)])

NewEdge(src, dst, label) ==
  /\ Len(aut.edges) < client.edges /\ <<src, dst>> \in client.pairs
  /\ Call(new_edge(aut, src, dst, label))

NewUnivEdge(src, group, label) ==
  /\ src \in client.univ /\ Len(aut.edges) < client.edges /\ Len(aut.dests) < client.dests
  /\ LET r == new_univ_dests(aut, group) IN Call(new_edge(r.g, src, r.d, label))

SetInitState(s) == s \in client.inits /\ Call([aut EXCEPT !.init = s])

SetUnivInitState(group) ==
  /\ Len(aut.dests) < client.dests
  /\ LET r == new_univ_dests(aut, group) IN Call([r.g EXCEPT !.init = r.d])

EraseEdges(s, K) ==
  /\ aut.killed + Cardinality(K) <= client.kills
  /\ Call(out_iteraser(aut, s, K))

MergeUnivDests == Call(merge_univ_dests(aut))

MergeEdges == Call(merge_edges(aut))

MergeStates == is_existential(aut) /\ NamesFit /\ Call(merge_states(aut))

PurgeUnreachable == NamesFit /\ Call(purge_unreachable_states(aut))

PurgeDead == NamesFit /\ Call(purge_dead_states(aut))

(* Clients that erased edges and did not remove them only randomize edges. *)
RandomizeStates(nums) ==
  /\ client.shuffles /\ is_existential(aut) /\ States # {} /\ aut.killed = 0
  /\ Call(BySrc(RandomStates(aut, nums)))

RandomizeEdges(order) ==
  /\ client.shuffles /\ is_existential(aut)
  /\ Call(BySrc(RandomEdges(remove_dead_edges_(aut), order)))

Permuted(S) == {f \in [S -> S] : \A x, y \in S : f[x] = f[y] => x = y}

Groups == {group \in client.groups : ToSet(group) \subseteq States}

Next ==
  \/ NewState
  \/ \E src, dst \in States, label \in client.labels : NewEdge(src, dst, label)
  \/ \E src \in States, group \in Groups, label \in client.labels : NewUnivEdge(src, group, label)
  \/ \E s \in States : SetInitState(s)
  \/ \E group \in Groups : SetUnivInitState(group)
  \/ \E s \in States : \E K \in SUBSET ToSet(out(aut, s)) : K # {} /\ EraseEdges(s, K)
  \/ MergeUnivDests
  \/ MergeEdges
  \/ States # {} /\ (MergeStates \/ PurgeUnreachable \/ PurgeDead)
  \/ \E nums \in Permuted(States) : RandomizeStates(nums)
  \/ \E order \in Permuted(1 .. num_edges(aut)) : RandomizeEdges(order)

Spec == Init /\ [][Next]_vars

-----------------------------------------------------------------------------
(* The chain of each state leads from succ to succ_tail, and is exactly    *)
(* the edges with this source that were not erased; next_succ tells those  *)
(* that were, and killed_edge_ counts them.                                *)
ChainsAreRight ==
  /\ \A s \in States :
       LET c == out(aut, s)
       IN /\ ToSet(c) = {t \in Valid(aut) : aut.edges[t].src = s}
          /\ aut.states[s].succ_tail = (IF c = << >> THEN 0 ELSE Last(c))
          /\ c # << >> => aut.edges[Last(c)].next_succ = 0
  /\ aut.killed = Cardinality(DOMAIN aut.edges \ Valid(aut))

(* Every edge goes from a state to a state or to a group of states, and so *)
(* does the initial state, whatever was renumbered, merged or removed:     *)
(* -1U, which also is the number of a group, is left nowhere.              *)
DestsExist ==
  LET Exists(d) == d \in States \/ (-d \in DOMAIN aut.dests /\ ToSet(aut.dests[-d]) \subseteq States)
  IN /\ \A t \in Valid(aut) : aut.edges[t].src \in States /\ Exists(aut.edges[t].dst)
     /\ States # {} => Exists(aut.init)

(* The automaton that a stands for.                                        *)
Named(a) ==
  LET Name(S) == {a.names[s + 1] : s \in S}
      Edge(t) == [src |-> a.names[a.edges[t].src + 1], dsts |-> Name(ToSet(univ_dests(a, a.edges[t].dst))),
                  cond |-> a.edges[t].cond, acc |-> a.edges[t].acc]
  IN [states |-> Name(DOMAIN a.states), init |-> Name(ToSet(univ_dests(a, a.init))),
      edges |-> [e \in {Edge(t) : t \in Valid(a)} |-> Cardinality({t \in Valid(a) : Edge(t) = e})]]

(* What the clients may purge, merge, or shuffle.                          *)
Usable == States # {} /\ NamesFit

Shuffled == Usable /\ is_existential(aut) /\ client.shuffles

(* a is what is left of A without its dead states.                         *)
OnlyDeadPurged(a, A) ==
  IF IsEmpty(A) THEN num_states(a) = 1 /\ a.edges = << >> /\ a.init = 0
  ELSE Named(a) = WithoutDead(A)

(* "Remove all unreachable states": purge_unreachable_states() keeps the   *)
(* others with their names and their edges, wherever universal edges lead. *)
(* "Dead states are all the states that cannot be part of an infinite run  *)
(* of the automaton": a single pass of purge_dead_states() in topological  *)
(* order, repeated for universal edges, finds all of them and no other.    *)
PurgesAreExact ==
  Usable =>
    /\ Named(purge_unreachable_states(aut)) = WithoutUnreachable(Named(aut))
    /\ OnlyDeadPurged(purge_dead_states(aut), Named(aut))

(* merge_edges() keeps every move of every state, but those that have less *)
(* marks than others when there is no Fin, and adds none; and so does      *)
(* merge_univ_dests(), that keeps the edges too.  merge_states() "merges   *)
(* states that have the exact same outgoing edges": it leaves a quotient   *)
(* of the automaton.                                                       *)
MergesAreSound ==
  Usable =>
    /\ SameMoves(Named(aut), Named(merge_edges(aut)), fin)
    /\ Named(merge_univ_dests(aut)) = Named(aut)
    /\ is_existential(aut) => Merges(Named(aut), Named(merge_states(aut)))

(* randomize() changes no more than the order of states and edges, and the *)
(* names go with the states.                                               *)
RandomizeIsSound ==
  Shuffled =>
    /\ aut.killed = 0 => \A nums \in Permuted(States) :
         Named(BySrc(RandomStates(aut, nums))) = Named(aut)
    /\ \A order \in Permuted(1 .. num_edges(aut)) :
         Named(BySrc(RandomEdges(remove_dead_edges_(aut), order))) = Named(aut)

(* "Make a random permutation of the state, and of the edges leaving this  *)
(* state": also when edges were erased before, and only the states are     *)
(* permuted.                                                               *)
RandomizeStatesIsSound ==
  Shuffled => \A nums \in Permuted(States) :
    Named(BySrc(RandomStates(aut, nums))) = Named(aut)
=============================================================================
