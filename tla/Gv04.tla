-------------------------------- MODULE Gv04 --------------------------------
(***************************************************************************)
(* The emptiness check of spot/twaalgos/gv04.cc: Tarjan's search with, for *)
(* each state of the stack, a link to the last accepting edge below it.    *)
(* One action per path through the body of the loop of check(), and one    *)
(* per phase of result::accepting_run().                                   *)
(*                                                                         *)
(* Indices into the stack start from 0, as in the code.  h keeps the index *)
(* of every visited state, even of those that have left the stack.         *)
(***************************************************************************)
EXTENDS BfsSteps, Integers, SequencesExt

CONSTANT Automata   \* the automata the check may be built for

VARIABLES
  edges,        \* the automaton a_
  h,            \* map of visited states: their index, -1 when not visited
  stack,        \* stack of visited states
  dftop,        \* top of the depth-first search
  violation,    \* whether an accepting run was found
  prefix, cycle,    \* the run that accepting_run() builds
  pc,           \* "idle" before check(), "loop" in it, then accepting_run()
  result        \* what check() returned

search_vars == <<h, stack, dftop, violation>>
run == <<prefix, cycle>>
vars == <<edges, search_vars, run, pc, result>>

(* stack_entry; lasttr is given by the edges the iterator has not          *)
(* delivered yet, and by the one it is on.                                 *)
Entry == [s : State, it : SUBSET Edge, on : SUBSET Edge,
          lowlink : Int, pre : Int, acc : Int]

(* Top of the SCC stack.                                                   *)
top == Len(stack) - 1

At(i) == stack[i + 1]

(* The constructor throws unless the automaton is Buchi, weak or has no    *)
(* acceptance set.                                                         *)
gv04 ==
  /\ edges \in Automata
  /\ is_weak(edges) \/ Mark = {} \/ is_buchi

Init ==
  /\ gv04
  /\ h = [s \in State |-> -1] /\ stack = << >>
  /\ dftop = -1 /\ violation = FALSE
  /\ prefix = << >> /\ cycle = << >>
  /\ pc = "idle" /\ result = "none"

-----------------------------------------------------------------------------
(* The accepting link of a state pushed on st over an edge that is         *)
(* accepting or not.                                                       *)
acc_link(st, acc) ==
  IF acc THEN Len(st) - 1 ELSE IF dftop >= 0 THEN st[dftop + 1].acc ELSE -1

(* push(): st is the stack.                                                *)
push(st, s, acc) ==
  /\ h' = [h EXCEPT ![s] = Len(st)]
  /\ stack' = Append(st, [s |-> s, it |-> succ_iter(edges, s), on |-> {},
                          lowlink |-> Len(st), pre |-> dftop, acc |-> acc_link(st, acc)])
  /\ dftop' = Len(st)

(* Mutant: the lowlink is left as it is.                                   *)
Lower_Not(st, f, t) == st

(* lowlinkupdate(f, t) on the stack st, and whether it sets violation.     *)
Lower(st, f, t) ==
  IF st[t + 1].lowlink <= st[f + 1].lowlink
  THEN [st EXCEPT ![f + 1].lowlink = st[t + 1].lowlink] ELSE st

(* Mutant: a link to the target of the cycle itself is not enough.         *)
Violates_Strictly(st, f, t) ==
  st[t + 1].lowlink <= st[f + 1].lowlink /\ st[t + 1].lowlink < st[f + 1].acc

Violates(st, f, t) ==
  st[t + 1].lowlink <= st[f + 1].lowlink /\ st[t + 1].lowlink <= st[f + 1].acc

Check ==
  /\ pc = "idle" /\ result = "none"
  /\ push(stack, s0, FALSE)
  /\ pc' = "loop"
  /\ UNCHANGED <<edges, violation, run, result>>

-----------------------------------------------------------------------------
(* The loop of check()                                                     *)

Loop == pc = "loop" /\ ~violation /\ dftop >= 0

(* pop(): a component whose root is done leaves the stack as a whole.      *)
Pop ==
  /\ Loop /\ At(dftop).it = {}
  /\ LET p == At(dftop).pre
         st == IF p >= 0 THEN Lower(stack, p, dftop) ELSE stack
     IN /\ violation' = (p >= 0 /\ Violates(stack, p, dftop))
        /\ stack' = IF At(dftop).lowlink = dftop THEN SubSeq(st, 1, dftop) ELSE st
        /\ dftop' = p
  /\ UNCHANGED <<edges, h, run, pc, result>>

On(e) == Loop /\ e \in At(dftop).it

(* The stack once the iterator of the current state was moved to e.        *)
Moved(e) == [stack EXCEPT ![dftop + 1].it = @ \ {e}, ![dftop + 1].on = {e}]

Skip(e) ==
  /\ On(e) /\ ~e.cond
  /\ stack' = Moved(e)
  /\ UNCHANGED <<edges, h, dftop, violation, run, pc, result>>

NewState(e) ==
  /\ On(e) /\ e.cond /\ h[e.dst] = -1
  /\ push(Moved(e), e.dst, accepting(e.acc))
  /\ UNCHANGED <<edges, violation, run, pc, result>>

(* h may hold the index of a state that left the stack.                    *)
OnStack(s) == h[s] < Len(stack) /\ At(h[s]).s = s

BackEdge(e) ==
  /\ On(e) /\ e.cond /\ h[e.dst] # -1 /\ OnStack(e.dst)
  /\ violation' = (accepting(e.acc) \/ Violates(stack, dftop, h[e.dst]))
  /\ stack' = Lower(Moved(e), dftop, h[e.dst])
  /\ UNCHANGED <<edges, h, dftop, run, pc, result>>

Gone(e) ==
  /\ On(e) /\ e.cond /\ h[e.dst] # -1 /\ ~OnStack(e.dst)
  /\ stack' = Moved(e)
  /\ UNCHANGED <<edges, h, dftop, violation, run, pc, result>>

Return ==
  /\ pc = "loop" /\ (violation \/ dftop < 0)
  /\ result' = IF violation THEN "run" ELSE "null"
  /\ pc' = "idle"
  /\ UNCHANGED <<edges, search_vars, run>>

-----------------------------------------------------------------------------
(* result::accepting_run()                                                 *)

(* update_lowlinks() for the i-th entry: it takes the lowlink of the entry *)
(* its own one names, and so do the entries before it, down to the first   *)
(* that has that value.                                                    *)
UpdateLowlink(st, i) ==
  LET ll == st[st[i + 1].lowlink + 1].lowlink
      j == SelectLastInSubSeq(st, 1, i, LAMBDA e : e.lowlink = ll)
  IN IF st[i + 1].lowlink >= i THEN st
     ELSE [k \in DOMAIN st |->
             IF k > j /\ k <= i + 1 THEN [st[k] EXCEPT !.lowlink = ll] ELSE st[k]]

update_lowlinks == FoldLeftDomain(LAMBDA st, k : UpdateLowlink(st, k - 1), stack, stack)

scc_root == At(dftop).lowlink

(* The edges of the states from which the entry i was reached.             *)
Unwound[i \in -1 .. Cardinality(State)] ==
  IF i < 0 THEN << >>
  ELSE Unwound[At(i).pre] \o SetToSeq(At(i).on)

(* The root of the last component starts the cycle; the prefix leads to it.*)
Prefix ==
  /\ pc = "idle" /\ result = "run"
  /\ stack' = update_lowlinks
  /\ prefix' = Unwound[stack'[stack'[dftop + 1].lowlink + 1].pre]
  /\ pc' = "cycle"
  /\ UNCHANGED <<edges, h, dftop, violation, cycle, result>>

(* first_bfs::filter(): do not escape the component.                       *)
InScc ==
  {e \in Live(edges) : /\ h[e.dst] # -1 /\ OnStack(e.dst)
                       /\ At(h[e.dst]).lowlink >= scc_root}

(* first_bfs::match()                                                      *)
FirstMatches == {e \in InScc : e.acc # {}}

(* The first search looks for an edge with marks, if there are marks.      *)
FirstBfs ==
  /\ pc = "cycle" /\ cycle = << >> /\ Mark # {}
  /\ cycle' \in search(InScc, At(scc_root).s, FirstMatches)
  /\ UNCHANGED <<edges, search_vars, prefix, pc, result>>

(* "assert(bfs_start)" fails: without assertions a null pointer is used.   *)
FirstBfsFails ==
  /\ pc = "cycle" /\ cycle = << >> /\ Mark # {}
  /\ search(InScc, At(scc_root).s, FirstMatches) = {}
  /\ pc' = "abort"
  /\ UNCHANGED <<edges, search_vars, run, result>>

(* The second one goes back to the root, unless the first one did.         *)
SecondBfs ==
  /\ pc = "cycle" /\ (cycle = << >> => Mark = {})
  /\ LET start == IF cycle = << >> THEN At(scc_root).s ELSE Last(cycle).dst
         goal == At(scc_root).s
     IN IF cycle # << >> /\ start = goal THEN UNCHANGED cycle
        ELSE \E p \in search(InScc, start, {e \in InScc : e.dst = goal}) : cycle' = cycle \o p
  /\ pc' = "done"
  /\ UNCHANGED <<edges, search_vars, prefix, result>>

-----------------------------------------------------------------------------
check ==
  \/ Check
  \/ Pop
  \/ \E e \in edges : Skip(e) \/ NewState(e) \/ BackEdge(e) \/ Gone(e)
  \/ Return

accepting_run == Prefix \/ FirstBfs \/ FirstBfsFails \/ SecondBfs

Finished == (result = "null" \/ pc \in {"done", "abort"}) /\ UNCHANGED vars

Next == check \/ accepting_run \/ Finished

-----------------------------------------------------------------------------
(* accepting_run() returns an accepting run of the automaton: the prefix   *)
(* leads from the initial state to a cycle of edges a run can take, whose  *)
(* marks satisfy the acceptance condition.                                 *)
RunIsAccepting ==
  pc = "done" =>
    /\ cycle # << >> /\ accepting(Marks(ToSet(cycle)))
    /\ LET p == prefix \o cycle
       IN /\ p[1].src = s0 /\ ToSet(p) \subseteq Live(edges)
          /\ \A i \in 1 .. Len(p) - 1 : p[i].dst = p[i + 1].src
          /\ Last(p).dst = cycle[1].src

(* "assert(bfs_start)": the first search of accepting_run() finds its edge *)
(* in the last component.                                                  *)
FirstBfsSucceeds == pc # "abort"

(* Every entry of the stack reaches the entry its lowlink names, and the   *)
(* states that left the stack reach none: the index that h keeps of them,  *)
(* which another state may have taken over, is never used.                 *)
LowlinksAreReached ==
  pc = "loop" =>
    LET OnStk == {stack[i].s : i \in DOMAIN stack}
    IN /\ \A i \in DOMAIN stack : At(stack[i].lowlink).s \in Reach(Live(edges), stack[i].s)
       /\ \A s \in State : h[s] # -1 /\ s \notin OnStk =>
            Reach(Live(edges), s) \cap OnStk = {}
=============================================================================
