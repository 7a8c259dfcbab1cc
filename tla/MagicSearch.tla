---------------------------- MODULE MagicSearch ----------------------------
(***************************************************************************)
(* The nested depth-first search of spot/twaalgos/magic.cc, one action per *)
(* path through the body of the loops of dfs_blue() and dfs_red().  The    *)
(* object is resumable: a call of check() after an answer continues from   *)
(* the two stacks the previous call left.                                  *)
(*                                                                         *)
(* The heap is the function color over Slot, reached through slot: with an *)
(* injective slot it is explicit_magic_search_heap (no entry = WHITE), and *)
(* otherwise bsh_magic_search_heap, where states whose hashes collide      *)
(* share a colour.                                                         *)
(***************************************************************************)
EXTENDS NdfsStack

CONSTANTS
  Automata,   \* the automata the check may be built for
  Slot,       \* the entries of the heap
  slot        \* the entry of each state

ASSUME MagicAssumption ==
  Automata \subseteq SUBSET Edge /\ slot \in [State -> Slot] /\ IsFiniteSet(Mark)

(* heap::Safe                                                              *)
Safe == \A s, t \in State : slot[s] = slot[t] => s = t

VARIABLES
  edges,      \* the automaton a_
  color,      \* the heap h
  st_blue,    \* stack of the blue dfs, its front at the end
  st_red,     \* stack of the red dfs
  target,     \* the state the red dfs looks for
  pc,         \* "idle" between calls; in dfs_blue or dfs_red otherwise
  result      \* what check() last returned

vars == <<edges, color, st_blue, st_red, target, pc, result>>

Color == {"WHITE", "BLUE", "RED"}

is_white(s) == color[slot[s]] = "WHITE"

get_color(s) == color[slot[s]]

set_color(s, c) == color' = [color EXCEPT ![slot[s]] = c]

(* The constructor throws unless the automaton is Buchi, weak or has no    *)
(* acceptance set.                                                         *)
magic_search ==
  /\ edges \in Automata
  /\ is_weak(edges) \/ Mark = {} \/ is_buchi

Init ==
  /\ magic_search
  /\ color = [x \in Slot |-> "WHITE"]
  /\ st_blue = << >>
  /\ st_red = << >>
  /\ target = s0        \* uninitialised in the code, read by no action before
  /\ pc = "idle"        \* dfs_blue sets it
  /\ result = "none"

-----------------------------------------------------------------------------
(* check()                                                                 *)

(* The first call.                                                         *)
Check ==
  /\ pc = "idle" /\ result = "none"
  /\ set_color(s0, "BLUE")
  /\ st_blue' = push(st_blue, edges, s0, FALSE, {})
  /\ pc' = "blue"
  /\ UNCHANGED <<edges, st_red, target, result>>

(* Mutant: the state that closed the last cycle stays.                     *)
CheckAgain_NoPop ==
  /\ pc = "idle" /\ result = "run"
  /\ pc' = IF target = Last(st_red).s THEN "idle" ELSE "red"
  /\ UNCHANGED <<edges, color, st_blue, st_red, target, result>>

(* A later call drops the state that closed the last cycle and resumes the *)
(* red dfs, whose entry test may succeed at once, or else the blue one.    *)
CheckAgain ==
  /\ pc = "idle" /\ result = "run"
  /\ st_red' = pop(st_red)
  /\ pc' = IF st_red' = << >> THEN "blue"
           ELSE IF target = Last(st_red').s THEN "idle" ELSE "red"
  /\ UNCHANGED <<edges, color, st_blue, target, result>>

-----------------------------------------------------------------------------
(* dfs_blue()                                                              *)

BlueEdge(e) == pc = "blue" /\ IsOn(st_blue, e)

BlueSkip(e) ==
  /\ BlueEdge(e) /\ ~e.cond
  /\ st_blue' = next(st_blue, e)
  /\ UNCHANGED <<edges, color, st_red, target, pc, result>>

BlueDown(e) ==
  /\ BlueEdge(e) /\ e.cond /\ is_white(e.dst)
  /\ set_color(e.dst, "BLUE")
  /\ st_blue' = push(next(st_blue, e), edges, e.dst, e.cond, e.acc)
  /\ UNCHANGED <<edges, st_red, target, pc, result>>

(* Mutant: the target of the previous red dfs is kept.                     *)
StartRed_StaleTarget(t, s, label, acc) ==
  /\ set_color(s, "RED")
  /\ st_red' = push(st_red, edges, s, label, acc)
  /\ IF target = s THEN pc' = "idle" /\ result' = "run"
                   ELSE pc' = "red" /\ UNCHANGED result
  /\ UNCHANGED target

(* Start a red dfs on s, reached from t, and test whether it is the target.*)
StartRed(t, s, label, acc) ==
  /\ target' = t
  /\ set_color(s, "RED")
  /\ st_red' = push(st_red, edges, s, label, acc)
  /\ IF target' = s THEN pc' = "idle" /\ result' = "run"
                    ELSE pc' = "red" /\ UNCHANGED result

BlueStartRed(e) ==
  /\ BlueEdge(e) /\ e.cond
  /\ ~is_white(e.dst) /\ accepting(e.acc) /\ get_color(e.dst) # "RED"
  /\ st_blue' = next(st_blue, e)
  /\ StartRed(Last(st_blue).s, e.dst, e.cond, e.acc)
  /\ UNCHANGED edges

BlueIgnore(e) ==
  /\ BlueEdge(e) /\ e.cond
  /\ ~is_white(e.dst) /\ ~(accepting(e.acc) /\ get_color(e.dst) # "RED")
  /\ st_blue' = next(st_blue, e)
  /\ UNCHANGED <<edges, color, st_red, target, pc, result>>

(* Mutant: a state is left before all its edges were seen.                 *)
BlueDoneWith_Early == pc = "blue" /\ st_blue # << >>

(* The front of the blue stack has no edge left.                           *)
BlueDoneWith == pc = "blue" /\ Done(st_blue)

(* Mutant: the edges out of the initial state are forgotten.               *)
Backtracked_OffByOne(f) ==
  /\ Len(st_blue) > 2
  /\ accepting(f.acc) /\ get_color(f.s) # "RED"

(* The edge into the popped state deserves a red dfs of its own.           *)
Backtracked(f) ==
  /\ Len(st_blue) > 1
  /\ accepting(f.acc) /\ get_color(f.s) # "RED"

BlueBackStartRed ==
  /\ BlueDoneWith /\ Backtracked(Last(st_blue))
  /\ st_blue' = pop(st_blue)
  /\ LET f == Last(st_blue) IN StartRed(Last(st_blue').s, f.s, f.label, f.acc)
  /\ UNCHANGED edges

BlueBackPop ==
  /\ BlueDoneWith /\ ~Backtracked(Last(st_blue))
  /\ st_blue' = pop(st_blue)
  /\ UNCHANGED <<edges, color, st_red, target, pc, result>>

(* dfs_blue() returns false, and check() a null pointer.                   *)
BlueReturn ==
  /\ pc = "blue" /\ st_blue = << >>
  /\ pc' = "idle" /\ result' = "null"
  /\ UNCHANGED <<edges, color, st_blue, st_red, target>>

-----------------------------------------------------------------------------
(* dfs_red()                                                               *)

RedEdge(e) == pc = "red" /\ IsOn(st_red, e)

RedSkip(e) ==
  /\ RedEdge(e) /\ ~e.cond
  /\ st_red' = next(st_red, e)
  /\ UNCHANGED <<edges, color, st_blue, target, pc, result>>

(* White: not visited.                                                     *)
RedWhite(e) ==
  /\ RedEdge(e) /\ e.cond /\ is_white(e.dst)
  /\ st_red' = next(st_red, e)
  /\ UNCHANGED <<edges, color, st_blue, target, pc, result>>

RedDown(e) ==
  /\ RedEdge(e) /\ e.cond /\ get_color(e.dst) = "BLUE"
  /\ set_color(e.dst, "RED")
  /\ st_red' = push(next(st_red, e), edges, e.dst, e.cond, e.acc)
  /\ IF target = e.dst THEN pc' = "idle" /\ result' = "run"
                       ELSE UNCHANGED <<pc, result>>
  /\ UNCHANGED <<edges, st_blue, target>>

RedIgnore(e) ==
  /\ RedEdge(e) /\ e.cond /\ get_color(e.dst) = "RED"
  /\ st_red' = next(st_red, e)
  /\ UNCHANGED <<edges, color, st_blue, target, pc, result>>

RedPop ==
  /\ pc = "red" /\ Done(st_red)
  /\ st_red' = pop(st_red)
  /\ UNCHANGED <<edges, color, st_blue, target, pc, result>>

(* dfs_red() returns false, and its caller goes on with the blue dfs.      *)
RedReturn ==
  /\ pc = "red" /\ st_red = << >>
  /\ pc' = "blue"
  /\ UNCHANGED <<edges, color, st_blue, st_red, target, result>>

-----------------------------------------------------------------------------
dfs_blue ==
  \/ \E e \in edges : BlueSkip(e)
  \/ \E e \in edges : BlueDown(e)
  \/ \E e \in edges : BlueStartRed(e)
  \/ \E e \in edges : BlueIgnore(e)
  \/ BlueBackStartRed
  \/ BlueBackPop
  \/ BlueReturn

dfs_red ==
  \/ \E e \in edges : RedSkip(e)
  \/ \E e \in edges : RedWhite(e)
  \/ \E e \in edges : RedDown(e)
  \/ \E e \in edges : RedIgnore(e)
  \/ RedPop
  \/ RedReturn

(* The caller got a null pointer: it calls no more.                        *)
Finished == pc = "idle" /\ result = "null" /\ UNCHANGED vars

Next == Check \/ CheckAgain \/ dfs_blue \/ dfs_red \/ Finished

Spec == Init /\ [][Next]_vars

(* A caller that calls check() until it returns a null pointer, as         *)
(* tests/core/emptchk.cc does with the option "repeated".                  *)
FairSpec == Spec /\ WF_vars(Next)

-----------------------------------------------------------------------------
(* The type of the search object: push() pairs every state on a stack with *)
(* an iterator over its own successors.                                    *)
TypeOK ==
  /\ edges \subseteq Edge
  /\ color \in [Slot -> Color]
  /\ st_blue \in Seq(Item) /\ Iterators(edges, st_blue)
  /\ st_red \in Seq(Item) /\ Iterators(edges, st_red)
  /\ target \in State
  /\ pc \in {"idle", "blue", "red"}
  /\ result \in {"none", "run", "null"}

(* result_from_stack::accepting_run(): the prefix is st_blue and the cycle *)
(* goes from its front through st_red back to that front.                  *)
RunOnStacks ==
  /\ st_blue # << >> /\ st_red # << >>
  /\ st_blue[1].s = s0 /\ Linked(edges, st_blue)
  /\ Linked(edges, <<Last(st_blue)>> \o st_red)
  /\ Last(st_red).s = Last(st_blue).s
  /\ accepting(UNION {st_red[i].acc : i \in DOMAIN st_red})

(* Whenever check() has returned a result, whether the first or a later    *)
(* one, the stacks hold an accepting lasso of the automaton: the asserts   *)
(* of accepting_run() hold and every step it copies is an edge that is not *)
(* labelled by false.  This is so even when hashes collide.                *)
RunIsAccepting == pc = "idle" /\ result = "run" => RunOnStacks

(* The promise of emptiness_check: with one heap entry per state the first *)
(* answer is right, and a null answer is final.                            *)
EC == INSTANCE EmptinessCheck WITH answer <- result

ImplementsEmptinessCheck == EC!Spec

(* "check() can be called several times (until it returns a null pointer)  *)
(* [...]  The method visits only a finite set of accepting paths": such a  *)
(* caller always gets its null pointer.                                    *)
EnumerationEnds == <>(result = "null")

(* The red dfs is about to look at a white state.                          *)
RedSeesWhite == \E e \in edges : RedEdge(e) /\ e.cond /\ is_white(e.dst)

(* "If the red dfs find a white here, it must have crossed the blue stack  *)
(* and the target must be reached soon": in the first call of an explicit  *)
(* search it is, so that ignoring white states in dfs_red() is harmless.   *)
WhiteLeadsToRun == (RedSeesWhite /\ result = "none") ~> (result = "run")
=============================================================================
