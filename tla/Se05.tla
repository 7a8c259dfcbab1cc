-------------------------------- MODULE Se05 --------------------------------
(***************************************************************************)
(* The nested depth-first search of spot/twaalgos/se05.cc, one action per  *)
(* path through the body of the loops of dfs_blue() and dfs_red().  It     *)
(* differs from the one of magic.cc in the colour CYAN of the states on    *)
(* the blue stack: to meet one is enough to report a cycle.                *)
(*                                                                         *)
(* Cyan states are kept apart, by both heaps, in a set of states hc.  The  *)
(* other colours are those of color[slot[s]]: with an injective slot this  *)
(* is explicit_se05_search_heap, and otherwise bsh_se05_search_heap, where *)
(* states whose hashes collide share a colour unless they are cyan.        *)
(***************************************************************************)
EXTENDS NdfsStack

CONSTANTS
  Automata,   \* the automata the check may be built for
  Slot,       \* the entries of the heap
  slot        \* the entry of each state

VARIABLES
  edges,      \* the automaton a_
  hc, color,  \* the heap h
  st_blue,    \* stack of the blue dfs
  st_red,     \* stack of the red dfs
  pc,         \* "idle" between calls; in dfs_blue or dfs_red otherwise
  result      \* what check() last returned

vars == <<edges, hc, color, st_blue, st_red, pc, result>>

(* heap::Safe                                                              *)
Safe == \A s, t \in State : slot[s] = slot[t] => s = t

get_color(s) == IF s \in hc THEN "CYAN" ELSE color[slot[s]]

is_white(s) == get_color(s) = "WHITE"

(* Mutant: a cyan state stays in hc.                                       *)
set_color_Kept(s, c) ==
  /\ color' = [color EXCEPT ![slot[s]] = c]
  /\ UNCHANGED hc

(* c is not CYAN.                                                          *)
set_color(s, c) ==
  /\ hc' = hc \ {s}
  /\ color' = [color EXCEPT ![slot[s]] = c]

(* add_new_state(s, CYAN)                                                  *)
add_new_state(s) == hc' = hc \cup {s} /\ UNCHANGED color

(* The constructor throws unless the automaton is Buchi, weak or has no    *)
(* acceptance set.                                                         *)
se05_search ==
  /\ edges \in Automata
  /\ is_weak(edges) \/ Mark = {} \/ is_buchi

Init ==
  /\ se05_search
  /\ hc = {} /\ color = [x \in Slot |-> "WHITE"]
  /\ st_blue = << >> /\ st_red = << >>
  /\ pc = "idle" /\ result = "none"

-----------------------------------------------------------------------------
(* check()                                                                 *)

Check ==
  /\ pc = "idle" /\ result = "none"
  /\ add_new_state(s0)
  /\ st_blue' = push(st_blue, edges, s0, FALSE, {})
  /\ pc' = "blue"
  /\ UNCHANGED <<edges, st_red, result>>

(* A later call drops the state that closed the last cycle and resumes the *)
(* red dfs, or else the blue one.                                          *)
CheckAgain ==
  /\ pc = "idle" /\ result = "run"
  /\ st_red' = pop(st_red)
  /\ pc' = IF st_red' = << >> THEN "blue" ELSE "red"
  /\ UNCHANGED <<edges, hc, color, st_blue, result>>

Return(r) == pc' = "idle" /\ result' = r

-----------------------------------------------------------------------------
(* dfs_blue()                                                              *)

BlueEdge(e) == pc = "blue" /\ IsOn(st_blue, e)

BlueSkip(e) ==
  /\ BlueEdge(e) /\ ~e.cond
  /\ st_blue' = next(st_blue, e)
  /\ UNCHANGED <<edges, hc, color, st_red, pc, result>>

BlueDown(e) ==
  /\ BlueEdge(e) /\ e.cond /\ is_white(e.dst)
  /\ add_new_state(e.dst)
  /\ st_blue' = push(next(st_blue, e), edges, e.dst, e.cond, e.acc)
  /\ UNCHANGED <<edges, st_red, pc, result>>

(* Mutant: the edge into the front is taken for one of the cycle even if   *)
(* the cycle is a loop on the front.                                       *)
Closes_Loop(f, e) ==
  get_color(e.dst) = "CYAN" /\ (accepting(e.acc) \/ accepting(f.acc))

(* The cycle that e closes on the blue stack, of which f is the front, has *)
(* an accepting edge: e or the one into f.                                 *)
Closes(f, e) ==
  /\ get_color(e.dst) = "CYAN"
  /\ accepting(e.acc) \/ (f.s # e.dst /\ accepting(f.acc))

BlueReport(e) ==
  /\ BlueEdge(e) /\ e.cond /\ Closes(Last(st_blue), e)
  /\ st_blue' = next(st_blue, e)
  /\ set_color(e.dst, "RED")
  /\ st_red' = push(st_red, edges, e.dst, e.cond, e.acc)
  /\ Return("run")
  /\ UNCHANGED edges

(* An accepting edge into s, of this label and acc, deserves a red dfs.    *)
Starts(s, acc) == accepting(acc) /\ get_color(s) # "RED"

StartRed(s, label, acc) ==
  /\ set_color(s, "RED")
  /\ st_red' = push(st_red, edges, s, label, acc)
  /\ pc' = "red"
  /\ UNCHANGED <<edges, result>>

BlueStartRed(e) ==
  /\ BlueEdge(e) /\ e.cond /\ ~is_white(e.dst) /\ ~Closes(Last(st_blue), e)
  /\ Starts(e.dst, e.acc)
  /\ st_blue' = next(st_blue, e)
  /\ StartRed(e.dst, e.cond, e.acc)

BlueIgnore(e) ==
  /\ BlueEdge(e) /\ e.cond /\ ~is_white(e.dst) /\ ~Closes(Last(st_blue), e)
  /\ ~Starts(e.dst, e.acc)
  /\ st_blue' = next(st_blue, e)
  /\ UNCHANGED <<edges, hc, color, st_red, pc, result>>

(* Backtrack the edge into the front of the blue stack.                    *)
BlueBackStartRed ==
  /\ pc = "blue" /\ Done(st_blue) /\ Len(st_blue) > 1
  /\ LET f == Last(st_blue) IN Starts(f.s, f.acc) /\ StartRed(f.s, f.label, f.acc)
  /\ st_blue' = pop(st_blue)

BlueBackPop ==
  /\ pc = "blue" /\ Done(st_blue)
  /\ ~(Len(st_blue) > 1 /\ Starts(Last(st_blue).s, Last(st_blue).acc))
  /\ set_color(Last(st_blue).s, "BLUE")
  /\ st_blue' = pop(st_blue)
  /\ UNCHANGED <<edges, st_red, pc, result>>

BlueReturn ==
  /\ pc = "blue" /\ st_blue = << >>
  /\ Return("null")
  /\ UNCHANGED <<edges, hc, color, st_blue, st_red>>

-----------------------------------------------------------------------------
(* dfs_red()                                                               *)

RedEdge(e) == pc = "red" /\ IsOn(st_red, e)

(* Labelled by false, white (due to collision) or red.                     *)
RedIgnore(e) ==
  /\ RedEdge(e) /\ (~e.cond \/ get_color(e.dst) \in {"WHITE", "RED"})
  /\ st_red' = next(st_red, e)
  /\ UNCHANGED <<edges, hc, color, st_blue, pc, result>>

RedReport(e) ==
  /\ RedEdge(e) /\ e.cond /\ get_color(e.dst) = "CYAN"
  /\ set_color(e.dst, "RED")
  /\ st_red' = push(next(st_red, e), edges, e.dst, e.cond, e.acc)
  /\ Return("run")
  /\ UNCHANGED <<edges, st_blue>>

RedDown(e) ==
  /\ RedEdge(e) /\ e.cond /\ get_color(e.dst) = "BLUE"
  /\ set_color(e.dst, "RED")
  /\ st_red' = push(next(st_red, e), edges, e.dst, e.cond, e.acc)
  /\ UNCHANGED <<edges, st_blue, pc, result>>

RedPop ==
  /\ pc = "red" /\ Done(st_red)
  /\ st_red' = pop(st_red)
  /\ UNCHANGED <<edges, hc, color, st_blue, pc, result>>

RedReturn ==
  /\ pc = "red" /\ st_red = << >>
  /\ pc' = "blue"
  /\ UNCHANGED <<edges, hc, color, st_blue, st_red, result>>

-----------------------------------------------------------------------------
dfs_blue ==
  \/ \E e \in edges :
       BlueSkip(e) \/ BlueDown(e) \/ BlueReport(e) \/ BlueStartRed(e) \/ BlueIgnore(e)
  \/ BlueBackStartRed
  \/ BlueBackPop
  \/ BlueReturn

dfs_red ==
  \/ \E e \in edges : RedIgnore(e) \/ RedReport(e) \/ RedDown(e)
  \/ RedPop
  \/ RedReturn

(* The caller got a null pointer: it calls no more.                        *)
Finished == pc = "idle" /\ result = "null" /\ UNCHANGED vars

Next == Check \/ CheckAgain \/ dfs_blue \/ dfs_red \/ Finished

-----------------------------------------------------------------------------
(* result_from_stack::accepting_run(): the blue stack leads to its front,  *)
(* from where the red stack leads back to a state of the blue one; the     *)
(* cycle goes through that state.                                          *)
RunOnStacks ==
  /\ st_blue # << >> /\ st_red # << >>
  /\ st_blue[1].s = s0 /\ Linked(edges, st_blue)
  /\ Linked(edges, <<Last(st_blue)>> \o st_red)
  /\ LET k == SelectInSeq(st_blue, LAMBDA i : i.s = Last(st_red).s)
     IN /\ k > 0
        /\ accepting((UNION {st_blue[i].acc : i \in k + 1 .. Len(st_blue)})
                       \cup (UNION {st_red[i].acc : i \in DOMAIN st_red}))

(* After every call of check() that returned a result the stacks hold an   *)
(* accepting lasso, even when hashes collide.                              *)
RunIsAccepting == pc = "idle" /\ result = "run" => RunOnStacks

(* "to reach a white state, the red dfs must have crossed a cyan one": in  *)
(* an explicit search the red dfs never comes to a white state, whether in *)
(* the first call of check() or in a later one.                            *)
RedNeverSeesWhite ==
  Safe /\ pc = "red" => \A e \in Live(edges) : IsOn(st_red, e) => ~is_white(e.dst)

(* What keeps the red dfs from a false alarm: a state is cyan only while   *)
(* it is on the blue stack.                                                *)
CyanIsOnBlueStack == hc \subseteq {st_blue[i].s : i \in DOMAIN st_blue}
=============================================================================
