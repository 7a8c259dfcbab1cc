------------------------------ MODULE Tau03Opt ------------------------------
(***************************************************************************)
(* The nested depth-first search of spot/twaalgos/tau03opt.cc: the marks   *)
(* of tau03.cc, the cyan states of se05.cc, and for each cyan state the    *)
(* number of times each mark was seen on the blue stack before it.  No     *)
(* label is compared with bddfalse: every edge is followed.                *)
(***************************************************************************)
EXTENDS NdfsStack

CONSTANTS
  Automata,   \* the automata the check may be built for
  sets        \* the marks in the order of their numbers

VARIABLES
  edges,      \* the automaton a_
  opt,        \* the options
  color, marks, weights,    \* the heap h: colour, acc and weight of each state
  current_weight,           \* weight of the front of the blue stack
  st_blue,    \* stack of the blue dfs
  st_red,     \* stack of the red dfs
  acu, depth, condition_stack,   \* the argument and variables of dfs_red()
  pc,         \* "blue" or "red" in check(), "idle" outside
  result      \* what check() last returned

heap == <<color, marks, weights>>
red_vars == <<acu, depth, condition_stack>>
vars == <<edges, opt, heap, current_weight, st_blue, st_red, red_vars, pc, result>>

(* ordering is "effective only if using the condition stack", and          *)
(* redweights only if using weights.                                       *)
Option == {o \in [condstack : BOOLEAN, ordering : BOOLEAN,
                  weights : BOOLEAN, redweights : BOOLEAN] :
             (o.ordering => o.condstack) /\ (o.redweights => o.weights)}

(* acc_cond::uses_fin_acceptance(): without it, more marks do not hurt.    *)
uses_fin_acceptance == \E m \in Sat, n \in SUBSET Mark : m \subseteq n /\ n \notin Sat

(* The constructor throws if the condition uses Fin.                       *)
tau03_opt_search ==
  /\ edges \in Automata /\ opt \in Option
  /\ ~uses_fin_acceptance

Init ==
  /\ tau03_opt_search
  /\ color = [s \in State |-> "WHITE"] /\ marks = [s \in State |-> {}]
  /\ weights = [s \in State |-> [m \in Mark |-> 0]]
  /\ current_weight = [m \in Mark |-> 0]
  /\ st_blue = << >> /\ st_red = << >>
  /\ acu = {} /\ depth = 0 /\ condition_stack = << >>
  /\ pc = "idle" /\ result = "none"

-----------------------------------------------------------------------------
(* weight::add(), sub() and diff()                                         *)
add(w, a) == [m \in Mark |-> IF m \in a THEN w[m] + 1 ELSE w[m]]

sub(w, a) == [m \in Mark |-> IF m \in a /\ w[m] > 0 THEN w[m] - 1 ELSE w[m]]

(* Mutant: a mark seen at s counts too.                                    *)
diff_Weak(w, v) == {m \in Mark : w[m] >= v[m]}

diff(w, v) == {m \in Mark : w[m] > v[m]}

(* With ordering, only the marks before the first missing one.             *)
project_acc(a) ==
  IF opt.ordering
  THEN {sets[n] : n \in {k \in DOMAIN sets : \A j \in 1 .. k : sets[j] \in a}}
  ELSE a

(* heap::add_new_state(s, CYAN, w)                                         *)
add_new_state(s, w) ==
  /\ color' = [color EXCEPT ![s] = "CYAN"]
  /\ weights' = [weights EXCEPT ![s] = w]
  /\ UNCHANGED marks

cumulate_acc(s, a) == marks' = [marks EXCEPT ![s] = @ \cup a]

Check ==
  /\ pc = "idle" /\ st_blue = << >> /\ result = "none"
  /\ add_new_state(s0, current_weight)
  /\ st_blue' = push(st_blue, edges, s0, FALSE, {})
  /\ pc' = "blue"
  /\ UNCHANGED <<edges, opt, current_weight, st_red, red_vars, result>>

(* A call after a result finds the blue stack as it was left.              *)
CheckAgain ==
  /\ pc = "idle" /\ st_blue # << >> /\ result = "run"
  /\ result' = "null"
  /\ UNCHANGED <<edges, opt, heap, current_weight, st_blue, st_red, red_vars, pc>>

Report(e) ==
  /\ cumulate_acc(e.dst, Mark)
  /\ pc' = "idle" /\ result' = "run"
  /\ UNCHANGED <<edges, opt, color, weights, current_weight>>

-----------------------------------------------------------------------------
(* dfs_blue()                                                              *)

BlueEdge(e) == pc = "blue" /\ IsOn(st_blue, e)

BlueDown(e) ==
  /\ BlueEdge(e) /\ color[e.dst] = "WHITE"
  /\ current_weight' =
       IF opt.weights THEN add(current_weight, e.acc) ELSE current_weight
  /\ add_new_state(e.dst, current_weight')
  /\ st_blue' = push(next(st_blue, e), edges, e.dst, e.cond, e.acc)
  /\ UNCHANGED <<edges, opt, st_red, red_vars, pc, result>>

(* The cycle that e closes on the blue stack is accepting.                 *)
BlueCloses(e) ==
  /\ color[e.dst] = "CYAN"
  /\ accepting(diff(current_weight, weights[e.dst])
                 \cup marks[e.src] \cup e.acc \cup marks[e.dst])

BlueReport(e) ==
  /\ BlueEdge(e) /\ BlueCloses(e)
  /\ Report(e)
  /\ st_blue' = next(st_blue, e)
  /\ st_red' = push(st_red, edges, e.dst, e.cond, e.acc)
  /\ UNCHANGED red_vars

(* The marks a on an edge into s must be propagated from s.                *)
Needed(s, a) == ~(project_acc(a) \subseteq marks[s])

StartRed(s, label, acc, a) ==
  /\ cumulate_acc(s, project_acc(a))
  /\ st_red' = push(st_red, edges, s, label, acc)
  /\ acu' = a /\ depth' = 1 /\ condition_stack' = <<[acc |-> {}, level |-> 0]>>
  /\ pc' = "red"
  /\ UNCHANGED <<edges, opt, weights, result>>

BlueStartRed(e) ==
  /\ BlueEdge(e) /\ color[e.dst] # "WHITE" /\ ~BlueCloses(e)
  /\ Needed(e.dst, e.acc \cup marks[e.src])
  /\ st_blue' = next(st_blue, e)
  /\ StartRed(e.dst, e.cond, e.acc, e.acc \cup marks[e.src])
  /\ UNCHANGED <<color, current_weight>>

BlueIgnore(e) ==
  /\ BlueEdge(e) /\ color[e.dst] # "WHITE" /\ ~BlueCloses(e)
  /\ ~Needed(e.dst, e.acc \cup marks[e.src])
  /\ st_blue' = next(st_blue, e)
  /\ UNCHANGED <<edges, opt, heap, current_weight, st_red, red_vars, pc, result>>

(* Backtrack the edge into the front of the blue stack.                    *)
BluePop ==
  /\ pc = "blue" /\ Done(st_blue)
  /\ st_blue' = pop(st_blue)
  /\ color' = [color EXCEPT ![Last(st_blue).s] = "BLUE"]
  /\ current_weight' =
       IF opt.weights THEN sub(current_weight, Last(st_blue).acc) ELSE current_weight

(* What the edge that is backtracked propagates.                           *)
Backed == Last(st_blue).acc \cup marks[st_blue[Len(st_blue) - 1].s]

BlueBackStartRed ==
  /\ BluePop
  /\ Len(st_blue) > 1 /\ Needed(Last(st_blue).s, Backed)
  /\ LET f == Last(st_blue) IN StartRed(f.s, f.label, f.acc, Backed)

BlueBackPop ==
  /\ BluePop
  /\ ~(Len(st_blue) > 1 /\ Needed(Last(st_blue).s, Backed))
  /\ UNCHANGED <<edges, opt, marks, weights, st_red, red_vars, pc, result>>

BlueReturn ==
  /\ pc = "blue" /\ st_blue = << >>
  /\ pc' = "idle" /\ result' = "null"
  /\ UNCHANGED <<edges, opt, heap, current_weight, st_blue, st_red, red_vars>>

-----------------------------------------------------------------------------
(* dfs_red()                                                               *)

RedEdge(e) == pc = "red" /\ IsOn(st_red, e)

RedSkip(e) ==
  /\ RedEdge(e) /\ color[e.dst] = "WHITE"
  /\ st_red' = next(st_red, e)
  /\ UNCHANGED <<edges, opt, heap, current_weight, st_blue, red_vars, pc, result>>

RedCloses(e) ==
  /\ color[e.dst] = "CYAN"
  /\ accepting(e.acc \cup acu \cup marks[e.dst]
                 \cup IF opt.redweights THEN diff(current_weight, weights[e.dst]) ELSE {})

RedReport(e) ==
  /\ RedEdge(e) /\ RedCloses(e)
  /\ Report(e)
  /\ st_red' = push(next(st_red, e), edges, e.dst, e.cond, e.acc)
  /\ UNCHANGED <<st_blue, red_vars>>

(* acp: what e propagates.                                                 *)
Propagated(e) ==
  IF opt.ordering THEN project_acc(acu \cup e.acc \cup marks[e.dst])
  ELSE IF opt.condstack THEN acu \cup e.acc
  ELSE acu

RedDown(e) ==
  /\ RedEdge(e) /\ color[e.dst] # "WHITE" /\ ~RedCloses(e)
  /\ ~(Propagated(e) \subseteq marks[e.dst])
  /\ cumulate_acc(e.dst, Propagated(e))
  /\ st_red' = push(next(st_red, e), edges, e.dst, e.cond, e.acc)
  /\ IF opt.condstack
     THEN /\ acu' = acu \cup e.acc
          /\ condition_stack' =
               Append(condition_stack, [acc |-> e.acc \ acu, level |-> depth])
     ELSE UNCHANGED <<acu, condition_stack>>
  /\ depth' = depth + 1
  /\ UNCHANGED <<edges, opt, color, weights, current_weight, st_blue, pc, result>>

RedIgnore(e) ==
  /\ RedEdge(e) /\ color[e.dst] # "WHITE" /\ ~RedCloses(e)
  /\ Propagated(e) \subseteq marks[e.dst]
  /\ st_red' = next(st_red, e)
  /\ UNCHANGED <<edges, opt, heap, current_weight, st_blue, red_vars, pc, result>>

(* The marks that the level depth' added are taken back.                   *)
Unstacked ==
  IF Last(condition_stack).level = depth'
  THEN /\ acu' = acu \ Last(condition_stack).acc
       /\ condition_stack' = Front(condition_stack)
  ELSE UNCHANGED <<acu, condition_stack>>

RedPop ==
  /\ pc = "red" /\ Done(st_red)
  /\ st_red' = pop(st_red)
  /\ depth' = depth - 1
  /\ Unstacked
  /\ UNCHANGED <<edges, opt, heap, current_weight, st_blue, pc, result>>

RedReturn ==
  /\ pc = "red" /\ st_red = << >>
  /\ pc' = "blue"
  /\ UNCHANGED <<edges, opt, heap, current_weight, st_blue, st_red, red_vars, result>>

-----------------------------------------------------------------------------
dfs_blue ==
  \/ \E e \in edges : BlueDown(e) \/ BlueReport(e) \/ BlueStartRed(e) \/ BlueIgnore(e)
  \/ BlueBackStartRed
  \/ BlueBackPop
  \/ BlueReturn

dfs_red ==
  \/ \E e \in edges : RedSkip(e) \/ RedReport(e) \/ RedDown(e) \/ RedIgnore(e)
  \/ RedPop
  \/ RedReturn

Finished == pc = "idle" /\ result = "null" /\ UNCHANGED vars

Next == Check \/ CheckAgain \/ dfs_blue \/ dfs_red \/ Finished

-----------------------------------------------------------------------------
(* The condition stack mirrors the red one: when dfs_red() ends,           *)
(* "depth == 0" and "condition_stack.empty()", and before, every mark acu  *)
(* has gained since the start is that of one level.                        *)
ConditionStackMatches ==
  pc = "red" =>
    /\ depth = Len(st_red)
    /\ Len(condition_stack) = IF opt.condstack \/ depth = 0 THEN depth ELSE 1
    /\ \A i, j \in DOMAIN condition_stack :
         i # j => condition_stack[i].acc \cap condition_stack[j].acc = {}
    /\ \A i \in DOMAIN condition_stack : condition_stack[i].acc \subseteq acu

(* "For each acceptance condition, its counter is greatest or equal to the *)
(* corresponding counter in w": the precondition of every call of diff().  *)
(* The marks it returns are then those of the blue stack above the state.  *)
DiffIsOfBlueStack ==
  opt.weights /\ pc # "idle" =>
    \A i \in DOMAIN st_blue :
      /\ \A m \in Mark : current_weight[m] >= weights[st_blue[i].s][m]
      /\ diff(current_weight, weights[st_blue[i].s])
           = UNION {st_blue[j].acc : j \in i + 1 .. Len(st_blue)}

(* The state on which the search stopped lies on an accepting cycle: the   *)
(* one from which ndfs_result can build an accepting run.                  *)
ReportIsOnCycle ==
  pc = "idle" /\ result = "run" =>
    \E E \in SUBSET edges :
      StronglyConnected(E) /\ Last(st_red).s \in Touched(E) /\ accepting(Marks(E))
=============================================================================
