--------------------------- MODULE EcInstantiator ---------------------------
(***************************************************************************)
(* The emptiness checks that emptiness_check_instantiator of               *)
(* spot/twaalgos/emptiness.cc builds by name, side by side: one of them is *)
(* instantiated for an automaton and a condition it supports, and then     *)
(* called until it returns a null pointer.  The variables are those of all *)
(* the algorithms; the ones that algo does not use never change.           *)
(***************************************************************************)
EXTENDS Naturals, FiniteSets, Sequences

CONSTANTS
  State, s0,    \* as in Twa
  Mark,         \* the acceptance sets of a generalized automaton
  mark,         \* the only one of the other automata
  sets,         \* the marks of Mark in the order of their numbers
  Slot, slot,   \* the heap of the bit-state searches
  Algos,        \* the algorithms, with a condition, that may be chosen
  Single,       \* automata with Inf(0) or no mark
  Weak,         \* automata with Fin(0)
  Generalized,  \* automata with several marks
  Sat           \* their acceptance condition

VARIABLES
  algo,
  edges, pc, result, st_blue, st_red,                  \* of every search
  color, hc, target,                                   \* CVWY90, SE05
  h, stack, dftop, violation, prefix, cycle,           \* GV04
  marks, succ, acu,                                    \* Tau03, Tau03_opt
  opt, weights, current_weight, depth, condition_stack

gv04_vars == <<h, stack, dftop, violation, prefix, cycle>>
opt_vars == <<opt, weights, current_weight, depth, condition_stack>>
vars == <<algo, edges, pc, result, st_blue, st_red, color, hc, target, gv04_vars,
          marks, succ, acu, opt_vars>>

Inf0 == {{mark}}
Fin0 == {{}}

(* ec_algos: the number of acceptance sets each algorithm supports.        *)
ec_algos ==
  [CVWY90 |-> 0..1, GV04 |-> 0..1, SE05 |-> 0..1,
   Tau03 |-> {n \in Nat : n >= 1}, Tau03_opt |-> Nat]

CVWY90bsh == INSTANCE MagicSearch WITH Automata <- Single, Mark <- {mark}, Sat <- Inf0
CVWY90weak == INSTANCE MagicSearch
  WITH Automata <- Weak, Mark <- {mark}, Sat <- Fin0, Slot <- State, slot <- [s \in State |-> s]

SE05 == INSTANCE Se05
  WITH Automata <- Single, Mark <- {mark}, Sat <- Inf0, Slot <- State, slot <- [s \in State |-> s]
SE05bsh == INSTANCE Se05 WITH Automata <- Single, Mark <- {mark}, Sat <- Inf0
SE05weak == INSTANCE Se05
  WITH Automata <- Weak, Mark <- {mark}, Sat <- Fin0, Slot <- State, slot <- [s \in State |-> s]

GV04 == INSTANCE Gv04 WITH Automata <- Single, Mark <- {mark}, Sat <- Inf0
GV04weak == INSTANCE Gv04 WITH Automata <- Weak, Mark <- {mark}, Sat <- Fin0

Tau03 == INSTANCE Tau03 WITH Automata <- Generalized
Tau03_opt == INSTANCE Tau03Opt WITH Automata <- Generalized

(* mark is one of the marks of the generalized automata: marks are numbers *)
(* from 0.                                                                 *)
ASSUME EcAssumption ==
  /\ s0 \in State /\ slot \in [State -> Slot]
  /\ IsFiniteSet(Mark) /\ mark \in Mark /\ Sat \subseteq SUBSET Mark
  /\ Single \cup Weak \subseteq SUBSET SE05!Edge
  /\ Generalized \subseteq SUBSET Tau03!Edge

(* Which names may be instantiated, for which number of sets.              *)
instantiate(name, n) == algo \in Algos /\ n \in ec_algos[name]

(* The part of the state each kind of algorithm leaves alone.              *)
no_gv04 == h = << >> /\ stack = << >> /\ dftop = 0 /\ violation = FALSE /\ prefix = << >> /\ cycle = << >>
no_opt == opt = << >> /\ weights = << >> /\ current_weight = << >> /\ depth = 0 /\ condition_stack = << >>
no_marks == marks = << >> /\ succ = {} /\ acu = {}
no_search == st_blue = << >> /\ st_red = << >> /\ color = << >>

Init ==
  \/ /\ instantiate("CVWY90", 1) /\ hc = {} /\ no_gv04 /\ no_marks /\ no_opt
     /\ \/ algo = "CVWY90 bsh" /\ CVWY90bsh!Init
        \/ algo = "CVWY90 weak" /\ CVWY90weak!Init
  \/ /\ instantiate("SE05", 1) /\ target = s0 /\ no_gv04 /\ no_marks /\ no_opt
     /\ \/ algo = "SE05" /\ SE05!Init
        \/ algo = "SE05 bsh" /\ SE05bsh!Init
        \/ algo = "SE05 weak" /\ SE05weak!Init
  \/ /\ instantiate("GV04", 1) /\ hc = {} /\ target = s0 /\ no_search /\ no_marks /\ no_opt
     /\ \/ algo = "GV04" /\ GV04!Init
        \/ algo = "GV04 weak" /\ GV04weak!Init
  \/ /\ instantiate("Tau03", Cardinality(Mark)) /\ hc = {} /\ target = s0 /\ no_gv04 /\ no_opt
     /\ algo = "Tau03" /\ Tau03!Init
  \/ /\ instantiate("Tau03_opt", Cardinality(Mark)) /\ hc = {} /\ target = s0 /\ no_gv04 /\ succ = {}
     /\ algo = "Tau03_opt" /\ Tau03_opt!Init

(* One step of the algorithm that was instantiated.                        *)
magic_search ==
  /\ \/ algo = "CVWY90 bsh" /\ CVWY90bsh!Next
     \/ algo = "CVWY90 weak" /\ CVWY90weak!Next
  /\ UNCHANGED <<algo, hc, gv04_vars, marks, succ, acu, opt_vars>>

se05 ==
  /\ \/ algo = "SE05" /\ SE05!Next
     \/ algo = "SE05 bsh" /\ SE05bsh!Next
     \/ algo = "SE05 weak" /\ SE05weak!Next
  /\ UNCHANGED <<algo, target, gv04_vars, marks, succ, acu, opt_vars>>

explicit_gv04_check ==
  /\ \/ algo = "GV04" /\ GV04!Next
     \/ algo = "GV04 weak" /\ GV04weak!Next
  /\ UNCHANGED <<algo, st_blue, st_red, color, hc, target, marks, succ, acu, opt_vars>>

explicit_tau03_search ==
  /\ algo = "Tau03" /\ Tau03!Next
  /\ UNCHANGED <<algo, hc, target, gv04_vars, opt_vars>>

explicit_tau03_opt_search ==
  /\ algo = "Tau03_opt" /\ Tau03_opt!Next
  /\ UNCHANGED <<algo, hc, target, gv04_vars, succ>>

Next ==
  \/ magic_search
  \/ se05
  \/ explicit_gv04_check
  \/ explicit_tau03_search
  \/ explicit_tau03_opt_search

Spec == Init /\ [][Next]_vars

-----------------------------------------------------------------------------
(* The promise of emptiness.hh for the algorithms that are safe(), on the  *)
(* condition each of them is used with.                                    *)
Buchi == INSTANCE EmptinessCheck
  WITH Sat <- Inf0,
       answer <- IF algo \in {"SE05", "GV04"} THEN result ELSE "none"

CoBuchi == INSTANCE EmptinessCheck
  WITH Sat <- Fin0,
       answer <- IF algo \in {"CVWY90 weak", "SE05 weak", "GV04 weak"} THEN result ELSE "none"

Gen == INSTANCE EmptinessCheck
  WITH answer <- IF algo \in {"Tau03", "Tau03_opt"} THEN result ELSE "none"

(* The first answer is right, and a null answer is final: for Inf(0), for  *)
(* Fin(0) on weak automata, and for several acceptance sets (on automata   *)
(* without edges labelled by false for Tau03_opt, which follows them).     *)
FirstAnswersAreRight == Buchi!Spec /\ CoBuchi!Spec /\ Gen!Spec

(* The first answer of Tau03_opt, for any condition its constructor        *)
(* accepts ("tau03opt requires Fin-less acceptance"): "Return 0 if the     *)
(* automaton accepts no run", and a result otherwise.                      *)
Tau03OptIsRight ==
  algo = "Tau03_opt" /\ pc = "idle" /\ result # "none" /\ st_blue = << >> => ~Gen!NonEmpty(edges)

(* What stands behind each result, of the first call and of later ones, is *)
(* an accepting run: the lasso on the stacks of CVWY90 and SE05, bit-state *)
(* or not, which result_from_stack reads; the run that accepting_run() of  *)
(* GV04 searches for, whose "assert(bfs_start)" holds; and an accepting    *)
(* cycle through the state on which Tau03 or Tau03_opt stopped, from which *)
(* ndfs_result builds its run.                                             *)
ReportsAreRight ==
  CASE algo = "CVWY90 bsh" -> CVWY90bsh!RunIsAccepting
    [] algo = "CVWY90 weak" -> CVWY90weak!RunIsAccepting
    [] algo = "SE05" -> SE05!RunIsAccepting
    [] algo = "SE05 bsh" -> SE05bsh!RunIsAccepting
    [] algo = "SE05 weak" -> SE05weak!RunIsAccepting
    [] algo = "GV04" -> GV04!RunIsAccepting /\ GV04!FirstBfsSucceeds
    [] algo = "GV04 weak" -> GV04weak!RunIsAccepting
    [] algo = "Tau03" -> Tau03!FrontIsOnCycle
    [] algo = "Tau03_opt" -> Tau03_opt!ReportIsOnCycle

(* Every entry of the stack of GV04 reaches the one its lowlink names, and *)
(* the index h keeps of a state that has left the stack is never used.     *)
LowlinksAreReached ==
  /\ algo = "GV04" => GV04!LowlinksAreReached
  /\ algo = "GV04 weak" => GV04weak!LowlinksAreReached

(* A state is cyan for SE05 only while it is on the blue stack, even when  *)
(* hashes collide: what keeps the red dfs from a false alarm.  And in      *)
(* every call of check() of an explicit search, "to reach a white state,   *)
(* the red dfs must have crossed a cyan one".                              *)
Se05ColorsAreRight ==
  /\ algo = "SE05" => SE05!CyanIsOnBlueStack /\ SE05!RedNeverSeesWhite
  /\ algo = "SE05 weak" => SE05weak!CyanIsOnBlueStack /\ SE05weak!RedNeverSeesWhite
  /\ algo = "SE05 bsh" => SE05bsh!CyanIsOnBlueStack

(* Between two propagations of Tau03, what has left the blue stack has     *)
(* handed its marks and those of its edges on to all its successors.       *)
PropagationIsComplete == algo = "Tau03" => Tau03!PropagationIsComplete

(* In dfs_red() of Tau03_opt the condition stack mirrors the red one, so   *)
(* that it ends with depth 0 and an empty condition stack as it asserts;   *)
(* the precondition of weight::diff() holds for each state of the blue     *)
(* stack, and diff() returns the marks seen above that state.              *)
BookkeepingIsRight ==
  algo = "Tau03_opt" => Tau03_opt!ConditionStackMatches /\ Tau03_opt!DiffIsOfBlueStack
=============================================================================
