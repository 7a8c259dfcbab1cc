------------------------ MODULE EcInstantiatorProofs ------------------------
(***************************************************************************)
(* The nested depth-first searches as emptiness_check_instantiator builds  *)
(* them, for every automaton and number of states: what the proofs about   *)
(* each algorithm show, carried over to the specification in which one of  *)
(* them is chosen by name.                                                 *)
(***************************************************************************)
EXTENDS EcInstantiator, FiniteSetTheorems, TLAPS

(* The proofs about each algorithm, for the constants it is used with.     *)
CVWY90bshP == INSTANCE MagicSearchProofs WITH Automata <- Single, Mark <- {mark}, Sat <- Inf0
CVWY90weakP == INSTANCE MagicSearchProofs
  WITH Automata <- Weak, Mark <- {mark}, Sat <- Fin0, Slot <- State, slot <- [s \in State |-> s]
SE05P == INSTANCE Se05Proofs
  WITH Automata <- Single, Mark <- {mark}, Sat <- Inf0, Slot <- State, slot <- [s \in State |-> s]
SE05bshP == INSTANCE Se05Proofs WITH Automata <- Single, Mark <- {mark}, Sat <- Inf0
SE05weakP == INSTANCE Se05Proofs
  WITH Automata <- Weak, Mark <- {mark}, Sat <- Fin0, Slot <- State, slot <- [s \in State |-> s]
Tau03P == INSTANCE Tau03Proofs WITH Automata <- Generalized

(* The algorithms the theorems below are about.                            *)
NestedSearches == {"CVWY90 bsh", "CVWY90 weak", "SE05", "SE05 bsh", "SE05 weak", "Tau03"}

(* The algorithm that was chosen keeps its own inductive invariant.        *)
Inv ==
  /\ algo \in Algos
  /\ algo = "CVWY90 bsh" => CVWY90bshP!Inv
  /\ algo = "CVWY90 weak" => CVWY90weakP!Inv
  /\ algo = "SE05" => SE05P!Inv
  /\ algo = "SE05 bsh" => SE05bshP!Inv
  /\ algo = "SE05 weak" => SE05weakP!Inv
  /\ algo = "Tau03" => Tau03P!Inv

-----------------------------------------------------------------------------
(* What the proofs about each algorithm assume of its constants.           *)
LEMMA Constants ==
  /\ s0 \in State /\ slot \in [State -> Slot] /\ [s \in State |-> s] \in [State -> State]
  /\ Sat \subseteq SUBSET Mark /\ Inf0 \subseteq SUBSET {mark} /\ Fin0 \subseteq SUBSET {mark}
  /\ Single \subseteq SUBSET CVWY90bshP!Edge /\ CVWY90bshP!IsFiniteSet({mark})
  /\ Weak \subseteq SUBSET CVWY90weakP!Edge /\ CVWY90weakP!IsFiniteSet({mark})
  /\ Single \subseteq SUBSET SE05P!Edge /\ SE05P!IsFiniteSet({mark})
  /\ Single \subseteq SUBSET SE05bshP!Edge /\ SE05bshP!IsFiniteSet({mark})
  /\ Weak \subseteq SUBSET SE05weakP!Edge /\ SE05weakP!IsFiniteSet({mark})
  /\ Generalized \subseteq SUBSET Tau03P!Edge
BY ZenonT(30), EcAssumption, FS_Singleton
   DEF Inf0, Fin0, SE05!Edge, Tau03!Edge, CVWY90bshP!Edge, CVWY90weakP!Edge, SE05P!Edge,
       SE05bshP!Edge, SE05weakP!Edge, Tau03P!Edge, IsFiniteSet, CVWY90bshP!IsFiniteSet,
       CVWY90weakP!IsFiniteSet, SE05P!IsFiniteSet, SE05bshP!IsFiniteSet, SE05weakP!IsFiniteSet

(* A magic search, instantiated as CVWY90 bsh.                             *)
LEMMA CVWY90bshFacts ==
  /\ CVWY90bsh!Init => CVWY90bshP!Inv
  /\ CVWY90bsh!Next => CVWY90bshP!Next
  /\ CVWY90bshP!Inv /\ ([CVWY90bshP!Next]_CVWY90bshP!vars) => CVWY90bshP!Inv'
  /\ CVWY90bshP!Inv => CVWY90bsh!RunIsAccepting
<1>1. CVWY90bsh!Init <=> CVWY90bshP!Init
  BY SMTT(30) DEF CVWY90bsh!Init, CVWY90bshP!Init, CVWY90bsh!magic_search, CVWY90bshP!magic_search,
         CVWY90bsh!is_weak, CVWY90bshP!is_weak, CVWY90bsh!is_buchi, CVWY90bshP!is_buchi,
         CVWY90bsh!Live, CVWY90bshP!Live, CVWY90bsh!Reach, CVWY90bshP!Reach, CVWY90bsh!Closed,
         CVWY90bshP!Closed, CVWY90bsh!Cardinality, CVWY90bshP!Cardinality
<1>2. CVWY90bsh!Next <=> CVWY90bshP!Next
  BY SMTT(30) DEF CVWY90bsh!Next, CVWY90bshP!Next, CVWY90bsh!vars, CVWY90bshP!vars,
         CVWY90bsh!Check,
         CVWY90bshP!Check, CVWY90bsh!CheckAgain, CVWY90bshP!CheckAgain, CVWY90bsh!dfs_blue,
         CVWY90bshP!dfs_blue, CVWY90bsh!dfs_red, CVWY90bshP!dfs_red, CVWY90bsh!Finished,
         CVWY90bshP!Finished, CVWY90bsh!BlueEdge, CVWY90bshP!BlueEdge, CVWY90bsh!BlueSkip,
         CVWY90bshP!BlueSkip, CVWY90bsh!BlueDown, CVWY90bshP!BlueDown, CVWY90bsh!StartRed,
         CVWY90bshP!StartRed, CVWY90bsh!BlueStartRed, CVWY90bshP!BlueStartRed,
         CVWY90bsh!BlueIgnore, CVWY90bshP!BlueIgnore, CVWY90bsh!BlueDoneWith,
         CVWY90bshP!BlueDoneWith, CVWY90bsh!Backtracked, CVWY90bshP!Backtracked,
         CVWY90bsh!BlueBackStartRed, CVWY90bshP!BlueBackStartRed, CVWY90bsh!BlueBackPop,
         CVWY90bshP!BlueBackPop, CVWY90bsh!BlueReturn, CVWY90bshP!BlueReturn, CVWY90bsh!RedEdge,
         CVWY90bshP!RedEdge, CVWY90bsh!RedSkip, CVWY90bshP!RedSkip, CVWY90bsh!RedWhite,
         CVWY90bshP!RedWhite, CVWY90bsh!RedDown, CVWY90bshP!RedDown, CVWY90bsh!RedIgnore,
         CVWY90bshP!RedIgnore, CVWY90bsh!RedPop, CVWY90bshP!RedPop, CVWY90bsh!RedReturn,
         CVWY90bshP!RedReturn, CVWY90bsh!get_color, CVWY90bshP!get_color, CVWY90bsh!is_white,
         CVWY90bshP!is_white, CVWY90bsh!set_color, CVWY90bshP!set_color, CVWY90bsh!push,
         CVWY90bshP!push, CVWY90bsh!pop, CVWY90bshP!pop, CVWY90bsh!next, CVWY90bshP!next,
         CVWY90bsh!IsOn, CVWY90bshP!IsOn, CVWY90bsh!Done, CVWY90bshP!Done, CVWY90bsh!succ_iter,
         CVWY90bshP!succ_iter, CVWY90bsh!accepting, CVWY90bshP!accepting, CVWY90bsh!Last,
         CVWY90bshP!Last, CVWY90bsh!Front, CVWY90bshP!Front
<1>3. /\ CVWY90bsh!RunIsAccepting <=> CVWY90bshP!RunIsAccepting
  BY SMTT(30) DEF CVWY90bsh!RunIsAccepting, CVWY90bshP!RunIsAccepting, CVWY90bsh!RunOnStacks,
         CVWY90bshP!RunOnStacks, CVWY90bsh!Linked, CVWY90bshP!Linked, CVWY90bsh!accepting,
         CVWY90bshP!accepting, CVWY90bsh!Last, CVWY90bshP!Last
<1>4. CVWY90bshP!Init => CVWY90bshP!Inv
  BY Constants, CVWY90bshP!InitInv
<1>5. CVWY90bshP!Inv /\ ([CVWY90bshP!Next]_CVWY90bshP!vars) => CVWY90bshP!Inv'
  BY Constants, CVWY90bshP!NextInv
<1>6. CVWY90bshP!Inv => CVWY90bshP!RunIsAccepting
  BY Constants, CVWY90bshP!InvRun
<1>7. QED
  BY <1>1, <1>2, <1>3, <1>4, <1>5, <1>6

(* A magic search, instantiated as CVWY90 weak.                            *)
LEMMA CVWY90weakFacts ==
  /\ CVWY90weak!Init => CVWY90weakP!Inv
  /\ CVWY90weak!Next => CVWY90weakP!Next
  /\ CVWY90weakP!Inv /\ ([CVWY90weakP!Next]_CVWY90weakP!vars) => CVWY90weakP!Inv'
  /\ CVWY90weakP!Inv => CVWY90weak!RunIsAccepting
<1>1. CVWY90weak!Init <=> CVWY90weakP!Init
  BY SMTT(30) DEF CVWY90weak!Init, CVWY90weakP!Init, CVWY90weak!magic_search,
         CVWY90weakP!magic_search,
         CVWY90weak!is_weak, CVWY90weakP!is_weak, CVWY90weak!is_buchi, CVWY90weakP!is_buchi,
         CVWY90weak!Live, CVWY90weakP!Live, CVWY90weak!Reach, CVWY90weakP!Reach,
         CVWY90weak!Closed, CVWY90weakP!Closed, CVWY90weak!Cardinality, CVWY90weakP!Cardinality
<1>2. CVWY90weak!Next <=> CVWY90weakP!Next
  BY SMTT(30) DEF CVWY90weak!Next, CVWY90weakP!Next, CVWY90weak!vars, CVWY90weakP!vars,
         CVWY90weak!Check,
         CVWY90weakP!Check, CVWY90weak!CheckAgain, CVWY90weakP!CheckAgain, CVWY90weak!dfs_blue,
         CVWY90weakP!dfs_blue, CVWY90weak!dfs_red, CVWY90weakP!dfs_red, CVWY90weak!Finished,
         CVWY90weakP!Finished, CVWY90weak!BlueEdge, CVWY90weakP!BlueEdge, CVWY90weak!BlueSkip,
         CVWY90weakP!BlueSkip, CVWY90weak!BlueDown, CVWY90weakP!BlueDown, CVWY90weak!StartRed,
         CVWY90weakP!StartRed, CVWY90weak!BlueStartRed, CVWY90weakP!BlueStartRed,
         CVWY90weak!BlueIgnore, CVWY90weakP!BlueIgnore, CVWY90weak!BlueDoneWith,
         CVWY90weakP!BlueDoneWith, CVWY90weak!Backtracked, CVWY90weakP!Backtracked,
         CVWY90weak!BlueBackStartRed, CVWY90weakP!BlueBackStartRed, CVWY90weak!BlueBackPop,
         CVWY90weakP!BlueBackPop, CVWY90weak!BlueReturn, CVWY90weakP!BlueReturn,
         CVWY90weak!RedEdge, CVWY90weakP!RedEdge, CVWY90weak!RedSkip, CVWY90weakP!RedSkip,
         CVWY90weak!RedWhite, CVWY90weakP!RedWhite, CVWY90weak!RedDown, CVWY90weakP!RedDown,
         CVWY90weak!RedIgnore, CVWY90weakP!RedIgnore, CVWY90weak!RedPop, CVWY90weakP!RedPop,
         CVWY90weak!RedReturn, CVWY90weakP!RedReturn, CVWY90weak!get_color,
         CVWY90weakP!get_color, CVWY90weak!is_white, CVWY90weakP!is_white, CVWY90weak!set_color,
         CVWY90weakP!set_color, CVWY90weak!push, CVWY90weakP!push, CVWY90weak!pop,
         CVWY90weakP!pop, CVWY90weak!next, CVWY90weakP!next, CVWY90weak!IsOn, CVWY90weakP!IsOn,
         CVWY90weak!Done, CVWY90weakP!Done, CVWY90weak!succ_iter, CVWY90weakP!succ_iter,
         CVWY90weak!accepting, CVWY90weakP!accepting, CVWY90weak!Last, CVWY90weakP!Last,
         CVWY90weak!Front, CVWY90weakP!Front
<1>3. /\ CVWY90weak!RunIsAccepting <=> CVWY90weakP!RunIsAccepting
  BY SMTT(30) DEF CVWY90weak!RunIsAccepting, CVWY90weakP!RunIsAccepting, CVWY90weak!RunOnStacks,
         CVWY90weakP!RunOnStacks, CVWY90weak!Linked, CVWY90weakP!Linked, CVWY90weak!accepting,
         CVWY90weakP!accepting, CVWY90weak!Last, CVWY90weakP!Last
<1>4. CVWY90weakP!Init => CVWY90weakP!Inv
  BY Constants, CVWY90weakP!InitInv
<1>5. CVWY90weakP!Inv /\ ([CVWY90weakP!Next]_CVWY90weakP!vars) => CVWY90weakP!Inv'
  BY Constants, CVWY90weakP!NextInv
<1>6. CVWY90weakP!Inv => CVWY90weakP!RunIsAccepting
  BY Constants, CVWY90weakP!InvRun
<1>7. QED
  BY <1>1, <1>2, <1>3, <1>4, <1>5, <1>6

(* A search of se05.cc, instantiated as SE05.                              *)
LEMMA SE05Facts ==
  /\ SE05!Init => SE05P!Inv
  /\ SE05!Next => SE05P!Next
  /\ SE05P!Inv /\ ([SE05P!Next]_SE05P!vars) => SE05P!Inv'
  /\ SE05P!Inv => SE05!RunIsAccepting
  /\ SE05P!Inv => SE05!CyanIsOnBlueStack
  /\ SE05P!Inv => SE05!RedNeverSeesWhite
<1>1. SE05!Init <=> SE05P!Init
  BY SMTT(30) DEF SE05!Init, SE05P!Init, SE05!se05_search, SE05P!se05_search, SE05!is_weak,
         SE05P!is_weak, SE05!is_buchi, SE05P!is_buchi, SE05!Live, SE05P!Live, SE05!Reach,
         SE05P!Reach, SE05!Closed, SE05P!Closed, SE05!Cardinality, SE05P!Cardinality
<1>2. SE05!Next <=> SE05P!Next
  BY SMTT(30) DEF SE05!Next, SE05P!Next, SE05!vars, SE05P!vars, SE05!Check, SE05P!Check,
         SE05!CheckAgain,
         SE05P!CheckAgain, SE05!dfs_blue, SE05P!dfs_blue, SE05!dfs_red, SE05P!dfs_red,
         SE05!Finished, SE05P!Finished, SE05!BlueEdge, SE05P!BlueEdge, SE05!BlueSkip,
         SE05P!BlueSkip, SE05!BlueDown, SE05P!BlueDown, SE05!Closes, SE05P!Closes,
         SE05!BlueReport, SE05P!BlueReport, SE05!Starts, SE05P!Starts, SE05!StartRed,
         SE05P!StartRed, SE05!BlueStartRed, SE05P!BlueStartRed, SE05!BlueIgnore,
         SE05P!BlueIgnore, SE05!BlueBackStartRed, SE05P!BlueBackStartRed, SE05!BlueBackPop,
         SE05P!BlueBackPop, SE05!BlueReturn, SE05P!BlueReturn, SE05!Return, SE05P!Return,
         SE05!RedEdge, SE05P!RedEdge, SE05!RedIgnore, SE05P!RedIgnore, SE05!RedReport,
         SE05P!RedReport, SE05!RedDown, SE05P!RedDown, SE05!RedPop, SE05P!RedPop,
         SE05!RedReturn, SE05P!RedReturn, SE05!get_color, SE05P!get_color, SE05!is_white,
         SE05P!is_white, SE05!set_color, SE05P!set_color, SE05!add_new_state,
         SE05P!add_new_state, SE05!push, SE05P!push, SE05!pop, SE05P!pop, SE05!next, SE05P!next,
         SE05!IsOn, SE05P!IsOn, SE05!Done, SE05P!Done, SE05!succ_iter, SE05P!succ_iter,
         SE05!accepting, SE05P!accepting, SE05!Last, SE05P!Last, SE05!Front, SE05P!Front
<1>3. /\ SE05!RunIsAccepting <=> SE05P!RunIsAccepting
      /\ SE05!CyanIsOnBlueStack <=> SE05P!CyanIsOnBlueStack
      /\ SE05!RedNeverSeesWhite <=> SE05P!RedNeverSeesWhite
  BY SMTT(30) DEF SE05!RunIsAccepting, SE05P!RunIsAccepting, SE05!RunOnStacks, SE05P!RunOnStacks,
         SE05!Linked, SE05P!Linked, SE05!accepting, SE05P!accepting, SE05!Last, SE05P!Last,
         SE05!SelectInSeq, SE05P!SelectInSeq, SE05!Min, SE05P!Min, SE05!CyanIsOnBlueStack,
         SE05P!CyanIsOnBlueStack, SE05!RedNeverSeesWhite, SE05P!RedNeverSeesWhite, SE05!Safe,
         SE05P!Safe, SE05!Live, SE05P!Live, SE05!IsOn, SE05P!IsOn, SE05!is_white,
         SE05P!is_white, SE05!get_color, SE05P!get_color
<1>4. SE05P!Init => SE05P!Inv
  BY Constants, SE05P!InitInv
<1>5. SE05P!Inv /\ ([SE05P!Next]_SE05P!vars) => SE05P!Inv'
  BY Constants, SE05P!NextInv
<1>6. SE05P!Inv => SE05P!RunIsAccepting /\ SE05P!CyanIsOnBlueStack /\ SE05P!RedNeverSeesWhite
  BY Constants, SE05P!InvRun, SE05P!InvCyan, SE05P!InvWhite
<1>7. QED
  BY <1>1, <1>2, <1>3, <1>4, <1>5, <1>6

(* A search of se05.cc, instantiated as SE05 bsh.                          *)
LEMMA SE05bshFacts ==
  /\ SE05bsh!Init => SE05bshP!Inv
  /\ SE05bsh!Next => SE05bshP!Next
  /\ SE05bshP!Inv /\ ([SE05bshP!Next]_SE05bshP!vars) => SE05bshP!Inv'
  /\ SE05bshP!Inv => SE05bsh!RunIsAccepting
  /\ SE05bshP!Inv => SE05bsh!CyanIsOnBlueStack
<1>1. SE05bsh!Init <=> SE05bshP!Init
  BY SMTT(30) DEF SE05bsh!Init, SE05bshP!Init, SE05bsh!se05_search, SE05bshP!se05_search,
         SE05bsh!is_weak, SE05bshP!is_weak, SE05bsh!is_buchi, SE05bshP!is_buchi, SE05bsh!Live,
         SE05bshP!Live, SE05bsh!Reach, SE05bshP!Reach, SE05bsh!Closed, SE05bshP!Closed,
         SE05bsh!Cardinality, SE05bshP!Cardinality
<1>2. SE05bsh!Next <=> SE05bshP!Next
  BY SMTT(30) DEF SE05bsh!Next, SE05bshP!Next, SE05bsh!vars, SE05bshP!vars, SE05bsh!Check,
         SE05bshP!Check, SE05bsh!CheckAgain, SE05bshP!CheckAgain, SE05bsh!dfs_blue,
         SE05bshP!dfs_blue, SE05bsh!dfs_red, SE05bshP!dfs_red, SE05bsh!Finished,
         SE05bshP!Finished, SE05bsh!BlueEdge, SE05bshP!BlueEdge, SE05bsh!BlueSkip,
         SE05bshP!BlueSkip, SE05bsh!BlueDown, SE05bshP!BlueDown, SE05bsh!Closes,
         SE05bshP!Closes, SE05bsh!BlueReport, SE05bshP!BlueReport, SE05bsh!Starts,
         SE05bshP!Starts, SE05bsh!StartRed, SE05bshP!StartRed, SE05bsh!BlueStartRed,
         SE05bshP!BlueStartRed, SE05bsh!BlueIgnore, SE05bshP!BlueIgnore,
         SE05bsh!BlueBackStartRed, SE05bshP!BlueBackStartRed, SE05bsh!BlueBackPop,
         SE05bshP!BlueBackPop, SE05bsh!BlueReturn, SE05bshP!BlueReturn, SE05bsh!Return,
         SE05bshP!Return, SE05bsh!RedEdge, SE05bshP!RedEdge, SE05bsh!RedIgnore,
         SE05bshP!RedIgnore, SE05bsh!RedReport, SE05bshP!RedReport, SE05bsh!RedDown,
         SE05bshP!RedDown, SE05bsh!RedPop, SE05bshP!RedPop, SE05bsh!RedReturn,
         SE05bshP!RedReturn, SE05bsh!get_color, SE05bshP!get_color, SE05bsh!is_white,
         SE05bshP!is_white, SE05bsh!set_color, SE05bshP!set_color, SE05bsh!add_new_state,
         SE05bshP!add_new_state, SE05bsh!push, SE05bshP!push, SE05bsh!pop, SE05bshP!pop,
         SE05bsh!next, SE05bshP!next, SE05bsh!IsOn, SE05bshP!IsOn, SE05bsh!Done, SE05bshP!Done,
         SE05bsh!succ_iter, SE05bshP!succ_iter, SE05bsh!accepting, SE05bshP!accepting,
         SE05bsh!Last, SE05bshP!Last, SE05bsh!Front, SE05bshP!Front
<1>3. /\ SE05bsh!RunIsAccepting <=> SE05bshP!RunIsAccepting
      /\ SE05bsh!CyanIsOnBlueStack <=> SE05bshP!CyanIsOnBlueStack
  BY SMTT(30) DEF SE05bsh!RunIsAccepting, SE05bshP!RunIsAccepting, SE05bsh!RunOnStacks,
         SE05bshP!RunOnStacks, SE05bsh!Linked, SE05bshP!Linked, SE05bsh!accepting,
         SE05bshP!accepting, SE05bsh!Last, SE05bshP!Last, SE05bsh!SelectInSeq,
         SE05bshP!SelectInSeq, SE05bsh!Min, SE05bshP!Min, SE05bsh!CyanIsOnBlueStack,
         SE05bshP!CyanIsOnBlueStack
<1>4. SE05bshP!Init => SE05bshP!Inv
  BY Constants, SE05bshP!InitInv
<1>5. SE05bshP!Inv /\ ([SE05bshP!Next]_SE05bshP!vars) => SE05bshP!Inv'
  BY Constants, SE05bshP!NextInv
<1>6. SE05bshP!Inv => SE05bshP!RunIsAccepting /\ SE05bshP!CyanIsOnBlueStack
  BY Constants, SE05bshP!InvRun, SE05bshP!InvCyan
<1>7. QED
  BY <1>1, <1>2, <1>3, <1>4, <1>5, <1>6

(* A search of se05.cc, instantiated as SE05 weak.                         *)
LEMMA SE05weakFacts ==
  /\ SE05weak!Init => SE05weakP!Inv
  /\ SE05weak!Next => SE05weakP!Next
  /\ SE05weakP!Inv /\ ([SE05weakP!Next]_SE05weakP!vars) => SE05weakP!Inv'
  /\ SE05weakP!Inv => SE05weak!RunIsAccepting
  /\ SE05weakP!Inv => SE05weak!CyanIsOnBlueStack
  /\ SE05weakP!Inv => SE05weak!RedNeverSeesWhite
<1>1. SE05weak!Init <=> SE05weakP!Init
  BY SMTT(30) DEF SE05weak!Init, SE05weakP!Init, SE05weak!se05_search, SE05weakP!se05_search,
         SE05weak!is_weak, SE05weakP!is_weak, SE05weak!is_buchi, SE05weakP!is_buchi,
         SE05weak!Live, SE05weakP!Live, SE05weak!Reach, SE05weakP!Reach, SE05weak!Closed,
         SE05weakP!Closed, SE05weak!Cardinality, SE05weakP!Cardinality
<1>2. SE05weak!Next <=> SE05weakP!Next
  BY SMTT(30) DEF SE05weak!Next, SE05weakP!Next, SE05weak!vars, SE05weakP!vars, SE05weak!Check,
         SE05weakP!Check, SE05weak!CheckAgain, SE05weakP!CheckAgain, SE05weak!dfs_blue,
         SE05weakP!dfs_blue, SE05weak!dfs_red, SE05weakP!dfs_red, SE05weak!Finished,
         SE05weakP!Finished, SE05weak!BlueEdge, SE05weakP!BlueEdge, SE05weak!BlueSkip,
         SE05weakP!BlueSkip, SE05weak!BlueDown, SE05weakP!BlueDown, SE05weak!Closes,
         SE05weakP!Closes, SE05weak!BlueReport, SE05weakP!BlueReport, SE05weak!Starts,
         SE05weakP!Starts, SE05weak!StartRed, SE05weakP!StartRed, SE05weak!BlueStartRed,
         SE05weakP!BlueStartRed, SE05weak!BlueIgnore, SE05weakP!BlueIgnore,
         SE05weak!BlueBackStartRed, SE05weakP!BlueBackStartRed, SE05weak!BlueBackPop,
         SE05weakP!BlueBackPop, SE05weak!BlueReturn, SE05weakP!BlueReturn, SE05weak!Return,
         SE05weakP!Return, SE05weak!RedEdge, SE05weakP!RedEdge, SE05weak!RedIgnore,
         SE05weakP!RedIgnore, SE05weak!RedReport, SE05weakP!RedReport, SE05weak!RedDown,
         SE05weakP!RedDown, SE05weak!RedPop, SE05weakP!RedPop, SE05weak!RedReturn,
         SE05weakP!RedReturn, SE05weak!get_color, SE05weakP!get_color, SE05weak!is_white,
         SE05weakP!is_white, SE05weak!set_color, SE05weakP!set_color, SE05weak!add_new_state,
         SE05weakP!add_new_state, SE05weak!push, SE05weakP!push, SE05weak!pop, SE05weakP!pop,
         SE05weak!next, SE05weakP!next, SE05weak!IsOn, SE05weakP!IsOn, SE05weak!Done,
         SE05weakP!Done, SE05weak!succ_iter, SE05weakP!succ_iter, SE05weak!accepting,
         SE05weakP!accepting, SE05weak!Last, SE05weakP!Last, SE05weak!Front, SE05weakP!Front
<1>3. /\ SE05weak!RunIsAccepting <=> SE05weakP!RunIsAccepting
      /\ SE05weak!CyanIsOnBlueStack <=> SE05weakP!CyanIsOnBlueStack
      /\ SE05weak!RedNeverSeesWhite <=> SE05weakP!RedNeverSeesWhite
  BY SMTT(30) DEF SE05weak!RunIsAccepting, SE05weakP!RunIsAccepting, SE05weak!RunOnStacks,
         SE05weakP!RunOnStacks, SE05weak!Linked, SE05weakP!Linked, SE05weak!accepting,
         SE05weakP!accepting, SE05weak!Last, SE05weakP!Last, SE05weak!SelectInSeq,
         SE05weakP!SelectInSeq, SE05weak!Min, SE05weakP!Min, SE05weak!CyanIsOnBlueStack,
         SE05weakP!CyanIsOnBlueStack, SE05weak!RedNeverSeesWhite, SE05weakP!RedNeverSeesWhite,
         SE05weak!Safe, SE05weakP!Safe, SE05weak!Live, SE05weakP!Live, SE05weak!IsOn,
         SE05weakP!IsOn, SE05weak!is_white, SE05weakP!is_white, SE05weak!get_color,
         SE05weakP!get_color
<1>4. SE05weakP!Init => SE05weakP!Inv
  BY Constants, SE05weakP!InitInv
<1>5. SE05weakP!Inv /\ ([SE05weakP!Next]_SE05weakP!vars) => SE05weakP!Inv'
  BY Constants, SE05weakP!NextInv
<1>6. SE05weakP!Inv =>
        SE05weakP!RunIsAccepting /\ SE05weakP!CyanIsOnBlueStack /\ SE05weakP!RedNeverSeesWhite
  BY Constants, SE05weakP!InvRun, SE05weakP!InvCyan, SE05weakP!InvWhite
<1>7. QED
  BY <1>1, <1>2, <1>3, <1>4, <1>5, <1>6

(* A search of tau03.cc, instantiated as Tau03.                            *)
LEMMA Tau03Facts ==
  /\ Tau03!Init => Tau03P!Inv
  /\ Tau03!Next => Tau03P!Next
  /\ Tau03P!Inv /\ ([Tau03P!Next]_Tau03P!vars) => Tau03P!Inv'
  /\ Tau03P!Inv => Tau03!PropagationIsComplete
  /\ Tau03P!Inv => Tau03!FrontIsOnCycle
<1>1. Tau03!Init <=> Tau03P!Init
  BY SMTT(30) DEF Tau03!Init, Tau03P!Init, Tau03!tau03_search, Tau03P!tau03_search,
         Tau03!is_generalized_buchi, Tau03P!is_generalized_buchi
<1>2. Tau03!Next <=> Tau03P!Next
  BY SMTT(30) DEF Tau03!Next, Tau03P!Next, Tau03!vars, Tau03P!vars, Tau03!Check, Tau03P!Check,
         Tau03!CheckAgain, Tau03P!CheckAgain, Tau03!dfs_blue, Tau03P!dfs_blue, Tau03!dfs_red,
         Tau03P!dfs_red, Tau03!Finished, Tau03P!Finished, Tau03!BlueEdge, Tau03P!BlueEdge,
         Tau03!BlueDown, Tau03P!BlueDown, Tau03!BlueIgnore, Tau03P!BlueIgnore, Tau03!Rescan,
         Tau03P!Rescan, Tau03!Acu, Tau03P!Acu, Tau03!RescanDown, Tau03P!RescanDown,
         Tau03!RescanIgnore, Tau03P!RescanIgnore, Tau03!RescanReport, Tau03P!RescanReport,
         Tau03!RescanPop, Tau03P!RescanPop, Tau03!BlueReturn, Tau03P!BlueReturn, Tau03!RedEdge,
         Tau03P!RedEdge, Tau03!RedDown, Tau03P!RedDown, Tau03!RedIgnore, Tau03P!RedIgnore,
         Tau03!RedPop, Tau03P!RedPop, Tau03!RedReturn, Tau03P!RedReturn, Tau03!push,
         Tau03P!push, Tau03!pop, Tau03P!pop, Tau03!next, Tau03P!next, Tau03!IsOn, Tau03P!IsOn,
         Tau03!Done, Tau03P!Done, Tau03!succ_iter, Tau03P!succ_iter, Tau03!accepting,
         Tau03P!accepting, Tau03!Last, Tau03P!Last, Tau03!Front, Tau03P!Front
<1>3. /\ Tau03!PropagationIsComplete <=> Tau03P!PropagationIsComplete
      /\ Tau03!FrontIsOnCycle <=> Tau03P!FrontIsOnCycle
  BY SMTT(30) DEF Tau03!PropagationIsComplete, Tau03P!PropagationIsComplete, Tau03!Live,
         Tau03P!Live,
         Tau03!FrontIsOnCycle, Tau03P!FrontIsOnCycle, Tau03!OnAcceptingCycle,
         Tau03P!OnAcceptingCycle, Tau03!StronglyConnected, Tau03P!StronglyConnected,
         Tau03!Touched, Tau03P!Touched, Tau03!Closed, Tau03P!Closed, Tau03!Marks, Tau03P!Marks,
         Tau03!accepting, Tau03P!accepting, Tau03!Last, Tau03P!Last
<1>4. Tau03P!Init => Tau03P!Inv
  BY Constants, Tau03P!InitInv
<1>5. Tau03P!Inv /\ ([Tau03P!Next]_Tau03P!vars) => Tau03P!Inv'
  BY Constants, Tau03P!NextInv
<1>6. Tau03P!Inv => Tau03P!PropagationIsComplete /\ Tau03P!FrontIsOnCycle
  BY Constants, Tau03P!InvClosed, Tau03P!InvFront
<1>7. QED
  BY <1>1, <1>2, <1>3, <1>4, <1>5, <1>6

-----------------------------------------------------------------------------
(* A step is one of the algorithm that was chosen; the choice is final.    *)
LEMMA Steps ==
  [Next]_vars =>
    /\ algo' = algo
    /\ algo = "CVWY90 bsh" => [CVWY90bshP!Next]_CVWY90bshP!vars
    /\ algo = "CVWY90 weak" => [CVWY90weakP!Next]_CVWY90weakP!vars
    /\ algo = "SE05" => [SE05P!Next]_SE05P!vars
    /\ algo = "SE05 bsh" => [SE05bshP!Next]_SE05bshP!vars
    /\ algo = "SE05 weak" => [SE05weakP!Next]_SE05weakP!vars
    /\ algo = "Tau03" => [Tau03P!Next]_Tau03P!vars
BY ZenonT(30), CVWY90bshFacts, CVWY90weakFacts, SE05Facts, SE05bshFacts, SE05weakFacts, Tau03Facts
   DEF Next, magic_search, se05, explicit_gv04_check, explicit_tau03_search,
       explicit_tau03_opt_search, vars, CVWY90bshP!vars, CVWY90weakP!vars, SE05P!vars,
       SE05bshP!vars, SE05weakP!vars, Tau03P!vars

(* A search that was just built.                                           *)
LEMMA InitInv == Init => Inv
BY ZenonT(30), CVWY90bshFacts, CVWY90weakFacts, SE05Facts, SE05bshFacts, SE05weakFacts, Tau03Facts
   DEF Init, instantiate, Inv

(* Every step keeps the invariant.                                         *)
LEMMA NextInv == Inv /\ [Next]_vars => Inv'
BY ZenonT(30), Steps, CVWY90bshFacts, CVWY90weakFacts, SE05Facts, SE05bshFacts, SE05weakFacts,
   Tau03Facts DEF Inv

(* The invariant holds throughout.                                         *)
LEMMA SpecInv == Spec => []Inv
BY InitInv, NextInv, PTL DEF Spec

(* What the invariant says of each algorithm.                              *)
LEMMA InvFacts ==
  Inv =>
    /\ PropagationIsComplete
    /\ Se05ColorsAreRight
    /\ algo \in NestedSearches => ReportsAreRight
BY ZenonT(30), CVWY90bshFacts, CVWY90weakFacts, SE05Facts, SE05bshFacts, SE05weakFacts, Tau03Facts
   DEF Inv, PropagationIsComplete, Se05ColorsAreRight, NestedSearches, ReportsAreRight

(* Between two propagations of Tau03 the marks are closed, and no state it *)
(* rescans is white ("assert(!c_prime.is_white())"): for every generalized *)
(* automaton with any number of states and acceptance sets.                *)
THEOREM MarksArePropagated == Spec => []PropagationIsComplete
BY InvFacts, SpecInv, PTL

(* In SE05 a cyan state is on the blue stack, whatever the hash function;  *)
(* and without collisions dfs_red() meets no white state, in the first and *)
(* in every later call of check().                                         *)
THEOREM CyanIsRight == Spec => []Se05ColorsAreRight
BY InvFacts, SpecInv, PTL

(* Behind each result of CVWY90 and SE05, bit-state or not, is an          *)
(* accepting lasso on their stacks; behind each result of Tau03, an        *)
(* accepting cycle through the state it stopped on.                        *)
THEOREM ReportsAreSound == Spec => [](algo \in NestedSearches => ReportsAreRight)
BY InvFacts, SpecInv, PTL

-----------------------------------------------------------------------------
(* A step in which check() answers what emptiness.hh promises, or nothing. *)
Answers(nonEmpty) ==
  /\ edges' = edges
  /\ \/ result' = result
     \/ result = "none" /\ result' = "run" /\ nonEmpty
     \/ result = "none" /\ result' = "null" /\ ~nonEmpty
     \/ result = "run" /\ result' = "null"

(* A step of CVWY90 weak answers as emptiness.hh promises.                 *)
LEMMA CVWY90weakAnswers ==
  CVWY90weakP!Inv /\ ([CVWY90weakP!Next]_CVWY90weakP!vars) => Answers(CoBuchi!NonEmpty(edges))
<1>1. CVWY90weakP!NonEmpty(edges) <=> CoBuchi!NonEmpty(edges)
  BY SMTT(30) DEF CVWY90weakP!NonEmpty, CoBuchi!NonEmpty, CVWY90weakP!Live, CoBuchi!Live,
         CVWY90weakP!Reach, CoBuchi!Reach, CVWY90weakP!Closed, CoBuchi!Closed,
         CVWY90weakP!StronglyConnected, CoBuchi!StronglyConnected, CVWY90weakP!Touched,
         CoBuchi!Touched, CVWY90weakP!Marks, CoBuchi!Marks, CVWY90weakP!accepting,
         CoBuchi!accepting
<1>2. CVWY90weakP!Safe
  BY SMTT(30) DEF CVWY90weakP!Safe
<1>3. QED
  BY <1>1, <1>2, Constants, CVWY90weakP!StepAnswers DEF Answers

(* A step of SE05 answers as emptiness.hh promises.                        *)
LEMMA SE05Answers ==
  SE05P!Inv /\ ([SE05P!Next]_SE05P!vars) => Answers(Buchi!NonEmpty(edges))
<1>1. SE05P!NonEmpty(edges) <=> Buchi!NonEmpty(edges)
  BY SMTT(30) DEF SE05P!NonEmpty, Buchi!NonEmpty, SE05P!Live, Buchi!Live, SE05P!Reach, Buchi!Reach,
         SE05P!Closed, Buchi!Closed, SE05P!StronglyConnected, Buchi!StronglyConnected,
         SE05P!Touched, Buchi!Touched, SE05P!Marks, Buchi!Marks, SE05P!accepting,
         Buchi!accepting
<1>2. SE05P!Safe
  BY SMTT(30) DEF SE05P!Safe
<1>3. QED
  BY <1>1, <1>2, Constants, SE05P!StepAnswers DEF Answers

(* A step of SE05 weak answers as emptiness.hh promises.                   *)
LEMMA SE05weakAnswers ==
  SE05weakP!Inv /\ ([SE05weakP!Next]_SE05weakP!vars) => Answers(CoBuchi!NonEmpty(edges))
<1>1. SE05weakP!NonEmpty(edges) <=> CoBuchi!NonEmpty(edges)
  BY SMTT(30) DEF SE05weakP!NonEmpty, CoBuchi!NonEmpty, SE05weakP!Live, CoBuchi!Live,
         SE05weakP!Reach,
         CoBuchi!Reach, SE05weakP!Closed, CoBuchi!Closed, SE05weakP!StronglyConnected,
         CoBuchi!StronglyConnected, SE05weakP!Touched, CoBuchi!Touched, SE05weakP!Marks,
         CoBuchi!Marks, SE05weakP!accepting, CoBuchi!accepting
<1>2. SE05weakP!Safe
  BY SMTT(30) DEF SE05weakP!Safe
<1>3. QED
  BY <1>1, <1>2, Constants, SE05weakP!StepAnswers DEF Answers

(* A step of Tau03 answers as emptiness.hh promises.                       *)
LEMMA Tau03Answers ==
  Tau03P!Inv /\ ([Tau03P!Next]_Tau03P!vars) => Answers(Gen!NonEmpty(edges))
<1>1. Tau03P!NonEmpty(edges) <=> Gen!NonEmpty(edges)
  BY SMTT(30) DEF Tau03P!NonEmpty, Gen!NonEmpty, Tau03P!Live, Gen!Live, Tau03P!Reach, Gen!Reach,
         Tau03P!Closed, Gen!Closed, Tau03P!StronglyConnected, Gen!StronglyConnected,
         Tau03P!Touched, Gen!Touched, Tau03P!Marks, Gen!Marks, Tau03P!accepting, Gen!accepting
<1>2. QED
  BY <1>1, Constants, Tau03P!StepAnswers DEF Answers

(* A step of one of these algorithms answers as emptiness.hh promises, for *)
(* the condition that was chosen.                                          *)
LEMMA NextAnswers ==
  ASSUME Algos \subseteq NestedSearches, Inv, [Next]_vars
  PROVE  [Buchi!Next]_Buchi!vars /\ [CoBuchi!Next]_CoBuchi!vars /\ [Gen!Next]_Gen!vars
<1>1. algo' = algo /\ algo \in NestedSearches
  BY ZenonT(30), Steps DEF Inv
<1>2. /\ algo = "CVWY90 bsh" \/ algo = "SE05 bsh" => edges' = edges
      /\ algo = "SE05" => Answers(Buchi!NonEmpty(edges))
      /\ algo = "CVWY90 weak" \/ algo = "SE05 weak" => Answers(CoBuchi!NonEmpty(edges))
      /\ algo = "Tau03" => Answers(Gen!NonEmpty(edges))
  BY ZenonT(30), Steps, Constants, CVWY90bshP!EdgesStay, SE05bshP!EdgesStay, SE05Answers,
     CVWY90weakAnswers,
     SE05weakAnswers, Tau03Answers DEF Inv
<1>3. edges' = edges
  BY ZenonT(30), <1>1, <1>2 DEF NestedSearches, Answers
<1>4. /\ Buchi!NonEmpty(edges) \in BOOLEAN
      /\ CoBuchi!NonEmpty(edges) \in BOOLEAN
      /\ Gen!NonEmpty(edges) \in BOOLEAN
  BY SMTT(30) DEF Buchi!NonEmpty, CoBuchi!NonEmpty, Gen!NonEmpty
<1>5. [Buchi!Next]_Buchi!vars
  BY ZenonT(30), <1>1, <1>2, <1>3, <1>4
     DEF NestedSearches, Answers, Buchi!Next, Buchi!First, Buchi!Exhausted, Buchi!vars
<1>6. [CoBuchi!Next]_CoBuchi!vars
  BY ZenonT(30), <1>1, <1>2, <1>3, <1>4
     DEF NestedSearches, Answers, CoBuchi!Next, CoBuchi!First, CoBuchi!Exhausted, CoBuchi!vars
<1>7. [Gen!Next]_Gen!vars
  BY ZenonT(30), <1>1, <1>2, <1>3, <1>4
     DEF NestedSearches, Answers, Gen!Next, Gen!First, Gen!Exhausted, Gen!vars
<1>8. QED
  BY <1>5, <1>6, <1>7

(* A search that was just built has answered nothing.                      *)
LEMMA InitAnswers ==
  ASSUME Algos \subseteq NestedSearches, Init
  PROVE  Buchi!Init /\ CoBuchi!Init /\ Gen!Init
<1>1. result = "none" /\ edges \in Single \cup Weak \cup Generalized
  BY ZenonT(30) DEF Init, instantiate, NestedSearches, CVWY90bsh!Init, CVWY90bsh!magic_search,
         CVWY90weak!Init, CVWY90weak!magic_search, SE05!Init, SE05!se05_search, SE05bsh!Init,
         SE05bsh!se05_search, SE05weak!Init, SE05weak!se05_search, Tau03!Init, Tau03!tau03_search
<1>2. edges \subseteq Tau03!Edge
  BY <1>1, EcAssumption DEF SE05!Edge, Tau03!Edge
<1>3. QED
  BY <1>1, <1>2 DEF Tau03!Edge, Buchi!Init, Buchi!Edge, CoBuchi!Init, CoBuchi!Edge, Gen!Init,
                    Gen!Edge

(* When only these nested searches are instantiated, the first answer of   *)
(* every explicit one is right and a null pointer is final: for Inf(0),    *)
(* for Fin(0) on weak automata and for several acceptance sets, on every   *)
(* automaton.                                                              *)
THEOREM NestedAnswersAreRight ==
  ASSUME Algos \subseteq NestedSearches PROVE Spec => FirstAnswersAreRight
<1>1. Init => Buchi!Init /\ CoBuchi!Init /\ Gen!Init
  BY InitAnswers
<1>2. Inv /\ [Next]_vars =>
        ([Buchi!Next]_Buchi!vars) /\ ([CoBuchi!Next]_CoBuchi!vars) /\ ([Gen!Next]_Gen!vars)
  BY NextAnswers
<1>3. QED
  BY <1>1, <1>2, SpecInv, PTL DEF Spec, FirstAnswersAreRight, Buchi!Spec, CoBuchi!Spec, Gen!Spec
=============================================================================
