# A TLA+ model of the core of Spot

Spot is a C++ library for LTL and ω-automata: it builds formulas and automata,
transforms them, and decides emptiness; command-line tools are built on it.
This directory models the parts of it that keep state and whose correctness
depends on the order of events: the emptiness checks and the runs they return,
the formulas and the explicit automata that everything else is built on, the
dictionary of BDD variables they share, and the execution of other programs
under a timeout. Paths below are relative to the root of the repository.

## Inventory

The library is sequential. What makes it hard is not threads but objects with a
long life that many others use in any order, searches that are suspended and
resumed, iterators over automata that compute their states on the fly, and, in
the tools, signals and child processes.

| Part | State | Operations | Works with |
|---|---|---|---|
| emptiness checks (`spot/twaalgos/emptiness.hh`, `magic.cc`, `se05.cc`, `tau03.cc`, `tau03opt.cc`, `gv04.cc`, `gtec/`, `couvreurnew.cc`, `genem.cc`) | stacks of states and iterators, a heap of colours or numbers | `check()`, possibly several times; `accepting_run()` on a result | the automaton, through `succ_iter()`; the acceptance condition |
| accepting runs (`ndfs_result.hxx`, `bfssteps.cc`, `gtec/ce.cc`) | the heap of the check that found the run | search of a prefix and a cycle | the emptiness check |
| `bdd_dict` (`spot/twa/bdddict.cc`) | who uses which variable for what; a list of unused anonymous variables per owner | register and unregister | every automaton, by address; `bdd_allocator` |
| `bdd_allocator` (`spot/priv/bddalloc.cc`) | free variables, and a copy of BuDDy's count | allocate, extend, release | BuDDy, whose count is global to the process |
| `free_list` (`spot/priv/freelist.cc`) | a sorted list of ranges | `register_n`, `insert`, `remove` | its subclasses, through the virtual `extend()` |
| formulas (`spot/tl/formula.cc`) | a table of shared nodes with saturating reference counts | construction, destruction | everything |
| execution of commands (`bin/common_trans.cc`) | `child_pid`, `alarm_on`, `timed_out`, the alarm of the process | `exec_with_timeout()`, `sig_handler()` | ltlcross, autcross, ltldo; the kernel |
| temporary files (`spot/misc/tmpfile.cc`) | a list of names | create, rename, cleanup from the handler | the tools |
| explicit automata (`spot/graph/graph.hh`, `spot/twa/twagraph.cc`) | vectors of states, edges and universal destinations; chains of edges through them; names of states | construction, iteration with erasure, merging, purging, renumbering | everything |
| other automata (`spot/twa`, `spot/kripke`) | properties, pools of states | construction, iteration | emptiness checks |
| transformations (`spot/twaalgos`), logic (`spot/tl`), testing automata (`spot/ta`, `spot/taalgos`) | local to a call | pure functions up to language equivalence | automata, `bdd_dict` |
| parsers, printers, generators, tools, bindings, SAT, LTSmin, vendored BuDDy and PicoSAT | input and output | | |

What makes each of the stateful parts correct:

* an emptiness check answers a result exactly when the automaton has an
  accepting run, the result is such a run, and an enumeration ends;
* a formula is deleted when its last user lets go of it and not before, the same
  formula is never built twice, and what is built means what was written;
* the chains of edges of an automaton visit exactly its edges, and an operation
  that removes, merges or renumbers states leaves the automaton it promises;
* no BDD variable has two meanings at a time, none changes its meaning under an
  owner, none is lost, and all are released when their owners are gone;
* a command that takes too long is signalled, harder and harder, then reported
  as a timeout; no signal reaches another command; nothing is waited for forever.

`PROJECT.json` lists all parts under "components", and under "hazards" the
places in the code that tests hardly reach, with the properties that watch them.

## Modules

| Module | Models | Role |
|---|---|---|
| `Twa` | `twa.hh`, `acc.hh` as the checks use them | automata, acceptance, and the reference definition of non-emptiness |
| `EmptinessCheck` | the contract of `emptiness_check::check()` | abstract specification |
| `NdfsStack` | `stack_item`, `push()`, `pop()` | stacks of the nested searches |
| `NdfsStackProofs` | | facts about reachability, strong connection and stacks |
| `MagicSearch` | `magic.cc` | detailed specification, implements `EmptinessCheck` |
| `MCMagic` | | sets of automata for TLC |
| `MagicSearchProofs` | | soundness and completeness of `MagicSearch` |
| `Se05`, `Tau03`, `Tau03Opt` | `se05.cc`, `tau03.cc`, `tau03opt.cc` | detailed specifications |
| `Se05Proofs`, `Tau03Proofs` | | inductive invariants of `Se05` and `Tau03`, and what their answers mean |
| `BfsSteps` | `bfssteps.cc` | shortest paths to an edge that matches |
| `Gv04` | `gv04.cc` | check and computation of a run |
| `EcInstantiator` | the algorithms of `emptiness.cc` | composes the searches, implements `EmptinessCheck` for each condition |
| `EcInstantiatorProofs` | | the results on `MagicSearch`, `Se05` and `Tau03`, carried over to each of their uses |
| `Couvreur99` | `couvreur99_check` of `gtec/gtec.cc`, `sccstack.cc` | the search and the removal of components |
| `Couvreur99Shy` | `couvreur99_check_shy` | the variant with queues |
| `Couvreur99Result` | `gtec/ce.cc` | both followed by the computation of a run; implements `EmptinessCheck` |
| `Couvreur99Proofs` | | the invariant of both searches, and what their answers and runs mean |
| `SmallAutomata`, `MCEcInstantiator`, `MCCouvreur` | | sets of automata for TLC |
| `FnodeHeap` | `fnode`, `maps_t` | nodes, tables, reference counts |
| `FnodeMeaning` | | reference semantics: LTL on lassos, SEREs as sets of words |
| `Fnode` | constructors of `formula.cc`, class `formula` | clients that build, copy and delete formulas |
| `Digraph` | `graph/graph.hh` | vectors and chains, as operators on records |
| `NamedAutomaton` | | reference definitions: reachable, dead, merged, on automata whose states have names |
| `TwaGraph` | `twagraph.cc`, `randomize.cc` | clients that build and transform an automaton |
| `MCFnode`, `MCTwaGraph` | | clients for TLC |
| `FreeSet` | the contract of `free_list` | sets, runs of integers, best fit |
| `FreeList` | `freelist.cc`, `bdd_allocator::extend()` | the loops over ranges, compared with `FreeSet` |
| `BddDict` | `bdddict.cc`, `bddalloc.cc` | the dictionary over an allocator over BuDDy |
| `MCBddDict` | | symmetry for TLC |
| `BddDictProofs` | | facts about best fit, and the invariants of `BddDict` |
| `ExecTimeout` | part of `bin/common_trans.cc` | the tool, its handler, its children |
| `ExecTimeoutProofs` | | safety of `ExecTimeout` |

### Twa and EmptinessCheck

An automaton is a set of edges with a source, a destination, a set of marks and
a label. The checks ask of a label only whether it is `bddfalse`, so a label is
a Boolean. An acceptance condition is the set `Sat` of the sets of marks it
accepts. An iterator delivers the edges of a state in any order, chosen afresh
at each step: this covers every order an implementation of `succ_iter()` may
use. `NonEmpty` is the definition the checks are judged by: some reachable
strongly connected set of edges satisfies the condition. It does not mention
searches or stacks.

`EmptinessCheck` says what `emptiness.hh` promises when `safe()` holds: the first
answer is a result iff the automaton is `NonEmpty`; later answers may be results,
until a null pointer ends the enumeration.

### MagicSearch

| Code | Model |
|---|---|
| `st_blue`, `st_red`, `target` | the same names; the front of a stack is the end of the sequence |
| `heap` | `color` over `slot`: injective for `explicit_magic_search_heap`, colliding for `bsh_magic_search_heap` |
| `check()` | `Check`, `CheckAgain` |
| a pass through the loop of `dfs_blue()` | `BlueSkip`, `BlueDown`, `BlueStartRed`, `BlueIgnore`, `BlueBackStartRed`, `BlueBackPop`, `BlueReturn` |
| a pass through the loop of `dfs_red()` | `RedSkip`, `RedWhite`, `RedDown`, `RedIgnore`, `RedPop`, `RedReturn` |
| `result_from_stack::accepting_run()` | `RunOnStacks` |

Calls are not atomic in the model although nothing can happen between two passes
of a loop: one action per pass keeps the model in step with the code and gives
the invariants of the loops a place. A step that starts a red search includes
the test at the entry of `dfs_red()`.

Left out: statistics; destructors; the cloning and destruction of states; a call
of `check()` after a null pointer, on which the code's assertions fail and which
its documentation excludes; `ndfs_result`, the default way to compute a run,
which reads the colours and not the stacks (planned).

### Se05, Tau03, Tau03Opt, Gv04 and EcInstantiator

The nested searches have the layout of `MagicSearch`: one action per path through
the body of `dfs_blue()` and `dfs_red()`, `Check` and `CheckAgain` for the calls.

| Code | Model |
|---|---|
| cyan states of `se05.cc`, kept by both heaps in a set of their own | `hc` |
| `acc` of the states in the heap of `tau03.cc` and `tau03opt.cc` | `marks` |
| `weight`, `current_weight`, `condition_stack`, `depth` of `tau03opt.cc` | the same names; a weight is a function from marks to numbers |
| options of `tau03opt.cc` | `opt`, one of the combinations its constructor can come to |
| `stack`, `dftop`, `h`, `violation` of `gv04.cc` | the same names; indices start from 0 |
| `result::accepting_run()` of `gv04.cc` | `Prefix`, `FirstBfs`, `FirstBfsFails`, `SecondBfs` |
| `bfs_steps::search()` | `BfsSteps`: the set of the shortest paths it may return |

`EcInstantiator` has the variables of all of them; `algo` tells which one was
built, on an automaton and with a condition that its constructor accepts, and
each property names the algorithms it is about. The magic searches for weak
automata and with colliding hashes are checked here too. `EmptinessCheck` is instantiated
once for each kind of condition.

### Couvreur99, Couvreur99Shy and Couvreur99Result

| Code | Model |
|---|---|
| `ecs_->root`, `arc`, `todo`, `ecs_->h`, `num` | `root`, `arc`, `todo`, `h`, `num`; h is 0 for unknown and -1 for dead states |
| a pass through the loop of `check()` | `Backtrack`, `Skip`, `NewState`, `Dead`, `Merge`, `ReturnNull`, and the `Shy...` of the variant |
| `remove_component()` | `remove_component`, with `rem` or with a second search (`Removed`) |
| `pos`, an iterator into the last queue | its index; one past the end when it is `end()` |
| `accepting_run()`, `accepting_cycle()` | the actions of `Couvreur99Result` |

The order of the successors of a state is chosen when its iterator or queue is
created. Each combination of `shy`, `poprem`, `group` and `group2` that leads to
different code is an initial state.

### FnodeHeap and Fnode

A node is a record with its operator, operands, range and counter; `uniq`,
`name2ap` and `one_star` are the tables. Each constructor is an operator from
heaps to heaps that follows the code branch by branch, so that a reference that
is given up twice, or not at all, shows in the counters. Counters are taken modulo
`RefMod` (2^16 in the code) and ranges modulo `MaxMod` (2^8). The clients own a bag
of references; an action is a call of a constructor of class `formula` that takes
over references, a copy, or a deletion. Identifiers are replaced by addresses: any
order with the constants first will do. `LtlIsKept` and `SereIsKept` evaluate what
each constructor would return for the formulas the clients hold and compare it
with the definition of the operator on six lassos, or on all words up to length 3. The
set of lassos is closed under the exchange of the two names, as the `SYMMETRY` of the runs
requires. `NodeBound` leaves addresses for everything an operation may create, so that
no construction is left out of these comparisons: what is bounded (`LiveBound`) is how
many nodes there are between two operations of the clients.

### Digraph and TwaGraph

| Code | Model |
|---|---|
| `states_`, `edges_`, `dests_`, `killed_edge_` | `states`, `edges`, `dests`, `killed` of a record; states from 0, edges from 1 |
| `~d` for a universal destination | -k for the group of rank k; `-1U` is -1, as in the code also the first group |
| `out()`, `out_iteraser()` | `out`, `out_iteraser`, the latter with the set of edges to erase |
| `merge_edges()` and the others | operators of the same names, one action each |
| `"state-names"` | `names`: states are named by their first number, which is how the properties follow them |

The properties compare the automaton after an operation with a definition on
sets of named states and edges (`NamedAutomaton`) that knows neither numbers nor
chains. A client randomizes states only when no edge is erased: see findings.

### FreeSet and FreeList

`FreeSet` describes a list of free integers as a set. `FreeList` has the loops
of `insert()`, both `remove()`s and `register_n()` on lists of ranges, and
`bdd_allocator::extend()`. `BddDict` uses the sets; the run `free_list` shows
that the lists compute them.

### BddDict

One action per public operation: `register_proposition`,
`register_acceptance_variable`, `register_anonymous_variables`,
`register_all_variables_of`, `unregister_variable`, `unregister_all_my_variables`,
and `ExtVarNum` for another allocator or library that extends BuDDy. Each action
is the whole call, with the allocation, the extension of the other lists, and the
resizing of `bdd_map`. `bdd_map` is split into `size`, `type`, `form` and `refs`;
`free_anonymous_list_of` into `lists` (its keys), `anon_fl` (the lists) and `priv`
(which of them have a `priv_`). A pointer to an owner is an element of `Owner`, and
`nullptr` is the key of the list new owners copy.

`DisciplinedSpec` restricts `register_all_variables_of` to owners that have no
anonymous variable yet. The constructors that call it once keep this discipline
(`spot/ta/taexplicit.cc`, `spot/twaalgos/word.cc`); `spot/ta/taproduct.cc:247-248`
calls it twice in a row and leaves it when the first automaton has anonymous
variables; the class itself does not ask for it.

### ExecTimeout

| Code | Model |
|---|---|
| `exec_with_timeout()` | `Call`, `Spawn` or `Fork` and `ForkReturns`, `StartFails`, `SetAlarm`, `SetAlarmOn`, `Wait`, `ClearAlarmOn`, `Return`: one action per statement between which a signal matters |
| `sig_handler()` | `OnAlarm`, `OnLateAlarm`, `OnTermination`, each at any statement |
| the child before `exec()` | `ChildStarts`, `ChildFails` |
| the command, the kernel | `ChildEnds`, `ChildIsKilled`, `kill` (external) |

Both builds, with and without `posix_spawn()`, and both settings of `--timeout`
are initial states. Time is abstract: a pending alarm may ring at any moment.
`posix_spawn()` is one step, because glibc blocks signals in the caller until the
child exists and its number is stored. `child_pid` is 0 in the model where it is
-1 in the code; `kill(1, sig)`, which the code then calls, is refused by the
kernel for an ordinary user. Process numbers are not reused. Left out: signals
that arrive while the handler runs; a failing `waitpid()`; descendants of the
command that outlive it; the files `cleanup_tmpfiles()` removes.

## Runs

| Run | Specification and bounds | Shows |
|---|---|---|
| `magic_buchi` | all Büchi automata with 3 states and at most 5 edges, or 2 and one labelled by false; fairness | first answer right, every result an accepting lasso, in every call; enumerations end; ignoring white states is harmless in the first call |
| `ec_instantiator` | 3 states and up to 5 edges, 4 states and up to 7; weak automata with `Fin(0)`; two marks and up to 4 edges; two states that collide | every other algorithm answers right (or, with bit-state hashing, soundly), its runs are accepting, its loops keep what they rely on |
| `couvreur99` | 3 states, up to 5 edges, two marks each on at most one edge; all options | the answer, the run, the components, progress |
| `fnode` | 2 propositions, 3 nodes between two operations, 2 formulas held, counters modulo 3, ranges up to 3 and open ones | reference counts, uniqueness, normal forms, meaning |
| `twa_graph` | alternating automata with 3 states and 3 edges; 4 states and 5 edges with a universal cycle; labels and marks on 2 states | chains and destinations; purging, merging and shuffling are exact |
| `free_list` | all lists reachable over 8 integers, blocks of up to 3 | the loops compute the set operations |
| `bdd_dict` | 2 owners, 2 formulas, 4 variables, blocks of up to 2, BuDDy with 0 or 2 variables at first, extended by others one at a time | consistency of maps, lists and allocator; stable meanings |
| `bdd_dict_alone` | 2 owners, 1 formula, 5 variables, nobody else extends BuDDy, `DisciplinedSpec` | nothing lost; anonymous variables are new to their owner |
| `exec_timeout` | 3 commands, both builds, with and without `--timeout`, fairness | escalation, reports, nothing pending, signals forwarded, nobody waits forever |
| `nested_star`, `randomize`, `tau03opt_ordering` | | violations: see findings |

The largest runs, `couvreur99`, `magic_buchi`, `bdd_dict` and `twa_graph`, have
between 120000 and 490000 distinct states and take one to three minutes. `fnode` takes
as long on fewer states, most of it for the meanings.

Why these bounds are enough to be interesting. Three states and five edges give
cycles that share states, cycles through the initial state, crossings of the two
searches, and several accepting cycles so that calls are resumed; every order of
successors is covered. The sets of automata for `couvreur99` and `ec_instantiator`
leave out graphs with edges that cannot be reached, and one of two that differ
only in the names of states 1 and 2 (`SmallAutomata`); a fourth state lets
a state leave the stack of GV04 and its index be taken by another one. Two marks
on different edges need a cycle that goes through both, which is what Couvreur's
check and Tau03 are for. Three nodes besides the constants and counters modulo 3
let a node be shared, saturate, and outlive its clients, and a node be deleted and
its address used again. The clients write the ranges `[0..1]`, `[1..2]`, `[2]` and `[0..]`,
and get `[2..3]`, `[3]`, `[1..]` and others from sums and products: a star of a bounded star is
merged, on the boundary of the test and inside, or kept because of a gap, and
a test that is off by one either way changes the words (`SereIsKept`) or leaves
a star of a star (`FormulasAreCanonical`). In `twa_graph` one client enumerates shapes, one has the
cycle through a universal edge on which the repeated passes of
`purge_dead_states()` matter, and two vary the labels on which merging depends.
Eight integers allow three ranges with gaps, so that an insertion can touch two
and swallow one. Four variables with two owners allow a variable to be shared,
released by one owner and then the other, and used again for something else, and
lists to differ. Three commands let an alarm of the first be pending in the second
and an answer of it be read in the third.

## Fairness

* `MagicSearch!FairSpec`: the caller goes on until it gets a null pointer, as
  `tests/core/emptchk.cc` does with the option `repeated`; a sequential program
  executes its next statement. Only weak fairness of `Next` is needed.
* `ExecTimeout!FairSpec`: the scheduler runs the tool (`exec_with_timeout`), the
  kernel delivers a pending `SIGALRM`, and a process that got `SIGKILL` ends. There
  is no fairness for the child: it may run forever or ignore `SIGTERM`.

## Proofs

TLAPS checks the following for every value of the constants, from the
assumptions on the constants that the modules name (`TwaAssumption`,
`MagicAssumption`, `EcAssumption`, `CouvreurAssumption`, `BddDictAssumption`,
`ExecAssumption`), which only say what the constants are: the automata are sets of
edges, the initial state is a state, the heap has an entry for each state, the marks
are finitely many; for Couvreur's check, the states and edges of an automaton are too,
as they must be for a search to end.

### Nested searches

* `NdfsStackProofs` has what the others share. `Reach` is defined by closed sets and
  not by paths, so that reachability is reasoned about without induction: it is
  reflexive and transitive, an edge extends it, a set no edge leaves bounds it. The
  edges on the cycles through a state form a strongly connected set
  (`CyclesAreStronglyConnected`), so that for the conditions of CVWY90 and SE05 an
  automaton is non-empty iff some accepting edge that can be reached lies on a cycle
  (`AcceptingEdge`). On a stack of linked items each state reaches those above it,
  which takes the smallest index of a state that does not (`ClimbStack`).
* `MagicSearchProofs`: `TypeCorrect`; `Sound` (`Spec => []RunIsAccepting`); and
  `MagicIsAnEmptinessCheck`, the refinement of `EmptinessCheck` by the explicit
  search. The invariant says what the stacks are at every step (`Lasso`: both are
  paths of the automaton, the red one leaves the front of the blue one, which is
  `target`, by an accepting edge, and between two calls the front of the red stack
  is the target); this part does not depend on colours, which is why soundness
  survives hash collisions. Completeness needs, for heaps without collisions, that
  edges out of visited states lead to visited states or are still to be followed
  (`Explored`) and, during the first call, that red states lead to red or white
  states, or by edges the red search has still to follow, and that an accepting
  edge the blue search is done with lies on no cycle (`First`). When a red
  search ends without a result, no state of the blue stack is red, for redness
  would have climbed the stack to the target; hence the white states it passed over
  were not the ends of edges from red states (`RedEnds`).
* `Se05Proofs`: the invariant has the same parts, with cyan states: a state of `hc` is
  on the blue stack, even with collisions (`InvCyan`); an explicit red search only
  goes through states the blue one has left (`RedIsLeft`), so that it meets no white
  state (`InvWhite`); the lasso on the stacks is accepting although either search may
  close it, at any state of the blue stack (`InvRun`).
* `Tau03Proofs`: between two propagations the marks of what has left the blue stack
  are closed under its edges (`Propagated`), each mark of a state of the blue stack is
  that of an edge on a cycle through it (`MarksOnCycles`), and no strongly connected
  set whose states have all been left is accepting (`NoneLeft`): the last state of
  such a set to be left would have all its marks, and the search would have stopped.
* `EcInstantiatorProofs` instantiates the three modules for the six ways in which
  `emptiness_check_instantiator` uses them. Its invariant is that the algorithm that was chosen has its own. Results:
  `ReportsAreSound` (`ReportsAreRight` for these algorithms), `CyanIsRight`
  (`Se05ColorsAreRight`), `MarksArePropagated` (`PropagationIsComplete`), and
  `NestedAnswersAreRight`: if only these algorithms are used (an assumption on
  `Algos`), `FirstAnswersAreRight`, that is the refinement of `EmptinessCheck` for
  `Inf(0)`, for `Fin(0)` on weak automata and for generalized Büchi conditions. The
  assumption leaves out `GV04` and `Tau03_opt`; for the latter the statement is false
  for some conditions its constructor accepts (finding `tau03opt_ordering`).

### Couvreur's check

`Couvreur99Proofs` is about `couvreur99_check` and `couvreur99_check_shy` at once, with all
their options. The inductive invariant `CheckInv` is `SearchInv` while a check searches, and
`DeadIsClosed` throughout. None of the properties of the run is inductive without it:
what is merged is strongly connected only because the components on `root` lie in a row,
and they do only because the queues hold every edge not taken yet. Its parts:

* `Orders`, `Roots`: `h` numbers the live states from 1 on without repetition, and `root`
  cuts these numbers into intervals, the components (`Scc`);
* `SearchPath`, `Queues`: the states of `todo` are in the order of their numbers, each
  component starts with one of them, and a queue holds edges out of states its entry
  stands for (with `group`, an entry stands for all states of the component from its own up);
* `Steps`: an edge out of a live state that was taken stays in its component, leads
  to a dead state, or is the one by which the search entered the next component, with the marks in `arc`;
* `Sccs`: each component is strongly connected by the edges taken, and its
  `condition` is exactly their marks, which are not accepting;
* `Remembered`: with `poprem`, what a component remembers are its states that are not
  on `todo`;
* `NoRun`: the dead states are closed under all edges, and no accepting run goes through
  them; `Visited`: the numbered states can be reached.

A merge is the hard step: the components above the target, the edges in `arc` and the new
edge form one cycle, so the union is strongly connected, and its marks are those
`Gathered` collects. When a component is removed, all edges out of it were taken and none
leads to a lower one, so that it is a maximal strongly connected set with
marks that are not accepting, and, without `Fin`, no part of it is accepting either; the
second search of `remove_component()` finds exactly the component, for it stops at
dead states and the component is strongly connected. Results: `CheckIsRight`,
`ComponentsAreRight` (`RootsAreComponents`), `DeadStaysDead` (`DeadIsClosed`),
`CouvreurIsAnEmptinessCheck` (the refinement of `EmptinessCheck`), and, on its own,
`RunsAreAccepting` (`RunIsAccepting`): the cycle that `accepting_cycle()` builds is a walk, what it
has gone through and `acc_to_traverse` together are accepting, and both
survive the shift in `ComputePrefix`.

Two more results count. Both properties add up the lengths of queues, and the proofs count
sets instead: an edge is queued once and a state remembered once, so that the length
of the concatenation is the number of edges or states (`OnceLength`).

* `RememberedAndCounted` (`RemIsComplete`): `DepthInv` is inductive with `CheckInv`. Between
  two steps `depth` is the number of live states (with `poprem`) or of entries of `todo`
  (without), and in the shy variant of queued edges in addition (`Counted`); `remove_component()`,
  `clear_todo()` and the merge of queues each subtract or move exactly what they take.
* `LoopProgresses` (`EveryStepCounts`): what is left to do is twice the edges that are queued
  or leave a state not seen yet, plus the entries of `todo` (`Undone`). Taking an
  edge or popping an entry makes it smaller, and stacking a state adds one entry for the edge taken.
  A step of the shy variant that takes nothing moves the iterator on.

### Variables, lists, commands

* `BddDictProofs`: `BestFitFacts`, what `register_n()` returns when something fits, whose
  existence argument needs the smallest of the long runs (`NatMin`). The three invariants of the run `bdd_dict` are inductive together with
  `TypeOK` and `NoNullPriv` (`Inv`) and none is by itself: that free variables are unused needs the lists to
  be live, which needs every owner of an anonymous variable to have a list, which
  needs the maps to tell anonymous variables from others. Results:
  `FreeVariablesAreUnused`, `ListsAreLive`, `MapsAreInverse`; from the same
  invariant the action property `MeaningsAreStable`; with the further invariant
  that an owner's list holds no variable of that owner (`ListsAreNew`), which the
  discipline preserves, `AnonymousVariablesAreFresh`; and, with `Extern = {}`,
  `NothingIsLost`, from the invariant that the allocator has counted all variables.
* `ExecTimeoutProofs`: `SignalsAreInOrder`, `TimeoutsAreReported`, `NothingIsLeft`,
  `ChildrenAreTold`. The invariant states, for each statement, what the current child may be and
  have got (`CurrentChild`, `Progress`), that earlier children are reaped and later
  ones do not exist (`OtherChildren`), and where an alarm may be pending (`Alarms`);
  the number of signals sent is `3 - alarm_on` during `waitpid()`. `ChildrenAreTold`
  (`TerminationIsForwarded`) is inductive with `Ending`: only the end of the tool has a
  cause, and with `posix_spawn()` no child is seen before it is in its group.

### Only model-checked

* Liveness (`EnumerationEnds`, `WhiteLeadsToRun`, `EveryCommandEnds`), which is out of
  the prover's reach.
* The loops of `FreeList`, and everything about `Fnode` and `TwaGraph`, which are built
  on recursive operators (walks through a list of ranges, deletion of a tree of
  nodes, depth-first searches, chains): the prover does not take them.
* `LowlinksAreReached` and `BookkeepingIsRight`, and `ReportsAreRight` for `GV04` and
  `Tau03_opt`, so far.
* That Couvreur's check ends is liveness too; what is proved of it is the measure below
  (`EveryStepCounts`).

## Findings

Three runs show a disagreement between the code and what is written about it.

* `formula.cc:702` (`nested_star`): a star of an unbounded star is merged without
  the test for gaps that the comment above it and `doc/tl/tl.tex` ask for, so that
  `f[*2..][*0..1]` also matches `f` once. `SereIsKept` finds nothing else
  wrong with the identities of `Concat` and `Star`, for ranges up to 3 and open ones and
  words of up to three letters.
* `randomize.cc:69` (`randomize`): edges that were erased and not yet removed come
  back when only the states are randomized.
* `tau03opt.cc:166` (`tau03opt_ordering`): with the option `ordering` the search
  misses runs unless the condition is generalized Büchi, though only `Fin` is
  refused.

Remarks met while modelling, which the models show but no run is kept for:

* `magic.cc:296`: the remark on white states holds for the first call of `check()`
  only; in a later call the states between the crossing and the target may be red
  already. The remark at `se05.cc:296` holds in every call (`Se05ColorsAreRight`).
* `bddalloc.cc:111`: of the variables others create, only those needed at once are
  used; the rest is lost to this allocator. `NoLeak` fails in `BddDict` when `Extern`
  allows blocks of two.
* `bdddict.cc:93`, `203`: after `register_all_variables_of()` the list of an owner
  may hold variables the owner uses. `FreshForMe` fails without `DisciplinedSpec`.
  (`bdddict.hh:156` also says that anonymous variables "will be used only by" their
  owner, although they are shared by design.)
* `common_trans.cc:481`, `848`: an alarm between `waitpid()` and `alarm(0)` ends the
  tool (`OnLateAlarm`).
* `common_trans.cc:510`, `826`: without `posix_spawn()`, a termination signal around
  `fork()` does not reach the child; `TerminationIsForwarded` is stated for the other
  build.
* `gv04.cc:396`: on weak automata with `Fin(0)`, `assert(bfs_start)` of
  `accepting_run()` can fail, because the search looks for an edge with a mark
  (`FirstBfsFails`).
* `twagraph.hh:557`, `562`: the documentation of `merge_edges()` says conjunction and
  intersection where the code takes unions, as it should.
* `twagraph.cc:520`: when `purge_dead_states()` resets the graph, vectors with an
  entry per state keep their length (`NamesFit`).

Places that are as delicate, and that no property reaches:

* `magic.cc:99`: a call of `check()` after a null pointer starts on a coloured heap;
  the specification of a search says nothing of calls after the answer null.
* `common_trans.cc:843`, `480`: an alarm between `alarm()` and `alarm_on = 3`, or
  before `setpgid()` of a slow child. The model has both, as behaviours in which the
  tool ends or a signal is lost; no comment promises otherwise.
* `tau03opt.cc:205`: edges labelled by false are followed; `FirstAnswersAreRight` is
  checked without them.
* `formula.cc:704`: products and sums of bounds of stars are truncated to a byte,
  which needs words too long to enumerate; `formula.hh:557`: a node with more than
  65535 operands is refused after its operands were taken over.
* `formula.hh:781`: `operator=()` of a formula to itself; copy and deletion are
  separate steps of the model.
* `canonicalize.cc:107`: renames and chains edges like `randomize()`, without removing
  the erased ones.
* `graph.hh:372`: the erasing iterator refers into a vector that `new_state()` may
  move; an iteration that erases is one step of the model.

## Plan

Modelled since the first version: Couvreur's check with its runs, the other nested
searches, GV04, formulas, explicit automata. Left, in this order:

1. `NdfsResult`: the search for a run after a nested search has answered, composed
   with `MagicSearch`; `ReportsAreRight` states the precondition for `Tau03`.
2. The other operators of `multop()` and `bunop()` (`Fusion`, `FStar`, `AndRat`,
   `AndNLM`, `OrRat`) in `Fnode`.
3. `TmpFiles`, composed with `ExecTimeout`: what is left in the file system when a
   signal ends the tool; `fixpool`.
4. Degeneralization and the parity game solver as functions, against a reference
   on small automata and games.

Proofs: the lowlinks of `Gv04`; the bookkeeping of `Tau03Opt`.

## Not modelled

Transformations of automata and of formulas (pure functions judged by language
equivalence, beyond small instances), parsers and printers (text), LTSmin and SAT
interfaces (foreign code), generators (test data), bindings (generated), and the
vendored libraries. `PROJECT.json` gives the reason part by part.
