SPECIFICATION Spec
CONSTANTS
  State = {0, 1, 2}
  s0 = 0
  Mark = {1, 2}
  Sat <- MCGeneralized
  Automata <- MCAutomata
  Options <- MCOptions
INVARIANTS RootsAreComponents DeadIsClosed RemIsComplete RunIsAccepting
PROPERTIES ImplementsEmptinessCheck EveryStepCounts
