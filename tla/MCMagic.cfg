SPECIFICATION FairSpec
CONSTANTS
  State = {0, 1, 2}
  s0 = 0
  Mark = {"m"}
  Sat <- MCBuchi
  Automata <- MCAutomata
  Slot = {0, 1, 2}
  slot <- MCExplicit
INVARIANTS TypeOK RunIsAccepting
PROPERTIES ImplementsEmptinessCheck EnumerationEnds WhiteLeadsToRun
