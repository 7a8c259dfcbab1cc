SPECIFICATION Spec
CONSTANTS
  State = {0, 1, 2, 3}
  s0 = 0
  Mark = {"a", "b"}
  mark = "a"
  sets <- MCSets
  Slot = {0, 1}
  slot <- MCColliding
  Algos = {"CVWY90 bsh", "CVWY90 weak", "SE05", "SE05 bsh", "SE05 weak",
           "GV04", "GV04 weak", "Tau03", "Tau03_opt"}
  Single <- MCSingle
  Weak <- MCWeak
  Generalized <- MCTwoMarks
  Sat <- MCInf01
INVARIANTS ReportsAreRight LowlinksAreReached Se05ColorsAreRight PropagationIsComplete BookkeepingIsRight
PROPERTIES FirstAnswersAreRight
