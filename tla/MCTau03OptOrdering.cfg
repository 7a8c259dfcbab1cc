SPECIFICATION Spec
CONSTANTS
  State = {0, 1, 2, 3}
  s0 = 0
  Mark = {"a", "b"}
  mark = "a"
  sets <- MCSets
  Slot = {0, 1}
  slot <- MCColliding
  Algos = {"Tau03_opt"}
  Single <- MCSingle
  Weak <- MCWeak
  Generalized <- MCTwoMarks
  Sat <- MCInf1
INVARIANT Tau03OptIsRight
