SPECIFICATION DisciplinedSpec
CONSTANTS
  Owner = {a, b}
  nullptr = nullptr
  Formula = {p}
  nil = nil
  MaxVar = 5
  MaxN = 2
  InitVarnum = {0, 2}
  Extern = {}
SYMMETRY Symmetry
INVARIANTS NoLeak
PROPERTIES FreshForMe
