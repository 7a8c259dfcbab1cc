SPECIFICATION Spec
CONSTANTS
  Owner = {a, b}
  nullptr = nullptr
  Formula = {p, q}
  nil = nil
  MaxVar = 4
  MaxN = 2
  InitVarnum = {0, 2}
  Extern = {1}
SYMMETRY Symmetry
INVARIANTS FreeIsUnused AnonListsAreLive MapsAgree
PROPERTIES MeaningIsStable
