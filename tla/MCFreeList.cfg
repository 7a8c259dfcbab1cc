SPECIFICATION Spec
CONSTANTS
  MaxVar = 8
  MaxN = 3
INVARIANTS RangesAreCanonical ListsComputeSets
