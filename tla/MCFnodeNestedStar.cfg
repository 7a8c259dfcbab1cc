SPECIFICATION Spec
CONSTANTS
  p1 = p1
  p2 = p2
  Names = {p1, p2}
  NodeBound = 9
  LiveBound = 3
  RefMod = 4
  MaxMod = 32
  UnOps = {"Not"}
  BinOps = {"U"}
  MultOps = {"And", "Concat"}
  Ranges <- MCOpenRanges
  HeldBound = 2
  OperandBound = 2
  StarBound = 3
  Lasso <- MCLasso
  Length = 3
SYMMETRY MCSymmetry
INVARIANTS NestedStarIsKept
