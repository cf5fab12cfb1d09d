\* Same-type branches only: does a copy keep its absolute slots?
CONSTANTS
  pa = pa
  pb = pb
  Progs <- MCProgs
  BranchPairs <- SamePairs
  MaxOps = 3
  MaxBufs = 3
  StrLen = 4
SYMMETRY MCSymmetry
SPECIFICATION Spec
CHECK_DEADLOCK FALSE
INVARIANT JumpTablesExact
