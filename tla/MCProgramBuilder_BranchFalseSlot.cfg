\* branch() with mixed target types: where does the false slot go?
CONSTANTS
  pa = pa
  pb = pb
  Progs <- MCProgs
  BranchPairs <- AllPairs
  MaxOps = 3
  MaxBufs = 3
  StrLen = 4
SYMMETRY MCSymmetry
SPECIFICATION Spec
CHECK_DEADLOCK FALSE
INVARIANT JumpTablesExact
