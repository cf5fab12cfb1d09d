\* Two Programs, three instructions in all, three allocations.
CONSTANTS
  pa = pa
  pb = pb
  Progs <- MCProgs
  BranchPairs <- AllPairs
  MaxOps = 3
  MaxBufs = 3
  StrLen = 4
SYMMETRY MCSymmetry
SPECIFICATION Spec
CHECK_DEADLOCK FALSE
INVARIANTS RelativeSlotsSound RelativeSlotsOrdered

