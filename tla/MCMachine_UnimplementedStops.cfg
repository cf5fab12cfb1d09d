\* UnimplementedStops on arbitrary 4-word images; expected to be violated.
CONSTANTS
  WordBits = 14
  LowBits = 9
  EBits = 5
  RBits = 5
  NRegs = 4
  TextWords = 4
  Threshold = 2
  Texts <- MCTexts
SPECIFICATION Spec
INVARIANT UnimplementedStops
\* run() returns once ip reaches text.end(): a halted machine has no step.
CHECK_DEADLOCK FALSE
