\* Arbitrary 4-word images on a 10-bit machine (the narrowest word the
\* instruction formats allow) with PREEMPTION_THRESHOLD 2.
CONSTANTS
  WordBits = 10
  LowBits = 9
  EBits = 1
  RBits = 5
  NRegs = 4
  TextWords = 4
  Threshold = 2
  Texts <- MCTexts
SPECIFICATION Spec
INVARIANTS TypeOK BundleAtomic QuantumUsed OverrunOnlyByGreedyTail
PROPERTY Termination
\* run() returns once ip reaches text.end(): a halted machine has no step.
CHECK_DEADLOCK FALSE
