\* li of a literal with a high part and a low part that fits RBits bits
\* (0xdeadbeefd0adbeef scaled): expected to violate LiLoadsValue.
CONSTANTS
  WordBits = 14
  LowBits = 9
  EBits = 5
  RBits = 5
  NRegs = 4
  TextWords = 9
  Threshold = 2
  Texts <- MCTexts
  LiValues = {1543}
SPECIFICATION MCSpec
INVARIANT LiLoadsValue
\* run() returns at HALT.
CHECK_DEADLOCK FALSE
