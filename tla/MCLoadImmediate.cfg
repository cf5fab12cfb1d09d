\* li of literals at every boundary of the split (2^RBits, 2^LowBits, the
\* top of the word) on a 14-bit machine scaled from the 64-bit one.
CONSTANTS
  WordBits = 14
  LowBits = 9
  EBits = 5
  RBits = 5
  NRegs = 4
  TextWords = 9
  Threshold = 2
  Texts <- MCTexts
  LiValues = {0, 1, 31, 32, 33, 429, 511, 512, 513, 543, 544, 1543, 11693, 15872, 16383}
SPECIFICATION MCSpec
INVARIANT LiPartsReconstruct
PROPERTY SeqSpec
\* run() returns at HALT.
CHECK_DEADLOCK FALSE
