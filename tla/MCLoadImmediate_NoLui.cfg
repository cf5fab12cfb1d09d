\* li of a literal whose high part is zero and whose low part needs the
\* split (0xdeadbeef scaled): expected to violate LiLoadsValue.
CONSTANTS
  WordBits = 14
  LowBits = 9
  EBits = 5
  RBits = 5
  NRegs = 4
  TextWords = 9
  Threshold = 2
  Texts <- MCTexts
  LiValues = {429}
SPECIFICATION MCSpec
INVARIANT LiLoadsValue
\* run() returns at HALT.
CHECK_DEADLOCK FALSE
