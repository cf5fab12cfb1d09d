\* All programs of up to three nodes, through every stage and the loader.
CONSTANTS
  WordBits = 14
  LowBits = 9
  EBits = 5
  RBits = 5
  NRegs = 4
  CommentSize = 16
  FileNameLen = 6
  Programs <- MCPrograms
SPECIFICATION Spec
\* The assembler exits after the last stage (or at the first error).
CHECK_DEADLOCK FALSE
INVARIANT ValidProgramsAssemble
