---------------------------- MODULE LoadImmediate ----------------------------
(***************************************************************************)
(* The assembler's expansion of the li (load immediate) pseudoinstruction *)
(* (src/new/src/tools/asm.cpp): to_loading_parts_unsigned splits a word   *)
(* into the parts that fit the immediates of LUI and ADDI, and op_li      *)
(* emits the instruction sequence that is meant to rebuild the word in    *)
(* register 1, all of it but the last instruction marked greedy.          *)
(***************************************************************************)
EXTENDS Arch, Sequences

\* A faulty split that keeps a low part of exactly 2^24 whole, one more
\* than the R-format immediate can carry.
ToLoadingPartsLe(v) ==
  LET high == v \div LowSize
      low  == v % LowSize
      rem  == low % Multiplier
  IN  IF low <= RSize
      THEN [high |-> high, base |-> low, multiplier |-> 0, remainder |-> 0]
      ELSE [high |-> high, base |-> (low - rem) \div Multiplier,
            multiplier |-> Multiplier, remainder |-> rem]

\* to_loading_parts_unsigned (asm.cpp:23-50).  high is (value & HIGH_36)
\* >> 28 and low the value's low 28 bits.  A low part of at most 24 bits is
\* returned as the base with multiplier 0; a longer one is split into
\* base * 16 + remainder.
ToLoadingParts(v) ==
  LET high == v \div LowSize
      low  == v % LowSize
      rem  == low % Multiplier
  IN  IF low < RSize
      THEN [high |-> high, base |-> low, multiplier |-> 0, remainder |-> 0]
      ELSE [high |-> high, base |-> (low - rem) \div Multiplier,
            multiplier |-> Multiplier, remainder |-> rem]

\* op_li (asm.cpp:53-128 for uint64_t, 129-204 for int64_t): the two
\* overloads differ only in LUIU/ADDIU against LUI/ADDI.  The target is
\* always register 1; registers 2 and 3 are the temporaries.
OpLi(v, signed) ==
  LET p    == ToLoadingParts(v)
      lui  == IF signed THEN "LUI" ELSE "LUIU"
      addi == IF signed THEN "ADDI" ELSE "ADDIU"
      head == IF p.high # 0 THEN << InsE(lui, TRUE, 1, p.high) >> ELSE << >>
      body ==
        IF p.multiplier # 0
        THEN << InsR(addi, TRUE, 2, Void, p.base),
                InsR(addi, TRUE, 3, Void, p.multiplier),
                InsT("MUL", TRUE, 2, 2, 3),
                InsR(addi, TRUE, 3, Void, p.remainder),
                InsT("ADD", TRUE, 2, 2, 3),
                InsT("ADD", FALSE, 1, 1, 2) >>
        ELSE << InsR(addi, FALSE, 1, Void, p.base) >>
  IN  head \o body

\* The parts rebuild the literal and each fits the immediate field op_li
\* puts it in: high * 2^28 plus base (or base * 16 + remainder) is v; high
\* fits the 36-bit E immediate, base and remainder the 24-bit R immediate.
PartsReconstruct(v) ==
  LET p == ToLoadingParts(v)
  IN  /\ p.high * LowSize
           + (IF p.multiplier # 0 THEN p.base * p.multiplier + p.remainder
                                  ELSE p.base) = v
      /\ p.high < ESize
      /\ p.base < RSize
      /\ p.remainder < RSize
=============================================================================
