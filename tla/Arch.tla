-------------------------------- MODULE Arch --------------------------------
(***************************************************************************)
(* The binary contract shared by the assembler (src/new/src/tools/asm.cpp) *)
(* and the interpreter (src/new/src/tools/vm.cpp): the width of a machine *)
(* word, the widths of the immediate fields, the opcodes with their       *)
(* formats, the register file's value tags, and an instruction word.       *)
(*                                                                         *)
(* An instruction word is kept decoded, as the record the per-format      *)
(* decode of vm.cpp produces: opcode, greedy bit, and the register        *)
(* accesses and immediate of its format.  The bit layout of the word       *)
(* (ops.h) is not part of this repository's sources.                       *)
(*                                                                         *)
(* The widths are constants so that TLC can run a scaled machine: the     *)
(* code has WordBits = 64, LowBits = 28 (the shift of LUI and the mask    *)
(* HIGH_36), EBits = 36 and RBits = 24; the ratio 2^LowBits = 2^RBits * 16 *)
(* (the multiplier of op_li) is kept at every scale.                       *)
(***************************************************************************)
EXTENDS Integers

CONSTANTS
  WordBits,   \* width of a register payload (uint64_t: 64)
  LowBits,    \* bits loaded below the LUI immediate (<< 28)
  EBits,      \* width of the E-format immediate (36)
  RBits,      \* width of the R-format immediate (24)
  NRegs       \* registers per register file (std::vector<Value>(256))

\* The widths the code relies on: LUI's 36 bits sit exactly above the low
\* 28 bits of a word, and the low bits split into a 24-bit base times the
\* multiplier 16.
ASSUME ArchAssumption ==
  /\ WordBits \in Nat \ {0}
  /\ LowBits \in Nat \ {0}
  /\ EBits \in Nat \ {0}
  /\ RBits \in Nat
  /\ WordBits = LowBits + EBits
  /\ LowBits = RBits + 4
  /\ NRegs \in Nat /\ NRegs >= 4

\* The ranges of a word and of its fields.
WordSize == 2^WordBits
LowSize  == 2^LowBits
ESize    == 2^EBits
RSize    == 2^RBits

\* The same widths as facts about the ranges, which is the form the
\* proofs use (they follow from ArchAssumption by arithmetic on powers
\* of two); the last conjunct says that 16 fits the 24-bit immediate
\* that loads it.
ASSUME ArchSizes ==
  /\ RSize \in Nat \ {0}
  /\ ESize \in Nat \ {0}
  /\ LowSize = RSize * 16
  /\ WordSize = LowSize * ESize
  /\ 16 < RSize

\* The multiplier op_li splits a long low part with (asm.cpp:45).
Multiplier == 16

\* The payloads a register can hold: uint64_t.
Word == 0 .. (WordSize - 1)

\* Register indices; register 0 exists but op_li uses 1, 2 and 3.
Regs == 0 .. (NRegs - 1)

\* Register_access::make_void(): the "no register" operand.
Void == -1

\* Value::Unboxed_type (vm.cpp:25-32).
Tags == {"Void", "Byte", "Signed", "Unsigned", "Float_single", "Float_double"}

\* A register slot: a tag and the uint64_t alternative of Value::value.
Value == [tag : Tags, val : Word]

\* A slot of the register file as std::vector<Value>(256) creates it.
VoidValue == [tag |-> "Void", val |-> 0]

\* The opcodes this model uses, by format.  T: out, lhs, rhs; S: out;
\* E: out, 36-bit immediate; R: out, in, 24-bit immediate; N: nothing;
\* D: out, in.
Format ==
  [op \in {"ADD", "MUL", "SUB", "DELETE", "FRAME", "LUI", "LUIU",
           "ADDI", "ADDIU", "SUBIU", "NOOP", "HALT", "EBREAK", "CALL"} |->
     CASE op \in {"ADD", "MUL", "SUB"}            -> "T"
       [] op \in {"DELETE", "FRAME"}             -> "S"
       [] op \in {"LUI", "LUIU"}                 -> "E"
       [] op \in {"ADDI", "ADDIU", "SUBIU"}      -> "R"
       [] op \in {"NOOP", "HALT", "EBREAK"}      -> "N"
       [] op = "CALL"                            -> "D"]

Ops == DOMAIN Format

\* A decoded instruction word.  "in" is the R-format input, which may be
\* void; T-format instructions read lhs and rhs.
Instr == [op : Ops, greedy : BOOLEAN, out : Regs, in : Regs \cup {Void},
          lhs : Regs, rhs : Regs, imm : Nat]

\* Constructors for the words the assembler emits.
InsE(op, g, out, imm)      == [op |-> op, greedy |-> g, out |-> out, in |-> Void,
                               lhs |-> 0, rhs |-> 0, imm |-> imm]
InsR(op, g, out, in, imm)  == [op |-> op, greedy |-> g, out |-> out, in |-> in,
                               lhs |-> 0, rhs |-> 0, imm |-> imm]
InsT(op, g, out, lhs, rhs) == [op |-> op, greedy |-> g, out |-> out, in |-> Void,
                               lhs |-> lhs, rhs |-> rhs, imm |-> 0]
InsS(op, g, out)           == InsT(op, g, out, 0, 0)
InsN(op)                   == InsT(op, FALSE, 0, 0, 0)

\* The all-zero word that fills the unused tail of the VM's text array:
\* opcode 0, format N, no greedy bit.
ZeroWord == InsN("NOOP")
=============================================================================
