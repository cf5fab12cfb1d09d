----------------------------- MODULE Executors -----------------------------
(***************************************************************************)
(* execute() for one instruction word (vm.cpp:47-343): which opcodes have  *)
(* an executor, which ones end the run, and what an executor does to the   *)
(* register file.  Both the interpreter (Machine) and the sequential       *)
(* machine it implements (SeqMachine) are built on these.                 *)
(***************************************************************************)
EXTENDS Arch

\* The opcodes execute(ip) dispatches to an executor.
Implemented == {"ADD", "MUL", "DELETE", "LUI", "LUIU", "ADDI", "ADDIU",
                "NOOP", "HALT", "EBREAK"}

\* The words for which execute(ip) returns nullptr: HALT, the T- and
\* S-format opcodes that hit "default: unimplemented", and every D- and
\* F-format opcode.  Unknown E-, R- and N-format opcodes fall out of their
\* switch and return ip + 1.
Halts(op) ==
  \/ op = "HALT"
  \/ Format[op] \in {"D", "F"}
  \/ Format[op] \in {"T", "S"} /\ op \notin Implemented

\* The payload of R-format input "in": 0 for void (vm.cpp:146-148).
InValue(w, regs) == IF w.in = Void THEN 0 ELSE regs[w.in].val

\* A faulty variant of Wrap, for a result kept in a wider type than the
\* uint64_t register payload (the faulty variants in this module are the
\* bugs the properties are meant to catch).
WrapNone(x) == x

\* Unsigned 64-bit arithmetic: the results of the executors wrap.
Wrap(x) == x % WordSize

\* The register file after the executor of word w has run.
Exec(w, regs) ==
  CASE w.op = "ADD"  -> [regs EXCEPT ![w.out] =
                           [tag |-> regs[w.lhs].tag,
                            val |-> Wrap(regs[w.lhs].val + regs[w.rhs].val)]]
    [] w.op = "MUL"  -> [regs EXCEPT ![w.out] =
                           [tag |-> regs[w.lhs].tag,
                            val |-> Wrap(regs[w.lhs].val * regs[w.rhs].val)]]
    [] w.op = "DELETE" -> [regs EXCEPT ![w.out] = VoidValue]
    [] w.op \in {"LUI", "LUIU"} ->
         [regs EXCEPT ![w.out] =
            [tag |-> IF w.op = "LUI" THEN "Signed" ELSE "Unsigned",
             val |-> Wrap(w.imm * LowSize)]]
    [] w.op \in {"ADDI", "ADDIU"} ->
         [regs EXCEPT ![w.out] =
            [tag |-> IF w.op = "ADDI" THEN "Signed" ELSE "Unsigned",
             val |-> Wrap(InValue(w, regs) + w.imm)]]
    [] OTHER -> regs

=============================================================================
