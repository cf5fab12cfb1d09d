--------------------------- MODULE ProgramBuilder ---------------------------
(***************************************************************************)
(* The first-generation bytecode builder, class Program (include/viua/     *)
(* program.h and src/programinstructions.cpp).                             *)
(*                                                                         *)
(* A Program owns a byte buffer and a write pointer addr_ptr.  Every       *)
(* emitting method writes one instruction at addr_ptr and moves it past    *)
(* the instruction.  jump() and branch() also remember where the 64-bit    *)
(* target fields of the instruction lie, in branches (relative targets) or *)
(* branches_absolute (absolute targets), so that calculateJumps can later  *)
(* patch them; a JMP_TO_BYTE target is final and is not remembered.  The   *)
(* copy constructor and operator= duplicate the buffer and rebase the      *)
(* remembered pointers into the new one.                                   *)
(*                                                                         *)
(* A pointer is modelled as the allocation it points into and an offset.   *)
(* Instructions are kept as their size and the target fields they hold;    *)
(* their encoding (cg::bytecode, not in src/) is abstracted to the sizeof  *)
(* of their operands, as branch() itself counts them.                      *)
(***************************************************************************)
EXTENDS Naturals, Sequences, Functions

CONSTANTS
  Progs,        \* the Program objects of the client
  BranchPairs,  \* the (truth, false) jump types the client passes to branch()
  MaxOps,       \* bound on the instructions the client emits in all
  MaxBufs,      \* bound on the allocations made by new byte[]
  StrLen        \* length of the strings passed to the emitters

Relative == "JMP_RELATIVE"
Absolute == "JMP_ABSOLUTE"
ToByte   == "JMP_TO_BYTE"
JumpTypes == {Relative, Absolute, ToByte}

ASSUME BuilderAssumption ==
  /\ MaxOps \in Nat /\ MaxBufs \in Nat /\ StrLen \in Nat
  /\ BranchPairs \subseteq JumpTypes \X JumpTypes

(* sizeof of the operands: the opcode byte, an int_op (a bool at-register *)
(* flag and an int), a uint64_t address, a float, a byte, a string and its *)
(* zero.                                                                   *)
OpcodeSize == 1
BoolSize   == 1
IntSize    == 4
RegSize    == BoolSize + IntSize
AddrSize   == 8
FloatSize  == 4
ByteSize   == 1
StrSize    == StrLen + 1

VARIABLES
  live,              \* the Program objects that are constructed
  buf,               \* buf[p]: the allocation p.program points into
  addr,              \* addr[p]: addr_ptr - program
  code,              \* code[p]: the instructions written to p's buffer
  branches,          \* branches[p]: remembered relative target slots
  branchesAbsolute,  \* branches_absolute[p]: remembered absolute slots
  nextBuf,           \* the next allocation new byte[] returns
  emitted            \* instructions emitted so far (bounded by MaxOps)

vars == << live, buf, addr, code, branches, branchesAbsolute, nextBuf, emitted >>

Ptr(b, off) == [buf |-> b, off |-> off]
Instr(size, fields) == [size |-> size, fields |-> fields]
Field(at, type) == [at |-> at, type |-> type]

(* The target fields of a buffer holding the instructions c: their        *)
(* offsets and jump types.  Each instruction records the offset it was     *)
(* written at.                                                             *)
FieldsOf(c) ==
  UNION { { Field(c[k].at + f.at, f.type) : f \in c[k].fields } : k \in DOMAIN c }

Fields(p) == FieldsOf(code[p])

Init ==
  /\ live = {}
  /\ buf = [p \in Progs |-> 0]
  /\ addr = [p \in Progs |-> 0]
  /\ code = [p \in Progs |-> << >>]
  /\ branches = [p \in Progs |-> << >>]
  /\ branchesAbsolute = [p \in Progs |-> << >>]
  /\ nextBuf = 1
  /\ emitted = 0

(* Program(int bts): a zeroed buffer, addr_ptr at its start, no slots.     *)
Construct(p) ==
  /\ p \notin live
  /\ nextBuf <= MaxBufs
  /\ live' = live \cup {p}
  /\ buf' = [buf EXCEPT ![p] = nextBuf]
  /\ addr' = [addr EXCEPT ![p] = 0]
  /\ code' = [code EXCEPT ![p] = << >>]
  /\ branches' = [branches EXCEPT ![p] = << >>]
  /\ branchesAbsolute' = [branchesAbsolute EXCEPT ![p] = << >>]
  /\ nextBuf' = nextBuf + 1
  /\ UNCHANGED emitted

(* ~Program(): delete[] program.  The members of the object are gone, so  *)
(* they are reset to the values Init gives them.                           *)
Destroy(p) ==
  /\ p \in live
  /\ live' = live \ {p}
  /\ buf' = [buf EXCEPT ![p] = 0]
  /\ addr' = [addr EXCEPT ![p] = 0]
  /\ code' = [code EXCEPT ![p] = << >>]
  /\ branches' = [branches EXCEPT ![p] = << >>]
  /\ branchesAbsolute' = [branchesAbsolute EXCEPT ![p] = << >>]
  /\ UNCHANGED << nextBuf, emitted >>

(* program + (that.branches[i] - that.program), for each remembered slot.  *)
Rebase(slots, b) == [k \in DOMAIN slots |-> Ptr(b, slots[k].off)]

(***************************************************************************)
(* Program(const Program& that): a new buffer with the bytes and the write *)
(* offset of that, and that.branches rebased; the member initialiser list  *)
(* does not mention branches_absolute, which starts empty.                 *)
(***************************************************************************)
CopyConstruct(p, q) ==
  /\ p \notin live
  /\ q \in live
  /\ nextBuf <= MaxBufs
  /\ live' = live \cup {p}
  /\ buf' = [buf EXCEPT ![p] = nextBuf]
  /\ addr' = [addr EXCEPT ![p] = addr[q]]
  /\ code' = [code EXCEPT ![p] = code[q]]
  /\ branches' = [branches EXCEPT ![p] = Rebase(branches[q], nextBuf)]
  /\ branchesAbsolute' = [branchesAbsolute EXCEPT ![p] = << >>]
  /\ nextBuf' = nextBuf + 1
  /\ UNCHANGED emitted

(***************************************************************************)
(* operator=(const Program& that), this != &that: the old buffer is        *)
(* deleted and a copy of that's made; branches is emptied and refilled     *)
(* with that.branches rebased; branches_absolute is left as it was.  Self  *)
(* assignment changes nothing and is a stutter.                            *)
(***************************************************************************)
Assign(p, q) ==
  /\ p \in live
  /\ q \in live
  /\ p # q
  /\ nextBuf <= MaxBufs
  /\ buf' = [buf EXCEPT ![p] = nextBuf]
  /\ addr' = [addr EXCEPT ![p] = addr[q]]
  /\ code' = [code EXCEPT ![p] = code[q]]
  /\ branches' = [branches EXCEPT ![p] = Rebase(branches[q], nextBuf)]
  /\ nextBuf' = nextBuf + 1
  /\ UNCHANGED << live, branchesAbsolute, emitted >>

(* Write one instruction at addr_ptr and move addr_ptr past it.            *)
Write(p, ins) ==
  /\ p \in live
  /\ emitted < MaxOps
  /\ code' = [code EXCEPT ![p] = Append(@, [at |-> addr[p], size |-> ins.size,
                                             fields |-> ins.fields])]
  /\ addr' = [addr EXCEPT ![p] = @ + ins.size]
  /\ emitted' = emitted + 1

(* An instruction without target fields, of one of the given sizes.        *)
EmitPlain(p, sizes) ==
  /\ \E s \in sizes : Write(p, Instr(s, {}))
  /\ UNCHANGED << live, buf, branches, branchesAbsolute, nextBuf >>

(* nop, izero, istore, iadd ... ieq, iinc, idec.                           *)
EmitIntegerOp(p) ==
  EmitPlain(p, {OpcodeSize, OpcodeSize + RegSize, OpcodeSize + 2 * RegSize,
                OpcodeSize + 3 * RegSize})

(* fstore, fadd ... feq.                                                   *)
EmitFloatOp(p) ==
  EmitPlain(p, {OpcodeSize + RegSize + FloatSize, OpcodeSize + 3 * RegSize})

(* bstore, itof, ftoi, stoi, stof, strstore, vec ... vlen, lognot, logand, *)
(* logor.                                                                  *)
EmitDataOp(p) ==
  EmitPlain(p, {OpcodeSize + RegSize + ByteSize, OpcodeSize + RegSize,
                OpcodeSize + 2 * RegSize, OpcodeSize + 3 * RegSize,
                OpcodeSize + RegSize + StrSize})

(* move, copy, ref, ptr, swap, delete, empty, isnull, ress, tmpri, tmpro,  *)
(* print, echo.                                                            *)
EmitRegisterOp(p) ==
  EmitPlain(p, {OpcodeSize + RegSize, OpcodeSize + 2 * RegSize, OpcodeSize + StrSize})

(* enclose, enclosecopy, enclosemove, closure, function, fcall, frame,     *)
(* param, pamv, paref, arg, argc, call, thread, thjoin, threceive,         *)
(* watchdog.                                                               *)
EmitCallOp(p) ==
  EmitPlain(p, {OpcodeSize + StrSize, OpcodeSize + RegSize, OpcodeSize + 2 * RegSize,
                OpcodeSize + 3 * RegSize, OpcodeSize + RegSize + StrSize})

(* try, catch, pull, enter, throw, leave, import, link, class, derive,     *)
(* attach, register, new, msg, return, halt.                               *)
EmitBlockOp(p) ==
  EmitPlain(p, {OpcodeSize, OpcodeSize + 2 * StrSize, OpcodeSize + RegSize,
                OpcodeSize + StrSize, OpcodeSize + RegSize + StrSize,
                OpcodeSize + RegSize + 2 * StrSize})

(* Remember slot in the list for listType, unless type is JMP_TO_BYTE.     *)
Remember(lists, type, listType, slot) ==
  IF type = ToByte THEN lists
  ELSE [lists EXCEPT ![IF listType = Absolute THEN "abs" ELSE "rel"] = Append(@, slot)]

Lists(p) == [rel |-> branches[p], abs |-> branchesAbsolute[p]]

UpdateLists(p, l) ==
  /\ branches' = [branches EXCEPT ![p] = l.rel]
  /\ branchesAbsolute' = [branchesAbsolute EXCEPT ![p] = l.abs]

(* A faulty jump() that remembers addr_ptr, the opcode, as the slot.       *)
JumpSlotAtOpcode(p, type) ==
  /\ UpdateLists(p, Remember(Lists(p), type, type, Ptr(buf[p], addr[p])))
  /\ Write(p, Instr(OpcodeSize + AddrSize, {Field(OpcodeSize, type)}))
  /\ UNCHANGED << live, buf, nextBuf >>

(* jump(addr, is_absolute): the slot is addr_ptr + 1.                      *)
Jump(p, type) ==
  /\ UpdateLists(p, Remember(Lists(p), type, type, Ptr(buf[p], addr[p] + OpcodeSize)))
  /\ Write(p, Instr(OpcodeSize + AddrSize, {Field(OpcodeSize, type)}))
  /\ UNCHANGED << live, buf, nextBuf >>

(* The branch instruction as the encoder writes it: the opcode, the int_op *)
(* operand regc, then the truth and the false address.                     *)
BranchInstr(tt, tf) ==
  Instr(OpcodeSize + RegSize + 2 * AddrSize,
        {Field(OpcodeSize + RegSize, tt), Field(OpcodeSize + RegSize + AddrSize, tf)})

(* A faulty branch() that takes the false slot without stepping           *)
(* jump_position past the truth address.                                   *)
BranchFalseAtTruth(p, tt, tf) ==
  LET truthAt == OpcodeSize + BoolSize + IntSize
      falseAt == truthAt + AddrSize
      l1 == Remember(Lists(p), tt, tt, Ptr(buf[p], addr[p] + truthAt))
      l2 == Remember(l1, tf, tt, Ptr(buf[p], addr[p] + truthAt))
  IN  /\ UpdateLists(p, l2)
      /\ Write(p, BranchInstr(tt, tf))
      /\ UNCHANGED << live, buf, nextBuf >>

(***************************************************************************)
(* branch(regc, truth, absolute_truth, false, absolute_false): the truth   *)
(* slot is jump_position stepped past the opcode, the at-register flag and *)
(* the register index, the false slot one uint64_t further.  Each slot is  *)
(* remembered unless its own type is JMP_TO_BYTE, in the list that         *)
(* absolute_truth selects, for both slots; then the instruction is        *)
(* written.                                                                *)
(***************************************************************************)
Branch(p, tt, tf) ==
  LET truthAt == OpcodeSize + BoolSize + IntSize
      falseAt == truthAt + AddrSize
      l1 == Remember(Lists(p), tt, tt, Ptr(buf[p], addr[p] + truthAt))
      l2 == Remember(l1, tf, tt, Ptr(buf[p], addr[p] + falseAt))
  IN  /\ UpdateLists(p, l2)
      /\ Write(p, BranchInstr(tt, tf))
      /\ UNCHANGED << live, buf, nextBuf >>

Next ==
  \/ \E p \in Progs : Construct(p) \/ Destroy(p)
  \/ \E p, q \in Progs : CopyConstruct(p, q) \/ Assign(p, q)
  \/ \E p \in Progs : \/ EmitIntegerOp(p) \/ EmitFloatOp(p) \/ EmitDataOp(p)
                      \/ EmitRegisterOp(p) \/ EmitCallOp(p) \/ EmitBlockOp(p)
  \/ \E p \in Progs, t \in JumpTypes : Jump(p, t)
  \/ \E p \in Progs, pr \in BranchPairs : Branch(p, pr[1], pr[2])

Spec == Init /\ [][Next]_vars

-----------------------------------------------------------------------------
(* Every slot in branches of a live Program points into its own current    *)
(* buffer, at the target field of a jump or branch instruction there: what *)
(* calculateJumps patches through these pointers is a jump target, also    *)
(* after copies and assignments rebased them.                              *)
RelativeSlotsSound ==
  \A p \in live : \A s \in Range(branches[p]) :
    /\ s.buf = buf[p]
    /\ \E f \in Fields(p) : f.at = s.off /\ f.type # ToByte

(* The relative slots of a live Program lie in the bytes written so far,  *)
(* in strictly increasing order: jump() and branch() remember fields past *)
(* addr_ptr before moving it over the instruction, branch() steps its     *)
(* jump_position past the truth address before it takes the false slot,  *)
(* and the copy constructor and operator= rebase the slots with addr_ptr, *)
(* so calculateJumps meets each relative field once, in emission order.   *)
RelativeSlotsOrdered ==
  \A p \in live :
    /\ \A k \in DOMAIN branches[p] : branches[p][k].off < addr[p]
    /\ \A j, k \in DOMAIN branches[p] : j < k => branches[p][j].off < branches[p][k].off

(* The remembered slots of a live Program are exactly its target fields of *)
(* each type: every relative (absolute) field in branches (resp.           *)
(* branches_absolute), and nothing else, so that calculateJumps patches    *)
(* each target once and the right way, through the pointers into its      *)
(* current buffer (jump, branch, copy constructor, operator=).             *)
JumpTablesExact ==
  \A p \in live : \A t \in {Relative, Absolute} :
    LET slots == IF t = Absolute THEN branchesAbsolute[p] ELSE branches[p]
    IN  /\ \A s \in Range(slots) : s.buf = buf[p]
        /\ {s.off : s \in Range(slots)} = {f.at : f \in {g \in Fields(p) : g.type = t}}

=============================================================================
