# Formal models of the Viua VM prototype

This directory holds TLA+ models of the new-generation Viua VM under
`src/new/` (interpreter, assembler pipeline, ELF writer and loader) and
of the first-generation bytecode builder under `src/src/`. It has model-checking configurations for TLC and proofs
checked by TLAPS. `PROJECT.json` lists the components, runs, faulty
variants, the map from definitions to source lines, the findings, the
hazards and the theorems.

## The system

The repository holds two generations of the VM.

*New generation (`src/new/`)*. This is the system the models are about.
- `tools/asm.cpp` is a prototype assembler. It expands the `li`
  pseudoinstruction (load a 64-bit immediate) into LUI/ADDI/MUL/ADD words,
  writes a sample program into an ELF image, and holds test vectors for
  the split.
- `tools/exec/asm.cpp` is the real assembler pipeline. Its stages run in
  this order:
  - load value labels and function labels into the symbol table;
  - cook long immediates and pseudoinstructions;
  - find the entry point;
  - emit bytecode, with HALT at word 0;
  - build the relocation table;
  - `emit_elf`, which writes the segments, sections, symbol table and
    entry.
- `tools/vm.cpp` is the interpreter. Its loader reads the third program
  header, copies `p_filesz` bytes into a 128-word text array, and calls
  `run()`.
- `run()` executes cycles of at most `PREEMPTION_THRESHOLD` bundles. A
  bundle is a run of words joined by the greedy bit. `run_instruction`
  executes a whole bundle in its do-while. The counter is then advanced by
  the bundle's length, so a preemption point never falls inside a bundle.
- `execute()` decodes the format and opcode and calls an executor.
  Executors exist for ADD, MUL, DELETE, LUI, LUIU, ADDI, ADDIU and EBREAK.
  HALT, unimplemented T/S opcodes and all D/F opcodes return `nullptr`,
  which ends the run. Unknown E/R/N opcodes fall through to `ip + 1`.
- `vm/ins/aa.cpp` holds the AA executor. `vm.cpp` does not dispatch it.

The two tools talk through the image only: the assembler writes the
words, and the interpreter runs them.

*First generation (`src/src/`, `src/include/`)*. The spec (section 1)
calls this code superseded. It covers frames and the CPU, threads,
closures and the legacy opcodes.

## Modules

| Module | Models | Source |
|---|---|---|
| `Arch` | Word and field widths, value tags, opcodes by format, the decoded instruction record, the zero word | `vm.cpp` `Value`, `ins.h`, `asm.cpp` multiplier |
| `Executors` | `Exec` (all executors), `Halts`, `Implemented`, the uint64_t wrap | `vm.cpp:47-343` |
| `Machine` | The interpreter: `run()` and `run_instruction` as actions, the loader's copy, and the refinement mapping to `SeqMachine` | `vm.cpp:347-428`, loader `442-485` |
| `SeqMachine` | What `run()` promises: one word at a time from the first, until a halting word or the end | spec 4.8 |
| `ElfLayout` | `emit_elf`'s header list, offset loop, `e_entry` and write order; the loader's choice of program header | `exec/asm.cpp:565-963`, `vm.cpp:449-469` |
| `AsmPipeline` | The assembler's stages, one action each, then `emit_elf` and the VM loader | `exec/asm.cpp:68-524`, `main` `1192-1285` |
| `ProgramBuilder` | First-generation `Program`: every emitter, `jump`, `branch`, construction, copy, assignment, destruction | `programinstructions.cpp`, `program.h:17-163` |
| `MCAsmPipeline` | TLC instance: every program of at most three nodes over a small alphabet of functions and labels | |
| `MCProgramBuilder` | TLC instance: two `Program` objects | |
| `LoadImmediate` | `ToLoadingParts` (to_loading_parts_unsigned) and `OpLi` (both op_li overloads) | `asm.cpp:23-204` |
| `MCMachine` | TLC instance: every image over a 9-word alphabet (with and without the greedy bit) | |
| `MCLoadImmediate` | Composition: the image is `li $1, v; ebreak; halt` (the sample program of asm.cpp), run by `Machine` | |
| `MachineProofs` | TLAPS proofs about `Machine` | |
| `LoadImmediateProofs` | TLAPS proof about `ToLoadingParts` | |
| `MCLoadImmediateProofs` | TLAPS proof that the li split is correct in every state of `MCLoadImmediate` | |
| `ProgramBuilderProofs` | TLAPS proofs about `ProgramBuilder`: the inductive invariant, slot soundness, ordered slots | |

How `Machine` corresponds to the code (`Executors` holds the part of
it that is `execute()`):
- `text` is the `std::array` of 128 words, 1-based, with `IpEnd` standing
  for `text.end()`.
- `registers` is the `std::vector<Value>(256)`.
- `ip`, `ipBefore`, `bundleIp`, `i` and `greedy` are the locals of `run()`.
- `pc` is the point of `run()` the process is at:
  - `cycle` is the top of the while loop, the preemption point;
  - `loop` is the head of the for loop;
  - `run` is inside run_instruction's do-while;
  - `halted` means run() has returned;
  - `fault` means the do-while has read past the end of the array.
- One action per step of the code:
  - `CycleBegin` is the top of the while loop: `ip_before`, `i = 0`.
  - `BundleBegin` is the for body up to the call: `greedy`, `bundle_ip`.
  - `RunGreedy` is one turn of the do-while that loops again.
  - `RunLast` is the last turn, plus the nullptr-to-`ip_end` conversion,
    the greedy adjustment and `++i`.
  - `Overrun` is a do-while turn at `text.end()`.
  - `LoopExit` is the end of the for loop, which either halts or preempts.
- Words are kept decoded, as the operand record of their format. The bit
  codec (`ops.h`) is not in `src/`.

How `ProgramBuilder` corresponds to `class Program`:
- `live` is the set of constructed objects; `buf[p]` is the allocation
  `program` points into, numbered in the order `new byte[]` hands them
  out (`nextBuf`), and `addr[p]` is `addr_ptr - program`.
- `code[p]` is the sequence of instructions written to the buffer. Each
  records the offset it was written at, its size, and its 64-bit target
  fields (offset inside the instruction and jump type). `Fields(p)` is
  the set of target fields of the buffer, at their offsets in it.
- `branches` and `branches_absolute` hold pointers, modelled as an
  allocation and an offset (`Ptr`).
- One action per method: `Construct`, `Destroy`, `CopyConstruct`,
  `Assign`, one per emitter family (`EmitPlain` with the sizes the
  operands of the family give), `Jump` and `Branch`. The emitted
  instructions are bounded by `MaxOps` and the allocations by `MaxBufs`.
- The module uses only `Sequences` and `Functions` (no folds), so that
  the proofs can reason about it.

Widths are constants. The code has 64/28/36/24 (word, low part, E
immediate, R immediate). The li runs and the violation runs of
`MCMachine` use 14/9/5/5. That scale keeps `2^LowBits = 2^RBits * 16`
and the 16 < 2^RBits that loading the multiplier needs.
`machine_any_image` uses 10/9/1/5, the narrowest word these constraints
allow. Its properties are about the dispatch loop and do not depend on
the payload width; the wrap of `TypeOK` happens at any width. The
narrower word shortens the register cycles that a loop which never
advances `ip` goes through (the mutant `RunGreedyNoAdvance`), so TLC
finds that loop in seconds rather than minutes. TLC integers are 32 bits, so the real widths cannot be
run. The proofs cover every width.

## Runs

| Run | Expect | Checks | Shows |
|---|---|---|---|
| `machine_any_image` | pass | TypeOK, BundleAtomic, QuantumUsed, OverrunOnlyByGreedyTail, Termination | All 9^4·2^4 images of 4 words, threshold 2 (904,896 states) |
| `machine_overrun` | violation | NoOverrun | A greedy last word makes run_instruction read `text.end()` (vm.cpp:353) |
| `machine_unimplemented` | violation | UnimplementedStops | SUBIU (R-format, no executor) is skipped rather than stopping (vm.cpp:316, against spec 7) |
| `li_split` | pass | LiPartsReconstruct, SeqSpec | li of 15 literals at every split boundary, signed and unsigned; each image runs as `SeqMachine` prescribes, fairness included |
| `li_no_lui` | violation | LiLoadsValue | 429 (no high part, long low part) leaves r1 tagged Void (asm.cpp:112) |
| `li_short_low` | violation | LiLoadsValue | 1543 (high part, short low part) leaves r1 = 7 (asm.cpp:119) |
| `asm_pipeline` | pass | FunctionsInText, RelocsMatchRefs, LayoutConsistent, EntryAtEntryFunction | Every program of up to 3 nodes through all stages (218,867 states) |
| `asm_extern_label` | violation | ValidProgramsAssemble | A label after an extern label is never recorded (exec/asm.cpp:185) |
| `vm_misses_entry` | violation | VmRunsEntryFunction | With an entry function at `e_entry` = 1016, the VM's first word is at 984 (`.interp`): the loader's third header is PT_INTERP (vm.cpp:466, exec/asm.cpp:598) |
| `builder_slots` | pass | RelativeSlotsSound, RelativeSlotsOrdered | Two Programs, three emitted instructions, three allocations (310,297 states) |
| `builder_branch_false_slot` | violation | JumpTablesExact | branch() files the false slot by the truth type (programinstructions.cpp:703) |
| `builder_copy_drops_absolute` | violation | JumpTablesExact | The copy constructor drops `branches_absolute` (program.h:134); branches with equal types only |

Properties:
- `BundleAtomic`: at a preemption point, the last word executed has no
  greedy bit (spec 8.5).
- `QuantumUsed`: at a preemption point, the cycle has executed at least
  the threshold, and its last bundle began below it. Together these two
  pin down the greedy adjustment of vm.cpp:406-408.
- `OverrunOnlyByGreedyTail`: when run_instruction has read past
  `text.end()`, every word from the start of its bundle to the last word
  of the array is greedy and none of them halts. The do-while of
  vm.cpp:353 goes on only after such a word, so that is the one way to
  overrun; `machine_overrun` shows that such images exist.
- `Termination`: run() returns.
- `LiPartsReconstruct`: the split rebuilds the literal, and the parts fit
  their immediates (spec 8.2).
- `LiLoadsValue`: after li from a clean register file, r1 holds the
  literal with the right tag (spec 8.4).
- `SeqSpec` (`Machine`'s instance of `SeqMachine!Spec`): with `ip` and
  `text` as they are, and the status mapped from `pc`, every step of
  `run()` is a step of the sequential machine or a stutter, and the
  sequential machine's fairness holds.
- `FunctionsInText`: after emit_bytecode, the symbol of each non-extern
  function is word aligned, past HALT, inside `.text` (spec 8.3), and the
  words it covers are the function's cooked body.
- `RelocsMatchRefs`: exactly one relocation per CALL and ATOM, at the
  upper F word before it, of the right kind, naming the referenced label.
- `LayoutConsistent`: every section with contents is written at its
  `sh_offset` with `sh_size` bytes; each loadable segment covers its
  section; the header tables are where `e_phoff` and `e_shoff` say.
- `EntryAtEntryFunction`: `e_entry` is the file offset of the entry
  function's first word.
- `ValidProgramsAssemble`: assembly fails only for the errors of spec 7.
- `VmRunsEntryFunction`: when the program has an entry function, the
  first word run() executes (the first word the loader read) is the word
  at the file offset `e_entry` names (spec 3 and S1).
- `RelativeSlotsSound`: every slot in `branches` points into the
  Program's current buffer, at the target field of a jump or branch.
  branch() computes its slots from its own sizeof steps
  (`programinstructions.cpp:692-700`), and the model computes the fields
  from the encoder's layout (`BranchInstr`). So a slip in branch()'s
  arithmetic, such as a dropped `sizeof(bool)`, breaks this property.
- `RelativeSlotsOrdered`: the offsets in `branches` of a live Program
  increase strictly and are all below `addr_ptr`. jump() and branch()
  take their slots past `addr_ptr` before moving it, and branch() steps
  past the truth address before taking the false slot, so
  calculateJumps meets each relative field once, in the order emitted.
- `JumpTablesExact`: the two slot lists hold exactly the relative and the
  absolute target fields of the buffer, through pointers into the
  current buffer.

Bounds:
- Four words with threshold 2 are enough to have a bundle that crosses
  the threshold, one that ends exactly at it, two cycles, and a greedy
  last word.
- The alphabet holds one word of each kind of behaviour:
  - implemented: ADD, MUL, DELETE, LUIU, ADDIU, NOOP;
  - halting: HALT, and SUB, which has no executor;
  - skipped: SUBIU.
- LUIU loads the largest high part (`ESize - 1`), so MUL wraps.
- The li literals hit each branch of the split and each boundary: 0,
  2^RBits ± 1, 2^LowBits ± 1, their sum, and the top of the word.
- The refinement is model-checked on the li images, whose expansions are
  greedy bundles ending in HALT. On the 4-word images of
  `machine_any_image` it takes more than half an hour. Its safety part
  is proved for every image (below).
- Assembler programs have at most 3 nodes. The alphabet has functions
  that are plain, entry points or extern, with bodies that are empty,
  hold a plain op, an `li`, or a CALL or ATOM of a node. Labels are plain
  or extern, and are strings, repeated strings, non-integer repetitions
  or atoms. That gives two entry points, an extern label before another
  label, and references to functions, to labels and to nothing.
- The builder has two Programs, so that copies and assignments go both
  ways, and three instructions in all, so that a jump or branch can
  follow another instruction in a copied buffer. Each emitter family
  takes every size its operands give (strings of length 4).

Fairness: `WF_vars(Next)`. run() is a single thread that never blocks or
waits, so the one enabled step is always taken. Deadlock is not checked:
a halted machine has no step, which is what run() returning means.

Each property of a passing run has a faulty variant in its module
(`PROJECT.json` "mutants") that TLC shows it catches:
- `WrapNone` drops the uint64_t wrap;
- `RunLastIgnoringGreedy` returns from the do-while after every word;
- `RunLastNoAdjust` drops the counter adjustment;
- `RunGreedyNoAdvance` does not advance ip;
- `ToLoadingPartsLe` puts an off-by-one on the 24-bit test;
- `RunLastNoHaltEnd` moves on after a halting word (breaks `SeqSpec`);
- `EmitSizeInWords` records function sizes in words;
- `RelocAtInsn` puts the relocation at the instruction;
- `PlaceStepNoSkip` gives the NOBITS magic section file space;
- `EntryOfNoText` forgets `text_offset` in `e_entry`;
- `JumpSlotAtOpcode` remembers the opcode, not the target field;
- `RunGreedyPastHalt` keeps looping after a greedy HALT, testing only
  the greedy bit (breaks `OverrunOnlyByGreedyTail`);
- `BranchFalseAtTruth` takes branch()'s false slot without stepping
  past the truth address (breaks `RelativeSlotsOrdered`).

The pipeline is sequential and its stages run once, so its runs use no
fairness and stop at `done` or `failed` (deadlock is not checked). The
builder is driven by its client, which may stop at any time: no fairness,
and its states without a step (bounds reached) are not deadlocks.

## Findings

1. `op_li` with no high part and a low part of 2^24 or more emits no LUI.
   Its final `ADD r1, r1, r2` then reads r1's stale contents: from a clean
   file the tag stays Void, and from a used one the value is wrong.
2. `op_li` with a high part and a low part below 2^24 overwrites the LUI
   result with `ADDIU r1, void, base`. This is spec 8.2's
   0xdeadbeefd0adbeef case, and it contradicts spec 8.4. The spec's own
   expansion algorithm (4.6) has the same flaw.
3. run_instruction does not stop at `ip_end`.
4. Unknown E/R opcodes are silently skipped, against spec section 7.
5. `load_value_labels` returns from the whole function after the first
   extern label (`exec/asm.cpp:185`). Later labels get no symbol, and a
   valid program that refers to one fails to assemble.
6. `emit_elf` gives the void header pair a PT_NULL program header
   (`exec/asm.cpp:598`), ahead of the PT_NULL of `.viua.magic` and the
   PT_INTERP. The loader skips two headers and loads the third
   (`vm.cpp:458-468`). Its comments expect magic PT_NULL, PT_INTERP,
   PT_LOAD, but the third header is PT_INTERP. So the VM runs the 8 bytes
   of `viua-vm` as its text. `vm_misses_entry` shows this for a program
   with an entry function: `e_entry` is 1016 and `.text` starts at 1008,
   but the first word run is at 984.
7. run() starts at `text.begin()` (`vm.cpp:483`) and never reads
   `e_entry`, while `.text` starts with HALT. With finding 6 fixed, the
   VM would still start at 1008, not at 1016. The trace does not show
   this, because finding 6 comes first. `VmRunsEntryFunction` would
   catch it, since it compares against `e_entry` and not against the
   start of `.text`.
8. Legacy `Program::branch` picks the false slot's list by
   `absolute_truth` (`programinstructions.cpp:703`).
9. Legacy `Program`'s copy constructor does not copy `branches_absolute`.
10. Legacy `Program::operator=` leaves `branches_absolute` pointing into
    the deleted buffer. `JumpTablesExact` also catches this. TLC
    reports the shorter copy-constructor trace of
    `builder_copy_drops_absolute` first. No run shows this defect on its
    own: it is read from the code (`program.h:157`).

## Proofs

TLAPS checks these for every value of the constants allowed by the
assumptions:
- `Arch!ArchAssumption` and `ArchSizes` give the widths as range facts:
  `LowSize = RSize * 16`, `WordSize = LowSize * ESize` and `16 < RSize`.
  The provers do not reason about `2^n`, so the ranges are named
  constants tied to the widths by that assumption, and TLC evaluates it
  on every run.
- `Machine!MachineAssumption` says the programs are sequences of
  instructions no longer than the array.
- `ProgramBuilder!BuilderAssumption` says the bounds are naturals and
  `branch()` is passed jump types.
- `MCLoadImmediate!LiAssumption` says the li literals are words.

The theorems:
- `MachineProofs!TypeCorrect`: `Spec => []TypeOK`. It rests on two lemmas:
  - `ExecType`: every executor keeps the register file typed.
  - `LoadType`.

  The inductive invariant `TypeInv` adds two facts:
  - inside run_instruction, `bundleIp <= ip`. This is needed because the
    greedy adjustment could otherwise make `i` negative;
  - a preemption point is never at `ip_end`.
- `MachineProofs!BundleAtomicity`: `Spec => []BundleAtomic`. The
  invariant `BundleInv` extends the claim to the head of the for loop.
  Both points are reached only after the do-while has ended on a
  non-greedy word, or at ip_end.
- `MachineProofs!QuantumAccounting`: `Spec => []QuantumUsed`. The
  invariant `QuantumInv` states what the counter means:
  - at the loop head, `i = ip - ipBefore`;
  - inside a bundle, `i = bundleIp - ipBefore < Threshold`;
  - a bundle that began non-greedy is a single word;
  - the last bundle began below the threshold.

  TLC checked `QuantumInv` as an invariant before it was proved.
- `MachineProofs!OverrunCharacterised`:
  `Spec => []OverrunOnlyByGreedyTail`. The invariant `TailInv` states
  the claim for every point inside run_instruction, not only after the
  fault: while `pc` is "run" or "fault", every word from `bundleIp` to
  `ip - 1` is greedy and non-halting, and a fault is at `ip_end`.
  `RunGreedy` extends that range by the word its guard has just tested,
  `BundleBegin` starts it empty, and `Overrun` only changes `pc`.
  TLC checked the property on all images of `machine_any_image`.
- `LoadImmediateProofs!PartsCorrect`: for every word `v`,
  `PartsReconstruct(v)`. The argument is Euclidean division by
  `LowSize`, then by 16.

- `MachineProofs!Refinement`: `Spec => SM!Init /\ [][SM!Next]_SM!svars`,
  the safety part of `SeqSpec`. The lemma `SameExecutors` shows that
  `SM!Exec` and `SM!Halts` are `Exec` and `Halts`. `RefinementStep` then
  takes one case per action of `Machine`:
  - `CycleBegin`, `BundleBegin` and `Overrun` only change the
    preemption-loop state and are stutters;
  - `RunGreedy` and `RunLast` execute a word and are `Step`;
  - `LoopExit` is `Stop` at `ip_end` and a stutter elsewhere.

  No invariant is needed: the mapping keeps `ip` and `text` as they are.

- `MCLoadImmediateProofs!LiSplitCorrect`: `MCSpec => []LiPartsReconstruct`.
  The literal the image was assembled from never changes and is a word,
  so `PartsCorrect` applies in every state.
- `ProgramBuilderProofs!SlotsSound`: `Spec => []RelativeSlotsSound`.
  `RelativeSlotsSound` is not inductive by itself. The inductive
  invariant `IInv` adds:
  - `TypeOK`: the members hold naturals, pointers and sequences of
    instructions. The arithmetic on `addr_ptr` and the offsets needs
    them to be numbers, and `Range` needs the lists to be sequences.

  TLC checked `IInv` on the `builder_slots` instance (310,297 states)
  before it was proved. The step has one lemma per method:
  - `ConstructStep` and `DestroyStep`: the other objects are untouched;
  - `CopySlots`, used by `CopyConstructStep` and `AssignStep`: the copy's
    slots are the source's, rebased into the new buffer, and its
    instructions are the source's, so its fields are too;
  - `EmitPlainStep`, `JumpStep` and `BranchStep`, through
    `WriteSlotsStep`: writing an instruction keeps every field of the
    buffer (`FieldsAppend`), and a slot enters `branches` only when its
    own type is not `JMP_TO_BYTE`, at the offset of the target field the
    instruction carries. `RememberRel` states this for both slots of
    `branch()`, whichever list `absolute_truth` files them in, so the
    misfiling of finding 8 does not break this property.
- `ProgramBuilderProofs!SlotsOrdered`: `Spec => []RelativeSlotsOrdered`.
  Given `IInv` (for the types), the property is inductive by itself:
  - `OrderedAppend`, `OrderedWiden` and `RememberBelow` say that a slot
    at or past the bound keeps a list ordered below a larger bound;
  - `OrderedRebase` says that rebasing keeps every offset, so a copy's
    list is ordered below the copied `addr_ptr` (`CopyOrdered`);
  - `JumpOrdered` and `BranchOrdered` place the new slots at
    `addr + 1`, and at `addr + 6` and `addr + 14`, against a new
    `addr_ptr` of `addr + 9` and `addr + 22`.
  `OrderedWriteStep` is the step shared by every emitter.

Only model-checked:
- `Termination`, because TLAPS does not handle liveness here;
- `LiLoadsValue`, `JumpTablesExact` and the other violation runs: they
  are false of the code;
- the fairness part of `SeqSpec`, which is liveness;
- the pipeline properties (`FunctionsInText`, `RelocsMatchRefs`,
  `LayoutConsistent`, `EntryAtEntryFunction`). Their states are built
  with `FoldLeft`, `FoldSet` and `FlattenSeq` of `SequencesExt`. That
  module declares RECURSIVE operators, which take the SMT backend away
  from any module that reaches it. What a fold computes for every input
  would also need induction over sequences, which the provers cannot
  instantiate. The fold theorems of the community modules
  (`FoldsTheorems`, `FiniteSetsExt_theorems`) take the folded operator
  as a `NEW op(_, _)` parameter, which the installed provers cannot
  instantiate either;
- anything about particular programs.

## Not modelled

- The libs/stage helpers that `exec/asm.cpp` calls per instruction
  (`cook_long_immediates`, `expand_pseudoinstructions`,
  `emit_instruction`, `record_symbol`), the lexer, the parser and the
  bit codec (`ops.h`). They are not under `src/`. Their effects on a
  function body are modelled (`Cook`, `Expand`, `Record`), from the code
  that calls them and from the spec.
- Option parsing, error rendering and terminal output.
- AA (`vm/ins/aa.cpp`), which `vm.cpp` does not dispatch.
- The prototype assembler's ELF writer (`asm.cpp` main). It writes one
  fixed sample program, already modelled as the li image of
  `MCLoadImmediate`.
- The loader's unchecked read of `p_filesz` bytes. Every image
  `emit_elf` writes makes that read 8 bytes long.
- First generation, apart from the builder. The spec calls it
  superseded:
  - the CPU and its frames;
  - threads, closures and the opcode implementations, which rest on the
    types library, itself not under `src/`;
  - `Program::calculateJumps` and `countBytes`, declared in `program.h`
    but not defined under `src/`. For this reason the builder has no
    buffer capacity to check.
