------------------------------- MODULE Machine -------------------------------
(***************************************************************************)
(* The interpreter of src/new/src/tools/vm.cpp: a register file of        *)
(* std::vector<Value>(256), a text array of instruction words, and the    *)
(* dispatch loop run() with cooperative preemption.                        *)
(*                                                                         *)
(* run() executes cycles.  A cycle is a for loop of at most               *)
(* PREEMPTION_THRESHOLD iterations; each iteration calls                   *)
(* run_instruction(), which executes one instruction and keeps going for  *)
(* as long as the instruction it executed has the greedy bit (a greedy    *)
(* bundle).  After a bundle the loop counter is advanced by the bundle's  *)
(* length.  When the loop ends with instructions left the process is     *)
(* preempted (the point where a scheduler would run another process) and  *)
(* the next cycle starts.  HALT and the instructions vm.cpp does not      *)
(* implement make execute() return nullptr, which run() turns into ip_end. *)
(*                                                                         *)
(* pc names the point of run() the process is at:                         *)
(*   "cycle"  top of the while loop, a preemption point;                  *)
(*   "loop"   head of the for loop;                                        *)
(*   "run"    inside run_instruction's do-while, before *ip is read;      *)
(*   "halted" run() has returned;                                          *)
(*   "fault"  run_instruction read past the end of the text array.        *)
(***************************************************************************)
EXTENDS Executors, Sequences

CONSTANTS
  Texts,       \* the programs the loader may put in the text array
  TextWords,   \* size of the text array (std::array<..., 128>)
  Threshold    \* PREEMPTION_THRESHOLD (2)

ASSUME MachineAssumption ==
  /\ TextWords \in Nat \ {0}
  /\ Threshold \in Nat \ {0}
  /\ Texts # {}
  /\ Texts \subseteq Seq(Instr)
  /\ \A t \in Texts : Len(t) <= TextWords

VARIABLES
  text,       \* the text array, 1-based: text[1] is text.begin()
  registers,  \* the register file, Regs -> Value
  ip,         \* the instruction pointer; IpEnd is text.end()
  ipBefore,   \* ip_before: ip at the start of the current cycle
  bundleIp,   \* bundle_ip: ip at the start of the current bundle
  i,          \* the preemption counter of the for loop
  greedy,     \* greedy: whether the current bundle started greedy
  pc          \* the point of run() the process is at

vars == << text, registers, ip, ipBefore, bundleIp, i, greedy, pc >>

\* text.end(): one past the last word of the text array.
IpEnd == TextWords + 1

PCs == {"cycle", "loop", "run", "halted", "fault"}

\* The loader copies the program to the start of a zero-filled array.
Load(t) == [k \in 1 .. TextWords |-> IF k <= Len(t) THEN t[k] ELSE ZeroWord]

-----------------------------------------------------------------------------
(***************************************************************************)
(* run() and run_instruction() (vm.cpp:347-428).                           *)
(***************************************************************************)

Init ==
  /\ \E t \in Texts : text = Load(t)
  /\ registers = [r \in Regs |-> VoidValue]
  /\ ip = 1
  /\ ipBefore = 1
  /\ bundleIp = 1
  /\ i = 0
  /\ greedy = FALSE
  /\ pc = "cycle"

\* Top of the while loop with instructions left: remember where the
\* cycle starts and enter the for loop with a fresh counter.
CycleBegin ==
  /\ pc = "cycle"
  /\ ip # IpEnd
  /\ ipBefore' = ip
  /\ i' = 0
  /\ pc' = "loop"
  /\ UNCHANGED << text, registers, ip, bundleIp, greedy >>

\* Body of the for loop: note whether the word at ip is greedy and where
\* the bundle starts, then call run_instruction().
BundleBegin ==
  /\ pc = "loop"
  /\ i < Threshold
  /\ ip # IpEnd
  /\ greedy' = text[ip].greedy
  /\ bundleIp' = ip
  /\ pc' = "run"
  /\ UNCHANGED << text, registers, ip, ipBefore, i >>

\* A faulty RunGreedy whose executor returns ip instead of ip + 1.
RunGreedyNoAdvance ==
  /\ pc = "run"
  /\ ip # IpEnd
  /\ text[ip].greedy
  /\ ~Halts(text[ip].op)
  /\ registers' = Exec(text[ip], registers)
  /\ UNCHANGED << text, ip, ipBefore, bundleIp, i, greedy, pc >>

\* A faulty RunGreedy whose do-while tests only the greedy bit, not the
\* nullptr that execute() returns for a word ending the run.
RunGreedyPastHalt ==
  /\ pc = "run"
  /\ ip # IpEnd
  /\ text[ip].greedy
  /\ registers' = Exec(text[ip], registers)
  /\ ip' = ip + 1
  /\ UNCHANGED << text, ipBefore, bundleIp, i, greedy, pc >>

\* One turn of run_instruction's do-while after which it loops again:
\* the word executed has the greedy bit and execute() did not return
\* nullptr.
RunGreedy ==
  /\ pc = "run"
  /\ ip # IpEnd
  /\ text[ip].greedy
  /\ ~Halts(text[ip].op)
  /\ registers' = Exec(text[ip], registers)
  /\ ip' = ip + 1
  /\ UNCHANGED << text, ipBefore, bundleIp, i, greedy, pc >>

\* A faulty RunLast whose do-while ignores the greedy bit of the word
\* just executed and returns after every instruction.
RunLastIgnoringGreedy ==
  /\ pc = "run"
  /\ ip # IpEnd
  /\ registers' = Exec(text[ip], registers)
  /\ ip' = IF Halts(text[ip].op) THEN IpEnd ELSE ip + 1
  /\ i' = (IF greedy /\ ip' # IpEnd THEN i + (ip' - bundleIp) - 1 ELSE i) + 1
  /\ pc' = "loop"
  /\ UNCHANGED << text, ipBefore, bundleIp, greedy >>

\* A faulty RunLast that counts a greedy bundle as one instruction (no
\* adjustment of i by the bundle's length).
RunLastNoAdjust ==
  /\ pc = "run"
  /\ ip # IpEnd
  /\ ~text[ip].greedy \/ Halts(text[ip].op)
  /\ registers' = Exec(text[ip], registers)
  /\ ip' = IF Halts(text[ip].op) THEN IpEnd ELSE ip + 1
  /\ i' = i + 1
  /\ pc' = "loop"
  /\ UNCHANGED << text, ipBefore, bundleIp, greedy >>

\* A faulty RunLast that keeps the pointer execute() returned for a word
\* that ends the run, instead of turning nullptr into ip_end.
RunLastNoHaltEnd ==
  /\ pc = "run"
  /\ ip # IpEnd
  /\ ~text[ip].greedy \/ Halts(text[ip].op)
  /\ registers' = Exec(text[ip], registers)
  /\ ip' = ip + 1
  /\ i' = (IF greedy /\ ip' # IpEnd THEN i + (ip' - bundleIp) - 1 ELSE i) + 1
  /\ pc' = "loop"
  /\ UNCHANGED << text, ipBefore, bundleIp, greedy >>

\* The last turn of run_instruction's do-while, and the rest of the for
\* body: nullptr becomes ip_end; after a greedy bundle that did not halt
\* the counter is advanced by the bundle's length less one; then ++i.
RunLast ==
  /\ pc = "run"
  /\ ip # IpEnd
  /\ ~text[ip].greedy \/ Halts(text[ip].op)
  /\ registers' = Exec(text[ip], registers)
  /\ ip' = IF Halts(text[ip].op) THEN IpEnd ELSE ip + 1
  /\ i' = (IF greedy /\ ip' # IpEnd THEN i + (ip' - bundleIp) - 1 ELSE i) + 1
  /\ pc' = "loop"
  /\ UNCHANGED << text, ipBefore, bundleIp, greedy >>

\* run_instruction continues a greedy bundle whose last word is the last
\* word of the array: the next turn reads *ip at text.end().
Overrun ==
  /\ pc = "run"
  /\ ip = IpEnd
  /\ pc' = "fault"
  /\ UNCHANGED << text, registers, ip, ipBefore, bundleIp, i, greedy >>

\* The for loop ends: either the text is done (halted) or the process is
\* preempted and the while loop starts the next cycle.
LoopExit ==
  /\ pc = "loop"
  /\ ~(i < Threshold /\ ip # IpEnd)
  /\ pc' = IF ip = IpEnd THEN "halted" ELSE "cycle"
  /\ UNCHANGED << text, registers, ip, ipBefore, bundleIp, i, greedy >>

Next ==
  \/ CycleBegin
  \/ BundleBegin
  \/ RunGreedy
  \/ RunLast
  \/ Overrun
  \/ LoopExit

\* run() is a plain loop of one thread that never blocks: every enabled
\* step is eventually taken.
Spec == Init /\ [][Next]_vars /\ WF_vars(Next)

-----------------------------------------------------------------------------
TypeOK ==
  /\ text \in [1 .. TextWords -> Instr]
  /\ registers \in [Regs -> Value]
  /\ ip \in 1 .. IpEnd
  /\ ipBefore \in 1 .. IpEnd
  /\ bundleIp \in 1 .. TextWords
  /\ i \in Nat
  /\ greedy \in BOOLEAN
  /\ pc \in PCs

\* A preemption point never falls inside a greedy bundle: whenever the
\* process is at the top of run()'s while loop after executing something,
\* the word it executed last has no greedy bit (spec 8.5; the comment at
\* vm.cpp:377-382 and the do-while of run_instruction).
BundleAtomic ==
  pc = "cycle" /\ ip > 1 => ~text[ip - 1].greedy

\* A process is preempted only once it has used its quantum, and a cycle
\* overruns the quantum only by the bundle that crossed it: at a
\* preemption point the cycle executed at least PREEMPTION_THRESHOLD words,
\* and it had executed fewer when its last bundle began (the counter
\* adjustment i += (ip - bundle_ip) - 1 at vm.cpp:406-408).
QuantumUsed ==
  pc = "cycle" /\ ip > 1 =>
    /\ ip - ipBefore >= Threshold
    /\ bundleIp - ipBefore < Threshold

\* run() returns: every run of the dispatch loop reaches ip_end (or reads
\* past it).
Termination == <>(pc \in {"halted", "fault"})

\* run_instruction never reads a word past the end of the text array.
NoOverrun == pc # "fault"

\* run_instruction reads past text.end() only at the end of a greedy
\* bundle that reaches the last word of the array: when it faults, every
\* word from the start of the bundle to the end of the array has the
\* greedy bit and none of them made execute() return nullptr (the
\* do-while condition ip != nullptr and (instruction & GREEDY) of
\* vm.cpp:353-356).
OverrunOnlyByGreedyTail ==
  pc = "fault" =>
    \A k \in bundleIp .. TextWords : text[k].greedy /\ ~Halts(text[k].op)

\* An instruction the interpreter has no executor for ends the run (spec
\* section 7: decoding an unimplemented instruction terminates the loop):
\* execution never continues after such a word.
UnimplementedStops ==
  ip > 1 /\ ip # IpEnd => text[ip - 1].op \in Implemented

-----------------------------------------------------------------------------
(***************************************************************************)
(* Refinement.  run() implements the sequential machine: the words it      *)
(* executes, in RunGreedy and RunLast, are steps of SeqMachine; the       *)
(* preemption bookkeeping (CycleBegin, BundleBegin, a LoopExit that        *)
(* preempts) changes nothing SeqMachine sees; run() returning, or reading  *)
(* past the array, is SeqMachine's Stop.                                   *)
(***************************************************************************)
Status == IF pc \in {"halted", "fault"} THEN pc ELSE "running"

SM == INSTANCE SeqMachine WITH InitTexts <- {Load(t) : t \in Texts}, status <- Status

\* The interpreter executes the loaded words in order, one executor at a
\* time, and stops exactly where execute() returns nullptr or the array
\* ends (spec 4.8): every behaviour of run() is one of SeqMachine's.
SeqSpec == SM!Spec

=============================================================================
