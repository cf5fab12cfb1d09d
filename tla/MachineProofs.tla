---------------------------- MODULE MachineProofs ----------------------------
(***************************************************************************)
(* Proofs about the dispatch loop of vm.cpp (module Machine) for every     *)
(* word width, text size, program set and PREEMPTION_THRESHOLD allowed by  *)
(* the assumptions of Arch and Machine.                                    *)
(***************************************************************************)
EXTENDS Machine, TLAPS

\* The range facts every proof about register payloads needs.
LEMMA SizesPositive ==
  /\ WordSize \in Nat \ {0}
  /\ LowSize \in Nat \ {0}
  /\ RSize \in Nat \ {0}
  /\ ESize \in Nat \ {0}
BY ArchSizes

\* An executor of vm.cpp leaves every register holding a tagged uint64_t:
\* the arithmetic wraps modulo 2^64 and the tags are the ones
\* Value::Unboxed_type has.
LEMMA ExecType ==
  ASSUME NEW w \in Instr, NEW regs \in [Regs -> Value]
  PROVE  Exec(w, regs) \in [Regs -> Value]
<1> USE SizesPositive, ArchAssumption
<1>1. InValue(w, regs) \in Nat
  BY DEF InValue, Instr, Value, Word
<1>2. CASE w.op = "ADD"
  BY <1>2 DEF Exec, Wrap, Instr, Value, Word, Tags
<1>3. CASE w.op = "MUL"
  BY <1>3 DEF Exec, Wrap, Instr, Value, Word, Tags
<1>4. CASE w.op = "DELETE"
  BY <1>4 DEF Exec, Wrap, Instr, Value, Word, Tags, VoidValue
<1>5. CASE w.op \in {"LUI", "LUIU"}
  BY <1>5 DEF Exec, Wrap, Instr, Value, Word, Tags
<1>6. CASE w.op \in {"ADDI", "ADDIU"}
  BY <1>1, <1>6 DEF Exec, Wrap, Instr, Value, Word, Tags
<1>7. CASE ~(w.op \in {"ADD", "MUL", "DELETE", "LUI", "LUIU", "ADDI", "ADDIU"})
  BY <1>7 DEF Exec
<1> QED
  BY <1>2, <1>3, <1>4, <1>5, <1>6, <1>7

\* The loader puts a program into a text array of TextWords decoded words.
LEMMA LoadType ==
  ASSUME NEW t \in Texts
  PROVE  Load(t) \in [1 .. TextWords -> Instr]
<1>1. t \in Seq(Instr) /\ Len(t) <= TextWords
  BY MachineAssumption
<1>2. ZeroWord \in Instr
  BY ArchAssumption DEF ZeroWord, InsN, InsT, Instr, Ops, Format, Regs
<1> QED
  BY <1>1, <1>2 DEF Load

\* The state the proofs carry along: the type invariant, the position of
\* the bundle start below ip inside run_instruction (it is where the
\* bundle began, and the do-while only moves ip forward), and the fact
\* that a preemption point is never at ip_end (run() leaves its while loop
\* there).
TypeInv ==
  /\ TypeOK
  /\ pc = "run" => bundleIp <= ip
  /\ pc = "cycle" => ip # IpEnd

\* The dispatch loop keeps every variable in its type: in particular the
\* preemption counter, which the greedy adjustment of vm.cpp:406-408 moves
\* by ip - bundle_ip - 1, never goes negative.
LEMMA TypeInvInductive ==
  ASSUME TypeInv, [Next]_vars
  PROVE  TypeInv'
<1> USE MachineAssumption, ArchAssumption DEF TypeInv, TypeOK
<1>1. CASE CycleBegin
  BY <1>1 DEF CycleBegin, IpEnd, PCs
<1>2. CASE BundleBegin
  BY <1>2 DEF BundleBegin, IpEnd, PCs, Instr
<1>3. CASE RunGreedy
  <2>1. registers' \in [Regs -> Value]
    BY <1>3, ExecType DEF RunGreedy, IpEnd
  <2> QED
    BY <1>3, <2>1 DEF RunGreedy, IpEnd
<1>4. CASE RunLast
  <2>1. registers' \in [Regs -> Value]
    BY <1>4, ExecType DEF RunLast, IpEnd
  <2>2. i' \in Nat
    BY <1>4 DEF RunLast, IpEnd
  <2> QED
    BY <1>4, <2>1, <2>2 DEF RunLast, IpEnd, PCs
<1>5. CASE Overrun
  BY <1>5 DEF Overrun, PCs
<1>6. CASE LoopExit
  BY <1>6 DEF LoopExit, PCs
<1>7. CASE UNCHANGED vars
  BY <1>7 DEF vars
<1> QED
  BY <1>1, <1>2, <1>3, <1>4, <1>5, <1>6, <1>7 DEF Next

\* The loader's initial state is well typed.
LEMMA InitTypeInv == Init => TypeInv
<1> SUFFICES ASSUME Init PROVE TypeInv
  OBVIOUS
<1>1. VoidValue \in Value
  BY SizesPositive DEF VoidValue, Value, Word, Tags
<1>2. text \in [1 .. TextWords -> Instr]
  BY LoadType DEF Init
<1>3. registers \in [Regs -> Value]
  BY <1>1 DEF Init
<1>4. TextWords \in Nat \ {0}
  BY MachineAssumption
<1>5. /\ ip \in 1 .. IpEnd /\ ipBefore \in 1 .. IpEnd
      /\ bundleIp \in 1 .. TextWords /\ i \in Nat
  BY <1>4 DEF Init, IpEnd
<1>6. greedy \in BOOLEAN /\ pc \in PCs /\ pc = "cycle"
  BY Zenon DEF Init, PCs
<1>7. ip # IpEnd
  BY <1>4 DEF Init, IpEnd
<1> QED
  BY <1>2, <1>3, <1>5, <1>6, <1>7 DEF TypeInv, TypeOK

\* Every state of the dispatch loop is well typed (TypeOK, checked by
\* every run of MCMachine).
THEOREM TypeCorrect == Spec => []TypeOK
<1>1. Init => TypeInv
  BY InitTypeInv
<1> QED
  BY <1>1, TypeInvInductive, PTL DEF Spec, TypeInv
-----------------------------------------------------------------------------
\* The strengthening of BundleAtomic: it holds at the head of the for
\* loop as well as at the top of the while loop, since both are reached
\* only when run_instruction's do-while has ended on a non-greedy word
\* (or before anything ran, or at ip_end).
BundleInv ==
  /\ TypeInv
  /\ pc \in {"loop", "cycle"} /\ ip > 1 /\ ip # IpEnd => ~text[ip - 1].greedy

LEMMA BundleInvInductive ==
  ASSUME BundleInv, [Next]_vars
  PROVE  BundleInv'
<1> USE MachineAssumption
<1>1. TypeInv'
  BY TypeInvInductive DEF BundleInv
<1> SUFFICES pc' \in {"loop", "cycle"} /\ ip' > 1 /\ ip' # IpEnd
               => ~text'[ip' - 1].greedy
  BY <1>1 DEF BundleInv
<1>2. CASE CycleBegin
  BY <1>2 DEF BundleInv, CycleBegin
<1>3. CASE BundleBegin \/ RunGreedy \/ Overrun
  BY <1>3 DEF BundleBegin, RunGreedy, Overrun
<1>4. CASE RunLast /\ Halts(text[ip].op)
  BY <1>4 DEF RunLast
<1>5. CASE RunLast /\ ~Halts(text[ip].op)
  <2>1. ip' = ip + 1 /\ text' = text /\ ~text[ip].greedy
    BY <1>5 DEF RunLast
  <2>2. ip \in Int
    BY DEF BundleInv, TypeInv, TypeOK, IpEnd
  <2> QED
    BY <2>1, <2>2
<1>6. CASE LoopExit
  BY <1>6 DEF BundleInv, LoopExit
<1>7. CASE UNCHANGED vars
  BY <1>7 DEF BundleInv, vars
<1> QED
  BY <1>2, <1>3, <1>4, <1>5, <1>6, <1>7 DEF Next

\* No preemption point of run() falls inside a greedy bundle, for every
\* program and every PREEMPTION_THRESHOLD (BundleAtomic, checked by the
\* runs of MCMachine and MCLoadImmediate).
THEOREM BundleAtomicity == Spec => []BundleAtomic
<1>1. Init => BundleInv
  BY InitTypeInv DEF Init, BundleInv
<1>2. BundleInv => BundleAtomic
  BY DEF BundleInv, TypeInv, BundleAtomic
<1> QED
  BY <1>1, <1>2, BundleInvInductive, PTL DEF Spec
-----------------------------------------------------------------------------
\* The strengthening of QuantumUsed: the preemption counter i counts the
\* words executed in the cycle (at the head of the for loop, ip -
\* ip_before; inside run_instruction, the words before the bundle), a
\* bundle that did not start greedy is a single word, and the last bundle
\* of a cycle began below the threshold.
QuantumInv ==
  /\ TypeInv
  /\ pc = "loop" /\ ip # IpEnd => i = ip - ipBefore
  /\ pc = "loop" /\ i > 0 => bundleIp - ipBefore < Threshold
  /\ pc = "run" => i = bundleIp - ipBefore /\ i < Threshold
  /\ pc = "run" /\ ~greedy => ip = bundleIp /\ ~text[ip].greedy
  /\ pc = "cycle" /\ ip > 1 =>
       /\ ip - ipBefore >= Threshold
       /\ bundleIp - ipBefore < Threshold

LEMMA QuantumInvInductive ==
  ASSUME QuantumInv, [Next]_vars
  PROVE  QuantumInv'
<1> USE MachineAssumption
<1>1. TypeInv'
  BY TypeInvInductive DEF QuantumInv
<1>2. TypeOK /\ pc = "run" => bundleIp <= ip
  BY DEF QuantumInv, TypeInv
<1> USE DEF QuantumInv
<1>3. CASE CycleBegin
  BY <1>1, <1>2, <1>3 DEF CycleBegin, TypeInv, TypeOK, IpEnd
<1>4. CASE BundleBegin
  BY <1>1, <1>2, <1>4 DEF BundleBegin, TypeInv, TypeOK, IpEnd
<1>5. CASE RunGreedy
  BY <1>1, <1>2, <1>5 DEF RunGreedy, TypeInv, TypeOK, IpEnd
<1>6. CASE RunLast
  <2>1. CASE Halts(text[ip].op)
    BY <1>1, <1>2, <1>6, <2>1 DEF RunLast, TypeInv, TypeOK, IpEnd
  <2>2. CASE ~Halts(text[ip].op) /\ greedy
    BY <1>1, <1>2, <1>6, <2>2 DEF RunLast, TypeInv, TypeOK, IpEnd
  <2>3. CASE ~Halts(text[ip].op) /\ ~greedy
    BY <1>1, <1>2, <1>6, <2>3 DEF RunLast, TypeInv, TypeOK, IpEnd
  <2> QED
    BY <2>1, <2>2, <2>3
<1>7. CASE Overrun
  BY <1>1, <1>7 DEF Overrun, TypeInv, TypeOK, IpEnd
<1>8. CASE LoopExit
  BY <1>1, <1>2, <1>8 DEF LoopExit, TypeInv, TypeOK, IpEnd
<1>9. CASE UNCHANGED vars
  BY <1>1, <1>9 DEF vars
<1> QED
  BY <1>3, <1>4, <1>5, <1>6, <1>7, <1>8, <1>9 DEF Next

\* A process is preempted only after it has executed PREEMPTION_THRESHOLD
\* words of the cycle, and its last bundle began below the threshold, for
\* every program and threshold (QuantumUsed, checked by the runs of
\* MCMachine and MCLoadImmediate).
THEOREM QuantumAccounting == Spec => []QuantumUsed
<1>1. Init => QuantumInv
  BY InitTypeInv DEF Init, QuantumInv
<1>2. QuantumInv => QuantumUsed
  BY DEF QuantumInv, QuantumUsed
<1> QED
  BY <1>1, <1>2, QuantumInvInductive, PTL DEF Spec
-----------------------------------------------------------------------------
\* The strengthening of OverrunOnlyByGreedyTail: inside run_instruction
\* (and once it has faulted) every word from the bundle start up to ip has
\* been executed by a turn of the do-while that looped again, so it is
\* greedy and did not end the run; a fault happens only at ip_end.
GreedyRun(k) == text[k].greedy /\ ~Halts(text[k].op)

TailInv ==
  /\ TypeInv
  /\ pc \in {"run", "fault"} => \A k \in bundleIp .. ip - 1 : GreedyRun(k)
  /\ pc = "fault" => ip = IpEnd

LEMMA TailInvInductive ==
  ASSUME TailInv, [Next]_vars
  PROVE  TailInv'
<1> USE MachineAssumption
<1>1. TypeInv'
  BY TypeInvInductive DEF TailInv
<1>2. TypeOK
  BY DEF TailInv, TypeInv
<1> SUFFICES /\ pc' \in {"run", "fault"} =>
                  \A k \in bundleIp' .. ip' - 1 : GreedyRun(k)'
             /\ pc' = "fault" => ip' = IpEnd
  BY <1>1 DEF TailInv
<1>3. CASE BundleBegin
  BY <1>2, <1>3 DEF BundleBegin, TypeOK, IpEnd
<1>4. CASE RunGreedy
  <2>1. ip \in Int /\ ip' = ip + 1 /\ UNCHANGED << text, bundleIp, pc >>
    BY <1>2, <1>4 DEF RunGreedy, TypeOK, IpEnd
  <2>2. GreedyRun(ip)
    BY <1>4 DEF RunGreedy, GreedyRun
  <2>3. \A k \in bundleIp .. ip - 1 : GreedyRun(k)
    BY <1>4 DEF RunGreedy, TailInv
  <2>4. bundleIp \in Int
    BY <1>2 DEF TypeOK
  <2>5. \A k \in bundleIp .. ip : GreedyRun(k)
    BY <2>1, <2>2, <2>3, <2>4
  <2>6. \A k \in bundleIp .. ip : GreedyRun(k)' = GreedyRun(k)
    BY <2>1 DEF GreedyRun
  <2>7. pc' = "run" /\ bundleIp' .. ip' - 1 = bundleIp .. ip
    BY <1>4, <2>1 DEF RunGreedy
  <2> QED
    BY <2>5, <2>6, <2>7
<1>5. CASE Overrun
  BY <1>5 DEF Overrun, TailInv, GreedyRun
<1>6. CASE CycleBegin \/ RunLast \/ LoopExit
  BY <1>6 DEF CycleBegin, RunLast, LoopExit
<1>7. CASE UNCHANGED vars
  BY <1>7 DEF TailInv, GreedyRun, vars
<1> QED
  BY <1>3, <1>4, <1>5, <1>6, <1>7 DEF Next

\* run_instruction reads past the text array only at the end of a greedy,
\* non-halting bundle that reaches its last word, for every program, text
\* size and threshold (OverrunOnlyByGreedyTail, checked by the run
\* machine_any_image).
THEOREM OverrunCharacterised == Spec => []OverrunOnlyByGreedyTail
<1>1. Init => TailInv
  BY InitTypeInv DEF Init, TailInv
<1>2. TailInv => OverrunOnlyByGreedyTail
  BY MachineAssumption DEF TailInv, OverrunOnlyByGreedyTail, GreedyRun, IpEnd
<1> QED
  BY <1>1, <1>2, TailInvInductive, PTL DEF Spec
-----------------------------------------------------------------------------
(***************************************************************************)
(* Refinement, safety part: run() implements the sequential machine.  No   *)
(* invariant is needed: each action's own guard says where it is, and the *)
(* mapping Status reads only pc.                                           *)
(***************************************************************************)

\* SeqMachine's executors are Machine's: the instance substitutes the same
\* constants, so both expand to the same formulas.
LEMMA SameExecutors ==
  /\ \A w, r : SM!Exec(w, r) = Exec(w, r)
  /\ \A op : SM!Halts(op) = Halts(op)
<1>1. \A w, r : SM!Exec(w, r) = Exec(w, r)
  BY DEF SM!Exec, Exec, SM!Wrap, Wrap, SM!InValue, InValue, SM!VoidValue, VoidValue,
         SM!WordSize, WordSize, SM!LowSize, LowSize, SM!Void, Void
<1>2. \A op : SM!Halts(op) = Halts(op)
  BY DEF SM!Halts, Halts, SM!Format, Format, SM!Implemented, Implemented
<1> QED
  BY <1>1, <1>2

\* The loader's image starts SeqMachine: the first word, a clean register
\* file, and a running process.
LEMMA RefinementInit == Init => SM!Init
<1> SUFFICES ASSUME Init PROVE SM!Init
  OBVIOUS
<1>1. text \in {Load(t) : t \in Texts}
  BY DEF Init
<1>2. Status = "running"
  BY DEF Init, Status
<1> QED
  BY <1>1, <1>2 DEF Init, SM!Init, SM!Regs, SM!VoidValue, Regs, VoidValue

\* Every step of run() is a step of SeqMachine or leaves what SeqMachine
\* sees unchanged.
LEMMA RefinementStep == [Next]_vars => [SM!Next]_SM!svars
<1> SUFFICES ASSUME [Next]_vars PROVE [SM!Next]_SM!svars
  OBVIOUS
<1>1. CASE CycleBegin
  BY <1>1 DEF CycleBegin, Status, SM!svars
<1>2. CASE BundleBegin
  BY <1>2 DEF BundleBegin, Status, SM!svars
<1>3. CASE RunGreedy
  <2>1. Status = "running" /\ Status' = "running"
    BY <1>3 DEF RunGreedy, Status
  <2>2. ip # SM!End /\ ip' = IF SM!Halts(text[ip].op) THEN SM!End ELSE ip + 1
    BY <1>3, SameExecutors DEF RunGreedy, IpEnd, SM!End
  <2> QED
    BY <1>3, <2>1, <2>2, SameExecutors DEF RunGreedy, SM!Next, SM!Step
<1>4. CASE RunLast
  <2>1. Status = "running" /\ Status' = "running"
    BY <1>4 DEF RunLast, Status
  <2>2. ip # SM!End /\ ip' = IF SM!Halts(text[ip].op) THEN SM!End ELSE ip + 1
    BY <1>4, SameExecutors DEF RunLast, IpEnd, SM!End
  <2> QED
    BY <1>4, <2>1, <2>2, SameExecutors DEF RunLast, SM!Next, SM!Step
<1>5. CASE Overrun
  <2>1. Status = "running" /\ Status' = "fault"
    BY <1>5 DEF Overrun, Status
  <2> QED
    BY <1>5, <2>1 DEF Overrun, IpEnd, SM!End, SM!Next, SM!Stop
<1>6. CASE LoopExit
  <2>1. CASE ip = IpEnd
    <3>1. Status = "running" /\ Status' = "halted"
      BY <1>6, <2>1 DEF LoopExit, Status
    <3> QED
      BY <1>6, <2>1, <3>1 DEF LoopExit, IpEnd, SM!End, SM!Next, SM!Stop
  <2>2. CASE ip # IpEnd
    BY <1>6, <2>2 DEF LoopExit, Status, SM!svars
  <2> QED
    BY <2>1, <2>2
<1>7. CASE UNCHANGED vars
  BY <1>7 DEF vars, Status, SM!svars
<1> QED
  BY <1>1, <1>2, <1>3, <1>4, <1>5, <1>6, <1>7 DEF Next

\* run() implements the safety part of SeqMachine: its initial states are
\* SeqMachine's and each of its steps is a step of SeqMachine or a
\* stutter.  The fairness part is checked by TLC (run li_split).
THEOREM Refinement == Spec => SM!Init /\ [][SM!Next]_SM!svars
BY RefinementInit, RefinementStep, PTL DEF Spec

=============================================================================
