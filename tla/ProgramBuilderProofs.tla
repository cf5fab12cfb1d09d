------------------------ MODULE ProgramBuilderProofs ------------------------
(***************************************************************************)
(* Proofs about the bytecode builder class Program (module ProgramBuilder) *)
(* for every set of Programs, every set of branch() type pairs and every   *)
(* bound the assumptions of ProgramBuilder allow.                          *)
(***************************************************************************)
EXTENDS ProgramBuilder, SequenceTheorems, TLAPS

(* A remembered pointer, a target field and a written instruction.         *)
PtrT   == [buf : Nat, off : Nat]
FieldT == [at : Nat, type : JumpTypes]
InstrT == [at : Nat, size : Nat, fields : SUBSET FieldT]

(* The values the members of the Program objects can hold.                 *)
TypeOK ==
  /\ live \subseteq Progs
  /\ buf \in [Progs -> Nat]
  /\ addr \in [Progs -> Nat]
  /\ code \in [Progs -> Seq(InstrT)]
  /\ branches \in [Progs -> Seq(PtrT)]
  /\ branchesAbsolute \in [Progs -> Seq(PtrT)]
  /\ nextBuf \in Nat \ {0}
  /\ emitted \in Nat

(* The inductive invariant: RelativeSlotsSound needs the types of the      *)
(* members (that addr_ptr and the buffers are numbers, the lists sequences *)
(* of pointers).                                                           *)
IInv == TypeOK /\ RelativeSlotsSound

-----------------------------------------------------------------------------
(* The elements of a sequence with one more element appended.              *)
LEMMA RangeAppend ==
  ASSUME NEW S, NEW s \in Seq(S), NEW x \in S
  PROVE  Range(Append(s, x)) = Range(s) \cup {x}
<1>1. /\ DOMAIN Append(s, x) = 1 .. Len(s) + 1
      /\ \A i \in 1 .. Len(s) : Append(s, x)[i] = s[i]
      /\ Append(s, x)[Len(s) + 1] = x
      /\ DOMAIN s = 1 .. Len(s)
  BY AppendProperties, LenProperties
<1>2. QED
  BY <1>1 DEF Range

(* The instructions of a buffer keep their target fields when another      *)
(* instruction is appended, and the new one adds its own, at its offset.   *)
LEMMA FieldsAppend ==
  ASSUME NEW c \in Seq(InstrT), NEW x \in InstrT
  PROVE  /\ \A g \in FieldsOf(c) : g \in FieldsOf(Append(c, x))
         /\ \A f \in x.fields : Field(x.at + f.at, f.type) \in FieldsOf(Append(c, x))
<1>1. /\ DOMAIN Append(c, x) = 1 .. Len(c) + 1
      /\ \A i \in 1 .. Len(c) : Append(c, x)[i] = c[i]
      /\ Append(c, x)[Len(c) + 1] = x
      /\ DOMAIN c = 1 .. Len(c)
      /\ Len(c) \in Nat
  BY AppendProperties, LenProperties
<1>2. ASSUME NEW g \in FieldsOf(c) PROVE g \in FieldsOf(Append(c, x))
  <2>1. PICK k \in DOMAIN c : \E f \in c[k].fields : g = Field(c[k].at + f.at, f.type)
    BY DEF FieldsOf
  <2>2. k \in DOMAIN Append(c, x) /\ Append(c, x)[k] = c[k]
    BY <1>1
  <2>3. QED
    BY <2>1, <2>2 DEF FieldsOf
<1>3. ASSUME NEW f \in x.fields PROVE Field(x.at + f.at, f.type) \in FieldsOf(Append(c, x))
  <2>1. Len(c) + 1 \in DOMAIN Append(c, x) /\ Append(c, x)[Len(c) + 1] = x
    BY <1>1
  <2>2. QED
    BY <2>1 DEF FieldsOf
<1>4. QED
  BY <1>2, <1>3

(* Remembering a slot keeps the lists typed, and adds to branches at most  *)
(* that slot, and only when its type is not JMP_TO_BYTE.                   *)
LEMMA RememberRel ==
  ASSUME NEW l \in [rel : Seq(PtrT), abs : Seq(PtrT)],
         NEW type \in JumpTypes, NEW lt \in JumpTypes, NEW slot \in PtrT
  PROVE  /\ Remember(l, type, lt, slot) \in [rel : Seq(PtrT), abs : Seq(PtrT)]
         /\ \A s \in Range(Remember(l, type, lt, slot).rel) :
              s \in Range(l.rel) \/ (s = slot /\ type # ToByte)
<1>1. CASE type = ToByte
  BY <1>1 DEF Remember
<1>2. CASE type # ToByte /\ lt = Absolute
  <2>1. Remember(l, type, lt, slot) = [rel |-> l.rel, abs |-> Append(l.abs, slot)]
    BY <1>2 DEF Remember
  <2>2. QED
    BY <2>1, AppendProperties
<1>3. CASE type # ToByte /\ lt # Absolute
  <2>1. Remember(l, type, lt, slot) = [rel |-> Append(l.rel, slot), abs |-> l.abs]
    BY <1>3 DEF Remember
  <2>2. Range(Append(l.rel, slot)) = Range(l.rel) \cup {slot}
    BY RangeAppend
  <2>3. QED
    BY <1>3, <2>1, <2>2, AppendProperties
<1>4. QED
  BY <1>1, <1>2, <1>3

(* Rebasing the remembered slots of a copied Program points every one of   *)
(* them into the new buffer, at an offset some original slot had.          *)
LEMMA RebaseSlots ==
  ASSUME NEW s \in Seq(PtrT), NEW b \in Nat
  PROVE  /\ Rebase(s, b) \in Seq(PtrT)
         /\ \A x \in Range(Rebase(s, b)) : x.buf = b /\ \E t \in Range(s) : x.off = t.off
<1>1. DOMAIN s = 1 .. Len(s) /\ Len(s) \in Nat /\ \A k \in 1 .. Len(s) : s[k] \in PtrT
  BY LenProperties
<1>2. Rebase(s, b) \in [1 .. Len(s) -> PtrT]
  BY <1>1 DEF Rebase, Ptr, PtrT
<1>3. Rebase(s, b) \in Seq(PtrT)
  BY <1>1, <1>2
<1>4. QED
  BY <1>1, <1>3 DEF Rebase, Ptr, Range

(* What writing one instruction at addr_ptr does to the buffers: they stay *)
(* typed, keep every instruction and target field they had, and p's gains  *)
(* the target fields of the instruction, at addr_ptr.                      *)
LEMMA WriteStep ==
  ASSUME TypeOK, NEW p \in Progs, NEW ins \in [size : Nat, fields : SUBSET FieldT],
         Write(p, ins)
  PROVE  /\ p \in live
         /\ code' \in [Progs -> Seq(InstrT)]
         /\ addr' \in [Progs -> Nat]
         /\ emitted' \in Nat
         /\ \A r \in Progs : \A g \in Fields(r) : g \in Fields(r)'
         /\ \A f \in ins.fields : Field(addr[p] + f.at, f.type) \in Fields(p)'
<1> DEFINE x == [at |-> addr[p], size |-> ins.size, fields |-> ins.fields]
<1>1. x \in InstrT
  BY DEF TypeOK, InstrT
<1>2. /\ code'[p] = Append(code[p], x)
      /\ \A r \in Progs \ {p} : code'[r] = code[r]
      /\ code' \in [Progs -> UNION {Seq(InstrT), {Append(code[p], x)}}]
  BY DEF Write, TypeOK
<1>3. Append(code[p], x) \in Seq(InstrT)
  BY <1>1, AppendProperties DEF TypeOK
<1>4. ASSUME NEW r \in Progs PROVE \A g \in Fields(r) : g \in Fields(r)'
  <2>1. CASE r = p
    BY <2>1, <1>1, <1>2, FieldsAppend DEF Fields, TypeOK
  <2>2. CASE r # p
    BY <2>2, <1>2 DEF Fields
  <2>3. QED
    BY <2>1, <2>2
<1>5. \A f \in ins.fields : Field(addr[p] + f.at, f.type) \in Fields(p)'
  BY <1>1, <1>2, FieldsAppend DEF Fields, TypeOK
<1>6. QED
  BY <1>2, <1>3, <1>4, <1>5 DEF Write, TypeOK

-----------------------------------------------------------------------------
(* Program(int bts) keeps the invariant and leaves the other buffers as    *)
(* they were.                                                              *)
LEMMA ConstructStep ==
  ASSUME IInv, NEW p \in Progs, Construct(p)
  PROVE  IInv'
<1>1. TypeOK'
  BY EmptySeq DEF IInv, TypeOK, Construct
<1>3. ASSUME NEW r \in live', NEW s \in Range(branches'[r])
      PROVE  s.buf = buf'[r] /\ \E f \in Fields(r)' : f.at = s.off /\ f.type # ToByte
  <2>1. r # p
    <3>1. branches'[p] = << >>
      BY DEF Construct, IInv, TypeOK
    <3>2. Range(<< >>) = {}
      BY DEF Range
    <3>3. QED
      BY <1>3, <3>1, <3>2
  <2>2. r \in live /\ branches'[r] = branches[r] /\ buf'[r] = buf[r] /\ code'[r] = code[r]
    BY <2>1, <1>3 DEF Construct, IInv, TypeOK
  <2>3. QED
    BY <2>2, <1>3 DEF IInv, RelativeSlotsSound, Fields
<1>5. QED
  BY <1>1, <1>3 DEF IInv, RelativeSlotsSound

(* ~Program() keeps the invariant: the object is gone with its slots.      *)
LEMMA DestroyStep ==
  ASSUME IInv, NEW p \in Progs, Destroy(p)
  PROVE  IInv'
<1>1. TypeOK'
  BY EmptySeq DEF IInv, TypeOK, Destroy
<1>3. ASSUME NEW r \in live', NEW s \in Range(branches'[r])
      PROVE  s.buf = buf'[r] /\ \E f \in Fields(r)' : f.at = s.off /\ f.type # ToByte
  <2>1. r # p /\ r \in live
    BY <1>3 DEF Destroy
  <2>2. branches'[r] = branches[r] /\ buf'[r] = buf[r] /\ code'[r] = code[r]
    BY <2>1 DEF Destroy, IInv, TypeOK
  <2>3. QED
    BY <2>1, <2>2, <1>3 DEF IInv, RelativeSlotsSound, Fields
<1>5. QED
  BY <1>1, <1>3 DEF IInv, RelativeSlotsSound

(* A copy (copy constructor or operator=) of q into p moves p to a fresh   *)
(* buffer holding q's instructions and q's relative slots rebased into it; *)
(* its slots are then sound because q's were.                              *)
LEMMA CopySlots ==
  ASSUME IInv, NEW p \in Progs, NEW q \in live, p # q,
         live' \subseteq live \cup {p},
         buf' = [buf EXCEPT ![p] = nextBuf],
         code' = [code EXCEPT ![p] = code[q]],
         branches' = [branches EXCEPT ![p] = Rebase(branches[q], nextBuf)]
  PROVE  RelativeSlotsSound'
<1> USE DEF IInv, TypeOK
<1>1. SUFFICES ASSUME NEW r \in live', NEW s \in Range(branches'[r])
               PROVE  s.buf = buf'[r] /\ \E f \in Fields(r)' : f.at = s.off /\ f.type # ToByte
  BY DEF RelativeSlotsSound
<1>2. CASE r = p
  <2>1. s \in Range(Rebase(branches[q], nextBuf)) /\ buf'[p] = nextBuf
    BY <1>2
  <2>2. s.buf = nextBuf /\ \E t \in Range(branches[q]) : s.off = t.off
    <3>1. branches[q] \in Seq(PtrT) /\ nextBuf \in Nat
      OBVIOUS
    <3>2. \A x \in Range(Rebase(branches[q], nextBuf)) :
            x.buf = nextBuf /\ \E t \in Range(branches[q]) : x.off = t.off
      BY <3>1, RebaseSlots
    <3>3. QED
      BY <2>1, <3>2
  <2>3. PICK t \in Range(branches[q]) : s.off = t.off
    BY <2>2
  <2>4. \E f \in Fields(q) : f.at = t.off /\ f.type # ToByte
    BY <2>3 DEF RelativeSlotsSound
  <2>5. Fields(p)' = Fields(q)
    BY DEF Fields
  <2>6. QED
    BY <1>2, <2>1, <2>2, <2>3, <2>4, <2>5
<1>3. CASE r # p
  <2>1. r \in live /\ branches'[r] = branches[r] /\ buf'[r] = buf[r] /\ code'[r] = code[r]
    BY <1>3
  <2>2. QED
    BY <2>1 DEF RelativeSlotsSound, Fields
<1>4. QED
  BY <1>2, <1>3

(* Program(const Program& that) keeps the invariant.                       *)
LEMMA CopyConstructStep ==
  ASSUME IInv, NEW p \in Progs, NEW q \in Progs, CopyConstruct(p, q)
  PROVE  IInv'
<1>1. p # q /\ q \in live
  BY DEF CopyConstruct
<1>2. TypeOK'
  <2>1. Rebase(branches[q], nextBuf) \in Seq(PtrT)
    BY RebaseSlots DEF IInv, TypeOK
  <2>2. code[q] \in Seq(InstrT) /\ addr[q] \in Nat /\ nextBuf + 1 \in Nat \ {0}
    BY DEF IInv, TypeOK
  <2>3. QED
    BY <1>1, <2>1, <2>2, EmptySeq DEF IInv, TypeOK, CopyConstruct
<1>4. RelativeSlotsSound'
  BY <1>1, CopySlots DEF CopyConstruct
<1>6. QED
  BY <1>2, <1>4 DEF IInv

(* operator= keeps the invariant.                                          *)
LEMMA AssignStep ==
  ASSUME IInv, NEW p \in Progs, NEW q \in Progs, Assign(p, q)
  PROVE  IInv'
<1>1. p # q /\ q \in live /\ p \in live
  BY DEF Assign
<1>2. TypeOK'
  <2>1. Rebase(branches[q], nextBuf) \in Seq(PtrT)
    BY RebaseSlots DEF IInv, TypeOK
  <2>2. code[q] \in Seq(InstrT) /\ addr[q] \in Nat /\ nextBuf + 1 \in Nat \ {0}
    BY DEF IInv, TypeOK
  <2>3. QED
    BY <1>1, <2>1, <2>2 DEF IInv, TypeOK, Assign
<1>4. RelativeSlotsSound'
  BY <1>1, CopySlots DEF Assign
<1>7. QED
  BY <1>2, <1>4 DEF IInv

(* An emitting step: one instruction written at p's addr_ptr, and p's      *)
(* lists replaced by lists whose new relative slots lie in p's buffer at   *)
(* the offset of a jump or branch target field of that instruction.        *)
LEMMA WriteSlotsStep ==
  ASSUME IInv, NEW p \in Progs, NEW ins \in [size : Nat, fields : SUBSET FieldT],
         NEW L \in Seq(PtrT), NEW A \in Seq(PtrT),
         Write(p, ins),
         branches' = [branches EXCEPT ![p] = L],
         branchesAbsolute' = [branchesAbsolute EXCEPT ![p] = A],
         UNCHANGED << live, buf, nextBuf >>,
         \A s \in Range(L) :
           \/ s \in Range(branches[p])
           \/ /\ s.buf = buf[p]
              /\ \E f \in ins.fields : addr[p] + f.at = s.off /\ f.type # ToByte
  PROVE  IInv'
<1>1. TypeOK
  BY DEF IInv
<1>2. /\ p \in live
      /\ code' \in [Progs -> Seq(InstrT)]
      /\ addr' \in [Progs -> Nat]
      /\ emitted' \in Nat
      /\ \A r \in Progs : \A g \in Fields(r) : g \in Fields(r)'
      /\ \A f \in ins.fields : Field(addr[p] + f.at, f.type) \in Fields(p)'
  BY <1>1, WriteStep
<1>3. TypeOK'
  BY <1>1, <1>2 DEF TypeOK
<1>5. ASSUME NEW r \in live', NEW s \in Range(branches'[r])
      PROVE  s.buf = buf'[r] /\ \E f \in Fields(r)' : f.at = s.off /\ f.type # ToByte
  <2>1. r \in live /\ r \in Progs /\ buf'[r] = buf[r]
    BY <1>1 DEF TypeOK
  <2>2. ASSUME s \in Range(branches[r])
        PROVE  s.buf = buf'[r] /\ \E f \in Fields(r)' : f.at = s.off /\ f.type # ToByte
    <3>1. s.buf = buf[r] /\ \E f \in Fields(r) : f.at = s.off /\ f.type # ToByte
      BY <2>1, <2>2 DEF IInv, RelativeSlotsSound
    <3>2. QED
      BY <3>1, <2>1, <1>2
  <2>3. CASE r # p
    BY <2>3, <2>2, <1>1 DEF TypeOK
  <2>4. CASE r = p
    <3>1. s \in Range(L)
      BY <2>4, <1>1 DEF TypeOK
    <3>2. CASE s \in Range(branches[p])
      BY <2>4, <3>2, <2>2
    <3>3. CASE /\ s.buf = buf[p]
               /\ \E f \in ins.fields : addr[p] + f.at = s.off /\ f.type # ToByte
      <4>1. PICK f \in ins.fields : addr[p] + f.at = s.off /\ f.type # ToByte
        BY <3>3
      <4>2. Field(addr[p] + f.at, f.type) \in Fields(p)'
        BY <1>2
      <4>3. QED
        BY <2>1, <2>4, <3>3, <4>1, <4>2 DEF Field
    <3>4. QED
      BY <3>1, <3>2, <3>3
  <2>5. QED
    BY <2>3, <2>4
<1>7. QED
  BY <1>3, <1>5 DEF IInv, RelativeSlotsSound

(* The emitters without targets (nop ... halt) keep the invariant.         *)
LEMMA EmitPlainStep ==
  ASSUME IInv, NEW p \in Progs, NEW sizes \in SUBSET Nat, EmitPlain(p, sizes)
  PROVE  IInv'
<1>1. PICK sz \in sizes : Write(p, Instr(sz, {}))
  BY DEF EmitPlain
<1>2. Instr(sz, {}) \in [size : Nat, fields : SUBSET FieldT]
  BY DEF Instr
<1>3. /\ branches[p] \in Seq(PtrT) /\ branchesAbsolute[p] \in Seq(PtrT)
      /\ branches' = [branches EXCEPT ![p] = branches[p]]
      /\ branchesAbsolute' = [branchesAbsolute EXCEPT ![p] = branchesAbsolute[p]]
  BY DEF EmitPlain, IInv, TypeOK
<1>4. QED
  BY <1>1, <1>2, <1>3, WriteSlotsStep DEF EmitPlain

(* jump(addr, is_absolute) keeps the invariant: the slot it remembers as   *)
(* relative is the target field it writes, one byte past the opcode.       *)
LEMMA JumpStep ==
  ASSUME IInv, NEW p \in Progs, NEW t \in JumpTypes, Jump(p, t)
  PROVE  IInv'
<1>0. buf[p] \in Nat /\ addr[p] \in Nat
  BY DEF IInv, TypeOK
<1>1. PICK slot \in PtrT : slot = Ptr(buf[p], addr[p] + OpcodeSize)
  <2>1. Ptr(buf[p], addr[p] + OpcodeSize) \in PtrT
    BY <1>0 DEF Ptr, PtrT, OpcodeSize
  <2>2. QED
    BY <2>1
<1> DEFINE jl   == Remember(Lists(p), t, t, slot)
           jins == Instr(OpcodeSize + AddrSize, {Field(OpcodeSize, t)})
<1>2. Lists(p) \in [rel : Seq(PtrT), abs : Seq(PtrT)]
  BY DEF Lists, IInv, TypeOK
<1>3. /\ jl \in [rel : Seq(PtrT), abs : Seq(PtrT)]
      /\ \A s \in Range(jl.rel) : s \in Range(Lists(p).rel) \/ (s = slot /\ t # ToByte)
  BY <1>2, RememberRel
<1>4. jins \in [size : Nat, fields : SUBSET FieldT]
  BY DEF jins, Instr, Field, FieldT, OpcodeSize, AddrSize
<1>5. \A s \in Range(jl.rel) :
        \/ s \in Range(branches[p])
        \/ /\ s.buf = buf[p]
           /\ \E f \in jins.fields : addr[p] + f.at = s.off /\ f.type # ToByte
  <2>1. SUFFICES ASSUME NEW s \in Range(jl.rel), s \notin Range(branches[p])
                 PROVE  /\ s.buf = buf[p]
                        /\ \E f \in jins.fields : addr[p] + f.at = s.off /\ f.type # ToByte
    OBVIOUS
  <2>2. s = slot /\ t # ToByte
    BY <1>3, <2>1 DEF Lists
  <2>3. Field(OpcodeSize, t) \in jins.fields
    BY DEF jins, Instr
  <2>4. s.buf = buf[p] /\ s.off = addr[p] + OpcodeSize
    BY <1>1, <2>2 DEF Ptr
  <2>5. QED
    BY <2>2, <2>3, <2>4 DEF Field
<1>6. QED
  BY <1>1, <1>3, <1>4, <1>5, WriteSlotsStep DEF Jump, UpdateLists

(* branch(regc, truth, absolute_truth, false, absolute_false) keeps the    *)
(* invariant: whatever list absolute_truth sends them to, the slots that   *)
(* reach branches are target fields of the instruction it writes.          *)
LEMMA BranchStep ==
  ASSUME IInv, NEW p \in Progs, NEW tt \in JumpTypes, NEW tf \in JumpTypes,
         Branch(p, tt, tf)
  PROVE  IInv'
<1> DEFINE truthAt == OpcodeSize + BoolSize + IntSize
           falseAt == truthAt + AddrSize
<1>0. buf[p] \in Nat /\ addr[p] \in Nat
  BY DEF IInv, TypeOK
<1>1. PICK sT \in PtrT : sT = Ptr(buf[p], addr[p] + truthAt)
  <2>1. Ptr(buf[p], addr[p] + truthAt) \in PtrT
    BY <1>0 DEF truthAt, Ptr, PtrT, OpcodeSize, RegSize, BoolSize, IntSize
  <2>2. QED
    BY <2>1
<1>2. PICK sF \in PtrT : sF = Ptr(buf[p], addr[p] + falseAt)
  <2>1. Ptr(buf[p], addr[p] + falseAt) \in PtrT
    BY <1>0 DEF truthAt, falseAt, Ptr, PtrT, OpcodeSize, RegSize, BoolSize, IntSize, AddrSize
  <2>2. QED
    BY <2>1
<1> DEFINE l1 == Remember(Lists(p), tt, tt, sT)
           l2 == Remember(l1, tf, tt, sF)
           bins == BranchInstr(tt, tf)
<1>3. Lists(p) \in [rel : Seq(PtrT), abs : Seq(PtrT)]
  BY DEF Lists, IInv, TypeOK
<1>4. /\ l1 \in [rel : Seq(PtrT), abs : Seq(PtrT)]
      /\ \A s \in Range(l1.rel) : s \in Range(Lists(p).rel) \/ (s = sT /\ tt # ToByte)
  BY <1>3, RememberRel
<1>5. /\ l2 \in [rel : Seq(PtrT), abs : Seq(PtrT)]
      /\ \A s \in Range(l2.rel) : s \in Range(l1.rel) \/ (s = sF /\ tf # ToByte)
  BY <1>4, RememberRel
<1>6. bins \in [size : Nat, fields : SUBSET FieldT]
  BY DEF bins, BranchInstr, truthAt, falseAt, Instr, Field, FieldT, OpcodeSize, RegSize, BoolSize, IntSize, AddrSize
<1>7. \A s \in Range(l2.rel) :
        \/ s \in Range(branches[p])
        \/ /\ s.buf = buf[p]
           /\ \E f \in bins.fields : addr[p] + f.at = s.off /\ f.type # ToByte
  <2>1. SUFFICES ASSUME NEW s \in Range(l2.rel), s \notin Range(branches[p])
                 PROVE  /\ s.buf = buf[p]
                        /\ \E f \in bins.fields : addr[p] + f.at = s.off /\ f.type # ToByte
    OBVIOUS
  <2>2. (s = sT /\ tt # ToByte) \/ (s = sF /\ tf # ToByte)
    BY <1>4, <1>5, <2>1 DEF Lists
  <2>3. Field(truthAt, tt) \in bins.fields /\ Field(falseAt, tf) \in bins.fields
    BY DEF bins, BranchInstr, Instr, truthAt, falseAt, OpcodeSize, RegSize, BoolSize, IntSize, AddrSize
  <2>4. CASE s = sT /\ tt # ToByte
    <3>1. s.buf = buf[p] /\ s.off = addr[p] + truthAt
      BY <1>1, <2>4 DEF Ptr
    <3>2. QED
      BY <2>3, <2>4, <3>1 DEF Field
  <2>5. CASE s = sF /\ tf # ToByte
    <3>1. s.buf = buf[p] /\ s.off = addr[p] + falseAt
      BY <1>2, <2>5 DEF Ptr
    <3>2. QED
      BY <2>3, <2>5, <3>1 DEF Field
  <2>6. QED
    BY <2>2, <2>4, <2>5
<1>8. /\ Write(p, bins)
      /\ branches' = [branches EXCEPT ![p] = l2.rel]
      /\ branchesAbsolute' = [branchesAbsolute EXCEPT ![p] = l2.abs]
      /\ UNCHANGED << live, buf, nextBuf >>
  BY <1>1, <1>2 DEF Branch, UpdateLists, bins, truthAt, falseAt
<1>9. QED
  BY <1>5, <1>6, <1>7, <1>8, WriteSlotsStep

-----------------------------------------------------------------------------
(* A fresh client holds no Program: the invariant holds at the start.      *)
LEMMA InitIInv == Init => IInv
BY EmptySeq DEF Init, IInv, TypeOK, RelativeSlotsSound

(* Every step of the client keeps the invariant.                           *)
LEMMA NextIInv == IInv /\ [Next]_vars => IInv'
<1> SUFFICES ASSUME IInv, [Next]_vars PROVE IInv'
  OBVIOUS
<1> USE BuilderAssumption
<1>1. ASSUME NEW p \in Progs, Construct(p) \/ Destroy(p)
      PROVE  IInv'
  BY <1>1, ConstructStep, DestroyStep
<1>2. ASSUME NEW p \in Progs, NEW q \in Progs, CopyConstruct(p, q) \/ Assign(p, q)
      PROVE  IInv'
  BY <1>2, CopyConstructStep, AssignStep
<1>3. ASSUME NEW p \in Progs,
             \/ EmitIntegerOp(p) \/ EmitFloatOp(p) \/ EmitDataOp(p)
             \/ EmitRegisterOp(p) \/ EmitCallOp(p) \/ EmitBlockOp(p)
      PROVE  IInv'
  <2>1. CASE EmitIntegerOp(p)
    BY <2>1, EmitPlainStep DEF EmitIntegerOp, OpcodeSize, RegSize, BoolSize, IntSize
  <2>2. CASE EmitFloatOp(p)
    BY <2>2, EmitPlainStep DEF EmitFloatOp, OpcodeSize, RegSize, BoolSize, IntSize, FloatSize
  <2>3. CASE EmitDataOp(p)
    BY <2>3, EmitPlainStep DEF EmitDataOp, OpcodeSize, RegSize, BoolSize, IntSize, ByteSize, StrSize
  <2>4. CASE EmitRegisterOp(p)
    BY <2>4, EmitPlainStep DEF EmitRegisterOp, OpcodeSize, RegSize, BoolSize, IntSize, StrSize
  <2>5. CASE EmitCallOp(p)
    BY <2>5, EmitPlainStep DEF EmitCallOp, OpcodeSize, RegSize, BoolSize, IntSize, StrSize
  <2>6. CASE EmitBlockOp(p)
    BY <2>6, EmitPlainStep DEF EmitBlockOp, OpcodeSize, RegSize, BoolSize, IntSize, StrSize
  <2>7. QED
    BY <1>3, <2>1, <2>2, <2>3, <2>4, <2>5, <2>6
<1>4. ASSUME NEW p \in Progs, NEW t \in JumpTypes, Jump(p, t)
      PROVE  IInv'
  BY <1>4, JumpStep
<1>5. ASSUME NEW p \in Progs, NEW pr \in BranchPairs, Branch(p, pr[1], pr[2])
      PROVE  IInv'
  <2>1. pr[1] \in JumpTypes /\ pr[2] \in JumpTypes
    OBVIOUS
  <2>2. QED
    BY <1>5, <2>1, BranchStep
<1>6. CASE UNCHANGED vars
  BY <1>6 DEF vars, IInv, TypeOK, RelativeSlotsSound, Fields
<1>7. QED
  BY <1>1, <1>2, <1>3, <1>4, <1>5, <1>6 DEF Next

(* RelativeSlotsSound for every set of Programs and every bound: whatever  *)
(* sequence of constructions, copies, assignments, emissions, jumps and    *)
(* branches the client makes, every pointer in branches of a live Program  *)
(* is a relative or absolute target field of the buffer it owns, so       *)
(* calculateJumps never patches an opcode, an operand or a freed buffer    *)
(* through branches.                                                       *)
THEOREM SlotsSound == Spec => []RelativeSlotsSound
<1>1. Init => IInv
  BY InitIInv
<1>2. IInv /\ [Next]_vars => IInv'
  BY NextIInv
<1>3. IInv => RelativeSlotsSound
  BY DEF IInv
<1>4. QED
  BY <1>1, <1>2, <1>3, PTL DEF Spec

-----------------------------------------------------------------------------
(***************************************************************************)
(* RelativeSlotsOrdered.  The offsets of a list of slots, read in order,   *)
(* increase strictly and stay below a bound (for branches, addr_ptr).      *)
(***************************************************************************)
SlotsBelow(s, a) ==
  /\ \A k \in DOMAIN s : s[k].off < a
  /\ \A j, k \in DOMAIN s : j < k => s[j].off < s[k].off

(* The offsets of a list of slots are natural numbers.                    *)
LEMMA SlotOffsets ==
  ASSUME NEW s \in Seq(PtrT)
  PROVE  /\ Len(s) \in Nat
         /\ DOMAIN s = 1 .. Len(s)
         /\ \A k \in DOMAIN s : s[k].off \in Nat
<1>1. Len(s) \in Nat /\ s \in [1 .. Len(s) -> PtrT]
  BY LenProperties
<1>2. QED
  BY <1>1 DEF PtrT

(* A slot at or past the bound of an ordered list extends it in order.    *)
LEMMA OrderedAppend ==
  ASSUME NEW s \in Seq(PtrT), NEW a \in Nat, NEW x \in PtrT,
         SlotsBelow(s, a), a <= x.off
  PROVE  SlotsBelow(Append(s, x), x.off + 1)
<1> DEFINE t == Append(s, x)
<1>1. /\ Len(s) \in Nat
      /\ DOMAIN s = 1 .. Len(s)
      /\ \A k \in DOMAIN s : s[k].off \in Nat
  BY SlotOffsets
<1>2. /\ DOMAIN t = 1 .. Len(s) + 1
      /\ \A k \in 1 .. Len(s) : t[k] = s[k]
      /\ t[Len(s) + 1] = x
  BY AppendProperties
<1>3. x.off \in Nat
  BY DEF PtrT
<1>4. \A k \in DOMAIN t : t[k].off < x.off + 1
  BY <1>1, <1>2, <1>3 DEF SlotsBelow
<1>5. ASSUME NEW j \in DOMAIN t, NEW k \in DOMAIN t, j < k
      PROVE  t[j].off < t[k].off
  <2>1. j \in DOMAIN s /\ t[j] = s[j]
    BY <1>1, <1>2, <1>5
  <2>2. CASE k = Len(s) + 1
    BY <1>1, <1>2, <1>3, <2>1, <2>2 DEF SlotsBelow
  <2>3. CASE k # Len(s) + 1
    BY <1>1, <1>2, <1>5, <2>1, <2>3 DEF SlotsBelow
  <2>4. QED
    BY <2>2, <2>3
<1>6. QED
  BY <1>4, <1>5 DEF SlotsBelow

(* A larger bound keeps a list ordered below it.                           *)
LEMMA OrderedWiden ==
  ASSUME NEW s \in Seq(PtrT), NEW a \in Nat, NEW b \in Nat,
         SlotsBelow(s, a), a <= b
  PROVE  SlotsBelow(s, b)
<1>1. \A k \in DOMAIN s : s[k].off \in Nat
  BY SlotOffsets
<1>2. QED
  BY <1>1 DEF SlotsBelow

(* Remembering a slot that lies between the bound of an ordered list and  *)
(* a larger bound, or remembering nothing, leaves a list ordered below the *)
(* larger bound.                                                           *)
LEMMA RememberBelow ==
  ASSUME NEW s \in Seq(PtrT), NEW a \in Nat, NEW x \in PtrT, NEW b \in Nat,
         SlotsBelow(s, a), a <= x.off, x.off < b,
         NEW r, r = s \/ r = Append(s, x)
  PROVE  r \in Seq(PtrT) /\ SlotsBelow(r, b)
<1>1. CASE r = s
  <2>1. a <= b
    BY DEF PtrT
  <2>2. QED
    BY <1>1, <2>1, OrderedWiden
<1>2. CASE r = Append(s, x)
  <2>1. Append(s, x) \in Seq(PtrT) /\ x.off + 1 \in Nat /\ x.off + 1 <= b
    BY AppendProperties DEF PtrT
  <2>2. SlotsBelow(Append(s, x), x.off + 1)
    BY OrderedAppend
  <2>3. QED
    BY <1>2, <2>1, <2>2, OrderedWiden
<1>3. QED
  BY <1>1, <1>2

(* Rebasing keeps every offset, so the order and the bound.                *)
LEMMA OrderedRebase ==
  ASSUME NEW s \in Seq(PtrT), NEW b \in Nat, NEW a
  PROVE  SlotsBelow(Rebase(s, b), a) <=> SlotsBelow(s, a)
BY DEF SlotsBelow, Rebase, Ptr

(* Remembering a slot leaves branches as it was or appends the slot.       *)
LEMMA RememberRelCases ==
  ASSUME NEW l \in [rel : Seq(PtrT), abs : Seq(PtrT)],
         NEW type, NEW lt, NEW slot
  PROVE  \/ Remember(l, type, lt, slot).rel = l.rel
         \/ Remember(l, type, lt, slot).rel = Append(l.rel, slot)
BY DEF Remember

(* The ordered-slots invariant, stated per Program.                        *)
LEMMA OrderedDef ==
  RelativeSlotsOrdered <=> \A p \in live : SlotsBelow(branches[p], addr[p])
BY DEF RelativeSlotsOrdered, SlotsBelow

(* An emitting step keeps branches ordered when the list it leaves for p   *)
(* is ordered below the end of the instruction it writes.                  *)
LEMMA OrderedWriteStep ==
  ASSUME TypeOK, RelativeSlotsOrdered,
         NEW p \in Progs, NEW ins \in [size : Nat, fields : SUBSET FieldT],
         NEW L \in Seq(PtrT),
         Write(p, ins),
         branches' = [branches EXCEPT ![p] = L],
         UNCHANGED live,
         SlotsBelow(L, addr[p] + ins.size)
  PROVE  RelativeSlotsOrdered'
<1>1. SUFFICES ASSUME NEW r \in live' PROVE SlotsBelow(branches'[r], addr'[r])
  BY DEF RelativeSlotsOrdered, SlotsBelow
<1>2. CASE r = p
  <2>1. addr'[p] = addr[p] + ins.size /\ branches'[p] = L
    BY DEF Write, TypeOK
  <2>2. QED
    BY <1>2, <2>1
<1>3. CASE r # p
  <2>1. r \in live /\ branches'[r] = branches[r] /\ addr'[r] = addr[r]
    BY <1>3 DEF Write, TypeOK
  <2>2. QED
    BY <2>1, OrderedDef
<1>4. QED
  BY <1>2, <1>3

(* A copy of q into p (copy constructor or operator=) gives p q's slots,   *)
(* rebased, and q's addr_ptr offset: p's list is ordered because q's was. *)
LEMMA CopyOrdered ==
  ASSUME TypeOK, RelativeSlotsOrdered, NEW p \in Progs, NEW q \in live,
         live' \subseteq live \cup {p},
         addr' = [addr EXCEPT ![p] = addr[q]],
         branches' = [branches EXCEPT ![p] = Rebase(branches[q], nextBuf)]
  PROVE  RelativeSlotsOrdered'
<1>1. SUFFICES ASSUME NEW r \in live' PROVE SlotsBelow(branches'[r], addr'[r])
  BY DEF RelativeSlotsOrdered, SlotsBelow
<1>2. CASE r = p
  <2>1. branches'[p] = Rebase(branches[q], nextBuf) /\ addr'[p] = addr[q]
    BY DEF TypeOK
  <2>2. SlotsBelow(branches[q], addr[q])
    BY OrderedDef
  <2>3. branches[q] \in Seq(PtrT) /\ nextBuf \in Nat
    BY DEF TypeOK
  <2>4. QED
    BY <1>2, <2>1, <2>2, <2>3, OrderedRebase
<1>3. CASE r # p
  <2>1. r \in live /\ branches'[r] = branches[r] /\ addr'[r] = addr[r]
    BY <1>3 DEF TypeOK
  <2>2. QED
    BY <2>1, OrderedDef
<1>4. QED
  BY <1>2, <1>3

(* Program(int bts) and ~Program() leave p with no slots and every other  *)
(* Program as it was.                                                      *)
LEMMA ConstructDestroyOrdered ==
  ASSUME TypeOK, RelativeSlotsOrdered, NEW p \in Progs, Construct(p) \/ Destroy(p)
  PROVE  RelativeSlotsOrdered'
<1>1. SUFFICES ASSUME NEW r \in live' PROVE SlotsBelow(branches'[r], addr'[r])
  BY DEF RelativeSlotsOrdered, SlotsBelow
<1>2. CASE r = p
  <2>1. branches'[p] = << >>
    BY DEF Construct, Destroy, TypeOK
  <2>2. QED
    BY <2>1, <1>2 DEF SlotsBelow
<1>3. CASE r # p
  <2>1. r \in live /\ branches'[r] = branches[r] /\ addr'[r] = addr[r]
    BY <1>3 DEF Construct, Destroy, TypeOK
  <2>2. QED
    BY <2>1, OrderedDef
<1>4. QED
  BY <1>2, <1>3

(* jump() remembers at most the slot one byte past addr_ptr, which lies   *)
(* past every earlier slot and inside the instruction it writes.           *)
LEMMA JumpOrdered ==
  ASSUME IInv, RelativeSlotsOrdered, NEW p \in Progs, NEW t \in JumpTypes, Jump(p, t)
  PROVE  RelativeSlotsOrdered'
<1>0. /\ buf[p] \in Nat /\ addr[p] \in Nat /\ branches[p] \in Seq(PtrT)
      /\ Lists(p) \in [rel : Seq(PtrT), abs : Seq(PtrT)] /\ TypeOK
      /\ p \in live
  BY DEF IInv, TypeOK, Lists, Jump, Write
<1>1. PICK slot \in PtrT : slot = Ptr(buf[p], addr[p] + OpcodeSize)
  <2>1. Ptr(buf[p], addr[p] + OpcodeSize) \in PtrT
    BY <1>0 DEF Ptr, PtrT, OpcodeSize
  <2>2. QED
    BY <2>1
<1> DEFINE jl   == Remember(Lists(p), t, t, slot)
           jins == Instr(OpcodeSize + AddrSize, {Field(OpcodeSize, t)})
<1>2. jl \in [rel : Seq(PtrT), abs : Seq(PtrT)]
  BY <1>0, RememberRel
<1>3. jl.rel = branches[p] \/ jl.rel = Append(branches[p], slot)
  BY <1>0, RememberRelCases DEF Lists
<1>4. SlotsBelow(branches[p], addr[p])
  BY <1>0, OrderedDef
<1>5. slot.off = addr[p] + 1 /\ jins.size = 9
  BY <1>0, <1>1 DEF Ptr, jins, Instr, OpcodeSize, AddrSize
<1>W. \A s \in Seq(PtrT), a, b \in Nat : SlotsBelow(s, a) /\ a <= b => SlotsBelow(s, b)
  BY OrderedWiden
<1>B. PICK bp \in Seq(PtrT) : bp = branches[p]
  BY <1>0
<1>A. PICK ad \in Nat : ad = addr[p]
  BY <1>0
<1>6. SlotsBelow(jl.rel, addr[p] + jins.size)
  <2>1. CASE jl.rel = branches[p]
    <3>1. SlotsBelow(bp, ad) /\ ad <= ad + 9 /\ ad + 9 \in Nat
      BY <1>4, <1>B, <1>A
    <3>2. SlotsBelow(bp, ad + 9)
      BY <3>1, <1>W
    <3>3. QED
      BY <3>2, <1>B, <1>A, <1>5, <2>1
  <2>2. CASE jl.rel = Append(branches[p], slot)
    <3>1. SlotsBelow(bp, ad) /\ ad <= slot.off
      BY <1>4, <1>B, <1>A, <1>5
    <3>2. SlotsBelow(Append(bp, slot), slot.off + 1)
      BY <3>1, OrderedAppend
    <3>3. Append(bp, slot) \in Seq(PtrT) /\ slot.off + 1 \in Nat /\ slot.off + 1 <= ad + 9
      BY <1>5, <1>A, AppendProperties
    <3>4. PICK ap \in Seq(PtrT) : ap = Append(bp, slot)
      BY <3>3
    <3>5. SlotsBelow(ap, slot.off + 1)
      BY <3>2, <3>4
    <3>6. SlotsBelow(ap, ad + 9)
      BY <3>3, <3>5, <1>W
    <3>7. SlotsBelow(Append(bp, slot), ad + 9)
      BY <3>4, <3>6
    <3>8. QED
      BY <3>7, <1>B, <1>A, <1>5, <2>2
  <2>3. QED
    BY <1>3, <2>1, <2>2
<1>7. jins \in [size : Nat, fields : SUBSET FieldT]
  BY DEF jins, Instr, Field, FieldT, OpcodeSize, AddrSize
<1>8. QED
  BY <1>0, <1>1, <1>2, <1>6, <1>7, OrderedWriteStep DEF Jump, UpdateLists

(* branch() remembers at most its truth slot and then its false slot, in  *)
(* that order, both past addr_ptr and inside the instruction it writes.    *)
LEMMA BranchOrdered ==
  ASSUME IInv, RelativeSlotsOrdered, NEW p \in Progs,
         NEW tt \in JumpTypes, NEW tf \in JumpTypes, Branch(p, tt, tf)
  PROVE  RelativeSlotsOrdered'
<1> DEFINE truthAt == OpcodeSize + BoolSize + IntSize
           falseAt == truthAt + AddrSize
<1>0. /\ buf[p] \in Nat /\ addr[p] \in Nat /\ branches[p] \in Seq(PtrT)
      /\ Lists(p) \in [rel : Seq(PtrT), abs : Seq(PtrT)] /\ TypeOK
      /\ p \in live
  BY DEF IInv, TypeOK, Lists, Branch, Write
<1>1. PICK sT \in PtrT : sT = Ptr(buf[p], addr[p] + truthAt)
  <2>1. Ptr(buf[p], addr[p] + truthAt) \in PtrT
    BY <1>0 DEF truthAt, Ptr, PtrT, OpcodeSize, RegSize, BoolSize, IntSize
  <2>2. QED
    BY <2>1
<1>2. PICK sF \in PtrT : sF = Ptr(buf[p], addr[p] + falseAt)
  <2>1. Ptr(buf[p], addr[p] + falseAt) \in PtrT
    BY <1>0 DEF truthAt, falseAt, Ptr, PtrT, OpcodeSize, RegSize, BoolSize, IntSize, AddrSize
  <2>2. QED
    BY <2>1
<1>3. PICK bp \in Seq(PtrT) : bp = branches[p]
  BY <1>0
<1>4. PICK ad \in Nat : ad = addr[p]
  BY <1>0
<1> DEFINE l1 == Remember(Lists(p), tt, tt, sT)
           l2 == Remember(l1, tf, tt, sF)
           bins == BranchInstr(tt, tf)
<1>5. sT.off = ad + 6 /\ sF.off = ad + 14 /\ bins.size = 22
  BY <1>1, <1>2, <1>4 DEF Ptr, bins, BranchInstr, Instr, truthAt, falseAt, OpcodeSize, RegSize, BoolSize, IntSize, AddrSize
<1>6. SlotsBelow(bp, ad)
  BY <1>0, <1>3, <1>4, OrderedDef
<1>7. l1 \in [rel : Seq(PtrT), abs : Seq(PtrT)]
  BY <1>0, RememberRel
<1>8. l1.rel \in Seq(PtrT) /\ SlotsBelow(l1.rel, ad + 7)
  <2>1. l1.rel = bp \/ l1.rel = Append(bp, sT)
    BY <1>0, <1>3, RememberRelCases DEF Lists
  <2>2. PICK r1 : r1 = l1.rel
    OBVIOUS
  <2>3. ad <= sT.off /\ sT.off < ad + 7 /\ ad + 7 \in Nat
    BY <1>5
  <2>4. r1 = bp \/ r1 = Append(bp, sT)
    BY <2>1, <2>2
  <2>5. r1 \in Seq(PtrT) /\ SlotsBelow(r1, ad + 7)
    BY <1>6, <2>3, <2>4, RememberBelow
  <2>6. QED
    BY <2>2, <2>5
<1>9. PICK b1 \in Seq(PtrT) : b1 = l1.rel
  BY <1>8
<1>10. SlotsBelow(l2.rel, ad + 22)
  <2>1. l2.rel = b1 \/ l2.rel = Append(b1, sF)
    BY <1>7, <1>9, RememberRelCases
  <2>2. PICK r2 : r2 = l2.rel
    OBVIOUS
  <2>3. SlotsBelow(b1, ad + 7)
    BY <1>8, <1>9
  <2>4. ad + 7 <= sF.off /\ sF.off < ad + 22 /\ ad + 7 \in Nat /\ ad + 22 \in Nat
    BY <1>5
  <2>5. r2 = b1 \/ r2 = Append(b1, sF)
    BY <2>1, <2>2
  <2>6. SlotsBelow(r2, ad + 22)
    BY <2>3, <2>4, <2>5, RememberBelow
  <2>7. QED
    BY <2>2, <2>6
<1>11. l2 \in [rel : Seq(PtrT), abs : Seq(PtrT)]
  BY <1>7, RememberRel
<1>12. bins \in [size : Nat, fields : SUBSET FieldT]
  BY DEF bins, BranchInstr, truthAt, falseAt, Instr, Field, FieldT, OpcodeSize, RegSize, BoolSize, IntSize, AddrSize
<1>13. /\ Write(p, bins)
       /\ branches' = [branches EXCEPT ![p] = l2.rel]
       /\ UNCHANGED live
  BY <1>1, <1>2 DEF Branch, UpdateLists, bins, truthAt, falseAt
<1>14. SlotsBelow(l2.rel, addr[p] + bins.size)
  BY <1>4, <1>5, <1>10
<1>15. QED
  BY <1>0, <1>11, <1>12, <1>13, <1>14, OrderedWriteStep

(* The emitters without targets keep branches and move addr_ptr forward.  *)
LEMMA EmitPlainOrdered ==
  ASSUME IInv, RelativeSlotsOrdered, NEW p \in Progs, NEW sizes \in SUBSET Nat,
         EmitPlain(p, sizes)
  PROVE  RelativeSlotsOrdered'
<1>1. PICK sz \in sizes : Write(p, Instr(sz, {}))
  BY DEF EmitPlain
<1>2. Instr(sz, {}) \in [size : Nat, fields : SUBSET FieldT] /\ Instr(sz, {}).size = sz
  BY DEF Instr
<1>3. /\ TypeOK /\ p \in live
      /\ branches' = [branches EXCEPT ![p] = branches[p]]
      /\ UNCHANGED live
  BY <1>1 DEF EmitPlain, IInv, TypeOK, Write
<1>4. PICK bp \in Seq(PtrT) : bp = branches[p]
  BY <1>3 DEF TypeOK
<1>5. PICK ad \in Nat : ad = addr[p]
  BY <1>3 DEF TypeOK
<1>6. SlotsBelow(bp, ad) /\ ad <= ad + sz /\ ad + sz \in Nat
  BY <1>3, <1>4, <1>5, OrderedDef
<1>7. SlotsBelow(bp, ad + sz)
  BY <1>6, OrderedWiden
<1>8. QED
  BY <1>1, <1>2, <1>3, <1>4, <1>5, <1>7, OrderedWriteStep

(* Every step of the client keeps the relative slots ordered.              *)
LEMMA NextOrdered ==
  ASSUME IInv, RelativeSlotsOrdered, [Next]_vars
  PROVE  RelativeSlotsOrdered'
<1> USE BuilderAssumption
<1>0. TypeOK
  BY DEF IInv
<1>1. ASSUME NEW p \in Progs, Construct(p) \/ Destroy(p)
      PROVE  RelativeSlotsOrdered'
  BY <1>0, <1>1, ConstructDestroyOrdered
<1>2. ASSUME NEW p \in Progs, NEW q \in Progs, CopyConstruct(p, q) \/ Assign(p, q)
      PROVE  RelativeSlotsOrdered'
  <2>1. q \in live /\ live' \subseteq live \cup {p}
    BY <1>2 DEF CopyConstruct, Assign
  <2>2. /\ addr' = [addr EXCEPT ![p] = addr[q]]
        /\ branches' = [branches EXCEPT ![p] = Rebase(branches[q], nextBuf)]
    BY <1>2 DEF CopyConstruct, Assign
  <2>3. QED
    BY <1>0, <2>1, <2>2, CopyOrdered
<1>3. ASSUME NEW p \in Progs,
             \/ EmitIntegerOp(p) \/ EmitFloatOp(p) \/ EmitDataOp(p)
             \/ EmitRegisterOp(p) \/ EmitCallOp(p) \/ EmitBlockOp(p)
      PROVE  RelativeSlotsOrdered'
  <2>1. CASE EmitIntegerOp(p)
    BY <2>1, EmitPlainOrdered DEF EmitIntegerOp, OpcodeSize, RegSize, BoolSize, IntSize
  <2>2. CASE EmitFloatOp(p)
    BY <2>2, EmitPlainOrdered DEF EmitFloatOp, OpcodeSize, RegSize, BoolSize, IntSize, FloatSize
  <2>3. CASE EmitDataOp(p)
    BY <2>3, EmitPlainOrdered DEF EmitDataOp, OpcodeSize, RegSize, BoolSize, IntSize, ByteSize, StrSize
  <2>4. CASE EmitRegisterOp(p)
    BY <2>4, EmitPlainOrdered DEF EmitRegisterOp, OpcodeSize, RegSize, BoolSize, IntSize, StrSize
  <2>5. CASE EmitCallOp(p)
    BY <2>5, EmitPlainOrdered DEF EmitCallOp, OpcodeSize, RegSize, BoolSize, IntSize, StrSize
  <2>6. CASE EmitBlockOp(p)
    BY <2>6, EmitPlainOrdered DEF EmitBlockOp, OpcodeSize, RegSize, BoolSize, IntSize, StrSize
  <2>7. QED
    BY <1>3, <2>1, <2>2, <2>3, <2>4, <2>5, <2>6
<1>4. ASSUME NEW p \in Progs, NEW t \in JumpTypes, Jump(p, t)
      PROVE  RelativeSlotsOrdered'
  BY <1>4, JumpOrdered
<1>5. ASSUME NEW p \in Progs, NEW pr \in BranchPairs, Branch(p, pr[1], pr[2])
      PROVE  RelativeSlotsOrdered'
  <2>1. pr[1] \in JumpTypes /\ pr[2] \in JumpTypes
    OBVIOUS
  <2>2. QED
    BY <1>5, <2>1, BranchOrdered
<1>6. CASE UNCHANGED vars
  BY <1>6 DEF vars, RelativeSlotsOrdered
<1>7. QED
  BY <1>1, <1>2, <1>3, <1>4, <1>5, <1>6 DEF Next

(* RelativeSlotsOrdered for every set of Programs and every bound: after  *)
(* any sequence of constructions, copies, assignments, emissions, jumps   *)
(* and branches, the relative slots of a live Program lie in the bytes it *)
(* has written, in strictly increasing order, so calculateJumps patches   *)
(* each relative field once and never a byte past addr_ptr.               *)
THEOREM SlotsOrdered == Spec => []RelativeSlotsOrdered
<1>1. Init => IInv /\ RelativeSlotsOrdered
  BY InitIInv DEF Init, RelativeSlotsOrdered
<1>2. IInv /\ RelativeSlotsOrdered /\ [Next]_vars => IInv' /\ RelativeSlotsOrdered'
  BY NextIInv, NextOrdered
<1>3. QED
  BY <1>1, <1>2, PTL DEF Spec

=============================================================================
