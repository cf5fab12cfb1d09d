---------------------------- MODULE AsmPipeline ----------------------------
(***************************************************************************)
(* The stages of the assembler (tools/exec/asm.cpp main), one action per   *)
(* stage in main's order, followed by the VM loading the image.            *)
(*                                                                         *)
(* A program is the parser's node list.  A node's name is its index; only  *)
(* the length of the name matters (to the string table).  An instruction  *)
(* is [op, arg]: a plain instruction "OP", the pseudoinstruction "LI" with *)
(* its literal, "CALL" or "ATOM" with the index of the label it names, or  *)
(* after cooking an "F" word with its 32-bit immediate.  A cooked CALL or  *)
(* ATOM keeps the label it named in arg, which the encoded word does not  *)
(* carry; the properties use it to say what the relocation must name.     *)
(***************************************************************************)
EXTENDS LoadImmediate, ElfLayout

CONSTANTS
  Programs,       \* the node lists the parser can hand to the stages
  FileNameLen     \* length of the source path saved for the FILE symbol

NoNode == 0     \* no node: node indices start at 1
FileName == -1  \* the name of the FILE symbol
NonInt == -1    \* a "* N" whose N is not an integer literal

ASSUME PipelineAssumption ==
  /\ FileNameLen \in Nat \ {0}
  /\ \A p \in Programs : p \in Seq([kind : {"fn", "label"}, attrs : SUBSET {"extern", "entry_point"},
                                    nameLen : Nat \ {0}, body : Seq([op : {"OP", "LI", "CALL", "ATOM"}, arg : Nat]),
                                    vtype : {"none", "string", "atom"},
                                    value : Seq([tok : {"str", "mul"}, n : Nat \cup {NonInt}])])

VARIABLES
  nodes,     \* the AST; cooking rewrites function bodies in place
  symtab,    \* symbol_table, 1-based here, index k+1 holding entry k
  symMap,    \* symbol_map: node (name) -> 0-based symbol index
  strtab,    \* string_table.size()
  rodata,    \* rodata_contents.size()
  entry,     \* the entry point function found, or NoNode
  text,      \* the emitted words
  relocs,    \* the relocation table
  image,     \* the file emit_elf writes, or None
  loaded,    \* what the VM's loader read from it, or None
  stage      \* the next statement of main, "done", or "failed" (exit 1)

vars == << nodes, symtab, symMap, strtab, rodata, entry, text, relocs, image, loaded, stage >>

Stages == {"functions", "values", "cook", "pseudo", "entry", "emit", "reloc", "elf", "load",
           "done", "failed"}

Sym(name, type, value, size) == [name |-> name, type |-> type, value |-> value, size |-> size]

Ins(op, arg) == [op |-> op, arg |-> arg]

(***************************************************************************)
(* The symbol table's bookkeeping, as one record the stage loops thread     *)
(* through: save_string_to_strtab (the name and its zero) followed by      *)
(* record_symbol (append, and map the name to the new index).             *)
(***************************************************************************)
Tables == [symtab |-> symtab, symMap |-> symMap, strtab |-> strtab, rodata |-> rodata,
           stop |-> FALSE, failed |-> FALSE]

Record(t, k, sym) ==
  [t EXCEPT !.symtab = Append(@, sym),
            !.symMap = (k :> Len(t.symtab)) @@ @,
            !.strtab = @ + nodes[k].nameLen + 1]

SetTables(t) == /\ symtab' = t.symtab /\ symMap' = t.symMap
                /\ strtab' = t.strtab /\ rodata' = t.rodata

(* main: the string table starts with a zero, the symbol table with the    *)
(* null symbol and the FILE symbol of the source path.                    *)
Init ==
  /\ nodes \in Programs
  /\ symtab = << Sym(NoNode, "NOTYPE", 0, 0), Sym(FileName, "FILE", 0, 0) >>
  /\ symMap = [k \in {} |-> 0]
  /\ strtab = 1 + FileNameLen + 1
  /\ rodata = 0
  /\ entry = NoNode
  /\ text = << >>
  /\ relocs = << >>
  /\ image = None
  /\ loaded = None
  /\ stage = "functions"

(* load_function_labels: a FUNC symbol of value and size 0 per function.   *)
LoadFunctionLabels ==
  /\ stage = "functions"
  /\ SetTables(FoldLeftDomain(LAMBDA t, k :
                 IF nodes[k].kind = "fn" THEN Record(t, k, Sym(k, "FUNC", 0, 0)) ELSE t,
               Tables, nodes))
  /\ stage' = "values"
  /\ UNCHANGED << nodes, entry, text, relocs, image, loaded >>

(***************************************************************************)
(* The bytes of a string label: literals are appended, "* N" repeats what  *)
(* has been built so far N times; a non-integer N is a fatal error.        *)
(***************************************************************************)
StringSize(toks) ==
  FoldLeft(LAMBDA s, tk : IF s = NonInt \/ tk.n = NonInt THEN NonInt
                          ELSE IF tk.tok = "str" THEN s + tk.n ELSE s * tk.n,
           0, toks)

(***************************************************************************)
(* One turn of load_value_labels' loop over label nodes.  An extern label  *)
(* is recorded as an OBJECT of value and size 0, and then the function     *)
(* returns: the labels after it are never visited.  A string or atom       *)
(* label's bytes go to .rodata, and its symbol has their offset and size.  *)
(***************************************************************************)
LoadValueLabel(t, k) ==
  LET n == nodes[k]
      size == IF n.vtype = "string" THEN StringSize(n.value) ELSE n.value[1].n
  IN  IF t.stop \/ n.kind # "label" THEN t
      ELSE IF "extern" \in n.attrs
      THEN [Record(t, k, Sym(k, "OBJECT", 0, 0)) EXCEPT !.stop = TRUE]
      ELSE IF size = NonInt THEN [t EXCEPT !.stop = TRUE, !.failed = TRUE]
      ELSE [Record(t, k, Sym(k, "OBJECT", t.rodata, size)) EXCEPT !.rodata = @ + size]

LoadValueLabels ==
  /\ stage = "values"
  /\ LET t == FoldLeftDomain(LoadValueLabel, Tables, nodes)
     IN  IF t.failed
         THEN stage' = "failed" /\ UNCHANGED << symtab, symMap, strtab, rodata >>
         ELSE SetTables(t) /\ stage' = "cook"
  /\ UNCHANGED << nodes, entry, text, relocs, image, loaded >>

(***************************************************************************)
(* cook_long_immediates: an instruction naming a label becomes two F words *)
(* with the upper and lower 32 bits of the label's symbol index, then the  *)
(* instruction.  A label with no symbol is an error, and fatal.  main then *)
(* appends the string table's closing zero.                               *)
(***************************************************************************)
Refers(i) == i.op \in {"CALL", "ATOM"}

Cook(i) == IF Refers(i) THEN << Ins("F", 0), Ins("F", symMap[i.arg]), i >> ELSE << i >>

Unresolved == \E k \in DOMAIN nodes :
                \E j \in DOMAIN nodes[k].body :
                  nodes[k].kind = "fn" /\ Refers(nodes[k].body[j])
                  /\ nodes[k].body[j].arg \notin DOMAIN symMap

CookLongImmediates ==
  /\ stage = "cook"
  /\ IF Unresolved
     THEN stage' = "failed" /\ UNCHANGED << nodes, strtab >>
     ELSE /\ nodes' = [k \in DOMAIN nodes |->
                         [nodes[k] EXCEPT !.body = FlattenSeq([j \in DOMAIN @ |-> Cook(@[j])])]]
          /\ strtab' = strtab + 1
          /\ stage' = "pseudo"
  /\ UNCHANGED << symtab, symMap, rodata, entry, text, relocs, image, loaded >>

(* cook_pseudoinstructions: li becomes the sequence op_li expands it to.   *)
Expand(i) == IF i.op = "LI" THEN [j \in 1..Len(OpLi(i.arg, FALSE)) |-> Ins("OP", 0)]
             ELSE << i >>

CookPseudoinstructions ==
  /\ stage = "pseudo"
  /\ nodes' = [k \in DOMAIN nodes |->
                 [nodes[k] EXCEPT !.body = FlattenSeq([j \in DOMAIN @ |-> Expand(@[j])])]]
  /\ stage' = "entry"
  /\ UNCHANGED << symtab, symMap, strtab, rodata, entry, text, relocs, image, loaded >>

(* find_entry_point: a second node with entry_point is a fatal error.      *)
FindEntryPoint ==
  /\ stage = "entry"
  /\ LET es == {k \in DOMAIN nodes : "entry_point" \in nodes[k].attrs}
     IN  IF Cardinality(es) > 1
         THEN stage' = "failed" /\ UNCHANGED entry
         ELSE /\ entry' = IF es = {} THEN NoNode ELSE CHOOSE k \in es : TRUE
              /\ stage' = "emit"
  /\ UNCHANGED << nodes, symtab, symMap, strtab, rodata, text, relocs, image, loaded >>

(***************************************************************************)
(* ::emit_bytecode: HALT at word 0, then every function's body in node     *)
(* order.  A function not marked extern gets its offset (in bytes) and    *)
(* size in its symbol.  FnStart is the 1-based index of its first word.   *)
(* EmitSizeInWords is a faulty variant that records sizes in words.       *)
(***************************************************************************)
Bodies(ns) == [k \in DOMAIN ns |-> IF ns[k].kind = "fn" THEN ns[k].body ELSE << >>]

FnStart(ns, k) == 2 + Len(FlattenSeq(SubSeq(Bodies(ns), 1, k - 1)))

EmitSizeInWords(ns, st) ==
  [x \in DOMAIN st |->
     IF st[x].type = "FUNC" /\ "extern" \notin ns[st[x].name].attrs
     THEN [st[x] EXCEPT !.value = (FnStart(ns, st[x].name) - 1) * WordSize8,
                        !.size  = Len(ns[st[x].name].body)]
     ELSE st[x]]

EmitSymbols(ns, st) ==
  [x \in DOMAIN st |->
     IF st[x].type = "FUNC" /\ "extern" \notin ns[st[x].name].attrs
     THEN [st[x] EXCEPT !.value = (FnStart(ns, st[x].name) - 1) * WordSize8,
                        !.size  = Len(ns[st[x].name].body) * WordSize8]
     ELSE st[x]]

EmitBytecode ==
  /\ stage = "emit"
  /\ text' = << Ins("HALT", 0) >> \o FlattenSeq(Bodies(nodes))
  /\ symtab' = EmitSymbols(nodes, symtab)
  /\ stage' = "reloc"
  /\ UNCHANGED << nodes, symMap, strtab, rodata, entry, relocs, image, loaded >>

(***************************************************************************)
(* make_reloc_table: for the CALL or ATOM at 0-based index i, the symbol   *)
(* index is (hi << 32 | lo) cast to 32 bits, that is the lower F word's   *)
(* immediate, and the relocation is at the upper F word, (i - 2) * 8.      *)
(* RelocAtInsn is a faulty variant that places it at the instruction.     *)
(***************************************************************************)
RelocAtInsn(tx, p) ==
  [offset |-> (p - 1) * WordSize8, sym |-> tx[p - 1].arg,
   kind |-> IF tx[p].op = "CALL" THEN "JUMP_SLOT" ELSE "OBJECT"]

RelocOf(tx, p) ==
  [offset |-> (p - 3) * WordSize8, sym |-> tx[p - 1].arg,
   kind |-> IF tx[p].op = "CALL" THEN "JUMP_SLOT" ELSE "OBJECT"]

MakeRelocTable ==
  /\ stage = "reloc"
  /\ IF \E p \in DOMAIN text : Refers(text[p]) /\ p < 3
     THEN stage' = "failed" /\ UNCHANGED relocs       \* text.at(i - 2) throws
     ELSE /\ relocs' = FoldLeftDomain(LAMBDA rs, p : IF Refers(text[p])
                                                     THEN Append(rs, RelocOf(text, p)) ELSE rs,
                                      << >>, text)
          /\ stage' = "elf"
  /\ UNCHANGED << nodes, symtab, symMap, strtab, rodata, entry, text, image, loaded >>

(***************************************************************************)
(* emit_elf, called with as_executable = false, the relocation table (it   *)
(* always has a value) and, as the entry, the entry function's st_value.   *)
(***************************************************************************)
EmitElf ==
  /\ stage = "elf"
  /\ image' = ExecImage(TRUE, Len(relocs), Len(text), rodata, Len(symtab), strtab,
                        IF entry = NoNode THEN NoEntry ELSE symtab[symMap[entry] + 1].value)
  /\ stage' = "load"
  /\ UNCHANGED << nodes, symtab, symMap, strtab, rodata, entry, text, relocs, loaded >>

(* The VM's loader reads the image the assembler wrote.                    *)
VmLoadImage ==
  /\ stage = "load"
  /\ loaded' = VmLoad(image)
  /\ stage' = "done"
  /\ UNCHANGED << nodes, symtab, symMap, strtab, rodata, entry, text, relocs, image >>

Next ==
  \/ LoadFunctionLabels
  \/ LoadValueLabels
  \/ CookLongImmediates
  \/ CookPseudoinstructions
  \/ FindEntryPoint
  \/ EmitBytecode
  \/ MakeRelocTable
  \/ EmitElf
  \/ VmLoadImage

Spec == Init /\ [][Next]_vars

-----------------------------------------------------------------------------
(***************************************************************************)
(* Properties.                                                             *)
(***************************************************************************)

Emitted == stage \in {"reloc", "elf", "load", "done"}

Written == stage \in {"load", "done"}

(***************************************************************************)
(* After emit_bytecode, the symbol of every function that is not extern    *)
(* names exactly its own words in .text: its value is a word-aligned       *)
(* offset past the HALT, value + size lies within .text (spec 8.3), and    *)
(* the words there are the function's cooked body.                        *)
(***************************************************************************)
FunctionsInText ==
  Emitted =>
    \A x \in DOMAIN symtab :
      LET s == symtab[x] IN
      (s.type = "FUNC" /\ "extern" \notin nodes[s.name].attrs) =>
        /\ s.value % WordSize8 = 0 /\ s.size % WordSize8 = 0
        /\ s.value >= WordSize8
        /\ s.value + s.size <= Len(text) * WordSize8
        /\ SubSeq(text, s.value \div WordSize8 + 1, (s.value + s.size) \div WordSize8)
             = nodes[s.name].body

(***************************************************************************)
(* make_reloc_table puts one relocation at every CALL and ATOM of .text    *)
(* and nowhere else: at the upper of the two F words before it, of the     *)
(* instruction's kind, naming the symbol of the label the source named     *)
(* (spec 4.6 step 7).                                                      *)
(***************************************************************************)
RelocsMatchRefs ==
  stage \in {"elf", "load", "done"} =>
    /\ {r.offset : r \in Range(relocs)}
         = {(p - 3) * WordSize8 : p \in {q \in DOMAIN text : Refers(text[q])}}
    /\ \A r \in Range(relocs) :
         LET p == r.offset \div WordSize8 + 3 IN
         /\ r.offset % WordSize8 = 0
         /\ text[p - 2].op = "F" /\ text[p - 1].op = "F" /\ Refers(text[p])
         /\ r.kind = IF text[p].op = "CALL" THEN "JUMP_SLOT" ELSE "OBJECT"
         /\ symtab[r.sym + 1].name = text[p].arg

(***************************************************************************)
(* The file emit_elf writes agrees with its own headers: every section     *)
(* with contents is written at its sh_offset with sh_size bytes, every     *)
(* loadable segment covers its section, and the header tables are where   *)
(* e_phoff and e_shoff say (spec 4.2: offsets are backpatched after        *)
(* layout).  Symbols are written with sizeof(std::vector<Elf64_Sym>).      *)
(***************************************************************************)
LayoutConsistent ==
  Written =>
    LET hs == image.headers
        pos(n) == LET k == CHOOSE k \in DOMAIN image.chunks : image.chunks[k].name = n
                  IN  [at |-> ChunkPos(image, k), size |-> image.chunks[k].size]
    IN  /\ pos("phdrs") = [at |-> image.phoff, size |-> image.phnum * PhdrSize]
        /\ pos("shdrs") = [at |-> image.shoff, size |-> image.shnum * ShdrSize]
        /\ \A h \in Range(hs) :
             h.sec.type \notin {"SHT_NULL", "SHT_NOBITS"} =>
               pos(h.sec.name) = [at |-> h.sec.offset, size |-> h.sec.size]
        /\ \A h \in Range(hs) :
             (HasSeg(h) /\ h.seg.type \notin {"PT_NULL"}) =>
               h.seg.offset = h.sec.offset /\ h.seg.filesz = h.sec.size

(***************************************************************************)
(* e_entry is the file offset of the first word of the entry point         *)
(* function (spec section 3: the entry points at the function symbol, and  *)
(* S1: at the li expansion that begins main).                             *)
(***************************************************************************)
EntryAtEntryFunction ==
  (Written /\ entry # NoNode) =>
    LET k == CHOOSE k \in DOMAIN image.chunks : image.chunks[k].name = ".text"
    IN  image.entry = ChunkPos(image, k) + (FnStart(nodes, entry) - 1) * WordSize8

(***************************************************************************)
(* Compilation fails only for the errors of spec section 7: a duplicate    *)
(* entry point, a string multiplied by a non-integer, or a reference to a  *)
(* label that is not defined.  Violated: load_value_labels returns after   *)
(* the first extern label, so a later label has no symbol.                *)
(***************************************************************************)
Invalid ==
  \/ Cardinality({k \in DOMAIN nodes : "entry_point" \in nodes[k].attrs}) > 1
  \/ \E k \in DOMAIN nodes : nodes[k].vtype = "string" /\ StringSize(nodes[k].value) = NonInt
  \/ \E k \in DOMAIN nodes : \E j \in DOMAIN nodes[k].body :
       Refers(nodes[k].body[j]) /\ nodes[k].body[j].arg \notin DOMAIN nodes

ValidProgramsAssemble == stage = "failed" => Invalid

(***************************************************************************)
(* The VM runs the assembled program from its entry (spec section 3 and    *)
(* S1): when the program has an entry function, the first word run()       *)
(* executes, the first word the loader of vm.cpp read, is the word at the  *)
(* file offset e_entry names.                                              *)
(***************************************************************************)
VmRunsEntryFunction ==
  stage = "done" /\ entry # NoNode => loaded.offset = image.entry

=============================================================================
