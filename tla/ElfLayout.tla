----------------------------- MODULE ElfLayout -----------------------------
(***************************************************************************)
(* The ELF image emit_elf writes and the part of it the VM loader reads.  *)
(*                                                                         *)
(* emit_elf (tools/exec/asm.cpp) builds a list of (optional program        *)
(* header, section header) pairs, places the contents behind the header   *)
(* tables with a running offset, computes e_entry and then writes the     *)
(* file in a fixed order.  The loader (tools/vm.cpp) reads the ELF         *)
(* header, the next three program headers,                                 *)
(* and the bytes the third one describes.                                  *)
(*                                                                         *)
(* A file is a sequence of chunks, one per write() (or loop of writes) of  *)
(* the writer, so that a byte offset names the chunk that begins there.    *)
(* Section contents are abstracted to their sizes.                        *)
(***************************************************************************)
EXTENDS Integers, SequencesExt

CONSTANT CommentSize   \* VIUAVM_VERSION_FULL.size() + 1, fixed by the build

(* sizeof of the ELF records and of what the writers write per entry.      *)
EhdrSize == 64
PhdrSize == 56
ShdrSize == 64
SymSize  == 24      \* sizeof(Elf64_Sym)
RelSize  == 16      \* sizeof(Elf64_Rel)
WordSize8 == 8      \* sizeof(viua::arch::instruction_type)
InterpSize == 8     \* "viua-vm" and its terminating zero
VectorSize == 24    \* sizeof(std::vector<Elf64_Sym>) with libstdc++ on 64 bits

None == "none"

NoEntry == -1    \* std::nullopt for the entry point offset

Seg(type, flags, offset, filesz) ==
  [type |-> type, flags |-> flags, offset |-> offset, filesz |-> filesz]
NoSeg == Seg(None, {}, 0, 0)

Sec(name, type, size) == [name |-> name, type |-> type, size |-> size, offset |-> 0]
NoSec == Sec(None, "SHT_NULL", 0)

(* Section names and their lengths, as save_shstr_entry stores them.       *)
SecNameLen == (".viua.magic" :> 11) @@ (".interp" :> 7) @@ (".rel" :> 4)
              @@ (".text" :> 5) @@ (".rodata" :> 7) @@ (".comment" :> 8)
              @@ (".symtab" :> 7) @@ (".strtab" :> 7) @@ (".shstrtab" :> 9)

(***************************************************************************)
(* The header list of emit_elf, in push_back order.  The .rel pair is      *)
(* there when relocs has a value; .shstrtab's size is that of shstr after  *)
(* its own name was saved: the leading zero and every name with its zero.  *)
(***************************************************************************)
ExecHeaders(hasRel, nrel, textBytes, rodataBytes, nsym, strtabBytes) ==
  LET rel    == IF hasRel
                THEN << [seg |-> NoSeg, sec |-> Sec(".rel", "SHT_REL", nrel * RelSize)] >>
                ELSE << >>
      names  == {".viua.magic", ".interp", ".text", ".rodata", ".comment",
                 ".symtab", ".strtab", ".shstrtab"} \cup (IF hasRel THEN {".rel"} ELSE {})
      shstr  == 1 + FoldSet(LAMBDA n, a : a + SecNameLen[n] + 1, 0, names)
  IN  << [seg |-> Seg("PT_NULL", {}, 0, 0),            sec |-> NoSec],
         [seg |-> Seg("PT_NULL", {}, "MAGIC", 8),      sec |-> Sec(".viua.magic", "SHT_NOBITS", 8)],
         [seg |-> Seg("PT_INTERP", {"R"}, 0, InterpSize), sec |-> Sec(".interp", "SHT_PROGBITS", InterpSize)] >>
      \o rel
      \o << [seg |-> Seg("PT_LOAD", {"R", "X"}, 0, textBytes), sec |-> Sec(".text", "SHT_PROGBITS", textBytes)],
            [seg |-> Seg("PT_LOAD", {"R"}, 0, rodataBytes),    sec |-> Sec(".rodata", "SHT_PROGBITS", rodataBytes)],
            [seg |-> NoSeg, sec |-> Sec(".comment", "SHT_PROGBITS", CommentSize)],
            [seg |-> NoSeg, sec |-> Sec(".symtab", "SHT_SYMTAB", nsym * SymSize)],
            [seg |-> NoSeg, sec |-> Sec(".strtab", "SHT_STRTAB", strtabBytes)],
            [seg |-> NoSeg, sec |-> Sec(".shstrtab", "SHT_STRTAB", shstr)] >>

HasSeg(h) == h.seg.type # None

(* elf_size: the ELF header and both header tables.                       *)
ElfSize(hs) == EhdrSize + PhdrSize * Len(SelectSeq(hs, HasSeg)) + ShdrSize * Len(hs)

(***************************************************************************)
(* One turn of the offset loop: a present, non-PT_NULL segment gets the    *)
(* current offset (and the first R|X one records it as text_offset); a     *)
(* section that is neither SHT_NULL nor SHT_NOBITS gets it too and moves  *)
(* it on by its size.  PlaceStepNoSkip is a faulty variant that lets the   *)
(* NOBITS magic section take file space.                                   *)
(***************************************************************************)
PlaceStepNoSkip(base, st, h) ==
  LET loadable == HasSeg(h) /\ h.seg.type # "PT_NULL"
      seg == IF loadable THEN [h.seg EXCEPT !.offset = base + st.acc] ELSE h.seg
      sec == IF h.sec.type = "SHT_NULL" THEN h.sec ELSE [h.sec EXCEPT !.offset = base + st.acc]
  IN  [acc     |-> IF h.sec.type = "SHT_NULL" THEN st.acc ELSE st.acc + h.sec.size,
       textOff |-> IF loadable /\ h.seg.flags = {"R", "X"} /\ st.textOff = None
                   THEN st.acc ELSE st.textOff,
       hs      |-> Append(st.hs, [seg |-> seg, sec |-> sec])]

PlaceStep(base, st, h) ==
  LET loadable == HasSeg(h) /\ h.seg.type # "PT_NULL"
      spans    == h.sec.type \notin {"SHT_NULL", "SHT_NOBITS"}
      seg == IF loadable THEN [h.seg EXCEPT !.offset = base + st.acc] ELSE h.seg
      sec == IF spans THEN [h.sec EXCEPT !.offset = base + st.acc] ELSE h.sec
  IN  [acc     |-> IF spans THEN st.acc + h.sec.size ELSE st.acc,
       textOff |-> IF loadable /\ h.seg.flags = {"R", "X"} /\ st.textOff = None
                   THEN st.acc ELSE st.textOff,
       hs      |-> Append(st.hs, [seg |-> seg, sec |-> sec])]

Place(hs) ==
  FoldLeft(LAMBDA st, h : PlaceStep(ElfSize(hs), st, h),
           [acc |-> 0, textOff |-> None, hs |-> << >>], hs)

(* e_entry: the entry function's offset in .text, moved to a file offset.  *)
(* EntryOfNoText is a faulty variant that forgets text_offset.            *)
EntryOfNoText(entry, textOff, elfSize) ==
  IF entry = NoEntry THEN 0 ELSE entry + elfSize

EntryOf(entry, textOff, elfSize) ==
  IF entry = NoEntry THEN 0 ELSE textOff + entry + elfSize

(***************************************************************************)
(* The file emit_elf writes: the ELF header, the program headers, the      *)
(* section headers, then the contents in write order.  Each symbol is      *)
(* written with sizeof(std::vector<Elf64_Sym>) bytes.                      *)
(***************************************************************************)
ExecImage(hasRel, nrel, textWords, rodataBytes, nsym, strtabBytes, entry) ==
  LET hs   == ExecHeaders(hasRel, nrel, textWords * WordSize8, rodataBytes, nsym, strtabBytes)
      pl   == Place(hs)
      nph  == Len(SelectSeq(hs, HasSeg))
      find(n) == CHOOSE h \in Range(hs) : h.sec.name = n
  IN  [type     |-> "ET_REL",
       entry    |-> EntryOf(entry, pl.textOff, ElfSize(hs)),
       phoff    |-> EhdrSize,
       phnum    |-> nph,
       shoff    |-> EhdrSize + nph * PhdrSize,
       shnum    |-> Len(hs),
       shstrndx |-> Len(hs) - 1,
       headers  |-> pl.hs,
       chunks   |-> << [name |-> "ehdr", size |-> EhdrSize],
                       [name |-> "phdrs", size |-> nph * PhdrSize],
                       [name |-> "shdrs", size |-> Len(hs) * ShdrSize],
                       [name |-> ".interp", size |-> InterpSize] >>
                    \o (IF hasRel THEN << [name |-> ".rel", size |-> nrel * RelSize] >> ELSE << >>)
                    \o << [name |-> ".text", size |-> textWords * WordSize8],
                          [name |-> ".rodata", size |-> rodataBytes],
                          [name |-> ".comment", size |-> CommentSize],
                          [name |-> ".symtab", size |-> nsym * VectorSize],
                          [name |-> ".strtab", size |-> strtabBytes],
                          [name |-> ".shstrtab", size |-> find(".shstrtab").sec.size] >>]

(* The file offset at which the k-th chunk begins.                         *)
ChunkPos(img, k) == FoldLeft(LAMBDA a, c : a + c.size, 0, SubSeq(img.chunks, 1, k - 1))

(* The name of the chunk written at offset off, if one is.                 *)
ChunkAt(img, off) ==
  LET ks == {k \in DOMAIN img.chunks : ChunkPos(img, k) = off /\ img.chunks[k].size > 0}
  IN  IF ks = {} THEN None ELSE img.chunks[CHOOSE k \in ks : TRUE].name

(* The program header table as written: the present segments in order.     *)
Phdrs(img) == [k \in 1..Len(SelectSeq(img.headers, HasSeg)) |->
                 SelectSeq(img.headers, HasSeg)[k].seg]

(***************************************************************************)
(* The loader of tools/vm.cpp: after the ELF header it reads three program *)
(* headers one after the other, keeps the third, seeks to its p_offset     *)
(* and reads p_filesz bytes into the text array.  The result is the chunk  *)
(* found there and the number of bytes read.                              *)
(***************************************************************************)
VmLoad(img) ==
  LET ph == Phdrs(img)[3]
  IN  [chunk |-> ChunkAt(img, ph.offset), bytes |-> ph.filesz, offset |-> ph.offset]

=============================================================================
