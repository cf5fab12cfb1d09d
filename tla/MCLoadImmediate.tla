--------------------------- MODULE MCLoadImmediate ---------------------------
(***************************************************************************)
(* The assembler and the interpreter together: the image is the li        *)
(* expansion of op_li followed by EBREAK and HALT, as in the sample       *)
(* program of asm.cpp's main, and the interpreter runs it from the clean  *)
(* register file vm.cpp creates.  liValue and liSigned record which li    *)
(* produced the image; they never change.                                  *)
(***************************************************************************)
EXTENDS Machine, LoadImmediate, TLC

CONSTANT LiValues   \* the literals loaded with li

\* li takes a uint64_t or an int64_t: the literal is a word of the machine.
ASSUME LiAssumption == LiValues \subseteq Word

VARIABLES liValue, liSigned

mcvars == << vars, liValue, liSigned >>

\* li $1, v; ebreak; halt
LiText(v, s) == OpLi(v, s) \o << InsN("EBREAK"), InsN("HALT") >>

MCTexts == { LiText(v, s) : v \in LiValues, s \in BOOLEAN }

MCInit ==
  /\ Init
  /\ \E v \in LiValues, s \in BOOLEAN :
       /\ text = Load(LiText(v, s))
       /\ liValue = v
       /\ liSigned = s

MCNext == Next /\ UNCHANGED << liValue, liSigned >>

MCSpec == MCInit /\ [][MCNext]_mcvars /\ WF_mcvars(MCNext)

\* The split of to_loading_parts_unsigned rebuilds the literal being
\* loaded and every part fits the immediate field op_li puts it in (spec
\* 8.2); proved for every word and every width in LoadImmediateProofs.
LiPartsReconstruct == PartsReconstruct(liValue)

\* Executing li $1, v from a clean register file leaves v in register 1,
\* tagged Signed for the int64_t overload and Unsigned for the uint64_t
\* one (spec 8.4, scenarios S1 and S2).
LiLoadsValue ==
  pc = "halted" =>
    registers[1] = [tag |-> IF liSigned THEN "Signed" ELSE "Unsigned",
                    val |-> liValue]
=============================================================================
