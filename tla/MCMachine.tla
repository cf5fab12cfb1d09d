------------------------------ MODULE MCMachine ------------------------------
(***************************************************************************)
(* Model-checking instance of Machine for arbitrary images: the loader of *)
(* vm.cpp accepts any file, so every word of a small alphabet may appear  *)
(* at every position of the text array, with and without the greedy bit. *)
(***************************************************************************)
EXTENDS Machine, TLC

\* The words of the alphabet: the executors vm.cpp has (ADD, MUL, DELETE,
\* LUIU of the largest high part, ADDIU, HALT, NOOP), a T-format opcode it lacks (SUB, which
\* halts) and an R-format one it lacks (SUBIU, which is skipped).
MCBase ==
  { InsT("ADD", FALSE, 1, 1, 2), InsT("MUL", FALSE, 2, 1, 2),
    InsS("DELETE", FALSE, 1), InsE("LUIU", FALSE, 1, ESize - 1),
    InsR("ADDIU", FALSE, 2, Void, 3), InsN("HALT"), InsN("NOOP"),
    InsT("SUB", FALSE, 1, 1, 2), InsR("SUBIU", FALSE, 1, 1, 1) }

MCWords == { [w EXCEPT !.greedy = g] : w \in MCBase, g \in BOOLEAN }

\* Every image that fills the text array.
MCTexts == [1 .. TextWords -> MCWords]
=============================================================================
