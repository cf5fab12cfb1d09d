-------------------------- MODULE MCProgramBuilder --------------------------
(* TLC instance of ProgramBuilder: two Program objects.                    *)
EXTENDS ProgramBuilder, TLC

CONSTANTS pa, pb

MCProgs == {pa, pb}

(* branch() with every combination of target types.                        *)
AllPairs == JumpTypes \X JumpTypes

(* branch() with both targets of the same type only.                       *)
SamePairs == {<< t, t >> : t \in JumpTypes}

MCSymmetry == Permutations(MCProgs)
=============================================================================
