------------------------ MODULE MCLoadImmediateProofs ------------------------
(***************************************************************************)
(* The assembler's li expansion inside the running machine (module         *)
(* MCLoadImmediate): the split of the literal the image was assembled      *)
(* from is correct in every state, for every width and literal set.        *)
(***************************************************************************)
EXTENDS MCLoadImmediate, LoadImmediateProofs, TLAPS

(* The literal op_li was called with is one of LiValues, in every state. *)
LiValueOK == liValue \in LiValues

LEMMA LiValueInit == MCInit => LiValueOK
BY DEF MCInit, LiValueOK

LEMMA LiValueStep == LiValueOK /\ [MCNext]_mcvars => LiValueOK'
BY DEF MCNext, mcvars, LiValueOK

(* LiPartsReconstruct in every state: the parts to_loading_parts_unsigned *)
(* splits the loaded literal into rebuild it and fit the LUI and ADDI      *)
(* immediates op_li emits them in, whichever literal was loaded.           *)
THEOREM LiSplitCorrect == MCSpec => []LiPartsReconstruct
<1>1. LiValueOK => LiPartsReconstruct
  BY LiAssumption, PartsCorrect DEF LiValueOK, LiPartsReconstruct
<1>2. QED
  BY <1>1, LiValueInit, LiValueStep, PTL DEF MCSpec
=============================================================================
