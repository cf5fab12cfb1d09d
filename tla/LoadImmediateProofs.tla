------------------------- MODULE LoadImmediateProofs -------------------------
(***************************************************************************)
(* Proofs about the split to_loading_parts_unsigned makes of a literal     *)
(* (module LoadImmediate), for every word width allowed by Arch.           *)
(***************************************************************************)
EXTENDS LoadImmediate, TLAPS

\* Euclidean division of a word by a positive size: the quotient and the
\* remainder rebuild it, and the remainder is below the size.
LEMMA DivMod ==
  ASSUME NEW v \in Nat, NEW d \in Nat \ {0}
  PROVE  /\ v \div d \in Nat
         /\ v % d \in 0 .. d - 1
         /\ v = (v \div d) * d + (v % d)
<1>1. v \div d \in Nat
  BY SMT
<1>2. v % d \in 0 .. d - 1
  BY SMT
<1>3. v = d * (v \div d) + (v % d)
  BY SMT
<1> QED
  BY <1>1, <1>2, <1>3

\* The parts of every word rebuild it and fit the immediates op_li puts
\* them in: for every literal, LUI's high part is below 2^36, and the base
\* and the remainder the ADDI instructions carry are below 2^24 (the
\* invariant LiPartsReconstruct of MCLoadImmediate states it for the
\* literal being loaded).
THEOREM PartsCorrect == \A v \in Word : PartsReconstruct(v)
<1> SUFFICES ASSUME NEW v \in Word PROVE PartsReconstruct(v)
  OBVIOUS
<1> DEFINE high == v \div LowSize
           low  == v % LowSize
           rem  == low % Multiplier
<1>1. LowSize \in Nat \ {0} /\ RSize \in Nat \ {0} /\ ESize \in Nat \ {0}
      /\ LowSize = RSize * 16 /\ 16 < RSize /\ v \in 0 .. LowSize * ESize - 1
  BY ArchSizes DEF Word
<1>2. high \in Nat /\ low \in 0 .. LowSize - 1 /\ v = high * LowSize + low
  <2>1. v \in Nat /\ LowSize \in Nat \ {0}
    BY <1>1
  <2> QED
    BY <2>1, DivMod, Zenon
<1>3. high < ESize
  <2>1. high * LowSize < ESize * LowSize
    BY <1>1, <1>2
  <2> QED
    BY <1>1, <1>2, <2>1
<1>4. rem \in 0 .. 15 /\ low = (low \div 16) * 16 + rem
  <2>1. low \in Nat /\ 16 \in Nat \ {0}
    BY <1>2
  <2>2. rem \in 0 .. 16 - 1 /\ low = (low \div 16) * 16 + (low % 16)
    BY <2>1, DivMod, Zenon DEF Multiplier
  <2> QED
    BY <2>2 DEF Multiplier
<1>5. (low - rem) \div Multiplier = low \div 16
  BY <1>2, <1>4 DEF Multiplier
<1>6. low \div 16 < RSize
  BY <1>1, <1>2, <1>4
<1>7. ToLoadingParts(v) =
        IF low < RSize
        THEN [high |-> high, base |-> low, multiplier |-> 0, remainder |-> 0]
        ELSE [high |-> high, base |-> low \div 16,
              multiplier |-> Multiplier, remainder |-> rem]
  BY <1>5 DEF ToLoadingParts
<1>8. CASE low < RSize
  BY <1>1, <1>2, <1>3, <1>7, <1>8 DEF PartsReconstruct
<1>9. CASE ~(low < RSize)
  BY <1>1, <1>2, <1>3, <1>4, <1>6, <1>7, <1>9 DEF PartsReconstruct, Multiplier
<1> QED
  BY <1>8, <1>9
=============================================================================
