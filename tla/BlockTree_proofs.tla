-------------------------- MODULE BlockTree_proofs --------------------------
(***************************************************************************)
(* Lemmas about the tree of blocks: what the walks along parents[0] in     *)
(* consensus.cpp and liveness.h rely on.                                   *)
(***************************************************************************)
EXTENDS BlockTree, FiniteSetTheorems, WellFoundedInduction, TLAPS

(* Every non-empty set of blocks has a member none of whose proper         *)
(* ancestors' chains comes from the set: chains are finite.                *)
LEMMA MinBlock ==
    ASSUME NEW S \in SUBSET Block, S # {}
    PROVE  \E m \in S : \A y \in S : ~(chain[y] \subseteq chain[m] /\ chain[y] # chain[m])
<1> DEFINE T == {chain[b] : b \in S}
<1>1. \A b \in Block : IsFiniteSet(chain[b]) /\ chain[b] \in SUBSET Block
  <2>1. IsFiniteSet({b0})
    BY FS_Singleton
  <2>. QED BY <2>1, TreeType, TreeLinks
<1>2. T \subseteq FiniteSubsetsOf(Block) /\ T # {}
  BY <1>1 DEF FiniteSubsetsOf
<1>3. IsWellFoundedOn(StrictSubsetOrdering(Block), FiniteSubsetsOf(Block))
  BY FS_StrictSubsetOrderingWellFounded
<1>4. PICK x \in T : \A y \in T : ~(<<y, x>> \in StrictSubsetOrdering(Block))
  <2> HIDE DEF T
  <2>. QED BY <1>2, <1>3, WFMin
<1>5. PICK m \in S : x = chain[m]
  OBVIOUS
<1>6. ASSUME NEW y \in S, chain[y] \subseteq chain[m], chain[y] # chain[m]
      PROVE  FALSE
  <2>1. chain[y] \in T /\ chain[y] \in SUBSET Block /\ chain[m] \in SUBSET Block
    BY <1>1
  <2>2. <<chain[y], chain[m]>> \in StrictSubsetOrdering(Block)
    BY <2>1, <1>6 DEF StrictSubsetOrdering
  <2>. QED BY <2>1, <2>2, <1>4, <1>5
<1>. QED BY <1>6

(* Induction along the parent links, with a set for the property.          *)
LEMMA TreeInduction ==
    ASSUME NEW G \in SUBSET Block,
           b0 \in G,
           \A b \in Block \ {b0} : parent[b] \in G => b \in G
    PROVE  G = Block
<1>1. SUFFICES ASSUME Block \ G # {} PROVE FALSE
  OBVIOUS
<1>2. PICK m \in Block \ G :
        \A y \in Block \ G : ~(chain[y] \subseteq chain[m] /\ chain[y] # chain[m])
  BY <1>1, MinBlock
<1>3. m # b0 /\ parent[m] \in Block \ G
  BY <1>2, TreeType
<1>4. chain[parent[m]] \subseteq chain[m] /\ chain[parent[m]] # chain[m]
  BY <1>2, <1>3, TreeLinks
<1>. QED BY <1>2, <1>3, <1>4

(* A block is on its own chain, and so is the genesis block.               *)
LEMMA ChainEnds ==
    \A b \in Block : b \in chain[b] /\ b0 \in chain[b]
<1> DEFINE G == {b \in Block : b \in chain[b] /\ b0 \in chain[b]}
<1>1. b0 \in G
  BY TreeType
<1>2. ASSUME NEW b \in Block \ {b0}, parent[b] \in G PROVE b \in G
  BY <1>2, TreeLinks
<1>3. G = Block
  <2> HIDE DEF G
  <2>1. G \in SUBSET Block BY DEF G
  <2>. QED BY <1>1, <1>2, <2>1, TreeInduction
<1>. QED BY <1>3

(* Proper ancestors are lower.                                             *)
LEMMA ChainHeight ==
    \A b \in Block : \A x \in chain[b] : x # b => height[x] < height[b]
<1> DEFINE G == {b \in Block : \A x \in chain[b] : x # b => height[x] < height[b]}
<1>1. b0 \in G
  BY TreeType
<1>2. ASSUME NEW b \in Block \ {b0}, parent[b] \in G PROVE b \in G
  <2>1. SUFFICES ASSUME NEW x \in chain[b], x # b PROVE height[x] < height[b]
    OBVIOUS
  <2>2. x \in chain[parent[b]]
    BY <2>1, TreeLinks
  <2>3. x = parent[b] \/ height[x] < height[parent[b]]
    BY <2>2, <1>2
  <2>4. height[x] \in Nat /\ height[parent[b]] \in Nat
    BY <2>2, <1>2, TreeType
  <2>5. height[b] = height[parent[b]] + 1
    BY TreeLinks
  <2>. QED BY <2>3, <2>4, <2>5
<1>3. G = Block
  <2> HIDE DEF G
  <2>1. G \in SUBSET Block BY DEF G
  <2>. QED BY <1>1, <1>2, <2>1, TreeInduction
<1>. QED BY <1>3

(* An ancestor of an ancestor is an ancestor.                              *)
LEMMA ChainTrans ==
    \A b \in Block : \A x \in chain[b] : chain[x] \subseteq chain[b]
<1> DEFINE G == {b \in Block : \A x \in chain[b] : chain[x] \subseteq chain[b]}
<1>1. b0 \in G
  BY TreeType
<1>2. ASSUME NEW b \in Block \ {b0}, parent[b] \in G PROVE b \in G
  BY <1>2, TreeLinks
<1>3. G = Block
  <2> HIDE DEF G
  <2>1. G \in SUBSET Block BY DEF G
  <2>. QED BY <1>1, <1>2, <2>1, TreeInduction
<1>. QED BY <1>3

(* A chain is a line: of two ancestors the lower is an ancestor of the     *)
(* other.                                                                  *)
LEMMA ChainLinear ==
    \A b \in Block : \A x, y \in chain[b] : height[x] <= height[y] => x \in chain[y]
<1> DEFINE G == {b \in Block : \A x, y \in chain[b] :
                    height[x] <= height[y] => x \in chain[y]}
<1>1. b0 \in G
  BY TreeType
<1>2. ASSUME NEW b \in Block \ {b0}, parent[b] \in G PROVE b \in G
  <2>1. SUFFICES ASSUME NEW x \in chain[b], NEW y \in chain[b], height[x] <= height[y]
                 PROVE  x \in chain[y]
    OBVIOUS
  <2>2. CASE y = b
    BY <2>1, <2>2
  <2>3. CASE x = b /\ y # b
    <3>1. height[y] < height[b] /\ y \in Block
      BY <2>3, ChainHeight, TreeType
    <3>2. height[b] \in Nat /\ height[y] \in Nat
      BY <3>1, TreeType
    <3>. QED BY <2>1, <2>3, <3>1, <3>2
  <2>4. CASE x # b /\ y # b
    BY <1>2, <2>1, <2>4, TreeLinks
  <2>. QED BY <2>2, <2>3, <2>4
<1>3. G = Block
  <2> HIDE DEF G
  <2>1. G \in SUBSET Block BY DEF G
  <2>. QED BY <1>1, <1>2, <2>1, TreeInduction
<1>. QED BY <1>3

(* The block a QC refers to is a proper ancestor of a justified block,     *)
(* hence lower.                                                            *)
LEMMA JustifiedBelow ==
    ASSUME NEW b \in Block \ {b0}, Justified(b)
    PROVE  /\ qc_ref[b] \in chain[b]
           /\ qc_ref[b] # b
           /\ height[qc_ref[b]] < height[b]
<1>1. qc_ref[b] \in chain[b] /\ qc_ref[b] # b
  BY TreeLinks DEF Justified
<1>2. height[qc_ref[b]] < height[b]
  BY <1>1, ChainHeight
<1>. QED BY <1>1, <1>2
=============================================================================
