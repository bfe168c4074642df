------------------------ MODULE HotStuffCore_proofs ------------------------
(***************************************************************************)
(* Safety of HotStuffCore for every number of replicas, every set of at    *)
(* most nfaulty faulty ones and every tree of blocks, also of blocks with  *)
(* certificates off their branches.  What is proved of execution is proved *)
(* as long as no such block is certified (QCsOnBranch).  PMHighTail keeps  *)
(* all of it, and lets the core propose only justified blocks.             *)
(***************************************************************************)
EXTENDS PMHighTail, BlockTree_proofs

(* Fewer than a third of the replicas are faulty: `peers.size() / 3`.      *)
LEMMA FaultBound ==
    /\ Cardinality(Replica) \in Nat /\ nfaulty \in Nat
    /\ Cardinality(Replica) >= 3 * nfaulty + 1
    /\ nmajority \in Nat /\ nmajority >= 2 * nfaulty + 1
<1>1. Cardinality(Replica) \in Nat /\ Cardinality(Replica) > 1
  BY FS_CardinalityType, ReplicaAssumption
<1>. QED BY <1>1 DEF nfaulty, nmajority

LEMMA VotersType ==
    \A b : /\ Voters(b) \subseteq Replica /\ IsFiniteSet(Voters(b))
           /\ Cardinality(Voters(b)) \in Nat
<1> SUFFICES ASSUME NEW b
             PROVE  /\ Voters(b) \subseteq Replica /\ IsFiniteSet(Voters(b))
                    /\ Cardinality(Voters(b)) \in Nat
  OBVIOUS
<1>1. Voters(b) \subseteq Replica
  BY ReplicaAssumption DEF Voters, Correct
<1>2. IsFiniteSet(Voters(b))
  BY <1>1, FS_Subset, ReplicaAssumption
<1>. QED BY <1>1, <1>2, FS_CardinalityType

(* Two quorums share a correct replica.                                    *)
LEMMA QuorumIntersection ==
    ASSUME NEW V \in SUBSET Replica, Cardinality(V) >= nmajority,
           NEW W \in SUBSET Replica, Cardinality(W) >= nmajority
    PROVE  \E r \in Correct : r \in V /\ r \in W
<1>1. /\ IsFiniteSet(V) /\ Cardinality(V) \in Nat
      /\ IsFiniteSet(W) /\ Cardinality(W) \in Nat
  BY FS_Subset, FS_CardinalityType, ReplicaAssumption
<1>3. /\ IsFiniteSet(V \cup W) /\ Cardinality(V \cup W) \in Nat
      /\ Cardinality(V \cup W) <= Cardinality(Replica)
  <2>1. V \cup W \in SUBSET Replica
    OBVIOUS
  <2>2. IsFiniteSet(V \cup W) /\ Cardinality(V \cup W) <= Cardinality(Replica)
    BY <2>1, FS_Subset, ReplicaAssumption
  <2>. QED BY <2>2, FS_CardinalityType
<1>4. /\ IsFiniteSet(V \cap W) /\ Cardinality(V \cap W) \in Nat
      /\ Cardinality(V \cup W)
           = Cardinality(V) + Cardinality(W) - Cardinality(V \cap W)
  <2>1. IsFiniteSet(V \cap W)
    BY <1>1, FS_Intersection
  <2>. QED BY <1>1, <2>1, FS_Union, FS_CardinalityType
<1>5. Cardinality(V \cap W) > nfaulty
  BY <1>1, <1>3, <1>4, FaultBound DEF nmajority
<1>6. ~(V \cap W \subseteq Faulty)
  <2>1. SUFFICES ASSUME V \cap W \subseteq Faulty PROVE FALSE
    OBVIOUS
  <2>2. IsFiniteSet(Faulty) /\ Cardinality(Faulty) \in Nat
    BY FS_Subset, FS_CardinalityType, ReplicaAssumption
  <2>3. Cardinality(V \cap W) <= Cardinality(Faulty)
    <3>1. V \cap W \in SUBSET Faulty
      BY <2>1
    <3>. QED BY <3>1, <2>2, FS_Subset
  <2>. QED BY <2>2, <2>3, <1>4, <1>5, FaultBound, ReplicaAssumption
<1>. QED BY <1>6 DEF Correct

(* A set as large as a quorum is one when a larger set of replicas is      *)
(* taken instead.                                                          *)
LEMMA QuorumGrows ==
    ASSUME NEW V, NEW W \in SUBSET Replica, V \subseteq W,
           Cardinality(V) >= nmajority
    PROVE  Cardinality(W) >= nmajority
<1>1. IsFiniteSet(W) /\ Cardinality(V) <= Cardinality(W)
  <2>1. IsFiniteSet(W)
    BY FS_Subset, ReplicaAssumption
  <2>. QED BY <2>1, FS_Subset
<1>2. Cardinality(V) \in Nat /\ Cardinality(W) \in Nat
  BY <1>1, FS_Subset, FS_CardinalityType
<1>. QED BY <1>1, <1>2, FaultBound

(* Two certified blocks have the votes of one correct replica.             *)
LEMMA VotersMeet ==
    ASSUME NEW b \in Block \ {b0}, NEW c \in Block \ {b0},
           Certified(b), Certified(c)
    PROVE  \E r \in Correct : b \in cast[r] /\ c \in cast[r]
<1>1. /\ Voters(b) \in SUBSET Replica /\ Cardinality(Voters(b)) >= nmajority
      /\ Voters(c) \in SUBSET Replica /\ Cardinality(Voters(c)) >= nmajority
  BY VotersType DEF Certified
<1>2. PICK r \in Correct : r \in Voters(b) /\ r \in Voters(c)
  BY <1>1, QuorumIntersection
<1>. QED BY <1>2 DEF Voters, Correct

(* A certified block has the vote of a correct replica.                    *)
LEMMA CertifiedVoted ==
    ASSUME NEW b \in Block \ {b0}, Certified(b)
    PROVE  \E r \in Correct : b \in cast[r]
BY VotersMeet

-----------------------------------------------------------------------------
(* The QC in a certified block is one: a correct replica has delivered the *)
(* block before it voted.                                                  *)
LEMMA QCsBelow ==
    ASSUME TypeOK, VoteInv, QCInv, NEW b \in Block, Certified(b)
    PROVE  Certified(qc_ref[b])
<1>1. CASE b = b0
  BY <1>1, TreeType DEF Certified
<1>2. CASE b # b0
  <2>1. PICK r \in Correct : b \in cast[r]
    BY <1>2, CertifiedVoted
  <2>. QED BY <2>1 DEF VoteInv, QCInv
<1>. QED BY <1>1, <1>2

(* As long as QCs keep to their branches, the block a certified block      *)
(* refers to is below it.                                                  *)
LEMMA CertifiedBelow ==
    ASSUME QCsOnBranch, NEW b \in Block, Certified(b)
    PROVE  /\ qc_ref[b] \in chain[b]
           /\ height[qc_ref[b]] <= height[b]
           /\ b # b0 => height[qc_ref[b]] < height[b]
<1>1. CASE b = b0
  BY <1>1, TreeType
<1>2. CASE b # b0
  <2>1. Justified(b) /\ b \in Block \ {b0}
    BY <1>2 DEF QCsOnBranch
  <2>2. qc_ref[b] \in chain[b] /\ height[qc_ref[b]] < height[b]
    BY <2>1, JustifiedBelow
  <2>. QED BY <2>2, TreeType
<1>. QED BY <1>1, <1>2

LEMMA BlkType ==
    \A b \in Block : blk2(b) \in Block /\ blk1(b) \in Block /\ blk(b) \in Block
  BY TreeType DEF blk2, blk1, blk

(* The three blocks update looks at, when it runs on b.                    *)
LEMMA ThreeBlocks ==
    ASSUME TypeOK, VoteInv, QCInv, QCsOnBranch, NEW b \in Block, Certified(qc_ref[b])
    PROVE  /\ Certified(blk2(b)) /\ Certified(blk1(b)) /\ Certified(blk(b))
           /\ height[blk1(b)] <= height[blk2(b)]
           /\ height[blk(b)] <= height[blk1(b)]
           /\ blk1(b) \in chain[blk2(b)] /\ blk(b) \in chain[blk1(b)]
           /\ blk1(b) # b0 => height[blk1(b)] < height[blk2(b)]
           /\ blk(b) # b0 => height[blk(b)] < height[blk1(b)]
<1>1. Certified(blk2(b)) /\ Certified(blk1(b)) /\ Certified(blk(b))
  <2>1. Certified(blk2(b))
    BY DEF blk2
  <2>2. Certified(blk1(b))
    BY <2>1, BlkType, QCsBelow DEF blk1
  <2>. QED BY <2>1, <2>2, BlkType, QCsBelow DEF blk
<1>2. /\ blk1(b) \in chain[blk2(b)] /\ height[blk1(b)] <= height[blk2(b)]
      /\ blk2(b) # b0 => height[blk1(b)] < height[blk2(b)]
  BY <1>1, BlkType, CertifiedBelow DEF blk1
<1>3. /\ blk(b) \in chain[blk1(b)] /\ height[blk(b)] <= height[blk1(b)]
      /\ blk1(b) # b0 => height[blk(b)] < height[blk1(b)]
  BY <1>1, BlkType, CertifiedBelow DEF blk
<1>4. (blk1(b) # b0 => blk2(b) # b0) /\ (blk(b) # b0 => blk1(b) # b0)
  BY TreeType DEF blk1, blk
<1>. QED BY <1>1, <1>2, <1>3, <1>4

LEMMA HeightPositive == \A x \in Block \ {b0} : height[x] > 0
  BY TreeType, TreeLinks

(* Two certified blocks of one height are one block.                       *)
LEMMA SameHeight ==
    ASSUME OneVotePerHeight, NEW b \in Block, NEW c \in Block,
           Certified(b), Certified(c), height[b] = height[c]
    PROVE  b = c
<1>1. CASE b = b0 \/ c = b0
  BY <1>1, HeightPositive, TreeType
<1>2. CASE b # b0 /\ c # b0
  <2>1. PICK r \in Correct : b \in cast[r] /\ c \in cast[r]
    BY <1>2, VotersMeet
  <2>. QED BY <2>1 DEF OneVotePerHeight
<1>. QED BY <1>1, <1>2

LEMMA StandingType ==
    \A c : Standing(c) \cup Faulty \in SUBSET Replica
  BY ReplicaAssumption DEF Standing, Correct

(* Behind a certified block there is a quorum whose votes stand on a QC.   *)
LEMMA StandingQuorum ==
    ASSUME LaterVoteInv, NEW c \in Block \ {b0}, Justified(c), Certified(c)
    PROVE  Cardinality(Standing(c) \cup Faulty) >= nmajority
<1>1. CASE \A r \in Correct : c \in cast[r] => StandsOn(r, c)
  <2>1. Voters(c) \subseteq Standing(c) \cup Faulty
    BY <1>1 DEF Voters, Standing
  <2>2. Cardinality(Voters(c)) >= nmajority
    BY DEF Certified
  <2>. QED BY <2>1, <2>2, StandingType, QuorumGrows
<1>. QED BY <1>1 DEF LaterVoteInv

(* The heart of the argument.  Take the lowest certified block that is as  *)
(* high as x, the first block of a certified direct three-chain, and does  *)
(* not extend x.  It is above the three-chain; a correct replica voted for *)
(* the top of the three-chain and for it, with a vote that stands on a     *)
(* certified block no lower than x, which extends x.                       *)
LEMMA Safety ==
    ASSUME TypeOK, VoteInv, OneVotePerHeight, LaterVoteInv, QCInv, QCsOnBranch,
           NEW z \in Block, Certified(z), direct(z),
           NEW c \in Block, Certified(c),
           height[c] >= height[qc_ref[qc_ref[z]]]
    PROVE  Extends(c, qc_ref[qc_ref[z]])
<1> DEFINE y == qc_ref[z]
           x == qc_ref[y]
           S == {d \in Block : Certified(d) /\ height[d] >= height[x] /\ x \notin chain[d]}
<1>1. SUFFICES ASSUME S # {} PROVE FALSE
  BY DEF Extends
<1>2. PICK m \in S : \A d \in S : ~(chain[d] \subseteq chain[m] /\ chain[d] # chain[m])
  <2>1. S \in SUBSET Block
    OBVIOUS
  <2> HIDE DEF S
  <2>. QED BY <1>1, <2>1, MinBlock
<1>3. y \in Block /\ x \in Block /\ Certified(y) /\ Certified(x)
  BY QCsBelow, TreeType
<1>4. x # b0 /\ y # b0 /\ z # b0
  <2>1. x # b0
    BY <1>2, ChainEnds
  <2>. QED BY <2>1, TreeType
<1>5. height[y] = height[x] + 1 /\ height[z] = height[x] + 2
  <2>1. parent[z] = y /\ parent[y] = x
    BY DEF direct
  <2>2. height[z] = height[y] + 1 /\ height[y] = height[x] + 1
    BY <2>1, <1>3, <1>4, TreeLinks
  <2>. QED BY <2>2, <1>3, TreeType
<1>6. x \in chain[x] /\ x \in chain[y] /\ x \in chain[z]
  <2>1. x \in chain[y] /\ y \in chain[z]
    BY CertifiedBelow, <1>3
  <2>. QED BY <2>1, <1>3, ChainEnds, ChainTrans
<1>7. m \in Block \ {b0} /\ Certified(m) /\ height[m] >= height[x] /\ x \notin chain[m]
  <2>1. height[x] > 0
    BY <1>3, <1>4, HeightPositive
  <2>. QED BY <2>1, <1>2, TreeType
<1>8. height[m] > height[z]
  <2>1. m # x /\ m # y /\ m # z
    BY <1>6, <1>7
  <2>2. height[m] # height[x] /\ height[m] # height[y] /\ height[m] # height[z]
    BY <2>1, <1>3, <1>7, SameHeight
  <2>3. height[m] \in Nat /\ height[x] \in Nat
    BY <1>3, <1>7, TreeType
  <2>. QED BY <2>2, <2>3, <1>5, <1>7
<1>9. PICK r \in Correct : z \in cast[r] /\ StandsOn(r, m)
  <2>1. Cardinality(Standing(m) \cup Faulty) >= nmajority
    BY <1>7, StandingQuorum DEF QCsOnBranch
  <2>2. Cardinality(Voters(z)) >= nmajority /\ Voters(z) \in SUBSET Replica
    BY <1>4, VotersType DEF Certified
  <2>3. PICK r \in Correct : r \in Voters(z) /\ r \in Standing(m) \cup Faulty
    BY <2>1, <2>2, StandingType, QuorumIntersection
  <2>. QED BY <2>3 DEF Correct, Voters, Standing
<1>10. PICK d \in chain[m] \ {m} : Certified(d) /\ height[d] >= height[blk1(z)]
  <2>1. Justified(z)
    BY <1>4 DEF QCsOnBranch
  <2>. QED BY <2>1, <1>8, <1>9, <1>7, TreeType DEF StandsOn
<1>11. blk1(z) = x
  BY DEF blk1, blk2
<1>12. d \in Block /\ chain[d] \subseteq chain[m] /\ x \notin chain[d]
  BY <1>7, <1>10, ChainTrans, TreeType
<1>13. d \in S
  BY <1>10, <1>11, <1>12
<1>14. chain[d] # chain[m]
  <2>1. m \in chain[m] /\ height[d] < height[m]
    BY <1>7, <1>10, ChainEnds, ChainHeight
  <2>2. m \notin chain[d]
    <3>1. m = d \/ (m \in chain[d] => height[m] < height[d])
      BY <1>12, ChainHeight
    <3>. QED BY <3>1, <2>1, <1>7, <1>12, TreeType
  <2>. QED BY <2>1, <2>2
<1>. QED BY <1>2, <1>12, <1>13, <1>14

-----------------------------------------------------------------------------
(* What one run of update at r on b does, in a state of the invariant.     *)

(* The lock moves up or stays, to a certified block, and ends no lower     *)
(* than the block two QCs below b if that block is there.                  *)
LEMMA UpdateLock ==
    ASSUME IInv, QCsOnBranch, NEW r \in Correct, NEW b \in Block, Certified(qc_ref[b])
    PROVE  /\ update_lock(r, b) \in Block /\ Certified(update_lock(r, b))
           /\ height[update_lock(r, b)] >= height[b_lock[r]]
           /\ blk2(b) \in delivered[r] => height[update_lock(r, b)] >= height[blk1(b)]
           /\ \/ update_lock(r, b) = b_lock[r]
              \/ /\ update_lock(r, b) = blk1(b) /\ blk1(b) # b0
                 /\ height[blk1(b)] < height[blk2(b)]
                 /\ height[update_hqc(r, b)] >= height[blk2(b)]
<1>1. TypeOK /\ VoteInv /\ LockInv /\ QCInv /\ DecisionMatchesExec /\ DeliveredInv
  BY DEF IInv, CoreInv, BranchInv
<1>2. /\ b_lock[r] \in Block /\ b_exec[r] \in Block /\ hqc[r] \in Block
      /\ \A x \in Block : height[x] \in Nat
      /\ blk2(b) \in Block /\ blk1(b) \in Block
  BY <1>1, TreeType, BlkType DEF TypeOK
<1>3. /\ Certified(blk1(b)) /\ height[blk1(b)] <= height[blk2(b)]
      /\ blk1(b) # b0 => height[blk1(b)] < height[blk2(b)]
      /\ blk1(b) \in chain[blk2(b)]
  BY <1>1, ThreeBlocks
<1>4. ASSUME blk2(b) \in delivered[r], ~undecided(r, {blk2(b), blk1(b)})
      PROVE  height[blk1(b)] <= height[b_lock[r]]
  <2>1. blk1(b) \in delivered[r]
    BY <1>1, <1>3, <1>4 DEF DeliveredInv
  <2>2. PICK x \in {blk2(b), blk1(b)} : x \in chain[b_exec[r]]
    BY <1>1, <1>4, <2>1 DEF DecisionMatchesExec, undecided
  <2>3. height[x] <= height[b_exec[r]] /\ x \in Block
    BY <2>2, <1>2, ChainHeight
  <2>4. height[blk1(b)] <= height[x]
    BY <2>2, <1>2, <1>3
  <2>5. height[b_exec[r]] <= height[b_lock[r]]
    BY <1>1 DEF LockInv
  <2>. QED BY <2>3, <2>4, <2>5, <1>2
<1>5. CASE update_lock(r, b) = b_lock[r]
  <2>1. blk2(b) \in delivered[r] => height[blk1(b)] <= height[b_lock[r]]
    <3>1. CASE ~undecided(r, {blk2(b), blk1(b)})
      BY <3>1, <1>4
    <3>2. CASE undecided(r, {blk2(b), blk1(b)})
      BY <3>2, <1>2, <1>5 DEF update_lock
    <3>. QED BY <3>1, <3>2
  <2>. QED BY <2>1, <1>1, <1>2, <1>5 DEF LockInv
<1>6. CASE update_lock(r, b) # b_lock[r]
  <2>1. /\ update_lock(r, b) = blk1(b)
        /\ undecided(r, {blk2(b), blk1(b)})
        /\ height[blk1(b)] > height[b_lock[r]]
    BY <1>6 DEF update_lock
  <2>2. blk1(b) # b0
    BY <2>1, <1>2, TreeType
  <2>3. undecided(r, {blk2(b)})
    BY <2>1 DEF undecided
  <2>4. height[update_hqc(r, b)] >= height[blk2(b)]
    BY <2>3, <1>2 DEF update_hqc
  <2>. QED BY <2>1, <2>2, <2>4, <1>2, <1>3
<1>. QED BY <1>5, <1>6

(* hqc moves up or stays, to a certified and delivered block.              *)
LEMMA UpdateHqc ==
    ASSUME TypeOK, QCInv, DeliveredInv,
           NEW r \in Correct, NEW b \in Block, Certified(qc_ref[b])
    PROVE  /\ update_hqc(r, b) \in Block /\ Certified(update_hqc(r, b))
           /\ update_hqc(r, b) \in delivered[r]
           /\ height[update_hqc(r, b)] >= height[hqc[r]]
<1>1. /\ hqc[r] \in Block /\ Certified(hqc[r]) /\ hqc[r] \in delivered[r]
      /\ \A x \in Block : height[x] \in Nat
  BY TreeType DEF TypeOK, QCInv, DeliveredInv
<1>2. Certified(blk2(b)) /\ blk2(b) \in Block
  BY BlkType DEF blk2
<1>. QED BY <1>1, <1>2 DEF update_hqc, undecided

(* A commit that does not throw executes exactly what is missing up to     *)
(* blk(b): the commit queue, down to b_exec.                               *)
LEMMA UpdateExec ==
    ASSUME TypeOK, DecisionMatchesExec, NEW r \in Correct, NEW b \in Block,
           commits(r, b), ~breaches(r, b)
    PROVE  /\ Extends(blk(b), b_exec[r]) /\ blk(b) # b_exec[r] /\ blk(b) \in delivered[r]
           /\ decision[r] \cup commit_queue(r, b) = chain[blk(b)]
<1>1. /\ b_exec[r] \in Block /\ blk(b) \in Block
      /\ \A x \in Block : height[x] \in Nat
  BY TreeType, BlkType DEF TypeOK
<1>2. /\ b_exec[r] \in chain[blk(b)] /\ decision[r] = chain[b_exec[r]]
      /\ blk(b) \notin decision[r] /\ blk(b) \in delivered[r]
  BY DEF breaches, Extends, DecisionMatchesExec, commits, undecided
<1>3. chain[b_exec[r]] \subseteq chain[blk(b)]
  BY <1>1, <1>2, ChainTrans
<1>4. ASSUME NEW x \in chain[blk(b)], ~(height[x] > height[b_exec[r]])
      PROVE  x \in chain[b_exec[r]]
  <2>1. x \in Block
    BY <1>1, TreeType
  <2>2. height[x] <= height[b_exec[r]]
    BY <2>1, <1>4, <1>1
  <2>. QED BY <2>2, <1>1, <1>2, ChainLinear
<1>5. decision[r] \cup commit_queue(r, b) = chain[blk(b)]
  BY <1>2, <1>3, <1>4 DEF commit_queue
<1>. QED BY <1>1, <1>2, <1>5, ChainEnds DEF Extends

(* As long as QCs keep to their branches a commit extends what r has       *)
(* executed: the exception "safety breached" is not thrown.                *)
LEMMA UpdateCommit ==
    ASSUME IInv, QCsOnBranch, NEW r \in Correct, NEW b \in Block, Certified(qc_ref[b]),
           commits(r, b)
    PROVE  /\ ~breaches(r, b)
           /\ height[blk(b)] < height[update_lock(r, b)]
           /\ Certified(blk2(b)) /\ direct(blk2(b))
           /\ blk(b) = qc_ref[qc_ref[blk2(b)]]
<1>1. /\ TypeOK /\ VoteInv /\ OneVotePerHeight /\ QCInv /\ DecisionMatchesExec
      /\ LaterVoteInv /\ LockInv /\ ExecInv
  BY DEF IInv, CoreInv, BranchInv
<1>2. /\ b_exec[r] \in Block /\ b_lock[r] \in Block
      /\ \A x \in Block : height[x] \in Nat
      /\ blk2(b) \in Block /\ blk1(b) \in Block /\ blk(b) \in Block
  BY <1>1, TreeType, BlkType DEF TypeOK
<1>3. /\ Certified(blk2(b)) /\ direct(blk2(b))
      /\ blk(b) = qc_ref[qc_ref[blk2(b)]]
  BY DEF commits, blk, blk1, blk2
<1>4. /\ Certified(blk(b))
      /\ blk(b) # b0 => height[blk(b)] < height[blk1(b)]
  BY <1>1, ThreeBlocks
<1>5. /\ decision[r] = chain[b_exec[r]] /\ blk(b) \notin chain[b_exec[r]]
      /\ undecided(r, {blk2(b), blk1(b)})
  BY <1>1 DEF DecisionMatchesExec, commits, undecided
<1>6. b_exec[r] \in chain[blk(b)]
  <2>1. CASE b_exec[r] = b0
    BY <2>1, <1>2, ChainEnds
  <2>2. CASE b_exec[r] # b0
    <3>1. PICK z \in Block : /\ Certified(z) /\ direct(z)
                             /\ b_exec[r] = qc_ref[qc_ref[z]]
      BY <2>2, <1>1 DEF ExecInv
    <3>2. CASE height[blk(b)] >= height[b_exec[r]]
      BY <3>1, <3>2, <1>1, <1>2, <1>4, Safety DEF Extends
    <3>3. CASE height[blk(b)] < height[b_exec[r]]
      <4>1. Certified(b_exec[r])
        BY <3>1, <1>1, QCsBelow, TreeType
      <4>2. blk(b) \in chain[b_exec[r]]
        BY <4>1, <3>3, <1>1, <1>2, <1>3, Safety DEF Extends
      <4>. QED BY <4>2, <1>5
    <3>. QED BY <3>2, <3>3, <1>2
  <2>. QED BY <2>1, <2>2
<1>7. height[blk(b)] < height[update_lock(r, b)]
  <2>1. blk(b) # b0
    BY <1>2, <1>5, ChainEnds
  <2>2. height[update_lock(r, b)] >= height[blk1(b)] /\ update_lock(r, b) \in Block
    BY <1>2, <1>5 DEF update_lock
  <2>. QED BY <2>1, <2>2, <1>2, <1>4
<1>. QED BY <1>3, <1>6, <1>7 DEF breaches, Extends

-----------------------------------------------------------------------------
(* What votes do to the parts of the invariant.                            *)

LEMMA VotersGrow ==
    ASSUME \A r \in Correct : cast[r] \subseteq cast'[r], NEW b
    PROVE  Voters(b) \subseteq Voters(b)'
  BY DEF Voters

(* A certificate that can be formed stays so: votes are not taken back.    *)
LEMMA CertifiedStays ==
    ASSUME \A r \in Correct : cast[r] \subseteq cast'[r],
           NEW b, Certified(b)
    PROVE  Certified(b)'
<1>1. Voters(b) \subseteq Voters(b)'
  BY VotersGrow
<1>2. Voters(b)' \in SUBSET Replica
  BY ReplicaAssumption DEF Voters, Correct
<1>. QED BY <1>1, <1>2, QuorumGrows DEF Certified

(* So once a certificate is off its branch, it stays off.                  *)
LEMMA OffBranchStays ==
    ASSUME \A r \in Correct : cast[r] \subseteq cast'[r], QCsOnBranch'
    PROVE  QCsOnBranch
<1>1. ASSUME NEW b \in Block \ {b0}, Certified(b) PROVE Justified(b)
  BY <1>1, CertifiedStays DEF QCsOnBranch, Justified
<1>. QED BY <1>1 DEF QCsOnBranch

(* The vote of r for b, or none, written by on_propose and                 *)
(* on_receive_proposal.                                                    *)
Votes(r, b, v) ==
    /\ v \in BOOLEAN /\ (v => opinion(r, b))
    /\ vheight' = [vheight EXCEPT ![r] = IF v THEN height[b] ELSE @]
    /\ cast' = [cast EXCEPT ![r] = IF v THEN @ \cup {b} ELSE @]

LEMMA VoteFields ==
    ASSUME TypeOK, VoteInv, NEW r \in Correct, NEW b \in Block, NEW v, Votes(r, b, v)
    PROVE  /\ \A s \in Correct : cast[s] \subseteq cast'[s] /\ vheight'[s] >= vheight[s]
           /\ \A s \in Correct \ {r} : cast'[s] = cast[s] /\ vheight'[s] = vheight[s]
           /\ cast'[r] = cast[r] \/ (cast'[r] = cast[r] \cup {b} /\ v)
           /\ v => /\ opinion(r, b) /\ vheight'[r] = height[b]
                   /\ \A x \in cast[r] : x \in Block /\ height[x] < height[b]
           /\ cast' \in [Correct -> SUBSET Block] /\ vheight' \in [Correct -> Nat]
<1>1. /\ cast \in [Correct -> SUBSET Block] /\ vheight \in [Correct -> Nat]
      /\ \A x \in Block : height[x] \in Nat
  BY TreeType DEF TypeOK
<1>2. /\ \A s \in Correct \ {r} : cast'[s] = cast[s] /\ vheight'[s] = vheight[s]
      /\ cast'[r] = IF v THEN cast[r] \cup {b} ELSE cast[r]
      /\ vheight'[r] = IF v THEN height[b] ELSE vheight[r]
      /\ cast' \in [Correct -> SUBSET Block] /\ vheight' \in [Correct -> Nat]
  BY <1>1 DEF Votes
<1>3. v => opinion(r, b) /\ height[b] > vheight[r]
  BY DEF Votes, opinion
<1>4. \A x \in cast[r] : x \in Block /\ height[x] <= vheight[r]
  BY <1>1 DEF VoteInv
<1>5. v => \A x \in cast[r] : x \in Block /\ height[x] < height[b]
  BY <1>1, <1>3, <1>4
<1>6. \A s \in Correct : vheight'[s] >= vheight[s]
  BY <1>1, <1>2, <1>3
<1>. QED BY <1>2, <1>3, <1>5, <1>6

(* Votes keep what does not depend on where certificates are.              *)
LEMMA VotesClimbInv ==
    ASSUME TypeOK, VoteInv, OneVotePerHeight,
           NEW r \in Correct, NEW b \in Block \ {b0}, NEW v, Votes(r, b, v),
           b \in delivered'[r], \A s \in Correct : delivered[s] \subseteq delivered'[s]
    PROVE  VoteInv' /\ OneVotePerHeight'
<1>1. /\ \A s \in Correct : cast[s] \subseteq cast'[s] /\ vheight'[s] >= vheight[s]
      /\ \A s \in Correct \ {r} : cast'[s] = cast[s] /\ vheight'[s] = vheight[s]
      /\ cast'[r] = cast[r] \/ (cast'[r] = cast[r] \cup {b} /\ v)
      /\ v => /\ vheight'[r] = height[b]
              /\ \A x \in cast[r] : x \in Block /\ height[x] < height[b]
      /\ vheight' \in [Correct -> Nat]
  BY VoteFields
<1>2. \A x \in Block : height[x] \in Nat
  BY TreeType
<1>3. VoteInv'
  <2>1. SUFFICES ASSUME NEW s \in Correct, NEW x \in cast'[s]
                 PROVE  x # b0 /\ x \in delivered'[s] /\ height[x] <= vheight'[s]
    BY DEF VoteInv
  <2>2. CASE x \in cast[s]
    <3>1. /\ x # b0 /\ x \in delivered[s] /\ height[x] <= vheight[s] /\ x \in Block
          /\ vheight[s] \in Nat
      BY <2>2 DEF VoteInv, TypeOK
    <3>. QED BY <3>1, <1>1, <1>2
  <2>3. CASE x \notin cast[s]
    <3>1. s = r /\ x = b /\ v
      BY <1>1, <2>1, <2>3
    <3>. QED BY <3>1, <1>1, <1>2
  <2>. QED BY <2>2, <2>3
<1>4. OneVotePerHeight'
  <2>1. SUFFICES ASSUME NEW s \in Correct, NEW x \in cast'[s], NEW y \in cast'[s],
                        height[x] = height[y], x # y
                 PROVE  FALSE
    BY DEF OneVotePerHeight
  <2>2. ~(x \in cast[s] /\ y \in cast[s])
    BY <2>1 DEF OneVotePerHeight
  <2>3. v /\ \E u \in cast[r] : height[u] = height[b]
    BY <1>1, <2>1, <2>2
  <2>. QED BY <2>3, <1>1, <1>2
<1>. QED BY <1>3, <1>4

(* A vote that stands on a QC goes on standing: later votes are higher.    *)
LEMMA StandingStays ==
    ASSUME TypeOK, VoteInv, NEW r \in Correct, NEW b \in Block, NEW v, Votes(r, b, v),
           NEW s \in Correct, NEW c \in cast[s], StandsOn(s, c)
    PROVE  StandsOn(s, c)'
<1>1. /\ \A q \in Correct : cast[q] \subseteq cast'[q]
      /\ \A q \in Correct \ {r} : cast'[q] = cast[q]
      /\ cast'[r] = cast[r] \/ (cast'[r] = cast[r] \cup {b} /\ v)
      /\ v => \A x \in cast[r] : height[x] < height[b]
  BY VoteFields
<1>2. c \in Block /\ height[c] \in Nat /\ height[b] \in Nat
  BY TreeType DEF TypeOK
<1>3. ASSUME NEW x \in cast'[s], Justified(x), height[x] < height[c]
      PROVE  \E d \in chain[c] \ {c} : Certified(d)' /\ height[d] >= height[blk1(x)]
  <2>1. x \in cast[s]
    BY <1>1, <1>2, <1>3
  <2>2. PICK d \in chain[c] \ {c} : Certified(d) /\ height[d] >= height[blk1(x)]
    BY <2>1, <1>3 DEF StandsOn
  <2>3. Certified(d)'
    BY <2>2, <1>1, CertifiedStays
  <2>. QED BY <2>2, <2>3
<1>. QED BY <1>3 DEF StandsOn, Justified, blk1, blk2

(* A quorum that stands does so for good.                                  *)
LEMMA StandingGrows ==
    ASSUME TypeOK, VoteInv, NEW r \in Correct, NEW b \in Block, NEW v, Votes(r, b, v),
           NEW c \in Block, Cardinality(Standing(c) \cup Faulty) >= nmajority
    PROVE  Cardinality(Standing(c)' \cup Faulty) >= nmajority
<1>1. \A s \in Correct : cast[s] \subseteq cast'[s]
  BY VoteFields
<1>2. Standing(c) \subseteq Standing(c)'
  BY <1>1, StandingStays DEF Standing
<1>3. Standing(c)' \cup Faulty \in SUBSET Replica
  BY ReplicaAssumption DEF Standing, Correct
<1>. QED BY <1>2, <1>3, QuorumGrows

(* The new vote stands on the QC that made the code give it, or goes to a  *)
(* block that is certified already.                                        *)
LEMMA NewVoteStands ==
    ASSUME IInv, QCsOnBranch, NEW r \in Correct, NEW b \in Block \ {b0},
           Certified(qc_ref[b]), Justified(b), blk2(b) \in delivered[r],
           NEW v, Votes(r, b, v), v
    PROVE  StandsOn(r, b)' \/ Certified(b)
<1> DEFINE lock == update_lock(r, b)
<1>1. TypeOK /\ VoteInv /\ VoteLockInv /\ LockInv
  BY DEF IInv, CoreInv, BranchInv
<1>2. /\ \A s \in Correct : cast[s] \subseteq cast'[s]
      /\ cast'[r] = cast[r] \/ cast'[r] = cast[r] \cup {b}
      /\ opinion(r, b)
      /\ \A x \in cast[r] : x \in Block /\ height[x] < height[b]
  BY <1>1, VoteFields
<1>3. /\ lock \in Block /\ Certified(lock) /\ height[lock] >= height[b_lock[r]]
      /\ lock = b_lock[r] \/ (lock = blk1(b) /\ height[blk1(b)] < height[blk2(b)])
  BY UpdateLock
<1>4. /\ b_lock[r] \in Block /\ \A x \in Block : height[x] \in Nat
      /\ blk1(b) \in Block /\ blk2(b) \in Block
  BY <1>1, TreeType, BlkType DEF TypeOK
<1>5. height[qc_ref[b]] > height[lock] \/ lock \in chain[b]
  BY <1>2 DEF opinion, Extends
<1>. HIDE DEF lock
<1>6. SUFFICES ASSUME ~Certified(b), NEW u \in cast'[r], Justified(u),
                      height[u] < height[b]
               PROVE  \E d \in chain[b] \ {b} :
                          Certified(d)' /\ height[d] >= height[blk1(u)]
  BY DEF StandsOn, Justified, blk1, blk2
<1>7. u \in cast[r] /\ u \in Block
  BY <1>2, <1>4, <1>6
<1>8. height[blk1(u)] <= height[lock] /\ blk1(u) \in Block
  <2>1. height[blk1(u)] <= height[b_lock[r]] /\ blk1(u) \in Block
    BY <1>1, <1>6, <1>7, BlkType DEF VoteLockInv
  <2>. QED BY <2>1, <1>3, <1>4
<1>9. qc_ref[b] \in chain[b] /\ qc_ref[b] # b /\ height[qc_ref[b]] < height[b]
  BY JustifiedBelow
<1>10. CASE height[qc_ref[b]] > height[lock]
  <2>1. height[qc_ref[b]] >= height[blk1(u)]
    BY <1>3, <1>4, <1>8, <1>10, TreeType
  <2>2. Certified(qc_ref[b])'
    BY <1>2, CertifiedStays
  <2>. QED BY <2>1, <2>2, <1>9
<1>11. CASE lock \in chain[b]
  <2>1. lock # b
    BY <1>3, <1>6
  <2>2. \A d : Certified(d) => Certified(d)'
    BY <1>2, CertifiedStays
  <2>3. height[lock] >= height[blk1(u)]
    BY <1>3, <1>4, <1>8
  <2>. QED BY <2>1, <2>2, <2>3, <1>3, <1>11
<1>. QED BY <1>5, <1>10, <1>11

-----------------------------------------------------------------------------
(* update followed by the vote, as on_propose and on_receive_proposal run  *)
(* them: what is written does not depend on where certificates are.        *)
LEMMA UpdateCore ==
    ASSUME TypeOK, VoteInv, OneVotePerHeight, QCInv, DeliveredInv, DecisionMatchesExec,
           NEW r \in Correct, NEW b \in Block \ {b0}, Certified(qc_ref[b]),
           update(r, b), NEW v, Votes(r, b, v),
           b \in delivered'[r], \A s \in Correct : delivered[s] \subseteq delivered'[s]
    PROVE  /\ VoteInv' /\ OneVotePerHeight' /\ DecisionMatchesExec'
           /\ \A s \in Correct : hqc'[s] \in delivered[s] /\ b_exec'[s] \in delivered[s]
           /\ \A s \in Correct : Certified(hqc[s])'
<1>1. VoteInv' /\ OneVotePerHeight'
  BY VotesClimbInv
<1>2. /\ decision \in [Correct -> SUBSET Block] /\ b_exec \in [Correct -> Block]
      /\ hqc \in [Correct -> Block]
      /\ \A s \in Correct : b_exec[s] \in delivered[s] /\ hqc[s] \in delivered[s]
      /\ \A s \in Correct : decision[s] = chain[b_exec[s]]
  BY DEF TypeOK, DeliveredInv, DecisionMatchesExec
<1>3. \/ UNCHANGED <<decision, b_exec>>
      \/ \E x \in delivered[r] :
            /\ decision' = [decision EXCEPT ![r] = chain[x]]
            /\ b_exec' = [b_exec EXCEPT ![r] = x]
  <2>1. CASE commits(r, b) /\ ~breaches(r, b)
    <3>1. /\ blk(b) \in delivered[r]
          /\ decision[r] \cup commit_queue(r, b) = chain[blk(b)]
      BY <2>1, UpdateExec
    <3>2. /\ decision' = [decision EXCEPT ![r] = chain[blk(b)]]
          /\ b_exec' = [b_exec EXCEPT ![r] = blk(b)]
      BY <2>1, <3>1, <1>2 DEF update
    <3>. QED BY <3>1, <3>2
  <2>2. CASE ~(commits(r, b) /\ ~breaches(r, b))
    BY <2>2 DEF update
  <2>. QED BY <2>1, <2>2
<1>4. DecisionMatchesExec' /\ \A s \in Correct : b_exec'[s] \in delivered[s]
  BY <1>2, <1>3 DEF DecisionMatchesExec
<1>5. /\ hqc' = [hqc EXCEPT ![r] = update_hqc(r, b)]
      /\ Certified(update_hqc(r, b)) /\ update_hqc(r, b) \in delivered[r]
  BY UpdateHqc DEF update
<1>6. \A s \in Correct : hqc'[s] \in delivered[s] /\ Certified(hqc'[s])
  BY <1>2, <1>5 DEF QCInv
<1>7. \A s \in Correct : cast[s] \subseteq cast'[s]
  BY VoteFields
<1>8. \A x : Certified(x) => Certified(x)'
  BY <1>7, CertifiedStays
<1>9. \A s \in Correct : Certified(hqc[s])'
  <2>. TAKE s \in Correct
  <2>1. Certified(hqc'[s])
    BY <1>6
  <2>. QED BY <2>1, <1>8 DEF Certified, Voters
<1>. QED BY <1>1, <1>4, <1>6, <1>9

(* As long as QCs keep to their branches, the two statements also keep the *)
(* relations of votes, locks and execution.                                *)
LEMMA UpdateVotes ==
    ASSUME IInv, QCsOnBranch, NEW r \in Correct, NEW b \in Block \ {b0},
           Certified(qc_ref[b]), Justified(b) => blk2(b) \in delivered[r],
           update(r, b), NEW v, Votes(r, b, v)
    PROVE  VoteLockInv' /\ LaterVoteInv'
<1>1. TypeOK /\ VoteInv /\ VoteLockInv /\ LaterVoteInv
  BY DEF IInv, CoreInv, BranchInv
<1>2. /\ \A s \in Correct : cast[s] \subseteq cast'[s]
      /\ \A s \in Correct \ {r} : cast'[s] = cast[s]
      /\ cast'[r] = cast[r] \/ (cast'[r] = cast[r] \cup {b} /\ v)
  BY <1>1, VoteFields
<1>3. /\ \A s \in Correct \ {r} : b_lock'[s] = b_lock[s]
      /\ b_lock'[r] \in Block /\ height[b_lock'[r]] >= height[b_lock[r]]
      /\ Justified(b) => height[b_lock'[r]] >= height[blk1(b)]
  <2>1. b_lock' = [b_lock EXCEPT ![r] = update_lock(r, b)] /\ b_lock \in [Correct -> Block]
    BY <1>1 DEF update, TypeOK
  <2>2. /\ update_lock(r, b) \in Block
        /\ height[update_lock(r, b)] >= height[b_lock[r]]
        /\ blk2(b) \in delivered[r] => height[update_lock(r, b)] >= height[blk1(b)]
    BY UpdateLock
  <2>. QED BY <2>1, <2>2
<1>4. VoteLockInv'
  <2>1. SUFFICES ASSUME NEW s \in Correct, NEW x \in cast'[s], Justified(x)
                 PROVE  height[blk1(x)] <= height[b_lock'[s]]
    BY DEF VoteLockInv, Justified, blk1, blk2
  <2>2. CASE x \in cast[s]
    <3>1. /\ height[blk1(x)] <= height[b_lock[s]] /\ blk1(x) \in Block
          /\ b_lock[s] \in Block
      BY <1>1, <2>1, <2>2, BlkType DEF VoteLockInv, TypeOK
    <3>. QED BY <3>1, <1>3, TreeType
  <2>3. CASE x \notin cast[s]
    <3>1. s = r /\ x = b
      BY <1>2, <2>1, <2>3
    <3>. QED BY <3>1, <2>1, <1>3, BlkType, TreeType
  <2>. QED BY <2>2, <2>3
<1>5. LaterVoteInv'
  <2>1. SUFFICES ASSUME NEW c \in Block \ {b0}, Justified(c),
                        ~(Cardinality(Standing(c)' \cup Faulty) >= nmajority),
                        NEW s \in Correct, c \in cast'[s]
                 PROVE  StandsOn(s, c)'
    BY DEF LaterVoteInv, Justified
  <2>2. ~(Cardinality(Standing(c) \cup Faulty) >= nmajority)
    BY <1>1, <2>1, StandingGrows
  <2>3. CASE c \in cast[s]
    <3>1. StandsOn(s, c)
      BY <1>1, <2>1, <2>2, <2>3 DEF LaterVoteInv
    <3>. QED BY <1>1, <2>3, <3>1, StandingStays
  <2>4. CASE c \notin cast[s]
    <3>1. s = r /\ c = b /\ v
      BY <1>2, <2>1, <2>4
    <3>2. ~Certified(b)
      BY <1>1, <2>1, <2>2, <3>1, StandingQuorum
    <3>. QED BY <2>1, <3>1, <3>2, NewVoteStands
  <2>. QED BY <2>3, <2>4
<1>. QED BY <1>4, <1>5

LEMMA UpdateBranch ==
    ASSUME IInv, QCsOnBranch, TypeOK', NEW r \in Correct, NEW b \in Block \ {b0},
           Certified(qc_ref[b]), Justified(b) => blk2(b) \in delivered[r],
           update(r, b), NEW v, Votes(r, b, v),
           \A s \in Correct : status'[s] = "breached" =>
                status[s] = "breached" \/ (s = r /\ breaches(r, b))
    PROVE  BranchInv'
<1> DEFINE lock == update_lock(r, b)
<1>1. TypeOK /\ QCInv /\ LockInv /\ ExecInv /\ DeliveredInv /\ Unbreached
  BY DEF IInv, CoreInv, BranchInv
<1>2. VoteLockInv' /\ LaterVoteInv'
  BY UpdateVotes
<1>3. \A s \in Correct : cast[s] \subseteq cast'[s]
  BY VoteFields DEF IInv, CoreInv
<1>4. \A x : Certified(x) => Certified(x)'
  BY <1>3, CertifiedStays
<1>5. /\ \A s \in Correct \ {r} : /\ b_lock'[s] = b_lock[s] /\ b_exec'[s] = b_exec[s]
                                  /\ hqc'[s] = hqc[s]
      /\ b_lock'[r] = lock /\ hqc'[r] = update_hqc(r, b)
  BY <1>1 DEF update, TypeOK
<1>6. /\ lock \in Block /\ Certified(lock) /\ height[lock] >= height[b_lock[r]]
      /\ \/ lock = b_lock[r]
         \/ /\ lock = blk1(b) /\ blk1(b) # b0
            /\ height[blk1(b)] < height[blk2(b)]
            /\ height[update_hqc(r, b)] >= height[blk2(b)]
      /\ lock # b_lock[r] => height[lock] > height[b_lock[r]]
  <2>1. lock # b_lock[r] => height[lock] > height[b_lock[r]]
    BY DEF update_lock
  <2>. QED BY <2>1, UpdateLock
<1>7. /\ update_hqc(r, b) \in Block /\ height[update_hqc(r, b)] >= height[hqc[r]]
  BY <1>1, UpdateHqc
<1>8. \/ b_exec'[r] = b_exec[r]
      \/ /\ b_exec'[r] = blk(b)
         /\ height[blk(b)] < height[lock]
         /\ Certified(blk2(b)) /\ direct(blk2(b))
         /\ blk(b) = qc_ref[qc_ref[blk2(b)]]
  <2>1. b_exec \in [Correct -> Block]
    BY <1>1 DEF TypeOK
  <2>2. CASE commits(r, b)
    <3>1. /\ ~breaches(r, b) /\ height[blk(b)] < height[lock]
          /\ Certified(blk2(b)) /\ direct(blk2(b))
          /\ blk(b) = qc_ref[qc_ref[blk2(b)]]
      BY <2>2, UpdateCommit
    <3>2. b_exec'[r] = blk(b)
      BY <2>1, <2>2, <3>1 DEF update
    <3>. QED BY <3>1, <3>2
  <2>3. CASE ~commits(r, b)
    BY <2>1, <2>3 DEF update
  <2>. QED BY <2>2, <2>3
<1>9. /\ b_exec[r] \in Block /\ b_lock[r] \in Block /\ hqc[r] \in Block
      /\ b_exec'[r] \in Block /\ blk1(b) \in Block /\ blk2(b) \in Block /\ blk(b) \in Block
      /\ \A x \in Block : height[x] \in Nat
  BY <1>1, BlkType, TreeType DEF TypeOK
<1>. HIDE DEF lock
<1>10. LockInv'
  <2>1. SUFFICES ASSUME NEW s \in Correct
                 PROVE  /\ Certified(b_lock[s])'
                        /\ height[b_exec'[s]] <= height[b_lock'[s]]
                        /\ \/ b_lock'[s] = b0
                           \/ /\ height[b_lock'[s]] < height[hqc'[s]]
                              /\ height[b_exec'[s]] < height[b_lock'[s]]
    BY DEF LockInv
  <2>2. CASE s # r
    <3>1. Certified(b_lock[s])
      BY <1>1 DEF LockInv
    <3>2. Certified(b_lock[s])'
      BY <1>5, <1>4, <2>2, <3>1 DEF Certified, Voters
    <3>. QED BY <1>1, <1>5, <2>2, <3>2 DEF LockInv
  <2>3. CASE s = r
    <3>1. Certified(b_lock[s])'
      BY <1>4, <1>5, <1>6, <2>3 DEF Certified, Voters
    <3>2. /\ height[b_exec[r]] <= height[b_lock[r]]
          /\ b_lock[r] = b0 \/ (/\ height[b_lock[r]] < height[hqc[r]]
                                /\ height[b_exec[r]] < height[b_lock[r]])
      BY <1>1 DEF LockInv
    <3>3. /\ height[b_exec'[r]] <= height[lock]
          /\ lock = b0 \/ height[b_exec'[r]] < height[lock]
      <4>1. CASE b_exec'[r] = b_exec[r]
        <5>1. CASE lock = b_lock[r]
          BY <4>1, <5>1, <3>2
        <5>2. CASE lock # b_lock[r]
          BY <4>1, <5>2, <3>2, <1>6, <1>9
        <5>. QED BY <5>1, <5>2
      <4>2. CASE height[b_exec'[r]] < height[lock]
        BY <4>2, <1>6, <1>9
      <4>. QED BY <4>1, <4>2, <1>8
    <3>4. lock = b0 \/ height[lock] < height[hqc'[r]]
      <4>1. CASE lock = b_lock[r]
        BY <4>1, <3>2, <1>5, <1>7, <1>9
      <4>2. CASE lock # b_lock[r]
        BY <4>2, <1>5, <1>6, <1>7, <1>9
      <4>. QED BY <4>1, <4>2
    <3>. QED BY <3>1, <3>3, <3>4, <1>5, <2>3
  <2>. QED BY <2>2, <2>3
<1>11. ExecInv'
  <2>1. SUFFICES ASSUME NEW s \in Correct
                 PROVE  \/ b_exec'[s] = b0
                        \/ \E z \in Block : /\ Certified(z)' /\ direct(z)
                                            /\ b_exec'[s] = qc_ref[qc_ref[z]]
    BY DEF ExecInv, direct
  <2>2. CASE b_exec'[s] = b_exec[s]
    BY <1>1, <1>4, <2>2 DEF ExecInv
  <2>3. CASE b_exec'[s] # b_exec[s]
    <3>1. s = r
      BY <1>5, <2>3
    <3>. QED BY <3>1, <2>3, <1>4, <1>8, <1>9
  <2>. QED BY <2>2, <2>3
<1>12. Unbreached'
  <2>1. ~breaches(r, b)
    BY UpdateCommit DEF breaches
  <2>. QED BY <2>1, <1>1 DEF Unbreached
<1>. QED BY <1>2, <1>10, <1>11, <1>12 DEF BranchInv

-----------------------------------------------------------------------------
(* The invariant, action by action. *)

LEMMA InitInv == Init => IInv
<1> SUFFICES ASSUME Init PROVE IInv
  OBVIOUS
<1>1. Certified(b0)
  BY DEF Certified
<1>2. TypeOK
  BY TreeType, ReplicaAssumption DEF Init, TypeOK, Correct
<1>3. VoteInv /\ OneVotePerHeight /\ VoteLockInv
  BY DEF Init, VoteInv, OneVotePerHeight, VoteLockInv
<1>4. LaterVoteInv
  BY DEF Init, LaterVoteInv
<1>5. LockInv /\ ExecInv /\ Unbreached
  BY <1>1, TreeType DEF Init, LockInv, ExecInv, Unbreached
<1>6. QCInv
  BY <1>1, TreeType DEF Init, QCInv
<1>7. DeliveredInv /\ DecisionMatchesExec
  BY TreeType DEF Init, DeliveredInv, DecisionMatchesExec
<1>. QED BY <1>2, <1>3, <1>4, <1>5, <1>6, <1>7 DEF IInv, CoreInv, BranchInv

(* The types of what update writes.                                        *)
LEMMA UpdateType ==
    ASSUME TypeOK, NEW r \in Correct, NEW b \in Block, update(r, b)
    PROVE  /\ hqc' \in [Correct -> Block] /\ b_lock' \in [Correct -> Block]
           /\ b_exec' \in [Correct -> Block]
           /\ decision' \in [Correct -> SUBSET Block]
<1>1. blk2(b) \in Block /\ blk1(b) \in Block /\ blk(b) \in Block
  BY BlkType
<1>2. update_hqc(r, b) \in Block /\ update_lock(r, b) \in Block
  BY <1>1 DEF update_hqc, update_lock, TypeOK
<1>3. commit_queue(r, b) \subseteq Block
  BY <1>1, TreeType DEF commit_queue
<1>4. hqc' \in [Correct -> Block] /\ b_lock' \in [Correct -> Block]
  BY <1>2 DEF update, TypeOK
<1>5. b_exec' \in [Correct -> Block]
  BY <1>1 DEF update, TypeOK
<1>6. decision' \in [Correct -> SUBSET Block]
  <2>1. decision \in [Correct -> SUBSET Block]
    BY DEF TypeOK
  <2>2. \/ decision' = [decision EXCEPT ![r] = @ \cup commit_queue(r, b)]
        \/ decision' = decision
    BY DEF update
  <2>. QED BY <2>1, <2>2, <1>3
<1>. QED BY <1>4, <1>5, <1>6

(* Delivering a block on a delivered parent keeps ancestors delivered.     *)
LEMMA DeliverFields ==
    ASSUME TypeOK, DeliveredInv, NEW r \in Correct, NEW b \in Block,
           b \notin delivered[r], parent[b] \in delivered[r], deliver(r, b)
    PROVE  /\ b # b0 /\ chain[b] = chain[parent[b]] \cup {b} /\ parent[b] \in Block
           /\ delivered'[r] = delivered[r] \cup {b}
           /\ tails'[r] = (tails[r] \ {parent[b]}) \cup {b}
           /\ \A s \in Correct \ {r} : delivered'[s] = delivered[s] /\ tails'[s] = tails[s]
           /\ \A s \in Correct : delivered[s] \subseteq delivered'[s]
           /\ delivered' \in [Correct -> SUBSET Block] /\ tails' \in [Correct -> SUBSET Block]
<1>1. b # b0
  BY DEF DeliveredInv
<1>2. delivered \in [Correct -> SUBSET Block] /\ tails \in [Correct -> SUBSET Block]
  BY DEF TypeOK
<1>. QED BY <1>1, <1>2, TreeLinks, TreeType DEF deliver

LEMMA DeliverKept ==
    ASSUME TypeOK, DeliveredInv, NEW r \in Correct, NEW b \in Block,
           b \notin delivered[r], parent[b] \in delivered[r], deliver(r, b),
           \A s \in Correct : hqc'[s] \in delivered[s] /\ b_exec'[s] \in delivered[s],
           proposed' = proposed \/ (proposed' = proposed \cup {b} /\ creator[b] = r)
    PROVE  DeliveredInv'
<1>1. /\ b # b0 /\ chain[b] = chain[parent[b]] \cup {b}
      /\ delivered'[r] = delivered[r] \cup {b}
      /\ tails'[r] = (tails[r] \ {parent[b]}) \cup {b}
      /\ \A s \in Correct \ {r} : delivered'[s] = delivered[s] /\ tails'[s] = tails[s]
      /\ \A s \in Correct : delivered[s] \subseteq delivered'[s]
  BY DeliverFields
<1>2. /\ \A s \in Correct : /\ b0 \in delivered[s] /\ tails[s] \subseteq delivered[s]
                            /\ \A x \in delivered[s] : chain[x] \subseteq delivered[s]
      /\ \A x \in proposed : x # b0 /\ creator[x] \in Correct /\ x \in delivered[creator[x]]
  BY DEF DeliveredInv
<1>3. ASSUME NEW s \in Correct
      PROVE  /\ {b0, hqc'[s], b_exec'[s]} \subseteq delivered'[s]
             /\ tails'[s] \subseteq delivered'[s]
             /\ \A x \in delivered'[s] : chain[x] \subseteq delivered'[s]
  <2>1. CASE s = r
    BY <2>1, <1>1, <1>2
  <2>2. CASE s # r
    BY <2>2, <1>1, <1>2
  <2>. QED BY <2>1, <2>2
<1>4. ASSUME NEW x \in proposed'
      PROVE  x # b0 /\ creator[x] \in Correct /\ x \in delivered'[creator[x]]
  BY <1>1, <1>2
<1>. QED BY <1>3, <1>4 DEF DeliveredInv

LEMMA ReceiveProposalInv ==
    ASSUME IInv, NEW r \in Correct, NEW b \in Block, on_receive_proposal(r, b)
    PROVE  IInv'
<1> DEFINE v == ~breaches(r, b) /\ opinion(r, b)
<1>1. /\ TypeOK /\ VoteInv /\ OneVotePerHeight /\ QCInv /\ DeliveredInv
      /\ DecisionMatchesExec
  BY DEF IInv, CoreInv
<1>2. /\ b \in Block \ {b0} /\ b \in delivered[r] /\ update(r, b)
      /\ UNCHANGED <<proposed, voted, delivered, tails>>
      /\ status' = [status EXCEPT ![r] = IF breaches(r, b) THEN "breached" ELSE @]
  BY DEF on_receive_proposal
<1>3. Certified(qc_ref[b]) /\ chain[b] \subseteq delivered[r]
  BY <1>1, <1>2 DEF QCInv, DeliveredInv
<1>4. Votes(r, b, v)
  BY DEF on_receive_proposal, Votes
<1> HIDE DEF v
<1>5. /\ \A s \in Correct : cast[s] \subseteq cast'[s]
      /\ cast' \in [Correct -> SUBSET Block] /\ vheight' \in [Correct -> Nat]
  BY <1>1, <1>4, VoteFields
<1>6. TypeOK'
  <2>1. status' \in [Correct -> {"running", "breached", "stale"}]
    BY <1>1, <1>2 DEF TypeOK
  <2>. QED BY <1>1, <1>2, <1>5, <2>1, UpdateType DEF TypeOK
<1>7. /\ VoteInv' /\ OneVotePerHeight' /\ DecisionMatchesExec'
      /\ \A s \in Correct : hqc'[s] \in delivered[s] /\ b_exec'[s] \in delivered[s]
      /\ \A s \in Correct : Certified(hqc[s])'
  BY <1>1, <1>2, <1>3, <1>4, UpdateCore
<1>8. DeliveredInv'
  BY <1>1, <1>2, <1>7 DEF DeliveredInv
<1>9. QCInv'
  <2>1. \A s \in Correct : \A x \in delivered'[s] : Certified(qc_ref[x])'
    BY <1>1, <1>2, <1>5, CertifiedStays DEF QCInv
  <2>2. ASSUME NEW s \in Correct, NEW x \in Block \ {b0}
        PROVE  voted'[s][x] \subseteq Voters(x)'
    BY <1>1, <1>2, <1>5, VotersGrow DEF QCInv
  <2>. QED BY <1>7, <2>1, <2>2 DEF QCInv
<1>10. CoreInv'
  BY <1>6, <1>7, <1>8, <1>9 DEF CoreInv
<1>11. ASSUME QCsOnBranch' PROVE BranchInv'
  <2>1. QCsOnBranch
    BY <1>5, <1>11, OffBranchStays
  <2>2. Justified(b) => blk2(b) \in delivered[r]
    BY <1>2, <1>3, JustifiedBelow DEF blk2
  <2>3. \A s \in Correct : status'[s] = "breached" =>
            status[s] = "breached" \/ (s = r /\ breaches(r, b))
    BY <1>1, <1>2 DEF TypeOK
  <2>. QED BY <1>2, <1>3, <1>4, <1>6, <2>1, <2>2, <2>3, UpdateBranch
<1>. QED BY <1>10, <1>11 DEF IInv

LEMMA ProposeInv ==
    ASSUME IInv, NEW r \in Correct, NEW b \in Block, on_propose(r, b)
    PROVE  IInv'
<1> DEFINE thrown == breaches(r, b) \/ height[b] <= vheight[r]
           v == ~thrown /\ opinion(r, b)
<1>1. /\ TypeOK /\ VoteInv /\ OneVotePerHeight /\ QCInv /\ DeliveredInv
      /\ DecisionMatchesExec
  BY DEF IInv, CoreInv
<1>2. /\ creator[b] = r /\ qc_ref[b] = hqc[r] /\ update(r, b)
      /\ b \notin delivered[r] /\ parent[b] \in delivered[r] /\ deliver(r, b)
      /\ status' = [status EXCEPT ![r] =
                      IF breaches(r, b) THEN "breached"
                      ELSE IF thrown THEN "stale" ELSE @]
      /\ proposed' = IF thrown THEN proposed ELSE proposed \cup {b}
      /\ voted' = [voted EXCEPT ![r][b] = IF v THEN @ \cup {r} ELSE @]
  BY DEF on_propose
<1>3. Certified(qc_ref[b]) /\ qc_ref[b] \in delivered[r]
  BY <1>1, <1>2 DEF QCInv, DeliveredInv
<1>4. Votes(r, b, v)
  BY DEF on_propose, Votes
<1> HIDE DEF v, thrown
<1>5. /\ \A s \in Correct : cast[s] \subseteq cast'[s]
      /\ cast' \in [Correct -> SUBSET Block] /\ vheight' \in [Correct -> Nat]
      /\ v => b \in cast'[r]
  <2>1. v => b \in cast'[r]
    BY <1>1, <1>4 DEF Votes, TypeOK
  <2>. QED BY <2>1, <1>1, <1>4, VoteFields
<1>6. /\ b \in Block \ {b0} /\ b \in delivered'[r]
      /\ delivered' = [delivered EXCEPT ![r] = @ \cup {b}]
      /\ delivered' \in [Correct -> SUBSET Block] /\ tails' \in [Correct -> SUBSET Block]
      /\ \A s \in Correct : delivered[s] \subseteq delivered'[s]
  <2>1. /\ b # b0 /\ delivered'[r] = delivered[r] \cup {b}
        /\ \A s \in Correct : delivered[s] \subseteq delivered'[s]
        /\ delivered' \in [Correct -> SUBSET Block] /\ tails' \in [Correct -> SUBSET Block]
    BY <1>1, <1>2, DeliverFields
  <2>. QED BY <2>1, <1>2 DEF deliver
<1>7. TypeOK'
  <2>1. /\ status' \in [Correct -> {"running", "breached", "stale"}]
        /\ proposed' \subseteq Block
    BY <1>1, <1>2 DEF TypeOK
  <2>2. voted' \in [Correct -> [Block -> SUBSET Replica]]
    <3>1. voted \in [Correct -> [Block -> SUBSET Replica]] /\ r \in Replica
      BY <1>1 DEF TypeOK, Correct
    <3>. QED BY <3>1, <1>2
  <2>. QED BY <1>1, <1>2, <1>5, <1>6, <2>1, <2>2, UpdateType DEF TypeOK
<1>8. /\ VoteInv' /\ OneVotePerHeight' /\ DecisionMatchesExec'
      /\ \A s \in Correct : hqc'[s] \in delivered[s] /\ b_exec'[s] \in delivered[s]
      /\ \A s \in Correct : Certified(hqc[s])'
  BY <1>1, <1>2, <1>3, <1>4, <1>6, UpdateCore
<1>9. DeliveredInv'
  BY <1>1, <1>2, <1>8, DeliverKept
<1>10. QCInv'
  <2>1. \A s \in Correct : \A x \in delivered'[s] : Certified(qc_ref[x])'
    <3>1. \A s \in Correct : \A x \in delivered'[s] : Certified(qc_ref[x])
      BY <1>1, <1>3, <1>6 DEF QCInv, TypeOK
    <3>. QED BY <3>1, <1>5, CertifiedStays
  <2>2. ASSUME NEW s \in Correct, NEW x \in Block \ {b0}
        PROVE  voted'[s][x] \subseteq Voters(x)'
    <3>1. voted[s][x] \subseteq Voters(x)'
      BY <1>1, <1>5, VotersGrow DEF QCInv
    <3>2. v => r \in Voters(b)'
      BY <1>5 DEF Voters
    <3>3. \/ voted'[s][x] = voted[s][x]
          \/ s = r /\ x = b /\ v /\ voted'[s][x] = voted[s][x] \cup {r}
      BY <1>1, <1>2 DEF TypeOK
    <3>. QED BY <3>1, <3>2, <3>3
  <2>. QED BY <1>8, <2>1, <2>2 DEF QCInv
<1>11. CoreInv'
  BY <1>7, <1>8, <1>9, <1>10 DEF CoreInv
<1>12. ASSUME QCsOnBranch' PROVE BranchInv'
  <2>1. QCsOnBranch
    BY <1>5, <1>12, OffBranchStays
  <2>2. Justified(b) => blk2(b) \in delivered[r]
    BY <1>3 DEF blk2
  <2>3. \A s \in Correct : status'[s] = "breached" =>
            status[s] = "breached" \/ (s = r /\ breaches(r, b))
    BY <1>1, <1>2 DEF TypeOK
  <2>. QED BY <1>2, <1>3, <1>4, <1>6, <1>7, <2>1, <2>2, <2>3, UpdateBranch
<1>. QED BY <1>11, <1>12 DEF IInv

(* Delivering a block and counting a vote leave votes, locks and execution *)
(* alone.                                                                  *)
LEMMA VotesAndLocksKept ==
    ASSUME IInv,
           UNCHANGED <<cast, decision, vheight, b_lock, b_exec, status>>,
           \A s \in Correct : delivered[s] \subseteq delivered'[s],
           \A s \in Correct : height[hqc[s]] <= height[hqc'[s]],
           hqc' \in [Correct -> Block]
    PROVE  /\ VoteInv' /\ OneVotePerHeight' /\ DecisionMatchesExec'
           /\ QCsOnBranch' => BranchInv'
           /\ \A x : Voters(x)' = Voters(x) /\ Certified(x)' = Certified(x)
<1>1. \A x : Voters(x)' = Voters(x) /\ Certified(x)' = Certified(x)
  BY DEF Voters, Certified
<1>2. VoteInv' /\ OneVotePerHeight' /\ DecisionMatchesExec'
  BY DEF IInv, CoreInv, VoteInv, OneVotePerHeight, DecisionMatchesExec
<1>3. ASSUME QCsOnBranch' PROVE BranchInv'
  <2>1. BranchInv
    BY <1>1, <1>3 DEF IInv, QCsOnBranch, Justified
  <2>2. VoteLockInv' /\ ExecInv' /\ Unbreached'
    BY <2>1, <1>1 DEF BranchInv, VoteLockInv, ExecInv, Unbreached, Justified, blk1, blk2,
                      direct
  <2>3. \A s, c : StandsOn(s, c)' = StandsOn(s, c)
    BY <1>1 DEF StandsOn, Justified, blk1, blk2
  <2>4. LaterVoteInv'
    BY <2>1, <2>3 DEF BranchInv, LaterVoteInv, Standing, Justified
  <2>5. LockInv'
    <3>1. SUFFICES ASSUME NEW s \in Correct
                   PROVE  /\ Certified(b_lock[s])'
                          /\ height[b_exec[s]] <= height[b_lock[s]]
                          /\ \/ b_lock[s] = b0
                             \/ /\ height[b_lock[s]] < height[hqc'[s]]
                                /\ height[b_exec[s]] < height[b_lock[s]]
      BY DEF LockInv
    <3>2. height[b_lock[s]] \in Nat /\ height[hqc[s]] \in Nat /\ height[hqc'[s]] \in Nat
      BY TreeType DEF IInv, CoreInv, TypeOK
    <3>. QED BY <1>1, <2>1, <3>2 DEF BranchInv, LockInv, Certified, Voters
  <2>. QED BY <2>2, <2>4, <2>5 DEF BranchInv
<1>. QED BY <1>1, <1>2, <1>3

LEMMA DeliverInv ==
    ASSUME IInv, NEW r \in Correct, NEW b \in Block, on_deliver_blk(r, b)
    PROVE  IInv'
<1>1. TypeOK /\ QCInv /\ DeliveredInv
  BY DEF IInv, CoreInv
<1>2. /\ b \notin delivered[r] /\ parent[b] \in delivered[r] /\ deliver(r, b)
      /\ UNCHANGED <<proposed, cast, voted, decision, vheight, b_lock, b_exec,
                     hqc, status>>
      /\ Certified(qc_ref[b])
  BY DEF on_deliver_blk
<1>3. /\ delivered' = [delivered EXCEPT ![r] = @ \cup {b}]
      /\ \A s \in Correct : delivered[s] \subseteq delivered'[s]
      /\ delivered' \in [Correct -> SUBSET Block] /\ tails' \in [Correct -> SUBSET Block]
  BY <1>1, <1>2, DeliverFields DEF deliver
<1>4. hqc' \in [Correct -> Block]
      /\ \A s \in Correct : height[hqc[s]] <= height[hqc'[s]]
  BY <1>1, <1>2, TreeType DEF TypeOK
<1>5. /\ VoteInv' /\ OneVotePerHeight' /\ DecisionMatchesExec'
      /\ QCsOnBranch' => BranchInv'
      /\ \A x : Voters(x)' = Voters(x) /\ Certified(x)' = Certified(x)
  BY <1>2, <1>3, <1>4, VotesAndLocksKept
<1>6. TypeOK'
  BY <1>1, <1>2, <1>3 DEF TypeOK
<1>7. QCInv'
  <2>1. \A s \in Correct : Certified(hqc[s])'
    BY <1>1, <1>2, <1>5 DEF QCInv, Certified, Voters
  <2>2. \A s \in Correct : \A x \in delivered'[s] : Certified(qc_ref[x])'
    BY <1>1, <1>2, <1>3, <1>5 DEF QCInv, TypeOK
  <2>. QED BY <1>1, <1>2, <1>5, <2>1, <2>2 DEF QCInv
<1>8. DeliveredInv'
  <2>1. \A s \in Correct : hqc'[s] \in delivered[s] /\ b_exec'[s] \in delivered[s]
    BY <1>1, <1>2 DEF DeliveredInv
  <2>. QED BY <1>1, <1>2, <2>1, DeliverKept
<1>. QED BY <1>5, <1>6, <1>7, <1>8 DEF IInv, CoreInv

LEMMA ReceiveVoteInv ==
    ASSUME IInv, NEW r \in Correct, NEW v \in Replica, NEW b \in Block,
           on_receive_vote(r, v, b)
    PROVE  IInv'
<1>1. TypeOK /\ QCInv /\ DeliveredInv
  BY DEF IInv, CoreInv
<1>2. /\ b \in delivered[r] /\ v \in Voters(b) \ voted[r][b]
      /\ voted' = [voted EXCEPT ![r][b] = @ \cup {v}]
      /\ hqc' = [hqc EXCEPT ![r] =
                   IF completes(r, b) /\ height[b] > height[@] THEN b ELSE @]
      /\ UNCHANGED <<proposed, cast, delivered, tails, decision, vheight,
                     b_lock, b_exec, status>>
  BY DEF on_receive_vote
<1>3. completes(r, b) => Certified(b)
  <2>1. SUFFICES ASSUME b # b0 PROVE completes(r, b) => Certified(b)
    BY DEF Certified
  <2>2. voted[r][b] \cup {v} \in SUBSET Voters(b)
    BY <1>1, <1>2, <2>1 DEF QCInv
  <2>3. IsFiniteSet(voted[r][b]) /\ Cardinality(voted[r][b]) \in Nat
    <3>1. voted[r][b] \in SUBSET Voters(b)
      BY <2>2
    <3>. QED BY <3>1, VotersType, FS_Subset, FS_CardinalityType
  <2>4. Cardinality(voted[r][b] \cup {v}) = Cardinality(voted[r][b]) + 1
    BY <1>2, <2>3, FS_AddElement
  <2>5. Cardinality(voted[r][b] \cup {v}) <= Cardinality(Voters(b))
    BY <2>2, VotersType, FS_Subset
  <2>. QED BY <2>3, <2>4, <2>5, VotersType DEF completes, Certified
<1>4. /\ hqc' \in [Correct -> Block]
      /\ \A s \in Correct : height[hqc[s]] <= height[hqc'[s]]
  <2>1. hqc \in [Correct -> Block]
    BY <1>1 DEF TypeOK
  <2>2. hqc' \in [Correct -> Block]
    BY <1>2, <2>1
  <2>3. ASSUME NEW s \in Correct PROVE height[hqc[s]] <= height[hqc'[s]]
    <3>1. hqc'[s] = hqc[s] \/ (hqc'[s] = b /\ s = r /\ height[b] > height[hqc[s]])
      BY <1>2, <2>1
    <3>2. height[hqc[s]] \in Nat /\ height[b] \in Nat
      BY <2>1, TreeType
    <3>. QED BY <3>1, <3>2
  <2>. QED BY <2>2, <2>3
<1>5. /\ VoteInv' /\ OneVotePerHeight' /\ DecisionMatchesExec'
      /\ QCsOnBranch' => BranchInv'
      /\ \A x : Voters(x)' = Voters(x) /\ Certified(x)' = Certified(x)
  BY <1>2, <1>4, VotesAndLocksKept
<1>6. TypeOK'
  <2>1. voted' \in [Correct -> [Block -> SUBSET Replica]]
    <3>1. voted \in [Correct -> [Block -> SUBSET Replica]]
      BY <1>1 DEF TypeOK
    <3>. QED BY <3>1, <1>2
  <2>. QED BY <1>1, <1>2, <1>4, <2>1 DEF TypeOK
<1>7. QCInv'
  <2>1. \A s \in Correct : Certified(hqc'[s])
    BY <1>1, <1>2, <1>3 DEF QCInv, TypeOK
  <2>2. \A s \in Correct : Certified(hqc[s])'
    BY <1>2, <2>1 DEF Certified, Voters
  <2>3. ASSUME NEW s \in Correct, NEW x \in Block \ {b0}
        PROVE  voted'[s][x] \subseteq Voters(x)'
    <3>1. voted'[s][x] = voted[s][x] \/ (x = b /\ voted'[s][x] = voted[s][x] \cup {v})
      BY <1>1, <1>2 DEF TypeOK
    <3>. QED BY <3>1, <1>1, <1>2, <1>5 DEF QCInv
  <2>4. \A s \in Correct : \A x \in delivered'[s] : Certified(qc_ref[x])'
    BY <1>1, <1>2, <1>5 DEF QCInv
  <2>. QED BY <2>2, <2>3, <2>4 DEF QCInv
<1>8. DeliveredInv'
  <2>1. \A s \in Correct : hqc'[s] \in delivered[s]
    BY <1>1, <1>2 DEF DeliveredInv, TypeOK
  <2>. QED BY <2>1, <1>1, <1>2 DEF DeliveredInv
<1>. QED BY <1>5, <1>6, <1>7, <1>8 DEF IInv, CoreInv

LEMMA NextInv == IInv /\ [Next]_core_vars => IInv'
<1> SUFFICES ASSUME IInv, [Next]_core_vars PROVE IInv'
  OBVIOUS
<1>1. CASE UNCHANGED core_vars
  <2>1. \A x : Voters(x)' = Voters(x) /\ Certified(x)' = Certified(x)
    BY <1>1 DEF core_vars, Voters, Certified
  <2>2. /\ VoteInv' /\ OneVotePerHeight' /\ DecisionMatchesExec'
        /\ QCsOnBranch' => BranchInv'
    BY <1>1, TreeType, VotesAndLocksKept DEF core_vars, IInv, CoreInv, TypeOK
  <2>3. TypeOK' /\ DeliveredInv'
    BY <1>1 DEF core_vars, IInv, CoreInv, TypeOK, DeliveredInv
  <2>4. QCInv'
    BY <1>1, <2>1 DEF core_vars, IInv, CoreInv, QCInv, Certified, Voters
  <2>. QED BY <2>2, <2>3, <2>4 DEF IInv, CoreInv
<1>2. ASSUME NEW r \in Correct, NEW b \in Block, on_propose(r, b)
      PROVE  IInv'
  BY <1>2, ProposeInv
<1>3. ASSUME NEW r \in Correct, NEW b \in Block, on_deliver_blk(r, b)
      PROVE  IInv'
  BY <1>3, DeliverInv
<1>4. ASSUME NEW r \in Correct, NEW b \in Block, on_receive_proposal(r, b)
      PROVE  IInv'
  BY <1>4, ReceiveProposalInv
<1>5. ASSUME NEW r \in Correct, NEW b \in Block, NEW v \in Replica,
             on_receive_vote(r, v, b)
      PROVE  IInv'
  BY <1>5, ReceiveVoteInv
<1>. QED BY <1>1, <1>2, <1>3, <1>4, <1>5 DEF Next

(* The inductive invariant holds throughout every behaviour of the core.   *)
THEOREM SpecInv == Spec => []IInv
  BY InitInv, NextInv, PTL DEF Spec

(* Type correctness of the core.                                           *)
THEOREM SpecTypeOK == Spec => []TypeOK
<1>1. IInv => TypeOK
  BY DEF IInv, CoreInv
<1>. QED BY <1>1, SpecInv, PTL

(* The exception "safety breached" of update is unreachable as long as QCs *)
(* keep to their branches, whatever else the faulty replicas and the       *)
(* network do.                                                             *)
THEOREM SpecNeverBreached == Spec => []NeverBreached
<1>1. IInv => NeverBreached
  BY DEF IInv, BranchInv, Unbreached, NeverBreached
<1>. QED BY <1>1, SpecInv, PTL

-----------------------------------------------------------------------------
(* What the invariant says of an executed block: it is the genesis block   *)
(* or the first block of a certified direct three-chain.                   *)
LEMMA ExecCertified ==
    ASSUME IInv, QCsOnBranch, NEW r \in Correct
    PROVE  /\ b_exec[r] \in Block /\ Certified(b_exec[r])
           /\ \A c \in Block : Certified(c) /\ height[c] >= height[b_exec[r]]
                                   => Extends(c, b_exec[r])
<1>1. /\ TypeOK /\ VoteInv /\ OneVotePerHeight /\ LaterVoteInv /\ QCInv /\ ExecInv
  BY DEF IInv, CoreInv, BranchInv
<1>2. b_exec[r] \in Block
  BY <1>1 DEF TypeOK
<1>3. CASE b_exec[r] = b0
  BY <1>2, <1>3, ChainEnds DEF Certified, Extends
<1>4. CASE b_exec[r] # b0
  <2>1. PICK z \in Block : /\ Certified(z) /\ direct(z)
                           /\ b_exec[r] = qc_ref[qc_ref[z]]
    BY <1>1, <1>4 DEF ExecInv
  <2>2. Certified(b_exec[r])
    BY <1>1, <2>1, QCsBelow, TreeType
  <2>. QED BY <1>1, <1>2, <2>1, <2>2, Safety
<1>. QED BY <1>3, <1>4

(* The decision flags of a replica are the chain up to b_exec.             *)
THEOREM SpecDecisionMatchesExec == Spec => []DecisionMatchesExec
<1>1. IInv => DecisionMatchesExec
  BY DEF IInv, CoreInv
<1>. QED BY <1>1, SpecInv, PTL

(* Two QCs of one height certify one block.                                *)
THEOREM SpecOneQCPerHeight == Spec => []OneQCPerHeight
<1>1. IInv => OneQCPerHeight
  BY SameHeight DEF IInv, CoreInv, OneQCPerHeight
<1>. QED BY <1>1, SpecInv, PTL

(* Once a replica has executed a block, no QC as high forms beside it, as  *)
(* long as QCs keep to their branches.                                     *)
THEOREM SpecExecutedIsFinal == Spec => []ExecutedIsFinal
<1>1. IInv => ExecutedIsFinal
  BY ExecCertified DEF ExecutedIsFinal
<1>. QED BY <1>1, SpecInv, PTL

(* A block with a certified direct three-chain on top is final, whether or *)
(* not any replica has learned of the QCs, as long as QCs keep to their    *)
(* branches.                                                               *)
THEOREM SpecCommittableIsFinal == Spec => []CommittableIsFinal
<1>1. IInv => CommittableIsFinal
  BY Safety DEF IInv, CoreInv, BranchInv, CommittableIsFinal
<1>. QED BY <1>1, SpecInv, PTL

(* b_exec, b_lock and hqc of a replica lie in this order, as long as QCs   *)
(* keep to their branches.                                                 *)
THEOREM SpecPointersInOrder == Spec => []PointersInOrder
<1>1. ASSUME IInv, QCsOnBranch, NEW r \in Correct
      PROVE  Extends(b_lock[r], b_exec[r])
  <2>1. /\ b_lock[r] \in Block /\ Certified(b_lock[r])
        /\ height[b_lock[r]] >= height[b_exec[r]]
    BY <1>1, TreeType DEF IInv, CoreInv, BranchInv, TypeOK, LockInv
  <2>. QED BY <1>1, <2>1, ExecCertified
<1>2. ASSUME IInv, QCsOnBranch, NEW r \in Correct
      PROVE  /\ b_lock[r] = b0 \/ height[b_exec[r]] < height[b_lock[r]]
             /\ b_lock[r] = b0 \/ height[b_lock[r]] < height[hqc[r]]
  BY <1>2 DEF IInv, BranchInv, LockInv
<1>3. IInv => PointersInOrder
  BY <1>1, <1>2 DEF PointersInOrder
<1>. QED BY <1>3, SpecInv, PTL

(* Every execution is backed by the locks of a quorum, less the faulty, as *)
(* long as QCs keep to their branches.                                     *)
THEOREM SpecExecBackedByLocks == Spec => []ExecBackedByLocks
<1>1. IsFiniteSet(Faulty) /\ Cardinality(Faulty) \in Nat
  BY ReplicaAssumption, FS_Subset, FS_CardinalityType
<1>2. ASSUME IInv, QCsOnBranch, NEW r \in Correct
      PROVE  \E V : /\ V \subseteq Replica /\ Cardinality(V) >= nmajority
                    /\ \A s \in V \ Faulty : height[b_lock[s]] >= height[b_exec[r]]
  <2>1. CASE b_exec[r] = b0
    <3>1. \A s \in Correct : height[b_lock[s]] \in Nat
      BY <1>2, TreeType DEF IInv, CoreInv, TypeOK
    <3>2. \A s \in Replica \ Faulty : height[b_lock[s]] >= height[b_exec[r]]
      BY <2>1, <3>1, TreeType DEF Correct
    <3>3. Cardinality(Replica) >= nmajority
      BY FaultBound DEF nmajority
    <3>. QED BY <3>2, <3>3
  <2>2. CASE b_exec[r] # b0
    <3>1. PICK z \in Block : /\ Certified(z) /\ direct(z)
                             /\ b_exec[r] = qc_ref[qc_ref[z]]
      BY <1>2, <2>2 DEF IInv, BranchInv, ExecInv
    <3>2. z # b0
      BY <2>2, <3>1, TreeType
    <3>3. Voters(z) \subseteq Replica /\ Cardinality(Voters(z)) >= nmajority
      BY <3>1, <3>2, VotersType DEF Certified
    <3>4. ASSUME NEW s \in Voters(z) \ Faulty
          PROVE  height[b_lock[s]] >= height[b_exec[r]]
      <4>1. s \in Correct /\ z \in cast[s]
        BY DEF Voters
      <4>2. height[blk1(z)] <= height[b_lock[s]]
        BY <1>2, <3>2, <3>1, <4>1 DEF IInv, BranchInv, VoteLockInv, QCsOnBranch
      <4>3. blk1(z) = b_exec[r]
        BY <3>1 DEF blk1, blk2
      <4>. QED BY <4>2, <4>3
    <3>. QED BY <3>3, <3>4
  <2>. QED BY <2>1, <2>2
<1>3. ASSUME IInv, QCsOnBranch, NEW r \in Correct
      PROVE  Cardinality({s \in Correct : height[b_lock[s]] >= height[b_exec[r]]})
                 >= nmajority - Cardinality(Faulty)
  <2> DEFINE A == {s \in Correct : height[b_lock[s]] >= height[b_exec[r]]}
  <2>1. PICK V : /\ V \subseteq Replica /\ Cardinality(V) >= nmajority
                 /\ \A s \in V \ Faulty : height[b_lock[s]] >= height[b_exec[r]]
    BY <1>2, <1>3
  <2>2. V \ Faulty \subseteq A /\ V \subseteq A \cup Faulty /\ A \cup Faulty \subseteq Replica
    BY <2>1, ReplicaAssumption DEF Correct
  <2> HIDE DEF A
  <2>3. /\ IsFiniteSet(A \cup Faulty) /\ IsFiniteSet(A) /\ IsFiniteSet(V)
    BY <2>1, <2>2, ReplicaAssumption, FS_Subset
  <2>4. /\ Cardinality(A) \in Nat /\ Cardinality(A \cup Faulty) \in Nat
        /\ Cardinality(A \cap Faulty) \in Nat /\ Cardinality(V) \in Nat
    BY <2>3, FS_Intersection, FS_CardinalityType
  <2>5. Cardinality(V) <= Cardinality(A \cup Faulty)
    BY <2>2, <2>3, FS_Subset
  <2>6. Cardinality(A \cup Faulty)
          = Cardinality(A) + Cardinality(Faulty) - Cardinality(A \cap Faulty)
    BY <1>1, <2>3, FS_Union
  <2>7. Cardinality(A) >= nmajority - Cardinality(Faulty)
    BY <1>1, <2>1, <2>4, <2>5, <2>6, FaultBound
  <2>. QED BY <2>7 DEF A
<1>4. IInv => ExecBackedByLocks
  BY <1>3 DEF ExecBackedByLocks
<1>. QED BY <1>4, SpecInv, PTL

(* A new vote is higher than every vote its caster has cast before.        *)
THEOREM SpecVotesClimb == Spec => VotesClimb
<1> DEFINE Climb == \A r \in Correct : \A b \in cast'[r] \ cast[r], c \in cast[r] :
                        height[c] < height[b]
<1>1. ASSUME IInv, [Next]_core_vars PROVE Climb
  <2>1. SUFFICES ASSUME NEW s \in Correct, NEW x \in cast'[s] \ cast[s],
                        NEW c \in cast[s]
                 PROVE  height[c] < height[x]
    OBVIOUS
  <2>2. TypeOK /\ height[c] <= vheight[s] /\ height[c] \in Nat /\ vheight[s] \in Nat
    BY <1>1, TreeType DEF IInv, CoreInv, VoteInv, TypeOK
  <2>3. ASSUME NEW r \in Correct, NEW b \in Block,
               \/ cast' = [cast EXCEPT ![r] = @ \cup {b}] /\ opinion(r, b)
               \/ cast' = cast
        PROVE  height[c] < height[x]
    <3>1. x = b /\ s = r /\ opinion(r, b)
      BY <2>2, <2>3 DEF TypeOK
    <3>2. height[b] \in Nat /\ height[b] > vheight[r]
      BY <3>1, TreeType DEF opinion
    <3>. QED BY <2>2, <3>1, <3>2
  <2>4. PICK r \in Correct, b \in Block :
            \/ on_propose(r, b)
            \/ on_deliver_blk(r, b)
            \/ on_receive_proposal(r, b)
            \/ \E v \in Replica : on_receive_vote(r, v, b)
    BY <1>1 DEF Next, core_vars
  <2>5. CASE on_propose(r, b)
    <3>1. \/ cast' = [cast EXCEPT ![r] = @ \cup {b}] /\ opinion(r, b)
          \/ cast' = [cast EXCEPT ![r] = @]
      BY <2>5 DEF on_propose
    <3>. QED BY <2>2, <2>3, <3>1 DEF TypeOK
  <2>6. CASE on_deliver_blk(r, b)
    BY <2>3, <2>6 DEF on_deliver_blk
  <2>7. CASE on_receive_proposal(r, b)
    <3>1. \/ cast' = [cast EXCEPT ![r] = @ \cup {b}] /\ opinion(r, b)
          \/ cast' = [cast EXCEPT ![r] = @]
      BY <2>7 DEF on_receive_proposal
    <3>. QED BY <2>2, <2>3, <3>1 DEF TypeOK
  <2>8. CASE \E v \in Replica : on_receive_vote(r, v, b)
    BY <2>3, <2>8 DEF on_receive_vote
  <2>. QED BY <2>4, <2>5, <2>6, <2>7, <2>8
<1>2. IInv /\ [Next]_core_vars => [Climb]_core_vars
  BY <1>1
<1> HIDE DEF Climb
<1>3. Spec => [][Climb]_core_vars
  BY <1>2, SpecInv, PTL DEF Spec
<1>. QED BY <1>3 DEF Climb, VotesClimb

(* Once certified off its branch, always: votes are not taken back.        *)
LEMMA SoundStep ==
    ASSUME IInv, [Next]_core_vars, QCsOnBranch'
    PROVE  QCsOnBranch
<1>1. cast \in [Correct -> SUBSET Block]
  BY DEF IInv, CoreInv, TypeOK
<1>2. \/ cast' = cast
      \/ \E r \in Correct, b \in Block : cast' = [cast EXCEPT ![r] = @ \cup {b}]
  <2>1. ASSUME NEW r \in Correct, NEW b \in Block, on_propose(r, b) \/ on_receive_proposal(r, b)
        PROVE  cast' = cast \/ cast' = [cast EXCEPT ![r] = @ \cup {b}]
    <3>1. cast' = [cast EXCEPT ![r] = @] \/ cast' = [cast EXCEPT ![r] = @ \cup {b}]
      BY <2>1 DEF on_propose, on_receive_proposal
    <3>. QED BY <3>1, <1>1
  <2>. QED BY <2>1 DEF Next, core_vars, on_deliver_blk, on_receive_vote
<1>3. \A s \in Correct : cast[s] \subseteq cast'[s]
  BY <1>1, <1>2
<1>. QED BY <1>3, OffBranchStays

(* What a step does to the executed blocks: nothing, or one replica        *)
(* executes what Ledger allows it to.                                      *)
LEMMA StepExecutes ==
    ASSUME IInv, [Next]_core_vars
    PROVE  L!Next
<1>1. SUFFICES ASSUME b_exec' # b_exec
               PROVE  \E n \in Correct, x \in Block : L!Execute(n, x)
  BY SoundStep DEF L!Next, QCsOnBranch
<1>2. PICK r \in Correct, b \in Block \ {b0} :
          Certified(qc_ref[b]) /\ update(r, b)
  <2>1. PICK r \in Correct, b \in Block :
            on_propose(r, b) \/ on_receive_proposal(r, b)
    BY <1>1 DEF Next, core_vars, on_deliver_blk, on_receive_vote
  <2>. QED BY <2>1 DEF on_propose, on_receive_proposal, IInv, CoreInv, QCInv, DeliveredInv
<1>3. /\ commits(r, b) /\ ~breaches(r, b)
      /\ b_exec' = [b_exec EXCEPT ![r] = blk(b)]
  BY <1>1, <1>2 DEF update
<1>4. Extends(blk(b), b_exec[r]) /\ blk(b) # b_exec[r] /\ blk(b) \in Block
  BY <1>2, <1>3, UpdateExec, BlkType DEF IInv, CoreInv
<1>5. ASSUME QCsOnBranch, NEW m \in Correct
      PROVE  SameBranch(blk(b), b_exec[m])
  <2>1. b_exec[m] \in Block /\ Certified(b_exec[m])
    BY <1>5, ExecCertified
  <2>2. Certified(blk(b))
    BY <1>2, <1>5, ThreeBlocks DEF IInv, CoreInv
  <2>3. CASE height[blk(b)] >= height[b_exec[m]]
    BY <2>2, <2>3, <1>4, <1>5, ExecCertified DEF SameBranch
  <2>4. CASE height[blk(b)] < height[b_exec[m]]
    <3>1. height[b_exec[m]] >= height[blk(b)]
      BY <2>1, <2>4, <1>4, TreeType
    <3>2. /\ Certified(blk2(b)) /\ direct(blk2(b)) /\ blk2(b) \in Block
          /\ blk(b) = qc_ref[qc_ref[blk2(b)]]
      BY <1>2, <1>3, <1>5, UpdateCommit, BlkType
    <3>3. Extends(b_exec[m], blk(b))
      BY <2>1, <3>1, <3>2, <1>5, Safety DEF IInv, CoreInv, BranchInv
    <3>. QED BY <3>3 DEF SameBranch
  <2>. QED BY <2>1, <2>3, <2>4, <1>4, TreeType
<1>6. QCsOnBranch' => \A m \in Correct : SameBranch(blk(b), b_exec[m])
  BY <1>5, SoundStep
<1>7. L!Execute(r, blk(b))
  BY <1>3, <1>4, <1>6
     DEF L!Execute, L!Extends, L!SameBranch, Extends, SameBranch
<1>. QED BY <1>4, <1>7

(* HotStuffCore implements Ledger: what a replica executes only grows, and *)
(* as long as QCs keep to their branches the correct replicas execute      *)
(* prefixes of one chain.                                                  *)
THEOREM SpecLedger == Spec => LedgerSpec
<1>1. Init => L!Init
  <2>1. SUFFICES ASSUME Init PROVE QCsOnBranch = TRUE /\ L!Init
    OBVIOUS
  <2>2. ASSUME NEW b \in Block \ {b0} PROVE ~Certified(b)
    <3>1. Voters(b) = Faulty
      BY <2>1 DEF Init, Voters
    <3>2. Cardinality(Faulty) <= nfaulty /\ Cardinality(Faulty) \in Nat
      BY ReplicaAssumption, FS_Subset, FS_CardinalityType
    <3>. QED BY <3>1, <3>2, FaultBound DEF Certified
  <2>3. QCsOnBranch
    BY <2>2 DEF QCsOnBranch
  <2>4. b_exec = [r \in Correct |-> b0]
    BY <2>1 DEF Init
  <2>. QED BY <2>3, <2>4 DEF L!Init, QCsOnBranch
<1>2. IInv /\ [Next]_core_vars => [L!Next]_(L!ledger_vars)
  BY StepExecutes
<1>. QED BY <1>1, <1>2, SpecInv, PTL DEF Spec, L!Spec, LedgerSpec

-----------------------------------------------------------------------------
(* Nobody is counted for a block before it is delivered, and who has       *)
(* counted a quorum for a block has its QC.                                *)
CountInv ==
    \A r \in Correct, b \in Block \ {b0} :
        /\ b \notin delivered[r] => voted[r][b] = {}
        /\ Cardinality(voted[r][b]) >= nmajority => height[hqc[r]] >= height[b]

LEMMA VotedFinite ==
    ASSUME TypeOK, NEW r \in Correct, NEW b \in Block
    PROVE  /\ IsFiniteSet(voted[r][b]) /\ Cardinality(voted[r][b]) \in Nat
           /\ voted[r] \in [Block -> SUBSET Replica]
<1>1. voted[r][b] \in SUBSET Replica /\ voted[r] \in [Block -> SUBSET Replica]
  BY DEF TypeOK
<1>2. IsFiniteSet(voted[r][b])
  BY <1>1, FS_Subset, ReplicaAssumption
<1>. QED BY <1>1, <1>2, FS_CardinalityType

LEMMA QuorumOfTwo == nmajority \in Nat /\ nmajority >= 2
<1>1. Cardinality(Replica) \in Nat /\ Cardinality(Replica) > 1
  BY FS_CardinalityType, ReplicaAssumption
<1>. QED BY <1>1 DEF nfaulty, nmajority

(* The height of hqc never goes down.                                      *)
LEMMA HqcClimbs ==
    ASSUME TypeOK, NEW r \in Correct, NEW b \in Block,
           \/ update(r, b)
           \/ \E v \in Replica : on_receive_vote(r, v, b)
           \/ UNCHANGED hqc
    PROVE  \A s \in Correct : height[hqc'[s]] >= height[hqc[s]] /\ hqc'[s] \in Block
<1>1. /\ hqc \in [Correct -> Block] /\ \A x \in Block : height[x] \in Nat
      /\ blk2(b) \in Block
  BY TreeType DEF TypeOK, blk2
<1>2. CASE update(r, b)
  <2>1. /\ hqc' = [hqc EXCEPT ![r] = update_hqc(r, b)]
        /\ \/ update_hqc(r, b) = hqc[r]
           \/ update_hqc(r, b) = blk2(b) /\ height[blk2(b)] > height[hqc[r]]
    BY <1>2 DEF update, update_hqc
  <2>. QED BY <1>1, <2>1
<1>3. ASSUME NEW v \in Replica, on_receive_vote(r, v, b)
      PROVE  \A s \in Correct : height[hqc'[s]] >= height[hqc[s]] /\ hqc'[s] \in Block
  <2>1. \/ hqc' = [hqc EXCEPT ![r] = b] /\ height[b] > height[hqc[r]]
        \/ hqc' = [hqc EXCEPT ![r] = @]
    BY <1>3 DEF on_receive_vote
  <2>. QED BY <1>1, <2>1
<1>4. CASE UNCHANGED hqc
  BY <1>1, <1>4
<1>. QED BY <1>2, <1>3, <1>4

(* When hqc climbs and the votes stay, so does CountInv.                   *)
LEMMA CountKept ==
    ASSUME TypeOK, CountInv, UNCHANGED voted,
           \A s \in Correct : delivered[s] \subseteq delivered'[s],
           \A s \in Correct : height[hqc'[s]] >= height[hqc[s]] /\ hqc'[s] \in Block
    PROVE  CountInv'
<1>1. ASSUME NEW s \in Correct, NEW x \in Block \ {b0},
             Cardinality(voted[s][x]) >= nmajority
      PROVE  height[hqc'[s]] >= height[x]
  <2>1. height[hqc[s]] >= height[x] /\ hqc[s] \in Block
    BY <1>1 DEF CountInv, TypeOK
  <2>. QED BY <2>1, TreeType
<1>2. \A s \in Correct, x \in Block \ {b0} : x \notin delivered'[s] => voted[s][x] = {}
  BY DEF CountInv
<1>. QED BY <1>1, <1>2 DEF CountInv

LEMMA CountPropose ==
    ASSUME CoreInv, CountInv, NEW r \in Correct, NEW b \in Block, on_propose(r, b)
    PROVE  CountInv'
<1>1. /\ TypeOK /\ DeliveredInv /\ b \notin delivered[r] /\ update(r, b)
      /\ parent[b] \in delivered[r] /\ deliver(r, b)
      /\ voted' = [voted EXCEPT ![r][b] = @ \cup {r}] \/ voted' = [voted EXCEPT ![r][b] = @]
  BY DEF on_propose, CoreInv
<1>2. /\ b # b0 /\ b \in delivered'[r] /\ voted[r][b] = {}
      /\ \A s \in Correct : delivered[s] \subseteq delivered'[s]
      /\ voted \in [Correct -> [Block -> SUBSET Replica]]
  <2>1. b # b0 /\ b \in delivered'[r] /\ \A s \in Correct : delivered[s] \subseteq delivered'[s]
    BY <1>1, DeliverFields
  <2>. QED BY <2>1, <1>1 DEF CountInv, TypeOK
<1>3. \A s \in Correct : height[hqc'[s]] >= height[hqc[s]] /\ hqc'[s] \in Block
  BY <1>1, HqcClimbs
<1>4. \A s \in Correct, x \in Block :
          voted'[s][x] = voted[s][x] \/ (s = r /\ x = b /\ voted'[s][x] = {r})
  <2>1. CASE voted' = [voted EXCEPT ![r][b] = @ \cup {r}]
    <3>1. voted'[r][b] = {r}
      BY <2>1, <1>2
    <3>2. \A s \in Correct, x \in Block : ~(s = r /\ x = b) => voted'[s][x] = voted[s][x]
      BY <2>1, <1>2
    <3>. QED BY <3>1, <3>2
  <2>2. CASE voted' = [voted EXCEPT ![r][b] = @]
    BY <2>2, <1>2
  <2>. QED BY <2>1, <2>2, <1>1
<1>5. Cardinality({r}) = 1
  BY FS_Singleton
<1>6. ASSUME NEW s \in Correct, NEW x \in Block \ {b0}
      PROVE  /\ x \notin delivered'[s] => voted'[s][x] = {}
             /\ Cardinality(voted'[s][x]) >= nmajority => height[hqc'[s]] >= height[x]
  <2>1. CASE voted'[s][x] = voted[s][x]
    <3>1. /\ x \notin delivered[s] => voted[s][x] = {}
          /\ Cardinality(voted[s][x]) >= nmajority => height[hqc[s]] >= height[x]
      BY DEF CountInv
    <3>2. hqc[s] \in Block
      BY <1>1 DEF TypeOK
    <3>. QED BY <2>1, <3>1, <3>2, <1>2, <1>3, TreeType
  <2>2. CASE s = r /\ x = b /\ voted'[s][x] = {r}
    BY <2>2, <1>2, <1>5, QuorumOfTwo
  <2>. QED BY <2>1, <2>2, <1>4
<1>. QED BY <1>6 DEF CountInv

(* The vote that makes the quorum is the one that completes the QC.        *)
LEMMA CountVote ==
    ASSUME TypeOK, CountInv, NEW r \in Correct, NEW v \in Replica, NEW b \in Block,
           on_receive_vote(r, v, b)
    PROVE  CountInv'
<1>1. /\ b \in delivered[r] /\ v \notin voted[r][b]
      /\ Cardinality(voted[r][b]) < nmajority
      /\ voted' = [voted EXCEPT ![r][b] = @ \cup {v}]
      /\ hqc' = [hqc EXCEPT ![r] =
                   IF completes(r, b) /\ height[b] > height[@] THEN b ELSE @]
      /\ UNCHANGED delivered
  BY DEF on_receive_vote
<1>2. voted \in [Correct -> [Block -> SUBSET Replica]] /\ hqc \in [Correct -> Block]
  BY DEF TypeOK
<1>3. \A s \in Correct : height[hqc'[s]] >= height[hqc[s]] /\ hqc'[s] \in Block
  BY HqcClimbs
<1>4. Cardinality(voted'[r][b]) >= nmajority => height[hqc'[r]] >= height[b]
  <2>1. /\ Cardinality(voted'[r][b]) = Cardinality(voted[r][b]) + 1
        /\ Cardinality(voted[r][b]) \in Nat
    <3>1. voted'[r][b] = voted[r][b] \cup {v}
      BY <1>1, <1>2
    <3>. QED BY <1>1, <3>1, VotedFinite, FS_AddElement
  <2>2. Cardinality(voted'[r][b]) >= nmajority => completes(r, b)
    BY <1>1, <2>1, QuorumOfTwo DEF completes
  <2>3. completes(r, b) => height[hqc'[r]] >= height[b]
    BY <1>1, <1>2, TreeType
  <2>. QED BY <2>2, <2>3
<1>5. ASSUME NEW s \in Correct, NEW x \in Block \ {b0}
      PROVE  /\ x \notin delivered'[s] => voted'[s][x] = {}
             /\ Cardinality(voted'[s][x]) >= nmajority => height[hqc'[s]] >= height[x]
  <2>1. CASE s = r /\ x = b
    BY <2>1, <1>1, <1>4
  <2>2. CASE ~(s = r /\ x = b)
    <3>1. voted'[s][x] = voted[s][x] /\ hqc[s] \in Block
      BY <2>2, <1>1, <1>2
    <3>2. /\ x \notin delivered[s] => voted[s][x] = {}
          /\ Cardinality(voted[s][x]) >= nmajority => height[hqc[s]] >= height[x]
      BY DEF CountInv
    <3>. QED BY <3>1, <3>2, <1>1, <1>3, TreeType
  <2>. QED BY <2>1, <2>2
<1>. QED BY <1>5 DEF CountInv

LEMMA CountStep ==
    ASSUME CoreInv, CountInv, [Next]_core_vars
    PROVE  CountInv'
<1>1. CASE UNCHANGED core_vars
  BY <1>1 DEF core_vars, CountInv
<1>2. ASSUME NEW r \in Correct, NEW b \in Block,
             on_deliver_blk(r, b) \/ on_receive_proposal(r, b)
      PROVE  CountInv'
  <2>1. /\ TypeOK /\ UNCHANGED voted /\ (update(r, b) \/ UNCHANGED hqc)
        /\ \A s \in Correct : delivered[s] \subseteq delivered'[s]
    BY <1>2, ZenonT(40) DEF on_deliver_blk, deliver, on_receive_proposal, CoreInv, TypeOK
  <2>2. \A s \in Correct : height[hqc'[s]] >= height[hqc[s]] /\ hqc'[s] \in Block
    BY <2>1, HqcClimbs
  <2>. QED BY <2>1, <2>2, CountKept
<1>3. ASSUME NEW r \in Correct, NEW b \in Block, NEW v \in Replica,
             on_receive_vote(r, v, b)
      PROVE  CountInv'
  BY <1>3, CountVote DEF CoreInv
<1>4. CASE Next
  BY <1>2, <1>3, <1>4, CountPropose DEF Next
<1>. QED BY <1>1, <1>4

(* Counted votes stand behind hqc in every reachable state.                *)
THEOREM SpecCountInv == Spec => []CountInv
<1>1. Init => CountInv
  <2>1. SUFFICES ASSUME Init, NEW r \in Correct, NEW b \in Block \ {b0}
                 PROVE  voted[r][b] = {} /\ ~(Cardinality(voted[r][b]) >= nmajority)
    BY DEF CountInv
  <2>2. voted[r][b] = {}
    BY <2>1 DEF Init
  <2>. QED BY <2>2, QuorumOfTwo, FS_EmptySet
<1>2. IInv /\ CountInv /\ [Next]_core_vars => CountInv'
  BY CountStep DEF IInv
<1>. QED BY <1>1, <1>2, SpecInv, PTL DEF Spec

(* QCs are real: a replica's highest QC has a quorum of votes behind it,   *)
(* and who has counted a quorum is never below it.                         *)
THEOREM SpecQCsAreReal == Spec => []QCsAreReal
<1>1. IInv /\ CountInv => QCsAreReal
  BY DEF IInv, CoreInv, QCInv, CountInv, QCsAreReal
<1>. QED BY <1>1, SpecInv, SpecCountInv, PTL

-----------------------------------------------------------------------------
(* The core driven by PMHighTail.                                          *)
(* A step of the composition is a step of the core.                        *)
LEMMA PMStep ==
    ASSUME [PMNext]_pm_vars
    PROVE  [Next]_core_vars
<1>1. CASE UNCHANGED pm_vars
  BY <1>1 DEF pm_vars
<1>2. CASE PMNext
  BY <1>2 DEF PMNext, pm_deliver_blk, pm_propose, pm_receive_proposal,
              pm_receive_first, pm_receive_last, pm_receive_vote, Next
<1>. QED BY <1>1, <1>2

(* PMHighTail only restricts which proposals are made: whatever is proved  *)
(* of HotStuffCore holds of the composition.                               *)
THEOREM PMRefinesCore == PMSpec => Spec
<1>1. PMInit => Init
  BY DEF PMInit
<1>2. [PMNext]_pm_vars => [Next]_core_vars
  BY PMStep
<1>. QED BY <1>1, <1>2, PTL DEF PMSpec, Spec

(* The correct replicas driven by PMHighTail execute prefixes of one chain *)
(* as long as QCs keep to their branches.                                  *)
THEOREM PMLedger == PMSpec => LedgerSpec
  BY PMRefinesCore, SpecLedger, PTL

-----------------------------------------------------------------------------
(* The invariant of the core holds along the composition.                  *)
THEOREM PMCoreInv == PMSpec => []IInv /\ []CoreInv /\ []CountInv
<1>1. IInv => CoreInv
  BY DEF IInv
<1>. QED BY <1>1, PMRefinesCore, SpecInv, SpecCountInv, PTL

LEMMA PMInitInv == PMInit => PMInv
<1> SUFFICES ASSUME PMInit PROVE PMInv
  OBVIOUS
<1>1. Init /\ hqc_tail = [r \in Correct |-> b0] /\ receiving = [r \in Correct |-> b0]
  BY DEF PMInit
<1>2. IInv
  BY <1>1, InitInv
<1>3. PMTypeOK
  BY <1>1, <1>2, TreeType DEF IInv, CoreInv, PMTypeOK
<1>4. DeliveredInv /\ ReceivingInv
  BY <1>1, <1>2 DEF IInv, CoreInv, Init, ReceivingInv
<1>5. TailsCoverDelivered /\ TailExtendsHqc
  BY <1>1, TreeType DEF Init, TailsCoverDelivered, TailExtendsHqc, Extends
<1>. QED BY <1>3, <1>4, <1>5 DEF PMInv

(* Delivering a block on a delivered parent keeps tails the ends of the    *)
(* delivered branches.                                                     *)
LEMMA DeliverTails ==
    ASSUME PMInv, NEW r \in Correct, NEW b \in Block,
           b \notin delivered[r], parent[b] \in delivered[r], deliver(r, b)
    PROVE  TailsCoverDelivered'
<1> DEFINE D == delivered[r]
           T == tails[r]
           p == parent[b]
<1>1. /\ \A s \in Correct : delivered[s] \subseteq Block /\ tails[s] \subseteq Block
      /\ \A x \in Block : height[x] \in Nat
  BY TreeType DEF PMInv, PMTypeOK, TypeOK
<1>2. b # b0 /\ chain[b] = chain[p] \cup {b} /\ p \in Block
  BY TreeLinks, TreeType DEF PMInv, DeliveredInv
<1>3. /\ delivered'[r] = D \cup {b} /\ tails'[r] = (T \ {p}) \cup {b}
      /\ \A s \in Correct \ {r} : delivered'[s] = delivered[s] /\ tails'[s] = tails[s]
  BY DEF deliver, PMInv, PMTypeOK, TypeOK
<1>4. /\ T \subseteq D /\ \A x \in D : chain[x] \subseteq D
      /\ \A x \in D : \E t \in T : x \in chain[t]
      /\ \A s, t \in T : s \in chain[t] => s = t
  BY DEF PMInv, DeliveredInv, TailsCoverDelivered, Extends
<1>5. ASSUME NEW x \in D \cup {b}
      PROVE  \E t \in (T \ {p}) \cup {b} : x \in chain[t]
  <2>1. CASE x = b
    BY <2>1, ChainEnds
  <2>2. CASE x \in D
    <3>1. PICK t \in T : x \in chain[t]
      BY <2>2, <1>4
    <3>2. CASE t = p
      BY <3>1, <3>2, <1>2
    <3>3. CASE t # p
      BY <3>1, <3>3
    <3>. QED BY <3>2, <3>3
  <2>. QED BY <2>1, <2>2
<1>6. ASSUME NEW s \in (T \ {p}) \cup {b}, NEW t \in (T \ {p}) \cup {b}, s \in chain[t]
      PROVE  s = t
  <2>1. CASE s \in T /\ t \in T
    BY <2>1, <1>4, <1>6
  <2>2. CASE s = b /\ t \in T
    <3>1. chain[t] \subseteq D
      BY <2>2, <1>4
    <3>. QED BY <3>1, <2>2, <1>6
  <2>3. CASE s \in T \ {p} /\ t = b
    <3>1. s \in chain[p]
      BY <2>3, <1>2, <1>4, <1>6
    <3>2. PICK u \in T : p \in chain[u]
      BY <1>4
    <3>3. s \in chain[u]
      BY <3>1, <3>2, <1>1, ChainTrans
    <3>4. s = u
      BY <3>3, <2>3, <1>4
    <3>5. height[s] < height[p] /\ height[p] < height[s] /\ s \in Block
      BY <3>1, <3>2, <3>4, <2>3, <1>1, <1>2, ChainHeight
    <3>. QED BY <3>5, <1>1, <1>2
  <2>. QED BY <2>1, <2>2, <2>3
<1>7. TailsCoverDelivered'
  <2>1. ASSUME NEW s \in Correct, s # r
        PROVE  /\ \A x \in delivered'[s] : \E t \in tails'[s] : x \in chain[t]
               /\ \A x, t \in tails'[s] : x \in chain[t] => x = t
    BY <2>1, <1>3 DEF PMInv, TailsCoverDelivered, Extends
  <2>2. /\ \A x \in delivered'[r] : \E t \in tails'[r] : x \in chain[t]
        /\ \A x, t \in tails'[r] : x \in chain[t] => x = t
    BY <1>3, <1>5, <1>6
  <2>. QED BY <2>1, <2>2 DEF TailsCoverDelivered, Extends
<1>. QED BY <1>7

(* Whatever reg_hqc_update leaves in hqc_tail follows the new hqc.         *)
LEMMA HqcUpdateTail ==
    ASSUME PMInv, NEW r \in Correct, hqc'[r] \in delivered[r],
           NEW t \in reg_hqc_update(r)
    PROVE  t \in delivered[r] /\ t \in Block /\ Extends(t, hqc'[r])
<1>1. /\ delivered[r] \subseteq Block /\ tails[r] \subseteq delivered[r]
      /\ hqc_tail[r] \in delivered[r] /\ Extends(hqc_tail[r], hqc[r])
  BY DEF PMInv, PMTypeOK, TypeOK, DeliveredInv, TailExtendsHqc
<1>2. Extends(hqc'[r], hqc'[r])
  BY <1>1, ChainEnds DEF Extends
<1>3. CASE hqc'[r] = hqc[r]
  BY <1>1, <1>3 DEF reg_hqc_update
<1>4. CASE hqc'[r] # hqc[r]
  <2>1. t = hqc'[r] \/ (t \in tails[r] /\ Extends(t, hqc'[r]))
    BY <1>4 DEF reg_hqc_update, highest_tails
  <2>. QED BY <2>1, <1>1, <1>2
<1>. QED BY <1>3, <1>4

LEMMA PMDeliverInv ==
    ASSUME PMInv, CoreInv', NEW r \in Correct, NEW b \in Block, pm_deliver_blk(r, b)
    PROVE  PMInv'
<1>1. /\ b \notin delivered[r] /\ parent[b] \in delivered[r] /\ deliver(r, b)
      /\ UNCHANGED <<hqc, hqc_tail, receiving>>
  BY DEF pm_deliver_blk, on_deliver_blk
<1>2. \A s \in Correct : delivered[s] \subseteq delivered'[s]
  BY <1>1, DeliverFields DEF PMInv, PMTypeOK
<1>3. TailsCoverDelivered'
  BY <1>1, DeliverTails
<1>4. TailExtendsHqc' /\ ReceivingInv'
  BY <1>1, <1>2 DEF PMInv, TailExtendsHqc, ReceivingInv, Extends
<1>. QED BY <1>1, <1>3, <1>4 DEF PMInv, PMTypeOK, CoreInv

LEMMA PMProposeInv ==
    ASSUME PMInv, CoreInv', NEW r \in Correct, NEW b \in Block, pm_propose(r, b)
    PROVE  PMInv'
<1>1. /\ b \notin delivered[r] /\ parent[b] \in delivered[r] /\ deliver(r, b)
      /\ qc_ref[b] = hqc[r] /\ parent[b] = hqc_tail[r]
      /\ update(r, b) /\ UNCHANGED receiving
      /\ hqc_tail' = [hqc_tail EXCEPT ![r] =
                        IF status'[r] = "running" THEN b ELSE @]
  BY DEF pm_propose, on_propose
<1>2. /\ chain[b] = chain[parent[b]] \cup {b} /\ b \in delivered'[r]
      /\ \A s \in Correct : delivered[s] \subseteq delivered'[s]
  BY <1>1, DeliverFields DEF PMInv, PMTypeOK
<1>3. TailsCoverDelivered'
  BY <1>1, DeliverTails
<1>4. /\ TailExtendsHqc /\ hqc_tail \in [Correct -> Block] /\ hqc \in [Correct -> Block]
  BY DEF PMInv, PMTypeOK, TypeOK
<1>5. hqc' = hqc
  <2>1. update_hqc(r, b) = hqc[r]
    BY <1>1, <1>4, TreeType DEF update_hqc, blk2
  <2>. QED BY <2>1, <1>1, <1>4 DEF update
<1>6. hqc_tail' \in [Correct -> Block]
  BY <1>1, <1>4
<1>7. ASSUME NEW s \in Correct
      PROVE  hqc_tail'[s] \in delivered'[s] /\ hqc[s] \in chain[hqc_tail'[s]]
  <2>1. hqc_tail[s] \in delivered[s] /\ hqc[s] \in chain[hqc_tail[s]]
    BY <1>4 DEF TailExtendsHqc, Extends
  <2>2. hqc_tail'[s] = hqc_tail[s] \/ (s = r /\ hqc_tail'[s] = b)
    BY <1>1, <1>4
  <2>. QED BY <2>1, <2>2, <1>1, <1>2
<1>8. TailExtendsHqc'
  BY <1>5, <1>7 DEF TailExtendsHqc, Extends
<1>9. ReceivingInv'
  BY <1>1, <1>2 DEF PMInv, ReceivingInv
<1>. QED BY <1>1, <1>3, <1>6, <1>8, <1>9 DEF PMInv, PMTypeOK, CoreInv

(* What is common to receiving a proposal and a vote: hqc and hqc_tail of  *)
(* r move, nothing is delivered or proposed.                               *)
LEMMA PMTailMoves ==
    ASSUME PMInv, CoreInv', NEW r \in Correct, UNCHANGED <<delivered, tails>>,
           \A s \in Correct \ {r} : hqc'[s] = hqc[s],
           NEW t \in delivered[r], Extends(t, hqc'[r]),
           hqc_tail' = [hqc_tail EXCEPT ![r] = t],
           NEW q \in delivered[r], receiving' = [receiving EXCEPT ![r] = q]
    PROVE  PMInv'
<1>1. /\ hqc_tail \in [Correct -> Block] /\ receiving \in [Correct -> Block]
      /\ delivered[r] \subseteq Block
  BY DEF PMInv, PMTypeOK, TypeOK
<1>2. hqc_tail' \in [Correct -> Block] /\ receiving' \in [Correct -> Block]
  BY <1>1
<1>3. TailsCoverDelivered'
  BY DEF PMInv, TailsCoverDelivered
<1>4. TailExtendsHqc' /\ ReceivingInv'
  BY <1>1 DEF PMInv, TailExtendsHqc, ReceivingInv, Extends
<1>. QED BY <1>2, <1>3, <1>4 DEF PMInv, PMTypeOK, CoreInv

(* Receiving a proposal, up to the promise of the QC in it.                *)
LEMMA ReceiveFields ==
    ASSUME PMInv, CoreInv', NEW r \in Correct, NEW b \in Block, on_receive_proposal(r, b)
    PROVE  /\ b \in delivered[r] /\ b # b0 /\ creator[b] # r
           /\ UNCHANGED <<proposed, voted, delivered, tails>>
           /\ \A s \in Correct \ {r} : hqc'[s] = hqc[s]
           /\ hqc'[r] \in delivered[r]
           /\ \A t \in reg_hqc_update(r) : t \in delivered[r] /\ Extends(t, hqc'[r])
<1>1. /\ b \in delivered[r] /\ b # b0 /\ creator[b] # r /\ update(r, b)
      /\ UNCHANGED <<proposed, voted, delivered, tails>>
  BY DEF on_receive_proposal
<1>2. \A s \in Correct \ {r} : hqc'[s] = hqc[s]
  BY <1>1 DEF update, PMInv, PMTypeOK, TypeOK
<1>3. hqc'[r] \in delivered[r]
  BY <1>1 DEF CoreInv, DeliveredInv
<1>. QED BY <1>1, <1>2, <1>3, HqcUpdateTail

LEMMA PMReceiveProposalInv ==
    ASSUME PMInv, CoreInv', NEW r \in Correct, NEW b \in Block,
           pm_receive_proposal(r, b) \/ pm_receive_first(r, b)
    PROVE  PMInv'
<1>1. /\ b \in delivered[r] /\ UNCHANGED <<delivered, tails>>
      /\ \A s \in Correct \ {r} : hqc'[s] = hqc[s]
      /\ \A t \in reg_hqc_update(r) : t \in delivered[r] /\ Extends(t, hqc'[r])
  BY ReceiveFields DEF pm_receive_proposal, pm_receive_first
<1>2. receiving \in [Correct -> Block] /\ receiving[r] \in delivered[r]
  BY DEF PMInv, PMTypeOK, ReceivingInv
<1>3. CASE pm_receive_proposal(r, b)
  <2>1. PICK t \in reg_hqc_update(r) :
            hqc_tail' = [hqc_tail EXCEPT ![r] =
                           IF status'[r] = "running"
                           THEN reg_receive_proposal(r, b, t) ELSE t]
    BY <1>3 DEF pm_receive_proposal
  <2>2. PICK u \in delivered[r] : /\ Extends(u, hqc'[r])
                                  /\ hqc_tail' = [hqc_tail EXCEPT ![r] = u]
    BY <1>1, <2>1 DEF reg_receive_proposal
  <2>3. receiving' = [receiving EXCEPT ![r] = receiving[r]]
    BY <1>2, <1>3 DEF pm_receive_proposal
  <2>. QED BY <1>1, <1>2, <2>2, <2>3, PMTailMoves
<1>4. CASE pm_receive_first(r, b)
  <2>1. PICK t \in reg_hqc_update(r) : hqc_tail' = [hqc_tail EXCEPT ![r] = t]
    BY <1>4 DEF pm_receive_first
  <2>2. PICK q \in delivered[r] : receiving' = [receiving EXCEPT ![r] = q]
    BY <1>1, <1>2, <1>4 DEF pm_receive_first
  <2>. QED BY <1>1, <2>1, <2>2, PMTailMoves
<1>. QED BY <1>3, <1>4

LEMMA PMReceiveLastInv ==
    ASSUME PMInv, CoreInv', NEW r \in Correct, pm_receive_last(r)
    PROVE  PMInv'
<1>1. UNCHANGED core_vars /\ UNCHANGED <<delivered, tails, hqc>>
  BY DEF pm_receive_last, core_vars
<1>2. /\ hqc_tail[r] \in delivered[r] /\ Extends(hqc_tail[r], hqc[r])
      /\ receiving[r] \in delivered[r] /\ b0 \in delivered[r]
  BY DEF PMInv, TailExtendsHqc, ReceivingInv, DeliveredInv
<1>3. PICK t \in delivered[r] : /\ Extends(t, hqc'[r])
                                /\ hqc_tail' = [hqc_tail EXCEPT ![r] = t]
  BY <1>1, <1>2 DEF pm_receive_last, reg_receive_proposal
<1>4. receiving' = [receiving EXCEPT ![r] = b0]
  BY DEF pm_receive_last
<1>. QED BY <1>1, <1>2, <1>3, <1>4, PMTailMoves

LEMMA PMReceiveVoteInv ==
    ASSUME PMInv, CoreInv', NEW r \in Correct, NEW v \in Replica, NEW b \in Block,
           pm_receive_vote(r, v, b)
    PROVE  PMInv'
<1>1. UNCHANGED <<delivered, tails>> /\ \A s \in Correct \ {r} : hqc'[s] = hqc[s]
  BY DEF pm_receive_vote, on_receive_vote, PMInv, PMTypeOK, TypeOK
<1>2. PICK t \in reg_hqc_update(r) : hqc_tail' = [hqc_tail EXCEPT ![r] = t]
  BY DEF pm_receive_vote
<1>3. hqc'[r] \in delivered[r]
  BY <1>1 DEF CoreInv, DeliveredInv
<1>4. t \in delivered[r] /\ Extends(t, hqc'[r])
  BY <1>2, <1>3, HqcUpdateTail
<1>5. receiving[r] \in delivered[r] /\ receiving' = [receiving EXCEPT ![r] = receiving[r]]
  BY DEF PMInv, PMTypeOK, ReceivingInv, pm_receive_vote
<1>. QED BY <1>1, <1>2, <1>4, <1>5, PMTailMoves

(* The inductive invariant of the composition.                             *)
THEOREM PMSpecInv == PMSpec => []PMInv
<1>1. ASSUME PMInv, CoreInv', [PMNext]_pm_vars PROVE PMInv'
  <2>1. CASE UNCHANGED pm_vars
    BY <1>1, <2>1 DEF pm_vars, core_vars, PMInv, PMTypeOK, CoreInv, ReceivingInv,
                      TailsCoverDelivered, TailExtendsHqc
  <2>2. CASE PMNext
    BY <1>1, <2>2, PMDeliverInv, PMProposeInv, PMReceiveProposalInv, PMReceiveLastInv,
       PMReceiveVoteInv DEF PMNext
  <2>. QED BY <1>1, <2>1, <2>2
<1>2. PMInv /\ CoreInv' /\ [PMNext]_pm_vars => PMInv'
  BY <1>1
<1>. QED BY <1>2, PMCoreInv, PMInitInv, PTL DEF PMSpec

(* The block a replica proposes on is delivered and follows its hqc.       *)
THEOREM PMTailExtendsHqc == PMSpec => []TailExtendsHqc
<1>1. PMInv => TailExtendsHqc
  BY DEF PMInv
<1>. QED BY <1>1, PMSpecInv, PTL

(* The tails are the ends of the delivered branches, no more and no fewer. *)
THEOREM PMTailsCoverDelivered == PMSpec => []TailsCoverDelivered
<1>1. PMInv => TailsCoverDelivered
  BY DEF PMInv
<1>. QED BY <1>1, PMSpecInv, PTL

-----------------------------------------------------------------------------
(* Blocks of correct creators are justified, wherever they are delivered.  *)
JustifiedInv ==
    \A r \in Correct : \A b \in delivered[r] \ {b0} :
        creator[b] \in Correct => Justified(b)

(* PMHighTail proposes only justified blocks: certificates off a branch    *)
(* are brought in by faulty proposers alone.                               *)
THEOREM PMSoundProposals == PMSpec => []JustifiedInv
<1>1. PMInit => JustifiedInv
  BY DEF PMInit, Init, JustifiedInv
<1>2. ASSUME PMInv, JustifiedInv, NEW r \in Correct, NEW b \in Block, deliver(r, b),
             creator[b] \in Correct => Justified(b)
      PROVE  JustifiedInv'
  BY <1>2 DEF deliver, PMInv, PMTypeOK, TypeOK, JustifiedInv, Justified
<1>3. ASSUME PMInv, JustifiedInv, NEW r \in Correct, NEW b \in Block, pm_propose(r, b)
      PROVE  JustifiedInv'
  <2>1. deliver(r, b) /\ qc_ref[b] = hqc[r] /\ parent[b] = hqc_tail[r]
    BY <1>3 DEF pm_propose, on_propose
  <2>2. Justified(b)
    BY <1>3, <2>1 DEF PMInv, TailExtendsHqc, Extends, Justified
  <2>. QED BY <1>2, <1>3, <2>1, <2>2
<1>4. ASSUME PMInv, JustifiedInv, NEW r \in Correct, NEW b \in Block, pm_deliver_blk(r, b)
      PROVE  JustifiedInv'
  <2>1. deliver(r, b) /\ (b \in proposed \/ creator[b] \in Faulty)
    BY <1>4 DEF pm_deliver_blk, on_deliver_blk
  <2>2. creator[b] \in Correct => Justified(b)
    BY <1>4, <2>1 DEF PMInv, DeliveredInv, JustifiedInv, Correct
  <2>. QED BY <1>2, <1>4, <2>1, <2>2
<1>5. ASSUME JustifiedInv, UNCHANGED delivered PROVE JustifiedInv'
  BY <1>5 DEF JustifiedInv, Justified
<1>6. PMInv /\ JustifiedInv /\ [PMNext]_pm_vars => JustifiedInv'
  BY <1>3, <1>4, <1>5
     DEF PMNext, pm_vars, core_vars, pm_receive_proposal, pm_receive_first,
         pm_receive_last, pm_receive_vote, on_receive_proposal, on_receive_vote
<1>. QED BY <1>1, <1>6, PMSpecInv, PTL DEF PMSpec

(* The premise of the claims on execution holds when the faulty replicas'  *)
(* blocks keep to their branches, so always when nobody is faulty.         *)
THEOREM PMQCsOnBranch ==
    ASSUME \A b \in Block \ {b0} : creator[b] \in Faulty => Justified(b)
    PROVE  PMSpec => []QCsOnBranch
<1>1. CoreInv /\ JustifiedInv => QCsOnBranch
  <2>1. SUFFICES ASSUME CoreInv, JustifiedInv, NEW b \in Block \ {b0}, Certified(b)
                 PROVE  Justified(b)
    BY DEF QCsOnBranch
  <2>2. PICK r \in Correct : b \in cast[r]
    BY <2>1, CertifiedVoted
  <2>3. b \in delivered[r]
    BY <2>1, <2>2 DEF CoreInv, VoteInv
  <2>4. creator[b] \in Correct \/ creator[b] \in Faulty
    BY ReplicaAssumption DEF Correct
  <2>. QED BY <2>1, <2>3, <2>4 DEF JustifiedInv
<1>. QED BY <1>1, PMCoreInv, PMSoundProposals, PTL
-----------------------------------------------------------------------------
(* A replica that has received blocks of nobody else has one chain, of     *)
(* which hqc_tail is the end, and has not voted above it.                  *)
Alone(r) == \A b \in delivered[r] \ {b0} : creator[b] = r

SoleInv ==
    \A r \in Correct : Alone(r) =>
        /\ delivered[r] = chain[hqc_tail[r]]
        /\ vheight[r] <= height[hqc_tail[r]]
        /\ status[r] # "stale"

(* Whatever QC such a replica gets, hqc_tail stays the end of its chain:   *)
(* this is what reg_hqc_update searches the tails for.                     *)
LEMMA SoleTailStays ==
    ASSUME PMInv, NEW r \in Correct, delivered[r] = chain[hqc_tail[r]],
           hqc'[r] \in delivered[r], NEW t \in reg_hqc_update(r)
    PROVE  t = hqc_tail[r]
<1> DEFINE T == hqc_tail[r]
<1>1. /\ T \in Block /\ tails[r] \subseteq chain[T] /\ T \in chain[T]
      /\ \A x \in chain[T] : x \in Block
      /\ \A x \in Block : height[x] \in Nat
  BY ChainEnds, TreeType DEF PMInv, PMTypeOK, DeliveredInv
<1>2. T \in tails[r]
  <2>1. PICK u \in tails[r] : T \in chain[u]
    BY <1>1 DEF PMInv, TailsCoverDelivered, Extends
  <2>2. u \in Block /\ height[u] <= height[T] /\ height[T] <= height[u]
    BY <1>1, <2>1, ChainHeight
  <2>3. u = T
    BY <1>1, <2>1, <2>2, ChainHeight
  <2>. QED BY <2>1, <2>3
<1>3. CASE hqc'[r] = hqc[r]
  BY <1>3 DEF reg_hqc_update
<1>4. CASE hqc'[r] # hqc[r]
  <2>1. t = hqc'[r] \/ (t \in tails[r] /\ Extends(t, hqc'[r]))
    BY <1>4 DEF reg_hqc_update, highest_tails
  <2>2. height[T] <= height[t]
    BY <1>1, <1>2, <1>4 DEF reg_hqc_update, highest_tails, Extends
  <2>3. t \in chain[T]
    BY <1>1, <2>1
  <2>. QED BY <1>1, <2>2, <2>3, ChainHeight
<1>. QED BY <1>3, <1>4

(* No exception leaves a proposal of such a replica.                       *)
LEMMA SolePropose ==
    ASSUME PMInv, CoreInv, SoleInv, NEW r \in Correct, NEW b \in Block, pm_propose(r, b),
           Alone(r)
    PROVE  /\ status'[r] = status[r] /\ hqc_tail'[r] = b
           /\ proposed' = proposed \cup {b}
           /\ delivered'[r] = chain[b] /\ vheight'[r] <= height[b]
           /\ ~breaches(r, b)
<1>1. /\ parent[b] = hqc_tail[r] /\ b \notin delivered[r] /\ status[r] = "running"
      /\ deliver(r, b)
      /\ status' = [status EXCEPT ![r] =
                      IF breaches(r, b) THEN "breached"
                      ELSE IF breaches(r, b) \/ height[b] <= vheight[r] THEN "stale" ELSE @]
      /\ proposed' = IF breaches(r, b) \/ height[b] <= vheight[r]
                     THEN proposed ELSE proposed \cup {b}
      /\ \/ vheight' = [vheight EXCEPT ![r] = height[b]]
         \/ vheight' = [vheight EXCEPT ![r] = @]
      /\ hqc_tail' = [hqc_tail EXCEPT ![r] = IF status'[r] = "running" THEN b ELSE @]
  BY DEF pm_propose, on_propose
<1>2. /\ b # b0 /\ b0 \in delivered[r] /\ hqc_tail[r] \in Block
      /\ delivered \in [Correct -> SUBSET Block] /\ vheight \in [Correct -> Nat]
      /\ status \in [Correct -> {"running", "breached", "stale"}]
      /\ hqc_tail \in [Correct -> Block]
  BY <1>1 DEF PMInv, PMTypeOK, TypeOK, DeliveredInv
<1>3. delivered[r] = chain[hqc_tail[r]] /\ vheight[r] <= height[hqc_tail[r]]
  BY DEF SoleInv
<1>4. ~breaches(r, b)
  <2>1. SUFFICES ASSUME commits(r, b) PROVE Extends(blk(b), b_exec[r])
    BY DEF breaches
  <2>2. /\ blk(b) \in chain[hqc_tail[r]] /\ b_exec[r] \in chain[hqc_tail[r]]
        /\ blk(b) \notin chain[b_exec[r]]
    BY <1>3, <2>1 DEF commits, undecided, CoreInv, DeliveredInv, DecisionMatchesExec
  <2>3. height[blk(b)] \in Nat /\ height[b_exec[r]] \in Nat
    BY BlkType, TreeType DEF CoreInv, TypeOK
  <2>4. height[blk(b)] <= height[b_exec[r]] \/ height[b_exec[r]] <= height[blk(b)]
    BY <2>3
  <2>. QED BY <1>2, <2>2, <2>4, ChainLinear DEF Extends
<1>5. height[b] = height[hqc_tail[r]] + 1 /\ chain[b] = chain[hqc_tail[r]] \cup {b}
      /\ height[b] \in Nat /\ height[hqc_tail[r]] \in Nat /\ vheight[r] \in Nat
  BY <1>1, <1>2, TreeLinks, TreeType
<1>6. ~(height[b] <= vheight[r])
  BY <1>3, <1>5
<1>7. status'[r] = status[r] /\ proposed' = proposed \cup {b}
  BY <1>1, <1>2, <1>4, <1>6
<1>8. hqc_tail'[r] = b
  BY <1>1, <1>2, <1>7
<1>9. delivered'[r] = chain[b]
  BY <1>1, <1>2, <1>3, <1>5 DEF deliver
<1>10. vheight'[r] <= height[b]
  BY <1>1, <1>2, <1>5, <1>6
<1>. QED BY <1>4, <1>7, <1>8, <1>9, <1>10

(* A handler of replica s, on its block b.                                 *)
PMStepOf(s, b) ==
    \/ pm_propose(s, b) \/ pm_deliver_blk(s, b) \/ pm_receive_proposal(s, b)
    \/ pm_receive_first(s, b) \/ pm_receive_last(s)
    \/ \E v \in Replica : pm_receive_vote(s, v, b)

(* What the other replicas have is left alone by a step of s.              *)
LEMMA OthersKept ==
    ASSUME PMInv, NEW s \in Correct, NEW b \in Block, NEW r \in Correct, r # s,
           PMStepOf(s, b)
    PROVE  /\ delivered'[r] = delivered[r] /\ hqc_tail'[r] = hqc_tail[r]
           /\ vheight'[r] = vheight[r] /\ status'[r] = status[r] /\ hqc'[r] = hqc[r]
           /\ voted'[r] = voted[r] /\ receiving'[r] = receiving[r]
<1>1. /\ delivered \in [Correct -> SUBSET Block] /\ vheight \in [Correct -> Nat]
      /\ status \in [Correct -> {"running", "breached", "stale"}]
      /\ hqc_tail \in [Correct -> Block] /\ hqc \in [Correct -> Block]
      /\ voted \in [Correct -> [Block -> SUBSET Replica]]
      /\ receiving \in [Correct -> Block]
  BY DEF PMInv, PMTypeOK, TypeOK
<1>2. CASE pm_propose(s, b)
  BY <1>1, <1>2 DEF pm_propose, on_propose, deliver, update
<1>3. CASE pm_deliver_blk(s, b)
  BY <1>1, <1>3 DEF pm_deliver_blk, on_deliver_blk, deliver
<1>4. CASE pm_receive_proposal(s, b)
  BY <1>1, <1>4 DEF pm_receive_proposal, on_receive_proposal, update
<1>5. CASE pm_receive_first(s, b)
  BY <1>1, <1>5 DEF pm_receive_first, on_receive_proposal, update
<1>6. CASE pm_receive_last(s)
  BY <1>1, <1>6 DEF pm_receive_last, core_vars
<1>7. CASE \E v \in Replica : pm_receive_vote(s, v, b)
  BY <1>1, <1>7 DEF pm_receive_vote, on_receive_vote
<1>. QED BY <1>2, <1>3, <1>4, <1>5, <1>6, <1>7 DEF PMStepOf

LEMMA SoleStep ==
    ASSUME PMInv, PMInv', CoreInv, SoleInv, [PMNext]_pm_vars
    PROVE  SoleInv'
<1>1. CASE UNCHANGED pm_vars
  BY <1>1 DEF pm_vars, core_vars, SoleInv, Alone
<1>2. ASSUME NEW s \in Correct, NEW b \in Block, PMStepOf(s, b),
             NEW r \in Correct, Alone(r)'
      PROVE  /\ delivered'[r] = chain[hqc_tail'[r]]
             /\ vheight'[r] <= height[hqc_tail'[r]]
             /\ status'[r] # "stale"
  <2> DEFINE Goal == /\ delivered'[r] = chain[hqc_tail'[r]]
                     /\ vheight'[r] <= height[hqc_tail'[r]]
                     /\ status'[r] # "stale"
  <2>1. CASE r # s
    <3>1. Alone(r)
      BY <1>2, <2>1, OthersKept DEF Alone
    <3>. QED BY <1>2, <2>1, <3>1, OthersKept DEF SoleInv
  <2>2. CASE r = s /\ pm_propose(s, b)
    <3>1. Alone(r)
      BY <1>2, <2>2 DEF Alone, pm_propose, on_propose, deliver, PMInv, PMTypeOK, TypeOK
    <3>2. status[r] # "stale"
      BY <3>1 DEF SoleInv
    <3>3. /\ status'[r] = status[r] /\ hqc_tail'[r] = b
          /\ delivered'[r] = chain[b] /\ vheight'[r] <= height[b]
      BY <2>2, <3>1, SolePropose
    <3>. QED BY <3>2, <3>3
  <2>3. CASE r = s /\ pm_deliver_blk(s, b)
    <3>1. /\ b \notin delivered[r] /\ b \in delivered'[r] /\ b0 \in delivered[r]
          /\ b \in proposed \/ creator[b] \in Faulty
      BY <2>3 DEF pm_deliver_blk, on_deliver_blk, deliver, PMInv, PMTypeOK, TypeOK,
                  DeliveredInv
    <3>2. creator[b] = r /\ b \in proposed
      BY <1>2, <3>1 DEF Alone, Correct
    <3>. QED BY <3>1, <3>2 DEF PMInv, DeliveredInv
  <2>4. CASE r = s /\ (pm_receive_proposal(s, b) \/ pm_receive_first(s, b))
    <3>1. b \in delivered'[r] /\ b # b0 /\ creator[b] # r
      BY <2>4 DEF pm_receive_proposal, pm_receive_first, on_receive_proposal
    <3>. QED BY <1>2, <3>1 DEF Alone
  <2>5. CASE r = s /\ pm_receive_last(s)
    <3>1. UNCHANGED <<delivered, vheight, status>>
      BY <2>5 DEF pm_receive_last, core_vars
    <3>2. /\ delivered[r] = chain[hqc_tail[r]] /\ vheight[r] <= height[hqc_tail[r]]
          /\ status[r] # "stale"
      BY <1>2, <3>1 DEF SoleInv, Alone
    <3>3. ~(height[receiving[r]] > height[hqc_tail[r]])
      <4>1. receiving[r] \in chain[hqc_tail[r]] /\ hqc_tail[r] \in Block
            /\ receiving[r] \in Block
        BY <3>2 DEF PMInv, ReceivingInv, PMTypeOK
      <4>. QED BY <4>1, ChainHeight, TreeType
    <3>4. hqc_tail'[r] = hqc_tail[r]
      BY <2>5, <3>3 DEF pm_receive_last, reg_receive_proposal, PMInv, PMTypeOK
    <3>. QED BY <3>1, <3>2, <3>4
  <2>6. ASSUME r = s, NEW v \in Replica, pm_receive_vote(s, v, b) PROVE Goal
    <3>1. UNCHANGED <<delivered, vheight, status>>
      BY <2>6 DEF pm_receive_vote, on_receive_vote
    <3>2. /\ delivered[r] = chain[hqc_tail[r]] /\ vheight[r] <= height[hqc_tail[r]]
          /\ status[r] # "stale"
      BY <1>2, <3>1 DEF SoleInv, Alone
    <3>3. PICK t \in reg_hqc_update(r) : hqc_tail' = [hqc_tail EXCEPT ![r] = t]
      BY <2>6 DEF pm_receive_vote
    <3>4. hqc'[r] \in delivered[r]
      BY <3>1 DEF PMInv, DeliveredInv
    <3>5. t = hqc_tail[r]
      BY <3>2, <3>3, <3>4, SoleTailStays
    <3>6. hqc_tail'[r] = hqc_tail[r]
      BY <3>3, <3>5 DEF PMInv, PMTypeOK
    <3>. QED BY <3>1, <3>2, <3>6
  <2>. QED BY <1>2, <2>1, <2>2, <2>3, <2>4, <2>5, <2>6 DEF PMStepOf
<1>3. CASE PMNext
  <2>1. b0 \in Block
    BY TreeType
  <2>2. \E s \in Correct, b \in Block : PMStepOf(s, b)
    BY <1>3, <2>1 DEF PMNext, PMStepOf
  <2>. QED BY <1>2, <2>2 DEF SoleInv
<1>. QED BY <1>1, <1>3

(* The chain of a replica on its own is one, and it votes on its end.      *)
THEOREM PMSoleInv == PMSpec => []SoleInv
<1>1. PMInit => SoleInv
  BY TreeType DEF PMInit, Init, SoleInv, Alone
<1>2. PMInv /\ PMInv' /\ CoreInv /\ SoleInv /\ [PMNext]_pm_vars => SoleInv'
  BY SoleStep
<1>. QED BY <1>1, <1>2, PMSpecInv, PMCoreInv, PTL DEF PMSpec

(* As long as a replica has received blocks of nobody else the exception   *)
(* "new block should be higher than vheight" is unreachable.               *)
THEOREM PMSoleProposerNeverStale == PMSpec => []SoleProposerNeverStale
<1>1. SoleInv => SoleProposerNeverStale
  BY DEF SoleInv, Alone, SoleProposerNeverStale
<1>. QED BY <1>1, PMSoleInv, PTL
=============================================================================
