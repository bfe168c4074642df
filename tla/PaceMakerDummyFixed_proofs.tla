---------------------- MODULE PaceMakerDummyFixed_proofs ----------------------
(***************************************************************************)
(* The fixed proposer keeps what is proved of PMHighTail.  No beat is lost,*)
(* whatever faulty replicas vote for or propose; and up to the first block *)
(* that a faulty replica gets delivered each block certifies its parent,   *)
(* and the whole implements BeatChain.                                     *)
(***************************************************************************)
EXTENDS PaceMakerDummyFixed, HotStuffCore_proofs

(* A step of the fixed proposer is a step of PMHighTail, or leaves it.     *)
LEMMA FixedStep ==
    ASSUME [FixedNext]_fixed_vars
    PROVE  [PMNext]_pm_vars
<1>1. CASE UNCHANGED fixed_vars
  BY <1>1 DEF fixed_vars
<1>2. CASE beat
  BY <1>2 DEF beat
<1>3. CASE receive_last
  BY <1>3, LeaderAssumption DEF receive_last, PMNext
<1>4. ASSUME NEW b \in Block, propose(b) \/ receive_first(b)
      PROVE  PMNext
  BY <1>4, LeaderAssumption DEF propose, receive_first, PMNext
<1>5. ASSUME NEW b \in Block, NEW r \in Correct,
             \/ deliver_blk(r, b) \/ receive_proposal(r, b)
             \/ \E v \in Replica : receive_vote(r, v, b)
      PROVE  PMNext
  BY <1>5 DEF receive_vote, deliver_blk, receive_proposal, PMNext
<1>. QED BY <1>1, <1>2, <1>3, <1>4, <1>5 DEF FixedNext

(* The default pacemaker implements PMHighTail with one proposer.          *)
THEOREM FixedRefinesPM == FixedSpec => PMSpec
<1>1. FixedInit => PMInit
  BY DEF FixedInit
<1>2. [FixedNext]_fixed_vars => [PMNext]_pm_vars
  BY FixedStep
<1>. QED BY <1>1, <1>2, PTL DEF FixedSpec, PMSpec

(* Under the default pacemaker, which has the leader vote for and count    *)
(* votes of faulty replicas' blocks as well, the correct replicas execute  *)
(* prefixes of one growing chain as long as QCs keep to their branches.    *)
THEOREM FixedLedger == FixedSpec => LedgerSpec
  BY FixedRefinesPM, PMLedger, PTL

-----------------------------------------------------------------------------
(* Of the correct replicas only the leader creates blocks.                 *)
Owners ==
    /\ \A b \in proposed : creator[b] = Leader
    /\ \A r \in Correct : \A b \in delivered[r] \ {b0} : creator[b] \in Faulty \cup {Leader}

(* The proposer stands on its last block; what waits, waits for the QC of  *)
(* this block; and a beat that is due has it.                              *)
WaitInv ==
    /\ status[Leader] = "running"
    /\ last_proposed = hqc_tail[Leader]
    /\ last_proposed \in proposed \cup {b0}
    /\ qc_waiting \subseteq {last_proposed}
    /\ due => has_qc(last_proposed)

FixedInv ==
    /\ BeatsAccounted /\ IsFiniteSet(proposed) /\ Owners
    /\ ProposalsCertifyParent
    /\ Foreign \/ WaitInv

(* What is known of the layers below.                                      *)
BaseInv == PMInv /\ CoreInv /\ SoleInv /\ CountInv

LEMMA LeaderAlone ==
    ASSUME Owners, ~Foreign
    PROVE  Leader \in Correct /\ Alone(Leader)
  BY LeaderAssumption DEF Owners, Foreign, Alone

(* Nothing is undelivered, and so Foreign once is Foreign ever after.      *)
LEMMA ForeignStays ==
    ASSUME PMInv, [FixedNext]_fixed_vars
    PROVE  /\ \A r \in Correct : delivered[r] \subseteq delivered'[r]
           /\ Foreign => Foreign'
<1>1. [Next]_core_vars
  BY FixedStep, PMStep
<1>2. delivered \in [Correct -> SUBSET Block]
  BY DEF PMInv, PMTypeOK, TypeOK
<1>3. CASE UNCHANGED core_vars
  BY <1>3 DEF core_vars, Foreign
<1>4. ASSUME NEW r \in Correct, NEW b \in Block,
             \/ on_propose(r, b) \/ on_deliver_blk(r, b) \/ on_receive_proposal(r, b)
             \/ \E v \in Replica : on_receive_vote(r, v, b)
      PROVE  \A s \in Correct : delivered[s] \subseteq delivered'[s]
  BY <1>2, <1>4
     DEF on_propose, on_deliver_blk, deliver, on_receive_proposal, on_receive_vote
<1>5. CASE Next
  BY <1>4, <1>5 DEF Next, Foreign
<1>. QED BY <1>1, <1>3, <1>5

LEMMA OwnersDeliver ==
    ASSUME PMInv, Owners, NEW r \in Correct, NEW b \in Block, deliver(r, b),
           creator[b] \in Faulty \cup {Leader},
           proposed' \subseteq proposed \cup {b}, creator[b] = Leader \/ UNCHANGED proposed
    PROVE  Owners'
<1>1. \A s \in Correct : delivered'[s] \subseteq delivered[s] \cup {b}
  BY DEF deliver, PMInv, PMTypeOK, TypeOK
<1>2. \A x \in proposed' : creator[x] = Leader
  BY DEF Owners
<1>. QED BY <1>1, <1>2 DEF Owners

LEMMA OwnersStep ==
    ASSUME PMInv, Owners, [FixedNext]_fixed_vars
    PROVE  Owners'
<1>1. CASE UNCHANGED <<proposed, delivered>>
  BY <1>1 DEF Owners
<1>2. ASSUME NEW b \in Block, propose(b) PROVE Owners'
  <2>1. /\ deliver(Leader, b) /\ creator[b] = Leader
        /\ proposed' = proposed \/ proposed' = proposed \cup {b}
    BY <1>2 DEF propose, pm_propose, on_propose
  <2>. QED BY <2>1, LeaderAssumption, OwnersDeliver
<1>3. ASSUME NEW r \in Correct, NEW b \in Block, deliver_blk(r, b) PROVE Owners'
  <2>1. /\ deliver(r, b) /\ UNCHANGED proposed
        /\ b \in proposed \/ creator[b] \in Faulty
    BY <1>3 DEF deliver_blk, pm_deliver_blk, on_deliver_blk
  <2>2. creator[b] \in Faulty \cup {Leader}
    BY <2>1 DEF Owners
  <2>. QED BY <2>1, <2>2, OwnersDeliver
<1>4. ASSUME NEW r \in Correct, NEW b \in Block,
             \/ receive_proposal(r, b) \/ receive_first(b)
             \/ \E v \in Replica : receive_vote(r, v, b)
      PROVE  UNCHANGED <<proposed, delivered>>
  BY <1>4 DEF receive_proposal, pm_receive_proposal, receive_first, pm_receive_first,
     on_receive_proposal, receive_vote, pm_receive_vote, on_receive_vote
<1>5. CASE beat \/ receive_last \/ UNCHANGED fixed_vars
  BY <1>1, <1>5 DEF beat, receive_last, pm_receive_last, fixed_vars, pm_vars, core_vars
<1>6. Leader \in Correct
  BY LeaderAssumption
<1>. QED BY <1>1, <1>2, <1>3, <1>4, <1>5, <1>6 DEF FixedNext

LEMMA FixedInitInv == FixedInit => FixedInv
<1> SUFFICES ASSUME FixedInit PROVE FixedInv
  OBVIOUS
<1>1. PMInv /\ Leader \in Correct /\ proposed = {} /\ MaxBeats \in Nat
  BY PMInitInv, LeaderAssumption DEF FixedInit, PMInit, Init
<1>2. IsFiniteSet(proposed) /\ Cardinality(proposed) = 0
  BY <1>1, FS_EmptySet
<1>3. FixedTypeOK
  <2>1. PMTypeOK /\ b0 \in Block
    BY <1>1, TreeType DEF PMInv
  <2>2. locked = FALSE /\ due = FALSE /\ last_proposed = b0 /\ qc_waiting = {}
        /\ beats = 0 /\ pending_beats = 0
    BY DEF FixedInit
  <2>3. beats \in 0 .. MaxBeats /\ pending_beats \in 0 .. MaxBeats
    BY <1>1, <2>2
  <2>4. locked \in BOOLEAN /\ due \in BOOLEAN /\ last_proposed \in Block
        /\ qc_waiting \in SUBSET Block
    BY <2>1, <2>2
  <2>. QED BY <2>1, <2>3, <2>4 DEF FixedTypeOK
<1>4. BeatsAccounted
  BY <1>2, <1>3 DEF FixedInit, BeatsAccounted
<1>5. WaitInv
  BY <1>1, <1>2 DEF FixedInit, PMInit, Init, WaitInv
<1>6. Owners
  BY <1>1 DEF FixedInit, PMInit, Init, Owners
<1>. QED BY <1>1, <1>2, <1>4, <1>5, <1>6 DEF FixedInv, ProposalsCertifyParent

(* The types of the counters follow from their sum.                        *)
LEMMA BeatsBounded ==
    ASSUME FixedInv
    PROVE  /\ Cardinality(proposed) \in Nat /\ beats \in Nat /\ pending_beats \in Nat
           /\ beats <= MaxBeats /\ MaxBeats \in Nat
           /\ beats = Cardinality(proposed) + pending_beats + (IF locked THEN 1 ELSE 0)
  BY FS_CardinalityType, LeaderAssumption
     DEF FixedInv, BeatsAccounted, FixedTypeOK

LEMMA BeatInv ==
    ASSUME FixedInv, beat, PMTypeOK'
    PROVE  FixedInv'
<1>1. UNCHANGED <<proposed, delivered, status, hqc_tail, last_proposed, voted>> /\ ~due
  BY DEF beat, idle, pm_vars, core_vars
<1>2. beats' = beats + 1 /\ beats' \in 0 .. MaxBeats
  BY BeatsBounded DEF beat
<1>3. (Foreign <=> Foreign') /\ Owners' /\ ProposalsCertifyParent' /\ IsFiniteSet(proposed')
  BY <1>1 DEF FixedInv, Foreign, Owners, ProposalsCertifyParent
<1>4. CASE locked
  <2>1. pending_beats' = pending_beats + 1 /\ UNCHANGED <<locked, due, qc_waiting>>
    BY <1>4 DEF beat
  <2>2. beats' = Cardinality(proposed) + pending_beats' + 1
    BY <1>2, <1>4, <2>1, BeatsBounded
  <2>3. pending_beats' \in 0 .. MaxBeats
    BY <1>2, <2>1, <2>2, BeatsBounded
  <2>4. FixedTypeOK'
    BY <1>1, <1>2, <2>1, <2>3 DEF FixedInv, BeatsAccounted, FixedTypeOK
  <2>5. BeatsAccounted'
    BY <1>1, <1>4, <2>1, <2>2, <2>4 DEF FixedInv, BeatsAccounted
  <2>6. Foreign' \/ WaitInv'
    BY <1>1, <1>3, <2>1 DEF FixedInv, WaitInv, has_qc
  <2>. QED BY <1>3, <2>5, <2>6 DEF FixedInv
<1>5. CASE ~locked
  <2>1. /\ locked' = TRUE /\ due' = has_qc(last_proposed)
        /\ qc_waiting' = (IF due' THEN {} ELSE {last_proposed})
        /\ UNCHANGED pending_beats
    BY <1>5 DEF beat
  <2>2. pending_beats = 0
    BY <1>5, BeatsBounded DEF FixedInv, BeatsAccounted
  <2>3. beats' = Cardinality(proposed) + pending_beats' + 1
    BY <1>2, <1>5, <2>1, BeatsBounded
  <2>4. due' \in BOOLEAN /\ qc_waiting' \subseteq {last_proposed}
        /\ (due' \/ qc_waiting' # {})
    BY <2>1 DEF has_qc
  <2>5. FixedTypeOK'
    BY <1>1, <1>2, <2>1, <2>4 DEF FixedInv, BeatsAccounted, FixedTypeOK
  <2>6. BeatsAccounted'
    BY <1>1, <2>1, <2>2, <2>3, <2>4, <2>5 DEF BeatsAccounted
  <2>7. Foreign' \/ WaitInv'
    BY <1>1, <1>3, <2>1, <2>4 DEF FixedInv, WaitInv, has_qc
  <2>. QED BY <1>3, <2>6, <2>7 DEF FixedInv
<1>. QED BY <1>4, <1>5

(* A beat that is due proposes above the QC of the last block.             *)
LEMMA DueHasHqc ==
    ASSUME BaseInv, FixedInv, ~Foreign, due
    PROVE  hqc[Leader] = hqc_tail[Leader]
<1>1. /\ Leader \in Correct /\ hqc_tail[Leader] \in Block /\ hqc[Leader] \in Block
      /\ hqc[Leader] \in chain[hqc_tail[Leader]]
      /\ \A x \in Block : height[x] \in Nat
  BY LeaderAssumption, TreeType
     DEF BaseInv, PMInv, PMTypeOK, TypeOK, TailExtendsHqc, Extends
<1>2. CASE hqc_tail[Leader] = b0
  BY <1>1, <1>2, TreeType
<1>3. CASE hqc_tail[Leader] # b0
  <2>1. Cardinality(voted[Leader][hqc_tail[Leader]]) >= nmajority
    BY <1>3 DEF FixedInv, WaitInv, has_qc
  <2>2. height[hqc[Leader]] >= height[hqc_tail[Leader]]
    BY <1>1, <1>3, <2>1 DEF BaseInv, CountInv
  <2>. QED BY <1>1, <2>2, ChainHeight
<1>. QED BY <1>2, <1>3

(* When the proposal throws, the beat stays where it is.                   *)
LEMMA ThrownFixedInv ==
    ASSUME BaseInv, BaseInv', FixedInv, Owners', Foreign => Foreign',
           NEW b \in Block, propose(b), status'[Leader] # "running"
    PROVE  FixedInv'
<1>1. /\ pm_propose(Leader, b) /\ due' = FALSE
      /\ UNCHANGED <<beats, last_proposed, locked, pending_beats, qc_waiting>>
      /\ Leader \in Correct
  BY LeaderAssumption DEF propose
<1>2. UNCHANGED proposed
  <2>1. status[Leader] = "running" /\ status \in [Correct -> {"running", "breached", "stale"}]
    BY <1>1 DEF pm_propose, on_propose, BaseInv, PMInv, PMTypeOK, TypeOK
  <2>. QED BY <1>1, <2>1 DEF pm_propose, on_propose
<1>3. Foreign
  <2>1. SUFFICES ASSUME ~Foreign PROVE FALSE
    OBVIOUS
  <2>2. status'[Leader] = status[Leader]
    BY <1>1, <2>1, LeaderAlone, SolePropose DEF BaseInv, FixedInv
  <2>. QED BY <2>1, <2>2 DEF FixedInv, WaitInv
<1>4. FixedTypeOK'
  BY <1>1 DEF FixedInv, BeatsAccounted, FixedTypeOK, BaseInv, PMInv
<1>5. BeatsAccounted'
  BY <1>1, <1>2, <1>4 DEF FixedInv, BeatsAccounted
<1>. QED BY <1>2, <1>3, <1>5 DEF FixedInv, ProposalsCertifyParent

LEMMA ProposeFixedInv ==
    ASSUME BaseInv, BaseInv', FixedInv, Owners', Foreign => Foreign',
           NEW b \in Block, propose(b), status'[Leader] = "running"
    PROVE  /\ FixedInv' /\ proposed' = proposed \cup {b} /\ b \notin proposed
           /\ Cardinality(proposed') = Cardinality(proposed) + 1
           /\ ~Foreign => /\ qc_ref[b] = parent[b] /\ parent[b] = hqc_tail[Leader]
                          /\ hqc_tail'[Leader] = b
<1>1. /\ due /\ pm_propose(Leader, b) /\ due' = FALSE /\ UNCHANGED beats
      /\ Leader \in Correct /\ status[Leader] = "running"
  BY LeaderAssumption DEF propose, pm_propose, on_propose
<1>2. /\ proposed' = proposed \cup {b} /\ hqc_tail'[Leader] = b
  <2>1. /\ status \in [Correct -> {"running", "breached", "stale"}]
        /\ hqc_tail \in [Correct -> Block]
    BY DEF BaseInv, PMInv, PMTypeOK, TypeOK
  <2>2. proposed' = proposed \cup {b}
    BY <1>1, <2>1 DEF pm_propose, on_propose
  <2>3. hqc_tail'[Leader] = b
    BY <1>1, <2>1 DEF pm_propose
  <2>. QED BY <2>2, <2>3
<1>3. b \notin proposed /\ (~Foreign => parent[b] = hqc_tail[Leader] /\ qc_ref[b] = parent[b])
  <2>1. b \notin delivered[Leader] /\ creator[b] = Leader /\ qc_ref[b] = hqc[Leader]
        /\ parent[b] = hqc_tail[Leader]
    BY <1>1 DEF pm_propose, on_propose
  <2>2. b \notin proposed
    BY <2>1 DEF BaseInv, PMInv, DeliveredInv
  <2>. QED BY <1>1, <2>1, <2>2, DueHasHqc
<1>4. IsFiniteSet(proposed') /\ Cardinality(proposed') = Cardinality(proposed) + 1
  BY <1>2, <1>3, FS_AddElement DEF FixedInv
<1>5. /\ last_proposed' = b
      /\ locked' = (pending_beats > 0)
      /\ pending_beats' = (IF locked' THEN pending_beats - 1 ELSE 0)
      /\ qc_waiting' = (IF locked' THEN {b} ELSE {})
  BY DEF propose
<1>6. locked
  BY <1>1 DEF FixedInv, BeatsAccounted
<1>7. /\ pending_beats' \in 0 .. MaxBeats
      /\ beats' = Cardinality(proposed') + pending_beats' + (IF locked' THEN 1 ELSE 0)
      /\ locked' \in BOOLEAN
  <2>1. /\ Cardinality(proposed) \in Nat /\ beats \in Nat /\ pending_beats \in Nat
        /\ beats <= MaxBeats /\ MaxBeats \in Nat
        /\ beats = Cardinality(proposed) + pending_beats + 1
    BY <1>6, BeatsBounded
  <2>2. CASE pending_beats > 0
    <3>1. locked' = TRUE /\ pending_beats' = pending_beats - 1
      BY <1>5, <2>2
    <3>. QED BY <1>1, <1>4, <2>1, <2>2, <3>1
  <2>3. CASE pending_beats = 0
    <3>1. ~(pending_beats > 0)
      BY <2>3
    <3>2. ~locked'
      BY <1>5, <3>1, Zenon
    <3>3. locked' \in BOOLEAN
      <4>1. (pending_beats > 0) \in BOOLEAN
        BY <2>1
      <4>. QED BY <1>5, <4>1, Zenon
    <3>4. pending_beats' = 0
      BY <1>5, <3>2
    <3>5. (IF locked' THEN 1 ELSE 0) = 0
      BY <3>2, Zenon
    <3>6. beats' = Cardinality(proposed') + pending_beats' + 0
      BY <1>1, <1>4, <2>1, <2>3, <3>4
    <3>7. pending_beats' \in 0 .. MaxBeats
      BY <2>1, <3>4
    <3>. QED BY <3>3, <3>5, <3>6, <3>7, Zenon
  <2>. QED BY <2>1, <2>2, <2>3
<1>8. FixedTypeOK'
  BY <1>1, <1>5, <1>7
     DEF FixedInv, BeatsAccounted, FixedTypeOK, BaseInv, PMInv
<1>9. BeatsAccounted'
  <2>1. locked' <=> qc_waiting' # {}
    BY <1>5, <1>7
  <2>2. pending_beats' > 0 => locked'
    BY <1>5
  <2>. QED BY <1>1, <1>7, <1>8, <2>1, <2>2 DEF BeatsAccounted
<1>10. WaitInv'
  BY <1>1, <1>2, <1>4, <1>5 DEF WaitInv
<1>11. ProposalsCertifyParent'
  BY <1>2, <1>3 DEF FixedInv, ProposalsCertifyParent
<1>. QED BY <1>2, <1>3, <1>4, <1>9, <1>10, <1>11 DEF FixedInv

(* What the other handlers leave to show, when they leave the queue alone. *)
LEMMA WaitKept ==
    ASSUME FixedInv, PMTypeOK', Owners', Foreign => Foreign',
           UNCHANGED <<proposed, beats, pending_beats, locked, last_proposed>>,
           due' \in BOOLEAN, qc_waiting' \subseteq qc_waiting,
           status'[Leader] = "running" =>
             /\ status[Leader] = "running"
             /\ (due \/ qc_waiting # {}) <=> (due' \/ qc_waiting' # {}),
           ~Foreign => /\ status'[Leader] = status[Leader]
                       /\ hqc_tail'[Leader] = hqc_tail[Leader]
                       /\ due' => has_qc(last_proposed)'
    PROVE  FixedInv'
<1>1. FixedTypeOK'
  BY DEF FixedInv, BeatsAccounted, FixedTypeOK
<1>2. BeatsAccounted'
  BY <1>1 DEF FixedInv, BeatsAccounted
<1>3. Foreign' \/ WaitInv'
  BY DEF FixedInv, WaitInv
<1>4. ProposalsCertifyParent' /\ IsFiniteSet(proposed')
  BY DEF FixedInv, ProposalsCertifyParent
<1>. QED BY <1>2, <1>3, <1>4 DEF FixedInv

LEMMA VoteFixedInv ==
    ASSUME BaseInv, BaseInv', FixedInv, Owners', Foreign => Foreign',
           NEW r \in Correct, NEW v \in Replica, NEW b \in Block, receive_vote(r, v, b)
    PROVE  FixedInv'
<1>1. /\ pm_receive_vote(r, v, b) /\ (r = Leader => ~due)
      /\ due' = (due \/ resolves(r, b))
      /\ qc_waiting' = (IF resolves(r, b) THEN {} ELSE qc_waiting)
      /\ UNCHANGED <<beats, pending_beats, locked, last_proposed>>
  BY DEF receive_vote
<1>2. /\ UNCHANGED <<proposed, delivered, status>>
      /\ v \notin voted[r][b] /\ voted' = [voted EXCEPT ![r][b] = @ \cup {v}]
  BY <1>1 DEF pm_receive_vote, on_receive_vote
<1>3. /\ Leader \in Correct /\ TypeOK /\ PMTypeOK' /\ PMInv /\ PMInv' /\ SoleInv
      /\ voted \in [Correct -> [Block -> SUBSET Replica]]
      /\ hqc_tail \in [Correct -> Block]
  BY LeaderAssumption DEF BaseInv, PMInv, PMTypeOK, TypeOK
<1>4. /\ due \in BOOLEAN /\ resolves(r, b) \in BOOLEAN
      /\ resolves(r, b) => r = Leader /\ completes(r, b) /\ b \in qc_waiting
  BY DEF resolves, completes, FixedInv, BeatsAccounted, FixedTypeOK
<1>5. /\ due' \in BOOLEAN /\ qc_waiting' \subseteq qc_waiting
      /\ (due \/ qc_waiting # {}) <=> (due' \/ qc_waiting' # {})
  BY <1>1, <1>4
<1>6. ASSUME ~Foreign PROVE hqc_tail'[Leader] = hqc_tail[Leader]
  <2>1. CASE r # Leader
    BY <2>1, <1>1, <1>3, OthersKept DEF PMStepOf
  <2>2. CASE r = Leader
    <3>1. PICK t \in reg_hqc_update(Leader) : hqc_tail' = [hqc_tail EXCEPT ![Leader] = t]
      BY <2>2, <1>1 DEF pm_receive_vote
    <3>2. delivered[Leader] = chain[hqc_tail[Leader]]
      BY <1>6, <1>3, LeaderAlone DEF SoleInv, FixedInv
    <3>3. hqc'[Leader] \in delivered[Leader]
      BY <1>2, <1>3 DEF PMInv, DeliveredInv
    <3>4. t = hqc_tail[Leader]
      BY <1>3, <3>1, <3>2, <3>3, SoleTailStays
    <3>. QED BY <1>3, <3>1, <3>4
  <2>. QED BY <2>1, <2>2
<1>7. ASSUME ~Foreign, due' PROVE has_qc(last_proposed)'
  <2>1. WaitInv
    BY <1>7 DEF FixedInv
  <2>2. CASE resolves(r, b)
    <3>1. r = Leader /\ b = last_proposed /\ completes(r, b)
      BY <1>4, <2>1, <2>2 DEF WaitInv
    <3>2. voted'[r][b] = voted[r][b] \cup {v}
      BY <1>2, <1>3
    <3>3. Cardinality(voted'[r][b]) = Cardinality(voted[r][b]) + 1
      BY <1>2, <1>3, <3>2, VotedFinite, FS_AddElement
    <3>4. Cardinality(voted'[r][b]) >= nmajority
      BY <3>1, <3>3, QuorumOfTwo DEF completes
    <3>. QED BY <1>1, <3>1, <3>4 DEF has_qc
  <2>3. CASE ~resolves(r, b)
    <3>1. due /\ r # Leader
      BY <1>1, <1>4, <1>7, <2>3
    <3>2. voted'[Leader] = voted[Leader]
      BY <1>2, <1>3, <3>1
    <3>. QED BY <1>1, <2>1, <3>1, <3>2 DEF has_qc, WaitInv
  <2>. QED BY <2>2, <2>3
<1>. QED BY <1>1, <1>2, <1>3, <1>5, <1>6, <1>7, WaitKept

(* Without foreign blocks the leader has none to receive.                  *)
LEMMA LeaderReceivesNone ==
    ASSUME Owners, NEW b \in Block, on_receive_proposal(Leader, b)
    PROVE  Foreign
<1>1. b \in delivered[Leader] \ {b0} /\ creator[b] # Leader /\ Leader \in Correct
  BY LeaderAssumption DEF on_receive_proposal
<1>. QED BY <1>1 DEF Owners, Foreign

LEMMA MessageFixedInv ==
    ASSUME BaseInv, BaseInv', FixedInv, Owners', Foreign => Foreign',
           NEW r \in Correct, NEW b \in Block, deliver_blk(r, b) \/ receive_proposal(r, b)
    PROVE  FixedInv'
<1>1. /\ UNCHANGED wait_vars
      /\ pm_deliver_blk(r, b) \/ pm_receive_proposal(r, b)
  BY DEF deliver_blk, receive_proposal
<1>2. UNCHANGED <<proposed, voted>> /\ Leader \in Correct /\ PMTypeOK' /\ PMInv
  BY <1>1, LeaderAssumption DEF pm_deliver_blk, on_deliver_blk, pm_receive_proposal,
                                on_receive_proposal, BaseInv, PMInv
<1>3. status'[Leader] = "running" => status[Leader] = "running"
  <2>1. CASE r # Leader
    BY <1>1, <1>2, <2>1, OthersKept DEF PMStepOf
  <2>2. CASE r = Leader
    BY <1>1, <2>2 DEF pm_deliver_blk, on_deliver_blk, pm_receive_proposal,
                      on_receive_proposal
  <2>. QED BY <2>1, <2>2
<1>4. ASSUME ~Foreign
      PROVE  status'[Leader] = status[Leader] /\ hqc_tail'[Leader] = hqc_tail[Leader]
  <2>1. CASE r # Leader
    BY <1>1, <1>2, <2>1, OthersKept DEF PMStepOf
  <2>2. CASE pm_deliver_blk(r, b)
    BY <2>2 DEF pm_deliver_blk, on_deliver_blk
  <2>3. CASE r = Leader /\ pm_receive_proposal(r, b)
    BY <1>4, <2>3, LeaderReceivesNone DEF pm_receive_proposal, FixedInv
  <2>. QED BY <1>1, <2>1, <2>2, <2>3
<1>5. /\ UNCHANGED <<beats, pending_beats, locked, last_proposed, due, qc_waiting>>
      /\ due \in BOOLEAN
      /\ ~Foreign /\ due => has_qc(last_proposed)
  BY <1>1 DEF wait_vars, FixedInv, BeatsAccounted, FixedTypeOK, WaitInv
<1>6. ~Foreign /\ due' => has_qc(last_proposed)'
  BY <1>2, <1>5 DEF has_qc
<1>. QED BY <1>2, <1>3, <1>4, <1>5, <1>6, WaitKept

(* The beat that a proposal of another resolves is due.                    *)
LEMMA FirstFixedInv ==
    ASSUME BaseInv, BaseInv', FixedInv, Owners', Foreign => Foreign',
           NEW b \in Block, receive_first(b)
    PROVE  FixedInv'
<1>1. /\ on_receive_proposal(Leader, b) /\ qc_waiting # {}
      /\ due' = (status'[Leader] = "running")
      /\ qc_waiting' = (IF due' THEN {} ELSE qc_waiting)
      /\ UNCHANGED <<beats, pending_beats, locked, last_proposed>>
  BY DEF receive_first, pm_receive_first
<1>2. Foreign
  BY <1>1, LeaderReceivesNone DEF FixedInv
<1>3. UNCHANGED proposed /\ status[Leader] = "running" /\ PMTypeOK'
  BY <1>1 DEF on_receive_proposal, BaseInv, PMInv
<1>4. /\ due' \in BOOLEAN /\ qc_waiting' \subseteq qc_waiting
      /\ status'[Leader] = "running" =>
           ((due \/ qc_waiting # {}) <=> (due' \/ qc_waiting' # {}))
  BY <1>1
<1>. QED BY <1>1, <1>2, <1>3, <1>4, WaitKept

LEMMA LastFixedInv ==
    ASSUME BaseInv, BaseInv', FixedInv, Owners', Foreign => Foreign', receive_last
    PROVE  FixedInv'
<1>1. /\ pm_receive_last(Leader) /\ UNCHANGED <<proposed, status, voted, delivered, hqc>>
      /\ UNCHANGED <<beats, pending_beats, locked, last_proposed, due, qc_waiting>>
      /\ Leader \in Correct /\ PMTypeOK' /\ PMInv /\ SoleInv
      /\ due \in BOOLEAN
  BY LeaderAssumption DEF receive_last, pm_receive_last, core_vars, wait_vars, BaseInv, PMInv,
                          FixedInv, BeatsAccounted, FixedTypeOK
<1>2. ASSUME ~Foreign PROVE hqc_tail'[Leader] = hqc_tail[Leader]
  <2>1. delivered[Leader] = chain[hqc_tail[Leader]]
    BY <1>1, <1>2, LeaderAlone DEF SoleInv, FixedInv
  <2>2. /\ receiving[Leader] \in chain[hqc_tail[Leader]] /\ hqc_tail[Leader] \in Block
        /\ receiving[Leader] \in Block
    BY <1>1, <2>1 DEF PMInv, ReceivingInv, PMTypeOK
  <2>3. ~(height[receiving[Leader]] > height[hqc_tail[Leader]])
    BY <2>2, ChainHeight, TreeType
  <2>. QED BY <1>1, <2>3 DEF pm_receive_last, reg_receive_proposal, PMInv, PMTypeOK
<1>3. ~Foreign /\ due' => has_qc(last_proposed)'
  BY <1>1 DEF has_qc, FixedInv, WaitInv
<1>. QED BY <1>1, <1>2, <1>3, WaitKept

LEMMA FixedNextInv ==
    ASSUME BaseInv, BaseInv', FixedInv, [FixedNext]_fixed_vars
    PROVE  FixedInv'
<1>1. CASE UNCHANGED fixed_vars
  BY <1>1 DEF fixed_vars, wait_vars, pm_vars, core_vars, FixedInv, BeatsAccounted,
              FixedTypeOK, PMTypeOK, TypeOK, Owners, WaitInv, ProposalsCertifyParent,
              Foreign, has_qc
<1>2. CASE beat
  BY <1>2, BeatInv DEF BaseInv, PMInv
<1>3. Owners' /\ (Foreign => Foreign')
  BY OwnersStep, ForeignStays DEF BaseInv, FixedInv
<1>4. ASSUME NEW b \in Block, propose(b) PROVE FixedInv'
  BY <1>3, <1>4, ProposeFixedInv, ThrownFixedInv
<1>5. CASE FixedNext
  BY <1>2, <1>3, <1>4, <1>5, VoteFixedInv, MessageFixedInv, FirstFixedInv, LastFixedInv
     DEF FixedNext
<1>. QED BY <1>1, <1>5

LEMMA FixedBase == FixedSpec => []BaseInv
<1>1. PMInv /\ CoreInv /\ SoleInv /\ CountInv => BaseInv
  BY DEF BaseInv
<1>. QED BY <1>1, FixedRefinesPM, PMSpecInv, PMSoleInv, PMCoreInv, PTL

(* The invariant of the fixed proposer.                                    *)
THEOREM FixedSpecInv == FixedSpec => []FixedInv
<1>1. BaseInv /\ BaseInv' /\ FixedInv /\ [FixedNext]_fixed_vars => FixedInv'
  BY FixedNextInv
<1>. QED BY <1>1, FixedInitInv, FixedBase, PTL DEF FixedSpec

(* No beat is lost or taken twice, for any number of them, with the blocks *)
(* of faulty replicas as without.                                          *)
THEOREM FixedBeatsAccounted == FixedSpec => []BeatsAccounted
<1>1. FixedInv => BeatsAccounted
  BY DEF FixedInv
<1>. QED BY <1>1, FixedSpecInv, PTL

(* Up to the first foreign block each block the leader proposes certifies  *)
(* its parent.                                                             *)
THEOREM FixedProposalsCertifyParent == FixedSpec => []ProposalsCertifyParent
<1>1. FixedInv => ProposalsCertifyParent
  BY DEF FixedInv
<1>. QED BY <1>1, FixedSpecInv, PTL

-----------------------------------------------------------------------------
(* Without foreign blocks the leader's are one chain, nobody has others,   *)
(* and the leader has executed all but the last three.                     *)
BlocksInv ==
    /\ proposed = chain[hqc_tail[Leader]] \ {b0}
    /\ Cardinality(proposed) = height[hqc_tail[Leader]]
    /\ \A r \in Correct : delivered[r] \subseteq proposed \cup {b0}
    /\ height[b_exec[Leader]] =
         IF Cardinality(proposed) > 3 THEN Cardinality(proposed) - 3 ELSE 0

(* Where each block certifies its parent, blk is three below.              *)
LEMMA ThreeBelow ==
    ASSUME NEW b \in Block \ {b0},
           \A x \in chain[b] \ {b0} : qc_ref[x] = parent[x]
    PROVE  /\ height[b] > 3 => /\ direct(blk2(b)) /\ height[blk2(b)] = height[b] - 1
                               /\ height[blk1(b)] = height[b] - 2
                               /\ height[blk(b)] = height[b] - 3
                               /\ {blk2(b), blk1(b), blk(b)} \subseteq chain[b]
           /\ height[b] <= 3 => blk(b) = b0
<1>1. \A x \in chain[b] \ {b0} : /\ height[qc_ref[x]] = height[x] - 1
                                 /\ height[x] \in Nat \ {0} /\ qc_ref[x] \in chain[b]
  <2>1. SUFFICES ASSUME NEW x \in chain[b] \ {b0}
                 PROVE  /\ height[qc_ref[x]] = height[x] - 1
                        /\ height[x] \in Nat \ {0} /\ qc_ref[x] \in chain[b]
    OBVIOUS
  <2>2. x \in Block \ {b0} /\ qc_ref[x] \in Block /\ parent[x] \in Block
    BY TreeType
  <2>3. height[x] = height[parent[x]] + 1 /\ height[parent[x]] \in Nat
    BY <2>2, TreeLinks, TreeType
  <2>4. qc_ref[x] \in chain[b]
    <3>1. parent[x] \in chain[x]
      BY <2>2, TreeLinks, ChainEnds
    <3>2. chain[x] \subseteq chain[b]
      BY <2>2, ChainTrans
    <3>. QED BY <3>1, <3>2
  <2>. QED BY <2>3, <2>4
<1>2. height[b0] = 0 /\ qc_ref[b0] = b0 /\ b0 \in chain[b] /\ b \in chain[b]
  BY TreeType, ChainEnds
<1>3. blk2(b) \in chain[b] /\ height[blk2(b)] = height[b] - 1 /\ height[b] \in Nat
  BY <1>1, <1>2 DEF blk2
<1>4. ASSUME height[b] > 3
      PROVE  /\ direct(blk2(b)) /\ height[blk2(b)] = height[b] - 1
             /\ height[blk1(b)] = height[b] - 2 /\ height[blk(b)] = height[b] - 3
             /\ {blk2(b), blk1(b), blk(b)} \subseteq chain[b]
  <2>1. blk2(b) # b0
    BY <1>2, <1>3, <1>4
  <2>2. blk1(b) \in chain[b] /\ height[blk1(b)] = height[b] - 2
    BY <1>1, <1>3, <2>1 DEF blk1
  <2>3. blk1(b) # b0
    BY <1>2, <1>3, <1>4, <2>2
  <2>4. height[blk(b)] = height[b] - 3 /\ blk(b) \in chain[b]
    BY <1>1, <1>3, <2>2, <2>3 DEF blk
  <2>5. direct(blk2(b))
    BY <1>3, <2>1, <2>2, <2>3 DEF direct, blk1
  <2>. QED BY <1>3, <2>2, <2>4, <2>5
<1>5. ASSUME height[b] <= 3, blk(b) # b0 PROVE FALSE
  <2>1. blk1(b) # b0 /\ blk2(b) # b0
    BY <1>2, <1>5 DEF blk, blk1
  <2>2. blk1(b) \in chain[b] /\ height[blk1(b)] = height[b] - 2
    BY <1>1, <1>3, <2>1 DEF blk1
  <2>3. blk(b) \in chain[b] /\ height[blk(b)] = height[b] - 3
    BY <1>1, <1>3, <2>1, <2>2 DEF blk
  <2>4. height[blk(b)] \in Nat \ {0}
    BY <1>1, <1>5, <2>3
  <2>. QED BY <1>3, <1>5, <2>3, <2>4
<1>. QED BY <1>4, <1>5

(* What is executed in a step of an update that does not breach.           *)
LEMMA ExecutedBlk ==
    ASSUME CoreInv, NEW r \in Correct, NEW b \in Block, update(r, b)
    PROVE  /\ commits(r, b) /\ ~breaches(r, b) =>
                /\ b_exec' = [b_exec EXCEPT ![r] = blk(b)]
                /\ height[b_exec[r]] < height[blk(b)]
           /\ ~commits(r, b) \/ breaches(r, b) => b_exec' = b_exec
<1>1. /\ decision[r] = chain[b_exec[r]] /\ b_exec[r] \in Block /\ blk(b) \in Block
      /\ \A x \in Block : height[x] \in Nat
  BY TreeType, BlkType DEF CoreInv, DecisionMatchesExec, TypeOK
<1>2. ASSUME commits(r, b), ~breaches(r, b) PROVE height[b_exec[r]] < height[blk(b)]
  <2>1. blk(b) \notin chain[b_exec[r]] /\ b_exec[r] \in chain[blk(b)]
    BY <1>1, <1>2 DEF commits, undecided, breaches, Extends
  <2>2. b_exec[r] # blk(b)
    BY <1>1, <2>1, ChainEnds
  <2>. QED BY <1>1, <2>1, <2>2, ChainHeight
<1>. QED BY <1>2 DEF update

LEMMA BlocksInitInv == FixedInit => BlocksInv /\ Beats!Init
<1> SUFFICES ASSUME FixedInit PROVE BlocksInv /\ Beats!Init
  OBVIOUS
<1>1. /\ Leader \in Correct /\ proposed = {} /\ hqc_tail[Leader] = b0 /\ beats = 0
      /\ \A r \in Correct : delivered[r] = {b0} /\ b_exec[r] = b0
  BY LeaderAssumption DEF FixedInit, PMInit, Init
<1>2. Cardinality(proposed) = 0 /\ height[b0] = 0 /\ chain[b0] = {b0}
  BY <1>1, FS_EmptySet, TreeType
<1>3. BlocksInv
  BY <1>1, <1>2 DEF BlocksInv
<1>4. Beats!Init
  BY <1>1, <1>2 DEF Beats!Init
<1>. QED BY <1>3, <1>4

(* What is left to show when neither blocks nor executions are touched.    *)
LEMMA BlocksKept ==
    ASSUME FixedInv, FixedInv', ~Foreign, ~Foreign', BlocksInv,
           UNCHANGED <<proposed, last_proposed>>,
           b_exec'[Leader] = b_exec[Leader],
           \A r \in Correct : delivered'[r] \subseteq proposed \cup {b0}
    PROVE  BlocksInv'
<1>1. hqc_tail'[Leader] = hqc_tail[Leader]
  BY DEF FixedInv, WaitInv
<1>. QED BY <1>1 DEF BlocksInv

(* A block of the leader's chain that makes r execute: it is three higher. *)
LEMMA ExecutesBelow ==
    ASSUME CoreInv, NEW r \in Correct, NEW b \in Block \ {b0},
           chain[b] \ {b} \subseteq delivered[r],
           \A x \in chain[b] \ {b0} : qc_ref[x] = parent[x]
    PROVE  /\ commits(r, b) => height[b] > 3 /\ height[blk(b)] = height[b] - 3
           /\ height[b] > 3 /\ height[b] - 3 > height[b_exec[r]] => commits(r, b)
<1>1. /\ decision[r] = chain[b_exec[r]] /\ b_exec[r] \in Block
      /\ \A x \in Block : height[x] \in Nat
  BY TreeType DEF CoreInv, DecisionMatchesExec, TypeOK
<1>2. \A x \in decision[r] : height[x] <= height[b_exec[r]]
  BY <1>1, ChainHeight, TreeType
<1>3. b0 \in decision[r]
  BY <1>1, ChainEnds
<1>5. /\ height[b] > 3 => /\ direct(blk2(b)) /\ height[blk2(b)] = height[b] - 1
                          /\ height[blk1(b)] = height[b] - 2
                          /\ height[blk(b)] = height[b] - 3
                          /\ {blk2(b), blk1(b), blk(b)} \subseteq chain[b]
      /\ height[b] <= 3 => blk(b) = b0
  BY ThreeBelow
<1>6. ASSUME commits(r, b) PROVE height[b] > 3
  <2>1. blk(b) # b0
    BY <1>3, <1>6 DEF commits, undecided
  <2>. QED BY <1>1, <1>5, <2>1
<1>7. ASSUME height[b] > 3, height[b] - 3 > height[b_exec[r]] PROVE commits(r, b)
  <2>1. \A x \in {blk2(b), blk1(b), blk(b)} :
            height[x] > height[b_exec[r]] /\ x # b /\ x \in delivered[r]
    <3>1. height[blk2(b)] = height[b] - 1 /\ height[blk1(b)] = height[b] - 2
          /\ height[blk(b)] = height[b] - 3
      BY <1>5, <1>7
    <3>2. height[b] \in Nat /\ height[b_exec[r]] \in Nat
      BY <1>1
    <3>3. \A x \in {blk2(b), blk1(b), blk(b)} : height[x] > height[b_exec[r]]
      BY <1>7, <3>1, <3>2
    <3>4. \A x \in {blk2(b), blk1(b), blk(b)} : x # b
      BY <3>1, <3>2
    <3>. QED BY <1>5, <1>7, <3>3, <3>4
  <2>2. \A x \in {blk2(b), blk1(b), blk(b)} : x \notin decision[r]
    <3>1. SUFFICES ASSUME NEW x \in {blk2(b), blk1(b), blk(b)}, x \in decision[r]
                   PROVE  FALSE
      OBVIOUS
    <3>2. x \in Block
      BY BlkType
    <3>. QED BY <1>1, <1>2, <2>1, <3>1, <3>2
  <2>3. undecided(r, {blk2(b), blk1(b), blk(b)})
    BY <2>1, <2>2 DEF undecided
  <2>. QED BY <1>5, <1>7, <2>3 DEF commits
<1>. QED BY <1>5, <1>6, <1>7

(* The other replicas deliver the leader's blocks only, and execute at     *)
(* most what is three below the end of its chain.                          *)
LEMMA MessageBlocks ==
    ASSUME BaseInv, FixedInv, FixedInv', ~Foreign, ~Foreign', BlocksInv,
           NEW r \in Correct, NEW b \in Block, deliver_blk(r, b) \/ receive_proposal(r, b)
    PROVE  BlocksInv' /\ [Beats!Next]_beat_vars
<1>1. /\ UNCHANGED <<proposed, wait_vars>> /\ UNCHANGED <<beats, last_proposed>>
      /\ Leader \in Correct /\ TypeOK /\ CoreInv
  BY LeaderAssumption DEF deliver_blk, pm_deliver_blk, on_deliver_blk, receive_proposal,
     pm_receive_proposal, on_receive_proposal, wait_vars, BaseInv, CoreInv
<1>2. CASE deliver_blk(r, b)
  <2>1. UNCHANGED b_exec /\ delivered' = [delivered EXCEPT ![r] = @ \cup {b}]
        /\ b \notin delivered[r] /\ (b \in proposed \/ creator[b] \in Faulty)
    BY <1>2 DEF deliver_blk, pm_deliver_blk, on_deliver_blk, deliver
  <2>2. b \in proposed \cup {b0}
    <3>1. b \in delivered'[r]
      BY <1>1, <2>1 DEF TypeOK
    <3>. QED BY <2>1, <3>1 DEF Foreign
  <2>3. \A s \in Correct : delivered'[s] \subseteq proposed \cup {b0}
    BY <1>1, <2>1, <2>2 DEF BlocksInv, TypeOK
  <2>. QED BY <1>1, <2>1, <2>3, BlocksKept DEF beat_vars
<1>3. CASE receive_proposal(r, b)
  <2>1. /\ update(r, b) /\ UNCHANGED delivered /\ b \in delivered[r] /\ b # b0
        /\ on_receive_proposal(r, b)
    BY <1>3 DEF receive_proposal, pm_receive_proposal, on_receive_proposal
  <2>2. r # Leader
    BY <2>1, LeaderReceivesNone DEF FixedInv
  <2>3. BlocksInv'
    <3>1. b_exec'[Leader] = b_exec[Leader]
      BY <1>1, <2>1, <2>2 DEF update, TypeOK
    <3>. QED BY <1>1, <2>1, <3>1, BlocksKept DEF BlocksInv
  <2>5. CASE ~commits(r, b) \/ breaches(r, b)
    BY <1>1, <2>1, <2>3, <2>5, ExecutedBlk DEF beat_vars
  <2>6. CASE commits(r, b) /\ ~breaches(r, b)
    <3> DEFINE T == hqc_tail[Leader]
               k == height[blk(b)]
    <3>1. T \in Block /\ b \in chain[T] /\ chain[b] \subseteq chain[T]
          /\ chain[T] \subseteq proposed \cup {b0}
      <4>1. T \in Block
        BY <1>1 DEF BaseInv, PMInv, PMTypeOK
      <4>2. b0 \in chain[T]
        BY <4>1, ChainEnds
      <4>3. chain[T] \subseteq proposed \cup {b0} /\ b \in chain[T]
        BY <2>1, <4>2 DEF BlocksInv
      <4>. QED BY <4>1, <4>3, ChainTrans
    <3>2. height[b] > 3 /\ k = height[b] - 3
      <4>1. \A x \in chain[b] \ {b0} : qc_ref[x] = parent[x]
        BY <3>1 DEF FixedInv, ProposalsCertifyParent
      <4>2. chain[b] \ {b} \subseteq delivered[r]
        BY <1>1, <2>1 DEF CoreInv, DeliveredInv
      <4>. QED BY <1>1, <2>1, <2>6, <4>1, <4>2, ExecutesBelow
    <3>3. height[b] <= height[T] /\ height[b] \in Nat /\ height[T] \in Nat
      BY <3>1, ChainHeight, TreeType
    <3>4. Cardinality(proposed) = height[T]
      BY DEF BlocksInv
    <3>5. b_exec' = [b_exec EXCEPT ![r] = blk(b)] /\ height[b_exec[r]] < k
          /\ height[b_exec[r]] \in Nat
      BY <2>1, <2>6, <1>1, ExecutedBlk, TreeType DEF TypeOK
    <3>6. k \in height[b_exec[r]] + 1 .. Cardinality(proposed) - 3
      BY <3>2, <3>3, <3>4, <3>5
    <3>7. [s \in Correct |-> height[b_exec[s]]]'
            = [[s \in Correct |-> height[b_exec[s]]] EXCEPT ![r] = k]
      BY <1>1, <3>5 DEF TypeOK
    <3>8. Beats!Execute(r)
      BY <1>1, <2>2, <3>6, <3>7 DEF Beats!Execute
    <3>. QED BY <2>3, <3>8 DEF Beats!Next
  <2>. QED BY <2>5, <2>6
<1>. QED BY <1>2, <1>3

(* The proposer executes the block three below with the new one.           *)
LEMMA ProposeBlocks ==
    ASSUME BaseInv, BaseInv', FixedInv, FixedInv', ~Foreign, ~Foreign', BlocksInv,
           NEW b \in Block, propose(b)
    PROVE  BlocksInv' /\ Beats!Next
<1> DEFINE n == Cardinality(proposed)
           T == hqc_tail[Leader]
<1>0. Owners' /\ Alone(Leader) /\ Leader \in Correct /\ CoreInv /\ TypeOK /\ SoleInv /\ PMInv
  BY LeaderAlone, LeaderAssumption DEF FixedInv, BaseInv, CoreInv
<1>1. /\ proposed' = proposed \cup {b} /\ Cardinality(proposed') = n + 1
      /\ parent[b] = T /\ hqc_tail'[Leader] = b
      /\ \A x \in proposed \cup {b} : qc_ref[x] = parent[x]
  <2>1. status'[Leader] = "running"
    BY <1>0 DEF FixedInv, WaitInv
  <2>2. \A x \in proposed : qc_ref[x] = parent[x]
    BY DEF FixedInv, ProposalsCertifyParent
  <2>. QED BY <1>0, <2>1, <2>2, ProposeFixedInv
<1>2. /\ update(Leader, b) /\ b \notin delivered[Leader]
      /\ delivered' = [delivered EXCEPT ![Leader] = @ \cup {b}]
      /\ UNCHANGED beats /\ due /\ pm_propose(Leader, b)
  BY DEF propose, pm_propose, on_propose, deliver
<1>3. /\ b # b0 /\ height[b] = n + 1 /\ n \in Nat /\ height[b] \in Nat
      /\ chain[b] = chain[T] \cup {b}
  <2>1. b # b0 /\ T \in Block
    BY <1>0, <1>2 DEF PMInv, PMTypeOK, DeliveredInv
  <2>. QED BY <1>1, <2>1, TreeLinks, TreeType DEF BlocksInv
<1>4. /\ chain[b] \ {b0} = proposed' /\ \A x \in chain[b] \ {b0} : qc_ref[x] = parent[x]
      /\ chain[b] \ {b} \subseteq delivered[Leader]
  <2>1. delivered[Leader] = chain[T]
    BY <1>0 DEF SoleInv
  <2>. QED BY <1>1, <1>3, <2>1 DEF BlocksInv
<1>5. ~breaches(Leader, b)
  BY <1>0, <1>2, SolePropose
<1> DEFINE m == IF n + 1 > 3 THEN n + 1 - 3 ELSE 0
<1>6. height[b_exec[Leader]] = IF n > 3 THEN n - 3 ELSE 0
  BY DEF BlocksInv
<1>7. /\ height[b_exec'[Leader]] = m
      /\ b_exec' = b_exec \/ \E x : b_exec' = [b_exec EXCEPT ![Leader] = x]
  <2>1. CASE n + 1 > 3
    <3>1. height[b] > 3 /\ height[b] - 3 > height[b_exec[Leader]]
      BY <1>3, <1>6, <2>1
    <3>2. commits(Leader, b) /\ height[blk(b)] = height[b] - 3
      BY <1>0, <1>3, <1>4, <3>1, ExecutesBelow
    <3>3. b_exec' = [b_exec EXCEPT ![Leader] = blk(b)]
      BY <1>0, <1>2, <1>5, <3>2, ExecutedBlk
    <3>4. b_exec'[Leader] = blk(b)
      BY <1>0, <3>3 DEF TypeOK
    <3>5. height[b_exec'[Leader]] = m
      BY <1>3, <2>1, <3>2, <3>4
    <3>. QED BY <3>3, <3>5, Zenon
  <2>2. CASE ~(n + 1 > 3)
    <3>1. ~commits(Leader, b)
      BY <1>0, <1>3, <1>4, <2>2, ExecutesBelow
    <3>2. b_exec' = b_exec
      BY <1>0, <1>2, <3>1, ExecutedBlk
    <3>. QED BY <1>3, <1>6, <2>2, <3>2
  <2>. QED BY <2>1, <2>2
<1>8. BlocksInv'
  <2>1. \A r \in Correct : delivered'[r] \subseteq proposed' \cup {b0}
    BY <1>0, <1>1, <1>2 DEF BlocksInv, TypeOK
  <2>. QED BY <1>1, <1>3, <1>4, <1>7, <2>1 DEF BlocksInv
<1>9. Beats!Propose
  <2>1. n + 1 <= beats'
    BY <1>2, <1>3, BeatsBounded DEF FixedInv, BeatsAccounted, WaitInv
  <2>2. [r \in Correct |-> height[b_exec[r]]]'
          = [[r \in Correct |-> height[b_exec[r]]] EXCEPT ![Leader] = m]
    BY <1>0, <1>7 DEF TypeOK
  <2>3. Cardinality(proposed)' = n + 1 /\ beats' = beats
    BY <1>1, <1>2
  <2>4. m = IF Cardinality(proposed)' > 3 THEN Cardinality(proposed)' - 3 ELSE 0
    BY <1>3, <2>3
  <2>5. /\ beats' \in {beats, beats + 1}
        /\ Cardinality(proposed)' = Cardinality(proposed) + 1
        /\ Cardinality(proposed)' <= beats'
    BY <2>1, <2>3
  <2> HIDE DEF n, T, m
  <2>. QED BY <2>2, <2>4, <2>5, Zenon DEF Beats!Propose
<1>. QED BY <1>8, <1>9 DEF Beats!Next

(* Without foreign blocks a step keeps BlocksInv, and is a step of         *)
(* BeatChain or none.                                                      *)
LEMMA BlocksNext ==
    ASSUME BaseInv, BaseInv', FixedInv, FixedInv', ~Foreign, ~Foreign', BlocksInv,
           [FixedNext]_fixed_vars
    PROVE  BlocksInv' /\ [Beats!Next]_beat_vars
<1>1. CASE UNCHANGED fixed_vars
  BY <1>1 DEF fixed_vars, wait_vars, pm_vars, core_vars, BlocksInv, beat_vars
<1>2. CASE beat
  <2>1. beats' = beats + 1 /\ UNCHANGED <<proposed, b_exec, delivered, last_proposed>>
    BY <1>2 DEF beat, pm_vars, core_vars
  <2>2. BlocksInv'
    BY <2>1, BlocksKept DEF BlocksInv
  <2>. QED BY <2>1, <2>2 DEF Beats!Ask, Beats!Next
<1>3. CASE UNCHANGED <<proposed, b_exec, delivered, last_proposed, beats>>
  <2>1. BlocksInv'
    BY <1>3, BlocksKept DEF BlocksInv
  <2>. QED BY <1>3, <2>1 DEF beat_vars
<1>4. ASSUME NEW r \in Correct, NEW v \in Replica, NEW b \in Block, receive_vote(r, v, b)
      PROVE  UNCHANGED <<proposed, b_exec, delivered, last_proposed, beats>>
  BY <1>4 DEF receive_vote, pm_receive_vote, on_receive_vote
<1>5. ASSUME NEW b \in Block, receive_first(b) PROVE FALSE
  BY <1>5, LeaderReceivesNone DEF receive_first, pm_receive_first, FixedInv
<1>6. CASE receive_last
  <2>1. UNCHANGED <<proposed, b_exec, delivered, last_proposed, beats>>
    BY <1>6 DEF receive_last, pm_receive_last, core_vars, wait_vars
  <2>. QED BY <1>3, <2>1
<1>7. CASE FixedNext
  BY <1>2, <1>3, <1>4, <1>5, <1>6, <1>7, ProposeBlocks, MessageBlocks DEF FixedNext
<1>. QED BY <1>1, <1>7

(* The default pacemaker and the core below it implement BeatChain, what   *)
(* the ordering pipeline builds on, up to the first foreign block: however *)
(* QCs, votes and blocks are ordered, the k-th block is executed when the  *)
(* (k+3)-rd is there.                                                      *)
THEOREM FixedBeatChain == FixedSpec => BeatChainSpec
<1>1. FixedInit => BlocksInv /\ Beats!Init
  BY BlocksInitInv
<1>2. /\ BaseInv /\ BaseInv' /\ FixedInv /\ FixedInv' /\ (Foreign \/ BlocksInv)
      /\ [FixedNext]_fixed_vars
      => (Foreign \/ BlocksInv)' /\ [Beats!Next \/ Foreign']_beat_vars
  BY BlocksNext, ForeignStays DEF BaseInv
<1>3. FixedSpec => []BaseInv /\ []FixedInv
  BY FixedBase, FixedSpecInv, PTL
<1>. QED BY <1>1, <1>2, <1>3, PTL DEF FixedSpec, BeatChainSpec, Beats!Spec
=============================================================================
