---------------------------- MODULE HotStuffCore ----------------------------
(***************************************************************************)
(* The three-step HotStuff core of FlashOrder (HotStuffCore in             *)
(* consensus.cpp): delivering and proposing blocks, voting, collecting     *)
(* votes into quorum certificates, locking and committing.                 *)
(*                                                                         *)
(* One action per handler, each run to completion on the event loop of its *)
(* replica.  Proposals and votes travel over an asynchronous network: a    *)
(* proposal or a vote, once sent, may be handled late, in any order, more  *)
(* than once or never.  A faulty replica votes for anything, to anybody,   *)
(* any number of times, and proposes any block of the tree, also one with  *)
(* the certificate of a block on another branch.                           *)
(*                                                                         *)
(* What a block carries (cmds) and how commands flow is left to the        *)
(* pipeline; who may propose and on which parent is left to the pacemaker: *)
(* here any replica proposes at any time on any block it has delivered.    *)
(***************************************************************************)
EXTENDS BlockTree

CONSTANTS
    Replica,   \* the replicas of the configuration
    Faulty,    \* those that do not run this code
    creator,   \* creator[b] is the replica that builds and proposes b
    collectors,\* collectors[b]: the replicas that get votes for b, be it
               \* from do_vote or passed on by a faulty replica
    FetchOnly  \* blocks of faulty replicas that are never proposed, only
               \* fetched as ancestors (a bound for TLC; {} is no bound)

Correct == Replica \ Faulty

(* `uint32_t nfaulty = peers.size() / 3`, where peers has every replica    *)
(* but oneself.                                                            *)
nfaulty == (Cardinality(Replica) - 1) \div 3

nmajority == Cardinality(Replica) - nfaulty

ASSUME ReplicaAssumption ==
    /\ IsFiniteSet(Replica)
    /\ Cardinality(Replica) > 1
    /\ Faulty \subseteq Replica
    /\ Cardinality(Faulty) <= nfaulty
    /\ creator \in [Block -> Replica]
    /\ collectors \in [Block -> SUBSET Replica]

VARIABLES
    proposed,   \* the blocks correct replicas have broadcast
    cast,       \* cast[r]: the blocks r has sent a vote for
    voted,      \* voted[r][b]: the voters r has counted for b
    delivered,  \* delivered[r]: the blocks r has delivered
    tails,      \* tails[r]: the delivered blocks without delivered child
    decision,   \* decision[r]: the blocks with decision = 1 at r
    vheight,    \* vheight[r]: the height r has last voted at
    b_lock,     \* b_lock[r]: the block r is locked on
    b_exec,     \* b_exec[r]: the last block r has executed
    hqc,        \* hqc[r]: the block of the highest QC r knows
    status      \* status[r]: "running", or which exception stopped r

core_vars == <<proposed, cast, voted, delivered, tails, decision, vheight,
               b_lock, b_exec, hqc, status>>

TypeOK ==
    /\ proposed \subseteq Block
    /\ cast \in [Correct -> SUBSET Block]
    /\ voted \in [Correct -> [Block -> SUBSET Replica]]
    /\ delivered \in [Correct -> SUBSET Block]
    /\ tails \in [Correct -> SUBSET Block]
    /\ decision \in [Correct -> SUBSET Block]
    /\ vheight \in [Correct -> Nat]
    /\ b_lock \in [Correct -> Block]
    /\ b_exec \in [Correct -> Block]
    /\ hqc \in [Correct -> Block]
    /\ status \in [Correct -> {"running", "breached", "stale"}]

Init ==
    /\ proposed = {}
    /\ cast = [r \in Correct |-> {}]
    /\ voted = [r \in Correct |-> [b \in Block |-> IF b = b0 THEN Replica ELSE {}]]
    /\ delivered = [r \in Correct |-> {b0}]
    /\ tails = [r \in Correct |-> {b0}]
    /\ decision = [r \in Correct |-> {b0}]
    /\ vheight = [r \in Correct |-> 0]
    /\ b_lock = [r \in Correct |-> b0]
    /\ b_exec = [r \in Correct |-> b0]
    /\ hqc = [r \in Correct |-> b0]
    /\ status = [r \in Correct |-> "running"]

-----------------------------------------------------------------------------
(* The votes that exist for b: those of the correct replicas that voted,   *)
(* and whatever the faulty ones like to sign.                              *)
Voters(b) == {r \in Correct : b \in cast[r]} \cup Faulty

(* A QC of b can be assembled: QuorumCert::verify asks for nmajority       *)
(* signatures and accepts the genesis block as it is.                      *)
Certified(b) == b = b0 \/ Cardinality(Voters(b)) >= nmajority

(* What update(b) at r does.  In the code's names blk2, blk1 and blk are   *)
(* the three blocks found by following qc_ref from b.                      *)
blk2(b) == qc_ref[b]
blk1(b) == qc_ref[blk2(b)]
blk(b)  == qc_ref[blk1(b)]

(* The handler goes on as long as these blocks are not decided.  A block   *)
(* that was fetched but not delivered yet still has height 0 and no        *)
(* qc_ref, so that it moves nothing and ends the handler as well.          *)
undecided(r, S) == S \subseteq delivered[r] \ decision[r]

update_hqc(r, b) ==
    IF undecided(r, {blk2(b)}) /\ height[blk2(b)] > height[hqc[r]]
    THEN blk2(b) ELSE hqc[r]

(* Mistakes in moving the lock, for mutants: never, or to the block one QC *)
(* too low.                                                                *)
update_lock_never(r, b) == b_lock[r]

update_lock_on_blk(r, b) ==
    IF height[blk(b)] > height[b_lock[r]] THEN blk(b) ELSE b_lock[r]

update_lock(r, b) ==
    IF undecided(r, {blk2(b), blk1(b)}) /\ height[blk1(b)] > height[b_lock[r]]
    THEN blk1(b) ELSE b_lock[r]

(* `commit requires direct parent`                                         *)
direct(b) == parent[b] = qc_ref[b] /\ parent[qc_ref[b]] = qc_ref[qc_ref[b]]

(* Mutant: without the early returns on decided blocks.                    *)
commits_decided_too(r, b) == direct(blk2(b))

commits(r, b) ==
    undecided(r, {blk2(b), blk1(b), blk(b)}) /\ direct(blk2(b))

(* `throw std::runtime_error("safety breached :( ...")`                    *)
breaches(r, b) == commits(r, b) /\ ~Extends(blk(b), b_exec[r])

(* Mutant: only the last block of the queue is decided.                    *)
commit_queue_last_only(r, b) == {blk(b)}

(* The commit queue: from blk down to the block above b_exec.              *)
commit_queue(r, b) ==
    {x \in chain[blk(b)] : height[x] > height[b_exec[r]]}

(* Mutants of update: the flag of decided blocks is not tested, or not set.*)
update_without_early_returns(r, b) ==
    /\ hqc' = [hqc EXCEPT ![r] = update_hqc(r, b)]
    /\ b_lock' = [b_lock EXCEPT ![r] = update_lock(r, b)]
    /\ decision' = [decision EXCEPT ![r] = @ \cup commit_queue(r, b)]
    /\ b_exec' = [b_exec EXCEPT ![r] = IF direct(blk2(b)) THEN blk(b) ELSE @]

update_forgets_decision(r, b) ==
    /\ hqc' = [hqc EXCEPT ![r] = update_hqc(r, b)]
    /\ b_lock' = [b_lock EXCEPT ![r] = update_lock(r, b)]
    /\ b_exec' = [b_exec EXCEPT ![r] = IF commits(r, b) THEN blk(b) ELSE @]
    /\ UNCHANGED decision

(* The whole handler: hqc, then the lock, then the commit, or the          *)
(* exception before anything is executed.                                  *)
update(r, b) ==
    /\ hqc' = [hqc EXCEPT ![r] = update_hqc(r, b)]
    /\ b_lock' = [b_lock EXCEPT ![r] = update_lock(r, b)]
    /\ IF commits(r, b) /\ ~breaches(r, b)
       THEN /\ decision' = [decision EXCEPT ![r] = @ \cup commit_queue(r, b)]
            /\ b_exec' = [b_exec EXCEPT ![r] = blk(b)]
       ELSE UNCHANGED <<decision, b_exec>>

(* Mutant: votes again at the height of the last vote.                     *)
opinion_at_vheight(r, b) ==
    /\ height[b] >= vheight[r]
    /\ \/ qc_ref[b] \in delivered[r] /\ height[qc_ref[b]] > height[update_lock(r, b)]
       \/ Extends(b, update_lock(r, b))

(* The vote decision of on_receive_proposal, after update: above the last  *)
(* vote, and justified above the lock (liveness condition, on the height   *)
(* a delivered block has) or on the locked branch (safety condition).      *)
opinion(r, b) ==
    /\ height[b] > vheight[r]
    /\ \/ qc_ref[b] \in delivered[r] /\ height[qc_ref[b]] > height[update_lock(r, b)]
       \/ Extends(b, update_lock(r, b))

-----------------------------------------------------------------------------
(* Mutant: the parent stays a tail.                                        *)
deliver_keeps_parent(r, b) ==
    /\ delivered' = [delivered EXCEPT ![r] = @ \cup {b}]
    /\ tails' = [tails EXCEPT ![r] = @ \cup {b}]

(* The end of on_deliver_blk: the block replaces its parent as a tail.     *)
deliver(r, b) ==
    /\ delivered' = [delivered EXCEPT ![r] = @ \cup {b}]
    /\ tails' = [tails EXCEPT ![r] = (@ \ {parent[b]}) \cup {b}]

(* async_deliver_blk fetches a block some replica has broadcast and, when  *)
(* its certificate verifies and its parent is delivered, calls             *)
(* on_deliver_blk.  Correct replicas broadcast in on_propose; the blocks   *)
(* of faulty replicas are there from the start.                            *)
on_deliver_blk(r, b) ==
    /\ status[r] = "running"
    /\ b \in proposed \/ creator[b] \in Faulty
    /\ b \notin delivered[r]
    /\ parent[b] \in delivered[r]
    /\ Certified(qc_ref[b])
    /\ deliver(r, b)
    /\ UNCHANGED <<proposed, cast, voted, decision, vheight, b_lock, b_exec,
                   hqc, status>>

(* The proposer stores, delivers and updates on the new block before it    *)
(* compares the height with vheight; the exception then leaves the block   *)
(* behind, never broadcast.  Otherwise it receives its own proposal,       *)
(* without a second update, and counts its own vote at once.               *)
on_propose(r, b) ==
    LET thrown == breaches(r, b) \/ height[b] <= vheight[r]
        votes  == ~thrown /\ opinion(r, b)
    IN  /\ status[r] = "running"
        /\ creator[b] = r
        /\ b \notin delivered[r]
        /\ parent[b] \in delivered[r]
        /\ qc_ref[b] = hqc[r]
        /\ deliver(r, b)
        /\ update(r, b)
        /\ status' = [status EXCEPT ![r] =
                        IF breaches(r, b) THEN "breached"
                        ELSE IF thrown THEN "stale" ELSE @]
        /\ proposed' = IF thrown THEN proposed ELSE proposed \cup {b}
        /\ vheight' = [vheight EXCEPT ![r] = IF votes THEN height[b] ELSE @]
        /\ cast' = [cast EXCEPT ![r] = IF votes THEN @ \cup {b} ELSE @]
        /\ voted' = [voted EXCEPT ![r][b] = IF votes THEN @ \cup {r} ELSE @]

on_receive_proposal(r, b) ==
    LET votes == ~breaches(r, b) /\ opinion(r, b)
    IN  /\ status[r] = "running"
        /\ b \in delivered[r] \ ({b0} \cup FetchOnly)
        /\ creator[b] # r
        /\ update(r, b)
        /\ status' = [status EXCEPT ![r] =
                        IF breaches(r, b) THEN "breached" ELSE @]
        /\ vheight' = [vheight EXCEPT ![r] = IF votes THEN height[b] ELSE @]
        /\ cast' = [cast EXCEPT ![r] = IF votes THEN @ \cup {b} ELSE @]
        /\ UNCHANGED <<proposed, voted, delivered, tails>>

(* The next vote is the one that completes the QC of b at r.               *)
completes(r, b) == Cardinality(voted[r][b]) + 1 = nmajority

(* Mutant: a repeated vote is not dropped.                                 *)
on_receive_vote_repeated(r, v, b) ==
    /\ status[r] = "running"
    /\ r \in collectors[b]
    /\ b \in delivered[r]
    /\ v \in Voters(b)
    /\ Cardinality(voted[r][b]) < nmajority
    /\ voted' = [voted EXCEPT ![r][b] = @ \cup {v}]
    /\ hqc' = [hqc EXCEPT ![r] =
                 IF completes(r, b) /\ height[b] > height[@] THEN b ELSE @]
    /\ UNCHANGED <<proposed, cast, delivered, tails, decision, vheight,
                   b_lock, b_exec, status>>

(* Whoever gets votes for a block counts them, the block's proposer or not *)
(* (`vote for block not proposed by itself` is only logged).  The vote     *)
(* that completes the quorum makes the QC; later ones, and a second vote   *)
(* of one replica, are ignored.                                            *)
on_receive_vote(r, v, b) ==
    /\ status[r] = "running"
    /\ r \in collectors[b]
    /\ b \in delivered[r]
    /\ v \in Voters(b) \ voted[r][b]
    /\ Cardinality(voted[r][b]) < nmajority
    /\ voted' = [voted EXCEPT ![r][b] = @ \cup {v}]
    /\ hqc' = [hqc EXCEPT ![r] =
                 IF completes(r, b) /\ height[b] > height[@] THEN b ELSE @]
    /\ UNCHANGED <<proposed, cast, delivered, tails, decision, vheight,
                   b_lock, b_exec, status>>

Next ==
    \E r \in Correct, b \in Block :
        \/ on_propose(r, b)
        \/ on_deliver_blk(r, b)
        \/ on_receive_proposal(r, b)
        \/ \E v \in Replica : on_receive_vote(r, v, b)

Spec == Init /\ [][Next]_core_vars

-----------------------------------------------------------------------------
(* Properties *)

(* No quorum has voted for a block that leaves out the block of its own    *)
(* QC.  The code never looks: the liveness condition of on_receive_proposal*)
(* compares heights alone.  Blocks of correct replicas are justified       *)
(* (PMHighTail.tla), those of faulty ones need not be, and once a quorum   *)
(* has certified one that is not, the lock rule protects nothing.  So this *)
(* is the premise of every claim below on what is executed; false once, it *)
(* stays false.                                                            *)
QCsOnBranch == \A b \in Block \ {b0} : Certified(b) => Justified(b)

(* The exception "safety breached" of update (consensus.cpp:149) is        *)
(* unreachable as long as QCs keep to their branches: whatever commits     *)
(* next extends what has been executed.                                    *)
NeverBreached == QCsOnBranch => \A r \in Correct : status[r] # "breached"

(* The decision flags of the blocks and the pointer b_exec, written by     *)
(* different statements of update, agree: exactly the blocks up to b_exec  *)
(* are decided, whatever order the proposals arrive in.                    *)
DecisionMatchesExec == \A r \in Correct : decision[r] = chain[b_exec[r]]

(* Two QCs of one height certify one block: a replica that votes does not  *)
(* vote again at that height (vheight), and two quorums share a replica    *)
(* that follows the rule.                                                  *)
OneQCPerHeight ==
    \A b, c \in Block :
        b # c /\ height[b] = height[c] => ~(Certified(b) /\ Certified(c))

(* Once a replica has executed a block, no QC can form for a branch that   *)
(* leaves it out, at that replica or at any other: this is what the lock   *)
(* in update and the two conditions of on_receive_proposal are for.        *)
ExecutedIsFinal ==
    QCsOnBranch =>
      \A r \in Correct, c \in Block :
          height[c] >= height[b_exec[r]] /\ ~Extends(c, b_exec[r])
              => ~Certified(c)

(* The same for every block that could be executed: once the third QC of   *)
(* a direct three-chain can be formed, be it known to nobody yet, no QC as *)
(* high as its first block can leave that block out.                       *)
CommittableIsFinal ==
    QCsOnBranch =>
      \A z \in {x \in Block : direct(x)}, c \in Block \ {b0} :
          height[c] >= height[qc_ref[qc_ref[z]]] /\ Certified(z) /\ Certified(c)
              => Extends(c, qc_ref[qc_ref[z]])

(* An execution is backed by the locks of a quorum: all but the faulty of  *)
(* nmajority replicas stand at least as high as the executed block.        *)
ExecBackedByLocks ==
    QCsOnBranch =>
      \A r \in Correct :
          Cardinality({s \in Correct : height[b_lock[s]] >= height[b_exec[r]]})
              >= nmajority - Cardinality(Faulty)

(* The three pointers of a replica lie in order on one branch up to the    *)
(* lock: b_exec, then b_lock, and the highest QC above the lock, although  *)
(* update returns early at three places between writing them.              *)
PointersInOrder ==
    QCsOnBranch =>
      \A r \in Correct :
          /\ Extends(b_lock[r], b_exec[r])
          /\ \/ b_lock[r] = b0
             \/ height[b_exec[r]] < height[b_lock[r]]
          /\ \/ b_lock[r] = b0
             \/ height[b_lock[r]] < height[hqc[r]]

(* A replica only ever votes upwards: a new vote is higher than each vote  *)
(* it has cast before, for its own proposals and those it receives.        *)
VotesClimb ==
    [][\A r \in Correct : \A b \in cast'[r] \ cast[r], c \in cast[r] :
            height[c] < height[b]]_core_vars

(* A replica's highest QC is one that can exist: nmajority replicas signed *)
(* the block, repeated votes not counted; and whoever has counted a quorum *)
(* for a block, its own or another's, never stays below it.                *)
QCsAreReal ==
    /\ \A r \in Correct : Certified(hqc[r])
    /\ \A r \in Correct, b \in Block \ {b0} :
         /\ voted[r][b] \subseteq Voters(b)
         /\ Cardinality(voted[r][b]) >= nmajority => height[hqc[r]] >= height[b]

(* What a replica executes only grows along one branch, and as long as QCs *)
(* keep to their branches the correct replicas execute prefixes of one     *)
(* ledger (HotStuffCore implements Ledger with tip = b_exec).              *)
L == INSTANCE Ledger WITH Node <- Correct, tip <- b_exec, sound <- QCsOnBranch
LedgerSpec == L!Spec

-----------------------------------------------------------------------------
(* The inductive invariant behind these properties, part by part.  The     *)
(* first parts hold whatever faulty replicas propose.                      *)

(* What a vote says about its caster.                                      *)
VoteInv ==
    \A r \in Correct : \A b \in cast[r] :
        b # b0 /\ b \in delivered[r] /\ height[b] <= vheight[r]

OneVotePerHeight ==
    \A r \in Correct : \A b, c \in cast[r] : height[b] = height[c] => b = c

(* Every QC a replica knows, in hqc or in a delivered block, is real, and  *)
(* only votes that were cast are counted.                                  *)
QCInv ==
    /\ \A r \in Correct :
        /\ Certified(hqc[r])
        /\ \A b \in delivered[r] : Certified(qc_ref[b])
    /\ \A r \in Correct, b \in Block \ {b0} : voted[r][b] \subseteq Voters(b)

(* Ancestors are delivered before a block is; the blocks a replica points  *)
(* at are delivered; a proposer has delivered what it broadcast.           *)
DeliveredInv ==
    /\ \A r \in Correct :
         /\ {b0, hqc[r], b_exec[r]} \subseteq delivered[r]
         /\ tails[r] \subseteq delivered[r]
         /\ \A b \in delivered[r] : chain[b] \subseteq delivered[r]
    /\ \A b \in proposed :
         b # b0 /\ creator[b] \in Correct /\ b \in delivered[creator[b]]

(* The others hold as long as QCs keep to their branches.                  *)

(* Who has voted for a justified block is locked no lower than the block   *)
(* two QCs below it.                                                       *)
VoteLockInv ==
    \A r \in Correct : \A b \in cast[r] :
        Justified(b) => height[blk1(b)] <= height[b_lock[r]]

(* The vote of r for c stands on a QC below c that is as high as each lock *)
(* r's lower votes stood for: c extends that lock or has a higher QC.      *)
StandsOn(r, c) ==
    \A b \in cast[r] :
        Justified(b) /\ height[b] < height[c] =>
            \E d \in chain[c] \ {c} : Certified(d) /\ height[d] >= height[blk1(b)]

Standing(c) == {r \in Correct : c \in cast[r] /\ StandsOn(r, c)}

(* Every vote does, but for one case: a replica votes for the very block   *)
(* it is locked on when that block's proposal comes after its QC.  Then a  *)
(* quorum has voted for the block before.                                  *)
LaterVoteInv ==
    \A c \in Block \ {b0} :
        Justified(c) =>
            \/ \A r \in Correct : c \in cast[r] => StandsOn(r, c)
            \/ Cardinality(Standing(c) \cup Faulty) >= nmajority

(* The lock is certified, below hqc and above b_exec.                      *)
LockInv ==
    \A r \in Correct :
        /\ Certified(b_lock[r])
        /\ height[b_exec[r]] <= height[b_lock[r]]
        /\ \/ b_lock[r] = b0
           \/ /\ height[b_lock[r]] < height[hqc[r]]
              /\ height[b_exec[r]] < height[b_lock[r]]

(* An executed block has a direct three-chain of QCs on top.               *)
ExecInv ==
    \A r \in Correct :
        \/ b_exec[r] = b0
        \/ \E z \in Block : /\ Certified(z) /\ direct(z)
                            /\ b_exec[r] = qc_ref[qc_ref[z]]

Unbreached == \A r \in Correct : status[r] # "breached"

CoreInv ==
    /\ TypeOK
    /\ VoteInv
    /\ OneVotePerHeight
    /\ QCInv
    /\ DeliveredInv
    /\ DecisionMatchesExec

BranchInv ==
    /\ VoteLockInv
    /\ LaterVoteInv
    /\ LockInv
    /\ ExecInv
    /\ Unbreached

IInv == CoreInv /\ (QCsOnBranch => BranchInv)
=============================================================================
