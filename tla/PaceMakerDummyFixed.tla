------------------------ MODULE PaceMakerDummyFixed ------------------------
(***************************************************************************)
(* The default pacemaker: one fixed proposer, which proposes on hqc_tail   *)
(* (PMHighTail) and only when the block it proposed last has its QC        *)
(* (PMWaitQC).  The state of PMWaitQC matters at the proposer only: nobody *)
(* else asks for beats.                                                    *)
(*                                                                         *)
(* A beat is asked for by process_local_order when a round of local orders *)
(* is complete and gave commands.  Its promise resolves inside the handler *)
(* of the vote that completes the QC, or of a proposal that carries it,    *)
(* and on_propose runs right there: `due` holds from one to the other, and *)
(* the proposer does nothing else in between.                              *)
(*                                                                         *)
(* Every vote goes to the fixed proposer (beat_resp), also those for the   *)
(* blocks of a faulty replica: it counts them, and its own vote for such a *)
(* block before its handler ends.                                          *)
(***************************************************************************)
EXTENDS PMHighTail

CONSTANTS
    Leader,    \* the fixed proposer
    MaxBeats   \* how many beats are asked for (a bound for TLC)

ASSUME LeaderAssumption ==
    /\ Leader \in Correct /\ Proposers = {Leader} /\ MaxBeats \in Nat
    /\ \A b \in Block : Leader \in collectors[b]

VARIABLES
    beats,          \* how many beats have been asked for
    pending_beats,  \* how many of them are queued
    locked,         \* a beat was taken from the queue and has not proposed yet
    last_proposed,  \* the last block of the proposer
    qc_waiting,     \* the block whose QC the beat waits for, in a set
    due             \* the promise of the beat has resolved

wait_vars == <<beats, pending_beats, locked, last_proposed, qc_waiting, due>>

fixed_vars == <<pm_vars, wait_vars>>

FixedTypeOK ==
    /\ PMTypeOK
    /\ beats \in 0 .. MaxBeats /\ pending_beats \in 0 .. MaxBeats
    /\ locked \in BOOLEAN /\ due \in BOOLEAN
    /\ last_proposed \in Block /\ qc_waiting \in SUBSET Block

FixedInit ==
    /\ PMInit
    /\ beats = 0 /\ pending_beats = 0
    /\ locked = FALSE /\ due = FALSE
    /\ last_proposed = b0 /\ qc_waiting = {}

has_qc(b) == Cardinality(voted[Leader][b]) >= nmajority

(* The vote for another's block that the leader is about to count.         *)
own_vote ==
    {b \in cast[Leader] :
        Leader \notin voted[Leader][b] /\ Cardinality(voted[Leader][b]) < nmajority}

(* A replica's handlers run one at a time.                                 *)
idle(r) == r = Leader => ~due /\ receiving[r] = b0 /\ own_vote = {}

-----------------------------------------------------------------------------
(* Mutant: the beat resolves without waiting for the QC.                   *)
beat_never_locked ==
    /\ idle(Leader)
    /\ beats < MaxBeats
    /\ beats' = beats + 1
    /\ locked' = TRUE /\ due' = TRUE
    /\ UNCHANGED <<pm_vars, pending_beats, last_proposed, qc_waiting>>

(* beat pushes and calls schedule_next, which takes the beat at once when  *)
(* none is under way; async_qc_finish resolves at once on a finished QC.   *)
beat ==
    /\ idle(Leader)
    /\ beats < MaxBeats
    /\ beats' = beats + 1
    /\ IF locked
       THEN pending_beats' = pending_beats + 1
            /\ UNCHANGED <<locked, due, qc_waiting>>
       ELSE /\ locked' = TRUE
            /\ due' = has_qc(last_proposed)
            /\ qc_waiting' = IF due' THEN {} ELSE {last_proposed}
            /\ UNCHANGED pending_beats
    /\ UNCHANGED <<pm_vars, last_proposed>>

(* Mutant: the next beat is not taken.                                     *)
propose_forgets_queue(b) ==
    /\ due
    /\ pm_propose(Leader, b)
    /\ due' = FALSE /\ locked' = FALSE
    /\ last_proposed' = b
    /\ UNCHANGED <<beats, pending_beats, qc_waiting>>

(* The continuation of the beat: on_propose on get_parents().  Its         *)
(* callback update_last_proposed unlocks, and takes the next beat if one   *)
(* is queued; the new block has no QC yet.                                 *)
propose(b) ==
    /\ due
    /\ pm_propose(Leader, b)
    /\ due' = FALSE
    /\ IF status'[Leader] = "running"
       THEN /\ last_proposed' = b
            /\ locked' = (pending_beats > 0)
            /\ pending_beats' = IF locked' THEN pending_beats - 1 ELSE 0
            /\ qc_waiting' = IF locked' THEN {b} ELSE {}
       ELSE UNCHANGED <<last_proposed, locked, pending_beats, qc_waiting>>
    /\ UNCHANGED beats

(* Mutant: looks at the QC before the vote is counted.                     *)
resolves_late(r, b) == r = Leader /\ has_qc(b) /\ b \in qc_waiting

(* on_qc_finish resolves what waits for the QC of b.                       *)
resolves(r, b) == r = Leader /\ completes(r, b) /\ b \in qc_waiting

receive_vote(r, v, b) ==
    /\ r = Leader => ~due /\ receiving[r] = b0 /\ (own_vote = {} \/ v = r)
    /\ pm_receive_vote(r, v, b)
    /\ due' = (due \/ resolves(r, b))
    /\ qc_waiting' = IF resolves(r, b) THEN {} ELSE qc_waiting
    /\ UNCHANGED <<beats, pending_beats, locked, last_proposed>>

deliver_blk(r, b) ==
    idle(r) /\ pm_deliver_blk(r, b) /\ UNCHANGED wait_vars

(* No proposal of another brings the QC that a beat waits for.             *)
receive_proposal(r, b) ==
    /\ idle(r)
    /\ r = Leader => qc_ref[b] \notin qc_waiting
    /\ pm_receive_proposal(r, b)
    /\ UNCHANGED wait_vars

(* One does: on_qc_finish resolves the beat in the middle of the handler,  *)
(* which goes on when the leader has proposed.                             *)
receive_first(b) ==
    /\ idle(Leader)
    /\ qc_ref[b] \in qc_waiting
    /\ pm_receive_first(Leader, b)
    /\ due' = (status'[Leader] = "running")
    /\ qc_waiting' = IF due' THEN {} ELSE qc_waiting
    /\ UNCHANGED <<beats, pending_beats, locked, last_proposed>>

receive_last == ~due /\ pm_receive_last(Leader) /\ UNCHANGED wait_vars

FixedNext ==
    \/ beat \/ receive_last
    \/ \E b \in Block :
         \/ propose(b) \/ receive_first(b)
         \/ \E r \in Correct :
              \/ deliver_blk(r, b) \/ receive_proposal(r, b)
              \/ \E v \in Replica : receive_vote(r, v, b)

(* Between correct replicas messages arrive (salticidae keeps connections  *)
(* and resends nothing that TCP delivers), the event loop serves every     *)
(* message, and a handler that has started goes on.  Nothing is promised   *)
(* of the votes and blocks of faulty replicas, nor that beats are asked    *)
(* for.  What a replica does with a block it does once, a repetition       *)
(* changes nothing: so fairness for all its deliveries and proposals       *)
(* together reaches each.                                                  *)
FixedFairness ==
    /\ WF_fixed_vars(receive_last \/ \E b \in Block : propose(b))
    /\ WF_fixed_vars(\E b \in Block, v \in Correct : receive_vote(Leader, v, b))
    /\ \A r \in Correct :
         WF_fixed_vars(\E b \in proposed : deliver_blk(r, b) \/ receive_proposal(r, b))

FixedSpec == FixedInit /\ [][FixedNext]_fixed_vars /\ FixedFairness

-----------------------------------------------------------------------------
(* Properties *)

(* Some replica has got a block of a faulty one.  Nothing in the code      *)
(* keeps a replica that is not the fixed proposer from proposing: its      *)
(* block may become the leader's hqc_tail, or take the leader's vote to a  *)
(* height above it.  From then on the claims on the leader's one chain are *)
(* off.                                                                    *)
Foreign == \E r \in Correct : \E b \in delivered[r] \ {b0} : creator[b] \in Faulty

(* `PaceMakers derived from this class will beat only when the last block  *)
(* proposed by itself gets its QC': each block certifies its parent, so    *)
(* that the direct three-chains update asks for arise without a gap.       *)
ProposalsCertifyParent == Foreign \/ \A b \in proposed : qc_ref[b] = parent[b]

(* A beat is neither lost nor taken twice, wherever it is: proposed, being *)
(* proposed, waiting for the QC, or queued (and the variables have their   *)
(* types), with the blocks of faulty replicas as without.                  *)
BeatsAccounted ==
    /\ FixedTypeOK
    /\ beats = Cardinality(proposed) + pending_beats + (IF locked THEN 1 ELSE 0)
    /\ status[Leader] = "running" => (locked <=> (due \/ qc_waiting # {}))
    /\ pending_beats > 0 => locked

(* Every beat leads to a proposal, although the QC it waits for needs the  *)
(* votes of replicas that may get the blocks late and out of order.        *)
BeatsPropose ==
    \A n \in 1 .. MaxBeats : beats = n ~> Cardinality(proposed) >= n \/ Foreign

(* The block three QCs below a proposal is executed by every correct       *)
(* replica, one that missed the proposals in between included.             *)
EventuallyExecuted ==
    \A b \in {x \in Block : height[x] > 3} :
        b \in proposed ~> Foreign \/ \A r \in Correct : blk(b) \in decision[r]

(* What the ordering pipeline builds on: a beat makes at most one block,   *)
(* the blocks are one chain, and the k-th is executed when the (k+3)-rd is *)
(* there, by the proposer with it, whatever order QCs and blocks come in,  *)
(* and up to the first block of a faulty replica.                          *)
Beats == INSTANCE BeatChain
    WITH Node <- Correct, Proposer <- Leader, asked <- beats,
         blocks <- Cardinality(proposed),
         executed <- [r \in Correct |-> height[b_exec[r]]]
beat_vars == <<beats, Cardinality(proposed), [r \in Correct |-> height[b_exec[r]]]>>
BeatChainSpec == Beats!Init /\ [][Beats!Next \/ Foreign']_beat_vars
=============================================================================
