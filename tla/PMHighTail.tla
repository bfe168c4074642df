----------------------------- MODULE PMHighTail -----------------------------
(***************************************************************************)
(* HotStuffCore driven by PMHighTail (liveness.h), the parent selection of *)
(* every pacemaker: a new block goes on hqc_tail, the highest tail that    *)
(* follows the block of the highest QC.  The pacemaker keeps hqc_tail      *)
(* through three callbacks that run inside the handlers of the core:       *)
(* on_hqc_update (in update_hqc), on_receive_proposal_ and on_propose_.    *)
(*                                                                         *)
(* When a replica proposes is decided by the other half of the pacemaker   *)
(* (PMWaitQC, PMRoundRobinProposer): here a replica of Proposers may       *)
(* propose at any time.                                                    *)
(***************************************************************************)
EXTENDS HotStuffCore

CONSTANT Proposers   \* the correct replicas the pacemaker lets propose

ASSUME ProposersAssumption == Proposers \subseteq Correct

VARIABLES
    hqc_tail,    \* hqc_tail[r]: the block r will propose on
    receiving    \* receiving[r]: the received block whose proposal r is in
                 \* the middle of handling, b0 for none

pm_vars == <<core_vars, hqc_tail, receiving>>

PMTypeOK ==
    TypeOK /\ hqc_tail \in [Correct -> Block] /\ receiving \in [Correct -> Block]

PMInit ==
    Init /\ hqc_tail = [r \in Correct |-> b0] /\ receiving = [r \in Correct |-> b0]

(* Mutant: the new hqc without the tails above it.                         *)
hqc_only(h, T) == {h}

(* What the loop of reg_hqc_update may leave in hqc_tail: the set of tails *)
(* is ordered by address, so among equally high tails any may come first.  *)
highest_tails(h, T) ==
    LET S == {h} \cup {t \in T : Extends(t, h)}
    IN  {t \in S : \A s \in S : height[s] <= height[t]}

(* The callback of reg_hqc_update runs only when update_hqc raised hqc.    *)
reg_hqc_update(r) ==
    IF hqc'[r] = hqc[r] THEN {hqc_tail[r]} ELSE highest_tails(hqc'[r], tails[r])

(* Mutant: without check_ancestry.                                         *)
reg_receive_any(r, b, t) == IF height[b] > height[t] THEN b ELSE t

(* reg_receive_proposal: a received block becomes the tail when it follows *)
(* hqc and is higher.                                                      *)
reg_receive_proposal(r, b, t) ==
    IF Extends(b, hqc'[r]) /\ height[b] > height[t] THEN b ELSE t

-----------------------------------------------------------------------------
pm_deliver_blk(r, b) ==
    /\ receiving[r] = b0
    /\ on_deliver_blk(r, b)
    /\ UNCHANGED <<hqc_tail, receiving>>

(* on_propose never moves hqc, its block carries it; the exceptions leave  *)
(* it before reg_receive_proposal and reg_proposal are called.             *)
pm_propose(r, b) ==
    /\ r \in Proposers
    /\ parent[b] = hqc_tail[r]
    /\ on_propose(r, b)
    /\ hqc_tail' = [hqc_tail EXCEPT ![r] = IF status'[r] = "running" THEN b ELSE @]
    /\ UNCHANGED receiving

pm_receive_proposal(r, b) ==
    /\ receiving[r] = b0
    /\ on_receive_proposal(r, b)
    /\ \E t \in reg_hqc_update(r) :
         hqc_tail' = [hqc_tail EXCEPT ![r] =
                        IF status'[r] = "running"
                        THEN reg_receive_proposal(r, b, t) ELSE t]
    /\ UNCHANGED receiving

(* Before it calls reg_receive_proposal and sends its vote,                *)
(* on_receive_proposal tells whoever waits for the QC of qc_ref[b]; a      *)
(* replica waits for QCs of its own blocks only, and what waited proposes  *)
(* right there.  So a proposal with the QC of one's own block can come in  *)
(* two halves (the vote, decided before, is part of the first).            *)
pm_receive_first(r, b) ==
    /\ receiving[r] = b0
    /\ qc_ref[b] # b0 /\ creator[qc_ref[b]] = r
    /\ on_receive_proposal(r, b)
    /\ \E t \in reg_hqc_update(r) : hqc_tail' = [hqc_tail EXCEPT ![r] = t]
    /\ receiving' = [receiving EXCEPT ![r] = IF status'[r] = "running" THEN b ELSE @]

pm_receive_last(r) ==
    /\ receiving[r] # b0
    /\ status[r] = "running"
    /\ UNCHANGED core_vars
    /\ hqc_tail' = [hqc_tail EXCEPT ![r] = reg_receive_proposal(r, receiving[r], @)]
    /\ receiving' = [receiving EXCEPT ![r] = b0]

pm_receive_vote(r, v, b) ==
    /\ receiving[r] = b0
    /\ on_receive_vote(r, v, b)
    /\ \E t \in reg_hqc_update(r) : hqc_tail' = [hqc_tail EXCEPT ![r] = t]
    /\ UNCHANGED receiving

PMNext ==
    \E r \in Correct :
        \/ pm_receive_last(r)
        \/ \E b \in Block :
             \/ pm_propose(r, b)
             \/ pm_deliver_blk(r, b)
             \/ pm_receive_proposal(r, b)
             \/ pm_receive_first(r, b)
             \/ \E v \in Replica : pm_receive_vote(r, v, b)

PMSpec == PMInit /\ [][PMNext]_pm_vars

-----------------------------------------------------------------------------
(* Properties *)

(* The block the next proposal goes on is delivered and follows the block  *)
(* of the highest QC, although the two are kept by different objects and   *)
(* hqc moves in handlers of votes and of other proposals: so a block that  *)
(* a correct replica proposes is Justified.                                *)
TailExtendsHqc ==
    \A r \in Correct : /\ hqc_tail[r] \in delivered[r]
                       /\ Extends(hqc_tail[r], hqc[r])

(* tails is what reg_hqc_update searches: every delivered block is below   *)
(* one of the tails, and no tail is below another.                         *)
TailsCoverDelivered ==
    \A r \in Correct :
        /\ \A b \in delivered[r] : \E t \in tails[r] : Extends(t, b)
        /\ \A s, t \in tails[r] : Extends(t, s) => s = t

(* As long as a replica has received blocks of nobody else, the exception  *)
(* "new block should be higher than vheight" of on_propose is unreachable: *)
(* when its QCs come late hqc_tail goes on from its own last block, not    *)
(* from the certified one.                                                 *)
SoleProposerNeverStale ==
    \A r \in Correct :
        (\A b \in delivered[r] \ {b0} : creator[b] = r) => status[r] # "stale"

(* `new block should be higher than vheight`: the same whoever proposes.   *)
NeverStale == \A r \in Correct : status[r] # "stale"

-----------------------------------------------------------------------------
(* The inductive invariant behind the first two. *)

(* The block whose proposal is being handled is delivered.                 *)
ReceivingInv == \A r \in Correct : receiving[r] \in delivered[r]

PMInv ==
    /\ PMTypeOK /\ DeliveredInv /\ ReceivingInv
    /\ TailsCoverDelivered /\ TailExtendsHqc
=============================================================================
