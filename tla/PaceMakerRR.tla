----------------------------- MODULE PaceMakerRR -----------------------------
(***************************************************************************)
(* The rotating pacemaker (PMRoundRobinProposer in liveness.h) on top of   *)
(* PMHighTail.  Each replica has its own idea of who proposes.  When it is *)
(* impatient it rotates: after one timeout the replica it then believes in *)
(* proposes four empty blocks, each on the QC of the one before, after     *)
(* another one the next replica is tried.  The rotation stops when the     *)
(* first block of the believed proposer is decided.                        *)
(*                                                                         *)
(* Promises resolve synchronously, so that one handler may propose several *)
(* times: what is still to run is kept in `due`, and the replica does      *)
(* nothing else until it is empty.  A promise of async_qc_finish is shared *)
(* by all that wait for one block: rejecting it forgets them all, and it   *)
(* stays rejected for those that ask later.                                *)
(***************************************************************************)
EXTENDS PMHighTail, Sequences

CONSTANTS
    MaxBeats,      \* how many beats are asked for (bound for TLC)
    MaxRotations   \* how often a replica rotates (bound for TLC)

ASSUME RRAssumption ==
    /\ Replica = 0 .. Cardinality(Replica) - 1
    /\ MaxBeats \in Nat /\ MaxRotations \in Nat

VARIABLES
    pm,      \* pm[r]: the pacemaker of r
    due,     \* due[r]: resolved promises whose continuations are to run
    beats,   \* beats asked for so far
    turns    \* turns[r]: how often r has rotated

rr_vars == <<pm_vars, pm, due, beats, turns>>

(* The continuations: of a beat; of the timer that starts a new consensus; *)
(* and of its blocks, but for the last one's, which does nothing.          *)
Beat == "beat"
Expired == "expired"
Waiting == {Beat, "x0", "x1", "x2"}

(* do_new_consensus(x) is called by the timer and by the callback of x - 1.*)
consensus_index(c) ==
    CASE c = Expired -> "x0" [] c = "x0" -> "x1" [] c = "x1" -> "x2" [] c = "x2" -> "x3"

(* prop_blk[p] is the first block of p seen in this rotation, b0 for none; *)
(* qc_waiting[b] lists what waits on the promise for the QC of b; for a    *)
(* promise that has resolved pm_qc_finish and pm_qc_manual are b0.         *)
PM == [ proposer: Replica, rotating: BOOLEAN,
        timer: {"none", "exp", "prop"},
        prop_blk: [Replica -> Block],
        pending_beats: 0 .. MaxBeats, locked: BOOLEAN, last_proposed: Block,
        qc_waiting: [Block -> Seq(Waiting)],
        rejected: SUBSET Block,
        pm_qc_finish: Block, pm_qc_manual: Block ]

RRTypeOK ==
    /\ PMTypeOK
    /\ pm \in [Correct -> PM]
    /\ due \in [Correct -> Seq(Waiting \cup {Expired})]
    /\ beats \in 0 .. MaxBeats /\ turns \in [Correct -> 0 .. MaxRotations]

RRInit ==
    /\ PMInit
    /\ pm = [r \in Correct |->
               [ proposer |-> 0, rotating |-> FALSE, timer |-> "none",
                 prop_blk |-> [p \in Replica |-> b0],
                 pending_beats |-> 0, locked |-> FALSE, last_proposed |-> b0,
                 qc_waiting |-> [b \in Block |-> <<>>], rejected |-> {},
                 pm_qc_finish |-> b0, pm_qc_manual |-> b0 ]]
    /\ due = [r \in Correct |-> <<>>]
    /\ beats = 0 /\ turns = [r \in Correct |-> 0]

-----------------------------------------------------------------------------
(* Operators on the state s of one pacemaker. *)

has_qc(r, b) == Cardinality(voted[r][b]) >= nmajority

among(x, w) == \E i \in DOMAIN w : w[i] = x

(* reject of a promise of async_qc_finish: none of those that wait for b   *)
(* runs, now or later.  A resolved promise stays resolved.                 *)
reject(s, b) ==
    IF b = b0 THEN s
    ELSE [s EXCEPT !.qc_waiting[b] = <<>>, !.rejected = @ \cup {b}]

(* on_qc_finish resolves the promise for b and forgets it; whoever asks    *)
(* again gets a new one.                                                   *)
on_qc_finish(s, b) ==
    [s EXCEPT !.qc_waiting[b] = <<>>, !.rejected = @ \ {b},
              !.pm_qc_finish = IF @ = b THEN b0 ELSE @,
              !.pm_qc_manual = IF @ = b THEN b0 ELSE @]

(* async_qc_finish(b).then(run), for a block that has no QC yet.           *)
async_qc_finish(s, b, run) ==
    IF b \in s.rejected THEN s
    ELSE [s EXCEPT !.qc_waiting[b] = Append(@, run)]

may_schedule(s) == s.pending_beats > 0 /\ ~s.locked

(* proposer_schedule_next, but for a last block that has its QC.           *)
schedule_next(s) ==
    IF may_schedule(s)
    THEN LET q == reject(s, s.pm_qc_finish)
         IN  [async_qc_finish(q, s.last_proposed, Beat) EXCEPT
                !.pending_beats = @ - 1, !.locked = TRUE,
                !.pm_qc_finish = s.last_proposed]
    ELSE s

reject_all(s) == reject(reject(s, s.pm_qc_finish), s.pm_qc_manual)

next_of(p) == (p + 1) % Cardinality(Replica)

(* Mutant: the new consensus of the last turn goes on.                     *)
rotate_goes_on(s) ==
    [reject(s, s.pm_qc_finish) EXCEPT
        !.prop_blk = [p \in Replica |-> b0], !.rotating = TRUE,
        !.proposer = next_of(@), !.timer = "exp"]

rotate(s) ==
    [reject_all(s) EXCEPT
        !.prop_blk = [p \in Replica |-> b0], !.rotating = TRUE,
        !.proposer = next_of(@), !.timer = "exp"]

(* Mutant: a beat of an earlier turn keeps the proposer locked.            *)
stop_rotate_locked(s) ==
    [reject_all(s) EXCEPT
        !.timer = "none", !.rotating = FALSE, !.last_proposed = b0]

stop_rotate(s) ==
    [reject_all(s) EXCEPT
        !.timer = "none", !.rotating = FALSE,
        !.locked = FALSE, !.last_proposed = b0]

(* on_consensus, called by update for each block of the commit queue Q.    *)
on_consensus(s, Q) ==
    IF Q = {} THEN s
    ELSE IF s.prop_blk[s.proposer] \in Q THEN stop_rotate(s)
         ELSE [s EXCEPT !.timer = "none"]

(* The commit queue of update(b) at r.                                     *)
consensus(r, b) ==
    IF commits(r, b) /\ ~breaches(r, b) THEN commit_queue(r, b) ELSE {}

(* reg_proposal and reg_receive_proposal: the first block of p.  (A        *)
(* callback left over from a rotation that has stopped changes nothing     *)
(* that is read before the next rotation clears prop_blk.)                 *)
reg_prop_blk(s, p, b) ==
    IF s.rotating /\ s.prop_blk[p] = b0 THEN [s EXCEPT !.prop_blk[p] = b] ELSE s

(* Mutant: unlocks without taking the next beat.                           *)
update_without_next(s, b) ==
    IF s.rotating THEN s ELSE [s EXCEPT !.last_proposed = b, !.locked = FALSE]

(* proposer_update_last_proposed, whose promise is rejected in a rotation. *)
update_last_proposed(s, b) ==
    IF s.rotating THEN s
    ELSE schedule_next([s EXCEPT !.last_proposed = b, !.locked = FALSE])

(* The end of do_new_consensus(x): wait for the QC of its block.           *)
wait_manual(s, b, x) ==
    LET q == reject(s, s.pm_qc_manual)
    IN  [(IF x = "x3" THEN q ELSE async_qc_finish(q, b, x)) EXCEPT !.pm_qc_manual = b]

(* The pacemaker's part of on_propose(b) at r.                             *)
after_propose(r, b) ==
    update_last_proposed(reg_prop_blk(on_consensus(pm[r], consensus(r, b)), r, b), b)

-----------------------------------------------------------------------------
idle(r) == status[r] = "running" /\ due[r] = <<>> /\ receiving[r] = b0

set(r, s) == pm' = [pm EXCEPT ![r] = s]

(* process_local_order asks for a beat when r believes it is the proposer. *)
(* In a rotation the promise is resolved as it is made.                    *)
beat(r) ==
    LET s == pm[r]
        q == [s EXCEPT !.pending_beats = @ + 1]
        taken == [reject(q, s.pm_qc_finish) EXCEPT
                    !.pending_beats = @ - 1, !.locked = TRUE, !.pm_qc_finish = b0]
    IN  /\ idle(r) /\ s.proposer = r
        /\ beats < MaxBeats /\ beats' = beats + 1
        /\ IF s.rotating
           THEN due' = [due EXCEPT ![r] = <<Beat>>] /\ UNCHANGED pm
           ELSE IF may_schedule(q) /\ has_qc(r, s.last_proposed)
           THEN set(r, taken) /\ due' = [due EXCEPT ![r] = <<Beat>>]
           ELSE set(r, schedule_next(q)) /\ UNCHANGED due
        /\ UNCHANGED <<pm_vars, turns>>

(* The application's impeach timer, whenever requests are waiting.         *)
impeach(r) ==
    /\ idle(r) /\ ~pm[r].rotating
    /\ turns[r] < MaxRotations /\ turns' = [turns EXCEPT ![r] = @ + 1]
    /\ set(r, rotate(pm[r]))
    /\ UNCHANGED <<pm_vars, due, beats>>

(* The second timer of a rotation.                                         *)
prop_timeout(r) ==
    /\ idle(r) /\ pm[r].timer = "prop"
    /\ turns[r] < MaxRotations /\ turns' = [turns EXCEPT ![r] = @ + 1]
    /\ set(r, rotate(pm[r]))
    /\ UNCHANGED <<pm_vars, due, beats>>

(* The first one: the proposer begins a new consensus.                     *)
on_exp_timeout(r) ==
    /\ idle(r) /\ pm[r].timer = "exp"
    /\ IF pm[r].proposer = r
       THEN due' = [due EXCEPT ![r] = <<Expired>>] /\ set(r, [pm[r] EXCEPT !.timer = "none"])
       ELSE set(r, [pm[r] EXCEPT !.timer = "prop"]) /\ UNCHANGED due
    /\ UNCHANGED <<pm_vars, beats, turns>>

(* The next continuation of r's handler runs and proposes b.               *)
on_beat(r, b) ==
    /\ due[r] # <<>> /\ Head(due[r]) = Beat
    /\ pm_propose(r, b)
    /\ set(r, IF status'[r] = "running" THEN after_propose(r, b) ELSE pm[r])
    /\ due' = [due EXCEPT ![r] = IF status'[r] = "running" THEN Tail(@) ELSE <<>>]
    /\ UNCHANGED <<beats, turns>>

do_new_consensus(r, b) ==
    /\ due[r] # <<>> /\ Head(due[r]) # Beat
    /\ pm_propose(r, b)
    /\ LET x == consensus_index(Head(due[r]))
           s == wait_manual(after_propose(r, b), b, x)
       IN  set(r, IF status'[r] # "running" THEN pm[r]
                  ELSE IF x = "x0" THEN [s EXCEPT !.timer = "prop"] ELSE s)
    /\ due' = [due EXCEPT ![r] = IF status'[r] = "running" THEN Tail(@) ELSE <<>>]
    /\ UNCHANGED <<beats, turns>>

without_beats(w) == SelectSeq(w, LAMBDA x : x # Beat)

(* What runs when the promise for b resolves: a beat is resolved with the  *)
(* proposer r believes in and dropped when this is not r.                  *)
resolved(r, s, b) ==
    LET runs == s.qc_waiting[b]
    IN  IF among(Beat, runs) /\ s.proposer # r THEN without_beats(runs) ELSE runs

(* The vote that completes the QC of b resolves the promise.               *)
receive_vote(r, v, b) ==
    /\ idle(r)
    /\ pm_receive_vote(r, v, b)
    /\ IF completes(r, b)
       THEN /\ due' = [due EXCEPT ![r] = resolved(r, pm[r], b)]
            /\ set(r, on_qc_finish(pm[r], b))
       ELSE UNCHANGED <<due, pm>>
    /\ UNCHANGED <<beats, turns>>

(* So does a proposal with the QC of qc_ref[b].  Before, update called     *)
(* on_consensus; after, reg_receive_proposal is called.                    *)
updated(r, b) == on_consensus(pm[r], consensus(r, b))

receive_proposal(r, b) ==
    /\ idle(r)
    /\ pm_receive_proposal(r, b)
    /\ updated(r, b).qc_waiting[qc_ref[b]] = <<>>
    /\ set(r, IF status'[r] = "running"
              THEN reg_prop_blk(on_qc_finish(updated(r, b), qc_ref[b]), creator[b], b)
              ELSE pm[r])
    /\ UNCHANGED <<due, beats, turns>>

(* When somebody waits for the QC, what it does comes between the halves.  *)
receive_first(r, b) ==
    /\ idle(r)
    /\ pm_receive_first(r, b)
    /\ updated(r, b).qc_waiting[qc_ref[b]] # <<>>
    /\ IF status'[r] = "running"
       THEN /\ due' = [due EXCEPT ![r] = resolved(r, updated(r, b), qc_ref[b])]
            /\ set(r, on_qc_finish(updated(r, b), qc_ref[b]))
       ELSE UNCHANGED <<due, pm>>
    /\ UNCHANGED <<beats, turns>>

receive_last(r) ==
    /\ due[r] = <<>>
    /\ pm_receive_last(r)
    /\ set(r, reg_prop_blk(pm[r], creator[receiving[r]], receiving[r]))
    /\ UNCHANGED <<due, beats, turns>>

deliver_blk(r, b) ==
    idle(r) /\ pm_deliver_blk(r, b) /\ UNCHANGED <<pm, due, beats, turns>>

RRNext ==
    \E r \in Correct :
        \/ beat(r) \/ impeach(r) \/ on_exp_timeout(r) \/ prop_timeout(r)
        \/ receive_last(r)
        \/ \E b \in Block :
             \/ on_beat(r, b) \/ do_new_consensus(r, b)
             \/ deliver_blk(r, b) \/ receive_proposal(r, b) \/ receive_first(r, b)
             \/ \E v \in Replica : receive_vote(r, v, b)

RRSpec == RRInit /\ [][RRNext]_rr_vars

-----------------------------------------------------------------------------
(* Properties *)

(* Only the replica it believes in proposes: neither a beat taken nor a    *)
(* new consensus begun in one turn goes on in another one's.               *)
ProposesInTurn ==
    [][\A b \in proposed' \ proposed : pm[creator[b]].proposer = creator[b]]_rr_vars

(* Outside rotations a proposer is locked only as long as a beat really    *)
(* waits for the QC of its last block or is being proposed: otherwise no   *)
(* beat would ever be taken again in this turn.                            *)
LockedIsLive ==
    \A r \in Correct :
        LET s == pm[r]
        IN  status[r] = "running" /\ ~s.rotating /\ s.locked =>
              among(Beat, due[r]) \/ among(Beat, s.qc_waiting[s.last_proposed])

(* A beat that waits in the queue of the proposer is behind one that has   *)
(* been taken (and the variables have their types).  Not so when a block   *)
(* of another replica stopped the rotation and r has proposed nothing      *)
(* since: stop_rotate takes no beat, the queue waits for the next one.     *)
QueueServed ==
    /\ RRTypeOK
    /\ \A r \in Correct :
        LET s == pm[r]
        IN  ~s.rotating /\ s.proposer = r /\ s.pending_beats > 0 =>
              s.locked \/ s.last_proposed = b0
=============================================================================
