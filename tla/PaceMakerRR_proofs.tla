-------------------------- MODULE PaceMakerRR_proofs --------------------------
(***************************************************************************)
(* Whatever the rotating pacemaker does with its promises and timers, it   *)
(* only chooses when PMHighTail proposes: what is proved of PMHighTail and *)
(* of HotStuffCore holds under it, with any number of proposers at once.   *)
(* The pacemaker's own invariant, RRInv, is about who waits on which       *)
(* promise: the operators of PaceMakerRR are taken one by one (schedule_   *)
(* next, update_last_proposed, wait_manual, rotate, stop_rotate), then the *)
(* actions that are built from them.                                       *)
(***************************************************************************)
EXTENDS PaceMakerRR, HotStuffCore_proofs, SequenceTheorems

(* Beats, timers and rotations leave the core alone.                       *)
LEMMA TimersLeaveCore ==
    ASSUME NEW r \in Correct,
           beat(r) \/ impeach(r) \/ on_exp_timeout(r) \/ prop_timeout(r)
    PROVE  UNCHANGED pm_vars
  BY DEF beat, impeach, on_exp_timeout, prop_timeout

(* A continuation that proposes is a proposal of PMHighTail, and the       *)
(* handlers of messages are its handlers.                                  *)
LEMMA HandlersArePM ==
    ASSUME NEW r \in Correct, NEW b \in Block,
           \/ on_beat(r, b) \/ do_new_consensus(r, b) \/ receive_last(r)
           \/ deliver_blk(r, b) \/ receive_proposal(r, b) \/ receive_first(r, b)
           \/ \E v \in Replica : receive_vote(r, v, b)
    PROVE  PMNext
<1>1. CASE on_beat(r, b) \/ do_new_consensus(r, b)
  <2>1. pm_propose(r, b)
    BY <1>1 DEF on_beat, do_new_consensus
  <2>. QED BY <2>1 DEF PMNext
<1>2. CASE deliver_blk(r, b) \/ receive_proposal(r, b) \/ receive_first(r, b)
  <2>1. pm_deliver_blk(r, b) \/ pm_receive_proposal(r, b) \/ pm_receive_first(r, b)
    BY <1>2 DEF deliver_blk, receive_proposal, receive_first
  <2>. QED BY <2>1 DEF PMNext
<1>3. ASSUME NEW v \in Replica, receive_vote(r, v, b) PROVE PMNext
  <2>1. pm_receive_vote(r, v, b)
    BY <1>3 DEF receive_vote
  <2>. QED BY <2>1 DEF PMNext
<1>4. CASE receive_last(r)
  <2>1. pm_receive_last(r)
    BY <1>4 DEF receive_last
  <2>. QED BY <2>1 DEF PMNext
<1>. QED BY <1>1, <1>2, <1>3, <1>4

(* The rotating pacemaker implements PMHighTail with several proposers.    *)
THEOREM RRRefinesPM == RRSpec => PMSpec
<1>1. RRInit => PMInit
  BY DEF RRInit
<1>2. [RRNext]_rr_vars => [PMNext]_pm_vars
  <2>1. CASE UNCHANGED rr_vars
    BY <2>1 DEF rr_vars
  <2>2. CASE RRNext
    BY <2>2, TimersLeaveCore, HandlersArePM, TreeType DEF RRNext
  <2>. QED BY <2>1, <2>2
<1>. QED BY <1>1, <1>2, PTL DEF RRSpec, PMSpec

(* As long as QCs keep to their branches, rotations never make two correct *)
(* replicas execute different chains, and never lead to the exception      *)
(* "safety breached".                                                      *)
THEOREM RRLedger == RRSpec => LedgerSpec /\ []NeverBreached
  BY RRRefinesPM, PMRefinesCore, SpecLedger, SpecNeverBreached, PTL

(* After any rotations a replica still proposes on a block it has          *)
(* delivered and that follows its hqc.                                     *)
THEOREM RRTailExtendsHqc == RRSpec => []TailExtendsHqc
  BY RRRefinesPM, PMTailExtendsHqc, PTL
-----------------------------------------------------------------------------
(* The invariant of the rotations.  The pacemaker's operators read the QCs *)
(* the replica has counted and its own blocks only: Q and M stand for      *)
(* these.                                                                  *)

HaveQC(r) == {b \in Block : has_qc(r, b)}

(* What r may wait for: blocks it has broadcast, and the genesis block.    *)
Mine(r) == {b0} \cup {b \in proposed : creator[b] = r}

(* Whoever waits does so in r's turn, on one of the two promises the       *)
(* pacemaker can reject, for a QC that is not there.                       *)
WaitsInTurn(r, s, Q) ==
    \A b \in Block : s.qc_waiting[b] # <<>> =>
        s.proposer = r /\ b \in {s.pm_qc_finish, s.pm_qc_manual} \ Q

(* A beat that is taken next is not going to wait on a rejected promise.   *)
FreeToWait(s, Q) ==
    ~s.rotating /\ ~s.locked =>
        s.last_proposed \in Q \/ s.last_proposed \notin s.rejected \cup {s.pm_qc_finish}

Turn(r, s, M, Q) ==
    /\ s \in PM /\ b0 \in M /\ b0 \in Q
    /\ {s.last_proposed, s.pm_qc_finish, s.pm_qc_manual} \cup s.rejected \subseteq M
    /\ WaitsInTurn(r, s, Q) /\ FreeToWait(s, Q)

BeatRuns(s, q) ==
    ~s.rotating /\ s.locked => among(Beat, q) \/ among(Beat, s.qc_waiting[s.last_proposed])

BeatBehind(r, s) ==
    ~s.rotating /\ s.proposer = r /\ s.pending_beats > 0 => s.locked \/ s.last_proposed = b0

RRInv ==
    /\ RRTypeOK
    /\ \A r \in Correct :
         /\ Turn(r, pm[r], Mine(r), HaveQC(r))
         /\ due[r] # <<>> => pm[r].proposer = r
         /\ status[r] = "running" => BeatRuns(pm[r], due[r])
         /\ BeatBehind(r, pm[r])
         /\ pm[r].pending_beats <= beats

-----------------------------------------------------------------------------
(* Sequences of continuations.                                             *)
LEMMA AmongAppend ==
    ASSUME NEW S, NEW w \in Seq(S), NEW x \in S
    PROVE  /\ Append(w, x) \in Seq(S) /\ Append(w, x) # <<>>
           /\ among(x, Append(w, x))
           /\ \A y : among(y, w) => among(y, Append(w, x))
<1>1. /\ Append(w, x) \in Seq(S) /\ Append(w, x) # <<>>
      /\ Len(Append(w, x)) = Len(w) + 1 /\ Len(w) \in Nat
      /\ \A i \in 1 .. Len(w) : Append(w, x)[i] = w[i]
      /\ Append(w, x)[Len(w) + 1] = x
  BY AppendProperties
<1>2. DOMAIN w = 1 .. Len(w) /\ DOMAIN Append(w, x) = 1 .. Len(w) + 1
  BY <1>1
<1>. QED BY <1>1, <1>2 DEF among

LEMMA AmongTail ==
    ASSUME NEW S, NEW w \in Seq(S), w # <<>>
    PROVE  /\ Head(w) \in S /\ Tail(w) \in Seq(S)
           /\ \A y : among(y, w) /\ y # Head(w) => among(y, Tail(w))
<1>1. /\ Head(w) \in S /\ Tail(w) \in Seq(S) /\ Head(w) = w[1]
      /\ Len(w) \in Nat /\ Len(w) > 0 /\ Len(Tail(w)) = Len(w) - 1
      /\ \A i \in 1 .. Len(Tail(w)) : Tail(w)[i] = w[i + 1]
  BY HeadTailProperties, EmptySeq
<1>2. DOMAIN w = 1 .. Len(w) /\ DOMAIN Tail(w) = 1 .. Len(Tail(w))
  BY <1>1
<1>3. ASSUME NEW y, among(y, w), y # Head(w) PROVE among(y, Tail(w))
  <2>1. PICK i \in 1 .. Len(w) : w[i] = y
    BY <1>2, <1>3 DEF among
  <2>2. i # 1 /\ i - 1 \in 1 .. Len(Tail(w))
    BY <1>1, <1>3, <2>1
  <2>3. Tail(w)[i - 1] = y
    BY <1>1, <2>1, <2>2
  <2>. QED BY <1>2, <2>2, <2>3 DEF among
<1>. QED BY <1>1, <1>3

LEMMA NothingAmong ==
    \A x : ~among(x, <<>>)
  BY DEF among

-----------------------------------------------------------------------------
(* What reject changes: the promise for the genesis block is none.         *)
LEMMA RejectFields ==
    ASSUME NEW s \in PM, NEW b \in Block
    PROVE  LET t == reject(s, b)
           IN  /\ t \in PM
               /\ t.proposer = s.proposer /\ t.rotating = s.rotating
               /\ t.timer = s.timer /\ t.prop_blk = s.prop_blk
               /\ t.pending_beats = s.pending_beats /\ t.locked = s.locked
               /\ t.last_proposed = s.last_proposed
               /\ t.pm_qc_finish = s.pm_qc_finish /\ t.pm_qc_manual = s.pm_qc_manual
               /\ t.rejected \subseteq s.rejected \cup {b}
               /\ \A c \in Block : t.qc_waiting[c] # <<>> =>
                    s.qc_waiting[c] # <<>> /\ (c = b => b = b0)
               /\ \A c \in Block \ {b} : t.qc_waiting[c] = s.qc_waiting[c]
<1>1. CASE b = b0
  BY <1>1 DEF reject
<1>2. CASE b # b0
  <2> DEFINE W == [s.qc_waiting EXCEPT ![b] = <<>>]
             R == s.rejected \cup {b}
             t == [s EXCEPT !.qc_waiting = W, !.rejected = R]
  <2>1. s.qc_waiting \in [Block -> Seq(Waiting)] /\ s.rejected \in SUBSET Block
    BY DEF PM
  <2>2. /\ W \in [Block -> Seq(Waiting)] /\ R \in SUBSET Block
        /\ W[b] = <<>> /\ \A c \in Block \ {b} : W[c] = s.qc_waiting[c]
    <3>1. <<>> \in Seq(Waiting)
      OBVIOUS
    <3> HIDE DEF R
    <3>2. W \in [Block -> Seq(Waiting)] /\ W[b] = <<>>
          /\ \A c \in Block \ {b} : W[c] = s.qc_waiting[c]
      BY <2>1, <3>1
    <3>. QED BY <2>1, <3>2 DEF R
  <2>3. reject(s, b) = t
    BY <1>2 DEF reject
  <2> HIDE DEF W
  <2>4. /\ t \in PM
        /\ t.proposer = s.proposer /\ t.rotating = s.rotating
        /\ t.timer = s.timer /\ t.prop_blk = s.prop_blk
        /\ t.pending_beats = s.pending_beats /\ t.locked = s.locked
        /\ t.last_proposed = s.last_proposed
        /\ t.pm_qc_finish = s.pm_qc_finish /\ t.pm_qc_manual = s.pm_qc_manual
        /\ t.rejected = R /\ t.qc_waiting = W
    BY <2>2 DEF PM
  <2> HIDE DEF t
  <2>. QED BY <2>2, <2>3, <2>4
<1>. QED BY <1>1, <1>2

(* What async_qc_finish changes: rejected promises take nobody.            *)
LEMMA WaitFields ==
    ASSUME NEW s \in PM, NEW b \in Block, NEW x \in Waiting
    PROVE  LET t == async_qc_finish(s, b, x)
           IN  /\ t \in PM
               /\ t.proposer = s.proposer /\ t.rotating = s.rotating
               /\ t.timer = s.timer /\ t.prop_blk = s.prop_blk
               /\ t.pending_beats = s.pending_beats /\ t.locked = s.locked
               /\ t.last_proposed = s.last_proposed
               /\ t.pm_qc_finish = s.pm_qc_finish /\ t.pm_qc_manual = s.pm_qc_manual
               /\ t.rejected = s.rejected
               /\ \A c \in Block \ {b} : t.qc_waiting[c] = s.qc_waiting[c]
               /\ \A y : among(y, s.qc_waiting[b]) => among(y, t.qc_waiting[b])
               /\ b \notin s.rejected => among(x, t.qc_waiting[b])
<1>1. CASE b \in s.rejected
  BY <1>1 DEF async_qc_finish
<1>2. CASE b \notin s.rejected
  <2> DEFINE A == Append(s.qc_waiting[b], x)
             W == [s.qc_waiting EXCEPT ![b] = A]
             t == [s EXCEPT !.qc_waiting = W]
  <2>1. s.qc_waiting \in [Block -> Seq(Waiting)]
    BY DEF PM
  <2>2. /\ A \in Seq(Waiting) /\ among(x, A)
        /\ \A y : among(y, s.qc_waiting[b]) => among(y, A)
    <3>1. s.qc_waiting[b] \in Seq(Waiting)
      BY <2>1
    <3>. QED BY <3>1, AmongAppend
  <2>3. async_qc_finish(s, b, x) = t
    BY <1>2 DEF async_qc_finish
  <2> HIDE DEF A
  <2>4. /\ W \in [Block -> Seq(Waiting)]
        /\ W[b] = A /\ \A c \in Block \ {b} : W[c] = s.qc_waiting[c]
    BY <2>1, <2>2
  <2> HIDE DEF W
  <2>5. /\ t \in PM
        /\ t.proposer = s.proposer /\ t.rotating = s.rotating
        /\ t.timer = s.timer /\ t.prop_blk = s.prop_blk
        /\ t.pending_beats = s.pending_beats /\ t.locked = s.locked
        /\ t.last_proposed = s.last_proposed
        /\ t.pm_qc_finish = s.pm_qc_finish /\ t.pm_qc_manual = s.pm_qc_manual
        /\ t.rejected = s.rejected /\ t.qc_waiting = W
    BY <2>4 DEF PM
  <2> HIDE DEF t
  <2>. QED BY <1>2, <2>2, <2>3, <2>4, <2>5
<1>. QED BY <1>1, <1>2

-----------------------------------------------------------------------------
(* proposer_schedule_next: the beat it takes really waits.                 *)
LEMMA ScheduleFields ==
    ASSUME NEW s \in PM, may_schedule(s)
    PROVE  LET q == reject(s, s.pm_qc_finish)
               u == async_qc_finish(q, s.last_proposed, Beat)
               t == schedule_next(s)
           IN  /\ t \in PM
               /\ t.proposer = s.proposer /\ t.rotating = s.rotating
               /\ t.timer = s.timer /\ t.prop_blk = s.prop_blk
               /\ t.pending_beats = s.pending_beats - 1 /\ t.locked = TRUE
               /\ t.last_proposed = s.last_proposed
               /\ t.pm_qc_finish = s.last_proposed /\ t.pm_qc_manual = s.pm_qc_manual
               /\ t.rejected = q.rejected /\ t.qc_waiting = u.qc_waiting
<1> DEFINE q == reject(s, s.pm_qc_finish)
           u == async_qc_finish(q, s.last_proposed, Beat)
           n == s.pending_beats - 1
           t == [u EXCEPT !.pending_beats = n, !.locked = TRUE,
                          !.pm_qc_finish = s.last_proposed]
<1>1. s.pm_qc_finish \in Block /\ s.last_proposed \in Block /\ Beat \in Waiting
  BY DEF PM, Waiting
<1>2. /\ q \in PM /\ q.proposer = s.proposer /\ q.rotating = s.rotating
      /\ q.timer = s.timer /\ q.prop_blk = s.prop_blk
      /\ q.pending_beats = s.pending_beats
      /\ q.last_proposed = s.last_proposed /\ q.pm_qc_manual = s.pm_qc_manual
  BY <1>1, RejectFields
<1>3. n \in 0 .. MaxBeats
  BY RRAssumption DEF PM, may_schedule
<1> HIDE DEF q
<1>4. /\ u \in PM /\ u.proposer = s.proposer /\ u.rotating = s.rotating
      /\ u.timer = s.timer /\ u.prop_blk = s.prop_blk
      /\ u.pending_beats = s.pending_beats
      /\ u.last_proposed = s.last_proposed /\ u.pm_qc_manual = s.pm_qc_manual
      /\ u.rejected = q.rejected
  BY <1>1, <1>2, WaitFields
<1>5. schedule_next(s) = t
  BY <1>4 DEF schedule_next, q
<1> HIDE DEF u, n
<1>6. /\ t \in PM
      /\ t.proposer = u.proposer /\ t.rotating = u.rotating
      /\ t.timer = u.timer /\ t.prop_blk = u.prop_blk
      /\ t.pending_beats = n /\ t.locked = TRUE
      /\ t.last_proposed = u.last_proposed
      /\ t.pm_qc_finish = s.last_proposed /\ t.pm_qc_manual = u.pm_qc_manual
      /\ t.rejected = u.rejected /\ t.qc_waiting = u.qc_waiting
  BY <1>1, <1>3, <1>4 DEF PM
<1> HIDE DEF t
<1>. QED BY <1>4, <1>5, <1>6 DEF q, u, n

LEMMA ScheduleInv ==
    ASSUME NEW r \in Correct, NEW s, NEW M, Turn(r, s, M, HaveQC(r)),
           ~s.rotating, s.proposer = r,
           s.last_proposed \notin HaveQC(r) \/ ~may_schedule(s)
    PROVE  LET t == schedule_next(s)
           IN  /\ Turn(r, t, M, HaveQC(r))
               /\ t.proposer = r /\ t.rotating = s.rotating
               /\ t.last_proposed = s.last_proposed
               /\ t.pm_qc_manual = s.pm_qc_manual
               /\ t.pending_beats <= s.pending_beats
               /\ t.pending_beats > 0 => t.locked
               /\ \/ t = s
                  \/ among(Beat, t.qc_waiting[t.last_proposed])
<1>1. s \in PM /\ s.pending_beats \in Nat
  BY RRAssumption DEF Turn, PM
<1>2. CASE ~may_schedule(s)
  BY <1>1, <1>2 DEF schedule_next, may_schedule
<1>3. CASE may_schedule(s)
  <2> DEFINE q == reject(s, s.pm_qc_finish)
             u == async_qc_finish(q, s.last_proposed, Beat)
             t == schedule_next(s)
  <2>1. /\ s.pm_qc_finish \in Block /\ s.last_proposed \in Block /\ Beat \in Waiting
        /\ s.last_proposed \notin HaveQC(r)
        /\ s.last_proposed \notin s.rejected \cup {s.pm_qc_finish}
    BY <1>1, <1>3 DEF PM, Waiting, Turn, FreeToWait, may_schedule
  <2>2. /\ q \in PM /\ q.rejected \subseteq s.rejected \cup {s.pm_qc_finish}
        /\ \A c \in Block \ {s.pm_qc_finish} : q.qc_waiting[c] = s.qc_waiting[c]
        /\ \A c \in Block : q.qc_waiting[c] # <<>> =>
             s.qc_waiting[c] # <<>> /\ (c = s.pm_qc_finish => c = b0)
    BY <1>1, <2>1, RejectFields
  <2>3. /\ t \in PM
        /\ t.proposer = s.proposer /\ t.rotating = s.rotating
        /\ t.pending_beats = s.pending_beats - 1 /\ t.locked = TRUE
        /\ t.last_proposed = s.last_proposed
        /\ t.pm_qc_finish = s.last_proposed /\ t.pm_qc_manual = s.pm_qc_manual
        /\ t.rejected = q.rejected /\ t.qc_waiting = u.qc_waiting
    BY <1>1, <1>3, ScheduleFields
  <2> HIDE DEF q, t
  <2>4. /\ \A c \in Block \ {s.last_proposed} : u.qc_waiting[c] = q.qc_waiting[c]
        /\ among(Beat, u.qc_waiting[s.last_proposed])
    BY <2>1, <2>2, WaitFields
  <2> HIDE DEF u
  <2>5. ASSUME NEW b \in Block, t.qc_waiting[b] # <<>>
        PROVE  t.proposer = r /\ b \in {t.pm_qc_finish, t.pm_qc_manual} \ HaveQC(r)
    <3>1. CASE b = s.last_proposed
      BY <2>1, <2>3, <3>1
    <3>2. CASE b # s.last_proposed
      <4>1. q.qc_waiting[b] # <<>>
        BY <2>3, <2>4, <2>5, <3>2
      <4>2. s.qc_waiting[b] # <<>>
        BY <2>2, <4>1
      <4>3. b \in {s.pm_qc_finish, s.pm_qc_manual} \ HaveQC(r)
        BY <4>2 DEF Turn, WaitsInTurn
      <4>4. b # s.pm_qc_finish
        BY <2>2, <4>1, <4>3 DEF Turn
      <4>. QED BY <2>3, <4>3, <4>4
    <3>. QED BY <3>1, <3>2
  <2>6. WaitsInTurn(r, t, HaveQC(r)) /\ FreeToWait(t, HaveQC(r))
    BY <2>3, <2>5 DEF WaitsInTurn, FreeToWait
  <2>7. {t.last_proposed, t.pm_qc_finish, t.pm_qc_manual} \cup t.rejected \subseteq M
    BY <2>2, <2>3 DEF Turn
  <2>8. Turn(r, t, M, HaveQC(r))
    BY <2>3, <2>6, <2>7 DEF Turn
  <2>9. t.pending_beats <= s.pending_beats /\ among(Beat, t.qc_waiting[t.last_proposed])
    BY <1>1, <2>3, <2>4
  <2>. QED BY <2>3, <2>8, <2>9 DEF t
<1>. QED BY <1>2, <1>3

(* More blocks, and QCs only of blocks r does not point at, are no matter. *)
LEMMA TurnKept ==
    ASSUME NEW r, NEW s, NEW M, NEW Q, NEW M2, NEW Q2,
           Turn(r, s, M, Q), M \subseteq M2, Q \subseteq Q2, Q2 \cap M \subseteq Q
    PROVE  Turn(r, s, M2, Q2)
<1>1. WaitsInTurn(r, s, Q2)
  BY DEF Turn, WaitsInTurn
<1>2. FreeToWait(s, Q2)
  BY DEF Turn, FreeToWait
<1>. QED BY <1>1, <1>2 DEF Turn

(* proposer_update_last_proposed: the new block is free to be waited for.  *)
LEMMA UpdateInv ==
    ASSUME NEW r \in Correct, NEW s, NEW M, Turn(r, s, M, HaveQC(r)), s.proposer = r,
           NEW b \in Block \ (M \cup HaveQC(r))
    PROVE  LET t == update_last_proposed(s, b)
           IN  /\ Turn(r, t, M \cup {b}, HaveQC(r))
               /\ t.proposer = r /\ t.rotating = s.rotating
               /\ ~t.rotating => t.last_proposed = b
               /\ t.pm_qc_manual = s.pm_qc_manual
               /\ t.pending_beats <= s.pending_beats
               /\ BeatBehind(r, t) /\ \A q : BeatRuns(t, q)
<1>1. s \in PM /\ s.pending_beats \in Nat
  BY RRAssumption DEF Turn, PM
<1>2. Turn(r, s, M \cup {b}, HaveQC(r))
  BY TurnKept
<1>3. CASE s.rotating
  <2>1. update_last_proposed(s, b) = s
    BY <1>3 DEF update_last_proposed
  <2>2. BeatBehind(r, s) /\ \A q : BeatRuns(s, q)
    BY <1>3 DEF BeatBehind, BeatRuns
  <2>3. s.rotating = s.rotating /\ (~s.rotating => s.last_proposed = b)
    BY <1>3
  <2>. QED BY <1>1, <1>2, <2>1, <2>2, <2>3
<1>4. CASE ~s.rotating
  <2> DEFINE u == [s EXCEPT !.last_proposed = b, !.locked = FALSE]
             t == schedule_next(u)
  <2>1. /\ u \in PM
        /\ u.proposer = s.proposer /\ u.rotating = s.rotating
        /\ u.pending_beats = s.pending_beats /\ u.locked = FALSE
        /\ u.last_proposed = b
        /\ u.pm_qc_finish = s.pm_qc_finish /\ u.pm_qc_manual = s.pm_qc_manual
        /\ u.rejected = s.rejected /\ u.qc_waiting = s.qc_waiting
    BY <1>1 DEF PM
  <2>2. update_last_proposed(s, b) = t
    BY <1>4 DEF update_last_proposed
  <2> HIDE DEF u
  <2>3. b \notin s.rejected \cup {s.pm_qc_finish}
    BY DEF Turn
  <2>4. WaitsInTurn(r, u, HaveQC(r)) /\ FreeToWait(u, HaveQC(r))
    BY <1>2, <2>1, <2>3 DEF Turn, WaitsInTurn, FreeToWait
  <2>5. Turn(r, u, M \cup {b}, HaveQC(r))
    BY <1>2, <2>1, <2>4 DEF Turn
  <2>6. /\ Turn(r, t, M \cup {b}, HaveQC(r))
        /\ t.proposer = r /\ t.rotating = u.rotating
        /\ t.last_proposed = u.last_proposed
        /\ t.pm_qc_manual = u.pm_qc_manual
        /\ t.pending_beats <= u.pending_beats
        /\ t.pending_beats > 0 => t.locked
        /\ t = u \/ among(Beat, t.qc_waiting[t.last_proposed])
    BY <1>4, <2>1, <2>5, ScheduleInv
  <2> HIDE DEF t
  <2>7. BeatBehind(r, t) /\ \A q : BeatRuns(t, q)
    BY <1>4, <2>1, <2>6 DEF BeatBehind, BeatRuns
  <2>8. /\ t.rotating = s.rotating /\ t.last_proposed = b
        /\ t.pm_qc_manual = s.pm_qc_manual /\ t.pending_beats <= s.pending_beats
    BY <1>4, <2>1, <2>6
  <2>. QED BY <2>2, <2>6, <2>7, <2>8
<1>. QED BY <1>3, <1>4

(* The wait for the QC of a new consensus's block does not end the wait    *)
(* of a beat.                                                              *)
LEMMA ManualInv ==
    ASSUME NEW r \in Correct, NEW s, NEW M, Turn(r, s, M, HaveQC(r)), s.proposer = r,
           NEW b \in Block, b \in M, b \notin HaveQC(r), s.pm_qc_manual # b,
           ~s.rotating => s.last_proposed = b,
           NEW x \in {"x0", "x1", "x2", "x3"}, NEW q, BeatRuns(s, q)
    PROVE  LET t == wait_manual(s, b, x)
           IN  /\ Turn(r, t, M, HaveQC(r)) /\ BeatRuns(t, q)
               /\ t.proposer = r /\ t.rotating = s.rotating
               /\ t.last_proposed = s.last_proposed /\ t.locked = s.locked
               /\ t.pending_beats = s.pending_beats
<1> DEFINE m == s.pm_qc_manual
           v == reject(s, m)
           u == IF x = "x3" THEN v ELSE async_qc_finish(v, b, x)
           t == [u EXCEPT !.pm_qc_manual = b]
<1>1. s \in PM /\ m \in Block
  BY DEF Turn, PM
<1>2. /\ v \in PM
      /\ v.proposer = s.proposer /\ v.rotating = s.rotating
      /\ v.pending_beats = s.pending_beats /\ v.locked = s.locked
      /\ v.last_proposed = s.last_proposed
      /\ v.pm_qc_finish = s.pm_qc_finish
      /\ v.rejected \subseteq s.rejected \cup {m}
      /\ \A c \in Block \ {m} : v.qc_waiting[c] = s.qc_waiting[c]
      /\ \A c \in Block : v.qc_waiting[c] # <<>> =>
           s.qc_waiting[c] # <<>> /\ (c = m => c = b0)
  BY <1>1, RejectFields
<1> HIDE DEF v
<1>3. /\ u \in PM
      /\ u.proposer = s.proposer /\ u.rotating = s.rotating
      /\ u.pending_beats = s.pending_beats /\ u.locked = s.locked
      /\ u.last_proposed = s.last_proposed
      /\ u.pm_qc_finish = s.pm_qc_finish
      /\ u.rejected \subseteq s.rejected \cup {m}
      /\ \A c \in Block \ {b} : u.qc_waiting[c] = v.qc_waiting[c]
      /\ \A y : among(y, v.qc_waiting[b]) => among(y, u.qc_waiting[b])
  <2>1. CASE x = "x3"
    BY <1>2, <2>1
  <2>2. CASE x \in Waiting
    <3>1. u = async_qc_finish(v, b, x)
      BY <2>2 DEF Waiting, Beat
    <3> HIDE DEF u
    <3>. QED BY <1>2, <2>2, <3>1, WaitFields
  <2>. QED BY <2>1, <2>2 DEF Waiting
<1>4. wait_manual(s, b, x) = t
  BY DEF wait_manual, v
<1> HIDE DEF u, m
<1>5. /\ t \in PM
      /\ t.proposer = u.proposer /\ t.rotating = u.rotating
      /\ t.pending_beats = u.pending_beats /\ t.locked = u.locked
      /\ t.last_proposed = u.last_proposed
      /\ t.pm_qc_finish = u.pm_qc_finish /\ t.pm_qc_manual = b
      /\ t.rejected = u.rejected /\ t.qc_waiting = u.qc_waiting
  BY <1>3 DEF PM
<1> HIDE DEF t
<1>6. m \in M /\ m # b /\ WaitsInTurn(r, s, HaveQC(r)) /\ FreeToWait(s, HaveQC(r))
      /\ {s.last_proposed, s.pm_qc_finish, m} \cup s.rejected \subseteq M
  BY DEF Turn, m
<1>7. ASSUME NEW c \in Block, t.qc_waiting[c] # <<>>
      PROVE  t.proposer = r /\ c \in {t.pm_qc_finish, t.pm_qc_manual} \ HaveQC(r)
  <2>1. CASE c = b
    BY <1>3, <1>5, <2>1
  <2>2. CASE c # b
    <3>1. v.qc_waiting[c] # <<>>
      BY <1>3, <1>5, <1>7, <2>2
    <3>2. s.qc_waiting[c] # <<>>
      BY <1>2, <3>1
    <3>3. c \in {s.pm_qc_finish, m} \ HaveQC(r)
      BY <1>6, <3>2 DEF WaitsInTurn, m
    <3>4. c # m
      BY <1>2, <3>1, <3>3 DEF Turn
    <3>. QED BY <1>3, <1>5, <3>3, <3>4
  <2>. QED BY <2>1, <2>2
<1>8. FreeToWait(t, HaveQC(r))
  BY <1>3, <1>5, <1>6 DEF FreeToWait
<1>9. {t.last_proposed, t.pm_qc_finish, t.pm_qc_manual} \cup t.rejected \subseteq M
  BY <1>3, <1>5, <1>6
<1>10. Turn(r, t, M, HaveQC(r))
  BY <1>5, <1>7, <1>8, <1>9 DEF Turn, WaitsInTurn
<1>11. ASSUME ~s.rotating, s.locked, ~among(Beat, q)
       PROVE  among(Beat, t.qc_waiting[t.last_proposed])
  <2>1. among(Beat, s.qc_waiting[b])
    BY <1>11 DEF BeatRuns
  <2>2. v.qc_waiting[b] = s.qc_waiting[b]
    BY <1>2, <1>6
  <2>. QED BY <1>3, <1>5, <1>11, <2>1, <2>2
<1>12. BeatRuns(t, q)
  BY <1>3, <1>5, <1>11 DEF BeatRuns
<1>. QED BY <1>3, <1>4, <1>5, <1>10, <1>12

-----------------------------------------------------------------------------
(* reject_all leaves nobody waiting.                                       *)
LEMMA RejectAll ==
    ASSUME NEW r \in Correct, NEW s, NEW M, Turn(r, s, M, HaveQC(r))
    PROVE  LET t == reject_all(s)
           IN  /\ t \in PM
               /\ t.proposer = s.proposer /\ t.rotating = s.rotating
               /\ t.timer = s.timer /\ t.prop_blk = s.prop_blk
               /\ t.pending_beats = s.pending_beats /\ t.locked = s.locked
               /\ t.last_proposed = s.last_proposed
               /\ t.pm_qc_finish = s.pm_qc_finish /\ t.pm_qc_manual = s.pm_qc_manual
               /\ t.rejected \subseteq M
               /\ \A b \in Block : t.qc_waiting[b] = <<>>
<1> DEFINE u == reject(s, s.pm_qc_finish)
           t == reject(u, s.pm_qc_manual)
<1>1. s \in PM /\ s.pm_qc_finish \in Block /\ s.pm_qc_manual \in Block
  BY DEF Turn, PM
<1>2. /\ u \in PM
      /\ u.proposer = s.proposer /\ u.rotating = s.rotating
      /\ u.timer = s.timer /\ u.prop_blk = s.prop_blk
      /\ u.pending_beats = s.pending_beats /\ u.locked = s.locked
      /\ u.last_proposed = s.last_proposed
      /\ u.pm_qc_finish = s.pm_qc_finish /\ u.pm_qc_manual = s.pm_qc_manual
      /\ u.rejected \subseteq s.rejected \cup {s.pm_qc_finish}
      /\ \A c \in Block \ {s.pm_qc_finish} : u.qc_waiting[c] = s.qc_waiting[c]
      /\ \A c \in Block : u.qc_waiting[c] # <<>> =>
           s.qc_waiting[c] # <<>> /\ (c = s.pm_qc_finish => c = b0)
  BY <1>1, RejectFields
<1> HIDE DEF u
<1>3. /\ t \in PM
      /\ t.proposer = u.proposer /\ t.rotating = u.rotating
      /\ t.timer = u.timer /\ t.prop_blk = u.prop_blk
      /\ t.pending_beats = u.pending_beats /\ t.locked = u.locked
      /\ t.last_proposed = u.last_proposed
      /\ t.pm_qc_finish = u.pm_qc_finish /\ t.pm_qc_manual = u.pm_qc_manual
      /\ t.rejected \subseteq u.rejected \cup {s.pm_qc_manual}
      /\ \A c \in Block \ {s.pm_qc_manual} : t.qc_waiting[c] = u.qc_waiting[c]
      /\ \A c \in Block : t.qc_waiting[c] # <<>> =>
           u.qc_waiting[c] # <<>> /\ (c = s.pm_qc_manual => c = b0)
  BY <1>1, <1>2, RejectFields
<1>4. reject_all(s) = t
  BY DEF reject_all, u
<1> HIDE DEF t
<1>5. t.rejected \subseteq M
  BY <1>2, <1>3 DEF Turn
<1>6. ASSUME NEW b \in Block, t.qc_waiting[b] # <<>> PROVE FALSE
  <2>1. u.qc_waiting[b] # <<>>
    BY <1>3, <1>6
  <2>2. s.qc_waiting[b] # <<>>
    BY <1>2, <2>1
  <2>3. b \in {s.pm_qc_finish, s.pm_qc_manual} \ HaveQC(r)
    BY <2>2 DEF Turn, WaitsInTurn
  <2>4. b # s.pm_qc_finish
    BY <1>2, <2>1, <2>3 DEF Turn
  <2>. QED BY <1>3, <1>6, <2>3, <2>4 DEF Turn
<1>. QED BY <1>2, <1>3, <1>4, <1>5, <1>6

LEMMA NextOf == \A p \in Replica : next_of(p) \in Replica
<1>1. Cardinality(Replica) \in Nat /\ Cardinality(Replica) > 1
  BY FS_CardinalityType, ReplicaAssumption
<1>2. \A n \in Nat, p \in Nat : n > 1 => (p + 1) % n \in 0 .. n - 1
  OBVIOUS
<1>. QED BY <1>1, <1>2, RRAssumption DEF next_of

(* What a step leaves of a turn: those that wait and the beats behind them.*)
Keeps(r, t, s, M) ==
    /\ Turn(r, t, M, HaveQC(r))
    /\ t.proposer = s.proposer /\ t.pm_qc_manual = s.pm_qc_manual
    /\ t.pending_beats = s.pending_beats
    /\ \A q : BeatRuns(s, q) => BeatRuns(t, q)
    /\ BeatBehind(r, s) => BeatBehind(r, t)

(* The timer and prop_blk do not matter.                                   *)
LEMMA SameTurn ==
    ASSUME NEW r, NEW s, NEW M, Turn(r, s, M, HaveQC(r)), NEW t \in PM,
           t.proposer = s.proposer, t.rotating = s.rotating,
           t.pending_beats = s.pending_beats, t.locked = s.locked,
           t.last_proposed = s.last_proposed,
           t.qc_waiting = s.qc_waiting, t.rejected = s.rejected,
           t.pm_qc_finish = s.pm_qc_finish, t.pm_qc_manual = s.pm_qc_manual
    PROVE  Keeps(r, t, s, M)
<1>1. WaitsInTurn(r, t, HaveQC(r)) /\ FreeToWait(t, HaveQC(r))
  BY DEF Turn, WaitsInTurn, FreeToWait
<1>2. Turn(r, t, M, HaveQC(r))
  BY <1>1 DEF Turn
<1>3. \A q : BeatRuns(s, q) => BeatRuns(t, q)
  BY DEF BeatRuns
<1>4. BeatBehind(r, s) => BeatBehind(r, t)
  BY DEF BeatBehind
<1>. QED BY <1>2, <1>3, <1>4 DEF Keeps

LEMMA RegInv ==
    ASSUME NEW r, NEW s, NEW M, Turn(r, s, M, HaveQC(r)), NEW p \in Replica, NEW b \in Block
    PROVE  Keeps(r, reg_prop_blk(s, p, b), s, M)
<1> DEFINE B == [s.prop_blk EXCEPT ![p] = b]
           t == [s EXCEPT !.prop_blk = B]
<1>1. s \in PM /\ B \in [Replica -> Block]
  BY DEF Turn, PM
<1>2. reg_prop_blk(s, p, b) = t \/ reg_prop_blk(s, p, b) = s
  BY DEF reg_prop_blk
<1> HIDE DEF B
<1>3. /\ t \in PM
      /\ t.proposer = s.proposer /\ t.rotating = s.rotating
      /\ t.pending_beats = s.pending_beats /\ t.locked = s.locked
      /\ t.last_proposed = s.last_proposed
      /\ t.qc_waiting = s.qc_waiting /\ t.rejected = s.rejected
      /\ t.pm_qc_finish = s.pm_qc_finish /\ t.pm_qc_manual = s.pm_qc_manual
  BY <1>1 DEF PM
<1> HIDE DEF t
<1>4. Keeps(r, t, s, M)
  BY <1>3, SameTurn
<1>5. Keeps(r, s, s, M)
  BY <1>1, SameTurn
<1>. QED BY <1>2, <1>4, <1>5

LEMMA TimerInv ==
    ASSUME NEW r, NEW s, NEW M, Turn(r, s, M, HaveQC(r)), NEW x \in {"none", "exp", "prop"}
    PROVE  LET t == [s EXCEPT !.timer = x]
           IN  Keeps(r, t, s, M) /\ t.rotating = s.rotating
<1> DEFINE t == [s EXCEPT !.timer = x]
<1>1. /\ t \in PM
      /\ t.proposer = s.proposer /\ t.rotating = s.rotating
      /\ t.pending_beats = s.pending_beats /\ t.locked = s.locked
      /\ t.last_proposed = s.last_proposed
      /\ t.qc_waiting = s.qc_waiting /\ t.rejected = s.rejected
      /\ t.pm_qc_finish = s.pm_qc_finish /\ t.pm_qc_manual = s.pm_qc_manual
  BY DEF Turn, PM
<1> HIDE DEF t
<1>2. Keeps(r, t, s, M)
  BY <1>1, SameTurn
<1>. QED BY <1>1, <1>2 DEF t

(* A rotation ends every wait of the turn it leaves.                       *)
LEMMA RotateInv ==
    ASSUME NEW r \in Correct, NEW s, NEW M, Turn(r, s, M, HaveQC(r))
    PROVE  LET t == rotate(s)
           IN  /\ Turn(r, t, M, HaveQC(r))
               /\ t.rotating = TRUE /\ t.pending_beats = s.pending_beats
<1> DEFINE u == reject_all(s)
           B == [p \in Replica |-> b0]
           n == next_of(s.proposer)
           t == [u EXCEPT !.prop_blk = B, !.rotating = TRUE,
                          !.proposer = n, !.timer = "exp"]
<1>1. /\ u \in PM /\ u.proposer = s.proposer
      /\ u.pending_beats = s.pending_beats /\ u.locked = s.locked
      /\ u.last_proposed = s.last_proposed
      /\ u.pm_qc_finish = s.pm_qc_finish /\ u.pm_qc_manual = s.pm_qc_manual
      /\ u.rejected \subseteq M
      /\ \A b \in Block : u.qc_waiting[b] = <<>>
  BY RejectAll
<1>2. B \in [Replica -> Block] /\ n \in Replica
  BY NextOf, TreeType DEF Turn, PM
<1>3. rotate(s) = t
  BY <1>1 DEF rotate
<1> HIDE DEF u, B, n
<1>4. /\ t \in PM /\ t.rotating = TRUE
      /\ t.pending_beats = u.pending_beats
      /\ t.last_proposed = u.last_proposed
      /\ t.qc_waiting = u.qc_waiting /\ t.rejected = u.rejected
      /\ t.pm_qc_finish = u.pm_qc_finish /\ t.pm_qc_manual = u.pm_qc_manual
  BY <1>1, <1>2 DEF PM
<1> HIDE DEF t
<1>5. WaitsInTurn(r, t, HaveQC(r)) /\ FreeToWait(t, HaveQC(r))
  BY <1>1, <1>4 DEF WaitsInTurn, FreeToWait
<1>6. {t.last_proposed, t.pm_qc_finish, t.pm_qc_manual} \cup t.rejected \subseteq M
  BY <1>1, <1>4 DEF Turn
<1>. QED BY <1>1, <1>3, <1>4, <1>5, <1>6 DEF Turn

(* A decision stops the timer and, in a rotation, may end it: unlocked and *)
(* with the genesis block as the last one.                                 *)
LEMMA ConsensusInv ==
    ASSUME NEW r \in Correct, NEW s, NEW M, Turn(r, s, M, HaveQC(r)),
           b0 \in HaveQC(r), b0 \in M, NEW Q
    PROVE  Keeps(r, on_consensus(s, Q), s, M)
<1>1. s \in PM
  BY DEF Turn
<1>2. Keeps(r, s, s, M)
  BY <1>1, SameTurn
<1>3. Keeps(r, [s EXCEPT !.timer = "none"], s, M)
  BY TimerInv
<1>4. Keeps(r, stop_rotate(s), s, M)
  <2> DEFINE u == reject_all(s)
             t == [u EXCEPT !.timer = "none", !.rotating = FALSE,
                            !.locked = FALSE, !.last_proposed = b0]
  <2>1. /\ u \in PM /\ u.proposer = s.proposer
        /\ u.pending_beats = s.pending_beats
        /\ u.pm_qc_finish = s.pm_qc_finish /\ u.pm_qc_manual = s.pm_qc_manual
        /\ u.rejected \subseteq M
        /\ \A b \in Block : u.qc_waiting[b] = <<>>
    BY RejectAll
  <2>2. stop_rotate(s) = t
    BY DEF stop_rotate
  <2> HIDE DEF u
  <2>3. /\ t \in PM /\ t.rotating = FALSE /\ t.locked = FALSE
        /\ t.proposer = u.proposer
        /\ t.pending_beats = u.pending_beats /\ t.last_proposed = b0
        /\ t.qc_waiting = u.qc_waiting /\ t.rejected = u.rejected
        /\ t.pm_qc_finish = u.pm_qc_finish /\ t.pm_qc_manual = u.pm_qc_manual
    BY <2>1, TreeType DEF PM
  <2> HIDE DEF t
  <2>4. WaitsInTurn(r, t, HaveQC(r)) /\ FreeToWait(t, HaveQC(r))
    BY <2>1, <2>3 DEF WaitsInTurn, FreeToWait
  <2>5. {t.last_proposed, t.pm_qc_finish, t.pm_qc_manual} \cup t.rejected \subseteq M
    BY <2>1, <2>3 DEF Turn
  <2>6. Turn(r, t, M, HaveQC(r))
    BY <2>3, <2>4, <2>5 DEF Turn
  <2>7. (\A q : BeatRuns(t, q)) /\ BeatBehind(r, t)
    BY <2>3 DEF BeatRuns, BeatBehind
  <2>. QED BY <2>1, <2>2, <2>3, <2>6, <2>7 DEF Keeps
<1>. QED BY <1>2, <1>3, <1>4 DEF on_consensus

-----------------------------------------------------------------------------
(* What the steps of the core do to QCs and to broadcast blocks: a new     *)
(* block has no QC and is nobody's yet.                                    *)
LEMMA ProposeEffects ==
    ASSUME PMInv, CountInv, NEW r \in Correct, NEW b \in Block, pm_propose(r, b)
    PROVE  /\ creator[b] = r /\ b \notin proposed /\ b \notin HaveQC(r) /\ b \notin Mine(r)
           /\ \A p \in Correct : HaveQC(p)' = HaveQC(p)
           /\ \A p \in Correct \ {r} : Mine(p)' = Mine(p) /\ status'[p] = status[p]
           /\ status'[r] = "running" => Mine(r)' = Mine(r) \cup {b}
           /\ status'[r] # "running" => Mine(r)' = Mine(r)
           /\ proposed' \subseteq proposed \cup {b}
<1>1. /\ creator[b] = r /\ b \notin delivered[r]
      /\ \/ voted' = [voted EXCEPT ![r][b] = @ \cup {r}]
         \/ voted' = [voted EXCEPT ![r][b] = @]
  BY DEF pm_propose, on_propose
<1>2. /\ b # b0 /\ b \notin proposed /\ voted[r][b] = {}
      /\ voted \in [Correct -> [Block -> SUBSET Replica]]
      /\ status \in [Correct -> {"running", "breached", "stale"}]
  BY <1>1 DEF PMInv, PMTypeOK, TypeOK, DeliveredInv, CountInv
<1>3. \/ status' = [status EXCEPT ![r] = @] /\ proposed' = proposed \cup {b}
      \/ status' = [status EXCEPT ![r] = "breached"] /\ proposed' = proposed
      \/ status' = [status EXCEPT ![r] = "stale"] /\ proposed' = proposed
  BY DEF pm_propose, on_propose
<1>4. status[r] = "running"
  BY DEF pm_propose, on_propose
<1>5. /\ \A p \in Correct \ {r} : status'[p] = status[p]
      /\ status'[r] = "running" => proposed' = proposed \cup {b}
      /\ status'[r] # "running" => proposed' = proposed
  BY <1>2, <1>3, <1>4
<1>6. /\ \A p \in Correct : voted[p] \in [Block -> SUBSET Replica]
      /\ \A p \in Correct \ {r} : voted'[p] = voted[p]
      /\ \A x \in Block \ {b} : voted'[r][x] = voted[r][x]
      /\ voted'[r][b] = {r} \/ voted'[r][b] = {}
  BY <1>1, <1>2
<1>7. ~(Cardinality(voted'[r][b]) >= nmajority) /\ ~(Cardinality(voted[r][b]) >= nmajority)
  <2>1. Cardinality(voted'[r][b]) = 1 \/ Cardinality(voted'[r][b]) = 0
    BY <1>6, FS_Singleton, FS_EmptySet
  <2>2. Cardinality(voted[r][b]) = 0
    BY <1>2, FS_EmptySet
  <2>. QED BY <2>1, <2>2, QuorumOfTwo
<1>8. ASSUME NEW p \in Correct PROVE HaveQC(p)' = HaveQC(p)
  <2>1. ASSUME NEW x \in Block PROVE has_qc(p, x)' <=> has_qc(p, x)
    <3>1. CASE p = r /\ x = b
      BY <1>7, <3>1 DEF has_qc
    <3>2. CASE ~(p = r /\ x = b)
      <4>1. voted'[p][x] = voted[p][x]
        BY <1>6, <3>2
      <4>. QED BY <4>1 DEF has_qc
    <3>. QED BY <3>1, <3>2
  <2>. QED BY <2>1 DEF HaveQC
<1>9. b \notin HaveQC(r)
  BY <1>7 DEF HaveQC, has_qc
<1>10. b \notin Mine(r) /\ \A p \in Correct \ {r} : Mine(p)' = Mine(p)
  BY <1>1, <1>2, <1>3 DEF Mine
<1>11. /\ status'[r] = "running" => Mine(r)' = Mine(r) \cup {b}
       /\ status'[r] # "running" => Mine(r)' = Mine(r)
  BY <1>1, <1>5 DEF Mine
<1>. QED BY <1>1, <1>2, <1>3, <1>5, <1>8, <1>9, <1>10, <1>11

(* The vote that completes a quorum makes the QC at r and nowhere else.    *)
LEMMA VoteEffects ==
    ASSUME PMInv, NEW r \in Correct, NEW v \in Replica, NEW b \in Block,
           pm_receive_vote(r, v, b)
    PROVE  /\ UNCHANGED <<proposed, status>>
           /\ b \notin HaveQC(r)
           /\ \A p \in Correct \ {r} : HaveQC(p)' = HaveQC(p)
           /\ completes(r, b) => HaveQC(r)' = HaveQC(r) \cup {b}
           /\ ~completes(r, b) => HaveQC(r)' = HaveQC(r)
<1>1. /\ v \notin voted[r][b] /\ Cardinality(voted[r][b]) < nmajority
      /\ voted' = [voted EXCEPT ![r][b] = @ \cup {v}]
      /\ UNCHANGED <<proposed, status>>
  BY DEF pm_receive_vote, on_receive_vote
<1>2. TypeOK /\ voted \in [Correct -> [Block -> SUBSET Replica]]
  BY DEF PMInv, PMTypeOK, TypeOK
<1>3. /\ voted[r] \in [Block -> SUBSET Replica]
      /\ \A p \in Correct \ {r} : voted'[p] = voted[p]
      /\ voted'[r][b] = voted[r][b] \cup {v}
      /\ \A x \in Block \ {b} : voted'[r][x] = voted[r][x]
  BY <1>1, <1>2
<1>4. IsFiniteSet(voted[r][b]) /\ Cardinality(voted[r][b]) \in Nat
  BY <1>2, VotedFinite
<1>5. Cardinality(voted'[r][b]) = Cardinality(voted[r][b]) + 1
  BY <1>1, <1>3, <1>4, FS_AddElement
<1>6. ~has_qc(r, b) /\ (has_qc(r, b)' <=> completes(r, b))
  BY <1>1, <1>4, <1>5, QuorumOfTwo DEF has_qc, completes
<1>7. ASSUME NEW x \in Block, x # b PROVE has_qc(r, x)' <=> has_qc(r, x)
  <2>1. voted'[r][x] = voted[r][x]
    BY <1>3, <1>7
  <2>. QED BY <2>1 DEF has_qc
<1>8. ASSUME NEW p \in Correct \ {r} PROVE HaveQC(p)' = HaveQC(p)
  <2>1. voted'[p] = voted[p]
    BY <1>3
  <2>. QED BY <2>1 DEF HaveQC, has_qc
<1>9. b \notin HaveQC(r)
  BY <1>6 DEF HaveQC
<1>10. /\ completes(r, b) => HaveQC(r)' = HaveQC(r) \cup {b}
       /\ ~completes(r, b) => HaveQC(r)' = HaveQC(r)
  BY <1>6, <1>7 DEF HaveQC
<1>. QED BY <1>1, <1>8, <1>9, <1>10

(* A step that counts no vote.                                             *)
LEMMA SameQCs ==
    ASSUME UNCHANGED voted
    PROVE  \A p \in Correct : HaveQC(p)' = HaveQC(p)
  BY DEF HaveQC, has_qc

(* A step of r whose outcome for r is right is right for all: others wait  *)
(* for their own blocks.                                                   *)
LEMMA StepInv ==
    ASSUME RRInv, PMTypeOK', NEW r \in Correct, NEW t, NEW q \in Seq(Waiting \cup {Expired}),
           pm' = [pm EXCEPT ![r] = t], due' = [due EXCEPT ![r] = q],
           beats' \in beats .. MaxBeats, turns' \in [Correct -> 0 .. MaxRotations],
           \A p \in Correct \ {r} : /\ Mine(p)' = Mine(p) /\ status'[p] = status[p]
                                    /\ HaveQC(p)' = HaveQC(p),
           Turn(r, t, Mine(r)', HaveQC(r)'),
           q # <<>> => t.proposer = r,
           status'[r] = "running" => BeatRuns(t, q),
           BeatBehind(r, t), t.pending_beats <= beats'
    PROVE  RRInv'
<1>1. /\ pm \in [Correct -> PM] /\ due \in [Correct -> Seq(Waiting \cup {Expired})]
      /\ beats \in Nat /\ t \in PM
  BY RRAssumption DEF RRInv, RRTypeOK, Turn
<1>2. RRTypeOK'
  <2>1. pm' \in [Correct -> PM] /\ due' \in [Correct -> Seq(Waiting \cup {Expired})]
    BY <1>1
  <2>2. beats' \in 0 .. MaxBeats
    BY <1>1, RRAssumption
  <2>. QED BY <1>1, <2>1, <2>2 DEF RRTypeOK
<1>3. pm'[r] = t /\ due'[r] = q
  BY <1>1
<1>4. ASSUME NEW p \in Correct, p # r
      PROVE  /\ Turn(p, pm'[p], Mine(p)', HaveQC(p)')
             /\ due'[p] # <<>> => pm'[p].proposer = p
             /\ status'[p] = "running" => BeatRuns(pm'[p], due'[p])
             /\ BeatBehind(p, pm'[p])
             /\ pm'[p].pending_beats <= beats'
  <2>1. pm'[p] = pm[p] /\ due'[p] = due[p]
    BY <1>1, <1>4
  <2>2. /\ Turn(p, pm[p], Mine(p), HaveQC(p))
        /\ due[p] # <<>> => pm[p].proposer = p
        /\ status[p] = "running" => BeatRuns(pm[p], due[p])
        /\ BeatBehind(p, pm[p])
        /\ pm[p].pending_beats <= beats
    BY DEF RRInv
  <2>3. Mine(p)' = Mine(p) /\ status'[p] = status[p] /\ HaveQC(p)' = HaveQC(p)
    BY <1>4
  <2>5. pm[p].pending_beats \in Nat /\ beats <= beats' /\ beats' \in Int
    BY <1>1, RRAssumption DEF PM
  <2>6. pm[p].pending_beats <= beats'
    BY <1>1, <2>2, <2>5
  <2>. QED BY <2>1, <2>2, <2>3, <2>6
<1>5. ASSUME NEW p \in Correct
      PROVE  /\ Turn(p, pm'[p], Mine(p)', HaveQC(p)')
             /\ due'[p] # <<>> => pm'[p].proposer = p
             /\ status'[p] = "running" => BeatRuns(pm'[p], due'[p])
             /\ BeatBehind(p, pm'[p])
             /\ pm'[p].pending_beats <= beats'
  BY <1>3, <1>4
<1>. QED BY <1>2, <1>5 DEF RRInv

(* The invariant at one replica.                                           *)
LEMMA AtReplica ==
    ASSUME RRInv, NEW r \in Correct
    PROVE  /\ pm[r] \in PM /\ due[r] \in Seq(Waiting \cup {Expired})
           /\ pm[r].pending_beats \in 0 .. MaxBeats /\ beats \in 0 .. MaxBeats
           /\ turns \in [Correct -> 0 .. MaxRotations] /\ MaxBeats \in Nat
           /\ pm[r].pending_beats <= beats
           /\ pm[r].proposer \in Replica /\ pm[r].last_proposed \in Block
           /\ pm = [pm EXCEPT ![r] = pm[r]] /\ due = [due EXCEPT ![r] = due[r]]
           /\ b0 \in HaveQC(r) /\ b0 \in Mine(r)
           /\ status[r] = "running" => BeatRuns(pm[r], due[r])
           /\ Turn(r, pm[r], Mine(r), HaveQC(r))
           /\ due[r] # <<>> => pm[r].proposer = r
           /\ BeatBehind(r, pm[r])
<1>1. pm[r] \in PM
  BY DEF RRInv, RRTypeOK
<1>2. pm[r].pending_beats \in 0 .. MaxBeats /\ pm[r].proposer \in Replica /\ pm[r].last_proposed \in Block
  BY <1>1 DEF PM
<1>3. /\ due[r] \in Seq(Waiting \cup {Expired}) /\ beats \in 0 .. MaxBeats
      /\ turns \in [Correct -> 0 .. MaxRotations]
      /\ pm = [pm EXCEPT ![r] = pm[r]] /\ due = [due EXCEPT ![r] = due[r]]
  BY DEF RRInv, RRTypeOK
<1>. QED BY <1>1, <1>2, <1>3, RRAssumption DEF RRInv, Turn

LEMMA OneContinuation ==
    ASSUME NEW x \in Waiting \cup {Expired}
    PROVE  <<x>> \in Seq(Waiting \cup {Expired}) /\ <<x>> # <<>> /\ among(x, <<x>>)
<1>1. <<x>> = Append(<<>>, x) /\ <<>> \in Seq(Waiting \cup {Expired})
  OBVIOUS
<1>. QED BY <1>1, AmongAppend

(* When nothing is due the beat waits in the pacemaker.                    *)
LEMMA NothingDue ==
    ASSUME NEW s, BeatRuns(s, <<>>)
    PROVE  \A q : BeatRuns(s, q)
  BY NothingAmong DEF BeatRuns

(* Steps of the pacemaker alone.                                           *)
LEMMA PacemakerStep ==
    ASSUME RRInv, UNCHANGED pm_vars,
           NEW r \in Correct, NEW t, NEW q \in Seq(Waiting \cup {Expired}),
           pm' = [pm EXCEPT ![r] = t], due' = [due EXCEPT ![r] = q],
           beats' \in beats .. MaxBeats, turns' \in [Correct -> 0 .. MaxRotations],
           Turn(r, t, Mine(r), HaveQC(r)),
           q # <<>> => t.proposer = r, BeatRuns(t, q),
           BeatBehind(r, t), t.pending_beats <= beats'
    PROVE  RRInv'
<1>1. PMTypeOK' /\ UNCHANGED <<proposed, voted, status>>
  BY DEF pm_vars, core_vars, RRInv, RRTypeOK, PMTypeOK, TypeOK
<1>2. \A p \in Correct : HaveQC(p)' = HaveQC(p) /\ Mine(p)' = Mine(p)
  BY <1>1, SameQCs DEF Mine
<1>. QED BY <1>1, <1>2, StepInv

LEMMA BeatInv ==
    ASSUME RRInv, NEW r \in Correct, beat(r)
    PROVE  RRInv'
<1> DEFINE s == pm[r]
           u == [s EXCEPT !.pending_beats = @ + 1]
           v == reject(u, s.pm_qc_finish)
           taken == [v EXCEPT !.pending_beats = @ - 1, !.locked = TRUE, !.pm_qc_finish = b0]
<1>1. /\ status[r] = "running" /\ due[r] = <<>> /\ s.proposer = r
      /\ beats < MaxBeats /\ beats' = beats + 1 /\ UNCHANGED pm_vars /\ turns' = turns
  BY DEF beat, idle
<1>2. /\ s \in PM /\ s.pending_beats \in Nat /\ beats \in Nat /\ MaxBeats \in Nat
      /\ s.pending_beats <= beats
      /\ turns' \in [Correct -> 0 .. MaxRotations]
      /\ pm = [pm EXCEPT ![r] = s] /\ due = [due EXCEPT ![r] = <<>>]
      /\ b0 \in Mine(r) /\ Turn(r, s, Mine(r), HaveQC(r))
      /\ BeatRuns(s, <<>>) /\ BeatBehind(r, s)
  BY <1>1, AtReplica
<1>3. beats' \in beats .. MaxBeats /\ s.pending_beats + 1 \in 0 .. MaxBeats
  BY <1>1, <1>2
<1>4. <<Beat>> \in Seq(Waiting \cup {Expired}) /\ <<Beat>> # <<>> /\ among(Beat, <<Beat>>)
      /\ <<>> \in Seq(Waiting \cup {Expired})
  BY OneContinuation DEF Waiting
<1>5. CASE s.rotating
  <2>1. pm' = [pm EXCEPT ![r] = s] /\ due' = [due EXCEPT ![r] = <<Beat>>]
    BY <1>2, <1>5 DEF beat
  <2>2. BeatRuns(s, <<Beat>>) /\ s.pending_beats <= beats'
    BY <1>1, <1>2, <1>5 DEF BeatRuns
  <2> HIDE DEF s
  <2>. QED BY <1>1, <1>2, <1>3, <1>4, <2>1, <2>2, PacemakerStep
<1>6. CASE ~s.rotating
  <2>1. \/ /\ may_schedule(u) /\ has_qc(r, s.last_proposed)
           /\ pm' = [pm EXCEPT ![r] = taken] /\ due' = [due EXCEPT ![r] = <<Beat>>]
        \/ /\ ~(may_schedule(u) /\ has_qc(r, s.last_proposed))
           /\ pm' = [pm EXCEPT ![r] = schedule_next(u)] /\ due' = [due EXCEPT ![r] = <<>>]
    BY <1>2, <1>6 DEF beat, set
  <2> HIDE DEF s
  <2>2. /\ u \in PM
        /\ u.proposer = s.proposer /\ u.rotating = s.rotating
        /\ u.pending_beats = s.pending_beats + 1 /\ u.locked = s.locked
        /\ u.last_proposed = s.last_proposed
        /\ u.pm_qc_finish = s.pm_qc_finish /\ u.pm_qc_manual = s.pm_qc_manual
        /\ u.rejected = s.rejected /\ u.qc_waiting = s.qc_waiting
    BY <1>2, <1>3 DEF PM
  <2> HIDE DEF u
  <2>3. /\ s.pm_qc_finish \in Block /\ s.last_proposed \in Block
        /\ {s.last_proposed, s.pm_qc_finish, s.pm_qc_manual} \cup s.rejected \subseteq Mine(r)
        /\ WaitsInTurn(r, s, HaveQC(r)) /\ FreeToWait(s, HaveQC(r))
    BY <1>2 DEF Turn, PM
  <2>4. /\ v \in PM /\ v.proposer = u.proposer /\ v.pending_beats = u.pending_beats
        /\ v.rotating = u.rotating
        /\ v.last_proposed = u.last_proposed /\ v.pm_qc_manual = u.pm_qc_manual
        /\ v.rejected \subseteq u.rejected \cup {s.pm_qc_finish}
        /\ \A c \in Block \ {s.pm_qc_finish} : v.qc_waiting[c] = u.qc_waiting[c]
        /\ \A c \in Block : v.qc_waiting[c] # <<>> =>
             u.qc_waiting[c] # <<>> /\ (c = s.pm_qc_finish => c = b0)
    BY <2>2, <2>3, RejectFields, ZenonT(40)
  <2> HIDE DEF v
  <2>5. /\ taken \in PM /\ taken.proposer = r /\ taken.pending_beats = s.pending_beats
        /\ taken.locked = TRUE
        /\ taken.last_proposed = s.last_proposed
        /\ taken.pm_qc_finish = b0 /\ taken.pm_qc_manual = s.pm_qc_manual
        /\ taken.rejected = v.rejected /\ taken.qc_waiting = v.qc_waiting
    <3> DEFINE n == v.pending_beats - 1
               w == [v EXCEPT !.pending_beats = n, !.locked = TRUE, !.pm_qc_finish = b0]
    <3>1. n = s.pending_beats /\ n \in 0 .. MaxBeats /\ b0 \in Block
      BY <1>2, <1>3, <2>2, <2>4, TreeType
    <3>2. taken = w
      OBVIOUS
    <3> HIDE DEF n
    <3>3. /\ w \in PM /\ w.proposer = v.proposer /\ w.pending_beats = n
          /\ w.locked = TRUE
          /\ w.last_proposed = v.last_proposed
          /\ w.pm_qc_finish = b0 /\ w.pm_qc_manual = v.pm_qc_manual
          /\ w.rejected = v.rejected /\ w.qc_waiting = v.qc_waiting
      BY <2>4, <3>1 DEF PM
    <3> HIDE DEF w, taken
    <3>. QED BY <1>1, <2>2, <2>4, <3>1, <3>2, <3>3
  <2> HIDE DEF taken
  <2>6. CASE pm' = [pm EXCEPT ![r] = taken] /\ due' = [due EXCEPT ![r] = <<Beat>>]
    <3>1. ASSUME NEW c \in Block, taken.qc_waiting[c] # <<>>
          PROVE  taken.proposer = r /\ c \in {taken.pm_qc_finish, taken.pm_qc_manual} \ HaveQC(r)
      <4>1. v.qc_waiting[c] # <<>>
        BY <2>5, <3>1
      <4>2. s.qc_waiting[c] # <<>>
        BY <2>2, <2>4, <4>1
      <4>3. c \in {s.pm_qc_finish, s.pm_qc_manual} \ HaveQC(r)
        BY <2>3, <4>2 DEF WaitsInTurn
      <4>4. c # s.pm_qc_finish
        BY <1>2, <2>4, <4>1, <4>3 DEF Turn
      <4>. QED BY <2>5, <4>3, <4>4
    <3>2. WaitsInTurn(r, taken, HaveQC(r)) /\ FreeToWait(taken, HaveQC(r))
      BY <2>5, <3>1 DEF WaitsInTurn, FreeToWait
    <3>3. {taken.last_proposed, taken.pm_qc_finish, taken.pm_qc_manual} \cup taken.rejected
            \subseteq Mine(r)
      BY <1>2, <2>2, <2>3, <2>4, <2>5
    <3>4. Turn(r, taken, Mine(r), HaveQC(r))
      BY <1>2, <2>5, <3>2, <3>3 DEF Turn
    <3>5. BeatRuns(taken, <<Beat>>) /\ BeatBehind(r, taken)
      BY <1>4, <2>5 DEF BeatRuns, BeatBehind
    <3>6. taken.pending_beats <= beats' /\ taken.proposer = r
      BY <1>1, <1>2, <2>5
    <3>. QED BY <1>1, <1>2, <1>3, <1>4, <2>6, <3>4, <3>5, <3>6, PacemakerStep
  <2>7. CASE /\ ~(may_schedule(u) /\ has_qc(r, s.last_proposed))
             /\ pm' = [pm EXCEPT ![r] = schedule_next(u)] /\ due' = [due EXCEPT ![r] = <<>>]
    <3> DEFINE t == schedule_next(u)
    <3>1. WaitsInTurn(r, u, HaveQC(r)) /\ FreeToWait(u, HaveQC(r))
      BY <2>2, <2>3 DEF WaitsInTurn, FreeToWait
    <3>2. Turn(r, u, Mine(r), HaveQC(r))
      BY <1>2, <2>2, <2>3, <3>1 DEF Turn
    <3>3. ~u.rotating /\ u.proposer = r
          /\ (u.last_proposed \notin HaveQC(r) \/ ~may_schedule(u))
      BY <1>1, <1>6, <2>2, <2>3, <2>7 DEF HaveQC, s
    <3>4. /\ Turn(r, t, Mine(r), HaveQC(r))
          /\ t.proposer = r /\ t.pending_beats <= u.pending_beats
          /\ t.pending_beats > 0 => t.locked
          /\ t = u \/ among(Beat, t.qc_waiting[t.last_proposed])
      BY <3>2, <3>3, ScheduleInv
    <3>5. BeatRuns(u, <<>>)
      BY <1>2, <2>2 DEF BeatRuns
    <3>6. pm' = [pm EXCEPT ![r] = t]
      BY <2>7
    <3> HIDE DEF t
    <3>7. BeatRuns(t, <<>>)
      BY <3>4, <3>5 DEF BeatRuns
    <3>8. BeatBehind(r, t)
      BY <3>4 DEF BeatBehind
    <3>9. t.pending_beats <= beats'
      <4>1. t.pending_beats \in Nat
        BY <1>2, <3>4 DEF Turn, PM
      <4>. QED BY <1>1, <1>2, <2>2, <3>4, <4>1
    <3>. QED BY <1>1, <1>2, <1>3, <1>4, <2>7, <3>4, <3>6, <3>7, <3>8, <3>9, PacemakerStep
  <2>. QED BY <2>1, <2>6, <2>7
<1>. QED BY <1>5, <1>6

LEMMA RotateStepInv ==
    ASSUME RRInv, NEW r \in Correct, impeach(r) \/ prop_timeout(r)
    PROVE  RRInv'
<1> DEFINE t == rotate(pm[r])
<1>1. /\ due[r] = <<>> /\ UNCHANGED pm_vars /\ due' = due /\ beats' = beats
      /\ pm' = [pm EXCEPT ![r] = t]
      /\ turns[r] < MaxRotations /\ turns' = [turns EXCEPT ![r] = @ + 1]
  BY DEF impeach, prop_timeout, idle, set
<1>2. /\ due[r] \in Seq(Waiting \cup {Expired}) /\ due = [due EXCEPT ![r] = due[r]]
      /\ beats \in 0 .. MaxBeats /\ MaxBeats \in Nat
      /\ turns \in [Correct -> 0 .. MaxRotations]
      /\ pm[r].pending_beats <= beats
      /\ Turn(r, pm[r], Mine(r), HaveQC(r))
  BY AtReplica
<1>3. turns' \in [Correct -> 0 .. MaxRotations] /\ beats' \in beats .. MaxBeats
  BY <1>1, <1>2, RRAssumption
<1>4. /\ Turn(r, t, Mine(r), HaveQC(r))
      /\ t.rotating = TRUE /\ t.pending_beats = pm[r].pending_beats
  BY <1>2, RotateInv
<1> HIDE DEF t
<1>5. BeatRuns(t, due[r]) /\ BeatBehind(r, t) /\ t.pending_beats <= beats'
  BY <1>1, <1>2, <1>4 DEF BeatRuns, BeatBehind
<1>. QED BY <1>1, <1>2, <1>3, <1>4, <1>5, PacemakerStep

LEMMA ExpInv ==
    ASSUME RRInv, NEW r \in Correct, on_exp_timeout(r)
    PROVE  RRInv'
<1>1. /\ status[r] = "running" /\ due[r] = <<>>
      /\ UNCHANGED pm_vars /\ beats' = beats /\ turns' = turns
      /\ \/ /\ pm[r].proposer = r /\ due' = [due EXCEPT ![r] = <<Expired>>]
            /\ pm' = [pm EXCEPT ![r] = [pm[r] EXCEPT !.timer = "none"]]
         \/ /\ due' = due
            /\ pm' = [pm EXCEPT ![r] = [pm[r] EXCEPT !.timer = "prop"]]
  BY DEF on_exp_timeout, idle, set
<1>2. /\ due[r] \in Seq(Waiting \cup {Expired}) /\ due = [due EXCEPT ![r] = due[r]]
      /\ beats \in 0 .. MaxBeats /\ MaxBeats \in Nat
      /\ turns \in [Correct -> 0 .. MaxRotations]
      /\ pm[r].pending_beats <= beats
      /\ Turn(r, pm[r], Mine(r), HaveQC(r))
      /\ BeatRuns(pm[r], <<>>) /\ BeatBehind(r, pm[r])
  BY <1>1, AtReplica
<1>3. <<Expired>> \in Seq(Waiting \cup {Expired})
  BY OneContinuation
<1>4. ASSUME NEW x \in {"none", "prop"}
      PROVE  LET t == [pm[r] EXCEPT !.timer = x]
             IN  /\ Turn(r, t, Mine(r), HaveQC(r)) /\ t.proposer = pm[r].proposer
                 /\ t.pending_beats <= beats'
                 /\ BeatRuns(t, <<>>) /\ BeatRuns(t, <<Expired>>) /\ BeatBehind(r, t)
  <2> DEFINE t == [pm[r] EXCEPT !.timer = x]
  <2>1. Keeps(r, t, pm[r], Mine(r))
    BY <1>2, TimerInv
  <2> HIDE DEF t
  <2>2. /\ Turn(r, t, Mine(r), HaveQC(r)) /\ t.proposer = pm[r].proposer
        /\ t.pending_beats = pm[r].pending_beats
        /\ BeatRuns(t, <<>>) /\ BeatBehind(r, t)
    BY <1>2, <2>1 DEF Keeps
  <2>3. BeatRuns(t, <<Expired>>)
    BY <2>2, NothingDue
  <2>4. t.pending_beats <= beats'
    BY <1>1, <1>2, <2>2
  <2>. QED BY <2>2, <2>3, <2>4 DEF t
<1>5. beats' \in beats .. MaxBeats
  BY <1>1, <1>2
<1>6. CASE /\ pm[r].proposer = r /\ due' = [due EXCEPT ![r] = <<Expired>>]
           /\ pm' = [pm EXCEPT ![r] = [pm[r] EXCEPT !.timer = "none"]]
  <2> DEFINE t == [pm[r] EXCEPT !.timer = "none"]
  <2>1. /\ Turn(r, t, Mine(r), HaveQC(r)) /\ t.proposer = r
        /\ t.pending_beats <= beats' /\ BeatRuns(t, <<Expired>>) /\ BeatBehind(r, t)
    BY <1>4, <1>6
  <2>2. pm' = [pm EXCEPT ![r] = t]
    BY <1>6
  <2> HIDE DEF t
  <2>. QED BY <1>1, <1>2, <1>3, <1>5, <1>6, <2>1, <2>2, PacemakerStep
<1>7. CASE /\ due' = due
           /\ pm' = [pm EXCEPT ![r] = [pm[r] EXCEPT !.timer = "prop"]]
  <2> DEFINE t == [pm[r] EXCEPT !.timer = "prop"]
  <2>1. /\ Turn(r, t, Mine(r), HaveQC(r))
        /\ t.pending_beats <= beats' /\ BeatRuns(t, <<>>) /\ BeatBehind(r, t)
    BY <1>4
  <2>2. pm' = [pm EXCEPT ![r] = t]
    BY <1>7
  <2> HIDE DEF t
  <2>3. <<>> \in Seq(Waiting \cup {Expired}) /\ due' = [due EXCEPT ![r] = <<>>]
    BY <1>1, <1>2, <1>7
  <2>. QED BY <1>1, <1>2, <1>5, <2>1, <2>2, <2>3, PacemakerStep
<1>. QED BY <1>1, <1>6, <1>7

-----------------------------------------------------------------------------
(* The callbacks of on_propose: the proposer is still in its turn, and     *)
(* what it takes next waits for the new block.                             *)
LEMMA AfterPropose ==
    ASSUME NEW r \in Correct, NEW M, Turn(r, pm[r], M, HaveQC(r)), pm[r].proposer = r,
           b0 \in HaveQC(r), b0 \in M, NEW b \in Block \ (M \cup HaveQC(r))
    PROVE  LET t == after_propose(r, b)
           IN  /\ Turn(r, t, M \cup {b}, HaveQC(r))
               /\ t.proposer = r
               /\ ~t.rotating => t.last_proposed = b
               /\ t.pm_qc_manual # b
               /\ t.pending_beats <= pm[r].pending_beats
               /\ BeatBehind(r, t) /\ \A q : BeatRuns(t, q)
<1> DEFINE s == on_consensus(pm[r], consensus(r, b))
           u == reg_prop_blk(s, r, b)
           t == update_last_proposed(u, b)
<1>1. Keeps(r, s, pm[r], M)
  BY ConsensusInv
<1> HIDE DEF s
<1>2. Turn(r, s, M, HaveQC(r)) /\ s.proposer = r /\ s.pending_beats = pm[r].pending_beats
  BY <1>1 DEF Keeps
<1>3. Keeps(r, u, s, M)
  BY <1>2, RegInv DEF Correct
<1> HIDE DEF u
<1>4. Turn(r, u, M, HaveQC(r)) /\ u.proposer = r /\ u.pending_beats = pm[r].pending_beats
  BY <1>2, <1>3 DEF Keeps
<1>5. /\ Turn(r, t, M \cup {b}, HaveQC(r))
      /\ t.proposer = r
      /\ ~t.rotating => t.last_proposed = b
      /\ t.pm_qc_manual = u.pm_qc_manual
      /\ t.pending_beats <= u.pending_beats
      /\ BeatBehind(r, t) /\ \A q : BeatRuns(t, q)
  BY <1>4, UpdateInv
<1>6. u.pm_qc_manual # b
  BY <1>4 DEF Turn
<1>7. after_propose(r, b) = t
  BY DEF after_propose, s, u
<1> HIDE DEF t
<1>. QED BY <1>4, <1>5, <1>6, <1>7

(* What every continuation starts from and leads to.                       *)
LEMMA ProposeStep ==
    ASSUME RRInv, PMInv, CountInv, PMTypeOK', NEW r \in Correct, NEW b \in Block,
           pm_propose(r, b), due[r] # <<>>, UNCHANGED <<beats, turns>>,
           NEW t, pm' = [pm EXCEPT ![r] = IF status'[r] = "running" THEN t ELSE pm[r]],
           due' = [due EXCEPT ![r] = IF status'[r] = "running" THEN Tail(@) ELSE <<>>],
           Turn(r, t, Mine(r) \cup {b}, HaveQC(r)), t.proposer = r,
           BeatRuns(t, Tail(due[r])), BeatBehind(r, t),
           t.pending_beats <= pm[r].pending_beats
    PROVE  RRInv'
<1>1. /\ \A p \in Correct : HaveQC(p)' = HaveQC(p)
      /\ \A p \in Correct \ {r} : Mine(p)' = Mine(p) /\ status'[p] = status[p]
      /\ status'[r] = "running" => Mine(r)' = Mine(r) \cup {b}
      /\ status'[r] # "running" => Mine(r)' = Mine(r)
  BY ProposeEffects
<1>2. /\ due[r] \in Seq(Waiting \cup {Expired}) /\ due = [due EXCEPT ![r] = due[r]]
      /\ beats \in 0 .. MaxBeats /\ MaxBeats \in Nat
      /\ turns \in [Correct -> 0 .. MaxRotations]
      /\ pm[r].pending_beats <= beats /\ pm[r].pending_beats \in 0 .. MaxBeats
      /\ Turn(r, pm[r], Mine(r), HaveQC(r)) /\ BeatBehind(r, pm[r])
  BY AtReplica
<1>3. /\ beats' \in beats .. MaxBeats /\ turns' \in [Correct -> 0 .. MaxRotations]
      /\ pm[r].pending_beats <= beats'
  BY <1>2
<1>4. CASE status'[r] = "running"
  <2>1. Tail(due[r]) \in Seq(Waiting \cup {Expired})
    BY <1>2, AmongTail
  <2>2. pm' = [pm EXCEPT ![r] = t] /\ due' = [due EXCEPT ![r] = Tail(due[r])]
    BY <1>4
  <2>3. t.pending_beats \in Nat
    BY <1>2 DEF Turn, PM
  <2>4. t.pending_beats <= beats'
    BY <1>2, <1>3, <2>3
  <2>5. Turn(r, t, Mine(r)', HaveQC(r)')
    BY <1>1, <1>4
  <2>. QED BY <1>1, <1>3, <2>1, <2>2, <2>4, <2>5, StepInv
<1>5. CASE status'[r] # "running"
  <2>1. pm' = [pm EXCEPT ![r] = pm[r]] /\ due' = [due EXCEPT ![r] = <<>>]
    BY <1>5
  <2>2. <<>> \in Seq(Waiting \cup {Expired})
    OBVIOUS
  <2>3. Turn(r, pm[r], Mine(r)', HaveQC(r)')
    BY <1>1, <1>2, <1>5
  <2>. QED BY <1>1, <1>2, <1>3, <1>5, <2>1, <2>2, <2>3, StepInv
<1>. QED BY <1>4, <1>5

LEMMA OnBeatInv ==
    ASSUME RRInv, PMInv, CountInv, PMTypeOK', NEW r \in Correct, NEW b \in Block, on_beat(r, b)
    PROVE  RRInv'
<1> DEFINE t == after_propose(r, b)
<1>1. /\ pm_propose(r, b) /\ due[r] # <<>> /\ UNCHANGED <<beats, turns>>
      /\ pm' = [pm EXCEPT ![r] = IF status'[r] = "running" THEN t ELSE pm[r]]
      /\ due' = [due EXCEPT ![r] = IF status'[r] = "running" THEN Tail(@) ELSE <<>>]
  BY DEF on_beat, set
<1>2. b \notin HaveQC(r) /\ b \notin Mine(r)
  BY <1>1, ProposeEffects
<1>3. /\ Turn(r, pm[r], Mine(r), HaveQC(r)) /\ pm[r].proposer = r
      /\ b0 \in HaveQC(r) /\ b0 \in Mine(r)
  BY <1>1, AtReplica
<1>4. /\ Turn(r, t, Mine(r) \cup {b}, HaveQC(r)) /\ t.proposer = r
      /\ t.pending_beats <= pm[r].pending_beats
      /\ BeatBehind(r, t) /\ \A q : BeatRuns(t, q)
  BY <1>2, <1>3, AfterPropose
<1> HIDE DEF t
<1>. QED BY <1>1, <1>4, ProposeStep

LEMMA NewConsensusInv ==
    ASSUME RRInv, PMInv, CountInv, PMTypeOK', NEW r \in Correct, NEW b \in Block,
           do_new_consensus(r, b)
    PROVE  RRInv'
<1> DEFINE a == after_propose(r, b)
           x == consensus_index(Head(due[r]))
           s == wait_manual(a, b, x)
           u == [s EXCEPT !.timer = "prop"]
           t == IF x = "x0" THEN u ELSE s
           M == Mine(r) \cup {b}
<1>1. /\ pm_propose(r, b) /\ due[r] # <<>> /\ UNCHANGED <<beats, turns>>
      /\ Head(due[r]) # Beat
      /\ pm' = [pm EXCEPT ![r] = IF status'[r] # "running" THEN pm[r] ELSE t]
      /\ due' = [due EXCEPT ![r] = IF status'[r] = "running" THEN Tail(@) ELSE <<>>]
  BY DEF do_new_consensus, set
<1>2. b \notin HaveQC(r) /\ b \notin Mine(r)
  BY <1>1, ProposeEffects
<1>3. /\ Turn(r, pm[r], Mine(r), HaveQC(r)) /\ pm[r].proposer = r
      /\ b0 \in HaveQC(r) /\ b0 \in Mine(r)
  BY <1>1, AtReplica
<1>4. x \in {"x0", "x1", "x2", "x3"}
  <2>1. Head(due[r]) \in (Waiting \cup {Expired}) \ {Beat}
    BY <1>1, AtReplica, AmongTail
  <2>2. Head(due[r]) \in {Expired, "x0", "x1", "x2"}
    BY <2>1 DEF Waiting
  <2>. QED BY <2>2 DEF consensus_index, Expired
<1>5. /\ Turn(r, a, M, HaveQC(r)) /\ a.proposer = r
      /\ ~a.rotating => a.last_proposed = b
      /\ a.pm_qc_manual # b
      /\ a.pending_beats <= pm[r].pending_beats
      /\ BeatBehind(r, a) /\ \A q : BeatRuns(a, q)
  <2> HIDE DEF x
  <2>1. b \in Block \ (Mine(r) \cup HaveQC(r))
    BY <1>2
  <2>. QED BY <1>3, <2>1, AfterPropose, SMTT(40)
<1> HIDE DEF a, x
<1>6. BeatRuns(a, Tail(due[r])) /\ b \in M
  BY <1>5
<1> HIDE DEF M
<1>7. /\ Turn(r, s, M, HaveQC(r)) /\ BeatRuns(s, Tail(due[r]))
      /\ s.proposer = r /\ s.rotating = a.rotating
      /\ s.last_proposed = a.last_proposed /\ s.locked = a.locked
      /\ s.pending_beats = a.pending_beats
  BY <1>2, <1>4, <1>5, <1>6, ManualInv
<1> HIDE DEF s
<1>8. BeatBehind(r, s)
  BY <1>5, <1>7 DEF BeatBehind
<1>9. Keeps(r, u, s, M)
  BY <1>7, TimerInv
<1> HIDE DEF u
<1>10. /\ Turn(r, u, M, HaveQC(r)) /\ BeatRuns(u, Tail(due[r])) /\ u.proposer = r
       /\ u.pending_beats = s.pending_beats /\ BeatBehind(r, u)
  BY <1>7, <1>8, <1>9 DEF Keeps
<1>11. t \in {u, s}
  OBVIOUS
<1> HIDE DEF t
<1>12. /\ Turn(r, t, M, HaveQC(r)) /\ t.proposer = r
       /\ BeatRuns(t, Tail(due[r])) /\ BeatBehind(r, t)
       /\ t.pending_beats <= pm[r].pending_beats
  BY <1>5, <1>7, <1>8, <1>10, <1>11
<1>13. pm' = [pm EXCEPT ![r] = IF status'[r] = "running" THEN t ELSE pm[r]]
  BY <1>1
<1>. QED BY <1>1, <1>12, <1>13, ProposeStep DEF M

-----------------------------------------------------------------------------
(* The QC of b wakes what waits for it, in r's own turn: no beat is        *)
(* dropped.                                                                *)
LEMMA FinishInv ==
    ASSUME NEW r \in Correct, NEW s, NEW M, NEW Q, Turn(r, s, M, Q),
           NEW b \in Block, NEW Q2, Q \subseteq Q2, Q2 \subseteq Q \cup {b}
    PROVE  LET t == on_qc_finish(s, b)
               w == s.qc_waiting[b]
           IN  /\ Turn(r, t, M, Q2)
               /\ t.proposer = s.proposer /\ t.pending_beats = s.pending_beats
               /\ BeatBehind(r, s) => BeatBehind(r, t)
               /\ BeatRuns(s, <<>>) => BeatRuns(t, w)
               /\ w # <<>> => s.proposer = r
               /\ resolved(r, s, b) = w
               /\ w \in Seq(Waiting \cup {Expired})
<1> DEFINE w == s.qc_waiting[b]
           W == [s.qc_waiting EXCEPT ![b] = <<>>]
           R == s.rejected \ {b}
           f == IF s.pm_qc_finish = b THEN b0 ELSE s.pm_qc_finish
           m == IF s.pm_qc_manual = b THEN b0 ELSE s.pm_qc_manual
           t == [s EXCEPT !.qc_waiting = W, !.rejected = R,
                          !.pm_qc_finish = f, !.pm_qc_manual = m]
<1>1. /\ s \in PM /\ b0 \in M /\ b0 \in Q
      /\ {s.last_proposed, s.pm_qc_finish, s.pm_qc_manual} \cup s.rejected \subseteq M
      /\ WaitsInTurn(r, s, Q) /\ FreeToWait(s, Q)
  BY DEF Turn
<1>2. /\ s.qc_waiting \in [Block -> Seq(Waiting)] /\ s.rejected \in SUBSET Block
      /\ s.pm_qc_finish \in Block /\ s.pm_qc_manual \in Block /\ s.last_proposed \in Block
  BY <1>1 DEF PM
<1>3. w \in Seq(Waiting) /\ w \in Seq(Waiting \cup {Expired})
  <2>1. w \in Seq(Waiting)
    BY <1>2
  <2>2. Waiting \subseteq Waiting \cup {Expired}
    OBVIOUS
  <2>. QED BY <2>1, <2>2
<1>4. w # <<>> => s.proposer = r
  BY <1>1 DEF WaitsInTurn
<1>5. resolved(r, s, b) = w
  <2>1. among(Beat, w) => w # <<>>
    BY NothingAmong
  <2>. QED BY <1>4, <2>1 DEF resolved
<1>6. on_qc_finish(s, b) = t
  BY DEF on_qc_finish
<1>7. /\ W \in [Block -> Seq(Waiting)]
      /\ W[b] = <<>> /\ \A c \in Block \ {b} : W[c] = s.qc_waiting[c]
  <2>1. <<>> \in Seq(Waiting)
    OBVIOUS
  <2>. QED BY <1>2, <2>1
<1>8. R \in SUBSET Block /\ R \subseteq s.rejected /\ f \in Block /\ m \in Block
  BY <1>2, TreeType
<1>9. /\ f \in {b0, s.pm_qc_finish} /\ (s.pm_qc_finish # b => f = s.pm_qc_finish)
      /\ m \in {b0, s.pm_qc_manual} /\ (s.pm_qc_manual # b => m = s.pm_qc_manual)
  OBVIOUS
<1> HIDE DEF W, R, f, m
<1>10. /\ t \in PM
       /\ t.proposer = s.proposer /\ t.rotating = s.rotating
       /\ t.pending_beats = s.pending_beats /\ t.locked = s.locked
       /\ t.last_proposed = s.last_proposed
       /\ t.pm_qc_finish = f /\ t.pm_qc_manual = m
       /\ t.rejected = R /\ t.qc_waiting = W
  BY <1>1, <1>7, <1>8 DEF PM
<1> HIDE DEF t, w
<1>11. ASSUME NEW c \in Block, t.qc_waiting[c] # <<>>
       PROVE  t.proposer = r /\ c \in {t.pm_qc_finish, t.pm_qc_manual} \ Q2
  <2>1. c # b /\ s.qc_waiting[c] # <<>>
    BY <1>7, <1>10, <1>11
  <2>2. s.proposer = r /\ c \in {s.pm_qc_finish, s.pm_qc_manual} \ Q
    BY <1>1, <2>1 DEF WaitsInTurn
  <2>. QED BY <1>9, <1>10, <2>1, <2>2
<1>12. FreeToWait(t, Q2)
  BY <1>1, <1>8, <1>9, <1>10 DEF FreeToWait
<1>13. {t.last_proposed, t.pm_qc_finish, t.pm_qc_manual} \cup t.rejected \subseteq M
  BY <1>1, <1>8, <1>9, <1>10
<1>14. Turn(r, t, M, Q2)
  BY <1>1, <1>10, <1>11, <1>12, <1>13 DEF Turn, WaitsInTurn
<1>15. ASSUME BeatRuns(s, <<>>) PROVE BeatRuns(t, w)
  <2>1. SUFFICES ASSUME ~s.rotating, s.locked, ~among(Beat, w)
                 PROVE  among(Beat, t.qc_waiting[t.last_proposed])
    BY <1>10 DEF BeatRuns
  <2>2. among(Beat, s.qc_waiting[s.last_proposed])
    BY <1>15, <2>1, NothingAmong DEF BeatRuns
  <2>3. s.last_proposed \in Block \ {b}
    BY <1>2, <2>1, <2>2 DEF w
  <2>. QED BY <1>7, <1>10, <2>2, <2>3
<1>16. BeatBehind(r, s) => BeatBehind(r, t)
  BY <1>10 DEF BeatBehind
<1>. QED BY <1>3, <1>4, <1>5, <1>6, <1>10, <1>14, <1>15, <1>16 DEF w

LEMMA RRReceiveVoteInv ==
    ASSUME RRInv, PMInv, PMTypeOK', NEW r \in Correct, NEW v \in Replica, NEW b \in Block,
           receive_vote(r, v, b)
    PROVE  RRInv'
<1> DEFINE s == pm[r]
           w == s.qc_waiting[b]
           t == on_qc_finish(s, b)
<1>1. /\ status[r] = "running" /\ due[r] = <<>> /\ pm_receive_vote(r, v, b)
      /\ UNCHANGED <<beats, turns>>
      /\ \/ /\ completes(r, b)
            /\ due' = [due EXCEPT ![r] = resolved(r, s, b)] /\ pm' = [pm EXCEPT ![r] = t]
         \/ ~completes(r, b) /\ UNCHANGED <<due, pm>>
  BY DEF receive_vote, idle, set
<1>2. /\ s \in PM /\ due = [due EXCEPT ![r] = <<>>] /\ pm = [pm EXCEPT ![r] = s]
      /\ beats \in 0 .. MaxBeats /\ MaxBeats \in Nat
      /\ turns \in [Correct -> 0 .. MaxRotations]
      /\ s.pending_beats <= beats
      /\ Turn(r, s, Mine(r), HaveQC(r))
      /\ BeatRuns(s, <<>>) /\ BeatBehind(r, s)
  BY <1>1, AtReplica
<1>3. /\ UNCHANGED <<proposed, status>>
      /\ \A p \in Correct \ {r} : HaveQC(p)' = HaveQC(p)
      /\ completes(r, b) => HaveQC(r)' = HaveQC(r) \cup {b}
      /\ ~completes(r, b) => HaveQC(r)' = HaveQC(r)
  BY <1>1, VoteEffects
<1>4. \A p \in Correct : Mine(p)' = Mine(p) /\ status'[p] = status[p]
  BY <1>3 DEF Mine
<1>5. /\ beats' \in beats .. MaxBeats /\ turns' \in [Correct -> 0 .. MaxRotations]
      /\ s.pending_beats <= beats'
  BY <1>1, <1>2
<1>6. <<>> \in Seq(Waiting \cup {Expired})
  OBVIOUS
<1>7. CASE ~completes(r, b)
  <2>1. /\ pm' = [pm EXCEPT ![r] = s] /\ due' = [due EXCEPT ![r] = <<>>]
        /\ Turn(r, s, Mine(r)', HaveQC(r)')
    BY <1>1, <1>2, <1>3, <1>4, <1>7
  <2> HIDE DEF s
  <2>. QED BY <1>2, <1>3, <1>4, <1>5, <1>6, <2>1, StepInv
<1>8. CASE completes(r, b)
  <2> DEFINE Q2 == HaveQC(r)'
  <2>1. HaveQC(r) \subseteq Q2 /\ Q2 \subseteq HaveQC(r) \cup {b}
    BY <1>3, <1>8
  <2> HIDE DEF Q2, s
  <2>2. /\ Turn(r, t, Mine(r), Q2)
        /\ t.proposer = s.proposer /\ t.pending_beats = s.pending_beats
        /\ BeatBehind(r, t) /\ BeatRuns(t, w)
        /\ w # <<>> => s.proposer = r
        /\ resolved(r, s, b) = w
        /\ w \in Seq(Waiting \cup {Expired})
    <3>1. /\ Turn(r, t, Mine(r), Q2)
          /\ t.proposer = s.proposer /\ t.pending_beats = s.pending_beats
      BY <1>2, <2>1, FinishInv
    <3>2. BeatBehind(r, t)
      BY <1>2, <2>1, FinishInv
    <3>3. BeatRuns(t, w)
      BY <1>2, <2>1, FinishInv, ZenonT(40)
    <3>4. (w # <<>> => s.proposer = r) /\ resolved(r, s, b) = w
      BY <1>2, <2>1, FinishInv
    <3>5. w \in Seq(Waiting \cup {Expired})
      BY <1>2, <2>1, FinishInv
    <3>. QED BY <3>1, <3>2, <3>3, <3>4, <3>5
  <2>3. due' = [due EXCEPT ![r] = w] /\ pm' = [pm EXCEPT ![r] = t]
    BY <1>1, <1>8, <2>2
  <2>4. Turn(r, t, Mine(r)', HaveQC(r)')
    BY <1>4, <2>2 DEF Q2
  <2> HIDE DEF t, w
  <2>. QED BY <1>3, <1>4, <1>5, <2>2, <2>3, <2>4, StepInv
<1>. QED BY <1>7, <1>8

-----------------------------------------------------------------------------
(* What every received proposal does to the others: nothing.               *)
LEMMA ReceiveEffects ==
    ASSUME PMTypeOK, NEW r \in Correct, NEW b \in Block, on_receive_proposal(r, b)
    PROVE  /\ \A p \in Correct : HaveQC(p)' = HaveQC(p) /\ Mine(p)' = Mine(p)
           /\ \A p \in Correct \ {r} : status'[p] = status[p]
<1>1. /\ UNCHANGED <<proposed, voted>>
      /\ status' = [status EXCEPT ![r] = "breached"] \/ status' = [status EXCEPT ![r] = @]
  BY DEF on_receive_proposal
<1>2. status \in [Correct -> {"running", "breached", "stale"}]
  BY DEF PMTypeOK, TypeOK
<1>3. \A p \in Correct \ {r} : status'[p] = status[p]
  BY <1>1, <1>2
<1>4. \A p \in Correct : HaveQC(p)' = HaveQC(p) /\ Mine(p)' = Mine(p)
  BY <1>1, SameQCs DEF Mine
<1>. QED BY <1>3, <1>4

(* The pacemaker after update: the decision may have ended a rotation.     *)
LEMMA UpdatedInv ==
    ASSUME RRInv, NEW r \in Correct, NEW b \in Block, status[r] = "running", due[r] = <<>>
    PROVE  LET s == updated(r, b)
           IN  /\ Turn(r, s, Mine(r), HaveQC(r))
               /\ s.pending_beats = pm[r].pending_beats
               /\ BeatRuns(s, <<>>) /\ BeatBehind(r, s)
<1>1. /\ Turn(r, pm[r], Mine(r), HaveQC(r)) /\ b0 \in HaveQC(r) /\ b0 \in Mine(r)
      /\ BeatRuns(pm[r], <<>>) /\ BeatBehind(r, pm[r])
  BY AtReplica
<1>2. Keeps(r, updated(r, b), pm[r], Mine(r))
  BY <1>1, ConsensusInv DEF updated
<1>. QED BY <1>1, <1>2 DEF Keeps

(* A QC that comes with a proposal adds no quorum that r has counted.      *)
LEMMA FinishKeeps ==
    ASSUME NEW r \in Correct, NEW s, NEW M, NEW Q, Turn(r, s, M, Q), NEW b \in Block
    PROVE  LET t == on_qc_finish(s, b)
               w == s.qc_waiting[b]
           IN  /\ Turn(r, t, M, Q)
               /\ t.proposer = s.proposer /\ t.pending_beats = s.pending_beats
               /\ BeatBehind(r, s) => BeatBehind(r, t)
               /\ BeatRuns(s, <<>>) => BeatRuns(t, w)
               /\ w # <<>> => s.proposer = r
               /\ resolved(r, s, b) = w
               /\ w \in Seq(Waiting \cup {Expired})
<1>1. Q \subseteq Q /\ Q \subseteq Q \cup {b}
  OBVIOUS
<1>. QED BY <1>1, FinishInv

(* A received proposal for whose QC nobody waits.                          *)
LEMMA RRReceiveProposalInv ==
    ASSUME RRInv, PMTypeOK', NEW r \in Correct, NEW b \in Block, receive_proposal(r, b)
    PROVE  RRInv'
<1> DEFINE s == updated(r, b)
           f == on_qc_finish(s, qc_ref[b])
           u == reg_prop_blk(f, creator[b], b)
           t == IF status'[r] = "running" THEN u ELSE pm[r]
<1>1. /\ status[r] = "running" /\ due[r] = <<>> /\ on_receive_proposal(r, b)
      /\ s.qc_waiting[qc_ref[b]] = <<>>
      /\ UNCHANGED <<due, beats, turns>> /\ pm' = [pm EXCEPT ![r] = t]
  BY DEF receive_proposal, pm_receive_proposal, idle, set
<1>2. /\ <<>> \in Seq(Waiting \cup {Expired}) /\ due = [due EXCEPT ![r] = <<>>]
      /\ beats \in 0 .. MaxBeats /\ MaxBeats \in Nat
      /\ turns \in [Correct -> 0 .. MaxRotations]
      /\ pm[r].pending_beats <= beats
      /\ Turn(r, pm[r], Mine(r), HaveQC(r))
      /\ BeatRuns(pm[r], <<>>) /\ BeatBehind(r, pm[r])
  BY <1>1, AtReplica
<1>3. /\ Turn(r, s, Mine(r), HaveQC(r)) /\ s.pending_beats = pm[r].pending_beats
      /\ BeatRuns(s, <<>>) /\ BeatBehind(r, s)
  BY <1>1, UpdatedInv
<1> HIDE DEF s
<1>4. qc_ref[b] \in Block /\ creator[b] \in Replica
  BY TreeType, ReplicaAssumption
<1>5. /\ Turn(r, f, Mine(r), HaveQC(r)) /\ f.pending_beats = s.pending_beats
      /\ BeatRuns(f, s.qc_waiting[qc_ref[b]]) /\ BeatBehind(r, f)
  <2>1. Turn(r, f, Mine(r), HaveQC(r)) /\ f.pending_beats = s.pending_beats
    BY <1>3, <1>4, FinishKeeps
  <2>2. BeatRuns(f, s.qc_waiting[qc_ref[b]])
    BY <1>3, <1>4, FinishKeeps
  <2>3. BeatBehind(r, f)
    BY <1>3, <1>4, FinishKeeps
  <2>. QED BY <2>1, <2>2, <2>3
<1> HIDE DEF f
<1>6. Keeps(r, u, f, Mine(r))
  BY <1>4, <1>5, RegInv
<1> HIDE DEF u
<1>7. /\ Turn(r, u, Mine(r), HaveQC(r)) /\ u.pending_beats = pm[r].pending_beats
      /\ BeatRuns(u, <<>>) /\ BeatBehind(r, u)
  BY <1>1, <1>3, <1>5, <1>6 DEF Keeps
<1>8. t \in {u, pm[r]}
  OBVIOUS
<1> HIDE DEF t
<1>9. /\ Turn(r, t, Mine(r), HaveQC(r)) /\ t.pending_beats = pm[r].pending_beats
      /\ BeatRuns(t, <<>>) /\ BeatBehind(r, t)
  BY <1>2, <1>7, <1>8
<1>10. /\ \A p \in Correct : HaveQC(p)' = HaveQC(p) /\ Mine(p)' = Mine(p)
       /\ \A p \in Correct \ {r} : status'[p] = status[p]
  BY <1>1, ReceiveEffects DEF RRInv, RRTypeOK
<1>11. Turn(r, t, Mine(r)', HaveQC(r)')
  BY <1>9, <1>10
<1>12. /\ beats' \in beats .. MaxBeats /\ turns' \in [Correct -> 0 .. MaxRotations]
       /\ t.pending_beats <= beats' /\ due' = [due EXCEPT ![r] = <<>>]
  BY <1>1, <1>2, <1>9
<1>. QED BY <1>1, <1>2, <1>9, <1>10, <1>11, <1>12, StepInv

(* One that wakes somebody: what is due proposes in r's own turn.          *)
LEMMA RRReceiveFirstInv ==
    ASSUME RRInv, PMTypeOK', NEW r \in Correct, NEW b \in Block, receive_first(r, b)
    PROVE  RRInv'
<1> DEFINE s == updated(r, b)
           w == s.qc_waiting[qc_ref[b]]
           f == on_qc_finish(s, qc_ref[b])
<1>1. /\ status[r] = "running" /\ due[r] = <<>> /\ on_receive_proposal(r, b)
      /\ UNCHANGED <<beats, turns>>
      /\ \/ /\ status'[r] = "running"
            /\ due' = [due EXCEPT ![r] = resolved(r, s, qc_ref[b])]
            /\ pm' = [pm EXCEPT ![r] = f]
         \/ UNCHANGED <<due, pm>>
  BY DEF receive_first, pm_receive_first, idle, set
<1>2. /\ <<>> \in Seq(Waiting \cup {Expired}) /\ due = [due EXCEPT ![r] = <<>>]
      /\ pm = [pm EXCEPT ![r] = pm[r]]
      /\ beats \in 0 .. MaxBeats /\ MaxBeats \in Nat
      /\ turns \in [Correct -> 0 .. MaxRotations]
      /\ pm[r].pending_beats <= beats
      /\ Turn(r, pm[r], Mine(r), HaveQC(r))
      /\ BeatRuns(pm[r], <<>>) /\ BeatBehind(r, pm[r])
  BY <1>1, AtReplica
<1>3. /\ Turn(r, s, Mine(r), HaveQC(r)) /\ s.pending_beats = pm[r].pending_beats
      /\ BeatRuns(s, <<>>) /\ BeatBehind(r, s)
  BY <1>1, UpdatedInv
<1> HIDE DEF s
<1>4. qc_ref[b] \in Block
  BY TreeType
<1>5. /\ Turn(r, f, Mine(r), HaveQC(r)) /\ f.pending_beats = s.pending_beats
      /\ f.proposer = s.proposer
      /\ BeatRuns(f, w) /\ BeatBehind(r, f)
      /\ w # <<>> => s.proposer = r
      /\ resolved(r, s, qc_ref[b]) = w
      /\ w \in Seq(Waiting \cup {Expired})
  <2>1. /\ Turn(r, f, Mine(r), HaveQC(r)) /\ f.pending_beats = s.pending_beats
        /\ f.proposer = s.proposer
    BY <1>3, <1>4, FinishKeeps
  <2>2. BeatBehind(r, f)
    BY <1>3, <1>4, FinishKeeps
  <2>3. BeatRuns(f, w)
    BY <1>3, <1>4, FinishKeeps
  <2>4. w # <<>> => s.proposer = r
    BY <1>3, <1>4 DEF Turn, WaitsInTurn
  <2>5. resolved(r, s, qc_ref[b]) = w
    BY <1>3, <1>4, FinishKeeps
  <2>6. w \in Seq(Waiting \cup {Expired})
    BY <1>3, <1>4, FinishKeeps
  <2>. QED BY <2>1, <2>2, <2>3, <2>4, <2>5, <2>6
<1> HIDE DEF f, w
<1>6. /\ \A p \in Correct : HaveQC(p)' = HaveQC(p) /\ Mine(p)' = Mine(p)
      /\ \A p \in Correct \ {r} : status'[p] = status[p]
  BY <1>1, ReceiveEffects DEF RRInv, RRTypeOK
<1>7. /\ Turn(r, f, Mine(r)', HaveQC(r)') /\ Turn(r, pm[r], Mine(r)', HaveQC(r)')
      /\ beats' \in beats .. MaxBeats /\ turns' \in [Correct -> 0 .. MaxRotations]
      /\ f.pending_beats <= beats' /\ pm[r].pending_beats <= beats'
  BY <1>1, <1>2, <1>3, <1>5, <1>6
<1>8. CASE /\ due' = [due EXCEPT ![r] = resolved(r, s, qc_ref[b])]
           /\ pm' = [pm EXCEPT ![r] = f]
  <2>1. due' = [due EXCEPT ![r] = w]
    BY <1>5, <1>8
  <2>. QED BY <1>5, <1>6, <1>7, <1>8, <2>1, StepInv
<1>9. CASE UNCHANGED <<due, pm>>
  <2>1. due' = [due EXCEPT ![r] = <<>>] /\ pm' = [pm EXCEPT ![r] = pm[r]]
    BY <1>2, <1>9
  <2>. QED BY <1>2, <1>6, <1>7, <2>1, StepInv
<1>. QED BY <1>1, <1>8, <1>9

LEMMA RRReceiveLastInv ==
    ASSUME RRInv, PMTypeOK', NEW r \in Correct, receive_last(r)
    PROVE  RRInv'
<1> DEFINE b == receiving[r]
           t == reg_prop_blk(pm[r], creator[b], b)
<1>1. /\ status[r] = "running" /\ due[r] = <<>> /\ UNCHANGED <<proposed, voted, status>>
      /\ UNCHANGED <<due, beats, turns>> /\ pm' = [pm EXCEPT ![r] = t]
  BY DEF receive_last, pm_receive_last, core_vars, set
<1>2. /\ <<>> \in Seq(Waiting \cup {Expired}) /\ due = [due EXCEPT ![r] = <<>>]
      /\ beats \in 0 .. MaxBeats /\ MaxBeats \in Nat
      /\ turns \in [Correct -> 0 .. MaxRotations]
      /\ pm[r].pending_beats <= beats
      /\ Turn(r, pm[r], Mine(r), HaveQC(r))
      /\ BeatRuns(pm[r], <<>>) /\ BeatBehind(r, pm[r])
  BY <1>1, AtReplica
<1>3. b \in Block /\ creator[b] \in Replica
  <2>1. b \in Block
    BY DEF RRInv, RRTypeOK, PMTypeOK
  <2>. QED BY <2>1, ReplicaAssumption
<1> HIDE DEF b
<1>4. Keeps(r, t, pm[r], Mine(r))
  BY <1>2, <1>3, RegInv
<1> HIDE DEF t
<1>5. /\ Turn(r, t, Mine(r), HaveQC(r)) /\ t.pending_beats = pm[r].pending_beats
      /\ BeatRuns(t, <<>>) /\ BeatBehind(r, t)
  BY <1>2, <1>4 DEF Keeps
<1>6. \A p \in Correct : HaveQC(p)' = HaveQC(p) /\ Mine(p)' = Mine(p) /\ status'[p] = status[p]
  BY <1>1, SameQCs DEF Mine
<1>7. /\ beats' \in beats .. MaxBeats /\ turns' \in [Correct -> 0 .. MaxRotations]
      /\ t.pending_beats <= beats' /\ due' = [due EXCEPT ![r] = <<>>]
      /\ Turn(r, t, Mine(r)', HaveQC(r)')
  BY <1>1, <1>2, <1>5, <1>6
<1>. QED BY <1>1, <1>2, <1>5, <1>6, <1>7, StepInv

LEMMA RRDeliverInv ==
    ASSUME RRInv, PMTypeOK', NEW r \in Correct, NEW b \in Block, deliver_blk(r, b)
    PROVE  RRInv'
<1>1. UNCHANGED <<proposed, voted, status, pm, due, beats, turns>>
  BY DEF deliver_blk, pm_deliver_blk, on_deliver_blk
<1>2. \A p \in Correct : HaveQC(p)' = HaveQC(p) /\ Mine(p)' = Mine(p)
  BY <1>1, SameQCs DEF Mine
<1>3. RRTypeOK'
  BY <1>1 DEF RRInv, RRTypeOK
<1>. QED BY <1>1, <1>2, <1>3 DEF RRInv

LEMMA RRInitInv ==
    ASSUME RRInit, PMTypeOK
    PROVE  RRInv
<1> DEFINE s == [ proposer |-> 0, rotating |-> FALSE, timer |-> "none",
                  prop_blk |-> [p \in Replica |-> b0],
                  pending_beats |-> 0, locked |-> FALSE, last_proposed |-> b0,
                  qc_waiting |-> [b \in Block |-> <<>>], rejected |-> {},
                  pm_qc_finish |-> b0, pm_qc_manual |-> b0 ]
<1>1. /\ pm = [r \in Correct |-> s] /\ due = [r \in Correct |-> <<>>]
      /\ beats = 0 /\ turns = [r \in Correct |-> 0]
      /\ proposed = {} /\ \A r \in Correct : voted[r][b0] = Replica
  BY TreeType DEF RRInit, PMInit, Init
<1>2. \A r \in Correct : b0 \in HaveQC(r)
  <2>1. Cardinality(Replica) >= nmajority
    <3>1. Cardinality(Replica) \in Nat /\ Cardinality(Replica) > 1
      BY FS_CardinalityType, ReplicaAssumption
    <3>. QED BY <3>1 DEF nmajority, nfaulty
  <2>. QED BY <1>1, <2>1, TreeType DEF HaveQC, has_qc
<1>3. /\ s \in PM /\ s.last_proposed = b0 /\ s.pm_qc_finish = b0 /\ s.pm_qc_manual = b0
      /\ s.rejected = {} /\ s.pending_beats = 0 /\ s.locked = FALSE
      /\ \A b \in Block : s.qc_waiting[b] = <<>>
  <2>1. 0 \in Replica /\ 0 \in 0 .. MaxBeats
    <3>1. Cardinality(Replica) \in Nat /\ Cardinality(Replica) > 1
      BY FS_CardinalityType, ReplicaAssumption
    <3>. QED BY <3>1, RRAssumption
  <2>2. <<>> \in Seq(Waiting) /\ b0 \in Block
    BY TreeType
  <2>. QED BY <2>1, <2>2 DEF PM
<1> HIDE DEF s
<1>4. RRTypeOK
  <2>1. <<>> \in Seq(Waiting \cup {Expired}) /\ 0 \in 0 .. MaxBeats /\ 0 \in 0 .. MaxRotations
    BY RRAssumption
  <2>. QED BY <1>1, <1>3, <2>1 DEF RRTypeOK
<1>5. ASSUME NEW r \in Correct
      PROVE  /\ Turn(r, s, Mine(r), HaveQC(r)) /\ BeatRuns(s, <<>>) /\ BeatBehind(r, s)
             /\ s.pending_beats <= beats
  <2>1. Turn(r, s, Mine(r), HaveQC(r))
    BY <1>2, <1>3 DEF Turn, WaitsInTurn, FreeToWait, Mine
  <2>. QED BY <1>1, <1>3, <2>1 DEF BeatRuns, BeatBehind
<1>6. \A r \in Correct : pm[r] = s /\ due[r] = <<>>
  BY <1>1
<1>. QED BY <1>2, <1>4, <1>5, <1>6 DEF RRInv

-----------------------------------------------------------------------------
LEMMA RRStepInv ==
    ASSUME RRInv, PMInv, CountInv, PMTypeOK', [RRNext]_rr_vars
    PROVE  RRInv'
<1>1. CASE UNCHANGED rr_vars
  <2>1. UNCHANGED <<pm_vars, pm, due, beats, turns>>
    BY <1>1 DEF rr_vars
  <2>2. UNCHANGED <<proposed, voted, status>>
    BY <2>1 DEF pm_vars, core_vars
  <2>3. \A p \in Correct : HaveQC(p)' = HaveQC(p) /\ Mine(p)' = Mine(p)
    BY <2>2, SameQCs DEF Mine
  <2>4. RRTypeOK'
    BY <2>1 DEF RRInv, RRTypeOK
  <2>. QED BY <2>1, <2>2, <2>3, <2>4 DEF RRInv
<1>2. ASSUME NEW r \in Correct,
             beat(r) \/ impeach(r) \/ on_exp_timeout(r) \/ prop_timeout(r)
      PROVE  RRInv'
  BY <1>2, BeatInv, RotateStepInv, ExpInv
<1>3. ASSUME NEW r \in Correct, NEW b \in Block,
             \/ on_beat(r, b) \/ do_new_consensus(r, b)
             \/ deliver_blk(r, b) \/ receive_proposal(r, b) \/ receive_first(r, b)
      PROVE  RRInv'
  BY <1>3, OnBeatInv, NewConsensusInv, RRDeliverInv, RRReceiveProposalInv, RRReceiveFirstInv
<1>4. ASSUME NEW r \in Correct, NEW b \in Block, NEW v \in Replica, receive_vote(r, v, b)
      PROVE  RRInv'
  BY <1>4, RRReceiveVoteInv
<1>5. ASSUME NEW r \in Correct, receive_last(r) PROVE RRInv'
  BY <1>5, RRReceiveLastInv
<1>6. CASE RRNext
  BY <1>2, <1>3, <1>4, <1>5, <1>6 DEF RRNext
<1>. QED BY <1>1, <1>6

(* However timers, votes and proposals interleave, whoever waits at r does *)
(* so in r's own turn, on a promise the next rotation can reject and for a *)
(* QC that is still to come, and r's beats are behind one that runs.       *)
THEOREM RRSpecInv == RRSpec => []RRInv
<1>1. RRInit /\ PMTypeOK => RRInv
  BY RRInitInv
<1>2. RRInv /\ PMInv /\ CountInv /\ PMTypeOK' /\ [RRNext]_rr_vars => RRInv'
  BY RRStepInv
<1>3. PMInv => PMTypeOK
  BY DEF PMInv
<1>4. RRSpec => []PMInv /\ []CountInv
  BY RRRefinesPM, PMSpecInv, PMCoreInv, PTL
<1>. QED BY <1>1, <1>2, <1>3, <1>4, PTL DEF RRSpec

(* A proposer that is locked outside a rotation has a beat that runs or    *)
(* waits for the QC of its last block, so that the QC always unlocks it.   *)
THEOREM RRLockedIsLive == RRSpec => []LockedIsLive
<1>1. RRInv => LockedIsLive
  BY DEF RRInv, BeatRuns, LockedIsLive
<1>. QED BY <1>1, RRSpecInv, PTL

(* The queue of a proposer is behind a beat that has been taken, unless a  *)
(* rotation has just ended and nothing is proposed since.                  *)
THEOREM RRQueueServed == RRSpec => []QueueServed
<1>1. RRInv => QueueServed
  BY DEF RRInv, BeatBehind, QueueServed
<1>. QED BY <1>1, RRSpecInv, PTL

(* What was begun in one turn never proposes in another one's.             *)
THEOREM RRProposesInTurn == RRSpec => ProposesInTurn
<1>1. RRInv /\ PMInv /\ CountInv /\ [RRNext]_rr_vars =>
        \A b \in proposed' \ proposed : pm[creator[b]].proposer = creator[b]
  <2>1. SUFFICES ASSUME RRInv, PMInv, CountInv, RRNext, NEW c \in proposed' \ proposed
                 PROVE  pm[creator[c]].proposer = creator[c]
    BY DEF rr_vars, pm_vars, core_vars
  <2>2. ASSUME NEW r \in Correct, NEW b \in Block,
               on_beat(r, b) \/ do_new_consensus(r, b)
        PROVE  pm[creator[c]].proposer = creator[c]
    <3>1. pm_propose(r, b) /\ due[r] # <<>>
      BY <2>2 DEF on_beat, do_new_consensus
    <3>2. creator[b] = r /\ proposed' \subseteq proposed \cup {b}
      BY <2>1, <2>2, <3>1, ProposeEffects
    <3>3. pm[r].proposer = r
      BY <2>1, <2>2, <3>1, AtReplica
    <3>. QED BY <3>2, <3>3
  <2>3. ASSUME NEW r \in Correct, NEW b \in Block,
               \/ deliver_blk(r, b) \/ receive_proposal(r, b) \/ receive_first(r, b)
               \/ \E v \in Replica : receive_vote(r, v, b)
        PROVE  UNCHANGED proposed
    BY <2>3 DEF deliver_blk, pm_deliver_blk, on_deliver_blk,
                receive_proposal, pm_receive_proposal, on_receive_proposal,
                receive_first, pm_receive_first,
                receive_vote, pm_receive_vote, on_receive_vote
  <2>4. ASSUME NEW r \in Correct,
               beat(r) \/ impeach(r) \/ on_exp_timeout(r) \/ prop_timeout(r)
        PROVE  UNCHANGED proposed
    BY <2>4, TimersLeaveCore DEF pm_vars, core_vars
  <2>5. ASSUME NEW r \in Correct, receive_last(r)
        PROVE  UNCHANGED proposed
    BY <2>5 DEF receive_last, pm_receive_last, core_vars
  <2>. QED BY <2>1, <2>2, <2>3, <2>4, <2>5 DEF RRNext
<1>2. RRSpec => []PMInv /\ []CountInv
  BY RRRefinesPM, PMSpecInv, PMCoreInv, PTL
<1>. QED BY <1>1, <1>2, RRSpecInv, PTL DEF RRSpec, ProposesInTurn
=============================================================================
