---------------------- MODULE FlashOrderPipeline_proofs ----------------------
(***************************************************************************)
(* The pipeline for any number of replicas, commands and rounds: its       *)
(* variables have their types, no majority is left waiting, what a         *)
(* majority has ordered is chosen, the cache and the requests add up, and  *)
(* it uses consensus as BeatChain allows.                                  *)
(***************************************************************************)
EXTENDS FlashOrderPipeline, FiniteSetTheorems, TLAPS

(* The replicas whose local orders the leader could merge.                 *)
Waiting(lists) == {r \in Replica : lists[r] # <<>>}

Lists == Seq((SUBSET Cmd) \ {{}})

(* TypeOK in the parts the handlers share.                                 *)
ClientTypeOK ==
    /\ arrivals \in [Correct -> [Cmd -> 0 .. MaxRequests]]
    /\ decision_waiting \in [Correct -> SUBSET Cmd]
    /\ applied \in [Correct -> [Cmd -> Nat]]

LeaderTypeOK ==
    /\ ordered_list_cache \in [Replica -> Lists]
    /\ proposed_cmds_cache \subseteq Cmd
    /\ pending_beats \in Lists /\ chain \in Lists
    /\ has_qc \in BOOLEAN
    /\ executed \in [Correct -> Nat]

SenderTypeOK ==
    /\ local_order_buffer \in [Correct -> Seq(Cmd)]
    /\ \A r \in Correct : Len(local_order_buffer[r]) < blk_size
    /\ sent \in [Correct -> Seq(SUBSET Cmd)]
    /\ forged \subseteq Faulty \X FaultyOrders

LEMMA TypeParts == TypeOK <=> ClientTypeOK /\ LeaderTypeOK /\ SenderTypeOK
  BY DEF TypeOK, ClientTypeOK, LeaderTypeOK, SenderTypeOK, Lists

LEMMA Majority ==
    /\ nmajority \in Nat /\ nmajority >= 1
    /\ Leader \in Correct /\ Leader \in Replica /\ IsFiniteSet(Replica)
<1>1. IsFiniteSet(Replica) /\ Leader \in Correct /\ Leader \in Replica
  BY PipelineAssumption DEF Correct
<1>2. Cardinality(Replica) \in Nat /\ Cardinality(Replica) # 0
  BY <1>1, FS_CardinalityType, FS_EmptySet
<1>. QED BY <1>1, <1>2 DEF nmajority, nfaulty

-----------------------------------------------------------------------------
(* The commands of a part of a queue.                                      *)
LEMMA CmdsOf ==
    ASSUME NEW S, NEW i, NEW j, NEW c
    PROVE  c \in cmds_of(S, i, j) <=> \E k \in i .. j : c \in S[k]
  BY DEF cmds_of

LEMMA CmdsSplit ==
    ASSUME NEW S, NEW i \in Int, NEW j \in Int, NEW k \in Int, i <= k + 1, k <= j
    PROVE  cmds_of(S, i, j) = cmds_of(S, i, k) \cup cmds_of(S, k + 1, j)
<1>1. \A x \in Int : x \in i .. j <=> x \in i .. k \/ x \in k + 1 .. j
  OBVIOUS
<1>2. ASSUME NEW c
      PROVE  c \in cmds_of(S, i, j) <=> c \in cmds_of(S, i, k) \cup cmds_of(S, k + 1, j)
  <2>1. (\E x \in i .. j : c \in S[x])
          <=> (\E x \in i .. k : c \in S[x]) \/ (\E x \in k + 1 .. j : c \in S[x])
    BY <1>1
  <2>. QED BY <2>1, CmdsOf
<1>. QED BY <1>2

(* Parts of a queue before and behind its end.                             *)
LEMMA CmdsAppend ==
    ASSUME NEW S \in Lists, NEW x \in (SUBSET Cmd) \ {{}}, NEW i \in Nat \ {0}
    PROVE  /\ Append(S, x) \in Lists /\ Len(Append(S, x)) = Len(S) + 1
           /\ Chosen(Append(S, x)) = Chosen(S) \cup x
           /\ i <= Len(S) + 1 =>
                cmds_of(Append(S, x), i, Len(S) + 1) = cmds_of(S, i, Len(S)) \cup x
<1> DEFINE A == Append(S, x)
           n == Len(S)
<1>1. /\ A \in Lists /\ Len(A) = n + 1 /\ A[n + 1] = x /\ n \in Nat
      /\ \A k \in 1 .. n : A[k] = S[k]
  BY DEF Lists
<1>2. ASSUME NEW m \in Nat \ {0}, m <= n + 1
      PROVE  cmds_of(A, m, n + 1) = cmds_of(S, m, n) \cup x
  <2>1. cmds_of(A, m, n + 1) = cmds_of(A, m, n) \cup cmds_of(A, n + 1, n + 1)
    BY <1>1, <1>2, CmdsSplit
  <2>2. ASSUME NEW c PROVE c \in cmds_of(A, m, n) <=> c \in cmds_of(S, m, n)
    <3>1. \A k \in m .. n : A[k] = S[k]
      BY <1>1, <1>2
    <3>2. (\E k \in m .. n : c \in A[k]) <=> (\E k \in m .. n : c \in S[k])
      BY <3>1
    <3> HIDE DEF A
    <3>. QED BY <3>2, CmdsOf
  <2>3. ASSUME NEW c PROVE c \in cmds_of(A, n + 1, n + 1) <=> c \in x
    <3>1. n + 1 .. n + 1 = {n + 1}
      BY <1>1
    <3>. QED BY <1>1, <3>1, CmdsOf
  <2>. QED BY <2>1, <2>2, <2>3
<1>3. Chosen(A) = Chosen(S) \cup x
  BY <1>1, <1>2 DEF Chosen
<1>. QED BY <1>1, <1>2, <1>3

LEMMA CmdsTail ==
    ASSUME NEW S \in Lists, S # <<>>
    PROVE  /\ Tail(S) \in Lists /\ Len(Tail(S)) = Len(S) - 1
           /\ Head(S) \in (SUBSET Cmd) \ {{}}
           /\ Chosen(S) = Head(S) \cup Chosen(Tail(S))
<1> DEFINE n == Len(S)
<1>1. /\ n \in Nat \ {0} /\ Tail(S) \in Lists /\ Len(Tail(S)) = n - 1 /\ Head(S) = S[1]
      /\ \A k \in 1 .. n - 1 : Tail(S)[k] = S[k + 1]
      /\ Head(S) \in (SUBSET Cmd) \ {{}}
  BY DEF Lists
<1>2. ASSUME NEW c PROVE c \in Chosen(S) <=> c \in Head(S) \/ c \in Chosen(Tail(S))
  <2>1. c \in Chosen(S) <=> \E k \in 1 .. n : c \in S[k]
    BY CmdsOf DEF Chosen
  <2>2. c \in Chosen(Tail(S)) <=> \E k \in 1 .. n - 1 : c \in Tail(S)[k]
    BY <1>1, CmdsOf DEF Chosen
  <2>3. ASSUME NEW k \in 1 .. n, c \in S[k], k # 1
        PROVE  \E m \in 1 .. n - 1 : c \in Tail(S)[m]
    <3>1. k - 1 \in 1 .. n - 1 /\ Tail(S)[k - 1] = S[k]
      BY <1>1, <2>3
    <3>. QED BY <2>3, <3>1
  <2>4. ASSUME NEW m \in 1 .. n - 1, c \in Tail(S)[m]
        PROVE  \E k \in 1 .. n : c \in S[k]
    <3>1. m + 1 \in 1 .. n /\ c \in S[m + 1]
      BY <1>1, <2>4
    <3>. QED BY <3>1
  <2>5. 1 \in 1 .. n
    BY <1>1
  <2>. QED BY <1>1, <2>1, <2>2, <2>3, <2>4, <2>5
<1>. QED BY <1>1, <1>2

LEMMA TailOfOne ==
    ASSUME NEW S \in Lists, S # <<>>, Len(S) <= 1
    PROVE  Tail(S) = <<>>
<1>1. Len(S) = 1
  <2> DEFINE n == Len(S)
  <2>1. n \in Nat /\ n # 0 /\ n <= 1
    BY DEF Lists
  <2> HIDE DEF n
  <2>2. n = 1
    BY <2>1
  <2>. QED BY <2>2 DEF n
<1>2. Tail(S) \in Seq((SUBSET Cmd) \ {{}}) /\ Len(Tail(S)) = 0
  BY <1>1 DEF Lists
<1>. QED BY <1>2

(* What is not the first of a queue's members is in the tail.              *)
LEMMA InTail ==
    ASSUME NEW q \in Seq(SUBSET Cmd), q # <<>>, NEW c, c \notin Head(q),
           \A i \in DOMAIN Tail(q) : c \notin Tail(q)[i]
    PROVE  \A i \in DOMAIN q : c \notin q[i]
<1>1. SUFFICES ASSUME NEW i \in 1 .. Len(q) PROVE c \notin q[i]
  OBVIOUS
<1>2. CASE i = 1
  BY <1>2
<1>3. CASE i # 1
  <2>1. i - 1 \in DOMAIN Tail(q) /\ Tail(q)[i - 1] = q[i]
    BY <1>1, <1>3
  <2>. QED BY <2>1
<1>. QED BY <1>2, <1>3

(* A longer queue has what it had, and the new member.                     *)
LEMMA InAppend ==
    ASSUME NEW q \in Seq(SUBSET Cmd), NEW o, NEW c,
           \A i \in DOMAIN Append(q, o) : c \notin Append(q, o)[i]
    PROVE  c \notin o /\ \A i \in DOMAIN q : c \notin q[i]
<1>1. /\ DOMAIN Append(q, o) = 1 .. Len(q) + 1 /\ DOMAIN q = 1 .. Len(q)
      /\ Append(q, o)[Len(q) + 1] = o /\ Len(q) \in Nat
      /\ \A i \in 1 .. Len(q) : Append(q, o)[i] = q[i]
  OBVIOUS
<1>2. Len(q) + 1 \in 1 .. Len(q) + 1 /\ \A i \in 1 .. Len(q) : i \in 1 .. Len(q) + 1
  BY <1>1
<1>. QED BY <1>1, <1>2

-----------------------------------------------------------------------------
(* 1 when a request for c waits in w.                                      *)
Waits(c, w) == IF c \in w THEN 1 ELSE 0

(* do_decide leaves a request waiting or calls it back.                    *)
LEMMA Decide ==
    ASSUME ClientTypeOK, NEW r \in Correct, NEW D, NEW w \in SUBSET Cmd,
           NEW a \in [Cmd -> Nat], do_decide(r, D, w, a)
    PROVE  /\ decision_waiting' \in [Correct -> SUBSET Cmd]
           /\ applied' \in [Correct -> [Cmd -> Nat]]
           /\ \A s \in Correct \ {r} : /\ decision_waiting'[s] = decision_waiting[s]
                                       /\ applied'[s] = applied[s]
           /\ \A c \in Cmd :
                applied'[r][c] + Waits(c, decision_waiting'[r]) = a[c] + Waits(c, w)
<1> DEFINE b == [c \in Cmd |-> IF c \in w \cap D THEN a[c] + 1 ELSE a[c]]
<1>1. /\ decision_waiting' = [decision_waiting EXCEPT ![r] = w \ D]
      /\ applied' = [applied EXCEPT ![r] = b]
      /\ decision_waiting \in [Correct -> SUBSET Cmd] /\ applied \in [Correct -> [Cmd -> Nat]]
  BY DEF do_decide, ClientTypeOK
<1>2. b \in [Cmd -> Nat] /\ w \ D \in SUBSET Cmd
  OBVIOUS
<1>3. ASSUME NEW c \in Cmd
      PROVE  b[c] + Waits(c, w \ D) = a[c] + Waits(c, w)
  <2>1. a[c] \in Nat /\ b[c] = IF c \in w \cap D THEN a[c] + 1 ELSE a[c]
    OBVIOUS
  <2>. QED BY <2>1 DEF Waits
<1> HIDE DEF b
<1>4. decision_waiting'[r] = w \ D /\ applied'[r] = b
  BY <1>1
<1>. QED BY <1>1, <1>2, <1>3, <1>4

(* add_local_order: r has what is not being proposed, the others the same. *)
LEMMA Added ==
    ASSUME LeaderTypeOK, NEW r \in Replica, NEW o \in SUBSET Cmd
    PROVE  /\ add_local_order(r, o) \in [Replica -> Lists]
           /\ Waiting(add_local_order(r, o)) \subseteq Waiting(ordered_list_cache) \cup {r}
           /\ r \notin Waiting(ordered_list_cache) => Len(add_local_order(r, o)[r]) <= 1
           /\ \A s \in Replica :
                Chosen(ordered_list_cache[s]) \subseteq Chosen(add_local_order(r, o)[s])
           /\ o \subseteq Chosen(add_local_order(r, o)[r]) \cup proposed_cmds_cache
<1> DEFINE filtered == o \ proposed_cmds_cache
           lists    == add_local_order(r, o)
<1>1. ordered_list_cache \in [Replica -> Lists] /\ ordered_list_cache[r] \in Lists
  BY DEF LeaderTypeOK
<1>2. CASE filtered = {}
  <2>1. lists = ordered_list_cache
    BY <1>2 DEF add_local_order
  <2>2. ordered_list_cache[r] = <<>> => Len(ordered_list_cache[r]) <= 1
    OBVIOUS
  <2>. QED BY <1>1, <1>2, <2>1, <2>2 DEF Waiting
<1>3. CASE filtered # {}
  <2> DEFINE q == Append(ordered_list_cache[r], filtered)
  <2>1. lists = [ordered_list_cache EXCEPT ![r] = q]
    BY <1>3 DEF add_local_order
  <2>2. /\ q \in Lists /\ Len(q) = Len(ordered_list_cache[r]) + 1
        /\ Chosen(q) = Chosen(ordered_list_cache[r]) \cup filtered
    <3>1. filtered \in (SUBSET Cmd) \ {{}}
      BY <1>3
    <3> HIDE DEF filtered
    <3>. QED BY <1>1, <3>1, CmdsAppend
  <2>3. lists[r] = q /\ \A s \in Replica \ {r} : lists[s] = ordered_list_cache[s]
    BY <1>1, <2>1
  <2>4. lists \in [Replica -> Lists]
    BY <1>1, <2>1, <2>2
  <2>5. ordered_list_cache[r] = <<>> => Len(q) <= 1
    BY <2>2
  <2>6. o \subseteq filtered \cup proposed_cmds_cache
    OBVIOUS
  <2> HIDE DEF q, filtered, lists
  <2>. QED BY <2>2, <2>3, <2>4, <2>5, <2>6 DEF Waiting, lists
<1>. QED BY <1>2, <1>3

(* The round: each list the round took is in it, what it left is queued.   *)
LEMMA Popped ==
    ASSUME NEW lists \in [Replica -> Lists]
    PROVE  /\ pop_all_front(lists) \in [Replica -> Lists]
           /\ \A s \in Replica : Chosen(lists[s]) \subseteq
                  fronts(lists) \cup Chosen(pop_all_front(lists)[s])
           /\ \A s \in Replica : Len(lists[s]) <= 1 => pop_all_front(lists)[s] = <<>>
           /\ Waiting(pop_all_front(lists)) \subseteq Waiting(lists)
           /\ has_majority(lists) => fronts(lists) \in (SUBSET Cmd) \ {{}}
<1> DEFINE p == pop_all_front(lists)
<1>1. \A s \in Replica : p[s] = IF lists[s] = <<>> THEN <<>> ELSE Tail(lists[s])
  BY DEF pop_all_front
<1>2. \A s \in Replica : lists[s] # <<>> =>
         /\ Tail(lists[s]) \in Lists /\ Len(Tail(lists[s])) = Len(lists[s]) - 1
         /\ Head(lists[s]) \in (SUBSET Cmd) \ {{}}
         /\ Chosen(lists[s]) = Head(lists[s]) \cup Chosen(Tail(lists[s]))
         /\ Head(lists[s]) \subseteq fronts(lists)
  <2>1. SUFFICES ASSUME NEW s \in Replica, lists[s] # <<>>
                 PROVE  /\ Tail(lists[s]) \in Lists
                        /\ Len(Tail(lists[s])) = Len(lists[s]) - 1
                        /\ Head(lists[s]) \in (SUBSET Cmd) \ {{}}
                        /\ Chosen(lists[s]) = Head(lists[s]) \cup Chosen(Tail(lists[s]))
                        /\ Head(lists[s]) \subseteq fronts(lists)
    OBVIOUS
  <2>2. Head(lists[s]) \subseteq fronts(lists)
    BY <2>1 DEF fronts
  <2>. QED BY <2>1, <2>2, CmdsTail
<1>3. <<>> \in Lists
  BY DEF Lists
<1>4. p \in [Replica -> Lists]
  <2>1. \A s \in Replica : p[s] \in Lists
    BY <1>1, <1>2, <1>3
  <2>. QED BY <2>1 DEF pop_all_front
<1>5. \A s \in Replica : Chosen(lists[s]) \subseteq fronts(lists) \cup Chosen(p[s])
  BY <1>1, <1>2
<1>6. ASSUME NEW s \in Replica, Len(lists[s]) <= 1 PROVE p[s] = <<>>
  <2>1. CASE lists[s] = <<>>
    BY <1>1, <2>1
  <2>2. CASE lists[s] # <<>>
    <3>1. lists[s] \in Lists
      OBVIOUS
    <3>2. Tail(lists[s]) = <<>>
      BY <1>6, <2>2, <3>1, TailOfOne
    <3>. QED BY <1>1, <2>2, <3>2
  <2>. QED BY <2>1, <2>2
<1>7. Waiting(p) \subseteq Waiting(lists)
  BY <1>1 DEF Waiting
<1>8. ASSUME has_majority(lists) PROVE fronts(lists) \in (SUBSET Cmd) \ {{}}
  <2>1. PICK s \in Replica : lists[s] # <<>>
    <3>1. {r \in Replica : lists[r] # <<>>} # {}
      BY <1>8, Majority, FS_EmptySet DEF has_majority
    <3>. QED BY <3>1
  <2>2. fronts(lists) # {}
    BY <1>2, <2>1
  <2>3. fronts(lists) \subseteq Cmd
    BY <1>2 DEF fronts
  <2>. QED BY <2>2, <2>3
<1>. QED BY <1>4, <1>5, <1>6, <1>7, <1>8

-----------------------------------------------------------------------------
(* What is in a block or in a round that waits for its block.              *)
Promised == Chosen(chain) \cup Chosen(pending_beats)

(* The leader has executed all blocks but the last three.                  *)
CommitInv == executed[Leader] = IF Len(chain) > 3 THEN Len(chain) - 3 ELSE 0

FewWaiting == Cardinality(Waiting(ordered_list_cache)) < nmajority

(* What a replica's local orders have brought is still with the leader.    *)
QueuedInv ==
    \A r \in Replica : Handled(r) \subseteq Promised \cup Chosen(ordered_list_cache[r])

LeaderInv == LeaderTypeOK /\ CommitInv /\ CacheIsPending /\ FewWaiting

(* What BeatChain sees.                                                    *)
beat_vars == <<Len(chain) + Len(pending_beats), Len(chain), executed>>

(* A new block: the leader executes the one three below, and the cache     *)
(* loses what was executed, no more.  P is what waits besides the block.   *)
LEMMA ProposeBlock ==
    ASSUME LeaderTypeOK, CommitInv, NEW cmds \in (SUBSET Cmd) \ {{}},
           NEW cache \in SUBSET Cmd, NEW w, NEW a, NEW P,
           cache \subseteq P \cup cmds_of(chain, executed[Leader] + 1, Len(chain)) \cup cmds,
           on_propose(cmds, cache, w, a)
    PROVE  /\ chain' \in Lists /\ Len(chain') = Len(chain) + 1 /\ Len(chain) \in Nat
           /\ Chosen(chain') = Chosen(chain) \cup cmds
           /\ has_qc' = FALSE /\ executed' \in [Correct -> Nat] /\ CommitInv'
           /\ executed' = [executed EXCEPT ![Leader] =
                              IF Len(chain') > 3 THEN Len(chain') - 3 ELSE 0]
           /\ proposed_cmds_cache' \subseteq Cmd
           /\ proposed_cmds_cache' \subseteq
                P \cup cmds_of(chain', executed'[Leader] + 1, Len(chain'))
           /\ \E D : do_decide(Leader, D, w, a)
<1> DEFINE S == Append(chain, cmds)
           n == Len(chain)
           e == executed[Leader]
           k == IF Len(S) > 3 THEN Len(S) - 3 ELSE 0
           D == cmds_of(S, e + 1, k)
<1>1. /\ chain' = S /\ has_qc' = FALSE
      /\ executed' = [executed EXCEPT ![Leader] = k]
      /\ do_decide(Leader, D, w, a)
      /\ proposed_cmds_cache' = cache \ D
  BY DEF on_propose, commit
<1>2. /\ chain \in Lists /\ n \in Nat /\ e \in Nat /\ Leader \in Correct
      /\ executed \in [Correct -> Nat] /\ e = IF n > 3 THEN n - 3 ELSE 0
  <2>1. chain \in Lists /\ Leader \in Correct /\ executed \in [Correct -> Nat]
    BY Majority DEF LeaderTypeOK
  <2>2. n \in Nat
    BY <2>1 DEF Lists
  <2>3. e = IF n > 3 THEN n - 3 ELSE 0
    BY DEF CommitInv
  <2>. QED BY <2>1, <2>2, <2>3
<1>3. /\ S \in Lists /\ Len(S) = n + 1 /\ Chosen(S) = Chosen(chain) \cup cmds
      /\ cmds_of(S, e + 1, n + 1) = cmds_of(chain, e + 1, n) \cup cmds
  <2>1. e \in Nat /\ n \in Nat /\ e <= n
    BY <1>2
  <2> HIDE DEF e
  <2>2. e + 1 \in Nat \ {0} /\ e + 1 <= n + 1
    BY <2>1
  <2>. QED BY <1>2, <2>2, CmdsAppend
<1>4. k \in Nat /\ e <= k /\ k <= n + 1
  BY <1>2, <1>3
<1>5. executed' \in [Correct -> Nat] /\ executed'[Leader] = k
  BY <1>1, <1>2, <1>4
<1>6. CommitInv'
  BY <1>1, <1>3, <1>5 DEF CommitInv
<1> HIDE DEF S, n, e, k
<1>7. cmds_of(S, e + 1, n + 1) = D \cup cmds_of(S, k + 1, n + 1)
  <2>1. e + 1 \in Int /\ n + 1 \in Int /\ k \in Int /\ e + 1 <= k + 1 /\ k <= n + 1
    BY <1>2, <1>4
  <2>. QED BY <2>1, CmdsSplit
<1>8. cache \ D \subseteq P \cup cmds_of(S, k + 1, n + 1)
  <2>1. cmds_of(S, e + 1, n + 1) = cmds_of(chain, e + 1, n) \cup cmds
    BY <1>3
  <2> HIDE DEF D
  <2>. QED BY <1>7, <2>1 DEF e, n
<1>9. proposed_cmds_cache' \subseteq P \cup cmds_of(chain', executed'[Leader] + 1, Len(chain'))
  BY <1>1, <1>3, <1>5, <1>8
<1>10. executed' = [executed EXCEPT ![Leader] =
                      IF Len(chain') > 3 THEN Len(chain') - 3 ELSE 0]
  BY <1>1 DEF k
<1>11. \E E : do_decide(Leader, E, w, a)
  <2> HIDE DEF D
  <2>. QED BY <1>1
<1>. QED BY <1>1, <1>2, <1>3, <1>5, <1>6, <1>9, <1>10, <1>11 DEF n

LEMMA BeatStep ==
    ASSUME LeaderTypeOK, CommitInv, CacheIsPending, NEW cmds \in (SUBSET Cmd) \ {{}},
           NEW w, NEW a, beat(cmds, w, a)
    PROVE  /\ proposed_cmds_cache' \subseteq Cmd
           /\ pending_beats' \in Lists /\ chain' \in Lists
           /\ has_qc' \in BOOLEAN /\ executed' \in [Correct -> Nat]
           /\ CommitInv' /\ CacheIsPending'
           /\ Promised \cup cmds \subseteq Promised'
           /\ \E D : do_decide(Leader, D, w, a)
           /\ Beats!Next
<1> DEFINE mid == cmds_of(chain, executed[Leader] + 1, Len(chain))
<1>1. /\ proposed_cmds_cache \subseteq Chosen(pending_beats) \cup mid
      /\ proposed_cmds_cache \cup cmds \in SUBSET Cmd
      /\ pending_beats \in Lists /\ Len(pending_beats) \in Nat
      /\ chain \in Lists /\ Len(chain) \in Nat
  <2>1. pending_beats \in Lists /\ chain \in Lists /\ proposed_cmds_cache \subseteq Cmd
    BY DEF LeaderTypeOK
  <2>2. Len(pending_beats) \in Nat /\ Len(chain) \in Nat
    BY <2>1 DEF Lists
  <2>. QED BY <2>1, <2>2 DEF CacheIsPending
<1>2. CASE has_qc
  <2>1. /\ on_propose(cmds, proposed_cmds_cache \cup cmds, w, a)
        /\ pending_beats' = pending_beats
    BY <1>2 DEF beat
  <2>2. proposed_cmds_cache \cup cmds \subseteq Chosen(pending_beats) \cup mid \cup cmds
    BY <1>1
  <2>3. /\ chain' \in Lists /\ Len(chain') = Len(chain) + 1
        /\ Chosen(chain') = Chosen(chain) \cup cmds
        /\ has_qc' = FALSE /\ executed' \in [Correct -> Nat] /\ CommitInv'
        /\ executed' = [executed EXCEPT ![Leader] =
                           IF Len(chain') > 3 THEN Len(chain') - 3 ELSE 0]
        /\ proposed_cmds_cache' \subseteq Cmd
        /\ proposed_cmds_cache' \subseteq
             Chosen(pending_beats) \cup cmds_of(chain', executed'[Leader] + 1, Len(chain'))
        /\ \E D : do_decide(Leader, D, w, a)
    BY <1>1, <2>1, <2>2, ProposeBlock
  <2>4. CacheIsPending'
    BY <2>1, <2>3 DEF CacheIsPending
  <2>5. Promised \cup cmds \subseteq Promised'
    BY <2>1, <2>3 DEF Promised
  <2>6. Beats!Propose
    <3>1. Len(chain') + Len(pending_beats') = Len(chain) + Len(pending_beats) + 1
          /\ Len(chain') <= Len(chain') + Len(pending_beats')
      BY <1>1, <2>1, <2>3
    <3>. QED BY <2>3, <3>1 DEF Beats!Propose
  <2>. QED BY <1>1, <2>1, <2>3, <2>4, <2>5, <2>6 DEF Beats!Next
<1>3. CASE ~has_qc
  <2>1. /\ pending_beats' = Append(pending_beats, cmds)
        /\ proposed_cmds_cache' = proposed_cmds_cache \cup cmds
        /\ do_decide(Leader, {}, w, a)
        /\ UNCHANGED <<chain, has_qc, executed>>
    BY <1>3 DEF beat
  <2>2. /\ pending_beats' \in Lists /\ Len(pending_beats') = Len(pending_beats) + 1
        /\ Chosen(pending_beats') = Chosen(pending_beats) \cup cmds
    BY <1>1, <2>1, CmdsAppend
  <2>3. CacheIsPending'
    BY <1>1, <2>1, <2>2 DEF CacheIsPending
  <2>4. CommitInv'
    BY <2>1 DEF CommitInv
  <2>5. Promised \cup cmds \subseteq Promised'
    BY <2>1, <2>2 DEF Promised
  <2>6. Beats!Ask
    <3>1. Len(chain') + Len(pending_beats') = Len(chain) + Len(pending_beats) + 1
      BY <1>1, <2>1, <2>2
    <3>. QED BY <2>1, <3>1 DEF Beats!Ask
  <2>. QED BY <1>1, <2>1, <2>2, <2>3, <2>4, <2>5, <2>6 DEF Beats!Next, LeaderTypeOK
<1>. QED BY <1>2, <1>3

(* A local order more: at most the list that made the majority, taken by   *)
(* the round at once, was missing, so again no majority waits.             *)
LEMMA Process ==
    ASSUME LeaderInv, NEW r \in Replica, NEW o \in SUBSET Cmd, NEW w, NEW a,
           process_local_order(r, o, w, a)
    PROVE  /\ LeaderInv'
           /\ \A s \in Replica : Promised \cup Chosen(ordered_list_cache[s])
                                   \subseteq Promised' \cup Chosen(ordered_list_cache'[s])
           /\ o \subseteq Promised' \cup Chosen(ordered_list_cache'[r])
           /\ \E D : do_decide(Leader, D, w, a)
           /\ [Beats!Next]_beat_vars
<1> DEFINE lists == add_local_order(r, o)
           popped == pop_all_front(lists)
<1>1. /\ lists \in [Replica -> Lists]
      /\ Waiting(lists) \subseteq Waiting(ordered_list_cache) \cup {r}
      /\ r \notin Waiting(ordered_list_cache) => Len(lists[r]) <= 1
      /\ \A s \in Replica : Chosen(ordered_list_cache[s]) \subseteq Chosen(lists[s])
      /\ o \subseteq Chosen(lists[r]) \cup proposed_cmds_cache
      /\ proposed_cmds_cache \subseteq Promised
  <2>1. proposed_cmds_cache \subseteq Promised
    <3>1. Len(chain) \in Nat /\ executed[Leader] \in Nat
      BY Majority DEF LeaderInv, LeaderTypeOK, Lists
    <3>2. executed[Leader] + 1 .. Len(chain) \subseteq 1 .. Len(chain)
      BY <3>1
    <3>3. cmds_of(chain, executed[Leader] + 1, Len(chain)) \subseteq Chosen(chain)
      BY <3>2 DEF cmds_of, Chosen
    <3>. QED BY <3>3 DEF LeaderInv, CacheIsPending, Promised
  <2>. QED BY <2>1, Added DEF LeaderInv
<1>2. has_majority(lists) <=> Cardinality(Waiting(lists)) >= nmajority
  BY DEF has_majority, Waiting
<1> HIDE DEF lists
<1>3. CASE ~has_majority(lists)
  <2>1. /\ ordered_list_cache' = lists /\ do_decide(Leader, {}, w, a)
        /\ UNCHANGED <<proposed_cmds_cache, pending_beats, has_qc, chain, executed>>
    BY <1>3 DEF process_local_order, lists
  <2>2. LeaderTypeOK' /\ CommitInv' /\ CacheIsPending'
    BY <1>1, <2>1 DEF LeaderInv, LeaderTypeOK, CommitInv, CacheIsPending
  <2>3. FewWaiting'
    <3>1. Waiting(lists) \subseteq Replica
      BY DEF Waiting
    <3>2. Cardinality(Waiting(lists)) \in Nat
      BY <3>1, Majority, FS_Subset, FS_CardinalityType
    <3>. QED BY <1>2, <1>3, <2>1, <3>2, Majority DEF FewWaiting
  <2>4. Promised' = Promised
    BY <2>1 DEF Promised
  <2>. QED BY <1>1, <2>1, <2>2, <2>3, <2>4 DEF LeaderInv, beat_vars
<1>4. CASE has_majority(lists)
  <2>1. ordered_list_cache' = popped /\ beat(fronts(lists), w, a)
    BY <1>4 DEF process_local_order, lists
  <2>2. /\ popped \in [Replica -> Lists]
        /\ \A s \in Replica : Chosen(lists[s]) \subseteq fronts(lists) \cup Chosen(popped[s])
        /\ \A s \in Replica : Len(lists[s]) <= 1 => popped[s] = <<>>
        /\ Waiting(popped) \subseteq Waiting(lists)
        /\ fronts(lists) \in (SUBSET Cmd) \ {{}}
    BY <1>1, <1>4, Popped
  <2> HIDE DEF popped
  <2>3. /\ proposed_cmds_cache' \subseteq Cmd
        /\ pending_beats' \in Lists /\ chain' \in Lists
        /\ has_qc' \in BOOLEAN /\ executed' \in [Correct -> Nat]
        /\ CommitInv' /\ CacheIsPending'
        /\ Promised \cup fronts(lists) \subseteq Promised'
        /\ \E D : do_decide(Leader, D, w, a)
        /\ Beats!Next
    BY <2>1, <2>2, BeatStep DEF LeaderInv
  <2>4. FewWaiting'
    <3>1. /\ Waiting(lists) \subseteq Replica /\ Waiting(ordered_list_cache) \subseteq Replica
          /\ IsFiniteSet(Waiting(ordered_list_cache))
      BY Majority, FS_Subset DEF Waiting
    <3>2. r \notin Waiting(ordered_list_cache)
      <4>1. SUFFICES ASSUME r \in Waiting(ordered_list_cache) PROVE FALSE
        OBVIOUS
      <4>2. Waiting(lists) \subseteq Waiting(ordered_list_cache)
        BY <1>1, <4>1
      <4>3. Cardinality(Waiting(lists)) <= Cardinality(Waiting(ordered_list_cache))
            /\ Cardinality(Waiting(lists)) \in Nat
            /\ Cardinality(Waiting(ordered_list_cache)) \in Nat
        BY <3>1, <4>2, FS_Subset, FS_CardinalityType
      <4>. QED BY <1>2, <1>4, <4>3, Majority DEF LeaderInv, FewWaiting
    <3>3. Waiting(popped) \subseteq Waiting(ordered_list_cache)
      BY <1>1, <2>2, <3>2 DEF Waiting
    <3>4. Cardinality(Waiting(popped)) <= Cardinality(Waiting(ordered_list_cache))
          /\ Cardinality(Waiting(popped)) \in Nat
          /\ Cardinality(Waiting(ordered_list_cache)) \in Nat
      BY <3>1, <3>3, FS_Subset, FS_CardinalityType
    <3>. QED BY <2>1, <3>4, Majority DEF LeaderInv, FewWaiting
  <2>5. LeaderInv'
    BY <2>1, <2>2, <2>3, <2>4 DEF LeaderInv, LeaderTypeOK
  <2>6. \A s \in Replica : Promised \cup Chosen(lists[s])
                            \subseteq Promised' \cup Chosen(popped[s])
    BY <2>2, <2>3
  <2>. QED BY <1>1, <2>1, <2>3, <2>5, <2>6
<1>. QED BY <1>3, <1>4

(* A QC: the oldest round that waits becomes the next block.               *)
LEMMA FinishLeader ==
    ASSUME LeaderInv, on_qc_finish
    PROVE  /\ LeaderInv' /\ Promised \subseteq Promised' /\ UNCHANGED ordered_list_cache
           /\ \/ UNCHANGED <<decision_waiting, applied>>
              \/ \E D : do_decide(Leader, D, decision_waiting[Leader], applied[Leader])
           /\ [Beats!Next]_beat_vars
<1>1. CASE pending_beats = <<>>
  <2>1. has_qc' = TRUE /\ UNCHANGED <<client_vars, executed, proposed_cmds_cache,
                                     pending_beats, chain, ordered_list_cache>>
    BY <1>1 DEF on_qc_finish
  <2>. QED BY <2>1 DEF LeaderInv, LeaderTypeOK, CommitInv, CacheIsPending, FewWaiting,
                       Promised, beat_vars, client_vars
<1>2. CASE pending_beats # <<>>
  <2> DEFINE w == decision_waiting[Leader]
             a == applied[Leader]
             h == Head(pending_beats)
             t == Tail(pending_beats)
  <2>1. /\ pending_beats' = t /\ on_propose(h, proposed_cmds_cache, w, a)
        /\ UNCHANGED ordered_list_cache
    BY <1>2 DEF on_qc_finish
  <2>2. /\ pending_beats \in Lists /\ proposed_cmds_cache \in SUBSET Cmd
        /\ ordered_list_cache \in [Replica -> Lists]
    BY DEF LeaderInv, LeaderTypeOK
  <2>3. /\ t \in Lists /\ h \in (SUBSET Cmd) \ {{}} /\ Len(t) = Len(pending_beats) - 1
        /\ Chosen(pending_beats) = h \cup Chosen(t)
    BY <1>2, <2>2, CmdsTail
  <2>4. Len(pending_beats) \in Nat \ {0}
    BY <1>2, <2>2 DEF Lists
  <2> HIDE DEF w, a, h, t
  <2>5. proposed_cmds_cache \subseteq
          Chosen(t) \cup cmds_of(chain, executed[Leader] + 1, Len(chain)) \cup h
    BY <2>3 DEF LeaderInv, CacheIsPending
  <2>6. /\ chain' \in Lists /\ Len(chain') = Len(chain) + 1 /\ Len(chain) \in Nat
        /\ Chosen(chain') = Chosen(chain) \cup h
        /\ has_qc' = FALSE /\ executed' \in [Correct -> Nat] /\ CommitInv'
        /\ executed' = [executed EXCEPT ![Leader] =
                           IF Len(chain') > 3 THEN Len(chain') - 3 ELSE 0]
        /\ proposed_cmds_cache' \subseteq Cmd
        /\ proposed_cmds_cache' \subseteq
             Chosen(t) \cup cmds_of(chain', executed'[Leader] + 1, Len(chain'))
        /\ \E D : do_decide(Leader, D, w, a)
    BY <2>1, <2>2, <2>3, <2>5, ProposeBlock DEF LeaderInv
  <2>7. LeaderInv'
    BY <2>1, <2>2, <2>3, <2>6 DEF LeaderInv, LeaderTypeOK, CacheIsPending, FewWaiting
  <2>8. Promised \subseteq Promised'
    BY <2>1, <2>3, <2>6 DEF Promised
  <2>9. Beats!Propose
    <3>1. /\ Len(chain') + Len(pending_beats') = Len(chain) + Len(pending_beats)
          /\ Len(chain') <= Len(chain') + Len(pending_beats')
      BY <2>1, <2>3, <2>4, <2>6
    <3>. QED BY <2>6, <3>1 DEF Beats!Propose
  <2>. QED BY <2>1, <2>6, <2>7, <2>8, <2>9 DEF Beats!Next, w, a
<1>. QED BY <1>1, <1>2

-----------------------------------------------------------------------------
(* The invariant of the pipeline.                                          *)
PipelineInv ==
    ClientTypeOK /\ SenderTypeOK /\ LeaderInv /\ RequestsAccounted /\ QueuedInv

LEMMA PipelineInitInv == Init => PipelineInv
<1> SUFFICES ASSUME Init PROVE PipelineInv
  OBVIOUS
<1>1. blk_size \in Nat \ {0} /\ MaxRequests \in Nat
  BY PipelineAssumption
<1>2. /\ \A r \in Correct : \A c \in Cmd : arrivals[r][c] = 0 /\ applied[r][c] = 0
      /\ \A r \in Correct : decision_waiting[r] = {}
  BY DEF Init
<1>3. ClientTypeOK
  BY <1>1 DEF Init, ClientTypeOK
<1>4. SenderTypeOK
  BY <1>1 DEF Init, SenderTypeOK
<1>5. LeaderTypeOK
  BY DEF Init, LeaderTypeOK, Lists
<1>6. CommitInv
  BY Majority DEF Init, CommitInv
<1>7. FewWaiting
  <2>1. Waiting(ordered_list_cache) = {}
    BY DEF Init, Waiting
  <2>. QED BY <2>1, Majority, FS_EmptySet DEF FewWaiting
<1>8. CacheIsPending
  BY DEF Init, CacheIsPending
<1>9. RequestsAccounted
  BY <1>2 DEF RequestsAccounted
<1>10. QueuedInv
  <2>1. \A r \in Replica : Handled(r) = {}
    BY <1>2 DEF Init, Handled, Correct
  <2>. QED BY <2>1 DEF QueuedInv
<1>. QED BY <1>3, <1>4, <1>5, <1>6, <1>7, <1>8, <1>9, <1>10 DEF PipelineInv, LeaderInv

(* A decision leaves the requests as they are.                             *)
LEMMA DecidedAccounts ==
    ASSUME ClientTypeOK, RequestsAccounted, UNCHANGED arrivals, NEW r \in Correct, NEW D,
           do_decide(r, D, decision_waiting[r], applied[r])
    PROVE  ClientTypeOK' /\ RequestsAccounted'
<1>1. decision_waiting[r] \in SUBSET Cmd /\ applied[r] \in [Cmd -> Nat]
  BY DEF ClientTypeOK
<1>2. /\ decision_waiting' \in [Correct -> SUBSET Cmd]
      /\ applied' \in [Correct -> [Cmd -> Nat]]
      /\ \A s \in Correct \ {r} : /\ decision_waiting'[s] = decision_waiting[s]
                                  /\ applied'[s] = applied[s]
      /\ \A c \in Cmd : applied'[r][c] + Waits(c, decision_waiting'[r])
                          = applied[r][c] + Waits(c, decision_waiting[r])
  BY <1>1, Decide
<1>3. ClientTypeOK'
  BY <1>2 DEF ClientTypeOK
<1>4. RequestsAccounted'
  BY <1>2 DEF RequestsAccounted, Waits
<1>. QED BY <1>3, <1>4

(* What is left to show of QueuedInv when a local order is handled.        *)
LEMMA QueuedKept ==
    ASSUME QueuedInv, NEW r \in Replica, NEW o,
           \A s \in Replica : Promised \cup Chosen(ordered_list_cache[s])
                              \subseteq Promised' \cup Chosen(ordered_list_cache'[s]),
           o \subseteq Promised' \cup Chosen(ordered_list_cache'[r]),
           Handled(r)' \subseteq Handled(r) \cup o,
           \A s \in Replica \ {r} : Handled(s)' = Handled(s)
    PROVE  QueuedInv'
  BY DEF QueuedInv

LEMMA FinishInv ==
    ASSUME PipelineInv, on_qc_finish
    PROVE  PipelineInv' /\ [Beats!Next]_beat_vars
<1>1. /\ LeaderInv' /\ Promised \subseteq Promised' /\ UNCHANGED ordered_list_cache
      /\ \/ UNCHANGED <<decision_waiting, applied>>
         \/ \E D : do_decide(Leader, D, decision_waiting[Leader], applied[Leader])
      /\ [Beats!Next]_beat_vars
  BY FinishLeader DEF PipelineInv
<1>2. UNCHANGED <<arrivals, local_order_buffer, sent, forged>>
  BY DEF on_qc_finish, client_vars
<1>3. ClientTypeOK' /\ RequestsAccounted'
  BY <1>1, <1>2, DecidedAccounts, Majority
     DEF PipelineInv, ClientTypeOK, RequestsAccounted
<1>4. SenderTypeOK'
  BY <1>2 DEF PipelineInv, SenderTypeOK
<1>5. QueuedInv'
  BY <1>1, <1>2 DEF PipelineInv, QueuedInv, Handled
<1>. QED BY <1>1, <1>3, <1>4, <1>5 DEF PipelineInv

LEMMA ProposalInv ==
    ASSUME PipelineInv, NEW r \in Correct, NEW k, on_receive_proposal(r, k)
    PROVE  PipelineInv' /\ [Beats!Next]_beat_vars
<1>1. /\ UNCHANGED <<arrivals, local_order_buffer, sent, forged, leader_vars>>
      /\ r # Leader /\ k \in executed[r] + 1 .. Len(chain) - 3
      /\ executed' = [executed EXCEPT ![r] = k]
      /\ \E D : do_decide(r, D, decision_waiting[r], applied[r])
  BY DEF on_receive_proposal
<1>2. ClientTypeOK' /\ RequestsAccounted'
  BY <1>1, DecidedAccounts DEF PipelineInv
<1>3. executed \in [Correct -> Nat] /\ Len(chain) \in Nat /\ Leader \in Correct
  BY Majority DEF PipelineInv, LeaderInv, LeaderTypeOK, Lists
<1>4. executed' \in [Correct -> Nat] /\ executed'[Leader] = executed[Leader]
  <2>1. k \in Nat
    BY <1>1, <1>3
  <2>. QED BY <1>1, <1>3, <2>1
<1>5. LeaderInv'
  BY <1>1, <1>4 DEF PipelineInv, LeaderInv, LeaderTypeOK, CommitInv, CacheIsPending,
                    FewWaiting, leader_vars
<1>6. SenderTypeOK' /\ QueuedInv'
  BY <1>1 DEF PipelineInv, SenderTypeOK, QueuedInv, Handled, Promised, leader_vars
<1>7. Beats!Execute(r)
  BY <1>1 DEF Beats!Execute, leader_vars
<1>. QED BY <1>2, <1>5, <1>6, <1>7 DEF PipelineInv, Beats!Next

LEMMA LocalOrderInv ==
    ASSUME PipelineInv, NEW r \in Correct, local_order_handler(r)
    PROVE  PipelineInv' /\ [Beats!Next]_beat_vars
<1> DEFINE o == Head(sent[r])
<1>1. /\ sent[r] # <<>> /\ sent' = [sent EXCEPT ![r] = Tail(@)]
      /\ process_local_order(r, o, decision_waiting[Leader], applied[Leader])
      /\ UNCHANGED <<arrivals, local_order_buffer, forged>>
  BY DEF local_order_handler
<1>2. /\ sent \in [Correct -> Seq(SUBSET Cmd)] /\ r \in Replica /\ r \notin Faulty
      /\ o \in SUBSET Cmd /\ Tail(sent[r]) \in Seq(SUBSET Cmd)
  <2>1. sent \in [Correct -> Seq(SUBSET Cmd)] /\ r \in Replica /\ r \notin Faulty
    BY DEF PipelineInv, SenderTypeOK, Correct
  <2>2. sent[r] \in Seq(SUBSET Cmd)
    BY <2>1
  <2>. QED BY <1>1, <2>1, <2>2
<1>3. sent'[r] = Tail(sent[r]) /\ \A s \in Correct \ {r} : sent'[s] = sent[s]
  BY <1>1, <1>2
<1>4. /\ LeaderInv'
      /\ \A s \in Replica : Promised \cup Chosen(ordered_list_cache[s])
                            \subseteq Promised' \cup Chosen(ordered_list_cache'[s])
      /\ o \subseteq Promised' \cup Chosen(ordered_list_cache'[r])
      /\ \E D : do_decide(Leader, D, decision_waiting[Leader], applied[Leader])
      /\ [Beats!Next]_beat_vars
  BY <1>1, <1>2, Process DEF PipelineInv
<1>5. ClientTypeOK' /\ RequestsAccounted'
  BY <1>1, <1>4, DecidedAccounts, Majority DEF PipelineInv
<1>6. SenderTypeOK'
  <2>1. sent' \in [Correct -> Seq(SUBSET Cmd)]
    BY <1>1, <1>2
  <2>. QED BY <1>1, <2>1 DEF PipelineInv, SenderTypeOK
<1>7. Handled(r)' \subseteq Handled(r) \cup o
  <2>1. SUFFICES ASSUME NEW c \in Handled(r)', c \notin o PROVE c \in Handled(r)
    OBVIOUS
  <2>2. /\ c \in Cmd /\ arrivals[r][c] > 0
        /\ \A i \in DOMAIN local_order_buffer[r] : local_order_buffer[r][i] # c
        /\ \A i \in DOMAIN Tail(sent[r]) : c \notin Tail(sent[r])[i]
    BY <1>1, <1>2, <1>3, <2>1 DEF Handled
  <2>3. \A i \in DOMAIN sent[r] : c \notin sent[r][i]
    <3> DEFINE q == sent[r]
    <3>1. q \in Seq(SUBSET Cmd) /\ q # <<>> /\ c \notin Head(q)
          /\ \A i \in DOMAIN Tail(q) : c \notin Tail(q)[i]
      BY <1>1, <1>2, <2>1, <2>2
    <3> HIDE DEF q, o
    <3>. QED BY <3>1, InTail DEF q
  <2>. QED BY <1>2, <2>2, <2>3 DEF Handled
<1>8. \A s \in Replica \ {r} : Handled(s)' = Handled(s)
  BY <1>1, <1>2, <1>3 DEF Handled, Correct
<1>9. QueuedInv'
  BY <1>2, <1>4, <1>7, <1>8, QueuedKept DEF PipelineInv
<1>. QED BY <1>4, <1>5, <1>6, <1>9 DEF PipelineInv

LEMMA FaultyOrderInv ==
    ASSUME PipelineInv, NEW r \in Faulty, NEW o \in FaultyOrders, faulty_local_order(r, o)
    PROVE  PipelineInv' /\ [Beats!Next]_beat_vars
<1>1. /\ forged' = forged \cup {<<r, o>>}
      /\ process_local_order(r, o, decision_waiting[Leader], applied[Leader])
      /\ UNCHANGED <<arrivals, local_order_buffer, sent>>
  BY DEF faulty_local_order
<1>2. r \in Replica /\ o \in SUBSET Cmd
  BY PipelineAssumption
<1>3. /\ LeaderInv'
      /\ \A s \in Replica : Promised \cup Chosen(ordered_list_cache[s])
                            \subseteq Promised' \cup Chosen(ordered_list_cache'[s])
      /\ o \subseteq Promised' \cup Chosen(ordered_list_cache'[r])
      /\ \E D : do_decide(Leader, D, decision_waiting[Leader], applied[Leader])
      /\ [Beats!Next]_beat_vars
  BY <1>1, <1>2, Process DEF PipelineInv
<1>4. ClientTypeOK' /\ RequestsAccounted'
  BY <1>1, <1>3, DecidedAccounts, Majority DEF PipelineInv
<1>5. SenderTypeOK'
  BY <1>1 DEF PipelineInv, SenderTypeOK
<1>6. Handled(r)' \subseteq Handled(r) \cup o
  BY <1>1 DEF Handled
<1>7. \A s \in Replica \ {r} : Handled(s)' = Handled(s)
  <2>1. \A s \in Replica \ {r} : {g \in forged' : g[1] = s} = {g \in forged : g[1] = s}
    BY <1>1
  <2>. QED BY <1>1, <2>1 DEF Handled
<1>8. QueuedInv'
  BY <1>2, <1>3, <1>6, <1>7, QueuedKept DEF PipelineInv
<1>. QED BY <1>3, <1>4, <1>5, <1>8 DEF PipelineInv

(* A request: what it adds to the count is called back or waits, and its   *)
(* command stays in the buffer or goes into the local order.               *)
LEMMA RequestInv ==
    ASSUME PipelineInv, NEW r \in Correct, NEW c \in Cmd, exec_command(r, c)
    PROVE  PipelineInv' /\ [Beats!Next]_beat_vars
<1> DEFINE w    == decision_waiting[r] \cup {c}
           a    == IF c \in decision_waiting[r] THEN [applied[r] EXCEPT ![c] = @ + 1]
                   ELSE applied[r]
           buf  == Append(local_order_buffer[r], c)
           full == Len(buf) >= blk_size
           o    == {buf[i] : i \in 1 .. Len(buf)}
<1>1. /\ arrivals[r][c] < MaxRequests
      /\ arrivals' = [arrivals EXCEPT ![r][c] = @ + 1]
      /\ local_order_buffer' = [local_order_buffer EXCEPT ![r] =
                                  IF full THEN <<>> ELSE buf]
      /\ UNCHANGED forged
      /\ full /\ r = Leader => process_local_order(r, o, w, a) /\ UNCHANGED sent
      /\ ~(full /\ r = Leader) =>
           /\ sent' = IF full THEN [sent EXCEPT ![r] = Append(@, o)] ELSE sent
           /\ do_decide(r, {}, w, a)
           /\ UNCHANGED <<leader_vars, executed>>
  BY DEF exec_command
<1>2. /\ ClientTypeOK /\ SenderTypeOK /\ LeaderInv /\ RequestsAccounted /\ QueuedInv
      /\ r \in Replica /\ r \notin Faulty /\ MaxRequests \in Nat /\ blk_size \in Nat \ {0}
      /\ local_order_buffer \in [Correct -> Seq(Cmd)]
      /\ sent \in [Correct -> Seq(SUBSET Cmd)]
  BY PipelineAssumption DEF PipelineInv, Correct, SenderTypeOK
<1>3. w \in SUBSET Cmd /\ a \in [Cmd -> Nat]
  BY DEF PipelineInv, ClientTypeOK
<1>4. /\ buf \in Seq(Cmd) /\ o \in SUBSET Cmd /\ c \in o
      /\ \A d : d \notin o =>
           d # c /\ \A i \in DOMAIN local_order_buffer[r] : local_order_buffer[r][i] # d
  <2> DEFINE q == local_order_buffer[r]
  <2>1. q \in Seq(Cmd)
    BY <1>2
  <2>2. /\ buf \in Seq(Cmd) /\ Len(buf) = Len(q) + 1 /\ Len(q) \in Nat
        /\ buf[Len(q) + 1] = c /\ \A i \in 1 .. Len(q) : buf[i] = q[i]
        /\ DOMAIN q = 1 .. Len(q)
    BY <2>1
  <2>3. Len(q) + 1 \in 1 .. Len(buf) /\ \A i \in 1 .. Len(q) : i \in 1 .. Len(buf)
    BY <2>2
  <2> HIDE DEF buf, q
  <2>4. c \in o /\ \A i \in 1 .. Len(q) : q[i] \in o
    BY <2>2, <2>3
  <2>5. o \in SUBSET Cmd
    BY <2>2
  <2>. QED BY <2>2, <2>4, <2>5 DEF q
<1> HIDE DEF w, a, buf, full, o
<1> DEFINE x == IF full /\ r = Leader THEN o ELSE {}
<1>5. /\ LeaderInv' /\ (\E D : do_decide(r, D, w, a)) /\ [Beats!Next]_beat_vars
      /\ \A s \in Replica : Promised \cup Chosen(ordered_list_cache[s])
                            \subseteq Promised' \cup Chosen(ordered_list_cache'[s])
      /\ x \subseteq Promised' \cup Chosen(ordered_list_cache'[r])
  <2>1. CASE full /\ r = Leader
    <3>1. process_local_order(r, o, w, a)
      BY <1>1, <2>1
    <3>. QED BY <1>2, <1>4, <2>1, <3>1, Process
  <2>2. CASE ~(full /\ r = Leader)
    <3>1. do_decide(r, {}, w, a) /\ UNCHANGED <<leader_vars, executed>> /\ x = {}
      BY <1>1, <2>2
    <3>2. LeaderInv' /\ UNCHANGED beat_vars
      BY <1>2, <3>1 DEF LeaderInv, LeaderTypeOK, CommitInv, CacheIsPending, FewWaiting,
                        leader_vars, beat_vars
    <3>. QED BY <3>1, <3>2 DEF leader_vars, Promised
  <2>. QED BY <2>1, <2>2
<1>6. ClientTypeOK' /\ RequestsAccounted'
  <2>1. PICK D : do_decide(r, D, w, a)
    BY <1>5
  <2>2. /\ decision_waiting' \in [Correct -> SUBSET Cmd]
        /\ applied' \in [Correct -> [Cmd -> Nat]]
        /\ \A s \in Correct \ {r} : /\ decision_waiting'[s] = decision_waiting[s]
                                    /\ applied'[s] = applied[s]
        /\ \A d \in Cmd : applied'[r][d] + Waits(d, decision_waiting'[r]) = a[d] + Waits(d, w)
    <3>1. ClientTypeOK
      BY <1>2
    <3>. QED BY <1>3, <2>1, <3>1, Decide
  <2>3. /\ arrivals \in [Correct -> [Cmd -> 0 .. MaxRequests]]
        /\ arrivals' \in [Correct -> [Cmd -> 0 .. MaxRequests]]
        /\ \A s \in Correct \ {r} : arrivals'[s] = arrivals[s]
        /\ \A d \in Cmd : arrivals'[r][d] = arrivals[r][d] + (IF d = c THEN 1 ELSE 0)
        /\ applied \in [Correct -> [Cmd -> Nat]]
    BY <1>1, <1>2 DEF ClientTypeOK
  <2>4. ASSUME NEW d \in Cmd
        PROVE  a[d] + Waits(d, w) = applied[r][d] + Waits(d, decision_waiting[r])
                                      + (IF d = c THEN 1 ELSE 0)
    <3>1. applied[r] \in [Cmd -> Nat] /\ applied[r][d] \in Nat
      BY <2>3
    <3>2. CASE c \in decision_waiting[r]
      <4>1. a[d] = applied[r][d] + (IF d = c THEN 1 ELSE 0) /\ w = decision_waiting[r]
        BY <3>1, <3>2 DEF a, w
      <4>. QED BY <3>1, <4>1 DEF Waits
    <3>3. CASE c \notin decision_waiting[r]
      <4>1. a[d] = applied[r][d] /\ w = decision_waiting[r] \cup {c}
        BY <3>3 DEF a, w
      <4>. QED BY <3>1, <3>3, <4>1 DEF Waits
    <3>. QED BY <3>2, <3>3
  <2>5. \A d \in Cmd : arrivals[r][d] = applied[r][d] + Waits(d, decision_waiting[r])
    BY <1>2 DEF RequestsAccounted, Waits
  <2>6. ASSUME NEW d \in Cmd
        PROVE  arrivals'[r][d] = applied'[r][d] + Waits(d, decision_waiting'[r])
    <3>1. /\ arrivals[r][d] \in Nat /\ applied[r][d] \in Nat
          /\ Waits(d, decision_waiting[r]) \in Nat
      BY <2>3 DEF Waits
    <3>. QED BY <2>2, <2>3, <2>4, <2>5, <3>1
  <2>7. ASSUME NEW s \in Correct, NEW d \in Cmd
        PROVE  arrivals'[s][d] = applied'[s][d] + Waits(d, decision_waiting'[s])
    <3>1. CASE s = r
      BY <2>6, <3>1
    <3>2. CASE s # r
      <4>1. arrivals[s][d] = applied[s][d] + Waits(d, decision_waiting[s])
        BY <1>2 DEF RequestsAccounted, Waits
      <4>2. /\ arrivals'[s] = arrivals[s] /\ applied'[s] = applied[s]
            /\ decision_waiting'[s] = decision_waiting[s]
        BY <2>2, <2>3, <3>2
      <4>. QED BY <4>1, <4>2
    <3>. QED BY <3>1, <3>2
  <2>8. RequestsAccounted'
    BY <2>7 DEF RequestsAccounted, Waits
  <2>. QED BY <2>2, <2>3, <2>8 DEF ClientTypeOK
<1>7. /\ \A s \in Correct \ {r} : local_order_buffer'[s] = local_order_buffer[s]
      /\ local_order_buffer'[r] = IF full THEN <<>> ELSE buf
      /\ \A s \in Correct \ {r} : sent'[s] = sent[s] /\ arrivals'[s] = arrivals[s]
      /\ sent'[r] = IF full /\ r # Leader THEN Append(sent[r], o) ELSE sent[r]
      /\ \A d \in Cmd \ {c} : arrivals'[r][d] = arrivals[r][d]
  BY <1>1, <1>2 DEF ClientTypeOK
<1>8. SenderTypeOK'
  <2>1. local_order_buffer' \in [Correct -> Seq(Cmd)]
    BY <1>1, <1>2, <1>4
  <2>2. \A s \in Correct : Len(local_order_buffer'[s]) < blk_size
    <3>1. Len(buf) \in Nat /\ (full <=> Len(buf) >= blk_size)
      BY <1>4 DEF full
    <3>2. Len(local_order_buffer'[r]) < blk_size
      BY <1>2, <1>7, <3>1
    <3>. QED BY <1>2, <1>7, <3>2 DEF SenderTypeOK
  <2>3. sent' \in [Correct -> Seq(SUBSET Cmd)]
    <3>1. Append(sent[r], o) \in Seq(SUBSET Cmd)
      BY <1>2, <1>4
    <3>. QED BY <1>1, <1>2, <3>1
  <2>. QED BY <1>1, <1>2, <2>1, <2>2, <2>3 DEF SenderTypeOK
<1>9. Handled(r)' \subseteq Handled(r) \cup x
  <2>1. SUFFICES ASSUME NEW d \in Handled(r)', d \notin x PROVE d \in Handled(r)
    OBVIOUS
  <2>2. /\ d \in Cmd /\ arrivals'[r][d] > 0
        /\ \A i \in DOMAIN local_order_buffer'[r] : local_order_buffer'[r][i] # d
        /\ \A i \in DOMAIN sent'[r] : d \notin sent'[r][i]
    BY <1>2, <2>1 DEF Handled
  <2>3. /\ d # c /\ \A i \in DOMAIN local_order_buffer[r] : local_order_buffer[r][i] # d
        /\ \A i \in DOMAIN sent[r] : d \notin sent[r][i]
    <3>1. CASE full /\ r = Leader
      BY <1>4, <1>7, <2>1, <2>2, <3>1
    <3>2. CASE full /\ r # Leader
      <4> DEFINE q == sent[r]
      <4>1. q \in Seq(SUBSET Cmd) /\ \A i \in DOMAIN Append(q, o) : d \notin Append(q, o)[i]
        BY <1>2, <1>7, <2>2, <3>2
      <4> HIDE DEF q
      <4>2. d \notin o /\ \A i \in DOMAIN q : d \notin q[i]
        BY <4>1, InAppend, ZenonT(40)
      <4>. QED BY <1>4, <4>2 DEF q
    <3>3. CASE ~full
      <4>1. d \notin o
        <5>1. local_order_buffer'[r] = buf /\ DOMAIN buf = 1 .. Len(buf)
          BY <1>4, <1>7, <3>3
        <5>. QED BY <2>2, <5>1 DEF o
      <4>. QED BY <1>4, <1>7, <2>2, <3>3, <4>1
    <3>. QED BY <3>1, <3>2, <3>3
  <2>4. arrivals[r][d] > 0
    BY <1>7, <2>2, <2>3
  <2>. QED BY <1>2, <2>2, <2>3, <2>4 DEF Handled
<1>10. \A s \in Replica \ {r} : Handled(s)' = Handled(s)
  BY <1>1, <1>2, <1>7 DEF Handled, Correct
<1>11. QueuedInv'
  <2> HIDE DEF x
  <2>. QED BY <1>2, <1>5, <1>9, <1>10, QueuedKept
<1>. QED BY <1>5, <1>6, <1>8, <1>11 DEF PipelineInv

LEMMA PipelineStep ==
    ASSUME PipelineInv, [Next]_vars
    PROVE  PipelineInv' /\ [Beats!Next]_beat_vars
<1>1. CASE UNCHANGED vars
  <2>1. UNCHANGED <<arrivals, decision_waiting, applied, ordered_list_cache,
                    proposed_cmds_cache, pending_beats, has_qc, chain,
                    local_order_buffer, sent, forged, executed>>
    BY <1>1 DEF vars, client_vars, leader_vars
  <2>2. ClientTypeOK' /\ SenderTypeOK' /\ RequestsAccounted' /\ QueuedInv'
    BY <2>1 DEF PipelineInv, ClientTypeOK, SenderTypeOK, RequestsAccounted, QueuedInv,
                Handled, Promised
  <2>3. LeaderInv'
    BY <2>1 DEF PipelineInv, LeaderInv, LeaderTypeOK, CommitInv, CacheIsPending, FewWaiting
  <2>. QED BY <2>1, <2>2, <2>3 DEF PipelineInv, beat_vars
<1>2. CASE Next
  BY <1>2, FinishInv, RequestInv, LocalOrderInv, ProposalInv, FaultyOrderInv DEF Next
<1>. QED BY <1>1, <1>2

(* The invariant holds for any number of replicas, commands and requests.  *)
THEOREM PipelineSpecInv == Spec => []PipelineInv
<1>1. PipelineInv /\ [Next]_vars => PipelineInv'
  BY PipelineStep
<1>. QED BY <1>1, PipelineInitInv, PTL DEF Spec

(* No nmajority replicas are left waiting with lists to merge.             *)
THEOREM PipelineRoundsKeepUp == Spec => []RoundsKeepUp
<1>1. PipelineInv => RoundsKeepUp
  BY TypeParts DEF PipelineInv, LeaderInv, FewWaiting, Waiting, RoundsKeepUp
<1>. QED BY <1>1, PipelineSpecInv, PTL

(* What the local orders of nmajority replicas hold is in a block or in a  *)
(* round that waits for its block.                                         *)
THEOREM PipelineMajorityIsChosen == Spec => []OrderedByMajorityIsChosen
<1>1. ASSUME PipelineInv, NEW c \in Cmd,
             Cardinality({r \in Replica : c \in Handled(r)}) >= nmajority,
             c \notin Promised
      PROVE  FALSE
  <2> DEFINE H == {r \in Replica : c \in Handled(r)}
  <2>1. H \subseteq Waiting(ordered_list_cache)
    <3>1. SUFFICES ASSUME NEW r \in H PROVE ordered_list_cache[r] # <<>>
      BY DEF Waiting
    <3>2. c \in Chosen(ordered_list_cache[r])
      BY <1>1, <3>1 DEF PipelineInv, QueuedInv
    <3>3. Chosen(<<>>) = {}
      BY DEF Chosen, cmds_of
    <3>. QED BY <3>2, <3>3
  <2>2. Waiting(ordered_list_cache) \subseteq Replica /\ IsFiniteSet(Replica)
    BY Majority DEF Waiting
  <2>3. /\ Cardinality(H) <= Cardinality(Waiting(ordered_list_cache))
        /\ Cardinality(H) \in Nat /\ Cardinality(Waiting(ordered_list_cache)) \in Nat
    BY <2>1, <2>2, FS_Subset, FS_CardinalityType
  <2>. QED BY <1>1, <2>3, Majority DEF PipelineInv, LeaderInv, FewWaiting
<1>2. PipelineInv => OrderedByMajorityIsChosen
  BY <1>1 DEF OrderedByMajorityIsChosen, Promised
<1>. QED BY <1>2, PipelineSpecInv, PTL

(* The cache keeps out only what is to be executed still.                  *)
THEOREM PipelineCacheIsPending == Spec => []CacheIsPending
<1>1. PipelineInv => CacheIsPending
  BY DEF PipelineInv, LeaderInv
<1>. QED BY <1>1, PipelineSpecInv, PTL

(* Each request is called back once or waits.                              *)
THEOREM PipelineRequestsAccounted == Spec => []RequestsAccounted
<1>1. PipelineInv => RequestsAccounted
  BY DEF PipelineInv
<1>. QED BY <1>1, PipelineSpecInv, PTL

(* The pipeline uses consensus as BeatChain allows.                        *)
THEOREM PipelineBeats == Spec => BeatsSpec
<1>1. Init => Beats!Init
  BY DEF Init, Beats!Init
<1>2. PipelineInv /\ [Next]_vars => [Beats!Next]_beat_vars
  BY PipelineStep
<1>. QED BY <1>1, <1>2, PipelineSpecInv, PTL DEF Spec, BeatsSpec, Beats!Spec, beat_vars
=============================================================================
