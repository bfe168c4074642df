------------------------- MODULE FlashOrderPipeline -------------------------
(***************************************************************************)
(* The way of a command through FlashOrder: from the client's request to   *)
(* the local order of a replica, to the round of local orders the leader   *)
(* merges, to the block, its execution and the answer to the client        *)
(* (hotstuff.cpp, consensus.cpp, and the caches of EntityStorage).         *)
(*                                                                         *)
(* Consensus is what BeatChain says of it: the default pacemaker with a    *)
(* fixed proposer.  The order inside a round is what HyperGraph makes of   *)
(* it, a permutation: a local order and a block are the sets of their      *)
(* commands, since the caches and the callbacks only look at membership.   *)
(***************************************************************************)
EXTENDS Integers, FiniteSets, Sequences

CONSTANTS
    Replica,
    Faulty,        \* replicas that send whatever local orders they like
    Leader,        \* the fixed proposer
    Cmd,           \* the commands, by their hashes
    blk_size,      \* how many commands make a local order
    MaxRequests,   \* how often a command reaches a replica (bound for TLC)
    FaultyOrders   \* the local orders a faulty replica may send, each once

Correct == Replica \ Faulty

nfaulty == (Cardinality(Replica) - 1) \div 3

nmajority == Cardinality(Replica) - nfaulty

ASSUME PipelineAssumption ==
    /\ IsFiniteSet(Replica) /\ Faulty \subseteq Replica /\ Leader \in Correct
    /\ blk_size \in Nat \ {0} /\ MaxRequests \in Nat
    /\ FaultyOrders \subseteq SUBSET Cmd

VARIABLES
    arrivals,            \* arrivals[r][c]: how often c has reached r
    decision_waiting,    \* decision_waiting[r]: requests with a callback set
    local_order_buffer,  \* local_order_buffer[r]: not yet in a local order
    sent,                \* sent[r]: local orders on the way to the leader
    forged,              \* what faulty replicas have sent
    ordered_list_cache,  \* [r]: the leader's queue of local orders of r
    proposed_cmds_cache, \* the leader's record of commands being proposed
    pending_beats,       \* rounds waiting for the QC of the last block
    has_qc,              \* the last block has its QC
    chain,               \* the commands of the blocks proposed so far
    executed,            \* executed[r]: how many of them r has executed
    applied              \* applied[r][c]: how often the callback ran for c

client_vars == <<arrivals, decision_waiting, applied>>
leader_vars == <<ordered_list_cache, proposed_cmds_cache, pending_beats, has_qc,
                 chain>>
vars == <<client_vars, leader_vars, local_order_buffer, sent, forged, executed>>

TypeOK ==
    /\ arrivals \in [Correct -> [Cmd -> 0 .. MaxRequests]]
    /\ decision_waiting \in [Correct -> SUBSET Cmd]
    /\ local_order_buffer \in [Correct -> Seq(Cmd)]
    /\ \A r \in Correct : Len(local_order_buffer[r]) < blk_size
    /\ sent \in [Correct -> Seq(SUBSET Cmd)]
    /\ forged \subseteq Faulty \X FaultyOrders
    /\ ordered_list_cache \in [Replica -> Seq((SUBSET Cmd) \ {{}})]
    /\ proposed_cmds_cache \subseteq Cmd
    /\ pending_beats \in Seq((SUBSET Cmd) \ {{}}) /\ chain \in Seq((SUBSET Cmd) \ {{}})
    /\ has_qc \in BOOLEAN
    /\ executed \in [Correct -> Nat]
    /\ applied \in [Correct -> [Cmd -> Nat]]

Init ==
    /\ arrivals = [r \in Correct |-> [c \in Cmd |-> 0]]
    /\ decision_waiting = [r \in Correct |-> {}]
    /\ local_order_buffer = [r \in Correct |-> <<>>]
    /\ sent = [r \in Correct |-> <<>>]
    /\ forged = {}
    /\ ordered_list_cache = [r \in Replica |-> <<>>]
    /\ proposed_cmds_cache = {}
    /\ pending_beats = <<>> /\ has_qc = TRUE /\ chain = <<>>
    /\ executed = [r \in Correct |-> 0]
    /\ applied = [r \in Correct |-> [c \in Cmd |-> 0]]

-----------------------------------------------------------------------------
(* Mutant: the entry stays in decision_waiting after its callback ran.     *)
do_decide_keeps(r, D, w, a) ==
    /\ decision_waiting' = [decision_waiting EXCEPT ![r] = w]
    /\ applied' = [applied EXCEPT ![r] =
                     [c \in Cmd |-> IF c \in w \cap D THEN a[c] + 1 ELSE a[c]]]

(* do_decide on the commands D of newly committed blocks, r's requests and *)
(* callbacks being w and a: the callback runs for the first of several     *)
(* decisions, and only when the request is here.                           *)
do_decide(r, D, w, a) ==
    /\ decision_waiting' = [decision_waiting EXCEPT ![r] = w \ D]
    /\ applied' = [applied EXCEPT ![r] =
                     [c \in Cmd |-> IF c \in w \cap D THEN a[c] + 1 ELSE a[c]]]

(* The commands of the blocks from i to j.                                 *)
cmds_of(S, i, j) == UNION {S[k] : k \in i .. j}

(* Mutant: executed commands stay in the cache.                            *)
commit_keeps_cache(S, cache, w, a) ==
    LET k == IF Len(S) > 3 THEN Len(S) - 3 ELSE 0
        D == cmds_of(S, executed[Leader] + 1, k)
    IN  /\ executed' = [executed EXCEPT ![Leader] = k]
        /\ do_decide(Leader, D, w, a)
        /\ proposed_cmds_cache' = cache

(* Mutant: commits on two blocks instead of three.                         *)
commit_on_two(S, cache, w, a) ==
    LET k == IF Len(S) > 2 THEN Len(S) - 2 ELSE 0
        D == cmds_of(S, executed[Leader] + 1, k)
    IN  /\ executed' = [executed EXCEPT ![Leader] = k]
        /\ do_decide(Leader, D, w, a)
        /\ proposed_cmds_cache' = cache \ D

(* The leader's update inside on_propose, S being the chain with the new   *)
(* block: commits the block three below.                                   *)
commit(S, cache, w, a) ==
    LET k == IF Len(S) > 3 THEN Len(S) - 3 ELSE 0
        D == cmds_of(S, executed[Leader] + 1, k)
    IN  /\ executed' = [executed EXCEPT ![Leader] = k]
        /\ do_decide(Leader, D, w, a)
        /\ proposed_cmds_cache' = cache \ D

on_propose(cmds, cache, w, a) ==
    /\ chain' = Append(chain, cmds)
    /\ has_qc' = FALSE
    /\ commit(Append(chain, cmds), cache, w, a)

(* The end of flashorder_propose, which marks the commands, and beat: the  *)
(* promise resolves at once, or when the last block has its QC.            *)
beat(cmds, w, a) ==
    IF has_qc
    THEN /\ on_propose(cmds, proposed_cmds_cache \cup cmds, w, a)
         /\ UNCHANGED pending_beats
    ELSE /\ pending_beats' = Append(pending_beats, cmds)
         /\ proposed_cmds_cache' = proposed_cmds_cache \cup cmds
         /\ do_decide(Leader, {}, w, a)
         /\ UNCHANGED <<chain, has_qc, executed>>

(* add_local_order keeps the commands that are not being proposed.         *)
add_local_order(r, o) ==
    LET filtered == o \ proposed_cmds_cache
    IN  IF filtered = {} THEN ordered_list_cache
        ELSE [ordered_list_cache EXCEPT ![r] = Append(@, filtered)]

(* Mutant: one list short of the majority.                                 *)
has_majority_late(lists) == Cardinality({r \in Replica : lists[r] # <<>>}) > nmajority

has_majority(lists) == Cardinality({r \in Replica : lists[r] # <<>>}) >= nmajority

(* collect_ordered_lists: what the round orders.                           *)
fronts(lists) == UNION {Head(lists[r]) : r \in {s \in Replica : lists[s] # <<>>}}

(* Mutant: the queues are emptied, not only their first lists taken.       *)
pop_everything(lists) == [r \in Replica |-> <<>>]

pop_all_front(lists) ==
    [r \in Replica |-> IF lists[r] = <<>> THEN <<>> ELSE Tail(lists[r])]

(* process_local_order: one list more, and a round when they are enough.   *)
process_local_order(r, o, w, a) ==
    LET lists == add_local_order(r, o)
    IN  IF has_majority(lists)
        THEN /\ ordered_list_cache' = pop_all_front(lists)
             /\ beat(fronts(lists), w, a)
        ELSE /\ ordered_list_cache' = lists
             /\ do_decide(Leader, {}, w, a)
             /\ UNCHANGED <<proposed_cmds_cache, pending_beats, has_qc, chain,
                            executed>>

-----------------------------------------------------------------------------
(* A request reaches r and the handler of cmd_pending takes it: a second   *)
(* request for a waiting command is called back at once; blk_size commands *)
(* make a local order, which the leader handles right here.                *)
exec_command(r, c) ==
    LET w    == decision_waiting[r] \cup {c}
        a    == IF c \in decision_waiting[r] THEN [applied[r] EXCEPT ![c] = @ + 1]
                ELSE applied[r]
        buf  == Append(local_order_buffer[r], c)
        full == Len(buf) >= blk_size
        o    == {buf[i] : i \in 1 .. Len(buf)}
    IN  /\ arrivals[r][c] < MaxRequests
        /\ arrivals' = [arrivals EXCEPT ![r][c] = @ + 1]
        /\ local_order_buffer' = [local_order_buffer EXCEPT ![r] =
                                    IF full THEN <<>> ELSE buf]
        /\ IF full /\ r = Leader
           THEN process_local_order(r, o, w, a) /\ UNCHANGED sent
           ELSE /\ sent' = IF full THEN [sent EXCEPT ![r] = Append(@, o)] ELSE sent
                /\ do_decide(r, {}, w, a)
                /\ UNCHANGED <<leader_vars, executed>>
        /\ UNCHANGED forged

(* A local order arrives; those of one replica arrive in order.            *)
local_order_handler(r) ==
    /\ sent[r] # <<>>
    /\ sent' = [sent EXCEPT ![r] = Tail(@)]
    /\ process_local_order(r, Head(sent[r]), decision_waiting[Leader], applied[Leader])
    /\ UNCHANGED <<arrivals, local_order_buffer, forged>>

faulty_local_order(r, o) ==
    /\ <<r, o>> \notin forged
    /\ forged' = forged \cup {<<r, o>>}
    /\ process_local_order(r, o, decision_waiting[Leader], applied[Leader])
    /\ UNCHANGED <<arrivals, local_order_buffer, sent>>

(* Mutant: the promise of the beat is forgotten.                           *)
qc_finish_forgets ==
    /\ ~has_qc
    /\ has_qc' = TRUE
    /\ UNCHANGED <<client_vars, executed, proposed_cmds_cache, pending_beats, chain>>
    /\ UNCHANGED <<ordered_list_cache, local_order_buffer, sent, forged>>

(* The vote that completes the QC of the last block resolves the oldest    *)
(* waiting beat.                                                           *)
on_qc_finish ==
    /\ ~has_qc
    /\ IF pending_beats = <<>>
       THEN has_qc' = TRUE /\ UNCHANGED <<client_vars, executed,
                                 proposed_cmds_cache, pending_beats, chain>>
       ELSE /\ pending_beats' = Tail(pending_beats)
            /\ on_propose(Head(pending_beats), proposed_cmds_cache,
                          decision_waiting[Leader], applied[Leader])
            /\ UNCHANGED arrivals
    /\ UNCHANGED <<ordered_list_cache, local_order_buffer, sent, forged>>

(* Mutant: of several blocks committed together only the last is decided.  *)
receive_proposal_last_only(r, k) ==
    /\ r # Leader
    /\ k \in executed[r] + 1 .. Len(chain) - 3
    /\ executed' = [executed EXCEPT ![r] = k]
    /\ do_decide(r, chain[k], decision_waiting[r], applied[r])
    /\ UNCHANGED <<arrivals, leader_vars, local_order_buffer, sent, forged>>

(* update at another replica, on the proposal three above the block k.     *)
on_receive_proposal(r, k) ==
    /\ r # Leader
    /\ k \in executed[r] + 1 .. Len(chain) - 3
    /\ executed' = [executed EXCEPT ![r] = k]
    /\ do_decide(r, cmds_of(chain, executed[r] + 1, k), decision_waiting[r], applied[r])
    /\ UNCHANGED <<arrivals, leader_vars, local_order_buffer, sent, forged>>

Next ==
    \/ on_qc_finish
    \/ \E r \in Correct :
         \/ \E c \in Cmd : exec_command(r, c)
         \/ local_order_handler(r)
         \/ \E k \in 1 .. Len(chain) : on_receive_proposal(r, k)
    \/ \E r \in Faulty, o \in FaultyOrders : faulty_local_order(r, o)

(* Messages between correct replicas arrive and are handled, blocks get    *)
(* their QCs (PaceMakerDummyFixed: BeatsPropose).  Nothing makes clients   *)
(* send requests.                                                          *)
Fairness ==
    /\ WF_vars(on_qc_finish)
    /\ \A r \in Correct :
         /\ WF_vars(local_order_handler(r))
         /\ WF_vars(on_receive_proposal(r, Len(chain) - 3))

Spec == Init /\ [][Next]_vars /\ Fairness

-----------------------------------------------------------------------------
(* Properties *)

(* The commands of the local orders of r the leader has handled.           *)
Handled(r) ==
    IF r \in Faulty THEN UNION {f[2] : f \in {g \in forged : g[1] = r}}
    ELSE {c \in Cmd :
            /\ arrivals[r][c] > 0
            /\ \A i \in DOMAIN local_order_buffer[r] : local_order_buffer[r][i] # c
            /\ \A i \in DOMAIN sent[r] : c \notin sent[r][i]}

Chosen(S) == cmds_of(S, 1, Len(S))

(* A round is started only on the arrival of a local order, at most one    *)
(* per arrival, and takes one list of each replica: still, no nmajority    *)
(* replicas are ever left waiting with lists the leader could merge.  (The *)
(* variables have their types: in particular no empty list is queued.)     *)
RoundsKeepUp ==
    /\ TypeOK
    /\ Cardinality({r \in Replica : ordered_list_cache[r] # <<>>}) < nmajority

(* A command that the local orders of nmajority replicas have brought to   *)
(* the leader is in a block or in a round waiting for its block, whatever  *)
(* the lists, the filter and the erasures from the cache did in between.   *)
OrderedByMajorityIsChosen ==
    \A c \in Cmd :
        Cardinality({r \in Replica : c \in Handled(r)}) >= nmajority
            => c \in Chosen(chain) \cup Chosen(pending_beats)

(* proposed_cmds_cache has no left-overs: what it keeps out of the lists   *)
(* is in a waiting round or in a block the leader will execute, and is     *)
(* erased then.  A left-over would keep a command out of every later round.*)
CacheIsPending ==
    proposed_cmds_cache \subseteq
        Chosen(pending_beats) \cup cmds_of(chain, executed[Leader] + 1, Len(chain))

(* Each request is called back exactly once or still waits, with decisions *)
(* of several blocks, second requests and late requests in any order.      *)
RequestsAccounted ==
    \A r \in Correct, c \in Cmd :
        arrivals[r][c] = applied[r][c] + (IF c \in decision_waiting[r] THEN 1 ELSE 0)

(* A block that three more stand on is executed everywhere, and a request  *)
(* that waits for one of its commands is called back.                      *)
DecidedIsAnswered ==
    \A r \in Correct, c \in Cmd :
        (/\ c \in decision_waiting[r]
         /\ c \in cmds_of(chain, executed[r] + 1, Len(chain) - 3))
            ~> c \notin decision_waiting[r]

(* A round that waits for the QC is proposed.                              *)
RoundsAreProposed ==
    \A c \in Cmd : c \in Chosen(pending_beats) ~> c \in Chosen(chain)

(* The pipeline is a user of BeatChain: it asks for beats, and executes no *)
(* earlier than consensus lets it.                                         *)
Beats == INSTANCE BeatChain
    WITH Node <- Correct, Proposer <- Leader,
         asked <- Len(chain) + Len(pending_beats), blocks <- Len(chain)
BeatsSpec == Beats!Spec

(* `Called to replicate the execution of a command, the application should *)
(* implement this to make transition for the application state`: when a    *)
(* replica executes a block, each command of it has made its transition    *)
(* there by the end of the handler.                                        *)
TransitionOnExecution ==
    [][\A r \in Correct : \A c \in cmds_of(chain', executed[r] + 1, executed'[r]) :
            applied'[r][c] > 0]_vars
=============================================================================
