---------------------------- MODULE BlockDelivery ----------------------------
(***************************************************************************)
(* How a replica gets the blocks it is told of (HotStuffBase and           *)
(* FetchContext in hotstuff.cpp, hotstuff.h): a proposal is handed to      *)
(* on_receive_proposal when its block is delivered, a block is delivered   *)
(* when it and the block of its QC are fetched, its certificate has been   *)
(* verified by the VeriPool and its parent is delivered.  Missing blocks   *)
(* are asked for, again at each timeout.                                   *)
(*                                                                         *)
(* Promises run their continuations in the handler that resolves them: an  *)
(* operator below takes the state s of one replica and returns the state   *)
(* when the whole cascade has run; the messages it sends are left in sent. *)
(***************************************************************************)
EXTENDS BlockTree

CONSTANTS
    Node,
    creator,     \* creator[b]: who proposes b
    collector,   \* collector[b]: whom beat_resp names for the votes for b
    Invalid,     \* blocks whose certificate does not verify
    MayCrash,    \* replicas that may stop
    MaxLost      \* how many messages get lost (bound for TLC)

ASSUME DeliveryAssumption ==
    /\ creator \in [Block -> Node] /\ collector \in [Block -> Node]
    /\ Invalid \subseteq {b \in Block : qc_ref[b] # b0}
    /\ MayCrash \subseteq Node /\ MaxLost \in Nat

VARIABLES
    st,      \* st[n]: the storage and the waiting lists of n
    net,     \* messages on the way: no order is kept, copies are merged
    up,      \* the replicas that have not stopped
    lost

dl_vars == <<st, net, up, lost>>

Msg == [type: {"propose", "vote", "req", "resp"}, from: Node, to: Node, blk: Block]

(* fetch_waiting: the hashes with a FetchContext; replicas: whom it asks;  *)
(* asked: requests of others that wait for a block; delivery_waiting: the  *)
(* hashes with a BlockDeliveryContext; source: the replica it started      *)
(* with; loaded: those whose block is fetched; qc_missing: those of them   *)
(* whose promise for the block of the QC is not resolved; verified: those  *)
(* the VeriPool has answered for; held: proposals that wait for delivery.  *)
State ==
    [ cache: SUBSET Block, delivered: SUBSET Block,
      fetch_waiting: SUBSET Block, replicas: [Block -> SUBSET Node],
      asked: SUBSET (Node \X Block),
      delivery_waiting: SUBSET Block, source: [Block -> Node],
      loaded: SUBSET Block, qc_missing: SUBSET Block, verified: SUBSET Block,
      held: SUBSET Block, handled: SUBSET Block, sent: SUBSET Msg,
      thrown: BOOLEAN ]

DLTypeOK ==
    /\ st \in [Node -> State] /\ net \subseteq Msg /\ up \subseteq Node
    /\ lost \in 0 .. MaxLost

DLInit ==
    /\ st = [n \in Node |->
              [ cache |-> {b0}, delivered |-> {b0}, fetch_waiting |-> {},
                replicas |-> [b \in Block |-> {}], asked |-> {},
                delivery_waiting |-> {}, source |-> [b \in Block |-> n],
                loaded |-> {}, qc_missing |-> {}, verified |-> {},
                held |-> {}, handled |-> {}, sent |-> {}, thrown |-> FALSE ]]
    /\ net = {} /\ up = Node /\ lost = 0

-----------------------------------------------------------------------------
message(t, n, m, b) == [type |-> t, from |-> n, to |-> m, blk |-> b]

(* The blocks whose delivery a call for b starts: b and its ancestors, down *)
(* to the first that is delivered, waits already or is not in the storage. *)
undelivered(s, b) ==
    {c \in chain[b] \ (s.delivered \cup s.delivery_waiting) :
        \A d \in chain[b] : height[d] > height[c] =>
            d \in s.cache \ (s.delivered \cup s.delivery_waiting)}

(* Mutant: only requests that are sent at once are remembered.             *)
add_replica_forgets(n, s, F, p) ==
    [s EXCEPT !.sent = @ \cup {message("req", n, p, c) : c \in {x \in F : s.replicas[x] = {}}}]

(* add_replica for the blocks F asks at once only where there was nobody   *)
(* to ask.                                                                 *)
add_replica(n, s, F, p) ==
    [s EXCEPT !.sent = @ \cup {message("req", n, p, c) : c \in {x \in F : s.replicas[x] = {}}},
              !.replicas = [c \in Block |-> IF c \in F THEN @[c] \cup {p} ELSE @[c]]]

(* async_deliver_blk for the blocks V: those that are here, and the blocks *)
(* of the QCs of the others, are fetched from p; a block with the QC of    *)
(* the genesis block needs no verification.                                *)
deliver(n, s, V, p) ==
    LET L == V \cap s.cache
        Q == {c \in L : qc_ref[c] \notin s.cache}
        F == (V \ L) \cup {qc_ref[c] : c \in Q}
    IN  add_replica(n, [s EXCEPT !.delivery_waiting = @ \cup V,
                                 !.source = [c \in Block |-> IF c \in V THEN p ELSE @[c]],
                                 !.loaded = @ \cup L,
                                 !.qc_missing = @ \cup Q,
                                 !.verified = @ \cup {c \in L : qc_ref[c] = b0},
                                 !.fetch_waiting = @ \cup F], F, p)

async_deliver_blk(n, s, b, p) == deliver(n, s, undelivered(s, b), p)

(* The proposals of D are handled and the replica votes for them.          *)
on_receive_proposal(n, s, D) ==
    [s EXCEPT !.held = @ \ D, !.handled = @ \cup D,
              !.sent = @ \cup {message("vote", n, collector[b], b) :
                                 b \in {c \in D : collector[c] # n}}]

(* Mutant: without waiting for the parent.                                 *)
ready_without_parent(s) == (s.loaded \cap s.verified) \ (s.qc_missing \cup Invalid)

(* Mutant: what the VeriPool answers is not looked at.                     *)
ready_unverified(s) ==
    LET G == (s.delivery_waiting \cap s.loaded) \ s.qc_missing
    IN  {b \in G : chain[b] \subseteq s.delivered \cup G}

(* The deliveries all of whose promises are resolved, with a certificate   *)
(* that is good: that of the parent is when the parent is delivered.       *)
ready(s) ==
    LET G == (s.delivery_waiting \cap s.loaded \cap s.verified)
                 \ (s.qc_missing \cup Invalid)
    IN  {b \in G : chain[b] \subseteq s.delivered \cup G}

(* on_deliver_blk for all that can be delivered: the exceptions of         *)
(* HotStuffCore::on_deliver_blk, or the promises of the deliveries are     *)
(* resolved and the proposals that waited for them handled.                *)
on_deliver_blk(n, s) ==
    LET D == ready(s)
    IN  IF \E b \in D : \/ b \in s.delivered \/ qc_ref[b] \notin s.cache
                        \/ parent[b] \notin s.delivered \cup D
        THEN [s EXCEPT !.thrown = TRUE]
        ELSE on_receive_proposal(n, [s EXCEPT !.delivered = @ \cup D,
                                              !.delivery_waiting = @ \ D],
                                 D \cap s.held)

(* Mutant: the context is erased before the promise is resolved.           *)
on_fetch_blk_unresolved(n, s, b) ==
    [s EXCEPT !.fetch_waiting = @ \ {b}, !.replicas[b] = {}]

(* on_fetch_blk resolves the promise of the FetchContext, if there is one: *)
(* deliveries of b and of blocks whose QC refers to b go on, and those who *)
(* asked get the block.                                                    *)
on_fetch_blk(n, s, b) ==
    LET t == [s EXCEPT !.fetch_waiting = @ \ {b}, !.replicas[b] = {},
                       !.qc_missing = {c \in @ : qc_ref[c] # b},
                       !.asked = {a \in @ : a[2] # b},
                       !.sent = @ \cup {message("resp", n, a[1], b) :
                                          a \in {x \in s.asked : x[2] = b}}]
    IN  CASE b \notin s.fetch_waiting -> s
          [] b \in (s.fetch_waiting \cap s.delivery_waiting) \ s.loaded ->
               deliver(n, t, {b} \cup undelivered(t, parent[b]), s.source[b])
          [] OTHER -> t

-----------------------------------------------------------------------------
running(n) == n \in up /\ ~st[n].thrown

(* The state s of n after a handler, and the messages N of the network.    *)
become(n, s, N) ==
    /\ st' = [st EXCEPT ![n] = [s EXCEPT !.sent = {}]]
    /\ net' = N \cup s.sent
    /\ UNCHANGED <<up, lost>>

(* What the blocks n has got allow is delivered before its handler ends.   *)
deliver_and_become(n, s, N) ==
    \E t \in {s} : \E u \in {on_deliver_blk(n, t)} : become(n, u, N)

(* on_propose of the core stores and delivers the block, do_broadcast_     *)
(* proposal sends it to all.                                               *)
propose(n, b) ==
    /\ running(n)
    /\ creator[b] = n /\ b \notin st[n].cache \cup Invalid
    /\ parent[b] \in st[n].delivered /\ qc_ref[b] \in st[n].delivered
    /\ become(n, [st[n] EXCEPT !.cache = @ \cup {b}, !.delivered = @ \cup {b}],
              net \cup {message("propose", n, m, b) : m \in Node \ {n}})

(* A faulty replica proposes a block with a certificate that is not one.   *)
propose_invalid(n, b) ==
    /\ n \in up /\ b \in Invalid /\ creator[b] = n /\ b \notin st[n].cache
    /\ \A c \in {parent[b], qc_ref[b]} : c \in st[creator[c]].cache   \* hashes exist
    /\ become(n, [st[n] EXCEPT !.cache = @ \cup {b}],
              net \cup {message("propose", n, m, b) : m \in Node \ {n}})

(* MsgPropose::postponed_parse puts the block into the storage without     *)
(* on_fetch_blk.                                                           *)
propose_handler(n, m) ==
    LET b == m.blk
        s == [st[n] EXCEPT !.cache = @ \cup {b}]
    IN  /\ running(n) /\ m \in net /\ m.to = n /\ m.type = "propose"
        /\ IF b \in s.delivered
           THEN become(n, on_receive_proposal(n, s, {b}), net \ {m})
           ELSE deliver_and_become(n, async_deliver_blk(n, [s EXCEPT !.held = @ \cup {b}],
                                                        b, m.from), net \ {m})

(* The block of a vote is delivered too, at need with the help of the voter.*)
vote_handler(n, m) ==
    /\ running(n) /\ m \in net /\ m.to = n /\ m.type = "vote"
    /\ deliver_and_become(n, async_deliver_blk(n, st[n], m.blk, m.from), net \ {m})

(* async_fetch_blk(h, nullptr): a block that is not here is waited for,    *)
(* but nobody is asked for it.                                             *)
req_blk_handler(n, m) ==
    LET b == m.blk
        s == st[n]
    IN  /\ running(n) /\ m \in net /\ m.to = n /\ m.type = "req"
        /\ become(n, IF b \in s.cache
                     THEN [s EXCEPT !.sent = {message("resp", n, m.from, b)}]
                     ELSE [s EXCEPT !.fetch_waiting = @ \cup {b},
                                    !.asked = @ \cup {<<m.from, b>>}],
                  net \ {m})

resp_blk_handler(n, m) ==
    LET s == [st[n] EXCEPT !.cache = @ \cup {m.blk}]
    IN  /\ running(n) /\ m \in net /\ m.to = n /\ m.type = "resp"
        /\ deliver_and_become(n, on_fetch_blk(n, s, m.blk), net \ {m})

(* The VeriPool answers for the certificate of b.                          *)
verify(n, b) ==
    /\ running(n)
    /\ b \in st[n].loaded \ st[n].verified
    /\ deliver_and_become(n, [st[n] EXCEPT !.verified = @ \cup {b}], net)

(* timeout_cb asks all the replicas of the context again.                  *)
timeout(n, b) ==
    /\ running(n)
    /\ b \in st[n].fetch_waiting
    /\ become(n, st[n], net \cup {message("req", n, p, b) : p \in st[n].replicas[b]})

(* A connection breaks with requests or answers on it.  (Proposals *)
(* and votes are not sent again: what a lost one would have told is lost.) *)
lose(m) ==
    /\ m \in net /\ m.type \in {"req", "resp"}
    /\ lost < MaxLost /\ lost' = lost + 1
    /\ net' = net \ {m}
    /\ UNCHANGED <<st, up>>

crash(n) == n \in MayCrash \cap up /\ up' = up \ {n} /\ UNCHANGED <<st, net, lost>>

DLNext ==
    \/ \E m \in net : lose(m)
    \/ \E n \in Node :
         \/ crash(n)
         \/ \E b \in Block : \/ propose(n, b) \/ propose_invalid(n, b)
                             \/ verify(n, b) \/ timeout(n, b)
         \/ \E m \in net : \/ propose_handler(n, m) \/ vote_handler(n, m)
                           \/ req_blk_handler(n, m) \/ resp_blk_handler(n, m)

(* A replica goes on with the messages of each kind that have arrived and  *)
(* with the answers of the VeriPool, and its timers expire.                *)
DLFairness ==
    \A n \in Node :
        /\ WF_dl_vars(\E m \in net : propose_handler(n, m) \/ vote_handler(n, m))
        /\ WF_dl_vars(\E m \in net : req_blk_handler(n, m))
        /\ WF_dl_vars(\E m \in net : resp_blk_handler(n, m))
        /\ WF_dl_vars(\E b \in Block : verify(n, b))
        /\ WF_dl_vars(\E b \in Block : timeout(n, b))

DLSpec == DLInit /\ [][DLNext]_dl_vars

DLFairSpec == DLSpec /\ DLFairness

-----------------------------------------------------------------------------
(* Properties *)

(* The exceptions of on_deliver_blk, "block not delivered" and "block      *)
(* referred by qc not fetched", and its refusal to deliver a block twice   *)
(* are unreachable, in whatever order blocks, answers and results of the   *)
(* VeriPool come.                                                          *)
NeverThrown == \A n \in Node : ~st[n].thrown

(* What HotStuffCore!on_deliver_blk is guarded by: the delivered blocks    *)
(* are closed under parents, were proposed, and neither they nor their     *)
(* ancestors have a certificate that does not verify.                      *)
DeliveredIsSound ==
    \A n \in Node : \A b \in st[n].delivered :
        /\ chain[b] \subseteq st[n].delivered
        /\ chain[b] \cap Invalid = {}
        /\ qc_ref[b] \in st[n].cache
        /\ b = b0 \/ b \in st[creator[b]].cache

(* No delivery waits for a promise that nobody is going to resolve: the    *)
(* block or the block of its QC is being asked for, the VeriPool has to    *)
(* answer, or the parent waits as well; but for certificates that failed,  *)
(* whose entries stay.  Whoever is to be asked belongs to a context that    *)
(* exists.                                                                 *)
WaitsAreServed ==
    /\ DLTypeOK
    /\ \A n \in Node : \A b \in Block :
         st[n].replicas[b] # {} => b \in st[n].fetch_waiting
    /\ \A n \in Node : \A b \in st[n].delivery_waiting :
           LET s == st[n]
           IN  \/ b \notin s.loaded /\ b \in s.fetch_waiting /\ s.replicas[b] # {}
               \/ b \in s.qc_missing /\ qc_ref[b] \in s.fetch_waiting
                                     /\ s.replicas[qc_ref[b]] # {}
               \/ b \in s.loaded \ s.verified
               \/ b \in Invalid
               \/ b \in s.loaded /\ parent[b] \in s.delivery_waiting

(* Every proposal that arrives is handled in the end, however many answers *)
(* and requests get lost on the way, unless the block is on top of an      *)
(* invalid one.  (When replicas crash those a context asks may all be      *)
(* gone, and nothing adds others.)                                         *)
ProposalsHandled ==
    <>[](up = Node => \A n \in Node : \A b \in st[n].held : chain[b] \cap Invalid # {})
=============================================================================
