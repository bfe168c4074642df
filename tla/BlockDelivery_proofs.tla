------------------------- MODULE BlockDelivery_proofs -------------------------
(***************************************************************************)
(* Delivery for any number of replicas, blocks, lost messages and crashes: *)
(* the exceptions of on_deliver_blk are unreachable, what is delivered is  *)
(* sound, and no delivery waits for a promise that nobody is to resolve.   *)
(***************************************************************************)
EXTENDS BlockDelivery, BlockTree_proofs

(* The blocks that exist: their creator has built them.                    *)
Known == {b \in Block : b \in st[creator[b]].cache}

(* A block contains the hashes of its parent and of the block of its QC.   *)
Closed(K) == \A b \in K : chain[b] \subseteq K /\ qc_ref[b] \in K

(* What the storage and the contexts of a replica's state s say agrees.    *)
Stored(s) ==
    /\ s \in State /\ b0 \in s.delivered
    /\ s.delivered \subseteq s.cache /\ s.loaded \subseteq s.cache
    /\ s.loaded \subseteq s.delivered \cup s.delivery_waiting
    /\ s.qc_missing \subseteq s.loaded
    /\ \A b \in s.loaded \ s.qc_missing : qc_ref[b] \in s.cache
    /\ ~s.thrown

Sound(s) ==
    \A b \in s.delivered : /\ chain[b] \subseteq s.delivered
                           /\ chain[b] \cap Invalid = {}
                           /\ qc_ref[b] \in s.cache

(* Somebody is asked for b.                                                *)
Asked(s, b) == b \in s.fetch_waiting /\ s.replicas[b] # {}

(* Each delivery of W that waits is asked for or has a parent that waits.  *)
Served(s, W) ==
    \A b \in W :
        /\ b \notin s.delivered
        /\ b \notin s.loaded => Asked(s, b)
        /\ b \in s.qc_missing => Asked(s, qc_ref[b])
        /\ b \in s.loaded => parent[b] \in s.delivered \cup s.delivery_waiting

Contexts(s) == \A b \in Block : s.replicas[b] # {} => b \in s.fetch_waiting

(* Whatever s refers to exists.                                            *)
Within(s, K) ==
    /\ s.cache \cup s.fetch_waiting \cup s.delivery_waiting \subseteq K
    /\ \A a \in s.asked : a[2] \in K
    /\ \A m \in s.sent : m.blk \in K

NodeInv(s, K) ==
    Stored(s) /\ Sound(s) /\ Contexts(s) /\ Within(s, K) /\ Served(s, s.delivery_waiting)

(* Between handlers nothing is left that on_deliver_blk could deliver.     *)
Settled(s) ==
    \A b \in (s.delivery_waiting \cap s.loaded \cap s.verified) \ (s.qc_missing \cup Invalid) :
        parent[b] \in s.delivery_waiting

DLInv ==
    /\ DLTypeOK
    /\ Closed(Known)
    /\ \A m \in net : m.blk \in Known
    /\ \A n \in Node : NodeInv(st[n], Known) /\ Settled(st[n])

-----------------------------------------------------------------------------
(* What the blocks are made of.                                            *)
LEMMA Links ==
    /\ b0 \in Block /\ b0 \notin Invalid
    /\ \A b \in Block : /\ chain[b] \in SUBSET Block /\ b \in chain[b]
                        /\ qc_ref[b] \in Block /\ parent[b] \in Block
                        /\ creator[b] \in Node /\ collector[b] \in Node
                        /\ height[b] \in Nat
                        /\ \A c \in chain[b] : chain[c] \subseteq chain[b]
    /\ \A b \in Block \ {b0} : /\ chain[b] = chain[parent[b]] \cup {b}
                               /\ parent[b] \in chain[b]
<1>1. \A b \in Block : b \in chain[b] /\ parent[b] \in Block
  BY TreeType, ChainEnds
<1>2. \A b \in Block \ {b0} : parent[b] \in chain[b]
  BY <1>1, TreeLinks
<1>. QED BY <1>1, <1>2, TreeType, TreeLinks, ChainTrans, DeliveryAssumption

(* The messages of the handlers are messages, about the block they name.   *)
LEMMA MessageType ==
    ASSUME NEW t \in {"propose", "vote", "req", "resp"}, NEW n \in Node, NEW m \in Node,
           NEW b \in Block
    PROVE  message(t, n, m, b) \in Msg /\ message(t, n, m, b).blk = b
  BY DEF message, Msg

(* What async_deliver_blk starts: b unless it is delivered or waits, and   *)
(* with a block that is here its parent.                                   *)
LEMMA Undelivered ==
    ASSUME NEW s \in State, b0 \in s.delivered, NEW b \in Block
    PROVE  LET V == undelivered(s, b)
               W == s.delivered \cup s.delivery_waiting
           IN  /\ V \subseteq chain[b] \ W
               /\ b \in W \cup V
               /\ \A c \in V \cap s.cache : parent[c] \in W \cup V
<1> DEFINE V == undelivered(s, b)
           W == s.delivered \cup s.delivery_waiting
<1>1. V \subseteq chain[b] \ W
  BY DEF undelivered
<1>2. b \in W \cup V
  <2>1. \A d \in chain[b] : ~(height[d] > height[b])
    BY Links, ChainHeight
  <2>. QED BY <2>1, Links DEF undelivered
<1>3. ASSUME NEW c \in V \cap s.cache, parent[c] \notin W
      PROVE  parent[c] \in V
  <2>1. c \in chain[b] /\ c \in Block /\ c # b0 /\ c \notin W
    BY <1>1, Links
  <2>2. parent[c] \in chain[b] /\ height[c] = height[parent[c]] + 1
    BY <2>1, Links, TreeLinks
  <2>3. ASSUME NEW d \in chain[b], height[d] > height[parent[c]]
        PROVE  d \in s.cache \ W
    <3>1. d \in Block /\ height[d] \in Nat /\ height[c] \in Nat /\ height[parent[c]] \in Nat
      BY <2>1, Links
    <3>2. CASE height[d] > height[c]
      BY <3>2 DEF undelivered
    <3>3. CASE height[d] = height[c]
      <4>1. d \in chain[c] /\ (d # c => height[d] < height[c])
        BY <2>1, <3>1, <3>3, ChainLinear, ChainHeight
      <4>. QED BY <2>1, <3>1, <3>3, <4>1
    <3>. QED BY <2>2, <2>3, <3>1, <3>2, <3>3
  <2>. QED BY <1>3, <2>2, <2>3 DEF undelivered
<1>. QED BY <1>1, <1>2, <1>3

-----------------------------------------------------------------------------
(* What add_replica changes.                                               *)
LEMMA AddReplicaFields ==
    ASSUME NEW u \in State, NEW n \in Node, NEW p \in Node, NEW F \in SUBSET Block
    PROVE  LET t == add_replica(n, u, F, p)
           IN  /\ t \in State
               /\ t.cache = u.cache /\ t.delivered = u.delivered /\ t.asked = u.asked
               /\ t.held = u.held /\ t.thrown = u.thrown
               /\ t.delivery_waiting = u.delivery_waiting
               /\ t.loaded = u.loaded /\ t.qc_missing = u.qc_missing
               /\ t.fetch_waiting = u.fetch_waiting
               /\ \A c \in F : p \in t.replicas[c]
               /\ \A c \in Block : /\ u.replicas[c] \subseteq t.replicas[c]
                                   /\ c \notin F => t.replicas[c] = u.replicas[c]
               /\ \A m \in t.sent : m \in u.sent \/ m.blk \in F
<1> DEFINE M == {message("req", n, p, c) : c \in {x \in F : u.replicas[x] = {}}}
           R == [c \in Block |-> IF c \in F THEN u.replicas[c] \cup {p} ELSE u.replicas[c]]
           t == [u EXCEPT !.sent = @ \cup M, !.replicas = R]
<1>1. add_replica(n, u, F, p) = t
  BY DEF add_replica, State
<1>2. M \in SUBSET Msg /\ \A m \in M : m.blk \in F
  <2>1. SUFFICES ASSUME NEW c \in F
                 PROVE  message("req", n, p, c) \in Msg /\ message("req", n, p, c).blk = c
    OBVIOUS
  <2>. QED BY MessageType
<1>3. R \in [Block -> SUBSET Node]
  BY DEF State
<1>4. /\ \A c \in F : p \in R[c]
      /\ \A c \in Block : /\ u.replicas[c] \subseteq R[c]
                          /\ c \notin F => R[c] = u.replicas[c]
  OBVIOUS
<1> HIDE DEF M, R
<1>5. /\ t \in State
      /\ t.cache = u.cache /\ t.delivered = u.delivered /\ t.asked = u.asked
      /\ t.held = u.held /\ t.thrown = u.thrown
      /\ t.delivery_waiting = u.delivery_waiting
      /\ t.loaded = u.loaded /\ t.qc_missing = u.qc_missing
      /\ t.fetch_waiting = u.fetch_waiting
      /\ t.sent = u.sent \cup M /\ t.replicas = R
  BY <1>2, <1>3 DEF State
<1> HIDE DEF t
<1>. QED BY <1>1, <1>2, <1>4, <1>5

(* Those of V whose QC's block is not here, and what is fetched for V.     *)
NoQC(s, V) == {c \in V \cap s.cache : qc_ref[c] \notin s.cache}
ToFetch(s, V) == (V \ (V \cap s.cache)) \cup {qc_ref[c] : c \in NoQC(s, V)}

(* What deliver changes.                                                   *)
LEMMA DeliverFields ==
    ASSUME NEW s \in State, NEW n \in Node, NEW p \in Node, NEW V \in SUBSET Block
    PROVE  LET t == deliver(n, s, V, p)
               L == V \cap s.cache
               Q == NoQC(s, V)
               F == ToFetch(s, V)
           IN  /\ t \in State
               /\ t.cache = s.cache /\ t.delivered = s.delivered /\ t.asked = s.asked
               /\ t.held = s.held /\ t.thrown = s.thrown
               /\ t.delivery_waiting = s.delivery_waiting \cup V
               /\ t.loaded = s.loaded \cup L /\ t.qc_missing = s.qc_missing \cup Q
               /\ t.fetch_waiting = s.fetch_waiting \cup F
               /\ \A c \in F : p \in t.replicas[c]
               /\ \A c \in Block : /\ s.replicas[c] \subseteq t.replicas[c]
                                   /\ c \notin F => t.replicas[c] = s.replicas[c]
               /\ \A m \in t.sent : m \in s.sent \/ m.blk \in F
<1> DEFINE L == V \cap s.cache
           Q == NoQC(s, V)
           F == ToFetch(s, V)
           S == [c \in Block |-> IF c \in V THEN p ELSE s.source[c]]
           G == {c \in L : qc_ref[c] = b0}
           u == [s EXCEPT !.delivery_waiting = @ \cup V,
                          !.source = S,
                          !.loaded = @ \cup L,
                          !.qc_missing = @ \cup Q,
                          !.verified = @ \cup G,
                          !.fetch_waiting = @ \cup F]
           t == add_replica(n, u, F, p)
<1>1. deliver(n, s, V, p) = t
  BY DEF deliver, State, NoQC, ToFetch
<1>2. /\ L \in SUBSET Block /\ Q \in SUBSET Block /\ F \in SUBSET Block
      /\ G \in SUBSET Block /\ S \in [Block -> Node]
  BY Links DEF State, NoQC, ToFetch
<1> HIDE DEF L, Q, F, S, G
<1>3. /\ u \in State
      /\ u.cache = s.cache /\ u.delivered = s.delivered /\ u.asked = s.asked
      /\ u.held = s.held /\ u.thrown = s.thrown
      /\ u.delivery_waiting = s.delivery_waiting \cup V
      /\ u.loaded = s.loaded \cup L /\ u.qc_missing = s.qc_missing \cup Q
      /\ u.fetch_waiting = s.fetch_waiting \cup F
      /\ u.replicas = s.replicas /\ u.sent = s.sent
  BY <1>2 DEF State
<1> HIDE DEF u
<1>4. /\ t \in State
      /\ t.cache = u.cache /\ t.delivered = u.delivered /\ t.asked = u.asked
      /\ t.held = u.held /\ t.thrown = u.thrown
      /\ t.delivery_waiting = u.delivery_waiting
      /\ t.loaded = u.loaded /\ t.qc_missing = u.qc_missing
      /\ t.fetch_waiting = u.fetch_waiting
      /\ \A c \in F : p \in t.replicas[c]
      /\ \A c \in Block : /\ u.replicas[c] \subseteq t.replicas[c]
                          /\ c \notin F => t.replicas[c] = u.replicas[c]
      /\ \A m \in t.sent : m \in u.sent \/ m.blk \in F
  BY <1>2, <1>3, AddReplicaFields
<1> HIDE DEF t
<1>. QED BY <1>1, <1>3, <1>4 DEF L, Q, F

(* A delivery of V leaves every delivery served, when those of V are not   *)
(* started and their parents are delivered, wait or belong to V.           *)
LEMMA DeliverInv ==
    ASSUME NEW K \in SUBSET Block, Closed(K), NEW n \in Node, NEW p \in Node, NEW s,
           Stored(s), Sound(s), Contexts(s), Within(s, K),
           NEW V \in SUBSET K, V \cap (s.delivered \cup s.loaded) = {},
           Served(s, s.delivery_waiting \ V),
           \A c \in V \cap s.cache :
               parent[c] \in s.delivered \cup s.delivery_waiting \cup V
    PROVE  NodeInv(deliver(n, s, V, p), K)
<1> DEFINE t == deliver(n, s, V, p)
           L == V \cap s.cache
           Q == NoQC(s, V)
           F == ToFetch(s, V)
<1>1. s \in State /\ V \in SUBSET Block
  BY DEF Stored
<1>2. /\ t \in State
      /\ t.cache = s.cache /\ t.delivered = s.delivered /\ t.asked = s.asked
      /\ t.thrown = s.thrown
      /\ t.delivery_waiting = s.delivery_waiting \cup V
      /\ t.loaded = s.loaded \cup L /\ t.qc_missing = s.qc_missing \cup Q
      /\ t.fetch_waiting = s.fetch_waiting \cup F
      /\ \A c \in F : p \in t.replicas[c]
      /\ \A c \in Block : /\ s.replicas[c] \subseteq t.replicas[c]
                          /\ c \notin F => t.replicas[c] = s.replicas[c]
      /\ \A m \in t.sent : m \in s.sent \/ m.blk \in F
  BY <1>1, DeliverFields
<1>3. /\ F \in SUBSET K /\ F \in SUBSET Block
      /\ V \ s.cache \subseteq F /\ Q \subseteq L
      /\ \A c \in Q : qc_ref[c] \in F
      /\ \A c \in L \ Q : qc_ref[c] \in s.cache
  BY DEF Closed, NoQC, ToFetch
<1> HIDE DEF t, Q, F
<1>4. Stored(t)
  BY <1>2, <1>3 DEF Stored
<1>5. Sound(t)
  BY <1>2 DEF Sound
<1>6. Contexts(t)
  BY <1>2 DEF Contexts
<1>7. Within(t, K)
  BY <1>2, <1>3 DEF Within
<1>8. \A c \in Block : c \in F \/ Asked(s, c) => Asked(t, c)
  BY <1>2 DEF Asked
<1>9. ASSUME NEW c \in t.delivery_waiting
      PROVE  /\ c \notin t.delivered
             /\ c \notin t.loaded => Asked(t, c)
             /\ c \in t.qc_missing => Asked(t, qc_ref[c])
             /\ c \in t.loaded => parent[c] \in t.delivered \cup t.delivery_waiting
  <2>1. c \in Block /\ qc_ref[c] \in Block
    BY <1>2, <1>7, Links DEF Within
  <2>2. CASE c \in V
    <3>1. c \notin s.delivered /\ c \notin s.loaded /\ c \notin s.qc_missing
      BY <2>2 DEF Stored
    <3>2. c \notin t.loaded => c \in F
      BY <1>2, <1>3, <2>2
    <3>3. c \in t.qc_missing => qc_ref[c] \in F
      BY <1>2, <1>3, <3>1
    <3>. QED BY <1>2, <1>8, <2>1, <2>2, <3>1, <3>2, <3>3
  <2>3. CASE c \notin V
    <3>1. c \in s.delivery_waiting \ V
      BY <1>2, <2>3
    <3>2. /\ c \notin s.delivered
          /\ c \notin s.loaded => Asked(s, c)
          /\ c \in s.qc_missing => Asked(s, qc_ref[c])
          /\ c \in s.loaded => parent[c] \in s.delivered \cup s.delivery_waiting
      BY <3>1 DEF Served
    <3>. QED BY <1>2, <1>3, <1>8, <2>1, <2>3, <3>2
  <2>. QED BY <2>2, <2>3
<1>10. Served(t, t.delivery_waiting)
  BY <1>9 DEF Served
<1>. QED BY <1>4, <1>5, <1>6, <1>7, <1>10 DEF NodeInv, t

(* async_deliver_blk for a block that exists leaves every delivery served. *)
LEMMA AsyncDeliverInv ==
    ASSUME NEW K \in SUBSET Block, Closed(K), NEW n \in Node, NEW p \in Node, NEW s,
           NodeInv(s, K), NEW b \in K
    PROVE  NodeInv(async_deliver_blk(n, s, b, p), K)
<1> DEFINE V == undelivered(s, b)
<1>1. s \in State /\ b0 \in s.delivered
  BY DEF NodeInv, Stored
<1>2. /\ V \subseteq chain[b] \ (s.delivered \cup s.delivery_waiting)
      /\ \A c \in V \cap s.cache :
            parent[c] \in s.delivered \cup s.delivery_waiting \cup V
  BY <1>1, Undelivered
<1> HIDE DEF V
<1>3. V \in SUBSET K /\ V \cap (s.delivered \cup s.loaded) = {}
  BY <1>2 DEF Closed, NodeInv, Stored
<1>4. Served(s, s.delivery_waiting \ V)
  BY DEF NodeInv, Served
<1>5. NodeInv(deliver(n, s, V, p), K)
  BY <1>2, <1>3, <1>4, DeliverInv DEF NodeInv
<1>. QED BY <1>5 DEF async_deliver_blk, V

-----------------------------------------------------------------------------
(* NodeInv and Settled do not look at held, handled, verified and source,  *)
(* nor at the messages once they exist.                                    *)
LEMMA SameContexts ==
    ASSUME NEW K, NEW s, NEW t, NodeInv(s, K), t \in State,
           t.cache = s.cache, t.delivered = s.delivered,
           t.fetch_waiting = s.fetch_waiting, t.replicas = s.replicas,
           t.asked = s.asked, t.delivery_waiting = s.delivery_waiting,
           t.loaded = s.loaded, t.qc_missing = s.qc_missing, t.thrown = s.thrown,
           \A m \in t.sent : m.blk \in K
    PROVE  /\ NodeInv(t, K)
           /\ Settled(s) /\ t.verified = s.verified => Settled(t)
<1>1. Stored(t) /\ Sound(t) /\ Contexts(t)
  BY DEF NodeInv, Stored, Sound, Contexts
<1>2. Within(t, K)
  BY DEF NodeInv, Within
<1>3. Served(t, t.delivery_waiting)
  BY DEF NodeInv, Served, Asked
<1>4. Settled(s) /\ t.verified = s.verified => Settled(t)
  BY DEF Settled
<1>. QED BY <1>1, <1>2, <1>3, <1>4 DEF NodeInv

(* on_fetch_blk: those that waited for b go on, nobody else waits for it.  *)
LEMMA FetchInv ==
    ASSUME NEW K \in SUBSET Block, Closed(K), NEW n \in Node, NEW s,
           NodeInv(s, K), NEW b \in s.cache
    PROVE  NodeInv(on_fetch_blk(n, s, b), K) /\ on_fetch_blk(n, s, b).cache = s.cache
<1> DEFINE R == [s.replicas EXCEPT ![b] = {}]
           Q == {c \in s.qc_missing : qc_ref[c] # b}
           A == {a \in s.asked : a[2] # b}
           M == {message("resp", n, a[1], b) : a \in {x \in s.asked : x[2] = b}}
           t == [s EXCEPT !.fetch_waiting = @ \ {b}, !.replicas = R, !.qc_missing = Q,
                          !.asked = A, !.sent = @ \cup M]
           V == {b} \cup undelivered(t, parent[b])
           W == s.delivered \cup s.delivery_waiting
<1>1. /\ s \in State /\ b \in K /\ b \in Block
      /\ Stored(s) /\ Sound(s) /\ Contexts(s) /\ Within(s, K)
      /\ Served(s, s.delivery_waiting)
  BY DEF NodeInv, Stored, Within
<1>2. /\ R \in [Block -> SUBSET Node] /\ Q \in SUBSET Block /\ A \in SUBSET (Node \X Block)
      /\ R[b] = {} /\ \A c \in Block \ {b} : R[c] = s.replicas[c]
  BY <1>1 DEF State
<1>3. M \in SUBSET Msg /\ \A m \in M : m.blk = b
  <2>1. SUFFICES ASSUME NEW a \in s.asked
                 PROVE  /\ message("resp", n, a[1], b) \in Msg
                        /\ message("resp", n, a[1], b).blk = b
    OBVIOUS
  <2>2. a[1] \in Node
    BY <1>1 DEF State
  <2>. QED BY <1>1, <2>2, MessageType
<1>4. on_fetch_blk(n, s, b) =
        CASE b \notin s.fetch_waiting -> s
          [] b \in (s.fetch_waiting \cap s.delivery_waiting) \ s.loaded ->
               deliver(n, t, V, s.source[b])
          [] OTHER -> t
  BY <1>1 DEF on_fetch_blk, State
<1>5. Q \subseteq s.qc_missing /\ (\A c \in Q : qc_ref[c] # b)
      /\ (\A c \in s.qc_missing \ Q : qc_ref[c] = b) /\ A \subseteq s.asked
  OBVIOUS
<1> HIDE DEF R, Q, A, M
<1>6. /\ t \in State
      /\ t.cache = s.cache /\ t.delivered = s.delivered /\ t.thrown = s.thrown
      /\ t.delivery_waiting = s.delivery_waiting /\ t.loaded = s.loaded
      /\ t.fetch_waiting = s.fetch_waiting \ {b}
      /\ t.replicas = R /\ t.qc_missing = Q /\ t.asked = A
      /\ t.sent = s.sent \cup M
  BY <1>1, <1>2, <1>3 DEF State
<1> HIDE DEF t
<1>7. Stored(t)
  BY <1>1, <1>5, <1>6 DEF Stored
<1>8. Sound(t)
  BY <1>1, <1>6 DEF Sound
<1>9. Contexts(t)
  BY <1>1, <1>2, <1>6 DEF Contexts
<1>10. Within(t, K)
  BY <1>1, <1>3, <1>5, <1>6 DEF Within
<1>11. ASSUME NEW c \in t.delivery_waiting, c # b \/ b \in s.loaded
       PROVE  /\ c \notin t.delivered
              /\ c \notin t.loaded => Asked(t, c)
              /\ c \in t.qc_missing => Asked(t, qc_ref[c])
              /\ c \in t.loaded => parent[c] \in t.delivered \cup t.delivery_waiting
  <2>1. c \in s.delivery_waiting /\ c \in Block /\ qc_ref[c] \in Block
    BY <1>1, <1>6, Links DEF Within
  <2>2. /\ c \notin s.delivered
        /\ c \notin s.loaded => Asked(s, c)
        /\ c \in s.qc_missing => Asked(s, qc_ref[c])
        /\ c \in s.loaded => parent[c] \in s.delivered \cup s.delivery_waiting
    BY <1>1, <2>1 DEF Served
  <2>3. \A d \in Block \ {b} : Asked(s, d) => Asked(t, d)
    BY <1>2, <1>6 DEF Asked
  <2>4. c \notin t.loaded => Asked(t, c)
    BY <1>6, <1>11, <2>1, <2>2, <2>3
  <2>5. c \in t.qc_missing => Asked(t, qc_ref[c])
    BY <1>5, <1>6, <2>1, <2>2, <2>3
  <2>. QED BY <1>6, <2>2, <2>4, <2>5
<1>12. CASE b \notin s.fetch_waiting
  BY <1>4, <1>12
<1>13. CASE b \in (s.fetch_waiting \cap s.delivery_waiting) \ s.loaded
  <2> DEFINE p == s.source[b]
  <2>1. on_fetch_blk(n, s, b) = deliver(n, t, V, p)
    BY <1>4, <1>13
  <2>2. p \in Node
    BY <1>1 DEF State
  <2>3. b \notin s.delivered /\ b # b0
    BY <1>1, <1>13 DEF Served, Stored
  <2>4. parent[b] \in K /\ parent[b] \in Block /\ chain[parent[b]] \subseteq K
    BY <1>1, <2>3, Links DEF Closed
  <2> DEFINE U == undelivered(t, parent[b])
  <2>5. /\ U \subseteq chain[parent[b]] \ W
        /\ parent[b] \in W \cup U
        /\ \A c \in U \cap s.cache : parent[c] \in W \cup U
    <3>1. b0 \in t.delivered
      BY <1>7 DEF Stored
    <3>. QED BY <1>6, <2>4, <3>1, Undelivered
  <2> HIDE DEF U
  <2>6. V = {b} \cup U
    BY DEF U
  <2> HIDE DEF V, p
  <2>7. V \in SUBSET K
    BY <1>1, <2>4, <2>5, <2>6
  <2>8. V \cap (t.delivered \cup t.loaded) = {}
    BY <1>1, <1>6, <1>13, <2>3, <2>5, <2>6 DEF Stored
  <2>9. \A c \in V \cap t.cache : parent[c] \in t.delivered \cup t.delivery_waiting \cup V
    BY <1>6, <2>5, <2>6
  <2>10. Served(t, t.delivery_waiting \ V)
    BY <1>11, <2>6 DEF Served
  <2>11. NodeInv(deliver(n, t, V, p), K)
    BY <1>7, <1>8, <1>9, <1>10, <2>2, <2>7, <2>8, <2>9, <2>10, DeliverInv
  <2>12. V \in SUBSET Block
    BY <1>1, <2>7
  <2>13. deliver(n, t, V, p).cache = s.cache
    BY <1>6, <2>2, <2>12, DeliverFields
  <2>. QED BY <2>1, <2>11, <2>13
<1>14. CASE b \in s.fetch_waiting /\ b \notin s.delivery_waiting \ s.loaded
  <2>1. on_fetch_blk(n, s, b) = t
    BY <1>4, <1>14
  <2>2. Served(t, t.delivery_waiting)
    BY <1>6, <1>11, <1>14 DEF Served
  <2>. QED BY <1>6, <1>7, <1>8, <1>9, <1>10, <2>1, <2>2 DEF NodeInv
<1>. QED BY <1>12, <1>13, <1>14

(* The votes for proposals that exist exist.                               *)
LEMMA ReceiveInv ==
    ASSUME NEW K \in SUBSET Block, NEW n \in Node, NEW s, NodeInv(s, K),
           NEW D \in SUBSET K
    PROVE  /\ NodeInv(on_receive_proposal(n, s, D), K)
           /\ Settled(s) => Settled(on_receive_proposal(n, s, D))
<1> DEFINE M == {message("vote", n, collector[b], b) : b \in {c \in D : collector[c] # n}}
           t == [s EXCEPT !.held = @ \ D, !.handled = @ \cup D, !.sent = @ \cup M]
<1>1. M \in SUBSET Msg /\ \A m \in M : m.blk \in K
  <2>1. SUFFICES ASSUME NEW b \in D
                 PROVE  /\ message("vote", n, collector[b], b) \in Msg
                        /\ message("vote", n, collector[b], b).blk = b
    OBVIOUS
  <2>2. b \in Block /\ collector[b] \in Node
    BY Links
  <2>. QED BY <2>2, MessageType
<1>2. on_receive_proposal(n, s, D) = t
  BY DEF on_receive_proposal
<1> HIDE DEF M
<1>3. s \in State /\ \A m \in s.sent : m.blk \in K
  BY DEF NodeInv, Stored, Within
<1>4. /\ t \in State
      /\ t.cache = s.cache /\ t.delivered = s.delivered
      /\ t.fetch_waiting = s.fetch_waiting /\ t.replicas = s.replicas
      /\ t.asked = s.asked /\ t.delivery_waiting = s.delivery_waiting
      /\ t.loaded = s.loaded /\ t.qc_missing = s.qc_missing
      /\ t.verified = s.verified /\ t.thrown = s.thrown
      /\ t.sent = s.sent \cup M
  BY <1>1, <1>3 DEF State
<1> HIDE DEF t
<1>. QED BY <1>1, <1>2, <1>3, <1>4, SameContexts

(* on_deliver_blk throws nothing, and delivers all that can be delivered:  *)
(* a block is ready with its ancestors.                                    *)
LEMMA OnDeliverInv ==
    ASSUME NEW K \in SUBSET Block, NEW n \in Node, NEW s, NodeInv(s, K)
    PROVE  NodeInv(on_deliver_blk(n, s), K) /\ Settled(on_deliver_blk(n, s))
<1> DEFINE D == ready(s)
           G == (s.delivery_waiting \cap s.loaded \cap s.verified)
                    \ (s.qc_missing \cup Invalid)
           t == [s EXCEPT !.delivered = @ \cup D, !.delivery_waiting = @ \ D]
<1>1. /\ s \in State /\ K \in SUBSET Block
      /\ Stored(s) /\ Sound(s) /\ Contexts(s) /\ Within(s, K)
      /\ Served(s, s.delivery_waiting)
  BY DEF NodeInv, Stored
<1>2. D = {b \in G : chain[b] \subseteq s.delivered \cup G}
  BY DEF ready
<1>3. G \subseteq K /\ G \subseteq Block /\ s.delivered \in SUBSET Block
  BY <1>1 DEF Within, State
<1>4. ASSUME NEW b \in D
      PROVE  /\ b \in Block /\ b # b0 /\ b \notin s.delivered
             /\ b \in s.cache /\ qc_ref[b] \in s.cache
             /\ chain[b] \subseteq s.delivered \cup D
             /\ chain[b] \cap Invalid = {}
             /\ parent[b] \in s.delivered \cup D
  <2>1. b \in G /\ b \in Block /\ chain[b] \subseteq s.delivered \cup G
    BY <1>2, <1>3
  <2>2. b \notin s.delivered /\ b # b0
    BY <1>1, <2>1 DEF Served, Stored
  <2>3. b \in s.cache /\ qc_ref[b] \in s.cache
    BY <1>1, <2>1 DEF Stored
  <2>4. chain[b] \subseteq s.delivered \cup D
    <3>1. \A d \in chain[b] : chain[d] \subseteq chain[b]
      BY <2>1, Links
    <3>. QED BY <1>2, <2>1, <3>1
  <2>5. chain[b] \cap Invalid = {}
    <3>1. \A d \in s.delivered : d \notin Invalid
      BY <1>1, <1>3, Links DEF Sound
    <3>. QED BY <2>1, <3>1
  <2>6. parent[b] \in chain[b]
    BY <2>1, <2>2, Links
  <2>. QED BY <2>1, <2>2, <2>3, <2>4, <2>5, <2>6
<1>5. D \subseteq G /\ D \in SUBSET K
  BY <1>2, <1>3
<1>6. ASSUME NEW b \in G \ D
      PROVE  parent[b] \in s.delivery_waiting \ D
  <2>1. b \in Block /\ b # b0
    BY <1>1, <1>3 DEF Served, Stored
  <2>2. parent[b] \in s.delivered \cup s.delivery_waiting
    BY <1>1 DEF Served
  <2>3. chain[b] = chain[parent[b]] \cup {b}
    BY <2>1, Links
  <2>4. parent[b] \notin s.delivered
    BY <1>1, <1>2, <2>3 DEF Sound
  <2>5. parent[b] \notin D
    BY <1>2, <2>3
  <2>. QED BY <2>2, <2>4, <2>5
<1>7. on_deliver_blk(n, s) = on_receive_proposal(n, t, D \cap s.held)
  BY <1>4 DEF on_deliver_blk
<1>8. /\ G \subseteq s.delivery_waiting
      /\ G = (s.delivery_waiting \cap s.loaded \cap s.verified) \ (s.qc_missing \cup Invalid)
  OBVIOUS
<1> HIDE DEF D, G
<1>9. /\ t \in State
      /\ t.cache = s.cache /\ t.delivered = s.delivered \cup D
      /\ t.fetch_waiting = s.fetch_waiting /\ t.replicas = s.replicas
      /\ t.asked = s.asked /\ t.delivery_waiting = s.delivery_waiting \ D
      /\ t.loaded = s.loaded /\ t.qc_missing = s.qc_missing
      /\ t.verified = s.verified /\ t.thrown = s.thrown /\ t.sent = s.sent
  BY <1>1, <1>3, <1>5 DEF State
<1> HIDE DEF t
<1>10. Stored(t)
  BY <1>1, <1>4, <1>9 DEF Stored
<1>11. Sound(t)
  BY <1>1, <1>4, <1>9 DEF Sound
<1>12. Contexts(t) /\ Within(t, K)
  BY <1>1, <1>9 DEF Contexts, Within
<1>13. Served(t, t.delivery_waiting)
  BY <1>1, <1>9 DEF Served, Asked
<1>14. NodeInv(t, K)
  BY <1>10, <1>11, <1>12, <1>13 DEF NodeInv
<1>15. Settled(t)
  BY <1>6, <1>8, <1>9 DEF Settled
<1>16. D \cap s.held \in SUBSET K
  BY <1>5
<1>. QED BY <1>7, <1>14, <1>15, <1>16, ReceiveInv

-----------------------------------------------------------------------------
(* A block that is built makes no difference to those who never heard of   *)
(* it.                                                                     *)
LEMMA MoreBlocks ==
    ASSUME NEW K, NEW s, NodeInv(s, K), NEW L, K \subseteq L
    PROVE  NodeInv(s, L)
<1>1. Within(s, L)
  BY DEF NodeInv, Within
<1>. QED BY <1>1 DEF NodeInv

(* Between two handlers: the replica n becomes s and builds the blocks by  *)
(* which K is larger than what existed.                                    *)
LEMMA BecomeInv ==
    ASSUME DLInv, NEW n \in Node, NEW s, NEW N \in SUBSET Msg, NEW K \in SUBSET Block,
           Known \subseteq K, Closed(K),
           \A b \in K \ Known : creator[b] = n /\ b \in s.cache,
           NodeInv(s, K), Settled(s), st[n].cache \subseteq s.cache,
           \A m \in N : m.blk \in K,
           become(n, s, N)
    PROVE  DLInv'
<1> DEFINE t == [s EXCEPT !.sent = {}]
<1>1. /\ st \in [Node -> State] /\ net \in SUBSET Msg /\ up \in SUBSET Node
      /\ lost \in 0 .. MaxLost
      /\ \A m \in Node : NodeInv(st[m], Known) /\ Settled(st[m])
  BY DEF DLInv, DLTypeOK
<1>2. s \in State /\ s.cache \subseteq K /\ \A m \in s.sent : m.blk \in K
  BY DEF NodeInv, Stored, Within
<1>3. st' = [st EXCEPT ![n] = t] /\ net' = N \cup s.sent /\ up' = up /\ lost' = lost
  BY DEF become
<1>4. /\ t \in State
      /\ t.cache = s.cache /\ t.delivered = s.delivered
      /\ t.fetch_waiting = s.fetch_waiting /\ t.replicas = s.replicas
      /\ t.asked = s.asked /\ t.delivery_waiting = s.delivery_waiting
      /\ t.loaded = s.loaded /\ t.qc_missing = s.qc_missing
      /\ t.verified = s.verified /\ t.thrown = s.thrown /\ t.sent = {}
  BY <1>2 DEF State
<1> HIDE DEF t
<1>5. st'[n] = t /\ \A m \in Node \ {n} : st'[m] = st[m]
  BY <1>1, <1>3
<1>6. s.sent \in SUBSET Msg
  BY <1>2 DEF State
<1>7. DLTypeOK'
  BY <1>1, <1>3, <1>4, <1>6 DEF DLTypeOK
<1>8. Known' = K
  <2>1. Known' = {b \in Block : b \in st'[creator[b]].cache}
    BY DEF Known
  <2>2. ASSUME NEW b \in Block
        PROVE  b \in st'[creator[b]].cache <=> b \in K
    <3>1. creator[b] \in Node
      BY Links
    <3>2. CASE creator[b] = n
      <4>1. b \in Known <=> b \in st[n].cache
        BY <3>2 DEF Known
      <4>. QED BY <1>2, <1>4, <1>5, <3>2, <4>1
    <3>3. CASE creator[b] # n
      <4>1. b \in Known <=> b \in st[creator[b]].cache
        BY DEF Known
      <4>. QED BY <1>5, <3>1, <3>3, <4>1
    <3>. QED BY <3>2, <3>3
  <2>. QED BY <2>1, <2>2
<1>9. Closed(Known)'
  BY <1>8 DEF Closed
<1>10. \A m \in net' : m.blk \in Known'
  BY <1>2, <1>3, <1>8
<1>11. NodeInv(t, K) /\ Settled(t)
  BY <1>2, <1>4, SameContexts
<1>12. ASSUME NEW m \in Node
       PROVE  NodeInv(st'[m], Known') /\ Settled(st'[m])
  BY <1>1, <1>5, <1>8, <1>11, MoreBlocks
<1>13. \A m \in Node : (NodeInv(st[m], Known) /\ Settled(st[m]))'
  BY <1>12 DEF NodeInv, Stored, Sound, Contexts, Within, Served, Asked, Settled
<1>. QED BY <1>7, <1>9, <1>10, <1>13 DEF DLInv

(* The same for a handler that builds no block.                            *)
LEMMA HandlerInv ==
    ASSUME DLInv, NEW n \in Node, NEW s, NEW N \in SUBSET Msg,
           NodeInv(s, Known), Settled(s), st[n].cache \subseteq s.cache,
           \A m \in N : m.blk \in Known,
           become(n, s, N)
    PROVE  DLInv'
<1>1. Known \in SUBSET Block /\ Closed(Known)
  BY DEF Known, DLInv
<1>. QED BY <1>1, BecomeInv

(* The same for a handler that ends with what it allows to deliver.        *)
LEMMA HandledAndDelivered ==
    ASSUME DLInv, NEW n \in Node, NEW s, NEW N \in SUBSET Msg,
           NodeInv(s, Known), st[n].cache \subseteq s.cache,
           \A m \in N : m.blk \in Known,
           deliver_and_become(n, s, N)
    PROVE  DLInv'
<1> DEFINE u == on_deliver_blk(n, s)
<1>1. Known \in SUBSET Block /\ become(n, u, N)
  BY DEF Known, deliver_and_become
<1>2. NodeInv(u, Known) /\ Settled(u)
  BY <1>1, OnDeliverInv
<1>3. u.cache = s.cache
  <2>1. s \in State
    BY DEF NodeInv, Stored
  <2>. QED BY <2>1 DEF on_deliver_blk, on_receive_proposal, State
<1> HIDE DEF u
<1>. QED BY <1>1, <1>2, <1>3, HandlerInv

(* What a handler starts from.                                             *)
LEMMA BeforeHandler ==
    ASSUME DLInv, NEW n \in Node
    PROVE  /\ st[n] \in State /\ Known \in SUBSET Block /\ Closed(Known)
           /\ NodeInv(st[n], Known) /\ Settled(st[n])
           /\ Stored(st[n]) /\ Sound(st[n]) /\ Contexts(st[n])
           /\ Within(st[n], Known) /\ Served(st[n], st[n].delivery_waiting)
           /\ net \in SUBSET Msg /\ \A m \in net : m.blk \in Known
  BY DEF DLInv, DLTypeOK, NodeInv, Known

(* A block that is in storage needs no promise.                            *)
LEMMA AddToCache ==
    ASSUME NEW K \in SUBSET Block, NEW s, NodeInv(s, K), NEW b \in K
    PROVE  LET t == [s EXCEPT !.cache = @ \cup {b}]
           IN  /\ NodeInv(t, K) /\ (Settled(s) => Settled(t))
               /\ t.cache = s.cache \cup {b} /\ t.delivered = s.delivered
<1> DEFINE t == [s EXCEPT !.cache = @ \cup {b}]
<1>1. /\ s \in State
      /\ Stored(s) /\ Sound(s) /\ Contexts(s) /\ Within(s, K)
      /\ Served(s, s.delivery_waiting)
  BY DEF NodeInv, Stored
<1>2. /\ t \in State
      /\ t.cache = s.cache \cup {b} /\ t.delivered = s.delivered
      /\ t.fetch_waiting = s.fetch_waiting /\ t.replicas = s.replicas
      /\ t.asked = s.asked /\ t.delivery_waiting = s.delivery_waiting
      /\ t.loaded = s.loaded /\ t.qc_missing = s.qc_missing
      /\ t.verified = s.verified /\ t.thrown = s.thrown /\ t.sent = s.sent
  BY <1>1 DEF State
<1> HIDE DEF t
<1>3. Stored(t) /\ Sound(t)
  BY <1>1, <1>2 DEF Stored, Sound
<1>4. Contexts(t) /\ Within(t, K)
  BY <1>1, <1>2 DEF Contexts, Within
<1>5. Served(t, t.delivery_waiting)
  BY <1>1, <1>2 DEF Served, Asked
<1>6. Settled(s) => Settled(t)
  BY <1>2 DEF Settled
<1>7. NodeInv(t, K)
  BY <1>3, <1>4, <1>5 DEF NodeInv
<1>. QED BY <1>2, <1>6, <1>7 DEF t

(* Proposals of n for a block that exists.                                 *)
LEMMA Proposals ==
    ASSUME NEW n \in Node, NEW b \in Block, NEW K, b \in K,
           net \in SUBSET Msg, \A m \in net : m.blk \in K
    PROVE  LET N == net \cup {message("propose", n, m, b) : m \in Node \ {n}}
           IN  N \in SUBSET Msg /\ \A m \in N : m.blk \in K
<1> DEFINE M == {message("propose", n, m, b) : m \in Node \ {n}}
<1>1. \A m \in M : m \in Msg /\ m.blk = b
  BY MessageType
<1>. HIDE DEF M
<1>2. LET N == net \cup M IN N \in SUBSET Msg /\ \A m \in N : m.blk \in K
  BY <1>1
<1>. QED BY <1>2 DEF M

(* A new block is known to nobody else: no context waits for it, and what  *)
(* it refers to is delivered at its proposer.                              *)
LEMMA ProposeInv ==
    ASSUME DLInv, NEW n \in Node, NEW b \in Block, propose(n, b)
    PROVE  DLInv'
<1> DEFINE s == st[n]
           K == Known \cup {b}
           t == [s EXCEPT !.cache = @ \cup {b}, !.delivered = @ \cup {b}]
           N == net \cup {message("propose", n, m, b) : m \in Node \ {n}}
<1>1. /\ creator[b] = n /\ b \notin s.cache /\ b \notin Invalid
      /\ parent[b] \in s.delivered /\ qc_ref[b] \in s.delivered
      /\ become(n, t, N)
  BY DEF propose
<1>2. /\ s \in State /\ K \in SUBSET Block /\ Closed(Known)
      /\ NodeInv(s, K) /\ Settled(s)
      /\ Stored(s) /\ Sound(s) /\ Contexts(s) /\ Within(s, Known) /\ Within(s, K)
      /\ Served(s, s.delivery_waiting)
      /\ net \in SUBSET Msg /\ \A m \in net : m.blk \in K
  <2>1. NodeInv(s, K)
    BY BeforeHandler, MoreBlocks
  <2>. QED BY <2>1, BeforeHandler DEF NodeInv
<1>3. N \in SUBSET Msg /\ \A m \in N : m.blk \in K
  BY <1>2, Proposals
<1> HIDE DEF N
<1>4. /\ b # b0 /\ b \notin Known /\ parent[b] \in s.cache /\ qc_ref[b] \in s.cache
      /\ chain[b] = chain[parent[b]] \cup {b}
  BY <1>1, <1>2, Links DEF Stored, Known
<1>5. parent[b] \in Known /\ qc_ref[b] \in Known
  BY <1>2, <1>4 DEF Within
<1>6. Closed(K)
  BY <1>2, <1>4, <1>5 DEF Closed
<1>7. b \notin s.delivery_waiting
  BY <1>2, <1>4 DEF Within
<1>8. /\ t \in State
      /\ t.cache = s.cache \cup {b} /\ t.delivered = s.delivered \cup {b}
      /\ t.fetch_waiting = s.fetch_waiting /\ t.replicas = s.replicas
      /\ t.asked = s.asked /\ t.delivery_waiting = s.delivery_waiting
      /\ t.loaded = s.loaded /\ t.qc_missing = s.qc_missing
      /\ t.verified = s.verified /\ t.thrown = s.thrown /\ t.sent = s.sent
  BY <1>2 DEF State
<1> HIDE DEF t, K
<1>9. Stored(t)
  BY <1>2, <1>8 DEF Stored
<1>10. Sound(t)
  <2>1. chain[parent[b]] \subseteq s.delivered /\ chain[parent[b]] \cap Invalid = {}
    BY <1>1, <1>2 DEF Sound
  <2>2. ASSUME NEW c \in t.delivered
        PROVE  /\ chain[c] \subseteq t.delivered /\ chain[c] \cap Invalid = {}
               /\ qc_ref[c] \in t.cache
    BY <1>1, <1>2, <1>4, <1>8, <2>1 DEF Sound
  <2>. QED BY <2>2 DEF Sound
<1>11. Contexts(t)
  BY <1>2, <1>8 DEF Contexts
<1>12. Within(t, K)
  BY <1>2, <1>8 DEF Within, K
<1>13. Served(t, t.delivery_waiting)
  BY <1>2, <1>7, <1>8 DEF Served, Asked
<1>14. Settled(t)
  BY <1>2, <1>8 DEF Settled
<1>15. NodeInv(t, K)
  BY <1>9, <1>10, <1>11, <1>12, <1>13 DEF NodeInv
<1>16. \A c \in K \ Known : creator[c] = n /\ c \in t.cache
  BY <1>1, <1>8 DEF K
<1>17. Known \subseteq K /\ s.cache \subseteq t.cache
  BY <1>8 DEF K
<1>. QED BY <1>1, <1>2, <1>3, <1>6, <1>14, <1>15, <1>16, <1>17, BecomeInv

(* A block with an invalid certificate is stored and sent, not delivered.  *)
LEMMA ProposeInvalidInv ==
    ASSUME DLInv, NEW n \in Node, NEW b \in Block, propose_invalid(n, b)
    PROVE  DLInv'
<1> DEFINE s == st[n]
           K == Known \cup {b}
           t == [s EXCEPT !.cache = @ \cup {b}]
           N == net \cup {message("propose", n, m, b) : m \in Node \ {n}}
<1>1. /\ creator[b] = n /\ b \notin s.cache /\ b \in Invalid
      /\ parent[b] \in Known /\ qc_ref[b] \in Known
      /\ become(n, t, N)
  BY Links DEF propose_invalid, Known
<1>2. K \in SUBSET Block /\ Closed(Known)
      /\ NodeInv(s, K) /\ Settled(s)
      /\ net \in SUBSET Msg /\ \A m \in net : m.blk \in K
  BY BeforeHandler, MoreBlocks
<1>3. N \in SUBSET Msg /\ \A m \in N : m.blk \in K
  BY <1>2, Proposals
<1> HIDE DEF N
<1>4. chain[b] = chain[parent[b]] \cup {b}
  BY <1>1, Links
<1>5. Closed(K)
  BY <1>1, <1>2, <1>4 DEF Closed
<1>6. b \in K
  OBVIOUS
<1> HIDE DEF K
<1>7. NodeInv(t, K) /\ Settled(t) /\ t.cache = s.cache \cup {b}
  BY <1>2, <1>6, AddToCache
<1> HIDE DEF t
<1>8. \A c \in K \ Known : creator[c] = n /\ c \in t.cache
  BY <1>1, <1>7 DEF K
<1>9. Known \subseteq K /\ s.cache \subseteq t.cache
  BY <1>7 DEF K
<1>. QED BY <1>1, <1>2, <1>3, <1>5, <1>7, <1>8, <1>9, BecomeInv

(* A proposal is handled at once when its block is delivered, else the     *)
(* delivery of the block starts.                                           *)
LEMMA ProposeHandlerInv ==
    ASSUME DLInv, NEW n \in Node, NEW m \in net, propose_handler(n, m)
    PROVE  DLInv'
<1> DEFINE b == m.blk
           s == [st[n] EXCEPT !.cache = @ \cup {b}]
           t == [s EXCEPT !.held = @ \cup {b}]
           u == async_deliver_blk(n, t, b, m.from)
<1>1. /\ Known \in SUBSET Block /\ Closed(Known) /\ b \in Known /\ b \in Block
      /\ m.from \in Node /\ NodeInv(st[n], Known) /\ Settled(st[n])
      /\ net \ {m} \in SUBSET Msg /\ \A x \in net \ {m} : x.blk \in Known
  BY BeforeHandler DEF Msg
<1>2. /\ NodeInv(s, Known) /\ Settled(s)
      /\ s.cache = st[n].cache \cup {b} /\ s.delivered = st[n].delivered
  BY <1>1, AddToCache
<1>3. IF b \in s.delivered
      THEN become(n, on_receive_proposal(n, s, {b}), net \ {m})
      ELSE deliver_and_become(n, u, net \ {m})
  BY DEF propose_handler
<1>4. s \in State
  BY <1>2 DEF NodeInv, Stored
<1> HIDE DEF b
<1>5. CASE b \in s.delivered
  <2> DEFINE v == on_receive_proposal(n, s, {b})
  <2>1. NodeInv(v, Known) /\ Settled(v)
    BY <1>1, <1>2, ReceiveInv
  <2>2. v.cache = s.cache
    BY <1>4 DEF on_receive_proposal, State
  <2> HIDE DEF v
  <2>3. become(n, v, net \ {m})
    BY <1>3, <1>5 DEF v
  <2>. QED BY <1>1, <1>2, <2>1, <2>2, <2>3, HandlerInv
<1>6. CASE b \notin s.delivered
  <2> HIDE DEF s
  <2>1. /\ t \in State
        /\ t.cache = s.cache /\ t.delivered = s.delivered
        /\ t.fetch_waiting = s.fetch_waiting /\ t.replicas = s.replicas
        /\ t.asked = s.asked /\ t.delivery_waiting = s.delivery_waiting
        /\ t.loaded = s.loaded /\ t.qc_missing = s.qc_missing
        /\ t.thrown = s.thrown /\ t.sent = s.sent
    BY <1>1, <1>4 DEF State
  <2> HIDE DEF t
  <2>2. \A x \in t.sent : x.blk \in Known
    BY <1>2, <2>1 DEF NodeInv, Within
  <2>3. NodeInv(t, Known)
    BY <1>2, <2>1, <2>2, SameContexts
  <2>4. NodeInv(u, Known)
    BY <1>1, <2>3, AsyncDeliverInv
  <2> DEFINE V == undelivered(t, b)
  <2>5. u.cache = t.cache
    <3>1. V \in SUBSET Block
      BY <1>1, Links DEF undelivered
    <3>2. u = deliver(n, t, V, m.from)
      BY DEF async_deliver_blk
    <3> HIDE DEF V, u
    <3>. QED BY <1>1, <2>1, <3>1, <3>2, DeliverFields
  <2>6. deliver_and_become(n, u, net \ {m})
    BY <1>3, <1>6
  <2> HIDE DEF u
  <2>. QED BY <1>1, <1>2, <2>1, <2>4, <2>5, <2>6, HandledAndDelivered
<1>. QED BY <1>5, <1>6

(* A vote starts the delivery of its block.                                *)
LEMMA VoteHandlerInv ==
    ASSUME DLInv, NEW n \in Node, NEW m \in net, vote_handler(n, m)
    PROVE  DLInv'
<1> DEFINE u == async_deliver_blk(n, st[n], m.blk, m.from)
           V == undelivered(st[n], m.blk)
<1>1. /\ Known \in SUBSET Block /\ Closed(Known) /\ m.blk \in Known /\ m.blk \in Block
      /\ m.from \in Node /\ NodeInv(st[n], Known) /\ st[n] \in State
      /\ net \ {m} \in SUBSET Msg /\ \A x \in net \ {m} : x.blk \in Known
  BY BeforeHandler DEF Msg
<1>2. NodeInv(u, Known)
  BY <1>1, AsyncDeliverInv
<1>3. V \in SUBSET Block
  BY <1>1, Links DEF undelivered
<1>4. deliver_and_become(n, u, net \ {m}) /\ u = deliver(n, st[n], V, m.from)
  BY DEF vote_handler, async_deliver_blk
<1> HIDE DEF u, V
<1>5. u.cache = st[n].cache
  BY <1>1, <1>3, <1>4, DeliverFields
<1>. QED BY <1>1, <1>2, <1>4, <1>5, HandledAndDelivered

(* A request is answered, or a context without replicas remembers it.      *)
LEMMA ReqHandlerInv ==
    ASSUME DLInv, NEW n \in Node, NEW m \in net, req_blk_handler(n, m)
    PROVE  DLInv'
<1> DEFINE b == m.blk
           s == st[n]
           u == [s EXCEPT !.sent = {message("resp", n, m.from, b)}]
           t == [s EXCEPT !.fetch_waiting = @ \cup {b}, !.asked = @ \cup {<<m.from, b>>}]
<1>1. /\ Known \in SUBSET Block /\ b \in Known /\ b \in Block
      /\ m.from \in Node /\ NodeInv(s, Known) /\ Settled(s) /\ s \in State
      /\ Stored(s) /\ Sound(s) /\ Contexts(s) /\ Within(s, Known)
      /\ Served(s, s.delivery_waiting)
      /\ net \ {m} \in SUBSET Msg /\ \A x \in net \ {m} : x.blk \in Known
  BY BeforeHandler DEF Msg
<1>2. become(n, IF b \in s.cache THEN u ELSE t, net \ {m})
  BY DEF req_blk_handler
<1> HIDE DEF b, s
<1>3. CASE b \in s.cache
  <2>1. message("resp", n, m.from, b) \in Msg /\ message("resp", n, m.from, b).blk = b
    BY <1>1, MessageType
  <2>2. /\ u \in State
        /\ u.cache = s.cache /\ u.delivered = s.delivered
        /\ u.fetch_waiting = s.fetch_waiting /\ u.replicas = s.replicas
        /\ u.asked = s.asked /\ u.delivery_waiting = s.delivery_waiting
        /\ u.loaded = s.loaded /\ u.qc_missing = s.qc_missing
        /\ u.verified = s.verified /\ u.thrown = s.thrown
        /\ \A x \in u.sent : x.blk \in Known
    BY <1>1, <2>1 DEF State
  <2> HIDE DEF u
  <2>3. NodeInv(u, Known) /\ Settled(u)
    BY <1>1, <2>2, SameContexts
  <2>4. become(n, u, net \ {m})
    BY <1>2, <1>3
  <2>. QED BY <1>1, <2>2, <2>3, <2>4, HandlerInv DEF s
<1>4. CASE b \notin s.cache
  <2> DEFINE A == s.asked \cup {<<m.from, b>>}
  <2>0. A \in SUBSET (Node \X Block) /\ t = [s EXCEPT !.fetch_waiting = @ \cup {b}, !.asked = A]
    BY <1>1 DEF State
  <2> HIDE DEF A, t
  <2>1. /\ t \in State
        /\ t.cache = s.cache /\ t.delivered = s.delivered
        /\ t.fetch_waiting = s.fetch_waiting \cup {b} /\ t.replicas = s.replicas
        /\ t.asked = A
        /\ t.delivery_waiting = s.delivery_waiting
        /\ t.loaded = s.loaded /\ t.qc_missing = s.qc_missing
        /\ t.verified = s.verified /\ t.thrown = s.thrown /\ t.sent = s.sent
    BY <1>1, <2>0 DEF State
  <2>2. Stored(t) /\ Sound(t)
    BY <1>1, <2>1 DEF Stored, Sound
  <2>3. Contexts(t) /\ Within(t, Known)
    BY <1>1, <2>1 DEF Contexts, Within, A
  <2>4. Served(t, t.delivery_waiting)
    BY <1>1, <2>1 DEF Served, Asked
  <2>5. NodeInv(t, Known) /\ Settled(t)
    BY <1>1, <2>1, <2>2, <2>3, <2>4 DEF NodeInv, Settled
  <2>6. become(n, t, net \ {m})
    BY <1>2, <1>4
  <2>. QED BY <1>1, <2>1, <2>5, <2>6, HandlerInv DEF s
<1>. QED BY <1>3, <1>4

(* An answer resolves what waited for its block.                           *)
LEMMA RespHandlerInv ==
    ASSUME DLInv, NEW n \in Node, NEW m \in net, resp_blk_handler(n, m)
    PROVE  DLInv'
<1> DEFINE b == m.blk
           s == [st[n] EXCEPT !.cache = @ \cup {b}]
           u == on_fetch_blk(n, s, b)
<1>1. /\ Known \in SUBSET Block /\ Closed(Known) /\ b \in Known /\ b \in Block
      /\ NodeInv(st[n], Known)
      /\ net \ {m} \in SUBSET Msg /\ \A x \in net \ {m} : x.blk \in Known
  BY BeforeHandler DEF Msg
<1>2. NodeInv(s, Known) /\ s.cache = st[n].cache \cup {b}
  BY <1>1, AddToCache
<1>3. deliver_and_become(n, u, net \ {m})
  BY DEF resp_blk_handler
<1> HIDE DEF b, s
<1>4. NodeInv(u, Known) /\ u.cache = s.cache
  BY <1>1, <1>2, FetchInv
<1> HIDE DEF u
<1>. QED BY <1>1, <1>2, <1>3, <1>4, HandledAndDelivered

(* An answer of the VeriPool lets deliveries end.                          *)
LEMMA VerifyInv ==
    ASSUME DLInv, NEW n \in Node, NEW b \in Block, verify(n, b)
    PROVE  DLInv'
<1> DEFINE s == st[n]
           t == [s EXCEPT !.verified = @ \cup {b}]
<1>1. /\ Known \in SUBSET Block /\ NodeInv(s, Known) /\ s \in State
      /\ net \in SUBSET Msg /\ \A x \in net : x.blk \in Known
      /\ \A x \in s.sent : x.blk \in Known
  BY BeforeHandler DEF Within
<1>2. deliver_and_become(n, t, net)
  BY DEF verify
<1> HIDE DEF s
<1>3. /\ t \in State
      /\ t.cache = s.cache /\ t.delivered = s.delivered
      /\ t.fetch_waiting = s.fetch_waiting /\ t.replicas = s.replicas
      /\ t.asked = s.asked /\ t.delivery_waiting = s.delivery_waiting
      /\ t.loaded = s.loaded /\ t.qc_missing = s.qc_missing
      /\ t.thrown = s.thrown /\ t.sent = s.sent
  BY <1>1 DEF State
<1> HIDE DEF t
<1>4. NodeInv(t, Known)
  BY <1>1, <1>3, SameContexts
<1>. QED BY <1>1, <1>2, <1>3, <1>4, HandledAndDelivered DEF s

(* A time-out asks again for a block that exists.                          *)
LEMMA TimeoutInv ==
    ASSUME DLInv, NEW n \in Node, NEW b \in Block, timeout(n, b)
    PROVE  DLInv'
<1> DEFINE M == {message("req", n, p, b) : p \in st[n].replicas[b]}
<1>1. /\ NodeInv(st[n], Known) /\ Settled(st[n]) /\ st[n] \in State
      /\ net \in SUBSET Msg /\ \A x \in net : x.blk \in Known
      /\ Within(st[n], Known)
  BY BeforeHandler
<1>2. b \in Known /\ become(n, st[n], net \cup M)
  BY <1>1 DEF timeout, Within
<1>3. M \in SUBSET Msg /\ \A x \in M : x.blk = b
  <2>1. SUFFICES ASSUME NEW p \in st[n].replicas[b]
                 PROVE  /\ message("req", n, p, b) \in Msg
                        /\ message("req", n, p, b).blk = b
    OBVIOUS
  <2>2. p \in Node
    BY <1>1 DEF State
  <2>. QED BY <2>2, MessageType
<1> HIDE DEF M
<1>4. net \cup M \in SUBSET Msg /\ \A x \in net \cup M : x.blk \in Known
  BY <1>1, <1>2, <1>3
<1>. QED BY <1>1, <1>2, <1>4, HandlerInv

(* A lost message and a crash change the state of no replica.              *)
LEMMA SameStates ==
    ASSUME DLInv, st' = st, net' \subseteq net, up' \subseteq up, lost' \in 0 .. MaxLost
    PROVE  DLInv'
<1>1. DLTypeOK'
  BY DEF DLInv, DLTypeOK
<1>2. Known' = Known
  BY DEF Known
<1>3. Closed(Known)'
  BY <1>2 DEF DLInv, Closed
<1>4. \A m \in net' : m.blk \in Known'
  BY <1>2 DEF DLInv
<1>5. \A n \in Node : (NodeInv(st[n], Known) /\ Settled(st[n]))'
  BY <1>2 DEF DLInv, NodeInv, Stored, Sound, Contexts, Within, Served, Asked, Settled
<1>. QED BY <1>1, <1>3, <1>4, <1>5 DEF DLInv

(* At the start every replica has the genesis block and waits for nothing. *)
LEMMA InitInv ==
    DLInit => DLInv
<1> SUFFICES ASSUME DLInit PROVE DLInv
  OBVIOUS
<1>1. /\ b0 \in Block /\ chain[b0] = {b0} /\ qc_ref[b0] = b0 /\ b0 \notin Invalid
      /\ creator \in [Block -> Node] /\ MaxLost \in Nat
  BY TreeType, DeliveryAssumption
<1>2. ASSUME NEW n \in Node
      PROVE  /\ st[n] \in State
             /\ st[n].cache = {b0} /\ st[n].delivered = {b0}
             /\ st[n].fetch_waiting = {} /\ st[n].asked = {}
             /\ st[n].delivery_waiting = {} /\ st[n].loaded = {}
             /\ st[n].qc_missing = {} /\ st[n].sent = {} /\ st[n].thrown = FALSE
             /\ \A b \in Block : st[n].replicas[b] = {}
  <2> DEFINE R == [b \in Block |-> {}]
             S == [b \in Block |-> n]
  <2>1. /\ R \in [Block -> SUBSET Node] /\ S \in [Block -> Node]
        /\ \A b \in Block : R[b] = {}
    OBVIOUS
  <2>2. st[n] = [ cache |-> {b0}, delivered |-> {b0}, fetch_waiting |-> {},
                  replicas |-> R, asked |-> {},
                  delivery_waiting |-> {}, source |-> S,
                  loaded |-> {}, qc_missing |-> {}, verified |-> {},
                  held |-> {}, handled |-> {}, sent |-> {}, thrown |-> FALSE ]
    BY DEF DLInit
  <2> HIDE DEF R, S
  <2>. QED BY <1>1, <2>1, <2>2 DEF State
<1>3. st \in [Node -> State]
  <2>1. st = [n \in Node |-> st[n]]
    BY DEF DLInit
  <2>. QED BY <1>2, <2>1
<1>4. DLTypeOK
  <2>1. net = {} /\ up = Node /\ lost = 0
    BY DEF DLInit
  <2>. QED BY <1>1, <1>3, <2>1 DEF DLTypeOK
<1>5. Known = {b0}
  <2>1. \A b \in Block : st[creator[b]].cache = {b0}
    BY <1>1, <1>2
  <2>. QED BY <1>1, <2>1 DEF Known
<1>6. Closed(Known) /\ \A m \in net : m.blk \in Known
  <2>1. net = {}
    BY DEF DLInit
  <2>. QED BY <1>1, <1>5, <2>1 DEF Closed
<1>7. ASSUME NEW n \in Node
      PROVE  NodeInv(st[n], Known) /\ Settled(st[n])
  <2>1. Stored(st[n])
    BY <1>2 DEF Stored
  <2>2. Sound(st[n])
    <3>1. st[n].delivered = {b0} /\ st[n].cache = {b0}
      BY <1>2
    <3>2. {b0} \cap Invalid = {}
      BY <1>1
    <3>. QED BY <1>1, <3>1, <3>2 DEF Sound
  <2>3. Contexts(st[n]) /\ Within(st[n], Known)
    BY <1>2, <1>5 DEF Contexts, Within
  <2>4. Served(st[n], st[n].delivery_waiting) /\ Settled(st[n])
    BY <1>2 DEF Served, Settled
  <2>. QED BY <2>1, <2>2, <2>3, <2>4 DEF NodeInv
<1>. QED BY <1>4, <1>6, <1>7 DEF DLInv

(* Every handler keeps the invariant.                                      *)
LEMMA NextInv ==
    DLInv /\ [DLNext]_dl_vars => DLInv'
<1> SUFFICES ASSUME DLInv, [DLNext]_dl_vars PROVE DLInv'
  OBVIOUS
<1>0. up \subseteq Node /\ lost \in 0 .. MaxLost /\ MaxLost \in Nat
  BY DeliveryAssumption DEF DLInv, DLTypeOK
<1>1. ASSUME NEW m \in net, lose(m) PROVE DLInv'
  <2>1. up' = up
    BY <1>1 DEF lose
  <2>2. lost' \in 0 .. MaxLost
    BY <1>0, <1>1 DEF lose
  <2>3. st' = st /\ net' \subseteq net
    BY <1>1 DEF lose
  <2>. QED BY <2>1, <2>2, <2>3, SameStates
<1>2. ASSUME NEW n \in Node, crash(n) PROVE DLInv'
  BY <1>0, <1>2, SameStates DEF crash
<1>3. CASE UNCHANGED dl_vars
  BY <1>0, <1>3, SameStates DEF dl_vars
<1>. QED BY <1>1, <1>2, <1>3, ProposeInv, ProposeInvalidInv, VerifyInv, TimeoutInv,
            ProposeHandlerInv, VoteHandlerInv, ReqHandlerInv, RespHandlerInv DEF DLNext

-----------------------------------------------------------------------------
(* What the replicas, their contexts and the messages on the way have in   *)
(* common holds after every handler, in whatever order blocks, answers,    *)
(* time-outs and results of the VeriPool come, whatever is lost and        *)
(* whoever stops.                                                          *)
THEOREM DeliverySpecInv == DLSpec => []DLInv
  BY InitInv, NextInv, PTL DEF DLSpec

(* HotStuffCore::on_deliver_blk throws neither "block not delivered" nor   *)
(* "block referred by qc not fetched", nor refuses a block as delivered.   *)
THEOREM DeliveryNeverThrown == DLSpec => []NeverThrown
<1>1. DLInv => NeverThrown
  BY DEF DLInv, NodeInv, Stored, NeverThrown
<1>. QED BY <1>1, DeliverySpecInv, PTL

(* What on_deliver_blk delivers extends delivered blocks, was built by its *)
(* proposer, and no certificate on the way to the genesis block failed.    *)
THEOREM DeliveryIsSound == DLSpec => []DeliveredIsSound
<1>1. ASSUME DLInv PROVE DeliveredIsSound
  <2>1. SUFFICES ASSUME NEW n \in Node, NEW b \in st[n].delivered
                 PROVE  /\ chain[b] \subseteq st[n].delivered
                        /\ chain[b] \cap Invalid = {}
                        /\ qc_ref[b] \in st[n].cache
                        /\ b \in st[creator[b]].cache
    BY DEF DeliveredIsSound
  <2>2. Stored(st[n]) /\ Sound(st[n]) /\ Within(st[n], Known)
    BY <1>1, BeforeHandler
  <2>3. b \in Known
    BY <2>2 DEF Stored, Within
  <2>. QED BY <2>2, <2>3 DEF Sound, Known
<1>. QED BY <1>1, DeliverySpecInv, PTL

(* No context of async_fetch_blk and async_deliver_blk waits for a promise *)
(* that nobody is going to resolve, but for certificates that failed.      *)
THEOREM DeliveryWaitsAreServed == DLSpec => []WaitsAreServed
<1>1. ASSUME DLInv PROVE WaitsAreServed
  <2>1. DLTypeOK
    BY <1>1 DEF DLInv
  <2>2. \A n \in Node : \A b \in Block :
            st[n].replicas[b] # {} => b \in st[n].fetch_waiting
    BY <1>1, BeforeHandler DEF Contexts
  <2>3. ASSUME NEW n \in Node, NEW b \in st[n].delivery_waiting
        PROVE  LET s == st[n]
               IN  \/ b \notin s.loaded /\ b \in s.fetch_waiting /\ s.replicas[b] # {}
                   \/ b \in s.qc_missing /\ qc_ref[b] \in s.fetch_waiting
                                         /\ s.replicas[qc_ref[b]] # {}
                   \/ b \in s.loaded \ s.verified
                   \/ b \in Invalid
                   \/ b \in s.loaded /\ parent[b] \in s.delivery_waiting
    BY <1>1, BeforeHandler DEF Served, Asked, Settled
  <2>. QED BY <2>1, <2>2, <2>3 DEF WaitsAreServed
<1>. QED BY <1>1, DeliverySpecInv, PTL
=============================================================================
