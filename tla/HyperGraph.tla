----------------------------- MODULE HyperGraph -----------------------------
(***************************************************************************)
(* How the leader orders a round: HyperGraph::finalize of flashorder.h.    *)
(* The local orders are counted into pairwise preferences; a command's     *)
(* canonical position is the number of commands that enough replicas put   *)
(* before it; commands at close positions form a cluster (a hyperedge),    *)
(* which is ordered by net score; the clusters are ordered topologically   *)
(* by the preferences between them.                                        *)
(*                                                                         *)
(* A behaviour is one round.  Where std::sort may leave equal elements in  *)
(* any order, the result is any of several.                                *)
(***************************************************************************)
EXTENDS Integers, FiniteSets, Sequences, SequencesExt

CONSTANTS
    Command,
    n_nodes,          \* config.nreplicas
    slack,            \* (int)(n_nodes * (1 - gamma)): 0 by default
    max_number_cmds,  \* the template parameter, 10000 in flashorder_propose
    Delta,            \* the values of compute_delta, which reads the clock
    Rounds            \* the lists a round may start with: a set of sequences

nfaulty == (n_nodes - 1) \div 3

OrderedList == [cmds: Seq(Command), timestamps: Seq(Nat)]

(* collect_ordered_lists takes at most one list of each replica.           *)
ASSUME HyperGraphAssumption ==
    /\ n_nodes \in Nat \ {0} /\ slack \in 0 .. n_nodes
    /\ max_number_cmds \in Nat \ {0} /\ Delta \subseteq 1 .. 100
    /\ \A R \in Rounds : R \in Seq(OrderedList) /\ Len(R) \in 1 .. n_nodes

VARIABLES
    orderedlists,   \* the local orders: their cmds and timestamps
    delta,
    done,
    order           \* what finalize returned when it is done

hg_vars == <<orderedlists, delta, done, order>>

HGInit ==
    /\ orderedlists \in Rounds /\ delta \in Delta
    /\ done = FALSE /\ order = <<>>

-----------------------------------------------------------------------------
Perms(n) == {p \in [1 .. n -> 1 .. n] : \A i, j \in 1 .. n : i # j => p[i] # p[j]}

ascending(s) == \A i, j \in DOMAIN s : i < j => s[i] <= s[j]

(* sort_cmds, unless the timestamps are sorted: what a list may become.    *)
sort_cmds(l) ==
    IF Len(l.cmds) # Len(l.timestamps) \/ ascending(l.timestamps) THEN {l.cmds}
    ELSE {[i \in DOMAIN p |-> l.cmds[p[i]]] :
            p \in {q \in Perms(Len(l.cmds)) :
                     ascending([i \in DOMAIN q |-> l.timestamps[q[i]]])}}

readings(R) ==
    {L \in [DOMAIN R -> UNION {sort_cmds(R[i]) : i \in DOMAIN R}] :
        \A i \in DOMAIN R : L[i] \in sort_cmds(R[i])}

(* The commands stand at places <<list, index>>.                           *)
places(L) == UNION {{r} \X DOMAIN L[r] : r \in DOMAIN L}

met_before(L, x) ==
    {L[y[1]][y[2]] :
        y \in {z \in places(L) : z[1] < x[1] \/ (z[1] = x[1] /\ z[2] < x[2])}}

(* The commands that get an id: the first max_number_cmds to be met.       *)
known(L) ==
    {L[x[1]][x[2]] :
        x \in {y \in places(L) : Cardinality(met_before(L, y)) < max_number_cmds}}

at(L, A) == {x \in places(L) : L[x[1]][x[2]] \in A}

(* pref: how often a command of A stands before one of B in one list, over *)
(* all lists.  The code keeps the numbers of single commands and adds up.  *)
pref(L, A, B) ==
    Cardinality({x \in at(L, A) \X at(L, B) : x[1][1] = x[2][1] /\ x[1][2] < x[2][2]})

(* Mutant: what f replicas say is enough.                                  *)
threshold_of_f == IF slack + nfaulty > 1 THEN slack + nfaulty ELSE 1

threshold == slack + nfaulty + 1

canonical_pos(L, C) ==
    [tx \in C |-> Cardinality({o \in C \ {tx} : pref(L, {o}, {tx}) >= threshold})]

(* A cluster starts at a position that is delta or more above the last.    *)
starts(pos) ==
    {pos[c] : c \in {d \in DOMAIN pos :
        \A e \in DOMAIN pos : pos[e] < pos[d] => pos[d] - pos[e] >= delta}}

(* The k-th cluster goes from the k-th start to before the next one.       *)
detect_clusters(pos) ==
    LET begin == starts(pos)
    IN  [k \in 1 .. Cardinality(begin) |->
            {c \in DOMAIN pos : Cardinality({v \in begin : v <= pos[c]}) = k}]

net(L, C, m) == pref(L, {m}, C \ {m}) - pref(L, C \ {m}, {m})

(* Mutant: the lowest score first.                                         *)
internal_orders_reversed(L, C) ==
    {s \in SetToSeqs(C) : \A i, j \in DOMAIN s :
        i < j => net(L, C, s[i]) <= net(L, C, s[j])}

(* The orders of a cluster: by net score, equal ones in any order.         *)
internal_orders(L, C) ==
    LET score == [m \in C |-> net(L, C, m)]
    IN  {s \in SetToSeqs(C) : \A i, j \in DOMAIN s :
            i < j => score[s[i]] >= score[s[j]]}

(* s_ij > margin * s_ji, the margin being 1.2.                             *)
before(L, C, D) == 5 * pref(L, C, D) > 6 * pref(L, D, C)

(* The edges between the clusters S.                                       *)
he_adj(L, S) ==
    {e \in (DOMAIN S) \X (DOMAIN S) : e[1] # e[2] /\ before(L, S[e[1]], S[e[2]])}

-----------------------------------------------------------------------------
(* The numbers of a finite set, from the lowest on.                        *)
in_order(N) ==
    [k \in 1 .. Cardinality(N) |->
        CHOOSE x \in N : Cardinality({y \in N : y <= x}) = k]

(* The clusters that are queued when the n-th one of w is taken: the last  *)
(* edge into them goes.                                                    *)
freed(E, w, n) ==
    {e[2] : e \in {d \in E : d[1] = w[n] /\ \A f \in E :
                                f[2] = d[2] => \E i \in 1 .. n : w[i] = f[1]}}

take(E, w, n) == IF n > Len(w) THEN w ELSE w \o in_order(freed(E, w, n))

(* The loop of topological_sort: what has been in the queue when n of the  *)
(* H clusters have been taken, E being the edges.                          *)
queued(E, H) ==
    LET w[n \in 0 .. H] ==
          IF n = 0 THEN in_order({i \in 1 .. H : \A e \in E : e[2] # i})
          ELSE take(E, w[n - 1], n)
    IN  w

(* Mutant: the clusters on cycles are left out.                            *)
topological_sort_acyclic(E, H) == queued(E, H)[H]

(* Mutant: the clusters stay in the order of the positions.                *)
topological_sort_by_index(E, H) == [i \in 1 .. H |-> i]

topological_sort(E, H) ==
    LET sorted == queued(E, H)[H]
    IN  sorted \o in_order((1 .. H) \ ToSet(sorted))

appended(A, L, C) == UNION {{a \o s : s \in internal_orders(L, C)} : a \in A}

(* The internal orders of the first clusters of T, one after the other.    *)
joined(L, S, T) ==
    LET front[k \in 0 .. Len(T)] ==
          IF k = 0 THEN {<<>>} ELSE appended(front[k - 1], L, S[T[k]])
    IN  front

clusters(L) == detect_clusters(canonical_pos(L, known(L)))

(* finalize, once the lists are read as L.                                 *)
results(L) ==
    LET S == clusters(L)
        T == topological_sort(he_adj(L, S), Len(S))
    IN  joined(L, S, T)[Len(T)]

finalize ==
    /\ ~done /\ done' = TRUE
    /\ \E L \in readings(orderedlists) : order' \in results(L)
    /\ UNCHANGED <<orderedlists, delta>>

HGSpec == HGInit /\ [][finalize]_hg_vars

-----------------------------------------------------------------------------
(* Properties *)

Lists == DOMAIN orderedlists

Before(a, b, s) == \E i, j \in DOMAIN s : i < j /\ s[i] = a /\ s[j] = b

(* The round loses no command that got an id and repeats none, whatever    *)
(* the clusters and the cycles between them: all that FlashOrderPipeline   *)
(* uses of the order.                                                      *)
EachOnce ==
    done => \E L \in readings(orderedlists) : order \in SetToSeqs(known(L))

(* When all replicas saw the same commands in the same order, by their     *)
(* timestamps and not by the order they sent, this is the order.           *)
SameOrderIsKept ==
    done =>
        \A s \in sort_cmds(orderedlists[1]) :
            /\ \A i \in Lists : sort_cmds(orderedlists[i]) = {s}
            /\ Cardinality(ToSet(s)) = Len(s)
            /\ Len(s) <= max_number_cmds
            => order = s

(* s is what all but nfaulty replicas of the system saw.                   *)
SeenByMost(s) ==
    /\ Cardinality({i \in Lists : sort_cmds(orderedlists[i]) = {s}}) >= n_nodes - nfaulty
    /\ Cardinality(ToSet(s)) = Len(s)
    /\ Len(s) <= max_number_cmds
    /\ \A i \in Lists : ToSet(orderedlists[i].cmds) \subseteq ToSet(s)

(* Without clustering (delta = 1) nfaulty replicas cannot change an order  *)
(* that all the others saw, as long as they repeat no command: each place  *)
(* counts, and a list with repetitions as much as those of many replicas.  *)
MostOrderIsKept ==
    done /\ delta = 1 =>
        \A i \in Lists : \A s \in sort_cmds(orderedlists[i]) :
            /\ SeenByMost(s)
            /\ \A j \in Lists : IsInjective(orderedlists[j].cmds)
            => order = s

(* The preferences between clusters are respected: unless they form a      *)
(* cycle somewhere, no edge points backwards in the order.                 *)
DependenciesRespected ==
    done =>
        \E L \in readings(orderedlists) :
            LET S == clusters(L)
                E == he_adj(L, S)
            IN  /\ order \in SetToSeqs(known(L))
                /\ (\A T \in (SUBSET DOMAIN S) \ {{}} :
                        \E v \in T : \A u \in T : <<u, v>> \notin E) =>
                     \A e \in E : \A a \in S[e[1]], b \in S[e[2]] : Before(a, b, order)
=============================================================================
