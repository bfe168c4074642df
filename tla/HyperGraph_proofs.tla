-------------------------- MODULE HyperGraph_proofs --------------------------
(***************************************************************************)
(* What finalize returns for any round, any number of commands, clusters   *)
(* and replicas, any delta and threshold.                                  *)
(***************************************************************************)
EXTENDS HyperGraph, FiniteSetTheorems, SequenceTheorems, WellFoundedInduction, TLAPS

-----------------------------------------------------------------------------
(* Induction, with sets for the properties.                                *)
LEMMA MinNat ==
    ASSUME NEW S \in SUBSET Nat, S # {}
    PROVE  \E m \in S : \A k \in S : m <= k
<1>1. PICK m \in S : \A k \in S : ~(<<k, m>> \in OpToRel(<, Nat))
  BY NatLessThanWellFounded, WFMin
<1>2. \A k \in S : ~(k < m)
  BY <1>1 DEF OpToRel
<1>. QED BY <1>2

LEMMA UpTo ==
    ASSUME NEW H \in Nat, NEW G, 0 \in G,
           \A n \in 1 .. H : n - 1 \in G => n \in G
    PROVE  \A n \in 0 .. H : n \in G
<1> DEFINE B == {n \in 0 .. H : n \notin G}
<1>1. SUFFICES ASSUME B # {} PROVE FALSE
  OBVIOUS
<1>2. PICK m \in B : \A k \in B : m <= k
  <2>1. B \in SUBSET Nat
    OBVIOUS
  <2> HIDE DEF B
  <2>. QED BY <1>1, <2>1, MinNat
<1>3. m \in 1 .. H /\ m - 1 \in 0 .. H /\ m - 1 \notin B
  BY <1>2
<1>. QED BY <1>2, <1>3

(* The states of a loop of H rounds.                                       *)
Runs(g, H, X, a, G) ==
    /\ g \in [0 .. H -> X] /\ g[0] = a
    /\ \A n \in 1 .. H : g[n] = G[<<n, g[n - 1]>>]

LEMMA LoopExists ==
    ASSUME NEW H \in Nat, NEW X, NEW a \in X, NEW G \in [(1 .. H) \X X -> X]
    PROVE  \E g : Runs(g, H, X, a, G)
<1> DEFINE A == {k \in 0 .. H : \E g : Runs(g, k, X, a, G)}
<1>1. 0 \in A
  <2>1. Runs([i \in 0 .. 0 |-> a], 0, X, a, G)
    BY DEF Runs
  <2>. QED BY <2>1
<1>2. ASSUME NEW k \in 1 .. H, k - 1 \in A PROVE k \in A
  <2>1. PICK g : Runs(g, k - 1, X, a, G)
    BY <1>2
  <2> DEFINE b == G[<<k, g[k - 1]>>]
             f == [n \in 0 .. k |-> IF n = k THEN b ELSE g[n]]
  <2>2. g \in [0 .. k - 1 -> X] /\ g[k - 1] \in X /\ b \in X
    BY <2>1 DEF Runs
  <2> HIDE DEF b
  <2>3. f \in [0 .. k -> X] /\ f[0] = a /\ f[k] = b /\ \A n \in 0 .. k - 1 : f[n] = g[n]
    BY <2>1, <2>2 DEF Runs
  <2> HIDE DEF f
  <2>4. \A n \in 1 .. k : f[n] = G[<<n, f[n - 1]>>]
    <3>1. ASSUME NEW n \in 1 .. k PROVE f[n] = G[<<n, f[n - 1]>>]
      <4>1. n - 1 \in 0 .. k - 1 /\ f[n - 1] = g[n - 1]
        BY <2>3
      <4>2. CASE n = k
        BY <2>3, <4>1, <4>2 DEF b
      <4>3. CASE n # k
        <5>1. n \in 1 .. k - 1 /\ n \in 0 .. k - 1
          BY <4>3
        <5>2. g[n] = G[<<n, g[n - 1]>>] /\ f[n] = g[n]
          BY <2>1, <2>3, <5>1 DEF Runs
        <5>. QED BY <4>1, <5>2
      <4>. QED BY <4>2, <4>3
    <3>. QED BY <3>1
  <2>5. Runs(f, k, X, a, G)
    BY <2>3, <2>4 DEF Runs
  <2>. QED BY <2>5
<1>3. H \in A
  <2> HIDE DEF A
  <2>. QED BY <1>1, <1>2, UpTo
<1>. QED BY <1>3

-----------------------------------------------------------------------------
(* Sequences that hold each member of a set once.                          *)
Enumerates(s, C) ==
    /\ s \in Seq(C)
    /\ \A i, j \in 1 .. Len(s) : s[i] = s[j] => i = j
    /\ \A x \in C : \E i \in 1 .. Len(s) : s[i] = x

LEMMA Interval ==
    ASSUME NEW n \in Nat
    PROVE  IsFiniteSet(1 .. n) /\ Cardinality(1 .. n) = n
  BY FS_Interval

LEMMA Enumerations ==
    ASSUME NEW C, IsFiniteSet(C), NEW s
    PROVE  /\ s \in SetToSeqs(C) <=> Enumerates(s, C)
           /\ Enumerates(s, C) => Len(s) = Cardinality(C) /\ Len(s) \in Nat
                                  /\ DOMAIN s = 1 .. Len(s)
<1> DEFINE n == Cardinality(C)
<1>1. n \in Nat /\ IsFiniteSet(1 .. n) /\ Cardinality(1 .. n) = n
  BY FS_CardinalityType, Interval
<1> HIDE DEF n
<1>2. ASSUME s \in SetToSeqs(C) PROVE Enumerates(s, C)
  <2>1. s \in [1 .. n -> C] /\ \A i, j \in 1 .. n : i # j => s[i] # s[j]
    BY <1>2 DEF SetToSeqs, n
  <2>2. s \in Seq(C) /\ Len(s) = n
    BY <1>1, <2>1
  <2>3. s \in Injection(1 .. n, C)
    BY <2>1 DEF Injection, IsInjective
  <2>4. s \in Surjection(1 .. n, C)
    BY <1>1, <2>3, FS_Injection DEF n
  <2>. QED BY <2>1, <2>2, <2>4 DEF Enumerates, Surjection
<1>3. ASSUME Enumerates(s, C)
      PROVE  s \in SetToSeqs(C) /\ Len(s) = n /\ Len(s) \in Nat /\ DOMAIN s = 1 .. Len(s)
  <2>1. s \in [1 .. Len(s) -> C] /\ Len(s) \in Nat /\ DOMAIN s = 1 .. Len(s)
    BY <1>3, LenProperties DEF Enumerates
  <2>2. s \in Bijection(1 .. Len(s), C)
    BY <1>3, <2>1 DEF Enumerates, Bijection, Injection, Surjection, IsInjective
  <2>3. IsFiniteSet(1 .. Len(s)) /\ Cardinality(1 .. Len(s)) = Len(s)
    BY <2>1, Interval
  <2>4. Len(s) = n
    BY <2>2, <2>3, FS_Bijection DEF ExistsBijection, n
  <2>5. \A i, j \in 1 .. n : i # j => s[i] # s[j]
    BY <1>3, <2>4 DEF Enumerates
  <2>. QED BY <2>1, <2>4, <2>5 DEF SetToSeqs, n
<1>. QED BY <1>2, <1>3 DEF n

LEMMA NoneEnumerates ==
    Enumerates(<<>>, {}) /\ Len(<<>>) = 0
  BY DEF Enumerates

(* Two sequences, one after the other.                                     *)
LEMMA JoinEnumerates ==
    ASSUME NEW A, NEW a, Enumerates(a, A), NEW B, NEW b, Enumerates(b, B), A \cap B = {}
    PROVE  /\ Enumerates(a \o b, A \cup B)
           /\ Len(a \o b) = Len(a) + Len(b) /\ Len(a) \in Nat /\ Len(b) \in Nat
           /\ \A i \in 1 .. Len(a) : (a \o b)[i] = a[i]
           /\ \A i \in 1 .. Len(b) : (a \o b)[Len(a) + i] = b[i]
<1> DEFINE c == a \o b
           m == Len(a)
           n == Len(b)
<1>1. a \in Seq(A \cup B) /\ b \in Seq(A \cup B) /\ m \in Nat /\ n \in Nat
  BY SeqMonotonic, LenProperties DEF Enumerates
<1>2. /\ c \in Seq(A \cup B) /\ Len(c) = m + n
      /\ \A i \in 1 .. m + n : c[i] = IF i <= m THEN a[i] ELSE b[i - m]
  BY <1>1, ConcatProperties
<1> HIDE DEF c
<1>3. /\ \A i \in 1 .. m : a[i] \in A /\ c[i] = a[i]
      /\ \A i \in 1 .. n : b[i] \in B /\ c[m + i] = b[i]
  <2>1. \A i \in 1 .. m : a[i] \in A /\ c[i] = a[i]
    BY <1>1, <1>2, ElementOfSeq DEF Enumerates
  <2>2. ASSUME NEW i \in 1 .. n PROVE b[i] \in B /\ c[m + i] = b[i]
    <3>1. b[i] \in B
      BY ElementOfSeq DEF Enumerates
    <3>2. m + i \in 1 .. m + n /\ ~(m + i <= m) /\ (m + i) - m = i
      BY <1>1
    <3>. QED BY <1>2, <3>1, <3>2
  <2>. QED BY <2>1, <2>2
<1>4. \A i, j \in 1 .. m : a[i] = a[j] => i = j
  BY DEF Enumerates
<1>5. \A i, j \in 1 .. n : b[i] = b[j] => i = j
  BY DEF Enumerates
<1>6. ASSUME NEW i \in 1 .. m + n, NEW j \in 1 .. m + n, c[i] = c[j] PROVE i = j
  <2>1. CASE i <= m /\ j <= m
    <3>1. i \in 1 .. m /\ j \in 1 .. m
      BY <1>1, <2>1
    <3>. QED BY <1>3, <1>4, <1>6, <3>1
  <2>2. CASE i > m /\ j > m
    <3>1. i - m \in 1 .. n /\ j - m \in 1 .. n /\ i = m + (i - m) /\ j = m + (j - m)
      BY <1>1, <2>2
    <3>2. c[i] = b[i - m] /\ c[j] = b[j - m]
      BY <1>3, <3>1
    <3>3. i - m = j - m
      BY <1>5, <1>6, <3>1, <3>2
    <3>. QED BY <3>1, <3>3
  <2>3. CASE i <= m /\ j > m
    <3>1. i \in 1 .. m /\ j - m \in 1 .. n /\ j = m + (j - m)
      BY <1>1, <2>3
    <3>. QED BY <1>3, <1>6, <3>1
  <2>4. CASE i > m /\ j <= m
    <3>1. j \in 1 .. m /\ i - m \in 1 .. n /\ i = m + (i - m)
      BY <1>1, <2>4
    <3>. QED BY <1>3, <1>6, <3>1
  <2>. QED BY <1>1, <2>1, <2>2, <2>3, <2>4
<1>7. ASSUME NEW x \in A \cup B PROVE \E i \in 1 .. m + n : c[i] = x
  <2>1. CASE x \in A
    <3>1. PICK i \in 1 .. m : a[i] = x
      BY <2>1 DEF Enumerates
    <3>. QED BY <1>1, <1>3, <3>1
  <2>2. CASE x \in B
    <3>1. PICK i \in 1 .. n : b[i] = x
      BY <2>2 DEF Enumerates
    <3>2. m + i \in 1 .. m + n /\ c[m + i] = x
      BY <1>1, <1>3, <3>1
    <3>. QED BY <3>2
  <2>. QED BY <2>1, <2>2
<1>. QED BY <1>1, <1>2, <1>3, <1>6, <1>7 DEF c, Enumerates

(* The ranks in a finite set of numbers are 1, 2, ... up to its size.      *)
LEMMA Ranks ==
    ASSUME NEW N \in SUBSET Int, IsFiniteSet(N)
    PROVE  LET r == [x \in N |-> Cardinality({y \in N : y <= x})]
               n == Cardinality(N)
           IN  /\ n \in Nat /\ r \in [N -> 1 .. n]
               /\ \A x, z \in N : x < z => r[x] < r[z]
               /\ \A k \in 1 .. n : \E x \in N : r[x] = k
<1> DEFINE Low(x) == {y \in N : y <= x}
           r == [x \in N |-> Cardinality(Low(x))]
           n == Cardinality(N)
<1>1. n \in Nat /\ IsFiniteSet(1 .. n) /\ Cardinality(1 .. n) = n
  BY FS_CardinalityType, FS_Interval
<1>2. ASSUME NEW x \in N
      PROVE  /\ Low(x) \in SUBSET N /\ x \in Low(x) /\ IsFiniteSet(Low(x))
             /\ Cardinality(Low(x)) \in 1 .. n
  <2>1. Low(x) \in SUBSET N /\ x \in Low(x)
    OBVIOUS
  <2> HIDE DEF Low
  <2>2. IsFiniteSet(Low(x)) /\ Cardinality(Low(x)) <= n /\ Cardinality(Low(x)) \in Nat
    BY <2>1, FS_Subset, FS_CardinalityType
  <2>3. Cardinality(Low(x)) # 0
    BY <2>1, <2>2, FS_EmptySet
  <2> HIDE DEF n
  <2>. QED BY <1>1, <2>1, <2>2, <2>3
<1>3. ASSUME NEW x \in N, NEW z \in N, x < z
      PROVE  Cardinality(Low(x)) < Cardinality(Low(z))
  <2>1. Low(x) \in SUBSET Low(z) /\ z \in Low(z) /\ z \notin Low(x)
    <3>1. x \in Int /\ z \in Int /\ \A y \in N : y \in Int
      OBVIOUS
    <3>2. \A y \in N : y <= x => y <= z
      BY <1>3, <3>1
    <3>3. z <= z /\ ~(z <= x)
      BY <1>3, <3>1
    <3>. QED BY <3>2, <3>3
  <2> HIDE DEF Low
  <2>2. Cardinality(Low(x)) <= Cardinality(Low(z)) /\ Cardinality(Low(x)) # Cardinality(Low(z))
    BY <1>2, <2>1, FS_Subset
  <2> HIDE DEF n
  <2>. QED BY <1>1, <1>2, <2>2
<1>4. r \in [N -> 1 .. n] /\ \A x \in N : r[x] = Cardinality(Low(x))
  BY <1>2
<1> HIDE DEF r, Low, n
<1>5. \A x, z \in N : x < z => r[x] < r[z]
  BY <1>3, <1>4
<1>6. r \in Injection(N, 1 .. n)
  <2>1. ASSUME NEW x \in N, NEW z \in N, r[x] = r[z] PROVE x = z
    <3>1. ~(x < z) /\ ~(z < x)
      <4>1. r[x] \in Int /\ r[z] \in Int
        BY <1>1, <1>4
      <4>. QED BY <1>5, <2>1, <4>1
    <3>. QED BY <3>1
  <2>. QED BY <1>4, <2>1 DEF Injection, IsInjective
<1>7. r \in Surjection(N, 1 .. n)
  BY <1>1, <1>6, FS_Injection DEF n
<1>8. \A k \in 1 .. n : \E x \in N : r[x] = k
  BY <1>7 DEF Surjection
<1>. QED BY <1>1, <1>4, <1>5, <1>8 DEF r, Low, n

LEMMA InOrder ==
    ASSUME NEW N \in SUBSET Int, IsFiniteSet(N)
    PROVE  /\ Enumerates(in_order(N), N)
           /\ Len(in_order(N)) = Cardinality(N) /\ Cardinality(N) \in Nat
           /\ \A i, j \in 1 .. Cardinality(N) : i < j => in_order(N)[i] < in_order(N)[j]
<1> DEFINE r == [x \in N |-> Cardinality({y \in N : y <= x})]
           n == Cardinality(N)
           w == in_order(N)
<1>1. /\ n \in Nat /\ r \in [N -> 1 .. n]
      /\ \A x, z \in N : x < z => r[x] < r[z]
      /\ \A k \in 1 .. n : \E x \in N : r[x] = k
  BY Ranks
<1>2. ASSUME NEW k \in 1 .. n PROVE w[k] \in N /\ r[w[k]] = k
  <2>1. w[k] = CHOOSE x \in N : Cardinality({y \in N : y <= x}) = k
    BY DEF in_order
  <2>2. \E x \in N : Cardinality({y \in N : y <= x}) = k
    BY <1>1
  <2>3. w[k] \in N /\ Cardinality({y \in N : y <= w[k]}) = k
    <3> HIDE DEF w
    <3>. QED BY <2>1, <2>2
  <2> HIDE DEF w
  <2>. QED BY <2>3
<1>3. w = [k \in 1 .. n |-> w[k]]
  <2> DEFINE F(k) == CHOOSE x \in N : Cardinality({y \in N : y <= x}) = k
  <2>1. w = [k \in 1 .. n |-> F(k)]
    BY Zenon DEF in_order
  <2> HIDE DEF F, w
  <2>. QED BY <2>1
<1> HIDE DEF r, w, n
<1>4. w \in Seq(N) /\ Len(w) = n
  <2>1. w \in [1 .. n -> N]
    BY <1>2, <1>3
  <2>. QED BY <1>1, <2>1
<1>5. \A i, j \in 1 .. n : w[i] = w[j] => i = j
  BY <1>2
<1>6. ASSUME NEW x \in N, NEW z \in N, r[x] <= r[z] PROVE x <= z
  <2>1. x \in Int /\ z \in Int /\ r[x] \in Int /\ r[z] \in Int
    BY <1>1
  <2>2. ~(z < x)
    BY <1>1, <1>6, <2>1
  <2>. QED BY <2>1, <2>2
<1>7. ASSUME NEW x \in N PROVE \E i \in 1 .. n : w[i] = x
  <2>1. PICK k \in 1 .. n : k = r[x]
    BY <1>1
  <2>2. PICK y \in N : y = w[k] /\ r[y] = r[x]
    BY <1>2, <2>1
  <2>3. r[x] <= r[y] /\ r[y] <= r[x]
    BY <2>1, <2>2
  <2>4. x <= y /\ y <= x
    BY <1>6, <2>3
  <2>5. x = y
    BY <2>4
  <2>. QED BY <2>2, <2>5
<1>8. ASSUME NEW i \in 1 .. n, NEW j \in 1 .. n, i < j PROVE w[i] < w[j]
  <2>1. w[i] \in N /\ w[j] \in N /\ r[w[i]] = i /\ r[w[j]] = j
    BY <1>2
  <2>2. w[i] <= w[j] /\ w[i] # w[j] /\ w[i] \in Int /\ w[j] \in Int
    <3>1. i <= j /\ i # j
      BY <1>8
    <3>. QED BY <1>6, <2>1, <3>1
  <2>. QED BY <2>2
<1>. QED BY <1>1, <1>4, <1>5, <1>7, <1>8 DEF Enumerates, w, n

-----------------------------------------------------------------------------
(* Sequences of disjoint sets that make up a set.                          *)
Divides(S, C) ==
    /\ S \in Seq(SUBSET C)
    /\ \A i, j \in 1 .. Len(S) : i # j => S[i] \cap S[j] = {}
    /\ \A x \in C : \E i \in 1 .. Len(S) : x \in S[i]

LEMMA Lowest ==
    ASSUME NEW C, NEW pos \in [C -> Nat], NEW c \in C
    PROVE  \E e \in C : pos[e] <= pos[c] /\ pos[e] \in starts(pos)
<1> DEFINE R == {pos[e] : e \in C}
<1>1. PICK m \in R : \A k \in R : m <= k
  <2>1. R \in SUBSET Nat /\ R # {}
    OBVIOUS
  <2> HIDE DEF R
  <2>. QED BY <2>1, MinNat
<1>2. PICK e \in C : m = pos[e]
  BY <1>1
<1>3. \A x \in C : pos[e] <= pos[x]
  BY <1>1, <1>2
<1>4. \A x \in C : ~(pos[x] < pos[e])
  BY <1>3
<1>5. pos[e] \in starts(pos)
  BY <1>4 DEF starts
<1>. QED BY <1>3, <1>5

LEMMA StartsFinite ==
    ASSUME NEW C, IsFiniteSet(C), NEW pos \in [C -> Nat]
    PROVE  starts(pos) \in SUBSET Nat /\ IsFiniteSet(starts(pos))
<1> DEFINE R == {pos[e] : e \in C}
<1>1. R \in SUBSET Nat /\ pos \in Surjection(C, R)
  BY DEF Surjection
<1>2. IsFiniteSet(R)
  <2> HIDE DEF R
  <2>. QED BY <1>1, FS_Surjection
<1>3. starts(pos) \in SUBSET R
  BY DEF starts
<1> HIDE DEF R
<1>. QED BY <1>1, <1>2, <1>3, FS_Subset

(* Every command is in one cluster.                                        *)
LEMMA ClustersDivide ==
    ASSUME NEW C, IsFiniteSet(C), NEW pos \in [C -> Nat]
    PROVE  LET S == detect_clusters(pos)
               begin == starts(pos)
           IN  /\ Divides(S, C) /\ Len(S) = Cardinality(begin) /\ Len(S) \in Nat
               /\ DOMAIN S = 1 .. Len(S)
               /\ \A k \in 1 .. Len(S) :
                    S[k] = {c \in C : Cardinality({v \in begin : v <= pos[c]}) = k}
<1> DEFINE begin == starts(pos)
           S == detect_clusters(pos)
           K == Cardinality(begin)
           Low(c) == {v \in begin : v <= pos[c]}
<1>1. begin \in SUBSET Nat /\ IsFiniteSet(begin) /\ K \in Nat
  BY StartsFinite, FS_CardinalityType
<1>2. S = [k \in 1 .. K |-> {c \in C : Cardinality(Low(c)) = k}]
  BY DEF detect_clusters
<1>3. ASSUME NEW c \in C PROVE Cardinality(Low(c)) \in 1 .. K
  <2>1. Low(c) \in SUBSET begin /\ Low(c) # {}
    BY <1>1, Lowest
  <2> HIDE DEF begin, Low
  <2>2. IsFiniteSet(Low(c)) /\ Cardinality(Low(c)) <= K /\ Cardinality(Low(c)) \in Nat
    BY <1>1, <2>1, FS_Subset, FS_CardinalityType
  <2>3. Cardinality(Low(c)) # 0
    BY <2>1, <2>2, FS_EmptySet
  <2> HIDE DEF K
  <2>. QED BY <1>1, <2>2, <2>3
<1> HIDE DEF begin, S, K, Low
<1>4. S \in Seq(SUBSET C) /\ Len(S) = K /\ DOMAIN S = 1 .. K
  BY <1>1, <1>2
<1>5. \A i, j \in 1 .. K : i # j => S[i] \cap S[j] = {}
  BY <1>2
<1>6. \A x \in C : \E i \in 1 .. K : x \in S[i]
  BY <1>2, <1>3
<1>7. \A k \in 1 .. K : S[k] = {c \in C : Cardinality({v \in begin : v <= pos[c]}) = k}
  BY <1>2 DEF Low
<1>8. Divides(S, C) /\ Len(S) = Cardinality(begin) /\ Len(S) \in Nat /\ DOMAIN S = 1 .. Len(S)
  BY <1>1, <1>4, <1>5, <1>6 DEF Divides, K
<1>. QED BY <1>4, <1>7, <1>8 DEF S, begin

-----------------------------------------------------------------------------
(* The loop of topological_sort.                                           *)
LEMMA TakeType ==
    ASSUME NEW H \in Nat, NEW E \in SUBSET ((1 .. H) \X (1 .. H)),
           NEW w \in Seq(1 .. H), NEW n \in 1 .. H
    PROVE  /\ freed(E, w, n) \in SUBSET (1 .. H)
           /\ IsFiniteSet(freed(E, w, n))
           /\ take(E, w, n) \in Seq(1 .. H)
<1> DEFINE F == freed(E, w, n)
<1>1. F \in SUBSET (1 .. H)
  BY DEF freed
<1> HIDE DEF F
<1>2. IsFiniteSet(F)
  BY <1>1, Interval, FS_Subset
<1>3. Enumerates(in_order(F), F)
  <2>1. F \in SUBSET Int
    BY <1>1
  <2>. QED BY <1>2, <2>1, InOrder
<1>4. in_order(F) \in Seq(1 .. H)
  BY <1>1, <1>3, SeqMonotonic DEF Enumerates
<1>5. w \o in_order(F) \in Seq(1 .. H)
  BY <1>4, ConcatProperties
<1>. QED BY <1>1, <1>2, <1>5 DEF take, F

LEMMA QueueRuns ==
    ASSUME NEW H \in Nat, NEW E \in SUBSET ((1 .. H) \X (1 .. H))
    PROVE  LET w == queued(E, H)
           IN  /\ w[0] = in_order({i \in 1 .. H : \A e \in E : e[2] # i})
               /\ \A n \in 1 .. H : w[n] = take(E, w[n - 1], n)
               /\ \A n \in 0 .. H : w[n] \in Seq(1 .. H)
<1> DEFINE a == in_order({i \in 1 .. H : \A e \in E : e[2] # i})
           X == Seq(1 .. H)
           G == [p \in (1 .. H) \X X |-> take(E, p[2], p[1])]
           R(g) == g = [n \in 0 .. H |-> IF n = 0 THEN a ELSE take(E, g[n - 1], n)]
           w == queued(E, H)
<1>1. a \in X
  <2> DEFINE N == {i \in 1 .. H : \A e \in E : e[2] # i}
  <2>1. N \in SUBSET (1 .. H) /\ N \in SUBSET Int
    OBVIOUS
  <2> HIDE DEF N
  <2>2. IsFiniteSet(N)
    BY <2>1, Interval, FS_Subset
  <2>3. in_order(N) \in Seq(N)
    BY <2>1, <2>2, InOrder DEF Enumerates
  <2>4. in_order(N) \in Seq(1 .. H)
    BY <2>1, <2>3, SeqMonotonic
  <2>. QED BY <2>4 DEF N
<1>2. G \in [(1 .. H) \X X -> X]
  BY TakeType
<1>3. \A p \in (1 .. H) \X X : G[p] = take(E, p[2], p[1])
  OBVIOUS
<1>4. w = CHOOSE g : R(g)
  BY Zenon DEF queued
<1> HIDE DEF a, G, X
<1>5. PICK g : Runs(g, H, X, a, G)
  BY <1>1, <1>2, LoopExists
<1>6. R(g)
  <2> DEFINE h == [n \in 0 .. H |-> IF n = 0 THEN a ELSE take(E, g[n - 1], n)]
  <2>1. ASSUME NEW n \in 0 .. H PROVE g[n] = h[n]
    <3>1. CASE n = 0
      BY <1>5, <3>1 DEF Runs
    <3>2. CASE n # 0
      <4>1. n \in 1 .. H /\ n - 1 \in 0 .. H
        BY <3>2
      <4>2. <<n, g[n - 1]>> \in (1 .. H) \X X
        BY <1>5, <4>1 DEF Runs
      <4>3. g[n] = take(E, g[n - 1], n)
        BY <1>3, <1>5, <4>1, <4>2 DEF Runs
      <4>. QED BY <3>2, <4>3
    <3>. QED BY <3>1, <3>2
  <2>2. g = [n \in 0 .. H |-> g[n]] /\ DOMAIN h = 0 .. H
    BY <1>5 DEF Runs
  <2>3. g = h
    <3> HIDE DEF h
    <3>1. h = [n \in 0 .. H |-> h[n]]
      BY DEF h
    <3>. QED BY <2>1, <2>2, <3>1
  <2>. QED BY <2>3
<1>7. R(w)
  <2> HIDE DEF R, w
  <2>. QED BY <1>4, <1>6
<1> HIDE DEF w
<1>8. w[0] = a /\ \A n \in 1 .. H : w[n] = take(E, w[n - 1], n)
  <2>1. \A n \in 0 .. H : w[n] = IF n = 0 THEN a ELSE take(E, w[n - 1], n)
    BY <1>7
  <2>2. 0 \in 0 .. H /\ \A n \in 1 .. H : n \in 0 .. H /\ n # 0
    OBVIOUS
  <2>. QED BY <2>1, <2>2
<1>9. \A n \in 0 .. H : w[n] \in X
  <2> DEFINE Y == {n \in 0 .. H : w[n] \in X}
  <2>1. 0 \in Y
    BY <1>1, <1>8
  <2>2. ASSUME NEW n \in 1 .. H, n - 1 \in Y PROVE n \in Y
    <3>1. w[n - 1] \in Seq(1 .. H)
      BY <2>2 DEF X
    <3>2. take(E, w[n - 1], n) \in Seq(1 .. H)
      BY <3>1, TakeType
    <3>3. w[n] = take(E, w[n - 1], n) /\ n \in 0 .. H
      BY <1>8
    <3>. QED BY <3>2, <3>3 DEF X
  <2>3. \A n \in 0 .. H : n \in Y
    <3> HIDE DEF Y
    <3>. QED BY <2>1, <2>2, UpTo
  <2>. QED BY <2>3
<1>. QED BY <1>8, <1>9 DEF a, X, w

(* What is known of the queue when n clusters have been taken: a cluster   *)
(* is in it when all its predecessors have been taken, and behind them.    *)
First(q, n) == {q[i] : i \in {k \in 1 .. Len(q) : k <= n}}

Queue(E, H, q, n) ==
    /\ q \in Seq(1 .. H)
    /\ \A i, j \in 1 .. Len(q) : q[i] = q[j] => i = j
    /\ \A v \in 1 .. H :
         v \in First(q, Len(q)) <=> \A e \in E : e[2] = v => e[1] \in First(q, n)
    /\ \A j \in 1 .. Len(q) : \A e \in E : e[2] = q[j] =>
         \E i \in 1 .. Len(q) : i < j /\ i <= n /\ q[i] = e[1]

LEMMA QueueStarts ==
    ASSUME NEW H \in Nat, NEW E \in SUBSET ((1 .. H) \X (1 .. H))
    PROVE  Queue(E, H, in_order({i \in 1 .. H : \A e \in E : e[2] # i}), 0)
<1> DEFINE N == {i \in 1 .. H : \A e \in E : e[2] # i}
           q == in_order(N)
<1>1. N \in SUBSET (1 .. H) /\ N \in SUBSET Int
  OBVIOUS
<1>2. \A v \in 1 .. H : v \in N <=> \A e \in E : e[2] # v
  OBVIOUS
<1> HIDE DEF N
<1>3. IsFiniteSet(N)
  BY <1>1, Interval, FS_Subset
<1>4. Enumerates(q, N)
  BY <1>1, <1>3, InOrder
<1> HIDE DEF q
<1>5. /\ q \in Seq(1 .. H) /\ Len(q) \in Nat
      /\ \A i, j \in 1 .. Len(q) : q[i] = q[j] => i = j
      /\ \A i \in 1 .. Len(q) : q[i] \in N
  BY <1>1, <1>4, SeqMonotonic, ElementOfSeq, LenProperties DEF Enumerates
<1>6. First(q, 0) = {} /\ First(q, Len(q)) = N
  <2>1. First(q, 0) = {}
    BY <1>5 DEF First
  <2>2. \A x \in First(q, Len(q)) : x \in N
    BY <1>5 DEF First
  <2>3. ASSUME NEW x \in N PROVE x \in First(q, Len(q))
    <3>1. PICK i \in 1 .. Len(q) : q[i] = x
      BY <1>4 DEF Enumerates
    <3>2. i <= Len(q)
      BY <1>5
    <3>. QED BY <3>1, <3>2 DEF First
  <2>. QED BY <2>1, <2>2, <2>3
<1>7. \A v \in 1 .. H : v \in First(q, Len(q)) <=> \A e \in E : e[2] = v => e[1] \in First(q, 0)
  BY <1>2, <1>6
<1>8. \A j \in 1 .. Len(q) : \A e \in E : e[2] # q[j]
  BY <1>1, <1>2, <1>5
<1>. QED BY <1>5, <1>7, <1>8 DEF Queue, q, N

LEMMA QueueGoesOn ==
    ASSUME NEW H \in Nat, NEW E \in SUBSET ((1 .. H) \X (1 .. H)),
           NEW n \in 1 .. H, NEW q, Queue(E, H, q, n - 1)
    PROVE  Queue(E, H, take(E, q, n), n)
<1> DEFINE p == take(E, q, n)
           F == freed(E, q, n)
           m == Len(q)
<1>1. /\ q \in Seq(1 .. H) /\ m \in Nat
      /\ \A i, j \in 1 .. m : q[i] = q[j] => i = j
      /\ \A i \in 1 .. m : q[i] \in 1 .. H
  BY LenProperties, ElementOfSeq DEF Queue
<1>2. /\ \A v \in 1 .. H :
           v \in First(q, m) <=> \A e \in E : e[2] = v => e[1] \in First(q, n - 1)
      /\ \A j \in 1 .. m : \A e \in E : e[2] = q[j] =>
           \E i \in 1 .. m : i < j /\ i <= n - 1 /\ q[i] = e[1]
  BY DEF Queue
<1>3. CASE n > m
  <2>1. p = q
    BY <1>3 DEF take
  <2>2. First(q, n) = First(q, n - 1)
    <3>1. \A k \in 1 .. m : k <= n <=> k <= n - 1
      BY <1>1, <1>3
    <3>. QED BY <3>1 DEF First
  <2>3. \A j \in 1 .. m : \A e \in E : e[2] = q[j] =>
           \E i \in 1 .. m : i < j /\ i <= n /\ q[i] = e[1]
    <3>1. \A i \in 1 .. m : i <= n - 1 => i <= n
      BY <1>1
    <3>. QED BY <1>2, <3>1
  <2>. QED BY <1>1, <1>2, <2>1, <2>2, <2>3 DEF Queue
<1>4. CASE ~(n > m)
  <2>1. n \in 1 .. m /\ p = q \o in_order(F)
    BY <1>1, <1>4 DEF take
  <2>2. /\ F \in SUBSET (1 .. H) /\ IsFiniteSet(F) /\ p \in Seq(1 .. H)
    BY <1>1, TakeType
  <2>3. \A v \in 1 .. H : v \in F <=>
          /\ \E d \in E : d[2] = v /\ d[1] = q[n]
          /\ \A f \in E : f[2] = v => f[1] \in First(q, n)
    <3>1. First(q, n) = {q[i] : i \in 1 .. n}
      <4>1. \A i \in 1 .. n : i \in 1 .. m /\ i <= n
        BY <1>1, <2>1
      <4>. QED BY <4>1 DEF First
    <3>2. F = {e[2] : e \in {d \in E : d[1] = q[n] /\ \A f \in E :
                                f[2] = d[2] => \E i \in 1 .. n : q[i] = f[1]}}
      BY DEF freed
    <3>3. \A x : x \in First(q, n) <=> \E i \in 1 .. n : q[i] = x
      BY <3>1
    <3> HIDE DEF F
    <3>. QED BY <3>2, <3>3
  <2> HIDE DEF F
  <2>4. Enumerates(in_order(F), F)
    <3>1. F \in SUBSET Int
      BY <2>2
    <3>. QED BY <2>2, <3>1, InOrder
  <2> DEFINE R == First(q, m)
             a == in_order(F)
  <2> HIDE DEF a
  <2>5. /\ \A i \in 1 .. m : q[i] \in R
        /\ \A x \in R : \E i \in 1 .. m : q[i] = x
    BY <1>1 DEF First
  <2>6. R \cap F = {}
    <3>1. SUFFICES ASSUME NEW v \in R, v \in F PROVE FALSE
      OBVIOUS
    <3>2. PICK j \in 1 .. m : q[j] = v
      BY <2>5
    <3>3. PICK d \in E : d[2] = v /\ d[1] = q[n]
      BY <1>1, <2>3, <3>1, <3>2
    <3>4. PICK i \in 1 .. m : i <= n - 1 /\ q[i] = q[n]
      BY <1>2, <3>2, <3>3
    <3>5. i = n
      BY <1>1, <2>1, <3>4
    <3>. QED BY <3>4, <3>5
  <2>7. Enumerates(q, R)
    <3>1. q \in Seq(R)
      <4>1. q \in [1 .. m -> R]
        BY <1>1, <2>5
      <4>. QED BY <1>1, <4>1
    <3>. QED BY <1>1, <2>5, <3>1 DEF Enumerates
  <2> HIDE DEF R
  <2>8. /\ Enumerates(p, R \cup F) /\ Len(p) = m + Len(a) /\ Len(a) \in Nat
        /\ \A i \in 1 .. m : p[i] = q[i]
        /\ \A i \in 1 .. Len(a) : p[m + i] = a[i]
    BY <2>1, <2>4, <2>6, <2>7, JoinEnumerates DEF a
  <2> HIDE DEF p
  <2>9. 1 .. m \subseteq 1 .. Len(p) /\ n \in 1 .. Len(p) /\ Len(p) \in Nat
    BY <1>1, <2>1, <2>8
  <2>10. First(p, Len(p)) = R \cup F
    <3>1. \A i \in 1 .. Len(p) : i <= Len(p)
      BY <2>9
    <3>2. \A i \in 1 .. Len(p) : p[i] \in R \cup F
      BY <2>8, ElementOfSeq DEF Enumerates
    <3>3. \A x \in R \cup F : \E i \in 1 .. Len(p) : p[i] = x
      BY <2>8 DEF Enumerates
    <3>. QED BY <3>1, <3>2, <3>3 DEF First
  <2>11. First(p, n) = First(q, n) /\ First(q, n) = First(q, n - 1) \cup {q[n]}
    <3>1. {k \in 1 .. Len(p) : k <= n} = 1 .. n /\ {k \in 1 .. m : k <= n} = 1 .. n
      BY <1>1, <2>1, <2>9
    <3>2. {k \in 1 .. m : k <= n - 1} = 1 .. (n - 1) /\ 1 .. n = (1 .. (n - 1)) \cup {n}
      BY <1>1, <2>1
    <3>3. \A i \in 1 .. n : p[i] = q[i]
      BY <1>1, <2>1, <2>8
    <3>4. First(p, n) = {p[i] : i \in 1 .. n} /\ First(q, n) = {q[i] : i \in 1 .. n}
          /\ First(q, n - 1) = {q[i] : i \in 1 .. (n - 1)}
      BY <3>1, <3>2 DEF First
    <3>. QED BY <3>2, <3>3, <3>4
  <2>12. ASSUME NEW v \in 1 .. H
         PROVE  v \in R \cup F <=> \A e \in E : e[2] = v => e[1] \in First(q, n)
    <3>1. v \in R <=> \A e \in E : e[2] = v => e[1] \in First(q, n - 1)
      BY <1>2 DEF R
    <3>2. v \in F <=> /\ \E d \in E : d[2] = v /\ d[1] = q[n]
                      /\ \A f \in E : f[2] = v => f[1] \in First(q, n)
      BY <2>3
    <3>. QED BY <2>11, <3>1, <3>2
  <2>13. ASSUME NEW j \in 1 .. Len(p), NEW e \in E, e[2] = p[j]
         PROVE  \E i \in 1 .. Len(p) : i < j /\ i <= n /\ p[i] = e[1]
    <3>1. CASE j \in 1 .. m
      <4>1. PICK i \in 1 .. m : i < j /\ i <= n - 1 /\ q[i] = e[1]
        BY <1>2, <2>8, <2>13, <3>1
      <4>2. i <= n /\ i \in 1 .. Len(p) /\ p[i] = e[1]
        BY <1>1, <2>8, <2>9, <4>1
      <4>. QED BY <4>1, <4>2
    <3>2. CASE j \notin 1 .. m
      <4>1. j - m \in 1 .. Len(a) /\ j = m + (j - m) /\ j > m
        BY <1>1, <2>8, <3>2
      <4>2. p[j] \in F
        <5>1. a[j - m] \in F
          BY <2>4, <4>1, ElementOfSeq DEF Enumerates, a
        <5>. QED BY <2>8, <4>1, <5>1
      <4>3. e[1] \in First(q, n)
        BY <2>2, <2>3, <2>13, <4>2
      <4>4. PICK i \in 1 .. m : i <= n /\ q[i] = e[1]
        BY <4>3 DEF First
      <4>5. i < j /\ i \in 1 .. Len(p) /\ p[i] = e[1]
        BY <1>1, <2>8, <2>9, <4>1, <4>4
      <4>. QED BY <4>4, <4>5
    <3>. QED BY <3>1, <3>2
  <2>14. \A i, j \in 1 .. Len(p) : p[i] = p[j] => i = j
    BY <2>8 DEF Enumerates
  <2>15. Queue(E, H, p, n)
    BY <2>2, <2>10, <2>11, <2>12, <2>13, <2>14 DEF Queue
  <2>. QED BY <2>15 DEF p
<1>. QED BY <1>3, <1>4

LEMMA QueueEnds ==
    ASSUME NEW H \in Nat, NEW E \in SUBSET ((1 .. H) \X (1 .. H))
    PROVE  Queue(E, H, queued(E, H)[H], H)
<1> DEFINE w == queued(E, H)
           G == {n \in 0 .. H : Queue(E, H, w[n], n)}
<1>1. /\ w[0] = in_order({i \in 1 .. H : \A e \in E : e[2] # i})
      /\ \A n \in 1 .. H : w[n] = take(E, w[n - 1], n)
  BY QueueRuns
<1> HIDE DEF w
<1>2. 0 \in G
  BY <1>1, QueueStarts
<1>3. ASSUME NEW n \in 1 .. H, n - 1 \in G PROVE n \in G
  <2>1. Queue(E, H, take(E, w[n - 1], n), n)
    BY <1>3, QueueGoesOn
  <2>. QED BY <1>1, <2>1
<1>4. H \in G
  <2> HIDE DEF G
  <2>. QED BY <1>2, <1>3, UpTo
<1>. QED BY <1>4 DEF w

(* topological_sort returns all clusters, each once; if no cycle keeps one *)
(* out of the queue, every edge goes forward.                              *)
LEMMA TopologicalSort ==
    ASSUME NEW H \in Nat, NEW E \in SUBSET ((1 .. H) \X (1 .. H))
    PROVE  /\ Enumerates(topological_sort(E, H), 1 .. H)
           /\ (\A T \in (SUBSET (1 .. H)) \ {{}} :
                  \E v \in T : \A u \in T : <<u, v>> \notin E) =>
                \A e \in E : Before(e[1], e[2], topological_sort(E, H))
<1> DEFINE q == queued(E, H)[H]
           R == ToSet(q)
           rest == (1 .. H) \ R
           t == topological_sort(E, H)
           m == Len(q)
<1>1. Queue(E, H, q, H)
  BY QueueEnds
<1> HIDE DEF q
<1>2. /\ q \in Seq(1 .. H) /\ m \in Nat /\ DOMAIN q = 1 .. m
      /\ \A i, j \in 1 .. m : q[i] = q[j] => i = j
      /\ \A i \in 1 .. m : q[i] \in 1 .. H
  BY <1>1, LenProperties, ElementOfSeq DEF Queue
<1>3. /\ R \in SUBSET (1 .. H) /\ \A i \in 1 .. m : q[i] \in R
      /\ \A x \in R : \E i \in 1 .. m : q[i] = x
  BY <1>2 DEF ToSet
<1> HIDE DEF R
<1>4. Enumerates(q, R)
  <2>1. q \in [1 .. m -> R]
    BY <1>2, <1>3
  <2>2. q \in Seq(R)
    BY <1>2, <2>1
  <2>. QED BY <1>2, <1>3, <2>2 DEF Enumerates
<1>5. IsFiniteSet(R) /\ m <= H
  <2>1. IsFiniteSet(R) /\ Cardinality(R) <= Cardinality(1 .. H)
    BY <1>3, Interval, FS_Subset
  <2>2. Cardinality(R) = m
    BY <1>4, <2>1, Enumerations
  <2>. QED BY <2>1, <2>2, Interval
<1>6. Enumerates(in_order(rest), rest)
  <2>1. rest \in SUBSET (1 .. H) /\ rest \in SUBSET Int
    OBVIOUS
  <2> HIDE DEF rest
  <2>2. IsFiniteSet(rest)
    BY <2>1, Interval, FS_Subset
  <2>. QED BY <2>1, <2>2, InOrder
<1>7. t = q \o in_order(rest)
  BY DEF topological_sort, q, R
<1>8. R \cap rest = {} /\ R \cup rest = 1 .. H
  BY <1>3
<1> HIDE DEF rest
<1>9. /\ Enumerates(t, 1 .. H) /\ Len(t) = m + Len(in_order(rest)) /\ Len(in_order(rest)) \in Nat
      /\ \A i \in 1 .. m : t[i] = q[i]
  <2> DEFINE b == in_order(rest)
  <2> HIDE DEF b, t
  <2>1. Enumerates(b, rest) /\ t = q \o b
    BY <1>6, <1>7 DEF b
  <2>2. /\ Enumerates(q \o b, R \cup rest) /\ Len(q \o b) = m + Len(b) /\ Len(b) \in Nat
        /\ \A i \in 1 .. m : (q \o b)[i] = q[i]
    BY <1>4, <1>8, <2>1, JoinEnumerates
  <2>. QED BY <1>8, <2>1, <2>2 DEF b
<1> HIDE DEF t
<1>10. ASSUME \A T \in (SUBSET (1 .. H)) \ {{}} : \E v \in T : \A u \in T : <<u, v>> \notin E,
              NEW e \in E
       PROVE  Before(e[1], e[2], t)
  <2>1. First(q, m) = R /\ First(q, H) = R
    <3>1. {k \in 1 .. m : k <= m} = 1 .. m /\ {k \in 1 .. m : k <= H} = 1 .. m
      BY <1>2, <1>5
    <3>2. R = {q[i] : i \in 1 .. m}
      BY <1>3
    <3>. QED BY <3>1, <3>2 DEF First
  <2>2. \A v \in 1 .. H : v \in R <=> \A f \in E : f[2] = v => f[1] \in R
    BY <1>1, <2>1 DEF Queue
  <2>3. rest = {}
    <3>1. SUFFICES ASSUME rest # {} PROVE FALSE
      OBVIOUS
    <3>2. PICK v \in rest : \A u \in rest : <<u, v>> \notin E
      BY <1>8, <1>10, <3>1
    <3>3. v \in 1 .. H /\ v \notin R
      BY <1>8
    <3>4. PICK f \in E : f[2] = v /\ f[1] \notin R
      BY <2>2, <3>3
    <3>5. f[1] \in 1 .. H /\ f[1] \in rest /\ f = <<f[1], f[2]>>
      BY <1>8, <3>4
    <3>. QED BY <3>2, <3>4, <3>5
  <2>4. e[2] \in 1 .. H /\ e[2] \in R
    BY <1>8, <2>3
  <2>5. PICK j \in 1 .. m : q[j] = e[2]
    BY <1>3, <2>4
  <2>6. PICK i \in 1 .. m : i < j /\ q[i] = e[1]
    BY <1>1, <2>5 DEF Queue
  <2>7. DOMAIN t = 1 .. Len(t) /\ 1 .. m \subseteq 1 .. Len(t)
    BY <1>2, <1>9, LenProperties DEF Enumerates
  <2>. QED BY <1>9, <2>5, <2>6, <2>7 DEF Before
<1>. QED BY <1>9, <1>10 DEF t

-----------------------------------------------------------------------------
(* The clusters, one after the other.                                      *)
LEMMA JoinBefore ==
    ASSUME NEW A, NEW a, Enumerates(a, A), NEW B, NEW b, Enumerates(b, B), A \cap B = {}
    PROVE  /\ \A x, y : Before(x, y, a) \/ Before(x, y, b) => Before(x, y, a \o b)
           /\ \A x \in A, y \in B : Before(x, y, a \o b)
<1> DEFINE c == a \o b
           m == Len(a)
           n == Len(b)
<1>1. /\ Enumerates(c, A \cup B) /\ Len(c) = m + n /\ m \in Nat /\ n \in Nat
      /\ \A i \in 1 .. m : c[i] = a[i]
      /\ \A i \in 1 .. n : c[m + i] = b[i]
  <2>1. Enumerates(c, A \cup B)
    BY JoinEnumerates
  <2>2. Len(c) = m + n /\ m \in Nat /\ n \in Nat
    BY JoinEnumerates
  <2>3. \A i \in 1 .. m : c[i] = a[i]
    BY JoinEnumerates
  <2>4. \A i \in 1 .. n : c[m + i] = b[i]
    BY JoinEnumerates
  <2>. QED BY <2>1, <2>2, <2>3, <2>4
<1> HIDE DEF c
<1>2. DOMAIN a = 1 .. m /\ DOMAIN b = 1 .. n /\ DOMAIN c = 1 .. (m + n)
  <2>1. a \in Seq(A) /\ b \in Seq(B) /\ c \in Seq(A \cup B)
    BY <1>1 DEF Enumerates
  <2>. QED BY <1>1, <2>1, LenProperties
<1>3. \A i \in 1 .. m : i \in 1 .. (m + n)
  BY <1>1
<1>4. \A i \in 1 .. n : m + i \in 1 .. (m + n) /\ m + i > m
  BY <1>1
<1>5. ASSUME NEW x, NEW y, Before(x, y, a) PROVE Before(x, y, c)
  <2>1. PICK i \in 1 .. m, j \in 1 .. m : i < j /\ a[i] = x /\ a[j] = y
    BY <1>2, <1>5 DEF Before
  <2>. QED BY <1>1, <1>2, <1>3, <2>1 DEF Before
<1>6. ASSUME NEW x, NEW y, Before(x, y, b) PROVE Before(x, y, c)
  <2>1. PICK i \in 1 .. n, j \in 1 .. n : i < j /\ b[i] = x /\ b[j] = y
    BY <1>2, <1>6 DEF Before
  <2>2. m + i < m + j /\ c[m + i] = x /\ c[m + j] = y
    BY <1>1, <2>1
  <2>. QED BY <1>2, <1>4, <2>2 DEF Before
<1>7. ASSUME NEW x \in A, NEW y \in B PROVE Before(x, y, c)
  <2>1. PICK i \in 1 .. m : a[i] = x
    BY DEF Enumerates
  <2>2. PICK j \in 1 .. n : b[j] = y
    BY DEF Enumerates
  <2>3. i < m + j /\ c[i] = x /\ c[m + j] = y
    BY <1>1, <1>3, <1>4, <2>1, <2>2
  <2>. QED BY <1>2, <1>3, <1>4, <2>3 DEF Before
<1>. QED BY <1>5, <1>6, <1>7 DEF c

LEMMA InternalOrders ==
    ASSUME NEW L, NEW C, IsFiniteSet(C), NEW s \in internal_orders(L, C),
           \A x \in C : net(L, C, x) \in Int
    PROVE  /\ Enumerates(s, C)
           /\ \A x, y \in C : net(L, C, x) > net(L, C, y) => Before(x, y, s)
<1> DEFINE score == [m \in C |-> net(L, C, m)]
<1>1. /\ s \in SetToSeqs(C)
      /\ \A i, j \in DOMAIN s : i < j => score[s[i]] >= score[s[j]]
  BY DEF internal_orders
<1>2. \A x \in C : score[x] = net(L, C, x)
  OBVIOUS
<1> HIDE DEF score
<1>3. Enumerates(s, C) /\ DOMAIN s = 1 .. Len(s) /\ Len(s) \in Nat
  BY <1>1, Enumerations
<1>4. ASSUME NEW x \in C, NEW y \in C, net(L, C, x) > net(L, C, y) PROVE Before(x, y, s)
  <2>1. PICK i \in 1 .. Len(s) : s[i] = x
    BY <1>3 DEF Enumerates
  <2>2. PICK j \in 1 .. Len(s) : s[j] = y
    BY <1>3 DEF Enumerates
  <2>3. ~(j < i) /\ i # j
    <3>1. score[x] > score[y] /\ score[x] \in Int /\ score[y] \in Int
      BY <1>2, <1>4
    <3>2. ~(score[y] >= score[x]) /\ x # y
      BY <3>1
    <3>. QED BY <1>1, <1>3, <2>1, <2>2, <3>2
  <2>4. i < j
    BY <2>3
  <2>. QED BY <1>3, <2>1, <2>2, <2>4 DEF Before
<1>. QED BY <1>3, <1>4

Sofar(S, T, k) == UNION {S[T[i]] : i \in 1 .. k}

Arranged(L, S, T, k, a) ==
    /\ Enumerates(a, Sofar(S, T, k))
    /\ \A i, j \in 1 .. k : i < j => \A x \in S[T[i]], y \in S[T[j]] : Before(x, y, a)
    /\ \A i \in 1 .. k : \A x, y \in S[T[i]] :
         net(L, S[T[i]], x) > net(L, S[T[i]], y) => Before(x, y, a)

LEMMA ArrangedGoesOn ==
    ASSUME NEW L, NEW C, IsFiniteSet(C), NEW S, Divides(S, C), Len(S) \in Nat,
           NEW T, Enumerates(T, 1 .. Len(S)), Len(T) = Len(S),
           NEW k \in 1 .. Len(T), NEW a, Arranged(L, S, T, k - 1, a),
           NEW s \in internal_orders(L, S[T[k]]),
           \A x \in S[T[k]] : net(L, S[T[k]], x) \in Int
    PROVE  Arranged(L, S, T, k, a \o s)
<1> DEFINE H == Len(S)
           A == Sofar(S, T, k - 1)
           B == S[T[k]]
<1>1. /\ H \in Nat /\ k \in 1 .. H
      /\ \A i \in 1 .. H : T[i] \in 1 .. H
      /\ \A i, j \in 1 .. H : T[i] = T[j] => i = j
      /\ \A i \in 1 .. H : S[i] \in SUBSET C
  BY ElementOfSeq DEF Enumerates, Divides
<1>2. \A i \in 1 .. (k - 1) : i \in 1 .. H /\ i # k /\ i \in 1 .. k
  BY <1>1
<1>3. A \cap B = {}
  <2>1. ASSUME NEW i \in 1 .. (k - 1) PROVE S[T[i]] \cap B = {}
    <3>1. T[i] # T[k] /\ T[i] \in 1 .. H /\ T[k] \in 1 .. H
      BY <1>1, <1>2
    <3>. QED BY <3>1 DEF Divides
  <2>. QED BY <2>1 DEF Sofar
<1>4. Sofar(S, T, k) = A \cup B
  <2>1. 1 .. k = (1 .. (k - 1)) \cup {k}
    BY <1>1
  <2>. QED BY <2>1 DEF Sofar
<1>5. IsFiniteSet(B)
  <2>1. B \in SUBSET C
    BY <1>1
  <2>. QED BY <2>1, FS_Subset
<1> HIDE DEF A
<1>6. /\ Enumerates(s, B)
      /\ \A x, y \in B : net(L, B, x) > net(L, B, y) => Before(x, y, s)
  BY <1>5, InternalOrders
<1>7. Enumerates(a, A)
  BY DEF Arranged, A
<1>8. /\ \A x, y : Before(x, y, a) \/ Before(x, y, s) => Before(x, y, a \o s)
      /\ \A x \in A, y \in B : Before(x, y, a \o s)
  <2> HIDE DEF B
  <2>. QED BY <1>3, <1>6, <1>7, JoinBefore
<1>9. Enumerates(a \o s, Sofar(S, T, k))
  <2> HIDE DEF B
  <2>1. Enumerates(a \o s, A \cup B)
    BY <1>3, <1>6, <1>7, JoinEnumerates
  <2>. QED BY <1>4, <2>1
<1>10. ASSUME NEW i \in 1 .. k, NEW j \in 1 .. k, i < j, NEW x \in S[T[i]], NEW y \in S[T[j]]
       PROVE  Before(x, y, a \o s)
  <2>1. i \in 1 .. (k - 1)
    BY <1>1, <1>10
  <2>2. CASE j = k
    <3>1. x \in A
      BY <2>1 DEF A, Sofar
    <3>. QED BY <1>8, <2>2, <3>1
  <2>3. CASE j # k
    <3>1. j \in 1 .. (k - 1)
      BY <1>1, <2>3
    <3>2. Before(x, y, a)
      BY <1>10, <2>1, <3>1 DEF Arranged
    <3>. QED BY <1>8, <3>2
  <2>. QED BY <2>2, <2>3
<1>11. ASSUME NEW i \in 1 .. k, NEW x \in S[T[i]], NEW y \in S[T[i]],
              net(L, S[T[i]], x) > net(L, S[T[i]], y)
       PROVE  Before(x, y, a \o s)
  <2>1. CASE i = k
    BY <1>6, <1>8, <1>11, <2>1
  <2>2. CASE i # k
    <3>1. i \in 1 .. (k - 1)
      BY <1>1, <2>2
    <3>2. Before(x, y, a)
      BY <1>11, <3>1 DEF Arranged
    <3>. QED BY <1>8, <3>2
  <2>. QED BY <2>1, <2>2
<1>. QED BY <1>9, <1>10, <1>11 DEF Arranged

LEMMA Appended ==
    ASSUME NEW A, NEW L, NEW C, NEW x
    PROVE  x \in appended(A, L, C) <=> \E a \in A, s \in internal_orders(L, C) : x = a \o s
  BY DEF appended

LEMMA JoinedArranged ==
    ASSUME NEW L, NEW C, IsFiniteSet(C), NEW S, Divides(S, C), Len(S) \in Nat,
           NEW T, Enumerates(T, 1 .. Len(S)), Len(T) = Len(S),
           \A k \in 1 .. Len(S) : \A x \in S[k] : net(L, S[k], x) \in Int,
           NEW a \in joined(L, S, T)[Len(T)]
    PROVE  Arranged(L, S, T, Len(T), a)
<1> DEFINE H == Len(T)
           X == SUBSET Seq(C)
           On(k, A) == appended(A, L, S[T[k]])
           G == [p \in (1 .. H) \X X |-> On(p[1], p[2])]
           R(g) == g = [k \in 0 .. H |-> IF k = 0 THEN {<<>>} ELSE On(k, g[k - 1])]
           w == joined(L, S, T)
<1>1. /\ H \in Nat
      /\ \A k \in 1 .. H : T[k] \in 1 .. Len(S)
      /\ \A k \in 1 .. Len(S) : S[k] \in SUBSET C /\ IsFiniteSet(S[k])
  <2>1. \A k \in 1 .. H : T[k] \in 1 .. Len(S)
    BY ElementOfSeq DEF Enumerates
  <2>2. \A k \in 1 .. Len(S) : S[k] \in SUBSET C
    BY ElementOfSeq DEF Divides
  <2>. QED BY <2>1, <2>2, FS_Subset
<1>2. ASSUME NEW k \in 1 .. H, NEW A \in X PROVE On(k, A) \in X
  <2>1. ASSUME NEW b \in A, NEW s \in internal_orders(L, S[T[k]]) PROVE b \o s \in Seq(C)
    <3>1. Enumerates(s, S[T[k]])
      <4>1. s \in SetToSeqs(S[T[k]])
        BY DEF internal_orders
      <4>. QED BY <1>1, <4>1, Enumerations
    <3>2. s \in Seq(C)
      <4>1. s \in Seq(S[T[k]]) /\ S[T[k]] \in SUBSET C
        BY <1>1, <3>1 DEF Enumerates
      <4>. QED BY <4>1, SeqMonotonic
    <3>3. b \in Seq(C)
      OBVIOUS
    <3>. QED BY <3>2, <3>3, ConcatProperties
  <2>2. \A x \in On(k, A) : x \in Seq(C)
    <3>1. SUFFICES ASSUME NEW x \in On(k, A) PROVE x \in Seq(C)
      OBVIOUS
    <3>2. PICK b \in A, s \in internal_orders(L, S[T[k]]) : x = b \o s
      BY Appended, SMTT(30)
    <3>. QED BY <2>1, <3>2
  <2> HIDE DEF On
  <2>. QED BY <2>2
<1>3. G \in [(1 .. H) \X X -> X] /\ {<<>>} \in X
  <2>1. {<<>>} \in X
    OBVIOUS
  <2> HIDE DEF On, X
  <2>. QED BY <1>2, <2>1
<1>4. \A k \in 1 .. H : \A A \in X : G[<<k, A>>] = On(k, A)
  <2> HIDE DEF On
  <2>. QED OBVIOUS
<1>5. w = CHOOSE g : R(g)
  BY Zenon DEF joined
<1> HIDE DEF On, X, G
<1>6. PICK g : Runs(g, H, X, {<<>>}, G)
  BY <1>1, <1>3, LoopExists
<1>7. R(g)
  <2> DEFINE h == [k \in 0 .. H |-> IF k = 0 THEN {<<>>} ELSE On(k, g[k - 1])]
  <2>1. ASSUME NEW k \in 0 .. H PROVE g[k] = h[k]
    <3>1. CASE k = 0
      BY <1>6, <3>1 DEF Runs
    <3>2. CASE k # 0
      <4>1. k \in 1 .. H /\ k - 1 \in 0 .. H
        BY <1>1, <3>2
      <4>2. g[k - 1] \in X
        BY <1>6, <4>1 DEF Runs
      <4>3. g[k] = On(k, g[k - 1])
        BY <1>4, <1>6, <4>1, <4>2 DEF Runs
      <4>. QED BY <3>2, <4>3
    <3>. QED BY <3>1, <3>2
  <2>2. g = [k \in 0 .. H |-> g[k]] /\ DOMAIN h = 0 .. H
    BY <1>6 DEF Runs
  <2>3. g = h
    <3> HIDE DEF h
    <3>1. h = [k \in 0 .. H |-> h[k]]
      BY DEF h
    <3>. QED BY <2>1, <2>2, <3>1
  <2>. QED BY <2>3
<1>8. R(w)
  <2> HIDE DEF R, w
  <2>. QED BY <1>5, <1>7
<1>9. a \in w[H]
  OBVIOUS
<1> HIDE DEF w
<1>10. w[0] = {<<>>} /\ \A k \in 1 .. H : w[k] = On(k, w[k - 1])
  <2>1. \A k \in 0 .. H : w[k] = IF k = 0 THEN {<<>>} ELSE On(k, w[k - 1])
    BY <1>8
  <2>2. 0 \in 0 .. H /\ \A k \in 1 .. H : k \in 0 .. H /\ k # 0
    BY <1>1
  <2>. QED BY <2>1, <2>2
<1> DEFINE Y == {k \in 0 .. H : \A b \in w[k] : Arranged(L, S, T, k, b)}
<1>11. 0 \in Y
  <2>1. Sofar(S, T, 0) = {} /\ 1 .. 0 = {}
    BY DEF Sofar
  <2>2. Arranged(L, S, T, 0, <<>>)
    BY <2>1, NoneEnumerates DEF Arranged
  <2>. QED BY <1>1, <1>10, <2>2
<1>12. ASSUME NEW k \in 1 .. H, k - 1 \in Y PROVE k \in Y
  <2>1. ASSUME NEW b \in w[k] PROVE Arranged(L, S, T, k, b)
    <3>1. PICK c \in w[k - 1], s \in internal_orders(L, S[T[k]]) : b = c \o s
      <4>1. b \in appended(w[k - 1], L, S[T[k]])
        BY <1>10 DEF On
      <4> HIDE DEF R
      <4>. QED BY <4>1, Appended, SMTT(30)
    <3>2. Arranged(L, S, T, k - 1, c)
      BY <1>12
    <3>3. \A x \in S[T[k]] : net(L, S[T[k]], x) \in Int
      BY <1>1
    <3>4. Arranged(L, S, T, k, c \o s)
      BY <3>2, <3>3, ArrangedGoesOn
    <3>. QED BY <3>1, <3>4
  <2>. QED BY <1>1, <2>1
<1>13. H \in Y
  <2> HIDE DEF Y, R
  <2>1. \A k \in 1 .. H : k - 1 \in Y => k \in Y
    BY <1>12
  <2>2. \A k \in 0 .. H : k \in Y
    BY <1>1, <1>11, <2>1, UpTo
  <2>. QED BY <1>1, <2>2
<1>. QED BY <1>9, <1>13

-----------------------------------------------------------------------------
(* The lists of a round and what is counted in them.                       *)
AreLists(L) == \E m \in Nat : L \in [1 .. m -> Seq(Command)]

LEMMA SortedLists ==
    ASSUME NEW l \in OrderedList, NEW s \in sort_cmds(l)
    PROVE  s \in Seq(Command) /\ Len(s) = Len(l.cmds)
<1>1. l.cmds \in Seq(Command) /\ Len(l.cmds) \in Nat
  BY DEF OrderedList
<1>2. CASE s = l.cmds
  BY <1>1, <1>2
<1>3. CASE s # l.cmds
  <2> DEFINE n == Len(l.cmds)
  <2>1. PICK p \in Perms(n) : s = [i \in DOMAIN p |-> l.cmds[p[i]]]
    BY <1>3 DEF sort_cmds
  <2>2. p \in [1 .. n -> 1 .. n]
    BY <2>1 DEF Perms
  <2>3. \A i \in 1 .. n : l.cmds[i] \in Command
    BY <1>1, ElementOfSeq
  <2> HIDE DEF n
  <2>4. s \in [1 .. n -> Command]
    BY <2>1, <2>2, <2>3
  <2>. QED BY <1>1, <2>4 DEF n
<1>. QED BY <1>2, <1>3

LEMMA ReadingsAreLists ==
    ASSUME NEW R \in Seq(OrderedList), NEW L \in readings(R)
    PROVE  /\ L \in [1 .. Len(R) -> Seq(Command)] /\ Len(R) \in Nat
           /\ DOMAIN R = 1 .. Len(R) /\ AreLists(L)
           /\ \A i \in 1 .. Len(R) : R[i] \in OrderedList /\ L[i] \in sort_cmds(R[i])
<1>1. Len(R) \in Nat /\ DOMAIN R = 1 .. Len(R) /\ \A i \in 1 .. Len(R) : R[i] \in OrderedList
  BY LenProperties, ElementOfSeq
<1>2. \E X : L \in [1 .. Len(R) -> X]
  BY <1>1 DEF readings
<1>3. \A i \in 1 .. Len(R) : L[i] \in sort_cmds(R[i])
  BY <1>1 DEF readings
<1>4. \A i \in 1 .. Len(R) : L[i] \in Seq(Command)
  BY <1>1, <1>3, SortedLists
<1>5. L \in [1 .. Len(R) -> Seq(Command)]
  BY <1>2, <1>4
<1>. QED BY <1>1, <1>3, <1>5 DEF AreLists

LEMMA Places ==
    ASSUME NEW L, AreLists(L)
    PROVE  /\ IsFiniteSet(places(L))
           /\ \A x \in places(L) :
                /\ x = <<x[1], x[2]>> /\ x[1] \in DOMAIN L
                /\ x[2] \in 1 .. Len(L[x[1]]) /\ L[x[1]][x[2]] \in Command
           /\ \A r \in DOMAIN L : /\ L[r] \in Seq(Command) /\ Len(L[r]) \in Nat
                                  /\ DOMAIN L[r] = 1 .. Len(L[r])
                                  /\ \A i \in 1 .. Len(L[r]) : <<r, i>> \in places(L)
<1>1. PICK m \in Nat : L \in [1 .. m -> Seq(Command)]
  BY DEF AreLists
<1>2. \A r \in 1 .. m : L[r] \in Seq(Command) /\ Len(L[r]) \in Nat /\ DOMAIN L[r] = 1 .. Len(L[r])
  BY <1>1, LenProperties
<1> DEFINE row == [r \in 1 .. m |-> {r} \X DOMAIN L[r]]
           rows == {{r} \X DOMAIN L[r] : r \in 1 .. m}
<1>3. IsFiniteSet(rows)
  <2>1. row \in Surjection(1 .. m, rows)
    BY DEF Surjection
  <2>2. IsFiniteSet(1 .. m)
    BY Interval
  <2> HIDE DEF row, rows
  <2>. QED BY <2>1, <2>2, FS_Surjection
<1>4. \A X \in rows : IsFiniteSet(X)
  <2>1. ASSUME NEW r \in 1 .. m PROVE IsFiniteSet({r} \X DOMAIN L[r])
    <3>1. IsFiniteSet({r}) /\ IsFiniteSet(DOMAIN L[r])
      BY <1>2, FS_Singleton, Interval
    <3>. QED BY <3>1, FS_Product
  <2>. QED BY <2>1
<1>5. places(L) = UNION rows
  BY <1>1 DEF places
<1>6. IsFiniteSet(places(L))
  <2> HIDE DEF rows
  <2>. QED BY <1>3, <1>4, <1>5, FS_UNION
<1>7. ASSUME NEW x \in places(L)
      PROVE  /\ x = <<x[1], x[2]>> /\ x[1] \in 1 .. m
             /\ x[2] \in 1 .. Len(L[x[1]]) /\ L[x[1]][x[2]] \in Command
  <2>1. PICK r \in 1 .. m : x \in {r} \X DOMAIN L[r]
    BY <1>5
  <2>2. x = <<x[1], x[2]>> /\ x[1] = r /\ x[2] \in 1 .. Len(L[r])
    BY <1>2, <2>1
  <2>. QED BY <1>2, <2>2, ElementOfSeq
<1>8. ASSUME NEW r \in 1 .. m, NEW i \in 1 .. Len(L[r]) PROVE <<r, i>> \in places(L)
  BY <1>2, <1>5
<1>. QED BY <1>1, <1>2, <1>6, <1>7, <1>8

LEMMA KnownFinite ==
    ASSUME NEW L, AreLists(L)
    PROVE  IsFiniteSet(known(L)) /\ known(L) \in SUBSET Command
<1> DEFINE P == {y \in places(L) : Cardinality(met_before(L, y)) < max_number_cmds}
           f == [x \in P |-> L[x[1]][x[2]]]
<1>1. IsFiniteSet(P)
  BY Places, FS_Subset
<1>2. known(L) = {L[x[1]][x[2]] : x \in P}
  BY DEF known
<1>3. \A x \in P : x \in places(L)
  OBVIOUS
<1> HIDE DEF P
<1>4. f \in Surjection(P, known(L))
  BY <1>2 DEF Surjection
<1> HIDE DEF f
<1>5. IsFiniteSet(known(L))
  BY <1>1, <1>4, FS_Surjection
<1>6. \A x \in P : L[x[1]][x[2]] \in Command
  BY <1>3, Places
<1>. QED BY <1>2, <1>5, <1>6

LEMMA PrefType ==
    ASSUME NEW L, AreLists(L), NEW A, NEW B
    PROVE  pref(L, A, B) \in Nat
<1> DEFINE P == at(L, A)
           Q == at(L, B)
           X == {x \in P \X Q : x[1][1] = x[2][1] /\ x[1][2] < x[2][2]}
<1>1. IsFiniteSet(P) /\ IsFiniteSet(Q)
  <2>1. P \in SUBSET places(L) /\ Q \in SUBSET places(L)
    BY DEF at
  <2>. QED BY <2>1, Places, FS_Subset
<1>2. IsFiniteSet(P \X Q)
  BY <1>1, FS_Product
<1>3. X \in SUBSET (P \X Q)
  OBVIOUS
<1>4. IsFiniteSet(X)
  <2> HIDE DEF X
  <2>. QED BY <1>2, <1>3, FS_Subset
<1>. QED BY <1>4, FS_CardinalityType DEF pref

LEMMA CanonicalPosType ==
    ASSUME NEW L, AreLists(L), NEW C, IsFiniteSet(C)
    PROVE  canonical_pos(L, C) \in [C -> Nat]
<1>1. ASSUME NEW tx \in C
      PROVE  Cardinality({o \in C \ {tx} : pref(L, {o}, {tx}) >= threshold}) \in Nat
  BY FS_Subset, FS_CardinalityType
<1>. QED BY <1>1 DEF canonical_pos

LEMMA ClustersOf ==
    ASSUME NEW L, AreLists(L)
    PROVE  LET S == clusters(L)
               H == Len(S)
               E == he_adj(L, S)
           IN  /\ IsFiniteSet(known(L)) /\ Divides(S, known(L))
               /\ H \in Nat /\ DOMAIN S = 1 .. H
               /\ E \in SUBSET ((1 .. H) \X (1 .. H))
               /\ Enumerates(topological_sort(E, H), 1 .. H)
               /\ Len(topological_sort(E, H)) = H
<1> DEFINE C == known(L)
           pos == canonical_pos(L, C)
           S == clusters(L)
           H == Len(S)
           E == he_adj(L, S)
<1>1. IsFiniteSet(C) /\ pos \in [C -> Nat]
  BY KnownFinite, CanonicalPosType
<1>2. S = detect_clusters(pos)
  BY DEF clusters
<1> HIDE DEF C, pos, S
<1>3. Divides(S, C) /\ H \in Nat /\ DOMAIN S = 1 .. H
  BY <1>1, <1>2, ClustersDivide
<1>4. E \in SUBSET ((1 .. H) \X (1 .. H))
  BY <1>3 DEF he_adj
<1> HIDE DEF E
<1>5. Enumerates(topological_sort(E, H), 1 .. H)
  BY <1>3, <1>4, TopologicalSort
<1>6. Len(topological_sort(E, H)) = H
  BY <1>3, <1>5, Interval, Enumerations
<1>. QED BY <1>1, <1>3, <1>4, <1>5, <1>6 DEF C, S, E

(* What finalize returns holds the known commands, each once, with the     *)
(* clusters one after the other.                                           *)
LEMMA ResultsArranged ==
    ASSUME NEW L, AreLists(L), NEW s \in results(L)
    PROVE  LET S == clusters(L)
               T == topological_sort(he_adj(L, S), Len(S))
           IN  /\ Enumerates(s, known(L)) /\ s \in SetToSeqs(known(L))
               /\ Arranged(L, S, T, Len(S), s)
<1> DEFINE C == known(L)
           S == clusters(L)
           H == Len(S)
           T == topological_sort(he_adj(L, S), H)
<1>1. /\ IsFiniteSet(C) /\ Divides(S, C) /\ H \in Nat
      /\ Enumerates(T, 1 .. H) /\ Len(T) = H
  BY ClustersOf
<1>2. s \in joined(L, S, T)[Len(T)]
  BY DEF results
<1> HIDE DEF C, S, T
<1>3. \A k \in 1 .. H : \A x \in S[k] : net(L, S[k], x) \in Int
  <2>1. ASSUME NEW D, NEW x PROVE net(L, D, x) \in Int
    <3>1. pref(L, {x}, D \ {x}) \in Nat /\ pref(L, D \ {x}, {x}) \in Nat
      BY PrefType
    <3>. QED BY <3>1 DEF net
  <2>. QED BY <2>1
<1>4. Arranged(L, S, T, H, s)
  <2>1. Arranged(L, S, T, Len(T), s)
    BY <1>1, <1>2, <1>3, JoinedArranged
  <2>. QED BY <1>1, <2>1
<1>5. Sofar(S, T, H) = C
  <2>1. \A k \in 1 .. H : T[k] \in 1 .. H
    BY <1>1, ElementOfSeq DEF Enumerates
  <2>2. \A k \in 1 .. H : S[k] \in SUBSET C
    BY <1>1, ElementOfSeq DEF Divides
  <2>3. ASSUME NEW x \in C PROVE \E i \in 1 .. H : x \in S[T[i]]
    <3>1. PICK k \in 1 .. H : x \in S[k]
      BY <1>1 DEF Divides
    <3>2. PICK i \in 1 .. H : T[i] = k
      BY <1>1 DEF Enumerates
    <3>. QED BY <3>1, <3>2
  <2>4. \A i \in 1 .. H : S[T[i]] \in SUBSET C
    BY <2>1, <2>2
  <2>. QED BY <2>3, <2>4 DEF Sofar
<1>6. Enumerates(s, C)
  BY <1>4, <1>5 DEF Arranged
<1>7. s \in SetToSeqs(C)
  BY <1>1, <1>6, Enumerations
<1>. QED BY <1>4, <1>6, <1>7 DEF C, S, T

(* When no cycle of preferences keeps clusters apart from the sort, all    *)
(* preferences between clusters are respected.                             *)
LEMMA ResultsRespect ==
    ASSUME NEW L, AreLists(L), NEW s \in results(L)
    PROVE  LET S == clusters(L)
               E == he_adj(L, S)
           IN  (\A T \in (SUBSET DOMAIN S) \ {{}} :
                    \E v \in T : \A u \in T : <<u, v>> \notin E) =>
                 \A e \in E : \A a \in S[e[1]], b \in S[e[2]] : Before(a, b, s)
<1> DEFINE S == clusters(L)
           H == Len(S)
           E == he_adj(L, S)
           T == topological_sort(E, H)
<1>1. /\ H \in Nat /\ DOMAIN S = 1 .. H /\ E \in SUBSET ((1 .. H) \X (1 .. H))
      /\ Enumerates(T, 1 .. H) /\ Len(T) = H
  BY ClustersOf
<1>2. Arranged(L, S, T, H, s)
  BY ResultsArranged
<1>3. (\A U \in (SUBSET (1 .. H)) \ {{}} : \E v \in U : \A u \in U : <<u, v>> \notin E) =>
        \A e \in E : Before(e[1], e[2], T)
  <2> HIDE DEF E, S
  <2>. QED BY <1>1, TopologicalSort
<1> HIDE DEF S, E, T
<1>4. SUFFICES ASSUME \A U \in (SUBSET (1 .. H)) \ {{}} :
                        \E v \in U : \A u \in U : <<u, v>> \notin E,
                      NEW e \in E, NEW a \in S[e[1]], NEW b \in S[e[2]]
               PROVE  Before(a, b, s)
  BY <1>1 DEF S, E
<1>5. DOMAIN T = 1 .. H
  BY <1>1, LenProperties DEF Enumerates
<1>6. PICK i \in 1 .. H, j \in 1 .. H : i < j /\ T[i] = e[1] /\ T[j] = e[2]
  BY <1>3, <1>4, <1>5 DEF Before
<1>. QED BY <1>2, <1>6 DEF Arranged

-----------------------------------------------------------------------------
(* The invariant: the order is a result for the lists, read in some way.   *)
HGInv ==
    /\ orderedlists \in Rounds /\ delta \in Delta
    /\ done => \E L \in readings(orderedlists) : order \in results(L)

LEMMA HGStep == HGInv /\ [finalize]_hg_vars => HGInv'
<1> SUFFICES ASSUME HGInv, [finalize]_hg_vars PROVE HGInv'
  OBVIOUS
<1>1. CASE finalize
  <2>1. orderedlists' = orderedlists /\ delta' = delta
    BY <1>1 DEF finalize
  <2>2. PICK L \in readings(orderedlists) : order' \in results(L)
    BY <1>1 DEF finalize
  <2>3. results(L)' = results(L)
    BY <2>1 DEF results, clusters, detect_clusters, starts
  <2>4. order' \in results(L)'
    BY <2>2, <2>3
  <2>. QED BY <2>1, <2>4 DEF HGInv
<1>2. CASE UNCHANGED hg_vars
  <2>1. UNCHANGED <<orderedlists, delta, done, order>>
    BY <1>2 DEF hg_vars
  <2>2. \A L : results(L)' = results(L)
    BY <2>1 DEF results, clusters, detect_clusters, starts
  <2>. QED BY <2>1, <2>2 DEF HGInv
<1>. QED BY <1>1, <1>2

(* The order is one of finalize's results for the lists of the round, as   *)
(* sort_cmds may have read them: HyperGraph::finalize, called once.        *)
THEOREM HGSpecInv == HGSpec => []HGInv
<1>1. HGInit => HGInv
  BY DEF HGInit, HGInv
<1>. QED BY <1>1, HGStep, PTL DEF HGSpec

LEMMA Round ==
    ASSUME HGInv
    PROVE  /\ orderedlists \in Seq(OrderedList) /\ Len(orderedlists) \in 1 .. n_nodes
           /\ delta \in Int /\ delta >= 1
  BY HyperGraphAssumption DEF HGInv

(* No command that has an id is lost or repeated, whatever the clusters    *)
(* and the cycles of the preferences between them (topological_sort adds   *)
(* those that the queue never reaches).                                    *)
THEOREM HGEachOnce == HGSpec => []EachOnce
<1>1. HGInv => EachOnce
  <2>1. SUFFICES ASSUME HGInv, done
                 PROVE  \E L \in readings(orderedlists) : order \in SetToSeqs(known(L))
    BY DEF EachOnce
  <2>2. PICK L \in readings(orderedlists) : order \in results(L)
    BY <2>1 DEF HGInv
  <2>3. AreLists(L)
    BY <2>1, Round, ReadingsAreLists
  <2>. QED BY <2>2, <2>3, ResultsArranged
<1>. QED BY <1>1, HGSpecInv, PTL

(* Unless the preferences between clusters form a cycle, each one is       *)
(* respected by the order: topological_sort with its queue.                *)
THEOREM HGDependenciesRespected == HGSpec => []DependenciesRespected
<1>1. HGInv => DependenciesRespected
  <2>1. SUFFICES ASSUME HGInv, done PROVE DependenciesRespected
    BY DEF DependenciesRespected
  <2>2. PICK L \in readings(orderedlists) : order \in results(L)
    BY <2>1 DEF HGInv
  <2>3. AreLists(L)
    BY <2>1, Round, ReadingsAreLists
  <2>4. order \in SetToSeqs(known(L))
    BY <2>2, <2>3, ResultsArranged
  <2>. QED BY <2>2, <2>3, <2>4, ResultsRespect DEF DependenciesRespected
<1>. QED BY <1>1, HGSpecInv, PTL

-----------------------------------------------------------------------------
(* Two enumerations with the same order are the same.                      *)
LEMMA Increasing ==
    ASSUME NEW n \in Nat, NEW g \in [1 .. n -> 1 .. n],
           \A i, j \in 1 .. n : i < j => g[i] < g[j]
    PROVE  \A i \in 1 .. n : g[i] >= i
<1> DEFINE G == {k \in 0 .. n : k = 0 \/ g[k] >= k}
<1>1. 0 \in G
  OBVIOUS
<1>2. ASSUME NEW k \in 1 .. n, k - 1 \in G PROVE k \in G
  <2>1. CASE k = 1
    BY <2>1
  <2>2. CASE k # 1
    <3>1. k - 1 \in 1 .. n /\ k - 1 < k /\ k - 1 # 0
      BY <2>2
    <3>2. g[k - 1] >= k - 1
      BY <1>2, <3>1
    <3>3. g[k - 1] < g[k] /\ g[k - 1] \in Int /\ g[k] \in Int
      BY <3>1
    <3>. QED BY <3>2, <3>3
  <2>. QED BY <2>1, <2>2
<1>3. \A k \in 0 .. n : k \in G
  <2> HIDE DEF G
  <2>. QED BY <1>1, <1>2, UpTo
<1>. QED BY <1>3

LEMMA BeforeIsTotal ==
    ASSUME NEW C, NEW s, Enumerates(s, C), NEW x \in C, NEW y \in C, x # y
    PROVE  (Before(x, y, s) \/ Before(y, x, s)) /\ ~(Before(x, y, s) /\ Before(y, x, s))
<1>1. DOMAIN s = 1 .. Len(s) /\ Len(s) \in Nat
  BY LenProperties DEF Enumerates
<1>2. PICK i \in 1 .. Len(s) : s[i] = x
  BY DEF Enumerates
<1>3. PICK j \in 1 .. Len(s) : s[j] = y
  BY DEF Enumerates
<1>4. \A k \in 1 .. Len(s) : (s[k] = x => k = i) /\ (s[k] = y => k = j)
  BY <1>2, <1>3 DEF Enumerates
<1>5. (Before(x, y, s) <=> i < j) /\ (Before(y, x, s) <=> j < i)
  BY <1>1, <1>2, <1>3, <1>4 DEF Before
<1>6. i # j /\ i \in Int /\ j \in Int
  BY <1>2, <1>3
<1>. QED BY <1>5, <1>6

LEMMA PositionsGrow ==
    ASSUME NEW C, NEW s, Enumerates(s, C), NEW t, Enumerates(t, C), Len(s) = Len(t),
           \A x, y \in C : Before(x, y, s) => Before(x, y, t),
           NEW i \in 1 .. Len(s), NEW k \in 1 .. Len(s), t[k] = s[i]
    PROVE  k >= i
<1> DEFINE n == Len(s)
           g == [j \in 1 .. n |-> CHOOSE p \in 1 .. n : t[p] = s[j]]
<1>1. n \in Nat /\ DOMAIN s = 1 .. n /\ DOMAIN t = 1 .. n
  BY LenProperties DEF Enumerates
<1>2. \A j \in 1 .. n : s[j] \in C
  BY ElementOfSeq DEF Enumerates
<1>3. \A p, q \in 1 .. n : t[p] = t[q] => p = q
  BY DEF Enumerates
<1>4. ASSUME NEW j \in 1 .. n PROVE g[j] \in 1 .. n /\ t[g[j]] = s[j]
  <2>1. \E p \in 1 .. n : t[p] = s[j]
    BY <1>2 DEF Enumerates
  <2>2. g[j] = CHOOSE p \in 1 .. n : t[p] = s[j]
    OBVIOUS
  <2> HIDE DEF g
  <2>. QED BY <2>1, <2>2
<1>5. g \in [1 .. n -> 1 .. n]
  BY <1>4
<1> HIDE DEF g
<1>6. ASSUME NEW a \in 1 .. n, NEW b \in 1 .. n, a < b PROVE g[a] < g[b]
  <2>1. Before(s[a], s[b], s)
    BY <1>1, <1>6 DEF Before
  <2>2. Before(s[a], s[b], t)
    BY <1>2, <2>1
  <2>3. PICK p \in 1 .. n, q \in 1 .. n : p < q /\ t[p] = s[a] /\ t[q] = s[b]
    BY <1>1, <2>2 DEF Before
  <2>4. g[a] = p /\ g[b] = q
    BY <1>4, <1>3, <2>3
  <2>. QED BY <2>3, <2>4
<1>7. g[i] >= i
  BY <1>1, <1>5, <1>6, Increasing
<1>8. g[i] = k
  BY <1>4, <1>3
<1>. QED BY <1>7, <1>8

LEMMA OneOrder ==
    ASSUME NEW C, IsFiniteSet(C), NEW s, Enumerates(s, C), NEW t, Enumerates(t, C),
           \A x, y \in C : Before(x, y, s) => Before(x, y, t)
    PROVE  t = s
<1>1. Len(s) = Len(t) /\ Len(s) \in Nat
  BY Enumerations
<1>2. \A x, y \in C : Before(x, y, t) => Before(x, y, s)
  <2>1. SUFFICES ASSUME NEW x \in C, NEW y \in C, Before(x, y, t) PROVE Before(x, y, s)
    OBVIOUS
  <2>2. x # y
    <3>1. DOMAIN t = 1 .. Len(t)
      BY LenProperties DEF Enumerates
    <3>2. PICK i \in 1 .. Len(t), j \in 1 .. Len(t) : i < j /\ t[i] = x /\ t[j] = y
      BY <2>1, <3>1 DEF Before
    <3>3. i # j
      BY <3>2
    <3>. QED BY <3>2, <3>3 DEF Enumerates
  <2>. QED BY <2>1, <2>2, BeforeIsTotal
<1>3. ASSUME NEW i \in 1 .. Len(s) PROVE t[i] = s[i]
  <2>1. s[i] \in C
    BY ElementOfSeq DEF Enumerates
  <2>2. PICK k \in 1 .. Len(s) : t[k] = s[i]
    BY <1>1, <2>1 DEF Enumerates
  <2>3. k >= i
    BY <1>1, <2>2, PositionsGrow
  <2>4. i >= k
    BY <1>1, <1>2, <2>2, PositionsGrow
  <2>5. k = i
    BY <2>3, <2>4
  <2>. QED BY <2>2, <2>5
<1>. QED BY <1>1, <1>3, SeqEqual DEF Enumerates

(* The clusters follow the positions; with delta = 1 they tell any two     *)
(* positions apart.                                                        *)
LEMMA ClustersFollow ==
    ASSUME NEW L, AreLists(L), delta \in Int,
           NEW k \in 1 .. Len(clusters(L)), NEW x \in clusters(L)[k],
           NEW l \in 1 .. Len(clusters(L)), NEW y \in clusters(L)[l]
    PROVE  LET pos == canonical_pos(L, known(L))
           IN  /\ x \in known(L) /\ y \in known(L)
               /\ pos[x] \in Nat /\ pos[y] \in Nat
               /\ pos[x] <= pos[y] => k <= l
               /\ delta <= 1 /\ pos[x] < pos[y] => k < l
<1> DEFINE C == known(L)
           pos == canonical_pos(L, C)
           begin == starts(pos)
           S == clusters(L)
           Low(c) == {v \in begin : v <= pos[c]}
<1>1. IsFiniteSet(C) /\ pos \in [C -> Nat]
  BY KnownFinite, CanonicalPosType
<1>2. begin \in SUBSET Nat /\ IsFiniteSet(begin)
  BY <1>1, StartsFinite
<1>3. S = detect_clusters(pos)
  BY DEF clusters
<1>4. S[k] = {c \in C : Cardinality(Low(c)) = k} /\ S[l] = {c \in C : Cardinality(Low(c)) = l}
  <2> HIDE DEF C, pos, S
  <2>1. \A j \in 1 .. Len(detect_clusters(pos)) : detect_clusters(pos)[j] =
           {c \in C : Cardinality({v \in starts(pos) : v <= pos[c]}) = j}
    BY <1>1, ClustersDivide
  <2>2. k \in 1 .. Len(S) /\ l \in 1 .. Len(S)
    BY DEF S
  <2>. QED BY <1>3, <2>1, <2>2
<1>5. /\ x \in C /\ y \in C /\ Cardinality(Low(x)) = k /\ Cardinality(Low(y)) = l
  BY <1>4
<1>6. pos[x] \in Nat /\ pos[y] \in Nat
  BY <1>1, <1>5
<1>7. \A c \in C : IsFiniteSet(Low(c))
  BY <1>2, FS_Subset
<1>8. ASSUME pos[x] <= pos[y] PROVE Low(x) \in SUBSET Low(y)
  <2>1. \A v \in begin : v <= pos[x] => v <= pos[y]
    <3> HIDE DEF begin, pos
    <3>. QED BY <1>2, <1>6, <1>8
  <2>. QED BY <2>1
<1>9. ASSUME delta <= 1, pos[x] < pos[y] PROVE pos[y] \in Low(y) /\ pos[y] \notin Low(x)
  <2>1. pos[y] \in begin
    <3>1. DOMAIN pos = C /\ \A e \in C : pos[e] \in Nat
      BY <1>1
    <3>2. \A e \in C : pos[e] < pos[y] => pos[y] - pos[e] >= delta
      <4> HIDE DEF pos
      <4>. QED BY <1>6, <1>9, <3>1
    <3>. QED BY <1>5, <3>1, <3>2 DEF starts
  <2>. QED BY <1>6, <1>9, <2>1
<1> HIDE DEF Low, pos, C, begin
<1>10. pos[x] <= pos[y] => k <= l
  BY <1>5, <1>7, <1>8, FS_Subset
<1>11. delta <= 1 /\ pos[x] < pos[y] => k < l
  <2>1. SUFFICES ASSUME delta <= 1, pos[x] < pos[y] PROVE k < l
    OBVIOUS
  <2>2. Low(x) \in SUBSET Low(y) /\ Low(x) # Low(y)
    BY <1>6, <1>8, <1>9, <2>1
  <2>3. k <= l /\ k # l
    BY <1>5, <1>7, <2>2, FS_Subset
  <2>. QED BY <2>3
<1>. QED BY <1>5, <1>6, <1>10, <1>11 DEF C, pos

(* All commands of the lists get an id when there are not too many.        *)
LEMMA AllKnown ==
    ASSUME NEW L, AreLists(L), NEW D, IsFiniteSet(D), Cardinality(D) <= max_number_cmds,
           \A x \in places(L) : L[x[1]][x[2]] \in D,
           NEW x \in places(L)
    PROVE  L[x[1]][x[2]] \in known(L)
<1> DEFINE c == L[x[1]][x[2]]
           P == {y \in places(L) : L[y[1]][y[2]] = c}
           R == {y[1] : y \in P}
<1>1. \A y \in places(L) : /\ y = <<y[1], y[2]>> /\ y[1] \in Nat
                           /\ y[2] \in Nat
  <2>1. PICK m \in Nat : L \in [1 .. m -> Seq(Command)]
    BY DEF AreLists
  <2>2. \A y \in places(L) : y = <<y[1], y[2]>> /\ y[1] \in 1 .. m /\ y[2] \in 1 .. Len(L[y[1]])
    BY <2>1, Places
  <2>. QED BY <2>2
<1>2. x \in P
  OBVIOUS
<1>3. PICK r \in R : \A k \in R : r <= k
  <2>1. R \in SUBSET Nat /\ R # {}
    BY <1>1, <1>2
  <2> HIDE DEF R
  <2>. QED BY <2>1, MinNat
<1> DEFINE I == {y[2] : y \in {z \in P : z[1] = r}}
<1>4. PICK i \in I : \A k \in I : i <= k
  <2>1. I \in SUBSET Nat /\ I # {}
    BY <1>1, <1>3
  <2> HIDE DEF I
  <2>. QED BY <2>1, MinNat
<1>5. PICK y \in P : y[1] = r /\ y[2] = i
  BY <1>4
<1>6. \A z \in P : ~(z[1] < y[1] \/ (z[1] = y[1] /\ z[2] < y[2]))
  <2>1. ASSUME NEW z \in P PROVE ~(z[1] < y[1]) /\ (z[1] = y[1] => ~(z[2] < y[2]))
    <3>1. z[1] \in Nat /\ z[2] \in Nat /\ y[1] \in Nat /\ y[2] \in Nat
      BY <1>1
    <3>2. r <= z[1]
      BY <1>3
    <3>3. z[1] = r => i <= z[2]
      BY <1>4
    <3>. QED BY <1>5, <3>1, <3>2, <3>3
  <2>. QED BY <2>1
<1>7. met_before(L, y) \in SUBSET (D \ {c})
  <2>1. ASSUME NEW z \in places(L), z[1] < y[1] \/ (z[1] = y[1] /\ z[2] < y[2])
        PROVE  L[z[1]][z[2]] \in D \ {c}
    BY <1>6, <2>1
  <2>. QED BY <2>1 DEF met_before
<1>8. c \in D /\ L[y[1]][y[2]] = c /\ y \in places(L)
  OBVIOUS
<1> HIDE DEF c, P
<1>9. IsFiniteSet(D \ {c}) /\ Cardinality(D \ {c}) = Cardinality(D) - 1 /\ Cardinality(D) \in Nat
  BY <1>8, FS_RemoveElement, FS_CardinalityType
<1>10. Cardinality(met_before(L, y)) <= Cardinality(D) - 1 /\ Cardinality(met_before(L, y)) \in Nat
  BY <1>7, <1>9, FS_Subset, FS_CardinalityType
<1>11. Cardinality(met_before(L, y)) < max_number_cmds
  BY <1>9, <1>10, HyperGraphAssumption
<1>12. c \in known(L)
  BY <1>8, <1>11 DEF known
<1>. QED BY <1>12 DEF c

(* When the clusters, their scores and the edges between them follow s,    *)
(* finalize returns s.                                                     *)
LEMMA Forced ==
    ASSUME NEW L, AreLists(L), delta \in Int, NEW s, Enumerates(s, known(L)),
           NEW t \in results(L),
           \A k, l \in 1 .. Len(clusters(L)) : k < l =>
             /\ ~before(L, clusters(L)[l], clusters(L)[k])
             /\ clusters(L)[k] # {} /\ clusters(L)[l] # {} =>
                  before(L, clusters(L)[k], clusters(L)[l]),
           \A x, y \in known(L) : Before(x, y, s) =>
             canonical_pos(L, known(L))[x] <= canonical_pos(L, known(L))[y],
           \A k \in 1 .. Len(clusters(L)) : \A x, y \in clusters(L)[k] :
             Before(x, y, s) => net(L, clusters(L)[k], x) > net(L, clusters(L)[k], y)
    PROVE  t = s
<1> DEFINE C == known(L)
           S == clusters(L)
           H == Len(S)
           E == he_adj(L, S)
           T == topological_sort(E, H)
<1>1. /\ IsFiniteSet(C) /\ Divides(S, C) /\ H \in Nat /\ DOMAIN S = 1 .. H
      /\ E \in SUBSET ((1 .. H) \X (1 .. H)) /\ Enumerates(T, 1 .. H)
      /\ Len(T) = H
  BY ClustersOf
<1>2. Enumerates(t, C) /\ Arranged(L, S, T, H, t)
  BY ResultsArranged
<1>3. \A k, l \in 1 .. H : k < l => /\ <<l, k>> \notin E
                                    /\ S[k] # {} /\ S[l] # {} => <<k, l>> \in E
  <2>1. SUFFICES ASSUME NEW k \in 1 .. H, NEW l \in 1 .. H, k < l
                 PROVE  /\ <<l, k>> \notin E
                        /\ S[k] # {} /\ S[l] # {} => <<k, l>> \in E
    OBVIOUS
  <2>2. k # l
    BY <2>1
  <2>3. ~before(L, S[l], S[k]) /\ (S[k] # {} /\ S[l] # {} => before(L, S[k], S[l]))
    BY <2>1
  <2> HIDE DEF S
  <2>. QED BY <1>1, <2>2, <2>3 DEF he_adj
<1>4. \A U \in (SUBSET DOMAIN S) \ {{}} : \E v \in U : \A u \in U : <<u, v>> \notin E
  <2>1. SUFFICES ASSUME NEW U \in SUBSET (1 .. H), U # {}
                 PROVE  \E v \in U : \A u \in U : <<u, v>> \notin E
    BY <1>1
  <2>2. PICK v \in U : \A u \in U : v <= u
    <3>1. U \in SUBSET Nat
      BY <1>1
    <3>. QED BY <2>1, <3>1, MinNat
  <2>3. ASSUME NEW u \in U PROVE <<u, v>> \notin E
    <3>1. CASE u = v
      BY <3>1 DEF he_adj
    <3>2. CASE u # v
      <4>1. v < u /\ u \in 1 .. H /\ v \in 1 .. H
        BY <1>1, <2>2, <3>2
      <4>. QED BY <1>3, <4>1
    <3>. QED BY <3>1, <3>2
  <2>. QED BY <2>3
<1>5. \A e \in E : \A a \in S[e[1]], b \in S[e[2]] : Before(a, b, t)
  BY <1>4, ResultsRespect
<1>6. ASSUME NEW x \in C, NEW y \in C, Before(x, y, s) PROVE Before(x, y, t)
  <2>1. PICK k \in 1 .. H : x \in S[k]
    BY <1>1 DEF Divides
  <2>2. PICK l \in 1 .. H : y \in S[l]
    BY <1>1 DEF Divides
  <2>3. k <= l
    BY <1>6, <2>1, <2>2, ClustersFollow
  <2>4. CASE k = l
    <3>1. PICK i \in 1 .. H : T[i] = k
      BY <1>1 DEF Enumerates
    <3>2. net(L, S[k], x) > net(L, S[k], y)
      BY <1>6, <2>1, <2>2, <2>4
    <3> HIDE DEF S, T
    <3>. QED BY <1>2, <2>1, <2>2, <2>4, <3>1, <3>2 DEF Arranged
  <2>5. CASE k # l
    <3>1. k < l
      BY <1>1, <2>3, <2>5
    <3>2. <<k, l>> \in E
      BY <1>3, <2>1, <2>2, <3>1
    <3> HIDE DEF S, E
    <3>. QED BY <1>5, <2>1, <2>2, <3>2
  <2>. QED BY <2>4, <2>5
<1> HIDE DEF C
<1>7. Enumerates(s, C)
  BY DEF C
<1>. QED BY <1>1, <1>2, <1>6, <1>7, OneOrder

-----------------------------------------------------------------------------
(* The pairs that pref counts.                                             *)
pairs(L, A, B) ==
    {x \in at(L, A) \X at(L, B) : x[1][1] = x[2][1] /\ x[1][2] < x[2][2]}

LEMMA Pairs ==
    ASSUME NEW L, AreLists(L), NEW A, NEW B
    PROVE  /\ IsFiniteSet(pairs(L, A, B))
           /\ pref(L, A, B) = Cardinality(pairs(L, A, B)) /\ pref(L, A, B) \in Nat
           /\ \A x \in pairs(L, A, B) : \E r \in DOMAIN L : \E i, j \in 1 .. Len(L[r]) :
                i < j /\ L[r][i] \in A /\ L[r][j] \in B /\ x = <<<<r, i>>, <<r, j>>>>
           /\ \A r \in DOMAIN L : \A i, j \in 1 .. Len(L[r]) :
                i < j /\ L[r][i] \in A /\ L[r][j] \in B =>
                  <<<<r, i>>, <<r, j>>>> \in pairs(L, A, B)
<1>1. IsFiniteSet(at(L, A)) /\ IsFiniteSet(at(L, B))
  <2>1. at(L, A) \in SUBSET places(L) /\ at(L, B) \in SUBSET places(L)
    BY DEF at
  <2>. QED BY <2>1, Places, FS_Subset
<1>2. IsFiniteSet(at(L, A) \X at(L, B))
  BY <1>1, FS_Product
<1>3. pairs(L, A, B) \in SUBSET (at(L, A) \X at(L, B))
  BY DEF pairs
<1>4. IsFiniteSet(pairs(L, A, B))
  BY <1>2, <1>3, FS_Subset
<1>5. pref(L, A, B) = Cardinality(pairs(L, A, B))
  BY DEF pref, pairs
<1>6. \A D : \A x \in at(L, D) :
        x = <<x[1], x[2]>> /\ x[1] \in DOMAIN L /\ x[2] \in 1 .. Len(L[x[1]]) /\ L[x[1]][x[2]] \in D
  BY Places DEF at
<1>7. \A D : \A r \in DOMAIN L : \A i \in 1 .. Len(L[r]) : L[r][i] \in D => <<r, i>> \in at(L, D)
  BY Places DEF at
<1>8. ASSUME NEW x \in pairs(L, A, B)
      PROVE  \E r \in DOMAIN L : \E i, j \in 1 .. Len(L[r]) :
               i < j /\ L[r][i] \in A /\ L[r][j] \in B /\ x = <<<<r, i>>, <<r, j>>>>
  <2>1. PICK p \in at(L, A), q \in at(L, B) : x = <<p, q>> /\ p[1] = q[1] /\ p[2] < q[2]
    BY DEF pairs
  <2>2. p = <<p[1], p[2]>> /\ q = <<p[1], q[2]>>
    BY <1>6, <2>1
  <2>3. /\ p[1] \in DOMAIN L /\ p[2] \in 1 .. Len(L[p[1]]) /\ q[2] \in 1 .. Len(L[p[1]])
        /\ L[p[1]][p[2]] \in A /\ L[p[1]][q[2]] \in B
    BY <1>6, <2>1
  <2>. QED BY <2>1, <2>2, <2>3
<1>9. ASSUME NEW r \in DOMAIN L, NEW i \in 1 .. Len(L[r]), NEW j \in 1 .. Len(L[r]),
             i < j, L[r][i] \in A, L[r][j] \in B
      PROVE  <<<<r, i>>, <<r, j>>>> \in pairs(L, A, B)
  <2>1. <<r, i>> \in at(L, A) /\ <<r, j>> \in at(L, B)
    BY <1>7, <1>9
  <2>. QED BY <1>9, <2>1 DEF pairs
<1>. QED BY <1>4, <1>5, <1>8, <1>9, FS_CardinalityType

(* Lists that are all s: a cluster's scores follow s.                      *)
LEMMA SameLists ==
    ASSUME NEW L, AreLists(L), NEW s, DOMAIN L # {}, \A r \in DOMAIN L : L[r] = s,
           NEW D, Enumerates(s, D)
    PROVE  /\ s \in Seq(Command) /\ Len(s) \in Nat
           /\ DOMAIN s = 1 .. Len(s)
           /\ \A A, B : (\E x \in A, y \in B : Before(x, y, s)) => pref(L, A, B) > 0
           /\ \A A, B : ~(\E x \in A, y \in B : Before(x, y, s)) => pref(L, A, B) = 0
<1>1. PICK r \in DOMAIN L : L[r] = s
  OBVIOUS
<1>2. s \in Seq(Command) /\ Len(s) \in Nat /\ DOMAIN s = 1 .. Len(s)
  BY <1>1, Places
<1>3. ASSUME NEW A, NEW B, NEW x \in A, NEW y \in B, Before(x, y, s) PROVE pref(L, A, B) > 0
  <2>1. PICK i \in 1 .. Len(s), j \in 1 .. Len(s) : i < j /\ s[i] = x /\ s[j] = y
    BY <1>2, <1>3 DEF Before
  <2>2. <<<<r, i>>, <<r, j>>>> \in pairs(L, A, B)
    BY <1>1, <2>1, Pairs
  <2>3. pref(L, A, B) # 0 /\ pref(L, A, B) \in Nat
    BY <2>2, Pairs, FS_EmptySet
  <2>. QED BY <2>3
<1>4. ASSUME NEW A, NEW B, ~(\E x \in A, y \in B : Before(x, y, s)) PROVE pref(L, A, B) = 0
  <2>1. ASSUME NEW p \in pairs(L, A, B) PROVE FALSE
    <3>1. PICK q \in DOMAIN L : \E i, j \in 1 .. Len(L[q]) :
            i < j /\ L[q][i] \in A /\ L[q][j] \in B
      BY Pairs
    <3>2. PICK i \in 1 .. Len(s), j \in 1 .. Len(s) : i < j /\ s[i] \in A /\ s[j] \in B
      BY <3>1
    <3>3. Before(s[i], s[j], s)
      BY <1>2, <3>2 DEF Before
    <3>. QED BY <1>4, <3>2, <3>3
  <2>2. pairs(L, A, B) = {}
    BY <2>1
  <2>. QED BY <2>2, Pairs, FS_EmptySet
<1>. QED BY <1>2, <1>3, <1>4

LEMMA SameScores ==
    ASSUME NEW L, AreLists(L), NEW s, DOMAIN L # {}, \A r \in DOMAIN L : L[r] = s,
           NEW D, Enumerates(s, D),
           NEW C, NEW x \in C, NEW y \in C, Before(x, y, s)
    PROVE  net(L, C, x) > net(L, C, y)
<1> DEFINE n == Len(s)
           P == pairs(L, {x}, C \ {x})
           Q == pairs(L, {y}, C \ {y})
           V == pairs(L, C \ {x}, {x})
           W == pairs(L, C \ {y}, {y})
<1>1. n \in Nat /\ DOMAIN s = 1 .. n /\ \A i, j \in 1 .. n : s[i] = s[j] => i = j
  BY SameLists DEF Enumerates
<1>2. PICK a \in 1 .. n, b \in 1 .. n : a < b /\ s[a] = x /\ s[b] = y
  BY <1>1 DEF Before
<1>3. PICK r \in DOMAIN L : L[r] = s
  OBVIOUS
<1>4. \A i \in 1 .. n : (s[i] = x => i = a) /\ (s[i] = y => i = b)
  BY <1>1, <1>2
<1>5. x # y
  BY <1>1, <1>2
<1>6. Cardinality(Q) < Cardinality(P)
  <2> DEFINE f == [p \in Q |-> <<<<p[2][1], a>>, p[2]>>]
             z == <<<<r, a>>, <<r, b>>>>
  <2>1. ASSUME NEW p \in Q
        PROVE  \E q \in DOMAIN L, j \in 1 .. n : b < j /\ s[j] \in C \ {y} /\ p = <<<<q, b>>, <<q, j>>>>
    <3>1. PICK q \in DOMAIN L, i \in 1 .. n, j \in 1 .. n :
            i < j /\ s[i] \in {y} /\ s[j] \in C \ {y} /\ p = <<<<q, i>>, <<q, j>>>>
      BY Pairs
    <3>2. i = b
      BY <1>4, <3>1
    <3>. QED BY <3>1, <3>2
  <2>2. ASSUME NEW p \in Q PROVE f[p] \in P \ {z}
    <3>1. PICK q \in DOMAIN L, j \in 1 .. n : b < j /\ s[j] \in C \ {y} /\ p = <<<<q, b>>, <<q, j>>>>
      BY <2>1
    <3>2. a < j /\ j # b
      BY <1>2, <3>1
    <3>3. f[p] = <<<<q, a>>, <<q, j>>>>
      BY <3>1
    <3>4. s[j] \in C \ {x}
      BY <1>4, <3>1, <3>2
    <3> HIDE DEF f
    <3>5. f[p] \in P
      BY <1>2, <3>2, <3>3, <3>4, Pairs
    <3>. QED BY <3>2, <3>3, <3>5
  <2>3. ASSUME NEW p \in Q, NEW q \in Q, f[p] = f[q] PROVE p = q
    <3>1. \A v \in Q : v = <<<<v[2][1], b>>, v[2]>>
      <4>1. SUFFICES ASSUME NEW v \in Q PROVE v = <<<<v[2][1], b>>, v[2]>>
        OBVIOUS
      <4>2. PICK c \in DOMAIN L, j \in 1 .. n : v = <<<<c, b>>, <<c, j>>>>
        BY <2>1
      <4>. QED BY <4>2
    <3>2. p[2] = q[2]
      BY <2>3
    <3>. QED BY <3>1, <3>2
  <2>4. z \in P
    BY <1>2, <1>3, <1>5, Pairs
  <2>5. f \in Injection(Q, P \ {z})
    <3>1. f \in [Q -> P \ {z}]
      BY <2>2
    <3> HIDE DEF f, z
    <3>. QED BY <2>3, <3>1 DEF Injection, IsInjective
  <2>6. /\ IsFiniteSet(P) /\ IsFiniteSet(Q) /\ Cardinality(P) \in Nat /\ Cardinality(Q) \in Nat
        /\ IsFiniteSet(P \ {z}) /\ Cardinality(P \ {z}) = Cardinality(P) - 1
    <3>1. IsFiniteSet(P) /\ IsFiniteSet(Q)
      BY Pairs
    <3> HIDE DEF P, Q, z
    <3>. QED BY <2>4, <3>1, FS_CardinalityType, FS_RemoveElement
  <2> HIDE DEF f, z, P, Q
  <2>7. Cardinality(Q) <= Cardinality(P \ {z})
    BY <2>5, <2>6, FS_Injection
  <2>. QED BY <2>6, <2>7
<1>7. Cardinality(V) <= Cardinality(W)
  <2> DEFINE f == [p \in V |-> <<p[1], <<p[1][1], b>>>>]
  <2>1. ASSUME NEW p \in V
        PROVE  \E q \in DOMAIN L, i \in 1 .. n : i < a /\ s[i] \in C \ {x} /\ p = <<<<q, i>>, <<q, a>>>>
    <3>1. PICK q \in DOMAIN L, i \in 1 .. n, j \in 1 .. n :
            i < j /\ s[i] \in C \ {x} /\ s[j] \in {x} /\ p = <<<<q, i>>, <<q, j>>>>
      BY Pairs
    <3>2. j = a
      BY <1>4, <3>1
    <3>. QED BY <3>1, <3>2
  <2>2. ASSUME NEW p \in V PROVE f[p] \in W
    <3>1. PICK q \in DOMAIN L, i \in 1 .. n : i < a /\ s[i] \in C \ {x} /\ p = <<<<q, i>>, <<q, a>>>>
      BY <2>1
    <3>2. i < b /\ i # b
      BY <1>2, <3>1
    <3>3. f[p] = <<<<q, i>>, <<q, b>>>>
      BY <3>1
    <3>4. s[i] \in C \ {y}
      BY <1>4, <3>1, <3>2
    <3> HIDE DEF f
    <3>. QED BY <1>2, <3>2, <3>3, <3>4, Pairs
  <2>3. ASSUME NEW p \in V, NEW q \in V, f[p] = f[q] PROVE p = q
    <3>1. \A v \in V : v = <<v[1], <<v[1][1], a>>>>
      <4>1. SUFFICES ASSUME NEW v \in V PROVE v = <<v[1], <<v[1][1], a>>>>
        OBVIOUS
      <4>2. PICK c \in DOMAIN L, i \in 1 .. n : v = <<<<c, i>>, <<c, a>>>>
        BY <2>1
      <4>. QED BY <4>2
    <3>2. p[1] = q[1]
      BY <2>3
    <3>. QED BY <3>1, <3>2
  <2>4. f \in Injection(V, W)
    <3>1. f \in [V -> W]
      BY <2>2
    <3> HIDE DEF f
    <3>. QED BY <2>3, <3>1 DEF Injection, IsInjective
  <2>5. IsFiniteSet(V) /\ IsFiniteSet(W)
    BY Pairs
  <2> HIDE DEF f, V, W
  <2>. QED BY <2>4, <2>5, FS_Injection
<1>8. /\ pref(L, {x}, C \ {x}) = Cardinality(P) /\ pref(L, {x}, C \ {x}) \in Nat
      /\ pref(L, {y}, C \ {y}) = Cardinality(Q) /\ pref(L, {y}, C \ {y}) \in Nat
      /\ pref(L, C \ {x}, {x}) = Cardinality(V) /\ pref(L, C \ {x}, {x}) \in Nat
      /\ pref(L, C \ {y}, {y}) = Cardinality(W) /\ pref(L, C \ {y}, {y}) \in Nat
  BY Pairs
<1> HIDE DEF P, Q, V, W
<1>. QED BY <1>6, <1>7, <1>8 DEF net

(* Lists without repetitions: each counts once for a pair of commands.     *)
LEMMA PrefOfLists ==
    ASSUME NEW L, AreLists(L), NEW a, NEW b,
           \A r \in DOMAIN L : \A i, j \in 1 .. Len(L[r]) : L[r][i] = L[r][j] => i = j
    PROVE  pref(L, {a}, {b}) = Cardinality({r \in DOMAIN L : Before(a, b, L[r])})
<1> DEFINE P == pairs(L, {a}, {b})
           V == {r \in DOMAIN L : Before(a, b, L[r])}
           f == [x \in P |-> x[1][1]]
<1>1. \A r \in DOMAIN L : DOMAIN L[r] = 1 .. Len(L[r])
  BY Places
<1>2. ASSUME NEW x \in P
      PROVE  \E r \in V : \E i, j \in 1 .. Len(L[r]) :
               L[r][i] = a /\ L[r][j] = b /\ x = <<<<r, i>>, <<r, j>>>>
  <2>1. PICK r \in DOMAIN L : \E i, j \in 1 .. Len(L[r]) :
          i < j /\ L[r][i] \in {a} /\ L[r][j] \in {b} /\ x = <<<<r, i>>, <<r, j>>>>
    BY Pairs
  <2>2. Before(a, b, L[r])
    BY <1>1, <2>1 DEF Before
  <2>. QED BY <2>1, <2>2
<1>3. \A x \in P : f[x] \in V
  <2>1. SUFFICES ASSUME NEW x \in P PROVE f[x] \in V
    OBVIOUS
  <2>2. PICK r \in V : \E i, j \in 1 .. Len(L[r]) :
          L[r][i] = a /\ L[r][j] = b /\ x = <<<<r, i>>, <<r, j>>>>
    BY <1>2
  <2>3. x[1][1] = r
    BY <2>2
  <2>. QED BY <2>3
<1>4. ASSUME NEW x \in P, NEW y \in P, f[x] = f[y] PROVE x = y
  <2>1. PICK r \in V : \E i, j \in 1 .. Len(L[r]) :
          L[r][i] = a /\ L[r][j] = b /\ x = <<<<r, i>>, <<r, j>>>>
    BY <1>2
  <2>2. PICK q \in V : \E k, l \in 1 .. Len(L[q]) :
          L[q][k] = a /\ L[q][l] = b /\ y = <<<<q, k>>, <<q, l>>>>
    BY <1>2
  <2>3. q = r
    BY <1>4, <2>1, <2>2
  <2>4. PICK i \in 1 .. Len(L[r]), j \in 1 .. Len(L[r]) :
          L[r][i] = a /\ L[r][j] = b /\ x = <<<<r, i>>, <<r, j>>>>
    BY <2>1
  <2>5. PICK k \in 1 .. Len(L[r]), l \in 1 .. Len(L[r]) :
          L[r][k] = a /\ L[r][l] = b /\ y = <<<<r, k>>, <<r, l>>>>
    BY <2>2, <2>3
  <2>6. i = k /\ j = l
    BY <2>4, <2>5
  <2>. QED BY <2>4, <2>5, <2>6
<1>5. ASSUME NEW r \in V PROVE \E x \in P : f[x] = r
  <2>1. PICK i \in 1 .. Len(L[r]), j \in 1 .. Len(L[r]) : i < j /\ L[r][i] = a /\ L[r][j] = b
    BY <1>1 DEF Before
  <2>2. <<<<r, i>>, <<r, j>>>> \in P
    BY <2>1, Pairs
  <2>3. f[<<<<r, i>>, <<r, j>>>>] = r
    BY <2>2
  <2>. QED BY <2>2, <2>3
<1>6. f \in Bijection(P, V)
  <2>1. f \in [P -> V]
    BY <1>3
  <2> HIDE DEF f, P, V
  <2>. QED BY <1>4, <1>5, <2>1 DEF Bijection, Injection, Surjection, IsInjective
<1>7. IsFiniteSet(P) /\ pref(L, {a}, {b}) = Cardinality(P)
  BY Pairs
<1> HIDE DEF f, P, V
<1>8. Cardinality(V) = Cardinality(P)
  BY <1>6, <1>7, FS_Bijection DEF ExistsBijection
<1>. QED BY <1>7, <1>8 DEF V

LEMMA Threshold ==
    /\ nfaulty \in Nat /\ n_nodes \in Nat /\ 3 * nfaulty + 1 <= n_nodes
    /\ threshold \in Nat /\ threshold > nfaulty
<1>1. n_nodes \in Nat /\ n_nodes >= 1 /\ slack \in Nat
  BY HyperGraphAssumption
<1>2. (n_nodes - 1) \div 3 \in Nat /\ 3 * ((n_nodes - 1) \div 3) + 1 <= n_nodes
  BY <1>1
<1>. QED BY <1>1, <1>2 DEF nfaulty, threshold

(* A list that is as long as the set of its commands repeats none.         *)
LEMMA NoRepeats ==
    ASSUME NEW s \in Seq(Command), Cardinality(ToSet(s)) = Len(s)
    PROVE  Enumerates(s, ToSet(s)) /\ IsFiniteSet(ToSet(s))
<1> DEFINE n == Len(s)
           D == ToSet(s)
<1>1. n \in Nat /\ s \in [1 .. n -> Command] /\ DOMAIN s = 1 .. n
  BY LenProperties
<1>2. D = {s[i] : i \in 1 .. n}
  BY <1>1 DEF ToSet
<1>3. s \in Surjection(1 .. n, D)
  BY <1>1, <1>2 DEF Surjection
<1> HIDE DEF D
<1>4. IsFiniteSet(1 .. n) /\ Cardinality(1 .. n) = n
  BY <1>1, Interval
<1>5. Cardinality(D) = n
  BY DEF D
<1>6. IsFiniteSet(D) /\ s \in Injection(1 .. n, D)
  BY <1>3, <1>4, <1>5, FS_Surjection
<1>7. s \in Seq(D)
  <2>1. s \in [1 .. n -> D]
    BY <1>3 DEF Surjection
  <2>. QED BY <1>1, <2>1
<1>8. Enumerates(s, D)
  BY <1>3, <1>6, <1>7, <1>1 DEF Enumerates, Surjection, Injection, IsInjective
<1>. QED BY <1>6, <1>8 DEF D

LEMMA BeforeIsTransitive ==
    ASSUME NEW C, NEW s, Enumerates(s, C), NEW x, NEW y, NEW z,
           Before(x, y, s), Before(y, z, s)
    PROVE  Before(x, z, s) /\ x # z /\ x \in C /\ z \in C
<1>1. DOMAIN s = 1 .. Len(s)
  BY LenProperties DEF Enumerates
<1>2. PICK i \in 1 .. Len(s), j \in 1 .. Len(s) : i < j /\ s[i] = x /\ s[j] = y
  BY <1>1 DEF Before
<1>3. PICK k \in 1 .. Len(s), l \in 1 .. Len(s) : k < l /\ s[k] = y /\ s[l] = z
  BY <1>1 DEF Before
<1>4. j = k
  BY <1>2, <1>3 DEF Enumerates
<1>5. i < l /\ i # l
  BY <1>2, <1>3, <1>4
<1>6. x \in C /\ z \in C
  BY <1>2, <1>3, ElementOfSeq DEF Enumerates
<1>. QED BY <1>1, <1>2, <1>3, <1>5, <1>6 DEF Before, Enumerates

(* When the positions follow s, the clusters do.                           *)
LEMMA ClustersInOrder ==
    ASSUME NEW L, AreLists(L), delta \in Int, NEW s, Enumerates(s, known(L)),
           \A x, y \in known(L) : Before(x, y, s) =>
             canonical_pos(L, known(L))[x] <= canonical_pos(L, known(L))[y],
           NEW k \in 1 .. Len(clusters(L)), NEW l \in 1 .. Len(clusters(L)), k < l,
           NEW x \in clusters(L)[k], NEW y \in clusters(L)[l]
    PROVE  Before(x, y, s) /\ ~Before(y, x, s)
<1> DEFINE C == known(L)
           pos == canonical_pos(L, C)
<1>1. x \in C /\ y \in C /\ pos[x] \in Nat
  BY ClustersFollow
<1>2. pos[y] <= pos[x] => l <= k
  BY ClustersFollow
<1>3. k \in Int /\ l \in Int
  OBVIOUS
<1>4. ~(pos[y] <= pos[x])
  <2> HIDE DEF pos
  <2>. QED BY <1>2, <1>3
<1>5. ~Before(y, x, s)
  BY <1>1, <1>4
<1>6. x # y
  <2> HIDE DEF pos
  <2>. QED BY <1>1, <1>4
<1>. QED BY <1>1, <1>5, <1>6, BeforeIsTotal

(* finalize keeps the order that all lists have in common.                 *)
LEMMA SameListsAreKept ==
    ASSUME NEW L, AreLists(L), delta \in Int, NEW s, DOMAIN L # {}, \A r \in DOMAIN L : L[r] = s,
           Cardinality(ToSet(s)) = Len(s), Len(s) <= max_number_cmds,
           NEW t \in results(L)
    PROVE  t = s
<1> DEFINE C == known(L)
           D == ToSet(s)
           S == clusters(L)
           pos == canonical_pos(L, C)
<1>1. PICK r \in DOMAIN L : L[r] = s
  OBVIOUS
<1>2. /\ s \in Seq(Command) /\ Len(s) \in Nat /\ DOMAIN s = 1 .. Len(s)
      /\ \A i \in 1 .. Len(s) : <<r, i>> \in places(L)
  BY <1>1, Places
<1>3. Enumerates(s, D) /\ IsFiniteSet(D)
  BY <1>2, NoRepeats
<1>4. C = D
  <2>1. \A x \in places(L) : L[x[1]][x[2]] \in D
    <3>1. SUFFICES ASSUME NEW x \in places(L) PROVE L[x[1]][x[2]] \in D
      OBVIOUS
    <3>2. L[x[1]] = s /\ x[2] \in 1 .. Len(s)
      BY Places
    <3>3. s[x[2]] \in D
      BY <1>2, <3>2 DEF ToSet
    <3>. QED BY <3>2, <3>3
  <2>2. \A x \in C : x \in D
    BY <2>1 DEF known
  <2>3. ASSUME NEW x \in D PROVE x \in C
    <3>1. PICK i \in 1 .. Len(s) : s[i] = x
      BY <1>3 DEF Enumerates
    <3> DEFINE y == <<r, i>>
    <3>2. y \in places(L) /\ L[y[1]][y[2]] = x
      BY <1>1, <1>2, <3>1
    <3> HIDE DEF y, D, C
    <3>3. Cardinality(D) <= max_number_cmds
      BY DEF D
    <3>4. L[y[1]][y[2]] \in known(L)
      BY <1>3, <2>1, <3>2, <3>3, AllKnown
    <3>. QED BY <3>2, <3>4 DEF C
  <2>. QED BY <2>2, <2>3
<1> HIDE DEF C, D
<1>5. Enumerates(s, C) /\ IsFiniteSet(C)
  BY <1>3, <1>4
<1>6. \A a, b : Before(a, b, s) => pref(L, {a}, {b}) = Cardinality(DOMAIN L)
  <2>1. SUFFICES ASSUME NEW a, NEW b, Before(a, b, s)
                 PROVE  pref(L, {a}, {b}) = Cardinality(DOMAIN L)
    OBVIOUS
  <2>2. \A q \in DOMAIN L : \A i, j \in 1 .. Len(L[q]) : L[q][i] = L[q][j] => i = j
    BY <1>5 DEF Enumerates
  <2>3. {q \in DOMAIN L : Before(a, b, L[q])} = DOMAIN L
    BY <2>1
  <2>4. pref(L, {a}, {b}) = Cardinality({q \in DOMAIN L : Before(a, b, L[q])})
    BY <2>2, PrefOfLists
  <2>. QED BY <2>3, <2>4
<1>7. ASSUME NEW x \in C, NEW y \in C, Before(x, y, s) PROVE pos[x] <= pos[y]
  <2> DEFINE X(z) == {o \in C \ {z} : pref(L, {o}, {z}) >= threshold}
  <2>1. pos[x] = Cardinality(X(x)) /\ pos[y] = Cardinality(X(y))
    BY DEF canonical_pos
  <2>2. ASSUME NEW o \in X(x) PROVE o \in X(y)
    <3>1. pref(L, {o}, {x}) # 0
      BY Threshold
    <3>2. Before(o, x, s)
      BY <1>5, <3>1, SameLists
    <3>3. Before(o, y, s) /\ o # y
      BY <1>5, <1>7, <3>2, BeforeIsTransitive
    <3>4. pref(L, {o}, {y}) = pref(L, {o}, {x})
      BY <1>6, <3>2, <3>3
    <3>. QED BY <3>3, <3>4
  <2>3. X(x) \in SUBSET X(y)
    BY <2>2
  <2>4. IsFiniteSet(X(y))
    <3>1. X(y) \in SUBSET C
      OBVIOUS
    <3>. QED BY <1>5, <3>1, FS_Subset
  <2> HIDE DEF X, pos
  <2>. QED BY <2>1, <2>3, <2>4, FS_Subset
<1>8. ASSUME NEW k \in 1 .. Len(S), NEW l \in 1 .. Len(S), k < l, NEW x \in S[k], NEW y \in S[l]
      PROVE  Before(x, y, s) /\ ~Before(y, x, s)
  BY <1>5, <1>7, <1>8, ClustersInOrder DEF C
<1>9. \A k, l \in 1 .. Len(S) : k < l =>
        /\ ~before(L, S[l], S[k])
        /\ S[k] # {} /\ S[l] # {} => before(L, S[k], S[l])
  <2>1. SUFFICES ASSUME NEW k \in 1 .. Len(S), NEW l \in 1 .. Len(S), k < l
                 PROVE  /\ ~before(L, S[l], S[k])
                        /\ S[k] # {} /\ S[l] # {} => before(L, S[k], S[l])
    OBVIOUS
  <2>2. pref(L, S[l], S[k]) = 0
    <3>1. ~(\E x \in S[l], y \in S[k] : Before(x, y, s))
      BY <1>8, <2>1
    <3> HIDE DEF S
    <3>. QED BY <1>5, <3>1, SameLists
  <2>3. pref(L, S[k], S[l]) \in Nat
    BY PrefType
  <2>4. S[k] # {} /\ S[l] # {} => pref(L, S[k], S[l]) > 0
    <3>1. S[k] # {} /\ S[l] # {} => \E x \in S[k], y \in S[l] : Before(x, y, s)
      BY <1>8, <2>1
    <3> HIDE DEF S
    <3>. QED BY <1>5, <3>1, SameLists
  <2>. QED BY <2>2, <2>3, <2>4 DEF before
<1>10. \A k \in 1 .. Len(S) : \A x, y \in S[k] :
         Before(x, y, s) => net(L, S[k], x) > net(L, S[k], y)
  <2> HIDE DEF S
  <2>. QED BY <1>5, SameScores
<1>. QED BY <1>5, <1>7, <1>9, <1>10, Forced DEF C

(* The order that all replicas have in common is kept: the way of lists    *)
(* that are all the same through canonical_pos, detect_clusters,           *)
(* internal_order and topological_sort, for any delta and threshold.       *)
THEOREM HGSameOrderIsKept == HGSpec => []SameOrderIsKept
<1>1. HGInv => SameOrderIsKept
  <2>1. SUFFICES ASSUME HGInv, done, NEW s \in sort_cmds(orderedlists[1]),
                        \A i \in Lists : sort_cmds(orderedlists[i]) = {s},
                        Cardinality(ToSet(s)) = Len(s), Len(s) <= max_number_cmds
                 PROVE  order = s
    BY DEF SameOrderIsKept
  <2>2. PICK L \in readings(orderedlists) : order \in results(L)
    BY <2>1 DEF HGInv
  <2>3. /\ AreLists(L) /\ DOMAIN L = 1 .. Len(orderedlists)
        /\ DOMAIN orderedlists = 1 .. Len(orderedlists)
        /\ \A i \in 1 .. Len(orderedlists) : L[i] \in sort_cmds(orderedlists[i])
    BY <2>1, Round, ReadingsAreLists
  <2>4. DOMAIN L # {} /\ delta \in Int
    BY <2>1, <2>3, Round
  <2>5. \A r \in DOMAIN L : L[r] = s
    BY <2>1, <2>3 DEF Lists
  <2>. QED BY <2>1, <2>2, <2>3, <2>4, <2>5, SameListsAreKept
<1>. QED BY <1>1, HGSpecInv, PTL

LEMMA SortedInjective ==
    ASSUME NEW l \in OrderedList, IsInjective(l.cmds), NEW s \in sort_cmds(l)
    PROVE  /\ \A i, j \in 1 .. Len(s) : s[i] = s[j] => i = j
           /\ \A i \in 1 .. Len(s) : s[i] \in ToSet(l.cmds)
<1> DEFINE n == Len(l.cmds)
<1>1. l.cmds \in Seq(Command) /\ n \in Nat /\ DOMAIN l.cmds = 1 .. n
  BY LenProperties DEF OrderedList
<1>2. /\ \A i, j \in 1 .. n : l.cmds[i] = l.cmds[j] => i = j
      /\ \A i \in 1 .. n : l.cmds[i] \in ToSet(l.cmds)
  BY <1>1 DEF IsInjective, ToSet
<1>3. CASE s = l.cmds
  BY <1>1, <1>2, <1>3
<1>4. CASE s # l.cmds
  <2>1. PICK p \in Perms(n) : s = [i \in DOMAIN p |-> l.cmds[p[i]]]
    BY <1>4 DEF sort_cmds
  <2>2. p \in [1 .. n -> 1 .. n] /\ \A i, j \in 1 .. n : i # j => p[i] # p[j]
    BY <2>1 DEF Perms
  <2>3. Len(s) = n
    BY SortedLists
  <2> HIDE DEF n
  <2>4. \A i \in 1 .. n : s[i] = l.cmds[p[i]] /\ p[i] \in 1 .. n
    BY <2>1, <2>2
  <2>5. \A i, j \in 1 .. n : s[i] = s[j] => i = j
    BY <1>2, <2>2, <2>4
  <2>6. \A i \in 1 .. n : s[i] \in ToSet(l.cmds)
    BY <1>2, <2>4
  <2>. QED BY <2>3, <2>5, <2>6 DEF n
<1>. QED BY <1>3, <1>4

LEMMA PrefOfNone ==
    ASSUME NEW L, AreLists(L), NEW A
    PROVE  pref(L, A, {}) = 0 /\ pref(L, {}, A) = 0
<1>1. pairs(L, A, {}) = {} /\ pairs(L, {}, A) = {}
  BY Pairs
<1>. QED BY <1>1, Pairs, FS_EmptySet

(* finalize with delta = 1 keeps the order of all but nfaulty replicas.    *)
LEMMA MostListsAreKept ==
    ASSUME NEW L, AreLists(L), delta = 1, NEW s, NEW t \in results(L),
           NEW Y \in SUBSET DOMAIN L, \A r \in Y : L[r] = s,
           IsFiniteSet(DOMAIN L), Cardinality(DOMAIN L) <= n_nodes,
           Cardinality(Y) >= n_nodes - nfaulty,
           Cardinality(ToSet(s)) = Len(s), Len(s) <= max_number_cmds,
           \A r \in DOMAIN L : \A i, j \in 1 .. Len(L[r]) : L[r][i] = L[r][j] => i = j,
           \A r \in DOMAIN L : \A i \in 1 .. Len(L[r]) : L[r][i] \in ToSet(s),
           threshold <= n_nodes - nfaulty
    PROVE  t = s
<1> DEFINE C == known(L)
           D == ToSet(s)
           S == clusters(L)
           pos == canonical_pos(L, C)
           n == n_nodes
           f == nfaulty
<1>1. /\ n \in Nat /\ f \in Nat /\ 3 * f + 1 <= n
      /\ threshold \in Nat /\ threshold > f /\ threshold <= n - f
  BY Threshold
<1>2. /\ IsFiniteSet(Y) /\ Cardinality(Y) \in Nat /\ Cardinality(DOMAIN L) \in Nat
      /\ IsFiniteSet((DOMAIN L) \ Y)
      /\ Cardinality((DOMAIN L) \ Y) = Cardinality(DOMAIN L) - Cardinality(Y)
  <2>1. IsFiniteSet(Y) /\ (DOMAIN L) \cap Y = Y
    BY FS_Subset
  <2>2. Cardinality(Y) \in Nat /\ Cardinality(DOMAIN L) \in Nat
    BY <2>1, FS_CardinalityType
  <2>3. /\ IsFiniteSet((DOMAIN L) \ Y)
        /\ Cardinality((DOMAIN L) \ Y) = Cardinality(DOMAIN L) - Cardinality((DOMAIN L) \cap Y)
    BY FS_Difference
  <2>. QED BY <2>1, <2>2, <2>3
<1>3. Cardinality(Y) >= n - f /\ Cardinality((DOMAIN L) \ Y) <= f
  BY <1>1, <1>2
<1>4. PICK r \in Y : L[r] = s
  <2>1. Cardinality(Y) # 0
    BY <1>1, <1>2, <1>3
  <2>2. Y # {}
    BY <2>1, FS_EmptySet
  <2>. QED BY <2>2
<1>5. /\ s \in Seq(Command) /\ Len(s) \in Nat /\ DOMAIN s = 1 .. Len(s)
      /\ \A i \in 1 .. Len(s) : <<r, i>> \in places(L)
  BY <1>4, Places
<1>6. Enumerates(s, D) /\ IsFiniteSet(D)
  BY <1>5, NoRepeats
<1>7. C = D
  <2>1. \A x \in places(L) : L[x[1]][x[2]] \in D
    BY Places
  <2>2. \A x \in C : x \in D
    BY <2>1 DEF known
  <2>3. ASSUME NEW x \in D PROVE x \in C
    <3>1. PICK i \in 1 .. Len(s) : s[i] = x
      BY <1>6 DEF Enumerates
    <3> DEFINE y == <<r, i>>
    <3>2. y \in places(L) /\ L[y[1]][y[2]] = x
      BY <1>4, <1>5, <3>1
    <3>3. Cardinality(D) <= max_number_cmds
      OBVIOUS
    <3> HIDE DEF y, D, C
    <3>4. L[y[1]][y[2]] \in known(L)
      BY <1>6, <2>1, <3>2, <3>3, AllKnown
    <3>. QED BY <3>2, <3>4 DEF C
  <2>. QED BY <2>2, <2>3
<1> HIDE DEF C, D
<1>8. Enumerates(s, C) /\ IsFiniteSet(C)
  BY <1>6, <1>7
<1>9. ASSUME NEW a \in C, NEW b \in C, a # b, Before(a, b, s)
      PROVE  /\ pref(L, {a}, {b}) \in Nat /\ pref(L, {b}, {a}) \in Nat
             /\ pref(L, {a}, {b}) >= n - f /\ pref(L, {b}, {a}) <= f
  <2> DEFINE V(x, y) == {q \in DOMAIN L : Before(x, y, L[q])}
  <2>1. \A x, y : pref(L, {x}, {y}) = Cardinality(V(x, y))
    BY PrefOfLists
  <2>2. Y \in SUBSET V(a, b) /\ V(a, b) \in SUBSET DOMAIN L
    BY <1>9
  <2>3. V(b, a) \in SUBSET ((DOMAIN L) \ Y)
    <3>1. ~Before(b, a, s)
      BY <1>8, <1>9, BeforeIsTotal
    <3>. QED BY <3>1
  <2> HIDE DEF V
  <2>4. IsFiniteSet(V(a, b)) /\ IsFiniteSet(V(b, a))
    BY <1>2, <2>2, <2>3, FS_Subset
  <2>5. Cardinality(Y) <= Cardinality(V(a, b))
        /\ Cardinality(V(b, a)) <= Cardinality((DOMAIN L) \ Y)
    BY <1>2, <2>2, <2>3, <2>4, FS_Subset
  <2>6. Cardinality(V(a, b)) \in Nat /\ Cardinality(V(b, a)) \in Nat
    BY <2>4, FS_CardinalityType
  <2> HIDE DEF n, f
  <2>7. Cardinality(V(a, b)) >= n - f /\ Cardinality(V(b, a)) <= f
    <3>1. Cardinality((DOMAIN L) \ Y) \in Nat
      BY <1>2, FS_CardinalityType
    <3>. QED BY <1>1, <1>2, <1>3, <2>5, <2>6, <3>1
  <2>. QED BY <2>1, <2>6, <2>7
<1> HIDE DEF n, f
<1>10. \A a \in C, b \in C : a # b => (pref(L, {a}, {b}) >= threshold <=> Before(a, b, s))
  <2>1. SUFFICES ASSUME NEW a \in C, NEW b \in C, a # b
                 PROVE  pref(L, {a}, {b}) >= threshold <=> Before(a, b, s)
    OBVIOUS
  <2>2. CASE Before(a, b, s)
    BY <1>1, <1>9, <2>1, <2>2
  <2>3. CASE ~Before(a, b, s)
    <3>1. Before(b, a, s)
      BY <1>8, <2>1, <2>3, BeforeIsTotal
    <3>2. pref(L, {a}, {b}) <= f /\ pref(L, {a}, {b}) \in Nat
      BY <1>9, <2>1, <3>1
    <3>. QED BY <1>1, <2>3, <3>2
  <2>. QED BY <2>2, <2>3
<1>11. ASSUME NEW x \in C, NEW y \in C, Before(x, y, s) PROVE pos[x] < pos[y]
  <2> DEFINE X(z) == {o \in C \ {z} : pref(L, {o}, {z}) >= threshold}
  <2>1. pos[x] = Cardinality(X(x)) /\ pos[y] = Cardinality(X(y))
    BY DEF canonical_pos
  <2>2. x # y
    BY <1>8, <1>11, BeforeIsTransitive
  <2>3. \A z \in C : \A o : o \in X(z) <=> o \in C /\ o # z /\ Before(o, z, s)
    BY <1>10
  <2>4. IsFiniteSet(X(y)) /\ IsFiniteSet(X(x))
    <3>1. X(y) \in SUBSET C /\ X(x) \in SUBSET C
      OBVIOUS
    <3>. QED BY <1>8, <3>1, FS_Subset
  <2> HIDE DEF X, pos
  <2>5. X(x) \in SUBSET X(y)
    <3>1. SUFFICES ASSUME NEW o \in X(x) PROVE o \in X(y)
      OBVIOUS
    <3>2. o \in C /\ Before(o, x, s)
      BY <2>3
    <3>3. Before(o, y, s) /\ o # y
      BY <1>8, <1>11, <3>2, BeforeIsTransitive
    <3>. QED BY <2>3, <3>2, <3>3
  <2>6. x \in X(y) /\ x \notin X(x)
    BY <1>11, <2>2, <2>3
  <2>7. Cardinality(X(x)) <= Cardinality(X(y)) /\ Cardinality(X(x)) # Cardinality(X(y))
    BY <2>4, <2>5, <2>6, FS_Subset
  <2>8. Cardinality(X(x)) \in Nat /\ Cardinality(X(y)) \in Nat
    BY <2>4, FS_CardinalityType
  <2>. QED BY <2>1, <2>7, <2>8
<1>12. ASSUME NEW x \in C, NEW y \in C, Before(x, y, s) PROVE pos[x] <= pos[y]
  <2>1. pos[x] \in Nat /\ pos[y] \in Nat
    BY <1>8, CanonicalPosType
  <2> HIDE DEF pos
  <2>. QED BY <1>11, <1>12, <2>1
<1>13. ASSUME NEW k \in 1 .. Len(S), NEW l \in 1 .. Len(S), k < l, NEW x \in S[k], NEW y \in S[l]
       PROVE  Before(x, y, s) /\ ~Before(y, x, s)
  BY <1>8, <1>12, <1>13, ClustersInOrder DEF C
<1>14. ASSUME NEW k \in 1 .. Len(S), NEW x \in S[k], NEW y \in S[k] PROVE x = y
  <2>1. /\ x \in C /\ y \in C
        /\ pos[x] < pos[y] => k < k
        /\ pos[y] < pos[x] => k < k
    BY ClustersFollow DEF C
  <2>2. ~(k < k)
    OBVIOUS
  <2>. QED BY <1>8, <1>11, <2>1, <2>2, BeforeIsTotal
<1>15. \A k, l \in 1 .. Len(S) : k < l =>
         /\ ~before(L, S[l], S[k])
         /\ S[k] # {} /\ S[l] # {} => before(L, S[k], S[l])
  <2>1. SUFFICES ASSUME NEW k \in 1 .. Len(S), NEW l \in 1 .. Len(S), k < l
                 PROVE  /\ ~before(L, S[l], S[k])
                        /\ S[k] # {} /\ S[l] # {} => before(L, S[k], S[l])
    OBVIOUS
  <2>2. CASE S[k] = {} \/ S[l] = {}
    <3>1. pref(L, S[l], S[k]) = 0 /\ pref(L, S[k], S[l]) = 0
      BY <2>2, PrefOfNone
    <3>. QED BY <2>2, <3>1 DEF before
  <2>3. CASE S[k] # {} /\ S[l] # {}
    <3>1. PICK x \in S[k], y \in S[l] : S[k] = {x} /\ S[l] = {y}
      BY <1>14, <2>3
    <3>2. x \in C /\ y \in C /\ Before(x, y, s)
      BY <1>13, <2>1, ClustersFollow DEF C
    <3>3. x # y
      BY <1>8, <3>2, BeforeIsTransitive
    <3>4. /\ pref(L, {x}, {y}) \in Nat /\ pref(L, {y}, {x}) \in Nat
          /\ pref(L, {x}, {y}) >= n - f /\ pref(L, {y}, {x}) <= f
      BY <1>9, <3>2, <3>3
    <3>5. before(L, {x}, {y}) /\ ~before(L, {y}, {x})
      BY <1>1, <3>4, SMTT(30) DEF before
    <3>. QED BY <3>1, <3>5
  <2>. QED BY <2>2, <2>3
<1>16. \A k \in 1 .. Len(S) : \A x, y \in S[k] :
         Before(x, y, s) => net(L, S[k], x) > net(L, S[k], y)
  <2>1. SUFFICES ASSUME NEW k \in 1 .. Len(S), NEW x \in S[k], NEW y \in S[k], Before(x, y, s)
                 PROVE  FALSE
    OBVIOUS
  <2>2. x = y
    BY <1>14
  <2>. QED BY <1>8, <2>1, <2>2, BeforeIsTransitive
<1>. QED BY <1>8, <1>12, <1>15, <1>16, Forced DEF C

(* nfaulty replicas that repeat no command do not change, with delta = 1,  *)
(* the order that all the others saw, when the threshold (slack, nfaulty   *)
(* and one more) is within what the others reach: so with the default      *)
(* slack of 0 for any number of replicas.                                  *)
THEOREM HGMostOrderIsKept ==
    ASSUME threshold <= n_nodes - nfaulty
    PROVE  HGSpec => []MostOrderIsKept
<1>1. HGInv => MostOrderIsKept
  <2>1. SUFFICES ASSUME HGInv, done, delta = 1,
                        NEW i \in Lists, NEW s \in sort_cmds(orderedlists[i]), SeenByMost(s),
                        \A j \in Lists : IsInjective(orderedlists[j].cmds)
                 PROVE  order = s
    BY DEF MostOrderIsKept
  <2>2. PICK L \in readings(orderedlists) : order \in results(L)
    BY <2>1 DEF HGInv
  <2> DEFINE m == Len(orderedlists)
             Y == {j \in Lists : sort_cmds(orderedlists[j]) = {s}}
  <2>3. m \in Nat /\ m <= n_nodes
    BY <2>1, Round
  <2>4. /\ AreLists(L) /\ DOMAIN L = 1 .. m /\ DOMAIN orderedlists = 1 .. m
        /\ \A j \in 1 .. m : orderedlists[j] \in OrderedList /\ L[j] \in sort_cmds(orderedlists[j])
    BY <2>1, Round, ReadingsAreLists
  <2>5. IsFiniteSet(DOMAIN L) /\ Cardinality(DOMAIN L) <= n_nodes
    BY <2>3, <2>4, Interval
  <2>6. Y \in SUBSET DOMAIN L /\ \A r \in Y : L[r] = s
    BY <2>4 DEF Lists
  <2>7. /\ Cardinality(Y) >= n_nodes - nfaulty
        /\ Cardinality(ToSet(s)) = Len(s) /\ Len(s) <= max_number_cmds
        /\ \A j \in 1 .. m : ToSet(orderedlists[j].cmds) \subseteq ToSet(s)
    BY <2>1, <2>4 DEF SeenByMost, Lists
  <2>8. ASSUME NEW r \in DOMAIN L
        PROVE  /\ \A j, k \in 1 .. Len(L[r]) : L[r][j] = L[r][k] => j = k
               /\ \A j \in 1 .. Len(L[r]) : L[r][j] \in ToSet(s)
    <3>1. /\ \A j, k \in 1 .. Len(L[r]) : L[r][j] = L[r][k] => j = k
          /\ \A j \in 1 .. Len(L[r]) : L[r][j] \in ToSet(orderedlists[r].cmds)
      BY <2>1, <2>4, SortedInjective DEF Lists
    <3>. QED BY <2>4, <2>7, <3>1
  <2> HIDE DEF Y
  <2>. QED BY <2>1, <2>2, <2>4, <2>5, <2>6, <2>7, <2>8, MostListsAreKept
<1>. QED BY <1>1, HGSpecInv, PTL

(* So it is with the default slack, whatever the number of replicas.       *)
COROLLARY HGMostOrderByDefault ==
    ASSUME slack = 0
    PROVE  HGSpec => []MostOrderIsKept
<1>1. threshold <= n_nodes - nfaulty
  BY Threshold DEF threshold
<1>. QED BY <1>1, HGMostOrderIsKept
=============================================================================
