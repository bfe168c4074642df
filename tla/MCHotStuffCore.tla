--------------------------- MODULE MCHotStuffCore ---------------------------
(***************************************************************************)
(* TLC instance of HotStuffCore: four replicas of which r4 is faulty, and  *)
(* one tree of blocks for four scenarios that start from genesis; the      *)
(* blocks of a behaviour are those of one scenario.                        *)
(***************************************************************************)
EXTENDS HotStuffCore, TLC

CONSTANTS r1, r2, r3, r4

(* Commit: a4 commits a1, a5 commits a1 and a2 at once when it comes first *)
(* and c2 competes with a2.                                                *)
Commit == {"b0", "a1", "a2", "a3", "a4", "a5", "c2"}

(* Off its branch: u3 on c2 carries the QC of a2, which is not on the      *)
(* branch of u3 and need not be delivered where u3 is.                     *)
OffBranch == {"b0", "a1", "a2", "c2", "u3"}

(* Lock and unlock: a3 locks its voters on a1; d4 carries the genesis QC,  *)
(* so that only replicas without that lock vote for it; d5 brings d4's QC  *)
(* and moves any lock it may.  d1 to d3 only join d4 to genesis.           *)
Fork == {"b0", "a1", "a2", "a3", "d1", "d2", "d3", "d4", "d5"}

(* Votes: r1 is a correct proposer; it may build on its first block with   *)
(* its QC (p2) or before the QC is there (q2).                             *)
Votes == {"b0", "p1", "p2", "q2"}

(* `@@ <<>>` makes TLC tabulate a function once.                           *)
ParentTable ==
    "b0" :> "b0" @@ "a1" :> "b0" @@ "a2" :> "a1" @@ "a3" :> "a2" @@ "a4" :> "a3"
    @@ "a5" :> "a4" @@ "c2" :> "a1" @@ "u3" :> "c2"
    @@ "d1" :> "b0" @@ "d2" :> "d1" @@ "d3" :> "d2" @@ "d4" :> "d3" @@ "d5" :> "d4"
    @@ "p1" :> "b0" @@ "p2" :> "p1" @@ "q2" :> "p1"
QcTable ==
    "b0" :> "b0" @@ "a1" :> "b0" @@ "a2" :> "a1" @@ "a3" :> "a2" @@ "a4" :> "a3"
    @@ "a5" :> "a4" @@ "c2" :> "a1" @@ "u3" :> "a2"
    @@ "d1" :> "b0" @@ "d2" :> "b0" @@ "d3" :> "b0" @@ "d4" :> "b0" @@ "d5" :> "d4"
    @@ "p1" :> "b0" @@ "p2" :> "p1" @@ "q2" :> "b0"
BlockTable == DOMAIN ParentTable
HeightTable ==
    LET h[b \in BlockTable] == IF b = "b0" THEN 0 ELSE h[ParentTable[b]] + 1
    IN  h @@ <<>>
ChainTable ==
    LET c[b \in BlockTable] == IF b = "b0" THEN {b} ELSE c[ParentTable[b]] \cup {b}
    IN  c @@ <<>>
CreatorTable ==
    [b \in BlockTable |->
       IF b \in Votes \ {"b0"} THEN r1 ELSE r4] @@ <<>>
CollectorTable == [b \in BlockTable |-> {CreatorTable[b]}] @@ <<>>

OneScenario ==
    \E S \in {Commit, OffBranch, Fork, Votes} :
        proposed \subseteq S /\ \A r \in Correct : delivered[r] \subseteq S

(* r2 and r3 create no blocks.                                             *)
Symmetry == Permutations({r2, r3})

(* Like the real delivery, a replica delivers d1, d2 and d3 in one go.     *)
TogetherD ==
    \A r \in Correct :
        "d1" \in delivered[r] /\ "d3" \notin delivered[r] => delivered'[r] # delivered[r]

MCSpec == Init /\ [][Next /\ OneScenario' /\ TogetherD]_core_vars

(* TLC evaluates a definition once, and what a .cfg puts for a constant    *)
(* at every use: so the constants get the names of the tables.             *)
TreeBlock == BlockTable
TreeParent == ParentTable
TreeQc == QcTable
TreeHeight == HeightTable
TreeChain == ChainTable
TreeFetchOnly == {"d1", "d2", "d3"}
TreeCreator == CreatorTable
TreeCollectors == CollectorTable
=============================================================================
