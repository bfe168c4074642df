----------------------- MODULE MCPaceMakerDummyFixed -----------------------
(***************************************************************************)
(* TLC instance of PaceMakerDummyFixed: four replicas of which r4 is       *)
(* faulty and r1 proposes.  A block is the sequence of the heights of the  *)
(* QCs on its branch; the tree lets the proposer certify the parent of its *)
(* block or, were it to run ahead of its QCs at height RunAhead, the block *)
(* before.  One block is r4's: it carries the QC of the leader's first     *)
(* block, and the leader may go on from it with that QC or with its own.   *)
(***************************************************************************)
EXTENDS PaceMakerDummyFixed, SequencesExt

CONSTANTS r1, r2, r3, r4, MaxHeight, RunAhead

QcHeights(n) == IF n = RunAhead THEN {n - 1, n - 2} ELSE {n - 1}

RECURSIVE Paths(_)
Paths(n) ==
    IF n = 0 THEN {<<>>}
    ELSE {Append(p, q) : p \in Paths(n - 1), q \in QcHeights(n)}

r4_block == <<0, -1>>
AboveIt == {<<0, -1, 1>>, <<0, -1, 2>>}

RootTable == <<>>
BlockTable == UNION {Paths(n) : n \in 0 .. MaxHeight} \cup {r4_block} \cup AboveIt
ParentTable == [b \in BlockTable |-> IF b = <<>> THEN b ELSE Front(b)] @@ <<>>
QcTable == [b \in BlockTable |->
             IF b = <<>> THEN b ELSE IF b = r4_block THEN <<0>>
             ELSE SubSeq(b, 1, Last(b))] @@ <<>>
HeightTable == [b \in BlockTable |-> Len(b)] @@ <<>>
ChainTable == [b \in BlockTable |-> {SubSeq(b, 1, n) : n \in 0 .. Len(b)}] @@ <<>>
CreatorTable == [b \in BlockTable |-> IF b \in {<<>>, r4_block} THEN r4 ELSE r1] @@ <<>>
CollectorTable == [b \in BlockTable |-> {r1}] @@ <<>>

(* The block of r4 comes early; the leader goes on once, seen by nobody.   *)
FewWhenForeign ==
    Foreign => /\ beats <= 2 /\ Cardinality(proposed) <= 2
               /\ \A r \in {r2, r3} : \A b \in delivered[r] : height[b] <= 2

MCSpec ==
    FixedInit /\ [][FixedNext /\ FewWhenForeign']_fixed_vars /\ FixedFairness

(* TLC evaluates a definition once, and what a .cfg puts for a constant    *)
(* at every use: so the constants get the names of the tables.             *)
TreeRoot == RootTable
TreeBlock == BlockTable
TreeParent == ParentTable
TreeQc == QcTable
TreeHeight == HeightTable
TreeChain == ChainTable
TreeCreator == CreatorTable
TreeCollectors == CollectorTable
=============================================================================
