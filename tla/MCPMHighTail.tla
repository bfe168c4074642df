---------------------------- MODULE MCPMHighTail ----------------------------
(***************************************************************************)
(* TLC instances of PMHighTail: four replicas of which r4 is faulty.  A    *)
(* block is the sequence of the steps that lead to it from genesis <<>>;   *)
(* a step names its proposer and the height of the block its QC certifies, *)
(* so the tree holds every block PMHighTail can lead to, up to height 2    *)
(* when both r1 and r2 propose and up to height 3 when only r1 does.       *)
(***************************************************************************)
EXTENDS PMHighTail, SequencesExt

CONSTANTS r1, r2, r3, r4, MaxHeight, MaxAlone

RECURSIVE Paths(_)
Paths(n) ==
    IF n = 0 THEN {<<>>}
    ELSE {Append(p, <<c, q>>) : p \in Paths(n - 1), c \in Proposers, q \in 0 .. n - 1}

OnlyBy(r, p) == \A i \in DOMAIN p : p[i][1] = r

BlockTable ==
    {p \in UNION {Paths(n) : n \in 0 .. MaxAlone} : Len(p) <= MaxHeight \/ OnlyBy(r1, p)}

RootTable == <<>>

ParentTable == [b \in BlockTable |-> IF b = <<>> THEN b ELSE Front(b)] @@ <<>>
QcTable == [b \in BlockTable |->
             IF b = <<>> THEN b ELSE SubSeq(b, 1, Last(b)[2])] @@ <<>>
HeightTable == [b \in BlockTable |-> Len(b)] @@ <<>>
ChainTable == [b \in BlockTable |-> {SubSeq(b, 1, n) : n \in 0 .. Len(b)}] @@ <<>>
CreatorTable == [b \in BlockTable |-> IF b = <<>> THEN r4 ELSE Last(b)[1]] @@ <<>>

(* r2 may get the votes for the lowest block of r1 as well, passed on by   *)
(* r4; then there are two proposals at most.                               *)
CollectorTable ==
    [b \in BlockTable |-> IF Len(b) = 1 /\ OnlyBy(r1, b) THEN {r1, r2}
                          ELSE {CreatorTable[b]}] @@ <<>>

FewWhenPassedOn ==
    (\E b \in Block : Len(b) = 1 /\ OnlyBy(r1, b) /\ voted[r2][b] # {})
        => Cardinality(proposed) <= 2

OneOrLow ==
    \/ \A b \in proposed : OnlyBy(r1, b)
    \/ \A b \in proposed : Len(b) <= MaxHeight

MCSpec == PMInit /\ [][PMNext /\ OneOrLow' /\ FewWhenPassedOn']_pm_vars

(* TLC evaluates a definition once, and what a .cfg puts for a constant    *)
(* at every use: so the constants get the names of the tables.             *)
TreeBlock == BlockTable
TreeRoot == RootTable
TreeParent == ParentTable
TreeQc == QcTable
TreeHeight == HeightTable
TreeChain == ChainTable
TreeCreator == CreatorTable
TreeCollectors == CollectorTable
=============================================================================
