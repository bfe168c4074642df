---------------------------- MODULE MCPaceMakerRR ----------------------------
(***************************************************************************)
(* TLC instances of PaceMakerRR.  A block is a number whose i-th digit     *)
(* tells who created the block at height i of its branch and how many      *)
(* heights its QC lies below its parent; 0 is the genesis block.           *)
(***************************************************************************)
EXTENDS PaceMakerRR, TLC

CONSTANTS
    MaxHeight,
    MaxFree,       \* up to this height every block that fits exists
    FreeBeats,     \* how many beats are asked for while these are proposed
    Long,          \* the digits of one longer branch
    Passed,        \* the same, of a branch whose votes all replicas get
    Creators,      \* how many replicas, from 0 on, create blocks
    MaxGap,        \* the largest distance of a QC
    MaxSwitches,   \* changes of creator on a branch
    MaxGaps        \* blocks on a branch that do not certify their parent

base == Creators * (MaxGap + 1) + 1

Digit(b, i) == (b \div base^(i - 1)) % base
Below(b, i) == b % base^i
Creator(b, i) == (Digit(b, i) - 1) % Creators
Gap(b, i) == (Digit(b, i) - 1) \div Creators

Fits(b, n) ==
    /\ \A i \in 1 .. n : Digit(b, i) > 0 /\ Gap(b, i) < i
    /\ \A i \in 2 .. n : Gap(b, i) <= Gap(b, i - 1) + 1
    /\ Cardinality({i \in 2 .. n : Creator(b, i) # Creator(b, i - 1)}) <= MaxSwitches
    /\ Cardinality({i \in 1 .. n : Gap(b, i) > 0}) <= MaxGaps

HeightOf(b) ==
    CHOOSE n \in 0 .. MaxHeight : b < base^n /\ (n = 0 \/ b >= base^(n - 1))

(* The blocks of one branch, whose digits are w.                           *)
Branch(w) ==
    LET prefix[n \in 0 .. Len(w)] ==
            IF n = 0 THEN 0 ELSE prefix[n - 1] + w[n] * base^(n - 1)
    IN  {prefix[n] : n \in 0 .. Len(w)}

Free == {b \in 0 .. base^MaxFree - 1 : Fits(b, HeightOf(b))}
LongBranch == Branch(Long) \cup {}
PassedBranch == Branch(Passed) \cup {}

RootTable == 0
BlockTable == Free \cup LongBranch \cup PassedBranch
HeightTable == [b \in BlockTable |-> HeightOf(b)] @@ <<>>
ParentTable ==
    [b \in BlockTable |-> IF b = 0 THEN 0 ELSE Below(b, HeightOf(b) - 1)] @@ <<>>
QcTable ==
    [b \in BlockTable |->
       IF b = 0 THEN 0 ELSE Below(b, HeightOf(b) - 1 - Gap(b, HeightOf(b)))] @@ <<>>
ChainTable == [b \in BlockTable |-> {Below(b, n) : n \in 0 .. HeightOf(b)}] @@ <<>>
CreatorTable ==
    [b \in BlockTable |-> IF b = 0 THEN 0 ELSE Creator(b, HeightOf(b))] @@ <<>>

(* The votes for its blocks are passed on to all, as a faulty replica may. *)
CollectorTable ==
    [b \in BlockTable |-> IF b \in PassedBranch THEN Replica ELSE {CreatorTable[b]}] @@ <<>>

(* Replica 0 proposes, then begins a new consensus; replica 1 does so on    *)
(* top of it, knowing only the QC of 0's first block.                      *)
TwoTurns == <<1, 1, 4, 2, 2, 2>>
NoBranch == <<>>

(* Replica 1 builds on a block of 0 with its QC before 0 has this QC; then *)
(* 0 builds on that block.                                                 *)
OneAbove == <<1, 2, 3>>

(* A behaviour has its blocks among the free ones or on the longer branch. *)
Within(S) == proposed \subseteq S /\ \A r \in Correct : delivered[r] \subseteq S

PassedOn ==
    \E r \in Correct : \E b \in PassedBranch \ {0} : creator[b] # r /\ voted[r][b] # {}

OneTree ==
    \/ Within(Free) /\ beats <= FreeBeats /\ ~PassedOn
    \/ Within(LongBranch) /\ ~PassedOn
    \/ Within(PassedBranch) /\ beats <= FreeBeats /\ \A r \in Correct : turns[r] <= r

MCSpec == RRInit /\ [][RRNext /\ OneTree']_rr_vars

(* TLC evaluates a definition once, and what a .cfg puts for a constant    *)
(* at every use: so the constants get the names of the tables.             *)
TreeRoot == RootTable
TreeBlock == BlockTable
TreeHeight == HeightTable
TreeParent == ParentTable
TreeQc == QcTable
TreeChain == ChainTable
TreeCreator == CreatorTable
TreeCollectors == CollectorTable
=============================================================================
