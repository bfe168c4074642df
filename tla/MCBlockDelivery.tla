--------------------------- MODULE MCBlockDelivery ---------------------------
(***************************************************************************)
(* TLC instances of BlockDelivery: a chain of blocks 1, 2, ... whose       *)
(* creators are given, each on the QC of the one before; the last block    *)
(* may carry an older QC.                                                  *)
(***************************************************************************)
EXTENDS BlockDelivery, TLC

CONSTANTS
    Length,
    Late      \* how many blocks lie between the last block and its QC

ChainRoot == 0
ChainBlocks == 0 .. Length
ChainParent == [b \in ChainBlocks |-> IF b = 0 THEN 0 ELSE b - 1] @@ <<>>
ChainQc ==
    [b \in ChainBlocks |->
       IF b = 0 THEN 0 ELSE IF b = Length THEN b - 1 - Late ELSE b - 1] @@ <<>>
ChainHeight == [b \in ChainBlocks |-> b] @@ <<>>
ChainOf == [b \in ChainBlocks |-> 0 .. b] @@ <<>>
(* Node "A" proposes block 1 and every second one after it.                *)
ChainCreator == [b \in ChainBlocks |-> IF b % 2 = 1 THEN "A" ELSE "B"] @@ <<>>
(* Votes go to the proposer of the next block.                             *)
ChainCollector == [b \in ChainBlocks |-> IF b % 2 = 1 THEN "B" ELSE "A"] @@ <<>>

(* TLC evaluates a definition once, and what a .cfg puts for a constant    *)
(* at every use: so the constants get the names of the tables.             *)
TreeRoot == ChainRoot
TreeBlock == ChainBlocks
TreeParent == ChainParent
TreeQc == ChainQc
TreeHeight == ChainHeight
TreeChain == ChainOf
TreeCreator == ChainCreator
TreeCollector == ChainCollector
=============================================================================
