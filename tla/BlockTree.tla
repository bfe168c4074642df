----------------------------- MODULE BlockTree -----------------------------
(***************************************************************************)
(* The blocks of a FlashOrder run and the links between them.              *)
(*                                                                         *)
(* A block is content addressed (EntityStorage::add_blk keeps one object   *)
(* per hash), so its parent, the block its quorum certificate refers to    *)
(* and its height never change: they are constant functions on Block.      *)
(* get_parents() returns exactly one parent, hence parent[b] stands for    *)
(* parents[0].                                                             *)
(***************************************************************************)
EXTENDS Integers, FiniteSets

CONSTANTS
    Block,     \* every block some replica may create, and the genesis block
    b0,        \* the genesis block
    parent,    \* parent[b] is parents[0]
    qc_ref,    \* qc_ref[b] is the block certified by the QC stored in b
    height,    \* height[b] is parents[0]->height + 1
    chain      \* chain[b] is the set of the blocks met walking from b to b0

(* The types of the links, and the genesis block as on_init leaves it.     *)
ASSUME TreeType ==
    /\ b0 \in Block
    /\ parent \in [Block -> Block]
    /\ qc_ref \in [Block -> Block]
    /\ height \in [Block -> Nat]
    /\ chain \in [Block -> SUBSET Block]
    /\ qc_ref[b0] = b0
    /\ height[b0] = 0
    /\ chain[b0] = {b0}

(* A block is built on a parent whose hash it contains, so the walk along  *)
(* parents[0] is finite and never meets the block again.                   *)
ASSUME TreeLinks ==
    \A b \in Block \ {b0} :
        /\ height[b] = height[parent[b]] + 1
        /\ chain[b] = chain[parent[b]] \cup {b}
        /\ b \notin chain[parent[b]]
        /\ IsFiniteSet(chain[b])

(* The block a certificate refers to need not be on the branch of the      *)
(* block that carries it: on_deliver_blk only asks that it was fetched.    *)
(* A block that keeps to its branch is justified.                          *)
Justified(b) == qc_ref[b] \in chain[parent[b]]

(* The loops `for (b = x; b->height > y->height; b = b->parents[0])`       *)
(* followed by `b == y` (commit queue, safety condition, check_ancestry)   *)
(* walk from x down to the height of y and compare.                        *)
Extends(x, y) == y \in chain[x]

(* Two blocks on one branch.                                               *)
SameBranch(x, y) == Extends(x, y) \/ Extends(y, x)
=============================================================================
