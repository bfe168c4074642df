----------------------------- MODULE BeatChain -----------------------------
(***************************************************************************)
(* What consensus under the fixed proposer promises the ordering pipeline: *)
(* a beat asked for becomes at most one block, blocks follow each other in *)
(* one chain, and the k-th block is executed when the (k+3)-rd is there:   *)
(* by the proposer at the moment it proposes that block, by the others     *)
(* some time after it, several blocks at once if need be.                  *)
(*                                                                         *)
(* PaceMakerDummyFixed is shown to implement this from below and           *)
(* FlashOrderPipeline to use no more than this from above.                 *)
(***************************************************************************)
EXTENDS Integers

CONSTANTS Node, Proposer

VARIABLES
    asked,      \* the number of beats asked for
    blocks,     \* the number of blocks proposed
    executed    \* executed[n]: how many blocks n has executed

Init == asked = 0 /\ blocks = 0 /\ executed = [n \in Node |-> 0]

Ask == asked' = asked + 1 /\ UNCHANGED <<blocks, executed>>

(* A beat that need not wait is asked for and proposed in one step.        *)
Propose ==
    /\ asked' \in {asked, asked + 1}
    /\ blocks' = blocks + 1
    /\ blocks' <= asked'
    /\ executed' = [executed EXCEPT ![Proposer] =
                      IF blocks' > 3 THEN blocks' - 3 ELSE 0]

Execute(n) ==
    /\ n # Proposer
    /\ \E k \in executed[n] + 1 .. blocks - 3 : executed' = [executed EXCEPT ![n] = k]
    /\ UNCHANGED <<asked, blocks>>

Next == Ask \/ Propose \/ \E n \in Node : Execute(n)

Spec == Init /\ [][Next]_<<asked, blocks, executed>>
=============================================================================
