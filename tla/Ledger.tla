------------------------------- MODULE Ledger -------------------------------
(***************************************************************************)
(* What HotStuffCore promises about execution, without saying how: every   *)
(* correct replica executes one more stretch of a chain of blocks at a     *)
(* time and never takes anything back, and as long as the certified blocks *)
(* are sound, this is one single chain for all of them.                    *)
(***************************************************************************)
EXTENDS BlockTree

CONSTANT Node      \* the replicas that execute blocks

VARIABLES
    tip,     \* tip[n]: the last block n has executed
    sound    \* no quorum has certified a block off the branch of its own QC

ledger_vars == <<tip, sound>>

Init == tip = [n \in Node |-> b0] /\ sound = TRUE

(* n executes the blocks between its tip and b; nobody contradicts them.   *)
Execute(n, b) ==
    /\ b # tip[n] /\ Extends(b, tip[n])
    /\ sound' => \A m \in Node : SameBranch(b, tip[m])
    /\ tip' = [tip EXCEPT ![n] = b]

Next ==
    /\ sound' \in BOOLEAN /\ (sound' => sound)
    /\ UNCHANGED tip \/ \E n \in Node, b \in Block : Execute(n, b)

Spec == Init /\ [][Next]_ledger_vars
=============================================================================
