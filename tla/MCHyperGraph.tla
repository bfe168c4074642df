---------------------------- MODULE MCHyperGraph ----------------------------
(* TLC instances of HyperGraph: commands are numbers.                      *)
EXTENDS HyperGraph, TLC

Sent(s) == [cmds |-> s, timestamps |-> [i \in DOMAIN s |-> i]]

(* Sent in another order than the timestamps say, and with equal ones.     *)
Unsorted == {[cmds |-> <<2, 1, 3>>, timestamps |-> <<2, 1, 3>>],
             [cmds |-> <<3, 2, 1>>, timestamps |-> <<2, 1, 1>>]}

Orders(S) == {Sent(s) : s \in SetToSeqs(S)}

(* Parts of three commands, one command twice.                             *)
Partial == UNION {Orders(S) : S \in (SUBSET (1 .. 3)) \ {{}}} \cup {Sent(<<1, 2, 1>>)}

(* Most replicas agree on four commands and one does not.                  *)
OneDiffers ==
    {<<Sent(s), Sent(s), Sent(s), t>> : s \in {<<1, 2, 3, 4>>}, t \in Orders(1 .. 4)}

(* Preferences of the replicas that make a cycle of clusters.              *)
Cyclic == <<Sent(<<4, 2, 1, 5, 3, 6>>), Sent(<<5, 4, 2, 1, 3, 6>>),
            Sent(<<2, 1, 6, 5, 3, 4>>), Sent(<<6, 3, 1, 5, 4, 2>>)>>

(* Two clusters, the later one having no edge from the earlier.            *)
Seven == <<Sent(<<2, 1, 7, 5, 6, 3, 4>>), Sent(<<5, 6, 4, 3, 7, 2, 1>>),
           Sent(<<5, 4, 3, 7, 2, 1, 6>>), Sent(<<2, 1, 7, 6, 3, 5, 4>>)>>

(* The first two orders make an edge against the positions.                *)
Backwards == <<Sent(<<1, 2>>), Sent(<<1, 2>>), Sent(<<2, 1, 3, 4>>)>>

(* One replica repeats a command.                                          *)
Repeats ==
    {<<Sent(<<1, 2>>), Sent(<<1, 2>>), Sent(<<1, 2>>), Sent(t)>> :
        t \in {<<2, 1>>, <<2, 2, 1, 1>>}}

AllThree == TupleOf(Partial \cup Unsorted, 3)

SmallRounds == AllThree \cup OneDiffers \cup Repeats \cup {Cyclic, Seven, Backwards}
=============================================================================
