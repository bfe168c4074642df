------------------------ MODULE MCFlashOrderPipeline ------------------------
(* TLC instances of FlashOrderPipeline.  Commands are numbers, so that the *)
(* order in which requests reach a replica can be bounded.                 *)
EXTENDS FlashOrderPipeline, TLC

CONSTANTS r1, r2, r3, r4

Four == 1 .. 4
Five == 1 .. 5

(* r4 may send 1 and 4 at any time, also before anybody requested them.    *)
ForgedFour == {{1, 4}}

NoneForged == {}

(* 1 to 3 reach a replica in any order, 4 after them.                      *)
FourLast ==
    \A r \in Correct :
        arrivals[r][4] > 0 => \A c \in 1 .. 3 : arrivals[r][c] > 0

(* Of the replicas in a round only the leader stands out.                  *)
Symmetry == Permutations({r2, r3})

RoundsSpec == Init /\ [][Next /\ FourLast']_vars

(* For a long run: a request for c reaches a replica before any for c + 2, *)
(* so that only neighbours change places; those for 1 may be doubled, but  *)
(* not at r1.                                                              *)
NearlyInOrder ==
    \A r \in Correct, c \in Cmd :
        /\ c + 2 \in Cmd /\ arrivals[r][c] = 0 => arrivals[r][c + 2] = 0
        /\ c > 1 \/ r = Leader => arrivals[r][c] < 2

LongSpec == Init /\ [][Next /\ NearlyInOrder']_vars /\ Fairness

(* As long, but the requests for 1 may reach the others at any time.       *)
LateFirst ==
    \A r \in Correct, c \in Cmd :
        c + 2 \in Cmd /\ arrivals[r][c] = 0 /\ (c > 1 \/ r = Leader)
            => arrivals[r][c + 2] = 0

LateSpec == Init /\ [][Next /\ LateFirst']_vars
=============================================================================
