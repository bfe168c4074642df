-------------------------------- MODULE Client --------------------------------
(***************************************************************************)
(* The benchmark client (examples/hotstuff_client.cpp): it sends each      *)
(* command to all replicas, keeps up to max_async_num commands waiting,    *)
(* counts the answers to each and takes the command for done when it has   *)
(* more than nfaulty of them.                                              *)
(*                                                                         *)
(* Of the replicas it knows what hotstuff_app.cpp does: a replica answers  *)
(* a command once, after it has executed it.  A faulty one may answer      *)
(* without, and as often as it likes: the client does not look at who      *)
(* answers.                                                                *)
(***************************************************************************)
EXTENDS Integers, FiniteSets

CONSTANTS
    Replica,
    Faulty,
    max_async_num,
    max_iter_num,     \* how many commands the client sends
    fairness_parameter_percent

ASSUME ClientAssumption ==
    /\ IsFiniteSet(Replica) /\ Faulty \subseteq Replica
    /\ max_async_num \in Nat \ {0} /\ max_iter_num \in Nat
    /\ fairness_parameter_percent \in 51 .. 100

Correct == Replica \ Faulty

(* replicas.size() * (2 * fairness_parameter - 1) / 4, rounded down.       *)
nfaulty ==
    (Cardinality(Replica) * (2 * fairness_parameter_percent - 100)) \div 400

Cmd == 1 .. max_iter_num

VARIABLES
    cnt,         \* commands sent so far: they are 1, ..., cnt
    waiting,     \* the commands with a Request
    confirmed,   \* confirmed[c]: answers counted for c
    forged,      \* forged[c]: how many of these came from faulty replicas
    acks,        \* answers of correct replicas on the way
    executed     \* executed[r]: what the correct replica r has executed

client_vars == <<cnt, waiting, confirmed, forged, acks, executed>>

finished == (1 .. cnt) \ waiting

ClientTypeOK ==
    /\ cnt \in 0 .. max_iter_num
    /\ waiting \subseteq 1 .. cnt
    /\ confirmed \in [Cmd -> 0 .. nfaulty + 1]
    /\ forged \in [Cmd -> 0 .. nfaulty + 1]
    /\ acks \subseteq Correct \X (1 .. cnt)
    /\ executed \in [Correct -> SUBSET (1 .. cnt)]

(* Mutant: the window is filled only once.                                 *)
try_send_once(W, n) ==
    IF n = 0 /\ max_async_num < max_iter_num THEN max_async_num
    ELSE IF n = 0 THEN max_iter_num ELSE n

(* while (try_send()): sends until W commands wait or none are left; n is  *)
(* the number of the last command then.                                    *)
try_send(W, n) ==
    LET last == n + max_async_num - Cardinality(W)
    IN  IF last < max_iter_num THEN last ELSE max_iter_num

ClientInit ==
    /\ cnt = try_send({}, 0) /\ waiting = 1 .. cnt
    /\ confirmed = [c \in Cmd |-> 0] /\ forged = [c \in Cmd |-> 0]
    /\ acks = {}
    /\ executed = [r \in Correct |-> {}]

-----------------------------------------------------------------------------
(* The callback of exec_command executes the transaction, then answers.    *)
execute(r, c) ==
    /\ c \in (1 .. cnt) \ executed[r]
    /\ executed' = [executed EXCEPT ![r] = @ \cup {c}]
    /\ acks' = acks \cup {<<r, c>>}
    /\ UNCHANGED <<cnt, waiting, confirmed, forged>>

(* Mutant: every replica has to answer.                                    *)
enough_of_all(k) == k = Cardinality(Replica)

(* Mutant: f answers are enough.                                           *)
enough_of_f(k) == k >= nfaulty

(* Not `++confirmed <= nfaulty`.                                           *)
enough(k) == k > nfaulty

(* An answer to a command that is done is dropped; any other counts.       *)
client_resp_cmd_handler(r, c) ==
    /\ <<r, c>> \in acks \/ (r \in Faulty /\ c \in 1 .. cnt)
    /\ acks' = acks \ {<<r, c>>}
    /\ IF c \notin waiting THEN UNCHANGED <<cnt, waiting, confirmed, forged>>
       ELSE /\ confirmed' = [confirmed EXCEPT ![c] = @ + 1]
            /\ forged' = [forged EXCEPT ![c] = IF r \in Faulty THEN @ + 1 ELSE @]
            /\ IF ~enough(confirmed[c] + 1) THEN UNCHANGED <<cnt, waiting>>
               ELSE /\ cnt' = try_send(waiting \ {c}, cnt)
                    /\ waiting' = (waiting \ {c}) \cup (cnt + 1 .. cnt')
    /\ UNCHANGED executed

ClientNext ==
    \E c \in Cmd :
        \/ \E r \in Correct : execute(r, c)
        \/ \E r \in Replica : client_resp_cmd_handler(r, c)

(* The answers of correct replicas arrive.  Nothing is promised of the     *)
(* execution of commands: a block is executed when three more are there,   *)
(* and only new commands bring more blocks.                                *)
ClientFairness ==
    \A c \in Cmd, r \in Correct : WF_client_vars(client_resp_cmd_handler(r, c))

ClientSpec == ClientInit /\ [][ClientNext]_client_vars

ClientFairSpec == ClientSpec /\ ClientFairness

-----------------------------------------------------------------------------
(* Properties *)

Executors(c) == {r \in Correct : c \in executed[r]}

(* `wait for f + 1 ack`: a command the client takes for done has been      *)
(* executed by more than nfaulty correct replicas, less the answers that   *)
(* came from faulty ones; by one at least, unless more than nfaulty of     *)
(* these were counted (one faulty replica is enough to give them).         *)
FinishedIsExecuted ==
    \A c \in finished : Cardinality(Executors(c)) + forged[c] > nfaulty

(* The window is neither exceeded nor ever left open while there are       *)
(* commands to send, and the bookkeeping keeps its types: no count goes    *)
(* beyond nfaulty + 1.                                                     *)
WindowIsFull ==
    /\ ClientTypeOK
    /\ Cardinality(waiting) =
         IF max_async_num < max_iter_num - Cardinality(finished)
         THEN max_async_num ELSE max_iter_num - Cardinality(finished)

(* Once more than nfaulty correct replicas have executed a command, the    *)
(* client gets done with it, though faulty replicas are silent and answers *)
(* to other commands, and answers not needed any more, keep coming.        *)
ExecutedIsFinished ==
    \A c \in Cmd : Cardinality(Executors(c)) > nfaulty ~> c \in finished
=============================================================================
