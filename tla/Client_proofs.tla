---------------------------- MODULE Client_proofs ----------------------------
(***************************************************************************)
(* The client's window and its count of answers, for any number of         *)
(* replicas, window and number of commands, and however often the faulty   *)
(* replicas answer.                                                        *)
(***************************************************************************)
EXTENDS Client, FiniteSetTheorems, TLAPS

(* The correct replicas whose answer to c has been handled.                *)
Counted(c) == {r \in Correct : c \in executed[r] /\ <<r, c>> \notin acks}

WindowInv ==
    /\ Cardinality(waiting) <= max_async_num
    /\ cnt = max_iter_num \/ Cardinality(waiting) = max_async_num

CountInv ==
    /\ \A c \in Cmd \ finished : confirmed[c] <= nfaulty
    /\ \A c \in finished : confirmed[c] > nfaulty
    /\ \A c \in Cmd : confirmed[c] <= Cardinality(Counted(c)) + forged[c]

AnswerInv == \A r \in Correct, c \in Cmd : <<r, c>> \in acks => c \in executed[r]

ForgedInv == \A c \in Cmd : forged[c] <= confirmed[c]

ClientInv == ClientTypeOK /\ WindowInv /\ CountInv /\ AnswerInv /\ ForgedInv

LEMMA NFaultyNat == nfaulty \in Nat
<1>1. Cardinality(Replica) \in Nat
  BY ClientAssumption, FS_CardinalityType
<1>2. 2 * fairness_parameter_percent - 100 \in Nat
  BY ClientAssumption
<1>. DEFINE k == Cardinality(Replica) * (2 * fairness_parameter_percent - 100)
<1>3. k \in Nat
  BY <1>1, <1>2
<1>. HIDE DEF k
<1>4. k \div 400 \in Nat
  BY <1>3
<1>. QED BY <1>4 DEF nfaulty, k

(* A set of numbers from 1 to n has at most n members.                     *)
LEMMA Numbers ==
    ASSUME NEW n \in Nat, NEW S \in SUBSET (1 .. n)
    PROVE  IsFiniteSet(S) /\ Cardinality(S) \in Nat /\ Cardinality(S) <= n
<1>1. IsFiniteSet(1 .. n) /\ Cardinality(1 .. n) = n
  BY FS_Interval
<1>. QED BY <1>1, FS_Subset, FS_CardinalityType

(* try_send goes on from the last command and leaves a full window.        *)
LEMMA TrySend ==
    ASSUME NEW n \in 0 .. max_iter_num, NEW S \in SUBSET (1 .. n),
           Cardinality(S) <= max_async_num
    PROVE  LET k == try_send(S, n)
               T == S \cup (n + 1 .. k)
           IN  /\ k \in n .. max_iter_num
               /\ T \subseteq 1 .. k
               /\ Cardinality(T) <= max_async_num
               /\ k = max_iter_num \/ Cardinality(T) = max_async_num
<1>. DEFINE k == try_send(S, n)
            T == S \cup (n + 1 .. k)
<1>1. /\ IsFiniteSet(S) /\ Cardinality(S) \in Nat
      /\ n \in Nat /\ max_iter_num \in Nat /\ max_async_num \in Nat
  BY Numbers, ClientAssumption
<1>2. k \in n .. max_iter_num /\ k <= n + max_async_num - Cardinality(S)
  BY <1>1 DEF try_send
<1>3. k = max_iter_num \/ k = n + max_async_num - Cardinality(S)
  BY <1>1 DEF try_send
<1>. HIDE DEF k
<1>. DEFINE new == n + 1 .. k
<1>4. IsFiniteSet(new) /\ Cardinality(new) = k - n
  <2>1. n + 1 \in Int /\ k \in Int /\ n <= k
    BY <1>1, <1>2
  <2>2. IsFiniteSet(new) /\ Cardinality(new) = IF n + 1 > k THEN 0 ELSE k - (n + 1) + 1
    BY <2>1, FS_Interval
  <2>. QED BY <2>1, <2>2
<1>5. S \cap (n + 1 .. k) = {}
  BY <1>1, <1>2
<1>6. Cardinality(T) = Cardinality(S) + (k - n)
  <2>. HIDE DEF new
  <2>1. Cardinality(S \cup new) = Cardinality(S) + Cardinality(new) - Cardinality(S \cap new)
    BY <1>1, <1>4, FS_Union
  <2>2. Cardinality(S \cap new) = 0
    BY <1>5, FS_EmptySet DEF new
  <2>. QED BY <1>1, <1>2, <1>4, <2>1, <2>2 DEF new
<1>7. T \subseteq 1 .. k
  BY <1>1, <1>2
<1>. HIDE DEF T
<1>8. /\ Cardinality(T) <= max_async_num
      /\ k = max_iter_num \/ Cardinality(T) = max_async_num
  BY <1>1, <1>2, <1>3, <1>6
<1>. QED BY <1>2, <1>7, <1>8 DEF k, T

LEMMA ClientInitInv == ClientInit => ClientInv
<1>. SUFFICES ASSUME ClientInit PROVE ClientInv
  OBVIOUS
<1>1. 0 \in 0 .. max_iter_num /\ max_iter_num \in Nat /\ max_async_num \in Nat
  BY ClientAssumption
<1>2. cnt = try_send({}, 0) /\ waiting = {} \cup (0 + 1 .. cnt)
  BY DEF ClientInit
<1>3. Cardinality({}) = 0
  BY FS_EmptySet
<1>4. /\ cnt \in 0 .. max_iter_num /\ waiting \subseteq 1 .. cnt /\ WindowInv
  <2>1. {} \in SUBSET (1 .. 0) /\ Cardinality({}) <= max_async_num
    BY <1>1, <1>3
  <2>2. /\ cnt \in 0 .. max_iter_num /\ waiting \subseteq 1 .. cnt
        /\ Cardinality(waiting) <= max_async_num
        /\ cnt = max_iter_num \/ Cardinality(waiting) = max_async_num
    BY <1>1, <1>2, <2>1, TrySend
  <2>. QED BY <2>2 DEF WindowInv
<1>5. ClientTypeOK
  BY <1>4, NFaultyNat DEF ClientInit, ClientTypeOK
<1>6. CountInv
  <2>1. \A c \in Cmd : Counted(c) = {}
    BY DEF Counted, ClientInit
  <2>2. finished = {}
    BY DEF finished, ClientInit
  <2>3. \A c \in Cmd : confirmed[c] = 0 /\ forged[c] = 0 /\ Cardinality(Counted(c)) = 0
    BY <1>3, <2>1 DEF ClientInit
  <2>. QED BY <2>2, <2>3, NFaultyNat DEF CountInv
<1>7. AnswerInv /\ ForgedInv
  BY DEF AnswerInv, ForgedInv, ClientInit
<1>. QED BY <1>4, <1>5, <1>6, <1>7 DEF ClientInv

(* Answers that are not handled yet change no count.                       *)
LEMMA ExecuteInv ==
    ASSUME ClientInv, NEW c \in Cmd, NEW r \in Correct, execute(r, c)
    PROVE  ClientInv'
<1>1. /\ c \in 1 .. cnt /\ c \notin executed[r]
      /\ acks' = acks \cup {<<r, c>>} /\ executed' = [executed EXCEPT ![r] = @ \cup {c}]
      /\ UNCHANGED <<cnt, waiting, confirmed, forged>>
      /\ executed \in [Correct -> SUBSET (1 .. cnt)]
  BY DEF execute, ClientInv, ClientTypeOK
<1>2. /\ executed'[r] = executed[r] \cup {c}
      /\ \A p \in Correct \ {r} : executed'[p] = executed[p]
  BY <1>1
<1>3. ClientTypeOK' /\ AnswerInv'
  BY <1>1, <1>2 DEF ClientInv, ClientTypeOK, AnswerInv
<1>4. WindowInv'
  BY <1>1 DEF ClientInv, WindowInv
<1>5. \A d \in Cmd : Counted(d)' = Counted(d)
  BY <1>1, <1>2 DEF Counted
<1>6. finished' = finished
  BY <1>1 DEF finished
<1>7. CountInv'
  BY <1>1, <1>5, <1>6 DEF ClientInv, CountInv
<1>8. ForgedInv'
  BY <1>1 DEF ClientInv, ForgedInv
<1>. QED BY <1>3, <1>4, <1>7, <1>8 DEF ClientInv

LEMMA CountedFinite ==
    ASSUME NEW c
    PROVE  IsFiniteSet(Counted(c)) /\ Cardinality(Counted(c)) \in Nat
<1>1. Counted(c) \subseteq Replica
  BY DEF Counted, Correct
<1>. QED BY <1>1, ClientAssumption, FS_Subset, FS_CardinalityType

(* Whose answer the handler counts: a correct replica's for the first time.*)
LEMMA HandlerCounts ==
    ASSUME ClientInv, NEW c \in Cmd, NEW r \in Replica, client_resp_cmd_handler(r, c)
    PROVE  /\ \A d \in Cmd \ {c} : Counted(d)' = Counted(d)
           /\ r \in Faulty => Cardinality(Counted(c)') = Cardinality(Counted(c))
           /\ r \notin Faulty => Cardinality(Counted(c)') = Cardinality(Counted(c)) + 1
           /\ Cardinality(Counted(c)) \in Nat
<1>1. /\ acks' = acks \ {<<r, c>>} /\ UNCHANGED executed
      /\ <<r, c>> \in acks \/ r \in Faulty
      /\ acks \subseteq Correct \X (1 .. cnt)
  BY DEF client_resp_cmd_handler, ClientInv, ClientTypeOK
<1>2. \A d \in Cmd \ {c} : Counted(d)' = Counted(d)
  BY <1>1 DEF Counted
<1>3. IsFiniteSet(Counted(c)) /\ Cardinality(Counted(c)) \in Nat
  BY CountedFinite
<1>4. CASE r \in Faulty
  <2>1. Counted(c)' = Counted(c)
    BY <1>1, <1>4 DEF Counted, Correct
  <2>. QED BY <1>2, <1>3, <1>4, <2>1
<1>5. CASE r \notin Faulty
  <2>1. r \in Correct /\ c \in executed[r] /\ <<r, c>> \in acks
    BY <1>1, <1>5 DEF Correct, ClientInv, AnswerInv
  <2>2. Counted(c)' = Counted(c) \cup {r} /\ r \notin Counted(c)
    BY <1>1, <2>1 DEF Counted
  <2>. QED BY <1>2, <1>3, <1>5, <2>2, FS_AddElement
<1>. QED BY <1>4, <1>5

(* An answer that ends a command: the window is filled again.              *)
LEMMA EndInv ==
    ASSUME ClientInv, NEW c \in Cmd, NEW r \in Replica, client_resp_cmd_handler(r, c),
           c \in waiting, enough(confirmed[c] + 1)
    PROVE  /\ cnt' \in cnt .. max_iter_num /\ waiting' \subseteq 1 .. cnt'
           /\ WindowInv'
           /\ finished' = finished \cup {c}
<1>. DEFINE S == waiting \ {c}
<1>1. cnt \in 0 .. max_iter_num /\ waiting \subseteq 1 .. cnt /\ cnt \in Nat
  BY DEF ClientInv, ClientTypeOK
<1>2. S \in SUBSET (1 .. cnt) /\ Cardinality(S) <= max_async_num
  <2>1. IsFiniteSet(waiting) /\ Cardinality(waiting) \in Nat
    BY <1>1, Numbers
  <2>2. Cardinality(S) <= Cardinality(waiting) /\ Cardinality(S) \in Nat
    BY <1>1, <2>1, FS_Subset, Numbers
  <2>. QED BY <1>1, <2>1, <2>2, ClientAssumption DEF ClientInv, WindowInv
<1>3. cnt' = try_send(S, cnt) /\ waiting' = S \cup (cnt + 1 .. cnt')
  BY DEF client_resp_cmd_handler
<1>. HIDE DEF S
<1>4. /\ cnt' \in cnt .. max_iter_num /\ waiting' \subseteq 1 .. cnt'
      /\ Cardinality(waiting') <= max_async_num
      /\ cnt' = max_iter_num \/ Cardinality(waiting') = max_async_num
  BY <1>1, <1>2, <1>3, TrySend
<1>5. finished' = finished \cup {c}
  BY <1>1, <1>3, <1>4, ClientAssumption DEF finished, S
<1>. QED BY <1>3, <1>4, <1>5 DEF WindowInv, S

LEMMA HandlerInv ==
    ASSUME ClientInv, NEW c \in Cmd, NEW r \in Replica, client_resp_cmd_handler(r, c)
    PROVE  ClientInv'
<1>1. /\ acks' = acks \ {<<r, c>>} /\ UNCHANGED executed
      /\ cnt \in Nat /\ cnt <= max_iter_num /\ waiting \subseteq 1 .. cnt
      /\ max_iter_num \in Nat
      /\ confirmed \in [Cmd -> Nat] /\ forged \in [Cmd -> Nat] /\ nfaulty \in Nat
  BY NFaultyNat, ClientAssumption DEF client_resp_cmd_handler, ClientInv, ClientTypeOK
<1>2. AnswerInv'
  BY <1>1 DEF ClientInv, AnswerInv
<1>3. /\ \A d \in Cmd \ {c} : Counted(d)' = Counted(d)
      /\ r \in Faulty => Cardinality(Counted(c)') = Cardinality(Counted(c))
      /\ r \notin Faulty => Cardinality(Counted(c)') = Cardinality(Counted(c)) + 1
      /\ Cardinality(Counted(c)) \in Nat
  BY HandlerCounts
<1>4. CASE c \notin waiting
  <2>1. UNCHANGED <<cnt, waiting, confirmed, forged>> /\ finished' = finished
    BY <1>4 DEF client_resp_cmd_handler, finished
  <2>2. ClientTypeOK' /\ WindowInv'
    BY <1>1, <2>1 DEF ClientInv, ClientTypeOK, WindowInv
  <2>3. ASSUME NEW d \in Cmd
        PROVE  confirmed'[d] <= Cardinality(Counted(d)') + forged'[d]
    <3>1. confirmed[d] <= Cardinality(Counted(d)) + forged[d]
      BY DEF ClientInv, CountInv
    <3>2. CASE d = c
      BY <1>1, <1>3, <2>1, <3>1, <3>2
    <3>3. CASE d # c
      BY <1>3, <2>1, <3>1, <3>3
    <3>. QED BY <3>2, <3>3
  <2>4. CountInv'
    BY <1>1, <2>1, <2>3 DEF ClientInv, CountInv
  <2>5. ForgedInv'
    BY <2>1 DEF ClientInv, ForgedInv
  <2>. QED BY <1>2, <2>2, <2>4, <2>5 DEF ClientInv
<1>5. CASE c \in waiting
  <2>1. /\ confirmed' = [confirmed EXCEPT ![c] = @ + 1] /\ confirmed[c] <= nfaulty
        /\ forged' = [forged EXCEPT ![c] = IF r \in Faulty THEN @ + 1 ELSE @]
    BY <1>5 DEF client_resp_cmd_handler, ClientInv, CountInv, finished
  <2>2. ASSUME NEW d \in Cmd
        PROVE  confirmed'[d] <= Cardinality(Counted(d)') + forged'[d]
    <3>1. confirmed[d] <= Cardinality(Counted(d)) + forged[d]
      BY DEF ClientInv, CountInv
    <3>2. CASE d = c
      BY <1>1, <1>3, <2>1, <3>1, <3>2
    <3>3. CASE d # c
      BY <1>1, <1>3, <2>1, <3>1, <3>3
    <3>. QED BY <3>2, <3>3
  <2>3. /\ confirmed' \in [Cmd -> 0 .. nfaulty + 1]
        /\ forged' \in [Cmd -> 0 .. nfaulty + 1]
    <3>1. confirmed' \in [Cmd -> 0 .. nfaulty + 1]
      BY <1>1, <2>1 DEF ClientInv, ClientTypeOK
    <3>2. forged[c] <= confirmed[c]
      BY DEF ClientInv, ForgedInv
    <3>3. forged' \in [Cmd -> 0 .. nfaulty + 1]
      BY <1>1, <2>1, <3>2 DEF ClientInv, ClientTypeOK
    <3>. QED BY <3>1, <3>3
  <2>4. ForgedInv'
    BY <1>1, <2>1 DEF ClientInv, ForgedInv
  <2>5. CASE ~enough(confirmed[c] + 1)
    <3>1. UNCHANGED <<cnt, waiting>> /\ finished' = finished
      BY <1>5, <2>5 DEF client_resp_cmd_handler, finished
    <3>2. ClientTypeOK' /\ WindowInv'
      BY <1>1, <2>3, <3>1 DEF ClientInv, ClientTypeOK, WindowInv
    <3>3. confirmed'[c] <= nfaulty /\ c \notin finished
      BY <1>1, <1>5, <2>1, <2>5 DEF enough, finished
    <3>4. finished \subseteq Cmd /\ waiting \subseteq Cmd
      BY <1>1 DEF finished, Cmd
    <3>5. CountInv'
      BY <1>1, <2>1, <2>2, <3>1, <3>3, <3>4 DEF ClientInv, CountInv
    <3>. QED BY <1>2, <2>4, <3>2, <3>5 DEF ClientInv
  <2>6. CASE enough(confirmed[c] + 1)
    <3>1. /\ cnt' \in cnt .. max_iter_num /\ waiting' \subseteq 1 .. cnt'
          /\ WindowInv'
          /\ finished' = finished \cup {c}
      BY <1>5, <2>6, EndInv
    <3>2. ClientTypeOK'
      BY <1>1, <2>3, <3>1 DEF ClientInv, ClientTypeOK
    <3>3. confirmed'[c] > nfaulty
      BY <1>1, <2>1, <2>6 DEF enough
    <3>4. finished \subseteq Cmd
      BY <1>1 DEF finished, Cmd
    <3>5. CountInv'
      BY <1>1, <2>1, <2>2, <3>1, <3>3, <3>4 DEF ClientInv, CountInv
    <3>. QED BY <1>2, <2>4, <3>1, <3>2, <3>5 DEF ClientInv
  <2>. QED BY <2>5, <2>6
<1>. QED BY <1>4, <1>5

LEMMA ClientInvAlways == ClientSpec => []ClientInv
<1>1. ClientInv /\ [ClientNext]_client_vars => ClientInv'
  <2>1. ASSUME ClientInv, UNCHANGED client_vars PROVE ClientInv'
    BY <2>1 DEF client_vars, ClientInv, ClientTypeOK, WindowInv, CountInv, AnswerInv,
                ForgedInv, Counted, finished
  <2>2. ASSUME ClientInv, NEW c \in Cmd, NEW r \in Correct, execute(r, c) PROVE ClientInv'
    BY <2>2, ExecuteInv
  <2>3. ASSUME ClientInv, NEW c \in Cmd, NEW r \in Replica, client_resp_cmd_handler(r, c)
        PROVE ClientInv'
    BY <2>3, HandlerInv
  <2>. QED BY <2>1, <2>2, <2>3 DEF ClientNext
<1>. QED BY <1>1, ClientInitInv, PTL DEF ClientSpec

(* try_send keeps the window full until there is nothing left to send, and *)
(* no count exceeds nfaulty + 1, since the request is erased then          *)
(* (client_resp_cmd_handler).                                              *)
THEOREM ClientWindow == ClientSpec => []WindowIsFull
<1>1. ClientInv => WindowIsFull
  <2>. SUFFICES ASSUME ClientInv PROVE WindowIsFull
    OBVIOUS
  <2>1. /\ cnt \in Nat /\ max_iter_num \in Nat /\ cnt <= max_iter_num
        /\ waiting \subseteq 1 .. cnt /\ max_async_num \in Nat
    BY ClientAssumption DEF ClientInv, ClientTypeOK
  <2>2. IsFiniteSet(waiting) /\ Cardinality(waiting) \in Nat
    BY <2>1, Numbers
  <2>3. Cardinality(finished) = cnt - Cardinality(waiting)
    <3>1. IsFiniteSet(1 .. cnt) /\ Cardinality(1 .. cnt) = cnt
      BY <2>1, FS_Interval
    <3>2. (1 .. cnt) \cap waiting = waiting
      BY <2>1
    <3>3. Cardinality((1 .. cnt) \ waiting)
            = Cardinality(1 .. cnt) - Cardinality((1 .. cnt) \cap waiting)
      BY <3>1, FS_Difference
    <3>. QED BY <3>1, <3>2, <3>3 DEF finished
  <2>4. Cardinality(finished) \in Int /\ max_async_num \in Int
    BY <2>1, <2>2, <2>3
  <2>. QED BY <2>1, <2>2, <2>3, <2>4 DEF ClientInv, WindowInv, WindowIsFull
<1>. QED BY <1>1, ClientInvAlways, PTL

(* `wait for f + 1 ack` counts answers, not replicas: the answers to a     *)
(* command done come from correct replicas that have executed it, each     *)
(* counted once, and for the rest from faulty ones.                        *)
THEOREM ClientFinished == ClientSpec => []FinishedIsExecuted
<1>1. ClientInv => FinishedIsExecuted
  <2>. SUFFICES ASSUME ClientInv, NEW c \in finished
                PROVE  Cardinality(Executors(c)) + forged[c] > nfaulty
    BY DEF FinishedIsExecuted
  <2>1. c \in Cmd /\ cnt <= max_iter_num
    BY ClientAssumption DEF ClientInv, ClientTypeOK, finished, Cmd
  <2>2. Cardinality(Counted(c)) + forged[c] > nfaulty
    <3>1. confirmed[c] \in Nat /\ forged[c] \in Nat /\ nfaulty \in Nat
      BY <2>1, NFaultyNat DEF ClientInv, ClientTypeOK
    <3>. QED BY <2>1, <3>1, CountedFinite DEF ClientInv, CountInv
  <2>3. Cardinality(Counted(c)) <= Cardinality(Executors(c)) /\ Cardinality(Executors(c)) \in Nat
    <3>1. Counted(c) \subseteq Executors(c) /\ Executors(c) \subseteq Replica
      BY DEF Counted, Executors, Correct
    <3>. QED BY <3>1, ClientAssumption, FS_Subset, FS_CardinalityType
  <2>4. forged[c] \in Nat /\ nfaulty \in Nat
    BY <2>1, NFaultyNat DEF ClientInv, ClientTypeOK
  <2>. QED BY <2>2, <2>3, <2>4, CountedFinite
<1>. QED BY <1>1, ClientInvAlways, PTL
=============================================================================
