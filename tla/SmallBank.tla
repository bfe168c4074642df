------------------------------- MODULE SmallBank -------------------------------
(***************************************************************************)
(* The state machine the replicas run (examples/small_bank.cpp): each user *)
(* has a checking and a saving account with unsigned balances of W bits,   *)
(* the int of transaction_split has half as many.  execute_transaction     *)
(* takes one command to one of the operations below.                       *)
(***************************************************************************)
EXTENDS Integers, FiniteSets

CONSTANTS
    n_users,
    W,              \* bits of a balance (64 in the code), even
    max_amount,     \* the initial balances are below it
    PartySize,      \* the sizes of the parties of splits
    Amount          \* the amounts of the transactions (bound for TLC)

UINT_MAX == 2^W - 1

Balance == 0 .. UINT_MAX

User == 0 .. n_users - 1

ASSUME BankAssumption ==
    /\ n_users \in Nat \ {0} /\ W \in Nat \ {0} /\ 2^W \in Nat \ {0}
    /\ max_amount \in Balance \ {0}
    /\ PartySize \subseteq Nat \ {0} /\ Amount \subseteq Balance

VARIABLES
    checking_accounts,
    saving_accounts

bank_vars == <<checking_accounts, saving_accounts>>

BankTypeOK ==
    /\ checking_accounts \in [User -> Balance]
    /\ saving_accounts \in [User -> Balance]

(* rand() % max_amount                                                     *)
BankInit ==
    /\ checking_accounts \in [User -> 0 .. max_amount - 1]
    /\ saving_accounts \in [User -> 0 .. max_amount - 1]

-----------------------------------------------------------------------------
(* Unsigned addition and subtraction wrap around.                          *)
plus(a, b) == (a + b) % 2^W

minus(a, b) == (a - b) % 2^W

(* Mutant: the sum is compared, which has wrapped around.                  *)
too_much_wrapped(balance, amount) == plus(balance, amount) > UINT_MAX

(* UINT64_MAX - balance < amount                                           *)
too_much(balance, amount) == UINT_MAX - balance < amount

transaction_savings(u, amount) ==
    /\ ~too_much(saving_accounts[u], amount)
    /\ saving_accounts' = [saving_accounts EXCEPT ![u] = plus(@, amount)]
    /\ UNCHANGED checking_accounts

deposit_checking(u, amount) ==
    /\ ~too_much(checking_accounts[u], amount)
    /\ checking_accounts' = [checking_accounts EXCEPT ![u] = plus(@, amount)]
    /\ UNCHANGED saving_accounts

write_check(u, amount) ==
    /\ checking_accounts[u] >= amount
    /\ checking_accounts' = [checking_accounts EXCEPT ![u] = minus(@, amount)]
    /\ UNCHANGED saving_accounts

amalgamate(u) ==
    /\ ~too_much(checking_accounts[u], saving_accounts[u])
    /\ checking_accounts' = [checking_accounts EXCEPT ![u] = plus(@, saving_accounts[u])]
    /\ saving_accounts' = [saving_accounts EXCEPT ![u] = 0]

(* from and to may be the same user.                                       *)
send_payment(from, to, amount) ==
    /\ checking_accounts[from] >= amount /\ ~too_much(checking_accounts[to], amount)
    /\ checking_accounts' = [[checking_accounts EXCEPT ![from] = minus(@, amount)]
                                                EXCEPT ![to] = plus(@, amount)]
    /\ UNCHANGED saving_accounts

(* `auto amount_payed = 0` is an int: the sum is cut to its bits, and the  *)
(* sign it gets there is extended when it is divided by the party's size.  *)
as_int(n) ==
    LET m == n % 2^(W \div 2)
    IN  IF 2 * m < 2^(W \div 2) THEN m ELSE m - 2^(W \div 2)

RECURSIVE sum_to(_, _, _)
sum_to(f, i, j) == IF i > j THEN 0 ELSE f[i] + sum_to(f, i + 1, j)

(* The party are size users from start on, the payors the first of them:   *)
(* pays is a function on the payors.  Payors are credited what they pay,   *)
(* the party is debited its share; what is checked first is that payors    *)
(* have the amount and that the party's balances could grow by the share.  *)
share_of(pays, start, size) ==
    (as_int(sum_to(pays, start, start + Cardinality(DOMAIN pays) - 1)) % 2^W) \div size

payed(pays, u) == IF u \in DOMAIN pays THEN pays[u] ELSE 0

transaction_split(pays, start, size) ==
    LET party == start .. start + size - 1
        share == share_of(pays, start, size)
    IN  /\ \A u \in DOMAIN pays : checking_accounts[u] >= pays[u]
        /\ \A u \in party : ~too_much(checking_accounts[u], share)
        /\ checking_accounts' =
             [u \in User |-> LET c == plus(checking_accounts[u], payed(pays, u))
                            IN  IF u \in party THEN minus(c, share) ELSE c]
        /\ UNCHANGED saving_accounts

(* What get_next_transaction_by_type makes of splits.                      *)
start_fits(start, size) == start + size <= n_users

split(start, size) ==
    /\ start_fits(start, size)
    /\ \E n_payors \in 1 .. size \div 2 :
         \E pays \in [start .. start + n_payors - 1 -> Amount] :
            transaction_split(pays, start, size)

(* execute_transaction                                                     *)
BankNext ==
    \/ \E u \in User, amount \in Amount :
         \/ transaction_savings(u, amount)
         \/ deposit_checking(u, amount)
         \/ write_check(u, amount)
         \/ \E to \in User : send_payment(u, to, amount)
    \/ \E u \in User : amalgamate(u)
    \/ \E u \in User, size \in PartySize : split(u, size)

BankSpec == BankInit /\ [][BankNext]_bank_vars

-----------------------------------------------------------------------------
(* Properties *)

Total == sum_to(checking_accounts, 0, n_users - 1) + sum_to(saving_accounts, 0, n_users - 1)

(* Deposits put in the amount of the transaction and checks take it out;   *)
(* payments, also to oneself, and amalgamations only move money; a split   *)
(* that all of its party can cover credits the payors what they pay and    *)
(* debits every one the share.  Whatever balances are at the limit, no     *)
(* transaction makes or loses money by wrapping around: Total counts in    *)
(* numbers that do not.  Balances keep their type.                         *)
AmountIsKept(u, amount) ==
    /\ transaction_savings(u, amount) => Total' = Total + amount
    /\ deposit_checking(u, amount) => Total' = Total + amount
    /\ write_check(u, amount) => Total' = Total - amount
    /\ \A to \in User : send_payment(u, to, amount) => Total' = Total

SplitKeeps(start, size) ==
    \A n_payors \in 1 .. size \div 2 :
      \A pays \in [start .. start + n_payors - 1 -> Amount] :
        LET party == start .. start + size - 1
            share == share_of(pays, start, size)
        IN  /\ transaction_split(pays, start, size)
            /\ \A u \in party : checking_accounts[u] + payed(pays, u) \in share .. UINT_MAX
            => Total' = Total + sum_to(pays, start, start + n_payors - 1) - size * share

MoneyIsKept ==
    [][ /\ BankTypeOK'
        /\ \A u \in User, amount \in Amount : AmountIsKept(u, amount)
        /\ \A u \in User : amalgamate(u) => Total' = Total
        /\ \A u \in User, size \in PartySize :
             start_fits(u, size) => SplitKeeps(u, size) ]_bank_vars
===============================================================================
