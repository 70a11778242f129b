------------------------------- MODULE DataRace -------------------------------
(***************************************************************************)
(* Chapter 6/data-race.cpp: transfers from Bill's account to John's, each  *)
(* in a thread of its own, without a lock.  operator-= and operator+= load *)
(* the balance and store it later.  What main() shows after 100 ms changes *)
(* nothing; the destructors of the threads join them.                      *)
(***************************************************************************)
EXTENDS Integers, FiniteSets

CONSTANTS Transfers, \* the amounts, one thread for each: 10 and 20 in the code
          Initial    \* the balances at the start, together

\* Money is counted: an amount is so many units, and Sum(S) those of all of S.
Units(S) == UNION {{t} \X (1..t) : t \in S}
Sum(S) == Cardinality(Units(S))

\* No balance runs below 0 and wraps.
Covered == /\ IsFiniteSet(Transfers) /\ Transfers # {} /\ Transfers \subseteq Nat \ {0}
           /\ Initial \in Nat /\ Sum(Transfers) <= Initial

VARIABLES at, temp, balance,
          exact  \* history: no two threads overlapped on the account

vars == <<at, temp, balance, exact>>
Accounts == {"bill", "john"}

Init == /\ at = [t \in Transfers |-> "withdraw"]
        /\ temp = [t \in Transfers |-> 0]
        /\ balance = [a \in Accounts |-> IF a = "bill" THEN Initial ELSE 0]
        /\ exact = [a \in Accounts |-> TRUE]

Go(t, from, to) == at[t] = from /\ at' = [at EXCEPT ![t] = to]
Between(a) == {t \in Transfers : at[t] = IF a = "bill" THEN "withdrawing" ELSE "depositing"}
-------------------------------------------------------------------------------
Load(t, a) == /\ temp' = [temp EXCEPT ![t] = balance[a]]
              /\ exact' = [exact EXCEPT ![a] = @ /\ Between(a) = {}]
              /\ UNCHANGED balance

FromBalance(t, a, change) == balance[a] + change \* mutant: no stale value is stored
FromTemp(t, a, change) == temp[t] + change
Store(t, a, change) == /\ balance' = [balance EXCEPT ![a] = FromTemp(t, a, change)]
                       /\ UNCHANGED <<temp, exact>>

LoadFrom(t) == Go(t, "withdraw", "withdrawing") /\ Load(t, "bill")
StoreFrom(t) == Go(t, "withdrawing", "deposit") /\ Store(t, "bill", -t)
LoadTo(t) == Go(t, "deposit", "depositing") /\ Load(t, "john")
StoreTo(t) == Go(t, "depositing", "done") /\ Store(t, "john", t)

TransferMoney(t) == LoadFrom(t) \/ StoreFrom(t) \/ LoadTo(t) \/ StoreTo(t)
Next == \E t \in Transfers : TransferMoney(t)
Spec == Init /\ [][Next]_vars /\ \A t \in Transfers : WF_vars(TransferMoney(t))
-------------------------------------------------------------------------------
Over == \A t \in Transfers : at[t] = "done"
Withdrawn == Initial - balance["bill"]

\* Once all transfers are over, each account has seen some of them and never none,
\* and it has seen them all exactly when no two overlapped on it (lines 18-33):
\* one overlap is enough to lose money, and no two of them cancel out.
OverlapLoses ==
  Over => \A moved \in {<<"bill", Withdrawn>>, <<"john", balance["john"]>>} :
            /\ \E S \in (SUBSET Transfers) \ {{}} : moved[2] = Sum(S)
            /\ exact[moved[1]] <=> moved[2] = Sum(Transfers)
Completes == <>Over
===============================================================================
