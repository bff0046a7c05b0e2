---------------------------- MODULE AtomicCredits ----------------------------
(***************************************************************************)
(* What src/credits.js promises its callers: a balance that is debited and *)
(* granted in single atomic steps.  A debit that is asked for is taken or  *)
(* refused at most once, it is taken in full from a balance that covers    *)
(* it, and it is refused only at a moment when the balance does not.       *)
(*                                                                         *)
(* A debit may stay open for ever: a call that dies or throws before D1    *)
(* decides it takes nothing.                                               *)
(***************************************************************************)
EXTENDS Integers

CONSTANTS Users, Debits, Amounts

VARIABLES balance,  \* user -> credits
          debit     \* debit -> what was asked and what became of it

NotAsked == [state |-> "idle"]

Asked(u, n, s) == [state |-> s, user |-> u, amount |-> n]

Init ==
  /\ balance = [u \in Users |-> 0]
  /\ debit = [d \in Debits |-> NotAsked]

Ask(d, u, n) ==
  /\ debit[d] = NotAsked
  /\ debit' = [debit EXCEPT ![d] = Asked(u, n, "open")]
  /\ UNCHANGED balance

Take(d, u, n) ==
  /\ debit[d] = Asked(u, n, "open")
  /\ balance[u] >= n
  /\ balance' = [balance EXCEPT ![u] = @ - n]
  /\ debit' = [debit EXCEPT ![d] = Asked(u, n, "taken")]

Refuse(d, u, n) ==
  /\ debit[d] = Asked(u, n, "open")
  /\ balance[u] < n
  /\ debit' = [debit EXCEPT ![d] = Asked(u, n, "refused")]
  /\ UNCHANGED balance

Grant(u, n) ==
  /\ balance' = [balance EXCEPT ![u] = @ + n]
  /\ UNCHANGED debit

Next ==
  \E u \in Users, n \in Amounts :
    \/ Grant(u, n)
    \/ \E d \in Debits : Ask(d, u, n) \/ Take(d, u, n) \/ Refuse(d, u, n)

vars == <<balance, debit>>

Spec == Init /\ [][Next]_vars
=============================================================================
