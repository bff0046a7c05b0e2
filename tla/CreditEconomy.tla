----------------------------- MODULE CreditEconomy -----------------------------
(***************************************************************************)
(* The two components that write the credit tables, together: purchases    *)
(* (Payments) pay credits in while the debits of paid calls (Credits) take *)
(* them out of the same balances, step by step in any order.               *)
(***************************************************************************)
EXTENDS CreditStore

CONSTANTS Debits, Amounts, NoRef, Struck,  \* of Credits
          Orders, Calls, Packs             \* of Payments

\* What Credits and Payments assume, and that their ids are not the same.
ASSUME EconomyAssumption ==
  /\ Debits \cap (Calls \cup Orders) = {}
  /\ Debits \cup Calls \subseteq RowIds
  /\ Orders \cup {NoRef} \subseteq Refs
  /\ Struck \subseteq Debits
  /\ Amounts \cup Packs \subseteq Nat \ {0}

VARIABLES debitCall, granted,               \* of Credits
          order, checkout, intent, request  \* of Payments

vars == <<balance, ledger, debitCall, granted, order, checkout, intent, request>>

\* Nothing in src/ calls grantCredits: credits come from settled orders alone.
Burns == INSTANCE Credits WITH call <- debitCall, Grants <- {}
Sales == INSTANCE Payments WITH call <- request

Init == Burns!Init /\ Sales!Init

Next ==
  \/ Burns!Next /\ UNCHANGED <<order, checkout, intent, request>>
  \/ Sales!Next /\ UNCHANGED <<debitCall, granted>>

Spec == Init /\ [][Next]_vars

-----------------------------------------------------------------------------

\* The credits of a user, one by one: those of the orders that were settled for her, and
\* those that D1 took for her debits.
Bought(u) ==
  UNION {{o} \X (1 .. order[o].credits) :
           o \in {p \in Orders : order[p].status = "settled" /\ order[p].user = u}}
Burned(u) ==
  UNION {{d} \X (1 .. debitCall[d].amount) :
           d \in {c \in Debits : debitCall[c].verdict = "taken" /\ debitCall[c].user = u}}

(* Money in, money out: a user's balance is the credits of the orders that *)
(* were settled for her less the debits D1 took from her.                  *)
BalanceIsBoughtLessBurned ==
  \A u \in Users : balance[u] = Cardinality(Bought(u)) - Cardinality(Burned(u))

Abstract == INSTANCE AtomicCredits WITH
  Amounts <- Amounts \cup Packs,
  debit <- Burns!SeenDebits

(* Seen through the balances, purchases and burns together behave like     *)
(* atomic grants and debits: no settle lets a debit through that the       *)
(* balance of that moment does not cover, and none is refused that it does. *)
EconomyIsAtomic == Abstract!Spec
=============================================================================
