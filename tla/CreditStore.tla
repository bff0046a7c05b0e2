----------------------------- MODULE CreditStore -----------------------------
(***************************************************************************)
(* The two D1 tables behind den-fire credits (migration 0008) and the      *)
(* statements that write them.  Each operator below is one D1 batch or one *)
(* autonomous statement, hence one atomic step: everything that awaits     *)
(* between two of them is a step of its own in the modules that use this   *)
(* one (Credits, Payments).                                                *)
(*                                                                         *)
(* A user without a credit_balances row is a user with balance 0: every    *)
(* reader coalesces (`Number(row?.balance) || 0`) and no row is ever       *)
(* deleted.                                                                *)
(***************************************************************************)
EXTENDS Integers, SequencesExt

CONSTANTS Users,   \* user ids
          RowIds,  \* the uuid() each write of a ledger row draws
          Refs     \* what a row is booked against: an order id, a den slug

VARIABLES balance, \* credit_balances: user -> balance
          ledger   \* credit_ledger: user -> that user's rows, oldest first

storeVars == <<balance, ledger>>

Row == [id : RowIds, ref : Refs, delta : Int, after : Int]

StoreTypeOK ==
  /\ balance \in [Users -> Int]
  /\ ledger \in [Users -> Seq(Row)]

StoreInit ==
  /\ balance = [u \in Users |-> 0]
  /\ ledger = [u \in Users |-> <<>>]

-----------------------------------------------------------------------------

\* UPDATE credit_balances ... WHERE user_id = ? AND balance >= ?  changes a row.
\* A faulty guard: without AND balance >= ?, any debit applies.
DebitUnguarded(u, n) == TRUE

DebitApplies(u, n) == balance[u] >= n

\* INSERT INTO credit_ledger ... SELECT ..., balance, ... FROM credit_balances:
\* the row carries the balance as it stands after the statement before it.
\* (Faulty variant: balance_after is the balance before the statement.)
AppendRowStale(u, id, ref, delta, after) ==
  ledger' = [ledger EXCEPT ![u] = Append(@,
    [id |-> id, ref |-> ref, delta |-> delta, after |-> balance[u]])]

AppendRow(u, id, ref, delta, after) ==
  ledger' = [ledger EXCEPT ![u] =
    Append(@, [id |-> id, ref |-> ref, delta |-> delta, after |-> after])]

\* atomicDebit's batch.  The ledger INSERT runs whether or not the guarded
\* UPDATE changed a row.
DebitBatch(u, n, id, ref) ==
  LET left == IF DebitApplies(u, n) THEN balance[u] - n ELSE balance[u]
  IN  /\ balance' = [balance EXCEPT ![u] = left]
      /\ AppendRow(u, id, ref, -n, left)

\* An upsert of the balance and its ledger row.
GrantBatch(u, n, id, ref) ==
  /\ balance' = [balance EXCEPT ![u] = @ + n]
  /\ AppendRow(u, id, ref, n, balance[u] + n)

\* DELETE FROM credit_ledger WHERE id = ?
\* (Faulty variant: the user's newest row is taken for the phantom.)
DeleteNewest(u, id) ==
  /\ ledger' = [ledger EXCEPT ![u] = Front(@)]
  /\ UNCHANGED balance

DeleteRow(u, id) ==
  /\ \E i \in DOMAIN ledger[u] :
       /\ ledger[u][i].id = id
       /\ ledger' = [ledger EXCEPT ![u] = RemoveAt(@, i)]
  /\ UNCHANGED balance

-----------------------------------------------------------------------------

\* The balance the first i rows of a user's ledger leave.
AfterRow(u, i) == IF i = 0 THEN 0 ELSE ledger[u][i].after

\* The books of every user are in order, once the rows in Void are read as
\* entries that moved nothing: each row's balance_after follows from the row
\* before it and its own delta, and the last one is the balance.
BooksInOrder(Void) ==
  \A u \in Users :
    /\ \A i \in DOMAIN ledger[u] :
         ledger[u][i].after =
           AfterRow(u, i - 1) + (IF ledger[u][i].id \in Void
                                 THEN 0 ELSE ledger[u][i].delta)
    /\ balance[u] = AfterRow(u, Len(ledger[u]))
=============================================================================
