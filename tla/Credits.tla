------------------------------- MODULE Credits -------------------------------
(***************************************************************************)
(* src/credits.js: atomicDebit and grantCredits against D1.                *)
(*                                                                         *)
(* A debit is a call that awaits D1 three or four times: it reads the      *)
(* balance, runs the guarded batch, and then either reads the balance back *)
(* or, when the guard lost a race, deletes the ledger row the batch wrote  *)
(* and reads the balance to report it.  Calls of all users interleave at   *)
(* every await.  For the calls in Struck, D1 may fail a statement, may     *)
(* commit the batch and lose the answer, and the isolate may die at any    *)
(* await; the others meet no failure.                                      *)
(***************************************************************************)
EXTENDS CreditStore

CONSTANTS Debits,  \* atomicDebit invocations (each draws its ledger id once)
          Grants,  \* grantCredits invocations
          Amounts, \* what Math.max(1, Math.round(amount)) may yield
          NoRef,   \* the `ref` of a burn or an admin grant
          Struck   \* the debits that D1 or the isolate may fail

ASSUME CreditsAssumption ==
  /\ Debits \cup Grants \subseteq RowIds
  /\ Debits \cap Grants = {}
  /\ Amounts \subseteq Nat \ {0}
  /\ NoRef \in Refs
  /\ Struck \subseteq Debits

VARIABLES call,    \* per debit: where it stands, its arguments, D1's verdict
          granted  \* the grants that have run

creditVars == <<balance, ledger, call, granted>>

Active == {"reading", "batch", "undo", "reread", "confirm"}
Answers == {"ok", "insufficient", "threw"}

\* `verdict` is what D1 decided about the debit: "taken" when the guarded
\* UPDATE changed a row, "refused" when the balance did not cover it at the
\* pre-read or in the batch.  The call learns it from debitRes.meta.changes.
Call == [pc : {"idle", "dead"} \cup Active \cup Answers,
         user : Users, amount : Amounts,
         verdict : {"open", "taken", "refused"}]

Init ==
  /\ StoreInit
  /\ call \in [Debits -> [pc : {"idle"}, user : Users, amount : Amounts,
                          verdict : {"open"}]]
  /\ granted = {}

Goto(d, pc) == call' = [call EXCEPT ![d].pc = pc]

\* A faulty Decide: the two fields are written the wrong way round.
DecideSwapped(d, pc, verdict) ==
  call' = [call EXCEPT ![d].pc = verdict, ![d].verdict = pc]

Decide(d, pc, verdict) ==
  call' = [call EXCEPT ![d].pc = pc, ![d].verdict = verdict]

-----------------------------------------------------------------------------

Ask(d) ==
  /\ call[d].pc = "idle"
  /\ Goto(d, "reading")
  /\ UNCHANGED <<balance, ledger, granted>>

\* The fast path: a balance that visibly does not cover the amount is refused
\* without a write.
PreRead(d) ==
  /\ call[d].pc = "reading"
  /\ IF balance[call[d].user] < call[d].amount
     THEN Decide(d, "insufficient", "refused")
     ELSE Goto(d, "batch")
  /\ UNCHANGED <<balance, ledger, granted>>

\* The batch itself, whatever the caller gets to hear of it.
Commit(d) == DebitBatch(call[d].user, call[d].amount, d, NoRef)

BatchVerdict(d) ==
  IF DebitApplies(call[d].user, call[d].amount) THEN "taken" ELSE "refused"

\* A faulty Batch: the row count is not looked at.
BatchUnchecked(d) ==
  /\ call[d].pc = "batch"
  /\ Commit(d)
  /\ Decide(d, "confirm", BatchVerdict(d))
  /\ UNCHANGED granted

\* A faulty Batch: the verdict rests on the pre-read, as if nothing had
\* happened since.
BatchTrustsPreRead(d) ==
  /\ call[d].pc = "batch"
  /\ Commit(d)
  /\ Decide(d, "confirm", "taken")
  /\ UNCHANGED granted

Batch(d) ==
  /\ call[d].pc = "batch"
  /\ Commit(d)
  /\ Decide(d, IF BatchVerdict(d) = "taken" THEN "confirm" ELSE "undo",
            BatchVerdict(d))
  /\ UNCHANGED granted

\* The lost race: the row the batch wrote is deleted again.
Undo(d) ==
  /\ call[d].pc = "undo"
  /\ DeleteRow(call[d].user, d)
  /\ Goto(d, "reread")
  /\ UNCHANGED granted

\* The balance read for the answer: of a refusal ...
Reread(d) ==
  /\ call[d].pc = "reread"
  /\ Goto(d, "insufficient")
  /\ UNCHANGED <<balance, ledger, granted>>

\* ... and of a debit that was taken.
Confirm(d) ==
  /\ call[d].pc = "confirm"
  /\ Goto(d, "ok")
  /\ UNCHANGED <<balance, ledger, granted>>

\* grantCredits: one batch.  Its read-back changes nothing.
Grant(g, u, n) ==
  /\ g \notin granted
  /\ GrantBatch(u, n, g, NoRef)
  /\ granted' = granted \cup {g}
  /\ UNCHANGED call

-----------------------------------------------------------------------------

\* D1 fails the statement the call awaits, without effect; atomicDebit throws.
\* (The delete does not throw: see UndoFails.)
StatementThrows(d) ==
  /\ d \in Struck
  /\ call[d].pc \in Active \ {"undo"}
  /\ Goto(d, "threw")
  /\ UNCHANGED <<balance, ledger, granted>>

\* D1 commits the batch and the answer is lost: the call throws all the same.
BatchAnswerLost(d) ==
  /\ d \in Struck
  /\ call[d].pc = "batch"
  /\ Commit(d)
  /\ Decide(d, "threw", BatchVerdict(d))
  /\ UNCHANGED granted

\* try { DELETE } catch {}: a failed delete is swallowed and the row stays.
UndoFails(d) ==
  /\ d \in Struck
  /\ call[d].pc = "undo"
  /\ Goto(d, "reread")
  /\ UNCHANGED <<balance, ledger, granted>>

\* The isolate dies at an await.
Die(d) ==
  /\ d \in Struck
  /\ call[d].pc \in Active
  /\ Goto(d, "dead")
  /\ UNCHANGED <<balance, ledger, granted>>

DebitStep(d) ==
  \/ Ask(d) \/ PreRead(d) \/ Batch(d) \/ Undo(d) \/ Reread(d) \/ Confirm(d)
  \/ StatementThrows(d) \/ BatchAnswerLost(d) \/ UndoFails(d) \/ Die(d)

Next ==
  \/ \E d \in Debits : DebitStep(d)
  \/ \E g \in Grants, u \in Users, n \in Amounts : Grant(g, u, n)

Spec == Init /\ [][Next]_creditVars

-----------------------------------------------------------------------------

(* Every variable keeps its type.                                          *)
TypeOK ==
  /\ StoreTypeOK
  /\ call \in [Debits -> Call]
  /\ granted \in SUBSET Grants

\* The rows a debit has in the ledger of its user.
RowsOf(d) == {i \in DOMAIN ledger[call[d].user] :
                ledger[call[d].user][i].id = d}

Refused == {d \in Debits : call[d].verdict = "refused"}

(* No balance goes below zero and no ledger row ever shows one that did,   *)
(* however many debits race between the pre-read and the guarded UPDATE    *)
(* (credits.js:5-8).                                                       *)
NoOverdraft ==
  \A u \in Users :
    /\ balance[u] >= 0
    /\ \A i \in DOMAIN ledger[u] : ledger[u][i].after >= 0

(* The ledger explains the balance: reading the rows of refused debits as  *)
(* entries that moved nothing, each row follows from the one before it and *)
(* the last is the balance, also after a phantom row has been deleted from *)
(* the middle (the batch of credits.js:59-62 and the delete at 67).        *)
LedgerExplainsBalance == BooksInOrder(Refused)

(* No debit without its audit row and no second row (credits.js:9-11): a   *)
(* debit D1 took has one row, for its amount, whatever became of the call; *)
(* a debit that is still open has none.                                    *)
EveryDebitHasItsRow ==
  \A d \in Debits :
    /\ call[d].verdict = "taken" =>
         \E i \in RowsOf(d) :
           /\ RowsOf(d) = {i}
           /\ ledger[call[d].user][i].delta = -call[d].amount
    /\ call[d].verdict = "open" => RowsOf(d) = {}

(* The caller is told what the ledger shows: { ok: true } only when the    *)
(* debit is booked, "insufficient" only when nothing was taken - and then   *)
(* no phantom row is left of the lost race, unless D1 failed the delete    *)
(* (credits.js:63-73).                                                     *)
AnswersMatchTheLedger ==
  \A d \in Debits :
    /\ call[d].pc = "ok" => call[d].verdict = "taken" /\ RowsOf(d) # {}
    /\ call[d].pc = "insufficient" => call[d].verdict = "refused"
    /\ call[d].pc = "insufficient" /\ d \notin Struck => RowsOf(d) = {}

\* A debit as AtomicCredits sees it: what was asked, and D1's verdict.
SeenDebit(c) ==
  IF c.pc = "idle" THEN [state |-> "idle"]
  ELSE [state |-> c.verdict, user |-> c.user, amount |-> c.amount]

SeenDebits == [d \in Debits |-> SeenDebit(call[d])]

Abstract == INSTANCE AtomicCredits WITH debit <- SeenDebits

(* Every behaviour of the racing calls is one of atomic debits and grants. *)
DebitsAreAtomic == Abstract!Spec
=============================================================================
