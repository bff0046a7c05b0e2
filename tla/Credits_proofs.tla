---------------------------- MODULE Credits_proofs ----------------------------
(***************************************************************************)
(* Proofs about Credits, for any set of users, debits, grants and amounts. *)
(***************************************************************************)
EXTENDS Credits, CreditStore_proofs

USE CreditsAssumption

-----------------------------------------------------------------------------
(* Types                                                                   *)

(* Every variable keeps its type, in every behaviour of the calls.         *)
THEOREM TypeCorrect == Spec => []TypeOK
<1>1. Init => TypeOK
  BY DEF Init, StoreInit, TypeOK, StoreTypeOK, Call
<1>2. TypeOK /\ [Next]_creditVars => TypeOK'
  <2> SUFFICES ASSUME TypeOK, [Next]_creditVars PROVE TypeOK'
    OBVIOUS
  <2> USE DEF TypeOK
  <2>1. ASSUME NEW d \in Debits, DebitStep(d) PROVE TypeOK'
    <3>1. call[d] \in Call /\ call[d].user \in Users /\ call[d].amount \in Nat
      BY DEF Call
    <3>2. ASSUME UNCHANGED <<balance, ledger, granted>>, call' \in [Debits -> Call]
          PROVE  TypeOK'
      BY <3>2 DEF StoreTypeOK
    <3>3. ASSUME NEW pc \in {"idle", "dead"} \cup Active \cup Answers,
                 Goto(d, pc)
          PROVE  call' \in [Debits -> Call]
      BY <3>1, <3>3 DEF Goto, Call
    <3>4. ASSUME NEW pc \in {"idle", "dead"} \cup Active \cup Answers,
                 NEW verdict \in {"open", "taken", "refused"},
                 Decide(d, pc, verdict)
          PROVE  call' \in [Debits -> Call]
      BY <3>1, <3>4 DEF Decide, Call
    <3>5. Commit(d) => balance' \in [Users -> Int] /\ ledger' \in [Users -> Seq(Row)]
      <4> SUFFICES ASSUME Commit(d)
                   PROVE  balance' \in [Users -> Int] /\ ledger' \in [Users -> Seq(Row)]
        OBVIOUS
      <4> DEFINE u == call[d].user
                 n == call[d].amount
                 left == IF DebitApplies(u, n) THEN balance[u] - n ELSE balance[u]
      <4>1. left \in Int /\ -n \in Int /\ u \in Users
        BY <3>1 DEF StoreTypeOK
      <4>2. balance' = [balance EXCEPT ![u] = left] /\ AppendRow(u, d, NoRef, -n, left)
        BY DEF Commit, DebitBatch
      <4> HIDE DEF left, u, n
      <4> QED
        BY <4>1, <4>2, AppendRowIs DEF StoreTypeOK
    <3>6. CASE Ask(d) \/ Reread(d) \/ Confirm(d) \/ StatementThrows(d) \/ UndoFails(d) \/ Die(d)
      BY <3>2, <3>3, <3>6
         DEF Ask, Reread, Confirm, StatementThrows, UndoFails, Die, Active, Answers
    <3>7. CASE PreRead(d)
      BY <3>2, <3>3, <3>4, <3>7 DEF PreRead, Active, Answers
    <3>8. CASE Batch(d) \/ BatchAnswerLost(d)
      BY <3>4, <3>5, <3>8
         DEF Batch, BatchAnswerLost, BatchVerdict, Active, Answers, StoreTypeOK
    <3>9. CASE Undo(d)
      <4>1. PICK i \in DOMAIN ledger[call[d].user] :
              ledger' = [ledger EXCEPT ![call[d].user] = RemoveAt(@, i)]
        BY <3>9 DEF Undo, DeleteRow
      <4>2. RemoveAt(ledger[call[d].user], i) \in Seq(Row)
        <5>1. ledger[call[d].user] \in Seq(Row)
          BY <3>1 DEF StoreTypeOK
        <5>2. i \in 1 .. Len(ledger[call[d].user])
          BY <5>1
        <5> QED
          BY <5>1, <5>2, RemoveAtIs
      <4>3. ledger' \in [Users -> Seq(Row)]
        BY <4>1, <4>2 DEF StoreTypeOK
      <4> QED
        BY <3>3, <3>9, <4>3 DEF Undo, DeleteRow, StoreTypeOK, Active
    <3> QED
      BY <2>1, <3>6, <3>7, <3>8, <3>9 DEF DebitStep
  <2>2. ASSUME NEW g \in Grants, NEW u \in Users, NEW n \in Amounts, Grant(g, u, n)
        PROVE  TypeOK'
    <3>1. balance[u] + n \in Int /\ n \in Int
      BY DEF StoreTypeOK
    <3>2. AppendRow(u, g, NoRef, n, balance[u] + n)
      BY <2>2 DEF Grant, GrantBatch
    <3>3. ledger' \in [Users -> Seq(Row)]
      BY <3>1, <3>2, AppendRowIs
    <3> QED
      BY <2>2, <3>1, <3>3 DEF Grant, GrantBatch, StoreTypeOK
  <2>3. CASE UNCHANGED creditVars
    BY <2>3 DEF creditVars, StoreTypeOK
  <2> QED
    BY <2>1, <2>2, <2>3 DEF Next
<1> QED
  BY <1>1, <1>2, PTL DEF Spec

-----------------------------------------------------------------------------
(* The inductive invariant                                                 *)

\* Where a call stands and what D1 decided about it.
VerdictOfPc ==
  \A d \in Debits :
    /\ call[d].pc \in {"idle", "reading", "batch"} => call[d].verdict = "open"
    /\ call[d].pc \in {"undo", "reread", "insufficient"} => call[d].verdict = "refused"
    /\ call[d].pc \in {"confirm", "ok"} => call[d].verdict = "taken"

\* Row i of user u belongs to a grant that ran or to a debit D1 has decided.
RowIsBooked(u, i) ==
  LET row == ledger[u][i]
  IN  \/ row.id \in granted
      \/ /\ row.id \in Debits
         /\ call[row.id].user = u
         /\ call[row.id].verdict # "open"
         /\ row.delta = -call[row.id].amount

RowsAreBooked == \A u \in Users : \A i \in DOMAIN ledger[u] : RowIsBooked(u, i)

RowIdsAreUnique ==
  \A u \in Users : \A i, j \in DOMAIN ledger[u] :
    ledger[u][i].id = ledger[u][j].id => i = j

\* A taken debit and the phantom of a lost race are in the ledger; once the
\* phantom has been deleted it is gone, unless D1 failed the delete.
RowsOfDebits ==
  \A d \in Debits :
    /\ call[d].verdict = "taken" => RowsOf(d) # {}
    /\ call[d].pc \in {"reread", "insufficient"} /\ d \notin Struck => RowsOf(d) = {}

IInv ==
  /\ TypeOK
  /\ VerdictOfPc
  /\ RowsAreBooked
  /\ RowIdsAreUnique
  /\ RowsOfDebits
  /\ BooksInOrder(Refused)
  /\ NoOverdraft

(* A debit that is still open has no row.                                  *)
LEMMA OpenHasNoRow ==
  ASSUME IInv, NEW d \in Debits, call[d].verdict = "open"
  PROVE  \A u \in Users : \A i \in DOMAIN ledger[u] : ledger[u][i].id # d
  BY DEF IInv, TypeOK, RowsAreBooked, RowIsBooked

\* Call d moves on, with the verdict v; the other calls do not.
Moves(d, v) ==
  /\ \A e \in Debits \ {d} : call'[e] = call[e]
  /\ call'[d].user = call[d].user
  /\ call'[d].amount = call[d].amount
  /\ call'[d].verdict = v

(* A step of one call that leaves the tables alone keeps the invariant.    *)
LEMMA QuietStep ==
  ASSUME IInv, TypeOK', VerdictOfPc', NEW d \in Debits, NEW v,
         UNCHANGED <<balance, ledger, granted>>, Moves(d, v),
         v = call[d].verdict \/ (call[d].verdict = "open" /\ v = "refused"),
         call'[d].pc \in {"reread", "insufficient"} /\ d \notin Struck
           => RowsOf(d) = {}
  PROVE  IInv'
<1>1. \A e \in Debits : call'[e].user = call[e].user /\ call'[e].amount = call[e].amount
  BY DEF Moves
<1>2. \A e \in Debits : RowsOf(e)' = RowsOf(e)
  BY <1>1 DEF RowsOf
<1>3. RowsAreBooked'
  BY <1>1, OpenHasNoRow DEF IInv, RowsAreBooked, RowIsBooked, Moves
<1>4. RowIdsAreUnique'
  BY DEF IInv, RowIdsAreUnique
<1>5. RowsOfDebits'
  BY <1>2 DEF IInv, RowsOfDebits, Moves
<1>6. \A u \in Users : \A i \in DOMAIN ledger[u] :
        ledger[u][i].id \in Refused' <=> ledger[u][i].id \in Refused
  BY OpenHasNoRow DEF Refused, Moves
<1>7. BooksInOrder(Refused)'
  BY <1>6 DEF IInv, BooksInOrder, AfterRow
<1>8. NoOverdraft'
  BY DEF IInv, NoOverdraft
<1> QED
  BY <1>3, <1>4, <1>5, <1>7, <1>8 DEF IInv

(* D1 decides an open debit: the batch keeps the invariant, whatever the    *)
(* caller gets to hear of it.                                              *)
LEMMA CommitStep ==
  ASSUME IInv, TypeOK', VerdictOfPc', NEW d \in Debits,
         call[d].verdict = "open", Commit(d), UNCHANGED granted,
         Moves(d, BatchVerdict(d)),
         call'[d].pc \notin {"reread", "insufficient"}
  PROVE  IInv'
<1> DEFINE u == call[d].user
           n == call[d].amount
           after == IF DebitApplies(u, n) THEN balance[u] - n ELSE balance[u]
           row == [id |-> d, ref |-> NoRef, delta |-> -n, after |-> after]
           last == Len(ledger[u]) + 1
<1>1. u \in Users /\ n \in Nat /\ n > 0 /\ balance[u] \in Int /\ balance[u] >= 0
  <2>1. call[d] \in Call
    BY DEF IInv, TypeOK
  <2>2. call[d].user \in Users /\ call[d].amount \in Amounts
    BY <2>1 DEF Call
  <2>3. balance[u] \in Int /\ balance[u] >= 0
    BY <2>2 DEF IInv, TypeOK, StoreTypeOK, NoOverdraft
  <2>4. n \in Nat /\ n > 0
    <3>1. n \in Nat \ {0}
      BY <2>2
    <3> QED
      BY <3>1
  <2> QED
    BY <2>2, <2>3, <2>4
<1>2. AppendRow(u, d, NoRef, -n, after) /\ balance' = [balance EXCEPT ![u] = after]
  BY DEF Commit, DebitBatch
<1>3. after \in Int /\ after >= 0 /\ -n \in Int
  BY <1>1 DEF DebitApplies
<1>4. after = balance[u] + (IF d \in Refused' THEN 0 ELSE -n)
  BY <1>1 DEF BatchVerdict, Refused, Moves
<1>5. d \in RowIds /\ NoRef \in Refs /\ StoreTypeOK
  BY DEF IInv, TypeOK
<1> HIDE DEF u, n, after
<1>6. /\ last \in DOMAIN ledger'[u] /\ ledger'[u][last] = row
      /\ \A v \in Users : \A i \in DOMAIN ledger'[v] :
           \/ v = u /\ i = last
           \/ i \in DOMAIN ledger[v] /\ ledger'[v][i] = ledger[v][i]
      /\ \A v \in Users : \A i \in DOMAIN ledger[v] :
           /\ i \in DOMAIN ledger'[v] /\ ledger'[v][i] = ledger[v][i]
           /\ ~(v = u /\ i = last)
  BY <1>1, <1>2, <1>3, <1>5, RowsAfterAppend
<1>7. row.id = d /\ row.delta = -n /\ row.after = after
  OBVIOUS
<1> HIDE DEF row, last
<1>8. \A e \in Debits : call'[e].user = call[e].user /\ call'[e].amount = call[e].amount
  BY DEF Moves
<1>9. BatchVerdict(d) \in {"taken", "refused"} /\ call'[d].verdict = BatchVerdict(d)
  BY DEF BatchVerdict, Moves
<1>10. RowsAreBooked'
  <2> SUFFICES ASSUME NEW v \in Users, NEW i \in DOMAIN ledger'[v]
               PROVE  RowIsBooked(v, i)'
    BY DEF RowsAreBooked
  <2>1. CASE v = u /\ i = last
    BY <1>6, <1>7, <1>8, <1>9, <2>1 DEF RowIsBooked, u, n
  <2>2. CASE i \in DOMAIN ledger[v] /\ ledger'[v][i] = ledger[v][i]
    <3>1. RowIsBooked(v, i) /\ ledger[v][i].id # d
      BY <2>2, OpenHasNoRow DEF IInv, RowsAreBooked
    <3> QED
      BY <2>2, <3>1 DEF RowIsBooked, Moves
  <2> QED
    BY <1>6, <2>1, <2>2
<1>11. RowIdsAreUnique'
  <2> SUFFICES ASSUME NEW v \in Users,
                      NEW i \in DOMAIN ledger'[v], NEW j \in DOMAIN ledger'[v],
                      ledger'[v][i].id = ledger'[v][j].id
               PROVE  i = j
    BY DEF RowIdsAreUnique
  <2>1. \A k \in DOMAIN ledger[v] : ledger[v][k].id # d
    BY OpenHasNoRow
  <2> QED
    BY <1>6, <1>7, <2>1 DEF IInv, RowIdsAreUnique
<1>12. RowsOfDebits'
  <2> SUFFICES ASSUME NEW e \in Debits
               PROVE  /\ call'[e].verdict = "taken" => RowsOf(e)' # {}
                      /\ call'[e].pc \in {"reread", "insufficient"} /\ e \notin Struck
                           => RowsOf(e)' = {}
    BY DEF RowsOfDebits
  <2>1. CASE e = d
    BY <1>6, <1>7, <1>8, <2>1 DEF RowsOf, u
  <2>2. CASE e # d
    <3>1. call'[e] = call[e] /\ call[e].user \in Users
      BY <2>2 DEF Moves, IInv, TypeOK, Call
    <3>2. RowsOf(e)' = RowsOf(e)
      BY <1>6, <1>7, <2>2, <3>1 DEF RowsOf
    <3> QED
      BY <3>1, <3>2 DEF IInv, RowsOfDebits
  <2> QED
    BY <2>1, <2>2
<1>13. BooksInOrder(Refused)'
  <2> DEFINE void == Refused'
  <2>1. SameVoid(Refused, void)
    BY OpenHasNoRow DEF SameVoid, Refused, Moves
  <2>2. Books(balance, ledger, Refused)
    BY BooksAre DEF IInv
  <2>3. after = balance[u] + (IF d \in void THEN 0 ELSE -n)
    BY <1>4
  <2> HIDE DEF void
  <2>4. Books(balance', ledger', void)
    BY <1>1, <1>2, <1>3, <1>5, <2>1, <2>2, <2>3, BooksAfterAppend
  <2> QED
    BY <2>4 DEF BooksInOrder, AfterRow, Books, InOrder, void
<1>14. NoOverdraft'
  <2>1. \A v \in Users : balance'[v] = IF v = u THEN after ELSE balance[v]
    BY <1>2, <1>5 DEF StoreTypeOK
  <2> QED
    BY <1>3, <1>6, <1>7, <2>1 DEF IInv, NoOverdraft
<1> QED
  BY <1>10, <1>11, <1>12, <1>13, <1>14 DEF IInv

(* A grant keeps the invariant.                                            *)
LEMMA GrantStep ==
  ASSUME IInv, TypeOK', NEW g \in Grants, NEW u \in Users, NEW n \in Amounts,
         Grant(g, u, n)
  PROVE  IInv'
<1> DEFINE after == balance[u] + n
           row == [id |-> g, ref |-> NoRef, delta |-> n, after |-> after]
           last == Len(ledger[u]) + 1
<1>1. /\ AppendRow(u, g, NoRef, n, after) /\ balance' = [balance EXCEPT ![u] = after]
      /\ g \notin granted /\ granted' = granted \cup {g} /\ call' = call
  <2>1. balance[u] \in Int
    BY DEF IInv, TypeOK, StoreTypeOK
  <2> QED
    BY <2>1 DEF Grant, GrantBatch, IInv, TypeOK, StoreTypeOK
<1>2. after \in Int /\ after >= 0 /\ n \in Int /\ g \in RowIds /\ NoRef \in Refs /\ StoreTypeOK
  BY DEF IInv, TypeOK, StoreTypeOK, NoOverdraft
<1>3. after = balance[u] + (IF g \in Refused THEN 0 ELSE n)
  BY DEF Refused
<1> HIDE DEF after
<1>4. /\ last \in DOMAIN ledger'[u] /\ ledger'[u][last] = row
      /\ \A v \in Users : \A i \in DOMAIN ledger'[v] :
           \/ v = u /\ i = last
           \/ i \in DOMAIN ledger[v] /\ ledger'[v][i] = ledger[v][i]
      /\ \A v \in Users : \A i \in DOMAIN ledger[v] :
           /\ i \in DOMAIN ledger'[v] /\ ledger'[v][i] = ledger[v][i]
           /\ ~(v = u /\ i = last)
  BY <1>1, <1>2, RowsAfterAppend
<1>5. row.id = g /\ row.after = after
  OBVIOUS
<1> HIDE DEF row, last
<1>6. \A v \in Users : \A i \in DOMAIN ledger[v] : ledger[v][i].id # g
  BY <1>1 DEF IInv, RowsAreBooked, RowIsBooked
<1>7. VerdictOfPc'
  BY <1>1 DEF IInv, VerdictOfPc
<1>8. RowsAreBooked'
  <2> SUFFICES ASSUME NEW v \in Users, NEW i \in DOMAIN ledger'[v]
               PROVE  RowIsBooked(v, i)'
    BY DEF RowsAreBooked
  <2>1. CASE v = u /\ i = last
    BY <1>1, <1>4, <1>5, <2>1 DEF RowIsBooked
  <2>2. CASE i \in DOMAIN ledger[v] /\ ledger'[v][i] = ledger[v][i]
    BY <1>1, <2>2 DEF IInv, RowsAreBooked, RowIsBooked
  <2> QED
    BY <1>4, <2>1, <2>2
<1>9. RowIdsAreUnique'
  BY <1>4, <1>5, <1>6 DEF IInv, RowIdsAreUnique
<1>10. RowsOfDebits'
  <2>1. ASSUME NEW e \in Debits PROVE RowsOf(e)' = RowsOf(e)
    <3>1. call'[e] = call[e] /\ call[e].user \in Users
      BY <1>1 DEF IInv, TypeOK, Call
    <3> QED
      BY <1>4, <1>5, <3>1 DEF RowsOf
  <2> QED
    BY <1>1, <2>1 DEF IInv, RowsOfDebits
<1>11. BooksInOrder(Refused)'
  <2>1. SameVoid(Refused, Refused) /\ Refused' = Refused
    BY <1>1 DEF SameVoid, Refused
  <2>2. Books(balance, ledger, Refused)
    BY BooksAre DEF IInv
  <2>3. Books(balance', ledger', Refused)
    BY <1>1, <1>2, <1>3, <2>1, <2>2, BooksAfterAppend
  <2> QED
    BY <2>1, <2>3 DEF BooksInOrder, AfterRow, Books, InOrder
<1>12. NoOverdraft'
  <2>1. \A v \in Users : balance'[v] = IF v = u THEN after ELSE balance[v]
    BY <1>1, <1>2 DEF StoreTypeOK
  <2> QED
    BY <1>2, <1>4, <1>5, <2>1 DEF IInv, NoOverdraft
<1> QED
  BY <1>7, <1>8, <1>9, <1>10, <1>11, <1>12 DEF IInv

(* Deleting the phantom row of a refused debit keeps the invariant.        *)
LEMMA UndoStep ==
  ASSUME IInv, TypeOK', NEW d \in Debits, Undo(d)
  PROVE  IInv'
<1> DEFINE u == call[d].user
           s == ledger[u]
<1>1. /\ call[d].pc = "undo" /\ call[d].verdict = "refused"
      /\ Goto(d, "reread") /\ granted' = granted /\ balance' = balance
      /\ u \in Users /\ s \in Seq(Row)
  BY DEF Undo, DeleteRow, IInv, TypeOK, StoreTypeOK, VerdictOfPc, Call
<1>2. PICK p \in DOMAIN s : s[p].id = d /\ ledger' = [ledger EXCEPT ![u] = RemoveAt(s, p)]
  BY DEF Undo, DeleteRow
<1>3. /\ \A v \in Users \ {u} : ledger'[v] = ledger[v]
      /\ ledger'[u] = RemoveAt(s, p)
  BY <1>1, <1>2 DEF IInv, TypeOK, StoreTypeOK
<1>4. Len(s) \in Nat /\ DOMAIN s = 1 .. Len(s) /\ p \in 1 .. Len(s)
  BY <1>1, <1>2
<1>5. /\ ledger'[u] \in Seq(Row) /\ Len(ledger'[u]) = Len(s) - 1
      /\ \A k \in 1 .. p - 1 : ledger'[u][k] = s[k]
      /\ \A k \in p .. Len(s) - 1 : ledger'[u][k] = s[k + 1]
  <2>1. /\ ledger'[u] \in Seq(Row) /\ Len(ledger'[u]) = Len(s) - 1
        /\ \A k \in 1 .. Len(s) - 1 : ledger'[u][k] = IF k < p THEN s[k] ELSE s[k + 1]
    <3> HIDE DEF s, u
    <3> QED
      BY ZenonT(30), <1>1, <1>3, <1>4, RemoveAtIs
  <2> HIDE DEF s, u
  <2>2. \A k \in 1 .. p - 1 : k \in 1 .. Len(s) - 1 /\ k < p
    BY <1>4
  <2>3. \A k \in p .. Len(s) - 1 : k \in 1 .. Len(s) - 1 /\ ~(k < p)
    BY <1>4
  <2> QED
    BY <2>1, <2>2, <2>3
<1>6. DOMAIN ledger'[u] = 1 .. Len(s) - 1
  BY <1>4, <1>5
<1>7. /\ \A e \in Debits : /\ call'[e].user = call[e].user
                           /\ call'[e].amount = call[e].amount
                           /\ call'[e].verdict = call[e].verdict
      /\ \A e \in Debits \ {d} : call'[e] = call[e]
      /\ call'[d].pc = "reread"
  BY <1>1 DEF Goto, IInv, TypeOK, Call
<1> HIDE DEF s, u
<1>8. \A i \in DOMAIN ledger'[u] :
        \E k \in DOMAIN s : k # p /\ ledger'[u][i] = s[k] /\ k = IF i < p THEN i ELSE i + 1
  <2> SUFFICES ASSUME NEW i \in 1 .. Len(s) - 1
               PROVE  \E k \in 1 .. Len(s) :
                        k # p /\ ledger'[u][i] = s[k] /\ k = IF i < p THEN i ELSE i + 1
    BY <1>4, <1>6
  <2>1. CASE i < p
    <3>1. i \in 1 .. p - 1 /\ i \in 1 .. Len(s)
      BY <1>4, <2>1
    <3> QED
      BY <1>5, <2>1, <3>1
  <2>2. CASE i >= p
    <3>1. i \in p .. Len(s) - 1 /\ i + 1 \in 1 .. Len(s) /\ i + 1 # p /\ ~(i < p)
      BY <1>4, <2>2
    <3> QED
      BY <1>5, <3>1
  <2> QED
    BY <1>4, <2>1, <2>2
<1>9. \A k \in DOMAIN s : k # p => \E i \in DOMAIN ledger'[u] : ledger'[u][i] = s[k]
  <2> SUFFICES ASSUME NEW k \in 1 .. Len(s), k # p
               PROVE  \E i \in 1 .. Len(s) - 1 : ledger'[u][i] = s[k]
    BY <1>4, <1>6
  <2>1. CASE k < p
    <3>1. k \in 1 .. p - 1 /\ k \in 1 .. Len(s) - 1
      BY <1>4, <2>1
    <3> QED
      BY <1>5, <3>1
  <2>2. CASE k > p
    <3>1. k - 1 \in p .. Len(s) - 1 /\ k - 1 \in 1 .. Len(s) - 1 /\ (k - 1) + 1 = k
      BY <1>4, <2>2
    <3> QED
      BY <1>5, <3>1
  <2> QED
    BY <1>4, <2>1, <2>2
<1>10. VerdictOfPc'
  BY <1>1, <1>7 DEF IInv, VerdictOfPc
<1>11. RowsAreBooked'
  BY <1>1, <1>3, <1>7, <1>8 DEF IInv, RowsAreBooked, RowIsBooked, s
<1>12. RowIdsAreUnique'
  <2> SUFFICES ASSUME NEW v \in Users,
                      NEW i \in DOMAIN ledger'[v], NEW j \in DOMAIN ledger'[v],
                      ledger'[v][i].id = ledger'[v][j].id
               PROVE  i = j
    BY DEF RowIdsAreUnique
  <2>1. CASE v # u
    BY <1>3, <2>1 DEF IInv, RowIdsAreUnique
  <2>2. CASE v = u
    <3>1. PICK k \in DOMAIN s : ledger'[u][i] = s[k] /\ k = IF i < p THEN i ELSE i + 1
      BY <1>8, <2>2
    <3>2. PICK l \in DOMAIN s : ledger'[u][j] = s[l] /\ l = IF j < p THEN j ELSE j + 1
      BY <1>8, <2>2
    <3>3. k = l
      BY <1>1, <2>2, <3>1, <3>2 DEF IInv, RowIdsAreUnique, s
    <3>4. i \in 1 .. Len(s) - 1 /\ j \in 1 .. Len(s) - 1
      BY <1>6, <2>2
    <3> QED
      BY <1>4, <3>1, <3>2, <3>3, <3>4
  <2> QED
    BY <2>1, <2>2
<1>13. RowsOfDebits'
  <2> SUFFICES ASSUME NEW e \in Debits
               PROVE  /\ call'[e].verdict = "taken" => RowsOf(e)' # {}
                      /\ call'[e].pc \in {"reread", "insufficient"} /\ e \notin Struck
                           => RowsOf(e)' = {}
    BY DEF RowsOfDebits
  <2>1. CASE e = d
    <3>1. \A k \in DOMAIN s : k # p => s[k].id # d
      BY <1>1, <1>2 DEF IInv, RowIdsAreUnique, s
    <3>2. RowsOf(d)' = {}
      BY <1>7, <1>8, <3>1 DEF RowsOf, u
    <3> QED
      BY <1>1, <1>7, <2>1, <3>2
  <2>2. CASE e # d /\ call[e].user = u
    <3>1. RowsOf(e) # {} <=> \E k \in DOMAIN s : s[k].id = e
      BY <2>2 DEF RowsOf, s
    <3>2. RowsOf(e)' # {} <=> \E i \in DOMAIN ledger'[u] : ledger'[u][i].id = e
      BY <1>7, <2>2 DEF RowsOf
    <3>3. RowsOf(e)' # {} <=> RowsOf(e) # {}
      BY <1>2, <1>8, <1>9, <2>2, <3>1, <3>2
    <3> QED
      BY <1>7, <2>2, <3>3 DEF IInv, RowsOfDebits
  <2>3. CASE e # d /\ call[e].user # u
    <3>1. RowsOf(e)' = RowsOf(e)
      BY <1>3, <1>7, <2>3 DEF RowsOf, IInv, TypeOK, Call
    <3> QED
      BY <1>7, <2>3, <3>1 DEF IInv, RowsOfDebits
  <2> QED
    BY <2>1, <2>2, <2>3
<1>14. BooksInOrder(Refused)'
  <2>1. Refused' = Refused /\ d \in Refused
    BY <1>1, <1>7 DEF Refused
  <2> DEFINE void == Refused
  <2>2. Books(balance, ledger, void)
    BY BooksAre DEF IInv
  <2>3. s[p].id \in void
    BY <1>2, <2>1
  <2> HIDE DEF void
  <2>4. InOrder(ledger'[u], balance'[u], void)
    <3>1. InOrder(s, balance[u], void)
      BY <1>1, <2>2 DEF Books, s
    <3> QED
      BY <1>1, <1>4, <1>5, <2>3, <3>1, OrderAfterRemove
  <2>5. Books(balance', ledger', void)
    BY <1>1, <1>3, <2>2, <2>4 DEF Books
  <2> QED
    BY <2>1, <2>5 DEF BooksInOrder, AfterRow, Books, InOrder, void
<1>15. NoOverdraft'
  BY <1>1, <1>3, <1>8 DEF IInv, NoOverdraft, s
<1> QED
  BY <1>10, <1>11, <1>12, <1>13, <1>14, <1>15 DEF IInv

-----------------------------------------------------------------------------
(* The safety properties                                                   *)

(* The inductive invariant holds in every state of every behaviour.        *)
THEOREM InductiveInvariant == Spec => []IInv
<1>1. Init => IInv
  <2> SUFFICES ASSUME Init PROVE IInv
    OBVIOUS
  <2>1. TypeOK
    BY DEF Init, StoreInit, TypeOK, StoreTypeOK, Call
  <2>2. /\ \A u \in Users : ledger[u] = <<>> /\ balance[u] = 0
        /\ \A d \in Debits : call[d].pc = "idle" /\ call[d].verdict = "open"
    BY DEF Init, StoreInit
  <2>3. \A u \in Users : DOMAIN ledger[u] = {} /\ Len(ledger[u]) = 0
    BY <2>2
  <2>4. \A d \in Debits : RowsOf(d) = {}
    BY <2>1, <2>3 DEF RowsOf, TypeOK, Call
  <2> QED
    BY <2>1, <2>2, <2>3, <2>4
       DEF IInv, VerdictOfPc, RowsAreBooked, RowIdsAreUnique, RowsOfDebits,
           BooksInOrder, AfterRow, NoOverdraft
<1>2. IInv /\ [Next]_creditVars /\ TypeOK' => IInv'
  <2> SUFFICES ASSUME IInv, [Next]_creditVars, TypeOK' PROVE IInv'
    OBVIOUS
  <2>1. ASSUME NEW d \in Debits, DebitStep(d) PROVE IInv'
    <3>1. call \in [Debits -> Call] /\ VerdictOfPc
      BY DEF IInv, TypeOK
    <3>2. ASSUME NEW pc, Goto(d, pc)
          PROVE  Moves(d, call[d].verdict) /\ call'[d].pc = pc
      BY <3>1, <3>2 DEF Goto, Moves, Call
    <3>3. ASSUME NEW pc, NEW v, Decide(d, pc, v)
          PROVE  Moves(d, v) /\ call'[d].pc = pc
      BY <3>1, <3>3 DEF Decide, Moves, Call
    <3>4. CASE Ask(d)
      <4>1. Moves(d, call[d].verdict) /\ call'[d].pc = "reading" /\ call[d].pc = "idle"
        BY <3>2, <3>4 DEF Ask
      <4>2. VerdictOfPc'
        BY <3>1, <4>1 DEF VerdictOfPc, Moves
      <4> QED
        BY <3>4, <4>1, <4>2, QuietStep DEF Ask
    <3>5. CASE PreRead(d)
      <4>1. CASE balance[call[d].user] < call[d].amount
        <5>1. /\ Moves(d, "refused") /\ call'[d].pc = "insufficient"
              /\ call[d].pc = "reading" /\ call[d].verdict = "open"
          BY <3>1, <3>3, <3>5, <4>1 DEF PreRead, VerdictOfPc
        <5>2. VerdictOfPc'
          BY <3>1, <5>1 DEF VerdictOfPc, Moves
        <5>3. RowsOf(d) = {}
          BY <3>1, <5>1, OpenHasNoRow DEF RowsOf, Call
        <5> QED
          BY <3>5, <5>1, <5>2, <5>3, QuietStep DEF PreRead
      <4>2. CASE ~(balance[call[d].user] < call[d].amount)
        <5>1. Moves(d, call[d].verdict) /\ call'[d].pc = "batch" /\ call[d].pc = "reading"
          BY <3>2, <3>5, <4>2 DEF PreRead
        <5>2. VerdictOfPc'
          BY <3>1, <5>1 DEF VerdictOfPc, Moves
        <5> QED
          BY <3>5, <5>1, <5>2, QuietStep DEF PreRead
      <4> QED
        BY <4>1, <4>2
    <3>6. CASE Batch(d) \/ BatchAnswerLost(d)
      <4>1. /\ Moves(d, BatchVerdict(d)) /\ Commit(d) /\ UNCHANGED granted
            /\ call[d].pc = "batch" /\ call[d].verdict = "open"
            /\ call'[d].pc \in {"confirm", "undo", "threw"}
            /\ call'[d].pc = "confirm" => BatchVerdict(d) = "taken"
            /\ call'[d].pc = "undo" => BatchVerdict(d) = "refused"
        BY <3>1, <3>3, <3>6 DEF Batch, BatchAnswerLost, BatchVerdict, VerdictOfPc
      <4>2. VerdictOfPc'
        BY <3>1, <4>1 DEF VerdictOfPc, Moves
      <4> QED
        BY <4>1, <4>2, CommitStep
    <3>7. CASE Undo(d)
      BY <3>7, UndoStep
    <3>8. CASE Reread(d)
      <4>1. Moves(d, call[d].verdict) /\ call'[d].pc = "insufficient" /\ call[d].pc = "reread"
        BY <3>2, <3>8 DEF Reread
      <4>2. VerdictOfPc'
        BY <3>1, <4>1 DEF VerdictOfPc, Moves
      <4>3. d \notin Struck => RowsOf(d) = {}
        BY <4>1 DEF IInv, RowsOfDebits
      <4> QED
        BY <3>8, <4>1, <4>2, <4>3, QuietStep DEF Reread
    <3>9. CASE Confirm(d)
      <4>1. Moves(d, call[d].verdict) /\ call'[d].pc = "ok" /\ call[d].pc = "confirm"
        BY <3>2, <3>9 DEF Confirm
      <4>2. VerdictOfPc'
        BY <3>1, <4>1 DEF VerdictOfPc, Moves
      <4> QED
        BY <3>9, <4>1, <4>2, QuietStep DEF Confirm
    <3>10. CASE StatementThrows(d) \/ Die(d)
      <4>1. Moves(d, call[d].verdict) /\ call'[d].pc \in {"threw", "dead"}
        BY <3>2, <3>10 DEF StatementThrows, Die
      <4>2. VerdictOfPc'
        BY <3>1, <4>1 DEF VerdictOfPc, Moves
      <4> QED
        BY <3>10, <4>1, <4>2, QuietStep DEF StatementThrows, Die
    <3>11. CASE UndoFails(d)
      <4>1. /\ Moves(d, call[d].verdict) /\ call'[d].pc = "reread" /\ call[d].pc = "undo"
            /\ d \in Struck
        BY <3>2, <3>11 DEF UndoFails
      <4>2. VerdictOfPc'
        BY <3>1, <4>1 DEF VerdictOfPc, Moves
      <4> QED
        BY <3>11, <4>1, <4>2, QuietStep DEF UndoFails
    <3> QED
      BY <2>1, <3>4, <3>5, <3>6, <3>7, <3>8, <3>9, <3>10, <3>11 DEF DebitStep
  <2>2. ASSUME NEW g \in Grants, NEW u \in Users, NEW n \in Amounts, Grant(g, u, n)
        PROVE  IInv'
    BY <2>2, GrantStep
  <2>3. CASE UNCHANGED creditVars
    BY <2>3 DEF creditVars, IInv, VerdictOfPc, RowsAreBooked, RowIsBooked,
                RowIdsAreUnique, RowsOfDebits, RowsOf, BooksInOrder, AfterRow,
                Refused, NoOverdraft
  <2> QED
    BY <2>1, <2>2, <2>3 DEF Next
<1> QED
  BY <1>1, <1>2, TypeCorrect, PTL DEF Spec

(* No balance and no ledger row is ever negative.                          *)
THEOREM NeverOverdrawn == Spec => []NoOverdraft
<1>1. IInv => NoOverdraft
  BY DEF IInv
<1> QED
  BY <1>1, InductiveInvariant, PTL

(* The ledger always explains the balance.                                 *)
THEOREM LedgerExplains == Spec => []LedgerExplainsBalance
<1>1. IInv => LedgerExplainsBalance
  BY DEF IInv, LedgerExplainsBalance
<1> QED
  BY <1>1, InductiveInvariant, PTL

(* A taken debit has exactly its one row, an open one has none.            *)
THEOREM DebitsHaveRows == Spec => []EveryDebitHasItsRow
<1>1. IInv => EveryDebitHasItsRow
  <2> SUFFICES ASSUME IInv, NEW d \in Debits
               PROVE  /\ call[d].verdict = "taken" =>
                           \E i \in RowsOf(d) :
                             /\ RowsOf(d) = {i}
                             /\ ledger[call[d].user][i].delta = -call[d].amount
                      /\ call[d].verdict = "open" => RowsOf(d) = {}
    BY DEF EveryDebitHasItsRow
  <2>1. call[d].user \in Users
    BY DEF IInv, TypeOK, Call
  <2>2. ASSUME call[d].verdict = "taken"
        PROVE  \E i \in RowsOf(d) :
                 /\ RowsOf(d) = {i}
                 /\ ledger[call[d].user][i].delta = -call[d].amount
    <3>1. PICK i \in RowsOf(d) : TRUE
      BY <2>2 DEF IInv, RowsOfDebits
    <3>2. \A j \in RowsOf(d) : j = i
      BY <2>1, <3>1 DEF IInv, RowIdsAreUnique, RowsOf
    <3>3. ledger[call[d].user][i].id = d /\ RowIsBooked(call[d].user, i)
      BY <2>1, <3>1 DEF IInv, RowsAreBooked, RowsOf
    <3>4. ledger[call[d].user][i].delta = -call[d].amount
      BY <3>3 DEF RowIsBooked, IInv, TypeOK
    <3> QED
      BY <3>1, <3>2, <3>4
  <2>3. call[d].verdict = "open" => RowsOf(d) = {}
    BY <2>1, OpenHasNoRow DEF RowsOf
  <2> QED
    BY <2>2, <2>3
<1> QED
  BY <1>1, InductiveInvariant, PTL

(* Callers are told what the ledger shows.                                 *)
THEOREM AnswersAreRight == Spec => []AnswersMatchTheLedger
<1>1. IInv => AnswersMatchTheLedger
  BY DEF IInv, VerdictOfPc, RowsOfDebits, AnswersMatchTheLedger
<1> QED
  BY <1>1, InductiveInvariant, PTL

-----------------------------------------------------------------------------
(* Refinement                                                              *)

(* The racing calls implement atomic debits and grants: every step is one  *)
(* of AtomicCredits or changes nothing it can see.                         *)
THEOREM CallsAreAtomic == Spec => DebitsAreAtomic
<1>1. Init => Abstract!Init
  BY DEF Init, StoreInit, SeenDebits, SeenDebit, Abstract!Init, Abstract!NotAsked
<1>2. IInv /\ [Next]_creditVars => [Abstract!Next]_(Abstract!vars)
  <2> SUFFICES ASSUME IInv, [Next]_creditVars
               PROVE  Abstract!Next \/ (balance' = balance /\ SeenDebits' = SeenDebits)
    BY DEF Abstract!vars
  <2>1. call \in [Debits -> Call] /\ VerdictOfPc /\ balance \in [Users -> Int]
    BY DEF IInv, TypeOK, StoreTypeOK
  <2>2. ASSUME NEW d \in Debits, NEW c, call' = [call EXCEPT ![d] = c]
        PROVE  SeenDebits' = [SeenDebits EXCEPT ![d] = SeenDebit(c)]
    BY <2>1, <2>2 DEF SeenDebits
  <2>3. ASSUME NEW d \in Debits, NEW pc, pc # "idle", call[d].pc # "idle", Goto(d, pc)
        PROVE  SeenDebits' = SeenDebits
    <3>1. call' = [call EXCEPT ![d] = [call[d] EXCEPT !.pc = pc]]
      BY <2>1, <2>3 DEF Goto
    <3>2. SeenDebit([call[d] EXCEPT !.pc = pc]) = SeenDebit(call[d])
      BY <2>1, <2>3 DEF SeenDebit, Call
    <3>3. SeenDebits' = [SeenDebits EXCEPT ![d] = SeenDebit(call[d])]
      BY <2>2, <3>1, <3>2
    <3> QED
      BY <3>3 DEF SeenDebits
  <2>4. ASSUME NEW d \in Debits, NEW pc, NEW v, pc # "idle", Decide(d, pc, v)
        PROVE  SeenDebits' = [SeenDebits EXCEPT ![d] =
                                Abstract!Asked(call[d].user, call[d].amount, v)]
    <3>1. call' = [call EXCEPT ![d] = [call[d] EXCEPT !.pc = pc, !.verdict = v]]
      BY <2>1, <2>4 DEF Decide
    <3>2. SeenDebit([call[d] EXCEPT !.pc = pc, !.verdict = v])
            = Abstract!Asked(call[d].user, call[d].amount, v)
      BY <2>1, <2>4 DEF SeenDebit, Call, Abstract!Asked
    <3> QED
      BY <2>2, <3>1, <3>2
  <2>5. ASSUME NEW d \in Debits, call[d].pc \in {"reading", "batch"}
        PROVE  SeenDebits[d] = Abstract!Asked(call[d].user, call[d].amount, "open")
    BY <2>1, <2>5 DEF SeenDebits, SeenDebit, VerdictOfPc, Abstract!Asked
  <2>6. ASSUME NEW d \in Debits, DebitStep(d)
        PROVE  Abstract!Next \/ (balance' = balance /\ SeenDebits' = SeenDebits)
    <3> DEFINE u == call[d].user
               n == call[d].amount
    <3>1. u \in Users /\ n \in Amounts
      BY <2>1 DEF Call
    <3> SUFFICES \/ Abstract!Ask(d, u, n) \/ Abstract!Take(d, u, n) \/ Abstract!Refuse(d, u, n)
                 \/ balance' = balance /\ SeenDebits' = SeenDebits
      <4> HIDE DEF u, n
      <4> QED
        BY <3>1 DEF Abstract!Next
    <3>2. CASE Ask(d)
      <4>1. /\ call' = [call EXCEPT ![d] = [call[d] EXCEPT !.pc = "reading"]]
            /\ balance' = balance /\ call[d].pc = "idle"
        BY <2>1, <3>2 DEF Ask, Goto
      <4>2. SeenDebit([call[d] EXCEPT !.pc = "reading"]) = Abstract!Asked(u, n, "open")
        BY <2>1, <4>1 DEF SeenDebit, Call, VerdictOfPc, Abstract!Asked
      <4>3. SeenDebits[d] = Abstract!NotAsked
        BY <4>1 DEF SeenDebits, SeenDebit, Abstract!NotAsked
      <4>4. SeenDebits' = [SeenDebits EXCEPT ![d] = Abstract!Asked(u, n, "open")]
        BY <2>2, <4>1, <4>2
      <4> QED
        BY <4>1, <4>3, <4>4 DEF Abstract!Ask
    <3>3. CASE PreRead(d)
      <4>1. CASE balance[u] < n
        BY <2>4, <2>5, <3>3, <4>1 DEF PreRead, Abstract!Refuse
      <4>2. CASE ~(balance[u] < n)
        BY <2>3, <3>3, <4>2 DEF PreRead
      <4> QED
        BY <4>1, <4>2
    <3>4. CASE Batch(d) \/ BatchAnswerLost(d)
      <4>1. /\ call[d].pc = "batch" /\ Commit(d)
            /\ \E pc \in {"confirm", "undo", "threw"} : Decide(d, pc, BatchVerdict(d))
        BY <3>4 DEF Batch, BatchAnswerLost
      <4>2. /\ SeenDebits' = [SeenDebits EXCEPT ![d] = Abstract!Asked(u, n, BatchVerdict(d))]
            /\ SeenDebits[d] = Abstract!Asked(u, n, "open")
        BY <2>4, <2>5, <4>1
      <4>3. CASE balance[u] >= n
        <5>1. balance' = [balance EXCEPT ![u] = balance[u] - n] /\ BatchVerdict(d) = "taken"
          BY <4>1, <4>3 DEF Commit, DebitBatch, DebitApplies, BatchVerdict
        <5> QED
          BY <4>2, <4>3, <5>1 DEF Abstract!Take
      <4>4. CASE ~(balance[u] >= n)
        <5>1. balance' = balance /\ BatchVerdict(d) = "refused" /\ balance[u] < n
          <6>1. balance' = [balance EXCEPT ![u] = balance[u]] /\ BatchVerdict(d) = "refused"
            BY <4>1, <4>4 DEF Commit, DebitBatch, DebitApplies, BatchVerdict
          <6>2. n \in Nat \ {0}
            BY <3>1
          <6>3. balance[u] \in Int
            BY <2>1, <3>1
          <6>4. balance[u] < n
            BY <4>4, <6>2, <6>3
          <6> QED
            BY <2>1, <6>1, <6>4
        <5> QED
          BY <4>2, <5>1 DEF Abstract!Refuse
      <4> QED
        BY <4>3, <4>4
    <3>5. CASE \/ Undo(d) \/ Reread(d) \/ Confirm(d)
               \/ StatementThrows(d) \/ UndoFails(d) \/ Die(d)
      <4>1. balance' = balance /\ \E pc : pc # "idle" /\ Goto(d, pc)
        BY <3>5 DEF Undo, DeleteRow, Reread, Confirm, StatementThrows, UndoFails, Die
      <4>2. call[d].pc # "idle"
        BY <3>5 DEF Undo, Reread, Confirm, StatementThrows, UndoFails, Die, Active
      <4> QED
        BY <2>3, <4>1, <4>2
    <3> QED
      BY <2>6, <3>2, <3>3, <3>4, <3>5 DEF DebitStep
  <2>7. ASSUME NEW g \in Grants, NEW u \in Users, NEW n \in Amounts, Grant(g, u, n)
        PROVE  Abstract!Next
    <3>1. Abstract!Grant(u, n)
      BY <2>7 DEF Grant, GrantBatch, SeenDebits, Abstract!Grant
    <3> QED
      BY <3>1 DEF Abstract!Next
  <2>8. CASE UNCHANGED creditVars
    BY <2>8 DEF creditVars, SeenDebits
  <2> QED
    BY <2>6, <2>7, <2>8 DEF Next
<1> QED
  BY <1>1, <1>2, InductiveInvariant, PTL DEF Spec, DebitsAreAtomic, Abstract!Spec
=============================================================================
