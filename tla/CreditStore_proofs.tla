---------------------------- MODULE CreditStore_proofs ----------------------------
(***************************************************************************)
(* Lemmas about the operations of CreditStore, for any users and rows:     *)
(* what the ledgers look like after a row is appended or deleted, and when *)
(* the books stay in order.                                                *)
(***************************************************************************)
EXTENDS CreditStore, SequenceTheorems, TLAPS

(* What RemoveAt leaves of a sequence: everything but position i.          *)
LEMMA RemoveAtIs ==
  ASSUME NEW S, NEW s \in Seq(S), NEW i \in 1 .. Len(s)
  PROVE  /\ RemoveAt(s, i) \in Seq(S)
         /\ Len(RemoveAt(s, i)) = Len(s) - 1
         /\ \A k \in 1 .. Len(s) - 1 :
              RemoveAt(s, i)[k] = IF k < i THEN s[k] ELSE s[k + 1]
<1> DEFINE a == SubSeq(s, 1, i - 1)
           b == SubSeq(s, i + 1, Len(s))
<1>1. a \in Seq(S) /\ Len(a) = i - 1 /\ \A k \in 1 .. i - 1 : a[k] = s[k]
  OBVIOUS
<1>2. b \in Seq(S) /\ Len(b) = Len(s) - i /\ \A k \in 1 .. Len(s) - i : b[k] = s[i + k]
  OBVIOUS
<1> HIDE DEF a, b
<1>3. a \o b \in Seq(S) /\ Len(a \o b) = Len(a) + Len(b)
  BY <1>1, <1>2, ConcatProperties
<1>4. Len(s) \in Nat /\ Len(a \o b) = Len(s) - 1
  BY <1>1, <1>2, <1>3
<1>5. ASSUME NEW k \in 1 .. Len(s) - 1
      PROVE  (a \o b)[k] = IF k < i THEN s[k] ELSE s[k + 1]
  BY <1>1, <1>2, ConcatProperties
<1> QED
  BY <1>3, <1>4, <1>5 DEF RemoveAt, a, b

(* What a booked row changes: it is the last row of its user's ledger.     *)
LEMMA AppendRowIs ==
  ASSUME StoreTypeOK, NEW u \in Users, NEW id \in RowIds, NEW ref \in Refs,
         NEW delta \in Int, NEW after \in Int,
         AppendRow(u, id, ref, delta, after)
  PROVE  LET row == [id |-> id, ref |-> ref, delta |-> delta, after |-> after]
         IN  /\ ledger' \in [Users -> Seq(Row)]
             /\ \A v \in Users \ {u} : ledger'[v] = ledger[v]
             /\ Len(ledger[u]) \in Nat
             /\ Len(ledger'[u]) = Len(ledger[u]) + 1
             /\ \A i \in 1 .. Len(ledger[u]) : ledger'[u][i] = ledger[u][i]
             /\ ledger'[u][Len(ledger[u]) + 1] = row
<1> DEFINE row == [id |-> id, ref |-> ref, delta |-> delta, after |-> after]
<1>1. row \in Row
  BY DEF Row
<1>2. ledger[u] \in Seq(Row) /\ ledger' = [ledger EXCEPT ![u] = Append(ledger[u], row)]
  BY DEF StoreTypeOK, AppendRow
<1> HIDE DEF row
<1>3. ledger'[u] = Append(ledger[u], row) /\ \A v \in Users \ {u} : ledger'[v] = ledger[v]
  BY <1>2 DEF StoreTypeOK
<1>4. ledger' \in [Users -> Seq(Row)]
  BY <1>1, <1>2 DEF StoreTypeOK
<1> QED
  BY <1>1, <1>2, <1>3, <1>4 DEF row

(* The rows of all users after an append: the ones there were, and one.    *)
LEMMA RowsAfterAppend ==
  ASSUME StoreTypeOK, NEW u \in Users, NEW id \in RowIds, NEW ref \in Refs,
         NEW delta \in Int, NEW after \in Int,
         AppendRow(u, id, ref, delta, after)
  PROVE  LET row == [id |-> id, ref |-> ref, delta |-> delta, after |-> after]
             last == Len(ledger[u]) + 1
         IN  /\ last \in DOMAIN ledger'[u] /\ ledger'[u][last] = row
             /\ \A v \in Users : \A i \in DOMAIN ledger'[v] :
                  \/ v = u /\ i = last
                  \/ i \in DOMAIN ledger[v] /\ ledger'[v][i] = ledger[v][i]
             /\ \A v \in Users : \A i \in DOMAIN ledger[v] :
                  /\ i \in DOMAIN ledger'[v] /\ ledger'[v][i] = ledger[v][i]
                  /\ ~(v = u /\ i = last)
<1> DEFINE L == Len(ledger[u])
           row == [id |-> id, ref |-> ref, delta |-> delta, after |-> after]
<1>1. /\ ledger' \in [Users -> Seq(Row)]
      /\ \A v \in Users \ {u} : ledger'[v] = ledger[v]
      /\ L \in Nat /\ Len(ledger'[u]) = L + 1
      /\ \A i \in 1 .. L : ledger'[u][i] = ledger[u][i]
      /\ ledger'[u][L + 1] = row
  BY AppendRowIs
<1>2. DOMAIN ledger[u] = 1 .. L /\ DOMAIN ledger'[u] = 1 .. L + 1
  BY <1>1 DEF StoreTypeOK
<1> HIDE DEF row, L
<1>3. \A i \in 1 .. L + 1 : i = L + 1 \/ i \in 1 .. L
  BY <1>1
<1>4. L + 1 \in 1 .. L + 1 /\ \A i \in 1 .. L : i \in 1 .. L + 1 /\ i # L + 1
  BY <1>1
<1> QED
  BY <1>1, <1>2, <1>3, <1>4 DEF row, L

-----------------------------------------------------------------------------
(* The books                                                               *)

\* BooksInOrder of the rows and the balance of one user, and of given tables.
InOrder(rows, bal, Void) ==
  /\ \A i \in DOMAIN rows :
       rows[i].after = (IF i - 1 = 0 THEN 0 ELSE rows[i - 1].after)
                         + (IF rows[i].id \in Void THEN 0 ELSE rows[i].delta)
  /\ bal = IF Len(rows) = 0 THEN 0 ELSE rows[Len(rows)].after

Books(bal, rows, Void) == \A u \in Users : InOrder(rows[u], bal[u], Void)

(* The two ways of writing that the books are in order agree.              *)
LEMMA BooksAre ==
  ASSUME NEW Void PROVE BooksInOrder(Void) <=> Books(balance, ledger, Void)
  BY DEF BooksInOrder, AfterRow, Books, InOrder

\* Void and Void2 mean the same for the rows there are.
SameVoid(Void, Void2) ==
  \A u \in Users : \A i \in DOMAIN ledger[u] :
    ledger[u][i].id \in Void2 <=> ledger[u][i].id \in Void

(* The books stay in order when a row is appended whose balance_after is    *)
(* the new balance and follows from the old one.                           *)
LEMMA BooksAfterAppend ==
  ASSUME StoreTypeOK, NEW Void, NEW Void2,
         Books(balance, ledger, Void), SameVoid(Void, Void2),
         NEW u \in Users, NEW id \in RowIds, NEW ref \in Refs,
         NEW delta \in Int, NEW after \in Int,
         AppendRow(u, id, ref, delta, after),
         balance' = [balance EXCEPT ![u] = after],
         after = balance[u] + (IF id \in Void2 THEN 0 ELSE delta)
  PROVE  Books(balance', ledger', Void2)
<1> DEFINE L == Len(ledger[u])
           row == [id |-> id, ref |-> ref, delta |-> delta, after |-> after]
<1>1. /\ ledger' \in [Users -> Seq(Row)]
      /\ \A v \in Users \ {u} : ledger'[v] = ledger[v]
      /\ L \in Nat /\ Len(ledger'[u]) = L + 1
      /\ \A i \in 1 .. L : ledger'[u][i] = ledger[u][i]
      /\ ledger'[u][L + 1] = row
  BY AppendRowIs
<1>2. \A v \in Users : balance'[v] = IF v = u THEN after ELSE balance[v]
  BY DEF StoreTypeOK
<1>3. ASSUME NEW v \in Users \ {u}
      PROVE  InOrder(ledger'[v], balance'[v], Void2)
  BY <1>1, <1>2 DEF Books, InOrder, SameVoid
<1>4. DOMAIN ledger[u] = 1 .. L /\ DOMAIN ledger'[u] = 1 .. L + 1
  BY <1>1 DEF StoreTypeOK
<1> HIDE DEF L
<1>5. ASSUME NEW i \in 1 .. L
      PROVE  ledger'[u][i].after =
               (IF i - 1 = 0 THEN 0 ELSE ledger'[u][i - 1].after)
                 + (IF ledger'[u][i].id \in Void2 THEN 0 ELSE ledger'[u][i].delta)
  <2>1. ledger'[u][i] = ledger[u][i] /\ (i - 1 # 0 => ledger'[u][i - 1] = ledger[u][i - 1])
    BY <1>1
  <2>2. i \in DOMAIN ledger[u] /\ (ledger[u][i].id \in Void2 <=> ledger[u][i].id \in Void)
    BY <1>4 DEF SameVoid
  <2>3. ledger[u][i].after =
          (IF i - 1 = 0 THEN 0 ELSE ledger[u][i - 1].after)
            + (IF ledger[u][i].id \in Void THEN 0 ELSE ledger[u][i].delta)
    BY <2>2 DEF Books, InOrder
  <2> QED
    BY <2>1, <2>2, <2>3
<1>6. balance[u] = IF L = 0 THEN 0 ELSE ledger[u][L].after
  BY DEF Books, InOrder, L
<1>7. ledger'[u][L + 1].after =
        (IF L + 1 - 1 = 0 THEN 0 ELSE ledger'[u][L + 1 - 1].after)
          + (IF ledger'[u][L + 1].id \in Void2 THEN 0 ELSE ledger'[u][L + 1].delta)
  <2>1. L # 0 => ledger'[u][L] = ledger[u][L]
    BY <1>1
  <2> QED
    BY <1>1, <1>6, <2>1
<1>8. balance'[u] = ledger'[u][Len(ledger'[u])].after /\ Len(ledger'[u]) # 0
  BY <1>1, <1>2
<1> QED
  BY <1>1, <1>3, <1>4, <1>5, <1>7, <1>8 DEF Books, InOrder

(* ... and when a row that moved nothing is deleted.                       *)
LEMMA OrderAfterRemove ==
  ASSUME NEW s \in Seq(Row), NEW t \in Seq(Row), NEW p \in 1 .. Len(s),
         Len(t) = Len(s) - 1,
         \A k \in 1 .. p - 1 : t[k] = s[k],
         \A k \in p .. Len(s) - 1 : t[k] = s[k + 1],
         NEW bal, NEW Void, s[p].id \in Void, InOrder(s, bal, Void)
  PROVE  InOrder(t, bal, Void)
<1> DEFINE Before(rows, i) == IF i - 1 = 0 THEN 0 ELSE rows[i - 1].after
           Moved(row) == IF row.id \in Void THEN 0 ELSE row.delta
<1>1. /\ Len(s) \in Nat /\ DOMAIN s = 1 .. Len(s) /\ DOMAIN t = 1 .. Len(s) - 1
      /\ \A k \in 1 .. Len(s) : s[k].after \in Int /\ s[k].delta \in Int
  <2>1. \A k \in 1 .. Len(s) : s[k] \in Row
    OBVIOUS
  <2>2. Len(s) \in Nat /\ DOMAIN s = 1 .. Len(s) /\ DOMAIN t = 1 .. Len(t)
    OBVIOUS
  <2> QED
    BY <2>1, <2>2 DEF Row
<1>2. \A k \in 1 .. Len(s) : s[k].after = Before(s, k) + Moved(s[k])
  BY <1>1 DEF InOrder
<1>3. s[p].after = Before(s, p)
  <2>1. Before(s, p) \in Int /\ Moved(s[p]) = 0
    BY <1>1
  <2>2. s[p].after = Before(s, p) + Moved(s[p])
    BY <1>2
  <2> HIDE DEF Before, Moved
  <2> QED
    BY <2>1, <2>2
<1>4. ASSUME NEW i \in 1 .. Len(s) - 1
      PROVE  t[i].after = Before(t, i) + Moved(t[i])
  <2>1. CASE i < p
    <3>1. i \in 1 .. Len(s) /\ t[i] = s[i] /\ (i - 1 # 0 => t[i - 1] = s[i - 1])
      BY <1>1, <2>1
    <3> QED
      BY <1>2, <3>1
  <2>2. CASE i >= p
    <3>1. i \in p .. Len(s) - 1 /\ i + 1 \in 1 .. Len(s) /\ (i + 1) - 1 = i /\ i # 0
      BY <1>1, <2>2
    <3>2. t[i] = s[i + 1] /\ s[i + 1].after = s[i].after + Moved(s[i + 1])
      BY <1>2, <3>1
    <3>3. s[i].after = Before(t, i)
      <4>1. CASE i = p
        <5>1. i - 1 # 0 => i - 1 \in 1 .. p - 1
          BY <1>1, <4>1
        <5> QED
          BY <1>3, <4>1, <5>1
      <4>2. CASE i > p
        <5>1. i - 1 \in p .. Len(s) - 1 /\ i - 1 # 0 /\ (i - 1) + 1 = i
          BY <1>1, <3>1, <4>2
        <5> QED
          BY <5>1
      <4> QED
        BY <1>1, <2>2, <4>1, <4>2
    <3> QED
      BY <3>2, <3>3
  <2> QED
    BY <1>1, <2>1, <2>2
<1>5. bal = IF Len(t) = 0 THEN 0 ELSE t[Len(t)].after
  <2>1. Len(s) # 0 /\ bal = s[Len(s)].after
    BY <1>1 DEF InOrder
  <2>2. CASE p = Len(s)
    <3>1. Len(t) = p - 1 /\ (p - 1 # 0 => p - 1 \in 1 .. p - 1)
      BY <1>1, <2>2
    <3> QED
      BY <1>3, <2>1, <2>2, <3>1
  <2>3. CASE p < Len(s)
    <3>1. Len(s) - 1 \in p .. Len(s) - 1 /\ Len(s) - 1 # 0 /\ (Len(s) - 1) + 1 = Len(s)
      BY <1>1, <2>3
    <3> QED
      BY <2>1, <3>1
  <2> QED
    BY <1>1, <2>2, <2>3
<1> QED
  BY <1>1, <1>4, <1>5 DEF InOrder
=============================================================================
