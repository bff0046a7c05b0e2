------------------------- MODULE CreditEconomy_proofs -------------------------
(***************************************************************************)
(* Proofs about CreditEconomy, for any set of users, orders, requests,     *)
(* debits, packs and amounts.                                              *)
(***************************************************************************)
EXTENDS CreditEconomy, FiniteSetTheorems, TLAPS

USE EconomyAssumption

-----------------------------------------------------------------------------
(* The invariant: the types that the two components share, where a debit   *)
(* is before D1 has decided it, and the account of every credit.           *)

Places == {"idle", "reading", "batch", "undo", "reread", "confirm", "dead",
           "ok", "insufficient", "threw"}
Debit == [pc : Places, user : Users, amount : Amounts,
          verdict : {"open", "taken", "refused"}]
PaymentOrder == [status : {"none", "created", "settled"}, user : Users, credits : Packs,
                 ref : BOOLEAN]

EconomyTypes ==
  /\ balance \in [Users -> Int]
  /\ debitCall \in [Debits -> Debit]
  /\ order \in [Orders -> PaymentOrder]
  /\ request \in [Calls -> Sales!Call]
  \* An order that can yet be created is not settled.
  /\ checkout \in [Orders -> {"idle", "posting", "saving", "answered", "failed"}]
  /\ \A o \in Orders : checkout[o] = "idle" => order[o].status = "none"

\* D1 decides a debit at the pre-read or in the batch, and not before.
Undecided == \A d \in Debits :
  debitCall[d].pc \in {"idle", "reading", "batch"} => debitCall[d].verdict = "open"

\* Each credit of a user is one that she bought and that no debit has taken.
InBooks(u) ==
  /\ IsFiniteSet(Bought(u)) /\ IsFiniteSet(Burned(u))
  /\ balance[u] = Cardinality(Bought(u)) - Cardinality(Burned(u))
  /\ balance[u] >= 0

EconomyInvariant ==
  /\ EconomyTypes /\ Undecided
  /\ \A u \in Users : InBooks(u)

(* The credits of one order or debit more.                                 *)
LEMMA CreditsOfOneMore ==
  ASSUME NEW S, IsFiniteSet(S), NEW x, NEW n \in Nat, \A i \in 1 .. n : <<x, i>> \notin S
  PROVE  /\ IsFiniteSet(S \cup ({x} \X (1 .. n)))
         /\ Cardinality(S \cup ({x} \X (1 .. n))) = Cardinality(S) + n
         /\ Cardinality(S) \in Nat
<1> DEFINE T == {x} \X (1 .. n)
<1>1. IsFiniteSet(1 .. n) /\ Cardinality(1 .. n) = n
  <2>1. /\ IsFiniteSet(1 .. n)
        /\ Cardinality(1 .. n) = IF 1 > n THEN 0 ELSE n - 1 + 1
    BY FS_Interval
  <2> QED
    BY <2>1
<1>2. IsFiniteSet({x}) /\ Cardinality({x}) = 1
  BY FS_Singleton
<1>3. IsFiniteSet(T) /\ Cardinality(T) = n
  <2>1. IsFiniteSet(T) /\ Cardinality(T) = Cardinality({x}) * Cardinality(1 .. n)
    BY <1>1, <1>2, FS_Product
  <2>2. 1 * n = n
    OBVIOUS
  <2> QED
    BY <1>1, <1>2, <2>1, <2>2
<1>4. S \cap T = {}
  OBVIOUS
<1> HIDE DEF T
<1>5. Cardinality({}) = 0
  BY FS_EmptySet
<1>6. Cardinality(S) \in Nat
  BY FS_CardinalityType
<1>7. /\ IsFiniteSet(S \cup T)
      /\ Cardinality(S \cup T) = Cardinality(S) + Cardinality(T) - Cardinality(S \cap T)
  BY <1>3, FS_Union
<1>8. Cardinality(S \cup T) = Cardinality(S) + n
  <2>1. \A k, m \in Nat : k + m - 0 = k + m
    OBVIOUS
  <2> QED
    BY ZenonT(30), <1>3, <1>4, <1>5, <1>6, <1>7, <2>1
<1> QED
  BY <1>6, <1>7, <1>8 DEF T

-----------------------------------------------------------------------------
(* What a step of one component leaves of the other's.                     *)

LEMMA InitHolds == Init => EconomyInvariant
<1> SUFFICES ASSUME Init PROVE EconomyInvariant
  OBVIOUS
<1>1. /\ balance = [u \in Users |-> 0]
      /\ debitCall \in [Debits -> [pc : {"idle"}, user : Users, amount : Amounts,
                                   verdict : {"open"}]]
      /\ order \in [Orders -> [status : {"none"}, user : Users, credits : Packs,
                               ref : {FALSE}]]
      /\ request \in [Calls -> [via : {"webhook", "reconcile"}, order : Orders,
                                pc : {"idle"}, echo : {"absent"}]]
      /\ checkout = [o \in Orders |-> "idle"]
  BY DEF Init, Burns!Init, Sales!Init, Burns!StoreInit, Sales!StoreInit
<1>2. EconomyTypes
  <2>1. debitCall \in [Debits -> Debit]
    <3>1. \A k : k \in [pc : {"idle"}, user : Users, amount : Amounts, verdict : {"open"}]
                 => k \in Debit
      <4>1. {"idle"} \subseteq Places /\ {"open"} \subseteq {"open", "taken", "refused"}
        BY DEF Places
      <4> QED
        BY <4>1 DEF Debit
    <3> QED
      BY <1>1, <3>1
  <2>2. order \in [Orders -> PaymentOrder]
    BY <1>1 DEF PaymentOrder
  <2>3. request \in [Calls -> Sales!Call]
    <3>1. \A k : k \in [via : {"webhook", "reconcile"}, order : Orders,
                        pc : {"idle"}, echo : {"absent"}]
                 => k \in Sales!Call
      BY DEF Sales!Call
    <3> QED
      BY <1>1, <3>1
  <2> QED
    <3>1. \A o \in Orders : order[o].status = "none"
      BY <1>1
    <3> QED
      BY <1>1, <2>1, <2>2, <2>3, <3>1 DEF EconomyTypes
<1>3. Undecided
  BY <1>1 DEF Undecided
<1>4. ASSUME NEW u \in Users PROVE InBooks(u)
  <2>1. \A o \in Orders : order[o].status # "settled"
    BY <1>1
  <2>2. \A d \in Debits : debitCall[d].verdict # "taken"
    BY <1>1
  <2>3. Bought(u) = {}
    BY <2>1 DEF Bought
  <2>4. Burned(u) = {}
    BY <2>2 DEF Burned
  <2> QED
    BY <1>1, <2>3, <2>4, FS_EmptySet DEF InBooks
<1> QED
  BY <1>2, <1>3, <1>4 DEF EconomyInvariant

(* A debit that moves on without a decision changes no account.            *)
LEMMA DebitMoves ==
  ASSUME EconomyInvariant, NEW d \in Debits, NEW pc \in Places,
         NEW v \in {"open", "taken", "refused"},
         debitCall' = [debitCall EXCEPT ![d] = [debitCall[d] EXCEPT !.pc = pc, !.verdict = v]],
         v = debitCall[d].verdict \/ (debitCall[d].verdict = "open" /\ v = "refused"),
         pc \in {"idle", "reading", "batch"} => v = "open",
         balance' = balance, order' = order, request' = request, checkout' = checkout
  PROVE  EconomyInvariant'
<1> DEFINE k == [debitCall[d] EXCEPT !.pc = pc, !.verdict = v]
<1>1. /\ EconomyTypes /\ Undecided /\ debitCall \in [Debits -> Debit]
      /\ \A u \in Users : InBooks(u)
  BY DEF EconomyInvariant, EconomyTypes
<1>2. k \in Debit /\ k.pc = pc /\ k.verdict = v /\ k.user = debitCall[d].user
        /\ k.amount = debitCall[d].amount
  BY <1>1 DEF Debit
<1>3. debitCall' = [debitCall EXCEPT ![d] = k]
  OBVIOUS
<1> HIDE DEF k
<1>4. debitCall' \in [Debits -> Debit]
  BY <1>1, <1>2, <1>3
<1>5. \A c \in Debits : debitCall'[c] = IF c = d THEN k ELSE debitCall[c]
  BY <1>1, <1>3
<1>6. EconomyTypes' /\ Undecided'
  BY <1>1, <1>2, <1>4, <1>5 DEF EconomyTypes, Undecided
<1>7. v = "taken" <=> debitCall[d].verdict = "taken"
  OBVIOUS
<1>8. ASSUME NEW u \in Users PROVE InBooks(u)'
  <2>1. \A c \in Debits : /\ debitCall'[c].verdict = "taken" <=> debitCall[c].verdict = "taken"
                          /\ debitCall'[c].user = debitCall[c].user
                          /\ debitCall'[c].amount = debitCall[c].amount
    BY <1>2, <1>5, <1>7
  <2>2. Burned(u)' = Burned(u)
    BY <2>1 DEF Burned
  <2>3. Bought(u)' = Bought(u)
    BY DEF Bought
  <2> QED
    BY <1>1, <2>2, <2>3 DEF InBooks
<1> QED
  BY <1>6, <1>8 DEF EconomyInvariant

(* A debit that is taken, is taken out of the balance that covers it.      *)
LEMMA DebitTaken ==
  ASSUME EconomyInvariant, NEW d \in Debits, NEW pc \in Places,
         pc \notin {"idle", "reading", "batch"},
         debitCall[d].verdict = "open",
         balance[debitCall[d].user] >= debitCall[d].amount,
         debitCall' = [debitCall EXCEPT ![d] = [debitCall[d] EXCEPT !.pc = pc, !.verdict = "taken"]],
         balance' = [balance EXCEPT ![debitCall[d].user] =
                       balance[debitCall[d].user] - debitCall[d].amount],
         order' = order, request' = request, checkout' = checkout
  PROVE  EconomyInvariant'
<1> DEFINE k == [debitCall[d] EXCEPT !.pc = pc, !.verdict = "taken"]
           w == debitCall[d].user
           n == debitCall[d].amount
<1>1. /\ EconomyTypes /\ Undecided /\ debitCall \in [Debits -> Debit]
      /\ balance \in [Users -> Int] /\ \A u \in Users : InBooks(u)
  BY DEF EconomyInvariant, EconomyTypes
<1>2. k \in Debit /\ k.pc = pc /\ k.verdict = "taken" /\ k.user = w /\ k.amount = n
  BY <1>1 DEF Debit
<1>3. w \in Users /\ n \in Nat \ {0}
  BY <1>1 DEF Debit
<1>4. /\ debitCall' = [debitCall EXCEPT ![d] = k]
      /\ balance' = [balance EXCEPT ![w] = balance[w] - n] /\ balance[w] >= n
  OBVIOUS
<1>5. w = debitCall[d].user /\ n = debitCall[d].amount
  OBVIOUS
<1> HIDE DEF k, w, n
<1>6. debitCall' \in [Debits -> Debit]
  BY <1>1, <1>2, <1>4
<1>7. \A c \in Debits : debitCall'[c] = IF c = d THEN k ELSE debitCall[c]
  BY <1>1, <1>4
<1>8. balance' \in [Users -> Int]
  BY <1>1, <1>3, <1>4
<1>9. EconomyTypes' /\ Undecided'
  BY <1>1, <1>2, <1>6, <1>7, <1>8 DEF EconomyTypes, Undecided
<1>10. ASSUME NEW u \in Users PROVE InBooks(u)'
  <2>1. InBooks(u)
    BY <1>1
  <2>2. Bought(u)' = Bought(u)
    BY DEF Bought
  <2>3. CASE u # w
    <3>1. \A c \in Debits :
            (debitCall'[c].verdict = "taken" /\ debitCall'[c].user = u)
              <=> (debitCall[c].verdict = "taken" /\ debitCall[c].user = u)
      BY <1>2, <1>5, <1>7, <2>3
    <3>2. \A c \in Debits : debitCall'[c].amount = debitCall[c].amount
      BY <1>2, <1>5, <1>7
    <3>3. Burned(u)' = Burned(u)
      BY <3>1, <3>2 DEF Burned
    <3>4. balance'[u] = balance[u]
      BY <1>1, <1>4, <2>3
    <3> QED
      BY <2>1, <2>2, <3>3, <3>4 DEF InBooks
  <2>4. CASE u = w
    <3>1. \A c \in Debits :
            (debitCall'[c].verdict = "taken" /\ debitCall'[c].user = u)
              <=> (c = d \/ (debitCall[c].verdict = "taken" /\ debitCall[c].user = u))
      BY <1>2, <1>7, <2>4
    <3>2. \A c \in Debits : debitCall'[c].amount = debitCall[c].amount
      BY <1>2, <1>5, <1>7
    <3>3. Burned(u)' = Burned(u) \cup ({d} \X (1 .. n))
      BY <1>5, <3>1, <3>2 DEF Burned
    <3>4. \A i \in 1 .. n : <<d, i>> \notin Burned(u)
      BY DEF Burned
    <3>5. IsFiniteSet(Burned(u)) /\ IsFiniteSet(Bought(u))
      BY <2>1 DEF InBooks
    <3>6. /\ IsFiniteSet(Burned(u)')
          /\ Cardinality(Burned(u)') = Cardinality(Burned(u)) + n
          /\ Cardinality(Burned(u)) \in Nat
      <4>1. n \in Nat
        BY <1>3
      <4> DEFINE B == Burned(u)
      <4>2. IsFiniteSet(B) /\ \A i \in 1 .. n : <<d, i>> \notin B
        BY <3>4, <3>5
      <4>3. Burned(u)' = B \cup ({d} \X (1 .. n))
        BY <3>3
      <4> HIDE DEF B
      <4>4. /\ IsFiniteSet(B \cup ({d} \X (1 .. n)))
            /\ Cardinality(B \cup ({d} \X (1 .. n))) = Cardinality(B) + n
            /\ Cardinality(B) \in Nat
        BY <4>1, <4>2, CreditsOfOneMore
      <4> QED
        BY <4>3, <4>4 DEF B
    <3>7. Cardinality(Bought(u)) \in Nat
      BY <3>5, FS_CardinalityType
    <3>8. balance'[u] = balance[u] - n /\ balance[u] \in Int
      BY <1>1, <1>4, <2>4
    <3>9. balance[u] = Cardinality(Bought(u)) - Cardinality(Burned(u)) /\ balance[u] >= n
      BY <1>4, <2>1, <2>4 DEF InBooks
    <3>10. /\ balance'[u] = Cardinality(Bought(u)) - Cardinality(Burned(u)')
           /\ balance'[u] >= 0
      BY <1>3, <3>6, <3>7, <3>8, <3>9
    <3> QED
      BY <2>2, <3>5, <3>6, <3>10 DEF InBooks
  <2> QED
    BY <2>3, <2>4
<1> QED
  BY <1>9, <1>10 DEF EconomyInvariant
(* No credit is bought by a step of Payments that settles nothing.         *)
LEMMA NothingSettled ==
  ASSUME EconomyInvariant, EconomyTypes', balance' = balance, debitCall' = debitCall,
         \A o \in Orders : /\ order'[o].status = "settled" <=> order[o].status = "settled"
                           /\ order'[o].user = order[o].user
                           /\ order'[o].credits = order[o].credits
  PROVE  EconomyInvariant'
<1>1. Undecided'
  BY DEF EconomyInvariant, Undecided
<1>2. ASSUME NEW u \in Users PROVE InBooks(u)'
  <2>1. Burned(u)' = Burned(u)
    BY DEF Burned
  <2>2. Bought(u)' = Bought(u)
    BY DEF Bought
  <2> QED
    BY <2>1, <2>2 DEF EconomyInvariant, InBooks
<1> QED
  BY <1>1, <1>2 DEF EconomyInvariant

(* A step that answers a request, or starts one.                           *)
LEMMA RequestMoves ==
  ASSUME EconomyInvariant, NEW t \in Calls, NEW pc \in {"idle"} \cup Sales!Working \cup Sales!Answers,
         NEW echo \in {"exact", "wrong", "absent"},
         request' = [request EXCEPT ![t] = [request[t] EXCEPT !.pc = pc, !.echo = echo]],
         balance' = balance, debitCall' = debitCall, order' = order, checkout' = checkout
  PROVE  EconomyInvariant'
<1>1. EconomyTypes /\ request \in [Calls -> Sales!Call]
  BY DEF EconomyInvariant, EconomyTypes
<1>2. [request[t] EXCEPT !.pc = pc, !.echo = echo] \in Sales!Call
  BY <1>1 DEF Sales!Call
<1>3. request' \in [Calls -> Sales!Call]
  BY <1>1, <1>2
<1>4. EconomyTypes'
  BY <1>1, <1>3 DEF EconomyTypes
<1> QED
  BY <1>4, NothingSettled

(* A settled order's credits are granted with it.                          *)
LEMMA OrderSettled ==
  ASSUME EconomyInvariant, NEW o \in Orders, order[o].status = "created",
         order' = [order EXCEPT ![o] = [order[o] EXCEPT !.status = "settled"]],
         balance' = [balance EXCEPT ![order[o].user] = balance[order[o].user] + order[o].credits],
         debitCall' = debitCall, checkout' = checkout, request' \in [Calls -> Sales!Call]
  PROVE  EconomyInvariant'
<1> DEFINE k == [order[o] EXCEPT !.status = "settled"]
           w == order[o].user
           n == order[o].credits
<1>1. /\ EconomyTypes /\ Undecided /\ order \in [Orders -> PaymentOrder]
      /\ balance \in [Users -> Int] /\ \A u \in Users : InBooks(u)
  BY DEF EconomyInvariant, EconomyTypes
<1>2. k \in PaymentOrder /\ k.status = "settled" /\ k.user = w /\ k.credits = n
  BY <1>1 DEF PaymentOrder
<1>3. w \in Users /\ n \in Nat
  BY <1>1 DEF PaymentOrder
<1>4. /\ order' = [order EXCEPT ![o] = k]
      /\ balance' = [balance EXCEPT ![w] = balance[w] + n]
  OBVIOUS
<1>5. w = order[o].user /\ n = order[o].credits
  OBVIOUS
<1> HIDE DEF k, w, n
<1>6. order' \in [Orders -> PaymentOrder] /\ balance' \in [Users -> Int]
  <2>1. order' \in [Orders -> PaymentOrder]
    BY <1>1, <1>2, <1>4
  <2>2. balance[w] + n \in Int
    BY <1>1, <1>3
  <2>3. \A f \in [Users -> Int], v \in Int : [f EXCEPT ![w] = v] \in [Users -> Int]
    OBVIOUS
  <2>4. balance' \in [Users -> Int]
    BY ZenonT(30), <1>1, <1>4, <2>2, <2>3
  <2> QED
    BY <2>1, <2>4
<1>7. \A p \in Orders : order'[p] = IF p = o THEN k ELSE order[p]
  BY <1>1, <1>4
<1>8. EconomyTypes'
  <2>1. checkout[o] # "idle"
    BY <1>1 DEF EconomyTypes
  <2> QED
    BY <1>1, <1>2, <1>6, <1>7, <2>1 DEF EconomyTypes
<1>9. Undecided'
  BY <1>1 DEF Undecided
<1>10. \A p \in Orders : order'[p].credits = order[p].credits
  BY <1>2, <1>5, <1>7
<1>11. ASSUME NEW u \in Users PROVE InBooks(u)'
  <2>1. InBooks(u)
    BY <1>1
  <2>2. Burned(u)' = Burned(u)
    BY DEF Burned
  <2>3. CASE u # w
    <3>1. \A p \in Orders :
            (order'[p].status = "settled" /\ order'[p].user = u)
              <=> (order[p].status = "settled" /\ order[p].user = u)
      BY <1>2, <1>5, <1>7, <2>3
    <3>2. Bought(u)' = Bought(u)
      BY <1>10, <3>1 DEF Bought
    <3>3. balance'[u] = balance[u]
      BY <1>1, <1>4, <2>3
    <3> QED
      BY <2>1, <2>2, <3>2, <3>3 DEF InBooks
  <2>4. CASE u = w
    <3>1. \A p \in Orders :
            (order'[p].status = "settled" /\ order'[p].user = u)
              <=> (p = o \/ (order[p].status = "settled" /\ order[p].user = u))
      BY <1>2, <1>7, <2>4
    <3>2. Bought(u)' = Bought(u) \cup ({o} \X (1 .. n))
      BY <1>5, <1>10, <3>1 DEF Bought
    <3>3. \A i \in 1 .. n : <<o, i>> \notin Bought(u)
      BY DEF Bought
    <3>4. IsFiniteSet(Burned(u)) /\ IsFiniteSet(Bought(u))
      BY <2>1 DEF InBooks
    <3>5. /\ IsFiniteSet(Bought(u)')
          /\ Cardinality(Bought(u)') = Cardinality(Bought(u)) + n
          /\ Cardinality(Bought(u)) \in Nat
      <4> DEFINE B == Bought(u)
      <4>1. IsFiniteSet(B) /\ \A i \in 1 .. n : <<o, i>> \notin B
        BY <3>3, <3>4
      <4>2. Bought(u)' = B \cup ({o} \X (1 .. n))
        BY <3>2
      <4> HIDE DEF B
      <4>3. /\ IsFiniteSet(B \cup ({o} \X (1 .. n)))
            /\ Cardinality(B \cup ({o} \X (1 .. n))) = Cardinality(B) + n
            /\ Cardinality(B) \in Nat
        BY <1>3, <4>1, CreditsOfOneMore
      <4> QED
        BY <4>2, <4>3 DEF B
    <3>6. Cardinality(Burned(u)) \in Nat
      BY <3>4, FS_CardinalityType
    <3>7. balance'[u] = balance[u] + n /\ balance[u] \in Int
      BY <1>1, <1>4, <2>4
    <3>8. balance[u] = Cardinality(Bought(u)) - Cardinality(Burned(u)) /\ balance[u] >= 0
      BY <2>1 DEF InBooks
    <3>9. /\ balance'[u] = Cardinality(Bought(u)') - Cardinality(Burned(u))
          /\ balance'[u] >= 0
      BY <1>3, <3>5, <3>6, <3>7, <3>8
    <3> QED
      BY <2>2, <3>4, <3>5, <3>9 DEF InBooks
  <2> QED
    BY <2>3, <2>4
<1> QED
  BY <1>8, <1>9, <1>11 DEF EconomyInvariant

-----------------------------------------------------------------------------
(* The steps, as the accounts and as AtomicCredits see them.               *)

\* What a step looks like through the balances and the debits.
Seen == Abstract!Next \/ (balance' = balance /\ Burns!SeenDebits' = Burns!SeenDebits)

LEMMA BurnStep ==
  ASSUME EconomyInvariant, NEW d \in Debits, Burns!DebitStep(d),
         UNCHANGED <<order, checkout, intent, request>>
  PROVE  EconomyInvariant' /\ Seen
<1> DEFINE u == debitCall[d].user
           n == debitCall[d].amount
<1>1. /\ EconomyTypes /\ Undecided /\ debitCall \in [Debits -> Debit]
      /\ balance \in [Users -> Int]
  BY DEF EconomyInvariant, EconomyTypes
<1>2. debitCall[d] \in Debit /\ u \in Users /\ n \in Amounts /\ n \in Nat /\ balance[u] \in Int
  BY <1>1 DEF Debit
<1>3. /\ debitCall[d].pc \in Places /\ debitCall[d].verdict \in {"open", "taken", "refused"}
  BY <1>2 DEF Debit
\* The abstract view of a debit that moves on.
<1>4. ASSUME NEW c, debitCall' = [debitCall EXCEPT ![d] = c]
      PROVE  Burns!SeenDebits' = [Burns!SeenDebits EXCEPT ![d] = Burns!SeenDebit(c)]
  BY <1>1, <1>4 DEF Burns!SeenDebits
<1>5. ASSUME NEW pc \in Places, pc # "idle", Burns!Goto(d, pc)
      PROVE  debitCall' = [debitCall EXCEPT ![d] =
               [debitCall[d] EXCEPT !.pc = pc, !.verdict = debitCall[d].verdict]]
  BY <1>1, <1>5 DEF Burns!Goto, Debit
<1>6. ASSUME NEW pc \in Places, pc # "idle", NEW v, Burns!Decide(d, pc, v)
      PROVE  debitCall' = [debitCall EXCEPT ![d] =
               [debitCall[d] EXCEPT !.pc = pc, !.verdict = v]]
  BY <1>1, <1>6 DEF Burns!Decide, Debit
<1>7. ASSUME NEW pc \in Places, pc # "idle", NEW v
      PROVE  Burns!SeenDebit([debitCall[d] EXCEPT !.pc = pc, !.verdict = v])
               = Abstract!Asked(u, n, v)
  BY <1>2, <1>7 DEF Burns!SeenDebit, Debit, Abstract!Asked
<1>8. /\ debitCall[d].pc = "idle" => Burns!SeenDebits[d] = Abstract!NotAsked
      /\ debitCall[d].pc # "idle" =>
           Burns!SeenDebits[d] = Abstract!Asked(u, n, debitCall[d].verdict)
  BY DEF Burns!SeenDebits, Burns!SeenDebit, Abstract!NotAsked, Abstract!Asked
<1>9. debitCall[d].pc \in {"idle", "reading", "batch"} => debitCall[d].verdict = "open"
  BY <1>1 DEF Undecided
<1>10. /\ n \in Amounts \cup Packs
       /\ Abstract!Ask(d, u, n) \/ Abstract!Take(d, u, n) \/ Abstract!Refuse(d, u, n) => Seen
  <2>1. n \in Amounts \cup Packs
    BY <1>2
  <2> HIDE DEF u, n
  <2> QED
    BY <1>2, <2>1 DEF Abstract!Next, Seen
\* A debit that goes on without a decision.
<1>11. ASSUME NEW pc \in Places, pc # "idle", Burns!Goto(d, pc), balance' = balance,
              debitCall[d].pc # "idle",
              pc \in {"reading", "batch"} => debitCall[d].verdict = "open"
       PROVE  EconomyInvariant' /\ Seen
  <2> DEFINE v == debitCall[d].verdict
  <2>1. debitCall' = [debitCall EXCEPT ![d] = [debitCall[d] EXCEPT !.pc = pc, !.verdict = v]]
    BY <1>5, <1>11
  <2>2. EconomyInvariant'
    BY <1>3, <1>11, <2>1, DebitMoves
  <2>3. Burns!SeenDebits' = [Burns!SeenDebits EXCEPT ![d] = Abstract!Asked(u, n, v)]
    BY <1>4, <1>7, <1>11, <2>1
  <2>4. Burns!SeenDebits' = Burns!SeenDebits
    BY <1>8, <1>11, <2>3 DEF Burns!SeenDebits
  <2> QED
    BY <1>11, <2>2, <2>4 DEF Seen
<1>12. CASE Burns!Ask(d)
  <2>1. /\ debitCall[d].pc = "idle" /\ balance' = balance
        /\ debitCall' = [debitCall EXCEPT ![d] =
             [debitCall[d] EXCEPT !.pc = "reading", !.verdict = "open"]]
    BY <1>3, <1>5, <1>9, <1>12 DEF Burns!Ask, Places
  <2>2. EconomyInvariant'
    BY <1>3, <1>9, <2>1, DebitMoves DEF Places
  <2>3. Burns!SeenDebits' = [Burns!SeenDebits EXCEPT ![d] = Abstract!Asked(u, n, "open")]
    BY <1>4, <1>7, <2>1 DEF Places
  <2>4. Abstract!Ask(d, u, n)
    BY <1>8, <2>1, <2>3 DEF Abstract!Ask
  <2> QED
    BY <1>10, <2>2, <2>4
<1>13. CASE Burns!PreRead(d)
  <2>1. debitCall[d].pc = "reading" /\ balance' = balance
    BY <1>13 DEF Burns!PreRead
  <2>2. CASE balance[u] < n
    <3>1. debitCall' = [debitCall EXCEPT ![d] =
            [debitCall[d] EXCEPT !.pc = "insufficient", !.verdict = "refused"]]
      BY <1>6, <1>13, <2>2 DEF Burns!PreRead, Places
    <3>2. EconomyInvariant'
      BY <1>9, <2>1, <3>1, DebitMoves DEF Places
    <3>3. Burns!SeenDebits' = [Burns!SeenDebits EXCEPT ![d] = Abstract!Asked(u, n, "refused")]
      BY ZenonT(30), <1>4, <1>7, <3>1 DEF Places
    <3>4. Abstract!Refuse(d, u, n)
      BY <1>8, <1>9, <2>1, <2>2, <3>3 DEF Abstract!Refuse
    <3> QED
      BY <1>10, <3>2, <3>4
  <2>3. CASE ~(balance[u] < n)
    BY <1>9, <1>11, <1>13, <2>1, <2>3 DEF Burns!PreRead, Places
  <2> QED
    BY <2>2, <2>3
<1>14. CASE Burns!Batch(d) \/ Burns!BatchAnswerLost(d)
  <2>1. /\ debitCall[d].pc = "batch" /\ Burns!Commit(d)
        /\ \E pc \in {"confirm", "undo", "threw"} : Burns!Decide(d, pc, Burns!BatchVerdict(d))
    BY <1>14 DEF Burns!Batch, Burns!BatchAnswerLost
  <2>2. PICK pc \in {"confirm", "undo", "threw"} : Burns!Decide(d, pc, Burns!BatchVerdict(d))
    BY <2>1
  <2>3. pc \in Places /\ pc # "idle" /\ pc \notin {"idle", "reading", "batch"}
    BY DEF Places
  <2>4. debitCall' = [debitCall EXCEPT ![d] =
          [debitCall[d] EXCEPT !.pc = pc, !.verdict = Burns!BatchVerdict(d)]]
    BY <1>6, <2>2, <2>3
  <2>5. Burns!SeenDebits' = [Burns!SeenDebits EXCEPT ![d] =
                               Abstract!Asked(u, n, Burns!BatchVerdict(d))]
    BY <1>4, <1>7, <2>3, <2>4
  <2>6. Burns!SeenDebits[d] = Abstract!Asked(u, n, "open") /\ debitCall[d].verdict = "open"
    BY <1>8, <1>9, <2>1
  <2>7. CASE balance[u] >= n
    <3>1. balance' = [balance EXCEPT ![u] = balance[u] - n] /\ Burns!BatchVerdict(d) = "taken"
      BY <2>1, <2>7 DEF Burns!Commit, Burns!DebitBatch, Burns!DebitApplies, Burns!BatchVerdict
    <3>2. EconomyInvariant'
      BY <2>3, <2>4, <2>6, <2>7, <3>1, DebitTaken
    <3>3. Abstract!Take(d, u, n)
      BY <2>5, <2>6, <2>7, <3>1 DEF Abstract!Take
    <3> QED
      BY <1>10, <3>2, <3>3
  <2>8. CASE ~(balance[u] >= n)
    <3>1. balance' = [balance EXCEPT ![u] = balance[u]] /\ Burns!BatchVerdict(d) = "refused"
      BY <2>1, <2>8 DEF Burns!Commit, Burns!DebitBatch, Burns!DebitApplies, Burns!BatchVerdict
    <3>2. balance' = balance /\ balance[u] < n
      BY <1>1, <1>2, <2>8, <3>1
    <3>3. EconomyInvariant'
      BY <2>3, <2>4, <2>6, <3>1, <3>2, DebitMoves
    <3>4. Abstract!Refuse(d, u, n)
      BY <2>5, <2>6, <3>1, <3>2 DEF Abstract!Refuse
    <3> QED
      BY <1>10, <3>3, <3>4
  <2> QED
    BY <2>7, <2>8
<1>15. CASE \/ Burns!Undo(d) \/ Burns!Reread(d) \/ Burns!Confirm(d)
            \/ Burns!StatementThrows(d) \/ Burns!UndoFails(d) \/ Burns!Die(d)
  <2>1. /\ balance' = balance
        /\ \E pc \in Places : pc \notin {"idle", "reading", "batch"} /\ Burns!Goto(d, pc)
    BY <1>15 DEF Burns!Undo, Burns!DeleteRow, Burns!Reread, Burns!Confirm,
                 Burns!StatementThrows, Burns!UndoFails, Burns!Die, Places
  <2>2. debitCall[d].pc # "idle"
    BY <1>15 DEF Burns!Undo, Burns!Reread, Burns!Confirm, Burns!StatementThrows,
                 Burns!UndoFails, Burns!Die, Burns!Active
  <2> QED
    BY <1>11, <2>1, <2>2
<1> QED
  BY <1>12, <1>13, <1>14, <1>15 DEF Burns!DebitStep

LEMMA SaleStep ==
  ASSUME EconomyInvariant, Sales!Next, UNCHANGED <<debitCall, granted>>
  PROVE  EconomyInvariant' /\ Seen
<1>1. /\ EconomyTypes /\ Undecided /\ order \in [Orders -> PaymentOrder]
      /\ request \in [Calls -> Sales!Call] /\ balance \in [Users -> Int]
      /\ checkout \in [Orders -> {"idle", "posting", "saving", "answered", "failed"}]
      /\ \A o \in Orders : checkout[o] = "idle" => order[o].status = "none"
  BY DEF EconomyInvariant, EconomyTypes
<1>2. Burns!SeenDebits' = Burns!SeenDebits
  BY DEF Burns!SeenDebits
<1>3. ASSUME NEW o \in Orders, Sales!OrderStep(o) PROVE EconomyInvariant' /\ Seen
  <2>1. balance' = balance /\ request' = request /\ debitCall' = debitCall
    BY <1>3 DEF Sales!OrderStep, Sales!CreateOrder, Sales!PostIntent, Sales!SaveRef,
                Sales!CheckoutFails, Sales!Pay, Sales!PaymentConfirms, Sales!PaymentSentBack,
                Sales!MoveIntent
  <2>2. PICK s \in {"none", "created", "settled"}, b \in BOOLEAN :
          /\ order' = [order EXCEPT ![o] = [order[o] EXCEPT !.status = s, !.ref = b]]
          /\ s = order[o].status \/ (s = "created" /\ checkout[o] = "idle")
    <3>1. order[o].status \in {"none", "created", "settled"} /\ order[o].ref \in BOOLEAN
      BY <1>1 DEF PaymentOrder
    <3>2. order = [order EXCEPT ![o] = [order[o] EXCEPT !.status = order[o].status,
                                                         !.ref = order[o].ref]]
      BY <1>1 DEF PaymentOrder
    <3>3. CASE Sales!CreateOrder(o)
      <4>1. order' = [order EXCEPT ![o] = [order[o] EXCEPT !.status = "created",
                                                            !.ref = order[o].ref]]
        BY <1>1, <3>3 DEF Sales!CreateOrder, PaymentOrder
      <4> QED
        BY <3>1, <3>3, <4>1 DEF Sales!CreateOrder
    <3>4. CASE Sales!SaveRef(o)
      <4>1. order' = [order EXCEPT ![o] = [order[o] EXCEPT !.status = order[o].status,
                                                            !.ref = TRUE]]
        BY <1>1, <3>4 DEF Sales!SaveRef, PaymentOrder
      <4> QED
        BY <3>1, <4>1
    <3>5. CASE order' = order
      BY <3>1, <3>2, <3>5
    <3>6. \/ Sales!CreateOrder(o) \/ Sales!SaveRef(o) \/ order' = order
      BY <1>3 DEF Sales!OrderStep, Sales!PostIntent, Sales!CheckoutFails, Sales!Pay,
                  Sales!PaymentConfirms, Sales!PaymentSentBack, Sales!MoveIntent
    <3> QED
      BY <3>3, <3>4, <3>5, <3>6
  <2>3. /\ checkout' \in [Orders -> {"idle", "posting", "saving", "answered", "failed"}]
        /\ \A p \in Orders : checkout'[p] = "idle" => checkout[p] = "idle"
        /\ checkout[o] = "idle" /\ order' # order => checkout'[o] # "idle"
    <3>1. CASE Sales!CreateOrder(o) \/ Sales!CheckoutFails(o)
      BY <1>1, <3>1 DEF Sales!CreateOrder, Sales!CheckoutFails
    <3>2. CASE Sales!PostIntent(o)
      <4>1. PICK pc \in {"saving", "answered", "failed"} :
              checkout' = [checkout EXCEPT ![o] = pc]
        BY <3>2 DEF Sales!PostIntent
      <4> QED
        BY <1>1, <4>1
    <3>3. CASE Sales!SaveRef(o)
      <4>1. PICK pc \in {"answered", "failed"} : checkout' = [checkout EXCEPT ![o] = pc]
        BY <3>3 DEF Sales!SaveRef
      <4> QED
        BY <1>1, <4>1
    <3>4. CASE Sales!Pay(o) \/ Sales!PaymentConfirms(o) \/ Sales!PaymentSentBack(o)
      BY <1>1, <3>4 DEF Sales!Pay, Sales!PaymentConfirms, Sales!PaymentSentBack, Sales!MoveIntent
    <3> QED
      BY <1>3, <3>1, <3>2, <3>3, <3>4 DEF Sales!OrderStep
  <2> DEFINE k == [order[o] EXCEPT !.status = s, !.ref = b]
  <2>4. /\ k \in PaymentOrder /\ k.status = s /\ k.user = order[o].user
        /\ k.credits = order[o].credits
    BY <1>1 DEF PaymentOrder
  <2>5. order' = [order EXCEPT ![o] = k]
    BY <2>2
  <2> HIDE DEF k
  <2>6. order' \in [Orders -> PaymentOrder]
    BY <1>1, <2>4, <2>5
  <2>7. \A p \in Orders : order'[p] = IF p = o THEN k ELSE order[p]
    BY <1>1, <2>5
  <2>8. s = "settled" <=> order[o].status = "settled"
    BY <1>1, <2>2
  <2>9. \A p \in Orders : checkout'[p] = "idle" => order'[p].status = "none"
    <3>1. CASE order' = order
      BY <1>1, <2>3, <3>1
    <3>2. CASE order' # order
      BY <1>1, <2>2, <2>3, <2>4, <2>7, <3>2
    <3> QED
      BY <3>1, <3>2
  <2>10. EconomyTypes'
    BY <1>1, <2>1, <2>3, <2>6, <2>9 DEF EconomyTypes
  <2>11. EconomyInvariant'
    BY <2>1, <2>4, <2>7, <2>8, <2>10, NothingSettled
  <2> QED
    BY <1>2, <2>1, <2>11 DEF Seen
<1>4. ASSUME NEW t \in Calls, Sales!CallStep(t) PROVE EconomyInvariant' /\ Seen
  <2> DEFINE Pcs == {"idle"} \cup Sales!Working \cup Sales!Answers
  <2>1. request[t] \in Sales!Call /\ request[t].order \in Orders /\ debitCall' = debitCall
    BY <1>1 DEF Sales!Call
  <2>2. request[t].echo \in {"exact", "wrong", "absent"}
    BY <2>1 DEF Sales!Call
  <2>3. ASSUME NEW pc \in Pcs, Sales!Answer(t, pc) PROVE EconomyInvariant' /\ Seen
    <3>1. request' = [request EXCEPT ![t] =
                        [request[t] EXCEPT !.pc = pc, !.echo = request[t].echo]]
      BY <1>1, <2>3 DEF Sales!Answer, Sales!Call
    <3>2. balance' = balance /\ order' = order /\ checkout' = checkout
      BY <2>3 DEF Sales!Answer
    <3>3. EconomyInvariant'
      BY <2>1, <2>2, <3>1, <3>2, RequestMoves
    <3> QED
      BY <1>2, <3>2, <3>3 DEF Seen
  <2>4. ASSUME NEW pc \in Pcs, NEW echo \in {"exact", "wrong", "absent"}, Sales!Act(t, pc, echo)
        PROVE  EconomyInvariant' /\ Seen
    <3>1. /\ request' = [request EXCEPT ![t] = [request[t] EXCEPT !.pc = pc, !.echo = echo]]
          /\ balance' = balance /\ order' = order /\ checkout' = checkout
      BY <1>1, <2>4 DEF Sales!Act
    <3>2. EconomyInvariant'
      BY <2>1, <3>1, RequestMoves
    <3> QED
      BY <1>2, <3>1, <3>2 DEF Seen
  <2>5. CASE \E echo \in {"exact", "wrong"} : Sales!Webhook(t, echo)
    BY <2>4, <2>5 DEF Sales!Webhook, Sales!WebhookVerdict, Sales!Working, Sales!Answers
  <2>6. CASE Sales!ReconcileRead(t) \/ Sales!FetchUnpaid(t) \/ Sales!Report(t) \/ Sales!CallFails(t)
    BY <2>3, <2>6 DEF Sales!ReconcileRead, Sales!FetchUnpaid, Sales!Report, Sales!CallFails,
                      Sales!Working, Sales!Answers
  <2>7. CASE \E echo \in {"exact", "wrong", "absent"} : Sales!FetchPaid(t, echo)
    BY <2>4, <2>7 DEF Sales!FetchPaid, Sales!Working, Sales!Answers
  <2>8. CASE Sales!Settle(t) \/ Sales!SettleAnswerLost(t)
    <3> DEFINE o == request[t].order
               u == order[o].user
               n == order[o].credits
    <3>1. /\ Sales!SettleCommit(t) /\ checkout' = checkout
          /\ \E pc \in {"won", "lost", "error"} : request' = [request EXCEPT ![t].pc = pc]
      BY <2>8 DEF Sales!Settle, Sales!SettleAnswerLost
    <3>2. PICK pc \in {"won", "lost", "error"} : request' = [request EXCEPT ![t].pc = pc]
      BY <3>1
    <3>3. pc \in Pcs
      BY DEF Sales!Working, Sales!Answers
    <3>4. request' = [request EXCEPT ![t] =
                        [request[t] EXCEPT !.pc = pc, !.echo = request[t].echo]]
      BY <1>1, <3>2 DEF Sales!Call
    <3>5. CASE Sales!SettleGuard(o)
      <4>1. /\ order[o].status = "created"
            /\ order' = [order EXCEPT ![o] = [order[o] EXCEPT !.status = "settled"]]
            /\ balance' = [balance EXCEPT ![u] = balance[u] + n]
        BY <1>1, <2>1, <3>1, <3>5
           DEF Sales!SettleCommit, Sales!SettleGuard, Sales!GrantBatch
      <4>2. request' \in [Calls -> Sales!Call]
        <5>1. [request[t] EXCEPT !.pc = pc, !.echo = request[t].echo] \in Sales!Call
          BY <2>1, <3>3 DEF Sales!Call
        <5> QED
          BY <1>1, <3>4, <5>1
      <4>3. EconomyInvariant'
        BY <2>1, <3>1, <4>1, <4>2, OrderSettled
      <4>4. u \in Users /\ n \in Packs
        BY <1>1, <2>1 DEF PaymentOrder
      <4>5. Abstract!Grant(u, n)
        BY <1>2, <4>1 DEF Abstract!Grant
      <4> HIDE DEF u, n
      <4> QED
        BY <4>3, <4>4, <4>5 DEF Seen, Abstract!Next
    <3>6. CASE ~Sales!SettleGuard(o)
      <4>1. balance' = balance /\ order' = order
        BY <3>1, <3>6 DEF Sales!SettleCommit
      <4>2. EconomyInvariant'
        BY <2>1, <2>2, <3>1, <3>3, <3>4, <4>1, RequestMoves
      <4> QED
        BY <1>2, <4>1, <4>2 DEF Seen
    <3> QED
      BY <3>5, <3>6
  <2> QED
    BY <1>4, <2>5, <2>6, <2>7, <2>8 DEF Sales!CallStep
<1> QED
  BY <1>3, <1>4 DEF Sales!Next

(* Every step of the two components is one of these, or stutters.          *)
LEMMA EconomyStep ==
  ASSUME EconomyInvariant, [Next]_vars
  PROVE  EconomyInvariant' /\ Seen
<1>1. CASE Burns!Next /\ UNCHANGED <<order, checkout, intent, request>>
  <2>1. PICK d \in Debits : Burns!DebitStep(d)
    BY <1>1 DEF Burns!Next
  <2> QED
    BY <1>1, <2>1, BurnStep
<1>2. CASE Sales!Next /\ UNCHANGED <<debitCall, granted>>
  BY <1>2, SaleStep
<1>3. CASE UNCHANGED vars
  <2>1. UNCHANGED <<balance, debitCall, order, checkout, request>>
    BY <1>3 DEF vars
  <2>2. EconomyTypes'
    BY <2>1 DEF EconomyInvariant, EconomyTypes
  <2>3. EconomyInvariant'
    BY <2>1, <2>2, NothingSettled
  <2>4. Burns!SeenDebits' = Burns!SeenDebits
    BY <2>1 DEF Burns!SeenDebits
  <2> QED
    BY <2>1, <2>3, <2>4 DEF Seen
<1> QED
  BY <1>1, <1>2, <1>3 DEF Next

LEMMA EconomyInvariantHolds == Spec => []EconomyInvariant
<1>1. Init => EconomyInvariant
  BY InitHolds
<1>2. EconomyInvariant /\ [Next]_vars => EconomyInvariant'
  BY EconomyStep
<1> QED
  BY <1>1, <1>2, PTL DEF Spec

(* Money in, money out: however settles and debits of a user interleave    *)
(* and whatever of them fails or is replayed, her balance is what she      *)
(* bought less what D1 took, credit by credit (the batches of credits.js   *)
(* and of settleOrder in payments.js).                                     *)
THEOREM EveryCreditIsAccountedFor == Spec => []BalanceIsBoughtLessBurned
<1>1. EconomyInvariant => BalanceIsBoughtLessBurned
  BY DEF EconomyInvariant, InBooks, BalanceIsBoughtLessBurned
<1> QED
  BY <1>1, EconomyInvariantHolds, PTL

(* ... and it does not go below zero.                                      *)
THEOREM NobodyIsInTheRed == Spec => [](\A u \in Users : balance[u] >= 0)
<1>1. EconomyInvariant => \A u \in Users : balance[u] >= 0
  BY DEF EconomyInvariant, InBooks
<1> QED
  BY <1>1, EconomyInvariantHolds, PTL

(* Purchases and burns together implement atomic grants and debits: every  *)
(* step of the awaits of both is one of AtomicCredits or changes nothing   *)
(* it sees.                                                                *)
THEOREM EconomyRefinesAtomicCredits == Spec => EconomyIsAtomic
<1>1. Init => Abstract!Init
  BY DEF Init, Burns!Init, Burns!StoreInit, Burns!SeenDebits, Burns!SeenDebit,
         Abstract!Init, Abstract!NotAsked
<1>2. EconomyInvariant /\ [Next]_vars => [Abstract!Next]_(Abstract!vars)
  BY EconomyStep DEF Seen, Abstract!vars
<1> QED
  BY <1>1, <1>2, EconomyInvariantHolds, PTL DEF Spec, EconomyIsAtomic, Abstract!Spec
=============================================================================
