---------------------------- MODULE Payments_proofs ----------------------------
(***************************************************************************)
(* Proofs about Payments, for any orders, requests, users and packs.       *)
(***************************************************************************)
EXTENDS Payments, CreditStore_proofs

USE PaymentsAssumption

-----------------------------------------------------------------------------
(* Types                                                                   *)

(* A settle books a row of the ledger's type, or none.                     *)
LEMMA SettleKeepsTypes ==
  ASSUME TypeOK, NEW t \in Calls, SettleCommit(t)
  PROVE  StoreTypeOK' /\ order' \in [Orders -> Order]
<1> DEFINE o == call[t].order
           u == order[o].user
           n == order[o].credits
<1>1. o \in Orders /\ order[o] \in Order
  BY DEF TypeOK, Call
<1>2. u \in Users /\ n \in Nat \ {0} /\ order \in [Orders -> Order]
  BY <1>1 DEF TypeOK, Order
<1>3. CASE SettleGuard(o)
  <2>1. /\ GrantBatch(u, n, t, o)
        /\ order' = [order EXCEPT ![o].status = "settled"]
    BY <1>3 DEF SettleCommit
  <2>2. order' \in [Orders -> Order]
    BY <1>1, <1>2, <2>1 DEF Order
  <2> HIDE DEF o, u, n
  <2>3. n \in Int /\ balance[u] + n \in Int /\ t \in RowIds /\ o \in Refs
    <3>1. n \in Nat
      BY <1>2
    <3>2. balance[u] \in Int
      BY <1>2 DEF TypeOK, StoreTypeOK
    <3> QED
      BY <1>1, <3>1, <3>2
  <2>4. ledger' \in [Users -> Seq(Row)]
    BY <1>2, <2>1, <2>3, AppendRowIs DEF GrantBatch, TypeOK
  <2>5. balance' \in [Users -> Int]
    BY <1>2, <2>1, <2>3 DEF GrantBatch, TypeOK, StoreTypeOK
  <2> QED
    BY <2>2, <2>4, <2>5 DEF StoreTypeOK
<1>4. CASE ~SettleGuard(o)
  BY <1>4 DEF SettleCommit, TypeOK, StoreTypeOK
<1> QED
  BY <1>3, <1>4

(* The initial states are of the type.                                    *)
LEMMA PaymentsInitTypes == Init => TypeOK
<1> SUFFICES ASSUME Init PROVE TypeOK
  OBVIOUS
<1>1. StoreTypeOK
  BY DEF Init, StoreInit, StoreTypeOK
<1>2. order \in [Orders -> Order]
  BY DEF Init, Order
<1>3. call \in [Calls -> Call]
  BY DEF Init, Call
<1>4. /\ checkout \in [Orders -> {"idle", "posting", "saving", "answered", "failed"}]
      /\ intent \in [Orders -> {"none", "pending", "onchain", "confirmed", "sendback"}]
  BY DEF Init
<1> QED
  BY <1>1, <1>2, <1>3, <1>4 DEF TypeOK

(* Every variable keeps its type.                                          *)
THEOREM PaymentsTypeCorrect == Spec => []TypeOK
<1>1. Init => TypeOK
  BY PaymentsInitTypes
<1>2. TypeOK /\ [Next]_paymentVars => TypeOK'
  <2> SUFFICES ASSUME TypeOK, [Next]_paymentVars PROVE TypeOK'
    OBVIOUS
  <2>1. /\ order \in [Orders -> Order] /\ call \in [Calls -> Call]
        /\ checkout \in [Orders -> {"idle", "posting", "saving", "answered", "failed"}]
        /\ intent \in [Orders -> {"none", "pending", "onchain", "confirmed", "sendback"}]
    BY DEF TypeOK
  <2>2. ASSUME NEW o \in Orders, OrderStep(o) PROVE TypeOK'
    <3>1. StoreTypeOK' /\ call' = call
      BY <2>2 DEF TypeOK, StoreTypeOK, OrderStep, CreateOrder, PostIntent, SaveRef,
                  CheckoutFails, MoveIntent, Pay, PaymentConfirms, PaymentSentBack
    <3>2. CASE CreateOrder(o)
      BY <2>1, <3>1, <3>2 DEF CreateOrder, TypeOK, Order
    <3>3. CASE PostIntent(o) \/ CheckoutFails(o)
      BY <2>1, <3>1, <3>3 DEF PostIntent, CheckoutFails, TypeOK
    <3>4. CASE SaveRef(o)
      <4>1. order' = [order EXCEPT ![o] = [order[o] EXCEPT !.ref = TRUE]]
        BY <2>1, <3>4 DEF SaveRef
      <4>2. [order[o] EXCEPT !.ref = TRUE] \in Order
        BY <2>1 DEF Order
      <4>3. order' \in [Orders -> Order]
        BY <2>1, <4>1, <4>2
      <4>4. checkout' \in [Orders -> {"idle", "posting", "saving", "answered", "failed"}]
        BY <2>1, <3>4 DEF SaveRef
      <4> QED
        BY <2>1, <3>1, <3>4, <4>3, <4>4 DEF SaveRef, TypeOK
    <3>5. CASE Pay(o) \/ PaymentConfirms(o) \/ PaymentSentBack(o)
      BY <2>1, <3>1, <3>5
         DEF Pay, PaymentConfirms, PaymentSentBack, MoveIntent, TypeOK
    <3> QED
      BY <2>2, <3>2, <3>3, <3>4, <3>5 DEF OrderStep
  <2>3. ASSUME NEW t \in Calls, CallStep(t) PROVE TypeOK'
    <3>1. call[t] \in Call /\ call[t].order \in Orders
      BY <2>1 DEF Call
    <3>2. ASSUME NEW pc \in {"idle"} \cup Working \cup Answers,
                 call' = [call EXCEPT ![t].pc = pc]
          PROVE  call' \in [Calls -> Call]
      BY <2>1, <3>1, <3>2 DEF Call
    <3>3. ASSUME NEW pc \in {"idle"} \cup Working \cup Answers, Answer(t, pc)
          PROVE  TypeOK'
      BY <2>1, <3>2, <3>3 DEF Answer, TypeOK, StoreTypeOK
    <3>4. ASSUME NEW pc \in {"idle"} \cup Working \cup Answers,
                 NEW echo \in {"exact", "wrong", "absent"}, Act(t, pc, echo)
          PROVE  TypeOK'
      <4>1. call' \in [Calls -> Call]
        BY <2>1, <3>1, <3>4 DEF Act, Call
      <4> QED
        BY <3>4, <4>1 DEF Act, TypeOK, StoreTypeOK
    <3>5. CASE \E echo \in {"exact", "wrong"} : Webhook(t, echo)
      BY <3>4, <3>5 DEF Webhook, WebhookVerdict, Working, Answers
    <3>6. CASE ReconcileRead(t) \/ FetchUnpaid(t) \/ Report(t) \/ CallFails(t)
      BY <3>3, <3>6 DEF ReconcileRead, FetchUnpaid, Report, CallFails, Working, Answers
    <3>7. CASE \E echo \in {"exact", "wrong", "absent"} : FetchPaid(t, echo)
      BY <3>4, <3>7 DEF FetchPaid, Working, Answers
    <3>8. CASE Settle(t) \/ SettleAnswerLost(t)
      <4>1. call' \in [Calls -> Call]
        BY <3>2, <3>8 DEF Settle, SettleAnswerLost, Working, Answers
      <4>2. SettleCommit(t) /\ UNCHANGED <<checkout, intent>>
        BY <3>8 DEF Settle, SettleAnswerLost
      <4> QED
        BY <4>1, <4>2, SettleKeepsTypes DEF TypeOK
    <3> QED
      BY <2>3, <3>5, <3>6, <3>7, <3>8 DEF CallStep
  <2>4. CASE UNCHANGED paymentVars
    BY <2>4 DEF paymentVars, TypeOK, StoreTypeOK
  <2> QED
    BY <2>2, <2>3, <2>4 DEF Next
<1> QED
  BY <1>1, <1>2, PTL DEF Spec

-----------------------------------------------------------------------------
(* The inductive invariant                                                 *)

\* An order row precedes everything else about the order: until AllScale was
\* asked there is no intent and no stored id.
OrderStages ==
  \A o \in Orders :
    /\ order[o].status = "none" <=> checkout[o] = "idle"
    /\ checkout[o] \in {"idle", "posting"} => intent[o] = "none" /\ ~order[o].ref

\* A request that is past a read of the order or of AllScale has seen something
\* that stays true.
CallStages ==
  \A t \in Calls :
    LET o == call[t].order
    IN  /\ call[t].pc \in {"fetch", "settle"} => order[o].ref
        /\ call[t].pc = "settle" => intent[o] = "confirmed" /\ call[t].echo # "wrong"

PInv ==
  /\ TypeOK
  /\ OrderStages
  /\ CallStages
  /\ SettledMeansPaid
  /\ AnswersAreTrue
  /\ GrantedExactlyOnce
  /\ LedgerExplainsBalance

\* Whose order it is, for how much, and whether it is settled, stay as they are.
SameOrders ==
  \A o \in Orders :
    /\ order'[o].user = order[o].user
    /\ order'[o].credits = order[o].credits
    /\ order'[o].status = "settled" <=> order[o].status = "settled"

(* A step that leaves the credit tables alone and settles nothing keeps    *)
(* what the ledger says about orders and balances.                         *)
LEMMA TablesUntouched ==
  ASSUME GrantedExactlyOnce, LedgerExplainsBalance, SameOrders,
         UNCHANGED <<balance, ledger>>
  PROVE  GrantedExactlyOnce' /\ LedgerExplainsBalance'
<1>1. LedgerExplainsBalance'
  BY DEF LedgerExplainsBalance, BooksInOrder, AfterRow
<1>2. GrantedExactlyOnce'
  BY DEF GrantedExactlyOnce, SameOrders
<1> QED
  BY <1>1, <1>2

(* The batch of a settle whose guard holds books the one row of the order  *)
(* and keeps the books.                                                    *)
LEMMA SettleGrants ==
  ASSUME PInv, NEW t \in Calls, SettleCommit(t), SettleGuard(call[t].order)
  PROVE  GrantedExactlyOnce' /\ LedgerExplainsBalance'
<1> DEFINE o == call[t].order
           u == order[o].user
           n == order[o].credits
           after == balance[u] + n
           row == [id |-> t, ref |-> o, delta |-> n, after |-> after]
           last == Len(ledger[u]) + 1
<1>1. o \in Orders /\ order[o] \in Order /\ order \in [Orders -> Order] /\ StoreTypeOK
  BY DEF PInv, TypeOK, Call
<1>2. u \in Users /\ n \in Nat \ {0}
  BY <1>1 DEF Order
<1>3. n \in Int /\ after \in Int /\ t \in RowIds /\ o \in Refs
  <2> HIDE DEF o, u, n
  <2>1. n \in Nat
    BY <1>2
  <2>2. balance[u] \in Int
    BY <1>1, <1>2 DEF StoreTypeOK
  <2> QED
    BY <1>1, <2>1, <2>2
<1>4. /\ AppendRow(u, t, o, n, after)
      /\ balance' = [balance EXCEPT ![u] = after]
      /\ order' = [order EXCEPT ![o].status = "settled"]
  BY <1>1, <1>2 DEF SettleCommit, GrantBatch, StoreTypeOK
<1>5. order[o].status = "created"
  BY DEF SettleGuard
<1>6. /\ order'[o].status = "settled"
      /\ \A p \in Orders : order'[p].user = order[p].user /\ order'[p].credits = order[p].credits
      /\ \A p \in Orders \ {o} : order'[p].status = order[p].status
  BY <1>1, <1>4 DEF Order
<1> HIDE DEF o, u, n, after
<1>7. /\ last \in DOMAIN ledger'[u] /\ ledger'[u][last] = row
      /\ \A v \in Users : \A i \in DOMAIN ledger'[v] :
           \/ v = u /\ i = last
           \/ i \in DOMAIN ledger[v] /\ ledger'[v][i] = ledger[v][i]
      /\ \A v \in Users : \A i \in DOMAIN ledger[v] :
           /\ i \in DOMAIN ledger'[v] /\ ledger'[v][i] = ledger[v][i]
           /\ ~(v = u /\ i = last)
  BY <1>1, <1>2, <1>3, <1>4, RowsAfterAppend
<1>8. row.ref = o /\ row.delta = n
  OBVIOUS
<1> HIDE DEF row, last
<1>9. GrantedExactlyOnce'
  <2> DEFINE rows(p) == {i \in DOMAIN ledger[order[p].user] : ledger[order[p].user][i].ref = p}
             rows2(p) == {i \in DOMAIN ledger'[order[p].user] : ledger'[order[p].user][i].ref = p}
  <2> SUFFICES ASSUME NEW p \in Orders
               PROVE  /\ \A v \in Users \ {order[p].user} :
                           \A i \in DOMAIN ledger'[v] : ledger'[v][i].ref # p
                      /\ IF order'[p].status = "settled"
                         THEN \E i \in rows2(p) :
                                /\ rows2(p) = {i}
                                /\ ledger'[order[p].user][i].delta = order[p].credits
                         ELSE rows2(p) = {}
    BY <1>6 DEF GrantedExactlyOnce
  <2>1. /\ \A v \in Users \ {order[p].user} : \A i \in DOMAIN ledger[v] : ledger[v][i].ref # p
        /\ IF order[p].status = "settled"
           THEN \E i \in rows(p) : /\ rows(p) = {i}
                                   /\ ledger[order[p].user][i].delta = order[p].credits
           ELSE rows(p) = {}
    BY DEF PInv, GrantedExactlyOnce
  <2>2. order[p].user \in Users
    BY <1>1 DEF Order
  <2>3. CASE p = o
    <3>1. order[p].user = u /\ order[p].credits = n
      BY <2>3 DEF u, n, o
    <3>2. rows(p) = {}
      BY <1>5, <2>1, <2>3
    <3>3. rows2(p) = {last}
      BY <1>2, <1>7, <1>8, <2>3, <3>1, <3>2
    <3>4. \A v \in Users \ {u} : \A i \in DOMAIN ledger'[v] : ledger'[v][i].ref # p
      BY <1>7, <2>1, <3>1
    <3> QED
      BY <1>6, <1>7, <1>8, <2>3, <3>1, <3>3, <3>4
  <2>4. CASE p # o
    <3>1. \A v \in Users \ {order[p].user} : \A i \in DOMAIN ledger'[v] : ledger'[v][i].ref # p
      BY <1>7, <1>8, <2>1, <2>4
    <3>2. rows2(p) = rows(p)
      BY <1>7, <1>8, <2>2, <2>4
    <3>3. \A i \in rows(p) : ledger'[order[p].user][i] = ledger[order[p].user][i]
      BY <1>7, <2>2
    <3> QED
      BY <1>6, <2>1, <2>4, <3>1, <3>2, <3>3
  <2> QED
    BY <2>3, <2>4
<1>10. LedgerExplainsBalance'
  <2>1. Books(balance, ledger, {})
    BY BooksAre DEF PInv, LedgerExplainsBalance
  <2>2. SameVoid({}, {}) /\ after = balance[u] + (IF t \in {} THEN 0 ELSE n)
    BY DEF SameVoid, after
  <2>3. Books(balance', ledger', {})
    BY <1>1, <1>2, <1>3, <1>4, <2>1, <2>2, BooksAfterAppend
  <2> QED
    BY <2>3 DEF LedgerExplainsBalance, BooksInOrder, AfterRow, Books, InOrder
<1> QED
  BY <1>9, <1>10

-----------------------------------------------------------------------------
(* The safety properties                                                   *)

(* A step of a create-intent handler, of AllScale or of a payer keeps the  *)
(* invariant.                                                              *)
LEMMA OrderStepKeeps ==
  ASSUME PInv, TypeOK', NEW o \in Orders, OrderStep(o)
  PROVE  PInv'
<1>1. /\ order \in [Orders -> Order] /\ call \in [Calls -> Call]
      /\ checkout \in [Orders -> {"idle", "posting", "saving", "answered", "failed"}]
      /\ intent \in [Orders -> {"none", "pending", "onchain", "confirmed", "sendback"}]
      /\ OrderStages /\ CallStages /\ SettledMeansPaid /\ AnswersAreTrue
  BY DEF PInv, TypeOK
<1>2. UNCHANGED <<balance, ledger, call>>
  BY DEF OrderStep, CreateOrder, PostIntent, SaveRef, CheckoutFails, MoveIntent,
         Pay, PaymentConfirms, PaymentSentBack
<1>3. ASSUME OrderStages', SameOrders,
             \A p \in Orders :
               /\ order[p].ref => order'[p].ref
               /\ intent[p] = "confirmed" => intent'[p] = "confirmed"
      PROVE  PInv'
  <2>1. \A t \in Calls : call[t].order \in Orders
    BY <1>1 DEF Call
  <2>2. CallStages'
    BY <1>1, <1>2, <1>3, <2>1 DEF CallStages
  <2>3. SettledMeansPaid'
    BY <1>1, <1>3 DEF SettledMeansPaid, SameOrders
  <2>4. AnswersAreTrue'
    BY <1>1, <1>2, <1>3, <2>1 DEF AnswersAreTrue, SameOrders
  <2>5. GrantedExactlyOnce' /\ LedgerExplainsBalance'
    BY <1>2, <1>3, TablesUntouched DEF PInv
  <2> QED
    BY <1>3, <2>2, <2>3, <2>4, <2>5 DEF PInv
<1>4. CASE CreateOrder(o)
  <2>1. order[o].status = "none" /\ checkout[o] = "idle" /\ ~order[o].ref /\ intent[o] = "none"
    BY <1>1, <1>4 DEF CreateOrder, OrderStages
  <2>2. /\ order'[o] = [order[o] EXCEPT !.status = "created"]
        /\ \A p \in Orders \ {o} : order'[p] = order[p] /\ checkout'[p] = checkout[p]
        /\ checkout'[o] = "posting" /\ intent' = intent
    BY <1>1, <1>4 DEF CreateOrder
  <2>3. /\ order'[o].status = "created" /\ order'[o].ref = order[o].ref
        /\ order'[o].user = order[o].user /\ order'[o].credits = order[o].credits
    BY <1>1, <2>2 DEF Order
  <2>4. OrderStages'
    BY ZenonT(30), <1>1, <2>1, <2>2, <2>3 DEF OrderStages
  <2>5. SameOrders
    BY <2>1, <2>2, <2>3 DEF SameOrders
  <2> QED
    BY <1>3, <2>1, <2>2, <2>3, <2>4, <2>5
<1>5. CASE PostIntent(o) \/ CheckoutFails(o) \/ Pay(o) \/ PaymentConfirms(o) \/ PaymentSentBack(o)
  <2>1. order' = order /\ SameOrders
    BY <1>5 DEF PostIntent, CheckoutFails, Pay, PaymentConfirms, PaymentSentBack,
                MoveIntent, SameOrders
  <2>2. OrderStages'
    BY <1>1, <1>5, <2>1
       DEF PostIntent, CheckoutFails, Pay, PaymentConfirms, PaymentSentBack,
           MoveIntent, OrderStages
  <2>3. \A p \in Orders : intent[p] = "confirmed" => intent'[p] = "confirmed"
    BY <1>1, <1>5
       DEF PostIntent, CheckoutFails, Pay, PaymentConfirms, PaymentSentBack,
           MoveIntent, OrderStages
  <2> QED
    BY <1>3, <2>1, <2>2, <2>3
<1>6. CASE SaveRef(o)
  <2>1. /\ order'[o] = [order[o] EXCEPT !.ref = TRUE]
        /\ \A p \in Orders \ {o} : order'[p] = order[p] /\ checkout'[p] = checkout[p]
        /\ checkout[o] = "saving" /\ checkout'[o] \in {"answered", "failed"}
        /\ intent' = intent
    BY <1>1, <1>6 DEF SaveRef
  <2>2. /\ order'[o].status = order[o].status /\ order'[o].ref
        /\ order'[o].user = order[o].user /\ order'[o].credits = order[o].credits
    BY <1>1, <2>1 DEF Order
  <2>3. OrderStages'
    <3> SUFFICES ASSUME NEW p \in Orders
                 PROVE  /\ order'[p].status = "none" <=> checkout'[p] = "idle"
                        /\ checkout'[p] \in {"idle", "posting"} =>
                             intent'[p] = "none" /\ ~order'[p].ref
      BY DEF OrderStages
    <3>1. CASE p = o
      BY <1>1, <2>1, <2>2, <3>1 DEF OrderStages
    <3>2. CASE p # o
      <4>1. order'[p] = order[p] /\ checkout'[p] = checkout[p] /\ intent'[p] = intent[p]
        BY <2>1, <3>2
      <4> QED
        BY <1>1, <4>1 DEF OrderStages
    <3> QED
      BY <3>1, <3>2
  <2>4. SameOrders
    BY <2>1, <2>2 DEF SameOrders
  <2> QED
    BY <1>3, <2>1, <2>2, <2>3, <2>4
<1> QED
  BY <1>4, <1>5, <1>6 DEF OrderStep

\* Request t moves on to pc, acting on a payload that compares as echo, and
\* nothing else changes.
Becomes(t, pc, echo) ==
  /\ UNCHANGED <<balance, ledger, order, checkout, intent>>
  /\ call' = [call EXCEPT ![t] = [call[t] EXCEPT !.pc = pc, !.echo = echo]]

\* What a request may claim to be, as things stand.
May(t, pc, echo) ==
  LET o == call[t].order
  IN  /\ pc \in {"fetch", "settle"} => order[o].ref
      /\ pc = "settle" => intent[o] = "confirmed" /\ echo # "wrong"
      /\ pc \in {"settled", "duplicate", "won", "lost"} => order[o].status = "settled"

(* A request that moves on to what it may be keeps the invariant.          *)
LEMMA BecomesKeeps ==
  ASSUME PInv, TypeOK', NEW t \in Calls, NEW pc, NEW echo,
         Becomes(t, pc, echo), May(t, pc, echo)
  PROVE  PInv'
<1> DEFINE o == call[t].order
<1>1. /\ order \in [Orders -> Order] /\ call \in [Calls -> Call]
      /\ OrderStages /\ CallStages /\ SettledMeansPaid /\ AnswersAreTrue
      /\ call[t] \in Call /\ o \in Orders
      /\ UNCHANGED <<balance, ledger, order, checkout, intent>>
  BY DEF PInv, TypeOK, Call, Becomes
<1>2. /\ call'[t].pc = pc /\ call'[t].echo = echo /\ call'[t].order = o
      /\ \A s \in Calls \ {t} : call'[s] = call[s]
  BY <1>1 DEF Call, Becomes
<1>3. OrderStages' /\ SettledMeansPaid'
  BY <1>1 DEF OrderStages, SettledMeansPaid
<1>4. CallStages'
  BY <1>1, <1>2 DEF CallStages, May
<1>5. AnswersAreTrue'
  BY <1>1, <1>2 DEF AnswersAreTrue, May
<1>6. SameOrders
  BY <1>1 DEF SameOrders
<1>7. GrantedExactlyOnce' /\ LedgerExplainsBalance'
  BY <1>1, <1>6, TablesUntouched DEF PInv
<1> QED
  BY <1>3, <1>4, <1>5, <1>7 DEF PInv

(* A step of a webhook or of a reconcile keeps the invariant.              *)
LEMMA CallStepKeeps ==
  ASSUME PInv, TypeOK', NEW t \in Calls, CallStep(t)
  PROVE  PInv'
<1> DEFINE o == call[t].order
<1>1. /\ order \in [Orders -> Order] /\ call \in [Calls -> Call]
      /\ OrderStages /\ CallStages /\ SettledMeansPaid /\ AnswersAreTrue
      /\ call[t] \in Call /\ o \in Orders
  BY DEF PInv, TypeOK, Call
<1>2. order[o] \in Order /\ (order[o].ref => order[o].status # "none")
  BY <1>1 DEF OrderStages
<1>3. ASSUME NEW pc, NEW echo, Becomes(t, pc, echo), May(t, pc, echo) PROVE PInv'
  BY <1>3, BecomesKeeps
<1>4. ASSUME NEW pc, Answer(t, pc) PROVE Becomes(t, pc, call[t].echo)
  BY <1>1, <1>4 DEF Answer, Call, Becomes
<1>5. ASSUME NEW pc, NEW echo, Act(t, pc, echo) PROVE Becomes(t, pc, echo)
  BY <1>1, <1>5 DEF Act, Becomes
<1>6. ASSUME NEW echo \in {"exact", "wrong"}, Webhook(t, echo) PROVE PInv'
  <2>1. intent[o] = "confirmed" /\ Act(t, WebhookVerdict(o, echo), echo)
    BY <1>6 DEF Webhook
  <2>2. May(t, WebhookVerdict(o, echo), echo)
    BY <2>1 DEF WebhookVerdict, May
  <2> QED
    BY <1>3, <1>5, <2>1, <2>2
<1>7. CASE ReconcileRead(t)
  <2>1. PICK pc : Answer(t, pc) /\ May(t, pc, call[t].echo)
    <3>1. CASE order[o].status = "settled"
      BY <1>7, <3>1 DEF ReconcileRead, May
    <3>2. CASE order[o].status # "settled" /\ order[o].ref
      BY <1>7, <3>2 DEF ReconcileRead, May
    <3>3. CASE order[o].status # "settled" /\ ~order[o].ref
      BY <1>7, <3>3 DEF ReconcileRead, May
    <3> QED
      BY <3>1, <3>2, <3>3
  <2> QED
    BY <1>3, <1>4, <2>1
<1>8. CASE FetchUnpaid(t)
  <2>1. PICK pc : Answer(t, pc) /\ pc \in {"confirming", "created"}
    BY <1>8 DEF FetchUnpaid
  <2>2. May(t, pc, call[t].echo)
    BY <2>1 DEF May
  <2> QED
    BY <1>3, <1>4, <2>1, <2>2
<1>9. ASSUME NEW echo \in {"exact", "wrong", "absent"}, FetchPaid(t, echo) PROVE PInv'
  <2>1. PICK pc : /\ Act(t, pc, echo)
                  /\ pc \in {"mismatch", "settle"}
                  /\ pc = "settle" => echo # "wrong"
    BY <1>9 DEF FetchPaid
  <2>2. intent[o] = "confirmed" /\ order[o].ref
    BY <1>1, <1>9 DEF FetchPaid, CallStages
  <2>3. May(t, pc, echo)
    BY <2>1, <2>2 DEF May
  <2> QED
    BY <1>3, <1>5, <2>1, <2>3
<1>10. CASE Report(t)
  <2>1. PICK pc : Answer(t, pc) /\ pc \in {"duplicate", "settled"}
    BY <1>10 DEF Report
  <2>2. order[o].status = "settled"
    BY <1>1, <1>10 DEF Report, AnswersAreTrue
  <2>3. May(t, pc, call[t].echo)
    BY <2>1, <2>2 DEF May
  <2> QED
    BY <1>3, <1>4, <2>1, <2>3
<1>11. CASE CallFails(t)
  <2>1. Answer(t, "error") /\ May(t, "error", call[t].echo)
    BY <1>11 DEF CallFails, May
  <2> QED
    BY <1>3, <1>4, <2>1
<1>12. CASE Settle(t) \/ SettleAnswerLost(t)
  <2>1. PICK pc : /\ call' = [call EXCEPT ![t].pc = pc]
                  /\ pc \in {"won", "lost", "error"}
    BY <1>12 DEF Settle, SettleAnswerLost
  <2>2. /\ call[t].pc = "settle" /\ SettleCommit(t) /\ UNCHANGED <<checkout, intent>>
        /\ order[o].ref /\ intent[o] = "confirmed" /\ order[o].status # "none"
    BY <1>1, <1>2, <1>12 DEF Settle, SettleAnswerLost, CallStages
  <2>3. CASE SettleGuard(o)
    <3>1. order' = [order EXCEPT ![o] = [order[o] EXCEPT !.status = "settled"]]
      BY <1>1, <2>2, <2>3 DEF SettleCommit
    <3>2. /\ order'[o].status = "settled" /\ order'[o].ref = order[o].ref
          /\ \A p \in Orders \ {o} : order'[p] = order[p]
      BY <1>1, <1>2, <3>1 DEF Order
    <3>3. /\ call'[t].pc = pc /\ call'[t].order = o
          /\ \A s \in Calls \ {t} : call'[s] = call[s]
      BY <1>1, <2>1 DEF Call
    <3>4. \A s \in Calls : call[s].order \in Orders
      BY <1>1 DEF Call
    <3>5. \A p \in Orders : order'[p].ref = order[p].ref
      BY <3>2
    <3>6. OrderStages'
      <4>1. order[o].status # "none" /\ order'[o].status # "none"
        BY <2>2, <3>2
      <4> QED
        BY <1>1, <2>2, <3>2, <4>1 DEF OrderStages
    <3>7. SettledMeansPaid'
      BY <1>1, <2>2, <3>2 DEF SettledMeansPaid
    <3>8. CallStages'
      BY <1>1, <2>1, <2>2, <3>3, <3>4, <3>5 DEF CallStages
    <3>9. AnswersAreTrue'
      BY <1>1, <3>2, <3>3, <3>4 DEF AnswersAreTrue
    <3>10. GrantedExactlyOnce' /\ LedgerExplainsBalance'
      BY <2>2, <2>3, SettleGrants
    <3> QED
      BY <3>6, <3>7, <3>8, <3>9, <3>10 DEF PInv
  <2>4. CASE ~SettleGuard(o)
    <3>1. UNCHANGED <<balance, ledger, order, checkout, intent>>
      BY <2>2, <2>4 DEF SettleCommit
    <3>2. order[o].status = "settled"
      BY <1>2, <2>2, <2>4 DEF SettleGuard, Order
    <3>3. call' = [call EXCEPT ![t] = [call[t] EXCEPT !.pc = pc, !.echo = call[t].echo]]
      BY <1>1, <2>1 DEF Call
    <3>4. Becomes(t, pc, call[t].echo) /\ May(t, pc, call[t].echo)
      BY <2>1, <3>1, <3>2, <3>3 DEF Becomes, May
    <3> QED
      BY <1>3, <3>4
  <2> QED
    BY <2>3, <2>4
<1> QED
  BY <1>6, <1>7, <1>8, <1>9, <1>10, <1>11, <1>12 DEF CallStep

(* The inductive invariant holds in every state of every behaviour.        *)
THEOREM PaymentsInvariant == Spec => []PInv
<1>1. Init => PInv
  <2> SUFFICES ASSUME Init, TypeOK PROVE PInv
    <3>1. Init => TypeOK
      BY PaymentsInitTypes
    <3> QED
      BY <3>1
  <2>1. OrderStages /\ SettledMeansPaid
    BY DEF Init, OrderStages, SettledMeansPaid
  <2>2. \A t \in Calls : call[t].pc = "idle"
    BY DEF Init
  <2>3. CallStages /\ AnswersAreTrue
    BY <2>2 DEF CallStages, AnswersAreTrue
  <2>4. \A u \in Users : ledger[u] = <<>> /\ balance[u] = 0
    BY DEF Init, StoreInit
  <2>5. \A u \in Users : DOMAIN ledger[u] = {} /\ Len(ledger[u]) = 0
    BY <2>4
  <2>6. LedgerExplainsBalance
    BY <2>4, <2>5 DEF LedgerExplainsBalance, BooksInOrder, AfterRow
  <2>7. \A o \in Orders : order[o].status = "none" /\ order[o].user \in Users
    BY DEF Init
  <2>8. GrantedExactlyOnce
    BY <2>5, <2>7 DEF GrantedExactlyOnce
  <2> QED
    BY <2>1, <2>3, <2>6, <2>8 DEF PInv
<1>2. PInv /\ [Next]_paymentVars /\ TypeOK' => PInv'
  <2> SUFFICES ASSUME PInv, [Next]_paymentVars, TypeOK' PROVE PInv'
    OBVIOUS
  <2>1. CASE UNCHANGED paymentVars
    <3>1. GrantedExactlyOnce' /\ LedgerExplainsBalance'
      BY <2>1, TablesUntouched DEF paymentVars, PInv, SameOrders
    <3> QED
      BY <2>1, <3>1 DEF paymentVars, PInv, OrderStages, CallStages, SettledMeansPaid,
                        AnswersAreTrue
  <2> QED
    BY <2>1, OrderStepKeeps, CallStepKeeps DEF Next
<1> QED
  BY <1>1, <1>2, PaymentsTypeCorrect, PTL DEF Spec

(* Every settled order was granted exactly once, no other order ever.      *)
THEOREM ExactlyOnce == Spec => []GrantedExactlyOnce
<1>1. PInv => GrantedExactlyOnce
  BY DEF PInv
<1> QED
  BY <1>1, PaymentsInvariant, PTL

(* Only what AllScale confirmed as paid is settled.                        *)
THEOREM CreditsFollowMoney == Spec => []SettledMeansPaid
<1>1. PInv => SettledMeansPaid
  BY DEF PInv
<1> QED
  BY <1>1, PaymentsInvariant, PTL

(* What a webhook or a poll is told of an order is true.                   *)
THEOREM PaymentAnswersAreTrue == Spec => []AnswersAreTrue
<1>1. PInv => AnswersAreTrue
  BY DEF PInv
<1> QED
  BY <1>1, PaymentsInvariant, PTL

(* The ledger explains the balance after any number of settles.            *)
THEOREM PaymentLedgerExplains == Spec => []LedgerExplainsBalance
<1>1. PInv => LedgerExplainsBalance
  BY DEF PInv
<1> QED
  BY <1>1, PaymentsInvariant, PTL

(* No step settles an order on a payload that contradicts it.              *)
THEOREM MismatchesNeverGrant == Spec => MismatchNeverGrants
<1>1. PInv /\ [Next]_paymentVars =>
        [\A o \in Orders : JustSettled(o) => ActingOn(o, {"exact", "absent"})]_paymentVars
  <2> SUFFICES ASSUME PInv, Next, NEW o \in Orders, JustSettled(o)
               PROVE  ActingOn(o, {"exact", "absent"})
    OBVIOUS
  <2>1. order \in [Orders -> Order] /\ call \in [Calls -> Call] /\ CallStages
    BY DEF PInv, TypeOK
  <2>2. order'[o].status = "settled" /\ order[o].status # "settled"
    BY DEF JustSettled
  <2>3. PICK t \in Calls : Settle(t) \/ SettleAnswerLost(t)
    <3>1. ASSUME NEW p \in Orders, OrderStep(p) PROVE FALSE
      <4>1. CASE CreateOrder(p)
        <5>1. order' = [order EXCEPT ![p] = [order[p] EXCEPT !.status = "created"]]
          BY <2>1, <4>1 DEF CreateOrder
        <5>2. order[p] \in Order /\ [order[p] EXCEPT !.status = "created"].status = "created"
          BY <2>1 DEF Order
        <5> QED
          BY <2>1, <2>2, <5>1, <5>2
      <4>2. CASE SaveRef(p)
        <5>1. order' = [order EXCEPT ![p] = [order[p] EXCEPT !.ref = TRUE]]
          BY <2>1, <4>2 DEF SaveRef
        <5>2. [order[p] EXCEPT !.ref = TRUE].status = order[p].status
          BY <2>1 DEF Order
        <5> QED
          BY <2>1, <2>2, <5>1, <5>2
      <4>3. CASE ~CreateOrder(p) /\ ~SaveRef(p)
        BY <2>2, <3>1, <4>3 DEF OrderStep, PostIntent, CheckoutFails, Pay,
                                PaymentConfirms, PaymentSentBack, MoveIntent
      <4> QED
        BY <4>1, <4>2, <4>3
    <3>2. ASSUME NEW t \in Calls, CallStep(t), ~(Settle(t) \/ SettleAnswerLost(t))
          PROVE  FALSE
      <4>1. order' = order
        BY <3>2 DEF CallStep, Webhook, ReconcileRead, FetchUnpaid, FetchPaid, Report,
                    CallFails, Answer, Act
      <4> QED
        BY <2>2, <4>1
    <3> QED
      BY <3>1, <3>2 DEF Next
  <2>4. call[t].pc = "settle" /\ SettleCommit(t)
    BY <2>3 DEF Settle, SettleAnswerLost
  <2>5. call[t].order = o
    BY <2>1, <2>2, <2>4 DEF SettleCommit, Call
  <2>6. call[t].echo \in {"exact", "absent"}
    BY <2>1, <2>4 DEF CallStages, Call
  <2> QED
    BY <2>4, <2>5, <2>6 DEF ActingOn
<1> QED
  BY <1>1, PaymentsInvariant, PTL DEF Spec, MismatchNeverGrants
=============================================================================
