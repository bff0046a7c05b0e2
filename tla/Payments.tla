------------------------------- MODULE Payments -------------------------------
(***************************************************************************)
(* src/payments.js: AllScale hosted checkout, from the order row to the    *)
(* credits.                                                                *)
(*                                                                         *)
(* create-intent writes the order, asks AllScale for an intent and only    *)
(* then stores the intent's id on the order: three awaits, any of which    *)
(* may fail.  An order is settled by a webhook (AllScale may deliver one   *)
(* twice, late, or never) or by the owner's reconcile polls; both end in   *)
(* settleOrder, one D1 batch guarded by the order still being 'created'.   *)
(*                                                                         *)
(* The checks that keep foreign requests out (signature, timestamp, rate   *)
(* limits, ownership) change no state and are left out: the requests here  *)
(* are the ones that pass them.                                            *)
(***************************************************************************)
EXTENDS CreditStore

CONSTANTS Orders, \* order ids, one per create-intent request
          Calls,  \* webhook and reconcile requests; each settle draws its row id
          Packs   \* the credits a SKU may carry

ASSUME PaymentsAssumption ==
  /\ Orders \subseteq Refs
  /\ Calls \subseteq RowIds
  /\ Packs \subseteq Nat \ {0}

VARIABLES order,    \* payment_orders
          checkout, \* per order: where its create-intent handler stands
          intent,   \* AllScale's side: the status of the order's intent
          call      \* webhook and reconcile requests, see Call

paymentVars == <<balance, ledger, order, checkout, intent, call>>

\* `ref` says whether provider_ref has been stored.
Order == [status : {"none", "created", "settled"},
          user : Users, credits : Packs, ref : BOOLEAN]

Working == {"fetch", "settle", "won", "lost"}
Answers == {"settled", "duplicate", "created", "confirming",
            "mismatch", "unknown", "error"}

\* A call serves, over and over, requests about one order that arrive one way.
\* `echo` is how the amount and order_ref of the payload it acts on compare
\* with the order; only the detail endpoint may leave the amount out.
Call == [via : {"webhook", "reconcile"}, order : Orders,
         pc : {"idle"} \cup Working \cup Answers,
         echo : {"exact", "wrong", "absent"}]

Init ==
  /\ StoreInit
  /\ order \in [Orders -> [status : {"none"}, user : Users, credits : Packs,
                           ref : {FALSE}]]
  /\ checkout = [o \in Orders |-> "idle"]
  /\ intent = [o \in Orders |-> "none"]
  /\ call \in [Calls -> [via : {"webhook", "reconcile"}, order : Orders,
                         pc : {"idle"}, echo : {"absent"}]]

-----------------------------------------------------------------------------
(* create-intent                                                           *)

CreateOrder(o) ==
  /\ checkout[o] = "idle"
  /\ order' = [order EXCEPT ![o].status = "created"]
  /\ checkout' = [checkout EXCEPT ![o] = "posting"]
  /\ UNCHANGED <<balance, ledger, intent, call>>

\* AllScale makes the intent.  The handler learns its id, or only the checkout
\* URL (a payload without allscale_checkout_intent_id), or nothing at all.
PostIntent(o) ==
  /\ checkout[o] = "posting"
  /\ intent' = [intent EXCEPT ![o] = "pending"]
  /\ \E pc \in {"saving", "answered", "failed"} :
       checkout' = [checkout EXCEPT ![o] = pc]
  /\ UNCHANGED <<balance, ledger, order, call>>

SaveRef(o) ==
  /\ checkout[o] = "saving"
  /\ order' = [order EXCEPT ![o].ref = TRUE]
  /\ \E pc \in {"answered", "failed"} :
       checkout' = [checkout EXCEPT ![o] = pc]
  /\ UNCHANGED <<balance, ledger, intent, call>>

\* AllScale refuses, a statement throws or the isolate dies: the order row
\* stays as it is and the payer gets no URL.
CheckoutFails(o) ==
  /\ checkout[o] \in {"posting", "saving"}
  /\ checkout' = [checkout EXCEPT ![o] = "failed"]
  /\ UNCHANGED <<balance, ledger, order, intent, call>>

-----------------------------------------------------------------------------
(* AllScale and the payer                                                  *)

MoveIntent(o, from, to) ==
  /\ intent[o] = from
  /\ intent' = [intent EXCEPT ![o] = to]
  /\ UNCHANGED <<balance, ledger, order, checkout, call>>

\* Only a payer who was given the checkout URL can pay.
Pay(o) == checkout[o] = "answered" /\ MoveIntent(o, "pending", "onchain")
PaymentConfirms(o) == MoveIntent(o, "onchain", "confirmed")
PaymentSentBack(o) == MoveIntent(o, "onchain", "sendback")

-----------------------------------------------------------------------------
(* webhook and reconcile                                                   *)

Answer(t, pc) ==
  /\ call' = [call EXCEPT ![t].pc = pc]
  /\ UNCHANGED <<balance, ledger, order, checkout, intent>>

\* A faulty Act: the two fields are written the wrong way round.
ActSwapped(t, pc, echo) ==
  /\ call' = [call EXCEPT ![t].pc = echo, ![t].echo = pc]
  /\ UNCHANGED <<balance, ledger, order, checkout, intent>>

Act(t, pc, echo) ==
  /\ call' = [call EXCEPT ![t].pc = pc, ![t].echo = echo]
  /\ UNCHANGED <<balance, ledger, order, checkout, intent>>

\* A faulty Free: after its first answer nobody asks again.
FreeOnce(t, via) == call[t].via = via /\ call[t].pc = "idle"

Free(t, via) == call[t].via = via /\ call[t].pc \in {"idle"} \cup Answers

\* What the webhook handler makes of the order row it has read: whether the
\* order is still 'created' is judged on that copy, and again in the batch.
WebhookVerdict(o, echo) ==
  IF ~order[o].ref THEN "unknown"
  ELSE IF echo = "wrong" THEN "mismatch"
  ELSE IF order[o].status = "settled" THEN "duplicate" ELSE "settle"

\* AllScale notifies a confirmed payment: that it notifies no other is its
\* contract, the handler does not look at a status.
Webhook(t, echo) ==
  /\ Free(t, "webhook")
  /\ intent[call[t].order] = "confirmed"
  /\ Act(t, WebhookVerdict(call[t].order, echo), echo)

ReconcileRead(t) ==
  LET o == call[t].order
  IN  /\ Free(t, "reconcile")
      /\ order[o].status # "none"
      /\ Answer(t, IF order[o].status = "settled" THEN "settled"
                   ELSE IF order[o].ref THEN "fetch" ELSE "created")

\* The signed upstream read finds the intent not (yet) paid ...
\* (Faulty variant: a payment seen on-chain is reported as settled.)
FetchUnpaidOptimistic(t) ==
  /\ call[t].pc = "fetch"
  /\ intent[call[t].order] # "confirmed"
  /\ Answer(t, IF intent[call[t].order] = "onchain" THEN "settled" ELSE "created")

FetchUnpaid(t) ==
  LET o == call[t].order
  IN  /\ call[t].pc = "fetch"
      /\ intent[o] # "confirmed"
      /\ Answer(t, IF intent[o] = "onchain" THEN "confirming" ELSE "created")

\* ... or paid.  The amount and order_ref are compared only when the payload
\* carries an amount.
\* (Faulty variants: on-chain already counts as paid; nothing is compared.)
FetchPaidOnChain(t, echo) ==
  /\ call[t].pc = "fetch"
  /\ intent[call[t].order] \in {"onchain", "confirmed"}
  /\ Act(t, IF echo = "wrong" THEN "mismatch" ELSE "settle", echo)

FetchPaidUnchecked(t, echo) ==
  /\ call[t].pc = "fetch"
  /\ intent[call[t].order] = "confirmed"
  /\ Act(t, "settle", echo)

FetchPaid(t, echo) ==
  /\ call[t].pc = "fetch"
  /\ intent[call[t].order] = "confirmed"
  /\ Act(t, IF echo = "wrong" THEN "mismatch" ELSE "settle", echo)

\* settleOrder's batch: grant, ledger row and status flip, each guarded by the
\* order still being 'created'.
\* (Faulty variant: without the EXISTS clauses, any known order is granted.)
SettleUnguarded(o) == order[o].status # "none"

SettleGuard(o) == order[o].status = "created"

SettleCommit(t) ==
  LET o == call[t].order
  IN  IF SettleGuard(o)
      THEN /\ GrantBatch(order[o].user, order[o].credits, t, o)
           /\ order' = [order EXCEPT ![o].status = "settled"]
      ELSE UNCHANGED <<balance, ledger, order>>

Settle(t) ==
  /\ call[t].pc = "settle"
  /\ SettleCommit(t)
  /\ call' = [call EXCEPT ![t].pc =
                IF SettleGuard(call[t].order) THEN "won" ELSE "lost"]
  /\ UNCHANGED <<checkout, intent>>

\* A webhook that lost is a replay (409); everything else reads the balance
\* and reports the order as settled.
Report(t) ==
  /\ call[t].pc \in {"won", "lost"}
  /\ Answer(t, IF call[t].pc = "lost" /\ call[t].via = "webhook"
               THEN "duplicate" ELSE "settled")

\* The upstream read fails, a statement throws or the isolate dies.
CallFails(t) ==
  /\ call[t].pc \in Working
  /\ Answer(t, "error")

\* D1 commits the batch and the call never hears of it.
SettleAnswerLost(t) ==
  /\ call[t].pc = "settle"
  /\ SettleCommit(t)
  /\ call' = [call EXCEPT ![t].pc = "error"]
  /\ UNCHANGED <<checkout, intent>>

-----------------------------------------------------------------------------

OrderStep(o) ==
  \/ CreateOrder(o) \/ PostIntent(o) \/ SaveRef(o) \/ CheckoutFails(o)
  \/ Pay(o) \/ PaymentConfirms(o) \/ PaymentSentBack(o)

CallStep(t) ==
  \/ \E echo \in {"exact", "wrong"} : Webhook(t, echo)
  \/ ReconcileRead(t) \/ FetchUnpaid(t)
  \/ \E echo \in {"exact", "wrong", "absent"} : FetchPaid(t, echo)
  \/ Settle(t) \/ Report(t) \/ CallFails(t) \/ SettleAnswerLost(t)

Next ==
  \/ \E o \in Orders : OrderStep(o)
  \/ \E t \in Calls : CallStep(t)

Spec == Init /\ [][Next]_paymentVars

\* The owner keeps polling, and neither AllScale nor D1 fails every attempt.
Fairness ==
  \A t \in Calls :
    /\ WF_paymentVars(ReconcileRead(t))
    /\ SF_paymentVars(FetchPaid(t, "exact"))
    /\ SF_paymentVars(Settle(t))

FairSpec == Spec /\ Fairness

-----------------------------------------------------------------------------

(* Every variable keeps its type.                                          *)
TypeOK ==
  /\ StoreTypeOK
  /\ order \in [Orders -> Order]
  /\ checkout \in [Orders -> {"idle", "posting", "saving", "answered", "failed"}]
  /\ intent \in [Orders -> {"none", "pending", "onchain", "confirmed", "sendback"}]
  /\ call \in [Calls -> Call]

(* Exactly once (payments.js:151-154): a settled order has one ledger row, *)
(* with its owner and for its credits; an order that is not settled has    *)
(* none - whatever webhooks, replays, polls and failures raced.            *)
GrantedExactlyOnce ==
  \A o \in Orders :
    LET u == order[o].user
        rows == {i \in DOMAIN ledger[u] : ledger[u][i].ref = o}
    IN  /\ \A v \in Users \ {u} : \A i \in DOMAIN ledger[v] : ledger[v][i].ref # o
        /\ IF order[o].status = "settled"
           THEN \E i \in rows : /\ rows = {i}
                                /\ ledger[u][i].delta = order[o].credits
           ELSE rows = {}

(* Credits follow money: an order is settled only if AllScale confirmed    *)
(* its payment (payments.js:241-244).                                      *)
SettledMeansPaid ==
  \A o \in Orders :
    order[o].status = "settled" => intent[o] = "confirmed" /\ order[o].ref

(* The caller is told "settled", or refused as a replay, only of an order  *)
(* that is settled (payments.js:208-210, 225-228, 250-255).                *)
AnswersAreTrue ==
  \A t \in Calls :
    call[t].pc \in {"settled", "duplicate", "won", "lost"} =>
      order[call[t].order].status = "settled"

(* The ledger explains the balance after every settle.                     *)
LedgerExplainsBalance == BooksInOrder({})

JustSettled(o) == order[o].status # "settled" /\ order'[o].status = "settled"

\* A call is about to settle order o on a payload that echoes it as given.
ActingOn(o, echoes) ==
  \E t \in Calls : /\ call[t].order = o
                   /\ call[t].pc = "settle"
                   /\ call[t].echo \in echoes

(* A payload whose amount or order_ref contradicts the order never grants  *)
(* credits (payments.js:173-174).                                          *)
MismatchNeverGrants ==
  [][\A o \in Orders : JustSettled(o) => ActingOn(o, {"exact", "absent"})]_paymentVars

(* "Both paths verify the amount + order_ref before granting a single      *)
(* credit" (payments.js:17): every settle acts on a payload that echoes    *)
(* exactly what was sold.                                                  *)
BothPathsVerify ==
  [][\A o \in Orders : JustSettled(o) => ActingOn(o, {"exact"})]_paymentVars

(* A paid order whose intent id was stored is settled in the end, as long  *)
(* as its owner polls (payments.js:14-16).                                 *)
PaidOrdersSettle ==
  \A o \in Orders :
    (/\ order[o].ref
     /\ intent[o] = "confirmed"
     /\ \E t \in Calls : call[t].via = "reconcile" /\ call[t].order = o)
      ~> order[o].status = "settled"
=============================================================================
