--------------------------- MODULE BrainSpend_proofs ---------------------------
(***************************************************************************)
(* What the caps hold to for any number of dens, payers and requests at a  *)
(* time, and for any ceilings.                                             *)
(*                                                                         *)
(* Every bound has the same shape.  Each request has a weight: what it may *)
(* still add, from the read that let it through to the booking, and the    *)
(* weights are added up over the slots.  A cap that was not reached when   *)
(* it was read is then exceeded by no more than what all slots weigh, and  *)
(* a step moves weight into the books but never makes any.                 *)
(***************************************************************************)
EXTENDS BrainSpend, FiniteSetTheorems, TLAPS

-----------------------------------------------------------------------------
(* Sums over the slots: a slot of weight n has n tokens, of m at most.     *)

Tokens(w, m) == {x \in Slots \X (1 .. m) : x[2] <= w[x[1]]}
Sum(w, m) == Cardinality(Tokens(w, m))

Room(m) == Cardinality(Slots) * m
Lost(n) == n * MaxCalls

-----------------------------------------------------------------------------
(* The invariant.                                                          *)

ToBook == {<<"image">>, <<"rag">>, <<"search">>, <<"chat">>, <<"rag", "search">>}
Listed(b) == {b[i] : i \in DOMAIN b}

\* What of a bill is still to be booked in the row of a scope.
Due(r, s) ==
  IF r.pc \in {"store", "logDen"} \/ (r.pc = "logAll" /\ s = All) THEN Listed(r.book)
  ELSE IF r.pc = "logAll" THEN Listed(Tail(r.book)) ELSE {}

Concerns(r, s) == s = r.den \/ s = All
ReadOf(s) == IF s = All THEN "all" ELSE "den"

\* The surfaces a request asks xAI for.
AsksFor(r, k) ==
  Asking(r) /\ (IF k = "image" THEN r.kind = "image" ELSE IF k = "rag" THEN r.rag ELSE r.search)

\* A read of the ledger has let the request through to a surface, below the hard ceiling
\* of a scope, or below the free pool.
LetThrough(r, s, k) ==
  \/ r.pc = "reading" /\ r.kind = k /\ ~r.seen.hard /\ ReadOf(s) \notin r.seen.out
  \/ r.pc = "reading" /\ r.rag /\ k = "rag"
  \/ r.pc = "debit" /\ r.kind = k
  \/ AsksFor(r, k)
LetThroughFree(r, k) ==
  \/ r.pc = "reading" /\ r.kind = k /\ ~r.seen.empty /\ ~r.seen.hard /\ "den" \notin r.seen.out
  \/ r.pc = "reading" /\ r.rag /\ k = "rag"
  \/ AsksFor(r, k) /\ r.burned = 0

\* ... below the USD ceiling, and its ticks are not booked yet.
MaySpend(r) ==
  \/ r.pc = "reading" /\ (r.rag \/ (~r.seen.hard /\ "ticks" \notin r.seen.out))
  \/ r.pc \in {"debit", "store"}
  \/ Asking(r) /\ r.kind # "chat"
  \/ /\ r.pc \in {"logDen", "logAll"}
     /\ Head(r.book) # "chat" /\ ~(Head(r.book) = "search" /\ r.rag)

DueOf(r, s, k) == IF Concerns(r, s) /\ k \in Due(r, s) THEN r.calls[k] ELSE 0
HardOf(r, s, k) == IF Concerns(r, s) /\ LetThrough(r, s, k) THEN MaxCalls ELSE 0
FreeOf(r, d, k) == IF r.den = d /\ LetThroughFree(r, k) THEN MaxCalls ELSE 0
UsdOf(r) == IF MaySpend(r) THEN MaxTicks ELSE 0

\* What the requests f of the slots weigh.
Dues(f, s, k) == [c \in Slots |-> DueOf(f[c], s, k)]
Hards(f, s, k) == [c \in Slots |-> HardOf(f[c], s, k)]
Frees(f, d, k) == [c \in Slots |-> FreeOf(f[c], d, k)]
Usds(f) == [c \in Slots |-> UsdOf(f[c])]

\* The surface a request may burn credits for, and what it has burned.
Surface(r) == IF r.imagine THEN "image" ELSE "search"
Pays(r) ==
  /\ r.burned \in {0, Floor[Surface(r)]}
  /\ r.pc \in Working \ {"post"} /\ r.burned > 0 =>
       r.charged = r.burned /\ r.kind = Surface(r) /\ ~r.rag
  /\ r.pc \in Working \ {"post"} => r.charged \in {0, Floor[Surface(r)]}
  /\ r.pc = "settle" => r.burned > 0
  /\ r.pc \in {"reading", "debit"} => r.burned = 0 /\ r.charged = 0
  /\ r.pc = "post" => r.charged <= Quote(Surface(r), r.ticks)

\* A request on its way.
InOrder(r) ==
  /\ r.pc \in Working /\ r.kind = "image" => r.imagine
  /\ r.pc \in Working \ {"post"} /\ r.imagine => r.kind = "image"
  /\ r.pc \in {"reading", "debit"} => r.kind # "chat" /\ ~r.search
  /\ r.pc = "reading" /\ r.rag => r.kind = "search"
  /\ r.pc = "debit" => MayBurn(r)
  /\ Asking(r) => (r.rag <=> r.kind = "rag") /\ (r.search => r.kind \in {"search", "rag"})
  /\ r.rag => r.kind \in {"search", "rag"}
  /\ r.pc = "store" => r.book = <<"image">> /\ r.kind = "image"
  /\ r.pc \in {"store", "logDen", "logAll"} =>
       r.book \in ToBook /\ (r.book = <<"rag", "search">> => r.rag)
  /\ r.ticks <= MaxTicks /\ \A k \in Kinds : r.calls[k] <= MaxCalls

BilledBound(s, k) ==
  spent[s][k] <= used[s][k] + Sum(Dues(call, s, k), MaxCalls) + Lost(lost)
CapBound(s, k) ==
  spent[s][k] + Sum(Hards(call, s, k), MaxCalls) <=
    HardCap(s, k) - 1 + Room(MaxCalls) + Lost(lost)
FreeBound(d, k) ==
  /\ unpaid[d][k] <= spent[d][k]
  /\ IF FreeDen[k] = 0
     THEN unpaid[d][k] = 0 /\ \A c \in Slots : FreeOf(call[c], d, k) = 0
     ELSE unpaid[d][k] + Sum(Frees(call, d, k), MaxCalls) <=
            FreeDen[k] - 1 + Room(MaxCalls) + Lost(lost)
UsdBound == ticks.tools + Sum(Usds(call), MaxTicks) <= DailyUsd - 1 + Room(MaxTicks)

SpendInvariant ==
  /\ TypeOK
  /\ \A c \in Slots : InOrder(call[c]) /\ Pays(call[c])
  /\ \A s \in Scopes, k \in Kinds : BilledBound(s, k) /\ CapBound(s, k)
  /\ \A d \in Dens, k \in Kinds : FreeBound(d, k)
  /\ UsdBound

-----------------------------------------------------------------------------
(* The sums.                                                               *)

(* What the slots weigh together is at most the room they have.            *)
LEMMA SumTypes ==
  ASSUME NEW m \in Nat, NEW w \in [Slots -> 0 .. m]
  PROVE  /\ IsFiniteSet(Tokens(w, m))
         /\ Sum(w, m) \in Nat /\ Room(m) \in Nat
         /\ Sum(w, m) <= Room(m)
<1>1. IsFiniteSet(Slots) /\ Cardinality(Slots) \in Nat
  BY BrainSpendAssumption, FS_CardinalityType DEF BrainSpendAssumption
<1>2. IsFiniteSet(1 .. m) /\ Cardinality(1 .. m) = m
  BY FS_Interval
<1>3. IsFiniteSet(Slots \X (1 .. m)) /\ Cardinality(Slots \X (1 .. m)) = Room(m)
  BY <1>1, <1>2, FS_Product DEF Room
<1>4. Tokens(w, m) \in SUBSET (Slots \X (1 .. m))
  BY DEF Tokens
<1>5. IsFiniteSet(Tokens(w, m)) /\ Sum(w, m) <= Room(m)
  BY <1>3, <1>4, FS_Subset DEF Sum
<1> QED
  BY <1>1, <1>3, <1>5, FS_CardinalityType DEF Sum

(* A slot that changes its weight changes the sum by as much.              *)
LEMMA SumStep ==
  ASSUME NEW m \in Nat, NEW w \in [Slots -> 0 .. m], NEW v \in [Slots -> 0 .. m],
         NEW c \in Slots, \A x \in Slots \ {c} : v[x] = w[x]
  PROVE  Sum(v, m) + w[c] = Sum(w, m) + v[c]
<1> DEFINE Of(f) == {x \in Tokens(f, m) : x[1] = c}
           Rest(f) == {x \in Tokens(f, m) : x[1] # c}
<1>1. ASSUME NEW f \in [Slots -> 0 .. m]
      PROVE  /\ IsFiniteSet(Rest(f)) /\ Cardinality(Rest(f)) \in Nat
             /\ Sum(f, m) = f[c] + Cardinality(Rest(f))
  <2>1. IsFiniteSet(Tokens(f, m))
    BY SumTypes
  <2>2. Of(f) = {c} \X (1 .. f[c])
    BY SMT DEF Tokens
  <2>3. IsFiniteSet(1 .. f[c]) /\ Cardinality(1 .. f[c]) = f[c]
    <3>1. f[c] \in Nat
      OBVIOUS
    <3> QED
      BY <3>1, FS_Interval
  <2>4. IsFiniteSet({c}) /\ Cardinality({c}) = 1
    BY FS_Singleton
  <2>5. IsFiniteSet(Of(f)) /\ Cardinality(Of(f)) = 1 * f[c]
    <3>1. /\ IsFiniteSet({c} \X (1 .. f[c]))
          /\ Cardinality({c} \X (1 .. f[c])) = 1 * f[c]
      BY ZenonT(30), <2>3, <2>4, FS_Product
    <3> QED
      BY <2>2, <3>1
  <2>6. IsFiniteSet(Rest(f))
    BY <2>1, FS_Subset
  <2>7. Of(f) \cup Rest(f) = Tokens(f, m) /\ Of(f) \cap Rest(f) = {}
    OBVIOUS
  <2>8. Cardinality(Of(f) \cup Rest(f)) = Cardinality(Of(f)) + Cardinality(Rest(f)) - 0
    BY <2>5, <2>6, <2>7, FS_Union, FS_EmptySet
  <2>9. Cardinality(Rest(f)) \in Nat
    BY <2>6, FS_CardinalityType
  <2> QED
    BY <2>5, <2>6, <2>7, <2>8, <2>9 DEF Sum
<1>2. Rest(v) = Rest(w)
  BY DEF Tokens
<1> HIDE DEF Rest
<1>3. /\ Cardinality(Rest(w)) \in Nat
      /\ Sum(w, m) = w[c] + Cardinality(Rest(w))
      /\ Sum(v, m) = v[c] + Cardinality(Rest(w))
  BY <1>1, <1>2
<1> QED
  BY <1>3

(* Weights that no slot has both of share the room.                        *)
LEMMA SumApart ==
  ASSUME NEW m \in Nat, NEW w \in [Slots -> 0 .. m], NEW v \in [Slots -> 0 .. m],
         \A c \in Slots : w[c] = 0 \/ v[c] = 0
  PROVE  Sum(w, m) + Sum(v, m) <= Room(m)
<1> DEFINE u == [c \in Slots |-> w[c] + v[c]]
<1>1. u \in [Slots -> 0 .. m]
  OBVIOUS
<1>2. Tokens(w, m) \cup Tokens(v, m) = Tokens(u, m)
  BY DEF Tokens
<1>3. Tokens(w, m) \cap Tokens(v, m) = {}
  BY DEF Tokens
<1>4. /\ IsFiniteSet(Tokens(w, m)) /\ IsFiniteSet(Tokens(v, m))
      /\ Sum(w, m) \in Nat /\ Sum(v, m) \in Nat
  BY SumTypes
<1>5. Sum(u, m) <= Room(m) /\ Sum(u, m) \in Nat
  BY <1>1, SumTypes
<1> HIDE DEF u
<1>6. Cardinality(Tokens(u, m)) = Cardinality(Tokens(w, m)) + Cardinality(Tokens(v, m)) - 0
  <2>1. Cardinality(Tokens(w, m) \cup Tokens(v, m)) =
          Cardinality(Tokens(w, m)) + Cardinality(Tokens(v, m)) -
          Cardinality(Tokens(w, m) \cap Tokens(v, m))
    BY <1>4, FS_Union
  <2> QED
    BY <1>2, <1>3, <2>1, FS_EmptySet
<1> QED
  BY <1>4, <1>5, <1>6 DEF Sum

(* One more request that is not booked is MaxCalls more calls of a kind.   *)
LEMMA LostStep ==
  ASSUME NEW n \in Nat
  PROVE  /\ Lost(n) \in Nat /\ MaxCalls \in Nat \ {0} /\ MaxTicks \in Nat \ {0}
         /\ Lost(n + 1) = Lost(n) + MaxCalls
<1>1. MaxCalls \in Nat \ {0} /\ MaxTicks \in Nat \ {0}
  BY BrainSpendAssumption DEF BrainSpendAssumption
<1> QED
  BY <1>1 DEF Lost

LEMMA SlackFacts ==
  ASSUME lost \in Nat
  PROVE  /\ Slack = Room(MaxCalls) + Lost(lost) /\ Slack \in Nat
         /\ Room(MaxCalls) \in Nat /\ Lost(lost) \in Nat
<1>1. MaxCalls \in Nat /\ Cardinality(Slots) \in Nat
  BY BrainSpendAssumption, FS_CardinalityType DEF BrainSpendAssumption
<1>2. \A a, b, m \in Nat : (a + b) * m = a * m + b * m /\ a * m \in Nat /\ (a + b) * m \in Nat
  OBVIOUS
<1> QED
  BY <1>1, <1>2 DEF Slack, Room, Lost

-----------------------------------------------------------------------------
(* A request that takes a step.                                            *)

Req ==
  [pc : Free \cup Working, user : Users, den : Dens,
   imagine : BOOLEAN, kind : Kinds \cup {"chat"}, rag : BOOLEAN,
   search : BOOLEAN, seen : [out : SUBSET Reads, hard : BOOLEAN, empty : BOOLEAN],
   burned : Nat, charged : Nat, calls : Counts, ticks : Nat,
   book : Seq(Kinds \cup {"chat"})]

(* No weight is more than a slot has room for, and a request never has     *)
(* calls to book while it is still on its way to xAI.                      *)
LEMMA Weights ==
  ASSUME NEW r \in Req, InOrder(r), NEW s \in Scopes, NEW d \in Dens, NEW j \in Kinds
  PROVE  /\ DueOf(r, s, j) \in 0 .. MaxCalls /\ HardOf(r, s, j) \in {0, MaxCalls}
         /\ FreeOf(r, d, j) \in {0, MaxCalls} /\ UsdOf(r) \in {0, MaxTicks}
         /\ DueOf(r, s, j) = 0 \/ HardOf(r, s, j) = 0
         /\ DueOf(r, s, j) = 0 \/ FreeOf(r, d, j) = 0
<1>1. r.calls[j] \in 0 .. MaxCalls /\ MaxCalls \in Nat
  BY BrainSpendAssumption DEF Req, Counts, InOrder, BrainSpendAssumption
<1>2. DueOf(r, s, j) \in 0 .. MaxCalls
  BY <1>1 DEF DueOf
<1>3. DueOf(r, s, j) = 0 \/ r.pc \in {"store", "logDen", "logAll"}
  BY DEF DueOf, Due
<1>4. HardOf(r, s, j) \in {0, MaxCalls} /\ FreeOf(r, d, j) \in {0, MaxCalls}
      /\ UsdOf(r) \in {0, MaxTicks}
  BY DEF HardOf, FreeOf, UsdOf
<1>5. r.pc \in {"store", "logDen", "logAll"} => HardOf(r, s, j) = 0 /\ FreeOf(r, d, j) = 0
  BY DEF HardOf, FreeOf, LetThrough, LetThroughFree, AsksFor, Asking
<1> QED
  BY <1>2, <1>3, <1>4, <1>5

\* One more request of the day that is not booked.
Slip == IF lost' = lost THEN 0 ELSE MaxCalls

\* The request r goes on as q: xAI bills no more than the books, the bill or the slip take up,
BilledStep(r, q, s, j) ==
  spent'[s][j] + used[s][j] + DueOf(r, s, j) <=
    spent[s][j] + used'[s][j] + DueOf(q, s, j) + Slip
\* and no more than the request was let through to; or it is let through below the cap.
CapStep(r, q, s, j) ==
  \/ spent'[s][j] + HardOf(q, s, j) <= spent[s][j] + HardOf(r, s, j) + Slip
  \/ spent'[s][j] = spent[s][j] /\ used[s][j] < HardCap(s, j) /\ DueOf(r, s, j) = 0
FreeStep(r, q, d, j) ==
  /\ unpaid'[d][j] + spent[d][j] <= unpaid[d][j] + spent'[d][j]
  /\ IF FreeDen[j] = 0 THEN unpaid'[d][j] = 0 /\ FreeOf(q, d, j) = 0
     ELSE \/ unpaid'[d][j] + FreeOf(q, d, j) <= unpaid[d][j] + FreeOf(r, d, j) + Slip
          \/ unpaid'[d][j] = unpaid[d][j] /\ used[d][j] < FreeDen[j] /\ DueOf(r, d, j) = 0
UsdStep(r, q) ==
  \/ ticks'.tools + UsdOf(q) <= ticks.tools + UsdOf(r)
  \/ ticks'.tools = ticks.tools /\ ticks.tools < DailyUsd

(* A step of one slot that keeps these accounts keeps the invariant.       *)
LEMMA StepKeepsBounds ==
  ASSUME SpendInvariant, TypeOK', NEW c \in Slots, NEW q \in Req,
         call' = [call EXCEPT ![c] = q], InOrder(q), Pays(q), lost' \in {lost, lost + 1},
         \A s \in Scopes, j \in Kinds : BilledStep(call[c], q, s, j) /\ CapStep(call[c], q, s, j),
         \A d \in Dens, j \in Kinds : FreeStep(call[c], q, d, j),
         UsdStep(call[c], q)
  PROVE  SpendInvariant'
<1> DEFINE f == call
           g == [f EXCEPT ![c] = q]
           r == f[c]
<1>1. f \in [Slots -> Req] /\ g \in [Slots -> Req] /\ g[c] = q
      /\ \A x \in Slots \ {c} : g[x] = f[x]
  BY DEF SpendInvariant, TypeOK, Req
<1>2. \A x \in Slots : InOrder(f[x]) /\ InOrder(g[x]) /\ Pays(g[x])
  BY <1>1 DEF SpendInvariant
<1>3. /\ MaxCalls \in Nat \ {0} /\ MaxTicks \in Nat \ {0} /\ DailyUsd \in Nat
      /\ Lost(lost) \in Nat /\ Lost(lost') = Lost(lost) + Slip /\ Slip \in {0, MaxCalls}
  <2>1. lost \in Nat
    BY DEF SpendInvariant, TypeOK
  <2>2. CASE lost' = lost
    BY <2>1, <2>2, LostStep, BrainSpendAssumption DEF Slip, BrainSpendAssumption
  <2>3. CASE lost' = lost + 1
    BY <2>1, <2>3, LostStep, BrainSpendAssumption DEF Slip, BrainSpendAssumption
  <2> QED
    BY <2>2, <2>3
<1>4. \A s \in Scopes, j \in Kinds :
        /\ used[s][j] \in Nat /\ used'[s][j] \in Nat
        /\ spent[s][j] \in Nat /\ spent'[s][j] \in Nat
        /\ HardCap(s, j) \in Nat
  <2>1. \A s \in Scopes, j \in Kinds :
          /\ used[s][j] \in Nat /\ used'[s][j] \in Nat
          /\ spent[s][j] \in Nat /\ spent'[s][j] \in Nat
    BY DEF SpendInvariant, TypeOK, Counts
  <2>2. \A s \in Scopes, j \in Kinds : HardCap(s, j) \in Nat
    BY BrainSpendAssumption DEF BrainSpendAssumption, HardCap
  <2> QED
    BY <2>1, <2>2
<1>5. \A d \in Dens, j \in Kinds :
        d \in Scopes /\ unpaid[d][j] \in Nat /\ unpaid'[d][j] \in Nat /\ FreeDen[j] \in Nat
  BY BrainSpendAssumption DEF SpendInvariant, TypeOK, Counts, Scopes, BrainSpendAssumption
<1>6. ticks.tools \in Nat /\ ticks'.tools \in Nat
  BY DEF SpendInvariant, TypeOK
<1>7. call' = g
  OBVIOUS
<1> HIDE DEF f, g
<1>8. \A s \in Scopes, j \in Kinds : BilledBound(s, j)' /\ CapBound(s, j)'
  <2> SUFFICES ASSUME NEW s \in Scopes, NEW j \in Kinds
               PROVE  BilledBound(s, j)' /\ CapBound(s, j)'
    OBVIOUS
  <2> DEFINE D == Dues(f, s, j)
             D2 == Dues(g, s, j)
             H == Hards(f, s, j)
             H2 == Hards(g, s, j)
  <2>0. r \in Req /\ InOrder(r)
    BY <1>1, <1>2
  <2>1. /\ D \in [Slots -> 0 .. MaxCalls] /\ D2 \in [Slots -> 0 .. MaxCalls]
        /\ H \in [Slots -> 0 .. MaxCalls] /\ H2 \in [Slots -> 0 .. MaxCalls]
    <3>1. \A h \in Req : InOrder(h) => DueOf(h, s, j) \in 0 .. MaxCalls
                                       /\ HardOf(h, s, j) \in 0 .. MaxCalls
      <4> SUFFICES ASSUME NEW h \in Req, InOrder(h)
                   PROVE  DueOf(h, s, j) \in 0 .. MaxCalls /\ HardOf(h, s, j) \in 0 .. MaxCalls
        OBVIOUS
      <4>1. h.den \in Dens
        BY DEF Req
      <4>2. DueOf(h, s, j) \in 0 .. MaxCalls /\ HardOf(h, s, j) \in {0, MaxCalls}
        BY Weights, <4>1
      <4> QED
        BY <4>2, <1>3
    <3> QED
      BY <3>1, <1>1, <1>2 DEF Dues, Hards
  <2>2. /\ D[c] = DueOf(r, s, j) /\ D2[c] = DueOf(q, s, j)
        /\ H[c] = HardOf(r, s, j) /\ H2[c] = HardOf(q, s, j)
        /\ \A x \in Slots \ {c} : D2[x] = D[x] /\ H2[x] = H[x]
    BY <1>1 DEF Dues, Hards
  <2>3. DueOf(r, s, j) = 0 => \A x \in Slots : D[x] = 0 \/ H2[x] = 0
    <3> SUFFICES ASSUME DueOf(r, s, j) = 0, NEW x \in Slots
                 PROVE  D[x] = 0 \/ H2[x] = 0
      OBVIOUS
    <3>1. f[x] \in Req /\ InOrder(f[x]) /\ f[x].den \in Dens
      BY <1>1, <1>2 DEF Req
    <3>2. DueOf(f[x], s, j) = 0 \/ HardOf(f[x], s, j) = 0
      BY Weights, <3>1
    <3> QED
      BY <3>2, <2>2 DEF Dues, Hards
  <2>4. /\ BilledStep(r, q, s, j) /\ CapStep(r, q, s, j)
        /\ spent[s][j] <= used[s][j] + Sum(D, MaxCalls) + Lost(lost)
        /\ spent[s][j] + Sum(H, MaxCalls) <= HardCap(s, j) - 1 + Room(MaxCalls) + Lost(lost)
    BY DEF SpendInvariant, BilledBound, CapBound, f
  <2> HIDE DEF D, D2, H, H2
  <2>5. /\ Sum(D, MaxCalls) \in Nat /\ Sum(D2, MaxCalls) \in Nat
        /\ Sum(H, MaxCalls) \in Nat /\ Sum(H2, MaxCalls) \in Nat
        /\ Room(MaxCalls) \in Nat
    BY <2>1, <1>3, SumTypes
  <2>6. /\ Sum(D2, MaxCalls) + D[c] = Sum(D, MaxCalls) + D2[c]
        /\ Sum(H2, MaxCalls) + H[c] = Sum(H, MaxCalls) + H2[c]
    BY SMTT(30), <2>1, <2>2, <1>3, SumStep
  <2>7. DueOf(r, s, j) = 0 => Sum(D, MaxCalls) + Sum(H2, MaxCalls) <= Room(MaxCalls)
    BY <2>1, <2>3, <1>3, SumApart
  <2>8. /\ D[c] \in Nat /\ D2[c] \in Nat /\ H[c] \in Nat /\ H2[c] \in Nat
        /\ used[s][j] \in Nat /\ used'[s][j] \in Nat
        /\ spent[s][j] \in Nat /\ spent'[s][j] \in Nat /\ HardCap(s, j) \in Nat
    BY <2>1, <1>3, <1>4
  <2>9. /\ BilledBound(s, j)' <=>
             spent'[s][j] <= used'[s][j] + Sum(D2, MaxCalls) + Lost(lost')
        /\ CapBound(s, j)' <=>
             spent'[s][j] + Sum(H2, MaxCalls) <=
               HardCap(s, j) - 1 + Room(MaxCalls) + Lost(lost')
    BY <1>7 DEF BilledBound, CapBound, D2, H2
  <2>10. BilledBound(s, j)'
    BY <2>2, <2>4, <2>5, <2>6, <2>8, <2>9, <1>3 DEF BilledStep
  <2>11. CapBound(s, j)'
    BY <2>2, <2>4, <2>5, <2>6, <2>7, <2>8, <2>9, <1>3 DEF CapStep
  <2> QED
    BY <2>10, <2>11
<1>9. \A d \in Dens, j \in Kinds : FreeBound(d, j)'
  <2> SUFFICES ASSUME NEW d \in Dens, NEW j \in Kinds
               PROVE  FreeBound(d, j)'
    OBVIOUS
  <2> DEFINE D == Dues(f, d, j)
             F == Frees(f, d, j)
             F2 == Frees(g, d, j)
  <2>0. r \in Req /\ InOrder(r) /\ d \in Scopes
    BY <1>1, <1>2, <1>5
  <2>1. /\ D \in [Slots -> 0 .. MaxCalls]
        /\ F \in [Slots -> 0 .. MaxCalls] /\ F2 \in [Slots -> 0 .. MaxCalls]
    <3>1. \A h \in Req : InOrder(h) => DueOf(h, d, j) \in 0 .. MaxCalls
                                       /\ FreeOf(h, d, j) \in 0 .. MaxCalls
      <4> SUFFICES ASSUME NEW h \in Req, InOrder(h)
                   PROVE  DueOf(h, d, j) \in 0 .. MaxCalls /\ FreeOf(h, d, j) \in 0 .. MaxCalls
        OBVIOUS
      <4>1. DueOf(h, d, j) \in 0 .. MaxCalls /\ FreeOf(h, d, j) \in {0, MaxCalls}
        BY Weights, <2>0
      <4> QED
        BY <4>1, <1>3
    <3> QED
      BY <3>1, <1>1, <1>2 DEF Dues, Frees
  <2>2. /\ D[c] = DueOf(r, d, j)
        /\ F[c] = FreeOf(r, d, j) /\ F2[c] = FreeOf(q, d, j)
        /\ \A x \in Slots \ {c} : F2[x] = F[x]
    BY <1>1 DEF Dues, Frees
  <2>3. DueOf(r, d, j) = 0 => \A x \in Slots : D[x] = 0 \/ F2[x] = 0
    <3> SUFFICES ASSUME DueOf(r, d, j) = 0, NEW x \in Slots
                 PROVE  D[x] = 0 \/ F2[x] = 0
      OBVIOUS
    <3>1. DueOf(f[x], d, j) = 0 \/ FreeOf(f[x], d, j) = 0
      BY Weights, <1>1, <1>2, <2>0
    <3> QED
      BY <3>1, <2>2 DEF Dues, Frees
  <2>4. /\ FreeStep(r, q, d, j)
        /\ spent[d][j] <= used[d][j] + Sum(D, MaxCalls) + Lost(lost)
        /\ unpaid[d][j] <= spent[d][j]
    BY <2>0 DEF SpendInvariant, BilledBound, FreeBound, f
  <2>5. IF FreeDen[j] = 0
        THEN unpaid[d][j] = 0 /\ \A x \in Slots : FreeOf(f[x], d, j) = 0
        ELSE unpaid[d][j] + Sum(F, MaxCalls) <=
               FreeDen[j] - 1 + Room(MaxCalls) + Lost(lost)
    BY <2>0 DEF SpendInvariant, FreeBound, f
  <2> HIDE DEF D, F, F2
  <2>6. /\ Sum(D, MaxCalls) \in Nat /\ Sum(F, MaxCalls) \in Nat /\ Sum(F2, MaxCalls) \in Nat
        /\ Room(MaxCalls) \in Nat
    BY <2>1, <1>3, SumTypes
  <2>7. Sum(F2, MaxCalls) + F[c] = Sum(F, MaxCalls) + F2[c]
    BY <2>1, <2>2, <1>3, SumStep
  <2>8. DueOf(r, d, j) = 0 => Sum(D, MaxCalls) + Sum(F2, MaxCalls) <= Room(MaxCalls)
    BY <2>1, <2>3, <1>3, SumApart
  <2>9. /\ D[c] \in Nat /\ F[c] \in Nat /\ F2[c] \in Nat
        /\ used[d][j] \in Nat /\ spent[d][j] \in Nat /\ spent'[d][j] \in Nat
        /\ unpaid[d][j] \in Nat /\ unpaid'[d][j] \in Nat /\ FreeDen[j] \in Nat
    BY <2>0, <2>1, <1>3, <1>4, <1>5
  <2>10. (unpaid[d][j] <= spent[d][j])'
    BY <2>4, <2>9 DEF FreeStep
  <2>11. ASSUME FreeDen[j] = 0
         PROVE  unpaid'[d][j] = 0 /\ \A x \in Slots : FreeOf(g[x], d, j) = 0
    BY <2>4, <2>5, <2>11, <1>1 DEF FreeStep
  <2>12. ASSUME FreeDen[j] # 0
         PROVE  unpaid'[d][j] + Sum(F2, MaxCalls) <=
                  FreeDen[j] - 1 + Room(MaxCalls) + Lost(lost')
    BY <2>2, <2>4, <2>5, <2>6, <2>7, <2>8, <2>9, <2>12, <1>3 DEF FreeStep
  <2> QED
    BY <2>10, <2>11, <2>12, <1>7 DEF FreeBound, F2
<1>10. UsdBound'
  <2> DEFINE U == Usds(f)
             U2 == Usds(g)
  <2>1. U \in [Slots -> 0 .. MaxTicks] /\ U2 \in [Slots -> 0 .. MaxTicks]
    <3>1. \A h \in Req : UsdOf(h) \in 0 .. MaxTicks
      BY <1>3 DEF UsdOf
    <3> QED
      BY <3>1, <1>1 DEF Usds
  <2>2. /\ U[c] = UsdOf(r) /\ U2[c] = UsdOf(q)
        /\ \A x \in Slots \ {c} : U2[x] = U[x]
    BY <1>1 DEF Usds
  <2>3. ticks.tools + Sum(U, MaxTicks) <= DailyUsd - 1 + Room(MaxTicks) /\ UsdStep(r, q)
    BY DEF SpendInvariant, UsdBound, f
  <2>4. UsdBound' <=> ticks'.tools + Sum(U2, MaxTicks) <= DailyUsd - 1 + Room(MaxTicks)
    BY <1>7 DEF UsdBound
  <2> HIDE DEF U, U2
  <2>5. /\ Sum(U, MaxTicks) \in Nat /\ Sum(U2, MaxTicks) \in Nat /\ Room(MaxTicks) \in Nat
        /\ Sum(U2, MaxTicks) <= Room(MaxTicks)
    BY <2>1, <1>3, SumTypes
  <2>6. Sum(U2, MaxTicks) + U[c] = Sum(U, MaxTicks) + U2[c]
    BY <2>1, <2>2, <1>3, SumStep
  <2>7. U[c] \in Nat /\ U2[c] \in Nat
    BY <2>1, <1>3
  <2> QED
    BY <2>2, <2>3, <2>4, <2>5, <2>6, <2>7, <1>3, <1>6 DEF UsdStep
<1>11. \A x \in Slots : InOrder(call'[x]) /\ Pays(call'[x])
  BY <1>2, <1>7
<1> QED
  BY <1>8, <1>9, <1>10, <1>11 DEF SpendInvariant

-----------------------------------------------------------------------------
(* Steps that neither bill nor book.                                       *)

\* q was let through to no more than r was.
Lighter(r, q) ==
  /\ \A s \in Scopes, j \in Kinds :
       Concerns(q, s) /\ LetThrough(q, s, j) => Concerns(r, s) /\ LetThrough(r, s, j)
  /\ \A j \in Kinds : LetThroughFree(q, j) => q.den = r.den /\ LetThroughFree(r, j)
  /\ MaySpend(q) => MaySpend(r)

\* q has as much to book as r.
SameDue(r, q) ==
  \/ r.pc \notin {"store", "logDen", "logAll"}
  \/ q.den = r.den /\ q.calls = r.calls /\ \A s \in Scopes : Due(q, s) = Due(r, s)

(* Where nothing is billed or booked, a request may only grow lighter, and *)
(* forget a bill at the price of a slip.                                   *)
LEMMA LightStep ==
  ASSUME SpendInvariant, NEW c \in Slots, NEW q \in Req,
         call' = [call EXCEPT ![c] = q], InOrder(q), Pays(q),
         used' = used, ticks' = ticks, spent' = spent, unpaid' = unpaid,
         balance' \in [Users -> Nat],
         lost' = lost + 1 \/ (lost' = lost /\ SameDue(call[c], q)),
         Lighter(call[c], q)
  PROVE  SpendInvariant'
<1> DEFINE r == call[c]
<1>1. r \in Req /\ InOrder(r) /\ lost \in Nat
  BY DEF SpendInvariant, TypeOK, Req
<1>2. TypeOK'
  <2>1. call' \in [Slots -> Req]
    BY DEF SpendInvariant, TypeOK, Req
  <2>2. lost' \in Nat
    BY <1>1
  <2> QED
    BY <2>1, <2>2 DEF SpendInvariant, TypeOK, Req
<1>3. MaxCalls \in Nat \ {0} /\ MaxTicks \in Nat \ {0}
  BY LostStep, <1>1
<1>4. ASSUME NEW s \in Scopes, NEW j \in Kinds
      PROVE  BilledStep(r, q, s, j) /\ CapStep(r, q, s, j)
  <2>1. /\ DueOf(r, s, j) \in 0 .. MaxCalls /\ DueOf(q, s, j) \in 0 .. MaxCalls
        /\ HardOf(r, s, j) \in 0 .. MaxCalls /\ HardOf(q, s, j) \in 0 .. MaxCalls
    <3>1. r.den \in Dens
      BY <1>1 DEF Req
    <3>2. /\ DueOf(r, s, j) \in 0 .. MaxCalls /\ DueOf(q, s, j) \in 0 .. MaxCalls
          /\ HardOf(r, s, j) \in {0, MaxCalls} /\ HardOf(q, s, j) \in {0, MaxCalls}
      BY <1>1, <3>1, Weights
    <3> QED
      BY <3>2, <1>3
  <2>2. HardOf(q, s, j) <= HardOf(r, s, j)
    BY <1>3 DEF Lighter, HardOf
  <2>3. lost' = lost + 1 \/ DueOf(r, s, j) <= DueOf(q, s, j)
    <3>1. ASSUME r.pc \notin {"store", "logDen", "logAll"}
          PROVE  DueOf(r, s, j) = 0
      BY <3>1 DEF DueOf, Due
    <3>2. ASSUME q.den = r.den, q.calls = r.calls, Due(q, s) = Due(r, s)
          PROVE  DueOf(r, s, j) = DueOf(q, s, j)
      BY <3>2 DEF DueOf, Concerns
    <3> QED
      BY <3>1, <3>2, <2>1 DEF SameDue
  <2>4. spent[s][j] \in Nat /\ used[s][j] \in Nat
    BY DEF SpendInvariant, TypeOK, Counts
  <2>5. IF lost' = lost THEN Slip = 0 ELSE Slip = MaxCalls
    BY DEF Slip
  <2> QED
    BY <1>1, <1>3, <2>1, <2>2, <2>3, <2>4, <2>5 DEF BilledStep, CapStep
<1>5. ASSUME NEW d \in Dens, NEW j \in Kinds
      PROVE  FreeStep(r, q, d, j)
  <2>1. FreeOf(r, d, j) \in {0, MaxCalls} /\ FreeOf(q, d, j) \in {0, MaxCalls}
    BY DEF FreeOf
  <2>2. FreeOf(q, d, j) <= FreeOf(r, d, j)
    BY <1>3 DEF Lighter, FreeOf
  <2>3. /\ d \in Scopes /\ unpaid[d][j] \in Nat /\ spent[d][j] \in Nat
        /\ FreeDen[j] = 0 => unpaid[d][j] = 0 /\ FreeOf(r, d, j) = 0
    <3>1. d \in Scopes
      BY DEF Scopes
    <3>2. unpaid[d][j] \in Nat /\ spent[d][j] \in Nat
      BY <3>1 DEF SpendInvariant, TypeOK, Counts
    <3>3. FreeDen[j] = 0 => unpaid[d][j] = 0 /\ FreeOf(r, d, j) = 0
      BY DEF SpendInvariant, FreeBound
    <3> QED
      BY <3>1, <3>2, <3>3
  <2>4. Slip \in {0, MaxCalls}
    BY DEF Slip
  <2> QED
    BY <1>3, <2>1, <2>2, <2>3, <2>4 DEF FreeStep
<1>6. UsdStep(r, q)
  <2>1. UsdOf(q) <= UsdOf(r) /\ UsdOf(q) \in Nat /\ UsdOf(r) \in Nat
    BY <1>3 DEF Lighter, UsdOf
  <2>2. ticks.tools \in Nat
    BY DEF SpendInvariant, TypeOK
  <2> QED
    BY <2>1, <2>2 DEF UsdStep
<1>7. lost' \in {lost, lost + 1}
  OBVIOUS
<1> QED
  BY <1>2, <1>4, <1>5, <1>6, <1>7, StepKeepsBounds

\* A request that may not cost anything any more.
Resting == Free \cup {"settle", "post"}

LEMMA RestingIsLight ==
  ASSUME NEW r, NEW q, q.pc \in Resting
  PROVE  Lighter(r, q)
<1> QED
  BY DEF Resting, Free, SayUncharged, Lighter, LetThrough, LetThroughFree, MaySpend, AsksFor, Asking

(* A slot that is free again.                                              *)
LEMMA RequestFacts ==
  ASSUME NEW u \in Users, NEW d \in Dens, NEW i \in BOOLEAN
  PROVE  /\ Request(u, d, i) \in Req
         /\ InOrder(Request(u, d, i)) /\ Pays(Request(u, d, i))
         /\ Request(u, d, i).pc = "idle"
<1> DEFINE q == Request(u, d, i)
<1>1. q \in Req
  <2>1. /\ [k \in Kinds |-> 0] \in Counts
        /\ NothingSeen \in [out : SUBSET Reads, hard : BOOLEAN, empty : BOOLEAN]
    BY DEF Counts, NothingSeen
  <2>2. << >> \in Seq(Kinds \cup {"chat"})
    OBVIOUS
  <2> HIDE DEF Counts
  <2> QED
    BY <2>1, <2>2 DEF Request, Req, Free
<1>2. /\ q.pc = "idle" /\ q.burned = 0 /\ q.charged = 0 /\ q.kind = "chat"
      /\ q.rag = FALSE /\ q.ticks = 0
      /\ \A k \in Kinds : q.calls[k] = 0
  BY DEF Request
<1> HIDE DEF q
<1>3. "idle" \notin Working
  BY DEF Working
<1>4. MaxTicks \in Nat /\ MaxCalls \in Nat
  BY BrainSpendAssumption DEF BrainSpendAssumption
<1>5. InOrder(q)
  BY <1>2, <1>3, <1>4 DEF InOrder, Asking
<1>6. Pays(q)
  BY <1>2, <1>3 DEF Pays
<1> QED
  BY <1>1, <1>2, <1>5, <1>6 DEF q

-----------------------------------------------------------------------------
(* The pre-flight.                                                         *)

\* A request that has read, burned and been charged nothing.
Untouched(r) ==
  /\ r \in Req /\ InOrder(r)
  /\ ~r.search /\ r.seen = NothingSeen /\ r.burned = 0 /\ r.charged = 0

(* A look into the ledger keeps what the document search was let through   *)
(* to, and nothing else.                                                   *)
LEMMA PreflightFacts ==
  ASSUME NEW r, Untouched(r), NEW k \in Kinds,
         r.rag => k = "search", r.imagine <=> k = "image"
  PROVE  /\ Preflight(r, k) \in Req /\ InOrder(Preflight(r, k)) /\ Pays(Preflight(r, k))
         /\ Preflight(r, k).den = r.den
         /\ \A s, j : LetThrough(Preflight(r, k), s, j) => r.rag /\ j = "rag"
         /\ \A j : LetThroughFree(Preflight(r, k), j) => r.rag /\ j = "rag"
         /\ MaySpend(Preflight(r, k)) => r.rag
<1> DEFINE q == Preflight(r, k)
<1>1. r \in Req
  BY DEF Untouched
<1>2. q \in Req
  BY <1>1 DEF Req, Preflight, Working
<1>3. /\ q.pc = "reading" /\ q.kind = k /\ q.den = r.den /\ q.imagine = r.imagine
      /\ q.rag = r.rag /\ q.search = r.search /\ q.seen = r.seen
      /\ q.burned = r.burned /\ q.charged = r.charged
      /\ q.ticks = r.ticks /\ q.calls = r.calls
  BY <1>1 DEF Req, Preflight
<1>4. /\ ~r.search /\ r.seen.out = Reads /\ r.burned = 0 /\ r.charged = 0
      /\ r.rag \in BOOLEAN /\ r.imagine \in BOOLEAN
      /\ r.ticks <= MaxTicks /\ \A j \in Kinds : r.calls[j] <= MaxCalls
  BY <1>1 DEF Untouched, InOrder, NothingSeen, Req
<1> HIDE DEF q
<1>5. InOrder(q)
  BY <1>3, <1>4 DEF InOrder, Asking, Kinds, Working
<1>6. Pays(q)
  BY <1>3, <1>4 DEF Pays
<1>7. ASSUME NEW s PROVE ReadOf(s) \in Reads
  BY DEF ReadOf, Reads
<1>8. \A s, j : LetThrough(q, s, j) => r.rag /\ j = "rag"
  BY <1>3, <1>4, <1>7 DEF LetThrough, AsksFor, Asking
<1>9. \A j : LetThroughFree(q, j) => r.rag /\ j = "rag"
  BY <1>3, <1>4 DEF LetThroughFree, AsksFor, Asking, Reads
<1>10. MaySpend(q) => r.rag
  BY <1>3, <1>4 DEF MaySpend, Asking, Reads
<1> QED
  BY <1>2, <1>3, <1>5, <1>6, <1>8, <1>9, <1>10 DEF q

(* A reply without tools costs nothing that the caps of the tools count.   *)
LEMMA ToolsOffFacts ==
  ASSUME NEW r \in Req, InOrder(r), ~r.rag, ~r.search, ~r.imagine,
         r.burned = 0, NEW n \in {r.charged, Floor["search"]}, r.charged \in {0, Floor["search"]},
         NEW q \in {ToolsOff(r), [ToolsOff(r) EXCEPT !.charged = n]}
  PROVE  /\ q \in Req /\ InOrder(q) /\ Pays(q)
         /\ \A s \in Scopes, j \in Kinds : ~LetThrough(q, s, j)
         /\ \A j \in Kinds : ~LetThroughFree(q, j)
         /\ ~MaySpend(q)
<1>1. Floor["search"] \in Nat /\ n \in Nat
  <2>1. Floor \in [Kinds -> Nat] /\ "search" \in Kinds
    BY BrainSpendAssumption DEF BrainSpendAssumption, Kinds
  <2>2. r.charged \in Nat
    BY DEF Req
  <2> QED
    BY <2>1, <2>2
<1>2. q \in Req
  <2>1. ToolsOff(r) \in Req
    BY DEF Req, ToolsOff, Working
  <2>2. [ToolsOff(r) EXCEPT !.charged = n] \in Req
    BY <1>1, <2>1 DEF Req
  <2> QED
    BY <2>1, <2>2
<1>3. /\ q.pc = "upstream" /\ q.kind = "chat" /\ q.den = r.den /\ q.imagine = r.imagine
      /\ q.rag = r.rag /\ q.search = r.search
      /\ q.burned = r.burned /\ q.charged \in {r.charged, n}
      /\ q.ticks = r.ticks /\ q.calls = r.calls
  BY ZenonT(60) DEF Req, ToolsOff
<1>4. r.ticks <= MaxTicks /\ \A j \in Kinds : r.calls[j] <= MaxCalls
  BY DEF InOrder
<1>5. InOrder(q)
  BY <1>3, <1>4 DEF InOrder
<1>6. Pays(q)
  BY <1>3, <1>4 DEF Pays, Surface
<1>7. \A s \in Scopes, j \in Kinds : ~LetThrough(q, s, j)
  BY <1>3 DEF LetThrough, AsksFor, Kinds
<1>8. \A j \in Kinds : ~LetThroughFree(q, j)
  BY <1>3 DEF LetThroughFree, AsksFor, Kinds
<1>9. ~MaySpend(q)
  BY <1>3 DEF MaySpend
<1> QED
  BY <1>2, <1>5, <1>6, <1>7, <1>8, <1>9

(* A reply that sets out, with the searches its den has or with none, has  *)
(* been let through to nothing yet.                                        *)
LEMMA GenerateFacts ==
  ASSUME NEW r, Untouched(r), ~r.rag, ~r.imagine, NEW x,
         NEW q \in {SearchOrChat(r), Generate(r)}
  PROVE  q \in Req /\ InOrder(q) /\ Pays(q) /\ Lighter(x, q)
<1>1. r \in Req /\ InOrder(r) /\ r.charged \in {0, Floor["search"]}
  BY DEF Untouched
<1>2. q \in {Preflight(r, "search"), Preflight(r, "rag"), ToolsOff(r)}
  BY DEF Generate, SearchOrChat
<1>3. CASE q \in {Preflight(r, "search"), Preflight(r, "rag")}
  <2>1. PICK k \in {"search", "rag"} : q = Preflight(r, k)
    BY <1>3
  <2>2. k \in Kinds /\ k # "image"
    BY DEF Kinds
  <2> QED
    BY <2>1, <2>2, PreflightFacts DEF Lighter
<1>4. CASE q = ToolsOff(r)
  BY <1>1, <1>4, ToolsOffFacts DEF Lighter, Untouched
<1> QED
  BY <1>2, <1>3, <1>4

LEMMA BeginFacts ==
  ASSUME NEW u \in Users, NEW d \in Dens, NEW i \in BOOLEAN, NEW x
  PROVE  LET q == IF i THEN Preflight(Request(u, d, i), "image") ELSE Generate(Request(u, d, i))
         IN  q \in Req /\ InOrder(q) /\ Pays(q) /\ Lighter(x, q)
<1> DEFINE r == Request(u, d, i)
           q == IF i THEN Preflight(r, "image") ELSE Generate(r)
<1>1. Untouched(r) /\ ~r.rag /\ r.imagine = i
  BY RequestFacts DEF Untouched, Request
<1> HIDE DEF r
<1>2. q \in Req /\ InOrder(q) /\ Pays(q) /\ Lighter(x, q)
  <2>1. CASE i = TRUE
    <3>1. q = Preflight(r, "image") /\ "image" \in Kinds /\ (r.rag => "image" = "search")
      BY <1>1, <2>1 DEF Kinds
    <3>2. r.imagine <=> "image" = "image"
      BY <1>1, <2>1
    <3> HIDE DEF q
    <3>3. q \in Req /\ InOrder(q) /\ Pays(q)
      BY <1>1, <3>1, <3>2, PreflightFacts
    <3>4. Lighter(x, q)
      BY <1>1, <3>1, <3>2, PreflightFacts DEF Lighter
    <3> QED
      BY <3>3, <3>4
  <2>2. CASE i = FALSE
    <3>1. q = Generate(r) /\ ~r.imagine
      BY <1>1, <2>2
    <3> QED
      BY <1>1, <3>1, GenerateFacts
  <2> QED
    BY <2>1, <2>2
<1> QED
  BY <1>2 DEF r

(* An answer that says nothing was charged leaves no request behind.       *)
LEMMA UnchargedFacts ==
  ASSUME NEW r \in Req, NEW pc \in SayUncharged, NEW n \in Nat,
         NEW q \in {Uncharged(r, pc), [Uncharged(r, pc) EXCEPT !.charged = n]}
  PROVE  q \in Req /\ InOrder(q) /\ Pays(q) /\ q.pc \in Free
<1> DEFINE p == Request(r.user, r.den, FALSE)
<1>1. p \in Req /\ InOrder(p) /\ Pays(p) /\ r.charged \in Nat
  BY RequestFacts DEF Req
<1>2. p.burned = 0 /\ p.kind = "chat" /\ p.rag = FALSE
  BY DEF Request
<1> HIDE DEF p
<1>3. q \in Req
  <2>1. Uncharged(r, pc) \in Req
    BY <1>1 DEF Uncharged, Done, Req, Free, p
  <2>2. [Uncharged(r, pc) EXCEPT !.charged = n] \in Req
    BY <2>1 DEF Req
  <2> QED
    BY <2>1, <2>2
<1>4. /\ q.pc = pc /\ q.burned = p.burned /\ q.kind = p.kind /\ q.rag = p.rag
      /\ q.ticks = p.ticks /\ q.calls = p.calls
  BY <1>1 DEF Uncharged, Done, Req, p
<1>5. pc \notin Working /\ pc \in Free
  BY DEF SayUncharged, Working, Free
<1>6. InOrder(q)
  BY <1>1, <1>2, <1>4, <1>5 DEF InOrder, Asking, Working
<1>7. Pays(q)
  BY <1>2, <1>4, <1>5 DEF Pays, Working
<1> QED
  BY <1>3, <1>4, <1>5, <1>6, <1>7

(* A refused surface is let through to nothing, and the document search it *)
(* stands beside stays.                                                    *)
LEMMA RefusedFacts ==
  ASSUME NEW r \in Req, InOrder(r), Pays(r), r.pc \in {"reading", "debit"}
  PROVE  Refused(r) \in Req /\ InOrder(Refused(r)) /\ Pays(Refused(r)) /\ Lighter(r, Refused(r))
<1> DEFINE fresh == [r EXCEPT !.seen = NothingSeen]
           q == Refused(r)
<1>1. fresh \in Req
  BY DEF Req, NothingSeen
<1>2. /\ fresh.pc = r.pc /\ fresh.kind = r.kind /\ fresh.den = r.den
      /\ fresh.imagine = r.imagine /\ fresh.rag = r.rag /\ fresh.search = r.search
      /\ fresh.burned = r.burned /\ fresh.charged = r.charged /\ fresh.seen = NothingSeen
      /\ fresh.ticks = r.ticks /\ fresh.calls = r.calls /\ fresh.book = r.book
  BY DEF Req
<1>3. /\ r.pc \in Working \ {"post"} /\ r.kind \in Kinds /\ ~r.search
      /\ r.burned = 0 /\ r.charged = 0 /\ (r.pc = "reading" /\ r.rag => r.kind = "search")
      /\ (r.imagine <=> r.kind = "image") /\ (r.pc = "debit" => ~r.rag)
      /\ r.ticks <= MaxTicks /\ \A j \in Kinds : r.calls[j] <= MaxCalls
  BY DEF InOrder, Pays, Req, MayBurn, Working
<1> HIDE DEF fresh
<1>4. InOrder(fresh)
  BY <1>1, <1>2 DEF InOrder, Asking, MayBurn
<1>5. CASE r.imagine
  <2>1. q = Uncharged(r, "imagine_capped") /\ "imagine_capped" \in SayUncharged
    BY <1>5 DEF Refused, SayUncharged
  <2>2. 0 \in Nat
    OBVIOUS
  <2>3. q \in Req /\ InOrder(q) /\ Pays(q) /\ q.pc \in Free
    BY <2>1, <2>2, UnchargedFacts
  <2> QED
    BY <2>3, RestingIsLight DEF Resting
<1>6. CASE ~r.imagine /\ r.kind = "rag"
  <2>1. q = SearchOrChat(fresh)
    BY <1>6 DEF Refused, fresh
  <2>2. Untouched(fresh) /\ ~fresh.rag /\ ~fresh.imagine
    BY <1>1, <1>2, <1>3, <1>4, <1>6 DEF Untouched
  <2> QED
    BY <2>1, <2>2, GenerateFacts
<1>7. CASE ~r.imagine /\ r.kind # "rag" /\ r.rag
  <2>1. q = [fresh EXCEPT !.pc = "upstream", !.kind = "rag"]
    BY <1>7 DEF Refused, fresh
  <2>2. q \in Req
    BY <1>1, <2>1 DEF Req, Working, Kinds
  <2>3. /\ q.pc = "upstream" /\ q.kind = "rag" /\ q.den = r.den /\ q.imagine = r.imagine
        /\ q.rag = r.rag /\ q.search = r.search
        /\ q.burned = r.burned /\ q.charged = r.charged
        /\ q.ticks = r.ticks /\ q.calls = r.calls
    BY <1>1, <1>2, <2>1 DEF Req
  <2> HIDE DEF q
  <2>4. InOrder(q)
    BY <1>3, <1>7, <2>3 DEF InOrder, Asking
  <2>5. Pays(q)
    BY <1>3, <2>3 DEF Pays
  <2>6. Lighter(r, q)
    BY <1>3, <1>7, <2>3
       DEF Lighter, Concerns, LetThrough, LetThroughFree, MaySpend, AsksFor, Asking
  <2> QED
    BY <2>2, <2>4, <2>5, <2>6 DEF q
<1>8. CASE ~r.imagine /\ r.kind # "rag" /\ ~r.rag
  <2>1. q = ToolsOff(fresh)
    BY <1>8 DEF Refused, fresh
  <2> QED
    BY <1>1, <1>2, <1>3, <1>4, <1>8, <2>1, ToolsOffFacts DEF Lighter
<1> QED
  BY <1>5, <1>6, <1>7, <1>8

(* A debit that was taken and then thrown is a refusal that was charged.   *)
LEMMA RefusedChargedFacts ==
  ASSUME NEW r \in Req, InOrder(r), Pays(r), r.pc = "debit"
  PROVE  LET q == [Refused(r) EXCEPT !.charged = Floor[r.kind]]
         IN  q \in Req /\ InOrder(q) /\ Pays(q) /\ Lighter(r, q)
<1> DEFINE fresh == [r EXCEPT !.seen = NothingSeen]
           q == [Refused(r) EXCEPT !.charged = Floor[r.kind]]
<1>1. fresh \in Req
  BY DEF Req, NothingSeen
<1>2. /\ fresh.pc = r.pc /\ fresh.kind = r.kind /\ fresh.den = r.den
      /\ fresh.imagine = r.imagine /\ fresh.rag = r.rag /\ fresh.search = r.search
      /\ fresh.burned = r.burned /\ fresh.charged = r.charged /\ fresh.seen = NothingSeen
      /\ fresh.ticks = r.ticks /\ fresh.calls = r.calls /\ fresh.book = r.book
  BY DEF Req
<1>3. /\ r.kind \in Kinds /\ ~r.search /\ r.burned = 0 /\ r.charged = 0 /\ ~r.rag
      /\ (r.imagine <=> r.kind = "image") /\ r.kind # "rag"
      /\ r.ticks <= MaxTicks /\ \A j \in Kinds : r.calls[j] <= MaxCalls
  <2>1. Floor["rag"] = 0
    BY BrainSpendAssumption DEF BrainSpendAssumption
  <2>2. MayBurn(r) /\ r.kind # "rag"
    BY <2>1 DEF InOrder, MayBurn
  <2> QED
    BY <2>2 DEF InOrder, Pays, Req, MayBurn, Working
<1>4. Floor[r.kind] \in Nat
  BY <1>3, BrainSpendAssumption DEF BrainSpendAssumption
<1> HIDE DEF fresh
<1>5. InOrder(fresh)
  BY <1>1, <1>2 DEF InOrder, Asking, MayBurn
<1>6. CASE r.imagine
  <2>1. /\ q = [Uncharged(r, "imagine_capped") EXCEPT !.charged = Floor[r.kind]]
        /\ "imagine_capped" \in SayUncharged
    BY <1>6 DEF Refused, SayUncharged
  <2>2. q \in Req /\ InOrder(q) /\ Pays(q) /\ q.pc \in Free
    BY <2>1, <1>4, UnchargedFacts
  <2> QED
    BY <2>2, RestingIsLight DEF Resting
<1>7. CASE ~r.imagine
  <2>1. q = [ToolsOff(fresh) EXCEPT !.charged = Floor["search"]]
    BY <1>3, <1>7 DEF Refused, fresh, Kinds
  <2>2. q \in Req /\ InOrder(q) /\ Pays(q) /\ ~MaySpend(q)
        /\ (\A s \in Scopes, j \in Kinds : ~LetThrough(q, s, j))
        /\ \A j \in Kinds : ~LetThroughFree(q, j)
    BY <1>1, <1>2, <1>3, <1>5, <1>7, <2>1, ToolsOffFacts
  <2> QED
    BY <2>2 DEF Lighter
<1> QED
  BY <1>6, <1>7

\* What the pre-flight has found when it allows a call, and what becomes of the request.
AllowedAs(r, b, q) ==
  \/ /\ r.pc = "reading" /\ r.seen.out = {} /\ ~r.seen.hard /\ ~r.seen.empty
     /\ b = 0 /\ q = Allowed(r, 0)
  \/ r.pc = "debit" /\ b = Floor[r.kind] /\ q = [Allowed(r, b) EXCEPT !.charged = b]

(* What a pre-flight lets through is again a request.                      *)
LEMMA AllowedIsAReq ==
  ASSUME NEW r \in Req, NEW b \in Nat
  PROVE  Allowed(r, b) \in Req
<1> DEFINE fresh == [r EXCEPT !.seen = NothingSeen, !.burned = b]
           go == [fresh EXCEPT !.pc = "upstream"]
<1>1. NothingSeen \in [out : SUBSET Reads, hard : BOOLEAN, empty : BOOLEAN]
  BY DEF NothingSeen
<1>2. fresh \in Req
  <2>1. \A v \in [out : SUBSET Reads, hard : BOOLEAN, empty : BOOLEAN], n \in Nat :
          [r EXCEPT !.seen = v, !.burned = n] \in Req
    BY DEF Req
  <2> QED
    BY <1>1, <2>1
<1>3. Allowed(r, b) = IF r.kind = "image" THEN go
                      ELSE IF r.kind = "search"
                      THEN [go EXCEPT !.search = TRUE, !.kind = IF r.rag THEN "rag" ELSE "search"]
                      ELSE IF r.den \in SearchDens
                      THEN [Preflight(fresh, "search") EXCEPT !.rag = TRUE]
                      ELSE [go EXCEPT !.rag = TRUE]
  BY DEF Allowed
<1> HIDE DEF fresh
<1>4. go \in Req
  BY <1>2 DEF Req, Working
<1>5. [Preflight(fresh, "search") EXCEPT !.rag = TRUE] \in Req
  BY <1>2 DEF Preflight, Req, Working, Kinds
<1> HIDE DEF go
<1>6. [go EXCEPT !.rag = TRUE] \in Req
  BY <1>4 DEF Req
<1>7. \A k \in {"rag", "search"} : [go EXCEPT !.search = TRUE, !.kind = k] \in Req
  BY <1>4 DEF Req, Kinds
<1> QED
  BY <1>3, <1>4, <1>5, <1>6, <1>7

(* An allowed call was let through by the reads of its own pre-flight, or  *)
(* by those of the document search it stands beside.                       *)
LEMMA AllowedFacts ==
  ASSUME NEW r \in Req, InOrder(r), Pays(r), NEW b, NEW q, AllowedAs(r, b, q)
  PROVE  q \in Req /\ InOrder(q) /\ Pays(q) /\ Lighter(r, q)
<1>1. /\ r.pc \in {"reading", "debit"} /\ r.kind \in Kinds /\ ~r.search
      /\ r.burned = 0 /\ r.charged = 0 /\ (r.rag => r.kind = "search" /\ r.pc = "reading")
      /\ (r.imagine <=> r.kind = "image")
      /\ r.ticks <= MaxTicks /\ \A j \in Kinds : r.calls[j] <= MaxCalls
  BY DEF InOrder, Pays, Req, MayBurn, Working, AllowedAs
<1>2. /\ r.pc = "reading" => b = 0 /\ ~r.seen.hard /\ ~r.seen.empty /\ r.seen.out = {}
      /\ r.pc = "debit" => b = Floor[r.kind] /\ b > 0 /\ r.kind # "rag"
  <2>1. Floor["rag"] = 0
    BY BrainSpendAssumption DEF BrainSpendAssumption
  <2> QED
    BY <2>1 DEF AllowedAs, InOrder, MayBurn
<1>3. b \in Nat
  <2>1. Floor \in [Kinds -> Nat]
    BY BrainSpendAssumption DEF BrainSpendAssumption
  <2> QED
    BY <1>1, <2>1 DEF AllowedAs
<1>4. q \in Req
  <2>1. Allowed(r, b) \in Req
    BY <1>3, AllowedIsAReq
  <2>2. [Allowed(r, b) EXCEPT !.charged = b] \in Req
    BY <1>3, <2>1 DEF Req
  <2> QED
    BY <2>1, <2>2 DEF AllowedAs
<1>5. /\ q.den = r.den /\ q.imagine = r.imagine /\ q.seen = NothingSeen
      /\ q.burned = b /\ q.charged = b /\ q.ticks = r.ticks /\ q.calls = r.calls
  <2>1. /\ Allowed(r, b).den = r.den /\ Allowed(r, b).imagine = r.imagine
        /\ Allowed(r, b).seen = NothingSeen
        /\ Allowed(r, b).burned = b /\ Allowed(r, b).charged = 0
        /\ Allowed(r, b).ticks = r.ticks /\ Allowed(r, b).calls = r.calls
    BY <1>1 DEF Allowed, Preflight, Req
  <2>2. Allowed(r, b) \in Req
    BY <1>3, AllowedIsAReq
  <2> QED
    BY <2>1, <2>2 DEF AllowedAs, Req
<1>6. \/ /\ r.kind \in {"image", "search"} /\ q.pc = "upstream" /\ q.rag = r.rag
         /\ q.search = (r.kind = "search") /\ q.kind = IF r.rag THEN "rag" ELSE r.kind
      \/ /\ r.kind = "rag" /\ q.pc = "upstream" /\ q.rag = TRUE
         /\ q.search = FALSE /\ q.kind = "rag"
      \/ /\ r.kind = "rag" /\ q.pc = "reading" /\ q.rag = TRUE
         /\ q.search = FALSE /\ q.kind = "search"
  <2> DEFINE a == Allowed(r, b)
  <2>1. a \in Req
    BY <1>3, AllowedIsAReq
  <2>2. CASE r.kind = "image"
    BY ZenonT(60), <1>1, <2>1, <2>2 DEF AllowedAs, Allowed, Req
  <2>3. CASE r.kind = "search"
    <3>1. a.pc = "upstream" /\ a.rag = r.rag /\ a.search = TRUE
          /\ a.kind = IF r.rag THEN "rag" ELSE "search"
      BY <2>3 DEF Allowed, Req
    <3> HIDE DEF a
    <3> QED
      BY <2>1, <2>3, <3>1 DEF AllowedAs, Req, a
  <2>4. CASE r.kind = "rag"
    <3>1. /\ a.rag = TRUE /\ a.search = FALSE
          /\ \/ a.pc = "upstream" /\ a.kind = "rag"
             \/ a.pc = "reading" /\ a.kind = "search"
      BY <1>1, <2>4 DEF Allowed, Preflight, Req
    <3> HIDE DEF a
    <3> QED
      BY <2>1, <2>4, <3>1 DEF AllowedAs, Req, a
  <2> QED
    BY <1>1, <2>2, <2>3, <2>4 DEF Kinds
<1>7. InOrder(q)
  BY <1>1, <1>5, <1>6 DEF InOrder, Asking
<1>8. Pays(q)
  BY <1>1, <1>2, <1>5, <1>6 DEF Pays, Surface
<1>9. Lighter(r, q)
  <2>1. ASSUME NEW s \in Scopes, NEW j \in Kinds, Concerns(q, s), LetThrough(q, s, j)
        PROVE  Concerns(r, s) /\ LetThrough(r, s, j)
    <3>1. ReadOf(s) \in Reads
      BY DEF ReadOf, Reads
    <3>2. q.pc = "reading" => q.rag /\ j = "rag"
      BY <1>5, <2>1, <3>1 DEF LetThrough, AsksFor, Asking, NothingSeen
    <3>3. q.pc = "upstream" => AsksFor(q, j)
      BY <2>1 DEF LetThrough
    <3>4. j = r.kind \/ (r.rag /\ j = "rag")
      BY <1>1, <1>6, <3>2, <3>3 DEF AsksFor, Kinds
    <3> QED
      BY <1>1, <1>2, <1>5, <2>1, <3>4 DEF Concerns, LetThrough
  <2>2. ASSUME NEW j \in Kinds, LetThroughFree(q, j)
        PROVE  q.den = r.den /\ LetThroughFree(r, j)
    <3>1. q.pc = "reading" => q.rag /\ j = "rag"
      BY <1>5, <2>2 DEF LetThroughFree, AsksFor, Asking, NothingSeen, Reads
    <3>2. q.pc = "upstream" => AsksFor(q, j) /\ b = 0
      BY <1>5, <2>2 DEF LetThroughFree
    <3>3. j = r.kind \/ (r.rag /\ j = "rag")
      BY <1>1, <1>6, <3>1, <3>2 DEF AsksFor, Kinds
    <3>4. r.pc = "reading"
      BY <1>1, <1>2, <1>6, <3>2
    <3> QED
      BY <1>1, <1>2, <1>5, <3>3, <3>4 DEF LetThroughFree
  <2>3. MaySpend(q) => MaySpend(r)
    BY <1>1, <1>2, <1>5, <1>6 DEF MaySpend, Asking, NothingSeen, Reads
  <2> QED
    BY <2>1, <2>2, <2>3 DEF Lighter
<1> QED
  BY <1>4, <1>7, <1>8, <1>9

-----------------------------------------------------------------------------
(* Booking, settling, and the end of a request.                            *)

LEMMA QuoteFacts ==
  ASSUME NEW k \in Kinds, NEW t \in Nat
  PROVE  Quote(k, t) \in Nat /\ Floor[k] \in Nat /\ Floor[k] <= Quote(k, t)
<1>1. Floor \in [Kinds -> Nat] /\ CreditsPerTick \in Nat
  BY BrainSpendAssumption DEF BrainSpendAssumption
<1>2. Floor[k] \in Nat /\ CreditsPerTick * t \in Nat
  BY <1>1
<1> QED
  BY <1>2 DEF Quote, Larger

LEMMA SlotFacts ==
  ASSUME SpendInvariant, NEW c \in Slots
  PROVE  /\ call[c] \in Req /\ InOrder(call[c]) /\ Pays(call[c])
         /\ call \in [Slots -> Req] /\ balance \in [Users -> Nat] /\ lost \in Nat
<1> QED
  BY DEF SpendInvariant, TypeOK, Req

(* What lies at the head of a booking, and what after it.                  *)
LEMMA BookFacts ==
  ASSUME NEW b \in ToBook
  PROVE  /\ b \in Seq(Kinds \cup {"chat"}) /\ Head(b) \in Kinds \cup {"chat"}
         /\ Listed(b) = {Head(b)} \cup Listed(Tail(b)) /\ Head(b) \notin Listed(Tail(b))
         /\ IF b = <<"rag", "search">>
            THEN Len(b) = 2 /\ Head(b) = "rag" /\ Tail(b) = <<"search">>
                 /\ Listed(Tail(b)) = {"search"}
            ELSE Len(b) = 1 /\ b = <<Head(b)>> /\ Listed(Tail(b)) = {}
<1>1. CASE b = <<"rag", "search">>
  <2>1. /\ Len(b) = 2 /\ Head(b) = "rag" /\ Tail(b) = <<"search">>
        /\ DOMAIN b = {1, 2} /\ b[1] = "rag" /\ b[2] = "search"
    BY <1>1
  <2>2. Listed(b) = {"rag", "search"}
    BY <2>1 DEF Listed
  <2>3. Listed(<<"search">>) = {"search"}
    BY DEF Listed
  <2>4. b \in Seq(Kinds \cup {"chat"})
    BY <1>1 DEF Kinds
  <2> QED
    BY <1>1, <2>1, <2>2, <2>3, <2>4 DEF Kinds
<1>2. ASSUME NEW k \in Kinds \cup {"chat"}, b = <<k>>
      PROVE  /\ Len(b) = 1 /\ Head(b) = k /\ Listed(b) = {k} /\ Listed(Tail(b)) = {}
             /\ b \in Seq(Kinds \cup {"chat"}) /\ b # <<"rag", "search">>
  <2>1. /\ Len(b) = 1 /\ Head(b) = k /\ Tail(b) = << >> /\ DOMAIN b = {1} /\ b[1] = k
        /\ b \in Seq(Kinds \cup {"chat"})
    BY <1>2
  <2>2. Listed(b) = {k}
    BY <2>1 DEF Listed
  <2>3. Listed(<< >>) = {}
    BY DEF Listed
  <2>4. b # <<"rag", "search">>
    <3>1. Len(<<"rag", "search">>) = 2 /\ Len(b) # 2
      BY <2>1
    <3> QED
      BY <3>1, Zenon
  <2>5. Listed(Tail(b)) = {}
    BY <2>1, <2>3, Zenon
  <2> QED
    BY <2>1, <2>2, <2>4, <2>5
<1>3. b = <<"rag", "search">> \/ \E k \in Kinds \cup {"chat"} : b = <<k>>
  BY DEF ToBook, Kinds
<1> QED
  BY <1>1, <1>2, <1>3

(* A surface that is booked, or given up, leaves the ones after it.        *)
LEMMA BookedFacts ==
  ASSUME NEW r \in Req, InOrder(r), Pays(r), r.pc \in {"logDen", "logAll"}
  PROVE  /\ Booked(r) \in Req /\ InOrder(Booked(r)) /\ Pays(Booked(r))
         /\ Lighter(r, Booked(r)) /\ ~MaySpend(Booked(r)) /\ Booked(r).den = r.den
         /\ \A s \in Scopes : Due(Booked(r), s) = Listed(Tail(r.book))
         /\ Listed(Tail(r.book)) # {} => Booked(r).calls = r.calls
<1> DEFINE q == Booked(r)
           t == Request(r.user, r.den, r.imagine)
<1>1. r.book \in ToBook /\ (r.book = <<"rag", "search">> => r.rag)
  BY DEF InOrder
<1>2. /\ r.pc \in Working \ {"post"}
      /\ r.ticks <= MaxTicks /\ \A j \in Kinds : r.calls[j] <= MaxCalls
  BY DEF Working, InOrder
<1>3. CASE r.book = <<"rag", "search">>
  <2>1. q = [r EXCEPT !.book = <<"search">>, !.pc = "logDen"]
    BY <1>1, <1>3, BookFacts DEF Booked
  <2>2. <<"search">> \in Seq(Kinds \cup {"chat"}) /\ Listed(<<"search">>) = {"search"}
        /\ Head(<<"search">>) = "search"
    BY DEF Kinds, Listed
  <2>3. q \in Req
    BY <2>1, <2>2 DEF Req, Working
  <2>4. /\ q.pc = "logDen" /\ q.kind = r.kind /\ q.den = r.den /\ q.imagine = r.imagine
        /\ q.rag = r.rag /\ q.search = r.search /\ q.book = <<"search">>
        /\ q.burned = r.burned /\ q.charged = r.charged
        /\ q.ticks = r.ticks /\ q.calls = r.calls
    BY <2>1 DEF Req
  <2> HIDE DEF q
  <2>5. InOrder(q)
    <3>1. <<"search">> \in ToBook
      BY DEF ToBook
    <3> QED
      BY <1>1, <1>2, <1>3, <2>4, <3>1 DEF InOrder, Asking, Working
  <2>6. Pays(q)
    BY <1>2, <2>4 DEF Pays, Surface, Working
  <2>7. ~MaySpend(q)
    BY <1>1, <1>3, <2>2, <2>4 DEF MaySpend, Asking
  <2>8. Lighter(r, q)
    BY <2>4, <2>7 DEF Lighter, LetThrough, LetThroughFree, AsksFor, Asking
  <2>9. \A s \in Scopes : Due(q, s) = Listed(Tail(r.book))
    BY <1>1, <1>3, <2>4, BookFacts DEF Due
  <2> QED
    BY <2>3, <2>4, <2>5, <2>6, <2>7, <2>8, <2>9 DEF q
<1>4. CASE r.book # <<"rag", "search">>
  <2>1. Len(r.book) = 1 /\ Listed(Tail(r.book)) = {}
    BY <1>1, <1>4, BookFacts
  <2>2. q \in Req /\ InOrder(q) /\ Pays(q) /\ q.den = r.den /\ q.pc \in {"settle", "post"}
    <3>1. CASE r.burned > 0
      <4>1. q = [r EXCEPT !.book = << >>, !.calls = Only(r.kind, 0), !.pc = "settle"]
        BY <2>1, <3>1 DEF Booked
      <4>2. Only(r.kind, 0) \in Counts /\ \A j \in Kinds : Only(r.kind, 0)[j] = 0
        BY DEF Only, Counts
      <4>3. << >> \in Seq(Kinds \cup {"chat"}) /\ MaxCalls \in Nat
        BY BrainSpendAssumption DEF BrainSpendAssumption
      <4>4. q \in Req
        BY <4>1, <4>2, <4>3 DEF Req, Working
      <4>5. /\ q.pc = "settle" /\ q.kind = r.kind /\ q.den = r.den /\ q.imagine = r.imagine
            /\ q.rag = r.rag /\ q.search = r.search
            /\ q.burned = r.burned /\ q.charged = r.charged
            /\ q.ticks = r.ticks /\ q.calls = Only(r.kind, 0)
        BY <4>1 DEF Req
      <4> HIDE DEF q
      <4>6. InOrder(q)
        BY <1>2, <4>2, <4>3, <4>5 DEF InOrder, Asking, Working
      <4>7. Pays(q)
        BY <1>2, <3>1, <4>5 DEF Pays, Surface, Working
      <4> QED
        BY <4>4, <4>5, <4>6, <4>7
    <3>2. CASE ~(r.burned > 0)
      <4>1. q = [t EXCEPT !.pc = "post"]
        BY <2>1, <3>2 DEF Booked
      <4>2. t \in Req /\ InOrder(t)
        BY RequestFacts DEF Req
      <4>3. t.kind = "chat" /\ t.rag = FALSE /\ t.burned = 0 /\ t.charged = 0 /\ t.den = r.den
        BY DEF Request
      <4> HIDE DEF t
      <4>4. q \in Req
        BY <4>1, <4>2 DEF Req, Working
      <4>5. /\ q.pc = "post" /\ q.kind = t.kind /\ q.den = t.den /\ q.imagine = t.imagine
            /\ q.rag = t.rag /\ q.burned = t.burned /\ q.charged = t.charged
            /\ q.ticks = t.ticks /\ q.calls = t.calls
        BY <4>1, <4>2 DEF Req
      <4> HIDE DEF q
      <4>6. InOrder(q)
        BY <4>2, <4>3, <4>5 DEF InOrder, Asking
      <4>7. Quote(Surface(q), q.ticks) \in Nat
        <5>1. Surface(q) \in Kinds /\ q.ticks \in Nat
          BY <4>4 DEF Surface, Kinds, Req
        <5> QED
          BY <5>1, QuoteFacts
      <4>8. Pays(q)
        BY <4>3, <4>5, <4>7 DEF Pays
      <4> QED
        BY <4>3, <4>4, <4>5, <4>6, <4>8
    <3> QED
      BY <3>1, <3>2
  <2>3. Lighter(r, q)
    BY <2>2, RestingIsLight DEF Resting
  <2>4. ~MaySpend(q) /\ \A s \in Scopes : Due(q, s) = {}
    BY <2>2 DEF MaySpend, Asking, Due
  <2> QED
    BY <2>1, <2>2, <2>3, <2>4
<1> QED
  BY <1>3, <1>4

-----------------------------------------------------------------------------
(* The actions that neither bill nor book.                                 *)

LEMMA BeginKeeps ==
  ASSUME SpendInvariant, NEW c \in Slots, NEW u \in Users, NEW d \in Dens, NEW i \in BOOLEAN,
         Begin(c, u, d, i)
  PROVE  SpendInvariant'
<1> DEFINE q == IF i THEN Preflight(Request(u, d, i), "image") ELSE Generate(Request(u, d, i))
<1>1. call' = [call EXCEPT ![c] = q] /\ call[c].pc \in Free
  BY DEF Begin, Update
<1>2. q \in Req /\ InOrder(q) /\ Pays(q) /\ Lighter(call[c], q)
  BY BeginFacts
<1> HIDE DEF q
<1>3. SameDue(call[c], q)
  BY <1>1 DEF SameDue, Free, SayUncharged
<1> QED
  BY <1>1, <1>2, <1>3, SlotFacts, LightStep DEF Begin, history

LEMMA GoOnKeeps ==
  ASSUME SpendInvariant, NEW c \in Slots, GoOn(c)
  PROVE  SpendInvariant'
<1> DEFINE r == Request(call[c].user, call[c].den, FALSE)
           q == Generate(r)
<1>1. call' = [call EXCEPT ![c] = q] /\ call[c].pc = "post"
  BY DEF GoOn, Update
<1>2. call[c].user \in Users /\ call[c].den \in Dens
  BY SlotFacts DEF Req
<1>3. Untouched(r) /\ ~r.rag /\ ~r.imagine
  BY <1>2, RequestFacts DEF Untouched, Request
<1> HIDE DEF r
<1>4. q \in Req /\ InOrder(q) /\ Pays(q) /\ Lighter(call[c], q)
  BY <1>3, GenerateFacts
<1>5. SameDue(call[c], q)
  BY <1>1 DEF SameDue
<1> QED
  BY <1>1, <1>4, <1>5, SlotFacts, LightStep DEF GoOn, history

LEMMA DecideKeeps ==
  ASSUME SpendInvariant, NEW c \in Slots, Decide(c) \/ ReadFails(c)
  PROVE  SpendInvariant'
<1> DEFINE r == call[c]
<1>1. r \in Req /\ InOrder(r) /\ Pays(r) /\ r.pc = "reading"
  BY SlotFacts DEF Decide, ReadFails
<1>2. \A q : SameDue(r, q)
  BY <1>1 DEF SameDue
<1>3. used' = used /\ ticks' = ticks /\ spent' = spent /\ unpaid' = unpaid
      /\ balance' \in [Users -> Nat] /\ lost' = lost
  BY SlotFacts DEF Decide, ReadFails, history
<1>4. CASE call' = [call EXCEPT ![c] = Refused(r)]
  BY <1>1, <1>2, <1>3, <1>4, RefusedFacts, LightStep
<1>5. CASE ~r.seen.hard /\ ~r.seen.empty /\ Decide(c)
  <2>1. call' = [call EXCEPT ![c] = Allowed(r, 0)] /\ AllowedAs(r, 0, Allowed(r, 0))
    BY <1>5 DEF Decide, Update, Admit, AllowedAs
  <2> QED
    BY <1>1, <1>2, <1>3, <2>1, AllowedFacts, LightStep
<1>6. CASE ~r.seen.hard /\ r.seen.empty /\ MayBurn(r) /\ Decide(c)
  <2> DEFINE q == [r EXCEPT !.pc = "debit"]
  <2>1. call' = [call EXCEPT ![c] = q] /\ r.seen.out = {}
    BY <1>6 DEF Decide, Update, Admit
  <2>2. q \in Req
    BY <1>1 DEF Req, Working
  <2>3. /\ q.pc = "debit" /\ q.kind = r.kind /\ q.den = r.den /\ q.imagine = r.imagine
        /\ q.rag = r.rag /\ q.search = r.search /\ q.burned = r.burned
        /\ q.charged = r.charged /\ q.ticks = r.ticks /\ q.calls = r.calls
    BY <1>1 DEF Req
  <2> HIDE DEF q
  <2>4. InOrder(q)
    BY <1>1, <1>6, <2>3 DEF InOrder, Asking, MayBurn, Working
  <2>5. Pays(q)
    BY <1>1, <2>3 DEF Pays, Surface, Working
  <2>6. Lighter(r, q)
    BY <1>1, <1>6, <2>1, <2>3
       DEF Lighter, Concerns, LetThrough, LetThroughFree, MaySpend, AsksFor, Asking
  <2> QED
    BY <1>2, <1>3, <2>1, <2>2, <2>4, <2>5, <2>6, LightStep
<1> QED
  BY <1>4, <1>5, <1>6 DEF Decide, ReadFails, Update, Admit

LEMMA TakeFacts ==
  ASSUME balance \in [Users -> Nat], NEW u \in Users, NEW n \in Nat, Take(u, n)
  PROVE  balance' \in [Users -> Nat]
<1>1. balance[u] - n \in Nat
  BY DEF Take
<1> QED
  BY <1>1 DEF Take

LEMMA DebitKeeps ==
  ASSUME SpendInvariant, NEW c \in Slots, Debit(c)
  PROVE  SpendInvariant'
<1> DEFINE r == call[c]
           n == Floor[r.kind]
<1>1. r \in Req /\ InOrder(r) /\ Pays(r) /\ r.pc = "debit" /\ balance \in [Users -> Nat]
  BY SlotFacts DEF Debit
<1>2. \A q : SameDue(r, q)
  BY <1>1 DEF SameDue
<1>3. used' = used /\ ticks' = ticks /\ spent' = spent /\ unpaid' = unpaid /\ lost' = lost
  BY DEF Debit, history
<1>4. n \in Nat
  <2>1. r.kind \in Kinds
    BY <1>1 DEF Req, InOrder
  <2> QED
    BY <2>1, BrainSpendAssumption DEF BrainSpendAssumption
<1>5. balance' \in [Users -> Nat]
  <2>1. ASSUME Take(r.user, n)
        PROVE  balance' \in [Users -> Nat]
    <3>1. r.user \in Users
      BY <1>1 DEF Req
    <3> QED
      BY <1>1, <1>4, <2>1, <3>1, TakeFacts
  <2> QED
    BY <1>1, <2>1 DEF Debit
<1>6. CASE Update(c, [Allowed(r, n) EXCEPT !.charged = n])
  <2> DEFINE q == [Allowed(r, n) EXCEPT !.charged = n]
  <2>1. AllowedAs(r, n, q) /\ call' = [call EXCEPT ![c] = q]
    BY <1>1, <1>6 DEF AllowedAs, Update
  <2> HIDE DEF q
  <2> QED
    BY <1>1, <1>2, <1>3, <1>5, <2>1, AllowedFacts, LightStep
<1>7. CASE Update(c, [Refused(r) EXCEPT !.charged = n])
  <2> DEFINE q == [Refused(r) EXCEPT !.charged = n]
  <2>1. call' = [call EXCEPT ![c] = q]
    BY <1>7 DEF Update
  <2>2. q \in Req /\ InOrder(q) /\ Pays(q) /\ Lighter(r, q)
    BY <1>1, RefusedChargedFacts
  <2> HIDE DEF q
  <2> QED
    BY <1>1, <1>2, <1>3, <1>5, <2>1, <2>2, LightStep
<1>8. CASE Update(c, Refused(r))
  BY <1>1, <1>2, <1>3, <1>5, <1>8, RefusedFacts, LightStep DEF Update
<1> QED
  BY <1>6, <1>7, <1>8 DEF Debit

LEMMA FallsBackKeeps ==
  ASSUME SpendInvariant, NEW c \in Slots, FallsBack(c)
  PROVE  SpendInvariant'
<1> DEFINE r == call[c]
           q == [r EXCEPT !.pc = "fallback"]
<1>1. r \in Req /\ InOrder(r) /\ Pays(r) /\ r.pc = "upstream"
  BY SlotFacts DEF FallsBack
<1>2. call' = [call EXCEPT ![c] = q]
  BY SlotFacts DEF FallsBack, Goto
<1>3. q \in Req
  BY <1>1 DEF Req, Working
<1>4. /\ q.pc = "fallback" /\ q.kind = r.kind /\ q.den = r.den /\ q.imagine = r.imagine
      /\ q.rag = r.rag /\ q.search = r.search /\ q.burned = r.burned
      /\ q.charged = r.charged /\ q.ticks = r.ticks /\ q.calls = r.calls
  BY <1>1 DEF Req
<1> HIDE DEF q
<1>5. InOrder(q)
  BY <1>1, <1>4 DEF InOrder, Asking, Working
<1>6. Pays(q)
  BY <1>1, <1>4 DEF Pays, Surface, Working
<1>7. Lighter(r, q) /\ SameDue(r, q)
  BY <1>1, <1>4
     DEF Lighter, Concerns, LetThrough, LetThroughFree, MaySpend, AsksFor, Asking, SameDue
<1> QED
  BY <1>2, <1>3, <1>5, <1>6, <1>7, SlotFacts, LightStep DEF FallsBack, history

(* An answer that ends a request, with a 503 or without a word.            *)
LEMMA EndFacts ==
  ASSUME NEW r \in Req, NEW q \in {Done(r), Answer503(r)}
  PROVE  q \in Req /\ InOrder(q) /\ Pays(q) /\ q.pc \in Free /\ Lighter(r, q)
<1>1. r.user \in Users /\ r.den \in Dens
  BY DEF Req
<1>2. CASE q = Done(r)
  BY <1>1, <1>2, RequestFacts, RestingIsLight DEF Done, Free, Resting
<1>3. CASE q = Uncharged(r, "imagine_unavailable")
  <2>1. "imagine_unavailable" \in SayUncharged /\ 0 \in Nat
    BY DEF SayUncharged
  <2>2. q \in Req /\ InOrder(q) /\ Pays(q) /\ q.pc \in Free
    BY <1>3, <2>1, UnchargedFacts
  <2> QED
    BY <2>2, RestingIsLight DEF Resting
<1> QED
  BY <1>2, <1>3 DEF Answer503

LEMMA EndKeeps ==
  ASSUME SpendInvariant, NEW c \in Slots,
         Unavailable(c) \/ BadImage(c) \/ Post(c) \/ Breaks(c)
  PROVE  SpendInvariant'
<1> DEFINE r == call[c]
<1>1. r \in Req /\ balance \in [Users -> Nat]
  BY SlotFacts
<1>2. PICK q \in {Done(r), Answer503(r)} : call' = [call EXCEPT ![c] = q]
  BY DEF Unavailable, BadImage, Post, Breaks, Update
<1>3. q \in Req /\ InOrder(q) /\ Pays(q) /\ Lighter(r, q)
  BY <1>1, EndFacts
<1>4. lost' = lost + 1 \/ (lost' = lost /\ SameDue(r, q))
  BY DEF Unavailable, BadImage, Post, Breaks, Asking, SameDue, history
<1>5. used' = used /\ ticks' = ticks /\ spent' = spent /\ unpaid' = unpaid /\ balance' = balance
  BY DEF Unavailable, BadImage, Post, Breaks, history
<1> QED
  BY <1>1, <1>2, <1>3, <1>4, <1>5, LightStep

LEMMA StoreKeeps ==
  ASSUME SpendInvariant, NEW c \in Slots, Store(c)
  PROVE  SpendInvariant'
<1> DEFINE r == call[c]
           q == [r EXCEPT !.pc = "logDen"]
<1>1. r \in Req /\ InOrder(r) /\ Pays(r) /\ r.pc = "store"
  BY SlotFacts DEF Store
<1>2. call' = [call EXCEPT ![c] = q]
  BY SlotFacts DEF Store, Goto
<1>3. q \in Req
  BY <1>1 DEF Req, Working
<1>4. /\ q.pc = "logDen" /\ q.kind = r.kind /\ q.den = r.den /\ q.imagine = r.imagine
      /\ q.rag = r.rag /\ q.search = r.search /\ q.burned = r.burned /\ q.book = r.book
      /\ q.charged = r.charged /\ q.ticks = r.ticks /\ q.calls = r.calls
  BY <1>1 DEF Req
<1> HIDE DEF q
<1>5. InOrder(q)
  BY <1>1, <1>4 DEF InOrder, Asking, Working
<1>6. Pays(q)
  BY <1>1, <1>4 DEF Pays, Surface, Working
<1>7. Lighter(r, q) /\ SameDue(r, q)
  BY <1>1, <1>4
     DEF Lighter, LetThrough, LetThroughFree, MaySpend, AsksFor, Asking, SameDue, Due
<1> QED
  BY <1>2, <1>3, <1>5, <1>6, <1>7, SlotFacts, LightStep DEF Store, history

LEMMA LogFailsKeeps ==
  ASSUME SpendInvariant, NEW c \in Slots, LogFails(c)
  PROVE  SpendInvariant'
<1>1. /\ call' = [call EXCEPT ![c] = Booked(call[c])] /\ call[c].pc \in {"logDen", "logAll"}
      /\ used' = used /\ ticks' = ticks /\ spent' = spent /\ unpaid' = unpaid
      /\ balance' = balance /\ lost' = lost + 1
  BY DEF LogFails, Update
<1> QED
  BY <1>1, SlotFacts, BookedFacts, LightStep

LEMMA SettleKeeps ==
  ASSUME SpendInvariant, NEW c \in Slots, Settle(c)
  PROVE  SpendInvariant'
<1> DEFINE r == call[c]
           x == Extra(r)
<1>1. r \in Req /\ InOrder(r) /\ Pays(r) /\ r.pc = "settle" /\ balance \in [Users -> Nat]
  BY SlotFacts DEF Settle
<1>2. r.charged = r.burned /\ r.kind = Surface(r) /\ ~r.rag /\ r.burned = Floor[Surface(r)]
  BY <1>1 DEF Pays, Working
<1>3. Surface(r) \in Kinds /\ r.ticks \in Nat
  BY <1>1 DEF Surface, Kinds, Req
<1>4. /\ Quote(Surface(r), r.ticks) \in Nat /\ Floor[Surface(r)] \in Nat
      /\ Floor[Surface(r)] <= Quote(Surface(r), r.ticks)
  BY <1>3, QuoteFacts
<1>5. x = Quote(Surface(r), r.ticks) - r.burned /\ x \in Nat
  BY <1>2, <1>4 DEF Extra
<1> HIDE DEF x
<1>6. PICK n \in {r.charged, r.charged + x} :
        call' = [call EXCEPT ![c] = [r EXCEPT !.pc = "post", !.charged = n]]
  <2>1. CASE Update(c, [[r EXCEPT !.pc = "post"] EXCEPT !.charged = @ + x])
    <3>1. [[r EXCEPT !.pc = "post"] EXCEPT !.charged = @ + x] =
            [r EXCEPT !.pc = "post", !.charged = r.charged + x]
      BY <1>1 DEF Req
    <3> QED
      BY <2>1, <3>1 DEF Update
  <2>2. CASE Update(c, [r EXCEPT !.pc = "post"])
    <3>1. [r EXCEPT !.pc = "post"] = [r EXCEPT !.pc = "post", !.charged = r.charged]
      BY <1>1 DEF Req
    <3> QED
      BY <2>2, <3>1 DEF Update
  <2> QED
    BY <2>1, <2>2 DEF Settle, x
<1> DEFINE q == [r EXCEPT !.pc = "post", !.charged = n]
<1>7. n \in Nat /\ n <= Quote(Surface(r), r.ticks)
  BY <1>2, <1>4, <1>5
<1>8. q \in Req
  BY <1>1, <1>7 DEF Req, Working
<1>9. /\ q.pc = "post" /\ q.kind = r.kind /\ q.den = r.den /\ q.imagine = r.imagine
      /\ q.rag = r.rag /\ q.burned = r.burned /\ q.charged = n
      /\ q.ticks = r.ticks /\ q.calls = r.calls
  BY <1>1 DEF Req
<1>10. call' = [call EXCEPT ![c] = q]
  BY <1>6
<1> HIDE DEF q
<1>11. InOrder(q)
  BY <1>1, <1>9 DEF InOrder, Asking, Working
<1>12. Pays(q)
  BY <1>2, <1>7, <1>9 DEF Pays, Surface
<1>13. Lighter(r, q) /\ SameDue(r, q)
  BY <1>1, <1>9, RestingIsLight DEF Resting, SameDue
<1>14. balance' \in [Users -> Nat]
  <2>1. ASSUME Take(r.user, x)
        PROVE  balance' \in [Users -> Nat]
    <3>1. r.user \in Users
      BY <1>1 DEF Req
    <3> QED
      BY <1>1, <1>5, <2>1, <3>1, TakeFacts
  <2> QED
    BY <1>1, <2>1 DEF Settle, x
<1> QED
  BY <1>8, <1>10, <1>11, <1>12, <1>13, <1>14, LightStep DEF Settle, history

-----------------------------------------------------------------------------
(* The actions that read the ledger, bill and book.                        *)

(* What a read returns goes into what the pre-flight has seen.             *)
LEMMA SeenFacts ==
  ASSUME NEW r \in Req, InOrder(r), Pays(r), r.pc = "reading",
         NEW out \in SUBSET Reads, NEW hard \in BOOLEAN, NEW empty \in BOOLEAN,
         NEW q, q = [r EXCEPT !.seen = [out |-> out, hard |-> hard, empty |-> empty]]
  PROVE  /\ q \in Req /\ InOrder(q) /\ Pays(q)
         /\ q.pc = "reading" /\ q.kind = r.kind /\ q.den = r.den /\ q.rag = r.rag
         /\ q.search = r.search /\ q.burned = r.burned
         /\ q.seen.out = out /\ q.seen.hard = hard /\ q.seen.empty = empty
<1>1. q \in Req
  BY DEF Req
<1>2. /\ q.pc = "reading" /\ q.kind = r.kind /\ q.den = r.den /\ q.imagine = r.imagine
      /\ q.rag = r.rag /\ q.search = r.search /\ q.burned = r.burned
      /\ q.seen.out = out /\ q.seen.hard = hard /\ q.seen.empty = empty
      /\ q.charged = r.charged /\ q.ticks = r.ticks /\ q.calls = r.calls
  BY DEF Req
<1>3. InOrder(q)
  BY <1>2 DEF InOrder, Asking, Working
<1>4. Pays(q)
  BY <1>2 DEF Pays, Surface, Working
<1> QED
  BY <1>1, <1>2, <1>3, <1>4

LEMMA ReadKeeps ==
  ASSUME SpendInvariant, NEW c \in Slots, NEW what \in Reads, Read(c, what)
  PROVE  SpendInvariant'
<1> DEFINE r == call[c]
           k == r.kind
           out == r.seen.out \ {what}
           hard == r.seen.hard \/ AtCeiling(r, {what})
           empty == r.seen.empty \/ PoolEmpty(r, {what})
           q == [r EXCEPT !.seen = [out |-> out, hard |-> hard, empty |-> empty]]
<1>1. r \in Req /\ InOrder(r) /\ Pays(r) /\ r.pc = "reading" /\ call \in [Slots -> Req]
  BY SlotFacts DEF Read
<1>2. call' = [call EXCEPT ![c] = q]
  BY DEF Read, Update, Seen
<1>3. r.seen.out \in SUBSET Reads /\ r.seen.hard \in BOOLEAN /\ r.seen.empty \in BOOLEAN
      /\ r.kind \in Kinds /\ r.den \in Dens /\ r.den # All
  BY <1>1, BrainSpendAssumption DEF Req, InOrder, BrainSpendAssumption
<1>4. /\ ticks.tools \in Nat /\ ticks.chat \in Nat
      /\ \A s \in Scopes, j \in Kinds :
           used[s][j] \in Nat /\ spent[s][j] \in Nat /\ HardCap(s, j) \in Nat
      /\ \A d \in Dens, j \in Kinds : d \in Scopes /\ unpaid[d][j] \in Nat /\ FreeDen[j] \in Nat
      /\ MaxCalls \in Nat \ {0} /\ MaxTicks \in Nat \ {0} /\ DailyUsd \in Nat
  <2>1. ticks.tools \in Nat /\ ticks.chat \in Nat
    BY DEF SpendInvariant, TypeOK
  <2>2. ASSUME NEW s \in Scopes, NEW j \in Kinds
        PROVE  used[s][j] \in Nat /\ spent[s][j] \in Nat
    BY DEF SpendInvariant, TypeOK, Counts
  <2>3. ASSUME NEW s \in Scopes, NEW j \in Kinds
        PROVE  HardCap(s, j) \in Nat
    BY BrainSpendAssumption DEF BrainSpendAssumption, HardCap
  <2>4. ASSUME NEW d \in Dens, NEW j \in Kinds
        PROVE  d \in Scopes /\ unpaid[d][j] \in Nat /\ FreeDen[j] \in Nat
    BY BrainSpendAssumption DEF SpendInvariant, TypeOK, Counts, Scopes, BrainSpendAssumption
  <2>5. MaxCalls \in Nat \ {0} /\ MaxTicks \in Nat \ {0} /\ DailyUsd \in Nat
    BY BrainSpendAssumption DEF BrainSpendAssumption
  <2> QED
    BY <2>1, <2>2, <2>3, <2>4, <2>5
<1>5. /\ used' = used /\ ticks' = ticks /\ spent' = spent /\ unpaid' = unpaid
      /\ lost' = lost /\ balance' = balance
  BY DEF Read, history
<1> HIDE DEF hard, empty
<1>6. hard \in BOOLEAN /\ empty \in BOOLEAN
  BY <1>3 DEF hard, empty, AtCeiling, PoolEmpty
<1>7. /\ q \in Req /\ InOrder(q) /\ Pays(q)
      /\ q.pc = "reading" /\ q.kind = r.kind /\ q.den = r.den /\ q.rag = r.rag
      /\ q.search = r.search /\ q.burned = r.burned
      /\ q.seen.out = out /\ q.seen.hard = hard /\ q.seen.empty = empty
  <2>1. out \in SUBSET Reads
    BY <1>3
  <2> HIDE DEF out
  <2> QED
    BY <1>1, <1>6, <2>1, SeenFacts
<1>8. q.pc = "reading" /\ q.seen.out = out /\ q.seen.hard = hard /\ q.seen.empty = empty
      /\ q.kind = r.kind /\ q.den = r.den /\ q.rag = r.rag /\ q.search = r.search
      /\ q.burned = r.burned
  BY <1>7
<1> HIDE DEF q
<1>11. TypeOK'
  <2>1. call' \in [Slots -> Req]
    BY <1>1, <1>2, <1>7
  <2> QED
    BY <1>5, <2>1 DEF SpendInvariant, TypeOK, Req
<1>12. \A s, j : DueOf(r, s, j) = 0 /\ DueOf(q, s, j) = 0
  BY <1>1, <1>8 DEF DueOf, Due
<1>13. Slip = 0
  BY <1>5 DEF Slip
<1>14. ASSUME NEW s \in Scopes, NEW j \in Kinds
       PROVE  BilledStep(r, q, s, j) /\ CapStep(r, q, s, j)
  <2>1. BilledStep(r, q, s, j)
    BY <1>4, <1>5, <1>12, <1>13 DEF BilledStep
  <2>2. HardOf(r, s, j) \in {0, MaxCalls} /\ HardOf(q, s, j) \in {0, MaxCalls}
    BY DEF HardOf
  <2>3. CASE HardOf(q, s, j) <= HardOf(r, s, j)
    <3>1. spent'[s][j] = spent[s][j] /\ spent[s][j] \in Nat
      BY <1>4, <1>5
    <3>2. spent'[s][j] + HardOf(q, s, j) <= spent[s][j] + HardOf(r, s, j) + Slip
      BY <1>4, <1>13, <2>2, <2>3, <3>1
    <3> QED
      BY <2>1, <3>2 DEF CapStep
  <2>4. CASE ~(HardOf(q, s, j) <= HardOf(r, s, j))
    <3>1. Concerns(q, s) /\ LetThrough(q, s, j) /\ ~(Concerns(r, s) /\ LetThrough(r, s, j))
      BY <1>4, <2>4 DEF HardOf
    <3>2. j = k /\ ~hard /\ ReadOf(s) \notin out /\ Concerns(r, s)
          /\ ~(~r.seen.hard /\ ReadOf(s) \notin r.seen.out)
      BY <1>1, <1>8, <3>1 DEF LetThrough, Concerns, AsksFor, Asking
    <3>3. what = ReadOf(s) /\ ~AtCeiling(r, {what})
      BY <3>2 DEF hard
    <3>4. used[s][j] < HardCap(s, j)
      <4>1. CASE s = All
        BY <1>4, <3>2, <3>3, <4>1 DEF ReadOf, HardCap, AtCeiling, Reached
      <4>2. CASE s # All
        BY <1>4, <3>2, <3>3, <4>2 DEF ReadOf, HardCap, AtCeiling, Reached, Concerns
      <4> QED
        BY <4>1, <4>2
    <3>5. spent'[s][j] = spent[s][j] /\ DueOf(r, s, j) = 0
      BY <1>5, <1>12
    <3> QED
      BY <2>1, <3>4, <3>5 DEF CapStep
  <2> QED
    BY <2>1, <2>3, <2>4
<1>15. ASSUME NEW d \in Dens, NEW j \in Kinds
       PROVE  FreeStep(r, q, d, j)
  <2>1. FreeOf(r, d, j) \in {0, MaxCalls} /\ FreeOf(q, d, j) \in {0, MaxCalls}
    BY DEF FreeOf
  <2>2. FreeOf(q, d, j) > FreeOf(r, d, j) => used[d][j] < FreeDen[j]
    <3> SUFFICES ASSUME FreeOf(q, d, j) > FreeOf(r, d, j)
                 PROVE  used[d][j] < FreeDen[j]
      OBVIOUS
    <3>1. q.den = d /\ LetThroughFree(q, j) /\ ~(r.den = d /\ LetThroughFree(r, j))
      BY <1>4 DEF FreeOf
    <3>2. j = k /\ ~hard /\ ~empty /\ "den" \notin out /\ r.den = d
          /\ ~(~r.seen.hard /\ ~r.seen.empty /\ "den" \notin r.seen.out)
      BY <1>1, <1>8, <3>1 DEF LetThroughFree, AsksFor, Asking
    <3>3. what = "den" /\ ~PoolEmpty(r, {what})
      BY <3>2 DEF hard, empty
    <3> QED
      BY <1>4, <3>2, <3>3 DEF PoolEmpty, Reached
  <2>3. FreeDen[j] = 0 => unpaid[d][j] = 0 /\ FreeOf(r, d, j) = 0
    BY DEF SpendInvariant, FreeBound
  <2>4. /\ used[d][j] \in Nat /\ spent[d][j] \in Nat
        /\ unpaid[d][j] \in Nat /\ FreeDen[j] \in Nat
    BY <1>4
  <2>5. unpaid'[d][j] + spent[d][j] <= unpaid[d][j] + spent'[d][j]
    BY <1>5, <2>4
  <2>6. FreeDen[j] = 0 => unpaid'[d][j] = 0 /\ FreeOf(q, d, j) = 0
    BY <1>4, <1>5, <2>1, <2>2, <2>3, <2>4
  <2>7. \/ unpaid'[d][j] + FreeOf(q, d, j) <= unpaid[d][j] + FreeOf(r, d, j) + Slip
        \/ unpaid'[d][j] = unpaid[d][j] /\ used[d][j] < FreeDen[j] /\ DueOf(r, d, j) = 0
    BY <1>4, <1>5, <1>12, <1>13, <2>1, <2>2, <2>4
  <2> QED
    BY <2>5, <2>6, <2>7 DEF FreeStep
<1>16. UsdStep(r, q)
  <2>1. CASE MaySpend(q) /\ ~MaySpend(r)
    <3>1. what = "ticks" /\ ~AtCeiling(r, {what})
      BY <1>1, <1>8, <2>1 DEF MaySpend, Asking, hard
    <3>2. ticks.tools < DailyUsd
      BY <1>4, <3>1 DEF AtCeiling, Reached
    <3> QED
      BY <1>5, <3>2 DEF UsdStep
  <2>2. CASE ~(MaySpend(q) /\ ~MaySpend(r))
    BY <1>4, <1>5, <2>2 DEF UsdStep, UsdOf
  <2> QED
    BY <2>1, <2>2
<1>17. lost' \in {lost, lost + 1}
  BY <1>5
<1> QED
  BY <1>2, <1>7, <1>11, <1>14, <1>15, <1>16, <1>17, StepKeepsBounds

(* A bill within what the request was let through to: the calls go into a  *)
(* booking that is still to be made, or one more request is not booked.    *)
LEMMA BillKeeps ==
  ASSUME SpendInvariant, NEW c \in Slots, NEW q \in Req, NEW n \in Counts,
         Asking(call[c]), Bill(call[c], n),
         \A j \in Kinds : n[j] <= MaxCalls /\ (n[j] > 0 => AsksFor(call[c], j)),
         used' = used, ticks' = ticks, balance' = balance,
         call' = [call EXCEPT ![c] = q], InOrder(q), Pays(q),
         \/ lost' = lost + 1
         \/ /\ lost' = lost /\ q.den = call[c].den /\ q.calls = n
            /\ \A s \in Scopes, j \in Kinds : n[j] > 0 => j \in Due(q, s),
         Lighter(call[c], q), q.pc \in Free \cup {"store", "logDen"}
  PROVE  SpendInvariant'
<1> DEFINE r == call[c]
<1>1. r \in Req /\ InOrder(r) /\ Pays(r) /\ call \in [Slots -> Req] /\ lost \in Nat
  BY SlotFacts
<1>2. MaxCalls \in Nat \ {0} /\ MaxTicks \in Nat \ {0}
  BY LostStep, <1>1
<1>3. \A j \in Kinds : n[j] \in Nat
  BY DEF Counts
<1>4. \A s \in Scopes, j \in Kinds : spent[s][j] \in Nat /\ used[s][j] \in Nat
  BY DEF SpendInvariant, TypeOK, Counts
<1>5. \A d \in Dens, j \in Kinds : d \in Scopes /\ unpaid[d][j] \in Nat
  BY DEF SpendInvariant, TypeOK, Counts, Scopes
<1>6. ASSUME NEW s \in Scopes, NEW j \in Kinds
      PROVE  spent'[s][j] = spent[s][j] + IF Concerns(r, s) THEN n[j] ELSE 0
  BY <1>4 DEF Bill, Concerns
<1>7. r.den \in Dens
  BY <1>1 DEF Req
<1>8. ASSUME NEW d \in Dens, NEW j \in Kinds
      PROVE  unpaid'[d][j] = unpaid[d][j] + IF r.den = d /\ r.burned = 0 THEN n[j] ELSE 0
  <2>1. r.burned \in Nat /\ unpaid \in [Dens -> Counts]
    BY <1>1 DEF Req, SpendInvariant, TypeOK
  <2>2. CASE r.burned > 0
    BY <1>5, <2>1, <2>2 DEF Bill
  <2>3. CASE r.burned = 0 /\ d = r.den
    BY <1>5, <2>1, <2>3 DEF Bill
  <2>4. CASE r.burned = 0 /\ d # r.den
    BY <1>5, <2>1, <2>4 DEF Bill
  <2> QED
    BY <2>1, <2>2, <2>3, <2>4
<1>9. TypeOK'
  <2>1. call' \in [Slots -> Req] /\ lost' \in Nat
    BY <1>1
  <2>2. spent' \in [Scopes -> Counts]
    <3>1. \A s \in Scopes : [k \in Kinds |-> spent[s][k] + n[k]] \in Counts /\ spent[s] \in Counts
      BY <1>3, <1>4 DEF Counts, SpendInvariant, TypeOK
    <3> HIDE DEF Counts
    <3> QED
      BY <3>1 DEF Bill
  <2>3. unpaid' \in [Dens -> Counts]
    <3>1. unpaid \in [Dens -> Counts]
      BY DEF SpendInvariant, TypeOK
    <3>2. [k \in Kinds |-> unpaid[r.den][k] + n[k]] \in Counts
      BY <1>3, <1>5, <1>7 DEF Counts
    <3>3. unpaid' = unpaid
          \/ unpaid' = [unpaid EXCEPT ![r.den] = [k \in Kinds |-> unpaid[r.den][k] + n[k]]]
      BY <3>1, <1>7 DEF Bill
    <3> QED
      BY <3>1, <3>2, <3>3
  <2> QED
    BY <2>1, <2>2, <2>3 DEF SpendInvariant, TypeOK, Req
<1>10. \A s, j : DueOf(r, s, j) = 0
  BY DEF DueOf, Due, Asking
<1>11. \A j \in Kinds : (\A s, d : HardOf(q, s, j) = 0 /\ FreeOf(q, d, j) = 0)
  BY DEF HardOf, FreeOf, LetThrough, LetThroughFree, AsksFor, Asking, Free, SayUncharged
<1>12. Slip \in {0, MaxCalls} /\ (lost' = lost + 1 => Slip = MaxCalls)
  BY <1>1 DEF Slip
<1>13. ASSUME NEW s \in Scopes, NEW j \in Kinds
       PROVE  BilledStep(r, q, s, j) /\ CapStep(r, q, s, j)
  <2>1. HardOf(r, s, j) \in {0, MaxCalls} /\ DueOf(q, s, j) \in 0 .. MaxCalls
    <3>1. q.den \in Dens
      BY DEF Req
    <3> QED
      BY <3>1, Weights DEF HardOf
  <2>2. Concerns(r, s) /\ n[j] > 0 => HardOf(r, s, j) = MaxCalls
    BY DEF HardOf, LetThrough
  <2>3. lost' = lost /\ Concerns(r, s) /\ n[j] > 0 => DueOf(q, s, j) = n[j]
    BY <1>1 DEF DueOf, Concerns
  <2>4. n[j] \in Nat /\ n[j] <= MaxCalls /\ spent[s][j] \in Nat /\ used[s][j] \in Nat
        /\ spent'[s][j] = spent[s][j] + IF Concerns(r, s) THEN n[j] ELSE 0
    BY <1>3, <1>4, <1>6
  <2>5. BilledStep(r, q, s, j)
    BY <1>2, <1>10, <1>12, <2>1, <2>3, <2>4 DEF BilledStep
  <2>6. CapStep(r, q, s, j)
    BY <1>2, <1>11, <1>12, <2>1, <2>2, <2>4 DEF CapStep
  <2> QED
    BY <2>5, <2>6
<1>14. ASSUME NEW d \in Dens, NEW j \in Kinds
       PROVE  FreeStep(r, q, d, j)
  <2>1. FreeOf(r, d, j) \in {0, MaxCalls}
    BY DEF FreeOf
  <2>2. r.den = d /\ r.burned = 0 /\ n[j] > 0 => FreeOf(r, d, j) = MaxCalls
    BY DEF FreeOf, LetThroughFree
  <2>3. FreeDen[j] = 0 => unpaid[d][j] = 0 /\ FreeOf(r, d, j) = 0
    BY DEF SpendInvariant, FreeBound
  <2>4. /\ n[j] \in Nat /\ n[j] <= MaxCalls /\ unpaid[d][j] \in Nat /\ spent[d][j] \in Nat
        /\ spent'[d][j] = spent[d][j] + IF Concerns(r, d) THEN n[j] ELSE 0
        /\ unpaid'[d][j] = unpaid[d][j] + IF r.den = d /\ r.burned = 0 THEN n[j] ELSE 0
    BY <1>3, <1>4, <1>5, <1>6, <1>8
  <2>5. unpaid'[d][j] + spent[d][j] <= unpaid[d][j] + spent'[d][j]
    BY <2>4 DEF Concerns
  <2>6. FreeDen[j] = 0 => unpaid'[d][j] = 0
    BY <1>2, <2>2, <2>3, <2>4
  <2>7. unpaid'[d][j] + FreeOf(q, d, j) <= unpaid[d][j] + FreeOf(r, d, j) + Slip
    BY <1>2, <1>11, <1>12, <2>1, <2>2, <2>4
  <2> QED
    BY <1>11, <2>5, <2>6, <2>7 DEF FreeStep
<1>15. UsdStep(r, q)
  <2>1. UsdOf(q) <= UsdOf(r) /\ UsdOf(q) \in Nat /\ UsdOf(r) \in Nat
    BY <1>2 DEF Lighter, UsdOf
  <2>2. ticks.tools \in Nat
    BY DEF SpendInvariant, TypeOK
  <2> QED
    BY <2>1, <2>2 DEF UsdStep
<1>16. lost' \in {lost, lost + 1}
  OBVIOUS
<1> QED
  BY <1>9, <1>13, <1>14, <1>15, <1>16, StepKeepsBounds

(* The calls an answer can stand for were asked for.                       *)
LEMMA SearchesFacts ==
  ASSUME NEW r \in Req, InOrder(r), Asking(r), NEW n \in 0 .. MaxCalls, NEW m \in 0 .. MaxCalls,
         MayBill(r, n, m),
         NEW b, b = IF r.kind = "image" THEN Only("image", 1) ELSE Searches(n, m)
  PROVE  /\ b \in Counts
         /\ \A j \in Kinds : b[j] <= MaxCalls /\ (b[j] > 0 => AsksFor(r, j))
         /\ r.kind # "image" => b["image"] = 0 /\ b["rag"] = n /\ b["search"] = m
         /\ b["rag"] > 0 => r.rag
         /\ b["search"] > 0 => r.search
<1>1. MaxCalls \in Nat \ {0}
  BY BrainSpendAssumption DEF BrainSpendAssumption
<1>2. CASE r.kind = "image"
  BY <1>1, <1>2 DEF Only, Counts, AsksFor, Kinds
<1>3. CASE r.kind # "image"
  <2>1. b = [j \in Kinds |-> IF j = "search" THEN m ELSE IF j = "rag" THEN n ELSE 0]
    BY <1>3 DEF Searches, Only, Kinds
  <2>2. (n > 0 => r.rag) /\ (m > 0 => r.search)
    BY <1>3 DEF MayBill
  <2>3. b \in Counts
    BY <1>1, <2>1 DEF Counts
  <2>4. b["image"] = 0 /\ b["rag"] = n /\ b["search"] = m
    BY <2>1 DEF Kinds
  <2> QED
    BY <1>1, <1>3, <2>2, <2>3, <2>4 DEF AsksFor, Kinds
<1> QED
  BY <1>2, <1>3

LEMMA WastedKeeps ==
  ASSUME SpendInvariant, NEW c \in Slots, NEW n \in 0 .. MaxCalls, NEW m \in 0 .. MaxCalls,
         Wasted(c, n, m)
  PROVE  SpendInvariant'
<1> DEFINE r == call[c]
           q == Answer503(r)
           b == IF r.kind = "image" THEN Only("image", 1) ELSE Searches(n, m)
<1>1. r \in Req /\ InOrder(r) /\ Asking(r) /\ MayBill(r, n, m)
  BY SlotFacts DEF Wasted
<1>2. /\ Bill(r, b) /\ call' = [call EXCEPT ![c] = q] /\ lost' = lost + 1
      /\ used' = used /\ ticks' = ticks /\ balance' = balance
  BY DEF Wasted, Update
<1>3. q \in Req /\ InOrder(q) /\ Pays(q) /\ q.pc \in Free /\ Lighter(r, q)
  BY <1>1, EndFacts
<1> HIDE DEF b, q
<1>4. b \in Counts /\ \A j \in Kinds : b[j] <= MaxCalls /\ (b[j] > 0 => AsksFor(r, j))
  BY <1>1, SearchesFacts DEF b
<1> QED
  BY <1>1, <1>2, <1>3, <1>4, BillKeeps

(* An answer that is booked.                                               *)
LEMMA AnswerKeeps ==
  ASSUME SpendInvariant, NEW c \in Slots, NEW n \in Counts, NEW t \in 0 .. MaxTicks,
         NEW pc \in {"store", "logDen"}, NEW book \in ToBook,
         Asking(call[c]), Billed(c, n, t, pc, book),
         \A j \in Kinds : n[j] <= MaxCalls /\ (n[j] > 0 => AsksFor(call[c], j)),
         \A j \in Kinds : n[j] > 0 => j \in Listed(book),
         book = <<"rag", "search">> => call[c].rag,
         pc = "store" => book = <<"image">> /\ call[c].kind = "image",
         Head(book) # "chat" => call[c].kind # "chat",
         used' = used, ticks' = ticks, balance' = balance, lost' = lost
  PROVE  SpendInvariant'
<1> DEFINE r == call[c]
           q == [r EXCEPT !.pc = pc, !.calls = n, !.ticks = t, !.book = book]
<1>1. r \in Req /\ InOrder(r) /\ Pays(r)
  BY SlotFacts
<1>2. call' = [call EXCEPT ![c] = q] /\ Bill(r, n)
  BY DEF Billed, Update
<1>3. t \in Nat /\ t <= MaxTicks
  BY BrainSpendAssumption DEF BrainSpendAssumption
<1>4. q \in Req
  BY <1>1, <1>3, BookFacts DEF Req, Working
<1>5. /\ q.pc = pc /\ q.kind = r.kind /\ q.den = r.den /\ q.imagine = r.imagine
      /\ q.rag = r.rag /\ q.search = r.search /\ q.burned = r.burned
      /\ q.charged = r.charged /\ q.ticks = t /\ q.calls = n /\ q.book = book
  BY <1>1 DEF Req
<1> HIDE DEF q
<1>6. r.pc \in Working \ {"post"}
  BY DEF Asking, Working
<1>7. InOrder(q)
  BY <1>1, <1>3, <1>5, <1>6 DEF InOrder, Asking, Working
<1>8. Pays(q)
  BY <1>1, <1>5, <1>6 DEF Pays, Surface, Working, Asking
<1>9. Lighter(r, q)
  <2>1. MaySpend(q) => r.kind # "chat"
    BY <1>1, <1>5 DEF MaySpend, Asking
  <2> QED
    BY <1>5, <2>1 DEF Lighter, LetThrough, LetThroughFree, MaySpend, AsksFor, Asking
<1>10. \A s \in Scopes : Due(q, s) = Listed(book)
  BY <1>5 DEF Due
<1> QED
  BY <1>2, <1>4, <1>5, <1>7, <1>8, <1>9, <1>10, BillKeeps

LEMMA PaintsKeeps ==
  ASSUME SpendInvariant, NEW c \in Slots, NEW t \in 0 .. MaxTicks, Paints(c, t)
  PROVE  SpendInvariant'
<1> DEFINE n == Only("image", 1)
<1>1. /\ Asking(call[c]) /\ call[c].kind = "image" /\ Billed(c, n, t, "store", <<"image">>)
      /\ used' = used /\ ticks' = ticks /\ balance' = balance /\ lost' = lost
  BY DEF Paints, Asking
<1>2. MaxCalls \in Nat \ {0}
  BY BrainSpendAssumption DEF BrainSpendAssumption
<1>3. n \in Counts /\ \A j \in Kinds : n[j] <= MaxCalls /\ (n[j] > 0 => j = "image")
  BY <1>2 DEF Only, Counts
<1>4. <<"image">> \in ToBook /\ "image" \in Listed(<<"image">>)
  BY DEF ToBook, Listed
<1>5. <<"image">> # <<"rag", "search">>
  <2>1. Len(<<"image">>) = 1 /\ Len(<<"rag", "search">>) = 2
    OBVIOUS
  <2> QED
    BY <2>1, Zenon
<1>6. \A j \in Kinds : n[j] > 0 => AsksFor(call[c], j)
  BY <1>1, <1>3 DEF AsksFor
<1> HIDE DEF n
<1> QED
  BY <1>1, <1>3, <1>4, <1>5, <1>6, AnswerKeeps

LEMMA RepliesKeeps ==
  ASSUME SpendInvariant, NEW c \in Slots, NEW n \in 0 .. MaxCalls, NEW m \in 0 .. MaxCalls,
         NEW t \in 0 .. MaxTicks, Replies(c, n, m, t)
  PROVE  SpendInvariant'
<1> DEFINE r == call[c]
           b == Searches(n, m)
           book == IF r.rag /\ m > 0 THEN <<"rag", "search">> ELSE <<r.kind>>
<1>1. r \in Req /\ InOrder(r) /\ Asking(r) /\ MayBill(r, n, m) /\ r.kind # "image"
  BY SlotFacts DEF Replies
<1>2. /\ Billed(c, b, t, "logDen", book)
      /\ used' = used /\ ticks' = ticks /\ balance' = balance /\ lost' = lost
  BY DEF Replies
<1> HIDE DEF b
<1>3. /\ b \in Counts /\ \A j \in Kinds : b[j] <= MaxCalls /\ (b[j] > 0 => AsksFor(r, j))
      /\ b["image"] = 0 /\ b["rag"] = n /\ b["search"] = m
      /\ (n > 0 => r.rag) /\ (m > 0 => r.search)
  <2>1. b = IF r.kind = "image" THEN Only("image", 1) ELSE Searches(n, m)
    BY <1>1 DEF b
  <2> QED
    BY <1>1, <2>1, SearchesFacts
<1>4. (r.rag <=> r.kind = "rag") /\ (r.search => r.kind \in {"search", "rag"})
      /\ r.kind \in {"search", "rag", "chat"}
  BY <1>1 DEF InOrder, Req, Kinds
<1>5. CASE r.rag /\ m > 0
  <2>1. book = <<"rag", "search">> /\ r.kind = "rag"
    BY <1>4, <1>5
  <2>2. /\ <<"rag", "search">> \in ToBook
        /\ Listed(<<"rag", "search">>) = {"rag", "search"}
    <3>1. <<"rag", "search">> \in ToBook
      BY DEF ToBook
    <3> QED
      BY <3>1, BookFacts
  <2>3. \A j \in Kinds : b[j] > 0 => j \in Listed(<<"rag", "search">>)
    BY <1>3, <2>2 DEF Kinds
  <2> QED
    BY <1>1, <1>2, <1>3, <1>5, <2>1, <2>2, <2>3, AnswerKeeps
<1>6. CASE ~(r.rag /\ m > 0)
  <2>1. book = <<r.kind>>
    BY <1>6
  <2>2. /\ <<r.kind>> \in ToBook /\ Listed(<<r.kind>>) = {r.kind} /\ Head(<<r.kind>>) = r.kind
        /\ <<r.kind>> # <<"rag", "search">>
    <3>1. <<r.kind>> \in ToBook
      BY <1>4 DEF ToBook
    <3>2. Len(<<r.kind>>) = 1 /\ Len(<<"rag", "search">>) = 2 /\ Head(<<r.kind>>) = r.kind
      OBVIOUS
    <3>3. <<r.kind>> # <<"rag", "search">>
      BY <3>2, Zenon
    <3>4. Listed(<<r.kind>>) = {r.kind}
      BY DEF Listed
    <3> QED
      BY <3>1, <3>2, <3>3, <3>4
  <2>3. \A j \in Kinds : b[j] > 0 => j \in Listed(<<r.kind>>)
    <3> SUFFICES ASSUME NEW j \in Kinds, b[j] > 0
                 PROVE  j = r.kind
      BY <2>2
    <3>1. j = "rag" \/ j = "search"
      BY <1>3 DEF Kinds
    <3>2. CASE j = "rag"
      BY <1>3, <1>4, <3>2
    <3>3. CASE j = "search"
      BY <1>3, <1>4, <1>6, <3>3
    <3> QED
      BY <3>1, <3>2, <3>3
  <2> QED
    BY <1>1, <1>2, <1>3, <2>1, <2>2, <2>3, AnswerKeeps
<1> QED
  BY <1>5, <1>6

(* A booking takes the calls of one surface from the bill into one row.    *)
LEMMA BookKeeps ==
  ASSUME SpendInvariant, NEW c \in Slots, NEW q \in Req, NEW s0 \in Scopes,
         call[c].pc \in {"logDen", "logAll"},
         used' = BookedCalls(call[c], s0), spent' = spent, unpaid' = unpaid, lost' = lost,
         balance' = balance, ticks' \in [tools : Nat, chat : Nat],
         call' = [call EXCEPT ![c] = q], InOrder(q), Pays(q), q.den = call[c].den,
         Concerns(call[c], s0), Lighter(call[c], q), UsdStep(call[c], q),
         Head(call[c].book) \in Due(call[c], s0),
         \A s \in Scopes : Concerns(q, s) =>
           Due(q, s) = Due(call[c], s) \ IF s = s0 THEN {Head(call[c].book)} ELSE {},
         \A s \in Scopes : Due(q, s) # {} => q.calls = call[c].calls
  PROVE  SpendInvariant'
<1> DEFINE r == call[c]
           h == Head(r.book)
<1>1. r \in Req /\ InOrder(r) /\ Pays(r) /\ call \in [Slots -> Req]
  BY SlotFacts
<1>2. r.book \in ToBook /\ h \in Kinds \cup {"chat"}
  BY <1>1, BookFacts DEF InOrder
<1>3. \A j \in Kinds : r.calls[j] \in Nat
  BY <1>1 DEF Req, Counts
<1>4. \A s \in Scopes, j \in Kinds : spent[s][j] \in Nat /\ used[s][j] \in Nat
  BY DEF SpendInvariant, TypeOK, Counts
<1>5. ASSUME NEW s \in Scopes, NEW j \in Kinds
      PROVE  used'[s][j] = used[s][j] + IF s = s0 /\ j = h THEN r.calls[j] ELSE 0
  <2>1. used \in [Scopes -> Counts]
    BY DEF SpendInvariant, TypeOK
  <2>2. CASE h \notin Kinds
    BY <1>4, <2>2 DEF BookedCalls
  <2>3. CASE h \in Kinds
    <3>1. used' = [used EXCEPT ![s0][h] = @ + r.calls[h]]
      BY <2>3 DEF BookedCalls
    <3>2. used[s] \in [Kinds -> Nat]
      BY <2>1 DEF Counts
    <3>3. s = s0 => used'[s] = [used[s] EXCEPT ![h] = @ + r.calls[h]]
      BY <2>1, <3>1
    <3>4. s # s0 => used'[s] = used[s]
      BY <2>1, <3>1
    <3> QED
      BY <1>3, <1>4, <2>3, <3>2, <3>3, <3>4
  <2> QED
    BY <2>2, <2>3
<1>6. TypeOK'
  <2>1. call' \in [Slots -> Req]
    BY <1>1
  <2>2. used' \in [Scopes -> Counts]
    <3>1. used \in [Scopes -> Counts]
      BY DEF SpendInvariant, TypeOK
    <3>2. CASE h \notin Kinds
      BY <3>1, <3>2 DEF BookedCalls
    <3>3. CASE h \in Kinds
      <4>1. [used[s0] EXCEPT ![h] = @ + r.calls[h]] \in Counts
        <5>1. used[s0] \in [Kinds -> Nat] /\ r.calls[h] \in Nat
          BY <1>3, <3>1, <3>3 DEF Counts
        <5> QED
          BY <3>3, <5>1 DEF Counts
      <4>2. used' = [used EXCEPT ![s0] = [used[s0] EXCEPT ![h] = @ + r.calls[h]]]
        BY <3>1, <3>3 DEF BookedCalls
      <4> QED
        BY <3>1, <4>1, <4>2
    <3> QED
      BY <3>2, <3>3
  <2> QED
    BY <2>1, <2>2 DEF SpendInvariant, TypeOK, Req
<1>7. MaxCalls \in Nat \ {0} /\ Slip = 0
  BY BrainSpendAssumption DEF BrainSpendAssumption, Slip
<1>8. ASSUME NEW s \in Scopes, NEW j \in Kinds
      PROVE  BilledStep(r, q, s, j) /\ CapStep(r, q, s, j)
  <2>1. DueOf(r, s, j) <= DueOf(q, s, j) + IF s = s0 /\ j = h THEN r.calls[j] ELSE 0
    <3>1. CASE Concerns(r, s) /\ j \in Due(r, s)
      <4>1. Concerns(q, s) /\ DueOf(r, s, j) = r.calls[j]
        BY <3>1 DEF Concerns, DueOf
      <4>2. CASE s = s0 /\ j = h
        BY <1>3, <4>1, <4>2 DEF DueOf, Req, Counts
      <4>3. CASE ~(s = s0 /\ j = h)
        <5>1. j \in Due(q, s)
          BY <3>1, <4>1, <4>3
        <5> QED
          BY <1>3, <4>1, <4>3, <5>1 DEF DueOf
      <4> QED
        BY <4>2, <4>3
    <3>2. CASE ~(Concerns(r, s) /\ j \in Due(r, s))
      BY <1>3, <3>2 DEF DueOf, Req, Counts
    <3> QED
      BY <3>1, <3>2
  <2>2. /\ used'[s][j] = used[s][j] + IF s = s0 /\ j = h THEN r.calls[j] ELSE 0
        /\ spent[s][j] \in Nat /\ used[s][j] \in Nat /\ r.calls[j] \in Nat
    BY <1>3, <1>4, <1>5
  <2>3. DueOf(r, s, j) \in Nat /\ DueOf(q, s, j) \in Nat
    BY <1>3 DEF DueOf, Req, Counts
  <2>4. BilledStep(r, q, s, j)
    BY <1>7, <2>1, <2>2, <2>3 DEF BilledStep
  <2>5. HardOf(q, s, j) <= HardOf(r, s, j) /\ HardOf(q, s, j) \in Nat /\ HardOf(r, s, j) \in Nat
    BY <1>7 DEF Lighter, HardOf
  <2>6. CapStep(r, q, s, j)
    BY <1>7, <2>2, <2>5 DEF CapStep
  <2> QED
    BY <2>4, <2>6
<1>9. ASSUME NEW d \in Dens, NEW j \in Kinds
      PROVE  FreeStep(r, q, d, j)
  <2>1. FreeOf(q, d, j) <= FreeOf(r, d, j) /\ FreeOf(q, d, j) \in Nat /\ FreeOf(r, d, j) \in Nat
    BY <1>7 DEF Lighter, FreeOf
  <2>2. FreeDen[j] = 0 => unpaid[d][j] = 0 /\ FreeOf(r, d, j) = 0
    BY DEF SpendInvariant, FreeBound
  <2>3. unpaid[d][j] \in Nat /\ spent[d][j] \in Nat
    BY DEF SpendInvariant, TypeOK, Counts, Scopes
  <2>4. unpaid'[d][j] = unpaid[d][j] /\ spent'[d][j] = spent[d][j]
    OBVIOUS
  <2> QED
    BY <1>7, <2>1, <2>2, <2>3, <2>4 DEF FreeStep
<1>10. lost' \in {lost, lost + 1}
  OBVIOUS
<1> QED
  BY <1>6, <1>8, <1>9, <1>10, StepKeepsBounds

LEMMA LogDenKeeps ==
  ASSUME SpendInvariant, NEW c \in Slots, LogDen(c)
  PROVE  SpendInvariant'
<1> DEFINE r == call[c]
           q == [r EXCEPT !.pc = "logAll"]
<1>1. r \in Req /\ InOrder(r) /\ Pays(r) /\ r.pc = "logDen" /\ call \in [Slots -> Req]
  BY SlotFacts DEF LogDen
<1>2. call' = [call EXCEPT ![c] = q]
  BY <1>1 DEF LogDen, Goto
<1>3. q \in Req
  BY <1>1 DEF Req, Working
<1>4. /\ q.pc = "logAll" /\ q.kind = r.kind /\ q.den = r.den /\ q.imagine = r.imagine
      /\ q.rag = r.rag /\ q.search = r.search /\ q.burned = r.burned /\ q.book = r.book
      /\ q.charged = r.charged /\ q.ticks = r.ticks /\ q.calls = r.calls
  BY <1>1 DEF Req
<1> HIDE DEF q
<1>5. InOrder(q)
  BY <1>1, <1>4 DEF InOrder, Asking, Working
<1>6. Pays(q)
  BY <1>1, <1>4 DEF Pays, Surface, Working
<1>7. Lighter(r, q) /\ (MaySpend(q) <=> MaySpend(r))
  BY <1>1, <1>4
     DEF Lighter, LetThrough, LetThroughFree, MaySpend, AsksFor, Asking
<1>8. ticks' = ticks /\ ticks \in [tools : Nat, chat : Nat] /\ ticks.tools \in Nat
  BY DEF LogDen, SpendInvariant, TypeOK
<1>9. UsdStep(r, q)
  <2>1. UsdOf(q) = UsdOf(r) /\ UsdOf(r) \in Nat
    BY <1>7, BrainSpendAssumption DEF UsdOf, BrainSpendAssumption
  <2> QED
    BY <1>8, <2>1 DEF UsdStep
<1>10. r.den \in Scopes /\ r.den # All /\ Concerns(r, r.den)
  BY <1>1, BrainSpendAssumption DEF Req, Scopes, Concerns, BrainSpendAssumption
<1>11. r.book \in ToBook
  BY <1>1 DEF InOrder
<1>12. Listed(r.book) = {Head(r.book)} \cup Listed(Tail(r.book))
       /\ Head(r.book) \notin Listed(Tail(r.book))
  BY <1>11, BookFacts
<1>13. Due(r, r.den) = Listed(r.book)
  BY <1>1 DEF Due
<1>14. ASSUME NEW s \in Scopes, Concerns(q, s)
       PROVE  Due(q, s) = Due(r, s) \ IF s = r.den THEN {Head(r.book)} ELSE {}
  <2>1. CASE s = r.den
    BY <1>1, <1>4, <1>10, <1>12, <2>1 DEF Due
  <2>2. CASE s = All
    BY <1>1, <1>4, <1>10, <2>2 DEF Due
  <2> QED
    BY <1>4, <1>14, <2>1, <2>2 DEF Concerns
<1>15. /\ used' = BookedCalls(r, r.den) /\ spent' = spent /\ unpaid' = unpaid
       /\ lost' = lost /\ balance' = balance
  BY DEF LogDen, history
<1>16. Head(r.book) \in Due(r, r.den)
  BY <1>12, <1>13
<1> QED
  BY <1>1, <1>2, <1>3, <1>4, <1>5, <1>6, <1>7, <1>8, <1>9, <1>10, <1>14, <1>15, <1>16, BookKeeps

LEMMA LogAllKeeps ==
  ASSUME SpendInvariant, NEW c \in Slots, LogAll(c)
  PROVE  SpendInvariant'
<1> DEFINE r == call[c]
           q == Booked(r)
           k == Head(r.book)
<1>1. r \in Req /\ InOrder(r) /\ Pays(r) /\ r.pc = "logAll" /\ call \in [Slots -> Req]
  BY SlotFacts DEF LogAll
<1>2. /\ call' = [call EXCEPT ![c] = q] /\ used' = BookedCalls(r, All)
      /\ spent' = spent /\ unpaid' = unpaid /\ lost' = lost /\ balance' = balance
      /\ ticks' = BookedTicks(r)
  BY DEF LogAll, Update, history
<1>3. /\ q \in Req /\ InOrder(q) /\ Pays(q) /\ Lighter(r, q) /\ ~MaySpend(q) /\ q.den = r.den
      /\ \A s \in Scopes : Due(q, s) = Listed(Tail(r.book))
      /\ Listed(Tail(r.book)) # {} => q.calls = r.calls
  BY <1>1, BookedFacts
<1> HIDE DEF q
<1>4. /\ All \in Scopes /\ Concerns(r, All) /\ r.den # All
      /\ MaxTicks \in Nat /\ MaxCalls \in Nat /\ Estimate \in [Kinds -> Nat]
      /\ \A j \in Kinds : MaxCalls * Estimate[j] <= MaxTicks
  BY <1>1, BrainSpendAssumption DEF Req, Scopes, Concerns, BrainSpendAssumption
<1>5. r.book \in ToBook /\ k \in Kinds \cup {"chat"}
      /\ Listed(r.book) = {k} \cup Listed(Tail(r.book)) /\ k \notin Listed(Tail(r.book))
  BY <1>1, BookFacts DEF InOrder
<1>6. Due(r, All) = Listed(r.book) /\ Due(r, r.den) = Listed(Tail(r.book))
  BY <1>1, <1>4 DEF Due
<1>7. ASSUME NEW s \in Scopes, Concerns(q, s)
      PROVE  Due(q, s) = Due(r, s) \ IF s = All THEN {k} ELSE {}
  <2>1. CASE s = All
    BY <1>3, <1>5, <1>6, <2>1
  <2>2. CASE s = r.den
    BY <1>3, <1>4, <1>6, <2>2
  <2> QED
    BY <1>3, <1>7, <2>1, <2>2 DEF Concerns
<1>8. ASSUME NEW j \in Kinds
      PROVE  r.calls[j] * Estimate[j] \in 0 .. MaxTicks
  <2>1. r.calls[j] \in Nat /\ r.calls[j] <= MaxCalls /\ Estimate[j] \in Nat
        /\ MaxCalls * Estimate[j] <= MaxTicks
    BY <1>1, <1>4 DEF Req, Counts, InOrder
  <2>2. \A a, b, e \in Nat : a <= b => a * e <= b * e /\ a * e \in Nat /\ b * e \in Nat
    OBVIOUS
  <2>3. r.calls[j] * Estimate[j] <= MaxCalls * Estimate[j]
        /\ r.calls[j] * Estimate[j] \in Nat /\ MaxCalls * Estimate[j] \in Nat
    BY <1>4, <2>1, <2>2
  <2> QED
    BY <1>4, <2>1, <2>3
<1>9. ticks \in [tools : Nat, chat : Nat] /\ ticks.tools \in Nat /\ ticks.chat \in Nat
      /\ r.ticks \in 0 .. MaxTicks
  BY <1>1, <1>4 DEF SpendInvariant, TypeOK, Req, InOrder
<1>10. /\ ticks' \in [tools : Nat, chat : Nat]
       /\ ticks'.tools = ticks.tools \/ (MaySpend(r) /\ ticks'.tools <= ticks.tools + MaxTicks)
  <2>1. CASE k = "chat"
    BY <1>2, <1>9, <2>1 DEF BookedTicks
  <2>2. CASE k = "search" /\ r.rag
    BY <1>2, <1>9, <2>2 DEF BookedTicks
  <2>3. CASE k # "chat" /\ ~(k = "search" /\ r.rag)
    <3>1. k \in Kinds /\ MaySpend(r)
      BY <1>1, <1>5, <2>3 DEF MaySpend
    <3> DEFINE x == IF r.ticks > 0 THEN r.ticks ELSE r.calls[k] * Estimate[k]
    <3>2. x \in 0 .. MaxTicks
      BY <1>8, <1>9, <3>1
    <3>3. ticks' = [ticks EXCEPT !.tools = @ + x]
      BY <1>2, <2>3 DEF BookedTicks
    <3> HIDE DEF x
    <3> QED
      BY <1>4, <1>9, <3>1, <3>2, <3>3
  <2> QED
    BY <2>1, <2>2, <2>3
<1>11. UsdStep(r, q)
  BY <1>3, <1>4, <1>9, <1>10 DEF UsdStep, UsdOf
<1>12. k \in Due(r, All)
  BY <1>5, <1>6
<1>13. \A s \in Scopes : Due(q, s) # {} => q.calls = r.calls
  BY <1>3
<1> QED
  BY <1>1, <1>2, <1>3, <1>4, <1>7, <1>10, <1>11, <1>12, <1>13, BookKeeps

(* A new day begins with empty books, so that what the requests under way  *)
(* weigh is all there is.                                                  *)
LEMMA EmptyBooksKeep ==
  ASSUME TypeOK', \A c \in Slots : InOrder(call'[c]) /\ Pays(call'[c]),
         used' = [s \in Scopes |-> [k \in Kinds |-> 0]],
         spent' = [s \in Scopes |-> [k \in Kinds |-> 0]],
         unpaid' = [d \in Dens |-> [k \in Kinds |-> 0]],
         ticks' = [tools |-> 0, chat |-> 0], lost' = 0,
         \A c \in Slots, d \in Dens, k \in Kinds :
           FreeDen[k] = 0 => FreeOf(call'[c], d, k) = 0
  PROVE  SpendInvariant'
<1> DEFINE g == call'
<1>1. g \in [Slots -> Req] /\ \A c \in Slots : InOrder(g[c])
  BY DEF TypeOK, Req
<1>2. MaxCalls \in Nat \ {0} /\ MaxTicks \in Nat \ {0} /\ DailyUsd \in Nat \ {0}
      /\ HardDen \in [Kinds -> Nat \ {0}] /\ HardGlobal \in [Kinds -> Nat \ {0}]
      /\ FreeDen \in [Kinds -> Nat]
  BY BrainSpendAssumption DEF BrainSpendAssumption
<1>3. Lost(0) = 0
  BY <1>2 DEF Lost
<1> HIDE DEF g
<1>4. ASSUME NEW s \in Scopes, NEW j \in Kinds
      PROVE  BilledBound(s, j)' /\ CapBound(s, j)'
  <2> DEFINE D == Dues(g, s, j)
             H == Hards(g, s, j)
  <2>1. D \in [Slots -> 0 .. MaxCalls] /\ H \in [Slots -> 0 .. MaxCalls]
    <3>1. ASSUME NEW h \in Req, InOrder(h)
          PROVE  DueOf(h, s, j) \in 0 .. MaxCalls /\ HardOf(h, s, j) \in 0 .. MaxCalls
      <4>1. h.den \in Dens
        BY DEF Req
      <4>2. DueOf(h, s, j) \in 0 .. MaxCalls /\ HardOf(h, s, j) \in {0, MaxCalls}
        BY Weights, <3>1, <4>1
      <4> QED
        BY <4>2, <1>2
    <3> QED
      BY <3>1, <1>1 DEF Dues, Hards
  <2>2. HardCap(s, j) \in Nat \ {0}
    BY <1>2 DEF HardCap
  <2>3. /\ BilledBound(s, j)' <=> 0 <= 0 + Sum(D, MaxCalls) + Lost(0)
        /\ CapBound(s, j)' <=>
             0 + Sum(H, MaxCalls) <= HardCap(s, j) - 1 + Room(MaxCalls) + Lost(0)
    BY DEF BilledBound, CapBound, g
  <2> HIDE DEF D, H
  <2>4. /\ Sum(D, MaxCalls) \in Nat /\ Sum(H, MaxCalls) \in Nat /\ Room(MaxCalls) \in Nat
        /\ Sum(H, MaxCalls) <= Room(MaxCalls)
    BY <1>2, <2>1, SumTypes
  <2> QED
    BY <1>3, <2>2, <2>3, <2>4
<1>5. ASSUME NEW d \in Dens, NEW j \in Kinds
      PROVE  FreeBound(d, j)'
  <2> DEFINE F == Frees(g, d, j)
  <2>1. F \in [Slots -> 0 .. MaxCalls]
    BY <1>2 DEF Frees, FreeOf
  <2>2. d \in Scopes /\ unpaid'[d][j] = 0 /\ spent'[d][j] = 0
    BY DEF Scopes
  <2>3. FreeDen[j] = 0 => \A c \in Slots : FreeOf(call'[c], d, j) = 0
    OBVIOUS
  <2>4. FreeBound(d, j)' <=>
          IF FreeDen[j] = 0 THEN TRUE
          ELSE 0 + Sum(F, MaxCalls) <= FreeDen[j] - 1 + Room(MaxCalls) + Lost(0)
    BY <2>2, <2>3 DEF FreeBound, g
  <2> HIDE DEF F
  <2>5. /\ Sum(F, MaxCalls) \in Nat /\ Room(MaxCalls) \in Nat
        /\ Sum(F, MaxCalls) <= Room(MaxCalls)
    BY <1>2, <2>1, SumTypes
  <2>6. FreeDen[j] \in Nat
    BY <1>2
  <2> QED
    BY <1>3, <2>4, <2>5, <2>6
<1>6. UsdBound'
  <2> DEFINE U == Usds(g)
  <2>1. U \in [Slots -> 0 .. MaxTicks]
    BY <1>2 DEF Usds, UsdOf
  <2>2. UsdBound' <=> 0 + Sum(U, MaxTicks) <= DailyUsd - 1 + Room(MaxTicks)
    BY DEF UsdBound, g
  <2> HIDE DEF U
  <2>3. /\ Sum(U, MaxTicks) \in Nat /\ Room(MaxTicks) \in Nat
        /\ Sum(U, MaxTicks) <= Room(MaxTicks)
    BY <1>2, <2>1, SumTypes
  <2> QED
    BY <1>2, <2>2, <2>3
<1> QED
  BY <1>4, <1>5, <1>6 DEF SpendInvariant

(* The reads that are out at midnight come back, whatever they say: where  *)
(* the free pool is nothing, it is still found empty.                      *)
LEMMA LateReads ==
  ASSUME SpendInvariant, NEW c \in Slots, call[c].pc = "reading",
         NEW late \in BOOLEAN, NEW q,
         LET all == Seen(call[c], call[c].seen.out)
         IN  q = [call[c] EXCEPT !.seen = [all EXCEPT !.empty = @ \/ late]]
  PROVE  /\ q \in Req /\ InOrder(q) /\ Pays(q)
         /\ \A d \in Dens, k \in Kinds : FreeDen[k] = 0 => FreeOf(q, d, k) = 0
<1> DEFINE r == call[c]
           out == r.seen.out
           hard == r.seen.hard \/ AtCeiling(r, out)
           found == r.seen.empty \/ PoolEmpty(r, out)
<1>1. r \in Req /\ InOrder(r) /\ Pays(r) /\ r.pc = "reading"
  BY SlotFacts
<1>2. r.seen.out \in SUBSET Reads /\ r.seen.hard \in BOOLEAN /\ r.seen.empty \in BOOLEAN
      /\ r.kind \in Kinds /\ r.den \in Dens
  BY <1>1 DEF Req, InOrder
<1>3. PICK empty \in BOOLEAN :
        /\ empty = found \/ empty = TRUE
        /\ q = [r EXCEPT !.seen = [out |-> {}, hard |-> hard, empty |-> empty]]
  <2> DEFINE all == Seen(r, out)
  <2>1. all = [out |-> {}, hard |-> hard, empty |-> found]
    BY DEF Seen
  <2>2. found \in BOOLEAN
    BY <1>2 DEF PoolEmpty
  <2>3. q = [r EXCEPT !.seen = [all EXCEPT !.empty = @ \/ late]]
    OBVIOUS
  <2> HIDE DEF found, hard, out, all
  <2>4. [all EXCEPT !.empty = @ \/ late] =
          [out |-> {}, hard |-> hard, empty |-> found \/ late]
    BY <2>1
  <2> QED
    BY <2>2, <2>3, <2>4
<1>4. hard \in BOOLEAN
  BY <1>2 DEF AtCeiling
<1>5. /\ q \in Req /\ InOrder(q) /\ Pays(q)
      /\ q.pc = "reading" /\ q.kind = r.kind /\ q.den = r.den /\ q.rag = r.rag
      /\ q.search = r.search /\ q.burned = r.burned
      /\ q.seen.hard = hard /\ q.seen.empty = empty
  <2> DEFINE none == {}
             p == [r EXCEPT !.seen = [out |-> none, hard |-> hard, empty |-> empty]]
  <2>1. none \in SUBSET Reads
    OBVIOUS
  <2>2. q = p
    BY <1>3
  <2> HIDE DEF hard, out, none
  <2>3. /\ p \in Req /\ InOrder(p) /\ Pays(p)
        /\ p.pc = "reading" /\ p.kind = r.kind /\ p.den = r.den /\ p.rag = r.rag
        /\ p.search = r.search /\ p.burned = r.burned
        /\ p.seen.hard = hard /\ p.seen.empty = empty
    BY <1>1, <1>4, <2>1, SeenFacts
  <2> HIDE DEF p
  <2> QED
    BY <2>2, <2>3
<1>6. ASSUME NEW d \in Dens, NEW k \in Kinds, FreeDen[k] = 0, FreeOf(q, d, k) # 0
      PROVE  FALSE
  <2>1. FreeOf(r, d, k) = 0 /\ MaxCalls # 0
    BY <1>6, BrainSpendAssumption DEF SpendInvariant, FreeBound, BrainSpendAssumption
  <2>2. r.den = d /\ LetThroughFree(q, k) /\ ~LetThroughFree(r, k)
    BY <1>5, <1>6, <2>1 DEF FreeOf
  <2>3. r.kind = k /\ ~empty /\ ~hard /\ ~(~r.seen.empty /\ ~r.seen.hard /\ "den" \notin out)
    BY <1>1, <1>5, <2>2 DEF LetThroughFree, AsksFor, Asking
  <2>4. "den" \in out /\ ~PoolEmpty(r, out)
    BY <1>3, <2>3
  <2>5. used[r.den][k] \in Nat
    BY <1>2 DEF SpendInvariant, TypeOK, Counts, Scopes
  <2> QED
    BY <1>6, <2>3, <2>4, <2>5 DEF PoolEmpty, Reached
<1> QED
  BY <1>5, <1>6

LEMMA MidnightKeeps ==
  ASSUME SpendInvariant, NEW issued \in SUBSET Slots, NEW emptied \in SUBSET Slots,
         Midnight(issued, emptied)
  PROVE  SpendInvariant'
<1>1. \A c \in Slots : call[c] \in Req /\ InOrder(call[c]) /\ Pays(call[c])
  BY SlotFacts
<1>2. ASSUME NEW c \in Slots
      PROVE  \/ call'[c] = call[c]
             \/ call[c].pc \in {"logDen", "logAll"} /\ call'[c] = Booked(call[c])
             \/ /\ call[c].pc = "reading"
                /\ LET all == Seen(call[c], call[c].seen.out)
                   IN  call'[c] =
                         [call[c] EXCEPT !.seen = [all EXCEPT !.empty = @ \/ c \in emptied]]
  <2>1. CASE EndsYesterday(c, issued)
    BY <2>1 DEF Midnight, EndsYesterday
  <2>2. CASE ~EndsYesterday(c, issued) /\ call[c].pc = "reading"
    BY <2>2 DEF Midnight
  <2>3. CASE ~EndsYesterday(c, issued) /\ call[c].pc # "reading"
    BY <2>3 DEF Midnight
  <2> QED
    BY <2>1, <2>2, <2>3
<1>3. ASSUME NEW c \in Slots
      PROVE  /\ call'[c] \in Req /\ InOrder(call'[c]) /\ Pays(call'[c])
             /\ \/ call'[c] = call[c] \/ Lighter(call[c], call'[c])
                \/ \A d \in Dens, k \in Kinds : FreeDen[k] = 0 => FreeOf(call'[c], d, k) = 0
  <2>1. CASE call'[c] = call[c]
    BY <1>1, <2>1
  <2>2. CASE call[c].pc \in {"logDen", "logAll"} /\ call'[c] = Booked(call[c])
    BY <1>1, <2>2, BookedFacts
  <2>3. CASE /\ call[c].pc = "reading"
             /\ LET all == Seen(call[c], call[c].seen.out)
                IN  call'[c] =
                      [call[c] EXCEPT !.seen = [all EXCEPT !.empty = @ \/ c \in emptied]]
    <3> DEFINE late == c \in emptied
               q == call'[c]
    <3>1. late \in BOOLEAN /\ call[c].pc = "reading"
      BY <2>3
    <3>2. LET all == Seen(call[c], call[c].seen.out)
          IN  q = [call[c] EXCEPT !.seen = [all EXCEPT !.empty = @ \/ late]]
      BY <2>3 DEF late
    <3> HIDE DEF late, q
    <3>3. /\ q \in Req /\ InOrder(q) /\ Pays(q)
          /\ \A d \in Dens, k \in Kinds : FreeDen[k] = 0 => FreeOf(q, d, k) = 0
      BY <3>1, <3>2, LateReads
    <3> QED
      BY <3>3 DEF q
  <2> QED
    BY <1>2, <2>1, <2>2, <2>3
<1>4. /\ used' = [s \in Scopes |-> [k \in Kinds |-> 0]]
      /\ spent' = [s \in Scopes |-> [k \in Kinds |-> 0]]
      /\ unpaid' = [d \in Dens |-> [k \in Kinds |-> 0]]
      /\ ticks' = [tools |-> 0, chat |-> 0] /\ lost' = 0 /\ balance' = balance
  BY DEF Midnight
<1>5. call' \in [Slots -> Req]
  <2>1. call' = [c \in Slots |-> call'[c]]
    BY DEF Midnight
  <2> QED
    BY <1>3, <2>1
<1>6. TypeOK'
  <2>1. [k \in Kinds |-> 0] \in Counts
    BY DEF Counts
  <2>2. balance \in [Users -> Nat]
    BY DEF SpendInvariant, TypeOK
  <2> QED
    BY <1>4, <1>5, <2>1, <2>2 DEF TypeOK, Req
<1>7. ASSUME NEW c \in Slots, NEW d \in Dens, NEW k \in Kinds, FreeDen[k] = 0
      PROVE  FreeOf(call'[c], d, k) = 0
  <2>1. FreeOf(call[c], d, k) = 0
    BY <1>7 DEF SpendInvariant, FreeBound
  <2>2. MaxCalls \in Nat \ {0}
    BY BrainSpendAssumption DEF BrainSpendAssumption
  <2> QED
    BY <1>3, <1>7, <2>1, <2>2 DEF Lighter, FreeOf
<1> QED
  BY <1>3, <1>4, <1>6, <1>7, EmptyBooksKeep

-----------------------------------------------------------------------------

(* The invariant holds in every state.                                     *)
LEMMA SpendInvariantHolds == Spec => []SpendInvariant
<1>1. Init => SpendInvariant
  <2> SUFFICES ASSUME Init
               PROVE  SpendInvariant
    OBVIOUS
  <2>1. PICK u \in Users, d \in Dens : call = [c \in Slots |-> Request(u, d, FALSE)]
    BY DEF Init
  <2> DEFINE r == Request(u, d, FALSE)
  <2>2. r \in Req /\ InOrder(r) /\ Pays(r) /\ r.pc = "idle"
    BY RequestFacts
  <2> HIDE DEF r
  <2>3. \A c \in Slots : call[c] = r
    BY <2>1 DEF r
  <2>4. TypeOK
    <3>1. [k \in Kinds |-> 0] \in Counts /\ MaxBalance \in Nat
      BY BrainSpendAssumption DEF Counts, BrainSpendAssumption
    <3>2. call \in [Slots -> Req]
      BY <2>1, <2>2 DEF r
    <3>3. balance \in [Users -> Nat]
      BY <3>1 DEF Init
    <3>4. ticks \in [tools : Nat, chat : Nat] /\ lost \in Nat
      BY DEF Init
    <3>5. used \in [Scopes -> Counts] /\ spent \in [Scopes -> Counts] /\ unpaid \in [Dens -> Counts]
      BY <3>1 DEF Init
    <3> QED
      BY <3>2, <3>3, <3>4, <3>5 DEF TypeOK, Req
  <2>5. \A s, j : DueOf(r, s, j) = 0 /\ HardOf(r, s, j) = 0 /\ FreeOf(r, s, j) = 0 /\ UsdOf(r) = 0
    BY <2>2 DEF DueOf, HardOf, FreeOf, UsdOf, Due, LetThrough, LetThroughFree, MaySpend,
                AsksFor, Asking
  <2>6. /\ MaxCalls \in Nat \ {0} /\ MaxTicks \in Nat \ {0} /\ DailyUsd \in Nat \ {0}
        /\ HardDen \in [Kinds -> Nat \ {0}] /\ HardGlobal \in [Kinds -> Nat \ {0}]
        /\ FreeDen \in [Kinds -> Nat] /\ Lost(0) = 0 /\ lost = 0
    BY BrainSpendAssumption DEF BrainSpendAssumption, Lost, Init
  <2> DEFINE z == [c \in Slots |-> 0]
  <2>7. \A s, j : /\ Dues(call, s, j) = z /\ Hards(call, s, j) = z
                  /\ Frees(call, s, j) = z /\ Usds(call) = z
    BY <2>3, <2>5 DEF Dues, Hards, Frees, Usds
  <2>8. z \in [Slots -> 0 .. MaxCalls] /\ z \in [Slots -> 0 .. MaxTicks]
    BY <2>6
  <2> HIDE DEF z
  <2>9. /\ Sum(z, MaxCalls) \in Nat /\ Sum(z, MaxCalls) <= Room(MaxCalls)
        /\ Sum(z, MaxTicks) \in Nat /\ Sum(z, MaxTicks) <= Room(MaxTicks)
        /\ Room(MaxCalls) \in Nat /\ Room(MaxTicks) \in Nat
    BY <2>6, <2>8, SumTypes
  <2>10. ASSUME NEW s \in Scopes, NEW j \in Kinds
         PROVE  BilledBound(s, j) /\ CapBound(s, j)
    <3>1. used[s][j] = 0 /\ spent[s][j] = 0
      BY DEF Init
    <3>2. HardCap(s, j) \in Nat \ {0}
      BY <2>6 DEF HardCap
    <3> QED
      BY <2>6, <2>7, <2>9, <3>1, <3>2 DEF BilledBound, CapBound
  <2>11. ASSUME NEW e \in Dens, NEW j \in Kinds
         PROVE  FreeBound(e, j)
    <3>1. e \in Scopes /\ unpaid[e][j] = 0 /\ spent[e][j] = 0
      BY DEF Init, Scopes
    <3>2. FreeDen[j] \in Nat
      BY <2>6
    <3>3. \A c \in Slots : FreeOf(call[c], e, j) = 0
      BY <2>3, <2>5
    <3> QED
      BY <2>6, <2>7, <2>9, <3>1, <3>2, <3>3 DEF FreeBound
  <2>12. UsdBound
    <3>1. ticks.tools = 0
      BY DEF Init
    <3> QED
      BY <2>6, <2>7, <2>9, <3>1 DEF UsdBound
  <2> QED
    BY <2>2, <2>3, <2>4, <2>10, <2>11, <2>12 DEF SpendInvariant
<1>2. SpendInvariant /\ [Next]_vars => SpendInvariant'
  <2> SUFFICES ASSUME SpendInvariant, [Next]_vars
               PROVE  SpendInvariant'
    OBVIOUS
  <2>1. CASE UNCHANGED vars
    BY <2>1 DEF vars, SpendInvariant, TypeOK, BilledBound, CapBound, FreeBound, UsdBound
  <2>2. CASE \E issued, emptied \in SUBSET Slots : Midnight(issued, emptied)
    BY <2>2, MidnightKeeps
  <2>3. ASSUME NEW c \in Slots, CallStep(c)
        PROVE  SpendInvariant'
    <3>1. CASE \E u \in Users, d \in Dens, imagine \in BOOLEAN : Begin(c, u, d, imagine)
      BY <3>1, BeginKeeps
    <3>2. CASE GoOn(c)
      BY <3>2, GoOnKeeps
    <3>3. CASE \E what \in Reads : Read(c, what)
      BY <3>3, ReadKeeps
    <3>4. CASE Decide(c) \/ ReadFails(c)
      BY <3>4, DecideKeeps
    <3>5. CASE Debit(c)
      BY <3>5, DebitKeeps
    <3>6. CASE \E t \in 0 .. MaxTicks : Paints(c, t)
      BY <3>6, PaintsKeeps
    <3>7. CASE \E n, m \in 0 .. MaxCalls, t \in 0 .. MaxTicks : Replies(c, n, m, t)
      BY <3>7, RepliesKeeps
    <3>8. CASE FallsBack(c)
      BY <3>8, FallsBackKeeps
    <3>9. CASE \E n, m \in 0 .. MaxCalls : Wasted(c, n, m)
      BY <3>9, WastedKeeps
    <3>10. CASE Unavailable(c) \/ BadImage(c) \/ Post(c) \/ Breaks(c)
      BY <3>10, EndKeeps
    <3>11. CASE Store(c)
      BY <3>11, StoreKeeps
    <3>12. CASE LogDen(c)
      BY <3>12, LogDenKeeps
    <3>13. CASE LogAll(c)
      BY <3>13, LogAllKeeps
    <3>14. CASE LogFails(c)
      BY <3>14, LogFailsKeeps
    <3>15. CASE Settle(c)
      BY <3>15, SettleKeeps
    <3> QED
      BY <2>3, <3>1, <3>2, <3>3, <3>4, <3>5, <3>6, <3>7, <3>8, <3>9, <3>10, <3>11, <3>12,
         <3>13, <3>14, <3>15 DEF CallStep
  <2> QED
    BY <2>1, <2>2, <2>3 DEF Next
<1> QED
  BY <1>1, <1>2, PTL DEF Spec

(* The state of the money spent on Grok is well formed in every state.     *)
THEOREM SpendTypes == Spec => []TypeOK
<1>1. SpendInvariant => TypeOK
  BY DEF SpendInvariant
<1> QED
  BY <1>1, SpendInvariantHolds, PTL

(* However many requests check the caps of a den or of the pack at once,   *)
(* xAI never bills more calls of a kind than the hard ceiling, the         *)
(* requests in flight and those that were not booked add up to             *)
(* (caps.js:8-10, 104-114, 150-153).                                       *)
THEOREM HardCeilingsAreKept == Spec => []HardCeilingsHold
<1>1. SpendInvariant => HardCeilingsHold
  <2> SUFFICES ASSUME SpendInvariant, NEW s \in Scopes, NEW k \in Kinds
               PROVE  spent[s][k] <= HardCap(s, k) - 1 + Slack
    BY DEF HardCeilingsHold
  <2>1. CapBound(s, k) /\ lost \in Nat /\ spent[s][k] \in Nat
    BY DEF SpendInvariant, TypeOK, Counts
  <2>2. Sum(Hards(call, s, k), MaxCalls) \in Nat
    <3>1. MaxCalls \in Nat
      BY BrainSpendAssumption DEF BrainSpendAssumption
    <3>2. Hards(call, s, k) \in [Slots -> 0 .. MaxCalls]
      BY <3>1 DEF Hards, HardOf
    <3> QED
      BY <3>1, <3>2, SumTypes
  <2>3. Slack = Room(MaxCalls) + Lost(lost) /\ Slack \in Nat
    BY <2>1, SlackFacts
  <2>4. HardCap(s, k) \in Nat
    BY BrainSpendAssumption DEF BrainSpendAssumption, HardCap
  <2>5. Room(MaxCalls) \in Nat /\ Lost(lost) \in Nat
    BY <2>1, SlackFacts
  <2> QED
    BY <2>1, <2>2, <2>3, <2>4, <2>5 DEF CapBound
<1> QED
  BY <1>1, SpendInvariantHolds, PTL

(* The calls of a den that nobody paid for stay within its free pool, up   *)
(* to the same slack (caps.js:11-14, 116-128).                             *)
THEOREM FreePoolIsKept == Spec => []FreePoolHolds
<1>1. SpendInvariant => FreePoolHolds
  <2> SUFFICES ASSUME SpendInvariant, NEW d \in Dens, NEW k \in Kinds
               PROVE  unpaid[d][k] <= IF FreeDen[k] = 0 THEN 0 ELSE FreeDen[k] - 1 + Slack
    BY DEF FreePoolHolds
  <2>1. FreeBound(d, k) /\ lost \in Nat /\ unpaid[d][k] \in Nat
    BY DEF SpendInvariant, TypeOK, Counts
  <2>2. Sum(Frees(call, d, k), MaxCalls) \in Nat
    <3>1. MaxCalls \in Nat
      BY BrainSpendAssumption DEF BrainSpendAssumption
    <3>2. Frees(call, d, k) \in [Slots -> 0 .. MaxCalls]
      BY <3>1 DEF Frees, FreeOf
    <3> QED
      BY <3>1, <3>2, SumTypes
  <2>3. Slack = Room(MaxCalls) + Lost(lost) /\ Slack \in Nat
        /\ Room(MaxCalls) \in Nat /\ Lost(lost) \in Nat
    BY <2>1, SlackFacts
  <2>4. FreeDen[k] \in Nat
    BY BrainSpendAssumption DEF BrainSpendAssumption
  <2> QED
    BY <2>1, <2>2, <2>3, <2>4 DEF FreeBound
<1> QED
  BY <1>1, SpendInvariantHolds, PTL

(* The paid surfaces of a day stop at the USD ceiling, up to one request   *)
(* of every slot (caps.js:48, 105-107).                                    *)
THEOREM ToolSpendIsCapped == Spec => []ToolSpendUnderUsdCeiling
<1>1. SpendInvariant => ToolSpendUnderUsdCeiling
  <2> SUFFICES ASSUME SpendInvariant
               PROVE  ToolSpendUnderUsdCeiling
    OBVIOUS
  <2>1. UsdBound /\ ticks.tools \in Nat
    BY DEF SpendInvariant, TypeOK
  <2>2. MaxTicks \in Nat /\ DailyUsd \in Nat
    BY BrainSpendAssumption DEF BrainSpendAssumption
  <2>3. Usds(call) \in [Slots -> 0 .. MaxTicks]
    BY <2>2 DEF Usds, UsdOf
  <2>4. Sum(Usds(call), MaxTicks) \in Nat /\ Room(MaxTicks) \in Nat
    BY <2>2, <2>3, SumTypes
  <2> QED
    BY <2>1, <2>2, <2>4 DEF UsdBound, ToolSpendUnderUsdCeiling, Room
<1> QED
  BY <1>1, SpendInvariantHolds, PTL

(* However a request ends, its payer was charged at most the quote of the  *)
(* surface, once (credits.js:90-107).                                      *)
THEOREM PayersPayTheQuote == Spec => []ChargedAtMostQuote
<1>1. SpendInvariant => ChargedAtMostQuote
  <2> SUFFICES ASSUME SpendInvariant, NEW c \in Slots, call[c].pc \in Working
               PROVE  call[c].charged <= Quote(Surface(call[c]), call[c].ticks)
    BY DEF ChargedAtMostQuote, Surface
  <2> DEFINE r == call[c]
  <2>1. r \in Req /\ Pays(r)
    BY SlotFacts
  <2>2. Surface(r) \in Kinds /\ r.ticks \in Nat
    BY <2>1 DEF Surface, Kinds, Req
  <2>3. /\ Quote(Surface(r), r.ticks) \in Nat /\ Floor[Surface(r)] \in Nat
        /\ Floor[Surface(r)] <= Quote(Surface(r), r.ticks)
    BY <2>2, QuoteFacts
  <2>4. CASE r.pc = "post"
    BY <2>1, <2>4 DEF Pays
  <2>5. CASE r.pc # "post"
    <3>1. r.charged \in {0, Floor[Surface(r)]}
      BY <2>1, <2>5 DEF Pays
    <3> QED
      BY <2>3, <3>1
  <2> QED
    BY <2>4, <2>5
<1> QED
  BY <1>1, SpendInvariantHolds, PTL

=============================================================================
