------------------------------ MODULE BrainSpend ------------------------------
(***************************************************************************)
(* The paid Grok calls of POST /api/dens/:slug/messages (src/api.js) under *)
(* the spend caps of src/caps.js and the brain_usage ledger of src/db.js.  *)
(*                                                                         *)
(* Each paid surface - the image of /imagine, the live search and the      *)
(* document search (rag) of a generated reply - passes a pre-flight check: *)
(* three concurrent reads of the day's ledger, then hard ceilings, then    *)
(* the free pool, and past the free pool a credit debit.  The call is      *)
(* booked only after xAI has answered, den row first, '*' row second; a    *)
(* failed booking is swallowed, and an answer that is no use is not booked *)
(* though xAI bills it.  So the caps are check-then-act: this              *)
(* module says how far the day can overshoot them, and what a payer pays.  *)
(*                                                                         *)
(* A debit is one atomic step that is taken or refused (what Credits shows *)
(* atomicDebit to be, see AtomicCredits); it may throw either way.         *)
(* The per-request guards before it (identity, softRateLimit, config) only *)
(* turn requests away and are left out.                                    *)
(***************************************************************************)
EXTENDS Integers, Sequences, FiniteSets

CONSTANTS
  Dens,           \* den slugs
  Users,          \* payers
  Slots,          \* requests in flight at once; a slot serves one after another
  SearchDens,     \* dens with live search switched on
  RagDens,        \* dens with a ready knowledge base
  HardDen, HardGlobal, FreeDen, \* kind -> calls per day
  DailyUsd, FreeUsd,            \* the two USD fuses, in ticks
  Floor,          \* kind -> flat credits of a burn, 0 where there is none
  CreditsPerTick, \* what a burn asks for a tick of real cost
  Estimate,       \* kind -> ticks booked for a call whose cost xAI left out
  MaxCalls,       \* most calls of one kind a single request makes
  MaxTicks,       \* most ticks a single request costs
  MaxBalance,     \* bound: credits a user starts with
  MaxLost,        \* bound: billed calls of a day that are not booked
  ChatBound       \* bound: ticks of a day's tools-off replies

Kinds == {"image", "search", "rag"}
All == "*"        \* the ledger's global sentinel scope
Scopes == Dens \cup {All}

ASSUME BrainSpendAssumption ==
  /\ All \notin Dens
  /\ IsFiniteSet(Slots)
  /\ {HardDen, HardGlobal} \subseteq [Kinds -> Nat \ {0}]
  /\ {FreeDen, Floor, Estimate} \subseteq [Kinds -> Nat]
  /\ Floor["rag"] = 0
  /\ {DailyUsd, CreditsPerTick, MaxCalls, MaxTicks} \subseteq Nat \ {0}
  /\ \A k \in Kinds : FreeDen[k] <= HardDen[k] /\ MaxCalls * Estimate[k] <= MaxTicks
  /\ {FreeUsd, MaxBalance, MaxLost, ChatBound} \subseteq Nat
  /\ FreeUsd <= DailyUsd

VARIABLES
  used,    \* brain_usage of today: scope -> kind -> calls
  ticks,   \* brain_usage of today: the ticks of the '*' rows, summed over the
           \* paid surfaces ("tools") and for tools-off replies ("chat")
  balance, \* user -> credits
  call,    \* slot -> request
  spent,   \* history: scope -> kind -> calls xAI billed today
  unpaid,  \* history: those among them nobody paid credits for
  lost     \* history: billed calls that were not booked today

vars == <<used, ticks, balance, call, spent, unpaid, lost>>
history == <<spent, unpaid, lost>>

\* What a pre-flight knows: the reads still out, and whether what has come
\* back so far is at a hard ceiling or past the free pool.
Reads == {"den", "all", "ticks"}
NothingSeen == [out |-> Reads, hard |-> FALSE, empty |-> FALSE]

Working == {"reading", "debit", "upstream", "fallback", "store", "logDen", "logAll",
            "settle", "post"}
\* The two answers that end in "Nothing was charged."; all others are alike.
SayUncharged == {"imagine_capped", "imagine_unavailable"}
Free == {"idle"} \cup SayUncharged

\* A request.  `kind` is the surface at hand ("chat": the tools-off completion);
\* `rag` and `search` are the tools the reply may use; `seen` is what the reads
\* have returned; `burned` is what the handler knows it burned up front and
\* `charged` what was really debited; `calls` and `ticks` are xAI's bill (0
\* ticks: it named no cost); `book` are the surfaces still to be booked.
Request(u, d, imagine) ==
  [pc |-> "idle", user |-> u, den |-> d, imagine |-> imagine,
   kind |-> "chat", rag |-> FALSE, search |-> FALSE, seen |-> NothingSeen,
   burned |-> 0, charged |-> 0,
   calls |-> [k \in Kinds |-> 0], ticks |-> 0, book |-> <<>>]

Init ==
  /\ used = [s \in Scopes |-> [k \in Kinds |-> 0]]
  /\ ticks = [tools |-> 0, chat |-> 0]
  /\ balance \in [Users -> 0 .. MaxBalance]
  /\ \E u \in Users, d \in Dens : call = [c \in Slots |-> Request(u, d, FALSE)]
  /\ spent = [s \in Scopes |-> [k \in Kinds |-> 0]]
  /\ unpaid = [d \in Dens |-> [k \in Kinds |-> 0]]
  /\ lost = 0

Update(c, changed) == call' = [call EXCEPT ![c] = changed]
Goto(c, pc) == call' = [call EXCEPT ![c].pc = pc]

\* The slot is free again.
Done(r) == Request(r.user, r.den, FALSE)

\* The handler says that nothing was charged: what really was is kept.
Uncharged(r, pc) == [Done(r) EXCEPT !.pc = pc, !.charged = r.charged]

-----------------------------------------------------------------------------
(* pre-flight                                                              *)

\* Look into the ledger for the surface k.
Preflight(r, k) == [r EXCEPT !.pc = "reading", !.kind = k]

ToolsOff(r) == [r EXCEPT !.pc = "upstream", !.kind = "chat"]

SearchOrChat(r) ==
  IF r.den \in SearchDens THEN Preflight(r, "search") ELSE ToolsOff(r)

Generate(r) ==
  IF r.den \in RagDens THEN Preflight(r, "rag") ELSE SearchOrChat(r)

Begin(c, u, d, imagine) ==
  LET r == Request(u, d, imagine)
  IN  /\ call[c].pc \in Free
      /\ Update(c, IF imagine THEN Preflight(r, "image") ELSE Generate(r))
      /\ UNCHANGED <<used, ticks, balance, history>>

\* An /imagine that also asked for a generated reply goes on to that.
GoOn(c) ==
  LET r == call[c]
  IN  /\ r.pc = "post" /\ r.imagine
      /\ Update(c, Generate(Request(r.user, r.den, FALSE)))
      /\ UNCHANGED <<used, ticks, balance, history>>

\* A faulty comparison: the cap is let through once more.
ReachedLate(n, cap) == n > cap

Reached(n, cap) == n >= cap

\* What those reads say of the surface at hand.
AtCeiling(r, reads) ==
  LET k == r.kind
  IN  \/ "den" \in reads /\ Reached(used[r.den][k], HardDen[k])
      \/ "all" \in reads /\ Reached(used[All][k], HardGlobal[k])
      \/ "ticks" \in reads /\ Reached(ticks.tools + ticks.chat, DailyUsd)

PoolEmpty(r, reads) ==
  \/ "den" \in reads /\ Reached(used[r.den][r.kind], FreeDen[r.kind])
  \/ "ticks" \in reads /\ Reached(ticks.tools + ticks.chat, FreeUsd)

Seen(r, reads) ==
  [out |-> r.seen.out \ reads,
   hard |-> r.seen.hard \/ AtCeiling(r, reads),
   empty |-> r.seen.empty \/ PoolEmpty(r, reads)]

\* The three reads of Promise.all land in any order.
Read(c, what) ==
  /\ call[c].pc = "reading"
  /\ what \in call[c].seen.out
  /\ Update(c, [call[c] EXCEPT !.seen = Seen(call[c], {what})])
  /\ UNCHANGED <<used, ticks, balance, history>>

\* A refused surface: /imagine answers 429; a reply goes on without the tool.
Refused(r) ==
  LET fresh == [r EXCEPT !.seen = NothingSeen]
  IN  IF r.imagine THEN Uncharged(r, "imagine_capped")
      ELSE IF r.kind = "rag" THEN SearchOrChat(fresh)
      ELSE IF r.rag THEN [fresh EXCEPT !.pc = "upstream", !.kind = "rag"]
      ELSE ToolsOff(fresh)

\* An allowed one.  A document search asks for the web search as well, where
\* the den has it; otherwise xAI is called.
Allowed(r, burned) ==
  LET fresh == [r EXCEPT !.seen = NothingSeen, !.burned = burned]
      go == [fresh EXCEPT !.pc = "upstream"]
  IN  IF r.kind = "image" THEN go
      ELSE IF r.kind = "search"
      THEN [go EXCEPT !.search = TRUE, !.kind = IF r.rag THEN "rag" ELSE "search"]
      ELSE IF r.den \in SearchDens
      THEN [Preflight(fresh, "search") EXCEPT !.rag = TRUE]
      ELSE [go EXCEPT !.rag = TRUE]

\* Only a call with a payer and a floor rate may burn; the web search beside a
\* document search is checked without a payer.
MayBurn(r) == Floor[r.kind] > 0 /\ ~r.rag

\* A faulty Admit: the free pool is not looked at.
AdmitAllFree(r) == IF r.seen.hard THEN Refused(r) ELSE Allowed(r, 0)

Admit(r) ==
  IF r.seen.hard THEN Refused(r)
  ELSE IF ~r.seen.empty THEN Allowed(r, 0)
  ELSE IF MayBurn(r) THEN [r EXCEPT !.pc = "debit"] ELSE Refused(r)

Decide(c) ==
  /\ call[c].pc = "reading"
  /\ call[c].seen.out = {}
  /\ Update(c, Admit(call[c]))
  /\ UNCHANGED <<used, ticks, balance, history>>

\* A ledger that cannot be read refuses the call.
ReadFails(c) ==
  /\ call[c].pc = "reading"
  /\ Update(c, Refused(call[c]))
  /\ UNCHANGED <<used, ticks, balance, history>>

\* atomicDebit takes n from u, who has it.
\* (Faulty variant: she may not have it.)
TakeUnguarded(u, n) == balance' = [balance EXCEPT ![u] = @ - n]

Take(u, n) ==
  /\ balance[u] >= n
  /\ balance' = [balance EXCEPT ![u] = @ - n]

\* Past the free pool: taken; refused for want of balance or by a throw; taken
\* and then thrown, which the handler treats like a refusal.
Debit(c) ==
  LET r == call[c]
      n == Floor[r.kind]
  IN  /\ r.pc = "debit"
      /\ \/ Take(r.user, n) /\ Update(c, [Allowed(r, n) EXCEPT !.charged = n])
         \/ Take(r.user, n) /\ Update(c, [Refused(r) EXCEPT !.charged = n])
         \/ UNCHANGED balance /\ Update(c, Refused(r))
      /\ UNCHANGED <<used, ticks, history>>

-----------------------------------------------------------------------------
(* the call itself                                                         *)

\* xAI bills n calls per kind.
Bill(r, n) ==
  /\ spent' = [s \in Scopes |->
       IF s \in {r.den, All} THEN [k \in Kinds |-> spent[s][k] + n[k]] ELSE spent[s]]
  /\ unpaid' = IF r.burned > 0 THEN unpaid
               ELSE [unpaid EXCEPT ![r.den] = [k \in Kinds |-> @[k] + n[k]]]

\* It answers, and names a cost of t ticks.
Billed(c, n, t, pc, book) ==
  /\ Update(c, [call[c] EXCEPT !.pc = pc, !.calls = n, !.ticks = t, !.book = book])
  /\ Bill(call[c], n)

Only(k, n) == [j \in Kinds |-> IF j = k THEN n ELSE 0]
Searches(n, m) == [Only("rag", n) EXCEPT !["search"] = m]
Asking(r) == r.pc \in {"upstream", "fallback"}

\* The calls an answer can stand for: an image is one; a reply makes n document and m web
\* searches of the tools it was given, and the chat endpoint has no documents.
MayBill(r, n, m) ==
  IF r.kind = "image" THEN n = 0 /\ m = 0
  ELSE /\ ~r.rag \/ r.pc = "fallback" => n = 0
       /\ ~r.search => m = 0

\* The Responses endpoint rejects the model: the chat endpoint is asked, once.
FallsBack(c) ==
  /\ call[c].pc = "upstream" /\ call[c].kind \in {"search", "rag"}
  /\ Goto(c, "fallback")
  /\ UNCHANGED <<used, ticks, balance, history>>

Paints(c, t) ==
  /\ call[c].pc = "upstream" /\ call[c].kind = "image"
  /\ Billed(c, Only("image", 1), t, "store", <<"image">>)
  /\ UNCHANGED <<used, ticks, balance, lost>>

Replies(c, n, m, t) ==
  LET r == call[c]
  IN  /\ Asking(r) /\ r.kind # "image"
      /\ MayBill(r, n, m)
      /\ r.kind = "chat" => ticks.chat + t <= ChatBound
      /\ Billed(c, Searches(n, m), t, "logDen",
                IF r.rag /\ m > 0 THEN <<"rag", "search">> ELSE <<r.kind>>)
      /\ UNCHANGED <<used, ticks, balance, lost>>

\* 503: what was burned for the call stays burned.
Answer503(r) ==
  IF r.imagine THEN Uncharged(r, "imagine_unavailable") ELSE Done(r)

Unavailable(c) ==
  /\ Asking(call[c])
  /\ Update(c, Answer503(call[c]))
  /\ UNCHANGED <<used, ticks, balance, history>>

\* xAI works and bills, and the worker has nothing to show for it: it gave up waiting, the
\* completion is empty, the image is missing or cannot be fetched.  Nothing is booked.
Wasted(c, n, m) ==
  LET r == call[c]
  IN  /\ Asking(r) /\ MayBill(r, n, m)
      /\ lost < MaxLost
      /\ lost' = lost + 1
      /\ Bill(r, IF r.kind = "image" THEN Only("image", 1) ELSE Searches(n, m))
      /\ Update(c, Answer503(r))
      /\ UNCHANGED <<used, ticks, balance>>

\* An image of the wrong size is refused, unbooked; any other goes to R2.
BadImage(c) ==
  /\ call[c].pc = "store"
  /\ lost < MaxLost
  /\ lost' = lost + 1
  /\ Update(c, Done(call[c]))
  /\ UNCHANGED <<used, ticks, balance, spent, unpaid>>

Store(c) ==
  /\ call[c].pc = "store"
  /\ Goto(c, "logDen")
  /\ UNCHANGED <<used, ticks, balance, history>>

-----------------------------------------------------------------------------
(* booking and settling                                                    *)

\* A tools-off reply has no call count; the ticks are booked once, with the
\* first surface, and estimated when xAI named none.
BookedCalls(r, s) ==
  IF Head(r.book) \in Kinds
  THEN [used EXCEPT ![s][Head(r.book)] = @ + r.calls[Head(r.book)]] ELSE used

\* (Faulty variant: a reply that used both tools books them with either.)
BookedTicksTwice(r) ==
  LET k == Head(r.book)
  IN  IF k = "chat" THEN [ticks EXCEPT !.chat = @ + r.ticks]
      ELSE [ticks EXCEPT !.tools =
              @ + IF r.ticks > 0 THEN r.ticks ELSE r.calls[k] * Estimate[k]]

BookedTicks(r) ==
  LET k == Head(r.book)
  IN  IF k = "chat" THEN [ticks EXCEPT !.chat = @ + r.ticks]
      ELSE IF k = "search" /\ r.rag THEN ticks
      ELSE [ticks EXCEPT !.tools =
              @ + IF r.ticks > 0 THEN r.ticks ELSE r.calls[k] * Estimate[k]]

\* On to the next surface, or to settle a burn, or to the message itself.
Booked(r) ==
  IF Len(r.book) > 1 THEN [r EXCEPT !.book = Tail(@), !.pc = "logDen"]
  ELSE IF r.burned > 0
  THEN [r EXCEPT !.book = <<>>, !.calls = Only(r.kind, 0), !.pc = "settle"]
  ELSE [Request(r.user, r.den, r.imagine) EXCEPT !.pc = "post"]

LogDen(c) ==
  /\ call[c].pc = "logDen"
  /\ used' = BookedCalls(call[c], call[c].den)
  /\ Goto(c, "logAll")
  /\ UNCHANGED <<ticks, balance, history>>

LogAll(c) ==
  /\ call[c].pc = "logAll"
  /\ used' = BookedCalls(call[c], All)
  /\ ticks' = BookedTicks(call[c])
  /\ Update(c, Booked(call[c]))
  /\ UNCHANGED <<balance, history>>

\* A booking that throws is swallowed, the rest of it with it.
LogFails(c) ==
  /\ call[c].pc \in {"logDen", "logAll"}
  /\ lost < MaxLost
  /\ lost' = lost + 1
  /\ Update(c, Booked(call[c]))
  /\ UNCHANGED <<used, ticks, balance, spent, unpaid>>

Larger(a, b) == IF a > b THEN a ELSE b

Quote(k, t) == Larger(Floor[k], CreditsPerTick * t)

\* A faulty settle: the floor that was burned is forgotten.
ExtraWhole(r) == Quote(r.kind, r.ticks)

Extra(r) == Quote(r.kind, r.ticks) - r.burned

\* settleBurn asks for the difference once the cost is known, and whatever
\* becomes of that debit the reply goes out.
Settle(c) ==
  LET r == call[c]
      done == [r EXCEPT !.pc = "post"]
  IN  /\ r.pc = "settle"
      /\ \/ /\ Extra(r) > 0
            /\ Take(r.user, Extra(r))
            /\ Update(c, [done EXCEPT !.charged = @ + Extra(r)])
         \/ /\ UNCHANGED balance
            /\ Update(c, done)
      /\ UNCHANGED <<used, ticks, history>>

Post(c) ==
  /\ call[c].pc = "post"
  /\ Update(c, Done(call[c]))
  /\ UNCHANGED <<used, ticks, balance, history>>

\* MEDIA.put or createMessage throws, or the isolate dies at an await.
Breaks(c) ==
  LET unbooked == call[c].pc \in {"store", "logDen", "logAll"}
  IN  /\ call[c].pc \in Working
      /\ unbooked => lost < MaxLost
      /\ lost' = IF unbooked THEN lost + 1 ELSE lost
      /\ Update(c, Done(call[c]))
      /\ UNCHANGED <<used, ticks, balance, spent, unpaid>>

\* A new UTC day.  Whoever asked todayKey() before it stays with the old day.  A booking
\* under way ends there; `issued` are those whose first row is still out.  Reads that are
\* out are of the old rows; such a booking may empty the pool for those in `emptied` (or
\* reach a ceiling, which refuses the call as ReadFails does).
EndsYesterday(c, issued) ==
  call[c].pc = "logAll" \/ (call[c].pc = "logDen" /\ c \in issued)

Midnight(issued, emptied) ==
  /\ \A c \in emptied : call[c].pc = "reading" /\ call[c].seen.out # {}
  /\ emptied # {} => \E c \in Slots : EndsYesterday(c, issued)
  /\ used' = [s \in Scopes |-> [k \in Kinds |-> 0]]
  /\ ticks' = [tools |-> 0, chat |-> 0]
  /\ spent' = used'
  /\ unpaid' = [d \in Dens |-> [k \in Kinds |-> 0]]
  /\ lost' = 0
  /\ call' = [c \in Slots |->
       CASE EndsYesterday(c, issued) -> Booked(call[c])
         [] call[c].pc = "reading"   ->
              LET all == Seen(call[c], call[c].seen.out)
              IN  [call[c] EXCEPT !.seen = [all EXCEPT !.empty = @ \/ c \in emptied]]
         [] OTHER                    -> call[c]]
  /\ UNCHANGED balance

-----------------------------------------------------------------------------

CallStep(c) ==
  \/ \E u \in Users, d \in Dens, imagine \in BOOLEAN : Begin(c, u, d, imagine)
  \/ GoOn(c)
  \/ \E what \in Reads : Read(c, what)
  \/ Decide(c) \/ ReadFails(c) \/ Debit(c)
  \/ \E t \in 0 .. MaxTicks : Paints(c, t)
  \/ \E n, m \in 0 .. MaxCalls, t \in 0 .. MaxTicks : Replies(c, n, m, t)
  \/ FallsBack(c)
  \/ \E n, m \in 0 .. MaxCalls : Wasted(c, n, m)
  \/ Unavailable(c) \/ BadImage(c) \/ Store(c) \/ LogDen(c) \/ LogAll(c) \/ LogFails(c)
  \/ Settle(c) \/ Post(c) \/ Breaks(c)

Next ==
  \/ \E issued, emptied \in SUBSET Slots : Midnight(issued, emptied)
  \/ \E c \in Slots : CallStep(c)

Spec == Init /\ [][Next]_vars

-----------------------------------------------------------------------------

Counts == [Kinds -> Nat]

(* Every variable keeps its type.                                          *)
TypeOK ==
  /\ used \in [Scopes -> Counts]
  /\ ticks \in [tools : Nat, chat : Nat]
  /\ balance \in [Users -> Nat]
  /\ call \in [Slots ->
       [pc : Free \cup Working, user : Users, den : Dens,
        imagine : BOOLEAN, kind : Kinds \cup {"chat"}, rag : BOOLEAN,
        search : BOOLEAN, seen : [out : SUBSET Reads, hard : BOOLEAN, empty : BOOLEAN],
        burned : Nat, charged : Nat, calls : Counts, ticks : Nat,
        book : Seq(Kinds \cup {"chat"})]]
  /\ spent \in [Scopes -> Counts]
  /\ unpaid \in [Dens -> Counts]
  /\ lost \in Nat

\* What may slip past a cap: the requests in flight when it is reached, and
\* those that were not booked.
Slack == (Cardinality(Slots) + lost) * MaxCalls

HardCap(s, k) == IF s = All THEN HardGlobal[k] ELSE HardDen[k]

(* The hard ceilings hold for what xAI really billed, paid for or not, up  *)
(* to the requests in flight and one more request for each whose calls     *)
(* were not booked (caps.js:8-10, 104-114, 150-153).                       *)
HardCeilingsHold ==
  \A s \in Scopes, k \in Kinds : spent[s][k] <= HardCap(s, k) - 1 + Slack

(* The calls nobody paid credits for stay within the free pool of the den, *)
(* up to the same slack (caps.js:11-14, 116-128).                          *)
FreePoolHolds ==
  \A d \in Dens, k \in Kinds :
    unpaid[d][k] <= IF FreeDen[k] = 0 THEN 0 ELSE FreeDen[k] - 1 + Slack

(* The daily USD ceiling holds for the paid surfaces, up to the requests   *)
(* in flight (caps.js:48, 105-107).                                        *)
ToolSpendUnderUsdCeiling ==
  ticks.tools <= DailyUsd - 1 + Cardinality(Slots) * MaxTicks

(* A payer pays for a call at most once and at most its quote: the floor,  *)
(* or what its real cost asks if that is more (credits.js:90-107).         *)
ChargedAtMostQuote ==
  \A c \in Slots :
    call[c].pc \in Working /\ call[c].charged > 0 =>
      call[c].charged <= Quote(IF call[c].imagine THEN "image" ELSE "search",
                               call[c].ticks)

(* "honest errors, nothing charged on failure" (ARCHITECTURE.md:195; the   *)
(* 503 of api.js:661-662 says so too): an /imagine whose xAI call failed   *)
(* debited nothing.                                                        *)
NothingWasCharged ==
  \A c \in Slots : call[c].pc = "imagine_unavailable" => call[c].charged = 0

(* "hard ceiling across ALL brain spend" (caps.js:48): the ticks of a day  *)
(* stop at the ceiling, up to the requests in flight.                      *)
UsdCeilingHolds ==
  ticks.tools + ticks.chat <= DailyUsd - 1 + Cardinality(Slots) * MaxTicks
=============================================================================
