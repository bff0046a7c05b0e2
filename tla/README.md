# The Pack: a TLA+ development

The Pack is a social place for people and agents on Cloudflare: one Worker
(`src/src/worker.js`, `api.js`), D1 as its database, and two kinds of Durable
Object, one for a den's chat room and one for its voice fire. This directory
holds TLA+ modules of the parts in which steps of different actors meet, TLC
configurations that check them on small instances, and TLAPS proofs for every
value of the constants. Source paths below are relative to the repository,
`src/` being its root; a bare `credits.js` is `src/src/credits.js`.

## How the program runs, as far as the models need it

* A request is handled by an isolate. Between two `await`s nothing else of that
  isolate runs, but at every `await` any other request may, in this isolate or
  another. So one `await` is one step of a model.
* A D1 statement, and a D1 *batch*, is a transaction: one atomic step. Several
  statements in a row are not. A statement may fail without effect; it may also
  commit and lose its answer.
* An isolate may die at any `await`. Nothing resumes it; what it has written
  stays.
* A Durable Object is one instance per den, in memory, with the same rule about
  awaits among its own handlers.

## Inventory

| component | state | operations | meets |
|---|---|---|---|
| **credits** `credits.js`, migration 0008 | `credit_balances`, `credit_ledger` | `atomicDebit`, `grantCredits`, `settleBurn` | payments (same tables), spend caps (callers) |
| **payments** `payments.js` | `payment_orders` | create-intent, webhook, reconcile, `settleOrder` | AllScale (HTTP both ways), credits |
| **spend caps and Grok calls** `caps.js`, `api.js` (POST messages), `grok.js` | `brain_usage` | pre-flight, burn, call, booking, settle | credits, xAI, R2; voice books into the same ledger |
| **voice den** `voice/voice-den.js` and its helpers | one DO: `state`, seats, legs, guard, sockets, audio queues; D1 voice usage | join, sdp-mic, sdp-listen, media-ready, leave, guard tick, mixer and pacer ticks, teardown; socket events of xAI, the SFU and the pages | caps (`voiceAllowed`), xAI, the SFU, D1, the page |
| **downlink pacer, chunker** `voice/pacer.js`, `voice/pcm.js` | frame queue, prefill gate, the carry of half a frame | push, pop, flush, feed | voice den's timers |
| **cost guard** `voice/costguard.js` | elapsed time, kill reason | status, kill | voice den |
| **the den page's script** `pages.js` | roster and number shown, lines seen; in voice: seat, control socket, button, `inVoice` | load, connect, guest poll; joinVoice, leaveVoice, pagehide | den room, voice den (HTTP, WebSocket, beacon) |
| **den room** `den-room.js` | sockets with attachments, in-memory rate buckets | join, message, close, announce | `api.js` (broadcast after insert), D1 |
| **native auth** `auth-native.js`, `auth.js`, `api.js` | `auth_challenges`, sessions, users | start, verify, claim, recover, logout | e-mail, D1, the Access header |
| **onboarding, dens** `onboarding.js`, `api.js` | `users`, `agent_keys`, `dens`, `den_members` | connect, admin agent, seed, found a den, join | Agentverse, D1 |
| **den knowledge base** `collections.js`, `api.js` | `den_docs`, the den's collection id | upload, list with status sync, delete | xAI collections |
| **pack-citizen, den-keeper** `agents/*/agent.py` | cursor, count and hour in the agent's storage | poll | the Worker's HTTP API |
| memory/episodes, AEVS, e-mail, HTML, rate limiter | none that decides anything later | chains of external calls, rendering | - |

What makes each correct, and where it is hard:

* **credits**: never below zero; every mutation has its ledger row and
  the rows explain the balance; the caller is told what happened. Hard: two
  debits pass the same pre-read; the batch of a lost race writes a row all the
  same, which is deleted later, in the middle of everybody else's rows; a
  statement fails, or its answer is lost, between the two.
* **payments**: a paid order is granted exactly once and an unpaid one never;
  a payload that contradicts the order grants nothing; a paid order settles in
  the end. Hard: duplicated, late and missing webhooks racing polls that act on
  rows read before an upstream fetch.
* **spend caps**: what xAI bills in a day stays under each ceiling, a payer pays
  at most the quote. Hard: check-then-act around a call that takes seconds;
  two booking rows and three reads that interleave; bookings that fail silently.
* **voice den**: at most one session per den; it ends when the last seat leaves,
  at the budget, and at the kill flag; its minutes are booked once. Hard: joins
  that overlap while connecting, `media-ready` finishing after teardown, close
  events of sockets that have been replaced.
* **audio of a fire**: a barge-in silences what was said before it, the AI is not
  heard while a human holds the floor, queues stay bounded. Hard: messages of any
  length that are still being converted when the flush comes, overtaken by text;
  two timers and the legs' pushes in any order.
* **a page in voice**: a seat is given back when its page is gone. Hard: joinVoice
  runs on over globals that a leave cleared or a newer join set; beacons and
  closes that are lost or come before the socket is open, and upgrades that fail
  with nobody taking notice.
* **den room**: presence says who is there; what is broadcast is what is stored.
  Hard: several sockets of one citizen, hibernation, an insert that commits and
  says it failed.
* **native auth**: a code or ticket is used once, guesses are bounded, one account
  per e-mail. Hard: every fuse is a read, a comparison and a later write.
* **onboarding, dens**: a name and a den belong to whoever was told so; a key
  speaks for the account made with it. Hard: a lookup, four external calls, three
  inserts, none of them together.
* **den knowledge base**: the cap holds, a listed document can be found. Hard: two
  first uploads that each make a collection.
* **agents**: one answer per mention, an hourly budget. Hard: posting and the three
  saves after it are four moments.

`PROJECT.json` lists the hazards at their lines, with the property that covers
each one.

## The modules

| module | models | kind |
|---|---|---|
| `CreditStore` | the two credit tables and the statements that write them | shared state |
| `AtomicCredits` | what credits promise: atomic debits and grants | abstract specification |
| `Credits` | `atomicDebit` and `grantCredits`, await by await | detailed; implements `AtomicCredits` |
| `Payments` | create-intent, webhook, reconcile, settle, AllScale, the payer | detailed |
| `CreditEconomy` | `Credits` and `Payments` on one store | composition; implements `AtomicCredits` |
| `BrainSpend` | POST messages with `/imagine` and `generate` under the caps | detailed |
| `VoiceDen` | the Durable Object of one den's voice fire, handler by handler | detailed |
| `VoiceAudio` | its audio: queues, chunker, pacer, mixer, floor, barge-in | detailed |
| `VoicePage` | joinVoice and leaveVoice of a page, its seats and control sockets | detailed |
| `DenRoom` | the chat room of a den and the pages that show it | detailed |
| `NativeAuth` | codes, tickets, accounts, sessions | detailed |
| `Onboarding` | connect, admin agent, seed, dens, members | detailed |
| `DenDocs` | a den's documents in D1 and at xAI | detailed |
| `Citizens` | the poll loops of the two hosted agents | detailed |
| `Pack` | the seven modules above side by side | composition |
| `CreditStore_proofs`, `Credits_proofs`, `Payments_proofs`, `CreditEconomy_proofs` | the money | proofs |
| `BrainSpend_proofs`, `VoiceDen_proofs` | the caps, the fire | proofs |
| `Identity_proofs`, `Pack_proofs` | `NativeAuth` and `Onboarding`; the rest of `Pack`, and `Pack` | proofs |
| `MC_*` | small instances | model checking |

Definitions named `...Unguarded`, `...Swapped`, `...Late` and so on, marked as
faulty in their comments, are deliberately wrong variants of the definition
after them. No specification uses one; each stands for a plausible bug, and
putting it in the place of the right one breaks a property, which shows that
the property looks at the code (`PROJECT.json`, `mutants`).

### CreditStore and Credits

`balance` and `ledger` are the tables; a missing balance row is 0, as every
reader coalesces it. `DebitBatch` keeps the oddity of the source: its `INSERT
... SELECT` runs whether or not the guarded `UPDATE` changed a row.

A debit's `pc` is the await it stands at: `reading` (the pre-read,
credits.js:54), `batch` (59-62), `undo` (the `DELETE` of the phantom row, 67),
`reread` (69), `confirm` (72), then its answer. `verdict` is what D1 decided
(`meta.changes`), which the caller may never hear. Debits in `Struck` may meet
`StatementThrows`, `BatchAnswerLost`, `UndoFails` (the delete is in a
`try {} catch {}`) and `Die` at every await; the others meet no failure, so that
what holds only without failures can be stated for them.

`AtomicCredits` is the promise: a debit is taken in full at a moment when the
balance covers it, or refused at a moment when it does not, at most once.
`Credits` implements it with `debit` mapped to each call's arguments and
verdict.

Two remarks on the source. `grantCredits` has no caller under `src/`; it is
modelled because it is exported and tested, and `CreditEconomy` leaves it out.
ARCHITECTURE.md:216 says of a lost race "phantom ledger row compensated": if the
delete fails or the isolate dies before it, the row stays for good. The
properties say what remains true: the row moved nothing and the debit was
refused (`LedgerExplainsBalance` reads rows of refused debits as void).

### Payments

`checkout` is where an order's create-intent handler stands (insert, POST to
AllScale, store the intent id), `intent` the status at AllScale, `call` the
webhook and reconcile requests. A call serves requests one after another, so a
webhook may come again after its answer, in any answer's place. `echo` says how
the amount and `order_ref` of the payload compare with the order: equal, wrong,
or (detail endpoint only) absent.

Not modelled, because it only turns requests away: signatures, timestamps and
nonces, ownership, rate limits. That AllScale notifies confirmed payments only
is its contract: the webhook handler looks at no status. An order whose intent
id was never stored (`SaveRef` did not happen, payments.js:138) is not found by
webhooks and reconcile answers `created` for ever; `PaidOrdersSettle` is stated
for the others.

### CreditEconomy

Both components on one `CreditStore`, interleaved step by step, with instances
of the two modules and nothing of its own but the properties.

### BrainSpend

A slot is one request in flight. Its `pc` follows the handler of
api.js:611-827: `reading` (three concurrent ledger reads, in any order),
`debit`, `upstream` (xAI), `store` (R2), `logDen` and `logAll` (the two rows of
`addBrainUsage`), `settle`, `post`. `used` and `ticks` are the ledger of the
day; `spent`, `unpaid` and `lost` are history: what xAI really billed, which of
it nobody paid for, and how many billed calls were never booked. `Midnight`
starts a new day in the middle of anything: whoever asked for the day before it
stays with the old one, so the reads that are out are of yesterday's rows
(caps.js:92) and the bookings under way end there. A burn is one atomic debit that is
taken, refused, or taken without the handler knowing: the behaviour `Credits`
is shown to have.

`grok.js` is there for what it may do to the bill. A reply that the Responses
endpoint rejects is asked once more of the chat endpoint (`FallsBack`), which has
no document search. An answer that xAI billed and the worker cannot use (late,
empty, an image that is missing) books nothing (`Wasted`) and counts as a lost
booking. Money is abstract: a tick stands for a small amount of real cost, the
credits asked for a tick are a constant. The wording of prompts is left out, as
is voice's use of the same ledger.

Two facts about the overshoot that the properties state exactly. The ceilings
are check-then-act, so "nobody goes past them" (caps.js:9) holds up to what the
requests in flight spend: at most `cap - 1` was booked when the last of them
looked. And each booking that is lost (caps.js:161 swallows it, or xAI billed an
answer that was of no use) lets one more request pass, as caps.js:152-153 says.

### VoiceDen

One Durable Object is one memory, `den`, which its handlers share; `sock` are its
connections to xAI, each a metered session while `open`. A slot of `task` holds a
handler that stands at an await: `caps` (the four reads of D1 before a fire may
start), `dial`, `ingest`, `floor` (the rest of a join), `egress` (media-ready),
`dropping` (a seat's adapters are closed), `closing` and `booking` (teardown).
What a handler does without an await in between is one action: `MediaFlows` is
all of handleMediaReady after its adapter is made.

The state an await was entered on may be gone after it, and four assignments do
not look again: `connecting` after the caps, `this.xai` after the dial, the timers
and `waiting_media` after the ingest adapter, `bridging` in media-ready.
The model makes them unconditionally, as the code does. `raced` is history: it
turns true when one of them is made over a state its handler did not check, or
when a fire is started while another join still builds one. The safety
properties, and `SessionsEnd`, speak of what happens up to that moment; the two
violated runs show what may happen after it. `raced` restricts no step.

`booked` counts the bookings of a fire's minutes and `lost` stands for those that
D1 refused (teardown swallows both); `old` is a guard whose budget, time or idle
limit is met, at a moment of its own choosing, so no arithmetic of minutes is
needed. `closed` stands for `failed` too: every test in the source treats them
alike, or returns in teardown. `Evict` is the end of the object with its memory,
timers and sockets.

Not modelled: how the legs of a cast den are dialled and rekindled, the
re-registration of a silent uplink, what is spoken. A kill request, a terminal
error event of xAI and an exception that reaches `fetch` do the same: `Kill`.
That the seats pass their bound by no more than the joins in flight is part of
`TypeOK`.

### VoiceAudio

A fire that bridges, with the single Den Keeper or with a cast (`cast` is chosen
at the start). Audio is counted in halves of a frame, the least that shows the
chunker's carry, and each half carries the number of barge-ins before xAI sent
it. A message has any length up to `MaxHalves`, which is longer than a frame; what does
not fill one waits in `carry` (pcm.js:56-75). Binary audio is awaited
(`coerceBytes`, `arriving`) and text is not, so `speech_started` overtakes audio that
came before it, and so does a delta in base64 (`AudioDelta`, voice-den.js:580-584).
`late` is how many frames the messages fill that the last flush was overtaking,
`stale` the old frames played since; `BargeInSilences` is exact: those frames, and
the half in the chunker, which the flush does not clear. The mixer feeds the track
(in a cast), and the floor track of another seat (`floor`, 790-803); one timer plays
both, each while the SFU is attached. Mixer and pacer tick in any order; the model
keeps no rate. Samples, volumes and packet bytes are left out; whether a mixed frame
is loud is a choice.

### VoicePage

One page, its globals, and up to two runs of `joinVoice` under way. A run names the
await it stands at and how far its request is; the next request names the seat of
the *page*, which may have become another join's. `control` is a seat's socket as
the object sees it: `failed` is one whose upgrade never came through with the seat in
place (the network, or a 401 or 500 of worker.js:67-100), a close of which the page
takes no notice before it is live (pages.js:696). `ended` and `hungup` are what the page has yet to hear of it,
`leaving` the beacons under way. Seat ids are drawn at random; an id that nothing
remembers any more (`Unused`) is drawn again. `lost` is history: the seats left
behind as a message that told of them was lost, which is a join's answer, a beacon
without a socket behind it, or the upgrade of a seat that a newer join then writes
over (pages.js:693) or that is hidden with its page. It says what `SeatsHaveAPage`
can promise. The fire itself is reduced to its seats (`FireEnds` is any teardown).

### DenRoom

A tab loads the history, connects, vanishes, is noticed, reconnects or unloads; the
object may restart. A line is an awaited insert and then a broadcast, and both may
fail or lose their answer. `roster`, `told` and `shown` are what a page shows.

### NativeAuth

One action per statement of D1. `mode` is `AUTH_MODE`, fixed at the start: codes and
tickets prove an address in one, the Access header in the other. `Then` and
`Replies` keep the place of a request. Codes and tickets lapse at any moment
(`Lapse`), and any request may die (`GivesUp`). Legacy accounts are there from the
start.

### Onboarding

`errand` is a request: connect, the admin's agent, seed, or a founder. Agentverse's
four calls come before D1 and may work without being answered. Every statement of
D1 commits or not, and is answered or not.

### DenDocs

An add is a cap check, a lookup, perhaps a new collection and its row, an upload
with indexing, and a row; a delete is a call to xAI and a row. Files are numbers; a
number that no row and no request names is used again.

### Citizens

Both programs in one module: `keepers` are the agents that run the scripted one.
What a reply mentions is open for what Grok writes and fixed for a scripted line.
`kept` is history: how much of the saves after a reply was made. `CitizensArePolite`
counts replies that were accepted and kept; a reply that was stored, but answered
with an error or a timeout, is not among them. With one agent, other agents are
among those who speak, so what two agents do to each other is covered as far as one
of them is concerned.

### Pack

`VoiceAudio`, `VoicePage`, `DenRoom`, `NativeAuth`, `Onboarding`, `DenDocs` and
`Citizens` share users and dens by id only, and none of them changes what another
one reads. Their full interleaving would multiply their states and show nothing:
every property is about one of them. `Pack` extends all seven and lets a behaviour
move the one that `part` picks at its start. Likewise within `VoiceAudio`: beside a
single keeper's audio the seats and their floor tracks are a part of their own
(`seats`), as they share nothing with it; in a cast all of it moves together. Where two of them touch, each
contains the other's step as an action of its own: `HumanClaims` in `Onboarding`
is `NativeAuth`'s claim, `FireEnds` in `VoicePage` is `VoiceDen`'s teardown.

## What the runs check

| run | instance | shows |
|---|---|---|
| `credits` | 2 users, 3 debits of 2 or 3 credits (2 of them struck), 2 grants | `NoOverdraft`, `LedgerExplainsBalance`, `EveryDebitHasItsRow`, `AnswersMatchTheLedger`, and that the calls implement `AtomicCredits` |
| `payments` | 2 users, 2 orders, 2 calls of any kind | `GrantedExactlyOnce`, `SettledMeansPaid`, `AnswersAreTrue`, `LedgerExplainsBalance`, `MismatchNeverGrants`, and `PaidOrdersSettle` under fairness |
| `payments_verify` | the same | *violated*: `BothPathsVerify` |
| `economy` | 1 user, 2 orders, 2 calls, 2 debits | `BalanceIsBoughtLessBurned`, and that the pair implements `AtomicCredits` |
| `brain` | 1 den, 2 slots, a payer with 0 to 2 credits, images and searches, one lost booking a day | `HardCeilingsHold`, `FreePoolHolds`, `ChargedAtMostQuote` |
| `brain_tools` | 1 den, 2 slots, nobody who can pay, searches and documents in one reply, one lost booking a day | `ToolSpendUnderUsdCeiling` |
| `brain_charged` | as `brain`, with a daily ceiling of one tick | *violated*: `NothingWasCharged` |
| `brain_ceiling` | the same with tools-off replies that cost | *violated*: `UsdCeilingHolds` |
| `voice` | 2 handlers at an await at once, 3 seat ids, at most 1 seat, 2 connections | `OneSession`, `DisclosureFirst`, `SpendIsGuarded`, `TimersStop`, `BookedOnce`, and `SessionsEnd` under fairness, all up to a race |
| `voice_sessions` | the same | *violated*: `OneSessionPerDen` |
| `voice_spend` | the same | *violated*: `NoHalfOpenSpend` |
| `pack`: auth | 2 requests, 2 mailboxes, 2 handles, 1 send and 1 guess, 3 challenges, both modes | `ProofUsedOnce`, `SessionsLeadHome`, `FusesHold` |
| `pack`: board | 2 requests of any kind, 2 handles, the lobby | `NamesAreEarned` |
| `pack`: room | 3 tabs of 2 members, 1 line | `PresenceIsAReceipt`, `HeardIsStored` |
| `pack`: docs | 2 adds, 4 files, a cap of 1 | `DocsBounded`, `DocsAreSearchable` |
| `pack`: audio | the keeper or 2 legs; prefill 2, capacity 2, tolerance 1; messages of 1 to 4 halves, 2 of them being converted, 1 barge-in | `BargeInSilences`, `FloorIsHumans` |
| `pack`: seats | a seat that sends, its queue of 3 halves, and another one's floor track | `PackTypeOK`: `queueBytes` is the sum of the chunks |
| `pack`: voice | 1 page, 2 runs of joinVoice, 2 seat ids | `SeatsHaveAPage` |
| `pack`: citizens | 1 agent of either program, others who speak, a window of 2 of 5 lines, 1 reply an hour, 2 hours | `CitizensArePolite` |

**Bounds, and why they are enough.** Three debits are the fewest with a lost
race, its phantom row and a third writer between batch and delete; amounts 2 and
3 against grants of 2 and 3 make a balance cover one of two debits, or both, or
neither. Two calls are the fewest that race to settle one order, and with two
orders one of them may settle while the other is in the same user's ledger. Two
slots are the fewest that overshoot a cap; both den and global ceiling must be
the binding one somewhere, so images meet the global ceiling first (2 per den,
1 overall) and searches the den's (2 per den, 3 overall). With a single den its
count and the global one differ only while a call is booked half, or when a
booking failed half-way, which is what the two separate bookings are about.
Images have no free pool and are paid from the first; searches have one of 1, so
that the free pool ends before the ceiling; documents never burn. The two
passing runs share the work: payers and burns in one, replies that search the
web and the den's documents at once in the other.
`MaxCalls` and `MaxTicks` bound what one request may cost and appear in the
properties, as does `lost`, which `MaxLost` bounds: so these say how the
overshoot grows with them. `MaxBalance` bounds a payer's first balance and
`ChatBound` the ticks of a day's tools-off replies. `ChatBound` is 0 in the runs that are not about
tools-off replies: then such a reply costs nothing, which is what caps.js:18-19
claims.

In `VoiceDen` two handlers are the fewest that meet at an await, two connections
the fewest of which one belongs to an earlier fire, and with `MaxSeats` 1 a second
and a third seat id make it possible to pass the bound. `MCUnraced` does not
explore beyond a race, where every property of the run is true already; a
behaviour that leaves the explored part has also met what `SessionsEnd` asks of
the sessions open then, so the constraint hides no counterexample of that
property either. Larger instances were checked by hand with the same result: three
connections, and three handlers with three connections (7 million states, safety
only).

In `Pack`, two requests are the fewest that pass a fuse, a lookup or a cap
together; limits of 1 make each fuse one step away, and the bounds of the
properties count the requests in flight, so they say how the overshoot grows. Three
challenges are a code, the ticket it earns and a second code. Three tabs are two
of one member and one of another, which is what presence by handle and presence by
socket differ in. Two runs of `joinVoice` are the fewest of which one works on the
other's seat; a third click comes in the place of one that has ended, and two ids are
enough because forgotten ones come back. Prefill 2 with capacity 2 is the least
with a gate and an overflow. Messages of up to two frames are the least of which one
holds several, and start or end in the middle of a frame; one barge-in with two of
them in conversion is the least in which something is overtaken in a queue, and the
theorem has it for every length, number and capacity. The window of 2
lets a mention slide out of a poll's sight.

Symmetry sets (users, struck debits, grants, orders, slots; in `pack` requests and
mailboxes, under whose model values runs of joinVoice, seats and legs go as well,
since only one part moves) are used in runs of safety properties only; `payments`, which checks liveness, has none. The cfgs
of `Credits`, `Payments` and `CreditEconomy` say `CHECK_DEADLOCK FALSE`: debits,
orders and grants are finite in number, and when all are answered the system
rests. So does `Pack`'s: its lines, challenges and requests are finite in number.
`BrainSpend` and `VoiceDen` never rest, and their runs check that.

**Fairness** (`Payments!FairSpec`). The owner's page keeps polling: weak fairness
of `ReconcileRead`. Neither AllScale nor D1 fails every attempt: strong fairness
of a fetch that finds the payment with its exact amount, and of the settle
batch. Strong, because each attempt may fail and only the next poll brings the
step back. Nothing is assumed of webhooks, payers, or create-intent.

In `VoiceDen!FairSpec` every handler under way gets on with its next await, one
way or another (weak), time passes until a guard's limit is met (weak), and the
interval's tick is handled now and then while it is due (strong, since other
handlers come between). The tick reads the kill flag from D1 before it looks at
the budget (voice-den.js:871, 875): the fairness includes that this read succeeds
now and then, and as long as it fails a budget stops nothing. Nobody has to leave
or kill.

### Where the code and its documents disagree

* `BothPathsVerify`: payments.js:17 says both paths verify amount and order_ref
  before granting. Reconcile compares them only if the payload has an amount
  (payments.js:247); without one it settles.
* `NothingWasCharged`: a failed `/imagine` says "Nothing was charged."
  (api.js:662), also when credits were burned for it in the pre-flight
  (caps.js:132). Nothing returns them.
* `UsdCeilingHolds`: caps.js:48 calls the daily cap a hard ceiling across all
  brain spend, and caps.js:18-19 the degraded reply free. It is sent without a
  pre-flight and its ticks are booked under `chat` (api.js:788), which the
  ceiling sums; such replies alone drive the day past it.
* `OneSessionPerDen`: voice-den.js:4 says one xAI session per den. Two joins of a
  cold den both pass the test of line 157 before either reaches 184, and both
  dial. Only the second socket is remembered.
* `NoHalfOpenSpend`: voice-den.js:124 says that lifecycle errors leave no half-open
  spend. A fire killed while its join dials gets its socket nevertheless; when the
  join then fails, its teardown returns at line 907 and the session stays open.

Met while modelling, stated by no run of its own; the properties of `Pack` are what
holds all the same:

* auth-native.js:134 "supersedes any older pending code": two starts in flight
  together leave two active codes (`FusesHold` allows one per request in flight).
* api.js:159-160 "failed provisions never burn a handle": a failed call to
  Agentverse does not, but a `createUser` that commits before `createAgentKey`
  fails does, and the handle then has no key. An agent whose request lost its
  handle to another keeps running with a key that never works. A founder who
  joined his den between its insert and his own membership stays `member`
  (`INSERT OR IGNORE`).
* den-room.js:149 has presence per identity; the join's broadcast counts sockets,
  and the leave of one tab takes a handle off everyone's roster while another tab
  of it is open. A page that reconnects does not fetch the history again, and may
  show a line twice.
* A document whose row fails to be deleted after xAI has dropped it stays listed
  and is not found; one that xAI failed to drop is deleted and still found.
* voice-den.js:322 "A seat's failure must never kill a live session": an SFU error
  other than 425 in sdp-listen (line 351), or a failed `createSession` (336), is
  thrown to `fetch`, which tears the whole fire down.
* voice-den.js:678 "Browser gone mid-voice => the seat leaves": not before its
  control socket is open. A page closed then, or an answer to join that is lost,
  leaves a seat until the fire's budget ends (`lost`). So does an upgrade that fails
  while the seat is there: pages.js:696 ignores the close before the page is live,
  and when another join then writes over the seat, or the page is hidden and its
  beacon is lost, nobody is left who knows of it.
* pages.js:687-733: a join that fails late leaves the voice of a newer join; a
  control socket forgotten by a third click keeps its seat, and its close ends the
  newer voice; a page may say that it is live after its seat is gone.
* voice-den.js:759-761 "dropped, never delayed-then-replayed" holds for the cast;
  with the single keeper, messages being converted at the barge-in are played
  after it, in full: one message may be many frames long. The healing of an uplink (396-412) is not modelled: it may register an
  adapter after the teardown.
* agent.py (pack-citizen) "everything older is already handled": only the newest
  mention of a poll is ever answered. A reply that was stored but not saved as
  answered (a stop, a timeout) is given again, and one that was stored and answered
  with an error is followed by the scripted line (162-171).

## What is proved

TLAPS checks every theorem for all values of the constants that meet the named
assumption of its module. Every safety property that a passing run checks is proved
so, type invariants included, and so is the refinement of `AtomicCredits`, by
`Credits` alone and by purchases and burns together. The assumptions say this:

| assumption | of the code |
|---|---|
| `CreditsAssumption`, `PaymentsAssumption`, `EconomyAssumption` | row ids of debits, grants and calls do not collide, as `uuid()` provides; an order is its own ref; amounts and packs are positive |
| `BrainSpendAssumption` | finitely many requests in flight; caps are positive and free pools no larger; `rag` has no price; `MaxTicks`, the bound on what a request costs, covers what its calls are estimated at |
| `VoiceDenAssumption` | finitely many seat ids and handlers; at least one seat |
| `VoiceAudioAssumption` | the pacer's and the detector's limits are positive, prefill at most capacity; the length of a message is any number |
| `NativeAuthAssumption`, `DenDocsAssumption` | finitely many requests at a time, and one at least; fuses are positive |
| `OnboardingAssumption`, `DenRoomAssumption`, `VoicePageAssumption`, `CitizensAssumption` | placeholders are not names; finitely many tabs and agents |

None bounds how many requests, seats, tabs or agents there are. The properties
that hold up to what is in flight (`FusesHold`, `DocsBounded`, `HardCeilingsHold`,
`FreePoolHolds`, `ToolSpendUnderUsdCeiling`) hold for each such number with that
number in them.

The money:

* `CreditStore_proofs`: one lemma per statement of the store. Appending a row
  that continues the last one keeps the books in order; deleting a void row from
  anywhere keeps them in order, because a void row's `after` equals that of the
  row before it.
* `Credits_proofs`: `InductiveInvariant` is `Spec => []IInv`. The safety
  properties are not inductive by themselves. The delete is correct only if the
  row to be deleted is there, once, and void; that needs each call's `pc` to
  determine its verdict and its rows, and every row to belong to a debit or a
  grant that has run. From `IInv`: `TypeCorrect`, `NeverOverdrawn`,
  `LedgerExplains`, `DebitsHaveRows`, `AnswersAreRight`. `CallsAreAtomic` is the
  refinement of `AtomicCredits`, step by step: `Ask` maps to `Ask`, the batch to
  `Take` or `Refuse`, the pre-read's refusal to `Refuse`, `Grant` to `Grant`,
  everything else stutters.
* `Payments_proofs`: `PaymentsInvariant` is `Spec => []PInv`. Its core is that
  an order's rows in all ledgers are exactly its settlement, and that a call
  past its checks acts on an intent AllScale has confirmed, which no step takes
  back. From it: `PaymentsTypeCorrect`, `ExactlyOnce`, `CreditsFollowMoney`,
  `PaymentAnswersAreTrue`, `PaymentLedgerExplains`, and the action property
  `MismatchesNeverGrant`.
* `CreditEconomy_proofs`: `EveryCreditIsAccountedFor`, `NobodyIsInTheRed` and
  `EconomyRefinesAtomicCredits`. What was bought and burned are sets of single
  credits (`Bought`, `Burned`), so the balance is a difference of two
  cardinalities: a settle adds a block of credits to one, a taken debit to the
  other, and D1 takes a debit only from `reading` or `batch`, where it is not in
  `Burned` yet (`Undecided`).

The caps, `BrainSpend_proofs` (`SpendInvariant`). A request weighs what it may yet
add to a sum between the read that let it through and its booking; weights are
counted as tokens, one set for all slots. Each of the four bounds is then one
statement: what is booked and what the slots weigh stays within a cap and what
all slots can weigh. A booking moves tokens into the books, a lost one into
`lost`, midnight empties the books, and only a read below the cap makes a weight,
a read of yesterday's rows too (`LateReads`).
`HardCeilingsAreKept`, `FreePoolIsKept`, `ToolSpendIsCapped`; `PayersPayTheQuote`
needs what a request has burned at each `pc` instead.

The fire, `VoiceDen_proofs` (`FireInvariant`). A state of the fire and the handler
that is responsible for it imply each other: one join makes a fire, one teardown
ends it, and what the memory holds follows (which socket is open, whether the
guard ticks, whether minutes were booked). As in the model, all of it up to `raced`,
except `FireTypes`. `NoSessionIsForgotten`, `SpendStaysGuarded`,
`FiresEndCleanly`, `DisclosureComesFirst`.

`Identity_proofs`:

* `NativeAuth` (`AuthInvariant`): a request past its consume holds a challenge that
  is consumed, and no other request holds the same (`HeldOnce`); whoever has
  looked an account up by address still finds it there (`Homeward`); a fuse's count
  and the requests that have passed it and not yet counted, together, are bounded
  (`Fused`). `ProofsAreUsedOnce`, `OneAddressOneAccount`, `FusesHoldUpToARace`.
* `Onboarding` (`BoardInvariant`): an errand's `pc` determines which of its rows are
  there and whose they are. `NamesAreAlwaysEarned`.

`Pack_proofs`:

* `DenRoom`: a line is broadcast once and only when stored, and a signed page has a
  handle. `HeardLinesAreStored`, `PresenceStaysAReceipt`.
* `DenDocs`: no two adds have the same file, and rows and adds past their check
  together respect the cap. `DocsStaySearchable`, `DocsStayBounded`.
* `Citizens`: what an agent has kept of its replies lies behind its cursor and in its
  count; its poll answers a mention before it. `CitizensStayPolite`.
* `VoicePage`: what a page lets go of has a beacon, a close or a socket of its own
  that will tell of it, or goes into `lost`; a seat is never remembered with another
  one's socket. `SeatsAlwaysHaveAPage`.
* `VoiceAudio`: `BargeInsSilence` counts an old frame where it is: played, in the
  queue, or to come out of the kept half and the messages in conversion, each
  weighing the frames that its old halves begin. The chunker makes of kept half and
  message no more old frames than these weigh together, whatever their lengths
  (`ChunkerFacts`), and no other step makes any. `FloorStaysHumans`. `PackTypes` has that `queueBytes` is the sum of what a
  seat has queued: a sum of halves, again a cardinality (`TotalSplit`,
  `OverflowFacts`, `TakenFacts`).
* `Pack`: each part does its own steps or stutters (`PartsKeepToThemselves`), so
  everything proved of a part holds of the whole: `PackIsSafe`, `PackTypes`.

Model-checked only: `PaidOrdersSettle` and `SessionsEnd`. Liveness under fairness
rests on `ENABLED`, which the prover does not handle. The five violated properties
have no theorem; what holds in their place has.

## Not modelled, and the plan

What is left to prove of the present modules is the refinement of an abstract
purchase by `Payments` (an order settles in one step, at most once), whose abstract
module is still to be written, and action properties: that no step reopens a
consumed challenge, takes a name from its holder or moves a live fire back.

Still to be modelled: dialling and rekindling of a cast's legs, the healing of an
uplink, the arithmetic of `CostGuard`, voice's bookings under the USD ceiling in
`BrainSpend`, the admin's den art route.

Left out for good: HTML, avatars, samples and packet bytes and generated code (no state, and unit
tests reach them); the soft rate limiter (wiped at any time, so nothing rests on
it); memory episodes and AEVS receipts (written after the fact, never read
back); the scripts that drive a deployment from outside (no state of the system).
How each of these stands is in `PROJECT.json`.
