------------------------------- MODULE VoiceDen -------------------------------
(***************************************************************************)
(* src/voice/voice-den.js: the Durable Object of one den's voice fire, with*)
(* its single Den Keeper (a den without a cast).                           *)
(*                                                                         *)
(* The object is one memory that its handlers share: requests (join,       *)
(* media-ready, leave, kill), events of sockets, and the guard's timer.    *)
(* Between two awaits a handler runs alone; at an await any other may run  *)
(* and change what the first has already checked.  A teardown is such a    *)
(* handler too: it awaits the SFU and D1 before the fire is closed.        *)
(***************************************************************************)
EXTENDS Integers, FiniteSets

CONSTANTS
  Slots,    \* handlers at an await at once; a slot serves one after another
  Seats,    \* the random ids a join draws for its seat
  Sockets,  \* the connections to xAI, each a metered session while open
  MaxSeats,
  None

ASSUME VoiceDenAssumption ==
  /\ None \notin Seats \cup Sockets
  /\ IsFiniteSet(Seats) /\ IsFiniteSet(Slots)
  /\ MaxSeats \in Nat \ {0}

VARIABLES
  den,   \* the object's memory, see Den
  sock,  \* socket -> "free", "open" or "closing": its close event is still out
  task,  \* slot -> the await its handler stands at, see Task
  told,  \* history: the open sockets on which the AI was told to disclose itself
  raced  \* history: a handler has overwritten a state it had not checked

vars == <<den, sock, task, told, raced>>

\* The cost guard of a fire.  `old`: it has met its budget, its time or an idle
\* end; `booked`: how often the minutes were booked, `lost`: D1 failed to.
Guard == [on : BOOLEAN, killed : BOOLEAN, old : BOOLEAN, booked : 0 .. 2, lost : BOOLEAN]

NoGuard == [on |-> FALSE, killed |-> FALSE, old |-> FALSE, booked |-> 0, lost |-> FALSE]
NewGuard == [NoGuard EXCEPT !.on = TRUE]

\* "closed" stands for "failed" as well.  `ingest`: the shared downlink adapter
\* exists; `mic`: the seats whose microphone is negotiated; `timers`: the sets of
\* intervals that run, each named by the socket of the join that started it, and
\* `timer` the one whose handles are remembered.
Den == [state : {"created", "connecting", "waiting_media", "bridging", "closing", "closed"},
        guard : Guard, xai : Sockets \cup {None}, ingest : BOOLEAN,
        seats : SUBSET Seats, mic : SUBSET Seats,
        timer : Sockets \cup {None}, timers : SUBSET Sockets, disclosed : BOOLEAN]

Joining == {"caps", "dial", "ingest", "floor"}
Task == [pc : {"idle", "egress", "dropping", "closing", "booking"} \cup Joining,
         seat : Seats \cup {None}, sock : Sockets \cup {None}]

Cold == [state |-> "created", guard |-> NoGuard, xai |-> None, ingest |-> FALSE,
         seats |-> {}, mic |-> {}, timer |-> None, timers |-> {}, disclosed |-> FALSE]

Idle == [pc |-> "idle", seat |-> None, sock |-> None]

Init ==
  /\ den = Cold
  /\ sock = [s \in Sockets |-> "free"]
  /\ task = [t \in Slots |-> Idle]
  /\ told = {}
  /\ raced = FALSE

At(t, pc) == task[t].pc = pc
Goes(t, k) == task' = [task EXCEPT ![t] = k]
Done(t) == Goes(t, Idle)

-----------------------------------------------------------------------------
(* teardown                                                                *)

Closed(d) == [d EXCEPT !.state = "closed", !.seats = {}, !.mic = {}]

Book(g, ok) ==
  IF ok THEN [g EXCEPT !.booked = IF @ = 2 THEN 2 ELSE @ + 1]
  ELSE [g EXCEPT !.lost = TRUE]

\* A bug: the socket is forgotten, not closed.
LetsGo(s, k) == k

HangsUp(s, k) == IF s = None \/ k[s] = "free" THEN k ELSE [k EXCEPT ![s] = "closing"]

\* The xAI socket is closed, and the minutes are booked if there is a guard.
HangUp(t, d, k) ==
  /\ sock' = HangsUp(d.xai, k)
  /\ IF d.guard.on
     THEN /\ \E ok \in BOOLEAN :
               den' = [d EXCEPT !.xai = None, !.guard = Book(@, ok)]
          /\ Goes(t, [Idle EXCEPT !.pc = "booking"])
     ELSE /\ den' = Closed([d EXCEPT !.xai = None])
          /\ Done(t)

\* The floor adapter of the seat is made; only then has the client its seat id.
HasFloor(x) == \A t \in Slots : At(t, "floor") => task[t].seat # x

Live(d) == d.state \in {"waiting_media", "bridging"}

\* A bug: a teardown whose calls are still out is not seen by a second one.
OnlyClosed(d) == d.state = "closed"

Ended(d) == d.state \in {"closing", "closed"}

\* A bug: the intervals run on.
LeaveRunning(d) == [d EXCEPT !.state = "closing", !.guard.killed = d.guard.on]

StartClosing(d) ==
  [d EXCEPT !.state = "closing", !.guard.killed = d.guard.on, !.timers = @ \ {d.timer}]

\* Up to its first await, which it has only if there are adapters to close.
Teardown(t, d, k) ==
  LET e == StartClosing(d)
  IN  IF Ended(d) THEN den' = d /\ sock' = k /\ Done(t)
      ELSE IF d.ingest \/ \E x \in d.seats : HasFloor(x)
      THEN den' = e /\ sock' = k /\ Goes(t, [Idle EXCEPT !.pc = "closing"])
      ELSE HangUp(t, e, k)

AdaptersClosed(t) ==
  /\ At(t, "closing")
  /\ HangUp(t, den, sock)
  /\ UNCHANGED <<told, raced>>

MinutesBooked(t) ==
  /\ At(t, "booking")
  /\ den' = Closed(den)
  /\ Done(t)
  /\ UNCHANGED <<sock, told, raced>>

-----------------------------------------------------------------------------
(* join                                                                    *)

NewSeat(x) == x \notin den.seats /\ \A t \in Slots : task[t].seat # x

NewSocket(s) ==
  /\ sock[s] = "free"
  /\ s \notin {den.xai, den.timer} \cup den.timers
  /\ \A t \in Slots : task[t].sock # s

Sit(t, d, x) ==
  /\ den' = [d EXCEPT !.seats = @ \cup {x}]
  /\ Goes(t, [Idle EXCEPT !.pc = "floor", !.seat = x])

\* A bug: the new fire believes the disclosure of the old one.
ResetKeepsDisclosed(d) ==
  IF d.state = "closed"
  THEN [d EXCEPT !.state = "created", !.guard = NoGuard, !.ingest = FALSE]
  ELSE d

\* A closed fire is reset: not its timers, nor what an earlier join still does.
Reset(d) ==
  IF d.state = "closed"
  THEN [d EXCEPT !.state = "created", !.guard = NoGuard, !.ingest = FALSE,
                 !.disclosed = FALSE]
  ELSE d

HasRoom == Cardinality(den.seats) < MaxSeats

Join(t) ==
  /\ task[t] = Idle
  /\ HasRoom
  /\ LET d == Reset(den)
     IN  IF d.state = "created"
         THEN den' = d /\ Goes(t, [Idle EXCEPT !.pc = "caps"])
         ELSE \E x \in Seats : NewSeat(x) /\ Sit(t, d, x)
  /\ UNCHANGED <<sock, told, raced>>

\* A cap is reached, the kill flag is set or a read throws: while the caps are
\* read, while xAI is dialled or while the downlink adapter is made.
JoinFails(t) ==
  /\ task[t].pc \in {"caps", "dial", "ingest"}
  /\ Teardown(t, den, sock)
  /\ UNCHANGED <<told, raced>>

\* The three assignments after an await are made whatever has happened to the
\* state they were decided on.
CapsPass(t) ==
  /\ At(t, "caps")
  /\ den' = [den EXCEPT !.state = "connecting", !.guard = NewGuard]
  /\ Goes(t, [Idle EXCEPT !.pc = "dial"])
  /\ raced' = (raced \/ den.state # "created" \/ \E u \in Slots : At(u, "dial") \/ At(u, "ingest"))
  /\ UNCHANGED <<sock, told>>

Dialled(t) ==
  /\ At(t, "dial")
  /\ \E s \in Sockets :
       /\ NewSocket(s)
       /\ sock' = [sock EXCEPT ![s] = "open"]
       /\ den' = [den EXCEPT !.xai = s]
       /\ told' = told \ {s}
       /\ Goes(t, [Idle EXCEPT !.pc = "ingest", !.sock = s])
  /\ raced' = (raced \/ den.state # "connecting")

\* A bug: the fire goes live and its timers are left for later.
LiveUntimed(d, s) == [d EXCEPT !.ingest = TRUE, !.state = "waiting_media"]

GoLive(d, s) ==
  [d EXCEPT !.ingest = TRUE, !.state = "waiting_media", !.timer = s, !.timers = @ \cup {s}]

IngestMade(t) ==
  /\ At(t, "ingest")
  /\ \E x \in Seats : NewSeat(x) /\ Sit(t, GoLive(den, task[t].sock), x)
  /\ raced' = (raced \/ den.state # "connecting")
  /\ UNCHANGED <<sock, told>>

FloorMade(t) ==
  /\ At(t, "floor")
  /\ Done(t)
  /\ UNCHANGED <<den, sock, told, raced>>

FloorFails(t) ==
  LET d == [den EXCEPT !.seats = @ \ {task[t].seat}]
  IN  /\ At(t, "floor")
      /\ IF d.seats = {} /\ d.state # "bridging"
         THEN Teardown(t, d, sock)
         ELSE den' = d /\ Done(t) /\ UNCHANGED sock
      /\ UNCHANGED <<told, raced>>

-----------------------------------------------------------------------------
(* seats                                                                   *)

Seated(x) == x \in den.seats /\ HasFloor(x)

MicNegotiated(x) ==
  /\ Live(den) /\ Seated(x) /\ x \notin den.mic
  /\ den' = [den EXCEPT !.mic = @ \cup {x}]
  /\ UNCHANGED <<sock, task, told, raced>>

\* A bug: what was negotiated for the seat outlives it.
KeepMic(d, x) == [d EXCEPT !.seats = @ \ {x}]

Without(d, x) == [d EXCEPT !.seats = @ \ {x}, !.mic = @ \ {x}]

DropSeat(t, x) ==
  IF x \in den.seats
  THEN /\ den' = Without(den, x)
       /\ Goes(t, [Idle EXCEPT !.pc = "dropping"])
  ELSE den' = den /\ Done(t)

\* A leave request, a leave message, the close of any control socket the seat
\* ever had, or an SDP exchange that failed.
Leave(t, x) ==
  /\ task[t] = Idle
  /\ Seated(x)
  /\ DropSeat(t, x)
  /\ UNCHANGED <<sock, told, raced>>

Dropped(t) ==
  /\ At(t, "dropping")
  /\ IF den.seats = {} /\ Live(den)
     THEN Teardown(t, den, sock)
     ELSE Done(t) /\ UNCHANGED <<den, sock>>
  /\ UNCHANGED <<told, raced>>

MediaReady(t, x) ==
  /\ task[t] = Idle
  /\ Live(den) /\ Seated(x) /\ x \in den.mic
  /\ Goes(t, [Idle EXCEPT !.pc = "egress", !.seat = x])
  /\ UNCHANGED <<den, sock, told, raced>>

EgressFails(t) ==
  /\ At(t, "egress")
  /\ DropSeat(t, task[t].seat)
  /\ UNCHANGED <<sock, told, raced>>

\* The SFU has made the uplink adapter.  Nothing is looked at again.
MediaFlows(t) ==
  /\ At(t, "egress")
  /\ told' = IF den.disclosed THEN told ELSE told \cup ({den.xai} \ {None})
  /\ den' = [den EXCEPT !.disclosed = TRUE, !.state = "bridging"]
  /\ Done(t)
  /\ raced' = (raced \/ ~Live(den))
  /\ UNCHANGED sock

-----------------------------------------------------------------------------
(* what ends a fire                                                        *)

\* A kill request, a billing or auth error of xAI, an sdp-listen that throws.
Kill(t) ==
  /\ task[t] = Idle
  /\ ~Ended(den)
  /\ Teardown(t, den, sock)
  /\ UNCHANGED <<told, raced>>

Expire ==
  /\ den.guard.on /\ ~den.guard.old
  /\ den' = [den EXCEPT !.guard.old = TRUE]
  /\ UNCHANGED <<sock, task, told, raced>>

\* A bug: only a kill ends a fire, never its budget.
KilledOnly(g) == g.on /\ g.killed

UsedUp(g) == g.on /\ (g.killed \/ g.old)

\* A tick that finds the guard killed or used up.
GuardTick(t) ==
  /\ task[t] = Idle
  /\ den.timers # {}
  /\ UsedUp(den.guard) /\ ~Ended(den)
  /\ Teardown(t, den, sock)
  /\ UNCHANGED <<told, raced>>

XaiCloses(s) ==
  /\ sock[s] = "open"
  /\ sock' = [sock EXCEPT ![s] = "closing"]
  /\ UNCHANGED <<den, task, told, raced>>

\* The close event of a socket, of whichever fire it was.
XaiGone(t, s) ==
  LET k == [sock EXCEPT ![s] = "free"]
  IN  /\ sock[s] = "closing"
      /\ IF Live(den)
         THEN task[t] = Idle /\ Teardown(t, den, k)
         ELSE sock' = k /\ UNCHANGED <<den, task>>
      /\ UNCHANGED <<told, raced>>

\* The object is evicted: its memory, handlers and sockets are gone.
Evict ==
  /\ den' = Cold
  /\ sock' = [s \in Sockets |-> "free"]
  /\ task' = [t \in Slots |-> Idle]
  /\ told' = {}
  /\ raced' = FALSE

-----------------------------------------------------------------------------

\* The awaits of a handler under way.
Proceed(t) ==
  \/ AdaptersClosed(t) \/ MinutesBooked(t)
  \/ JoinFails(t) \/ CapsPass(t) \/ Dialled(t) \/ IngestMade(t) \/ FloorMade(t) \/ FloorFails(t)
  \/ Dropped(t) \/ EgressFails(t) \/ MediaFlows(t)

Next ==
  \/ \E t \in Slots :
       \/ Proceed(t) \/ Join(t) \/ Kill(t) \/ GuardTick(t)
       \/ \E x \in Seats : Leave(t, x) \/ MediaReady(t, x)
       \/ \E s \in Sockets : XaiGone(t, s)
  \/ \E x \in Seats : MicNegotiated(x)
  \/ \E s \in Sockets : XaiCloses(s)
  \/ Expire
  \/ Evict

Spec == Init /\ [][Next]_vars

Fairness ==
  /\ \A t \in Slots : WF_vars(Proceed(t))
  /\ SF_vars(\E t \in Slots : GuardTick(t))
  /\ WF_vars(Expire)

FairSpec == Spec /\ Fairness

-----------------------------------------------------------------------------


Open == {s \in Sockets : sock[s] = "open"}

\* Every variable has its type, and what was negotiated belongs to a seat.
TypeOK ==
  /\ den \in Den
  /\ den.mic \subseteq den.seats
  \* The seats are counted before the awaits of the join that needs a fire, and its own is
  \* taken after them: one too many, and never two.
  /\ ~raced => Cardinality(den.seats) <= MaxSeats + 1
  /\ sock \in [Sockets -> {"free", "open", "closing"}]
  /\ task \in [Slots -> Task]
  /\ told \in SUBSET Sockets
  /\ raced \in BOOLEAN

\* No metered session outlives the object's own pointer to it: through every
\* join, failure, teardown and reset the only connection to xAI still open is the
\* one that the next teardown closes.
OneSession == ~raced => Open \subseteq {den.xai}

\* While the fire carries media its AI has been told, on this very connection, to
\* disclose itself: not on the one of an earlier fire of the same object.
DisclosureFirst ==
  ~raced /\ den.state = "bridging" /\ den.xai # None => den.xai \in told

\* Money is never spent unwatched: while a session is open the guard ticks, or a
\* handler is under way that will start it or close the session.
SpendIsGuarded ==
  ~raced /\ Open # {} => den.timers # {} \/ \E t \in Slots : task[t].pc \in {"ingest", "closing"}

\* A closed fire leaves no interval running that would tick on in the next one.
TimersStop == ~raced /\ den.state = "closed" => den.timers = {}

\* The minutes of a fire reach the ledgers once, whatever number of kills, leaves,
\* ticks and closed sockets ask for its end; a closed fire's have been booked, or
\* the ledger has refused them.
BookedOnce ==
  ~raced =>
    /\ den.guard.booked <= 1
    /\ den.state = "closed" /\ den.guard.on => den.guard.booked = 1 \/ den.guard.lost

\* Every metered session ends, however long its seats stay.
SessionsEnd ==
  \A s \in Sockets : (sock[s] = "open" /\ ~raced) ~> (sock[s] # "open" \/ raced)

\* "ONE xAI realtime session per den (cost = $0.05/min per DEN, not per human)",
\* voice-den.js:4.
OneSessionPerDen == Cardinality(Open) <= 1

\* "Fail-closed: lifecycle errors tear the session down (no half-open spend).",
\* voice-den.js:124: a closed fire with nothing under way has no open session.
NoHalfOpenSpend ==
  den.state = "closed" /\ (\A t \in Slots : task[t] = Idle) => Open = {}
=============================================================================
