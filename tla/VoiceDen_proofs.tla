---------------------------- MODULE VoiceDen_proofs ----------------------------
(***************************************************************************)
(* What holds of a voice fire while no handler overwrites a state it has   *)
(* not checked.                                                            *)
(*                                                                         *)
(* Of the handlers at an await two kinds matter: the one join that makes   *)
(* the fire, and the one teardown that ends it.  Each is there exactly in  *)
(* the states the fire has only while it is, and that fixes what the       *)
(* memory holds in each of its states: which socket is open, whether the   *)
(* guard ticks, whether the minutes are booked and whether the AI has been *)
(* told to disclose itself.                                                *)
(***************************************************************************)
EXTENDS VoiceDen, FiniteSetTheorems, TLAPS

\* The join that makes a fire, and the teardown that ends one.
Making(k) == k.pc \in {"dial", "ingest"}
Ending(k) == k.pc \in {"closing", "booking"}

\* A seat without a floor adapter has no microphone, and an adapter is made for a socket.
Hands(d, w) ==
  \A t \in Slots :
    /\ w[t].pc = "floor" => w[t].seat \in Seats /\ w[t].seat \notin d.mic
    /\ w[t].pc = "ingest" => w[t].sock \in Sockets

\* There is one such join and one such teardown at a time, and while the fire is in
\* their state they are there.
OneHand(d, w) ==
  /\ \A t, u \in Slots :
       \/ t = u
       \/ ~(Making(w[t]) /\ Making(w[u])) /\ ~(Ending(w[t]) /\ Ending(w[u]))
  /\ \A t \in Slots : Ending(w[t]) => d.state = "closing"
  /\ d.state = "closing" => \E t \in Slots : Ending(w[t])
  /\ d.state = "connecting" => \E t \in Slots : Making(w[t])

\* The session: what is dialled and not hung up is the one the memory points to.
Line(d, k, w) ==
  /\ \A s \in Sockets : k[s] = "open" => s = d.xai
  /\ d.state \in {"created", "closed"} => d.xai = None
  /\ \A t \in Slots :
       /\ d.state = "connecting" /\ w[t].pc = "dial" => d.xai = None
       /\ d.state = "connecting" /\ w[t].pc = "ingest" => w[t].sock = d.xai
       /\ w[t].pc = "booking" => d.xai = None

\* The guard: it ticks while the fire is live, and its minutes are booked at the end.
Books(d, w) ==
  /\ d.timers = IF Live(d) THEN {d.timer} ELSE {}
  /\ Live(d) => d.timer # None
  /\ d.guard.booked <= 1
  /\ d.state \notin {"closing", "closed"} => d.guard.booked = 0
  /\ \A t \in Slots : w[t].pc = "closing" => d.guard.booked = 0
  /\ d.guard.on /\ (d.state = "closed" \/ \E t \in Slots : w[t].pc = "booking") =>
       d.guard.booked = 1 \/ d.guard.lost

\* The disclosure is remembered only of the fire it was made in.
Discloses(d, h) ==
  /\ d.disclosed => d.state \in {"bridging", "closing", "closed"}
  /\ d.state = "bridging" => d.disclosed /\ (d.xai = None \/ d.xai \in h)

\* Only the join that makes the fire takes a seat it has not counted.
Counts(d) ==
  /\ d.state \in {"created", "closed"} => d.seats = {}
  /\ d.state = "connecting" => Cardinality(d.seats) <= MaxSeats
  /\ Cardinality(d.seats) <= MaxSeats + 1

Unraced(d, k, w, h) ==
  OneHand(d, w) /\ Line(d, k, w) /\ Books(d, w) /\ Discloses(d, h) /\ Counts(d)

FireInvariant ==
  TypeOK /\ Hands(den, task) /\ (~raced => Unraced(den, sock, task, told))

(* The joins and teardowns that are over when they come back find a state  *)
(* that is not theirs: one of their own would be a race.                   *)
LEMMA FireInvariantHolds == Spec => []FireInvariant
<1>1. Init => FireInvariant
  <2> SUFFICES ASSUME Init PROVE FireInvariant
    OBVIOUS
  <2>1. /\ den = Cold /\ Cold \in Den /\ Idle \in Task
        /\ Cold.state = "created" /\ Cold.xai = None /\ Cold.seats = {} /\ Cold.mic = {}
        /\ Cold.timers = {} /\ Cold.disclosed = FALSE
        /\ Cold.guard.on = FALSE /\ Cold.guard.booked = 0
    BY DEF Init, Cold, Den, NoGuard, Guard, Idle, Task
  <2>2. \A t \in Slots : task[t].pc = "idle"
    BY DEF Init, Idle
  <2>3. Cardinality({}) = 0
    BY FS_EmptySet
  <2>4. TypeOK
    <3>1. MaxSeats \in Nat /\ Cardinality(den.seats) <= MaxSeats + 1
      BY <2>1, <2>3, VoiceDenAssumption
    <3> QED
      BY <2>1, <3>1 DEF Init, TypeOK
  <2>5. OneHand(den, task) /\ Hands(den, task)
    BY <2>1, <2>2 DEF OneHand, Hands, Making, Ending
  <2>6. Line(den, sock, task)
    BY <2>1, <2>2 DEF Init, Line
  <2>7. Books(den, task) /\ Discloses(den, told) /\ Counts(den)
    BY <2>1, <2>2, <2>3, VoiceDenAssumption DEF Books, Discloses, Counts, Live
  <2> QED
    BY <2>4, <2>5, <2>6, <2>7 DEF FireInvariant, Unraced
<1>2. FireInvariant /\ [Next]_vars => FireInvariant'
  <2> SUFFICES ASSUME FireInvariant, [Next]_vars PROVE FireInvariant'
    OBVIOUS
  <2> DEFINE Sock == [Sockets -> {"free", "open", "closing"}]
  <2>1. /\ den \in Den /\ den.mic \subseteq den.seats /\ sock \in Sock
        /\ task \in [Slots -> Task] /\ told \in SUBSET Sockets /\ raced \in BOOLEAN
        /\ Hands(den, task)
    BY DEF FireInvariant, TypeOK
  <2>2. ~raced => /\ OneHand(den, task) /\ Line(den, sock, task) /\ Books(den, task)
                  /\ Discloses(den, told) /\ Counts(den)
    BY DEF FireInvariant, Unraced
  <2>3. \A S \in SUBSET Seats : IsFiniteSet(S) /\ Cardinality(S) \in Nat
    BY VoiceDenAssumption, FS_Subset, FS_CardinalityType
  <2>4. \A S, T \in SUBSET Seats : S \subseteq T => Cardinality(S) <= Cardinality(T)
    BY <2>3, FS_Subset
  <2>5. Cardinality({}) = 0 /\ MaxSeats \in Nat
    BY FS_EmptySet, VoiceDenAssumption
  <2>6. \A g \in Guard, ok \in BOOLEAN :
          /\ Book(g, ok) \in Guard /\ Book(g, ok).on = g.on
          /\ g.booked = 0 => Book(g, ok).booked = IF ok THEN 1 ELSE 0
          /\ ok \/ Book(g, ok).lost
    <3> SUFFICES ASSUME NEW g \in Guard, NEW ok \in BOOLEAN
                 PROVE  /\ Book(g, ok) \in Guard /\ Book(g, ok).on = g.on
                        /\ g.booked = 0 => Book(g, ok).booked = IF ok THEN 1 ELSE 0
                        /\ ok \/ Book(g, ok).lost
      OBVIOUS
    <3>1. CASE ok
      <4> DEFINE n == IF g.booked = 2 THEN 2 ELSE g.booked + 1
      <4>1. n \in 0 .. 2 /\ (g.booked = 0 => n = 1)
        BY DEF Guard
      <4>2. Book(g, ok) = [g EXCEPT !.booked = n]
        BY <3>1 DEF Book
      <4> HIDE DEF n
      <4> QED
        BY <3>1, <4>1, <4>2 DEF Guard
    <3>2. CASE ~ok
      BY <3>2 DEF Book, Guard
    <3> QED
      BY <3>1, <3>2
  \* A handler comes to its next await or to its end.
  <2>7. ASSUME NEW t \in Slots, NEW k \in Task, Goes(t, k)
        PROVE  task' \in [Slots -> Task] /\ \A u \in Slots : task'[u] = IF u = t THEN k ELSE task[u]
    BY <2>1, <2>7 DEF Goes
  <2>8. Idle \in Task /\ Idle.pc = "idle"
    BY DEF Idle, Task
  <2>9. \A p \in {"closing", "booking", "dropping", "caps", "dial"} :
          [Idle EXCEPT !.pc = p] \in Task /\ [Idle EXCEPT !.pc = p].pc = p
    BY DEF Idle, Task, Joining
  \* The end of a teardown, up to the booking.
  <2>10. ASSUME NEW t \in Slots, NEW e \in Den, NEW k \in Sock, HangUp(t, e, k),
                e.seats \subseteq den.seats, e.mic \subseteq e.seats,
                e.mic \subseteq den.mic, UNCHANGED <<told, raced>>,
                ~raced => /\ e.state = "closing" /\ e.timers = {} /\ e.guard.booked = 0
                          /\ \A s \in Sockets : k[s] = "open" => s = e.xai
                          /\ \A u \in Slots : u # t => ~Ending(task[u])
         PROVE  FireInvariant'
    <3>0. ~raced => Cardinality(e.seats) <= MaxSeats + 1
      <4> SUFFICES ASSUME ~raced PROVE Cardinality(e.seats) <= MaxSeats + 1
        OBVIOUS
      <4>1. Cardinality(den.seats) <= MaxSeats + 1
        BY <2>2 DEF Counts
      <4>2. e.seats \in SUBSET Seats /\ den.seats \in SUBSET Seats
        BY <2>1 DEF Den
      <4>3. Cardinality(e.seats) \in Nat /\ Cardinality(den.seats) \in Nat
        BY <2>3, <4>2
      <4> QED
        BY <2>4, <2>5, <2>10, <4>1, <4>2, <4>3
    <3>1. /\ sock' \in Sock
          /\ ~raced => \A s \in Sockets : sock'[s] # "open"
      <4>1. sock' = HangsUp(e.xai, k) /\ e.xai \in Sockets \cup {None}
        BY <2>10 DEF HangUp, Den
      <4>2. CASE e.xai = None \/ k[e.xai] = "free"
        BY <2>10, <4>1, <4>2, VoiceDenAssumption DEF HangsUp
      <4>3. CASE ~(e.xai = None \/ k[e.xai] = "free")
        <5>1. sock' = [k EXCEPT ![e.xai] = "closing"]
          BY <4>1, <4>3 DEF HangsUp
        <5> QED
          BY <2>10, <4>1, <4>3, <5>1
      <4> QED
        BY <4>2, <4>3
    <3>2. CASE e.guard.on
      <4>1. PICK ok \in BOOLEAN : den' = [e EXCEPT !.xai = None, !.guard = Book(@, ok)]
        BY <2>10, <3>2 DEF HangUp
      <4>2. Goes(t, [Idle EXCEPT !.pc = "booking"])
        BY <2>10, <3>2 DEF HangUp
      <4>3. Book(e.guard, ok) \in Guard
        BY <2>6 DEF Den
      <4>4. /\ den' \in Den /\ den'.state = e.state /\ den'.xai = None
            /\ den'.seats = e.seats /\ den'.mic = e.mic /\ den'.timers = e.timers
            /\ den'.guard = Book(e.guard, ok)
        BY <2>10, <4>1, <4>3 DEF Den
      <4>5. /\ task' \in [Slots -> Task] /\ task'[t].pc = "booking"
            /\ \A u \in Slots : u # t => task'[u] = task[u]
        BY <2>7, <2>9, <4>2
      <4>6. TypeOK'
        <5>1. ~raced => Cardinality(e.seats) <= MaxSeats + 1
          BY <3>0
        <5> QED
          BY <2>1, <2>10, <3>1, <4>4, <4>5, <5>1 DEF TypeOK
      <4>7. Hands(den, task)'
        BY <2>1, <2>10, <4>4, <4>5 DEF Hands
      <4>8. ASSUME ~raced PROVE Unraced(den, sock, task, told)'
        <5>1. OneHand(den, task)'
          BY <2>2, <2>10, <4>4, <4>5, <4>8 DEF OneHand, Making, Ending
        <5>2. Line(den, sock, task)'
          BY <2>10, <3>1, <4>4, <4>8 DEF Line
        <5>3. Books(den, task)'
          BY <2>6, <2>10, <4>3, <4>4, <4>5, <4>8 DEF Books, Live, Ending, Guard, Den
        <5>4. Discloses(den, told)' /\ Counts(den)'
          BY <2>10, <3>0, <4>4, <4>8 DEF Discloses, Counts
        <5> QED
          BY <5>1, <5>2, <5>3, <5>4 DEF Unraced
      <4> QED
        BY <2>10, <4>6, <4>7, <4>8 DEF FireInvariant
    <3>3. CASE ~e.guard.on
      <4>1. den' = Closed([e EXCEPT !.xai = None]) /\ Done(t)
        BY <2>10, <3>3 DEF HangUp
      <4>2. /\ den' \in Den /\ den'.state = "closed" /\ den'.xai = None
            /\ den'.seats = {} /\ den'.mic = {} /\ den'.timers = e.timers
            /\ den'.guard = e.guard /\ den'.disclosed = e.disclosed
        BY <2>10, <4>1 DEF Closed, Den
      <4>3. /\ task' \in [Slots -> Task] /\ task'[t].pc = "idle"
            /\ \A u \in Slots : u # t => task'[u] = task[u]
        BY <2>7, <2>8, <4>1 DEF Done
      <4>4. TypeOK' /\ Hands(den, task)'
        BY <2>1, <2>5, <2>10, <3>1, <4>2, <4>3 DEF TypeOK, Hands
      <4>5. ASSUME ~raced PROVE Unraced(den, sock, task, told)'
        <5>1. OneHand(den, task)'
          BY <2>2, <2>10, <4>2, <4>3, <4>5 DEF OneHand, Making, Ending
        <5>2. Line(den, sock, task)'
          BY <2>10, <3>1, <4>2, <4>3, <4>5 DEF Line, Ending
        <5>3. Books(den, task)'
          BY <2>10, <3>3, <4>2, <4>3, <4>5 DEF Books, Live, Ending
        <5>4. Discloses(den, told)' /\ Counts(den)'
          BY <2>5, <2>10, <4>2, <4>5 DEF Discloses, Counts
        <5> QED
          BY <5>1, <5>2, <5>3, <5>4 DEF Unraced
      <4> QED
        BY <2>10, <4>4, <4>5 DEF FireInvariant
    <3> QED
      BY <3>2, <3>3
  \* A teardown that a handler asks for, with what it has changed before it.
  <2>11. ASSUME NEW t \in Slots, NEW d \in Den, NEW k \in Sock, Teardown(t, d, k),
                ~Ending(task[t]), UNCHANGED <<told, raced>>,
                d.seats \subseteq den.seats, d.mic \subseteq d.seats, d.mic \subseteq den.mic,
                d.state = den.state, d.guard = den.guard, d.xai = den.xai,
                d.timer = den.timer, d.timers = den.timers, d.disclosed = den.disclosed,
                \A s \in Sockets : k[s] = "open" => sock[s] = "open"
         PROVE  FireInvariant'
    <3> DEFINE e == StartClosing(d)
    <3>1. /\ e \in Den /\ e.state = "closing" /\ e.xai = d.xai /\ e.disclosed = d.disclosed
          /\ e.seats = d.seats /\ e.mic = d.mic /\ e.timers = d.timers \ {d.timer}
          /\ e.guard.booked = d.guard.booked /\ e.guard \in Guard
      BY DEF StartClosing, Den, Guard
    <3>2. ~raced => \A u \in Slots : Ending(task[u]) => den.state = "closing"
      BY <2>2 DEF OneHand
    <3>3. ~raced /\ ~Ended(d) => e.timers = {} /\ e.guard.booked = 0
      BY <2>2, <2>11, <3>1 DEF Books, Ended
    <3>4. ~raced => \A s \in Sockets : k[s] = "open" => s = e.xai
      BY <2>2, <2>11, <3>1 DEF Line
    <3>5. ~raced => Cardinality(d.seats) <= MaxSeats + 1
      <4> SUFFICES ASSUME ~raced PROVE Cardinality(d.seats) <= MaxSeats + 1
        OBVIOUS
      <4>1. Cardinality(den.seats) <= MaxSeats + 1
        BY <2>2 DEF Counts
      <4>2. d.seats \in SUBSET Seats /\ den.seats \in SUBSET Seats
        BY <2>1 DEF Den
      <4>3. Cardinality(d.seats) \in Nat /\ Cardinality(den.seats) \in Nat
        BY <2>3, <4>2
      <4> QED
        BY <2>4, <2>5, <2>11, <4>1, <4>2, <4>3
    <3> HIDE DEF e
    <3>6. CASE Ended(d)
      <4>1. den' = d /\ sock' = k /\ Done(t)
        BY <2>11, <3>6 DEF Teardown
      <4>2. /\ task' \in [Slots -> Task] /\ task'[t].pc = "idle"
            /\ \A u \in Slots : u # t => task'[u] = task[u]
        BY <2>7, <2>8, <4>1 DEF Done
      <4>3. TypeOK' /\ Hands(den, task)'
        BY <2>1, <2>11, <3>5, <4>1, <4>2 DEF TypeOK, Hands
      <4>4. ASSUME ~raced PROVE Unraced(den, sock, task, told)'
        <5>1. OneHand(den, task)'
          BY <2>2, <2>11, <3>6, <4>1, <4>2, <4>4 DEF OneHand, Making, Ending, Ended
        <5>2. Line(den, sock, task)'
          BY <2>2, <2>11, <3>6, <4>1, <4>2, <4>4 DEF Line, Ended
        <5>3. Books(den, task)'
          BY <2>2, <2>11, <3>6, <4>1, <4>2, <4>4 DEF Books, Live, Ended
        <5>4. Discloses(den, told)' /\ Counts(den)'
          BY <2>2, <2>11, <3>5, <3>6, <4>1, <4>4 DEF Discloses, Counts, Ended
        <5> QED
          BY <5>1, <5>2, <5>3, <5>4 DEF Unraced
      <4> QED
        BY <2>11, <4>3, <4>4 DEF FireInvariant
    <3>7. CASE ~Ended(d) /\ den' = e /\ sock' = k /\ Goes(t, [Idle EXCEPT !.pc = "closing"])
      <4>1. /\ task' \in [Slots -> Task] /\ task'[t].pc = "closing"
            /\ \A u \in Slots : u # t => task'[u] = task[u]
        BY <2>7, <2>9, <3>7
      <4>2. TypeOK' /\ Hands(den, task)'
        BY <2>1, <2>11, <3>1, <3>5, <3>7, <4>1 DEF TypeOK, Hands
      <4>3. ASSUME ~raced PROVE Unraced(den, sock, task, told)'
        <5>1. OneHand(den, task)'
          BY <2>2, <2>11, <3>1, <3>7, <4>1, <4>3 DEF OneHand, Making, Ending, Ended
        <5>2. Line(den, sock, task)'
          BY <2>11, <3>1, <3>2, <3>4, <3>7, <4>1, <4>3 DEF Line, Ending, Ended
        <5>3. Books(den, task)'
          <6>1. \A u \in Slots : task'[u].pc # "booking"
            BY <2>11, <3>2, <3>7, <4>1, <4>3 DEF Ending, Ended
          <6>2. /\ den'.state = "closing" /\ den'.timers = {} /\ den'.guard.booked = 0
            BY <3>1, <3>3, <3>7, <4>3
          <6> QED
            BY <6>1, <6>2 DEF Books, Live
        <5>4. Discloses(den, told)' /\ Counts(den)'
          BY <2>2, <2>11, <3>1, <3>5, <3>7, <4>3 DEF Discloses, Counts
        <5> QED
          BY <5>1, <5>2, <5>3, <5>4 DEF Unraced
      <4> QED
        BY <2>11, <4>2, <4>3 DEF FireInvariant
    <3>8. CASE ~Ended(d) /\ HangUp(t, e, k)
      <4>1. ~raced => \A u \in Slots : u # t => ~Ending(task[u])
        BY <2>11, <3>2, <3>8 DEF Ended
      <4> QED
        BY <2>10, <2>11, <3>1, <3>3, <3>4, <3>8, <4>1
    <3> QED
      BY <2>11, <3>6, <3>7, <3>8 DEF Teardown, e
  <2>12. \A S \in SUBSET Seats : \A x \in Seats \ S :
           Cardinality(S \cup {x}) = Cardinality(S) + 1
    BY <2>3, FS_AddElement
  <2>13. \A x \in Seats :
           /\ [Idle EXCEPT !.pc = "floor", !.seat = x] \in Task
           /\ [Idle EXCEPT !.pc = "floor", !.seat = x].pc = "floor"
           /\ [Idle EXCEPT !.pc = "floor", !.seat = x].seat = x
    <3> SUFFICES ASSUME NEW x \in Seats
                 PROVE  /\ [Idle EXCEPT !.pc = "floor", !.seat = x] \in Task
                        /\ [Idle EXCEPT !.pc = "floor", !.seat = x].pc = "floor"
                        /\ [Idle EXCEPT !.pc = "floor", !.seat = x].seat = x
      OBVIOUS
    <3> QED
      BY <2>8 DEF Task, Joining
  <2>14. ASSUME NEW t \in Slots, AdaptersClosed(t) PROVE FireInvariant'
    <3>1. At(t, "closing") /\ HangUp(t, den, sock) /\ UNCHANGED <<told, raced>>
      BY <2>14 DEF AdaptersClosed
    <3>2. ~raced => /\ den.timers = {} /\ den.guard.booked = 0
                    /\ \A s \in Sockets : sock[s] = "open" => s = den.xai
                    /\ \A u \in Slots : u # t => ~Ending(task[u])
      BY <2>2, <3>1 DEF OneHand, Line, Books, Live, At, Ending
    <3>3. ~raced => den.state = "closing"
      BY <2>2, <3>1 DEF OneHand, At, Ending
    <3> QED
      BY <2>1, <2>10, <3>1, <3>2, <3>3
  <2>15. ASSUME NEW t \in Slots, MinutesBooked(t) PROVE FireInvariant'
    <3>1. /\ task[t].pc = "booking" /\ den' = Closed(den) /\ Done(t)
          /\ UNCHANGED <<sock, told, raced>>
      BY <2>15 DEF MinutesBooked, At
    <3>2. /\ den' \in Den /\ den'.state = "closed" /\ den'.xai = den.xai
          /\ den'.seats = {} /\ den'.mic = {} /\ den'.timers = den.timers
          /\ den'.guard = den.guard /\ den'.disclosed = den.disclosed
      BY <2>1, <3>1 DEF Closed, Den
    <3>3. /\ task' \in [Slots -> Task] /\ task'[t].pc = "idle"
          /\ \A u \in Slots : u # t => task'[u] = task[u]
      BY <2>7, <2>8, <3>1 DEF Done
    <3>4. TypeOK' /\ Hands(den, task)'
      BY <2>1, <2>5, <3>1, <3>2, <3>3 DEF TypeOK, Hands
    <3>5. ASSUME ~raced PROVE Unraced(den, sock, task, told)'
      <4>1. OneHand(den, task)'
        BY <2>2, <3>1, <3>2, <3>3, <3>5 DEF OneHand, Making, Ending
      <4>2. den.state = "closing" /\ den.xai = None
        BY <2>2, <3>1, <3>5 DEF OneHand, Line, Ending
      <4>3. Line(den, sock, task)'
        BY <2>2, <3>1, <3>2, <3>3, <3>5, <4>2 DEF Line
      <4>4. Books(den, task)'
        BY <2>2, <3>1, <3>2, <3>3, <3>5, <4>2 DEF Books, Live, OneHand, Ending
      <4>5. Discloses(den, told)' /\ Counts(den)'
        BY <2>5, <3>2 DEF Discloses, Counts
      <4> QED
        BY <4>1, <4>3, <4>4, <4>5 DEF Unraced
    <3> QED
      BY <3>1, <3>4, <3>5 DEF FireInvariant
  <2>16. ASSUME NEW t \in Slots, Join(t) PROVE FireInvariant'
    <3> DEFINE d == Reset(den)
    <3>1. /\ task[t] = Idle /\ HasRoom /\ UNCHANGED <<sock, told, raced>>
          /\ IF d.state = "created"
             THEN den' = d /\ Goes(t, [Idle EXCEPT !.pc = "caps"])
             ELSE \E x \in Seats : NewSeat(x) /\ Sit(t, d, x)
      BY <2>16 DEF Join
    <3>2. /\ d \in Den /\ d.state = IF den.state = "closed" THEN "created" ELSE den.state
          /\ d.xai = den.xai /\ d.seats = den.seats /\ d.mic = den.mic
          /\ d.timer = den.timer /\ d.timers = den.timers
      <4>1. NoGuard \in Guard
        BY DEF NoGuard, Guard
      <4>2. CASE den.state = "closed"
        BY <2>1, <4>1, <4>2 DEF Reset, Den
      <4>3. CASE den.state # "closed"
        BY <2>1, <4>3 DEF Reset
      <4> QED
        BY <4>2, <4>3
    <3>3. IF den.state = "closed"
          THEN d.guard = NoGuard /\ d.disclosed = FALSE
          ELSE d.guard = den.guard /\ d.disclosed = den.disclosed
      BY <2>1 DEF Reset, Den
    <3>4. NoGuard.booked = 0
      BY DEF NoGuard
    <3> HIDE DEF d
    <3>5. CASE d.state = "created"
      <4>1. den' = d /\ Goes(t, [Idle EXCEPT !.pc = "caps"])
        BY <3>1, <3>5
      <4>2. /\ task' \in [Slots -> Task] /\ task'[t].pc = "caps" /\ task[t].pc = "idle"
            /\ \A u \in Slots : u # t => task'[u] = task[u]
        BY <2>7, <2>8, <2>9, <3>1, <4>1
      <4>3. TypeOK' /\ Hands(den, task)'
        BY <2>1, <3>1, <3>2, <4>1, <4>2 DEF TypeOK, Hands, FireInvariant
      <4>4. ASSUME ~raced PROVE Unraced(den, sock, task, told)'
        <5>1. OneHand(den, task)'
          BY <2>2, <3>2, <3>5, <4>1, <4>2, <4>4 DEF OneHand, Making, Ending
        <5>2. Line(den, sock, task)'
          BY <2>2, <3>1, <3>2, <3>5, <4>1, <4>2, <4>4 DEF Line
        <5>3. Books(den, task)'
          <6>1. \A u \in Slots : ~Ending(task[u])
            BY <2>2, <3>2, <3>5, <4>4 DEF OneHand
          <6> QED
            BY <2>2, <3>2, <3>3, <3>4, <3>5, <4>1, <4>2, <4>4, <6>1 DEF Books, Live, Ending
        <5>4. Discloses(den, told)' /\ Counts(den)'
          BY <2>2, <3>1, <3>2, <3>3, <3>5, <4>1, <4>4 DEF Discloses, Counts
        <5> QED
          BY <5>1, <5>2, <5>3, <5>4 DEF Unraced
      <4> QED
        BY <3>1, <4>3, <4>4 DEF FireInvariant
    <3>6. CASE d.state # "created"
      <4>1. PICK x \in Seats : NewSeat(x) /\ Sit(t, d, x)
        BY <3>1, <3>6
      <4>2. d = den /\ den.state \notin {"created", "closed"}
        BY <3>2, <3>6 DEF d, Reset
      <4>3. /\ den' = [den EXCEPT !.seats = @ \cup {x}] /\ x \notin den.seats
            /\ Goes(t, [Idle EXCEPT !.pc = "floor", !.seat = x])
        BY <4>1, <4>2 DEF Sit, NewSeat
      <4>4. /\ den' \in Den /\ den'.state = den.state /\ den'.xai = den.xai
            /\ den'.seats = den.seats \cup {x} /\ den'.mic = den.mic
            /\ den'.timer = den.timer /\ den'.timers = den.timers
            /\ den'.guard = den.guard /\ den'.disclosed = den.disclosed
        BY <2>1, <4>3 DEF Den
      <4>5. /\ task' \in [Slots -> Task] /\ task'[t].pc = "floor" /\ task'[t].seat = x
            /\ task[t].pc = "idle" /\ \A u \in Slots : u # t => task'[u] = task[u]
        <5> DEFINE k == [Idle EXCEPT !.pc = "floor", !.seat = x]
        <5>1. k \in Task /\ k.pc = "floor" /\ k.seat = x /\ Goes(t, k)
          BY <2>13, <4>3
        <5> HIDE DEF k
        <5> QED
          BY <2>7, <2>8, <3>1, <5>1
      <4>6. Cardinality(den'.seats) \in Nat /\ Cardinality(den'.seats) <= MaxSeats
        <5>1. Cardinality(den.seats) < MaxSeats
          BY <3>1 DEF HasRoom
        <5> QED
          BY <2>1, <2>3, <2>5, <2>12, <4>3, <4>4, <5>1 DEF Den
      <4>7. TypeOK'
        BY <2>1, <2>5, <2>12, <3>1, <4>3, <4>4, <4>5, <4>6 DEF TypeOK
      <4>8. Hands(den, task)'
        BY <2>1, <3>1, <4>3, <4>4, <4>5 DEF Hands
      <4>9. ASSUME ~raced PROVE Unraced(den, sock, task, told)'
        <5>1. OneHand(den, task)'
          BY <2>2, <4>4, <4>5, <4>9 DEF OneHand, Making, Ending
        <5>2. Line(den, sock, task)'
          BY <2>2, <3>1, <4>4, <4>5, <4>9 DEF Line
        <5>3. Books(den, task)'
          BY <2>2, <4>4, <4>5, <4>9 DEF Books, Live
        <5>4. Discloses(den, told)' /\ Counts(den)'
          BY <2>2, <2>5, <2>12, <3>1, <4>2, <4>3, <4>4, <4>6, <4>9 DEF Discloses, Counts
        <5> QED
          BY <5>1, <5>2, <5>3, <5>4 DEF Unraced
      <4> QED
        BY <3>1, <4>7, <4>8, <4>9 DEF FireInvariant
    <3> QED
      BY <3>5, <3>6
  \* What leaves the fire in its state: seats that go, minutes that pass, handlers that
  \* neither make the fire nor end it, and sockets that close.
  <2>17. ASSUME NEW d \in Den, den' = d, task' \in [Slots -> Task], sock' \in Sock,
                UNCHANGED <<told, raced>>, Hands(den, task)',
                d.state = den.state, d.xai = den.xai, d.timer = den.timer,
                d.timers = den.timers, d.disclosed = den.disclosed,
                d.guard.on = den.guard.on, d.guard.booked = den.guard.booked,
                d.guard.lost = den.guard.lost,
                d.seats \subseteq den.seats, d.mic \subseteq d.seats,
                \A s \in Sockets : sock'[s] = "open" => sock[s] = "open",
                \A u \in Slots :
                  \/ task'[u] = task[u]
                  \/ /\ task'[u].pc \in {"idle", "egress", "dropping"}
                     /\ ~Making(task[u]) /\ ~Ending(task[u])
         PROVE  FireInvariant'
    <3>1. ~raced => Cardinality(d.seats) <= MaxSeats + 1 /\
                    (den.state = "connecting" => Cardinality(d.seats) <= MaxSeats)
      <4> SUFFICES ASSUME ~raced
                   PROVE  Cardinality(d.seats) <= MaxSeats + 1 /\
                          (den.state = "connecting" => Cardinality(d.seats) <= MaxSeats)
        OBVIOUS
      <4>1. /\ Cardinality(den.seats) <= MaxSeats + 1
            /\ den.state = "connecting" => Cardinality(den.seats) <= MaxSeats
        BY <2>2 DEF Counts
      <4>2. d.seats \in SUBSET Seats /\ den.seats \in SUBSET Seats
        BY <2>1 DEF Den
      <4>3. Cardinality(d.seats) \in Nat /\ Cardinality(den.seats) \in Nat
        BY <2>3, <4>2
      <4> QED
        BY <2>4, <2>5, <2>17, <4>1, <4>2, <4>3
    <3>2. TypeOK'
      BY <2>1, <2>17, <3>1 DEF TypeOK
    <3>3. ASSUME ~raced PROVE Unraced(den, sock, task, told)'
      <4>1. OneHand(den, task)'
        BY <2>2, <2>17, <3>3 DEF OneHand, Making, Ending
      <4>2. Line(den, sock, task)'
        BY <2>2, <2>17, <3>3 DEF Line
      <4>3. Books(den, task)'
        BY <2>2, <2>17, <3>3 DEF Books, Live
      <4>4. Discloses(den, told)' /\ Counts(den)'
        BY <2>2, <2>17, <3>1, <3>3 DEF Discloses, Counts
      <4> QED
        BY <4>1, <4>2, <4>3, <4>4 DEF Unraced
    <3> QED
      BY <2>17, <3>2, <3>3 DEF FireInvariant
  <2>18. ASSUME NEW t \in Slots, JoinFails(t) \/ Kill(t) \/ GuardTick(t) PROVE FireInvariant'
    <3>1. /\ Teardown(t, den, sock) /\ UNCHANGED <<told, raced>>
          /\ task[t].pc \in {"caps", "dial", "ingest", "idle"}
      BY <2>8, <2>18 DEF JoinFails, Kill, GuardTick
    <3> QED
      BY <2>1, <2>11, <3>1 DEF Ending
  <2>19. ASSUME NEW t \in Slots, NEW x \in Seats, DropSeat(t, x),
                task[t].pc \in {"idle", "egress"}, UNCHANGED <<sock, told, raced>>
         PROVE  FireInvariant'
    <3>1. CASE x \in den.seats
      <4>1. den' = Without(den, x) /\ Goes(t, [Idle EXCEPT !.pc = "dropping"])
        BY <2>19, <3>1 DEF DropSeat
      <4>2. /\ Without(den, x) \in Den
            /\ Without(den, x).seats = den.seats \ {x} /\ Without(den, x).mic = den.mic \ {x}
            /\ Without(den, x).state = den.state /\ Without(den, x).xai = den.xai
            /\ Without(den, x).timer = den.timer /\ Without(den, x).timers = den.timers
            /\ Without(den, x).disclosed = den.disclosed /\ Without(den, x).guard = den.guard
        BY <2>1 DEF Without, Den
      <4>3. /\ task' \in [Slots -> Task] /\ task'[t].pc = "dropping"
            /\ \A u \in Slots : u # t => task'[u] = task[u]
        BY <2>7, <2>9, <4>1
      <4>4. Hands(den, task)'
        BY <2>1, <4>1, <4>2, <4>3 DEF Hands
      <4> QED
        BY <2>1, <2>17, <2>19, <4>1, <4>2, <4>3, <4>4 DEF Making, Ending
    <3>2. CASE x \notin den.seats
      <4>1. den' = den /\ Done(t)
        BY <2>19, <3>2 DEF DropSeat
      <4>2. /\ task' \in [Slots -> Task] /\ task'[t].pc = "idle"
            /\ \A u \in Slots : u # t => task'[u] = task[u]
        BY <2>7, <2>8, <4>1 DEF Done
      <4>3. Hands(den, task)'
        BY <2>1, <4>1, <4>2 DEF Hands
      <4> QED
        BY <2>1, <2>17, <2>19, <4>1, <4>2, <4>3 DEF Making, Ending
    <3> QED
      BY <3>1, <3>2
  <2>20. ASSUME NEW t \in Slots,
                EgressFails(t) \/ \E x \in Seats : Leave(t, x)
         PROVE  FireInvariant'
    <3>1. CASE EgressFails(t)
      <4>1. /\ task[t].pc = "egress" /\ DropSeat(t, task[t].seat)
            /\ UNCHANGED <<sock, told, raced>>
        BY <3>1 DEF EgressFails, At
      <4>2. CASE task[t].seat \in Seats
        BY <2>19, <4>1, <4>2
      <4>3. CASE task[t].seat \notin Seats
        <5>1. den' = den /\ Done(t)
          BY <2>1, <4>1, <4>3 DEF DropSeat, Den
        <5>2. /\ task' \in [Slots -> Task] /\ task'[t].pc = "idle"
              /\ \A u \in Slots : u # t => task'[u] = task[u]
          BY <2>7, <2>8, <5>1 DEF Done
        <5>3. Hands(den, task)'
          BY <2>1, <5>1, <5>2 DEF Hands
        <5> QED
          BY <2>1, <2>17, <4>1, <5>1, <5>2, <5>3 DEF Making, Ending
      <4> QED
        BY <4>2, <4>3
    <3>2. CASE \E x \in Seats : Leave(t, x)
      BY <2>8, <2>19, <3>2 DEF Leave
    <3> QED
      BY <2>20, <3>1, <3>2
  <2>21. ASSUME NEW t \in Slots, Done(t), task[t].pc \in {"floor", "dropping"},
                UNCHANGED <<den, sock, told, raced>>
         PROVE  FireInvariant'
    <3>1. /\ task' \in [Slots -> Task] /\ task'[t].pc = "idle"
          /\ \A u \in Slots : u # t => task'[u] = task[u]
      BY <2>7, <2>8, <2>21 DEF Done
    <3>2. Hands(den, task)'
      BY <2>1, <2>21, <3>1 DEF Hands
    <3> QED
      BY <2>1, <2>17, <2>21, <3>1, <3>2 DEF Making, Ending
  <2>22. ASSUME NEW t \in Slots, FloorMade(t) \/ Dropped(t) PROVE FireInvariant'
    <3>1. CASE FloorMade(t)
      BY <2>21, <3>1 DEF FloorMade, At
    <3>2. CASE Dropped(t)
      <4>1. /\ task[t].pc = "dropping" /\ UNCHANGED <<told, raced>>
            /\ IF den.seats = {} /\ Live(den)
               THEN Teardown(t, den, sock)
               ELSE Done(t) /\ UNCHANGED <<den, sock>>
        BY <3>2 DEF Dropped, At
      <4> QED
        BY <2>1, <2>11, <2>21, <4>1 DEF Ending
    <3> QED
      BY <2>22, <3>1, <3>2
  <2>23. ASSUME NEW t \in Slots, FloorFails(t) PROVE FireInvariant'
    <3> DEFINE d == [den EXCEPT !.seats = @ \ {task[t].seat}]
    <3>1. /\ task[t].pc = "floor" /\ UNCHANGED <<told, raced>>
          /\ IF d.seats = {} /\ d.state # "bridging"
             THEN Teardown(t, d, sock)
             ELSE den' = d /\ Done(t) /\ UNCHANGED sock
      BY <2>23 DEF FloorFails, At
    <3>2. /\ d \in Den /\ d.seats = den.seats \ {task[t].seat} /\ d.mic = den.mic
          /\ d.state = den.state /\ d.xai = den.xai /\ d.timer = den.timer
          /\ d.timers = den.timers /\ d.disclosed = den.disclosed /\ d.guard = den.guard
      BY <2>1 DEF Den
    <3>3. d.mic \subseteq d.seats
      BY <2>1, <3>1, <3>2 DEF Hands
    <3> HIDE DEF d
    <3>4. CASE d.seats = {} /\ d.state # "bridging"
      BY <2>1, <2>11, <3>1, <3>2, <3>3, <3>4 DEF Ending
    <3>5. CASE ~(d.seats = {} /\ d.state # "bridging")
      <4>1. /\ task' \in [Slots -> Task] /\ task'[t].pc = "idle"
            /\ \A u \in Slots : u # t => task'[u] = task[u]
        BY <2>7, <2>8, <3>1, <3>5 DEF Done
      <4>2. Hands(den, task)'
        BY <2>1, <3>1, <3>2, <3>5, <4>1 DEF Hands
      <4> QED
        BY <2>1, <2>17, <3>1, <3>2, <3>3, <3>5, <4>1, <4>2 DEF Making, Ending
    <3> QED
      BY <3>4, <3>5
  <2>24. ASSUME NEW t \in Slots, NEW x \in Seats, MediaReady(t, x) PROVE FireInvariant'
    <3> DEFINE k == [Idle EXCEPT !.pc = "egress", !.seat = x]
    <3>1. task[t].pc = "idle" /\ Goes(t, k) /\ UNCHANGED <<den, sock, told, raced>>
      BY <2>8, <2>24 DEF MediaReady
    <3>2. k \in Task /\ k.pc = "egress"
      BY <2>8 DEF Task
    <3> HIDE DEF k
    <3>3. /\ task' \in [Slots -> Task] /\ task'[t].pc = "egress"
          /\ \A u \in Slots : u # t => task'[u] = task[u]
      BY <2>7, <3>1, <3>2
    <3>4. Hands(den, task)'
      BY <2>1, <3>1, <3>3 DEF Hands
    <3> QED
      BY <2>1, <2>17, <3>1, <3>3, <3>4 DEF Making, Ending
  <2>25. ASSUME NEW x \in Seats, MicNegotiated(x) PROVE FireInvariant'
    <3>1. /\ x \in den.seats /\ HasFloor(x) /\ Live(den) /\ UNCHANGED <<sock, task, told, raced>>
          /\ den' = [den EXCEPT !.mic = @ \cup {x}]
      BY <2>25 DEF MicNegotiated, Seated
    <3>2. /\ den' \in Den /\ den'.mic = den.mic \cup {x} /\ den'.seats = den.seats
          /\ den'.state = den.state /\ den'.xai = den.xai /\ den'.timer = den.timer
          /\ den'.timers = den.timers /\ den'.disclosed = den.disclosed
          /\ den'.guard = den.guard
      BY <2>1, <3>1 DEF Den
    <3>3. Hands(den, task)'
      BY <2>1, <3>1, <3>2 DEF Hands, HasFloor, At
    <3>4. den'.mic \subseteq den'.seats
      BY <2>1, <3>1, <3>2
    <3> QED
      BY <2>1, <2>17, <3>1, <3>2, <3>3, <3>4
  <2>26. ASSUME Expire PROVE FireInvariant'
    <3>1. /\ den' = [den EXCEPT !.guard.old = TRUE] /\ UNCHANGED <<sock, task, told, raced>>
      BY <2>26 DEF Expire
    <3>2. /\ den' \in Den /\ den'.mic = den.mic /\ den'.seats = den.seats
          /\ den'.state = den.state /\ den'.xai = den.xai /\ den'.timer = den.timer
          /\ den'.timers = den.timers /\ den'.disclosed = den.disclosed
          /\ den'.guard.on = den.guard.on /\ den'.guard.booked = den.guard.booked
          /\ den'.guard.lost = den.guard.lost
      BY <2>1, <3>1 DEF Den, Guard
    <3>3. Hands(den, task)'
      BY <2>1, <3>1, <3>2 DEF Hands
    <3> QED
      BY <2>1, <2>17, <3>1, <3>2, <3>3
  <2>27. ASSUME NEW s \in Sockets, XaiCloses(s) \/ \E t \in Slots : XaiGone(t, s)
         PROVE  FireInvariant'
    <3>1. ASSUME sock' \in Sock, UNCHANGED <<den, task, told, raced>>,
                 \A r \in Sockets : sock'[r] = "open" => sock[r] = "open"
          PROVE  FireInvariant'
      <4>1. Hands(den, task)'
        BY <2>1, <3>1
      <4> QED
        BY <2>1, <2>17, <3>1, <4>1
    <3>2. CASE XaiCloses(s)
      <4>1. sock' = [sock EXCEPT ![s] = "closing"] /\ UNCHANGED <<den, task, told, raced>>
        BY <3>2 DEF XaiCloses
      <4> QED
        BY <2>1, <3>1, <4>1
    <3>3. ASSUME NEW t \in Slots, XaiGone(t, s) PROVE FireInvariant'
      <4> DEFINE k == [sock EXCEPT ![s] = "free"]
      <4>1. /\ UNCHANGED <<told, raced>>
            /\ IF Live(den)
               THEN task[t] = Idle /\ Teardown(t, den, k)
               ELSE sock' = k /\ UNCHANGED <<den, task>>
        BY <3>3 DEF XaiGone
      <4>2. k \in Sock /\ \A r \in Sockets : k[r] = "open" => sock[r] = "open"
        BY <2>1
      <4> HIDE DEF k
      <4>3. CASE Live(den)
        BY <2>1, <2>8, <2>11, <4>1, <4>2, <4>3 DEF Ending
      <4>4. CASE ~Live(den)
        BY <3>1, <4>1, <4>2, <4>4
      <4> QED
        BY <4>3, <4>4
    <3> QED
      BY <2>27, <3>2, <3>3
  <2>28. CASE UNCHANGED vars
    BY <2>28 DEF vars, FireInvariant, TypeOK, Unraced, Hands, OneHand, Line, Books, Discloses,
                 Counts, Live, Making, Ending
  \* The join that makes the fire.
  <2>29. ASSUME NEW t \in Slots, CapsPass(t) PROVE FireInvariant'
    <3>1. /\ task[t].pc = "caps" /\ Goes(t, [Idle EXCEPT !.pc = "dial"])
          /\ den' = [den EXCEPT !.state = "connecting", !.guard = NewGuard]
          /\ raced' = (raced \/ den.state # "created" \/ \E u \in Slots : At(u, "dial") \/ At(u, "ingest"))
          /\ UNCHANGED <<sock, told>>
      BY <2>29 DEF CapsPass, At
    <3>2. NewGuard \in Guard /\ NewGuard.booked = 0
      <4>1. NoGuard \in Guard /\ NoGuard.booked = 0
        BY DEF NoGuard, Guard
      <4> QED
        BY <4>1 DEF NewGuard, Guard
    <3>3. /\ den' \in Den /\ den'.state = "connecting" /\ den'.guard = NewGuard
          /\ den'.mic = den.mic /\ den'.seats = den.seats /\ den'.xai = den.xai
          /\ den'.timer = den.timer /\ den'.timers = den.timers
          /\ den'.disclosed = den.disclosed
      BY <2>1, <3>1, <3>2 DEF Den
    <3>4. /\ task' \in [Slots -> Task] /\ task'[t].pc = "dial"
          /\ \A u \in Slots : u # t => task'[u] = task[u]
      BY <2>7, <2>9, <3>1
    <3>5. raced' \in BOOLEAN
      BY <3>1
    <3>6. ASSUME ~raced' PROVE ~raced /\ den.state = "created" /\ \A u \in Slots : ~Making(task[u])
      BY <3>1, <3>6 DEF At, Making
    <3>7. TypeOK'
      <4>1. ~raced' => Cardinality(den'.seats) <= MaxSeats + 1
        BY <2>2, <3>3, <3>6 DEF Counts
      <4> QED
        BY <2>1, <3>1, <3>3, <3>4, <3>5, <4>1 DEF TypeOK
    <3>8. Hands(den, task)'
      BY <2>1, <3>3, <3>4 DEF Hands
    <3>9. ASSUME ~raced' PROVE Unraced(den, sock, task, told)'
      <4>1. ~raced /\ den.state = "created" /\ \A u \in Slots : ~Making(task[u])
        BY <3>6, <3>9
      <4>2. \A u \in Slots : ~Ending(task[u])
        BY <2>2, <4>1 DEF OneHand
      <4>3. OneHand(den, task)'
        BY <3>3, <3>4, <4>1, <4>2 DEF OneHand, Making, Ending
      <4>4. Line(den, sock, task)'
        BY <2>2, <3>1, <3>3, <3>4, <4>1, <4>2 DEF Line, Making, Ending
      <4>5. Books(den, task)'
        BY <2>2, <3>2, <3>3, <3>4, <4>1, <4>2 DEF Books, Live, Ending
      <4>6. Discloses(den, told)' /\ Counts(den)'
        BY <2>2, <2>5, <3>3, <4>1 DEF Discloses, Counts
      <4> QED
        BY <4>3, <4>4, <4>5, <4>6 DEF Unraced
    <3> QED
      BY <3>7, <3>8, <3>9 DEF FireInvariant
  <2>30. ASSUME NEW t \in Slots, Dialled(t) PROVE FireInvariant'
    <3>1. PICK s \in Sockets :
            /\ NewSocket(s) /\ sock' = [sock EXCEPT ![s] = "open"]
            /\ den' = [den EXCEPT !.xai = s] /\ told' = told \ {s}
            /\ Goes(t, [Idle EXCEPT !.pc = "ingest", !.sock = s])
      BY <2>30 DEF Dialled
    <3>2. task[t].pc = "dial" /\ raced' = (raced \/ den.state # "connecting")
      BY <2>30 DEF Dialled, At
    <3> DEFINE k == [Idle EXCEPT !.pc = "ingest", !.sock = s]
    <3>3. k \in Task /\ k.pc = "ingest" /\ k.sock = s
      BY <2>8 DEF Task, Joining
    <3>4. Goes(t, k)
      BY <3>1
    <3> HIDE DEF k
    <3>5. /\ task' \in [Slots -> Task] /\ task'[t].pc = "ingest" /\ task'[t].sock = s
          /\ \A u \in Slots : u # t => task'[u] = task[u]
      BY <2>7, <3>3, <3>4
    <3>6. /\ den' \in Den /\ den'.state = den.state /\ den'.guard = den.guard
          /\ den'.mic = den.mic /\ den'.seats = den.seats /\ den'.xai = s
          /\ den'.timer = den.timer /\ den'.timers = den.timers
          /\ den'.disclosed = den.disclosed
      BY <2>1, <3>1 DEF Den
    <3>7. sock' \in Sock /\ \A r \in Sockets : sock'[r] = "open" => r = s \/ sock[r] = "open"
      BY <2>1, <3>1
    <3>8. raced' \in BOOLEAN /\ (~raced' => ~raced /\ den.state = "connecting")
      BY <2>1, <3>2
    <3>9. TypeOK'
      <4>1. ~raced' => Cardinality(den'.seats) <= MaxSeats + 1
        BY <2>2, <3>6, <3>8 DEF Counts
      <4> QED
        BY <2>1, <3>1, <3>5, <3>6, <3>7, <3>8, <4>1 DEF TypeOK
    <3>10. Hands(den, task)'
      BY <2>1, <3>5, <3>6 DEF Hands
    <3>11. ASSUME ~raced' PROVE Unraced(den, sock, task, told)'
      <4>1. ~raced /\ den.state = "connecting" /\ den.xai = None /\ s # None
        BY <2>2, <3>2, <3>8, <3>11, VoiceDenAssumption DEF Line
      <4>2. \A u \in Slots : ~Ending(task[u]) /\ (u # t => ~Making(task[u]))
        BY <2>2, <3>2, <4>1 DEF OneHand, Making
      <4>3. OneHand(den, task)'
        BY <3>5, <3>6, <4>1, <4>2 DEF OneHand, Making, Ending
      <4>4. Line(den, sock, task)'
        BY <2>2, <3>5, <3>6, <3>7, <4>1, <4>2, VoiceDenAssumption DEF Line, Making, Ending
      <4>5. Books(den, task)'
        BY <2>2, <3>5, <3>6, <4>1, <4>2 DEF Books, Live, Ending
      <4>6. Discloses(den, told)' /\ Counts(den)'
        BY <2>2, <3>6, <4>1 DEF Discloses, Counts
      <4> QED
        BY <4>3, <4>4, <4>5, <4>6 DEF Unraced
    <3> QED
      BY <3>9, <3>10, <3>11 DEF FireInvariant
  <2>31. ASSUME NEW t \in Slots, IngestMade(t) PROVE FireInvariant'
    <3> DEFINE s == task[t].sock
               d == GoLive(den, s)
    <3>1. /\ task[t].pc = "ingest" /\ raced' = (raced \/ den.state # "connecting")
          /\ UNCHANGED <<sock, told>>
      BY <2>31 DEF IngestMade, At
    <3>2. PICK x \in Seats : NewSeat(x) /\ Sit(t, d, x)
      BY <2>31 DEF IngestMade
    <3>3. s \in Sockets
      BY <2>1, <3>1 DEF Hands
    <3>4. /\ d \in Den /\ d.state = "waiting_media" /\ d.guard = den.guard
          /\ d.mic = den.mic /\ d.seats = den.seats /\ d.xai = den.xai
          /\ d.timer = s /\ d.timers = den.timers \cup {s}
          /\ d.disclosed = den.disclosed
      BY <2>1, <3>3 DEF GoLive, Den
    <3> HIDE DEF d
    <3>5. /\ den' = [d EXCEPT !.seats = @ \cup {x}] /\ x \notin den.seats
          /\ Goes(t, [Idle EXCEPT !.pc = "floor", !.seat = x])
      BY <3>2 DEF Sit, NewSeat
    <3>6. /\ den' \in Den /\ den'.state = "waiting_media" /\ den'.guard = den.guard
          /\ den'.mic = den.mic /\ den'.seats = den.seats \cup {x} /\ den'.xai = den.xai
          /\ den'.timer = s /\ den'.timers = den.timers \cup {s}
          /\ den'.disclosed = den.disclosed
      BY <3>4, <3>5 DEF Den
    <3> DEFINE k == [Idle EXCEPT !.pc = "floor", !.seat = x]
    <3>7. k \in Task /\ k.pc = "floor" /\ k.seat = x /\ Goes(t, k)
      BY <2>13, <3>5
    <3> HIDE DEF k
    <3>8. /\ task' \in [Slots -> Task] /\ task'[t].pc = "floor" /\ task'[t].seat = x
          /\ \A u \in Slots : u # t => task'[u] = task[u]
      BY <2>7, <3>7
    <3>9. raced' \in BOOLEAN /\ (~raced' => ~raced /\ den.state = "connecting")
      BY <2>1, <3>1
    <3>10. ~raced' => Cardinality(den'.seats) <= MaxSeats + 1
      <4> SUFFICES ASSUME ~raced' PROVE Cardinality(den'.seats) <= MaxSeats + 1
        OBVIOUS
      <4>1. Cardinality(den.seats) <= MaxSeats
        BY <2>2, <3>9 DEF Counts
      <4>2. den.seats \in SUBSET Seats
        BY <2>1 DEF Den
      <4> QED
        BY <2>3, <2>5, <2>12, <3>5, <3>6, <4>1, <4>2
    <3>11. TypeOK'
      BY <2>1, <3>1, <3>6, <3>8, <3>9, <3>10 DEF TypeOK
    <3>12. Hands(den, task)'
      BY <2>1, <3>5, <3>6, <3>8 DEF Hands
    <3>13. ASSUME ~raced' PROVE Unraced(den, sock, task, told)'
      <4>1. ~raced /\ den.state = "connecting" /\ s # None
        BY <3>3, <3>9, <3>13, VoiceDenAssumption
      <4>2. \A u \in Slots : ~Ending(task[u]) /\ (u # t => ~Making(task[u]))
        BY <2>2, <3>1, <4>1 DEF OneHand, Making
      <4>3. OneHand(den, task)'
        BY <3>6, <3>8, <4>1, <4>2 DEF OneHand, Making, Ending
      <4>4. Line(den, sock, task)'
        BY <2>2, <3>1, <3>6, <3>8, <4>1, <4>2 DEF Line, Making, Ending
      <4>5. Books(den, task)'
        BY <2>2, <3>6, <3>8, <4>1, <4>2 DEF Books, Live, Ending
      <4>6. Discloses(den, told)' /\ Counts(den)'
        BY <2>2, <3>6, <3>10, <3>13, <4>1 DEF Discloses, Counts
      <4> QED
        BY <4>3, <4>4, <4>5, <4>6 DEF Unraced
    <3> QED
      BY <3>11, <3>12, <3>13 DEF FireInvariant
  <2>32. ASSUME NEW t \in Slots, MediaFlows(t) PROVE FireInvariant'
    <3>1. /\ task[t].pc = "egress" /\ Done(t) /\ sock' = sock
          /\ told' = IF den.disclosed THEN told ELSE told \cup ({den.xai} \ {None})
          /\ den' = [den EXCEPT !.disclosed = TRUE, !.state = "bridging"]
          /\ raced' = (raced \/ ~Live(den))
      BY <2>32 DEF MediaFlows, At
    <3>2. /\ den' \in Den /\ den'.state = "bridging" /\ den'.guard = den.guard
          /\ den'.mic = den.mic /\ den'.seats = den.seats /\ den'.xai = den.xai
          /\ den'.timer = den.timer /\ den'.timers = den.timers /\ den'.disclosed
          /\ den.xai \in Sockets \cup {None}
      BY <2>1, <3>1 DEF Den
    <3>3. /\ task' \in [Slots -> Task] /\ task'[t].pc = "idle"
          /\ \A u \in Slots : u # t => task'[u] = task[u]
      BY <2>7, <2>8, <3>1 DEF Done
    <3>4. raced' \in BOOLEAN /\ (~raced' => ~raced /\ Live(den))
      BY <2>1, <3>1 DEF Live
    <3>5. TypeOK'
      <4>1. ~raced' => Cardinality(den'.seats) <= MaxSeats + 1
        BY <2>2, <3>2, <3>4 DEF Counts
      <4>2. told' \in SUBSET Sockets
        BY <2>1, <3>1, <3>2
      <4> QED
        BY <2>1, <3>1, <3>2, <3>3, <3>4, <4>1, <4>2 DEF TypeOK
    <3>6. Hands(den, task)'
      BY <2>1, <3>2, <3>3 DEF Hands
    <3>7. ASSUME ~raced' PROVE Unraced(den, sock, task, told)'
      <4>1. ~raced /\ Live(den)
        BY <3>4, <3>7
      <4>2. \A u \in Slots : ~Ending(task[u])
        BY <2>2, <4>1 DEF OneHand, Live
      <4>3. OneHand(den, task)'
        BY <2>2, <3>2, <3>3, <4>1, <4>2 DEF OneHand, Making, Ending
      <4>4. Line(den, sock, task)'
        BY <2>2, <3>1, <3>2, <3>3, <4>1, <4>2 DEF Line, Ending
      <4>5. Books(den, task)'
        BY <2>2, <3>2, <3>3, <4>1, <4>2 DEF Books, Live, Ending
      <4>6. Discloses(den, told)'
        BY <2>2, <3>1, <3>2, <4>1 DEF Discloses, Live
      <4>7. Counts(den)'
        BY <2>2, <3>2, <4>1 DEF Counts
      <4> QED
        BY <4>3, <4>4, <4>5, <4>6, <4>7 DEF Unraced
    <3> QED
      BY <3>5, <3>6, <3>7 DEF FireInvariant
  <2>33. ASSUME Evict PROVE FireInvariant'
    <3>1. Init'
      BY <2>33 DEF Evict, Init
    <3> QED
      BY <1>1, <3>1, PTL
  <2> QED
    BY <2>14, <2>15, <2>16, <2>18, <2>20, <2>22, <2>23, <2>24, <2>25, <2>26, <2>27, <2>28,
       <2>29, <2>30, <2>31, <2>32, <2>33 DEF Next, Proceed
<1> QED
  BY <1>1, <1>2, PTL DEF Spec

(* For any number of handlers at their awaits, of seats and of connections *)
(* (voice-den.js), as long as no handler writes a state over one it has not*)
(* checked: the one connection to xAI that is open is the one the next     *)
(* teardown closes.                                                        *)
THEOREM NoSessionIsForgotten == Spec => []OneSession
<1>1. FireInvariant => OneSession
  BY DEF FireInvariant, Unraced, OneSession, Open, Line
<1> QED
  BY <1>1, FireInvariantHolds, PTL

(* While a metered connection is open the guard's intervals run, or a join *)
(* is under way that will start them or a teardown that will hang up.      *)
THEOREM SpendStaysGuarded == Spec => []SpendIsGuarded
<1>1. FireInvariant => SpendIsGuarded
  <2> SUFFICES ASSUME FireInvariant, ~raced, NEW s \in Open
               PROVE  den.timers # {} \/ \E t \in Slots : task[t].pc \in {"ingest", "closing"}
    BY DEF SpendIsGuarded
  <2>1. /\ OneHand(den, task) /\ Line(den, sock, task) /\ Books(den, task)
        /\ den \in Den /\ task \in [Slots -> Task]
    BY DEF FireInvariant, Unraced, TypeOK
  <2>2. s \in Sockets /\ s = den.xai /\ den.xai # None
    BY <2>1, VoiceDenAssumption DEF Open, Line
  <2>3. den.state \in {"connecting", "waiting_media", "bridging", "closing"}
    BY <2>1, <2>2 DEF Line, Den
  <2>4. CASE Live(den)
    BY <2>1, <2>4 DEF Books
  <2>5. CASE den.state = "connecting"
    BY <2>1, <2>2, <2>5 DEF OneHand, Line, Making
  <2>6. CASE den.state = "closing"
    BY <2>1, <2>2, <2>6 DEF OneHand, Line, Ending
  <2> QED
    BY <2>3, <2>4, <2>5, <2>6 DEF Live
<1> QED
  BY <1>1, FireInvariantHolds, PTL

(* A closed fire has left no interval behind, and its minutes were booked  *)
(* once or the ledger has refused them.                                    *)
THEOREM FiresEndCleanly == Spec => [](TimersStop /\ BookedOnce)
<1>1. FireInvariant => TimersStop /\ BookedOnce
  BY DEF FireInvariant, Unraced, TimersStop, BookedOnce, Books, Live
<1> QED
  BY <1>1, FireInvariantHolds, PTL

(* A fire that carries media has told its AI to disclose itself, on the    *)
(* very connection it now has.                                             *)
THEOREM DisclosureComesFirst == Spec => []DisclosureFirst
<1>1. FireInvariant => DisclosureFirst
  BY DEF FireInvariant, Unraced, DisclosureFirst, Discloses
<1> QED
  BY <1>1, FireInvariantHolds, PTL

(* The types of the fire's memory; also when a handler has overwritten it, *)
(* what was negotiated belongs to a seat, and of the seats counted before  *)
(* a join's awaits at most one is too many.                                *)
THEOREM FireTypes == Spec => []TypeOK
  BY FireInvariantHolds, PTL DEF FireInvariant

=============================================================================
