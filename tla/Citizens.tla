------------------------------- MODULE Citizens -------------------------------
(***************************************************************************)
(* The hosted agents of one den (agents/den-keeper/agent.py and            *)
(* agents/pack-citizen/agent.py): every poll reads the newest lines,       *)
(* answers the newest mention, and then saves a cursor, the hour's count   *)
(* and the hour, one after another.                                        *)
(*                                                                         *)
(* A POST may be stored and its answer lost: the request times out after   *)
(* 10 or 20 s.  What raises ends the poll with nothing saved.              *)
(***************************************************************************)
EXTENDS Naturals, Sequences, FiniteSetsExt

CONSTANTS
  Agents,     \* the two programs, under the handles they were provisioned with
  Human,
  MaxReplies, \* MAX_REPLIES_PER_HOUR
  Window,     \* the lines of a poll
  MaxLines,   \* bounds: of the den's lines,
  MaxHours    \* and of the hours

ASSUME CitizensAssumption ==
  /\ IsFiniteSet(Agents) /\ Human \notin Agents
  /\ {MaxReplies, Window, MaxLines, MaxHours} \subseteq Nat

VARIABLES
  keepers, \* the agents with a scripted reply; for the others the worker generates it
  den,    \* the messages of the den, oldest first
  poll,   \* agent -> how far its poll is
  store,  \* agent -> its storage: answered_id, reply_count_hour, hour_stamp
  hour    \* of the clock

citizenVars == <<keepers, den, poll, store, hour>>

\* Of a reply, `answers` is the mention it is for, `hour` the one its poll began in, and
\* `kept`, which is history, what its agent has saved of it: the cursor, then the count.
Line == [from : Agents \cup {Human}, mentions : SUBSET Agents, answers : Nat,
         hour : Nat, kept : {"none", "cursor", "count"}]
Poll == [pc : {"idle", "reply", "fallback", "save"},
         mention : Nat, reply : Nat, hour : Nat, count : Nat, counts : BOOLEAN]
NoPoll == [pc |-> "idle", mention |-> 0, reply |-> 0, hour |-> 0, count |-> 0,
           counts |-> FALSE]

CitizensInit ==
  /\ keepers \in SUBSET Agents
  /\ den = <<>>
  /\ poll = [a \in Agents |-> NoPoll]
  /\ store = [a \in Agents |-> [answered |-> 0, count |-> 0, stamp |-> 0]]
  /\ hour = 0

HasRoomFor == Len(den) < MaxLines
Says(from, mentions, answers, h) ==
  /\ HasRoomFor
  /\ den' = Append(den, [from |-> from, mentions |-> mentions, answers |-> answers,
                         hour |-> h, kept |-> "none"])

\* A member speaks, or an agent relays what it was asked on ASI:One.  To one agent what
\* the others say is no different from what members say.
Speak(from, mentions) ==
  /\ from \notin mentions
  /\ Says(from, mentions, 0, 0)
  /\ UNCHANGED <<keepers, poll, store, hour>>

-----------------------------------------------------------------------------
PollGoesOn(a, k) == poll' = [poll EXCEPT ![a] = k]

Mentions(a) == {i \in DOMAIN den : /\ i > Len(den) - Window
                                   /\ den[i].from # a /\ a \in den[i].mentions}

CountOf(a) == IF store[a].stamp = hour THEN store[a].count ELSE 0

\* A faulty scan: the newest mention, answered or not.
UnansweredOrNot(a) == IF Mentions(a) = {} THEN {} ELSE {Max(Mentions(a))}

\* The newest mention, if it is not the one answered last: "everything older is already
\* handled".  A spent budget leaves the cursor where it is.
Unanswered(a) ==
  IF Mentions(a) = {} \/ Max(Mentions(a)) = store[a].answered THEN {} ELSE {Max(Mentions(a))}

PollDen(a) ==
  /\ poll[a] = NoPoll
  /\ CountOf(a) < MaxReplies
  /\ \E m \in Unanswered(a) :
       PollGoesOn(a, [NoPoll EXCEPT !.pc = "reply", !.mention = m, !.hour = hour,
                                    !.count = CountOf(a)])
  /\ UNCHANGED <<keepers, den, store, hour>>

\* The keeper's line names whom it answers; what Grok writes may name anyone.
Names(a, m) ==
  IF a \in keepers THEN {{den[m].from} \cap Agents} ELSE SUBSET (Agents \ {a})

Posts(a, names) == Says(a, names, poll[a].mention, poll[a].hour)

\* A 201 means it is stored; an error may be answered after it was.  The keeper counts
\* nothing then and moves on; a citizen posts its scripted line to the same mention and
\* counts that one, so that such a reply is on the den twice and kept once.
Reply(a, names, stored, accepted) ==
  /\ poll[a].pc = "reply" /\ names \in Names(a, poll[a].mention)
  /\ accepted => stored
  /\ IF stored THEN Posts(a, names) ELSE UNCHANGED den
  /\ PollGoesOn(a, [poll[a] EXCEPT
       !.pc = IF accepted \/ a \in keepers THEN "save" ELSE "fallback",
       !.reply = IF accepted THEN Len(den) + 1 ELSE 0,
       !.counts = accepted \/ a \notin keepers])
  /\ UNCHANGED <<keepers, store, hour>>

\* The answer to the scripted line is not looked at.
Fallback(a, stored) ==
  /\ poll[a].pc = "fallback"
  /\ IF stored THEN Posts(a, {}) ELSE UNCHANGED den
  /\ PollGoesOn(a, [poll[a] EXCEPT !.pc = "save", !.reply = IF stored THEN Len(den) + 1 ELSE 0])
  /\ UNCHANGED <<keepers, store, hour>>

\* A POST times out, after its line was stored or before.
TimesOut(a, names, stored) ==
  /\ \/ poll[a].pc = "reply" /\ names \in Names(a, poll[a].mention)
     \/ poll[a].pc = "fallback" /\ names = {}
  /\ IF stored THEN Posts(a, names) ELSE UNCHANGED den
  /\ PollGoesOn(a, NoPoll)
  /\ UNCHANGED <<keepers, store, hour>>

\* The three writes go to the agent's own storage, so that all that matters is how many
\* of them are made before the host stops it.  The count is the hour's only with the hour.
Save(a, writes) ==
  LET p == poll[a]
      old == store[a]
  IN /\ p.pc = "save"
     /\ store' = [store EXCEPT ![a] =
          [answered |-> IF writes >= 1 THEN p.mention ELSE old.answered,
           count    |-> IF writes >= 2 THEN p.count + (IF p.counts THEN 1 ELSE 0) ELSE old.count,
           stamp    |-> IF writes >= 3 THEN p.hour ELSE old.stamp]]
     /\ den' = IF p.reply = 0 \/ writes = 0 THEN den
               ELSE [den EXCEPT ![p.reply].kept = IF writes = 3 THEN "count" ELSE "cursor"]
     /\ PollGoesOn(a, NoPoll)
     /\ UNCHANGED <<keepers, hour>>

HourPasses ==
  /\ hour < MaxHours
  /\ hour' = hour + 1
  /\ UNCHANGED <<keepers, den, poll, store>>

CitizensNext ==
  \/ \E from \in Agents \cup {Human}, mentions \in SUBSET Agents : Speak(from, mentions)
  \/ \E a \in Agents :
       \/ PollDen(a)
       \/ \E names \in SUBSET Agents, stored \in BOOLEAN :
            \/ \E accepted \in BOOLEAN : Reply(a, names, stored, accepted)
            \/ TimesOut(a, names, stored)
       \/ \E stored \in BOOLEAN : Fallback(a, stored)
       \/ \E writes \in 0 .. 3 : Save(a, writes)
  \/ HourPasses

CitizensSpec == CitizensInit /\ [][CitizensNext]_citizenVars

-----------------------------------------------------------------------------
CitizensTypeOK ==
  /\ keepers \subseteq Agents
  /\ den \in Seq(Line) /\ Len(den) <= MaxLines
  /\ poll \in [Agents -> Poll]
  /\ store \in [Agents -> [answered : Nat, count : 0 .. MaxReplies, stamp : Nat]]
  /\ hour \in 0 .. MaxHours

\* "Citizens are polite", of the replies the den accepted and the agent saved: two of them
\* never answer one mention, and those of an hour that were counted stay within its budget,
\* also when agents answer each other.  It says nothing of what the agent never saved, and
\* there a mention is answered twice: the host stops it between post and save, a POST times
\* out after its line was stored, or a stored reply is answered with an error, which the
\* citizen follows with its scripted line to the same mention (agent.py:162-171).
CitizensArePolite ==
  \A a \in Agents :
    /\ \A m \in DOMAIN den :
         Cardinality({i \in DOMAIN den :
           den[i].from = a /\ den[i].answers = m /\ den[i].kept # "none"}) <= 1
    /\ \A h \in 0 .. MaxHours :
         Cardinality({i \in DOMAIN den :
           den[i].from = a /\ den[i].hour = h /\ den[i].kept = "count"}) <= MaxReplies

=============================================================================
