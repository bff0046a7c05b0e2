------------------------------- MODULE DenRoom -------------------------------
(***************************************************************************)
(* src/den-room.js, the room of one den, with the pages of src/pages.js    *)
(* that show it: sockets, presence, and chat lines that are stored and     *)
(* then broadcast.                                                         *)
(*                                                                         *)
(* A socket delivers in order, so a page is modelled by what it shows once *)
(* it has read what was sent to it.  The rate bucket only refuses lines    *)
(* and is forgotten when the object hibernates: a refused line is one that *)
(* was never said.                                                         *)
(***************************************************************************)
EXTENDS Naturals, FiniteSets

CONSTANTS
  Tabs,      \* pages; a reconnect is the tab's next socket
  Speakers,  \* handles
  Owner,     \* tab -> whose it is when they are signed in
  Lines,     \* each is said once, over a socket or through the API
  NoSpeaker

ASSUME DenRoomAssumption == 
  IsFiniteSet(Tabs) /\ NoSpeaker \notin Speakers /\ Owner \in [Tabs -> Speakers]

VARIABLES
  tab,       \* tab -> its page and its socket
  line,      \* line -> how far its handler is
  stored,    \* the rows of messages
  roster,    \* tab -> the handles its page shows
  told,      \* tab -> the number its page shows
  shown      \* tab -> how often its page shows each line

roomVars == <<tab, line, stored, roster, told, shown>>

Tab == [state : {"none", "loaded", "guest", "open", "gone", "reconnecting"},
        handle : Speakers \cup {NoSpeaker}]
NoTab == [state |-> "none", handle |-> NoSpeaker]
Blank == [m \in Lines |-> 0]

RoomInit ==
  /\ tab = [t \in Tabs |-> NoTab]
  /\ line = [m \in Lines |-> "unsaid"]
  /\ stored = {}
  /\ roster = [t \in Tabs |-> {}]
  /\ told = [t \in Tabs |-> 0]
  /\ shown = [t \in Tabs |-> Blank]

\* getWebSockets: a socket whose client is gone is listed until the object is told.
Listed == {t \in Tabs : tab[t].state \in {"open", "gone"}}
Open == {t \in Tabs : tab[t].state = "open"}
RosterOf(sockets) == {tab[t].handle : t \in sockets}

-----------------------------------------------------------------------------
(* A page fetches the history once and connects; what is stored between    *)
(* the two it hears of only if it is broadcast after the connect.          *)

\* The rows of the messages route, or nothing when the fetch fails.
Fetched == {stored, {}}

Load(t, signedIn) ==
  /\ tab[t] = NoTab
  /\ tab' = [tab EXCEPT ![t] = IF signedIn THEN [state |-> "loaded", handle |-> Owner[t]]
                               ELSE [state |-> "guest", handle |-> NoSpeaker]]
  /\ \E history \in Fetched :
       shown' = [shown EXCEPT ![t] = [m \in Lines |-> IF m \in history THEN 1 ELSE 0]]
  /\ UNCHANGED <<line, stored, roster, told>>

\* A guest polls the history and knows what it has seen.
GuestPoll(t) ==
  /\ tab[t].state = "guest"
  /\ shown' = [shown EXCEPT ![t] = [m \in Lines |-> IF m \in stored THEN 1 ELSE @[m]]]
  /\ UNCHANGED <<tab, line, stored, roster, told>>

\* The worker hands the upgrade of an identity to the room, and answers 401 to a guest.
Admitted(t) == tab[t].state \in {"loaded", "reconnecting"} /\ tab[t].handle # NoSpeaker

\* The join is broadcast with the number of sockets; the newcomer is then welcomed with
\* the roster, which has one entry per handle.
Connect(t) ==
  /\ Admitted(t)
  /\ tab' = [tab EXCEPT ![t].state = "open"]
  /\ LET h == tab[t].handle
         welcome == RosterOf(Listed \cup {t})
     IN /\ roster' = [s \in Tabs |-> CASE s = t -> welcome
                                       [] s \in Open -> roster[s] \cup {h}
                                       [] OTHER -> roster[s]]
        /\ told' = [s \in Tabs |-> CASE s = t -> Cardinality(welcome)
                                     [] s \in Open -> Cardinality(Listed \cup {t})
                                     [] OTHER -> told[s]]
  /\ UNCHANGED <<line, stored, shown>>

Vanish(t) ==
  /\ tab[t].state = "open"
  /\ tab' = [tab EXCEPT ![t].state = "gone"]
  /\ UNCHANGED <<line, stored, roster, told, shown>>

\* A faulty count: the closing socket counts itself.
RemainingAll(t) == Listed

\* The closing socket may still be listed: it is left out of what is counted.
Remaining(t) == Listed \ {t}

\* dropSocket: the views lose the handle, whatever other tabs it has.
DropSocket(t) ==
  /\ tab[t].state = "gone"
  /\ tab' = [tab EXCEPT ![t].state = "reconnecting"]
  /\ roster' = [s \in Tabs |-> IF s \in Open THEN roster[s] \ {tab[t].handle} ELSE roster[s]]
  /\ told' = [s \in Tabs |-> IF s \in Open THEN Cardinality(RosterOf(Remaining(t)))
                                           ELSE told[s]]
  /\ UNCHANGED <<line, stored, shown>>

Unload(t) ==
  /\ tab[t].state \in {"loaded", "guest", "reconnecting"}
  /\ tab' = [tab EXCEPT ![t] = NoTab]
  /\ roster' = [roster EXCEPT ![t] = {}]
  /\ told' = [told EXCEPT ![t] = 0]
  /\ shown' = [shown EXCEPT ![t] = Blank]
  /\ UNCHANGED <<line, stored>>

\* The object is restarted: every socket closes, nobody is told that anyone left.
RoomRestarts ==
  /\ Listed # {}
  /\ tab' = [t \in Tabs |->
       IF t \in Listed THEN [tab[t] EXCEPT !.state = "reconnecting"] ELSE tab[t]]
  /\ UNCHANGED <<line, stored, roster, told, shown>>

-----------------------------------------------------------------------------
(* A line: an awaited insert, and then a broadcast.                        *)

Say(m) ==
  /\ line[m] = "unsaid"
  /\ line' = [line EXCEPT ![m] = "storing"]
  /\ UNCHANGED <<tab, stored, roster, told, shown>>

\* A faulty handler: the error of the insert is swallowed.
AfterInsertAnyway(answered) == "broadcast"

AfterInsert(answered) == IF answered THEN "broadcast" ELSE "over"

\* The insert commits or fails; an error may hide a commit.
Insert(m, commits, answered) ==
  /\ line[m] = "storing"
  /\ answered => commits
  /\ stored' = IF commits THEN stored \cup {m} ELSE stored
  /\ line' = [line EXCEPT ![m] = AfterInsert(answered)]
  /\ UNCHANGED <<tab, roster, told, shown>>

\* From the API the broadcast is a call that may fail, and is then left.
Broadcast(m, delivered) ==
  /\ line[m] = "broadcast"
  /\ line' = [line EXCEPT ![m] = "over"]
  /\ shown' = [t \in Tabs |-> IF delivered /\ t \in Open THEN [shown[t] EXCEPT ![m] = @ + 1]
                                                         ELSE shown[t]]
  /\ UNCHANGED <<tab, stored, roster, told>>

RoomNext ==
  \/ \E t \in Tabs :
       \/ \E signedIn \in BOOLEAN : Load(t, signedIn)
       \/ GuestPoll(t) \/ Connect(t) \/ Vanish(t) \/ DropSocket(t) \/ Unload(t)
  \/ RoomRestarts
  \/ \E m \in Lines :
       \/ Say(m)
       \/ \E commits, answered \in BOOLEAN : Insert(m, commits, answered)
       \/ \E delivered \in BOOLEAN : Broadcast(m, delivered)

RoomSpec == RoomInit /\ [][RoomNext]_roomVars

-----------------------------------------------------------------------------
RoomTypeOK ==
  /\ tab \in [Tabs -> Tab]
  /\ line \in [Lines -> {"unsaid", "storing", "broadcast", "over"}]
  /\ stored \subseteq Lines
  /\ roster \in [Tabs -> SUBSET Speakers]
  /\ told \in [Tabs -> Nat]
  /\ shown \in [Tabs -> [Lines -> Nat]]

\* "presence = the live socket set ONLY ... the ring is a receipt" (den-room.js:2-4).  A
\* connected page shows nobody without a socket; the number beside it lies between the
\* identities and the sockets, since a join tells the one and a leave the other.
PresenceIsAReceipt ==
  \A t \in Open :
    /\ roster[t] \subseteq RosterOf(Listed)
    /\ Cardinality(RosterOf(Listed)) <= told[t] /\ told[t] <= Cardinality(Listed)

\* A line that anyone was shown is in the history, whatever fails between the insert and
\* the broadcast; a page shows it twice at most (fetched, and heard under another id),
\* a guest once.
HeardIsStored ==
  \A t \in Tabs, m \in Lines :
    /\ shown[t][m] > 0 => m \in stored
    /\ shown[t][m] <= IF tab[t].state = "guest" THEN 1 ELSE 2

=============================================================================
