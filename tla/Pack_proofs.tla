------------------------------ MODULE Pack_proofs ------------------------------
(***************************************************************************)
(* Proofs about the parts of a den - its room (DenRoom), its knowledge     *)
(* base (DenDocs), its agents (Citizens), the audio of its fire            *)
(* (VoiceAudio) and a page in voice (VoicePage) - for any number of tabs,  *)
(* lines, adds, files, agents, mentions, seats and frames; and, with those *)
(* of Identity_proofs, about the parts together (Pack).                    *)
(***************************************************************************)
EXTENDS Pack, Identity_proofs, SequenceTheorems

-----------------------------------------------------------------------------
(* The invariant of DenRoom.                                               *)

\* A page that was signed in has its owner's handle.
Signed == \A t \in Tabs :
  tab[t].state \in {"loaded", "open", "gone", "reconnecting"} => tab[t].handle \in Speakers

\* A line is broadcast only once it is stored, and only once: until it is over, a page
\* can only have fetched it.
HeardOnce ==
  /\ \A m \in Lines : line[m] = "broadcast" => m \in stored
  /\ \A t \in Tabs, m \in Lines :
       /\ shown[t][m] > 0 => m \in stored
       /\ shown[t][m] <= IF line[m] = "over" /\ tab[t].state # "guest" THEN 2 ELSE 1

RoomInvariant == RoomTypeOK /\ Signed /\ HeardOnce /\ PresenceIsAReceipt

(* Every update of a view is made with the sockets it is made for; dropping*)
(* a handle that has another tab can only hide somebody.                   *)
LEMMA RoomInvariantHolds == RoomSpec => []RoomInvariant
<1>1. RoomInit => RoomInvariant
  BY DenRoomAssumption
     DEF RoomInit, RoomInvariant, RoomTypeOK, Signed, HeardOnce, PresenceIsAReceipt, NoTab,
         Tab, Blank, Open
<1>2. RoomInvariant /\ [RoomNext]_roomVars => RoomInvariant'
  <2> SUFFICES ASSUME RoomInvariant, [RoomNext]_roomVars PROVE RoomInvariant'
    OBVIOUS
  <2>1. /\ tab \in [Tabs -> Tab]
        /\ line \in [Lines -> {"unsaid", "storing", "broadcast", "over"}]
        /\ stored \subseteq Lines
        /\ roster \in [Tabs -> SUBSET Speakers]
        /\ told \in [Tabs -> Nat]
        /\ shown \in [Tabs -> [Lines -> Nat]]
        /\ Signed /\ HeardOnce /\ PresenceIsAReceipt
    BY DEF RoomInvariant, RoomTypeOK
  (* A set of sockets has no more handles than sockets. *)
  <2>2. ASSUME NEW S \in SUBSET Tabs
        PROVE  /\ Cardinality(S) \in Nat /\ Cardinality(RosterOf(S)) \in Nat
               /\ Cardinality(RosterOf(S)) <= Cardinality(S)
    <3> DEFINE f == [t \in S |-> tab[t].handle]
    <3>1. IsFiniteSet(S)
      BY FS_Subset, DenRoomAssumption
    <3>2. f \in Surjection(S, RosterOf(S))
      BY DEF Surjection, RosterOf
    <3> QED
      BY <3>1, <3>2, FS_Surjection, FS_CardinalityType
  <2>3. Listed \subseteq Tabs /\ Open \subseteq Listed
    BY DEF Listed, Open
  <2>4. \A S \in SUBSET Listed : RosterOf(S) \subseteq Speakers
    BY <2>1 DEF Listed, RosterOf, Signed
  (* Steps that leave presence alone *)
  <2>5. ASSUME UNCHANGED <<roster, told>>, Listed' = Listed, Open' \subseteq Open,
               \A t \in Listed : tab'[t].handle = tab[t].handle
        PROVE  PresenceIsAReceipt'
    BY ZenonT(30), <2>1, <2>3, <2>5 DEF PresenceIsAReceipt, RosterOf
  <2>6. ASSUME NEW t \in Tabs, NEW signedIn \in BOOLEAN, Load(t, signedIn)
        PROVE  RoomInvariant'
    <3> DEFINE k == IF signedIn THEN [state |-> "loaded", handle |-> Owner[t]]
                    ELSE [state |-> "guest", handle |-> NoSpeaker]
    <3>1. /\ UNCHANGED <<line, stored, roster, told>>
          /\ tab[t] = NoTab /\ tab' = [tab EXCEPT ![t] = k]
      BY <2>6 DEF Load
    <3>2. /\ k \in Tab /\ k.state \in {"loaded", "guest"}
          /\ k.state = "loaded" => k.handle \in Speakers
      BY DenRoomAssumption DEF Tab
    <3> HIDE DEF k
    <3>3. PICK history \in SUBSET stored :
            shown' = [shown EXCEPT ![t] = [m \in Lines |-> IF m \in history THEN 1 ELSE 0]]
      BY <2>6 DEF Load, Fetched
    <3>4. \A s \in Tabs : tab'[s] = IF s = t THEN k ELSE tab[s]
      BY <2>1, <3>1
    <3>5. PresenceIsAReceipt'
      <4>1. t \notin Listed /\ Listed' = Listed /\ Open' = Open
        BY <3>1, <3>2, <3>4 DEF Listed, Open, NoTab
      <4> QED
        BY <2>3, <2>5, <3>1, <3>4, <4>1
    <3>6. RoomTypeOK' /\ Signed'
      BY <2>1, <3>1, <3>2, <3>3, <3>4 DEF RoomTypeOK, Signed
    <3>7. HeardOnce'
      <4>1. \A s \in Tabs, m \in Lines :
              shown'[s][m] = IF s = t THEN (IF m \in history THEN 1 ELSE 0) ELSE shown[s][m]
        BY <2>1, <3>3
      <4>2. \A s \in Tabs, m \in Lines : shown'[s][m] > 0 => m \in stored
        BY <2>1, <3>3, <4>1 DEF HeardOnce
      <4>3. \A s \in Tabs, m \in Lines :
              shown'[s][m] <= IF line[m] = "over" /\ tab'[s].state # "guest" THEN 2 ELSE 1
        BY <2>1, <3>4, <4>1 DEF HeardOnce
      <4> QED
        BY <2>1, <3>1, <4>2, <4>3 DEF HeardOnce
    <3> QED
      BY <3>5, <3>6, <3>7 DEF RoomInvariant
  <2>7. ASSUME NEW t \in Tabs, GuestPoll(t) PROVE RoomInvariant'
    <3>1. /\ UNCHANGED <<tab, line, stored, roster, told>> /\ tab[t].state = "guest"
          /\ shown' = [shown EXCEPT ![t] = [m \in Lines |-> IF m \in stored THEN 1 ELSE @[m]]]
      BY <2>7 DEF GuestPoll
    <3>2. /\ shown' \in [Tabs -> [Lines -> Nat]]
          /\ \A s \in Tabs, m \in Lines :
               shown'[s][m] = IF s = t /\ m \in stored THEN 1 ELSE shown[s][m]
      BY <2>1, <3>1
    <3>3. HeardOnce'
      BY <2>1, <3>1, <3>2 DEF HeardOnce
    <3> QED
      BY <2>1, <2>5, <3>1, <3>2, <3>3 DEF RoomInvariant, RoomTypeOK, Signed, Listed, Open
  <2>8. ASSUME NEW t \in Tabs, Connect(t) PROVE RoomInvariant'
    <3> DEFINE h == tab[t].handle
               L == Listed \cup {t}
               welcome == RosterOf(L)
    <3>1. /\ UNCHANGED <<line, stored, shown>> /\ Admitted(t)
          /\ tab' = [tab EXCEPT ![t].state = "open"]
          /\ roster' = [s \in Tabs |-> CASE s = t -> welcome
                                         [] s \in Open -> roster[s] \cup {h}
                                         [] OTHER -> roster[s]]
          /\ told' = [s \in Tabs |-> CASE s = t -> Cardinality(welcome)
                                       [] s \in Open -> Cardinality(L)
                                       [] OTHER -> told[s]]
      BY <2>8 DEF Connect
    <3>2. h \in Speakers /\ t \notin Listed /\ t \notin Open
      BY <2>1, <3>1 DEF Admitted, Signed, Listed, Open
    <3>3. /\ tab' \in [Tabs -> Tab] /\ tab'[t].state = "open"
          /\ \A s \in Tabs : tab'[s].handle = tab[s].handle /\ (s # t => tab'[s] = tab[s])
      BY <2>1, <3>1 DEF Tab
    <3>4. Listed' = L /\ Open' = Open \cup {t}
      BY <3>3 DEF Listed, Open
    <3>5. L \in SUBSET Tabs /\ RosterOf(Listed)' = welcome
      BY <2>3, <3>3, <3>4 DEF RosterOf
    <3>6. /\ welcome \subseteq Speakers /\ RosterOf(Listed) \subseteq welcome /\ h \in welcome
      BY <2>4, <3>2 DEF RosterOf
    <3>7. /\ Cardinality(L) \in Nat /\ Cardinality(welcome) \in Nat
          /\ Cardinality(welcome) <= Cardinality(L)
      BY <2>2, <3>5
    <3> HIDE DEF h, L, welcome
    <3>8. roster' \in [Tabs -> SUBSET Speakers] /\ told' \in [Tabs -> Nat]
      <4>1. \A s \in Tabs : roster'[s] \in SUBSET Speakers /\ told'[s] \in Nat
        BY <2>1, <3>1, <3>2, <3>6, <3>7
      <4> QED
        BY <3>1, <4>1
    <3>9. PresenceIsAReceipt'
      <4> SUFFICES ASSUME NEW s \in Open'
                   PROVE  /\ roster'[s] \subseteq welcome
                          /\ Cardinality(welcome) <= told'[s] /\ told'[s] <= Cardinality(L)
        BY <3>4, <3>5 DEF PresenceIsAReceipt
      <4>1. s \in Tabs
        BY <2>3, <3>4
      <4>2. CASE s = t
        BY <3>1, <3>2, <3>7, <4>1, <4>2
      <4>3. CASE s # t
        <5>1. s \in Open /\ roster[s] \subseteq RosterOf(Listed)
          BY <2>1, <3>4, <4>3 DEF PresenceIsAReceipt
        <5> QED
          BY <3>1, <3>6, <3>7, <4>1, <4>3, <5>1
      <4> QED
        BY <4>2, <4>3
    <3>10. Signed' /\ HeardOnce'
      BY <2>1, <3>1, <3>2, <3>3 DEF Signed, HeardOnce, Admitted, h
    <3> QED
      BY <2>1, <3>1, <3>3, <3>8, <3>9, <3>10 DEF RoomInvariant, RoomTypeOK
  <2>9. ASSUME NEW t \in Tabs, Vanish(t) PROVE RoomInvariant'
    <3>1. /\ UNCHANGED <<line, stored, roster, told, shown>> /\ tab[t].state = "open"
          /\ tab' = [tab EXCEPT ![t].state = "gone"]
      BY <2>9 DEF Vanish
    <3>2. /\ tab' \in [Tabs -> Tab] /\ tab'[t].state = "gone"
          /\ \A s \in Tabs : tab'[s].handle = tab[s].handle /\ (s # t => tab'[s] = tab[s])
      BY <2>1, <3>1 DEF Tab
    <3>3. Listed' = Listed /\ Open' \subseteq Open
      BY <3>1, <3>2 DEF Listed, Open
    <3>4. PresenceIsAReceipt'
      BY <2>3, <2>5, <3>1, <3>2, <3>3
    <3>5. Signed' /\ HeardOnce'
      BY <2>1, <3>1, <3>2 DEF Signed, HeardOnce
    <3> QED
      BY <2>1, <3>1, <3>2, <3>4, <3>5 DEF RoomInvariant, RoomTypeOK
  <2>10. ASSUME NEW t \in Tabs, DropSocket(t) PROVE RoomInvariant'
    <3> DEFINE h == tab[t].handle
               L == Listed \ {t}
    <3>1. /\ UNCHANGED <<line, stored, shown>> /\ tab[t].state = "gone"
          /\ tab' = [tab EXCEPT ![t].state = "reconnecting"]
          /\ roster' = [s \in Tabs |-> IF s \in Open THEN roster[s] \ {h} ELSE roster[s]]
          /\ told' = [s \in Tabs |-> IF s \in Open THEN Cardinality(RosterOf(L)) ELSE told[s]]
      BY <2>10 DEF DropSocket, Remaining
    <3>2. /\ tab' \in [Tabs -> Tab] /\ tab'[t].state = "reconnecting"
          /\ \A s \in Tabs : tab'[s].handle = tab[s].handle /\ (s # t => tab'[s] = tab[s])
      BY <2>1, <3>1 DEF Tab
    <3>3. Listed' = L /\ Open' = Open /\ t \notin Open
      BY <3>1, <3>2 DEF Listed, Open
    <3>4. L \in SUBSET Tabs /\ RosterOf(Listed)' = RosterOf(L)
      BY <2>3, <3>2, <3>3 DEF RosterOf
    <3>5. /\ RosterOf(Listed) \ {h} \subseteq RosterOf(L)
          /\ Cardinality(L) \in Nat /\ Cardinality(RosterOf(L)) \in Nat
          /\ Cardinality(RosterOf(L)) <= Cardinality(L)
      BY <2>2, <3>4 DEF RosterOf
    <3> HIDE DEF h, L
    <3>6. PresenceIsAReceipt'
      <4> SUFFICES ASSUME NEW s \in Open
                   PROVE  /\ roster'[s] \subseteq RosterOf(L)
                          /\ Cardinality(RosterOf(L)) <= told'[s] /\ told'[s] <= Cardinality(L)
        BY <3>3, <3>4 DEF PresenceIsAReceipt
      <4>1. s \in Tabs /\ roster[s] \subseteq RosterOf(Listed)
        BY <2>1, <2>3 DEF PresenceIsAReceipt
      <4> QED
        BY <3>1, <3>5, <4>1
    <3>7. roster' \in [Tabs -> SUBSET Speakers] /\ told' \in [Tabs -> Nat]
      BY <2>1, <3>1, <3>5
    <3>8. Signed' /\ HeardOnce'
      BY <2>1, <3>1, <3>2 DEF Signed, HeardOnce
    <3> QED
      BY <2>1, <3>1, <3>2, <3>6, <3>7, <3>8 DEF RoomInvariant, RoomTypeOK
  <2>11. ASSUME NEW t \in Tabs, Unload(t) PROVE RoomInvariant'
    <3>1. /\ UNCHANGED <<line, stored>> /\ tab[t].state \in {"loaded", "guest", "reconnecting"}
          /\ tab' = [tab EXCEPT ![t] = NoTab]
          /\ roster' = [roster EXCEPT ![t] = {}]
          /\ told' = [told EXCEPT ![t] = 0]
          /\ shown' = [shown EXCEPT ![t] = Blank]
      BY <2>11 DEF Unload
    <3>2. NoTab \in Tab /\ NoTab.state = "none" /\ Blank \in [Lines -> Nat]
      BY DEF NoTab, Tab, Blank
    <3>3. RoomTypeOK'
      BY <2>1, <3>1, <3>2 DEF RoomTypeOK
    <3>4. \A s \in Tabs : s # t => /\ tab'[s] = tab[s] /\ roster'[s] = roster[s]
                                   /\ told'[s] = told[s] /\ shown'[s] = shown[s]
      BY <2>1, <3>1
    <3>5. tab'[t].state = "none" /\ shown'[t] = Blank
      BY <2>1, <3>1, <3>2
    <3>6. t \notin Listed /\ t \notin Open /\ Listed' = Listed /\ Open' = Open
      BY <3>1, <3>4, <3>5 DEF Listed, Open
    <3>7. RosterOf(Listed)' = RosterOf(Listed)
      BY <2>3, <3>4, <3>6 DEF RosterOf
    <3>8. PresenceIsAReceipt'
      BY <2>1, <2>3, <3>4, <3>6, <3>7 DEF PresenceIsAReceipt
    <3>9. Signed' /\ HeardOnce'
      <4>1. \A m \in Lines : shown'[t][m] = 0
        BY <3>5 DEF Blank
      <4> QED
        BY <2>1, <3>1, <3>4, <3>5, <4>1 DEF Signed, HeardOnce
    <3> QED
      BY <3>3, <3>8, <3>9 DEF RoomInvariant
  <2>12. CASE RoomRestarts
    <3>1. /\ UNCHANGED <<line, stored, roster, told, shown>>
          /\ tab' = [t \in Tabs |-> IF t \in Listed THEN [tab[t] EXCEPT !.state = "reconnecting"]
                                    ELSE tab[t]]
      BY <2>12 DEF RoomRestarts
    <3>2. /\ tab' \in [Tabs -> Tab]
          /\ \A t \in Tabs : IF t \in Listed
                             THEN tab'[t].state = "reconnecting" /\ tab'[t].handle = tab[t].handle
                             ELSE tab'[t] = tab[t]
      BY <2>1, <3>1 DEF Tab
    <3>3. Open' = {}
      BY <3>2 DEF Open, Listed
    <3>4. PresenceIsAReceipt'
      BY <3>3 DEF PresenceIsAReceipt
    <3>5. Signed' /\ HeardOnce'
      BY <2>1, <3>1, <3>2 DEF Signed, HeardOnce, Listed
    <3> QED
      BY <2>1, <3>1, <3>2, <3>4, <3>5 DEF RoomInvariant, RoomTypeOK
  (* Lines move while every page and socket stays *)
  <2>13. ASSUME UNCHANGED <<tab, roster, told>> PROVE Signed' /\ PresenceIsAReceipt'
    <3>1. Listed' = Listed /\ Open' = Open
      BY <2>13 DEF Listed, Open
    <3> QED
      BY <2>1, <2>5, <2>13, <3>1 DEF Signed
  <2>14. ASSUME NEW m \in Lines, Say(m) PROVE RoomInvariant'
    <3>1. /\ UNCHANGED <<tab, stored, roster, told, shown>> /\ line[m] = "unsaid"
          /\ \A n \in Lines : line'[n] = IF n = m THEN "storing" ELSE line[n]
          /\ line' \in [Lines -> {"unsaid", "storing", "broadcast", "over"}]
      BY <2>1, <2>14 DEF Say
    <3>2. HeardOnce'
      BY <2>1, <3>1 DEF HeardOnce
    <3> QED
      BY <2>1, <2>13, <3>1, <3>2 DEF RoomInvariant, RoomTypeOK
  <2>15. ASSUME NEW m \in Lines, NEW commits \in BOOLEAN, NEW answered \in BOOLEAN,
                Insert(m, commits, answered)
         PROVE  RoomInvariant'
    <3>1. /\ UNCHANGED <<tab, roster, told, shown>> /\ line[m] = "storing"
          /\ stored \subseteq stored' /\ stored' \subseteq Lines
          /\ answered => m \in stored'
          /\ line' = [line EXCEPT ![m] = IF answered THEN "broadcast" ELSE "over"]
      BY <2>1, <2>15 DEF Insert, AfterInsert
    <3>2. /\ \A n \in Lines :
               line'[n] = IF n = m THEN (IF answered THEN "broadcast" ELSE "over") ELSE line[n]
          /\ line' \in [Lines -> {"unsaid", "storing", "broadcast", "over"}]
      BY <2>1, <3>1
    <3>3. HeardOnce'
      <4>1. \A n \in Lines : line'[n] = "broadcast" => n \in stored'
        BY <2>1, <3>1, <3>2 DEF HeardOnce
      <4>2. \A t \in Tabs, n \in Lines :
              shown[t][n] \in Nat /\ (shown[t][n] > 0 => n \in stored')
        BY <2>1, <3>1 DEF HeardOnce
      <4>3. \A t \in Tabs, n \in Lines :
              shown[t][n] <= IF line'[n] = "over" /\ tab[t].state # "guest" THEN 2 ELSE 1
        BY <2>1, <3>1, <3>2, <4>2 DEF HeardOnce
      <4> QED
        BY <3>1, <4>1, <4>2, <4>3 DEF HeardOnce
    <3> QED
      BY <2>1, <2>13, <3>1, <3>2, <3>3 DEF RoomInvariant, RoomTypeOK
  <2>16. ASSUME NEW m \in Lines, NEW delivered \in BOOLEAN, Broadcast(m, delivered)
         PROVE  RoomInvariant'
    <3>1. /\ UNCHANGED <<tab, stored, roster, told>> /\ line[m] = "broadcast"
          /\ line' = [line EXCEPT ![m] = "over"]
          /\ shown' = [t \in Tabs |-> IF delivered /\ t \in Open
                                      THEN [shown[t] EXCEPT ![m] = @ + 1] ELSE shown[t]]
      BY <2>16 DEF Broadcast
    <3>2. /\ \A n \in Lines : line'[n] = IF n = m THEN "over" ELSE line[n]
          /\ line' \in [Lines -> {"unsaid", "storing", "broadcast", "over"}]
      BY <2>1, <3>1
    <3>3. /\ shown' \in [Tabs -> [Lines -> Nat]]
          /\ \A t \in Tabs, n \in Lines :
               shown'[t][n] = IF n = m /\ delivered /\ t \in Open THEN shown[t][n] + 1
                              ELSE shown[t][n]
      BY <2>1, <3>1
    <3>4. HeardOnce'
      <4>1. m \in stored /\ \A t \in Tabs : shown[t][m] \in Nat /\ shown[t][m] <= 1
        BY <2>1, <3>1 DEF HeardOnce
      <4>2. \A t \in Open : tab[t].state # "guest"
        BY DEF Open
      <4>3. \A t \in Tabs, n \in Lines : shown'[t][n] > 0 => n \in stored
        BY <2>1, <3>3, <4>1 DEF HeardOnce
      <4>4. \A t \in Tabs, n \in Lines :
              shown'[t][n] <= IF line'[n] = "over" /\ tab[t].state # "guest" THEN 2 ELSE 1
        BY <2>1, <3>2, <3>3, <4>1, <4>2 DEF HeardOnce
      <4> QED
        BY <2>1, <3>1, <3>2, <4>3, <4>4 DEF HeardOnce
    <3> QED
      BY <2>1, <2>13, <3>1, <3>2, <3>3, <3>4 DEF RoomInvariant, RoomTypeOK
  <2>17. CASE UNCHANGED roomVars
    BY <2>1, <2>13, <2>17 DEF roomVars, RoomInvariant, RoomTypeOK, HeardOnce
  <2> QED
    BY <2>6, <2>7, <2>8, <2>9, <2>10, <2>11, <2>12, <2>14, <2>15, <2>16,
       <2>17 DEF RoomNext
<1> QED
  BY <1>1, <1>2, PTL DEF RoomSpec

(* handleSay and the messages route (den-room.js, api.js): whatever fails   *)
(* between the insert and the broadcast, a line that anyone was shown is   *)
(* in the history, and no page shows it more than twice.                   *)
THEOREM HeardLinesAreStored == RoomSpec => []HeardIsStored
<1>1. RoomInvariant => HeardIsStored
  <2> SUFFICES ASSUME RoomInvariant, NEW t \in Tabs, NEW m \in Lines
               PROVE  /\ shown[t][m] > 0 => m \in stored
                      /\ shown[t][m] <= IF tab[t].state = "guest" THEN 1 ELSE 2
    BY DEF HeardIsStored
  <2>1. shown[t][m] \in Nat
    BY DEF RoomInvariant, RoomTypeOK
  <2> QED
    BY <2>1 DEF RoomInvariant, HeardOnce
<1> QED
  BY <1>1, RoomInvariantHolds, PTL

(* The receipt of den-room.js: whoever connects, vanishes and comes back,  *)
(* a connected page shows nobody without a socket, and its number is       *)
(* between the identities and the sockets.                                 *)
THEOREM PresenceStaysAReceipt == RoomSpec => []PresenceIsAReceipt
<1>1. RoomInvariant => PresenceIsAReceipt
  BY DEF RoomInvariant
<1> QED
  BY <1>1, RoomInvariantHolds, PTL

-----------------------------------------------------------------------------
(* The invariant of DenDocs.                                               *)

\* The file of an add is its own until it is listed, and what an add puts a file into is
\* the den's collection, which never changes again.
Adding(a) ==
  LET k == adder[a] IN
  /\ k = NoAdd \/ (k.pc # "idle" /\ k.file \in Files \ Rows)
  /\ \A b \in Adders : b # a /\ k.file = adder[b].file => k = NoAdd
  /\ k.pc = "save" => k.coll \in Files
  /\ k.pc \in {"index", "list"} => k.coll = collection /\ collection # NoFile
  /\ k.pc = "list" => remote[k.file].coll = collection

\* Every add in flight is counted as the row it may become.
Busy == {a \in Adders : adder[a] # NoAdd}
RowsBounded ==
  /\ IsFiniteSet(Rows)
  /\ Cardinality(Rows) + Cardinality(Busy) <= DocsCap + Cardinality(Adders) - 1

DocsInvariant ==
  DocsTypeOK /\ (\A a \in Adders : Adding(a)) /\ DocsAreSearchable /\ RowsBounded

(* A nonempty set of numbers has a least one: among the sets of what is    *)
(* below a member there is a minimal one.                                  *)
LEMMA LeastExists ==
  ASSUME NEW S \in SUBSET Nat, S # {}
  PROVE  Min(S) \in S /\ \A y \in S : Min(S) =< y
<1> DEFINE Below(x) == {y \in S : y < x}
           Parts == {Below(x) : x \in S}
<1>1. \A x \in S : IsFiniteSet(Below(x))
  <2> SUFFICES ASSUME NEW x \in S PROVE IsFiniteSet(Below(x))
    OBVIOUS
  <2>1. IsFiniteSet(0 .. x)
    BY FS_Interval
  <2>2. \A y \in Below(x) : y \in 0 .. x
    OBVIOUS
  <2> QED
    BY <2>1, <2>2, FS_Subset
<1>2. IsWellFoundedOn(StrictSubsetOrdering(S), FiniteSubsetsOf(S))
  BY FS_StrictSubsetOrderingWellFounded
<1>3. Parts \subseteq FiniteSubsetsOf(S) /\ Parts # {}
  BY <1>1 DEF FiniteSubsetsOf
<1>4. PICK P \in Parts : \A Q \in Parts : <<Q, P>> \notin StrictSubsetOrdering(S)
  BY <1>2, <1>3, WFMin
<1>5. PICK x \in S : P = Below(x)
  OBVIOUS
<1>6. \A y \in S : x =< y
  <2> SUFFICES ASSUME NEW y \in S, y < x PROVE FALSE
    OBVIOUS
  <2>1. x \in Nat /\ y \in Nat /\ \A z \in S : z \in Nat
    OBVIOUS
  <2>2. y \in Below(x) /\ y \notin Below(y)
    BY <2>1
  <2>3. Below(y) \subseteq Below(x)
    <3> SUFFICES ASSUME NEW z \in Below(y) PROVE z \in Below(x)
      OBVIOUS
    <3>1. z \in S /\ z < y /\ z \in Nat
      BY <2>1
    <3> QED
      BY <2>1, <3>1
  <2>4. <<Below(y), Below(x)>> \in StrictSubsetOrdering(S)
    BY <2>2, <2>3 DEF StrictSubsetOrdering
  <2> QED
    BY <1>4, <1>5, <2>4
<1>7. \E z \in S : \A y \in S : z =< y
  BY <1>6
<1> QED
  BY <1>7, Zenon DEF Min

(* No two adds share a file, so what happens to one of them is its own.    *)
LEMMA DocsInvariantHolds == DocsSpec => []DocsInvariant
<1>1. DocsInit => DocsInvariant
  <2> SUFFICES ASSUME DocsInit PROVE DocsInvariant
    OBVIOUS
  <2>1. /\ NoAdd \in Adder /\ NoAdd.pc = "idle" /\ NoAdd.file = NoFile /\ Absent \in Remote
    BY DEF NoAdd, Adder, Absent, Remote
  <2>2. Rows = {} /\ Busy = {}
    BY DEF DocsInit, Rows, Busy
  <2>3. DocsTypeOK /\ DocsAreSearchable
    BY <2>1, <2>2 DEF DocsInit, DocsTypeOK, DocsAreSearchable
  <2>4. \A a \in Adders : Adding(a)
    BY <2>1 DEF DocsInit, Adding
  <2>5. RowsBounded
    BY <2>2, FS_EmptySet, FS_CardinalityType, DenDocsAssumption DEF RowsBounded
  <2> QED
    BY <2>3, <2>4, <2>5 DEF DocsInvariant
<1>2. DocsInvariant /\ [DocsNext]_docVars => DocsInvariant'
  <2> SUFFICES ASSUME DocsInvariant, [DocsNext]_docVars PROVE DocsInvariant'
    OBVIOUS
  <2>1. /\ collection \in Files \cup {NoFile}
        /\ adder \in [Adders -> Adder]
        /\ doc \in [Files -> {"none", "processing", "ready", "failed"}]
        /\ remote \in [Files -> Remote]
        /\ removing \subseteq Rows
        /\ \A a \in Adders : Adding(a)
        /\ DocsAreSearchable /\ RowsBounded
    BY DEF DocsInvariant, DocsTypeOK
  (* An add that moves on with the file it has *)
  <2>2. ASSUME NEW a \in Adders, NEW k \in Adder, AddGoesOn(a, k), UNCHANGED <<doc, removing>>,
               adder[a] # NoAdd, k.pc # "idle", k.file = adder[a].file,
               collection' \in Files \cup {NoFile},
               collection # NoFile => collection' = collection,
               remote' \in [Files -> Remote],
               \A f \in Files \ {k.file} : remote'[f] = remote[f],
               k.pc = "save" => k.coll \in Files,
               k.pc \in {"index", "list"} => k.coll = collection' /\ collection' # NoFile,
               k.pc = "list" => remote'[k.file].coll = collection'
        PROVE  DocsInvariant'
    <3>1. Rows' = Rows
      BY <2>2 DEF Rows
    <3>2. \A b \in Adders : adder'[b] = IF b = a THEN k ELSE adder[b]
      BY <2>1, <2>2 DEF AddGoesOn
    <3>3. k # NoAdd /\ k.file \in Files \ Rows
      BY <2>1, <2>2 DEF Adding, NoAdd
    <3>4. DocsTypeOK'
      BY <2>1, <2>2, <3>1 DEF DocsTypeOK, AddGoesOn
    <3>5. DocsAreSearchable'
      <4> SUFFICES ASSUME NEW f \in Rows
                   PROVE  \/ /\ collection' # NoFile /\ remote'[f].coll = collection'
                             /\ doc'[f] = "ready" => remote'[f].status = "searchable"
                          \/ remote'[f] = Absent
        BY <3>1 DEF DocsAreSearchable
      <4>1. f \in Files /\ f # k.file
        BY <3>3 DEF Rows
      <4> QED
        BY <2>1, <2>2, <4>1 DEF DocsAreSearchable
    <3>6. ASSUME NEW b \in Adders PROVE Adding(b)'
      <4>1. CASE b = a
        BY <2>1, <2>2, <3>1, <3>2, <3>3, <4>1 DEF Adding
      <4>2. CASE b # a
        <5>1. adder'[b] = adder[b] /\ Adding(b) /\ (adder[b] # NoAdd => adder[b].file # k.file)
          BY <2>1, <2>2, <3>2, <4>2 DEF Adding
        <5>2. adder[b].pc = "list" => remote'[adder[b].file] = remote[adder[b].file]
          BY <2>2, <5>1 DEF Adding, NoAdd
        <5> QED
          BY <2>2, <3>1, <3>2, <3>3, <5>1, <5>2 DEF Adding, NoAdd
      <4> QED
        BY <4>1, <4>2
    <3>7. RowsBounded'
      <4>1. Busy' = Busy
        BY <2>2, <3>2, <3>3 DEF Busy
      <4> QED
        BY <2>1, <3>1, <4>1 DEF RowsBounded
    <3> QED
      BY <3>4, <3>5, <3>6, <3>7 DEF DocsInvariant
  (* An add that ends without a row *)
  <2>3. ASSUME NEW a \in Adders, AddGoesOn(a, NoAdd), UNCHANGED <<collection, doc, removing>>,
               adder[a] # NoAdd, remote' \in [Files -> Remote],
               \A f \in Files \ {adder[a].file} : remote'[f] = remote[f]
        PROVE  DocsInvariant'
    <3>1. Rows' = Rows
      BY <2>3 DEF Rows
    <3>2. \A b \in Adders : adder'[b] = IF b = a THEN NoAdd ELSE adder[b]
      BY <2>1, <2>3 DEF AddGoesOn
    <3>3. NoAdd \in Adder /\ NoAdd.pc = "idle" /\ adder[a].file \in Files \ Rows
      BY <2>1, <2>3 DEF Adding, NoAdd, Adder
    <3>4. DocsTypeOK'
      BY <2>1, <2>3, <3>1, <3>3 DEF DocsTypeOK, AddGoesOn
    <3>5. DocsAreSearchable'
      <4> SUFFICES ASSUME NEW f \in Rows
                   PROVE  \/ /\ collection' # NoFile /\ remote'[f].coll = collection'
                             /\ doc'[f] = "ready" => remote'[f].status = "searchable"
                          \/ remote'[f] = Absent
        BY <3>1 DEF DocsAreSearchable
      <4>1. f \in Files /\ f # adder[a].file
        BY <3>3 DEF Rows
      <4> QED
        BY <2>1, <2>3, <4>1 DEF DocsAreSearchable
    <3>6. ASSUME NEW b \in Adders PROVE Adding(b)'
      <4>1. CASE b = a
        BY <3>2, <3>3, <4>1 DEF Adding
      <4>2. CASE b # a
        <5>1. /\ adder'[b] = adder[b] /\ Adding(b)
              /\ adder[b] # NoAdd => adder[b].file # adder[a].file /\ adder[b].file \in Files
          BY <2>1, <2>3, <3>2, <4>2 DEF Adding
        <5>2. adder[b].pc = "list" => remote'[adder[b].file] = remote[adder[b].file]
          BY <2>3, <5>1 DEF NoAdd
        <5>3. adder[b] # NoAdd => adder[b].file # NoFile
          BY <5>1, DenDocsAssumption
        <5> QED
          BY <2>3, <3>1, <3>2, <5>1, <5>2, <5>3 DEF Adding, NoAdd
      <4> QED
        BY <4>1, <4>2
    <3>7. RowsBounded'
      <4>1. Busy' = Busy \ {a} /\ a \in Busy
        BY <2>3, <3>2 DEF Busy
      <4>2. IsFiniteSet(Busy)
        BY FS_Subset, DenDocsAssumption DEF Busy
      <4>3. Cardinality(Busy') = Cardinality(Busy) - 1 /\ Cardinality(Busy) \in Nat
        BY <4>1, <4>2, FS_RemoveElement, FS_CardinalityType
      <4>4. Cardinality(Rows) \in Nat /\ Cardinality(Adders) \in Nat
        BY <2>1, FS_CardinalityType, DenDocsAssumption DEF RowsBounded
      <4> QED
        BY <2>1, <3>1, <4>3, <4>4, DenDocsAssumption DEF RowsBounded
    <3> QED
      BY <3>4, <3>5, <3>6, <3>7 DEF DocsInvariant
  <2>4. ASSUME NEW a \in Adders, BeginAdd(a) PROVE DocsInvariant'
    <3> DEFINE f == Min(Fresh)
               k == [NoAdd EXCEPT !.pc = "find", !.file = f]
    <3>1. /\ adder[a] = NoAdd /\ AddGoesOn(a, k) /\ UNCHANGED <<collection, doc, removing>>
          /\ Cardinality(Rows) < DocsCap /\ remote' = [remote EXCEPT ![f] = Absent]
      BY <2>4 DEF BeginAdd, UnderCap
    <3>2. f \in Fresh
      <4>1. Fresh \in SUBSET Nat /\ Fresh # {}
        BY <2>4, DenDocsAssumption DEF BeginAdd, Fresh
      <4> QED
        BY <4>1, LeastExists
    <3>3. f \in Files \ Rows /\ \A b \in Adders : adder[b].file # f
      BY <3>2 DEF Fresh
    <3> HIDE DEF f
    <3>4. k \in Adder /\ k # NoAdd /\ k.pc = "find" /\ k.file = f
      BY <3>3 DEF NoAdd, Adder
    <3> HIDE DEF k
    <3>5. /\ Rows' = Rows /\ Absent \in Remote
          /\ \A b \in Adders : adder'[b] = IF b = a THEN k ELSE adder[b]
          /\ \A g \in Files : remote'[g] = IF g = f THEN Absent ELSE remote[g]
      BY <2>1, <3>1 DEF Rows, AddGoesOn, Absent, Remote
    <3>6. DocsTypeOK'
      BY <2>1, <3>1, <3>4, <3>5 DEF DocsTypeOK, AddGoesOn
    <3>7. DocsAreSearchable'
      BY <2>1, <3>1, <3>5 DEF DocsAreSearchable, Rows
    <3>8. ASSUME NEW b \in Adders PROVE Adding(b)'
      <4>1. CASE b = a
        BY <3>3, <3>4, <3>5, <4>1 DEF Adding
      <4>2. CASE b # a
        <5>1. adder'[b] = adder[b] /\ Adding(b) /\ adder[b].file # f
          BY <2>1, <3>3, <3>5, <4>2
        <5>2. adder[b].pc = "list" => remote'[adder[b].file] = remote[adder[b].file]
          BY <3>5, <5>1 DEF Adding, NoAdd
        <5> QED
          BY <3>1, <3>4, <3>5, <5>1, <5>2 DEF Adding
      <4> QED
        BY <4>1, <4>2
    <3>9. RowsBounded'
      <4>1. Busy' \subseteq Adders
        BY DEF Busy
      <4>2. Cardinality(Busy') <= Cardinality(Adders) /\ Cardinality(Busy') \in Nat
        BY <4>1, FS_Subset, FS_CardinalityType, DenDocsAssumption
      <4>3. Cardinality(Rows) \in Nat /\ Cardinality(Adders) \in Nat
        BY <2>1, FS_CardinalityType, DenDocsAssumption DEF RowsBounded
      <4> QED
        BY <2>1, <3>1, <3>5, <4>2, <4>3, DenDocsAssumption DEF RowsBounded
    <3> QED
      BY <3>6, <3>7, <3>8, <3>9 DEF DocsInvariant
  <2>5. ASSUME NEW a \in Adders, ListDoc(a) PROVE DocsInvariant'
    <3> DEFINE f == adder[a].file
    <3>1. /\ adder[a].pc = "list" /\ AddGoesOn(a, NoAdd)
          /\ UNCHANGED <<collection, remote, removing>>
          /\ doc' = [doc EXCEPT ![f] = "processing"]
      BY <2>5 DEF ListDoc
    <3>2. /\ adder[a] # NoAdd /\ f \in Files \ Rows /\ remote[f].coll = collection
          /\ collection # NoFile /\ NoAdd \in Adder /\ NoAdd.pc = "idle"
      BY <2>1, <3>1 DEF Adding, NoAdd, Adder
    <3>3. /\ \A g \in Files : doc'[g] = IF g = f THEN "processing" ELSE doc[g]
          /\ doc' \in [Files -> {"none", "processing", "ready", "failed"}]
          /\ \A b \in Adders : adder'[b] = IF b = a THEN NoAdd ELSE adder[b]
      BY <2>1, <3>1 DEF AddGoesOn
    <3>4. Rows' = Rows \cup {f}
      BY <3>2, <3>3 DEF Rows
    <3>5. DocsTypeOK'
      BY <2>1, <3>1, <3>2, <3>3, <3>4 DEF DocsTypeOK, AddGoesOn
    <3>6. DocsAreSearchable'
      BY <2>1, <3>1, <3>2, <3>3, <3>4 DEF DocsAreSearchable, Rows
    <3>7. ASSUME NEW b \in Adders PROVE Adding(b)'
      <4>1. CASE b = a
        BY <3>2, <3>3, <4>1 DEF Adding
      <4>2. CASE b # a
        <5>1. adder'[b] = adder[b] /\ Adding(b) /\ (adder[b] # NoAdd => adder[b].file # f)
          BY <2>1, <3>2, <3>3, <4>2 DEF Adding
        <5>2. adder[b] # NoAdd => adder[b].file # NoFile
          BY <5>1, DenDocsAssumption DEF Adding
        <5> QED
          BY <3>1, <3>3, <3>4, <5>1, <5>2 DEF Adding, NoAdd
      <4> QED
        BY <4>1, <4>2
    <3>8. RowsBounded'
      <4>1. Busy' = Busy \ {a} /\ a \in Busy
        BY <3>2, <3>3 DEF Busy
      <4>2. IsFiniteSet(Busy) /\ IsFiniteSet(Rows)
        BY <2>1, FS_Subset, DenDocsAssumption DEF Busy, RowsBounded
      <4>3. Cardinality(Busy') = Cardinality(Busy) - 1 /\ Cardinality(Busy) \in Nat
        BY <4>1, <4>2, FS_RemoveElement, FS_CardinalityType
      <4>4. /\ IsFiniteSet(Rows') /\ Cardinality(Rows') = Cardinality(Rows) + 1
            /\ Cardinality(Rows) \in Nat /\ Cardinality(Adders) \in Nat
        BY <3>2, <3>4, <4>2, FS_AddElement, FS_CardinalityType, DenDocsAssumption
      <4> QED
        BY <2>1, <4>3, <4>4, DenDocsAssumption DEF RowsBounded
    <3> QED
      BY <3>5, <3>6, <3>7, <3>8 DEF DocsInvariant
  (* xAI, a GET and a DELETE move, the adds do not *)
  <2>6. ASSUME UNCHANGED <<collection, adder>>, DocsTypeOK', Rows' \subseteq Rows,
               \A f \in Files \ Rows : remote'[f].coll = remote[f].coll,
               DocsAreSearchable'
        PROVE  DocsInvariant'
    <3>1. \A a \in Adders : Adding(a)'
      <4> SUFFICES ASSUME NEW a \in Adders PROVE Adding(a)'
        OBVIOUS
      <4>1. Adding(a) /\ adder' = adder
        BY <2>1, <2>6
      <4>2. adder[a].pc = "list" => remote'[adder[a].file].coll = remote[adder[a].file].coll
        BY <2>6, <4>1 DEF Adding, NoAdd
      <4> QED
        BY <2>6, <4>1, <4>2 DEF Adding
    <3>2. RowsBounded'
      <4>1. Busy' = Busy /\ IsFiniteSet(Busy)
        BY <2>6, FS_Subset, DenDocsAssumption DEF Busy
      <4>2. /\ IsFiniteSet(Rows') /\ Cardinality(Rows') <= Cardinality(Rows)
            /\ Cardinality(Rows') \in Nat /\ Cardinality(Rows) \in Nat
        BY <2>1, <2>6, FS_Subset, FS_CardinalityType DEF RowsBounded
      <4>3. Cardinality(Busy) \in Nat /\ Cardinality(Adders) \in Nat
        BY <4>1, FS_CardinalityType, DenDocsAssumption
      <4> QED
        BY <2>1, <4>1, <4>2, <4>3, DenDocsAssumption DEF RowsBounded
    <3> QED
      BY <2>6, <3>1, <3>2 DEF DocsInvariant
  <2>7. ASSUME NEW a \in Adders, FindCollection(a) PROVE DocsInvariant'
    <3> DEFINE k == [adder[a] EXCEPT !.pc = IF collection = NoFile THEN "make" ELSE "index",
                                     !.coll = collection]
    <3>1. /\ adder[a].pc = "find" /\ AddGoesOn(a, k)
          /\ UNCHANGED <<collection, doc, remote, removing>>
      BY <2>7 DEF FindCollection
    <3>2. /\ k \in Adder /\ k.file = adder[a].file /\ k.coll = collection
          /\ k.pc = IF collection = NoFile THEN "make" ELSE "index"
      BY <2>1 DEF Adder
    <3>3. adder[a] # NoAdd
      BY <3>1 DEF NoAdd
    <3> HIDE DEF k
    <3> QED
      BY <2>1, <2>2, <3>1, <3>2, <3>3
  <2>8. ASSUME NEW a \in Adders, MakeCollection(a) PROVE DocsInvariant'
    <3> DEFINE k == [adder[a] EXCEPT !.pc = "save", !.coll = adder[a].file]
    <3>1. /\ adder[a].pc = "make" /\ AddGoesOn(a, k)
          /\ UNCHANGED <<collection, doc, remote, removing>>
      BY <2>8 DEF MakeCollection
    <3>2. k \in Adder /\ k.file = adder[a].file /\ k.coll = adder[a].file /\ k.pc = "save"
      BY <2>1 DEF Adder
    <3>3. adder[a] # NoAdd /\ adder[a].file \in Files
      BY <2>1, <3>1 DEF NoAdd, Adding
    <3> HIDE DEF k
    <3> QED
      BY <2>1, <2>2, <3>1, <3>2, <3>3
  <2>9. ASSUME NEW a \in Adders, SaveCollection(a) PROVE DocsInvariant'
    <3> DEFINE k == [adder[a] EXCEPT !.pc = "index"]
    <3>1. adder[a].pc = "save" /\ UNCHANGED <<doc, remote, removing>>
      BY <2>9 DEF SaveCollection
    <3>2. adder[a] # NoAdd /\ adder[a].coll \in Files
      BY <2>1, <3>1 DEF NoAdd, Adding
    <3>3. k \in Adder /\ k.file = adder[a].file /\ k.coll = adder[a].coll /\ k.pc = "index"
      BY <2>1 DEF Adder
    <3>4. CASE ~MaySave
      BY <2>1, <2>3, <2>9, <3>1, <3>2, <3>4 DEF SaveCollection
    <3>5. CASE MaySave
      <4>1. collection = NoFile /\ collection' = adder[a].coll /\ AddGoesOn(a, k)
        BY <2>9, <3>5 DEF SaveCollection, MaySave
      <4> HIDE DEF k
      <4> QED
        BY <2>1, <2>2, <3>1, <3>2, <3>3, <4>1, DenDocsAssumption
    <3> QED
      BY <3>4, <3>5
  <2>10. ASSUME NEW a \in Adders, NEW answered \in BOOLEAN, IndexFile(a, answered)
         PROVE  DocsInvariant'
    <3> DEFINE f == adder[a].file
               k == [adder[a] EXCEPT !.pc = "list"]
    <3>1. /\ adder[a].pc = "index" /\ UNCHANGED <<collection, doc, removing>>
          /\ remote' = [remote EXCEPT ![f] = [coll |-> adder[a].coll, status |-> "indexing"]]
          /\ AddGoesOn(a, k) \/ AddGoesOn(a, NoAdd)
      BY <2>10 DEF IndexFile
    <3>2. /\ adder[a] # NoAdd /\ f \in Files
          /\ adder[a].coll = collection /\ collection # NoFile
      BY <2>1, <3>1 DEF NoAdd, Adding
    <3>3. k \in Adder /\ k.file = f /\ k.coll = adder[a].coll /\ k.pc = "list"
      BY <2>1 DEF Adder
    <3>4. [coll |-> adder[a].coll, status |-> "indexing"] \in Remote
      BY <2>1, <3>2 DEF Remote
    <3>5. /\ remote' \in [Files -> Remote] /\ remote'[f].coll = collection
          /\ \A g \in Files \ {f} : remote'[g] = remote[g]
      BY <2>1, <3>1, <3>2, <3>4
    <3> HIDE DEF f, k
    <3>6. CASE AddGoesOn(a, k)
      BY <2>1, <2>2, <3>1, <3>2, <3>3, <3>5, <3>6 DEF f
    <3>7. CASE AddGoesOn(a, NoAdd)
      BY <2>1, <2>3, <3>1, <3>2, <3>5, <3>7 DEF f
    <3> QED
      BY <3>1, <3>6, <3>7
  <2>11. ASSUME NEW a \in Adders, AddFails(a) PROVE DocsInvariant'
    BY <2>1, <2>3, <2>11 DEF AddFails
  <2>12. ASSUME NEW f \in Files, NEW status \in {"searchable", "bad"}, Indexed(f, status)
         PROVE  DocsInvariant'
    <3>1. /\ remote[f].status = "indexing" /\ UNCHANGED <<collection, adder, doc, removing>>
          /\ \A g \in Files : /\ remote'[g].coll = remote[g].coll
                              /\ g # f => remote'[g] = remote[g]
          /\ remote' \in [Files -> Remote]
      BY <2>1, <2>12 DEF Indexed, Remote
    <3>2. Rows' = Rows /\ DocsTypeOK'
      BY <2>1, <3>1 DEF DocsTypeOK, Rows
    <3>3. DocsAreSearchable'
      BY <2>1, <3>1, <3>2 DEF DocsAreSearchable, Absent, Rows
    <3> QED
      BY <2>6, <3>1, <3>2, <3>3
  <2>13. ASSUME NEW f \in Files, SyncStatus(f) PROVE DocsInvariant'
    <3>1. /\ doc[f] = "processing" /\ collection # NoFile /\ remote[f].coll = collection
          /\ UNCHANGED <<collection, adder, remote, removing>>
          /\ doc' = [doc EXCEPT ![f] = StatusOf(remote[f])]
      BY <2>13 DEF SyncStatus
    <3>2. /\ StatusOf(remote[f]) \in {"processing", "ready", "failed"}
          /\ StatusOf(remote[f]) = "ready" => remote[f].status = "searchable"
      BY DEF StatusOf
    <3>3. /\ \A g \in Files : doc'[g] = IF g = f THEN StatusOf(remote[f]) ELSE doc[g]
          /\ doc' \in [Files -> {"none", "processing", "ready", "failed"}]
      BY <2>1, <3>1, <3>2
    <3>4. Rows' = Rows
      BY <3>1, <3>2, <3>3 DEF Rows
    <3>5. DocsTypeOK' /\ DocsAreSearchable'
      BY <2>1, <3>1, <3>2, <3>3, <3>4 DEF DocsTypeOK, DocsAreSearchable, Rows
    <3> QED
      BY <2>6, <3>1, <3>4, <3>5
  <2>14. ASSUME NEW f \in Files, NEW removed \in BOOLEAN, RemoveRemote(f, removed)
         PROVE  DocsInvariant'
    <3>1. /\ f \in Rows /\ UNCHANGED <<collection, adder, doc>> /\ removing' = removing \cup {f}
          /\ remote' = IF removed THEN [remote EXCEPT ![f] = Absent] ELSE remote
      BY <2>14 DEF RemoveRemote
    <3>2. Rows' = Rows /\ Absent \in Remote
      BY <3>1 DEF Rows, Absent, Remote
    <3>3. /\ \A g \in Files : remote'[g] = IF removed /\ g = f THEN Absent ELSE remote[g]
          /\ remote' \in [Files -> Remote]
      BY <2>1, <3>1, <3>2
    <3>4. DocsTypeOK' /\ DocsAreSearchable'
      BY <2>1, <3>1, <3>2, <3>3 DEF DocsTypeOK, DocsAreSearchable, Rows
    <3> QED
      BY <2>6, <3>1, <3>2, <3>3, <3>4
  <2>15. ASSUME NEW f \in Files, NEW removed \in BOOLEAN, RemoveRow(f, removed)
         PROVE  DocsInvariant'
    <3>1. /\ f \in removing /\ UNCHANGED <<collection, adder, remote>>
          /\ removing' = removing \ {f}
          /\ doc' = IF removed THEN [doc EXCEPT ![f] = "none"] ELSE doc
      BY <2>15 DEF RemoveRow
    <3>2. /\ \A g \in Files : doc'[g] = IF removed /\ g = f THEN "none" ELSE doc[g]
          /\ doc' \in [Files -> {"none", "processing", "ready", "failed"}]
      BY <2>1, <3>1
    <3>3. Rows' = IF removed THEN Rows \ {f} ELSE Rows
      BY <3>2 DEF Rows
    <3>4. DocsTypeOK' /\ DocsAreSearchable'
      BY <2>1, <3>1, <3>2, <3>3 DEF DocsTypeOK, DocsAreSearchable, Rows
    <3> QED
      BY <2>6, <3>1, <3>3, <3>4
  <2>16. CASE UNCHANGED docVars
    <3>1. Rows' = Rows /\ DocsTypeOK' /\ DocsAreSearchable'
      BY <2>1, <2>16 DEF docVars, Rows, DocsTypeOK, DocsAreSearchable
    <3> QED
      BY <2>6, <2>16, <3>1 DEF docVars
  <2> QED
    BY <2>4, <2>5, <2>7, <2>8, <2>9, <2>10, <2>11, <2>12, <2>13, <2>14, <2>15, <2>16 DEF DocsNext
<1> QED
  BY <1>1, <1>2, PTL DEF DocsSpec

(* The docs routes (api.js, collections.js): whoever made the collection   *)
(* and whatever failed after it, a listed document is in the one the den's *)
(* brain searches, and one that is listed as ready can be found.           *)
THEOREM DocsStaySearchable == DocsSpec => []DocsAreSearchable
<1>1. DocsInvariant => DocsAreSearchable
  BY DEF DocsInvariant
<1> QED
  BY <1>1, DocsInvariantHolds, PTL

(* PACK_DEN_DOCS_CAP is compared five awaits before the insert: the adds   *)
(* in flight pass it together, and no more than those.                     *)
THEOREM DocsStayBounded == DocsSpec => []DocsBounded
<1>1. DocsInvariant => DocsBounded
  <2> SUFFICES ASSUME DocsInvariant PROVE DocsBounded
    OBVIOUS
  <2>1. Cardinality(Busy) \in Nat
    BY FS_Subset, FS_CardinalityType, DenDocsAssumption DEF Busy
  <2>2. Cardinality(Rows) \in Nat /\ Cardinality(Adders) \in Nat /\ RowsBounded
    BY FS_CardinalityType, DenDocsAssumption DEF DocsInvariant, RowsBounded
  <2> QED
    BY <2>1, <2>2, DenDocsAssumption DEF RowsBounded, DocsBounded
<1> QED
  BY <1>1, DocsInvariantHolds, PTL

-----------------------------------------------------------------------------
(* The invariant of Citizens.                                              *)

IsMention(a, i) == i \in DOMAIN den /\ den[i].from # a /\ a \in den[i].mentions

\* The replies of an agent that it has counted to an hour.
Counted(a, h) ==
  {i \in DOMAIN den : den[i].from = a /\ den[i].hour = h /\ den[i].kept = "count"}

\* What is kept of an agent's replies is behind its cursor, one reply for each mention,
\* and is in the count for as long as the count is this hour's.
Saved(a) ==
  LET s == store[a] IN
  /\ s.answered # 0 => IsMention(a, s.answered)
  /\ s.stamp <= hour
  /\ \A i \in DOMAIN den : den[i].from = a =>
       /\ den[i].kept # "none" => den[i].answers <= s.answered
       /\ den[i].kept = "count" => den[i].hour <= s.stamp
       /\ \A j \in DOMAIN den : den[j].from = a /\ den[j].answers = den[i].answers
            /\ den[i].kept # "none" /\ den[j].kept # "none" => i = j
  /\ \A h \in Nat : Cardinality(Counted(a, h)) <= MaxReplies
  /\ s.stamp = hour => Cardinality(Counted(a, hour)) <= s.count

\* A poll answers a mention behind the cursor, knows what was counted to its hour, and
\* counts the reply it has posted.
Polling(a, p) ==
  p = NoPoll \/
    /\ p.pc # "idle"
    /\ IsMention(a, p.mention) /\ store[a].answered < p.mention
    /\ store[a].stamp <= p.hour /\ p.hour <= hour
    /\ Cardinality(Counted(a, p.hour)) <= p.count /\ p.count < MaxReplies
    /\ p.pc = "fallback" => p.counts
    /\ p.reply # 0 =>
         /\ p.pc = "save" /\ p.counts /\ p.reply \in DOMAIN den
         /\ den[p.reply].from = a /\ den[p.reply].answers = p.mention
         /\ den[p.reply].hour = p.hour /\ den[p.reply].kept = "none"

CitizensInvariant ==
  CitizensTypeOK /\ \A a \in Agents : Saved(a) /\ Polling(a, poll[a])

LEMMA CitizensInvariantHolds == CitizensSpec => []CitizensInvariant
<1>0. Cardinality({}) = 0
  BY FS_EmptySet
<1>9. ASSUME NEW s \in Seq(Line), NEW l \in Line
      PROVE  /\ Append(s, l) \in Seq(Line) /\ Len(Append(s, l)) = Len(s) + 1
             /\ DOMAIN Append(s, l) = 1 .. Len(s) + 1
             /\ \A i \in 1 .. Len(s) : Append(s, l)[i] = s[i]
             /\ Append(s, l)[Len(s) + 1] = l
  <2> HIDE DEF Line
  <2> QED
    OBVIOUS
<1>1. CitizensInit => CitizensInvariant
  <2> SUFFICES ASSUME CitizensInit PROVE CitizensInvariant
    OBVIOUS
  <2>1. den \in Seq(Line) /\ Len(den) = 0 /\ DOMAIN den = {}
    BY DEF CitizensInit
  <2>2. \A a \in Agents, h \in Nat : Counted(a, h) = {}
    BY <2>1 DEF Counted
  <2>3. \A a \in Agents : poll[a] = NoPoll /\ store[a] = [answered |-> 0, count |-> 0, stamp |-> 0]
    BY DEF CitizensInit
  <2>4. CitizensTypeOK
    BY <2>1, CitizensAssumption DEF CitizensInit, CitizensTypeOK, NoPoll, Poll
  <2>5. \A a \in Agents : Saved(a)
    <3> SUFFICES ASSUME NEW a \in Agents PROVE Saved(a)
      OBVIOUS
    <3>1. hour = 0 /\ store[a].answered = 0 /\ store[a].stamp = 0 /\ store[a].count = 0
      BY <2>3 DEF CitizensInit
    <3>2. MaxReplies \in Nat /\ \A h \in Nat : Cardinality(Counted(a, h)) = 0
      BY <1>0, <2>2, CitizensAssumption
    <3>3. Cardinality(Counted(a, hour)) = 0
      BY <3>1, <3>2
    <3> QED
      BY <2>1, <3>1, <3>2, <3>3 DEF Saved
  <2> QED
    BY <2>3, <2>4, <2>5 DEF CitizensInvariant, Polling
<1>2. CitizensInvariant /\ [CitizensNext]_citizenVars => CitizensInvariant'
  <2> SUFFICES ASSUME CitizensInvariant, [CitizensNext]_citizenVars PROVE CitizensInvariant'
    OBVIOUS
  <2>1. /\ CitizensTypeOK
        /\ \A a \in Agents : Saved(a) /\ Polling(a, poll[a])
    BY DEF CitizensInvariant
  <2>2. /\ den \in Seq(Line) /\ Len(den) \in Nat /\ DOMAIN den = 1 .. Len(den)
        /\ MaxReplies \in Nat /\ Window \in Nat /\ MaxLines \in Nat /\ MaxHours \in Nat
        /\ hour \in Nat /\ NoPoll \in Poll
        /\ \A i \in DOMAIN den : den[i] \in Line
    BY <2>1, CitizensAssumption DEF CitizensTypeOK, NoPoll, Poll
  <2>3. \A a \in Agents :
          /\ store[a] \in [answered : Nat, count : 0 .. MaxReplies, stamp : Nat]
          /\ poll[a] \in Poll
    BY <2>1 DEF CitizensTypeOK
  <2>4. \A a \in Agents, h \in Nat :
          /\ IsFiniteSet(Counted(a, h)) /\ Cardinality(Counted(a, h)) \in Nat
    <3> SUFFICES ASSUME NEW a \in Agents, NEW h \in Nat
                 PROVE  IsFiniteSet(Counted(a, h)) /\ Cardinality(Counted(a, h)) \in Nat
      OBVIOUS
    <3>1. Counted(a, h) \subseteq 1 .. Len(den)
      BY <2>2 DEF Counted
    <3>2. IsFiniteSet(1 .. Len(den))
      BY <2>2, FS_Interval
    <3> QED
      BY <3>1, <3>2, FS_Subset, FS_CardinalityType
  \* A line more or none, and one poll further.
  <2>5. ASSUME NEW a, NEW k \in Poll, NEW l \in Line,
               den' = den \/ (Len(den) < MaxLines /\ den' = Append(den, l)), l.kept = "none",
               PollGoesOn(a, k), UNCHANGED <<keepers, store, hour>>,
               k = NoPoll \/
                 /\ k.pc # "idle"
                 /\ IsMention(a, k.mention) /\ store[a].answered < k.mention
                 /\ store[a].stamp <= k.hour /\ k.hour <= hour
                 /\ Cardinality(Counted(a, k.hour)) <= k.count /\ k.count < MaxReplies
                 /\ k.pc = "fallback" => k.counts
                 /\ k.reply # 0 =>
                      /\ k.pc = "save" /\ k.counts /\ k.reply \in DOMAIN den'
                      /\ den'[k.reply].from = a /\ den'[k.reply].answers = k.mention
                      /\ den'[k.reply].hour = k.hour /\ den'[k.reply].kept = "none"
        PROVE  CitizensInvariant'
    <3>1. /\ den' \in Seq(Line) /\ Len(den') \in Nat /\ Len(den') <= MaxLines
          /\ DOMAIN den' = 1 .. Len(den') /\ DOMAIN den \subseteq DOMAIN den'
          /\ \A i \in DOMAIN den : den'[i] = den[i]
          /\ \A i \in DOMAIN den' : i \notin DOMAIN den => den'[i].kept = "none"
      <4>1. CASE den' = den
        BY <2>1, <2>2, <4>1 DEF CitizensTypeOK
      <4>2. CASE Len(den) < MaxLines /\ den' = Append(den, l)
        <5>1. /\ den' \in Seq(Line) /\ Len(den') = Len(den) + 1
              /\ \A i \in 1 .. Len(den) : den'[i] = den[i]
              /\ den'[Len(den) + 1] = l /\ DOMAIN den' = 1 .. Len(den) + 1
          BY <1>9, <2>2, <4>2
        <5>2. Len(den') <= MaxLines
          BY <2>2, <4>2, <5>1
        <5>3. \A i \in 1 .. Len(den) + 1 : i \notin 1 .. Len(den) => i = Len(den) + 1
          BY <2>2
        <5>4. 1 .. Len(den) \subseteq 1 .. Len(den) + 1 /\ Len(den') \in Nat
          BY <2>2, <5>1
        <5> QED
          BY <2>2, <2>5, <5>1, <5>2, <5>3, <5>4
      <4> QED
        BY <2>5, <4>1, <4>2
    <3>2. \A b \in Agents, h \in Nat : Counted(b, h)' = Counted(b, h)
      BY <3>1 DEF Counted
    <3>3. \A b \in Agents : /\ poll'[b] = IF b = a THEN k ELSE poll[b]
                            /\ store'[b] = store[b]
      BY <2>1, <2>5 DEF CitizensTypeOK, PollGoesOn
    <3>4. \A b \in Agents, i \in Nat : IsMention(b, i) => IsMention(b, i)'
      BY <3>1 DEF IsMention
    <3>5. CitizensTypeOK'
      BY <2>1, <2>5, <3>1 DEF CitizensTypeOK, PollGoesOn
    <3>6. ASSUME NEW b \in Agents PROVE Saved(b)'
      <4>1. Saved(b) /\ store'[b] = store[b] /\ hour' = hour /\ hour \in Nat
        BY <2>1, <2>2, <2>5, <3>3
      <4>2. store[b].answered \in Nat
        BY <2>3
      <4> QED
        BY <3>1, <3>2, <3>4, <4>1, <4>2 DEF Saved
    <3>7. ASSUME NEW b \in Agents, b # a PROVE Polling(b, poll[b])'
      <4>1. Polling(b, poll[b]) /\ store'[b] = store[b] /\ hour' = hour /\ poll'[b] = poll[b]
        BY <2>1, <2>5, <3>3, <3>7
      <4>2. poll[b].mention \in Nat /\ poll[b].hour \in Nat
        BY <2>3 DEF Poll
      <4> QED
        BY <3>1, <3>2, <3>4, <4>1, <4>2 DEF Polling
    <3>8. ASSUME a \in Agents PROVE Polling(a, poll[a])'
      <4>1. store'[a] = store[a] /\ hour' = hour /\ poll'[a] = k
        BY <2>5, <3>3, <3>8
      <4>2. k.mention \in Nat /\ k.hour \in Nat
        BY DEF Poll
      <4> QED
        BY <2>5, <3>1, <3>2, <3>4, <3>8, <4>1, <4>2 DEF Polling
    <3> QED
      BY <3>5, <3>6, <3>7, <3>8 DEF CitizensInvariant
  <2>6. ASSUME NEW S \in SUBSET DOMAIN den, S # {}
        PROVE  Max(S) \in S /\ \A y \in S : Max(S) >= y
    <3> DEFINE R == {Len(den) - y : y \in S}
    <3>1. R \in SUBSET Nat /\ R # {}
      BY <2>2, <2>6
    <3>2. Min(R) \in R /\ \A y \in R : Min(R) =< y
      <4> HIDE DEF R
      <4> QED
        BY <3>1, LeastExists
    <3>3. PICK x \in S : Min(R) = Len(den) - x
      BY <3>2
    <3>4. \A y \in S : x >= y
      <4> SUFFICES ASSUME NEW y \in S PROVE x >= y
        OBVIOUS
      <4>1. Len(den) - y \in R
        OBVIOUS
      <4>2. Len(den) - x =< Len(den) - y
        BY <3>2, <3>3, <4>1
      <4> QED
        BY <2>2, <4>2
    <3> QED
      BY <3>4, Zenon DEF Max
  <2>7. ASSUME NEW from \in Agents \cup {Human}, NEW mentions \in SUBSET Agents,
               Speak(from, mentions)
        PROVE  CitizensInvariant'
    <3> DEFINE l == [from |-> from, mentions |-> mentions, answers |-> 0, hour |-> 0,
                     kept |-> "none"]
    <3>1. /\ Len(den) < MaxLines /\ den' = Append(den, l)
          /\ UNCHANGED <<keepers, poll, store, hour>>
      BY <2>7 DEF Speak, Says, HasRoomFor
    <3>2. l \in Line /\ l.kept = "none"
      BY DEF Line
    <3> HIDE DEF l
    <3>3. PollGoesOn(Human, NoPoll)
      BY <2>1, <3>1, CitizensAssumption DEF CitizensTypeOK, PollGoesOn
    <3> QED
      BY <2>2, <2>5, <3>1, <3>2, <3>3
  <2>8. ASSUME NEW a \in Agents, PollDen(a)
        PROVE  CitizensInvariant'
    <3>1. PICK m \in Unanswered(a) :
            PollGoesOn(a, [NoPoll EXCEPT !.pc = "reply", !.mention = m, !.hour = hour,
                                         !.count = CountOf(a)])
      BY <2>8 DEF PollDen
    <3>2. UNCHANGED <<keepers, den, store, hour>> /\ CountOf(a) < MaxReplies
      BY <2>8 DEF PollDen
    <3>3. Mentions(a) # {} /\ m = Max(Mentions(a)) /\ m # store[a].answered
      BY <3>1 DEF Unanswered
    <3>4. m \in Mentions(a) /\ \A y \in Mentions(a) : m >= y
      BY <2>6, <3>3 DEF Mentions
    <3>5. m \in Nat /\ IsMention(a, m)
      BY <2>2, <3>4 DEF Mentions, IsMention
    <3>6. Saved(a)
      BY <2>1
    <3>7. store[a].answered < m
      <4>1. store[a].answered \in Nat
        BY <2>3
      <4>2. CASE store[a].answered > m
        <5>1. store[a].answered \in Mentions(a)
          BY <2>2, <3>4, <3>5, <3>6, <4>1, <4>2 DEF Saved, Mentions, IsMention
        <5> QED
          BY <3>4, <3>5, <4>1, <4>2, <5>1
      <4> QED
        BY <3>3, <3>5, <4>1, <4>2
    <3>8. CountOf(a) \in Nat /\ Cardinality(Counted(a, hour)) <= CountOf(a)
      <4>1. CASE store[a].stamp = hour
        BY <2>2, <2>3, <3>6, <4>1 DEF CountOf, Saved
      <4>2. CASE store[a].stamp # hour
        <5>1. store[a].stamp < hour
          BY <2>2, <2>3, <3>6, <4>2 DEF Saved
        <5>2. Counted(a, hour) = {}
          BY SMTT(30), <2>2, <2>3, <3>6, <5>1 DEF Counted, Saved, Line
        <5> QED
          BY <1>0, <4>2, <5>2 DEF CountOf
      <4> QED
        BY <4>1, <4>2
    <3> DEFINE k == [NoPoll EXCEPT !.pc = "reply", !.mention = m, !.hour = hour,
                                   !.count = CountOf(a)]
    <3>9. /\ k \in Poll /\ k.pc = "reply" /\ k.mention = m /\ k.hour = hour
          /\ k.count = CountOf(a) /\ k.reply = 0
      BY <2>2, <3>5, <3>8 DEF NoPoll, Poll
    <3>10. PollGoesOn(a, k)
      BY <3>1
    <3> HIDE DEF k
    <3>11. \E l \in Line : l.kept = "none"
      <4>1. [from |-> Human, mentions |-> {}, answers |-> 0, hour |-> 0, kept |-> "none"] \in Line
        BY DEF Line
      <4> QED
        BY <4>1
    <3>12. store[a].stamp <= hour /\ hour <= hour
      BY <2>2, <3>6 DEF Saved
    <3> QED
      BY <2>5, <3>2, <3>5, <3>7, <3>8, <3>9, <3>10, <3>11, <3>12
  \* What a poll that goes on or ends posts, and what it knows by then.
  <2>9. ASSUME NEW a \in Agents, NEW names \in SUBSET Agents, NEW lands \in BOOLEAN,
               NEW accepted \in BOOLEAN, Reply(a, names, lands, accepted)
        PROVE  CitizensInvariant'
    <3> DEFINE l == [from |-> a, mentions |-> names, answers |-> poll[a].mention,
                     hour |-> poll[a].hour, kept |-> "none"]
               k == [poll[a] EXCEPT
                       !.pc = IF accepted \/ a \in keepers THEN "save" ELSE "fallback",
                       !.reply = IF accepted THEN Len(den) + 1 ELSE 0,
                       !.counts = accepted \/ a \notin keepers]
    <3>1. /\ poll[a].pc = "reply" /\ (accepted => lands)
          /\ IF lands THEN Len(den) < MaxLines /\ den' = Append(den, l) ELSE den' = den
          /\ PollGoesOn(a, k) /\ UNCHANGED <<keepers, store, hour>>
      BY <2>9 DEF Reply, Posts, Says, HasRoomFor
    <3>2. poll[a] \in Poll /\ poll[a] # NoPoll /\ Polling(a, poll[a])
      BY <2>1, <2>3, <3>1 DEF NoPoll
    <3>3. /\ l \in Line /\ l.kept = "none" /\ l.from = a
          /\ l.answers = poll[a].mention /\ l.hour = poll[a].hour
      BY <3>2 DEF Line, Poll
    <3>4. /\ k \in Poll
          /\ k.pc = IF accepted \/ a \in keepers THEN "save" ELSE "fallback"
          /\ k.reply = IF accepted THEN Len(den) + 1 ELSE 0
          /\ k.counts = (accepted \/ a \notin keepers)
          /\ k.mention = poll[a].mention /\ k.hour = poll[a].hour /\ k.count = poll[a].count
      <4> DEFINE pc == IF accepted \/ a \in keepers THEN "save" ELSE "fallback"
                 reply == IF accepted THEN Len(den) + 1 ELSE 0
                 counts == accepted \/ a \notin keepers
      <4>1. pc \in {"save", "fallback"} /\ reply \in Nat /\ counts \in BOOLEAN
        BY <2>2
      <4>2. k = [poll[a] EXCEPT !.pc = pc, !.reply = reply, !.counts = counts]
        OBVIOUS
      <4> HIDE DEF pc, reply, counts, k
      <4>3. /\ k \in Poll /\ k.pc = pc /\ k.reply = reply /\ k.counts = counts
            /\ k.mention = poll[a].mention /\ k.hour = poll[a].hour /\ k.count = poll[a].count
        BY <3>2, <4>1, <4>2 DEF Poll
      <4> QED
        BY <4>3 DEF pc, reply, counts
    <3> HIDE DEF l, k
    <3>5. accepted => k.reply \in DOMAIN den' /\ den'[k.reply] = l
      BY <1>9, <2>2, <3>1, <3>3, <3>4
    <3> QED
      BY <2>5, <3>1, <3>2, <3>3, <3>4, <3>5 DEF Polling
  <2>10. ASSUME NEW a \in Agents, NEW lands \in BOOLEAN, Fallback(a, lands)
         PROVE  CitizensInvariant'
    <3> DEFINE l == [from |-> a, mentions |-> {}, answers |-> poll[a].mention,
                     hour |-> poll[a].hour, kept |-> "none"]
               k == [poll[a] EXCEPT !.pc = "save",
                                    !.reply = IF lands THEN Len(den) + 1 ELSE 0]
    <3>1. /\ poll[a].pc = "fallback"
          /\ IF lands THEN Len(den) < MaxLines /\ den' = Append(den, l) ELSE den' = den
          /\ PollGoesOn(a, k) /\ UNCHANGED <<keepers, store, hour>>
      BY <2>10 DEF Fallback, Posts, Says, HasRoomFor
    <3>2. poll[a] \in Poll /\ poll[a] # NoPoll /\ Polling(a, poll[a])
      BY <2>1, <2>3, <3>1 DEF NoPoll
    <3>3. /\ l \in Line /\ l.kept = "none" /\ l.from = a
          /\ l.answers = poll[a].mention /\ l.hour = poll[a].hour
      BY <3>2 DEF Line, Poll
    <3>4. /\ k \in Poll /\ k.pc = "save" /\ k.counts = poll[a].counts
          /\ k.reply = IF lands THEN Len(den) + 1 ELSE 0
          /\ k.mention = poll[a].mention /\ k.hour = poll[a].hour /\ k.count = poll[a].count
      <4> DEFINE reply == IF lands THEN Len(den) + 1 ELSE 0
      <4>1. reply \in Nat /\ k = [poll[a] EXCEPT !.pc = "save", !.reply = reply]
        BY <2>2
      <4> HIDE DEF reply, k
      <4>2. /\ k \in Poll /\ k.pc = "save" /\ k.counts = poll[a].counts /\ k.reply = reply
            /\ k.mention = poll[a].mention /\ k.hour = poll[a].hour /\ k.count = poll[a].count
        BY <3>2, <4>1 DEF Poll
      <4> QED
        BY <4>2 DEF reply
    <3> HIDE DEF l, k
    <3>5. lands => k.reply \in DOMAIN den' /\ den'[k.reply] = l
      BY <1>9, <2>2, <3>1, <3>3, <3>4
    <3> QED
      BY <2>5, <3>1, <3>2, <3>3, <3>4, <3>5 DEF Polling
  <2>11. ASSUME NEW a \in Agents, NEW names \in SUBSET Agents, NEW lands \in BOOLEAN,
                TimesOut(a, names, lands)
         PROVE  CitizensInvariant'
    <3> DEFINE l == [from |-> a, mentions |-> names, answers |-> poll[a].mention,
                     hour |-> poll[a].hour, kept |-> "none"]
    <3>1. /\ IF lands THEN Len(den) < MaxLines /\ den' = Append(den, l) ELSE den' = den
          /\ PollGoesOn(a, NoPoll) /\ UNCHANGED <<keepers, store, hour>>
      BY <2>11 DEF TimesOut, Posts, Says, HasRoomFor
    <3>2. poll[a] \in Poll
      BY <2>3
    <3>3. l \in Line /\ l.kept = "none"
      BY <3>2 DEF Line, Poll
    <3> HIDE DEF l
    <3> QED
      BY <2>2, <2>5, <3>1, <3>3
  <2>12. ASSUME HourPasses PROVE CitizensInvariant'
    <3>1. hour < MaxHours /\ hour' = hour + 1 /\ UNCHANGED <<keepers, den, poll, store>>
      BY <2>12 DEF HourPasses
    <3>2. \A b \in Agents, h \in Nat : Counted(b, h)' = Counted(b, h)
      BY <3>1 DEF Counted
    <3>3. \A b \in Agents, i \in Nat : IsMention(b, i)' = IsMention(b, i)
      BY <3>1 DEF IsMention
    <3>4. CitizensTypeOK'
      BY <2>1, <2>2, <3>1 DEF CitizensTypeOK
    <3>5. ASSUME NEW b \in Agents PROVE Saved(b)'
      <4>1. Saved(b) /\ store[b].answered \in Nat /\ store[b].stamp \in Nat
        BY <2>1, <2>3
      <4>2. store[b].stamp < hour'
        BY <2>2, <3>1, <4>1 DEF Saved
      <4> QED
        BY <2>2, <3>1, <3>2, <3>3, <4>1, <4>2 DEF Saved
    <3>6. ASSUME NEW b \in Agents PROVE Polling(b, poll[b])'
      <4>1. Polling(b, poll[b]) /\ poll[b].mention \in Nat /\ poll[b].hour \in Nat
        BY <2>1, <2>3 DEF Poll
      <4> QED
        BY <2>2, <3>1, <3>2, <3>3, <4>1 DEF Polling
    <3> QED
      BY <3>4, <3>5, <3>6 DEF CitizensInvariant
  \* What is kept of a reply, and with it the count, changes only here.
  <2>13. ASSUME NEW a \in Agents, NEW writes \in 0 .. 3, Save(a, writes)
         PROVE  CitizensInvariant'
    <3> DEFINE p == poll[a]
               old == store[a]
               c == p.count + (IF p.counts THEN 1 ELSE 0)
    <3>1. /\ p.pc = "save" /\ UNCHANGED <<keepers, hour>> /\ PollGoesOn(a, NoPoll)
          /\ store' = [store EXCEPT ![a] =
               [answered |-> IF writes >= 1 THEN p.mention ELSE old.answered,
                count    |-> IF writes >= 2 THEN c ELSE old.count,
                stamp    |-> IF writes >= 3 THEN p.hour ELSE old.stamp]]
          /\ den' = IF p.reply = 0 \/ writes = 0 THEN den
                    ELSE [den EXCEPT ![p.reply].kept = IF writes = 3 THEN "count" ELSE "cursor"]
      BY <2>13 DEF Save
    <3>2. /\ p \in Poll /\ Saved(a)
          /\ IsMention(a, p.mention) /\ old.answered < p.mention
          /\ old.stamp <= p.hour /\ p.hour <= hour
          /\ Cardinality(Counted(a, p.hour)) <= p.count /\ p.count < MaxReplies
          /\ p.reply # 0 => /\ p.counts /\ p.reply \in DOMAIN den
                            /\ den[p.reply].from = a /\ den[p.reply].answers = p.mention
                            /\ den[p.reply].hour = p.hour /\ den[p.reply].kept = "none"
      BY <2>1, <2>3, <3>1 DEF Polling, NoPoll
    <3>3. /\ p.mention \in Nat /\ p.hour \in Nat /\ p.count \in Nat /\ p.reply \in Nat
          /\ c \in 0 .. MaxReplies /\ p.count <= c /\ (p.counts => c = p.count + 1)
          /\ old.answered \in Nat /\ old.stamp \in Nat /\ old.count \in 0 .. MaxReplies
      <4>1. /\ p.mention \in Nat /\ p.hour \in Nat /\ p.count \in Nat /\ p.reply \in Nat
            /\ old.answered \in Nat /\ old.stamp \in Nat /\ old.count \in 0 .. MaxReplies
        BY <2>3, <3>2 DEF Poll
      <4>2. c = p.count \/ c = p.count + 1
        BY <4>1
      <4>3. p.counts => c = p.count + 1
        OBVIOUS
      <4> HIDE DEF c
      <4>4. p.count + 1 \in 0 .. MaxReplies
        BY <2>2, <3>2, <4>1
      <4> QED
        BY SMTT(30), <2>2, <4>1, <4>2, <4>3, <4>4
    <3> HIDE DEF c
    <3>4. /\ den' \in Seq(Line) /\ Len(den') = Len(den) /\ DOMAIN den' = DOMAIN den
          /\ \A i \in DOMAIN den :
               /\ den'[i].from = den[i].from /\ den'[i].answers = den[i].answers
               /\ den'[i].hour = den[i].hour /\ den'[i].mentions = den[i].mentions
               /\ den'[i].kept = IF i = p.reply /\ writes # 0
                                 THEN IF writes = 3 THEN "count" ELSE "cursor"
                                 ELSE den[i].kept
      <4>1. CASE p.reply = 0 \/ writes = 0
        BY <2>2, <3>1, <4>1
      <4>2. CASE p.reply # 0 /\ writes # 0
        <5> DEFINE kept == IF writes = 3 THEN "count" ELSE "cursor"
                   r == [den[p.reply] EXCEPT !.kept = kept]
        <5>1. kept \in {"none", "cursor", "count"} /\ den[p.reply] \in Line
          BY <2>2, <3>2, <4>2
        <5>2. den' = [den EXCEPT ![p.reply] = r]
          BY <3>1, <4>2
        <5> HIDE DEF kept
        <5>3. /\ r \in Line /\ r.kept = kept /\ r.from = den[p.reply].from
              /\ r.answers = den[p.reply].answers /\ r.hour = den[p.reply].hour
              /\ r.mentions = den[p.reply].mentions
          BY <5>1 DEF Line
        <5> HIDE DEF r
        <5>4. /\ den' \in Seq(Line) /\ Len(den') = Len(den) /\ DOMAIN den' = DOMAIN den
              /\ \A i \in DOMAIN den : den'[i] = IF i = p.reply THEN r ELSE den[i]
          <6> HIDE DEF Line
          <6> QED
            BY <2>2, <3>2, <4>2, <5>2, <5>3
        <5> QED
          BY <4>2, <5>3, <5>4 DEF kept
      <4> QED
        BY <4>1, <4>2
    <3>5. \A b \in Agents, i \in Nat : IsMention(b, i)' = IsMention(b, i)
      BY <3>4 DEF IsMention
    <3>6. \A b \in Agents, h \in Nat : b # a => Counted(b, h)' = Counted(b, h)
      BY <2>2, <3>2, <3>4 DEF Counted
    <3>7. \A h \in Nat : (h # p.hour \/ writes # 3 \/ p.reply = 0) => Counted(a, h)' = Counted(a, h)
      <4> SUFFICES ASSUME NEW h \in Nat, h # p.hour \/ writes # 3 \/ p.reply = 0
                   PROVE  Counted(a, h)' = Counted(a, h)
        OBVIOUS
      <4>1. \A i \in DOMAIN den : den'[i].hour = h /\ den'[i].kept = "count"
                                    <=> den[i].hour = h /\ den[i].kept = "count"
        BY <2>2, <3>2, <3>4
      <4> QED
        BY <3>4, <4>1 DEF Counted
    <3>8. ASSUME NEW h \in Nat, h = p.hour, writes = 3
          PROVE  Cardinality(Counted(a, h)') <= c
      <4>1. IsFiniteSet(Counted(a, h)) /\ Cardinality(Counted(a, h)) \in Nat
        BY <2>4
      <4>2. CASE p.reply = 0
        BY <2>2, <3>2, <3>3, <3>7, <3>8, <4>1, <4>2
      <4>3. CASE p.reply # 0
        <5>1. \A i \in DOMAIN den :
                den'[i].from = a /\ den'[i].hour = h /\ den'[i].kept = "count"
                  <=> i = p.reply \/ i \in Counted(a, h)
          BY <3>2, <3>4, <3>8, <4>3 DEF Counted
        <5>2. /\ Counted(a, h)' = Counted(a, h) \cup {p.reply}
              /\ p.reply \notin Counted(a, h)
          BY <3>2, <3>4, <4>3, <5>1 DEF Counted
        <5>3. Cardinality(Counted(a, h) \cup {p.reply}) = Cardinality(Counted(a, h)) + 1
          BY <4>1, <5>2, FS_AddElement
        <5> QED
          BY <3>2, <3>3, <3>8, <4>1, <4>3, <5>2, <5>3
      <4> QED
        BY <4>2, <4>3
    <3>9. \A b \in Agents :
            /\ poll'[b] = IF b = a THEN NoPoll ELSE poll[b]
            /\ b # a => store'[b] = store[b]
      BY <2>1, <3>1 DEF CitizensTypeOK, PollGoesOn
    <3>10. /\ store'[a].answered = IF writes >= 1 THEN p.mention ELSE old.answered
           /\ store'[a].count = IF writes >= 2 THEN c ELSE old.count
           /\ store'[a].stamp = IF writes >= 3 THEN p.hour ELSE old.stamp
      BY <2>1, <3>1 DEF CitizensTypeOK
    <3>11. CitizensTypeOK'
      <4>1. store' \in [Agents -> [answered : Nat, count : 0 .. MaxReplies, stamp : Nat]]
        BY <2>1, <3>1, <3>3 DEF CitizensTypeOK
      <4> QED
        BY <2>1, <2>2, <3>1, <3>4, <4>1 DEF CitizensTypeOK, PollGoesOn
    <3>12. ASSUME NEW b \in Agents, b # a PROVE Saved(b)' /\ Polling(b, poll[b])'
      <4>1. /\ Saved(b) /\ Polling(b, poll[b]) /\ store'[b] = store[b] /\ hour' = hour
            /\ poll'[b] = poll[b] /\ hour \in Nat
        BY <2>1, <2>2, <3>1, <3>9, <3>12
      <4>2. store[b].answered \in Nat /\ poll[b].mention \in Nat /\ poll[b].hour \in Nat
        BY <2>3 DEF Poll
      <4>3. \A i \in DOMAIN den : den[i].from = b => den'[i].kept = den[i].kept
        BY <2>2, <3>2, <3>3, <3>4, <3>12
      <4>4. Saved(b)'
        BY SMTT(30), <3>4, <3>5, <3>6, <3>12, <4>1, <4>2, <4>3 DEF Saved
      <4>5. poll[b].reply # 0 /\ poll[b] # NoPoll =>
              poll[b].reply \in DOMAIN den /\ den[poll[b].reply].from = b
        BY <4>1 DEF Polling
      <4>6. Polling(b, poll[b])'
        BY <3>4, <3>5, <3>6, <3>12, <4>1, <4>2, <4>3, <4>5 DEF Polling
      <4> QED
        BY <4>4, <4>6
    <3>13. Polling(a, poll[a])'
      BY <3>9 DEF Polling, NoPoll
    <3>14. Saved(a)'
      <4>1. hour' = hour /\ hour \in Nat /\ writes \in Nat
        BY <2>2, <3>1
      <4>2. store'[a].answered # 0 => IsMention(a, store[a].answered)'
        BY <3>2, <3>3, <3>5, <3>10 DEF Saved
      <4>3. store'[a].stamp <= hour'
        BY <3>2, <3>3, <3>10, <4>1 DEF Saved
      <4>4. \A i \in DOMAIN den : den[i].from = a =>
              /\ den'[i].kept # "none" => den'[i].answers <= store'[a].answered
              /\ den'[i].kept = "count" => den'[i].hour <= store'[a].stamp
        <5> SUFFICES ASSUME NEW i \in DOMAIN den, den[i].from = a
                     PROVE  /\ den'[i].kept # "none" => den'[i].answers <= store'[a].answered
                            /\ den'[i].kept = "count" => den'[i].hour <= store'[a].stamp
          OBVIOUS
        <5>1. den[i].answers \in Nat /\ den[i].hour \in Nat
          BY <2>2 DEF Line
        <5>2. CASE i = p.reply /\ writes # 0
          <6>1. /\ den'[i].answers = p.mention /\ den'[i].hour = p.hour
                /\ den'[i].kept = "count" => writes = 3
            BY <2>2, <3>2, <3>4, <4>1, <5>2
          <6>2. store'[a].answered = p.mention /\ (writes = 3 => store'[a].stamp = p.hour)
            BY <3>3, <3>10, <4>1, <5>2
          <6>3. p.mention \in Nat /\ p.hour \in Nat
            BY <3>2, <3>3
          <6> QED
            BY <6>1, <6>2, <6>3
        <5>3. CASE ~(i = p.reply /\ writes # 0)
          <6>1. /\ den'[i].answers = den[i].answers /\ den'[i].hour = den[i].hour
                /\ den'[i].kept = den[i].kept
            BY <2>2, <3>3, <3>4, <5>3
          <6>2. /\ den[i].kept # "none" => den[i].answers <= old.answered
                /\ den[i].kept = "count" => den[i].hour <= old.stamp
            BY <3>2, <3>3 DEF Saved
          <6>3. old.answered <= store'[a].answered /\ old.stamp <= store'[a].stamp
            BY <3>2, <3>3, <3>10
          <6>4. /\ old.answered \in Nat /\ old.stamp \in Nat
                /\ store'[a].answered \in Nat /\ store'[a].stamp \in Nat
            BY <3>2, <3>3, <3>10
          <6> QED
            BY <5>1, <6>1, <6>2, <6>3, <6>4
        <5> QED
          BY <5>2, <5>3
      <4>5. \A i, j \in DOMAIN den :
              /\ den[i].from = a /\ den[j].from = a /\ den[j].answers = den[i].answers
              /\ den'[i].kept # "none" /\ den'[j].kept # "none"
              => i = j
        <5>1. \A i \in DOMAIN den : /\ den[i].from = a /\ den[i].answers = p.mention
                                    /\ den'[i].kept # "none"
                                    => i = p.reply
          <6> SUFFICES ASSUME NEW i \in DOMAIN den, den[i].from = a,
                              den[i].answers = p.mention, den'[i].kept # "none", i # p.reply
                       PROVE  FALSE
            OBVIOUS
          <6>1. den[i].kept # "none"
            BY <3>4
          <6>2. den[i].answers <= old.answered
            BY <3>2, <6>1 DEF Saved
          <6> QED
            BY <3>2, <3>3, <6>2
        <5>2. \A i \in DOMAIN den : den'[i].kept # "none" => den[i].kept # "none" \/ i = p.reply
          BY <3>4
        <5>3. \A i, j \in DOMAIN den :
                /\ den[i].from = a /\ den[j].from = a /\ den[j].answers = den[i].answers
                /\ den[i].kept # "none" /\ den[j].kept # "none"
                => i = j
          BY <3>2 DEF Saved
        <5> SUFFICES ASSUME NEW i \in DOMAIN den, NEW j \in DOMAIN den,
                            den[i].from = a, den[j].from = a, den[j].answers = den[i].answers,
                            den'[i].kept # "none", den'[j].kept # "none"
                     PROVE  i = j
          OBVIOUS
        <5>4. CASE i = p.reply \/ j = p.reply
          BY SMTT(30), <2>2, <3>2, <3>3, <5>1, <5>4
        <5>5. CASE i # p.reply /\ j # p.reply
          BY <5>2, <5>3, <5>5
        <5> QED
          BY <5>4, <5>5
      <4>6. \A h \in Nat : Cardinality(Counted(a, h)') <= MaxReplies
        <5> SUFFICES ASSUME NEW h \in Nat PROVE Cardinality(Counted(a, h)') <= MaxReplies
          OBVIOUS
        <5>1. CASE h = p.hour /\ writes = 3
          <6>1. Counted(a, h)' = Counted(a, h) \/ p.reply # 0
            BY <3>7
          <6>2. Cardinality(Counted(a, h)') <= c
            BY <3>8, <5>1
          <6>3. IsFiniteSet(Counted(a, h)')
            <7>1. IsFiniteSet(1 .. Len(den)) /\ Counted(a, h)' \subseteq 1 .. Len(den)
              BY <2>2, <3>4, FS_Interval DEF Counted
            <7> QED
              BY <7>1, FS_Subset
          <6>4. Cardinality(Counted(a, h)') \in Nat
            BY <6>3, FS_CardinalityType
          <6> QED
            BY <2>2, <3>3, <6>2, <6>4
        <5>2. CASE ~(h = p.hour /\ writes = 3)
          BY <3>2, <3>7, <5>2 DEF Saved
        <5> QED
          BY <5>1, <5>2
      <4>7. store'[a].stamp = hour => Cardinality(Counted(a, hour)') <= store'[a].count
        <5> SUFFICES ASSUME NEW h \in Nat, h = hour, store'[a].stamp = h
                     PROVE  Cardinality(Counted(a, h)') <= store'[a].count
          BY <3>1, <4>1
        <5>1. Cardinality(Counted(a, h)) \in Nat
          BY <2>4
        <5>2. CASE writes = 3
          BY <3>8, <3>10, <5>2
        <5>3. CASE writes # 3
          <6>1. Counted(a, h)' = Counted(a, h) /\ old.stamp = h
            BY <3>7, <3>10, <4>1, <5>3
          <6>2. CASE writes = 2
            BY <2>2, <3>2, <3>3, <3>10, <5>1, <6>1, <6>2
          <6>3. CASE writes < 2
            BY <2>2, <3>2, <3>10, <4>1, <6>1, <6>3 DEF Saved
          <6> QED
            BY <4>1, <5>3, <6>2, <6>3
        <5> QED
          BY <5>2, <5>3
      <4> QED
        BY <3>4, <4>1, <4>2, <4>3, <4>4, <4>5, <4>6, <4>7 DEF Saved
    <3> QED
      BY <3>11, <3>12, <3>13, <3>14 DEF CitizensInvariant
  <2>14. CASE UNCHANGED citizenVars
    <3>1. \A b \in Agents, h \in Nat : Counted(b, h)' = Counted(b, h)
      BY <2>14 DEF citizenVars, Counted
    <3>2. \A b \in Agents, i \in Nat : IsMention(b, i)' = IsMention(b, i)
      BY <2>14 DEF citizenVars, IsMention
    <3>3. CitizensTypeOK'
      BY <2>1, <2>14 DEF citizenVars, CitizensTypeOK
    <3>4. ASSUME NEW b \in Agents PROVE Saved(b)' /\ Polling(b, poll[b])'
      <4>1. /\ Saved(b) /\ Polling(b, poll[b]) /\ store[b].answered \in Nat
            /\ poll[b].mention \in Nat /\ poll[b].hour \in Nat
        BY <2>1, <2>3 DEF Poll
      <4> QED
        BY <2>2, <2>14, <3>1, <3>2, <4>1 DEF citizenVars, Saved, Polling
    <3> QED
      BY <3>3, <3>4 DEF CitizensInvariant
  <2> QED
    BY <2>7, <2>8, <2>9, <2>10, <2>11, <2>12, <2>13, <2>14 DEF CitizensNext
<1> QED
  BY <1>1, <1>2, PTL DEF CitizensSpec

(* "Citizens are polite": whatever is lost of the answers and of what an   *)
(* agent saves, also when agents answer each other, a mention is answered  *)
(* again only if nothing of the answer was saved, and the replies that     *)
(* were counted to an hour stay within MAX_REPLIES_PER_HOUR.               *)
THEOREM CitizensStayPolite == CitizensSpec => []CitizensArePolite
<1>1. CitizensInvariant => CitizensArePolite
  <2> SUFFICES ASSUME CitizensInvariant, NEW a \in Agents
               PROVE  /\ \A m \in DOMAIN den :
                           Cardinality({i \in DOMAIN den :
                             den[i].from = a /\ den[i].answers = m /\ den[i].kept # "none"}) <= 1
                      /\ \A h \in 0 .. MaxHours :
                           Cardinality({i \in DOMAIN den :
                             den[i].from = a /\ den[i].hour = h /\ den[i].kept = "count"})
                               <= MaxReplies
    BY DEF CitizensArePolite
  <2>1. Saved(a)
    BY DEF CitizensInvariant
  <2>2. ASSUME NEW m \in DOMAIN den
        PROVE  Cardinality({i \in DOMAIN den :
                 den[i].from = a /\ den[i].answers = m /\ den[i].kept # "none"}) <= 1
    <3> DEFINE Kept == {i \in DOMAIN den :
                          den[i].from = a /\ den[i].answers = m /\ den[i].kept # "none"}
    <3>1. CASE Kept = {}
      BY <3>1, FS_EmptySet
    <3>2. CASE Kept # {}
      <4>1. PICK i \in Kept : TRUE
        BY <3>2
      <4>2. Kept = {i}
        BY <2>1, <4>1 DEF Saved
      <4>3. Cardinality({i}) = 1
        BY FS_Singleton
      <4> QED
        BY <4>2, <4>3
    <3> QED
      BY <3>1, <3>2
  <2>3. \A h \in 0 .. MaxHours : Cardinality(Counted(a, h)) <= MaxReplies
    BY <2>1, CitizensAssumption DEF Saved
  <2> QED
    BY <2>2, <2>3 DEF Counted
<1> QED
  BY <1>1, CitizensInvariantHolds, PTL

-----------------------------------------------------------------------------
(* A page in voice.                                                        *)

\* The page forgets its seat and its socket together, and a seat that it knows of has a
\* socket at the object's side, or one that failed: what it forgets, when it takes a second
\* seat or hides, the close of the first can give back, and the second is lost.
PageInvariant ==
  /\ VoiceTypeOK
  /\ page.ctl = page.seat
  /\ \A x \in seats : page.seat = x => control[x] # "none"
  /\ SeatsHaveAPage

(* What the object does when it gives seats up touches no seat it keeps.   *)
LEMMA DroppedFacts ==
  ASSUME VoiceTypeOK, NEW gone, Dropped(gone)
  PROVE  /\ seats' \subseteq seats /\ mic' \subseteq seats' /\ lost' \subseteq seats'
         /\ \A x \in lost : x \in seats' => x \in lost'
         /\ \A x \in seats' : control'[x] = control[x]
         /\ control' \in [Chairs -> {"none", "connecting", "failed", "open", "closing"}]
         /\ ended' \subseteq Chairs /\ hungup' \subseteq Chairs
<1> DEFINE heard == {x \in gone \cap seats : control[x] = "open"}
<1>1. /\ seats' = seats \ gone /\ mic' = mic \ gone /\ lost' = lost \ gone
      /\ control' = [x \in Chairs |-> IF x \in gone /\ control[x] \in {"open", "failed"}
                                      THEN "none" ELSE control[x]]
      /\ ended' = ended \cup heard /\ hungup' = hungup \cup heard
  BY DEF Dropped
<1>2. heard \subseteq Chairs /\ heard \cap seats' = {}
  BY <1>1 DEF VoiceTypeOK
<1> HIDE DEF heard
<1> QED
  BY <1>1, <1>2 DEF VoiceTypeOK

(* A page that leaves has its seat given back, or the word of it is lost.  *)
LEMMA LeavesVoiceFacts ==
  ASSUME PageInvariant, page.open, NEW words, NEW closes, LeavesVoice(words, closes)
  PROVE  /\ page' = Quiet /\ seats' = seats /\ mic' = mic
         /\ control' \in [Chairs -> {"none", "connecting", "failed", "open", "closing"}]
         /\ ended' \subseteq Chairs /\ hungup' \subseteq Chairs /\ leaving' \subseteq Chairs
         /\ lost' \subseteq seats /\ lost \subseteq lost' /\ leaving \subseteq leaving'
         /\ \A x \in seats : x # page.seat => control'[x] = control[x]
         /\ \A x \in seats : x = page.seat =>
              x \in leaving' \/ control'[x] = "closing" \/ x \in lost'
<1>1. /\ page' = Quiet /\ seats' = seats /\ mic' = mic
      /\ ended' = ended \ (words \cup {page.ctl})
      /\ hungup' = (hungup \cup ({page.ctl} \ {NoChair})) \ closes
      /\ \E vain \in SUBSET MayBeVain, accepted \in SUBSET Pending : SaysGoodbye(vain, accepted)
  BY DEF LeavesVoice
<1>2. PICK vain \in SUBSET MayBeVain, accepted \in SUBSET Pending : SaysGoodbye(vain, accepted)
  BY <1>1
<1> DEFINE shut == accepted \cup {x \in {page.ctl} \ {NoChair} : control[x] = "open"}
           never == Pending \ accepted
<1>3. /\ leaving' = leaving \cup (BeaconFor(page.seat) \ vain)
      /\ control' = [y \in Chairs |-> CASE y \in shut  -> "closing"
                                        [] y \in never -> "none"
                                        [] OTHER       -> control[y]]
      /\ lost' = lost \cup {x \in vain : control'[x] # "closing"}
      /\ vain \subseteq seats \cap {page.seat}
  BY <1>2 DEF SaysGoodbye, MayBeVain
<1>4. page.seat \in Seat /\ page.ctl = page.seat
  BY DEF PageInvariant, VoiceTypeOK, Page
<1>5. /\ seats \subseteq Chairs /\ lost \subseteq seats /\ NoChair \notin Chairs
      /\ control \in [Chairs -> {"none", "connecting", "failed", "open", "closing"}]
      /\ ended \subseteq Chairs /\ hungup \subseteq Chairs /\ leaving \subseteq Chairs
  BY VoicePageAssumption DEF PageInvariant, VoiceTypeOK
<1>6. BeaconFor(page.seat) = {page.seat} \ {NoChair}
  BY DEF BeaconFor
<1>7. \A y \in Chairs : y # page.seat => y \notin shut /\ y \notin never
  BY <1>4 DEF Pending
<1> HIDE DEF shut, never
<1>8. control' \in [Chairs -> {"none", "connecting", "failed", "open", "closing"}]
  BY <1>3, <1>5
<1>9. \A x \in seats : x # page.seat => control'[x] = control[x]
  BY <1>3, <1>5, <1>7
<1>10. ASSUME NEW x \in seats, x = page.seat
       PROVE  x \in leaving' \/ control'[x] = "closing" \/ x \in lost'
  <2>1. x # NoChair
    BY <1>5
  <2>2. CASE x \in vain
    BY <1>3, <2>2
  <2>3. CASE x \notin vain
    <3>1. leaving' = leaving \cup (({x} \ {NoChair}) \ vain)
      BY <1>3, <1>6, <1>10
    <3> QED
      BY <2>1, <2>3, <3>1
  <2> QED
    BY <2>2, <2>3
<1>11. lost' \subseteq seats /\ lost \subseteq lost'
  BY <1>3, <1>5
<1>12. leaving' \subseteq Chairs /\ leaving \subseteq leaving'
  BY <1>3, <1>4, <1>5, <1>6 DEF Seat
<1>13. ended' \subseteq Chairs /\ hungup' \subseteq Chairs
  BY <1>1, <1>4, <1>5 DEF Seat
<1> QED
  BY <1>1, <1>8, <1>9, <1>10, <1>11, <1>12, <1>13

(* A step that turns one run to a record keeps the type of runs, and the   *)
(* answers that others wait for.                                           *)
LEMMA TurnFacts ==
  ASSUME VoiceTypeOK, NEW r \in Runs, NEW k \in Run, Turn(r, k)
  PROVE  /\ run' \in [Runs -> Run] /\ run'[r] = k
         /\ \A q \in Runs : q # r => run'[q] = run[q]
BY DEF Turn, VoiceTypeOK

(* An answer that was on its way still is, unless it was the one to r.     *)
LEMMA UnheardFacts ==
  ASSUME NEW r \in Runs, \A q \in Runs : q # r => run'[q] = run[q],
         NEW x \in Unheard
  PROVE  x \in Unheard' \/ (run[r].at = "join" /\ run[r].reply = "yes" /\ run[r].seat = x)
<1>1. PICK q \in Runs : run[q].at = "join" /\ run[q].reply = "yes" /\ run[q].seat = x
  BY DEF Unheard
<1>2. CASE q = r
  BY <1>1, <1>2
<1>3. CASE q # r
  <2>1. run'[q] = run[q]
    BY <1>3
  <2> QED
    BY <1>1, <2>1 DEF Unheard
<1> QED
  BY <1>2, <1>3

(* A page that has left, or that an action of the object has found as it   *)
(* was, keeps the invariant.                                               *)
LEMMA LeftKeepsPage ==
  ASSUME PageInvariant, page.open, NEW words, NEW closes, LeavesVoice(words, closes),
         run' \in [Runs -> Run], Unheard \subseteq Unheard'
  PROVE  PageInvariant'
<1>1. /\ page' = Quiet /\ seats' = seats /\ mic' = mic
      /\ control' \in [Chairs -> {"none", "connecting", "failed", "open", "closing"}]
      /\ ended' \subseteq Chairs /\ hungup' \subseteq Chairs /\ leaving' \subseteq Chairs
      /\ lost' \subseteq seats /\ lost \subseteq lost' /\ leaving \subseteq leaving'
      /\ \A x \in seats : x # page.seat => control'[x] = control[x]
      /\ \A x \in seats : x = page.seat =>
           x \in leaving' \/ control'[x] = "closing" \/ x \in lost'
  BY LeavesVoiceFacts
<1>2. Quiet \in Page /\ Quiet.open /\ Quiet.seat = NoChair /\ Quiet.ctl = NoChair
  BY DEF Quiet, Page, Seat
<1>3. seats \subseteq Chairs /\ mic \subseteq seats
  BY DEF PageInvariant, VoiceTypeOK
<1>4. VoiceTypeOK'
  BY <1>1, <1>2, <1>3 DEF VoiceTypeOK
<1>5. \A x \in seats' : page'.seat # x
  BY <1>1, <1>2, <1>3, VoicePageAssumption
<1>6. SeatsHaveAPage'
  <2> SUFFICES ASSUME NEW x \in seats
               PROVE  \/ page'.open
                          /\ (page'.seat = x \/ x \in Unheard'
                               \/ control'[x] \in {"connecting", "open"})
                      \/ x \in leaving' \/ control'[x] = "closing" \/ x \in lost'
    BY <1>1 DEF SeatsHaveAPage
  <2>1. page'.open
    BY <1>1, <1>2
  <2>2. \/ page.seat = x \/ x \in Unheard \/ control[x] \in {"connecting", "open"}
        \/ x \in leaving \/ control[x] = "closing" \/ x \in lost
    BY DEF PageInvariant, SeatsHaveAPage
  <2> QED
    BY <1>1, <2>1, <2>2
<1> QED
  BY <1>1, <1>2, <1>4, <1>5, <1>6 DEF PageInvariant

(* As long as nothing that a seat leans on goes away, the invariant stays. *)
LEMMA SameSeatsKeepPage ==
  ASSUME PageInvariant, VoiceTypeOK', page'.seat = page.seat, page'.ctl = page.ctl,
         page'.open = page.open, seats' \subseteq seats,
         \A x \in seats' : control'[x] = control[x],
         \A x \in seats' : /\ x \in leaving => x \in leaving'
                           /\ x \in Unheard => x \in Unheard'
                           /\ x \in lost => x \in lost'
  PROVE  PageInvariant'
<1>1. SeatsHaveAPage'
  <2> SUFFICES ASSUME NEW x \in seats'
               PROVE  \/ page'.open
                          /\ (page'.seat = x \/ x \in Unheard'
                               \/ control'[x] \in {"connecting", "open"})
                      \/ x \in leaving' \/ control'[x] = "closing" \/ x \in lost'
    BY DEF SeatsHaveAPage
  <2> QED
    BY DEF PageInvariant, SeatsHaveAPage
<1> QED
  BY <1>1 DEF PageInvariant

(* Every step of a page, of the messages it has under way and of the       *)
(* object keeps the invariant.                                             *)
LEMMA PageInvariantHolds == VoiceSpec => []PageInvariant
<1>1. VoiceInit => PageInvariant
  <2> SUFFICES ASSUME VoiceInit PROVE PageInvariant
    OBVIOUS
  <2>1. Quiet \in Page /\ NoRun \in Run
    BY DEF Quiet, Page, NoRun, Run, Seat
  <2>2. VoiceTypeOK
    BY <2>1 DEF VoiceInit, VoiceTypeOK
  <2> QED
    BY <2>2 DEF VoiceInit, PageInvariant, SeatsHaveAPage, Quiet
<1>2. PageInvariant /\ [VoiceNext]_voiceVars => PageInvariant'
  <2> SUFFICES ASSUME PageInvariant, [VoiceNext]_voiceVars PROVE PageInvariant'
    OBVIOUS
  <2>1. /\ VoiceTypeOK /\ page \in Page /\ run \in [Runs -> Run]
        /\ seats \subseteq Chairs /\ mic \subseteq seats /\ lost \subseteq seats
        /\ control \in [Chairs -> {"none", "connecting", "failed", "open", "closing"}]
        /\ ended \subseteq Chairs /\ hungup \subseteq Chairs /\ leaving \subseteq Chairs
        /\ page.ctl = page.seat /\ page.seat \in Seat
    BY DEF PageInvariant, VoiceTypeOK, Page
  <2>2. NoRun \in Run
    BY DEF NoRun, Run, Seat
  <2>3. \A r \in Runs : run[r] \in Run /\ run[r].seat \in Seat
    BY <2>1 DEF Run
  \* Only an answer to a join can be unheard; any other turn of a run leaves them alone.
  <2>4. ASSUME NEW r \in Runs, NEW k \in Run, Turn(r, k),
               run[r].at # "join" \/ run[r].reply # "yes"
        PROVE  run' \in [Runs -> Run] /\ Unheard \subseteq Unheard'
    <3>1. run' \in [Runs -> Run] /\ \A q \in Runs : q # r => run'[q] = run[q]
      BY <2>1, <2>4, TurnFacts
    <3> QED
      BY <2>4, <3>1, UnheardFacts
  \* A run that is told keeps no seat, so that it is no answer to a join.
  <2>5. ASSUME NEW r \in Runs, NEW answer \in {"yes", "no", "got"}, Told(r, answer)
        PROVE  /\ run' \in [Runs -> Run] /\ \A q \in Runs : q # r => run'[q] = run[q]
               /\ run[r].at # "join" \/ run[r].reply # "yes" => Unheard \subseteq Unheard'
    <3> DEFINE k == [NoRun EXCEPT !.at = IF answer = "no" THEN "none" ELSE run[r].at,
                                  !.reply = answer]
    <3>1. run[r].at \in {"none", "join", "mic", "listen", "ready"}
      BY <2>3 DEF Run
    <3>2. k \in Run
      BY <2>2, <3>1 DEF Run
    <3>3. Turn(r, k)
      BY <2>5 DEF Told
    <3> HIDE DEF k
    <3> QED
      BY <2>1, <2>4, <3>2, <3>3, TurnFacts
  <2>6. ASSUME NEW r \in Runs, ClickJoin(r) PROVE PageInvariant'
    <3>1. [NoRun EXCEPT !.at = "join", !.reply = "out"] \in Run
      BY <2>2 DEF Run
    <3>2. run' \in [Runs -> Run] /\ Unheard \subseteq Unheard'
      BY <2>4, <2>6, <3>1 DEF ClickJoin, NoRun
    <3>3. /\ page' = [page EXCEPT !.button = FALSE]
          /\ UNCHANGED <<seats, mic, control, ended, hungup, leaving, lost>>
      BY <2>6 DEF ClickJoin
    <3>4. page' \in Page /\ page'.seat = page.seat /\ page'.ctl = page.ctl
          /\ page'.open = page.open
      BY <2>1, <3>3 DEF Page
    <3>5. VoiceTypeOK'
      BY <2>1, <3>2, <3>3, <3>4 DEF VoiceTypeOK
    <3> QED
      BY <3>2, <3>3, <3>4, <3>5, SameSeatsKeepPage
  <2>7. ASSUME NEW r \in Runs, JoinRefused(r) PROVE PageInvariant'
    <3>1. run' \in [Runs -> Run] /\ Unheard \subseteq Unheard'
      BY <2>2, <2>4, <2>7 DEF JoinRefused
    <3>2. /\ page' = [page EXCEPT !.button = TRUE]
          /\ UNCHANGED <<seats, mic, control, ended, hungup, leaving, lost>>
      BY <2>7 DEF JoinRefused
    <3>3. page' \in Page /\ page'.seat = page.seat /\ page'.ctl = page.ctl
          /\ page'.open = page.open
      BY <2>1, <3>2 DEF Page
    <3>4. VoiceTypeOK'
      BY <2>1, <3>1, <3>2, <3>3 DEF VoiceTypeOK
    <3> QED
      BY <3>1, <3>2, <3>3, <3>4, SameSeatsKeepPage
  <2>8. ASSUME NEW r \in Runs, TakesSeat(r) PROVE PageInvariant'
    <3> DEFINE x == run[r].seat
    <3>1. /\ page.open /\ run[r].at = "join" /\ run[r].reply = "yes"
          /\ page' = [page EXCEPT !.seat = x, !.ctl = x]
          /\ control' = [control EXCEPT ![x] = "connecting"]
          /\ Told(r, "got")
          /\ lost' = lost \cup {y \in seats : y = page.seat /\ control[y] = "failed"}
          /\ UNCHANGED <<seats, mic, ended, hungup, leaving>>
      BY <2>8 DEF TakesSeat
    <3>2. x \in Seat
      BY <2>3
    <3>3. run' \in [Runs -> Run] /\ \A q \in Runs : q # r => run'[q] = run[q]
      BY <2>5, <3>1
    <3>4. \A y \in Unheard : y \in Unheard' \/ y = x
      BY <3>3, UnheardFacts
    <3> HIDE DEF x
    <3>5. page' \in Page /\ page'.seat = x /\ page'.ctl = x /\ page'.open
      BY <2>1, <3>1, <3>2 DEF Page
    <3>6. control' \in [Chairs -> {"none", "connecting", "failed", "open", "closing"}]
      BY <2>1, <3>1
    <3>7. VoiceTypeOK'
      BY <2>1, <3>1, <3>3, <3>5, <3>6 DEF VoiceTypeOK
    <3>8. \A y \in Chairs : control'[y] = IF y = x THEN "connecting" ELSE control[y]
      BY <2>1, <3>1
    <3>9. ASSUME NEW y \in seats'
          PROVE  \/ page'.open
                     /\ (page'.seat = y \/ y \in Unheard'
                          \/ control'[y] \in {"connecting", "open"})
                 \/ y \in leaving' \/ control'[y] = "closing" \/ y \in lost'
      <4>1. y \in seats /\ y \in Chairs
        BY <2>1, <3>1, <3>9
      <4>2. CASE y = x
        BY <3>5, <4>2
      <4>3. CASE y # x
        <5>1. control'[y] = control[y]
          BY <3>8, <4>1, <4>3
        <5>2. \/ page.seat = y \/ y \in Unheard \/ control[y] \in {"connecting", "open"}
              \/ y \in leaving \/ control[y] = "closing" \/ y \in lost
          BY <4>1 DEF PageInvariant, SeatsHaveAPage
        <5>3. page.seat = y => control[y] \in {"connecting", "open", "closing"} \/ y \in lost'
          BY <2>1, <3>1, <4>1 DEF PageInvariant
        <5> QED
          BY <3>1, <3>4, <3>5, <4>3, <5>1, <5>2, <5>3
      <4> QED
        BY <4>2, <4>3
    <3>10. \A y \in seats' : page'.seat = y => control'[y] # "none"
      BY <2>1, <3>1, <3>5, <3>8
    <3> QED
      BY <3>5, <3>7, <3>9, <3>10 DEF PageInvariant, SeatsHaveAPage
  <2>9. ASSUME NEW r \in Runs, AsksOn(r) PROVE PageInvariant'
    <3> DEFINE k == [at |-> NextStep[run[r].at], seat |-> page.seat, reply |-> "out"]
    <3>1. /\ HasItsAnswer(r) /\ Turn(r, k)
          /\ UNCHANGED <<page, seats, mic, control, ended, hungup, leaving, lost>>
      BY <2>9 DEF AsksOn
    <3>2. run[r].at \in {"join", "mic", "listen"}
      BY <3>1 DEF HasItsAnswer
    <3>3. NextStep[run[r].at] \in {"mic", "listen", "ready"}
      BY <3>2 DEF NextStep
    <3>4. k \in Run
      BY <2>1, <3>3 DEF Run
    <3> HIDE DEF k
    <3>5. run' \in [Runs -> Run] /\ Unheard \subseteq Unheard'
      BY <2>4, <3>1, <3>4 DEF HasItsAnswer
    <3>6. VoiceTypeOK'
      BY <2>1, <3>1, <3>5 DEF VoiceTypeOK
    <3> QED
      BY <3>1, <3>5, <3>6, SameSeatsKeepPage
  <2>10. ASSUME NEW r \in Runs, Serves(r) PROVE PageInvariant'
    <3>1. /\ run[r].at # "join" /\ run[r].reply = "out"
          /\ IF Admissible(r) THEN Turn(r, [run[r] EXCEPT !.reply = "work"]) ELSE Told(r, "no")
          /\ UNCHANGED <<page, seats, mic, control, ended, hungup, leaving, lost>>
      BY <2>10 DEF Serves
    <3>2. [run[r] EXCEPT !.reply = "work"] \in Run
      BY <2>3 DEF Run
    <3>3. run' \in [Runs -> Run] /\ Unheard \subseteq Unheard'
      BY <2>4, <2>5, <3>1, <3>2
    <3>4. VoiceTypeOK'
      BY <2>1, <3>1, <3>3 DEF VoiceTypeOK
    <3> QED
      BY <3>1, <3>3, <3>4, SameSeatsKeepPage
  <2>11. ASSUME NEW r \in Runs, NEW x \in Chairs, NEW heard \in BOOLEAN, JoinHandled(r, x, heard)
         PROVE  PageInvariant'
    <3> DEFINE k == [run[r] EXCEPT !.seat = x, !.reply = "yes"]
    <3>1. /\ run[r].at = "join" /\ run[r].reply = "out"
          /\ Unused(x) /\ seats' = seats \cup {x}
          /\ IF heard THEN Turn(r, k) ELSE Told(r, "no")
          /\ lost' = IF heard /\ page.open THEN lost ELSE lost \cup {x}
          /\ UNCHANGED <<page, mic, control, ended, hungup, leaving>>
      BY <2>11 DEF JoinHandled
    <3>2. k \in Run /\ k.at = "join" /\ k.seat = x /\ k.reply = "yes"
      BY <2>3, <3>1 DEF Run, Seat
    <3> HIDE DEF k
    <3>3. run' \in [Runs -> Run] /\ Unheard \subseteq Unheard'
      BY <2>4, <2>5, <3>1, <3>2
    <3>4. heard => x \in Unheard'
      <4>1. heard => run'[r] = k
        BY <2>1, <3>1, <3>2, TurnFacts
      <4> QED
        BY <3>2, <4>1 DEF Unheard
    <3>5. VoiceTypeOK'
      BY <2>1, <3>1, <3>3 DEF VoiceTypeOK
    <3>6. x # page.seat
      BY <3>1 DEF Unused
    <3>7. SeatsHaveAPage'
      <4> SUFFICES ASSUME NEW y \in seats'
                   PROVE  \/ page'.open
                              /\ (page'.seat = y \/ y \in Unheard'
                                   \/ control'[y] \in {"connecting", "open"})
                          \/ y \in leaving' \/ control'[y] = "closing" \/ y \in lost'
        BY DEF SeatsHaveAPage
      <4>1. CASE y = x
        BY <3>1, <3>4, <4>1
      <4>2. CASE y # x
        BY <3>1, <3>3, <4>2 DEF PageInvariant, SeatsHaveAPage
      <4> QED
        BY <4>1, <4>2
    <3> QED
      BY <3>1, <3>5, <3>6, <3>7 DEF PageInvariant
  <2>12. ASSUME NEW r \in Runs, NEW heard \in BOOLEAN, SfuAnswers(r, heard)
         PROVE  PageInvariant'
    <3>1. /\ run[r].reply = "work"
          /\ mic' = IF run[r].at = "mic" THEN mic \cup ({run[r].seat} \cap seats) ELSE mic
          /\ Told(r, IF heard THEN "yes" ELSE "no")
          /\ UNCHANGED <<page, seats, control, ended, hungup, leaving, lost>>
      BY <2>12 DEF SfuAnswers
    <3>2. (IF heard THEN "yes" ELSE "no") \in {"yes", "no", "got"}
      OBVIOUS
    <3>3. run' \in [Runs -> Run] /\ Unheard \subseteq Unheard'
      BY <2>5, <3>1, <3>2
    <3>4. VoiceTypeOK'
      BY <2>1, <3>1, <3>3 DEF VoiceTypeOK
    <3> QED
      BY <3>1, <3>3, <3>4, SameSeatsKeepPage
  <2>13. ASSUME NEW r \in Runs, NEW everyone \in BOOLEAN, SfuFails(r, everyone)
         PROVE  PageInvariant'
    <3>1. /\ run[r].reply = "work"
          /\ Dropped(IF everyone THEN seats ELSE {run[r].seat})
          /\ Told(r, "no")
          /\ UNCHANGED <<page, leaving>>
      BY <2>13 DEF SfuFails
    <3>3. run' \in [Runs -> Run] /\ Unheard \subseteq Unheard'
      BY <2>5, <3>1
    <3>4. /\ seats' \subseteq seats /\ mic' \subseteq seats' /\ lost' \subseteq seats'
          /\ \A x \in lost : x \in seats' => x \in lost'
          /\ \A x \in seats' : control'[x] = control[x]
          /\ control' \in [Chairs -> {"none", "connecting", "failed", "open", "closing"}]
          /\ ended' \subseteq Chairs /\ hungup' \subseteq Chairs
      BY <2>1, <3>1, DroppedFacts
    <3>5. VoiceTypeOK'
      BY <2>1, <3>1, <3>3, <3>4 DEF VoiceTypeOK
    <3> QED
      BY <3>1, <3>3, <3>4, <3>5, SameSeatsKeepPage
  <2>14. ASSUME NEW r \in Runs, GoesLive(r) PROVE PageInvariant'
    <3>1. run' \in [Runs -> Run] /\ Unheard \subseteq Unheard'
      BY <2>2, <2>4, <2>14 DEF GoesLive
    <3>2. /\ page' = [page EXCEPT !.live = TRUE, !.button = TRUE]
          /\ UNCHANGED <<seats, mic, control, ended, hungup, leaving, lost>>
      BY <2>14 DEF GoesLive
    <3>3. page' \in Page /\ page'.seat = page.seat /\ page'.ctl = page.ctl
          /\ page'.open = page.open
      BY <2>1, <3>2 DEF Page
    <3>4. VoiceTypeOK'
      BY <2>1, <3>1, <3>2, <3>3 DEF VoiceTypeOK
    <3> QED
      BY <3>1, <3>2, <3>3, <3>4, SameSeatsKeepPage
  <2>15. ASSUME NEW r \in Runs, Throws(r) PROVE PageInvariant'
    <3>1. run[r].at # "join" \/ run[r].reply # "yes"
      BY <2>15 DEF Throws, HasItsAnswer
    <3>2. run' \in [Runs -> Run] /\ Unheard \subseteq Unheard'
      BY <2>2, <2>4, <2>15, <3>1 DEF Throws
    <3> QED
      BY <2>15, <3>2, LeftKeepsPage DEF Throws
  \* The runs stay where they are.
  <2>16. UNCHANGED run => run' \in [Runs -> Run] /\ Unheard' = Unheard
    BY <2>1 DEF Unheard
  <2>17. CASE ClickLeave
    BY <2>16, <2>17, LeftKeepsPage DEF ClickLeave
  <2>18. CASE FireEnds
    <3>1. Dropped(seats) /\ UNCHANGED <<page, run, leaving>>
      BY <2>18 DEF FireEnds
    <3>2. /\ seats' \subseteq seats /\ mic' \subseteq seats' /\ lost' \subseteq seats'
          /\ \A x \in lost : x \in seats' => x \in lost'
          /\ \A x \in seats' : control'[x] = control[x]
          /\ control' \in [Chairs -> {"none", "connecting", "failed", "open", "closing"}]
          /\ ended' \subseteq Chairs /\ hungup' \subseteq Chairs
      BY <2>1, <3>1, DroppedFacts
    <3>3. VoiceTypeOK'
      BY <2>1, <3>1, <3>2 DEF VoiceTypeOK
    <3> QED
      BY <2>16, <3>1, <3>2, <3>3, SameSeatsKeepPage
  <2>19. CASE PageHides
    <3>1. PICK vain \in SUBSET MayBeVain :
            LET untold == vain \cup (seats \ (leaving \cup {page.seat}))
            IN  /\ leaving' = leaving \cup (BeaconFor(page.seat) \ vain)
                /\ lost' = lost \cup (Unheard \cap seats)
                               \cup {x \in untold : control[x] \in {"connecting", "failed"}}
      BY <2>19 DEF PageHides
    <3>10. vain \subseteq seats \cap {page.seat}
      BY DEF MayBeVain
    <3>11. /\ page.open /\ page' = [Quiet EXCEPT !.open = FALSE]
          /\ control' = [x \in Chairs |-> IF control[x] = "open" THEN "closing"
                                          ELSE IF control[x] = "connecting" THEN "none"
                                               ELSE control[x]]
          /\ ended' = {} /\ hungup' = {}
          /\ run' = [r \in Runs |-> IF run[r].reply \in {"out", "work"} THEN run[r] ELSE NoRun]
          /\ UNCHANGED <<seats, mic>>
      BY <2>19 DEF PageHides
    <3>2. page' \in Page /\ page'.seat = NoChair /\ page'.ctl = NoChair
      BY <3>11 DEF Quiet, Page, Seat
    <3>3. BeaconFor(page.seat) = {page.seat} \ {NoChair}
      BY DEF BeaconFor
    <3>4. leaving' \subseteq Chairs /\ leaving \subseteq leaving'
      BY <2>1, <3>1, <3>3 DEF Seat
    <3>5. control' \in [Chairs -> {"none", "connecting", "failed", "open", "closing"}]
      BY <2>1, <3>11
    <3>6. run' \in [Runs -> Run]
      BY <2>1, <2>2, <3>11
    <3>7. VoiceTypeOK'
      <4>1. lost' \subseteq seats /\ mic' \subseteq seats
        BY <2>1, <3>1, <3>10, <3>11
      <4> QED
        BY <2>1, <3>1, <3>11, <3>2, <3>4, <3>5, <3>6, <4>1 DEF VoiceTypeOK
    <3>8. SeatsHaveAPage'
      <4> SUFFICES ASSUME NEW x \in seats
                   PROVE  x \in leaving' \/ control'[x] = "closing" \/ x \in lost'
        BY <3>11 DEF SeatsHaveAPage
      <4>1. \/ page.seat = x \/ x \in Unheard \/ control[x] \in {"connecting", "open"}
            \/ x \in leaving \/ control[x] = "closing" \/ x \in lost
        BY DEF PageInvariant, SeatsHaveAPage
      <4>2. page.seat = x => control[x] # "none"
        BY DEF PageInvariant
      <4>3. x \in Chairs /\ x # NoChair
        BY <2>1, VoicePageAssumption
      <4>4. control[x] \in {"connecting", "failed"} => x \in leaving' \/ x \in lost'
        BY <3>1, <3>3, <4>3
      <4>5. control[x] \in {"open", "closing"} => control'[x] = "closing"
        BY <3>11, <4>3
      <4>6. control[x] \in {"none", "connecting", "failed", "open", "closing"}
        BY <2>1, <4>3
      <4>7. x \in Unheard \cup lost => x \in lost'
        BY <3>1
      <4> QED
        BY <3>4, <4>1, <4>2, <4>4, <4>5, <4>6, <4>7
    <3>9. \A x \in seats' : page'.seat # x
      BY <2>1, <3>11, <3>2, VoicePageAssumption
    <3> QED
      BY <3>2, <3>7, <3>8, <3>9 DEF PageInvariant
  <2>20. ASSUME NEW x \in Chairs, LeaveArrives(x) PROVE PageInvariant'
    <3>1. /\ leaving' = leaving \ {x} /\ Dropped({x}) /\ UNCHANGED <<page, run>>
      BY <2>20 DEF LeaveArrives
    <3>2. /\ seats' \subseteq seats /\ mic' \subseteq seats' /\ lost' \subseteq seats'
          /\ \A y \in lost : y \in seats' => y \in lost'
          /\ \A y \in seats' : control'[y] = control[y]
          /\ control' \in [Chairs -> {"none", "connecting", "failed", "open", "closing"}]
          /\ ended' \subseteq Chairs /\ hungup' \subseteq Chairs
      BY <2>1, <3>1, DroppedFacts
    <3>3. x \notin seats'
      BY <3>1 DEF Dropped
    <3>4. VoiceTypeOK'
      BY <2>1, <3>1, <3>2 DEF VoiceTypeOK
    <3> QED
      BY <2>16, <3>1, <3>2, <3>3, <3>4, SameSeatsKeepPage
  <2>21. ASSUME NEW x \in Chairs, NEW passes \in BOOLEAN,
                ControlConnects(x, passes) \/ ControlBreaks(x)
         PROVE  PageInvariant'
    <3>1. /\ x \in seats => control'[x] \in {"failed", "open", "closing"}
          /\ control' \in [Chairs -> {"none", "connecting", "failed", "open", "closing"}]
          /\ \A y \in Chairs : y # x => control'[y] = control[y]
          /\ hungup' \subseteq Chairs
          /\ control[x] \in {"connecting", "open"}
          /\ control[x] = "open" => control'[x] = "closing"
          /\ UNCHANGED <<page, run, seats, mic, ended, leaving>>
      BY <2>1, <2>21 DEF ControlConnects, ControlBreaks
    <3>2. /\ lost \subseteq lost' /\ lost' \subseteq seats
          /\ x \in seats /\ control'[x] = "failed" => page.seat = x \/ x \in lost'
      BY <2>1, <2>21 DEF ControlConnects, ControlBreaks
    <3>3. VoiceTypeOK'
      BY <2>1, <3>1, <3>2 DEF VoiceTypeOK
    <3>4. SeatsHaveAPage'
      <4> SUFFICES ASSUME NEW y \in seats
                   PROVE  \/ page'.open
                              /\ (page'.seat = y \/ y \in Unheard'
                                   \/ control'[y] \in {"connecting", "open"})
                          \/ y \in leaving' \/ control'[y] = "closing" \/ y \in lost'
        BY <3>1 DEF SeatsHaveAPage
      <4>1. \/ page.open /\ (page.seat = y \/ y \in Unheard
                              \/ control[y] \in {"connecting", "open"})
            \/ y \in leaving \/ control[y] = "closing" \/ y \in lost
        BY DEF PageInvariant, SeatsHaveAPage
      <4>2. CASE y = x
        BY <2>16, <3>1, <3>2, <4>1, <4>2
      <4>3. CASE y # x
        BY <2>1, <2>16, <3>1, <3>2, <4>1, <4>3
      <4> QED
        BY <4>2, <4>3
    <3>5. \A y \in seats' : page'.seat = y => control'[y] # "none"
      BY <2>1, <3>1 DEF PageInvariant
    <3> QED
      BY <2>1, <3>1, <3>3, <3>4, <3>5 DEF PageInvariant
  <2>22. ASSUME NEW x \in Chairs, ControlCloses(x) PROVE PageInvariant'
    <3>1. /\ seats' = seats \ {x} /\ mic' = mic \ {x} /\ lost' = lost \ {x}
          /\ control' = [control EXCEPT ![x] = "none"]
          /\ UNCHANGED <<page, run, ended, hungup, leaving>>
      BY <2>22 DEF ControlCloses
    <3>2. \A y \in seats' : control'[y] = control[y]
      BY <2>1, <3>1
    <3>3. VoiceTypeOK'
      BY <2>1, <3>1 DEF VoiceTypeOK
    <3> QED
      BY <2>16, <3>1, <3>2, <3>3, SameSeatsKeepPage
  <2>23. ASSUME NEW x \in Chairs, HearsEnded(x) PROVE PageInvariant'
    BY <2>16, <2>23, LeftKeepsPage DEF HearsEnded
  <2>24. ASSUME NEW x \in Chairs, HearsClose(x) PROVE PageInvariant'
    <3>1. CASE page.live
      BY <2>16, <2>24, <3>1, LeftKeepsPage DEF HearsClose
    <3>2. CASE ~page.live
      <4>1. /\ hungup' = hungup \ {x}
            /\ UNCHANGED <<run, page, seats, mic, control, ended, leaving, lost>>
        BY <2>24, <3>2 DEF HearsClose
      <4>2. VoiceTypeOK'
        BY <2>1, <4>1 DEF VoiceTypeOK
      <4> QED
        BY <2>16, <4>1, <4>2, SameSeatsKeepPage
    <3> QED
      BY <3>1, <3>2
  <2>25. ASSUME NEW r \in Runs, RequestFails(r) PROVE PageInvariant'
    <3>1. /\ run[r].reply = "out" /\ Told(r, "no")
          /\ UNCHANGED <<page, seats, mic, control, ended, hungup, leaving, lost>>
      BY <2>25 DEF RequestFails
    <3>2. run' \in [Runs -> Run] /\ Unheard \subseteq Unheard'
      BY <2>5, <3>1
    <3>3. VoiceTypeOK'
      BY <2>1, <3>1, <3>2 DEF VoiceTypeOK
    <3> QED
      BY <3>1, <3>2, <3>3, SameSeatsKeepPage
  <2>26. CASE UNCHANGED voiceVars
    <3>1. UNCHANGED <<page, run, seats, mic, control, ended, hungup, leaving, lost>>
      BY <2>26 DEF voiceVars
    <3>2. VoiceTypeOK'
      BY <2>1, <3>1 DEF VoiceTypeOK
    <3> QED
      BY <2>16, <3>1, <3>2, SameSeatsKeepPage
  <2> QED
    BY <2>6, <2>7, <2>8, <2>9, <2>10, <2>11, <2>12, <2>13, <2>14, <2>15, <2>17, <2>18,
       <2>19, <2>20, <2>21, <2>22, <2>23, <2>24, <2>25, <2>26 DEF VoiceNext
<1> QED
  BY <1>1, <1>2, PTL DEF VoiceSpec

(* "Browser gone mid-voice => the seat leaves (no orphaned spend)"         *)
(* (voice-den.js:678), whatever a page does between the awaits of a join   *)
(* and whatever is lost: a seat has a page behind it, or its end is on the *)
(* way, or the one message that told of it was lost: the answer to its join,*)
(* its beacon when it has no socket that closes, or its upgrade, when a    *)
(* newer join takes its place or the page is hidden.                       *)
THEOREM SeatsAlwaysHaveAPage == VoiceSpec => []SeatsHaveAPage
<1>1. PageInvariant => SeatsHaveAPage
  BY DEF PageInvariant
<1> QED
  BY <1>1, PageInvariantHolds, PTL

-----------------------------------------------------------------------------
(* The audio of a fire: the floor.                                         *)

\* Only a cast is mixed, and its audio does not come in messages of its own track.
FloorInvariant ==
  /\ talk.active \in BOOLEAN
  /\ Keeper => ~talk.active
  /\ ~Keeper => arriving = <<>>
  /\ FloorIsHumans

LEMMA EmptyQueueStays ==
  ASSUME NEW p, p.queue = <<>> PROVE Pop(p).queue = <<>>
<1>1. CASE ~Plays(p)
  BY <1>1 DEF Pop
<1>2. CASE Plays(p)
  <2>1. Pop(p) = IF p.underflows = Tolerance THEN Empty
                 ELSE [p EXCEPT !.underflows = @ + 1]
    BY <1>2 DEF Pop
  <2> QED
    BY <2>1 DEF Empty
<1> QED
  BY <1>1, <1>2

(* "While a human holds the floor AI output is flushed and dropped": the   *)
(* mixer's onset flushes the track, and until the release nothing is       *)
(* pushed to it, whatever the legs have queued.                            *)
THEOREM FloorStaysHumans == AudioSpec => []FloorIsHumans
<1>1. AudioInit => FloorInvariant
  BY DEF AudioInit, FloorInvariant, FloorIsHumans, Empty
<1>2. FloorInvariant /\ [AudioNext]_audioVars => FloorInvariant'
  <2> SUFFICES ASSUME FloorInvariant, [AudioNext]_audioVars PROVE FloorInvariant'
    OBVIOUS
  <2>1. /\ talk.active \in BOOLEAN /\ (Keeper => ~talk.active)
        /\ (~Keeper => arriving = <<>>) /\ (talk.active => pacer.queue = <<>>)
    BY DEF FloorInvariant, FloorIsHumans
  <2>2. CASE \/ AudioConverted \/ SpeechStarted
             \/ \E halves \in 1 .. MaxHalves : AudioArrives(halves) \/ AudioDelta(halves)
    <3>1. Keeper /\ Keeper' /\ talk' = talk
      BY <2>1, <2>2 DEF AudioConverted, SpeechStarted, AudioArrives, AudioDelta, Keeper
    <3> QED
      BY <2>1, <3>1 DEF FloorInvariant, FloorIsHumans
  <2>3. CASE \/ \E l \in Legs, frames \in 1 .. (MaxHalves + 1) \div 2 : LegAudio(l, frames)
             \/ \E halves \in 1 .. 3 : UplinkFrame(halves)
             \/ UNCHANGED audioVars
    <3>1. cast' = cast /\ talk' = talk /\ pacer' = pacer /\ arriving' = arriving
      BY <2>3 DEF LegAudio, UplinkFrame, audioVars
    <3> QED
      BY <2>1, <3>1 DEF FloorInvariant, FloorIsHumans, Keeper
  <2>4. ASSUME NEW loud \in BOOLEAN, MixerTick(loud) PROVE FloorInvariant'
    <3>1. CASE Keeper
      BY <2>1, <2>4, <3>1 DEF MixerTick, FloorInvariant, FloorIsHumans, Keeper
    <3>2. CASE ~Keeper
      <4> DEFINE heard == Hears(loud)
                 onset == heard.active /\ ~talk.active
                 track == IF onset THEN Flush(pacer) ELSE pacer
      <4>1. PICK sounds \in BOOLEAN :
              /\ sounds => AiMaySpeak(heard)
              /\ pacer' = IF sounds THEN Push(track, <<0>>) ELSE track
        <5> DEFINE queues == IF onset THEN [l \in Legs |-> Flush(legPacer[l])] ELSE legPacer
                   sounds == AiMaySpeak(heard) /\ \E l \in Legs : Sounds(queues[l])
        <5>1. pacer' = IF sounds THEN Push(track, <<0>>) ELSE track
          BY <2>4, <3>2 DEF MixerTick
        <5>2. sounds \in BOOLEAN /\ (sounds => AiMaySpeak(heard))
          OBVIOUS
        <5> HIDE DEF sounds, heard, track
        <5> QED
          BY <5>1, <5>2
      <4>2. talk' = heard /\ UNCHANGED <<cast, arriving>>
        BY <2>4, <3>2 DEF MixerTick
      <4>3. heard.active \in BOOLEAN
        BY DEF Hears
      <4>4. ASSUME heard.active PROVE pacer'.queue = <<>>
        <5>1. pacer' = track
          BY <4>1, <4>4 DEF AiMaySpeak
        <5> QED
          BY <2>1, <4>4, <5>1 DEF Flush, Empty
      <4> QED
        BY <2>1, <3>2, <4>2, <4>3, <4>4 DEF FloorInvariant, FloorIsHumans, Keeper
    <3> QED
      BY <3>1, <3>2
  <2>5. ASSUME NEW track \in BOOLEAN, NEW ear \in BOOLEAN, PacerTick(track, ear)
        PROVE  FloorInvariant'
    <3>1. pacer' \in {pacer, Pop(pacer)} /\ UNCHANGED <<cast, arriving, talk>>
      BY <2>5 DEF PacerTick
    <3> QED
      BY <2>1, <3>1, EmptyQueueStays DEF FloorInvariant, FloorIsHumans, Keeper
  <2> QED
    BY <2>2, <2>3, <2>4, <2>5 DEF AudioNext
<1>3. FloorInvariant => FloorIsHumans
  BY DEF FloorInvariant
<1> QED
  BY <1>1, <1>2, <1>3, PTL DEF AudioSpec

-----------------------------------------------------------------------------
(* The audio of a fire: counting.                                          *)

(* A half of a chunk is its chunk's number and its own in it.              *)
LEMMA HalvesAre ==
  ASSUME NEW c \in Seq(Nat)
  PROVE  /\ Halves(c) = {p \in (1 .. Len(c)) \X (Nat \ {0}) : p[2] <= c[p[1]]}
         /\ IsFiniteSet(Halves(c)) /\ Total(c) \in Nat
<1>1. DOMAIN c = 1 .. Len(c) /\ Len(c) \in Nat /\ \A i \in 1 .. Len(c) : c[i] \in Nat
  OBVIOUS
<1> DEFINE T == {p \in (1 .. Len(c)) \X (Nat \ {0}) : p[2] <= c[p[1]]}
<1>2. ASSUME NEW p \in Halves(c) PROVE p \in T
  <2>1. PICK i \in 1 .. Len(c) : p \in {i} \X (1 .. c[i])
    BY <1>1, <1>2 DEF Halves
  <2>2. p = <<p[1], p[2]>> /\ p[1] = i /\ p[2] \in 1 .. c[i]
    BY <2>1
  <2>3. p[2] \in Nat \ {0} /\ p[2] <= c[i]
    BY <1>1, <2>2
  <2> QED
    BY <2>2, <2>3
<1>3. ASSUME NEW p \in T PROVE p \in Halves(c)
  <2>1. p = <<p[1], p[2]>> /\ p[1] \in 1 .. Len(c) /\ p[2] \in 1 .. c[p[1]]
    BY <1>1
  <2>2. p \in {p[1]} \X (1 .. c[p[1]])
    BY <2>1
  <2> QED
    BY <1>1, <2>1, <2>2 DEF Halves
<1>4. Halves(c) = T
  BY <1>2, <1>3
<1>5. IsFiniteSet(Halves(c))
  <2> DEFINE f == [i \in 1 .. Len(c) |-> {i} \X (1 .. c[i])]
             P == {{i} \X (1 .. c[i]) : i \in 1 .. Len(c)}
  <2>1. IsFiniteSet(1 .. Len(c))
    BY <1>1, FS_Interval
  <2>2. f \in Surjection(1 .. Len(c), P)
    BY DEF Surjection
  <2>3. ASSUME NEW i \in 1 .. Len(c) PROVE IsFiniteSet({i} \X (1 .. c[i]))
    <3>1. IsFiniteSet({i})
      BY FS_Singleton
    <3>2. c[i] \in Int
      BY <1>1
    <3>3. IsFiniteSet(1 .. c[i])
      BY <3>2, FS_Interval
    <3> QED
      BY <3>1, <3>3, FS_Product
  <2>4. \A Q \in P : IsFiniteSet(Q)
    BY <2>3
  <2>5. Halves(c) = UNION P
    BY <1>1 DEF Halves
  <2> HIDE DEF f, P
  <2>6. IsFiniteSet(P)
    BY <2>1, <2>2, FS_Surjection
  <2> QED
    BY <2>4, <2>5, <2>6, FS_UNION
<1> QED
  BY <1>4, <1>5, FS_CardinalityType DEF Total

(* The total of a sequence is that of its beginning and that of its end.   *)
LEMMA TotalSplit ==
  ASSUME NEW c \in Seq(Nat), NEW n \in 0 .. Len(c)
  PROVE  /\ SubSeq(c, 1, n) \in Seq(Nat) /\ Len(SubSeq(c, 1, n)) = n
         /\ SubSeq(c, n + 1, Len(c)) \in Seq(Nat)
         /\ Len(SubSeq(c, n + 1, Len(c))) = Len(c) - n
         /\ Total(c) = Total(SubSeq(c, 1, n)) + Total(SubSeq(c, n + 1, Len(c)))
<1> DEFINE a == SubSeq(c, 1, n)
           z == SubSeq(c, n + 1, Len(c))
           A == {p \in Halves(c) : p[1] <= n}
           Z == {p \in Halves(c) : p[1] > n}
<1>1. Len(c) \in Nat /\ n \in Nat /\ \A i \in 1 .. Len(c) : c[i] \in Nat
  OBVIOUS
<1>2. a \in Seq(Nat) /\ Len(a) = n /\ \A i \in 1 .. n : a[i] = c[i]
  <2>1. /\ a \in Seq(Nat) /\ Len(a) = IF 1 <= n THEN n - 1 + 1 ELSE 0
        /\ \A i \in 1 .. n - 1 + 1 : a[i] = c[1 + i - 1]
    <3>1. 1 \in Int /\ n \in Int /\ \A i \in 1 .. n : c[i] \in Nat
      BY <1>1
    <3> QED
      BY <3>1, SubSeqProperties, SMT
  <2> HIDE DEF a
  <2> QED
    BY <1>1, <2>1
<1>3. z \in Seq(Nat) /\ Len(z) = Len(c) - n /\ \A i \in 1 .. Len(c) - n : z[i] = c[i + n]
  <2>1. /\ z \in Seq(Nat)
        /\ Len(z) = IF n + 1 <= Len(c) THEN Len(c) - (n + 1) + 1 ELSE 0
        /\ \A i \in 1 .. Len(c) - (n + 1) + 1 : z[i] = c[(n + 1) + i - 1]
    <3>1. n + 1 \in Int /\ Len(c) \in Int /\ \A i \in n + 1 .. Len(c) : c[i] \in Nat
      BY <1>1
    <3> QED
      BY <3>1, SubSeqProperties, SMT
  <2> HIDE DEF z
  <2> QED
    BY <1>1, <2>1
<1> HIDE DEF a, z
<1>4. /\ Halves(c) = {p \in (1 .. Len(c)) \X (Nat \ {0}) : p[2] <= c[p[1]]}
      /\ Halves(a) = {p \in (1 .. n) \X (Nat \ {0}) : p[2] <= a[p[1]]}
      /\ Halves(z) = {p \in (1 .. Len(c) - n) \X (Nat \ {0}) : p[2] <= z[p[1]]}
      /\ IsFiniteSet(Halves(c)) /\ IsFiniteSet(Halves(z))
  BY <1>2, <1>3, HalvesAre
<1>5. Halves(a) = A
  <2>1. ASSUME NEW p \in Halves(a) PROVE p \in A
    <3>1. p \in (1 .. n) \X (Nat \ {0}) /\ p[2] <= a[p[1]]
      BY <1>4, <2>1
    <3>2. p[1] \in 1 .. n /\ p[1] \in 1 .. Len(c) /\ p[1] <= n
      BY <1>1, <3>1
    <3>3. p \in (1 .. Len(c)) \X (Nat \ {0})
      BY <3>1, <3>2
    <3> QED
      BY <1>2, <1>4, <3>1, <3>2, <3>3
  <2>2. ASSUME NEW p \in A PROVE p \in Halves(a)
    <3>1. p \in (1 .. Len(c)) \X (Nat \ {0}) /\ p[2] <= c[p[1]] /\ p[1] <= n
      BY <1>4, <2>2
    <3>2. p[1] \in 1 .. n
      BY <1>1, <3>1
    <3>3. p \in (1 .. n) \X (Nat \ {0})
      BY <3>1, <3>2
    <3> QED
      BY <1>2, <1>4, <3>1, <3>2, <3>3
  <2> QED
    BY <2>1, <2>2
<1>6. Cardinality(Z) = Cardinality(Halves(z))
  <2> DEFINE f == [p \in Halves(z) |-> <<p[1] + n, p[2]>>]
  <2>1. ASSUME NEW p \in Halves(z)
        PROVE  /\ f[p] \in Z /\ f[p][1] = p[1] + n /\ f[p][2] = p[2]
               /\ p = <<p[1], p[2]>> /\ p[1] \in Nat
    <3>1. p \in (1 .. Len(c) - n) \X (Nat \ {0}) /\ p[2] <= z[p[1]]
      BY <1>4, <2>1
    <3>2. /\ p[1] \in 1 .. Len(c) - n /\ p[1] + n \in 1 .. Len(c) /\ p[1] + n > n
          /\ p[2] \in Nat \ {0} /\ p = <<p[1], p[2]>>
      BY <1>1, <3>1
    <3>3. p[2] <= c[p[1] + n]
      BY <1>3, <3>1, <3>2
    <3>4. f[p] = <<p[1] + n, p[2]>>
      BY <2>1
    <3> HIDE DEF f
    <3> QED
      BY <1>4, <3>2, <3>3, <3>4
  <2>2. ASSUME NEW q \in Z PROVE \E p \in Halves(z) : f[p] = q
    <3>1. q \in (1 .. Len(c)) \X (Nat \ {0}) /\ q[2] <= c[q[1]] /\ q[1] > n
      BY <1>4, <2>2
    <3> DEFINE i == q[1] - n
    <3>2. /\ i \in 1 .. Len(c) - n /\ i + n = q[1]
          /\ q[2] \in Nat \ {0} /\ q = <<q[1], q[2]>>
      BY <1>1, <3>1
    <3> HIDE DEF i
    <3>3. <<i, q[2]>> \in Halves(z)
      BY <1>3, <1>4, <3>1, <3>2
    <3>4. f[<<i, q[2]>>] = <<i + n, q[2]>>
      BY <3>3
    <3> QED
      BY <3>2, <3>3, <3>4
  <2>3. ASSUME NEW p \in Halves(z), NEW q \in Halves(z), f[p] = f[q] PROVE p = q
    <3> HIDE DEF f
    <3>1. p[1] + n = q[1] + n /\ p[2] = q[2]
      BY <2>1, <2>3
    <3>2. p[1] = q[1]
      BY <1>1, <2>1, <3>1
    <3> QED
      BY <2>1, <3>1, <3>2
  <2>4. f \in [Halves(z) -> Z]
    BY <2>1
  <2> HIDE DEF f
  <2>5. f \in Bijection(Halves(z), Z)
    BY <2>2, <2>3, <2>4 DEF Bijection, Injection, Surjection, IsInjective
  <2> QED
    BY <1>4, <2>5, FS_Bijection DEF ExistsBijection
<1>7. Cardinality(Halves(c)) = Cardinality(A) + Cardinality(Z)
  <2>1. IsFiniteSet(A) /\ IsFiniteSet(Z)
    BY <1>4, FS_Subset
  <2>2. A \cap Z = {} /\ A \cup Z = Halves(c)
    <3>1. \A p \in Halves(c) : p[1] \in Nat
      BY <1>1, <1>4
    <3> QED
      BY <1>1, <3>1
  <2>3. Cardinality(A \cup Z) = Cardinality(A) + Cardinality(Z) - Cardinality(A \cap Z)
    BY <2>1, FS_Union
  <2>4. Cardinality(A) \in Nat /\ Cardinality(Z) \in Nat
    BY <2>1, FS_CardinalityType
  <2> HIDE DEF A, Z
  <2>5. Cardinality(A \cap Z) = 0
    BY <2>2, FS_EmptySet
  <2>6. Cardinality(A \cup Z) = Cardinality(Halves(c))
    BY <2>2
  <2> QED
    BY <2>3, <2>4, <2>5, <2>6
<1> QED
  BY <1>2, <1>3, <1>5, <1>6, <1>7 DEF Total, a, z

(* A chunk holds its halves; no chunk holds none.                          *)
LEMMA TotalOfOne ==
  /\ <<>> \in Seq(Nat) /\ Total(<<>>) = 0
  /\ \A h \in Nat : <<h>> \in Seq(Nat) /\ Total(<<h>>) = h
<1>1. <<>> \in Seq(Nat)
  OBVIOUS
<1>2. Halves(<<>>) = {}
  BY DEF Halves
<1>3. ASSUME NEW h \in Nat PROVE <<h>> \in Seq(Nat) /\ Total(<<h>>) = h
  <2>1. <<h>> \in Seq(Nat) /\ DOMAIN <<h>> = {1} /\ <<h>>[1] = h
    OBVIOUS
  <2>2. Halves(<<h>>) = {1} \X (1 .. h)
    BY <2>1 DEF Halves
  <2>3. IsFiniteSet({1}) /\ Cardinality({1}) = 1
    BY FS_Singleton
  <2>4. IsFiniteSet(1 .. h) /\ Cardinality(1 .. h) = h
    <3>1. IsFiniteSet(1 .. h) /\ Cardinality(1 .. h) = IF 1 > h THEN 0 ELSE h - 1 + 1
      BY FS_Interval
    <3> QED
      BY <3>1
  <2>5. Cardinality({1} \X (1 .. h)) = 1 * h
    BY SMTT(30), <2>3, <2>4, FS_Product
  <2>6. 1 * h = h
    OBVIOUS
  <2>7. Total(<<h>>) = Cardinality({1} \X (1 .. h))
    BY <2>2 DEF Total
  <2> QED
    BY <2>1, <2>5, <2>6, <2>7
<1> QED
  BY <1>1, <1>2, <1>3, FS_EmptySet DEF Total

(* ... and a chunk at either end adds them.                                *)
LEMMA TotalWithOneMore ==
  ASSUME NEW c \in Seq(Nat), NEW h \in Nat
  PROVE  /\ Append(c, h) \in Seq(Nat) /\ Len(Append(c, h)) = Len(c) + 1
         /\ Total(Append(c, h)) = Total(c) + h
         /\ <<h>> \o c \in Seq(Nat) /\ Len(<<h>> \o c) = Len(c) + 1
         /\ Total(<<h>> \o c) = h + Total(c)
<1> DEFINE d == Append(c, h)
           e == <<h>> \o c
<1>1. c \in Seq(Nat) /\ Len(c) \in Nat
  OBVIOUS
<1>2. /\ d \in Seq(Nat) /\ Len(d) = Len(c) + 1 /\ d[Len(c) + 1] = h
      /\ \A i \in 1 .. Len(c) : d[i] = c[i]
  BY <1>1, AppendProperties
<1>3. <<h>> \in Seq(Nat) /\ Len(<<h>>) = 1 /\ <<h>>[1] = h
  OBVIOUS
<1>4. /\ e \in Seq(Nat) /\ Len(e) = 1 + Len(c) /\ e[1] = h
      /\ \A i \in 1 .. Len(c) : e[i + 1] = c[i]
  <2>1. /\ e \in Seq(Nat) /\ Len(e) = 1 + Len(c)
        /\ \A i \in 1 .. 1 + Len(c) : e[i] = IF i <= 1 THEN <<h>>[i] ELSE c[i - 1]
    BY <1>1, <1>3, ConcatProperties
  <2> HIDE DEF e
  <2>2. ASSUME NEW i \in 1 .. Len(c) PROVE e[i + 1] = c[i]
    <3>1. i + 1 \in 1 .. 1 + Len(c) /\ ~(i + 1 <= 1) /\ (i + 1) - 1 = i
      BY <1>1
    <3> QED
      BY <2>1, <3>1
  <2>3. e[1] = h
    BY <1>1, <1>3, <2>1
  <2> QED
    BY <2>1, <2>2, <2>3
<1> HIDE DEF d, e
<1>5. d \in Seq(Nat) /\ e \in Seq(Nat)
  BY <1>2, <1>4
<1>6. Total(d) = Total(c) + h
  <2> DEFINE n == Len(c)
             a == SubSeq(d, 1, n)
             z == SubSeq(d, n + 1, Len(d))
  <2>1. n \in 0 .. Len(d) /\ Len(d) = n + 1
    BY <1>1, <1>2
  <2>2. /\ a \in Seq(Nat) /\ Len(a) = n /\ z \in Seq(Nat) /\ Len(z) = Len(d) - n
        /\ Total(d) = Total(a) + Total(z)
    <3> HIDE DEF n
    <3> QED
      BY <1>5, <2>1, TotalSplit
  <2>3. \A i \in 1 .. n : a[i] = d[i]
    BY <1>1, <1>2
  <2>4. z[1] = d[n + 1]
    BY <1>1, <1>2
  <2> HIDE DEF a, z
  <2>5. a = c
    BY <1>1, <1>2, <2>2, <2>3, SeqEqual
  <2>6. z = <<h>>
    <3>1. Len(z) = 1 /\ z \in Seq(Nat)
      BY <1>1, <2>1, <2>2
    <3>2. \A i \in 1 .. Len(z) : z[i] = <<h>>[i]
      BY <1>2, <1>3, <2>4, <3>1
    <3> QED
      BY <1>3, <3>1, <3>2, SeqEqual
  <2> QED
    BY <2>2, <2>5, <2>6, TotalOfOne
<1>7. Total(e) = h + Total(c)
  <2> DEFINE n == 1
             a == SubSeq(e, 1, n)
             z == SubSeq(e, n + 1, Len(e))
  <2>1. n \in 0 .. Len(e) /\ n = 1
    BY <1>1, <1>4
  <2>2. \A i \in 1 .. Len(c) : z[i] = e[i + 1]
    BY <1>1, <1>4
  <2>3. a[1] = e[1]
    BY <1>1, <1>4
  <2> HIDE DEF n
  <2>4. /\ a \in Seq(Nat) /\ Len(a) = n /\ z \in Seq(Nat) /\ Len(z) = Len(e) - n
        /\ Total(e) = Total(a) + Total(z)
    BY <1>5, <2>1, TotalSplit
  <2> HIDE DEF a, z
  <2>5. a = <<h>>
    <3>1. \A i \in 1 .. Len(a) : a[i] = <<h>>[i]
      BY <1>3, <1>4, <2>1, <2>3, <2>4
    <3> QED
      BY <1>3, <2>1, <2>4, <3>1, SeqEqual
  <2>6. z = c
    <3>1. Len(z) = Len(c)
      BY <1>1, <1>4, <2>1, <2>4
    <3> QED
      BY <1>1, <1>4, <2>2, <2>4, <3>1, SeqEqual
  <2> QED
    BY <2>4, <2>5, <2>6, TotalOfOne
<1> QED
  BY <1>2, <1>4, <1>5, <1>6, <1>7 DEF d, e

-----------------------------------------------------------------------------
(* The audio of a fire: barge-in.                                          *)

\* The messages of xAI, of any length: the halves of one have one label.
Messages == {[i \in 1 .. h |-> c] : h \in Nat \ {0}, c \in Nat}
Carries == {<<>>} \cup {<<e>> : e \in Nat}

Queues == [queue : Seq(Nat), started : BOOLEAN, underflows : Nat]

\* What is older than the barge-in b: of a queue, and whether the first of s is; and the
\* frames to come of a message, and of each that is being converted.
Older(s, b) == {i \in DOMAIN s : s[i] < b}
Aged(s, b) == IF s # <<>> /\ s[1] < b THEN 1 ELSE 0
Weight(m, b) == IF m[1] < b THEN (Len(m) + 1) \div 2 ELSE 0
OldFrames(a, b) == [i \in 1 .. Len(a) |-> Weight(a[i], b)]

\* A frame that is older than the barge-in is played, in the queue, or to come of a message
\* or of the half that the chunker keeps.
BargeInInvariant ==
  /\ bargeIns \in Nat /\ late \in Nat /\ stale \in Nat
  /\ arriving \in Seq(Messages) /\ carry \in Carries
  /\ pacer \in Queues
  /\ \A i \in 1 .. Len(arriving) : arriving[i][1] <= bargeIns
  /\ ~Keeper => bargeIns = 0 /\ stale = 0 /\ arriving = <<>>
  /\ stale + Cardinality(Older(pacer.queue, bargeIns))
       + Total(OldFrames(arriving, bargeIns)) + Aged(carry, bargeIns) <= late + 1

(* A message has a length, and one label.                                  *)
LEMMA MessageFacts ==
  ASSUME NEW m \in Messages
  PROVE  /\ m \in Seq(Nat) /\ Len(m) \in Nat \ {0} /\ m[1] \in Nat
         /\ \A i \in 1 .. Len(m) : m[i] = m[1]
         /\ \A b \in Nat : Weight(m, b) \in Nat
<1>1. PICK h \in Nat \ {0}, c \in Nat : m = [i \in 1 .. h |-> c]
  BY DEF Messages
<1>2. m \in Seq(Nat) /\ DOMAIN m = 1 .. h
  BY <1>1
<1>3. Len(m) = h
  BY <1>2
<1>4. 1 \in 1 .. h /\ \A i \in 1 .. h : m[i] = c
  BY <1>1
<1>5. (h + 1) \div 2 \in Nat
  OBVIOUS
<1> QED
  BY <1>2, <1>3, <1>4, <1>5 DEF Weight

LEMMA MessagesAre ==
  ASSUME NEW h \in Nat \ {0}, bargeIns \in Nat
  PROVE  Said(h) \in Messages /\ Said(h)[1] = bargeIns
<1>1. \A l \in Nat \ {0}, c \in Nat : [i \in 1 .. l |-> c] \in Messages
  BY DEF Messages
<1>2. 1 \in 1 .. h
  OBVIOUS
<1> QED
  BY <1>1, <1>2 DEF Said

(* Positions that are moved to the front by k are no more than they were,  *)
(* and fewer if the first one has gone.                                    *)
LEMMA Shifted ==
  ASSUME NEW n \in Nat, NEW S \in SUBSET (1 .. n), NEW k \in Nat,
         NEW T \in SUBSET (Nat \ {0}), \A i \in T : i + k \in S
  PROVE  /\ Cardinality(T) \in Nat /\ Cardinality(S) \in Nat
         /\ Cardinality(T) <= Cardinality(S)
         /\ k > 0 /\ 1 \in S => Cardinality(T) + 1 <= Cardinality(S)
<1>1. IsFiniteSet(S) /\ Cardinality(S) \in Nat
  <2>1. IsFiniteSet(1 .. n)
    BY FS_Interval
  <2> QED
    BY <2>1, FS_Subset, FS_CardinalityType
<1> DEFINE R == IF k > 0 THEN S \ {1} ELSE S
           f == [i \in T |-> i + k]
<1>2. IsFiniteSet(R)
  BY <1>1, FS_Subset
<1>3. f \in Injection(T, R)
  <2>1. \A i \in T : i + k \in R
    OBVIOUS
  <2>2. f \in [T -> R]
    BY <2>1
  <2>3. \A i, j \in T : f[i] = f[j] => i = j
    OBVIOUS
  <2> QED
    BY <2>2, <2>3 DEF Injection, IsInjective
<1> HIDE DEF f, R
<1>4. IsFiniteSet(T) /\ Cardinality(T) <= Cardinality(R)
  BY <1>2, <1>3, FS_Injection
<1>5. Cardinality(T) \in Nat /\ Cardinality(R) \in Nat
  BY <1>2, <1>4, FS_CardinalityType
<1>6. CASE k > 0 /\ 1 \in S
  <2>1. Cardinality(R) = Cardinality(S) - 1
    BY <1>1, <1>6, FS_RemoveElement DEF R
  <2> QED
    BY <1>1, <1>4, <1>5, <2>1
<1>7. CASE ~(k > 0 /\ 1 \in S)
  <2>1. R = S
    BY <1>7 DEF R
  <2> QED
    BY <1>1, <1>4, <1>5, <1>7, <2>1
<1> QED
  BY <1>6, <1>7

LEMMA OlderIsFinite ==
  ASSUME NEW s \in Seq(Nat), NEW b \in Nat
  PROVE  Older(s, b) \subseteq 1 .. Len(s) /\ Cardinality(Older(s, b)) \in Nat
<1>1. Older(s, b) \subseteq 1 .. Len(s)
  BY DEF Older
<1>2. IsFiniteSet(1 .. Len(s))
  BY FS_Interval
<1> QED
  BY <1>1, <1>2, FS_Subset, FS_CardinalityType

(* The end of a queue has no more old frames than the queue.               *)
LEMMA OlderInSuffix ==
  ASSUME NEW s \in Seq(Nat), NEW b \in Nat, NEW k \in 0 .. Len(s)
  PROVE  Cardinality(Older(SubSeq(s, k + 1, Len(s)), b)) <= Cardinality(Older(s, b))
<1> DEFINE t == SubSeq(s, k + 1, Len(s))
<1>1. /\ DOMAIN t = 1 .. Len(s) - k /\ \A i \in 1 .. Len(s) - k : t[i] = s[i + k]
      /\ \A i \in 1 .. Len(s) - k : i + k \in 1 .. Len(s)
  OBVIOUS
<1> HIDE DEF t
<1>2. Older(s, b) \in SUBSET (1 .. Len(s)) /\ Len(s) \in Nat /\ k \in Nat
  BY OlderIsFinite
<1>3. /\ Older(t, b) \in SUBSET (Nat \ {0})
      /\ \A i \in Older(t, b) : i + k \in Older(s, b)
  BY SMTT(30), <1>1 DEF Older
<1> QED
  BY <1>2, <1>3, Shifted DEF t

(* What is played leaves the queue.                                        *)
LEMMA OlderInTail ==
  ASSUME NEW s \in Seq(Nat), s # <<>>, NEW b \in Nat
  PROVE  Cardinality(Older(Tail(s), b)) + Aged(s, b) <= Cardinality(Older(s, b))
<1> DEFINE t == Tail(s)
<1>1. /\ Len(s) \in Nat /\ Len(s) > 0
      /\ DOMAIN t = 1 .. Len(s) - 1 /\ \A i \in 1 .. Len(s) - 1 : t[i] = s[i + 1]
      /\ DOMAIN s = 1 .. Len(s)
  OBVIOUS
<1> HIDE DEF t
<1>2. Older(s, b) \in SUBSET (1 .. Len(s))
  BY OlderIsFinite
<1>3. /\ Older(t, b) \in SUBSET (Nat \ {0})
      /\ \A i \in Older(t, b) : i + 1 \in Older(s, b)
  BY <1>1 DEF Older
<1>4. /\ Cardinality(Older(t, b)) \in Nat /\ Cardinality(Older(s, b)) \in Nat
      /\ Cardinality(Older(t, b)) <= Cardinality(Older(s, b))
      /\ 1 \in Older(s, b) => Cardinality(Older(t, b)) + 1 <= Cardinality(Older(s, b))
  <2> DEFINE k == 1
  <2>1. k \in Nat /\ k > 0 /\ \A i \in Older(t, b) : i + k \in Older(s, b)
    BY <1>3
  <2> HIDE DEF k
  <2> QED
    BY <1>1, <1>2, <1>3, <2>1, Shifted
<1>5. s[1] < b <=> 1 \in Older(s, b)
  BY <1>1 DEF Older
<1> QED
  BY <1>4, <1>5 DEF Aged, t

(* Frames that are pushed are old or not.                                  *)
LEMMA OlderConcat ==
  ASSUME NEW s \in Seq(Nat), NEW t \in Seq(Nat), NEW b \in Nat
  PROVE  Cardinality(Older(s \o t, b)) <= Cardinality(Older(s, b)) + Cardinality(Older(t, b))
<1> DEFINE n == Len(s)
           A == Older(s, b)
           Z == {i \in Older(s \o t, b) : i > n}
<1>1. n \in Nat /\ DOMAIN s = 1 .. n /\ Len(t) \in Nat /\ DOMAIN t = 1 .. Len(t)
  BY LenProperties
<1>2. /\ DOMAIN (s \o t) = 1 .. n + Len(t)
      /\ \A i \in 1 .. n : (s \o t)[i] = s[i]
      /\ \A i \in 1 .. n + Len(t) : i > n => (s \o t)[i] = t[i - n]
  <2>1. /\ s \o t \in Seq(Nat) /\ Len(s \o t) = n + Len(t)
        /\ \A i \in 1 .. n + Len(t) :
             (s \o t)[i] = IF i <= n THEN s[i] ELSE t[i - n]
    BY ConcatProperties
  <2>2. DOMAIN (s \o t) = 1 .. n + Len(t)
    BY <2>1, LenProperties
  <2> HIDE DEF n
  <2>3. \A i \in 1 .. n : i \in 1 .. n + Len(t) /\ i <= n
    BY <1>1
  <2>4. \A i \in 1 .. n + Len(t) : i > n => ~(i <= n)
    BY <1>1
  <2> QED
    BY <2>1, <2>2, <2>3, <2>4
<1> HIDE DEF n
<1>3. Older(s \o t, b) = A \cup Z
  <2>1. \A i \in 1 .. n + Len(t) : i > n \/ i \in 1 .. n
    BY <1>1
  <2>2. \A i \in 1 .. n : i \in 1 .. n + Len(t)
    BY <1>1
  <2> QED
    BY <1>1, <1>2, <2>1, <2>2 DEF Older
<1>4. IsFiniteSet(A) /\ IsFiniteSet(Older(t, b))
  <2>1. IsFiniteSet(1 .. Len(s)) /\ IsFiniteSet(1 .. Len(t))
    BY FS_Interval
  <2> QED
    BY <2>1, OlderIsFinite, FS_Subset
<1>5. IsFiniteSet(Z) /\ Cardinality(Z) <= Cardinality(Older(t, b))
  <2> DEFINE f == [i \in Z |-> i - n]
  <2>1. ASSUME NEW i \in Z PROVE i \in Nat /\ f[i] = i - n /\ i - n \in Older(t, b)
    <3>1. i \in 1 .. n + Len(t) /\ i > n /\ (s \o t)[i] < b
      BY <1>2 DEF Older
    <3>2. i - n \in 1 .. Len(t)
      BY <1>1, <3>1
    <3>3. t[i - n] < b
      BY <1>2, <3>1
    <3> QED
      BY <1>1, <3>1, <3>2, <3>3 DEF Older
  <2>2. f \in [Z -> Older(t, b)]
    BY <2>1
  <2>3. \A i, j \in Z : f[i] = f[j] => i = j
    <3> HIDE DEF f
    <3> QED
      BY <1>1, <2>1
  <2>4. f \in Injection(Z, Older(t, b))
    BY <2>2, <2>3 DEF Injection, IsInjective
  <2> HIDE DEF f
  <2> QED
    BY <1>4, <2>4, FS_Injection
<1>6. Cardinality(A \cup Z) = Cardinality(A) + Cardinality(Z) - Cardinality(A \cap Z)
  BY <1>4, <1>5, FS_Union
<1>7. /\ Cardinality(A) \in Nat /\ Cardinality(Z) \in Nat /\ Cardinality(A \cap Z) \in Nat
      /\ Cardinality(Older(t, b)) \in Nat
  <2>1. IsFiniteSet(A \cap Z)
    BY <1>4, FS_Subset
  <2> QED
    BY <1>4, <1>5, <2>1, FS_CardinalityType
<1> HIDE DEF A, Z
<1>8. Cardinality(A \cup Z) <= Cardinality(A) + Cardinality(Older(t, b))
  BY <1>5, <1>6, <1>7
<1> QED
  BY <1>3, <1>8 DEF A

(* What is to come of the messages that are being converted.               *)
LEMMA OldFramesFacts ==
  ASSUME NEW a \in Seq(Messages), NEW b \in Nat
  PROVE  /\ OldFrames(a, b) \in Seq(Nat) /\ Total(OldFrames(a, b)) \in Nat
         /\ \A m \in Messages :
              m[1] = b => Total(OldFrames(Append(a, m), b)) = Total(OldFrames(a, b))
         /\ a # <<>> => Total(OldFrames(a, b))
                          = Weight(Head(a), b) + Total(OldFrames(Tail(a), b))
         /\ (\A i \in 1 .. Len(a) : a[i][1] < b) => Total(OldFrames(a, b)) = FramesOf(a)
<1>1. Len(a) \in Nat /\ \A i \in 1 .. Len(a) : a[i] \in Messages
  OBVIOUS
<1>2. ASSUME NEW s \in Seq(Messages)
      PROVE  /\ OldFrames(s, b) \in Seq(Nat) /\ Len(OldFrames(s, b)) = Len(s)
             /\ \A i \in 1 .. Len(s) : OldFrames(s, b)[i] = Weight(s[i], b)
  <2>1. Len(s) \in Nat /\ \A i \in 1 .. Len(s) : Weight(s[i], b) \in Nat
    <3>1. Len(s) \in Nat /\ \A i \in 1 .. Len(s) : s[i] \in Messages
      OBVIOUS
    <3> QED
      BY <3>1, MessageFacts
  <2>2. OldFrames(s, b) \in Seq(Nat) /\ DOMAIN OldFrames(s, b) = 1 .. Len(s)
    BY <2>1 DEF OldFrames
  <2>3. Len(OldFrames(s, b)) = Len(s)
    BY <2>1, <2>2
  <2> QED
    BY <2>2, <2>3 DEF OldFrames
<1> DEFINE o == OldFrames(a, b)
<1>3. o \in Seq(Nat) /\ Len(o) = Len(a) /\ \A i \in 1 .. Len(a) : o[i] = Weight(a[i], b)
  BY <1>2
<1>4. ASSUME NEW m \in Messages, m[1] = b
      PROVE  Total(OldFrames(Append(a, m), b)) = Total(o)
  <2> DEFINE z == 0
             s == Append(a, m)
             q == OldFrames(s, b)
             r == Append(o, z)
  <2>1. /\ s \in Seq(Messages) /\ Len(s) = Len(a) + 1 /\ s[Len(a) + 1] = m
        /\ \A i \in 1 .. Len(a) : s[i] = a[i]
    BY AppendProperties
  <2>2. Weight(m, b) = 0 /\ z \in Nat
    BY <1>4 DEF Weight
  <2> HIDE DEF s
  <2>3. /\ q \in Seq(Nat) /\ Len(q) = Len(s)
        /\ \A i \in 1 .. Len(s) : q[i] = Weight(s[i], b)
    BY <1>2, <2>1
  <2> HIDE DEF o, q
  <2>4. /\ r \in Seq(Nat) /\ Len(r) = Len(o) + 1 /\ r[Len(o) + 1] = z
        /\ \A i \in 1 .. Len(o) : r[i] = o[i]
    BY <1>3, <2>2, AppendProperties
  <2> HIDE DEF r
  <2>5. \A i \in 1 .. Len(q) : q[i] = r[i]
    <3>1. \A i \in 1 .. Len(a) + 1 : i \in 1 .. Len(a) \/ i = Len(a) + 1
      BY <1>1
    <3>2. \A i \in 1 .. Len(a) : q[i] = r[i]
      BY <1>1, <1>3, <2>1, <2>3, <2>4
    <3>3. q[Len(a) + 1] = r[Len(a) + 1]
      <4>1. Len(a) + 1 \in 1 .. Len(s)
        BY <1>1, <2>1
      <4> QED
        BY <1>3, <2>1, <2>2, <2>3, <2>4, <4>1 DEF z
    <3> QED
      BY <2>1, <2>3, <3>1, <3>2, <3>3
  <2>6. q = r
    BY <1>3, <2>1, <2>3, <2>4, <2>5, SeqEqual
  <2> HIDE DEF z
  <2>7. Total(r) = Total(o) + z /\ Total(o) \in Nat
    BY <1>3, <2>2, TotalWithOneMore, HalvesAre DEF r
  <2> QED
    BY <2>6, <2>7 DEF q, s, z
<1>5. ASSUME a # <<>>
      PROVE  Total(o) = Weight(Head(a), b) + Total(OldFrames(Tail(a), b))
  <2> DEFINE h == Weight(Head(a), b)
             t == Tail(a)
             q == OldFrames(t, b)
             r == <<h>> \o q
  <2>1. /\ t \in Seq(Messages) /\ Len(t) = Len(a) - 1 /\ Head(a) = a[1]
        /\ \A i \in 1 .. Len(t) : t[i] = a[i + 1]
        /\ Len(a) > 0
    BY <1>1, <1>5, HeadTailProperties, EmptySeq
  <2> HIDE DEF t
  <2>2. /\ q \in Seq(Nat) /\ Len(q) = Len(t)
        /\ \A i \in 1 .. Len(t) : q[i] = Weight(t[i], b)
    BY <1>2, <2>1
  <2>3. h \in Nat /\ h = o[1]
    <3>1. 1 \in 1 .. Len(a)
      BY <1>1, <2>1
    <3>2. Head(a) \in Messages
      BY <1>1, <2>1, <3>1
    <3> QED
      BY <1>3, <2>1, <3>1, <3>2, MessageFacts
  <2> HIDE DEF h, q, o
  <2>4. /\ r \in Seq(Nat) /\ Len(r) = Len(a)
        /\ \A i \in 1 .. Len(a) : r[i] = IF i <= 1 THEN h ELSE q[i - 1]
    <3>1. <<h>> \in Seq(Nat) /\ Len(<<h>>) = 1 /\ <<h>>[1] = h
      BY <2>3
    <3>2. /\ r \in Seq(Nat) /\ Len(r) = 1 + Len(q)
          /\ \A i \in 1 .. 1 + Len(q) : r[i] = IF i <= 1 THEN <<h>>[i] ELSE q[i - 1]
      BY <2>2, <3>1, ConcatProperties
    <3>3. 1 + Len(q) = Len(a)
      BY <1>1, <2>1, <2>2
    <3>4. \A i \in 1 .. Len(a) : i <= 1 => i = 1
      BY <1>1
    <3> HIDE DEF r
    <3> QED
      BY <3>1, <3>2, <3>3, <3>4
  <2> HIDE DEF r
  <2>5. \A i \in 1 .. Len(o) : o[i] = r[i]
    <3>1. ASSUME NEW i \in 1 .. Len(a), i # 1 PROVE o[i] = r[i]
      <4>1. i - 1 \in 1 .. Len(t) /\ ~(i <= 1) /\ (i - 1) + 1 = i
        BY <1>1, <2>1, <3>1
      <4>2. r[i] = q[i - 1] /\ q[i - 1] = Weight(t[i - 1], b) /\ t[i - 1] = a[(i - 1) + 1]
        BY <2>1, <2>2, <2>4, <4>1
      <4> QED
        BY <1>3, <4>1, <4>2
    <3>2. 1 \in 1 .. Len(a) /\ r[1] = h
      BY <1>1, <2>1, <2>4
    <3> QED
      BY <1>3, <2>3, <3>1, <3>2
  <2>6. o = r
    BY <1>3, <2>4, <2>5, SeqEqual
  <2>7. Total(r) = h + Total(q)
    BY <2>2, <2>3, TotalWithOneMore DEF r
  <2> QED
    BY <2>6, <2>7 DEF h, q, t, o
<1>6. ASSUME \A i \in 1 .. Len(a) : a[i][1] < b PROVE Total(o) = FramesOf(a)
  <2>1. \A i \in 1 .. Len(a) : Weight(a[i], b) = (Len(a[i]) + 1) \div 2
    BY <1>6 DEF Weight
  <2>2. DOMAIN a = 1 .. Len(a)
    OBVIOUS
  <2>3. o = [i \in DOMAIN a |-> (Len(a[i]) + 1) \div 2]
    BY <2>1, <2>2 DEF OldFrames
  <2> QED
    BY <2>3 DEF FramesOf
<1>7. Total(o) \in Nat
  BY <1>3, HalvesAre
<1> QED
  BY <1>3, <1>4, <1>5, <1>6, <1>7

(* Chunker.push: the frames of a message, with the half that was kept, are *)
(* the frames it fills, and what is old of them is no more than was to come*)
(* of the message and of that half.                                        *)
LEMMA ChunkerFacts ==
  ASSUME NEW k \in Carries, NEW m \in Messages
  PROVE  /\ Frames(k \o m) \in Seq(Nat) /\ Rest(k \o m) \in Carries
         /\ \A b \in Nat : Cardinality(Older(Frames(k \o m), b)) + Aged(Rest(k \o m), b)
                             <= Aged(k, b) + Weight(m, b)
<1> DEFINE h == Len(m)
           c == m[1]
           s == k \o m
           n == Len(s) \div 2
<1>1. /\ m \in Seq(Nat) /\ h \in Nat \ {0} /\ c \in Nat
      /\ \A i \in 1 .. h : m[i] = c
  BY MessageFacts
<1>2. /\ k \in Seq(Nat) /\ Len(k) \in {0, 1} /\ (Len(k) = 0 <=> k = <<>>)
      /\ Len(k) = 1 => k[1] \in Nat
  <2>1. CASE k = <<>>
    BY <2>1
  <2>2. CASE k # <<>>
    <3>1. PICK e \in Nat : k = <<e>>
      BY <2>2 DEF Carries
    <3>2. Len(<<e>>) = 1 /\ <<e>> \in Seq(Nat) /\ <<e>>[1] = e
      BY <3>1
    <3> QED
      BY <2>2, <3>1, <3>2
  <2> QED
    BY <2>1, <2>2
<1> HIDE DEF h, c
<1>3. /\ s \in Seq(Nat) /\ Len(s) = Len(k) + h
      /\ \A i \in 1 .. Len(s) : s[i] = IF i <= Len(k) THEN k[1] ELSE c
      /\ \A i \in 1 .. Len(s) : s[i] \in Nat
  <2>1. /\ s \in Seq(Nat) /\ Len(s) = Len(k) + h
        /\ \A i \in 1 .. Len(k) + h : s[i] = IF i <= Len(k) THEN k[i] ELSE m[i - Len(k)]
    BY <1>1, <1>2, ConcatProperties DEF h
  <2>2. ASSUME NEW i \in 1 .. Len(k) + h
        PROVE  s[i] = IF i <= Len(k) THEN k[1] ELSE c
    <3>1. \A l \in {0, 1}, x \in Nat : \A y \in 1 .. l + x :
            /\ y <= l => y = 1
            /\ ~(y <= l) => y - l \in 1 .. x
      OBVIOUS
    <3>2. /\ i <= Len(k) => i = 1
          /\ ~(i <= Len(k)) => i - Len(k) \in 1 .. h
      BY <1>1, <1>2, <3>1
    <3> HIDE DEF s
    <3> QED
      BY <1>1, <2>1, <3>2
  <2>3. \A i \in 1 .. Len(s) : s[i] \in Nat
    BY <2>1, ElementOfSeq
  <2> HIDE DEF s
  <2> QED
    BY <2>1, <2>2, <2>3
<1> HIDE DEF s
<1>4. /\ Len(s) \in Nat /\ Len(s) > 0 /\ n \in Nat
      /\ Len(s) = 2 * n \/ Len(s) = 2 * n + 1
      /\ Len(s) > Len(k)
  <2>1. \A l \in {0, 1}, x \in Nat \ {0} : l + x \in Nat /\ l + x > 0 /\ l + x > l
    OBVIOUS
  <2>2. \A x \in Nat : /\ x \div 2 \in Nat
                       /\ x = 2 * (x \div 2) \/ x = 2 * (x \div 2) + 1
    OBVIOUS
  <2> QED
    BY <1>1, <1>2, <1>3, <2>1, <2>2
<1>5. Frames(s) = [i \in 1 .. n |-> s[2 * i - 1]] /\ Rest(s) = SubSeq(s, 2 * n + 1, Len(s))
  BY DEF Frames, Rest
<1> HIDE DEF n
<1>6. Frames(s) \in Seq(Nat) /\ DOMAIN Frames(s) = 1 .. n
  <2>1. \A i \in 1 .. n : 2 * i - 1 \in 1 .. Len(s)
    BY <1>4
  <2>2. \A i \in 1 .. n : s[2 * i - 1] \in Nat
    BY <1>3, <2>1
  <2> QED
    BY <1>4, <1>5, <2>2
<1>7. Rest(s) = IF Len(s) = 2 * n THEN <<>> ELSE <<c>>
  <2>1. CASE Len(s) = 2 * n
    <3>1. 2 * n + 1 \in Int /\ Len(s) \in Int /\ Len(s) < 2 * n + 1
      BY <1>4, <2>1
    <3>2. Rest(s) = <<>>
      BY <1>5, <3>1, SubSeqEmpty
    <3> QED
      BY <2>1, <3>2
  <2>2. CASE Len(s) = 2 * n + 1
    <3> DEFINE l == Len(s)
    <3>1. Rest(s) = SubSeq(s, l, l) /\ l \in Int /\ l \in 1 .. Len(s)
      BY <1>4, <1>5, <2>2
    <3>2. s[l] = c
      BY <1>2, <1>3, <1>4, <3>1
    <3>3. \A i \in l .. l : s[i] \in Nat
      BY <1>1, <3>1, <3>2
    <3> HIDE DEF l
    <3>4. /\ SubSeq(s, l, l) \in Seq(Nat)
          /\ Len(SubSeq(s, l, l)) = IF l <= l THEN l - l + 1 ELSE 0
          /\ \A i \in 1 .. l - l + 1 : SubSeq(s, l, l)[i] = s[l + i - 1]
      BY <3>1, <3>3, SubSeqProperties
    <3>5. 1 \in 1 .. l - l + 1 /\ l + 1 - 1 = l /\ l - l + 1 = 1 /\ l <= l
      BY <3>1
    <3>6. Rest(s) \in Seq(Nat) /\ Len(Rest(s)) = 1 /\ Rest(s)[1] = c
      BY <3>1, <3>2, <3>4, <3>5
    <3>7. <<c>> \in Seq(Nat) /\ Len(<<c>>) = 1 /\ <<c>>[1] = c
      BY <1>1
    <3>8. \A i \in 1 .. Len(Rest(s)) : Rest(s)[i] = <<c>>[i]
      BY <3>6, <3>7
    <3>9. Rest(s) = <<c>> /\ Len(s) # 2 * n
      BY <1>4, <2>2, <3>6, <3>7, <3>8, SeqEqual
    <3> QED
      BY <3>9
  <2> QED
    BY <1>4, <2>1, <2>2
<1>8. Rest(s) \in Carries
  BY <1>1, <1>7 DEF Carries
<1>9. ASSUME NEW b \in Nat
      PROVE  Cardinality(Older(Frames(s), b)) + Aged(Rest(s), b) <= Aged(k, b) + Weight(m, b)
  <2> DEFINE old == Cardinality(Older(Frames(s), b))
             odd == IF Len(s) = 2 * n THEN 0 ELSE 1
  <2>1. Aged(Rest(s), b) = IF c < b THEN odd ELSE 0
    BY <1>1, <1>7 DEF Aged
  <2>2. Weight(m, b) = IF c < b THEN (h + 1) \div 2 ELSE 0
    BY DEF Weight, h, c
  <2>3. Aged(k, b) = IF Len(k) = 1 /\ k[1] < b THEN 1 ELSE 0
    BY <1>2 DEF Aged
  <2>4. Older(Frames(s), b) = {i \in 1 .. n : s[2 * i - 1] < b}
    BY <1>5, <1>6 DEF Older
  <2>5. old \in Nat
    BY <1>6, OlderIsFinite
  <2>6. ASSUME NEW l \in Int, NEW u \in Nat, Older(Frames(s), b) \subseteq l .. u, l <= u + 1
        PROVE  old <= u - l + 1
    <3>1. /\ IsFiniteSet(l .. u)
          /\ Cardinality(l .. u) = IF l > u THEN 0 ELSE u - l + 1
      BY <2>6, FS_Interval
    <3>2. old <= Cardinality(l .. u)
      BY <2>6, <3>1, FS_Subset
    <3> QED
      BY <2>5, <2>6, <3>1, <3>2
  <2>7. \A i \in 1 .. n : /\ 2 * i - 1 \in 1 .. Len(s)
                          /\ 2 * i - 1 <= Len(k) => i = 1 /\ Len(k) = 1
    <3>1. \A l \in {0, 1}, x, y \in Nat : \A i \in 1 .. x : x + x <= y =>
            /\ 2 * i - 1 \in 1 .. y
            /\ 2 * i - 1 <= l => i = 1 /\ l = 1
      OBVIOUS
    <3>2. n + n <= Len(s)
      BY <1>4
    <3> QED
      BY <1>2, <1>4, <3>1, <3>2
  <2>8. \A i \in 1 .. n : s[2 * i - 1] = IF i = 1 /\ Len(k) = 1 THEN k[1] ELSE c
    <3>1. \A i \in 1 .. n : i = 1 /\ Len(k) = 1 => 2 * i - 1 <= Len(k)
      BY <1>2
    <3> QED
      BY <1>3, <2>7, <3>1
  <2>9. n + odd <= (Len(s) + 1) \div 2 /\ n + odd = (Len(s) + 1) \div 2
    BY <1>4
  <2>10. CASE ~(c < b)
    <3>1. CASE Len(k) = 1 /\ k[1] < b
      <4> DEFINE l == 1
                 u == 1
      <4>1. l \in Int /\ u \in Nat /\ l <= u + 1 /\ u - l + 1 = 1
        OBVIOUS
      <4>2. Older(Frames(s), b) \subseteq l .. u
        BY <2>4, <2>8, <2>10
      <4> HIDE DEF l, u
      <4>3. old <= 1
        BY <2>6, <4>1, <4>2
      <4> QED
        BY <2>1, <2>2, <2>3, <2>5, <2>10, <3>1, <4>3
    <3>2. CASE ~(Len(k) = 1 /\ k[1] < b)
      <4>1. Older(Frames(s), b) = {}
        BY <2>4, <2>8, <2>10, <3>2
      <4>2. old = 0
        BY <4>1, FS_EmptySet
      <4> QED
        BY <2>1, <2>2, <2>3, <2>10, <3>2, <4>2
    <3> QED
      BY <3>1, <3>2
  <2>11. CASE c < b /\ (Len(k) = 0 \/ k[1] < b)
    <3>1. old <= n
      <4> DEFINE l == 1
      <4>1. l \in Int /\ l <= n + 1 /\ n - l + 1 = n
        BY <1>4
      <4>2. Older(Frames(s), b) \subseteq l .. n
        BY <2>4
      <4> HIDE DEF l
      <4> QED
        BY <1>4, <2>6, <4>1, <4>2
    <3>2. (Len(s) + 1) \div 2 <= Aged(k, b) + (h + 1) \div 2
      <4>1. CASE Len(k) = 0
        BY <1>1, <1>3, <2>3, <4>1
      <4>2. CASE Len(k) = 1
        <5>1. Aged(k, b) = 1 /\ Len(s) = 1 + h
          BY <1>3, <2>3, <2>11, <4>2
        <5>2. \A x \in Nat : (1 + x + 1) \div 2 <= 1 + (x + 1) \div 2
          OBVIOUS
        <5> QED
          BY <1>1, <5>1, <5>2
      <4> QED
        BY <1>2, <4>1, <4>2
    <3>3. \A o, p, d, w : o \in Nat /\ p \in Nat /\ d \in Nat /\ o <= p /\ p + d <= w /\ w \in Nat
                            => o + d <= w
      OBVIOUS
    <3>4. old + odd <= Aged(k, b) + (h + 1) \div 2
      <4>1. odd \in Nat /\ Aged(k, b) \in Nat /\ (h + 1) \div 2 \in Nat
        BY <1>1 DEF Aged
      <4> HIDE DEF old, odd
      <4> QED
        BY <1>4, <2>5, <2>9, <3>1, <3>2, <4>1
    <3> QED
      BY <2>1, <2>2, <2>11, <3>4
  <2>12. CASE c < b /\ Len(k) = 1 /\ ~(k[1] < b)
    <3>1. Len(s) = 1 + h /\ n \in Nat \ {0}
      BY <1>1, <1>3, <1>4, <2>12
    <3>2. old <= n - 1
      <4> DEFINE l == 2
      <4>1. l \in Int /\ l <= n + 1 /\ n - l + 1 = n - 1
        BY <3>1
      <4>2. Older(Frames(s), b) \subseteq l .. n
        <5>1. \A i \in 1 .. n : i # 1 => i \in l .. n
          BY <3>1
        <5> QED
          BY <2>4, <2>8, <2>12, <5>1
      <4> HIDE DEF l
      <4> QED
        BY <1>4, <2>6, <4>1, <4>2
    <3>3. \A x \in Nat : (1 + x + 1) \div 2 <= 1 + (x + 1) \div 2
      OBVIOUS
    <3>4. n + odd <= 1 + (h + 1) \div 2
      BY <1>1, <2>9, <3>1, <3>3
    <3>5. odd \in Nat /\ (h + 1) \div 2 \in Nat
      BY <1>1
    <3>6. Aged(k, b) = 0
      BY <2>3, <2>12
    <3> HIDE DEF old, odd
    <3>7. old + odd <= (h + 1) \div 2
      BY <2>5, <3>1, <3>2, <3>4, <3>5
    <3>8. Aged(Rest(s), b) = odd /\ Weight(m, b) = (h + 1) \div 2
      BY <2>1, <2>2, <2>12
    <3>9. old + Aged(Rest(s), b) <= Aged(k, b) + Weight(m, b)
      BY <3>5, <3>6, <3>7, <3>8
    <3> QED
      BY <3>9 DEF old
  <2> QED
    BY <1>2, <2>10, <2>11, <2>12
<1> QED
  BY <1>6, <1>8, <1>9 DEF s

(* The queue of the track, pushed, played and flushed.                     *)
LEMMA PushFacts ==
  ASSUME NEW p \in Queues, NEW frames \in Seq(Nat)
  PROVE  /\ Push(p, frames) \in Queues
         /\ \A b \in Nat : Cardinality(Older(Push(p, frames).queue, b))
                             <= Cardinality(Older(p.queue, b)) + Cardinality(Older(frames, b))
<1> DEFINE all == p.queue \o frames
           over == IF Len(all) > Capacity THEN Len(all) - Capacity ELSE 0
           q == SubSeq(all, over + 1, Len(all))
<1>1. p.queue \in Seq(Nat) /\ all \in Seq(Nat)
  BY DEF Queues
<1>2. Len(all) \in Nat /\ Capacity \in Nat
  BY <1>1, VoiceAudioAssumption
<1>3. over \in 0 .. Len(all)
  BY <1>2
<1>4. Push(p, frames) = [p EXCEPT !.queue = q]
  BY DEF Push
<1> HIDE DEF all, over
<1>5. q \in Seq(Nat)
  BY <1>1, <1>2, <1>3
<1> HIDE DEF q
<1>6. Push(p, frames) \in Queues /\ Push(p, frames).queue = q
  BY <1>4, <1>5 DEF Queues
<1>7. ASSUME NEW b \in Nat
      PROVE  Cardinality(Older(q, b))
               <= Cardinality(Older(p.queue, b)) + Cardinality(Older(frames, b))
  <2>1. Cardinality(Older(q, b)) <= Cardinality(Older(all, b))
    BY <1>1, <1>3, OlderInSuffix DEF q
  <2>2. Cardinality(Older(all, b)) <= Cardinality(Older(p.queue, b)) + Cardinality(Older(frames, b))
    BY <1>1, OlderConcat DEF all
  <2>3. /\ Cardinality(Older(q, b)) \in Nat /\ Cardinality(Older(all, b)) \in Nat
        /\ Cardinality(Older(p.queue, b)) \in Nat /\ Cardinality(Older(frames, b)) \in Nat
    BY <1>1, <1>5, OlderIsFinite
  <2> QED
    BY <2>1, <2>2, <2>3
<1> QED
  BY <1>6, <1>7

LEMMA PopFacts ==
  ASSUME NEW p \in Queues
  PROVE  /\ Pop(p) \in Queues
         /\ Plays(p) /\ p.queue # <<>> => Pop(p).queue = Tail(p.queue)
         /\ Plays(p) /\ p.queue = <<>> => Pop(p).queue = <<>>
         /\ ~Plays(p) => Pop(p) = p
<1>1. p.queue \in Seq(Nat) /\ p.underflows \in Nat /\ Empty \in Queues
  BY DEF Queues, Empty
<1>2. CASE ~Plays(p)
  BY <1>2 DEF Pop
<1>3. CASE Plays(p) /\ p.queue # <<>>
  <2>1. Pop(p) = [queue |-> Tail(p.queue), started |-> TRUE, underflows |-> 0]
    BY <1>3 DEF Pop
  <2>2. Tail(p.queue) \in Seq(Nat)
    BY <1>1, <1>3
  <2> QED
    BY <1>3, <2>1, <2>2 DEF Queues
<1>4. CASE Plays(p) /\ p.queue = <<>>
  <2>1. Pop(p) = IF p.underflows = Tolerance THEN Empty
                 ELSE [p EXCEPT !.underflows = p.underflows + 1]
    BY <1>4 DEF Pop
  <2>2. [p EXCEPT !.underflows = p.underflows + 1] \in Queues
    BY <1>1 DEF Queues
  <2> QED
    BY <1>1, <1>4, <2>1, <2>2, EmptyQueueStays
<1> QED
  BY <1>2, <1>3, <1>4

(* Where there was no barge-in, nothing is older than it.                  *)
LEMMA NothingIsOld ==
  ASSUME NEW q \in Seq(Nat), NEW c \in Carries
  PROVE  /\ Cardinality(Older(q, 0)) = 0
         /\ \A b \in Nat : Total(OldFrames(<<>>, b)) = 0
         /\ Aged(c, 0) = 0
<1>1. Older(q, 0) = {}
  BY DEF Older
<1>2. Aged(c, 0) = 0
  BY DEF Aged, Carries
<1>3. ASSUME NEW b \in Nat PROVE Total(OldFrames(<<>>, b)) = 0
  <2>1. OldFrames(<<>>, b) = <<>>
    BY DEF OldFrames
  <2> QED
    BY <2>1, TotalOfOne
<1> QED
  BY <1>1, <1>2, <1>3, FS_EmptySet

(* pushAssistantAudio makes old frames only of what was old before.        *)
LEMMA PushedFacts ==
  ASSUME bargeIns \in Nat, pacer \in Queues, carry \in Carries,
         NEW m \in Messages, PushAssistantAudio(m)
  PROVE  /\ pacer' \in Queues /\ carry' \in Carries
         /\ Cardinality(Older(pacer'.queue, bargeIns)) + Aged(carry', bargeIns)
              <= Cardinality(Older(pacer.queue, bargeIns)) + Aged(carry, bargeIns)
                   + Weight(m, bargeIns)
<1> DEFINE halves == carry \o m
           frames == Frames(halves)
<1>1. pacer' = Push(pacer, frames) /\ carry' = Rest(halves)
  BY DEF PushAssistantAudio
<1>2. /\ frames \in Seq(Nat) /\ Rest(halves) \in Carries
      /\ Cardinality(Older(frames, bargeIns)) + Aged(Rest(halves), bargeIns)
           <= Aged(carry, bargeIns) + Weight(m, bargeIns)
  BY ChunkerFacts
<1> HIDE DEF frames, halves
<1>3. /\ pacer' \in Queues
      /\ Cardinality(Older(pacer'.queue, bargeIns))
           <= Cardinality(Older(pacer.queue, bargeIns)) + Cardinality(Older(frames, bargeIns))
  BY <1>1, <1>2, PushFacts
<1>4. /\ Cardinality(Older(pacer'.queue, bargeIns)) \in Nat
      /\ Cardinality(Older(pacer.queue, bargeIns)) \in Nat
      /\ Cardinality(Older(frames, bargeIns)) \in Nat
      /\ Aged(Rest(halves), bargeIns) \in Nat /\ Aged(carry, bargeIns) \in Nat
      /\ Weight(m, bargeIns) \in Nat
  <2>1. pacer'.queue \in Seq(Nat) /\ pacer.queue \in Seq(Nat)
    BY <1>3 DEF Queues
  <2>2. Weight(m, bargeIns) \in Nat
    BY MessageFacts
  <2> QED
    BY <1>2, <2>1, <2>2, OlderIsFinite DEF Aged
<1>5. \A x, y, f, r, k, w \in Nat : x <= y + f /\ f + r <= k + w => x + r <= y + k + w
  OBVIOUS
<1> QED
  BY <1>1, <1>2, <1>3, <1>4, <1>5

(* No step plays, queues or converts an old frame more than there were.    *)
LEMMA BargeInInvariantHolds == AudioSpec => []BargeInInvariant
<1>1. AudioInit => BargeInInvariant
  <2> SUFFICES ASSUME AudioInit PROVE BargeInInvariant
    OBVIOUS
  <2>1. /\ bargeIns = 0 /\ late = 0 /\ stale = 0 /\ arriving = <<>> /\ carry = <<>>
        /\ pacer = Empty
    BY DEF AudioInit
  <2>2. Empty \in Queues /\ <<>> \in Carries /\ <<>> \in Seq(Messages) /\ <<>> \in Seq(Nat)
    BY DEF Empty, Queues, Carries
  <2>3. Empty.queue = <<>> /\ Len(<<>>) = 0
    BY DEF Empty
  <2>4. /\ Cardinality(Older(pacer.queue, bargeIns)) = 0
        /\ Total(OldFrames(arriving, bargeIns)) = 0
        /\ Aged(carry, bargeIns) = 0
    BY <2>1, <2>2, <2>3, NothingIsOld
  <2>5. \A i \in 1 .. Len(arriving) : arriving[i][1] <= bargeIns
    BY <2>1, <2>3
  <2> QED
    BY <2>1, <2>2, <2>4, <2>5 DEF BargeInInvariant
<1>2. BargeInInvariant /\ [AudioNext]_audioVars => BargeInInvariant'
  <2> SUFFICES ASSUME BargeInInvariant, [AudioNext]_audioVars PROVE BargeInInvariant'
    OBVIOUS
  <2> DEFINE old == Cardinality(Older(pacer.queue, bargeIns))
             coming == Total(OldFrames(arriving, bargeIns))
             kept == Aged(carry, bargeIns)
             Labelled == \A i \in 1 .. Len(arriving) : arriving[i][1] <= bargeIns
  <2>1. /\ bargeIns \in Nat /\ late \in Nat /\ stale \in Nat
        /\ arriving \in Seq(Messages) /\ carry \in Carries /\ pacer \in Queues
        /\ Labelled
        /\ ~Keeper => bargeIns = 0 /\ stale = 0 /\ arriving = <<>>
        /\ stale + old + coming + kept <= late + 1
    BY DEF BargeInInvariant
  <2>2. pacer.queue \in Seq(Nat)
    BY <2>1 DEF Queues
  <2>3. old \in Nat /\ coming \in Nat /\ kept \in Nat
    BY <2>1, <2>2, OlderIsFinite, OldFramesFacts DEF Aged
  <2> HIDE DEF old, coming, kept, Labelled
  <2>4. ASSUME NEW halves \in 1 .. MaxHalves, AudioArrives(halves) PROVE BargeInInvariant'
    <3> DEFINE m == Said(halves)
    <3>1. /\ Keeper /\ Keeper' /\ arriving' = Append(arriving, m)
          /\ UNCHANGED <<bargeIns, late, stale, carry, pacer>>
      BY <2>4 DEF AudioArrives, Keeper
    <3>2. m \in Messages /\ m[1] = bargeIns
      <4>1. halves \in Nat \ {0}
        BY VoiceAudioAssumption
      <4> QED
        BY <2>1, <4>1, MessagesAre
    <3> HIDE DEF m
    <3>3. /\ arriving' \in Seq(Messages) /\ Len(arriving') = Len(arriving) + 1
          /\ arriving'[Len(arriving) + 1] = m
          /\ \A i \in 1 .. Len(arriving) : arriving'[i] = arriving[i]
      BY <2>1, <3>1, <3>2, AppendProperties
    <3>4. Labelled'
      <4>1. Len(arriving) \in Nat
        BY <2>1
      <4>2. \A i \in 1 .. Len(arriving) + 1 : i \in 1 .. Len(arriving) \/ i = Len(arriving) + 1
        BY <4>1
      <4>3. \A i \in 1 .. Len(arriving') : arriving'[i][1] <= bargeIns
        BY <2>1, <3>2, <3>3, <4>2 DEF Labelled
      <4> QED
        BY <3>1, <4>3 DEF Labelled
    <3>5. Total(OldFrames(arriving', bargeIns)) = coming
      BY <2>1, <3>1, <3>2, OldFramesFacts DEF coming
    <3> QED
      BY <2>1, <3>1, <3>3, <3>4, <3>5 DEF BargeInInvariant, old, kept, Labelled
  <2>5. CASE AudioConverted
    <3> DEFINE m == Head(arriving)
    <3>1. /\ arriving # <<>> /\ arriving' = Tail(arriving)
          /\ PushAssistantAudio(m)
          /\ UNCHANGED <<cast, bargeIns, late, stale>>
      BY <2>5 DEF AudioConverted
    <3>2. /\ m = arriving[1] /\ m \in Messages /\ arriving' \in Seq(Messages)
          /\ Len(arriving') = Len(arriving) - 1
          /\ \A i \in 1 .. Len(arriving') : arriving'[i] = arriving[i + 1]
      BY <2>1, <3>1, HeadTailProperties
    <3>3. Keeper /\ Keeper'
      BY <2>1, <3>1 DEF Keeper
    <3>4. coming = Weight(m, bargeIns) + Total(OldFrames(arriving', bargeIns))
      BY <2>1, <3>1, OldFramesFacts DEF coming
    <3> HIDE DEF m
    <3>5. /\ pacer' \in Queues /\ carry' \in Carries
          /\ Cardinality(Older(pacer'.queue, bargeIns)) + Aged(carry', bargeIns)
               <= old + kept + Weight(m, bargeIns)
      BY <2>1, <3>1, <3>2, PushedFacts DEF old, kept
    <3>6. Labelled'
      <4>1. Len(arriving) \in Nat
        BY <2>1
      <4>2. \A i \in 1 .. Len(arriving) - 1 : i + 1 \in 1 .. Len(arriving)
        BY <4>1
      <4>3. \A i \in 1 .. Len(arriving') : arriving'[i][1] <= bargeIns
        BY <2>1, <3>2, <4>2 DEF Labelled
      <4> QED
        BY <3>1, <4>3 DEF Labelled
    <3>7. /\ Cardinality(Older(pacer'.queue, bargeIns)) \in Nat
          /\ Total(OldFrames(arriving', bargeIns)) \in Nat
          /\ Weight(m, bargeIns) \in Nat /\ Aged(carry', bargeIns) \in Nat
      <4>1. pacer'.queue \in Seq(Nat)
        BY <3>5 DEF Queues
      <4> QED
        BY <2>1, <3>2, <4>1, OlderIsFinite, OldFramesFacts, MessageFacts DEF Aged
    <3>8. stale + Cardinality(Older(pacer'.queue, bargeIns))
            + Total(OldFrames(arriving', bargeIns)) + Aged(carry', bargeIns) <= late + 1
      <4>1. \A x, y, z, q, o, c, k, w, l \in Nat :
              /\ x + o + c + k <= l + 1 /\ y + q <= o + k + w /\ c = w + z
              => x + y + z + q <= l + 1
        OBVIOUS
      <4>2. /\ stale \in Nat /\ late \in Nat /\ old \in Nat /\ coming \in Nat /\ kept \in Nat
            /\ stale + old + coming + kept <= late + 1
        BY <2>1, <2>3
      <4> QED
        BY <3>4, <3>5, <3>7, <4>1, <4>2
    <3> QED
      BY <2>1, <3>1, <3>2, <3>3, <3>5, <3>6, <3>8 DEF BargeInInvariant, Labelled
  <2>6. ASSUME NEW halves \in 1 .. MaxHalves, AudioDelta(halves) PROVE BargeInInvariant'
    <3> DEFINE m == Said(halves)
    <3>1. /\ Keeper /\ Keeper' /\ PushAssistantAudio(m)
          /\ UNCHANGED <<bargeIns, arriving, late, stale>>
      BY <2>6 DEF AudioDelta, Keeper
    <3>2. m \in Messages /\ m[1] = bargeIns
      <4>1. halves \in Nat \ {0}
        BY VoiceAudioAssumption
      <4> QED
        BY <2>1, <4>1, MessagesAre
    <3> HIDE DEF m
    <3>3. Weight(m, bargeIns) = 0
      BY <2>1, <3>2 DEF Weight
    <3>4. /\ pacer' \in Queues /\ carry' \in Carries
          /\ Cardinality(Older(pacer'.queue, bargeIns)) + Aged(carry', bargeIns)
               <= old + kept + Weight(m, bargeIns)
      BY <2>1, <3>1, <3>2, PushedFacts DEF old, kept
    <3>5. /\ Cardinality(Older(pacer'.queue, bargeIns)) \in Nat
          /\ Aged(carry', bargeIns) \in Nat
      <4>1. pacer'.queue \in Seq(Nat)
        BY <3>4 DEF Queues
      <4> QED
        BY <2>1, <4>1, OlderIsFinite DEF Aged
    <3>6. stale + Cardinality(Older(pacer'.queue, bargeIns)) + coming + Aged(carry', bargeIns)
            <= late + 1
      <4>1. \A x, y, q, o, c, k, l \in Nat :
              /\ x + o + c + k <= l + 1 /\ y + q <= o + k => x + y + c + q <= l + 1
        OBVIOUS
      <4>2. Cardinality(Older(pacer'.queue, bargeIns)) + Aged(carry', bargeIns) <= old + kept
        BY <2>3, <3>3, <3>4
      <4> QED
        BY <2>1, <2>3, <3>5, <4>1, <4>2
    <3> QED
      BY <2>1, <3>1, <3>4, <3>6 DEF BargeInInvariant, coming, Labelled
  <2>7. CASE SpeechStarted
    <3>1. /\ Keeper /\ Keeper' /\ bargeIns' = bargeIns + 1
          /\ pacer' = Empty /\ late' = FramesOf(arriving) /\ stale' = 0
          /\ UNCHANGED <<arriving, carry>>
      BY <2>7 DEF SpeechStarted, Flush, Keeper
    <3>2. bargeIns' \in Nat
      BY <2>1, <3>1
    <3>3. pacer' \in Queues /\ Cardinality(Older(pacer'.queue, bargeIns')) = 0
      <4>1. Empty \in Queues /\ Older(Empty.queue, bargeIns') = {}
        BY DEF Empty, Queues, Older
      <4> QED
        BY <3>1, <4>1, FS_EmptySet
    <3>4. \A i \in 1 .. Len(arriving) : /\ arriving[i][1] < bargeIns'
                                        /\ arriving[i][1] <= bargeIns'
      <4>1. \A i \in 1 .. Len(arriving) : arriving[i][1] \in Nat
        <5>1. \A i \in 1 .. Len(arriving) : arriving[i] \in Messages
          BY <2>1, ElementOfSeq
        <5> QED
          BY <5>1, MessageFacts
      <4> QED
        BY <2>1, <3>1, <4>1 DEF Labelled
    <3>5. Total(OldFrames(arriving, bargeIns')) = FramesOf(arriving)
      BY <2>1, <3>2, <3>4, OldFramesFacts
    <3>6. FramesOf(arriving) \in Nat
      BY <2>1, <3>2, <3>5, OldFramesFacts
    <3>7. Aged(carry', bargeIns') \in {0, 1}
      BY DEF Aged
    <3>8. stale' + Cardinality(Older(pacer'.queue, bargeIns'))
            + Total(OldFrames(arriving', bargeIns')) + Aged(carry', bargeIns') <= late' + 1
      BY <3>1, <3>3, <3>5, <3>6, <3>7
    <3> QED
      BY <2>1, <3>1, <3>2, <3>3, <3>4, <3>6, <3>8 DEF BargeInInvariant
  <2>8. CASE \/ \E l \in Legs, frames \in 1 .. (MaxHalves + 1) \div 2 : LegAudio(l, frames)
             \/ \E halves \in 1 .. 3 : UplinkFrame(halves)
             \/ UNCHANGED audioVars
    <3>1. UNCHANGED <<cast, bargeIns, late, stale, arriving, carry, pacer>>
      BY <2>8 DEF LegAudio, UplinkFrame, audioVars
    <3> QED
      BY <2>1, <3>1 DEF BargeInInvariant, Keeper, old, coming, kept, Labelled
  <2>9. ASSUME NEW loud \in BOOLEAN, MixerTick(loud) PROVE BargeInInvariant'
    <3>1. UNCHANGED <<cast, bargeIns, late, stale, arriving, carry>>
      BY <2>9 DEF MixerTick
    <3>2. CASE Keeper
      <4>1. pacer' = pacer
        BY <2>9, <3>2 DEF MixerTick
      <4> QED
        BY <2>1, <3>1, <4>1 DEF BargeInInvariant, Keeper, old, coming, kept, Labelled
    <3>3. CASE ~Keeper
      <4>1. /\ Empty \in Queues /\ <<0>> \in Seq(Nat)
        BY DEF Empty, Queues
      <4>2. PICK track \in {pacer, Empty} : pacer' \in {track, Push(track, <<0>>)}
        BY <2>9, <3>3 DEF MixerTick, Flush
      <4>3. pacer' \in Queues
        BY <2>1, <4>1, <4>2, PushFacts
      <4>4. pacer'.queue \in Seq(Nat)
        BY <4>3 DEF Queues
      <4>5. /\ Cardinality(Older(pacer'.queue, 0)) = 0 /\ Aged(carry, 0) = 0
            /\ Total(OldFrames(<<>>, 0)) = 0
        BY <2>1, <4>4, NothingIsOld
      <4> QED
        BY <2>1, <3>1, <3>3, <4>3, <4>5 DEF BargeInInvariant, Keeper, Labelled
    <3> QED
      BY <3>2, <3>3
  <2>10. ASSUME NEW track \in BOOLEAN, NEW ear \in BOOLEAN, PacerTick(track, ear)
         PROVE  BargeInInvariant'
    <3>1. UNCHANGED <<cast, bargeIns, late, arriving, carry>>
      BY <2>10 DEF PacerTick
    <3>2. CASE ~track
      <4>1. pacer' = pacer /\ stale' = stale
        BY <2>10, <3>2 DEF PacerTick
      <4> QED
        BY <2>1, <3>1, <4>1 DEF BargeInInvariant, Keeper, old, coming, kept, Labelled
    <3>3. CASE track
      <4>1. /\ pacer' = Pop(pacer)
            /\ stale' = IF Plays(pacer) /\ IsOld(1) THEN stale + 1 ELSE stale
        BY <2>10, <3>3 DEF PacerTick
      <4>2. pacer' \in Queues
        BY <2>1, <4>1, PopFacts
      <4>3. pacer'.queue \in Seq(Nat)
        BY <4>2 DEF Queues
      <4>4. IsOld(1) <=> Aged(pacer.queue, bargeIns) = 1
        <5>1. 1 \in DOMAIN pacer.queue <=> pacer.queue # <<>>
          BY <2>2
        <5> QED
          BY <5>1 DEF IsOld, Aged
      <4>5. Cardinality(Older(pacer'.queue, bargeIns)) \in Nat
        BY <2>1, <4>3, OlderIsFinite
      <4>6. stale' \in Nat
        BY <2>1, <4>1
      <4>7. stale' + Cardinality(Older(pacer'.queue, bargeIns)) <= stale + old
        <5>1. CASE ~Plays(pacer)
          BY <2>1, <2>3, <4>1, <5>1, PopFacts DEF old
        <5>2. CASE Plays(pacer) /\ pacer.queue = <<>>
          <6>1. ~IsOld(1)
            BY <4>4, <5>2 DEF Aged
          <6>2. pacer'.queue = pacer.queue
            BY <2>1, <4>1, <5>2, PopFacts
          <6> QED
            BY <2>1, <2>3, <4>1, <6>1, <6>2 DEF old
        <5>3. CASE Plays(pacer) /\ pacer.queue # <<>>
          <6>1. pacer'.queue = Tail(pacer.queue)
            BY <2>1, <4>1, <5>3, PopFacts
          <6>2. Cardinality(Older(pacer'.queue, bargeIns)) + Aged(pacer.queue, bargeIns) <= old
            BY <2>1, <2>2, <5>3, <6>1, OlderInTail DEF old
          <6>3. stale' = stale + Aged(pacer.queue, bargeIns)
            BY <2>1, <4>1, <4>4, <5>3 DEF Aged
          <6>4. Aged(pacer.queue, bargeIns) \in Nat
            BY DEF Aged
          <6> QED
            BY <2>1, <2>3, <4>5, <6>2, <6>3, <6>4
        <5> QED
          BY <5>1, <5>2, <5>3
      <4>8. ~Keeper => stale' = 0
        <5>1. Aged(pacer.queue, 0) = 0
          BY <2>2 DEF Aged
        <5> QED
          BY <2>1, <4>1, <4>4, <5>1
      <4>9. stale' + Cardinality(Older(pacer'.queue, bargeIns)) + coming + kept <= late + 1
        BY <2>1, <2>3, <4>5, <4>6, <4>7
      <4> QED
        BY <2>1, <3>1, <4>2, <4>6, <4>8, <4>9
           DEF BargeInInvariant, Keeper, coming, kept, Labelled
    <3> QED
      BY <3>2, <3>3
  <2> QED
    BY <2>4, <2>5, <2>6, <2>7, <2>8, <2>9, <2>10 DEF AudioNext
<1> QED
  BY <1>1, <1>2, PTL DEF AudioSpec

(* "A barge-in silences what was said before it", however many there are   *)
(* and however long a message is and takes to be converted: beyond one     *)
(* half frame only the frames of what was being converted when the flush   *)
(* came are heard after it.                                                *)
THEOREM BargeInsSilence == AudioSpec => []BargeInSilences
<1>1. BargeInInvariant => BargeInSilences
  <2> SUFFICES ASSUME BargeInInvariant PROVE BargeInSilences
    OBVIOUS
  <2>1. /\ bargeIns \in Nat /\ late \in Nat /\ stale \in Nat
        /\ arriving \in Seq(Messages) /\ pacer.queue \in Seq(Nat)
        /\ stale + Cardinality(Older(pacer.queue, bargeIns))
             + Total(OldFrames(arriving, bargeIns)) + Aged(carry, bargeIns)
             <= late + 1
    BY DEF BargeInInvariant, Queues
  <2>2. {i \in DOMAIN pacer.queue : IsOld(i)} = Older(pacer.queue, bargeIns)
    BY DEF IsOld, Older
  <2>3. /\ Cardinality(Older(pacer.queue, bargeIns)) \in Nat
        /\ Total(OldFrames(arriving, bargeIns)) \in Nat
        /\ Aged(carry, bargeIns) \in Nat
    BY <2>1, OlderIsFinite, OldFramesFacts DEF Aged
  <2>4. \A x, y, z, u, l \in Nat : x + y + z + u <= l + 1 => x + y <= l + 1
    OBVIOUS
  <2>5. stale + Cardinality(Older(pacer.queue, bargeIns)) <= late + 1
    BY <2>1, <2>3, <2>4
  <2> QED
    BY <2>2, <2>5 DEF BargeInSilences
<1> QED
  BY <1>1, BargeInInvariantHolds, PTL

-----------------------------------------------------------------------------
(* The audio of a fire: its types, and what a seat has queued.             *)

Chunks == Seq(1 .. 3)

(* What is counted of a sequence holds of a seat's chunks, and what is made*)
(* of them are chunks.                                                     *)
LEMMA ChunkTotal ==
  ASSUME NEW c \in Chunks PROVE c \in Seq(Nat) /\ Len(c) \in Nat /\ Total(c) \in Nat
<1>1. c \in Seq(Nat) /\ Len(c) \in Nat
  BY DEF Chunks
<1> QED
  BY <1>1, HalvesAre

LEMMA ChunkSplit ==
  ASSUME NEW c \in Chunks, NEW n \in 0 .. Len(c)
  PROVE  /\ SubSeq(c, 1, n) \in Chunks /\ Len(SubSeq(c, 1, n)) = n
         /\ SubSeq(c, n + 1, Len(c)) \in Chunks
         /\ Len(SubSeq(c, n + 1, Len(c))) = Len(c) - n
         /\ Total(c) = Total(SubSeq(c, 1, n)) + Total(SubSeq(c, n + 1, Len(c)))
<1>1. SubSeq(c, 1, n) \in Chunks
  <2>1. 1 \in Int /\ n \in Int /\ \A i \in 1 .. n : c[i] \in 1 .. 3
    BY DEF Chunks
  <2> QED
    BY <2>1, SubSeqProperties, SMT DEF Chunks
<1>2. SubSeq(c, n + 1, Len(c)) \in Chunks
  <2>1. n + 1 \in Int /\ Len(c) \in Int /\ \A i \in n + 1 .. Len(c) : c[i] \in 1 .. 3
    BY DEF Chunks
  <2> QED
    BY <2>1, SubSeqProperties, SMT DEF Chunks
<1> QED
  BY <1>1, <1>2, ChunkTotal, TotalSplit

LEMMA ChunkWithOneMore ==
  ASSUME NEW c \in Chunks, NEW h \in 1 .. 3
  PROVE  /\ Append(c, h) \in Chunks /\ Len(Append(c, h)) = Len(c) + 1
         /\ Total(Append(c, h)) = Total(c) + h
         /\ <<h>> \o c \in Chunks /\ Len(<<h>> \o c) = Len(c) + 1
         /\ Total(<<h>> \o c) = h + Total(c)
<1>1. Append(c, h) \in Chunks
  BY AppendProperties DEF Chunks
<1>2. <<h>> \o c \in Chunks
  <2>1. <<h>> \in Seq(1 .. 3)
    OBVIOUS
  <2> QED
    BY <2>1, ConcatProperties DEF Chunks
<1>3. h \in Nat
  OBVIOUS
<1> QED
  BY <1>1, <1>2, <1>3, ChunkTotal, TotalWithOneMore

(* The oldest chunks go until the rest fits or is the last chunk.          *)
LEMMA OverflowFacts ==
  ASSUME NEW d \in Chunks, Len(d) > 0
  PROVE  /\ Overflow(d) \in 0 .. Len(d) - 1
         /\ \/ Overflow(d) = Len(d) - 1
            \/ Total(SubSeq(d, Overflow(d) + 1, Len(d))) <= SeatCap
<1> DEFINE fits(k) == k = Len(d) - 1 \/ Total(SubSeq(d, k + 1, Len(d))) <= SeatCap
           S == {k \in 0 .. Len(d) - 1 : fits(k)}
<1>1. Len(d) \in Nat
  BY DEF Chunks
<1>2. S \in SUBSET Nat /\ Len(d) - 1 \in S
  BY <1>1
<1>3. PICK n \in S : \A y \in S : n <= y
  BY <1>2, LeastExists
<1>4. n \in 0 .. Len(d) - 1 /\ fits(n) /\ \A k \in 0 .. n - 1 : ~fits(k)
  <2>1. ASSUME NEW k \in 0 .. n - 1, fits(k) PROVE FALSE
    <3>1. n \in 0 .. Len(d) - 1
      OBVIOUS
    <3>2. k \in 0 .. Len(d) - 1 /\ ~(n <= k)
      BY <1>1, <3>1
    <3> QED
      BY <1>3, <2>1, <3>2
  <2> QED
    BY <2>1
<1>5. Overflow(d) = CHOOSE m \in 0 .. Len(d) - 1 : fits(m) /\ \A k \in 0 .. m - 1 : ~fits(k)
  BY DEF Overflow
<1> HIDE DEF fits
<1>6. Overflow(d) \in 0 .. Len(d) - 1 /\ fits(Overflow(d))
  BY <1>4, <1>5, Zenon
<1> QED
  BY <1>6 DEF fits

\* What is known of a seat's queue, q.
Queued(q) == q.chunks \in Chunks /\ q.bytes = Total(q.chunks)
Capped(q) == q.bytes <= SeatCap \/ Len(q.chunks) = 1

(* queueBytes goes down by the chunks that are dropped for the cap.        *)
LEMMA UplinkFacts ==
  ASSUME Queued(seat), NEW halves \in 1 .. 3, UplinkFrame(halves)
  PROVE  Queued(seat') /\ Capped(seat')
<1> DEFINE d == Append(seat.chunks, halves)
           n == Overflow(d)
<1>1. /\ d \in Chunks /\ Len(d) = Len(seat.chunks) + 1
      /\ Total(d) = seat.bytes + halves /\ Len(seat.chunks) \in Nat
      /\ seat.bytes \in Nat
  BY ChunkWithOneMore, ChunkTotal DEF Queued, Chunks
<1>2. seat' = [chunks |-> SubSeq(d, n + 1, Len(d)),
               bytes |-> seat.bytes + halves - Total(SubSeq(d, 1, n))]
  BY DEF UplinkFrame
<1> HIDE DEF d
<1>3. /\ n \in 0 .. Len(d) - 1
      /\ n = Len(d) - 1 \/ Total(SubSeq(d, n + 1, Len(d))) <= SeatCap
  BY <1>1, OverflowFacts
<1> HIDE DEF n
<1>4. n \in 0 .. Len(d)
  BY <1>1, <1>3
<1> DEFINE a == SubSeq(d, 1, n)
           z == SubSeq(d, n + 1, Len(d))
<1>5. /\ a \in Chunks /\ z \in Chunks /\ Len(z) = Len(d) - n
      /\ Total(d) = Total(a) + Total(z)
  BY <1>1, <1>4, ChunkSplit
<1>6. seat'.chunks = z /\ seat'.bytes = seat.bytes + halves - Total(a)
  BY <1>2
<1>7. n = Len(d) - 1 \/ Total(z) <= SeatCap
  BY <1>3
<1> HIDE DEF a, z
<1>8. Total(a) \in Nat /\ Total(z) \in Nat
  BY <1>5, ChunkTotal
<1>9. seat'.bytes = Total(z)
  <2>1. Total(d) = seat.bytes + halves /\ Total(d) = Total(a) + Total(z)
        /\ seat'.bytes = seat.bytes + halves - Total(a)
    BY <1>1, <1>5, <1>6
  <2>2. \A x, y, m, h \in Nat : \A t, u :
          t = m + h /\ t = x + y /\ u = m + h - x => u = y
    OBVIOUS
  <2>3. halves \in Nat /\ seat.bytes \in Nat
    BY <1>1
  <2> QED
    BY <1>8, <2>1, <2>2, <2>3
<1>10. n = Len(d) - 1 => Len(z) = 1
  BY <1>1, <1>4, <1>5
<1> QED
  BY <1>5, <1>6, <1>7, <1>9, <1>10 DEF Queued, Capped

(* ... and by what the mixer takes, which cuts the last chunk it touches.  *)
LEMMA TakenFacts ==
  ASSUME Queued(seat), Capped(seat), SeatCap \in Nat
  PROVE  Queued(TakeFromSeat) /\ Capped(TakeFromSeat)
<1> DEFINE c == seat.chunks
           sum(n) == Total(SubSeq(c, 1, n))
           S == {n \in 0 .. Len(c) : n = Len(c) \/ sum(n + 1) > Taken}
           whole == CHOOSE n \in 0 .. Len(c) :
                      sum(n) <= Taken /\ (n = Len(c) \/ sum(n + 1) > Taken)
           cut == Taken - sum(whole)
<1>1. c \in Chunks /\ Len(c) \in Nat /\ seat.bytes = Total(c) /\ Total(c) \in Nat
  BY ChunkTotal DEF Queued, Chunks
<1>2. Taken \in Nat /\ Taken <= Total(c)
  BY <1>1 DEF Taken
<1>3. TakeFromSeat = [chunks |-> IF whole = Len(c) THEN <<>>
                                 ELSE <<c[whole + 1] - cut>> \o SubSeq(c, whole + 2, Len(c)),
                      bytes |-> seat.bytes - Taken]
  BY DEF TakeFromSeat
<1>4. \A i \in 1 .. Len(c) : c[i] \in 1 .. 3
  BY <1>1 DEF Chunks
<1>5. ASSUME NEW n \in 0 .. Len(c)
      PROVE  /\ sum(n) \in Nat /\ Total(SubSeq(c, n + 1, Len(c))) \in Nat
             /\ SubSeq(c, n + 1, Len(c)) \in Chunks
             /\ Len(SubSeq(c, n + 1, Len(c))) = Len(c) - n
             /\ Total(c) = sum(n) + Total(SubSeq(c, n + 1, Len(c)))
  <2> HIDE DEF c
  <2> QED
    BY <1>1, ChunkSplit, ChunkTotal
<1>6. ASSUME NEW n \in 0 .. Len(c) - 1 PROVE sum(n + 1) = sum(n) + c[n + 1]
  <2> DEFINE a == SubSeq(c, 1, n)
             b == SubSeq(c, 1, n + 1)
  <2>1. n \in 0 .. Len(c) /\ n + 1 \in 0 .. Len(c) /\ n + 1 \in 1 .. Len(c) /\ n \in Nat
    BY <1>1
  <2>2. /\ a \in Chunks /\ Len(a) = n /\ b \in Chunks /\ Len(b) = n + 1
    <3> DEFINE m == n + 1
    <3>1. m \in 0 .. Len(c)
      BY <2>1
    <3> HIDE DEF c, m
    <3>2. SubSeq(c, 1, m) \in Chunks /\ Len(SubSeq(c, 1, m)) = m
      BY <1>1, <3>1, ChunkSplit
    <3> QED
      BY <1>1, <2>1, <3>2, ChunkSplit DEF m
  <2>3. \A i \in 1 .. n : a[i] = c[i] /\ b[i] = c[i]
    BY <1>1, <2>1 DEF Chunks
  <2>4. b[n + 1] = c[n + 1] /\ c[n + 1] \in 1 .. 3
    BY <1>1, <1>4, <2>1 DEF Chunks
  <2> HIDE DEF a, b
  <2>5. /\ Append(a, c[n + 1]) \in Chunks /\ Len(Append(a, c[n + 1])) = n + 1
        /\ Total(Append(a, c[n + 1])) = Total(a) + c[n + 1]
    BY <2>2, <2>4, ChunkWithOneMore
  <2>6. \A i \in 1 .. n + 1 : b[i] = Append(a, c[n + 1])[i]
    <3>1. /\ Append(a, c[n + 1])[n + 1] = c[n + 1]
          /\ \A i \in 1 .. n : Append(a, c[n + 1])[i] = a[i]
      BY <2>2, <2>4, AppendProperties DEF Chunks
    <3>2. \A i \in 1 .. n + 1 : i \in 1 .. n \/ i = n + 1
      BY <2>1
    <3> QED
      BY <2>3, <2>4, <3>1, <3>2
  <2>7. b = Append(a, c[n + 1])
    BY <2>2, <2>5, <2>6, SeqEqual DEF Chunks
  <2> QED
    BY <2>5, <2>7 DEF a, b
<1>7. sum(0) = 0
  <2>1. SubSeq(c, 1, 0) = <<>>
    BY SubSeqEmpty
  <2> QED
    BY <2>1, TotalOfOne
<1> HIDE DEF sum, c
<1>8. \E n \in 0 .. Len(c) : sum(n) <= Taken /\ (n = Len(c) \/ sum(n + 1) > Taken)
  <2>1. S \in SUBSET Nat /\ Len(c) \in S
    BY <1>1
  <2>2. PICK n \in S : \A y \in S : n <= y
    BY <2>1, LeastExists
  <2>3. CASE n = 0
    BY <1>2, <1>7, <2>2, <2>3
  <2>4. CASE n # 0
    <3> DEFINE k == n - 1
    <3>1. k \in 0 .. Len(c) /\ k # Len(c) /\ ~(n <= k) /\ k + 1 = n
      BY <1>1, <2>2, <2>4
    <3> HIDE DEF k
    <3>2. ~(sum(k + 1) > Taken)
      BY <2>2, <3>1
    <3>3. sum(n) <= Taken
      BY <1>2, <1>5, <2>2, <3>1, <3>2
    <3> QED
      BY <2>2, <3>3
  <2> QED
    BY <2>3, <2>4
<1>9. /\ whole \in 0 .. Len(c) /\ sum(whole) <= Taken
      /\ whole = Len(c) \/ sum(whole + 1) > Taken
  BY <1>8, Zenon
<1> HIDE DEF whole
<1>10. CASE whole = Len(c)
  <2>1. SubSeq(c, whole + 1, Len(c)) = <<>>
    BY <1>1, <1>10, SubSeqEmpty
  <2>2. Total(c) = sum(whole)
    <3>1. /\ sum(whole) \in Nat
          /\ Total(c) = sum(whole) + Total(SubSeq(c, whole + 1, Len(c)))
      BY <1>5, <1>9
    <3>2. Total(SubSeq(c, whole + 1, Len(c))) = 0
      BY <2>1, TotalOfOne
    <3> QED
      BY <3>1, <3>2
  <2>3. TakeFromSeat.chunks = <<>> /\ TakeFromSeat.bytes = 0
    BY <1>1, <1>2, <1>3, <1>9, <1>10, <2>2
  <2> QED
    BY <2>3, TotalOfOne DEF Queued, Capped, Chunks
<1>11. CASE whole # Len(c)
  <2> DEFINE h == c[whole + 1] - cut
             z == SubSeq(c, whole + 2, Len(c))
  <2>1. /\ whole \in 0 .. Len(c) - 1 /\ whole + 1 \in 0 .. Len(c)
        /\ whole + 1 \in 1 .. Len(c) /\ (whole + 1) + 1 = whole + 2
    BY <1>1, <1>9, <1>11
  <2>2. /\ z \in Chunks /\ Len(z) = Len(c) - (whole + 1) /\ Total(z) \in Nat
        /\ Total(c) = sum(whole + 1) + Total(z)
    BY <1>5, <2>1
  <2>3. c[whole + 1] \in 1 .. 3 /\ sum(whole + 1) = sum(whole) + c[whole + 1]
    BY <1>4, <1>6, <2>1
  <2>4. sum(whole) \in Nat /\ sum(whole + 1) > Taken
    BY <1>5, <1>9, <1>11
  <2>5. cut \in Nat /\ cut < c[whole + 1]
    BY <1>2, <1>9, <2>3, <2>4
  <2>6. h \in 1 .. 3
    BY <2>3, <2>5
  <2>7. h + Total(z) = seat.bytes - Taken
    BY SMTT(30), <1>1, <1>2, <2>2, <2>3, <2>4
  <2>8. TakeFromSeat.chunks = <<h>> \o z /\ TakeFromSeat.bytes = seat.bytes - Taken
    BY <1>3, <1>11
  <2> HIDE DEF h, z
  <2>9. /\ <<h>> \o z \in Chunks /\ Len(<<h>> \o z) = Len(z) + 1
        /\ Total(<<h>> \o z) = h + Total(z)
    BY <2>2, <2>6, ChunkWithOneMore
  <2>10. Queued(TakeFromSeat)
    BY <2>7, <2>8, <2>9 DEF Queued
  <2>11. Capped(TakeFromSeat)
    <3>1. CASE seat.bytes <= SeatCap
      BY <1>1, <1>2, <2>8, <3>1 DEF Capped
    <3>2. CASE Len(c) = 1
      <4>1. Len(z) + 1 = 1
        BY <2>1, <2>2, <3>2
      <4> QED
        BY <2>8, <2>9, <4>1 DEF Capped
    <3> QED
      BY <3>1, <3>2 DEF Capped, c
  <2> QED
    BY <2>10, <2>11
<1> QED
  BY <1>10, <1>11

(* The queue of a pacer is a sequence of at most Capacity frames.          *)
LEMMA PacerIs ==
  ASSUME NEW s
  PROVE  s \in UNION {[1 .. n -> Labels] : n \in 0 .. Capacity}
           <=> s \in Seq(Labels) /\ Len(s) <= Capacity
<1>1. Capacity \in Nat
  BY VoiceAudioAssumption
<1>2. ASSUME s \in UNION {[1 .. n -> Labels] : n \in 0 .. Capacity}
      PROVE  s \in Seq(Labels) /\ Len(s) <= Capacity
  <2>1. PICK n \in 0 .. Capacity : s \in [1 .. n -> Labels]
    BY <1>2
  <2>2. n \in Nat /\ s \in Seq(Labels) /\ Len(s) = n
    BY <1>1, <2>1
  <2> QED
    BY <1>1, <2>1, <2>2
<1>3. ASSUME s \in Seq(Labels), Len(s) <= Capacity
      PROVE  s \in UNION {[1 .. n -> Labels] : n \in 0 .. Capacity}
  <2>1. s \in [1 .. Len(s) -> Labels] /\ Len(s) \in 0 .. Capacity
    BY <1>1, <1>3, LenProperties
  <2> QED
    BY <2>1
<1> QED
  BY <1>2, <1>3

LEMMA PacerTypes ==
  ASSUME NEW p \in Pacer
  PROVE  /\ Empty \in Pacer /\ Pop(p) \in Pacer
         /\ \A frames \in Seq(Labels) : Push(p, frames) \in Pacer
<1> DEFINE Q == UNION {[1 .. n -> Labels] : n \in 0 .. Capacity}
<1>1. /\ Pacer = [queue : Q, started : BOOLEAN, underflows : 0 .. Tolerance]
      /\ Capacity \in Nat /\ Tolerance \in Nat
  BY VoiceAudioAssumption DEF Pacer
<1>2. \A s : s \in Q <=> s \in Seq(Labels) /\ Len(s) <= Capacity
  BY PacerIs
<1> HIDE DEF Q
<1>3. p.queue \in Seq(Labels) /\ Len(p.queue) <= Capacity /\ p.underflows \in 0 .. Tolerance
  BY <1>1, <1>2
<1>4. Empty \in Pacer
  <2>1. <<>> \in Q
    <3>1. <<>> \in Seq(Labels) /\ Len(<<>>) = 0
      BY EmptySeq
    <3>2. 0 <= Capacity
      BY <1>1
    <3> QED
      BY <1>2, <3>1, <3>2
  <2> QED
    BY <1>1, <2>1 DEF Empty
<1>5. Pop(p) \in Pacer
  <2>1. CASE ~Plays(p)
    BY <2>1 DEF Pop
  <2>2. CASE Plays(p) /\ p.queue # <<>>
    <3>1. Pop(p) = [queue |-> Tail(p.queue), started |-> TRUE, underflows |-> 0]
      BY <2>2 DEF Pop
    <3>2. Tail(p.queue) \in Seq(Labels) /\ Len(Tail(p.queue)) = Len(p.queue) - 1
      BY <1>3, <2>2, HeadTailProperties
    <3>3. Tail(p.queue) \in Q
      <4>1. Len(p.queue) \in Nat
        BY <1>3, LenProperties
      <4>2. Len(Tail(p.queue)) <= Capacity
        BY <1>1, <1>3, <3>2, <4>1
      <4> QED
        BY <1>2, <3>2, <4>2
    <3> QED
      BY <1>1, <3>1, <3>3
  <2>3. CASE Plays(p) /\ p.queue = <<>>
    <3>1. Pop(p) = IF p.underflows = Tolerance THEN Empty
                   ELSE [p EXCEPT !.underflows = p.underflows + 1]
      BY <2>3 DEF Pop
    <3>2. p.underflows # Tolerance => p.underflows + 1 \in 0 .. Tolerance
      BY <1>1, <1>3
    <3> QED
      BY <1>1, <1>4, <3>1, <3>2
  <2> QED
    BY <2>1, <2>2, <2>3
<1>6. ASSUME NEW frames \in Seq(Labels) PROVE Push(p, frames) \in Pacer
  <2> DEFINE all == p.queue \o frames
             over == IF Len(all) > Capacity THEN Len(all) - Capacity ELSE 0
             q == SubSeq(all, over + 1, Len(all))
  <2>1. Push(p, frames) = [p EXCEPT !.queue = q]
    BY DEF Push
  <2>2. all \in Seq(Labels)
    BY <1>3, ConcatProperties
  <2> HIDE DEF all
  <2>3. Len(all) \in Nat /\ \A i \in 1 .. Len(all) : all[i] \in Labels
    BY <2>2
  <2>4. over \in 0 .. Len(all) /\ Len(all) - over <= Capacity
    BY <1>1, <2>3
  <2> HIDE DEF over
  <2>5. /\ q \in Seq(Labels)
        /\ Len(q) = IF over + 1 <= Len(all) THEN Len(all) - (over + 1) + 1 ELSE 0
    <3> DEFINE m == over + 1
               n == Len(all)
    <3>1. m \in Int /\ n \in Int /\ \A i \in m .. n : all[i] \in Labels
      BY <2>3, <2>4
    <3> HIDE DEF m, n
    <3>2. /\ SubSeq(all, m, n) \in Seq(Labels)
          /\ Len(SubSeq(all, m, n)) = IF m <= n THEN n - m + 1 ELSE 0
      BY <3>1, SubSeqProperties
    <3> QED
      BY <3>2 DEF m, n
  <2> HIDE DEF q
  <2>6. q \in Q
    BY <1>1, <1>2, <2>3, <2>4, <2>5
  <2> QED
    BY <1>1, <2>1, <2>6
<1> QED
  BY <1>4, <1>5, <1>6

(* The chunker makes frames of halves and keeps one half at most.          *)
LEMMA ChunkerTypes ==
  ASSUME NEW s \in Seq(Labels)
  PROVE  Frames(s) \in Seq(Labels) /\ Rest(s) \in {<<>>} \cup {<<e>> : e \in Labels}
<1>1. Len(s) \in Nat /\ \A i \in 1 .. Len(s) : s[i] \in Labels
  OBVIOUS
<1> DEFINE n == Len(s) \div 2
<1>2. n \in Nat /\ (Len(s) = 2 * n \/ Len(s) = 2 * n + 1)
  BY <1>1
<1>3. Frames(s) = [i \in 1 .. n |-> s[2 * i - 1]] /\ Rest(s) = SubSeq(s, 2 * n + 1, Len(s))
  BY DEF Frames, Rest
<1> HIDE DEF n
<1>4. Frames(s) \in Seq(Labels)
  <2>1. \A i \in 1 .. n : 2 * i - 1 \in 1 .. Len(s)
    BY <1>1, <1>2
  <2>2. \A i \in 1 .. n : s[2 * i - 1] \in Labels
    BY <1>1, <2>1
  <2>3. Frames(s) \in [1 .. n -> Labels]
    BY <1>3, <2>2
  <2> QED
    BY <1>2, <2>3
<1>5. CASE Len(s) = 2 * n
  <2>1. 2 * n + 1 \in Int /\ Len(s) \in Int /\ Len(s) < 2 * n + 1
    BY <1>2, <1>5
  <2>2. Rest(s) = <<>>
    BY <1>3, <2>1, SubSeqEmpty
  <2> QED
    BY <1>4, <2>2
<1>6. CASE Len(s) = 2 * n + 1
  <2> DEFINE e == s[Len(s)]
  <2>1. e \in Labels
    BY <1>1, <1>2, <1>6
  <2>2. /\ Rest(s) \in Seq(Labels) /\ Len(Rest(s)) = 1 /\ Rest(s)[1] = e
    <3> DEFINE l == Len(s)
    <3>1. Rest(s) = SubSeq(s, l, l) /\ l \in Int /\ l \in Nat
      BY <1>1, <1>3, <1>6
    <3>2. \A i \in l .. l : s[i] \in Labels
      BY <1>1, <1>2, <1>6
    <3> HIDE DEF l
    <3>3. /\ SubSeq(s, l, l) \in Seq(Labels)
          /\ Len(SubSeq(s, l, l)) = IF l <= l THEN l - l + 1 ELSE 0
          /\ \A i \in 1 .. l - l + 1 : SubSeq(s, l, l)[i] = s[l + i - 1]
      BY <3>1, <3>2, SubSeqProperties
    <3>4. 1 \in 1 .. l - l + 1 /\ l + 1 - 1 = l /\ l - l + 1 = 1 /\ l <= l
      BY <3>1
    <3>5. SubSeq(s, l, l)[1] = s[l]
      BY <3>3, <3>4
    <3> QED
      BY <3>1, <3>3, <3>4, <3>5 DEF l
  <2> HIDE DEF e
  <2>3. <<e>> \in Seq(Labels) /\ Len(<<e>>) = 1 /\ <<e>>[1] = e
    BY <2>1
  <2>4. \A i \in 1 .. Len(Rest(s)) : Rest(s)[i] = <<e>>[i]
    BY <2>2, <2>3
  <2>5. Rest(s) = <<e>>
    BY <2>2, <2>3, <2>4, SeqEqual
  <2> QED
    BY <1>4, <2>1, <2>5
<1> QED
  BY <1>2, <1>5, <1>6

LEMMA AudioTypesHold == AudioSpec => []AudioTypeOK
<1> DEFINE Kept == {<<>>} \cup {<<e>> : e \in Labels}
<1>0. /\ MaxBargeIns \in Nat /\ MaxArriving \in Nat /\ SeatCap \in Nat /\ MaxHalves \in Nat
      /\ Onset \in Nat \ {0} /\ Release \in Nat \ {0} /\ Capacity \in Nat /\ Tolerance \in Nat
      /\ Labels = 0 .. MaxBargeIns
  BY VoiceAudioAssumption DEF Labels
<1>1. AudioInit => AudioTypeOK
  <2> SUFFICES ASSUME AudioInit PROVE AudioTypeOK
    OBVIOUS
  <2>1. Empty \in Pacer
    <3>1. <<>> \in UNION {[1 .. n -> Labels] : n \in 0 .. Capacity}
      BY <1>0, PacerIs, EmptySeq
    <3> QED
      BY <1>0, <3>1 DEF Empty, Pacer
  <2>2. /\ cast \in {{}, Legs} /\ bargeIns = 0 /\ arriving = <<>> /\ late = 0 /\ stale = 0
        /\ carry = <<>> /\ pacer = Empty /\ legPacer = [l \in Legs |-> Empty]
        /\ talk = [active |-> FALSE, run |-> 0, quiet |-> 0]
        /\ seat = [chunks |-> <<>>, bytes |-> 0] /\ floor = Empty
    BY DEF AudioInit
  <2>3. Queued(seat) /\ Capped(seat)
    BY <1>0, <2>2, TotalOfOne DEF Queued, Capped, Chunks
  <2>4. arriving \in Seq(Seq(Labels)) /\ Len(arriving) = 0
    BY <2>2
  <2>5. talk \in [active : BOOLEAN, run : 0 .. Onset, quiet : 0 .. Release]
    BY <1>0, <2>2
  <2> QED
    BY <1>0, <2>1, <2>2, <2>3, <2>4, <2>5 DEF AudioTypeOK, Queued, Capped, Chunks
<1>2. AudioTypeOK /\ [AudioNext]_audioVars => AudioTypeOK'
  <2> SUFFICES ASSUME AudioTypeOK, [AudioNext]_audioVars PROVE AudioTypeOK'
    OBVIOUS
  <2>1. /\ cast \in {{}, Legs}
        /\ bargeIns \in Labels /\ late \in Nat /\ stale \in Nat
        /\ arriving \in Seq(Seq(Labels)) /\ Len(arriving) <= MaxArriving
        /\ carry \in Kept
        /\ pacer \in Pacer /\ floor \in Pacer /\ legPacer \in [Legs -> Pacer]
        /\ talk \in [active : BOOLEAN, run : 0 .. Onset, quiet : 0 .. Release]
        /\ Queued(seat) /\ Capped(seat)
    BY DEF AudioTypeOK, Queued, Capped, Chunks
  <2>2. ASSUME /\ cast' \in {{}, Legs}
               /\ bargeIns' \in Labels /\ late' \in Nat /\ stale' \in Nat
               /\ arriving' \in Seq(Seq(Labels)) /\ Len(arriving') <= MaxArriving
               /\ carry' \in Kept
               /\ pacer' \in Pacer /\ floor' \in Pacer /\ legPacer' \in [Legs -> Pacer]
               /\ talk' \in [active : BOOLEAN, run : 0 .. Onset, quiet : 0 .. Release]
               /\ Queued(seat') /\ Capped(seat')
        PROVE  AudioTypeOK'
    <3>1. /\ seat'.chunks \in Seq(1 .. 3) /\ seat'.bytes = Total(seat'.chunks)
          /\ seat'.bytes <= SeatCap \/ Len(seat'.chunks) = 1
      BY <2>2 DEF Queued, Capped, Chunks
    <3> QED
      BY <2>2, <3>1 DEF AudioTypeOK
  <2>3. 0 \in Labels
    BY <1>0
  <2> HIDE DEF Kept
  <2>4. ASSUME NEW halves \in 1 .. MaxHalves PROVE Said(halves) \in Seq(Labels)
    BY <1>0, <2>1 DEF Said
  <2>5. ASSUME NEW halves \in 1 .. MaxHalves, AudioArrives(halves) PROVE AudioTypeOK'
    <3> DEFINE m == Said(halves)
    <3>1. /\ Len(arriving) < MaxArriving /\ arriving' = Append(arriving, m)
          /\ UNCHANGED <<cast, bargeIns, late, stale, carry, pacer, legPacer, talk, seat, floor>>
      BY <2>5 DEF AudioArrives
    <3>2. m \in Seq(Labels)
      BY <2>4
    <3> HIDE DEF m
    <3>3. arriving' \in Seq(Seq(Labels)) /\ Len(arriving') = Len(arriving) + 1
      BY <2>1, <3>1, <3>2, AppendProperties
    <3>4. Len(arriving') <= MaxArriving
      <4>1. Len(arriving) \in Nat
        BY <2>1
      <4> QED
        BY <1>0, <3>1, <3>3, <4>1
    <3> QED
      BY <2>1, <2>2, <3>1, <3>3, <3>4
  <2>6. ASSUME NEW m \in Seq(Labels), PushAssistantAudio(m)
        PROVE  pacer' \in Pacer /\ carry' \in Kept
    <3> DEFINE halves == carry \o m
    <3>1. pacer' = Push(pacer, Frames(halves)) /\ carry' = Rest(halves)
      BY <2>6 DEF PushAssistantAudio
    <3>2. carry \in Seq(Labels)
      <4>1. \A e \in Labels : <<e>> \in Seq(Labels)
        OBVIOUS
      <4> QED
        BY <2>1, <4>1, EmptySeq DEF Kept
    <3>3. halves \in Seq(Labels)
      BY <3>2, ConcatProperties
    <3> HIDE DEF halves
    <3> QED
      BY <2>1, <3>1, <3>3, ChunkerTypes, PacerTypes DEF Kept
  <2>7. CASE \/ AudioConverted
             \/ \E halves \in 1 .. MaxHalves : AudioDelta(halves)
             \/ SpeechStarted
    <3>1. CASE AudioConverted
      <4>1. /\ arriving # <<>> /\ arriving' = Tail(arriving)
            /\ PushAssistantAudio(Head(arriving))
            /\ UNCHANGED <<cast, bargeIns, late, stale, legPacer, talk, seat, floor>>
        BY <3>1 DEF AudioConverted
      <4>2. /\ Head(arriving) \in Seq(Labels)
            /\ arriving' \in Seq(Seq(Labels)) /\ Len(arriving') = Len(arriving) - 1
        BY <2>1, <4>1, HeadTailProperties
      <4>3. pacer' \in Pacer /\ carry' \in Kept
        BY <2>6, <4>1, <4>2
      <4>4. Len(arriving') <= MaxArriving
        <5>1. Len(arriving) \in Nat
          BY <2>1
        <5> QED
          BY <1>0, <2>1, <4>2, <5>1
      <4> QED
        BY <2>1, <2>2, <4>1, <4>2, <4>3, <4>4
    <3>2. ASSUME NEW halves \in 1 .. MaxHalves, AudioDelta(halves) PROVE AudioTypeOK'
      <4>1. /\ PushAssistantAudio(Said(halves))
            /\ UNCHANGED <<cast, bargeIns, arriving, late, stale, legPacer, talk, seat, floor>>
        BY <3>2 DEF AudioDelta
      <4>2. pacer' \in Pacer /\ carry' \in Kept
        BY <2>4, <2>6, <4>1
      <4> QED
        BY <2>1, <2>2, <4>1, <4>2
    <3>3. CASE SpeechStarted
      <4>1. /\ bargeIns < MaxBargeIns /\ bargeIns' = bargeIns + 1
            /\ pacer' = Empty /\ late' = FramesOf(arriving) /\ stale' = 0
            /\ UNCHANGED <<cast, arriving, carry, legPacer, talk, seat, floor>>
        BY <3>3 DEF SpeechStarted, Flush
      <4>2. bargeIns' \in Labels
        BY <1>0, <2>1, <4>1
      <4>3. pacer' \in Pacer
        BY <2>1, <4>1, PacerTypes
      <4>4. late' \in Nat
        <5> DEFINE f == [i \in DOMAIN arriving |-> (Len(arriving[i]) + 1) \div 2]
        <5>1. Len(arriving) \in Nat /\ DOMAIN arriving = 1 .. Len(arriving)
          BY <2>1
        <5>2. \A i \in 1 .. Len(arriving) : Len(arriving[i]) \in Nat
          BY <2>1
        <5>3. \A n \in Nat : (n + 1) \div 2 \in Nat
          OBVIOUS
        <5>4. f \in Seq(Nat)
          BY <5>1, <5>2, <5>3
        <5> HIDE DEF f
        <5>5. Total(f) \in Nat
          BY <5>4, HalvesAre
        <5> QED
          BY <4>1, <5>5 DEF f, FramesOf
      <4> QED
        BY <2>1, <2>2, <4>1, <4>2, <4>3, <4>4
    <3> QED
      BY <2>7, <3>1, <3>2, <3>3
  <2>8. ASSUME NEW l \in Legs, NEW frames \in 1 .. (MaxHalves + 1) \div 2, LegAudio(l, frames)
        PROVE  AudioTypeOK'
    <3> DEFINE f == [i \in 1 .. frames |-> 0]
    <3>1. /\ legPacer' = [legPacer EXCEPT ![l] = Push(legPacer[l], f)]
          /\ UNCHANGED <<cast, bargeIns, arriving, late, stale, carry, pacer, talk, seat, floor>>
      BY <2>8 DEF LegAudio
    <3>2. f \in Seq(Labels)
      <4>1. (MaxHalves + 1) \div 2 \in Nat
        BY <1>0
      <4> QED
        BY <2>3, <4>1
    <3> HIDE DEF f
    <3>3. Push(legPacer[l], f) \in Pacer
      BY <2>1, <3>2, PacerTypes
    <3>4. legPacer' \in [Legs -> Pacer]
      BY <2>1, <3>1, <3>3
    <3> QED
      BY <2>1, <2>2, <3>1, <3>4
  <2>9. ASSUME NEW halves \in 1 .. 3, UplinkFrame(halves) PROVE AudioTypeOK'
    <3>1. UNCHANGED <<cast, bargeIns, arriving, late, stale, carry, pacer, legPacer, talk,
                      floor>>
      BY <2>9 DEF UplinkFrame
    <3>2. Queued(seat') /\ Capped(seat')
      BY <2>1, <2>9, UplinkFacts
    <3> QED
      BY <2>1, <2>2, <3>1, <3>2
  <2>10. ASSUME NEW loud \in BOOLEAN, MixerTick(loud) PROVE AudioTypeOK'
    <3>1. /\ seat' = TakeFromSeat
          /\ floor' = IF seat.bytes > 0 THEN Push(floor, <<0>>) ELSE floor
          /\ UNCHANGED <<cast, bargeIns, arriving, late, stale, carry>>
      BY <2>10 DEF MixerTick
    <3>2. Queued(seat') /\ Capped(seat')
      BY <1>0, <2>1, <3>1, TakenFacts
    <3>3. floor' \in Pacer
      <4>1. <<0>> \in Seq(Labels)
        BY <2>3
      <4>2. Push(floor, <<0>>) \in Pacer
        BY <2>1, <4>1, PacerTypes
      <4> QED
        BY <2>1, <3>1, <4>2
    <3>4. CASE Keeper
      <4>1. UNCHANGED <<pacer, legPacer, talk>>
        BY <2>10, <3>4 DEF MixerTick
      <4> QED
        BY <2>1, <2>2, <3>1, <3>2, <3>3, <4>1
    <3>5. CASE ~Keeper
      <4> DEFINE heard == Hears(loud)
                 onset == heard.active /\ ~talk.active
                 queues == IF onset THEN [l \in Legs |-> Flush(legPacer[l])] ELSE legPacer
                 track == IF onset THEN Flush(pacer) ELSE pacer
                 aiSounds == AiMaySpeak(heard) /\ \E l \in Legs : Sounds(queues[l])
      <4>1. /\ talk' = heard /\ legPacer' = [l \in Legs |-> Pop(queues[l])]
            /\ pacer' = IF aiSounds THEN Push(track, <<0>>) ELSE track
        BY <2>10, <3>5 DEF MixerTick
      <4>2. heard \in [active : BOOLEAN, run : 0 .. Onset, quiet : 0 .. Release]
        <5>1. talk.run \in 0 .. Onset /\ talk.quiet \in 0 .. Release /\ talk.active \in BOOLEAN
          BY <2>1
        <5>2. CASE loud
          <6>1. talk.run + 1 \in Nat /\ 0 \in 0 .. Release
            BY <1>0, <5>1
          <6>2. heard.run \in 0 .. Onset /\ heard.quiet \in 0 .. Release
            BY <1>0, <5>1, <5>2, <6>1 DEF Hears
          <6> QED
            BY <5>1, <6>2 DEF Hears
        <5>3. CASE ~loud
          <6>1. talk.quiet + 1 \in Nat /\ 0 \in 0 .. Onset
            BY <1>0, <5>1
          <6>2. heard.run \in 0 .. Onset /\ heard.quiet \in 0 .. Release
            BY <1>0, <5>1, <5>3, <6>1 DEF Hears
          <6> QED
            BY <5>1, <6>2 DEF Hears
        <5> QED
          BY <5>2, <5>3
      <4>3. track \in Pacer /\ queues \in [Legs -> Pacer]
        <5>1. Empty \in Pacer
          BY <2>1, PacerTypes
        <5>2. [l \in Legs |-> Flush(legPacer[l])] \in [Legs -> Pacer] /\ Flush(pacer) \in Pacer
          BY <5>1 DEF Flush
        <5> HIDE DEF onset
        <5> QED
          BY <2>1, <5>2
      <4> HIDE DEF heard, queues, track, aiSounds
      <4>4. \A l \in Legs : Pop(queues[l]) \in Pacer
        BY <4>3, PacerTypes
      <4>5. Push(track, <<0>>) \in Pacer
        <5>1. <<0>> \in Seq(Labels)
          BY <2>3
        <5> QED
          BY <4>3, <5>1, PacerTypes
      <4> QED
        BY <2>1, <2>2, <3>1, <3>2, <3>3, <4>1, <4>2, <4>3, <4>4, <4>5
    <3> QED
      BY <3>4, <3>5
  <2>11. ASSUME NEW track \in BOOLEAN, NEW ear \in BOOLEAN, PacerTick(track, ear)
         PROVE  AudioTypeOK'
    <3>1. /\ pacer' \in {pacer, Pop(pacer)} /\ floor' \in {floor, Pop(floor)}
          /\ stale' \in {stale, stale + 1}
          /\ UNCHANGED <<cast, bargeIns, arriving, late, carry, legPacer, talk, seat>>
      BY <2>11 DEF PacerTick
    <3>2. pacer' \in Pacer /\ floor' \in Pacer /\ stale' \in Nat
      BY <2>1, <3>1, PacerTypes
    <3> QED
      BY <2>1, <2>2, <3>1, <3>2
  <2>12. CASE UNCHANGED audioVars
    BY <2>1, <2>2, <2>12 DEF audioVars
  <2> QED
    BY <2>5, <2>7, <2>8, <2>9, <2>10, <2>11, <2>12 DEF AudioNext
<1> QED
  BY <1>1, <1>2, PTL DEF AudioSpec

-----------------------------------------------------------------------------
(* The parts together.                                                     *)

(* Whatever moves, each part does what it does alone, or nothing.          *)
LEMMA PartsKeepToThemselves ==
  PackSpec => /\ BoardSpec /\ AuthSpec /\ RoomSpec /\ DocsSpec
              /\ AudioSpec /\ VoiceSpec /\ CitizensSpec
<1>1. PackInit => /\ BoardInit /\ AuthInit /\ RoomInit /\ DocsInit
                  /\ AudioInit /\ VoiceInit /\ CitizensInit
  BY DEF PackInit
<1>2. [PackNext]_packVars => [BoardNext]_boardVars
  BY DEF PackNext, packVars
<1>3. [PackNext]_packVars => [AuthNext]_authVars
  BY DEF PackNext, packVars
<1>4. [PackNext]_packVars => [RoomNext]_roomVars
  BY DEF PackNext, packVars
<1>5. [PackNext]_packVars => [DocsNext]_docVars
  BY DEF PackNext, packVars
<1>6. [PackNext]_packVars => [AudioNext]_audioVars
  BY DEF PackNext, packVars
<1>7. [PackNext]_packVars => [VoiceNext]_voiceVars
  BY DEF PackNext, packVars
<1>8. [PackNext]_packVars => [CitizensNext]_citizenVars
  BY DEF PackNext, packVars
<1> QED
  BY <1>1, <1>2, <1>3, <1>4, <1>5, <1>6, <1>7, <1>8, PTL
     DEF PackSpec, BoardSpec, AuthSpec, RoomSpec, DocsSpec, AudioSpec, VoiceSpec, CitizensSpec

(* Whichever part moves, its variables keep their types; and the queue of a*)
(* seat counts what is in it, however chunks are dropped, cut and taken    *)
(* (onUplinkFrame and takeFromSeat of voice-den.js).                       *)
THEOREM PackTypes == PackSpec => []PackTypeOK
<1>1. RoomInvariant => RoomTypeOK
  BY DEF RoomInvariant
<1>2. DocsInvariant => DocsTypeOK
  BY DEF DocsInvariant
<1>3. PageInvariant => VoiceTypeOK
  BY DEF PageInvariant
<1>4. CitizensInvariant => CitizensTypeOK
  BY DEF CitizensInvariant
<1>5. BoardTypeOK /\ AuthTypeOK /\ RoomTypeOK /\ DocsTypeOK /\ AudioTypeOK /\ VoiceTypeOK
        /\ CitizensTypeOK => PackTypeOK
  BY DEF PackTypeOK
<1> QED
  BY <1>1, <1>2, <1>3, <1>4, <1>5, PartsKeepToThemselves, IdentityTypes,
     RoomInvariantHolds, DocsInvariantHolds, PageInvariantHolds,
     CitizensInvariantHolds, AudioTypesHold, PTL

(* So what is proved of a part alone holds of the worker in which any of   *)
(* them moves: the safety properties of the run of Pack, for all values.   *)
THEOREM PackIsSafe ==
  PackSpec => /\ []NamesAreEarned /\ []ProofUsedOnce /\ []SessionsLeadHome /\ []FusesHold
              /\ []PresenceIsAReceipt /\ []HeardIsStored
              /\ []DocsBounded /\ []DocsAreSearchable
              /\ []BargeInSilences /\ []FloorIsHumans
              /\ []SeatsHaveAPage /\ []CitizensArePolite
BY PartsKeepToThemselves, NamesAreAlwaysEarned, ProofsAreUsedOnce, OneAddressOneAccount,
   FusesHoldUpToARace, PresenceStaysAReceipt, HeardLinesAreStored, DocsStayBounded,
   DocsStaySearchable, BargeInsSilence, FloorStaysHumans, SeatsAlwaysHaveAPage,
   CitizensStayPolite, PTL

=============================================================================
