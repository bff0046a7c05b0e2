------------------------------- MODULE VoicePage -------------------------------
(***************************************************************************)
(* A page in voice: joinVoice, leaveVoice and pagehide of src/pages.js,    *)
(* with the seats and control sockets of src/voice/voice-den.js, which     *)
(* they reach through handleVoice of src/worker.js.                        *)
(*                                                                         *)
(* joinVoice runs on from await to await over globals of the page: what a  *)
(* leave has cleared meanwhile, or a second joinVoice has set, is what it  *)
(* goes on with.  A seat is given back by a beacon, or by the close of its *)
(* control socket; what a fire is, and what it costs, is in VoiceDen.      *)
(***************************************************************************)
EXTENDS FiniteSets

CONSTANTS
  Runs,   \* runs of joinVoice under way at once
  Chairs, \* the ids of seats
  NoChair

ASSUME VoicePageAssumption == NoChair \notin Chairs

VARIABLES
  page,    \* the page's globals
  run,     \* joinVoice -> the await it stands at
  seats,   \* the seats of the fire, which is live while it has one
  mic,     \* those whose microphone is negotiated
  control, \* seat -> its control socket, as the object sees it; "failed": it never does
  ended,   \* the control sockets with the object's word, "ended", that the page has yet to hear
  hungup,  \* those with a close event that it has yet to hear
  leaving, \* the seats a beacon is under way for
  lost     \* history: seats left behind as a message that told of them was lost

voiceVars == <<page, run, seats, mic, control, ended, hungup, leaving, lost>>

Seat == Chairs \cup {NoChair}
Page == [open : BOOLEAN, seat : Seat, ctl : Seat, live : BOOLEAN, button : BOOLEAN]
Quiet == [open |-> TRUE, seat |-> NoChair, ctl |-> NoChair, live |-> FALSE, button |-> TRUE]

\* `reply`: the request is out, the object is at work on it, it has said yes or no; "got":
\* the page has the answer and is at an await of its own.
Run == [at : {"none", "join", "mic", "listen", "ready"}, seat : Seat,
        reply : {"out", "work", "yes", "no", "got"}]
NoRun == [at |-> "none", seat |-> NoChair, reply |-> "got"]

VoiceInit ==
  /\ page = Quiet
  /\ run = [r \in Runs |-> NoRun]
  /\ seats = {} /\ mic = {}
  /\ control = [x \in Chairs |-> "none"]
  /\ ended = {} /\ hungup = {} /\ leaving = {} /\ lost = {}

Turn(r, k) == run' = [run EXCEPT ![r] = k]

\* The page keeps a seat in its globals only; a no ends in the catch, wherever it was.
Told(r, answer) ==
  Turn(r, [NoRun EXCEPT !.at = IF answer = "no" THEN "none" ELSE run[r].at, !.reply = answer])

-----------------------------------------------------------------------------
(* The object gives seats up: their control sockets say so, and close.     *)

Dropped(gone) ==
  LET told == {x \in gone \cap seats : control[x] = "open"}
  IN  /\ seats' = seats \ gone
      /\ mic' = mic \ gone
      /\ control' = [x \in Chairs |-> IF x \in gone /\ control[x] \in {"open", "failed"}
                                      THEN "none" ELSE control[x]]
      /\ ended' = ended \cup told
      /\ hungup' = hungup \cup told
      /\ lost' = lost \ gone

-----------------------------------------------------------------------------
(* leaveVoice and pagehide                                                 *)

\* A bug: the page forgets its seat and then sends the beacon.
BeaconForNobody(x) == {}

BeaconFor(x) == {x} \ {NoChair}

\* sendBeacon may be in vain, which matters while the seat is there.
MayBeVain == seats \cap {page.seat}

\* The page's socket, if it is still connecting.
Pending == {x \in {page.ctl} \ {NoChair} : control[x] = "connecting"}

\* The control socket, if there is one, is closed as well, and the object hears of that
\* unless it had not accepted it yet.
SaysGoodbye(vain, accepted) ==
  LET shut == accepted \cup {x \in {page.ctl} \ {NoChair} : control[x] = "open"}
  IN  /\ leaving' = leaving \cup (BeaconFor(page.seat) \ vain)
      /\ control' = [x \in Chairs |-> CASE x \in shut               -> "closing"
                                        [] x \in Pending \ accepted -> "none"
                                        [] OTHER                    -> control[x]]
      /\ lost' = lost \cup {x \in vain : control'[x] # "closing"}

\* The socket it closes says no more, and its close event is one of the past.
LeavesVoice(words, closes) ==
  /\ \E vain \in SUBSET MayBeVain, accepted \in SUBSET Pending : SaysGoodbye(vain, accepted)
  /\ ended' = ended \ (words \cup {page.ctl})
  /\ hungup' = (hungup \cup ({page.ctl} \ {NoChair})) \ closes
  /\ page' = Quiet
  /\ UNCHANGED <<seats, mic>>

ClickLeave ==
  /\ page.open /\ page.live
  /\ LeavesVoice({}, {})
  /\ UNCHANGED run

\* The answers that were on their way to a page that is gone.
Unheard == {run[r].seat : r \in {q \in Runs : run[q].at = "join" /\ run[q].reply = "yes"}}

\* Every control socket of the page goes with it, of a forgotten seat too; it is all that
\* tells of that one, and of its own seat when the beacon is in vain.
PageHides ==
  /\ page.open
  /\ page' = [Quiet EXCEPT !.open = FALSE]
  /\ control' = [x \in Chairs |-> IF control[x] = "open" THEN "closing"
                                  ELSE IF control[x] = "connecting" THEN "none" ELSE control[x]]
  /\ \E vain \in SUBSET MayBeVain :
       LET untold == vain \cup (seats \ (leaving \cup {page.seat}))
       IN  /\ leaving' = leaving \cup (BeaconFor(page.seat) \ vain)
           /\ lost' = lost \cup (Unheard \cap seats)
                          \cup {x \in untold : control[x] \in {"connecting", "failed"}}
  /\ ended' = {} /\ hungup' = {}
  /\ run' = [r \in Runs |-> IF run[r].reply \in {"out", "work"} THEN run[r] ELSE NoRun]
  /\ UNCHANGED <<seats, mic>>

-----------------------------------------------------------------------------
(* joinVoice                                                               *)

ClickJoin(r) ==
  /\ page.open /\ ~page.live /\ page.button
  /\ run[r] = NoRun
  /\ Turn(r, [NoRun EXCEPT !.at = "join", !.reply = "out"])
  /\ page' = [page EXCEPT !.button = FALSE]
  /\ UNCHANGED <<seats, mic, control, ended, hungup, leaving, lost>>

\* Ids are drawn at random: one is new if nothing that is left tells of it.
Unused(x) ==
  /\ x \notin seats \cup leaving \cup ended \cup hungup \cup {page.seat, page.ctl}
  /\ control[x] = "none"
  /\ \A r \in Runs : run[r].seat # x

\* The awaits of a join, and what refuses it, are in VoiceDen.
JoinHandled(r, x, heard) ==
  /\ run[r].at = "join" /\ run[r].reply = "out"
  /\ Unused(x)
  /\ seats' = seats \cup {x}
  /\ IF heard THEN Turn(r, [run[r] EXCEPT !.seat = x, !.reply = "yes"]) ELSE Told(r, "no")
  /\ lost' = IF heard /\ page.open THEN lost ELSE lost \cup {x}
  /\ UNCHANGED <<page, mic, control, ended, hungup, leaving>>

\* No seat: the button is given back; a fetch that throws makes the page leave.
JoinRefused(r) ==
  /\ run[r].at = "join" /\ run[r].reply = "out" /\ page.open
  /\ Turn(r, NoRun)
  /\ page' = [page EXCEPT !.button = TRUE]
  /\ UNCHANGED <<seats, mic, control, ended, hungup, leaving, lost>>

\* Whatever the page held: a seat whose upgrade has failed is then one that nobody knows.
TakesSeat(r) ==
  /\ page.open /\ run[r].at = "join" /\ run[r].reply = "yes"
  /\ page' = [page EXCEPT !.seat = run[r].seat, !.ctl = run[r].seat]
  /\ control' = [control EXCEPT ![run[r].seat] = "connecting"]
  /\ Told(r, "got")
  /\ lost' = lost \cup {x \in seats : x = page.seat /\ control[x] = "failed"}
  /\ UNCHANGED <<seats, mic, ended, hungup, leaving>>

\* ... and is on its way to the next request.
HasItsAnswer(r) ==
  \/ run[r].at = "join" /\ run[r].reply = "got"
  \/ run[r].at \in {"mic", "listen"} /\ run[r].reply = "yes"

NextStep == [join |-> "mic", mic |-> "listen", listen |-> "ready"]

\* The next request names the seat of the page, whosever it has become.  Without one the
\* connections are null too, unless they were not made yet.
AsksOn(r) ==
  /\ page.open /\ HasItsAnswer(r)
  /\ page.seat # NoChair \/ run[r].at = "join"
  /\ Turn(r, [at |-> NextStep[run[r].at], seat |-> page.seat, reply |-> "out"])
  /\ UNCHANGED <<page, seats, mic, control, ended, hungup, leaving, lost>>

\* The network, or the worker (a 401, 429 or 500), before the object hears of it.
RequestFails(r) ==
  /\ page.open /\ run[r].reply = "out"
  /\ Told(r, "no")
  /\ UNCHANGED <<page, seats, mic, control, ended, hungup, leaving, lost>>

\* Without the seat a 404; media-ready before the microphone is negotiated is a 409.
Admissible(r) ==
  LET x == run[r].seat
  IN  x \in seats /\ (run[r].at = "ready" => x \in mic)

Serves(r) ==
  /\ run[r].at \in {"mic", "listen", "ready"} /\ run[r].reply = "out"
  /\ IF Admissible(r) THEN Turn(r, [run[r] EXCEPT !.reply = "work"]) ELSE Told(r, "no")
  /\ UNCHANGED <<page, seats, mic, control, ended, hungup, leaving, lost>>

\* The SFU has answered, at the third (listen) or fourth (ready) attempt at the latest:
\* that the seat is still there is not looked at again.
SfuAnswers(r, heard) ==
  /\ run[r].reply = "work"
  /\ mic' = IF run[r].at = "mic" THEN mic \cup ({run[r].seat} \cap seats) ELSE mic
  /\ Told(r, IF heard THEN "yes" ELSE "no")
  /\ UNCHANGED <<page, seats, control, ended, hungup, leaving, lost>>

\* It has not: the seat goes.  An error of sdp-listen that is no 425 ends the fire.
SfuFails(r, everyone) ==
  /\ run[r].reply = "work"
  /\ everyone => run[r].at = "listen"
  /\ Dropped(IF everyone THEN seats ELSE {run[r].seat})
  /\ Told(r, "no")
  /\ UNCHANGED <<page, leaving>>

GoesLive(r) ==
  /\ page.open /\ run[r].at = "ready" /\ run[r].reply = "yes"
  /\ Turn(r, NoRun)
  /\ page' = [page EXCEPT !.live = TRUE, !.button = TRUE]
  /\ UNCHANGED <<seats, mic, control, ended, hungup, leaving, lost>>

\* A no, a fetch that throws, no microphone, no connection in time: the page leaves.
Throws(r) ==
  /\ page.open
  /\ run[r].reply = "no" \/ HasItsAnswer(r)
  /\ Turn(r, NoRun)
  /\ LeavesVoice({}, {})

-----------------------------------------------------------------------------
(* beacons and control sockets                                             *)

LeaveArrives(x) ==
  /\ x \in leaving
  /\ leaving' = leaving \ {x}
  /\ Dropped({x})
  /\ UNCHANGED <<page, run>>

\* The upgrade fails as a request does, and without a seat it is a 404: a close for the
\* page, which takes no notice of it before it is live.
ControlConnects(x, passes) ==
  LET opens == passes /\ x \in seats
  IN  /\ control[x] = "connecting"
      /\ control' = [control EXCEPT ![x] = IF opens THEN "open"
                                           ELSE IF x \in seats THEN "failed" ELSE "none"]
      /\ hungup' = IF opens THEN hungup ELSE hungup \cup {x}
      /\ lost' = IF opens \/ page.seat = x THEN lost ELSE lost \cup ({x} \cap seats)
      /\ UNCHANGED <<page, run, seats, mic, ended, leaving>>

ControlBreaks(x) ==
  /\ page.open /\ control[x] = "open"
  /\ control' = [control EXCEPT ![x] = "closing"]
  /\ hungup' = hungup \cup {x}
  /\ UNCHANGED <<page, run, seats, mic, ended, leaving, lost>>

ControlCloses(x) ==
  /\ control[x] = "closing"
  /\ seats' = seats \ {x} /\ mic' = mic \ {x} /\ lost' = lost \ {x}
  /\ control' = [control EXCEPT ![x] = "none"]
  /\ UNCHANGED <<page, run, ended, hungup, leaving>>

\* Any socket that the page has not closed is listened to, a forgotten one too: whichever
\* says that it has ended, or closes, the voice that the page is in now is over.
HearsEnded(x) ==
  /\ page.open /\ x \in ended
  /\ LeavesVoice({x}, {})
  /\ UNCHANGED run

HearsClose(x) ==
  /\ page.open /\ x \in hungup \ ended
  /\ IF page.live
     THEN LeavesVoice({}, {x})
     ELSE hungup' = hungup \ {x} /\ UNCHANGED <<page, seats, mic, control, ended, leaving, lost>>
  /\ UNCHANGED run

\* A kill, the guard, an error of xAI.
FireEnds ==
  /\ seats # {}
  /\ Dropped(seats)
  /\ UNCHANGED <<page, run, leaving>>

VoiceNext ==
  \/ \E r \in Runs :
       \/ ClickJoin(r) \/ JoinRefused(r) \/ TakesSeat(r) \/ AsksOn(r) \/ Serves(r)
       \/ \E x \in Chairs, heard \in BOOLEAN : JoinHandled(r, x, heard)
       \/ \E b \in BOOLEAN : SfuAnswers(r, b) \/ SfuFails(r, b)
       \/ RequestFails(r) \/ GoesLive(r) \/ Throws(r)
  \/ ClickLeave \/ PageHides \/ FireEnds
  \/ \E x \in Chairs :
       \/ \E passes \in BOOLEAN : ControlConnects(x, passes)
       \/ LeaveArrives(x) \/ ControlBreaks(x) \/ ControlCloses(x)
       \/ HearsEnded(x) \/ HearsClose(x)

VoiceSpec == VoiceInit /\ [][VoiceNext]_voiceVars

-----------------------------------------------------------------------------
VoiceTypeOK ==
  /\ page \in Page
  /\ run \in [Runs -> Run]
  /\ seats \subseteq Chairs /\ mic \subseteq seats /\ lost \subseteq seats
  /\ control \in [Chairs -> {"none", "connecting", "failed", "open", "closing"}]
  /\ ended \subseteq Chairs /\ hungup \subseteq Chairs /\ leaving \subseteq Chairs

\* "Browser gone mid-voice => the seat leaves (no orphaned spend)" (voice-den.js:678): a
\* seat has a page behind it that knows of it or holds its control socket, or its end is
\* on the way, but for one way to be left behind: a message that told of it was lost.
\* That is the answer to its join, its beacon when it has no socket that closes, or its
\* upgrade, when a newer join of the page takes the seat's place or the page is hidden.
SeatsHaveAPage ==
  \A x \in seats :
    \/ page.open /\ (page.seat = x \/ x \in Unheard \/ control[x] \in {"connecting", "open"})
    \/ x \in leaving \/ control[x] = "closing"
    \/ x \in lost

=============================================================================
