------------------------------ MODULE VoiceAudio ------------------------------
(***************************************************************************)
(* The audio of a voice den (src/voice/pacer.js, pcm.js and the frame      *)
(* handlers and 20 ms timers of voice-den.js), for a fire with the single  *)
(* Den Keeper or with a cast.  The fire itself is in VoiceDen; here it is  *)
(* bridging all along.                                                     *)
(*                                                                         *)
(* Audio is counted in halves of a 20 ms frame, and a half is labelled     *)
(* with the number of barge-ins before xAI sent it.                        *)
(***************************************************************************)
EXTENDS Naturals, Sequences, FiniteSets

CONSTANTS
  Legs,         \* the voices of the cast; {} is not a cast
  Prefill,      \* the pacer's bounds, in frames
  Capacity,
  Tolerance,    \* PACER_UNDERFLOW_TOLERANCE_FRAMES
  Onset,        \* HUMAN_TALK_ONSET_FRAMES
  Release,      \* HUMAN_TALK_RELEASE_FRAMES
  SeatCap,      \* SEAT_QUEUE_CAP_BYTES, in halves
  MaxHalves,    \* bounds: of the length of a message, which the code takes at any length,
  MaxBargeIns,  \* of the labels,
  MaxArriving   \* and of the messages the runtime converts at a time

ASSUME VoiceAudioAssumption ==
  /\ {Prefill, Capacity, Onset, Release} \subseteq Nat \ {0}
  /\ Prefill <= Capacity
  /\ {Tolerance, SeatCap, MaxHalves, MaxBargeIns, MaxArriving} \subseteq Nat

VARIABLES
  cast,      \* the legs of this fire
  bargeIns,  \* speech_started events so far
  arriving,  \* messages of xAI whose Blob is being converted, in order
  late,      \* history: the frames these could fill when the last barge-in flushed, and
  stale,     \* the frames played since that are older than it
  carry,     \* downChunker: the half that does not fill a frame yet
  pacer,     \* the queue of the den-voice track
  legPacer,  \* leg -> its queue
  talk,      \* humanTalk
  seat,      \* a seat's uplink queue: its chunks, and queueBytes
  floor      \* floorPacer of another seat, which hears this one

audioVars ==
  <<cast, bargeIns, arriving, late, stale, carry, pacer, legPacer, talk, seat, floor>>

Labels == 0 .. MaxBargeIns
Pacer == [queue : UNION {[1 .. n -> Labels] : n \in 0 .. Capacity},
          started : BOOLEAN, underflows : 0 .. Tolerance]
Empty == [queue |-> <<>>, started |-> FALSE, underflows |-> 0]

AudioInit ==
  /\ cast \in {{}, Legs}
  /\ bargeIns = 0
  /\ arriving = <<>>
  /\ late = 0 /\ stale = 0
  /\ carry = <<>>
  /\ pacer = Empty
  /\ legPacer = [l \in Legs |-> Empty]
  /\ talk = [active |-> FALSE, run |-> 0, quiet |-> 0]
  /\ seat = [chunks |-> <<>>, bytes |-> 0]
  /\ floor = Empty

-----------------------------------------------------------------------------
(* DownlinkPacer and Chunker.                                              *)

\* A faulty queue: it is never cut.
PushAll(p, frames) == [p EXCEPT !.queue = p.queue \o frames]

\* A full queue drops its oldest frames.
Push(p, frames) ==
  LET all == p.queue \o frames
      over == IF Len(all) > Capacity THEN Len(all) - Capacity ELSE 0
  IN [p EXCEPT !.queue = SubSeq(all, over + 1, Len(all))]

\* A faulty flush: it resets the prefill gate and keeps the queue.
FlushGate(p) == [p EXCEPT !.started = FALSE, !.underflows = 0]

Flush(p) == Empty

\* Nothing is played before the prefill; then an empty queue is bridged with silence, and
\* prefilled again only when it has been empty for longer than the tolerance.
Plays(p) == p.started \/ Len(p.queue) >= Prefill
Pop(p) ==
  CASE ~Plays(p)         -> p
    [] Plays(p) /\ p.queue # <<>> ->
         [queue |-> Tail(p.queue), started |-> TRUE, underflows |-> 0]
    [] Plays(p) /\ p.queue = <<>> ->
         IF p.underflows = Tolerance THEN Empty
         ELSE [p EXCEPT !.underflows = @ + 1]

\* A frame or silence, rather than nothing.
Sounds(p) == Plays(p) /\ (p.queue # <<>> \/ p.underflows < Tolerance)

\* Whole frames out of halves; a frame is as old as its first half.
Frames(halves) == [i \in 1 .. Len(halves) \div 2 |-> halves[2 * i - 1]]
Rest(halves) == SubSeq(halves, 2 * (Len(halves) \div 2) + 1, Len(halves))

\* The halves of all chunks.
Halves(chunks) == UNION {{i} \X (1 .. chunks[i]) : i \in DOMAIN chunks}
Total(chunks) == Cardinality(Halves(chunks))

-----------------------------------------------------------------------------
(* What xAI sends.                                                         *)

Keeper == cast = {}

\* As many frames as the messages touch when each begins one.
FramesOf(messages) == Total([i \in DOMAIN messages |-> (Len(messages[i]) + 1) \div 2])

Said(halves) == [i \in 1 .. halves |-> bargeIns]

\* pushAssistantAudio: any length, the rest of a frame waits for the next message.
PushAssistantAudio(message) ==
  LET halves == carry \o message
  IN  /\ pacer' = Push(pacer, Frames(halves))
      /\ carry' = Rest(halves)

\* Binary audio is a Blob, whose bytes are awaited.
AudioArrives(halves) ==
  /\ Keeper /\ Len(arriving) < MaxArriving
  /\ arriving' = Append(arriving, Said(halves))
  /\ UNCHANGED <<cast, bargeIns, late, stale, carry, pacer, legPacer, talk, seat, floor>>

AudioConverted ==
  /\ arriving # <<>>
  /\ PushAssistantAudio(Head(arriving))
  /\ arriving' = Tail(arriving)
  /\ UNCHANGED <<cast, bargeIns, late, stale, legPacer, talk, seat, floor>>

\* A delta in base64 is text and waits for no conversion: it overtakes the Blobs.
AudioDelta(halves) ==
  /\ Keeper
  /\ PushAssistantAudio(Said(halves))
  /\ UNCHANGED <<cast, bargeIns, arriving, late, stale, legPacer, talk, seat, floor>>

\* So does the event; the chunker keeps its half.
SpeechStarted ==
  /\ Keeper /\ bargeIns < MaxBargeIns
  /\ bargeIns' = bargeIns + 1
  /\ pacer' = Flush(pacer)
  /\ late' = FramesOf(arriving) /\ stale' = 0
  /\ UNCHANGED <<cast, arriving, carry, legPacer, talk, seat, floor>>

\* pushLegAudio; a leg hears the others and starts its own speech at any time, so its
\* speech_started flushes nothing.
LegAudio(l, frames) ==
  /\ l \in cast
  /\ legPacer' = [legPacer EXCEPT ![l] = Push(@, [i \in 1 .. frames |-> 0])]
  /\ UNCHANGED <<cast, bargeIns, arriving, late, stale, carry, pacer, talk, seat, floor>>

-----------------------------------------------------------------------------
(* What a seat sends, and the timers.                                      *)

\* The oldest chunks go until the rest fits, but never the last one.
Overflow(chunks) ==
  CHOOSE n \in 0 .. Len(chunks) - 1 :
    LET fits(k) == k = Len(chunks) - 1
                   \/ Total(SubSeq(chunks, k + 1, Len(chunks))) <= SeatCap
    IN fits(n) /\ \A k \in 0 .. n - 1 : ~fits(k)

UplinkFrame(halves) ==
  /\ LET chunks == Append(seat.chunks, halves)
         n == Overflow(chunks)
     IN seat' = [chunks |-> SubSeq(chunks, n + 1, Len(chunks)),
                 bytes |-> seat.bytes + halves - Total(SubSeq(chunks, 1, n))]
  /\ UNCHANGED <<cast, bargeIns, arriving, late, stale, carry, pacer, legPacer, talk, floor>>

\* takeFromSeat: a frame, or what there is; the last chunk it touches is cut.
Taken == IF seat.bytes < 2 THEN seat.bytes ELSE 2
TakeFromSeat ==
  LET c == seat.chunks
      sum(n) == Total(SubSeq(c, 1, n))
      whole == CHOOSE n \in 0 .. Len(c) :
                 sum(n) <= Taken /\ (n = Len(c) \/ sum(n + 1) > Taken)
      cut == Taken - sum(whole)
  IN [chunks |-> IF whole = Len(c) THEN <<>>
                 ELSE <<c[whole + 1] - cut>> \o SubSeq(c, whole + 2, Len(c)),
      bytes |-> seat.bytes - Taken]

\* updateHumanTalk: loud frames take the floor, quiet ones give it back.
Hears(loud) ==
  LET run == IF loud THEN talk.run + 1 ELSE 0
      quiet == IF loud THEN 0 ELSE talk.quiet + 1
      cap(n, most) == IF n > most THEN most ELSE n
  IN [active |-> \/ run >= Onset /\ ~talk.active
                 \/ talk.active /\ quiet < Release,
      run |-> cap(run, Onset), quiet |-> cap(quiet, Release)]

\* A faulty mixer: flushed at the onset, but not dropped from then on.
AiSpeaksOn(heard) == TRUE

AiMaySpeak(heard) == ~heard.active

\* What is taken is padded to a frame; the other seat gets none while this one is silent.
MixerTick(loud) ==
  /\ loud => seat.bytes > 0
  /\ seat' = TakeFromSeat
  /\ floor' = IF seat.bytes > 0 THEN Push(floor, <<0>>) ELSE floor
  /\ IF Keeper THEN UNCHANGED <<pacer, legPacer, talk>>
     ELSE LET heard == Hears(loud)
              onset == heard.active /\ ~talk.active
              queues == IF onset THEN [l \in Legs |-> Flush(legPacer[l])] ELSE legPacer
              track == IF onset THEN Flush(pacer) ELSE pacer
              aiSounds == AiMaySpeak(heard) /\ \E l \in Legs : Sounds(queues[l])
          IN /\ talk' = heard
             /\ legPacer' = [l \in Legs |-> Pop(queues[l])]
             /\ pacer' = IF aiSounds THEN Push(track, <<0>>) ELSE track
  /\ UNCHANGED <<cast, bargeIns, arriving, late, stale, carry>>

IsOld(i) == i \in DOMAIN pacer.queue /\ pacer.queue[i] < bargeIns

\* Every 20 ms: a track plays while the SFU's socket for it is attached.
PacerTick(track, ear) ==
  /\ track \/ ear
  /\ pacer' = IF track THEN Pop(pacer) ELSE pacer
  /\ stale' = IF track /\ Plays(pacer) /\ IsOld(1) THEN stale + 1 ELSE stale
  /\ floor' = IF ear THEN Pop(floor) ELSE floor
  /\ UNCHANGED <<cast, bargeIns, arriving, late, carry, legPacer, talk, seat>>

AudioNext ==
  \/ \E halves \in 1 .. MaxHalves : AudioArrives(halves) \/ AudioDelta(halves)
  \/ AudioConverted
  \/ SpeechStarted
  \/ \E l \in Legs, frames \in 1 .. (MaxHalves + 1) \div 2 : LegAudio(l, frames)
  \/ \E halves \in 1 .. 3 : UplinkFrame(halves)
  \/ \E loud \in BOOLEAN : MixerTick(loud)
  \/ \E track, ear \in BOOLEAN : PacerTick(track, ear)

AudioSpec == AudioInit /\ [][AudioNext]_audioVars

-----------------------------------------------------------------------------
AudioTypeOK ==
  /\ cast \in {{}, Legs}
  /\ bargeIns \in Labels /\ late \in Nat /\ stale \in Nat
  /\ arriving \in Seq(Seq(Labels)) /\ Len(arriving) <= MaxArriving
  /\ carry \in {<<>>} \cup {<<e>> : e \in Labels}
  /\ {pacer, floor} \subseteq Pacer /\ legPacer \in [Legs -> Pacer]
  /\ talk \in [active : BOOLEAN, run : 0 .. Onset, quiet : 0 .. Release]
  /\ seat.chunks \in Seq(1 .. 3)
  \* queueBytes counts what is queued, which exceeds the cap only as one chunk.
  /\ seat.bytes = Total(seat.chunks)
  /\ seat.bytes <= SeatCap \/ Len(seat.chunks) = 1

\* A barge-in silences what was said before it: beyond the half frame the chunker keeps,
\* only messages the runtime was still converting when the flush came can be heard after
\* it, and of these, whatever their length, no more than the frames they fill.
BargeInSilences == stale + Cardinality({i \in DOMAIN pacer.queue : IsOld(i)}) <= late + 1

\* "While a human holds the floor AI output is flushed and dropped" (voice-den.js): in a
\* cast den the track is empty from the onset to the release, whatever the legs queue.
FloorIsHumans == talk.active => pacer.queue = <<>>

=============================================================================
