---------------------------- MODULE DecodeOperation ----------------------------
(* One synchronized decode operation (decodeMediaFrames): the demuxer thread    *)
(* reads packets and routes them through FfmpegPacketRouter, whose three queues *)
(* share one budget; a video, an audio and a subtitle worker decode them; the   *)
(* frames go to the mailbox and the PCM blocks to the audio ring, and both are  *)
(* consumed at the pace of the audio clock.  Time is counted in blocks of       *)
(* audio: one packet of audio sounds for one unit.                              *)
EXTENDS Integers, Sequences, FiniteSets, FiniteSetsExt

CONSTANTS
    Media,         \* the media: [packets, start, audioStart, subtitled]
    PacketLimit,   \* FfmpegPacketRouterLimits::packetCount
    ByteLimit,     \* FfmpegPacketRouterLimits::packetBytes
    FrameRoom,     \* frames the mailbox and the frame queue hold
    BlockRoom,     \* blocks the audio ring holds
    EventLimit,    \* SubtitleSource's history budget
    MaxTroubles    \* bound: faults, stops and closed sinks in one behaviour

Streams == {"video", "audio", "subtitle"}
Playable == {"video", "audio"}
Packet == [stream : Streams, at : Nat, bytes : Nat]
NoPacket == [stream |-> "none", at |-> 0, bytes |-> 0]
Undeclared == -1

ASSUME BudgetAssumption ==
    /\ {PacketLimit, ByteLimit, FrameRoom, BlockRoom} \subseteq Nat \ {0}
    /\ {EventLimit, MaxTroubles} \subseteq Nat

(* Nothing is assumed of the order or the size of the packets.                  *)
ASSUME MediaAssumption ==
    Media \subseteq [packets : Seq(Packet), start : Nat,
                    audioStart : Nat \cup {Undeclared}, subtitled : BOOLEAN]

VARIABLES
    media,        \* the opened medium
    phase,        \* "opening", "running", "ended"
    demux,        \* [on, read, held]: the read loop, what it has read, the packet it pushes
    queue,        \* the router's three queues
    queued,       \* [packets, bytes]: its counters of what is in the three of them
    terminal,     \* FfmpegPacketRouter::m_terminal
    stop,         \* operationStop, shared by every thread of the operation
    worker,       \* [at, codec, flushing, outcome] of each stream's worker
    sinks,        \* the sinks that still take this operation's output
    frames,       \* the mailbox
    blocks,       \* the audio ring
    given,        \* how much each sink took
    due,          \* where the published audio ends (m_observedEndMicroseconds)
    clock,        \* the audio clock; it runs once the session started it
    running,      \* the session's preroll is complete
    paused,       \* the session never plays in this behaviour
    subtitles,    \* [events, failed]: SubtitleSource
    trouble,      \* what happened: subset of {"fault", "told", "closed"}
    faults,       \* how many troubles happened, for the bound
    answer        \* FfmpegMediaDecodeResult, "none" until it is returned

router == <<queue, queued>>
pipe == <<demux, router, terminal>>
output == <<frames, blocks, given, due>>
player == <<clock, running, paused>>
notes == <<trouble, faults>>
vars == <<media, phase, pipe, stop, worker, sinks, output, player, subtitles, notes, answer>>

Of(m, s) == {i \in DOMAIN m.packets : m.packets[i].stream = s}
HasAudio == Of(media, "audio") # {}

(* Audio that ends before the seek target is trimmed; every gap is filled, the  *)
(* one before the declared start of the audio too.                              *)
SoundEnd(m) ==
    Max({m.start} \cup {m.packets[i].at + 1 : i \in Of(m, "audio")}
                  \cup (IF Of(m, "audio") = {} THEN {} ELSE {m.audioStart}))

Total(m) == [video |-> Cardinality(Of(m, "video")), audio |-> SoundEnd(m) - m.start]

Idle == [at |-> "absent", codec |-> <<>>, flushing |-> FALSE, outcome |-> "none"]

Init ==
    /\ media \in Media
    /\ paused \in BOOLEAN
    /\ phase = "opening"
    /\ demux = [on |-> FALSE, read |-> 0, held |-> NoPacket]
    /\ queue = [s \in Streams |-> <<>>]
    /\ queued = [packets |-> 0, bytes |-> 0]
    /\ terminal = "open"
    /\ stop = FALSE
    /\ worker = [s \in Streams |-> Idle]
    /\ sinks = Playable
    /\ frames = <<>> /\ blocks = <<>>
    /\ given = [s \in Playable |-> 0]
    /\ due = media.start /\ clock = media.start
    /\ running = FALSE
    /\ subtitles = [events |-> 0, failed |-> FALSE]
    /\ trouble = {} /\ faults = 0
    /\ answer = "none"

-------------------------------------------------------------------------------
(* What may go wrong around the operation.                                      *)

Suffers(t) ==
    /\ faults < MaxTroubles
    /\ faults' = faults + 1
    /\ trouble' = trouble \cup {t}

(* The session's stop token; the stop_callback forwards it.                     *)
Stop ==
    /\ phase # "ended" /\ "told" \notin trouble
    /\ Suffers("told")
    /\ stop' = TRUE
    /\ UNCHANGED <<media, phase, pipe, worker, sinks, output, player, subtitles, answer>>

(* The mailbox or the sink moved to another generation.                         *)
CloseSink(s) ==
    /\ phase # "ended" /\ s \in sinks
    /\ Suffers("closed")
    /\ sinks' = sinks \ {s}
    /\ frames' = IF s = "video" THEN <<>> ELSE frames
    /\ blocks' = IF s = "audio" THEN <<>> ELSE blocks
    /\ UNCHANGED <<media, phase, pipe, stop, worker, given, due, player, subtitles, answer>>

-------------------------------------------------------------------------------
(* Opening: the input, its streams, the demuxer seek and the decoders.          *)

Ended(a) ==
    /\ phase' = "ended"
    /\ answer' = a
    /\ UNCHANGED <<media, pipe, worker, sinks, output, player>>

OpenCancelled ==
    /\ phase = "opening" /\ stop
    /\ Ended("cancelled")
    /\ UNCHANGED <<stop, subtitles, notes>>

OpenFails ==
    /\ phase = "opening" /\ ~stop
    /\ Suffers("fault")
    /\ Ended("error")
    /\ UNCHANGED <<stop, subtitles>>

(* A subtitle decoder that cannot be opened costs the subtitles, nothing else.  *)
Opens ==
    /\ phase = "opening" /\ ~stop
    /\ phase' = "running"
    /\ demux' = [demux EXCEPT !.on = TRUE]
    /\ \E shown \in IF media.subtitled THEN BOOLEAN ELSE {FALSE} :
          /\ worker' = [worker EXCEPT
                 !["video"].at = "pop",
                 !["audio"].at = IF HasAudio THEN "prime" ELSE "absent",
                 !["subtitle"].at = IF shown THEN "pop" ELSE "absent"]
          /\ subtitles' = [subtitles EXCEPT !.failed = media.subtitled /\ ~shown]
    /\ UNCHANGED <<media, router, terminal, stop, sinks, output, player, notes, answer>>

-------------------------------------------------------------------------------
(* FfmpegPacketRouter: one budget for three queues.                             *)

Least(a, b) == IF a < b THEN a ELSE b

(* Wrong: the room is looked for in what is queued, not for the packet itself.  *)
BugByteLimitLate(bytes) == queued.packets < PacketLimit /\ queued.bytes < ByteLimit

(* A packet larger than the whole budget is taken when nothing else is queued.  *)
CanAccept(bytes) ==
    /\ queued.packets < PacketLimit
    /\ queued.packets = 0 \/ bytes <= ByteLimit - Least(queued.bytes, ByteLimit)

(* The first terminal state wins.                                               *)
Finished(t) == IF terminal = "open" THEN t ELSE terminal

Demuxing == phase = "running" /\ demux.on
Reading == Demuxing /\ demux.held = NoPacket
DemuxFrame == UNCHANGED <<media, phase, stop, worker, sinks, output, player, subtitles, answer>>

(* Wrong: the stream index outlives the decoder that failed to open.            *)
BugRoutesToNobody(p) == p

(* A packet without a worker (the subtitles' that could not be opened) is       *)
(* dropped: nobody would take it out of the budget.                             *)
Destined(p) == IF worker[p.stream].at = "absent" THEN NoPacket ELSE p

ReadPacket ==
    /\ Reading /\ ~stop /\ demux.read < Len(media.packets)
    /\ demux' = [demux EXCEPT !.read = @ + 1, !.held = Destined(media.packets[demux.read + 1])]
    /\ UNCHANGED <<router, terminal, notes>> /\ DemuxFrame

ReadEnds ==
    /\ Reading /\ ~stop /\ demux.read = Len(media.packets)
    /\ demux' = [demux EXCEPT !.on = FALSE]
    /\ terminal' = Finished("endOfStream")
    /\ UNCHANGED <<router, notes>> /\ DemuxFrame

ReadFails ==
    /\ Reading /\ ~stop
    /\ Suffers("fault")
    /\ demux' = [demux EXCEPT !.on = FALSE]
    /\ terminal' = Finished("failed")
    /\ UNCHANGED router /\ DemuxFrame

(* The stop ends the read loop at its head, or interrupts a read under way,     *)
(* which also closes the router.                                                *)
ReadStops ==
    /\ Reading /\ stop
    /\ demux' = [demux EXCEPT !.on = FALSE]
    /\ terminal' \in {terminal, Finished("cancelled")}
    /\ UNCHANGED <<router, notes>> /\ DemuxFrame

(* push() waits for room, for a terminal state or for the stop.                 *)
PushPacket ==
    /\ Demuxing /\ demux.held # NoPacket
    /\ terminal = "open" /\ CanAccept(demux.held.bytes)
    /\ queue' = [queue EXCEPT ![demux.held.stream] = Append(@, demux.held)]
    /\ queued' = [packets |-> queued.packets + 1, bytes |-> queued.bytes + demux.held.bytes]
    /\ demux' = [demux EXCEPT !.held = NoPacket]
    /\ UNCHANGED <<terminal, notes>> /\ DemuxFrame

PushRefused ==
    /\ Demuxing /\ demux.held # NoPacket
    /\ terminal # "open" \/ (stop /\ ~CanAccept(demux.held.bytes))
    /\ demux' = [demux EXCEPT !.on = FALSE]
    /\ terminal' = Finished("cancelled")
    /\ UNCHANGED <<router, notes>> /\ DemuxFrame

Demux == ReadPacket \/ ReadEnds \/ ReadFails \/ ReadStops \/ PushPacket \/ PushRefused

-------------------------------------------------------------------------------
(* The workers.                                                                 *)

At(s, where) == phase = "running" /\ worker[s].at = where
WorkerFrame == UNCHANGED <<media, phase, demux, sinks, player, answer>>

(* A worker returns; a failure or a refused sink stops its siblings.            *)
Returns(s, outcome) ==
    /\ worker' = [worker EXCEPT ![s].at = "done", ![s].outcome = outcome]
    /\ IF s # "subtitle" /\ outcome \in {"error", "stopped"}
       THEN stop' = TRUE /\ terminal' = Finished("cancelled")
       ELSE UNCHANGED <<stop, terminal>>
    /\ UNCHANGED <<router, output, subtitles>> /\ WorkerFrame

(* Every loop looks at the stop token at its head and after each wait.          *)
Cancelled(s) ==
    /\ phase = "running" /\ worker[s].at \in {"prime", "pop", "decode"}
    /\ stop
    /\ Returns(s, "cancelled")
    /\ UNCHANGED notes

(* pop() delivers what is queued even after the terminal state.                 *)
TerminalReached(s) == At(s, "pop") /\ queue[s] = <<>> /\ ~stop /\ terminal # "open"

DemuxFailed(s) ==
    /\ TerminalReached(s) /\ terminal = "failed"
    /\ Returns(s, "error")
    /\ UNCHANGED notes

Takes(s, codec) ==
    /\ At(s, "pop") /\ queue[s] # <<>>
    /\ queue' = [queue EXCEPT ![s] = Tail(@)]
    /\ queued' = [packets |-> queued.packets - 1, bytes |-> queued.bytes - Head(queue[s]).bytes]
    /\ worker' = [worker EXCEPT ![s].at = "decode", ![s].codec = codec]
    /\ UNCHANGED <<terminal, stop, output, subtitles, notes>> /\ WorkerFrame

(* avcodec_send_packet of the packet popped last.                               *)
TakesPacket(s) == ~stop /\ Takes(s, Append(worker[s].codec, Head(queue[s]).at))

StartsFlush(s) ==
    /\ s # "subtitle"
    /\ TerminalReached(s) /\ terminal = "endOfStream"
    /\ worker' = [worker EXCEPT ![s].at = "decode", ![s].flushing = TRUE]
    /\ UNCHANGED <<router, terminal, stop, output, subtitles, notes>> /\ WorkerFrame

(* The video codec keeps one frame back for reordering until it is flushed.     *)
FrameReady(s) ==
    Len(worker[s].codec) > IF s = "video" /\ ~worker[s].flushing THEN 1 ELSE 0

NeedsInput(s) ==
    /\ s # "subtitle"
    /\ At(s, "decode") /\ ~stop /\ ~FrameReady(s) /\ ~worker[s].flushing
    /\ worker' = [worker EXCEPT ![s].at = "pop"]
    /\ UNCHANGED <<router, terminal, stop, output, subtitles, notes>> /\ WorkerFrame

(* Sending a packet, receiving a frame or converting it failed.                 *)
DecodeFails(s) ==
    /\ s # "subtitle"
    /\ At(s, "decode") /\ ~stop
    /\ Suffers("fault")
    /\ Returns(s, "error")

(* A video stream that produced no frame is an error.                           *)
Drained(s) ==
    /\ s # "subtitle"
    /\ At(s, "decode") /\ ~stop /\ ~FrameReady(s) /\ worker[s].flushing
    /\ Returns(s, IF s = "video" /\ given["video"] = 0 THEN "error" ELSE "ended")
    /\ UNCHANGED notes

SinkRefuses(s) ==
    /\ s # "subtitle" /\ s \notin sinks /\ ~stop
    /\ \/ At(s, "decode") /\ FrameReady(s)
       \/ At(s, "prime") /\ due < media.audioStart
    /\ Returns(s, "stopped")
    /\ UNCHANGED notes

DeliversFrame ==
    /\ At("video", "decode") /\ FrameReady("video") /\ ~stop
    /\ "video" \in sinks /\ Len(frames) < FrameRoom
    /\ frames' = Append(frames, Head(worker["video"].codec))
    /\ given' = [given EXCEPT !["video"] = @ + 1]
    /\ worker' = [worker EXCEPT !["video"].codec = Tail(@)]
    /\ UNCHANGED <<router, terminal, stop, blocks, due, subtitles, notes>> /\ WorkerFrame

-------------------------------------------------------------------------------
(* The audio worker: a block per packet, silence wherever nothing sounds.       *)

SubmitsBlock ==
    /\ ~stop /\ "audio" \in sinks /\ Len(blocks) < BlockRoom
    /\ blocks' = Append(blocks, due)
    /\ due' = due + 1
    /\ given' = [given EXCEPT !["audio"] = @ + 1]
    /\ UNCHANGED <<router, terminal, stop, frames, subtitles, notes>> /\ WorkerFrame

(* primeLeadingGap: the declared start of the stream is published as silence    *)
(* before the first packet is awaited.                                          *)
Primes ==
    /\ At("audio", "prime") /\ due < media.audioStart
    /\ UNCHANGED worker
    /\ SubmitsBlock

Primed ==
    /\ At("audio", "prime") /\ ~stop /\ due >= media.audioStart
    /\ worker' = [worker EXCEPT !["audio"].at = "pop"]
    /\ UNCHANGED <<router, terminal, stop, output, subtitles, notes>> /\ WorkerFrame

NextBlock == Head(worker["audio"].codec)
AudioReady == At("audio", "decode") /\ worker["audio"].codec # <<>>

(* beginForwardGap: silence up to the frame.                                    *)
FillsGap ==
    /\ AudioReady /\ due < NextBlock
    /\ UNCHANGED worker
    /\ SubmitsBlock

DeliversBlock ==
    /\ AudioReady /\ due = NextBlock
    /\ worker' = [worker EXCEPT !["audio"].codec = Tail(@)]
    /\ SubmitsBlock

(* submitSamples: the medium itself is at fault.                                *)
OverlapFails ==
    /\ AudioReady /\ ~stop
    /\ media.start <= NextBlock /\ NextBlock < due
    /\ trouble' = trouble \cup {"fault"} /\ UNCHANGED faults
    /\ Returns("audio", "error")

(* publish() keeps nothing of a block that ends before the seek target.         *)
TrimsBlock ==
    /\ AudioReady /\ ~stop /\ NextBlock < media.start
    /\ worker' = [worker EXCEPT !["audio"].codec = Tail(@)]
    /\ UNCHANGED <<router, terminal, stop, output, subtitles, notes>> /\ WorkerFrame

-------------------------------------------------------------------------------
(* The subtitle worker: after a failure it keeps draining its packets.          *)

SubtitlePublished(events, failed) ==
    /\ At("subtitle", "decode")
    /\ worker' = [worker EXCEPT !["subtitle"].at = "pop", !["subtitle"].codec = <<>>]
    /\ subtitles' = [events |-> events, failed |-> failed]
    /\ UNCHANGED <<router, terminal, stop, output, notes>> /\ WorkerFrame

(* SubtitleSource::append refuses an event beyond its budget, for good.         *)
PublishesSubtitle ==
    /\ ~subtitles.failed
    /\ LET full == subtitles.events = EventLimit
       IN SubtitlePublished(subtitles.events + (IF full THEN 0 ELSE 1), full)

SubtitleDecodeFails ==
    /\ ~subtitles.failed
    /\ SubtitlePublished(subtitles.events, TRUE)

DrainsSubtitle ==
    /\ subtitles.failed
    /\ SubtitlePublished(subtitles.events, TRUE)

SubtitlesEnd ==
    /\ TerminalReached("subtitle") /\ terminal = "endOfStream"
    /\ Returns("subtitle", "ended")
    /\ UNCHANGED notes

Video == \/ Cancelled("video") \/ DemuxFailed("video") \/ TakesPacket("video")
         \/ StartsFlush("video") \/ NeedsInput("video") \/ DecodeFails("video")
         \/ Drained("video") \/ SinkRefuses("video") \/ DeliversFrame

Audio == \/ Cancelled("audio") \/ DemuxFailed("audio") \/ TakesPacket("audio")
         \/ StartsFlush("audio") \/ NeedsInput("audio") \/ DecodeFails("audio")
         \/ Drained("audio") \/ SinkRefuses("audio")
         \/ Primes \/ Primed \/ FillsGap \/ DeliversBlock \/ OverlapFails \/ TrimsBlock

Subtitle == \/ Cancelled("subtitle") \/ DemuxFailed("subtitle") \/ TakesPacket("subtitle")
            \/ PublishesSubtitle \/ SubtitleDecodeFails \/ DrainsSubtitle \/ SubtitlesEnd

-------------------------------------------------------------------------------
(* The session plays what it was given.                                         *)

AudioOver == worker["audio"].at \in {"absent", "done"} /\ blocks = <<>>

(* Playback begins with a frame at or past the target and audio to play.        *)
Prerolled ==
    /\ phase = "running" /\ ~running /\ ~paused
    /\ \/ \E i \in DOMAIN frames : frames[i] >= media.start
       \/ worker["video"].at = "done"
    /\ blocks # <<>> \/ AudioOver
    /\ running' = TRUE
    /\ UNCHANGED <<media, phase, pipe, stop, worker, sinks, output, clock, paused,
                   subtitles, notes, answer>>

(* A frame is taken when it is due, a frame before the seek target at once.     *)
ShowFrame ==
    /\ phase = "running" /\ frames # <<>>
    /\ Head(frames) < media.start \/ (running /\ Head(frames) <= clock)
    /\ frames' = Tail(frames)
    /\ UNCHANGED <<media, phase, pipe, stop, worker, sinks, blocks, given, due, player,
                   subtitles, notes, answer>>

HearBlock ==
    /\ phase = "running" /\ running /\ blocks # <<>>
    /\ blocks' = Tail(blocks)
    /\ clock' = Head(blocks) + 1
    /\ UNCHANGED <<media, phase, pipe, stop, worker, sinks, frames, given, due, running, paused,
                   subtitles, notes, answer>>

(* Past the audio, or without any, the clock is monotonic time.                 *)
TailRuns ==
    /\ phase = "running" /\ running /\ AudioOver
    /\ frames # <<>> /\ clock < Head(frames)
    /\ clock' = clock + 1
    /\ UNCHANGED <<media, phase, pipe, stop, worker, sinks, output, running, paused,
                   subtitles, notes, answer>>

Player == Prerolled \/ ShowFrame \/ HearBlock \/ TailRuns

-------------------------------------------------------------------------------
(* The joins and the classification of what the workers returned.               *)

(* Wrong: a sibling's cancellation is looked at before what caused it.          *)
BugCancelledFirst ==
    LET outcomes == {worker[s].outcome : s \in Playable}
    IN IF "cancelled" \in outcomes THEN "cancelled"
       ELSE IF "error" \in outcomes THEN "error"
       ELSE IF "stopped" \in outcomes THEN "stopped" ELSE "success"

Classified ==
    LET outcomes == {worker[s].outcome : s \in Playable}
    IN IF "error" \in outcomes THEN "error"
       ELSE IF "stopped" \in outcomes THEN "stopped"
       ELSE IF "told" \in trouble \/ "cancelled" \in outcomes THEN "cancelled"
       ELSE "success"

Join ==
    /\ phase = "running" /\ ~demux.on
    /\ \A s \in Streams : worker[s].at \in {"absent", "done"}
    /\ Ended(Classified)
    /\ UNCHANGED <<stop, subtitles, notes>>

Next ==
    \/ Stop \/ \E s \in Playable : CloseSink(s)
    \/ OpenCancelled \/ OpenFails \/ Opens
    \/ Demux \/ Video \/ Audio \/ Subtitle
    \/ Player
    \/ Join

(* Every thread of the operation runs on; the session plays unless paused.      *)
Fairness ==
    /\ WF_vars(OpenCancelled \/ Opens) /\ WF_vars(Demux)
    /\ WF_vars(Video) /\ WF_vars(Audio) /\ WF_vars(Subtitle)
    /\ WF_vars(Prerolled) /\ WF_vars(ShowFrame) /\ WF_vars(HearBlock) /\ WF_vars(TailRuns)
    /\ WF_vars(Join)

Spec == Init /\ [][Next]_vars /\ Fairness

-------------------------------------------------------------------------------
Places == {"absent", "prime", "pop", "decode", "done"}
Terminals == {"open", "endOfStream", "failed", "cancelled"}
WorkerOutcomes == {"none", "ended", "error", "stopped", "cancelled"}

(* Every part of the operation has the type the code gives it.                  *)
TypeOK ==
    /\ media \in Media
    /\ phase \in {"opening", "running", "ended"}
    /\ demux \in [on : BOOLEAN, read : 0 .. Len(media.packets), held : Packet \cup {NoPacket}]
    /\ queue \in [Streams -> Seq(Packet)] /\ terminal \in Terminals
    /\ \A s \in Streams : /\ worker[s].at \in Places
                          /\ worker[s].outcome \in WorkerOutcomes
                          /\ Len(worker[s].codec) <= 2
    /\ stop \in BOOLEAN /\ running \in BOOLEAN /\ paused \in BOOLEAN
    /\ sinks \subseteq Playable
    /\ given \in [Playable -> Nat] /\ {due, clock} \subseteq Nat
    /\ subtitles \in [events : 0 .. EventLimit, failed : BOOLEAN]
    /\ trouble \subseteq {"fault", "told", "closed"} /\ faults \in 0 .. MaxTroubles
    /\ answer \in {"none", "success", "error", "stopped", "cancelled"}

Bytes(q) ==
    LET sum[n \in 0 .. Len(q)] == IF n = 0 THEN 0 ELSE sum[n - 1] + q[n].bytes
    IN sum[Len(q)]

(* FfmpegPacketRouter: however the threads take turns, its counters tell what is *)
(* in the three queues, which together stay within the count, and within        *)
(* max(limit, largest packet) in bytes, packets without any included.           *)
BudgetHeld ==
    /\ TypeOK
    /\ queued.packets = Len(queue["video"]) + Len(queue["audio"]) + Len(queue["subtitle"])
    /\ queued.bytes = Bytes(queue["video"]) + Bytes(queue["audio"]) + Bytes(queue["subtitle"])
    /\ queued.packets <= PacketLimit
    /\ \/ queued.bytes <= ByteLimit
       \/ \E s \in Streams : \E i \in DOMAIN queue[s] : queue[s][i].bytes = queued.bytes

(* decodeMediaFrames: no thread waits on another for ever.  Once the operation   *)
(* is stopped (by the session or by a failed sibling), and in any case while     *)
(* the session plays, every worker returns and the operation answers: a full     *)
(* packet budget, a gap before the audio, a full mailbox or ring, a failed or    *)
(* draining subtitle worker never hold it.                                      *)
OperationEnds == (stop \/ ~paused) ~> (phase = "ended")

(* The operation keeps the contract: what it answers is what happened.  Success  *)
(* means every frame and every block of sound or silence was handed over, an     *)
(* error needs a failure of the input, the video or the audio, never one of the  *)
(* subtitles nor the stop itself, and nothing is handed over after the answer.   *)
Contract == INSTANCE DecodeContract WITH
    Total <- Total, media <- media, given <- given, trouble <- trouble, answer <- answer
KeepsContract == Contract!Spec
================================================================================
