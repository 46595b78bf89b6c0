------------------------------ MODULE MediaSession ------------------------------
(* The playback state machine of MediaSession as the GUI thread sees it: open, *)
(* play, pause, stop, seek, track selection, retry, device loss and return,    *)
(* hardware fallback, the end of a medium, and the three clocks that move its  *)
(* position.  Threads are the subject of MediaPipeline: what a generation's    *)
(* threads produce (frames, the result, the audio output) arrives here in      *)
(* order, and what belongs to an abandoned generation is already refused.      *)
(*                                                                             *)
(* An operator on the state s stands for a function of the class; an action    *)
(* applies the one that an event reaches.  Media time is counted in frames.    *)
EXTENDS Integers, FiniteSets, FiniteSetsExt

CONSTANTS
  Duration,      \* declared duration of every medium, in frames
  Sources,       \* kinds of media that are opened: local files, remote streams
  TracksInRecovery  \* bound: whether tracks are changed while the device is away

ASSUME SessionAssumption ==
  /\ Duration \in Nat \ {0}
  /\ Sources \subseteq {"local", "remote"}
  /\ TracksInRecovery \in BOOLEAN

(* `refused` is a history variable, read by no action: the present device has  *)
(* failed to import the frames of this medium, and since then the user has not *)
(* asked for the medium anew (open, retry, replay).                            *)
VARIABLES session, refused

vars == <<session, refused>>

NoFrame == -1
Positions == 0..Duration
Frames == 0..(Duration - 1)

(* "late" of a grace period: it has begun; "due": its time is over.  `audio`   *)
(* is the sink's snapshot for this generation: none yet, no position known,    *)
(* a live position, a live position held by an underrun, drained, failed.      *)
Graces == {"off", "late", "due"}
Outputs == {"none", "silent", "live", "held", "drained", "failed"}
Devices == {"hardware", "unavailable"}

Init ==
  /\ session =
    [state |-> "Empty", intent |-> "Playing", audioIntent |-> TRUE, input |-> "none",
     seeking |-> FALSE, ended |-> FALSE, requested |-> 0,
     anchor |-> 0, anchored |-> FALSE, elapsed |-> 0,
     established |-> FALSE, tail |-> FALSE, interruption |-> "None",
     hold |-> "off", unavailable |-> "off", timer |-> FALSE,
     device |-> "unavailable", active |-> "unavailable", fallback |-> FALSE,
     reopen |-> FALSE, recoverAt |-> 0, recoverSeeking |-> FALSE,
     known |-> FALSE, tracks |-> FALSE,
     operation |-> "none", next |-> 0, discovered |-> FALSE, described |-> FALSE,
     drained |-> FALSE, queue |-> {}, woken |-> FALSE, last |-> NoFrame, shown |-> NoFrame,
     audio |-> "none", heard |-> 0]
  /\ refused = FALSE

Open(s) == s.state \in {"Opening", "Ready"}
Stopped(s) == s.intent = "Stopped"
PlayRequested(s) == s.intent = "Playing" /\ ~s.ended
IsPlaying(s) == s.state = "Ready" /\ PlayRequested(s) /\ s.interruption = "None"
UsesAudioClock(s) == s.audio # "none"
AudioPosition(s) == s.audio \in {"live", "held", "drained"}
NeedsMonitoring(s) == Open(s) /\ PlayRequested(s)
SeekOpening(s) == s.state = "Opening" /\ s.seeking
Seekable(s) == s.known /\ (s.state = "Ready" \/ s.seeking)

-------------------------------------------------------------------------------
(* mediaClockSnapshotAt: the audio clock, else its last anchor, else the      *)
(* monotonic clock from the anchor on.                                        *)
Advancing(s) == s.anchored /\ IsPlaying(s)

Position(s) ==
  IF ~s.tail /\ AudioPosition(s) THEN s.heard
  ELSE IF ~s.tail /\ UsesAudioClock(s) /\ s.established THEN s.anchor
  ELSE IF Advancing(s) THEN Min({s.anchor + s.elapsed, Duration})
  ELSE s.anchor

AnchorAt(s, position) == [s EXCEPT !.anchor = position, !.anchored = TRUE, !.elapsed = 0]

BugRestForgetsStop(s) == [s EXCEPT !.intent = "Paused", !.audioIntent = FALSE]

(* m_playbackIntent at the end of a medium and after an audio failure.        *)
Rest(s) ==
  [s EXCEPT !.intent = IF Stopped(s) THEN @ ELSE "Paused", !.audioIntent = FALSE]

ResetPlayback(s, position) ==
  [s EXCEPT !.drained = FALSE, !.discovered = FALSE, !.described = FALSE,
            !.timer = FALSE, !.ended = FALSE, !.seeking = FALSE,
            !.anchored = FALSE, !.anchor = position, !.elapsed = 0,
            !.established = FALSE, !.tail = FALSE, !.interruption = "None",
            !.hold = "off", !.unavailable = "off", !.requested = position,
            !.last = NoFrame]

BugCancelKeepsFrame(s) ==
  [s EXCEPT !.operation = "none", !.queue = {}, !.woken = FALSE, !.audio = "none", !.heard = 0,
            !.timer = FALSE, !.hold = "off", !.unavailable = "off"]

(* advanceGeneration, cancelPipeline, the empty mailbox and clearFrame: what   *)
(* the abandoned operation still produces is refused.                          *)
CancelPipeline(s) ==
  [s EXCEPT !.operation = "none", !.queue = {}, !.woken = FALSE, !.shown = NoFrame,
            !.audio = "none", !.heard = 0, !.timer = FALSE,
            !.hold = "off", !.unavailable = "off"]

StartDecode(s, position, device, seeking) ==
  LET r == ResetPlayback(CancelPipeline(s), position)
  IN [r EXCEPT !.state = "Opening", !.active = device, !.seeking = seeking,
               !.audioIntent = s.intent = "Playing",
               !.operation = "running", !.next = Min({position, Duration - 1}),
               !.timer = s.intent = "Playing"]

RestartAt(s, position, device, seeking) ==
  IF s.input = "none" THEN s ELSE StartDecode(s, position, device, seeking)

Fail(s) == [ResetPlayback(CancelPipeline(s), 0) EXCEPT !.state = "Error"]

-------------------------------------------------------------------------------
(* observeAudioOutput and updateAudioOutputState.  An audio failure leaves the *)
(* session in Error, which is how its callers see it.                          *)
FailAudio(s) == Rest(Fail(s))

ActivePlayback(s) == s.state = "Ready" /\ PlayRequested(s)

ObserveHold(s) ==
  IF ActivePlayback(s) /\ s.established /\ s.audio = "held"
  THEN [s EXCEPT !.hold = IF @ = "off" THEN "late" ELSE @,
                 !.interruption = IF s.hold = "due" THEN "Buffering" ELSE @]
  ELSE [s EXCEPT !.hold = "off",
                 !.interruption = IF ActivePlayback(s) /\ AudioPosition(s) THEN "None" ELSE @]
ObserveLoss(s) ==
  IF AudioPosition(s) \/ ~ActivePlayback(s) \/ ~s.established
  THEN [s EXCEPT !.unavailable = "off"]
  ELSE IF s.unavailable = "due" THEN FailAudio(s)
  ELSE [s EXCEPT !.unavailable = "late"]

StartTail(s) ==
  IF s.audio = "drained" /\ ~s.tail
  THEN [AnchorAt(s, s.heard) EXCEPT !.tail = TRUE, !.hold = "off", !.unavailable = "off",
                                    !.interruption = "None"]
  ELSE s

Observe(s) ==
  IF ~UsesAudioClock(s) THEN s
  ELSE IF s.audio = "failed" THEN FailAudio(s)
  ELSE LET a == IF AudioPosition(s) /\ ~s.tail
                THEN [AnchorAt(s, s.heard) EXCEPT !.established = TRUE] ELSE s
           b == ObserveLoss(ObserveHold(a))
       IN IF b.state = "Error" THEN b ELSE StartTail(b)

-------------------------------------------------------------------------------
(* enterReady and selectFrameForPresentation. *)
CanEnterReady(s) ==
  s.state = "Opening" /\ s.discovered /\ (s.described \/ s.queue # {})

EnterReady(s) ==
  LET r == [AnchorAt(s, s.requested) EXCEPT !.state = "Ready", !.known = TRUE]
      e == IF s.requested >= Duration THEN Rest([r EXCEPT !.ended = TRUE]) ELSE r
  IN [e EXCEPT !.timer = @ \/ NeedsMonitoring(e)]

FrameEnd(s) == s.last + 1

(* A remote source without an audio clock freezes at the end of its last       *)
(* frame while nothing has arrived, and continues from there.                  *)
WatchesStarvation(s) == s.input = "remote" /\ ~UsesAudioClock(s) /\ ~s.drained /\ PlayRequested(s)

Starve(s) ==
  [AnchorAt(s, FrameEnd(s)) EXCEPT !.interruption = "Buffering"]

Resume(s) == [s EXCEPT !.anchored = TRUE, !.elapsed = 0, !.interruption = "None"]

Starved(s) ==
  s.queue = {} /\ (s.interruption = "Buffering" \/ (s.last # NoFrame /\ Position(s) >= FrameEnd(s)))

BugScheduleIgnoresTail(s, clock, advancing) ==
  LET due == {f \in s.queue : f <= clock}
      t == IF due = {} THEN s
           ELSE [s EXCEPT !.queue = @ \ due, !.last = Max(due), !.shown = Max(due)]
      over == advancing /\ t.drained /\ ~UsesAudioClock(t) /\ t.queue = {} /\ t.last # NoFrame
                /\ clock >= Duration
      u == [t EXCEPT !.seeking = @ /\ due = {} /\ ~over]
  IN IF over THEN Rest([AnchorAt(u, Duration) EXCEPT !.ended = TRUE]) ELSE u

(* The scheduler takes the newest due frame; the medium ends when everything   *)
(* is drained and the clock has passed the declared end.                       *)
Schedule(s, clock, advancing) ==
  LET due == {f \in s.queue : f <= clock}
      t == IF due = {} THEN s
           ELSE [s EXCEPT !.queue = @ \ due, !.last = Max(due), !.shown = Max(due)]
      inputDrained == t.drained /\ (~UsesAudioClock(t) \/ t.tail)
      over == advancing /\ inputDrained /\ t.queue = {} /\ t.last # NoFrame /\ clock >= Duration
      u == [t EXCEPT !.seeking = @ /\ due = {} /\ ~over]
  IN IF over THEN Rest([AnchorAt(u, Duration) EXCEPT !.ended = TRUE]) ELSE u

SelectReady(s) ==
  IF WatchesStarvation(s) /\ Starved(s)
  THEN IF s.interruption = "Buffering" THEN s ELSE Starve(s)
  ELSE LET resumes == s.interruption = "Buffering" /\ ~UsesAudioClock(s) /\ (WatchesStarvation(s) \/ s.drained)
       IN Schedule(IF resumes THEN Resume(s) ELSE s, Position(s), Advancing(s))

Select(s) ==
  LET o == Observe(s)
  IN IF ~Open(o) THEN o
     ELSE IF CanEnterReady(o) THEN SelectReady(EnterReady(o))
     ELSE IF o.state = "Opening" THEN o
     ELSE SelectReady(o)

-------------------------------------------------------------------------------
(* What the user asks for. *)

\* openMedia with a valid input; a start position is a seek.
OpenMedia(source, position) ==
  session' = StartDecode(
    [session EXCEPT !.input = source, !.intent = "Playing", !.reopen = FALSE, !.recoverAt = 0,
                    !.recoverSeeking = FALSE, !.fallback = FALSE, !.known = FALSE, !.tracks = FALSE],
    position, session.device, position > 0)

\* failWithoutWorker: the input is refused.
OpenFails ==
  session' = [Fail(session) EXCEPT !.input = "none", !.reopen = FALSE, !.recoverAt = 0,
                                   !.recoverSeeking = FALSE, !.fallback = FALSE, !.known = FALSE, !.tracks = FALSE]

Cancel ==
  session' = [Fail(session) EXCEPT !.state = "Empty", !.intent = "Playing", !.audioIntent = TRUE,
                                   !.input = "none", !.reopen = FALSE, !.recoverAt = 0,
                                   !.recoverSeeking = FALSE, !.fallback = FALSE,
                                   !.known = FALSE, !.tracks = FALSE]

\* Whatever stays in the recovery fields is not read while `reopen` is false.
Retry ==
  /\ session.input # "none"
  /\ session' = RestartAt(
       [session EXCEPT !.intent = "Playing", !.reopen = FALSE, !.recoverAt = 0,
                       !.recoverSeeking = FALSE, !.fallback = FALSE], 0, session.device, FALSE)

\* play() after the end or a stop: from the start, or once the device is back.
Replay(s) ==
  LET p == [s EXCEPT !.intent = "Playing", !.fallback = FALSE]
  IN IF s.input = "none" THEN s
     ELSE IF s.reopen
     THEN ResetPlayback([p EXCEPT !.audioIntent = TRUE, !.recoverAt = 0, !.recoverSeeking = FALSE], 0)
     ELSE RestartAt(p, 0, s.device, FALSE)
Continue(s) ==
  LET p == [s EXCEPT !.intent = "Playing", !.audioIntent = TRUE]
      started == IF ~s.tail /\ UsesAudioClock(s) THEN [p EXCEPT !.timer = TRUE] ELSE p
      o == Observe([started EXCEPT !.anchored = TRUE, !.elapsed = 0])
  IN IF SeekOpening(s) THEN [p EXCEPT !.timer = TRUE]
     ELSE IF o.state = "Error" THEN o
     ELSE [o EXCEPT !.timer = TRUE]

Play ==
  /\ session.state = "Ready" \/ SeekOpening(session)
  /\ IF session.ended \/ Stopped(session) THEN session' = Replay(session)
     ELSE session.intent # "Playing" /\ session' = Continue(session)
BugHaltKeepsAnchor(s, intent) ==
  LET h == [s EXCEPT !.intent = intent, !.audioIntent = FALSE]
      o == IF s.state = "Ready" THEN Observe(h) ELSE h
  IN IF o.state = "Error" THEN o
     ELSE [AnchorAt(o, o.anchor) EXCEPT !.hold = "off", !.unavailable = "off", !.timer = FALSE]


Halt(s, intent) ==
  LET position == Position(s)
      h == [s EXCEPT !.intent = intent, !.audioIntent = FALSE]
      o == IF s.state = "Ready" THEN Observe(h) ELSE h
  IN IF o.state = "Error" THEN o
     ELSE [AnchorAt(o, position) EXCEPT !.hold = "off", !.unavailable = "off", !.timer = FALSE]

Pause ==
  /\ session.state = "Ready" \/ SeekOpening(session)
  /\ PlayRequested(session)
  /\ session' = Halt(session, "Paused")

Stop ==
  /\ Open(session) /\ ~Stopped(session)
  /\ session' = Halt(session, "Stopped")

BugSeekAsksDevice(position) ==
  /\ Seekable(session)
  /\ session' =
       IF session.reopen
       THEN [ResetPlayback(CancelPipeline(session), position) EXCEPT
               !.state = "Opening", !.seeking = TRUE, !.recoverAt = position, !.recoverSeeking = TRUE]
       ELSE RestartAt(session, position, session.device, TRUE)

\* Between the loss of the device and its return a seek only moves the target.
Seek(position) ==
  /\ Seekable(session)
  /\ session' =
       IF session.reopen
       THEN [ResetPlayback(CancelPipeline(session), position) EXCEPT
               !.state = "Opening", !.seeking = TRUE, !.recoverAt = position, !.recoverSeeking = TRUE]
       ELSE RestartAt(session, position, session.active, TRUE)

CurrentTarget(s) == IF s.state = "Opening" THEN s.requested ELSE Position(s)

\* selectVideoStream, selectAudioStream and selectSubtitleStream.
SelectStream ==
  /\ Open(session) /\ session.tracks
  /\ TracksInRecovery \/ ~session.reopen
  /\ session' = RestartAt(session, CurrentTarget(session), session.active, FALSE)

-------------------------------------------------------------------------------
(* The graphics device (invalidateGraphicsDevice, setVideoDecodeCapability)   *)
(* and failures to show a frame.                                              *)
DeviceLost ==
  LET lost == [session EXCEPT !.device = "unavailable", !.active = "unavailable"]
      target == CurrentTarget(session)
      r == ResetPlayback(CancelPipeline(lost), target)
  IN session' =
       IF ~Open(session) \/ session.input = "none" THEN lost
       ELSE [r EXCEPT !.state = "Opening", !.reopen = TRUE, !.recoverAt = target,
                      !.recoverSeeking = session.seeking, !.seeking = session.seeking,
                      !.fallback = FALSE]

\* The engine sets the capability of each device it creates, with or without
\* hardware decoding.
DeviceReturns(device) ==
  /\ session.device = "unavailable"
  /\ LET back == [session EXCEPT !.device = device]
     IN session' =
          IF ~session.reopen THEN [back EXCEPT !.active = device]
          ELSE RestartAt([back EXCEPT !.reopen = FALSE, !.recoverAt = 0, !.recoverSeeking = FALSE],
                         session.recoverAt, device, session.recoverSeeking)

SeekInProgress(s) == s.seeking /\ Open(s)

\* handlePresentationFailure: one restart in software, then the error is shown.
PresentationFails(kind) ==
  /\ session.state = "Ready" \/ SeekInProgress(session)
  /\ ~session.reopen
  /\ kind = "import" => session.active = "hardware" /\ session.shown # NoFrame
  /\ session' =
       IF kind = "import" /\ ~session.fallback
       THEN RestartAt([session EXCEPT !.fallback = TRUE], Position(session), "unavailable",
                      SeekInProgress(session))
       ELSE Fail(session)

-------------------------------------------------------------------------------
(* What the current generation's threads deliver. *)
Running == session.operation = "running"

\* A posted wake does something only while the session is opening; after that
\* it asks for the next Present.
Awaited == session.state = "Opening"

\* Stream discovery has reached the GUI thread; the first diagnostics may only
\* come with the first frame.
DiscoverStreams(described) ==
  /\ Running /\ ~session.discovered
  /\ session' = [session EXCEPT !.discovered = TRUE, !.described = described, !.tracks = TRUE,
                                !.woken = TRUE]

\* A frame enters the mailbox; frames may be missing before it.
DecodeFrame(frame) ==
  /\ Running /\ session.discovered
  /\ frame >= session.next
  /\ session' = [session EXCEPT !.queue = @ \cup {frame}, !.next = frame + 1,
                                !.woken = Awaited]

FramesAvailable ==
  /\ session.woken
  /\ LET w == [session EXCEPT !.woken = FALSE]
     IN session' = IF w.state = "Opening" THEN Select(w) ELSE w

BugCompletionKeepsSeeking ==
  /\ Running /\ session.discovered
  /\ LET d == [session EXCEPT !.operation = "none", !.drained = TRUE, !.known = TRUE]
     IN session' = IF d.state = "Opening" THEN Select(d) ELSE d

\* completeDecode with a drained decoder.
DecodeCompletes ==
  /\ Running /\ session.discovered
  /\ LET done == [session EXCEPT !.operation = "none", !.drained = TRUE, !.known = TRUE]
         d == IF session.seeking /\ session.queue = {}
              THEN [done EXCEPT !.seeking = FALSE, !.shown = NoFrame] ELSE done
     IN session' = IF d.state = "Opening" THEN Select(d) ELSE d

DecodeFails ==
  /\ Running
  /\ session' = Fail(session)

-------------------------------------------------------------------------------
(* The audio output of this generation, as its snapshots show it. *)
Output(status) == session' = [session EXCEPT !.audio = status]

AudioOpens ==
  /\ Running /\ session.discovered /\ session.audio = "none"
  /\ session' = [session EXCEPT !.audio = "silent", !.heard = session.requested,
                                !.woken = Awaited]

AudioReports == session.audio \in {"silent", "held"} /\ Output("live")

AudioAdvances ==
  /\ session.audio = "live" /\ session.audioIntent /\ session.heard < Duration
  /\ session' = [session EXCEPT !.heard = @ + 1]

AudioStarves == session.audio = "live" /\ session.audioIntent /\ Output("held")

AudioSilences == session.audio \in {"live", "held"} /\ Output("silent")

\* Everything submitted has been heard; audio may be shorter than the video.
AudioDrains ==
  /\ session.audio \in {"silent", "live", "held"} /\ session.audioIntent
  /\ \E end \in session.heard..Duration :
       session' = [session EXCEPT !.audio = "drained", !.heard = end]

AudioFails == session.audio \notin {"none", "failed"} /\ Output("failed")

-------------------------------------------------------------------------------
(* Time, the monitor's timer and the presentation engine. *)
Tick(s) ==
  [s EXCEPT !.elapsed = IF s.anchored /\ s.anchor + @ < Duration THEN @ + 1 ELSE @,
            !.hold = IF @ = "late" THEN "due" ELSE @,
            !.unavailable = IF @ = "late" THEN "due" ELSE @]

TimePasses ==
  session.state = "Ready" /\ session # Tick(session) /\ session' = Tick(session)

\* prepareForPresentation from a render pass.
Present == Open(session) /\ session' = Select(session)

Monitor(s) ==
  IF ~Open(s) THEN [s EXCEPT !.timer = FALSE]
  ELSE LET o == Select(s)
       IN IF o.state = "Ready" /\ ~NeedsMonitoring(o) THEN [o EXCEPT !.timer = FALSE] ELSE o

MonitorPlayback == session.timer /\ session' = Monitor(session)

\* A replay asks for the medium anew; a pause that ends does not.
Asks ==
  \/ \E source \in Sources, position \in Positions : OpenMedia(source, position)
  \/ OpenFails \/ Cancel \/ Retry
  \/ (session.ended \/ Stopped(session)) /\ Play

Steers ==
  \/ ~(session.ended \/ Stopped(session)) /\ Play
  \/ Pause \/ Stop \/ SelectStream
  \/ \E position \in Positions : Seek(position)

User == Asks \/ Steers

Returns == \E device \in Devices : DeviceReturns(device)

Decode ==
  \/ \E described \in BOOLEAN : DiscoverStreams(described)
  \/ \E frame \in Frames : DecodeFrame(frame)
  \/ DecodeCompletes \/ DecodeFails

Audio ==
  AudioOpens \/ AudioReports \/ AudioAdvances \/ AudioStarves \/ AudioSilences \/ AudioDrains \/ AudioFails

Next ==
  \/ (Asks \/ Returns) /\ refused' = FALSE
  \/ PresentationFails("import") /\ refused' = TRUE
  \/ /\ \/ Steers \/ DeviceLost \/ PresentationFails("other") \/ Decode \/ Audio
        \/ FramesAvailable \/ TimePasses \/ Present \/ MonitorPlayback
     /\ UNCHANGED refused

Spec == Init /\ [][Next]_vars

-------------------------------------------------------------------------------
TypeOK ==
  /\ refused \in BOOLEAN
  /\ session \in
    [state : {"Empty", "Opening", "Ready", "Error"}, intent : {"Playing", "Paused", "Stopped"},
     audioIntent : BOOLEAN, input : {"none", "local", "remote"},
     seeking : BOOLEAN, ended : BOOLEAN, requested : Positions,
     anchor : Positions, anchored : BOOLEAN, elapsed : Positions,
     established : BOOLEAN, tail : BOOLEAN, interruption : {"None", "Buffering"},
     hold : Graces, unavailable : Graces, timer : BOOLEAN,
     device : Devices, active : Devices, fallback : BOOLEAN,
     reopen : BOOLEAN, recoverAt : Positions, recoverSeeking : BOOLEAN,
     known : BOOLEAN, tracks : BOOLEAN,
     operation : {"none", "running"}, next : Positions, discovered : BOOLEAN, described : BOOLEAN,
     drained : BOOLEAN, queue : SUBSET Frames, woken : BOOLEAN,
     last : Frames \cup {NoFrame}, shown : Frames \cup {NoFrame},
     audio : Outputs, heard : Positions]

(* A picture is on the screen only while its medium is Ready and no seek is    *)
(* under way: no failure, restart, recovery or close leaves the old one there. *)
ShownIsCurrent ==
  /\ TypeOK
  /\ session.shown # NoFrame => session.state = "Ready" /\ ~session.seeking

(* Recovery, track changes, failures and the end of the medium keep a stopped  *)
(* session stopped; only the user starts it again.                             *)
StoppedStays ==
  [][Stopped(session) /\ session'.intent # "Stopped" =>
       session'.intent = "Playing" /\ User]_session

(* Once a device has failed to import this medium's frames, the hardware is    *)
(* not used again before the user asks for the medium anew (open, retry,       *)
(* replay) or another device is made: no seek, track change, audio failure,    *)
(* loss of the device or end of the medium goes back to it, so failing imports *)
(* cannot restart the medium over and over.                                    *)
FallbackSticks == refused => session.active # "hardware"

(* Once the audio clock is established the position of a generation never goes *)
(* back: not at a pause, at a loss of the clock or at the hand-over to the     *)
(* clock that carries the video after the audio.                               *)
Observed(s) == IF s.tail THEN Position(s) ELSE s.anchor
ClockNeverRewinds ==
  [][session.state = "Ready" /\ session'.state = "Ready" /\ session.established /\ session'.established
       => Observed(session') >= Observed(session)]_session

(* Nothing but the user, the graphics device or a render pass can change the   *)
(* session: the decoder and the audio device are through (the latter may have  *)
(* fallen silent), the timer's work is done and the clocks are at rest.        *)
Settled(s) ==
  /\ s.operation = "none" /\ ~s.woken
  /\ s.audio \in {"none", "drained", "failed"} \/ (s.audio = "silent" /\ s.established)
  /\ s.state = "Ready" => Tick(s) = s
  /\ s.timer => Monitor(s) = s

(* A medium that has shown a picture and is left playing ends, or fails: no    *)
(* drained decoder, silent device, hand-over of the clock or hidden window     *)
(* leaves a session that waits for nothing.                                    *)
PlaybackNeverStalls ==
  Settled(session) /\ session.state = "Ready" /\ PlayRequested(session) => session.last = NoFrame

(* A seek with playback asked for completes, with a frame or at the end of the *)
(* input, unless the device is away.                                           *)
SeekNeverStalls ==
  Settled(session) /\ SeekInProgress(session) /\ PlayRequested(session) => session.reopen

(* docs/subsystems/playback/README.md:106-110: recreation of the device "holds *)
(* the session in Opening until it can restart at that position".              *)
RecoveryHoldsPosition ==
  session.reopen => session.state = "Opening" /\ session.operation = "none"
                      /\ session.requested = session.recoverAt
===============================================================================
