----------------------------- MODULE MediaPipeline -----------------------------
(***************************************************************************)
(* The threads behind one MediaSession (MediaSession.cpp) and what they    *)
(* share: the GUI thread that opens, restarts, closes, fails and shuts     *)
(* down; the supervisor worker that runs one decode operation at a time;   *)
(* the video and audio decode threads of that operation; the decoded-frame *)
(* mailbox (VideoFrameQueue.cpp); and the audio sink, of which only the    *)
(* contract of AudioSink.h is used.                                        *)
(*                                                                         *)
(* A GUI handler is broken at every lock it takes, so the threads run      *)
(* between its steps.  A step of another thread is what that thread does   *)
(* under one lock.  Frames carry the generation that decoded them; media   *)
(* time is abstracted to whether the presentation clock can advance.       *)
(***************************************************************************)
EXTENDS Naturals, Sequences

CONSTANTS
  MaxGeneration,  \* bound: playback generations the GUI thread starts
  FrameCapacity,  \* VideoFrameQueue::capacity (3)
  SinkCapacity    \* PCM blocks the sink buffers before submit() waits

ASSUME PipelineBounds ==
  /\ MaxGeneration \in Nat \ {0}
  /\ FrameCapacity \in Nat \ {0}
  /\ SinkCapacity \in Nat \ {0}

VARIABLES
  (* GUI thread *)
  generation,   \* m_playbackGeneration
  state,        \* m_state; Opening and Ready together are "Live"
  playing,      \* m_playbackIntent = Playing
  gui,          \* the step the running handler takes next, "idle" between events
  goal,         \* which handler is running
  shown,        \* generation of the displayed frame, 0 for none
  decoderDrained, ended, \* m_decoderDrained, m_ended
  (* shared by the GUI thread and the worker under m_workerMutex *)
  pendingOpen,  \* generation of m_pendingOpen, 0 for none
  opStop,       \* stop requested on m_operationStopSource
  workerStop,   \* stop requested on the worker jthread
  (* the worker and the threads of its operation *)
  worker,
  operation,    \* generation of the running operation, 0 for none
  video, audio, \* what each decode thread does next, or how it ended
  audioReady,   \* audioOutputInitialized of the running operation
  (* audio output, under m_audioSinkLifecycleMutex except where noted *)
  audioIntent,    \* m_audioPlayIntent (atomic, also accessed without the lock)
  sinkGeneration, \* m_audioSinkGeneration (atomic, read without the lock)
  sink,           \* external: the sink's epoch, and what it holds
  (* video output, under the mailbox mutex *)
  queueGeneration, frames,
  metricsGeneration, \* m_playbackMetricsGeneration, under its own mutex
  completions     \* completeDecode calls posted to the GUI event loop

ending == <<decoderDrained, ended>>
guiVars == <<generation, state, playing, gui, goal, shown, ending>>
requestVars == <<pendingOpen, opStop, workerStop>>
threadVars == <<worker, operation, video, audio, audioReady>>
audioVars == <<audioIntent, sinkGeneration, sink>>
queueVars == <<queueGeneration, frames>>
vars == <<guiVars, requestVars, threadVars, audioVars, queueVars,
          metricsGeneration, completions>>

Generations == 0..MaxGeneration
Goals == {"open", "restart", "park", "close", "error", "audioFailed",
          "decodeFailed", "playPause", "shutdown"}
GuiPoints == {"idle", "stopWorker", "cancelAudio", "resetQueue", "notified",
              "resetPlayback", "submit", "applyIntent", "join", "gone"}
WorkerPoints == {"waiting", "running", "fallback", "exited"}
Ended == {"none", "eof", "failed", "stopped", "cancelled"}
VideoPoints == Ended \cup {"decode", "frame", "push"}
AudioPoints == Ended \cup {"decode", "block", "lock", "locked", "opened",
                           "armed", "submit", "finish"}
Outcomes == {"success", "failed", "cancelled"}

Silent == [epoch |-> 0, running |-> FALSE, fill |-> 0, presented |-> FALSE,
           finished |-> FALSE, failed |-> FALSE]

(* The code numbers generations from 1 and runs no operation for the first;  *)
(* here that one is 0.                                                        *)
Init ==
  /\ generation = 0
  /\ state = "Empty"
  /\ playing = TRUE
  /\ gui = "idle"
  /\ goal = "close"
  /\ shown = 0
  /\ decoderDrained = FALSE
  /\ ended = FALSE
  /\ pendingOpen = 0
  /\ opStop = FALSE
  /\ workerStop = FALSE
  /\ worker = "waiting"
  /\ operation = 0
  /\ video = "none"
  /\ audio = "none"
  /\ audioReady = FALSE
  /\ audioIntent = TRUE
  /\ sinkGeneration = 0
  /\ sink = Silent
  /\ queueGeneration = 0
  /\ frames = <<>>
  /\ metricsGeneration = 0
  /\ completions = <<>>

(* m_audioSinkLifecycleMutex is held across steps only while the audio       *)
(* thread opens its output.                                                  *)
LifecycleFree == audio \notin {"locked", "opened", "armed"}

(* The decode threads watch the operation's stop, which the session requests *)
(* and which a sibling that failed or was refused by its sink requests too.  *)
SiblingStopped == {video, audio} \cap {"failed", "stopped"} # {}
BugStopNotLinked == SiblingStopped
StopSeen == opStop \/ SiblingStopped

-------------------------------------------------------------------------------
(* GUI handlers.  Begin is the part before the first lock. *)

Advances(what) == what \in {"open", "restart", "park", "close", "error"}

Begin(what) ==
  /\ Advances(what) => generation < MaxGeneration
  /\ generation' = IF Advances(what) THEN generation + 1 ELSE generation
  /\ goal' = what
  /\ gui' = IF what = "decodeFailed" THEN "cancelAudio" ELSE "stopWorker"
  /\ playing' \in CASE what = "open" -> {TRUE}
                    [] what = "restart" -> {playing, TRUE}  \* retry and replay play
                    [] OTHER -> {playing}
  /\ audioIntent' = IF what = "open" THEN TRUE ELSE audioIntent

(* openMedia, seek/retry/track change, graphics loss, cancel, and the errors  *)
(* of failWithoutWorker and handlePresentationFailure.  A handler that clears *)
(* the frame notifies observers, who may call back in: the outer handler then *)
(* finds a newer generation and returns.                                      *)
UserRequest(what) ==
  /\ gui \in {"idle", "notified"}
  /\ what \in {"restart", "park"} =>
       state = "Live" \/ (what = "restart" /\ state = "Error")
  /\ gui = "notified" => what # "park"  \* the engine loses its device in its own events
  /\ Begin(what)
  /\ UNCHANGED <<state, shown, requestVars, threadVars, sinkGeneration, sink,
                 queueVars, metricsGeneration, completions, ending>>

(* observeAudioOutput of a handler finds the current sink epoch failed. *)
AudioOutputFailed ==
  /\ gui = "idle"
  /\ state = "Live"
  /\ generation # 0
  /\ sinkGeneration = generation
  /\ sink.epoch = generation
  /\ sink.failed
  /\ Begin("audioFailed")
  /\ UNCHANGED <<state, shown, requestVars, threadVars, sinkGeneration, sink,
                 queueVars, metricsGeneration, completions, ending>>

BugCompletionOfAnyGeneration ==
  /\ gui = "idle"
  /\ completions # <<>>
  /\ completions' = Tail(completions)
  /\ LET done == Head(completions)
     IN /\ IF state = "Live" /\ done.outcome = "failed"
           THEN Begin("decodeFailed")
           ELSE UNCHANGED <<generation, goal, gui, playing, audioIntent>>
        /\ decoderDrained' = (decoderDrained \/ (state = "Live" /\ done.outcome = "success"))
  /\ UNCHANGED <<state, shown, requestVars, threadVars, sinkGeneration, sink,
                 queueVars, metricsGeneration, ended>>

(* completeDecode. *)
DecodeCompleted ==
  /\ gui = "idle"
  /\ completions # <<>>
  /\ completions' = Tail(completions)
  /\ LET done == Head(completions)
         current == done.generation = generation /\ state = "Live"
     IN /\ IF current /\ done.outcome = "failed"
           THEN Begin("decodeFailed")
           ELSE UNCHANGED <<generation, goal, gui, playing, audioIntent>>
        /\ decoderDrained' = (decoderDrained \/ (current /\ done.outcome = "success"))
  /\ UNCHANGED <<state, shown, requestVars, threadVars, sinkGeneration, sink,
                 queueVars, metricsGeneration, ended>>

(* play() and haltPlayback() record the intent before they take the lock. *)
PlayPause ==
  /\ gui = "idle"
  /\ state = "Live"
  /\ playing' = (~playing /\ ~ended)  \* play() at the end is a restart
  /\ audioIntent' = playing'
  /\ gui' = "applyIntent"
  /\ goal' = "playPause"
  /\ UNCHANGED <<generation, state, shown, requestVars, threadVars, sinkGeneration,
                 sink, queueVars, metricsGeneration, completions, ending>>

Drained(s) == s.finished /\ s.fill = 0

(* After the tail clock takes over, a drained sink is left as it is. *)
ApplyIntent ==
  /\ gui = "applyIntent"
  /\ LifecycleFree
  /\ gui' = "idle"
  /\ \/ sink' = IF sinkGeneration = generation /\ sink.epoch = generation
                THEN [sink EXCEPT !.running = audioIntent] ELSE sink
     \/ Drained(sink) /\ UNCHANGED sink
  /\ UNCHANGED <<generation, state, playing, goal, shown, requestVars, threadVars,
                 audioIntent, sinkGeneration, queueVars, metricsGeneration, completions,
                 ending>>

BugForgetWorkerStop ==
  /\ gui = "idle"
  /\ gui' = "stopWorker"
  /\ goal' = "shutdown"
  /\ UNCHANGED <<generation, state, playing, shown, requestVars, threadVars,
                 audioVars, queueVars, metricsGeneration, completions, ending>>

(* ~MediaSession calls shutdownWorker. *)
BeginShutdown ==
  /\ gui = "idle"
  /\ workerStop' = TRUE
  /\ gui' = "stopWorker"
  /\ goal' = "shutdown"
  /\ UNCHANGED <<generation, state, playing, shown, pendingOpen, opStop, threadVars,
                 audioVars, queueVars, metricsGeneration, completions, ending>>

BugKeepPending ==
  /\ gui = "stopWorker"
  /\ opStop' = TRUE
  /\ gui' = "cancelAudio"
  /\ UNCHANGED <<generation, state, playing, goal, shown, pendingOpen, workerStop,
                 threadVars, audioVars, queueVars, metricsGeneration, completions, ending>>

(* cancelPipeline, first half. *)
StopWorker ==
  /\ gui = "stopWorker"
  /\ opStop' = TRUE
  /\ pendingOpen' = 0
  /\ gui' = "cancelAudio"
  /\ UNCHANGED <<generation, state, playing, goal, shown, workerStop, threadVars,
                 audioVars, queueVars, metricsGeneration, completions, ending>>

(* cancelAudioOutput: exchange the generation, then sink->cancel(it). *)
CancelAudio ==
  /\ gui = "cancelAudio"
  /\ LifecycleFree
  /\ sinkGeneration' = 0
  /\ sink' = IF sinkGeneration # 0 /\ sink.epoch = sinkGeneration THEN Silent ELSE sink
  /\ gui' = "resetQueue"
  /\ UNCHANGED <<generation, state, playing, goal, shown, requestVars, threadVars,
                 audioIntent, queueVars, metricsGeneration, completions, ending>>

(* m_frameQueue.reset and m_videoSource.clearFrame. *)
ResetQueue ==
  /\ gui = "resetQueue"
  /\ queueGeneration' = IF goal = "shutdown" THEN 0 ELSE generation
  /\ frames' = <<>>
  /\ shown' = IF goal = "shutdown" THEN shown ELSE 0
  /\ gui' = CASE goal = "shutdown" -> "join"
              [] goal # "shutdown" /\ shown # 0 -> "notified"
              [] OTHER -> "resetPlayback"
  /\ UNCHANGED <<generation, state, playing, goal, requestVars, threadVars, audioVars,
                 metricsGeneration, completions, ending>>

(* clearFrame's observers returned without starting another request. *)
ObserversReturned ==
  /\ gui = "notified"
  /\ gui' = "resetPlayback"
  /\ UNCHANGED <<generation, state, playing, goal, shown, requestVars, threadVars,
                 audioVars, queueVars, metricsGeneration, completions, ending>>

(* The new state, resetPlayback and, for a restart, the audio play intent. *)
ResetPlayback ==
  /\ gui = "resetPlayback"
  /\ metricsGeneration' = generation
  /\ state' = CASE goal \in {"open", "restart", "park"} -> "Live"
                [] goal = "close" -> "Empty"
                [] OTHER -> "Error"
  /\ playing' = CASE goal = "close" -> TRUE
                  [] goal = "audioFailed" -> FALSE
                  [] OTHER -> playing
  /\ audioIntent' = IF goal \in {"open", "restart", "close", "audioFailed"}
                    THEN playing' ELSE audioIntent
  /\ decoderDrained' = FALSE
  /\ ended' = FALSE
  /\ gui' = IF goal \in {"open", "restart"} THEN "submit" ELSE "idle"
  /\ UNCHANGED <<generation, goal, shown, requestVars, threadVars, sinkGeneration,
                 sink, queueVars, completions>>

SubmitOpen ==
  /\ gui = "submit"
  /\ opStop' = TRUE
  /\ pendingOpen' = generation
  /\ gui' = "idle"
  /\ UNCHANGED <<generation, state, playing, goal, shown, workerStop, threadVars,
                 audioVars, queueVars, metricsGeneration, completions, ending>>

JoinWorker ==
  /\ gui = "join"
  /\ worker = "exited"
  /\ gui' = "gone"
  /\ UNCHANGED <<generation, state, playing, goal, shown, requestVars, threadVars,
                 audioVars, queueVars, metricsGeneration, completions, ending>>

(* The clock of mediaClockSnapshotAt: the audio device's once it has presented *)
(* anything, a monotonic one before that and after the audio has drained.      *)
ClockAdvances ==
  /\ playing
  /\ \/ sinkGeneration # generation
     \/ ~sink.presented
     \/ sink.running /\ sink.fill > 0
     \/ Drained(sink)

(* selectFrameForPresentation publishes a due frame; the first frame of a     *)
(* generation is due at once, at the position playback was restarted at.      *)
SelectFrame ==
  /\ gui = "idle"
  /\ state = "Live"
  /\ queueGeneration = generation
  /\ frames # <<>>
  /\ ~(sinkGeneration = generation /\ sink.failed)
  /\ shown = 0 \/ ClockAdvances
  /\ shown' = Head(frames)
  /\ frames' = Tail(frames)
  /\ UNCHANGED <<generation, state, playing, gui, goal, requestVars, threadVars,
                 audioVars, queueGeneration, metricsGeneration, completions, ending>>

(* The end of the media: everything decoded and presented, or a position at   *)
(* the end found when the streams of the operation become known (enterReady). *)
EndReached ==
  /\ gui = "idle"
  /\ state = "Live"
  /\ ~ended
  /\ \/ /\ decoderDrained
        /\ frames = <<>>
        /\ sinkGeneration # generation \/ Drained(sink)
     \/ shown = 0 /\ (decoderDrained \/ operation = generation)
  /\ ended' = TRUE
  /\ playing' = FALSE
  /\ audioIntent' = FALSE
  /\ UNCHANGED <<generation, state, gui, goal, shown, decoderDrained, requestVars,
                 threadVars, sinkGeneration, sink, queueVars, metricsGeneration,
                 completions>>

-------------------------------------------------------------------------------
(* workerLoop: take the newest request, run its operation, report it. *)

BugReuseStopSource ==
  /\ worker = "waiting"
  /\ ~workerStop
  /\ pendingOpen # 0
  /\ ~opStop
  /\ operation' = pendingOpen
  /\ pendingOpen' = 0
  /\ worker' = "running"
  /\ video' = "decode"
  /\ audio' \in {"decode", "none"}
  /\ audioReady' = FALSE
  /\ UNCHANGED <<guiVars, opStop, workerStop, audioVars, queueVars,
                 metricsGeneration, completions>>

TakeRequest ==
  /\ worker = "waiting"
  /\ ~workerStop
  /\ pendingOpen # 0
  /\ operation' = pendingOpen
  /\ pendingOpen' = 0
  /\ opStop' = FALSE
  /\ worker' = "running"
  /\ video' = "decode"
  /\ audio' \in {"decode", "none"}  \* media may have no audio to output
  /\ audioReady' = FALSE
  /\ UNCHANGED <<guiVars, workerStop, audioVars, queueVars, metricsGeneration,
                 completions>>

ExitWorker ==
  /\ worker = "waiting"
  /\ workerStop
  /\ worker' = "exited"
  /\ UNCHANGED <<guiVars, requestVars, operation, video, audio, audioReady, audioVars,
                 queueVars, metricsGeneration, completions>>

(* A worker told to stop returns without posting. *)
Report(outcome) ==
  /\ operation' = 0
  /\ video' = "none"
  /\ audio' = "none"
  /\ IF workerStop
     THEN worker' = "exited" /\ UNCHANGED completions
     ELSE /\ worker' = "waiting"
          /\ completions' = Append(completions,
                 [generation |-> operation, outcome |-> outcome])
  /\ UNCHANGED <<guiVars, requestVars, audioReady, audioVars, metricsGeneration>>

(* decodeMediaFrames returns once its threads are joined.  An error or a sink *)
(* that refused output wins over cancellation.                                *)
EndFailed ==
  /\ worker = "running"
  /\ {video, audio} \subseteq Ended
  /\ SiblingStopped
  /\ Report("failed")
  /\ UNCHANGED queueVars

EndCancelled ==
  /\ worker = "running"
  /\ {video, audio} \subseteq Ended
  /\ ~SiblingStopped
  /\ opStop \/ "cancelled" \in {video, audio}
  /\ Report("cancelled")
  /\ UNCHANGED queueVars

EndSucceeded ==
  /\ worker = "running"
  /\ {video, audio} \subseteq {"eof", "none"}
  /\ ~opStop
  /\ worker' = "fallback"
  /\ UNCHANGED <<guiVars, requestVars, operation, video, audio, audioReady, audioVars,
                 queueVars, metricsGeneration, completions>>

(* VideoFrameQueue::push: it waits for room, for a newer generation or for    *)
(* the session's stop, and refuses unless there is room in its generation.    *)
PushReturns == queueGeneration # operation \/ Len(frames) < FrameCapacity \/ opStop
BugPushIgnoresGeneration == Len(frames) < FrameCapacity
BugPushWithoutRoom == queueGeneration = operation
PushAccepts == queueGeneration = operation /\ Len(frames) < FrameCapacity

Push ==
  /\ PushReturns
  /\ frames' = IF PushAccepts THEN Append(frames, operation) ELSE frames
  /\ UNCHANGED queueGeneration

(* After a success the preroll gate may hold one last frame to push. *)
ReportSuccess ==
  /\ worker = "fallback"
  /\ Push \/ UNCHANGED queueVars
  /\ Report("success")

-------------------------------------------------------------------------------
(* The video decode thread. *)

VideoGoes(next) ==
  /\ video' = next
  /\ UNCHANGED <<guiVars, requestVars, worker, operation, audio, audioReady, audioVars,
                 metricsGeneration, completions>>

VideoDecode ==
  /\ video = "decode"
  /\ IF StopSeen THEN VideoGoes("cancelled")
     ELSE \E next \in {"frame", "eof", "failed"} : VideoGoes(next)
  /\ UNCHANGED queueVars

(* The frame sink counts the frame, unless its generation is over. *)
VideoFrame ==
  /\ video = "frame"
  /\ VideoGoes(IF metricsGeneration = operation THEN "push" ELSE "stopped")
  /\ UNCHANGED queueVars

VideoPush ==
  /\ video = "push"
  /\ Push
  /\ VideoGoes(IF PushAccepts THEN "decode" ELSE "stopped")

-------------------------------------------------------------------------------
(* The audio decode thread and the submit callback it runs. *)

AudioGoes(next) ==
  /\ audio' = next
  /\ UNCHANGED <<guiVars, requestVars, worker, operation, video, queueVars,
                 metricsGeneration, completions, audioIntent>>

AudioDecode ==
  /\ audio = "decode"
  /\ IF StopSeen THEN AudioGoes("cancelled")
     ELSE \E next \in {"block", "finish", "failed"} : AudioGoes(next)
  /\ UNCHANGED <<audioReady, sinkGeneration, sink>>

AudioBlock ==
  /\ audio = "block"
  /\ AudioGoes(IF StopSeen THEN "cancelled" ELSE IF audioReady THEN "submit" ELSE "lock")
  /\ UNCHANGED <<audioReady, sinkGeneration, sink>>

BugNoRecheckUnderLock ==
  /\ audio = "lock"
  /\ AudioGoes("locked")
  /\ UNCHANGED <<audioReady, sinkGeneration, sink>>

(* The first block opens the output: the stop is checked again under the lock. *)
AudioLock ==
  /\ audio = "lock"
  /\ AudioGoes(IF StopSeen THEN "cancelled" ELSE "locked")
  /\ UNCHANGED <<audioReady, sinkGeneration, sink>>

AudioReset ==
  /\ audio = "locked"
  /\ \E failed \in BOOLEAN :  \* the device may not open
       sink' = [Silent EXCEPT !.epoch = operation, !.failed = failed]
  /\ AudioGoes("opened")
  /\ UNCHANGED <<audioReady, sinkGeneration>>

AudioPublish ==
  /\ audio = "opened"
  /\ sinkGeneration' = operation
  /\ audioReady' = TRUE
  /\ AudioGoes("armed")
  /\ UNCHANGED sink

BugStartRegardless ==
  /\ audio = "armed"
  /\ sink' = [sink EXCEPT !.running = TRUE]
  /\ AudioGoes("submit")
  /\ UNCHANGED <<audioReady, sinkGeneration>>

AudioStart ==
  /\ audio = "armed"
  /\ sink' = [sink EXCEPT !.running = audioIntent]
  /\ AudioGoes("submit")
  /\ UNCHANGED <<audioReady, sinkGeneration>>

SinkAccepts == sink.epoch = operation /\ ~sink.failed /\ sink.fill < SinkCapacity

AudioSubmit ==
  /\ audio = "submit"
  /\ \/ /\ SinkAccepts
        /\ sink' = [sink EXCEPT !.fill = @ + 1]
        /\ AudioGoes("decode")
     \/ /\ sink.epoch # operation \/ sink.failed \/ StopSeen
        /\ AudioGoes(IF StopSeen THEN "cancelled" ELSE "stopped")
        /\ UNCHANGED sink
  /\ UNCHANGED <<audioReady, sinkGeneration>>

(* endOfStream finishes the epoch if it is still this operation's. *)
AudioFinish ==
  /\ audio = "finish"
  /\ LifecycleFree
  /\ sink' = IF sinkGeneration = operation /\ sink.epoch = operation
             THEN [sink EXCEPT !.finished = TRUE] ELSE sink
  /\ AudioGoes("eof")
  /\ UNCHANGED <<audioReady, sinkGeneration>>

-------------------------------------------------------------------------------
(* external: the audio device presents what a running sink holds, or fails. *)

DevicePresents ==
  /\ sink.running
  /\ ~sink.failed
  /\ sink.fill > 0
  /\ sink' = [sink EXCEPT !.fill = @ - 1, !.presented = TRUE]
  /\ UNCHANGED <<guiVars, requestVars, threadVars, audioIntent, sinkGeneration,
                 queueVars, metricsGeneration, completions>>

DeviceFails ==
  /\ sink.epoch # 0
  /\ ~sink.failed
  /\ sink' = [sink EXCEPT !.failed = TRUE]
  /\ UNCHANGED <<guiVars, requestVars, threadVars, audioIntent, sinkGeneration,
                 queueVars, metricsGeneration, completions>>

-------------------------------------------------------------------------------
HandlerStep ==
  \/ StopWorker \/ CancelAudio \/ ResetQueue \/ ObserversReturned \/ ResetPlayback
  \/ SubmitOpen \/ ApplyIntent \/ JoinWorker
Worker == TakeRequest \/ ExitWorker \/ EndFailed \/ EndCancelled \/ EndSucceeded
          \/ ReportSuccess
Video == VideoDecode \/ VideoFrame \/ VideoPush
Audio == AudioDecode \/ AudioBlock \/ AudioLock \/ AudioReset \/ AudioPublish
         \/ AudioStart \/ AudioSubmit \/ AudioFinish
Request == \/ \E what \in {"open", "restart", "park", "close", "error"} : UserRequest(what)
           \/ PlayPause \/ BeginShutdown

Next ==
  \/ Request \/ HandlerStep \/ AudioOutputFailed \/ DecodeCompleted
  \/ SelectFrame \/ EndReached
  \/ Worker \/ Video \/ Audio \/ DevicePresents \/ DeviceFails

(* Every thread keeps running and the GUI event loop keeps delivering: posted *)
(* completions, and while playing the playback monitor's timer, which selects *)
(* frames and observes a failed sink.  Users need not ask for anything, and a *)
(* device need not fail.                                                      *)
Fairness ==
  /\ WF_vars(HandlerStep) /\ WF_vars(Worker) /\ WF_vars(Video) /\ WF_vars(Audio)
  /\ WF_vars(DecodeCompleted) /\ WF_vars(playing /\ AudioOutputFailed)
  /\ WF_vars(playing /\ SelectFrame) /\ WF_vars(DevicePresents)

Spec == Init /\ [][Next]_vars /\ Fairness

-------------------------------------------------------------------------------
GuiTypeOK ==
  /\ generation \in Generations /\ shown \in Generations
  /\ state \in {"Empty", "Live", "Error"}
  /\ gui \in GuiPoints /\ goal \in Goals
  /\ playing \in BOOLEAN /\ decoderDrained \in BOOLEAN /\ ended \in BOOLEAN

ThreadTypeOK ==
  /\ pendingOpen \in Generations /\ operation \in Generations
  /\ opStop \in BOOLEAN /\ workerStop \in BOOLEAN
  /\ worker \in WorkerPoints
  /\ video \in VideoPoints /\ audio \in AudioPoints
  /\ audioReady \in BOOLEAN

SinkTypeOK ==
  /\ audioIntent \in BOOLEAN
  /\ sinkGeneration \in Generations
  /\ sink \in [epoch : Generations, running : BOOLEAN, fill : 0..SinkCapacity,
                presented : BOOLEAN, finished : BOOLEAN, failed : BOOLEAN]

QueueTypeOK ==
  /\ queueGeneration \in Generations
  /\ frames \in Seq(Generations) /\ Len(frames) <= FrameCapacity
  /\ metricsGeneration \in Generations
  /\ completions \in Seq([generation : Generations, outcome : Outcomes])

(* Types and capacities: neither the mailbox nor the sink overfills, whoever *)
(* waits for room in it (VideoFrameQueue::push, AudioSink::submit).           *)
TypeOK == GuiTypeOK /\ ThreadTypeOK /\ SinkTypeOK /\ QueueTypeOK

(* What completeDecode takes for the end or the failure of the current media  *)
(* was reported by that media's own operation, which is over: while the media *)
(* counts as decoded, or is being failed, none of its generation waits or     *)
(* runs.  A result delivered after the next open changes nothing.             *)
ResultsAreCurrent ==
  /\ TypeOK
  /\ decoderDrained \/ (goal = "decodeFailed" /\ gui # "idle") =>
       pendingOpen # generation /\ operation # generation

(* "A stale generation must not affect its replacement" (AudioSink.h): once a *)
(* handler has cancelled the audio output, no thread of an older operation    *)
(* opens it again, and outside Live it stays silent.                          *)
AudioIsCurrent ==
  gui \notin {"stopWorker", "cancelAudio"} =>
    /\ sinkGeneration \in {0, generation}
    /\ LifecycleFree => sink.epoch = sinkGeneration
    /\ gui = "idle" /\ state # "Live" => sinkGeneration = 0

(* No frame of an older generation is displayed or waits to be: from the      *)
(* mailbox reset on, everything in it was decoded for the current generation, *)
(* and outside Live nothing is displayed.                                     *)
FramesAreCurrent ==
  gui \notin {"stopWorker", "cancelAudio", "resetQueue", "join", "gone"} =>
    /\ queueGeneration = generation
    /\ \A i \in 1..Len(frames) : frames[i] = generation
    /\ shown \in {0, generation}
    /\ gui = "idle" /\ state # "Live" => shown = 0

(* The sink runs exactly when the user wants to hear it, whichever of the    *)
(* audio thread's opening and the user's play or pause comes first.  At the   *)
(* end of the media what is left in it plays out.                             *)
SinkFollowsIntent ==
  gui = "idle" /\ ~ended =>
    /\ audioIntent = playing \/ state # "Live"
    /\ LifecycleFree /\ sinkGeneration # 0 /\ ~Drained(sink) => sink.running = audioIntent

(* Latest request wins: an operation starts only for the current generation,  *)
(* or while the handler that supersedes it has yet to reach the worker.       *)
OnlyNewestStarts ==
  [][operation' \notin {0, operation} =>
       operation' = generation \/ gui = "stopWorker"]_vars

(* A stop requested by the session ends the operation, wherever its threads   *)
(* wait: a full mailbox, a full sink, the lifecycle lock.                     *)
StopEndsOperation == (opStop /\ operation # 0) ~> (operation = 0)

(* A request is run or replaced. *)
RequestIsTaken ==
  \A g \in 1..MaxGeneration :
    (pendingOpen = g) ~> (operation = g \/ pendingOpen # g)

(* Destroying the session never waits forever for its worker. *)
ShutdownJoins == (gui = "join") ~> (gui = "gone")

(* "a later decoder failure is visible" (docs/subsystems/media/README.md): a  *)
(* decode thread that fails ends its operation, which then reports it, as     *)
(* long as the user keeps playing.                                            *)
FailureEndsOperation ==
  SiblingStopped ~> (operation = 0 \/ ~playing)
===============================================================================
