-------------------------- MODULE MediaPipelineProofs --------------------------
(***************************************************************************)
(* For any number of generations and any capacities: generations do not    *)
(* leak into one another.  PipelineInv is the inductive invariant; its     *)
(* parts say where a stop has already reached the worker, which thread may *)
(* open the audio output, and what is in the mailbox, at every step of a   *)
(* GUI handler.                                                            *)
(***************************************************************************)
EXTENDS MediaPipeline, TLAPS

Reported == {completions[i].generation : i \in 1..Len(completions)}

Preparing == gui \in {"stopWorker", "cancelAudio", "resetQueue", "notified",
                      "resetPlayback", "submit"}
AfterCancel == gui \in {"resetQueue", "notified", "resetPlayback", "submit",
                        "join", "gone"}
Resting == gui \in {"idle", "applyIntent"}

(* A generation is submitted, run and reported at most once. *)
Submissions ==
  /\ generation >= pendingOpen /\ generation >= operation
  /\ \A g \in Reported : g \in 1..generation
  /\ pendingOpen # 0 =>
       /\ pendingOpen \notin Reported
       /\ pendingOpen # operation /\ pendingOpen # sink.epoch
  /\ operation # 0 => operation \notin Reported
  /\ Preparing /\ goal \in {"open", "restart", "park"} =>
       /\ generation # 0
       /\ generation \notin Reported
       /\ generation # pendingOpen /\ generation # operation
  /\ gui = "submit" => goal \in {"open", "restart"} /\ state = "Live"

Threads ==
  /\ operation = 0 => video = "none" /\ audio = "none"
  /\ operation # 0 <=> worker \in {"running", "fallback"}
  /\ worker = "fallback" => {video, audio} \subseteq Ended

(* What was asked for before the running handler is stopped, or is about to be. *)
Stopped == pendingOpen = 0 /\ (operation # 0 => opStop)
Quiet == Stopped /\ LifecycleFree /\ sinkGeneration = 0

Isolation ==
  /\ pendingOpen # 0 => pendingOpen = generation \/ gui = "stopWorker"
  /\ operation # 0 /\ ~opStop => operation = generation \/ gui = "stopWorker"
  /\ ~LifecycleFree => operation = generation \/ gui \in {"stopWorker", "cancelAudio"}
  /\ gui = "cancelAudio" => Stopped
  /\ AfterCancel => Quiet
  /\ Resting /\ state # "Live" => Quiet

Output ==
  /\ audio \in {"opened", "armed"} => sink.epoch = operation
  /\ audio = "armed" => sinkGeneration = operation
  /\ audio # "opened" => sink.epoch = sinkGeneration
  /\ gui \notin {"stopWorker", "cancelAudio"} => sinkGeneration \in {0, generation}
  /\ operation # 0 /\ sink.finished /\ sink.epoch = operation => audio \in Ended

Mailbox ==
  /\ \A i \in 1..Len(frames) : frames[i] = queueGeneration
  /\ gui \notin {"stopWorker", "cancelAudio", "resetQueue", "join", "gone"} =>
       queueGeneration = generation /\ shown \in {0, generation}
  /\ gui \in {"notified", "resetPlayback", "submit"} => shown = 0
  /\ Resting /\ state # "Live" => shown = 0

Intent ==
  /\ Resting /\ state = "Live" => audioIntent = playing
  /\ gui = "submit" => audioIntent = playing
  /\ Preparing /\ goal = "park" => audioIntent = playing
  /\ gui = "idle" /\ ~ended =>
       (LifecycleFree /\ sinkGeneration # 0 /\ ~Drained(sink) => sink.running = audioIntent)

PipelineInv ==
  TypeOK /\ Submissions /\ Threads /\ Isolation /\ Output /\ Mailbox /\ Intent

-------------------------------------------------------------------------------
(* The two sequences. *)

(* Taking a posted completion names no generation that was not reported. *)
LEMMA ReportedTail ==
  ASSUME QueueTypeOK, completions # <<>>, completions' = Tail(completions)
  PROVE  /\ completions' \in Seq([generation : Generations, outcome : Outcomes])
         /\ Head(completions).generation \in Reported
         /\ Reported' \subseteq Reported
  BY DEF QueueTypeOK, Reported

(* Reporting an operation adds its generation to those reported. *)
LEMMA ReportedAppend ==
  ASSUME NEW outcome \in Outcomes, QueueTypeOK, operation \in Generations,
         completions' = Append(completions,
                               [generation |-> operation, outcome |-> outcome])
  PROVE  /\ completions' \in Seq([generation : Generations, outcome : Outcomes])
         /\ Reported' \subseteq Reported \cup {operation}
  <1> DEFINE done == [generation |-> operation, outcome |-> outcome]
  <1>1. done \in [generation : Generations, outcome : Outcomes]
    OBVIOUS
  <1>2. /\ Len(completions') = Len(completions) + 1
        /\ completions' \in Seq([generation : Generations, outcome : Outcomes])
        /\ Len(completions) \in Nat
    BY <1>1 DEF QueueTypeOK
  <1>3. \A i \in 1..Len(completions') :
          completions'[i].generation \in Reported \cup {operation}
    <2> SUFFICES ASSUME NEW i \in 1..Len(completions')
                 PROVE  completions'[i].generation \in Reported \cup {operation}
      OBVIOUS
    <2>1. CASE i \in 1..Len(completions)
      BY <2>1, <1>1, <1>2 DEF QueueTypeOK, Reported
    <2>2. CASE i = Len(completions) + 1
      BY <2>2, <1>1, <1>2 DEF QueueTypeOK
    <2>3. QED
      BY <1>2, <2>1, <2>2
  <1>4. QED
    BY <1>2, <1>3 DEF Reported

(* A push, accepted or refused, leaves the mailbox within its capacity and  *)
(* with frames of its own generation only.                                  *)
LEMMA PushKeepsGeneration ==
  ASSUME QueueTypeOK, operation \in Generations, Push,
         \A i \in 1..Len(frames) : frames[i] = queueGeneration
  PROVE  /\ queueGeneration' = queueGeneration
         /\ frames' \in Seq(Generations) /\ Len(frames') <= FrameCapacity
         /\ \A i \in 1..Len(frames') : frames'[i] = queueGeneration
  <1>1. CASE PushAccepts
    <2>1. frames' = Append(frames, operation) /\ operation = queueGeneration
      BY <1>1 DEF Push, PushAccepts
    <2>2. Len(frames') = Len(frames) + 1 /\ frames' \in Seq(Generations)
      BY <2>1 DEF QueueTypeOK
    <2>3. Len(frames') <= FrameCapacity
      BY <1>1, <2>2, PipelineBounds DEF QueueTypeOK, PushAccepts
    <2>4. \A i \in 1..Len(frames') : frames'[i] = queueGeneration
      BY <2>1, <2>2 DEF QueueTypeOK
    <2>5. QED
      BY <2>2, <2>3, <2>4 DEF Push
  <1>2. CASE ~PushAccepts
    BY <1>2 DEF Push, QueueTypeOK
  <1>3. QED
    BY <1>1, <1>2

-------------------------------------------------------------------------------
(* The GUI thread. *)

(* A request of the user, or one made by an observer of another handler. *)
LEMMA UserRequestPreserves ==
  ASSUME NEW what \in {"open", "restart", "park", "close", "error"},
         PipelineInv, UserRequest(what)
  PROVE  PipelineInv'
  <1> USE PipelineBounds
      DEF PipelineInv, UserRequest, Begin, Advances, guiVars, ending, requestVars,
          threadVars, audioVars, queueVars
  <1>a. /\ generation' = generation + 1 /\ generation < MaxGeneration
        /\ gui' = "stopWorker" /\ goal' = what
        /\ Reported' = Reported
    BY DEF Reported
  <1>1. GuiTypeOK'
    <2>1. generation' \in Generations
      BY <1>a DEF TypeOK, GuiTypeOK, Generations
    <2>2. playing' \in BOOLEAN
      BY DEF TypeOK, GuiTypeOK
    <2>3. QED
      BY <1>a, <2>1, <2>2 DEF TypeOK, GuiTypeOK, Generations, GuiPoints, Goals
  <1>2. ThreadTypeOK'
    BY DEF TypeOK, GuiTypeOK, ThreadTypeOK, Generations, WorkerPoints, VideoPoints,
           AudioPoints, Ended
  <1>3. SinkTypeOK'
    BY DEF TypeOK, ThreadTypeOK, SinkTypeOK, Generations
  <1>4. QueueTypeOK'
    BY DEF TypeOK, GuiTypeOK, ThreadTypeOK, QueueTypeOK, Generations, Outcomes
  <1>5. Submissions'
    BY <1>a
    DEF TypeOK, Submissions, Threads, Isolation, Output, Preparing, AfterCancel,
        Resting, Quiet, Stopped, GuiTypeOK, ThreadTypeOK, SinkTypeOK, Generations
  <1>6. Threads'
    BY DEF TypeOK, Threads, ThreadTypeOK, Ended
  <1>7. Isolation'
    BY DEF TypeOK, Isolation, Submissions, Threads, Preparing, AfterCancel, Resting,
           Quiet, Stopped, LifecycleFree, ThreadTypeOK, Ended
  <1>8. Output'
    BY DEF TypeOK, Output, Isolation, Submissions, Threads, AfterCancel, Quiet,
           Stopped, LifecycleFree, SinkTypeOK, Ended
  <1>9. Mailbox'
    BY DEF TypeOK, Mailbox, Submissions, Resting, QueueTypeOK
  <1>10. Intent'
    BY DEF TypeOK, Intent, Isolation, Output, Submissions, Preparing, AfterCancel,
           Resting, Quiet, LifecycleFree, Drained, GuiTypeOK, SinkTypeOK, Ended
  <1>11. QED
    BY <1>1, <1>2, <1>3, <1>4, <1>5, <1>6, <1>7, <1>8, <1>9, <1>10 DEF TypeOK

(* The steps of a handler that change few variables. *)
LEMMA HandlerPreserves ==
  ASSUME PipelineInv,
         \/ AudioOutputFailed \/ PlayPause \/ BeginShutdown \/ StopWorker
         \/ CancelAudio \/ ResetQueue \/ ObserversReturned \/ SubmitOpen
         \/ JoinWorker \/ SelectFrame
  PROVE  PipelineInv'
  <1> USE PipelineBounds
      DEF guiVars, ending, requestVars, threadVars, audioVars, queueVars,
          PipelineInv, TypeOK, GuiTypeOK, ThreadTypeOK, SinkTypeOK, QueueTypeOK,
          Generations, GuiPoints, Goals, WorkerPoints, VideoPoints, AudioPoints,
          Ended, Submissions, Threads, Isolation, Output, Mailbox, Intent, Preparing,
          AfterCancel, Resting, Reported, Stopped, Quiet, LifecycleFree, Drained
  <1>1. CASE AudioOutputFailed
    BY <1>1, SMTT(40) DEF AudioOutputFailed, Begin, Advances
  <1>2. CASE PlayPause
    BY <1>2, SMTT(40) DEF PlayPause
  <1>3. CASE BeginShutdown
    BY <1>3, SMTT(40) DEF BeginShutdown
  <1>4. CASE StopWorker
    BY <1>4, SMTT(40) DEF StopWorker
  <1>5. CASE CancelAudio
    BY <1>5, SMTT(40) DEF CancelAudio, Silent
  <1>6. CASE ResetQueue
    BY <1>6, SMTT(40) DEF ResetQueue
  <1>7. CASE ObserversReturned
    BY <1>7, SMTT(40) DEF ObserversReturned
  <1>8. CASE SubmitOpen
    BY <1>8, SMTT(40) DEF SubmitOpen
  <1>9. CASE JoinWorker
    BY <1>9, SMTT(40) DEF JoinWorker
  <1>10. CASE SelectFrame
    BY <1>10, SMTT(40) DEF SelectFrame
  <1>11. QED
    BY <1>1, <1>2, <1>3, <1>4, <1>5, <1>6, <1>7, <1>8, <1>9, <1>10

(* A completion is of a generation that no longer runs. *)
LEMMA DecodeCompletedPreserves ==
  ASSUME PipelineInv, DecodeCompleted
  PROVE  PipelineInv'
  <1> USE PipelineBounds
      DEF PipelineInv, DecodeCompleted, Begin, Advances, guiVars, ending,
          requestVars, threadVars, audioVars, queueVars
  <1>a. /\ completions' \in Seq([generation : Generations, outcome : Outcomes])
        /\ Head(completions).generation \in Reported
        /\ Reported' \subseteq Reported
    BY ReportedTail DEF TypeOK
  <1>1. GuiTypeOK'
    BY DEF TypeOK, GuiTypeOK, Generations, GuiPoints, Goals
  <1>2. ThreadTypeOK'
    BY DEF TypeOK, GuiTypeOK, ThreadTypeOK, Generations, WorkerPoints, VideoPoints,
           AudioPoints, Ended
  <1>3. SinkTypeOK'
    BY DEF TypeOK, ThreadTypeOK, SinkTypeOK, Generations
  <1>4. QueueTypeOK'
    BY <1>a DEF TypeOK, GuiTypeOK, ThreadTypeOK, QueueTypeOK, Generations, Outcomes
  <1>5. Submissions'
    BY <1>a
    DEF TypeOK, Submissions, Threads, Isolation, Output, Preparing, AfterCancel,
        Resting, Quiet, Stopped, GuiTypeOK, ThreadTypeOK, SinkTypeOK, Generations
  <1>6. Threads'
    BY DEF TypeOK, Threads, ThreadTypeOK, Ended
  <1>7. Isolation'
    BY <1>a
    DEF TypeOK, Isolation, Submissions, Threads, Preparing, AfterCancel, Resting,
        Quiet, Stopped, LifecycleFree, ThreadTypeOK, Ended
  <1>8. Output'
    BY DEF TypeOK, Output, Isolation, Submissions, Threads, AfterCancel, Quiet,
           Stopped, LifecycleFree, SinkTypeOK, Ended
  <1>9. Mailbox'
    BY DEF TypeOK, Mailbox, Submissions, Resting, QueueTypeOK
  <1>10. Intent'
    BY DEF TypeOK, Intent, Isolation, Output, Submissions, Preparing, AfterCancel,
           Resting, Quiet, LifecycleFree, Drained, GuiTypeOK, SinkTypeOK, Ended
  <1>11. QED
    BY <1>1, <1>2, <1>3, <1>4, <1>5, <1>6, <1>7, <1>8, <1>9, <1>10 DEF TypeOK

(* Applying the intent to the sink, under the lifecycle lock. *)
LEMMA ApplyIntentPreserves ==
  ASSUME PipelineInv, ApplyIntent
  PROVE  PipelineInv'
  <1> USE PipelineBounds
      DEF PipelineInv, ApplyIntent, guiVars, ending, requestVars, threadVars,
          audioVars, queueVars
  <1>1. GuiTypeOK'
    BY DEF TypeOK, GuiTypeOK, Generations, GuiPoints, Goals
  <1>2. ThreadTypeOK'
    BY DEF TypeOK, GuiTypeOK, ThreadTypeOK, Generations, WorkerPoints, VideoPoints,
           AudioPoints, Ended
  <1>3. SinkTypeOK'
    BY DEF TypeOK, ThreadTypeOK, SinkTypeOK, Generations
  <1>4. QueueTypeOK'
    BY DEF TypeOK, GuiTypeOK, ThreadTypeOK, QueueTypeOK, Generations, Outcomes
  <1>5. Submissions'
    BY DEF TypeOK, Submissions, Threads, Isolation, Output, Preparing, AfterCancel,
           Resting, Quiet, Stopped, Reported, GuiTypeOK, ThreadTypeOK, SinkTypeOK,
           Generations
  <1>6. Threads'
    BY DEF TypeOK, Threads, ThreadTypeOK, Ended
  <1>7. Isolation'
    BY DEF TypeOK, Isolation, Submissions, Threads, Preparing, AfterCancel, Resting,
           Quiet, Stopped, LifecycleFree, ThreadTypeOK, Ended
  <1>8. Output'
    BY DEF TypeOK, Output, Isolation, Submissions, Threads, AfterCancel, Quiet,
           Stopped, LifecycleFree, SinkTypeOK, Ended
  <1>9. Mailbox'
    BY DEF TypeOK, Mailbox, Submissions, Resting, QueueTypeOK
  <1>10. Intent'
    BY DEF TypeOK, Intent, Isolation, Output, Submissions, Preparing, AfterCancel,
           Resting, Quiet, LifecycleFree, Drained, GuiTypeOK, SinkTypeOK, Ended
  <1>11. QED
    BY <1>1, <1>2, <1>3, <1>4, <1>5, <1>6, <1>7, <1>8, <1>9, <1>10 DEF TypeOK

(* The handler has reset everything: the new state begins. *)
LEMMA ResetPlaybackPreserves ==
  ASSUME PipelineInv, ResetPlayback
  PROVE  PipelineInv'
  <1> USE PipelineBounds
      DEF PipelineInv, ResetPlayback, guiVars, ending, requestVars, threadVars,
          audioVars, queueVars
  <1>1. GuiTypeOK'
    BY DEF TypeOK, GuiTypeOK, Generations, GuiPoints, Goals
  <1>2. ThreadTypeOK'
    BY DEF TypeOK, GuiTypeOK, ThreadTypeOK, Generations, WorkerPoints, VideoPoints,
           AudioPoints, Ended
  <1>3. SinkTypeOK'
    BY <1>1 DEF TypeOK, GuiTypeOK, SinkTypeOK, Generations
  <1>4. QueueTypeOK'
    BY DEF TypeOK, GuiTypeOK, ThreadTypeOK, QueueTypeOK, Generations, Outcomes
  <1>5. Submissions'
    BY DEF TypeOK, Submissions, Threads, Isolation, Output, Preparing, AfterCancel,
           Resting, Quiet, Stopped, Reported, GuiTypeOK, ThreadTypeOK, SinkTypeOK,
           Generations
  <1>6. Threads'
    BY DEF TypeOK, Threads, ThreadTypeOK, Ended
  <1>7. Isolation'
    BY DEF TypeOK, Isolation, Submissions, Threads, Preparing, AfterCancel, Resting,
           Quiet, Stopped, LifecycleFree, ThreadTypeOK, Ended
  <1>8. Output'
    BY DEF TypeOK, Output, Isolation, Submissions, Threads, AfterCancel, Quiet,
           Stopped, LifecycleFree, SinkTypeOK, Ended
  <1>9. Mailbox'
    BY DEF TypeOK, Mailbox, Submissions, Resting, QueueTypeOK
  <1>10. Intent'
    BY DEF TypeOK, Intent, Isolation, Output, Submissions, Preparing, AfterCancel,
           Resting, Quiet, LifecycleFree, Drained, GuiTypeOK, SinkTypeOK, Ended
  <1>11. QED
    BY <1>1, <1>2, <1>3, <1>4, <1>5, <1>6, <1>7, <1>8, <1>9, <1>10 DEF TypeOK

(* The end of the media. *)
LEMMA EndReachedPreserves ==
  ASSUME PipelineInv, EndReached
  PROVE  PipelineInv'
  <1> USE PipelineBounds
      DEF PipelineInv, EndReached, guiVars, ending, requestVars, threadVars,
          audioVars, queueVars
  <1>1. GuiTypeOK'
    BY DEF TypeOK, GuiTypeOK, Generations, GuiPoints, Goals
  <1>2. ThreadTypeOK'
    BY DEF TypeOK, GuiTypeOK, ThreadTypeOK, Generations, WorkerPoints, VideoPoints,
           AudioPoints, Ended
  <1>3. SinkTypeOK'
    BY DEF TypeOK, ThreadTypeOK, SinkTypeOK, Generations
  <1>4. QueueTypeOK'
    BY DEF TypeOK, GuiTypeOK, ThreadTypeOK, QueueTypeOK, Generations, Outcomes
  <1>5. Submissions'
    BY DEF TypeOK, Submissions, Threads, Isolation, Output, Preparing, AfterCancel,
           Resting, Quiet, Stopped, Reported, GuiTypeOK, ThreadTypeOK, SinkTypeOK,
           Generations
  <1>6. Threads'
    BY DEF TypeOK, Threads, ThreadTypeOK, Ended
  <1>7. Isolation'
    BY DEF TypeOK, Isolation, Submissions, Threads, Preparing, AfterCancel, Resting,
           Quiet, Stopped, LifecycleFree, ThreadTypeOK, Ended
  <1>8. Output'
    BY DEF TypeOK, Output, Isolation, Submissions, Threads, AfterCancel, Quiet,
           Stopped, LifecycleFree, SinkTypeOK, Ended
  <1>9. Mailbox'
    BY DEF TypeOK, Mailbox, Submissions, Resting, QueueTypeOK
  <1>10. Intent'
    BY DEF TypeOK, Intent, Isolation, Output, Submissions, Preparing, AfterCancel,
           Resting, Quiet, LifecycleFree, Drained, GuiTypeOK, SinkTypeOK, Ended
  <1>11. QED
    BY <1>1, <1>2, <1>3, <1>4, <1>5, <1>6, <1>7, <1>8, <1>9, <1>10 DEF TypeOK

-------------------------------------------------------------------------------
(* The worker and the threads of its operation. *)

(* The worker takes a request. *)
LEMMA TakeRequestPreserves ==
  ASSUME PipelineInv, TakeRequest
  PROVE  PipelineInv'
  <1> USE PipelineBounds
      DEF PipelineInv, TakeRequest, guiVars, ending, requestVars, threadVars,
          audioVars, queueVars
  <1>1. GuiTypeOK'
    BY DEF TypeOK, GuiTypeOK, Generations, GuiPoints, Goals
  <1>2. ThreadTypeOK'
    <2>1. audio' \in AudioPoints
      BY DEF AudioPoints, Ended
    <2>2. worker' \in WorkerPoints /\ video' \in VideoPoints
      BY DEF WorkerPoints, VideoPoints
    <2>3. 0 \in Generations
      BY DEF Generations
    <2>4. QED
      BY <2>1, <2>2, <2>3, Zenon DEF TypeOK, ThreadTypeOK
  <1>3. SinkTypeOK'
    BY DEF TypeOK, ThreadTypeOK, SinkTypeOK, Generations
  <1>4. QueueTypeOK'
    BY DEF TypeOK, GuiTypeOK, ThreadTypeOK, QueueTypeOK, Generations, Outcomes
  <1>5. Submissions'
    BY DEF TypeOK, Submissions, Threads, Isolation, Output, Preparing, AfterCancel,
           Resting, Quiet, Stopped, Reported, GuiTypeOK, ThreadTypeOK, SinkTypeOK,
           Generations
  <1>6. Threads'
    BY DEF TypeOK, Threads, ThreadTypeOK, Ended
  <1>7. Isolation'
    BY DEF TypeOK, Isolation, Submissions, Threads, Preparing, AfterCancel, Resting,
           Quiet, Stopped, LifecycleFree, ThreadTypeOK, Ended
  <1>8. Output'
    BY DEF TypeOK, Output, Isolation, Submissions, Threads, AfterCancel, Quiet,
           Stopped, LifecycleFree, SinkTypeOK, Ended
  <1>9. Mailbox'
    BY DEF TypeOK, Mailbox, Submissions, Resting, QueueTypeOK
  <1>10. Intent'
    BY DEF TypeOK, Intent, Isolation, Output, Submissions, Preparing, AfterCancel,
           Resting, Quiet, LifecycleFree, Drained, GuiTypeOK, SinkTypeOK, Ended
  <1>11. QED
    BY <1>1, <1>2, <1>3, <1>4, <1>5, <1>6, <1>7, <1>8, <1>9, <1>10 DEF TypeOK

(* A step that leaves the mailbox alone or pushes a frame of its generation. *)
KeepsFrames ==
  /\ queueGeneration' = queueGeneration
  /\ frames' \in Seq(Generations) /\ Len(frames') <= FrameCapacity
  /\ \A i \in 1..Len(frames') : frames'[i] = queueGeneration

(* The operation ends: its generation moves to the reported ones. *)
LEMMA ReportPreserves ==
  ASSUME NEW outcome \in Outcomes, PipelineInv, Report(outcome), operation # 0,
         {video, audio} \subseteq Ended, KeepsFrames
  PROVE  PipelineInv'
  <1> USE PipelineBounds
      DEF PipelineInv, Report, KeepsFrames, guiVars, ending, requestVars, threadVars,
          audioVars, queueVars
  <1>a. /\ completions' \in Seq([generation : Generations, outcome : Outcomes])
        /\ Reported' \subseteq Reported \cup {operation}
    <2>1. CASE workerStop
      BY <2>1 DEF TypeOK, QueueTypeOK, Reported
    <2>2. CASE ~workerStop
      BY <2>2, ReportedAppend DEF TypeOK, ThreadTypeOK
    <2>3. QED
      BY <2>1, <2>2
  <1>1. GuiTypeOK'
    BY DEF TypeOK, GuiTypeOK, Generations, GuiPoints, Goals
  <1>2. ThreadTypeOK'
    BY DEF TypeOK, GuiTypeOK, ThreadTypeOK, Generations, WorkerPoints, VideoPoints,
           AudioPoints, Ended
  <1>3. SinkTypeOK'
    BY DEF TypeOK, ThreadTypeOK, SinkTypeOK, Generations
  <1>4. QueueTypeOK'
    BY <1>a DEF TypeOK, GuiTypeOK, ThreadTypeOK, QueueTypeOK, Generations, Outcomes
  <1>5. Submissions'
    BY <1>a
    DEF TypeOK, Submissions, Threads, Isolation, Output, Preparing, AfterCancel,
        Resting, Quiet, Stopped, GuiTypeOK, ThreadTypeOK, SinkTypeOK, Generations
  <1>6. Threads'
    BY DEF TypeOK, Threads, ThreadTypeOK, Ended
  <1>7. Isolation'
    BY DEF TypeOK, Isolation, Submissions, Threads, Preparing, AfterCancel, Resting,
           Quiet, Stopped, LifecycleFree, ThreadTypeOK, Ended
  <1>8. Output'
    BY DEF TypeOK, Output, Isolation, Submissions, Threads, AfterCancel, Quiet,
           Stopped, LifecycleFree, SinkTypeOK, Ended
  <1>9. Mailbox'
    BY DEF TypeOK, Mailbox, Submissions, Resting, QueueTypeOK
  <1>10. Intent'
    BY DEF TypeOK, Intent, Isolation, Output, Submissions, Preparing, AfterCancel,
           Resting, Quiet, LifecycleFree, Drained, GuiTypeOK, SinkTypeOK, Ended
  <1>11. QED
    BY <1>1, <1>2, <1>3, <1>4, <1>5, <1>6, <1>7, <1>8, <1>9, <1>10 DEF TypeOK

(* The steps of the threads that change few variables. *)
LEMMA ThreadPreserves ==
  ASSUME PipelineInv,
         \/ ExitWorker \/ EndSucceeded \/ VideoDecode \/ VideoFrame
         \/ AudioDecode \/ AudioBlock \/ AudioLock \/ AudioPublish
  PROVE  PipelineInv'
  <1> USE PipelineBounds
      DEF guiVars, ending, requestVars, threadVars, audioVars, queueVars,
          PipelineInv, TypeOK, GuiTypeOK, ThreadTypeOK, SinkTypeOK, QueueTypeOK,
          Generations, GuiPoints, Goals, WorkerPoints, VideoPoints, AudioPoints,
          Ended, Submissions, Threads, Isolation, Output, Mailbox, Intent, Preparing,
          AfterCancel, Resting, Reported, Stopped, Quiet, LifecycleFree, Drained
  <1>1. CASE ExitWorker
    BY <1>1, SMTT(40) DEF ExitWorker
  <1>2. CASE EndSucceeded
    BY <1>2, SMTT(40) DEF EndSucceeded
  <1>3. CASE VideoDecode
    BY <1>3, SMTT(40) DEF VideoDecode, VideoGoes
  <1>4. CASE VideoFrame
    BY <1>4, SMTT(40) DEF VideoFrame, VideoGoes
  <1>5. CASE AudioDecode
    BY <1>5, SMTT(40) DEF AudioDecode, AudioGoes
  <1>6. CASE AudioBlock
    BY <1>6, SMTT(40) DEF AudioBlock, AudioGoes
  <1>7. CASE AudioLock
    BY <1>7, SMTT(40) DEF AudioLock, AudioGoes, StopSeen
  <1>8. CASE AudioPublish
    BY <1>8, SMTT(40) DEF AudioPublish, AudioGoes
  <1>9. QED
    BY <1>1, <1>2, <1>3, <1>4, <1>5, <1>6, <1>7, <1>8

(* The audio thread starts the output if the user wants to hear it. *)
LEMMA AudioStartPreserves ==
  ASSUME PipelineInv, AudioStart
  PROVE  PipelineInv'
  <1> USE PipelineBounds
      DEF PipelineInv, AudioStart, AudioGoes, guiVars, ending, requestVars,
          threadVars, audioVars, queueVars
  <1>1. GuiTypeOK'
    BY DEF TypeOK, GuiTypeOK, Generations, GuiPoints, Goals
  <1>2. ThreadTypeOK'
    BY DEF TypeOK, GuiTypeOK, ThreadTypeOK, Generations, WorkerPoints, VideoPoints,
           AudioPoints, Ended
  <1>3. SinkTypeOK'
    BY DEF TypeOK, ThreadTypeOK, SinkTypeOK, Generations
  <1>4. QueueTypeOK'
    BY DEF TypeOK, GuiTypeOK, ThreadTypeOK, QueueTypeOK, Generations, Outcomes
  <1>5. Submissions'
    BY DEF TypeOK, Submissions, Threads, Isolation, Output, Preparing, AfterCancel,
           Resting, Quiet, Stopped, Reported, GuiTypeOK, ThreadTypeOK, SinkTypeOK,
           Generations
  <1>6. Threads'
    BY DEF TypeOK, Threads, ThreadTypeOK, Ended
  <1>7. Isolation'
    BY DEF TypeOK, Isolation, Submissions, Threads, Preparing, AfterCancel, Resting,
           Quiet, Stopped, LifecycleFree, ThreadTypeOK, Ended
  <1>8. Output'
    BY DEF TypeOK, Output, Isolation, Submissions, Threads, AfterCancel, Quiet,
           Stopped, LifecycleFree, SinkTypeOK, Ended
  <1>9. Mailbox'
    BY DEF TypeOK, Mailbox, Submissions, Resting, QueueTypeOK
  <1>10. Intent'
    BY DEF TypeOK, Intent, Isolation, Output, Submissions, Preparing, AfterCancel,
           Resting, Quiet, LifecycleFree, Drained, GuiTypeOK, SinkTypeOK, Ended
  <1>11. QED
    BY <1>1, <1>2, <1>3, <1>4, <1>5, <1>6, <1>7, <1>8, <1>9, <1>10 DEF TypeOK

(* A push of the video thread. *)
LEMMA VideoPushPreserves ==
  ASSUME PipelineInv, VideoPush
  PROVE  PipelineInv'
  <1> USE PipelineBounds
      DEF PipelineInv, VideoPush, VideoGoes, guiVars, ending, requestVars,
          threadVars, audioVars, queueVars
  <1>a. KeepsFrames
    BY PushKeepsGeneration DEF TypeOK, ThreadTypeOK, Mailbox, KeepsFrames
  <1>1. GuiTypeOK'
    BY DEF TypeOK, GuiTypeOK, Generations, GuiPoints, Goals
  <1>2. ThreadTypeOK'
    BY DEF TypeOK, GuiTypeOK, ThreadTypeOK, Generations, WorkerPoints, VideoPoints,
           AudioPoints, Ended
  <1>3. SinkTypeOK'
    BY DEF TypeOK, ThreadTypeOK, SinkTypeOK, Generations
  <1>4. QueueTypeOK'
    BY <1>a
    DEF KeepsFrames, TypeOK, GuiTypeOK, ThreadTypeOK, QueueTypeOK, Generations,
        Outcomes
  <1>5. Submissions'
    BY DEF TypeOK, Submissions, Threads, Isolation, Output, Preparing, AfterCancel,
           Resting, Quiet, Stopped, Reported, GuiTypeOK, ThreadTypeOK, SinkTypeOK,
           Generations
  <1>6. Threads'
    BY DEF TypeOK, Threads, ThreadTypeOK, Ended
  <1>7. Isolation'
    BY DEF TypeOK, Isolation, Submissions, Threads, Preparing, AfterCancel, Resting,
           Quiet, Stopped, LifecycleFree, ThreadTypeOK, Ended
  <1>8. Output'
    BY DEF TypeOK, Output, Isolation, Submissions, Threads, AfterCancel, Quiet,
           Stopped, LifecycleFree, SinkTypeOK, Ended
  <1>9. Mailbox'
    BY <1>a DEF KeepsFrames, TypeOK, Mailbox, Submissions, Resting, QueueTypeOK
  <1>10. Intent'
    BY DEF TypeOK, Intent, Isolation, Output, Submissions, Preparing, AfterCancel,
           Resting, Quiet, LifecycleFree, Drained, GuiTypeOK, SinkTypeOK, Ended
  <1>11. QED
    BY <1>1, <1>2, <1>3, <1>4, <1>5, <1>6, <1>7, <1>8, <1>9, <1>10 DEF TypeOK

(* The audio thread opens the output. *)
LEMMA AudioResetPreserves ==
  ASSUME PipelineInv, AudioReset
  PROVE  PipelineInv'
  <1> USE PipelineBounds
      DEF PipelineInv, AudioReset, AudioGoes, Silent, guiVars, ending, requestVars,
          threadVars, audioVars, queueVars
  <1>1. GuiTypeOK'
    BY DEF TypeOK, GuiTypeOK, Generations, GuiPoints, Goals
  <1>2. ThreadTypeOK'
    BY DEF TypeOK, GuiTypeOK, ThreadTypeOK, Generations, WorkerPoints, VideoPoints,
           AudioPoints, Ended
  <1>3. SinkTypeOK'
    <2>1. PICK failed \in BOOLEAN :
            sink' = [Silent EXCEPT !.epoch = operation, !.failed = failed]
      OBVIOUS
    <2>2. sink' = [epoch |-> operation, running |-> FALSE, fill |-> 0,
                   presented |-> FALSE, finished |-> FALSE, failed |-> failed]
      BY <2>1
    <2>3. operation \in Generations /\ 0 \in 0..SinkCapacity
      BY DEF TypeOK, ThreadTypeOK
    <2>4. QED
      BY <2>2, <2>3, Zenon DEF TypeOK, SinkTypeOK, Generations
  <1>4. QueueTypeOK'
    BY DEF TypeOK, GuiTypeOK, ThreadTypeOK, QueueTypeOK, Generations, Outcomes
  <1>5. Submissions'
    BY DEF TypeOK, Submissions, Threads, Isolation, Output, Preparing, AfterCancel,
           Resting, Quiet, Stopped, Reported, GuiTypeOK, ThreadTypeOK, SinkTypeOK,
           Generations
  <1>6. Threads'
    BY DEF TypeOK, Threads, ThreadTypeOK, Ended
  <1>7. Isolation'
    BY DEF TypeOK, Isolation, Submissions, Threads, Preparing, AfterCancel, Resting,
           Quiet, Stopped, LifecycleFree, ThreadTypeOK, Ended
  <1>8. Output'
    BY DEF TypeOK, Output, Isolation, Submissions, Threads, AfterCancel, Quiet,
           Stopped, LifecycleFree, SinkTypeOK, Ended
  <1>9. Mailbox'
    BY DEF TypeOK, Mailbox, Submissions, Resting, QueueTypeOK
  <1>10. Intent'
    BY DEF TypeOK, Intent, Isolation, Output, Submissions, Preparing, AfterCancel,
           Resting, Quiet, LifecycleFree, Drained, GuiTypeOK, SinkTypeOK, Ended
  <1>11. QED
    BY <1>1, <1>2, <1>3, <1>4, <1>5, <1>6, <1>7, <1>8, <1>9, <1>10 DEF TypeOK

(* The sink takes or refuses a block. *)
LEMMA AudioSubmitPreserves ==
  ASSUME PipelineInv, AudioSubmit
  PROVE  PipelineInv'
  <1> USE PipelineBounds
      DEF PipelineInv, AudioSubmit, AudioGoes, SinkAccepts, guiVars, ending,
          requestVars, threadVars, audioVars, queueVars
  <1>1. GuiTypeOK'
    BY DEF TypeOK, GuiTypeOK, Generations, GuiPoints, Goals
  <1>2. ThreadTypeOK'
    BY DEF TypeOK, GuiTypeOK, ThreadTypeOK, Generations, WorkerPoints, VideoPoints,
           AudioPoints, Ended
  <1>3. SinkTypeOK'
    BY DEF TypeOK, ThreadTypeOK, SinkTypeOK, Generations
  <1>4. QueueTypeOK'
    BY DEF TypeOK, GuiTypeOK, ThreadTypeOK, QueueTypeOK, Generations, Outcomes
  <1>5. Submissions'
    BY DEF TypeOK, Submissions, Threads, Isolation, Output, Preparing, AfterCancel,
           Resting, Quiet, Stopped, Reported, GuiTypeOK, ThreadTypeOK, SinkTypeOK,
           Generations
  <1>6. Threads'
    BY DEF TypeOK, Threads, ThreadTypeOK, Ended
  <1>7. Isolation'
    BY DEF TypeOK, Isolation, Submissions, Threads, Preparing, AfterCancel, Resting,
           Quiet, Stopped, LifecycleFree, ThreadTypeOK, Ended
  <1>8. Output'
    BY DEF TypeOK, Output, Isolation, Submissions, Threads, AfterCancel, Quiet,
           Stopped, LifecycleFree, SinkTypeOK, Ended
  <1>9. Mailbox'
    BY DEF TypeOK, Mailbox, Submissions, Resting, QueueTypeOK
  <1>10. Intent'
    BY DEF TypeOK, Intent, Isolation, Output, Submissions, Preparing, AfterCancel,
           Resting, Quiet, LifecycleFree, Drained, GuiTypeOK, SinkTypeOK, Ended
  <1>11. QED
    BY <1>1, <1>2, <1>3, <1>4, <1>5, <1>6, <1>7, <1>8, <1>9, <1>10 DEF TypeOK

(* The audio thread has submitted everything. *)
LEMMA AudioFinishPreserves ==
  ASSUME PipelineInv, AudioFinish
  PROVE  PipelineInv'
  <1> USE PipelineBounds
      DEF PipelineInv, AudioFinish, AudioGoes, guiVars, ending, requestVars,
          threadVars, audioVars, queueVars
  <1>1. GuiTypeOK'
    BY DEF TypeOK, GuiTypeOK, Generations, GuiPoints, Goals
  <1>2. ThreadTypeOK'
    BY DEF TypeOK, GuiTypeOK, ThreadTypeOK, Generations, WorkerPoints, VideoPoints,
           AudioPoints, Ended
  <1>3. SinkTypeOK'
    BY DEF TypeOK, ThreadTypeOK, SinkTypeOK, Generations
  <1>4. QueueTypeOK'
    BY DEF TypeOK, GuiTypeOK, ThreadTypeOK, QueueTypeOK, Generations, Outcomes
  <1>5. Submissions'
    BY DEF TypeOK, Submissions, Threads, Isolation, Output, Preparing, AfterCancel,
           Resting, Quiet, Stopped, Reported, GuiTypeOK, ThreadTypeOK, SinkTypeOK,
           Generations
  <1>6. Threads'
    BY DEF TypeOK, Threads, ThreadTypeOK, Ended
  <1>7. Isolation'
    BY DEF TypeOK, Isolation, Submissions, Threads, Preparing, AfterCancel, Resting,
           Quiet, Stopped, LifecycleFree, ThreadTypeOK, Ended
  <1>8. Output'
    BY DEF TypeOK, Output, Isolation, Submissions, Threads, AfterCancel, Quiet,
           Stopped, LifecycleFree, SinkTypeOK, Ended
  <1>9. Mailbox'
    BY DEF TypeOK, Mailbox, Submissions, Resting, QueueTypeOK
  <1>10. Intent'
    BY DEF TypeOK, Intent, Isolation, Output, Submissions, Preparing, AfterCancel,
           Resting, Quiet, LifecycleFree, Drained, GuiTypeOK, SinkTypeOK, Ended
  <1>11. QED
    BY <1>1, <1>2, <1>3, <1>4, <1>5, <1>6, <1>7, <1>8, <1>9, <1>10 DEF TypeOK

(* The device presents a block. *)
LEMMA DevicePresentsPreserves ==
  ASSUME PipelineInv, DevicePresents
  PROVE  PipelineInv'
  <1> USE PipelineBounds
      DEF PipelineInv, DevicePresents, guiVars, ending, requestVars, threadVars,
          audioVars, queueVars
  <1>1. GuiTypeOK'
    BY DEF TypeOK, GuiTypeOK, Generations, GuiPoints, Goals
  <1>2. ThreadTypeOK'
    BY DEF TypeOK, GuiTypeOK, ThreadTypeOK, Generations, WorkerPoints, VideoPoints,
           AudioPoints, Ended
  <1>3. SinkTypeOK'
    <2>1. sink.fill - 1 \in 0..SinkCapacity
      BY DEF TypeOK, SinkTypeOK
    <2>2. QED
      BY <2>1 DEF TypeOK, SinkTypeOK
  <1>4. QueueTypeOK'
    BY DEF TypeOK, GuiTypeOK, ThreadTypeOK, QueueTypeOK, Generations, Outcomes
  <1>5. Submissions'
    BY DEF TypeOK, Submissions, Threads, Isolation, Output, Preparing, AfterCancel,
           Resting, Quiet, Stopped, Reported, GuiTypeOK, ThreadTypeOK, SinkTypeOK,
           Generations
  <1>6. Threads'
    BY DEF TypeOK, Threads, ThreadTypeOK, Ended
  <1>7. Isolation'
    BY DEF TypeOK, Isolation, Submissions, Threads, Preparing, AfterCancel, Resting,
           Quiet, Stopped, LifecycleFree, ThreadTypeOK, Ended
  <1>8. Output'
    BY DEF TypeOK, Output, Isolation, Submissions, Threads, AfterCancel, Quiet,
           Stopped, LifecycleFree, SinkTypeOK, Ended
  <1>9. Mailbox'
    BY DEF TypeOK, Mailbox, Submissions, Resting, QueueTypeOK
  <1>10. Intent'
    <2>1. sink'.running = sink.running
      BY DEF TypeOK, SinkTypeOK
    <2>2. ~Drained(sink)
      BY DEF Drained, TypeOK, SinkTypeOK
    <2>3. /\ audioIntent' = audioIntent /\ playing' = playing
          /\ sinkGeneration' = sinkGeneration /\ gui' = gui /\ goal' = goal
          /\ state' = state /\ ended' = ended /\ audio' = audio
      OBVIOUS
    <2>4. /\ Resting' <=> Resting
          /\ Preparing' <=> Preparing
          /\ LifecycleFree' <=> LifecycleFree
      BY <2>3 DEF Resting, Preparing, LifecycleFree
    <2>5. gui = "idle" /\ ~ended /\ LifecycleFree /\ sinkGeneration # 0 =>
            sink'.running = audioIntent
      BY <2>1, <2>2 DEF Intent
    <2>6. /\ Resting /\ state = "Live" => audioIntent = playing
          /\ gui = "submit" => audioIntent = playing
          /\ Preparing /\ goal = "park" => audioIntent = playing
      BY DEF Intent
    <2>7. QED
      BY <2>3, <2>4, <2>5, <2>6 DEF Intent
  <1>11. QED
    BY <1>1, <1>2, <1>3, <1>4, <1>5, <1>6, <1>7, <1>8, <1>9, <1>10 DEF TypeOK

(* The device fails. *)
LEMMA DeviceFailsPreserves ==
  ASSUME PipelineInv, DeviceFails
  PROVE  PipelineInv'
  <1> USE PipelineBounds
      DEF PipelineInv, DeviceFails, guiVars, ending, requestVars, threadVars,
          audioVars, queueVars
  <1>1. GuiTypeOK'
    BY DEF TypeOK, GuiTypeOK, Generations, GuiPoints, Goals
  <1>2. ThreadTypeOK'
    BY DEF TypeOK, GuiTypeOK, ThreadTypeOK, Generations, WorkerPoints, VideoPoints,
           AudioPoints, Ended
  <1>3. SinkTypeOK'
    BY DEF TypeOK, ThreadTypeOK, SinkTypeOK, Generations
  <1>4. QueueTypeOK'
    BY DEF TypeOK, GuiTypeOK, ThreadTypeOK, QueueTypeOK, Generations, Outcomes
  <1>5. Submissions'
    BY DEF TypeOK, Submissions, Threads, Isolation, Output, Preparing, AfterCancel,
           Resting, Quiet, Stopped, Reported, GuiTypeOK, ThreadTypeOK, SinkTypeOK,
           Generations
  <1>6. Threads'
    BY DEF TypeOK, Threads, ThreadTypeOK, Ended
  <1>7. Isolation'
    BY DEF TypeOK, Isolation, Submissions, Threads, Preparing, AfterCancel, Resting,
           Quiet, Stopped, LifecycleFree, ThreadTypeOK, Ended
  <1>8. Output'
    BY DEF TypeOK, Output, Isolation, Submissions, Threads, AfterCancel, Quiet,
           Stopped, LifecycleFree, SinkTypeOK, Ended
  <1>9. Mailbox'
    BY DEF TypeOK, Mailbox, Submissions, Resting, QueueTypeOK
  <1>10. Intent'
    BY DEF TypeOK, Intent, Isolation, Output, Submissions, Preparing, AfterCancel,
           Resting, Quiet, LifecycleFree, Drained, GuiTypeOK, SinkTypeOK, Ended
  <1>11. QED
    BY <1>1, <1>2, <1>3, <1>4, <1>5, <1>6, <1>7, <1>8, <1>9, <1>10 DEF TypeOK

-------------------------------------------------------------------------------
(* The initial state satisfies the invariant. *)
LEMMA InitPipelineInv == Init => PipelineInv
  <1> SUFFICES ASSUME Init PROVE PipelineInv
    OBVIOUS
  <1> USE PipelineBounds DEF Init
  <1>a. 0 \in Generations
    BY DEF Generations
  <1>1. GuiTypeOK /\ ThreadTypeOK
    BY <1>a
    DEF GuiTypeOK, ThreadTypeOK, GuiPoints, Goals, WorkerPoints, VideoPoints,
        AudioPoints, Ended
  <1>2. SinkTypeOK
    BY DEF SinkTypeOK, Generations, Silent
  <1>3. QueueTypeOK
    BY DEF QueueTypeOK, Generations
  <1>4. Reported = {}
    BY DEF Reported
  <1>5. Submissions /\ Threads /\ Isolation
    BY <1>4
    DEF Submissions, Threads, Isolation, Preparing, AfterCancel, Resting, Quiet,
        Stopped, LifecycleFree, Ended
  <1>6. Output /\ Mailbox /\ Intent
    BY DEF Output, Mailbox, Intent, Resting, Preparing, Silent
  <1>7. QED
    BY <1>1, <1>2, <1>3, <1>5, <1>6 DEF PipelineInv, TypeOK

(* Every step preserves it. *)
LEMMA NextPipelineInv == PipelineInv /\ [Next]_vars => PipelineInv'
  <1> SUFFICES ASSUME PipelineInv, [Next]_vars PROVE PipelineInv'
    OBVIOUS
  <1>1. ASSUME NEW what \in {"open", "restart", "park", "close", "error"},
               UserRequest(what)
        PROVE  PipelineInv'
    BY <1>1, UserRequestPreserves
  <1>2. CASE PlayPause \/ BeginShutdown \/ AudioOutputFailed \/ SelectFrame
    BY <1>2, HandlerPreserves
  <1>3. CASE HandlerStep
    BY <1>3, HandlerPreserves, ApplyIntentPreserves, ResetPlaybackPreserves
    DEF HandlerStep
  <1>4. CASE DecodeCompleted \/ EndReached
    BY <1>4, DecodeCompletedPreserves, EndReachedPreserves
  <1>5. CASE Worker
    <2>1. operation # 0 /\ UNCHANGED queueVars => operation # 0 /\ KeepsFrames
      BY DEF PipelineInv, Mailbox, TypeOK, QueueTypeOK, KeepsFrames, queueVars
    <2>2. CASE EndFailed \/ EndCancelled
      <3>1. operation # 0 /\ KeepsFrames
        BY <2>1, <2>2 DEF EndFailed, EndCancelled, PipelineInv, Threads
      <3>2. QED
        BY <2>2, <3>1, ReportPreserves DEF EndFailed, EndCancelled, Outcomes
    <2>3. CASE ReportSuccess
      <3>1. operation # 0
        BY <2>3 DEF ReportSuccess, PipelineInv, Threads
      <3>2. KeepsFrames
        BY <2>1, <2>3, <3>1, PushKeepsGeneration
        DEF ReportSuccess, PipelineInv, TypeOK, ThreadTypeOK, Mailbox,
            KeepsFrames
      <3>3. {video, audio} \subseteq Ended
        BY <2>3 DEF ReportSuccess, PipelineInv, Threads, Ended
      <3>4. QED
        BY <2>3, <3>1, <3>2, <3>3, ReportPreserves DEF ReportSuccess, Outcomes
    <2>4. QED
      BY <1>5, <2>2, <2>3, TakeRequestPreserves, ThreadPreserves DEF Worker
  <1>6. CASE Video
    BY <1>6, ThreadPreserves, VideoPushPreserves DEF Video
  <1>7. CASE Audio
    BY <1>7, ThreadPreserves, AudioResetPreserves, AudioStartPreserves,
       AudioSubmitPreserves, AudioFinishPreserves
    DEF Audio
  <1>8. CASE DevicePresents \/ DeviceFails
    BY <1>8, DevicePresentsPreserves, DeviceFailsPreserves
  <1>9. CASE UNCHANGED vars
    BY <1>9
    DEF vars, guiVars, ending, requestVars, threadVars, audioVars, queueVars,
        PipelineInv, TypeOK, GuiTypeOK, ThreadTypeOK, SinkTypeOK, QueueTypeOK,
        Submissions, Threads, Isolation, Output, Mailbox, Intent, Preparing,
        AfterCancel, Resting, Reported, Stopped, Quiet, LifecycleFree, Drained
  <1>10. QED
    BY <1>1, <1>2, <1>3, <1>4, <1>5, <1>6, <1>7, <1>8, <1>9 DEF Next, Request

(* The inductive invariant holds in every reachable state. *)
THEOREM PipelineInvariance == Spec => []PipelineInv
  BY InitPipelineInv, NextPipelineInv, PTL DEF Spec

(* What counts as the end or the failure of the current media came from it.  *)
Failing == goal = "decodeFailed" /\ gui # "idle"
ResultsInv ==
  /\ decoderDrained \/ Failing =>
       generation # 0 /\ pendingOpen # generation /\ operation # generation
  /\ gui = "submit" => ~decoderDrained

(* A new request is newer than what waits or runs; a completion is of an      *)
(* operation that was reported, and what is reported neither waits nor runs.  *)
LEMMA NextResultsInv == PipelineInv /\ ResultsInv /\ [Next]_vars => ResultsInv'
  <1> SUFFICES ASSUME PipelineInv, ResultsInv, [Next]_vars PROVE ResultsInv'
    OBVIOUS
  <1> USE DEF ResultsInv, Failing
  <1>a. /\ generation \in Nat /\ pendingOpen \in Nat /\ operation \in Nat
        /\ pendingOpen <= generation /\ operation <= generation
    BY DEF PipelineInv, TypeOK, GuiTypeOK, ThreadTypeOK, Generations, Submissions
  <1>1. ASSUME NEW what \in {"open", "restart", "park", "close", "error"},
               UserRequest(what)
        PROVE  ResultsInv'
    <2>1. /\ generation' = generation + 1 /\ gui' = "stopWorker" /\ goal' = what
          /\ pendingOpen' = pendingOpen /\ operation' = operation
      BY <1>1 DEF UserRequest, Begin, Advances, requestVars, threadVars
    <2>2. QED
      BY <1>a, <2>1
  <1>2. CASE DecodeCompleted
    <2>1. /\ Head(completions).generation \in Reported
          /\ \A g \in Reported : g # 0
      BY <1>2, ReportedTail DEF DecodeCompleted, PipelineInv, TypeOK, Submissions
    <2>2. ASSUME Head(completions).generation = generation
          PROVE  generation # 0 /\ pendingOpen # generation /\ operation # generation
      BY <2>1, <2>2 DEF PipelineInv, Submissions
    <2>3. /\ gui = "idle" /\ UNCHANGED <<generation, pendingOpen, operation>>
          /\ gui' \in {"idle", "cancelAudio"}
          /\ decoderDrained' \/ Failing' =>
               decoderDrained \/ Head(completions).generation = generation
      BY <1>2 DEF DecodeCompleted, Begin, Advances, requestVars, threadVars
    <2>4. QED
      BY <2>2, <2>3
  <1>3. CASE HandlerStep
    <2>1. CASE SubmitOpen
      BY <1>a, <2>1 DEF SubmitOpen, ending, PipelineInv, Submissions
    <2>2. CASE ResetPlayback
      BY <2>2 DEF ResetPlayback, requestVars, threadVars
    <2>3. CASE StopWorker \/ CancelAudio \/ ResetQueue \/ ObserversReturned \/ ApplyIntent
                 \/ JoinWorker
      BY <2>3
      DEF StopWorker, CancelAudio, ResetQueue, ObserversReturned, ApplyIntent, JoinWorker,
          requestVars, threadVars, ending
    <2>4. QED
      BY <1>3, <2>1, <2>2, <2>3 DEF HandlerStep
  <1>4. CASE PlayPause \/ BeginShutdown \/ AudioOutputFailed \/ SelectFrame \/ EndReached
    BY <1>4
    DEF PlayPause, BeginShutdown, AudioOutputFailed, SelectFrame, EndReached, Begin,
        Advances, requestVars, threadVars, ending
  <1>5. CASE Worker
    <2>1. CASE EndFailed \/ EndCancelled \/ ReportSuccess
      BY <2>1 DEF EndFailed, EndCancelled, ReportSuccess, Report, requestVars, guiVars, ending
    <2>2. CASE TakeRequest \/ ExitWorker \/ EndSucceeded
      BY <2>2 DEF TakeRequest, ExitWorker, EndSucceeded, requestVars, guiVars, ending
    <2>3. QED
      BY <1>5, <2>1, <2>2 DEF Worker
  <1>6. CASE Video \/ Audio \/ DevicePresents \/ DeviceFails \/ UNCHANGED vars
    <2>1. UNCHANGED <<generation, goal, gui, decoderDrained, pendingOpen, operation>>
      BY <1>6, Zenon
      DEF Video, Audio, VideoDecode, VideoFrame, VideoPush, VideoGoes, AudioDecode,
          AudioBlock, AudioLock, AudioReset, AudioPublish, AudioStart, AudioSubmit,
          AudioFinish, AudioGoes, DevicePresents, DeviceFails, vars, guiVars, ending,
          requestVars, threadVars
    <2>2. QED
      BY <2>1
  <1>7. QED
    BY <1>1, <1>2, <1>3, <1>4, <1>5, <1>6 DEF Next, Request

(* A result delivered after the next open neither ends nor fails the new      *)
(* media.  Types, and the capacities of the mailbox and the sink, hold.       *)
THEOREM ResultsStayCurrent == Spec => []ResultsAreCurrent
  <1>1. Init => ResultsInv
    BY DEF Init, ResultsInv, Failing
  <1>2. PipelineInv /\ ResultsInv => ResultsAreCurrent
    BY DEF PipelineInv, ResultsInv, Failing, ResultsAreCurrent
  <1>3. QED
    BY <1>1, <1>2, NextResultsInv, PipelineInvariance, PTL DEF Spec

(* No thread of an older operation opens the audio output after a handler   *)
(* has cancelled it: the re-check of the stop under the lifecycle lock is    *)
(* enough.                                                                   *)
THEOREM AudioStaysCurrent == Spec => []AudioIsCurrent
  <1>1. PipelineInv => AudioIsCurrent
    BY DEF PipelineInv, Isolation, Output, AudioIsCurrent, AfterCancel, Resting,
           Quiet, LifecycleFree
  <1>2. QED
    BY <1>1, PipelineInvariance, PTL

(* No frame of an older generation is queued or displayed after the mailbox *)
(* reset of the handler that replaced it.                                    *)
THEOREM FramesStayCurrent == Spec => []FramesAreCurrent
  <1>1. PipelineInv => FramesAreCurrent
    BY DEF PipelineInv, Mailbox, FramesAreCurrent, Resting
  <1>2. QED
    BY <1>1, PipelineInvariance, PTL

(* Play and pause are never lost against the audio thread opening the sink. *)
THEOREM SinkAlwaysFollowsIntent == Spec => []SinkFollowsIntent
  <1>1. PipelineInv => SinkFollowsIntent
    BY DEF PipelineInv, Intent, SinkFollowsIntent, Resting, TypeOK, GuiTypeOK
  <1>2. QED
    BY <1>1, PipelineInvariance, PTL

(* Latest request wins: the worker never starts a replaced request. *)
THEOREM OnlyNewestStartsAlways == Spec => OnlyNewestStarts
  <1> DEFINE Newest == operation' \notin {0, operation} =>
                         operation' = generation \/ gui = "stopWorker"
  <1>1. PipelineInv /\ [Next]_vars => [Newest]_vars
    <2> SUFFICES ASSUME PipelineInv, Next PROVE Newest
      BY DEF vars
    <2>1. CASE TakeRequest
      BY <2>1 DEF TakeRequest, PipelineInv, Isolation
    <2>2. CASE ~TakeRequest
      <3>1. operation' \in {0, operation}
        BY <2>2, Zenon
        DEF Next, Request, HandlerStep, Worker, Video, Audio, UserRequest,
            PlayPause, BeginShutdown, StopWorker, CancelAudio, ResetQueue,
            ObserversReturned, ResetPlayback, SubmitOpen, ApplyIntent,
            JoinWorker, AudioOutputFailed, DecodeCompleted, SelectFrame,
            EndReached, ExitWorker, EndFailed, EndCancelled, EndSucceeded,
            ReportSuccess, Report, VideoDecode, VideoFrame, VideoPush, VideoGoes,
            AudioDecode, AudioBlock, AudioLock, AudioReset, AudioPublish,
            AudioStart, AudioSubmit, AudioFinish, AudioGoes, DevicePresents,
            DeviceFails, threadVars
      <3>2. QED
        BY <3>1
    <2>3. QED
      BY <2>1, <2>2
  <1>2. QED
    BY <1>1, PipelineInvariance, PTL DEF Spec, OnlyNewestStarts

===============================================================================
