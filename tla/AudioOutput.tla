------------------------------ MODULE AudioOutput ------------------------------
(***************************************************************************)
(* The physical audio output: CubebAudioSink.cpp with its lock-free PCM    *)
(* queue (RealtimePcmQueue.cpp), used the way MediaSession.cpp uses it.    *)
(*                                                                         *)
(* Four threads.  The producer is the audio decode thread of an operation; *)
(* the GUI thread replaces playback, plays and pauses; the control thread  *)
(* runs the commands both send and wait for; the device calls back.  What  *)
(* producer and GUI do to the sink's lifecycle is under the session's      *)
(* m_audioSinkLifecycleMutex, submit() is not.                             *)
(*                                                                         *)
(* Two counters of the queue are only ever compared for change since a     *)
(* producer read them, and are modelled as that: "moved" for m_epoch,      *)
(* "woken" for m_wakeRevision.                                             *)
(***************************************************************************)
EXTENDS Integers, Sequences

CONSTANTS
  Capacity,      \* PCM frames the queue holds
  Preroll,       \* m_prerollFrames
  MaxGeneration, \* bound: playback generations with audio
  MaxFrames,     \* bound: frames one generation submits
  MaxRequest     \* bound: frames the device asks for in one callback

ASSUME AudioBounds ==
  /\ Capacity \in Nat \ {0, 1}
  /\ Preroll \in 1..(Capacity \div 2)  \* CubebAudioSink::reset
  /\ MaxGeneration \in Nat \ {0}
  /\ MaxFrames \in Nat \ {0}
  /\ MaxRequest \in Nat \ {0}

VARIABLES
  (* session *)
  stop,      \* stop requested on the producer's token
  requested, \* an operation waits to be started
  output,    \* m_audioSinkGeneration
  lock,      \* owner of m_audioSinkLifecycleMutex
  intent,    \* m_audioPlayIntent
  gui,       \* what the GUI thread does next
  answered,  \* the lock owner's invoke() has returned
  (* producer *)
  producer,  \* what it does next, "idle" between operations
  generation, block, seen, \* of its operation; of its submit(): frames, m_writeState
  (* the sink's atomics, and the control thread *)
  sink, commands, control, startCheckPending,
  (* the queue, and external: the cubeb stream *)
  queue, stream, callback, provoked

sessionVars == <<stop, requested, output, lock, intent, gui>>
producerVars == <<producer, generation, block, seen>>
controlVars == <<sink, commands, control, startCheckPending>>
deviceVars == <<stream, callback, provoked>>
vars == <<sessionVars, answered, producerVars, controlVars, queue, deviceVars>>

BugMaxSubmit == Capacity
MaxSubmit == Capacity - Preroll  \* m_maximumSubmitFrames
Threads == {"producer", "gui", "none"}
InSubmit == {"check", "enter", "room", "unlocked", "waiting", "copy", "commit",
             "account", "recheck", "startCheck"}
ProducerPoints == InSubmit \cup {"idle", "lock", "reset", "start", "block",
                                 "finish", "finishing"}
GuiPoints == {"idle", "replaceLock", "replaceWait", "submit", "playLock", "playWait"}
ControlPoints == {"idle", "reset", "cancel", "epoch", "destroy", "finish", "start",
                  "started", "failing", "pause", "check"}
Command(what, g, waits) == [at |-> what, generation |-> g, waits |-> waits]
NoCommand == Command("idle", 0, FALSE)
NoCallback == [at |-> "none", read |-> 0, media |-> 0, silent |-> 0]

Init ==
  /\ stop = FALSE /\ requested = FALSE /\ output = 0 /\ lock = "none"
  /\ intent = TRUE /\ gui = "idle" /\ answered = FALSE
  /\ producer = "idle" /\ generation = 0 /\ block = 0 /\ seen = 0
  /\ sink = [generation |-> 0, ready |-> FALSE, wanted |-> FALSE, started |-> FALSE,
             finished |-> FALSE, drained |-> FALSE, ignoreDrain |-> FALSE,
             failed |-> FALSE]
  /\ commands = <<>>
  /\ control = NoCommand
  /\ startCheckPending = FALSE
  /\ queue = [open |-> FALSE, write |-> 0, read |-> 0, generation |-> 0,
              produced |-> 0, ring |-> [i \in 0..(Capacity - 1) |-> <<0, 0>>],
              moved |-> FALSE, woken |-> FALSE]
  /\ stream = "none" /\ callback = NoCallback /\ provoked = FALSE

-------------------------------------------------------------------------------
(* The queue's helpers and the commands. *)

BugFreeFrames == Capacity + 1 - (queue.write - queue.read)
FreeFrames == Capacity - (queue.write - queue.read)

Send(what, g) == commands' = Append(commands, Command(what, g, TRUE))  \* invoke

(* RealtimePcmQueue::cancel, its two halves. *)
Closed(q) == [q EXCEPT !.open = FALSE]
Awake(q) == [q EXCEPT !.moved = TRUE, !.woken = TRUE]

(* The part of failEpoch before the queue's epoch moves. *)
FailedEpoch(s) == [s EXCEPT !.ready = FALSE, !.started = FALSE, !.failed = TRUE]

-------------------------------------------------------------------------------
(* GUI thread: cancelPipeline and cancelAudioOutput, play and haltPlayback. *)

Replace ==
  /\ gui = "idle"
  /\ stop' = TRUE
  /\ queue' = [queue EXCEPT !.woken = TRUE]  \* submit()'s stop_callback
  /\ requested' = FALSE
  /\ gui' = "replaceLock"
  /\ UNCHANGED <<output, lock, intent, answered, producerVars, controlVars, deviceVars>>

CancelOutput ==
  /\ gui = "replaceLock"
  /\ lock = "none"
  /\ output' = 0
  /\ IF output = 0
     THEN gui' = "submit" /\ UNCHANGED <<lock, commands>>
     ELSE gui' = "replaceWait" /\ lock' = "gui" /\ Send("cancel", output)
  /\ UNCHANGED <<stop, requested, intent, answered, producerVars, sink, control,
                 startCheckPending, queue, deviceVars>>

(* submitOpen; a close submits nothing. *)
Submit ==
  /\ gui = "submit"
  /\ requested' \in {FALSE, generation < MaxGeneration}
  /\ gui' = "idle"
  /\ UNCHANGED <<stop, output, lock, intent, answered, producerVars, controlVars,
                 queue, deviceVars>>

PlayPause ==
  /\ gui = "idle"
  /\ intent' = ~intent
  /\ gui' = "playLock"
  /\ UNCHANGED <<stop, requested, output, lock, answered, producerVars, controlVars,
                 queue, deviceVars>>

(* CubebAudioSink::start and pause set m_wantsRunning before their command. *)
ApplyIntent ==
  /\ gui = "playLock"
  /\ lock = "none"
  /\ IF output = 0
     THEN gui' = "idle" /\ UNCHANGED <<lock, sink, commands>>
     ELSE /\ gui' = "playWait" /\ lock' = "gui"
          /\ sink' = [sink EXCEPT !.wanted = intent]
          /\ Send(IF intent THEN "start" ELSE "pause", 0)
  /\ UNCHANGED <<stop, requested, output, intent, answered, producerVars, control,
                 startCheckPending, queue, deviceVars>>

CommandReturns ==
  /\ gui \in {"replaceWait", "playWait"}
  /\ answered
  /\ answered' = FALSE
  /\ lock' = "none"
  /\ gui' = IF gui = "replaceWait" THEN "submit" ELSE "idle"
  /\ UNCHANGED <<stop, requested, output, intent, producerVars, controlVars, queue,
                 deviceVars>>

-------------------------------------------------------------------------------
(* The producer: one operation's audio decode thread in the session's submit *)
(* and endOfStream callbacks.                                                *)

ProducerGoes(next) ==
  /\ producer' = next
  /\ UNCHANGED <<requested, intent, gui, deviceVars>>

BeginOperation ==
  /\ producer = "idle"
  /\ requested
  /\ requested' = FALSE
  /\ stop' = FALSE
  /\ generation' = generation + 1
  /\ producer' = "lock"
  /\ UNCHANGED <<output, lock, intent, gui, answered, block, seen, controlVars, queue,
                 deviceVars>>

OpenOutput ==
  /\ producer = "lock"
  /\ lock = "none"
  /\ IF stop
     THEN ProducerGoes("idle") /\ UNCHANGED <<lock, commands>>
     ELSE ProducerGoes("reset") /\ lock' = "producer" /\ Send("reset", generation)
  /\ UNCHANGED <<stop, output, answered, generation, block, seen, sink, control,
                 startCheckPending, queue>>

StartOutput ==
  /\ producer = "reset"
  /\ answered
  /\ answered' = FALSE
  /\ output' = generation
  /\ sink' = [sink EXCEPT !.wanted = intent]
  /\ Send(IF intent THEN "start" ELSE "pause", 0)
  /\ ProducerGoes("start")
  /\ UNCHANGED <<stop, lock, generation, block, seen, control, startCheckPending, queue>>

OutputStarted ==
  /\ producer = "start"
  /\ answered
  /\ answered' = FALSE
  /\ lock' = "none"
  /\ block' \in 1..MaxSubmit  \* the first block brought it here
  /\ ProducerGoes("check")
  /\ UNCHANGED <<stop, output, generation, seen, controlVars, queue>>

NextBlock ==
  /\ producer = "block"
  /\ IF stop
     THEN ProducerGoes("idle") /\ UNCHANGED block
     ELSE \/ ProducerGoes("finish") /\ UNCHANGED block
          \/ /\ block' \in 1..MaxSubmit
             /\ queue.produced + block' <= MaxFrames
             /\ ProducerGoes("check")
  /\ UNCHANGED <<stop, output, lock, answered, generation, seen, controlVars, queue>>

Finish ==
  /\ producer = "finish"
  /\ lock = "none"
  /\ IF output = generation
     THEN ProducerGoes("finishing") /\ lock' = "producer" /\ Send("finish", generation)
     ELSE ProducerGoes("idle") /\ UNCHANGED <<lock, commands>>
  /\ UNCHANGED <<stop, output, answered, generation, block, seen, sink, control,
                 startCheckPending, queue>>

Finished ==
  /\ producer = "finishing"
  /\ answered
  /\ answered' = FALSE
  /\ lock' = "none"
  /\ ProducerGoes("idle")
  /\ UNCHANGED <<stop, output, generation, block, seen, controlVars, queue>>

-------------------------------------------------------------------------------
(* CubebAudioSink::submit around RealtimePcmQueue::submitResult, one action   *)
(* for every look at what other threads change.                              *)

SubmitGoes(next) ==
  /\ ProducerGoes(next)
  /\ block' = IF next \in InSubmit THEN block ELSE 0
  /\ seen' = IF next \in InSubmit THEN seen ELSE 0
  /\ UNCHANGED <<stop, output, lock, answered, generation, sink, control>>

EpochCurrent == sink.generation = generation /\ sink.ready

CheckEpoch ==
  /\ producer = "check"
  /\ SubmitGoes(IF EpochCurrent THEN "enter" ELSE "idle")
  /\ UNCHANGED <<queue, commands, startCheckPending>>

Enter ==
  /\ producer = "enter"
  /\ IF stop \/ ~queue.open \/ queue.generation # generation
     THEN SubmitGoes("idle") /\ UNCHANGED queue
     ELSE /\ ProducerGoes("room")
          /\ seen' = queue.write
          /\ queue' = [queue EXCEPT !.moved = FALSE]
          /\ UNCHANGED <<stop, output, lock, answered, generation, block, sink, control>>
  /\ UNCHANGED <<commands, startCheckPending>>

Refused == stop \/ queue.moved \/ ~queue.open

(* Room for the block, or the wake revision is read before it waits.  A       *)
(* block that fits is still refused if the epoch is over.                     *)
FindRoom ==
  /\ producer = "room"
  /\ queue' = IF FreeFrames >= block \/ Refused
              THEN queue ELSE [queue EXCEPT !.woken = FALSE]
  /\ SubmitGoes(IF Refused THEN "idle"
                ELSE IF FreeFrames >= block THEN "copy" ELSE "unlocked")
  /\ UNCHANGED <<commands, startCheckPending>>

(* The second look, after the mutex is released. *)
LookAgain ==
  /\ producer = "unlocked"
  /\ SubmitGoes(IF ~Refused /\ FreeFrames < block THEN "waiting" ELSE "room")
  /\ UNCHANGED <<queue, commands, startCheckPending>>

Wait ==
  /\ producer = "waiting"
  /\ queue.woken
  /\ SubmitGoes("room")
  /\ UNCHANGED <<queue, commands, startCheckPending>>

CopySamples ==
  /\ producer = "copy"
  /\ LET offset == [i \in 0..(Capacity - 1) |-> (i - seen) % Capacity]
     IN queue' = [queue EXCEPT !.ring = [i \in 0..(Capacity - 1) |->
                    IF offset[i] < block THEN <<generation, seen + offset[i]>> ELSE @[i]]]
  /\ SubmitGoes(IF stop THEN "idle" ELSE "commit")
  /\ UNCHANGED <<commands, startCheckPending>>

BugCommitBlindly ==
  /\ producer = "commit"
  /\ queue' = [queue EXCEPT !.open = TRUE, !.write = seen + block]
  /\ SubmitGoes("account")
  /\ UNCHANGED <<commands, startCheckPending>>

(* The compare-exchange publishes the frames unless the queue was cancelled. *)
Commit ==
  /\ producer = "commit"
  /\ IF ~queue.moved /\ queue.open /\ queue.write = seen
     THEN queue' = [queue EXCEPT !.write = seen + block] /\ SubmitGoes("account")
     ELSE SubmitGoes("idle") /\ UNCHANGED queue
  /\ UNCHANGED <<commands, startCheckPending>>

Account ==
  /\ producer = "account"
  /\ queue' = [queue EXCEPT !.produced = @ + block]
  /\ SubmitGoes("recheck")
  /\ UNCHANGED <<commands, startCheckPending>>

RecheckEpoch ==
  /\ producer = "recheck"
  /\ SubmitGoes(IF EpochCurrent THEN "startCheck" ELSE "idle")
  /\ UNCHANGED <<queue, commands, startCheckPending>>

(* At most one start check waits in the command queue. *)
RequestStartCheck ==
  /\ producer = "startCheck"
  /\ startCheckPending' = TRUE
  /\ commands' = IF startCheckPending THEN commands
                 ELSE Append(commands, Command("check", 0, FALSE))
  /\ SubmitGoes("block")
  /\ UNCHANGED <<queue>>

-------------------------------------------------------------------------------
(* The control thread. *)

ControlGoes(next) ==
  /\ control' = IF next = "idle" THEN NoCommand ELSE [control EXCEPT !.at = next]
  /\ UNCHANGED <<sessionVars, producerVars, commands, startCheckPending>>

(* The command is done; a caller of invoke() goes on. *)
Done == ControlGoes("idle") /\ answered' = (answered \/ control.waits)

TakeCommand ==
  /\ control.at = "idle"
  /\ commands # <<>>
  /\ control' = Head(commands)
  /\ commands' = Tail(commands)
  /\ UNCHANGED <<sessionVars, answered, producerVars, sink, startCheckPending, queue,
                 deviceVars>>

NoRender == callback.at = "none"  \* external: stopping a stream waits for its callback

(* reset: its caller waits and the stream is gone, so no one sees its steps. *)
Reset ==
  /\ control.at = "reset"
  /\ NoRender
  /\ \E opened \in BOOLEAN :  \* the device may not open
       /\ sink' = [generation |-> control.generation, ready |-> opened, wanted |-> FALSE,
                   started |-> FALSE, finished |-> FALSE, drained |-> FALSE,
                   ignoreDrain |-> FALSE, failed |-> ~opened]
       /\ queue' = [Awake(queue) EXCEPT !.open = opened, !.write = 0, !.read = 0,
                      !.generation = control.generation, !.produced = 0]
       /\ stream' = IF opened THEN "stopped" ELSE "none"
  /\ provoked' = FALSE
  /\ Done
  /\ UNCHANGED callback

(* cancel, and destroyStream: the queue is closed before its epoch moves.     *)
(* The session's lifecycle lock lets no command of another epoch come here,   *)
(* so the code's early return on a stale generation is never taken.           *)
Cancel ==
  /\ control.at = "cancel"
  /\ control.generation = sink.generation
  /\ sink' = [sink EXCEPT !.wanted = FALSE, !.ready = FALSE]
  /\ queue' = Closed(queue)
  /\ ControlGoes("epoch")
  /\ UNCHANGED <<answered, deviceVars>>

CancelEpoch ==
  /\ control.at = "epoch"
  /\ queue' = Awake(queue)
  /\ ControlGoes("destroy")
  /\ UNCHANGED <<answered, sink, deviceVars>>

Destroy ==
  /\ control.at = "destroy"
  /\ NoRender
  /\ sink' = [sink EXCEPT !.generation = 0, !.started = FALSE, !.finished = FALSE,
                          !.drained = FALSE]
  /\ stream' = "none"
  /\ provoked' = FALSE
  /\ Done
  /\ UNCHANGED <<queue, callback>>

BugFinishOnly ==
  /\ control.at = "finish"
  /\ control.generation = sink.generation
  /\ sink' = [sink EXCEPT !.finished = TRUE]
  /\ Done
  /\ UNCHANGED <<queue, deviceVars>>

(* finish; what never reached the preroll is played now. *)
FinishEpoch ==
  /\ control.at = "finish"
  /\ control.generation = sink.generation
  /\ sink' = [sink EXCEPT !.finished = TRUE]
  /\ ControlGoes("start")
  /\ UNCHANGED <<answered, queue, deviceVars>>

(* maybeStart *)
MayStart ==
  /\ stream # "none" /\ sink.ready /\ sink.wanted /\ ~sink.started
  /\ queue.write - queue.read >= Preroll \/ sink.finished

(* The check is taken back before it looks. *)
StartCheck ==
  /\ control.at = "check"
  /\ startCheckPending' = FALSE
  /\ control' = [control EXCEPT !.at = "start"]
  /\ UNCHANGED <<sessionVars, producerVars, commands, answered, sink, queue, deviceVars>>

StayStopped ==
  /\ control.at = "start"
  /\ ~MayStart
  /\ Done
  /\ UNCHANGED <<sink, queue, deviceVars>>

(* cubeb_stream_start reports STARTED before it returns, and DRAINED for an   *)
(* earlier stop no later than that.                                          *)
StartStream ==
  /\ control.at = "start"
  /\ MayStart
  /\ ~provoked
  /\ stream' = "running"
  /\ sink' = [sink EXCEPT !.ignoreDrain = FALSE, !.started = TRUE]
  /\ ControlGoes("started")
  /\ UNCHANGED <<answered, queue, callback, provoked>>

StartFails ==
  /\ control.at = "start"
  /\ MayStart
  /\ sink' = FailedEpoch(sink)
  /\ queue' = Closed(queue)
  /\ ControlGoes("failing")
  /\ UNCHANGED <<answered, deviceVars>>

Started ==
  /\ control.at = "started"
  /\ sink' = [sink EXCEPT !.started = TRUE]
  /\ Done
  /\ UNCHANGED <<queue, deviceVars>>

Failing ==
  /\ control.at = "failing"
  /\ queue' = Awake(queue)
  /\ Done
  /\ UNCHANGED <<sink, deviceVars>>

PauseStopped ==
  /\ control.at = "pause"
  /\ stream = "none" \/ ~sink.started
  /\ Done
  /\ UNCHANGED <<sink, queue, deviceVars>>

BugHeedDrain(s) == [s EXCEPT !.started = FALSE]
PausedSink(s) == [s EXCEPT !.started = FALSE, !.ignoreDrain = TRUE]

(* "An explicit pause/stop can provoke a backend DRAINED callback." *)
Pause ==
  /\ control.at = "pause"
  /\ stream # "none" /\ sink.started
  /\ sink' = PausedSink(sink)
  /\ stream' = "stopped"
  /\ provoked' \in BOOLEAN
  /\ Done
  /\ UNCHANGED <<queue, callback>>

PauseFails ==
  /\ control.at = "pause"
  /\ stream # "none" /\ sink.started
  /\ NoRender
  /\ sink' = FailedEpoch(PausedSink(sink))
  /\ queue' = Closed(queue)
  /\ stream' = "none"
  /\ provoked' = FALSE
  /\ ControlGoes("failing")
  /\ UNCHANGED <<answered, callback>>

-------------------------------------------------------------------------------
(* The device's callbacks, on its own thread; external: when they come. *)

DeviceStep == UNCHANGED <<sessionVars, answered, producerVars, commands, control,
                          startCheckPending>>

(* consume() looks at the queue, ... *)
RenderLook ==
  /\ stream = "running"
  /\ NoRender
  /\ \E frames \in 1..MaxRequest :
       LET available == IF queue.open THEN queue.write - queue.read ELSE 0
           media == IF frames < available THEN frames ELSE available
       IN callback' = [at |-> "consume", read |-> queue.read, media |-> media,
                       silent |-> frames - media]
  /\ DeviceStep
  /\ UNCHANGED <<sink, queue, stream, provoked>>

(* ... copies the frames and gives their room back. *)
RenderConsume ==
  /\ callback.at = "consume"
  /\ callback' = [callback EXCEPT !.at = "return"]
  /\ queue' = IF callback.media = 0 THEN queue
              ELSE [queue EXCEPT !.read = callback.read + callback.media, !.woken = TRUE]
  /\ DeviceStep
  /\ UNCHANGED <<sink, stream, provoked>>

(* A short answer tells the device to drain what it was given and stop. *)
RenderReturn ==
  /\ callback.at = "return"
  /\ callback' = NoCallback
  /\ stream' = IF stream = "running" /\ callback.silent # 0 /\ sink.finished
               THEN "draining" ELSE stream
  /\ DeviceStep
  /\ UNCHANGED <<sink, queue, provoked>>

(* handleState(CUBEB_STATE_DRAINED). *)
DeviceDrained ==
  /\ stream = "draining" \/ provoked
  /\ NoRender
  /\ stream' = IF stream = "draining" THEN "drained" ELSE stream
  /\ provoked' = FALSE
  /\ sink' = [sink EXCEPT !.started = FALSE,
                 !.drained = @ \/ (~sink.ignoreDrain /\ sink.finished /\ sink.wanted)]
  /\ DeviceStep
  /\ UNCHANGED <<queue, callback>>

(* handleState(CUBEB_STATE_ERROR), up to the epoch and after it. *)
DeviceFails ==
  /\ stream \in {"running", "draining"}
  /\ NoRender
  /\ sink' = FailedEpoch(sink)
  /\ queue' = Closed(queue)
  /\ stream' = "failed"
  /\ callback' = [NoCallback EXCEPT !.at = "failing"]
  /\ DeviceStep
  /\ UNCHANGED provoked

DeviceFailed ==
  /\ callback.at = "failing"
  /\ queue' = Awake(queue)
  /\ callback' = NoCallback
  /\ DeviceStep
  /\ UNCHANGED <<sink, stream, provoked>>
-------------------------------------------------------------------------------
Request == Replace \/ PlayPause
Gui == CancelOutput \/ Submit \/ ApplyIntent \/ CommandReturns
Submitting ==
  \/ CheckEpoch \/ Enter \/ FindRoom \/ LookAgain \/ Wait \/ CopySamples \/ Commit
  \/ Account \/ RecheckEpoch \/ RequestStartCheck
Producer ==
  \/ BeginOperation \/ OpenOutput \/ StartOutput \/ OutputStarted \/ NextBlock
  \/ Finish \/ Finished \/ Submitting
Control ==
  \/ TakeCommand \/ Reset \/ Cancel \/ CancelEpoch \/ Destroy
  \/ FinishEpoch \/ StartCheck \/ StayStopped \/ StartStream \/ StartFails \/ Started
  \/ Failing \/ PauseStopped \/ Pause \/ PauseFails
Render == RenderLook \/ RenderConsume \/ RenderReturn
Device == Render \/ DeviceDrained \/ DeviceFailed

Next == Request \/ Gui \/ Producer \/ Control \/ Device \/ DeviceFails

(* The threads run, and a running device keeps asking for frames and reports  *)
(* its drain.  Users need not do anything, and the device need not fail.      *)
Fairness ==
  WF_vars(Gui) /\ WF_vars(Producer) /\ WF_vars(Control) /\ WF_vars(Device)

Spec == Init /\ [][Next]_vars /\ Fairness

-------------------------------------------------------------------------------
Generations == 0..MaxGeneration
Frames == 0..(MaxFrames + Capacity)

Slots == 0..(Capacity - 1)
Commands == [at : ControlPoints, generation : Generations, waits : BOOLEAN]
Sinks ==
  [generation : Generations, ready : BOOLEAN, wanted : BOOLEAN, started : BOOLEAN,
   finished : BOOLEAN, drained : BOOLEAN, ignoreDrain : BOOLEAN, failed : BOOLEAN]
Queues ==
  [open : BOOLEAN, write : Frames, read : Frames, generation : Generations,
   produced : Frames, ring : [Slots -> Generations \X Frames],
   moved : BOOLEAN, woken : BOOLEAN]
Callbacks ==
  [at : {"none", "consume", "return", "failing"}, read : Frames, media : Frames,
   silent : 0..MaxRequest]

SessionTypes ==
  /\ stop \in BOOLEAN /\ requested \in BOOLEAN /\ intent \in BOOLEAN
  /\ answered \in BOOLEAN /\ output \in Generations /\ lock \in Threads
  /\ gui \in GuiPoints
ProducerTypes ==
  /\ producer \in ProducerPoints /\ generation \in Generations
  /\ block \in 0..MaxSubmit /\ seen \in Frames
CommandTypes ==
  commands \in Seq(Commands) /\ control \in Commands /\ startCheckPending \in BOOLEAN
DeviceTypes ==
  /\ stream \in {"none", "stopped", "running", "draining", "drained", "failed"}
  /\ callback \in Callbacks /\ provoked \in BOOLEAN

(* Types and bounds: start checks are coalesced, so the command queue holds at *)
(* most one of them and the command of the lock's owner.                      *)
TypeOK ==
  /\ SessionTypes /\ ProducerTypes /\ sink \in Sinks /\ CommandTypes /\ queue \in Queues
  /\ DeviceTypes
  /\ Len(commands) <= 2

(* What the device is about to hear, or has still to hear, is the frames of   *)
(* the current epoch in their order, each once: no cancellation, reset or     *)
(* wait of submitResult lets a frame be overwritten, skipped or miscounted    *)
(* (RealtimePcmQueue::submitResult, consume, reset, cancel).                  *)
HeardInOrder ==
  LET Holds(first, last) ==
        \A f \in first..last : queue.ring[f % Capacity] = <<queue.generation, f>>
  IN /\ TypeOK
     /\ 0 <= queue.write - queue.read /\ queue.write - queue.read <= Capacity
     /\ Holds(queue.read, queue.write - 1)
     /\ callback.at = "consume" =>
          /\ callback.read = queue.read
          /\ Holds(callback.read, callback.read + callback.media - 1)
     /\ queue.write = queue.produced + (IF producer = "account" THEN block ELSE 0)

(* Silence is kept: once the session has cancelled its output the queue takes *)
(* nothing and the stream is gone until the next reset, and no start check or *)
(* finish under way restarts the stream after pause() has returned.           *)
SilenceIsKept ==
  lock = "none" =>
    /\ output = 0 => ~queue.open /\ stream = "none" /\ ~sink.ready
    /\ stream \in {"running", "draining"} /\ gui # "playLock" => intent

(* A drain is taken for the end of the epoch only when the stream itself ran  *)
(* dry, never when a pause provoked it (m_ignoreDrainUntilStarted).           *)
DrainIsGenuine == [][~sink.drained /\ sink.drained' => stream = "draining"]_vars

(* "CUBEB_STATE_DRAINED is the authoritative completion boundary"             *)
(* (CubebAudioSink.cpp): the epoch is reported drained only after the device  *)
(* was given every frame the producer submitted.                              *)
DrainedAfterLastFrame == sink.drained => queue.read = queue.write

(* submit() returns, wherever it is, unless it waits for room while playback  *)
(* is paused: a stop or cancel "promptly releases any blocked producer"       *)
(* (AudioSink.h), and "an accepted block can never wait for a callback that   *)
(* cannot start until that same block is published"                           *)
(* (docs/subsystems/audio/README.md).                                         *)
SubmitReturns ==
  (producer \in InSubmit) ~>
    (producer \notin InSubmit \/ (~sink.wanted /\ ~stop /\ queue.open))

(* A finished epoch that should play is reported drained, failed or replaced. *)
DrainIsReported ==
  (sink.finished /\ sink.wanted) ~>
    (sink.drained \/ sink.failed \/ ~sink.wanted \/ ~sink.finished)
===============================================================================
