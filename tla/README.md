# Formal model of SunPlayer

SunPlayer is a Qt/C++ media player: local files and a Jellyfin server, FFmpeg decoding on
worker threads, Cubeb audio as the presentation clock, libplacebo video on the GPU. This
directory models the parts whose correctness depends on the order of things: threads,
posted events, device callbacks, server answers, compositor and desktop calls, crashes.
Paths below are relative to the repository; the implementation is its `src/` directory.

## 1. Inventory

| Part | State it keeps | Operations | Talks to | Model |
|---|---|---|---|---|
| `playback/MediaSession` | playback generation, state (Empty, Opening, Ready, Error), intent, seek, tracks, clock anchors, the pending open, two stop sources | open, play, pause, stop, seek, select track, retry, cancel, device loss and return, destructor | worker and decode threads (mutexes, stop tokens), mailbox, audio sink, video source; results come back as posted events | `MediaPipeline` (threads), `MediaSession` (decisions) |
| `playback/VideoFrameQueue` | at most 3 decoded frames of one generation; timeline; preroll gate | reset, push (waits), front, pop; schedule, admit, finish | filled by the video thread, emptied by the GUI thread | `MediaPipeline`, `PlaybackTiming` |
| `playback/CoalescedGenerationWake` | latest generation, pending flag | request (any thread), drain (GUI thread) | one posted event at a time | `CoalescedGenerationWake` |
| `playback/VideoFrameScheduler` | last frame and position | select | called by the session | `PlaybackTiming` |
| `media/FfmpegMediaDecoder`, `media/ffmpeg/FfmpegPacketRouter` | packet queues with a shared budget, per-operation stop source, the converter's timeline | demux loop, video, audio and subtitle threads, join | session's frame and audio sinks | `DecodeOperation`, `AudioTimeline` |
| `audio/CubebAudioSink`, `RealtimePcmQueue`, `AudioOutputLedger` | epoch, lock-free PCM ring, drain and error flags, position ledger | reset, submit, start, pause, finish, cancel, snapshot | control thread, device callbacks, audio decode thread | `AudioOutput`, `AudioOutputLedger` |
| `audio/ControlledAudioSink` | the same contract, driven by hand | the same, and advance, hold, fail | its producer | `ControlledAudioSink` |
| `subtitles/SubtitleSource`, `presentation/SubtitleRenderer` | events of a generation, revision; the drawn picture and its texture | publish, clear, reset; prepare, upload | decode thread, session, presentation engine, libass | `SubtitleLayer` |
| `presentation/RhiPresentationEngine`, `video/*Producer`, `platform/linux/LinuxWaylandWindowContext` | device, swapchain, producer, bindings, recovery attempts, declared description | render stages, loss and recovery, window events | session, Quick scene, compositor, error dialog | `Presentation` |
| `video/ActiveVideoSource`, `DecodedVideoSource`, `DiagnosticVideoSource` | route; revisions of content and of producer configuration; frame and settings | set route, setters, set and clear frame, prepare | session, lab page, presentation engine | `VideoSources`; when they ask for frames: `Presentation` |
| `platform/linux/LinuxWaylandWindowContext`, display provider | published display state, outstanding description | refresh, description answered, surface | compositor | `WaylandDisplayState` |
| `jellyfin/JellyfinPlaybackAdapter` | occurrence, start pending, stop pending, resolution number | play, observe, finish, close; quitting | session signals, server reports | `JellyfinPlaybackAdapter` |
| `jellyfin/JellyfinBrowser`, `TokenStore` | history, page, request number, home feeds; session, tombstone, token | browse, page, mark, login, logout, restore | client callbacks, key chain, settings | `JellyfinBrowser`, `JellyfinSession` |
| `app/AppShell`, `app/pages/PlayerPage` | page, gathered seek, slider, bar of controls | navigate, seek, hide | session, browser | `PlayerShell` |
| `app/ApplicationSettings`, `subtitles/SubtitleSettings`, `settings/*` | stored keys, chosen values, revision of the look | load, save, edit, preset | the store, the objects that use the values | `PlayerSettings` |
| `platform/linux/LinuxPlaybackPowerInhibitor` | wish, pending call, handle | set active, response, destructor | desktop portal | `PlaybackPowerInhibitor` |
| `platform/linux/LinuxNativeMediaControls` | what was published, track id | publish, the desktop's calls | session, session bus | `MediaControls` |
| `platform/linux/AppImageUpdater` | staged copy, lock, helper | check, update, finish, stop | helper process, other players | `AppImageUpdater` |
| `diagnostics/ApplicationLog` | bounded record queue, drop count, watermarks | enqueue, flush, stop | every thread, a writer thread | `ApplicationLog` |
| graphics backends, dialogs, Windows and macOS adapters | driver and platform objects | | | not modelled, section 8 |

### Hard behaviours and what makes each part correct

* **Session threads.** Up to four threads touch one session. A generation number names the
  current media; everything of an older one must be refused wherever it arrives: mailbox,
  audio output, posted completion. Cancellation must reach a thread wherever it waits.
* **Session decisions.** Seek, device recovery, hardware fallback, buffering and the end of
  media cross each other: a stopped session stays stopped, a seek completes, no old picture
  stays, hardware that failed is not taken up again unless the user asks for the medium anew or
  another device is made, the clock never rewinds and playback never waits for nothing.
* **Decode operation.** Three consumers on one shared budget, a full mailbox and a full ring
  must not block each other for ever, and the answer must say what happened.
* **Audio.** A lock-free queue between three threads; a ledger read while it wraps; sound
  that keeps the medium's time across gaps, seeks and rounding.
* **Presentation.** A render is a chain of stages of which each may fail, with the window,
  the display and the sources changing between renders, and one even inside it. Whether it
  draws at all follows from revisions that stand for two sources, one of which is out of sight.
* **Jellyfin.** Answers in any order, reports one at a time and never lost, a catalogue that
  shows where the user is, a sign-out that survives a crash.
* **Edges.** Bounded queues whose losses are told, flushes that return, desktop calls that
  arrive late, seeks gathered over a changing medium, a file replaced under running players.

`PROJECT.json` lists each hazard at its line with the properties that cover it.

## 2. How the project is split

Each component has a module of its own; a proof module beside it EXTENDS it; MC modules only
give constants their values or put components side by side. Operators named after a
function map a state to the next one and compose as the calls do, where everything runs on
one thread; where threads meet, every lock, wait and atomic access is a step.

| Modules | Composes | Run | Theorems |
|---|---|---|---|
| `CoalescedGenerationWake`, refining `GenerationWakeContract` | | `services` | inductive invariant, no lost wake, refinement |
| `MediaPipeline` | GUI thread, worker, decode threads, mailbox, contract of the audio sink | `pipeline`, `pipeline_failure` | inductive invariant, five properties |
| `AudioOutput` | `CubebAudioSink`, `RealtimePcmQueue`, the session's use of them | `audio_safety`, `audio_liveness`, `audio_drain` | inductive invariant, four properties |
| `MediaSession` | GUI state machine, the three clocks, graphics device, results of the threads | `session`, `session_recovery` | inductive invariant, six properties |
| `DecodeOperation`, refining `DecodeContract` | demuxer, router, three workers, mailbox and ring, the player's clock | `decode` | inductive invariant, the router's budget, refinement |
| `Presentation` | window, engine, producers, sources, compositor declaration, error dialog | `presentation`  | inductive invariant, three properties |
| `JellyfinPlaybackAdapter` | adapter, browser numbering, client session, quitting | `services`, `jellyfin_login` | inductive invariant, five properties |
| the other fifteen | `MCBoundaries` puts them side by side | `boundaries` | of `JellyfinSession`: inductive invariant, its property |

Two refinements are checked. `CoalescedGenerationWake` implements `GenerationWakeContract`:
every request is followed by a call of the handler that starts after it and names the newest
generation, however many requests share it. `DecodeOperation` implements `DecodeContract`:
one operation hands over frames and audio in order while it runs, answers once, and the
answer is what happened. The threads of `MediaPipeline` use exactly that promise. The safety
of both refinements is also proved, for every value of the constants.

`MCServices` and `MCBoundaries` put components in one model that share no state, because
they share the number of runs worth waiting for: the variable `part` says which of them
moves, and the others rest. Each property is checked of the part that moves. Nothing is
composed there that interacts in the code; where components do interact (session and
threads, engine and compositor, adapter and browser) they are in one module.

## 3. What is modelled

### `CoalescedGenerationWake`

One action per atomic access of `request()` and `drain()`: `StoreLatest`, `ClaimPending`,
`TakeLatest`, `ReleasePending`, `CheckLatest`, `ReclaimPending`; `PostDrain`/`BeginDrain` are
the queued call of `postFramesAvailable`.

### `MediaPipeline`

A GUI handler (`goal`) runs through the points where it takes a lock (`gui`); between them
the supervisor worker and the two decode threads take their own steps. Frames carry the
generation that decoded them, so "stale" can be seen in the state. Left out on purpose: the
wake (a frame in the mailbox can simply be selected), nested play or pause calls made by
observers, positions. Opening and Ready are merged ("Live") because no thread can tell them
apart; stream discovery is part of the decode threads' first step; media time is whether the
presentation clock can advance. `failWithoutWorker` and a presentation failure take the same
steps and are one goal. Generation 0 stands for "none"; the first playback is 1.

### `MediaSession`

The same class seen from its GUI thread alone: one record, one operator per function, one
action per event. Positions are counted in frames, the three clocks (monotonic, audio, tail)
move them, and grace periods are "late" and then "due". What the threads produce arrives in
order (frames in `queue`, the outcome, the audio output's snapshots as `Outputs`); what an
abandoned generation produces was refused before, which is what `MediaPipeline` shows.
`refused` is a history variable that no action reads: the present device has failed to import
frames of this medium. The code's own flag is cleared by retry, replay and a loss of the
device; `FallbackSticks` is stated with the history, so that it does not depend on the flag.
Every medium declares a duration. A local medium differs in one thing, the watch over its
starving audio. Nested calls by observers and the change of audio epoch under a running
generation (unreachable: each open resets the sink) are not modelled.

### `DecodeOperation` and `DecodeContract`

`decodeMediaFrames`: the demuxer reads and routes packets, each worker pops, sends to its
codec, receives, and hands frames to the mailbox or blocks to the ring; pop, push and wait
are steps under the router's one mutex. The router has three queues and two counters
(`queued`) that are kept beside them, as `m_queuedPackets` and `m_queuedBytes` are, and decide
alone whether a packet fits. Packets come in any order and of any size, without bytes too;
audio that starts before what was already handed over is an error (`OverlapFails`). Time is counted in audio blocks; the resampler's
delay and trimming are abstracted here and detailed in `AudioTimeline`. The player takes
frames when they are due by the audio clock, by monotonic time when the audio is over.
`faults` are errors of the input or of a codec, closed sinks and cancelled opens; the
software fallback of the video decoder happens inside its own step. A subtitle decoder that
fails to open takes the subtitle track away; `EAGAIN` on send cannot occur, as each worker
drains its codec before it sends.

### `PlaybackTiming`, `AudioTimeline`, `AudioOutputLedger`, `ControlledAudioSink`

Media time in its four forms. `PlaybackTiming` gives frames with any timestamps a monotonic
time, finds the first frame of a seek and selects what is due. `AudioTimeline` is the
converter: timestamps in a time base coarser than a sample, rounded either way or missing,
gaps of whole packets, a resampler that holds samples back, silence where the medium has no
sound; rates are equal. `AudioOutputLedger` breaks `record` and `lookup` at every atomic
load and store, so a look-up meets slots that are being overwritten. `ControlledAudioSink`
is the sink driven by hand, with its mutex and the condition its one producer waits on;
gain, formats and diagnostics are left out.

### `AudioOutput`

The queue's atomics and the sink's atomics are separate fields, and `submitResult` and
`render` are broken at every look at them. `m_epoch` and `m_wakeRevision` are only compared
for change, so they are the flags `moved` and `woken`. `reset` is one step: its caller waits
for it and the old stream is gone, so nobody can look between. The cubeb stream is external:
STARTED and STOPPED are delivered within `cubeb_stream_start`/`stop`, a DRAINED that a stop
provoked arrives before the next STARTED, and a destroyed stream calls nothing. Not
modelled: the `Invalid` outcome of `submit`, gain, the destructor. `cancel` and `finish` of
a stale epoch return early in the code; the session's lifecycle lock makes that unreachable,
which the runs confirm.

### `Presentation`

A render is a chain of stages (`engine.stage`); nothing else happens on the thread meanwhile
except what Quick's synchronization calls (`SetRoute`). Each stage may fail: device, layers,
swapchain, producer, submission. Retries are counted as in the code, and end in the dialog
of `PresentationWindow`, whose three answers are actions. `Composited` says how the pixels
are encoded and for which volume, the Wayland context what it declared; `dirty` is set by
every change and cleared by the frame that shows it. Qt's own commits of the surface, the
revisions of the subtitle texture (`SubtitleLayer`) and of the interface inside Quick, the
geometry, empty window sizes and the Windows and macOS paths are not modelled; the viewport
is visible; the request for the preferred description is reduced to its result
(`DisplayReports`, detailed in `WaylandDisplayState`); a new backend state at the creation of
a swapchain may ask for a frame more than the code does. Whether a texture shows the newest
content is the question of `VideoSources`.

### `VideoSources`

The player's and the lab's source each count their own revisions; `ActiveVideoSource` counts
others for the routed one, which are all the engine compares before it makes a producer or
draws its texture. Sources change while their route is inactive, a moving pattern changes
while it is being rendered and tells nobody, a setting is set back to what it was, a device is
lost. A render of a visible or a hidden viewport is one call: it is given up before it draws,
fails after it drew (`discardPendingRender`) or is committed. All the settings of a picture are
one `look` with two values, frames are two, and revisions do not wrap (they have 64 bits).

### `SubtitleLayer`, `WaylandDisplayState`

`SubtitleLayer` joins `SubtitleSource` (events of a generation under its budget, revisions,
failures) and `SubtitleRenderer` (what is cached, redrawn, uploaded). libass is external:
whether its picture changed follows from the events and the time. `WaylandDisplayState` is
the two round trips of a preferred description against changes, failures, refreshes and a
surface that goes and comes back; the compositor handles and answers in order.

### `JellyfinPlaybackAdapter`

Everything is on the GUI thread and signals are direct calls, so a handler with all the
handlers it reaches is one step. What the network or the token store answers comes later, in
any order, taken, failed or refused (401). `abortRequests` delivers its failures before its
caller continues (`Abort`, `Aborted`). Request numbers are compared for equality with the
newest only and are the flag `latest`. The player is its `mediaItemId` and what `observe()`
asks of it. Quitting closes the playback, waits for what is pending, at most three seconds
(`GiveUp` may come at any time), and ends the program in the middle of `settled` when that
arrives first; the user may act meanwhile. Simplified: home's four feeds are one request; a
home selection is always an episode outside the current location; items can be chosen while
signed in and not busy. Not modelled: positions, texts.

### `JellyfinBrowser` and `JellyfinSession`

`JellyfinBrowser` is the catalogue: history with a cursor, pages, the feeds, the marks and
every numbered or un-numbered answer; superseded requests are kept as a count, as their
answers are all refused alike. An item on home is opened at its path: from the listed library
down, or, for a grouped view that the server does not name among the ancestors, the media
folders among them below the view itself (`LibraryPath`). `JellyfinSession` is what outlives the process: settings,
key chain, tombstone. A job of the key chain may fail, a setting may fail to be written, and
the program may end between any two steps. QtKeychain runs its jobs one after another and Qt
writes settings at the end of the handler's turn; `busy` is sign-in's only.

### `PlayerShell`, `PlayerSettings`, `MediaControls`, `PlaybackPowerInhibitor`, `AppImageUpdater`, `ApplicationLog`

`PlayerShell` is AppShell's pages and PlayerPage's gathered seeks, slider and self-hiding
bar; `Settle` applies the handlers of the properties that changed, whose order among
themselves Qt leaves open and does not matter. Fullscreen, hover and volume pins and the
catalogue's own history are left out. `PlayerSettings` follows keys from the store to the
objects that use them and back, with values that cannot be parsed and starts that cannot
read. `MediaControls` is the MPRIS object with the desktop that counts time between signals.
`PlaybackPowerInhibitor` is one request whose return and verdict come in either order.
`AppImageUpdater` has several players on one image, a helper process, and the lock.
`ApplicationLog` is broken at every lock and wait of `enqueue`, `flush`, the writer and the
destructor. A write to the file always succeeds in the model. The code counts the bytes a write
returns and acts on nothing else (`ApplicationLog.cpp:353-377`, 380-401), so after a failing write
a flush returns as if the record were on the disk; `LogTellsTheTruth` says nothing of that.

## 4. Runs

| Run | Instance | Shows |
|---|---|---|
| `pipeline` | 2 generations, mailbox and sink of 1 | no late failure or result touches the new medium, its frames and audio are refused, intent reaches the sink, only the newest request starts, a stop ends the operation, a request is taken, the destructor joins |
| `pipeline_failure` (violation) | 1 generation | section 6 |
| `session` | 2 frames, remote media | no old picture, no forgotten stop, no hardware after a failed import until the user asks anew or another device is made, no clock that rewinds, no session that waits for nothing |
| `session_recovery` (violation) | 1 frame, local media, tracks changed while the device is away | section 6 |
| `decode` | five media over budgets of 2, mailbox and ring of 1, two faults | the budget holds, every thread returns, the contract is kept |
| `audio_safety` | ring of 3, preroll 1, 2 generations, 4 frames | order and integrity of what is heard; silence after cancel and pause; provoked drains are ignored |
| `audio_liveness` | ring of 4, preroll 2, 1 generation, 5 frames | submit proceeds, cancellation releases it, the drain is reported |
| `audio_drain` (violation) | ring of 3, 1 generation | section 6 |
| `presentation` | three platforms, 1 retry, 2 failures, 3 changes | declared encoding, living textures; no swapchain without a surface; failures reach the user; every change is shown |
| `services` | 3 requesting threads, 2 generations; 2 items, 2 media, 1 replay, 1 login | wake: one drain at a time, no stranded generation, refinement with its liveness; reports: serial, complete (quitting included), nothing stale opens, what waits is done, the browser is freed |
| `jellyfin_login` (violation) | the adapter with 2 logins | section 6 |
| `boundaries` | fifteen components, one at a time | the five properties below |

The five properties of `boundaries` are conjunctions of those of the parts:
`ShowsWhereTheUserIs` (`JellyfinBrowser`, `PlayerShell`, `VideoSources`), `LogTellsTheTruth`
(`ApplicationLog`), `RestartRestores` (`JellyfinSession`, `PlayerSettings`),
`MediaTimeIsExact` (`PlaybackTiming`, `AudioTimeline`, `AudioOutputLedger`,
`ControlledAudioSink`, `SubtitleLayer`), `DesktopFollowsThePlayer`
(`PlaybackPowerInhibitor`, `AppImageUpdater`, `WaylandDisplayState`, `MediaControls`). Each
part's property states in one sentence what the component promises; `PROJECT.json` has a
mutated definition of every part that breaks it.

### Bounds and why they are enough

* Two generations give a running operation and the one that replaces it, which is all a
  thread compares; the theorems cover any number. Capacities of one make full and empty
  frequent. Four or five frames over a ring of three or four wrap the positions; a preroll of
  two in four makes the largest block collide with the preroll.
* `session`: two frames separate "first picture", "next picture" and "end"; every position of
  a seek is tried. `Sources = {"remote"}` has every watch a local medium has and one more;
  `TracksInRecovery = FALSE` keeps the disagreement of section 6 out of this run.
* `decode`: the media are chosen for the buffers: more video before the first audio than all
  of them hold, a packet larger than the byte budget with one without bytes behind it, a hole
  in the audio, audio that overlaps, more subtitles than the history holds, a medium without a
  frame. Two faults let one thread fail while
  another one has.
* `presentation`: one retry of each kind and two failures exhaust every counter; three
  changes let two meet inside a failing render and a third follow it.
* `services`, `jellyfin_login`: two media let a stop wait while the next medium starts; one
  replay gives a medium a second pair of reports; two logins are an old and a new account.
  `MaxRequests` caps only what the user adds: what handlers send is never capped.
* `boundaries`: two slots under three stretches wrap the ledger; three samples of time base
  and gaps of a packet keep rounding and gap apart; two players race for one lock; two
  releases give a player an image it has not seen; three identities, one of them invalid; a
  queue of two bytes under records of one and three drops, evicts and truncates; two media
  and two taps over a medium of one unit reach both of its ends; five changes of sources and
  routes are a change out of sight, the way there and back, and one more of either source.

`CHECK_DEADLOCK FALSE` everywhere: a destroyed session, an idle player and an exhausted bound
all really stop.

### Fairness

Threads keep running and the event loop keeps delivering posted events and, while playing,
the playback monitor's timer: weak fairness of each thread's steps in `MediaPipeline`, of
`Drain` and of a requester that has stored (not of making a request) in the wake, of the four
threads in `AudioOutput`, the device among them while its stream runs. In `decode` every
thread of the operation and, while it plays, the player's clock; a paused player owes
nothing, and `OperationEnds` asks for nothing then but for the end of a stopped operation. In
`presentation` a render runs to its end, Qt delivers updates and fires timers and the
compositor answers. A Jellyfin request is aborted after ten seconds, so the oldest one is
always answered; the token store answers; the three seconds of quitting need no fairness.
Nothing is assumed of users, of media (a decoder may stop, fail or end at any frame) or of
failures.

`session` has no fairness. Whether a clock advances depends on the device and on what was
decoded, and the promise is not that something comes but that nothing is waited for in vain:
`Settled` says that neither decoder, audio device, timer nor clock can change the session,
and `PlaybackNeverStalls` and `SeekNeverStalls` say in which states that may be. In
`boundaries`, for the same reason, what waits must have been heard (`FlushIsHeard`,
`ProducerIsServed`, `BusyIsAwaited`).

## 5. Proofs

TLAPS proves the following for every value of the constants allowed by the named
assumptions (`PipelineBounds` and `AudioBounds`: capacities and number of generations are positive, the
preroll is at most half the PCM queue as `CubebAudioSink::reset` makes it; `GenerationBound`;
`AdapterAssumption`: a server offers something and the bounds are natural numbers;
`PresentationAssumption`: platforms are records of what they accept, and there is an attempt;
`SessionAssumption` of `MediaSession`: a medium has a duration; `BudgetAssumption` and
`MediaAssumption` of `DecodeOperation`: room for one of each, and media of packets).

* `CoalescedGenerationWakeProofs`. `WakeInv` says who owns the drain: `m_pending` is set
  exactly while one claim, posted event or running drain exists, and a latest generation that
  is not served yet has such an owner or a requester that is still about to claim. From it
  `OneOwnerAlways`, `WakeNeverLost`, and `ImplementsContract`, the safety part of the
  refinement.
* `MediaPipelineProofs`. `PipelineInv` strengthens the properties by what a stop has reached
  at each point of a handler: `Submissions` (a pending open is newer than what runs),
  `Threads` (who may exist when), `Isolation` (once a handler has stopped the worker and
  released the lifecycle lock, an older operation cannot open the output), `Output` and
  `Mailbox` (of which generation the sink and the queue can be), `Intent` (the atomic and the
  sink agree unless a handler is on its way). None of the checked invariants is inductive
  alone: each fails from a state where a stopped operation is already past its check. From it
  `ResultsStayCurrent`, `AudioStaysCurrent`, `FramesStayCurrent`, `SinkAlwaysFollowsIntent` and
  `OnlyNewestStartsAlways`.
* `AudioOutputProofs`. `AudioInv` joins nine parts. `Types`; `Ownership`, `Queued` and `InHand`
  (the owner of the lifecycle lock has one command queued, in hand or answered, nobody else has
  any that waits, and a start check is queued at most once); `Session` and `Epoch` (in which
  order an operation opens its output and when the queue holds its epoch: a producer past its
  reset works in the current epoch even when it is stopped); `Silence` (a stream runs only in a
  started sink that is wanted, or with the cancel or pause that ends it under way; a drain a
  pause provoked finds `ignoreDrain` set); `Ring` and `Submission` (what the slots hold between
  the producer's copy and its compare-exchange, and that the room it found can only grow). That
  `HeardInOrder` holds for every capacity rests on the lemmas about the slots of the ring
  (`OffsetOfLater`, `OffsetOfEarlier`, `CopyHolds`): two frames less than the capacity apart
  never share one. `HeardInOrder` and `SilenceIsKept` say nothing of the points between two
  threads' steps, so neither is inductive: from them alone a producer could commit frames it
  never copied, and a pause could be queued for a sink that was replaced. From `AudioInv`
  `TypeCorrect`, `HeardInOrderAlways`, `SilenceIsAlwaysKept` and the action property
  `DrainsAreGenuine`.
* `JellyfinPlaybackAdapterProofs`. `RunningInv` holds while the program runs, `EndedInv` says
  what an ended one leaves. The books of the adapter are `Base`: `Serial` (one report under
  way, and which one the flags say), `Ordered` (no mark behind a stop, no sign-out behind a
  report), `Alternates`, `Owed` and `Occurrence` (whose start was sent last, and who owes its
  stop). `Current` keeps superseded resolutions stale, `Waits` says that whoever waits for
  the reports has closed the playback and lets no resolution in, `Over` that a medium that is
  over is finished. `ReportsAreSerial` alone is not inductive: a start could be pending with
  no request to answer it, or a stop be sent twice. An action composes up to ten operators, so
  the lemmas are about the operators: each is steady (it only adds requests of the browser's
  own: `Steady`, `Quiet`), or it handles the reports (`Handled`), or it closes the playback
  (`Closed`), these relations compose, and each keeps what the invariant needs. From it
  `TypeCorrect`, `ReportsStaySerial`, `FinalReportAlwaysKept`, `SupersededStaysShut` and
  `MutationsAlwaysWait`.
* `PresentationProofs`. `PInv` follows a render through its stages: `Life` (who may render,
  and that a suspended presentation has an error), `Surfaces`, `Devices` (what a stage can rely
  on: layers, then a swapchain), `Contract` (the swapchain is what the engine's contract says,
  there is none while a transition is queued, and from `begin` on the declared description has
  the frame's key) and `Bindings` (a texture that died since the last binding is remembered
  until the next: the producer is no longer current, the Quick target asks for a rebind, or
  the bound revision is behind). `FrameIsFaithful` speaks of the stage `present` only, while
  what it needs is settled up to seven stages and any number of abandoned renders earlier.
  There is a lemma for each way a stage can fail, which leaves nothing bound and no swapchain,
  and one for each stage and event. From it `TypeCorrect`, `FramesStayFaithful`,
  `SwapchainAlwaysDiesWithSurface` and `FailureAlwaysReachesTheUser`.
* `MediaSessionProofs`. The invariant is of the record: `Sound` says that only a ready session
  that seeks nothing shows a frame, that hardware decoding is in use only while the device
  offers it and not while the session's fallback flag is set, and how the anchor stands to what is heard until the
  tail has the clock. That is enough for `PictureIsCurrent`, `FallbackIsKept`, and, with the
  lemma of each operator that a step goes `Forward` and `Stays` stopped, for the action
  properties `ClockRunsForward` and `StopStays`. `FallbackSticks` alone says nothing of
  the device a restart asks for: the flag must be that of a restart in software (`Software`), and
  no operator but those that open anew or make a device may take the hardware up (`Stays`,
  `ContinuesSteps`, `RefusalSteps`). Nor does `ClockNeverRewinds` say anything of the anchor that
  a hand-over starts from. `Paced` adds what the stall properties need: an open session decodes, has
  decoded everything or waits for its device, its timer runs while it plays, and a drained
  seek has a frame queued. A state in which nothing moves is then a fixpoint of `Select` and
  `Tick`, so that the clock stands at the end, everything due has been taken and the medium
  would be over: `PlaybackGoesOn`, `SeekGoesOn`. `Paced`, and what follows from it, has the
  hypothesis `~TracksInRecovery`, as the run has: a change of track while the device is away
  breaks the pace, which is the disagreement `session_recovery` shows, and `RecoveryHolds`
  proves that nothing else does. The newest frame that is due (`NewestOf`) is found without
  induction over data, by well-foundedness of the strict subsets of the finite queue.
* `JellyfinSessionProofs`. `IInv` ties the two stores to the key chain's queue: only the first
  job can have been carried out, a write that still counts is the last one and of the session
  in use, which the user has not ended (`PendingIsCurrent`), a remembered login has nothing
  left in the queue that could change the vault (`RememberedIsSettled`), and a session that
  was ended is neither in the vault nor on its way there while the disk says it is to be
  restored, unless the user was told (`EndedIsForgotten`). The property speaks of the vault
  alone and is not inductive: a write of a session that was ended meanwhile could still be in
  the queue. From it `TheRightLoginIsRestored`, through any number of crashes, failing writes
  and refused sessions; the hypothesis is the module's own `SessionAssumption`: every session
  has an account. The run checks it as the first half of `RestartRestores`.

* `DecodeOperationProofs`. `IInv` has nine parts. `Types` bounds what a codec holds at each
  place of its worker; `Within` and `Counted` relate the counters to the queues; `Stages` says
  who is there when; `Reasons` says why a terminal state, a closed sink or an outcome came
  about, and `Traces` the converse, that no failure and no stop is forgotten before the answer;
  `Drains` says that a worker that flushes or has ended left nothing queued; `VideoCounted` and
  `AudioAccounted` say where every packet that was read is: handed over, in a codec, in a queue
  or in the demuxer's hand.
  - `BudgetHeld` alone is not inductive. Its bound on the bytes lets one packet of the queues
    have all of them; that the other packets then have none, and that the bound therefore
    survives a pop, needs `Within`: an oversized packet is taken only by empty queues, and
    afterwards only packets without bytes fit. The sum of the bytes is a recursive function;
    instead of an induction the invariant carries the prefix sums themselves (`Totals`), which
    a push extends and a pop shifts (`TotalsAppend`, `TotalsTail`).
  - The contract needs the rest: `success` is justified only if every frame and block was
    handed over, so nothing that was read may be lost on the way (`VideoCounted`, `Heard`), nor
    a gap be filled past the end of the sound (`Bounded`); `cancelled` and `error` need
    `Reasons`, and that an answer is never better than what happened needs `Traces`.
  - Steps are grouped by what they do to the packets (one is read, pushed, popped, sent to a
    codec, handed over, or a worker returns), and each part of `IInv` has a lemma per group.

  From it `TypeCorrect`, `BudgetAlwaysHeld`, and `ContractKept`, the refinement: every step of a
  thread is a step of the contract or none. `MediaAssumption` assumes nothing of the order, the
  number or the size of packets.

Only model-checked:

* Every liveness property (`OperationEnds` and the liveness of the wake's refinement among
  them): fairness and ENABLED are outside the prover.
* The five properties of `boundaries`. `LogTellsTheTruth` and, of `MediaTimeIsExact`, the
  parts of `AudioOutputLedger` and `ControlledAudioSink` are stated with folds over sequences,
  and what a fold returns for every input is an induction over data, which is outside the
  prover too. For the other parts (`JellyfinBrowser`, `PlayerShell`, `VideoSources`, `PlayerSettings`,
  `PlaybackTiming`, `AudioTimeline`, `SubtitleLayer` and the four of the desktop) no inductive
  invariant has been stated; nothing in their form stands in the way. The half of
  `RestartRestores` that is about `JellyfinSession` is proved (`TheRightLoginIsRestored`).

## 6. Disagreements found

Each is a run that TLC must find violated:

* `FailureEndsOperation` (`MediaSession.cpp:915`): the video sink waits in the full mailbox
  with the session's stop token, not with the decoder's own, so a failing audio thread cannot
  wake it; with a silent audio clock no frame becomes due, the join never returns and the
  failure is never reported until the user does something.
* `DrainedAfterLastFrame` (`CubebAudioSink.cpp:516`): `render` reads the queue before
  `m_producerFinished`; the last block and `finish()` can both arrive between the two.
* `LoginWaitsForReports` (`JellyfinPlaybackAdapter.cpp:61`): the completion of a resolution
  clears the flag that a waiting stop had set, and a lost login can then be replaced while an
  old report is under way.
* `RecoveryHoldsPosition` (`MediaSession.cpp:714`): a change of track between the loss of the
  graphics device and its return starts a decoder with the device away; when the device
  returns the session goes back to the position of the loss.

`DecodeOperation` gives the session's stop to the mailbox as the code does, and holds anyway
because there the player keeps its clock running; `FailureEndsOperation` is the case in which
the clock has stopped.

Found while modelling, stated in the models but not runs of their own:

* Graphics recovery is bounded to eight attempts but not spaced by 250 ms: any update of the
  window makes the next attempt at once (`RhiPresentationEngine.cpp:558-581`, 760).
* A record smaller than what is left of the log is written after the truncation marker
  (`ApplicationLog.cpp:380-401`), where the documentation says the sink stops.
* `stopWriter` (`ApplicationLog.cpp:416-423`) requests the stop and notifies without the
  queue's mutex: a writer that has just found nothing to do sleeps on, and the join waits for
  ever (`RequestStop`, `NotifyStop`, `Sleep`). Nothing accepted is lost, as the queue was empty.
* A portal call that times out (`LinuxPlaybackPowerInhibitor.cpp:226-228`) forgets its handle
  although the portal may still grant it: the screen stays awake until the program ends. The
  constant `MayTimeOut` admits it; the run excludes it.
* Under Wayland, a preference that goes back to the known identity while a request for another
  is under way is ignored (`LinuxWaylandWindowContext.cpp:541-546`). The constant `MayReturn`
  admits it; the run excludes it.
* The completion of a watched mark clears `m_busy` whatever has happened since. A mark for
  another item and a sign-out that both wait for the same start report are sent together;
  when the mark is answered first the browser takes commands while signing out, and what is
  played then keeps its adapter state into the next login. `applyWatched`
  (`JellyfinBrowser.cpp:521-526`) also renumbers the requests without clearing
  `m_openingHome`.
* A sign-out refused with 401 clears `m_busy` before the token store has deleted the token.
  After another login that deletion's completion, which has no number
  (`JellyfinBrowser.cpp:270-274`), clears `m_openingHome` of a home selection under way,
  which a newly opened local file then no longer cancels (`ReplacingInvalidatesHome` is the
  property; docs/subsystems/jellyfin/README.md:168-169 is the promise). The constant
  `SlowVault` of `JellyfinBrowser` admits it; the run excludes it.
* A 401 clears whatever token is current, not the one the request was sent with.
* `settled()` runs deferred watched marks even if `observe()` has just sent a new start
  report, so a mark may be sent while its item plays.
* `loadMore` asks for the page that starts at the number of items shown, and items that could
  not be parsed are not shown (`JellyfinClient.cpp:81-89`): with such an item the next page
  overlaps the last. Items are valid in the model.
* With a store that fails to be written, a later login's token can be paired with the user
  saved before it; `RestoredIsWhole` excludes a lost setting for this reason.

## 7. What the models say besides

* **Playback.** A seek into a stretch without a frame leaves a playing session that never
  ends, and a paused one that keeps `seeking`, when no frame at all follows; hence "with a
  picture shown" and "with playback asked for" in the two liveness statements. A gap in the
  middle of the audio longer than the packet budget would stall the video before it
  (docs/DEFERRED.md:532 knows of pathological interleaves).
* **Sound.** Only gaps that are taken for gaps are corrected: deviations below the tolerance
  add up, as only the next expected sample follows the timestamps. A gap at the target may
  start the output up to a unit of the time base after it; without a target, sound before the
  origin is published at negative times; a stream whose first frame has no timestamp is refused.
* **Settings.** After a load that failed, one edit of a tone-mapping value writes all three
  of its keys (`Together`). A store whose text is damaged is Qt's matter.
* **Media controls.** A hold shorter than the monitor's interval is missed, and while held,
  or paused during a hold, the desktop's count may differ (docs/DEFERRED.md:569-571);
  `DesktopClockAgrees` is stated for a clock known to advance.
* **Shell.** Gathered seeks are dropped by any change of the session while it is opening, for
  instance a pause within 180 ms of the seek before; taps beyond the ends of the medium count
  in the sum, which is clamped only when it is sent; a slider that is held while the page is
  left seeks to where it was.
* **Quitting.** Marks that were deferred to the reports and run just before the end are sent
  but not awaited; a restart launches the replacement before the reports have settled.

## 8. Not modelled, and why

* Graphics backends, GPU producers, colour mathematics, shaders: calls into drivers and
  libplacebo, or arithmetic without an ordering of its own. What the engine relies on (which
  frame and target a surface holds, what fails) is in `Presentation`.
* FFmpeg probing, stream selection, network input and metadata: conversions of one library
  call's result. The decoder loops around them are in `DecodeOperation`.
* Track and subtitle list models, diagnostics and capture, metrics and their notifications:
  copies of state that is modelled where it is decided.
* Windows and macOS adapters of media controls, sleep and display: the Linux ones have the
  asynchronous protocols; those are synchronous calls.
* Dialogs, page layout, fullscreen and window geometry, command-line options.
* JSON, URLs and the image cache of the Jellyfin client.
