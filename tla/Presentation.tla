----------------------------- MODULE Presentation -----------------------------
(* The presentation half of the main thread on Wayland: PresentationWindow owns *)
(* a RhiPresentationEngine, which renders one frame per window update into a    *)
(* swapchain, and LinuxWaylandWindowContext declares to the compositor how the  *)
(* pixels are encoded.  A render is one call, here a chain of stages: nothing   *)
(* else happens on the thread while engine.stage # "idle", except what Quick's  *)
(* synchronization calls.  Devices, swapchains, surfaces and frames may fail at *)
(* every stage; a failure either retries or ends in the error dialog.           *)
EXTENDS Integers

CONSTANTS
    Platforms,     \* what the program may meet: color management, HDR10 buffers, accepted targets
    MaxAttempts,   \* maximumAttempts of scheduleDeviceRecovery and of scheduleSwapChainRecovery
    MaxTroubles,   \* bound: failures in one behaviour
    MaxChanges     \* bound: window, display and source changes in one behaviour

(* WaylandPresentationMode; it also stands for the surface contract it selects. *)
Targets == {"wide", "pq"}
Modes == Targets \cup {"unmanaged", "gamma22"}
Encoding == [m \in Modes |-> IF m = "unmanaged" THEN "srgb" ELSE IF m = "pq" THEN "pq" ELSE "gamma22"]
Routes == {"player", "lab"}
Displays == {"unknown", "wide", "hdr"}
Keys == {<<"wide", "display">>, <<"pq", "display">>, <<"pq", "transport">>}
NoKey == <<"none", "none">>

ASSUME PresentationAssumption ==
    /\ Platforms \subseteq [managed : BOOLEAN, pq : BOOLEAN, ready : SUBSET Targets]
    /\ MaxAttempts \in Nat \ {0}

VARIABLES
    window,       \* [surface, exposed, size] of the native window
    update,       \* Qt owes the window an UpdateRequest
    lifecycle,    \* PresentationWindow::m_presentationLifecycle: "active", "suspended"; "quit"
    dialog,       \* [error, open]: the presentation error, shown on the next turn
    engine,       \* [alive, stopped, pending, again, stage, retry, rebind, contract, transition, characteristics]
    recovery,     \* [on, attempts, due, swapAttempts, swapDue, retried]: counters and timers
    gpu,          \* [device, layers, uiSize, swap, swapSize, compositor, bound, live]
    producer,     \* [current, size, revision]: the video producer and its texture
    source,       \* [route, frame, next, uiDirty]: the active video source and the Quick layer
    display,      \* PresentationOutputState::displayState
    platform,     \* [managed, pq, ready]: what Vulkan and the compositor accept
    wayland,      \* [selected, rejected, key, asked, answer] of LinuxWaylandWindowContext
    dirty,        \* something changed that no presented frame shows yet
    troubles, changes

vars == <<window, update, lifecycle, dialog, engine, recovery, gpu, producer, source, display,
          platform, wayland, dirty, troubles, changes>>
outside == <<window, display, platform>>

NewEngine == [alive |-> TRUE, stopped |-> FALSE, pending |-> FALSE, again |-> FALSE, stage |-> "idle",
              retry |-> FALSE, rebind |-> FALSE, contract |-> "unmanaged", transition |-> FALSE,
              characteristics |-> TRUE]
NoEngine == [NewEngine EXCEPT !.alive = FALSE, !.characteristics = FALSE]
NoRecovery == [on |-> FALSE, attempts |-> 0, due |-> FALSE, swapAttempts |-> 0, swapDue |-> FALSE,
               retried |-> FALSE]
NoDevice == [device |-> FALSE, layers |-> FALSE, uiSize |-> 0, swap |-> "none", swapSize |-> 0,
             compositor |-> FALSE, bound |-> 0, live |-> {}]
NewDevice == [NoDevice EXCEPT !.device = TRUE]
NoProducer == [current |-> FALSE, size |-> 0, revision |-> 0]
NoDialog == [error |-> "none", open |-> FALSE]

TypeOK ==
    /\ window \in [surface : BOOLEAN, exposed : BOOLEAN, size : 1..2]
    /\ lifecycle \in {"active", "suspended", "quit"}
    /\ dialog \in [error : {"none", "retryable", "restart", "failed"}, open : BOOLEAN]
    /\ engine.contract \in Modes /\ display \in Displays
    /\ recovery.attempts \in 0..MaxAttempts /\ recovery.swapAttempts \in 0..MaxAttempts
    /\ gpu.swap \in {"none", "sdr", "pq"} /\ gpu.live \subseteq {"video", "ui"}
    /\ wayland.key \in Keys \cup {NoKey} /\ wayland.asked \in Keys \cup {NoKey}
    /\ wayland.rejected \subseteq Targets

(* startPresentation has made the first device; the window is not exposed yet.  *)
Init ==
    /\ window = [surface |-> TRUE, exposed |-> FALSE, size |-> 1]
    /\ update = FALSE
    /\ lifecycle = "active" /\ dialog = NoDialog
    /\ engine = NewEngine /\ recovery = NoRecovery
    /\ gpu = NewDevice /\ producer = NoProducer
    /\ source = [route |-> "player", frame |-> FALSE, next |-> FALSE, uiDirty |-> TRUE]
    /\ display = "unknown"
    /\ platform \in Platforms
    /\ wayland = [selected |-> "unmanaged", rejected |-> {}, key |-> NoKey, asked |-> NoKey,
                  answer |-> "none"]
    /\ dirty = TRUE
    /\ troubles = 0 /\ changes = 0

Calm == engine.stage = "idle" /\ lifecycle # "quit"
Live == lifecycle = "active" /\ engine.alive /\ ~engine.stopped

Smooth == UNCHANGED <<troubles, changes>>
Trouble == troubles < MaxTroubles /\ troubles' = troubles + 1 /\ UNCHANGED changes
Change == changes < MaxChanges /\ changes' = changes + 1 /\ UNCHANGED troubles

-------------------------------------------------------------------------------
(* Requests for frames.                                                         *)

(* RhiPresentationEngine::requestFrame on engine record e.                      *)
Requested(e) ==
    IF ~e.alive \/ e.stopped \/ ~window.exposed \/ e.pending THEN e
    ELSE IF e.stage # "idle" THEN [e EXCEPT !.again = TRUE] ELSE [e EXCEPT !.pending = TRUE]

Requests(e) ==
    /\ engine' = Requested(e)
    /\ update' = (update \/ (engine'.pending /\ ~e.pending))

(* The render returns; frames requested meanwhile become one request.           *)
Returns(e) ==
    LET idle == [e EXCEPT !.stage = "idle", !.again = FALSE, !.retry = FALSE, !.rebind = FALSE]
    IN IF e.again THEN Requests(idle) ELSE engine' = idle /\ UNCHANGED update

(* RhiPresentationEngine::render up to the early return of renderFrame.         *)
Begins(e) ==
    [e EXCEPT !.pending = FALSE, !.again = FALSE,
              !.stage = IF window.exposed /\ ~e.transition THEN "device" ELSE "idle"]

-------------------------------------------------------------------------------
(* What a failure does.                                                         *)

(* releaseSwapChainResources.                                                   *)
Frees(g) ==
    [g EXCEPT !.swap = "none", !.swapSize = 0, !.compositor = FALSE, !.bound = 0, !.live = {}]

(* MediaSession drops its frame; the producer that maps it is out of date, and  *)
(* the player route asks for a frame.                                           *)
Clears == source.frame
Cleared == [source EXCEPT !.frame = FALSE, !.next = FALSE]
Outdated(p) == [p EXCEPT !.current = @ /\ ~(Clears /\ source.route = "player")]
AfterClear(e) == IF Clears /\ source.route = "player" THEN Requested(e) ELSE e

(* fail and PresentationWindow::handlePresentationError.                        *)
Fails(error, g, p) ==
    /\ engine' = [engine EXCEPT !.stopped = TRUE, !.stage = "idle", !.pending = FALSE, !.again = FALSE]
    /\ recovery' = [recovery EXCEPT !.due = FALSE, !.swapDue = FALSE]
    /\ lifecycle' = "suspended" /\ dialog' = [error |-> error, open |-> FALSE]
    /\ gpu' = g /\ producer' = p /\ source' = Cleared
    /\ UNCHANGED <<update, wayland, dirty>>

Exhausted(attempts) == attempts >= MaxAttempts

BugRetryWithoutTimer(r, retried) ==
    [NoRecovery EXCEPT !.on = TRUE, !.attempts = r + 1, !.retried = retried]
RetryLater(r, retried) ==
    [NoRecovery EXCEPT !.on = TRUE, !.attempts = r + 1, !.due = TRUE, !.retried = retried]

(* invalidateGraphicsDevice, releaseDevice and scheduleDeviceRecovery.          *)
Releases(attempts, retried) ==
    IF Exhausted(attempts)
    THEN Fails("restart", NoDevice, NoProducer)
    ELSE /\ recovery' = RetryLater(attempts, retried)
         /\ gpu' = NoDevice /\ producer' = NoProducer /\ source' = Cleared
         /\ Returns(AfterClear([engine EXCEPT !.characteristics = FALSE]))
         /\ dirty' = TRUE
         /\ UNCHANGED <<lifecycle, dialog, wayland>>

Attempts == IF recovery.on THEN recovery.attempts ELSE 0

(* handleDeviceLoss.                                                            *)
LosesDevice == Releases(Attempts, recovery.retried)

(* releaseDevice of a device that is not lost first waits for its work.         *)
CleanupFails == Fails("restart", NoDevice, NoProducer)

(* rebuildForPresentIncompatibleSurface; handleFrameError.                      *)
Rebuilds == LosesDevice \/ CleanupFails
FrameFails ==
    IF recovery.retried THEN Fails("retryable", gpu, producer)
    ELSE Releases(0, TRUE) \/ CleanupFails

(* queueSurfaceTransition from a render.                                        *)
Transits(w, e) ==
    /\ wayland' = w
    /\ gpu' = Frees(gpu)
    /\ Returns([e EXCEPT !.transition = TRUE])
    /\ UNCHANGED <<lifecycle, dialog, recovery, producer, source, dirty>>

(* rejectTarget: no second try on this device.                                  *)
Rejected(target) ==
    [wayland EXCEPT !.rejected = @ \cup {target}, !.asked = NoKey, !.answer = "none"]

(* rejectManagedSurface.                                                        *)
Rejects(target) == Transits(Rejected(target), [engine EXCEPT !.characteristics = TRUE])

(* scheduleSwapChainRecovery.                                                   *)
RetriesSwapChain ==
    IF Exhausted(recovery.swapAttempts)
    THEN Fails("retryable", Frees(gpu), producer)
    ELSE /\ recovery' = [recovery EXCEPT !.swapAttempts = @ + 1, !.swapDue = TRUE]
         /\ gpu' = Frees(gpu)
         /\ Returns(engine)
         /\ UNCHANGED <<lifecycle, dialog, producer, source, wayland, dirty>>

(* handleSwapChainFailure.                                                      *)
SwapChainFails ==
    \/ LosesDevice
    \/ Rebuilds
    \/ engine.contract = "pq" /\ Rejects("pq")
    \/ engine.contract # "pq" /\ RetriesSwapChain

-------------------------------------------------------------------------------
(* The stages of renderFrame.                                                   *)

At(stage) == engine.stage = stage
Goes(stage) == engine' = [engine EXCEPT !.stage = stage] /\ UNCHANGED update
KeepDirt == UNCHANGED dirty
KeepFailure == UNCHANGED <<lifecycle, dialog, recovery>>

(* initializeGraphicsDevice and, when it fails, scheduleDeviceRecovery.         *)
InitializeDevice ==
    /\ At("device") /\ ~gpu.device
    /\ \/ /\ gpu' = NewDevice
          /\ wayland' = [wayland EXCEPT !.rejected = {}]
          /\ engine' = [engine EXCEPT !.characteristics = TRUE]
          /\ KeepFailure /\ KeepDirt /\ Smooth /\ UNCHANGED <<update, producer, source>>
       \/ Releases(recovery.attempts, recovery.retried) /\ Trouble
    /\ UNCHANGED outside

(* QuickUiLayer::initialize, then refreshVideoProducer.                         *)
NewLayers == [gpu EXCEPT !.layers = TRUE]

(* initializeDevice.                                                            *)
InitializeLayers ==
    /\ At("device") /\ gpu.device /\ ~gpu.layers
    /\ \/ /\ gpu' = NewLayers
          /\ producer' = [NoProducer EXCEPT !.current = TRUE]
          /\ source' = [source EXCEPT !.uiDirty = TRUE]
          /\ Goes("reconcile")
          /\ KeepFailure /\ KeepDirt /\ Smooth /\ UNCHANGED wayland
       \/ LosesDevice /\ Trouble
       \/ Fails("retryable", gpu, producer) /\ Trouble
    /\ UNCHANGED outside

KeepLayers ==
    /\ At("device") /\ gpu.layers
    /\ Goes("reconcile")
    /\ KeepFailure /\ KeepDirt /\ Smooth /\ UNCHANGED <<outside, gpu, producer, source, wayland>>

(* selectWaylandPresentationMode.                                               *)
Select ==
    IF ~platform.managed THEN "unmanaged"
    ELSE IF display = "hdr" /\ "pq" \notin wayland.rejected THEN "pq"
    ELSE IF display # "unknown" /\ "wide" \notin wayland.rejected THEN "wide"
    ELSE "gamma22"

(* desiredSwapChainFormat.                                                      *)
Format(mode) == IF mode = "pq" /\ platform.pq THEN "pq" ELSE "sdr"

Selected == [wayland EXCEPT !.selected = Select]

EncodingChanges == Encoding[Select] # Encoding[engine.contract]

(* reconcileOutputCharacteristics.                                              *)
Transition ==
    /\ At("reconcile") /\ EncodingChanges
    /\ Transits(Selected, engine)
    /\ Smooth /\ UNCHANGED outside

Reconcile ==
    /\ At("reconcile") /\ ~EncodingChanges
    /\ wayland' = Selected
    /\ engine' = [engine EXCEPT !.contract = Select, !.characteristics = FALSE, !.stage = "swapchain"]
    /\ gpu' = IF engine.characteristics /\ gpu.swap \notin {"none", Format(Select)} THEN Frees(gpu) ELSE gpu
    /\ KeepFailure /\ KeepDirt /\ Smooth /\ UNCHANGED <<outside, update, producer, source>>

(* completePresentationRecovery.                                                *)
Recovered == [NoRecovery EXCEPT !.retried = recovery.retried]

(* createSwapChain; a new backend state asks for one more frame.                *)
CreateSwapChain ==
    /\ At("swapchain") /\ gpu.swap = "none"
    /\ IF engine.contract = "pq" /\ ~platform.pq THEN Rejects("pq") /\ Smooth
       ELSE \/ /\ gpu' = [gpu EXCEPT !.swap = Format(engine.contract), !.swapSize = window.size]
               /\ recovery' = Recovered
               /\ \E again \in {engine.again, TRUE} :
                      engine' = [engine EXCEPT !.stage = "ui", !.again = again]
               /\ KeepDirt /\ Smooth
               /\ UNCHANGED <<update, lifecycle, dialog, producer, source, wayland>>
            \/ SwapChainFails /\ Trouble
    /\ UNCHANGED outside

(* createOrResizeSwapChain.                                                     *)
Resizes ==
    /\ gpu' = [gpu EXCEPT !.swapSize = window.size]
    /\ recovery' = Recovered
    /\ UNCHANGED <<lifecycle, dialog, source, wayland>> /\ KeepDirt

(* resizeSwapChain.                                                             *)
ResizeSwapChain ==
    /\ At("swapchain") /\ gpu.swap # "none"
    /\ \/ gpu.swapSize = window.size /\ Goes("ui") /\ KeepFailure /\ KeepDirt /\ Smooth
          /\ UNCHANGED <<gpu, producer, source, wayland>>
       \/ gpu.swapSize # window.size /\ Goes("ui") /\ Resizes /\ UNCHANGED producer /\ Smooth
       \/ gpu.swapSize # window.size /\ SwapChainFails /\ Trouble
    /\ UNCHANGED outside

(* A texture is destroyed: what the compositor has bound of it is gone.         *)
Dies(g, texture) == [g EXCEPT !.live = @ \ {texture}]

(* QuickUiLayer::ensureRenderTarget replaces the texture when its size differs. *)
UiTarget == IF gpu.uiSize = gpu.swapSize THEN gpu ELSE [Dies(gpu, "ui") EXCEPT !.uiSize = gpu.swapSize]

(* ensureRenderTarget and renderIfDirty, as renderFrame calls them.             *)
RenderUi ==
    /\ At("ui")
    /\ \/ /\ gpu' = UiTarget
          /\ source' = [source EXCEPT !.uiDirty = FALSE]
          /\ engine' = [engine EXCEPT !.stage = "video", !.rebind = gpu.uiSize # gpu.swapSize]
          /\ UNCHANGED update
          /\ KeepFailure /\ KeepDirt /\ Smooth /\ UNCHANGED <<producer, wayland>>
       \/ LosesDevice /\ Trouble
       \/ gpu.uiSize # gpu.swapSize /\ Fails("retryable", gpu, producer) /\ Trouble
    /\ UNCHANGED outside

(* prepareForPresentation: the selected frame is set, which asks for an update. *)
Selects == source.route = "player" /\ source.next
WithFrame(s) == IF Selects THEN [s EXCEPT !.frame = TRUE, !.next = FALSE] ELSE s
ShowsVideo(s) == s.route = "lab" \/ s.frame   \* requestedSurface

(* refreshVideoProducer.                                                        *)
Refresh(g) == IF producer.current THEN g ELSE Dies(g, "video")
Refreshed == IF producer.current THEN producer ELSE [NoProducer EXCEPT !.current = TRUE]

(* VideoTargetUpdate::Created and Resized, for the target and for the producer. *)
Resized(p) == [p EXCEPT !.size = gpu.swapSize, !.revision = @ + 1]

(* ensureSurface.                                                               *)
PrepareVideo ==
    LET s == WithFrame(source)
        e == IF Selects THEN Requested(engine) ELSE engine
        resize == ShowsVideo(s) /\ Refreshed.size # gpu.swapSize
    IN /\ At("video")
       /\ source' = s
       /\ engine' = [e EXCEPT !.stage = "bind", !.rebind = @ \/ ~producer.current]
       /\ producer' = IF resize THEN Resized(Refreshed) ELSE Refreshed
       /\ gpu' = IF resize THEN Dies(Refresh(gpu), "video") ELSE Refresh(gpu)
       /\ KeepFailure /\ KeepDirt /\ Smooth /\ UNCHANGED <<outside, update, wayland>>

(* handleVideoOperationResult: ensureSurface, render or prepareForComposition   *)
(* fails.  The media session answers a failure by dropping its frame.           *)
VideoFails ==
    /\ At("video") \/ At("record")
    /\ ShowsVideo(source) /\ Trouble
    /\ \/ LosesDevice
       \/ source.route = "lab" /\ Fails("retryable", Refresh(gpu), Refreshed)
       \/ /\ source.route = "player"
          /\ source' = Cleared
          /\ producer' = Outdated(Refreshed)
          /\ gpu' = Refresh(gpu)
          /\ Returns(Requested(engine))
          /\ dirty' = TRUE
          /\ KeepFailure /\ UNCHANGED wayland
    /\ UNCHANGED outside

BoundRevision == IF ShowsVideo(source) THEN producer.revision ELSE 0

BugBindByRevision == ~gpu.compositor \/ gpu.bound # BoundRevision

MustBind == ~gpu.compositor \/ engine.rebind \/ gpu.bound # BoundRevision

(* HdrCompositor::initialize and setTextures.                                   *)
Bound == [gpu EXCEPT !.compositor = TRUE, !.bound = BoundRevision, !.live = {"video", "ui"}]

BindTextures ==
    /\ At("bind")
    /\ \/ /\ gpu' = IF MustBind THEN Bound ELSE gpu
          /\ Goes("prepare")
          /\ KeepFailure /\ KeepDirt /\ Smooth /\ UNCHANGED <<producer, source, wayland>>
       \/ MustBind /\ LosesDevice /\ Trouble
       \/ MustBind /\ Fails("retryable", gpu, producer) /\ Trouble
    /\ UNCHANGED outside

(* The volume the description must cover: HDR Lab may bypass the mapping.       *)
Volume == IF wayland.selected = "pq" /\ source.route = "lab" THEN "transport" ELSE "display"
Key == <<wayland.selected, Volume>>

Forgotten == [wayland EXCEPT !.asked = NoKey, !.answer = "none"]

Described == wayland.key = Key

(* LinuxWaylandWindowContext::prepareFrame.                                     *)
DescriptionReady ==
    /\ At("prepare")
    /\ \/ wayland.selected \notin Targets /\ wayland' = Forgotten
       \/ wayland.selected \in Targets /\ Described /\ wayland' = Forgotten
       \/ /\ wayland.selected \in Targets /\ ~Described
          /\ wayland.asked = Key /\ wayland.answer = "ready"
          /\ wayland' = [Forgotten EXCEPT !.key = Key]
    /\ Goes("begin")
    /\ KeepFailure /\ KeepDirt /\ Smooth /\ UNCHANGED <<outside, gpu, producer, source>>

DescriptionPending ==
    /\ At("prepare")
    /\ wayland.selected \in Targets /\ ~Described
    /\ wayland.asked # Key \/ wayland.answer = "none"
    /\ wayland' = [wayland EXCEPT !.asked = Key, !.answer = "none"]
    /\ Returns(engine)
    /\ KeepFailure /\ KeepDirt /\ Smooth /\ UNCHANGED <<outside, gpu, producer, source>>

DescriptionRejected ==
    /\ At("prepare")
    /\ wayland.selected \in Targets /\ ~Described
    /\ wayland.asked = Key /\ wayland.answer = "failed"
    /\ Rejects(wayland.selected)
    /\ Smooth /\ UNCHANGED outside

(* QRhi::beginFrame; an outdated swapchain is resized and tried once more.      *)
BeginFrame ==
    /\ At("begin")
    /\ \/ /\ Goes("record")
          /\ KeepFailure /\ KeepDirt /\ Smooth /\ UNCHANGED <<gpu, producer, source, wayland>>
       \/ /\ ~engine.retry /\ Trouble
          /\ engine' = [engine EXCEPT !.retry = TRUE] /\ UNCHANGED <<update, producer>> /\ Resizes
       \/ engine.retry /\ Trouble /\ Returns(Requested(engine)) /\ Resizes /\ UNCHANGED producer
       \/ Trouble /\ SwapChainFails
       \/ Trouble /\ LosesDevice
       \/ Trouble /\ FrameFails
    /\ UNCHANGED outside

(* HdrCompositor::render: pixels follow the contract of the swapchain.          *)
OutputEncoding == Encoding[engine.contract]

Composited ==
    [pixels |-> OutputEncoding, buffer |-> gpu.swap, volume |-> Volume,
     declared |-> CASE wayland.selected = "unmanaged" -> <<"srgb", "display">>
                    [] wayland.selected = "gamma22" -> <<"gamma22", "display">>
                    [] wayland.selected \in Targets -> <<Encoding[wayland.key[1]], wayland.key[2]>>]

(* needsRender and render; whether the texture is the newest is in VideoSources. *)
RenderVideo ==
    /\ At("record")
    /\ Goes("present")
    /\ KeepFailure /\ KeepDirt /\ Smooth /\ UNCHANGED <<outside, gpu, producer, source, wayland>>

(* applyPrepared and QRhi::endFrame, which presents; scheduleNextFrame.         *)
Present ==
    /\ At("present")
    /\ \/ /\ dirty' = FALSE
          /\ recovery' = [recovery EXCEPT !.retried = FALSE]
          /\ \E more \in {FALSE, source.route = "player" /\ source.frame} :
                 Returns(IF more THEN Requested(engine) ELSE engine)
          /\ Smooth /\ UNCHANGED <<lifecycle, dialog, gpu, producer, source, wayland>>
       \/ Trouble /\ Returns(Requested(engine)) /\ Resizes /\ UNCHANGED producer
       \/ Trouble /\ SwapChainFails
       \/ Trouble /\ LosesDevice
       \/ Trouble /\ FrameFails
    /\ UNCHANGED outside

Renders ==
    \/ InitializeDevice \/ InitializeLayers \/ KeepLayers
    \/ Transition \/ Reconcile \/ CreateSwapChain \/ ResizeSwapChain \/ RenderUi
    \/ PrepareVideo \/ VideoFails \/ BindTextures
    \/ DescriptionReady \/ DescriptionPending \/ DescriptionRejected
    \/ BeginFrame \/ RenderVideo \/ Present

-------------------------------------------------------------------------------
(* What the event loop delivers.                                                *)

Untouched == UNCHANGED <<gpu, producer, wayland, lifecycle, dialog>>

DeliverUpdate ==
    /\ Calm /\ update
    /\ update' = FALSE
    /\ engine' = IF Live THEN Begins(engine) ELSE engine
    /\ Smooth /\ KeepDirt /\ Untouched /\ UNCHANGED <<outside, source, recovery>>

DeviceTimer ==
    /\ Calm /\ recovery.due
    /\ recovery' = [recovery EXCEPT !.due = FALSE]
    /\ Requests(engine)
    /\ Smooth /\ KeepDirt /\ Untouched /\ UNCHANGED <<outside, source>>

SwapChainTimer ==
    /\ Calm /\ recovery.swapDue
    /\ recovery' = [recovery EXCEPT !.swapDue = FALSE]
    /\ Requests(engine)
    /\ Smooth /\ KeepDirt /\ Untouched /\ UNCHANGED <<outside, source>>

(* The call that queueSurfaceTransition queues.                                 *)
TransitionCall ==
    /\ Calm /\ engine.alive /\ engine.transition
    /\ IF engine.stopped THEN UNCHANGED <<update, wayland>> /\ engine' = [engine EXCEPT !.transition = FALSE]
       ELSE /\ Requests([engine EXCEPT !.transition = FALSE, !.characteristics = TRUE,
                                       !.contract = IF gpu.device THEN Select ELSE @])
            /\ wayland' = IF gpu.device THEN Selected ELSE wayland
    /\ Smooth /\ KeepDirt /\ UNCHANGED <<outside, gpu, producer, source, lifecycle, dialog, recovery>>

(* The compositor completes the pending description, which requests an update.  *)
DescriptionAnswered ==
    /\ Calm /\ wayland.asked # NoKey /\ wayland.answer = "none"
    /\ wayland' = [wayland EXCEPT !.answer = IF wayland.asked[1] \in platform.ready THEN "ready" ELSE "failed"]
    /\ update' = TRUE
    /\ Smooth /\ KeepDirt
    /\ UNCHANGED <<outside, engine, gpu, producer, source, lifecycle, dialog, recovery>>

(* Qt may discard the queued update of a hidden window (handleExposure).        *)
Hide ==
    /\ Calm /\ window.exposed /\ Change
    /\ window' = [window EXCEPT !.exposed = FALSE]
    /\ engine' = IF Live THEN [engine EXCEPT !.pending = FALSE] ELSE engine
    /\ update' \in {FALSE, update}
    /\ KeepDirt /\ Untouched /\ UNCHANGED <<display, platform, source, recovery>>

Expose ==
    /\ Calm /\ ~window.exposed /\ window.surface
    /\ Smooth
    /\ window' = [window EXCEPT !.exposed = TRUE]
    /\ engine' = IF Live /\ ~engine.pending THEN [Begins(engine) EXCEPT !.stage =
                                                    IF engine.transition THEN "idle" ELSE "device"]
                 ELSE engine
    /\ dirty' = TRUE
    /\ Untouched /\ UNCHANGED <<display, platform, update, source, recovery>>

BugForwardOnlyActive == Live

Forward == engine.alive /\ ~(engine.stopped /\ ~gpu.device)

(* PresentationWindow::event: a live engine always releases its swapchain, and  *)
(* the display provider forgets the surface.                                    *)
SurfaceGone ==
    /\ Calm /\ window.surface /\ ~window.exposed /\ Change
    /\ window' = [window EXCEPT !.surface = FALSE]
    /\ IF Forward
       THEN /\ gpu' = Frees(gpu)
            /\ engine' = [engine EXCEPT !.pending = FALSE]
            /\ recovery' = [recovery EXCEPT !.swapAttempts = 0, !.swapDue = FALSE]
       ELSE UNCHANGED <<gpu, engine, recovery>>
    /\ UNCHANGED <<display, platform, update, source, producer, wayland, lifecycle, dialog, dirty>>

SurfaceBack ==
    /\ Calm /\ ~window.surface
    /\ window' = [window EXCEPT !.surface = TRUE]
    /\ Smooth /\ KeepDirt /\ Untouched
    /\ UNCHANGED <<display, platform, update, source, engine, recovery>>

(* resizeEvent and RhiPresentationEngine::markUiDirty.                          *)
Resize ==
    /\ Calm /\ Change
    /\ window' = [window EXCEPT !.size = 3 - @]
    /\ source' = IF Live /\ gpu.layers THEN [source EXCEPT !.uiDirty = TRUE] ELSE source
    /\ IF Live THEN Requests(engine) ELSE UNCHANGED <<engine, update>>
    /\ dirty' = TRUE
    /\ Untouched /\ UNCHANGED <<display, platform, recovery>>

(* PresentationOutputState::applyDisplayState.                                  *)
DisplayReports ==
    /\ Calm /\ Change /\ platform.managed
    /\ display' \in Displays \ {display}
    /\ Requests([engine EXCEPT !.characteristics = TRUE])
    /\ dirty' = TRUE
    /\ Untouched /\ UNCHANGED <<window, platform, source, recovery>>

(* Another output accepts or refuses HDR10 buffers (supportsHdr10Presentation). *)
OutputChanges ==
    /\ Calm /\ Change /\ platform.managed
    /\ platform' = [platform EXCEPT !.pq = ~@]
    /\ KeepDirt /\ Untouched /\ UNCHANGED <<window, display, update, engine, source, recovery>>

ProducerOutdated == producer' = [producer EXCEPT !.current = FALSE]

(* ActiveVideoSource::setRoute, called by a page, or by Quick while it renders. *)
SetRoute ==
    /\ Calm \/ At("ui")
    /\ Change
    /\ \E route \in Routes \ {source.route} : source' = [source EXCEPT !.route = route]
    /\ ProducerOutdated
    /\ Requests(engine)
    /\ dirty' = TRUE
    /\ UNCHANGED <<outside, gpu, wayland, lifecycle, dialog, recovery>>

PlayerUpdates(s) ==
    /\ source' = s
    /\ IF source.route = "player" THEN Requests(engine) /\ dirty' = TRUE
       ELSE UNCHANGED <<engine, update, dirty>>

(* DecodedVideoSource::requestFrameSelection: a decoded frame waits.            *)
FrameArrives ==
    /\ Calm /\ Change /\ gpu.device /\ ~source.next
    /\ PlayerUpdates([source EXCEPT !.next = TRUE])
    /\ UNCHANGED <<outside, gpu, producer, wayland, lifecycle, dialog, recovery>>

(* DecodedVideoSource::clearFrame, when the media session abandons a medium.    *)
MediaCloses ==
    /\ Calm /\ Change /\ source.frame
    /\ PlayerUpdates(Cleared)
    /\ producer' = Outdated(producer)
    /\ UNCHANGED <<outside, gpu, wayland, lifecycle, dialog, recovery>>

(* A color setting of the video changes (DecodedVideoSource::set...).           *)
SettingChanges ==
    /\ Calm /\ Change /\ source.frame
    /\ PlayerUpdates(source)
    /\ UNCHANGED <<outside, gpu, producer, wayland, lifecycle, dialog, recovery>>

(* QuickUiLayer::markDirty.                                                     *)
SceneChanges ==
    /\ Calm /\ Change /\ gpu.layers
    /\ source' = [source EXCEPT !.uiDirty = TRUE]
    /\ IF source.uiDirty THEN UNCHANGED <<engine, update>> ELSE Requests(engine)
    /\ dirty' = TRUE
    /\ Untouched /\ UNCHANGED <<outside, recovery>>

-------------------------------------------------------------------------------
(* The error dialog of PresentationWindow.                                      *)

(* The queued call of handlePresentationError.                                  *)
DialogOpens ==
    /\ Calm /\ dialog.error # "none" /\ ~dialog.open
    /\ dialog' = [dialog EXCEPT !.open = TRUE]
    /\ engine' = NoEngine /\ recovery' = NoRecovery
    /\ gpu' = NoDevice /\ producer' = NoProducer
    /\ Smooth /\ KeepDirt /\ UNCHANGED <<outside, update, source, wayland, lifecycle>>

BugRetryForgetsError == NoDialog
FailedStart == [error |-> "retryable", open |-> FALSE]

(* retryPresentation: createPresentationEngine.                                 *)
Retry ==
    /\ Calm /\ dialog.open /\ dialog.error = "retryable"
    /\ \/ /\ lifecycle' = "active" /\ dialog' = NoDialog
          /\ gpu' = NewDevice
          /\ engine' = IF window.exposed THEN Begins(NewEngine) ELSE NewEngine
          /\ wayland' = [wayland EXCEPT !.rejected = {}]
          /\ dirty' = TRUE /\ Smooth
       \/ /\ dialog' = FailedStart
          /\ engine' = [NewEngine EXCEPT !.stopped = TRUE]
          /\ UNCHANGED <<lifecycle, gpu, wayland, dirty>> /\ Trouble
    /\ UNCHANGED <<outside, update, producer, source, recovery>>

(* launchRestart.                                                               *)
Restart ==
    /\ Calm /\ dialog.open /\ dialog.error \in {"retryable", "restart"}
    /\ \/ lifecycle' = "quit" /\ UNCHANGED dialog /\ Smooth
       \/ dialog' = [dialog EXCEPT !.error = "failed"] /\ UNCHANGED lifecycle /\ Trouble
    /\ KeepDirt /\ UNCHANGED <<outside, update, engine, recovery, gpu, producer, source, wayland>>

Quit ==
    /\ Calm /\ dialog.open
    /\ lifecycle' = "quit"
    /\ Smooth /\ KeepDirt
    /\ UNCHANGED <<outside, update, engine, recovery, gpu, producer, source, wayland, dialog>>

Deliveries ==
    \/ DeliverUpdate \/ DeviceTimer \/ SwapChainTimer \/ TransitionCall \/ DescriptionAnswered
    \/ SurfaceBack \/ DialogOpens

Events ==
    \/ Hide \/ Expose \/ SurfaceGone \/ Resize \/ DisplayReports \/ OutputChanges \/ SetRoute
    \/ FrameArrives \/ MediaCloses \/ SettingChanges \/ SceneChanges \/ Retry \/ Restart \/ Quit

Next == Renders \/ Deliveries \/ Events

(* A render runs to its end; Qt delivers what it has queued; timers fire; the   *)
(* compositor answers.                                                          *)
Fairness ==
    /\ WF_vars(Renders)
    /\ WF_vars(DeliverUpdate) /\ WF_vars(DeviceTimer) /\ WF_vars(SwapChainTimer)
    /\ WF_vars(TransitionCall) /\ WF_vars(DescriptionAnswered)

Spec == Init /\ [][Next]_vars /\ Fairness

-------------------------------------------------------------------------------
(* The pixels of a frame are encoded for its buffer and as the description that *)
(* is declared with it says, for the volume the frame needs.                    *)
PixelsMatchDeclaration ==
    /\ Composited.declared = <<Composited.pixels, Composited.volume>>
    /\ (Composited.buffer = "pq") <=> (Composited.pixels = "pq")

(* Every replacement of the producer, its target or the Quick target has        *)
(* reached the compositor's bindings, whichever renders were abandoned meanwhile. *)
CompositesLiveTextures == gpu.live = {"video", "ui"}

(* What is presented is what was meant: declared encoding and living textures,  *)
(* whatever the display reported, the compositor rejected and the device lost   *)
(* since the last frame (RhiPresentationEngine::renderFrame).                   *)
FrameIsFaithful ==
    /\ TypeOK
    /\ At("present") => PixelsMatchDeclaration /\ CompositesLiveTextures

(* A swapchain never outlives the native surface, not even in the turn between  *)
(* a presentation error and the destruction of its engine.                      *)
SwapchainDiesWithSurface == gpu.swap # "none" => window.surface

(* An engine that cannot render any more has an error the user sees or will see *)
(* on the next turn, after any sequence of failures, retries and restarts.      *)
FailureReachesTheUser ==
    ~Live /\ lifecycle # "quit" => lifecycle = "suspended" /\ dialog.error # "none"

(* A change of the scene, the video, the window or the display is presented, or *)
(* the window is hidden, or the user gets an error: no request for a frame is   *)
(* lost between pending updates, early returns, timers and asynchronous answers.*)
EveryChangeIsShown == dirty ~> (~dirty \/ ~window.exposed \/ ~Live)
===============================================================================
