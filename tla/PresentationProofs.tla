--------------------------- MODULE PresentationProofs ---------------------------
(* Faithful frames, swapchains and errors, for any platforms and any number of  *)
(* attempts, failures and changes.                                              *)
EXTENDS Presentation, TLAPS

(* The stages of a render in their order, and what renderFrame has settled by then. *)
Early == {"idle", "device", "reconcile", "swapchain", "ui"}
AfterBind == {"prepare", "begin", "record", "present"}
Stages == Early \cup {"video", "bind"} \cup AfterBind
AfterReconcile == {"swapchain", "ui", "video", "bind"} \cup AfterBind

Full == {"video", "ui"}

Windows == [surface : BOOLEAN, exposed : BOOLEAN, size : 1..2]
Dialogs == [error : {"none", "retryable", "restart", "failed"}, open : BOOLEAN]
Engines ==
    [alive : BOOLEAN, stopped : BOOLEAN, pending : BOOLEAN, again : BOOLEAN, stage : Stages,
     retry : BOOLEAN, rebind : BOOLEAN, contract : Modes, transition : BOOLEAN,
     characteristics : BOOLEAN]
Recoveries ==
    [on : BOOLEAN, attempts : 0..MaxAttempts, due : BOOLEAN, swapAttempts : 0..MaxAttempts,
     swapDue : BOOLEAN, retried : BOOLEAN]
Gpus ==
    [device : BOOLEAN, layers : BOOLEAN, uiSize : 0..2, swap : {"none", "sdr", "pq"},
     swapSize : 0..2, compositor : BOOLEAN, bound : Nat, live : SUBSET Full]
Producers ==
    [current : BOOLEAN, size : 0..2, revision : Nat]
Sources == [route : Routes, frame : BOOLEAN, next : BOOLEAN, uiDirty : BOOLEAN]
Waylands ==
    [selected : Modes, rejected : SUBSET Targets, key : Keys \cup {NoKey},
     asked : Keys \cup {NoKey}, answer : {"none", "ready", "failed"}]

(* Every part of the state has its type. *)
Types ==
    /\ window \in Windows /\ update \in BOOLEAN
    /\ lifecycle \in {"active", "suspended", "quit"} /\ dialog \in Dialogs
    /\ engine \in Engines /\ recovery \in Recoveries
    /\ gpu \in Gpus /\ producer \in Producers /\ source \in Sources
    /\ display \in Displays
    /\ platform \in [managed : BOOLEAN, pq : BOOLEAN, ready : SUBSET Targets]
    /\ wayland \in Waylands /\ dirty \in BOOLEAN

(* An engine that may render is alive and nothing is wrong; a presentation that *)
(* is suspended has an error; only an exposed window is rendered.               *)
Life ==
    /\ lifecycle = "active" => engine.alive /\ ~engine.stopped /\ dialog = NoDialog
    /\ lifecycle = "suspended" => dialog.error # "none"
    /\ engine.stage # "idle" => lifecycle = "active" /\ window.exposed /\ ~engine.transition

(* Nothing outlives the native surface. *)
Surfaces ==
    /\ window.exposed => window.surface
    /\ gpu.swap # "none" => window.surface

(* Without layers nothing is bound, and nothing is without a device. *)
Layered(g) ==
    /\ g.layers => g.device
    /\ ~g.layers => g.swap = "none" /\ ~g.compositor /\ g.bound = 0

(* The device goes with the engine, and a render has what its stage works on.   *)
Devices ==
    /\ Layered(gpu)
    /\ ~engine.alive \/ dialog.open => ~gpu.device
    /\ engine.stage \notin {"idle", "device"} => gpu.layers
    /\ engine.stage \in AfterReconcile \ {"swapchain"} => gpu.swap # "none"

(* The swapchain carries what the contract says, nothing while it is changing,  *)
(* and from the stage that describes the frame its description is declared.     *)
Contract ==
    /\ gpu.swap # "none" => (gpu.swap = "pq" <=> engine.contract = "pq")
    /\ engine.transition => gpu.swap = "none"
    /\ engine.stage \in AfterReconcile => wayland.selected = engine.contract
    /\ engine.stage \in {"begin", "record", "present"} /\ wayland.selected \in Targets
           => wayland.key = Key

(* A texture that died since the last binding is remembered until the next: the *)
(* producer is no longer current, the Quick target asks for it, or the revision *)
(* the compositor has bound is behind.                                          *)
Bindings ==
    lifecycle = "active" =>
    /\ engine.stage \in Early /\ gpu.compositor /\ gpu.live # Full => ~producer.current
    /\ engine.stage = "video" /\ gpu.compositor =>
        /\ "video" \notin gpu.live => ~producer.current
        /\ "ui" \notin gpu.live => engine.rebind \/ ~producer.current
    /\ engine.stage = "bind" /\ gpu.live # Full => MustBind
    /\ engine.stage \in AfterBind => gpu.compositor /\ gpu.live = Full
    /\ producer.current /\ ~(engine.stage = "bind" /\ engine.rebind)
           => gpu.bound <= producer.revision

(* The inductive invariant. *)
PInv == Types /\ Life /\ Surfaces /\ Devices /\ Contract /\ Bindings

-------------------------------------------------------------------------------
(* Requests for frames.                                                         *)

(* What a request leaves alone. *)
Same(e, f) ==
    /\ f.alive = e.alive /\ f.stopped = e.stopped /\ f.stage = e.stage /\ f.retry = e.retry
    /\ f.rebind = e.rebind /\ f.contract = e.contract /\ f.transition = e.transition
    /\ f.characteristics = e.characteristics

(* A request is noted in the engine and changes nothing else of it. *)
LEMMA RequestedSame ==
    ASSUME NEW e \in Engines
    PROVE  Requested(e) \in Engines /\ Same(e, Requested(e))
<1>1. [e EXCEPT !.again = TRUE] \in Engines /\ [e EXCEPT !.pending = TRUE] \in Engines
  BY DEF Engines
<1>2. Same(e, e) /\ Same(e, [e EXCEPT !.again = TRUE]) /\ Same(e, [e EXCEPT !.pending = TRUE])
  BY DEF Engines, Same
<1> QED BY <1>1, <1>2 DEF Requested

(* A request that is made on the engine. *)
LEMMA RequestsSame ==
    ASSUME NEW e \in Engines, update \in BOOLEAN, Requests(e)
    PROVE  engine' \in Engines /\ Same(e, engine') /\ update' \in BOOLEAN
<1>1. engine' = Requested(e) /\ update' \in BOOLEAN
  BY DEF Requests
<1> QED BY <1>1, RequestedSame

(* The engine a render returns with. *)
LEMMA ReturnsIdle ==
    ASSUME NEW e \in Engines, update \in BOOLEAN, Returns(e)
    PROVE  /\ engine' \in Engines /\ update' \in BOOLEAN
           /\ engine'.stage = "idle" /\ engine'.alive = e.alive /\ engine'.stopped = e.stopped
           /\ engine'.contract = e.contract /\ engine'.transition = e.transition
<1>1. PICK i : i = [e EXCEPT !.stage = "idle", !.again = FALSE, !.retry = FALSE, !.rebind = FALSE]
  OBVIOUS
<1>2. /\ i \in Engines /\ i.stage = "idle" /\ i.alive = e.alive /\ i.stopped = e.stopped
      /\ i.contract = e.contract /\ i.transition = e.transition
  BY <1>1 DEF Engines, Stages, Early
<1>3. CASE e.again
  <2>1. Requests(i)
    BY <1>1, <1>3 DEF Returns
  <2> QED BY <1>2, <2>1, RequestsSame DEF Same
<1>4. CASE ~e.again
  BY <1>1, <1>2, <1>4 DEF Returns
<1> QED BY <1>3, <1>4

(* The engine a render begins with. *)
LEMMA BeginsDevice ==
    ASSUME NEW e \in Engines
    PROVE  /\ Begins(e) \in Engines
           /\ Begins(e).stage = IF window.exposed /\ ~e.transition THEN "device" ELSE "idle"
           /\ Begins(e).alive = e.alive /\ Begins(e).stopped = e.stopped
           /\ Begins(e).contract = e.contract /\ Begins(e).transition = e.transition
BY DEF Begins, Engines, Stages, Early

-------------------------------------------------------------------------------
(* What a failure leaves.                                                       *)

(* The records that stand for nothing and for a fresh device. *)
LEMMA Constants ==
    /\ NoDevice \in Gpus /\ NewDevice \in Gpus
    /\ NoDevice.swap = "none" /\ NewDevice.swap = "none"
    /\ ~NoDevice.device /\ NewDevice.device /\ ~NoDevice.layers /\ ~NewDevice.layers
    /\ ~NoDevice.compositor /\ ~NewDevice.compositor
    /\ NoDevice.bound = 0 /\ NewDevice.bound = 0
    /\ NoProducer \in Producers
    /\ MaxAttempts \in Nat \ {0}
<1>1. MaxAttempts \in Nat \ {0}
  BY PresentationAssumption
<1>2. NoDevice \in Gpus
  <2>1. {} \in SUBSET Full /\ 0 \in 0..2 /\ 0 \in Nat
    OBVIOUS
  <2> QED BY <2>1 DEF NoDevice, Gpus
<1>4. NewDevice \in Gpus
  BY <1>2 DEF NewDevice, Gpus
<1>3. NoProducer \in Producers
  BY DEF NoProducer, Producers
<1> QED BY <1>1, <1>2, <1>3, <1>4 DEF NoDevice, NewDevice

(* Releasing the swapchain frees what was bound with it. *)
LEMMA FreesTyped ==
    ASSUME NEW g \in Gpus
    PROVE  /\ Frees(g) \in Gpus /\ Frees(g).swap = "none" /\ ~Frees(g).compositor
           /\ Frees(g).bound = 0 /\ Frees(g).device = g.device /\ Frees(g).layers = g.layers
<1>1. Frees(g) \in Gpus
  <2>1. {} \in SUBSET Full /\ 0 \in 0..2 /\ 0 \in Nat
    OBVIOUS
  <2> QED BY <2>1 DEF Frees, Gpus
<1> QED BY <1>1 DEF Frees, Gpus

(* What a cleared source leaves alone. *)
LEMMA ClearedTyped ==
    ASSUME source \in Sources
    PROVE  Cleared \in Sources /\ Cleared.route = source.route /\ ~Cleared.frame
BY DEF Cleared, Sources

(* A failure that stops the engine: the user is to see its error. *)
LEMMA FailsKeeps ==
    ASSUME PInv, engine.stage # "idle", NEW error \in {"retryable", "restart"},
           NEW g \in Gpus, NEW p \in Producers, Fails(error, g, p), UNCHANGED outside,
           Layered(g),
           g.swap \in {"none", gpu.swap}
    PROVE  PInv'
<1>1. /\ engine \in Engines /\ recovery \in Recoveries /\ source \in Sources
      /\ lifecycle = "active" /\ engine.alive /\ ~engine.transition
  BY DEF PInv, Types, Life
<1>2. /\ engine' \in Engines /\ engine'.stage = "idle" /\ engine'.alive /\ engine'.stopped
      /\ engine'.contract = engine.contract /\ ~engine'.transition
  BY <1>1 DEF Fails, Engines, Stages, Early
<1>3. recovery' \in Recoveries
  BY <1>1 DEF Fails, Recoveries
<1>4. source' \in Sources
  BY <1>1, ClearedTyped DEF Fails
<1>5. dialog' \in Dialogs /\ dialog'.error # "none" /\ ~dialog'.open
  BY DEF Fails, Dialogs
<1>6. lifecycle' = "suspended" /\ gpu' = g /\ producer' = p
      /\ UNCHANGED <<update, wayland, dirty, window, display, platform>>
  BY DEF Fails, outside
<1>7. Types'
  BY <1>2, <1>3, <1>4, <1>5, <1>6 DEF PInv, Types
<1>8. Life'
  BY <1>2, <1>5, <1>6 DEF Life
<1>9. Surfaces'
  BY <1>6 DEF PInv, Surfaces
<1>10. Devices'
  BY <1>2, <1>5, <1>6 DEF Devices, Layered, AfterReconcile, AfterBind
<1>11. Contract'
  BY <1>2, <1>6 DEF PInv, Contract, AfterReconcile, AfterBind
<1>12. Bindings'
  BY <1>6 DEF Bindings
<1> QED BY <1>7, <1>8, <1>9, <1>10, <1>11, <1>12 DEF PInv

(* The render returns, with the swapchain released. *)
LEMMA ReturnsKeeps ==
    ASSUME PInv, engine.stage # "idle", NEW e \in Engines, Returns(e), UNCHANGED outside,
           e.alive = engine.alive, e.stopped = engine.stopped, e.contract = engine.contract,
           gpu' \in Gpus, gpu'.swap = "none", ~gpu'.compositor, gpu'.bound = 0,
           gpu'.layers => gpu'.device,
           producer' \in Producers,
           recovery' \in Recoveries, source' \in Sources, wayland' \in Waylands,
           dirty' \in BOOLEAN, UNCHANGED <<lifecycle, dialog>>
    PROVE  PInv'
<1>1. /\ lifecycle = "active" /\ engine.alive /\ ~engine.stopped /\ dialog = NoDialog
      /\ update \in BOOLEAN
  BY DEF PInv, Types, Life
<1>2. /\ engine' \in Engines /\ update' \in BOOLEAN /\ engine'.stage = "idle"
      /\ engine'.alive /\ ~engine'.stopped
  BY <1>1, ReturnsIdle
<1>3. Types'
  BY <1>2 DEF PInv, Types, outside
<1>4. Life'
  BY <1>1, <1>2 DEF Life
<1>5. Surfaces'
  BY DEF PInv, Surfaces, outside
<1>6. Devices'
  BY <1>1, <1>2 DEF Devices, Layered, NoDialog, AfterReconcile, AfterBind
<1>7. Contract'
  BY <1>2 DEF Contract, AfterReconcile, AfterBind
<1>8. Bindings'
  BY <1>2 DEF Bindings, Early, AfterBind, Producers
<1> QED BY <1>3, <1>4, <1>5, <1>6, <1>7, <1>8 DEF PInv

(* A device is given up and made again, or its loss is final. *)
LEMMA ReleasesKeeps ==
    ASSUME PInv, engine.stage # "idle", NEW attempts \in 0..MaxAttempts, NEW retried \in BOOLEAN,
           Releases(attempts, retried), UNCHANGED outside
    PROVE  PInv'
<1>1. CASE Exhausted(attempts)
  <2>1. Fails("restart", NoDevice, NoProducer)
    BY <1>1 DEF Releases
  <2> QED BY <2>1, Constants, FailsKeeps DEF Layered
<1>2. CASE ~Exhausted(attempts)
  <2>1. PICK c : c = [engine EXCEPT !.characteristics = FALSE]
    OBVIOUS
  <2>2. /\ c \in Engines /\ c.alive = engine.alive /\ c.stopped = engine.stopped
        /\ c.contract = engine.contract
    BY <2>1 DEF PInv, Types, Engines
  <2>3. PICK e : e = AfterClear(c)
    OBVIOUS
  <2>4. /\ e \in Engines /\ e.alive = engine.alive /\ e.stopped = engine.stopped
        /\ e.contract = engine.contract
    BY <2>2, <2>3, RequestedSame DEF AfterClear, Same
  <2>5. RetryLater(attempts, retried) \in Recoveries
    <3>1. attempts + 1 \in 0..MaxAttempts /\ 0 \in 0..MaxAttempts
      BY <1>2, Constants DEF Exhausted
    <3> QED BY <3>1 DEF RetryLater, NoRecovery, Recoveries
  <2>6. /\ recovery' = RetryLater(attempts, retried) /\ gpu' = NoDevice /\ producer' = NoProducer
        /\ source' = Cleared /\ Returns(e) /\ dirty' = TRUE
        /\ UNCHANGED <<lifecycle, dialog, wayland>>
    BY <1>2, <2>1, <2>3 DEF Releases
  <2>7. source' \in Sources /\ wayland' \in Waylands
    BY <2>6, ClearedTyped DEF PInv, Types
  <2> QED BY <2>4, <2>5, <2>6, <2>7, Constants, ReturnsKeeps
<1> QED BY <1>1, <1>2

(* A lost device is released; the render returns, or the engine stops. *)
LEMMA LosesDeviceKeeps ==
    ASSUME PInv, engine.stage # "idle", LosesDevice, UNCHANGED outside
    PROVE  PInv'
<1>1. Attempts \in 0..MaxAttempts /\ recovery.retried \in BOOLEAN
  BY Constants DEF PInv, Types, Recoveries, Attempts
<1> QED BY <1>1, ReleasesKeeps DEF LosesDevice

(* The engine stops when the device it releases does not answer. *)
LEMMA CleanupFailsKeeps ==
    ASSUME PInv, engine.stage # "idle", CleanupFails, UNCHANGED outside
    PROVE  PInv'
BY Constants, FailsKeeps DEF CleanupFails, Layered

(* A frame fails: the device is made again once, then the engine stops. *)
LEMMA FrameFailsKeeps ==
    ASSUME PInv, engine.stage # "idle", FrameFails, UNCHANGED outside
    PROVE  PInv'
<1>1. CASE Fails("retryable", gpu, producer)
  BY <1>1, FailsKeeps DEF PInv, Types, Devices
<1>2. CASE Releases(0, TRUE)
  <2>1. 0 \in 0..MaxAttempts
    BY Constants
  <2> QED BY <1>2, <2>1, ReleasesKeeps
<1>3. CASE CleanupFails
  BY <1>3, CleanupFailsKeeps
<1> QED BY <1>1, <1>2, <1>3 DEF FrameFails

(* The surface is about to change what it carries. *)
LEMMA TransitsKeeps ==
    ASSUME PInv, engine.stage # "idle", NEW w \in Waylands,
           NEW e \in {engine, [engine EXCEPT !.characteristics = TRUE]}, Transits(w, e),
           UNCHANGED outside
    PROVE  PInv'
<1>1. PICK t : t = [e EXCEPT !.transition = TRUE]
  OBVIOUS
<1>2. /\ t \in Engines /\ t.alive = engine.alive /\ t.stopped = engine.stopped
      /\ t.contract = engine.contract
  BY <1>1 DEF PInv, Types, Engines
<1>3. /\ wayland' = w /\ gpu' = Frees(gpu) /\ Returns(t)
      /\ UNCHANGED <<lifecycle, dialog, recovery, producer, source, dirty>>
  BY <1>1 DEF Transits
<1>4. /\ gpu' \in Gpus /\ gpu'.swap = "none" /\ ~gpu'.compositor /\ gpu'.bound = 0
      /\ (gpu'.layers => gpu'.device)
  BY <1>3, FreesTyped DEF PInv, Types, Devices, Layered
<1>5. /\ producer' \in Producers
      /\ recovery' \in Recoveries /\ source' \in Sources /\ dirty' \in BOOLEAN
  BY <1>3 DEF PInv, Types
<1> QED BY <1>2, <1>3, <1>4, <1>5, ReturnsKeeps

(* A target that is rejected starts a transition of the surface. *)
LEMMA RejectsKeeps ==
    ASSUME PInv, engine.stage # "idle", NEW target \in Targets, Rejects(target), UNCHANGED outside
    PROVE  PInv'
<1>1. Rejected(target) \in Waylands
  BY DEF Rejected, Waylands, PInv, Types
<1> QED BY <1>1, TransitsKeeps DEF Rejects

(* Every answer to a failed swapchain. *)
LEMMA SwapChainFailsKeeps ==
    ASSUME PInv, engine.stage # "idle", SwapChainFails, UNCHANGED outside
    PROVE  PInv'
<1>1. CASE LosesDevice
  BY <1>1, LosesDeviceKeeps
<1>2. CASE CleanupFails
  BY <1>2, CleanupFailsKeeps
<1>3. CASE Rejects("pq")
  BY <1>3, RejectsKeeps DEF Targets
<1>4. CASE RetriesSwapChain
  <2>1. /\ Frees(gpu) \in Gpus /\ Frees(gpu).swap = "none" /\ ~Frees(gpu).compositor
        /\ Frees(gpu).bound = 0 /\ (Frees(gpu).layers => Frees(gpu).device)
        /\ Layered(Frees(gpu))
    BY FreesTyped DEF PInv, Types, Devices, Layered
  <2>2. /\ producer \in Producers
        /\ engine \in Engines /\ recovery \in Recoveries /\ source \in Sources
        /\ wayland \in Waylands /\ dirty \in BOOLEAN
    BY DEF PInv, Types
  <2>3. CASE Exhausted(recovery.swapAttempts)
    BY <1>4, <2>1, <2>2, <2>3, FailsKeeps DEF RetriesSwapChain
  <2>4. CASE ~Exhausted(recovery.swapAttempts)
    <3>1. recovery.swapAttempts + 1 \in 0..MaxAttempts
      BY <2>2, <2>4, Constants DEF Exhausted, Recoveries
    <3>2. recovery' \in Recoveries
      BY <1>4, <2>2, <2>4, <3>1 DEF RetriesSwapChain, Recoveries
    <3>3. /\ gpu' = Frees(gpu) /\ Returns(engine)
          /\ UNCHANGED <<lifecycle, dialog, producer, source, wayland, dirty>>
      BY <1>4, <2>4 DEF RetriesSwapChain
    <3> QED BY <2>1, <2>2, <3>2, <3>3, ReturnsKeeps
  <2> QED BY <2>3, <2>4
<1> QED BY <1>1, <1>2, <1>3, <1>4 DEF SwapChainFails, Rebuilds

-------------------------------------------------------------------------------
(* The stages of a render, one lemma for each.                                  *)

(* An engine at its next stage. *)
LEMMA GoesTyped ==
    ASSUME engine \in Engines, NEW stage \in Stages, Goes(stage)
    PROVE  /\ engine' \in Engines /\ engine'.stage = stage /\ UNCHANGED update
           /\ engine'.alive = engine.alive /\ engine'.stopped = engine.stopped
           /\ engine'.contract = engine.contract /\ engine'.transition = engine.transition
           /\ engine'.rebind = engine.rebind
BY DEF Goes, Engines

(* What is selected is one of the modes. *)
LEMMA SelectTyped ==
    ASSUME wayland \in Waylands
    PROVE  Select \in Modes /\ Selected \in Waylands /\ Selected.selected = Select
<1>1. Select \in Modes
  BY DEF Select, Modes, Targets
<1> QED BY <1>1 DEF Selected, Waylands

(* Only PQ pixels go with the PQ contract. *)
LEMMA EncodingOfPq == \A m \in Modes : Encoding[m] = "pq" <=> m = "pq"
BY DEF Encoding, Modes, Targets

(* A render that goes on, nothing but its stage and what it binds being new. *)
LEMMA StageKeeps ==
    ASSUME PInv, engine.stage # "idle", UNCHANGED <<outside, lifecycle, dialog>>,
           engine' \in Engines, update' \in BOOLEAN, engine'.stage # "idle",
           engine'.alive = engine.alive, engine'.stopped = engine.stopped,
           engine'.transition = engine.transition,
           recovery' \in Recoveries, gpu' \in Gpus, producer' \in Producers,
           source' \in Sources, wayland' \in Waylands, dirty' \in BOOLEAN,
           Layered(gpu'), engine'.stage # "device" => gpu'.layers,
           engine'.stage \in AfterReconcile \ {"swapchain"} => gpu'.swap # "none",
           Contract', Bindings'
    PROVE  PInv'
<1>1. /\ lifecycle' = "active" /\ engine'.alive /\ ~engine'.stopped /\ ~engine'.transition
      /\ dialog' = NoDialog /\ window'.exposed /\ window' = window
  BY DEF PInv, Life, outside
<1>2. Types'
  BY DEF PInv, Types, outside
<1>3. Life'
  BY <1>1 DEF Life
<1>4. Surfaces'
  BY <1>1 DEF PInv, Surfaces
<1>5. Devices'
  BY <1>1 DEF Devices, NoDialog
<1> QED BY <1>2, <1>3, <1>4, <1>5 DEF PInv

(* The first stage makes a device, or retries later. *)
LEMMA InitializeDeviceKeeps ==
    ASSUME PInv, InitializeDevice
    PROVE  PInv'
<1>1. engine.stage = "device" /\ UNCHANGED outside
  BY DEF InitializeDevice, At
<1>2. CASE Releases(recovery.attempts, recovery.retried)
  BY <1>1, <1>2, ReleasesKeeps DEF PInv, Types, Recoveries
<1>3. CASE /\ gpu' = NewDevice /\ wayland' = [wayland EXCEPT !.rejected = {}]
           /\ engine' = [engine EXCEPT !.characteristics = TRUE]
           /\ KeepFailure /\ KeepDirt /\ UNCHANGED <<update, producer, source>>
  <2>1. /\ engine' \in Engines /\ engine'.stage = "device" /\ engine'.alive = engine.alive
        /\ engine'.stopped = engine.stopped /\ engine'.transition = engine.transition
    BY <1>1, <1>3 DEF PInv, Types, Engines
  <2>2. wayland' \in Waylands
    BY <1>3 DEF PInv, Types, Waylands
  <2>3. Layered(gpu') /\ gpu' \in Gpus
    BY <1>3, Constants DEF Layered
  <2>4. Contract'
    BY <1>3, <2>1, Constants DEF Contract, AfterReconcile, AfterBind
  <2>5. Bindings'
    BY <1>3, <2>1, Constants DEF PInv, Types, Producers, Bindings, Early, AfterBind
  <2>6. /\ UNCHANGED <<lifecycle, dialog>> /\ recovery' \in Recoveries /\ source' \in Sources
        /\ producer' \in Producers /\ update' \in BOOLEAN /\ dirty' \in BOOLEAN
    BY <1>3 DEF PInv, Types, KeepFailure, KeepDirt
  <2> QED BY <1>1, <2>1, <2>2, <2>3, <2>4, <2>5, <2>6, StageKeeps DEF AfterReconcile, AfterBind
<1> QED BY <1>2, <1>3 DEF InitializeDevice

(* The layers are new, and so is what the compositor has to bind. *)
LEMMA InitializeLayersKeeps ==
    ASSUME PInv, InitializeLayers
    PROVE  PInv'
<1>1. engine.stage = "device" /\ UNCHANGED outside /\ gpu.device /\ ~gpu.layers
  BY DEF InitializeLayers, At
<1>2. CASE LosesDevice
  BY <1>1, <1>2, LosesDeviceKeeps
<1>3. CASE Fails("retryable", gpu, producer)
  BY <1>1, <1>3, FailsKeeps DEF PInv, Types, Devices
<1>4. CASE /\ gpu' = NewLayers /\ producer' = [NoProducer EXCEPT !.current = TRUE]
           /\ source' = [source EXCEPT !.uiDirty = TRUE] /\ Goes("reconcile")
           /\ KeepFailure /\ KeepDirt /\ UNCHANGED wayland
  <2>1. /\ engine' \in Engines /\ engine'.stage = "reconcile" /\ engine'.alive = engine.alive
        /\ engine'.stopped = engine.stopped /\ engine'.transition = engine.transition
        /\ UNCHANGED update
    BY <1>4, GoesTyped DEF PInv, Types, Stages, Early
  <2>2. /\ gpu' \in Gpus /\ gpu'.swap = "none" /\ ~gpu'.compositor /\ gpu'.bound = 0
        /\ gpu'.layers /\ gpu'.device
    BY <1>1, <1>4 DEF PInv, Types, Devices, Layered, Gpus, NewLayers
  <2>3. producer' \in Producers
    BY <1>4, Constants DEF NoProducer, Producers
  <2>4. Contract'
    BY <2>1, <2>2 DEF Contract, AfterReconcile, AfterBind
  <2>5. Bindings'
    BY <2>1, <2>2, <2>3 DEF Producers, Bindings, Early, AfterBind
  <2>6. /\ UNCHANGED <<lifecycle, dialog>> /\ recovery' \in Recoveries /\ source' \in Sources
        /\ wayland' \in Waylands /\ update' \in BOOLEAN /\ dirty' \in BOOLEAN
    BY <1>4, <2>1 DEF PInv, Types, KeepFailure, KeepDirt, Sources
  <2>7. Layered(gpu')
    BY <2>2 DEF Layered
  <2> QED BY <1>1, <2>1, <2>2, <2>3, <2>4, <2>5, <2>6, <2>7, StageKeeps
          DEF AfterReconcile, AfterBind
<1> QED BY <1>2, <1>3, <1>4 DEF InitializeLayers

(* Layers that exist are kept. *)
LEMMA KeepLayersKeeps ==
    ASSUME PInv, KeepLayers
    PROVE  PInv'
<1>1. /\ engine.stage = "device" /\ gpu.layers /\ Goes("reconcile")
      /\ UNCHANGED <<outside, gpu, producer, source, wayland, lifecycle, dialog, recovery, dirty>>
  BY DEF KeepLayers, At, KeepFailure, KeepDirt
<1>2. /\ engine' \in Engines /\ engine'.stage = "reconcile" /\ engine'.alive = engine.alive
      /\ engine'.stopped = engine.stopped /\ engine'.transition = engine.transition
      /\ engine'.contract = engine.contract /\ UNCHANGED update
  BY <1>1, GoesTyped DEF PInv, Types, Stages, Early
<1>3. Contract'
  BY <1>1, <1>2 DEF PInv, Contract, AfterReconcile, AfterBind
<1>4. Bindings'
  BY <1>1, <1>2 DEF PInv, Bindings, Early, AfterBind
<1>5. /\ recovery' \in Recoveries /\ gpu' \in Gpus /\ producer' \in Producers
      /\ source' \in Sources /\ wayland' \in Waylands /\ dirty' \in BOOLEAN /\ update' \in BOOLEAN
      /\ Layered(gpu')
  BY <1>1, <1>2 DEF PInv, Types, Devices
<1> QED BY <1>1, <1>2, <1>3, <1>4, <1>5, StageKeeps DEF AfterReconcile, AfterBind

(* A change of encoding releases the swapchain first. *)
LEMMA TransitionKeeps ==
    ASSUME PInv, Transition
    PROVE  PInv'
<1>1. engine.stage = "reconcile" /\ UNCHANGED outside /\ Transits(Selected, engine)
  BY DEF Transition, At
<1> QED BY <1>1, SelectTyped, TransitsKeeps DEF PInv, Types

(* Without one the contract follows the selected mode. *)
LEMMA ReconcileKeeps ==
    ASSUME PInv, Reconcile
    PROVE  PInv'
<1>1. /\ engine.stage = "reconcile" /\ ~EncodingChanges
      /\ wayland' = Selected
      /\ engine' = [engine EXCEPT !.contract = Select, !.characteristics = FALSE,
                                  !.stage = "swapchain"]
      /\ UNCHANGED <<outside, update, producer, source, lifecycle, dialog, recovery, dirty>>
  BY DEF Reconcile, At, KeepFailure, KeepDirt
<1>2. Select \in Modes /\ wayland' \in Waylands /\ wayland'.selected = Select
  BY <1>1, SelectTyped DEF PInv, Types
<1>3. /\ engine' \in Engines /\ engine'.stage = "swapchain" /\ engine'.alive = engine.alive
      /\ engine'.stopped = engine.stopped /\ engine'.transition = engine.transition
      /\ engine'.contract = Select
  BY <1>1, <1>2 DEF PInv, Types, Engines, Stages, Early
<1>4. /\ engine.contract \in Modes /\ gpu \in Gpus /\ gpu.layers /\ Layered(gpu)
  BY <1>1 DEF PInv, Types, Engines, Devices
<1>5. Select = "pq" <=> engine.contract = "pq"
  BY <1>1, <1>2, <1>4, EncodingOfPq DEF EncodingChanges
<1>6. gpu' = gpu \/ gpu' = Frees(gpu)
  BY DEF Reconcile
<1>7. /\ gpu' \in Gpus /\ gpu'.layers /\ Layered(gpu')
      /\ (gpu'.swap # "none" => gpu'.swap = gpu.swap)
      /\ gpu' = gpu \/ (~gpu'.compositor /\ gpu'.bound = 0)
  BY <1>4, <1>6, FreesTyped DEF Layered
<1>8. Contract'
  BY <1>2, <1>3, <1>5, <1>7 DEF PInv, Contract, Life, AfterReconcile, AfterBind
<1>9. Bindings'
  BY <1>1, <1>3, <1>7 DEF PInv, Types, Producers, Bindings, Early, AfterBind
<1>10. /\ recovery' \in Recoveries /\ producer' \in Producers /\ source' \in Sources
       /\ dirty' \in BOOLEAN /\ update' \in BOOLEAN
  BY <1>1 DEF PInv, Types
<1> QED BY <1>1, <1>2, <1>3, <1>7, <1>8, <1>9, <1>10, StageKeeps

(* The swapchain is made for the contract, or its failure is answered. *)
LEMMA CreateSwapChainKeeps ==
    ASSUME PInv, CreateSwapChain
    PROVE  PInv'
<1>1. engine.stage = "swapchain" /\ gpu.swap = "none" /\ UNCHANGED outside
  BY DEF CreateSwapChain, At
<1>2. CASE Rejects("pq")
  BY <1>1, <1>2, RejectsKeeps DEF Targets
<1>3. CASE SwapChainFails
  BY <1>1, <1>3, SwapChainFailsKeeps
<1>4. CASE /\ ~(engine.contract = "pq" /\ ~platform.pq)
           /\ gpu' = [gpu EXCEPT !.swap = Format(engine.contract), !.swapSize = window.size]
           /\ recovery' = Recovered
           /\ \E again \in {engine.again, TRUE} :
                  engine' = [engine EXCEPT !.stage = "ui", !.again = again]
           /\ KeepDirt
           /\ UNCHANGED <<update, lifecycle, dialog, producer, source, wayland>>
  <2>1. PICK again \in BOOLEAN : engine' = [engine EXCEPT !.stage = "ui", !.again = again]
    BY <1>4 DEF PInv, Types, Engines
  <2>2. /\ engine' \in Engines /\ engine'.stage = "ui" /\ engine'.alive = engine.alive
        /\ engine'.stopped = engine.stopped /\ engine'.transition = engine.transition
        /\ engine'.contract = engine.contract
    BY <2>1 DEF PInv, Types, Engines, Stages, Early
  <2>3. Format(engine.contract) \in {"sdr", "pq"}
        /\ (Format(engine.contract) = "pq" <=> engine.contract = "pq")
    BY <1>4 DEF Format
  <2>4. /\ gpu' \in Gpus /\ gpu'.swap = Format(engine.contract) /\ gpu'.layers = gpu.layers
        /\ gpu'.device = gpu.device /\ gpu'.compositor = gpu.compositor
        /\ gpu'.bound = gpu.bound /\ gpu'.live = gpu.live
    <3>1. gpu \in Gpus /\ window.size \in 0..2 /\ Format(engine.contract) \in {"none", "sdr", "pq"}
      BY <2>3 DEF PInv, Types, Windows
    <3>2. gpu' \in Gpus
      BY <1>4, <3>1 DEF Gpus
    <3> QED BY <1>4, <3>1, <3>2 DEF Gpus
  <2>5. gpu.layers /\ Layered(gpu') /\ ~engine.transition
    BY <1>1, <2>4 DEF PInv, Devices, Life, Layered
  <2>6. Contract'
    BY <1>1, <1>4, <2>2, <2>3, <2>4, <2>5 DEF PInv, Contract, AfterReconcile, AfterBind
  <2>7. Bindings'
    BY <1>1, <1>4, <2>2, <2>4 DEF PInv, Bindings, Early, AfterBind
  <2>8. recovery' \in Recoveries
    <3>1. 0 \in 0..MaxAttempts
      BY Constants
    <3> QED BY <1>4, <3>1 DEF PInv, Types, Recoveries, Recovered, NoRecovery
  <2>9. /\ producer' \in Producers /\ source' \in Sources /\ wayland' \in Waylands
        /\ dirty' \in BOOLEAN /\ update' \in BOOLEAN
    BY <1>4 DEF PInv, Types, KeepDirt
  <2> QED BY <1>1, <1>4, <2>2, <2>3, <2>4, <2>5, <2>6, <2>7, <2>8, <2>9, StageKeeps
<1> QED BY <1>2, <1>3, <1>4 DEF CreateSwapChain

(* What a resize of the swapchain leaves alone. *)
LEMMA ResizesTyped ==
    ASSUME PInv, Resizes
    PROVE  /\ gpu' \in Gpus /\ gpu'.swap = gpu.swap /\ gpu'.layers = gpu.layers
           /\ gpu'.device = gpu.device /\ gpu'.compositor = gpu.compositor
           /\ gpu'.bound = gpu.bound /\ gpu'.live = gpu.live
           /\ recovery' \in Recoveries /\ Layered(gpu')
           /\ UNCHANGED <<lifecycle, dialog, source, wayland, dirty>>
<1>1. 0 \in 0..MaxAttempts
  BY Constants
<1>2. recovery' \in Recoveries
  BY <1>1 DEF PInv, Types, Resizes, Recoveries, Recovered, NoRecovery
<1>3. /\ gpu' \in Gpus /\ gpu'.swap = gpu.swap /\ gpu'.layers = gpu.layers
      /\ gpu'.device = gpu.device /\ gpu'.compositor = gpu.compositor
      /\ gpu'.bound = gpu.bound /\ gpu'.live = gpu.live
  BY DEF PInv, Types, Resizes, Gpus, Windows
<1>4. Layered(gpu')
  BY <1>3 DEF PInv, Devices, Layered
<1> QED BY <1>2, <1>3, <1>4 DEF Resizes, KeepDirt

(* A swapchain of another size is resized, or its failure is answered. *)
LEMMA ResizeSwapChainKeeps ==
    ASSUME PInv, ResizeSwapChain
    PROVE  PInv'
<1>1. engine.stage = "swapchain" /\ gpu.swap # "none" /\ UNCHANGED outside
  BY DEF ResizeSwapChain, At
<1>2. CASE SwapChainFails
  BY <1>1, <1>2, SwapChainFailsKeeps
<1>3. CASE /\ Goes("ui") /\ UNCHANGED producer
           /\ \/ UNCHANGED <<gpu, lifecycle, dialog, recovery, dirty, source, wayland>>
              \/ Resizes
  <2>1. /\ engine' \in Engines /\ engine'.stage = "ui" /\ engine'.alive = engine.alive
        /\ engine'.stopped = engine.stopped /\ engine'.transition = engine.transition
        /\ engine'.contract = engine.contract /\ UNCHANGED update
    BY <1>3, GoesTyped DEF PInv, Types, Stages, Early
  <2>2. /\ gpu' \in Gpus /\ gpu'.swap = gpu.swap /\ gpu'.layers = gpu.layers
        /\ gpu'.compositor = gpu.compositor /\ gpu'.bound = gpu.bound /\ gpu'.live = gpu.live
        /\ recovery' \in Recoveries /\ Layered(gpu')
        /\ UNCHANGED <<lifecycle, dialog, source, wayland, dirty>>
    BY <1>3, ResizesTyped DEF PInv, Types, Devices
  <2>3. gpu.layers
    BY <1>1 DEF PInv, Devices
  <2>4. Contract'
    BY <1>1, <2>1, <2>2 DEF PInv, Contract, AfterReconcile, AfterBind
  <2>5. Bindings'
    BY <1>1, <1>3, <2>1, <2>2 DEF PInv, Bindings, Early, AfterBind
  <2>6. /\ producer' \in Producers /\ source' \in Sources /\ wayland' \in Waylands
        /\ dirty' \in BOOLEAN /\ update' \in BOOLEAN
    BY <1>3, <2>1, <2>2 DEF PInv, Types
  <2> QED BY <1>1, <2>1, <2>2, <2>3, <2>4, <2>5, <2>6, StageKeeps
<1> QED BY <1>2, <1>3 DEF ResizeSwapChain, KeepFailure, KeepDirt

(* A new Quick target is noted for the binding. *)
LEMMA RenderUiKeeps ==
    ASSUME PInv, RenderUi
    PROVE  PInv'
<1>1. engine.stage = "ui" /\ UNCHANGED outside
  BY DEF RenderUi, At
<1>2. CASE LosesDevice
  BY <1>1, <1>2, LosesDeviceKeeps
<1>3. CASE Fails("retryable", gpu, producer)
  BY <1>1, <1>3, FailsKeeps DEF PInv, Types, Devices
<1>4. CASE /\ gpu' = UiTarget /\ source' = [source EXCEPT !.uiDirty = FALSE]
           /\ engine' = [engine EXCEPT !.stage = "video", !.rebind = gpu.uiSize # gpu.swapSize]
           /\ UNCHANGED update /\ KeepFailure /\ KeepDirt /\ UNCHANGED <<producer, wayland>>
  <2>1. /\ engine' \in Engines /\ engine'.stage = "video" /\ engine'.alive = engine.alive
        /\ engine'.stopped = engine.stopped /\ engine'.transition = engine.transition
        /\ engine'.contract = engine.contract /\ engine'.rebind = (gpu.uiSize # gpu.swapSize)
    BY <1>4 DEF PInv, Types, Engines, Stages, Early
  <2>2. /\ gpu' \in Gpus /\ gpu'.swap = gpu.swap /\ gpu'.layers = gpu.layers
        /\ gpu'.device = gpu.device /\ gpu'.compositor = gpu.compositor
        /\ gpu'.bound = gpu.bound
        /\ gpu'.live = IF gpu.uiSize = gpu.swapSize THEN gpu.live ELSE gpu.live \ {"ui"}
    BY <1>4 DEF PInv, Types, Gpus, UiTarget, Dies
  <2>3. gpu.layers /\ gpu.swap # "none" /\ Layered(gpu')
    BY <1>1, <2>2 DEF PInv, Devices, Layered, AfterReconcile, AfterBind
  <2>4. Contract'
    BY <1>1, <1>4, <2>1, <2>2 DEF PInv, Contract, AfterReconcile, AfterBind
  <2>5. Bindings'
    <3>1. gpu.compositor /\ producer.current => gpu.live = Full
      BY <1>1 DEF PInv, Life, Bindings, Early
    <3>2. lifecycle = "active" /\ (producer.current => gpu.bound <= producer.revision)
      BY <1>1 DEF PInv, Life, Bindings
    <3> QED BY <1>4, <2>1, <2>2, <3>1, <3>2 DEF Bindings, Early, AfterBind, Full
  <2>6. /\ UNCHANGED <<lifecycle, dialog>> /\ recovery' \in Recoveries
        /\ producer' \in Producers /\ source' \in Sources /\ wayland' \in Waylands
        /\ dirty' \in BOOLEAN /\ update' \in BOOLEAN
    BY <1>4 DEF PInv, Types, KeepFailure, KeepDirt, Sources
  <2> QED BY <1>1, <2>1, <2>2, <2>3, <2>4, <2>5, <2>6, StageKeeps
<1> QED BY <1>2, <1>3, <1>4 DEF RenderUi

(* The producer, refreshed and its target resized. *)
LEMMA ProducersTyped ==
    ASSUME producer \in Producers, gpu \in Gpus
    PROVE  /\ Refreshed \in Producers /\ Refreshed.current
           /\ producer.current => Refreshed = producer
           /\ Refresh(gpu) \in Gpus
<1>1. [NoProducer EXCEPT !.current = TRUE] \in Producers
  BY Constants DEF Producers
<1>2. /\ Refreshed \in Producers /\ Refreshed.current
      /\ (producer.current => Refreshed = producer)
  BY <1>1 DEF Refreshed, NoProducer, Producers
<1>3. Refresh(gpu) \in Gpus
  BY DEF Refresh, Dies, Gpus
<1> QED BY <1>2, <1>3

(* A new producer or video target is noted for the binding. *)
LEMMA PrepareVideoKeeps ==
    ASSUME PInv, PrepareVideo
    PROVE  PInv'
<1>1. /\ engine.stage = "video"
      /\ UNCHANGED <<outside, update, wayland, lifecycle, dialog, recovery, dirty>>
      /\ source' = WithFrame(source)
  BY DEF PrepareVideo, At, KeepFailure, KeepDirt
<1>2. /\ engine \in Engines /\ gpu \in Gpus /\ producer \in Producers /\ source \in Sources
      /\ gpu.layers /\ gpu.swap # "none" /\ Layered(gpu)
  BY <1>1 DEF PInv, Types, Devices, AfterReconcile, AfterBind
<1>3. PICK e : e = IF Selects THEN Requested(engine) ELSE engine
  OBVIOUS
<1>4. e \in Engines /\ Same(engine, e)
  BY <1>2, <1>3, RequestedSame DEF Same
<1>5. PICK p : p = Refreshed
  OBVIOUS
<1>6. /\ p \in Producers /\ p.current /\ p.revision = Refreshed.revision
  BY <1>2, <1>5, ProducersTyped
<1>7. PICK resize \in BOOLEAN : resize = (ShowsVideo(WithFrame(source)) /\ p.size # gpu.swapSize)
  OBVIOUS
<1>8. /\ engine' = [e EXCEPT !.stage = "bind", !.rebind = @ \/ ~producer.current]
      /\ producer' = IF resize THEN Resized(p) ELSE p
      /\ gpu' = IF resize THEN Dies(Refresh(gpu), "video") ELSE Refresh(gpu)
  BY <1>3, <1>5, <1>7 DEF PrepareVideo
<1>9. /\ engine' \in Engines /\ engine'.stage = "bind" /\ engine'.alive = engine.alive
      /\ engine'.stopped = engine.stopped /\ engine'.transition = engine.transition
      /\ engine'.contract = engine.contract /\ engine'.rebind = (engine.rebind \/ ~producer.current)
  BY <1>2, <1>4, <1>8 DEF Engines, Stages, Early, Same
<1>10. /\ producer' \in Producers /\ producer'.current
       /\ producer'.revision = IF resize THEN p.revision + 1 ELSE p.revision
  <2>1. CASE resize
    <3>1. PICK n \in Nat : n = p.revision + 1
      BY <1>6 DEF Producers
    <3>2. producer' = [p EXCEPT !.size = gpu.swapSize, !.revision = n]
      BY <1>8, <2>1, <3>1 DEF Resized
    <3>3. gpu.swapSize \in 0..2
      BY <1>2 DEF Gpus
    <3>4. producer' \in Producers
      BY <1>6, <3>2, <3>3 DEF Producers
    <3> QED BY <1>6, <2>1, <3>1, <3>2, <3>4 DEF Producers
  <2>2. CASE ~resize
    BY <1>6, <1>8, <2>2
  <2> QED BY <2>1, <2>2
<1>11. /\ gpu' \in Gpus /\ gpu'.swap = gpu.swap /\ gpu'.layers = gpu.layers
       /\ gpu'.device = gpu.device /\ gpu'.compositor = gpu.compositor /\ gpu'.bound = gpu.bound
       /\ gpu'.live = IF resize \/ ~producer.current THEN gpu.live \ {"video"} ELSE gpu.live
  <2>1. /\ Refresh(gpu) \in Gpus /\ Refresh(gpu).swap = gpu.swap /\ Refresh(gpu).layers = gpu.layers
        /\ Refresh(gpu).device = gpu.device /\ Refresh(gpu).compositor = gpu.compositor
        /\ Refresh(gpu).bound = gpu.bound
        /\ Refresh(gpu).live = IF ~producer.current THEN gpu.live \ {"video"} ELSE gpu.live
    BY <1>2 DEF Refresh, Dies, Gpus
  <2>2. CASE resize
    BY <1>8, <2>1, <2>2 DEF Dies, Gpus
  <2>3. CASE ~resize
    BY <1>8, <2>1, <2>3
  <2> QED BY <2>2, <2>3
<1>12. source' \in Sources
  BY <1>1, <1>2 DEF WithFrame, Sources
<1>13. Contract'
  BY <1>1, <1>9, <1>11 DEF PInv, Contract, AfterReconcile, AfterBind
<1>14. Bindings'
  <2>1. lifecycle = "active" /\ engine.stage = "video"
    BY <1>1 DEF PInv, Life
  <2>2. CASE ~producer.current
    BY <1>9, <2>2 DEF Bindings, Early, AfterBind, MustBind
  <2>3. CASE producer.current
    <3>1. gpu.bound <= producer.revision /\ p.revision = producer.revision
      BY <1>2, <1>6, <2>1, <2>3, ProducersTyped DEF PInv, Bindings
    <3>2. gpu.compositor => /\ "video" \in gpu.live
                            /\ "ui" \notin gpu.live => engine.rebind
      BY <2>1, <2>3 DEF PInv, Bindings
    <3>3. gpu'.bound <= producer'.revision
      BY <1>2, <1>6, <1>10, <1>11, <3>1 DEF Gpus, Producers
    <3>4. gpu'.live # Full => MustBind'
      <4>1. CASE resize
        <5>1. ShowsVideo(source)' /\ BoundRevision' = producer'.revision
          BY <1>1, <1>7, <4>1 DEF BoundRevision, ShowsVideo
        <5>2. gpu'.bound # producer'.revision
          BY <1>2, <1>6, <1>10, <1>11, <3>1, <4>1 DEF Gpus, Producers
        <5> QED BY <5>1, <5>2 DEF MustBind
      <4>2. CASE ~resize
        BY <1>2, <1>9, <1>11, <2>3, <3>2, <4>2 DEF MustBind, Full, Gpus
      <4> QED BY <4>1, <4>2
    <3> QED BY <1>9, <3>3, <3>4 DEF Bindings, Early, AfterBind
  <2> QED BY <2>2, <2>3
<1>15. /\ recovery' \in Recoveries /\ wayland' \in Waylands
       /\ dirty' \in BOOLEAN /\ update' \in BOOLEAN /\ Layered(gpu')
  BY <1>1, <1>2, <1>11 DEF PInv, Types, Layered
<1> QED BY <1>1, <1>2, <1>9, <1>10, <1>11, <1>12, <1>13, <1>14, <1>15, StageKeeps

(* A failing producer stops the engine or loses its frame. *)
LEMMA VideoFailsKeeps ==
    ASSUME PInv, VideoFails
    PROVE  PInv'
<1>1. engine.stage \in {"video", "record"} /\ ShowsVideo(source) /\ UNCHANGED outside
  BY DEF VideoFails, At
<1>2. /\ engine \in Engines /\ gpu \in Gpus /\ producer \in Producers /\ source \in Sources
      /\ gpu.layers /\ Layered(gpu)
      /\ lifecycle = "active" /\ engine.alive /\ ~engine.stopped /\ ~engine.transition
      /\ dialog = NoDialog
  BY <1>1 DEF PInv, Types, Devices, Life
<1>3. /\ Refresh(gpu) \in Gpus /\ Refresh(gpu).swap = gpu.swap /\ Refresh(gpu).layers = gpu.layers
      /\ Refresh(gpu).device = gpu.device /\ Refresh(gpu).compositor = gpu.compositor
      /\ Refresh(gpu).bound = gpu.bound /\ Layered(Refresh(gpu))
  BY <1>2 DEF Refresh, Dies, Gpus, Layered
<1>4. Refreshed \in Producers
  BY <1>2, ProducersTyped
<1>5. CASE LosesDevice
  BY <1>1, <1>5, LosesDeviceKeeps
<1>6. CASE Fails("retryable", Refresh(gpu), Refreshed)
  BY <1>1, <1>3, <1>4, <1>6, FailsKeeps
<1>7. CASE /\ source.route = "player" /\ source' = Cleared
           /\ producer' = Outdated(Refreshed) /\ gpu' = Refresh(gpu)
           /\ Returns(Requested(engine)) /\ dirty' = TRUE /\ KeepFailure /\ UNCHANGED wayland
  <2>1. source.frame
    BY <1>1, <1>7 DEF ShowsVideo
  <2>2. producer' \in Producers /\ ~producer'.current
    BY <1>4, <1>7, <2>1 DEF Outdated, Clears, Producers
  <2>3. /\ engine' \in Engines /\ update' \in BOOLEAN /\ engine'.stage = "idle"
        /\ engine'.alive /\ ~engine'.stopped /\ engine'.contract = engine.contract
        /\ ~engine'.transition
    BY <1>2, <1>7, RequestedSame, ReturnsIdle DEF PInv, Types, Same
  <2>4. source' \in Sources
    BY <1>2, <1>7, ClearedTyped
  <2>5. UNCHANGED <<window, display, platform, lifecycle, dialog, recovery, wayland>>
    BY <1>1, <1>7 DEF outside, KeepFailure
  <2>6. Types'
    BY <1>3, <1>7, <2>2, <2>3, <2>4, <2>5 DEF PInv, Types
  <2>7. Life'
    BY <1>2, <2>3, <2>5 DEF Life
  <2>8. Surfaces'
    BY <1>3, <1>7, <2>5 DEF PInv, Surfaces
  <2>9. Devices'
    BY <1>2, <1>3, <1>7, <2>3, <2>5 DEF Devices, NoDialog, AfterReconcile, AfterBind
  <2>10. Contract'
    BY <1>3, <1>7, <2>3, <2>5 DEF PInv, Contract, AfterReconcile, AfterBind
  <2>11. Bindings'
    BY <2>2, <2>3 DEF Bindings, Early, AfterBind
  <2> QED BY <2>6, <2>7, <2>8, <2>9, <2>10, <2>11 DEF PInv
<1> QED BY <1>5, <1>6, <1>7 DEF VideoFails

(* The compositor binds living textures. *)
LEMMA BindTexturesKeeps ==
    ASSUME PInv, BindTextures
    PROVE  PInv'
<1>1. engine.stage = "bind" /\ UNCHANGED outside
  BY DEF BindTextures, At
<1>2. CASE LosesDevice
  BY <1>1, <1>2, LosesDeviceKeeps
<1>3. CASE Fails("retryable", gpu, producer)
  BY <1>1, <1>3, FailsKeeps DEF PInv, Types, Devices
<1>4. CASE /\ gpu' = IF MustBind THEN Bound ELSE gpu
           /\ Goes("prepare") /\ KeepFailure /\ KeepDirt /\ UNCHANGED <<producer, source, wayland>>
  <2>1. /\ engine' \in Engines /\ engine'.stage = "prepare" /\ engine'.alive = engine.alive
        /\ engine'.stopped = engine.stopped /\ engine'.transition = engine.transition
        /\ engine'.contract = engine.contract /\ engine'.rebind = engine.rebind /\ UNCHANGED update
    BY <1>4, GoesTyped DEF PInv, Types, Stages, AfterBind
  <2>2. /\ gpu \in Gpus /\ producer \in Producers /\ gpu.layers /\ gpu.swap # "none" /\ Layered(gpu)
        /\ lifecycle = "active"
    BY <1>1 DEF PInv, Types, Devices, Life, AfterReconcile
  <2>3. BoundRevision \in Nat /\ BoundRevision <= producer.revision
    BY <2>2 DEF BoundRevision, Producers
  <2>4. /\ Bound \in Gpus /\ Bound.swap = gpu.swap /\ Bound.layers = gpu.layers
        /\ Bound.device = gpu.device /\ Bound.compositor /\ Bound.bound = BoundRevision
        /\ Bound.live = Full
    BY <2>2, <2>3 DEF Bound, Gpus, Full
  <2>5. /\ gpu' \in Gpus /\ gpu'.swap = gpu.swap /\ gpu'.layers = gpu.layers
        /\ Layered(gpu')
    BY <1>4, <2>2, <2>4 DEF Layered
  <2>6. gpu'.compositor /\ gpu'.live = Full
    <3>1. ~MustBind => gpu.compositor /\ gpu.live = Full
      BY <1>1, <2>2 DEF PInv, Bindings, MustBind
    <3> QED BY <1>4, <2>4, <3>1
  <2>7. producer.current => gpu'.bound <= producer.revision
    <3>1. ~MustBind /\ producer.current => gpu.bound <= producer.revision
      BY <1>1, <2>2 DEF PInv, Bindings, MustBind
    <3> QED BY <1>4, <2>3, <2>4, <3>1
  <2>8. Contract'
    BY <1>1, <1>4, <2>1, <2>5 DEF PInv, Contract, AfterReconcile, AfterBind
  <2>9. Bindings'
    BY <1>4, <2>1, <2>6, <2>7 DEF Bindings, Early, AfterBind
  <2>10. /\ UNCHANGED <<lifecycle, dialog>> /\ recovery' \in Recoveries
         /\ producer' \in Producers /\ source' \in Sources /\ wayland' \in Waylands
         /\ dirty' \in BOOLEAN /\ update' \in BOOLEAN
    BY <1>4, <2>1 DEF PInv, Types, KeepFailure, KeepDirt
  <2> QED BY <1>1, <2>1, <2>2, <2>5, <2>8, <2>9, <2>10, StageKeeps
<1> QED BY <1>2, <1>3, <1>4 DEF BindTextures

(* What a description that is asked for or answered leaves in the context. *)
LEMMA KeyTyped ==
    ASSUME wayland \in Waylands, wayland.selected \in Targets, source \in Sources
    PROVE  Key \in Keys
<1>1. wayland.selected = "wide" => Volume = "display"
  BY DEF Volume
<1>2. Volume \in {"display", "transport"}
  BY DEF Volume
<1> QED BY <1>1, <1>2 DEF Key, Keys, Targets

(* A render that goes on after its textures are bound. *)
LEMMA LaterKeeps ==
    ASSUME PInv, engine.stage \in AfterBind,
           UNCHANGED <<outside, lifecycle, dialog, producer, source, dirty>>,
           engine' \in Engines, update' \in BOOLEAN, engine'.stage \in AfterBind,
           engine'.alive = engine.alive, engine'.stopped = engine.stopped,
           engine'.transition = engine.transition, engine'.contract = engine.contract,
           recovery' \in Recoveries, gpu' \in Gpus, wayland' \in Waylands,
           Layered(gpu'), gpu'.swap = gpu.swap, gpu'.layers = gpu.layers,
           gpu'.compositor = gpu.compositor, gpu'.bound = gpu.bound, gpu'.live = gpu.live,
           wayland'.selected = wayland.selected,
           engine'.stage # "prepare" /\ wayland'.selected \in Targets => wayland'.key = Key
    PROVE  PInv'
<1>1. /\ engine.stage # "idle" /\ engine.stage \in AfterReconcile \ {"swapchain"}
      /\ engine'.stage # "idle" /\ engine'.stage \in AfterReconcile
      /\ engine.stage \notin {"device", "bind", "video"} /\ engine.stage \notin Early
      /\ engine'.stage \notin {"bind", "video"} /\ engine'.stage \notin Early
  BY DEF AfterBind, AfterReconcile, Early
<1>2. gpu.layers /\ gpu.swap # "none"
  BY <1>1 DEF PInv, Devices, Early
<1>3. Key' = Key
  BY DEF Key, Volume
<1>4. Contract'
  BY <1>1, <1>3 DEF PInv, Contract, AfterBind
<1>5. Bindings'
  BY <1>1 DEF PInv, Bindings
<1>6. /\ producer' \in Producers /\ source' \in Sources /\ dirty' \in BOOLEAN
  BY DEF PInv, Types
<1> QED BY <1>1, <1>2, <1>4, <1>5, <1>6, StageKeeps

(* A frame goes on only under a description of its own key. *)
LEMMA DescriptionReadyKeeps ==
    ASSUME PInv, DescriptionReady
    PROVE  PInv'
<1>1. /\ engine.stage = "prepare" /\ Goes("begin")
      /\ UNCHANGED <<outside, gpu, producer, source, lifecycle, dialog, recovery, dirty>>
  BY DEF DescriptionReady, At, KeepFailure, KeepDirt
<1>2. /\ engine' \in Engines /\ engine'.stage = "begin" /\ engine'.alive = engine.alive
      /\ engine'.stopped = engine.stopped /\ engine'.transition = engine.transition
      /\ engine'.contract = engine.contract /\ UNCHANGED update
  BY <1>1, GoesTyped DEF PInv, Types, Stages, AfterBind
<1>3. /\ Forgotten \in Waylands /\ Forgotten.selected = wayland.selected
      /\ Forgotten.key = wayland.key
  BY DEF PInv, Types, Forgotten, Waylands
<1>4. /\ wayland' \in Waylands /\ wayland'.selected = wayland.selected
      /\ (wayland'.selected \in Targets => wayland'.key = Key)
  <2>1. CASE wayland.selected \notin Targets /\ wayland' = Forgotten
    BY <1>3, <2>1
  <2>2. CASE Described /\ wayland' = Forgotten
    BY <1>3, <2>2 DEF Described
  <2>3. CASE wayland.selected \in Targets /\ wayland' = [Forgotten EXCEPT !.key = Key]
    <3>1. Key \in Keys
      BY <2>3, KeyTyped DEF PInv, Types
    <3> QED BY <1>3, <2>3, <3>1 DEF Waylands
  <2> QED BY <2>1, <2>2, <2>3 DEF DescriptionReady
<1>5. recovery' \in Recoveries /\ gpu' \in Gpus /\ Layered(gpu') /\ update' \in BOOLEAN
  BY <1>1, <1>2 DEF PInv, Types, Devices
<1> QED BY <1>1, <1>2, <1>4, <1>5, LaterKeeps DEF AfterBind

(* A render that returns once its textures are bound. *)
LEMMA BoundReturns ==
    ASSUME PInv, engine.stage \in AfterBind, NEW e \in Engines, Returns(e), Same(engine, e),
           UNCHANGED <<outside, lifecycle, dialog, source>>,
           gpu' \in Gpus, Layered(gpu'), gpu'.swap = gpu.swap, gpu'.device = gpu.device,
           gpu'.compositor = gpu.compositor, gpu'.bound = gpu.bound, gpu'.live = gpu.live,
           producer' \in Producers, producer'.current = producer.current,
           producer'.revision = producer.revision,
           recovery' \in Recoveries, wayland' \in Waylands, dirty' \in BOOLEAN
    PROVE  PInv'
<1>1. /\ engine.stage # "idle" /\ engine.stage \notin {"device", "bind", "video"}
      /\ engine.stage \notin Early
  BY DEF AfterBind, Early
<1>2. /\ lifecycle = "active" /\ engine.alive /\ ~engine.stopped /\ ~engine.transition
      /\ dialog = NoDialog /\ update \in BOOLEAN
  BY <1>1 DEF PInv, Types, Life
<1>3. /\ engine' \in Engines /\ update' \in BOOLEAN /\ engine'.stage = "idle"
      /\ engine'.alive /\ ~engine'.stopped /\ engine'.contract = engine.contract
      /\ ~engine'.transition
  BY <1>2, ReturnsIdle DEF Same
<1>4. Types'
  BY <1>3 DEF PInv, Types, outside
<1>5. Life' /\ Surfaces'
  BY <1>2, <1>3 DEF PInv, Life, Surfaces, outside
<1>6. Devices'
  BY <1>2, <1>3 DEF Devices, NoDialog, AfterReconcile, AfterBind
<1>7. Contract'
  BY <1>3 DEF PInv, Contract, AfterReconcile, AfterBind
<1>8. Bindings'
  BY <1>1, <1>2, <1>3 DEF PInv, Bindings, Early, AfterBind
<1> QED BY <1>4, <1>5, <1>6, <1>7, <1>8 DEF PInv

(* A frame waits for its description and the render returns. *)
LEMMA DescriptionPendingKeeps ==
    ASSUME PInv, DescriptionPending
    PROVE  PInv'
<1>1. /\ engine.stage = "prepare" /\ wayland.selected \in Targets /\ Returns(engine)
      /\ wayland' = [wayland EXCEPT !.asked = Key, !.answer = "none"]
      /\ UNCHANGED <<outside, gpu, producer, source, lifecycle, dialog, recovery, dirty>>
  BY DEF DescriptionPending, At, KeepFailure, KeepDirt
<1>2. wayland' \in Waylands
  <2>1. Key \in Keys
    BY <1>1, KeyTyped DEF PInv, Types
  <2> QED BY <1>1, <2>1 DEF PInv, Types, Waylands
<1>3. /\ gpu' \in Gpus /\ Layered(gpu') /\ producer' \in Producers /\ recovery' \in Recoveries
      /\ dirty' \in BOOLEAN /\ engine \in Engines
  BY <1>1 DEF PInv, Types, Devices
<1>4. Same(engine, engine)
  BY DEF Same
<1> QED BY <1>1, <1>2, <1>3, <1>4, BoundReturns DEF AfterBind

(* A rejected description is not tried again on this device. *)
LEMMA DescriptionRejectedKeeps ==
    ASSUME PInv, DescriptionRejected
    PROVE  PInv'
<1>1. /\ engine.stage = "prepare" /\ wayland.selected \in Targets /\ Rejects(wayland.selected)
      /\ UNCHANGED outside
  BY DEF DescriptionRejected, At
<1> QED BY <1>1, RejectsKeeps

(* A frame begins, is tried once more, or fails. *)
LEMMA BeginFrameKeeps ==
    ASSUME PInv, BeginFrame
    PROVE  PInv'
<1>1. engine.stage = "begin" /\ UNCHANGED outside /\ engine \in Engines
  BY DEF BeginFrame, At, PInv, Types
<1>2. wayland.selected \in Targets => wayland.key = Key
  BY <1>1 DEF PInv, Contract
<1>3. CASE Goes("record") /\ KeepFailure /\ KeepDirt /\ UNCHANGED <<gpu, producer, source, wayland>>
  <2>1. /\ engine' \in Engines /\ engine'.stage = "record" /\ engine'.alive = engine.alive
        /\ engine'.stopped = engine.stopped /\ engine'.transition = engine.transition
        /\ engine'.contract = engine.contract /\ UNCHANGED update
    BY <1>1, <1>3, GoesTyped DEF Stages, AfterBind
  <2>2. /\ recovery' \in Recoveries /\ gpu' \in Gpus /\ Layered(gpu') /\ update' \in BOOLEAN
        /\ wayland' \in Waylands
    BY <1>3, <2>1 DEF PInv, Types, Devices, KeepFailure
  <2> QED BY <1>1, <1>2, <1>3, <2>1, <2>2, LaterKeeps DEF AfterBind, KeepFailure, KeepDirt
<1>4. CASE engine' = [engine EXCEPT !.retry = TRUE] /\ UNCHANGED <<update, producer>> /\ Resizes
  <2>1. /\ engine' \in Engines /\ engine'.stage = "begin" /\ engine'.alive = engine.alive
        /\ engine'.stopped = engine.stopped /\ engine'.transition = engine.transition
        /\ engine'.contract = engine.contract
    BY <1>1, <1>4 DEF Engines
  <2>2. update' \in BOOLEAN /\ wayland' \in Waylands
    BY <1>4, ResizesTyped DEF PInv, Types
  <2> QED BY <1>1, <1>2, <1>4, <2>1, <2>2, ResizesTyped, LaterKeeps DEF AfterBind
<1>5. CASE Returns(Requested(engine)) /\ Resizes /\ UNCHANGED producer
  <2>1. Requested(engine) \in Engines /\ Same(engine, Requested(engine))
    BY <1>1, RequestedSame
  <2>2. /\ producer' \in Producers
        /\ wayland' \in Waylands /\ dirty' \in BOOLEAN
    BY <1>5, ResizesTyped DEF PInv, Types
  <2> QED BY <1>1, <1>5, <2>1, <2>2, ResizesTyped, BoundReturns DEF AfterBind
<1>6. CASE SwapChainFails
  BY <1>1, <1>6, SwapChainFailsKeeps
<1>7. CASE LosesDevice
  BY <1>1, <1>7, LosesDeviceKeeps
<1>8. CASE FrameFails
  BY <1>1, <1>8, FrameFailsKeeps
<1> QED BY <1>3, <1>4, <1>5, <1>6, <1>7, <1>8 DEF BeginFrame

(* The video is drawn. *)
LEMMA RenderVideoKeeps ==
    ASSUME PInv, RenderVideo
    PROVE  PInv'
<1>1. /\ engine.stage = "record" /\ Goes("present")
      /\ UNCHANGED <<outside, gpu, producer, source, wayland, lifecycle, dialog, recovery, dirty>>
  BY DEF RenderVideo, At, KeepFailure, KeepDirt
<1>2. wayland.selected \in Targets => wayland.key = Key
  BY <1>1 DEF PInv, Contract
<1>3. /\ engine' \in Engines /\ engine'.stage = "present" /\ engine'.alive = engine.alive
      /\ engine'.stopped = engine.stopped /\ engine'.transition = engine.transition
      /\ engine'.contract = engine.contract /\ UNCHANGED update
  BY <1>1, GoesTyped DEF PInv, Types, Stages, AfterBind
<1>4. /\ recovery' \in Recoveries /\ gpu' \in Gpus /\ Layered(gpu') /\ update' \in BOOLEAN
      /\ wayland' \in Waylands
  BY <1>1, <1>3 DEF PInv, Types, Devices
<1> QED BY <1>1, <1>2, <1>3, <1>4, LaterKeeps DEF AfterBind

(* A frame is presented, or given up. *)
LEMMA PresentKeeps ==
    ASSUME PInv, Present
    PROVE  PInv'
<1>1. engine.stage = "present" /\ UNCHANGED outside /\ engine \in Engines /\ producer \in Producers
  BY DEF Present, At, PInv, Types
<1>2. Requested(engine) \in Engines /\ Same(engine, Requested(engine)) /\ Same(engine, engine)
  BY <1>1, RequestedSame DEF Same
<1>3. CASE /\ dirty' = FALSE /\ recovery' = [recovery EXCEPT !.retried = FALSE]
           /\ \E more \in {FALSE, source.route = "player" /\ source.frame} :
                  Returns(IF more THEN Requested(engine) ELSE engine)
           /\ UNCHANGED <<lifecycle, dialog, gpu, producer, source, wayland>>
  <2>1. PICK e \in {engine, Requested(engine)} : Returns(e)
    BY <1>3
  <2>2. /\ producer' \in Producers /\ producer'.current = producer.current
        /\ producer'.revision = producer.revision
    BY <1>1, <1>3
  <2>3. recovery' \in Recoveries
    BY <1>3 DEF PInv, Types, Recoveries
  <2>4. gpu' \in Gpus /\ Layered(gpu') /\ wayland' \in Waylands
    BY <1>3 DEF PInv, Types, Devices
  <2> QED BY <1>1, <1>2, <1>3, <2>1, <2>2, <2>3, <2>4, BoundReturns DEF AfterBind
<1>4. CASE Returns(Requested(engine)) /\ Resizes /\ UNCHANGED producer
  <2>1. /\ producer' \in Producers
        /\ producer' = producer /\ wayland' \in Waylands /\ dirty' \in BOOLEAN
    BY <1>4, ResizesTyped DEF PInv, Types
  <2> QED BY <1>1, <1>2, <1>4, <2>1, ResizesTyped, BoundReturns DEF AfterBind
<1>5. CASE SwapChainFails
  BY <1>1, <1>5, SwapChainFailsKeeps
<1>6. CASE LosesDevice
  BY <1>1, <1>6, LosesDeviceKeeps
<1>7. CASE FrameFails
  BY <1>1, <1>7, FrameFailsKeeps
<1> QED BY <1>3, <1>4, <1>5, <1>6, <1>7 DEF Present

-------------------------------------------------------------------------------
(* What the event loop delivers, and the user's and the desktop's events.       *)

(* An event outside the render that leaves the device and the dialog alone and  *)
(* at most outdates the video.                                                  *)
LEMMA EventKeeps ==
    ASSUME PInv, engine.stage = "idle", UNCHANGED <<gpu, lifecycle, dialog>>,
           window' \in Windows, window'.exposed => window'.surface,
           window.surface => window'.surface,
           engine' \in Engines, engine'.stage = "idle", engine'.alive = engine.alive,
           engine'.stopped = engine.stopped, engine'.contract = engine.contract,
           engine'.transition = engine.transition,
           update' \in BOOLEAN, recovery' \in Recoveries, source' \in Sources,
           wayland' \in Waylands, dirty' \in BOOLEAN, display' \in Displays,
           platform' \in [managed : BOOLEAN, pq : BOOLEAN, ready : SUBSET Targets],
           producer' \in Producers, producer'.current => producer.current,
           producer'.revision = producer.revision
    PROVE  PInv'
<1>1. Types'
  BY DEF PInv, Types
<1>2. Life'
  BY DEF PInv, Life
<1>3. Surfaces'
  BY DEF PInv, Surfaces
<1>4. Devices'
  BY DEF PInv, Devices, AfterReconcile, AfterBind
<1>5. Contract'
  BY DEF PInv, Contract, AfterReconcile, AfterBind
<1>6. Bindings'
  BY DEF PInv, Bindings, Early, AfterBind
<1> QED BY <1>1, <1>2, <1>3, <1>4, <1>5, <1>6 DEF PInv

(* What an event may leave as it is. *)
LEMMA Typing ==
    ASSUME PInv
    PROVE  /\ window \in Windows /\ update \in BOOLEAN /\ engine \in Engines
           /\ recovery \in Recoveries /\ gpu \in Gpus /\ producer \in Producers
           /\ source \in Sources /\ wayland \in Waylands /\ dirty \in BOOLEAN
           /\ display \in Displays
           /\ platform \in [managed : BOOLEAN, pq : BOOLEAN, ready : SUBSET Targets]
           /\ window.exposed => window.surface
           /\ Layered(gpu)
BY DEF PInv, Types, Surfaces, Devices

(* A render that begins on the device there is. *)
LEMMA BeginKeeps ==
    ASSUME PInv, engine.stage = "idle", Live,
           engine' \in Engines, engine'.alive = engine.alive, engine'.stopped = engine.stopped,
           engine'.contract = engine.contract, engine'.transition = engine.transition,
           engine'.stage \in {"idle", "device"},
           engine'.stage = "device" => window'.exposed /\ ~engine.transition,
           window' \in Windows, window'.exposed => window'.surface,
           window.surface => window'.surface, update' \in BOOLEAN, dirty' \in BOOLEAN,
           UNCHANGED <<gpu, lifecycle, dialog, wayland, display, platform, source, producer,
                       recovery>>
    PROVE  PInv'
<1>1. Types'
  BY DEF PInv, Types
<1>2. Life'
  BY DEF PInv, Life, Live
<1>3. Surfaces'
  BY DEF PInv, Surfaces
<1>4. Devices'
  BY DEF PInv, Devices, AfterReconcile, AfterBind
<1>5. Contract'
  BY DEF PInv, Contract, AfterReconcile, AfterBind
<1>6. Bindings'
  BY DEF PInv, Types, Producers, Bindings, Early, AfterBind
<1> QED BY <1>1, <1>2, <1>3, <1>4, <1>5, <1>6 DEF PInv

(* The queued update begins a render when the engine is live. *)
LEMMA DeliverUpdateKeeps ==
    ASSUME PInv, DeliverUpdate
    PROVE  PInv'
<1>1. /\ engine.stage = "idle" /\ update' = FALSE
      /\ engine' = (IF Live THEN Begins(engine) ELSE engine)
      /\ UNCHANGED <<window, display, platform, source, recovery, gpu, producer, wayland,
                     lifecycle, dialog, dirty>>
  BY DEF DeliverUpdate, Calm, Untouched, KeepDirt, outside
<1>2. CASE Live
  <2>1. engine' = Begins(engine)
    BY <1>1, <1>2
  <2>2. /\ engine' \in Engines /\ engine'.alive = engine.alive
        /\ engine'.stopped = engine.stopped /\ engine'.transition = engine.transition
        /\ engine'.contract = engine.contract
        /\ engine'.stage = IF window.exposed /\ ~engine.transition THEN "device" ELSE "idle"
    BY <2>1, BeginsDevice, Typing
  <2>3. /\ engine'.stage \in {"idle", "device"}
        /\ (engine'.stage = "device" => window'.exposed /\ ~engine.transition)
    BY <1>1, <2>2
  <2>4. /\ window' \in Windows /\ (window'.exposed => window'.surface)
        /\ (window.surface => window'.surface) /\ update' \in BOOLEAN /\ dirty' \in BOOLEAN
    BY <1>1, Typing
  <2> QED BY <1>1, <1>2, <2>2, <2>3, <2>4, BeginKeeps
<1>3. CASE ~Live
  BY <1>1, <1>3, Typing, EventKeeps
<1> QED BY <1>2, <1>3

(* A timer asks for a frame. *)
LEMMA TimersKeep ==
    ASSUME PInv, DeviceTimer \/ SwapChainTimer
    PROVE  PInv'
<1>1. /\ engine.stage = "idle" /\ Requests(engine)
      /\ \/ recovery' = [recovery EXCEPT !.due = FALSE]
         \/ recovery' = [recovery EXCEPT !.swapDue = FALSE]
      /\ UNCHANGED <<window, display, platform, source, gpu, producer, wayland,
                     lifecycle, dialog, dirty>>
  BY DEF DeviceTimer, SwapChainTimer, Calm, Untouched, KeepDirt, outside
<1>2. recovery' \in Recoveries
  BY <1>1, Typing DEF Recoveries
<1>3. engine' \in Engines /\ Same(engine, engine') /\ update' \in BOOLEAN
  BY <1>1, Typing, RequestsSame
<1> QED BY <1>1, <1>2, <1>3, Typing, EventKeeps DEF Same

(* The queued transition selects a mode while there is no swapchain. *)
LEMMA TransitionCallKeeps ==
    ASSUME PInv, TransitionCall
    PROVE  PInv'
<1>1. /\ engine.stage = "idle" /\ engine.alive /\ engine.transition /\ lifecycle # "quit"
      /\ UNCHANGED <<window, display, platform, source, gpu, producer,
                     lifecycle, dialog, recovery, dirty>>
  BY DEF TransitionCall, Calm, KeepDirt, outside
<1>2. gpu.swap = "none"
  BY <1>1 DEF PInv, Contract
<1>3. /\ engine' \in Engines /\ engine'.stage = "idle" /\ engine'.alive = engine.alive
      /\ engine'.stopped = engine.stopped /\ update' \in BOOLEAN /\ wayland' \in Waylands
  <2>1. CASE engine.stopped
    BY <1>1, <2>1, Typing DEF TransitionCall, Engines
  <2>2. CASE ~engine.stopped
    <3>1. Select \in Modes /\ Selected \in Waylands
      BY Typing, SelectTyped
    <3>2. PICK m \in Modes : m = IF gpu.device THEN Select ELSE engine.contract
      BY <3>1, Typing DEF Engines
    <3>3. PICK e : e = [engine EXCEPT !.transition = FALSE, !.characteristics = TRUE,
                                      !.contract = m]
      OBVIOUS
    <3>4. e \in Engines /\ e.stage = "idle" /\ e.alive = engine.alive /\ e.stopped = engine.stopped
      BY <1>1, <3>3, Typing DEF Engines
    <3>5. Requests(e) /\ wayland' = IF gpu.device THEN Selected ELSE wayland
      BY <2>2, <3>2, <3>3 DEF TransitionCall
    <3> QED BY <3>1, <3>4, <3>5, Typing, RequestsSame DEF Same
  <2> QED BY <2>1, <2>2
<1>4. Types'
  BY <1>1, <1>3 DEF PInv, Types
<1>5. Life' /\ Surfaces'
  BY <1>1, <1>3 DEF PInv, Life, Surfaces
<1>6. Devices'
  BY <1>1, <1>3 DEF PInv, Devices, AfterReconcile, AfterBind
<1>7. Contract'
  BY <1>1, <1>2, <1>3 DEF Contract, AfterReconcile, AfterBind
<1>8. Bindings'
  BY <1>1, <1>3 DEF PInv, Bindings, Early, AfterBind
<1> QED BY <1>4, <1>5, <1>6, <1>7, <1>8 DEF PInv

(* The compositor answers a description. *)
LEMMA DescriptionAnsweredKeeps ==
    ASSUME PInv, DescriptionAnswered
    PROVE  PInv'
<1>1. /\ engine.stage = "idle" /\ update' = TRUE
      /\ wayland' = [wayland EXCEPT
             !.answer = IF wayland.asked[1] \in platform.ready THEN "ready" ELSE "failed"]
      /\ UNCHANGED <<window, display, platform, engine, gpu, producer, source, lifecycle, dialog,
                     recovery, dirty>>
  BY DEF DescriptionAnswered, Calm, KeepDirt, outside
<1>2. wayland' \in Waylands
  BY <1>1, Typing DEF Waylands
<1> QED BY <1>1, <1>2, Typing, EventKeeps

(* A hidden window may lose its update. *)
LEMMA HideKeeps ==
    ASSUME PInv, Hide
    PROVE  PInv'
<1>1. /\ engine.stage = "idle" /\ window' = [window EXCEPT !.exposed = FALSE]
      /\ engine' = (IF Live THEN [engine EXCEPT !.pending = FALSE] ELSE engine)
      /\ update' \in {FALSE, update}
      /\ UNCHANGED <<display, platform, gpu, producer, source, wayland, lifecycle, dialog,
                     recovery, dirty>>
  BY DEF Hide, Calm, Untouched, KeepDirt
<1>2. /\ window' \in Windows /\ ~window'.exposed /\ window'.surface = window.surface
  BY <1>1, Typing DEF Windows
<1>3. engine' \in Engines /\ Same(engine, engine')
  BY <1>1, Typing DEF Engines, Same
<1> QED BY <1>1, <1>2, <1>3, Typing, EventKeeps DEF Same

(* An exposed window begins a render at once. *)
LEMMA ExposeKeeps ==
    ASSUME PInv, Expose
    PROVE  PInv'
<1>1. /\ engine.stage = "idle" /\ window.surface /\ window' = [window EXCEPT !.exposed = TRUE]
      /\ dirty' = TRUE
      /\ UNCHANGED <<display, platform, update, source, recovery, gpu, producer, wayland,
                     lifecycle, dialog>>
  BY DEF Expose, Calm, Untouched
<1>2. window' \in Windows /\ window'.exposed /\ window'.surface
  BY <1>1, Typing DEF Windows
<1>3. CASE Live /\ ~engine.pending
  <2>1. PICK b : b = Begins(engine)
    OBVIOUS
  <2>2. /\ b \in Engines /\ b.alive = engine.alive /\ b.stopped = engine.stopped
        /\ b.contract = engine.contract /\ b.transition = engine.transition
    BY <2>1, BeginsDevice, Typing
  <2>3. PICK stage \in {"idle", "device"} : stage = IF engine.transition THEN "idle" ELSE "device"
    OBVIOUS
  <2>4. engine' = [b EXCEPT !.stage = stage]
    BY <1>3, <2>1, <2>3 DEF Expose
  <2>5. /\ engine' \in Engines /\ engine'.alive = engine.alive
        /\ engine'.stopped = engine.stopped /\ engine'.transition = engine.transition
        /\ engine'.contract = engine.contract /\ engine'.stage = stage
    BY <2>2, <2>4 DEF Engines, Stages, Early
  <2>6. engine'.stage = "device" => window'.exposed /\ ~engine.transition
    BY <1>2, <2>3, <2>5
  <2>7. update' \in BOOLEAN /\ dirty' \in BOOLEAN
    BY <1>1, Typing
  <2> QED BY <1>1, <1>2, <1>3, <2>5, <2>6, <2>7, BeginKeeps
<1>4. CASE ~(Live /\ ~engine.pending)
  <2>1. engine' = engine
    BY <1>4 DEF Expose
  <2> QED BY <1>1, <1>2, <2>1, Typing, EventKeeps
<1> QED BY <1>3, <1>4

(* The swapchain goes with the surface, also of a stopped engine. *)
LEMMA SurfaceGoneKeeps ==
    ASSUME PInv, SurfaceGone
    PROVE  PInv'
<1>1. /\ engine.stage = "idle" /\ ~window.exposed
      /\ window' = [window EXCEPT !.surface = FALSE]
      /\ UNCHANGED <<display, platform, update, source, producer, wayland, lifecycle, dialog, dirty>>
  BY DEF SurfaceGone, Calm
<1>2. window' \in Windows /\ ~window'.exposed
  BY <1>1, Typing DEF Windows
<1>3. /\ gpu' \in Gpus /\ Layered(gpu') /\ gpu'.swap = "none" /\ gpu'.device = gpu.device
      /\ gpu' = gpu \/ (~gpu'.compositor /\ gpu'.bound = 0)
  <2>1. CASE Forward
    BY <2>1, FreesTyped, Typing DEF SurfaceGone, Layered
  <2>2. CASE ~Forward
    <3>1. ~gpu.device
      BY <2>2 DEF PInv, Devices, Forward
    <3> QED BY <2>2, <3>1, Typing DEF SurfaceGone, Layered
  <2> QED BY <2>1, <2>2
<1>4. engine' \in Engines /\ Same(engine, engine')
  BY Typing DEF SurfaceGone, Engines, Same
<1>5. recovery' \in Recoveries
  <2>1. 0 \in 0..MaxAttempts
    BY Constants
  <2> QED BY <2>1, Typing DEF SurfaceGone, Recoveries
<1>6. Types'
  BY <1>1, <1>2, <1>3, <1>4, <1>5 DEF PInv, Types
<1>7. Life' /\ Surfaces'
  BY <1>1, <1>2, <1>3, <1>4 DEF PInv, Life, Surfaces, Same
<1>8. Devices'
  BY <1>1, <1>3, <1>4 DEF PInv, Devices, AfterReconcile, AfterBind, Same
<1>9. Contract'
  BY <1>1, <1>3, <1>4 DEF Contract, AfterReconcile, AfterBind, Same
<1>10. Bindings'
  BY <1>1, <1>3, <1>4 DEF PInv, Types, Producers, Bindings, Early, AfterBind, Same
<1> QED BY <1>6, <1>7, <1>8, <1>9, <1>10 DEF PInv

(* A new surface brings no swapchain. *)
LEMMA SurfaceBackKeeps ==
    ASSUME PInv, SurfaceBack
    PROVE  PInv'
<1>1. /\ engine.stage = "idle" /\ window' = [window EXCEPT !.surface = TRUE]
      /\ UNCHANGED <<display, platform, update, source, engine, recovery, gpu, producer, wayland,
                     lifecycle, dialog, dirty>>
  BY DEF SurfaceBack, Calm, Untouched, KeepDirt
<1>2. window' \in Windows /\ window'.surface
  BY <1>1, Typing DEF Windows
<1> QED BY <1>1, <1>2, Typing, EventKeeps

(* Another size marks the scene and asks for a frame. *)
LEMMA ResizeKeeps ==
    ASSUME PInv, Resize
    PROVE  PInv'
<1>1. /\ engine.stage = "idle" /\ window' = [window EXCEPT !.size = 3 - @]
      /\ source' = (IF Live /\ gpu.layers THEN [source EXCEPT !.uiDirty = TRUE] ELSE source)
      /\ Requests(engine) \/ UNCHANGED <<engine, update>>
      /\ dirty' = TRUE
      /\ UNCHANGED <<display, platform, recovery, gpu, producer, wayland, lifecycle, dialog>>
  BY DEF Resize, Calm, Untouched
<1>2. PICK size \in 1..2 : size = 3 - window.size
  BY Typing DEF Windows
<1>3. window' = [window EXCEPT !.size = size]
  BY <1>1, <1>2
<1>4. window' \in Windows /\ window'.exposed = window.exposed /\ window'.surface = window.surface
  BY <1>3, Typing DEF Windows
<1>5. source' \in Sources
  BY <1>1, Typing DEF Sources
<1>6. engine' \in Engines /\ Same(engine, engine') /\ update' \in BOOLEAN
  BY <1>1, Typing, RequestsSame DEF Same
<1> QED BY <1>1, <1>4, <1>5, <1>6, Typing, EventKeeps DEF Same

(* Another display asks for new characteristics of the output. *)
LEMMA DisplayReportsKeeps ==
    ASSUME PInv, DisplayReports
    PROVE  PInv'
<1>1. PICK e : e = [engine EXCEPT !.characteristics = TRUE]
  OBVIOUS
<1>2. /\ engine.stage = "idle" /\ Requests(e) /\ UNCHANGED producer
      /\ display' \in Displays /\ dirty' = TRUE
      /\ UNCHANGED <<window, platform, source, recovery, gpu, wayland, lifecycle, dialog>>
  BY <1>1 DEF DisplayReports, Calm, Untouched
<1>3. /\ e \in Engines /\ e.stage = engine.stage /\ e.alive = engine.alive
      /\ e.stopped = engine.stopped /\ e.contract = engine.contract
      /\ e.transition = engine.transition
  BY <1>1, Typing DEF Engines
<1>4. engine' \in Engines /\ Same(e, engine') /\ update' \in BOOLEAN
  BY <1>2, <1>3, Typing, RequestsSame
<1> QED BY <1>2, <1>3, <1>4, Typing, EventKeeps DEF Same

(* Another output changes what the platform accepts. *)
LEMMA OutputChangesKeeps ==
    ASSUME PInv, OutputChanges
    PROVE  PInv'
<1>1. /\ engine.stage = "idle" /\ platform' = [platform EXCEPT !.pq = ~@]
      /\ UNCHANGED <<window, display, update, engine, source, recovery, gpu, producer, wayland,
                     lifecycle, dialog, dirty>>
  BY DEF OutputChanges, Calm, Untouched, KeepDirt
<1>2. platform' \in [managed : BOOLEAN, pq : BOOLEAN, ready : SUBSET Targets]
  BY <1>1, Typing
<1> QED BY <1>1, <1>2, Typing, EventKeeps

(* Another route outdates the producer, also while Quick renders. *)
LEMMA SetRouteKeeps ==
    ASSUME PInv, SetRoute
    PROVE  PInv'
<1>1. PICK route \in Routes : source' = [source EXCEPT !.route = route]
  BY DEF SetRoute
<1>2. /\ engine.stage \in {"idle", "ui"} /\ Requests(engine) /\ dirty' = TRUE
      /\ producer' = [producer EXCEPT !.current = FALSE]
      /\ UNCHANGED <<window, display, platform, gpu, wayland, lifecycle, dialog, recovery>>
  BY DEF SetRoute, Calm, At, ProducerOutdated, outside
<1>3. source' \in Sources
  BY <1>1, Typing DEF Sources
<1>4. /\ producer' \in Producers /\ ~producer'.current /\ producer'.revision = producer.revision
  BY <1>2, Typing DEF Producers
<1>5. engine' \in Engines /\ Same(engine, engine') /\ update' \in BOOLEAN
  BY <1>2, Typing, RequestsSame
<1>6. CASE engine.stage = "idle"
  BY <1>2, <1>3, <1>4, <1>5, <1>6, Typing, EventKeeps DEF Same
<1>7. CASE engine.stage = "ui"
  <2>1. gpu.layers /\ gpu.swap # "none"
    BY <1>7 DEF PInv, Devices, AfterReconcile, AfterBind
  <2>2. Contract'
    BY <1>2, <1>5, <1>7 DEF PInv, Contract, Same, AfterReconcile, AfterBind
  <2>3. Bindings'
    BY <1>2, <1>4, <1>5, <1>7 DEF Bindings, Same, Early, AfterBind
  <2>4. /\ recovery' \in Recoveries /\ gpu' \in Gpus /\ wayland' \in Waylands
        /\ Layered(gpu') /\ dirty' \in BOOLEAN
    BY <1>2, Typing
  <2> QED BY <1>2, <1>3, <1>4, <1>5, <1>7, <2>1, <2>2, <2>3, <2>4, StageKeeps DEF Same, outside
<1> QED BY <1>2, <1>6, <1>7

(* The player's source changes. *)
LEMMA PlayerUpdatesTyped ==
    ASSUME PInv, NEW s \in Sources, PlayerUpdates(s)
    PROVE  /\ source' = s /\ engine' \in Engines /\ Same(engine, engine')
           /\ update' \in BOOLEAN /\ dirty' \in BOOLEAN
BY Typing, RequestsSame DEF PlayerUpdates, Same

(* A frame arrives, the medium closes or a color setting changes. *)
LEMMA PlayerKeeps ==
    ASSUME PInv, FrameArrives \/ MediaCloses \/ SettingChanges
    PROVE  PInv'
<1>1. /\ engine.stage = "idle"
      /\ UNCHANGED <<window, display, platform, gpu, wayland, lifecycle, dialog, recovery>>
  BY DEF FrameArrives, MediaCloses, SettingChanges, Calm, outside
<1>2. PICK s \in Sources : PlayerUpdates(s)
  <2>1. [source EXCEPT !.next = TRUE] \in Sources /\ Cleared \in Sources /\ source \in Sources
    BY Typing, ClearedTyped DEF Sources
  <2> QED BY <2>1 DEF FrameArrives, MediaCloses, SettingChanges
<1>3. /\ producer' \in Producers /\ (producer'.current => producer.current)
      /\ producer'.revision = producer.revision
  <2>1. CASE producer' = producer
    BY <2>1, Typing
  <2>2. CASE producer' = Outdated(producer)
    BY <2>2, Typing DEF Outdated, Producers
  <2> QED BY <2>1, <2>2 DEF FrameArrives, MediaCloses, SettingChanges
<1> QED BY <1>1, <1>2, <1>3, PlayerUpdatesTyped, Typing, EventKeeps DEF Same

(* A scene that changes asks for a frame. *)
LEMMA SceneChangesKeeps ==
    ASSUME PInv, SceneChanges
    PROVE  PInv'
<1>1. /\ engine.stage = "idle" /\ source' = [source EXCEPT !.uiDirty = TRUE] /\ dirty' = TRUE
      /\ Requests(engine) \/ UNCHANGED <<engine, update>>
      /\ UNCHANGED <<window, display, platform, gpu, producer, wayland, lifecycle, dialog, recovery>>
  BY DEF SceneChanges, Calm, Untouched, outside
<1>2. source' \in Sources
  BY <1>1, Typing DEF Sources
<1>3. engine' \in Engines /\ Same(engine, engine') /\ update' \in BOOLEAN
  BY <1>1, Typing, RequestsSame DEF Same
<1> QED BY <1>1, <1>2, <1>3, Typing, EventKeeps DEF Same

-------------------------------------------------------------------------------
(* The error dialog.                                                            *)

(* The fresh and the missing engine are engines. *)
LEMMA NewTyped ==
    /\ NewEngine \in Engines /\ NoEngine \in Engines /\ NoRecovery \in Recoveries
    /\ NewEngine.alive /\ ~NewEngine.stopped /\ NewEngine.stage = "idle" /\ ~NewEngine.transition
    /\ NoEngine.stage = "idle" /\ ~NoEngine.transition /\ ~NoEngine.alive
<1>1. NewEngine \in Engines
  BY DEF NewEngine, Engines, Stages, Early, Modes
<1>2. NoEngine \in Engines
  BY <1>1 DEF NoEngine, Engines
<1>3. NoRecovery \in Recoveries
  <2>1. 0 \in 0..MaxAttempts
    BY Constants
  <2> QED BY <2>1 DEF NoRecovery, Recoveries
<1>4. /\ NewEngine.alive /\ ~NewEngine.stopped /\ NewEngine.stage = "idle"
      /\ ~NewEngine.transition
  BY DEF NewEngine
<1>5. NoEngine.stage = "idle" /\ ~NoEngine.transition /\ ~NoEngine.alive
  BY <1>1, <1>4 DEF NoEngine, Engines
<1> QED BY <1>1, <1>2, <1>3, <1>4, <1>5

(* The dialog changes: the engine is between two renders, and without a device  *)
(* or with one that has neither layers nor a swapchain.                         *)
LEMMA DialogKeeps ==
    ASSUME PInv, engine' \in Engines, engine'.stage \in {"idle", "device"},
           engine'.transition => gpu'.swap = "none",
           lifecycle' \in {"active", "suspended", "quit"}, dialog' \in Dialogs,
           lifecycle' = "active" => engine'.alive /\ ~engine'.stopped /\ dialog' = NoDialog,
           lifecycle' = "suspended" => dialog'.error # "none",
           engine'.stage # "idle" => lifecycle' = "active" /\ window.exposed /\ ~engine'.transition,
           gpu' \in Gpus, gpu'.swap = "none", ~gpu'.layers, ~gpu'.compositor, gpu'.bound = 0,
           ~engine'.alive \/ dialog'.open => ~gpu'.device,
           producer' \in Producers,
           recovery' \in Recoveries, source' \in Sources, wayland' \in Waylands,
           dirty' \in BOOLEAN, update' \in BOOLEAN, UNCHANGED outside
    PROVE  PInv'
<1>1. Types'
  BY DEF PInv, Types, outside
<1>2. Life'
  BY DEF Life, outside
<1>3. Surfaces'
  BY DEF PInv, Surfaces, outside
<1>4. Devices'
  BY DEF Devices, Layered, AfterReconcile, AfterBind
<1>5. Contract'
  BY DEF Contract, AfterReconcile, AfterBind
<1>6. Bindings'
  BY DEF Bindings, Producers, Early, AfterBind
<1> QED BY <1>1, <1>2, <1>3, <1>4, <1>5, <1>6 DEF PInv

(* The dialog opens on the turn after the error, without the engine. *)
LEMMA DialogOpensKeeps ==
    ASSUME PInv, DialogOpens
    PROVE  PInv'
<1>1. /\ lifecycle # "quit" /\ dialog.error # "none" /\ engine' = NoEngine
      /\ recovery' = NoRecovery /\ gpu' = NoDevice /\ producer' = NoProducer
      /\ dialog' = [dialog EXCEPT !.open = TRUE]
      /\ UNCHANGED outside /\ UNCHANGED <<update, source, wayland, lifecycle, dirty>>
  BY DEF DialogOpens, Calm, KeepDirt
<1>2. lifecycle = "suspended" /\ dialog \in Dialogs
  BY <1>1 DEF PInv, Types, Life, NoDialog
<1>3. dialog' \in Dialogs /\ dialog'.error # "none"
  BY <1>1, <1>2 DEF Dialogs
<1>4. /\ gpu' \in Gpus /\ gpu'.swap = "none" /\ ~gpu'.layers /\ ~gpu'.compositor
      /\ gpu'.bound = 0 /\ ~gpu'.device
      /\ producer' \in Producers
  BY <1>1, Constants
<1>5. /\ engine' \in Engines /\ engine'.stage = "idle" /\ ~engine'.transition
      /\ recovery' \in Recoveries
  BY <1>1, NewTyped
<1>6. /\ source' \in Sources /\ wayland' \in Waylands /\ dirty' \in BOOLEAN
      /\ update' \in BOOLEAN /\ lifecycle' = "suspended"
  BY <1>1, <1>2, Typing
<1> QED BY <1>1, <1>3, <1>4, <1>5, <1>6, DialogKeeps

(* While the dialog is open there is no device. *)
LEMMA OpenIsBare ==
    ASSUME PInv, dialog.open, lifecycle # "quit"
    PROVE  /\ lifecycle = "suspended" /\ dialog \in Dialogs /\ dialog.error # "none"
           /\ ~gpu.device /\ ~gpu.layers /\ gpu.swap = "none" /\ ~gpu.compositor /\ gpu.bound = 0
<1>1. lifecycle = "suspended" /\ dialog \in Dialogs /\ dialog.error # "none"
  BY DEF PInv, Types, Life, NoDialog
<1>2. /\ ~gpu.device /\ ~gpu.layers /\ gpu.swap = "none" /\ ~gpu.compositor /\ gpu.bound = 0
  BY DEF PInv, Devices, Layered
<1> QED BY <1>1, <1>2

(* A retry starts afresh, or reports that it could not. *)
LEMMA RetryKeeps ==
    ASSUME PInv, Retry
    PROVE  PInv'
<1>1. /\ engine.stage = "idle" /\ lifecycle # "quit" /\ dialog.open
      /\ UNCHANGED outside /\ UNCHANGED <<update, producer, source, recovery>>
  BY DEF Retry, Calm
<1>2. /\ producer' \in Producers
      /\ recovery' \in Recoveries /\ source' \in Sources /\ update' \in BOOLEAN
  BY <1>1, Typing
<1>3. CASE lifecycle' = "active" /\ dialog' = NoDialog /\ gpu' = NewDevice
           /\ engine' = (IF window.exposed THEN Begins(NewEngine) ELSE NewEngine)
           /\ wayland' = [wayland EXCEPT !.rejected = {}] /\ dirty' = TRUE
  <2>1. /\ engine' \in Engines /\ engine'.alive /\ ~engine'.stopped /\ ~engine'.transition
        /\ engine'.stage \in {"idle", "device"} /\ (engine'.stage # "idle" => window.exposed)
    <3>1. CASE window.exposed
      BY <1>3, <3>1, NewTyped, BeginsDevice
    <3>2. CASE ~window.exposed
      BY <1>3, <3>2, NewTyped
    <3> QED BY <3>1, <3>2
  <2>2. dialog' \in Dialogs /\ ~dialog'.open
    BY <1>3 DEF NoDialog, Dialogs
  <2>3. /\ gpu' \in Gpus /\ gpu'.swap = "none" /\ ~gpu'.layers /\ ~gpu'.compositor
        /\ gpu'.bound = 0
    BY <1>3, Constants
  <2>4. wayland' \in Waylands
    BY <1>3, Typing DEF Waylands
  <2> QED BY <1>1, <1>2, <1>3, <2>1, <2>2, <2>3, <2>4, DialogKeeps
<1>4. CASE dialog' = FailedStart /\ engine' = [NewEngine EXCEPT !.stopped = TRUE]
           /\ UNCHANGED <<lifecycle, gpu, wayland, dirty>>
  <2>1. dialog' \in Dialogs /\ dialog'.error # "none" /\ ~dialog'.open
    BY <1>4 DEF FailedStart, Dialogs
  <2>2. /\ engine' \in Engines /\ engine'.alive /\ ~engine'.transition /\ engine'.stage = "idle"
    BY <1>4, NewTyped DEF Engines
  <2>3. /\ lifecycle' = "suspended" /\ gpu' \in Gpus /\ gpu'.swap = "none" /\ ~gpu'.layers
        /\ ~gpu'.compositor /\ gpu'.bound = 0 /\ wayland' \in Waylands /\ dirty' \in BOOLEAN
    BY <1>1, <1>4, OpenIsBare, Typing
  <2> QED BY <1>1, <1>2, <2>1, <2>2, <2>3, DialogKeeps
<1> QED BY <1>3, <1>4 DEF Retry

(* The user restarts the program, or quits it. *)
LEMMA LeavesKeep ==
    ASSUME PInv, Restart \/ Quit
    PROVE  PInv'
<1>1. /\ engine.stage = "idle" /\ lifecycle # "quit" /\ dialog.open
      /\ UNCHANGED outside
      /\ UNCHANGED <<update, engine, recovery, gpu, producer, source, wayland, dirty>>
  BY DEF Restart, Quit, Calm, KeepDirt
<1>2. \/ lifecycle' = "quit" /\ dialog' = dialog
      \/ dialog' = [dialog EXCEPT !.error = "failed"] /\ lifecycle' = lifecycle
  BY DEF Restart, Quit
<1>3. /\ lifecycle' \in {"suspended", "quit"} /\ dialog' \in Dialogs /\ dialog'.error # "none"
  BY <1>1, <1>2, OpenIsBare DEF Dialogs
<1>4. /\ engine' \in Engines /\ engine'.stage = "idle" /\ update' \in BOOLEAN
      /\ recovery' \in Recoveries /\ gpu' \in Gpus /\ producer' \in Producers
      /\ source' \in Sources /\ wayland' \in Waylands /\ dirty' \in BOOLEAN
  BY <1>1, Typing
<1>5. /\ ~gpu'.device /\ ~gpu'.layers /\ gpu'.swap = "none" /\ ~gpu'.compositor
      /\ gpu'.bound = 0
  BY <1>1, OpenIsBare
<1> QED BY <1>1, <1>3, <1>4, <1>5, DialogKeeps

-------------------------------------------------------------------------------
(* The theorems.                                                                *)

(* The program starts in the invariant, before its window is exposed. *)
LEMMA InitInv == Init => PInv
<1> SUFFICES ASSUME Init PROVE PInv
  OBVIOUS
<1>1. /\ window \in Windows /\ window.surface /\ ~window.exposed
      /\ engine \in Engines /\ engine.alive /\ ~engine.stopped /\ engine.stage = "idle"
      /\ ~engine.transition
      /\ recovery \in Recoveries
      /\ source \in Sources
      /\ wayland \in Waylands
  <2>1. window \in Windows /\ window.surface /\ ~window.exposed
    BY DEF Init, Windows
  <2>2. source \in Sources
    BY DEF Init, Sources, Routes
  <2>3. wayland \in Waylands
    <3>1. {} \in SUBSET Targets
      OBVIOUS
    <3> QED BY <3>1 DEF Init, Waylands, Modes
  <2> QED BY <2>1, <2>2, <2>3, NewTyped DEF Init
<1>2. /\ gpu \in Gpus /\ gpu.swap = "none" /\ gpu.device /\ ~gpu.layers
      /\ ~gpu.compositor /\ gpu.bound = 0
      /\ producer \in Producers /\ producer = NoProducer
  BY Constants DEF Init
<1>3. dialog \in Dialogs /\ dialog = NoDialog /\ ~dialog.open
  BY DEF Init, NoDialog, Dialogs
<1>4. platform \in [managed : BOOLEAN, pq : BOOLEAN, ready : SUBSET Targets]
  BY PresentationAssumption DEF Init
<1>5. /\ update \in BOOLEAN /\ lifecycle = "active" /\ display \in Displays
      /\ dirty \in BOOLEAN
  BY DEF Init, Displays
<1>6. Types
  BY <1>1, <1>2, <1>3, <1>4, <1>5 DEF Types
<1>7. Life /\ Surfaces
  BY <1>1, <1>2, <1>3, <1>5 DEF Life, Surfaces
<1>8. Devices
  BY <1>1, <1>2, <1>3 DEF Devices, Layered, AfterReconcile, AfterBind
<1>9. Contract
  BY <1>1, <1>2 DEF Contract, AfterReconcile, AfterBind
<1>10. Bindings
  BY <1>1, <1>2 DEF Bindings, NoProducer, Early, AfterBind
<1> QED BY <1>6, <1>7, <1>8, <1>9, <1>10 DEF PInv

(* A render keeps the invariant at every stage, and where it fails. *)
LEMMA RendersKeep == ASSUME PInv, Renders PROVE PInv'
BY InitializeDeviceKeeps, InitializeLayersKeeps, KeepLayersKeeps, TransitionKeeps, ReconcileKeeps,
   CreateSwapChainKeeps, ResizeSwapChainKeeps, RenderUiKeeps, PrepareVideoKeeps, VideoFailsKeeps,
   BindTexturesKeeps, DescriptionReadyKeeps, DescriptionPendingKeeps, DescriptionRejectedKeeps,
   BeginFrameKeeps, RenderVideoKeeps, PresentKeeps DEF Renders

(* What the event loop delivers keeps the invariant. *)
LEMMA DeliveriesKeep == ASSUME PInv, Deliveries PROVE PInv'
BY DeliverUpdateKeeps, TimersKeep, TransitionCallKeeps, DescriptionAnsweredKeeps,
   SurfaceBackKeeps, DialogOpensKeeps DEF Deliveries

(* The user, the desktop and the media keep the invariant. *)
LEMMA EventsKeep == ASSUME PInv, Events PROVE PInv'
BY HideKeeps, ExposeKeeps, SurfaceGoneKeeps, ResizeKeeps, DisplayReportsKeeps, OutputChangesKeeps,
   SetRouteKeeps, PlayerKeeps, SceneChangesKeeps, RetryKeeps, LeavesKeep DEF Events

(* Every step keeps the invariant. *)
LEMMA NextKeeps == PInv /\ [Next]_vars => PInv'
<1> SUFFICES ASSUME PInv, [Next]_vars PROVE PInv'
  OBVIOUS
<1>1. CASE Renders
  BY <1>1, RendersKeep
<1>2. CASE Deliveries
  BY <1>2, DeliveriesKeep
<1>3. CASE Events
  BY <1>3, EventsKeep
<1>4. CASE UNCHANGED vars
  <2>1. /\ UNCHANGED <<window, update, lifecycle, dialog, engine, recovery, gpu>>
        /\ UNCHANGED <<producer, source, display, platform, wayland, dirty>>
    BY <1>4 DEF vars
  <2>2. Types'
    BY <2>1 DEF PInv, Types
  <2>3. Life' /\ Surfaces'
    BY <2>1 DEF PInv, Life, Surfaces
  <2>4. Devices'
    BY <2>1 DEF PInv, Devices, Layered
  <2>5. Contract'
    BY <2>1 DEF PInv, Contract, Key, Volume
  <2>6. Bindings'
    BY <2>1 DEF PInv, Bindings, MustBind, BoundRevision, ShowsVideo
  <2> QED BY <2>2, <2>3, <2>4, <2>5, <2>6 DEF PInv
<1> QED BY <1>1, <1>2, <1>3, <1>4 DEF Next

(* The presentation half of the main thread keeps its invariant: what is bound, *)
(* declared and shown fits together at every stage of every render, whatever    *)
(* failed before (RhiPresentationEngine, PresentationWindow,                    *)
(* LinuxWaylandWindowContext).                                                  *)
THEOREM PresentationInvariance == Spec => []PInv
BY InitInv, NextKeeps, PTL DEF Spec

(* The counters of the recoveries stay within MaxAttempts and every part of the *)
(* state keeps its type.                                                        *)
THEOREM TypeCorrect == Spec => []TypeOK
<1>1. PInv => TypeOK
  BY DEF PInv, Types, TypeOK, Windows, Dialogs, Engines, Recoveries, Gpus, Waylands, Full
<1> QED BY <1>1, PresentationInvariance, PTL

(* At the end of a render the compositor has been told what the pixels are. *)
LEMMA PresentsDeclared ==
    ASSUME PInv, At("present")
    PROVE  PixelsMatchDeclaration
<1>1. /\ wayland.selected = engine.contract /\ wayland.selected \in Modes
      /\ (wayland.selected \in Targets => wayland.key = Key)
      /\ gpu.swap # "none" /\ (gpu.swap = "pq" <=> engine.contract = "pq")
  BY DEF PInv, Types, Waylands, Contract, Devices, At, AfterReconcile, AfterBind
<1>2. Composited.pixels = Encoding[engine.contract] /\ Composited.buffer = gpu.swap
      /\ Composited.volume = Volume
  BY DEF Composited, OutputEncoding
<1>3. Composited.declared = <<Encoding[wayland.selected], Volume>>
  <2>1. CASE wayland.selected = "unmanaged"
    <3>1. Volume = "display" /\ Encoding[wayland.selected] = "srgb"
      BY <1>1, <2>1 DEF Volume, Encoding
    <3> QED BY <2>1, <3>1 DEF Composited, Targets
  <2>2. CASE wayland.selected = "gamma22"
    <3>1. Volume = "display" /\ Encoding[wayland.selected] = "gamma22"
      BY <1>1, <2>2 DEF Volume, Encoding
    <3> QED BY <2>2, <3>1 DEF Composited, Targets
  <2>3. CASE wayland.selected \in Targets
    <3>1. wayland.key[1] = wayland.selected /\ wayland.key[2] = Volume
      BY <1>1, <2>3 DEF Key
    <3> QED BY <2>3, <3>1 DEF Composited, Targets
  <2> QED BY <1>1, <2>1, <2>2, <2>3 DEF Modes
<1> QED BY <1>1, <1>2, <1>3, EncodingOfPq DEF PixelsMatchDeclaration

(* Every frame that is presented is declared as its pixels are encoded, and     *)
(* composes living textures and the newest video (renderFrame), for any number  *)
(* of failures, rejected descriptions and changes of the display.               *)
THEOREM FramesStayFaithful == Spec => []FrameIsFaithful
<1>1. PInv => TypeOK
  BY DEF PInv, Types, TypeOK, Windows, Dialogs, Engines, Recoveries, Gpus, Waylands, Full
<1>2. PInv /\ At("present") => CompositesLiveTextures
  <2> SUFFICES ASSUME PInv, At("present") PROVE CompositesLiveTextures
    OBVIOUS
  <2>1. lifecycle = "active"
    BY DEF PInv, Life, At
  <2>2. gpu.live = Full
    BY <2>1 DEF PInv, Bindings, At, AfterBind
  <2> QED BY <2>2 DEF PInv, Full, CompositesLiveTextures
<1>3. PInv => FrameIsFaithful
  BY <1>1, <1>2, PresentsDeclared DEF FrameIsFaithful
<1> QED BY <1>3, PresentationInvariance, PTL

(* The swapchain goes before the native surface does, also in the turn between  *)
(* an error and the destruction of the engine (PresentationWindow::event).      *)
THEOREM SwapchainAlwaysDiesWithSurface == Spec => []SwapchainDiesWithSurface
<1>1. PInv => SwapchainDiesWithSurface
  BY DEF PInv, Surfaces, SwapchainDiesWithSurface
<1> QED BY <1>1, PresentationInvariance, PTL

(* Whatever fails and is retried, an engine that stopped leaves an error for    *)
(* the user (fail, handlePresentationError, retryPresentation).                 *)
THEOREM FailureAlwaysReachesTheUser == Spec => []FailureReachesTheUser
<1>1. PInv => FailureReachesTheUser
  BY DEF PInv, Types, Life, Live, FailureReachesTheUser
<1> QED BY <1>1, PresentationInvariance, PTL

===============================================================================
