----------------------------- MODULE VideoSources -----------------------------
(* ActiveVideoSource stands between the engine and two delegates, the player's      *)
(* DecodedVideoSource and the lab's DiagnosticVideoSource.  Each counts its own     *)
(* revisions of content and of producer configuration; the active one counts others *)
(* for both, and the engine compares only those, to decide whether the producer is  *)
(* made anew and whether the texture is drawn again.  Delegates change unobserved   *)
(* while their route is inactive.  All of it is one thread; a render is one call.   *)
EXTENDS Integers

CONSTANT MaxChanges     \* bound: changes of sources and routes in one behaviour

SourcesAssumption == MaxChanges \in Nat

Routes == {"player", "lab"}

VARIABLES
    delegates,   \* route -> [frame, look, moving, medium, content, configuration]; frame 0 is no frame
    routed,      \* ActiveVideoSource: [route, seen, seenConfiguration, content, configuration]
    picture,     \* the engine's producer: [route, configuration, completed, shows, mapped]
    changes

vars == <<delegates, routed, picture, changes>>

NoPicture == [route |-> "player", configuration |-> 0, completed |-> 0, shows |-> <<>>, mapped |-> 0]

Init ==
    /\ delegates = [r \in Routes |-> [frame |-> IF r = "lab" THEN 1 ELSE 0, look |-> 0, moving |-> "no",
                                      medium |-> 1, content |-> 1, configuration |-> 1]]
    /\ routed = [route |-> "player", seen |-> 1, seenConfiguration |-> 1, content |-> 1, configuration |-> 1]
    /\ picture = NoPicture
    /\ changes = 0

Change == changes < MaxChanges /\ changes' = changes + 1

-------------------------------------------------------------------------------
(* The delegates: what their setters make of delegate d.                            *)

Advanced(d) == [d EXCEPT !.content = @ + 1]

(* DecodedVideoSource::setFrame and the step of the animated pattern.               *)
NextFrame(d) == Advanced([d EXCEPT !.frame = IF @ = 1 THEN 2 ELSE 1])

(* A setting of the picture, of either delegate: one that is set back too.          *)
Restyled(d) == Advanced([d EXCEPT !.look = 1 - @])

(* DecodedVideoSource::clearFrame, of a frame: a producer may keep it mapped.       *)
BugClearedKeepsProducer(d) == Advanced([d EXCEPT !.frame = 0, !.medium = @ + 1])
Cleared(d) == Advanced([d EXCEPT !.frame = 0, !.medium = @ + 1, !.configuration = @ + 1])

(* DiagnosticVideoSource::setUseLibplacebo.                                         *)
Reconfigured(d) == [d EXCEPT !.configuration = @ + 1]

(* DiagnosticVideoSource::setAnimatePattern.                                        *)
Animated(d) == Advanced([d EXCEPT !.moving = IF @ = "no" THEN "first" ELSE "no"])

-------------------------------------------------------------------------------
(* The active source.                                                               *)

(* synchronizeDelegateRevisions.                                                    *)
Synchronized(a, d) ==
    [a EXCEPT !.seen = d.content, !.seenConfiguration = d.configuration,
              !.content = IF d.content = a.seen THEN @ ELSE @ + 1,
              !.configuration = IF d.configuration = a.seenConfiguration THEN @ ELSE @ + 1]

(* ActiveVideoSource::prepareForPresentation, of a delegate that has become d.       *)
BugWaitsForUpdates(a, d) == a
Presented(a, d) == Synchronized(a, d)

(* setRoute, on to delegate d.                                                      *)
Switched(a, route, d) ==
    [a EXCEPT !.route = route, !.seen = d.content, !.seenConfiguration = d.configuration,
              !.content = @ + 1, !.configuration = @ + 1]

SetRoute ==
    /\ Change
    /\ \E route \in Routes \ {routed.route} : routed' = Switched(routed, route, delegates[route])
    /\ UNCHANGED <<delegates, picture>>

(* A delegate becomes d and emits updateRequested: handleDelegateUpdate.            *)
Becomes(route, d) ==
    /\ delegates' = [delegates EXCEPT ![route] = d]
    /\ routed' = IF route = routed.route THEN Synchronized(routed, d) ELSE routed

Update ==
    /\ Change /\ UNCHANGED picture
    /\ \/ Becomes("player", NextFrame(delegates["player"]))
       \/ \E route \in Routes : Becomes(route, Restyled(delegates[route]))
       \/ delegates["player"].frame # 0 /\ Becomes("player", Cleared(delegates["player"]))
       \/ Becomes("lab", Reconfigured(delegates["lab"]))
       \/ Becomes("lab", Animated(delegates["lab"]))

-------------------------------------------------------------------------------
(* A render of the engine.                                                          *)

(* prepareForPresentation of delegate d: the selector may have a frame due; a moving *)
(* pattern steps from its second time on, and tells nobody.                         *)
Prepared(route, d) ==
    CASE route = "player" -> {d, NextFrame(d)}
      [] d.moving = "no" -> {d}
      [] d.moving = "first" -> {[d EXCEPT !.moving = "on"]}
      [] d.moving = "on" -> {NextFrame(d)}

(* refreshVideoProducer: a new one belongs to the route's delegate.                 *)
Refreshed(a) ==
    IF picture.configuration = a.configuration THEN picture
    ELSE [NoPicture EXCEPT !.route = a.route, !.configuration = a.configuration]

Looks(d, route) == <<route, d.frame, d.look>>

(* render, when needsRender: the producer reads the delegate it was made for, and   *)
(* the decoded one keeps the frame it has mapped.                                   *)
Drawn(p, ds) ==
    [p EXCEPT !.shows = Looks(ds[p.route], p.route),
              !.mapped = IF p.route = "player" THEN ds["player"].medium ELSE 0]

(* Only a visible viewport prepares its source and asks for a surface.  The render  *)
(* is given up before the frame or its submission fails after it was recorded       *)
(* (discardPendingRender), or the frame is presented (commitPendingRender).         *)
Render ==
    LET route == routed.route IN
    \E visible \in BOOLEAN :
    \E d \in IF visible THEN Prepared(route, delegates[route]) ELSE {delegates[route]} :
        LET ds == [delegates EXCEPT ![route] = d]
            told == IF route = "player" THEN Synchronized(routed, d) ELSE routed   \* setFrame emits
            a == IF visible THEN Presented(told, d) ELSE routed
            p == Refreshed(a)
            needs == visible /\ d.frame # 0 /\ p.completed # a.content
        IN /\ IF d = delegates[route] THEN UNCHANGED changes ELSE Change
           /\ delegates' = ds /\ routed' = a
           /\ picture' \in IF ~needs THEN {p}
                           ELSE {p, Drawn(p, ds), [Drawn(p, ds) EXCEPT !.completed = a.content]}

(* handleDeviceLoss: the session drops its frame, the engine its producer.          *)
LoseDevice ==
    /\ Change /\ picture # NoPicture
    /\ picture' = NoPicture
    /\ LET d == delegates["player"] IN Becomes("player", IF d.frame = 0 THEN d ELSE Cleared(d))

Next == SetRoute \/ Update \/ Render \/ LoseDevice

-------------------------------------------------------------------------------
TypeOK ==
    /\ routed.route \in Routes /\ picture.route \in Routes
    /\ \A r \in Routes : /\ delegates[r].frame \in 0..2 /\ delegates[r].look \in 0..1
                         /\ delegates[r].moving \in {"no", "first", "on"}
    /\ \A r \in Routes : delegates[r].frame = 0 => r = "player"

(* What the next render compares its producer and its texture with. *)
Asked == Presented(routed, delegates[routed.route])

(* A texture the engine would not draw again shows what the active delegate has now,  *)
(* and a producer it would not replace was made for that delegate and keeps no frame  *)
(* of a medium that was closed: over changes of inactive delegates, changes that tell *)
(* nobody, values set back, changes of route between renders and abandoned renders    *)
(* (ActiveVideoSource::synchronizeDelegateRevisions,                                  *)
(* RhiPresentationEngine::renderFrame).                                               *)
PictureIsNewest ==
    LET d == delegates[routed.route] IN
    /\ TypeOK
    /\ picture.configuration = Asked.configuration =>
           /\ picture.route = routed.route
           /\ routed.route = "player" => picture.mapped \in {0, d.medium}
           /\ picture.completed = Asked.content /\ d.frame # 0 => picture.shows = Looks(d, routed.route)
===============================================================================
