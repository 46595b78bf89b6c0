------------------------------ MODULE MediaControls ------------------------------
(* LinuxNativeMediaControls: the session on the desktop's media controls (MPRIS).  *)
(* Every signal of the session publishes what changed; a session bus that is not    *)
(* there is tried again when the session changes.  The desktop's calls arrive after *)
(* the session may have moved on, and between two reports it counts the time of a   *)
(* playing medium itself.  The session is reduced to what is published and to what  *)
(* the calls may do; MediaSession has the rest.                                     *)
EXTENDS Integers, Sequences

CONSTANTS
    Duration,   \* of every medium
    Offsets,    \* of a relative Seek
    MaxItems,   \* bound: media opened
    MaxCalls,   \* bound: calls of the desktop
    MaxLosses,  \* bound: losses of the bus
    MaxTicks    \* bound: how far the desktop may count

ControlsAssumption ==
    /\ Duration \in Nat \ {0} /\ Offsets \subseteq Int
    /\ MaxItems \in Nat /\ MaxCalls \in Nat /\ MaxLosses \in Nat /\ MaxTicks \in Nat

VARIABLES
    session,   \* MediaSession's public state
    controls,  \* registered, what it published last, whether the clock advanced then
    bus,       \* the session bus: running, the connection intact, losses left
    desktop,   \* what the desktop believes, the time it has counted included
    calls      \* its calls on the way, calls left, and the items a SetPosition met

vars == <<session, controls, bus, desktop, calls>>

NoItem == 0
Absent == [present |-> FALSE]

-------------------------------------------------------------------------------
(* hasItem, canPlayPause, properties.                                              *)
HasItem(s) == s.item # NoItem /\ s.state \notin {"Error", "Empty"}
PlayRequested(s) == s.intent = "Playing" /\ ~s.ended
CanPlayPause(s) == HasItem(s) /\ (s.state = "Ready" \/ s.seeking)
Seekable(s) == s.state = "Ready" \/ s.seeking
PositionOf(s) == IF HasItem(s) THEN s.position ELSE 0

Properties(s) ==
    [status |-> IF ~HasItem(s) \/ s.intent = "Stopped" \/ s.ended THEN "Stopped"
                ELSE IF PlayRequested(s) THEN "Playing" ELSE "Paused",
     track |-> IF HasItem(s) THEN s.item ELSE NoItem,
     canPlay |-> CanPlayPause(s), canSeek |-> Seekable(s),
     volume |-> IF s.muted THEN 0 ELSE s.volume]

NothingPublished == [p \in DOMAIN Properties(session) |-> "none"]

Init ==
    /\ session = [item |-> NoItem, state |-> "Empty", intent |-> "Playing", seeking |-> FALSE,
                  ended |-> FALSE, advancing |-> FALSE, position |-> 0, volume |-> 1, muted |-> FALSE]
    /\ controls = [registered |-> FALSE, published |-> NothingPublished, advancing |-> FALSE]
    /\ bus = [running |-> TRUE, connected |-> FALSE, losses |-> MaxLosses]
    /\ desktop = Absent
    /\ calls = [sent |-> <<>>, left |-> MaxCalls, met |-> <<NoItem, NoItem>>]

-------------------------------------------------------------------------------
(* publish.  The desktop reads everything of a service that appears and keeps what  *)
(* PropertiesChanged does not name.                                                 *)

Told(s, registers) ==
    IF registers THEN [present |-> TRUE, properties |-> Properties(s), position |-> PositionOf(s)]
    ELSE [desktop EXCEPT !.properties =
             [p \in DOMAIN Properties(s) |->
                 IF controls.published[p] # Properties(s)[p] THEN Properties(s)[p] ELSE @[p]]]

(* A hold or a resume corrects the position the desktop has counted meanwhile.      *)
Resumed(s) ==
    (HasItem(s) /\ s.advancing) # controls.advancing /\ HasItem(s) /\ PlayRequested(s)

(* Registration may be refused; a connection that broke is made anew, only on a      *)
(* change of the session.  A jump is announced after the properties.                 *)
Emit(s, retry, jump) ==
    \E refused \in IF retry /\ ~bus.connected /\ bus.running THEN BOOLEAN ELSE {FALSE} :
       LET connected == bus.connected \/ (retry /\ bus.running /\ ~refused)
           registers == connected /\ ~bus.connected
           publishes == connected /\ (controls.registered \/ registers)
           told == Told(s, registers)
       IN /\ session' = s
          /\ bus' = [bus EXCEPT !.connected = connected]
          /\ IF publishes
             THEN /\ desktop' = IF (jump \/ Resumed(s)) /\ HasItem(s)
                                THEN [told EXCEPT !.position = PositionOf(s)] ELSE told
                  /\ controls' = [registered |-> TRUE, published |-> Properties(s),
                                  advancing |-> HasItem(s) /\ s.advancing]
             ELSE /\ UNCHANGED desktop
                  /\ controls' = IF retry THEN [controls EXCEPT !.registered = FALSE] ELSE controls

(* The bus goes and returns; the connection does not return with it.                 *)
LoseBus ==
    /\ bus.running /\ bus.losses > 0
    /\ bus' = [running |-> FALSE, connected |-> FALSE, losses |-> bus.losses - 1]
    /\ desktop' = Absent /\ calls' = [calls EXCEPT !.sent = <<>>]
    /\ UNCHANGED <<session, controls>>

BusReturns ==
    /\ ~bus.running /\ bus' = [bus EXCEPT !.running = TRUE]
    /\ UNCHANGED <<session, controls, desktop, calls>>

-------------------------------------------------------------------------------
(* The session on its own.                                                          *)

Open ==
    /\ session.item < MaxItems
    /\ \E start \in {0, 1} :
          Emit([session EXCEPT !.item = @ + 1, !.state = "Opening", !.intent = "Playing", !.ended = FALSE,
                               !.seeking = start > 0, !.advancing = FALSE, !.position = start], TRUE, FALSE)
    /\ UNCHANGED calls

BecomesReady ==
    /\ session.state = "Opening"
    /\ \E advancing \in IF session.intent = "Playing" THEN BOOLEAN ELSE {FALSE} :
          Emit([session EXCEPT !.state = "Ready", !.seeking = FALSE, !.advancing = advancing], TRUE, FALSE)
    /\ UNCHANGED calls

Fails ==
    /\ session.state \in {"Opening", "Ready"}
    /\ Emit([session EXCEPT !.state = "Error", !.seeking = FALSE, !.advancing = FALSE, !.ended = FALSE,
                            !.position = 0, !.intent = IF @ = "Stopped" THEN @ ELSE "Paused"],
            TRUE, FALSE)
    /\ UNCHANGED calls

Ends ==
    /\ session.state = "Ready" /\ session.advancing /\ session.position = Duration
    /\ Emit([session EXCEPT !.ended = TRUE, !.intent = "Paused", !.advancing = FALSE], TRUE, FALSE)
    /\ UNCHANGED calls

Mute ==
    /\ Emit([session EXCEPT !.muted = ~@], FALSE, FALSE)
    /\ UNCHANGED calls

(* The media clock holds, and goes on, without a signal.                             *)
HoldOrResume ==
    /\ session.state = "Ready" /\ PlayRequested(session)
    /\ session' = [session EXCEPT !.advancing = ~@]
    /\ UNCHANGED <<controls, bus, desktop, calls>>

(* Time passes; then the playback monitor signals the timeline.                      *)
Tick ==
    /\ session.state = "Ready" /\ PlayRequested(session)
    /\ session.advancing => session.position < Duration
    /\ desktop.present => desktop.position < MaxTicks
    /\ LET s == [session EXCEPT !.position = IF session.advancing THEN @ + 1 ELSE @]
           counted == IF desktop.present /\ desktop.properties.status = "Playing"
                      THEN desktop.position + 1 ELSE 0
       IN /\ session' = s
          /\ IF bus.connected /\ controls.registered
             THEN /\ controls' = [controls EXCEPT !.published = Properties(s), !.advancing = s.advancing]
                  /\ desktop' = [Told(s, FALSE) EXCEPT
                                    !.position = IF Resumed(s) THEN PositionOf(s) ELSE counted]
             ELSE UNCHANGED <<controls, desktop>>
    /\ UNCHANGED <<bus, calls>>

-------------------------------------------------------------------------------
(* The desktop's calls, from what it believes.                                       *)

Methods ==
    {[name |-> n] : n \in {"Play", "Pause", "PlayPause", "Stop", "Rate0"}}
        \cup {[name |-> "Volume", to |-> 1]}
        \cup {[name |-> "Seek", by |-> o] : o \in Offsets}
        \cup {[name |-> "SetPosition", track |-> desktop.properties.track, to |-> p] : p \in {0, Duration}}

Call ==
    /\ desktop.present /\ calls.left > 0
    /\ \E m \in Methods : calls' = [calls EXCEPT !.sent = Append(@, m), !.left = @ - 1]
    /\ UNCHANGED <<session, controls, bus, desktop>>

(* MediaSession's play, haltPlayback and seekToMilliseconds; Ignored emits nothing.   *)
Ignored == UNCHANGED <<session, controls, bus, desktop>>

Play ==
    IF session.state # "Ready" /\ ~session.seeking THEN Ignored
    ELSE IF session.ended \/ session.intent = "Stopped"
         THEN Emit([session EXCEPT !.intent = "Playing", !.ended = FALSE, !.state = "Opening",
                                   !.seeking = FALSE, !.advancing = FALSE, !.position = 0],
                   TRUE, session.position # 0)
    ELSE IF session.intent = "Playing" THEN Ignored
    ELSE \E advancing \in IF session.state = "Ready" THEN BOOLEAN ELSE {FALSE} :
            Emit([session EXCEPT !.intent = "Playing", !.advancing = advancing], TRUE, FALSE)

Halt(intent) == Emit([session EXCEPT !.intent = intent, !.advancing = FALSE], TRUE, FALSE)

Pause ==
    IF (session.state = "Ready" \/ session.seeking) /\ PlayRequested(session) THEN Halt("Paused") ELSE Ignored

Stop ==
    IF session.state \in {"Opening", "Ready"} /\ session.intent # "Stopped" THEN Halt("Stopped") ELSE Ignored

SeekTo(position) ==
    Emit([session EXCEPT !.state = "Opening", !.seeking = TRUE, !.ended = FALSE, !.advancing = FALSE,
                         !.position = position], TRUE, position # session.position)

SeekTarget(offset) == IF offset < -PositionOf(session) THEN 0 ELSE PositionOf(session) + offset

BugAccepts(call) == Seekable(session) /\ call.to >= 0 /\ call.to <= Duration
(* SetPosition means the item the desktop saw, not the one that is open now.          *)
Accepts(call) ==
    Seekable(session) /\ call.track = session.item /\ call.to >= 0 /\ call.to <= Duration

Perform(call) ==
    CASE call.name = "Play" -> IF CanPlayPause(session) THEN Play ELSE Ignored
      [] call.name = "Pause" -> IF CanPlayPause(session) THEN Pause ELSE Ignored
      [] call.name = "PlayPause" ->
            IF ~CanPlayPause(session) THEN Ignored ELSE IF PlayRequested(session) THEN Pause ELSE Play
      [] call.name = "Stop" -> Stop
      [] call.name = "Rate0" -> Pause
      [] call.name = "Volume" -> Emit([session EXCEPT !.volume = call.to, !.muted = FALSE], FALSE, FALSE)
      [] call.name = "Seek" ->
            IF Seekable(session) /\ call.by <= Duration - PositionOf(session)
            THEN SeekTo(SeekTarget(call.by)) ELSE Ignored
      [] call.name = "SetPosition" -> IF Accepts(call) THEN SeekTo(call.to) ELSE Ignored

HandleMessage ==
    /\ calls.sent # <<>> /\ bus.connected
    /\ Perform(Head(calls.sent))
    /\ LET call == Head(calls.sent) IN
       calls' = [calls EXCEPT !.sent = Tail(@),
                              !.met = IF call.name = "SetPosition" /\ Accepts(call)
                                      THEN <<call.track, session.item>> ELSE @]

Next ==
    \/ LoseBus \/ BusReturns \/ Open \/ BecomesReady \/ Fails \/ Ends \/ Mute \/ HoldOrResume \/ Tick
    \/ Call \/ HandleMessage

-------------------------------------------------------------------------------
(* While the controls are registered the desktop knows the session's state; of the     *)
(* clock it knows what was signalled last.                                             *)
DesktopIsTold ==
    bus.connected /\ controls.registered =>
        desktop.present /\ desktop.properties = Properties(session)

(* When the clock is known to advance, the desktop's own count agrees with it, after     *)
(* any pauses, holds, jumps, new media and losses of the bus.                           *)
DesktopClockAgrees ==
    /\ bus.connected /\ controls.registered /\ controls.advancing
    /\ session.advancing /\ PlayRequested(session)
    => desktop.position = session.position

(* A position meant for one medium never moves another.                                 *)
PositionIsForItsItem == calls.met[1] = calls.met[2]

DesktopControlsThePlayer == DesktopIsTold /\ DesktopClockAgrees /\ PositionIsForItsItem
===============================================================================
