----------------------------- MODULE PlaybackTiming -----------------------------
(* When a decoded frame is shown: the timeline that gives every frame a time      *)
(* (VideoFrameTimeline), the gate that finds the frame a seek lands on            *)
(* (VideoSeekPrerollGate), the mailbox, and the selection of the frame that is    *)
(* due (VideoFrameScheduler).  The threads around them are in MediaPipeline.      *)
EXTENDS Integers, Sequences, FiniteSets, SequencesExt

CONSTANTS
    Timestamps,       \* presentation timestamps a stream may carry, Unknown among them
    Durations,        \* durations a frame may carry, Unknown among them
    Targets,          \* where the decode starts, Unknown for its beginning
    Origins,          \* the stable origin the session knows, Unknown at first
    Declared,         \* the durations a medium may declare, Unknown for none
    DefaultDuration,  \* defaultFrameDurationMicroseconds
    Capacity,         \* VideoFrameQueue::capacity
    MaxFrames,        \* bound: frames decoded
    Unknown

TimingAssumption ==
    /\ Timestamps \subseteq Int \cup {Unknown} /\ Unknown \notin Int
    /\ Durations \subseteq Int \cup {Unknown}
    /\ Targets \subseteq Nat \cup {Unknown} /\ Origins \subseteq Int \cup {Unknown}
    /\ DefaultDuration \in Nat \ {0} /\ Capacity \in Nat \ {0}

VARIABLES
    timeline,  \* VideoFrameTimeline: origin, last time and last duration
    gate,      \* VideoSeekPrerollGate: target, open, candidate and whether it may cover
    queue,     \* the frames in the mailbox
    admitted,  \* frames on their way into it
    screen,    \* VideoFrameScheduler: the frame shown, the clock, the end
    decoded,   \* for the properties: every frame scheduled
    shown      \* for the properties: every frame taken, with the clock then

vars == <<timeline, gate, queue, admitted, screen, decoded, shown>>

Larger(a, b) == IF a > b THEN a ELSE b
NoFrame == <<>>

Init ==
    /\ \E origin \in Origins :
          timeline = [origin |-> origin, last |-> Unknown, duration |-> DefaultDuration, ended |-> FALSE]
    /\ \E target \in Targets :
          gate = [target |-> target, open |-> FALSE, candidate |-> NoFrame, mayCover |-> FALSE]
    /\ queue = <<>> /\ admitted = <<>> /\ decoded = <<>> /\ shown = <<>>
    /\ \E declared \in Declared : screen = [clock |-> 0, declared |-> declared, ended |-> FALSE]

-------------------------------------------------------------------------------
(* VideoFrameTimeline::schedule. *)

(* The first timestamp is the origin unless the session knows one. *)
Origin(pts) == IF timeline.origin = Unknown THEN pts ELSE timeline.origin

(* A missing timestamp continues the timeline; a backward one does not turn it back. *)
TimelineTime(pts) ==
    LET stated == IF pts # Unknown THEN pts - Origin(pts)
                  ELSE IF timeline.last # Unknown THEN timeline.last + timeline.duration ELSE 0
    IN IF timeline.last # Unknown THEN Larger(stated, timeline.last) ELSE stated

Duration(duration) ==
    LET stated == IF duration # Unknown THEN duration ELSE timeline.duration
    IN IF stated <= 0 THEN DefaultDuration ELSE stated

Schedule(pts, duration) ==
    [time |-> TimelineTime(pts), shown |-> Larger(0, TimelineTime(pts)),
     duration |-> Duration(duration), exact |-> duration # Unknown]

(* VideoSeekPrerollGate::admit: the gate afterwards, and the frames it lets through. *)
Admit(frame) ==
    LET Open(out) == [gate |-> [gate EXCEPT !.open = TRUE, !.candidate = NoFrame,
                                            !.mayCover = IF frame.time < gate.target THEN FALSE ELSE @],
                      out |-> out]
    IN IF gate.open \/ gate.target = Unknown THEN [gate |-> gate, out |-> <<frame>>]
       ELSE IF frame.time = gate.target THEN Open(<<frame>>)
       ELSE IF frame.time > gate.target
            THEN Open((IF gate.mayCover THEN gate.candidate ELSE <<>>) \o <<frame>>)
       ELSE IF frame.exact /\ frame.time + frame.duration > gate.target THEN Open(<<frame>>)
       ELSE [gate |-> [gate EXCEPT !.candidate = <<frame>>, !.mayCover = ~frame.exact], out |-> <<>>]

(* The decoder hands over a frame. *)
Decode ==
    /\ admitted = <<>> /\ Len(decoded) < MaxFrames /\ ~timeline.ended
    /\ \E pts \in Timestamps, duration \in Durations :
          LET frame == Schedule(pts, duration) IN
          /\ timeline' = [timeline EXCEPT !.origin = IF pts = Unknown THEN @ ELSE Origin(pts),
                                          !.last = frame.time, !.duration = frame.duration]
          /\ gate' = Admit(frame).gate /\ admitted' = Admit(frame).out
          /\ decoded' = Append(decoded, frame)
    /\ UNCHANGED <<queue, screen, shown>>

(* The stream ends: VideoSeekPrerollGate::finish. *)
EndStream ==
    /\ admitted = <<>> /\ ~timeline.ended
    /\ timeline' = [timeline EXCEPT !.ended = TRUE]
    /\ IF gate.open THEN UNCHANGED <<gate, admitted>>
       ELSE /\ gate' = [gate EXCEPT !.open = @ \/ gate.candidate # NoFrame, !.candidate = NoFrame]
            /\ admitted' = gate.candidate
    /\ UNCHANGED <<queue, screen, decoded, shown>>

(* VideoFrameQueue::push. *)
Push ==
    /\ admitted # <<>> /\ Len(queue) < Capacity
    /\ queue' = Append(queue, Head(admitted)) /\ admitted' = Tail(admitted)
    /\ UNCHANGED <<timeline, gate, screen, decoded, shown>>

-------------------------------------------------------------------------------
(* VideoFrameScheduler. *)

Took(n) ==
    /\ shown' = shown \o [i \in 1..n |-> [frame |-> queue[i], clock |-> screen.clock, kept |-> i = n]]
    /\ queue' = SubSeq(queue, n + 1, Len(queue))

(* selectFirst: the frame a decode starts with is shown when it arrives. *)
SelectFirst ==
    /\ shown = <<>> /\ queue # <<>>
    /\ Took(1)
    /\ screen' = [screen EXCEPT !.clock = Larger(@, IF gate.target = Unknown THEN 0 ELSE gate.target)]
    /\ UNCHANGED <<timeline, gate, admitted, decoded>>

(* The frames the clock has reached are taken; the newest of them is shown. *)
Due == {n \in 0..Len(queue) : \A i \in 1..n : queue[i].shown <= screen.clock}
DueFrames == CHOOSE n \in Due : \A m \in Due : m <= n

BugEndAtStart(frame) == frame.shown

(* Without a declared duration the last frame keeps its own. *)
MediaEnd(frame) ==
    IF screen.declared # Unknown THEN screen.declared ELSE frame.shown + frame.duration

(* selectForPresentation, at a clock that advances; Drained is the pipeline's.       *)
SelectForPresentation ==
    /\ shown # <<>> /\ ~screen.ended
    /\ Took(DueFrames)
    /\ screen' = [screen EXCEPT
          !.ended = /\ timeline.ended /\ admitted = <<>> /\ queue' = <<>>
                    /\ screen.clock >= MediaEnd(Last(shown').frame)]
    /\ UNCHANGED <<timeline, gate, admitted, decoded>>

(* Time passes, until every frame's end. *)
Tick ==
    /\ shown # <<>> /\ ~screen.ended
    /\ \E f \in Range(decoded) : screen.clock <= f.shown + f.duration
    /\ screen' = [screen EXCEPT !.clock = @ + 1]
    /\ UNCHANGED <<timeline, gate, queue, admitted, decoded, shown>>

Next == Decode \/ EndStream \/ Push \/ SelectFirst \/ SelectForPresentation \/ Tick

-------------------------------------------------------------------------------
(* Every frame that passed the gate, in order. *)
Passed == [i \in DOMAIN shown |-> shown[i].frame] \o queue \o admitted

(* Time never runs backward, whatever the timestamps.                               *)
TimelineIsMonotonic ==
    \A i \in 1..(Len(decoded) - 1) : decoded[i].time <= decoded[i + 1].time

(* From its first frame on, nothing decoded is lost.                                *)
NothingLost ==
    Passed # <<>> => Passed = SubSeq(decoded, Len(decoded) - Len(Passed) + 1, Len(decoded))

(* The first frame covers the target of the seek as far as its timing tells: of the  *)
(* frames before it none does, and it is the last one only when the stream ends.    *)
FirstCoversTarget ==
    Passed # <<>> /\ gate.target # Unknown =>
        LET first == Len(decoded) - Len(Passed) + 1
            f == decoded[first]
        IN /\ \A i \in 1..(first - 1) :
                 decoded[i].time < gate.target
                 /\ (decoded[i].exact => decoded[i].time + decoded[i].duration <= gate.target)
           /\ f.time > gate.target /\ first > 1 => decoded[first - 1].exact
           /\ f.time < gate.target =>
                 \/ f.exact /\ f.time + f.duration > gate.target
                 \/ ~f.exact /\ first < Len(decoded) /\ decoded[first + 1].time > gate.target
                 \/ timeline.ended /\ first = Len(decoded)

(* A stream with a frame shows one.                                                 *)
SomethingPasses == timeline.ended /\ decoded # <<>> => Passed # <<>>

(* A frame is skipped only for a later one that is due as well, and no frame but the *)
(* first is shown before its time.                                                  *)
ShownInTime ==
    \A i \in DOMAIN shown : i > 1 =>
        /\ shown[i].frame.shown <= shown[i].clock
        /\ ~shown[i].kept => i < Len(shown) /\ shown[i + 1].clock = shown[i].clock

(* The end is reported with every frame taken, and not before the last one had time. *)
EndIsTheEnd ==
    screen.ended =>
        /\ timeline.ended /\ Len(Passed) = Len(shown)
        /\ screen.declared = Unknown =>
               \A i \in DOMAIN shown : shown[i].frame.shown < screen.clock

(* The right frame is on the screen, from the first one of a seek to the end, for    *)
(* any timestamps and durations.                                                     *)
TimelineIsFaithful ==
    /\ TimelineIsMonotonic /\ NothingLost /\ FirstCoversTarget /\ SomethingPasses
    /\ ShownInTime /\ EndIsTheEnd
===============================================================================
