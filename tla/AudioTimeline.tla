------------------------------ MODULE AudioTimeline ------------------------------
(* The media time of every sample that is played: AudioConverter, between the       *)
(* audio decoder and the pipeline.  The decoder's frames carry timestamps in the    *)
(* stream's time base, coarser than a sample and rounded either way, or none; the   *)
(* resampler holds samples back; the output is one run of frames from the target    *)
(* on, with silence where the medium has no sound.  Media time is counted in        *)
(* output frames and the rates are equal, so only the stream's rounding is left.    *)
EXTENDS Integers, Sequences

CONSTANTS
    TimeBase,    \* samples in one unit of the stream's time base
    Length,      \* samples of a frame
    Gaps,        \* samples that may be missing before a frame, or come again
    Starts,      \* where the sound of the medium begins, before its pictures perhaps
    Targets,     \* where the decode starts, NoTime for the beginning
    MaxDelay,    \* samples the resampler may hold back (external)
    MaxFrames    \* bound: frames decoded

AudioTimelineAssumption ==
    /\ TimeBase \in Nat \ {0} /\ Length \in Nat \ {0}
    /\ \A g \in Gaps \ {0} : g >= 5 * TimeBase \/ -g >= 5 * TimeBase  \* more than rounding hides
    /\ Gaps \subseteq Int /\ Starts \subseteq Int /\ Targets \subseteq Int
    /\ MaxDelay \in Nat /\ MaxFrames \in Nat

VARIABLES
    stream,    \* the decoder, external: the true time of its next sample, the samples and the
               \* number of the frames it gave, whether they are sound, its end
    converter  \* AudioConverter's members, what it published, and whether it failed

vars == <<stream, converter>>

NoTime == -1000
Silence == -1001
Larger(a, b) == IF a > b THEN a ELSE b
Smaller(a, b) == IF a < b THEN a ELSE b

-------------------------------------------------------------------------------
(* The converter's steps, each from one state of it to the next.                    *)

(* submitSamples: a block continues the output, or silence fills up to it.           *)
Expected(c) == c.outputAnchor + Len(c.output)

Continued(c, start, samples) ==
    [c EXCEPT !.outputAnchor = IF c.output = <<>> THEN start ELSE @, !.output = @ \o samples,
              !.observedEnd = (IF c.output = <<>> THEN start ELSE Expected(c)) + Len(samples)]

SilentFrames(n) == [i \in 1..n |-> Silence]

(* publishSilence, never before the target.                                          *)
PlaybackStart(c) == IF c.target = NoTime THEN 0 ELSE c.target

PublishSilence(c, from, to) ==
    LET start == Larger(from, PlaybackStart(c))
    IN IF to <= start THEN c ELSE Continued(c, start, SilentFrames(to - start))

SubmitSamples(c, start, samples) ==
    IF c.output = <<>> THEN Continued(c, start, samples)
    ELSE IF start - Expected(c) < -1 THEN [c EXCEPT !.failed = TRUE]
    ELSE IF start - Expected(c) > 1 THEN Continued(PublishSilence(c, Expected(c), start), start, samples)
    ELSE Continued(c, start, samples)

(* publish: what lies before the target is cut off.                                  *)
Trimmed(c, start, n) == IF start < c.target THEN Smaller(n, c.target - start) ELSE 0

Publish(c, samples) ==
    LET start == c.anchor + c.converted
        counted == [c EXCEPT !.converted = @ + Len(samples)]
        trim == Trimmed(c, start, Len(samples))
        kept == SubSeq(samples, trim + 1, Len(samples))
        lead == IF c.output = <<>> THEN PublishSilence(counted, PlaybackStart(c), start + trim) ELSE counted
    IN IF kept = <<>> THEN counted ELSE SubmitSamples(lead, start + trim, kept)

BugFlush(c) == [c EXCEPT !.held = <<>>]
(* flush: the resampler gives what it held.                                          *)
Flush(c) == Publish([c EXCEPT !.held = <<>>], c.held)

(* beginForwardGap: the samples before it keep their time, those after it a new one.   *)
BeginForwardGap(c, time, expected) ==
    LET flushed == Flush(c)
        silent == PublishSilence(flushed,
                      IF flushed.observedEnd = NoTime THEN expected ELSE flushed.observedEnd, time)
    IN IF flushed.failed THEN flushed ELSE [silent EXCEPT !.anchor = time, !.converted = 0]

(* av_rescale_delta (external): a timestamp coarser than a sample says where a frame   *)
(* starts only within half a unit of the time base; inside it the count of samples is  *)
(* trusted.                                                                            *)
FrameStart(c, pts) ==
    LET a == ((2 * pts - 1) * TimeBase) \div 2
        b == ((2 * pts + 1) * TimeBase + 1) \div 2
    IN IF c.next = NoTime \/ TimeBase = 1 \/ c.next < 2 * a - b \/ c.next > 2 * b - a THEN pts * TimeBase
       ELSE IF c.next < a THEN a ELSE IF c.next > b THEN b ELSE c.next

Tolerance == Larger(1, TimeBase) + 1

(* convert, of a frame at a timestamp, with what the resampler then holds back.        *)
Convert(c, pts, samples, delay) ==
    LET start == IF pts = NoTime THEN c.next ELSE FrameStart(c, pts)
        anchored == [c EXCEPT !.anchor = IF @ = NoTime THEN start ELSE @]
        difference == start - c.next
        placed == IF c.next # NoTime /\ difference > Tolerance
                  THEN BeginForwardGap(anchored, start, c.next) ELSE anchored
        waiting == placed.held \o samples
        out == Len(waiting) - Smaller(delay, Len(waiting))
    IN IF start = NoTime \/ (c.next # NoTime /\ difference < -Tolerance) THEN [c EXCEPT !.failed = TRUE]
       ELSE IF placed.failed THEN placed
       ELSE Publish([placed EXCEPT !.next = start + Len(samples),
                                   !.held = SubSeq(waiting, out + 1, Len(waiting))],
                    SubSeq(waiting, 1, out))

-------------------------------------------------------------------------------

(* The declared start of the stream, when there is one, is silence already             *)
(* (primeLeadingGap).                                                                  *)
Init ==
    \E start \in Starts, target \in Targets, declared \in BOOLEAN :
          /\ stream = [at |-> start, frames |-> 0, given |-> {}, sound |-> TRUE, ended |-> FALSE]
          /\ converter =
                LET c == [target |-> target, next |-> NoTime, anchor |-> NoTime, converted |-> 0,
                          held |-> <<>>, outputAnchor |-> NoTime, output |-> <<>>,
                          observedEnd |-> NoTime, failed |-> FALSE]
                IN IF declared THEN PublishSilence(c, PlaybackStart(c), (start \div TimeBase) * TimeBase) ELSE c

Timestamps(time) == {time \div TimeBase, (time + TimeBase - 1) \div TimeBase}

(* A frame's timestamp is missing now and then; it should not be on the first.         *)
DecodeFrame ==
    /\ stream.frames < MaxFrames /\ ~stream.ended /\ ~converter.failed
    /\ \E gap \in IF stream.frames = 0 THEN {0} ELSE Gaps, delay \in 0..MaxDelay :
       LET at == stream.at + gap IN
       \E pts \in Timestamps(at) \cup (IF gap = 0 THEN {NoTime} ELSE {}) :
          /\ converter' = Convert(converter, pts, [i \in 1..Length |-> at + i - 1], delay)
          /\ stream' = [stream EXCEPT !.at = at + Length, !.frames = @ + 1,
                                      !.given = @ \cup at..(at + Length - 1),
                                      !.sound = @ /\ gap >= 0 /\ (stream.frames # 0 \/ pts # NoTime)]

EndOfStream ==
    /\ ~stream.ended /\ ~converter.failed
    /\ stream' = [stream EXCEPT !.ended = TRUE]
    /\ converter' = IF converter.held = <<>> THEN converter ELSE Flush(converter)

Next == DecodeFrame \/ EndOfStream

-------------------------------------------------------------------------------
(* How far rounding may put a sample from its time: a unit of the time base and one     *)
(* sample for the timestamp, the tolerance for what is not taken for a gap.             *)
Slack == TimeBase + Tolerance

Time(i) == converter.outputAnchor + i - 1
Sounds == {i \in DOMAIN converter.output : converter.output[i] # Silence}
Near(a, b) == a - b <= Slack /\ b - a <= Slack

(* Sound is played at its time, in order, and once.                                     *)
SoundIsOnTime ==
    \A i \in Sounds : /\ Near(converter.output[i], Time(i))
                      /\ \A j \in Sounds : i < j => converter.output[i] < converter.output[j]

(* Nothing is played before the target; from there on, but for the rounding of a gap at   *)
(* it, nothing is left out, what the resampler held at a gap or at the end included.      *)
FromTheTarget ==
    /\ converter.output # <<>> =>
         IF converter.target = NoTime THEN converter.outputAnchor <= 0
         ELSE converter.outputAnchor \in converter.target..(converter.target + Tolerance)
    /\ stream.ended /\ stream.sound =>
         \A t \in stream.given :
            t >= converter.target + Slack => \E i \in Sounds : converter.output[i] = t

(* Only a stream whose time goes back, or that never tells it, is refused.               *)
ForwardIsAccepted == converter.failed => ~stream.sound

SoundKeepsItsTime == SoundIsOnTime /\ FromTheTarget /\ ForwardIsAccepted
===============================================================================
