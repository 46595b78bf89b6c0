-------------------------- MODULE ControlledAudioSink --------------------------
(* The sink that is driven by hand, the second implementation of AudioSink: one   *)
(* mutex, a producer that waits on a condition variable for room, and a device    *)
(* that takes frames, presents them later and holds when it has none.  The media  *)
(* position comes from a map of segments that is merged and pruned on the way.    *)
EXTENDS Integers, Sequences, SequencesExt

CONSTANTS
    Capacity,        \* m_maximumBufferedFrames
    Blocks,          \* frames of a block
    Gaps,            \* media time missing before a block
    Requests,        \* frames a device asks for, or presents
    MaxGenerations,  \* bound
    MaxFrames        \* bound: frames submitted in one generation

SinkAssumption ==
    /\ Capacity \in Nat \ {0} /\ Blocks \subseteq Nat \ {0} /\ Gaps \subseteq Nat
    /\ Requests \subseteq Nat \ {0} /\ MaxGenerations \in Nat /\ MaxFrames \in Nat

VARIABLES
    sink,      \* the members under m_mutex; the blocks as the frames left of them
    producer,  \* the thread in submit: its block, whether it waits and is woken
    heard      \* for the properties: the frames the device took, those accepted, their media
               \* end, the newest generation and the position told last

vars == <<sink, producer, heard>>

Fresh(generation) ==
    [generation |-> generation, queue |-> <<>>, mapping |-> <<>>, submitted |-> 0, presented |-> 0,
     running |-> FALSE, finished |-> FALSE, available |-> TRUE, holding |-> FALSE, failed |-> FALSE]

NothingHeard(generation) ==
    [frames |-> <<>>, accepted |-> 0, next |-> 0, generation |-> generation, told |-> 0]

Idle == [at |-> "Idle"]

Init == sink = Fresh(0) /\ producer = Idle /\ heard = NothingHeard(0)

-------------------------------------------------------------------------------
Outstanding(s) == Len(s.queue) + s.submitted - s.presented

(* notify_all: a waiting producer looks again.                                     *)
Notify == producer' = IF producer.at = "Waiting" THEN [producer EXCEPT !.woken = TRUE] ELSE producer

Reset ==
    /\ heard.generation < MaxGenerations
    /\ sink' = Fresh(heard.generation + 1) /\ heard' = NothingHeard(heard.generation + 1)
    /\ Notify

(* A stale generation changes nothing.  A position once lost stays so.               *)
Cancelled(s) == [Fresh(0) EXCEPT !.available = s.available]

Cancel(g) == g = sink.generation /\ g # 0 /\ sink' = Cancelled(sink) /\ Notify /\ UNCHANGED heard

Finish(g) == g = sink.generation /\ g # 0 /\ sink' = [sink EXCEPT !.finished = TRUE] /\ Notify /\ UNCHANGED heard

Fail(g) ==
    /\ g = sink.generation /\ g # 0
    /\ sink' = [sink EXCEPT !.failed = TRUE, !.running = FALSE] /\ Notify /\ UNCHANGED heard

Start == ~sink.failed /\ sink' = [sink EXCEPT !.running = TRUE] /\ UNCHANGED <<producer, heard>>
Pause == sink' = [sink EXCEPT !.running = FALSE] /\ UNCHANGED <<producer, heard>>
LosePosition == sink' = [sink EXCEPT !.available = ~@] /\ UNCHANGED <<producer, heard>>

-------------------------------------------------------------------------------
(* submit: the block's generation is gone, the sink is closed to it, or has room.   *)

Refused(block) == block.generation # sink.generation \/ sink.finished \/ sink.failed
HasRoom(block) == Outstanding(sink) <= Capacity - Len(block.frames)

Conclude(block) ==
    /\ producer' = Idle
    /\ IF Refused(block) THEN UNCHANGED <<sink, heard>>
       ELSE /\ sink' = [sink EXCEPT !.queue = @ \o block.frames]
            /\ heard' = [heard EXCEPT !.accepted = @ + Len(block.frames), !.next = Last(block.frames) + 1]

LookAt(block) ==
    IF Refused(block) \/ HasRoom(block) THEN Conclude(block)
    ELSE producer' = [at |-> "Waiting", woken |-> FALSE, block |-> block] /\ UNCHANGED <<sink, heard>>

(* A block larger than the sink is refused at once.                                  *)
Submit ==
    /\ producer.at = "Idle"
    /\ \E n \in Blocks, gap \in Gaps, g \in {heard.generation - 1, heard.generation} \ {-1, 0} :
          /\ n <= Capacity /\ heard.accepted + n <= MaxFrames
          /\ LookAt([generation |-> g, frames |-> [i \in 1..n |-> heard.next + gap + i - 1]])

Wakes == producer.at = "Waiting" /\ producer.woken /\ LookAt(producer.block)

(* The stop token.                                                                    *)
Stops == producer.at = "Waiting" /\ producer' = Idle /\ UNCHANGED <<sink, heard>>

-------------------------------------------------------------------------------
(* A frame continues the last segment or begins another.                             *)
Extended(mapping, index, time) ==
    IF mapping # <<>> /\ Last(mapping).start + Last(mapping).count = index
           /\ Last(mapping).media + Last(mapping).count = time
    THEN Front(mapping) \o <<[Last(mapping) EXCEPT !.count = @ + 1]>>
    ELSE Append(mapping, [start |-> index, count |-> 1, media |-> time])

(* renderLocked.                                                                      *)
Smaller(a, b) == IF a < b THEN a ELSE b

Taken(s, n) == IF s.running /\ s.generation # 0 THEN Smaller(n, Len(s.queue)) ELSE 0

Rendered(s, n) ==
    LET frames == SubSeq(s.queue, 1, Taken(s, n))
        Put(mapping, i) == Extended(mapping, s.submitted + i - 1, frames[i])
    IN [s EXCEPT !.mapping = FoldLeft(Put, @, [i \in 1..Len(frames) |-> i]),
                 !.queue = SubSeq(@, Len(frames) + 1, Len(@)), !.submitted = @ + Len(frames)]

BugPast(s) == {i \in 2..Len(s.mapping) : s.mapping[i].start <= s.presented + 1}
(* prunePresentedMappingsLocked: segments whose follower has begun.                   *)
Past(s) == {i \in 2..Len(s.mapping) : s.mapping[i].start <= s.presented}

Pruned(s) ==
    IF Past(s) = {} THEN s
    ELSE [s EXCEPT !.mapping = SubSeq(@, CHOOSE i \in Past(s) : \A j \in Past(s) : j <= i, Len(@))]

(* mediaPositionForPresentedFrameLocked.                                              *)
Position(s) ==
    LET reach == {i \in DOMAIN s.mapping : s.presented <= s.mapping[i].start + s.mapping[i].count}
        i == CHOOSE k \in reach : \A j \in reach : k <= j
    IN IF reach = {} THEN Last(s.mapping).media + Last(s.mapping).count
       ELSE s.mapping[i].media + s.presented - s.mapping[i].start

Heard(s, n) ==
    heard' = [heard EXCEPT !.frames = @ \o SubSeq(s.queue, 1, n),
                           !.told = IF s.mapping = <<>> THEN @ ELSE Position(s)]

Render(n) == sink' = Rendered(sink, n) /\ Heard(sink, Taken(sink, n)) /\ Notify

AdvancePresentedFrames(n) ==
    /\ sink.running
    /\ LET presented == Smaller(n, sink.submitted - sink.presented)
       IN sink' = Pruned([sink EXCEPT !.presented = @ + presented,
                                      !.holding = @ /\ presented = 0])
    /\ Heard(sink, 0) /\ Notify

(* advanceOutput: what the queue lacks is held, unless the producer has finished.      *)
AdvanceOutput(n) ==
    /\ sink.running /\ sink.generation # 0 /\ sink.submitted = sink.presented /\ ~sink.failed
    /\ sink' = [Pruned([Rendered(sink, n) EXCEPT !.presented = @ + Taken(sink, n)])
                   EXCEPT !.holding = ~sink.finished /\ Taken(sink, n) < n]
    /\ Heard(sink, Taken(sink, n)) /\ Notify

Next ==
    \/ Reset \/ Start \/ Pause \/ LosePosition \/ Submit \/ Wakes \/ Stops
    \/ \E g \in 1..MaxGenerations : Cancel(g) \/ Finish(g) \/ Fail(g)
    \/ \E n \in Requests : Render(n) \/ AdvancePresentedFrames(n) \/ AdvanceOutput(n)

-------------------------------------------------------------------------------
(* snapshot.                                                                           *)
Drained(s) == s.finished /\ s.queue = <<>> /\ s.presented = s.submitted

(* The position is that of the frame presented last, or of the one that follows it, and *)
(* never goes back, whatever was merged and pruned.                                     *)
PositionIsHeard ==
    sink.mapping # <<>> =>
        /\ \/ sink.presented > 0 /\ Position(sink) = heard.frames[sink.presented] + 1
           \/ sink.presented < Len(heard.frames) /\ Position(sink) = heard.frames[sink.presented + 1]
        /\ Position(sink) >= heard.told

(* What was accepted is heard, in order, and once, unless it was cancelled; a drained     *)
(* sink has presented it all.                                                            *)
AcceptedIsHeard ==
    /\ sink.generation = 0 => sink.queue = <<>>
    /\ sink.generation # 0 => /\ heard.accepted = Len(heard.frames) + Len(sink.queue)
                              /\ Drained(sink) => sink.presented = heard.accepted
    /\ \A i \in 2..Len(heard.frames) : heard.frames[i - 1] < heard.frames[i]

(* The buffer and the device together hold no more than the capacity, and a producer     *)
(* that could go on has been told.                                                       *)
ProducerIsServed ==
    /\ Outstanding(sink) <= Capacity
    /\ producer.at = "Waiting" /\ (Refused(producer.block) \/ HasRoom(producer.block)) => producer.woken

ControlledSinkKeepsTime == PositionIsHeard /\ AcceptedIsHeard /\ ProducerIsServed
================================================================================
