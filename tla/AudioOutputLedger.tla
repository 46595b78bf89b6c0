---------------------------- MODULE AudioOutputLedger ----------------------------
(* Which media frame the loudspeaker plays: the clock that video follows.  The     *)
(* device callback records, in a ring of slots without a lock, what each stretch   *)
(* of output was made of: media, then the silence held.  The control thread looks  *)
(* the device's position up in it while the callback goes on recording, and the    *)
(* ring wraps under it.  Every atomic load and store is a step; the slots' are     *)
(* sequentially consistent, and the totals are released before the sequence that   *)
(* a lookup acquires.                                                              *)
EXTENDS Integers, Sequences, SequencesExt

CONSTANTS
    SpanCapacity,  \* slots of the ring
    Stretches,     \* what one callback may have given: [media, hold]
    MaxSpans       \* bound: callbacks

LedgerAssumption ==
    /\ SpanCapacity \in Nat \ {0} /\ MaxSpans \in Nat
    /\ \A s \in Stretches : s.media \in Nat /\ s.hold \in Nat /\ s.media + s.hold > 0

VARIABLES
    slots,     \* m_slots
    totals,    \* m_publishedSequence, m_outputFrames and m_mediaFrames
    stores,    \* record(): the stores it still has to make
    device,    \* m_deviceFramesWritten; the frames heard, and whether it drained (external)
    lookup,    \* snapshot() and positionForOutputFrame(): the frame, where it is, what it loaded
    spans,     \* for the properties: every stretch given to the device
    clock      \* for the properties: the last media frame answered

vars == <<slots, totals, stores, device, lookup, spans, clock>>

Fields == <<"output", "media", "mediaCount", "holdCount">>
SlotOf(sequence) == (sequence - 1) % SpanCapacity
NoLookup == [at |-> "idle"]

(* As constructed, and as reset() leaves it while the stream is destroyed.         *)
Init ==
    /\ slots = [i \in 0..(SpanCapacity - 1) |->
                    [f \in {"sequence", "output", "media", "mediaCount", "holdCount"} |-> 0]]
    /\ totals = [sequence |-> 0, output |-> 0, media |-> 0]
    /\ device = [written |-> 0, heard |-> 0, drained |-> FALSE]
    /\ stores = <<>> /\ lookup = NoLookup /\ spans = <<>> /\ clock = 0

-------------------------------------------------------------------------------
(* record, by the device callback. *)

BugSlotStores(span, sequence) ==
    << <<"output", span.output>>, <<"media", span.media>>, <<"mediaCount", span.mediaCount>>,
       <<"holdCount", span.holdCount>>, <<"sequence", sequence>> >>

(* The slot names no span while its fields change. *)
SlotStores(span, sequence) ==
    << <<"sequence", 0>>,
       <<"output", span.output>>, <<"media", span.media>>, <<"mediaCount", span.mediaCount>>,
       <<"holdCount", span.holdCount>>, <<"sequence", sequence>> >>

Record ==
    /\ stores = <<>> /\ Len(spans) < MaxSpans /\ ~device.drained
    /\ device.written = totals.output
    /\ \E s \in Stretches :
          LET span == [output |-> totals.output, media |-> totals.media,
                       mediaCount |-> s.media, holdCount |-> s.hold]
          IN /\ stores' = SlotStores(span, totals.sequence + 1)
             /\ spans' = Append(spans, span)
    /\ UNCHANGED <<slots, totals, device, lookup, clock>>

(* The last store of the slot, then the totals, which publish the span. *)
Store ==
    /\ stores # <<>>
    /\ slots' = [slots EXCEPT ![SlotOf(totals.sequence + 1)][Head(stores)[1]] = Head(stores)[2]]
    /\ stores' = Tail(stores)
    /\ totals' = IF Len(stores) > 1 THEN totals
                 ELSE LET span == Last(spans)
                      IN [sequence |-> totals.sequence + 1,
                          output |-> totals.output + span.mediaCount + span.holdCount,
                          media |-> totals.media + span.mediaCount]
    /\ UNCHANGED <<device, lookup, spans, clock>>

(* The callback returns: the frames count as written only now. *)
Written ==
    /\ stores = <<>> /\ device.written < totals.output
    /\ device' = [device EXCEPT !.written = totals.output]
    /\ UNCHANGED <<slots, totals, stores, lookup, spans, clock>>

(* The device, external: it plays what the callback gave it, or more than it has     *)
(* returned yet, and reports the end only after the last callback.                   *)
Hear ==
    /\ spans # <<>> /\ device.heard < Last(spans).output + Last(spans).mediaCount + Last(spans).holdCount
    /\ device' = [device EXCEPT !.heard = @ + 1]
    /\ UNCHANGED <<slots, totals, stores, lookup, spans, clock>>

Drain ==
    /\ stores = <<>> /\ device.written = totals.output /\ spans # <<>> /\ ~device.drained
    /\ device' = [device EXCEPT !.drained = TRUE]
    /\ UNCHANGED <<slots, totals, stores, lookup, spans, clock>>

-------------------------------------------------------------------------------
(* snapshot and positionForOutputFrame, by the control thread, from the newest span   *)
(* to the oldest one the ring can hold.                                               *)

NoPosition == <<>>

(* The position of the device, no further than what was written; then the totals. *)
LoadLatest ==
    /\ lookup = NoLookup
    /\ LET frame == IF device.heard < device.written THEN device.heard ELSE device.written IN
       lookup' = [at |-> IF frame = 0 THEN "done" ELSE "sequence",
                  frame |-> frame, latest |-> totals.sequence, sequence |-> totals.sequence,
                  loaded |-> <<>>,
                  result |-> IF frame = 0 THEN <<[mediaFrame |-> 0, holding |-> FALSE]>> ELSE NoPosition]
    /\ UNCHANGED <<slots, totals, stores, device, spans, clock>>

Exhausted == lookup.sequence = 0 \/ lookup.latest - lookup.sequence >= SpanCapacity
Slot == slots[SlotOf(lookup.sequence)]

Return(result) == lookup' = [lookup EXCEPT !.at = "done", !.result = result, !.loaded = <<>>]
Older == lookup' = [lookup EXCEPT !.at = "sequence", !.sequence = @ - 1, !.loaded = <<>>]

LoadSequence ==
    /\ lookup.at = "sequence"
    /\ IF Exhausted THEN Return(NoPosition)
       ELSE IF Slot.sequence # lookup.sequence THEN Older
       ELSE lookup' = [lookup EXCEPT !.at = "fields"]
    /\ UNCHANGED <<slots, totals, stores, device, spans, clock>>

LoadField ==
    /\ lookup.at = "fields" /\ Len(lookup.loaded) < Len(Fields)
    /\ lookup' = [lookup EXCEPT !.loaded = Append(@, Slot[Fields[Len(@) + 1]])]
    /\ UNCHANGED <<slots, totals, stores, device, spans, clock>>

(* The media frame under an output frame of a span, and whether the media holds. *)
Position(output, media, mediaCount, holdCount, frame) ==
    [mediaFrame |-> media + (IF frame - output < mediaCount THEN frame - output ELSE mediaCount),
     holding |-> holdCount # 0 /\ frame - output >= mediaCount]

(* The fields belong together only when the slot still names the span. *)
Recheck ==
    /\ lookup.at = "fields" /\ Len(lookup.loaded) = Len(Fields)
    /\ LET l == lookup.loaded IN
       IF \/ Slot.sequence # lookup.sequence
          \/ lookup.frame < l[1] \/ lookup.frame > l[1] + l[3] + l[4]
       THEN Older
       ELSE Return(<<Position(l[1], l[2], l[3], l[4], lookup.frame)>>)
    /\ UNCHANGED <<slots, totals, stores, device, spans, clock>>

(* The rest of snapshot: a drained stream has played all its media, wherever its       *)
(* position stopped; without a position the clock is invalid.                          *)
Snapshot ==
    IF device.drained THEN <<[mediaFrame |-> totals.media, holding |-> FALSE]>> ELSE lookup.result

Answer ==
    /\ lookup.at = "done"
    /\ clock' = IF Snapshot = NoPosition THEN clock ELSE Head(Snapshot).mediaFrame
    /\ lookup' = NoLookup
    /\ UNCHANGED <<slots, totals, stores, device, spans>>

Next ==
    \/ Record \/ Store \/ Written \/ Hear \/ Drain
    \/ LoadLatest \/ LoadSequence \/ LoadField \/ Recheck \/ Answer

-------------------------------------------------------------------------------
Least(a, b) == IF a < b THEN a ELSE b

(* The media among the first output frames the device played. *)
MediaUnder(frame) ==
    FoldSeq(LAMBDA span, sum :
                sum + (IF frame <= span.output THEN 0 ELSE Least(frame - span.output, span.mediaCount)),
            0, spans)

(* A position is the media that was played up to it, and is missing only when every    *)
(* slot that knew it has been used again.                                              *)
PositionIsExact ==
    lookup.at = "done" =>
        IF lookup.result # NoPosition THEN Head(lookup.result).mediaFrame = MediaUnder(lookup.frame)
        ELSE \A i \in 1..lookup.latest :
                LET s == spans[i] IN
                s.output <= lookup.frame /\ lookup.frame <= s.output + s.mediaCount + s.holdCount
                    => slots[SlotOf(i)].sequence # i

(* The audio clock never goes back, and never past the media the device was given. *)
ClockIsMonotonic ==
    lookup.at = "done" /\ Snapshot # NoPosition =>
        /\ Head(Snapshot).mediaFrame >= clock
        /\ Head(Snapshot).mediaFrame <= totals.media

(* The clock that video follows is the media heard, whatever the callback overwrites. *)
AudioClockIsExact == PositionIsExact /\ ClockIsMonotonic
===============================================================================
