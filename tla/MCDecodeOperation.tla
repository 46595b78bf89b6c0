--------------------------- MODULE MCDecodeOperation ---------------------------
(* Five media for a router of two packets and two bytes, a mailbox of one frame *)
(* and a ring of one block: a late start of the audio behind more video than    *)
(* every buffer holds; a seek with an oversized packet, one without bytes behind *)
(* it and a hole in the audio; a silent medium with more subtitles than the     *)
(* history holds; one without a frame; one whose audio overlaps.                *)
EXTENDS DecodeOperation

V(t) == [stream |-> "video", at |-> t, bytes |-> 1]
A(t) == [stream |-> "audio", at |-> t, bytes |-> 1]
S(t) == [stream |-> "subtitle", at |-> t, bytes |-> 1]
Long(p) == [p EXCEPT !.bytes = 3]
Empty(p) == [p EXCEPT !.bytes = 0]

LateAudio == [packets |-> <<V(0), V(1), V(2), V(3), V(4), A(4)>>, start |-> 0,
              audioStart |-> 4, subtitled |-> FALSE]
Seeked == [packets |-> <<V(0), A(0), Long(V(1)), Empty(A(1)), V(3), A(3)>>, start |-> 1,
           audioStart |-> Undeclared, subtitled |-> FALSE]
Silent == [packets |-> <<V(0), Long(S(0)), S(1), V(2)>>, start |-> 0,
           audioStart |-> Undeclared, subtitled |-> TRUE]
NoFrame == [packets |-> <<A(0), A(1)>>, start |-> 0,
            audioStart |-> 0, subtitled |-> FALSE]

Overlap == [packets |-> <<V(0), A(1), A(0)>>, start |-> 0,
            audioStart |-> 1, subtitled |-> FALSE]

SomeMedia == {LateAudio, Seeked, Silent, NoFrame, Overlap}
================================================================================
