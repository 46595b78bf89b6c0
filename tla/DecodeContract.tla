---------------------------- MODULE DecodeContract ----------------------------
(* What one decode operation promises the session that started it              *)
(* (FfmpegMediaDecodeResult, media/FfmpegMediaDecoder.h): it hands over frames  *)
(* and audio in order while it runs and answers once, and the answer tells the  *)
(* session why it ended.  How the threads behind it reach that answer is        *)
(* DecodeOperation's matter.                                                    *)
EXTENDS Naturals

CONSTANT Total(_)  \* what a medium holds: video frames and audio blocks

VARIABLES
    media,    \* the medium being decoded
    given,    \* [video, audio]: how much was handed over
    trouble,  \* what happened to the operation: subset of Troubles
    answer    \* "none" until the operation answers

vars == <<media, given, trouble, answer>>

(* fault: reading or decoding failed; told: the session asked for the stop;     *)
(* closed: a sink no longer takes this operation's output.                      *)
Troubles == {"fault", "told", "closed"}

Init ==
    /\ given = [video |-> 0, audio |-> 0]
    /\ trouble = {}
    /\ answer = "none"

Give(s) ==
    /\ answer = "none"
    /\ given[s] < Total(media)[s]
    /\ given' = [given EXCEPT ![s] = @ + 1]
    /\ UNCHANGED <<media, trouble, answer>>

Trouble ==
    /\ answer = "none"
    /\ trouble' \in SUBSET Troubles
    /\ trouble \subseteq trouble'
    /\ UNCHANGED <<media, given, answer>>

(* An empty video stream is an error of the medium itself; a sink that closes    *)
(* after the last frame changes nothing.                                        *)
Justified(a, why) ==
    CASE a = "success"   -> given = Total(media) /\ given.video > 0 /\ why \subseteq {"closed"}
      [] a = "error"     -> "fault" \in why \/ Total(media).video = 0
      [] a = "stopped"   -> "closed" \in why
      [] a = "cancelled" -> "told" \in why

(* The last trouble may be the answer's reason in the same step.                *)
Answer(a) ==
    /\ answer = "none"
    /\ trouble' \in SUBSET Troubles /\ trouble \subseteq trouble'
    /\ Justified(a, trouble')
    /\ answer' = a
    /\ UNCHANGED <<media, given>>

Next ==
    \/ \E s \in {"video", "audio"} : Give(s)
    \/ Trouble
    \/ \E a \in {"success", "error", "stopped", "cancelled"} : Answer(a)

Spec == Init /\ [][Next]_vars
================================================================================
