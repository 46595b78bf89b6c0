------------------------------ MODULE MCServices ------------------------------
(* The wakes and the reports to the Jellyfin server.  They share no state, so one *)
(* runs at a time: a behaviour is about the part it begins with.                  *)
EXTENDS CoalescedGenerationWake, JellyfinPlaybackAdapter

VARIABLE part

ServicesInit == part \in {"wake", "reports"} /\ WakeInit /\ Init

services == <<part, vars, app>>

ServicesNext ==
    /\ UNCHANGED part
    /\ \/ part = "wake" /\ WakeNext /\ UNCHANGED app
       \/ part = "reports" /\ Next /\ UNCHANGED vars

(* Each part's own fairness, while it is the one that runs. *)
ServicesFairness ==
    /\ WF_vars(part = "wake" /\ Drain)
    /\ \A r \in Requesters : WF_vars(part = "wake" /\ (ClaimPending(r) \/ PostDrain(r)))
    /\ WF_app(part = "reports" /\ AnswerTo(1)) /\ WF_app(part = "reports" /\ Abort)
    /\ WF_app(part = "reports" /\ Aborted) /\ WF_app(part = "reports" /\ Removed)

ServicesSpec == ServicesInit /\ [][ServicesNext]_services /\ ServicesFairness
===============================================================================
