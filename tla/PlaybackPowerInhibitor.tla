-------------------------- MODULE PlaybackPowerInhibitor --------------------------
(* Keeping the display awake while media plays, on Linux: one Inhibit request to   *)
(* the desktop portal, whose method return and Response signal come back in        *)
(* either order, while the user starts and stops playback and leaves.  The portal  *)
(* is external; a bus delivers in order between two peers.                          *)
EXTENDS Naturals, Sequences, FiniteSets, SequencesExt

CONSTANTS
    MaxRequests,  \* bound: Inhibit calls
    MaxToggles,   \* bound: changes of what the session asks for
    MayTimeOut    \* whether a call may be reported failed and still be granted later

InhibitorAssumption == MaxRequests \in Nat /\ MaxToggles \in Nat /\ MayTimeOut \in BOOLEAN

VARIABLES
    active,    \* PlaybackPowerInhibitor::m_active, the session's wish
    toggles,   \* bound: how often it changed
    state,     \* PortalRequestState
    calls,     \* Inhibit calls made; the last one's watcher is `state.pending`
    outbox,    \* messages on their way to the portal
    inbox,     \* method returns and signals on their way back
    portal     \* [call |-> what the portal holds for it]

vars == <<active, toggles, state, calls, outbox, inbox, portal>>

NoHandle == <<>>
Expected(call) == <<call, "expected">>
Other(call) == <<call, "other">>     \* an older portal names its own request

Init ==
    /\ active = FALSE /\ toggles = 0 /\ calls = 0 /\ outbox = <<>> /\ inbox = <<>>
    /\ state = [ownerAlive |-> TRUE, desired |-> FALSE, methodReturned |-> FALSE,
                responseCompleted |-> FALSE, acquired |-> FALSE, subscribed |-> FALSE,
                restart |-> FALSE, handle |-> NoHandle, pending |-> 0]
    /\ portal = [call \in 1..MaxRequests |-> [verdict |-> "none", handle |-> NoHandle]]

-------------------------------------------------------------------------------
(* The steps of a handler: each takes the state and the outbox and returns both.    *)

Step(s, o) == [state |-> s, outbox |-> o]

ClearHandle(s, completed) ==
    [s EXCEPT !.subscribed = FALSE, !.handle = NoHandle, !.methodReturned = FALSE,
              !.responseCompleted = completed, !.acquired = FALSE]

Close(o, handle) == IF handle = NoHandle THEN o ELSE Append(o, [kind |-> "close", handle |-> handle])

CloseKnownRequest(s, o) == Step(ClearHandle(s, TRUE), Close(o, s.handle))

(* beginRequest: it listens at the path the portal is expected to use, and calls.   *)
BeginRequest(s, o) ==
    Step([s EXCEPT !.handle = Expected(calls + 1), !.methodReturned = FALSE,
                   !.responseCompleted = FALSE, !.acquired = FALSE, !.restart = FALSE,
                   !.subscribed = TRUE, !.pending = calls + 1],
         Append(o, [kind |-> "inhibit", call |-> calls + 1]))

(* A step that may end in a new request.  Without a bus, none is begun. *)
Take(step, again) ==
    \/ /\ again /\ calls < MaxRequests
       /\ LET begun == BeginRequest(step.state, step.outbox)
          IN state' = begun.state /\ outbox' = begun.outbox
       /\ calls' = calls + 1
    \/ ~again /\ state' = step.state /\ outbox' = step.outbox /\ UNCHANGED calls

BugSetActive(wanted) ==
    LET s == [state EXCEPT !.desired = wanted] IN
    IF ~wanted THEN
        LET stopped == [s EXCEPT !.restart = FALSE]
        IN Take(IF s.acquired THEN CloseKnownRequest(stopped, outbox) ELSE Step(stopped, outbox), FALSE)
    ELSE IF s.pending # 0 THEN Take(Step([s EXCEPT !.restart = TRUE], outbox), FALSE)
    ELSE Take(Step(s, outbox), s.handle = NoHandle)

SetActive(wanted) ==
    LET s == [state EXCEPT !.desired = wanted] IN
    IF ~wanted THEN
        LET stopped == [s EXCEPT !.restart = FALSE]
        IN Take(IF s.methodReturned \/ s.acquired THEN CloseKnownRequest(stopped, outbox)
                ELSE Step(stopped, outbox), FALSE)
    ELSE IF s.pending # 0 THEN Take(Step([s EXCEPT !.restart = TRUE], outbox), FALSE)
    ELSE Take(Step(s, outbox), s.handle = NoHandle)

(* reconcile: the session starts or stops playing; setActive. *)
Reconcile ==
    /\ state.ownerAlive /\ toggles < MaxToggles
    /\ active' = ~active /\ toggles' = toggles + 1
    /\ SetActive(~active)
    /\ UNCHANGED <<inbox, portal>>

(* The window goes: the destructor.  The connection and the pending call outlive it. *)
Destroy ==
    /\ state.ownerAlive
    /\ LET s == [state EXCEPT !.ownerAlive = FALSE, !.desired = FALSE]
       IN Take(IF s.handle # NoHandle THEN CloseKnownRequest(s, outbox) ELSE Step(s, outbox), FALSE)
    /\ active' = FALSE
    /\ UNCHANGED <<toggles, inbox, portal>>

-------------------------------------------------------------------------------
Received == Head(inbox)
Deliver(kind) == inbox # <<>> /\ Received.kind = kind /\ inbox' = Tail(inbox)

(* portalResponse, while the receiver lives and listens. *)
PortalResponse ==
    /\ Deliver("response")
    /\ LET heard == [state EXCEPT !.responseCompleted = TRUE, !.subscribed = FALSE] IN
       IF ~state.ownerAlive \/ ~state.subscribed \/ Received.handle # state.handle
       THEN Take(Step(state, outbox), FALSE)
       ELSE IF ~Received.granted
       THEN Take(CloseKnownRequest([heard EXCEPT !.restart = @ /\ state.pending # 0], outbox),
                 state.restart /\ state.desired /\ state.pending = 0)
       ELSE IF state.desired
       THEN Take(Step([heard EXCEPT !.acquired = TRUE, !.restart = FALSE], outbox), FALSE)
       ELSE Take(CloseKnownRequest([heard EXCEPT !.acquired = TRUE], outbox), FALSE)
    /\ UNCHANGED <<active, toggles, portal>>

(* finishRequest: a wish that came while the call was pending begins a new one. *)
FinishRequest(s, o) ==
    LET again == s.restart /\ s.ownerAlive /\ s.desired /\ s.handle = NoHandle
    IN Take(Step([s EXCEPT !.restart = @ /\ ~again], o), again)

Answered(call) == [state EXCEPT !.pending = IF @ = call THEN 0 ELSE @]

(* The call fails. *)
MethodError ==
    /\ Deliver("error")
    /\ LET s == Answered(Received.call)
       IN FinishRequest(IF s.responseCompleted THEN s ELSE ClearHandle(s, FALSE), outbox)
    /\ UNCHANGED <<active, toggles, portal>>

(* The call returns the handle of the request. *)
MethodReturn ==
    /\ Deliver("return")
    /\ LET s == [Answered(Received.call) EXCEPT !.methodReturned = TRUE]
           handle == Received.handle
       IN CASE s.responseCompleted ->
                 FinishRequest(s, IF s.ownerAlive THEN outbox ELSE Close(outbox, handle))
            [] ~s.responseCompleted /\ (~s.ownerAlive \/ ~s.desired) ->
                 FinishRequest([s EXCEPT !.subscribed = FALSE, !.handle = NoHandle], Close(outbox, handle))
            [] OTHER ->
                 FinishRequest([s EXCEPT !.handle = handle, !.subscribed = TRUE], outbox)
    /\ UNCHANGED <<active, toggles, portal>>

-------------------------------------------------------------------------------
(* The portal, external: it answers an Inhibit call with an error, or with a handle  *)
(* and a verdict in either order; a signal reaches only who listens at its path.     *)

Sent == Head(outbox)
Listening(handle) == state.subscribed /\ state.handle = handle

Return(call, handle) == [kind |-> "return", call |-> call, handle |-> handle]
Response(handle, granted) == [kind |-> "response", handle |-> handle, granted |-> granted]

PortalInhibit ==
    /\ outbox # <<>> /\ Sent.kind = "inhibit" /\ outbox' = Tail(outbox)
    /\ LET call == Sent.call
           Now(verdict, handle) == portal' = [portal EXCEPT ![call] = [verdict |-> verdict, handle |-> handle]]
       IN \E handle \in {Expected(call), Other(call)} :
          \/ inbox' = Append(inbox, [kind |-> "error", call |-> call]) /\ Now("failed", NoHandle)
          \/ MayTimeOut /\ inbox' = Append(inbox, [kind |-> "error", call |-> call]) /\ Now("granted", handle)
          \/ inbox' = Append(inbox, Return(call, handle)) /\ Now("asking", handle)
          \/ \E granted \in BOOLEAN :
                /\ inbox' = (IF Listening(handle) THEN Append(inbox, Response(handle, granted)) ELSE inbox)
                                \o <<Return(call, handle)>>
                /\ Now(IF granted THEN "granted" ELSE "refused", handle)
    /\ UNCHANGED <<active, toggles, state, calls>>

(* A verdict that comes after the return. *)
PortalDecides(call) ==
    /\ portal[call].verdict = "asking"
    /\ \E granted \in BOOLEAN :
          /\ portal' = [portal EXCEPT ![call].verdict = IF granted THEN "granted" ELSE "refused"]
          /\ inbox' = IF Listening(portal[call].handle)
                      THEN Append(inbox, Response(portal[call].handle, granted)) ELSE inbox
    /\ UNCHANGED <<active, toggles, state, calls, outbox>>

(* Close ends the request of that path, granted or not; then it sends no verdict. *)
PortalClose ==
    /\ outbox # <<>> /\ Sent.kind = "close" /\ outbox' = Tail(outbox)
    /\ portal' = [call \in 1..MaxRequests |->
          IF portal[call].handle = Sent.handle /\ portal[call].verdict \in {"asking", "granted"}
          THEN [portal[call] EXCEPT !.verdict = "closed"] ELSE portal[call]]
    /\ UNCHANGED <<active, toggles, state, calls, inbox>>

Portal == PortalInhibit \/ PortalClose \/ \E call \in 1..MaxRequests : PortalDecides(call)
Answers == PortalResponse \/ MethodError \/ MethodReturn

Next == Reconcile \/ Destroy \/ Answers \/ Portal

-------------------------------------------------------------------------------
Held == {call \in 1..MaxRequests : portal[call].verdict \in {"granted", "asking"}}
Quiet == outbox = <<>> /\ inbox = <<>> /\ state.pending = 0

(* Playback that has stopped, or a window that has gone, keeps nothing awake.         *)
NothingIsHeldIdle == Quiet /\ ~active => Held = {}

(* While media plays it is one request that is held, and the one that is known.       *)
AtMostOneIsHeld ==
    Quiet => /\ Cardinality(Held) <= 1
             /\ \A call \in Held : state.handle # NoHandle /\ state.handle = portal[call].handle

(* Playback is left unprotected only when the portal failed or refused the last call. *)
PlaybackIsProtected ==
    Quiet /\ active => portal[calls].verdict \in {"failed", "refused"} \/ calls \in Held

(* Whatever the portal answers, and in whatever order, the screen is kept awake for    *)
(* media that plays, once, and for nothing else.                                      *)
AwakeOnlyForPlayback == NothingIsHeldIdle /\ AtMostOneIsHeld /\ PlaybackIsProtected
===============================================================================
