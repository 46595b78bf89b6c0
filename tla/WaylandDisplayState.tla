---------------------------- MODULE WaylandDisplayState ----------------------------
(* What the player knows of the display it is shown on, under Wayland: the provider   *)
(* asks the compositor for the preferred image description of its surface, follows    *)
(* the changes the compositor announces, and publishes the display's state.  A        *)
(* description takes two round trips, and the surface may go and come back meanwhile.  *)
(* The compositor is external; it handles and answers in order.                       *)
EXTENDS Naturals, Sequences

CONSTANTS
    Identities,   \* identities of image descriptions
    Invalid,      \* those whose description gives no display state
    MaxChanges,   \* bound: changes of the preference
    MaxSurfaces,  \* bound: surfaces of the window
    MaxRefreshes, \* bound: refreshes asked for
    MayReturn     \* whether the preference may go back to an identity it had before

DisplayAssumption ==
    /\ Identities \subseteq Nat \ {0} /\ 1 \in Identities /\ Invalid \subseteq Identities
    /\ MaxChanges \in Nat /\ MaxSurfaces \in Nat /\ MaxRefreshes \in Nat /\ MayReturn \in BOOLEAN

VARIABLES
    provider,    \* Provider: its surface, m_requestSerial, the request, m_preferredIdentity, m_published
    preferred,   \* the compositor's preference, and the surface it announces changes to
    requests,    \* requests on their way to the compositor
    events,      \* its events on their way back
    bounds       \* [surfaces, refreshes]

vars == <<provider, preferred, requests, events, bounds>>

NoRequest == [serial |-> 0, identity |-> 0]
Unknown == 0

(* displayStateFromWaylandDescription: an invalid description gives the default state. *)
State(identity) == IF identity \in Invalid THEN Unknown ELSE identity

Init ==
    /\ provider = [surface |-> 0, serial |-> 0, request |-> NoRequest, identity |-> 0,
                   published |-> Unknown, failed |-> FALSE]
    /\ preferred = [identity |-> 1, highest |-> 1, surface |-> 0, changes |-> 0]
    /\ requests = <<>> /\ events = <<>>
    /\ bounds = [surfaces |-> 0, refreshes |-> 0]

-------------------------------------------------------------------------------
(* The provider.  A destroyed request or feedback object hears no more events.         *)

(* requestPreferredDescription *)
Requested(p) == [p EXCEPT !.serial = @ + 1, !.request = [serial |-> p.serial + 1, identity |-> 0]]
Ask(p, messages) ==
    /\ provider' = Requested(p)
    /\ requests' = requests \o messages \o <<[kind |-> "preferred", serial |-> p.serial + 1]>>

(* clearSurface *)
Cleared(p) == [p EXCEPT !.surface = 0, !.serial = @ + 1, !.request = NoRequest, !.identity = 0]

(* surfaceCreated, or the native window's: attachSurface. *)
AttachSurface ==
    /\ bounds.surfaces < MaxSurfaces
    /\ bounds' = [bounds EXCEPT !.surfaces = @ + 1]
    /\ Ask([Cleared(provider) EXCEPT !.surface = bounds.surfaces + 1],
           <<[kind |-> "feedback", surface |-> bounds.surfaces + 1]>>)
    /\ UNCHANGED <<preferred, events>>

(* surfaceDestroyed, SurfaceAboutToBeDestroyed, detach. *)
ClearSurface ==
    /\ provider.surface # 0
    /\ provider' = Cleared(provider)
    /\ UNCHANGED <<preferred, requests, events, bounds>>

Refresh ==
    /\ provider.surface # 0 /\ bounds.refreshes < MaxRefreshes
    /\ bounds' = [bounds EXCEPT !.refreshes = @ + 1]
    /\ Ask(provider, <<>>)
    /\ UNCHANGED <<preferred, events>>

Event == Head(events)
Deliver(kind) == events # <<>> /\ Event.kind = kind /\ events' = Tail(events)

(* preferred_changed2: a change to the identity already known asks nothing. *)
PreferredChanged ==
    /\ Deliver("changed")
    /\ IF Event.surface # provider.surface \/ Event.identity = provider.identity
       THEN UNCHANGED <<provider, requests>>
       ELSE Ask(provider, <<>>)
    /\ UNCHANGED <<preferred, bounds>>

BugCurrent(serial) == provider.surface # 0
Current(serial) == serial = provider.request.serial /\ provider.request # NoRequest

(* ready2: the description is there; its information is asked for. *)
DescriptionReady ==
    /\ Deliver("ready")
    /\ IF Current(Event.serial)
       THEN /\ provider' = [provider EXCEPT !.request.identity = Event.identity]
            /\ requests' = Append(requests, [kind |-> "information", serial |-> Event.serial])
       ELSE UNCHANGED <<provider, requests>>
    /\ UNCHANGED <<preferred, bounds>>

DescriptionFailed ==
    /\ Deliver("failed")
    /\ provider' = IF Current(Event.serial)
                   THEN [provider EXCEPT !.published = Unknown, !.failed = TRUE] ELSE provider
    /\ UNCHANGED <<preferred, requests, bounds>>

(* done: the description is published, unless it makes no sense. *)
InformationDone ==
    /\ Deliver("done")
    /\ provider' =
          IF ~Current(Event.serial) THEN provider
          ELSE LET identity == provider.request.identity IN
               [provider EXCEPT !.published = State(identity), !.failed = FALSE,
                                !.identity = IF identity \in Invalid THEN @ ELSE identity]
    /\ UNCHANGED <<preferred, requests, bounds>>

-------------------------------------------------------------------------------
(* The compositor. *)

Handle(kind) == requests # <<>> /\ Head(requests).kind = kind

Watch ==
    /\ Handle("feedback") /\ requests' = Tail(requests)
    /\ preferred' = [preferred EXCEPT !.surface = Head(requests).surface]
    /\ UNCHANGED <<provider, events, bounds>>

(* A description is what is preferred when it is asked for; it becomes ready, or fails. *)
Describe ==
    /\ Handle("preferred") /\ requests' = Tail(requests)
    /\ LET serial == Head(requests).serial IN
       \/ events' = Append(events, [kind |-> "ready", serial |-> serial, identity |-> preferred.identity])
       \/ events' = Append(events, [kind |-> "failed", serial |-> serial])
    /\ UNCHANGED <<provider, preferred, bounds>>

Inform ==
    /\ Handle("information") /\ requests' = Tail(requests)
    /\ events' = Append(events, [kind |-> "done", serial |-> Head(requests).serial])
    /\ UNCHANGED <<provider, preferred, bounds>>

(* The window moves to another display, or its display changes. *)
Prefer ==
    /\ preferred.changes < MaxChanges
    /\ \E identity \in Identities \ {preferred.identity} :
          /\ MayReturn \/ identity > preferred.highest
          /\ preferred' = [preferred EXCEPT !.identity = identity, !.changes = @ + 1,
                              !.highest = IF identity > @ THEN identity ELSE @]
          /\ events' = IF preferred.surface = 0 THEN events
                       ELSE Append(events, [kind |-> "changed", surface |-> preferred.surface,
                                            identity |-> identity])
    /\ UNCHANGED <<provider, requests, bounds>>

Next ==
    \/ AttachSurface \/ ClearSurface \/ Refresh
    \/ PreferredChanged \/ DescriptionReady \/ DescriptionFailed \/ InformationDone
    \/ Watch \/ Describe \/ Inform \/ Prefer

-------------------------------------------------------------------------------
(* Once every request is answered, the display that is published is the one the        *)
(* compositor prefers now; none is when its description failed or makes no sense.       *)
PreferenceIsFollowed ==
    provider.surface # 0 /\ requests = <<>> /\ events = <<>> =>
        provider.published = IF provider.failed THEN Unknown ELSE State(preferred.identity)
===============================================================================
