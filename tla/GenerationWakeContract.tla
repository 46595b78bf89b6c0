------------------------ MODULE GenerationWakeContract ------------------------
(***************************************************************************)
(* What a coalesced wake promises to the threads that call it: every       *)
(* request is followed by a handler call that starts after the request was *)
(* stored and that names the newest generation requested so far.  Any      *)
(* number of requests may share one call.                                  *)
(***************************************************************************)
EXTENDS Naturals

CONSTANT Requesters

VARIABLES
  unserved,  \* threads whose last request no handler call has followed yet
  newest,    \* the generation of the latest request, 0 before the first
  called     \* the generation of the latest handler call, 0 before the first

vars == <<unserved, newest, called>>

Init ==
  /\ unserved = {}
  /\ newest = 0
  /\ called = 0

Request(r) ==
  /\ unserved' = unserved \cup {r}
  /\ newest' \in Nat \ {0}
  /\ newest' >= newest
  /\ UNCHANGED called

Serve ==
  /\ unserved # {}
  /\ unserved' = {}
  /\ called' = newest
  /\ UNCHANGED newest

Next == Serve \/ \E r \in Requesters : Request(r)

Spec == Init /\ [][Next]_vars /\ WF_vars(Serve)

===============================================================================
