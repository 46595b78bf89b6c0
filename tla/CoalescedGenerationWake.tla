------------------------ MODULE CoalescedGenerationWake ------------------------
(***************************************************************************)
(* CoalescedGenerationWake.h: worker threads ask the GUI thread to look at *)
(* a playback generation.  Two sequentially consistent atomics keep at     *)
(* most one drain queued on the GUI event loop and retain only the newest  *)
(* generation.  MediaSession owns two of them (frames and metrics).        *)
(*                                                                         *)
(* One action is one atomic access.  The requesters are the threads of the *)
(* running decode operation: they all request its generation, and the      *)
(* worker joins them before it starts the operation of a later generation. *)
(***************************************************************************)
EXTENDS Naturals

CONSTANTS
  Requesters,     \* decode threads that call postFramesAvailable
  MaxGeneration   \* bound: decode operations the worker runs

ASSUME GenerationBound == MaxGeneration \in Nat \ {0}

VARIABLES
  latest,     \* m_latestGeneration, 0 when no request is retained
  pending,    \* m_pending
  at,         \* where each requester stands in request() and its caller
  operation,  \* generation of the running decode operation, 0 for none
  posted,     \* drain events queued on the GUI event loop
  drain,      \* where the GUI thread stands in drain()
  unserved,   \* history: requesters no handler call has followed yet
  newest,     \* history: generation of the latest request
  called      \* history: generation of the latest handler call

vars == <<latest, pending, at, operation, posted, drain, unserved, newest, called>>
history == <<unserved, newest, called>>

RequesterPoints == {"idle", "stored", "claimed"}
DrainPoints == {"idle", "take", "release", "check", "reclaim"}

WakeInit ==
  /\ latest = 0
  /\ pending = FALSE
  /\ at = [r \in Requesters |-> "idle"]
  /\ operation = 0
  /\ posted = 0
  /\ drain = "idle"
  /\ unserved = {}
  /\ newest = 0
  /\ called = 0

-------------------------------------------------------------------------------
(* The worker: decode threads of one operation are joined before the next. *)

StartOperation ==
  /\ operation < MaxGeneration
  /\ \A r \in Requesters : at[r] = "idle"
  /\ operation' = operation + 1
  /\ UNCHANGED <<latest, pending, at, posted, drain, history>>

(* request(generation): store the generation, then claim the wake. *)

BugKeepOlderGeneration(r) ==
  /\ at[r] = "idle"
  /\ operation # 0
  /\ latest' = IF latest = 0 THEN operation ELSE latest
  /\ at' = [at EXCEPT ![r] = "stored"]
  /\ unserved' = unserved \cup {r}
  /\ newest' = operation
  /\ UNCHANGED <<pending, operation, posted, drain, called>>

StoreLatest(r) ==
  /\ at[r] = "idle"
  /\ operation # 0
  /\ latest' = operation
  /\ at' = [at EXCEPT ![r] = "stored"]
  /\ unserved' = unserved \cup {r}
  /\ newest' = operation
  /\ UNCHANGED <<pending, operation, posted, drain, called>>

ClaimPending(r) ==
  /\ at[r] = "stored"
  /\ pending' = TRUE
  /\ at' = [at EXCEPT ![r] = IF pending THEN "idle" ELSE "claimed"]
  /\ UNCHANGED <<latest, operation, posted, drain, history>>

(* The caller of a request() that returned true queues the drain. *)
PostDrain(r) ==
  /\ at[r] = "claimed"
  /\ posted' = posted + 1
  /\ at' = [at EXCEPT ![r] = "idle"]
  /\ UNCHANGED <<latest, pending, operation, drain, history>>

-------------------------------------------------------------------------------
(* drain(): the GUI event loop runs one queued drain at a time. *)

BeginDrain ==
  /\ drain = "idle"
  /\ posted > 0
  /\ posted' = posted - 1
  /\ drain' = "take"
  /\ UNCHANGED <<latest, pending, at, operation, history>>

(* exchange(0); a nonzero generation enters the handler. *)
TakeLatest ==
  /\ drain = "take"
  /\ latest' = 0
  /\ drain' = "release"
  /\ IF latest # 0
     THEN /\ unserved' = {}
          /\ called' = latest
     ELSE UNCHANGED <<unserved, called>>
  /\ UNCHANGED <<pending, at, operation, posted, newest>>

(* The handler has returned: m_pending.store(false). *)
ReleasePending ==
  /\ drain = "release"
  /\ pending' = FALSE
  /\ drain' = "check"
  /\ UNCHANGED <<latest, at, operation, posted, history>>

BugNoSecondLook ==
  /\ drain = "check"
  /\ drain' = "idle"
  /\ UNCHANGED <<latest, pending, at, operation, posted, history>>

CheckLatest ==
  /\ drain = "check"
  /\ drain' = IF latest = 0 THEN "idle" ELSE "reclaim"
  /\ UNCHANGED <<latest, pending, at, operation, posted, history>>

BugReclaimWithoutLooking ==
  /\ drain = "reclaim"
  /\ pending' = TRUE
  /\ drain' = "take"
  /\ UNCHANGED <<latest, at, operation, posted, history>>

ReclaimPending ==
  /\ drain = "reclaim"
  /\ pending' = TRUE
  /\ drain' = IF pending THEN "idle" ELSE "take"
  /\ UNCHANGED <<latest, at, operation, posted, history>>

Request(r) == StoreLatest(r) \/ ClaimPending(r) \/ PostDrain(r)
Drain == BeginDrain \/ TakeLatest \/ ReleasePending \/ CheckLatest \/ ReclaimPending

WakeNext == StartOperation \/ Drain \/ \E r \in Requesters : Request(r)

(* A thread inside request() and the GUI event loop keep running; nobody   *)
(* has to start a request or an operation.                                 *)
WakeFairness ==
  /\ WF_vars(Drain)
  /\ \A r \in Requesters : WF_vars(ClaimPending(r) \/ PostDrain(r))

WakeSpec == WakeInit /\ [][WakeNext]_vars /\ WakeFairness

-------------------------------------------------------------------------------
WakeTypeOK ==
  /\ latest \in Nat
  /\ pending \in BOOLEAN
  /\ at \in [Requesters -> RequesterPoints]
  /\ operation \in Nat
  /\ posted \in Nat
  /\ drain \in DrainPoints
  /\ unserved \subseteq Requesters
  /\ newest \in Nat
  /\ called \in Nat

Claimants == {r \in Requesters : at[r] = "claimed"}
DrainOwns == drain \in {"take", "release"}

(* The wake has one owner exactly while m_pending is set: a requester about *)
(* to post, a queued drain, or the drain that runs.  "Bounds a cross-thread *)
(* wake to one queued owner" (CoalescedGenerationWake.h).                   *)
OneOwner ==
  /\ posted <= 1
  /\ \A r, s \in Claimants : r = s
  /\ pending <=> (posted = 1 \/ Claimants # {} \/ DrainOwns)
  /\ posted = 1 => Claimants = {} /\ ~DrainOwns
  /\ Claimants # {} => ~DrainOwns

(* A retained generation is never stranded: some thread owns the wake, or   *)
(* is between its store and its claim, or the drain has yet to look again.  *)
WakeNotLost ==
  latest # 0 =>
    \/ pending
    \/ \E r \in Requesters : at[r] = "stored"
    \/ drain \in {"check", "reclaim"}

(* The promise to the callers: coalescing loses no request and the handler  *)
(* always gets the newest generation stored.                                *)
Contract == INSTANCE GenerationWakeContract WITH
  Requesters <- Requesters, unserved <- unserved, newest <- newest, called <- called

ServesEveryRequest == Contract!Spec
===============================================================================
