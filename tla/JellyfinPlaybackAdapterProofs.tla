------------------- MODULE JellyfinPlaybackAdapterProofs -------------------
(* The reports to the Jellyfin server, for any items and any bounds.          *)
EXTENDS JellyfinPlaybackAdapter, FiniteSetTheorems, SequenceTheorems, TLAPS

(* A report under way and an occurrence that has started and is not over.      *)
ReportAt(s, i) == i \in DOMAIN s.requests /\ s.requests[i].kind \in Reports
Live(s) == s.started /\ ~s.finished

(* The sign-out or the end of the program waits for the reports. *)
Leaves(s) ==
  s.leaving = "waiting" \/ \E i \in DOMAIN s.deferred : s.deferred[i].kind = "logout"

NoResolution(s) ==
  \A i \in DOMAIN s.requests : s.requests[i].kind = "resolve" => ~s.requests[i].latest

(* The state has its type, and what is aborted is under way. *)
Typed(s) == s \in App /\ s.aborts <= Len(s.requests)

(* A token comes from a login, and a login that is to follow may still.        *)
Accounts(s) ==
  /\ s.token <= s.server
  /\ \A i \in DOMAIN s.requests : s.requests[i].token <= s.server
  /\ s.afterAbort = "login" => s.server < MaxLogins

(* One report is under way at most, and the flags say which.                   *)
Serial(s) ==
  /\ \A i, j \in DOMAIN s.requests : ReportAt(s, i) /\ ReportAt(s, j) => i = j
  /\ s.startPending <=> (\E i \in DOMAIN s.requests : s.requests[i].kind = "start")
  /\ \A i \in DOMAIN s.requests : s.requests[i].kind = "stop" => s.stop # None /\ ~s.startPending

(* No watched mark follows a stop, and no sign-out any report.                 *)
Ordered(s) ==
  \A i, j \in DOMAIN s.requests :
    /\ s.requests[i].kind = "mark" /\ s.requests[j].kind = "stop" => i < j
    /\ s.requests[i].kind = "logout" /\ ReportAt(s, j) => i < j

(* What was sent is one start and then one stop of each occurrence.            *)
Alternates(s) ==
  \A n \in DOMAIN s.reported :
    /\ s.reported[n][1] = IF n % 2 = 1 THEN "start" ELSE "stop"
    /\ n % 2 = 0 => s.reported[n][2] = s.reported[n - 1][2]

(* The stop that is owed: of the occurrence that runs, or of the one that      *)
(* waits for its start to be answered.                                         *)
Owed(s) ==
  LET n == Len(s.reported)
  IN /\ (n % 2 = 1) <=> (Live(s) \/ (s.stop # None /\ s.startPending))
     /\ Live(s) => n > 0 /\ s.reported[n][2] = s.playback.id
     /\ s.stop # None /\ s.startPending => n > 0 /\ s.reported[n][2] = s.stop.id

(* An occurrence that runs is the player's medium and has no stop yet.         *)
Occurrence(s) ==
  /\ s.playback # None => s.playback.id = s.current
  /\ Live(s) => s.playback # None /\ s.stop = None
  /\ s.startPending /\ s.stop = None => Live(s)

Base(s) ==
  /\ Typed(s) /\ Accounts(s) /\ Serial(s) /\ Ordered(s)
  /\ Alternates(s) /\ Owed(s) /\ Occurrence(s)

(* A superseded resolution is stale.                                           *)
Current(s) ==
  \A i \in DOMAIN s.requests :
    s.requests[i].kind = "resolve" /\ s.requests[i].superseded => ~s.requests[i].latest

(* Whoever waits for the reports to settle has closed the playback.            *)
Waits(s) == Leaves(s) => Pending(s) /\ s.playback = None /\ NoResolution(s)

(* A medium that is over has been finished.                                    *)
Over(s) == Live(s) => s.phase # "over"

RunningInv(s) ==
  s.leaving \in {"no", "waiting"} /\ Base(s) /\ Current(s) /\ Waits(s) /\ Over(s)

(* What remains of the program: the reports sent and the one owed.             *)
EndedInv(s) ==
  /\ s.leaving \in {"gone", "late"}
  /\ s.reported \in Seq(Reports \X Nat) /\ s.stop \in Media \cup {None}
  /\ s = [Fresh EXCEPT !.leaving = s.leaving, !.reported = s.reported, !.stop = s.stop]
  /\ Alternates(s)
  /\ LET n == Len(s.reported)
     IN /\ n % 2 = 1 => s.stop # None /\ s.stop.id = s.reported[n][2]
        /\ s.leaving = "gone" => s.stop = None /\ n % 2 = 0

Inv == RunningInv(app) \/ EndedInv(app)

-------------------------------------------------------------------------------
(* What an operator of the model may do to the state.                          *)

(* What only the handlers of the adapter and of leaving change.                *)
Rest(s, t) ==
  /\ t.deferred = s.deferred /\ t.leaving = s.leaving /\ t.server = s.server
  /\ t.aborts = s.aborts /\ t.afterAbort = s.afterAbort

Player(s, t) ==
  /\ t.current = s.current /\ t.phase = s.phase /\ t.playback = s.playback
  /\ t.started = s.started /\ t.finished = s.finished /\ t.startPending = s.startPending
  /\ t.stop = s.stop /\ t.reported = s.reported

New(s, t) == DOMAIN t.requests \ DOMAIN s.requests

(* Requests are added behind those under way, which at most become stale.      *)
Grows(s, t) ==
  /\ Len(s.requests) <= Len(t.requests)
  /\ \A i \in DOMAIN s.requests :
       /\ t.requests[i].kind = s.requests[i].kind
       /\ t.requests[i].token = s.requests[i].token
       /\ t.requests[i].latest => s.requests[i].latest
  /\ \A i \in New(s, t) : t.requests[i].token <= t.server

Marked(s, t) ==
  \A i \in DOMAIN t.requests :
    t.requests[i].superseded => i \in DOMAIN s.requests /\ s.requests[i].superseded

(* The browser's own steps: the adapter's part stays as it is, and the         *)
(* requests added are neither reports nor what waits for them.                 *)
Quiet(s, t) ==
  /\ t \in App
  /\ Rest(s, t) /\ Player(s, t) /\ Grows(s, t)
  /\ t.token <= t.server
  /\ \A i \in New(s, t) :
       /\ t.requests[i].kind \notin Reports \cup {"mark", "logout"}
       /\ t.requests[i].kind = "resolve" => ~Pending(s)

Steady(s, t) == Quiet(s, t) /\ Marked(s, t)

(* None is no medium. *)
LEMMA NoneIsNoMedium == None \notin Media
<1> SUFFICES ASSUME None \in Media PROVE FALSE
  OBVIOUS
<1>1. DOMAIN None = {"item", "id", "server"}
  BY DEF Media
<1>2. DOMAIN None = {"none"}
  BY DEF None
<1> QED BY <1>1, <1>2

(* The requests under way are numbered from one.                               *)
LEMMA Requests ==
  ASSUME NEW s \in App
  PROVE  /\ s.requests \in Seq(NetworkRequest)
         /\ Len(s.requests) \in Nat
         /\ DOMAIN s.requests = 1..Len(s.requests)
         /\ \A i \in DOMAIN s.requests : s.requests[i] \in NetworkRequest
<1>1. s.requests \in Seq(NetworkRequest)
  BY DEF App
<1> QED BY <1>1, LenProperties, ElementOfSeq

(* What was reported is a sequence, numbered from one. *)
LEMMA Reported ==
  ASSUME NEW s \in App
  PROVE  /\ s.reported \in Seq(Reports \X Nat)
         /\ Len(s.reported) \in Nat
         /\ DOMAIN s.reported = 1..Len(s.reported)
<1>1. s.reported \in Seq(Reports \X Nat)
  BY DEF App
<1> QED BY <1>1, LenProperties

(* Steps of the browser may follow one another.                                *)
LEMMA SteadyReflexive ==
  ASSUME NEW s \in App, s.token <= s.server
  PROVE  Steady(s, s)
BY Requests DEF Steady, Quiet, Marked, Rest, Player, Grows, New

(* Two quiet steps are a quiet step. *)
LEMMA QuietTransitive ==
  ASSUME NEW s \in App, NEW t \in App, NEW u \in App, Quiet(s, t), Quiet(t, u)
  PROVE  Quiet(s, u)
<1>1. Rest(s, u) /\ Player(s, u) /\ Pending(s) = Pending(t)
  BY DEF Quiet, Rest, Player, Pending
<1>2. New(s, u) = New(s, t) \cup New(t, u)
  BY Requests DEF New, Quiet, Grows
<1>3. \A i \in New(s, t) : i \in DOMAIN t.requests /\ u.requests[i].kind = t.requests[i].kind
                          /\ u.requests[i].token = t.requests[i].token
  BY Requests DEF New, Quiet, Grows
<1>4. t.server = u.server
  BY DEF Quiet, Rest
<1>5. Grows(s, u)
  <2>1. Len(s.requests) <= Len(u.requests)
    BY Requests DEF Quiet, Grows
  <2>2. \A i \in DOMAIN s.requests :
          /\ u.requests[i].kind = s.requests[i].kind
          /\ u.requests[i].token = s.requests[i].token
          /\ u.requests[i].latest => s.requests[i].latest
    BY Requests DEF Quiet, Grows
  <2>3. \A i \in New(s, u) : u.requests[i].token <= u.server
    BY <1>2, <1>3, <1>4 DEF Quiet, Grows
  <2> QED BY <2>1, <2>2, <2>3 DEF Grows
<1> QED BY <1>1, <1>2, <1>3, <1>5 DEF Quiet

(* Two steady steps are a steady step. *)
LEMMA SteadyTransitive ==
  ASSUME NEW s \in App, NEW t \in App, NEW u \in App, Steady(s, t), Steady(t, u)
  PROVE  Steady(s, u)
BY QuietTransitive DEF Steady, Marked

(* Requests sent behind the reports under way leave the adapter as it is: a   *)
(* watched mark when no stop is under way, a sign-out when no report is.       *)
NoStop(s) == \A i \in DOMAIN s.requests : s.requests[i].kind # "stop"
NoReport(s) == \A i \in DOMAIN s.requests : s.requests[i].kind \notin Reports

(* Requests that are no reports may join those under way: a mark when no stop  *)
(* is there, a sign-out when no report is.                                     *)
LEMMA BehindKeeps ==
  ASSUME NEW s \in App, NEW t \in App, Base(s), Player(s, t), Grows(s, t),
         t.aborts = s.aborts, t.server = s.server, t.afterAbort = s.afterAbort,
         t.token <= t.server,
         \A i \in New(s, t) : /\ t.requests[i].kind \notin Reports
                              /\ t.requests[i].kind = "mark" => NoStop(s)
                              /\ t.requests[i].kind = "logout" => NoReport(s)
  PROVE  Base(t)
<1>1. DOMAIN s.requests \subseteq DOMAIN t.requests /\ Len(s.requests) <= Len(t.requests)
  BY Requests DEF Grows
<1>2. Typed(t)
  BY <1>1, Requests, SMTT(30) DEF Base, Typed, App
<1>3. Accounts(t)
  BY Requests DEF Base, Accounts, Grows, New
<1>4. \A i \in DOMAIN t.requests : t.requests[i].kind \in Reports
        => i \in DOMAIN s.requests /\ t.requests[i].kind = s.requests[i].kind
  BY DEF Grows, New
<1>5. \A i \in DOMAIN s.requests : t.requests[i].kind = s.requests[i].kind
  BY DEF Grows
<1>6. Serial(t)
  <2>1. \A i \in DOMAIN t.requests : ReportAt(t, i) => ReportAt(s, i)
    BY <1>4 DEF ReportAt
  <2>2. \A i, j \in DOMAIN t.requests : ReportAt(t, i) /\ ReportAt(t, j) => i = j
    BY <2>1 DEF Base, Serial, ReportAt
  <2>3. (\E i \in DOMAIN t.requests : t.requests[i].kind = "start")
          <=> (\E i \in DOMAIN s.requests : s.requests[i].kind = "start")
    BY <1>1, <1>4, <1>5 DEF Reports
  <2>4. \A i \in DOMAIN t.requests : t.requests[i].kind = "stop" => t.stop # None /\ ~t.startPending
    BY <1>4 DEF Base, Serial, Player, Reports
  <2> QED BY <2>2, <2>3, <2>4 DEF Base, Serial, Player
<1>7. Ordered(t)
  <2> SUFFICES ASSUME NEW i \in DOMAIN t.requests, NEW j \in DOMAIN t.requests,
                      t.requests[j].kind \in Reports,
                      \/ t.requests[i].kind = "mark" /\ t.requests[j].kind = "stop"
                      \/ t.requests[i].kind = "logout"
               PROVE  i < j
    BY DEF Ordered, ReportAt, Reports
  <2>1. j \in DOMAIN s.requests /\ t.requests[j].kind = s.requests[j].kind
    BY <1>4
  <2>2. i \in DOMAIN s.requests
    BY <2>1 DEF New, NoStop, NoReport
  <2>3. t.requests[i].kind = s.requests[i].kind
    BY <1>5, <2>2
  <2> QED BY <2>1, <2>2, <2>3 DEF Base, Ordered, ReportAt
<1>8. Alternates(t) /\ Owed(t) /\ Occurrence(t)
  <2>1. Live(t) <=> Live(s)
    BY DEF Player, Live
  <2>2. Alternates(t)
    BY DEF Base, Player, Alternates
  <2>3. Owed(t)
    BY <2>1 DEF Base, Player, Owed
  <2>4. Occurrence(t)
    BY <2>1 DEF Base, Player, Occurrence
  <2> QED BY <2>2, <2>3, <2>4
<1> QED BY <1>2, <1>3, <1>6, <1>7, <1>8 DEF Base

(* The browser's steps keep what the adapter relies on.                        *)
LEMMA QuietKeeps ==
  ASSUME NEW s \in App, NEW t \in App, Quiet(s, t), Base(s)
  PROVE  /\ Base(t)
         /\ Leaves(t) = Leaves(s) /\ Pending(t) = Pending(s)
         /\ Waits(s) => Waits(t)
         /\ Over(s) => Over(t)
<1>1. Rest(s, t) /\ Player(s, t) /\ Grows(s, t)
  BY DEF Quiet
<1>2. Base(t)
  <2>1. t.aborts = s.aborts /\ t.server = s.server /\ t.afterAbort = s.afterAbort
    BY <1>1 DEF Rest
  <2> QED BY <1>1, <2>1, BehindKeeps DEF Quiet
<1>10. Leaves(t) = Leaves(s) /\ Pending(t) = Pending(s)
  BY <1>1 DEF Rest, Player, Leaves, Pending
<1>11. ASSUME Waits(s) PROVE Waits(t)
  <2>1. SUFFICES ASSUME Leaves(t) PROVE NoResolution(t) /\ Pending(t) /\ t.playback = None
    BY DEF Waits
  <2>2. Pending(s) /\ NoResolution(s) /\ s.playback = None
    BY <1>10, <1>11, <2>1 DEF Waits
  <2>3. NoResolution(t)
    BY <1>1, <2>2 DEF NoResolution, Quiet, Grows, New
  <2> QED BY <1>1, <1>10, <2>2, <2>3 DEF Player
<1>12. Over(s) => Over(t)
  BY <1>1 DEF Over, Live, Player
<1> QED BY <1>2, <1>10, <1>11, <1>12

(* What adds no superseded resolution and revives none leaves them stale. *)
LEMMA MarkedKeepsCurrent ==
  ASSUME NEW s \in App, NEW t \in App, Grows(s, t), Marked(s, t), Current(s)
  PROVE  Current(t)
BY DEF Grows, Marked, Current

(* A steady step keeps the invariant. *)
LEMMA SteadyKeeps ==
  ASSUME NEW s \in App, NEW t \in App, Steady(s, t), RunningInv(s)
  PROVE  RunningInv(t)
BY QuietKeeps, MarkedKeepsCurrent DEF Steady, Quiet, Rest, RunningInv

-------------------------------------------------------------------------------
(* The browser's operators.                                                    *)

(* Numbers that are overtaken.                                                 *)
LEMMA OutdateSteady ==
  ASSUME NEW s \in App, s.token <= s.server, NEW kinds
  PROVE  Steady(s, Outdate(s, kinds))
<1> DEFINE t == Outdate(s, kinds)
           Stale(i) == IF s.requests[i].kind \in kinds
                       THEN [s.requests[i] EXCEPT !.latest = FALSE] ELSE s.requests[i]
<1>1. \A i \in DOMAIN s.requests :
        /\ Stale(i) \in NetworkRequest
        /\ Stale(i).kind = s.requests[i].kind /\ Stale(i).token = s.requests[i].token
        /\ Stale(i).superseded = s.requests[i].superseded
        /\ Stale(i).latest => s.requests[i].latest
  <2> SUFFICES ASSUME NEW i \in DOMAIN s.requests
               PROVE  /\ Stale(i) \in NetworkRequest
                      /\ Stale(i).kind = s.requests[i].kind
                      /\ Stale(i).token = s.requests[i].token
                      /\ Stale(i).superseded = s.requests[i].superseded
                      /\ Stale(i).latest => s.requests[i].latest
    OBVIOUS
  <2>1. PICK r \in NetworkRequest : r = s.requests[i]
    BY Requests
  <2>2. PICK e : e = [r EXCEPT !.latest = FALSE]
    OBVIOUS
  <2>3. /\ e \in NetworkRequest /\ e.kind = r.kind /\ e.token = r.token
        /\ e.superseded = r.superseded /\ ~e.latest
    BY <2>2 DEF NetworkRequest
  <2>4. Stale(i) = IF r.kind \in kinds THEN e ELSE r
    BY <2>1, <2>2
  <2> HIDE DEF Stale
  <2> QED BY <2>1, <2>3, <2>4
<1>2. t = [s EXCEPT !.requests = [i \in DOMAIN s.requests |-> Stale(i)]]
  BY DEF Outdate, App
<1> HIDE DEF Stale
<1>3. PICK q : q = [i \in DOMAIN s.requests |-> Stale(i)]
  OBVIOUS
<1>4. q \in Seq(NetworkRequest) /\ Len(q) = Len(s.requests) /\ DOMAIN q = DOMAIN s.requests
  BY <1>1, <1>3, Requests
<1>5. t \in App /\ t.requests = q /\ Rest(s, t) /\ Player(s, t) /\ t.token = s.token
  BY <1>2, <1>3, <1>4, ZenonT(60) DEF App, Rest, Player
<1> HIDE DEF t
<1>6. Grows(s, t) /\ Marked(s, t) /\ New(s, t) = {}
  BY <1>1, <1>3, <1>4, <1>5, Requests DEF Grows, Marked, New
<1>7. t.token <= t.server
  BY <1>5 DEF Rest
<1> QED BY <1>5, <1>6, <1>7 DEF Steady, Quiet, t

(* Nothing that is outdated is the latest. *)
LEMMA OutdateEnds ==
  ASSUME NEW s \in App
  PROVE  NoResolution(NextResolution(s))
<1> DEFINE t == Outdate(s, {"resolve"})
<1>1. t.requests = [i \in DOMAIN s.requests |->
        IF s.requests[i].kind \in {"resolve"} THEN [s.requests[i] EXCEPT !.latest = FALSE]
        ELSE s.requests[i]]
  BY DEF Outdate, App
<1>2. \A i \in DOMAIN s.requests : s.requests[i] \in NetworkRequest
  BY Requests
<1> HIDE DEF t
<1>3. NoResolution(t)
  BY <1>1, <1>2 DEF NoResolution, NetworkRequest
<1> QED BY <1>3 DEF NextResolution, t

(* A request is sent behind the others.                                        *)
LEMMA SendTyped ==
  ASSUME NEW s \in App, NEW kind \in Kinds, NEW item \in Items \cup {None},
         NEW media \in Media \cup {None},
         kind \in Openings => item \in Items, kind \in Reports => media \in Media
  PROVE  RequestOf(s, kind, item, media) \in NetworkRequest
BY DEF RequestOf, NetworkRequest, App

(* Where a request sent goes, and what it leaves alone. *)
LEMMA Sent ==
  ASSUME NEW s \in App, s.token <= s.server, NEW t \in App, NEW r \in NetworkRequest,
         t.requests = Append(s.requests, r), r.token = s.token, ~r.superseded,
         t.server = s.server
  PROVE  /\ Grows(s, t) /\ Marked(s, t)
         /\ Len(t.requests) = Len(s.requests) + 1
         /\ New(s, t) = {Len(s.requests) + 1}
         /\ t.requests[Len(s.requests) + 1] = r
         /\ \A i \in DOMAIN s.requests : t.requests[i] = s.requests[i]
<1>1. /\ Len(t.requests) = Len(s.requests) + 1
      /\ t.requests[Len(s.requests) + 1] = r
      /\ \A i \in DOMAIN s.requests : t.requests[i] = s.requests[i]
      /\ DOMAIN t.requests = DOMAIN s.requests \cup {Len(s.requests) + 1}
      /\ Len(s.requests) + 1 \notin DOMAIN s.requests
  BY Requests, AppendProperties
<1>2. New(s, t) = {Len(s.requests) + 1}
  BY <1>1 DEF New
<1>3. Grows(s, t)
  BY <1>1, <1>2, Requests DEF Grows
<1>4. Marked(s, t)
  BY <1>1 DEF Marked
<1> QED BY <1>1, <1>2, <1>3, <1>4

(* JellyfinClient's own requests are steady steps. *)
LEMMA SendSteady ==
  ASSUME NEW s \in App, s.token <= s.server,
         NEW kind \in {"load", "home", "login", "resolve"}, kind = "resolve" => ~Pending(s),
         NEW item \in Items \cup {None}, NEW media \in Media \cup {None},
         kind \in Openings => item \in Items
  PROVE  Steady(s, Send(s, kind, item, media))
<1> DEFINE t == Send(s, kind, item, media)
           r == RequestOf(s, kind, item, media)
<1>1. kind \in Kinds /\ kind \notin Reports \cup {"mark", "logout"}
  BY DEF Kinds, Numbered, Reports
<1>2. r \in NetworkRequest
  BY <1>1, SendTyped
<1>3. r.token = s.token /\ ~r.superseded /\ r.kind = kind
  BY DEF RequestOf
<1>4. Append(s.requests, r) \in Seq(NetworkRequest)
  BY <1>2, Requests, AppendProperties
<1> HIDE DEF r
<1>5. t \in App /\ t.requests = Append(s.requests, r) /\ Rest(s, t) /\ Player(s, t) /\ t.token = s.token
  BY <1>4 DEF App, Send, Rest, Player, r
<1> HIDE DEF t
<1>6. /\ Grows(s, t) /\ Marked(s, t) /\ New(s, t) = {Len(s.requests) + 1}
      /\ t.requests[Len(s.requests) + 1] = r
  BY <1>2, <1>3, <1>5, Sent DEF Rest
<1> QED BY <1>1, <1>3, <1>5, <1>6 DEF Steady, Quiet, Rest, t

(* The flags are the browser's own.                                            *)
LEMMA FlagsSteady ==
  ASSUME NEW s \in App, s.token <= s.server, NEW t \in App, Rest(s, t), Player(s, t),
         t.requests = s.requests, t.token \in {0, s.token, s.server}
  PROVE  Steady(s, t)
<1>1. t.token <= t.server
  BY DEF App, Rest
<1> QED BY <1>1, Requests DEF Steady, Quiet, Grows, New, Marked

(* JellyfinBrowser::load. *)
LEMMA LoadSteady ==
  ASSUME NEW s \in App, s.token <= s.server
  PROVE  Steady(s, Load(s))
<1>1. CASE s.token = 0
  <2>1. PICK t : t = [s EXCEPT !.busy = FALSE]
    OBVIOUS
  <2>2. t \in App /\ Rest(s, t) /\ Player(s, t) /\ t.requests = s.requests /\ t.token = s.token
    BY <2>1 DEF App, Rest, Player
  <2> QED BY <1>1, <2>1, <2>2, FlagsSteady DEF Load
<1>2. CASE s.token # 0
  <2>1. PICK t : t = [s EXCEPT !.busy = TRUE]
    OBVIOUS
  <2>2. t \in App /\ Rest(s, t) /\ Player(s, t) /\ t.requests = s.requests /\ t.token = s.token
    BY <2>1 DEF App, Rest, Player
  <2>3. Steady(s, t)
    BY <2>2, FlagsSteady
  <2>4. PICK u : u = NextRequest(t)
    OBVIOUS
  <2>5. Steady(t, u)
    BY <2>2, <2>3, <2>4, OutdateSteady DEF NextRequest, Steady, Quiet
  <2>6. Steady(u, Send(u, "load", None, None))
    BY <2>5, SendSteady DEF Steady, Quiet, Openings
  <2>7. Steady(s, Send(u, "load", None, None))
    BY <2>2, <2>3, <2>5, <2>6, SteadyTransitive DEF Steady, Quiet
  <2> QED BY <1>2, <2>1, <2>4, <2>7 DEF Load
<1> QED BY <1>1, <1>2

(* JellyfinBrowser::refresh. *)
LEMMA RefreshSteady ==
  ASSUME NEW s \in App, s.token <= s.server
  PROVE  Steady(s, Refresh(s))
BY LoadSteady, SteadyReflexive DEF Refresh

(* JellyfinBrowser::cancelHomeOpening. *)
LEMMA CancelHomeOpeningSteady ==
  ASSUME NEW s \in App, s.token <= s.server
  PROVE  Steady(s, CancelHomeOpening(s))
<1>1. PICK t : t = [s EXCEPT !.openingHome = FALSE, !.busy = FALSE]
  OBVIOUS
<1>2. t \in App /\ Rest(s, t) /\ Player(s, t) /\ t.requests = s.requests /\ t.token = s.token
  BY <1>1, ZenonT(60) DEF App, Rest, Player
<1>3. Steady(s, t)
  BY <1>2, FlagsSteady
<1>4. Steady(t, NextRequest(t))
  BY <1>2, <1>3, OutdateSteady DEF NextRequest, Steady, Quiet
<1>5. Steady(s, NextRequest(t))
  BY <1>2, <1>3, <1>4, SteadyTransitive DEF Steady, Quiet
<1> QED BY <1>1, <1>5, SteadyReflexive DEF CancelHomeOpening

(* JellyfinPlaybackAdapter::play. *)
LEMMA PlaySteady ==
  ASSUME NEW s \in App, s.token <= s.server, NEW item \in Items
  PROVE  Steady(s, Play(s, item))
<1>1. CASE Pending(s)
  BY <1>1, SteadyReflexive DEF Play
<1>2. CASE ~Pending(s)
  <2>1. PICK u : u = NextResolution(s)
    OBVIOUS
  <2>2. Steady(s, u)
    BY <2>1, OutdateSteady DEF NextResolution
  <2>3. u \in App /\ u.token <= u.server /\ Pending(u) = Pending(s)
    BY <2>2 DEF Steady, Quiet, Player, Pending
  <2>4. PICK t : t = [u EXCEPT !.sync = TRUE]
    OBVIOUS
  <2>5. /\ t \in App /\ Rest(u, t) /\ Player(u, t) /\ t.requests = u.requests
        /\ t.token = u.token
    BY <2>3, <2>4, ZenonT(60) DEF App, Rest, Player
  <2>6. Steady(u, t) /\ Pending(t) = Pending(u) /\ t.token <= t.server
    BY <2>3, <2>5, FlagsSteady DEF Player, Pending, Rest
  <2>7. Steady(t, Send(t, "resolve", item, None))
    BY <1>2, <2>3, <2>5, <2>6, SendSteady
  <2>8. Send(t, "resolve", item, None) \in App
    BY <2>7 DEF Steady, Quiet
  <2>9. Steady(u, Send(t, "resolve", item, None))
    BY <2>3, <2>5, <2>6, <2>7, <2>8, SteadyTransitive
  <2>10. Steady(s, Send(t, "resolve", item, None))
    BY <2>2, <2>3, <2>8, <2>9, SteadyTransitive
  <2> QED BY <1>2, <2>1, <2>4, <2>10 DEF Play
<1> QED BY <1>1, <1>2

-------------------------------------------------------------------------------
(* The adapter's reports.                                                      *)

Handled(s, t) ==
  /\ t \in App /\ Base(t)
  /\ Rest(s, t) /\ Grows(s, t) /\ Marked(s, t)
  /\ t.current = s.current /\ t.phase = s.phase /\ t.playback = s.playback
  /\ Pending(s) => Pending(t)
  /\ \A i \in New(s, t) : t.requests[i].kind \in Reports

(* A report is sent behind the other requests and noted.                       *)
LEMMA ReportSent ==
  ASSUME NEW s \in App, Typed(s), Accounts(s), NEW kind \in Reports, NEW media \in Media,
         NEW t, t = Report(s, kind, media)
  PROVE  /\ t \in App /\ Typed(t) /\ Accounts(t)
         /\ Rest(s, t) /\ Grows(s, t) /\ Marked(s, t)
         /\ t.current = s.current /\ t.phase = s.phase /\ t.playback = s.playback
         /\ t.started = s.started /\ t.finished = s.finished /\ t.stop = s.stop
         /\ t.startPending = s.startPending
         /\ t.reported = Append(s.reported, <<kind, media.id>>)
         /\ New(s, t) = {Len(s.requests) + 1}
         /\ t.requests[Len(s.requests) + 1].kind = kind
         /\ \A i \in DOMAIN s.requests : t.requests[i] = s.requests[i]
<1>1. PICK c : c = [s EXCEPT !.reported = Append(@, <<kind, media.id>>)]
  OBVIOUS
<1>2. Append(s.reported, <<kind, media.id>>) \in Seq(Reports \X Nat)
  BY Reported, AppendProperties DEF Media
<1>3. /\ c \in App /\ c.requests = s.requests /\ c.token = s.token /\ c.server = s.server
      /\ Rest(s, c)
      /\ c.current = s.current /\ c.phase = s.phase /\ c.playback = s.playback
      /\ c.started = s.started /\ c.finished = s.finished /\ c.stop = s.stop
      /\ c.startPending = s.startPending
      /\ c.reported = Append(s.reported, <<kind, media.id>>)
  BY <1>1, <1>2 DEF App, Rest
<1>4. PICK r : r = RequestOf(c, kind, None, media)
  OBVIOUS
<1>5. r \in NetworkRequest /\ r.kind = kind /\ r.token = s.token /\ ~r.superseded
  <2>1. kind \in Kinds /\ kind \notin Openings
    BY DEF Kinds, Openings, Reports
  <2>2. r \in NetworkRequest
    BY <1>3, <1>4, <2>1, SendTyped
  <2> QED BY <1>3, <1>4, <2>2 DEF RequestOf
<1>6. t = [c EXCEPT !.requests = Append(@, r)]
  BY <1>1, <1>4 DEF Report, Send
<1>7. Append(s.requests, r) \in Seq(NetworkRequest)
  BY <1>5, Requests, AppendProperties
<1>8. /\ t \in App /\ t.requests = Append(s.requests, r) /\ t.token = s.token
      /\ t.server = s.server /\ Rest(s, t)
      /\ t.current = s.current /\ t.phase = s.phase /\ t.playback = s.playback
      /\ t.started = s.started /\ t.finished = s.finished /\ t.stop = s.stop
      /\ t.startPending = s.startPending
      /\ t.reported = Append(s.reported, <<kind, media.id>>)
  <2>0. Append(c.requests, r) \in Seq(NetworkRequest)
    BY <1>3, <1>7
  <2>1. t \in App
    BY <1>3, <1>6, <2>0, ZenonT(60) DEF App
  <2>2. /\ t.requests = Append(c.requests, r) /\ t.token = c.token
        /\ t.server = c.server /\ Rest(c, t)
        /\ t.current = c.current /\ t.phase = c.phase /\ t.playback = c.playback
        /\ t.started = c.started /\ t.finished = c.finished /\ t.stop = c.stop
        /\ t.startPending = c.startPending
        /\ t.reported = c.reported
    BY <1>3, <1>6 DEF App, Rest
  <2>3. Rest(s, t)
    BY <1>3, <2>2 DEF Rest
  <2> QED BY <1>3, <2>1, <2>2, <2>3
<1>9. /\ Grows(s, t) /\ Marked(s, t)
      /\ Len(t.requests) = Len(s.requests) + 1
      /\ New(s, t) = {Len(s.requests) + 1}
      /\ t.requests[Len(s.requests) + 1] = r
      /\ \A i \in DOMAIN s.requests : t.requests[i] = s.requests[i]
  BY <1>5, <1>8, Sent DEF Accounts
<1>10. Typed(t)
  BY <1>8, <1>9, Requests, SMTT(30) DEF Typed, Rest, App
<1>11. Accounts(t)
  <2>1. \A i \in DOMAIN t.requests : i \in DOMAIN s.requests \/ i = Len(s.requests) + 1
    BY <1>9 DEF New
  <2> QED BY <1>5, <1>8, <1>9, <2>1 DEF Accounts, Rest
<1> QED BY <1>5, <1>8, <1>9, <1>10, <1>11

(* Odd and even lengths alternate. *)
LEMMA Parity ==
  ASSUME NEW n \in Nat
  PROVE  /\ n % 2 = 0 <=> n % 2 # 1
         /\ n % 2 = 0 <=> (n + 1) % 2 = 1
         /\ n % 2 = 1 <=> (n + 1) % 2 = 0
         /\ n % 2 = 1 => n > 0
<1>1. n % 2 = 0 <=> n % 2 # 1
  OBVIOUS
<1>2. n % 2 = 0 => (n + 1) % 2 = 1
  OBVIOUS
<1>3. (n + 1) % 2 = 1 => n % 2 = 0
  OBVIOUS
<1>4. n % 2 = 1 <=> (n + 1) % 2 = 0
  OBVIOUS
<1>5. n % 2 = 1 => n > 0
  OBVIOUS
<1> QED BY <1>1, <1>2, <1>3, <1>4, <1>5

(* The next report is a start after a stop and a stop after its start.         *)
LEMMA AlternatesOnward ==
  ASSUME NEW s \in App, NEW t \in App, Alternates(s), NEW report,
         t.reported = Append(s.reported, report),
         report[1] = IF Len(s.reported) % 2 = 0 THEN "start" ELSE "stop",
         Len(s.reported) % 2 = 1 => report[2] = s.reported[Len(s.reported)][2]
  PROVE  /\ Alternates(t)
         /\ Len(t.reported) = Len(s.reported) + 1
         /\ t.reported[Len(s.reported) + 1] = report
<1>1. PICK n \in Nat : n = Len(s.reported)
  BY Reported
<1>2. /\ DOMAIN s.reported = 1..n
      /\ Len(t.reported) = n + 1
      /\ DOMAIN t.reported = 1..(n + 1)
      /\ t.reported[n + 1] = report
      /\ \A i \in 1..n : t.reported[i] = s.reported[i]
  BY <1>1, Reported, AppendProperties
<1>3. ASSUME NEW i \in 1..n
      PROVE  /\ t.reported[i][1] = IF i % 2 = 1 THEN "start" ELSE "stop"
             /\ i % 2 = 0 => t.reported[i][2] = t.reported[i - 1][2]
  <2>1. i % 2 = 0 => i - 1 \in 1..n
    OBVIOUS
  <2>2. /\ s.reported[i][1] = IF i % 2 = 1 THEN "start" ELSE "stop"
        /\ i % 2 = 0 => s.reported[i][2] = s.reported[i - 1][2]
    BY <1>2 DEF Alternates
  <2> QED BY <1>2, <2>1, <2>2
<1>4. /\ report[1] = IF (n + 1) % 2 = 1 THEN "start" ELSE "stop"
      /\ (n + 1) % 2 = 0 => report[2] = t.reported[n][2]
  <2>1. n % 2 = 1 => n \in 1..n
    OBVIOUS
  <2>2. n % 2 = 1 => s.reported[n][2] = t.reported[n][2]
    BY <1>2, <2>1
  <2>3. n % 2 = 0 <=> (n + 1) % 2 = 1
    BY Parity
  <2>4. n % 2 = 1 <=> (n + 1) % 2 = 0
    BY Parity
  <2> QED BY <1>1, <2>2, <2>3, <2>4
<1>5. (n + 1) - 1 = n
  OBVIOUS
<1>6. Alternates(t)
  <2> SUFFICES ASSUME NEW i \in 1..(n + 1)
               PROVE  /\ t.reported[i][1] = IF i % 2 = 1 THEN "start" ELSE "stop"
                      /\ i % 2 = 0 => t.reported[i][2] = t.reported[i - 1][2]
    BY <1>2 DEF Alternates
  <2>1. CASE i \in 1..n
    BY <1>3, <2>1
  <2>2. CASE i = n + 1
    BY <1>2, <1>4, <1>5, <2>2
  <2>3. i \in 1..n \/ i = n + 1
    OBVIOUS
  <2> QED BY <2>1, <2>2, <2>3
<1> QED BY <1>1, <1>2, <1>6

(* The stop that is owed is sent when no report is under way.                  *)
LEMMA StopSent ==
  ASSUME NEW s \in App, Typed(s), Accounts(s), NoReport(s), ~s.startPending, s.stop \in Media,
         ~Live(s), Occurrence(s), Alternates(s), Len(s.reported) % 2 = 1,
         s.reported[Len(s.reported)][2] = s.stop.id,
         NEW t, t = SendStop(s)
  PROVE  /\ Handled(s, t) /\ Pending(t) /\ ~Live(t) /\ t.stop = s.stop
         /\ \A i \in New(s, t) : t.requests[i].kind = "stop"
<1> DEFINE k == Len(s.requests) + 1
<1>1. /\ t \in App /\ Typed(t) /\ Accounts(t)
      /\ Rest(s, t) /\ Grows(s, t) /\ Marked(s, t)
      /\ t.current = s.current /\ t.phase = s.phase /\ t.playback = s.playback
      /\ t.started = s.started /\ t.finished = s.finished /\ t.stop = s.stop
      /\ t.startPending = s.startPending
      /\ t.reported = Append(s.reported, <<"stop", s.stop.id>>)
      /\ New(s, t) = {k}
      /\ t.requests[k].kind = "stop"
      /\ \A i \in DOMAIN s.requests : t.requests[i] = s.requests[i]
  <2>1. t = Report(s, "stop", s.stop) /\ "stop" \in Reports
    BY DEF SendStop, Reports
  <2>2. PICK m \in Media : m = s.stop
    OBVIOUS
  <2>3. t = Report(s, "stop", m)
    BY <2>1, <2>2
  <2> QED BY <2>1, <2>2, <2>3, ReportSent
<1> HIDE DEF k
<1>2. \A i \in DOMAIN t.requests : i \in DOMAIN s.requests \/ i = k
  BY <1>1 DEF New
<1>3. t.stop # None
  BY <1>1, NoneIsNoMedium
<1>4. Serial(t)
  <2>1. \A i \in DOMAIN t.requests : t.requests[i].kind \in Reports => i = k
    BY <1>1, <1>2 DEF NoReport
  <2>2. \A i \in DOMAIN t.requests : t.requests[i].kind # "start"
    BY <1>1, <2>1 DEF Reports
  <2> QED BY <1>1, <1>3, <2>1, <2>2 DEF Serial, ReportAt
<1>5. Ordered(t)
  <2>1. \A i \in DOMAIN s.requests : i < k
    BY Requests DEF k
  <2>2. \A i \in DOMAIN t.requests : t.requests[i].kind \in Reports => i = k
    BY <1>1, <1>2 DEF NoReport
  <2>3. \A i \in DOMAIN t.requests : t.requests[i].kind \in {"mark", "logout"} => i < k
    BY <1>1, <1>2, <2>1
  <2> QED BY <2>2, <2>3 DEF Ordered, ReportAt, Reports
<1>6. Alternates(t) /\ Len(t.reported) = Len(s.reported) + 1
  <2>1. PICK id : id = s.stop.id
    OBVIOUS
  <2>2. t.reported = Append(s.reported, <<"stop", id>>) /\ id = s.reported[Len(s.reported)][2]
    BY <1>1, <2>1
  <2>3. PICK report : report = <<"stop", id>>
    OBVIOUS
  <2>4. Len(s.reported) % 2 # 0
    BY Reported, Parity
  <2> QED BY <1>1, <2>2, <2>3, <2>4, AlternatesOnward, ZenonT(60)
<1>7. ~Live(t)
  BY <1>1 DEF Live
<1>8. Owed(t)
  <2>1. ~t.startPending
    BY <1>1
  <2>2. Len(t.reported) % 2 # 1
    BY <1>6, Reported, Parity
  <2> QED BY <1>7, <2>1, <2>2 DEF Owed
<1>9. Occurrence(t)
  BY <1>1, <1>7 DEF Occurrence
<1>10. Base(t)
  BY <1>1, <1>4, <1>5, <1>6, <1>8, <1>9 DEF Base
<1>11. Pending(t)
  BY <1>3 DEF Pending
<1> QED BY <1>1, <1>7, <1>10, <1>11 DEF Handled, Reports

(* With no report under way and none owed, none is noted as under way.        *)
LEMMA NothingPending ==
  ASSUME NEW s \in App, Serial(s), ~Pending(s)
  PROVE  NoReport(s)
BY DEF Serial, Pending, NoReport, Reports

(* The occurrence that runs is finished.                                       *)
LEMMA FinishHandled ==
  ASSUME NEW s \in App, Base(s), NEW t, t = Finish(s)
  PROVE  /\ Handled(s, t) /\ ~Live(t)
         /\ ~Live(s) => t = s
<1>1. CASE s.playback = None \/ ~s.started \/ s.finished
  <2>1. t = s
    BY <1>1 DEF Finish
  <2>2. ~Live(s)
    BY <1>1 DEF Live, Base, Occurrence
  <2>3. Steady(s, s)
    BY SteadyReflexive DEF Base, Accounts
  <2> QED BY <2>1, <2>2, <2>3 DEF Handled, Steady, Quiet, New, Player
<1>2. CASE ~(s.playback = None \/ ~s.started \/ s.finished)
  <2>1. PICK f : f = [s EXCEPT !.finished = TRUE, !.stop = s.playback, !.sync = TRUE]
    OBVIOUS
  <2>2. /\ f \in App /\ Rest(s, f) /\ f.requests = s.requests /\ f.token = s.token
        /\ f.current = s.current /\ f.phase = s.phase /\ f.playback = s.playback
        /\ f.started = s.started /\ f.finished = TRUE /\ f.stop = s.playback
        /\ f.startPending = s.startPending /\ f.reported = s.reported
    BY <2>1 DEF App, Rest
  <2>3. t = IF f.startPending THEN f ELSE SendStop(f)
    BY <1>2, <2>1 DEF Finish
  <2>4. Live(s) /\ ~Live(f) /\ s.playback \in Media /\ s.stop = None
    BY <1>2, <2>2 DEF Live, App, Base, Occurrence
  <2>5. f.stop \in Media /\ f.stop # None /\ Pending(f)
    BY <2>2, <2>4, NoneIsNoMedium DEF Pending
  <2>6. Typed(f) /\ Accounts(f) /\ Ordered(f) /\ Alternates(f)
    BY <2>2 DEF Base, Typed, Accounts, Ordered, Alternates, Rest, ReportAt
  <2>7. Occurrence(f)
    BY <2>2, <2>4, <2>5 DEF Base, Occurrence
  <2>8. Len(f.reported) % 2 = 1 /\ Len(f.reported) > 0 /\ f.reported[Len(f.reported)][2] = f.stop.id
    BY <2>2, <2>4 DEF Base, Owed
  <2>9. \A i \in DOMAIN s.requests : s.requests[i].kind # "stop"
    BY <2>4 DEF Base, Serial
  <2>10. Grows(s, f) /\ Marked(s, f) /\ New(s, f) = {}
    <3>1. Grows(s, f)
      BY <2>2, Requests DEF Grows, New
    <3> QED BY <2>2, <3>1 DEF Marked, New
  <2>11. CASE s.startPending
    <3>1. Serial(f)
      BY <2>2, <2>9 DEF Base, Serial, ReportAt
    <3>2. Owed(f)
      <4>1. f.startPending /\ f.stop # None
        BY <2>2, <2>5, <2>11
      <4> QED BY <2>4, <2>8, <4>1 DEF Owed
    <3>3. Base(f)
      BY <2>6, <2>7, <3>1, <3>2 DEF Base
    <3> QED BY <2>2, <2>3, <2>4, <2>5, <2>10, <2>11, <3>3 DEF Handled
  <2>12. CASE ~s.startPending
    <3>1. NoReport(f)
      BY <2>2, <2>9, <2>12 DEF NoReport, Base, Serial, Reports
    <3>2. t = SendStop(f)
      BY <2>2, <2>3, <2>12
    <3>3. Handled(f, t) /\ Pending(t) /\ ~Live(t)
      BY <2>2, <2>4, <2>5, <2>6, <2>7, <2>8, <2>12, <3>1, <3>2, StopSent
    <3>4. Grows(s, t) /\ Marked(s, t) /\ New(s, t) = New(f, t)
      BY <2>2, <2>10, <3>3 DEF Handled, Grows, Marked, New
    <3>5. Rest(s, t)
      BY <2>2, <3>3 DEF Handled, Rest
    <3> QED BY <2>2, <2>4, <3>3, <3>4, <3>5 DEF Handled
  <2> QED BY <2>11, <2>12 DEF App
<1> QED BY <1>1, <1>2

(* The adapter observes the player: what is over is finished, and what plays  *)
(* with no report pending is started.                                          *)
LEMMA ObserveHandled ==
  ASSUME NEW s \in App, Base(s), NEW t, t = Observe(s)
  PROVE  /\ Handled(s, t) /\ Over(t)
         /\ s.playback = None => t = s
         /\ ~Live(s) /\ s.stop = None => t.stop = None
<1>0. Handled(s, s)
  <2>1. Steady(s, s)
    BY SteadyReflexive DEF Base, Accounts
  <2> QED BY <2>1 DEF Handled, Steady, Quiet, New, Player
<1>1. CASE ~Loaded(s)
  <2>1. t = s
    BY <1>1 DEF Observe
  <2>2. s.playback = None
    BY <1>1 DEF Loaded, Base, Occurrence
  <2> QED BY <1>0, <2>1, <2>2 DEF Over, Base, Occurrence
<1>2. CASE Loaded(s) /\ s.phase = "over"
  <2>1. t = Finish(s)
    BY <1>2 DEF Observe
  <2> QED BY <1>2, <2>1, FinishHandled DEF Over, Loaded
<1>3. CASE Loaded(s) /\ s.phase # "over"
           /\ (s.phase # "playing" \/ Pending(s) \/ (s.started /\ ~s.finished))
  <2>1. t = s
    BY <1>3 DEF Observe
  <2> QED BY <1>0, <1>3, <2>1 DEF Over, Loaded
<1>4. CASE Loaded(s) /\ s.phase # "over"
           /\ ~(s.phase # "playing" \/ Pending(s) \/ (s.started /\ ~s.finished))
  <2>1. PICK f : f = [s EXCEPT !.started = TRUE, !.finished = FALSE, !.startPending = TRUE]
    OBVIOUS
  <2>2. /\ f \in App /\ Rest(s, f) /\ f.requests = s.requests /\ f.token = s.token
        /\ f.current = s.current /\ f.phase = s.phase /\ f.playback = s.playback
        /\ f.started = TRUE /\ f.finished = FALSE /\ f.stop = s.stop
        /\ f.startPending = TRUE /\ f.reported = s.reported
    BY <2>1 DEF App, Rest
  <2>3. t = Report(f, "start", s.playback)
    BY <1>4, <2>1 DEF Observe
  <2>4. s.playback \in Media /\ s.playback # None /\ s.stop = None /\ ~Live(s) /\ ~s.startPending
    BY <1>4 DEF Loaded, App, Pending, Live
  <2>5. Typed(f) /\ Accounts(f) /\ Ordered(f) /\ Alternates(f) /\ NoReport(s)
    BY <1>4, <2>2, NothingPending
    DEF Base, Typed, Accounts, Ordered, Alternates, Rest, ReportAt
  <2> DEFINE k == Len(s.requests) + 1
  <2>6. /\ t \in App /\ Typed(t) /\ Accounts(t)
        /\ Rest(f, t) /\ Grows(f, t) /\ Marked(f, t)
        /\ t.current = f.current /\ t.phase = f.phase /\ t.playback = f.playback
        /\ t.started = f.started /\ t.finished = f.finished /\ t.stop = f.stop
        /\ t.startPending = f.startPending
        /\ t.reported = Append(f.reported, <<"start", s.playback.id>>)
        /\ New(f, t) = {k}
        /\ t.requests[k].kind = "start"
        /\ \A i \in DOMAIN f.requests : t.requests[i] = f.requests[i]
    <3>1. "start" \in Reports
      BY DEF Reports
    <3>2. PICK m \in Media : m = s.playback
      BY <2>4
    <3>3. t = Report(f, "start", m)
      BY <2>3, <3>2
    <3>4. k = Len(f.requests) + 1
      BY <2>2
    <3> HIDE DEF k
    <3>5. f \in App /\ Typed(f) /\ Accounts(f)
      BY <2>2, <2>5
    <3> QED BY <3>1, <3>2, <3>3, <3>4, <3>5, ReportSent
  <2> HIDE DEF k
  <2>7. \A i \in DOMAIN t.requests : i \in DOMAIN s.requests \/ i = k
    BY <2>2, <2>6 DEF New
  <2>8. \A i \in DOMAIN t.requests : t.requests[i].kind \in Reports => i = k
    BY <2>2, <2>5, <2>6, <2>7 DEF NoReport
  <2>9. k \in DOMAIN t.requests
    BY <2>6 DEF New
  <2>10. Serial(t)
    <3>1. \A i \in DOMAIN t.requests : t.requests[i].kind # "stop"
      BY <2>6, <2>8 DEF Reports
    <3> QED BY <2>2, <2>6, <2>8, <2>9, <3>1 DEF Serial, ReportAt
  <2>11. Ordered(t)
    <3>1. \A i \in DOMAIN s.requests : i < k
      BY Requests DEF k
    <3>2. \A i \in DOMAIN t.requests : t.requests[i].kind \in {"mark", "logout"} => i < k
      BY <2>2, <2>6, <2>7, <3>1
    <3> QED BY <2>8, <3>2 DEF Ordered, ReportAt, Reports
  <2>12. Len(s.reported) % 2 = 0
    <3>1. PICK n \in Nat : n = Len(s.reported)
      BY Reported
    <3>2. n % 2 # 1
      BY <2>4, <3>1 DEF Base, Owed
    <3>3. n % 2 \in {0, 1}
      OBVIOUS
    <3> QED BY <3>1, <3>2, <3>3
  <2>13. /\ Alternates(t) /\ Len(t.reported) = Len(s.reported) + 1
         /\ t.reported[Len(s.reported) + 1][2] = s.playback.id
    <3>3. Alternates(s)
      BY DEF Base
    <3>4. PICK report : report = <<"start", s.playback.id>>
      OBVIOUS
    <3>5. Len(s.reported) % 2 # 1
      BY <2>12, Reported, Parity
    <3>6. t.reported = Append(s.reported, report)
      BY <2>2, <2>6, <3>4
    <3>7. /\ report[1] = IF Len(s.reported) % 2 = 0 THEN "start" ELSE "stop"
          /\ report[2] = s.playback.id
      BY <2>12, <3>4
    <3>8. t \in App
      BY <2>6
    <3>9. /\ Alternates(t) /\ Len(t.reported) = Len(s.reported) + 1
          /\ t.reported[Len(s.reported) + 1] = report
      <4>1. Len(s.reported) % 2 = 1 => report[2] = s.reported[Len(s.reported)][2]
        BY <3>5
      <4>2. report[1] = IF Len(s.reported) % 2 = 0 THEN "start" ELSE "stop"
        BY <3>7
      <4>3. Alternates(t) /\ Len(t.reported) = Len(s.reported) + 1
        BY <3>3, <3>6, <3>8, <4>1, <4>2, AlternatesOnward
      <4>4. t.reported[Len(s.reported) + 1] = report
        BY <3>3, <3>6, <3>8, <4>1, <4>2, AlternatesOnward
      <4> QED BY <4>3, <4>4
    <3> QED BY <3>7, <3>9
  <2>14. Live(t) /\ t.stop = None /\ t.playback = s.playback
    BY <2>2, <2>4, <2>6 DEF Live
  <2>15. Owed(t)
    <3>1. Len(t.reported) % 2 = 1 /\ Len(t.reported) > 0
      <4>1. PICK n \in Nat : n = Len(s.reported)
        BY Reported
      <4>2. n % 2 = 0 /\ Len(t.reported) = n + 1
        BY <2>12, <2>13, <4>1
      <4>3. (n + 1) % 2 = 1 /\ n + 1 > 0
        BY <4>2, Parity
      <4> QED BY <4>2, <4>3
    <3>2. t.reported[Len(t.reported)][2] = t.playback.id
      BY <2>13, <2>14
    <3> QED BY <2>14, <3>1, <3>2 DEF Owed
  <2>16. Occurrence(t)
    BY <2>2, <2>4, <2>6, <2>14 DEF Occurrence, Base
  <2>17. Base(t)
    BY <2>6, <2>10, <2>11, <2>13, <2>15, <2>16 DEF Base
  <2>18. Grows(s, t) /\ Marked(s, t) /\ New(s, t) = {k} /\ Rest(s, t)
    BY <2>2, <2>6 DEF Grows, Marked, New, Rest
  <2>19. Over(t)
    BY <1>4, <2>2, <2>6 DEF Over
  <2> QED BY <1>4, <2>2, <2>4, <2>6, <2>14, <2>17, <2>18, <2>19 DEF Handled, Reports, Pending
<1> QED BY <1>1, <1>2, <1>3, <1>4

-------------------------------------------------------------------------------
(* Media that close.                                                           *)

Closed(s, t) ==
  /\ t \in App /\ Base(t)
  /\ Rest(s, t) /\ Grows(s, t)
  /\ t.playback = None /\ NoResolution(t)
  /\ Pending(s) => Pending(t)

(* What grows twice has grown. *)
LEMMA GrowsTransitive ==
  ASSUME NEW s \in App, NEW t \in App, NEW u \in App, Grows(s, t), Grows(t, u),
         t.server = u.server
  PROVE  Grows(s, u)
<1>1. New(s, u) = New(s, t) \cup New(t, u)
  BY Requests DEF New, Grows
<1>2. \A i \in New(s, t) : u.requests[i].token = t.requests[i].token
  BY Requests DEF New, Grows
<1>3. Len(s.requests) <= Len(u.requests)
  BY Requests DEF Grows
<1>4. \A i \in DOMAIN s.requests :
        /\ u.requests[i].kind = s.requests[i].kind
        /\ u.requests[i].token = s.requests[i].token
        /\ u.requests[i].latest => s.requests[i].latest
  BY Requests DEF Grows
<1>5. \A i \in New(s, u) : u.requests[i].token <= u.server
  BY <1>1, <1>2 DEF Grows
<1> QED BY <1>3, <1>4, <1>5 DEF Grows

(* A closed medium leaves nothing that runs, and no resolution to arrive.      *)
LEMMA ClosedKeeps ==
  ASSUME NEW s \in App, NEW t, Closed(s, t), s.leaving \in {"no", "waiting"},
         Leaves(s) => Pending(s)
  PROVE  RunningInv(t)
<1>1. Leaves(t) <=> Leaves(s)
  BY DEF Closed, Rest, Leaves
<1>2. Waits(t)
  BY <1>1 DEF Waits, Closed
<1>3. Current(t)
  BY DEF Current, Closed, NoResolution
<1>4. Over(t)
  BY DEF Over, Closed, Base, Occurrence
<1> QED BY <1>2, <1>3, <1>4 DEF RunningInv, Closed, Rest

(* The player may change once its medium is closed.                            *)
LEMMA ClosedMoves ==
  ASSUME NEW s \in App, NEW t \in App, NEW u \in App, Closed(s, t), Rest(t, u),
         u.requests = t.requests, u.token = t.token, u.playback = None,
         u.started = t.started, u.finished = t.finished, u.startPending = t.startPending,
         u.stop = t.stop, u.reported = t.reported
  PROVE  Closed(s, u)
<1>1. Base(t) /\ ~Live(t)
  BY DEF Closed, Base, Occurrence
<1>2. Live(u) <=> Live(t)
  BY DEF Live
<1>3. Typed(u) /\ Accounts(u)
  BY <1>1 DEF Base, Typed, Accounts, Rest
<1>4. Serial(u) /\ Ordered(u) /\ Alternates(u)
  BY <1>1 DEF Base, Serial, Ordered, ReportAt, Alternates
<1>5. Owed(u)
  BY <1>1, <1>2 DEF Base, Owed
<1>6. Occurrence(u)
  BY <1>1, <1>2 DEF Base, Occurrence
<1>7. Rest(s, u) /\ (Pending(s) => Pending(u))
  BY DEF Closed, Rest, Pending
<1>8. NoResolution(u) /\ Grows(s, u)
  BY DEF Closed, NoResolution, Grows, New, Rest
<1> QED BY <1>3, <1>4, <1>5, <1>6, <1>7, <1>8 DEF Closed, Base

(* The handler of mediaClosing closes the playback of the medium that is let   *)
(* go of.                                                                      *)
LEMMA MediaClosingCloses ==
  ASSUME NEW s \in App, Base(s), NEW t, t = MediaClosing(s)
  PROVE  Closed(s, t)
<1>1. PICK b : b = CancelHomeOpening(s)
  OBVIOUS
<1>2. b \in App /\ Steady(s, b) /\ Base(b)
  BY <1>1, CancelHomeOpeningSteady, QuietKeeps DEF Base, Accounts, Steady, Quiet
<1>3. PICK c : c = NextResolution(b)
  OBVIOUS
<1>4. c \in App /\ Steady(b, c) /\ Base(c) /\ NoResolution(c)
  BY <1>2, <1>3, OutdateSteady, OutdateEnds, QuietKeeps
  DEF NextResolution, Base, Accounts, Steady, Quiet
<1>5. PICK d : d = IF Pending(c) THEN c ELSE [c EXCEPT !.sync = FALSE]
  OBVIOUS
<1>6. /\ d \in App /\ Rest(c, d) /\ Player(c, d) /\ d.requests = c.requests
      /\ d.token = c.token
  <2>1. CASE Pending(c)
    BY <1>4, <1>5, <2>1 DEF Rest, Player
  <2>2. CASE ~Pending(c)
    <3>1. d = [c EXCEPT !.sync = FALSE]
      BY <1>5, <2>2
    <3> QED BY <1>4, <3>1, ZenonT(60) DEF App, Rest, Player
  <2> QED BY <2>1, <2>2
<1>7. Steady(c, d)
  BY <1>4, <1>6, FlagsSteady DEF Base, Accounts
<1>8. Base(d) /\ NoResolution(d) /\ Quiet(s, d) /\ (Pending(d) <=> Pending(s))
  <2>1. Base(d)
    BY <1>4, <1>6, <1>7, QuietKeeps DEF Steady
  <2>2. NoResolution(d)
    BY <1>4, <1>6 DEF NoResolution
  <2>3. Steady(s, c)
    BY <1>2, <1>4, SteadyTransitive
  <2>4. Steady(s, d)
    BY <1>4, <1>6, <1>7, <2>3, SteadyTransitive
  <2> QED BY <2>1, <2>2, <2>4 DEF Steady, Quiet, Player, Pending
<1>9. t = IF Loaded(d) THEN [Finish(d) EXCEPT !.playback = None] ELSE d
  BY <1>1, <1>3, <1>5 DEF MediaClosing
<1>10. CASE ~Loaded(d)
  <2>1. d.playback = None
    BY <1>8, <1>10 DEF Loaded, Base, Occurrence
  <2> QED BY <1>8, <1>9, <1>10, <2>1 DEF Closed, Quiet
<1>11. CASE Loaded(d)
  <2>1. PICK f : f = Finish(d)
    OBVIOUS
  <2>2. Handled(d, f) /\ ~Live(f) /\ f \in App
    BY <1>6, <1>8, <2>1, FinishHandled DEF Handled
  <2>3. t = [f EXCEPT !.playback = None]
    BY <1>9, <1>11, <2>1
  <2>4. /\ t \in App /\ Rest(f, t) /\ t.requests = f.requests /\ t.token = f.token
        /\ t.playback = None
        /\ t.started = f.started /\ t.finished = f.finished
        /\ t.startPending = f.startPending /\ t.stop = f.stop /\ t.reported = f.reported
    BY <2>2, <2>3, ZenonT(60) DEF App, Rest
  <2>5. Base(t)
    <3>1. Live(t) <=> Live(f)
      BY <2>4 DEF Live
    <3>2. Base(f)
      BY <2>2 DEF Handled
    <3>3. Typed(t) /\ Accounts(t)
      BY <2>4, <3>2 DEF Base, Typed, Accounts, Rest
    <3>4. Serial(t) /\ Ordered(t) /\ Alternates(t)
      BY <2>4, <3>2 DEF Base, Serial, Ordered, ReportAt, Alternates
    <3>5. Owed(t)
      BY <2>2, <2>4, <3>1, <3>2 DEF Base, Owed
    <3>6. Occurrence(t)
      BY <2>2, <2>4, <3>1, <3>2 DEF Base, Occurrence
    <3> QED BY <3>3, <3>4, <3>5, <3>6 DEF Base
  <2>6. NoResolution(t)
    BY <1>8, <2>2, <2>4 DEF NoResolution, Handled, Grows, New, Reports
  <2>7. Rest(d, t) /\ (Pending(d) => Pending(t))
    BY <2>2, <2>4 DEF Handled, Rest, Pending
  <2>8. Grows(d, t)
    BY <2>2, <2>4 DEF Handled, Grows, New, Rest
  <2>9. Grows(s, t)
    BY <1>6, <1>8, <2>4, <2>7, <2>8, GrowsTransitive DEF Quiet, Rest
  <2>10. Rest(s, t) /\ (Pending(s) => Pending(t))
    BY <1>8, <2>7 DEF Quiet, Rest
  <2> QED BY <2>4, <2>5, <2>6, <2>9, <2>10 DEF Closed
<1> QED BY <1>10, <1>11

(* MediaSession::cancel closes the playback. *)
LEMMA ClosePlayerCloses ==
  ASSUME NEW s \in App, Base(s), NEW t, t = ClosePlayer(s)
  PROVE  Closed(s, t)
<1>1. PICK c : c = MediaClosing(s)
  OBVIOUS
<1>2. Closed(s, c) /\ c \in App
  BY <1>1, MediaClosingCloses DEF Closed
<1>3. t = [c EXCEPT !.current = 0, !.phase = "empty"]
  BY <1>1 DEF ClosePlayer
<1>4. /\ t \in App /\ Rest(c, t) /\ t.requests = c.requests /\ t.token = c.token
      /\ t.playback = c.playback
      /\ t.started = c.started /\ t.finished = c.finished
      /\ t.startPending = c.startPending /\ t.stop = c.stop /\ t.reported = c.reported
  <2>1. t \in App
    <3>1. "empty" \in Phases /\ "quiet" \in Phases /\ c \in App
      BY <1>2 DEF Phases
    <3>2. [c EXCEPT !.current = 0, !.phase = "empty"] \in App
      BY <3>1 DEF App
    <3> QED BY <1>3, <3>2
  <2>2. c \in App
    BY <1>2
  <2> QED BY <1>3, <2>1, <2>2 DEF App, Rest
<1> QED BY <1>2, <1>4, ClosedMoves DEF Closed

(* MediaSession::openMedia closes the playback of the medium it replaces. *)
LEMMA OpenPlayerCloses ==
  ASSUME NEW s \in App, Base(s), NEW t, t = OpenPlayer(s)
  PROVE  Closed(s, t) /\ t.phase = "quiet" /\ ~Live(t)
<1>1. PICK c : c = MediaClosing(s)
  OBVIOUS
<1>2. Closed(s, c) /\ c \in App
  BY <1>1, MediaClosingCloses DEF Closed
<1>3. t = [c EXCEPT !.opened = @ + 1, !.current = c.opened + 1, !.phase = "quiet"]
  BY <1>1 DEF OpenPlayer
<1>4. /\ t \in App /\ Rest(c, t) /\ t.requests = c.requests /\ t.token = c.token
      /\ t.playback = c.playback /\ t.phase = "quiet"
      /\ t.started = c.started /\ t.finished = c.finished
      /\ t.startPending = c.startPending /\ t.stop = c.stop /\ t.reported = c.reported
  <2>1. t \in App
    <3>1. "empty" \in Phases /\ "quiet" \in Phases /\ c \in App
      BY <1>2 DEF Phases
    <3>2. PICK n \in Nat : n = c.opened + 1
      BY <3>1, SMTT(30) DEF App
    <3>3. [c EXCEPT !.opened = n, !.current = n, !.phase = "quiet"] \in App
      BY <3>1 DEF App
    <3> QED BY <1>3, <3>2, <3>3
  <2>2. c \in App
    BY <1>2
  <2> QED BY <1>3, <2>1, <2>2 DEF App, Rest
<1>5. Closed(s, t)
  BY <1>2, <1>4, ClosedMoves DEF Closed
<1> QED BY <1>4, <1>5 DEF Closed, Base, Occurrence

(* JellyfinPlaybackAdapter::close. *)
LEMMA CloseCloses ==
  ASSUME NEW s \in App, Base(s), NEW t, t = Close(s)
  PROVE  Closed(s, t)
<1>3. PICK c : c = NextResolution(s)
  OBVIOUS
<1>4. c \in App /\ Steady(s, c) /\ Base(c) /\ NoResolution(c)
  BY <1>3, OutdateSteady, OutdateEnds, QuietKeeps
  DEF NextResolution, Base, Accounts, Steady, Quiet
<1>5. PICK d : d = IF Pending(c) THEN c ELSE [c EXCEPT !.sync = FALSE]
  OBVIOUS
<1>6. /\ d \in App /\ Rest(c, d) /\ Player(c, d) /\ d.requests = c.requests
      /\ d.token = c.token
  <2>1. CASE Pending(c)
    BY <1>4, <1>5, <2>1 DEF Rest, Player
  <2>2. CASE ~Pending(c)
    <3>1. d = [c EXCEPT !.sync = FALSE]
      BY <1>5, <2>2
    <3> QED BY <1>4, <3>1, ZenonT(60) DEF App, Rest, Player
  <2> QED BY <2>1, <2>2
<1>7. Steady(c, d)
  BY <1>4, <1>6, FlagsSteady DEF Base, Accounts
<1>8. Base(d) /\ NoResolution(d) /\ Quiet(s, d) /\ (Pending(d) <=> Pending(s))
  <2>1. Base(d)
    BY <1>4, <1>6, <1>7, QuietKeeps DEF Steady
  <2>2. NoResolution(d)
    BY <1>4, <1>6 DEF NoResolution
  <2>4. Steady(s, d)
    BY <1>4, <1>6, <1>7, SteadyTransitive
  <2> QED BY <2>1, <2>2, <2>4 DEF Steady, Quiet, Player, Pending
<1>9. t = IF Loaded(d) THEN ClosePlayer(d) ELSE d
  BY <1>3, <1>5 DEF Close
<1>10. CASE ~Loaded(d)
  <2>1. d.playback = None
    BY <1>8, <1>10 DEF Loaded, Base, Occurrence
  <2> QED BY <1>8, <1>9, <1>10, <2>1 DEF Closed, Quiet
<1>11. CASE Loaded(d)
  <2>1. Closed(d, t) /\ t \in App
    BY <1>6, <1>8, <1>9, <1>11, ClosePlayerCloses DEF Closed
  <2>2. Grows(s, t)
    BY <1>6, <1>8, <2>1, GrowsTransitive DEF Quiet, Closed, Rest
  <2>3. Rest(s, t) /\ (Pending(s) => Pending(t))
    BY <1>8, <2>1 DEF Quiet, Rest, Closed
  <2> QED BY <2>1, <2>2, <2>3 DEF Closed
<1> QED BY <1>10, <1>11

-------------------------------------------------------------------------------
(* A request that is answered leaves the others in their order.                *)

Behind(i, j) == IF j < i THEN j ELSE j + 1

(* Where the entries of a sequence are once one is removed. *)
LEMMA Removal ==
  ASSUME NEW S, NEW q \in Seq(S), NEW i \in 1..Len(q)
  PROVE  /\ RemoveAt(q, i) \in Seq(S)
         /\ Len(RemoveAt(q, i)) = Len(q) - 1
         /\ \A j \in 1..(Len(q) - 1) : RemoveAt(q, i)[j] = q[Behind(i, j)]
<1>1. PICK n \in Nat : n = Len(q)
  OBVIOUS
<1>2. i \in 1..n /\ \A j \in 1..n : q[j] \in S
  BY <1>1
<1>3. PICK a : a = SubSeq(q, 1, i - 1)
  OBVIOUS
<1>4. PICK b : b = SubSeq(q, i + 1, n)
  OBVIOUS
<1>5. a \in Seq(S) /\ Len(a) = i - 1 /\ \A j \in 1..(i - 1) : a[j] = q[j]
  <2>1. \A j \in 1..(i - 1) : q[j] \in S
    BY <1>2
  <2>2. 1 \in Int /\ i - 1 \in Int
    BY <1>2
  <2>3. /\ a \in Seq(S) /\ Len(a) = IF 1 <= i - 1 THEN (i - 1) - 1 + 1 ELSE 0
        /\ \A j \in 1..((i - 1) - 1 + 1) : a[j] = q[1 + j - 1]
    BY <1>3, <2>1, <2>2, SubSeqProperties
  <2> QED BY <1>2, <2>3
<1>6. b \in Seq(S) /\ Len(b) = n - i /\ \A j \in 1..(n - i) : b[j] = q[i + j]
  <2>1. \A j \in (i + 1)..n : q[j] \in S
    BY <1>2
  <2>2. i + 1 \in Int /\ n \in Int
    BY <1>2
  <2>3. /\ b \in Seq(S) /\ Len(b) = IF i + 1 <= n THEN n - (i + 1) + 1 ELSE 0
        /\ \A j \in 1..(n - (i + 1) + 1) : b[j] = q[(i + 1) + j - 1]
    BY <1>4, <2>1, <2>2, SubSeqProperties
  <2> QED BY <1>2, <2>3
<1>7. RemoveAt(q, i) = a \o b
  BY <1>1, <1>3, <1>4 DEF RemoveAt
<1>8. /\ a \o b \in Seq(S) /\ Len(a \o b) = n - 1
      /\ \A j \in 1..(n - 1) : (a \o b)[j] = IF j <= i - 1 THEN a[j] ELSE b[j - (i - 1)]
  <2>1. /\ a \o b \in Seq(S) /\ Len(a \o b) = Len(a) + Len(b)
        /\ \A j \in 1..Len(a) + Len(b) : (a \o b)[j] = IF j <= Len(a) THEN a[j] ELSE b[j - Len(a)]
    BY <1>5, <1>6, ConcatProperties
  <2>2. Len(a) = i - 1 /\ Len(a) + Len(b) = n - 1
    BY <1>2, <1>5, <1>6
  <2> QED BY <2>1, <2>2
<1>9. ASSUME NEW j \in 1..(n - 1) PROVE (a \o b)[j] = q[Behind(i, j)]
  <2>1. CASE j < i
    BY <1>2, <1>5, <1>8, <2>1 DEF Behind
  <2>2. CASE ~(j < i)
    <3>1. j - (i - 1) \in 1..(n - i) /\ i + (j - (i - 1)) = j + 1
      BY <1>2, <2>2
    <3>2. (a \o b)[j] = b[j - (i - 1)]
      BY <1>2, <1>8, <2>2
    <3> QED BY <1>6, <2>2, <3>1, <3>2 DEF Behind
  <2> QED BY <2>1, <2>2
<1> QED BY <1>1, <1>7, <1>8, <1>9

(* Without a request the others are there, in their order. *)
LEMMA WithoutIt ==
  ASSUME NEW s \in App, NEW i \in DOMAIN s.requests, NEW w, w = Without(s, i)
  PROVE  /\ w \in App /\ Rest(s, w) /\ Player(s, w) /\ w.token = s.token
         /\ Len(w.requests) = Len(s.requests) - 1
         /\ \A j \in DOMAIN w.requests :
              /\ Behind(i, j) \in DOMAIN s.requests /\ Behind(i, j) # i
              /\ w.requests[j] = s.requests[Behind(i, j)]
         /\ \A k \in DOMAIN s.requests : k # i =>
              \E j \in DOMAIN w.requests : Behind(i, j) = k
         /\ \A j, k \in DOMAIN w.requests : j < k <=> Behind(i, j) < Behind(i, k)
<1>1. PICK n \in Nat : n = Len(s.requests)
  BY Requests
<1>2. i \in 1..n /\ DOMAIN s.requests = 1..n /\ s.requests \in Seq(NetworkRequest)
  BY <1>1, Requests
<1>3. PICK q : q = RemoveAt(s.requests, i)
  OBVIOUS
<1>4. /\ q \in Seq(NetworkRequest) /\ Len(q) = n - 1
      /\ \A j \in 1..(n - 1) : q[j] = s.requests[Behind(i, j)]
  BY <1>1, <1>2, <1>3, Removal
<1>5. w = [s EXCEPT !.requests = q]
  BY <1>3 DEF Without
<1>6. [s EXCEPT !.requests = q] \in App
  BY <1>4 DEF App
<1>7. /\ w \in App /\ Rest(s, w) /\ Player(s, w) /\ w.token = s.token
      /\ w.requests = q
  BY <1>5, <1>6 DEF App, Rest, Player
<1>8. DOMAIN q = 1..(n - 1)
  BY <1>4
<1>9. \A j \in 1..(n - 1) : Behind(i, j) \in 1..n /\ Behind(i, j) # i
  BY <1>2 DEF Behind
<1>10. \A k \in 1..n : k # i => \E j \in 1..(n - 1) : Behind(i, j) = k
  <2> SUFFICES ASSUME NEW k \in 1..n, k # i PROVE \E j \in 1..(n - 1) : Behind(i, j) = k
    OBVIOUS
  <2>1. CASE k < i
    <3>1. k \in 1..(n - 1) /\ Behind(i, k) = k
      BY <1>2, <2>1 DEF Behind
    <3> QED BY <3>1
  <2>2. CASE k > i
    <3>1. k - 1 \in 1..(n - 1) /\ Behind(i, k - 1) = k
      BY <1>2, <2>2 DEF Behind
    <3> QED BY <3>1
  <2> QED BY <1>2, <2>1, <2>2
<1>11. \A j, k \in 1..(n - 1) : j < k <=> Behind(i, j) < Behind(i, k)
  BY <1>2 DEF Behind
<1> QED BY <1>1, <1>2, <1>4, <1>7, <1>8, <1>9, <1>10, <1>11

(* Without the request, everything holds that does not speak of it.            *)
LEMMA WithoutKeeps ==
  ASSUME NEW s \in App, NEW i \in DOMAIN s.requests, NEW w, w = Without(s, i),
         Base(s), s.aborts < Len(s.requests)
  PROVE  /\ w \in App /\ Rest(s, w) /\ Player(s, w) /\ w.token = s.token
         /\ Typed(w) /\ Accounts(w) /\ Ordered(w)
         /\ Alternates(w) /\ Owed(w) /\ Occurrence(w)
         /\ (NoResolution(s) => NoResolution(w)) /\ (Current(s) => Current(w))
         /\ (Over(s) => Over(w)) /\ (Waits(s) => Waits(w))
         /\ s.requests[i].kind \notin Reports => Base(w)
         /\ s.requests[i].kind \in Reports => NoReport(w)
<1>1. /\ w \in App /\ Rest(s, w) /\ Player(s, w) /\ w.token = s.token
      /\ Len(w.requests) = Len(s.requests) - 1
      /\ \A j \in DOMAIN w.requests :
           /\ Behind(i, j) \in DOMAIN s.requests /\ Behind(i, j) # i
           /\ w.requests[j] = s.requests[Behind(i, j)]
      /\ \A k \in DOMAIN s.requests : k # i =>
           \E j \in DOMAIN w.requests : Behind(i, j) = k
      /\ \A j, k \in DOMAIN w.requests : j < k <=> Behind(i, j) < Behind(i, k)
  BY WithoutIt
<1>2. Typed(w)
  <2>1. w.aborts = s.aborts
    BY <1>1 DEF Rest
  <2>2. s.aborts \in Nat /\ Len(s.requests) \in Nat
    BY Requests DEF App
  <2> QED BY <1>1, <2>1, <2>2 DEF Typed
<1>3. Accounts(w)
  BY <1>1 DEF Base, Accounts, Rest
<1>4. Ordered(w)
  <2> SUFFICES ASSUME NEW j \in DOMAIN w.requests, NEW k \in DOMAIN w.requests
               PROVE  /\ w.requests[j].kind = "mark" /\ w.requests[k].kind = "stop" => j < k
                      /\ w.requests[j].kind = "logout" /\ ReportAt(w, k) => j < k
    BY DEF Ordered
  <2>1. PICK a : a = Behind(i, j)
    OBVIOUS
  <2>2. PICK b : b = Behind(i, k)
    OBVIOUS
  <2>3. /\ a \in DOMAIN s.requests /\ b \in DOMAIN s.requests
        /\ w.requests[j] = s.requests[a] /\ w.requests[k] = s.requests[b]
        /\ j < k <=> a < b
    BY <1>1, <2>1, <2>2
  <2> QED BY <2>3 DEF Base, Ordered, ReportAt
<1>5. Live(w) <=> Live(s)
  BY <1>1 DEF Player, Live
<1>6. Alternates(w) /\ Occurrence(w)
  <2>1. Alternates(w)
    BY <1>1 DEF Base, Player, Alternates
  <2>2. Occurrence(w)
    BY <1>1, <1>5 DEF Base, Player, Occurrence
  <2> QED BY <2>1, <2>2
<1>7. Owed(w)
  BY <1>1, <1>5 DEF Base, Player, Owed
<1>8. (NoResolution(s) => NoResolution(w)) /\ (Current(s) => Current(w))
  BY <1>1 DEF NoResolution, Current
<1>9. Over(s) => Over(w)
  BY <1>1, <1>5 DEF Over, Player
<1>10. Waits(s) => Waits(w)
  <2>1. (Leaves(w) <=> Leaves(s)) /\ (Pending(w) <=> Pending(s)) /\ w.playback = s.playback
    BY <1>1 DEF Rest, Player, Leaves, Pending
  <2> QED BY <1>8, <2>1 DEF Waits
<1>11. ASSUME s.requests[i].kind \notin Reports PROVE Base(w)
  <2>1. \A j, k \in DOMAIN w.requests : ReportAt(w, j) /\ ReportAt(w, k) => j = k
    <3> SUFFICES ASSUME NEW j \in DOMAIN w.requests, NEW k \in DOMAIN w.requests,
                        ReportAt(w, j), ReportAt(w, k)
                 PROVE  j = k
      OBVIOUS
    <3>1. Behind(i, j) = Behind(i, k)
      BY <1>1 DEF Base, Serial, ReportAt
    <3>2. j \in Nat /\ k \in Nat /\ i \in Nat
      BY <1>1, Requests, SMTT(30)
    <3> QED BY <3>1, <3>2 DEF Behind
  <2>2. (\E j \in DOMAIN w.requests : w.requests[j].kind = "start")
           <=> (\E j \in DOMAIN s.requests : s.requests[j].kind = "start")
    <3>1. ASSUME NEW j \in DOMAIN w.requests, w.requests[j].kind = "start"
          PROVE  \E k \in DOMAIN s.requests : s.requests[k].kind = "start"
      BY <1>1, <3>1
    <3>2. ASSUME NEW k \in DOMAIN s.requests, s.requests[k].kind = "start"
          PROVE  \E j \in DOMAIN w.requests : w.requests[j].kind = "start"
      <4>1. k # i
        BY <1>11, <3>2 DEF Reports
      <4>2. PICK j \in DOMAIN w.requests : Behind(i, j) = k
        BY <1>1, <4>1
      <4>3. w.requests[j] = s.requests[k]
        BY <1>1, <4>2
      <4> QED BY <3>2, <4>3
    <3> QED BY <3>1, <3>2
  <2>3. \A j \in DOMAIN w.requests : w.requests[j].kind = "stop" => w.stop # None /\ ~w.startPending
    BY <1>1 DEF Base, Serial, Player
  <2>4. Serial(w)
    BY <1>1, <2>1, <2>2, <2>3 DEF Serial, Base, Player
  <2> QED BY <1>2, <1>3, <1>4, <1>6, <1>7, <2>4 DEF Base
<1>12. ASSUME s.requests[i].kind \in Reports PROVE NoReport(w)
  <2> SUFFICES ASSUME NEW j \in DOMAIN w.requests, w.requests[j].kind \in Reports PROVE FALSE
    BY DEF NoReport
  <2>1. /\ Behind(i, j) \in DOMAIN s.requests /\ Behind(i, j) # i
        /\ s.requests[Behind(i, j)].kind \in Reports
    BY <1>1
  <2> QED BY <1>12, <2>1 DEF Base, Serial, ReportAt
<1> QED BY <1>1, <1>2, <1>3, <1>4, <1>6, <1>7, <1>8, <1>9, <1>10, <1>11, <1>12

-------------------------------------------------------------------------------
(* The program ends when nothing is owed, or without waiting for it.           *)

(* A program that ends with the playback closed leaves its books in order. *)
LEMMA EndedKeeps ==
  ASSUME NEW s \in App, Base(s), s.playback = None, NEW how \in {"gone", "late"},
         how = "gone" => s.stop = None,
         NEW t, t = Ended(s, how)
  PROVE  EndedInv(t)
<1>1. /\ t.leaving = how /\ t.reported = s.reported /\ t.stop = s.stop
      /\ s.reported \in Seq(Reports \X Nat) /\ s.stop \in Media \cup {None}
  BY DEF Ended, Fresh, App
<1>2. t = [Fresh EXCEPT !.leaving = t.leaving, !.reported = t.reported, !.stop = t.stop]
  BY <1>1 DEF Ended
<1>3. Alternates(t)
  BY <1>1 DEF Base, Alternates
<1>4. ~Live(s)
  BY DEF Base, Occurrence
<1>5. Len(t.reported) % 2 = 1 => t.stop # None /\ t.stop.id = t.reported[Len(t.reported)][2]
  BY <1>1, <1>4 DEF Base, Owed
<1>6. t.leaving = "gone" => t.stop = None /\ Len(t.reported) % 2 = 0
  <2>1. Len(t.reported) \in Nat
    BY <1>1, Reported
  <2> QED BY <1>1, <1>5, <2>1, Parity
<1> QED BY <1>1, <1>2, <1>3, <1>5, <1>6 DEF EndedInv

-------------------------------------------------------------------------------
(* What waited for the reports.                                                *)

(* The requests that settled sends go behind the others, in their order.       *)
LEMMA AskedSent ==
  ASSUME NEW s \in App, Accounts(s)
  PROVE  /\ Asked(s) \in Seq(NetworkRequest) /\ DOMAIN Asked(s) = DOMAIN s.deferred
         /\ \A i \in DOMAIN s.deferred :
              /\ Asked(s)[i].kind \in {"mark", "logout"} /\ Asked(s)[i].token <= s.server
              /\ ~Asked(s)[i].superseded
              /\ Asked(s)[i].kind = "logout" => Leaves(s)
<1>1. s.deferred \in Seq(Mutations) /\ Len(s.deferred) \in Nat
      /\ DOMAIN s.deferred = 1..Len(s.deferred)
      /\ \A i \in DOMAIN s.deferred : s.deferred[i] \in Mutations
  <2>1. s.deferred \in Seq(Mutations)
    BY DEF App
  <2> QED BY <2>1, LenProperties, ElementOfSeq
<1> DEFINE Of(i) == RequestOf(s, s.deferred[i].kind, s.deferred[i].item, None)
<1>2. ASSUME NEW i \in DOMAIN s.deferred
      PROVE  /\ Of(i) \in NetworkRequest /\ Of(i).kind \in {"mark", "logout"}
             /\ Of(i).token <= s.server /\ ~Of(i).superseded
             /\ Of(i).kind = s.deferred[i].kind
  <2>1. s.deferred[i].kind \in {"mark", "logout"} /\ s.deferred[i].item \in Items \cup {None}
    BY <1>1 DEF Mutations
  <2>2. Of(i) \in NetworkRequest
    BY <2>1, SendTyped DEF Kinds, Openings, Reports
  <2>3. Of(i).kind = s.deferred[i].kind /\ Of(i).token = s.token /\ ~Of(i).superseded
    BY DEF RequestOf
  <2> QED BY <2>1, <2>2, <2>3 DEF Accounts
<1> HIDE DEF Of
<1>3. Asked(s) = [i \in DOMAIN s.deferred |-> Of(i)]
  BY DEF Asked, Of
<1>4. Asked(s) \in Seq(NetworkRequest) /\ DOMAIN Asked(s) = DOMAIN s.deferred
  BY <1>1, <1>2, <1>3
<1>5. \A i \in DOMAIN s.deferred : Of(i).kind = "logout" => Leaves(s)
  BY <1>2 DEF Leaves
<1> QED BY <1>2, <1>3, <1>4, <1>5

(* What waits for the reports may run once none is owed. *)
LEMMA SettledKeeps ==
  ASSUME NEW s \in App, Base(s), Current(s), Over(s), s.leaving \in {"no", "waiting"},
         s.stop = None, Leaves(s) => s.playback = None /\ ~s.startPending,
         NEW t, t = Settled(s)
  PROVE  RunningInv(t) \/ EndedInv(t)
<1>1. CASE s.leaving = "waiting"
  <2>1. t = Ended(s, "gone") /\ s.playback = None
    BY <1>1 DEF Settled, Leaves
  <2> QED BY <2>1, EndedKeeps
<1>2. CASE s.leaving # "waiting"
  <2>1. PICK n : n = IF Marks(s) THEN NextRequest([s EXCEPT !.busy = TRUE]) ELSE s
    OBVIOUS
  <2>2. n \in App /\ Steady(s, n)
    <3>1. PICK b : b = [s EXCEPT !.busy = TRUE]
      OBVIOUS
    <3>2. b \in App /\ Rest(s, b) /\ Player(s, b) /\ b.requests = s.requests /\ b.token = s.token
      BY <3>1, ZenonT(60) DEF App, Rest, Player
    <3>3. Steady(s, b)
      BY <3>2, FlagsSteady DEF Base, Accounts
    <3>4. Steady(b, NextRequest(b))
      BY <3>2, <3>3, OutdateSteady DEF NextRequest, Steady, Quiet
    <3>5. Steady(s, NextRequest(b))
      BY <3>2, <3>3, <3>4, SteadyTransitive DEF Steady, Quiet
    <3>6. Steady(s, s)
      BY SteadyReflexive DEF Base, Accounts
    <3> QED BY <2>1, <3>1, <3>5, <3>6 DEF Steady, Quiet
  <2>3. Base(n) /\ Current(n) /\ Over(n) /\ Rest(s, n) /\ Player(s, n)
    BY <2>2, QuietKeeps, MarkedKeepsCurrent DEF Steady, Quiet
  <2>4. PICK a : a = Asked(s)
    OBVIOUS
  <2>5. /\ a \in Seq(NetworkRequest)
        /\ \A i \in DOMAIN a : /\ a[i].kind \in {"mark", "logout"} /\ a[i].token <= s.server
                               /\ ~a[i].superseded
                               /\ a[i].kind = "logout" => Leaves(s)
    BY <2>4, AskedSent DEF Base
  <2>6. PICK q : q = n.requests \o a
    OBVIOUS
  <2>7. t = [n EXCEPT !.deferred = <<>>, !.requests = q]
    BY <1>2, <2>1, <2>4, <2>6 DEF Settled
  <2>8. /\ q \in Seq(NetworkRequest) /\ Len(q) = Len(n.requests) + Len(a)
        /\ \A i \in 1..Len(n.requests) : q[i] = n.requests[i]
        /\ \A i \in 1..Len(q) : i > Len(n.requests) => \E j \in DOMAIN a : q[i] = a[j]
    <3>1. n.requests \in Seq(NetworkRequest) /\ Len(n.requests) \in Nat /\ Len(a) \in Nat
          /\ DOMAIN a = 1..Len(a)
      BY <2>2, <2>5, Requests, LenProperties
    <3>2. /\ q \in Seq(NetworkRequest) /\ Len(q) = Len(n.requests) + Len(a)
          /\ \A i \in 1..Len(n.requests) + Len(a) :
               q[i] = IF i <= Len(n.requests) THEN n.requests[i] ELSE a[i - Len(n.requests)]
      BY <2>5, <2>6, <3>1, ConcatProperties
    <3>3. \A i \in 1..Len(n.requests) : q[i] = n.requests[i]
      BY <3>1, <3>2, SMTT(30)
    <3>4. ASSUME NEW i \in 1..Len(q), i > Len(n.requests) PROVE \E j \in DOMAIN a : q[i] = a[j]
      <4>1. i - Len(n.requests) \in 1..Len(a)
        BY <3>1, <3>2, <3>4
      <4>2. q[i] = a[i - Len(n.requests)]
        BY <3>1, <3>2, <3>4
      <4> QED BY <3>1, <4>1, <4>2
    <3> QED BY <3>2, <3>3, <3>4
  <2>9. /\ t \in App /\ Player(n, t) /\ t.aborts = n.aborts /\ t.server = n.server
        /\ t.afterAbort = n.afterAbort /\ t.token = n.token /\ t.requests = q
        /\ t.leaving = n.leaving /\ t.deferred = <<>>
    <3>1. <<>> \in Seq(Mutations)
      OBVIOUS
    <3>2. [n EXCEPT !.deferred = <<>>, !.requests = q] \in App
      BY <2>2, <2>8, <3>1, ZenonT(60) DEF App
    <3> QED BY <2>2, <2>7, <3>2 DEF App, Player
  <2>10. \A i \in New(n, t) : \E j \in DOMAIN a : t.requests[i] = a[j]
    <3>1. DOMAIN n.requests = 1..Len(n.requests) /\ DOMAIN q = 1..Len(q) /\ Len(n.requests) \in Nat
      BY <2>2, <2>8, Requests, LenProperties
    <3> QED BY <2>8, <2>9, <3>1 DEF New
  <2>11. Grows(n, t) /\ Marked(n, t)
    <3>1. DOMAIN n.requests = 1..Len(n.requests) /\ Len(n.requests) \in Nat /\ Len(a) \in Nat
      BY <2>2, <2>5, Requests, LenProperties
    <3>2. Len(n.requests) <= Len(t.requests)
      BY <2>8, <2>9, <3>1
    <3>3. \A i \in DOMAIN n.requests : t.requests[i] = n.requests[i]
      BY <2>8, <2>9, <3>1
    <3>4. \A i \in New(n, t) : t.requests[i].token <= t.server /\ ~t.requests[i].superseded
      BY <2>3, <2>5, <2>9, <2>10 DEF Rest
    <3>5. Grows(n, t)
      BY <3>2, <3>3, <3>4 DEF Grows
    <3>6. Marked(n, t)
      BY <3>3, <3>4 DEF Marked, New
    <3> QED BY <3>5, <3>6
  <2>12. NoStop(n)
    BY <2>3 DEF Base, Serial, NoStop, Player
  <2>13. Leaves(s) => NoReport(n)
    BY <2>3, <2>12 DEF Base, Serial, NoReport, NoStop, Player, Reports
  <2>14. Base(t)
    <3>1. t.token <= t.server
      BY <2>3, <2>9 DEF Base, Accounts
    <3>2. \A i \in New(n, t) : /\ t.requests[i].kind \notin Reports
                               /\ t.requests[i].kind = "mark" => NoStop(n)
                               /\ t.requests[i].kind = "logout" => NoReport(n)
      BY <2>5, <2>10, <2>12, <2>13 DEF Reports
    <3> QED BY <2>2, <2>3, <2>9, <2>11, <3>1, <3>2, BehindKeeps
  <2>15. Current(t)
    BY <2>2, <2>3, <2>9, <2>11, MarkedKeepsCurrent
  <2>16. Over(t)
    BY <2>3, <2>9 DEF Over, Live, Player
  <2>17. ~Leaves(t) /\ t.leaving \in {"no", "waiting"}
    <3>1. t.leaving = "no"
      BY <1>2, <2>3, <2>9 DEF Rest
    <3>2. DOMAIN t.deferred = {}
      BY <2>9
    <3> QED BY <3>1, <3>2 DEF Leaves
  <2> QED BY <2>14, <2>15, <2>16, <2>17 DEF RunningInv, Waits
<1> QED BY <1>1, <1>2

(* A watched mark or a sign-out that need not wait.                            *)
LEMMA MutationSent ==
  ASSUME NEW s \in App, RunningInv(s), ~Pending(s), NEW kind \in {"mark", "logout"},
         NEW item \in Items \cup {None}, NEW t, t = Send(s, kind, item, None)
  PROVE  RunningInv(t)
<1>1. PICK r : r = RequestOf(s, kind, item, None)
  OBVIOUS
<1>2. r \in NetworkRequest /\ r.kind = kind /\ r.token = s.token /\ ~r.superseded
  <2>1. kind \in Kinds /\ kind \notin Openings \cup Reports
    BY DEF Kinds, Openings, Reports
  <2>2. r \in NetworkRequest
    BY <1>1, <2>1, SendTyped
  <2> QED BY <1>1, <2>2 DEF RequestOf
<1>3. Append(s.requests, r) \in Seq(NetworkRequest)
  BY <1>2, Requests, AppendProperties
<1>4. [s EXCEPT !.requests = Append(s.requests, r)] \in App
  BY <1>3 DEF App
<1>5. t = [s EXCEPT !.requests = Append(s.requests, r)]
  BY <1>1 DEF Send
<1>6. /\ t \in App /\ t.requests = Append(s.requests, r) /\ t.token = s.token
      /\ Rest(s, t) /\ Player(s, t)
  BY <1>4, <1>5 DEF App, Rest, Player
<1>7. s.token <= s.server /\ Base(s)
  BY DEF RunningInv, Base, Accounts
<1>8. /\ Grows(s, t) /\ Marked(s, t) /\ New(s, t) = {Len(s.requests) + 1}
      /\ t.requests[Len(s.requests) + 1] = r
  BY <1>2, <1>6, <1>7, Sent DEF Rest
<1>9. NoReport(s) /\ NoStop(s)
  BY <1>7, NothingPending DEF Base, NoReport, NoStop, Reports
<1>10. Base(t)
  <2>1. \A i \in New(s, t) : t.requests[i].kind \notin Reports
    BY <1>2, <1>8 DEF Reports
  <2> QED BY <1>6, <1>7, <1>8, <1>9, <2>1, BehindKeeps DEF Rest
<1>11. Current(t)
  BY <1>6, <1>8, MarkedKeepsCurrent DEF RunningInv
<1>12. ~Leaves(t)
  BY <1>6 DEF RunningInv, Waits, Leaves, Rest
<1>13. Over(t)
  BY <1>6 DEF RunningInv, Over, Live, Player
<1> QED BY <1>6, <1>10, <1>11, <1>12, <1>13 DEF RunningInv, Waits, Rest

-------------------------------------------------------------------------------
(* The answers.                                                                *)

(* What the browser's answers do to it. *)
LEMMA BrowserAnswered ==
  ASSUME NEW s \in App, s.token <= s.server, NEW r \in NetworkRequest, NEW ok \in BOOLEAN
  PROVE  /\ Steady(s, LoadAnswered(s, r))
         /\ Steady(s, MarkAnswered(s, ok))
         /\ Steady(s, LoginAnswered(s, r, ok))
         /\ r.kind = "home" => Steady(s, HomeAnswered(s, r, ok))
<1>0. Steady(s, s)
  BY SteadyReflexive
<1>1. PICK c : c = [s EXCEPT !.busy = FALSE]
  OBVIOUS
<1>2. c \in App /\ Rest(s, c) /\ Player(s, c) /\ c.requests = s.requests /\ c.token = s.token
  BY <1>1, ZenonT(60) DEF App, Rest, Player
<1>3. Steady(s, c) /\ c.token <= c.server
  BY <1>2, FlagsSteady DEF Rest
<1>4. Steady(s, LoadAnswered(s, r))
  BY <1>0, <1>1, <1>3 DEF LoadAnswered
<1>5. Steady(s, MarkAnswered(s, ok))
  <2>1. Steady(c, Load(c)) /\ Load(c) \in App
    BY <1>2, <1>3, LoadSteady DEF Steady, Quiet
  <2>2. Steady(s, Load(c))
    BY <1>2, <1>3, <2>1, SteadyTransitive
  <2> QED BY <1>1, <1>3, <2>2 DEF MarkAnswered
<1>6. Steady(s, LoginAnswered(s, r, ok))
  <2>1. PICK a : a = IF ok THEN [s EXCEPT !.token = s.server] ELSE s
    OBVIOUS
  <2>2. /\ a \in App /\ Rest(s, a) /\ Player(s, a) /\ a.requests = s.requests
        /\ a.token \in {s.token, s.server}
    <3>1. CASE ok
      BY <2>1, <3>1, ZenonT(60) DEF App, Rest, Player
    <3>2. CASE ~ok
      BY <2>1, <3>2 DEF Rest, Player
    <3> QED BY <3>1, <3>2
  <2>3. Steady(s, a) /\ a.token <= a.server
    <3>1. Steady(s, a)
      BY <2>2, FlagsSteady
    <3> QED BY <3>1 DEF Steady, Quiet
  <2>4. PICK d : d = [a EXCEPT !.busy = FALSE]
    OBVIOUS
  <2>5. d \in App /\ Rest(a, d) /\ Player(a, d) /\ d.requests = a.requests /\ d.token = a.token
    BY <2>2, <2>4, ZenonT(60) DEF App, Rest, Player
  <2>6. Steady(a, d) /\ d.token <= d.server
    BY <2>2, <2>3, <2>5, FlagsSteady DEF Rest
  <2>7. Steady(s, d)
    BY <2>2, <2>3, <2>5, <2>6, SteadyTransitive
  <2>8. Steady(d, Load(d)) /\ Load(d) \in App
    BY <2>5, <2>6, LoadSteady DEF Steady, Quiet
  <2>9. Steady(s, Load(d))
    BY <2>5, <2>7, <2>8, SteadyTransitive
  <2> QED BY <2>1, <2>3, <2>4, <2>7, <2>9 DEF LoginAnswered
<1>7. ASSUME r.kind = "home" PROVE Steady(s, HomeAnswered(s, r, ok))
  <2>1. PICK b : b = [s EXCEPT !.openingHome = FALSE, !.busy = FALSE]
    OBVIOUS
  <2>2. b \in App /\ Rest(s, b) /\ Player(s, b) /\ b.requests = s.requests /\ b.token = s.token
    BY <2>1, ZenonT(60) DEF App, Rest, Player
  <2>3. Steady(s, b) /\ b.token <= b.server
    BY <2>2, FlagsSteady DEF Rest
  <2>4. PICK l : l = Load(b)
    OBVIOUS
  <2>5. Steady(b, l) /\ l \in App /\ l.token <= l.server
    BY <2>2, <2>3, <2>4, LoadSteady DEF Steady, Quiet
  <2>6. r.item \in Items
    BY <1>7 DEF NetworkRequest, Openings
  <2>7. PICK p : p = Play(l, r.item)
    OBVIOUS
  <2>8. Steady(l, p) /\ p \in App
    BY <2>5, <2>6, <2>7, PlaySteady DEF Steady, Quiet
  <2>9. Steady(s, l)
    BY <2>2, <2>3, <2>5, SteadyTransitive
  <2>10. Steady(s, p)
    BY <2>5, <2>8, <2>9, SteadyTransitive
  <2>11. HomeAnswered(s, r, ok) = IF ~r.latest THEN s ELSE IF ~ok THEN b ELSE p
    BY <2>1, <2>4, <2>7 DEF HomeAnswered
  <2> QED BY <1>0, <2>3, <2>10, <2>11
<1> QED BY <1>4, <1>5, <1>6, <1>7

(* A resolution that is still wanted opens its item.                           *)
LEMMA ResolvedKeeps ==
  ASSUME NEW s \in App, RunningInv(s), NEW r \in NetworkRequest, r.kind = "resolve",
         r.token <= s.server, NEW ok \in BOOLEAN, ok => r.token # 0,
         r.latest => ~Leaves(s), NEW t, t = Resolved(s, r, ok)
  PROVE  RunningInv(t)
<1>1. PICK c : c = [s EXCEPT !.sync = FALSE]
  OBVIOUS
<1>2. c \in App /\ Rest(s, c) /\ Player(s, c) /\ c.requests = s.requests /\ c.token = s.token
  BY <1>1, ZenonT(60) DEF App, Rest, Player
<1>3. Steady(s, c)
  BY <1>2, FlagsSteady DEF RunningInv, Base, Accounts
<1>4. RunningInv(c)
  BY <1>2, <1>3, SteadyKeeps
<1>5. CASE ~r.latest
  BY <1>5 DEF Resolved
<1>6. CASE r.latest /\ ~ok
  BY <1>1, <1>4, <1>6 DEF Resolved
<1>7. CASE r.latest /\ ok
  <2>1. PICK o : o = OpenPlayer(c)
    OBVIOUS
  <2>2. Closed(c, o) /\ o.phase = "quiet" /\ ~Live(o) /\ o \in App /\ Base(o)
    BY <1>2, <1>4, <2>1, OpenPlayerCloses DEF RunningInv, Closed
  <2>3. PICK m : m = [item |-> r.item, id |-> o.current, server |-> o.server]
    OBVIOUS
  <2>4. m \in Media /\ m.id = o.current
    <3>1. o.server = s.server /\ s.server \in 0..MaxLogins /\ o.current \in Nat
      BY <1>2, <2>2 DEF Closed, Rest, App
    <3>2. r.item \in Items
      BY DEF NetworkRequest, Openings
    <3>3. r.token \in Nat /\ MaxLogins \in Nat
      BY AdapterAssumption DEF NetworkRequest
    <3>4. s.server \in 1..MaxLogins
      BY <1>7, <3>1, <3>3
    <3> QED BY <2>3, <3>1, <3>2, <3>4 DEF Media
  <2>5. PICK p : p = [o EXCEPT !.playback = m, !.started = FALSE, !.finished = FALSE]
    OBVIOUS
  <2>6. /\ p \in App /\ Rest(o, p) /\ p.requests = o.requests /\ p.token = o.token
        /\ p.playback = m /\ p.current = o.current /\ p.phase = o.phase
        /\ p.started = FALSE /\ p.finished = FALSE
        /\ p.startPending = o.startPending /\ p.stop = o.stop /\ p.reported = o.reported
    <3>1. [o EXCEPT !.playback = m, !.started = FALSE, !.finished = FALSE] \in App
      BY <2>2, <2>4, ZenonT(60) DEF App
    <3> QED BY <2>2, <2>5, <3>1 DEF App, Rest
  <2>7. t = Observe(p)
    BY <1>1, <1>7, <2>1, <2>3, <2>5 DEF Resolved
  <2>8. t = p
    BY <2>2, <2>6, <2>7 DEF Observe
  <2>9. ~Live(p)
    BY <2>6 DEF Live
  <2>10. Base(p)
    <3>1. Typed(p) /\ Accounts(p)
      BY <2>2, <2>6 DEF Base, Typed, Accounts, Rest
    <3>2. Serial(p) /\ Ordered(p) /\ Alternates(p)
      BY <2>2, <2>6 DEF Base, Serial, Ordered, ReportAt, Alternates
    <3>3. Owed(p)
      BY <2>2, <2>6, <2>9 DEF Base, Owed
    <3>4. Occurrence(p)
      BY <2>2, <2>4, <2>6, <2>9 DEF Base, Occurrence
    <3> QED BY <3>1, <3>2, <3>3, <3>4 DEF Base
  <2>11. Current(p)
    BY <2>2, <2>6 DEF Closed, NoResolution, Current
  <2>12. ~Leaves(p)
    BY <1>2, <1>7, <2>2, <2>6 DEF Closed, Rest, Leaves
  <2>13. p.leaving \in {"no", "waiting"}
    BY <1>2, <2>2, <2>6 DEF Closed, Rest, RunningInv
  <2> QED BY <2>8, <2>9, <2>10, <2>11, <2>12, <2>13 DEF RunningInv, Waits, Over
<1> QED BY <1>5, <1>6, <1>7

(* The answer to a start lets the stop follow that waits for it.               *)
LEMMA StartAnswered ==
  ASSUME NEW s \in App, RunningInv(s), NEW i \in DOMAIN s.requests,
         s.requests[i].kind = "start", s.aborts < Len(s.requests),
         NEW t, t = StartReported(Without(s, i))
  PROVE  RunningInv(t) \/ EndedInv(t)
<1>1. PICK w : w = Without(s, i)
  OBVIOUS
<1>2. /\ w \in App /\ Rest(s, w) /\ Player(s, w) /\ w.token = s.token
      /\ Typed(w) /\ Accounts(w) /\ Ordered(w)
      /\ Alternates(w) /\ Owed(w) /\ Occurrence(w)
      /\ Current(w) /\ Over(w) /\ Waits(w) /\ NoReport(w)
  BY <1>1, WithoutKeeps DEF RunningInv, Reports
<1>3. w.startPending
  BY <1>2 DEF RunningInv, Base, Serial, Player
<1>4. PICK c : c = [w EXCEPT !.startPending = FALSE]
  OBVIOUS
<1>5. /\ c \in App /\ Rest(w, c) /\ c.requests = w.requests /\ c.token = w.token
      /\ c.current = w.current /\ c.phase = w.phase /\ c.playback = w.playback
      /\ c.started = w.started /\ c.finished = w.finished
      /\ ~c.startPending /\ c.stop = w.stop /\ c.reported = w.reported
  BY <1>2, <1>4, ZenonT(60) DEF App, Rest
<1>6. Live(c) <=> Live(w)
  BY <1>5 DEF Live
<1>7. /\ Typed(c) /\ Accounts(c) /\ Ordered(c) /\ Alternates(c) /\ NoReport(c) /\ Current(c)
      /\ (Leaves(c) <=> Leaves(w))
  BY <1>2, <1>5 DEF Typed, Accounts, Ordered, Alternates, Rest, NoReport, ReportAt, Current, Leaves
<1>8. t = IF c.stop # None THEN SendStop(c) ELSE Settled(c)
  BY <1>1, <1>4 DEF StartReported
<1>9. CASE c.stop # None
  <2>1. c.stop \in Media /\ ~Live(c)
    BY <1>2, <1>5, <1>6, <1>9 DEF Occurrence, App
  <2>2. Len(c.reported) % 2 = 1 /\ c.reported[Len(c.reported)][2] = c.stop.id
    BY <1>2, <1>3, <1>5, <1>9 DEF Owed
  <2>3. Occurrence(c)
    BY <1>2, <1>5, <1>6, <2>1 DEF Occurrence
  <2>4. Handled(c, t) /\ Pending(t) /\ ~Live(t) /\ (\A k \in New(c, t) : t.requests[k].kind = "stop")
    <3>1. t = SendStop(c)
      BY <1>8, <1>9
    <3>2. c \in App /\ ~c.startPending /\ Typed(c) /\ Accounts(c) /\ Alternates(c) /\ NoReport(c)
      BY <1>5, <1>7
    <3>3. Handled(c, t) /\ Pending(t) /\ ~Live(t)
      BY <2>1, <2>2, <2>3, <3>1, <3>2, StopSent
    <3>4. \A k \in New(c, t) : t.requests[k].kind = "stop"
      BY <2>1, <2>2, <2>3, <3>1, <3>2, StopSent, ZenonT(60)
    <3> QED BY <3>3, <3>4
  <2>5. Current(t)
    BY <1>5, <1>7, <2>4, MarkedKeepsCurrent DEF Handled
  <2>6. Waits(t)
    <3>1. Leaves(t) => c.playback = None /\ NoResolution(c)
      BY <1>2, <1>5, <1>7, <2>4 DEF Handled, Rest, Leaves, Waits, NoResolution
    <3>2. NoResolution(c) => NoResolution(t)
      BY <2>4 DEF Handled, Grows, New, NoResolution
    <3> QED BY <2>4, <3>1, <3>2 DEF Handled, Waits
  <2>7. t.leaving \in {"no", "waiting"}
    BY <1>2, <1>5, <2>4 DEF Handled, Rest, RunningInv
  <2> QED BY <2>4, <2>5, <2>6, <2>7 DEF RunningInv, Handled, Over
<1>10. CASE c.stop = None
  <2>1. Live(c) /\ c.playback # None
    BY <1>2, <1>3, <1>5, <1>6, <1>10 DEF Occurrence
  <2>2. ~Leaves(c)
    BY <1>2, <1>5, <1>7, <2>1 DEF Waits
  <2>3. Serial(c)
    BY <1>5, <1>7 DEF Serial, NoReport, ReportAt, Reports
  <2>4. Owed(c)
    BY <1>2, <1>5, <1>6, <2>1 DEF Owed
  <2>5. Occurrence(c)
    BY <1>2, <1>5, <1>6, <1>10 DEF Occurrence
  <2>6. Base(c)
    BY <1>7, <2>3, <2>4, <2>5 DEF Base
  <2>7. Over(c)
    BY <1>2, <1>5, <1>6 DEF Over
  <2>8. c.leaving \in {"no", "waiting"}
    BY <1>2, <1>5 DEF Rest, RunningInv
  <2> QED BY <1>5, <1>7, <1>8, <1>10, <2>2, <2>6, <2>7, <2>8, SettledKeeps
<1> QED BY <1>9, <1>10

(* The answer to a stop settles the reports.                                   *)
LEMMA StopAnswered ==
  ASSUME NEW s \in App, RunningInv(s), NEW i \in DOMAIN s.requests,
         s.requests[i].kind = "stop", s.aborts < Len(s.requests), NEW ok \in BOOLEAN,
         NEW t, t = StopReported(Without(s, i), ok)
  PROVE  RunningInv(t) \/ EndedInv(t)
<1>1. PICK w : w = Without(s, i)
  OBVIOUS
<1>2. /\ w \in App /\ Rest(s, w) /\ Player(s, w) /\ w.token = s.token
      /\ Typed(w) /\ Accounts(w) /\ Ordered(w)
      /\ Alternates(w) /\ Owed(w) /\ Occurrence(w)
      /\ Current(w) /\ Over(w) /\ Waits(w) /\ NoReport(w)
  BY <1>1, WithoutKeeps DEF RunningInv, Reports
<1>3. w.stop # None /\ ~w.startPending
  BY <1>2 DEF RunningInv, Base, Serial, Player
<1>4. PICK c : c = [w EXCEPT !.stop = None, !.sync = FALSE]
  OBVIOUS
<1>5. /\ c \in App /\ Rest(w, c) /\ c.requests = w.requests /\ c.token = w.token
      /\ c.current = w.current /\ c.phase = w.phase /\ c.playback = w.playback
      /\ c.started = w.started /\ c.finished = w.finished
      /\ c.startPending = w.startPending /\ c.stop = None /\ c.reported = w.reported
  BY <1>2, <1>4, ZenonT(60) DEF App, Rest
<1>6. ~Live(w) /\ ~Live(c) /\ ~c.startPending
  <2>1. ~Live(w)
    BY <1>2, <1>3 DEF Occurrence
  <2>2. Live(c) <=> Live(w)
    BY <1>5 DEF Live
  <2> QED BY <1>3, <1>5, <2>1, <2>2
<1>7. /\ Typed(c) /\ Accounts(c) /\ Ordered(c) /\ Alternates(c) /\ NoReport(c) /\ Current(c)
      /\ (Leaves(c) <=> Leaves(w))
  BY <1>2, <1>5 DEF Typed, Accounts, Ordered, Alternates, Rest, NoReport, ReportAt, Current, Leaves
<1>8. Base(c)
  <2>1. Serial(c)
    BY <1>6, <1>7 DEF Serial, NoReport, ReportAt, Reports
  <2>2. Owed(c)
    BY <1>2, <1>3, <1>5, <1>6 DEF Owed
  <2>3. Occurrence(c)
    BY <1>2, <1>5, <1>6 DEF Occurrence
  <2> QED BY <1>7, <2>1, <2>2, <2>3 DEF Base
<1>9. PICK d : d = IF ok THEN Refresh(c) ELSE c
  OBVIOUS
<1>10. d \in App /\ Steady(c, d)
  BY <1>5, <1>7, <1>9, RefreshSteady, SteadyReflexive DEF Accounts, Steady, Quiet
<1>11. Base(d) /\ Current(d) /\ ~Live(d) /\ d.stop = None /\ ~d.startPending
       /\ d.playback = c.playback /\ Rest(c, d)
  BY <1>5, <1>6, <1>7, <1>8, <1>10, QuietKeeps, MarkedKeepsCurrent
  DEF Steady, Quiet, Player, Live
<1>12. PICK e : e = Observe(d)
  OBVIOUS
<1>13. /\ Handled(d, e) /\ Over(e) /\ e.stop = None /\ e \in App
       /\ d.playback = None => e = d
  BY <1>10, <1>11, <1>12, ObserveHandled DEF Handled
<1>14. Current(e) /\ Base(e)
  BY <1>10, <1>11, <1>13, MarkedKeepsCurrent DEF Handled
<1>15. Leaves(e) => e.playback = None /\ ~e.startPending
  <2>1. Leaves(e) => Leaves(w)
    BY <1>7, <1>11, <1>13 DEF Handled, Rest, Leaves
  <2>2. Leaves(e) => d.playback = None
    BY <1>2, <1>5, <1>11, <2>1 DEF Waits
  <2> QED BY <1>11, <1>13, <2>2
<1>16. e.leaving \in {"no", "waiting"}
  BY <1>2, <1>5, <1>11, <1>13 DEF Handled, Rest, RunningInv
<1>17. t = Settled(e)
  BY <1>1, <1>4, <1>9, <1>12 DEF StopReported
<1> QED BY <1>13, <1>14, <1>15, <1>16, <1>17, SettledKeeps

(* The aborts and the login that follows them are the client's own.            *)
LEMMA AbortsKeep ==
  ASSUME NEW s \in App, NEW t \in App, RunningInv(s), Player(s, t), t.requests = s.requests,
         t.token <= t.server, s.server <= t.server, t.aborts <= Len(s.requests),
         t.afterAbort = "login" => t.server < MaxLogins,
         t.deferred = s.deferred, t.leaving = s.leaving
  PROVE  RunningInv(t)
<1>1. Live(t) <=> Live(s)
  BY DEF Player, Live
<1>2. Base(s)
  BY DEF RunningInv
<1>3. Typed(t)
  BY DEF Typed
<1>4. Accounts(t)
  <2>1. \A i \in DOMAIN s.requests : s.requests[i].token \in Nat
    <3> SUFFICES ASSUME NEW i \in DOMAIN s.requests PROVE s.requests[i].token \in Nat
      OBVIOUS
    <3>1. PICK r \in NetworkRequest : r = s.requests[i]
      BY Requests
    <3>2. r.token \in 0..MaxLogins /\ MaxLogins \in Nat
      BY AdapterAssumption DEF NetworkRequest
    <3> QED BY <3>1, <3>2
  <2>2. s.server \in Nat /\ t.server \in Nat
    BY DEF App
  <2> QED BY <1>2, <2>1, <2>2 DEF Base, Accounts
<1>5. Serial(t) /\ Ordered(t) /\ Alternates(t)
  BY <1>2 DEF Base, Serial, Ordered, ReportAt, Alternates, Player
<1>6. Owed(t)
  BY <1>1, <1>2 DEF Base, Owed, Player
<1>7. Occurrence(t)
  BY <1>1, <1>2 DEF Base, Occurrence, Player
<1>8. Current(t) /\ Over(t)
  BY <1>1 DEF RunningInv, Current, Over, Player
<1>9. Waits(t)
  <2>1. (Leaves(t) <=> Leaves(s)) /\ (Pending(t) <=> Pending(s)) /\ t.playback = s.playback
    BY DEF Leaves, Pending, Player
  <2> QED BY <2>1 DEF RunningInv, Waits, NoResolution
<1> QED BY <1>3, <1>4, <1>5, <1>6, <1>7, <1>8, <1>9 DEF RunningInv, Base

(* The answer to a sign-out starts the aborts.                                 *)
LEMMA LogoutAnsweredKeeps ==
  ASSUME NEW s \in App, RunningInv(s), NEW t, t = LogoutAnswered(s)
  PROVE  RunningInv(t)
<1>1. PICK n \in Nat : n = Len(s.requests)
  BY Requests
<1>2. PICK after \in {"nothing", "login", "clear"} :
        after = IF s.afterAbort = "login" THEN "login" ELSE "clear"
  OBVIOUS
<1>3. t = [s EXCEPT !.aborts = n, !.removing = TRUE, !.afterAbort = after]
  BY <1>1, <1>2 DEF LogoutAnswered
<1>4. [s EXCEPT !.aborts = n, !.removing = TRUE, !.afterAbort = after] \in App
  BY DEF App
<1>5. /\ t \in App /\ Player(s, t) /\ t.requests = s.requests /\ t.token = s.token
      /\ t.aborts = n /\ t.afterAbort = after /\ t.server = s.server
      /\ t.deferred = s.deferred /\ t.leaving = s.leaving
  BY <1>3, <1>4 DEF App, Player
<1>6. /\ t.token <= t.server /\ s.server <= t.server /\ t.aborts <= Len(s.requests)
      /\ t.afterAbort = "login" => t.server < MaxLogins
  <2>1. s.server \in Nat
    BY DEF App
  <2> QED BY <1>1, <1>2, <1>5, <2>1 DEF RunningInv, Base, Accounts
<1> QED BY <1>5, <1>6, AbortsKeep

(* Whatever is answered, and whatever the answer.                              *)
LEMMA AnsweredKeeps ==
  ASSUME NEW s \in App, RunningInv(s), NEW i \in DOMAIN s.requests,
         s.aborts < Len(s.requests), NEW ok \in BOOLEAN,
         ok => s.requests[i].token # 0 \/ s.requests[i].kind = "login",
         NEW t, t = Answered(s, i, ok)
  PROVE  RunningInv(t) \/ EndedInv(t)
<1>1. PICK r : r = s.requests[i]
  OBVIOUS
<1>2. PICK w : w = Without(s, i)
  OBVIOUS
<1>3. r \in NetworkRequest /\ r.kind \in Kinds
  BY <1>1, Requests DEF NetworkRequest
<1>4. t = Completed(w, r, ok)
  BY <1>1, <1>2 DEF Answered
<1>5. r.kind \notin Reports => w \in App /\ RunningInv(w)
  BY <1>1, <1>2, WithoutKeeps DEF RunningInv, Rest
<1>6. CASE r.kind = "resolve"
  <2>1. t = Resolved(w, r, ok)
    BY <1>4, <1>6 DEF Completed
  <2>2. w \in App /\ RunningInv(w)
    BY <1>5, <1>6 DEF Reports
  <2>3. w.server = s.server /\ (Leaves(w) <=> Leaves(s))
    BY <1>2, WithoutIt DEF Rest, Leaves
  <2>4. r.token <= w.server
    BY <1>1, <2>3 DEF RunningInv, Base, Accounts
  <2>5. r.latest => ~Leaves(w)
    BY <1>1, <1>6, <2>3 DEF RunningInv, Waits, NoResolution
  <2>6. ok => r.token # 0
    BY <1>1, <1>6
  <2> QED BY <1>3, <1>6, <2>1, <2>2, <2>4, <2>5, <2>6, ResolvedKeeps
<1>7. CASE r.kind = "start"
  <2>1. t = StartReported(w)
    BY <1>4, <1>7 DEF Completed
  <2> QED BY <1>1, <1>2, <1>7, <2>1, StartAnswered
<1>8. CASE r.kind = "stop"
  <2>1. t = StopReported(w, ok)
    BY <1>4, <1>8 DEF Completed
  <2> QED BY <1>1, <1>2, <1>8, <2>1, StopAnswered
<1>9. CASE r.kind \in {"load", "home", "mark", "login"}
  <2>1. w \in App /\ RunningInv(w) /\ w.token <= w.server
    BY <1>5, <1>9 DEF Reports, RunningInv, Base, Accounts
  <2>2. Steady(w, t)
    <3>1. CASE r.kind = "load"
      BY <1>3, <1>4, <2>1, <3>1, BrowserAnswered DEF Completed
    <3>2. CASE r.kind = "home"
      BY <1>3, <1>4, <2>1, <3>2, BrowserAnswered DEF Completed
    <3>3. CASE r.kind = "mark"
      BY <1>3, <1>4, <2>1, <3>3, BrowserAnswered DEF Completed
    <3>4. CASE r.kind = "login"
      BY <1>3, <1>4, <2>1, <3>4, BrowserAnswered DEF Completed
    <3> QED BY <1>9, <3>1, <3>2, <3>3, <3>4
  <2> QED BY <2>1, <2>2, SteadyKeeps DEF Steady, Quiet
<1>10. CASE r.kind = "logout"
  <2>1. t = LogoutAnswered(w)
    BY <1>4, <1>10 DEF Completed
  <2>2. w \in App /\ RunningInv(w)
    BY <1>5, <1>10 DEF Reports
  <2> QED BY <2>1, <2>2, LogoutAnsweredKeeps
<1>11. r.kind \in {"load", "home", "login", "start", "stop", "resolve", "mark", "logout"}
  BY <1>3 DEF Kinds, Numbered, Reports
<1> QED BY <1>6, <1>7, <1>8, <1>9, <1>10, <1>11

-------------------------------------------------------------------------------
(* The user and the player.                                                    *)

(* Turning to other media is the browser's own step. *)
LEMMA SupersedeQuiet ==
  ASSUME NEW s \in App, s.token <= s.server, NEW t, t = Supersede(s)
  PROVE  Quiet(s, t)
<1> DEFINE Turned(i) == IF s.requests[i].kind \in Openings
                        THEN [s.requests[i] EXCEPT !.superseded = TRUE] ELSE s.requests[i]
<1>1. ASSUME NEW i \in DOMAIN s.requests
      PROVE  /\ Turned(i) \in NetworkRequest
             /\ Turned(i).kind = s.requests[i].kind /\ Turned(i).token = s.requests[i].token
             /\ Turned(i).latest = s.requests[i].latest
  <2>1. PICK r \in NetworkRequest : r = s.requests[i]
    BY Requests
  <2>2. PICK e : e = [r EXCEPT !.superseded = TRUE]
    OBVIOUS
  <2>3. e \in NetworkRequest /\ e.kind = r.kind /\ e.token = r.token /\ e.latest = r.latest
    BY <2>2 DEF NetworkRequest
  <2>4. Turned(i) = IF r.kind \in Openings THEN e ELSE r
    BY <2>1, <2>2
  <2> HIDE DEF Turned
  <2> QED BY <2>1, <2>3, <2>4
<1>2. t = [s EXCEPT !.requests = [i \in DOMAIN s.requests |-> Turned(i)]]
  BY DEF Supersede, App
<1> HIDE DEF Turned
<1>3. PICK q : q = [i \in DOMAIN s.requests |-> Turned(i)]
  OBVIOUS
<1>4. q \in Seq(NetworkRequest) /\ Len(q) = Len(s.requests) /\ DOMAIN q = DOMAIN s.requests
  BY <1>1, <1>3, Requests
<1>5. t \in App /\ t.requests = q /\ Rest(s, t) /\ Player(s, t) /\ t.token = s.token
  <2>1. [s EXCEPT !.requests = q] \in App
    BY <1>4 DEF App
  <2> QED BY <1>2, <1>3, <2>1 DEF App, Rest, Player
<1>6. Grows(s, t) /\ New(s, t) = {}
  BY <1>1, <1>3, <1>4, <1>5, Requests DEF Grows, New
<1> QED BY <1>5, <1>6 DEF Quiet, Rest

(* Closing undoes what turning to other media leaves open.                     *)
LEMMA QuietlyClosed ==
  ASSUME NEW s \in App, RunningInv(s), NEW m \in App, Quiet(s, m), NEW t, Closed(m, t)
  PROVE  RunningInv(t) /\ t \in App /\ Grows(s, t) /\ Rest(s, t)
<1>1. /\ Base(m) /\ (Leaves(m) <=> Leaves(s)) /\ (Pending(m) <=> Pending(s))
      /\ m.leaving = s.leaving
  BY QuietKeeps DEF RunningInv, Quiet, Rest
<1>2. Leaves(m) => Pending(m)
  BY <1>1 DEF RunningInv, Waits
<1>3. RunningInv(t)
  BY <1>1, <1>2, ClosedKeeps DEF RunningInv
<1>4. Grows(s, t)
  BY GrowsTransitive DEF Quiet, Closed, Rest
<1> QED BY <1>3, <1>4 DEF Quiet, Closed, Rest

(* Being busy is the browser's own, and so is overtaking its requests. *)
LEMMA BusySteady ==
  ASSUME NEW s \in App, s.token <= s.server, NEW b, b = [s EXCEPT !.busy = TRUE]
  PROVE  b \in App /\ Steady(s, b) /\ NextRequest(b) \in App /\ Steady(s, NextRequest(b))
<1>1. [s EXCEPT !.busy = TRUE] \in App
  BY DEF App
<1>2. b \in App /\ Rest(s, b) /\ Player(s, b) /\ b.requests = s.requests /\ b.token = s.token
  BY <1>1 DEF App, Rest, Player
<1>3. Steady(s, b) /\ b.token <= b.server
  BY <1>2, FlagsSteady DEF Rest
<1>4. Steady(b, NextRequest(b)) /\ NextRequest(b) \in App
  BY <1>2, <1>3, OutdateSteady DEF NextRequest, Steady, Quiet
<1> QED BY <1>2, <1>3, <1>4, SteadyTransitive

(* What has to wait joins the others. *)
LEMMA DeferredKeeps ==
  ASSUME NEW s \in App, RunningInv(s), Pending(s), NEW d \in Mutations,
         d.kind = "logout" => s.playback = None /\ NoResolution(s),
         NEW t, t = [s EXCEPT !.deferred = Append(@, d)]
  PROVE  RunningInv(t)
<1>1. PICK q : q = Append(s.deferred, d)
  OBVIOUS
<1>2. s.deferred \in Seq(Mutations)
  BY DEF App
<1>3. /\ q \in Seq(Mutations)
      /\ \A i \in DOMAIN q : q[i] = d \/ \E j \in DOMAIN s.deferred : q[i] = s.deferred[j]
  BY <1>1, <1>2, LenProperties, AppendProperties
<1>4. [s EXCEPT !.deferred = q] \in App
  BY <1>3 DEF App
<1>5. /\ t \in App /\ Player(s, t) /\ t.requests = s.requests /\ t.token = s.token
      /\ t.aborts = s.aborts /\ t.afterAbort = s.afterAbort /\ t.server = s.server
      /\ t.deferred = q /\ t.leaving = s.leaving
  BY <1>1, <1>4 DEF App, Player
<1>6. Base(t)
  <2>1. Base(s)
    BY DEF RunningInv
  <2>2. Grows(s, t) /\ New(s, t) = {}
    BY <1>5, Requests DEF Grows, New
  <2>3. t.token <= t.server
    BY <1>5, <2>1 DEF Base, Accounts
  <2> QED BY <1>5, <2>1, <2>2, <2>3, BehindKeeps
<1>7. Current(t) /\ Over(t)
  BY <1>5 DEF RunningInv, Current, Over, Live, Player
<1>8. Leaves(t) => Leaves(s) \/ d.kind = "logout"
  BY <1>3, <1>5 DEF Leaves
<1>9. Waits(t)
  <2>1. (Pending(t) <=> Pending(s)) /\ t.playback = s.playback /\ (NoResolution(t) <=> NoResolution(s))
    BY <1>5 DEF Pending, Player, NoResolution
  <2> QED BY <1>8, <2>1 DEF RunningInv, Waits
<1> QED BY <1>5, <1>6, <1>7, <1>9 DEF RunningInv

(* A watched mark is sent, or it waits, with the playback of its item closed. *)
LEMMA WatchedRequestedKeeps ==
  ASSUME NEW s \in App, RunningInv(s), NEW item \in Items, NEW t, t = WatchedRequested(s, item)
  PROVE  RunningInv(t)
<1>1. PICK c : c = IF s.playback # None /\ s.playback.item = item THEN Close(s) ELSE s
  OBVIOUS
<1>2. c \in App /\ RunningInv(c)
  <2>1. PICK u : u = Close(s)
    OBVIOUS
  <2>2. Closed(s, u)
    BY <2>1, CloseCloses DEF RunningInv
  <2>3. Quiet(s, s)
    BY SteadyReflexive DEF RunningInv, Base, Accounts, Steady
  <2>4. u \in App /\ RunningInv(u)
    BY <2>2, <2>3, QuietlyClosed
  <2> QED BY <1>1, <2>1, <2>4
<1>3. CASE Pending(c)
  <2>1. PICK d : d = [kind |-> "mark", item |-> item]
    OBVIOUS
  <2>2. d \in Mutations /\ d.kind # "logout"
    BY <2>1 DEF Mutations
  <2>3. t = [c EXCEPT !.deferred = Append(@, d)]
    BY <1>1, <1>3, <2>1 DEF WatchedRequested
  <2> QED BY <1>2, <1>3, <2>2, <2>3, DeferredKeeps
<1>4. CASE ~Pending(c)
  <2>1. PICK b : b = [c EXCEPT !.busy = TRUE]
    OBVIOUS
  <2>2. PICK n : n = NextRequest(b)
    OBVIOUS
  <2>3. n \in App /\ Steady(c, n)
    BY <1>2, <2>1, <2>2, BusySteady DEF RunningInv, Base, Accounts
  <2>4. RunningInv(n) /\ ~Pending(n)
    BY <1>2, <1>4, <2>3, SteadyKeeps, QuietKeeps DEF Steady, RunningInv
  <2>5. t = Send(n, "mark", item, None)
    BY <1>1, <1>4, <2>1, <2>2 DEF WatchedRequested, ApplyWatched
  <2> QED BY <2>3, <2>4, <2>5, MutationSent
<1> QED BY <1>3, <1>4

(* A sign-out is sent, or it waits, with the playback closed. *)
LEMMA LogoutRequestedKeeps ==
  ASSUME NEW s \in App, RunningInv(s), NEW m \in App, Quiet(s, m),
         NEW t, t = LogoutRequested(m)
  PROVE  RunningInv(t)
<1>1. PICK c : c = Close(m)
  OBVIOUS
<1>2. Closed(m, c)
  BY <1>1, CloseCloses, QuietKeeps DEF RunningInv
<1>3. c \in App /\ RunningInv(c)
  BY <1>2, QuietlyClosed
<1>4. CASE Pending(c)
  <2>1. PICK d : d = [kind |-> "logout", item |-> None]
    OBVIOUS
  <2>2. d \in Mutations
    BY <2>1 DEF Mutations
  <2>3. t = [c EXCEPT !.deferred = Append(@, d)]
    BY <1>1, <1>4, <2>1 DEF LogoutRequested
  <2> QED BY <1>2, <1>3, <1>4, <2>2, <2>3, DeferredKeeps DEF Closed
<1>5. CASE ~Pending(c)
  <2>1. t = Send(c, "logout", None, None)
    BY <1>1, <1>5 DEF LogoutRequested, FinishLogout
  <2> QED BY <1>3, <1>5, <2>1, MutationSent
<1> QED BY <1>4, <1>5

(* Quitting ends the program, or it waits, with the playback closed. *)
LEMMA QuitKeeps ==
  ASSUME NEW s \in App, RunningInv(s), s.leaving = "no", NEW m \in App, Quiet(s, m),
         NEW t, t = QuitApplication(m)
  PROVE  RunningInv(t) \/ EndedInv(t)
<1>1. PICK c : c = Close(m)
  OBVIOUS
<1>2. Closed(m, c)
  BY <1>1, CloseCloses, QuietKeeps DEF RunningInv
<1>3. c \in App /\ RunningInv(c)
  BY <1>2, QuietlyClosed
<1>4. m.leaving = "no"
  BY DEF Quiet, Rest
<1>5. CASE Pending(c)
  <2>1. t = [c EXCEPT !.leaving = "waiting"]
    BY <1>1, <1>4, <1>5 DEF QuitApplication
  <2>2. [c EXCEPT !.leaving = "waiting"] \in App
    BY <1>3, ZenonT(60) DEF App
  <2>3. /\ t \in App /\ Player(c, t) /\ t.requests = c.requests /\ t.token = c.token
        /\ t.aborts = c.aborts /\ t.afterAbort = c.afterAbort /\ t.server = c.server
        /\ t.leaving = "waiting"
    BY <1>3, <2>1, <2>2 DEF App, Player
  <2>4. Base(t)
    <3>1. Base(c)
      BY <1>3 DEF RunningInv
    <3>2. Grows(c, t) /\ New(c, t) = {}
      BY <1>3, <2>3, <3>1, Requests DEF Grows, New
    <3>3. t.token <= t.server
      BY <2>3, <3>1 DEF Base, Accounts
    <3> QED BY <1>3, <2>3, <3>1, <3>2, <3>3, BehindKeeps
  <2>5. Current(t) /\ Over(t)
    BY <1>3, <2>3 DEF RunningInv, Current, Over, Live, Player
  <2>6. Waits(t)
    BY <1>2, <1>5, <2>3 DEF Closed, Waits, Pending, NoResolution, Player
  <2> QED BY <2>3, <2>4, <2>5, <2>6 DEF RunningInv
<1>6. CASE ~Pending(c)
  <2>1. t = Ended(c, "gone")
    BY <1>1, <1>4, <1>6 DEF QuitApplication
  <2>2. c.stop = None
    BY <1>6 DEF Pending
  <2> QED BY <1>2, <1>3, <2>1, <2>2, EndedKeeps DEF Closed
<1> QED BY <1>5, <1>6

(* The adapter observes every change of the player.                            *)
LEMMA BecomesKeeps ==
  ASSUME NEW s \in App, RunningInv(s), NEW u \in App, Rest(s, u), u.requests = s.requests,
         u.token = s.token, u.current = s.current, u.playback = s.playback,
         u.started = s.started, u.finished = s.finished, u.startPending = s.startPending,
         u.stop = s.stop, u.reported = s.reported,
         NEW t, t = Observe(u)
  PROVE  RunningInv(t)
<1>1. Base(s)
  BY DEF RunningInv
<1>2. Live(u) <=> Live(s)
  BY DEF Live
<1>3. Base(u)
  <2>1. Typed(u) /\ Accounts(u)
    BY <1>1 DEF Base, Typed, Accounts, Rest
  <2>2. Serial(u) /\ Ordered(u) /\ Alternates(u)
    BY <1>1 DEF Base, Serial, Ordered, ReportAt, Alternates
  <2>3. Owed(u)
    BY <1>1, <1>2 DEF Base, Owed
  <2>4. Occurrence(u)
    BY <1>1, <1>2 DEF Base, Occurrence
  <2> QED BY <2>1, <2>2, <2>3, <2>4 DEF Base
<1>4. Handled(u, t) /\ Over(t) /\ (u.playback = None => t = u) /\ t \in App
  BY <1>3, ObserveHandled DEF Handled
<1>5. Current(u) /\ Waits(u)
  <2>1. (Leaves(u) <=> Leaves(s)) /\ (Pending(u) <=> Pending(s))
    BY DEF Rest, Leaves, Pending
  <2> QED BY <2>1 DEF RunningInv, Current, Waits, NoResolution
<1>6. Current(t)
  BY <1>4, <1>5, MarkedKeepsCurrent DEF Handled
<1>7. Waits(t)
  <2>1. Leaves(t) <=> Leaves(u)
    BY <1>4 DEF Handled, Rest, Leaves
  <2> QED BY <1>4, <1>5, <2>1 DEF Waits
<1> QED BY <1>4, <1>6, <1>7 DEF RunningInv, Handled, Rest

(* A lost login closes the playback too.                                       *)
LEMMA AuthenticationLostKeeps ==
  ASSUME NEW s \in App, RunningInv(s), NEW t, t = AuthenticationLost(Supersede(s))
  PROVE  RunningInv(t) /\ t \in App /\ Grows(s, t) /\ Rest(s, t)
<1>1. PICK m : m = Supersede(s)
  OBVIOUS
<1>2. Quiet(s, m) /\ m \in App /\ m.token <= m.server
  BY <1>1, SupersedeQuiet DEF Quiet, RunningInv, Base, Accounts
<1>3. PICK u : u = [m EXCEPT !.token = 0, !.busy = FALSE, !.openingHome = FALSE]
  OBVIOUS
<1>4. u \in App /\ Rest(m, u) /\ Player(m, u) /\ u.requests = m.requests /\ u.token = 0
  <2>1. 0 \in 0..MaxLogins
    BY AdapterAssumption
  <2>2. [m EXCEPT !.token = 0, !.busy = FALSE, !.openingHome = FALSE] \in App
    BY <1>2, <2>1, ZenonT(60) DEF App
  <2> QED BY <1>2, <1>3, <2>2 DEF App, Rest, Player
<1>5. Steady(m, u) /\ u.token <= u.server
  <2>1. Steady(m, u)
    BY <1>2, <1>4, FlagsSteady
  <2> QED BY <2>1 DEF Steady, Quiet
<1>6. PICK n : n = NextRequest(u)
  OBVIOUS
<1>7. Steady(u, n) /\ n \in App
  BY <1>4, <1>5, <1>6, OutdateSteady DEF NextRequest, Steady, Quiet
<1>8. Quiet(s, n)
  BY <1>2, <1>4, <1>5, <1>7, QuietTransitive DEF Steady
<1>9. t = Close(n)
  BY <1>1, <1>3, <1>6 DEF AuthenticationLost
<1>10. Closed(n, t)
  BY <1>7, <1>8, <1>9, CloseCloses, QuietKeeps DEF RunningInv
<1> QED BY <1>7, <1>8, <1>10, QuietlyClosed

-------------------------------------------------------------------------------
(* One lemma per action.                                                       *)

(* One lemma for each action of Next: a request is answered. *)
LEMMA AnswerKeeps ==
  ASSUME RunningInv(app), Answer
  PROVE  Inv'
<1>1. PICK s : s = app
  OBVIOUS
<1>2. PICK t : t = app'
  OBVIOUS
<1>3. s \in App /\ RunningInv(s)
  BY <1>1 DEF RunningInv, Base, Typed
<1>4. PICK i \in DOMAIN s.requests : AnswerTo(i)
  BY <1>1 DEF Answer
<1>5. s.aborts = 0 /\ s.aborts < Len(s.requests)
  BY <1>1, <1>3, <1>4, Requests DEF AnswerTo, Idle
<1>6. \/ t = Answered(s, i, FALSE)
      \/ (s.requests[i].token # 0 \/ s.requests[i].kind = "login") /\ t = Answered(s, i, TRUE)
      \/ t = Answered(AuthenticationLost(Supersede(s)), i, FALSE)
  BY <1>1, <1>2, <1>4 DEF AnswerTo
<1>7. CASE t = Answered(s, i, FALSE)
  BY <1>2, <1>3, <1>5, <1>7, AnsweredKeeps DEF Inv
<1>8. CASE (s.requests[i].token # 0 \/ s.requests[i].kind = "login") /\ t = Answered(s, i, TRUE)
  BY <1>2, <1>3, <1>5, <1>8, AnsweredKeeps DEF Inv
<1>9. CASE t = Answered(AuthenticationLost(Supersede(s)), i, FALSE)
  <2>1. PICK u : u = AuthenticationLost(Supersede(s))
    OBVIOUS
  <2>2. RunningInv(u) /\ u \in App /\ Grows(s, u) /\ Rest(s, u)
    BY <1>3, <2>1, AuthenticationLostKeeps
  <2>3. i \in DOMAIN u.requests /\ u.aborts < Len(u.requests)
    BY <1>3, <1>5, <2>2, Requests DEF Grows, Rest
  <2>4. t = Answered(u, i, FALSE)
    BY <1>9, <2>1
  <2> QED BY <1>2, <2>2, <2>3, <2>4, AnsweredKeeps DEF Inv
<1> QED BY <1>6, <1>7, <1>8, <1>9

(* What is to be aborted fails, oldest first. *)
LEMMA AbortKeeps ==
  ASSUME RunningInv(app), Abort
  PROVE  Inv'
<1>1. PICK s : s = app
  OBVIOUS
<1>2. PICK t : t = app'
  OBVIOUS
<1>3. s \in App /\ RunningInv(s) /\ s.aborts <= Len(s.requests)
  BY <1>1 DEF RunningInv, Base, Typed
<1>4. PICK n \in Nat : n = s.aborts - 1
  BY <1>1, <1>3 DEF Abort, App
<1>5. PICK u : u = [s EXCEPT !.aborts = n]
  OBVIOUS
<1>6. t = Answered(u, 1, FALSE)
  BY <1>1, <1>2, <1>4, <1>5 DEF Abort
<1>7. /\ u \in App /\ Player(s, u) /\ u.requests = s.requests /\ u.token = s.token
      /\ u.aborts = n /\ u.afterAbort = s.afterAbort /\ u.server = s.server
      /\ u.deferred = s.deferred /\ u.leaving = s.leaving
  <2>1. [s EXCEPT !.aborts = n] \in App
    BY <1>3 DEF App
  <2> QED BY <1>3, <1>5, <2>1 DEF App, Player
<1>8. n < Len(s.requests) /\ Len(s.requests) \in Nat /\ s.server \in Nat
  BY <1>3, <1>4, Requests DEF App
<1>9. RunningInv(u)
  <2>1. u.token <= u.server /\ s.server <= u.server /\ u.aborts <= Len(s.requests)
    BY <1>3, <1>7, <1>8 DEF RunningInv, Base, Accounts
  <2>2. u.afterAbort = "login" => u.server < MaxLogins
    BY <1>3, <1>7 DEF RunningInv, Base, Accounts
  <2> QED BY <1>3, <1>7, <2>1, <2>2, AbortsKeep
<1>10. 1 \in DOMAIN u.requests /\ u.aborts < Len(u.requests)
  BY <1>3, <1>7, <1>8, Requests
<1> QED BY <1>2, <1>6, <1>7, <1>9, <1>10, AnsweredKeeps DEF Inv

(* What follows the aborts: the login, or the end of the session. *)
LEMMA AbortedKeeps ==
  ASSUME RunningInv(app), Aborted
  PROVE  Inv'
<1>1. PICK s : s = app
  OBVIOUS
<1>2. PICK t : t = app'
  OBVIOUS
<1>3. s \in App /\ RunningInv(s) /\ s.server \in Nat /\ s.aborts = 0 /\ 0 \in 0..MaxLogins
  BY <1>1, AdapterAssumption DEF RunningInv, Base, Typed, App, Aborted
<1>4. Len(s.requests) \in Nat
  BY <1>3, Requests
<1>5. CASE s.afterAbort = "login"
  <2>1. PICK n \in 0..MaxLogins : n = s.server + 1
    BY <1>3, <1>5, AdapterAssumption DEF RunningInv, Base, Accounts
  <2>2. PICK u : u = [s EXCEPT !.afterAbort = "nothing", !.server = n, !.token = 0]
    OBVIOUS
  <2>3. t = Send(u, "login", None, None)
    BY <1>1, <1>2, <1>5, <2>1, <2>2 DEF Aborted
  <2>4. /\ u \in App /\ Player(s, u) /\ u.requests = s.requests /\ u.token = 0
        /\ u.aborts = s.aborts /\ u.afterAbort = "nothing" /\ u.server = n
        /\ u.deferred = s.deferred /\ u.leaving = s.leaving
    <3>1. [s EXCEPT !.afterAbort = "nothing", !.server = n, !.token = 0] \in App
      BY <1>3, ZenonT(60) DEF App
    <3> QED BY <1>3, <2>2, <3>1 DEF App, Player
  <2>5. RunningInv(u) /\ u.token <= u.server
    <3>1. u.token <= u.server /\ s.server <= u.server /\ u.aborts <= Len(s.requests)
      BY <1>3, <1>4, <2>1, <2>4
    <3> QED BY <1>3, <2>4, <3>1, AbortsKeep
  <2>6. Steady(u, t) /\ t \in App
    <3>1. Steady(u, Send(u, "login", None, None))
      BY <2>4, <2>5, SendSteady DEF Openings
    <3> QED BY <2>3, <3>1 DEF Steady, Quiet
  <2> QED BY <1>2, <2>4, <2>5, <2>6, SteadyKeeps DEF Inv
<1>6. CASE s.afterAbort = "clear"
  <2>1. t = [s EXCEPT !.afterAbort = "nothing", !.token = 0]
    BY <1>1, <1>2, <1>6 DEF Aborted
  <2>2. [s EXCEPT !.afterAbort = "nothing", !.token = 0] \in App
    BY <1>3, ZenonT(60) DEF App
  <2>3. /\ t \in App /\ Player(s, t) /\ t.requests = s.requests /\ t.token = 0
        /\ t.aborts = s.aborts /\ t.afterAbort = "nothing" /\ t.server = s.server
        /\ t.deferred = s.deferred /\ t.leaving = s.leaving
    BY <1>3, <2>1, <2>2 DEF App, Player
  <2>4. t.token <= t.server /\ s.server <= t.server /\ t.aborts <= Len(s.requests)
    BY <1>3, <1>4, <2>3
  <2>5. RunningInv(t)
    BY <1>3, <2>3, <2>4, AbortsKeep
  <2> QED BY <1>2, <2>5 DEF Inv
<1> QED BY <1>1, <1>5, <1>6 DEF Aborted

(* The token store has removed the token. *)
LEMMA RemovedKeeps ==
  ASSUME RunningInv(app), Removed
  PROVE  Inv'
<1>1. PICK s : s = app
  OBVIOUS
<1>2. PICK t : t = app'
  OBVIOUS
<1>3. s \in App /\ RunningInv(s) /\ s.token <= s.server
  BY <1>1 DEF RunningInv, Base, Typed, Accounts
<1>4. t = [s EXCEPT !.removing = FALSE, !.busy = FALSE, !.openingHome = FALSE]
  BY <1>1, <1>2 DEF Removed
<1>5. t \in App /\ Rest(s, t) /\ Player(s, t) /\ t.requests = s.requests /\ t.token = s.token
  <2>1. [s EXCEPT !.removing = FALSE, !.busy = FALSE, !.openingHome = FALSE] \in App
    BY <1>3, ZenonT(60) DEF App
  <2> QED BY <1>3, <1>4, <2>1 DEF App, Rest, Player
<1>6. Steady(s, t)
  BY <1>3, <1>5, FlagsSteady
<1> QED BY <1>2, <1>3, <1>5, <1>6, SteadyKeeps DEF Inv

(* The user logs in. *)
LEMMA LoginKeeps ==
  ASSUME RunningInv(app), Login
  PROVE  Inv'
<1>1. PICK s : s = app
  OBVIOUS
<1>2. PICK t : t = app'
  OBVIOUS
<1>3. s \in App /\ RunningInv(s) /\ s.token <= s.server /\ s.server < MaxLogins
  BY <1>1 DEF RunningInv, Base, Typed, Accounts, Login
<1>4. PICK b : b = [s EXCEPT !.busy = TRUE]
  OBVIOUS
<1>5. PICK n : n = NextRequest(b)
  OBVIOUS
<1>6. n \in App /\ Steady(s, n) /\ RunningInv(n)
  BY <1>3, <1>4, <1>5, BusySteady, SteadyKeeps
<1>7. PICK k \in Nat : k = Len(s.requests)
  BY <1>3, Requests
<1>8. t = [n EXCEPT !.aborts = k, !.afterAbort = "login"]
  BY <1>1, <1>2, <1>4, <1>5, <1>7 DEF Login
<1>9. [n EXCEPT !.aborts = k, !.afterAbort = "login"] \in App
  BY <1>6 DEF App
<1>10. /\ t \in App /\ Player(n, t) /\ t.requests = n.requests /\ t.token = n.token
       /\ t.aborts = k /\ t.server = n.server
       /\ t.deferred = n.deferred /\ t.leaving = n.leaving
  BY <1>6, <1>8, <1>9 DEF App, Player
<1>11. /\ t.token <= t.server /\ n.server <= t.server /\ t.aborts <= Len(n.requests)
       /\ t.server < MaxLogins
  <2>1. n.server \in Nat
    BY <1>6 DEF App
  <2> QED BY <1>3, <1>6, <1>7, <1>10, <2>1 DEF Steady, Quiet, Rest, Grows
<1>12. RunningInv(t)
  BY <1>6, <1>10, <1>11, AbortsKeep
<1> QED BY <1>2, <1>12 DEF Inv

(* The user turns to another page of the library. *)
LEMMA NavigateKeeps ==
  ASSUME RunningInv(app), Navigate
  PROVE  Inv'
<1>1. PICK s : s = app
  OBVIOUS
<1>2. PICK t : t = app'
  OBVIOUS
<1>3. s \in App /\ RunningInv(s) /\ s.token <= s.server
  BY <1>1 DEF RunningInv, Base, Typed, Accounts
<1>4. t = Load(s)
  BY <1>1, <1>2 DEF Navigate
<1>5. Steady(s, t) /\ t \in App
  BY <1>3, <1>4, LoadSteady DEF Steady, Quiet
<1> QED BY <1>2, <1>3, <1>5, SteadyKeeps DEF Inv

(* The user asks for an item. *)
LEMMA RequestPlayKeeps ==
  ASSUME RunningInv(app), RequestPlay
  PROVE  Inv'
<1>1. PICK s : s = app
  OBVIOUS
<1>2. PICK t : t = app'
  OBVIOUS
<1>3. s \in App /\ RunningInv(s) /\ s.token <= s.server
  BY <1>1 DEF RunningInv, Base, Typed, Accounts
<1>4. PICK item \in Items : t = Play(s, item)
  BY <1>1, <1>2 DEF RequestPlay
<1>5. Steady(s, t) /\ t \in App
  BY <1>3, <1>4, PlaySteady DEF Steady, Quiet
<1> QED BY <1>2, <1>3, <1>5, SteadyKeeps DEF Inv

(* The user asks for an item of the home page. *)
LEMMA OpenHomeItemKeeps ==
  ASSUME RunningInv(app), OpenHomeItem
  PROVE  Inv'
<1>1. PICK s : s = app
  OBVIOUS
<1>2. PICK t : t = app'
  OBVIOUS
<1>3. s \in App /\ RunningInv(s) /\ s.token <= s.server
  BY <1>1 DEF RunningInv, Base, Typed, Accounts
<1>4. PICK b : b = [s EXCEPT !.openingHome = TRUE, !.busy = TRUE]
  OBVIOUS
<1>5. b \in App /\ Rest(s, b) /\ Player(s, b) /\ b.requests = s.requests /\ b.token = s.token
  <2>1. [s EXCEPT !.openingHome = TRUE, !.busy = TRUE] \in App
    BY <1>3 DEF App
  <2> QED BY <1>3, <1>4, <2>1 DEF App, Rest, Player
<1>6. Steady(s, b) /\ b.token <= b.server
  BY <1>3, <1>5, FlagsSteady DEF Rest
<1>7. PICK n : n = NextRequest(b)
  OBVIOUS
<1>8. Steady(b, n) /\ n \in App /\ n.token <= n.server
  BY <1>5, <1>6, <1>7, OutdateSteady DEF NextRequest, Steady, Quiet
<1>9. PICK item \in Items : t = Send(n, "home", item, None)
  BY <1>1, <1>2, <1>4, <1>7 DEF OpenHomeItem
<1>10. Steady(n, t) /\ t \in App
  BY <1>8, <1>9, SendSteady DEF Steady, Quiet
<1>11. Steady(s, n)
  BY <1>3, <1>5, <1>6, <1>8, SteadyTransitive
<1>12. Steady(s, t)
  BY <1>3, <1>8, <1>10, <1>11, SteadyTransitive
<1> QED BY <1>2, <1>3, <1>10, <1>12, SteadyKeeps DEF Inv

(* The user marks an item watched. *)
LEMMA SetWatchedKeeps ==
  ASSUME RunningInv(app), SetWatched
  PROVE  Inv'
<1>1. PICK s : s = app
  OBVIOUS
<1>2. PICK t : t = app'
  OBVIOUS
<1>3. s \in App /\ RunningInv(s)
  BY <1>1 DEF RunningInv, Base, Typed
<1>4. PICK item \in Items : t = WatchedRequested(s, item)
  BY <1>1, <1>2 DEF SetWatched
<1> QED BY <1>2, <1>3, <1>4, WatchedRequestedKeeps DEF Inv

(* The user signs out. *)
LEMMA LogoutKeeps ==
  ASSUME RunningInv(app), Logout
  PROVE  Inv'
<1>1. PICK s : s = app
  OBVIOUS
<1>2. PICK t : t = app'
  OBVIOUS
<1>3. s \in App /\ RunningInv(s) /\ s.token <= s.server
  BY <1>1 DEF RunningInv, Base, Typed, Accounts
<1>4. PICK b : b = [s EXCEPT !.busy = TRUE]
  OBVIOUS
<1>5. PICK n : n = NextRequest(b)
  OBVIOUS
<1>6. n \in App /\ Steady(s, n) /\ n.token <= n.server
  BY <1>3, <1>4, <1>5, BusySteady DEF Steady, Quiet
<1>7. PICK m : m = Supersede(n)
  OBVIOUS
<1>8. Quiet(n, m) /\ m \in App
  BY <1>6, <1>7, SupersedeQuiet DEF Quiet
<1>9. Quiet(s, m)
  BY <1>3, <1>6, <1>8, QuietTransitive DEF Steady
<1>10. t = LogoutRequested(m)
  BY <1>1, <1>2, <1>4, <1>5, <1>7 DEF Logout
<1> QED BY <1>2, <1>3, <1>8, <1>9, <1>10, LogoutRequestedKeeps DEF Inv

(* The user opens a local medium. *)
LEMMA OpenLocalKeeps ==
  ASSUME RunningInv(app), OpenLocal
  PROVE  Inv'
<1>1. PICK s : s = app
  OBVIOUS
<1>2. PICK t : t = app'
  OBVIOUS
<1>3. s \in App /\ RunningInv(s) /\ s.token <= s.server
  BY <1>1 DEF RunningInv, Base, Typed, Accounts
<1>4. PICK m : m = Supersede(s)
  OBVIOUS
<1>5. Quiet(s, m) /\ m \in App /\ Base(m)
  BY <1>3, <1>4, SupersedeQuiet, QuietKeeps DEF Quiet, RunningInv
<1>6. t = OpenPlayer(m)
  BY <1>1, <1>2, <1>4 DEF OpenLocal
<1>7. Closed(m, t)
  BY <1>5, <1>6, OpenPlayerCloses
<1> QED BY <1>2, <1>3, <1>5, <1>7, QuietlyClosed DEF Inv

(* The player fails to open its medium. *)
LEMMA OpenFailsKeeps ==
  ASSUME RunningInv(app), OpenFails
  PROVE  Inv'
<1>1. PICK s : s = app
  OBVIOUS
<1>2. PICK t : t = app'
  OBVIOUS
<1>3. s \in App /\ RunningInv(s) /\ s.token <= s.server
  BY <1>1 DEF RunningInv, Base, Typed, Accounts
<1>4. PICK m : m = Supersede(s)
  OBVIOUS
<1>5. Quiet(s, m) /\ m \in App /\ Base(m)
  BY <1>3, <1>4, SupersedeQuiet, QuietKeeps DEF Quiet, RunningInv
<1>6. PICK c : c = MediaClosing(m)
  OBVIOUS
<1>7. Closed(m, c) /\ c \in App
  BY <1>5, <1>6, MediaClosingCloses DEF Closed
<1>8. t = [c EXCEPT !.phase = "empty"]
  BY <1>1, <1>2, <1>4, <1>6 DEF OpenFails
<1>9. /\ t \in App /\ Rest(c, t) /\ t.requests = c.requests /\ t.token = c.token
      /\ t.playback = c.playback
      /\ t.started = c.started /\ t.finished = c.finished
      /\ t.startPending = c.startPending /\ t.stop = c.stop /\ t.reported = c.reported
  <2>1. "empty" \in Phases
    BY DEF Phases
  <2>2. [c EXCEPT !.phase = "empty"] \in App
    BY <1>7, <2>1 DEF App
  <2> QED BY <1>7, <1>8, <2>2 DEF App, Rest
<1>10. Closed(m, t)
  BY <1>5, <1>7, <1>9, ClosedMoves DEF Closed
<1> QED BY <1>2, <1>3, <1>5, <1>10, QuietlyClosed DEF Inv

(* The user closes the medium. *)
LEMMA CloseMediaKeeps ==
  ASSUME RunningInv(app), CloseMedia
  PROVE  Inv'
<1>1. PICK s : s = app
  OBVIOUS
<1>2. PICK t : t = app'
  OBVIOUS
<1>3. s \in App /\ RunningInv(s) /\ s.token <= s.server
  BY <1>1 DEF RunningInv, Base, Typed, Accounts
<1>4. PICK m : m = Supersede(s)
  OBVIOUS
<1>5. Quiet(s, m) /\ m \in App /\ Base(m)
  BY <1>3, <1>4, SupersedeQuiet, QuietKeeps DEF Quiet, RunningInv
<1>6. t = ClosePlayer(m)
  BY <1>1, <1>2, <1>4 DEF CloseMedia
<1>7. Closed(m, t)
  BY <1>5, <1>6, ClosePlayerCloses
<1> QED BY <1>2, <1>3, <1>5, <1>7, QuietlyClosed DEF Inv

(* The player plays, pauses or comes to the end. *)
LEMMA PhaseKeeps ==
  ASSUME RunningInv(app), Starts \/ Pauses \/ Ends
  PROVE  Inv'
<1>1. PICK s : s = app
  OBVIOUS
<1>2. PICK t : t = app'
  OBVIOUS
<1>3. s \in App /\ RunningInv(s)
  BY <1>1 DEF RunningInv, Base, Typed
<1>4. PICK phase \in Phases : t = Observe([s EXCEPT !.phase = phase])
  BY <1>1, <1>2 DEF Starts, Pauses, Ends, Becomes, Phases
<1>5. PICK u : u = [s EXCEPT !.phase = phase]
  OBVIOUS
<1>6. /\ u \in App /\ Rest(s, u) /\ u.requests = s.requests /\ u.token = s.token
      /\ u.current = s.current /\ u.playback = s.playback
      /\ u.started = s.started /\ u.finished = s.finished
      /\ u.startPending = s.startPending /\ u.stop = s.stop /\ u.reported = s.reported
  BY <1>3, <1>5 DEF App, Rest
<1> QED BY <1>2, <1>3, <1>4, <1>5, <1>6, BecomesKeeps DEF Inv

(* The user replays a medium that has ended. *)
LEMMA ReplayKeeps ==
  ASSUME RunningInv(app), Replay
  PROVE  Inv'
<1>1. PICK s : s = app
  OBVIOUS
<1>2. PICK t : t = app'
  OBVIOUS
<1>3. s \in App /\ RunningInv(s) /\ "quiet" \in Phases
  BY <1>1 DEF RunningInv, Base, Typed, Phases
<1>4. PICK n \in 0..MaxReplays : n = s.replays + 1
  BY <1>1, <1>3, AdapterAssumption, SMTT(30) DEF Replay, App
<1>5. PICK u : u = [s EXCEPT !.phase = "quiet", !.replays = n]
  OBVIOUS
<1>6. t = Observe(u)
  BY <1>1, <1>2, <1>4, <1>5 DEF Replay
<1>7. /\ u \in App /\ Rest(s, u) /\ u.requests = s.requests /\ u.token = s.token
      /\ u.current = s.current /\ u.playback = s.playback
      /\ u.started = s.started /\ u.finished = s.finished
      /\ u.startPending = s.startPending /\ u.stop = s.stop /\ u.reported = s.reported
  <2>1. [s EXCEPT !.phase = "quiet", !.replays = n] \in App
    BY <1>3 DEF App
  <2> QED BY <1>3, <1>5, <2>1 DEF App, Rest
<1> QED BY <1>2, <1>3, <1>6, <1>7, BecomesKeeps DEF Inv

(* The user quits. *)
LEMMA QuitStepKeeps ==
  ASSUME RunningInv(app), Quit
  PROVE  Inv'
<1>1. PICK s : s = app
  OBVIOUS
<1>2. PICK t : t = app'
  OBVIOUS
<1>3. s \in App /\ RunningInv(s) /\ s.token <= s.server /\ s.leaving = "no"
  BY <1>1 DEF RunningInv, Base, Typed, Accounts, Quit
<1>4. PICK m : m = Supersede(s)
  OBVIOUS
<1>5. Quiet(s, m) /\ m \in App
  BY <1>3, <1>4, SupersedeQuiet DEF Quiet
<1>6. t = QuitApplication(m)
  BY <1>1, <1>2, <1>4 DEF Quit
<1> QED BY <1>2, <1>3, <1>5, <1>6, QuitKeeps DEF Inv

(* The program gives up waiting for the reports. *)
LEMMA GiveUpKeeps ==
  ASSUME RunningInv(app), GiveUp
  PROVE  Inv'
<1>1. PICK s : s = app
  OBVIOUS
<1>2. PICK t : t = app'
  OBVIOUS
<1>3. s \in App /\ RunningInv(s) /\ s.leaving = "waiting" /\ Base(s)
  BY <1>1 DEF RunningInv, Base, Typed, GiveUp
<1>4. s.playback = None
  BY <1>3 DEF RunningInv, Waits, Leaves
<1>5. t = Ended(s, "late")
  BY <1>1, <1>2 DEF GiveUp
<1> QED BY <1>2, <1>3, <1>4, <1>5, EndedKeeps DEF Inv

(* The program that has ended does nothing more.                               *)
LEMMA EndedIsEnd ==
  ASSUME EndedInv(app)
  PROVE  ~Next
<1>1. ~Running /\ ~Idle
  BY DEF EndedInv, Running, Idle
<1> QED BY <1>1
  DEF Next, Answer, AnswerTo, Abort, Aborted, Removed, Login, Navigate, RequestPlay,
      OpenHomeItem, SetWatched, Logout, Browsing, OpenLocal, OpenFails, CloseMedia,
      Starts, Pauses, Ends, Replay, Quit, GiveUp

(* Every step keeps the invariant. *)
LEMMA NextKeeps ==
  ASSUME Inv, [Next]_app
  PROVE  Inv'
<1>1. CASE UNCHANGED app
  BY <1>1 DEF Inv
<1>2. CASE Next
  <2>1. RunningInv(app)
    BY <1>2, EndedIsEnd DEF Inv
  <2> QED BY <1>2, <2>1, AnswerKeeps, AbortKeeps, AbortedKeeps, RemovedKeeps, LoginKeeps,
             NavigateKeeps, RequestPlayKeeps, OpenHomeItemKeeps, SetWatchedKeeps, LogoutKeeps,
             OpenLocalKeeps, OpenFailsKeeps, CloseMediaKeeps, PhaseKeeps, ReplayKeeps,
             QuitStepKeeps, GiveUpKeeps
       DEF Next
<1> QED BY <1>1, <1>2

-------------------------------------------------------------------------------
(* The program starts with nothing under way.                                  *)
LEMMA FreshTyped ==
  ASSUME NEW reported \in Seq(Reports \X Nat), NEW stop \in Media \cup {None},
         NEW leaving \in {"no", "waiting", "gone", "late"}
  PROVE  [Fresh EXCEPT !.leaving = leaving, !.reported = reported, !.stop = stop] \in App
<1>1. <<>> \in Seq(Mutations) /\ <<>> \in Seq(NetworkRequest)
  OBVIOUS
<1>2. 0 \in 0..MaxLogins /\ 0 \in 0..MaxReplays /\ "empty" \in Phases
  BY AdapterAssumption DEF Phases
<1> QED BY <1>1, <1>2 DEF Fresh, App

(* The invariant holds when the program starts. *)
LEMMA InitInv ==
  ASSUME Init
  PROVE  Inv
<1>1. PICK s : s = app
  OBVIOUS
<1>2. s = Fresh
  BY <1>1 DEF Init
<1>3. s \in App
  <2>1. <<>> \in Seq(Mutations) /\ <<>> \in Seq(NetworkRequest) /\ <<>> \in Seq(Reports \X Nat)
    OBVIOUS
  <2>2. 0 \in 0..MaxLogins /\ 0 \in 0..MaxReplays /\ "empty" \in Phases
    BY AdapterAssumption DEF Phases
  <2> QED BY <1>2, <2>1, <2>2 DEF Fresh, App
<1>4. /\ s \in App /\ s.leaving = "no" /\ s.reported = <<>> /\ s.stop = None
      /\ s.requests = <<>> /\ s.aborts = 0 /\ s.playback = None /\ s.token = 0
      /\ s.server = 0 /\ s.deferred = <<>> /\ s.afterAbort = "nothing"
      /\ ~s.started /\ ~s.startPending
  BY <1>2, <1>3 DEF Fresh
<1>5. DOMAIN s.requests = {} /\ DOMAIN s.reported = {} /\ DOMAIN s.deferred = {}
      /\ Len(s.requests) = 0 /\ Len(s.reported) = 0
  BY <1>4
<1>6. ~Live(s) /\ ~Leaves(s)
  BY <1>4, <1>5 DEF Live, Leaves
<1>7. Typed(s) /\ Accounts(s) /\ Serial(s) /\ Ordered(s)
  BY <1>4, <1>5 DEF Typed, Accounts, Serial, Ordered
<1>8. Alternates(s) /\ Owed(s) /\ Occurrence(s)
  <2>1. 0 % 2 # 1
    OBVIOUS
  <2> QED BY <1>4, <1>5, <1>6, <2>1 DEF Alternates, Owed, Occurrence
<1>9. Current(s) /\ Waits(s) /\ Over(s)
  BY <1>5, <1>6 DEF Current, Waits, Over
<1> QED BY <1>1, <1>4, <1>7, <1>8, <1>9 DEF Inv, RunningInv, Base

(* The inductive invariant: a program that runs keeps its books, and one that  *)
(* has ended leaves them in order.                                             *)
THEOREM AdapterInvariance == Spec => []Inv
<1>1. Init => Inv
  BY InitInv
<1>2. Inv /\ [Next]_app => Inv'
  BY NextKeeps
<1> QED BY <1>1, <1>2, PTL DEF Spec

-------------------------------------------------------------------------------
(* A program that has ended has its type, and nothing is under way. *)
LEMMA EndedTyped ==
  ASSUME EndedInv(app)
  PROVE  /\ app \in App /\ app.requests = <<>> /\ DOMAIN app.requests = {}
         /\ app.aborts = 0 /\ app.token = 0 /\ app.server = 0 /\ app.playback = None
         /\ ~app.startPending /\ app.current = 0 /\ app.phase # "over"
<1>1. PICK s : s = app
  OBVIOUS
<1>2. PICK r : r = s.reported
  OBVIOUS
<1>3. PICK m : m = s.stop
  OBVIOUS
<1>4. PICK l : l = s.leaving
  OBVIOUS
<1>5. /\ s = [Fresh EXCEPT !.leaving = l, !.reported = r, !.stop = m]
      /\ r \in Seq(Reports \X Nat) /\ m \in Media \cup {None}
      /\ l \in {"no", "waiting", "gone", "late"}
  BY <1>1, <1>2, <1>3, <1>4 DEF EndedInv
<1>6. s \in App
  BY <1>5, FreshTyped
<1>8. /\ s.requests = <<>> /\ s.aborts = 0 /\ s.playback = None /\ s.token = 0
      /\ s.server = 0 /\ ~s.startPending /\ s.current = 0
  BY <1>5 DEF Fresh
<1>7. s.phase # "over"
  BY <1>5 DEF Fresh
<1> QED BY <1>1, <1>6, <1>7, <1>8

(* The invariant implies the type. *)
LEMMA InvTyped ==
  ASSUME Inv
  PROVE  TypeOK
<1>1. CASE RunningInv(app)
  <2>1. app.startPending = (UnderWay({"start"}) # {})
    <3>1. app.startPending <=> (UnderWay({"start"}) # {})
      BY <1>1 DEF RunningInv, Base, Serial, UnderWay
    <3>2. app.startPending \in BOOLEAN
      BY <1>1 DEF RunningInv, Base, Typed, App
    <3> QED BY <3>1, <3>2
  <2>2. app.playback # None => app.playback.id = app.current
    BY <1>1 DEF RunningInv, Base, Occurrence
  <2> QED BY <1>1, <2>1, <2>2 DEF RunningInv, Base, Typed, Accounts, TypeOK
<1>2. CASE EndedInv(app)
  <2>1. UnderWay({"start"}) = {} /\ Len(app.requests) = 0
    BY <1>2, EndedTyped DEF UnderWay
  <2>2. app.startPending \in BOOLEAN
    BY <1>2, EndedTyped DEF App
  <2>3. app.startPending = (UnderWay({"start"}) # {})
    BY <1>2, <2>1, <2>2, EndedTyped
  <2> QED BY <1>2, <2>1, <2>3, EndedTyped DEF TypeOK
<1> QED BY <1>1, <1>2 DEF Inv

(* The state has its type, whatever the order of the answers (the members of   *)
(* JellyfinPlaybackAdapter and the requests of JellyfinClient).                *)
THEOREM TypeCorrect == Spec => []TypeOK
<1>1. Inv => TypeOK
  BY InvTyped
<1> QED BY <1>1, AdapterInvariance, PTL

(* Reports are serial: observe and sendStop never have two under way, and what *)
(* the server is told is one start and one stop of each occurrence.            *)
THEOREM ReportsStaySerial == Spec => []ReportsAreSerial
<1>1. ASSUME Inv PROVE ReportsAreSerial
  <2>1. TypeOK
    BY <1>1, InvTyped
  <2>2. Alternates(app)
    BY <1>1 DEF Inv, RunningInv, EndedInv, Base
  <2>3. Cardinality(UnderWay(Reports)) <= 1
    <3>1. \A i, j \in UnderWay(Reports) : i = j
      <4>1. CASE RunningInv(app)
        BY <4>1 DEF RunningInv, Base, Serial, UnderWay, ReportAt
      <4>2. CASE EndedInv(app)
        BY <4>2, EndedTyped DEF UnderWay
      <4> QED BY <1>1, <4>1, <4>2 DEF Inv
    <3>2. CASE UnderWay(Reports) = {}
      BY <3>2, FS_EmptySet
    <3>3. CASE UnderWay(Reports) # {}
      <4>1. PICK i \in UnderWay(Reports) : TRUE
        BY <3>3
      <4>2. UnderWay(Reports) = {i}
        BY <3>1, <4>1
      <4>3. Cardinality({i}) = 1
        BY FS_Singleton
      <4> QED BY <4>2, <4>3
    <3> QED BY <3>2, <3>3
  <2> QED BY <2>1, <2>2, <2>3 DEF ReportsAreSerial, Alternates
<1> QED BY <1>1, AdapterInvariance, PTL

(* A started medium that closes, is replaced or ends has its stop sent or      *)
(* waiting (finish), and the program ends with none unsent or unanswered       *)
(* unless it gives up waiting (quitApplication).                               *)
THEOREM FinalReportAlwaysKept == Spec => []FinalReportIsKept
<1>1. ASSUME Inv PROVE FinalReportIsKept
  <2>1. CASE RunningInv(app)
    <3>1. app.leaving # "gone"
      BY <2>1 DEF RunningInv
    <3>2. Base(app) /\ Over(app)
      BY <2>1 DEF RunningInv
    <3>3. PICK n : n = Len(app.reported)
      OBVIOUS
    <3>4. Live(app) => app.phase # "over" /\ app.current = app.reported[n][2]
      BY <3>2, <3>3 DEF Over, Base, Occurrence, Owed
    <3>5. n % 2 = 1 /\ ~Live(app) => app.stop # None /\ app.stop.id = app.reported[n][2]
      BY <3>2, <3>3 DEF Base, Owed
    <3> QED BY <3>1, <3>3, <3>4, <3>5 DEF FinalReportIsKept
  <2>2. CASE EndedInv(app)
    BY <2>2 DEF EndedInv, FinalReportIsKept
  <2> QED BY <1>1, <2>1, <2>2 DEF Inv
<1> QED BY <1>1, AdapterInvariance, PTL

(* A resolution that play sent before the user turned to other media never     *)
(* opens its item.                                                             *)
THEOREM SupersededStaysShut == Spec => []SupersededNeverOpens
<1>1. ASSUME Inv PROVE SupersededNeverOpens
  <2>1. CASE RunningInv(app)
    BY <2>1 DEF RunningInv, Current, SupersededNeverOpens, UnderWay
  <2>2. CASE EndedInv(app)
    BY <2>2, EndedTyped DEF SupersededNeverOpens, UnderWay
  <2> QED BY <1>1, <2>1, <2>2 DEF Inv
<1> QED BY <1>1, AdapterInvariance, PTL

(* The sign-out and the watched marks that logoutRequested and                 *)
(* watchedRequested hold back go out after the reports they wait for.          *)
THEOREM MutationsAlwaysWait == Spec => []MutationsWaitForReports
<1>1. ASSUME Inv PROVE MutationsWaitForReports
  <2>1. CASE RunningInv(app)
    <3> SUFFICES ASSUME NEW i \in UnderWay({"mark", "logout"}), NEW j \in UnderWay(Reports),
                        \/ app.requests[i].kind = "logout"
                        \/ /\ app.requests[j].kind = "stop"
                           /\ app.requests[j].media.item = app.requests[i].item
                 PROVE  i < j
      BY DEF MutationsWaitForReports
    <3>1. /\ i \in DOMAIN app.requests /\ app.requests[i].kind \in {"mark", "logout"}
          /\ j \in DOMAIN app.requests /\ app.requests[j].kind \in Reports
      BY DEF UnderWay
    <3> QED BY <2>1, <3>1 DEF RunningInv, Base, Ordered, ReportAt
  <2>2. CASE EndedInv(app)
    BY <2>2, EndedTyped DEF MutationsWaitForReports, UnderWay
  <2> QED BY <1>1, <2>1, <2>2 DEF Inv
<1> QED BY <1>1, AdapterInvariance, PTL

=============================================================================
