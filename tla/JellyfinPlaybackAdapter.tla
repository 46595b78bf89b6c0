------------------------ MODULE JellyfinPlaybackAdapter ------------------------
(* Playback of Jellyfin items: JellyfinPlaybackAdapter between the player     *)
(* (MediaSession), the browser's request numbering and the client's session.  *)
(*                                                                            *)
(* Everything runs on the GUI thread and signals are direct calls, so each    *)
(* handler, with the handlers it calls, is one step.  An operator on the      *)
(* state s stands for a function; an action applies the one that an event     *)
(* reaches.  Only what the network or the token store answers comes later,    *)
(* in any order: `requests` holds what is under way, oldest first.            *)
EXTENDS Integers, Sequences, SequencesExt, FiniteSets

CONSTANTS
  Items,      \* the items a server offers
  MaxMedia,   \* bound on the media opened
  MaxReplays, \* bound on the replays of a finished medium
  MaxLogins,  \* bound on the logins
  MaxRequests \* bound on the requests under way when the user asks for more

ASSUME AdapterAssumption ==
  /\ Items # {}
  /\ MaxMedia \in Nat /\ MaxReplays \in Nat /\ MaxLogins \in Nat /\ MaxRequests \in Nat

VARIABLE app

None == [none |-> TRUE]

(* Browser requests carry m_request, resolutions m_resolution: `latest` says  *)
(* that the number a request captured is still the current one.               *)
Numbered == {"load", "home", "login"}
Reports == {"start", "stop"}
Openings == {"home", "resolve"}
Kinds == Numbered \cup Reports \cup {"resolve", "mark", "logout"}

Media == [item : Items, id : Nat, server : 1..MaxLogins]
NetworkRequest ==
  {r \in [kind : Kinds, item : Items \cup {None}, media : Media \cup {None}, latest : BOOLEAN,
          superseded : BOOLEAN, server : 0..MaxLogins, token : 0..MaxLogins] :
     /\ r.kind \in Openings => r.item \in Items
     /\ r.kind \in Reports => r.media \in Media}

(* The player's part: mediaItemId() and what observe() asks of the session.   *)
(* "quiet" is opening, seeking or paused; "over" is ended, stopped or failed. *)
Phases == {"empty", "quiet", "playing", "over"}

(* What waits for the reports to settle: a watched mark or the sign-out. *)
Mutations == [kind : {"mark", "logout"}, item : Items \cup {None}]

App ==
  [current : Nat, phase : Phases, opened : Nat, replays : 0..MaxReplays,
   playback : Media \cup {None}, started : BOOLEAN, finished : BOOLEAN,
   startPending : BOOLEAN, stop : Media \cup {None}, deferred : Seq(Mutations),
   busy : BOOLEAN, sync : BOOLEAN, openingHome : BOOLEAN,
   token : 0..MaxLogins, server : 0..MaxLogins, removing : BOOLEAN,
   requests : Seq(NetworkRequest), aborts : Nat, afterAbort : {"nothing", "login", "clear"},
   reported : Seq(Reports \X Nat), leaving : {"no", "waiting", "gone", "late"}]

Fresh ==
  [current |-> 0, phase |-> "empty", opened |-> 0, replays |-> 0,
   playback |-> None, started |-> FALSE, finished |-> FALSE,
   startPending |-> FALSE, stop |-> None, deferred |-> <<>>,
   busy |-> FALSE, sync |-> FALSE, openingHome |-> FALSE,
   token |-> 0, server |-> 0, removing |-> FALSE,
   requests |-> <<>>, aborts |-> 0, afterAbort |-> "nothing",
   reported |-> <<>>, leaving |-> "no"]

Init == app = Fresh

Pending(s) == s.startPending \/ s.stop # None
Busy(s) == s.busy \/ s.sync

-------------------------------------------------------------------------------
(* JellyfinClient and the browser's bookkeeping. *)

RequestOf(s, kind, item, media) ==
  [kind |-> kind, item |-> item, media |-> media, latest |-> TRUE, superseded |-> FALSE,
   server |-> s.server, token |-> s.token]

Send(s, kind, item, media) ==
  [s EXCEPT !.requests = Append(@, RequestOf(s, kind, item, media))]

Outdate(s, kinds) ==
  [s EXCEPT !.requests = [i \in DOMAIN @ |->
     IF @[i].kind \in kinds THEN [@[i] EXCEPT !.latest = FALSE] ELSE @[i]]]

NextRequest(s) == Outdate(s, Numbered)
NextResolution(s) == Outdate(s, {"resolve"})

(* Home's four feeds count as one request, answered when the last one is. *)
Load(s) ==
  IF s.token = 0 THEN [s EXCEPT !.busy = FALSE]
  ELSE Send(NextRequest([s EXCEPT !.busy = TRUE]), "load", None, None)

Refresh(s) == IF ~s.busy /\ s.token # 0 THEN Load(s) ELSE s

CancelHomeOpening(s) ==
  IF s.openingHome THEN NextRequest([s EXCEPT !.openingHome = FALSE, !.busy = FALSE]) ELSE s

ApplyWatched(s, item) == Send(NextRequest([s EXCEPT !.busy = TRUE]), "mark", item, None)

FinishLogout(s) == Send(s, "logout", None, None)

-------------------------------------------------------------------------------
(* JellyfinPlaybackAdapter. *)

Report(s, kind, media) ==
  Send([s EXCEPT !.reported = Append(@, <<kind, media.id>>)], kind, None, media)

SendStop(s) == Report(s, "stop", s.stop)

BugStopOvertakes(s) ==
  IF s.playback = None \/ ~s.started \/ s.finished THEN s
  ELSE SendStop([s EXCEPT !.finished = TRUE, !.stop = s.playback, !.sync = TRUE])

Finish(s) ==
  IF s.playback = None \/ ~s.started \/ s.finished THEN s
  ELSE LET f == [s EXCEPT !.finished = TRUE, !.stop = s.playback, !.sync = TRUE]
       IN IF f.startPending THEN f ELSE SendStop(f)

Loaded(s) == s.playback # None /\ s.current = s.playback.id

Observe(s) ==
  IF ~Loaded(s) THEN s
  ELSE IF s.phase = "over" THEN Finish(s)
  ELSE IF s.phase # "playing" \/ Pending(s) \/ (s.started /\ ~s.finished) THEN s
  ELSE Report([s EXCEPT !.started = TRUE, !.finished = FALSE, !.startPending = TRUE],
              "start", s.playback)

BugClosingForgets(s) ==
  LET c == NextResolution(CancelHomeOpening(s))
      d == IF Pending(c) THEN c ELSE [c EXCEPT !.sync = FALSE]
  IN IF Loaded(d) THEN [d EXCEPT !.playback = None] ELSE d

BugClosingKeepsResolution(s) ==
  LET c == CancelHomeOpening(s)
      d == IF Pending(c) THEN c ELSE [c EXCEPT !.sync = FALSE]
  IN IF Loaded(d) THEN [Finish(d) EXCEPT !.playback = None] ELSE d

BugClosingKeepsSync(s) ==
  LET c == NextResolution(CancelHomeOpening(s))
  IN IF Loaded(c) THEN [Finish(c) EXCEPT !.playback = None] ELSE c

(* The handler of mediaClosing, which the player emits before it lets go of   *)
(* its current medium.                                                        *)
MediaClosing(s) ==
  LET c == NextResolution(CancelHomeOpening(s))
      d == IF Pending(c) THEN c ELSE [c EXCEPT !.sync = FALSE]
  IN IF Loaded(d) THEN [Finish(d) EXCEPT !.playback = None] ELSE d

(* MediaSession::cancel. *)
ClosePlayer(s) == [MediaClosing(s) EXCEPT !.current = 0, !.phase = "empty"]

(* MediaSession::openMedia. *)
OpenPlayer(s) ==
  LET c == MediaClosing(s)
  IN [c EXCEPT !.opened = @ + 1, !.current = c.opened + 1, !.phase = "quiet"]

Close(s) ==
  LET c == NextResolution(s)
      d == IF Pending(c) THEN c ELSE [c EXCEPT !.sync = FALSE]
  IN IF Loaded(d) THEN ClosePlayer(d) ELSE d

Play(s, item) ==
  IF Pending(s) THEN s
  ELSE Send([NextResolution(s) EXCEPT !.sync = TRUE], "resolve", item, None)

WatchedRequested(s, item) ==
  LET c == IF s.playback # None /\ s.playback.item = item THEN Close(s) ELSE s
  IN IF Pending(c) THEN [c EXCEPT !.deferred = Append(@, [kind |-> "mark", item |-> item])]
     ELSE ApplyWatched(c, item)

BugLogoutAtOnce(s) == FinishLogout(Close(s))

LogoutRequested(s) ==
  LET c == Close(s)
  IN IF Pending(c) THEN [c EXCEPT !.deferred = Append(@, [kind |-> "logout", item |-> None])]
     ELSE FinishLogout(c)

(* The program ends: of what it had there remain the reports sent and the one owed. *)
Ended(s, how) == [Fresh EXCEPT !.leaving = how, !.reported = s.reported, !.stop = s.stop]

BugQuitApplication(s) == IF s.leaving # "no" THEN s ELSE Ended(Close(s), "gone")

(* PresentationWindow::quitApplication: closing the window, or Quit, closes the   *)
(* playback and waits for its reports.                                            *)
QuitApplication(s) ==
  LET c == Close(s)
  IN IF s.leaving # "no" THEN s
     ELSE IF Pending(c) THEN [c EXCEPT !.leaving = "waiting"] ELSE Ended(c, "gone")

(* settled() runs what waits for it once, in the order it was connected: each  *)
(* sends its request, a mark as ApplyWatched and the sign-out as FinishLogout.   *)
(* The end of the program comes when they have all run.                          *)
Asked(s) == [i \in DOMAIN s.deferred |->
  RequestOf(s, s.deferred[i].kind, s.deferred[i].item, None)]

Marks(s) == \E i \in DOMAIN s.deferred : s.deferred[i].kind = "mark"

Settled(s) ==
  LET n == IF Marks(s) THEN NextRequest([s EXCEPT !.busy = TRUE]) ELSE s
  IN IF s.leaving = "waiting" THEN Ended(s, "gone")
     ELSE [n EXCEPT !.deferred = <<>>, !.requests = @ \o Asked(s)]

-------------------------------------------------------------------------------
(* The answers: what each request's completion does. *)

Resolved(s, r, ok) ==
  LET c == [s EXCEPT !.sync = FALSE]
      o == OpenPlayer(c)
  IN IF ~r.latest THEN s
     ELSE IF ~ok THEN c
     ELSE Observe([o EXCEPT
            !.playback = [item |-> r.item, id |-> o.current, server |-> o.server],
            !.started = FALSE, !.finished = FALSE])

StartReported(s) ==
  LET c == [s EXCEPT !.startPending = FALSE]
  IN IF c.stop # None THEN SendStop(c) ELSE Settled(c)

BugSilentFailure(s, ok) ==
  LET c == [s EXCEPT !.stop = None, !.sync = FALSE]
  IN IF ok THEN Settled(Observe(Refresh(c))) ELSE Observe(c)

StopReported(s, ok) ==
  LET c == [s EXCEPT !.stop = None, !.sync = FALSE]
  IN Settled(Observe(IF ok THEN Refresh(c) ELSE c))

LoadAnswered(s, r) == IF r.latest THEN [s EXCEPT !.busy = FALSE] ELSE s

(* An episode on the home page: its season is visited, then it is played. *)
HomeAnswered(s, r, ok) ==
  LET c == [s EXCEPT !.openingHome = FALSE, !.busy = FALSE]
  IN IF ~r.latest THEN s ELSE IF ~ok THEN c ELSE Play(Load(c), r.item)

MarkAnswered(s, ok) ==
  LET c == [s EXCEPT !.busy = FALSE] IN IF ok THEN Load(c) ELSE c

(* The client takes the token before the browser looks at its number. *)
LoginAnswered(s, r, ok) ==
  LET c == IF ok THEN [s EXCEPT !.token = s.server] ELSE s
      d == [c EXCEPT !.busy = FALSE]
  IN IF ~r.latest THEN c ELSE IF ok THEN Load(d) ELSE d

(* clearSession aborts what is under way, forgets the session and asks the    *)
(* token store to forget it too.                                              *)
LogoutAnswered(s) ==
  [s EXCEPT !.aborts = Len(s.requests), !.removing = TRUE,
            !.afterAbort = IF @ = "login" THEN "login" ELSE "clear"]

Completed(s, r, ok) ==
  CASE r.kind = "resolve" -> Resolved(s, r, ok)
    [] r.kind = "start"   -> StartReported(s)
    [] r.kind = "stop"    -> StopReported(s, ok)
    [] r.kind = "load"    -> LoadAnswered(s, r)
    [] r.kind = "home"    -> HomeAnswered(s, r, ok)
    [] r.kind = "mark"    -> MarkAnswered(s, ok)
    [] r.kind = "login"   -> LoginAnswered(s, r, ok)
    [] r.kind = "logout"  -> LogoutAnswered(s)

(* The browser's handler of authenticationLost, then the adapter's. *)
AuthenticationLost(s) ==
  Close(NextRequest([s EXCEPT !.token = 0, !.busy = FALSE, !.openingHome = FALSE]))

-------------------------------------------------------------------------------
(* Actions.  Ghost: `superseded` marks the home selections and resolutions    *)
(* under way when the user turned to other media or the session ended.        *)

Supersede(s) ==
  [s EXCEPT !.requests = [i \in DOMAIN @ |->
     IF @[i].kind \in Openings THEN [@[i] EXCEPT !.superseded = TRUE] ELSE @[i]]]

Running == app.leaving \in {"no", "waiting"}
Idle == Running /\ app.aborts = 0 /\ app.afterAbort = "nothing"

Without(s, i) == [s EXCEPT !.requests = RemoveAt(@, i)]

Answered(s, i, ok) == Completed(Without(s, i), s.requests[i], ok)

(* The answer is taken, fails, or is refused: the last ends the session that  *)
(* is current by then, before the completion runs.                            *)
AnswerTo(i) ==
  /\ Idle
  /\ i \in DOMAIN app.requests
  /\ \/ app' = Answered(app, i, FALSE)
     \/ /\ app.requests[i].token # 0 \/ app.requests[i].kind = "login"
        /\ app' = Answered(app, i, TRUE)
     \/ /\ app.token # 0
        /\ app' = Answered(AuthenticationLost(Supersede(app)), i, FALSE)

Answer == \E i \in DOMAIN app.requests : AnswerTo(i)

(* abortRequests: what is under way fails, oldest first, before its caller    *)
(* goes on; what those failures send is left alone.                           *)
Abort ==
  /\ Running
  /\ app.aborts > 0
  /\ app' = Answered([app EXCEPT !.aborts = @ - 1], 1, FALSE)

Aborted ==
  /\ Running
  /\ app.aborts = 0
  /\ \/ /\ app.afterAbort = "login"
        /\ app' = Send([app EXCEPT !.afterAbort = "nothing", !.server = @ + 1, !.token = 0],
                       "login", None, None)
     \/ /\ app.afterAbort = "clear"
        /\ app' = [app EXCEPT !.afterAbort = "nothing", !.token = 0]

Removed ==
  /\ Idle
  /\ app.removing
  /\ app' = [app EXCEPT !.removing = FALSE, !.busy = FALSE, !.openingHome = FALSE]

(* What the user does in the browser. *)
Login ==
  /\ Idle
  /\ ~Busy(app) /\ app.token = 0
  /\ app.server < MaxLogins
  /\ app' = [NextRequest([app EXCEPT !.busy = TRUE])
               EXCEPT !.aborts = Len(app.requests), !.afterAbort = "login"]

Browsing ==
  /\ Idle
  /\ ~Busy(app) /\ app.token # 0
  /\ Len(app.requests) < MaxRequests

Navigate == Browsing /\ app' = Load(app)

MayOpen == app.opened + Cardinality({i \in DOMAIN app.requests :
             app.requests[i].kind \in Openings /\ app.requests[i].latest}) < MaxMedia

RequestPlay ==
  /\ Browsing /\ MayOpen
  /\ \E item \in Items : app' = Play(app, item)

OpenHomeItem ==
  /\ Browsing /\ MayOpen
  /\ \E item \in Items :
       app' = Send(NextRequest([app EXCEPT !.openingHome = TRUE, !.busy = TRUE]),
                   "home", item, None)

SetWatched ==
  /\ Browsing
  /\ Len(app.deferred) < MaxRequests
  /\ \E item \in Items : app' = WatchedRequested(app, item)

Logout ==
  /\ Browsing
  /\ app' = LogoutRequested(Supersede(NextRequest([app EXCEPT !.busy = TRUE])))

(* What the user does with the player, and what the player does. *)
OpenLocal ==
  /\ Idle
  /\ MayOpen
  /\ app' = OpenPlayer(Supersede(app))

(* failWithoutWorker keeps the identity of the medium it closes. *)
OpenFails ==
  /\ Idle
  /\ app.phase # "empty"
  /\ app' = [MediaClosing(Supersede(app)) EXCEPT !.phase = "empty"]

CloseMedia ==
  /\ Idle
  /\ app.current # 0
  /\ app' = ClosePlayer(Supersede(app))

(* The program ends, at once or when the reports have settled, or three seconds  *)
(* later without them.                                                            *)
Quit == Idle /\ app.leaving = "no" /\ app' = QuitApplication(Supersede(app))
GiveUp == Idle /\ app.leaving = "waiting" /\ app' = Ended(app, "late")

Becomes(phase) == app' = Observe([app EXCEPT !.phase = phase])

Starts == Idle /\ app.phase = "quiet" /\ Becomes("playing")
Pauses == Idle /\ app.phase = "playing" /\ Becomes("quiet")
Ends == Idle /\ app.phase \in {"quiet", "playing"} /\ Becomes("over")
Replay ==
  /\ Idle
  /\ app.phase = "over"
  /\ app.replays < MaxReplays
  /\ app' = Observe([app EXCEPT !.phase = "quiet", !.replays = @ + 1])

Next ==
  \/ Answer \/ Abort \/ Aborted \/ Removed
  \/ Login \/ Navigate \/ RequestPlay \/ OpenHomeItem \/ SetWatched \/ Logout
  \/ OpenLocal \/ OpenFails \/ CloseMedia \/ Starts \/ Pauses \/ Ends \/ Replay
  \/ Quit \/ GiveUp

(* A request is answered within ten seconds or aborted, so the oldest one is   *)
(* always answered; the token store answers.  The user and the player need    *)
(* not do anything.                                                           *)
Fairness == WF_app(AnswerTo(1)) /\ WF_app(Abort) /\ WF_app(Aborted) /\ WF_app(Removed)

Spec == Init /\ [][Next]_app /\ Fairness

-------------------------------------------------------------------------------
UnderWay(kinds) == {i \in DOMAIN app.requests : app.requests[i].kind \in kinds}

(* The state has its type; what waits for a start report or an abort is there *)
(* to be answered; a token is one the last login gave; the playback is of the *)
(* medium the player has.                                                     *)
TypeOK ==
  /\ app \in App
  /\ app.aborts <= Len(app.requests)
  /\ app.token <= app.server
  /\ app.playback # None => app.playback.id = app.current
  /\ app.startPending = (UnderWay({"start"}) # {})

(* Reports are serial: one is under way at a time, and what was sent is one   *)
(* start and then one stop for each time a medium was played.  (The           *)
(* assertions of finish and sendStop follow: a stop never waits while its     *)
(* occurrence still runs.)                                                    *)
ReportsAreSerial ==
  /\ TypeOK
  /\ Cardinality(UnderWay(Reports)) <= 1
  /\ \A n \in DOMAIN app.reported : LET report == app.reported[n] IN
       /\ report[1] = IF n % 2 = 1 THEN "start" ELSE "stop"
       /\ n % 2 = 0 => report[2] = app.reported[n - 1][2]

(* A started medium that is closed, replaced, finished, stopped or failed     *)
(* always has its final report sent or waiting; the program does not end with *)
(* it unsent or unanswered, unless three seconds have passed.                  *)
FinalReportIsKept ==
  LET n == Len(app.reported)
  IN /\ n % 2 = 1 /\ (app.current # app.reported[n][2] \/ app.phase = "over")
          => app.stop # None /\ app.stop.id = app.reported[n][2]
     /\ app.leaving = "gone" => app.stop = None /\ n % 2 = 0

(* A resolution that was under way when the user opened or closed other       *)
(* media, logged out or lost the login never opens its item.                  *)
SupersededNeverOpens ==
  \A i \in UnderWay({"resolve"}) :
    app.requests[i].superseded => ~app.requests[i].latest

(* A report goes to the server its medium came from, with that login's token  *)
(* or none.                                                                   *)
ReportsStayWithTheirAccount ==
  \A i \in UnderWay(Reports) : LET r == app.requests[i] IN
    r.server = r.media.server /\ r.token \in {0, r.media.server}

(* Logging out is sent after every older report is answered, and a watched   *)
(* mark after the older final reports of its item.                            *)
MutationsWaitForReports ==
  \A i \in UnderWay({"mark", "logout"}), j \in UnderWay(Reports) :
    LET mutation == app.requests[i]  report == app.requests[j] IN
    \/ mutation.kind = "logout"
    \/ report.kind = "stop" /\ report.media.item = mutation.item
    => i < j

(* The browser is not locked for ever: whatever the network answers and in    *)
(* whatever order, it takes commands again, while the program runs.           *)
BrowserIsFreed == Busy(app) ~> ~Busy(app) \/ ~Running

(* What waits for the reports, the end of the program included, is done once   *)
(* they settle.                                                               *)
DeferredIsDone ==
  app.deferred # <<>> \/ app.leaving = "waiting"
    ~> (app.deferred = <<>> /\ app.leaving # "waiting") \/ ~Running

(* "Authentication loss closes old playback and keeps login unavailable until *)
(* old reports settle."                                                       *)
LoginWaitsForReports == app.token = 0 /\ Pending(app) => Busy(app)

(* "Cancelling/replacing media invalidates a pending Home selection as well as *)
(* playback resolution."                                                      *)
ReplacingInvalidatesHome ==
  \A i \in UnderWay({"home"}) : app.requests[i].superseded => ~app.requests[i].latest
================================================================================
