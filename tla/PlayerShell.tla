------------------------------- MODULE PlayerShell -------------------------------
(* The shell over the session: which page is shown and where Back leads (AppShell),  *)
(* the relative seeks that are gathered before one is asked for, the slider, and the *)
(* bar of controls that hides itself (PlayerPage).                                   *)
(*                                                                                  *)
(* Everything runs on the GUI thread.  An operator on the state s stands for a         *)
(* function; Settle applies the handlers of the properties that changed.  The         *)
(* session is what the shell sees of it: `film`.                                      *)
EXTENDS Integers

CONSTANTS
    Duration,  \* of a medium
    Steps,     \* relative seeks, forward and back
    MaxFilms,  \* bound: media opened
    MaxTaps    \* bound: the sum of the seeks gathered, either way

ShellAssumption ==
    Duration \in Nat \ {0} /\ Steps \subseteq Int \ {0} /\ MaxFilms \in Nat /\ MaxTaps \in Nat

VARIABLE shell

(* AppShell's currentPage. *)
Player == 0
Lab == 1
Catalogue == 2

NoTap == [id |-> 0, sum |-> 0, jumped |-> FALSE]

Init ==
    shell = [film |-> [id |-> 0, state |-> "empty", seeking |-> FALSE, intent |-> "paused",
                       ended |-> FALSE, at |-> 0, seekable |-> FALSE],
             page |-> Player, back |-> Player, visited |-> FALSE, hidden |-> FALSE,
             pending |-> FALSE, origin |-> 0, delta |-> 0, dragged |-> FALSE,
             lit |-> TRUE, timer |-> FALSE, menu |-> FALSE, tap |-> NoTap]

-------------------------------------------------------------------------------
(* What the session says of itself. *)
Seekable(f) == (f.seekable \/ f.seeking) /\ (f.state = "ready" \/ f.seeking)
PlayRequested(f) == f.intent = "playing" /\ ~f.ended

(* sessionActive, controlsPinned. *)
Active(f) == f.state = "ready" \/ f.seeking

Pinned(s) ==
    ~PlayRequested(s.film) \/ s.film.ended \/ s.film.seeking \/ s.pending \/ s.menu \/ s.dragged

ClearPendingRelativeSeek(s) == [s EXCEPT !.pending = FALSE, !.delta = 0]

(* controlsPinned as it was: where it changes meanwhile, PinChanged has the last word. *)
RevealControls(s) ==
    IF ~Active(s.film) THEN s
    ELSE [s EXCEPT !.lit = TRUE, !.timer = @ \/ ~Pinned(shell)]

BugMustClear(f) == f.intent = "stopped" \/ f.ended \/ ~Seekable(f)
(* onSessionChanged, onTimelineChanged.                                             *)
MustClear(f) == f.intent = "stopped" \/ f.ended \/ f.state # "ready" \/ ~Seekable(f)
Told(s, f) ==
    LET c == [s EXCEPT !.film = f]
    IN IF MustClear(f) THEN ClearPendingRelativeSeek(c) ELSE c

(* MediaSession at another position, in the same medium or not; positionJumped.       *)
Restarted(s, f) ==
    LET c == Told([s EXCEPT !.tap.jumped = TRUE], f)
    IN IF f.at # s.film.at THEN ClearPendingRelativeSeek(c) ELSE c

SeekToMilliseconds(s, to) ==
    IF ~Seekable(s.film) THEN s
    ELSE Restarted(s, [s.film EXCEPT !.state = "opening", !.seeking = TRUE, !.at = to, !.ended = FALSE])

Cancel(s) ==
    IF s.film.state = "empty" THEN s
    ELSE Restarted(s, [s.film EXCEPT !.state = "empty", !.seeking = FALSE, !.at = 0, !.ended = FALSE,
                                     !.seekable = FALSE])

SeekTo(s, to) ==
    LET c == ClearPendingRelativeSeek(s)
    IN IF Seekable(s.film) THEN RevealControls(SeekToMilliseconds(c, to)) ELSE c

(* onVisibleChanged, and the slider, which lets go when it is hidden or disabled.     *)
LetGo(s, to) ==
    LET c == IF s.page # Player THEN ClearPendingRelativeSeek(s) ELSE s
        released == [c EXCEPT !.dragged = FALSE]
    IN IF ~s.dragged \/ (s.page = Player /\ Seekable(s.film)) THEN c
       ELSE IF Seekable(s.film) THEN SeekTo(released, to) ELSE released

(* onSessionActiveChanged, then onControlsPinnedChanged.                              *)
Activated(old, s) ==
    IF Active(s.film) = Active(old.film) THEN s
    ELSE IF Active(s.film) THEN RevealControls(s)
    ELSE [ClearPendingRelativeSeek(s) EXCEPT !.timer = FALSE]

BugPinChanged(old, s) == IF Pinned(s) THEN [s EXCEPT !.lit = TRUE, !.timer = FALSE] ELSE s

PinChanged(old, s) ==
    IF Pinned(s) = Pinned(old) THEN s
    ELSE IF Pinned(s) THEN [s EXCEPT !.lit = TRUE, !.timer = FALSE]
    ELSE [s EXCEPT !.timer = @ \/ Active(s.film)]

Settle(s) ==
    \E changed \in {s}, to \in IF shell.dragged THEN {0, Duration} ELSE {0} :
        \E free \in {LetGo(changed, to)} : \E c \in {PinChanged(shell, Activated(shell, free))} :
            shell' = [c EXCEPT !.tap = IF c.pending THEN @ ELSE NoTap, !.origin = IF c.pending THEN @ ELSE 0]

-------------------------------------------------------------------------------
(* The pages. *)

BugAvailableChanged(s) == IF s.hidden /\ s.page = Catalogue THEN [s EXCEPT !.page = Player] ELSE s
(* onJellyfinAvailableChanged *)
AvailableChanged(s) ==
    IF ~s.hidden THEN s
    ELSE [s EXCEPT !.page = IF @ = Catalogue THEN Player ELSE @,
                   !.back = IF @ = Catalogue THEN Player ELSE @]

Hide == Settle(AvailableChanged([shell EXCEPT !.hidden = ~@]))

(* The button is on the empty player.                                               *)
OpenJellyfin ==
    /\ shell.page = Player /\ shell.film.state = "empty" /\ ~shell.hidden
    /\ Settle([shell EXCEPT !.visited = TRUE, !.page = Catalogue])

(* goBack and goUp: the catalogue's own history comes first.                         *)
GoBack ==
    LET closed == Cancel(shell) IN
    \/ shell.page = Catalogue /\ Settle([closed EXCEPT !.page = Player])
    \/ shell.page = Lab /\ Settle([shell EXCEPT !.page = Player])
    \/ shell.page = Player /\ shell.film.state # "empty" /\ Settle([closed EXCEPT !.page = shell.back])

GoForward ==
    /\ shell.page = Player /\ shell.film.state = "empty" /\ shell.visited /\ ~shell.hidden
    /\ Settle([shell EXCEPT !.page = Catalogue])

OpenLab == Settle([shell EXCEPT !.page = Lab])

(* openMedia, and onMediaOpenRequested after it: from a file, or an item resolved.    *)
OpenMedia ==
    /\ shell.film.id < MaxFilms
    /\ LET opened == Restarted(shell, [id |-> shell.film.id + 1, state |-> "opening", seeking |-> FALSE,
                                       intent |-> "playing", ended |-> FALSE, at |-> 0, seekable |-> FALSE])
       IN Settle([opened EXCEPT !.back = shell.page, !.page = Player])

-------------------------------------------------------------------------------
(* What the user does on the player's page. *)

OnPlayer == shell.page = Player /\ ~shell.menu

SeekBy(s, step) ==
    LET p == IF s.pending THEN s
             ELSE [s EXCEPT !.pending = TRUE, !.origin = s.film.at, !.delta = 0,
                            !.tap = [id |-> s.film.id, sum |-> 0, jumped |-> FALSE]]
        c == [p EXCEPT !.delta = @ + step, !.tap.sum = @ + step]
    IN RevealControls(IF c.delta = 0 THEN ClearPendingRelativeSeek(c) ELSE c)

Tap ==
    /\ OnPlayer /\ Seekable(shell.film)
    /\ \E step \in Steps :
          /\ shell.delta + step \in (-MaxTaps)..MaxTaps
          /\ Settle(SeekBy(shell, step))

(* dispatchPendingRelativeSeek, when the timer ends.                                 *)
Clamped(position) == IF position < 0 THEN 0 ELSE IF position > Duration THEN Duration ELSE position

Dispatch ==
    /\ shell.pending
    /\ LET target == Clamped(shell.origin + shell.delta)
           c == ClearPendingRelativeSeek(shell)
       IN Settle(IF ~shell.dragged /\ target # shell.origin THEN SeekToMilliseconds(c, target) ELSE c)

Press ==
    /\ OnPlayer /\ ~shell.dragged /\ Seekable(shell.film)
    /\ Settle(ClearPendingRelativeSeek(RevealControls([shell EXCEPT !.dragged = TRUE])))

Release ==
    /\ shell.dragged
    /\ \E to \in 0..Duration : Settle(SeekTo(RevealControls([shell EXCEPT !.dragged = FALSE]), to))

MovePointer == shell.page = Player /\ Settle(RevealControls(shell))
Menu == shell.page = Player /\ Settle([shell EXCEPT !.menu = ~@])

(* togglePlayback: what was stopped or has ended starts again.                        *)
Toggle ==
    LET f == shell.film
        c == IF PlayRequested(f) THEN Told(shell, [f EXCEPT !.intent = "paused"])
             ELSE IF f.ended \/ f.intent = "stopped" THEN
                 Restarted(shell, [f EXCEPT !.state = "opening", !.seeking = FALSE, !.at = 0, !.ended = FALSE,
                                            !.intent = "playing"])
             ELSE Told(shell, [f EXCEPT !.intent = "playing"])
    IN Active(f) /\ (Settle(RevealControls(c)) \/ Settle(c))

HideControls ==
    /\ shell.timer
    /\ shell' = [shell EXCEPT !.timer = FALSE, !.lit = @ /\ Pinned(shell)]

-------------------------------------------------------------------------------
(* What the session does, or the desktop with it. *)

FilmBecomes(f) == Settle(Told(shell, f))

Opened ==
    /\ shell.film.state = "opening"
    /\ IF shell.film.seeking THEN FilmBecomes([shell.film EXCEPT !.state = "ready"])
       ELSE \E seekable \in BOOLEAN : FilmBecomes([shell.film EXCEPT !.state = "ready", !.seekable = seekable])

Sought == shell.film.state = "ready" /\ shell.film.seeking /\ FilmBecomes([shell.film EXCEPT !.seeking = FALSE])

Plays ==
    /\ shell.film.state = "ready" /\ ~shell.film.seeking /\ PlayRequested(shell.film)
    /\ IF shell.film.at < Duration THEN Settle([shell EXCEPT !.film.at = @ + 1])
       ELSE FilmBecomes([shell.film EXCEPT !.ended = TRUE])

Fails ==
    /\ shell.film.state \in {"opening", "ready"}
    /\ FilmBecomes([shell.film EXCEPT !.state = "failed", !.seeking = FALSE, !.seekable = FALSE])

Retry ==
    /\ shell.film.state = "failed"
    /\ Settle(Restarted(shell, [shell.film EXCEPT !.state = "opening", !.at = 0, !.intent = "playing",
                                                  !.ended = FALSE]))

(* Another track: the medium is opened again where it is.                             *)
SelectTrack ==
    /\ shell.film.state = "ready"
    /\ Settle(Restarted(shell, [shell.film EXCEPT !.state = "opening", !.seeking = FALSE, !.ended = FALSE]))

DesktopSeeks == \E to \in 0..Duration : Seekable(shell.film) /\ Settle(SeekToMilliseconds(shell, to))
DesktopStops ==
    /\ shell.film.state \in {"opening", "ready"} /\ shell.film.intent # "stopped"
    /\ FilmBecomes([shell.film EXCEPT !.intent = "stopped"])
Close == shell.film.state # "empty" /\ Settle(Cancel(shell))

Next ==
    \/ Hide \/ OpenJellyfin \/ GoBack \/ GoForward \/ OpenLab \/ OpenMedia
    \/ Tap \/ Dispatch \/ Press \/ Release \/ MovePointer \/ Menu \/ Toggle \/ HideControls
    \/ Opened \/ Sought \/ Plays \/ Fails \/ Retry \/ SelectTrack
    \/ DesktopSeeks \/ DesktopStops \/ Close

-------------------------------------------------------------------------------
(* The relative seeks gathered are all those of one medium since its position was last  *)
(* set, so what is asked for at the end is where the user wanted to go.                *)
GatheredSeekIsTheUsers ==
    shell.pending =>
        /\ shell.tap.id = shell.film.id /\ ~shell.tap.jumped
        /\ shell.delta = shell.tap.sum /\ shell.delta # 0
        /\ Seekable(shell.film) /\ shell.page = Player

(* Controls in use stay, and others go when their time is over: the bar is never left   *)
(* on with nothing to take it away, nor taken away under the user's hand.              *)
BarFollowsUse ==
    /\ shell.timer => Active(shell.film) /\ ~Pinned(shell)
    /\ Active(shell.film) => IF Pinned(shell) THEN shell.lit ELSE shell.lit = shell.timer

(* Nothing plays behind the catalogue, and no way leads to a hidden one.                *)
PagesAreReachable ==
    /\ shell.page = Catalogue => shell.film.state = "empty"
    /\ shell.hidden => Catalogue \notin {shell.page, shell.back}

ShellFollowsTheUser == GatheredSeekIsTheUsers /\ BarFollowsUse /\ PagesAreReachable
===============================================================================
