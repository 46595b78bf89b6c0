------------------------------ MODULE AppImageUpdater ------------------------------
(* Updating the installed AppImage in place, on Linux: a helper process works on a   *)
(* copy staged beside the image, under a lock that every running player shares, and  *)
(* the copy replaces the image with one rename.  The user may open media, quit or    *)
(* lose the player at any point.  Helper, file system and release server are         *)
(* external.                                                                         *)
EXTENDS Naturals, FiniteSets

CONSTANTS
    Players,   \* players that run from the one installed image
    Releases,  \* bound: the newest release
    MaxLaunches \* bound: how often a player is started

UpdaterAssumption ==
    /\ IsFiniteSet(Players) /\ Releases \in Nat \ {0} /\ MaxLaunches \in Nat

VARIABLES
    image,     \* the installed file: [release, whole]
    lockedBy,  \* who holds <image>.update.lock
    latest,    \* the release the server offers
    consent,   \* the stored preference linux/appimage/checkOnStartup
    player,    \* [player |-> AppImageUpdater and AppImageUpdateUi of that process]
    launches   \* bound

vars == <<image, lockedBy, latest, consent, player, launches>>

None == "none"
NoImage == [release |-> 0, whole |-> FALSE]
Gone == [up |-> FALSE, started |-> FALSE, promptShown |-> FALSE, prompt |-> FALSE,
         wanted |-> "unset", media |-> FALSE, operation |-> "Idle", available |-> FALSE,
         error |-> FALSE, helper |-> None, exit |-> None, candidate |-> NoImage, original |-> NoImage]

Init ==
    /\ image = [release |-> 1, whole |-> TRUE] /\ latest \in 1..Releases
    /\ lockedBy = None /\ consent = "unset" /\ launches = 0
    /\ player = [p \in Players |-> Gone]

Up(p) == player[p].up
Becomes(p, new) == player' = [player EXCEPT ![p] = new]
Unlock(p) == lockedBy' = IF lockedBy = p THEN None ELSE lockedBy

-------------------------------------------------------------------------------
(* What the handlers are made of: the new state of one player. *)

(* run: the helper, to check or to overwrite the candidate. *)
Run(s, operation) == [s EXCEPT !.operation = operation, !.helper = operation, !.exit = None]

Check(s) == IF s.operation = "Idle" THEN Run(s, "Checking") ELSE s

ClearStaging(s) == [s EXCEPT !.candidate = NoImage, !.original = NoImage]
Fail(s) == [ClearStaging(s) EXCEPT !.operation = "Idle", !.error = TRUE]

(* stop: the helper is killed and waited for before its files go. *)
Stop(s) == [ClearStaging(s) EXCEPT !.operation = "Idle", !.helper = None, !.exit = None]

-------------------------------------------------------------------------------
(* The player starts: the image it runs from stays mounted. *)
Launch(p) ==
    /\ ~Up(p) /\ launches < MaxLaunches
    /\ launches' = launches + 1
    /\ Becomes(p, [Gone EXCEPT !.up = TRUE, !.wanted = consent])
    /\ UNCHANGED <<image, lockedBy, latest, consent>>

(* AppImageUpdateUi::reconcile, after a session change or at the start. *)
Reconciled(s) ==
    LET begun == IF ~s.started /\ s.wanted = "yes" THEN Check([s EXCEPT !.started = TRUE])
                 ELSE [s EXCEPT !.started = TRUE]
    IN IF s.media THEN [begun EXCEPT !.prompt = FALSE]
       ELSE IF s.wanted # "unset" \/ s.promptShown THEN begun
       ELSE [begun EXCEPT !.prompt = TRUE, !.promptShown = TRUE]

Reconcile(p) ==
    /\ Up(p) /\ ~player[p].started
    /\ Becomes(p, Reconciled(player[p]))
    /\ UNCHANGED <<image, lockedBy, latest, consent, launches>>

(* The prompt or the settings page: setCheckOnStartup. *)
SetCheckOnStartup(p, answer) ==
    /\ Up(p) /\ player[p].started /\ player[p].wanted # answer
    /\ LET s == [player[p] EXCEPT !.wanted = answer, !.prompt = FALSE]
       IN Becomes(p, IF answer = "yes" THEN Check(s) ELSE s)
    /\ consent' = answer
    /\ UNCHANGED <<image, lockedBy, latest, launches>>

(* Media opens: cancelForMedia, then reconcile. *)
OpenMedia(p) ==
    /\ Up(p) /\ ~player[p].media
    /\ LET s == [player[p] EXCEPT !.media = TRUE] IN
       IF s.operation = "Updating"
       THEN Becomes(p, Reconciled([Stop(s) EXCEPT !.error = FALSE])) /\ Unlock(p)
       ELSE Becomes(p, Reconciled(s)) /\ UNCHANGED lockedBy
    /\ UNCHANGED <<image, latest, consent, launches>>

CloseMedia(p) ==
    /\ Up(p) /\ player[p].media
    /\ Becomes(p, Reconciled([player[p] EXCEPT !.media = FALSE]))
    /\ UNCHANGED <<image, lockedBy, latest, consent, launches>>

Dismiss(p) ==
    /\ Up(p) /\ player[p].operation = "Idle" /\ (player[p].available \/ player[p].error)
    /\ Becomes(p, [player[p] EXCEPT !.available = FALSE, !.error = FALSE])
    /\ UNCHANGED <<image, lockedBy, latest, consent, launches>>

(* Every early return; then the lock, the staged copy and the helper. *)
UpdateAndRestart(p) ==
    /\ Up(p) /\ player[p].available /\ player[p].operation = "Idle" /\ ~player[p].media
    /\ LET s == [player[p] EXCEPT !.error = FALSE] IN
       \/ /\ lockedBy # None /\ Becomes(p, Fail(s)) /\ UNCHANGED lockedBy
       \/ /\ lockedBy = None
          /\ \/ Becomes(p, Fail(s)) /\ UNCHANGED lockedBy            \* it could not be staged
             \/ /\ Becomes(p, Run([s EXCEPT !.candidate = image, !.original = image], "Updating"))
                /\ lockedBy' = p
    /\ UNCHANGED <<image, latest, consent, launches>>

BugAccept(s) == s.candidate # s.original

(* The candidate is a complete and different image. *)
Accept(s) == s.exit = "ok" /\ s.candidate # s.original

(* finished: of a check, or of an update that replaces the image and restarts. *)
Finished(p) ==
    /\ Up(p) /\ player[p].exit # None
    /\ LET s == [player[p] EXCEPT !.exit = None] IN
       CASE s.operation = "Checking" ->
              /\ Becomes(p, [s EXCEPT !.operation = "Idle", !.available = player[p].exit = "newer"])
              /\ UNCHANGED <<image, lockedBy>>
         [] s.operation = "Idle" -> Becomes(p, s) /\ UNCHANGED <<image, lockedBy>>
         [] s.operation = "Updating" /\ s.media ->
              Becomes(p, [Stop(s) EXCEPT !.error = FALSE]) /\ Unlock(p) /\ UNCHANGED image
         [] OTHER ->
              /\ Unlock(p)
              /\ \/ Becomes(p, Fail(s)) /\ UNCHANGED image          \* the exit, the hash or the rename
                 \/ /\ Accept(player[p])
                    /\ image' = s.candidate
                    /\ \/ Becomes(p, Gone)                           \* the new player is launched
                       \/ Becomes(p, Fail([s EXCEPT !.available = FALSE]))
    /\ UNCHANGED <<latest, consent, launches>>

(* The helper could not be started. *)
FailedToStart(p) ==
    /\ Up(p) /\ player[p].helper # None /\ player[p].candidate = player[p].original
    /\ LET s == [player[p] EXCEPT !.helper = None] IN
       IF s.operation = "Updating" THEN Becomes(p, Fail(s)) /\ Unlock(p)
       ELSE Becomes(p, [s EXCEPT !.operation = "Idle"]) /\ UNCHANGED lockedBy
    /\ UNCHANGED <<image, latest, consent, launches>>

(* The player ends, orderly or not: its lock falls with its process, its staged copy  *)
(* is nobody's any more.                                                              *)
Leave(p) ==
    /\ Up(p)
    /\ Becomes(p, Gone) /\ Unlock(p)
    /\ UNCHANGED <<image, latest, consent, launches>>

-------------------------------------------------------------------------------
(* The helper: it writes the candidate in place, and may fail or crash half-way. *)

HelperWrites(p) ==
    /\ player[p].helper = "Updating" /\ player[p].candidate # NoImage /\ player[p].candidate.whole
    /\ player[p].candidate.release < latest
    /\ Becomes(p, [player[p] EXCEPT !.candidate = [release |-> latest, whole |-> FALSE]])
    /\ UNCHANGED <<image, lockedBy, latest, consent, launches>>

HelperExits(p) ==
    /\ player[p].helper # None
    /\ LET s == [player[p] EXCEPT !.helper = None] IN
       \/ Becomes(p, [s EXCEPT !.exit = "failed"])
       \/ /\ player[p].helper = "Checking"
          /\ Becomes(p, [s EXCEPT !.exit = IF image.release < latest THEN "newer" ELSE "ok"])
       \/ /\ player[p].helper = "Updating"
          /\ Becomes(p, IF s.candidate = NoImage THEN [s EXCEPT !.exit = "ok"]
                        ELSE [s EXCEPT !.exit = "ok", !.candidate.whole = TRUE])
    /\ UNCHANGED <<image, lockedBy, latest, consent, launches>>

Release ==
    /\ latest < Releases /\ latest' = latest + 1
    /\ UNCHANGED <<image, lockedBy, consent, player, launches>>

Step(p) ==
    \/ Launch(p) \/ Reconcile(p) \/ OpenMedia(p) \/ CloseMedia(p) \/ Dismiss(p)
    \/ \E answer \in {"yes", "no"} : SetCheckOnStartup(p, answer)
    \/ UpdateAndRestart(p) \/ Finished(p) \/ FailedToStart(p) \/ Leave(p)
    \/ HelperWrites(p) \/ HelperExits(p)

Next == Release \/ \E p \in Players : Step(p)

-------------------------------------------------------------------------------
(* The installed image is a whole one at every moment, whatever is interrupted.      *)
ImageIsWhole == image.whole

(* One player works beside it at a time, with a helper only while it says so, and     *)
(* nothing works on its update once media is open.                                    *)
OneUpdater ==
    /\ \A p \in Players :
          /\ player[p].operation = "Updating" <=> lockedBy = p
          /\ player[p].candidate # NoImage <=> lockedBy = p
          /\ player[p].helper # None => player[p].helper = player[p].operation
          /\ player[p].media => player[p].operation # "Updating" /\ player[p].helper # "Updating"
    /\ Cardinality({p \in Players : player[p].operation = "Updating"}) <= 1

(* Without consent no player asks the server.                                         *)
AskedFirst == \A p \in Players : player[p].wanted = "unset" => player[p].operation = "Idle"

(* An update is all or nothing, and its files are never those of two players or of a  *)
(* helper that nobody waits for.                                                      *)
UpdateIsAtomic == ImageIsWhole /\ OneUpdater /\ AskedFirst
===============================================================================
