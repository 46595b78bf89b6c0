---------------------------- MODULE JellyfinBrowser ----------------------------
(* The catalogue of a Jellyfin server as the user browses it (JellyfinBrowser): *)
(* a history of visited paths with a cursor, the pages of the folder at the     *)
(* cursor, the shelves of the home page, and the number that tells the current  *)
(* request from those the user has left behind.  Everything runs on the GUI     *)
(* thread; the server answers requests in any order.  Sessions and their        *)
(* persistence are in JellyfinSession, reports in JellyfinPlaybackAdapter.      *)
EXTENDS Integers, Sequences, FiniteSets, SequencesExt

CONSTANTS
    Children,    \* the server's tree: the items of each folder, in order
    Movies,      \* items with a page of their own; other leaves are episodes
    Libraries,   \* the folders the server lists as the user's views
    Ancestry,    \* where the server keeps an item: its folders from the root down
    Media,       \* folders of type CollectionFolder, Series or Season
    PageSize,    \* Limit of JellyfinClient::items
    MaxHistory,  \* bound: visited locations
    MaxMarks,    \* bound: watched marks that wait or are under way
    SlowVault    \* whether the next login may begin before the vault removed a token

Folders == DOMAIN Children
Shelved == UNION {Range(Children[f]) : f \in Folders}   \* what the shelves may hold

CatalogueAssumption ==
    /\ Libraries \subseteq Folders
    /\ \A f \in Folders : IsInjective(Children[f])
    /\ DOMAIN Ancestry = Shelved /\ Media \subseteq Folders
    /\ \A item \in Shelved : Ancestry[item] # <<>> /\ item \in Range(Children[Last(Ancestry[item])])
    /\ PageSize \in Nat \ {0}

VARIABLE browser

Feeds == {"libraries", "resume", "movies", "shows"}
NoItem == "none"

Init ==
    browser = [auth |-> FALSE, busy |-> FALSE, sync |-> FALSE, opening |-> FALSE,
               history |-> << <<>> >>, index |-> 1, items |-> <<>>, total |-> 0,
               pending |-> 0, known |-> {}, requests |-> {}, stale |-> FALSE, marks |-> 0, deferred |-> 0,
               leaving |-> "no"]

(* JellyfinBrowser's accessors. *)
Busy(s) == s.busy \/ s.sync
Path(s) == s.history[s.index]
AtHome(s) == Path(s) = <<>>
Here(s) == IF AtHome(s) THEN NoItem ELSE Last(Path(s))
InFolder(s) == Here(s) \in Folders
CanGoBack(s) == s.index > 1
CanGoForward(s) == s.index < Len(s.history)
HasMore(s) == InFolder(s) /\ Len(s.items) < s.total

-------------------------------------------------------------------------------
(* The operations, on a state s. *)

(* ++m_request: a completion of an earlier number returns at once.  requests    *)
(* holds those under the current number; of the others only the refusal of      *)
(* their session matters.                                                       *)
Renumbered(s) == [s EXCEPT !.requests = {}, !.stale = @ \/ s.requests # {}]

Ask(s, kind, item, start) ==
    [s EXCEPT !.requests = @ \cup {[kind |-> kind, item |-> item, start |-> start]}]

(* clearLibrary. *)
Cleared(s) ==
    [s EXCEPT !.opening = FALSE, !.history = << <<>> >>, !.index = 1, !.items = <<>>, !.known = {}]

(* loadHome. *)
LoadHome(s) ==
    [Renumbered([s EXCEPT !.busy = TRUE, !.pending = Cardinality(Feeds)])
       EXCEPT !.requests = @ \cup
          {[kind |-> f, item |-> NoItem, start |-> 0] : f \in Feeds}]

(* load(append): start is 0 or where the listed items end. *)
Load(s, start) ==
    IF ~s.auth THEN [s EXCEPT !.busy = FALSE]
    ELSE IF AtHome(s) THEN LoadHome(s)
    ELSE Ask(Renumbered([s EXCEPT !.busy = TRUE]),
             IF InFolder(s) THEN "items" ELSE "detail", Here(s), start)

(* loadLocation. *)
LoadLocation(s) == Load([s EXCEPT !.items = <<>>, !.total = 0], 0)

BugKeepTail(s, path) ==
    LoadLocation([s EXCEPT !.history = Append(@, path), !.index = @ + 1])

(* visit: nowhere new, or a new place after the cursor. *)
Visit(s, path) ==
    IF (path = <<>> /\ AtHome(s)) \/ (path # <<>> /\ Last(path) = Here(s)) THEN s
    ELSE LoadLocation([s EXCEPT !.history = Append(SubSeq(@, 1, s.index), path), !.index = @ + 1])

(* playRequested: the adapter resolves the item and keeps the browser busy. *)
PlayRequested(s) == [s EXCEPT !.sync = TRUE]

(* openItem. *)
OpenItem(s, item) ==
    IF item \in Folders \cup Movies THEN Visit(s, Append(Path(s), item)) ELSE PlayRequested(s)

(* refresh, which the adapter calls. *)
Refresh(s) == IF ~s.busy /\ s.auth THEN Load(s, 0) ELSE s

(* cancelHomeOpening, when the player lets go of its media. *)
CancelHomeOpening(s) ==
    IF s.opening THEN Renumbered([s EXCEPT !.opening = FALSE, !.busy = FALSE]) ELSE s

(* applyWatched: its answer is not numbered. *)
ApplyWatched(s) == [Renumbered([s EXCEPT !.busy = TRUE]) EXCEPT !.marks = @ + 1]

(* authenticationLost. *)
AuthenticationLost(s) == Cleared(Renumbered([s EXCEPT !.auth = FALSE, !.busy = FALSE]))

-------------------------------------------------------------------------------
(* The answers. *)

(* JellyfinClient::items from start on. *)
Page(item, start) ==
    SubSeq(Children[item], start + 1,
           IF start + PageSize < Len(Children[item]) THEN start + PageSize ELSE Len(Children[item]))

ItemsAnswered(s, r, ok) ==
    LET c == [s EXCEPT !.busy = FALSE]
    IN IF ok THEN [c EXCEPT !.items = (IF r.start = 0 THEN <<>> ELSE @) \o Page(r.item, r.start),
                            !.total = Len(Children[r.item])]
       ELSE c

(* The item at the cursor is replaced by what the server says of it. *)
DetailAnswered(s, r, ok) ==
    [s EXCEPT !.busy = FALSE,
              !.history[s.index] = IF ok THEN Append(Front(@), r.item) ELSE @]

FeedAnswered(s, r, ok) ==
    [s EXCEPT !.pending = @ - 1, !.busy = s.pending > 1,
              !.known = IF ok THEN @ \cup {IF r.kind = "libraries" THEN r.kind ELSE "shelf"} ELSE @]

BugGroupedViewHasNoPath(s, item) ==
    LET Listed(folder) == folder \in Libraries
        first == SelectInSeq(Ancestry[item], Listed)
    IN IF first # 0 THEN SubSeq(Ancestry[item], first, Len(Ancestry[item])) ELSE <<>>

(* Where an item is shown, of what the server answers: from the first library the    *)
(* browser lists on.  Of a grouped view, which is no folder of the server, or before *)
(* the libraries are known, it keeps what is no root.                                *)
LibraryPath(s, item) ==
    LET Listed(folder) == "libraries" \in s.known /\ folder \in Libraries
        first == SelectInSeq(Ancestry[item], Listed)
    IN IF first # 0 THEN SubSeq(Ancestry[item], first, Len(Ancestry[item]))
       ELSE SelectSeq(Ancestry[item], LAMBDA folder : folder \in Media)

(* openHomeItem's answer: an episode is played on its season's page. *)
AncestorsAnswered(s, r, ok) ==
    LET c == [s EXCEPT !.opening = FALSE, !.busy = FALSE]
        path == LibraryPath(c, r.item)
    IN IF ~ok THEN c
       ELSE IF r.item \in Folders \cup Movies THEN Visit(c, Append(path, r.item))
       ELSE PlayRequested(Visit(c, path))

(* A login request carries no item. *)
LoginAnswered(s, ok) ==
    LET c == [s EXCEPT !.busy = FALSE, !.auth = ok] IN IF ok THEN Load(c, 0) ELSE c

MarkAnswered(s, ok) ==
    LET c == [s EXCEPT !.busy = FALSE, !.marks = @ - 1] IN IF ok THEN Load(c, 0) ELSE c

(* abortRequests: every completion runs with an error before it returns.         *)
Aborted(s) ==
    [s EXCEPT !.requests = {}, !.stale = FALSE, !.marks = 0,
              !.busy = @ /\ s.requests = {} /\ s.marks = 0,
              !.opening = @ /\ \A r \in s.requests : r.kind # "ancestors"]

Completed(s, r, ok) ==
    CASE r.kind = "items"     -> ItemsAnswered(s, r, ok)
      [] r.kind = "detail"    -> DetailAnswered(s, r, ok)
      [] r.kind = "ancestors" -> AncestorsAnswered(s, r, ok)
      [] r.kind = "login"     -> LoginAnswered(s, ok)
      [] r.kind \in Feeds     -> FeedAnswered(s, r, ok)

-------------------------------------------------------------------------------
(* Actions. *)

Without(r) == [browser EXCEPT !.requests = @ \ {r}]

(* A request is answered or fails, or the server refuses its session.           *)
Answer ==
    \E r \in browser.requests :
       \/ \E ok \in BOOLEAN : browser' = Completed(Without(r), r, ok)
       \/ browser.auth /\ browser' = AuthenticationLost(Without(r))

AnswerStale ==
    /\ browser.stale
    /\ \E left \in BOOLEAN, s \in {browser} \cup (IF browser.auth THEN {AuthenticationLost(browser)} ELSE {}) :
           browser' = [s EXCEPT !.stale = left]

AnswerMark ==
    /\ browser.marks > 0
    /\ \/ \E ok \in BOOLEAN : browser' = MarkAnswered(browser, ok)
       \/ /\ browser.auth
          /\ browser' = MarkAnswered(AuthenticationLost(browser), FALSE)

(* Reports the adapter has under way settle: marks that waited are applied,     *)
(* after the refresh a stop report asks for.                                    *)
Settle ==
    /\ browser.deferred > 0
    /\ \E refreshed \in {browser, Refresh([browser EXCEPT !.sync = FALSE])} :
           browser' = [ApplyWatched(refreshed) EXCEPT !.deferred = @ - 1]

(* The adapter's resolution is answered, fails or is given up.                  *)
Resolve ==
    /\ browser.sync
    /\ browser' = [browser EXCEPT !.sync = FALSE]

(* The player lets go of a medium, or a stop report asks for fresh data.        *)
PlayerCloses ==
    /\ browser.opening
    /\ browser' = CancelHomeOpening(browser)

StopReported ==
    /\ ~browser.busy /\ browser.auth
    /\ browser' = Refresh(browser)

MayBrowse == ~Busy(browser) /\ browser.auth

MayVisit == MayBrowse /\ browser.index < MaxHistory

Home == MayVisit /\ browser' = Visit(browser, <<>>)

SelectLibrary ==
    /\ MayVisit /\ "libraries" \in browser.known
    /\ \E library \in Libraries : browser' = Visit(browser, <<library>>)

OpenHomeItem ==
    /\ MayVisit /\ "shelf" \in browser.known
    /\ \E item \in Shelved :
           browser' = Ask(Renumbered([browser EXCEPT !.opening = TRUE, !.busy = TRUE]),
                          "ancestors", item, 0)

Enter ==
    /\ MayVisit
    /\ \E i \in DOMAIN browser.items : browser' = OpenItem(browser, browser.items[i])

Up == MayVisit /\ Len(Path(browser)) > 1 /\ browser' = Visit(browser, Front(Path(browser)))

Back == MayBrowse /\ CanGoBack(browser) /\ browser' = LoadLocation([browser EXCEPT !.index = @ - 1])

Forward ==
    MayBrowse /\ CanGoForward(browser) /\ browser' = LoadLocation([browser EXCEPT !.index = @ + 1])

LoadMore == MayBrowse /\ HasMore(browser) /\ browser' = Load(browser, Len(browser.items))

Retry == MayBrowse /\ browser' = Load(browser, 0)

(* The adapter applies a mark at once, or when its reports have settled.        *)
SetWatched ==
    /\ MayBrowse
    /\ browser.marks + browser.deferred < MaxMarks
    /\ \/ browser' = ApplyWatched(browser)
       \/ browser' = [browser EXCEPT !.deferred = @ + 1]

(* login, which aborts what is under way: a mark's completion is not numbered.   *)
Login ==
    /\ ~Busy(browser) /\ ~browser.auth
    /\ SlowVault \/ browser.leaving = "no"
    /\ LET left == Aborted(Renumbered([browser EXCEPT !.busy = TRUE]))
       IN browser' = Ask([left EXCEPT !.leaving = IF @ = "no" THEN @ ELSE "removing"],
                         "login", NoItem, 0)

Logout ==
    /\ ~Busy(browser) /\ browser.auth
    /\ browser' = Renumbered([browser EXCEPT !.busy = TRUE, !.leaving = "asked"])

(* finishLogout: the server's answer, which may refuse the session, ends it and    *)
(* aborts what is under way; the vault's answer, which is not numbered, frees the  *)
(* browser.                                                                        *)
LogoutAnswered ==
    /\ browser.leaving = "asked" /\ browser.deferred = 0
    /\ \E s \in {browser} \cup (IF browser.auth THEN {AuthenticationLost(browser)} ELSE {}) :
           browser' = [Aborted(s) EXCEPT !.leaving = "removing", !.auth = FALSE]

TokenRemoved ==
    /\ browser.leaving = "removing"
    /\ browser' = [Cleared(browser) EXCEPT !.leaving = "no", !.busy = FALSE]

Answers == Answer \/ AnswerStale \/ AnswerMark \/ Settle \/ Resolve \/ LogoutAnswered \/ TokenRemoved

Next ==
    \/ Answers
    \/ PlayerCloses \/ StopReported
    \/ Home \/ SelectLibrary \/ OpenHomeItem \/ Enter \/ Up \/ Back \/ Forward \/ LoadMore
    \/ Retry \/ SetWatched \/ Login \/ Logout

-------------------------------------------------------------------------------
(* What is listed is the beginning of the folder the user is in, in the         *)
(* server's order and each item once, whatever was asked for before.            *)
ListsThisFolder ==
    browser.items # <<>> => InFolder(browser) /\ IsPrefix(browser.items, Children[Here(browser)])

(* Back and Forward always lead elsewhere, along paths of the server's tree from a   *)
(* folder that none of them holds: a server's root is never shown.                   *)
HistoryMoves ==
    /\ browser.index \in DOMAIN browser.history
    /\ \A i \in 1..(Len(browser.history) - 1) : browser.history[i] # browser.history[i + 1]
    /\ \A i \in DOMAIN browser.history : LET path == browser.history[i] IN
           /\ path # <<>> => path[1] \in Folders \ Shelved
           /\ \A n \in 1..(Len(path) - 1) : path[n + 1] \in Range(Children[path[n]])

(* loadHome's assertion: every current feed is still counted.                   *)
FeedsAreCounted ==
    LET feeds == {r \in browser.requests : r.kind \in Feeds}
    IN feeds # {} => browser.pending = Cardinality(feeds)

(* No early return of a superseded completion leaves the browser busy for good. *)
BusyIsAwaited ==
    browser.busy => browser.requests # {} \/ browser.marks > 0 \/ browser.leaving # "no"

(* The catalogue on the screen is the one the user navigated to, over every      *)
(* order of answers, refreshes, marks and lost sessions.                         *)
ShowsWhereTheUserIs == ListsThisFolder /\ HistoryMoves /\ FeedsAreCounted /\ BusyIsAwaited
===============================================================================
