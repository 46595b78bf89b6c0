----------------------------- MODULE JellyfinSession -----------------------------
(* What of a Jellyfin login outlives the process: the settings (whether to       *)
(* restore, and whose login it was), the token in the desktop's vault, and the   *)
(* handlers of JellyfinBrowser that keep the two consistent across logins,       *)
(* sign-outs, refused sessions, failing stores and a crash at any point.         *)
(* QtKeychain runs its jobs one after another; Qt writes changed settings at the *)
(* end of the handler's turn.  Both are external.                                *)
EXTENDS Integers, Sequences

CONSTANTS
    MaxLogins,  \* bound: accepted logins, which number the sessions
    UserOf      \* the account of each session

SessionAssumption == MaxLogins \in Nat /\ 1..MaxLogins \subseteq DOMAIN UserOf

NoSession == 0
Sessions == 1..MaxLogins

VARIABLES
    mem,       \* the settings as this process sees them
    disk,      \* the settings as the next process will
    writable,  \* the settings file accepts writes
    failed,    \* SettingsStore::status, which keeps the first failure
    vault,     \* the session whose token the vault holds
    jobs,      \* the vault's queue
    client,    \* JellyfinClient::m_token
    asked,     \* the login or logout request under way
    busy,
    logins,    \* sessions accepted so far
    account,   \* for the properties: sessions the user ended, those of which a failure
               \* was shown, and whether a process ended with settings not stored
    up         \* the process runs

stores == <<disk, writable, vault>>
vars == <<mem, disk, writable, failed, vault, jobs, client, asked, busy, logins, account, up>>

Nothing == [what |-> "nothing", remember |-> FALSE]

(* SettingsStore::setValue, and the write that follows.                           *)
Save(settings) ==
    /\ mem' = settings
    /\ disk' = IF writable THEN settings ELSE disk
    /\ failed' = (failed \/ ~writable)

Forgotten == [mem EXCEPT !.remember = FALSE]

(* ++m_request: the callbacks of earlier jobs return at once. *)
Superseded(queue) == [i \in DOMAIN queue |-> [queue[i] EXCEPT !.latest = FALSE]]
Job(op, session) == [op |-> op, session |-> session, latest |-> TRUE, state |-> "queued"]

Init ==
    /\ mem = [remember |-> FALSE, user |-> "none"] /\ disk = mem
    /\ writable = TRUE /\ failed = FALSE
    /\ vault = NoSession /\ jobs = <<>> /\ client = NoSession
    /\ asked = Nothing /\ busy = FALSE /\ logins = 0
    /\ account = [ended |-> {}, warned |-> {}, lost |-> FALSE]
    /\ up = FALSE

-------------------------------------------------------------------------------
(* The process and its stores. *)

(* The constructor and restore. *)
Start ==
    /\ ~up /\ up' = TRUE
    /\ mem' = disk /\ failed' = FALSE
    /\ busy' = disk.remember
    /\ jobs' = IF disk.remember THEN <<Job("read", NoSession)>> ELSE <<>>
    /\ UNCHANGED <<stores, client, asked, logins, account>>

(* The process ends, at any point: what was not stored is gone. *)
Crash ==
    /\ up /\ up' = FALSE
    /\ jobs' = <<>> /\ client' = NoSession /\ asked' = Nothing /\ busy' = FALSE
    /\ account' = [account EXCEPT !.lost = @ \/ disk # mem]
    /\ UNCHANGED <<mem, stores, failed, logins>>

DiskChanges ==
    /\ writable' = ~writable
    /\ UNCHANGED <<mem, disk, failed, vault, jobs, client, asked, busy, logins, account, up>>

(* The vault carries out its first job, or fails it. *)
VaultActs ==
    /\ jobs # <<>> /\ Head(jobs).state = "queued"
    /\ \E state \in {"done", "failed"} :
          /\ jobs' = [jobs EXCEPT ![1].state = state]
          /\ vault' = IF state = "failed" \/ Head(jobs).op = "read" THEN vault
                      ELSE IF Head(jobs).op = "write" THEN Head(jobs).session ELSE NoSession
    /\ UNCHANGED <<mem, disk, writable, failed, client, asked, busy, logins, account, up>>

-------------------------------------------------------------------------------
(* JellyfinBrowser. *)

Finished(op) == jobs # <<>> /\ Head(jobs).op = op /\ Head(jobs).state # "queued"
Ok == Head(jobs).state = "done"

(* restore's callback; the token is the vault's. *)
TokenRead ==
    /\ Finished("read") /\ jobs' = Tail(jobs)
    /\ busy' = FALSE
    /\ IF Ok /\ vault # NoSession /\ mem.user # "none"
       THEN client' = vault /\ UNCHANGED <<mem, disk, failed>>
       ELSE Save(Forgotten) /\ UNCHANGED client
    /\ UNCHANGED <<writable, vault, asked, logins, account, up>>

(* login aborts what is under way: of that only a logout still has something to do. *)
Login ==
    /\ up /\ ~busy /\ client = NoSession /\ logins < MaxLogins
    /\ busy' = TRUE
    /\ jobs' = Superseded(jobs) \o (IF asked.what = "logout" THEN <<Job("remove", NoSession)>> ELSE <<>>)
    /\ Save(Forgotten)
    /\ \E remember \in BOOLEAN : asked' = [what |-> "login", remember |-> remember]
    /\ UNCHANGED <<writable, vault, client, logins, account, up>>

LoginFails ==
    /\ asked.what = "login"
    /\ asked' = Nothing /\ busy' = FALSE
    /\ UNCHANGED <<mem, stores, failed, jobs, client, logins, account, up>>

LoginAccepted ==
    /\ asked.what = "login" /\ asked' = Nothing
    /\ logins' = logins + 1 /\ client' = logins + 1
    /\ Save([mem EXCEPT !.user = UserOf[logins + 1]])
    /\ busy' = asked.remember
    /\ jobs' = IF asked.remember THEN Append(jobs, Job("write", logins + 1)) ELSE jobs
    /\ UNCHANGED <<writable, vault, account, up>>

(* login's second callback. *)
TokenWritten ==
    /\ Finished("write") /\ jobs' = Tail(jobs)
    /\ IF Head(jobs).latest
       THEN Save([mem EXCEPT !.remember = Ok]) /\ busy' = FALSE
       ELSE UNCHANGED <<mem, disk, failed, busy>>
    /\ UNCHANGED <<writable, vault, client, asked, logins, account, up>>

(* The server refuses the session, in an answer to any request. *)
AuthenticationLost ==
    /\ client # NoSession
    /\ client' = NoSession /\ busy' = FALSE
    /\ jobs' = Superseded(jobs)
    /\ Save(Forgotten)
    /\ UNCHANGED <<writable, vault, asked, logins, account, up>>

BugTombstoneLast == mem

(* The tombstone, written before the asynchronous deletion. *)
Tombstone == Forgotten

(* logout, up to the signal the adapter answers when its reports have settled.   *)
Logout ==
    /\ up /\ ~busy /\ client # NoSession
    /\ busy' = TRUE
    /\ jobs' = Superseded(jobs)
    /\ Save(Tombstone)
    /\ asked' = [what |-> "logout", remember |-> FALSE]
    /\ account' = [account EXCEPT !.ended = @ \cup {client},
                                  !.warned = IF failed' THEN @ \cup {client} ELSE @]
    /\ UNCHANGED <<writable, vault, client, logins, up>>

(* finishLogout's request is answered; a refusal came before, as AuthenticationLost. *)
LoggedOut ==
    /\ asked.what = "logout" /\ asked' = Nothing
    /\ client' = NoSession
    /\ jobs' = Append(jobs, Job("remove", NoSession))
    /\ UNCHANGED <<mem, stores, failed, busy, logins, account, up>>

(* finishLogout's second callback is not numbered, and tells of its failure. *)
TokenRemoved ==
    /\ Finished("remove") /\ jobs' = Tail(jobs)
    /\ busy' = FALSE
    /\ account' = [account EXCEPT !.warned = IF Ok THEN @ ELSE @ \cup {vault}]
    /\ UNCHANGED <<mem, stores, failed, client, asked, logins, up>>

Next ==
    \/ Start \/ Crash \/ DiskChanges \/ VaultActs
    \/ TokenRead \/ Login \/ LoginFails \/ LoginAccepted \/ TokenWritten
    \/ AuthenticationLost \/ Logout \/ LoggedOut \/ TokenRemoved

-------------------------------------------------------------------------------
(* What a process started now would restore. *)
Restorable == IF disk.remember THEN vault ELSE NoSession

(* A login the user has signed out of is not restored by a later process, wherever  *)
(* the sign-out was interrupted, unless the user was told what could not be stored. *)
SignedOutStaysOut == Restorable \in account.ended => Restorable \in account.warned

(* A restored token is the one of the saved account, as long as no setting was lost. *)
RestoredIsWhole ==
    Restorable # NoSession /\ disk = mem /\ ~account.lost => UserOf[Restorable] = disk.user

(* The two stores never disagree about whose login is restored, or that none is.     *)
RestoresTheRightLogin == SignedOutStaysOut /\ RestoredIsWhole
===============================================================================
