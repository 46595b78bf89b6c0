-------------------------- MODULE JellyfinSessionProofs --------------------------
(* Proofs about JellyfinSession, for any accounts and any number of logins: after a *)
(* crash at any point the next process restores the right login, or none.            *)
EXTENDS JellyfinSession, TLAPS

(* Every run of the process and its stores. *)
Restarts == Init /\ [][Next]_vars

-------------------------------------------------------------------------------
Settings == [remember : BOOLEAN, user : {"none"} \cup {UserOf[s] : s \in Sessions}]

VaultJobs == [op : {"read", "write", "remove"}, session : 0..MaxLogins, latest : BOOLEAN,
              state : {"queued", "done", "failed"}]

Typed ==
    /\ mem \in Settings /\ disk \in Settings
    /\ writable \in BOOLEAN /\ failed \in BOOLEAN /\ busy \in BOOLEAN /\ up \in BOOLEAN
    /\ logins \in 0..MaxLogins /\ vault \in 0..logins /\ client \in 0..logins
    /\ jobs \in Seq(VaultJobs)
    /\ asked \in [what : {"nothing", "login", "logout"}, remember : BOOLEAN]
    /\ account \in [ended : SUBSET (1..logins), warned : SUBSET (0..logins), lost : BOOLEAN]

(* Without a process nothing is under way, and the settings are those on the disk   *)
(* unless some were lost.                                                           *)
DownIsIdle ==
    ~up => /\ jobs = <<>> /\ client = NoSession /\ asked.what = "nothing"
           /\ ~account.lost => disk = mem

(* The first job alone has been carried out, and a write then is in the vault.      *)
InOrder(i, job) ==
    /\ job.state # "queued" => i = 1
    /\ job.op = "write" => job.session \in 1..logins /\ (job.state = "done" => vault = job.session)

QueueInOrder == \A i \in DOMAIN jobs : InOrder(i, jobs[i])

(* The token is read before anything else is begun.                                 *)
ReadIsAlone ==
    \A i \in DOMAIN jobs : jobs[i].op = "read" => /\ Len(jobs) = 1 /\ client = NoSession
                                                  /\ asked.what = "nothing" /\ busy

IsPending(job) == job.op = "write" /\ job.latest

(* A write that still counts is the last job; its session is the one in use.         *)
PendingIsCurrent ==
    \A i \in DOMAIN jobs : IsPending(jobs[i]) =>
       /\ i = Len(jobs) /\ asked.what = "nothing"
       /\ client = jobs[i].session /\ client \notin account.ended
       /\ mem.user = UserOf[client]

(* Before a login is accepted nothing is remembered.                                 *)
LoginForgets == asked.what = "login" => client = NoSession /\ ~mem.remember /\ logins < MaxLogins

(* A remembered login is settled: nothing is going to change what the vault holds.   *)
RememberedIsSettled ==
    mem.remember => /\ asked.what = "nothing"
                    /\ \A i \in DOMAIN jobs : jobs[i].op = "read"
                    /\ ~account.lost /\ vault # NoSession => UserOf[vault] = mem.user

(* The sessions whose token is in the vault or on its way there.                     *)
Stored(s) == s = vault \/ \E i \in DOMAIN jobs : jobs[i].op = "write" /\ jobs[i].session = s

EndedIsForgotten ==
    disk.remember => \A s \in account.ended : Stored(s) => s \in account.warned

IInv == /\ Typed /\ DownIsIdle /\ QueueInOrder /\ ReadIsAlone /\ PendingIsCurrent
        /\ LoginForgets /\ RememberedIsSettled /\ EndedIsForgotten

-------------------------------------------------------------------------------
(* The queue after its first job has left, after another has joined, and after the   *)
(* jobs in it were superseded.                                                       *)
LEMMA RestOfQueue ==
    ASSUME NEW q \in Seq(VaultJobs), q # <<>>
    PROVE  /\ Tail(q) \in Seq(VaultJobs) /\ Len(Tail(q)) = Len(q) - 1
           /\ \A i \in DOMAIN Tail(q) : i + 1 \in DOMAIN q /\ i + 1 # 1 /\ Tail(q)[i] = q[i + 1]
           /\ 1 \in DOMAIN q /\ Head(q) = q[1] /\ q[1] \in VaultJobs
OBVIOUS

LEMMA LongerQueue ==
    ASSUME NEW q \in Seq(VaultJobs), NEW job \in VaultJobs
    PROVE  /\ Append(q, job) \in Seq(VaultJobs) /\ Len(Append(q, job)) = Len(q) + 1
           /\ \A i \in DOMAIN Append(q, job) :
                 \/ i \in DOMAIN q /\ Append(q, job)[i] = q[i]
                 \/ i = Len(q) + 1 /\ Append(q, job)[i] = job
           /\ q \o <<job>> = Append(q, job) /\ q \o <<>> = q
OBVIOUS

LEMMA SupersededQueue ==
    ASSUME NEW q \in Seq(VaultJobs)
    PROVE  /\ Superseded(q) \in Seq(VaultJobs) /\ Len(Superseded(q)) = Len(q)
           /\ DOMAIN Superseded(q) = DOMAIN q
           /\ \A i \in DOMAIN q : /\ q[i] \in VaultJobs
                                   /\ Superseded(q)[i] = [q[i] EXCEPT !.latest = FALSE]
<1>1. \A i \in DOMAIN q : q[i] \in VaultJobs
  OBVIOUS
<1>2. \A i \in DOMAIN q : [q[i] EXCEPT !.latest = FALSE] \in VaultJobs
  BY <1>1 DEF VaultJobs
<1>3. DOMAIN q = 1..Len(q) /\ Len(q) \in Nat
  OBVIOUS
<1>4. Superseded(q) \in [1..Len(q) -> VaultJobs]
  BY <1>2, <1>3 DEF Superseded
<1>5. Superseded(q) \in Seq(VaultJobs) /\ Len(Superseded(q)) = Len(q)
  BY <1>3, <1>4
<1> QED BY <1>1, <1>3, <1>4, <1>5 DEF Superseded

(* What a job asks for and how far it is stay as they were when it is superseded.    *)
LEMMA SupersededJob ==
    ASSUME NEW job \in VaultJobs
    PROVE  /\ [job EXCEPT !.latest = FALSE].op = job.op
           /\ [job EXCEPT !.latest = FALSE].session = job.session
           /\ [job EXCEPT !.latest = FALSE].state = job.state
           /\ ~IsPending([job EXCEPT !.latest = FALSE])
BY DEF VaultJobs, IsPending

LEMMA NewJob ==
    ASSUME NEW op \in {"read", "write", "remove"}, NEW s \in 0..MaxLogins
    PROVE  /\ Job(op, s) \in VaultJobs /\ Job(op, s).op = op /\ Job(op, s).session = s
           /\ Job(op, s).latest /\ Job(op, s).state = "queued"
BY DEF Job, VaultJobs

(* A setting is saved: what is remembered on the disk is what was, or what is now.   *)
LEMMA SaveKeeps ==
    ASSUME Typed, NEW settings \in Settings, Save(settings)
    PROVE  /\ mem' = settings /\ mem' \in Settings /\ disk' \in Settings /\ failed' \in BOOLEAN
           /\ disk' = settings \/ (disk' = disk /\ failed')
<1>1. CASE writable
  BY <1>1 DEF Typed, Save
<1>2. CASE ~writable
  BY <1>2 DEF Typed, Save
<1> QED BY <1>1, <1>2

LEMMA Forgets ==
    ASSUME Typed
    PROVE  Forgotten \in Settings /\ ~Forgotten.remember /\ Tombstone = Forgotten
BY DEF Typed, Forgotten, Settings, Tombstone

-------------------------------------------------------------------------------
(* The process starts without a login; then each step of Next in turn.               *)
LEMMA InitInv == ASSUME SessionAssumption PROVE Init => IInv
<1> SUFFICES ASSUME Init PROVE IInv
  OBVIOUS
<1>1. Typed
  <2>1. mem \in Settings /\ disk \in Settings
    BY DEF Init, Settings
  <2>2. logins \in 0..MaxLogins /\ vault \in 0..logins /\ client \in 0..logins
    BY DEF Init, SessionAssumption, NoSession
  <2>3. asked \in [what : {"nothing", "login", "logout"}, remember : BOOLEAN]
    BY DEF Init, Nothing
  <2>4. account \in [ended : SUBSET (1..logins), warned : SUBSET (0..logins), lost : BOOLEAN]
    BY DEF Init
  <2>5. jobs \in Seq(VaultJobs)
    BY DEF Init
  <2> QED BY <2>1, <2>2, <2>3, <2>4, <2>5 DEF Init, Typed
<1> QED BY <1>1 DEF Init, IInv, DownIsIdle, QueueInOrder, InOrder, ReadIsAlone, PendingIsCurrent,
           LoginForgets, RememberedIsSettled, EndedIsForgotten, NoSession, Nothing

(* Start: only the read is under way.                                                *)
LEMMA StartKeeps == ASSUME SessionAssumption, IInv, Start PROVE IInv'
<1> USE DEF IInv
<1>1. /\ jobs = <<>> /\ client = NoSession /\ asked.what = "nothing" /\ up'
      /\ ~account.lost => disk = mem
  BY DEF Start, DownIsIdle
<1>2. UNCHANGED <<disk, writable, vault, client, asked, logins, account>>
  BY DEF Start, stores
<1>3. Job("read", NoSession) \in VaultJobs /\ Job("read", NoSession).op = "read"
      /\ Job("read", NoSession).state = "queued"
  BY NewJob DEF SessionAssumption, NoSession
<1>4. \/ disk.remember /\ jobs' = <<Job("read", NoSession)>> /\ busy'
      \/ ~disk.remember /\ jobs' = <<>>
  BY DEF Start
<1>5. jobs' \in Seq(VaultJobs)
  <2>1. CASE jobs' = <<Job("read", NoSession)>>
    BY <1>3, <2>1
  <2>2. CASE jobs' = <<>>
    BY <2>2
  <2> QED BY <1>4, <2>1, <2>2
<1>6. \A i \in DOMAIN jobs' : i = 1 /\ Len(jobs') = 1 /\ busy' /\ jobs'[i].op = "read"
                                /\ jobs'[i].state = "queued"
  BY <1>3, <1>4
<1>7. Typed'
  BY <1>2, <1>5 DEF Start, Typed, Settings
<1>8. DownIsIdle'
  BY <1>1 DEF DownIsIdle
<1>9. QueueInOrder' /\ ReadIsAlone' /\ PendingIsCurrent'
  BY <1>1, <1>2, <1>6 DEF QueueInOrder, InOrder, ReadIsAlone, PendingIsCurrent, IsPending
<1>10. LoginForgets'
  BY <1>1, <1>2 DEF LoginForgets
<1>11. RememberedIsSettled'
  BY <1>1, <1>2, <1>6 DEF Start, RememberedIsSettled
<1>12. EndedIsForgotten'
  BY <1>2, <1>6 DEF EndedIsForgotten, Stored
<1> QED BY <1>7, <1>8, <1>9, <1>10, <1>11, <1>12

(* Crash: settings that were not stored count as lost.                               *)
LEMMA CrashKeeps == ASSUME SessionAssumption, IInv, Crash PROVE IInv'
<1> USE DEF IInv
<1>1. /\ jobs' = <<>> /\ client' = NoSession /\ asked' = Nothing /\ asked'.what = "nothing"
      /\ UNCHANGED <<mem, disk, writable, vault, failed, logins>>
  BY DEF Crash, stores, Nothing
<1>2. /\ account'.ended = account.ended /\ account'.warned = account.warned
      /\ ~account'.lost => ~account.lost /\ disk = mem
  BY DEF Crash, Typed
<1>3. Typed'
  <2>1. account' \in [ended : SUBSET (1..logins), warned : SUBSET (0..logins), lost : BOOLEAN]
    BY DEF Crash, Typed
  <2>2. asked' \in [what : {"nothing", "login", "logout"}, remember : BOOLEAN]
    BY <1>1 DEF Nothing
  <2>3. client' \in 0..logins' /\ jobs' \in Seq(VaultJobs)
    BY <1>1 DEF Typed, NoSession
  <2> QED BY <1>1, <2>1, <2>2, <2>3 DEF Crash, Typed
<1>4. DownIsIdle'
  BY <1>1, <1>2 DEF DownIsIdle
<1>5. QueueInOrder' /\ ReadIsAlone' /\ PendingIsCurrent' /\ LoginForgets'
  BY <1>1 DEF QueueInOrder, InOrder, ReadIsAlone, PendingIsCurrent, LoginForgets
<1>6. RememberedIsSettled'
  BY <1>1, <1>2 DEF RememberedIsSettled
<1>7. EndedIsForgotten'
  BY <1>1, <1>2 DEF EndedIsForgotten, Stored
<1> QED BY <1>3, <1>4, <1>5, <1>6, <1>7

LEMMA DiskChangesKeeps == ASSUME IInv, DiskChanges PROVE IInv'
BY DEF IInv, DiskChanges, Typed, DownIsIdle, QueueInOrder, InOrder, ReadIsAlone, PendingIsCurrent,
       LoginForgets, RememberedIsSettled, EndedIsForgotten, Stored

(* VaultActs: the vault changes to the session of a write on its way, or to none.     *)
LEMMA VaultActsKeeps == ASSUME IInv, VaultActs PROVE IInv'
<1> USE DEF IInv
<1>1. /\ jobs # <<>> /\ jobs \in Seq(VaultJobs) /\ jobs[1].state = "queued" /\ 1 \in DOMAIN jobs
      /\ Head(jobs) = jobs[1] /\ jobs[1] \in VaultJobs
  BY RestOfQueue DEF VaultActs, Typed
<1>2. PICK state \in {"done", "failed"} :
          /\ jobs' = [jobs EXCEPT ![1].state = state]
          /\ vault' = IF state = "failed" \/ Head(jobs).op = "read" THEN vault
                      ELSE IF Head(jobs).op = "write" THEN Head(jobs).session ELSE NoSession
  BY DEF VaultActs
<1>3. UNCHANGED <<mem, disk, writable, failed, client, asked, busy, logins, account, up>>
  BY DEF VaultActs
<1>4. /\ jobs' \in Seq(VaultJobs) /\ Len(jobs') = Len(jobs) /\ jobs'[1].state = state
      /\ \A i \in DOMAIN jobs' : /\ i \in DOMAIN jobs
                                  /\ jobs'[i].op = jobs[i].op /\ jobs'[i].session = jobs[i].session
                                  /\ jobs'[i].latest = jobs[i].latest
      /\ \A i \in DOMAIN jobs' : i # 1 => jobs'[i].state = jobs[i].state
  <2>1. [jobs[1] EXCEPT !.state = state] \in VaultJobs
    BY <1>1 DEF VaultJobs
  <2>2. jobs' = [jobs EXCEPT ![1] = [jobs[1] EXCEPT !.state = state]]
    BY <1>2
  <2>3. jobs' \in Seq(VaultJobs) /\ Len(jobs') = Len(jobs)
    BY <1>1, <2>1, <2>2
  <2>4. /\ jobs'[1] = [jobs[1] EXCEPT !.state = state]
        /\ \A i \in DOMAIN jobs' : i \in DOMAIN jobs /\ (i # 1 => jobs'[i] = jobs[i])
    BY <1>1, <2>2
  <2>5. /\ jobs'[1].op = jobs[1].op /\ jobs'[1].session = jobs[1].session
        /\ jobs'[1].latest = jobs[1].latest /\ jobs'[1].state = state
    BY <1>1, <2>4 DEF VaultJobs
  <2> QED BY <2>3, <2>4, <2>5
<1>5. \/ vault' = vault
      \/ vault' = NoSession /\ jobs[1].op = "remove"
      \/ vault' = jobs[1].session /\ jobs[1].op = "write"
  BY <1>1, <1>2 DEF VaultJobs
<1>6. jobs[1].op = "write" /\ state = "done" => vault' = jobs[1].session
  BY <1>1, <1>2
<1>7. vault' \in 0..logins
  BY <1>1, <1>5 DEF Typed, QueueInOrder, InOrder, NoSession
<1>8. Typed'
  BY <1>3, <1>4, <1>7 DEF Typed
<1>9. DownIsIdle'
  BY <1>1, <1>3 DEF DownIsIdle
<1>10. QueueInOrder'
  BY <1>1, <1>2, <1>3, <1>4, <1>6 DEF QueueInOrder, InOrder
<1>11. ReadIsAlone' /\ PendingIsCurrent' /\ LoginForgets'
  <2>1. ReadIsAlone'
    <3> SUFFICES ASSUME NEW i \in DOMAIN jobs', jobs'[i].op = "read"
                 PROVE  Len(jobs') = 1 /\ client' = NoSession /\ asked'.what = "nothing" /\ busy'
      BY DEF ReadIsAlone
    <3>1. i \in DOMAIN jobs /\ jobs[i].op = "read"
      BY <1>1, <1>4
    <3> QED BY <1>3, <1>4, <3>1 DEF ReadIsAlone
  <2>2. PendingIsCurrent'
    <3> SUFFICES ASSUME NEW i \in DOMAIN jobs', IsPending(jobs'[i])
                 PROVE  /\ i = Len(jobs') /\ asked'.what = "nothing"
                        /\ client' = jobs'[i].session /\ client' \notin account'.ended
                        /\ mem'.user = UserOf[client']
      BY DEF PendingIsCurrent
    <3>1. i \in DOMAIN jobs
      BY <1>4
    <3>2. jobs'[i].op = jobs[i].op /\ jobs'[i].latest = jobs[i].latest /\ jobs'[i].session = jobs[i].session
      BY <1>1, <1>4, <3>1
    <3> QED BY <1>3, <1>4, <3>1, <3>2 DEF PendingIsCurrent, IsPending
  <2>3. LoginForgets'
    BY <1>3 DEF LoginForgets
  <2> QED BY <2>1, <2>2, <2>3
<1>12. RememberedIsSettled'
  <2> SUFFICES ASSUME mem.remember PROVE RememberedIsSettled'
    BY <1>3 DEF RememberedIsSettled
  <2>1. \A i \in DOMAIN jobs : jobs[i].op = "read"
    BY DEF RememberedIsSettled
  <2>2. vault' = vault
    BY <1>1, <1>5, <2>1
  <2>3. \A i \in DOMAIN jobs' : jobs'[i].op = "read"
    <3> TAKE i \in DOMAIN jobs'
    <3>1. i \in DOMAIN jobs
      BY <1>4
    <3> QED BY <1>1, <1>4, <2>1, <3>1
  <2> QED BY <1>3, <2>2, <2>3 DEF RememberedIsSettled
<1>13. ASSUME NEW s \in account.ended, Stored(s)' PROVE Stored(s)
  <2>1. s # NoSession
    BY DEF Typed, NoSession
  <2>2. CASE s = vault'
    BY <1>1, <1>5, <2>1, <2>2 DEF Stored
  <2>3. CASE \E i \in DOMAIN jobs' : jobs'[i].op = "write" /\ jobs'[i].session = s
    <3>1. PICK i \in DOMAIN jobs' : jobs'[i].op = "write" /\ jobs'[i].session = s
      BY <2>3
    <3>2. i \in DOMAIN jobs
      BY <1>4
    <3> QED BY <1>1, <1>4, <3>1, <3>2 DEF Stored
  <2> QED BY <1>13, <2>2, <2>3 DEF Stored
<1>14. EndedIsForgotten'
  BY <1>3, <1>13 DEF EndedIsForgotten
<1> QED BY <1>8, <1>9, <1>10, <1>11, <1>12, <1>14

-------------------------------------------------------------------------------
(* The handlers that take the first job off the queue.                               *)

(* TokenRead: the queue is empty then.                                               *)
LEMMA TokenReadKeeps == ASSUME IInv, TokenRead PROVE IInv'
<1> USE DEF IInv
<1>1. /\ jobs # <<>> /\ jobs \in Seq(VaultJobs) /\ 1 \in DOMAIN jobs /\ jobs[1].op = "read"
      /\ jobs' = Tail(jobs)
  BY RestOfQueue DEF TokenRead, Finished, Typed
<1>2. Len(jobs) = 1 /\ asked.what = "nothing"
  BY <1>1 DEF ReadIsAlone
<1>3. jobs' = <<>>
  BY <1>1, <1>2
<1>4. UNCHANGED <<writable, vault, asked, logins, account, up>> /\ busy' = FALSE
  BY DEF TokenRead
<1>5. \/ client' = vault /\ UNCHANGED <<mem, disk, failed>>
      \/ Save(Forgotten) /\ client' = client
  BY DEF TokenRead
<1>6. \/ client' = vault /\ UNCHANGED <<mem, disk, failed>>
      \/ /\ mem' \in Settings /\ disk' \in Settings /\ failed' \in BOOLEAN
         /\ ~mem'.remember /\ client' = client /\ (disk' = disk \/ ~disk'.remember)
  BY <1>5, SaveKeeps, Forgets
<1>7. up
  BY <1>1 DEF DownIsIdle
<1>8. Typed'
  <2>1. jobs' \in Seq(VaultJobs)
    BY <1>3
  <2>2. mem' \in Settings /\ disk' \in Settings /\ failed' \in BOOLEAN /\ client' \in 0..logins
    BY <1>6 DEF Typed
  <2> QED BY <1>4, <2>1, <2>2 DEF Typed
<1>9. DownIsIdle' /\ QueueInOrder' /\ ReadIsAlone' /\ PendingIsCurrent' /\ LoginForgets'
  BY <1>2, <1>3, <1>4, <1>7 DEF DownIsIdle, QueueInOrder, InOrder, ReadIsAlone, PendingIsCurrent, LoginForgets
<1>10. RememberedIsSettled'
  BY <1>2, <1>3, <1>4, <1>6 DEF RememberedIsSettled
<1>11. EndedIsForgotten'
  BY <1>3, <1>4, <1>6 DEF EndedIsForgotten, Stored
<1> QED BY <1>8, <1>9, <1>10, <1>11

(* A queue without its first job keeps its order, which is that of the rest.          *)
LEMMA QueueAdvances ==
    ASSUME IInv, jobs # <<>>, jobs' = Tail(jobs), jobs[1].op # "read", UNCHANGED <<vault, logins>>
    PROVE  /\ jobs' \in Seq(VaultJobs) /\ QueueInOrder' /\ ReadIsAlone' /\ up
           /\ \A i \in DOMAIN jobs' : i + 1 \in DOMAIN jobs /\ jobs'[i] = jobs[i + 1]
           /\ Len(jobs') = Len(jobs) - 1
           /\ \A s : Stored(s)' => Stored(s)
<1> USE DEF IInv
<1>1. /\ jobs' \in Seq(VaultJobs) /\ Len(jobs') = Len(jobs) - 1
      /\ \A i \in DOMAIN jobs' : i + 1 \in DOMAIN jobs /\ i + 1 # 1 /\ jobs'[i] = jobs[i + 1]
      /\ 1 \in DOMAIN jobs /\ Len(jobs) \in Nat /\ DOMAIN jobs = 1..Len(jobs)
  BY RestOfQueue DEF Typed
<1>2. QueueInOrder'
  BY <1>1 DEF QueueInOrder, InOrder
<1>3. \A i \in DOMAIN jobs : jobs[i].op # "read"
  BY <1>1 DEF ReadIsAlone
<1>4. ReadIsAlone'
  BY <1>1, <1>3 DEF ReadIsAlone
<1>5. up
  BY DEF DownIsIdle
<1>6. \A s : Stored(s)' => Stored(s)
  BY <1>1 DEF Stored
<1> QED BY <1>1, <1>2, <1>4, <1>5, <1>6

(* TokenWritten: a write that still counts was the last; what the vault holds is the   *)
(* session in use, which the user has not ended.                                      *)
LEMMA TokenWrittenKeeps == ASSUME IInv, TokenWritten PROVE IInv'
<1> USE DEF IInv
<1>1. /\ jobs # <<>> /\ jobs \in Seq(VaultJobs) /\ 1 \in DOMAIN jobs /\ Head(jobs) = jobs[1]
      /\ jobs[1].op = "write" /\ jobs[1].state # "queued" /\ jobs' = Tail(jobs)
      /\ jobs[1] \in VaultJobs
  BY RestOfQueue DEF TokenWritten, Finished, Typed
<1>2. UNCHANGED <<writable, vault, client, asked, logins, account, up>>
  BY DEF TokenWritten
<1>3. /\ jobs' \in Seq(VaultJobs) /\ QueueInOrder' /\ ReadIsAlone' /\ up
      /\ \A i \in DOMAIN jobs' : i + 1 \in DOMAIN jobs /\ jobs'[i] = jobs[i + 1]
      /\ Len(jobs') = Len(jobs) - 1
      /\ \A s : Stored(s)' => Stored(s)
  BY <1>1, <1>2, QueueAdvances
<1>4. DownIsIdle'
  BY <1>2, <1>3 DEF DownIsIdle
<1>5. CASE jobs[1].latest
  <2>1. /\ Len(jobs) = 1 /\ asked.what = "nothing" /\ client = jobs[1].session
        /\ client \notin account.ended /\ mem.user = UserOf[client]
    BY <1>1, <1>5 DEF PendingIsCurrent, IsPending
  <2>2. jobs' = <<>>
    BY <1>1, <2>1
  <2>3. Save([mem EXCEPT !.remember = Ok]) /\ busy' = FALSE
    BY <1>1, <1>5 DEF TokenWritten
  <2>4. [mem EXCEPT !.remember = Ok] \in Settings
    BY DEF Typed, Settings, Ok
  <2>5. /\ mem' = [mem EXCEPT !.remember = Ok] /\ mem' \in Settings /\ disk' \in Settings
        /\ failed' \in BOOLEAN /\ (disk' = mem' \/ disk' = disk)
    BY <2>3, <2>4, SaveKeeps
  <2>6. mem'.remember = Ok /\ mem'.user = mem.user
    BY <2>5 DEF Typed, Settings
  <2>7. mem'.remember => vault = client
    BY <1>1, <2>1, <2>6 DEF Ok, QueueInOrder, InOrder
  <2>8. Typed'
    BY <1>2, <1>3, <2>3, <2>5 DEF Typed
  <2>9. PendingIsCurrent' /\ LoginForgets'
    BY <1>2, <2>1, <2>2 DEF PendingIsCurrent, LoginForgets
  <2>10. RememberedIsSettled'
    BY <1>2, <2>1, <2>2, <2>6, <2>7 DEF RememberedIsSettled
  <2>11. EndedIsForgotten'
    <3>1. CASE disk' = disk
      BY <1>2, <1>3, <3>1 DEF EndedIsForgotten
    <3>2. CASE disk' = mem'
      BY <1>2, <2>1, <2>2, <2>7, <3>2 DEF EndedIsForgotten, Stored
    <3> QED BY <2>5, <3>1, <3>2
  <2> QED BY <1>3, <1>4, <2>8, <2>9, <2>10, <2>11
<1>6. CASE ~jobs[1].latest
  <2>1. UNCHANGED <<mem, disk, failed, busy>>
    BY <1>1, <1>6 DEF TokenWritten
  <2>2. Typed'
    BY <1>2, <1>3, <2>1 DEF Typed
  <2>3. PendingIsCurrent'
    BY <1>1, <1>2, <1>3, <2>1 DEF PendingIsCurrent
  <2>4. LoginForgets' /\ EndedIsForgotten'
    BY <1>2, <1>3, <2>1 DEF LoginForgets, EndedIsForgotten
  <2>5. RememberedIsSettled'
    BY <1>1, <1>2, <2>1 DEF RememberedIsSettled
  <2> QED BY <1>3, <1>4, <2>2, <2>3, <2>4, <2>5
<1> QED BY <1>5, <1>6

(* TokenRemoved: a failure is told.                                                  *)
LEMMA TokenRemovedKeeps == ASSUME IInv, TokenRemoved PROVE IInv'
<1> USE DEF IInv
<1>1. /\ jobs # <<>> /\ jobs \in Seq(VaultJobs) /\ 1 \in DOMAIN jobs /\ Head(jobs) = jobs[1]
      /\ jobs[1].op = "remove" /\ jobs' = Tail(jobs) /\ busy' = FALSE
  BY RestOfQueue DEF TokenRemoved, Finished, Typed
<1>2. UNCHANGED <<mem, disk, writable, vault, failed, client, asked, logins, up>>
  BY DEF TokenRemoved, stores
<1>3. /\ jobs' \in Seq(VaultJobs) /\ QueueInOrder' /\ ReadIsAlone' /\ up
      /\ \A i \in DOMAIN jobs' : i + 1 \in DOMAIN jobs /\ jobs'[i] = jobs[i + 1]
      /\ Len(jobs') = Len(jobs) - 1
      /\ \A s : Stored(s)' => Stored(s)
  BY <1>1, <1>2, QueueAdvances
<1>4. /\ account' \in [ended : SUBSET (1..logins), warned : SUBSET (0..logins), lost : BOOLEAN]
      /\ account'.ended = account.ended /\ account'.lost = account.lost
      /\ account.warned \subseteq account'.warned
  <2>1. account.warned \cup {vault} \subseteq 0..logins
    BY DEF Typed
  <2>2. PICK warned \in {account.warned, account.warned \cup {vault}} :
           account' = [account EXCEPT !.warned = warned]
    BY DEF TokenRemoved
  <2> QED BY <2>1, <2>2 DEF Typed
<1>5. Typed'
  BY <1>1, <1>2, <1>3, <1>4 DEF Typed
<1>6. DownIsIdle'
  BY <1>2, <1>3 DEF DownIsIdle
<1>7. PendingIsCurrent'
  BY <1>1, <1>2, <1>3, <1>4 DEF PendingIsCurrent
<1>8. LoginForgets'
  BY <1>2 DEF LoginForgets
<1>9. RememberedIsSettled'
  BY <1>1, <1>2 DEF RememberedIsSettled
<1>10. EndedIsForgotten'
  BY <1>2, <1>3, <1>4 DEF EndedIsForgotten
<1> QED BY <1>3, <1>5, <1>6, <1>7, <1>8, <1>9, <1>10

-------------------------------------------------------------------------------
(* The handlers of JellyfinBrowser.                                                  *)

(* ++m_request: the queue keeps its order, and no write counts any more.             *)
LEMMA QueueSuperseded ==
    ASSUME IInv, jobs' = Superseded(jobs), UNCHANGED <<vault, logins>>
    PROVE  /\ jobs' \in Seq(VaultJobs) /\ QueueInOrder' /\ Len(jobs') = Len(jobs)
           /\ \A i \in DOMAIN jobs' : /\ i \in DOMAIN jobs /\ ~IsPending(jobs'[i])
                                       /\ jobs'[i].op = jobs[i].op
           /\ \A s : Stored(s)' => Stored(s)
<1> USE DEF IInv
<1>1. /\ jobs' \in Seq(VaultJobs) /\ Len(jobs') = Len(jobs) /\ DOMAIN jobs' = DOMAIN jobs
      /\ \A i \in DOMAIN jobs : /\ jobs[i] \in VaultJobs
                                 /\ jobs'[i] = [jobs[i] EXCEPT !.latest = FALSE]
  BY SupersededQueue DEF Typed
<1>2. ASSUME NEW i \in DOMAIN jobs'
      PROVE  /\ i \in DOMAIN jobs /\ ~IsPending(jobs'[i]) /\ jobs'[i].op = jobs[i].op
             /\ jobs'[i].session = jobs[i].session /\ jobs'[i].state = jobs[i].state
  <2>1. i \in DOMAIN jobs
    BY <1>1, <1>2
  <2>2. jobs[i] \in VaultJobs /\ jobs'[i] = [jobs[i] EXCEPT !.latest = FALSE]
    BY <1>1, <2>1
  <2> QED BY <2>1, <2>2, SupersededJob
<1>3. QueueInOrder'
  <2> SUFFICES ASSUME NEW i \in DOMAIN jobs'
               PROVE  InOrder(i, jobs[i])'
    BY DEF QueueInOrder
  <2> QED BY <1>2 DEF QueueInOrder, InOrder
<1>4. \A s : Stored(s)' => Stored(s)
  BY <1>2 DEF Stored
<1> QED BY <1>1, <1>2, <1>3, <1>4

(* A job that is not a write joins a queue in which none counts.                     *)
LEMMA QueueGrows ==
    ASSUME SessionAssumption, Typed, QueueInOrder, NEW q \in Seq(VaultJobs),
           \A i \in DOMAIN q : /\ i \in DOMAIN jobs /\ q[i].op = jobs[i].op
                               /\ q[i].session = jobs[i].session /\ q[i].state = jobs[i].state,
           jobs' = Append(q, Job("remove", NoSession)), UNCHANGED <<vault, logins>>
    PROVE  /\ jobs' \in Seq(VaultJobs) /\ QueueInOrder'
           /\ \A i \in DOMAIN jobs' : (i \in DOMAIN q /\ jobs'[i] = q[i]) \/ jobs'[i].op = "remove"
           /\ \A s : Stored(s)' => Stored(s)
<1>1. /\ Job("remove", NoSession) \in VaultJobs /\ Job("remove", NoSession).op = "remove"
      /\ Job("remove", NoSession).state = "queued"
  <2>1. NoSession \in 0..MaxLogins
    BY DEF SessionAssumption, NoSession
  <2> QED BY <2>1, NewJob
<1>2. /\ jobs' \in Seq(VaultJobs)
      /\ \A i \in DOMAIN jobs' : \/ i \in DOMAIN q /\ jobs'[i] = q[i]
                                 \/ i = Len(q) + 1 /\ jobs'[i] = Job("remove", NoSession)
  BY <1>1, LongerQueue
<1>3. QueueInOrder'
  <2> SUFFICES ASSUME NEW i \in DOMAIN jobs'
               PROVE  InOrder(i, jobs[i])'
    BY DEF QueueInOrder
  <2>1. CASE i \in DOMAIN q /\ jobs'[i] = q[i]
    BY <2>1 DEF QueueInOrder, InOrder
  <2>2. CASE jobs'[i] = Job("remove", NoSession)
    BY <1>1, <2>2 DEF InOrder
  <2> QED BY <1>2, <2>1, <2>2
<1>4. ASSUME NEW s, Stored(s)' PROVE Stored(s)
  <2>1. CASE s = vault'
    BY <2>1 DEF Stored
  <2>2. CASE \E i \in DOMAIN jobs' : jobs'[i].op = "write" /\ jobs'[i].session = s
    <3>1. PICK i \in DOMAIN jobs' : jobs'[i].op = "write" /\ jobs'[i].session = s
      BY <2>2
    <3>2. i \in DOMAIN q /\ jobs'[i] = q[i]
      BY <1>1, <1>2, <3>1
    <3> QED BY <3>1, <3>2 DEF Stored
  <2> QED BY <1>4, <2>1, <2>2 DEF Stored
<1> QED BY <1>1, <1>2, <1>3, <1>4

(* AuthenticationLost: what is forgotten stays so, or the disk is as it was.          *)
LEMMA AuthenticationLostKeeps == ASSUME IInv, AuthenticationLost PROVE IInv'
<1> USE DEF IInv
<1>1. /\ client # NoSession /\ client' = NoSession /\ busy' = FALSE /\ jobs' = Superseded(jobs)
      /\ UNCHANGED <<writable, vault, asked, logins, account, up>>
  BY DEF AuthenticationLost
<1>2. /\ mem' \in Settings /\ disk' \in Settings /\ failed' \in BOOLEAN
      /\ ~mem'.remember /\ (disk' = disk \/ ~disk'.remember)
  <2>1. Save(Forgotten)
    BY DEF AuthenticationLost
  <2> QED BY <2>1, SaveKeeps, Forgets
<1>3. /\ jobs' \in Seq(VaultJobs) /\ QueueInOrder' /\ Len(jobs') = Len(jobs)
      /\ \A i \in DOMAIN jobs' : /\ i \in DOMAIN jobs /\ ~IsPending(jobs'[i])
                                  /\ jobs'[i].op = jobs[i].op
      /\ \A s : Stored(s)' => Stored(s)
  BY <1>1, QueueSuperseded
<1>4. up
  BY <1>1 DEF DownIsIdle
<1>5. Typed'
  <2>1. client' \in 0..logins'
    BY <1>1 DEF Typed, NoSession
  <2> QED BY <1>1, <1>2, <1>3, <2>1 DEF Typed
<1>6. DownIsIdle' /\ LoginForgets'
  BY <1>1, <1>4 DEF DownIsIdle, LoginForgets
<1>7. ReadIsAlone'
  BY <1>1, <1>3 DEF ReadIsAlone
<1>8. PendingIsCurrent'
  BY <1>3 DEF PendingIsCurrent
<1>9. RememberedIsSettled'
  BY <1>2 DEF RememberedIsSettled
<1>10. EndedIsForgotten'
  BY <1>1, <1>2, <1>3 DEF EndedIsForgotten
<1> QED BY <1>3, <1>5, <1>6, <1>7, <1>8, <1>9, <1>10

(* Logout: the session counts as ended; unless the tombstone reached the disk, the     *)
(* user was told.                                                                     *)
LEMMA LogoutKeeps == ASSUME IInv, Logout PROVE IInv'
<1> USE DEF IInv
<1>1. /\ up /\ client # NoSession /\ ~busy /\ busy' = TRUE /\ jobs' = Superseded(jobs)
      /\ asked' = [what |-> "logout", remember |-> FALSE] /\ asked'.what = "logout"
      /\ UNCHANGED <<writable, vault, client, logins, up>>
  BY DEF Logout
<1>2. /\ mem' \in Settings /\ disk' \in Settings /\ failed' \in BOOLEAN
      /\ ~mem'.remember /\ (~disk'.remember \/ (disk' = disk /\ failed'))
  <2>1. Save(Forgotten)
    BY Forgets DEF Logout
  <2> QED BY <2>1, SaveKeeps, Forgets
<1>3. /\ account'.ended = account.ended \cup {client} /\ account'.lost = account.lost
      /\ account.warned \subseteq account'.warned /\ (failed' => client \in account'.warned)
      /\ account' \in [ended : SUBSET (1..logins), warned : SUBSET (0..logins), lost : BOOLEAN]
  <2>1. client \in 1..logins
    BY <1>1 DEF Typed, NoSession
  <2>2. CASE failed'
    <3>1. account' = [account EXCEPT !.ended = @ \cup {client}, !.warned = @ \cup {client}]
      BY <2>2 DEF Logout
    <3> QED BY <2>1, <3>1 DEF Typed
  <2>3. CASE ~failed'
    <3>1. account' = [account EXCEPT !.ended = @ \cup {client}]
      BY <2>3 DEF Logout, Typed
    <3> QED BY <2>1, <2>3, <3>1 DEF Typed
  <2> QED BY <2>2, <2>3
<1>4. /\ jobs' \in Seq(VaultJobs) /\ QueueInOrder' /\ Len(jobs') = Len(jobs)
      /\ \A i \in DOMAIN jobs' : /\ i \in DOMAIN jobs /\ ~IsPending(jobs'[i])
                                  /\ jobs'[i].op = jobs[i].op
      /\ \A s : Stored(s)' => Stored(s)
  BY <1>1, QueueSuperseded
<1>5. Typed'
  BY <1>1, <1>2, <1>3, <1>4 DEF Typed
<1>6. DownIsIdle' /\ LoginForgets'
  BY <1>1 DEF DownIsIdle, LoginForgets
<1>7. ReadIsAlone'
  BY <1>1, <1>4 DEF ReadIsAlone
<1>8. PendingIsCurrent'
  BY <1>4 DEF PendingIsCurrent
<1>9. RememberedIsSettled'
  BY <1>2 DEF RememberedIsSettled
<1>10. EndedIsForgotten'
  BY <1>2, <1>3, <1>4 DEF EndedIsForgotten
<1> QED BY <1>4, <1>5, <1>6, <1>7, <1>8, <1>9, <1>10

(* LoggedOut: the token is going to be removed.                                       *)
LEMMA LoggedOutKeeps == ASSUME SessionAssumption, IInv, LoggedOut PROVE IInv'
<1> USE DEF IInv
<1>1. /\ asked.what = "logout" /\ asked' = Nothing /\ asked'.what = "nothing" /\ client' = NoSession
      /\ jobs' = Append(jobs, Job("remove", NoSession))
      /\ UNCHANGED <<mem, disk, writable, vault, failed, busy, logins, account, up>>
  BY DEF LoggedOut, stores, Nothing
<1>2. /\ jobs' \in Seq(VaultJobs) /\ QueueInOrder'
      /\ \A i \in DOMAIN jobs' : (i \in DOMAIN jobs /\ jobs'[i] = jobs[i]) \/ jobs'[i].op = "remove"
      /\ \A s : Stored(s)' => Stored(s)
  BY <1>1, QueueGrows DEF Typed
<1>3. \A i \in DOMAIN jobs : jobs[i].op # "read" /\ ~IsPending(jobs[i])
  BY <1>1 DEF ReadIsAlone, PendingIsCurrent
<1>4. \A i \in DOMAIN jobs' : jobs'[i].op # "read" /\ ~IsPending(jobs'[i])
  BY <1>2, <1>3 DEF IsPending
<1>5. up
  BY <1>1 DEF DownIsIdle
<1>6. Typed'
  <2>1. asked' \in [what : {"nothing", "login", "logout"}, remember : BOOLEAN]
    BY <1>1 DEF Nothing
  <2> QED BY <1>1, <1>2, <2>1 DEF Typed, NoSession
<1>7. DownIsIdle' /\ LoginForgets'
  BY <1>1, <1>5 DEF DownIsIdle, LoginForgets
<1>8. ReadIsAlone' /\ PendingIsCurrent'
  BY <1>4 DEF ReadIsAlone, PendingIsCurrent
<1>9. RememberedIsSettled'
  BY <1>1 DEF RememberedIsSettled
<1>10. EndedIsForgotten'
  BY <1>1, <1>2 DEF EndedIsForgotten
<1> QED BY <1>2, <1>6, <1>7, <1>8, <1>9, <1>10

(* Login: a logout that was under way still has its token removed.                    *)
LEMMA LoginKeeps == ASSUME SessionAssumption, IInv, Login PROVE IInv'
<1> USE DEF IInv
<1>1. /\ up /\ client = NoSession /\ logins < MaxLogins /\ ~busy /\ busy' = TRUE
      /\ UNCHANGED <<writable, vault, client, logins, account, up>>
  BY DEF Login
<1>2. /\ asked' \in [what : {"nothing", "login", "logout"}, remember : BOOLEAN]
      /\ asked'.what = "login"
  BY DEF Login
<1>3. /\ mem' \in Settings /\ disk' \in Settings /\ failed' \in BOOLEAN
      /\ ~mem'.remember /\ (disk' = disk \/ ~disk'.remember)
  <2>1. Save(Forgotten)
    BY DEF Login
  <2> QED BY <2>1, SaveKeeps, Forgets
<1>4. \A i \in DOMAIN jobs : jobs[i].op # "read"
  BY <1>1 DEF ReadIsAlone
<1>5. /\ Superseded(jobs) \in Seq(VaultJobs)
      /\ \A i \in DOMAIN Superseded(jobs) :
            /\ i \in DOMAIN jobs /\ Superseded(jobs)[i].op = jobs[i].op
            /\ Superseded(jobs)[i].session = jobs[i].session
            /\ Superseded(jobs)[i].state = jobs[i].state /\ ~IsPending(Superseded(jobs)[i])
  <2>1. /\ Superseded(jobs) \in Seq(VaultJobs) /\ DOMAIN Superseded(jobs) = DOMAIN jobs
        /\ \A i \in DOMAIN jobs : /\ jobs[i] \in VaultJobs
                                   /\ Superseded(jobs)[i] = [jobs[i] EXCEPT !.latest = FALSE]
    BY SupersededQueue DEF Typed
  <2>2. ASSUME NEW i \in DOMAIN Superseded(jobs)
        PROVE  /\ i \in DOMAIN jobs /\ Superseded(jobs)[i].op = jobs[i].op
               /\ Superseded(jobs)[i].session = jobs[i].session
               /\ Superseded(jobs)[i].state = jobs[i].state /\ ~IsPending(Superseded(jobs)[i])
    <3>1. i \in DOMAIN jobs
      BY <2>1, <2>2
    <3>2. jobs[i] \in VaultJobs /\ Superseded(jobs)[i] = [jobs[i] EXCEPT !.latest = FALSE]
      BY <2>1, <3>1
    <3> QED BY <3>1, <3>2, SupersededJob
  <2> QED BY <2>1, <2>2
<1>6. /\ jobs' \in Seq(VaultJobs) /\ QueueInOrder'
      /\ \A i \in DOMAIN jobs' : jobs'[i].op # "read" /\ ~IsPending(jobs'[i])
      /\ \A s : Stored(s)' => Stored(s)
  <2>1. CASE asked.what = "logout"
    <3>1. jobs' = Append(Superseded(jobs), Job("remove", NoSession))
      <4>1. jobs' = Superseded(jobs) \o <<Job("remove", NoSession)>>
        BY <2>1 DEF Login
      <4>2. Job("remove", NoSession) \in VaultJobs
        BY NewJob DEF SessionAssumption, NoSession
      <4> QED BY <1>5, <4>1, <4>2, LongerQueue
    <3>2. /\ jobs' \in Seq(VaultJobs) /\ QueueInOrder'
          /\ \A i \in DOMAIN jobs' : \/ i \in DOMAIN Superseded(jobs) /\ jobs'[i] = Superseded(jobs)[i]
                                     \/ jobs'[i].op = "remove"
          /\ \A s : Stored(s)' => Stored(s)
      BY <1>1, <1>5, <3>1, QueueGrows
    <3>3. \A i \in DOMAIN jobs' : jobs'[i].op # "read" /\ ~IsPending(jobs'[i])
      BY <1>4, <1>5, <3>2 DEF IsPending
    <3> QED BY <3>2, <3>3
  <2>2. CASE asked.what # "logout"
    <3>1. jobs' = Superseded(jobs) \o <<>>
      BY <2>2 DEF Login
    <3>2. jobs' = Superseded(jobs)
      BY <1>5, <3>1
    <3>3. /\ jobs' \in Seq(VaultJobs) /\ QueueInOrder'
          /\ \A i \in DOMAIN jobs' : /\ i \in DOMAIN jobs /\ ~IsPending(jobs'[i])
                                      /\ jobs'[i].op = jobs[i].op
          /\ \A s : Stored(s)' => Stored(s)
      BY <1>1, <3>2, QueueSuperseded
    <3> QED BY <1>4, <3>3
  <2> QED BY <2>1, <2>2
<1>7. Typed'
  BY <1>1, <1>2, <1>3, <1>6 DEF Typed
<1>8. DownIsIdle' /\ LoginForgets'
  BY <1>1, <1>3 DEF DownIsIdle, LoginForgets
<1>9. ReadIsAlone' /\ PendingIsCurrent'
  BY <1>6 DEF ReadIsAlone, PendingIsCurrent
<1>10. RememberedIsSettled'
  BY <1>3 DEF RememberedIsSettled
<1>11. EndedIsForgotten'
  BY <1>1, <1>3, <1>6 DEF EndedIsForgotten
<1> QED BY <1>6, <1>7, <1>8, <1>9, <1>10, <1>11

LEMMA LoginFailsKeeps == ASSUME IInv, LoginFails PROVE IInv'
<1> USE DEF IInv
<1>1. /\ asked.what = "login" /\ asked' = Nothing /\ asked'.what = "nothing" /\ busy' = FALSE
      /\ UNCHANGED <<mem, disk, writable, vault, failed, jobs, client, logins, account, up>>
  BY DEF LoginFails, stores, Nothing
<1>2. \A i \in DOMAIN jobs : jobs[i].op # "read" /\ ~IsPending(jobs[i])
  BY <1>1 DEF ReadIsAlone, PendingIsCurrent
<1>3. Typed'
  <2>1. asked' \in [what : {"nothing", "login", "logout"}, remember : BOOLEAN]
    BY <1>1 DEF Nothing
  <2> QED BY <1>1, <2>1 DEF Typed
<1>4. DownIsIdle' /\ LoginForgets' /\ QueueInOrder'
  BY <1>1 DEF DownIsIdle, LoginForgets, QueueInOrder, InOrder
<1>5. ReadIsAlone' /\ PendingIsCurrent'
  BY <1>1, <1>2 DEF ReadIsAlone, PendingIsCurrent
<1>6. RememberedIsSettled'
  BY <1>1 DEF RememberedIsSettled
<1>7. EndedIsForgotten'
  BY <1>1 DEF EndedIsForgotten, Stored
<1> QED BY <1>3, <1>4, <1>5, <1>6, <1>7

(* LoginAccepted: a new session, whose token is on its way if it is to be remembered.  *)
LEMMA LoginAcceptedKeeps == ASSUME SessionAssumption, IInv, LoginAccepted PROVE IInv'
<1> USE DEF IInv
<1> DEFINE new == logins + 1
<1>1. /\ asked.what = "login" /\ asked' = Nothing /\ asked'.what = "nothing"
      /\ logins' = new /\ client' = new /\ busy' = asked.remember
      /\ UNCHANGED <<writable, vault, account, up>>
  BY DEF LoginAccepted, Nothing
<1>2. /\ ~mem.remember /\ new \in Sessions /\ new \in 1..new /\ up /\ logins \in Nat
      /\ new \notin account.ended /\ new # vault
      /\ \A i \in DOMAIN jobs : jobs[i].op # "read" /\ ~IsPending(jobs[i])
  <2>1. ~mem.remember /\ logins < MaxLogins /\ up
    BY <1>1 DEF LoginForgets, DownIsIdle
  <2>2. /\ new \in Sessions /\ new \in 1..new /\ new \notin account.ended /\ new # vault
        /\ logins \in Nat
    BY <2>1 DEF Typed, Sessions, SessionAssumption
  <2>3. \A i \in DOMAIN jobs : jobs[i].op # "read" /\ ~IsPending(jobs[i])
    BY <1>1 DEF ReadIsAlone, PendingIsCurrent
  <2> QED BY <2>1, <2>2, <2>3
<1>3. /\ mem' \in Settings /\ disk' \in Settings /\ failed' \in BOOLEAN
      /\ ~mem'.remember /\ mem'.user = UserOf[new] /\ (disk' = disk \/ ~disk'.remember)
  <2> DEFINE settings == [mem EXCEPT !.user = UserOf[new]]
  <2>1. settings \in Settings /\ ~settings.remember /\ settings.user = UserOf[new]
    BY <1>2 DEF Typed, Settings
  <2>2. Save(settings)
    BY DEF LoginAccepted
  <2> HIDE DEF settings
  <2> QED BY <2>1, <2>2, SaveKeeps
<1>4. /\ Job("write", new) \in VaultJobs /\ Job("write", new).op = "write"
      /\ Job("write", new).session = new /\ Job("write", new).state = "queued"
  <2>1. new \in 0..MaxLogins
    BY <1>2 DEF Sessions
  <2> QED BY <2>1, NewJob
<1>5. jobs' = jobs \/ jobs' = Append(jobs, Job("write", new))
  BY DEF LoginAccepted
<1>6. /\ jobs' \in Seq(VaultJobs)
      /\ \A i \in DOMAIN jobs' : \/ i \in DOMAIN jobs /\ jobs'[i] = jobs[i]
                                 \/ i = Len(jobs') /\ jobs'[i] = Job("write", new)
  <2>1. CASE jobs' = jobs
    BY <2>1 DEF Typed
  <2>2. CASE jobs' = Append(jobs, Job("write", new))
    <3>1. jobs \in Seq(VaultJobs)
      BY DEF Typed
    <3> HIDE DEF new
    <3> QED BY <1>4, <2>2, <3>1, LongerQueue
  <2> QED BY <1>5, <2>1, <2>2
<1>7. QueueInOrder'
  <2> SUFFICES ASSUME NEW i \in DOMAIN jobs' PROVE InOrder(i, jobs[i])'
    BY DEF QueueInOrder
  <2>1. CASE i \in DOMAIN jobs /\ jobs'[i] = jobs[i]
    <3>1. InOrder(i, jobs[i])
      BY <2>1 DEF QueueInOrder
    <3> QED BY <1>1, <1>2, <2>1, <3>1 DEF InOrder
  <2>2. CASE jobs'[i] = Job("write", new)
    BY <1>1, <1>2, <1>4, <2>2 DEF InOrder
  <2> QED BY <1>6, <2>1, <2>2
<1>8. ReadIsAlone'
  <2>1. \A i \in DOMAIN jobs' : jobs'[i].op # "read"
    BY <1>2, <1>4, <1>6
  <2> QED BY <2>1 DEF ReadIsAlone
<1>9. PendingIsCurrent'
  <2> SUFFICES ASSUME NEW i \in DOMAIN jobs', IsPending(jobs'[i])
               PROVE  /\ i = Len(jobs') /\ asked'.what = "nothing"
                      /\ client' = jobs'[i].session /\ client' \notin account'.ended
                      /\ mem'.user = UserOf[client']
    BY DEF PendingIsCurrent
  <2>1. i = Len(jobs') /\ jobs'[i] = Job("write", new)
    BY <1>2, <1>6
  <2> QED BY <1>1, <1>2, <1>3, <1>4, <2>1
<1>10. Typed'
  <2>1. asked' \in [what : {"nothing", "login", "logout"}, remember : BOOLEAN] /\ busy' \in BOOLEAN
    BY <1>1 DEF Nothing, Typed
  <2>2. logins' \in 0..MaxLogins /\ vault' \in 0..logins' /\ client' \in 0..logins'
    BY <1>1, <1>2 DEF Typed, Sessions
  <2>3. account' \in [ended : SUBSET (1..logins'), warned : SUBSET (0..logins'), lost : BOOLEAN]
    <3>1. 1..logins \subseteq 1..logins' /\ 0..logins \subseteq 0..logins'
      BY <1>1, <1>2
    <3> QED BY <1>1, <3>1 DEF Typed
  <2> QED BY <1>1, <1>3, <1>6, <2>1, <2>2, <2>3 DEF Typed
<1>11. DownIsIdle' /\ LoginForgets'
  BY <1>1, <1>2 DEF DownIsIdle, LoginForgets
<1>12. RememberedIsSettled'
  BY <1>3 DEF RememberedIsSettled
<1>13. EndedIsForgotten'
  <2>1. ASSUME NEW s \in account.ended, Stored(s)' PROVE Stored(s)
    <3>1. CASE s = vault'
      BY <1>1, <3>1 DEF Stored
    <3>2. CASE \E i \in DOMAIN jobs' : jobs'[i].op = "write" /\ jobs'[i].session = s
      <4>1. PICK i \in DOMAIN jobs' : jobs'[i].op = "write" /\ jobs'[i].session = s
        BY <3>2
      <4>2. i \in DOMAIN jobs /\ jobs'[i] = jobs[i]
        BY <1>2, <1>4, <1>6, <4>1
      <4> QED BY <4>1, <4>2 DEF Stored
    <3> QED BY <2>1, <3>1, <3>2 DEF Stored
  <2> QED BY <1>1, <1>3, <2>1 DEF EndedIsForgotten
<1> QED BY <1>7, <1>8, <1>9, <1>10, <1>11, <1>12, <1>13

-------------------------------------------------------------------------------
(* The inductive invariant of logins, sign-outs, failing stores and crashes: the jobs *)
(* of the vault, the settings and the session in use fit together (restore, login,    *)
(* logout and finishLogout of JellyfinBrowser).                                       *)
THEOREM SessionInvariance == ASSUME SessionAssumption PROVE Restarts => []IInv
<1>1. Init => IInv
  BY InitInv
<1>2. ASSUME IInv, [Next]_vars PROVE IInv'
  <2>1. CASE Start
    BY <1>2, <2>1, StartKeeps
  <2>2. CASE Crash
    BY <1>2, <2>2, CrashKeeps
  <2>3. CASE DiskChanges
    BY <1>2, <2>3, DiskChangesKeeps
  <2>4. CASE VaultActs
    BY <1>2, <2>4, VaultActsKeeps
  <2>5. CASE TokenRead
    BY <1>2, <2>5, TokenReadKeeps
  <2>6. CASE Login
    BY <1>2, <2>6, LoginKeeps
  <2>7. CASE LoginFails
    BY <1>2, <2>7, LoginFailsKeeps
  <2>8. CASE LoginAccepted
    BY <1>2, <2>8, LoginAcceptedKeeps
  <2>9. CASE TokenWritten
    BY <1>2, <2>9, TokenWrittenKeeps
  <2>10. CASE AuthenticationLost
    BY <1>2, <2>10, AuthenticationLostKeeps
  <2>11. CASE Logout
    BY <1>2, <2>11, LogoutKeeps
  <2>12. CASE LoggedOut
    BY <1>2, <2>12, LoggedOutKeeps
  <2>13. CASE TokenRemoved
    BY <1>2, <2>13, TokenRemovedKeeps
  <2>14. CASE UNCHANGED vars
    BY <1>2, <2>14 DEF vars, IInv, Typed, DownIsIdle, QueueInOrder, InOrder, ReadIsAlone,
       PendingIsCurrent, LoginForgets, RememberedIsSettled, EndedIsForgotten, Stored
  <2> QED BY <1>2, <2>1, <2>2, <2>3, <2>4, <2>5, <2>6, <2>7, <2>8, <2>9, <2>10, <2>11, <2>12,
             <2>13, <2>14 DEF Next
<1> QED BY <1>1, <1>2, PTL DEF Restarts

(* A login the user has signed out of is not restored by any later process, wherever  *)
(* the sign-out was interrupted, unless the user was told what could not be stored;    *)
(* and a restored token is that of the saved account (restore, login and logout).      *)
THEOREM TheRightLoginIsRestored ==
    ASSUME SessionAssumption PROVE Restarts => []RestoresTheRightLogin
<1>1. ASSUME IInv PROVE RestoresTheRightLogin
  <2>1. NoSession \notin account.ended
    BY <1>1 DEF IInv, Typed, NoSession
  <2>2. SignedOutStaysOut
    BY <1>1, <2>1 DEF IInv, EndedIsForgotten, Stored, Restorable, SignedOutStaysOut
  <2>3. RestoredIsWhole
    BY <1>1 DEF IInv, RememberedIsSettled, Restorable, RestoredIsWhole
  <2> QED BY <2>2, <2>3 DEF RestoresTheRightLogin
<1> QED BY <1>1, SessionInvariance, PTL

===============================================================================
