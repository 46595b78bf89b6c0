------------------------------ MODULE ApplicationLog ------------------------------
(* The session log: threads hand records to a bounded queue, one sink worker      *)
(* writes them to a bounded file, flushes share a sequence watermark, and the     *)
(* destructor stops the worker.  Records are their sequence numbers with a size.  *)
EXTENDS Integers, Sequences, FiniteSets, FiniteSetsExt, SequencesExt

CONSTANTS
    Threads,      \* threads that log
    Sizes,        \* sizes of the records they log
    QueueBytes, QueueRecords, FileBytes,  \* ApplicationLogOptions
    MarkerBytes,  \* the size of either marker
    FlushEvery,   \* maximumRecordsBetweenFlushes
    MaxRecords    \* bound: records logged

LogAssumption ==
    /\ Sizes \subseteq Nat \ {0} /\ MarkerBytes \in Nat \ {0}
    /\ QueueBytes \in Nat \ {0} /\ QueueRecords \in Nat \ {0} /\ FileBytes \in Nat

VARIABLES
    log,     \* what m_queueMutex guards
    file,    \* what the worker alone touches: the file and its counters
    writer,  \* where the worker is
    thread,  \* where each thread is in messageHandler or flush
    handler, \* the thread that holds s_handlerMutex
    owner    \* the destructor: "installed", "stopping", "notified", "joining", "gone"

vars == <<log, file, writer, thread, handler, owner>>

Nobody == "nobody"
Never == MaxRecords + 1  \* no sequence number

Init ==
    /\ log = [queue |-> <<>>, dropped |-> 0, firstDropped |-> 0,
              last |-> 0, flushRequested |-> 0, flushed |-> 0, stop |-> FALSE]
    /\ file = [lines |-> <<>>, bytes |-> 0, truncated |-> FALSE, cut |-> 0,
               since |-> 0, flushed |-> 0]
    /\ writer = [at |-> "look", action |-> "none", record |-> <<>>, target |-> 0]
    /\ thread = [t \in Threads |-> [at |-> "idle", target |-> 0, fatal |-> FALSE]]
    /\ handler = Nobody /\ owner = "installed"

(* The worker holds the queue's mutex from the evaluation of its predicate until   *)
(* it sleeps; every other critical section is one step.                            *)
QueueFree == writer.at # "blocking"

Bytes(queue) == FoldSeq(LAMBDA r, n : r.size + n, 0, queue)
Fits(l, size) == Bytes(l.queue) <= QueueBytes - size /\ Len(l.queue) < QueueRecords

(* recordDropLocked. *)
RecordDrop(l, sequence) ==
    [l EXCEPT !.dropped = @ + 1,
              !.firstDropped = IF l.dropped = 0 \/ sequence < @ THEN sequence ELSE @]

(* A fatal record evicts from the front until it fits. *)
Evicted(l, size) ==
    LET n == Min({k \in 0..Len(l.queue) :
                     k = Len(l.queue) \/ Fits([l EXCEPT !.queue = SubSeq(@, k + 1, Len(@))], size)})
    IN FoldSeq(LAMBDA r, m : RecordDrop(m, r.sequence),
               [l EXCEPT !.queue = SubSeq(@, n + 1, Len(@))], SubSeq(l.queue, 1, n))

(* enqueueMessage, under the queue's mutex. *)
Enqueued(l, size, fatal) ==
    LET numbered == [l EXCEPT !.last = @ + 1]
        bounded == IF size < QueueBytes THEN size ELSE QueueBytes
        Pushed(m, s) == [m EXCEPT !.queue = Append(@, [sequence |-> numbered.last, size |-> s])]
    IN IF fatal THEN Pushed(Evicted(numbered, bounded), bounded)
       ELSE IF Fits(numbered, size) THEN Pushed(numbered, size)
       ELSE RecordDrop(numbered, numbered.last)

(* notify_one: only a worker that sleeps is woken. *)
Notified(w) == IF w.at = "asleep" THEN [w EXCEPT !.at = "look"] ELSE w

-------------------------------------------------------------------------------
(* A thread logs: messageHandler holds s_handlerMutex while it enqueues. *)
Log(t) ==
    /\ thread[t].at = "idle" /\ handler = Nobody /\ QueueFree
    /\ owner = "installed" /\ log.last < MaxRecords
    /\ \E size \in Sizes, fatal \in BOOLEAN :
          /\ log' = Enqueued(log, size, fatal)
          /\ thread' = [thread EXCEPT ![t] = [at |-> "notify", target |-> 0, fatal |-> fatal]]
    /\ handler' = t
    /\ UNCHANGED <<file, writer, owner>>

(* The notification; of a fatal record messageHandler then asks for a flush.       *)
Notify(t) ==
    /\ thread[t].at = "notify"
    /\ writer' = Notified(writer)
    /\ IF thread[t].fatal
       THEN thread' = [thread EXCEPT ![t].at = "flush"] /\ UNCHANGED handler
       ELSE thread' = [thread EXCEPT ![t].at = "idle"] /\ handler' = Nobody
    /\ UNCHANGED <<log, file, owner>>

(* flush, by a thread of its own accord while the log exists. *)
Flush(t) ==
    /\ thread[t].at = "idle" /\ owner = "installed"
    /\ thread' = [thread EXCEPT ![t] = [at |-> "flush", target |-> 0, fatal |-> FALSE]]
    /\ UNCHANGED <<log, file, writer, handler, owner>>

RequestFlush(t) ==
    /\ thread[t].at = "flush" /\ QueueFree
    /\ IF log.last <= log.flushed
       THEN thread' = [thread EXCEPT ![t].at = "flushed"] /\ UNCHANGED log
       ELSE /\ log' = [log EXCEPT !.flushRequested = Max({@, log.last})]
            /\ thread' = [thread EXCEPT ![t].at = "asked", ![t].target = log.last]
    /\ UNCHANGED <<file, writer, handler, owner>>

NotifyFlush(t) ==
    /\ thread[t].at = "asked"
    /\ writer' = Notified(writer)
    /\ thread' = [thread EXCEPT ![t].at = "waiting"]
    /\ UNCHANGED <<log, file, handler, owner>>

FlushReturns(t) ==
    /\ thread[t].at = "waiting" /\ QueueFree /\ log.flushed >= thread[t].target
    /\ thread' = [thread EXCEPT ![t].at = "flushed"]
    /\ UNCHANGED <<log, file, writer, handler, owner>>

(* A thread goes on; after a fatal record the process aborts instead. *)
Continue(t) ==
    /\ thread[t].at = "flushed"
    /\ IF thread[t].fatal
       THEN owner' = "aborted" /\ UNCHANGED <<thread, handler>>
       ELSE thread' = [thread EXCEPT ![t].at = "idle"] /\ UNCHANGED <<owner, handler>>
    /\ UNCHANGED <<log, file, writer>>

-------------------------------------------------------------------------------
(* The destructor. Other threads are done with the log by then. *)
Uninstall ==
    /\ owner = "installed" /\ handler = Nobody
    /\ \A t \in Threads : thread[t].at = "idle"
    /\ owner' = "stopping"
    /\ UNCHANGED <<log, file, writer, thread, handler>>

(* request_stop, without the queue's mutex. *)
RequestStop ==
    /\ owner = "stopping" /\ ~log.stop
    /\ log' = [log EXCEPT !.stop = TRUE]
    /\ UNCHANGED <<file, writer, thread, handler, owner>>

NotifyStop ==
    /\ owner = "stopping" /\ log.stop
    /\ owner' = "joining" /\ writer' = Notified(writer)
    /\ UNCHANGED <<log, file, thread, handler>>

Join ==
    /\ owner = "joining" /\ writer.at = "ended"
    /\ owner' = "gone"
    /\ UNCHANGED <<log, file, writer, thread, handler>>

-------------------------------------------------------------------------------
(* The worker. *)

NextRecord == IF log.queue = <<>> THEN Never ELSE Head(log.queue).sequence
NextDropped == IF log.dropped = 0 THEN Never ELSE log.firstDropped

BugFlushPastDrops ==
    log.flushRequested > log.flushed /\ NextRecord > log.flushRequested

FlushDue ==
    /\ log.flushRequested > log.flushed
    /\ NextRecord > log.flushRequested /\ NextDropped > log.flushRequested

HasWork ==
    log.stop \/ log.queue # <<>> \/ log.dropped > 0 \/ log.flushRequested > log.flushed

(* The predicate is false: the worker will sleep. *)
Look ==
    /\ writer.at = "look" /\ ~HasWork
    /\ writer' = [writer EXCEPT !.at = "blocking"]
    /\ UNCHANGED <<log, file, thread, handler, owner>>

Sleep ==
    /\ writer.at = "blocking"
    /\ writer' = [writer EXCEPT !.at = "asleep"]
    /\ UNCHANGED <<log, file, thread, handler, owner>>

Acts(action, record, target) ==
    writer' = [at |-> "act", action |-> action, record |-> record, target |-> target]

(* It chooses the oldest thing to do, with the mutex held. *)
Choose ==
    /\ writer.at = "look" /\ HasWork
    /\ IF FlushDue
       THEN Acts("flush", <<>>, log.flushRequested) /\ UNCHANGED log
       ELSE IF log.queue # <<>> /\ NextRecord <= NextDropped
       THEN /\ log' = [log EXCEPT !.queue = Tail(@)]
            /\ Acts("record", Head(log.queue), IF Len(log.queue) = 1 /\ log.dropped = 0 THEN 1 ELSE 0)
       ELSE IF log.dropped > 0
       THEN /\ log' = [log EXCEPT !.dropped = 0, !.firstDropped = 0]
            /\ Acts("marker", [sequence |-> log.firstDropped, count |-> log.dropped], 0)
       ELSE Acts("stop", <<>>, 0) /\ UNCHANGED log
    /\ UNCHANGED <<file, thread, handler, owner>>

(* writeRecord. *)
Written(f, line, size, records) ==
    LET remaining == FileBytes - f.bytes
    IN IF size <= remaining
       THEN [f EXCEPT !.lines = Append(@, line), !.bytes = @ + size]
       ELSE IF ~f.truncated /\ MarkerBytes <= remaining
       THEN [f EXCEPT !.truncated = TRUE, !.cut = @ + records, !.bytes = @ + MarkerBytes]
       ELSE [f EXCEPT !.truncated = TRUE, !.cut = @ + records]

Published(f) == [f EXCEPT !.flushed = Len(f.lines), !.since = 0]

WriteRecord ==
    /\ writer.at = "act" /\ writer.action = "record"
    /\ LET f == Written([file EXCEPT !.since = @ + 1],
                        [kind |-> "record", sequence |-> writer.record.sequence, count |-> 1],
                        writer.record.size, 1)
       IN file' = IF writer.target = 1 \/ f.since >= FlushEvery THEN Published(f) ELSE f
    /\ writer' = [writer EXCEPT !.at = "look"]
    /\ UNCHANGED <<log, thread, handler, owner>>

WriteMarker ==
    /\ writer.at = "act" /\ writer.action = "marker"
    /\ file' = Published(Written(file, [kind |-> "dropped", sequence |-> writer.record.sequence,
                                        count |-> writer.record.count],
                                 MarkerBytes, writer.record.count))
    /\ writer' = [writer EXCEPT !.at = "look"]
    /\ UNCHANGED <<log, thread, handler, owner>>

FlushFile ==
    /\ writer.at = "act" /\ writer.action = "flush"
    /\ file' = Published(file)
    /\ writer' = [writer EXCEPT !.at = "publish"]
    /\ UNCHANGED <<log, thread, handler, owner>>

PublishFlush ==
    /\ writer.at = "publish"
    /\ log' = [log EXCEPT !.flushed = Max({@, writer.target})]
    /\ writer' = [writer EXCEPT !.at = "look"]
    /\ UNCHANGED <<file, thread, handler, owner>>

EndWriter ==
    /\ writer.at = "act" /\ writer.action = "stop"
    /\ file' = Published(file)
    /\ log' = [log EXCEPT !.flushed = Max({@, log.last})]
    /\ writer' = [writer EXCEPT !.at = "ended"]
    /\ UNCHANGED <<thread, handler, owner>>

ThreadStep(t) ==
    Notify(t) \/ RequestFlush(t) \/ NotifyFlush(t) \/ FlushReturns(t) \/ Continue(t)
Writer ==
    \/ Look \/ Sleep \/ Choose \/ WriteRecord \/ WriteMarker \/ FlushFile \/ PublishFlush \/ EndWriter
Owner == RequestStop \/ NotifyStop \/ Join

Alive == owner # "aborted"

Next ==
    /\ Alive
    /\ (\E t \in Threads : Log(t) \/ Flush(t) \/ ThreadStep(t)) \/ Uninstall \/ Owner \/ Writer

Spec == Init /\ [][Next]_vars

-------------------------------------------------------------------------------
SumOf(F(_), S) == MapThenSumSet(F, S)
LinesCount == SumOf(LAMBDA i : file.lines[i].count, DOMAIN file.lines)
UnderWay ==
    IF writer.at # "act" THEN 0
    ELSE CASE writer.action = "record" -> 1
           [] writer.action = "marker" -> writer.record.count
           [] OTHER -> 0

(* Every record logged is queued, written, counted as dropped or cut by the size of   *)
(* the file: none is lost without a trace and none is counted twice.                  *)
Accounted == log.last = Len(log.queue) + log.dropped + UnderWay + LinesCount + file.cut

(* The file tells records and losses in the order they happened.                      *)
InOrder ==
    \A i, j \in DOMAIN file.lines : i < j => file.lines[i].sequence < file.lines[j].sequence

(* What a flush vouches for has left the queue and is on the disk.                    *)
FlushedIsOnDisk ==
    /\ NextRecord > log.flushed /\ NextDropped > log.flushed
    /\ \A i \in DOMAIN file.lines : file.lines[i].sequence <= log.flushed => i <= file.flushed
    /\ writer.at = "act" /\ writer.action \in {"record", "marker"} =>
           writer.record.sequence > log.flushed

(* A fatal record reaches the disk before the process aborts, unless the file is full. *)
FatalSurvives ==
    owner = "aborted" =>
        file.truncated \/ \E i \in 1..file.flushed : file.lines[i].sequence = log.last

Bounded ==
    /\ Bytes(log.queue) <= QueueBytes /\ Len(log.queue) <= QueueRecords
    /\ file.bytes <= FileBytes

(* Who waits for a flush has been heard: the worker is up and flushes once it has     *)
(* written what is older.                                                              *)
FlushIsHeard ==
    \A t \in Threads :
        thread[t].at = "waiting" /\ log.flushed < thread[t].target =>
            writer.at \notin {"blocking", "asleep", "ended"} /\ log.flushRequested >= thread[t].target

(* The file is a truthful, bounded account of what was logged, under overflow,         *)
(* eviction and truncation, and a flush returns only when it is on the disk.           *)
LogTellsTheTruth ==
    Accounted /\ InOrder /\ FlushedIsOnDisk /\ FatalSurvives /\ Bounded /\ FlushIsHeard
===============================================================================
