------------------------------ MODULE ExportTasks ------------------------------
(***************************************************************************)
(* waveform_export_task_manager.cpp: the export jobs of the web backend.    *)
(* HTTP threads submit, poll, cancel and download; one worker converts.     *)
(* Every critical section of mutex_ is one action, and each begins with     *)
(* cleanup_expired_locked where the code's does.  Sizes are small integers; *)
(* time is two kinds of tick, the end of the 30 s stream lease and of the   *)
(* 30 min artifact lifetime.                                                *)
(***************************************************************************)
EXTENDS Integers, Sequences, FiniteSets, SequencesExt, FiniteSetsExt, Functions

CONSTANTS Ids,          \* job ids, in the order in which they are drawn
          Keys,         \* what submit compares: owner, source, scope, format
          Clients,      \* HTTP threads that submit
          Readers,      \* downloads
          Sizes,        \* converted sizes, in chunks
          Chunk, MaxOutput, MaxTotal, MinFree, Capacity, MaxQueued,
          Faults,       \* which of the environment's failures happen
          Budget        \* bounds: [submits, cancels, reads, ticks, faults]

VARIABLES jobs,      \* jobs_: the listed JobRecords
          queue,     \* queue_
          disk,      \* sizes of the files of export_root, by job id
          worker,    \* what the worker thread holds
          client,    \* per HTTP thread: the key it is opening the source for
          reader,    \* per download: job, next chunk and progress
          stopping,  \* has the destructor requested the stop?
          drawn,     \* ids drawn so far
          left       \* budgets left

vars == <<jobs, queue, disk, worker, client, reader, stopping, drawn, left>>

Active == {"queued", "running", "ready"}
Terminal == {"ready", "failed", "cancelled"}

NoWork == [at |-> "idle", id |-> 0, written |-> 0, size |-> 0, error |-> "none"]
NoRead == [at |-> "idle", id |-> 0, chunk |-> 0, fresh |-> FALSE]

\* JobRecord, as submit creates it.
NewJob(key) ==
    [key |-> key, state |-> "queued", bytes |-> 0, stop |-> FALSE, streaming |-> FALSE,
     lease |-> "none", completed |-> 0, aged |-> FALSE, named |-> TRUE, signalled |-> FALSE]

Init ==
    /\ jobs = <<>>
    /\ queue = <<>>
    /\ disk = <<>>
    /\ worker = NoWork
    /\ client = [c \in Clients |-> "none"]
    /\ reader = [r \in Readers |-> NoRead]
    /\ stopping = FALSE
    /\ drawn = {}
    /\ left = Budget

Spend(what) == left[what] > 0 /\ left' = [left EXCEPT ![what] = @ - 1]

\* A failure of the environment that this instance includes.
Faulty(kind) == kind \in Faults /\ Spend("faults")

Without(f, ids) == Restrict(f, DOMAIN f \ ids)
Used(files) == MapThenSumSet(LAMBDA i : files[i], DOMAIN files)

-------------------------------------------------------------------------------
\* cleanup_expired_locked

Released(js) ==
    [i \in DOMAIN js |->
        IF js[i].streaming /\ js[i].lease = "over" THEN [js[i] EXCEPT !.streaming = FALSE]
        ELSE js[i]]

Expired(js) ==
    {i \in DOMAIN js : /\ js[i].state \in Terminal /\ js[i].signalled
                       /\ ~js[i].streaming
                       /\ js[i].completed # 0 /\ js[i].aged}

\* The file that is being written has another name until it is published.
Partial(id) == worker.id = id /\ worker.at \in {"open", "write"}

\* The file of an expired job is removed when the record names one.
Doomed(js, gone) == {i \in gone : js[i].named /\ ~Partial(i)}

\* The listed jobs and the files after the clean-up.
Cleaned ==
    LET js == Released(jobs)
        gone == Expired(js)
    IN  [jobs |-> Without(js, gone),
         disk |-> Without(disk, Doomed(js, gone))]

Commit(js, files) == jobs' = js /\ disk' = files

-------------------------------------------------------------------------------
\* prepare_write_locked and evict_locked

Evictable(js, id) ==
    {i \in DOMAIN js : i # id /\ js[i].state = "ready" /\ ~js[i].streaming}

\* The k candidates that were completed first.
Oldest(js, ids, k) ==
    {i \in ids : Cardinality({j \in ids : js[j].completed < js[i].completed}) < k}

ReadyBytes(js, id) ==
    MapThenSumSet(LAMBDA i : js[i].bytes, {i \in DOMAIN js : i # id /\ js[i].state = "ready"})

Evicted(js, ids) ==
    [i \in DOMAIN js |->
        IF i \in ids THEN [js[i] EXCEPT !.state = "failed", !.bytes = 0, !.named = FALSE]
        ELSE js[i]]

Fits(js, files, id, current, more) ==
    LET pending == current + more
    IN  /\ pending <= MaxTotal
        /\ ReadyBytes(js, id) <= MaxTotal - pending
        /\ Capacity - Used(files) >= MinFree + more

\* The oldest ready artifacts go until the write fits; when it never does,
\* StorageFull is thrown with all of them gone.  A removal that fails, here
\* the first, throws StorageFull too.
Room(js, files, id, current, more, failing) ==
    LET candidates == Evictable(js, id)
        after(k) == LET ids == Oldest(js, candidates, k)
                    IN  [jobs |-> Evicted(js, ids), disk |-> Without(files, ids)]
        enough == {k \in 0..Cardinality(candidates) :
                       Fits(after(k).jobs, after(k).disk, id, current, more)}
        k == IF failing THEN 0 ELSE Min(enough \cup {Cardinality(candidates)})
    IN  [ok |-> ~failing /\ enough # {}, jobs |-> after(k).jobs, disk |-> after(k).disk]

\* A removal can fail only where the write needs one.
MayFailToEvict(js, files, id, current, more) ==
    ~Fits(js, files, id, current, more) /\ Evictable(js, id) # {}

-------------------------------------------------------------------------------
\* submit

Duplicate(js, key) == \E i \in DOMAIN js : js[i].key = key /\ js[i].state \in Active

\* The first critical section: an active job of the same key is returned, a
\* full queue is refused, otherwise the source is opened without the lock.
SubmitCheck(c, key) ==
    /\ client[c] = "none" /\ ~stopping
    /\ Spend("submits")
    /\ LET now == Cleaned
       IN  /\ Commit(now.jobs, now.disk)
           /\ client' = IF Duplicate(now.jobs, key) \/ Len(queue) >= MaxQueued THEN client
                        ELSE [client EXCEPT ![c] = key]
    /\ UNCHANGED <<queue, worker, reader, stopping, drawn>>

\* The selected source is absent, unreadable or not a waveform.
SourceFails(c) ==
    /\ client[c] # "none" /\ Faulty("source")
    /\ client' = [client EXCEPT ![c] = "none"]
    /\ UNCHANGED <<jobs, queue, disk, worker, reader, stopping, drawn>>

Fresh == Min(Ids \ drawn)

Refuses(js, key) == Duplicate(js, key) \/ Len(queue) >= MaxQueued

\* The second critical section checks again, makes room and queues the job.
SubmitEnqueue(c) ==
    /\ client[c] # "none" /\ drawn # Ids
    /\ client' = [client EXCEPT ![c] = "none"]
    /\ LET now == Cleaned
       IN  IF Refuses(now.jobs, client[c])
           THEN Commit(now.jobs, now.disk) /\ UNCHANGED <<queue, drawn, left>>
           ELSE \E failing \in BOOLEAN :
                  LET room == Room(now.jobs, now.disk, Fresh, 0, 1, failing)
                  IN  /\ IF failing
                         THEN /\ MayFailToEvict(now.jobs, now.disk, Fresh, 0, 1)
                              /\ Faulty("remove")
                         ELSE UNCHANGED left
                      /\ IF room.ok
                         THEN /\ jobs' = [i \in DOMAIN room.jobs \cup {Fresh} |->
                                             IF i = Fresh THEN NewJob(client[c])
                                             ELSE room.jobs[i]]
                              /\ queue' = Append(queue, Fresh)
                              /\ drawn' = drawn \cup {Fresh}
                         ELSE jobs' = room.jobs /\ UNCHANGED <<queue, drawn>>
                      /\ disk' = room.disk
    /\ UNCHANGED <<worker, reader, stopping>>

-------------------------------------------------------------------------------
\* status, cancel

Status ==
    /\ Cleaned # [jobs |-> jobs, disk |-> disk]
    /\ Commit(Cleaned.jobs, Cleaned.disk)
    /\ UNCHANGED <<queue, worker, client, reader, stopping, drawn, left>>

Stamp(js) == 1 + Max({0} \cup {js[i].completed : i \in DOMAIN js})

\* The terminal state of a job, its time and the completion signal.
Settled(job, state, js) ==
    [job EXCEPT !.state = state, !.completed = Stamp(js), !.aged = FALSE, !.signalled = TRUE]

Unqueued(id) == SelectSeq(queue, LAMBDA i : i # id)

\* cancel of a listed job; the removal of a ready artifact may fail, and
\* nothing is changed then.
Cancel(id) ==
    /\ id \in DOMAIN Cleaned.jobs
    /\ Spend("cancels")
    /\ LET now == Cleaned
           job == now.jobs[id]
       IN  IF job.state = "ready" /\ job.streaming THEN Commit(now.jobs, now.disk) /\ UNCHANGED queue
           ELSE /\ jobs' = [now.jobs EXCEPT ![id] =
                              [Settled(job, "cancelled", now.jobs) EXCEPT
                                  !.stop = @ \/ job.state = "running", !.bytes = 0,
                                  !.named = @ /\ job.state # "ready"]]
                /\ disk' = IF job.state = "ready" /\ job.named THEN Without(now.disk, {id})
                           ELSE now.disk
                /\ queue' = Unqueued(id)
    /\ UNCHANGED <<worker, client, reader, stopping, drawn>>

CancelFails(id) ==
    /\ id \in DOMAIN Cleaned.jobs
    /\ Cleaned.jobs[id].state = "ready" /\ Cleaned.jobs[id].named
    /\ ~Cleaned.jobs[id].streaming
    /\ Faulty("remove")
    /\ Commit(Cleaned.jobs, Cleaned.disk)
    /\ UNCHANGED <<queue, worker, client, reader, stopping, drawn>>

-------------------------------------------------------------------------------
\* read_chunk

\* A variant that does not mark the job as being downloaded.
BegunQuietly(job) == [job EXCEPT !.lease = "running"]

Begun(job) == [job EXCEPT !.streaming = TRUE, !.lease = "running"]

\* The critical section that begins a chunk; a job that is not ready is a
\* conflict and ends the download.
ReadBegin(r, id) ==
    /\ \/ reader[r].at = "idle" /\ Spend("reads")
       \/ reader[r].at = "between" /\ reader[r].id = id /\ UNCHANGED left
    /\ LET now == Cleaned
           found == id \in DOMAIN now.jobs /\ now.jobs[id].state = "ready"
       IN  /\ jobs' = IF found THEN [now.jobs EXCEPT ![id] = Begun(@)] ELSE now.jobs
           /\ disk' = now.disk
           /\ reader' = [reader EXCEPT ![r] =
                           IF found THEN [@ EXCEPT !.at = "chunk", !.id = id, !.fresh = TRUE]
                           ELSE NoRead]
    /\ UNCHANGED <<queue, worker, client, stopping, drawn>>

NotStreaming(id) ==
    IF id \in DOMAIN jobs THEN [jobs EXCEPT ![id].streaming = FALSE] ELSE jobs

\* The file is opened and read without the lock; the last chunk and every
\* failure end the streaming.
ReadEnd(r) ==
    /\ reader[r].at = "chunk"
    /\ LET id == reader[r].id
           next == reader[r].chunk + 1
       IN  IF id \notin DOMAIN disk \/ next * Chunk >= disk[id]
           THEN /\ jobs' = NotStreaming(id)
                /\ reader' = [reader EXCEPT ![r] = NoRead]
           ELSE /\ reader' = [reader EXCEPT ![r].at = "between", ![r].chunk = next]
                /\ UNCHANGED jobs
    /\ UNCHANGED <<queue, disk, worker, client, stopping, drawn, left>>

\* The browser goes away between two chunks: nobody clears the flag.
Abandon(r) ==
    /\ reader[r].at = "between"
    /\ reader' = [reader EXCEPT ![r] = NoRead]
    /\ UNCHANGED <<jobs, queue, disk, worker, client, stopping, drawn, left>>

-------------------------------------------------------------------------------
\* The clocks

LeaseEnds ==
    /\ \E i \in DOMAIN jobs : jobs[i].lease = "running"
    /\ Spend("ticks")
    /\ jobs' = [i \in DOMAIN jobs |->
                  IF jobs[i].lease = "running" THEN [jobs[i] EXCEPT !.lease = "over"] ELSE jobs[i]]
    /\ reader' = [r \in Readers |-> [reader[r] EXCEPT !.fresh = FALSE]]
    /\ UNCHANGED <<queue, disk, worker, client, stopping, drawn>>

LifetimeEnds ==
    /\ \E i \in DOMAIN jobs : jobs[i].completed # 0 /\ ~jobs[i].aged
    /\ Spend("ticks")
    /\ jobs' = [i \in DOMAIN jobs |->
                  [jobs[i] EXCEPT !.aged = jobs[i].completed # 0,
                                  !.lease = IF @ = "running" THEN "over" ELSE @]]
    /\ reader' = [r \in Readers |-> [reader[r] EXCEPT !.fresh = FALSE]]
    /\ UNCHANGED <<queue, disk, worker, client, stopping, drawn>>

-------------------------------------------------------------------------------
\* worker_loop and convert

\* The worker keeps its record alive after the clean-up dropped it from jobs_:
\* only a cancelled job can be dropped while it is being converted.
Dropped == [NewJob("none") EXCEPT !.state = "cancelled", !.stop = TRUE, !.signalled = TRUE]
Record(js) == IF worker.id \in DOMAIN js THEN js[worker.id] ELSE Dropped

Held(js, job) ==
    IF worker.id \in DOMAIN js THEN [js EXCEPT ![worker.id] = job] ELSE js

Take ==
    /\ worker.at = "idle" /\ ~stopping /\ queue # <<>>
    /\ queue' = Tail(queue)
    /\ LET id == Head(queue)
       IN  IF jobs[id].state = "cancelled" THEN UNCHANGED <<jobs, worker>>
           ELSE \E n \in Sizes :
                   /\ jobs' = [jobs EXCEPT ![id].state = "running"]
                   /\ worker' = [NoWork EXCEPT !.at = "open", !.id = id, !.size = n * Chunk]
    /\ UNCHANGED <<disk, client, reader, stopping, drawn, left>>

\* The FileSink: its constructor creates the partial file, its destructor
\* removes it unless it was published.
OpenSink ==
    /\ worker.at = "open"
    /\ \/ /\ disk' = [i \in DOMAIN disk \cup {worker.id} |->
                        IF i = worker.id THEN 0 ELSE disk[i]]
          /\ worker' = [worker EXCEPT !.at = "write"]
          /\ UNCHANGED left
       \/ /\ Faulty("open")
          /\ worker' = [worker EXCEPT !.at = "caught", !.error = "internal"]
          /\ UNCHANGED disk
    /\ UNCHANGED <<jobs, queue, client, reader, stopping, drawn>>

Unwound(error) == [worker EXCEPT !.at = "caught", !.error = error]

\* One write of the converter: FileSink::write with prepare_write_locked.
\* The stop token is looked at between writes.
Write ==
    /\ worker.at = "write" /\ worker.written < worker.size /\ ~Record(jobs).stop
    /\ LET now == Cleaned
           w == worker.written
       IN  IF w + Chunk > MaxOutput
           THEN /\ Commit(now.jobs, Without(now.disk, {worker.id}))
                /\ worker' = Unwound("too large") /\ UNCHANGED left
           ELSE \E failing \in BOOLEAN :
                  LET room == Room(now.jobs, now.disk, worker.id, w, Chunk, failing)
                  IN  /\ IF failing
                         THEN /\ MayFailToEvict(now.jobs, now.disk, worker.id, w, Chunk)
                              /\ Faulty("remove")
                         ELSE UNCHANGED left
                      /\ jobs' = room.jobs
                      /\ IF room.ok
                         THEN /\ disk' = [room.disk EXCEPT ![worker.id] = w + Chunk]
                              /\ worker' = [worker EXCEPT !.written = w + Chunk]
                         ELSE /\ disk' = Without(room.disk, {worker.id})
                              /\ worker' = Unwound("storage full")
    /\ UNCHANGED <<queue, client, reader, stopping, drawn>>

\* The write of the bytes fails, or the converter gives up.
ConversionFails ==
    /\ worker.at = "write"
    /\ \/ Faulty("write") /\ worker' = Unwound("internal")
       \/ Faulty("convert") /\ worker' = Unwound("unsupported")
    /\ disk' = Without(disk, {worker.id})
    /\ UNCHANGED <<jobs, queue, client, reader, stopping, drawn>>

\* The converter, or convert after it, sees the stop request.
Stopped ==
    /\ worker.at = "write" /\ Record(jobs).stop
    /\ worker' = Unwound("cancelled")
    /\ disk' = Without(disk, {worker.id})
    /\ UNCHANGED <<jobs, queue, client, reader, stopping, drawn, left>>

\* The checks of the finished artifact and publish: synchronise, rename,
\* synchronise the directory.  A failure after the rename leaves the file.
Publish ==
    /\ worker.at = "write" /\ worker.written = worker.size /\ ~Record(jobs).stop
    /\ \/ worker' = [worker EXCEPT !.at = "published"] /\ UNCHANGED <<disk, left>>
       \/ Faulty("sync") /\ worker' = Unwound("internal")
          /\ (UNCHANGED disk \/ disk' = Without(disk, {worker.id}))
    /\ UNCHANGED <<jobs, queue, client, reader, stopping, drawn>>

BecomesReady(job) == job.state # "cancelled"

\* The last critical section of a conversion that succeeded.
Finish ==
    /\ worker.at = "published"
    /\ LET job == Record(jobs)
       IN  IF BecomesReady(job)
           THEN /\ jobs' = Held(jobs, [Settled(job, "ready", jobs) EXCEPT !.bytes = worker.size])
                /\ UNCHANGED <<disk, left>>
           ELSE \/ /\ jobs' = Held(jobs, [job EXCEPT !.named = FALSE])
                   /\ disk' = Without(disk, {worker.id})
                   /\ UNCHANGED left
                \/ Faulty("remove") /\ UNCHANGED <<jobs, disk>>
    /\ worker' = NoWork
    /\ UNCHANGED <<queue, client, reader, stopping, drawn>>

\* A variant that leaves the job of a failed conversion running.
CaughtRunning(error) == IF error = "cancelled" THEN "cancelled" ELSE "running"

\* The catch clauses.
Caught(error) == IF error = "cancelled" THEN "cancelled" ELSE "failed"

Catch ==
    /\ worker.at = "caught"
    /\ jobs' = Held(jobs, Settled(Record(jobs), Caught(worker.error), jobs))
    /\ worker' = NoWork
    /\ UNCHANGED <<queue, disk, client, reader, stopping, drawn, left>>

\* The destructor: the worker and every listed job are asked to stop.
Stop ==
    /\ ~stopping
    /\ stopping' = TRUE
    /\ jobs' = [i \in DOMAIN jobs |-> [jobs[i] EXCEPT !.stop = TRUE]]
    /\ UNCHANGED <<queue, disk, worker, client, reader, drawn, left>>

\* worker_loop leaves its loop; the destructor's join returns.
Exit ==
    /\ worker.at = "idle" /\ stopping
    /\ worker' = [NoWork EXCEPT !.at = "exited"]
    /\ UNCHANGED <<jobs, queue, disk, client, reader, stopping, drawn, left>>

Work == Take \/ OpenSink \/ Write \/ ConversionFails \/ Stopped \/ Publish \/ Finish \/ Catch \/ Exit

Next ==
    \/ \E c \in Clients : SourceFails(c) \/ SubmitEnqueue(c) \/ \E k \in Keys : SubmitCheck(c, k)
    \/ Status
    \/ \E i \in Ids : Cancel(i) \/ CancelFails(i)
    \/ \E r \in Readers : ReadEnd(r) \/ Abandon(r) \/ \E i \in DOMAIN jobs : ReadBegin(r, i)
    \/ LeaseEnds \/ LifetimeEnds
    \/ Work
    \/ Stop

\* The worker is a thread that is always scheduled; nothing else need happen.
Fairness == WF_vars(Work)

Spec == Init /\ [][Next]_vars /\ Fairness

-------------------------------------------------------------------------------

TypeOK ==
    /\ DOMAIN jobs \subseteq Ids /\ DOMAIN disk \subseteq Ids /\ drawn \subseteq Ids
    /\ ToSet(queue) \subseteq DOMAIN jobs
    /\ worker.at \in {"idle", "open", "write", "published", "caught", "exited"}
    /\ \A i \in DOMAIN jobs : jobs[i].state \in Active \cup Terminal

\* submit's two checks around the unlocked opening of the source: however two
\* browsers interleave, one source is never exported twice at the same time.
OneActiveJobPerKey ==
    \A i, j \in DOMAIN jobs :
        jobs[i].key = jobs[j].key /\ jobs[i].state \in Active /\ jobs[j].state \in Active
            => i = j

\* prepare_write_locked: all files of the export directory together stay
\* within the quota, the one being written included, and the reserve of the
\* file system is never touched.
StorageWithinPolicy == Used(disk) <= MaxTotal /\ Capacity - Used(disk) >= MinFree

\* convert and cleanup_expired_locked: every file of the export directory
\* belongs to the running conversion or to a listed job that names it, so
\* that the clean-up gets to it.
NoOrphanFile ==
    \A i \in DOMAIN disk :
        \/ worker.id = i
        \/ i \in DOMAIN jobs /\ jobs[i].named /\ jobs[i].state \in Terminal

\* read_chunk and waveform_routes.cpp line 1169: between two chunks of a
\* download whose lease runs, the artifact is neither evicted, discarded nor
\* expired.
StreamedArtifactKept ==
    \A r \in Readers :
        reader[r].at = "between" /\ reader[r].fresh =>
            /\ reader[r].id \in DOMAIN jobs /\ reader[r].id \in DOMAIN disk
            /\ jobs[reader[r].id].state = "ready"

\* worker_loop: a queued job does not stay queued, and the conversion of a
\* running one ends, unless the backend is shut down.
QueuedJobsSettle ==
    \A i \in Ids :
        (i \in DOMAIN jobs /\ jobs[i].state \in {"queued", "running"})
            ~> (stopping \/ i \notin DOMAIN jobs \/ jobs[i].state \in Terminal)

\* The destructor: its join returns, whatever the worker was doing.
ShutdownReturns == stopping ~> worker.at = "exited"
=============================================================================
