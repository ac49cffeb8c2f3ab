--------------------------- MODULE WaveformArchive ---------------------------
(***************************************************************************)
(* The archive of waveform captures on disk: the main thread that numbers  *)
(* captures, queues their writes, deletes files for a user and merges what *)
(* the background threads report; the scanner thread that restores the     *)
(* captures of earlier runs (begin_persisted_session_discovery,            *)
(* discover_persisted_sessions, collect_discovery_results); and the writer *)
(* thread that writes one capture at a time and keeps the directory within *)
(* its limit (AsyncWriter).                                                *)
(*                                                                         *)
(* The three share a directory and nothing else guards it.  The frames of  *)
(* a capture and the events it holds are WaveformHistory's; here a session *)
(* is its number, its state and its file.  The service may stop in order,  *)
(* which drains the writer, or crash, which leaves a temporary file.       *)
(***************************************************************************)
EXTENDS Naturals, Sequences, FiniteSets, FiniteSetsExt, SequencesExt

CONSTANTS
    MaxId,        \* session numbers are 1..MaxId
    Leftover,       \* the files an earlier run left: [1..n -> [health, bytes, born]]
    Bytes,        \* the size of a new capture's file
    Limits,       \* the values of archive_limit_bytes
    Faults,       \* subset of {"write", "rename"}: file operations that may fail
    MaxFaults,    \* failures of file operations
    MaxErasures,  \* sessions a user deletes
    MaxCrashes,   \* crashes and orderly restarts
    MaxLimits     \* changes of the limit

VARIABLES
    dir,       \* the .mncwf files: session number -> [health, bytes, born]
    stale,     \* bytes of temporary files no write will finish
    running,   \* fd_ >= 0
    stopping,  \* the destructor has begun
    sessions,  \* sessions_: number -> state
    nextId,    \* next_session_id_
    limit,     \* archive_limit_bytes_
    scan,      \* the discovery: its state, the files left to read, the result
    jobs,      \* AsyncWriter::jobs
    results,   \* AsyncWriter::results
    writer,    \* the job in hand and how far its retention pass has got
    left       \* the budgets of the bounded model

main == <<running, stopping, sessions, nextId, limit>>
vars == <<dir, stale, main, scan, jobs, results, writer, left>>

Ids == 1..MaxId

(***************************************************************************)
(* What a reader makes of a file.  "damaged" has sound metadata and        *)
(* samples that fail full validation; "legacy" is a v1 to v3 file, which   *)
(* discovery lists and MncwfV4Reader refuses.                              *)
(***************************************************************************)
Healths == {"sound", "damaged", "legacy", "malformed"}
Listed == {"sound", "damaged", "legacy"}
Candidate == {"sound", "damaged"}

File == [health : Healths, bytes : Nat, born : Nat]

Total(D) == MapThenSumSet(LAMBDA f : D[f].bytes, DOMAIN D)
Without(F, S) == [x \in DOMAIN F \ S |-> F[x]]
With(F, x, v) == [y \in DOMAIN F \cup {x} |-> IF y = x THEN v ELSE F[y]]

(* candidates in the order of enforce_retention: creation time, then number *)
OlderThan(D, f, g) ==
    \/ D[f].born < D[g].born
    \/ D[f].born = D[g].born /\ f < g

NoJob == [id |-> 0, limit |-> 0]
Idle == [pc |-> "idle", job |-> NoJob, temp |-> 0, todo |-> {}, bytes |-> 0,
         found |-> <<>>, order |-> <<>>, proved |-> {}, expired |-> {}]
NotScanned == [state |-> "not_started", files |-> {}, restored |-> {},
               ready |-> FALSE, collected |-> FALSE]

TypeOK ==
    /\ DOMAIN dir \subseteq Ids
    /\ \A f \in DOMAIN dir : dir[f] \in File
    /\ stale \in Nat
    /\ {running, stopping} \subseteq BOOLEAN
    /\ DOMAIN sessions \subseteq Ids
    /\ \A i \in DOMAIN sessions :
          sessions[i] \in {"capturing", "queued", "complete", "incomplete"}
    /\ nextId \in 1..(MaxId + 1)
    /\ limit \in Limits
    /\ scan.state \in {"not_started", "scanning", "complete", "cancelled"}
    /\ scan.files \subseteq Ids /\ scan.restored \subseteq Ids
    /\ \A k \in DOMAIN jobs : jobs[k].id \in Ids \cup {0}
    /\ \A k \in DOMAIN results : results[k].expired \subseteq Ids
    /\ writer.pc \in {"idle", "taken", "measure", "prove", "remove", "more",
                      "commit", "give_up"}

Init ==
    /\ dir = Leftover
    /\ stale = 0
    /\ running = FALSE /\ stopping = FALSE
    /\ sessions = <<>>
    /\ nextId = 1
    /\ limit \in Limits
    /\ scan = NotScanned
    /\ jobs = <<>> /\ results = <<>>
    /\ writer = Idle
    /\ left = [faults |-> MaxFaults, erasures |-> MaxErasures,
               crashes |-> MaxCrashes, limits |-> MaxLimits]

-----------------------------------------------------------------------------
(* The main thread: starting.                                              *)

(* next_session_id_ after the listing: above every number in a file name *)
Reserved(D, n) == Max({n} \cup {f + 1 : f \in DOMAIN D})

Listing ==
    [state |-> IF dir = <<>> THEN "complete" ELSE "scanning",
     files |-> DOMAIN dir, restored |-> {}, ready |-> dir = <<>>, collected |-> FALSE]

Abandoned(S) ==
    [i \in DOMAIN S |-> IF S[i] = "capturing" THEN "incomplete" ELSE S[i]]

(* start(): the directory is listed once in the life of the object *)
Start ==
    /\ ~running /\ ~stopping
    /\ running' = TRUE
    /\ sessions' = Abandoned(sessions)
    /\ IF scan.state = "not_started"
       THEN nextId' = Reserved(dir, nextId) /\ scan' = Listing
       ELSE UNCHANGED <<nextId, scan>>
    /\ UNCHANGED <<dir, stale, stopping, limit, jobs, results, writer, left>>

-----------------------------------------------------------------------------
(* The main thread: merging what the background threads report.            *)

RetentionJob == [id |-> 0, limit |-> limit]

Mergeable == scan.ready /\ ~scan.collected

(* the captures of earlier runs join the sessions, unless their number is taken *)
Merged(S) ==
    IF Mergeable
    THEN [i \in DOMAIN S \cup scan.restored |->
             IF i \in DOMAIN S THEN S[i] ELSE "complete"]
    ELSE S

(* the scan after collect_discovery_results, and the startup retention it queues *)
ScanMerged ==
    IF Mergeable
    THEN [scan EXCEPT !.state = "complete", !.collected = TRUE, !.restored = {}]
    ELSE scan

JobsMerged == IF Mergeable THEN Append(jobs, RetentionJob) ELSE jobs

(* one result: expired sessions go, then the session written gets its state *)
Applied(S, r) ==
    LET kept == Without(S, r.expired)
    IN  IF r.id \in DOMAIN kept
        THEN [kept EXCEPT ![r.id] = IF r.ok THEN "complete" ELSE "incomplete"]
        ELSE kept

Collected(S) == FoldLeft(Applied, S, results)

(* read_available and the triggers collect the writer's results only *)
Read ==
    /\ running /\ ~stopping
    /\ results # <<>>
    /\ sessions' = Collected(sessions)
    /\ results' = <<>>
    /\ UNCHANGED <<dir, stale, running, stopping, nextId, limit, scan, jobs, writer,
                   left>>

(* status, session_page and find_session collect the discovery first *)
Query ==
    /\ ~stopping
    /\ Mergeable \/ results # <<>>
    /\ sessions' = Collected(Merged(sessions))
    /\ scan' = ScanMerged
    /\ jobs' = JobsMerged
    /\ results' = <<>>
    /\ UNCHANGED <<dir, stale, running, stopping, nextId, limit, writer, left>>

-----------------------------------------------------------------------------
(* The main thread: captures, deletions, the limit, the end.               *)

Trigger ==
    /\ running /\ ~stopping
    /\ nextId <= MaxId
    /\ sessions' = With(Collected(sessions), nextId, "capturing")
    /\ nextId' = nextId + 1
    /\ results' = <<>>
    /\ UNCHANGED <<dir, stale, running, stopping, limit, scan, jobs, writer, left>>

(* the window of a capture is complete: enqueue_materialization *)
Materialize(i) ==
    /\ running /\ ~stopping
    /\ i \in DOMAIN sessions /\ sessions[i] = "capturing"
    /\ sessions' = [sessions EXCEPT ![i] = "queued"]
    /\ jobs' = Append(jobs, [id |-> i, limit |-> limit])
    /\ UNCHANGED <<dir, stale, running, stopping, nextId, limit, scan, results, writer,
                   left>>

Erasable(S, i) == i \in DOMAIN S /\ S[i] \in {"complete", "incomplete"}

Erase(i) ==
    LET S == Collected(Merged(sessions))
    IN  /\ ~stopping
        /\ left.erasures > 0
        /\ Erasable(S, i)
        /\ sessions' = Without(S, {i})
        /\ dir' = IF S[i] = "complete" THEN Without(dir, {i}) ELSE dir
        /\ scan' = ScanMerged
        /\ jobs' = JobsMerged
        /\ results' = <<>>
        /\ left' = [left EXCEPT !.erasures = @ - 1]
        /\ UNCHANGED <<stale, running, stopping, nextId, limit, writer>>

(* set_archive_limit_gib: a pass of its own only once the archive is known *)
SetLimit(n) ==
    /\ ~stopping
    /\ left.limits > 0
    /\ n # limit
    /\ limit' = n
    /\ jobs' = IF running /\ scan.state = "complete"
               THEN Append(jobs, [id |-> 0, limit |-> n]) ELSE jobs
    /\ left' = [left EXCEPT !.limits = @ - 1]
    /\ UNCHANGED <<dir, stale, running, stopping, sessions, nextId, scan, results, writer>>

(* stop(): the acquisition stops and may start again *)
Stop ==
    /\ running /\ ~stopping
    /\ running' = FALSE
    /\ sessions' = Abandoned(Collected(sessions))
    /\ results' = <<>>
    /\ UNCHANGED <<dir, stale, stopping, nextId, limit, scan, jobs, writer, left>>

(* ~WaveformCapture begins: stop(), then the scanner and the writer are joined *)
Shutdown ==
    /\ ~stopping
    /\ left.crashes > 0
    /\ stopping' = TRUE
    /\ running' = FALSE
    /\ sessions' = Abandoned(Collected(sessions))
    /\ results' = <<>>
    /\ left' = [left EXCEPT !.crashes = @ - 1]
    /\ UNCHANGED <<dir, stale, nextId, limit, scan, jobs, writer>>

Fresh ==
    /\ running' = FALSE /\ stopping' = FALSE
    /\ sessions' = <<>>
    /\ nextId' = 1
    /\ scan' = NotScanned
    /\ jobs' = <<>> /\ results' = <<>>
    /\ writer' = Idle
    /\ UNCHANGED <<dir, limit>>

(* AsyncWriter::run returns only when it is told to stop and has no job *)
Restart ==
    /\ stopping
    /\ scan.state # "scanning" \/ scan.ready
    /\ writer = Idle /\ jobs = <<>>
    /\ stale' = stale
    /\ left' = left
    /\ Fresh

Crash ==
    /\ left.crashes > 0
    /\ stale' = stale + writer.temp
    /\ left' = [left EXCEPT !.crashes = @ - 1]
    /\ Fresh

-----------------------------------------------------------------------------
(* The scanner thread.                                                     *)

(* one file: listed when its metadata can be read, hidden when it cannot *)
ScanFile(f) ==
    /\ scan.state = "scanning" /\ ~scan.ready
    /\ ~stopping
    /\ f \in scan.files /\ \A g \in scan.files : f <= g
    /\ scan' = [scan EXCEPT !.files = @ \ {f},
                            !.restored = IF f \in DOMAIN dir /\ dir[f].health \in Listed
                                         THEN @ \cup {f} ELSE @]
    /\ UNCHANGED <<dir, stale, main, jobs, results, writer, left>>

(* A variant that declares the discovery complete when the last file is read. *)
ScanEndsComplete ==
    /\ scan.state = "scanning" /\ ~scan.ready
    /\ stopping \/ scan.files = {}
    /\ scan' = IF stopping THEN [scan EXCEPT !.state = "cancelled"]
               ELSE [scan EXCEPT !.ready = TRUE, !.state = "complete"]
    /\ UNCHANGED <<dir, stale, main, jobs, results, writer, left>>

ScanEnds ==
    /\ scan.state = "scanning" /\ ~scan.ready
    /\ stopping \/ scan.files = {}
    /\ scan' = IF stopping THEN [scan EXCEPT !.state = "cancelled"]
               ELSE [scan EXCEPT !.ready = TRUE]
    /\ UNCHANGED <<dir, stale, main, jobs, results, writer, left>>

-----------------------------------------------------------------------------
(* The writer thread.                                                      *)

WriterOnly == UNCHANGED <<main, scan>>

Failing(kind) == kind \in Faults /\ left.faults > 0
Charged == left' = [left EXCEPT !.faults = @ - 1]

(* the directory iterator lists the names as the pass begins *)
Measuring(j, temp) ==
    [Idle EXCEPT !.pc = "measure", !.job = j, !.temp = temp, !.todo = DOMAIN dir,
                 !.bytes = temp + stale]

Take ==
    /\ writer.pc = "idle"
    /\ jobs # <<>>
    /\ jobs' = Tail(jobs)
    /\ writer' = IF Head(jobs).id = 0 THEN Measuring(Head(jobs), 0)
                 ELSE [Idle EXCEPT !.pc = "taken", !.job = Head(jobs)]
    /\ WriterOnly /\ UNCHANGED <<dir, stale, results, left>>

(* the temporary file is encoded, written, closed and read back in full *)
WriteTemp ==
    /\ writer.pc = "taken"
    /\ writer' = Measuring(writer.job, Bytes)
    /\ WriterOnly /\ UNCHANGED <<dir, stale, jobs, results, left>>

WriteFails ==
    /\ writer.pc = "taken"
    /\ Failing("write") /\ Charged
    /\ writer' = [writer EXCEPT !.pc = "give_up"]
    /\ WriterOnly /\ UNCHANGED <<dir, stale, jobs, results>>

(* every file counts against the limit; those with readable metadata are candidates *)
Measured(f, w) ==
    [w EXCEPT !.todo = @ \ {f}, !.bytes = @ + dir[f].bytes,
              !.found = IF dir[f].health \in Candidate THEN Append(@, f) ELSE @]

Measure(f) ==
    /\ writer.pc = "measure"
    /\ f \in writer.todo /\ f \in DOMAIN dir
    /\ \A g \in writer.todo : f <= g
    /\ writer' = Measured(f, writer)
    /\ WriterOnly /\ UNCHANGED <<dir, stale, jobs, results, left>>

(* a user deleted the file after the listing: the iterator may no longer see it, *)
(* or it names a file whose size cannot be read any more                         *)
Vanished(f) ==
    /\ writer.pc = "measure"
    /\ f \in writer.todo /\ f \notin DOMAIN dir
    /\ \A g \in writer.todo : f <= g
    /\ \/ writer' = [writer EXCEPT !.todo = @ \ {f}]
       \/ writer' = [writer EXCEPT !.pc = "give_up"]
    /\ WriterOnly /\ UNCHANGED <<dir, stale, jobs, results, left>>

Sorted(s) ==
    SetToSortSeq({[f |-> f, d |-> dir[f]] : f \in Range(s) \cap DOMAIN dir},
                 LAMBDA a, b : \/ a.d.born < b.d.born
                               \/ a.d.born = b.d.born /\ a.f < b.f)

(* A variant whose safety proof reads the metadata only. *)
ValidatesMetadata(c) == c.f \in DOMAIN dir /\ c.d.health \in Candidate

(* MncwfV4Reader in its complete mode accepts the candidate *)
Validates(c) == c.f \in DOMAIN dir /\ c.d.health = "sound"

(* bytes the validated ones among the first n candidates would give back *)
Reclaimable(s, n) ==
    MapThenSumSet(LAMBDA k : s[k].d.bytes, {k \in 1..n : Validates(s[k])})

Within == writer.bytes <= writer.job.limit

(* the candidates of the safety proof: the shortest prefix that would do *)
Prove ==
    /\ writer.pc = "measure" /\ writer.todo = {}
    /\ ~Within
    /\ LET s == Sorted(writer.found)
           need == writer.bytes - writer.job.limit
           enough == {n \in 0..Len(s) : Reclaimable(s, n) >= need}
       IN  writer' = IF enough = {} THEN [writer EXCEPT !.pc = "give_up"]
                     ELSE [writer EXCEPT !.pc = "remove", !.order = s,
                              !.proved = {k \in 1..Min(enough) : Validates(s[k])},
                              !.found = SubSeq(@, 1, Min(enough))]
    /\ WriterOnly /\ UNCHANGED <<dir, stale, jobs, results, left>>

WithinAtOnce ==
    /\ writer.pc = "measure" /\ writer.todo = {}
    /\ Within
    /\ writer' = [writer EXCEPT !.pc = "commit"]
    /\ WriterOnly /\ UNCHANGED <<dir, stale, jobs, results, left>>

(* the candidate goes, unless someone was faster *)
Expire(c, w) ==
    IF c.f \in DOMAIN dir
    THEN /\ dir' = Without(dir, {c.f})
         /\ writer' = [w EXCEPT !.bytes = @ - c.d.bytes, !.expired = @ \cup {c.f}]
    ELSE dir' = dir /\ writer' = w

RemoveProved ==
    /\ writer.pc = "remove"
    /\ writer.proved # {} /\ ~Within
    /\ LET k == Min(writer.proved)
       IN  Expire(writer.order[k], [writer EXCEPT !.proved = @ \ {k}])
    /\ WriterOnly /\ UNCHANGED <<stale, jobs, results, left>>

RemoveDone ==
    /\ writer.pc = "remove"
    /\ writer.proved = {} \/ Within
    /\ writer' = [writer EXCEPT !.pc = "more",
                     !.order = SubSeq(@, Len(writer.found) + 1, Len(@))]
    /\ WriterOnly /\ UNCHANGED <<dir, stale, jobs, results, left>>

(* candidates outside the proof, each validated before it goes *)
RemoveMore ==
    /\ writer.pc = "more"
    /\ writer.order # <<>> /\ ~Within
    /\ LET c == Head(writer.order)
           w == [writer EXCEPT !.order = Tail(@)]
       IN  IF Validates(c) THEN Expire(c, w) ELSE dir' = dir /\ writer' = w
    /\ WriterOnly /\ UNCHANGED <<stale, jobs, results, left>>

MoreDone ==
    /\ writer.pc = "more"
    /\ writer.order = <<>> \/ Within
    /\ writer' = [writer EXCEPT !.pc = IF Within THEN "commit" ELSE "give_up"]
    /\ WriterOnly /\ UNCHANGED <<dir, stale, jobs, results, left>>

Result(ok) == [id |-> writer.job.id, ok |-> ok, expired |-> writer.expired]

(* the rename makes the capture a file of the archive; a retention job has none *)
Commit ==
    /\ writer.pc = "commit"
    /\ dir' = IF writer.job.id = 0 THEN dir
              ELSE With(dir, writer.job.id,
                        [health |-> "sound", bytes |-> Bytes, born |-> writer.job.id + 10])
    /\ results' = Append(results, Result(TRUE))
    /\ writer' = Idle
    /\ WriterOnly /\ UNCHANGED <<stale, jobs, left>>

RenameFails ==
    /\ writer.pc = "commit" /\ writer.job.id # 0
    /\ Failing("rename") /\ Charged
    /\ writer' = [writer EXCEPT !.pc = "give_up"]
    /\ WriterOnly /\ UNCHANGED <<dir, stale, jobs, results>>

(* the temporary file is removed and the failure reported *)
GiveUp ==
    /\ writer.pc = "give_up"
    /\ results' = Append(results, Result(FALSE))
    /\ writer' = Idle
    /\ WriterOnly /\ UNCHANGED <<dir, stale, jobs, left>>

-----------------------------------------------------------------------------
Writer ==
    \/ Take \/ WriteTemp \/ WriteFails
    \/ \E f \in Ids : Measure(f) \/ Vanished(f)
    \/ Prove \/ WithinAtOnce \/ RemoveProved \/ RemoveDone \/ RemoveMore \/ MoreDone
    \/ Commit \/ RenameFails \/ GiveUp

Scanner == ScanEnds \/ \E f \in Ids : ScanFile(f)

Main ==
    \/ Start \/ Stop \/ Read \/ Query \/ Trigger
    \/ \E i \in Ids : Materialize(i) \/ Erase(i)
    \/ \E n \in Limits : SetLimit(n)

Next == Main \/ Scanner \/ Writer \/ Shutdown \/ Restart \/ Crash

Spec == Init /\ [][Next]_vars

(* both threads keep running while the process does, and so does the poll loop *)
Fairness == WF_vars(Writer) /\ WF_vars(Scanner) /\ WF_vars(Read)

-----------------------------------------------------------------------------
(* No new capture gets the number of a file already in the archive,        *)
(* readable or not: a capture created during discovery cannot collide      *)
(* (begin_persisted_session_discovery).                                    *)
NumbersFresh ==
    scan.state # "not_started" =>
        \A i \in DOMAIN dir \cup DOMAIN sessions \cup scan.restored : i < nextId

(* Once the discovery says it is complete, every file that can be listed   *)
(* belongs to a session: a clear operation that walks the sessions leaves  *)
(* no unseen capture behind.                                               *)
ClearSeesAll ==
    (scan.state = "complete" /\ ~stopping) =>
        \A f \in DOMAIN dir : dir[f].health \in Listed => f \in DOMAIN sessions

(* Retention deletes only files that pass full validation, however the     *)
(* deletions of a user, the merge of the discovery and crashes interleave. *)
OnlySoundExpire ==
    [][\A f \in (DOMAIN dir \ DOMAIN dir') \cap writer'.expired :
          dir[f].health = "sound"]_vars

(* A retention pass deletes nothing younger than a sound file it keeps.    *)
OldestFirst ==
    [][\A f \in (DOMAIN dir \ DOMAIN dir') \cap writer'.expired :
          \A g \in DOMAIN dir' : dir[g].health = "sound" => OlderThan(dir, f, g)]_vars

(* A capture joins the archive only if the archive then fits the limit the *)
(* job was queued with, unreadable and temporary files included.           *)
CommitFits ==
    [][\A f \in DOMAIN dir' \ DOMAIN dir :
          Total(dir') + stale <= writer.job.limit]_vars

(* A retention pass stops deleting as soon as what it measured fits.       *)
NoMoreThanNeeded ==
    [][\A f \in writer'.expired \ writer.expired :
          writer.bytes > writer.job.limit]_vars

(* A session that is being written is neither listed as complete nor       *)
(* deleted, and it is never lost: its job or its result is on the way.     *)
QueuedIsPending ==
    \A i \in DOMAIN sessions : sessions[i] = "queued" =>
        \/ \E k \in DOMAIN jobs : jobs[k].id = i
        \/ writer.pc # "idle" /\ writer.job.id = i
        \/ \E k \in DOMAIN results : results[k].id = i

(* The same, for the captures of this run of the service.                  *)
OwnCompleteHasFile ==
    \A i \in DOMAIN sessions : (sessions[i] = "complete" /\ ~stopping) =>
        \/ i \in DOMAIN dir
        \/ i \in DOMAIN Leftover
        \/ i \in writer.expired
        \/ \E k \in DOMAIN results : i \in results[k].expired

(* A capture whose window is complete is eventually written or given up,   *)
(* while the service runs.                                                 *)
WritesEnd ==
    \A i \in Ids : (i \in DOMAIN sessions /\ sessions[i] = "queued") ~>
        (~running \/ i \notin DOMAIN sessions \/ sessions[i] # "queued")

(* An orderly shutdown ends: the writer drains its queue and the scanner   *)
(* notices the request.                                                    *)
ShutdownEnds ==
    stopping ~> (writer = Idle /\ jobs = <<>>
                 /\ (scan.state # "scanning" \/ scan.ready))
=============================================================================
