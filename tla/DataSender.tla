------------------------------ MODULE DataSender ------------------------------
(***************************************************************************)
(* The Data Sender: the engine of scheduler.cpp and the threads of          *)
(* data_sender_service.cpp around one outbox.  One thread generates, a few  *)
(* deliver, the main thread applies settings, a client of the service       *)
(* retries and erases.  The process may stop at any step and starts again.  *)
(* A configuration is [jobs: job -> [rev, on, channels, local], channels,   *)
(* ready, enabled]; "ready" are the channels with everything they need.     *)
(* Time is counted in generation intervals.                                 *)
(***************************************************************************)
EXTENDS Naturals, Sequences, FiniteSets, Functions

(***************************************************************************)
(* outbox_repository.cpp: the durable state of the Data Sender and its      *)
(* operations.  A state o has                                               *)
(*   man   the table artifacts: id -> manifest                              *)
(*   del   the table deliveries: <<id, channel>> -> row                     *)
(*   file  payload files: id -> [local, stamp]                              *)
(*   mark  the table job_watermarks: job -> [rev, through]                  *)
(* An id is <<job, revision, window>>, the artifact ID and the file name;   *)
(* a stamp stands for the content and its checksum.  Every method holds the *)
(* mutex of the repository, so it is one step for the other threads; an     *)
(* operation that writes in several places has one outcome [o, res] for     *)
(* every place where it can fail, and those are also the states a crash in  *)
(* the middle of it leaves on disk.                                         *)
(***************************************************************************)

CONSTANTS MaxPayloads,  \* maximum_bytes, in payloads
          Retention     \* completed_metadata_retention

Empty == [man |-> <<>>, del |-> <<>>, file |-> <<>>, mark |-> <<>>]

Final == {"succeeded", "discarded"}

Put(f, key, value) == [k \in DOMAIN f \cup {key} |-> IF k = key THEN value ELSE f[k]]
Drop(f, keys) == Restrict(f, DOMAIN f \ keys)

Rows(o, id) == {r \in DOMAIN o.del : r[1] = id}
InState(o, id, states) == {r \in Rows(o, id) : o.del[r].state \in states}
Unfinished(o, id) == Rows(o, id) \ InState(o, id, Final)
Known(o, id) == id \in DOMAIN o.man /\ ~o.man[id].deleting
AllSucceeded(o, id) == Rows(o, id) # {} /\ Rows(o, id) = InState(o, id, {"succeeded"})

Outcome(o, res) == [o |-> o, res |-> res]

-----------------------------------------------------------------------------
(* enqueue.                                                                 *)

Row(state, next, last) == [state |-> state, next |-> next, last |-> last]

Manifest(window, stamp, local, error) ==
    [window |-> window, stamp |-> stamp, local |-> local, present |-> TRUE,
     error |-> error, deleting |-> FALSE]

\* storage_status: the quota over both directories.
Full(o) == Cardinality(DOMAIN o.file) >= MaxPayloads

\* The manifest of the same artifact: same content, window and revision.
SameManifest(o, id, stamp) ==
    o.man[id].stamp = stamp /\ o.man[id].window = id[3]

Written(o, id, stamp, local) ==
    [o EXCEPT !.file = Put(@, id, [local |-> local, stamp |-> stamp])]

\* The transaction: the manifest and one row for every channel.
Inserted(o, id, stamp, channels, local) ==
    [o EXCEPT !.man = Put(@, id, Manifest(id[3], stamp, local, "")),
              !.del = [r \in DOMAIN @ \cup ({id} \X channels) |->
                          IF r \in DOMAIN @ THEN @[r] ELSE Row("pending", 0, 0)]]

\* The file first, then the rows; the file stays when the rows fail.
Enqueue(o, id, stamp, channels, local) ==
    IF id \in DOMAIN o.man
    THEN {Outcome(o, IF SameManifest(o, id, stamp) THEN "ok" ELSE "refused")}
    ELSE IF Full(o) \/ id \in DOMAIN o.file THEN {Outcome(o, "refused")}
    ELSE LET written == Written(o, id, stamp, local) IN
         {Outcome(Inserted(written, id, stamp, channels, local), "ok"),
          Outcome(o, "failed"), Outcome(written, "failed")}

-----------------------------------------------------------------------------
(* claim_due, content.                                                      *)

Claimable(o, now) ==
    {r \in DOMAIN o.del :
        /\ o.man[r[1]].present /\ ~o.man[r[1]].deleting
        /\ o.del[r].state \in {"pending", "retry", "inflight"}
        /\ o.del[r].next <= now}

\* ORDER BY next_attempt_ns; the order of ids is left open.
First(o, now) ==
    {r \in Claimable(o, now) :
        \A q \in Claimable(o, now) : o.del[r].next <= o.del[q].next}

Claimed(o, r, until) ==
    [o EXCEPT !.del[r].state = "inflight", !.del[r].next = until]

\* content(): what the caller gets to see.
Content(o, id) ==
    CASE ~Known(o, id) -> "unknown"
      [] Known(o, id) /\ ~o.man[id].present -> "unavailable"
      [] Known(o, id) /\ o.man[id].present ->
           IF id \in DOMAIN o.file /\ o.file[id].stamp = o.man[id].stamp
           THEN "ok" ELSE "unavailable"

-----------------------------------------------------------------------------
(* record_result, with finalize_completed_locked and prune_completed_locked. *)

\* The payload of an artifact with a row for every channel, all succeeded.
Complete(o, id) == AllSucceeded(o, id)

\* The file is removed, then the row is updated; either may fail, the first
\* silently.
Finalize(o, id) ==
    IF ~Known(o, id) \/ o.man[id].local \/ ~o.man[id].present \/ ~Complete(o, id)
    THEN {Outcome(o, "ok")}
    ELSE LET removed == [o EXCEPT !.file = Drop(@, {id})] IN
         {Outcome([removed EXCEPT !.man[id].present = FALSE], "ok"),
          Outcome(o, "kept"), Outcome(removed, "failed")}

LastAttempt(o, id) ==
    CHOOSE t \in {o.del[r].last : r \in Rows(o, id)} :
        \A r \in Rows(o, id) : o.del[r].last <= t

Expired(o, id, now) ==
    /\ Known(o, id) /\ ~o.man[id].local /\ ~o.man[id].present
    /\ AllSucceeded(o, id)
    /\ LastAttempt(o, id) > 0 /\ LastAttempt(o, id) + Retention <= now

Delete(o, ids) ==
    [o EXCEPT !.man = Drop(@, ids),
              !.del = Restrict(@, {r \in DOMAIN @ : r[1] \notin ids})]

Prune(o, now) ==
    IF now <= Retention THEN o
    ELSE Delete(o, {id \in DOMAIN o.man : Expired(o, id, now)})

\* The row exists and is not final.
OpenRow(o, r) == r \in DOMAIN o.del /\ o.del[r].state \notin Final

NewState(disposition) ==
    CASE disposition = "succeeded" -> "succeeded"
      [] disposition = "retryable" -> "retry"
      [] disposition = "blocked" -> "blocked"

RecordResult(o, r, disposition, now, next) ==
    IF ~OpenRow(o, r) THEN {Outcome(o, "unknown")}
    ELSE LET state == NewState(disposition)
             recorded == [o EXCEPT !.del[r] =
                 Row(state, IF state = "retry" THEN next ELSE 0, now)] IN
         {IF f.res = "failed" THEN f ELSE Outcome(Prune(f.o, now), f.res) :
             f \in Finalize(recorded, r[1])}

-----------------------------------------------------------------------------
(* retry, retry_channel, erase, validate_channels, watermarks.              *)

Reset(o, rows, now) ==
    [o EXCEPT !.del = [r \in DOMAIN @ |-> IF r \in rows
                                          THEN [@[r] EXCEPT !.state = "pending", !.next = now]
                                          ELSE @[r]]]

Retry(o, id, now) == Reset(o, InState(o, id, {"pending", "retry", "blocked"}), now)

\* retry_channel, for each of the channels.
RetryChannel(o, channels, now) ==
    Reset(o, {r \in DOMAIN o.del : r[2] \in channels /\ o.del[r].state = "blocked"}, now)

\* Rows that are not final, or a recovered payload without rows.
Unsent(o, id) == Unfinished(o, id) # {} \/ (~o.man[id].local /\ Rows(o, id) = {})

Discarded(o, id) ==
    [o EXCEPT !.man[id].deleting = TRUE,
              !.del = [r \in DOMAIN @ |-> IF r \in Unfinished(o, id)
                                          THEN Row("discarded", 0, @[r].last) ELSE @[r]]]

\* The mark is committed, then the file removed, then the rows deleted.
Erase(o, id, confirmed) ==
    IF ~Known(o, id) \/ (Unsent(o, id) /\ ~confirmed) THEN {Outcome(o, "refused")}
    ELSE LET marked == Discarded(o, id)
             removed == [marked EXCEPT !.file = IF o.man[id].present
                                                THEN Drop(@, {id}) ELSE @] IN
         {Outcome(Delete(removed, {id}), "ok"),
          Outcome(marked, "failed"), Outcome(removed, "failed")}

\* validate_channels: no channel that an open row names is missing.
ChannelsAvailable(o, channels) ==
    \A r \in DOMAIN o.del :
        (Known(o, r[1]) /\ o.del[r].state \notin Final) => r[2] \in channels

StoreWatermark(o, job, rev, through) ==
    [o EXCEPT !.mark = Put(@, job, [rev |-> rev, through |-> through])]

-----------------------------------------------------------------------------
(* initialize: finish_pending_deletions_locked, recover_locked.             *)

\* A removal that fails is ignored: the file then becomes an orphan.
FinishDeletions(o, kept) ==
    LET ids == {id \in DOMAIN o.man : o.man[id].deleting} IN
    Delete([o EXCEPT !.file = Drop(@, {id \in ids : o.man[id].present} \ kept)], ids)

Block(o, id, error) ==
    [o EXCEPT !.man[id].error = error,
              !.del = [r \in DOMAIN @ |-> IF r \in Unfinished(o, id)
                                          THEN [@[r] EXCEPT !.state = "blocked"] ELSE @[r]]]

\* A variant that takes a missing payload for a delivered one.
MissingDelivered(o, id) ==
    [o EXCEPT !.man[id].present = FALSE,
              !.del = [r \in DOMAIN @ |-> IF r[1] = id
                                          THEN [@[r] EXCEPT !.state = "succeeded"] ELSE @[r]]]

\* The payload is missing: a delivered one is complete, another is blocked.
Missing(o, id) ==
    IF ~o.man[id].local /\ AllSucceeded(o, id)
    THEN [o EXCEPT !.man[id].present = FALSE, !.man[id].error = ""]
    ELSE IF o.man[id].present
    THEN [Block(o, id, "missing") EXCEPT !.man[id].present = FALSE]
    ELSE o

\* One manifest; size, read and checksum errors are one error here.
Reconcile(o, id) ==
    IF id \notin DOMAIN o.file THEN Missing(o, id)
    ELSE IF o.file[id].stamp # o.man[id].stamp THEN Block(o, id, "damaged")
    ELSE IF ~o.man[id].local /\ o.man[id].present /\ Complete(o, id)
    THEN [o EXCEPT !.file = Drop(@, {id}), !.man[id].present = FALSE]
    ELSE o

Orphans(o) == DOMAIN o.file \ DOMAIN o.man

\* A manifest without rows, under the file's name; window and times are zero.
Adopt(o, ids) ==
    [o EXCEPT !.man = [id \in DOMAIN @ \cup ids |->
        IF id \in DOMAIN @ THEN @[id]
        ELSE Manifest(0, o.file[id].stamp, o.file[id].local, "recovered")]]

\* Manifests do not share rows or files, so they are reconciled independently.
Recover(o) ==
    LET each == [id \in DOMAIN o.man |-> Reconcile(o, id)]
        all == [o EXCEPT
            !.man = [id \in DOMAIN @ |-> each[id].man[id]],
            !.del = [r \in DOMAIN @ |-> each[r[1]].del[r]],
            !.file = Restrict(@, {id \in DOMAIN @ :
                                    id \in DOMAIN o.man => id \in DOMAIN each[id].file})]
    IN Adopt(all, Orphans(all))

Initialize(o, kept) == Recover(FinishDeletions(o, kept))

-----------------------------------------------------------------------------

CONSTANTS Http,         \* the channels for HTTP and HTTPS
          Configs,      \* the settings documents, 1 .. N -> configuration
          Workers,
          Settle,       \* generation_settle_delay
          Lease,        \* delivery_lease, longer than the timeout
          Timeout,      \* transfer_timeout
          Delay,        \* retry_delay, a constant here
          MaxTime,
          MaxFaults,    \* storage operations that fail, files that are lost
          MaxOutages,   \* failures of the historian and of the receivers
          MaxCrashes, MaxChanges, MaxAdmin

VARIABLES o,        \* the outbox, on disk
          now,
          life,     \* "down", "up" or "stopping"
          settings, \* the document of the settings service
          pending,  \* pending_bundle_, 0 when empty
          active,   \* active_bundle_ and channels_
          main,     \* the main thread: apply_configuration
          jobs,     \* jobs_ of the engine, the index of its document
          gen,      \* the scheduler thread
          wk,       \* the delivery workers
          left,     \* what the environment may still do
          seen      \* history: what was written, received, released

vars == <<o, now, life, settings, pending, active, main, jobs, gen, wk, left, seen>>

JobsOf(c) == Configs[c].jobs

\* A job copy in use is the index of the document it comes from.
GenIdle == [pc |-> "idle", conf |-> 0, job |-> 0, at |-> 0, window |-> 0]
WkIdle == [pc |-> "idle", row |-> <<>>, at |-> 0, conf |-> 0, since |-> 0, res |-> ""]

Init ==
    /\ o = Empty /\ now = 1 /\ life = "down"
    /\ settings = 1 /\ pending = 0 /\ active = 0 /\ jobs = 0
    /\ main = [pc |-> "idle", conf |-> 0]
    /\ gen = GenIdle /\ wk = [w \in Workers |-> WkIdle]
    /\ left = [faults |-> MaxFaults, outages |-> MaxOutages, crashes |-> MaxCrashes,
               changes |-> MaxChanges, admin |-> MaxAdmin]
    /\ seen = [written |-> {}, rows |-> {}, received |-> {}, released |-> {},
               harmed |-> {}, covered |-> {}]

\* An outcome other than the first costs a fault.
Costs(res) == res \in {"failed", "kept"}
Pay(res) == left' = IF Costs(res) THEN [left EXCEPT !.faults = @ - 1] ELSE left
Affordable(outcomes) == {x \in outcomes : Costs(x.res) => left.faults > 0}

-----------------------------------------------------------------------------
(* Time, the settings service, the medium.                                  *)

Transferring(w) == wk[w].pc = "transfer"

\* A transfer ends within its timeout.
Tick ==
    /\ now < MaxTime
    /\ \A w \in Workers : Transferring(w) => now < wk[w].since + Timeout
    /\ now' = now + 1
    /\ UNCHANGED <<o, life, settings, pending, active, main, jobs, gen, wk, left, seen>>

\* A document that drops a channel is validated against the outbox.
SettingsChange ==
    /\ left.changes > 0
    /\ \E c \in DOMAIN Configs :
          /\ c > settings
          /\ life = "up" /\ ChannelsAvailable(o, Configs[c].channels)
          /\ settings' = c
    /\ left' = [left EXCEPT !.changes = @ - 1]
    /\ UNCHANGED <<o, now, life, pending, active, main, jobs, gen, wk, seen>>

\* A payload file is lost or damaged.
Harm ==
    /\ left.faults > 0
    /\ \E id \in DOMAIN o.file :
          /\ \/ o' = [o EXCEPT !.file = Drop(@, {id})]
             \/ o' = [o EXCEPT !.file[id].stamp = 0]
          /\ seen' = [seen EXCEPT !.harmed = @ \cup {id}]
    /\ left' = [left EXCEPT !.faults = @ - 1]
    /\ UNCHANGED <<now, life, settings, pending, active, main, jobs, gen, wk>>

-----------------------------------------------------------------------------
(* The main thread: on_start, settings_loop, on_reload, apply_configuration. *)

\* configuration_mutex_, while apply_configuration waits for a channel.
ConfigurationLocked == main.pc = "channels" /\ active # 0

\* on_start: initialize the outbox, then apply the configuration; the threads
\* start after it.  A removal that fails leaves its file.
Start ==
    /\ life = "down"
    /\ \E kept \in SUBSET {id \in DOMAIN o.man : o.man[id].deleting} :
          /\ kept # {} => left.faults > 0
          /\ o' = Initialize(o, kept)
          /\ left' = [left EXCEPT !.faults = IF kept = {} THEN @ ELSE @ - 1]
    /\ life' = "up"
    /\ main' = [pc |-> "prune", conf |-> settings]
    /\ UNCHANGED <<now, settings, pending, active, jobs, gen, wk, seen>>

\* candidate != active_bundle_
NewSettings == settings # active

\* settings_loop: a document other than the active one asks for a reload.
NoticeSettings ==
    /\ life = "up" /\ active # 0 /\ ~ConfigurationLocked
    /\ NewSettings /\ pending # settings
    /\ pending' = settings
    /\ UNCHANGED <<o, now, life, settings, active, main, jobs, gen, wk, left, seen>>

\* on_reload.
Reload ==
    /\ life = "up" /\ main.pc = "idle" /\ pending # 0
    /\ main' = [pc |-> "prune", conf |-> pending]
    /\ UNCHANGED <<o, now, life, settings, pending, active, jobs, gen, wk, left, seen>>

ApplyPrune ==
    /\ main.pc = "prune"
    /\ o' = Prune(o, now)
    /\ main' = [main EXCEPT !.pc = "channels"]
    /\ UNCHANGED <<now, life, settings, pending, active, jobs, gen, wk, left, seen>>

\* The new channels take over the test results of the old ones: under the
\* configuration mutex, which is held while a transfer of an old channel ends.
ApplyChannels ==
    /\ main.pc = "channels"
    /\ \A w \in Workers : ~(Transferring(w) /\ wk[w].conf = active
                             /\ wk[w].row[2] \in Configs[main.conf].channels)
    /\ main' = [main EXCEPT !.pc = "marks"]
    /\ UNCHANGED <<o, now, life, settings, pending, active, jobs, gen, wk, left, seen>>

\* The enabled jobs without a watermark of their revision.
NewMarks(c) ==
    {j \in DOMAIN JobsOf(c) :
        /\ JobsOf(c)[j].on
        /\ j \in DOMAIN o.mark => o.mark[j].rev # JobsOf(c)[j].rev}

\* apply_jobs: a new revision starts at the next boundary.
ApplyMarks ==
    /\ main.pc = "marks"
    /\ LET fresh == NewMarks(main.conf)
           rev(j) == JobsOf(main.conf)[j].rev IN
       /\ o' = [o EXCEPT !.mark = [j \in DOMAIN @ \cup fresh |->
                    IF j \in fresh THEN [rev |-> rev(j), through |-> now] ELSE @[j]]]
       /\ seen' = [seen EXCEPT !.covered = @ \cup
                    {<<j, rev(j), t>> : j \in fresh, t \in 0 .. now - 1}]
    /\ main' = [main EXCEPT !.pc = "jobs"]
    /\ UNCHANGED <<now, life, settings, pending, active, jobs, gen, wk, left>>

ApplyJobs ==
    /\ main.pc = "jobs"
    /\ jobs' = main.conf
    /\ main' = [main EXCEPT !.pc = "retry"]
    /\ UNCHANGED <<o, now, life, settings, pending, active, gen, wk, left, seen>>

ApplyRetry ==
    /\ main.pc = "retry"
    /\ o' = RetryChannel(o, Configs[main.conf].ready, now)
    /\ main' = [main EXCEPT !.pc = "swap"]
    /\ UNCHANGED <<now, life, settings, pending, active, jobs, gen, wk, left, seen>>

\* channels_, active_bundle_ and pending_bundle_.
ApplySwap ==
    /\ main.pc = "swap"
    /\ active' = main.conf /\ pending' = 0
    /\ main' = [pc |-> "idle", conf |-> 0]
    /\ UNCHANGED <<o, now, life, settings, jobs, gen, wk, left, seen>>

\* An exception keeps the previous configuration, a part of the new one done;
\* settings_loop then asks again.
ApplyFails ==
    /\ main.pc \in {"marks", "jobs", "retry"} /\ left.faults > 0
    /\ IF active = 0 THEN life' = "stopping" /\ UNCHANGED pending
       ELSE pending' = 0 /\ UNCHANGED life
    /\ main' = [pc |-> "idle", conf |-> 0]
    /\ left' = [left EXCEPT !.faults = @ - 1]
    /\ UNCHANGED <<o, now, settings, active, jobs, gen, wk, seen>>

-----------------------------------------------------------------------------
(* The scheduler thread: generate_due.                                      *)

Running == life = "up" /\ active # 0

\* The jobs and the time are copied once; jobs are visited in their order.
GenBegin ==
    /\ Running /\ gen.pc = "idle" /\ jobs # 0
    /\ gen' = [GenIdle EXCEPT !.pc = "job", !.conf = jobs, !.job = 1, !.at = now]
    /\ UNCHANGED <<o, now, life, settings, pending, active, main, jobs, wk, left, seen>>

Job == JobsOf(gen.conf)[gen.job]
Window == o.mark[gen.job].through

\* now >= window.end + generation_settle_delay
Due == gen.at >= Window + 1 + Settle

OwnMark == gen.job \in DOMAIN o.mark /\ o.mark[gen.job].rev = Job.rev

\* The next window of the current job, or the next job, or the end.
GenCheck ==
    /\ gen.pc = "job"
    /\ gen' = IF gen.job \notin DOMAIN JobsOf(gen.conf) THEN GenIdle
              ELSE IF Job.on /\ OwnMark /\ Due
              THEN [gen EXCEPT !.pc = "enqueue", !.window = Window]
              ELSE [gen EXCEPT !.job = @ + 1]
    /\ UNCHANGED <<o, now, life, settings, pending, active, main, jobs, wk, left, seen>>

GenId == <<gen.job, Job.rev, gen.window>>

\* enqueue returned without an exception.
Accepted(res) == res = "ok"

\* generate() found the data; the content carries generated_at.
GenEnqueue ==
    /\ gen.pc = "enqueue"
    /\ \E x \in Affordable(Enqueue(o, GenId, gen.at, Job.channels, Job.local)) :
          /\ o' = x.o
          /\ Pay(x.res)
          /\ gen' = IF Accepted(x.res) THEN [gen EXCEPT !.pc = "store"] ELSE GenIdle
          /\ seen' = [seen EXCEPT
                !.written = @ \cup (DOMAIN x.o.file \ DOMAIN o.file),
                !.rows = @ \cup (DOMAIN x.o.del \ DOMAIN o.del),
                !.covered = IF x.res = "ok" THEN @ \cup {GenId} ELSE @]
    /\ UNCHANGED <<now, life, settings, pending, active, main, jobs, wk>>

\* The historian is not available: the whole run ends.
GenDeferred ==
    /\ gen.pc = "enqueue" /\ left.outages > 0
    /\ gen' = GenIdle
    /\ left' = [left EXCEPT !.outages = @ - 1]
    /\ UNCHANGED <<o, now, life, settings, pending, active, main, jobs, wk, seen>>

\* The historian no longer has the window: it is skipped.
GenExpired ==
    /\ gen.pc = "enqueue" /\ left.outages > 0
    /\ gen' = [gen EXCEPT !.pc = "store"]
    /\ seen' = [seen EXCEPT !.covered = @ \cup {GenId}]
    /\ left' = [left EXCEPT !.outages = @ - 1]
    /\ UNCHANGED <<o, now, life, settings, pending, active, main, jobs, wk>>

\* store_watermark, with the revision of the copy.
GenStore ==
    /\ gen.pc = "store"
    /\ o' = StoreWatermark(o, gen.job, Job.rev, gen.window + 1)
    /\ gen' = [gen EXCEPT !.pc = "job", !.window = 0]
    /\ UNCHANGED <<now, life, settings, pending, active, main, jobs, wk, left, seen>>

-----------------------------------------------------------------------------
(* The delivery workers: deliver_due, deliver.                              *)

\* claim_due: the oldest due row, leased.
Claim(w) ==
    /\ Running /\ wk[w].pc = "idle"
    /\ \E r \in First(o, now) :
          /\ o' = Claimed(o, r, now + Lease)
          /\ wk' = [wk EXCEPT ![w] = [WkIdle EXCEPT !.pc = "content", !.row = r, !.at = now]]
    /\ UNCHANGED <<now, life, settings, pending, active, main, jobs, gen, left, seen>>

\* content(), then the channel that is configured at this moment.
Fetch(w) ==
    /\ wk[w].pc = "content" /\ ~ConfigurationLocked
    /\ LET content == Content(o, wk[w].row[1])
           known == wk[w].row[2] \in Configs[active].channels IN
       wk' = [wk EXCEPT ![w] =
          IF content = "unknown" THEN [@ EXCEPT !.pc = "record", !.res = "retryable"]
          ELSE IF content = "unavailable" \/ ~known
          THEN [@ EXCEPT !.pc = "record", !.res = "blocked"]
          ELSE [@ EXCEPT !.pc = "lock", !.conf = active]]
    /\ UNCHANGED <<o, now, life, settings, pending, active, main, jobs, gen, left, seen>>

\* The mutex belongs to the channel object, and so to its configuration.
ChannelFree(w) ==
    \A v \in Workers : Transferring(v) =>
        <<wk[v].row[2], wk[v].conf>> # <<wk[w].row[2], wk[w].conf>>

LockChannel(w) ==
    /\ wk[w].pc = "lock" /\ ChannelFree(w)
    /\ wk' = [wk EXCEPT ![w] =
          IF wk[w].row[2] \in Configs[wk[w].conf].enabled \cap Configs[wk[w].conf].ready
          THEN [@ EXCEPT !.pc = "transfer", !.since = now]
          ELSE [@ EXCEPT !.pc = "record", !.res = "blocked"]]
    /\ UNCHANGED <<o, now, life, settings, pending, active, main, jobs, gen, left, seen>>

\* What perform() can report: no transport, with a transient cause or another,
\* or a response.  A receiver has the payload after a success, and may have it
\* when the answer was lost or asks for a retry.
Outcomes ==
    {[ok |-> TRUE, transient |-> FALSE, code |-> c, received |-> r] :
        c \in {204, 400, 408, 429, 503}, r \in BOOLEAN}
    \cup {[ok |-> FALSE, transient |-> t, code |-> 0, received |-> r] :
        t \in BOOLEAN, r \in BOOLEAN}

Real(channel, out) ==
    /\ channel \notin Http /\ out.ok => out.code = 204
    /\ out.code = 204 => out.received
    /\ (out.code = 400 \/ (~out.ok /\ ~out.transient)) => ~out.received

\* classify_transfer_result.
Classify(channel, out) ==
    IF ~out.ok THEN IF out.transient THEN "retryable" ELSE "blocked"
    ELSE IF channel \notin Http \/ out.code \in 200 .. 299 THEN "succeeded"
    ELSE IF out.code \in {408, 429} \/ out.code >= 500 THEN "retryable"
    ELSE "blocked"

\* The transfer ends; anything but a success is an outage.
Transfer(w) ==
    /\ Transferring(w)
    /\ \E out \in Outcomes :
          /\ Real(wk[w].row[2], out)
          /\ out.code = 204 \/ left.outages > 0
          /\ wk' = [wk EXCEPT ![w].pc = "record",
                              ![w].res = Classify(wk[w].row[2], out)]
          /\ seen' = IF out.received
                     THEN [seen EXCEPT !.received = @ \cup {wk[w].row}] ELSE seen
          /\ left' = IF out.code = 204 THEN left ELSE [left EXCEPT !.outages = @ - 1]
    /\ UNCHANGED <<o, now, life, settings, pending, active, main, jobs, gen>>

\* record_result with the time of the claim; an exception stops the service.
Record(w) ==
    /\ wk[w].pc = "record"
    /\ \E x \in Affordable(RecordResult(o, wk[w].row, wk[w].res, wk[w].at,
                                         wk[w].at + Delay)) :
          /\ o' = x.o
          /\ Pay(x.res)
          /\ life' = IF x.res \in {"ok", "kept"} THEN life ELSE "stopping"
    /\ wk' = [wk EXCEPT ![w] = WkIdle]
    /\ UNCHANGED <<now, settings, pending, active, main, jobs, gen, seen>>

-----------------------------------------------------------------------------
(* The client of the service, and the end of the process.                   *)

AdminRetry ==
    /\ Running /\ left.admin > 0
    /\ \E id \in DOMAIN o.man :
          /\ Known(o, id)
          /\ o' = Retry(o, id, now)
    /\ left' = [left EXCEPT !.admin = @ - 1]
    /\ UNCHANGED <<now, life, settings, pending, active, main, jobs, gen, wk, seen>>

AdminErase ==
    /\ Running /\ left.admin > 0
    /\ \E id \in DOMAIN o.man, confirmed \in BOOLEAN :
       \E x \in Affordable(Erase(o, id, confirmed)) :
          /\ o' = x.o
          /\ left' = [left EXCEPT !.admin = @ - 1,
                                  !.faults = IF Costs(x.res) THEN @ - 1 ELSE @]
          /\ seen' = IF confirmed \/ o.man[id].local
                     THEN [seen EXCEPT !.released = @ \cup {id}] ELSE seen
    /\ UNCHANGED <<now, life, settings, pending, active, main, jobs, gen, wk>>

Volatile ==
    /\ life' = "down" /\ pending' = 0 /\ active' = 0 /\ jobs' = 0
    /\ main' = [pc |-> "idle", conf |-> 0]
    /\ gen' = GenIdle /\ wk' = [w \in Workers |-> WkIdle]

\* on_stop joins the threads; time passes before the next start.
Exit ==
    /\ life = "stopping" /\ main.pc = "idle" /\ gen.pc = "idle"
    /\ \A w \in Workers : wk[w].pc = "idle"
    /\ Volatile
    /\ now' = now + 1
    /\ UNCHANGED <<o, settings, left, seen>>

Crash ==
    /\ life # "down" /\ left.crashes > 0
    /\ Volatile
    /\ now' = now + 1
    /\ left' = [left EXCEPT !.crashes = @ - 1]
    /\ UNCHANGED <<o, settings, seen>>

-----------------------------------------------------------------------------
MainStep ==
    Start \/ NoticeSettings \/ Reload \/ ApplyPrune \/ ApplyChannels \/ ApplyMarks \/ ApplyJobs
        \/ ApplyRetry \/ ApplySwap \/ ApplyFails \/ Exit

GenStep ==
    GenBegin \/ GenCheck \/ GenEnqueue \/ GenDeferred \/ GenExpired \/ GenStore

WorkerStep(w) ==
    \/ Claim(w) \/ Fetch(w) \/ LockChannel(w) \/ Transfer(w) \/ Record(w)

Next ==
    \/ Tick \/ SettingsChange \/ Harm \/ AdminRetry \/ AdminErase \/ Crash
    \/ MainStep \/ GenStep \/ \E w \in Workers : WorkerStep(w)

Spec == Init /\ [][Next]_vars

\* Every thread goes on; time passes; a transfer ends (outages are bounded).
Fairness ==
    /\ WF_vars(Tick) /\ WF_vars(MainStep) /\ WF_vars(GenStep)
    /\ \A w \in Workers : WF_vars(WorkerStep(w))

-----------------------------------------------------------------------------
TypeOK ==
    /\ now \in Nat /\ life \in {"down", "up", "stopping"}
    /\ settings \in DOMAIN Configs
    /\ {pending, active, jobs, main.conf, gen.conf} \subseteq DOMAIN Configs \cup {0}
    /\ \A r \in DOMAIN o.del : r[1] \in DOMAIN o.man
    /\ \A w \in Workers : wk[w].pc \in
          {"idle", "content", "lock", "transfer", "record"}

\* A payload that was written stays on disk until every channel has received
\* it, or an administrator confirmed its removal, or the medium lost it
\* (finalize_completed_locked, erase, recover_locked across crashes).
PayloadKept ==
    \A id \in seen.written \ (seen.released \cup seen.harmed) :
        \/ id \in DOMAIN o.file
        \/ LET rows == {r \in seen.rows : r[1] = id}
           IN rows # {} /\ rows \subseteq seen.received

\* A row is "succeeded" only when the receiver has the payload: neither a lost
\* answer nor a missing file is taken for a delivery.
SucceededMeansReceived ==
    \A r \in DOMAIN o.del : o.del[r].state = "succeeded" => r \in seen.received

\* The watermark passes a window only when its artifact was accepted, or the
\* historian no longer had it, or it precedes the revision.
NoWindowSkipped ==
    \A j \in DOMAIN o.mark : \A t \in 0 .. o.mark[j].through - 1 :
        <<j, o.mark[j].rev, t>> \in seen.covered

\* The payload files never exceed the quota, whatever fails in between.
QuotaHolds == Cardinality(DOMAIN o.file) <= MaxPayloads

\* After initialize every payload file has a manifest, no deletion is left
\* half done, and a manifest without an error has its payload.
Reconciled ==
    life = "down" /\ life' = "up" =>
     /\ DOMAIN o'.file \subseteq DOMAIN o'.man
     /\ \A id \in DOMAIN o'.man :
           /\ ~o'.man[id].deleting
           /\ (o'.man[id].present /\ o'.man[id].error = "") =>
                 /\ id \in DOMAIN o'.file
                 /\ o'.file[id].stamp = o'.man[id].stamp

\* A window that is due is generated: the watermark of a job in force passes it.
WindowsProceed ==
    \A c \in DOMAIN Configs : \A j \in DOMAIN JobsOf(c) : \A t \in 1 .. MaxTime - 1 - Settle :
        (jobs = c /\ j \in DOMAIN o.mark /\ o.mark[j].through = t
            /\ o.mark[j].rev = JobsOf(c)[j].rev /\ now >= t + 1 + Settle)
        ~> (j \in DOMAIN o.mark /\ o.mark[j].through > t)

\* A row never stays leased or waiting: it is delivered, blocked, or removed,
\* or its next attempt lies beyond the horizon of the clock.
DeliveriesEnd ==
    \A r \in ((DOMAIN JobsOf(1)) \X {1} \X (1 .. MaxTime)) \X Configs[1].channels :
        (r \in DOMAIN o.del) ~>
            (\/ r \notin DOMAIN o.del
             \/ o.del[r].state \in Final \cup {"blocked"}
             \/ o.del[r].state = "retry" /\ o.del[r].next > MaxTime)
=============================================================================
