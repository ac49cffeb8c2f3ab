---------------------------- MODULE HistorianService ----------------------------
(***************************************************************************)
(* MeterHistorianService: the consumer thread, which alternates live pages    *)
(* with pages of a replay, and the IPC thread, which switches the storage      *)
(* policy or clears datasets, share flags and a mutex.  Every critical section *)
(* of migration_mutex_ is one action; what happens outside it is another.      *)
(* The store is abstracted to the cursors each dataset holds (HistoryStore     *)
(* models it), the spool to the interval of cursors it still has.             *)
(***************************************************************************)
EXTENDS Naturals, FiniteSets, FiniteSetsExt, Sequences

CONSTANTS Datasets,
          Script,      \* by cursor: [period, sets], the datasets a record feeds
          Policies,    \* bound: functions Datasets -> [backend, keep]
          LivePage, ReplayPage,   \* read_after limits (256 and 64)
          Faults,      \* which failures and maintenance the environment produces
          MaxCommands, MaxFaults  \* bounds

VARIABLES newest, oldest, start,   \* the spool: records oldest..newest, session start
          acked, registered,       \* consumer "historian"
          policy, memory, persistent, floor,   \* the store
          service,    \* migrating_, policy_backfill_*, backfill_incomplete_, consumer_healthy_
          session,    \* the replay: [gen, through, at]
          thread,     \* the consumer thread: [pc, asked, last]
          io,         \* the IPC thread: [at, to]
          taken,      \* ghost: cursors the live consumer has acknowledged
          left

vars == <<newest, oldest, start, acked, registered, policy, memory, persistent, floor,
          service, session, thread, io, taken, left>>
spool == <<newest, oldest, start>>
store == <<policy, memory, persistent, floor>>

NoSession == [gen |-> 0, through |-> 0, at |-> 0, open |-> FALSE]
Idle == [at |-> "idle", to |-> policy]
None == [d \in Datasets |-> {}]
Less(a, b) == IF a < b THEN a ELSE b
InMemory(p, d) == p[d].backend = "memory"
Volatile(p) == \E d \in Datasets : InMemory(p, d)

Thread(pc) == [pc |-> pc, asked |-> 0, last |-> 0]

\* on_start: volatile projections are rebuilt before the live loop.
Started(p) == Thread(IF Volatile(p) THEN "rebuild" ELSE "live")

Init ==
    /\ newest = 0 /\ oldest = 1 /\ start = 0
    /\ acked = 0 /\ registered = TRUE
    /\ policy \in Policies
    /\ memory = None /\ persistent = None /\ floor = [d \in Datasets |-> 0]
    /\ service = [migrating |-> FALSE, requested |-> FALSE, gen |-> 0,
                  incomplete |-> FALSE, healthy |-> TRUE]
    /\ session = NoSession /\ thread = Started(policy)
    /\ io = [at |-> "idle", to |-> policy]
    /\ taken = {}
    /\ left = [commands |-> MaxCommands, faults |-> MaxFaults]

May(f) == f \in Faults /\ left.faults > 0 /\ left' = [left EXCEPT !.faults = @ - 1]
Go(pc) == thread' = [thread EXCEPT !.pc = pc]

-------------------------------------------------------------------------------
\* The spool.
Publish ==
    /\ newest < Len(Script)
    /\ newest' = newest + 1
    /\ UNCHANGED <<oldest, start, acked, registered, store, service, session, thread, io,
                   taken, left>>

\* Retention removes what every registered consumer has acknowledged; a stream that has
\* been quiet for the retention time is emptied.
Prune ==
    /\ IF oldest = newest THEN "drain" \in Faults ELSE "prune" \in Faults
    /\ oldest <= acked /\ registered /\ (session.open => oldest <= session.at)
    /\ oldest' = oldest + 1
    /\ UNCHANGED <<newest, start, acked, registered, store, service, session, thread, io,
                   taken, left>>

\* meter-stream restarts with a volatile spool: records and consumers are gone.
SpoolRestarts ==
    /\ May("spool")
    /\ oldest' = newest + 1 /\ start' = newest
    /\ registered' = FALSE /\ acked' = 0
    /\ session' = [session EXCEPT !.open = FALSE]
    /\ UNCHANGED <<newest, store, service, thread, io, taken>>

-------------------------------------------------------------------------------
\* ingest of the records C: each goes to the datasets it feeds, in the table the policy
\* routes them to, unless a clear has put it behind the floor.
Fed(C, d) == {c \in C : d \in Script[c].sets /\ c > floor[d]}

Ingest(C) ==
    /\ memory' = [d \in Datasets |->
           IF InMemory(policy, d) THEN memory[d] \cup Fed(C, d) ELSE memory[d]]
    /\ persistent' = [d \in Datasets |->
           IF InMemory(policy, d) THEN persistent[d] ELSE persistent[d] \cup Fed(C, d)]
    /\ UNCHANGED <<policy, floor>>

\* read_after: the retained records behind a consumer's cursor.
From(cursor) == Max({cursor + 1, oldest})
Page(cursor, limit) == From(cursor)..Less(From(cursor) + limit - 1, newest)

\* consume: a live page is ingested under the mutex.
LivePass ==
    /\ thread.pc = "live" /\ registered
    /\ IF Page(acked, LivePage) = {}
       THEN /\ service' = [service EXCEPT !.healthy = TRUE]
            /\ Go("look") /\ UNCHANGED store
       ELSE /\ Ingest(Page(acked, LivePage))
            /\ thread' = [thread EXCEPT !.pc = "ack", !.last = Max(Page(acked, LivePage))]
            /\ UNCHANGED service
    /\ UNCHANGED <<spool, acked, registered, session, io, taken, left>>

\* One acknowledgement per page.
AckLive ==
    /\ thread.pc = "ack" /\ registered
    /\ acked' = thread.last
    /\ taken' = taken \cup From(acked)..thread.last
    /\ service' = [service EXCEPT !.healthy = TRUE]
    /\ Go("look")
    /\ UNCHANGED <<spool, registered, store, session, io, left>>

\* register_consumer after any failure; a registration that exists keeps its cursor.
Reregistered == TRUE

\* The stream or the store refuses: nothing is acknowledged.
LiveFails ==
    /\ thread.pc \in {"live", "ack"}
    /\ \/ ~registered /\ UNCHANGED left
       \/ May("live")
    /\ registered' = Reregistered
    /\ service' = [service EXCEPT !.healthy = FALSE]
    /\ Go("look")
    /\ UNCHANGED <<spool, acked, store, session, io, taken>>

-------------------------------------------------------------------------------
HighWater == Max(UNION {persistent[d] : d \in Datasets} \cup {0})
OldestCursor == IF oldest > newest THEN 0 ELSE oldest

\* backfill_is_incomplete.
BackfillIsIncomplete ==
    \/ OldestCursor > start + 1
    \/ HighWater > 0 /\ start > HighWater

\* begin_backfill: a fresh consumer and the newest cursor as the end.
BeginBackfill(gen) ==
    /\ session' = [gen |-> gen, through |-> newest, at |-> 0, open |-> TRUE]
    /\ service' = [service EXCEPT !.incomplete = BackfillIsIncomplete]

\* rebuilds_volatile_period: decided by the record's own period.
Rebuilds(c) == InMemory(policy, Script[c].period)

\* backfill_page, ingested: nothing behind the end, only volatile periods.
Wanted(C) == {c \in C : c <= session.through /\ Rebuilds(c)}

\* The replay is over when the last record handled reaches the end.
Complete(last) == last >= session.through

\* The rebuild after a start: no policy generation, no live page in between.
BeginRebuild ==
    /\ thread.pc = "rebuild" /\ ~session.open
    /\ BeginBackfill(0)
    /\ Go("rebuilding")
    /\ UNCHANGED <<spool, acked, registered, store, io, taken, left>>

RebuildPage ==
    /\ thread.pc = "rebuilding" /\ session.open
    /\ LET page == {c \in Page(session.at, ReplayPage) : c <= session.through}
       IN  /\ Ingest(Wanted(page))
           /\ IF page = {} \/ Complete(Max(page))
              THEN session' = NoSession /\ Go("live")
              ELSE session' = [session EXCEPT !.at = Max(page)] /\ UNCHANGED thread
    /\ UNCHANGED <<spool, acked, registered, service, io, taken, left>>

\* The rebuild fails: the live loop starts all the same.
RebuildFails ==
    /\ thread.pc = "rebuilding"
    /\ IF session.open THEN May("rebuild") ELSE UNCHANGED left
    /\ session' = NoSession
    /\ service' = [service EXCEPT !.healthy = FALSE]
    /\ Go("live")
    /\ UNCHANGED <<spool, acked, registered, store, io, taken>>

-------------------------------------------------------------------------------
Requested == IF service.requested THEN service.gen ELSE 0

\* service_policy_backfill: the request is read under the mutex, an outdated session is
\* ended, a missing one begun.
Look ==
    /\ thread.pc = "look"
    /\ IF Requested = 0
       THEN session' = NoSession /\ thread' = Thread("live") /\ UNCHANGED service
       ELSE /\ thread' = [Thread("read") EXCEPT !.asked = Requested]
            /\ IF session # NoSession /\ session.gen = Requested
               THEN UNCHANGED <<session, service>>
               ELSE BeginBackfill(Requested)
    /\ UNCHANGED <<spool, acked, registered, store, io, taken, left>>

\* A page is read without the mutex.
ReadReplay ==
    /\ thread.pc = "read" /\ session.open
    /\ LET page == Page(session.at, ReplayPage)
       IN  IF session.through = 0 \/ page = {} THEN Go("done")
           ELSE thread' = [thread EXCEPT !.pc = "page", !.last = Max(page)]
    /\ UNCHANGED <<spool, acked, registered, store, service, session, io, taken, left>>

\* The request has not been replaced or withdrawn since it was read.
Current == service.requested /\ service.gen = thread.asked

\* The page is ingested under the mutex, unless the request is outdated.
ReplayPageIn ==
    /\ thread.pc = "page"
    /\ LET page == {c \in Page(session.at, ReplayPage) : c <= Less(thread.last, session.through)}
       IN  IF ~Current
           THEN session' = NoSession /\ thread' = Thread("live") /\ UNCHANGED store
           ELSE /\ Ingest(Wanted(page))
                /\ thread' = [thread EXCEPT !.pc = IF page = {} THEN "done" ELSE "ackpage",
                                            !.last = Max(page \cup {0})]
                /\ UNCHANGED session
    /\ UNCHANGED <<spool, acked, registered, service, io, taken, left>>

AckReplay ==
    /\ thread.pc = "ackpage" /\ session.open
    /\ session' = [session EXCEPT !.at = thread.last]
    /\ IF Complete(thread.last) THEN Go("done") ELSE thread' = Thread("live")
    /\ UNCHANGED <<spool, acked, registered, store, service, io, taken, left>>

ReplayFails ==
    /\ thread.pc \in {"read", "page", "ackpage"}
    /\ IF session.open THEN May("replay") ELSE UNCHANGED left
    /\ Go("failed")
    /\ UNCHANGED <<spool, acked, registered, store, service, session, io, taken>>

\* A variant that forgets to say so.
Silent == service.incomplete

\* A failed replay leaves a gap, and says so.
SaysIncomplete == TRUE

\* The request is finished under the mutex, if it still is the one that was served.
FinishReplay ==
    /\ thread.pc \in {"done", "failed"}
    /\ service' = IF ~Current THEN service
                  ELSE [service EXCEPT !.requested = FALSE, !.migrating = FALSE,
                            !.incomplete = IF thread.pc = "failed" THEN SaysIncomplete ELSE @]
    /\ session' = NoSession /\ thread' = Thread("live")
    /\ UNCHANGED <<spool, acked, registered, store, io, taken, left>>

-------------------------------------------------------------------------------
\* historian_policy_transition_requires_backfill.
NewlyVolatile(p) == {d \in Datasets : InMemory(p, d) /\ ~InMemory(policy, d)}

\* apply_storage_policy, before the mutex.
Apply ==
    /\ io.at = "idle" /\ left.commands > 0
    /\ \E p \in Policies : p # policy /\ io' = [at |-> "switch", to |-> p]
    /\ service' = [service EXCEPT !.migrating = TRUE]
    /\ left' = [left EXCEPT !.commands = @ - 1]
    /\ UNCHANGED <<spool, acked, registered, store, session, thread, taken>>

\* No dataset needs a replay.
NoReplay == NewlyVolatile(io.to) = {}

\* Under the mutex: new volatile tables start empty and the generation advances.
Switch ==
    /\ io.at = "switch"
    /\ policy' = io.to
    /\ memory' = [d \in Datasets |-> IF d \in NewlyVolatile(io.to) THEN {} ELSE memory[d]]
    /\ service' = [service EXCEPT !.gen = @ + 1, !.requested = NewlyVolatile(io.to) # {}]
    /\ io' = [io EXCEPT !.at = IF NoReplay THEN "settle" ELSE "idle"]
    /\ UNCHANGED <<spool, acked, registered, persistent, floor, session, thread, taken, left>>

\* The policies are not valid: the old ones are applied again under the mutex.
Reject ==
    /\ io.at = "switch" /\ "reject" \in Faults
    /\ service' = [service EXCEPT !.gen = @ + 1, !.requested = FALSE]
    /\ io' = [at |-> "settle", to |-> policy]
    /\ UNCHANGED <<spool, acked, registered, store, session, thread, taken, left>>

Settle ==
    /\ io.at = "settle"
    /\ service' = [service EXCEPT !.migrating = FALSE]
    /\ io' = Idle
    /\ UNCHANGED <<spool, acked, registered, store, session, thread, taken, left>>

\* clear_datasets, or recreate_database for all of them, under the mutex to its end.
Clear ==
    /\ "clear" \in Faults /\ io.at = "idle" /\ left.commands > 0
    /\ \E D \in SUBSET Datasets \ {{}} :
           /\ memory' = [d \in Datasets |-> IF d \in D THEN {} ELSE memory[d]]
           /\ persistent' = [d \in Datasets |-> IF d \in D THEN {} ELSE persistent[d]]
           /\ floor' = [d \in Datasets |-> IF d \in D THEN newest ELSE floor[d]]
    /\ service' = [service EXCEPT !.migrating = FALSE]
    /\ left' = [left EXCEPT !.commands = @ - 1]
    /\ UNCHANGED <<spool, acked, registered, policy, session, thread, io, taken>>

\* The process restarts; the settings service hands it the policy it had.
Restart ==
    /\ May("crash")
    /\ memory' = None
    /\ service' = [migrating |-> FALSE, requested |-> FALSE, gen |-> 0,
                   incomplete |-> FALSE, healthy |-> TRUE]
    /\ session' = NoSession /\ thread' = Started(policy) /\ io' = Idle
    /\ registered' = TRUE
    /\ UNCHANGED <<spool, acked, policy, persistent, floor, taken>>

-------------------------------------------------------------------------------
\* The steps of the consumer thread.
Consumer ==
    \/ LivePass \/ AckLive \/ BeginRebuild \/ RebuildPage
    \/ Look \/ ReadReplay \/ ReplayPageIn \/ AckReplay \/ FinishReplay

Failures == LiveFails \/ RebuildFails \/ ReplayFails

Commands == Apply \/ Switch \/ Reject \/ Settle \/ Clear

Next == Publish \/ Prune \/ SpoolRestarts \/ Consumer \/ Failures \/ Commands \/ Restart

\* The consumer thread keeps running: it takes its next step or meets the failure.
Fairness == WF_vars(Consumer \/ Failures)
Spec == Init /\ [][Next]_vars /\ Fairness

-------------------------------------------------------------------------------
\* What the live consumer has taken for a volatile dataset and the dataset lacks.
Missing(d) == {c \in taken : InMemory(policy, d) /\ d \in Script[c].sets
                             /\ c > floor[d] /\ c \notin memory[d]}

Resting ==
    /\ ~service.requested /\ session = NoSession
    /\ thread.pc \in {"live", "look", "ack"} /\ io.at = "idle"

\* The variables stay in their types, and the interval of retained cursors is sound.
TypeOK ==
    /\ oldest \in 1..newest + 1 /\ start < oldest /\ acked <= newest
    /\ policy \in Policies /\ io.to \in Policies
    /\ session.through <= newest /\ session.at <= session.through
    /\ \A d \in Datasets : memory[d] \cup persistent[d] \subseteq 1..newest

\* When nothing is under way, a volatile dataset holds everything the consumer has
\* taken for it, or the status says the backfill was incomplete
\* (prepare_policy_migration: "a complete spool replay", meter_history.hpp:199).
GapsAreReported ==
    Resting => \A d \in Datasets : Missing(d) # {} => service.incomplete

\* A request that ends as complete, whatever was requested, cleared or withdrawn
\* meanwhile, leaves no gap the spool could have filled
\* (service_policy_backfill, meter_historian_service.cpp:541).
CompletesWhole ==
    (service.requested /\ ~service'.requested /\ ~service'.incomplete /\ io = io') =>
        \A d \in Datasets : Missing(d) \subseteq 1..oldest - 1

\* Every published record is taken, or lost with the spool it was in; a consumer the
\* spool forgot registers again (consume, meter_historian_service.cpp:192).
StreamDrains == \A n \in 1..Len(Script) : newest >= n ~> acked >= n \/ start >= n

\* A migration ends: completed, failed, or replaced by a command that ends itself.
MigrationEnds == service.requested ~> ~service.requested
===============================================================================
