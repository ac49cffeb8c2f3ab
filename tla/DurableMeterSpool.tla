-------------------------- MODULE DurableMeterSpool --------------------------
(***************************************************************************)
(* The record spool of msap1-meter-stream                                  *)
(* (common/mnc/MeterDataProvider/stream/durable_meter_spool.cpp) together  *)
(* with the part of the stream service that drives it: the acknowledge     *)
(* command acknowledges and then prunes in one handler.                    *)
(*                                                                         *)
(* One SQLite database per backend.  The persistent one survives the       *)
(* process, the :memory: one does not; the cursor lease is a small file    *)
(* beside the persistent database and survives in either case.  A mutex    *)
(* serialises the operations, so each is one step.                         *)
(*                                                                         *)
(* Data abstraction.  A record is its cursor and its producer identity     *)
(* (the UNIQUE key of the table).  Every payload is one 256-byte           *)
(* MeterRecord, so LENGTH(payload)+128 is one unit and the byte limits     *)
(* count records.  Which acknowledged records are older than the age       *)
(* limit is left open: ingest times are the producer's wall clock.         *)
(*                                                                         *)
(* An operator whose comment starts with "Wrong:" is a deliberately broken *)
(* variant of the one after it, kept to show that a property can fail.     *)
(***************************************************************************)
EXTENDS Integers, FiniteSets, Sequences

CONSTANTS Keys,          \* producer identities of records
          Batches,       \* sequences of keys one publish call may carry
          Consumers,     \* names of stream consumers
          Policies,      \* storage policies the settings may select
          Reservation,   \* cursor_lease_reservation (2^31 in the code)
          Margin,        \* cursor_lease_renewal_margin (2^30 in the code)
          PageLimit,     \* read_after limit
          LeaseFaults,   \* which lease-file faults can happen
          MaxCursor,     \* bound: the largest cursor that can be reserved
          MaxClock       \* bound: idle ticks of the wall clock (milliseconds)

Backends == {"memory", "persistent"}

\* A retention limit of 0 stands for "no limit".
Policy == [backend : Backends, bytes : Nat, age : BOOLEAN]

Record == [cursor : Nat, key : Keys]

ASSUME SpoolAssumption ==
  /\ Batches \subseteq Seq(Keys)
  /\ Policies \subseteq Policy
  /\ Reservation \in Nat
  /\ Margin \in Nat
  /\ Margin < Reservation
  /\ PageLimit \in Nat \ {0}
  /\ LeaseFaults \subseteq {"write", "read"}
  /\ MaxCursor \in Nat
  /\ MaxClock \in Nat

VARIABLES
  db,            \* [Backends -> database]
  leaseFile,     \* contents of <spool>.cursor-lease, 0 when absent
  up,            \* the stream process is running
  policy,        \* Impl::policy of the running spool
  sessionStart,  \* Impl::session_start_cursor
  cursorLease,   \* Impl::cursor_lease
  tracked,       \* Impl::tracked_payload_bytes
  dropped,       \* Impl::dropped_unacknowledged
  held,          \* last cursor of the page each consumer holds, 0 for none
  clock,         \* wall clock in milliseconds since the epoch
  ceiling,       \* history: the highest cursor ever issued
  outdated       \* history: consumers whose page was read before a restart

implVars == <<policy, sessionStart, cursorLease, tracked, dropped>>
history == <<ceiling, outdated>>
vars == <<db, leaseFile, up, implVars, held, clock, history>>

-----------------------------------------------------------------------------
Larger(a, b) == IF a >= b THEN a ELSE b

EmptyDatabase ==
  [records |-> {}, registered |-> {}, ack |-> [c \in Consumers |-> 0],
   seq |-> 0]

Database ==
  [records : SUBSET Record, registered : SUBSET Consumers,
   ack : [Consumers -> Nat], seq : Nat]

Cursors(S) == {r.cursor : r \in S}
KeysOf(S) == {r.key : r \in S}

\* SELECT COALESCE(MAX(cursor),0) FROM records
Newest(S) ==
  IF S = {} THEN 0
  ELSE CHOOSE m \in Cursors(S) : \A n \in Cursors(S) : n <= m

\* SELECT COALESCE(MIN(acknowledged_cursor),0) FROM consumers
MinAck(d) ==
  IF d.registered = {} THEN 0
  ELSE CHOOSE m \in {d.ack[c] : c \in d.registered} :
         \A c \in d.registered : m <= d.ack[c]

\* SELECT COALESCE(SUM(LENGTH(payload)+128),0) FROM records
StoredBytes(S) == Cardinality(S)

\* The n records of S with the smallest cursors (ORDER BY cursor).
Oldest(S, n) ==
  {r \in S : Cardinality({q \in S : q.cursor < r.cursor}) < n}

\* The database of the running spool, and a transaction that leaves d in it.
live == db[policy.backend]
Commit(d) == db' = [db EXCEPT ![policy.backend] = d]

TypeOK ==
  /\ db \in [Backends -> Database]
  /\ leaseFile \in Nat
  /\ up \in BOOLEAN
  /\ policy \in Policy
  /\ sessionStart \in Nat
  /\ cursorLease \in Nat
  /\ tracked \in Nat
  /\ dropped \in Nat
  /\ held \in [Consumers -> Nat]
  /\ clock \in Nat
  /\ ceiling \in Nat
  /\ outdated \subseteq Consumers

\* A device before its first start with a cursor lease: no lease file, and
\* either no spool or one left by a release that counted cursors from 1.
Init ==
  /\ clock = 1
  /\ \E legacy \in {{}} \cup {{[cursor |-> 1, key |-> k]} : k \in Keys} :
       /\ db = [b \in Backends |->
                 IF b = "persistent"
                 THEN [EmptyDatabase EXCEPT !.records = legacy,
                                            !.seq = Newest(legacy)]
                 ELSE EmptyDatabase]
       /\ ceiling = Newest(legacy)
  /\ leaseFile = 0
  /\ up = FALSE
  /\ policy \in Policies
  /\ sessionStart = 0
  /\ cursorLease = 0
  /\ tracked = 0
  /\ dropped = 0
  /\ held = [c \in Consumers |-> 0]
  /\ outdated = {}

-----------------------------------------------------------------------------
\* The cursor space.

\* What read_cursor_lease can return.
ReadLease == {leaseFile} \cup (IF "read" \in LeaseFaults THEN {0} ELSE {})

\* write_cursor_lease is best effort: the value it leaves in the file.
WrittenLease(value) ==
  {value} \cup (IF "write" \in LeaseFaults THEN {leaseFile} ELSE {})

\* Wrong: the lease is not consulted.
SeedCursorUnleased(lease, d) == Newest(d.records)

\* The seed of a spool session: the persisted lease, what the database holds
\* and, only without a lease, the wall clock.
SeedCursor(lease, d) ==
  LET seed == Larger(lease, Newest(d.records))
  IN  IF lease = 0 THEN Larger(seed, clock) ELSE seed

\* Wrong: the sequence is left where the database has it.
RaiseSequenceNever(d, seed) == d

\* sqlite_sequence is only ever raised.
RaiseSequence(d, seed) == [d EXCEPT !.seq = Larger(d.seq, seed)]

\* seed_cursor_space on database d of a newly built Impl.
SeedCursorSpace(seed) ==
  /\ seed + Reservation <= MaxCursor
  /\ sessionStart' = seed
  /\ cursorLease' = seed + Reservation
  /\ leaseFile' \in WrittenLease(seed + Reservation)

\* Impl construction when the stream process starts under policy p.
Start(p) ==
  /\ ~up
  /\ up' = TRUE
  /\ policy' = p
  /\ \E lease \in ReadLease :
       LET d == db[p.backend]
           seed == SeedCursor(lease, d)
       IN  /\ SeedCursorSpace(seed)
           /\ db' = [db EXCEPT ![p.backend] = RaiseSequence(d, seed)]
           /\ tracked' = StoredBytes(d.records)
  /\ dropped' = 0
  /\ UNCHANGED <<held, clock, history>>

\* The process ends (stop, crash or power cut); :memory: is gone.
Stop ==
  /\ up
  /\ up' = FALSE
  /\ db' = [db EXCEPT !["memory"] = EmptyDatabase]
  /\ outdated' = {c \in Consumers : held[c] # 0}
  /\ UNCHANGED <<leaseFile, implVars, held, clock, ceiling>>

Tick ==
  /\ clock < MaxClock
  /\ clock' = clock + 1
  /\ UNCHANGED <<db, leaseFile, up, implVars, held, history>>

-----------------------------------------------------------------------------
\* Producer side.

\* The positions of batch b whose identity is not in the table yet, nor
\* earlier in the batch.
NewIndices(b) ==
  {i \in DOMAIN b : /\ b[i] \notin KeysOf(live.records)
                    /\ \A j \in DOMAIN b : j < i => b[j] # b[i]}

NewCount(b) == Cardinality(NewIndices(b))

\* The rows AUTOINCREMENT gives those records, in batch order.
InsertedRows(b) ==
  {[cursor |-> live.seq + Cardinality({j \in NewIndices(b) : j <= i}),
    key |-> b[i]] : i \in NewIndices(b)}

\* The hard byte cap of publish_records: oldest rows first, acknowledged or
\* not, never a row of the batch being published.
Evicted(b) ==
  LET projected == tracked + NewCount(b)
  IN  IF NewCount(b) # 0 /\ policy.bytes # 0 /\ projected > policy.bytes
      THEN Oldest(live.records, projected - policy.bytes)
      ELSE {}

\* Wrong: an evicted row counts as lost whether acknowledged or not.
UnacknowledgedOrNot(S) == S

\* The rows of S that some registered consumer has not acknowledged.
Unacknowledged(S) == {r \in S : r.cursor > MinAck(live)}

\* One transaction; the byte and loss accounting follows the commit.  Two
\* assumptions on the producer: 2^31 cursors are not issued between two
\* renewals, and a record takes at least a millisecond (the meter publishes a
\* few hundred records a second).
PublishRecords(b) ==
  /\ up
  /\ live.seq + NewCount(b) <= cursorLease
  /\ LET evicted == Evicted(b)
         inserted == InsertedRows(b)
         projected == tracked + NewCount(b)
     IN  /\ Commit([live EXCEPT
                      !.records = (live.records \ evicted) \cup inserted,
                      !.seq = live.seq + NewCount(b)])
         /\ tracked' = Larger(projected - Cardinality(evicted), 0)
         /\ dropped' = dropped +
              Cardinality(Unacknowledged(evicted))
         /\ ceiling' = Larger(ceiling, Newest(inserted))
  /\ clock' = clock + NewCount(b)
  /\ UNCHANGED <<leaseFile, up, policy, sessionStart, cursorLease, held, outdated>>

-----------------------------------------------------------------------------
\* Consumer side.

\* A new consumer starts at 0; a known one keeps its acknowledged cursor.
\* A client registers before its first read and again after a failed call,
\* when it has dropped the page it was working on.
RegisterConsumer(c) ==
  /\ up
  /\ Commit([live EXCEPT
              !.registered = live.registered \cup {c},
              !.ack = IF c \in live.registered THEN live.ack
                      ELSE [live.ack EXCEPT ![c] = 0]])
  /\ held' = [held EXCEPT ![c] = 0]
  /\ UNCHANGED <<leaseFile, up, implVars, clock, history>>

UnregisterConsumer(c) ==
  /\ up
  /\ c \in live.registered
  /\ Commit([live EXCEPT !.registered = live.registered \ {c},
                         !.ack = [live.ack EXCEPT ![c] = 0]])
  /\ held' = [held EXCEPT ![c] = 0]
  /\ UNCHANGED <<leaseFile, up, implVars, clock, history>>

\* The page read_after returns: the oldest rows past the acknowledgement.
Page(c) == Oldest({r \in live.records : r.cursor > live.ack[c]}, PageLimit)

ReadAfter(c) ==
  /\ up
  /\ c \in live.registered
  /\ Page(c) # {}
  /\ held' = [held EXCEPT ![c] = Newest(Page(c))]
  /\ outdated' = outdated \ {c}
  /\ UNCHANGED <<db, leaseFile, up, implVars, clock, ceiling>>

\* renew_cursor_lease.
LeaseDue(newest) == newest + Margin >= cursorLease

RenewCursorLease ==
  LET newest == Newest(live.records)
      renewed == newest + Reservation
  IN  IF LeaseDue(newest)
      THEN /\ renewed <= MaxCursor
           /\ \/ leaseFile' = renewed /\ cursorLease' = renewed
              \/ "write" \in LeaseFaults /\ UNCHANGED <<leaseFile, cursorLease>>
      ELSE UNCHANGED <<leaseFile, cursorLease>>

\* The rows byte retention removes from the acknowledged prefix of S when
\* the counter stands at bytes.
ByteVictims(S, acknowledged, bytes) ==
  IF policy.bytes # 0 /\ bytes > policy.bytes
  THEN Oldest({r \in S : r.cursor <= acknowledged}, bytes - policy.bytes)
  ELSE {}

\* The stream service's acknowledge command: acknowledge, then prune.  The
\* acknowledgement is the last cursor of the page the consumer holds.
AcknowledgeAndPrune(c) ==
  /\ up
  /\ c \in live.registered
  /\ held[c] # 0
  /\ held[c] <= Newest(live.records)
  /\ RenewCursorLease
  /\ LET acked == [live EXCEPT
                    !.ack = [live.ack EXCEPT ![c] = Larger(live.ack[c], held[c])]]
         acknowledged == MinAck(acked)
     IN  \E expired \in SUBSET {r \in live.records : r.cursor <= acknowledged} :
           LET aged == live.records \ expired
               bytes == Larger(tracked - Cardinality(expired), 0)
               victims == ByteVictims(aged, acknowledged, bytes)
           IN  /\ policy.age \/ expired = {}
               /\ Commit([acked EXCEPT !.records = aged \ victims])
               /\ tracked' = Larger(bytes - Cardinality(victims), 0)
  /\ held' = [held EXCEPT ![c] = 0]
  /\ UNCHANGED <<up, policy, sessionStart, dropped, clock, history>>

\* acknowledge throws: the cursor is past the head, or the name is unknown.
\* The consumer drops its page and reads again.
AcknowledgeRejected(c) ==
  /\ up
  /\ held[c] # 0
  /\ c \notin live.registered \/ held[c] > Newest(live.records)
  /\ held' = [held EXCEPT ![c] = 0]
  /\ UNCHANGED <<db, leaseFile, up, implVars, clock, history>>

-----------------------------------------------------------------------------
\* apply_policy.

\* The same backend: only the policy is replaced.
ApplyPolicyInPlace(p) ==
  /\ up
  /\ p.backend = policy.backend
  /\ policy' = p
  /\ UNCHANGED <<db, leaseFile, up, sessionStart, cursorLease, tracked,
                 dropped, held, clock, history>>

\* Wrong: the copy does not take the consumers along.
CopiedWithoutConsumers(d, seed) ==
  [RaiseSequence(d, Larger(seed, Newest(live.records))) EXCEPT
    !.records = live.records]

\* The replacement's database d, emptied and filled with the live rows and
\* consumers.  SQLite raises sqlite_sequence to a copied cursor above it.
Copied(d, seed) ==
  [RaiseSequence(d, Larger(seed, Newest(live.records))) EXCEPT
    !.records = live.records,
    !.registered = live.registered,
    !.ack = live.ack]

\* Another backend: build a replacement, which seeds its own cursor space,
\* copy the stream into it, then swap.
ApplyPolicySwitch(p) ==
  /\ up
  /\ p.backend # policy.backend
  /\ \E lease \in ReadLease :
       LET d == db[p.backend]
           seed == SeedCursor(lease, d)
       IN  /\ SeedCursorSpace(seed)
           /\ db' = [b \in Backends |->
                      IF b = p.backend THEN Copied(d, seed)
                      ELSE IF b = "memory" THEN EmptyDatabase ELSE db[b]]
  /\ policy' = p
  /\ tracked' = StoredBytes(live.records)
  /\ UNCHANGED <<up, dropped, held, clock, history>>

\* The copy fails and rolls back: the running spool stays, but the
\* replacement's constructor has already seeded and reserved.
ApplyPolicyFails(p) ==
  /\ up
  /\ p.backend # policy.backend
  /\ \E lease \in ReadLease :
       LET d == db[p.backend]
           seed == SeedCursor(lease, d)
       IN  /\ seed + Reservation <= MaxCursor
           /\ leaseFile' \in WrittenLease(seed + Reservation)
           /\ db' = IF p.backend = "memory" THEN db
                    ELSE [db EXCEPT ![p.backend] = RaiseSequence(d, seed)]
  /\ UNCHANGED <<up, implVars, held, clock, history>>

-----------------------------------------------------------------------------
Next ==
  \/ \E p \in Policies : Start(p)
  \/ Stop
  \/ Tick
  \/ \E b \in Batches : PublishRecords(b)
  \/ \E c \in Consumers : RegisterConsumer(c)
  \/ \E c \in Consumers : UnregisterConsumer(c)
  \/ \E c \in Consumers : ReadAfter(c)
  \/ \E c \in Consumers : AcknowledgeAndPrune(c)
  \/ \E c \in Consumers : AcknowledgeRejected(c)
  \/ \E p \in Policies : ApplyPolicyInPlace(p)
  \/ \E p \in Policies : ApplyPolicySwitch(p)
  \/ \E p \in Policies : ApplyPolicyFails(p)

Spec == Init /\ [][Next]_vars

-----------------------------------------------------------------------------
\* Properties.

\* A committed record gets a cursor above every cursor the stream has issued
\* before, across restarts, :memory: sessions and backend switches
\* (seed_cursor_space and the lease exist for this).
FreshCursors ==
  [][up /\ up' => \A r \in live'.records \ live.records : r.cursor > ceiling]_vars

\* Why FreshCursors holds when the lease file can be trusted.  No row,
\* acknowledgement or page exceeds the highest cursor issued; that cursor is
\* below the lease on disk (below the wall clock before the first lease); and
\* a running spool numbers from above it and stays inside its reservation.
CursorSpaceInvariant ==
  /\ clock # 0
  /\ \A b \in Backends : \A r \in db[b].records : r.cursor <= ceiling
  /\ \A b \in Backends : \A c \in Consumers : db[b].ack[c] <= ceiling
  /\ \A c \in Consumers : held[c] <= ceiling
  /\ IF leaseFile = 0 THEN ceiling <= clock /\ sessionStart = 0
     ELSE ceiling <= leaseFile /\ sessionStart < leaseFile
  /\ up => /\ leaseFile # 0
           /\ cursorLease <= leaseFile
           /\ ceiling <= cursorLease
           /\ ceiling <= live.seq
           /\ sessionStart < cursorLease

\* Every spool session starts past all cursors issued before it and past the
\* previous session's start, so session_start_cursor tells sessions apart
\* (StreamStatus, backfill_is_incomplete).
SessionsDisjoint ==
  [][(up' /\ (~up \/ policy'.backend # policy.backend)) =>
       sessionStart' >= ceiling /\ sessionStart' > sessionStart]_vars

\* While the spool runs, dropped_unacknowledged grows by exactly the number
\* of rows removed that some registered consumer had not acknowledged:
\* publish counts what it evicts and prune removes only what all have
\* acknowledged.
LossIsCounted ==
  [][up /\ up' =>
       dropped' - dropped =
         Cardinality({r \in live.records \ live'.records :
                       r.cursor > MinAck(live')})]_vars

\* tracked_payload_bytes, adjusted by publish, prune and apply_policy, is
\* what SUM(LENGTH(payload)+128) would return.
TrackedBytesExact == up => tracked = Cardinality(live.records)

\* A commit leaves no more rows than the byte cap or, when the batch alone
\* exceeds it, exactly that batch.
ByteCapHolds ==
  [][(up /\ up' /\ ceiling' # ceiling /\ policy.bytes # 0) =>
       Cardinality(live'.records) <=
         Larger(policy.bytes, Cardinality(live'.records \ live.records))]_vars

\* The acknowledgement of a page read since the last start of the stream is
\* accepted: eviction, pruning and a backend switch never move the head
\* below a page a consumer is working on.
HeldPageAcknowledgeable ==
  \A c \in Consumers :
    up /\ held[c] # 0 /\ c \notin outdated =>
      c \in live.registered /\ held[c] <= Newest(live.records)

\* apply_policy to another backend changes neither the records nor the
\* consumers a client sees; nothing left in the target database comes back.
SwitchKeepsStream ==
  [][(up /\ up' /\ policy'.backend # policy.backend) =>
       /\ live'.records = live.records
       /\ live'.registered = live.registered
       /\ live'.ack = live.ack]_vars

\* The spool implements the log its consumers rely on.
Log == INSTANCE MeterStreamLog WITH
         open <- up,
         log <- IF up THEN live.records ELSE {},
         registered <- IF up THEN live.registered ELSE {},
         ack <- IF up THEN live.ack ELSE [c \in Consumers |-> 0]
ImplementsLog == Log!Spec

-----------------------------------------------------------------------------
\* What consumers rely on: the byte count the policy is applied to is exact,
\* and a page a consumer holds can be acknowledged (durable_meter_spool.cpp,
\* tracked bytes and acknowledge).
PagesAreSound == TrackedBytesExact /\ HeldPageAcknowledgeable

\* No cursor is used twice: every new record is above all earlier ones, a
\* session begins above the ceiling of the one before it, and a change of
\* backend carries the records and the acknowledgements over
\* (durable_meter_spool.cpp, cursor leases and switch of backend).
CursorDiscipline == FreshCursors /\ SessionsDisjoint /\ SwitchKeepsStream

\* Retention is honest: it counts every record it drops that a consumer had
\* still to read, and what it leaves fits the byte limit
\* (durable_meter_spool.cpp, evict).
RetentionIsHonest == LossIsCounted /\ ByteCapHolds
=============================================================================
