----------------------------- MODULE HistoryStore -----------------------------
(***************************************************************************)
(* The measurement side of MeterHistoryStore: per dataset a volatile and a   *)
(* durable table of blocks, the routing policy, the retention that follows    *)
(* every append, the cached size retention relies on, and the maintenance     *)
(* commands (clear, recreate, policy switch) with the points at which they    *)
(* can fail.  A block is named by its stream cursor; what the record at a      *)
(* cursor holds is fixed, because the stream is immutable.                   *)
(***************************************************************************)
EXTENDS Integers, FiniteSets, FiniteSetsExt, SequencesExt

CONSTANTS Datasets,
          Scripts,      \* bound: sequences of records [set, time, size] a stream may hold
          Policies,     \* bound: the policies of a dataset [backend, age, bytes]; 0: no limit
          Faults,       \* which failures the environment produces
          MaxReplays, MaxMaintenance, MaxFaults, MaxRestarts   \* bounds

Unknown == -1   \* a dataset without an entry in logical_bytes

VARIABLES script,   \* the records of the stream, by cursor
          head,     \* the newest cursor handed to append
          memory, persistent,      \* the blocks of each dataset, by cursor
          policy,   \* DatabasePolicyManager
          floors,   \* clear_floors, and historian_metadata on disk
          tracked,  \* logical_bytes
          cleared,  \* ghost: through which cursor a command reported success
          left      \* remaining budgets

vars == <<script, head, memory, persistent, policy, floors, tracked, cleared, left>>

Backends == {"memory", "persistent"}
None == [d \in Datasets |-> {}]
Zero == [d \in Datasets |-> 0]
Size(S) == MapThenSumSet(LAMBDA c : script[c].size, S)

\* database_for: the table a dataset is routed to.
Routed(d) == IF policy[d].backend = "memory" THEN memory[d] ELSE persistent[d]

\* tracked_bytes: the cached size, taken from the table when there is none.
Seeded(d) == IF tracked[d] = Unknown THEN Size(Routed(d)) ELSE tracked[d]

Init ==
    /\ script \in Scripts
    /\ head = 0
    /\ memory = None /\ persistent = None
    /\ policy \in [Datasets -> Policies]
    /\ floors = [ram |-> Zero, disk |-> Zero]
    /\ tracked = [d \in Datasets |-> Unknown]
    /\ cleared = Zero
    /\ left = [replays |-> MaxReplays, maintenance |-> MaxMaintenance,
               faults |-> MaxFaults, restarts |-> MaxRestarts]

Spend(b) == left[b] > 0 /\ left' = [left EXCEPT ![b] = @ - 1]
May(f) == f \in Faults /\ Spend("faults")

Put(d, blocks) ==
    /\ memory' = IF policy[d].backend = "memory" THEN [memory EXCEPT ![d] = blocks] ELSE memory
    /\ persistent' = IF policy[d].backend = "memory" THEN persistent
                     ELSE [persistent EXCEPT ![d] = blocks]

\* Oldest first.
ByTime(S) == SetToSortSeq(S, LAMBDA a, b : script[a].time < script[b].time)

\* delete_oldest_blocks without a cutoff: the fewest oldest blocks of S that make up needed.
Surplus(S, needed) ==
    LET order == ByTime(S)
        First(n) == {order[i] : i \in 1..n}
        enough == {n \in 1..Len(order) : Size(First(n)) >= needed}
    IN  IF enough = {} THEN S ELSE First(Min(enough))

\* delete_oldest_blocks with a cutoff, until nothing is left to remove.
Expired(S, d, now) ==
    IF policy[d].age = 0 THEN {} ELSE {c \in S : script[c].time < now - policy[d].age}

\* The blocks retention removes from blocks S of the believed size t: first the
\* expired ones, then the surplus.
Overflow(S, d, t) ==
    IF policy[d].bytes # 0 /\ t > policy[d].bytes THEN Surplus(S, t - policy[d].bytes) ELSE {}

Less(t, removed) == IF removed > t THEN 0 ELSE t - removed

Retained(S, d, now, t) ==
    LET expired == Expired(S, d, now)
        t1 == Less(t, Size(expired))
        surplus == Overflow(S \ expired, d, t1)
    IN  [blocks |-> (S \ expired) \ surplus, size |-> Less(t1, Size(surplus))]

\* The believed size once the transaction has committed: only a new block counts.
Grown(c, d) == Seeded(d) + (IF c \in Routed(d) THEN 0 ELSE script[c].size)

\* A record a clear has put behind the floor is not materialised again.
BelowFloor(c, d) == c <= floors.ram[d]

\* append: transaction, then retention.
Materialise(c) ==
    LET d == script[c].set
        after == Retained(Routed(d) \cup {c}, d, script[c].time, Grown(c, d))
    IN  /\ IF BelowFloor(c, d) THEN UNCHANGED <<memory, persistent, tracked>>
           ELSE /\ Put(d, after.blocks)
                /\ tracked' = [tracked EXCEPT ![d] = after.size]
        /\ UNCHANGED <<script, policy, floors, cleared>>

\* The live consumer hands over the next record.
Live ==
    /\ head < Len(script)
    /\ head' = head + 1
    /\ Materialise(head + 1)
    /\ UNCHANGED left

\* A rebuild, or a page whose acknowledgement was lost, hands an older one over again.
Replay ==
    /\ \E c \in 1..head : Materialise(c)
    /\ Spend("replays")
    /\ UNCHANGED head

\* append fails before its COMMIT: the insert is rolled back, the size stays seeded.
\* The consumer keeps its cursor.
AppendFails ==
    /\ May("append")
    /\ \E c \in 1..Len(script) :
           LET d == script[c].set
           IN  /\ c <= head + 1 /\ ~BelowFloor(c, d)
               /\ tracked' = [tracked EXCEPT ![d] = Seeded(d)]
    /\ UNCHANGED <<script, head, memory, persistent, policy, floors, cleared>>

\* append commits its block and fails while retention deletes: every DELETE is its
\* own transaction, and what is gone has not been subtracted.
RetentionFails ==
    /\ May("retention")
    /\ \E c \in 1..Len(script) :
           LET d == script[c].set
               blocks == Routed(d) \cup {c}
               victims == ByTime(Expired(blocks, d, script[c].time))
           IN  /\ c <= head + 1 /\ ~BelowFloor(c, d)
               /\ Len(victims) > 0
               /\ \E n \in 0..Len(victims) - 1 :
                      Put(d, blocks \ {victims[i] : i \in 1..n})
               /\ tracked' = [tracked EXCEPT ![d] = Grown(c, d)]
    /\ UNCHANGED <<script, head, policy, floors, cleared>>

\* status: every dataset's size is seeded.
Status ==
    /\ tracked' = [d \in Datasets |-> Seeded(d)]
    /\ UNCHANGED <<script, head, memory, persistent, policy, floors, cleared, left>>

\* forget_tracked_bytes.
Forgotten == [d \in Datasets |-> Unknown]

\* prepare_policy_migration and apply_policies: a dataset newly routed to memory
\* starts empty there, durable rows stay.
SwitchPolicy ==
    /\ Spend("maintenance")
    /\ \E p \in [Datasets -> Policies] :
           /\ p # policy
           /\ policy' = p
           /\ memory' = [d \in Datasets |->
                  IF p[d].backend = "memory" /\ policy[d].backend # "memory" THEN {}
                  ELSE memory[d]]
    /\ tracked' = Forgotten
    /\ UNCHANGED <<script, head, persistent, floors, cleared>>

Without(table, D) == [d \in Datasets |-> IF d \in D THEN {} ELSE table[d]]

\* A variant that lets the in-memory floor do.
RamFloors(D) == [floors EXCEPT !.ram = [d \in Datasets |-> IF d \in D THEN head ELSE @[d]]]

\* write_clear_floor in the durable transaction, then clear_floors.
Floors(D) ==
    [ram |-> [d \in Datasets |-> IF d \in D THEN head ELSE floors.ram[d]],
     disk |-> [d \in Datasets |-> IF d \in D THEN head ELSE floors.disk[d]]]

Through(D) == [d \in Datasets |-> IF d \in D THEN head ELSE cleared[d]]

\* clear_datasets, to its end.
Clear ==
    /\ Spend("maintenance")
    /\ \E D \in SUBSET Datasets \ {{}} :
           /\ memory' = Without(memory, D) /\ persistent' = Without(persistent, D)
           /\ floors' = Floors(D)
           /\ cleared' = Through(D)
    /\ tracked' = Forgotten
    /\ UNCHANGED <<script, head, policy>>

\* clear_datasets fails: on its durable transaction, when the volatile rows are gone
\* already, or on the VACUUM that follows.  Neither path forgets the cached sizes.
ClearFails ==
    /\ May("clear")
    /\ \E D \in SUBSET Datasets \ {{}} :
           /\ memory' = Without(memory, D)
           /\ \/ UNCHANGED <<persistent, floors>>
              \/ persistent' = Without(persistent, D) /\ floors' = Floors(D)
    /\ UNCHANGED <<script, head, policy, tracked, cleared>>

\* recreate_database: an empty file that already holds the floors replaces the old one.
Recreate ==
    /\ Spend("maintenance")
    /\ memory' = None /\ persistent' = None
    /\ floors' = Floors(Datasets)
    /\ cleared' = Through(Datasets)
    /\ tracked' = Forgotten
    /\ UNCHANGED <<script, head, policy>>

\* recreate_database fails before its rename: the old file is opened again.
RecreateFails ==
    /\ May("recreate")
    /\ UNCHANGED <<script, head, memory, persistent, policy, floors, tracked, cleared>>

\* The process dies, possibly inside recreate_database with the rename done.
Restart ==
    /\ Spend("restarts")
    /\ memory' = None
    /\ \/ UNCHANGED <<persistent, cleared>> /\ floors' = [floors EXCEPT !.ram = floors.disk]
       \/ persistent' = None /\ floors' = Floors(Datasets) /\ cleared' = Through(Datasets)
    /\ tracked' = Forgotten
    /\ UNCHANGED <<script, head, policy>>

Next ==
    \/ Live \/ Replay \/ AppendFails \/ RetentionFails \/ Status
    \/ SwitchPolicy \/ Clear \/ ClearFails \/ Recreate \/ RecreateFails \/ Restart

Spec == Init /\ [][Next]_vars

-------------------------------------------------------------------------------
Blocks == SUBSET (1..Len(script))

\* The variables stay in their types; a block is only ever in its own dataset's tables.
TypeOK ==
    /\ script \in Scripts /\ head \in 0..Len(script)
    /\ memory \in [Datasets -> Blocks] /\ persistent \in [Datasets -> Blocks]
    /\ policy \in [Datasets -> Policies]
    /\ \A r \in {"ram", "disk"} : floors[r] \in [Datasets -> 0..head]
    /\ tracked \in [Datasets -> Int] /\ cleared \in [Datasets -> 0..head]
    /\ \A d \in Datasets, c \in 1..Len(script) :
           c \in memory[d] \cup persistent[d] => script[c].set = d

\* The cached size of a dataset is what its table holds (comments at
\* meter_history.cpp:339 and :733), through appends, replays, failed appends,
\* policy switches, clears and restarts.
TrackedBytesExact ==
    \A d \in Datasets : tracked[d] \in {Unknown, Size(Routed(d))}

\* Retention removes what the policy names and no more: an evicted block was
\* older than the limit, or the blocks that stayed would exceed the byte limit with
\* the youngest evicted one; what stays fits (append, meter_history.cpp:1374).
EvictsSurplus ==
    \A d \in Datasets :
        LET before == Routed(d)
            now == Routed(d)'
            limit == policy[d].bytes
            gone == before \ now
            expired == {c \in gone : \E n \in 1..head' : script[n].set = d
                            /\ policy[d].age # 0
                            /\ script[c].time < script[n].time - policy[d].age}
        IN  (head' # head \/ left'.replays # left.replays) /\ now # before =>
                /\ limit # 0 /\ Cardinality(now) > 0 => Size(now) <= limit
                /\ gone \subseteq expired
                   \/ \E c \in gone \ expired : Size(now \cup {c}) > limit

\* Data a command reported as deleted does not come back, whatever is replayed
\* and whenever the process restarts (clear_datasets, meter_history.hpp:205).
ClearedStaysCleared ==
    \A d \in Datasets : \A c \in memory[d] \cup persistent[d] : c > cleared[d]
===============================================================================
