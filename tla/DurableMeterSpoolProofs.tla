----------------------- MODULE DurableMeterSpoolProofs -----------------------
(* Proofs about DurableMeterSpool for every value of its constants. *)
EXTENDS DurableMeterSpool, TLAPS, FiniteSetTheorems, WellFoundedInduction

\* A non-empty set of naturals has a least element, and a bounded one a
\* greatest: what MAX(cursor) of a table rests on.
LEMMA LeastElement ==
  ASSUME NEW T \in SUBSET Nat, T # {}
  PROVE  \E m \in T : \A n \in T : m <= n
<1> DEFINE Less == OpToRel(<, Nat)
<1>1. IsWellFoundedOn(Less, Nat)
  BY Zenon, NatLessThanWellFounded
<1>2. \A x, y \in Nat : <<y, x>> \in Less <=> y < x
  BY Zenon DEF OpToRel
<1> HIDE DEF Less
<1>3. PICK x \in T : \A y \in T : ~ (<<y, x>> \in Less)
  BY <1>1, WFMin, Zenon
<1>4. \A y \in T : ~ (y < x)
  BY <1>2, <1>3, Zenon
<1> QED
  BY <1>4

\* A non-empty bounded set of naturals has a greatest element (MAX).
LEMMA GreatestElement ==
  ASSUME NEW T \in SUBSET Nat, T # {}, NEW bound \in Nat,
         \A n \in T : n <= bound
  PROVE  \E m \in T : \A n \in T : n <= m
<1> DEFINE U == {u \in Nat : \A n \in T : n <= u}
<1>1. U \in SUBSET Nat /\ U # {}
  BY Zenon
<1>2. PICK u \in U : \A v \in U : u <= v
  BY Zenon, <1>1, LeastElement
<1>3. ASSUME u \notin T PROVE FALSE
  <2>0. PICK n \in T : n \in Nat /\ n <= u
    BY Zenon, <1>2
  <2>1. u # 0
    BY <1>3, <2>0
  <2>2. u - 1 \in U
    BY <1>3, <2>1
  <2> QED
    BY <1>2, <2>2
<1> QED
  BY Zenon, <1>3

-----------------------------------------------------------------------------
\* The tables.

\* Newest is the maximum it stands for, on any bounded table.
LEMMA NewestIsMaximum ==
  ASSUME NEW S \in SUBSET Record, NEW bound \in Nat,
         \A r \in S : r.cursor <= bound
  PROVE  /\ Newest(S) \in Nat
         /\ Newest(S) <= bound
         /\ \A r \in S : r.cursor <= Newest(S)
<1>1. CASE S = {}
  BY <1>1 DEF Newest
<1>2. CASE S # {}
  <2>1. Cursors(S) \in SUBSET Nat /\ Cursors(S) # {}
    BY Zenon, <1>2 DEF Cursors, Record
  <2>2. \A n \in Cursors(S) : n <= bound
    BY Zenon DEF Cursors
  <2>3. \E m \in Cursors(S) : \A n \in Cursors(S) : n <= m
    BY Zenon, <2>1, <2>2, GreatestElement
  <2>4. Newest(S) \in Cursors(S) /\ \A n \in Cursors(S) : n <= Newest(S)
    BY Zenon, <1>2, <2>3 DEF Newest
  <2>5. \A r \in S : r.cursor \in Cursors(S)
    BY Zenon DEF Cursors
  <2> QED
    BY Zenon, <2>1, <2>2, <2>4, <2>5
<1> QED
  BY Zenon, <1>1, <1>2

\* What holds of both databases whatever the lease file does.
TablesOK ==
  \A b \in Backends :
    /\ IsFiniteSet(db[b].records)
    /\ \A r \in db[b].records : r.cursor <= db[b].seq

TypeInv == TypeOK /\ TablesOK

\* The live database is well formed.
LEMMA LiveTables ==
  ASSUME TypeInv
  PROVE  /\ policy.backend \in Backends
         /\ live \in Database
         /\ live = db[policy.backend]
         /\ IsFiniteSet(live.records)
         /\ \A r \in live.records : r.cursor <= live.seq
  BY Zenon DEF TypeInv, TypeOK, TablesOK, Policy, live

\* The rows of a publish are typed, finite in number and numbered from the
\* sequence upward.
LEMMA InsertedRowsAreNew ==
  ASSUME TypeInv, NEW b \in Batches
  PROVE  /\ NewCount(b) \in Nat
         /\ InsertedRows(b) \subseteq Record
         /\ IsFiniteSet(InsertedRows(b))
         /\ \A r \in InsertedRows(b) :
              live.seq < r.cursor /\ r.cursor <= live.seq + NewCount(b)
         /\ NewCount(b) # 0 => InsertedRows(b) # {}
<1> DEFINE N == NewIndices(b)
           Rank(i) == {j \in N : j <= i}
           row == [i \in N |-> [cursor |-> live.seq + Cardinality(Rank(i)),
                                key |-> b[i]]]
<1>1. b \in Seq(Keys) /\ live.seq \in Nat
  BY Zenon, SpoolAssumption, LiveTables DEF Database
<1>2. N \subseteq 1..Len(b) /\ Len(b) \in Nat
  BY <1>1 DEF NewIndices
<1>3. IsFiniteSet(N) /\ Cardinality(N) \in Nat
  <2>1. IsFiniteSet(1..Len(b))
    BY <1>2, FS_Interval
  <2>2. IsFiniteSet(N)
    BY Zenon, <1>2, <2>1, FS_Subset
  <2> QED
    BY Zenon, <2>2, FS_CardinalityType
<1>4. ASSUME NEW i \in N
      PROVE  Cardinality(Rank(i)) \in 1..Cardinality(N)
  <2>1. Rank(i) \in SUBSET N /\ i \in Rank(i)
    BY <1>2, <1>4
  <2>2. IsFiniteSet(Rank(i)) /\ Cardinality(Rank(i)) <= Cardinality(N)
    BY Zenon, <1>3, <2>1, FS_Subset
  <2>3. Cardinality(Rank(i)) \in Nat /\ Cardinality(Rank(i)) # 0
    BY Zenon, <2>1, <2>2, FS_CardinalityType, FS_EmptySet
  <2> QED
    BY <1>3, <2>2, <2>3
<1>5. InsertedRows(b) = {row[i] : i \in N}
  BY Zenon DEF InsertedRows
<1>6. row \in Surjection(N, InsertedRows(b))
  BY Zenon, <1>5 DEF Surjection, Range
<1>7. IsFiniteSet(InsertedRows(b))
  BY Zenon, <1>3, <1>6, FS_Surjection
<1>8. \A i \in N : b[i] \in Keys
  BY <1>1, <1>2
<1>9. \A i \in N : /\ row[i] \in Record
                  /\ live.seq < row[i].cursor
                  /\ row[i].cursor <= live.seq + Cardinality(N)
  BY <1>1, <1>3, <1>4, <1>8 DEF Record
<1>10. Cardinality(N) # 0 => N # {}
  BY Zenon, FS_EmptySet
<1> HIDE DEF row
<1> QED
  BY Zenon, <1>3, <1>5, <1>7, <1>9, <1>10 DEF NewCount

-----------------------------------------------------------------------------
\* Type correctness, with or without lease faults.

\* seed_cursor_space never seeds below the lease it read nor, without a
\* lease, below the wall clock.
LEMMA SeedTyped ==
  ASSUME TypeInv, NEW b \in Backends, NEW lease \in Nat
  PROVE  /\ SeedCursor(lease, db[b]) \in Nat
         /\ lease <= SeedCursor(lease, db[b])
         /\ lease = 0 => clock <= SeedCursor(lease, db[b])
<1>1. db[b] \in Database /\ clock \in Nat
  BY Zenon DEF TypeInv, TypeOK
<1>2. Newest(db[b].records) \in Nat
  BY Zenon, <1>1, NewestIsMaximum DEF TypeInv, TablesOK, Database
<1> QED
  BY <1>1, <1>2 DEF SeedCursor, Larger

\* read_cursor_lease and write_cursor_lease deal in natural numbers.
LEMMA LeaseTyped ==
  ASSUME TypeInv
  PROVE  /\ ReadLease \subseteq Nat
         /\ \A value \in Nat : WrittenLease(value) \subseteq Nat
  BY DEF TypeInv, TypeOK, ReadLease, WrittenLease

\* Raising sqlite_sequence changes nothing else and never lowers it.
LEMMA RaisedTyped ==
  ASSUME NEW d \in Database, NEW n \in Nat
  PROVE  /\ RaiseSequence(d, n) \in Database
         /\ RaiseSequence(d, n).records = d.records
         /\ RaiseSequence(d, n).registered = d.registered
         /\ RaiseSequence(d, n).ack = d.ack
         /\ RaiseSequence(d, n).seq = Larger(d.seq, n)
         /\ d.seq <= RaiseSequence(d, n).seq
         /\ n <= RaiseSequence(d, n).seq
  BY DEF RaiseSequence, Larger, Database

\* A device before its first start is well typed.
LEMMA TypeInit == Init => TypeInv
<1> SUFFICES ASSUME Init PROVE TypeInv
  BY Zenon
<1>1. PICK legacy \in {{}} \cup {{[cursor |-> 1, key |-> k]} : k \in Keys} :
        /\ db = [b \in Backends |->
                  IF b = "persistent"
                  THEN [EmptyDatabase EXCEPT !.records = legacy,
                                             !.seq = Newest(legacy)]
                  ELSE EmptyDatabase]
        /\ ceiling = Newest(legacy)
  BY Zenon DEF Init
<1>2. legacy \in SUBSET Record /\ \A r \in legacy : r.cursor <= 1
  BY DEF Record
<1>3. IsFiniteSet(legacy)
  BY ZenonT(40), FS_EmptySet, FS_Singleton
<1>4. Newest(legacy) \in Nat /\ \A r \in legacy : r.cursor <= Newest(legacy)
  BY Zenon, <1>2, NewestIsMaximum
<1>5. EmptyDatabase \in Database
  BY Zenon DEF EmptyDatabase, Database
<1>6. db \in [Backends -> Database]
  BY Zenon, <1>1, <1>2, <1>4, <1>5 DEF Database
<1>7. TablesOK
  BY Zenon, <1>1, <1>3, <1>4, FS_EmptySet DEF TablesOK, EmptyDatabase
<1> QED
  BY Zenon, <1>1, <1>4, <1>6, <1>7, SpoolAssumption DEF TypeInv, TypeOK, Init

\* Replacing one database by a well-formed one keeps the tables well formed.
LEMMA TablesUpdate ==
  ASSUME TypeInv, NEW b \in Backends, NEW d \in Database,
         IsFiniteSet(d.records), \A r \in d.records : r.cursor <= d.seq,
         db' = [db EXCEPT ![b] = d]
  PROVE  db' \in [Backends -> Database] /\ TablesOK'
  BY Zenon DEF TypeInv, TypeOK, TablesOK

\* Building an Impl at process start keeps the types.
LEMMA TypeStart ==
  ASSUME TypeInv, NEW p \in Policies, Start(p)
  PROVE  TypeInv'
<1> DEFINE d == db[p.backend]
<1>1. p \in Policy /\ p.backend \in Backends /\ d \in Database
  BY Zenon, SpoolAssumption DEF Policy, TypeInv, TypeOK
<1>2. PICK lease \in ReadLease :
        /\ SeedCursorSpace(SeedCursor(lease, d))
        /\ db' = [db EXCEPT ![p.backend] = RaiseSequence(d, SeedCursor(lease, d))]
        /\ tracked' = Cardinality(d.records)
  BY Zenon DEF Start, StoredBytes
<1> DEFINE seed == SeedCursor(lease, d)
<1>3. lease \in Nat /\ seed \in Nat
  BY Zenon, <1>1, LeaseTyped, SeedTyped
<1> HIDE DEF d, seed
<1>4. IsFiniteSet(d.records) /\ \A r \in d.records : r.cursor <= d.seq
  BY Zenon, <1>1 DEF TypeInv, TablesOK, d
<1>5. Cardinality(d.records) \in Nat
  BY Zenon, <1>4, FS_CardinalityType
<1>6. RaiseSequence(d, seed) \in Database
  BY Zenon, <1>1, <1>3, RaisedTyped
<1>7. /\ RaiseSequence(d, seed).records = d.records
      /\ d.seq <= RaiseSequence(d, seed).seq
  BY Zenon, <1>1, <1>3, RaisedTyped
<1>8. \A r \in d.records : r.cursor <= RaiseSequence(d, seed).seq
  BY <1>1, <1>4, <1>6, <1>7 DEF Database, Record
<1>9. db' \in [Backends -> Database] /\ TablesOK'
  BY Zenon, <1>1, <1>2, <1>4, <1>6, <1>7, <1>8, TablesUpdate DEF seed
<1>10. seed + Reservation \in Nat
  BY <1>3, SpoolAssumption
<1>11. sessionStart' \in Nat /\ cursorLease' \in Nat /\ leaseFile' \in Nat
  BY Zenon, <1>2, <1>3, <1>10, LeaseTyped DEF SeedCursorSpace, seed
<1> QED
  BY Zenon, <1>1, <1>2, <1>5, <1>9, <1>11 DEF Start, TypeInv, TypeOK, history

\* The end of the process keeps the types.
LEMMA TypeStop ==
  ASSUME TypeInv, Stop
  PROVE  TypeInv'
<1>1. EmptyDatabase \in Database /\ EmptyDatabase.records = {}
  BY Zenon DEF EmptyDatabase, Database
<1>2. db' \in [Backends -> Database] /\ TablesOK'
  BY Zenon, <1>1, FS_EmptySet, TablesUpdate DEF Stop, Backends
<1> QED
  BY Zenon, <1>2 DEF Stop, TypeInv, TypeOK, implVars

\* publish_records keeps the types and leaves no row above sqlite_sequence.
LEMMA TypePublish ==
  ASSUME TypeInv, NEW b \in Batches, PublishRecords(b)
  PROVE  TypeInv'
<1> DEFINE evicted == Evicted(b)
           inserted == InsertedRows(b)
           n == NewCount(b)
           rows == (live.records \ evicted) \cup inserted
           last == live.seq + n
           d == [live EXCEPT !.records = rows, !.seq = last]
<1>1. /\ live \in Database
      /\ IsFiniteSet(live.records)
      /\ \A r \in live.records : r.cursor <= live.seq
      /\ policy.backend \in Backends
  BY Zenon, LiveTables
<1>2. /\ n \in Nat
      /\ inserted \subseteq Record
      /\ IsFiniteSet(inserted)
      /\ \A r \in inserted : live.seq < r.cursor /\ r.cursor <= live.seq + n
  BY Zenon, InsertedRowsAreNew
<1>3. evicted \in SUBSET live.records
  BY Zenon DEF Evicted, Oldest
<1>4. db' = [db EXCEPT ![policy.backend] = d]
  BY Zenon DEF PublishRecords, Commit
<1>5. /\ dropped' = dropped + Cardinality(Unacknowledged(evicted))
      /\ ceiling' = Larger(ceiling, Newest(inserted))
      /\ clock' = clock + n
  BY Zenon DEF PublishRecords
<1> HIDE DEF evicted, inserted, n
<1>6. IsFiniteSet(evicted) /\ Cardinality(evicted) \in Nat
  BY Zenon, <1>1, <1>3, FS_Subset, FS_CardinalityType
<1>7. Cardinality(Unacknowledged(evicted)) \in Nat
  BY Zenon, <1>6, FS_Subset, FS_CardinalityType DEF Unacknowledged
<1>8. Newest(inserted) \in Nat
  BY <1>1, <1>2, NewestIsMaximum DEF Database
<1>9. IsFiniteSet(rows)
  BY Zenon, <1>1, <1>2, FS_Difference, FS_Union
<1>10. rows \in SUBSET Record /\ last \in Nat
  BY <1>1, <1>2 DEF Database
<1>11. \A r \in rows : r.cursor <= last
  BY <1>1, <1>2 DEF Database, Record
<1> HIDE DEF rows, last
<1>12. d \in Database /\ d.records = rows /\ d.seq = last
  BY Zenon, <1>1, <1>10 DEF Database
<1> HIDE DEF d
<1>13. db' \in [Backends -> Database] /\ TablesOK'
  BY Zenon, <1>1, <1>4, <1>9, <1>11, <1>12, TablesUpdate
<1>14. dropped' \in Nat /\ ceiling' \in Nat /\ clock' \in Nat
  BY <1>2, <1>5, <1>7, <1>8 DEF TypeInv, TypeOK, Larger
<1>15. tracked' \in Nat
  BY <1>2, <1>6 DEF PublishRecords, TypeInv, TypeOK, Larger, n, evicted
<1> QED
  BY Zenon, <1>13, <1>14, <1>15 DEF PublishRecords, TypeInv, TypeOK

\* A transaction that only touches the consumers table.
LEMMA TypeConsumers ==
  ASSUME TypeInv,
         NEW registered \in SUBSET Consumers, NEW ack \in [Consumers -> Nat],
         Commit([live EXCEPT !.registered = registered, !.ack = ack])
  PROVE  db' \in [Backends -> Database] /\ TablesOK'
<1> DEFINE d == [live EXCEPT !.registered = registered, !.ack = ack]
<1>1. /\ d \in Database
      /\ d.records = live.records
      /\ d.seq = live.seq
  BY Zenon, LiveTables DEF Database
<1>2. db' = [db EXCEPT ![policy.backend] = d]
  BY Zenon DEF Commit
<1> QED
  BY Zenon, <1>1, <1>2, LiveTables, TablesUpdate

\* register_consumer and unregister_consumer keep the types.
LEMMA TypeRegister ==
  ASSUME TypeInv, NEW c \in Consumers,
         RegisterConsumer(c) \/ UnregisterConsumer(c)
  PROVE  TypeInv'
<1>1. live.registered \subseteq Consumers /\ live.ack \in [Consumers -> Nat]
  BY Zenon, LiveTables DEF Database
<1>2. db' \in [Backends -> Database] /\ TablesOK'
  <2>1. CASE RegisterConsumer(c)
    <3> DEFINE ack == IF c \in live.registered THEN live.ack
                      ELSE [live.ack EXCEPT ![c] = 0]
    <3>1. ack \in [Consumers -> Nat] /\ live.registered \cup {c} \in SUBSET Consumers
      BY Zenon, <1>1
    <3>2. Commit([live EXCEPT !.registered = live.registered \cup {c}, !.ack = ack])
      BY Zenon, <2>1 DEF RegisterConsumer
    <3> QED
      BY Zenon, <3>1, <3>2, TypeConsumers
  <2>2. CASE UnregisterConsumer(c)
    <3> DEFINE ack == [live.ack EXCEPT ![c] = 0]
    <3>1. ack \in [Consumers -> Nat] /\ live.registered \ {c} \in SUBSET Consumers
      BY Zenon, <1>1
    <3>2. Commit([live EXCEPT !.registered = live.registered \ {c}, !.ack = ack])
      BY Zenon, <2>2 DEF UnregisterConsumer
    <3> QED
      BY Zenon, <3>1, <3>2, TypeConsumers
  <2> QED
    BY Zenon, <2>1, <2>2
<1> QED
  BY <1>2 DEF RegisterConsumer, UnregisterConsumer, TypeInv, TypeOK, implVars,
              history

\* A page is never empty, so its last cursor is typed and in the table.
LEMMA TypeRead ==
  ASSUME TypeInv, NEW c \in Consumers, ReadAfter(c)
  PROVE  TypeInv'
<1>1. Page(c) \in SUBSET Record /\ live.seq \in Nat
      /\ \A r \in Page(c) : r.cursor <= live.seq
  BY Zenon, LiveTables DEF Page, Oldest, Database
<1>2. Newest(Page(c)) \in Nat
  BY Zenon, <1>1, NewestIsMaximum
<1> QED
  BY Zenon, <1>2 DEF ReadAfter, TypeInv, TypeOK, TablesOK, implVars

\* renew_cursor_lease leaves natural numbers behind.
LEMMA RenewTyped ==
  ASSUME TypeInv, RenewCursorLease
  PROVE  leaseFile' \in Nat /\ cursorLease' \in Nat
<1>1. Newest(live.records) \in Nat
  BY Zenon, LiveTables, NewestIsMaximum DEF Database
<1> QED
  BY <1>1, SpoolAssumption DEF RenewCursorLease, TypeInv, TypeOK

\* acknowledge followed by prune keeps the types.
LEMMA TypeAcknowledge ==
  ASSUME TypeInv, NEW c \in Consumers, AcknowledgeAndPrune(c)
  PROVE  TypeInv'
<1> DEFINE ack == [live.ack EXCEPT ![c] = Larger(live.ack[c], held[c])]
           acked == [live EXCEPT !.ack = ack]
<1>1. /\ live \in Database
      /\ IsFiniteSet(live.records)
      /\ \A r \in live.records : r.cursor <= live.seq
      /\ policy.backend \in Backends
  BY Zenon, LiveTables
<1>2. ack \in [Consumers -> Nat]
  BY Zenon, <1>1 DEF Database, TypeInv, TypeOK, Larger
<1>3. PICK expired \in SUBSET {r \in live.records : r.cursor <= MinAck(acked)} :
        LET aged == live.records \ expired
            bytes == Larger(tracked - Cardinality(expired), 0)
            victims == ByteVictims(aged, MinAck(acked), bytes)
        IN  /\ Commit([acked EXCEPT !.records = aged \ victims])
            /\ tracked' = Larger(bytes - Cardinality(victims), 0)
  BY Zenon DEF AcknowledgeAndPrune
<1> DEFINE aged == live.records \ expired
           bytes == Larger(tracked - Cardinality(expired), 0)
           victims == ByteVictims(aged, MinAck(acked), bytes)
           rows == aged \ victims
           d == [live EXCEPT !.ack = ack, !.records = rows]
<1>4. db' = [db EXCEPT ![policy.backend] = [acked EXCEPT !.records = rows]]
  BY Zenon, <1>3 DEF Commit
<1>5. tracked' = Larger(bytes - Cardinality(victims), 0)
  BY Zenon, <1>3
<1>6. victims \in SUBSET aged /\ expired \in SUBSET live.records
  BY Zenon DEF ByteVictims, Oldest
<1> HIDE DEF ack, victims
<1>7. IsFiniteSet(expired) /\ IsFiniteSet(aged) /\ IsFiniteSet(victims)
      /\ IsFiniteSet(rows)
  BY Zenon, <1>1, <1>6, FS_Subset
<1>8. Cardinality(expired) \in Nat /\ Cardinality(victims) \in Nat
  BY Zenon, <1>7, FS_CardinalityType
<1>9. tracked' \in Nat
  BY <1>5, <1>8 DEF TypeInv, TypeOK, Larger
<1>10. rows \in SUBSET live.records
  BY Zenon
<1> HIDE DEF rows
<1>11. /\ [acked EXCEPT !.records = rows] \in Database
       /\ [acked EXCEPT !.records = rows].records = rows
       /\ [acked EXCEPT !.records = rows].seq = live.seq
  BY Zenon, <1>1, <1>2, <1>10 DEF Database
<1>12. db' \in [Backends -> Database] /\ TablesOK'
  BY Zenon, <1>1, <1>4, <1>7, <1>10, <1>11, TablesUpdate
<1>13. leaseFile' \in Nat /\ cursorLease' \in Nat
  BY Zenon, RenewTyped DEF AcknowledgeAndPrune
<1>14. held' \in [Consumers -> Nat]
  BY Zenon DEF AcknowledgeAndPrune, TypeInv, TypeOK
<1> QED
  BY Zenon, <1>9, <1>12, <1>13, <1>14 DEF AcknowledgeAndPrune, TypeInv, TypeOK, history

\* apply_policy to another backend keeps the types.
LEMMA TypeSwitch ==
  ASSUME TypeInv, NEW p \in Policies, ApplyPolicySwitch(p)
  PROVE  TypeInv'
<1> DEFINE d == db[p.backend]
           newest == Newest(live.records)
<1>1. /\ live \in Database
      /\ IsFiniteSet(live.records)
      /\ \A r \in live.records : r.cursor <= live.seq
      /\ p \in Policy /\ p.backend \in Backends /\ d \in Database
  BY Zenon, LiveTables, SpoolAssumption DEF Policy, TypeInv, TypeOK
<1>2. PICK lease \in ReadLease :
        /\ SeedCursorSpace(SeedCursor(lease, d))
        /\ db' = [b \in Backends |->
                   IF b = p.backend
                   THEN [RaiseSequence(d, Larger(SeedCursor(lease, d), newest)) EXCEPT
                          !.records = live.records,
                          !.registered = live.registered,
                          !.ack = live.ack]
                   ELSE IF b = "memory" THEN EmptyDatabase ELSE db[b]]
  BY Zenon DEF ApplyPolicySwitch, Copied
<1> DEFINE seed == SeedCursor(lease, d)
<1>3. lease \in Nat /\ seed \in Nat
  BY Zenon, <1>1, LeaseTyped, SeedTyped
<1>4. newest \in Nat /\ \A r \in live.records : r.cursor <= newest
  BY Zenon, <1>1, NewestIsMaximum DEF Database
<1> HIDE DEF d, seed, newest
<1> DEFINE raised == RaiseSequence(d, Larger(seed, newest))
           copy == [raised EXCEPT !.records = live.records,
                                  !.registered = live.registered,
                                  !.ack = live.ack]
<1>5. Larger(seed, newest) \in Nat /\ newest <= Larger(seed, newest)
  BY <1>3, <1>4 DEF Larger
<1>6. raised \in Database /\ Larger(seed, newest) <= raised.seq
  BY Zenon, <1>1, <1>5, RaisedTyped
<1> HIDE DEF raised
<1>7. copy \in Database /\ copy.records = live.records /\ copy.seq = raised.seq
  BY Zenon, <1>1, <1>6 DEF Database
<1>8. \A r \in copy.records : r.cursor <= copy.seq
  BY <1>1, <1>4, <1>5, <1>6, <1>7 DEF Database, Record
<1>9. EmptyDatabase \in Database /\ EmptyDatabase.records = {}
  BY Zenon DEF EmptyDatabase, Database
<1>10. db' = [b \in Backends |->
               IF b = p.backend THEN copy
               ELSE IF b = "memory" THEN EmptyDatabase ELSE db[b]]
  BY Zenon, <1>2 DEF seed, raised
<1> HIDE DEF copy
<1>11. db' \in [Backends -> Database]
  BY Zenon, <1>7, <1>9, <1>10 DEF TypeInv, TypeOK
<1>12. TablesOK'
  BY Zenon, <1>1, <1>7, <1>8, <1>9, <1>10, FS_EmptySet DEF TypeInv, TablesOK
<1>13. seed + Reservation \in Nat
  BY <1>3, SpoolAssumption
<1>14. sessionStart' \in Nat /\ cursorLease' \in Nat /\ leaseFile' \in Nat
  BY Zenon, <1>2, <1>3, <1>13, LeaseTyped DEF SeedCursorSpace, seed
<1>15. tracked' \in Nat
  BY Zenon, <1>1, FS_CardinalityType DEF ApplyPolicySwitch, StoredBytes
<1> QED
  BY Zenon, <1>1, <1>11, <1>12, <1>14, <1>15
  DEF ApplyPolicySwitch, TypeInv, TypeOK, history

\* apply_policy that rolls back keeps the types.
LEMMA TypeSwitchFails ==
  ASSUME TypeInv, NEW p \in Policies, ApplyPolicyFails(p)
  PROVE  TypeInv'
<1> DEFINE d == db[p.backend]
<1>1. /\ p.backend \in Backends /\ d \in Database
      /\ IsFiniteSet(d.records) /\ \A r \in d.records : r.cursor <= d.seq
  BY Zenon, SpoolAssumption DEF Policy, TypeInv, TypeOK, TablesOK
<1>2. PICK lease \in ReadLease :
        /\ leaseFile' \in WrittenLease(SeedCursor(lease, d) + Reservation)
        /\ db' = IF p.backend = "memory" THEN db
                 ELSE [db EXCEPT ![p.backend] = RaiseSequence(d, SeedCursor(lease, d))]
  BY Zenon DEF ApplyPolicyFails
<1> DEFINE seed == SeedCursor(lease, d)
<1>3. lease \in Nat /\ seed \in Nat
  BY Zenon, <1>1, LeaseTyped, SeedTyped
<1> HIDE DEF d, seed
<1>4. /\ RaiseSequence(d, seed) \in Database
      /\ RaiseSequence(d, seed).records = d.records
      /\ d.seq <= RaiseSequence(d, seed).seq
  BY Zenon, <1>1, <1>3, RaisedTyped
<1>5. \A r \in d.records : r.cursor <= RaiseSequence(d, seed).seq
  BY <1>1, <1>4 DEF Database, Record
<1>6. db' \in [Backends -> Database] /\ TablesOK'
  <2>1. CASE p.backend = "memory"
    BY Zenon, <1>2, <2>1 DEF TypeInv, TypeOK, TablesOK
  <2>2. CASE p.backend # "memory"
    <3>1. db' = [db EXCEPT ![p.backend] = RaiseSequence(d, seed)]
      BY Zenon, <1>2, <2>2 DEF seed
    <3> QED
      BY Zenon, <1>1, <1>4, <1>5, <3>1, TablesUpdate
  <2> QED
    BY Zenon, <2>1, <2>2
<1>7. leaseFile' \in Nat
  BY <1>2, <1>3, SpoolAssumption, LeaseTyped DEF seed
<1> QED
  BY Zenon, <1>6, <1>7 DEF ApplyPolicyFails, TypeInv, TypeOK, implVars, history

\* Every step of the spool keeps the types.
LEMMA TypeStep == TypeInv /\ [Next]_vars => TypeInv'
<1> SUFFICES ASSUME TypeInv, [Next]_vars PROVE TypeInv'
  BY Zenon
<1>1. ASSUME NEW p \in Policies, Start(p) PROVE TypeInv'
  BY Zenon, <1>1, TypeStart
<1>2. CASE Stop
  BY Zenon, <1>2, TypeStop
<1>3. CASE Tick
  BY <1>3 DEF Tick, TypeInv, TypeOK, TablesOK, implVars, history
<1>4. ASSUME NEW b \in Batches, PublishRecords(b) PROVE TypeInv'
  BY Zenon, <1>4, TypePublish
<1>5. ASSUME NEW c \in Consumers, RegisterConsumer(c) \/ UnregisterConsumer(c)
      PROVE  TypeInv'
  BY Zenon, <1>5, TypeRegister
<1>6. ASSUME NEW c \in Consumers, ReadAfter(c) PROVE TypeInv'
  BY Zenon, <1>6, TypeRead
<1>7. ASSUME NEW c \in Consumers, AcknowledgeAndPrune(c) PROVE TypeInv'
  BY Zenon, <1>7, TypeAcknowledge
<1>8. ASSUME NEW c \in Consumers, AcknowledgeRejected(c) PROVE TypeInv'
  BY Zenon, <1>8 DEF AcknowledgeRejected, TypeInv, TypeOK, TablesOK, implVars, history
<1>9. ASSUME NEW p \in Policies, ApplyPolicyInPlace(p) PROVE TypeInv'
  BY Zenon, <1>9, SpoolAssumption
  DEF ApplyPolicyInPlace, TypeInv, TypeOK, TablesOK, history
<1>10. ASSUME NEW p \in Policies, ApplyPolicySwitch(p) PROVE TypeInv'
  BY Zenon, <1>10, TypeSwitch
<1>11. ASSUME NEW p \in Policies, ApplyPolicyFails(p) PROVE TypeInv'
  BY Zenon, <1>11, TypeSwitchFails
<1>12. CASE UNCHANGED vars
  BY Zenon, <1>12 DEF vars, TypeInv, TypeOK, TablesOK, implVars, history
<1> QED
  BY Zenon, <1>1, <1>2, <1>3, <1>4, <1>5, <1>6, <1>7, <1>8, <1>9, <1>10, <1>11, <1>12
  DEF Next

\* Every reachable state of the spool is typed: the table maxima, the byte
\* counter and the loss counter are natural numbers in every state, whatever
\* happens to the lease file.
THEOREM TypeCorrect == Spec => []TypeOK
<1>1. Spec => []TypeInv
  BY TypeInit, TypeStep, PTL DEF Spec
<1>2. TypeInv => TypeOK
  BY Zenon DEF TypeInv
<1> QED
  BY <1>1, <1>2, PTL

-----------------------------------------------------------------------------
\* The cursor space, when the lease file can be read and written.

IInv == TypeInv /\ CursorSpaceInvariant

\* Without lease faults the lease reads back as it was last written.
LEMMA TrustedLease ==
  ASSUME LeaseFaults = {}
  PROVE  ReadLease = {leaseFile} /\ \A v : WrittenLease(v) = {v}
  BY Zenon DEF ReadLease, WrittenLease

\* A new session's seed is past everything issued and past the last session.
LEMMA SeedIsFresh ==
  ASSUME IInv, NEW b \in Backends
  PROVE  /\ SeedCursor(leaseFile, db[b]) \in Nat
         /\ ceiling <= SeedCursor(leaseFile, db[b])
         /\ sessionStart < SeedCursor(leaseFile, db[b])
<1>1. leaseFile \in Nat /\ clock \in Nat /\ ceiling \in Nat /\ sessionStart \in Nat
  BY Zenon DEF IInv, TypeInv, TypeOK
<1>2. /\ SeedCursor(leaseFile, db[b]) \in Nat
      /\ leaseFile <= SeedCursor(leaseFile, db[b])
      /\ leaseFile = 0 => clock <= SeedCursor(leaseFile, db[b])
  BY Zenon, <1>1, SeedTyped DEF IInv
<1> QED
  BY <1>1, <1>2 DEF IInv, CursorSpaceInvariant

\* The cursor space of a device before its first start.
LEMMA CursorSpaceInit == Init => CursorSpaceInvariant
<1> SUFFICES ASSUME Init PROVE CursorSpaceInvariant
  BY Zenon
<1>1. PICK legacy \in {{}} \cup {{[cursor |-> 1, key |-> k]} : k \in Keys} :
        /\ db = [b \in Backends |->
                  IF b = "persistent"
                  THEN [EmptyDatabase EXCEPT !.records = legacy,
                                             !.seq = Newest(legacy)]
                  ELSE EmptyDatabase]
        /\ ceiling = Newest(legacy)
  BY Zenon DEF Init
<1>2. legacy \in SUBSET Record /\ \A r \in legacy : r.cursor <= 1
  BY DEF Record
<1>3. /\ Newest(legacy) \in Nat
      /\ Newest(legacy) <= 1
      /\ \A r \in legacy : r.cursor <= Newest(legacy)
  BY Zenon, <1>2, NewestIsMaximum
<1>4. \A b \in Backends : \A r \in db[b].records : r.cursor <= ceiling
  BY Zenon, <1>1, <1>3 DEF EmptyDatabase
<1>5. \A b \in Backends : \A c \in Consumers : db[b].ack[c] = 0
  BY Zenon, <1>1 DEF EmptyDatabase
<1> QED
  BY <1>1, <1>3, <1>4, <1>5 DEF Init, CursorSpaceInvariant

\* A session that starts seeds past everything issued and reserves.
LEMMA CursorSpaceStart ==
  ASSUME IInv, LeaseFaults = {}, NEW p \in Policies, Start(p)
  PROVE  CursorSpaceInvariant'
<1> DEFINE seed == SeedCursor(leaseFile, db[p.backend])
<1>1. p.backend \in Backends /\ db \in [Backends -> Database]
  BY Zenon, SpoolAssumption DEF Policy, IInv, TypeInv, TypeOK
<1>2. seed \in Nat /\ ceiling <= seed
  BY Zenon, <1>1, SeedIsFresh
<1>3. /\ sessionStart' = seed
      /\ cursorLease' = seed + Reservation
      /\ leaseFile' = seed + Reservation
      /\ db' = [db EXCEPT ![p.backend] = RaiseSequence(db[p.backend], seed)]
  BY ZenonT(40), TrustedLease DEF Start, SeedCursorSpace
<1>4. policy' = p /\ up' /\ UNCHANGED <<held, clock, ceiling>>
  BY Zenon DEF Start, history
<1> HIDE DEF seed
<1>5. /\ RaiseSequence(db[p.backend], seed).records = db[p.backend].records
      /\ RaiseSequence(db[p.backend], seed).ack = db[p.backend].ack
      /\ seed <= RaiseSequence(db[p.backend], seed).seq
      /\ RaiseSequence(db[p.backend], seed) \in Database
  BY Zenon, <1>1, <1>2, RaisedTyped
<1>6. \A b \in Backends : db'[b].records = db[b].records /\ db'[b].ack = db[b].ack
  BY Zenon, <1>1, <1>3, <1>5
<1>7. live'.seq \in Nat /\ seed <= live'.seq
  BY Zenon, <1>1, <1>3, <1>4, <1>5 DEF live, Database
<1>8. ceiling \in Nat /\ Reservation \in Nat /\ Reservation # 0
  BY SpoolAssumption DEF IInv, TypeInv, TypeOK
<1>9. /\ clock' # 0
      /\ \A b \in Backends : \A r \in db'[b].records : r.cursor <= ceiling'
      /\ \A b \in Backends : \A c \in Consumers : db'[b].ack[c] <= ceiling'
      /\ \A c \in Consumers : held'[c] <= ceiling'
  BY Zenon, <1>4, <1>6 DEF IInv, CursorSpaceInvariant
<1>10. /\ leaseFile' # 0
       /\ cursorLease' <= leaseFile'
       /\ ceiling' <= leaseFile'
       /\ ceiling' <= cursorLease'
       /\ ceiling' <= live'.seq
       /\ sessionStart' < cursorLease'
       /\ sessionStart' < leaseFile'
  BY <1>2, <1>3, <1>4, <1>7, <1>8
<1> QED
  BY Zenon, <1>4, <1>9, <1>10 DEF CursorSpaceInvariant

\* The end of the process keeps the lease and loses only :memory: rows.
LEMMA CursorSpaceStop ==
  ASSUME IInv, Stop
  PROVE  CursorSpaceInvariant'
<1>1. /\ db' = [db EXCEPT !["memory"] = EmptyDatabase]
      /\ up' = FALSE
      /\ UNCHANGED <<leaseFile, sessionStart, held, clock, ceiling>>
  BY Zenon DEF Stop, implVars
<1>2. db \in [Backends -> Database] /\ ceiling \in Nat
  BY Zenon DEF IInv, TypeInv, TypeOK
<1>3. EmptyDatabase.records = {} /\ \A c \in Consumers : EmptyDatabase.ack[c] = 0
  BY Zenon DEF EmptyDatabase
<1>4. \A b \in Backends : \A r \in db'[b].records : r.cursor <= ceiling
  BY Zenon, <1>1, <1>2, <1>3 DEF IInv, CursorSpaceInvariant
<1>5. \A b \in Backends : \A c \in Consumers : db'[b].ack[c] <= ceiling
  BY <1>1, <1>2, <1>3 DEF IInv, CursorSpaceInvariant
<1> QED
  BY Zenon, <1>1, <1>4, <1>5 DEF IInv, CursorSpaceInvariant

\* A publish issues cursors from the sequence up, inside the reservation.
LEMMA CursorSpacePublish ==
  ASSUME IInv, NEW b \in Batches, PublishRecords(b)
  PROVE  CursorSpaceInvariant'
<1> DEFINE n == NewCount(b)
           inserted == InsertedRows(b)
           rows == (live.records \ Evicted(b)) \cup inserted
           last == live.seq + n
           d == [live EXCEPT !.records = rows, !.seq = last]
<1>1. /\ live \in Database
      /\ policy.backend \in Backends
      /\ db \in [Backends -> Database]
      /\ ceiling \in Nat /\ clock \in Nat
      /\ held \in [Consumers -> Nat]
      /\ cursorLease \in Nat
      /\ leaseFile \in Nat
      /\ sessionStart \in Nat
  BY Zenon, LiveTables DEF IInv, TypeInv, TypeOK
<1>2. /\ n \in Nat
      /\ inserted \subseteq Record
      /\ \A r \in inserted : live.seq < r.cursor /\ r.cursor <= last
  BY Zenon, InsertedRowsAreNew DEF IInv
<1>3. /\ db' = [db EXCEPT ![policy.backend] = d]
      /\ ceiling' = Larger(ceiling, Newest(inserted))
      /\ clock' = clock + n
      /\ last <= cursorLease
      /\ up /\ up'
      /\ UNCHANGED <<leaseFile, policy, sessionStart, cursorLease, held>>
  BY Zenon DEF PublishRecords, Commit
<1>4. last \in Nat
  BY <1>1, <1>2 DEF Database
<1>5. rows \in SUBSET Record
  BY Zenon, <1>1, <1>2 DEF Database
<1>6. \A r \in rows : r \in live.records \/ r \in inserted
  BY Zenon
<1> HIDE DEF n, inserted, rows
<1>7. /\ Newest(inserted) \in Nat
      /\ Newest(inserted) <= last
      /\ \A r \in inserted : r.cursor <= Newest(inserted)
  BY Zenon, <1>2, <1>4, NewestIsMaximum
<1>8. ceiling <= live.seq /\ ceiling <= cursorLease
  BY Zenon, <1>3 DEF IInv, CursorSpaceInvariant
<1>9. last = live.seq + n /\ live.seq \in Nat
  BY Zenon, <1>1 DEF Database
<1> HIDE DEF last
<1>10. /\ ceiling' \in Nat
       /\ ceiling <= ceiling'
       /\ Newest(inserted) <= ceiling'
       /\ ceiling' <= last
  BY <1>1, <1>2, <1>3, <1>4, <1>7, <1>8, <1>9 DEF Larger
<1>11. d \in Database /\ d.records = rows /\ d.ack = live.ack /\ d.seq = last
  BY Zenon, <1>1, <1>4, <1>5 DEF Database
<1> HIDE DEF d
<1>12. \A r \in rows : r.cursor <= ceiling'
  <2>1. \A r \in live.records : r.cursor <= ceiling /\ r.cursor \in Nat
    BY Zenon, <1>1 DEF IInv, CursorSpaceInvariant, live, Database, Record
  <2>2. \A r \in inserted : r.cursor \in Nat
    BY Zenon, <1>2 DEF Record
  <2> QED
    BY <1>1, <1>6, <1>7, <1>10, <2>1, <2>2
<1>13. \A k \in Backends : \A r \in db[k].records : r.cursor <= ceiling'
  BY <1>1, <1>10 DEF IInv, CursorSpaceInvariant, Database, Record
<1>14. \A k \in Backends : \A r \in db'[k].records : r.cursor <= ceiling'
  BY Zenon, <1>1, <1>3, <1>11, <1>12, <1>13
<1>15. \A k \in Backends : \A c \in Consumers : db'[k].ack[c] <= ceiling'
  <2>1. \A k \in Backends : db'[k].ack = db[k].ack
    BY Zenon, <1>1, <1>3, <1>11 DEF live
  <2> QED
    BY <1>1, <1>10, <2>1 DEF IInv, CursorSpaceInvariant, Database
<1>16. \A c \in Consumers : held'[c] <= ceiling'
  BY <1>1, <1>3, <1>10 DEF IInv, CursorSpaceInvariant
<1>17. live'.seq = last
  BY Zenon, <1>1, <1>3, <1>11 DEF live
<1>18. leaseFile' # 0 /\ cursorLease' <= leaseFile' /\ sessionStart' < cursorLease'
       /\ sessionStart' < leaseFile' /\ clock' # 0
  BY <1>1, <1>2, <1>3 DEF IInv, CursorSpaceInvariant
<1>19. ceiling' <= cursorLease' /\ ceiling' <= leaseFile'
  BY SMTT(30), <1>1, <1>3, <1>4, <1>10, <1>18
<1> QED
  BY Zenon, <1>10, <1>14, <1>15, <1>16, <1>17, <1>18, <1>19 DEF CursorSpaceInvariant

\* A consumer is (un)registered at 0 or keeps its acknowledgement.
LEMMA CursorSpaceRegister ==
  ASSUME IInv, NEW c \in Consumers,
         RegisterConsumer(c) \/ UnregisterConsumer(c)
  PROVE  CursorSpaceInvariant'
<1>1. /\ live \in Database
      /\ policy.backend \in Backends
      /\ db \in [Backends -> Database]
      /\ held \in [Consumers -> Nat]
      /\ ceiling \in Nat
  BY Zenon, LiveTables DEF IInv, TypeInv, TypeOK
<1>2. PICK registered \in SUBSET Consumers, ack \in [Consumers -> Nat] :
        /\ Commit([live EXCEPT !.registered = registered, !.ack = ack])
        /\ \A k \in Consumers : ack[k] = live.ack[k] \/ ack[k] = 0
  <2>1. CASE RegisterConsumer(c)
    <3> DEFINE ack == IF c \in live.registered THEN live.ack
                      ELSE [live.ack EXCEPT ![c] = 0]
    <3>1. ack \in [Consumers -> Nat] /\ live.registered \cup {c} \in SUBSET Consumers
      BY Zenon, <1>1 DEF Database
    <3>2. \A k \in Consumers : ack[k] = live.ack[k] \/ ack[k] = 0
      BY Zenon, <1>1 DEF Database
    <3>3. Commit([live EXCEPT !.registered = live.registered \cup {c}, !.ack = ack])
      BY Zenon, <2>1 DEF RegisterConsumer
    <3> QED
      BY Zenon, <3>1, <3>2, <3>3
  <2>2. CASE UnregisterConsumer(c)
    <3> DEFINE ack == [live.ack EXCEPT ![c] = 0]
    <3>1. ack \in [Consumers -> Nat] /\ live.registered \ {c} \in SUBSET Consumers
      BY Zenon, <1>1 DEF Database
    <3>2. \A k \in Consumers : ack[k] = live.ack[k] \/ ack[k] = 0
      BY Zenon, <1>1 DEF Database
    <3>3. Commit([live EXCEPT !.registered = live.registered \ {c}, !.ack = ack])
      BY Zenon, <2>2 DEF UnregisterConsumer
    <3> QED
      BY Zenon, <3>1, <3>2, <3>3
  <2> QED
    BY Zenon, <2>1, <2>2
<1> DEFINE d == [live EXCEPT !.registered = registered, !.ack = ack]
<1>3. db' = [db EXCEPT ![policy.backend] = d]
  BY Zenon, <1>2 DEF Commit
<1>4. d.records = live.records /\ d.ack = ack /\ d.seq = live.seq
  BY Zenon, <1>1 DEF Database
<1> HIDE DEF d
<1>5. /\ up /\ up'
      /\ UNCHANGED <<leaseFile, policy, sessionStart, cursorLease, clock, ceiling>>
      /\ held' = [held EXCEPT ![c] = 0]
  BY DEF RegisterConsumer, UnregisterConsumer, implVars, history
<1>6. \A b \in Backends : db'[b].records = db[b].records
  BY Zenon, <1>1, <1>3, <1>4 DEF live
<1>7. \A b \in Backends : \A k \in Consumers : db'[b].ack[k] <= ceiling
  <2>1. \A k \in Consumers : ack[k] <= ceiling
    BY SMTT(30), <1>1, <1>2 DEF IInv, CursorSpaceInvariant, live
  <2> QED
    BY Zenon, <1>1, <1>3, <1>4, <2>1 DEF IInv, CursorSpaceInvariant
<1>8. live'.seq = live.seq
  BY Zenon, <1>1, <1>3, <1>4, <1>5 DEF live
<1>9. \A k \in Consumers : held'[k] <= ceiling
  BY <1>1, <1>5 DEF IInv, CursorSpaceInvariant
<1> QED
  BY Zenon, <1>5, <1>6, <1>7, <1>8, <1>9 DEF IInv, CursorSpaceInvariant

\* A page holds only cursors that have been issued.
LEMMA CursorSpaceRead ==
  ASSUME IInv, NEW c \in Consumers, ReadAfter(c)
  PROVE  CursorSpaceInvariant'
<1>1. /\ live \in Database
      /\ policy.backend \in Backends
      /\ ceiling \in Nat
      /\ held \in [Consumers -> Nat]
  BY Zenon, LiveTables DEF IInv, TypeInv, TypeOK
<1>2. Page(c) \in SUBSET Record /\ \A r \in Page(c) : r.cursor <= ceiling
  BY Zenon, <1>1 DEF Page, Oldest, Database, IInv, CursorSpaceInvariant, live
<1>3. Newest(Page(c)) <= ceiling
  BY Zenon, <1>1, <1>2, NewestIsMaximum
<1>4. \A k \in Consumers : held'[k] <= ceiling
  BY Zenon, <1>1, <1>3 DEF ReadAfter, IInv, CursorSpaceInvariant
<1> QED
  BY Zenon, <1>4 DEF ReadAfter, IInv, CursorSpaceInvariant, implVars, live

\* What an accepted acknowledgement does to the live database: it moves one
\* acknowledgement forward and retires rows all consumers are past.
LEMMA AcknowledgeEffect ==
  ASSUME TypeInv, NEW c \in Consumers, AcknowledgeAndPrune(c)
  PROVE  \E rows \in SUBSET live.records, ack \in [Consumers -> Nat] :
           /\ ack = [live.ack EXCEPT ![c] = Larger(live.ack[c], held[c])]
           /\ \A r \in live.records \ rows :
                r.cursor <= MinAck([live EXCEPT !.ack = ack])
           /\ db' = [db EXCEPT ![policy.backend] =
                       [[live EXCEPT !.ack = ack] EXCEPT !.records = rows]]
<1> DEFINE ack == [live.ack EXCEPT ![c] = Larger(live.ack[c], held[c])]
           acked == [live EXCEPT !.ack = ack]
<1>1. ack \in [Consumers -> Nat]
  BY Zenon, LiveTables DEF Database, TypeInv, TypeOK, Larger
<1>2. PICK expired \in SUBSET {r \in live.records : r.cursor <= MinAck(acked)} :
        LET aged == live.records \ expired
            bytes == Larger(tracked - Cardinality(expired), 0)
            victims == ByteVictims(aged, MinAck(acked), bytes)
        IN  Commit([acked EXCEPT !.records = aged \ victims])
  BY Zenon DEF AcknowledgeAndPrune
<1> DEFINE aged == live.records \ expired
           bytes == Larger(tracked - Cardinality(expired), 0)
           victims == ByteVictims(aged, MinAck(acked), bytes)
           rows == aged \ victims
<1>3. victims \subseteq {r \in aged : r.cursor <= MinAck(acked)}
  BY Zenon DEF ByteVictims, Oldest
<1>4. rows \in SUBSET live.records
      /\ \A r \in live.records \ rows : r.cursor <= MinAck(acked)
  BY Zenon, <1>3
<1>5. db' = [db EXCEPT ![policy.backend] = [acked EXCEPT !.records = rows]]
  BY Zenon, <1>2 DEF Commit
<1> HIDE DEF rows
<1> QED
  BY Zenon, <1>1, <1>4, <1>5

\* An acknowledgement stays below what was issued, and the renewal that
\* comes with it never lowers the lease under it.
LEMMA CursorSpaceAcknowledge ==
  ASSUME IInv, LeaseFaults = {}, NEW c \in Consumers, AcknowledgeAndPrune(c)
  PROVE  CursorSpaceInvariant'
<1>1. /\ live \in Database
      /\ policy.backend \in Backends
      /\ db \in [Backends -> Database]
      /\ held \in [Consumers -> Nat]
      /\ ceiling \in Nat /\ cursorLease \in Nat /\ leaseFile \in Nat
      /\ sessionStart \in Nat
  BY Zenon, LiveTables DEF IInv, TypeInv, TypeOK
<1>2. PICK rows \in SUBSET live.records, ack \in [Consumers -> Nat] :
        /\ ack = [live.ack EXCEPT ![c] = Larger(live.ack[c], held[c])]
        /\ db' = [db EXCEPT ![policy.backend] =
                    [[live EXCEPT !.ack = ack] EXCEPT !.records = rows]]
  BY Zenon, AcknowledgeEffect DEF IInv
<1> DEFINE d == [[live EXCEPT !.ack = ack] EXCEPT !.records = rows]
<1>3. d.records = rows /\ d.ack = ack /\ d.seq = live.seq
  BY Zenon, <1>1 DEF Database
<1>4. db' = [db EXCEPT ![policy.backend] = d]
  BY Zenon, <1>2
<1> HIDE DEF d
<1>5. /\ up /\ up'
      /\ UNCHANGED <<policy, sessionStart, clock, ceiling>>
      /\ held' = [held EXCEPT ![c] = 0]
      /\ RenewCursorLease
  BY Zenon DEF AcknowledgeAndPrune, history
<1>6. \A b \in Backends : \A r \in db'[b].records : r.cursor <= ceiling
  BY Zenon, <1>1, <1>3, <1>4 DEF IInv, CursorSpaceInvariant, live
<1>7. \A b \in Backends : \A k \in Consumers : db'[b].ack[k] <= ceiling
  <2>1. \A k \in Consumers : ack[k] <= ceiling
    BY Zenon, <1>1, <1>2 DEF IInv, CursorSpaceInvariant, live, Larger, Database
  <2> QED
    BY Zenon, <1>1, <1>3, <1>4, <2>1 DEF IInv, CursorSpaceInvariant
<1>8. \A k \in Consumers : held'[k] <= ceiling
  BY <1>1, <1>5 DEF IInv, CursorSpaceInvariant
<1>9. live'.seq = live.seq
  BY Zenon, <1>1, <1>3, <1>4, <1>5 DEF live
<1>10. Newest(live.records) \in Nat /\ Newest(live.records) <= ceiling
  BY Zenon, <1>1, NewestIsMaximum DEF Database, IInv, CursorSpaceInvariant, live
<1>11. /\ leaseFile' # 0
       /\ cursorLease' <= leaseFile'
       /\ ceiling <= cursorLease'
       /\ ceiling <= leaseFile'
       /\ sessionStart < cursorLease'
       /\ sessionStart < leaseFile'
  BY SMTT(30), <1>1, <1>5, <1>10, SpoolAssumption
  DEF RenewCursorLease, LeaseDue, IInv, CursorSpaceInvariant
<1>12. ceiling <= live.seq /\ clock # 0
  BY Zenon, <1>5 DEF IInv, CursorSpaceInvariant
<1> QED
  BY SMTT(30), <1>5, <1>6, <1>7, <1>8, <1>9, <1>11, <1>12 DEF CursorSpaceInvariant

\* The database apply_policy builds shows the same rows and consumers.
LEMMA SwitchEffect ==
  ASSUME TypeInv, LeaseFaults = {}, NEW p \in Policies, ApplyPolicySwitch(p)
  PROVE  LET seed == SeedCursor(leaseFile, db[p.backend])
         IN  /\ p.backend \in Backends
             /\ policy' = p
             /\ sessionStart' = seed
             /\ cursorLease' = seed + Reservation
             /\ leaseFile' = seed + Reservation
             /\ live'.records = live.records
             /\ live'.registered = live.registered
             /\ live'.ack = live.ack
             /\ live'.seq \in Nat
             /\ seed <= live'.seq
             /\ \A b \in Backends \ {p.backend} :
                  db'[b] = db[b] \/ db'[b] = EmptyDatabase
<1> DEFINE d == db[p.backend]
           seed == SeedCursor(leaseFile, d)
           newest == Newest(live.records)
           raised == RaiseSequence(d, Larger(seed, newest))
           copy == [raised EXCEPT !.records = live.records,
                                  !.registered = live.registered,
                                  !.ack = live.ack]
<1>1. live \in Database /\ p.backend \in Backends /\ d \in Database
  BY Zenon, LiveTables, SpoolAssumption DEF Policy, TypeInv, TypeOK
<1>2. leaseFile \in Nat /\ seed \in Nat
  BY Zenon, <1>1, SeedTyped DEF TypeInv, TypeOK
<1>3. newest \in Nat
  BY Zenon, LiveTables, NewestIsMaximum DEF Database
<1>4. /\ sessionStart' = seed
      /\ cursorLease' = seed + Reservation
      /\ leaseFile' = seed + Reservation
      /\ policy' = p
      /\ db' = [b \in Backends |->
                 IF b = p.backend THEN copy
                 ELSE IF b = "memory" THEN EmptyDatabase ELSE db[b]]
  <2>1. \E lease \in {leaseFile} :
          LET e == db[p.backend]
              start == SeedCursor(lease, e)
          IN  /\ SeedCursorSpace(start)
              /\ db' = [b \in Backends |->
                   IF b = p.backend
                   THEN [RaiseSequence(e, Larger(start, newest)) EXCEPT
                          !.records = live.records,
                          !.registered = live.registered,
                          !.ack = live.ack]
                   ELSE IF b = "memory" THEN EmptyDatabase ELSE db[b]]
    BY ZenonT(40), TrustedLease DEF ApplyPolicySwitch, Copied
  <2>2. SeedCursorSpace(seed)
    BY Zenon, <2>1
  <2>3. db' = [b \in Backends |->
                IF b = p.backend THEN copy
                ELSE IF b = "memory" THEN EmptyDatabase ELSE db[b]]
    BY Zenon, <2>1
  <2> QED
    BY <2>2, <2>3, TrustedLease DEF ApplyPolicySwitch, SeedCursorSpace
<1> HIDE DEF seed, newest
<1>5. Larger(seed, newest) \in Nat /\ seed <= Larger(seed, newest)
  BY <1>2, <1>3 DEF Larger
<1>6. raised \in Database /\ Larger(seed, newest) <= raised.seq
  BY Zenon, <1>1, <1>5, RaisedTyped
<1> HIDE DEF raised
<1>7. /\ copy.records = live.records /\ copy.registered = live.registered
      /\ copy.ack = live.ack /\ copy.seq = raised.seq
  BY Zenon, <1>1, <1>6 DEF Database
<1> HIDE DEF copy
<1>8. live' = copy
  BY Zenon, <1>1, <1>4 DEF live
<1>9. raised.seq \in Nat /\ seed <= raised.seq
  BY <1>2, <1>5, <1>6 DEF Database
<1> QED
  BY Zenon, <1>1, <1>4, <1>7, <1>8, <1>9 DEF seed

\* A backend switch starts a session past everything issued.
LEMMA CursorSpaceSwitch ==
  ASSUME IInv, LeaseFaults = {}, NEW p \in Policies, ApplyPolicySwitch(p)
  PROVE  CursorSpaceInvariant'
<1> DEFINE seed == SeedCursor(leaseFile, db[p.backend])
<1>1. /\ p.backend \in Backends
      /\ policy' = p
      /\ sessionStart' = seed
      /\ cursorLease' = seed + Reservation
      /\ leaseFile' = seed + Reservation
      /\ live'.records = live.records
      /\ live'.ack = live.ack
      /\ live'.seq \in Nat
      /\ seed <= live'.seq
      /\ \A b \in Backends \ {p.backend} :
           db'[b] = db[b] \/ db'[b] = EmptyDatabase
  BY Zenon, SwitchEffect DEF IInv
<1>2. seed \in Nat /\ ceiling <= seed
  BY Zenon, <1>1, SeedIsFresh
<1>3. up' /\ UNCHANGED <<held, clock, ceiling>>
  BY Zenon DEF ApplyPolicySwitch, history
<1> HIDE DEF seed
<1>4. ceiling \in Nat /\ Reservation \in Nat /\ Reservation # 0
      /\ policy.backend \in Backends
  BY LiveTables, SpoolAssumption DEF IInv, TypeInv, TypeOK
<1>5. EmptyDatabase.records = {} /\ \A c \in Consumers : EmptyDatabase.ack[c] = 0
  BY Zenon DEF EmptyDatabase
<1>6. \A b \in Backends : \A r \in db'[b].records : r.cursor <= ceiling
  BY Zenon, <1>1, <1>4, <1>5 DEF IInv, CursorSpaceInvariant, live
<1>7. \A b \in Backends : \A c \in Consumers : db'[b].ack[c] <= ceiling
  BY SMTT(30), <1>1, <1>4, <1>5 DEF IInv, CursorSpaceInvariant, live
<1>8. /\ leaseFile' # 0
      /\ cursorLease' <= leaseFile'
      /\ ceiling <= leaseFile'
      /\ ceiling <= cursorLease'
      /\ ceiling <= live'.seq
      /\ sessionStart' < cursorLease'
      /\ sessionStart' < leaseFile'
  BY SMTT(30), <1>1, <1>2, <1>4
<1> QED
  BY Zenon, <1>3, <1>6, <1>7, <1>8 DEF IInv, CursorSpaceInvariant

\* A failed switch only raises the lease and an idle database's sequence.
LEMMA CursorSpaceSwitchFails ==
  ASSUME IInv, LeaseFaults = {}, NEW p \in Policies, ApplyPolicyFails(p)
  PROVE  CursorSpaceInvariant'
<1> DEFINE d == db[p.backend]
           seed == SeedCursor(leaseFile, d)
<1>1. /\ p.backend \in Backends /\ d \in Database
      /\ db \in [Backends -> Database]
      /\ leaseFile \in Nat /\ cursorLease \in Nat /\ ceiling \in Nat
      /\ sessionStart \in Nat /\ Reservation \in Nat
      /\ policy.backend \in Backends
  BY Zenon, LiveTables, SpoolAssumption DEF Policy, IInv, TypeInv, TypeOK
<1>2. /\ leaseFile' = seed + Reservation
      /\ db' = IF p.backend = "memory" THEN db
               ELSE [db EXCEPT ![p.backend] = RaiseSequence(d, seed)]
  BY Zenon, TrustedLease DEF ApplyPolicyFails
<1>3. seed \in Nat /\ leaseFile <= seed
  BY Zenon, <1>1, SeedTyped DEF IInv
<1>4. /\ up /\ up' /\ p.backend # policy.backend
      /\ UNCHANGED <<policy, sessionStart, cursorLease, held, clock, ceiling>>
  BY Zenon DEF ApplyPolicyFails, implVars, history
<1> HIDE DEF seed
<1>5. /\ RaiseSequence(d, seed).records = d.records
      /\ RaiseSequence(d, seed).ack = d.ack
  BY <1>1, <1>3, RaisedTyped
<1>6. \A b \in Backends : db'[b].records = db[b].records /\ db'[b].ack = db[b].ack
  BY Zenon, <1>1, <1>2, <1>5
<1>7. live' = live
  BY <1>1, <1>2, <1>4 DEF live
<1>8. /\ leaseFile' # 0
      /\ cursorLease <= leaseFile'
      /\ ceiling <= leaseFile'
      /\ sessionStart < leaseFile'
  BY <1>1, <1>2, <1>3, <1>4 DEF IInv, CursorSpaceInvariant
<1> QED
  BY Zenon, <1>4, <1>6, <1>7, <1>8 DEF IInv, CursorSpaceInvariant

\* Every step of the spool keeps the cursor-space invariant.
LEMMA CursorSpaceStep ==
  ASSUME LeaseFaults = {}
  PROVE  IInv /\ [Next]_vars => CursorSpaceInvariant'
<1> SUFFICES ASSUME IInv, [Next]_vars PROVE CursorSpaceInvariant'
  BY Zenon
<1>1. ASSUME NEW p \in Policies, Start(p) PROVE CursorSpaceInvariant'
  BY Zenon, <1>1, CursorSpaceStart
<1>2. CASE Stop
  BY Zenon, <1>2, CursorSpaceStop
<1>3. CASE Tick
  <2>1. clock \in Nat /\ clock' = clock + 1 /\ ceiling \in Nat
    BY Zenon, <1>3 DEF Tick, IInv, TypeInv, TypeOK
  <2> QED
    BY <1>3, <2>1 DEF Tick, IInv, CursorSpaceInvariant, implVars, history, live
<1>4. ASSUME NEW b \in Batches, PublishRecords(b) PROVE CursorSpaceInvariant'
  BY Zenon, <1>4, CursorSpacePublish
<1>5. ASSUME NEW c \in Consumers, RegisterConsumer(c) \/ UnregisterConsumer(c)
      PROVE  CursorSpaceInvariant'
  BY Zenon, <1>5, CursorSpaceRegister
<1>6. ASSUME NEW c \in Consumers, ReadAfter(c) PROVE CursorSpaceInvariant'
  BY Zenon, <1>6, CursorSpaceRead
<1>7. ASSUME NEW c \in Consumers, AcknowledgeAndPrune(c)
      PROVE  CursorSpaceInvariant'
  BY Zenon, <1>7, CursorSpaceAcknowledge
<1>8. ASSUME NEW c \in Consumers, AcknowledgeRejected(c)
      PROVE  CursorSpaceInvariant'
  <2>1. held' = [held EXCEPT ![c] = 0] /\ held \in [Consumers -> Nat]
        /\ ceiling \in Nat
    BY Zenon, <1>8 DEF AcknowledgeRejected, IInv, TypeInv, TypeOK
  <2>2. \A k \in Consumers : held'[k] <= ceiling
    BY SMTT(30), <2>1 DEF IInv, CursorSpaceInvariant
  <2> QED
    BY Zenon, <1>8, <2>2
    DEF AcknowledgeRejected, IInv, CursorSpaceInvariant, implVars, history, live
<1>9. ASSUME NEW p \in Policies, ApplyPolicyInPlace(p) PROVE CursorSpaceInvariant'
  <2>1. live' = live
    BY Zenon, <1>9 DEF ApplyPolicyInPlace, live
  <2> QED
    BY <1>9, <2>1 DEF ApplyPolicyInPlace, IInv, CursorSpaceInvariant, history
<1>10. ASSUME NEW p \in Policies, ApplyPolicySwitch(p) PROVE CursorSpaceInvariant'
  BY Zenon, <1>10, CursorSpaceSwitch
<1>11. ASSUME NEW p \in Policies, ApplyPolicyFails(p) PROVE CursorSpaceInvariant'
  BY Zenon, <1>11, CursorSpaceSwitchFails
<1>12. CASE UNCHANGED vars
  BY Zenon, <1>12 DEF vars, IInv, CursorSpaceInvariant, implVars, history, live
<1> QED
  BY Zenon, <1>1, <1>2, <1>3, <1>4, <1>5, <1>6, <1>7, <1>8, <1>9, <1>10, <1>11, <1>12
  DEF Next

\* With a lease file that can be read and written, the invariant behind the
\* cursor space holds in every reachable state.
THEOREM CursorSpaceCorrect ==
  ASSUME LeaseFaults = {}
  PROVE  Spec => []CursorSpaceInvariant
<1>1. Init => IInv
  BY Zenon, TypeInit, CursorSpaceInit DEF IInv
<1>2. IInv /\ [Next]_vars => IInv'
  BY Zenon, TypeStep, CursorSpaceStep DEF IInv
<1>3. IInv => CursorSpaceInvariant
  BY Zenon DEF IInv
<1> QED
  BY <1>1, <1>2, <1>3, PTL DEF Spec

-----------------------------------------------------------------------------
(***************************************************************************)
(* What the cursor-space invariant buys: cursors are never issued twice,   *)
(* sessions are told apart by their start, a backend switch keeps the      *)
(* stream, and the spool implements the log its consumers rely on.  The    *)
(* second half needs no trust in the lease file: the byte count is exact,  *)
(* a page that a consumer holds can be acknowledged (PageInv: its last     *)
(* cursor is no newer than the newest row), and retention counts the rows  *)
(* it drops.                                                               *)
(***************************************************************************)

\* The spool's inductive invariant, as a temporal fact.
LEMMA Inductive ==
  ASSUME LeaseFaults = {}
  PROVE  Spec => []IInv
<1>1. Init => IInv
  BY Zenon, TypeInit, CursorSpaceInit DEF IInv
<1>2. IInv /\ [Next]_vars => IInv'
  BY Zenon, TypeStep, CursorSpaceStep DEF IInv
<1> QED
  BY <1>1, <1>2, PTL DEF Spec

\* What a publish does to the live database and to the highest cursor.
LEMMA PublishEffect ==
  ASSUME IInv, NEW b \in Batches, PublishRecords(b)
  PROVE  /\ up /\ up'
         /\ live'.records = (live.records \ Evicted(b)) \cup InsertedRows(b)
         /\ live'.registered = live.registered
         /\ live'.ack = live.ack
         /\ live'.records \subseteq Record
         /\ ceiling' \in Nat /\ ceiling <= ceiling'
         /\ \A r \in InsertedRows(b) : ceiling < r.cursor /\ r.cursor <= ceiling'
         /\ NewCount(b) # 0 => InsertedRows(b) # {}
         /\ NewCount(b) = 0 =>
              live'.records = live.records /\ ceiling' = ceiling
<1> DEFINE n == NewCount(b)
           inserted == InsertedRows(b)
           rows == (live.records \ Evicted(b)) \cup inserted
           last == live.seq + n
           d == [live EXCEPT !.records = rows, !.seq = last]
<1>1. /\ live \in Database
      /\ policy.backend \in Backends
      /\ db \in [Backends -> Database]
      /\ ceiling \in Nat
      /\ live.seq \in Nat
  BY Zenon, LiveTables DEF IInv, TypeInv, TypeOK, Database
<1>2. /\ n \in Nat
      /\ inserted \subseteq Record
      /\ \A r \in inserted : live.seq < r.cursor /\ r.cursor <= last
      /\ n # 0 => inserted # {}
  BY Zenon, InsertedRowsAreNew DEF IInv
<1>3. /\ db' = [db EXCEPT ![policy.backend] = d]
      /\ ceiling' = Larger(ceiling, Newest(inserted))
      /\ up /\ up' /\ policy' = policy
  BY Zenon DEF PublishRecords, Commit
<1>4. rows \in SUBSET Record /\ rows = (live.records \ Evicted(b)) \cup inserted
  BY Zenon, <1>1, <1>2 DEF Database
<1>5. n = 0 => Evicted(b) = {}
  BY Zenon DEF Evicted
<1> HIDE DEF n, inserted, rows
<1>6. last \in Nat /\ last = live.seq + n
  BY <1>1, <1>2
<1> HIDE DEF last
<1>7. Newest(inserted) \in Nat /\ \A r \in inserted : r.cursor <= Newest(inserted)
  BY Zenon, <1>2, <1>6, NewestIsMaximum
<1>8. ceiling <= live.seq
  BY Zenon, <1>3 DEF IInv, CursorSpaceInvariant
<1>9. ceiling' \in Nat /\ ceiling <= ceiling' /\ Newest(inserted) <= ceiling'
  BY <1>1, <1>3, <1>7 DEF Larger
<1>10. \A r \in inserted : ceiling < r.cursor /\ r.cursor <= ceiling'
  BY <1>1, <1>2, <1>7, <1>8, <1>9 DEF Record
<1>11. d.records = rows /\ d.ack = live.ack /\ d.registered = live.registered
  BY Zenon, <1>1 DEF Database
<1> HIDE DEF d
<1>12. live' = d
  BY Zenon, <1>1, <1>3 DEF live
<1>13. n = 0 => inserted = {}
  BY <1>1, <1>2, <1>6 DEF Record
<1>14. inserted = {} => ceiling' = ceiling
  BY <1>1, <1>3 DEF Newest, Larger
<1>15. n = 0 => rows = live.records
  BY Zenon, <1>4, <1>5, <1>13
<1> QED
  BY Zenon, <1>2, <1>3, <1>4, <1>9, <1>10, <1>11, <1>12, <1>13, <1>14, <1>15
  DEF n, inserted

\* What an accepted acknowledgement changes, in terms of the live database.
LEMMA AcknowledgeLive ==
  ASSUME TypeInv, NEW c \in Consumers, AcknowledgeAndPrune(c)
  PROVE  /\ up /\ up'
         /\ c \in live.registered
         /\ live'.registered = live.registered
         /\ live'.ack = [live.ack EXCEPT ![c] = Larger(live.ack[c], held[c])]
         /\ live'.records \subseteq live.records
         /\ \A r \in live.records \ live'.records : r.cursor <= MinAck(live')
         /\ UNCHANGED <<policy, ceiling>>
<1>1. /\ live \in Database
      /\ policy.backend \in Backends
      /\ db \in [Backends -> Database]
  BY Zenon, LiveTables DEF TypeInv, TypeOK
<1>2. PICK rows \in SUBSET live.records, ack \in [Consumers -> Nat] :
        /\ ack = [live.ack EXCEPT ![c] = Larger(live.ack[c], held[c])]
        /\ \A r \in live.records \ rows :
             r.cursor <= MinAck([live EXCEPT !.ack = ack])
        /\ db' = [db EXCEPT ![policy.backend] =
                    [[live EXCEPT !.ack = ack] EXCEPT !.records = rows]]
  BY Zenon, AcknowledgeEffect
<1> DEFINE acked == [live EXCEPT !.ack = ack]
           d == [acked EXCEPT !.records = rows]
<1>3. /\ d.records = rows /\ d.ack = ack /\ d.registered = live.registered
      /\ acked.ack = ack /\ acked.registered = live.registered
  BY Zenon, <1>1 DEF Database
<1>4. db' = [db EXCEPT ![policy.backend] = d]
  BY Zenon, <1>2
<1>5. \A r \in live.records \ rows : r.cursor <= MinAck(acked)
  BY Zenon, <1>2
<1> HIDE DEF d, acked
<1>6. up /\ up' /\ c \in live.registered /\ UNCHANGED <<policy, ceiling>>
  BY Zenon DEF AcknowledgeAndPrune, history
<1>7. live' = d
  BY Zenon, <1>1, <1>4, <1>6 DEF live
<1>8. MinAck(d) = MinAck(acked)
  BY <1>3 DEF MinAck
<1> QED
  BY Zenon, <1>2, <1>3, <1>5, <1>6, <1>7, <1>8

\* Registration and unregistration leave the rows alone.
LEMMA ConsumersLive ==
  ASSUME TypeInv, NEW registered, NEW ack, policy' = policy,
         Commit([live EXCEPT !.registered = registered, !.ack = ack])
  PROVE  /\ live'.records = live.records
         /\ live'.registered = registered
         /\ live'.ack = ack
<1> DEFINE d == [live EXCEPT !.registered = registered, !.ack = ack]
<1>1. live \in Database /\ policy.backend \in Backends
      /\ db \in [Backends -> Database]
  BY Zenon, LiveTables DEF TypeInv, TypeOK
<1>2. d.records = live.records /\ d.registered = registered /\ d.ack = ack
  BY Zenon, <1>1 DEF Database
<1>3. db' = [db EXCEPT ![policy.backend] = d]
  BY Zenon DEF Commit
<1> HIDE DEF d
<1> QED
  BY <1>1, <1>2, <1>3 DEF live

\* register_consumer, as a client sees it.
LEMMA RegisterLive ==
  ASSUME TypeInv, NEW c \in Consumers, RegisterConsumer(c)
  PROVE  /\ up /\ up'
         /\ live'.records = live.records
         /\ live'.registered = live.registered \cup {c}
         /\ live'.ack = IF c \in live.registered THEN live.ack
                        ELSE [live.ack EXCEPT ![c] = 0]
         /\ ceiling' = ceiling
<1> DEFINE ack == IF c \in live.registered THEN live.ack
                  ELSE [live.ack EXCEPT ![c] = 0]
<1>1. /\ Commit([live EXCEPT !.registered = live.registered \cup {c}, !.ack = ack])
      /\ policy' = policy /\ up /\ up' /\ ceiling' = ceiling
  BY Zenon DEF RegisterConsumer, implVars, history
<1> HIDE DEF ack
<1>2. /\ live'.records = live.records
      /\ live'.registered = live.registered \cup {c}
      /\ live'.ack = ack
  BY Zenon, <1>1, ConsumersLive
<1> QED
  BY Zenon, <1>1, <1>2 DEF ack

\* unregister_consumer, as a client sees it.
LEMMA UnregisterLive ==
  ASSUME TypeInv, NEW c \in Consumers, UnregisterConsumer(c)
  PROVE  /\ up /\ up'
         /\ live'.records = live.records
         /\ live'.registered = live.registered \ {c}
         /\ live'.ack = [live.ack EXCEPT ![c] = 0]
         /\ ceiling' = ceiling
<1> DEFINE ack == [live.ack EXCEPT ![c] = 0]
<1>1. /\ Commit([live EXCEPT !.registered = live.registered \ {c}, !.ack = ack])
      /\ policy' = policy /\ up /\ up' /\ ceiling' = ceiling
  BY Zenon DEF UnregisterConsumer, implVars, history
<1> HIDE DEF ack
<1>2. /\ live'.records = live.records
      /\ live'.registered = live.registered \ {c}
      /\ live'.ack = ack
  BY Zenon, <1>1, ConsumersLive
<1> QED
  BY Zenon, <1>1, <1>2 DEF ack

\* apply_policy to another backend fills the replacement with the live rows,
\* consumers and acknowledgements, whatever the lease file says.
LEMMA SwitchLive ==
  ASSUME TypeInv, NEW p \in Policies, ApplyPolicySwitch(p)
  PROVE  /\ live'.records = live.records
         /\ live'.registered = live.registered
         /\ live'.ack = live.ack
<1>1. live \in Database /\ p.backend \in Backends /\ db[p.backend] \in Database
  BY Zenon, LiveTables, SpoolAssumption DEF Policy, TypeInv, TypeOK
<1>2. PICK lease \in ReadLease :
        db' = [b \in Backends |->
                IF b = p.backend
                THEN Copied(db[p.backend], SeedCursor(lease, db[p.backend]))
                ELSE IF b = "memory" THEN EmptyDatabase ELSE db[b]]
  BY Zenon DEF ApplyPolicySwitch
<1> DEFINE seed == SeedCursor(lease, db[p.backend])
           top == Larger(seed, Newest(live.records))
           raised == RaiseSequence(db[p.backend], top)
           copy == [raised EXCEPT !.records = live.records,
                                  !.registered = live.registered,
                                  !.ack = live.ack]
<1>3. seed \in Nat /\ Newest(live.records) \in Nat
  BY Zenon, <1>1, SeedTyped, LeaseTyped, LiveTables, NewestIsMaximum DEF Database
<1>4. top \in Nat
  BY Zenon, <1>3 DEF Larger
<1>5. live' = copy
  BY Zenon, <1>1, <1>2 DEF live, Copied, ApplyPolicySwitch
<1> HIDE DEF top
<1>6. raised \in Database
  BY Zenon, <1>1, <1>4, RaisedTyped
<1> HIDE DEF raised
<1> QED
  BY Zenon, <1>5, <1>6 DEF Database

\* Every other step of a running spool leaves the client's view alone.
LEMMA QuietLive ==
  ASSUME TypeInv,
         \/ Tick
         \/ \E c \in Consumers : ReadAfter(c) \/ AcknowledgeRejected(c)
         \/ \E p \in Policies : \/ ApplyPolicyInPlace(p)
                                \/ ApplyPolicySwitch(p)
                                \/ ApplyPolicyFails(p)
         \/ UNCHANGED vars
  PROVE  /\ up' = up
         /\ live'.records = live.records
         /\ live'.registered = live.registered
         /\ live'.ack = live.ack
         /\ ceiling' = ceiling
<1>1. CASE Tick
  BY Zenon, <1>1 DEF Tick, implVars, history, live
<1>2. ASSUME NEW c \in Consumers, ReadAfter(c) \/ AcknowledgeRejected(c)
      PROVE  up' = up /\ live' = live /\ ceiling' = ceiling
  BY Zenon, <1>2 DEF ReadAfter, AcknowledgeRejected, implVars, history, live
<1>3. ASSUME NEW p \in Policies, ApplyPolicyInPlace(p)
      PROVE  up' = up /\ live' = live /\ ceiling' = ceiling
  BY Zenon, <1>3 DEF ApplyPolicyInPlace, history, live
<1>4. ASSUME NEW p \in Policies, ApplyPolicySwitch(p)
      PROVE  /\ up' = up /\ ceiling' = ceiling
             /\ live'.records = live.records
             /\ live'.registered = live.registered
             /\ live'.ack = live.ack
  <2>1. up' = up /\ ceiling' = ceiling
    BY Zenon, <1>4 DEF ApplyPolicySwitch, history
  <2> QED
    BY Zenon, <1>4, <2>1, SwitchLive
<1>5. ASSUME NEW p \in Policies, ApplyPolicyFails(p)
      PROVE  up' = up /\ live' = live /\ ceiling' = ceiling
  <2>1. /\ policy.backend \in Backends /\ p.backend \in Backends
        /\ db \in [Backends -> Database]
    BY Zenon, LiveTables, SpoolAssumption DEF Policy, TypeInv, TypeOK
  <2>2. /\ up' = up /\ ceiling' = ceiling /\ policy' = policy
        /\ p.backend # policy.backend
    BY Zenon, <1>5 DEF ApplyPolicyFails, implVars, history
  <2>3. \E d : db' = [db EXCEPT ![p.backend] = d]
    <3>1. CASE db' = db
      BY Zenon, <2>1, <3>1
    <3>2. CASE db' # db
      BY Zenon, <1>5, <3>2 DEF ApplyPolicyFails
    <3> QED
      BY Zenon, <3>1, <3>2
  <2> QED
    BY Zenon, <2>1, <2>2, <2>3 DEF live
<1>6. CASE UNCHANGED vars
  BY Zenon, <1>6 DEF vars, implVars, history, live
<1> QED
  BY Zenon, <1>1, <1>2, <1>3, <1>4, <1>5, <1>6

-----------------------------------------------------------------------------
\* A committed record's cursor is above every cursor ever issued, over any
\* number of restarts, power cuts and backend switches, provided the lease
\* file can be read back as it was last written (the assumption whose failure
\* the runs with lease faults show).
THEOREM CursorsAreFresh ==
  ASSUME LeaseFaults = {}
  PROVE  Spec => FreshCursors
<1> DEFINE Fresh == up /\ up' =>
                      \A r \in live'.records \ live.records : r.cursor > ceiling
<1>1. IInv /\ [Next]_vars => [Fresh]_vars
  <2> SUFFICES ASSUME IInv, [Next]_vars PROVE Fresh
    BY Zenon
  <2>1. ASSUME NEW p \in Policies, Start(p) PROVE Fresh
    BY Zenon, <2>1 DEF Start
  <2>2. CASE Stop
    BY Zenon, <2>2 DEF Stop
  <2>3. ASSUME NEW b \in Batches, PublishRecords(b) PROVE Fresh
    <3>1. /\ live'.records = (live.records \ Evicted(b)) \cup InsertedRows(b)
          /\ \A r \in InsertedRows(b) : ceiling < r.cursor
          /\ live'.records \subseteq Record
          /\ ceiling \in Nat
      BY Zenon, <2>3, PublishEffect DEF IInv, TypeInv, TypeOK
    <3> QED
      BY Zenon, <3>1 DEF Record
  <2>4. ASSUME NEW c \in Consumers, RegisterConsumer(c) PROVE Fresh
    BY Zenon, <2>4, RegisterLive DEF IInv
  <2>5. ASSUME NEW c \in Consumers, UnregisterConsumer(c) PROVE Fresh
    BY Zenon, <2>5, UnregisterLive DEF IInv
  <2>6. ASSUME NEW c \in Consumers, AcknowledgeAndPrune(c) PROVE Fresh
    BY ZenonT(40), <2>6, AcknowledgeLive DEF IInv
  <2>7. CASE \/ Tick
             \/ \E c \in Consumers : ReadAfter(c) \/ AcknowledgeRejected(c)
             \/ \E p \in Policies : \/ ApplyPolicyInPlace(p)
                                    \/ ApplyPolicySwitch(p)
                                    \/ ApplyPolicyFails(p)
             \/ UNCHANGED vars
    BY Zenon, <2>7, QuietLive DEF IInv
  <2> QED
    BY Zenon, <2>1, <2>2, <2>3, <2>4, <2>5, <2>6, <2>7 DEF Next
<1> QED
  BY <1>1, Inductive, PTL DEF Spec, FreshCursors

\* Every session of the spool starts at or above everything issued before it
\* and strictly above the previous session's start.
THEOREM SessionsAreDisjoint ==
  ASSUME LeaseFaults = {}
  PROVE  Spec => SessionsDisjoint
<1> DEFINE Disjoint == (up' /\ (~up \/ policy'.backend # policy.backend)) =>
                         sessionStart' >= ceiling /\ sessionStart' > sessionStart
<1>1. IInv /\ [Next]_vars => [Disjoint]_vars
  <2> SUFFICES ASSUME IInv, [Next]_vars PROVE Disjoint
    BY Zenon
  <2>1. ASSUME NEW p \in Policies, Start(p) \/ ApplyPolicySwitch(p) PROVE Disjoint
    <3> DEFINE seed == SeedCursor(leaseFile, db[p.backend])
    <3>1. p.backend \in Backends /\ ceiling \in Nat /\ sessionStart \in Nat
      BY Zenon, SpoolAssumption DEF Policy, IInv, TypeInv, TypeOK
    <3>2. sessionStart' = seed
      <4>1. CASE Start(p)
        BY Zenon, <4>1, TrustedLease DEF Start, SeedCursorSpace
      <4>2. CASE ApplyPolicySwitch(p)
        BY Zenon, <4>2, SwitchEffect DEF IInv
      <4> QED
        BY Zenon, <2>1, <4>1, <4>2
    <3>3. seed \in Nat /\ ceiling <= seed /\ sessionStart < seed
      BY Zenon, <3>1, SeedIsFresh
    <3> HIDE DEF seed
    <3> QED
      BY Zenon, <3>1, <3>2, <3>3
  <2>2. CASE Stop
    BY Zenon, <2>2 DEF Stop
  <2>3. ASSUME up' = up, up' => policy'.backend = policy.backend PROVE Disjoint
    BY Zenon, <2>3
  <2>4. CASE Tick \/ UNCHANGED vars
    BY Zenon, <2>3, <2>4 DEF Tick, vars, implVars
  <2>5. ASSUME NEW b \in Batches, PublishRecords(b) PROVE Disjoint
    BY Zenon, <2>3, <2>5 DEF PublishRecords
  <2>6. ASSUME NEW c \in Consumers,
               \/ RegisterConsumer(c) \/ UnregisterConsumer(c)
               \/ ReadAfter(c) \/ AcknowledgeAndPrune(c) \/ AcknowledgeRejected(c)
        PROVE  Disjoint
    BY Zenon, <2>3, <2>6 DEF RegisterConsumer, UnregisterConsumer, ReadAfter,
                      AcknowledgeAndPrune, AcknowledgeRejected, implVars
  <2>7. ASSUME NEW p \in Policies, ApplyPolicyInPlace(p) \/ ApplyPolicyFails(p)
        PROVE  Disjoint
    BY Zenon, <2>3, <2>7 DEF ApplyPolicyInPlace, ApplyPolicyFails, implVars
  <2> QED
    BY Zenon, <2>1, <2>2, <2>4, <2>5, <2>6, <2>7 DEF Next
<1> QED
  BY <1>1, Inductive, PTL DEF Spec, SessionsDisjoint

\* apply_policy to another backend leaves the records, the consumers and
\* their acknowledgements as they were.
THEOREM SwitchKeeps ==
  ASSUME LeaseFaults = {}
  PROVE  Spec => SwitchKeepsStream
<1> DEFINE Keeps == (up /\ up' /\ policy'.backend # policy.backend) =>
                      /\ live'.records = live.records
                      /\ live'.registered = live.registered
                      /\ live'.ack = live.ack
<1>1. IInv /\ [Next]_vars => [Keeps]_vars
  <2> SUFFICES ASSUME IInv, [Next]_vars PROVE Keeps
    BY Zenon
  <2>1. ASSUME NEW p \in Policies, Start(p) PROVE Keeps
    BY Zenon, <2>1 DEF Start
  <2>2. CASE Stop
    BY Zenon, <2>2 DEF Stop
  <2>3. ASSUME NEW b \in Batches, PublishRecords(b) PROVE Keeps
    BY Zenon, <2>3 DEF PublishRecords
  <2>4. ASSUME NEW c \in Consumers,
               RegisterConsumer(c) \/ UnregisterConsumer(c) \/ AcknowledgeAndPrune(c)
        PROVE  Keeps
    BY Zenon, <2>4 DEF RegisterConsumer, UnregisterConsumer, AcknowledgeAndPrune, implVars
  <2>5. CASE \/ Tick
             \/ \E c \in Consumers : ReadAfter(c) \/ AcknowledgeRejected(c)
             \/ \E p \in Policies : \/ ApplyPolicyInPlace(p)
                                    \/ ApplyPolicySwitch(p)
                                    \/ ApplyPolicyFails(p)
             \/ UNCHANGED vars
    BY Zenon, <2>5, QuietLive DEF IInv
  <2> QED
    BY Zenon, <2>1, <2>2, <2>3, <2>4, <2>5 DEF Next
<1> QED
  BY <1>1, Inductive, PTL DEF Spec, SwitchKeepsStream

-----------------------------------------------------------------------------
\* Refinement.

\* MIN(acknowledged_cursor) is at most any registered consumer's.
LEMMA MinAckIsMinimum ==
  ASSUME NEW registered \in SUBSET Consumers, NEW ack \in [Consumers -> Nat],
         NEW d, d.registered = registered, d.ack = ack,
         NEW k \in registered
  PROVE  MinAck(d) \in Nat /\ MinAck(d) <= ack[k]
<1> DEFINE T == {ack[c] : c \in registered}
<1>1. T \in SUBSET Nat /\ T # {}
  BY Zenon
<1>2. \E m \in T : \A n \in T : m <= n
  BY Zenon, <1>1, LeastElement
<1>3. \E m \in T : \A c \in registered : m <= ack[c]
  BY <1>2
<1>4. MinAck(d) = CHOOSE m \in T : \A c \in registered : m <= ack[c]
  BY Zenon DEF MinAck
<1>5. MinAck(d) \in T /\ \A c \in registered : MinAck(d) <= ack[c]
  BY Zenon, <1>3, <1>4
<1> QED
  BY Zenon, <1>1, <1>5

\* Every step of the spool is a step of the log or invisible to clients.
LEMMA LogStep ==
  ASSUME LeaseFaults = {}
  PROVE  IInv /\ IInv' /\ [Next]_vars => [Log!Next]_(Log!vars)
<1> SUFFICES ASSUME IInv, IInv', [Next]_vars PROVE [Log!Next]_(Log!vars)
  BY Zenon
<1>1. ASSUME NEW p \in Policies, Start(p) PROVE Log!Open
  <2>1. ~up /\ up' /\ ceiling' = ceiling
    BY Zenon, <1>1 DEF Start, history
  <2>2. live' \in Database
    BY Zenon, LiveTables DEF IInv, TypeInv, TypeOK, live, Policy
  <2>3. policy'.backend \in Backends
    BY Zenon DEF IInv, TypeInv, TypeOK, Policy
  <2>4. /\ \A r \in live'.records : r.cursor <= ceiling
        /\ \A c \in Consumers : live'.ack[c] <= ceiling
    BY Zenon, <2>1, <2>3 DEF IInv, CursorSpaceInvariant, live
  <2> QED
    BY Zenon, <2>1, <2>2, <2>4 DEF Log!Open, Log!Record, Record, Database
<1>2. CASE Stop
  <2>1. up /\ up' = FALSE /\ ceiling' = ceiling
    BY Zenon, <1>2 DEF Stop
  <2>2. Log!Close
    BY Zenon, <2>1 DEF Log!Close
  <2> QED
    BY Zenon, <2>2 DEF Log!Next
<1>3. ASSUME NEW b \in Batches, PublishRecords(b) PROVE [Log!Next]_(Log!vars)
  <2>1. CASE NewCount(b) = 0
    <3>1. /\ up /\ up'
          /\ live'.records = live.records
          /\ live'.registered = live.registered
          /\ live'.ack = live.ack
          /\ ceiling' = ceiling
      BY Zenon, <1>3, <2>1, PublishEffect
    <3> QED
      BY Zenon, <3>1 DEF Log!vars
  <2>2. CASE NewCount(b) # 0
    <3>1. \A r \in live.records : r.cursor <= ceiling /\ r.cursor \in Nat
      BY Zenon, LiveTables DEF IInv, CursorSpaceInvariant, live, Database, Record
    <3>2. /\ live'.records = (live.records \ Evicted(b)) \cup InsertedRows(b)
          /\ live'.records \subseteq Record
          /\ \A r \in InsertedRows(b) : ceiling < r.cursor /\ r.cursor <= ceiling'
          /\ InsertedRows(b) # {}
          /\ up /\ up'
          /\ live'.registered = live.registered
          /\ live'.ack = live.ack
          /\ ceiling' \in Nat /\ ceiling <= ceiling'
      BY Zenon, <1>3, <2>2, PublishEffect
    <3>3. ceiling \in Nat
      BY Zenon DEF IInv, TypeInv, TypeOK
    <3>4. \A r \in InsertedRows(b) : r \notin live.records
      BY SMTT(30), <3>1, <3>2, <3>3
    <3>5. live'.records \ live.records = InsertedRows(b)
      BY Zenon, <3>2, <3>4
    <3>6. Log!Append
      BY Zenon, <3>2, <3>5 DEF Log!Append, Log!Record, Record
    <3> QED
      BY Zenon, <3>6 DEF Log!Next
  <2> QED
    BY Zenon, <2>1, <2>2
<1>4. ASSUME NEW c \in Consumers, RegisterConsumer(c) PROVE Log!Register(c)
  <2>1. /\ up /\ up'
        /\ live'.records = live.records
        /\ live'.registered = live.registered \cup {c}
        /\ live'.ack = IF c \in live.registered THEN live.ack
                       ELSE [live.ack EXCEPT ![c] = 0]
        /\ ceiling' = ceiling
    BY Zenon, <1>4, RegisterLive DEF IInv
  <2> QED
    BY Zenon, <2>1 DEF Log!Register
<1>5. ASSUME NEW c \in Consumers, UnregisterConsumer(c) PROVE Log!Unregister(c)
  <2>1. /\ up /\ up'
        /\ live'.records = live.records
        /\ live'.registered = live.registered \ {c}
        /\ live'.ack = [live.ack EXCEPT ![c] = 0]
        /\ ceiling' = ceiling
    BY Zenon, <1>5, UnregisterLive DEF IInv
  <2> QED
    BY Zenon, <2>1 DEF Log!Unregister
<1>6. ASSUME NEW c \in Consumers, AcknowledgeAndPrune(c) PROVE Log!Acknowledge(c)
  <2> DEFINE n == Larger(live.ack[c], held[c])
  <2>1. /\ up /\ up'
        /\ c \in live.registered
        /\ live'.registered = live.registered
        /\ live'.ack = [live.ack EXCEPT ![c] = n]
        /\ live'.records \subseteq live.records
        /\ \A r \in live.records \ live'.records : r.cursor <= MinAck(live')
        /\ ceiling' = ceiling
    BY Zenon, <1>6, AcknowledgeLive DEF IInv
  <2>2. /\ live \in Database /\ policy.backend \in Backends
        /\ held \in [Consumers -> Nat] /\ ceiling \in Nat
    BY Zenon, LiveTables DEF IInv, TypeInv, TypeOK
  <2>3. live.ack[c] \in Nat /\ live.ack[c] <= ceiling /\ held[c] <= ceiling
    BY Zenon, <2>2 DEF IInv, CursorSpaceInvariant, live, Database
  <2>4. n \in 0..ceiling /\ live.ack[c] <= n
    BY <2>2, <2>3 DEF Larger
  <2> HIDE DEF n
  <2>5. live'.ack \in [Consumers -> Nat] /\ live.registered \in SUBSET Consumers
    BY SMTT(30), <2>1, <2>2, <2>4 DEF Database
  <2>6. \A k \in live.registered : MinAck(live') \in Nat /\ MinAck(live') <= live'.ack[k]
    BY Zenon, <2>1, <2>5, MinAckIsMinimum
  <2>7. \A r \in live.records : r.cursor \in Nat
    BY Zenon, <2>2 DEF Database, Record
  <2>8. \A r \in live.records \ live'.records :
          \A k \in live.registered : r.cursor <= live'.ack[k]
    BY <2>1, <2>5, <2>6, <2>7
  <2> QED
    BY Zenon, <2>1, <2>4, <2>8 DEF Log!Acknowledge
<1>7. CASE \/ Tick
           \/ \E c \in Consumers : ReadAfter(c) \/ AcknowledgeRejected(c)
           \/ \E p \in Policies : \/ ApplyPolicyInPlace(p)
                                  \/ ApplyPolicySwitch(p)
                                  \/ ApplyPolicyFails(p)
           \/ UNCHANGED vars
  BY <1>7, QuietLive DEF IInv, Log!vars
<1> QED
  BY Zenon, <1>1, <1>2, <1>3, <1>4, <1>5, <1>6, <1>7 DEF Next, Log!Next

\* Whatever the spool does, its clients see a log of ever-growing cursors:
\* appended rows are past every cursor issued, rows are retired only to make
\* room or when every consumer is past them, a backend switch is invisible,
\* and a restart shows nothing that was not issued before.
THEOREM SpoolImplementsLog ==
  ASSUME LeaseFaults = {}
  PROVE  Spec => ImplementsLog
<1>1. Init => Log!Init
  BY Zenon, TypeInit DEF Init, Log!Init, TypeInv, TypeOK
<1> QED
  BY <1>1, LogStep, Inductive, PTL DEF Spec, ImplementsLog, Log!Spec

\* With a trustworthy lease file no cursor is used twice, over restarts, power
\* cuts and switches of backend, and a switch carries the stream over
\* (durable_meter_spool.cpp, seed_cursor_space, publish, apply_policy).
THEOREM CursorsAreDisciplined ==
  ASSUME LeaseFaults = {}
  PROVE  Spec => CursorDiscipline
BY Zenon, CursorsAreFresh, SessionsAreDisjoint, SwitchKeeps DEF CursorDiscipline

-----------------------------------------------------------------------------
\* Counting the rows: what the byte accounting and the byte cap rest on.

\* Removing rows of a table takes off exactly their number.
LEMMA RowsRemoved ==
  ASSUME NEW S, IsFiniteSet(S), NEW T \in SUBSET S
  PROVE  /\ IsFiniteSet(S \ T) /\ IsFiniteSet(T)
         /\ Cardinality(S) \in Nat /\ Cardinality(T) \in Nat
         /\ Cardinality(S \ T) = Cardinality(S) - Cardinality(T)
         /\ Larger(Cardinality(S) - Cardinality(T), 0) = Cardinality(S \ T)
<1>1. S \cap T = T
  BY Zenon
<1>2. /\ IsFiniteSet(T) /\ Cardinality(T) <= Cardinality(S)
      /\ IsFiniteSet(S \ T)
      /\ Cardinality(S \ T) = Cardinality(S) - Cardinality(T)
  <2>1. IsFiniteSet(T) /\ Cardinality(T) <= Cardinality(S)
    BY Zenon, FS_Subset
  <2>2. /\ IsFiniteSet(S \ T)
        /\ Cardinality(S \ T) = Cardinality(S) - Cardinality(S \cap T)
    BY Zenon, FS_Difference
  <2> QED
    BY Zenon, <1>1, <2>1, <2>2
<1>3. /\ Cardinality(S) \in Nat /\ Cardinality(T) \in Nat
      /\ Cardinality(S \ T) \in Nat
  BY Zenon, <1>2, FS_CardinalityType
<1> QED
  BY <1>2, <1>3 DEF Larger

\* ORDER BY cursor LIMIT n takes n rows, or the whole table when it has fewer.
LEMMA OldestIsEnough ==
  ASSUME NEW S \in SUBSET Record, IsFiniteSet(S), NEW n \in Nat,
         Oldest(S, n) # S
  PROVE  n <= Cardinality(Oldest(S, n))
<1> DEFINE left == S \ Oldest(S, n)
<1>1. Oldest(S, n) \in SUBSET S /\ left # {}
  BY Zenon DEF Oldest
<1>2. Cursors(left) \in SUBSET Nat /\ Cursors(left) # {}
  BY Zenon, <1>1 DEF Cursors, Record
<1>3. PICK m \in Cursors(left) : \A k \in Cursors(left) : m <= k
  BY Zenon, <1>2, LeastElement
<1>4. PICK r \in left : r.cursor = m
  BY Zenon, <1>3 DEF Cursors
<1> DEFINE before == {q \in S : q.cursor < r.cursor}
<1>5. before \in SUBSET Oldest(S, n)
  <2> SUFFICES ASSUME NEW q \in before, q \in left PROVE FALSE
    BY Zenon, <1>1
  <2>1. q.cursor \in Cursors(left) /\ q.cursor \in Nat /\ m \in Nat
    BY Zenon, <1>2 DEF Cursors
  <2>2. m <= q.cursor /\ q.cursor < m
    BY Zenon, <1>3, <1>4, <2>1
  <2> HIDE DEF left, before
  <2> QED
    BY <2>1, <2>2
<1>6. IsFiniteSet(Oldest(S, n)) /\ IsFiniteSet(before)
  BY Zenon, <1>1, FS_Subset
<1>7. /\ Cardinality(before) \in Nat /\ Cardinality(Oldest(S, n)) \in Nat
      /\ Cardinality(before) <= Cardinality(Oldest(S, n))
  BY Zenon, <1>5, <1>6, FS_Subset, FS_CardinalityType
<1>8. ~(Cardinality(before) < n)
  BY Zenon, <1>4 DEF Oldest
<1> HIDE DEF before
<1> QED
  BY <1>7, <1>8

\* A batch inserts as many rows as it counts new: no two of them have the same
\* producer identity.
LEMMA InsertedCount ==
  ASSUME TypeInv, NEW b \in Batches
  PROVE  Cardinality(InsertedRows(b)) = NewCount(b)
<1> DEFINE N == NewIndices(b)
           row == [i \in N |->
                    [cursor |-> live.seq + Cardinality({j \in N : j <= i}),
                     key |-> b[i]]]
<1>1. b \in Seq(Keys)
  BY Zenon, SpoolAssumption
<1>2. N \subseteq 1..Len(b) /\ Len(b) \in Nat /\ DOMAIN b = 1..Len(b)
  BY <1>1 DEF NewIndices
<1>3. IsFiniteSet(N)
  <2>1. IsFiniteSet(1..Len(b))
    BY SMTT(30), <1>2, FS_Interval
  <2> QED
    BY Zenon, <1>2, <2>1, FS_Subset
<1>4. \A i, k \in N : i < k => b[i] # b[k]
  BY Zenon, <1>2 DEF NewIndices
<1>5. \A i, k \in N : b[i] = b[k] => i = k
  <2> SUFFICES ASSUME NEW i \in N, NEW k \in N, i # k PROVE b[i] # b[k]
    BY Zenon
  <2>1. i \in Nat /\ k \in Nat
    BY <1>2
  <2>2. i < k \/ k < i
    BY <2>1
  <2> QED
    BY Zenon, <1>4, <2>2
<1>6. \A i \in N : row[i].key = b[i]
  BY Zenon
<1>7. InsertedRows(b) = {row[i] : i \in N} /\ DOMAIN row = N
  BY Zenon DEF InsertedRows
<1> HIDE DEF row, N
<1>8. row \in Surjection(N, InsertedRows(b)) /\ row \in Injection(N, InsertedRows(b))
  <2>1. row = [i \in N |-> row[i]]
    BY Zenon, <1>7 DEF row
  <2>2. row \in [N -> InsertedRows(b)]
    BY Zenon, <1>7, <2>1
  <2>3. \A i, k \in N : row[i] = row[k] => i = k
    BY Zenon, <1>5, <1>6
  <2>4. \A t \in InsertedRows(b) : \E i \in N : row[i] = t
    BY Zenon, <1>7
  <2> QED
    BY Zenon, <1>7, <2>2, <2>3, <2>4 DEF Surjection, Injection, IsInjective
<1>9. Cardinality(InsertedRows(b)) = Cardinality(N)
  BY Zenon, <1>3, <1>8, FS_Surjection
<1> QED
  BY Zenon, <1>9 DEF NewCount, N

\* What a publish does to the number of rows.
LEMMA PublishCounts ==
  ASSUME TypeInv, NEW b \in Batches, PublishRecords(b),
         tracked = Cardinality(live.records)
  PROVE  /\ live'.records = (live.records \ Evicted(b)) \cup InsertedRows(b)
         /\ live.records \ live'.records = Evicted(b)
         /\ live'.records \ live.records = InsertedRows(b)
         /\ live'.registered = live.registered /\ live'.ack = live.ack
         /\ Cardinality(live.records) \in Nat
         /\ Cardinality(Evicted(b)) \in Nat
         /\ Cardinality(Evicted(b)) <= Cardinality(live.records)
         /\ Cardinality(live'.records) =
              Cardinality(live.records) - Cardinality(Evicted(b)) + NewCount(b)
         /\ tracked' = Cardinality(live'.records)
<1> DEFINE n == NewCount(b)
           inserted == InsertedRows(b)
           evicted == Evicted(b)
           kept == live.records \ evicted
           rows == kept \cup inserted
           d == [live EXCEPT !.records = rows, !.seq = live.seq + n]
<1>1. /\ live \in Database /\ IsFiniteSet(live.records)
      /\ policy.backend \in Backends /\ db \in [Backends -> Database]
      /\ \A r \in live.records : r.cursor <= live.seq
      /\ live.seq \in Nat
      /\ live.records \subseteq Record
  BY Zenon, LiveTables DEF TypeInv, TypeOK, Database
<1>2. /\ n \in Nat /\ IsFiniteSet(inserted) /\ Cardinality(inserted) = n
      /\ inserted \subseteq Record
      /\ \A r \in inserted : live.seq < r.cursor
  BY Zenon, InsertedRowsAreNew, InsertedCount
<1>3. evicted \in SUBSET live.records
  BY Zenon DEF Evicted, Oldest
<1>4. /\ db' = [db EXCEPT ![policy.backend] = d]
      /\ policy' = policy
      /\ tracked' = Larger((tracked + n) - Cardinality(evicted), 0)
  BY Zenon DEF PublishRecords, Commit
<1>5. d.records = rows /\ d.ack = live.ack /\ d.registered = live.registered
  BY Zenon, <1>1 DEF Database
<1> HIDE DEF d, n, inserted, evicted
<1>6. live' = d
  BY Zenon, <1>1, <1>4 DEF live
<1>7. live.records \cap inserted = {}
  BY <1>1, <1>2 DEF Record
<1>8. /\ IsFiniteSet(kept)
      /\ Cardinality(live.records) \in Nat /\ Cardinality(evicted) \in Nat
      /\ Cardinality(kept) = Cardinality(live.records) - Cardinality(evicted)
  BY ZenonT(40), <1>1, <1>3, RowsRemoved
<1>9. Cardinality(kept) \in Nat
  BY Zenon, <1>8, FS_CardinalityType
<1>10. Cardinality(rows) = Cardinality(kept) + n
  <2>1. kept \cap inserted = {}
    BY Zenon, <1>7
  <2>2. Cardinality(kept \cap inserted) = 0
    BY Zenon, <2>1, FS_EmptySet
  <2>3. Cardinality(kept \cup inserted) =
          Cardinality(kept) + Cardinality(inserted) - Cardinality(kept \cap inserted)
    BY Zenon, <1>2, <1>8, FS_Union
  <2> HIDE DEF kept
  <2> QED
    BY <1>2, <1>9, <2>2, <2>3
<1>11. live.records \ rows = evicted /\ rows \ live.records = inserted
  BY Zenon, <1>3, <1>7
<1> HIDE DEF rows, kept
<1>12. tracked' = Cardinality(rows)
  BY <1>2, <1>4, <1>8, <1>9, <1>10 DEF Larger
<1>13. /\ Cardinality(evicted) <= Cardinality(live.records)
       /\ Cardinality(rows) = Cardinality(live.records) - Cardinality(evicted) + n
  BY <1>2, <1>8, <1>9, <1>10
<1> QED
  BY ZenonT(40), <1>5, <1>6, <1>8, <1>11, <1>12, <1>13
  DEF rows, kept, n, inserted, evicted

\* acknowledge and prune keep the byte count exact.
LEMMA AcknowledgeCounts ==
  ASSUME TypeInv, NEW c \in Consumers, AcknowledgeAndPrune(c),
         tracked = Cardinality(live.records)
  PROVE  tracked' = Cardinality(live'.records)
<1> DEFINE ack == [live.ack EXCEPT ![c] = Larger(live.ack[c], held[c])]
           acked == [live EXCEPT !.ack = ack]
<1>1. /\ live \in Database /\ IsFiniteSet(live.records)
      /\ policy.backend \in Backends /\ db \in [Backends -> Database]
  BY Zenon, LiveTables DEF TypeInv, TypeOK
<1>2. PICK expired \in SUBSET {r \in live.records : r.cursor <= MinAck(acked)} :
        LET aged == live.records \ expired
            bytes == Larger(tracked - Cardinality(expired), 0)
            victims == ByteVictims(aged, MinAck(acked), bytes)
        IN  /\ Commit([acked EXCEPT !.records = aged \ victims])
            /\ tracked' = Larger(bytes - Cardinality(victims), 0)
  BY Zenon DEF AcknowledgeAndPrune
<1> DEFINE aged == live.records \ expired
           bytes == Larger(tracked - Cardinality(expired), 0)
           victims == ByteVictims(aged, MinAck(acked), bytes)
           d == [acked EXCEPT !.records = aged \ victims]
<1>3. db' = [db EXCEPT ![policy.backend] = d] /\ policy' = policy
  BY Zenon, <1>2 DEF Commit, AcknowledgeAndPrune
<1>4. tracked' = Larger(bytes - Cardinality(victims), 0)
  BY Zenon, <1>2
<1>5. victims \in SUBSET aged /\ expired \in SUBSET live.records
  BY Zenon DEF ByteVictims, Oldest
<1>6. d.records = aged \ victims
  BY Zenon, <1>1 DEF Database
<1> HIDE DEF d, victims
<1>7. live' = d
  BY Zenon, <1>1, <1>3 DEF live
<1>8. IsFiniteSet(aged) /\ bytes = Cardinality(aged)
  BY Zenon, <1>1, <1>5, RowsRemoved
<1> HIDE DEF aged, bytes
<1>9. Larger(Cardinality(aged) - Cardinality(victims), 0) = Cardinality(aged \ victims)
  BY Zenon, <1>5, <1>8, RowsRemoved
<1> QED
  BY Zenon, <1>4, <1>6, <1>7, <1>8, <1>9

-----------------------------------------------------------------------------
\* The pages consumers hold.

\* The head of a table is the cursor of one of its rows.
LEMMA NewestIsStored ==
  ASSUME NEW S \in SUBSET Record, NEW bound \in Nat,
         \A r \in S : r.cursor <= bound, S # {}
  PROVE  \E r \in S : r.cursor = Newest(S)
<1>1. Cursors(S) \in SUBSET Nat /\ Cursors(S) # {}
  BY Zenon DEF Cursors, Record
<1>2. \A n \in Cursors(S) : n <= bound
  BY Zenon DEF Cursors
<1>3. \E m \in Cursors(S) : \A n \in Cursors(S) : n <= m
  BY Zenon, <1>1, <1>2, GreatestElement
<1>4. Newest(S) \in Cursors(S)
  BY Zenon, <1>3 DEF Newest
<1> QED
  BY Zenon, <1>4 DEF Cursors

\* What keeps a held page acknowledgeable: it was read in this session, by a
\* registered consumer that has not acknowledged it yet, and the head has not
\* fallen below it.  Pruning cannot reach it because it stops at the slowest
\* consumer, and eviction only makes room for newer rows.
PageInv ==
  \A c \in Consumers :
    held[c] # 0 /\ c \notin outdated =>
      /\ up
      /\ c \in live.registered
      /\ live.ack[c] < held[c]
      /\ held[c] <= Newest(live.records)

\* A step that keeps the consumers' cursors and pages, and the head of the
\* table or something past it, keeps the pages acknowledgeable.
LEMMA PagesKept ==
  ASSUME TypeInv, TypeInv', PageInv,
         UNCHANGED <<up, outdated>>,
         \A c \in Consumers :
           held'[c] # 0 => /\ held'[c] = held[c]
                           /\ c \in live.registered => c \in live'.registered
                           /\ live'.ack[c] = live.ack[c],
         Newest(live.records) <= Newest(live'.records)
  PROVE  PageInv'
<1>1. Newest(live.records) \in Nat /\ Newest(live'.records) \in Nat
  <2>1. Newest(live.records) \in Nat
    BY Zenon, LiveTables, NewestIsMaximum DEF Database
  <2>2. /\ live' \in Database
        /\ \A r \in live'.records : r.cursor <= live'.seq
    BY Zenon DEF TypeInv, TypeOK, TablesOK, live, Policy
  <2>3. live'.seq \in Nat /\ live'.records \in SUBSET Record
    BY Zenon, <2>2 DEF Database
  <2> QED
    BY Zenon, <2>1, <2>2, <2>3, NewestIsMaximum
<1>2. held \in [Consumers -> Nat] /\ held' \in [Consumers -> Nat]
  BY Zenon DEF TypeInv, TypeOK
<1> QED
  BY <1>1, <1>2 DEF PageInv

\* Every step keeps the byte count exact.
LEMMA TrackedStep == TypeInv /\ TrackedBytesExact /\ [Next]_vars => TrackedBytesExact'
<1> SUFFICES ASSUME TypeInv, TrackedBytesExact, [Next]_vars
             PROVE  TrackedBytesExact'
  BY Zenon
<1>1. ASSUME NEW p \in Policies, Start(p) PROVE TrackedBytesExact'
  <2> DEFINE d == db[p.backend]
  <2>1. /\ p.backend \in Backends /\ d \in Database
        /\ db \in [Backends -> Database]
    BY Zenon, SpoolAssumption DEF Policy, TypeInv, TypeOK
  <2>2. PICK lease \in ReadLease :
          /\ db' = [db EXCEPT ![p.backend] = RaiseSequence(d, SeedCursor(lease, d))]
          /\ tracked' = StoredBytes(d.records)
          /\ policy' = p
    BY Zenon, <1>1 DEF Start
  <2>3. SeedCursor(lease, d) \in Nat
    BY Zenon, <2>1, SeedTyped, LeaseTyped
  <2>4. RaiseSequence(d, SeedCursor(lease, d)).records = d.records
    BY Zenon, <2>1, <2>3, RaisedTyped
  <2> QED
    BY Zenon, <2>1, <2>2, <2>4 DEF TrackedBytesExact, StoredBytes, live
<1>2. CASE Stop
  BY Zenon, <1>2 DEF Stop, TrackedBytesExact
<1>3. ASSUME NEW b \in Batches, PublishRecords(b) PROVE TrackedBytesExact'
  <2>1. up
    BY Zenon, <1>3 DEF PublishRecords
  <2> QED
    BY Zenon, <1>3, <2>1, PublishCounts DEF TrackedBytesExact
<1>4. ASSUME NEW c \in Consumers, RegisterConsumer(c) \/ UnregisterConsumer(c)
      PROVE  TrackedBytesExact'
  <2>1. live'.records = live.records /\ up
    BY Zenon, <1>4, RegisterLive, UnregisterLive
  <2>2. tracked' = tracked
    BY Zenon, <1>4 DEF RegisterConsumer, UnregisterConsumer, implVars
  <2> QED
    BY Zenon, <2>1, <2>2 DEF TrackedBytesExact
<1>5. ASSUME NEW c \in Consumers, AcknowledgeAndPrune(c) PROVE TrackedBytesExact'
  <2>1. up
    BY Zenon, <1>5 DEF AcknowledgeAndPrune
  <2> QED
    BY Zenon, <1>5, <2>1, AcknowledgeCounts DEF TrackedBytesExact
<1>6. CASE \/ Tick
           \/ \E c \in Consumers : ReadAfter(c) \/ AcknowledgeRejected(c)
           \/ \E p \in Policies : \/ ApplyPolicyInPlace(p)
                                  \/ ApplyPolicySwitch(p)
                                  \/ ApplyPolicyFails(p)
           \/ UNCHANGED vars
  <2>1. up' = up /\ live'.records = live.records
    BY Zenon, <1>6, QuietLive
  <2>2. tracked' = tracked \/ tracked' = Cardinality(live.records)
    BY ZenonT(40), <1>6 DEF Tick, ReadAfter, AcknowledgeRejected, ApplyPolicyInPlace,
                ApplyPolicySwitch, ApplyPolicyFails, StoredBytes, vars, implVars
  <2> QED
    BY Zenon, <2>1, <2>2 DEF TrackedBytesExact
<1> QED
  BY Zenon, <1>1, <1>2, <1>3, <1>4, <1>5, <1>6 DEF Next

\* A cursor that reaches the end of a held page is above whatever lies at or
\* below the acknowledgement.
LEMMA BelowHeld ==
  ASSUME NEW cursor \in Nat, NEW page \in Nat, NEW ack \in Nat, NEW low \in Nat,
         ack < page, page <= cursor, low <= ack
  PROVE  ~(cursor <= low)
BY SMT

LEMMA AtMostTransitive ==
  ASSUME NEW a \in Nat, NEW b \in Nat, NEW c \in Nat, a <= b, b <= c
  PROVE  a <= c
BY SMT

LEMMA LargerBounds ==
  ASSUME NEW a \in Nat, NEW b \in Nat
  PROVE  Larger(a, b) \in Nat /\ a <= Larger(a, b)
BY SMT DEF Larger

\* The bytes above the limit.
LEMMA ExcessIsNatural ==
  ASSUME NEW size \in Nat, NEW n \in Nat, NEW limit \in Nat, size + n > limit
  PROVE  (size + n) - limit \in Nat
BY SMT

\* Every step keeps the pages acknowledgeable.
LEMMA PageStep ==
  TypeInv /\ TypeInv' /\ TrackedBytesExact /\ PageInv /\ [Next]_vars => PageInv'
<1> SUFFICES ASSUME TypeInv, TypeInv', TrackedBytesExact, PageInv, [Next]_vars
             PROVE  PageInv'
  BY Zenon
<1>0. /\ held \in [Consumers -> Nat]
      /\ live \in Database
      /\ \A r \in live.records : r.cursor <= live.seq
      /\ live.seq \in Nat /\ live.ack \in [Consumers -> Nat]
      /\ live.registered \in SUBSET Consumers
      /\ live.records \in SUBSET Record
  BY Zenon, LiveTables DEF TypeInv, TypeOK, Database
<1>1. /\ Newest(live.records) \in Nat
      /\ \A r \in live.records : r.cursor <= Newest(live.records)
  BY Zenon, <1>0, NewestIsMaximum
<1>2. /\ live'.seq \in Nat /\ live'.records \in SUBSET Record
      /\ \A r \in live'.records : r.cursor <= live'.seq
      /\ live'.ack \in [Consumers -> Nat]
  <2>1. live' \in Database /\ \A r \in live'.records : r.cursor <= live'.seq
    BY Zenon DEF TypeInv, TypeOK, TablesOK, live, Policy
  <2> QED
    BY Zenon, <2>1 DEF Database
<1>3. /\ Newest(live'.records) \in Nat
      /\ \A r \in live'.records : r.cursor <= Newest(live'.records)
  BY Zenon, <1>2, NewestIsMaximum
<1>4. ASSUME NEW p \in Policies, Start(p) PROVE PageInv'
  BY Zenon, <1>4 DEF Start, history, PageInv
<1>5. CASE Stop
  BY Zenon, <1>5 DEF Stop, PageInv
<1>6. ASSUME NEW b \in Batches, PublishRecords(b) PROVE PageInv'
  <2>1. up /\ UNCHANGED <<up, held, outdated>>
    BY Zenon, <1>6 DEF PublishRecords
  <2>2. /\ live'.records = (live.records \ Evicted(b)) \cup InsertedRows(b)
        /\ live'.registered = live.registered /\ live'.ack = live.ack
    BY Zenon, <1>6, <2>1, PublishCounts DEF TrackedBytesExact
  <2>3. Newest(live.records) <= Newest(live'.records)
    <3>1. CASE NewCount(b) = 0
      <4>1. Evicted(b) = {}
        BY Zenon, <3>1 DEF Evicted
      <4>2. live.records \subseteq live'.records
        BY Zenon, <2>2, <4>1
      <4>3. CASE live.records = {}
        BY <1>3, <4>3 DEF Newest
      <4>4. CASE live.records # {}
        <5>1. PICK r \in live.records : r.cursor = Newest(live.records)
          BY Zenon, <1>0, <4>4, NewestIsStored
        <5> QED
          BY Zenon, <1>3, <4>2, <5>1
      <4> QED
        BY Zenon, <4>3, <4>4
    <3>2. CASE NewCount(b) # 0
      <4>1. PICK r \in InsertedRows(b) : live.seq < r.cursor
        BY Zenon, <3>2, InsertedRowsAreNew
      <4>2. r \in live'.records
        BY Zenon, <2>2, <4>1
      <4>3. r.cursor <= Newest(live'.records) /\ r.cursor \in Nat
        BY Zenon, <1>2, <1>3, <4>2 DEF Record
      <4>4. Newest(live.records) <= live.seq
        BY Zenon, <1>0, NewestIsMaximum
      <4> QED
        BY SMTT(30), <1>0, <1>1, <1>3, <4>1, <4>3, <4>4
    <3> QED
      BY Zenon, <3>1, <3>2
  <2> QED
    BY Zenon, <2>1, <2>2, <2>3, PagesKept
<1>7. ASSUME NEW c \in Consumers, RegisterConsumer(c) \/ UnregisterConsumer(c)
      PROVE  PageInv'
  <2>1. /\ UNCHANGED <<up, outdated>> /\ held' = [held EXCEPT ![c] = 0]
    BY Zenon, <1>7 DEF RegisterConsumer, UnregisterConsumer, history
  <2>2. /\ live'.records = live.records
        /\ live.registered \ {c} \subseteq live'.registered
        /\ \A k \in Consumers \ {c} : live'.ack[k] = live.ack[k]
    BY ZenonT(40), <1>0, <1>7, RegisterLive, UnregisterLive
  <2>3. \A k \in Consumers :
          held'[k] # 0 => /\ held'[k] = held[k]
                          /\ k \in live.registered => k \in live'.registered
                          /\ live'.ack[k] = live.ack[k]
    BY Zenon, <1>0, <2>1, <2>2
  <2> QED
    BY <1>1, <2>1, <2>2, <2>3, PagesKept
<1>8. ASSUME NEW c \in Consumers, ReadAfter(c) PROVE PageInv'
  <2>1. /\ up /\ c \in live.registered /\ Page(c) # {}
        /\ held' = [held EXCEPT ![c] = Newest(Page(c))]
        /\ outdated' = outdated \ {c}
        /\ up' = up /\ live' = live
    BY ZenonT(40), <1>8 DEF ReadAfter, implVars, live
  <2>2. Page(c) \in SUBSET {r \in live.records : r.cursor > live.ack[c]}
    BY Zenon DEF Page, Oldest
  <2>3. PICK r \in Page(c) : r.cursor = Newest(Page(c))
    BY Zenon, <1>0, <2>1, <2>2, NewestIsStored
  <2>4. /\ live.ack[c] < Newest(Page(c))
        /\ Newest(Page(c)) <= Newest(live.records)
    BY Zenon, <1>0, <1>1, <2>2, <2>3 DEF Record
  <2> QED
    BY Zenon, <1>0, <2>1, <2>4 DEF PageInv
<1>9. ASSUME NEW c \in Consumers, AcknowledgeAndPrune(c) PROVE PageInv'
  <2>1. /\ up /\ up' /\ UNCHANGED outdated
        /\ held' = [held EXCEPT ![c] = 0]
    BY Zenon, <1>9 DEF AcknowledgeAndPrune, history
  <2>2. /\ live'.registered = live.registered
        /\ live'.ack = [live.ack EXCEPT ![c] = Larger(live.ack[c], held[c])]
        /\ \A r \in live.records \ live'.records : r.cursor <= MinAck(live')
    BY Zenon, <1>9, AcknowledgeLive
  <2> SUFFICES ASSUME NEW k \in Consumers, held'[k] # 0, k \notin outdated'
               PROVE  /\ up' /\ k \in live'.registered
                      /\ live'.ack[k] < held'[k]
                      /\ held'[k] <= Newest(live'.records)
    BY ZenonT(40) DEF PageInv
  <2>3. k # c /\ held'[k] = held[k] /\ live'.ack[k] = live.ack[k]
    BY Zenon, <1>0, <2>1, <2>2
  <2>4. /\ k \in live.registered /\ live.ack[k] < held[k]
        /\ held[k] <= Newest(live.records)
    BY Zenon, <2>1, <2>3 DEF PageInv
  <2>5. live.records # {}
    BY SMTT(30), <1>0, <2>1, <2>3, <2>4 DEF Newest
  <2>6. PICK r \in live.records : r.cursor = Newest(live.records)
    BY Zenon, <1>0, <2>5, NewestIsStored
  <2>7. MinAck(live') \in Nat /\ MinAck(live') <= live'.ack[k]
    BY Zenon, <1>0, <1>2, <2>2, <2>4, MinAckIsMinimum
  <2>8. ~(r.cursor <= MinAck(live'))
    <3>1. /\ r.cursor \in Nat /\ held[k] \in Nat /\ live.ack[k] \in Nat
          /\ held[k] <= r.cursor /\ MinAck(live') <= live.ack[k]
      BY Zenon, <1>0, <1>1, <2>3, <2>4, <2>6, <2>7
    <3> QED
      BY Zenon, <2>4, <2>7, <3>1, BelowHeld
  <2>9. r \in live'.records
    BY Zenon, <2>2, <2>8
  <2>10. r.cursor <= Newest(live'.records)
    BY Zenon, <1>3, <2>9
  <2>11. held[k] <= Newest(live'.records)
    <3>1. held[k] \in Nat /\ Newest(live.records) \in Nat /\ Newest(live'.records) \in Nat
      BY Zenon, <1>0, <1>1, <1>3
    <3>2. Newest(live.records) <= Newest(live'.records)
      BY Zenon, <2>6, <2>10
    <3> QED
      BY Zenon, <2>4, <3>1, <3>2, AtMostTransitive
  <2> QED
    BY Zenon, <2>1, <2>2, <2>3, <2>4, <2>11
<1>10. CASE \/ Tick
            \/ \E c \in Consumers : AcknowledgeRejected(c)
            \/ \E p \in Policies : \/ ApplyPolicyInPlace(p)
                                   \/ ApplyPolicySwitch(p)
                                   \/ ApplyPolicyFails(p)
            \/ UNCHANGED vars
  <2>1. /\ up' = up /\ live'.records = live.records
        /\ live'.registered = live.registered /\ live'.ack = live.ack
    BY Zenon, <1>10, QuietLive
  <2>2. /\ outdated' = outdated
        /\ \A k \in Consumers : held'[k] # 0 => held'[k] = held[k]
    BY Zenon, <1>0, <1>10 DEF Tick, AcknowledgeRejected, ApplyPolicyInPlace,
         ApplyPolicySwitch, ApplyPolicyFails, vars, history
  <2> QED
    BY SMTT(30), <1>1, <2>1, <2>2, PagesKept
<1> QED
  BY Zenon, <1>4, <1>5, <1>6, <1>7, <1>8, <1>9, <1>10 DEF Next

\* The byte count and the pages, as an invariant of every behaviour.
LEMMA PagesInductive == Spec => [](TypeInv /\ TrackedBytesExact /\ PageInv)
<1>1. Init => TypeInv /\ TrackedBytesExact /\ PageInv
  <2>1. ASSUME Init PROVE TrackedBytesExact /\ PageInv
    BY Zenon, <2>1 DEF Init, TrackedBytesExact, PageInv
  <2> QED
    BY Zenon, <2>1, TypeInit
<1>2. TypeInv /\ TrackedBytesExact /\ PageInv /\ [Next]_vars
        => (TypeInv /\ TrackedBytesExact /\ PageInv)'
  BY Zenon, TypeStep, TrackedStep, PageStep
<1> QED
  BY <1>1, <1>2, PTL DEF Spec

\* What consumers rely on, for any producers, consumers, policies, bounds and
\* lease faults: tracked_payload_bytes is the size of the table, and the page
\* a consumer holds can be acknowledged (durable_meter_spool.cpp, publish,
\* read_after, acknowledge, prune, apply_policy).
THEOREM PagesCorrect == Spec => []PagesAreSound
<1>1. TypeInv /\ TrackedBytesExact /\ PageInv => PagesAreSound
  BY Zenon DEF PageInv, PagesAreSound, HeldPageAcknowledgeable
<1> QED
  BY <1>1, PagesInductive, PTL

-----------------------------------------------------------------------------
\* Retention.

\* A publish counts as lost what it evicts unread, and fits the byte limit.
LEMMA PublishIsHonest ==
  ASSUME TypeInv, TrackedBytesExact, NEW b \in Batches, PublishRecords(b)
  PROVE  /\ dropped' - dropped =
              Cardinality({r \in live.records \ live'.records :
                            r.cursor > MinAck(live')})
         /\ (ceiling' # ceiling /\ policy.bytes # 0) =>
              Cardinality(live'.records) <=
                Larger(policy.bytes, Cardinality(live'.records \ live.records))
<1> DEFINE n == NewCount(b)
           size == Cardinality(live.records)
           gone == Cardinality(Evicted(b))
           lost == Unacknowledged(Evicted(b))
<1>1. /\ up /\ dropped' = dropped + Cardinality(lost)
      /\ ceiling' = Larger(ceiling, Newest(InsertedRows(b)))
  BY Zenon DEF PublishRecords
<1>2. tracked = size
  BY Zenon, <1>1 DEF TrackedBytesExact
<1>3. /\ live.records \ live'.records = Evicted(b)
      /\ live'.records \ live.records = InsertedRows(b)
      /\ live'.records = (live.records \ Evicted(b)) \cup InsertedRows(b)
      /\ live'.registered = live.registered /\ live'.ack = live.ack
      /\ size \in Nat /\ gone \in Nat /\ gone <= size
      /\ Cardinality(live'.records) = size - gone + n
  BY Zenon, <1>2, PublishCounts
<1>4. /\ live \in Database /\ IsFiniteSet(live.records)
      /\ live.records \in SUBSET Record
      /\ dropped \in Nat /\ ceiling \in Nat /\ policy.bytes \in Nat
  BY Zenon, LiveTables DEF TypeInv, TypeOK, Database, Policy
<1>5. /\ n \in Nat /\ Cardinality(InsertedRows(b)) = n
      /\ IsFiniteSet(InsertedRows(b))
  BY Zenon, InsertedRowsAreNew, InsertedCount
<1>6. Evicted(b) \in SUBSET live.records
  BY Zenon DEF Evicted, Oldest
<1>7. dropped' - dropped =
        Cardinality({r \in live.records \ live'.records : r.cursor > MinAck(live')})
  <2>1. MinAck(live') = MinAck(live)
    BY SMTT(30), <1>3 DEF MinAck
  <2>2. {r \in live.records \ live'.records : r.cursor > MinAck(live')} = lost
    BY Zenon, <1>3, <2>1 DEF Unacknowledged
  <2>3. lost \in SUBSET live.records
    BY Zenon, <1>6 DEF Unacknowledged
  <2>4. Cardinality(lost) \in Nat
    BY Zenon, <1>4, <2>3, FS_Subset, FS_CardinalityType
  <2>5. dropped \in Nat /\ dropped' = dropped + Cardinality(lost)
    BY Zenon, <1>1, <1>4
  <2> HIDE DEF lost
  <2>6. dropped' - dropped = Cardinality(lost)
    BY SMTT(30), <2>4, <2>5
  <2> QED
    BY ZenonT(40), <2>2, <2>6
<1>8. ASSUME ceiling' # ceiling, policy.bytes # 0
      PROVE  Cardinality(live'.records) <= Larger(policy.bytes, n)
  <2>1. n # 0
    <3> SUFFICES ASSUME n = 0 PROVE FALSE
      BY Zenon
    <3>1. InsertedRows(b) = {}
      BY Zenon, <1>5, FS_EmptySet
    <3> QED
      BY <1>1, <1>4, <1>8, <3>1 DEF Newest, Larger
  <2>2. CASE size + n > policy.bytes
    <3> DEFINE k == (size + n) - policy.bytes
    <3>1. Evicted(b) = Oldest(live.records, k)
      BY Zenon, <1>2, <1>8, <2>1, <2>2 DEF Evicted
    <3> HIDE DEF n, size
    <3>2. k \in Nat /\ k = (size + n) - policy.bytes
      <4>1. size \in Nat /\ n \in Nat /\ policy.bytes \in Nat
        BY Zenon, <1>3, <1>4, <1>5
      <4> QED
        BY Zenon, <2>2, <4>1, ExcessIsNatural
    <3> HIDE DEF k
    <3>3. CASE Evicted(b) = live.records
      <4>1. gone = size
        BY Zenon, <3>3 DEF size
      <4> HIDE DEF gone
      <4> QED
        BY <1>3, <1>4, <1>5, <4>1 DEF Larger
    <3>4. CASE Evicted(b) # live.records
      <4>1. k <= gone
        BY Zenon, <1>4, <3>1, <3>2, <3>4, OldestIsEnough
      <4> HIDE DEF gone
      <4> QED
        <5>1. /\ size \in Nat /\ n \in Nat /\ policy.bytes \in Nat
              /\ gone \in Nat /\ gone <= size
          BY Zenon, <1>3, <1>4, <1>5
        <5>2. (size - gone) + n \in Nat /\ (size - gone) + n <= policy.bytes
          BY SMT, <3>2, <4>1, <5>1
        <5>3. Larger(policy.bytes, n) \in Nat /\ policy.bytes <= Larger(policy.bytes, n)
          BY Zenon, <5>1, LargerBounds
        <5> QED
          BY Zenon, <1>3, <5>1, <5>2, <5>3, AtMostTransitive
    <3> QED
      BY Zenon, <3>3, <3>4
  <2>3. CASE ~(size + n > policy.bytes)
    <3> HIDE DEF size, n, gone
    <3> QED
      BY <1>3, <1>4, <1>5, <2>3 DEF Larger
  <2> QED
    BY Zenon, <2>2, <2>3
<1> QED
  BY Zenon, <1>3, <1>5, <1>7, <1>8

\* Retention is honest whatever the lease file does: dropped_unacknowledged
\* grows by exactly the rows removed that a registered consumer had still to
\* read, and a commit leaves no more than the byte limit or its own batch
\* (durable_meter_spool.cpp, publish_records, prune).
THEOREM RetentionCorrect == Spec => RetentionIsHonest
<1> DEFINE Lost == {r \in live.records \ live'.records : r.cursor > MinAck(live')}
           Counted == up /\ up' => dropped' - dropped = Cardinality(Lost)
           Capped == (up /\ up' /\ ceiling' # ceiling /\ policy.bytes # 0) =>
                       Cardinality(live'.records) <=
                         Larger(policy.bytes, Cardinality(live'.records \ live.records))
<1>1. TypeInv /\ TypeInv' /\ TrackedBytesExact /\ [Next]_vars => Counted /\ Capped
  <2> SUFFICES ASSUME TypeInv, TypeInv', TrackedBytesExact, [Next]_vars
               PROVE  Counted /\ Capped
    BY Zenon
  <2>0. dropped \in Nat
    BY Zenon DEF TypeInv, TypeOK
  <2>1. ASSUME Lost = {}, dropped' = dropped, ceiling' = ceiling
        PROVE  Counted /\ Capped
    BY <2>0, <2>1, FS_EmptySet
  <2>2. ASSUME NEW p \in Policies, Start(p) PROVE Counted /\ Capped
    BY Zenon, <2>2 DEF Start
  <2>3. CASE Stop
    BY ZenonT(40), <2>3 DEF Stop
  <2>4. ASSUME NEW b \in Batches, PublishRecords(b) PROVE Counted /\ Capped
    BY SMTT(30), <2>4, PublishIsHonest
  <2>5. ASSUME NEW c \in Consumers, RegisterConsumer(c) \/ UnregisterConsumer(c)
        PROVE  Counted /\ Capped
    <3>1. live'.records = live.records
      BY Zenon, <2>5, RegisterLive, UnregisterLive
    <3>2. dropped' = dropped /\ ceiling' = ceiling
      BY Zenon, <2>5 DEF RegisterConsumer, UnregisterConsumer, implVars, history
    <3> QED
      BY Zenon, <2>1, <3>1, <3>2
  <2>6. ASSUME NEW c \in Consumers, AcknowledgeAndPrune(c) PROVE Counted /\ Capped
    <3>1. /\ c \in live.registered /\ live'.registered = live.registered
          /\ \A r \in live.records \ live'.records : r.cursor <= MinAck(live')
      BY ZenonT(40), <2>6, AcknowledgeLive
    <3>2. live \in Database /\ live' \in Database
      BY Zenon, LiveTables DEF TypeInv, TypeOK, live, Policy
    <3>3. MinAck(live') \in Nat
      <4>1. /\ live'.registered \in SUBSET Consumers
            /\ live'.ack \in [Consumers -> Nat]
        BY Zenon, <3>2 DEF Database
      <4> QED
        BY Zenon, <3>1, <4>1, MinAckIsMinimum
    <3>4. Lost = {}
      BY <3>1, <3>2, <3>3 DEF Database, Record
    <3>5. dropped' = dropped /\ ceiling' = ceiling
      BY Zenon, <2>6 DEF AcknowledgeAndPrune, history
    <3> QED
      BY Zenon, <2>1, <3>4, <3>5
  <2>7. CASE \/ Tick
             \/ \E c \in Consumers : ReadAfter(c) \/ AcknowledgeRejected(c)
             \/ \E p \in Policies : \/ ApplyPolicyInPlace(p)
                                    \/ ApplyPolicySwitch(p)
                                    \/ ApplyPolicyFails(p)
             \/ UNCHANGED vars
    <3>1. live'.records = live.records /\ ceiling' = ceiling
      BY <2>7, QuietLive
    <3>2. dropped' = dropped
      BY Zenon, <2>7 DEF Tick, ReadAfter, AcknowledgeRejected, ApplyPolicyInPlace,
                  ApplyPolicySwitch, ApplyPolicyFails, vars, implVars
    <3> QED
      BY Zenon, <2>1, <3>1, <3>2
  <2> QED
    BY ZenonT(40), <2>2, <2>3, <2>4, <2>5, <2>6, <2>7 DEF Next
<1>2. TypeInv /\ TypeInv' /\ TrackedBytesExact /\ [Next]_vars
        => [Counted]_vars /\ [Capped]_vars
  BY Zenon, <1>1
<1>3. Spec => LossIsCounted
  BY <1>2, PagesInductive, PTL DEF Spec, LossIsCounted
<1>4. Spec => ByteCapHolds
  BY <1>2, PagesInductive, PTL DEF Spec, ByteCapHolds
<1> QED
  BY Zenon, <1>3, <1>4 DEF RetentionIsHonest
=============================================================================
