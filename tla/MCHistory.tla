------------------------------- MODULE MCHistory -------------------------------
(***************************************************************************)
(* Instances of the historian: its consumer thread with the migration       *)
(* between backends, the tables it keeps, the families of harmonics it      *)
(* assembles and the catalogue of power-quality events with its links to    *)
(* waveforms.  They share no variable here: a behaviour exercises the one   *)
(* that `part' names while the others stay as they began.  The variables of *)
(* the catalogue are its own.                                               *)
(***************************************************************************)
EXTENDS EventCatalogue, TLC

CONSTANTS Parts,      \* the components this instance exercises
          Datasets    \* "a": the ten-minute period, "b": the demand period

VARIABLES part,
          \* HistorianService
          newest, oldest, start, settled, registered, policy, memory, persistent,
          floor, service, session, thread, io, taken, budget,
          \* HistoryStore
          script, head, volatile, durable, policies, floors, tracked, cleared,
          allowance,
          \* HarmonicHistory
          arrived, confirmed, page, replay, turn, waiting, families, chances

-----------------------------------------------------------------------------
\* The third record feeds no dataset: it cannot be decoded.
Feeds(d, S) == [period |-> d, sets |-> S]
Plain == <<Feeds("a", {"a"}), Feeds("b", {"b"}), Feeds("a", {}), Feeds("a", {"a"})>>
Short == <<Feeds("a", {"a"}), Feeds("a", {})>>

Kept(x, y, k) == ("a" :> [backend |-> x, keep |-> k]) @@ ("b" :> [backend |-> y, keep |-> 1])
Routings == {Kept("persistent", "persistent", 1), Kept("memory", "persistent", 1),
             Kept("memory", "memory", 1), Kept("memory", "persistent", 2)}

Gaps == INSTANCE HistorianService WITH
          acked <- settled, left <- budget, Script <- Plain, Policies <- Routings,
          LivePage <- 2, ReplayPage <- 1,
          Faults <- {"prune", "crash", "replay", "live"}, MaxCommands <- 1, MaxFaults <- 2

Requests == INSTANCE HistorianService WITH
              acked <- settled, left <- budget, Script <- Plain, Policies <- Routings,
              LivePage <- 2, ReplayPage <- 1,
              Faults <- {"reject", "clear", "prune", "replay"}, MaxCommands <- 2, MaxFaults <- 1

Migration == INSTANCE HistorianService WITH
               acked <- settled, left <- budget, Script <- Short, Policies <- Routings,
               LivePage <- 2, ReplayPage <- 1,
               Faults <- {"reject", "crash", "spool", "replay", "live", "rebuild", "drain"},
               MaxCommands <- 1, MaxFaults <- 2

Steady == INSTANCE HistorianService WITH
            acked <- settled, left <- budget, Script <- Short, Policies <- Routings,
            LivePage <- 2, ReplayPage <- 1,
            Faults <- {"reject", "crash", "spool", "replay", "live", "rebuild"},
            MaxCommands <- 1, MaxFaults <- 2

\* The second stream steps its clock back, the third forward.
Block(d, t, s) == [set |-> d, time |-> t, size |-> s]
Streams == {<<Block("a", 1, 1), Block("a", 2, 2), Block("b", 3, 1), Block("a", 4, 1)>>,
            <<Block("a", 3, 1), Block("b", 2, 1), Block("a", 1, 2), Block("a", 4, 1)>>,
            <<Block("a", 1, 1), Block("a", 5, 1), Block("a", 6, 2)>>}
Limit(b, a, m) == [backend |-> b, age |-> a, bytes |-> m]
Limits == {Limit("memory", 0, 2), Limit("persistent", 2, 0), Limit("persistent", 3, 3)}

Store == INSTANCE HistoryStore WITH
           memory <- volatile, persistent <- durable, policy <- policies, left <- allowance,
           Scripts <- Streams, Policies <- Limits,
           Faults <- {"append", "retention", "clear", "recreate"},
           MaxReplays <- 1, MaxMaintenance <- 1, MaxFaults <- 1, MaxRestarts <- 1

Accounts == INSTANCE HistoryStore WITH
              memory <- volatile, persistent <- durable, policy <- policies, left <- allowance,
              Scripts <- Streams, Policies <- Limits, Faults <- {"append", "recreate"},
              MaxReplays <- 1, MaxMaintenance <- 1, MaxFaults <- 1, MaxRestarts <- 1

\* Three families; the second loses a fragment, and the third reuses its sequence
\* in a new generation.
Part(s, g, f) == [seq |-> s, gen |-> g, frag |-> f]
Torn == <<Part(1, 1, 0), Part(1, 1, 1), Part(2, 1, 0), Part(2, 2, 0), Part(2, 2, 1),
          Part(3, 2, 0), Part(3, 2, 1)>>

Harmonics == INSTANCE HarmonicHistory WITH
               newest <- arrived, acked <- confirmed, pending <- waiting,
               left <- chances, Script <- Torn,
               Fragments <- 2, LivePage <- 3, ReplayPage <- 3, Volatile <- TRUE,
               MaxCrashes <- 1, MaxLost <- 1

\* Whole families; the store is durable and the service may stop twice.
Unbroken == <<Part(1, 1, 0), Part(1, 1, 1), Part(2, 1, 0), Part(2, 1, 1), Part(3, 2, 0),
              Part(3, 2, 1)>>

Durable == INSTANCE HarmonicHistory WITH
             newest <- arrived, acked <- confirmed, pending <- waiting,
             left <- chances, Script <- Unbroken,
             Fragments <- 2, LivePage <- 3, ReplayPage <- 3, Volatile <- FALSE,
             MaxCrashes <- 2, MaxLost <- 1

\* Two events; the second one starts before the clock is known.
Life(e, s, k, t) == [event |-> e, last |-> s, life |-> k, utc |-> t]
TwoEvents == <<Life("e1", 1, 1, 5), Life("e2", 2, 1, 0), Life("e1", 3, 2, 6),
               Life("e2", 2, 3, 7), Life("e1", 3, 3, 6)>>
\* The first one ends: what the links wait for is the row, not the later records.
OneEnds == <<Life("e1", 1, 1, 5), Life("e2", 2, 1, 0), Life("e1", 3, 3, 6)>>
Wanted == {<<"e1", "c1">>, <<"e2", "c1">>, <<"e2", "c2">>}

\* The acquisition service restarts; no event is deleted.
Linker == INSTANCE EventCatalogue WITH MaxFailures <- 0, MaxDeletes <- 0, MaxRestarts <- 1

-----------------------------------------------------------------------------
historianVars == <<newest, oldest, start, settled, registered, policy, memory, persistent,
                   floor, service, session, thread, io, taken, budget>>
storeVars == <<script, head, volatile, durable, policies, floors, tracked, cleared, allowance>>
harmonicVars == <<arrived, confirmed, page, replay, turn, waiting, families, chances>>
historyVars == <<part, historianVars, storeVars, harmonicVars, vars>>

HistoryInit ==
  /\ part \in Parts
  /\ IF part = "gaps" THEN Gaps!Init
     ELSE IF part = "requests" THEN Requests!Init
     ELSE IF part = "migration" THEN Migration!Init
     ELSE IF part = "steady" THEN Steady!Init
     ELSE Gaps!Init /\ policy = Kept("memory", "memory", 1)
  /\ IF part = "accounts" THEN Accounts!Init ELSE Store!Init
  /\ part \notin {"store", "accounts"} =>
       /\ Len(script) = 3
       /\ policies = [d \in Datasets |-> Limit("memory", 0, 2)]
  /\ IF part = "durable" THEN Durable!Init ELSE Harmonics!Init
  /\ IF part = "linker" THEN Linker!Init ELSE Init

HistoryNext ==
  /\ UNCHANGED part
  /\ \/ /\ \/ part = "gaps" /\ Gaps!Next
           \/ part = "requests" /\ Requests!Next
           \/ part = "migration" /\ Migration!Next
           \/ part = "steady" /\ Steady!Next
        /\ UNCHANGED <<storeVars, harmonicVars, vars>>
     \/ /\ \/ part = "store" /\ Store!Next
           \/ part = "accounts" /\ Accounts!Next
        /\ UNCHANGED <<historianVars, harmonicVars, vars>>
     \/ /\ \/ part = "harmonics" /\ Harmonics!Next
           \/ part = "durable" /\ Durable!Next
        /\ UNCHANGED <<historianVars, storeVars, vars>>
     \/ /\ \/ part = "catalogue" /\ Next
           \/ part = "linker" /\ Linker!Next
        /\ UNCHANGED <<historianVars, storeVars, harmonicVars>>

HistorySpec == HistoryInit /\ [][HistoryNext]_historyVars

\* The threads of the component at work are scheduled.
HistoryFairSpec ==
  /\ HistorySpec
  /\ WF_historianVars(part = "steady" /\ (Steady!Consumer \/ Steady!Failures))
  /\ WF_harmonicVars(part = "harmonics" /\ Harmonics!Consume)
  /\ WF_vars(part = "linker" /\ Linker!Publish)
  /\ WF_vars(part = "linker" /\ Linker!Ingest)
  /\ WF_vars(part = "linker" /\ Linker!Acknowledge)
  /\ WF_vars(part = "linker" /\ Linker!Deliver)

-----------------------------------------------------------------------------
\* The consumer: while it rests without a gap reported, a dataset in memory holds
\* all it took from the stream, and a migration that ends without a warning left
\* nothing behind (HistorianService).
GapsAreReported ==
  /\ [](part = "gaps" => Gaps!GapsAreReported)
  /\ [][part = "requests" => Requests!CompletesWhole]_historyVars

\* The tables: what was cleared never comes back; and while deletions succeed,
\* the count of bytes the limits are applied to is exact, and eviction stops at
\* the limit (HistoryStore).
StoreIsSound ==
  /\ [](part = "store" => Store!ClearedStaysCleared)
  /\ [](part = "accounts" => Accounts!TrackedBytesExact)
  /\ [][part = "accounts" => Accounts!EvictsSurplus]_historyVars

\* The harmonics: a stored family is whole and of one generation, one family is
\* staged at a time, and in a durable store every whole family that was
\* acknowledged is there (HarmonicHistory).
FamiliesAreWhole ==
  /\ part = "harmonics" => Harmonics!FamiliesAreWhole /\ Harmonics!StagingIsBounded
  /\ part = "durable" => Durable!FamiliesAreWhole /\ Durable!FamilyMaterialised

\* What the stream holds reaches the historian: every record is taken, unless its
\* spool is lost first, a migration between backends ends (HistorianService), the
\* harmonics are taken (HarmonicHistory), and every link of a stored event arrives
\* (EventCatalogue).
HistoryArrives ==
  /\ part = "steady" => Steady!StreamDrains /\ Steady!MigrationEnds
  /\ part = "harmonics" => Harmonics!StreamDrains
  /\ part = "linker" => Linker!LinksAreDelivered
===============================================================================
