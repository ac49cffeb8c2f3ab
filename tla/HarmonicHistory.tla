---------------------------- MODULE HarmonicHistory ----------------------------
(***************************************************************************)
(* Harmonic families in the historian: append_harmonic_record stages the     *)
(* fragments of one period and materialises a family when all of them are    *)
(* there.  The consumer thread alternates live pages with replay pages of a   *)
(* backfill, and a page whose acknowledgement is lost is delivered again.     *)
(* A fragment is named by its cursor in the stream.                          *)
(***************************************************************************)
EXTENDS Naturals, FiniteSets, Sequences

CONSTANTS Script,      \* the stream: [seq, gen, frag] by cursor
          Fragments,   \* harmonic_records_per_family (42)
          LivePage, ReplayPage,   \* read_after limits (256 and 64)
          Volatile,    \* the dataset is routed to memory at some point
          MaxCrashes, MaxLost     \* bounds

VARIABLES newest,     \* records published so far
          acked,      \* cursor of consumer "historian"
          page,       \* the page being ingested: [who, next, last]
          replay,     \* the backfill: [at, cursor, through], and whether it runs alone
          turn,       \* whose page the consumer thread reads next
          pending,    \* harmonic_pending of the period
          families,   \* harmonic_families of the period: sets of fragments
          left

vars == <<newest, acked, page, replay, turn, pending, families, left>>

Idle == [who |-> "none", next |-> 0, last |-> 0]
NoReplay == [at |-> "none", cursor |-> 0, through |-> 0, alone |-> FALSE]
Wanted(alone) == [at |-> "wanted", cursor |-> 0, through |-> 0, alone |-> alone]
Less(a, b) == IF a < b THEN a ELSE b

Init ==
    /\ newest = 0 /\ acked = 0
    /\ page = Idle /\ replay = NoReplay /\ turn = "live"
    /\ pending = {} /\ families = {}
    /\ left = [crashes |-> MaxCrashes, lost |-> MaxLost, switches |-> IF Volatile THEN 1 ELSE 0]

Publish ==
    /\ newest < Len(Script)
    /\ newest' = newest + 1
    /\ UNCHANGED <<acked, page, replay, turn, pending, families, left>>

\* Everything read has been ingested.
Ingested == page # Idle /\ page.next > page.last

\* apply_storage_policy routes the dataset to memory: the volatile tables start
\* empty and a replay is requested.
Switch ==
    /\ left.switches > 0 /\ (page = Idle \/ Ingested)
    /\ left' = [left EXCEPT !.switches = 0]
    /\ pending' = {} /\ families' = {}
    /\ replay' = Wanted(FALSE)
    /\ UNCHANGED <<newest, acked, page, turn>>

\* begin_backfill: a fresh consumer, and the stream's newest cursor as the end.
BeginReplay ==
    /\ replay.at = "wanted" /\ page = Idle
    /\ replay' = IF newest = 0 THEN NoReplay
                 ELSE [replay EXCEPT !.at = "run", !.through = newest]
    /\ UNCHANGED <<newest, acked, page, turn, pending, families, left>>

\* consume: a live page, unless the rebuild after a start is still running.
ReadLive ==
    /\ page = Idle /\ acked < newest
    /\ IF replay.at = "none" THEN TRUE ELSE turn = "live" /\ ~replay.alone
    /\ page' = [who |-> "live", next |-> acked + 1, last |-> Less(acked + LivePage, newest)]
    /\ UNCHANGED <<newest, acked, replay, turn, pending, families, left>>

\* service_policy_backfill, or backfill: a replay page.
ReadReplay ==
    /\ page = Idle /\ replay.at = "run"
    /\ turn = "replay" \/ acked = newest \/ replay.alone
    /\ page' = [who |-> "replay", next |-> replay.cursor + 1,
                last |-> Less(replay.cursor + ReplayPage, replay.through)]
    /\ UNCHANGED <<newest, acked, replay, turn, pending, families, left>>

Same(c, d) == Script[c].seq = Script[d].seq

\* Fragments of other sequences of the period are given up first.
Kept(c) == {d \in pending : Same(c, d)}

\* INSERT OR IGNORE on (period, sequence, fragment).
Staged(c) ==
    IF \E d \in Kept(c) : Same(c, d) /\ Script[d].frag = Script[c].frag THEN Kept(c)
    ELSE Kept(c) \cup {c}

\* A variant that materialises what the count allows.
CountIsEnough(F) == TRUE

\* HarmonicFamilyAssembler: the fragments agree on their generation.
Coherent(F) == \A c, d \in F : Script[c].gen = Script[d].gen

Complete(c) == Cardinality({d \in Staged(c) : Same(c, d)}) = Fragments

\* UNIQUE(period, generation, sequence).
Known(F) == \E G \in families : \E c \in F, d \in G :
                Same(c, d) /\ Script[c].gen = Script[d].gen

\* The record after one that was ingested or skipped.
Onward(c) == c + 1

\* append_harmonic_record in one transaction; an incoherent family rolls it back and
\* the record is skipped.
Ingest ==
    /\ page # Idle /\ page.next <= page.last
    /\ LET c == page.next
           family == {d \in Staged(c) : Same(c, d)}
       IN  IF ~Complete(c) THEN pending' = Staged(c) /\ UNCHANGED families
           ELSE IF ~Coherent(family) THEN UNCHANGED <<pending, families>>
           ELSE /\ pending' = Staged(c) \ family
                /\ families' = IF Known(family) THEN families ELSE families \cup {family}
    /\ page' = [page EXCEPT !.next = Onward(@)]
    /\ UNCHANGED <<newest, acked, replay, turn, left>>

\* One acknowledgement per page.
Acknowledge ==
    /\ Ingested
    /\ page' = Idle
    /\ turn' = IF page.who = "live" THEN "replay" ELSE "live"
    /\ IF page.who = "live" THEN acked' = page.last /\ UNCHANGED replay
       ELSE /\ replay' = IF page.last >= replay.through THEN NoReplay
                         ELSE [replay EXCEPT !.cursor = page.last]
            /\ UNCHANGED acked
    /\ UNCHANGED <<newest, pending, families, left>>

\* The acknowledgement fails: a live page is read again, a replay ends incomplete
\* (this model keeps to the live side; a failed backfill is in HistorianService).
AcknowledgeFails ==
    /\ Ingested /\ page.who = "live" /\ left.lost > 0
    /\ left' = [left EXCEPT !.lost = @ - 1]
    /\ page' = Idle
    /\ turn' = "replay"
    /\ UNCHANGED <<newest, acked, replay, pending, families>>

\* The process dies: durable tables stay, volatile ones are rebuilt from the start
\* before the live consumer runs.
Crash ==
    /\ left.crashes > 0
    /\ left' = [left EXCEPT !.crashes = @ - 1]
    /\ page' = Idle
    /\ turn' = "live"
    /\ replay' = IF Volatile /\ left.switches = 0 THEN Wanted(TRUE) ELSE NoReplay
    /\ IF Volatile /\ left.switches = 0 THEN pending' = {} /\ families' = {}
       ELSE UNCHANGED <<pending, families>>
    /\ UNCHANGED <<newest, acked>>

\* The steps of the consumer thread.
Consume == BeginReplay \/ ReadLive \/ ReadReplay \/ Ingest \/ Acknowledge

Next == Publish \/ Switch \/ Consume \/ AcknowledgeFails \/ Crash

\* The thread never stops while there is something to read.
Fairness == WF_vars(Consume)
Spec == Init /\ [][Next]_vars /\ Fairness

-------------------------------------------------------------------------------
Whole == {F \in SUBSET (1..Len(Script)) :
              /\ Cardinality(F) = Fragments /\ Coherent(F)
              /\ \A c, d \in F : Same(c, d)
              /\ {Script[c].frag : c \in F} = 0..Fragments - 1}

\* A materialised family consists of all fragments of one sequence of one
\* generation, and no sequence of a generation is there twice
\* (append_harmonic_record, meter_history.cpp:1509).
FamiliesAreWhole ==
    \A F, G \in families :
        /\ F \in {H \in Whole : \A c, d \in H : Script[c].gen = Script[d].gen}
        /\ F # G => \A c \in F, d \in G : ~Same(c, d) \/ Script[c].gen # Script[d].gen

\* Staging holds one sequence of a period at a time, whatever is lost, repeated or
\* abandoned (meter_history.cpp:1438).
StagingIsBounded == \A c, d \in pending : Same(c, d)

\* Once the consumer has acknowledged every fragment of a family and no replay is
\* under way, the family is in history (meter_history.hpp:163).
FamilyMaterialised ==
    (page = Idle /\ replay.at = "none") =>
        \A F \in Whole : (\A c \in F : c <= acked) => \E G \in families : \E c \in G, d \in F :
            Same(c, d) /\ Script[c].gen = Script[d].gen

\* Every published record is eventually acknowledged: an incoherent family costs
\* itself, never the stream behind it (ingest, meter_historian_service.cpp:308).
StreamDrains == \A n \in 1..Len(Script) : newest >= n ~> acked >= n
===============================================================================
