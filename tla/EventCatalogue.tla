---------------------------- MODULE EventCatalogue ----------------------------
(***************************************************************************)
(* The power-quality event catalogue of the historian, fed by the stream of  *)
(* lifecycle records with at-least-once delivery, and the linker of the       *)
(* acquisition service that attaches waveform captures to its rows through a   *)
(* bounded queue whose oldest entry is retried until the row exists.          *)
(***************************************************************************)
EXTENDS Naturals, Sequences, Functions, FiniteSets, TLAPS

CONSTANTS Events,
          Script,          \* the lifecycle records of the stream: [event, last, life, utc]
          MaximumPending,  \* maximum_pending (4096)
          RecentCapacity,  \* recent_capacity (4096)
          MaxPage,         \* records of an unacknowledged page
          Links,           \* bound: the associations the capture engine creates
          MaxLost, MaxFailures, MaxDeletes, MaxRestarts   \* bounds

\* Lifecycle records carry counters, and a link names an event.
ASSUME EventAssumption ==
    /\ Script \in Seq([event : Events, last : Nat, life : Nat, utc : Nat])
    /\ \A l \in Links : l[1] \in Events
    /\ MaximumPending \in Nat /\ RecentCapacity \in Nat

VARIABLES published,   \* lifecycle records in the stream
          cursor,      \* records ingested since the consumer last started
          acked,       \* records acknowledged
          rows,        \* power_quality_events: event -> [last, life, utc, cursor]
          links,       \* power_quality_event_waveforms
          pending, recent,   \* the linker's deques
          created,     \* associations the capture engine has made so far
          seen,        \* ghosts: records since the last deletion, associations given up,
                       \* events deleted
          left

vars == <<published, cursor, acked, rows, links, pending, recent, created, seen, left>>

NoRow == [last |-> 0, life |-> 0, utc |-> 0, cursor |-> 0]
Has(e) == rows[e] # NoRow

Init ==
    /\ published = 0 /\ cursor = 0 /\ acked = 0
    /\ rows = [e \in Events |-> NoRow] /\ links = {}
    /\ pending = <<>> /\ recent = <<>> /\ created = {}
    /\ seen = [delivered |-> [e \in Events |-> {}], dropped |-> {}, deleted |-> {}]
    /\ left = [lost |-> MaxLost, failures |-> MaxFailures,
               deletes |-> MaxDeletes, restarts |-> MaxRestarts]

Spend(b) == left[b] > 0 /\ left' = [left EXCEPT ![b] = @ - 1]

Publish ==
    /\ published < Len(Script)
    /\ published' = published + 1
    /\ UNCHANGED <<cursor, acked, rows, links, pending, recent, created, seen, left>>

\* A variant that lets every record overwrite the row.
AlwaysNewer(r, row) == TRUE

\* WHERE of the upsert: a later sample, or the same one no earlier in its lifecycle.
Newer(r, row) == r.last > row.last \/ (r.last = row.last /\ r.life >= row.life)

\* The first known start time stays.
Start(row, r) == IF row.utc = 0 THEN r.utc ELSE row.utc

\* upsert_power_quality_event.
Upserted(row, r, c) ==
    IF row = NoRow THEN [last |-> r.last, life |-> r.life, utc |-> r.utc, cursor |-> c]
    ELSE IF Newer(r, row)
    THEN [last |-> r.last, life |-> r.life, cursor |-> c,
          utc |-> Start(row, r)]
    ELSE row

Ingest ==
    /\ cursor < published
    /\ cursor - acked < MaxPage
    /\ cursor' = cursor + 1
    /\ LET r == Script[cursor + 1]
       IN  /\ rows' = [rows EXCEPT ![r.event] = Upserted(@, r, cursor + 1)]
           /\ seen' = [seen EXCEPT !.delivered[r.event] = @ \cup {cursor + 1}]
    /\ UNCHANGED <<published, acked, links, pending, recent, created, left>>

Acknowledge ==
    /\ acked < cursor
    /\ acked' = cursor
    /\ UNCHANGED <<published, cursor, rows, links, pending, recent, created, seen, left>>

\* The acknowledgement is lost, or the historian restarts: the page comes again.
Redeliver ==
    /\ acked < cursor /\ Spend("lost")
    /\ cursor' = acked
    /\ UNCHANGED <<published, acked, rows, links, pending, recent, created, seen>>

\* ON DELETE CASCADE.
Cascade(E) == {l \in links : l[1] \notin E}

\* delete_power_quality_events and clear_power_quality_events: links go with the rows.
DeleteEvents ==
    /\ Spend("deletes")
    /\ \E E \in SUBSET Events \ {{}} :
           /\ rows' = [e \in Events |-> IF e \in E THEN NoRow ELSE rows[e]]
           /\ links' = Cascade(E)
           /\ seen' = [seen EXCEPT !.delivered = [e \in Events |-> IF e \in E THEN {} ELSE @[e]],
                                   !.deleted = @ \cup E]
    /\ UNCHANGED <<published, cursor, acked, pending, recent, created>>

Full == Len(pending) >= MaximumPending

\* Duplicate lifecycle updates are folded.
Folded(l) == l \in Range(pending) \cup Range(recent)

\* enqueue: a full queue loses the association.
Enqueue ==
    /\ \E l \in Links \ created :
           /\ created' = created \cup {l}
           /\ IF Folded(l) THEN UNCHANGED <<pending, seen>>
              ELSE IF Full
              THEN /\ seen' = [seen EXCEPT !.dropped = @ \cup {l}]
                   /\ UNCHANGED pending
              ELSE pending' = Append(pending, l) /\ UNCHANGED seen
    /\ UNCHANGED <<published, cursor, acked, rows, links, recent, left>>

Remember(l) ==
    LET all == Append(recent, l)
    IN  IF Len(all) > RecentCapacity THEN Tail(all) ELSE all

\* A variant that hands the oldest link over once.
GiveUp(l) == TRUE

\* The historian takes a link when its row exists.
Accepts(l) == Has(l[1])

\* run: the oldest link reaches the historian and is popped.
Deliver ==
    /\ pending # <<>>
    /\ LET l == Head(pending)
       IN  /\ Accepts(l)
           /\ links' = IF Has(l[1]) THEN links \cup {l} ELSE links
           /\ recent' = Remember(l)
    /\ pending' = Tail(pending)
    /\ UNCHANGED <<published, cursor, acked, rows, created, seen, left>>

\* The link is stored and the answer lost: it stays the oldest one.
DeliverUnanswered ==
    /\ pending # <<>> /\ Has(Head(pending)[1]) /\ Spend("failures")
    /\ links' = links \cup {Head(pending)}
    /\ UNCHANGED <<published, cursor, acked, rows, pending, recent, created, seen>>

\* The acquisition service restarts: its queue is in memory.
RestartAcquisition ==
    /\ Spend("restarts")
    /\ seen' = [seen EXCEPT !.dropped = @ \cup Range(pending)]
    /\ pending' = <<>> /\ recent' = <<>>
    /\ UNCHANGED <<published, cursor, acked, rows, links, created>>

Next ==
    \/ Publish \/ Ingest \/ Acknowledge \/ Redeliver \/ DeleteEvents
    \/ Enqueue \/ Deliver \/ DeliverUnanswered \/ RestartAcquisition

\* Both threads keep running, and an event that was captured is published.
Fairness ==
    /\ WF_vars(Publish) /\ WF_vars(Ingest) /\ WF_vars(Acknowledge) /\ WF_vars(Deliver)

Spec == Init /\ [][Next]_vars /\ Fairness

-------------------------------------------------------------------------------
\* Cursors are ordered and both deques keep their capacity.
TypeOK ==
    /\ acked <= cursor /\ cursor <= published /\ published <= Len(Script)
    /\ links \subseteq Links /\ created \subseteq Links
    /\ Len(pending) <= MaximumPending /\ Len(recent) <= RecentCapacity

Best(S) == {c \in S : \A d \in S :
               \/ Script[c].last > Script[d].last
               \/ Script[c].last = Script[d].last /\ Script[c].life >= Script[d].life}

\* A row is the newest lifecycle edge delivered since the event was last deleted, in
\* whatever order and however often the records came
\* (upsert_power_quality_event, meter_history.cpp:822).
RowIsNewestDelivered ==
    \A e \in Events :
        LET S == seen.delivered[e]
        IN  /\ Has(e) <=> S # {}
            /\ Has(e) => rows[e].cursor \in Best(S)
                         /\ rows[e].life = Script[rows[e].cursor].life

\* A link always belongs to a row: deleting an event between two attempts of the
\* linker leaves no orphan (REFERENCES ... ON DELETE CASCADE, meter_history.cpp:492).
LinksHaveRows == \A l \in links : Has(l[1])

\* A known start time of an event is never replaced while its row exists.
StartTimeIsKept ==
    [][\A e \in Events : Has(e) /\ Has(e)' /\ rows[e].utc # 0 => rows[e].utc = rows[e].utc']_vars

\* The catalogue: the cursors are ordered and the linker's deques keep their capacity,
\* a row is the newest lifecycle record delivered, every link belongs to a row, and
\* the start of an event, once known, is kept.
EventsAreCurrent ==
    /\ [](TypeOK /\ RowIsNewestDelivered /\ LinksHaveRows)
    /\ StartTimeIsKept

\* Every association that entered the queue reaches its row, however far the
\* historian lags, unless that very event was deleted (event_waveform_linker.hpp:14).
LinksAreDelivered ==
    \A l \in Links :
        l \in Range(pending) ~> l \in links \cup seen.dropped \/ l[1] \in seen.deleted

-------------------------------------------------------------------------------
(***************************************************************************)
(* EventsAreCurrent for every stream of lifecycle records, in every order    *)
(* of redelivery and deletion.  RowIsNewestDelivered says nothing of the     *)
(* sample a row shows; the upsert compares against that sample, so the       *)
(* inductive invariant ties it to the record the row came from.              *)
(***************************************************************************)
Row == [last : Nat, life : Nat, utc : Nat, cursor : Nat]

\* A row that shows the newest of the records S, or no row when there is none.
Current(row, S) ==
    /\ row = NoRow <=> S = {}
    /\ S # {} => /\ row.cursor \in Best(S)
                 /\ row.last = Script[row.cursor].last
                 /\ row.life = Script[row.cursor].life

CursorInv ==
    /\ acked \in Nat /\ cursor \in Nat /\ published \in Nat
    /\ acked <= cursor /\ cursor <= published /\ published <= Len(Script)

QueueInv ==
    /\ pending \in Seq(Links) /\ recent \in Seq(Links)
    /\ links \subseteq Links /\ created \subseteq Links
    /\ Len(pending) <= MaximumPending /\ Len(recent) <= RecentCapacity

RowInv ==
    /\ rows \in [Events -> Row]
    /\ seen \in [delivered : [Events -> SUBSET (1 .. Len(Script))],
                 dropped : SUBSET Links, deleted : SUBSET Events]
    /\ \A e \in Events : Current(rows[e], seen.delivered[e])

EventInv == CursorInv /\ QueueInv /\ RowInv /\ LinksHaveRows

\* A known start is kept by one step.
KeepsStart == \A e \in Events : Has(e) /\ Has(e)' /\ rows[e].utc # 0 => rows[e].utc = rows[e].utc'

\* A record of the stream.
LEMMA Recorded ==
    ASSUME NEW c \in 1 .. Len(Script)
    PROVE  /\ Script[c].event \in Events /\ Script[c].last \in Nat
           /\ Script[c].life \in Nat /\ Script[c].utc \in Nat
<1> DEFINE R == [event : Events, last : Nat, life : Nat, utc : Nat]
<1>1. Script \in Seq(R)
  BY EventAssumption
<1>2. Script[c] \in R
  <2> HIDE DEF R
  <2> QED
    BY <1>1
<1> QED
  BY <1>2

\* The upsert of a record leaves the newest of the records delivered so far, in
\* whatever order they came, and keeps a known start
\* (upsert_power_quality_event, meter_history.cpp:822).
LEMMA UpsertIsCurrent ==
    ASSUME NEW row \in Row, NEW S \in SUBSET (1 .. Len(Script)), Current(row, S),
           NEW c \in 1 .. Len(Script)
    PROVE  LET new == Upserted(row, Script[c], c)
           IN  /\ new \in Row /\ new # NoRow
               /\ Current(new, S \cup {c})
               /\ row # NoRow /\ row.utc # 0 => new.utc = row.utc
<1> DEFINE r == Script[c]
           T == S \cup {c}
           new == Upserted(row, r, c)
<1>0. r.last \in Nat /\ r.life \in Nat /\ r.utc \in Nat /\ c \in Nat /\ c # 0
  BY Recorded
<1>1. \A d \in T : Script[d].last \in Nat /\ Script[d].life \in Nat
  BY Recorded
<1>2. CASE row = NoRow
  <2>1. S = {} /\ T = {c}
    BY Zenon, <1>2 DEF Current
  <2>2. new = [last |-> r.last, life |-> r.life, utc |-> r.utc, cursor |-> c]
    BY <1>2 DEF Upserted
  <2>3. new \in Row /\ new # NoRow
    BY <2>2, <1>0 DEF Row, NoRow
  <2>4. c \in Best(T)
    BY <2>1, <1>0 DEF Best
  <2> QED
    BY <2>1, <2>2, <2>3, <2>4, <1>2 DEF Current
<1>3. CASE row # NoRow /\ Newer(r, row)
  <2>1. new = [last |-> r.last, life |-> r.life, cursor |-> c, utc |-> Start(row, r)]
    BY <1>3 DEF Upserted
  <2>2. Start(row, r) \in Nat /\ (row.utc # 0 => Start(row, r) = row.utc)
    BY <1>0 DEF Start, Row
  <2>3. new \in Row /\ new # NoRow
    BY <2>1, <2>2, <1>0 DEF Row, NoRow
  <2>4. /\ row.cursor \in Best(S)
        /\ row.last = Script[row.cursor].last /\ row.life = Script[row.cursor].life
    BY <1>3 DEF Current
  <2>5. c \in Best(T)
    <3> SUFFICES ASSUME NEW d \in T
                 PROVE  \/ r.last > Script[d].last
                        \/ r.last = Script[d].last /\ r.life >= Script[d].life
      BY DEF Best
    <3>1. CASE d = c
      BY <3>1, <1>0
    <3>2. CASE d \in S
      <4>1. \/ row.last > Script[d].last
            \/ row.last = Script[d].last /\ row.life >= Script[d].life
        BY <3>2, <2>4 DEF Best
      <4>2. r.last > row.last \/ (r.last = row.last /\ r.life >= row.life)
        BY <1>3 DEF Newer
      <4>3. row.last \in Nat /\ row.life \in Nat
        BY DEF Row
      <4> QED
        BY <4>1, <4>2, <4>3, <1>0, <1>1
    <3> QED
      BY <3>1, <3>2
  <2> QED
    BY <2>1, <2>2, <2>3, <2>5 DEF Current
<1>4. CASE row # NoRow /\ ~Newer(r, row)
  <2>1. new = row
    BY <1>4 DEF Upserted
  <2>2. /\ S # {} /\ row.cursor \in Best(S)
        /\ row.last = Script[row.cursor].last /\ row.life = Script[row.cursor].life
    BY <1>4 DEF Current
  <2>3. row.last \in Nat /\ row.life \in Nat
    BY DEF Row
  <2>4. row.last > r.last \/ (row.last = r.last /\ row.life >= r.life)
    BY <1>4, <1>0, <2>3 DEF Newer
  <2>5. row.cursor \in Best(T)
    BY <2>2, <2>4 DEF Best
  <2> QED
    BY <2>1, <2>2, <2>5, <1>4 DEF Current
<1> QED
  BY <1>2, <1>3, <1>4

LEMMA EventStart == Init => EventInv
<1> SUFFICES ASSUME Init PROVE EventInv
  OBVIOUS
<1>1. CursorInv
  BY EventAssumption DEF Init, CursorInv
<1>2. QueueInv
  BY EventAssumption DEF Init, QueueInv
<1>3. RowInv
  <2>1. rows \in [Events -> Row]
    BY DEF Init, Row, NoRow
  <2>2. seen \in [delivered : [Events -> SUBSET (1 .. Len(Script))],
                  dropped : SUBSET Links, deleted : SUBSET Events]
    BY DEF Init
  <2>3. \A e \in Events : Current(rows[e], seen.delivered[e])
    BY DEF Init, Current
  <2> QED
    BY <2>1, <2>2, <2>3 DEF RowInv
<1>4. LinksHaveRows
  BY DEF Init, LinksHaveRows
<1> QED
  BY <1>1, <1>2, <1>3, <1>4 DEF EventInv

\* Steps that leave the rows alone.
LEMMA RowsKept ==
    ASSUME EventInv, UNCHANGED <<rows, seen>>
    PROVE  RowInv' /\ KeepsStart
<1>1. RowInv'
  BY DEF EventInv, RowInv
<1>2. KeepsStart
  BY DEF KeepsStart
<1> QED
  BY <1>1, <1>2

\* The stream advances, is acknowledged, or sends its page again.
LEMMA CursorMoves ==
    ASSUME EventInv, Publish \/ Acknowledge \/ Redeliver
    PROVE  EventInv' /\ KeepsStart
<1>1. UNCHANGED <<rows, seen, links, pending, recent, created>>
  BY DEF Publish, Acknowledge, Redeliver
<1>2. CursorInv'
  <2>1. Len(Script) \in Nat
    BY EventAssumption
  <2>2. CASE Publish
    BY <2>1, <2>2 DEF Publish, EventInv, CursorInv
  <2>3. CASE Acknowledge
    BY <2>1, <2>3 DEF Acknowledge, EventInv, CursorInv
  <2>4. CASE Redeliver
    BY <2>1, <2>4 DEF Redeliver, EventInv, CursorInv
  <2> QED
    BY <2>2, <2>3, <2>4
<1>3. QueueInv'
  BY <1>1 DEF EventInv, QueueInv
<1>4. RowInv' /\ KeepsStart
  BY <1>1, RowsKept
<1>5. LinksHaveRows'
  BY <1>1 DEF EventInv, LinksHaveRows, Has
<1> QED
  BY <1>2, <1>3, <1>4, <1>5 DEF EventInv

\* A record is ingested: no row disappears, so the links keep theirs.
LEMMA IngestKeeps ==
    ASSUME EventInv, Ingest
    PROVE  EventInv' /\ KeepsStart
<1> DEFINE c == cursor + 1
           r == Script[c]
           new == Upserted(rows[r.event], r, c)
           T == seen.delivered[r.event] \cup {c}
<1>0. /\ cursor \in Nat /\ published \in Nat /\ acked \in Nat /\ acked <= cursor
      /\ cursor < published /\ published <= Len(Script)
      /\ cursor' = cursor + 1 /\ UNCHANGED <<published, acked>>
  BY DEF Ingest, EventInv, CursorInv
<1>a. Len(Script) \in Nat
  BY EventAssumption
<1>1. c \in 1 .. Len(Script)
  BY <1>0, <1>a
<1>2. r.event \in Events
  BY <1>1, Recorded
<1>3. /\ rows \in [Events -> Row]
      /\ seen.delivered \in [Events -> SUBSET (1 .. Len(Script))]
      /\ \A e \in Events : Current(rows[e], seen.delivered[e])
  BY DEF EventInv, RowInv
<1>4. /\ new \in Row /\ new # NoRow /\ Current(new, T)
      /\ rows[r.event] # NoRow /\ rows[r.event].utc # 0 => new.utc = rows[r.event].utc
  <2> HIDE DEF c
  <2>1. rows[r.event] \in Row /\ seen.delivered[r.event] \in SUBSET (1 .. Len(Script))
    BY <1>2, <1>3
  <2>2. Current(rows[r.event], seen.delivered[r.event])
    BY <1>2, <1>3
  <2> QED
    BY Zenon, <1>1, <2>1, <2>2, UpsertIsCurrent
<1>5. rows' = [rows EXCEPT ![r.event] = new]
  BY DEF Ingest
<1>6. seen' = [seen EXCEPT !.delivered[r.event] = T]
  BY DEF Ingest
<1> HIDE DEF c, new, T
<1>7. /\ rows' \in [Events -> Row] /\ rows'[r.event] = new
      /\ \A e \in Events \ {r.event} : rows'[e] = rows[e]
  BY <1>2, <1>3, <1>4, <1>5
<1>8. T \in SUBSET (1 .. Len(Script))
  BY <1>1, <1>2, <1>3 DEF T
<1>9. /\ seen' \in [delivered : [Events -> SUBSET (1 .. Len(Script))],
                    dropped : SUBSET Links, deleted : SUBSET Events]
      /\ seen'.delivered[r.event] = T
      /\ \A e \in Events \ {r.event} : seen'.delivered[e] = seen.delivered[e]
  <2>1. seen \in [delivered : [Events -> SUBSET (1 .. Len(Script))],
                  dropped : SUBSET Links, deleted : SUBSET Events]
    BY DEF EventInv, RowInv
  <2>2. /\ seen' = [seen EXCEPT !.delivered = [seen.delivered EXCEPT ![r.event] = T]]
    BY <1>6
  <2>3. [seen.delivered EXCEPT ![r.event] = T] \in [Events -> SUBSET (1 .. Len(Script))]
    BY Zenon, <1>3, <1>8
  <2> QED
    BY <2>1, <2>2, <2>3, <1>2, <1>3
<1>10. RowInv'
  <2>1. \A e \in Events : Current(rows'[e], seen'.delivered[e])
    <3> TAKE e \in Events
    <3>1. CASE e = r.event
      BY <3>1, <1>4, <1>7, <1>9
    <3>2. CASE e # r.event
      BY <3>2, <1>3, <1>7, <1>9
    <3> QED
      BY <3>1, <3>2
  <2>2. \A e \in Events : Current(rows[e], seen.delivered[e])'
    BY <2>1 DEF Current, Best
  <2> QED
    BY <2>2, <1>7, <1>9 DEF RowInv
<1>11. \A e \in Events : rows[e] # NoRow => rows'[e] # NoRow
  BY <1>4, <1>7
<1>12. LinksHaveRows'
  <2>1. links' = links /\ \A l \in links : l[1] \in Events /\ rows[l[1]] # NoRow
    <3>1. links' = links /\ links \subseteq Links /\ \A l \in links : rows[l[1]] # NoRow
      BY Zenon DEF Ingest, EventInv, QueueInv, LinksHaveRows, Has
    <3> QED
      BY Zenon, <3>1, EventAssumption
  <2> QED
    BY Zenon, <1>11, <2>1 DEF LinksHaveRows, Has
<1>13. KeepsStart
  <2> SUFFICES ASSUME NEW e \in Events, rows[e] # NoRow, rows[e].utc # 0
               PROVE  rows[e].utc = rows'[e].utc
    BY DEF KeepsStart, Has
  <2>1. CASE e = r.event
    BY <2>1, <1>4, <1>7
  <2>2. CASE e # r.event
    BY <2>2, <1>7
  <2> QED
    BY <2>1, <2>2
<1>14. QueueInv'
  BY DEF Ingest, EventInv, QueueInv
<1>15. CursorInv'
  BY <1>0, <1>a DEF CursorInv
<1> QED
  BY <1>10, <1>12, <1>13, <1>14, <1>15 DEF EventInv

\* Rows are deleted with their links (ON DELETE CASCADE).
LEMMA DeleteKeeps ==
    ASSUME EventInv, DeleteEvents
    PROVE  EventInv' /\ KeepsStart
<1>1. PICK E \in SUBSET Events :
          /\ rows' = [e \in Events |-> IF e \in E THEN NoRow ELSE rows[e]]
          /\ links' = Cascade(E)
          /\ seen' = [seen EXCEPT !.delivered = [e \in Events |-> IF e \in E THEN {} ELSE @[e]],
                                  !.deleted = @ \cup E]
  BY Zenon DEF DeleteEvents
<1>2. UNCHANGED <<published, cursor, acked, pending, recent, created>>
  BY DEF DeleteEvents
<1>3. /\ rows \in [Events -> Row]
      /\ seen \in [delivered : [Events -> SUBSET (1 .. Len(Script))],
                   dropped : SUBSET Links, deleted : SUBSET Events]
      /\ \A e \in Events : Current(rows[e], seen.delivered[e])
  BY DEF EventInv, RowInv
<1>4. rows' \in [Events -> Row]
  BY <1>1, <1>3 DEF Row, NoRow
<1> DEFINE D == [e \in Events |-> IF e \in E THEN {} ELSE seen.delivered[e]]
<1>5. D \in [Events -> SUBSET (1 .. Len(Script))]
  BY <1>3
<1>6. /\ seen' \in [delivered : [Events -> SUBSET (1 .. Len(Script))],
                    dropped : SUBSET Links, deleted : SUBSET Events]
      /\ seen'.delivered = D
  <2>1. seen' = [seen EXCEPT !.delivered = D, !.deleted = seen.deleted \cup E]
    BY <1>1
  <2> HIDE DEF D
  <2> QED
    BY Zenon, <2>1, <1>3, <1>5
<1>7. \A e \in Events : Current(rows'[e], seen'.delivered[e])
  <2> TAKE e \in Events
  <2>1. CASE e \in E
    <3>1. rows'[e] = NoRow /\ seen'.delivered[e] = {}
      BY Zenon, <2>1, <1>1, <1>6
    <3> QED
      BY <3>1 DEF Current
  <2>2. CASE e \notin E
    <3>1. rows'[e] = rows[e] /\ seen'.delivered[e] = seen.delivered[e]
      BY Zenon, <2>2, <1>1, <1>6
    <3> QED
      BY <3>1, <1>3
  <2> QED
    BY <2>1, <2>2
<1>8. RowInv'
  <2>1. \A e \in Events : Current(rows[e], seen.delivered[e])'
    BY <1>7 DEF Current, Best
  <2> QED
    BY <2>1, <1>4, <1>6 DEF RowInv
<1>9. LinksHaveRows'
  <2> SUFFICES ASSUME NEW l \in links' PROVE rows'[l[1]] # NoRow
    BY DEF LinksHaveRows, Has
  <2>1. l \in links /\ l[1] \notin E
    BY <1>1 DEF Cascade
  <2>2. l[1] \in Events /\ rows[l[1]] # NoRow
    BY <2>1, EventAssumption DEF EventInv, QueueInv, LinksHaveRows, Has
  <2> QED
    BY <2>1, <2>2, <1>1
<1>10. KeepsStart
  BY <1>1 DEF KeepsStart, Has
<1>11. QueueInv'
  BY <1>1, <1>2 DEF EventInv, QueueInv, Cascade
<1>12. CursorInv'
  BY <1>2 DEF EventInv, CursorInv
<1> QED
  BY <1>8, <1>9, <1>10, <1>11, <1>12 DEF EventInv

\* The linker takes an association, or loses it to a full queue.
LEMMA EnqueueKeeps ==
    ASSUME EventInv, Enqueue
    PROVE  EventInv' /\ KeepsStart
<1>1. UNCHANGED <<published, cursor, acked, rows, links, recent, left>>
  BY DEF Enqueue
<1>2. PICK l \in Links :
          /\ created' = created \cup {l}
          /\ \/ UNCHANGED <<pending, seen>>
             \/ seen' = [seen EXCEPT !.dropped = @ \cup {l}] /\ UNCHANGED pending
             \/ ~Full /\ pending' = Append(pending, l) /\ UNCHANGED seen
  BY DEF Enqueue
<1>3. QueueInv'
  <2>1. CASE UNCHANGED pending
    BY <1>1, <1>2, <2>1 DEF EventInv, QueueInv
  <2>2. CASE ~Full /\ pending' = Append(pending, l)
    <3>1. pending' \in Seq(Links) /\ Len(pending') = Len(pending) + 1
      BY <2>2 DEF EventInv, QueueInv
    <3>2. Len(pending') <= MaximumPending
      BY <2>2, <3>1, EventAssumption DEF Full, EventInv, QueueInv
    <3> QED
      BY <1>1, <1>2, <3>1, <3>2 DEF EventInv, QueueInv
  <2> QED
    BY <1>2, <2>1, <2>2
<1>4. /\ seen' \in [delivered : [Events -> SUBSET (1 .. Len(Script))],
                    dropped : SUBSET Links, deleted : SUBSET Events]
      /\ seen'.delivered = seen.delivered
  BY <1>2 DEF EventInv, RowInv
<1>5. RowInv'
  BY <1>1, <1>4 DEF EventInv, RowInv
<1>6. KeepsStart
  BY <1>1 DEF KeepsStart
<1>7. LinksHaveRows' /\ CursorInv'
  BY <1>1 DEF EventInv, LinksHaveRows, Has, CursorInv
<1> QED
  BY <1>3, <1>5, <1>6, <1>7 DEF EventInv

\* The oldest association reaches the historian, which has its row.
LEMMA DeliverKeeps ==
    ASSUME EventInv, Deliver \/ DeliverUnanswered
    PROVE  EventInv' /\ KeepsStart
<1>1. /\ pending # <<>>
      /\ links' = links \cup {Head(pending)} /\ Has(Head(pending)[1])
      /\ UNCHANGED <<published, cursor, acked, rows, created, seen>>
  BY DEF Deliver, DeliverUnanswered, Accepts
<1>2. Head(pending) \in Links
  BY <1>1 DEF EventInv, QueueInv
<1>3. QueueInv'
  <2>1. CASE Deliver
    <3>1. pending' = Tail(pending) /\ recent' = Remember(Head(pending))
      BY <2>1 DEF Deliver
    <3>2. pending' \in Seq(Links) /\ Len(pending') = Len(pending) - 1
      BY <1>1, <3>1 DEF EventInv, QueueInv
    <3> DEFINE all == Append(recent, Head(pending))
    <3>3. all \in Seq(Links) /\ Len(all) = Len(recent) + 1 /\ all # <<>>
      <4>1. recent \in Seq(Links)
        BY DEF EventInv, QueueInv
      <4> DEFINE l == Head(pending)
      <4>2. l \in Links
        BY <1>2
      <4> HIDE DEF l
      <4>3. Append(recent, l) \in Seq(Links) /\ Len(Append(recent, l)) = Len(recent) + 1
        BY <4>1, <4>2
      <4>4. Append(recent, l) # <<>>
        <5>1. Len(recent) \in Nat
          BY <4>1
        <5> DEFINE b == Append(recent, l)
        <5>2. Len(b) # 0
          BY <4>3, <5>1
        <5> HIDE DEF b
        <5>3. b # <<>>
          BY <5>2
        <5> QED
          BY <5>3 DEF b
      <4> QED
        BY <4>3, <4>4 DEF l
    <3>4. Tail(all) \in Seq(Links) /\ Len(Tail(all)) = Len(recent)
      <4> HIDE DEF all
      <4> QED
        BY <3>3 DEF EventInv, QueueInv
    <3>5. recent' = IF Len(all) > RecentCapacity THEN Tail(all) ELSE all
      BY <3>1 DEF Remember
    <3>6. recent' \in Seq(Links) /\ Len(recent') <= RecentCapacity
      <4> HIDE DEF all
      <4> QED
        BY <3>3, <3>4, <3>5, EventAssumption DEF EventInv, QueueInv
    <3>7. Len(pending) \in Nat /\ Len(pending) <= MaximumPending
      BY DEF EventInv, QueueInv
    <3>8. Len(pending') <= MaximumPending
      BY <3>2, <3>7, EventAssumption
    <3> QED
      BY <1>1, <1>2, <3>2, <3>6, <3>8 DEF EventInv, QueueInv
  <2>2. CASE DeliverUnanswered
    BY <1>1, <1>2, <2>2 DEF DeliverUnanswered, EventInv, QueueInv
  <2> QED
    BY <2>1, <2>2
<1>4. LinksHaveRows'
  BY <1>1 DEF EventInv, LinksHaveRows, Has
<1>5. RowInv' /\ KeepsStart
  BY <1>1, RowsKept
<1>6. CursorInv'
  BY <1>1 DEF EventInv, CursorInv
<1> QED
  BY <1>3, <1>4, <1>5, <1>6 DEF EventInv

\* The acquisition service forgets its queue.
LEMMA RestartKeeps ==
    ASSUME EventInv, RestartAcquisition
    PROVE  EventInv' /\ KeepsStart
<1>1. /\ seen' = [seen EXCEPT !.dropped = @ \cup Range(pending)]
      /\ pending' = <<>> /\ recent' = <<>>
      /\ UNCHANGED <<published, cursor, acked, rows, links, created>>
  BY DEF RestartAcquisition
<1>2. Range(pending) \subseteq Links
  BY DEF EventInv, QueueInv, Range
<1>3. /\ seen' \in [delivered : [Events -> SUBSET (1 .. Len(Script))],
                    dropped : SUBSET Links, deleted : SUBSET Events]
      /\ seen'.delivered = seen.delivered
  BY <1>1, <1>2 DEF EventInv, RowInv
<1>4. RowInv'
  BY <1>1, <1>3 DEF EventInv, RowInv
<1>5. QueueInv'
  BY <1>1, EventAssumption DEF EventInv, QueueInv
<1>6. LinksHaveRows' /\ CursorInv' /\ KeepsStart
  BY <1>1 DEF EventInv, LinksHaveRows, Has, CursorInv, KeepsStart
<1> QED
  BY <1>4, <1>5, <1>6 DEF EventInv

LEMMA EventStep == EventInv /\ [Next]_vars => EventInv' /\ [KeepsStart]_vars
<1> SUFFICES ASSUME EventInv, [Next]_vars PROVE EventInv' /\ [KeepsStart]_vars
  OBVIOUS
<1>1. CASE Next
  BY <1>1, CursorMoves, IngestKeeps, DeleteKeeps, EnqueueKeeps, DeliverKeeps, RestartKeeps
     DEF Next
<1>2. CASE UNCHANGED vars
  <2>1. CursorInv' /\ QueueInv'
    BY <1>2 DEF vars, EventInv, CursorInv, QueueInv
  <2>2. RowInv'
    BY <1>2, RowsKept DEF vars
  <2>3. LinksHaveRows'
    BY <1>2 DEF vars, EventInv, LinksHaveRows, Has
  <2> QED
    BY <1>2, <2>1, <2>2, <2>3 DEF EventInv
<1> QED
  BY <1>1, <1>2

LEMMA EventSound == EventInv => TypeOK /\ RowIsNewestDelivered /\ LinksHaveRows
<1> SUFFICES ASSUME EventInv PROVE TypeOK /\ RowIsNewestDelivered /\ LinksHaveRows
  OBVIOUS
<1>1. TypeOK
  BY DEF EventInv, CursorInv, QueueInv, TypeOK
<1>2. RowIsNewestDelivered
  BY DEF EventInv, RowInv, Current, RowIsNewestDelivered, Has
<1> QED
  BY <1>1, <1>2 DEF EventInv

\* For every stream of lifecycle records, queue capacity and set of associations: a
\* row is the newest record delivered since its event was deleted, however pages are
\* repeated; no link is without its row; a known start stays; the deques keep their
\* capacity (upsert_power_quality_event, event_waveform_linker).
THEOREM EventsCorrect == Spec => EventsAreCurrent
<1>1. Init => EventInv
  BY EventStart
<1>2. EventInv /\ [Next]_vars => EventInv' /\ [KeepsStart]_vars
  BY EventStep
<1>3. EventInv => TypeOK /\ RowIsNewestDelivered /\ LinksHaveRows
  BY EventSound
<1>4. Spec => [](TypeOK /\ RowIsNewestDelivered /\ LinksHaveRows)
  BY <1>1, <1>2, <1>3, PTL DEF Spec
<1>5. Spec => [][KeepsStart]_vars
  BY <1>1, <1>2, PTL DEF Spec
<1> QED
  BY <1>4, <1>5 DEF EventsAreCurrent, StartTimeIsKept, KeepsStart
===============================================================================
