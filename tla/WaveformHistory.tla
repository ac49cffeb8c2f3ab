--------------------------- MODULE WaveformHistory ---------------------------
(***************************************************************************)
(* The capture side of common/msap1/waveform/waveform_capture.cpp: the     *)
(* history ring filled from the waveform DMA, capture sessions opened by   *)
(* manual triggers and power-quality events, and the snapshot of a         *)
(* finished window out of the ring.  Of the background writer only its     *)
(* answers are modelled: whether a capture was stored, and which older     *)
(* captures retention deleted to make room.  Captures of earlier runs of   *)
(* the service, found by the archive discovery, are left out.              *)
(*                                                                         *)
(* All operations run on the acquisition thread, one at a time.            *)
(* read_available is a loop over blocks, so it is several steps during     *)
(* which only the writer thread moves.                                     *)
(*                                                                         *)
(* Data abstraction.  A frame is the stream epoch it was captured in and   *)
(* its sequence number.  The measured sample rate is constant, so the      *)
(* windows are given in frames.  END and ABORT are treated alike by the    *)
(* code and are both "end"; START and UPDATE differ only for an event that *)
(* has no capture yet, through the anchor, which is an input here.         *)
(* Time stamps are left out, and with them the give-ups of                 *)
(* enqueue_materialization whose cause is a time that does not fit.        *)
(*                                                                         *)
(* An operator whose comment starts with "Wrong:" is a deliberately broken *)
(* variant of the one after it, kept to show that a property can fail.     *)
(***************************************************************************)
EXTENDS Integers, FiniteSets

CONSTANTS Capacity,       \* frames in history_
          Block,          \* waveform_frames_per_block
          Margin,         \* two seconds of frames, see max_capture_frames
          ManualWindows,  \* <<pre, post>> a manual trigger may ask for
          EventWindows,   \* <<pre, post>> of the power-quality policies
          Events,         \* power-quality events
          Indexed,        \* those whose descriptors say pq_event
          Generations,    \* configuration generations in block headers
          MaxSequence,    \* bound: the largest frame sequence
          MaxSession,     \* bound: sessions created
          MaxEpoch        \* bound: stream epochs

ASSUME HistoryAssumption ==
  /\ Block \in Nat \ {0}
  /\ Capacity \in Nat
  /\ Block <= Capacity
  /\ Margin \in Nat
  /\ ManualWindows \subseteq Nat \X Nat
  /\ EventWindows \subseteq Nat \X Nat
  /\ Indexed \subseteq Events
  /\ 0 \notin Generations
  /\ MaxSequence \in Nat
  /\ MaxSession \in Nat
  /\ MaxEpoch \in Nat

VARIABLES
  running,      \* fd_ >= 0
  reading,      \* inside the loop of read_available
  haveHistory,  \* have_history_
  oldest,       \* oldest_sequence_
  latest,       \* latest_sequence_
  gaps,         \* gaps_, a set of <<first, last>>
  ring,         \* history_
  generation,   \* configuration_generation_, 0 when reset
  sessions,     \* sessions_ by id
  nextId,       \* next_session_id_
  association,  \* event_capture_index_
  results,      \* the writer's results not collected yet
  expired,      \* expired_session_ids of results not collected yet
  epoch         \* history: number of begin_stream_epoch calls

stream == <<haveHistory, oldest, latest, gaps, ring, generation, epoch>>
vars == <<running, reading, stream,
          sessions, nextId, association, results, expired>>

-----------------------------------------------------------------------------
Ids == 1..MaxSession
Slots == 0..(Capacity - 1)
Sequences == 0..MaxSequence

Larger(a, b) == IF a >= b THEN a ELSE b
Smaller(a, b) == IF a <= b THEN a ELSE b

Frame(e, k) == [epoch |-> e, sequence |-> k]

\* capturing and queued are WaveformSessionState::capturing without and with
\* materialization_queued; none is an id that is not in sessions_.
States == {"none", "capturing", "queued", "complete", "incomplete"}

\* The event markers of a session: absent, last seen START/UPDATE, ended.
Markers == [Events -> {"absent", "open", "terminal"}]

\* epoch and covered are history: the epoch of the first trigger, and
\* whether the window began inside the ring each time it was set.
Session ==
  [state : States, first : Nat, last : Nat, markers : Markers,
   epoch : Nat, covered : BOOLEAN]

NoMarkers == [e \in Events |-> "absent"]

NoSession ==
  [state |-> "none", first |-> 0, last |-> 0, markers |-> NoMarkers,
   epoch |-> 0, covered |-> FALSE]

Association == [onset : Nat, recovery : Nat, terminal : BOOLEAN]
NoAssociation == [onset |-> 0, recovery |-> 0, terminal |-> FALSE]

TypeOK ==
  /\ running \in BOOLEAN
  /\ reading \in BOOLEAN
  /\ haveHistory \in BOOLEAN
  /\ oldest \in Nat
  /\ latest \in Nat
  /\ gaps \subseteq Nat \X Nat
  /\ ring \in [Slots -> [epoch : Nat, sequence : Nat]]
  /\ generation \in Generations \cup {0}
  /\ sessions \in [Ids -> Session]
  /\ nextId \in 1..(MaxSession + 1)
  /\ association \in [Events -> Association]
  /\ results \in [Ids -> {"none", "ok", "failed"}]
  /\ expired \subseteq Ids
  /\ epoch \in Nat

Init ==
  /\ running = FALSE
  /\ reading = FALSE
  /\ haveHistory = FALSE
  /\ oldest = 0
  /\ latest = 0
  /\ gaps = {}
  /\ ring = [i \in Slots |-> Frame(0, 0)]
  /\ generation = 0
  /\ sessions = [i \in Ids |-> NoSession]
  /\ nextId = 1
  /\ association = [e \in Events |-> NoAssociation]
  /\ results = [i \in Ids |-> "none"]
  /\ expired = {}
  /\ epoch = 0

-----------------------------------------------------------------------------
\* The event index.

Exists(i, S) == i \in Ids /\ S[i].state # "none"
Lowest(I) == CHOOSE i \in I : \A j \in I : i <= j
Marked(e, S) == {i \in Ids : S[i].state # "none" /\ S[i].markers[e] # "absent"}

\* The sessions rebuild_event_capture_index finds of an event: it skips a
\* descriptor whose trigger_source is not WaveformTriggerSource::pq_event.
Found(e, S) == IF e \in Indexed THEN Marked(e, S) ELSE {}

\* rebuild_event_capture_index: the oldest session of an event is its onset,
\* the next one its recovery.
Rebuilt(S) ==
  [e \in Events |->
    LET all == Found(e, S)
        onset == IF all = {} THEN 0 ELSE Lowest(all)
        rest == all \ {onset}
    IN  [onset |-> onset,
         recovery |-> IF rest = {} THEN 0 ELSE Lowest(rest),
         terminal |-> \E i \in all : S[i].markers[e] = "terminal"]]

-----------------------------------------------------------------------------
\* The background writer and the collection of its results.

\* Captures with a file, known to the service yet or not.
OnDisk == {i \in Ids : sessions[i].state = "complete" \/ results[i] = "ok"}

\* The writer thread ends a job, after enforce_retention deleted some files.
\* It takes its jobs in order; nothing here depends on that.
WriteFinished(i) ==
  /\ sessions[i].state = "queued"
  /\ results[i] = "none"
  /\ \E outcome \in {"ok", "failed"} :
       results' = [results EXCEPT ![i] = outcome]
  /\ \E removed \in SUBSET (OnDisk \ expired) : expired' = expired \cup removed
  /\ UNCHANGED <<running, reading, stream, sessions, nextId, association>>

\* A job of set_archive_limit_gib that only enforces retention.  It may have
\* been waiting in the writer's queue since before a stop.
RetentionFinished ==
  /\ \E removed \in SUBSET (OnDisk \ expired) :
       /\ removed # {}
       /\ expired' = expired \cup removed
  /\ UNCHANGED <<running, reading, stream, sessions, nextId, association, results>>

\* collect_materialization_results, first thing in nearly every operation:
\* the sessions S afterwards, and the event index, which is rebuilt when
\* sessions have gone.
CollectedFrom(S) ==
  [i \in Ids |->
    IF i \in expired THEN NoSession
    ELSE IF results[i] = "none" THEN S[i]
    ELSE [S[i] EXCEPT
           !.state = IF results[i] = "ok" THEN "complete" ELSE "incomplete"]]

IndexOf(S) == IF expired = {} THEN association ELSE Rebuilt(S)

Collected == CollectedFrom(sessions)
CollectedIndex == IndexOf(Collected)

Collect ==
  /\ results' = [i \in Ids |-> "none"]
  /\ expired' = {}

\* status, session_page and find_session only collect, and so does any
\* request that is refused.
Query ==
  /\ ~reading
  /\ sessions' = Collected
  /\ association' = CollectedIndex
  /\ Collect
  /\ UNCHANGED <<running, reading, stream, nextId>>

-----------------------------------------------------------------------------
\* The stream.

\* Wrong: a session in progress is carried over into the next epoch.
AbandonedNever(S) == S

\* Sessions still waiting for frames of an epoch that is over.
Abandoned(S) ==
  [i \in Ids |->
    IF S[i].state = "capturing" THEN [S[i] EXCEPT !.state = "incomplete"]
    ELSE S[i]]

\* start: a new epoch, whether or not the device then opens.
Start ==
  /\ ~running
  /\ epoch < MaxEpoch
  /\ running' \in BOOLEAN
  /\ sessions' = Abandoned(sessions)
  /\ haveHistory' = FALSE
  /\ oldest' = 0
  /\ latest' = 0
  /\ gaps' = {}
  /\ generation' = 0
  /\ epoch' = epoch + 1
  /\ UNCHANGED <<reading, ring, nextId, association, results, expired>>

Stop ==
  /\ ~reading
  /\ running' = FALSE
  /\ sessions' = Abandoned(Collected)
  /\ association' = CollectedIndex
  /\ Collect
  /\ UNCHANGED <<reading, stream, nextId>>

\* read_available: collect, read blocks until there are none, finish.
BeginRead ==
  /\ running
  /\ ~reading
  /\ reading' = TRUE
  /\ sessions' = Collected
  /\ association' = CollectedIndex
  /\ Collect
  /\ UNCHANGED <<running, stream, nextId>>

\* The slot a sequence is stored in.
Slot(k) == k % Capacity

\* The ring with the block that begins at first in it.
Stored(first, e) ==
  [i \in Slots |->
    IF \E k \in first..(first + Block - 1) : Slot(k) = i
    THEN Frame(e, CHOOSE k \in first..(first + Block - 1) : Slot(k) = i)
    ELSE ring[i]]

\* A block that follows the history, directly or after lost frames.
AcceptBlock(first, g) ==
  /\ reading
  /\ generation \in {0, g}
  /\ haveHistory => first > latest
  /\ generation' = g
  /\ haveHistory' = TRUE
  /\ ring' = Stored(first, epoch)
  /\ latest' = first + Block - 1
  /\ oldest' = IF haveHistory THEN Larger(oldest, first + Block - Capacity)
               ELSE first
  /\ gaps' = {gap \in gaps \cup (IF haveHistory /\ first > latest + 1
                                 THEN {<<latest + 1, first - 1>>} ELSE {}) :
                gap[2] >= oldest'}
  /\ UNCHANGED <<running, reading, sessions, nextId, association, results, expired,
                 epoch>>

\* A stale block never rewinds the history.
RejectBlock(first, g) ==
  /\ reading
  /\ generation \in {0, g}
  /\ haveHistory
  /\ first <= latest
  /\ generation' = g
  /\ UNCHANGED <<running, reading, haveHistory, oldest, latest, gaps, ring,
                 sessions, nextId, association, results, expired, epoch>>

\* A block of another generation begins an epoch of its own.
AcceptGeneration(first, g) ==
  /\ reading
  /\ generation \notin {0, g}
  /\ epoch < MaxEpoch
  /\ sessions' = Abandoned(sessions)
  /\ generation' = g
  /\ epoch' = epoch + 1
  /\ haveHistory' = TRUE
  /\ ring' = Stored(first, epoch + 1)
  /\ latest' = first + Block - 1
  /\ oldest' = first
  /\ gaps' = {}
  /\ UNCHANGED <<running, reading, nextId, association, results, expired>>

\* Wrong: only a gap inside the window is noticed, not one at its end.
IntersectsGapInside(first, last) ==
  \E gap \in gaps : gap[1] >= first /\ gap[2] <= last

IntersectsGap(first, last) ==
  \E gap \in gaps : gap[1] <= last /\ gap[2] >= first

Evicted(s) == s.first < oldest

\* finish_sessions: a window whose last frame has arrived is snapshot out of
\* the ring and queued, or given up.  A snapshot of more than the ring
\* throws and gives the session up as well.
Finished(S) ==
  [i \in Ids |->
    LET s == S[i]
    IN  IF s.state # "capturing" \/ latest < s.last THEN s
        ELSE IF \/ Evicted(s)
                \/ IntersectsGap(s.first, s.last)
                \/ s.last - s.first + 1 > Capacity
        THEN [s EXCEPT !.state = "incomplete"]
        ELSE [s EXCEPT !.state = "queued"]]

\* The second collection finds what the writer finished meanwhile.
EndRead ==
  /\ reading
  /\ reading' = FALSE
  /\ sessions' = CollectedFrom(Finished(sessions))
  /\ association' = IndexOf(sessions')
  /\ Collect
  /\ UNCHANGED <<running, stream, nextId>>

\* A failing read leaves the loop by an exception.
ReadFails ==
  /\ reading
  /\ reading' = FALSE
  /\ UNCHANGED <<running, stream, sessions, nextId, association, results, expired>>

-----------------------------------------------------------------------------
\* Triggers.

\* max_capture_frames.
Budget == IF Margin >= Capacity THEN 0 ELSE Capacity - Margin

\* The first frame of a window of pre frames before anchor.
Pretrigger(anchor, pre) == Larger(anchor - pre, 0)

Capturing(S) == {i \in Ids : S[i].state = "capturing"}

\* trigger: extends the first session still capturing when the windows touch
\* and opens a session otherwise.
Trigger(w) ==
  /\ ~reading
  /\ haveHistory
  /\ w[1] + w[2] + 1 <= Budget
  /\ latest + w[2] <= MaxSequence
  /\ LET S == Collected
         first == Pretrigger(latest, w[1])
         last == latest + w[2]
         active == Capturing(S)
         a == Lowest(active)
     IN  \/ /\ active # {}
            /\ first <= S[a].last + 1
            /\ sessions' =
                 [S EXCEPT ![a] =
                   [S[a] EXCEPT !.first = Smaller(S[a].first, first),
                                !.last = Larger(S[a].last, last),
                                !.covered = S[a].covered /\ first >= oldest]]
            /\ UNCHANGED nextId
         \/ /\ active # {} => first > S[a].last + 1
            /\ nextId <= MaxSession
            /\ sessions' =
                 [S EXCEPT ![nextId] =
                   [state |-> "capturing", first |-> first, last |-> last,
                    markers |-> NoMarkers, epoch |-> epoch,
                    covered |-> first >= oldest]]
            /\ nextId' = nextId + 1
  /\ association' = CollectedIndex
  /\ Collect
  /\ UNCHANGED <<running, reading, stream>>

\* bounded_window: the window around an anchor, cut to the history and to
\* the budget; an event whose window is gone throws.
WindowLast(anchor, w) == anchor + w[2]

WindowFirst(anchor, w) ==
  LET first == Larger(Pretrigger(anchor, w[1]), oldest)
  IN  IF WindowLast(anchor, w) - first + 1 > Budget
      THEN WindowLast(anchor, w) - Budget + 1 ELSE first
Retained(anchor, w) == WindowLast(anchor, w) >= oldest

Marker(lifecycle) == IF lifecycle = "end" THEN "terminal" ELSE "open"

\* new_session of track_power_quality_event, and the association recorded
\* for it.
NewEventSession(e, lifecycle, anchor, w) ==
  [state |-> "capturing", first |-> WindowFirst(anchor, w),
   last |-> WindowLast(anchor, w),
   markers |-> [NoMarkers EXCEPT ![e] = Marker(lifecycle)],
   epoch |-> epoch, covered |-> TRUE]

\* The session a lifecycle record goes to, given the event's association:
\* recovery before onset.
LatestOf(a, S) == IF Exists(a.recovery, S) THEN a.recovery ELSE a.onset

\* What every call of track_power_quality_event needs.
CanTrack(w) ==
  /\ ~reading
  /\ haveHistory
  /\ w[1] + w[2] + 1 <= Budget

\* An event without a capture gets one.
TrackFirst(e, lifecycle, anchor, w) ==
  /\ CanTrack(w)
  /\ LET S == Collected
     IN  /\ ~Exists(LatestOf(CollectedIndex[e], S), S)
         /\ Retained(anchor, w)
         /\ nextId <= MaxSession
         /\ sessions' = [S EXCEPT ![nextId] =
                           NewEventSession(e, lifecycle, anchor, w)]
  /\ nextId' = nextId + 1
  /\ association' =
       [CollectedIndex EXCEPT ![e] =
         [onset |-> IF lifecycle = "start" THEN nextId ELSE 0,
          recovery |-> IF lifecycle = "start" THEN 0 ELSE nextId,
          terminal |-> lifecycle = "end"]]
  /\ Collect
  /\ UNCHANGED <<running, reading, stream>>

\* START and UPDATE of a captured event, and anything after its end or
\* recovery, only refresh the marker of a session that is still open.
TrackMarks(e, lifecycle, w) ==
  /\ CanTrack(w)
  /\ LET S == Collected
         a == CollectedIndex[e]
         i == LatestOf(a, S)
     IN  /\ Exists(i, S)
         /\ \/ lifecycle # "end"
            \/ a.terminal
            \/ Exists(a.recovery, S)
         /\ sessions' = IF S[i].state # "capturing" THEN S
                        ELSE [S EXCEPT ![i] =
                               [S[i] EXCEPT !.markers =
                                 [S[i].markers EXCEPT ![e] = Marker(lifecycle)]]]
  /\ association' = CollectedIndex
  /\ Collect
  /\ UNCHANGED <<running, reading, stream, nextId>>

\* The end of an event that has only its onset capture.
AtRecovery(a, S) ==
  /\ Exists(a.onset, S)
  /\ ~Exists(a.recovery, S)
  /\ ~a.terminal

\* The recovery window touches the open onset window and the union fits.
Mergeable(s, first, last) ==
  /\ s.state = "capturing"
  /\ first <= s.last + 1
  /\ s.first <= last + 1
  /\ Larger(s.last, last) - Smaller(s.first, first) + 1 <= Budget

TrackMerges(e, anchor, w) ==
  /\ CanTrack(w)
  /\ LET S == Collected
         i == CollectedIndex[e].onset
         first == WindowFirst(anchor, w)
         last == WindowLast(anchor, w)
     IN  /\ AtRecovery(CollectedIndex[e], S)
         /\ Retained(anchor, w)
         /\ Mergeable(S[i], first, last)
         /\ sessions' =
              [S EXCEPT ![i] =
                [S[i] EXCEPT !.first = Smaller(S[i].first, first),
                             !.last = Larger(S[i].last, last),
                             !.markers = [S[i].markers EXCEPT ![e] = "terminal"]]]
  /\ association' = [CollectedIndex EXCEPT ![e] =
                      [CollectedIndex[e] EXCEPT !.terminal = TRUE]]
  /\ Collect
  /\ UNCHANGED <<running, reading, stream, nextId>>

\* The association of an event whose recovery is session i.
Recovered(a, i) == [a EXCEPT !.recovery = i, !.terminal = TRUE]

TrackRecovers(e, anchor, w) ==
  /\ CanTrack(w)
  /\ LET S == Collected
     IN  /\ AtRecovery(CollectedIndex[e], S)
         /\ Retained(anchor, w)
         /\ ~Mergeable(S[CollectedIndex[e].onset], WindowFirst(anchor, w),
                       WindowLast(anchor, w))
         /\ nextId <= MaxSession
         /\ sessions' = [S EXCEPT ![nextId] =
                           NewEventSession(e, "end", anchor, w)]
  /\ nextId' = nextId + 1
  /\ association' = [CollectedIndex EXCEPT ![e] =
                      Recovered(CollectedIndex[e], nextId)]
  /\ Collect
  /\ UNCHANGED <<running, reading, stream>>

\* The window of a first or last record is no longer retained.  An entry
\* that names no session has been dropped by then.
TrackThrows(e, lifecycle, anchor, w) ==
  /\ CanTrack(w)
  /\ ~Retained(anchor, w)
  /\ sessions' = Collected
  /\ \/ /\ ~Exists(LatestOf(CollectedIndex[e], Collected), Collected)
        /\ association' = [CollectedIndex EXCEPT ![e] = NoAssociation]
     \/ /\ lifecycle = "end"
        /\ AtRecovery(CollectedIndex[e], Collected)
        /\ association' = CollectedIndex
  /\ Collect
  /\ UNCHANGED <<running, reading, stream, nextId>>

\* A lifecycle record of event e.  Its anchor is the trigger sample of a
\* START and the current sample of any other record; the meter record and
\* the frames it points at travel on different DMA channels.
Track(e, lifecycle, anchor, w) ==
  /\ anchor + w[2] <= MaxSequence
  /\ \/ TrackFirst(e, lifecycle, anchor, w)
     \/ TrackMarks(e, lifecycle, w)
     \/ lifecycle = "end" /\ TrackMerges(e, anchor, w)
     \/ lifecycle = "end" /\ TrackRecovers(e, anchor, w)
     \/ TrackThrows(e, lifecycle, anchor, w)

-----------------------------------------------------------------------------
\* Deletion.

Erase(i) ==
  /\ ~reading
  /\ Collected[i].state \in {"complete", "incomplete"}
  /\ sessions' = [Collected EXCEPT ![i] = NoSession]
  /\ association' = Rebuilt(sessions')
  /\ Collect
  /\ UNCHANGED <<running, reading, stream, nextId>>

-----------------------------------------------------------------------------
Next ==
  \/ Start
  \/ Stop
  \/ BeginRead
  \/ \E first \in Sequences, g \in Generations :
       /\ first + Block - 1 <= MaxSequence
       /\ AcceptBlock(first, g) \/ RejectBlock(first, g) \/ AcceptGeneration(first, g)
  \/ EndRead
  \/ ReadFails
  \/ \E i \in Ids : WriteFinished(i) \/ Erase(i)
  \/ RetentionFinished
  \/ Query
  \/ \E w \in ManualWindows : Trigger(w)
  \/ \E e \in Events, lifecycle \in {"start", "update", "end"},
        anchor \in Sequences, w \in EventWindows : Track(e, lifecycle, anchor, w)

Spec == Init /\ [][Next]_vars

-----------------------------------------------------------------------------
\* Properties.

\* What the ring holds: every sequence from oldest_sequence_ to
\* latest_sequence_ that is not in a recorded gap is in its slot, captured in
\* this epoch, and the span never exceeds the ring.
RingInvariant ==
  haveHistory =>
    /\ oldest <= latest
    /\ latest - oldest < Capacity
    /\ \A k \in oldest..latest :
         \/ ring[Slot(k)] = Frame(epoch, k)
         \/ \E gap \in gaps : gap[1] <= k /\ k <= gap[2]

\* A session waiting for frames belongs to the current epoch, and one whose
\* window began inside the history has lost its first frame only if a whole
\* ring of frames has come since.
CaptureInvariant ==
  \A i \in Ids :
    sessions[i].state = "capturing" =>
      /\ haveHistory
      /\ sessions[i].epoch = epoch
      /\ sessions[i].covered =>
           \/ sessions[i].first >= oldest
           \/ latest - sessions[i].first >= Capacity

\* A window is queued for the writer only when each of its sequences is in
\* the ring, from the epoch of the trigger: a capture never mixes frames of
\* two epochs, overwritten frames or frames lost in a gap (finish_sessions,
\* enqueue_materialization).
SnapshotExact ==
  [][\A i \in Ids :
       sessions[i].state = "capturing" /\ sessions'[i].state = "queued" =>
         \A k \in sessions[i].first..sessions[i].last :
           ring[Slot(k)] = Frame(sessions[i].epoch, k)]_vars

\* Why a session is given up at the end of a read: it crosses a gap; or its
\* window began before the history, or grew past the budget; or the frames
\* that came after the window used up the two seconds held back by
\* max_capture_frames.
GivenUpForCause(s) ==
  \/ IntersectsGap(s.first, s.last)
  \/ ~s.covered
  \/ s.last - s.first + 1 > Budget
  \/ latest - s.last > Margin

KeptWithinMargin ==
  [][\A i \in Ids :
       reading /\ ~reading' /\ sessions[i].state = "capturing"
               /\ sessions'[i].state = "incomplete" =>
         GivenUpForCause(sessions[i])]_vars

\* The event index never names a session that is gone, and names only
\* sessions that carry the event's marker, whatever has been deleted.
AssociationsLive ==
  \A e \in Events :
    {association[e].onset, association[e].recovery} \ {0} \subseteq
      Marked(e, sessions)

\* An event whose descriptors say pq_event is captured at most twice: at its
\* onset and at its recovery, whatever is deleted between its records
\* (track_power_quality_event, rebuild_event_capture_index).
AtMostTwice == \A e \in Indexed : Cardinality(Marked(e, sessions)) <= 2

\* Statement of README.md: overlapping manual windows "are merged into one
\* longest capture".  So a capture all of whose windows fit the ring when
\* they were asked for is not lost for its length.
MergedCaptureKept ==
  [][\A i \in Ids :
       reading /\ ~reading' /\ sessions[i].state = "capturing"
               /\ sessions'[i].state = "incomplete" =>
         \/ IntersectsGap(sessions[i].first, sessions[i].last)
         \/ ~sessions[i].covered
         \/ latest - sessions[i].last > Margin]_vars

-----------------------------------------------------------------------------
\* The captures: one that waits for frames has lost none of those its window
\* began with, unless the ring has turned since; an event is marked by at most
\* two captures; and its associations name captures that mark it
\* (waveform_capture.cpp, events and associations).
CapturesAreSound == CaptureInvariant /\ AssociationsLive /\ AtMostTwice

\* The snapshots: a queued capture holds the frames of its window and no others,
\* and a reader gives a capture up only for a gap, a new generation or a window
\* beyond the margin (waveform_capture.cpp, snapshot).
SnapshotsAreSound == SnapshotExact /\ KeptWithinMargin
=============================================================================
