----------------------------- MODULE MncwfSlice -----------------------------
(***************************************************************************)
(* What an MNCWF waveform file says about its samples, on its way from the  *)
(* capture to an exported event slice:                                      *)
(*                                                                          *)
(*   - WaveformCapture::enqueue_materialization clips the events of a       *)
(*     session to the captured window, and the background writer decimates  *)
(*     the window and describes it (waveform_capture.cpp);                  *)
(*   - make_mncwf_v4_event_selection cuts the frames of one event out of a  *)
(*     file and rewrites the timebase, the events, the quality intervals    *)
(*     and the lineage for the cut (mncwf_v4.cpp);                          *)
(*   - MncwfV4Reader is the acceptance test of both.  A capture the reader  *)
(*     refuses is lost after it was taken; a slice is streamed to the       *)
(*     client without being read back.                                      *)
(*                                                                          *)
(* Acquisition sequences are small naturals.  The sample stored in a frame  *)
(* is modelled by the interval of sequences it is the mean of, a timestamp  *)
(* by the sequence it was computed for, and the name-derived capture UUID   *)
(* of a slice by the tuple it is the digest of.                             *)
(***************************************************************************)
EXTENDS Integers, Sequences, FiniteSets

CONSTANTS
    Windows,    \* captured windows <<first_sequence, last_sequence>>
    Divisors,   \* decimation divisors a trigger may ask for
    Stored,     \* sets of event descriptors a session may have collected
    Foreign     \* documents other writers left in the archive

VARIABLES
    master,     \* the file in the archive, or NoFile
    slice,      \* the exported file, or NoFile
    session     \* the session being materialised, or NoFile

vars == <<master, slice, session>>

NoFile == [kind |-> "none"]

Lower(a, b) == IF a < b THEN a ELSE b
Higher(a, b) == IF a > b THEN a ELSE b
Clamp(v, lo, hi) == IF v < lo THEN lo ELSE IF v > hi THEN hi ELSE v

Terminal == {"end", "abort", "complete"}

-----------------------------------------------------------------------------
(* The capture side.                                                        *)

\* AsyncWriter's decimate: the mean of each group of d frames, the last
\* group possibly shorter.
Decimate(first, last, d) ==
    [k \in 1 .. ((last - first) \div d) + 1 |->
        <<first + (k - 1) * d, Lower(first + k * d - 1, last)>>]

\* enqueue_materialization: the anchors of one event, clipped to the window.
ClipAnchors(e, first, last) ==
    LET start == Clamp(e.start, first, last)
        ends  == "end" \in e.flags /\ e.end <= last
        trig  == "trigger" \in e.flags /\ e.trigger \in first .. last
    IN  [e EXCEPT
            !.start = start,
            !.current = IF "current" \in e.flags THEN Clamp(@, first, last) ELSE start,
            !.end = IF ends THEN Clamp(@, first, last) ELSE 0,
            !.trigger = IF trig THEN @ ELSE 0,
            !.flags = (@ \ ((IF ends THEN {} ELSE {"end"}) \cup (IF trig THEN {} ELSE {"trigger"})))
                        \cup {"current"}]

ClipLifecycle(e, clipped, first, last) ==
    LET outside == e.start < first \/ e.start > last
    IN  [clipped EXCEPT
            !.flags = IF outside THEN @ \cup {"discontinuous"} ELSE @,
            !.life = IF \/ outside /\ @ = "start"
                        \/ @ \in Terminal /\ "end" \notin clipped.flags
                     THEN "update" ELSE @]

\* enqueue_materialization: timestamps from the correlation, and the length.
StampAll(e) ==
    [e EXCEPT
        !.stamps = [start   |-> e.start,
                    current |-> e.current,
                    end     |-> IF "end" \in e.flags THEN e.end ELSE 0,
                    trigger |-> IF "trigger" \in e.flags THEN e.trigger ELSE 0],
        !.duration = (IF "end" \in e.flags THEN e.end ELSE e.current) - e.start]

Clip(e, first, last) ==
    StampAll(ClipLifecycle(e, ClipAnchors(e, first, last), first, last))

EventLast(e) ==
    IF "end" \in e.flags THEN e.end
    ELSE IF "current" \in e.flags THEN e.current
    ELSE e.start

\* enqueue_materialization: what the file says of its events and neighbours.
CaptureLineage(s, events) ==
    (IF s.previous THEN {[relation |-> "previous", capture |-> "earlier", event |-> "none",
                          first |-> s.first, last |-> s.last]} ELSE {})
    \cup {[relation |-> "event", capture |-> "capture", event |-> e.id,
           first |-> e.start, last |-> EventLast(e)] : e \in events}

\* AsyncWriter::materialize builds the document of the session.
Materialised(s) ==
    LET samples == Decimate(s.first, s.last, s.divisor)
        events  == {Clip(e, s.first, s.last) : e \in s.events}
    IN  [kind     |-> "file",
         uuid     |-> <<"capture">>,
         segments |-> <<[frame |-> 0, frames |-> Len(samples), first |-> s.first,
                         step |-> s.divisor, divisor |-> s.divisor,
                         source |-> s.last - s.first + 1, flags |-> {}]>>,
         events   |-> events,
         quality  |-> IF s.locked THEN {}
                      ELSE {[frame |-> 0, frames |-> Len(samples),
                             first |-> s.first, last |-> s.last]},
         lineage  |-> CaptureLineage(s, events),
         samples  |-> samples]

-----------------------------------------------------------------------------
(* The reader.                                                              *)

SegmentLast(seg) == seg.first + seg.source - 1

\* MncwfV4Reader: frames are contiguous, groups match the source count, and
\* gaps and rate changes are declared exactly where they are.
TimebaseAccepted(segments) ==
    /\ Len(segments) > 0
    /\ \A i \in 1 .. Len(segments) :
        LET seg == segments[i] IN
        /\ seg.frames > 0 /\ seg.step = seg.divisor
        /\ seg.source \in (seg.frames - 1) * seg.divisor + 1 .. seg.frames * seg.divisor
        /\ i = 1 => seg.frame = 0 /\ seg.flags = {}
        /\ i > 1 =>
            LET before == segments[i - 1] IN
            /\ seg.frame = before.frame + before.frames
            /\ IF "gap" \in seg.flags THEN seg.first > SegmentLast(before) + 1
                                      ELSE seg.first = SegmentLast(before) + 1
            /\ ("rate" \in seg.flags) = (before.divisor # seg.divisor)

\* MncwfV4Reader: the anchors of an event are ordered, and its lifecycle has
\* the anchor it needs.
EventAccepted(e) ==
    /\ "current" \in e.flags => e.current >= e.start
    /\ "end" \in e.flags => /\ e.end >= e.start
                            /\ "current" \in e.flags => e.end >= e.current
    /\ e.life = "update" => "current" \in e.flags
    /\ e.life \in Terminal => "end" \in e.flags

SequenceStored(segments, seq) ==
    \E i \in 1 .. Len(segments) : seq \in segments[i].first .. SegmentLast(segments[i])

\* MncwfV4Reader: every valid anchor lies in a stored segment.
AnchorsAccepted(e, segments) ==
    /\ SequenceStored(segments, e.start)
    /\ \A anchor \in {"current", "end", "trigger"} :
        anchor \in e.flags => SequenceStored(segments, e[anchor])

QualityAccepted(q, frames) ==
    /\ q.first <= q.last
    /\ q.frame <= frames /\ q.frames <= frames - q.frame

\* MncwfV4Reader, the rules that relate the sections.
Accepted(file) ==
    LET lastSegment == file.segments[Len(file.segments)] IN
    /\ TimebaseAccepted(file.segments)
    /\ lastSegment.frame + lastSegment.frames = Len(file.samples)
    /\ \A e \in file.events : EventAccepted(e) /\ AnchorsAccepted(e, file.segments)
    /\ \A e, f \in file.events : e.id = f.id => e = f
    /\ \A q \in file.quality : QualityAccepted(q, Len(file.samples))
    /\ \A l \in file.lineage : l.first <= l.last

-----------------------------------------------------------------------------
(* The event slice.                                                         *)

\* The frames of one segment that the interval touches, as a set of absolute
\* frame numbers.
\* A variant that rounds the last frame down to a whole group.
TouchedFramesShort(seg, first, last) ==
    IF last < seg.first \/ first > SegmentLast(seg) THEN {}
    ELSE LET lo == IF first <= seg.first THEN 0 ELSE (first - seg.first) \div seg.divisor
             hi == IF last >= SegmentLast(seg) THEN seg.frames - 1
                   ELSE (last - seg.first + 1) \div seg.divisor - 1
         IN  {seg.frame + k : k \in lo .. Higher(lo, hi)}

TouchedFrames(seg, first, last) ==
    IF last < seg.first \/ first > SegmentLast(seg) THEN {}
    ELSE LET lo == IF first <= seg.first THEN 0 ELSE (first - seg.first) \div seg.divisor
             hi == IF last >= SegmentLast(seg) THEN seg.frames - 1
                   ELSE (last - seg.first) \div seg.divisor
         IN  {seg.frame + k : k \in lo .. hi}

CutSegment(seg, from, to) ==
    LET begin == Higher(seg.frame, from)
        stop  == Lower(seg.frame + seg.frames, to)
        first == seg.first + (begin - seg.frame) * seg.divisor
        end   == Lower(seg.first + seg.source, seg.first + (stop - seg.frame) * seg.divisor)
    IN  [seg EXCEPT
            !.frame = begin - from,
            !.frames = stop - begin,
            !.first = first,
            !.source = end - first]

CutTimebase(segments, from, to) ==
    LET Within(seg) == seg.frame < to /\ seg.frame + seg.frames > from
        kept == SelectSeq(segments, Within)
    IN  [i \in 1 .. Len(kept) |->
            IF i = 1 THEN [CutSegment(kept[i], from, to) EXCEPT !.flags = {}]
                     ELSE CutSegment(kept[i], from, to)]

CutEvent(e, first, last) ==
    LET start == Clamp(e.start, first, last)
        current == IF "current" \in e.flags THEN Higher(start, Clamp(e.current, first, last))
                                            ELSE e.current
        endCut == "end" \in e.flags /\ e.end > last
        trigCut == "trigger" \in e.flags /\ e.trigger \notin first .. last
        cut == \/ e.start < first
               \/ "current" \in e.flags /\ e.current > last
               \/ endCut
        flags == (e.flags \ ((IF endCut THEN {"end"} ELSE {})
                                \cup (IF trigCut THEN {"trigger"} ELSE {})))
                   \cup (IF cut THEN {"discontinuous"} ELSE {})
    IN  [e EXCEPT
            !.start = start, !.current = current,
            !.end = IF endCut THEN 0 ELSE IF "end" \in e.flags
                    THEN Higher(current, Clamp(@, first, last)) ELSE @,
            !.trigger = IF trigCut THEN 0 ELSE @,
            !.flags = flags,
            !.life = IF "end" \notin flags /\ (cut \/ @ \in Terminal) THEN "update" ELSE @]

Restamp(e, source) ==
    LET Stamp(anchor) == IF e[anchor] # source[anchor] THEN e[anchor] ELSE e.stamps[anchor]
    IN  [e EXCEPT
            !.stamps = [anchor \in {"start", "current", "end", "trigger"} |->
                            IF anchor = "start" \/ anchor \in e.flags THEN Stamp(anchor) ELSE 0],
            !.duration = EventLast(e) - e.start]

\* The acquisition sequences a stored frame stands for.
FrameBounds(segments, frame) ==
    LET i == CHOOSE j \in 1 .. Len(segments) :
                frame \in segments[j].frame .. segments[j].frame + segments[j].frames - 1
        first == segments[i].first + (frame - segments[i].frame) * segments[i].divisor
    IN  <<first, Lower(SegmentLast(segments[i]), first + segments[i].divisor - 1)>>

CutQuality(file, from, to) ==
    LET Cut(q) ==
            [q EXCEPT
                !.frame = Higher(q.frame, from) - from,
                !.frames = Lower(q.frame + q.frames, to) - Higher(q.frame, from),
                !.first = Higher(@, FrameBounds(file.segments, Higher(q.frame, from))[1]),
                !.last = Lower(@, FrameBounds(file.segments,
                                              Lower(q.frame + q.frames, to) - 1)[2])]
        kept == {q \in file.quality :
                    q.frames > 0 /\ Higher(q.frame, from) < Lower(q.frame + q.frames, to)}
    IN  {c \in {Cut(q) : q \in kept} : c.first <= c.last}

\* The lineage of the slice: the neighbours it still touches, its parent, the
\* selection and the events it holds.
CutLineage(file, chosen, uuid, events, first, last) ==
    {[l EXCEPT !.first = Higher(@, first), !.last = Lower(@, last)] :
        l \in {k \in file.lineage :
                k.relation # "event" /\ k.last >= first /\ k.first <= last}}
    \cup {[relation |-> "parent", capture |-> file.uuid, event |-> "none",
           first |-> first, last |-> last],
          [relation |-> "virtual_slice", capture |-> file.uuid, event |-> chosen.id,
           first |-> first, last |-> last]}
    \cup {[relation |-> "event", capture |-> uuid, event |-> e.id,
           first |-> e.start, last |-> EventLast(e)] : e \in events}

\* The frames an event selects: from the first touched frame up to, not
\* including, the second number.
SelectedFrames(file, e) ==
    LET touched == UNION {TouchedFrames(file.segments[i], e.start, EventLast(e)) :
                            i \in 1 .. Len(file.segments)}
    IN  <<CHOOSE f \in touched : \A g \in touched : f <= g,
          (CHOOSE f \in touched : \A g \in touched : f >= g) + 1>>

\* make_mncwf_v4_event_selection with the samples the slice takes.
Sliced(file, chosen) ==
    LET range  == SelectedFrames(file, chosen)
        from   == range[1]
        to     == range[2]
        base   == CutTimebase(file.segments, from, to)
        first  == base[1].first
        last   == SegmentLast(base[Len(base)])
        uuid   == <<file.uuid, chosen.id, from, to - from>>
        events == {Restamp(CutEvent(e, first, last), e) :
                    e \in {f \in file.events : EventLast(f) >= first /\ f.start <= last}}
    IN  [kind     |-> "file",
         uuid     |-> uuid,
         segments |-> base,
         events   |-> events,
         quality  |-> CutQuality(file, from, to),
         lineage  |-> CutLineage(file, chosen, uuid, events, first, last),
         samples  |-> SubSeq(file.samples, from + 1, to)]

-----------------------------------------------------------------------------

Sessions ==
    {[kind |-> "session", first |-> w[1], last |-> w[2], divisor |-> d,
      events |-> es, locked |-> k, previous |-> k] :
        w \in Windows, d \in Divisors, es \in Stored, k \in BOOLEAN}

Init ==
    /\ slice = NoFile
    /\ \/ master = NoFile /\ session \in Sessions
       \/ master \in Foreign /\ session = NoFile

\* The background writer turns the session into the archived file.
Materialise ==
    /\ session # NoFile /\ master = NoFile
    /\ master' = Materialised(session)
    /\ UNCHANGED <<slice, session>>

\* A client asks for the slice of one event of the archived file.
Slice ==
    /\ master # NoFile /\ slice = NoFile
    /\ \E chosen \in master.events : slice' = Sliced(master, chosen)
    /\ UNCHANGED <<master, session>>

Next == Materialise \/ Slice

Spec == Init /\ [][Next]_vars

-----------------------------------------------------------------------------
(* Properties.                                                              *)

Mean(file, k) == file.samples[k]

\* Every capture the writer describes is one the reader accepts, whatever
\* events the session collected around its window: an event that started
\* before it, is still running, or ended after it never costs the capture.
EveryCaptureReads == master # NoFile => Accepted(master)

\* Every slice is one the reader accepts, though nothing reads it back before
\* it is streamed: timebase, anchors, lifecycles, quality and lineage agree.
EverySliceReads == slice # NoFile => Accepted(slice)

\* The slice of an event holds exactly the stored frames whose group of
\* acquisition frames meets the event's interval, in order, and says of each
\* the sequences the master says of it.
SliceIsTheEvent ==
    slice # NoFile =>
        LET chosen == CHOOSE e \in master.events : e.id = slice.uuid[2]
            from   == slice.uuid[3]
            Meets(f) == /\ FrameBounds(master.segments, f)[1] <= EventLast(chosen)
                        /\ FrameBounds(master.segments, f)[2] >= chosen.start
        IN  \A f \in 0 .. Len(master.samples) - 1 :
                /\ Meets(f) <=> f \in from .. from + Len(slice.samples) - 1
                /\ Meets(f) => /\ slice.samples[f - from + 1] = master.samples[f + 1]
                               /\ FrameBounds(slice.segments, f - from)
                                    = FrameBounds(master.segments, f)

\* A stored frame is the mean of the acquisition frames its timebase says it
\* stands for, and together they stand for each captured frame once.
FramesStandForSamples ==
    \A file \in {master, slice} \ {NoFile} :
        \A k \in 1 .. Len(file.samples) : Mean(file, k) = FrameBounds(file.segments, k - 1)

\* The selected event is in its slice, every event that meets the slice is
\* kept, and an event the cut shortened at the end is marked discontinuous
\* and no longer claims to have ended.
MarkersSurvive ==
    slice # NoFile =>
        LET first == slice.segments[1].first
            last  == SegmentLast(slice.segments[Len(slice.segments)])
        IN  /\ \E e \in slice.events : e.id = slice.uuid[2]
            /\ \A e \in master.events :
                (EventLast(e) >= first /\ e.start <= last) =>
                    \E c \in slice.events :
                        /\ c.id = e.id
                        /\ c.start = Clamp(e.start, first, last)
                        /\ EventLast(c) = Clamp(EventLast(e), first, last)
                        /\ (e.start < first \/ EventLast(e) > last)
                                => "discontinuous" \in c.flags
                        /\ EventLast(e) > last => c.life = "update"

\* Each valid anchor of each event carries the time of the sequence it names,
\* in the master and in the slice, where clipping may have moved it.
StampsFollowAnchors ==
    \A file \in {master, slice} \ {NoFile} :
        \A e \in file.events :
            /\ \A anchor \in {"start", "current", "end", "trigger"} :
                (anchor = "start" \/ anchor \in e.flags) => e.stamps[anchor] = e[anchor]
            /\ e.duration = EventLast(e) - e.start

\* A frame the master declares uncertain is declared uncertain in the slice,
\* and no other frame is.
QualityFollowsFrames ==
    slice # NoFile =>
        LET from == slice.uuid[3]
            Marked(file, f) == \E q \in file.quality : f \in q.frame .. q.frame + q.frames - 1
        IN  \A f \in 0 .. Len(slice.samples) - 1 :
                Marked(slice, f) <=> Marked(master, from + f)
=============================================================================
