--------------------------- MODULE RecordIngestor ---------------------------
(***************************************************************************)
(* The acquisition daemon's record ingest: record_ingestor.cpp.             *)
(*                                                                          *)
(* The programmable logic interleaves record streams with independent       *)
(* sequence counters on one DMA ring.  The ingestor checks each record      *)
(* against the active configuration, tracks the continuity of its stream,   *)
(* decodes it, publishes it to the durable stream and only then advances    *)
(* the baseline and the view.  Records may be lost in the ring or    *)
(* arrive damaged; a failed publication ends the process.                   *)
(*                                                                          *)
(* The streams fall into the classes the code treats differently: Basic     *)
(* (sequence and sample range), Tracked (aggregate, ten-minute, two-hour    *)
(* and ten-second frequency), Events (PQ lifecycle, flicker and mains       *)
(* signalling: decoded before the sequence is looked at) and Siblings       *)
(* (records that share another stream's sequence, demand and previews).     *)
(***************************************************************************)
EXTENDS Integers, Sequences, FiniteSetsExt

CONSTANTS Basic, Tracked, Events, Siblings,
          SeqMod,        \* sequence words count modulo 2^32
          FirstSeq,      \* the sequence word of record 0
          Flaws,         \* "none" and damage: "header", "sequence", "decode"
          Jumps,         \* lost (> 0) or repeated (< 0) samples at a block
          RingSize,      \* bound: records in the kernel ring
          MaxProduced,   \* bound: records per generation
          MaxEpochs      \* bound: capture starts

Streams == Basic \cup Tracked \cup Events \cup Siblings

VARIABLES running,     \* the acquisition process runs
          generation,  \* configuration_.wire.generation
          plGeneration,\* generation the programmable logic works with
          produced,    \* records produced in this generation, per stream
          sample,      \* next sample of the conversion counter
          ring,        \* records waiting in the kernel ring
          baseline,    \* newest accepted record of each stream, or NoRecord
          gaps,        \* the sequence-gap counter of each stream
          invalid,     \* invalid_records_
          view,        \* latest values shown for each stream, or NoRecord
          stream,      \* durable: published records, in order
          segment,     \* accepted since the baselines were cleared
          segmentGaps  \* value of gaps when the segment began

vars == <<running, generation, plGeneration, produced, sample, ring, baseline,
          gaps, invalid, view, stream, segment, segmentGaps>>

BlockSamples == 2
NoRecord == [n |-> -1]
Half == SeqMod \div 2

\* The distance of uint32 sequence words.
Distance(a, b) == (a - b) % SeqMod

-----------------------------------------------------------------------------
(* The producers (external).                                                *)

\* One record of stream s: damaged or not, lost in the ring or queued.
Emit(s) ==
    /\ MapThenSumSet(LAMBDA t : produced[t], Streams) < MaxProduced
    /\ produced' = [produced EXCEPT ![s] = @ + 1]
    /\ \E flaw \in Flaws, jump \in Jumps, lost \in BOOLEAN :
         LET first == sample + jump
             seq == (FirstSeq + produced[s]) % SeqMod
             r == [stream |-> s, n |-> produced[s], gen |-> plGeneration,
                   seq |-> IF flaw = "sequence" THEN 0 ELSE seq,
                   first |-> first, resync |-> jump < 0, flaw |-> flaw]
         IN  /\ s \notin Basic => jump = 0
             /\ first >= 0 /\ (jump < 0 => sample > 0)
             /\ sample' = IF s \in Basic THEN first + BlockSamples ELSE sample
             /\ IF lost THEN UNCHANGED ring
                ELSE Len(ring) < RingSize /\ ring' = Append(ring, r)
    /\ UNCHANGED <<running, generation, plGeneration, baseline, gaps, invalid,
                   view, stream, segment, segmentGaps>>

\* The coordinator has configured the logic; its sequences start again.
ConfigureLogic ==
    /\ plGeneration # generation
    /\ plGeneration' = generation
    /\ produced' = [s \in Streams |-> 0]
    /\ UNCHANGED <<running, generation, sample, ring, baseline, gaps, invalid,
                   view, stream, segment, segmentGaps>>

-----------------------------------------------------------------------------
(* Continuity.                                                              *)

Expected(s) == (baseline[s].seq + 1) % SeqMod

\* Records missing before r according to the sequence words.
Missing(r) == IF baseline[r.stream] = NoRecord THEN 0
              ELSE Distance(r.seq, Expected(r.stream))

\* Half-range rule: a long forward distance is an old record.
Stale(r) == Missing(r) >= Half

\* A variant that does not look at the samples of consecutive blocks.
NoSampleBreak(r) == FALSE

\* Blocks of consecutive sequences must also follow on in samples, unless a
\* UTC resynchronisation deliberately starts a block inside the last one.
SampleBreak(r) ==
    LET b == baseline[r.stream] IN
    /\ r.stream \in Basic /\ b # NoRecord /\ Missing(r) = 0
    /\ r.first # b.first + BlockSamples
    /\ ~ /\ r.resync
         /\ r.first > b.first /\ r.first < b.first + BlockSamples
         /\ r.first + BlockSamples > b.first + BlockSamples

\* What track_*_continuity adds to the gap counter of the stream.
GapsCounted(r) == Missing(r) + (IF SampleBreak(r) THEN 1 ELSE 0)

MatchesConfiguration(r) == r.flaw # "header" /\ r.gen = generation

Decodes(r) == r.flaw # "decode"

-----------------------------------------------------------------------------
(* accept                                                                   *)

\* Counted as invalid, with the gap k the sequence word revealed.
Reject(r, k) ==
    /\ invalid' = invalid + 1
    /\ gaps' = [gaps EXCEPT ![r.stream] = @ + k]
    /\ UNCHANGED <<running, baseline, view, stream, segment, segmentGaps>>

\* The process dies and its memory with it; a successor starts with
\* StartCapture.
Die == /\ running' = FALSE
       /\ baseline' = [s \in Streams |-> NoRecord]
       /\ view' = [s \in Streams |-> NoRecord]
       /\ gaps' = [s \in Streams |-> 0] /\ invalid' = 0
       /\ segment' = [s \in Streams |-> <<>>]
       /\ segmentGaps' = [s \in Streams |-> 0]
       /\ UNCHANGED stream

\* The durability barrier: publish, then latest view and baseline.  A sibling
\* never becomes a baseline; a DEMAND sibling may be refused by the ledger and
\* is then quarantined.  k is the gap the record revealed.
Publish(r, k) ==
    \/ /\ stream' = Append(stream, r)
       /\ gaps' = [gaps EXCEPT ![r.stream] = @ + k]
       /\ view' = [view EXCEPT ![r.stream] = r]
       /\ baseline' = IF r.stream \in Siblings THEN baseline
                      ELSE [baseline EXCEPT ![r.stream] = r]
       /\ segment' = [segment EXCEPT ![r.stream] = Append(@, r)]
       /\ UNCHANGED <<running, invalid, segmentGaps>>
    \/ r.stream \in Siblings /\ Reject(r, k)
    \/ Die

\* Tracked streams count the gap before the record is decoded.
CountedEarly(r) == IF r.stream \in Siblings \cup Events \/ Stale(r) THEN 0
                   ELSE GapsCounted(r)

\* Event streams count it once the record is known to be good.
CountedAfterDecode(r) == IF r.stream \in Events THEN Missing(r) ELSE 0

\* A record that is damaged or of another configuration.
AcceptForeign(r) == ~MatchesConfiguration(r) /\ Reject(r, 0)

\* Continuity first, then the decoder, then publication.
AcceptTracked(r) ==
    /\ MatchesConfiguration(r) /\ r.stream \notin Events
    /\ IF (r.stream \notin Siblings /\ Stale(r)) \/ ~Decodes(r)
       THEN Reject(r, CountedEarly(r))
       ELSE Publish(r, CountedEarly(r))

\* The decoder first; a stale event record is dropped without a trace.
AcceptEvent(r) ==
    /\ MatchesConfiguration(r) /\ r.stream \in Events
    /\ CASE ~Decodes(r) -> Reject(r, 0)
         [] Decodes(r) /\ Stale(r) ->
              UNCHANGED <<running, gaps, baseline, view, stream, segment,
                          segmentGaps, invalid>>
         [] OTHER -> Publish(r, CountedAfterDecode(r))

\* One record out of the ring.
Accept ==
    /\ running /\ ring # <<>>
    /\ ring' = Tail(ring)
    /\ \/ AcceptForeign(Head(ring))
       \/ AcceptTracked(Head(ring))
       \/ AcceptEvent(Head(ring))
    /\ UNCHANGED <<generation, plGeneration, produced, sample>>

-----------------------------------------------------------------------------
(* Capture starts.                                                          *)

\* begin_epoch and clear_latest forget every baseline.
ClearedBaseline == [s \in Streams |-> NoRecord]

\* The event views are cleared too; the typed meter data stay until the next
\* record of the stream.
ClearedView == [s \in Streams |-> IF s \in Events THEN NoRecord ELSE view[s]]

\* Stopping closes the device; the ring is gone.  clear_latest, and
\* begin_epoch when the capture starts again, under the next configuration.
StartCapture ==
    /\ generation < MaxEpochs
    /\ generation' = generation + 1
    /\ running' = TRUE /\ ring' = <<>>
    /\ baseline' = ClearedBaseline
    /\ view' = ClearedView
    /\ gaps' = [s \in Streams |-> 0] /\ invalid' = 0
    /\ segment' = [s \in Streams |-> <<>>]
    /\ segmentGaps' = [s \in Streams |-> 0]
    /\ UNCHANGED <<plGeneration, produced, sample, stream>>

\* A configuration for a stopped pipeline: clear_latest keeps the counters.
ClearLatest ==
    /\ running /\ generation < MaxEpochs
    /\ generation' = generation + 1
    /\ ring' = <<>>
    /\ baseline' = ClearedBaseline
    /\ view' = ClearedView
    /\ segment' = [s \in Streams |-> <<>>]
    /\ segmentGaps' = gaps
    /\ UNCHANGED <<running, plGeneration, produced, sample, gaps, invalid,
                   stream>>

Init ==
    /\ running = TRUE /\ generation = 1 /\ plGeneration = 1
    /\ produced = [s \in Streams |-> 0] /\ sample = 0 /\ ring = <<>>
    /\ baseline = [s \in Streams |-> NoRecord]
    /\ gaps = [s \in Streams |-> 0] /\ invalid = 0
    /\ view = [s \in Streams |-> NoRecord]
    /\ stream = <<>> /\ segment = [s \in Streams |-> <<>>]
    /\ segmentGaps = [s \in Streams |-> 0]

Next == \/ \E s \in Streams : Emit(s)
        \/ ConfigureLogic \/ Accept \/ StartCapture \/ ClearLatest

Spec == Init /\ [][Next]_vars

-----------------------------------------------------------------------------
(* Properties.                                                              *)

\* Records of the stream between the first and the last accepted one that were
\* not accepted.
Lost(s) == LET g == segment[s] IN
           IF g = <<>> THEN 0 ELSE g[Len(g)].n - g[1].n + 1 - Len(g)

\* The gap counter of an event stream is exact: it counts every record that is
\* missing between accepted ones, lost or rejected, once, and across the wrap
\* of the sequence word; a configuration change is no gap.  That of a tracked
\* stream never misses a lost record but may count one twice: a gap before a
\* record that the decoder rejects is counted again with the next record.
GapsAreCounted ==
    /\ \A s \in Events : gaps[s] - segmentGaps[s] = Lost(s)
    /\ \A s \in Basic \cup Tracked : gaps[s] - segmentGaps[s] >= Lost(s)

\* No gap reported means that the accepted basic blocks follow on without a
\* missing sample; only a UTC resynchronisation may repeat some.
ZeroGapsMeansContinuous ==
    \A s \in Basic : gaps[s] = segmentGaps[s] =>
        \A i \in 1..(Len(segment[s]) - 1) :
            LET a == segment[s][i]
                b == segment[s][i + 1]
            IN  /\ b.n = a.n + 1
                /\ b.first <= a.first + BlockSamples /\ b.first > a.first
                /\ b.first # a.first + BlockSamples => b.resync

\* No value is shown without a committed stream cursor, even when the process
\* dies between the two.
ViewIsPublished ==
    \A s \in Streams : view[s] # NoRecord =>
        \E i \in 1..Len(stream) : stream[i] = view[s]

\* Continuity is measured within one configuration: records that the logic
\* produced under the previous one never become a baseline after a swap.
BaselineIsCurrent ==
    \A s \in Streams : baseline[s] # NoRecord => baseline[s].gen = generation
=============================================================================
