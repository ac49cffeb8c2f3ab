------------------------------- MODULE MCCodecs -------------------------------
(***************************************************************************)
(* Instances of the conversions: the decoders of the records of the         *)
(* programmable logic and the grading of their readings, the snapshots      *)
(* consumers are given, and the MNCWF files with their event slices.  They  *)
(* share no variable but the record in hand: a behaviour exercises the one  *)
(* that `part' names.                                                       *)
(***************************************************************************)
EXTENDS MeterSnapshot, Integers, TLC

CONSTANT Parts   \* the conversions this instance exercises

VARIABLES part,
          \* the decoders and ReadingQuality
          record, truth, update, grades,
          \* MncwfSlice
          master, slice, session,
          \* MncwfLayout
          archived, cut, fetched

-----------------------------------------------------------------------------
\* Snapshots: everything, everything and more, single groups, a repeated key,
\* an indexed key beside its scalar, an unknown identity.
Keys(ids) == [i \in DOMAIN ids |-> Key(ids[i])]
Indexed(id) == [id |-> id, index |-> 5]
MCSelections ==
  {<<>>, Keys(Catalog), Keys(Catalog \o <<40, 3, 40>>),
   Keys(AttributesIn("PhaseAngle")), Keys(<<75, 200>>), Keys(<<8, 8, 2, 8>>),
   Keys(<<1>>) \o <<Indexed(1)>>, <<Indexed(79)>> \o Keys(<<79>>)}

-----------------------------------------------------------------------------
\* Ten-second frequency records of twelve samples.  The crossings vary on a
\* good source; the flags vary one at a time on a good geometry.
Sound == {"aligned", "synchronized", "rate", "filter", "reference", "calibration", "profile"}
Good == [nominal |-> 50, first |-> 1, span |-> 12, utc |-> 3, sequence |-> 2, drops |-> 0,
         source |-> Sound, certified |-> TRUE, uncertain |-> FALSE, rate |-> 24,
         observed |-> 4, included |-> 4, rejected |-> 0, firstCrossing |-> 2,
         lastCrossing |-> 42, gap |-> FALSE]
Geometries ==
  {[Good EXCEPT !.nominal = n, !.rate = r, !.included = i, !.firstCrossing = f,
                !.lastCrossing = l] :
     n \in {50, 60}, r \in {22, 24, 29}, i \in 0 .. 4, f \in {0, 2}, l \in {30, 42, 48}}
Flags ==
  {[Good EXCEPT !.source = (@ \ {b}) \cup ({b} \ @)] :
     b \in Sound \cup {"discontinuity", "overflow", "drop", "resynchronized"}}
  \cup {[Good EXCEPT !.certified = FALSE], [Good EXCEPT !.uncertain = TRUE],
        [Good EXCEPT !.drops = 2], [Good EXCEPT !.rejected = 1], [Good EXCEPT !.gap = TRUE],
        [Good EXCEPT !.utc = 5], [Good EXCEPT !.first = 9, !.sequence = 0]}

-----------------------------------------------------------------------------
\* Power-quality, flicker and mains-signalling records.  Events of one sample,
\* of some and of more than a word can count; flicker intervals measured on
\* all, some or no phases; signals below, at and above the threshold.
Common == [reserved |-> FALSE, sequence |-> 3, generation |-> 2, profile |-> 2,
           lanes |-> {}, count |-> 0]
Lengths == [live |-> 1, pst |-> 2, plt |-> 4]

PqEvents ==
  {Common @@
     [kind |-> "event", type |-> t, phases |-> ph, first |-> 5, last |-> 5 + d,
      trigger |-> 5 + (d \div 2), duration |-> 0, iec |-> FALSE, id |-> 1, updates |-> 1,
      reference |-> 5, threshold |-> 3, hysteresis |-> 1, decimation |-> 2, window |-> 8,
      discontinuities |-> n, resultDrops |-> 0, minimum |-> [p \in 0 .. 2 |-> p],
      current |-> [p \in 0 .. 2 |-> 2], maximum |-> [p \in 0 .. 2 |-> p + 2],
      quality |-> q, startUtc |-> IF q = "unsynchronized" THEN 0 ELSE 4,
      lastUtc |-> IF q = "unsynchronized" THEN 0 ELSE 4 + d] :
     t \in {"sag", "voltage_unbalance", "current_swell"}, ph \in {{0}, {0, 2}},
     d \in {0, 8, 9, 12}, n \in {0, 1}, q \in {"unsynchronized", "holdover"}}

Flickers ==
  {Common @@
     [kind |-> k, rate |-> r, first |-> 7, last |-> 0, intervalFirst |-> 0, seconds |-> 0,
      phases |-> {}, valid |-> [p \in 0 .. 2 |-> IF p \in whole THEN Lengths[k] * 2 ELSE 1],
      settling |-> k = "live", pst |-> IF k = "live" THEN 0 ELSE 6,
      plt |-> IF k = "plt" THEN 6 ELSE 0] :
     k \in DOMAIN Lengths, r \in {2, 4}, whole \in {{}, {1}, 0 .. 2}}

Mains ==
  {Common @@
     [kind |-> "mains", rate |-> r, first |-> 7, last |-> 0, phases |-> ph, detected |-> {},
      dominant |-> FALSE, configured |-> 20, bandwidth |-> 4, measured |-> 18,
      reference |-> 7, threshold |-> th, magnitude |-> (0 :> m @@ 1 :> 2 @@ 2 :> 1),
      background |-> (0 :> 1 @@ 1 :> 1 @@ 2 :> 2), error |-> e, sourceError |-> e,
      gap |-> e, sourceGap |-> FALSE] :
     r \in {10, 20}, ph \in {{}, {0, 1}, 0 .. 2}, th \in {0, 3, 4}, m \in {2, 3},
     e \in BOOLEAN}

\* The interval records come next to the end of the 64-bit counter and to the
\* wrap of the 32-bit one.
Decoders == INSTANCE RecordDecode WITH
              \* interval records
              Modulus <- 64, CounterMax <- 100, BlocksPerAggregate <- 3,
              IntervalsPerTwoHours <- 2, BlockSamples <- 4, Starts <- {1, 5, 88, 92, 96},
              IntervalDamage <- {0, 1, 2, 7, 10, 12, 36, 50, 60, 63, 99, 100},
              \* the ten-second frequency
              Q <- 4, FrequencyMilli <- 4, Seconds <- 2, MaxCrossings <- 6, UtcMax <- 7,
              Admitted <- (50 :> 6 .. 8 @@ 60 :> 7 .. 10),
              FrequencyEmissions <- Geometries \cup Flags,
              FrequencyDamage <- {-1, 0, 1, 2, 3, 4, 7, 12, 24, 40, 50, 60},
              \* events and observations
              WordMax <- 9, Internal <- 2, SecondsOf <- Lengths, Scale <- 10,
              ObservationMilli <- 10, WindowMax <- 8, Fraction <- 5,
              ObservationEmissions <- PqEvents \cup Flickers \cup Mains,
              ObservationDamage <- {0, 1, 2, 3, 4, 5, 7, 8, 10, 17, 20}

-----------------------------------------------------------------------------
\* Grading: masks with every lane, with one lane missing, and with none;
\* status words around the one of a good record of each tier.
GoodStatuses == {{}, {1, 2, 4}, {2, 4}, {2, 4, 5, 6}}

Quality == INSTANCE ReadingQuality WITH
             Masks <- {0 .. 6, {}} \cup {(0 .. 6) \ {lane} : lane \in 0 .. 6},
             Statuses <- GoodStatuses
                         \cup {g \cup {b} : g \in GoodStatuses, b \in {0, 1, 3}}
                         \cup {g \ {b} : g \in GoodStatuses, b \in {2, 6}},
             FlagSets <- {{"reference", "v_ratios", "i_ratios"}, {"i_ratios"}},
             Undefineds <- {{}, {0, 2}},
             ZeroSets <- {{}, {<<"apparent_power", 1>>, <<"fundamental_voltage", 2>>,
                               <<"fundamental_current", 1>>, <<"voltage_sequence", 3>>}},
             Frequencies <- {{}, {"valid"}, {"timed_out"}, {"valid", "timed_out"},
                             {"arithmetic_error", "out_of_range"}}

-----------------------------------------------------------------------------
\* Captures of one power-quality event and sometimes a manual trigger, which
\* is an instant; and files with several timebase segments.
Format == INSTANCE MncwfSlice WITH Windows <- {}, Divisors <- {}, Stored <- {}, Foreign <- {}

NoStamps == [start |-> 0, current |-> 0, end |-> 0, trigger |-> 0]
PowerQuality(id, start, current, trigger, life) ==
  [id |-> id, start |-> start, current |-> current,
   end |-> IF life \in {"end", "abort"} THEN current ELSE 0, trigger |-> trigger, life |-> life,
   flags |-> {"current", "trigger"} \cup (IF life \in {"end", "abort"} THEN {"end"} ELSE {}),
   stamps |-> NoStamps, duration |-> 0]
Manual(id, at) ==
  [id |-> id, start |-> at, current |-> at, end |-> at, trigger |-> at, life |-> "complete",
   flags |-> {"current", "end", "trigger"}, stamps |-> NoStamps, duration |-> 0]

SagOf(trigger) ==
  UNION {{PowerQuality("sag", s, c, trigger, l) : c \in s .. 9,
            l \in {"start", "update", "end", "abort"}} : s \in 1 .. 9}

Slices == INSTANCE MncwfSlice WITH
            Windows <- {<<3, 7>>, <<2, 7>>}, Divisors <- {1, 2, 4}, Foreign <- {},
            Stored <- {{e} : e \in SagOf(9)} \cup {{e, Manual("manual", 6)} : e \in SagOf(4)}

\* A declared gap, a declared change of the divisor, and both, with a short
\* last group before the gap.
Stretch(frame, frames, first, divisor, source, flags) ==
  [frame |-> frame, frames |-> frames, first |-> first, step |-> divisor,
   divisor |-> divisor, source |-> source, flags |-> flags]
Timebases ==
  {<<Stretch(0, 2, 1, 2, 3, {}), Stretch(2, 3, 6, 2, 5, {"gap"})>>,
   <<Stretch(0, 2, 1, 1, 2, {}), Stretch(2, 2, 3, 2, 4, {"rate"}),
     Stretch(4, 2, 8, 1, 2, {"gap", "rate"})>>}

File(base, events, uncertain) ==
  LET n == base[Len(base)].frame + base[Len(base)].frames
  IN  [kind |-> "file", uuid |-> <<"capture">>, segments |-> base, events |-> events,
       quality |-> uncertain, lineage |-> {},
       samples |-> [k \in 1 .. n |-> Format!FrameBounds(base, k - 1)]]

Held(base) == {k \in 1 .. 10 : Format!SequenceStored(base, k)}
ForeignFiles ==
  UNION {{File(base,
               {Format!StampAll(PowerQuality("sag", p[1], p[2], p[1], l)),
                Format!StampAll(PowerQuality("swell", 8, 9, 8, "end"))},
               {[frame |-> 1, frames |-> 2, first |-> Format!FrameBounds(base, 1)[1],
                 last |-> Format!FrameBounds(base, 2)[2]]}) :
            p \in {q \in Held(base) \X Held(base) : q[1] <= q[2]}, l \in {"update", "end"}} :
         base \in Timebases}

Segments == INSTANCE MncwfSlice WITH
              Windows <- {}, Divisors <- {}, Stored <- {}, Foreign <- ForeignFiles

\* The layout with an alignment of four: records and blobs fall on and off it.
Shape(count, item, blob) == [count |-> count, item |-> item, blob |-> blob]

Layout == INSTANCE MncwfLayout WITH
            master <- archived, slice <- cut, Unit <- 4, HeaderBytes <- 5, EntryBytes <- 3,
            EnvelopeBytes <- 3, ChunkEntry <- 3, MaxChunk <- 7, FrameBytes <- 3,
            MaxFrames <- 5, Buffers <- {7, 64},
            Metadata <- {<<Shape(1, 3, 2)>>, <<Shape(0, 4, 0), Shape(2, 4, 3)>>}

-----------------------------------------------------------------------------
decodeVars == <<record, truth, update, grades>>
fileVars == <<master, slice, session>>
layoutVars == <<archived, cut, fetched>>
codecVars == <<part, vars, decodeVars, fileVars, layoutVars>>

CodecInit ==
  /\ part \in Parts /\ Init /\ Layout!Init
  /\ part # "snapshots" => period = "Basic"
  /\ CASE part = "intervals" -> Decoders!IntervalInit /\ grades = <<>>
       [] part = "frequencies" -> Decoders!FrequencyInit /\ grades = <<>>
       [] part = "events" -> Decoders!ObservationInit /\ grades = <<>>
       [] OTHER -> Quality!Init /\ truth = 0 /\ update = 0
  /\ CASE part = "slices" -> Slices!Init
       [] part = "segments" -> Segments!Init
       [] OTHER -> master = 0 /\ slice = 0 /\ session = 0

DecodeNext ==
  \/ part = "intervals" /\ Decoders!IntervalNext /\ UNCHANGED grades
  \/ part = "frequencies" /\ Decoders!FrequencyNext /\ UNCHANGED grades
  \/ part = "events" /\ Decoders!ObservationNext /\ UNCHANGED grades
  \/ part = "quality" /\ Quality!Next /\ UNCHANGED <<truth, update>>

FileNext ==
  \/ part = "slices" /\ Slices!Next
  \/ part = "segments" /\ Segments!Next

CodecNext ==
  /\ UNCHANGED part
  /\ \/ DecodeNext /\ UNCHANGED <<vars, fileVars, layoutVars>>
     \/ FileNext /\ UNCHANGED <<vars, decodeVars, layoutVars>>
     \/ /\ part = "snapshots" /\ Next
        /\ UNCHANGED <<decodeVars, fileVars, layoutVars>>
     \/ /\ part = "layout" /\ Layout!Next
        /\ UNCHANGED <<vars, decodeVars, fileVars>>

CodecSpec == CodecInit /\ [][CodecNext]_codecVars

-----------------------------------------------------------------------------
\* The decoders: one damaged word moves no accepted record, what they report of
\* a record is what its fields say, and none of the logic's own records is
\* refused (RecordDecode).
RecordsAreTrue ==
  /\ [](part = "intervals" =>
          /\ Decoders!DamageCannotMove
          /\ Decoders!TimingIsTrue /\ Decoders!AcceptedIsInterval
          /\ Decoders!SourcesAreCounted /\ Decoders!BoundaryIsHonest)
  /\ [](part = "frequencies" =>
          /\ Decoders!FrequencyOneWordCannotMove
          /\ Decoders!ValidIsEarned /\ Decoders!ValueIsNearest
          /\ Decoders!SynchronizedIsEarned)
  /\ [](part = "events" =>
          /\ Decoders!ObservationOneWordCannotMove /\ Decoders!DetectionIsExact
          /\ Decoders!WholeIntervalOnly /\ Decoders!CountSaturates)
  /\ [][/\ part = "intervals" => Decoders!IntervalRefusesOnlyDamaged
        /\ part = "frequencies" => Decoders!FrequencyRefusesOnlyDamaged
        /\ part = "events" => Decoders!ObservationRefusesOnlyDamaged]_codecVars

\* The grading: a valid reading was measured, an undefined or saturated one is
\* never valid, and a damaged record never passes in silence (ReadingQuality).
GradesAreSound ==
  part = "quality" =>
    /\ Quality!ValidIsMeasured /\ Quality!UndefinedIsNotValid
    /\ Quality!SaturatedIsNeverValid /\ Quality!GarbageIsNotSilent

\* The slices: the slice of an event holds its frames and no others, the reader
\* accepts it, markers, stamps and quality move with the frames (MncwfSlice);
\* writer and reader agree on the layout, the bytes of a slice decode to its
\* frames with whole chunks reused, and a client that fetches it in ranges makes
\* progress and reassembles it (MncwfLayout).
SlicesAreReadable ==
  /\ part = "slices" =>
       /\ Slices!EveryCaptureReads /\ Slices!EverySliceReads
       /\ Slices!SliceIsTheEvent /\ Slices!FramesStandForSamples
       /\ Slices!MarkersSurvive /\ Slices!StampsFollowAnchors
  /\ part = "segments" =>
       /\ Segments!EverySliceReads /\ Segments!SliceIsTheEvent
       /\ Segments!MarkersSurvive /\ Segments!QualityFollowsFrames
  /\ part = "layout" =>
       /\ Layout!LayoutsAgree /\ Layout!SliceDecodes /\ Layout!WholeChunksReused
       /\ Layout!FetchesReassemble /\ Layout!FetchesProgress
===============================================================================
