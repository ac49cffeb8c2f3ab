---------------------------- MODULE RecordDecode ----------------------------
(***************************************************************************)
(* The decoders of the records of the programmable logic: the interval     *)
(* records, the ten-second frequency, and the events and observations of   *)
(* power quality (common/msap1/meter/meter_data.cpp).  They run one record *)
(* at a time through the same three variables; each section below is one   *)
(* family of decoders with its own producer.                               *)
(***************************************************************************)
EXTENDS Integers, FiniteSets

CONSTANTS Modulus,               \* number of values of a 32-bit word
          CounterMax,            \* largest value of the 64-bit sample counter
          BlocksPerAggregate,    \* meter::basic_blocks_per_aggregate
          IntervalsPerTwoHours,  \* intervals_per_two_hours
          BlockSamples,          \* samples of a Basic block
          Starts,                \* sample indices at which intervals begin
          IntervalDamage                 \* values a damaged word may take

CONSTANTS Q,             \* fractions of a sample a crossing is measured in
          FrequencyMilli,         \* milli-samples per sample
          Seconds,       \* length of the interval
          Admitted,         \* the frequencies each nominal frequency admits
          MaxCrossings,  \* meter_frequency_10s_max_observed_crossings
          UtcMax,        \* largest signed 64-bit nanosecond
          FrequencyEmissions,     \* measurements the observer makes
          FrequencyDamage         \* values a damaged word may take

CONSTANTS WordMax,     \* largest 32-bit count
          Internal,    \* internal samples of the flicker meter in a second
          SecondsOf,   \* length of a live, Pst and Plt interval
          Scale,       \* units of a relative threshold
          ObservationMilli,       \* millihertz in a hertz
          WindowMax,   \* longest window of a waveform policy
          Fraction,    \* a mains observation lasts this fraction of a second
          ObservationEmissions,   \* what the producers may observe
          ObservationDamage       \* values a damaged word may take

VARIABLES record,  \* the record on its way to its decoder; None when there is none
          truth,   \* what the producer measured (ghost)
          update   \* what the decoder made of it

vars == <<record, truth, update>>

None == [kind |-> "none"]
Nothing == [accepted |-> FALSE]

----------------------------------------------------------------------------
(***************************************************************************)
(* What the decoders of the fundamental records check before they build a  *)
(* MeterUpdate: the interval a Basic, 150/180-cycle, ten-minute, two-hour  *)
(* or live record says it covers (common/msap1/meter/meter_data.cpp).      *)
(*                                                                         *)
(* The producer in the PL is external.  It emits records whose words agree *)
(* with one another; on the way one of their words may be damaged, which   *)
(* is the fault the decoders defend against.  The 32-bit and the 64-bit    *)
(* counters of the records are scaled down to Modulus and CounterMax, the  *)
(* 15 blocks of an aggregate and the 12 intervals of two hours to          *)
(* BlocksPerAggregate and IntervalsPerTwoHours.                            *)
(***************************************************************************)

Tiers == {"Basic", "Cycles150_180", "Min10", "Hour2", "Min10Live", "Hour2Live"}
Live == {"Min10Live", "Hour2Live"}

(* Bits of the status word.                                                *)
Complete == 1
TimeAligned == 2
UtcOverlap == 3      \* of a 150/180-cycle record
UtcResynchronized == 4
BoundaryValid == 4   \* of the longer tiers
OpenInterval == 5
NonNormative == 6

Fields == {"nominal", "cycles", "count", "first", "last", "blocks",
           "firstSequence", "lastSequence", "target", "overshoot"}

IntervalTypeOK ==
    /\ record = None \/ record.tier \in Tiers
    /\ update \in {Nothing} \cup [accepted : {TRUE},
                                  timing : [first : 1 .. CounterMax, last : 1 .. CounterMax]]
    /\ truth # None => truth.first \in 1 .. CounterMax /\ truth.last \in 1 .. CounterMax

IntervalInit == record = None /\ truth = None /\ update = Nothing

----------------------------------------------------------------------------
CyclesPerBlock(nominal) == IF nominal = 50 THEN 10 ELSE 12

(* The producer closes an interval of n blocks (of n ten-minute intervals  *)
(* for two hours) that begins at sample first and at source sequence s.    *)
(* A UTC-overlap aggregate sums d samples twice.                           *)
IntervalEmit(tier, nominal, n, first, s, d, locked) ==
    /\ record = None
    /\ LET count == n * BlockSamples
           last == first + count - 1 - d
           over == IF tier \in Live THEN 0 ELSE d IN
       /\ first + count <= CounterMax
       /\ d > 0 => tier # "Basic"
       /\ record' =
            [tier |-> tier, nominal |-> nominal, locked |-> locked,
             cycles |-> IF locked \/ tier # "Basic" THEN n * CyclesPerBlock(nominal) ELSE 0,
             count |-> count, first |-> first,
             last |-> IF tier = "Cycles150_180" THEN last ELSE last + d,
             blocks |-> n, firstSequence |-> s,
             lastSequence |-> (s + n - 1) % Modulus,
             target |-> IF tier \in Live THEN last + d + 1 ELSE last,
             overshoot |-> over,
             status |-> CASE tier = "Basic" -> {}
                          [] tier = "Cycles150_180" ->
                                {Complete} \cup (IF d > 0 THEN {UtcOverlap} ELSE {})
                          [] tier \in {"Min10", "Hour2"} ->
                                {Complete, TimeAligned, BoundaryValid}
                          [] OTHER -> {TimeAligned, BoundaryValid, OpenInterval, NonNormative}]
       /\ truth' = [tier |-> tier, first |-> first,
                    last |-> IF tier = "Cycles150_180" THEN last ELSE last + d,
                    damaged |-> FALSE]
       /\ UNCHANGED update

EmitSome ==
    \E nominal \in {50, 60}, first \in Starts, s \in {0, 1, Modulus - 1}, d \in 0 .. 1 :
       \/ \E locked \in BOOLEAN : IntervalEmit("Basic", nominal, 1, first, s, 0, locked)
       \/ IntervalEmit("Cycles150_180", nominal, BlocksPerAggregate, first, s, d, TRUE)
       \/ \E n \in 1 .. 2, tier \in {"Min10"} \cup Live : IntervalEmit(tier, nominal, n, first, s, d, TRUE)
       \/ IntervalEmit("Hour2", nominal, IntervalsPerTwoHours, first, s, d, TRUE)

(* One word of the record, or one bit of its status, is damaged.  The      *)
(* sample indices are the 64-bit ones.                                     *)
IntervalCorrupt ==
    /\ record # None /\ ~truth.damaged /\ ~update.accepted
    /\ \/ \E f \in Fields, v \in IntervalDamage :
             /\ f \notin {"first", "last", "target"} => v < Modulus
             /\ record' = [record EXCEPT ![f] = v]
       \/ \E bit \in 1 .. 6 :
             record' = [record EXCEPT !.status = (@ \ {bit}) \cup ({bit} \ @)]
    /\ truth' = [truth EXCEPT !.damaged = TRUE]
    /\ UNCHANGED update

----------------------------------------------------------------------------

(* decode_periodic_meter_record.                                           *)
PeriodicAccepted(r) ==
    /\ r.nominal \in {50, 60}
    /\ r.count # 0
    /\ r.first # 0
    /\ r.first <= CounterMax - r.count
    /\ r.locked => r.cycles = CyclesPerBlock(r.nominal)

(* The modular distance from the first to the last source sequence.        *)
Span(r) == (r.lastSequence - r.firstSequence) % Modulus

(* decode_aggregate_meter_record.                                          *)
AggregateAccepted(r) ==
    /\ Complete \in r.status
    /\ r.nominal \in {50, 60}
    /\ r.blocks = BlocksPerAggregate
    /\ r.cycles = BlocksPerAggregate * CyclesPerBlock(r.nominal)
    /\ Span(r) = BlocksPerAggregate - 1
    /\ r.count # 0
    /\ r.first # 0
    /\ r.first <= CounterMax - r.count
    /\ ~ ({UtcOverlap, UtcResynchronized} \subseteq r.status)
    /\ LET expected == r.first + r.count - 1 IN
       IF UtcOverlap \in r.status
       THEN r.last \in r.first .. expected
       ELSE r.last = expected

(* What the ten-minute, the two-hour and the open decoder share: a source  *)
(* range of as many steps as the composition says and a sample range that  *)
(* ends where the record says.                                             *)
SourceRange(r, blocks) ==
    /\ r.blocks # 0 /\ r.cycles # 0
    /\ Span(r) = (blocks - 1) % Modulus
    /\ r.count # 0 /\ r.first # 0
    /\ r.first <= CounterMax - (r.count - 1)
    /\ r.last = r.first + r.count - 1

(* The interval ends where its UTC boundary was crossed.                   *)
Boundary(r) ==
    /\ r.target <= r.last
    /\ r.last - r.target < Modulus
    /\ r.overshoot = r.last - r.target

(* decode_ten_minute_meter_record.                                         *)
TenMinuteAccepted(r) ==
    /\ Complete \in r.status
    /\ r.nominal \in {50, 60}
    /\ SourceRange(r, r.blocks)
    /\ r.cycles = r.blocks * CyclesPerBlock(r.nominal)
    /\ Boundary(r)

(* decode_two_hour_meter_record.                                           *)
TwoHourAccepted(r) ==
    /\ Complete \in r.status
    /\ r.nominal \in {50, 60}
    /\ r.blocks = IntervalsPerTwoHours
    /\ SourceRange(r, IntervalsPerTwoHours)
    /\ Boundary(r)

(* decode_open_interval_meter_record.                                      *)
OpenAccepted(r) ==
    /\ Complete \notin r.status /\ {OpenInterval, NonNormative} \subseteq r.status
    /\ r.nominal \in {50, 60}
    /\ SourceRange(r, r.blocks)
    /\ r.target >= r.last /\ r.overshoot = 0

IntervalAccepted(r) ==
    CASE r.tier = "Basic" -> PeriodicAccepted(r)
      [] r.tier = "Cycles150_180" -> AggregateAccepted(r)
      [] r.tier = "Min10" -> TenMinuteAccepted(r)
      [] r.tier = "Hour2" -> TwoHourAccepted(r)
      [] r.tier \in Live -> OpenAccepted(r)

(* The BlockTiming of a Basic update.                                      *)
BlockTiming(r) == [first |-> r.first, last |-> r.first + r.count - 1]

(* The AggregateTiming of the other ones.                                  *)
AggregateTiming(r) == [first |-> r.first, last |-> r.last]

(* MeterDecoderRegistry::decode: the decoder throws, or builds the timing. *)
IntervalDecode ==
    /\ record # None /\ ~update.accepted
    /\ IF IntervalAccepted(record)
       THEN /\ update' = [accepted |-> TRUE,
                          timing |-> IF record.tier = "Basic" THEN BlockTiming(record)
                                     ELSE AggregateTiming(record)]
            /\ UNCHANGED <<record, truth>>
       ELSE record' = None /\ truth' = None /\ UNCHANGED update

(* The update has been applied.                                            *)
IntervalDone ==
    /\ update.accepted
    /\ record' = None /\ truth' = None /\ update' = Nothing

IntervalNext == EmitSome \/ IntervalCorrupt \/ IntervalDecode \/ IntervalDone

----------------------------------------------------------------------------
(* No good record is refused, wherever the counters stand: a rejected      *)
(* record had been damaged.                                                *)
IntervalRefusesOnlyDamaged ==
    record # None /\ record' = None /\ ~update.accepted => truth.damaged

(* An undamaged record is decoded to the samples the producer measured.    *)
TimingIsTrue ==
    update.accepted /\ ~truth.damaged =>
       update.timing = [first |-> truth.first, last |-> truth.last]

(* The words of a record are redundant enough: one damaged word cannot     *)
(* move the interval of an accepted aggregate, unless it claims a UTC      *)
(* overlap.                                                                *)
DamageCannotMove ==
    /\ update.accepted /\ record.tier # "Basic"
    /\ record.tier = "Cycles150_180" => UtcOverlap \notin record.status
    => update.timing = [first |-> truth.first, last |-> truth.last]

(* Whatever one damaged word does, an accepted interval is one: it begins  *)
(* after sample zero, ends no earlier than it begins and within the        *)
(* counter, and no longer than the samples it counts.                      *)
AcceptedIsInterval ==
    update.accepted =>
       /\ 1 <= update.timing.first
       /\ update.timing.first <= update.timing.last
       /\ update.timing.last <= CounterMax
       /\ update.timing.last - update.timing.first < record.count

(* The source sequences an accepted aggregate names, counted with the      *)
(* wrap of their counter, are as many as the blocks it says it folds.      *)
SourcesAreCounted ==
    update.accepted /\ record.tier # "Basic" =>
       /\ record.blocks \in 1 .. Modulus - 1
       /\ (record.firstSequence + record.blocks - 1) % Modulus = record.lastSequence

(* A completed interval ends on or after its UTC boundary by exactly the   *)
(* overshoot it reports; a preview has not reached its boundary and is     *)
(* never marked complete.                                                  *)
BoundaryIsHonest ==
    update.accepted =>
       /\ record.tier \in {"Min10", "Hour2"} => record.target + record.overshoot = update.timing.last
       /\ record.tier \in Live => record.target >= update.timing.last /\ Complete \notin record.status

----------------------------------------------------------------------------
(***************************************************************************)
(* decode_frequency_10s_meter_record (common/msap1/meter/meter_data.cpp):  *)
(* the ten-second frequency is accepted only when every redundant word of  *)
(* its record agrees, and it is recomputed from the crossings.             *)
(*                                                                         *)
(* The observer that measures it is external.  It emits records whose      *)
(* words agree; one word may be damaged on the way.  Frequencies, rates    *)
(* and the binary fraction of a crossing are scaled down: Q for 2^16,      *)
(* Milli for 1000, Seconds for the ten seconds of the interval.  A set of  *)
(* names stands for each word of flags.                                    *)
(***************************************************************************)


(* Source status bits that must be set, and those that must not.           *)
Required == {"aligned", "synchronized", "rate", "filter", "reference", "calibration", "profile"}
Harmful == {"discontinuity", "overflow", "drop", "resynchronized"}
Reasons == {"unsupported_profile", "boundary_invalid", "time_unsynchronized",
            "sample_rate_invalid", "filter_warmup", "reference_invalid",
            "calibration_invalid", "discontinuity", "crossing_overflow", "observer_drop",
            "time_uncertainty", "time_geometry", "insufficient_crossings",
            "cycle_geometry", "out_of_range", "transport_gap", "arithmetic"}
StatusBits == {"arithmetic_error", "result_valid", "time_aligned", "profile_supported",
               "time_synchronized", "filter_ready", "reference_valid", "discontinuity",
               "crossing_overflow", "observer_drop", "insufficient_crossings",
               "out_of_range", "transport_gap", "calibration_valid", "sample_rate_valid",
               "resynchronized"}
Words == {"nominal", "first", "end", "last", "count", "utcStart", "utcEnd", "sequence",
          "sourceSequence", "emitDrops", "drops", "rate", "observed", "included", "cycles",
          "rejected", "duration", "firstCrossing", "lastCrossing", "value"}

FrequencyInit == record = None /\ truth = None /\ update = Nothing

----------------------------------------------------------------------------
(* The set of the names whose condition holds.                             *)
Names(conditions) == {c[1] : c \in {d \in conditions : d[2]}}

(* expected_frequency_10s_status.                                          *)
ExpectedStatus(r) ==
    Names({<<"arithmetic_error", "arithmetic" \in r.reasons>>,
           <<"result_valid", r.reasons = {}>>,
           <<"time_aligned", "aligned" \in r.source>>,
           <<"profile_supported", "profile" \in r.source>>,
           <<"time_synchronized", "synchronized" \in r.source>>,
           <<"filter_ready", "filter" \in r.source>>,
           <<"reference_valid", "reference" \in r.source>>,
           <<"discontinuity", {"discontinuity", "resynchronized"} \cap r.source # {}>>,
           <<"crossing_overflow", "overflow" \in r.source>>,
           <<"observer_drop", "drop" \in r.source \/ r.drops # 0>>,
           <<"insufficient_crossings", "insufficient_crossings" \in r.reasons>>,
           <<"out_of_range", {"out_of_range", "cycle_geometry"} \cap r.reasons # {}>>,
           <<"transport_gap", "transport_gap" \in r.reasons>>,
           <<"calibration_valid", "calibration" \in r.source>>,
           <<"sample_rate_valid", "rate" \in r.source>>,
           <<"resynchronized", "resynchronized" \in r.source>>})

(* The interval and the rate disagree by more than two samples.            *)
SpanError(r) ==
    LET expected == r.rate * Seconds
        actual == (r.end - r.first) * FrequencyMilli IN
    IF expected > actual THEN expected - actual ELSE actual - expected

(* The reasons the source status alone calls for.                          *)
SourceReasons(r) ==
    Names({<<"unsupported_profile", "profile" \notin r.source>>,
           <<"boundary_invalid", "aligned" \notin r.source>>,
           <<"time_unsynchronized", "synchronized" \notin r.source>>,
           <<"sample_rate_invalid", "rate" \notin r.source>>,
           <<"filter_warmup", "filter" \notin r.source>>,
           <<"reference_invalid", "reference" \notin r.source>>,
           <<"calibration_invalid", "calibration" \notin r.source>>,
           <<"discontinuity", {"discontinuity", "resynchronized"} \cap r.source # {}>>,
           <<"crossing_overflow", "overflow" \in r.source>>,
           <<"observer_drop", "drop" \in r.source>>})

(* The reasons a record has to give.                                       *)
MandatoryReasons(r) ==
    SourceReasons(r)
    \cup Names({<<"unsupported_profile", ~r.certified>>,
                <<"observer_drop", r.emitDrops # 0>>,
                <<"time_uncertainty", r.uncertain>>,
                <<"time_geometry", SpanError(r) > 2 * FrequencyMilli>>})

(* rounded_divide_ties_to_even, where it is asked for a frequency.         *)
RoundedDivide(n, d) ==
    LET quotient == n \div d
        remainder == n % d
        complement == d - remainder IN
    IF remainder > complement \/ (remainder = complement /\ quotient % 2 = 1)
    THEN quotient + 1 ELSE quotient

Insufficient(r) == r.cycles = 0 \/ r.duration = 0

Calculated(r) ==
    IF Insufficient(r) THEN 0 ELSE RoundedDivide(r.rate * Q * r.cycles, r.duration)

OutOfRange(r) == Calculated(r) # 0 /\ Calculated(r) \notin Admitted[r.nominal]

----------------------------------------------------------------------------
(* The observer closes an interval.  An emission says what it saw; the     *)
(* other words follow from it.                                             *)
FrequencyComplete(e) ==
    LET measured ==
          [nominal |-> e.nominal, first |-> e.first, end |-> e.first + e.span,
           last |-> e.first + e.span - 1, count |-> e.span,
           utcStart |-> e.utc, utcEnd |-> e.utc + Seconds,
           sequence |-> e.sequence, sourceSequence |-> e.sequence,
           emitDrops |-> e.drops, drops |-> e.drops,
           source |-> e.source, certified |-> e.certified, uncertain |-> e.uncertain,
           rate |-> e.rate, observed |-> e.observed, included |-> e.included,
           cycles |-> IF e.included = 0 THEN 0 ELSE e.included - 1,
           rejected |-> e.rejected,
           duration |-> IF e.included >= 2 THEN e.lastCrossing - e.firstCrossing ELSE 0,
           firstCrossing |-> IF e.included = 0 THEN 0 ELSE e.firstCrossing,
           lastCrossing |-> IF e.included = 0 THEN 0
                            ELSE IF e.included = 1 THEN e.firstCrossing ELSE e.lastCrossing,
           reserved |-> FALSE, reasons |-> {}, status |-> {}, value |-> 0, mask |-> {}]
        reasons ==
          MandatoryReasons(measured)
          \cup Names({<<"insufficient_crossings", Insufficient(measured)>>,
                      <<"cycle_geometry", measured.rejected # 0>>,
                      <<"out_of_range", OutOfRange(measured)>>,
                      <<"transport_gap", e.gap>>})
        explained == [measured EXCEPT !.reasons = reasons] IN
    [explained EXCEPT !.status = ExpectedStatus(explained),
                      !.value = IF reasons = {} THEN Calculated(measured) ELSE 0,
                      !.mask = IF reasons = {} THEN {6} ELSE {}]

FrequencyEmit ==
    /\ record = None
    /\ \E e \in FrequencyEmissions : record' = FrequencyComplete(e)
    /\ truth' = [record' EXCEPT !.reserved = FALSE]
    /\ UNCHANGED update

(* One word, or one bit of a word of flags, is damaged.                    *)
FrequencyCorrupt ==
    /\ record # None /\ record = truth /\ ~update.accepted
    /\ \/ \E w \in Words, v \in FrequencyDamage : record' = [record EXCEPT ![w] = v]
       \/ \E b \in Required \cup Harmful :
             record' = [record EXCEPT !.source = (@ \ {b}) \cup ({b} \ @)]
       \/ \E b \in Reasons : record' = [record EXCEPT !.reasons = (@ \ {b}) \cup ({b} \ @)]
       \/ \E b \in StatusBits : record' = [record EXCEPT !.status = (@ \ {b}) \cup ({b} \ @)]
       \/ record' = [record EXCEPT !.mask = {6} \ @]
       \/ record' = [record EXCEPT !.certified = ~@]
       \/ record' = [record EXCEPT !.uncertain = ~@]
       \/ record' = [record EXCEPT !.reserved = TRUE]
    /\ UNCHANGED <<truth, update>>

----------------------------------------------------------------------------
(* A variant of AnchorsAgree that takes the end of the interval as given.  *)
AnchorsAgreeLoose(r) ==
    r.nominal \in {50, 60} /\ r.end > r.first /\ r.last >= r.first /\ r.utcEnd > r.utcStart

(* The sample and UTC anchors, and the two copies of the counters.         *)
AnchorsAgree(r) ==
    /\ r.nominal \in {50, 60}
    /\ r.end > r.first /\ r.count = r.end - r.first /\ r.last = r.end - 1
    /\ r.utcEnd - r.utcStart = Seconds /\ r.utcEnd <= UtcMax
    /\ r.sourceSequence = r.sequence
    /\ r.emitDrops = r.drops

(* The counts of the crossings and where the first and last one lie.       *)
CrossingsAgree(r) ==
    /\ r.observed <= MaxCrossings /\ r.included <= r.observed
    /\ r.cycles = (IF r.included = 0 THEN 0 ELSE r.included - 1)
    /\ r.rejected <= r.cycles
    /\ IF r.included = 0
       THEN r.firstCrossing = 0 /\ r.lastCrossing = 0 /\ r.duration = 0
       ELSE /\ r.firstCrossing >= 0 /\ r.lastCrossing >= r.firstCrossing
            /\ r.lastCrossing <= (r.end - r.first) * Q
            /\ r.duration = (IF r.included >= 2 THEN r.lastCrossing - r.firstCrossing ELSE 0)

(* The reasons the geometry and the range call for, and no other of these. *)
ReasonsAgree(r) ==
    /\ ("insufficient_crossings" \in r.reasons) <=> Insufficient(r)
    /\ ("cycle_geometry" \in r.reasons) <=> (r.rejected # 0)
    /\ ("out_of_range" \in r.reasons) <=> OutOfRange(r)
    /\ "arithmetic" \notin r.reasons

ResultAgrees(r) ==
    /\ r.mask = (IF r.reasons = {} THEN {6} ELSE {})
    /\ r.value = (IF r.reasons = {} THEN Calculated(r) ELSE 0)

FrequencyAccepted(r) ==
    /\ ~r.reserved
    /\ AnchorsAgree(r)
    /\ r.status = ExpectedStatus(r)
    /\ MandatoryReasons(r) \subseteq r.reasons
    /\ CrossingsAgree(r)
    /\ ReasonsAgree(r)
    /\ ResultAgrees(r)

Quality(r) ==
    CASE r.reasons = {} -> "valid"
      [] {"out_of_range", "cycle_geometry"} \cap r.reasons # {} -> "out_of_range"
      [] OTHER -> "invalid"

(* The reading and the timing of the update.                               *)
Reading(r) ==
    [accepted |-> TRUE, quality |-> Quality(r), value |-> r.value,
     first |-> r.first, end |-> r.end, utc |-> r.utcStart,
     synchronized |-> "time_synchronized" \in r.status /\ ~r.uncertain]

FrequencyDecode ==
    /\ record # None /\ ~update.accepted
    /\ IF FrequencyAccepted(record)
       THEN update' = Reading(record) /\ UNCHANGED <<record, truth>>
       ELSE record' = None /\ truth' = None /\ UNCHANGED update

FrequencyDone == update.accepted /\ record' = None /\ truth' = None /\ update' = Nothing

FrequencyNext == FrequencyEmit \/ FrequencyCorrupt \/ FrequencyDecode \/ FrequencyDone

----------------------------------------------------------------------------
(* No record the observer closed is refused unless it was damaged.         *)
FrequencyRefusesOnlyDamaged ==
    record # None /\ record' = None /\ ~update.accepted => record # truth

(* One damaged word changes neither the interval nor the reading of an     *)
(* accepted record: every word that carries them is checked against        *)
(* another one.                                                            *)
FrequencyOneWordCannotMove ==
    update.accepted =>
       /\ [value |-> update.value, first |-> update.first, end |-> update.end,
           utc |-> update.utc]
          = [value |-> truth.value, first |-> truth.first, end |-> truth.end,
             utc |-> truth.utcStart]
       /\ (update.quality = "valid") <=> (truth.reasons = {})

(* A valid frequency was measured on a certified, synchronized and         *)
(* uninterrupted interval with nothing dropped, over at least one cycle.   *)
ValidIsEarned ==
    update.accepted /\ update.quality = "valid" =>
       /\ truth.source = Required /\ truth.certified /\ ~truth.uncertain
       /\ record.drops = 0 /\ record.emitDrops = 0
       /\ record.included >= 2 /\ record.rejected = 0
       /\ record.rate * Seconds - (record.end - record.first) * FrequencyMilli
             \in -2 * FrequencyMilli .. 2 * FrequencyMilli

(* A valid frequency is the nearest one to cycles over duration, the even  *)
(* one of two, and lies in the range of its class.  An invalid one is zero.*)
ValueIsNearest ==
    update.accepted =>
       IF update.quality = "valid"
       THEN LET error == 2 * (update.value * record.duration - record.rate * Q * record.cycles) IN
            /\ error \in -record.duration .. record.duration
            /\ error \in {-record.duration, record.duration} => update.value % 2 = 0
            /\ update.value \in Admitted[record.nominal]
       ELSE update.value = 0

(* The reading is labelled synchronized only when the clock was, to within *)
(* a millisecond.                                                          *)
SynchronizedIsEarned ==
    update.accepted /\ update.synchronized =>
       "synchronized" \in record.source /\ ~record.uncertain

----------------------------------------------------------------------------
(***************************************************************************)
(* The decoders of the records that describe an event or an observation    *)
(* of power quality (common/msap1/meter/meter_data.cpp): the lifecycle of  *)
(* an event (PQ-EVENT-v1), flicker (FLICKER-v1) and mains signalling       *)
(* (MAINS-SIGNAL-v1).                                                      *)
(*                                                                         *)
(* The producers are external.  They emit records whose words agree with   *)
(* one another; one word may be damaged on the way.  A field stands for    *)
(* one word or one group of bits; "reserved" stands for all the words and  *)
(* bits that have to be zero.  Sample counts are scaled down: WordMax is   *)
(* the largest 32-bit word, Internal the internal rate of the flicker      *)
(* meter, Scale the ten thousandths of a threshold.                        *)
(***************************************************************************)

Phases == {0, 1, 2}
Flicker == {"live", "pst", "plt"}

VoltageEvents == {"sag", "swell", "interruption", "rvc", "voltage_unbalance", "transient"}
IecEvents == {"sag", "swell", "interruption", "rvc", "transient"}
EventTypes == VoltageEvents \cup {"current_sag", "current_swell", "current_unbalance"}
UtcQualities == {"unsynchronized", "synchronized", "holdover"}

ObservationInit == record = None /\ truth = None /\ update = None

----------------------------------------------------------------------------
(* What the three decoders demand of the provenance: no drops, a sequence  *)
(* and a generation, a profile of that generation, no reserved bit.        *)
ProvenanceAgrees(r) ==
    /\ r.sequence # 0 /\ r.generation # 0 /\ r.profile = r.generation
    /\ ~r.reserved

(* Voltage lanes are 4 to 6, the current lanes 0 to 2.                     *)
LanesOf(phases, voltage) == IF voltage THEN {p + 4 : p \in phases} ELSE phases

(* The samples of an event, counted in a word that saturates.              *)
CoveredCount(duration) == IF duration + 1 > WordMax THEN WordMax ELSE duration + 1

ExtremaAgree(r) ==
    \A p \in Phases : r.minimum[p] <= r.current[p] /\ r.current[p] <= r.maximum[p]

(* Without a synchronized clock there is no UTC, with one it does not run  *)
(* backwards.                                                              *)
UtcAgrees(r) ==
    IF r.quality = "unsynchronized"
    THEN r.startUtc = 0 /\ r.lastUtc = 0
    ELSE r.startUtc # 0 /\ r.lastUtc >= r.startUtc

(* decode_pq_event_lifecycle_record.                                       *)
EventAccepted(r) ==
    /\ ProvenanceAgrees(r)
    /\ r.phases # {}
    /\ r.id # 0 /\ r.updates # 0 /\ r.reference # 0
    /\ r.threshold # 0 /\ r.hysteresis < r.threshold
    /\ r.window <= WindowMax /\ r.decimation \in {1, 2, 4, 8, 16, 32}
    /\ r.first <= r.trigger /\ r.trigger <= r.last
    /\ r.duration = r.last - r.first
    /\ r.iec <=> (r.type \in IecEvents)
    /\ r.lanes = LanesOf(r.phases, r.type \in VoltageEvents)
    /\ r.count = CoveredCount(r.duration)
    /\ r.discontinuities = r.resultDrops
    /\ ExtremaAgree(r)
    /\ UtcAgrees(r)

Highest(counts) == CHOOSE n \in {counts[p] : p \in Phases} : \A p \in Phases : counts[p] <= n

(* A phase is in the mask only when it was measured all the time.          *)
PhasesAgree(r) ==
    \A p \in Phases :
       /\ r.valid[p] <= SecondsOf[r.kind] * Internal
       /\ p \in r.phases => r.valid[p] = SecondsOf[r.kind] * Internal

(* decode_flicker_record.                                                  *)
FlickerAccepted(r) ==
    /\ ProvenanceAgrees(r)
    /\ r.rate >= Internal /\ r.rate % Internal = 0
    /\ r.lanes = LanesOf(r.phases, TRUE)
    /\ PhasesAgree(r)
    /\ r.seconds = SecondsOf[r.kind]
    /\ r.last >= r.first /\ r.last - r.first + 1 = SecondsOf[r.kind] * r.rate
    /\ r.count = Highest(r.valid) * (r.rate \div Internal)
    /\ r.intervalFirst = r.first
    /\ r.kind # "live" => ~r.settling
    /\ r.kind = "live" => r.pst = 0 /\ r.plt = 0
    /\ r.kind = "pst" => r.plt = 0
    /\ r.kind = "plt" => r.phases # {}

(* The least magnitude that counts as a signal.                            *)
Threshold(r) == (r.reference * r.threshold + Scale - 1) \div Scale

Detected(r) == {p \in r.phases : r.magnitude[p] >= Threshold(r)}
BackgroundDominant(r) == \E p \in r.phases : r.background[p] > r.magnitude[p]

(* The frequency that was found lies in the band that was searched.        *)
FrequencyAgrees(r) ==
    LET half == r.bandwidth \div 2 IN
    IF r.detected = {}
    THEN r.measured = r.configured
    ELSE r.measured \in r.configured - half .. r.configured + half

(* decode_mains_signal_record.                                             *)
MainsAccepted(r) ==
    /\ ProvenanceAgrees(r)
    /\ r.rate # 0
    /\ r.lanes = LanesOf(r.phases, TRUE)
    /\ r.configured # 0 /\ r.bandwidth >= 4 /\ r.bandwidth < r.configured
    /\ 2 * (r.configured + r.bandwidth) < r.rate * ObservationMilli
    /\ r.reference # 0
    /\ r.count = r.rate \div Fraction
    /\ r.last >= r.first /\ r.last - r.first + 1 = r.rate \div Fraction
    /\ (r.sourceError <=> r.error) /\ (r.sourceGap => r.gap)
    /\ r.detected \subseteq r.phases /\ r.detected = Detected(r)
    /\ r.dominant <=> BackgroundDominant(r)
    /\ FrequencyAgrees(r)

ObservationAccepted(r) ==
    CASE r.kind = "event" -> EventAccepted(r)
      [] r.kind = "mains" -> MainsAccepted(r)
      [] r.kind \in Flicker -> FlickerAccepted(r)

----------------------------------------------------------------------------
(* The producers fill in the words that follow from an observation.        *)
Completed(e) ==
    CASE e.kind = "event" ->
           [e EXCEPT !.duration = e.last - e.first,
                     !.count = CoveredCount(e.last - e.first),
                     !.lanes = LanesOf(e.phases, e.type \in VoltageEvents),
                     !.iec = e.type \in IecEvents,
                     !.resultDrops = e.discontinuities]
      [] e.kind = "mains" ->
           LET r == [e EXCEPT !.lanes = LanesOf(e.phases, TRUE), !.detected = Detected(e),
                              !.dominant = BackgroundDominant(e),
                              !.count = e.rate \div Fraction,
                              !.last = e.first + e.rate \div Fraction - 1] IN
           [r EXCEPT !.measured = IF r.detected = {} THEN r.configured ELSE @]
      [] e.kind \in Flicker ->
           LET whole == {p \in Phases : e.valid[p] = SecondsOf[e.kind] * Internal} IN
           [e EXCEPT !.phases = whole, !.lanes = LanesOf(whole, TRUE),
                     !.seconds = SecondsOf[e.kind], !.intervalFirst = e.first,
                     !.last = e.first + SecondsOf[e.kind] * e.rate - 1,
                     !.count = Highest(e.valid) * (e.rate \div Internal)]

ObservationEmit ==
    /\ record = None
    /\ \E e \in ObservationEmissions :
          /\ e.kind = "plt" => \E p \in Phases : e.valid[p] = SecondsOf["plt"] * Internal
          /\ record' = Completed(e)
    /\ truth' = record'
    /\ UNCHANGED update

Toggled(S, b) == (S \ {b}) \cup ({b} \ S)

Numbers == {"first", "last", "trigger", "duration", "count", "sequence", "generation",
            "profile", "threshold", "hysteresis", "reference", "updates", "id",
            "discontinuities", "resultDrops", "startUtc", "lastUtc", "rate", "seconds",
            "intervalFirst", "pst", "plt", "configured", "bandwidth", "measured",
            "window", "decimation"}
PerPhase == {"minimum", "maximum", "current", "valid", "magnitude", "background"}
Flags == {"reserved", "iec", "settling", "error", "sourceError", "gap", "sourceGap", "dominant"}

(* One word, or one of its fields, is damaged.                             *)
ObservationCorrupt ==
    /\ record # None /\ record = truth /\ update = None
    /\ \/ \E w \in Numbers \cap DOMAIN record, v \in ObservationDamage :
             record' = [record EXCEPT ![w] = v]
       \/ \E w \in PerPhase \cap DOMAIN record, p \in Phases, v \in ObservationDamage :
             record' = [record EXCEPT ![w][p] = v]
       \/ \E w \in Flags \cap DOMAIN record : record' = [record EXCEPT ![w] = ~@]
       \/ \E w \in {"phases", "lanes", "detected"} \cap DOMAIN record, b \in 0 .. 6 :
             record' = [record EXCEPT ![w] = Toggled(@, b)]
       \/ record.kind = "event" /\ \E t \in EventTypes : record' = [record EXCEPT !.type = t]
       \/ record.kind = "event" /\ \E q \in UtcQualities : record' = [record EXCEPT !.quality = q]
       \/ record.kind \in Flicker /\ \E k \in Flicker : record' = [record EXCEPT !.kind = k]
    /\ UNCHANGED <<truth, update>>

ObservationDecode ==
    /\ record # None /\ update = None
    /\ IF ObservationAccepted(record)
       THEN update' = record /\ UNCHANGED <<record, truth>>
       ELSE record' = None /\ truth' = None /\ UNCHANGED update

ObservationDone == update # None /\ record' = None /\ truth' = None /\ update' = None

ObservationNext == ObservationEmit \/ ObservationCorrupt \/ ObservationDecode \/ ObservationDone

----------------------------------------------------------------------------
(* No record a producer closed is refused unless it was damaged, however   *)
(* long its event lasted.                                                  *)
ObservationRefusesOnlyDamaged ==
    record # None /\ record' = None /\ update = None => record # truth

(* One damaged word moves neither the samples nor the phases of an         *)
(* accepted record, nor turns one kind of record or of detection into      *)
(* another.                                                                *)
ObservationOneWordCannotMove ==
    update # None =>
       /\ update.first = truth.first /\ update.last = truth.last
       /\ update.phases = truth.phases /\ update.kind = truth.kind
       /\ update.kind = "event" => (update.type \in VoltageEvents) <=> (truth.type \in VoltageEvents)
       /\ update.kind = "mains" => update.detected = truth.detected

(* A phase is reported as carrying a signal exactly when its magnitude is  *)
(* no less than the configured share of the reference.                     *)
DetectionIsExact ==
    update # None /\ update.kind = "mains" =>
       \A p \in Phases :
          p \in update.detected <=>
             p \in update.phases /\ update.magnitude[p] * Scale >= update.reference * update.threshold

(* A flicker value stands for its whole interval: every reported phase was *)
(* measured throughout, and no interval publishes the metric of a longer   *)
(* one.                                                                    *)
WholeIntervalOnly ==
    update # None /\ update.kind \in Flicker =>
       /\ \A p \in update.phases :
             update.valid[p] * (update.rate \div Internal) = update.last - update.first + 1
       /\ update.plt # 0 => update.kind = "plt"
       /\ update.pst # 0 => update.kind # "live" /\ ~update.settling

(* The sample count of an event is the number of its samples, or the       *)
(* largest count when there are more.                                      *)
CountSaturates ==
    update # None /\ update.kind = "event" =>
       LET samples == update.last - update.first + 1 IN
       update.count <= samples /\ (update.count < samples => update.count = WordMax)
============================================================================
