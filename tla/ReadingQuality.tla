--------------------------- MODULE ReadingQuality ---------------------------
(***************************************************************************)
(* How the decoders grade the readings of a record                         *)
(* (common/msap1/meter/meter_data.cpp): which lanes, flags and non-zero    *)
(* magnitudes a reading needs, and in which order an arithmetic error, an  *)
(* invalid interval and a missing contribution decide its quality.         *)
(*                                                                         *)
(* A record is its tier, its family, the set of lanes of its valid mask,   *)
(* the set of bits of its status word, its flag bits, and the set of its   *)
(* readings whose value is zero.  A reading is a pair of a quantity and an *)
(* index: a phase, a pair of phases (AB, BC, CA), a lane of the currents,  *)
(* a symmetrical component, or 0 for a total.                              *)
(***************************************************************************)
EXTENDS Integers, FiniteSets

CONSTANTS Masks,       \* valid masks, sets of lanes
          Statuses,    \* status words, sets of bits
          FlagSets,    \* flag words, sets of flags
          Undefineds,  \* phases (0 for the total) whose load nature is undefined
          ZeroSets,    \* sets of readings that are zero
          Frequencies  \* frequency status words, sets of names

VARIABLES record,  \* the record being decoded; None when there is none
          grades   \* the quality of each of its readings; empty before decoding

vars == <<record, grades>>

Tiers == {"Basic", "Cycles150_180", "Min10", "Hour2", "Min10Live", "Hour2Live"}
Live == {"Min10Live", "Hour2Live"}
Long == {"Min10", "Hour2"} \cup Live
Families == {"fundamental", "power", "phasor", "unbalance", "pq_event"}
Gradings == {"valid", "unavailable", "invalid", "out_of_range", "timed_out",
             "arithmetic_error"}
None == [tier |-> "none"]
NoGrades == [a \in {} |-> "unavailable"]

(* Hardware lane order: Ia, Ib, Ic, In are 0..3, Vc, Vb, Va are 4..6.      *)
Phases == 1 .. 3
VoltageLane == <<6, 5, 4>>
CurrentLane == <<0, 1, 2, 3>>
PairLaneA == <<6, 5, 4>>
PairLaneB == <<5, 4, 6>>

Of(quantity, indices) == {quantity} \X indices
Readings(family) ==
    CASE family = "fundamental" ->
            {<<"frequency", 0>>} \cup Of("current", 1 .. 4) \cup Of("voltage_ln", Phases)
            \cup Of("voltage_ll", Phases)
      [] family = "power" ->
            Of("active_power", 0 .. 3) \cup Of("apparent_power", 0 .. 3)
            \cup Of("power_factor", 0 .. 3) \cup Of("current_crest", 1 .. 4)
            \cup Of("voltage_crest", Phases)
      [] family = "phasor" ->
            Of("fundamental_voltage", Phases) \cup Of("fundamental_current", 1 .. 4)
            \cup Of("voltage_angle", Phases) \cup Of("current_angle", 1 .. 4)
            \cup Of("fundamental_voltage_ll", Phases) \cup Of("voltage_ll_angle", Phases)
            \cup Of("displacement_angle", Phases) \cup Of("reactive_power", 0 .. 3)
            \cup Of("fundamental_active_power", 0 .. 3)
            \cup Of("displacement_power_factor", 0 .. 3)
      [] family = "unbalance" ->
            Of("voltage_sequence", Phases) \cup Of("current_sequence", Phases)
            \cup Of("voltage_sequence_angle", Phases) \cup Of("current_sequence_angle", Phases)
            \cup Of("voltage_ratio", 1 .. 2) \cup Of("current_ratio", 1 .. 2)
      [] family = "pq_event" ->
            Of("voltage", Phases) \cup Of("voltage_minimum", Phases)
            \cup Of("voltage_maximum", Phases) \cup Of("current", Phases)

TypeOK ==
    /\ record # None => record.tier \in Tiers /\ record.family \in Families
    /\ grades # NoGrades => record # None /\ DOMAIN grades = Readings(record.family)
    /\ \A a \in DOMAIN grades : grades[a] \in Gradings

Init == record = None /\ grades = NoGrades

(* The producer (external) sends a record.                                 *)
Arrive ==
    /\ record = None
    /\ \E tier \in Tiers, family \in Families, mask \in Masks, status \in Statuses,
          flags \in FlagSets, undefined \in Undefineds, zero \in ZeroSets,
          frequency \in Frequencies :
          /\ family # "fundamental" => frequency = {}
          /\ family = "fundamental" => flags = {} /\ zero = {}
          /\ family # "phasor" => undefined = {}
          /\ family = "pq_event" => tier = "Basic" /\ flags = {} /\ zero = {}
          /\ record' = [tier |-> tier, family |-> family, mask |-> mask, status |-> status,
                        flags |-> flags, undefined |-> undefined, zero |-> zero,
                        frequency |-> frequency]
    /\ UNCHANGED grades

----------------------------------------------------------------------------
(* Status bits: 0 arithmetic error, 1 complete (of a fundamental record)   *)
(* or phasor invalid (of a phasor or unbalance one), 2 time aligned, 3     *)
(* contaminated, 4 boundary valid, 5 open interval, 6 non-normative.       *)

PreviewBroken(r) == r.tier \in Live /\ (1 \in r.status \/ ~ ({5, 6} \subseteq r.status))

(* A variant of PayloadState that forgets a contaminated interval.         *)
PayloadStateDirty(r) ==
    [error |-> r.tier \in Long /\ 0 \in r.status,
     invalid |-> r.tier \in Long /\
                 (\/ r.family = "fundamental" /\ r.tier \notin Live /\ 1 \notin r.status
                  \/ PreviewBroken(r)
                  \/ 2 \notin r.status \/ 4 \notin r.status)]

(* aggregate_payload_state.                                                *)
PayloadState(r) ==
    [error |-> r.tier \in Long /\ 0 \in r.status,
     invalid |-> r.tier \in Long /\
                 (\/ r.family = "fundamental" /\ r.tier \notin Live /\ 1 \notin r.status
                  \/ PreviewBroken(r)
                  \/ 2 \notin r.status \/ 3 \in r.status \/ 4 \notin r.status)]

(* payload_reading, aggregate_reading and the quality lambdas.             *)
Grade(error, invalid, available) ==
    CASE error -> "arithmetic_error"
      [] ~error /\ invalid -> "invalid"
      [] ~error /\ ~invalid /\ available -> "valid"
      [] OTHER -> "unavailable"

PairValid(r, p) == {PairLaneA[p], PairLaneB[p]} \subseteq r.mask
PhaseValid(r, p) == {VoltageLane[p], CurrentLane[p]} \subseteq r.mask
TotalsValid(r) == {6, 0} \subseteq r.mask
PhaseOrTotal(r, p) == IF p = 0 THEN TotalsValid(r) ELSE PhaseValid(r, p)

(* decode_fundamental_values, decode_aggregate_fundamental_values.         *)
FundamentalAvailable(r, a) ==
    CASE a[1] = "current" -> CurrentLane[a[2]] \in r.mask
      [] a[1] = "voltage_ln" -> VoltageLane[a[2]] \in r.mask
      [] a[1] = "voltage_ll" -> PairValid(r, a[2])

(* The frequency of a Basic record; the mean an aggregate carries is never *)
(* advertised as a measurement.                                            *)
FrequencyGrade(r) ==
    CASE r.tier # "Basic" -> "unavailable"
      [] r.tier = "Basic" /\ "valid" \in r.frequency -> "valid"
      [] r.tier = "Basic" /\ "valid" \notin r.frequency ->
           CASE "arithmetic_error" \in r.frequency -> "arithmetic_error"
             [] "arithmetic_error" \notin r.frequency /\ "out_of_range" \in r.frequency ->
                  "out_of_range"
             [] r.frequency = {"timed_out"} -> "timed_out"
             [] OTHER -> "unavailable"

(* decode_power_payload: no power factor where the apparent power is zero. *)
PowerAvailable(r, a) ==
    CASE a[1] \in {"active_power", "apparent_power"} -> PhaseOrTotal(r, a[2])
      [] a[1] = "power_factor" ->
           PhaseOrTotal(r, a[2]) /\ <<"apparent_power", a[2]>> \notin r.zero
      [] a[1] = "current_crest" -> CurrentLane[a[2]] \in r.mask
      [] a[1] = "voltage_crest" -> VoltageLane[a[2]] \in r.mask

(* An angle needs the Va reference and a phasor that is not zero.          *)
AngleDefined(r, magnitude, i) == "reference" \in r.flags /\ <<magnitude, i>> \notin r.zero

(* decode_phasor_payload.  The PL reports an undefined load nature where   *)
(* the fundamental apparent power is zero.                                 *)
PhasorAvailable(r, a) ==
    LET p == a[2] IN
    CASE a[1] = "fundamental_voltage" -> VoltageLane[p] \in r.mask
      [] a[1] = "fundamental_current" -> CurrentLane[p] \in r.mask
      [] a[1] = "voltage_angle" ->
           VoltageLane[p] \in r.mask /\ AngleDefined(r, "fundamental_voltage", p)
      [] a[1] = "current_angle" ->
           CurrentLane[p] \in r.mask /\ AngleDefined(r, "fundamental_current", p)
      [] a[1] = "fundamental_voltage_ll" -> PairValid(r, p)
      [] a[1] = "voltage_ll_angle" ->
           PairValid(r, p) /\ AngleDefined(r, "fundamental_voltage_ll", p)
      [] a[1] = "displacement_angle" ->
           /\ PhaseValid(r, p)
           /\ {<<"fundamental_voltage", p>>, <<"fundamental_current", p>>} \cap r.zero = {}
      [] a[1] \in {"reactive_power", "fundamental_active_power"} -> PhaseOrTotal(r, p)
      [] a[1] = "displacement_power_factor" ->
           PhaseOrTotal(r, p) /\ p \notin r.undefined

(* decode_unbalance_payload: the components mix every phase.               *)
UnbalanceAvailable(r, a) ==
    LET lanes == IF a[1] \in {"voltage_sequence", "voltage_sequence_angle", "voltage_ratio"}
                 THEN {4, 5, 6} ELSE {0, 1, 2} IN
    /\ lanes \subseteq r.mask
    /\ a[1] = "voltage_sequence_angle" => AngleDefined(r, "voltage_sequence", a[2])
    /\ a[1] = "current_sequence_angle" => AngleDefined(r, "current_sequence", a[2])
    /\ a[1] = "voltage_ratio" => "v_ratios" \in r.flags
    /\ a[1] = "current_ratio" => "i_ratios" \in r.flags

(* decode_pq_event_record: a lane that is not in the mask was never        *)
(* measured, whatever the arithmetic did.                                  *)
PqGrade(r, a) ==
    LET lane == IF a[1] = "current" THEN CurrentLane[a[2]] ELSE VoltageLane[a[2]] IN
    CASE lane \notin r.mask -> "unavailable"
      [] lane \in r.mask /\ 0 \in r.status -> "arithmetic_error"
      [] OTHER -> "valid"

(* The status a fundamental record brings to its readings: a Basic one has *)
(* none, a 150/180-cycle one its arithmetic error.                         *)
FundamentalState(r) ==
    [error |-> r.tier # "Basic" /\ 0 \in r.status,
     invalid |-> r.tier \in Long /\ (3 \in r.status \/ ~ ({2, 4} \subseteq r.status))]

(* A frequency reference lost in a merged cycle spoils every phasor.       *)
PhasorInvalid(r) == 1 \in r.status \/ PayloadState(r).invalid

GradeOf(r, a) ==
    LET state == PayloadState(r) IN
    CASE a[1] = "frequency" -> FrequencyGrade(r)
      [] r.family = "fundamental" /\ a[1] # "frequency" ->
           Grade(FundamentalState(r).error, FundamentalState(r).invalid,
                 FundamentalAvailable(r, a))
      [] r.family = "power" -> Grade(state.error, state.invalid, PowerAvailable(r, a))
      [] r.family = "phasor" -> Grade(state.error, PhasorInvalid(r), PhasorAvailable(r, a))
      [] r.family = "unbalance" ->
           Grade(state.error, PhasorInvalid(r), UnbalanceAvailable(r, a))
      [] r.family = "pq_event" -> PqGrade(r, a)

(* The fundamental decoders refuse what is not complete, or not a preview. *)
Refused(r) ==
    /\ r.family = "fundamental"
    /\ \/ r.tier \in {"Cycles150_180", "Min10", "Hour2"} /\ 1 \notin r.status
       \/ PreviewBroken(r)

(* The registry finds the decoder of the record's format.                  *)
Decode ==
    /\ record # None /\ grades = NoGrades
    /\ IF Refused(record)
       THEN record' = None /\ UNCHANGED grades
       ELSE /\ grades' = [a \in Readings(record.family) |-> GradeOf(record, a)]
            /\ UNCHANGED record

(* The update has been applied.                                            *)
Done == grades # NoGrades /\ record' = None /\ grades' = NoGrades

Next == Arrive \/ Decode \/ Done

Spec == Init /\ [][Next]_vars

----------------------------------------------------------------------------
(* The lanes that contribute to a reading, from the electrical definition  *)
(* of the quantity: phase p has voltage lane 7 - p and current lane p - 1. *)
Contributors(a) ==
    LET p == a[2]  nextPhase == (p % 3) + 1 IN
    CASE a[1] \in {"current", "current_crest", "fundamental_current", "current_angle"} -> {p - 1}
      [] a[1] \in {"voltage_ln", "voltage_crest", "fundamental_voltage", "voltage_angle",
                   "voltage", "voltage_minimum", "voltage_maximum"} -> {7 - p}
      [] a[1] \in {"voltage_ll", "fundamental_voltage_ll", "voltage_ll_angle"} ->
           {7 - p, 7 - nextPhase}
      [] a[1] \in {"voltage_sequence", "voltage_sequence_angle", "voltage_ratio"} -> {4, 5, 6}
      [] a[1] \in {"current_sequence", "current_sequence_angle", "current_ratio"} -> {0, 1, 2}
      [] a = <<"frequency", 0>> -> {}
      [] OTHER -> IF p = 0 THEN {6, 0} ELSE {7 - p, p - 1}

(* A reading that is published as valid was measured on every lane that    *)
(* contributes to it, over an interval that is aligned, uncontaminated and *)
(* closed at its boundary.                                                 *)
ValidIsMeasured ==
    \A a \in DOMAIN grades : grades[a] = "valid" =>
       /\ Contributors(a) \subseteq record.mask
       /\ record.tier \in Long => {2, 4} \subseteq record.status /\ 3 \notin record.status
       /\ record.tier \in Live => {5, 6} \subseteq record.status

(* No ratio or angle is valid where the quantity it is taken of is zero or *)
(* its reference is missing.                                               *)
UndefinedIsNotValid ==
    \A a \in DOMAIN grades : grades[a] = "valid" =>
       /\ a[1] = "power_factor" => <<"apparent_power", a[2]>> \notin record.zero
       /\ a[1] \in {"voltage_angle", "current_angle", "voltage_ll_angle",
                    "voltage_sequence_angle", "current_sequence_angle"} =>
             "reference" \in record.flags
       /\ a[1] = "displacement_angle" => <<"fundamental_voltage", a[2]>> \notin record.zero

(* "A saturated value can never be published as valid": an arithmetic      *)
(* error outranks the mask in the RMS readings of every aggregate and in   *)
(* every reading of the ten-minute and two-hour tiers; a half-cycle        *)
(* reading of a power-quality record is not valid either.                  *)
SaturatedIsNeverValid ==
    \A a \in DOMAIN grades :
       a[1] # "frequency" /\ 0 \in record.status =>
          /\ \/ record.tier \in Long
             \/ record.tier = "Cycles150_180" /\ record.family = "fundamental"
             => grades[a] = "arithmetic_error"
          /\ record.family = "pq_event" => grades[a] # "valid"

(* "garbage ... is `invalid`, never a silent `unavailable`": with a lost   *)
(* frequency reference no phasor or sequence reading is merely missing.    *)
GarbageIsNotSilent ==
    \A a \in DOMAIN grades :
       record.family \in {"phasor", "unbalance"} /\ 1 \in record.status =>
          grades[a] \in {"invalid", "arithmetic_error"}
============================================================================
