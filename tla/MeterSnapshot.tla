---------------------------- MODULE MeterSnapshot ----------------------------
(***************************************************************************)
(* The snapshot providers: in_process_meter_snapshot_provider.cpp projects *)
(* the immutable view of one measurement period onto a selection of        *)
(* catalogue keys, CaptureCoordinator::meter_snapshot_response lays the     *)
(* energy and demand totals of the durable ledger over the answer, and     *)
(* acquisition_meter_snapshot_provider.cpp is the same provider seen from  *)
(* another process.                                                        *)
(*                                                                         *)
(* One period's slot is modelled (the slots are independent). A reading is *)
(* the place it was copied from: the field of the view, the phase and, for *)
(* energy and demand, the reset epoch of the ledger it shows. The whole    *)
(* view has one quality, and its record families may be missing until      *)
(* their records arrive.                                                   *)
(***************************************************************************)
EXTENDS Naturals, Sequences, SequencesExt, FiniteSets

(***************************************************************************)
(* The catalogue of scalar measurements (meter_attribute.hpp and           *)
(* meter_attribute_catalog.cpp): one enumeration whose order is the        *)
(* contract, and a handful of hand-written tables over it (catalogue       *)
(* order, labels, units, groups, value kinds, the capability matrix and    *)
(* the members of each group) that must agree although nothing but their   *)
(* sizes is compared by the compiler.                                      *)
(*                                                                         *)
(* Enumerators that always come together (the phases of one quantity) are  *)
(* a family; an identity is its number in the enumeration.                 *)
(***************************************************************************)

\* MeterAttributeId: the numbers of the first and the last enumerator of each
\* family.
Enum ==
  [Frequency |-> <<0, 0>>, VoltageLn |-> <<1, 3>>, VoltageLl |-> <<4, 6>>,
   Current |-> <<7, 10>>, ActivePower |-> <<11, 14>>,
   ApparentPower |-> <<15, 18>>, PowerFactor |-> <<19, 22>>,
   ReactivePower |-> <<23, 26>>, DisplacementPf |-> <<27, 30>>,
   VoltageAngle |-> <<31, 33>>, CurrentAngle |-> <<34, 36>>,
   Unbalance |-> <<37, 40>>, SequenceVoltage |-> <<41, 43>>,
   SequenceCurrent |-> <<44, 46>>, ActiveImport |-> <<47, 50>>,
   ActiveExport |-> <<51, 54>>, ApparentEnergy |-> <<55, 58>>,
   QuadrantI |-> <<59, 62>>, QuadrantII |-> <<63, 66>>,
   QuadrantIII |-> <<67, 70>>, QuadrantIV |-> <<71, 74>>,
   CurrentDemand |-> <<75, 78>>, ImportPeak |-> <<79, 82>>,
   ExportPeak |-> <<83, 86>>, FundamentalVoltage |-> <<87, 89>>,
   FundamentalVoltageLl |-> <<90, 92>>, FundamentalCurrent |-> <<93, 96>>,
   VoltageCrest |-> <<97, 99>>, CurrentCrest |-> <<100, 103>>,
   FundamentalPower |-> <<104, 107>>, NeutralAngle |-> <<108, 108>>,
   VoltageLlAngle |-> <<109, 111>>, DisplacementAngle |-> <<112, 114>>,
   SequenceVoltageAngle |-> <<115, 117>>,
   SequenceCurrentAngle |-> <<118, 120>>, LoadNature |-> <<121, 124>>]

Families == DOMAIN Enum
FirstOf(f) == Enum[f][1]
LastOf(f) == Enum[f][2]
Members(f) == FirstOf(f) .. LastOf(f)
Ids == UNION {Members(f) : f \in Families}
FamilyOf == [id \in Ids |-> CHOOSE f \in Families : id \in Members(f)]

\* MeasurementPeriod.
Periods == {"Basic", "Cycles150_180", "Min10", "Hour2", "Min10Live",
            "Hour2Live", "Demand", "Seconds10"}

\* MeterAttributeGroup.
Groups == {"Frequency", "VoltageLnRms", "VoltageLlRms", "CurrentRms",
           "Fundamental", "ActivePower", "ApparentPower", "PowerFactor",
           "ReactivePower", "DisplacementPowerFactor", "PhaseAngle",
           "Unbalance", "SequenceComponents", "Energy", "Demand",
           "CrestFactor", "LoadNature", "AllDefined"}

\* The identities of some families, written out in the order given.
Listed(families) ==
  FoldLeft(LAMBDA seen, f :
             seen \o [i \in 1 .. (LastOf(f) + 1 - FirstOf(f)) |-> FirstOf(f) + i - 1],
           <<>>, families)

-----------------------------------------------------------------------------
\* The hand-written tables.

EnergyFamilies == <<"ActiveImport", "ActiveExport", "ApparentEnergy",
                    "QuadrantI", "QuadrantII", "QuadrantIII", "QuadrantIV">>
DemandFamilies == <<"CurrentDemand", "ImportPeak", "ExportPeak">>

\* catalog: every identity, at the index describe looks it up under.
Catalog ==
  Listed(<<"Frequency", "VoltageLn", "VoltageLl", "Current", "ActivePower",
           "ApparentPower", "PowerFactor", "ReactivePower", "DisplacementPf",
           "VoltageAngle", "CurrentAngle", "Unbalance", "SequenceVoltage",
           "SequenceCurrent">> \o EnergyFamilies \o DemandFamilies \o
         <<"FundamentalVoltage", "FundamentalVoltageLl", "FundamentalCurrent",
           "VoltageCrest", "CurrentCrest", "FundamentalPower", "NeutralAngle",
           "VoltageLlAngle", "DisplacementAngle", "SequenceVoltageAngle",
           "SequenceCurrentAngle", "LoadNature">>)

\* labels: at each index, the identity whose quantity the label's words name.
Labels ==
  Listed(<<"Frequency", "VoltageLn", "VoltageLl", "Current", "ActivePower",
           "ApparentPower", "PowerFactor", "ReactivePower", "DisplacementPf",
           "VoltageAngle", "CurrentAngle", "Unbalance", "SequenceVoltage",
           "SequenceCurrent">> \o EnergyFamilies \o DemandFamilies \o
         <<"FundamentalVoltage", "FundamentalVoltageLl", "FundamentalCurrent",
           "VoltageCrest", "CurrentCrest", "FundamentalPower", "NeutralAngle",
           "VoltageLlAngle", "DisplacementAngle", "SequenceVoltageAngle",
           "SequenceCurrentAngle", "LoadNature">>)

\* describe_identity: the unit of each family, up to the sequence components.
BasicUnits ==
  [Frequency |-> "MilliHertz", VoltageLn |-> "MicroVolts",
   VoltageLl |-> "MicroVolts", Current |-> "MicroAmperes",
   ActivePower |-> "Picowatts", ApparentPower |-> "PicoVoltAmperes",
   PowerFactor |-> "PowerFactorMillionths", ReactivePower |-> "Picovars",
   DisplacementPf |-> "PowerFactorMillionths",
   VoltageAngle |-> "Millidegrees", CurrentAngle |-> "Millidegrees",
   Unbalance |-> "RatioMillionths", SequenceVoltage |-> "MicroVolts",
   SequenceCurrent |-> "MicroAmperes"]

\* describe_identity: the energy and demand families.
EnergyUnits ==
  [ActiveImport |-> "MicroWattHours", ActiveExport |-> "MicroWattHours",
   ApparentEnergy |-> "MicroVoltAmpereHours", QuadrantI |-> "MicroVarHours",
   QuadrantII |-> "MicroVarHours", QuadrantIII |-> "MicroVarHours",
   QuadrantIV |-> "MicroVarHours", CurrentDemand |-> "MicroWatts",
   ImportPeak |-> "MicroWatts", ExportPeak |-> "MicroWatts"]

\* describe_identity: the families appended by M19.
FundamentalUnits ==
  [FundamentalVoltage |-> "MicroVolts", FundamentalVoltageLl |-> "MicroVolts",
   FundamentalCurrent |-> "MicroAmperes",
   VoltageCrest |-> "CrestTenThousandths",
   CurrentCrest |-> "CrestTenThousandths", FundamentalPower |-> "Picowatts",
   NeutralAngle |-> "Millidegrees", VoltageLlAngle |-> "Millidegrees",
   DisplacementAngle |-> "Millidegrees",
   SequenceVoltageAngle |-> "Millidegrees",
   SequenceCurrentAngle |-> "Millidegrees", LoadNature |-> "CategoricalCode"]

UnitOf(f) ==
  IF f \in DOMAIN BasicUnits THEN BasicUnits[f]
  ELSE IF f \in DOMAIN EnergyUnits THEN EnergyUnits[f] ELSE FundamentalUnits[f]

Within(id, from, to) == FirstOf(from) <= id /\ id <= LastOf(to)

\* group_for: a cascade of upper bounds, the appended families first.
GroupFor(id) ==
  IF Within(id, "FundamentalVoltage", "FundamentalCurrent") THEN "Fundamental"
  ELSE IF Within(id, "VoltageCrest", "CurrentCrest") THEN "CrestFactor"
  ELSE IF Within(id, "FundamentalPower", "FundamentalPower") THEN "Fundamental"
  ELSE IF Within(id, "NeutralAngle", "SequenceCurrentAngle") THEN "PhaseAngle"
  ELSE IF id >= FirstOf("LoadNature") THEN "LoadNature"
  ELSE IF id = FirstOf("Frequency") THEN "Frequency"
  ELSE IF id <= LastOf("VoltageLn") THEN "VoltageLnRms"
  ELSE IF id <= LastOf("VoltageLl") THEN "VoltageLlRms"
  ELSE IF id <= LastOf("Current") THEN "CurrentRms"
  ELSE IF id <= LastOf("ActivePower") THEN "ActivePower"
  ELSE IF id <= LastOf("ApparentPower") THEN "ApparentPower"
  ELSE IF id <= LastOf("PowerFactor") THEN "PowerFactor"
  ELSE IF id <= LastOf("ReactivePower") THEN "ReactivePower"
  ELSE IF id <= LastOf("DisplacementPf") THEN "DisplacementPowerFactor"
  ELSE IF id <= LastOf("CurrentAngle") THEN "PhaseAngle"
  ELSE IF id <= LastOf("Unbalance") THEN "Unbalance"
  ELSE IF id <= LastOf("SequenceCurrent") THEN "SequenceComponents"
  ELSE IF id <= LastOf("QuadrantIV") THEN "Energy"
  ELSE "Demand"

\* value_kind_for.
ValueKindFor(id) ==
  IF \/ Within(id, "VoltageAngle", "CurrentAngle")
     \/ Within(id, "NeutralAngle", "SequenceCurrentAngle") THEN "CircularAngle"
  ELSE IF Within(id, "ActiveImport", "QuadrantIV") THEN "CumulativeCounter"
  ELSE IF Within(id, "ImportPeak", "ExportPeak") THEN "Peak"
  ELSE IF id >= FirstOf("LoadNature") THEN "Categorical" ELSE "Linear"

\* calculations_for and the arrays it returns.
CalculationsFor(kind) ==
  CASE kind = "Linear" -> {"Minimum", "Maximum", "Average", "Last"}
    [] kind = "CircularAngle" -> {"CircularAverage", "Last"}
    [] kind = "CumulativeCounter" -> {"First", "Last", "Delta"}
    [] kind \in {"Peak", "Categorical"} -> {"Last"}

\* attributes_in: the members of a group, in the order they are added to a
\* selection.
AttributesIn(group) ==
  CASE group = "Frequency" -> Listed(<<"Frequency">>)
    [] group = "VoltageLnRms" -> Listed(<<"VoltageLn">>)
    [] group = "VoltageLlRms" -> Listed(<<"VoltageLl">>)
    [] group = "CurrentRms" -> Listed(<<"Current">>)
    [] group = "ActivePower" -> Listed(<<"ActivePower">>)
    [] group = "ApparentPower" -> Listed(<<"ApparentPower">>)
    [] group = "PowerFactor" -> Listed(<<"PowerFactor">>)
    [] group = "ReactivePower" -> Listed(<<"ReactivePower">>)
    [] group = "DisplacementPowerFactor" -> Listed(<<"DisplacementPf">>)
    [] group = "PhaseAngle" ->
         Listed(<<"VoltageAngle", "CurrentAngle", "NeutralAngle",
                  "VoltageLlAngle", "DisplacementAngle",
                  "SequenceVoltageAngle", "SequenceCurrentAngle">>)
    [] group = "Unbalance" -> Listed(<<"Unbalance">>)
    [] group = "SequenceComponents" ->
         Listed(<<"SequenceVoltage", "SequenceCurrent">>)
    [] group = "Energy" -> Listed(EnergyFamilies)
    [] group = "Demand" -> Listed(DemandFamilies)
    [] group = "Fundamental" ->
         Listed(<<"Frequency", "VoltageLn", "VoltageLl", "Current",
                  "FundamentalVoltage", "FundamentalVoltageLl",
                  "FundamentalCurrent", "FundamentalPower">>)
    [] group = "CrestFactor" -> Listed(<<"VoltageCrest", "CurrentCrest">>)
    [] group = "LoadNature" -> Listed(<<"LoadNature">>)
    [] group = "AllDefined" -> Catalog

-----------------------------------------------------------------------------
\* MeterAttributeKey: an index of 0 stands for no index.
Key(id) == [id |-> id, index |-> 0]

\* The catalogue knows an identity when it stands at its own index.
Known(id) == id < Len(Catalog) /\ Catalog[id + 1] = id

\* describe: the index of the key plays no part; an unknown identity throws.
Describe(key) ==
  LET id == key.id
      kind == ValueKindFor(id)
  IN [unit |-> UnitOf(FamilyOf[id]), label |-> Labels[id + 1],
      group |-> GroupFor(id), kind |-> kind,
      calculations |-> CalculationsFor(kind)]

\* supports_attribute: the capability matrix.
SupportsAttribute(key, p, usage) ==
  /\ key.index = 0
  /\ Known(key.id)
  /\ IF Within(key.id, "CurrentDemand", "ExportPeak") THEN p = "Demand"
     ELSE IF Within(key.id, "ActiveImport", "QuadrantIV")
     THEN p = IF usage = "Snapshot" THEN "Basic" ELSE "Min10"
     ELSE IF key.id = FirstOf("Frequency") THEN p \in {"Basic", "Seconds10"}
     ELSE /\ ~ (usage = "Historian" /\ p \in {"Min10Live", "Hour2Live"})
          /\ p \notin {"Demand", "Seconds10"}

\* attributes_for: one capability view, in catalogue order.
AttributesFor(p, usage) ==
  LET keys == [i \in DOMAIN Catalog |-> Key(Catalog[i])]
  IN SelectSeq(keys, LAMBDA key : SupportsAttribute(key, p, usage))

\* MeterAttributeSet: insertion order, duplicates dropped (keys that differ in
\* their index are different).
AttributeSet(keys) ==
  LET placed == [i \in DOMAIN keys |-> [at |-> i, key |-> keys[i]]]
      kept == SelectSeq(placed, LAMBDA p : \A j \in 1 .. (p.at - 1) :
                                             keys[j] # p.key)
  IN [i \in DOMAIN kept |-> kept[i].key]

-----------------------------------------------------------------------------

CONSTANTS Selections,  \* the selections consumers ask for
          Qualities,   \* the qualities readings are published with
          MaxEpoch     \* bound: resets of the ledger

VARIABLES period,      \* the period of the slot
          view,        \* the latest view of the slot
          ledger,      \* what meter-stream's ledger holds
          answer       \* the last answer given, and what it was given from

vars == <<period, view, ledger, answer>>

ViewParts == {"fundamental", "power", "phasor", "unbalance", "energy", "demand"}
NoView == [present |-> FALSE, parts |-> {}, quality |-> "unavailable", epoch |-> 0]
NoReading == [field |-> "none", lane |-> 0, epoch |-> 0]
NoAnswer == [status |-> "idle", via |-> "none", selection |-> <<>>,
             values |-> <<>>, energy |-> 0, demand |-> 0, reachable |-> FALSE,
             view |-> NoView, epoch |-> 0]

-----------------------------------------------------------------------------
\* What the switch of project reads: for each family, the record family of the
\* view, the field of it and the unit given to the value.

RmsCases ==
  [Frequency |-> <<"fundamental", "frequency", "MilliHertz">>,
   VoltageLn |-> <<"fundamental", "voltage_ln", "MicroVolts">>,
   Current |-> <<"fundamental", "current", "MicroAmperes">>,
   VoltageLl |-> <<"fundamental", "voltage_ll", "MicroVolts">>]

PowerCases ==
  [ActivePower |-> <<"power", "active_power", "Picowatts">>,
   ApparentPower |-> <<"power", "apparent_power", "PicoVoltAmperes">>,
   PowerFactor |-> <<"power", "power_factor", "PowerFactorMillionths">>]

PhasorCases ==
  [ReactivePower |-> <<"phasor", "reactive_power", "Picovars">>,
   DisplacementPf |->
     <<"phasor", "displacement_power_factor", "PowerFactorMillionths">>,
   VoltageAngle |-> <<"phasor", "voltage_angle", "Millidegrees">>,
   CurrentAngle |-> <<"phasor", "current_angle", "Millidegrees">>]

UnbalanceCases ==
  [Unbalance |-> <<"unbalance", "ratio", "RatioMillionths">>,
   SequenceVoltage |-> <<"unbalance", "voltage_sequence", "MicroVolts">>,
   SequenceCurrent |-> <<"unbalance", "current_sequence", "MicroAmperes">>]

FundamentalCases ==
  [FundamentalVoltage |-> <<"phasor", "fundamental_voltage", "MicroVolts">>,
   FundamentalVoltageLl |->
     <<"phasor", "fundamental_voltage_ll", "MicroVolts">>,
   FundamentalCurrent |-> <<"phasor", "fundamental_current", "MicroAmperes">>,
   VoltageCrest |-> <<"power", "voltage_crest", "CrestTenThousandths">>,
   CurrentCrest |-> <<"power", "current_crest", "CrestTenThousandths">>,
   FundamentalPower |-> <<"phasor", "fundamental_active_power", "Picowatts">>]

\* The neutral current angle is the fourth lane of the current angles.
AngleCases ==
  [NeutralAngle |-> <<"phasor", "current_angle", "Millidegrees">>,
   VoltageLlAngle |-> <<"phasor", "voltage_ll_angle", "Millidegrees">>,
   DisplacementAngle |-> <<"phasor", "displacement_angle", "Millidegrees">>,
   SequenceVoltageAngle |->
     <<"unbalance", "voltage_sequence_angle", "Millidegrees">>,
   SequenceCurrentAngle |->
     <<"unbalance", "current_sequence_angle", "Millidegrees">>]

\* categorical_value: the code comes from load_nature, everything else from the
\* displacement power factor of the same phase.
LoadNatureCases ==
  [LoadNature |-> <<"phasor", "load_nature", "CategoricalCode">>]

\* energy_attribute_groups with the units append_group is called with.
EnergyGroups ==
  [ActiveImport |-> <<"energy", "active_import", "MicroWattHours">>,
   ActiveExport |-> <<"energy", "active_export", "MicroWattHours">>,
   ApparentEnergy |-> <<"energy", "apparent", "MicroVoltAmpereHours">>,
   QuadrantI |-> <<"energy", "reactive_quadrants_0", "MicroVarHours">>,
   QuadrantII |-> <<"energy", "reactive_quadrants_1", "MicroVarHours">>,
   QuadrantIII |-> <<"energy", "reactive_quadrants_2", "MicroVarHours">>,
   QuadrantIV |-> <<"energy", "reactive_quadrants_3", "MicroVarHours">>]

\* demand_attribute_groups.
DemandGroups ==
  [CurrentDemand |-> <<"demand", "current_active", "MicroWatts">>,
   ImportPeak |-> <<"demand", "import_peak", "MicroWatts">>,
   ExportPeak |-> <<"demand", "export_peak", "MicroWatts">>]

Tables == {EnergyGroups, DemandGroups, RmsCases, PowerCases, PhasorCases,
           UnbalanceCases, FundamentalCases, AngleCases, LoadNatureCases}

\* The phase a case reads: the neutral current angle is the fourth lane of a
\* field whose other lanes belong to another family.
LaneOf(id) ==
  IF FamilyOf[id] = "NeutralAngle" THEN 4 ELSE id + 1 - FirstOf(FamilyOf[id])

-----------------------------------------------------------------------------
\* The projection of a view.

\* Which fields of a view hold a reading: those of the record families that
\* arrived, except that the mean frequency of an aggregate keeps the quality
\* unavailable, and that a ten-second view has nothing but its frequency.
Filled(v, p, piece, field) ==
  /\ v.present
  /\ piece \in v.parts
  /\ IF field = "frequency" THEN p \in {"Basic", "Seconds10"}
     ELSE p # "Seconds10"

\* quality: the six qualities of a measurement, one to one.
QualityOf(q) ==
  CASE q = "unavailable" -> "Unavailable" [] q = "valid" -> "Valid"
    [] q = "invalid" -> "Invalid" [] q = "out_of_range" -> "OutOfRange"
    [] q = "timed_out" -> "TimedOut" [] q = "arithmetic_error" -> "ArithmeticError"

\* value: one reading of the view, with its unit and provenance.
Value(key, case, v, p) ==
  IF Filled(v, p, case[1], case[2])
  THEN [key |-> key, unit |-> case[3], quality |-> QualityOf(v.quality),
        from |-> [field |-> case[2], lane |-> LaneOf(key.id),
                  epoch |-> IF case[1] \in {"energy", "demand"} THEN v.epoch ELSE 0]]
  ELSE [key |-> key, unit |-> case[3], quality |-> "Unavailable",
        from |-> NoReading]

\* unavailable: an answer without a reading, in the catalogue's unit.
UnavailableValue(key) ==
  [key |-> key, unit |-> Describe(key).unit, quality |-> "Unavailable",
   from |-> NoReading]

\* The case of a family in project's groups and switch, as a set: a family
\* without a case falls to the default.
CasesOf ==
  [f \in Families |-> {t[f] : t \in {t \in Tables : f \in DOMAIN t}}]

\* The body of project's loop: an indexed key has no reading, whatever its
\* family.
Projected(key, v, p) ==
  IF key.index # 0 THEN UnavailableValue(key)
  ELSE Value(key, CHOOSE c \in CasesOf[FamilyOf[key.id]] : TRUE, v, p)

\* supported.
Supported(p) == AttributesFor(p, "Snapshot")

\* The keys an answer is about: an empty selection means everything supported.
Selection(selection, p) ==
  IF selection = <<>> THEN AttributeSet(Supported(p))
  ELSE AttributeSet(selection)

\* The values of project, in selection order; the default of the switch adds
\* nothing.
Values(keys, v, p) ==
  LET cased == SelectSeq(keys, LAMBDA key : \/ key.index # 0
                                            \/ CasesOf[FamilyOf[key.id]] # {})
  IN [i \in DOMAIN cased |-> Projected(cased[i], v, p)]

\* project: an unknown identity anywhere in the selection throws. The energy
\* and demand metadata are copied with the session they belong to (here: its
\* reset epoch, zero when there is none).
Project(selection, v, p) ==
  LET keys == Selection(selection, p)
  IN IF \E i \in DOMAIN keys : ~ Known(keys[i].id)
     THEN [status |-> "rejected", values |-> <<>>, energy |-> 0, demand |-> 0]
     ELSE [status |-> "answered", values |-> Values(keys, v, p),
           energy |-> IF p = "Basic" /\ "energy" \in v.parts THEN v.epoch ELSE 0,
           demand |-> IF p = "Demand" /\ "demand" \in v.parts THEN v.epoch ELSE 0]

-----------------------------------------------------------------------------
\* The ledger laid over an answer.

\* replace_group: every value of the group is read again from the ledger; the
\* test looks at the identity only.
ReplaceGroup(values, groups, epoch) ==
  [i \in DOMAIN values |->
     LET key == values[i].key
         f == FamilyOf[key.id]
     IN IF f \in DOMAIN groups
        THEN [key |-> key, unit |-> groups[f][3], quality |-> "Valid",
              from |-> [field |-> groups[f][2], lane |-> LaneOf(key.id),
                        epoch |-> epoch]]
        ELSE values[i]]

\* overlay_authoritative_energy.
OverlayEnergy(result, epoch) ==
  [result EXCEPT !.energy = epoch,
                 !.values = ReplaceGroup(@, EnergyGroups, epoch)]

\* overlay_authoritative_demand.
OverlayDemand(result, epoch) ==
  [result EXCEPT !.demand = epoch,
                 !.values = ReplaceGroup(@, DemandGroups, epoch)]

\* A variant that asks the ledger for energy only.
OverlayEnergyOnly(result, p, reachable) ==
  IF reachable /\ ledger # 0 /\ result.status = "answered" /\ p = "Basic"
  THEN OverlayEnergy(result, ledger) ELSE result

\* The overlay of meter_snapshot_response: a meter-stream that cannot be
\* reached, or that has no totals yet, leaves the view's values.
Overlay(result, p, reachable) ==
  IF ~ reachable \/ ledger = 0 \/ result.status # "answered" THEN result
  ELSE IF p = "Basic" THEN OverlayEnergy(result, ledger)
  ELSE IF p = "Demand" THEN OverlayDemand(result, ledger) ELSE result

-----------------------------------------------------------------------------

\* The record families that update each period.
PartsOf(p) ==
  CASE p = "Basic" -> {"fundamental", "power", "phasor", "unbalance", "energy"}
    [] p = "Demand" -> {"demand"}
    [] p = "Seconds10" -> {"fundamental"}
    [] OTHER -> {"fundamental", "power", "phasor", "unbalance"}

Init ==
  /\ period \in Periods
  /\ view = NoView
  /\ ledger = 0
  /\ answer = NoAnswer

\* A new view replaces the slot. Energy and demand are the totals the ledger
\* acknowledged for that record.
Publish ==
  /\ answer = NoAnswer
  /\ \E quality \in Qualities, piece \in PartsOf(period) \cup {"all"} :
       LET parts == IF piece = "all" THEN PartsOf(period) ELSE {piece}
           epoch == IF parts \cap {"energy", "demand"} # {} /\ ledger = 0
                    THEN 1 ELSE ledger
       IN /\ view' = [present |-> TRUE, parts |-> parts, quality |-> quality,
                      epoch |-> epoch]
          /\ ledger' = epoch
  /\ UNCHANGED <<period, answer>>

\* An operator resets the totals: the ledger starts a new epoch.
Reset ==
  /\ answer = NoAnswer
  /\ ledger \in 1 .. (MaxEpoch - 1)
  /\ ledger' = ledger + 1
  /\ UNCHANGED <<period, view, answer>>

Answered(result, via, selection, reachable) ==
  answer' = [status |-> result.status, via |-> via, selection |-> selection,
             values |-> result.values, energy |-> result.energy,
             demand |-> result.demand, reachable |-> reachable,
             view |-> view, epoch |-> ledger]

NoSnapshot == [status |-> "none", values |-> <<>>, energy |-> 0, demand |-> 0]

\* latest, in process. An empty slot is no snapshot, whatever was selected.
Latest(selection) ==
  /\ answer = NoAnswer
  /\ Answered(IF view.present THEN Project(selection, view, period)
              ELSE NoSnapshot, "process", selection, FALSE)
  /\ UNCHANGED <<period, view, ledger>>

\* subscribe_latest: the view just published, projected for the subscriber.
Deliver(selection) ==
  /\ answer = NoAnswer
  /\ view.present
  /\ Answered(Project(selection, view, period), "subscription", selection, FALSE)
  /\ UNCHANGED <<period, view, ledger>>

\* meter_snapshot_response, asked through the acquisition provider.
Request(selection) ==
  /\ answer = NoAnswer
  /\ \E reachable \in BOOLEAN :
       Answered(IF view.present
                THEN Overlay(Project(selection, view, period), period, reachable)
                ELSE NoSnapshot, "acquisition", selection, reachable)
  /\ UNCHANGED <<period, view, ledger>>

\* The consumer is done with the answer.
Consumed ==
  /\ answer # NoAnswer
  /\ answer' = NoAnswer
  /\ UNCHANGED <<period, view, ledger>>

Next ==
  \/ Publish
  \/ Reset
  \/ \E selection \in Selections :
       Latest(selection) \/ Deliver(selection) \/ Request(selection)
  \/ Consumed

Spec == Init /\ [][Next]_vars

-----------------------------------------------------------------------------
\* Types.
TypeOK ==
  /\ period \in Periods
  /\ view.parts \subseteq ViewParts
  /\ ledger \in 0 .. MaxEpoch
  /\ answer.status \in {"idle", "none", "answered", "rejected"}

Given == {answer.values[i] : i \in DOMAIN answer.values}

FirstAt(s, x) == CHOOSE i \in DOMAIN s : s[i] = x /\ \A j \in 1 .. (i - 1) : s[j] # x

\* Every selected attribute is answered exactly once and in the order asked,
\* and an answer is refused exactly when it names an identity the catalogue
\* does not have: nothing disappears silently (the comment above describe in
\* project, and MeterSnapshotRequest::attributes).
SelectionAnsweredOnce ==
  LET asked == answer.selection
      keys == [i \in DOMAIN answer.values |-> answer.values[i].key]
  IN /\ answer.status = "rejected" => \E i \in DOMAIN asked : asked[i].id \notin Ids
     /\ answer.status = "answered" =>
          /\ Cardinality(ToSet(keys)) = Len(keys)
          /\ asked # <<>> => ToSet(keys) = ToSet(asked)
          /\ asked # <<>> =>
               \A i \in 1 .. (Len(keys) - 1) :
                 FirstAt(asked, keys[i]) < FirstAt(asked, keys[i + 1])

\* The unit of a value is the catalogue's unit for its attribute, whether the
\* value was projected, refused a reading or overlaid: three places name it.
UnitsAreTheCatalogues == \A v \in Given : v.unit = Describe(v.key).unit

MembersOf == [g \in Groups |-> ToSet(AttributesIn(g))]

\* The tables of the catalogue agree on every attribute answered: its label
\* names it, its group lists it, and its kind offers circular averages for
\* angles, differences for counters and nothing but the last value for codes
\* and peaks.
DescriptorsAgree ==
  \A v \in Given :
    LET d == Describe(v.key)
    IN /\ d.label = v.key.id
       /\ v.key.id \in MembersOf[d.group]
       /\ (d.kind = "CircularAngle") = (d.unit = "Millidegrees")
       /\ (d.kind = "CumulativeCounter") =
            (d.unit \in {"MicroWattHours", "MicroVarHours", "MicroVoltAmpereHours"})
       /\ (d.kind = "Categorical") = (d.unit = "CategoricalCode")
       /\ "Average" \in d.calculations => d.kind = "Linear"

\* No two attributes of an answer show the same reading of the view, and an
\* overlaid total stands under the attribute the view would have shown it
\* under: a projection never mixes up phases or quantities.
ReadingIsItsOwn ==
  LET read == {v \in Given : v.key.index = 0 /\ v.from # NoReading}
  IN /\ Cardinality({v.from : v \in read}) = Cardinality(read)
     /\ \A v \in read : \E c \in CasesOf[FamilyOf[v.key.id]] : c[2] = v.from.field

\* What the capability matrix does not list for the period is never given a
\* reading by the provider, and what it lists has one as soon as all the
\* record families of the period arrived (guide, section 7: "Known attributes
\* not implemented for a period are returned as `Unavailable`").
CapabilitiesAreExact ==
  answer.via # "acquisition" =>
    \A v \in Given :
      /\ v.from # NoReading => SupportsAttribute(v.key, period, "Snapshot")
      /\ /\ SupportsAttribute(v.key, period, "Snapshot")
         /\ answer.view.parts = PartsOf(period)
         => v.from # NoReading

\* All the totals of one answer belong to one reset epoch, the one its
\* metadata states.
TotalsShareOneEpoch ==
  \A v \in Given :
    /\ v.from.field \in {EnergyGroups[f][2] : f \in DOMAIN EnergyGroups}
         => v.from.epoch = answer.energy
    /\ v.from.field \in {DemandGroups[f][2] : f \in DOMAIN DemandGroups}
         => v.from.epoch = answer.demand

\* After a reset, an answer obtained while meter-stream is reachable shows no
\* total of an earlier epoch ("so REST/MQTT/Modbus cannot retain pre-reset
\* peaks until the next (potentially ten-minute) RPU family").
ResetIsVisible ==
  /\ answer.via = "acquisition"
  /\ answer.reachable
  => \A v \in Given : v.from.epoch \in {0, answer.epoch}

-----------------------------------------------------------------------------
\* A snapshot answers what was asked: every selected attribute once and in the
\* order asked, with the unit of the catalogue and a descriptor that fits, from
\* a reading of its own; what the capabilities promise is what a view holds;
\* and totals are of one epoch, the reset one as soon as it is reported
\* (meter_snapshot.cpp, meter_attributes.cpp).
AnswersAreExact ==
  /\ SelectionAnsweredOnce /\ UnitsAreTheCatalogues /\ DescriptorsAgree
  /\ ReadingIsItsOwn /\ CapabilitiesAreExact
  /\ TotalsShareOneEpoch /\ ResetIsVisible
=============================================================================
