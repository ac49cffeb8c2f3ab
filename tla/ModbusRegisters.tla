-------------------------- MODULE ModbusRegisters --------------------------
(***************************************************************************)
(* What a Modbus request is answered with: the protocol engine             *)
(* (common/mnc/modbus/request_handler.cpp) over the MSAP1 register bank    *)
(* (common/msap1/modbus), whose map is the constexpr table of              *)
(* register_map/msap1_register_schema.hpp with its addresses.              *)
(*                                                                         *)
(* The bank takes one snapshot of one measurement period per request and   *)
(* asks it only for the attributes the requested registers need.  A        *)
(* register word is the token [name, word, period, at, valid]: which       *)
(* 16-bit word of which value, of which period and publication, and which  *)
(* of the values it speaks of were valid.  What number an encoded word     *)
(* holds is not modelled; how many words a value has is.                   *)
(***************************************************************************)
EXTENDS Integers, Sequences, FiniteSets, SequencesExt, Functions

CONSTANTS
    Unit,          \* the configured unit id
    Requests,      \* the requests clients send
    MaxPublished,  \* bound on the publications
    ValidAt,       \* publication number -> the attributes that are valid in it
    Faults         \* how often the snapshot provider may throw

-----------------------------------------------------------------------------
(* The register map. *)

Holding == 3
Input == 4
NoPeriod == "none"

Single(name) == <<name, "">>
Phases(family) == <<<<family, "A">>, <<family, "B">>, <<family, "C">>, <<family, "Total">>>>

(* A dense group of measurements from an absolute base. *)
make_attribute_block(base, period, words, names) ==
    [i \in DOMAIN names |->
        [function |-> Input, address |-> base + (i - 1) * words, words |-> words,
         kind |-> "measurement", name |-> names[i], period |-> period]]

(* Status fields, each after the width of those before it. *)
make_special_block(function, base, period, fields) ==
    [i \in DOMAIN fields |->
        [function |-> function,
         address |-> base + FoldFunction(+, 0, [j \in 1..(i - 1) |-> fields[j][2]]),
         words |-> fields[i][2], kind |-> "special", name |-> Single(fields[i][1]),
         period |-> period]]

BasicAttributes ==
    [i \in 1..8 |-> Single(<<"Frequency", "VanRms", "VbnRms", "VcnRms", "IaRms",
                             "IbRms", "IcRms", "InRms">>[i])]

metadata == make_special_block(Holding, 0, NoPeriod,
    <<<<"map_version", 1>>, <<"word_order_marker", 1>>, <<"attribute_count", 1>>>>)

basic_measurements ==
       make_attribute_block(0, "Basic", 2, SubSeq(BasicAttributes, 1, 1))
    \o make_attribute_block(2, "Basic", 2, SubSeq(BasicAttributes, 2, 4))
    \o make_attribute_block(8, "Basic", 2, SubSeq(BasicAttributes, 5, 8))

basic_status == make_special_block(Input, 16, "Basic",
    <<<<"quality_mask", 1>>, <<"period", 1>>, <<"source_sequence", 2>>,
      <<"configuration_generation", 2>>>>)

(* Seven families of four 64-bit values, at 0x0100, 0x0110, ... *)
EnergyFamilies ==
    <<"ActiveImportEnergy", "ActiveExportEnergy", "ApparentEnergy",
      "ReactiveEnergyQuadrantI", "ReactiveEnergyQuadrantII",
      "ReactiveEnergyQuadrantIII", "ReactiveEnergyQuadrantIV">>

energy_published_attributes ==
    FlattenSeq([f \in DOMAIN EnergyFamilies |->
        make_attribute_block(256 + 16 * (f - 1), "Basic", 4, Phases(EnergyFamilies[f]))])

energy_metadata == make_special_block(Input, 368, "Basic",
    <<<<"energy_session_id", 4>>, <<"energy_reset_epoch", 4>>,
      <<"energy_last_sample", 4>>, <<"energy_accepted_samples", 4>>,
      <<"energy_skipped_samples", 4>>, <<"energy_accepted_blocks", 2>>,
      <<"energy_skipped_blocks", 2>>, <<"energy_flags", 2>>,
      <<"energy_quality_mask", 4>>>>)

(* Three families of four 64-bit values, at 0x2000, 0x2010, 0x2020. *)
DemandFamilies == <<"CurrentActiveDemand", "ImportDemandPeak", "ExportDemandPeak">>

demand_published_attributes ==
    FlattenSeq([f \in DOMAIN DemandFamilies |->
        make_attribute_block(8192 + 16 * (f - 1), "Demand", 4, Phases(DemandFamilies[f]))])

demand_metadata == make_special_block(Input, 8240, "Demand",
    <<<<"demand_session_id", 4>>, <<"demand_reset_epoch", 4>>,
      <<"demand_last_sample", 4>>, <<"demand_interval_anchor_sample", 4>>,
      <<"demand_source_interval_count", 2>>, <<"demand_source_status", 2>>,
      <<"demand_method", 1>>, <<"demand_window_seconds", 2>>,
      <<"demand_update_seconds", 2>>, <<"demand_profile_generation", 2>>,
      <<"demand_flags", 2>>, <<"demand_quality_mask", 1>>>>)

demand_peak_anchors == make_special_block(Input, 8272, "Demand",
    <<<<"demand_import_peak_sample_a", 4>>, <<"demand_import_peak_sample_b", 4>>,
      <<"demand_import_peak_sample_c", 4>>, <<"demand_import_peak_sample_total", 4>>,
      <<"demand_export_peak_sample_a", 4>>, <<"demand_export_peak_sample_b", 4>>,
      <<"demand_export_peak_sample_c", 4>>, <<"demand_export_peak_sample_total", 4>>>>)

frequency_10s == make_attribute_block(24576, "Seconds10", 2, <<Single("Frequency")>>)

register_map ==
    metadata \o basic_measurements \o basic_status \o energy_published_attributes
    \o energy_metadata \o demand_published_attributes \o demand_metadata
    \o demand_peak_anchors \o frequency_10s

definition_end(d) == d.address + d.words

precedes(d, e) ==
    d.function < e.function \/ (d.function = e.function /\ d.address < e.address)

(* The reserved regions, as <<function, base, size>>. *)
register_blocks ==
    {<<Holding, 0, 256>>, <<Input, 0, 2>>, <<Input, 2, 6>>, <<Input, 8, 8>>,
     <<Input, 16, 16>>, <<Input, 32, 224>>, <<Input, 256, 3840>>}
    \cup {<<Input, 4096 * k, 4096>> : k \in 1..6}

overlaps(b1, e1, b2, e2) == b1 < e2 /\ b2 < e1

validate_blocks ==
    \A b \in register_blocks :
        /\ b[3] > 0 /\ b[2] + b[3] <= 65536
        /\ \A c \in register_blocks \ {b} :
            b[1] = c[1] => ~overlaps(b[2], b[2] + b[3], c[2], c[2] + c[3])

(* The static_assert: blocks and definitions are well formed, sorted,      *)
(* inside exactly one block, disjoint, and no measurement appears twice.   *)
validate_register_map ==
    /\ validate_blocks
    /\ \A i \in DOMAIN register_map :
        LET d == register_map[i] IN
        /\ d.words > 0 /\ definition_end(d) <= 65536
        /\ Cardinality({b \in register_blocks :
                /\ b[1] = d.function /\ d.address >= b[2]
                /\ definition_end(d) <= b[2] + b[3]}) = 1
        /\ i > 1 => precedes(register_map[i - 1], d)
        /\ \A j \in (i + 1)..Len(register_map) :
            LET e == register_map[j] IN
            /\ d.function = e.function =>
                ~overlaps(d.address, definition_end(d), e.address, definition_end(e))
            /\ ~(/\ d.kind = "measurement" /\ e.kind = "measurement"
                 /\ d.name = e.name /\ d.period = e.period)

ASSUME MapIsValid == validate_register_map

(* The binary search for the first definition after the address. *)
UpperBound(function, address) ==
    LET NotAfter(d) == \/ d.function < function
                       \/ d.function = function /\ d.address <= address
        Search[range \in Nat \X Nat] ==
            LET middle == range[1] + (range[2] - range[1]) \div 2 IN
            IF range[1] >= range[2] THEN range[1]
            ELSE IF NotAfter(register_map[middle + 1])
                 THEN Search[<<middle + 1, range[2]>>]
                 ELSE Search[<<range[1], middle>>]
    IN  Search[<<0, Len(register_map)>>]

NoDefinition == [function |-> 0, address |-> 0, words |-> 0, kind |-> "none",
                 name |-> Single("none"), period |-> NoPeriod]

find_definition(function, address) ==
    LET Covers(d) == /\ d.function = function
                     /\ d.address <= address /\ address < definition_end(d)
        At(first) == IF first > 0 /\ Covers(register_map[first])
                     THEN register_map[first] ELSE NoDefinition
    IN  At(UpperBound(function, address))

-----------------------------------------------------------------------------
VARIABLES
    published,   \* how many snapshots acquisition has published
    last,        \* the last exchange: [request, response, asked, at]
    left         \* provider faults left

vars == <<published, last, left>>

Silence == [kind |-> "silent"]
Exception(code) == [kind |-> "exception", code |-> code]
Values(words) == [kind |-> "values", words |-> words]
Echo == [kind |-> "echo"]

-----------------------------------------------------------------------------
(* The register bank. *)

(* Which attributes a register's value is computed from. *)
Mask(name) ==
    CASE name = Single("quality_mask") -> ToSet(BasicAttributes)
      [] name = Single("energy_quality_mask") ->
            {energy_published_attributes[i].name : i \in DOMAIN energy_published_attributes}
      [] name = Single("demand_quality_mask") ->
            {demand_published_attributes[i].name : i \in DOMAIN demand_published_attributes}
      [] OTHER -> {}

(* A variant that asks for what the registers name and no more. *)
NeedsOwnOnly(d) == IF d.kind = "measurement" THEN {d.name} ELSE {}

Needs(d) ==
    IF d.kind = "measurement" THEN {d.name}
    ELSE IF d.period = NoPeriod THEN {} ELSE Mask(d.name)

(* The one period of a window's definitions and the attributes to ask for. *)
snapshot_selection(definitions) ==
    [periods |-> {d.period : d \in definitions} \ {NoPeriod},
     attributes |-> UNION {Needs(d) : d \in definitions}]

(* How many words the encoder produces: encode_measurement and             *)
(* encode_special choose the encoding themselves.                          *)
EncodedWords(d) ==
    CASE d.kind = "measurement" -> d.words
      [] d.name[1] \in {"map_version", "word_order_marker", "attribute_count",
                        "quality_mask", "period", "demand_method",
                        "demand_quality_mask"} -> 1
      [] d.name[1] \in {"source_sequence", "configuration_generation",
                        "energy_accepted_blocks", "energy_skipped_blocks",
                        "energy_flags", "demand_source_interval_count",
                        "demand_source_status", "demand_window_seconds",
                        "demand_update_seconds", "demand_profile_generation",
                        "demand_flags"} -> 2
      [] OTHER -> 4

(* A snapshot answers for the attributes it was asked for and no others. *)
encode(d, word, at, asked) ==
    [name |-> d.name, word |-> word, period |-> d.period,
     at |-> IF d.period = NoPeriod THEN 0 ELSE at,
     valid |-> IF d.kind = "measurement" THEN {d.name} \cap asked \cap ValidAt[at]
               ELSE IF d.period = NoPeriod THEN {}
               ELSE Mask(d.name) \cap asked \cap ValidAt[at]]

(* Msap1RegisterBank::read: [response, asked], where asked says whether    *)
(* the provider was called.                                                *)
read(function, address, count, broken) ==
    LET Fail(code, asked) == [response |-> Exception(code), asked |-> asked]
        Encoded(found, selection) ==
            IF \/ selection.periods # {} /\ broken
               \/ \E a \in DOMAIN found : a - found[a].address >= EncodedWords(found[a])
            THEN Fail("server_device_failure", selection.periods # {})
            ELSE [response |-> Values([i \in 1..count |->
                      LET d == found[address + i - 1] IN
                      encode(d, address + i - 1 - d.address, published,
                             selection.attributes)]),
                  asked |-> selection.periods # {}]
        Selected(found, selection) ==
            IF NoDefinition \in Range(found) \/ Cardinality(selection.periods) > 1
            THEN Fail("illegal_data_address", FALSE)
            ELSE Encoded(found, selection)
        Found(found) == Selected(found, snapshot_selection(Range(found))) IN
    IF address + count > 65536 THEN Fail("illegal_data_address", FALSE)
    ELSE Found([a \in address..(address + count - 1) |-> find_definition(function, a)])

-----------------------------------------------------------------------------
(* RequestHandler::handle.  A request is [unit, broadcastAllowed, function,*)
(* size, address, count, bytes]: size is the PDU's length and bytes the    *)
(* byte count of a multiple write.                                         *)

Broadcast(q) == q.broadcastAllowed /\ q.unit = 0
IsRead(q) == q.function \in {Holding, Input}

handle_read(q, broken) ==
    IF Broadcast(q) THEN [response |-> Silence, asked |-> FALSE]
    ELSE IF q.size # 5 \/ q.count = 0 \/ q.count > 125
    THEN [response |-> Exception("illegal_data_value"), asked |-> FALSE]
    ELSE read(q.function, q.address, q.count, broken)

(* The map exposes no writable register. *)
write_registers(q) == "illegal_data_address"

WriteFits(q) ==
    IF q.function = 6 THEN q.size = 5
    ELSE /\ q.size >= 6 /\ q.count \in 1..123
         /\ q.bytes = 2 * q.count /\ q.size = 6 + q.bytes

handle_write(q) ==
    IF Broadcast(q) THEN Silence
    ELSE IF ~WriteFits(q) THEN Exception("illegal_data_value")
    ELSE IF write_registers(q) = "none" THEN Echo
    ELSE Exception(write_registers(q))

handle(q, broken) ==
    IF ~Broadcast(q) /\ q.unit # Unit THEN [response |-> Silence, asked |-> FALSE]
    ELSE IF IsRead(q) THEN handle_read(q, broken)
    ELSE [response |-> IF q.function \in {6, 16} THEN handle_write(q)
                       ELSE IF Broadcast(q) THEN Silence ELSE Exception("illegal_function"),
          asked |-> FALSE]

-----------------------------------------------------------------------------
NoRequest == [unit |-> 0, broadcastAllowed |-> FALSE, function |-> 0, size |-> 0,
              address |-> 0, count |-> 0, bytes |-> 0]

NoExchange == [request |-> NoRequest, response |-> Silence, asked |-> FALSE,
               at |-> 1, broken |-> FALSE]

Init ==
    /\ published = 1
    /\ last = NoExchange
    /\ left = Faults

(* Acquisition publishes new snapshots (external). *)
Publish ==
    /\ published < MaxPublished
    /\ published' = published + 1
    /\ UNCHANGED <<last, left>>

Exchange(q, broken) ==
    LET result == handle(q, broken) IN
    /\ left' = IF broken THEN left - 1 ELSE left
    /\ last' = [request |-> q, response |-> result.response,
                asked |-> result.asked, at |-> published, broken |-> broken]
    /\ UNCHANGED published

Answer == last = NoExchange /\ \E q \in Requests : Exchange(q, FALSE)
AnswerBroken == last = NoExchange /\ left > 0 /\ \E q \in Requests : Exchange(q, TRUE)

(* The response has gone out and the transport takes the next request. *)
Sent == last # NoExchange /\ last' = NoExchange /\ UNCHANGED <<published, left>>

Next == Answer \/ AnswerBroken \/ Sent \/ Publish

Spec == Init /\ [][Next]_vars

-----------------------------------------------------------------------------
(* The properties speak of the last exchange.  Owner is the definition     *)
(* that covers an address, found by looking at all of them.                *)

Window(q) == q.address..(q.address + q.count - 1)
Owners(function, a) ==
    {d \in ToSet(register_map) :
        d.function = function /\ d.address <= a /\ a < d.address + d.words}

TypeOK ==
    /\ published \in 1..MaxPublished
    /\ last.request \in Requests \cup {NoRequest}
    /\ last.response.kind \in {"silent", "exception", "values"}
    /\ left \in 0..Faults

(* A read is answered with values exactly when it is addressed to this     *)
(* unit, asks for 1 to 125 registers and every one of them is mapped: the  *)
(* binary search finds each owner and no gap, the encoders fill every      *)
(* word, and the only other failure is the provider's.                     *)
ValuesExactlyWhenMapped ==
    IsRead(last.request) =>
        LET q == last.request IN
        last.response.kind = "values" <=>
            /\ q.unit = Unit /\ q.size = 5 /\ q.count \in 1..125
            /\ \A a \in Window(q) : Owners(q.function, a) # {}
            /\ ~(last.broken /\ last.asked)

(* A register reads the same in every request that covers it: the word is  *)
(* the owner's, of the snapshot of the owner's period, and a mask or a     *)
(* measurement does not depend on what else the request asked for.         *)
WordIndependentOfWindow ==
    last.response.kind = "values" =>
        \A i \in DOMAIN last.response.words :
            LET q == last.request
                a == q.address + i - 1
                w == last.response.words[i] IN
            \E d \in Owners(q.function, a) :
                /\ w.name = d.name /\ w.word = a - d.address
                /\ d.period # NoPeriod =>
                    /\ w.at = last.at
                    /\ w.valid = (IF d.kind = "measurement" THEN {d.name} ELSE Mask(d.name))
                                    \cap ValidAt[last.at]

(* The acquisition service is not called for a request that is refused.    *)
RefusedBeforeAsking ==
    last.asked => \A a \in Window(last.request) : Owners(last.request.function, a) # {}

(* A broadcast and another unit's request are never answered.              *)
SilentUnlessAddressed ==
    last.request.unit # Unit => last.response.kind = "silent"

-----------------------------------------------------------------------------
\* A read answers registers exactly when the whole window is mapped, each word
\* whatever the window around it, nothing is asked of the store otherwise, and
\* another unit's request is not answered (register_map.cpp, modbus_server.cpp).
ReadsAreExact ==
    /\ ValuesExactlyWhenMapped /\ WordIndependentOfWindow
    /\ RefusedBeforeAsking /\ SilentUnlessAddressed
=============================================================================
