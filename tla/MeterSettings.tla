---------------------------- MODULE MeterSettings ----------------------------
(***************************************************************************)
(* The arithmetic between a settings document and the words the firmware     *)
(* receives: which values the validators accept, and what they become on the *)
(* wire.  One action per section: a candidate is validated and, when it is   *)
(* accepted, converted.                                                      *)
(*                                                                          *)
(* Percentages are counted in thousandths of a percent, the reference        *)
(* voltage in units of 4096 microvolts (so that 2^32 microvolts are 2^20      *)
(* units), phases in degrees, harmonic percentages in tenths.                 *)
(***************************************************************************)
EXTENDS Integers, Sequences, FiniteSets

CONSTANTS
    Percentages,    \* thresholds to try, in 1/1000 %
    References,     \* reference voltages to try, in 4096 microvolts
    Degrees,        \* phases to try
    PhaseScale      \* one turn of a phase word (2^32 in the code)

VARIABLES section,   \* the candidate's section
          accepted,  \* the validators accept it
          wire       \* what it becomes on the wire

vars == <<section, accepted, wire>>

NoWords == [none |-> TRUE]

\* A behaviour takes one candidate.
Fresh == section.kind = "none"

\* llround of a ratio: half away from zero.
Rounded(n, d) == IF n >= 0 THEN (2 * n + d) \div (2 * d) ELSE -((2 * (-n) + d) \div (2 * d))

-----------------------------------------------------------------------------
(* Current wiring.                                                          *)

Phases == <<"A", "B", "C", "N">>
PhaseCode(p) == CHOOSE i \in 0..3 : Phases[i + 1] = p

\* The two-bit codes of the four channels, channel 0 in the lowest bits.
PhaseMap(channels) ==
    PhaseCode(channels[1]) + 4 * PhaseCode(channels[2])
        + 16 * PhaseCode(channels[3]) + 64 * PhaseCode(channels[4])

\* Every phase once, and a preset matches its assignments (0xe4, 0xd8).
ValidWiring(w) ==
    /\ Cardinality({w.channels[i] : i \in 1..4}) = 4
    /\ w.order = "ABC" => PhaseMap(w.channels) = 228
    /\ w.order = "ACB" => PhaseMap(w.channels) = 216

InvertMask(w) ==
    LET Bit(i) == IF w.reversed[i] THEN 2^(i - 1) ELSE 0
    IN  Bit(1) + Bit(2) + Bit(3) + Bit(4)

\* The first channel whose code is the logical one.
PhysicalFor(w, logical) ==
    LET found == {i \in 1..4 : PhaseCode(w.channels[i]) = logical}
    IN  IF found = {} THEN -1 ELSE (CHOOSE i \in found : \A j \in found : i <= j) - 1

CheckWiring ==
    /\ Fresh
    /\ \E c \in [1..4 -> {"A", "B", "C", "N"}], r \in [1..4 -> BOOLEAN],
          o \in {"ABC", "ACB", "CUSTOM"} :
          section' = [kind |-> "wiring", channels |-> c, reversed |-> r, order |-> o]
    /\ accepted' = ValidWiring(section')
    /\ wire' = IF accepted' THEN [map |-> PhaseMap(section'.channels),
                                  invert |-> InvertMask(section')] ELSE NoWords

-----------------------------------------------------------------------------
(* The fallback window.                                                     *)

SampleRates == {1000, 2000, 4000, 8000, 16000, 32000, 64000, 128000}

CyclesPerBasicBlock(nominal) == IF nominal = 50 THEN 10 ELSE 12

CheckWindow ==
    /\ Fresh
    /\ \E rate \in SampleRates \cup {3000}, nominal \in {50, 60, 55} :
          section' = [kind |-> "window", rate |-> rate, nominal |-> nominal]
    /\ accepted' = /\ section'.rate \in SampleRates /\ section'.nominal \in {50, 60}
                   /\ (section'.rate * CyclesPerBasicBlock(section'.nominal))
                          % section'.nominal = 0
    /\ wire' = IF accepted'
               THEN [samples |-> (section'.rate * CyclesPerBasicBlock(section'.nominal))
                                     \div section'.nominal]
               ELSE NoWords

-----------------------------------------------------------------------------
(* Urms(1/2) detection.                                                     *)

FractionE4(p) == Rounded(p, 10)

\* A variant that forgets the hysteresis.
ValidBandAnyHysteresis(q) ==
    /\ q.reference \in 0..244140625
    /\ q.interruption >= 0 /\ q.hysteresis >= 0 /\ q.swell <= 655000
    /\ q.reference > 0 => q.interruption < q.sag /\ q.sag < q.swell

\* A zero reference is disarmed; otherwise the thresholds are ordered.
ValidBand(q) ==
    /\ q.reference \in 0..244140625
    /\ q.interruption >= 0 /\ q.hysteresis >= 0 /\ q.swell <= 655000
    /\ q.reference > 0 => q.interruption < q.sag /\ q.sag < q.swell /\ q.hysteresis < q.sag

\* The reference is a 32-bit word of microvolts.
BandWire(q) ==
    [reference |-> q.reference % 2^20, interruption |-> FractionE4(q.interruption),
     sag |-> FractionE4(q.sag), swell |-> FractionE4(q.swell),
     hysteresis |-> FractionE4(q.hysteresis)]

CheckBand ==
    /\ Fresh
    /\ \E r \in References, i, s, w, h \in Percentages :
          section' = [kind |-> "band", reference |-> r, interruption |-> i, sag |-> s,
                      swell |-> w, hysteresis |-> h]
    /\ accepted' = ValidBand(section')
    /\ wire' = IF accepted' THEN BandWire(section') ELSE NoWords

-----------------------------------------------------------------------------
(* Event profiles and the migration of documents that predate them.         *)

ValidProfile(p) ==
    /\ p.threshold \in 0..655350 /\ p.hysteresis \in 0..655350
    /\ p.hysteresis < p.threshold

ProfileWire(p) == [threshold |-> FractionE4(p.threshold), hysteresis |-> FractionE4(p.hysteresis)]

\* decode_pq_event_lifecycle_record, on the words of an event of this profile.
EventAccepted(w) == w.threshold # 0 /\ w.threshold <= 65535 /\ w.hysteresis < w.threshold

CheckProfile ==
    /\ Fresh
    /\ \E t, h \in Percentages :
          section' = [kind |-> "profile", threshold |-> t, hysteresis |-> h]
    /\ accepted' = ValidProfile(section')
    /\ wire' = IF accepted' THEN ProfileWire(section') ELSE NoWords

\* decode of schema 1 to 3: the voltage thresholds become event profiles.
Migrated(q) == {[threshold |-> t, hysteresis |-> q.hysteresis] :
                    t \in {q.sag, q.swell, q.interruption}}

\* A document of the old schema is valid when its band is.
CheckLegacy ==
    /\ Fresh
    /\ \E r \in References, i, s, w, h \in Percentages :
          section' = [kind |-> "legacy", reference |-> r, interruption |-> i, sag |-> s,
                      swell |-> w, hysteresis |-> h]
    /\ accepted' = ValidBand(section')
    /\ wire' = [valid |-> ValidBand(section') /\ \A p \in Migrated(section') : ValidProfile(p)]

-----------------------------------------------------------------------------
(* The simulator's tones.                                                   *)

Q16 == 65536
Fundamental == 50

MaximumPercent == 999

\* The word of a harmonic: channel mask below, amplitude in the upper half.
HarmonicWord(percent, mask) ==
    [mask |-> mask, fraction |-> Rounded(percent * Q16, 1000) % Q16]

CheckHarmonic ==
    /\ Fresh
    /\ \E percent \in {0, 1, 500, 998, 999, 1000, 1001}, mask \in {112, 15, 127},
          ratio \in {0, 1, 2, 9, 10, 127, 128}, rate \in {1000, 128000} :
          section' = [kind |-> "harmonic", percent |-> percent, mask |-> mask, ratio |-> ratio,
                      rate |-> rate]
    /\ accepted' = /\ section'.percent \in 0..MaximumPercent
                   /\ section'.ratio > 1 /\ section'.ratio < 128
                   /\ section'.ratio * Fundamental * 2 < section'.rate
    /\ wire' = IF accepted' THEN HarmonicWord(section'.percent, section'.mask) ELSE NoWords

\* std::fmod keeps the sign of its first operand.
Fmod(n, d) == IF n >= 0 THEN n % d ELSE -((-n) % d)

\* phase_q32: a negative remainder is one turn up; a full turn wraps to zero.
PhaseWord(degrees) ==
    LET turns == Fmod(degrees, 360)
    IN  Rounded((IF turns < 0 THEN turns + 360 ELSE turns) * PhaseScale, 360) % PhaseScale

CheckPhase ==
    /\ Fresh
    /\ \E d \in Degrees : section' = [kind |-> "phase", degrees |-> d]
    /\ accepted' = TRUE
    /\ wire' = [phase |-> PhaseWord(section'.degrees)]

-----------------------------------------------------------------------------

Init == section = [kind |-> "none"] /\ accepted = FALSE /\ wire = NoWords

Next == CheckWiring \/ CheckWindow \/ CheckBand \/ CheckProfile \/ CheckLegacy
        \/ CheckHarmonic \/ CheckPhase

Spec == Init /\ [][Next]_vars

Accepted(kind) == section.kind = kind /\ accepted

-----------------------------------------------------------------------------
(* Properties.                                                              *)

\* meter_config.cpp: for every accepted wiring the map the firmware uses and the
\* lookup the service uses are inverse to each other, on all four inputs.
WiringIsInvertible ==
    Accepted("wiring") =>
        \A l \in 0..3 :
            LET c == PhysicalFor(section, l)
            IN  c \in 0..3 /\ (wire.map \div 4^c) % 4 = l

\* "The division is exact at every supported sample rate for both nominals":
\* no supported combination is refused, and the window spans 200 ms exactly.
WindowIsExact ==
    section.kind = "window" /\ section.rate \in SampleRates /\ section.nominal \in {50, 60} =>
        accepted /\ wire.samples * 5 = section.rate

\* simulator_harmonics: the amplitude of an accepted harmonic fits the upper
\* half of its word, so that the firmware gets what the operator asked for.
HarmonicFits ==
    Accepted("harmonic") =>
        1000 * wire.fraction \in
            (section.percent * Q16 - 500)..(section.percent * Q16 + 500)

\* phase_q32: the word is the phase modulo one turn, for either sign, to half a
\* unit of the scale.
PhaseIsModular ==
    section.kind = "phase" =>
        /\ wire.phase \in 0..PhaseScale - 1
        /\ LET error == (360 * wire.phase - section.degrees * PhaseScale) % (360 * PhaseScale)
           IN  2 * error <= 360 \/ 2 * (360 * PhaseScale - error) <= 360

\* "anything else must describe a usable band, because thresholds that cross
\* would declare events that mean nothing": what an accepted armed band becomes
\* on the wire is armed and ordered.
BandIsUsable ==
    Accepted("band") /\ section.reference > 0 =>
        /\ wire.reference > 0
        /\ wire.interruption < wire.sag /\ wire.sag < wire.swell /\ wire.hysteresis < wire.sag

\* An event of an accepted profile is one the decoder accepts.
EventsDecode == Accepted("profile") => EventAccepted(wire)
=============================================================================
