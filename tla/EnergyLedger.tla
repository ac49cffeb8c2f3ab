---------------------------- MODULE EnergyLedger ----------------------------
(***************************************************************************)
(* The authoritative energy and demand ledger of the meter-stream service   *)
(* (src/common/msap1/meter/energy_ledger.cpp).                              *)
(*                                                                          *)
(* The real-time processor counts energy per boot session and forgets it at *)
(* every restart.  The ledger turns those volatile checkpoints into durable *)
(* lifetime counters, keeps the demand peaks, and applies administrative    *)
(* resets.  All 28 counters, and the four demand lanes, are treated alike   *)
(* by the code: one counter and one lane stand for them.  The two logs are  *)
(* what the processor measured, in order; a checkpoint that is never        *)
(* ingested was lost on the way, and one may be delivered again.            *)
(***************************************************************************)
EXTENDS Integers, Sequences, FiniteSets

CONSTANTS MaxInt,        \* INT64_MAX
          Nanos,         \* nanoseconds per second
          Sessions,      \* boot nonces of the real-time processor
          Windows,       \* <<sample count, sample rate>> of a checkpoint
          Steps,         \* energy between two checkpoints
          Demands,       \* signed demand of an interval, INT64_MIN included
          Profiles,      \* demand profiles (method, window, update period)
          FixedBlock,    \* the profiles whose method is fixed_block
          Keys,          \* idempotency keys of reset requests
          MaxEnergy,     \* bound: energy checkpoints measured
          MaxDemand      \* bound: demand intervals measured

\* A block lasts much longer than the reciprocal of its sample rate: its
\* duration in nanoseconds exceeds the rate in hertz.
ASSUME LedgerAssumption ==
    /\ MaxInt \in Nat \ {0} /\ Nanos \in Nat \ {0}
    /\ Steps \subseteq Nat /\ Demands \subseteq (-MaxInt - 1)..MaxInt
    /\ FixedBlock \subseteq Profiles
    /\ \A w \in Windows : /\ w[1] \in Nat \ {0} /\ w[2] \in Nat \ {0}
                          /\ w[2] < (w[1] * Nanos) \div w[2]

VARIABLES elog,          \* energy checkpoints measured, oldest first
          energy,        \* energy_state with latest_energy, or None
          energyRow,     \* the row of table energy_state, or None
          energyAudit,   \* table energy_reset_audit: <<key, resulting epoch>>
          consumed,      \* index in elog of the last checkpoint credited
          archived,      \* lifetime energy closed by resets
          flaws,         \* among "clip", "collision", "tail": see EnergyExact
          dlog,          \* demand intervals measured, oldest first
          demand,        \* demand_state with latest_demand, or None
          demandRow,     \* the row of table demand_state_profiled, or None
          demandAudit,   \* table demand_reset_audit
          covered,       \* index in dlog of the last interval ingested
          epochStart,    \* value of covered when the demand epoch began
          profileChanges,\* demand epochs opened by a profile change
          history        \* the rows of energy_history

eVars == <<elog, energy, energyRow, energyAudit, consumed, archived, flaws>>
dVars == <<dlog, demand, demandRow, demandAudit, covered, epochStart,
           profileChanges, history>>
vars == <<eVars, dVars>>

None == [epoch |-> -1]

Larger(a, b) == IF a > b THEN a ELSE b

-----------------------------------------------------------------------------
(* The real-time processor (external): sessions, counters, demand peaks.    *)

\* A checkpoint of the running session, or the first of a new one.  A boot
\* nonce may repeat.  total is all the energy ever measured.
MeasureEnergy ==
    /\ Len(elog) < MaxEnergy
    /\ \E d \in Steps :
         LET old == IF elog = <<>> THEN [stream |-> 0, total |-> 0]
                                   ELSE elog[Len(elog)]
             next(s, w, stream, seq, counter) ==
                [session |-> s, window |-> w, stream |-> stream, seq |-> seq,
                 counter |-> counter, total |-> old.total + d]
         IN  \/ /\ d <= MaxInt
                /\ \E s \in Sessions, w \in Windows :
                     elog' = Append(elog, next(s, w, old.stream + 1, 1, d))
             \/ /\ elog # <<>>
                /\ old.counter + d <= MaxInt
                /\ elog' = Append(elog, next(old.session, old.window,
                             old.stream, old.seq + 1, old.counter + d))
    /\ UNCHANGED <<energy, energyRow, energyAudit, consumed, archived, flaws,
                   dVars>>

\* One demand interval: of the running session and profile, or the first of
\* a new session or profile, whose peaks start from this interval alone.
MeasureDemand ==
    /\ Len(dlog) < MaxDemand
    /\ \E v \in Demands, valid \in BOOLEAN :
         LET imp == IF valid /\ v > 0 THEN v ELSE 0
             exp == IF ~valid \/ v >= 0 THEN 0
                    ELSE IF v < -MaxInt THEN MaxInt ELSE -v
             next(s, p, gen, seq, i, x) ==
                [session |-> s, profile |-> p, gen |-> gen, seq |-> seq,
                 current |-> v, valid |-> valid, rawImport |-> i,
                 rawExport |-> x, anchor |-> Len(dlog) + 1]
             old == dlog[Len(dlog)]
         IN  \/ /\ dlog = <<>>
                /\ \E s \in Sessions, p \in Profiles :
                     dlog' = <<next(s, p, 1, 1, imp, exp)>>
             \/ /\ dlog # <<>>
                /\ dlog' = Append(dlog, next(old.session, old.profile, old.gen,
                     old.seq + 1, Larger(old.rawImport, imp),
                     Larger(old.rawExport, exp)))
             \/ /\ dlog # <<>>
                /\ \E s \in Sessions, p \in Profiles, g \in {old.gen, old.gen + 1} :
                     /\ s # old.session \/ g # old.gen
                     /\ p # old.profile => g # old.gen \/ s # old.session
                     /\ dlog' = Append(dlog, next(s, p, g, 1, imp, exp))
    /\ UNCHANGED <<eVars, demand, demandRow, demandAudit, covered, epochStart,
                   profileChanges, history>>

-----------------------------------------------------------------------------
(* Calculation windows and what the database keeps of them.                 *)

Duration(w) == (w[1] * Nanos) \div w[2]

\* sample_rate: the rate written beside the sample count.
SampleRate(count, duration) ==
    IF count = 0 \/ duration <= 0 THEN 0 ELSE (count * Nanos) \div duration

\* load_energy and load_demand rebuild the duration from count and rate.
LoadedDuration(count, rate) == (count * Nanos) \div Larger(rate, 1)

PersistEnergy(s) ==
    [epoch |-> s.epoch, session |-> s.session, seq |-> s.seq,
     counter |-> s.counter, life |-> s.life, saturated |-> s.saturated,
     count |-> s.count, rate |-> SampleRate(s.count, s.duration)]

LoadEnergy(row) ==
    IF row = None THEN None
    ELSE [epoch |-> row.epoch, session |-> row.session, seq |-> row.seq,
          counter |-> row.counter, life |-> row.life,
          saturated |-> row.saturated, count |-> row.count,
          duration |-> LoadedDuration(row.count, row.rate)]

\* Every field of the demand state is written and read back.
PersistDemand(s) == s
LoadDemand(row) == row

-----------------------------------------------------------------------------
(* ingest_energy                                                            *)

SaturatingAdd(value, delta) == IF value > MaxInt - delta THEN MaxInt
                                                         ELSE value + delta

SameSession(r) == energy # None /\ r.session = energy.session

SameContent(r) == /\ r.counter = energy.counter
                  /\ r.window[1] = energy.count
                  /\ Duration(r.window) = energy.duration

\* What ingest_energy makes of a checkpoint.
EnergyVerdict(r) ==
    IF ~SameSession(r) THEN "accept"
    ELSE IF r.seq < energy.seq THEN "conflict"
    ELSE IF r.seq = energy.seq
         THEN IF SameContent(r) THEN "replay" ELSE "conflict"
    ELSE IF r.counter < energy.counter THEN "conflict" ELSE "accept"

\* Variants: every checkpoint counts in full; a new session starts at zero.
EnergyDeltaWhole(r) == r.counter

EnergyDelta(r) == IF SameSession(r) THEN r.counter - energy.counter
                                    ELSE r.counter

Life == IF energy = None THEN 0 ELSE energy.life

Credit(r) ==
    [epoch |-> IF energy = None THEN 0 ELSE energy.epoch,
     session |-> r.session, seq |-> r.seq, counter |-> r.counter,
     life |-> SaturatingAdd(Life, EnergyDelta(r)),
     saturated |-> Life > MaxInt - EnergyDelta(r),
     count |-> r.window[1], duration |-> Duration(r.window)]

\* Delivery keeps the order of sessions: a checkpoint of a session comes
\* before those of later ones, though it may be repeated or overtaken.
Deliverable(i) == consumed # 0 => elog[i].stream >= elog[consumed].stream

IngestEnergy ==
    \E i \in 1..Len(elog) :
      LET r == elog[i] IN
      /\ Deliverable(i)
      /\ EnergyVerdict(r) = "accept"
      /\ energy' = Credit(r)
      /\ energyRow' = PersistEnergy(Credit(r))
      /\ consumed' = i
      /\ flaws' = flaws \cup
           (IF Life > MaxInt - EnergyDelta(r) THEN {"clip"} ELSE {}) \cup
           (IF /\ SameSession(r)
               /\ consumed # 0 => r.stream # elog[consumed].stream
            THEN {"collision"} ELSE {}) \cup
           (IF \E j \in 1..(i - 1) : j > consumed /\ elog[j].stream # r.stream
            THEN {"tail"} ELSE {})
      /\ UNCHANGED <<elog, energyAudit, archived, dVars>>

-----------------------------------------------------------------------------
(* ingest_demand                                                            *)

DemandSession(r) == demand # None /\ r.session = demand.session

DemandSemantics(r) == demand # None /\ r.profile = demand.profile

SameInstance(r) == DemandSession(r) /\ DemandSemantics(r) /\ r.gen = demand.gen

ProfileChanged(r) == /\ demand # None
                     /\ \/ ~DemandSemantics(r)
                        \/ DemandSession(r) /\ r.gen # demand.gen

DemandVerdict(r) ==
    IF ~SameInstance(r) THEN "accept"
    ELSE IF r.seq < demand.seq THEN "conflict"
    ELSE IF r.seq = demand.seq
         THEN IF /\ r.current = demand.current /\ r.anchor = demand.anchor
                 /\ r.rawImport = demand.rawImport
                 /\ r.rawExport = demand.rawExport /\ r.valid = demand.valid
              THEN "replay" ELSE "conflict"
    ELSE IF r.rawImport < demand.rawImport \/ r.rawExport < demand.rawExport
         THEN "conflict" ELSE "accept"

\* demand_magnitude: INT64_MIN has no positive counterpart.
Magnitude(v) == IF v = -MaxInt - 1 THEN MaxInt ELSE IF v < 0 THEN -v ELSE v

\* The state the new interval starts from: a profile change opens an epoch, a
\* new session forgets the reset watermark, the same instance keeps it.
DemandBase(r) ==
    IF demand = None
    THEN [epoch |-> 0, baseImport |-> 0, baseExport |-> 0,
          peakImport |-> 0, peakExport |-> 0]
    ELSE IF ProfileChanged(r)
    THEN [epoch |-> demand.epoch + 1, baseImport |-> 0, baseExport |-> 0,
          peakImport |-> 0, peakExport |-> 0]
    ELSE [epoch |-> demand.epoch,
          baseImport |-> IF SameInstance(r) THEN demand.baseImport ELSE 0,
          baseExport |-> IF SameInstance(r) THEN demand.baseExport ELSE 0,
          peakImport |-> demand.peakImport, peakExport |-> demand.peakExport]

\* A variant without the reset watermark.
PeakAnyRaw(old, candidate, raw, base) == Larger(Larger(old, candidate), raw)

\* A peak takes the completed interval, and the source's own session peak
\* when that exceeds the reset watermark.
Peak(old, candidate, raw, base) ==
    LET p == Larger(old, candidate) IN IF raw > base THEN Larger(p, raw) ELSE p

ApplyDemand(r) ==
    LET b == DemandBase(r) IN
    [epoch |-> b.epoch, session |-> r.session, profile |-> r.profile,
     gen |-> r.gen, seq |-> r.seq, current |-> r.current, valid |-> r.valid,
     anchor |-> r.anchor, rawImport |-> r.rawImport, rawExport |-> r.rawExport,
     baseImport |-> b.baseImport, baseExport |-> b.baseExport,
     peakImport |-> Peak(b.peakImport,
        IF r.valid /\ r.current > 0 THEN r.current ELSE 0,
        r.rawImport, b.baseImport),
     peakExport |-> Peak(b.peakExport,
        IF r.valid /\ r.current < 0 THEN Magnitude(r.current) ELSE 0,
        r.rawExport, b.baseExport)]

\* A fixed-block interval snapshots the lifetime energy, keyed by session and
\* interval anchor, in the transaction that stores the interval.
HistoryAfter(r) ==
    IF energy = None \/ r.profile \notin FixedBlock THEN history
    ELSE {h \in history : h.session # energy.session \/ h.anchor # r.anchor}
         \cup {[session |-> energy.session, anchor |-> r.anchor,
                epoch |-> energy.epoch, life |-> energy.life]}

IngestDemand ==
    \E i \in 1..Len(dlog) :
      LET r == dlog[i] IN
      /\ i >= covered
      /\ DemandVerdict(r) = "accept"
      /\ demand' = ApplyDemand(r)
      /\ demandRow' = PersistDemand(ApplyDemand(r))
      /\ history' = HistoryAfter(r)
      /\ covered' = i
      /\ epochStart' = IF ProfileChanged(r) THEN covered ELSE epochStart
      /\ profileChanges' = profileChanges + (IF ProfileChanged(r) THEN 1 ELSE 0)
      /\ UNCHANGED <<dlog, demandAudit, eVars>>

-----------------------------------------------------------------------------
(* Administrative resets.                                                   *)

Used(audit, key) == \E a \in audit : a[1] = key

\* reset_energy answers a key it has already applied from the audit table.
ResetEnergy ==
    \E key \in Keys, expected \in 0..Cardinality(Keys) :
      /\ ~Used(energyAudit, key)
      /\ energy # None
      /\ expected = energy.epoch
      /\ energy' = [energy EXCEPT !.epoch = @ + 1, !.life = 0]
      /\ energyRow' = PersistEnergy([energy EXCEPT !.epoch = @ + 1, !.life = 0])
      /\ energyAudit' = energyAudit \cup {<<key, energy.epoch + 1>>}
      /\ archived' = archived + energy.life
      /\ UNCHANGED <<elog, consumed, flaws, dVars>>

\* reset_demand_peaks: the last source peaks become the watermark.
ResetDemandPeaks ==
    \E key \in Keys, expected \in 0..(Cardinality(Keys) + MaxDemand) :
      LET next == [demand EXCEPT !.epoch = @ + 1,
                     !.peakImport = 0, !.peakExport = 0,
                     !.baseImport = demand.rawImport,
                     !.baseExport = demand.rawExport] IN
      /\ ~Used(demandAudit, key)
      /\ demand # None
      /\ expected = demand.epoch
      /\ demand' = next
      /\ demandRow' = PersistDemand(next)
      /\ demandAudit' = demandAudit \cup {<<key, demand.epoch + 1>>}
      /\ epochStart' = covered
      /\ UNCHANGED <<dlog, covered, profileChanges, history, eVars>>

\* The service restarts, after a stop or a crash: the rows are read back.
Restart ==
    /\ energy' = LoadEnergy(energyRow)
    /\ demand' = LoadDemand(demandRow)
    /\ UNCHANGED <<elog, energyRow, energyAudit, consumed, archived, flaws,
                   dlog, demandRow, demandAudit, covered, epochStart,
                   profileChanges, history>>

-----------------------------------------------------------------------------
Init ==
    /\ elog = <<>> /\ energy = None /\ energyRow = None /\ energyAudit = {}
    /\ consumed = 0 /\ archived = 0 /\ flaws = {}
    /\ dlog = <<>> /\ demand = None /\ demandRow = None /\ demandAudit = {}
    /\ covered = 0 /\ epochStart = 0 /\ profileChanges = 0 /\ history = {}

Next == \/ MeasureEnergy \/ IngestEnergy \/ ResetEnergy
        \/ MeasureDemand \/ IngestDemand \/ ResetDemandPeaks
        \/ Restart

Spec == Init /\ [][Next]_vars

-----------------------------------------------------------------------------
(* Properties.                                                              *)

Measured == IF consumed = 0 THEN 0 ELSE elog[consumed].total

\* No repeated delivery, session change, repeated boot nonce, reset or restart
\* makes the ledger count energy that was not measured: the lifetime counter
\* and what resets closed stay within the energy the source had measured.
NeverOvercounted == Life + archived <= Measured

\* The counters are exact unless the environment took something away: the
\* counter clipped at INT64_MAX ("clip"), a boot nonce repeated at once
\* ("collision") or a session ended before its last checkpoint arrived
\* ("tail").  Losing checkpoints within a session loses no energy.
EnergyExact == flaws = {} => Life + archived = Measured

\* A retry of the checkpoint the ledger committed last is recognised as such,
\* whatever happened in between: resets, and a restart that rebuilt the
\* calculation window from the rounded sample rate.
RetryRecognised ==
    /\ consumed # 0 => EnergyVerdict(elog[consumed]) = "replay"
    /\ covered # 0 => DemandVerdict(dlog[covered]) = "replay"

\* Every reset request is applied once: the epoch counts the audited keys
\* (and, for demand, the profile changes), and no two keys share an epoch.
ResetsCounted ==
    /\ energy # None => energy.epoch = Cardinality(energyAudit)
    /\ demand # None =>
         demand.epoch = Cardinality(demandAudit) + profileChanges
    /\ \A audit \in {energyAudit, demandAudit} : \A a, b \in audit :
         a[1] = b[1] \/ a[2] = b[2] => a = b

\* A demand peak belongs to its epoch: it was measured after the last interval
\* that the ledger had seen when the peaks were reset or the profile changed.
\* The source's session peak, which still holds the older maximum, never
\* brings it back.
PeakWithinEpoch ==
    demand # None =>
      /\ demand.peakImport # 0 =>
           \E i \in (epochStart + 1)..covered :
             dlog[i].valid /\ dlog[i].current = demand.peakImport
      /\ demand.peakExport # 0 =>
           \E i \in (epochStart + 1)..covered :
             /\ dlog[i].valid /\ dlog[i].current < 0
             /\ Magnitude(dlog[i].current) = demand.peakExport

\* A history row never holds more energy than the live counter of its epoch.
HistoryNotAhead ==
    \A h \in history : /\ energy # None
                       /\ h.epoch <= energy.epoch
                       /\ h.epoch = energy.epoch => h.life <= energy.life

\* The energy rows: the live counters neither invent nor lose energy, and no
\* row of the history is ahead of them.
EnergySound == NeverOvercounted /\ EnergyExact /\ HistoryNotAhead

\* The demand rows, the retries and the resets: a peak belongs to its epoch, a
\* repeated checkpoint is recognised, and an epoch begins exactly with a reset
\* that the audit records.
DemandSound == PeakWithinEpoch /\ RetryRecognised /\ ResetsCounted
=============================================================================
