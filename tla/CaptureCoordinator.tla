-------------------------- MODULE CaptureCoordinator --------------------------
(***************************************************************************)
(* capture_coordinator.cpp: the life cycle of the acquisition pipeline and  *)
(* the configuration transactions over its owners: the DMA consumers, the   *)
(* two R5 cores (R5C0 drives the ADC and the programmable logic, R5C1       *)
(* aggregates), the time-control device and the product settings.           *)
(*                                                                          *)
(* The daemon is single threaded, so a command is one step; what can go     *)
(* wrong inside it is every exchange with a core or a device.  An operation *)
(* is therefore a set of outcomes [d, ok], one per way its exchanges end.   *)
(* d is the joint state of daemon and hardware after it.                    *)
(***************************************************************************)
EXTENDS Integers, FiniteSets

CONSTANTS Generations,  \* configuration generations (a hash of the settings)
          Demands,      \* demand profiles
          MaxFaults     \* bound: exchanges that fail

VARIABLE d

vars == <<d>>

None == 0

-----------------------------------------------------------------------------
(* Exchanges.                                                               *)

Ok(s) == [d |-> s, ok |-> TRUE]
Fail(s) == [d |-> s, ok |-> FALSE]

\* Go on with Op after every successful outcome.
Then(outcomes, Op(_)) == UNION {IF o.ok THEN Op(o.d) ELSE {o} : o \in outcomes}

\* Continue after success and failure alike (the failure is only logged).
Regardless(outcomes, Op(_)) == UNION {Op(o.d) : o \in outcomes}

Spent(s) == [s EXCEPT !.faults = @ + 1]

\* RpuController::transact: the core acts and answers; or the request, or its
\* answer, does not arrive within the timeout.
Transact(s, after) ==
    {Ok(after)} \cup IF s.faults < MaxFaults
                     THEN {Fail(Spent(s)), Fail(Spent(after))} ELSE {}

\* A step on a device that either happens or throws.
Device(s, after) ==
    {Ok(after)} \cup IF s.faults < MaxFaults THEN {Fail(Spent(s))} ELSE {}

-----------------------------------------------------------------------------
(* Configuration.                                                           *)

\* AggregationHealthMonitor::configure_demand and configure_m18 remember the
\* profile first, so that the periodic audit repeats it.
ConfigureDemand(s, profile) ==
    LET wanted == [s EXCEPT !.desiredDemand = profile]
    IN  Transact(wanted, [wanted EXCEPT !.r5c1Demand = profile])

ConfigureM18(s, g) ==
    LET wanted == [s EXCEPT !.desired = g]
    IN  Transact(wanted, [wanted EXCEPT !.r5c1 = g])

\* METER_CONFIG_SET reconfigures ADC and logic.  The sample counter runs on, so
\* a correlation taken before is from the other side of the change.
Reconfigured(s) ==
    [s EXCEPT !.logic = s.conf, !.adc = TRUE,
              !.crossed = s.sync # None /\ (@ \/ s.logic # s.conf),
              !.configuredLive = @ \/ s.capture]

\* configure_meter: R5C1, then R5C0, then ADC and logic with readback.
ConfigureMeter(s) ==
    Then(ConfigureM18(s, s.conf), LAMBDA t :
    Then(Transact(t, [t EXCEPT !.r5c0 = t.conf]), LAMBDA u :
    Then(Transact(u, Reconfigured(u)), LAMBDA v :
         {Ok([v EXCEPT !.wiring = "success"])})))

-----------------------------------------------------------------------------
(* Time synchronisation.                                                    *)

\* The correlation of this generation, of use only if the clock is disciplined.
Synced(s, utc) == [s EXCEPT !.sync = IF utc THEN s.conf ELSE None, !.crossed = FALSE]

\* The ten-minute boundary, tried again at the next cadence when the write fails.
Seed(s) ==
    {Ok(o.d) : o \in Device(s, [s EXCEPT !.seeded = TRUE, !.boundary = s.epoch])}

\* refresh_time_sync: the latch may fail; the boundary is seeded once per
\* capture epoch, as soon as the clock is disciplined.
RefreshTimeSync(s) ==
    (IF s.faults < MaxFaults THEN {Ok(Spent(s))} ELSE {}) \cup
    UNION {LET t == Synced(s, utc)
           IN  IF utc /\ ~t.seeded THEN Seed(t) ELSE {Ok(t)} : utc \in BOOLEAN}

-----------------------------------------------------------------------------
(* start and stop.                                                          *)

CloseDma(s) == [s EXCEPT !.dma = FALSE]

\* Both DMA consumers open before capture runs; STOP first, so that a capture
\* left over from a crash never sees a configuration.
Arm(s, configure) ==
    Then(Device(s, [s EXCEPT !.dma = TRUE]), LAMBDA t :
    Then(Transact(t, [t EXCEPT !.capture = FALSE]), LAMBDA u :
    Then(IF configure THEN ConfigureMeter(u) ELSE {Ok(u)}, LAMBDA v :
         Transact(v, [v EXCEPT !.capture = TRUE]))))

Start(s, configure) ==
    IF s.running THEN {Ok(s)}
    ELSE LET begun == [s EXCEPT !.epoch = 1 - @, !.seeded = FALSE]
         IN  UNION {IF o.ok THEN RefreshTimeSync([o.d EXCEPT !.running = TRUE])
                    ELSE {Fail(CloseDma(o.d))} : o \in Arm(begun, configure)}

\* stop never throws: a core that does not answer is only logged.
Stop(s) ==
    IF ~s.running THEN {Ok(s)}
    ELSE Regardless(Transact(s, [s EXCEPT !.capture = FALSE]), LAMBDA t :
         Regardless(Device(CloseDma(t), [CloseDma(t) EXCEPT !.boundary = -1]),
             LAMBDA u : {Ok([u EXCEPT !.seeded = FALSE, !.running = FALSE])}))

-----------------------------------------------------------------------------
(* Transactions.                                                            *)

\* Reach the operating point: restart a pipeline that ran, configure a stopped
\* one; the temporary sample rate also probes the health of a stopped one.
Operate(s, restart, probe) ==
    IF restart THEN Start(s, TRUE)
    ELSE Then(ConfigureMeter(s),
              LAMBDA t : IF probe THEN Transact(t, t) ELSE {Ok(t)})

\* A variant that leaves the new configuration recorded after a failure.
RecordedNew(s, previous) == s

\* configuration_ = previous.
Recorded(s, previous) == [s EXCEPT !.conf = previous]

\* RpuHealthMonitor::on_meter_configuration_failed.
Report(s, ok) ==
    [s EXCEPT !.wiring = IF ok THEN "rolled_back" ELSE "rollback_failed"]

\* The catch block: stop if needed, previous configuration, try to reach it.
\* Only apply_complete_configuration reports how that ended.
Rollback(s, previous, restart, probe) ==
    Regardless(Stop(s), LAMBDA t :
        {Fail(IF probe THEN o.d ELSE Report(o.d, o.ok))
            : o \in Operate(Recorded(t, previous), restart, probe)})

\* apply_complete_configuration (probe = FALSE) and apply_sample_rate.
ApplyConfiguration(s, g, probe) ==
    Then(Stop(s), LAMBDA t :
        UNION {IF o.ok THEN {o} ELSE Rollback(o.d, s.conf, s.running, probe)
               : o \in Operate([t EXCEPT !.conf = g], s.running, probe)})

\* The previous demand profile again, whether or not the pipeline failed.
RestoreDemand(s, changed, previous) ==
    IF changed THEN {Fail(o.d) : o \in ConfigureDemand(s, previous)}
    ELSE {Fail(s)}

\* apply_product_settings: demand first, then the pipeline when the generation
\* differs from the active one; the settings are recorded only at the end.
ApplySettings(s, g, profile) ==
    LET changed == profile # s.settings.demand
        begun == IF changed THEN ConfigureDemand(s, profile) ELSE {Ok(s)}
        applied == Then(begun, LAMBDA t :
                        IF g # t.conf THEN ApplyConfiguration(t, g, FALSE) ELSE {Ok(t)})
    IN  UNION {IF o.ok
               THEN {Ok([o.d EXCEPT !.settings = [gen |-> g, demand |-> profile]])}
               ELSE RestoreDemand(o.d, changed, s.settings.demand) : o \in applied}

\* The flow works on the ADC itself.  It puts the operating point back, or it
\* reports an error and the operating point is lost.
Flow(s) ==
    LET begun == [s EXCEPT !.diagnosedLive = @ \/ s.capture]
    IN  Transact(begun, begun) \cup Transact(begun, [begun EXCEPT !.adc = FALSE])

\* A pipeline that ran starts again, configured when the flow failed; a stopped
\* one is probed.
Resume(s, running) == IF running THEN Start(s, ~s.adc) ELSE Transact(s, s)

\* run_adc_diagnostic: after an exception the full configuration is tried.
Diagnostic(s) ==
    Then(Stop(s), LAMBDA t :
        UNION {IF o.ok \/ ~s.running \/ o.d.running THEN {o}
               ELSE {Fail(e.d) : e \in Start(o.d, TRUE)}
               : o \in Then(Flow(t), LAMBDA u : Resume(u, s.running))})

-----------------------------------------------------------------------------
(* Actions.                                                                 *)

\* One outcome of a command; the reply tells whether it threw.
Do(outcomes) == \E o \in outcomes : d' = [o.d EXCEPT !.replied = o.ok]

ApplyProductSettings ==
    d.up /\ \E g \in Generations, p \in Demands : Do(ApplySettings(d, g, p))

ApplySampleRate ==
    d.up /\ \E g \in Generations : Do(ApplyConfiguration(d, g, TRUE))

RunAdcDiagnostic == d.up /\ Do(Diagnostic(d))
StartRequest == d.up /\ Do(Start(d, TRUE))
StopRequest == d.up /\ Do(Stop(d))

\* The poll loop: refresh_time_sync while running.
PollTimeSync == d.up /\ d.running /\ \E o \in RefreshTimeSync(d) : d' = o.d

\* aggregation_health_.refresh: query, then the desired profiles again.
AuditOutcomes(s) ==
    Then(Transact(s, s), LAMBDA t :
    Then(IF t.desiredDemand # None THEN ConfigureDemand(t, t.desiredDemand)
         ELSE {Ok(t)}, LAMBDA u :
    IF u.desired # None THEN ConfigureM18(u, u.desired) ELSE {Ok(u)}))

AggregationAudit == d.up /\ \E o \in AuditOutcomes(d) : d' = o.d

\* R5C1 restarts and has forgotten its profiles (external).
R5C1Restart ==
    /\ d.r5c1 # None /\ d.faults < MaxFaults
    /\ d' = [Spent(d) EXCEPT !.r5c1 = None, !.r5c1Demand = None]

\* The daemon dies; capture goes on without a consumer.
Crash ==
    /\ d.up /\ d.faults < MaxFaults
    /\ d' = [CloseDma(Spent(d)) EXCEPT !.up = FALSE, !.running = FALSE,
                              !.seeded = FALSE]

\* request_stop, or a DMA device that hangs up: the destructor stops.
Shutdown ==
    d.up /\ \E o \in Stop(d) : d' = [o.d EXCEPT !.up = FALSE]

\* The constructor: the settings authority's active document, no correlation.
Loaded(s, g, profile) ==
    [s EXCEPT !.conf = g, !.settings = [gen |-> g, demand |-> profile],
              !.desired = None, !.desiredDemand = None, !.sync = None,
              !.seeded = FALSE, !.crossed = FALSE, !.wiring = "success"]

\* initialize: capture, then the socket; without the socket capture stops again.
Initialize(s) ==
    Then(Start(s, TRUE), LAMBDA t :
         UNION {IF o.ok THEN {o} ELSE {Fail(e.d) : e \in Stop(o.d)}
                : o \in Device(t, [t EXCEPT !.up = TRUE])})

\* run() then sends the demand profile; a refusal is left to the audit.
Boot ==
    /\ ~d.up
    /\ \E g \in Generations, p \in Demands :
       \E o \in Initialize(Loaded(d, g, p)) :
         IF o.ok THEN Do(ConfigureDemand(o.d, p)) ELSE d' = o.d

Init ==
    \E g \in Generations, p \in Demands :
    d = [up |-> FALSE, running |-> FALSE, conf |-> g,
         settings |-> [gen |-> g, demand |-> p], r5c0 |-> None, r5c1 |-> None,
         logic |-> None, adc |-> TRUE, desired |-> None, desiredDemand |-> None,
         r5c1Demand |-> None, capture |-> FALSE, dma |-> FALSE, epoch |-> 0,
         seeded |-> FALSE, boundary |-> -1, sync |-> None,
         crossed |-> FALSE, wiring |-> "success", configuredLive |-> FALSE,
         diagnosedLive |-> FALSE,
         faults |-> 0, replied |-> TRUE]

Next == \/ ApplyProductSettings \/ ApplySampleRate \/ RunAdcDiagnostic
        \/ StartRequest \/ StopRequest \/ PollTimeSync \/ AggregationAudit
        \/ R5C1Restart \/ Crash \/ Shutdown \/ Boot

\* The poll loop audits R5C1 every few seconds and systemd restarts the daemon.
Fairness == WF_vars(AggregationAudit) /\ WF_vars(Boot)
Spec == Init /\ [][Next]_vars /\ Fairness

-----------------------------------------------------------------------------
(* Properties.                                                              *)

\* While the daemon says that the pipeline runs, one generation is active in
\* all owners: capture is on, the DMA is open, both cores and the logic work
\* under the recorded configuration, and the profile the audit would send to
\* a restarted R5C1 is that configuration too.
RunningIsCoherent ==
    d.running => /\ d.capture /\ d.dma /\ d.adc
                 /\ d.r5c0 = d.conf /\ d.logic = d.conf /\ d.desired = d.conf
                 /\ d.r5c1 \in {d.conf, None}

\* A command that failed leaves no trace in the recorded configuration: it is
\* that of before, running as before unless the rollback failed too.
FailureRestores ==
    [][(~d'.replied /\ d.up /\ d'.up) =>
          /\ d'.conf = d.conf /\ d'.settings = d.settings
          /\ d'.desiredDemand \in {d.desiredDemand, d.settings.demand}
          /\ (d.running /\ ~d'.running) => d'.faults > d.faults + 1]_vars

\* A settings command that reports its rollback as done has reached the
\* previous operating point in every owner.
RolledBackIsActive ==
    [][(d'.wiring = "rolled_back" /\ d.wiring # "rolled_back") =>
          /\ d'.conf = d.conf /\ d'.running = d.running
          /\ d'.logic = d.conf /\ d'.r5c0 = d.conf /\ d'.desired = d.conf]_vars

\* The daemon that believes the ten-minute boundary programmed (and so never
\* writes it again) is right: the target in the logic is of this capture epoch.
SeededIsProgrammed == d.seeded => d.boundary = d.epoch
=============================================================================
