------------------------------ MODULE MCServices ------------------------------
(***************************************************************************)
(* Instances of the services around the meter: the data sender with its     *)
(* outbox, the settings authority, the chain by which a settings change     *)
(* reaches the MQTT publisher, the publisher itself, and the settings on    *)
(* the wire.  They share no variable here: a behaviour exercises the one    *)
(* that `part' names while the others stay as they began.                   *)
(***************************************************************************)
EXTENDS SettingsAuthority, TLC

CONSTANT Parts   \* the components this instance exercises

VARIABLES part,
          \* DataSender
          outbox, now, life, settings, bundle, applied, configuring, generation,
          generator, senders, fates, history,
          \* SettingsPolicy
          setting, authority, manager, unit, main, watcher, shared, allowance,
          \* MqttPublications
          objects, pending, client, link, io, observer, boss, delay, newest,
          delivered, spare,
          \* MeterSettings
          section, accepted, wire

-----------------------------------------------------------------------------
JobTo(rev, channels) == [rev |-> rev, on |-> TRUE, channels |-> channels, local |-> channels = {}]
Bundle(job, channels, ready, enabled) ==
  [jobs |-> job, channels |-> channels, ready |-> ready, enabled |-> enabled]
Both == {"a", "b"}

\* One job for two channels; then the second channel is disabled.
TwoChannels == <<Bundle(<<JobTo(1, Both)>>, Both, Both, Both),
                 Bundle(<<JobTo(1, Both)>>, Both, Both, {"a"})>>

\* A local-only job before a job for one channel; then a new revision of it.
LocalAndRemote == <<Bundle(<<JobTo(1, {}), JobTo(1, {"a"})>>, {"a"}, {"a"}, Both),
                    Bundle(<<JobTo(1, {}), JobTo(2, {})>>, {}, {}, Both)>>

ReadyChannel == <<Bundle(<<JobTo(1, {"a"})>>, {"a"}, {"a"}, Both)>>

\* A fault, and a crash or a command of an administrator.
Faulty == INSTANCE DataSender WITH
            o <- outbox, pending <- bundle, active <- applied, main <- configuring,
            jobs <- generation, gen <- generator, wk <- senders, left <- fates,
            seen <- history, Http <- {"a"}, Workers <- {"w1"}, Settle <- 0, Lease <- 3,
            Timeout <- 1, Delay <- 1, Configs <- TwoChannels, MaxPayloads <- 1, MaxTime <- 2,
            MaxFaults <- 1, MaxOutages <- 0, MaxCrashes <- 1, MaxChanges <- 0,
            MaxAdmin <- 1, Retention <- 1

Local == INSTANCE DataSender WITH
           o <- outbox, pending <- bundle, active <- applied, main <- configuring,
           jobs <- generation, gen <- generator, wk <- senders, left <- fates,
           seen <- history, Http <- {"a"}, Workers <- {"w1"}, Settle <- 0, Lease <- 3,
           Timeout <- 1, Delay <- 1, Configs <- LocalAndRemote, MaxPayloads <- 2, MaxTime <- 2,
           MaxFaults <- 1, MaxOutages <- 0, MaxCrashes <- 1, MaxChanges <- 1,
           MaxAdmin <- 0, Retention <- 1

Unreachable == INSTANCE DataSender WITH
                 o <- outbox, pending <- bundle, active <- applied, main <- configuring,
                 jobs <- generation, gen <- generator, wk <- senders, left <- fates,
                 seen <- history, Http <- {"a"}, Workers <- {"w1"}, Settle <- 0, Lease <- 3,
                 Timeout <- 1, Delay <- 1, Configs <- TwoChannels, MaxPayloads <- 1,
                 MaxTime <- 2, MaxFaults <- 0, MaxOutages <- 2, MaxCrashes <- 0,
                 MaxChanges <- 1, MaxAdmin <- 0, Retention <- 1

Restarted == INSTANCE DataSender WITH
               o <- outbox, pending <- bundle, active <- applied, main <- configuring,
               jobs <- generation, gen <- generator, wk <- senders, left <- fates,
               seen <- history, Http <- {"a"}, Workers <- {"w1"}, Settle <- 0, Lease <- 3,
               Timeout <- 1, Delay <- 1, Configs <- ReadyChannel, MaxPayloads <- 2,
               MaxTime <- 3, MaxFaults <- 0, MaxOutages <- 0, MaxCrashes <- 1,
               MaxChanges <- 0, MaxAdmin <- 0, Retention <- 2

\* No crash, a channel that is down for a while.
Delivering == INSTANCE DataSender WITH
                o <- outbox, pending <- bundle, active <- applied, main <- configuring,
                jobs <- generation, gen <- generator, wk <- senders, left <- fates,
                seen <- history, Http <- {"a"}, Workers <- {"w1"}, Settle <- 0, Lease <- 3,
                Timeout <- 1, Delay <- 1, Configs <- ReadyChannel, MaxPayloads <- 3,
                MaxTime <- 3, MaxFaults <- 0, MaxOutages <- 2, MaxCrashes <- 0,
                MaxChanges <- 0, MaxAdmin <- 0, Retention <- 2

\* Documents that differ in every section, in the acquisition section only, one
\* the pipeline refuses and one that does not validate.
Doc(db, acq, mqtt, ptp) == [db |-> db, acq |-> acq, mqtt |-> mqtt, ptp |-> ptp, valid |-> TRUE]
Packaged == Doc(1, 1, FALSE, FALSE)
Unusable == Doc(2, 4, FALSE, TRUE)

MCDocuments ==
  {Packaged, Doc(2, 2, TRUE, TRUE), Doc(1, 3, TRUE, FALSE), Unusable,
   [Doc(1, 1, TRUE, TRUE) EXCEPT !.valid = FALSE]}
MCRejected == {Unusable}

\* A disabled publisher and two configurations of an enabled one.
Policy == INSTANCE SettingsPolicy WITH
            active <- setting, left <- allowance,
            Documents <- {[enabled |-> FALSE, cfg |-> 1], [enabled |-> TRUE, cfg |-> 1],
                          [enabled |-> TRUE, cfg |-> 2]},
            FirstDocument <- [enabled |-> FALSE, cfg |-> 1],
            Credentials <- {"c1", "c2"}, FirstCredentials <- "c1",
            MaxSaves <- 2, MaxReloads <- 1, MaxCrashes <- 1

Publisher == INSTANCE MqttPublications WITH
               watcher <- observer, main <- boss, left <- spare, MaxConfigs <- 0,
               MaxSnapshots <- 3, MaxLosses <- 2, ReconnectMin <- 1, ReconnectMax <- 3

Reloaded == INSTANCE MqttPublications WITH
              watcher <- observer, main <- boss, left <- spare, MaxConfigs <- 1,
              MaxSnapshots <- 2, MaxLosses <- 2, ReconnectMin <- 1, ReconnectMax <- 3

\* Thresholds on the wire's grid of 0.01 %, references below 2^32 microvolts,
\* phases of both signs.
Wire == INSTANCE MeterSettings WITH
          Percentages <- {0, 10, 2000, 10000, 90000, 110000, 655000},
          References <- {0, 1, 29297, 1048575},
          Degrees <- (-725 .. -700) \cup (-365 .. -355) \cup (-3 .. 3) \cup (177 .. 183)
                     \cup (357 .. 363),
          PhaseScale <- 4096

-----------------------------------------------------------------------------
senderVars == <<outbox, now, life, settings, bundle, applied, configuring, generation,
                generator, senders, fates, history>>
policyVars == <<setting, authority, manager, unit, main, watcher, shared, allowance>>
publisherVars == <<objects, pending, client, link, io, observer, boss, delay, newest,
                   delivered, spare>>
wireVars == <<section, accepted, wire>>
serviceVars == <<part, senderVars, vars, policyVars, publisherVars, wireVars>>

ServicesInit ==
  /\ part \in Parts
  /\ IF part = "local" THEN Local!Init
     ELSE IF part = "unreachable" THEN Unreachable!Init
     ELSE IF part = "restarted" THEN Restarted!Init
     ELSE IF part = "delivering" THEN Delivering!Init
     ELSE Faulty!Init
  /\ Init /\ Policy!Init /\ Wire!Init
  /\ IF part = "reloaded" THEN Reloaded!Init ELSE Publisher!Init

ServicesNext ==
  /\ UNCHANGED part
  /\ \/ /\ \/ part = "faulty" /\ Faulty!Next /\ fates'.admin + fates'.crashes >= 1
           \/ part = "local" /\ Local!Next
           \/ part = "unreachable" /\ Unreachable!Next
           \/ part = "restarted" /\ Restarted!Next
           \/ part = "delivering" /\ Delivering!Next
        /\ UNCHANGED <<vars, policyVars, publisherVars, wireVars>>
     \/ /\ part = "authority" /\ Next
        /\ UNCHANGED <<senderVars, policyVars, publisherVars, wireVars>>
     \/ /\ part = "policy" /\ Policy!Next
        /\ UNCHANGED <<senderVars, vars, publisherVars, wireVars>>
     \/ /\ \/ part = "publisher" /\ Publisher!Next
           \/ part = "reloaded" /\ Reloaded!Next
        /\ UNCHANGED <<senderVars, vars, policyVars, wireVars>>
     \/ /\ part = "wire" /\ Wire!Next
        /\ UNCHANGED <<senderVars, vars, policyVars, publisherVars>>

ServicesSpec == ServicesInit /\ [][ServicesNext]_serviceVars

\* The threads of the component at work are scheduled, and time passes for the
\* data sender.
ServicesFairSpec ==
  /\ ServicesSpec
  /\ WF_senderVars(part = "delivering" /\ Delivering!Tick)
  /\ WF_senderVars(part = "delivering" /\ Delivering!MainStep)
  /\ WF_senderVars(part = "delivering" /\ Delivering!GenStep)
  /\ WF_senderVars(part = "delivering" /\ Delivering!WorkerStep("w1"))
  /\ SF_policyVars(part = "policy" /\ Policy!AuthorityStep)
  /\ WF_policyVars(part = "policy" /\ Policy!Reconcile("io"))
  /\ \A t \in Policy!Threads : SF_policyVars(part = "policy" /\ Policy!ManagerStep(t))
  /\ WF_policyVars(part = "policy" /\ Policy!MainStep)
  /\ SF_policyVars(part = "policy" /\ Policy!WatcherReads)
  /\ SF_policyVars(part = "policy" /\ Policy!WatcherCompares)
  /\ WF_policyVars(part = "policy" /\ Policy!WatcherGivesUp)

\* The data sender's threads are scheduled, and time passes.
SenderFairSpec ==
  /\ ServicesSpec
  /\ WF_senderVars(part = "restarted" /\ Restarted!Tick)
  /\ WF_senderVars(part = "restarted" /\ Restarted!MainStep)
  /\ WF_senderVars(part = "restarted" /\ Restarted!GenStep)
  /\ WF_senderVars(part = "restarted" /\ Restarted!WorkerStep("w1"))

-----------------------------------------------------------------------------
\* The data sender: no payload is lost, none is taken for delivered that is not,
\* no window is passed over, the quota holds, and after a restart manifests and
\* files agree; and without a restart every window is generated and every
\* delivery comes to an end (DataSender).
DeliveryIsSound ==
  /\ [](part = "faulty" =>
          /\ Faulty!PayloadKept /\ Faulty!SucceededMeansReceived
          /\ Faulty!NoWindowSkipped /\ Faulty!QuotaHolds)
  /\ [](part = "local" => Local!PayloadKept /\ Local!NoWindowSkipped)
  /\ [](part = "unreachable" =>
          Unreachable!PayloadKept /\ Unreachable!SucceededMeansReceived)
  /\ [][part = "faulty" => Faulty!Reconciled]_serviceVars
  /\ part = "delivering" => Delivering!WindowsProceed /\ Delivering!DeliveriesEnd

\* The data sender: a due window is generated, after a restart too
\* (scheduler.cpp, outbox_test.cpp "idempotent restart").
WindowsProceed == part = "restarted" => Restarted!WindowsProceed

\* The settings chain: a publisher at rest runs what it observed; and in the end
\* the unit runs exactly if the settings enable it, the publisher runs the
\* settings in force, and no save is left without an answer (SettingsPolicy).
SettingsTakeEffect ==
  /\ [](part = "policy" => Policy!ObservedIsApplied)
  /\ part = "policy" =>
       /\ Policy!UnitFollowsSettings /\ Policy!PublisherFollowsSettings
       /\ Policy!SavesAreAnswered

\* The publisher: the newest payload is kept until the broker has it, its timer
\* keeps running, and a client that is connected is the one of the settings in
\* force (MqttPublications).
NewestRetained ==
  /\ part = "publisher" => Publisher!NewestRetained
  /\ part = "reloaded" =>
       Reloaded!KeepsTicking /\ Reloaded!ConnectedIsOwn /\ Reloaded!DelayBounded

\* The settings: what is accepted reaches the programmable logic unharmed: the
\* wiring can be inverted, windows are exact, thresholds and phases are within
\* half a unit, and bands are usable (MeterSettings).
WireIsFaithful ==
  /\ Wire!WiringIsInvertible /\ Wire!WindowIsExact /\ Wire!HarmonicFits
  /\ Wire!PhaseIsModular /\ Wire!BandIsUsable /\ Wire!EventsDecode
===============================================================================
