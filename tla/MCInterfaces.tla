----------------------------- MODULE MCInterfaces -----------------------------
(***************************************************************************)
(* Instances of the interfaces clients see: the Modbus register map, the    *)
(* TCP and serial servers and the service that runs them, the latest-value  *)
(* store with its subscriptions, and the routes of the web backend.  They   *)
(* share no variable here: a behaviour exercises the one that `part' names  *)
(* while the others stay as they began.                                     *)
(***************************************************************************)
EXTENDS ModbusRegisters, TLC

CONSTANT Parts   \* the components this instance exercises

VARIABLES part,
          \* WebRoutes
          request, step, changed, blame, reply,
          \* ModbusService
          stored, taken, active, observed, serving, held, worker, service, watcher,
          reload, stop, stopping, failed, budget, rejected,
          \* ModbusTcp
          running, generation, listening, lifecycle, loops, sessions, sockets, open, gone,
          \* ModbusRtu
          line, kernel, enabled, live, serial, buffer, frames, gap, expired, queue,
          queuedBytes, writing, writer, closer, chances, handled, out,
          \* MeterData
          source, views, applier, owner, accepting, pending, runner, delivered

-----------------------------------------------------------------------------
\* Modbus requests around the edges of the blocks and of both address spaces.
\* The second publication loses a voltage and an energy.
Edges == {register_map[i].address + k : i \in DOMAIN register_map, k \in {-1, 0}}

Read(function, address, count, to, rtu, size) ==
  [unit |-> to, broadcastAllowed |-> rtu, function |-> function, size |-> size,
   address |-> address, count |-> count, bytes |-> 0]
Write(function, count, bytes, to, rtu, size) ==
  [unit |-> to, broadcastAllowed |-> rtu, function |-> function, size |-> size,
   address |-> 0, count |-> count, bytes |-> bytes]

MCRequests ==
  {Read(f, a, n, Unit, FALSE, 5) : f \in {Holding, Input},
                                   a \in (Edges \cap Nat) \cup {65535}, n \in {1, 3}}
  \cup {Read(Input, a, n, Unit, FALSE, 5) : a \in {256, 8192}, n \in {0, 30, 125, 126}}
  \cup {Read(Input, 0, 2, u, rtu, s) : u \in {0, Unit, 9}, rtu \in BOOLEAN, s \in {4, 5}}
  \cup {Write(f, n, 2, u, TRUE, s) : f \in {6, 16, 43}, n \in {0, 1, 124},
                                     u \in {0, Unit, 9}, s \in {5, 6, 8}}

MCValidAt ==
  LET all == {register_map[i].name : i \in {j \in DOMAIN register_map :
                register_map[j].kind = "measurement"}}
  IN  <<all, all \ {Single("VbnRms"), <<"ApparentEnergy", "B">>}>>

\* Handlers that read back after a change, or change in several requests, may
\* answer an error after the change.
ReadBack ==
  {"put_mqtt_configuration", "put_mqtt_password", "delete_mqtt_password",
   "put_mqtt_private_key_passphrase", "delete_mqtt_private_key_passphrase",
   "upload_mqtt_ca", "upload_mqtt_client_certificate", "upload_mqtt_client_key",
   "delete_mqtt_ca", "delete_mqtt_client_certificate", "delete_mqtt_client_key",
   "put_developer_database", "post_developer_database_maintenance",
   "put_frequency_configuration", "put_adc_source", "put_adc_simulator",
   "delete_waveform_session", "put_data_logging_configuration",
   "post_data_logging_retry", "delete_data_logging_artifacts",
   "put_data_logging_credential", "delete_data_logging_credential",
   "upload_data_logging_asset", "delete_data_logging_asset"}

\* Data-logging handlers that answer statuses their documentation misses.
Undocumented ==
  {"get_data_logging_artifacts", "get_data_logging_artifact", "get_data_logging_preview",
   "post_data_logging_retry", "delete_data_logging_artifacts",
   "post_data_logging_channel_test", "get_data_logging_materials"}

\* Handlers whose catch clauses merge a bad request with a failed service.
Merged ==
  {"put_active_settings", "put_mqtt_configuration", "put_mqtt_password",
   "put_mqtt_private_key_passphrase", "upload_mqtt_ca",
   "upload_mqtt_client_certificate", "upload_mqtt_client_key",
   "put_developer_database", "post_adc_simulator_event", "export_waveform_event",
   "put_data_logging_configuration"}

Web == INSTANCE WebRoutes WITH Skipped <- {}, LostReplies <- TRUE
Unambiguous == INSTANCE WebRoutes WITH Skipped <- ReadBack, LostReplies <- FALSE

\* Three documents: TCP alone, TCP with a serial port, and everything off.
Service == INSTANCE ModbusService WITH
             main <- service, left <- budget, Configs <- {"tcp", "tcp_rtu", "off"},
             Endpoints <- ("tcp" :> <<"502">>) @@ ("tcp_rtu" :> <<"502", "ttyS1">>)
                          @@ ("off" :> <<>>),
             Initial <- "tcp", MaxStores <- 2, MaxHangups <- 1, Faults <- 2

Tcp == INSTANCE ModbusTcp WITH
         main <- lifecycle, Sockets <- {"s1", "s2", "s3"}, NoSocket <- "none",
         MaxClients <- 1, MaxGeneration <- 4

\* What masters put on the line: reads, a multiple write, an unsupported function
\* that only silence ends, a read whose last bytes were lost, and a multiple write
\* that announces more data than a frame may hold.
OnLine(len, kind, noise, count, good, answer) ==
  [len |-> len, kind |-> kind, noise |-> noise, count |-> count, good |-> good, reply |-> answer]
ReadFrame(answer) == OnLine(8, "fixed", "other", 0, TRUE, answer)
WriteFrame(n) == OnLine(9 + n, "multi", "other", n, TRUE, 8)
Damaged == <<OnLine(5, "fixed", "fixed", 0, FALSE, 0), ReadFrame(7),
             OnLine(10, "multi", "fixed", 12, FALSE, 0), OnLine(9, "other", "other", 0, TRUE, 5),
             WriteFrame(2)>>
Traffic == <<ReadFrame(7), WriteFrame(1), ReadFrame(0), ReadFrame(9)>>

Noisy == INSTANCE ModbusRtu WITH
           running <- enabled, active <- live, main <- closer, left <- chances,
           Script <- Damaged, FixedSize <- 8, CountAt <- 7, MultiBase <- 9, MaxFrame <- 12,
           MaxQueued <- 2, Pieces <- {1, 2, 3, 4, 5, 6, 8, 9, 10}, Late <- FALSE, Faults <- 0
Busy == INSTANCE ModbusRtu WITH
          running <- enabled, active <- live, main <- closer, left <- chances,
          Script <- Traffic, FixedSize <- 8, CountAt <- 7, MultiBase <- 9, MaxFrame <- 12,
          MaxQueued <- 2, Pieces <- {3, 5, 8, 10}, Late <- TRUE, Faults <- 1

\* Two subscriptions to two periods.
Latest == INSTANCE MeterData WITH
            worker <- runner, Subs <- {"s1", "s2"}, Periods <- {"basic", "min10"},
            PeriodOf <- ("s1" :> "basic") @@ ("s2" :> "min10"),
            Groups <- {"fundamental"}, MaxSequence <- 2, MaxLag <- 2,
            MaxGeneration <- 1, SwapResets <- FALSE

\* Smaller instances of the four servers, for what they must eventually do.
Converging == INSTANCE ModbusService WITH
                main <- service, left <- budget, Configs <- {"tcp", "tcp_rtu", "off"},
                Endpoints <- ("tcp" :> <<"502">>) @@ ("tcp_rtu" :> <<"502", "ttyS1">>)
                             @@ ("off" :> <<>>),
                Initial <- "tcp", MaxStores <- 2, MaxHangups <- 1, Faults <- 1
HangingUp == INSTANCE ModbusTcp WITH
               main <- lifecycle, Sockets <- {"s1", "s2"}, NoSocket <- "none",
               MaxClients <- 1, MaxGeneration <- 3
Draining == INSTANCE ModbusRtu WITH
              running <- enabled, active <- live, main <- closer, left <- chances,
              Script <- Traffic, FixedSize <- 8, CountAt <- 7, MultiBase <- 9, MaxFrame <- 12,
              MaxQueued <- 1, Pieces <- {8, 10}, Late <- FALSE, Faults <- 1
Following == INSTANCE MeterData WITH
               worker <- runner, Subs <- {"s1"}, Periods <- {"basic"},
               PeriodOf <- ("s1" :> "basic"), Groups <- {"fundamental"},
               MaxSequence <- 3, MaxLag <- 2, MaxGeneration <- 1, SwapResets <- FALSE

-----------------------------------------------------------------------------
webVars == <<request, step, changed, blame, reply>>
modbusVars == <<stored, taken, active, observed, serving, held, worker, service, watcher,
                reload, stop, stopping, failed, budget, rejected>>
tcpVars == <<running, generation, listening, lifecycle, loops, sessions, sockets, open, gone>>
rtuVars == <<line, kernel, enabled, live, serial, buffer, frames, gap, expired, queue,
             queuedBytes, writing, writer, closer, chances, handled, out>>
latestVars == <<source, views, applier, owner, accepting, pending, runner, delivered>>
interfaceVars == <<part, vars, webVars, modbusVars, tcpVars, rtuVars, latestVars>>

InterfacesInit ==
  /\ part \in Parts
  /\ Init /\ Web!Init
  /\ IF part = "converging" THEN Converging!Init ELSE Service!Init
  /\ IF part = "hanging_up" THEN HangingUp!Init ELSE Tcp!Init
  /\ IF part = "busy" THEN Busy!Init
     ELSE IF part = "draining" THEN Draining!Init
     ELSE Noisy!Init
  /\ IF part = "following" THEN Following!Init ELSE Latest!Init

InterfacesNext ==
  /\ UNCHANGED part
  /\ \/ /\ part = "registers" /\ Next
        /\ UNCHANGED <<webVars, modbusVars, tcpVars, rtuVars, latestVars>>
     \/ /\ \/ part = "web" /\ Web!Next
           \/ part = "unambiguous" /\ Unambiguous!Next
        /\ UNCHANGED <<vars, modbusVars, tcpVars, rtuVars, latestVars>>
     \/ /\ \/ part = "service" /\ Service!Next
           \/ part = "converging" /\ Converging!Next
        /\ UNCHANGED <<vars, webVars, tcpVars, rtuVars, latestVars>>
     \/ /\ \/ part = "tcp" /\ Tcp!Next
           \/ part = "hanging_up" /\ HangingUp!Next
        /\ UNCHANGED <<vars, webVars, modbusVars, rtuVars, latestVars>>
     \/ /\ \/ part = "noisy" /\ Noisy!Next
           \/ part = "busy" /\ Busy!Next
           \/ part = "draining" /\ Draining!Next
        /\ UNCHANGED <<vars, webVars, modbusVars, tcpVars, latestVars>>
     \/ /\ \/ part = "latest" /\ Latest!Next
           \/ part = "following" /\ Following!Next
        /\ UNCHANGED <<vars, webVars, modbusVars, tcpVars, rtuVars>>

InterfacesSpec == InterfacesInit /\ [][InterfacesNext]_interfaceVars

\* The threads of the component at work are scheduled.
InterfacesFairSpec ==
  /\ InterfacesSpec
  /\ WF_modbusVars(part = "converging" /\ Converging!ServiceThread)
  /\ WF_modbusVars(part = "converging" /\ Converging!WatcherThread)
  /\ \A s \in {"s1", "s2"} : WF_tcpVars(part = "hanging_up" /\ HangingUp!WorkerRuns(s))
  /\ \A r \in HangingUp!Runs :
       WF_tcpVars(/\ part = "hanging_up"
                  /\ \/ HangingUp!LoopCheck(r) \/ HangingUp!LoopReserve(r)
                     \/ HangingUp!LoopRefused(r) \/ HangingUp!LoopSpawn(r))
  /\ WF_tcpVars(/\ part = "hanging_up"
                /\ \/ HangingUp!StopBump \/ HangingUp!StopCloseAcceptor
                   \/ HangingUp!StopClear)
  /\ WF_rtuVars(/\ part = "draining"
                /\ Draining!WriterTake \/ Draining!WriteDone \/ Draining!WriteFails)
  /\ WF_rtuVars(/\ part = "draining"
                /\ \/ Draining!CloseBegin \/ Draining!CloseSerial
                   \/ Draining!CloseAssembler \/ Draining!CloseQueue)
  /\ WF_latestVars(part = "following" /\ Following!ApplyStep)
  /\ WF_latestVars(part = "following" /\ Following!OwnerStep("s1"))
  /\ WF_latestVars(part = "following" /\ Following!WorkerStep("s1"))

-----------------------------------------------------------------------------
\* The web backend: a viewer changes nothing, and an error of a handler that
\* changes once means that nothing changed (WebRoutes).  But for the handlers
\* named above, every status is a documented one, and a fault of the client is
\* told apart from a fault of a service.
RoutesAreSafe ==
  /\ part = "web" =>
       /\ Web!ViewerChangesNothing
       /\ request.route \notin Undocumented => Web!StatusDocumented
       /\ request.route \notin Merged => Web!FaultsToldApart
  /\ part = "unambiguous" => Unambiguous!ErrorLeavesUnchanged

\* The Modbus service: the transports that run are those of the active
\* settings, and an ended service holds none (ModbusService).
ServesActive == Service!ServesActive /\ Service!EndedHoldsNothing

\* The TCP server: slots are counted, held and given back (ModbusTcp).
SlotsAreSound == Tcp!SlotsAreSound

\* The serial server: every undamaged request is handled once, answers leave in
\* the order of the requests, a queued answer has a writer, and the byte count
\* that limits the queue is exact (ModbusRtu).
SerialIsSound ==
  /\ part = "noisy" => Noisy!EveryRequestHandled /\ Noisy!AnswersInOrder
  /\ part = "busy" =>
       /\ Busy!EveryRequestHandled /\ Busy!AnswersInOrder /\ Busy!QueueHasWriter
       /\ Busy!QueuedBytesExact /\ Busy!ClosedIsEmpty

\* The latest values: a subscriber never sees time go back nor another period,
\* no view is ahead of the store, and a worker ends with its subscription
\* (MeterData).
SubscriptionsAreSound ==
  /\ [](Latest!WorkerInsideSubscriber /\ Latest!OwnPeriodOnly /\ Latest!NotAheadOfStore)
  /\ Latest!NeverGoesBack

\* What is begun ends: the Modbus service converges on the stored settings, comes
\* to rest and stops when told to (ModbusService), the sessions of a stopped
\* server end and a client that hangs up gives its slot back (ModbusTcp), queued
\* answers leave (ModbusRtu), and a subscriber gets the newest view, blocks no
\* publication and can always unsubscribe (MeterData).
InterfacesSettle ==
  /\ part = "converging" =>
       Converging!ComesToRest /\ Converging!Converges /\ Converging!StopEnds
  /\ part = "hanging_up" => HangingUp!StoppedSessionsEnd /\ HangingUp!HangUpFreesSlot
  /\ part = "draining" => Draining!AnswersDrain
  /\ part = "following" =>
       Following!NewestArrives /\ Following!ApplyReturns /\ Following!UnsubscribeReturns
===============================================================================
