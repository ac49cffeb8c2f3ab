------------------------------- MODULE WebRoutes -------------------------------
(***************************************************************************)
(* The web backend's API: the router checks the caller's role against      *)
(* route_table, the handler's steps run in order, and the first fault is   *)
(* answered by the handler's catch clauses.  One request is followed at a  *)
(* time; handlers keep no state of their own between requests.             *)
(*                                                                         *)
(* All handlers share one shape: a list of steps, each of which may fail,  *)
(* and the catch clauses that turn a failure into an HTTP status.  A step  *)
(* is either a check of the request or one request to another service;     *)
(* `writes' names what it changes there.  A fault of a step says whose it  *)
(* is: the client's (the request is wrong), the service's (unreachable, or *)
(* it refused) or the state's (a valid request that the present state does *)
(* not permit).                                                            *)
(***************************************************************************)
EXTENDS Naturals, Sequences, TLC

CONSTANTS Skipped,      \* the handlers not under study
          LostReplies   \* may the reply of a completed change be lost?

VARIABLES request,   \* the handler and the caller's role, or NoRequest
          step,      \* steps of the handler that completed
          changed,   \* what the request changed in other services
          blame,     \* whose fault the failure was
          reply      \* the HTTP status sent, 0 before that

vars == <<request, step, changed, blame, reply>>

-------------------------------------------------------------------------------
Exceptions == {"invalid_argument", "out_of_range", "runtime", "unavailable", "system",
               "journal cursor", "ledger conflict",
               "sender invalid", "sender not_found", "sender conflict",
               "sender denied", "sender unavailable", "sender internal",
               "export invalid", "export not_found", "export conflict",
               "export unprocessable", "export queue_full", "export storage_full",
               "export unavailable"}

Throw(exception) == [throws |-> exception, status |-> 0]
Return(status) == [throws |-> "none", status |-> status]
Fault(by, outcome) == [by |-> by, outcome |-> outcome]
Step(faults, writes) == [faults |-> faults, writes |-> writes]

\* if (glz::read_json(...)) return error_response(bad_request, ...)
BadBody == Step({Fault("client", Return(400))}, {})
\* A check of the request that throws std::invalid_argument.
Malformed == Step({Fault("client", Throw("invalid_argument"))}, {})
\* The validate() of a settings section throws std::runtime_error.
InvalidSection == Step({Fault("client", Throw("runtime"))}, {})

Lost == Fault("service", Throw("runtime"))
Ask == Step({Lost}, {})
Tell(what) == Step({Lost}, {what})

\* AcquisitionClient::request throws AcquisitionUnavailable when the transport
\* fails; require_acquisition_ok throws std::runtime_error on a refusal.
AcquisitionFaults == {Fault("service", Throw("unavailable")), Lost}
AskAcquisition == Step(AcquisitionFaults, {})
TellAcquisition(what) == Step(AcquisitionFaults, {what})

\* Every exception of the handler is answered alike ...
AllTo(status) == [e \in Exceptions |-> status]
\* ... or std::invalid_argument is told apart.
ArgumentsTo400(status) == [AllTo(status) EXCEPT !["invalid_argument"] = 400]
\* No try block: the engine answers 500.
Uncaught == AllTo(500)

Handler(steps, catch, ok) == [steps |-> steps, catch |-> catch, ok |-> ok]

-------------------------------------------------------------------------------
(***************************************************************************)
(* The settings, MQTT and database routes: settings_routes.cpp,            *)
(* mqtt_routes.cpp, database_routes.cpp with the gateways they use.        *)
(***************************************************************************)

\* SettingsGateway::active, require_ok and save.
active == Ask
save == Tell("settings")
factory_reset == Tell("settings")

\* update_and_save: read the document, let the mutator change it, save it.
update_and_save(mutator) == <<active>> \o mutator \o <<save>>

\* ---- settings_routes.cpp

get_active_settings == Handler(<<active>>, AllTo(503), 200)

\* The handler validates nothing: the authority refuses bad values, and the
\* gateway turns every refusal into std::runtime_error.
put_active_settings ==
    Handler(<<BadBody, Step({Lost, Fault("client", Throw("runtime"))}, {"settings"})>>,
            ArgumentsTo400(409), 200)

post_factory_reset == Handler(<<BadBody, factory_reset>>, AllTo(409), 200)

document_settings_routes ==
    [get_active_settings |-> {200, 503}, put_active_settings |-> {200, 400, 409},
     post_factory_reset |-> {200, 400, 409}]

\* ---- mqtt_routes.cpp and mqtt_gateway.cpp

\* credential_status asks the authority five times.
credential_status == Ask
mqtt_configuration == <<active, credential_status>>

upload == Handler(<<Step({Lost, Fault("client", Throw("runtime"))}, {"secrets"}),
                    credential_status>>, AllTo(400), 200)
remove_asset == Handler(<<Tell("secrets"), credential_status>>, AllTo(409), 200)

\* An absent asset is a 404 of the engine; there is no try block.
download == Handler(<<Step({Lost, Fault("state", Return(404))}, {}), Ask>>, Uncaught, 200)

get_mqtt_capabilities == Handler(<<AskAcquisition>>, AllTo(503), 200)
get_mqtt_configuration == Handler(mqtt_configuration, AllTo(503), 200)

\* The period and attribute check against the meter's capabilities, and the
\* check that the required credentials exist.
put_mqtt_configuration ==
    Handler(<<BadBody, InvalidSection, AskAcquisition, Malformed, credential_status, Malformed>>
            \o update_and_save(<<>>) \o mqtt_configuration, ArgumentsTo400(409), 200)

\* While publishing is disabled the publisher is not asked at all.
get_mqtt_status == Handler(<<Step({Lost, Fault("state", Return(200))}, {}), Ask>>, AllTo(503), 200)

put_mqtt_password ==
    Handler(<<BadBody, Tell("secrets"), credential_status>>, AllTo(400), 200)
delete_mqtt_password == Handler(<<Tell("secrets"), credential_status>>, AllTo(409), 200)
put_mqtt_private_key_passphrase ==
    Handler(<<BadBody, Tell("secrets"), credential_status>>, AllTo(400), 200)
delete_mqtt_private_key_passphrase ==
    Handler(<<Tell("secrets"), credential_status>>, AllTo(409), 200)

mqtt_tls_routes ==
    [upload_mqtt_ca |-> upload, upload_mqtt_client_certificate |-> upload,
     upload_mqtt_client_key |-> upload, delete_mqtt_ca |-> remove_asset,
     delete_mqtt_client_certificate |-> remove_asset,
     delete_mqtt_client_key |-> remove_asset, download_mqtt_ca |-> download,
     download_mqtt_client_certificate |-> download]

document_mqtt_routes ==
    [get_mqtt_capabilities |-> {200, 503}, get_mqtt_configuration |-> {200, 503},
     put_mqtt_configuration |-> {200, 400, 409}, get_mqtt_status |-> {200, 503},
     put_mqtt_password |-> {200, 400}, delete_mqtt_password |-> {200, 409},
     put_mqtt_private_key_passphrase |-> {200, 400},
     delete_mqtt_private_key_passphrase |-> {200, 409},
     upload_mqtt_ca |-> {200, 400, 413, 415},
     upload_mqtt_client_certificate |-> {200, 400, 413, 415},
     upload_mqtt_client_key |-> {200, 400, 413, 415}, delete_mqtt_ca |-> {200, 409},
     delete_mqtt_client_certificate |-> {200, 409},
     delete_mqtt_client_key |-> {200, 409}, download_mqtt_ca |-> {200, 404},
     download_mqtt_client_certificate |-> {200, 404}]

\* ---- database_routes.cpp and database_gateway.cpp

\* The settings, the stream service and the historian are asked in turn.
database_status == <<active, Ask, Ask>>

get_developer_database == Handler(database_status, AllTo(503), 200)

\* DatabaseSettings::validate throws both kinds of exception.
put_developer_database ==
    Handler(<<BadBody, Step({Fault("client", Throw("runtime")),
                             Fault("client", Throw("invalid_argument"))}, {})>>
            \o update_and_save(<<>>) \o database_status, ArgumentsTo400(409), 200)

post_developer_database_maintenance ==
    Handler(<<BadBody, Malformed, Tell("history")>> \o database_status,
            ArgumentsTo400(409), 200)

document_database_routes ==
    [get_developer_database |-> {200, 503}, put_developer_database |-> {200, 400, 409},
     post_developer_database_maintenance |-> {200, 400, 409}]

SettingsHandlers ==
    [get_active_settings |-> get_active_settings, put_active_settings |-> put_active_settings,
     post_factory_reset |-> post_factory_reset,
     get_developer_database |-> get_developer_database,
     put_developer_database |-> put_developer_database,
     post_developer_database_maintenance |-> post_developer_database_maintenance]

MqttHandlers ==
    [get_mqtt_capabilities |-> get_mqtt_capabilities,
     get_mqtt_configuration |-> get_mqtt_configuration,
     put_mqtt_configuration |-> put_mqtt_configuration, get_mqtt_status |-> get_mqtt_status,
     put_mqtt_password |-> put_mqtt_password, delete_mqtt_password |-> delete_mqtt_password,
     put_mqtt_private_key_passphrase |-> put_mqtt_private_key_passphrase,
     delete_mqtt_private_key_passphrase |-> delete_mqtt_private_key_passphrase]

-------------------------------------------------------------------------------
(***************************************************************************)
(* The system, metering, energy, attribute and history routes:             *)
(* health_routes.cpp, meter_routes.cpp, energy_routes.cpp,                 *)
(* attribute_routes.cpp, history_routes.cpp.                               *)
(***************************************************************************)

\* ---- health_routes.cpp

get_session == Handler(<<>>, Uncaught, 200)
get_health == Handler(<<AskAcquisition>>, AllTo(503), 200)
get_about == Handler(<<>>, Uncaught, 200)

document_health_routes ==
    [get_session |-> {200}, get_health |-> {200, 503}, get_about |-> {200}]

\* ---- meter_routes.cpp

get_meter_health == Handler(<<AskAcquisition>>, AllTo(503), 200)

\* readings throws while capture is stopped or nothing was measured yet.
readings == Step({Fault("state", Throw("runtime"))}, {})
get_meter_readings == Handler(<<AskAcquisition, readings>>, AllTo(503), 200)

get_meter_power_quality == Handler(<<AskAcquisition>>, AllTo(503), 200)

harmonic_period == Malformed

get_meter_harmonics ==
    Handler(<<harmonic_period, AskAcquisition>>, ArgumentsTo400(503), 200)

get_meter_single_cycle == Handler(<<AskAcquisition>>, AllTo(503), 200)

\* The *_dto functions throw on a malformed snapshot.
SnapshotDto == Step({Lost}, {})
get_meter_aggregate == Handler(<<AskAcquisition, SnapshotDto>>, AllTo(503), 200)
get_meter_frequency_10s == Handler(<<AskAcquisition, SnapshotDto>>, AllTo(503), 200)
get_meter_ten_minute == Handler(<<AskAcquisition, SnapshotDto>>, AllTo(503), 200)
get_meter_two_hour == Handler(<<AskAcquisition, SnapshotDto>>, AllTo(503), 200)
get_meter_ten_minute_live == Handler(<<AskAcquisition, SnapshotDto>>, AllTo(503), 200)
get_meter_two_hour_live == Handler(<<AskAcquisition, SnapshotDto>>, AllTo(503), 200)

get_frequency_configuration == Handler(<<AskAcquisition>>, AllTo(503), 200)

\* frequency_ipc rejects values out of range, inside the settings mutator.
frequency_ipc == Malformed
frequency_settings == frequency_ipc
put_frequency_configuration ==
    Handler(<<BadBody, Ask, frequency_settings, Tell("settings"), AskAcquisition>>,
            ArgumentsTo400(503), 200)

document_meter_routes ==
    [get_meter_health |-> {200, 503}, get_meter_readings |-> {200, 503},
     get_meter_aggregate |-> {200, 503}, get_meter_frequency_10s |-> {200, 503},
     get_meter_ten_minute |-> {200, 503}, get_meter_two_hour |-> {200, 503},
     get_meter_ten_minute_live |-> {200, 503}, get_meter_two_hour_live |-> {200, 503},
     get_meter_single_cycle |-> {200, 503}, get_meter_power_quality |-> {200, 503},
     get_meter_harmonics |-> {200, 400, 503},
     get_frequency_configuration |-> {200, 503},
     put_frequency_configuration |-> {200, 400, 503}]

\* ---- energy_routes.cpp

parse_epoch == Malformed
reset_request == <<Malformed, parse_epoch>>

\* The ledger refuses a reset of another epoch with Conflict, and answers
\* Unavailable while its store is down.
execute_reset ==
    Handler(reset_request \o
            <<Step({Fault("service", Throw("unavailable")), Lost,
                    Fault("state", Throw("ledger conflict"))}, {"energy"})>>,
            [ArgumentsTo400(503) EXCEPT !["ledger conflict"] = 409], 200)

\* No checkpoint yet: answered 503 without an exception.
NoCheckpoint == Step({Fault("state", Return(503))}, {})
get_meter_energy == Handler(<<Ask, NoCheckpoint>>, AllTo(503), 200)
get_meter_demand == Handler(<<Ask, NoCheckpoint>>, AllTo(503), 200)
post_meter_energy_reset == execute_reset
post_meter_demand_peaks_reset == execute_reset

document_energy_routes ==
    [get_meter_energy |-> {200, 503}, get_meter_demand |-> {200, 503},
     post_meter_energy_reset |-> {200, 400, 409, 503},
     post_meter_demand_peaks_reset |-> {200, 400, 409, 503}]

\* ---- attribute_routes.cpp

get_meter_attributes == Handler(<<Malformed>>, ArgumentsTo400(503), 200)
document_attribute_routes == [get_meter_attributes |-> {200, 400, 503}]

\* ---- history_routes.cpp

parse_period == Malformed
parse_cursor == Malformed
parse_attribute == Malformed

get_history_capabilities == Handler(<<Ask>>, AllTo(503), 200)
get_history_health == Handler(<<Ask>>, AllTo(503), 200)

\* Limit and range are checked before period, cursor and attributes.
post_history_query ==
    Handler(<<BadBody, Malformed, parse_period, parse_cursor, parse_attribute, Malformed, Ask>>,
            ArgumentsTo400(503), 200)

document_history_routes ==
    [get_history_capabilities |-> {200, 503}, get_history_health |-> {200, 503},
     post_history_query |-> {200, 400, 503}]

MeterHandlers ==
    [get_session |-> get_session, get_health |-> get_health, get_about |-> get_about,
     get_meter_health |-> get_meter_health, get_meter_readings |-> get_meter_readings,
     get_meter_power_quality |-> get_meter_power_quality,
     get_meter_harmonics |-> get_meter_harmonics,
     get_meter_single_cycle |-> get_meter_single_cycle,
     get_meter_aggregate |-> get_meter_aggregate,
     get_meter_frequency_10s |-> get_meter_frequency_10s,
     get_meter_ten_minute |-> get_meter_ten_minute,
     get_meter_two_hour |-> get_meter_two_hour,
     get_meter_ten_minute_live |-> get_meter_ten_minute_live,
     get_meter_two_hour_live |-> get_meter_two_hour_live,
     get_frequency_configuration |-> get_frequency_configuration,
     put_frequency_configuration |-> put_frequency_configuration]

RecordHandlers ==
    [get_meter_energy |-> get_meter_energy, get_meter_demand |-> get_meter_demand,
     post_meter_energy_reset |-> post_meter_energy_reset,
     post_meter_demand_peaks_reset |-> post_meter_demand_peaks_reset,
     get_meter_attributes |-> get_meter_attributes,
     get_history_capabilities |-> get_history_capabilities,
     get_history_health |-> get_history_health, post_history_query |-> post_history_query]

-------------------------------------------------------------------------------
(***************************************************************************)
(* The ADC, power-quality, developer and documentation routes:             *)
(* adc_routes.cpp, power_quality_routes.cpp, developer_routes.cpp,         *)
(* documentation_routes.cpp.                                               *)
(***************************************************************************)

\* ---- adc_routes.cpp

\* nullopt asks for the state; true and false start and stop the capture.
capture_command(start) ==
    Handler(<<IF start = "query" THEN AskAcquisition ELSE TellAcquisition("capture")>>,
            AllTo(503), 200)
get_adc_capture == capture_command("query")
put_adc_capture == capture_command("start")
delete_adc_capture == capture_command("stop")

event_action_value == Malformed
event_channel_mask == Malformed
get_adc_simulator_event == Handler(<<AskAcquisition>>, AllTo(503), 200)

\* Scale and period are left to the daemon, whose refusal is a runtime_error.
post_adc_simulator_event ==
    Handler(<<BadBody, event_action_value, Malformed, event_channel_mask,
              Step(AcquisitionFaults \cup {Fault("client", Throw("runtime"))}, {"simulator"})>>,
            ArgumentsTo400(503), 200)

adc_source_value == Malformed
get_adc_source == Handler(<<AskAcquisition>>, AllTo(503), 200)
put_adc_source ==
    Handler(<<BadBody, adc_source_value, Ask, Tell("settings"), AskAcquisition>>,
            ArgumentsTo400(503), 200)

adc_simulator_ipc == Malformed
adc_simulator_settings == adc_simulator_ipc
get_adc_simulator == Handler(<<AskAcquisition>>, AllTo(503), 200)
put_adc_simulator ==
    Handler(<<BadBody, Ask, adc_simulator_settings, Tell("settings"), AskAcquisition>>,
            ArgumentsTo400(503), 200)

document_adc_routes ==
    [get_adc_source |-> {200, 503}, put_adc_source |-> {200, 400, 503},
     get_adc_simulator |-> {200, 503}, put_adc_simulator |-> {200, 400, 503},
     get_adc_simulator_event |-> {200, 503},
     post_adc_simulator_event |-> {200, 400, 503}, get_adc_capture |-> {200, 503},
     put_adc_capture |-> {200, 503}, delete_adc_capture |-> {200, 503}]

\* ---- power_quality_routes.cpp

parse_limit == Malformed
parse_nanoseconds == Malformed
event_query == <<Malformed, parse_nanoseconds, parse_limit>>

\* A failure to learn the export formats is swallowed: no step.
get_power_quality_events ==
    Handler(event_query \o <<Ask, Step({Fault("client", Return(404))}, {})>>,
            ArgumentsTo400(503), 200)

\* Body and selection are checked before anything is deleted, and the catalogue
\* deletes the whole selection in one transaction.
delete_power_quality_events ==
    Handler(<<BadBody, BadBody, Tell("events")>>, ArgumentsTo400(409), 200)

get_meter_flicker == Handler(<<AskAcquisition>>, AllTo(503), 200)
get_meter_mains_signalling == Handler(<<AskAcquisition>>, AllTo(503), 200)

document_power_quality_routes ==
    [get_power_quality_events |-> {200, 400, 404, 503},
     delete_power_quality_events |-> {200, 400, 409}, get_meter_flicker |-> {200, 503},
     get_meter_mains_signalling |-> {200, 503}]

\* ---- developer_routes.cpp

get_developer_temperatures == Handler(<<Ask>>, AllTo(503), 200)
get_developer_about == Handler(<<>>, Uncaught, 200)

log_limit == Malformed
\* The parameters, then the journal: it may be unavailable, and a cursor may
\* have been rotated away since it was handed out.
developer_logs ==
    <<log_limit, Malformed, Ask, Step({Lost, Fault("state", Throw("journal cursor"))}, {})>>
get_developer_logs ==
    Handler(developer_logs, [ArgumentsTo400(503) EXCEPT !["journal cursor"] = 409], 200)

document_developer_routes ==
    [get_developer_temperatures |-> {200, 503}, get_developer_about |-> {200},
     get_developer_logs |-> {200, 400, 409, 503}]

\* ---- documentation_routes.cpp and documentation_store.cpp

load_product_document == Step({Fault("state", Return(404))}, {})
download_openapi_document == Handler(<<load_product_document>>, Uncaught, 200)
download_modbus_document == Handler(<<load_product_document>>, Uncaught, 200)

document_documentation_routes ==
    [download_openapi_document |-> {200, 404}, download_modbus_document |-> {200, 404}]

AdcHandlers ==
    [get_adc_capture |-> get_adc_capture, put_adc_capture |-> put_adc_capture,
     delete_adc_capture |-> delete_adc_capture,
     get_adc_simulator_event |-> get_adc_simulator_event,
     post_adc_simulator_event |-> post_adc_simulator_event,
     get_adc_source |-> get_adc_source, put_adc_source |-> put_adc_source,
     get_adc_simulator |-> get_adc_simulator, put_adc_simulator |-> put_adc_simulator]

EventHandlers ==
    [get_power_quality_events |-> get_power_quality_events,
     delete_power_quality_events |-> delete_power_quality_events,
     get_meter_flicker |-> get_meter_flicker,
     get_meter_mains_signalling |-> get_meter_mains_signalling,
     get_developer_temperatures |-> get_developer_temperatures,
     get_developer_about |-> get_developer_about, get_developer_logs |-> get_developer_logs,
     download_openapi_document |-> download_openapi_document,
     download_modbus_document |-> download_modbus_document]

-------------------------------------------------------------------------------
(***************************************************************************)
(* The waveform and waveform-export routes of waveform_routes.cpp.  The    *)
(* faults of the export steps are those WaveformExportTaskManager throws.  *)
(***************************************************************************)

waveform_list_request == Malformed
waveform_capture_lookup == Malformed

\* waveform_status also asks for the export formats; export_capabilities
\* swallows every failure of that, so it is no step.
get_waveforms == Handler(<<waveform_list_request, AskAcquisition>>, ArgumentsTo400(503), 200)
get_waveform_session ==
    Handler(<<waveform_capture_lookup, AskAcquisition>>, ArgumentsTo400(503), 200)
post_waveform_session_lookup ==
    Handler(<<BadBody, Malformed, AskAcquisition>>, ArgumentsTo400(503), 200)

\* The daemon owns the duration limit: its bad_request is answered 400.
post_waveform_trigger ==
    Handler(<<BadBody, Step(AcquisitionFaults \cup {Fault("client", Return(400))}, {"waveforms"})>>,
            AllTo(503), 200)

\* "all" waits for the archive index and for the end of an active capture; the
\* sessions are then deleted one request each.
delete_waveform_session ==
    Handler(<<BadBody, BadBody,
              Step(AcquisitionFaults \cup {Fault("state", Return(409))}, {}),
              TellAcquisition("waveforms"), TellAcquisition("waveforms")>>, AllTo(409), 200)

\* The session of the context is authenticated by the router.
export_job_id == Malformed
converter_error_status ==
    [e \in Exceptions |->
        CASE e = "export invalid" -> 400
          [] e = "export not_found" -> 404
          [] e = "export conflict" -> 409
          [] e = "export unprocessable" -> 422
          [] e = "export queue_full" -> 429
          [] e = "export storage_full" -> 507
          [] e = "invalid_argument" -> 400
          [] OTHER -> 503]

Down == Fault("service", Throw("export unavailable"))
NoJob == Fault("client", Throw("export not_found"))

\* WaveformExportTaskManager::submit
submit == Step({Down, Fault("client", Throw("export invalid")), NoJob,
                Fault("service", Throw("system")),
                Fault("state", Throw("export unprocessable")),
                Fault("service", Throw("export queue_full")),
                Fault("service", Throw("export storage_full"))}, {"export jobs"})
post_waveform_export ==
    Handler(<<Malformed, AskAcquisition,
              Step({Fault("client", Return(404)), Fault("state", Return(422))}, {}), submit>>,
            converter_error_status, 202)

get_waveform_export ==
    Handler(<<export_job_id, Step({Down, NoJob}, {})>>, converter_error_status, 200)
delete_waveform_export ==
    Handler(<<export_job_id, Step({Down, NoJob, Fault("state", Throw("export conflict")),
                                   Fault("service", Throw("system"))}, {"export jobs"})>>,
            converter_error_status, 200)
download_waveform_export ==
    Handler(<<export_job_id, Step({Down, NoJob, Fault("state", Return(409))}, {})>>,
            converter_error_status, 200)

\* A reply without a waveform directory, or an unreadable master, ends in one of
\* the last two catch clauses; so does a refusal of the daemon.
export_waveform_event ==
    Handler(<<Malformed, AskAcquisition,
              Step({Fault("client", Return(404)), Fault("state", Return(409))}, {}),
              Step({Fault("state", Throw("system")), Fault("state", Throw("runtime"))}, {})>>,
            [AllTo(422) EXCEPT !["invalid_argument"] = 400, !["unavailable"] = 503,
                               !["system"] = 409], 200)

document_waveform_routes ==
    [get_waveforms |-> {200, 400, 503}, get_waveform_session |-> {200, 400, 503},
     post_waveform_session_lookup |-> {200, 400, 503},
     post_waveform_trigger |-> {200, 400, 503},
     delete_waveform_session |-> {200, 400, 409},
     export_waveform_event |-> {200, 400, 404, 409, 422, 503},
     post_waveform_export |-> {202, 400, 404, 422, 429, 507, 503},
     get_waveform_export |-> {200, 400, 404, 503},
     delete_waveform_export |-> {200, 400, 404, 409, 503},
     download_waveform_export |-> {200, 400, 404, 409, 503}]

WaveformHandlers ==
    [get_waveforms |-> get_waveforms, get_waveform_session |-> get_waveform_session,
     post_waveform_session_lookup |-> post_waveform_session_lookup,
     post_waveform_trigger |-> post_waveform_trigger,
     delete_waveform_session |-> delete_waveform_session,
     post_waveform_export |-> post_waveform_export,
     get_waveform_export |-> get_waveform_export,
     delete_waveform_export |-> delete_waveform_export,
     download_waveform_export |-> download_waveform_export,
     export_waveform_event |-> export_waveform_event]

-------------------------------------------------------------------------------
(***************************************************************************)
(* The data-logging routes of data_logging_routes.cpp with the gateway to  *)
(* the data sender, whose refusals carry a status of their own.            *)
(***************************************************************************)

sender_error_status ==
    [e \in Exceptions |->
        CASE e = "sender invalid" -> 400
          [] e = "sender not_found" -> 404
          [] e = "sender conflict" -> 409
          [] e = "sender denied" -> 403
          [] e = "sender unavailable" -> 503
          [] OTHER -> 500]

SenderExceptions == {"sender invalid", "sender not_found", "sender conflict",
                     "sender denied", "sender unavailable", "sender internal"}

\* The clauses of mutation_error, in their order; a transport failure of the
\* gateway is a plain std::runtime_error and falls through to the last.
mutation_error ==
    [e \in Exceptions |->
        CASE e \in SenderExceptions -> sender_error_status[e]
          [] e = "invalid_argument" -> 400
          [] e = "out_of_range" -> 404
          [] OTHER -> 409]

\* What DataSenderService::handle answers to a request it cannot serve; the
\* web backend is a peer it authorizes.
Unserved == {Lost, Fault("service", Throw("sender unavailable")),
             Fault("service", Throw("sender internal"))}
AskSender(refusals) == Step(Unserved \cup refusals, {})
TellSender(refusals, what) == Step(Unserved \cup refusals, {what})
Refused == {Fault("client", Throw("sender invalid"))}
NoArtifact == {Fault("client", Throw("sender not_found"))}
Unsent == {Fault("state", Throw("sender conflict"))}

parameters == Malformed
require_channel == Step({Fault("client", Throw("out_of_range"))}, {})
scoped_name == Malformed

\* The settings, then the materials of each channel.
configuration == <<Ask, Ask>>

get_data_logging_configuration == Handler(configuration, AllTo(503), 200)

\* DataLoggingSettings::validate throws std::runtime_error; so does the
\* authority's refusal.
put_data_logging_configuration ==
    Handler(<<BadBody, Ask, InvalidSection, Ask, Tell("settings")>> \o configuration,
            mutation_error, 200)

get_data_logging_status == Handler(<<AskSender({})>>, AllTo(503), 200)

get_data_logging_artifacts ==
    Handler(<<parameters, Malformed, AskSender(Refused)>>, mutation_error, 200)
get_data_logging_artifact ==
    Handler(<<parameters, Malformed, AskSender(NoArtifact)>>, mutation_error, 200)
get_data_logging_preview ==
    Handler(<<parameters, Malformed, AskSender(NoArtifact)>>, mutation_error, 200)

\* After the retry the handler reads the sender's status.
post_data_logging_retry ==
    Handler(<<Malformed, TellSender(Refused \cup NoArtifact, "deliveries"), AskSender({})>>,
            mutation_error, 200)

\* all_artifact_ids, the check of each artifact, then batches of 500.
delete_data_logging_artifacts ==
    Handler(<<Malformed, AskSender({}), AskSender(NoArtifact \cup Unsent),
              TellSender(NoArtifact \cup Unsent, "artifacts"),
              TellSender(NoArtifact \cup Unsent, "artifacts")>>, mutation_error, 200)

post_data_logging_channel_test ==
    Handler(<<Malformed, Ask, require_channel, TellSender(Refused, "probe")>>,
            mutation_error, 200)

get_data_logging_materials ==
    Handler(<<parameters, Ask, require_channel, Ask>>, mutation_error, 200)

\* The channel, the material's name, the change, and the presence read back.
ChangeMaterial ==
    Handler(<<Malformed, Ask, require_channel, scoped_name, Tell("secrets"), Ask>>,
            mutation_error, 200)
put_data_logging_credential == ChangeMaterial
delete_data_logging_credential == ChangeMaterial
upload_data_logging_asset == ChangeMaterial
delete_data_logging_asset == ChangeMaterial

download_data_logging_artifact ==
    Handler(<<parameters, Malformed, AskSender(NoArtifact), Step(Unsent, {})>>,
            [e \in Exceptions |-> CASE e \in SenderExceptions -> sender_error_status[e]
                                    [] e = "invalid_argument" -> 400
                                    [] OTHER -> 503], 200)

document_data_logging_configuration ==
    [get_data_logging_configuration |-> {200, 503},
     put_data_logging_configuration |-> {200, 400, 409},
     get_data_logging_status |-> {200, 503}]

document_data_logging_artifacts ==
    [get_data_logging_artifacts |-> {200, 400, 503},
     delete_data_logging_artifacts |-> {200, 400, 409},
     get_data_logging_artifact |-> {200, 400, 404},
     get_data_logging_preview |-> {200, 400, 404},
     post_data_logging_retry |-> {200, 400, 409}]

document_data_logging_channels ==
    [post_data_logging_channel_test |-> {200, 400, 404, 409},
     get_data_logging_materials |-> {200, 404},
     put_data_logging_credential |-> {200, 400, 404, 409},
     delete_data_logging_credential |-> {200, 400, 404, 409},
     upload_data_logging_asset |-> {200, 400, 404, 409},
     delete_data_logging_asset |-> {200, 400, 404, 409},
     download_data_logging_artifact |-> {200, 400, 404, 409, 503}]

DataLoggingHandlers ==
    [get_data_logging_configuration |-> get_data_logging_configuration,
     put_data_logging_configuration |-> put_data_logging_configuration,
     get_data_logging_status |-> get_data_logging_status,
     get_data_logging_artifacts |-> get_data_logging_artifacts,
     get_data_logging_artifact |-> get_data_logging_artifact,
     get_data_logging_preview |-> get_data_logging_preview,
     post_data_logging_retry |-> post_data_logging_retry,
     delete_data_logging_artifacts |-> delete_data_logging_artifacts,
     download_data_logging_artifact |-> download_data_logging_artifact]

ChannelHandlers ==
    [post_data_logging_channel_test |-> post_data_logging_channel_test,
     get_data_logging_materials |-> get_data_logging_materials,
     put_data_logging_credential |-> put_data_logging_credential,
     delete_data_logging_credential |-> delete_data_logging_credential,
     upload_data_logging_asset |-> upload_data_logging_asset,
     delete_data_logging_asset |-> delete_data_logging_asset]

-------------------------------------------------------------------------------
\* route_table and register_routes: every handler, and what the API
\* documentation says it may answer.
handlers == SettingsHandlers @@ MqttHandlers @@ mqtt_tls_routes @@ MeterHandlers
            @@ RecordHandlers @@ AdcHandlers @@ EventHandlers @@ WaveformHandlers
            @@ DataLoggingHandlers @@ ChannelHandlers

documented == document_settings_routes @@ document_mqtt_routes @@ document_database_routes
              @@ document_health_routes @@ document_meter_routes @@ document_energy_routes
              @@ document_attribute_routes @@ document_history_routes @@ document_adc_routes
              @@ document_power_quality_routes @@ document_developer_routes
              @@ document_documentation_routes @@ document_waveform_routes
              @@ document_data_logging_configuration @@ document_data_logging_artifacts
              @@ document_data_logging_channels

\* add_operation documents these for every route with a role.
AlwaysDocumented == {401, 403, 500}

\* The routes whose min_role is Admin, in the groups of route_table; all
\* others are open to a Viewer.
\* A variant that leaves the energy reset to every viewer.
admin_metering_no_energy ==
    {"delete_power_quality_events", "post_meter_demand_peaks_reset",
     "put_frequency_configuration"}

admin_metering ==
    {"delete_power_quality_events", "post_meter_energy_reset",
     "post_meter_demand_peaks_reset", "put_frequency_configuration"}

admin_adc == {"put_adc_source", "put_adc_simulator", "post_adc_simulator_event",
              "put_adc_capture", "delete_adc_capture"}

admin_waveforms == {"post_waveform_trigger", "delete_waveform_session"}

admin_settings == {"put_active_settings", "post_factory_reset"}

admin_developer ==
    {"get_developer_temperatures", "get_developer_about", "get_developer_logs",
     "get_developer_database", "put_developer_database",
     "post_developer_database_maintenance"}

admin_mqtt == DOMAIN MqttHandlers \cup {"delete_mqtt_ca", "delete_mqtt_client_certificate",
                                        "delete_mqtt_client_key"}

admin_data_logging ==
    {"get_data_logging_configuration", "put_data_logging_configuration",
     "delete_data_logging_artifacts", "post_data_logging_retry",
     "post_data_logging_channel_test", "get_data_logging_materials",
     "put_data_logging_credential", "delete_data_logging_credential",
     "delete_data_logging_asset"}

\* The uploads and downloads that register_routes adds to the table.
admin_files ==
    {"upload_mqtt_ca", "upload_mqtt_client_certificate", "upload_mqtt_client_key",
     "download_mqtt_ca", "download_mqtt_client_certificate", "upload_data_logging_asset"}

AdminRoutes == admin_metering \cup admin_adc \cup admin_waveforms \cup admin_settings
               \cup admin_developer \cup admin_mqtt \cup admin_data_logging \cup admin_files

Roles == {"viewer", "admin"}
Permits(route, role) == route \in AdminRoutes => role = "admin"

NoRequest == [route |-> "none", role |-> "none"]
handler == handlers[request.route]
Current == handler.steps[step + 1]

Init ==
    /\ request = NoRequest
    /\ step = 0
    /\ changed = {}
    /\ blame = "none"
    /\ reply = 0

\* The router answers 403 itself when the role does not suffice.
Arrive(route, role) ==
    /\ request = NoRequest
    /\ request' = [route |-> route, role |-> role]
    /\ reply' = IF Permits(route, role) THEN 0 ELSE 403
    /\ UNCHANGED <<step, changed, blame>>

Complete ==
    /\ request # NoRequest /\ reply = 0
    /\ step < Len(handler.steps)
    /\ step' = step + 1
    /\ changed' = changed \cup Current.writes
    /\ UNCHANGED <<request, blame, reply>>

\* A fault ends the handler.  A change whose reply was lost has happened.
Fail ==
    /\ request # NoRequest /\ reply = 0
    /\ step < Len(handler.steps)
    /\ \E fault \in Current.faults :
        /\ blame' = fault.by
        /\ reply' = IF fault.outcome.throws = "none" THEN fault.outcome.status
                    ELSE handler.catch[fault.outcome.throws]
        /\ \/ changed' = changed
           \/ LostReplies /\ fault.by = "service" /\ changed' = changed \cup Current.writes
    /\ UNCHANGED <<request, step>>

Answer ==
    /\ request # NoRequest /\ reply = 0
    /\ step = Len(handler.steps)
    /\ reply' = handler.ok
    /\ UNCHANGED <<request, step, changed, blame>>

Close ==
    /\ reply # 0
    /\ request' = NoRequest
    /\ step' = 0
    /\ changed' = {}
    /\ blame' = "none"
    /\ reply' = 0

Next ==
    \/ \E route \in DOMAIN handlers \ Skipped, role \in Roles : Arrive(route, role)
    \/ Complete
    \/ Fail
    \/ Answer
    \/ Close

Spec == Init /\ [][Next]_vars

-------------------------------------------------------------------------------

\* route_table against the handlers: whatever a viewer calls, and however far
\* the handler gets, nothing is changed but the viewer's own export jobs.
ViewerChangesNothing == request.role = "viewer" => changed \subseteq {"export jobs"}

\* The document_*_routes functions against the handlers' catch clauses: no
\* handler answers a status the published API description does not list.
StatusDocumented ==
    reply # 0 => reply \in documented[request.route] \cup AlwaysDocumented

\* The error descriptions ("could not be applied or persisted", "the
\* maintenance operation failed"): a request answered with an error has
\* changed nothing, so a client may repeat it.
ErrorLeavesUnchanged == reply >= 400 => changed = {}

\* The descriptions of 400 and 409/503: a fault of the request is answered by
\* a status that blames the client and a fault of another service by one that
\* does not.
FaultsToldApart ==
    /\ blame = "client" => reply \in {400, 404}
    /\ blame = "service" => reply \in {409, 429, 500, 503, 507}
===============================================================================
