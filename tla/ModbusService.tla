--------------------------- MODULE ModbusService ---------------------------
(***************************************************************************)
(* The Modbus daemon (apps/MeterCore/Services/modbus-server) between the   *)
(* settings authority and its transports: a watcher thread polls the       *)
(* stored settings and asks for a reload, the service thread applies the   *)
(* candidate and falls back to the settings that worked before when a bind *)
(* or an open fails.                                                       *)
(*                                                                         *)
(* A settings document is one of Configs; Endpoints(c) is the sequence of  *)
(* endpoints it opens, the TCP address first.  An endpoint can be taken by *)
(* another program, which is what makes a start fail.                      *)
(***************************************************************************)
EXTENDS Naturals, Sequences, FiniteSets, SequencesExt

CONSTANTS
    Configs,       \* settings documents
    Endpoints,     \* Configs -> the endpoints a document needs, in order
    Initial,       \* the document stored when the service starts
    MaxStores,     \* how often the document changes
    MaxHangups,    \* SIGHUPs
    Faults         \* settings reads that fail, worker failures, endpoints taken

Resources == UNION {ToSet(Endpoints[c]) : c \in Configs}
None == "none"

VARIABLES
    stored,      \* the settings authority's document (external)
    taken,       \* endpoints another program holds (external)
    active, observed,   \* active_settings_, observed_settings_
    serving,     \* the document the running transports were built from
    held,        \* endpoints this process has open
    worker,      \* the io_worker_ thread runs
    main,        \* [pc, candidate] of the service thread
    watcher,     \* [pc, seen] of the settings watcher
    reload, stop, stopping, failed,  \* the four flags
    left,        \* [stores, hangups, faults] still allowed
    rejected     \* ghost: the document rolled back since the last store

vars == <<stored, taken, active, observed, serving, held, worker, main,
          watcher, reload, stop, stopping, failed, left, rejected>>
envVars == <<stored, taken, left>>
watchVars == <<watcher>>
serverVars == <<serving, held, worker>>

MainSteps == {"start", "loop", "read", "observe", "stop", "apply", "commit",
              "restore", "rollback", "health", "finish", "join", "ended"}

TypeOK ==
    /\ stored \in Configs /\ taken \subseteq Resources
    /\ {active, observed} \subseteq Configs
    /\ serving \in Configs \cup {None} /\ held \subseteq Resources
    /\ worker \in BOOLEAN
    /\ main \in [pc : MainSteps, candidate : Configs]
    /\ watcher \in [pc : {"none", "sleep", "compare", "request", "ended"}, seen : Configs]
    /\ {reload, stop, stopping, failed} \subseteq BOOLEAN
    /\ left \in [stores : 0..MaxStores, hangups : 0..MaxHangups, faults : 0..Faults]
    /\ rejected \in Configs \cup {None}

Init ==
    /\ stored = Initial /\ taken = {}
    /\ active = Initial /\ observed = Initial
    /\ serving = None /\ held = {} /\ worker = FALSE
    /\ main = [pc |-> "start", candidate |-> Initial]
    /\ watcher = [pc |-> "none", seen |-> Initial]
    /\ reload = FALSE /\ stop = FALSE /\ stopping = FALSE /\ failed = FALSE
    /\ left = [stores |-> MaxStores, hangups |-> MaxHangups, faults |-> Faults]
    /\ rejected = None

At(pc) == main.pc = pc
Goto(pc) == main' = [main EXCEPT !.pc = pc]
Fault == left.faults > 0 /\ left' = [left EXCEPT !.faults = @ - 1]

-----------------------------------------------------------------------------
(* ModbusServer::start and the transports below it. *)

(* Every endpoint can be opened. *)
CanOpen(c) == ToSet(Endpoints[c]) \cap (taken \cup held) = {}

(* ModbusServer::start opens the transports in order; the first failure    *)
(* stops those that were started.                                          *)
Started(c) == IF CanOpen(c) THEN held \cup ToSet(Endpoints[c]) ELSE held

(* The worker thread exists only for a server with transports. *)
start_transports(c) ==
    /\ held' = Started(c)
    /\ serving' = IF CanOpen(c) THEN c ELSE None
    /\ worker' = (CanOpen(c) /\ Endpoints[c] # <<>>)

stop_transports == serving' = None /\ held' = {} /\ worker' = FALSE

-----------------------------------------------------------------------------
(* The service thread: Service::execute around on_start, on_reload, on_stop.*)

OnStart ==
    /\ At("start")
    /\ active' = stored /\ observed' = stored
    /\ start_transports(stored)
    /\ IF CanOpen(stored)
       THEN Goto("loop") /\ watcher' = [pc |-> "sleep", seen |-> stored]
       ELSE Goto("ended") /\ UNCHANGED watcher
    /\ UNCHANGED <<reload, stop, stopping, failed, rejected>>
    /\ UNCHANGED envVars

OnStartReadFails ==
    /\ At("start") /\ Fault /\ Goto("ended")
    /\ UNCHANGED <<stored, taken, active, observed, reload, stop, stopping,
                   failed, rejected>>
    /\ UNCHANGED serverVars /\ UNCHANGED watchVars

(* One turn of the loop: the reload flag is taken and cleared at once. *)
LoopTurn ==
    /\ At("loop")
    /\ IF stop THEN Goto("finish") /\ UNCHANGED reload
       ELSE /\ reload' = FALSE
            /\ Goto(IF reload THEN "read" ELSE "health")
    /\ UNCHANGED <<active, observed, stop, stopping, failed, rejected>>
    /\ UNCHANGED envVars /\ UNCHANGED serverVars /\ UNCHANGED watchVars

(* on_reload reads the document again; the request carries none. *)
ReloadRead ==
    /\ At("read")
    /\ main' = [pc |-> "observe", candidate |-> stored]
    /\ UNCHANGED <<active, observed, reload, stop, stopping, failed, rejected>>
    /\ UNCHANGED envVars /\ UNCHANGED serverVars /\ UNCHANGED watchVars

(* The exception leaves the loop: the service ends with an error. *)
ReloadReadFails ==
    /\ At("read") /\ Fault /\ Goto("finish")
    /\ UNCHANGED <<stored, taken, active, observed, reload, stop, stopping,
                   failed, rejected>>
    /\ UNCHANGED serverVars /\ UNCHANGED watchVars

ReloadObserve ==
    /\ At("observe")
    /\ observed' = main.candidate
    /\ Goto(IF main.candidate = active THEN "health" ELSE "stop")
    /\ UNCHANGED <<active, reload, stop, stopping, failed, rejected>>
    /\ UNCHANGED envVars /\ UNCHANGED serverVars /\ UNCHANGED watchVars

ReloadStop ==
    /\ At("stop") /\ stop_transports /\ Goto("apply")
    /\ UNCHANGED <<active, observed, reload, stop, stopping, failed, rejected>>
    /\ UNCHANGED envVars /\ UNCHANGED watchVars

ReloadApply ==
    /\ At("apply")
    /\ start_transports(main.candidate)
    /\ Goto(IF CanOpen(main.candidate) THEN "commit" ELSE "restore")
    /\ rejected' = IF CanOpen(main.candidate) THEN rejected ELSE main.candidate
    /\ UNCHANGED <<active, observed, reload, stop, stopping, failed>>
    /\ UNCHANGED envVars /\ UNCHANGED watchVars

(* A variant that forgets to record what is running. *)
ReloadCommitForgets ==
    /\ At("commit")
    /\ active' = active /\ Goto("health")
    /\ UNCHANGED <<observed, reload, stop, stopping, failed, rejected>>
    /\ UNCHANGED envVars /\ UNCHANGED serverVars /\ UNCHANGED watchVars

ReloadCommit ==
    /\ At("commit")
    /\ active' = main.candidate /\ Goto("health")
    /\ UNCHANGED <<observed, reload, stop, stopping, failed, rejected>>
    /\ UNCHANGED envVars /\ UNCHANGED serverVars /\ UNCHANGED watchVars

ReloadRestore ==
    /\ At("restore") /\ stop_transports /\ Goto("rollback")
    /\ UNCHANGED <<active, observed, reload, stop, stopping, failed, rejected>>
    /\ UNCHANGED envVars /\ UNCHANGED watchVars

(* Back to the last settings that worked; if they fail too, give up. *)
ReloadRollback ==
    /\ At("rollback")
    /\ start_transports(active)
    /\ IF CanOpen(active) THEN Goto("health") /\ UNCHANGED failed
       ELSE Goto("finish") /\ failed' = TRUE
    /\ UNCHANGED <<active, observed, reload, stop, stopping, rejected>>
    /\ UNCHANGED envVars /\ UNCHANGED watchVars

HealthCheck ==
    /\ At("health")
    /\ stop' = (stop \/ failed)
    /\ Goto("loop")
    /\ UNCHANGED <<active, observed, reload, stopping, failed, rejected>>
    /\ UNCHANGED envVars /\ UNCHANGED serverVars /\ UNCHANGED watchVars

(* on_stop: tell the watcher, wait for it, then stop the transports. *)
OnStop ==
    /\ At("finish")
    /\ stopping' = TRUE /\ Goto("join")
    /\ UNCHANGED <<active, observed, reload, stop, failed, rejected>>
    /\ UNCHANGED envVars /\ UNCHANGED serverVars /\ UNCHANGED watchVars

OnStopJoined ==
    /\ At("join") /\ watcher.pc = "ended"
    /\ stop_transports /\ Goto("ended")
    /\ UNCHANGED <<active, observed, reload, stop, stopping, failed, rejected>>
    /\ UNCHANGED envVars /\ UNCHANGED watchVars

-----------------------------------------------------------------------------
(* watch_settings. *)

WatchRead ==
    /\ watcher.pc = "sleep"
    /\ watcher' = IF stopping THEN [watcher EXCEPT !.pc = "ended"]
                  ELSE [pc |-> "compare", seen |-> stored]
    /\ UNCHANGED <<active, observed, main, reload, stop, stopping, failed, rejected>>
    /\ UNCHANGED envVars /\ UNCHANGED serverVars

(* The authority does not answer: look again at the next poll. *)
WatchReadFails ==
    /\ watcher.pc = "sleep" /\ ~stopping /\ Fault
    /\ UNCHANGED <<stored, taken, active, observed, main, watcher, reload, stop,
                   stopping, failed, rejected>>
    /\ UNCHANGED serverVars

(* Under settings_mutex_. *)
WatchCompare ==
    /\ watcher.pc = "compare"
    /\ watcher' = [watcher EXCEPT !.pc = IF watcher.seen = observed THEN "sleep" ELSE "request"]
    /\ observed' = watcher.seen
    /\ UNCHANGED <<active, main, reload, stop, stopping, failed, rejected>>
    /\ UNCHANGED envVars /\ UNCHANGED serverVars

(* A variant that looks only for a change and never asks. *)
WatchRequestForgotten ==
    /\ watcher.pc = "request"
    /\ watcher' = [watcher EXCEPT !.pc = "sleep"]
    /\ UNCHANGED <<active, observed, main, reload, stop, stopping, failed, rejected>>
    /\ UNCHANGED envVars /\ UNCHANGED serverVars

WatchRequest ==
    /\ watcher.pc = "request"
    /\ watcher' = [watcher EXCEPT !.pc = "sleep"]
    /\ reload' = TRUE
    /\ UNCHANGED <<active, observed, main, stop, stopping, failed, rejected>>
    /\ UNCHANGED envVars /\ UNCHANGED serverVars

-----------------------------------------------------------------------------
(* The world outside. *)

(* The operator changes the document. *)
Store ==
    /\ left.stores > 0
    /\ left' = [left EXCEPT !.stores = @ - 1]
    /\ \E c \in Configs \ {stored} : stored' = c
    /\ rejected' = None
    /\ UNCHANGED <<taken, active, observed, main, reload, stop, stopping, failed>>
    /\ UNCHANGED serverVars /\ UNCHANGED watchVars

(* SIGHUP asks for the same reload. *)
Hangup ==
    /\ left.hangups > 0 /\ main.pc # "ended"
    /\ left' = [left EXCEPT !.hangups = @ - 1]
    /\ reload' = TRUE
    /\ UNCHANGED <<stored, taken, active, observed, main, stop, stopping, failed, rejected>>
    /\ UNCHANGED serverVars /\ UNCHANGED watchVars

Terminate ==
    /\ ~stop /\ main.pc # "ended"
    /\ stop' = TRUE
    /\ UNCHANGED <<active, observed, main, reload, stopping, failed, rejected>>
    /\ UNCHANGED envVars /\ UNCHANGED serverVars /\ UNCHANGED watchVars

(* Another program takes, or gives back, an endpoint we do not hold. *)
Take ==
    /\ Fault
    /\ \E e \in Resources \ (held \cup taken) : taken' = taken \cup {e}
    /\ UNCHANGED <<stored, active, observed, main, reload, stop, stopping,
                   failed, rejected>>
    /\ UNCHANGED serverVars /\ UNCHANGED watchVars

Free ==
    /\ \E e \in taken : taken' = taken \ {e}
    /\ UNCHANGED <<stored, active, observed, main, reload, stop, stopping,
                   failed, left, rejected>>
    /\ UNCHANGED serverVars /\ UNCHANGED watchVars

(* context_.run() throws. *)
WorkerFails ==
    /\ worker /\ Fault
    /\ worker' = FALSE /\ failed' = TRUE /\ stop' = TRUE
    /\ UNCHANGED <<stored, taken, active, observed, serving, held, main, reload,
                   stopping, rejected>>
    /\ UNCHANGED watchVars

-----------------------------------------------------------------------------
ServiceThread ==
    \/ OnStart \/ LoopTurn \/ ReloadRead \/ ReloadObserve \/ ReloadStop
    \/ ReloadApply \/ ReloadCommit \/ ReloadRestore \/ ReloadRollback
    \/ HealthCheck \/ OnStop \/ OnStopJoined

WatcherThread == WatchRead \/ WatchCompare \/ WatchRequest

Next ==
    \/ ServiceThread \/ OnStartReadFails \/ ReloadReadFails
    \/ WatcherThread \/ WatchReadFails
    \/ Store \/ Hangup \/ Terminate \/ Take \/ Free \/ WorkerFails

Spec == Init /\ [][Next]_vars

-----------------------------------------------------------------------------
(* Whenever the service thread is between reloads, the transports that run *)
(* are those of active_settings_ and exactly their endpoints are open:     *)
(* a rejected candidate leaves neither itself nor an open endpoint behind. *)
ServesActive ==
    main.pc \in {"loop", "health"} =>
        /\ serving = active /\ held = ToSet(Endpoints[active])
        /\ ~failed => (worker <=> held # {})

(* Nothing stays open when the service has ended. *)
EndedHoldsNothing == main.pc = "ended" => held = {} /\ ~worker

(* A rejected document does not make the service stop and restart its      *)
(* transports for ever: after the last change it comes to rest.            *)
ComesToRest == <>[][~ReloadStop]_vars

(* A stored document is eventually the running one, unless it was tried    *)
(* and rejected or the service has ended: the watcher loses no change,     *)
(* whichever way its poll and a reload overlap.                            *)
Converges == []<>(active = stored \/ rejected = stored \/ main.pc = "ended")

(* A service told to stop, or whose rollback failed, ends. *)
StopEnds == stop \/ failed ~> main.pc = "ended"
=============================================================================
