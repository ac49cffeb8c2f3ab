--------------------------- MODULE SettingsPolicy ---------------------------
(***************************************************************************)
(* Three processes that decide whether, and with which settings, the MQTT    *)
(* publisher runs: the settings authority, which commands the unit at the    *)
(* end of a save; the service manager, which carries the command out and     *)
(* reconciles the unit with the active settings on a timer and on SIGHUP;    *)
(* and the publisher, which polls the settings and reloads itself.           *)
(*                                                                          *)
(* The authority has one thread: while it executes a save nobody can read    *)
(* the settings, and every reader gives up after its timeout.  The manager   *)
(* serves requests and runs the reconciler on one thread, so authority and   *)
(* manager can wait for each other until the manager's read times out.       *)
(***************************************************************************)
EXTENDS Naturals

CONSTANTS Documents,    \* [enabled, cfg]: the mqtt section of the documents
          FirstDocument,
          Credentials, FirstCredentials,
          MaxSaves,     \* bound: saves and changes of the credentials
          MaxReloads,   \* bound: SIGHUPs to the service manager
          MaxCrashes    \* bound: crashes of the publisher

VARIABLES
    active,     \* active_ and the credentials the authority would answer
    authority,  \* its thread: idle, or a step of apply_to_mqtt_service
    manager,    \* the manager's two threads: "io" and "main"
    unit,       \* the publisher's unit as systemd sees it
    main,       \* the publisher's main thread (Service::execute)
    watcher,    \* its settings watcher
    shared,     \* observed_*, the reload flag and what apply put in force
    left        \* saves, reloads and crashes still to come

vars == <<active, authority, manager, unit, main, watcher, shared, left>>

Idle == [at |-> "idle"]
Threads == {"io", "main"}

\* A request to the authority is answered while it is idle.  While it is not,
\* the reader gives up.
Answers == authority.at = "idle"
GivesUp == authority.at # "idle"

\* The unit is active or activating.
Running == unit.up /\ ~unit.term

-----------------------------------------------------------------------------
(* systemd: StartUnit, StopUnit and ReloadUnit answer once the job is queued; *)
(* the job mode is "replace".                                                *)

StartUnit(u) == IF u.up /\ ~u.term THEN u
                ELSE IF u.up THEN [u EXCEPT !.queued = TRUE]
                ELSE [u EXCEPT !.up = TRUE]
StopUnit(u) == IF u.up THEN [u EXCEPT !.term = TRUE, !.queued = FALSE] ELSE u
ReloadUnit(u) == IF u.up THEN [u EXCEPT !.hup = TRUE] ELSE u

Controlled(u, command) ==
    CASE command = "start"  -> StartUnit(u)
      [] command = "stop"   -> StopUnit(u)
      [] command = "reload" -> ReloadUnit(u)
      [] OTHER              -> u

Stopped == [up |-> FALSE, term |-> FALSE, hup |-> FALSE, queued |-> FALSE]

-----------------------------------------------------------------------------
(* The settings authority.                                                  *)

\* save: the runtime appliers and the write, then the MQTT publisher.
Save(d) ==
    /\ authority.at = "idle" /\ left.saves > 0 /\ d # active.doc
    /\ left' = [left EXCEPT !.saves = @ - 1]
    /\ active' = [active EXCEPT !.doc = d]
    /\ authority' = [at |-> "status", doc |-> d, previous |-> active.doc, undo |-> FALSE]
    /\ UNCHANGED <<manager, unit, main, watcher, shared>>

ChangeCredentials(c) ==
    /\ authority.at = "idle" /\ left.saves > 0 /\ c # active.credentials
    /\ left' = [left EXCEPT !.saves = @ - 1]
    /\ active' = [active EXCEPT !.credentials = c]
    /\ UNCHANGED <<authority, manager, unit, main, watcher, shared>>

Command(d) ==
    IF d.enabled THEN IF Running THEN "reload" ELSE "start"
    ELSE IF Running THEN "stop" ELSE "none"

\* apply_to_mqtt_service: the status first, served by the manager's io thread
\* when it is not reconciling.
AskStatus ==
    /\ authority.at = "status" /\ manager["io"].at = "idle"
    /\ authority' = [at |-> "command", command |-> Command(authority.doc),
                     doc |-> authority.doc, previous |-> authority.previous,
                     undo |-> authority.undo]
    /\ UNCHANGED <<active, manager, unit, main, watcher, shared, left>>

\* Then the command.  systemd refuses to reload a unit that is not running.
SendCommand ==
    /\ authority.at = "command" /\ manager["io"].at = "idle"
    /\ authority.command = "reload" => unit.up
    /\ unit' = Controlled(unit, authority.command)
    /\ authority' = [authority EXCEPT !.at = "rest"]
    /\ UNCHANGED <<active, manager, main, watcher, shared, left>>

\* A refused command undoes the save: memory first, then the same two requests
\* with the previous document; an error there is swallowed.
CommandRefused ==
    /\ authority.at = "command" /\ manager["io"].at = "idle"
    /\ authority.command = "reload" /\ ~unit.up
    /\ authority' = IF authority.undo THEN Idle
                    ELSE [at |-> "status", doc |-> authority.previous,
                          previous |-> authority.previous, undo |-> TRUE]
    /\ active' = [active EXCEPT !.doc = authority.previous]
    /\ UNCHANGED <<manager, unit, main, watcher, shared, left>>

\* Clock discipline and data sender follow; then the save is answered.
FinishSave ==
    /\ authority.at = "rest"
    /\ authority' = Idle
    /\ UNCHANGED <<active, manager, unit, main, watcher, shared, left>>

-----------------------------------------------------------------------------
(* The service manager.                                                     *)

\* The timer fires on the io thread; SIGHUP starts the same on the main thread.
Reconcile(t) ==
    /\ manager[t].at = "idle"
    /\ t = "main" => left.reloads > 0
    /\ left' = [left EXCEPT !.reloads = IF t = "main" THEN @ - 1 ELSE @]
    /\ manager' = [manager EXCEPT ![t] = [at |-> "read"]]
    /\ UNCHANGED <<active, authority, unit, main, watcher, shared>>

ReadPolicy(t) ==
    /\ manager[t].at = "read" /\ Answers
    /\ manager' = [manager EXCEPT ![t] = [at |-> "act", doc |-> active.doc]]
    /\ UNCHANGED <<active, authority, unit, main, watcher, shared, left>>

\* The read times out: the policy is deferred to the next timer.
DeferPolicy(t) ==
    /\ manager[t].at = "read" /\ GivesUp
    /\ manager' = [manager EXCEPT ![t] = Idle]
    /\ UNCHANGED <<active, authority, unit, main, watcher, shared, left>>

\* A variant that starts the publisher and never stops it.
ActStart(t) ==
    /\ manager[t].at = "act"
    /\ unit' = IF manager[t].doc.enabled /\ ~Running THEN StartUnit(unit) ELSE unit
    /\ manager' = [manager EXCEPT ![t] = Idle]
    /\ UNCHANGED <<active, authority, main, watcher, shared, left>>

\* reconcile_settings_policy with the settings read before.
Act(t) ==
    /\ manager[t].at = "act"
    /\ unit' = CASE manager[t].doc.enabled /\ ~Running -> StartUnit(unit)
                 [] ~manager[t].doc.enabled /\ Running -> StopUnit(unit)
                 [] OTHER -> unit
    /\ manager' = [manager EXCEPT ![t] = Idle]
    /\ UNCHANGED <<active, authority, main, watcher, shared, left>>

-----------------------------------------------------------------------------
(* The publisher.                                                           *)

\* Default-constructed settings and credentials.
Nothing == [doc |-> [enabled |-> FALSE, cfg |-> 0], credentials |-> "none"]

\* systemd starts the process.
Start ==
    /\ unit.up /\ main.at = "down"
    /\ main' = [at |-> "read", start |-> TRUE]
    /\ shared' = [observed |-> Nothing, reload |-> FALSE, applied |-> Nothing]
    /\ UNCHANGED <<active, authority, manager, unit, watcher, left>>

\* The process ends: the watcher is joined, a queued start is carried out.
Ended == /\ main' = [at |-> "down"]
         /\ watcher' = Idle
         /\ unit' = [Stopped EXCEPT !.up = unit.queued]
         /\ shared' = [observed |-> Nothing, reload |-> FALSE, applied |-> Nothing]

\* on_start and on_reload ask for the settings, which are then observed.
MainReads ==
    /\ main.at = "read" /\ Answers
    /\ main' = [at |-> "apply", start |-> main.start, doc |-> active.doc]
    /\ shared' = [shared EXCEPT !.observed.doc = active.doc]
    /\ UNCHANGED <<active, authority, manager, unit, watcher, left>>

InForce(c) ==
    [shared EXCEPT !.observed.credentials = c,
                   !.applied = [doc |-> main.doc, credentials |-> c]]

\* apply: the credentials are asked for and observed, then both are in force;
\* a disabled publisher does not ask.
Apply(c) == InForce(c)

MainApplies ==
    /\ main.at = "apply" /\ (Answers \/ ~main.doc.enabled)
    /\ shared' = Apply(IF main.doc.enabled THEN active.credentials
                                           ELSE shared.observed.credentials)
    /\ main' = [at |-> "loop"]
    /\ UNCHANGED <<active, authority, manager, unit, watcher, left>>

\* Either request times out: the exception ends the service.
MainFails ==
    /\ GivesUp /\ (main.at = "read" \/ (main.at = "apply" /\ main.doc.enabled))
    /\ Ended
    /\ UNCHANGED <<active, authority, manager, left>>

\* The main loop: SIGTERM, then SIGHUP or the flag of the watcher.
LoopReloads ==
    /\ main.at = "loop" /\ ~unit.term /\ (unit.hup \/ shared.reload)
    /\ main' = [at |-> "read", start |-> FALSE]
    /\ unit' = [unit EXCEPT !.hup = FALSE]
    /\ shared' = [shared EXCEPT !.reload = FALSE]
    /\ UNCHANGED <<active, authority, manager, watcher, left>>

LoopStops ==
    /\ main.at = "loop" /\ unit.term
    /\ Ended
    /\ UNCHANGED <<active, authority, manager, left>>

Crash ==
    /\ main.at # "down" /\ left.crashes > 0
    /\ left' = [left EXCEPT !.crashes = @ - 1]
    /\ Ended
    /\ UNCHANGED <<active, authority, manager>>

\* The watcher runs from the end of on_start on.
Watching == main.at = "loop" \/ (main.at \in {"read", "apply"} /\ ~main.start)

WatcherReads ==
    /\ Watching /\ watcher.at = "idle" /\ Answers
    /\ watcher' = [at |-> "credentials", doc |-> active.doc]
    /\ UNCHANGED <<active, authority, manager, unit, main, shared, left>>

Changed(a, b) == a # b

\* What differs from what was observed is observed and asks for a reload.
WatcherCompares ==
    /\ watcher.at = "credentials" /\ Answers
    /\ LET now == [doc |-> watcher.doc, credentials |-> active.credentials]
       IN  shared' = IF Changed(now, shared.observed)
                     THEN [shared EXCEPT !.observed = now, !.reload = TRUE] ELSE shared
    /\ watcher' = Idle
    /\ UNCHANGED <<active, authority, manager, unit, main, left>>

WatcherGivesUp ==
    /\ watcher.at = "credentials" /\ GivesUp
    /\ watcher' = Idle
    /\ UNCHANGED <<active, authority, manager, unit, main, shared, left>>

-----------------------------------------------------------------------------

Init ==
    /\ active = [doc |-> FirstDocument, credentials |-> FirstCredentials]
    /\ authority = Idle
    /\ manager = [t \in Threads |-> Idle]
    /\ unit = Stopped
    /\ main = [at |-> "down"]
    /\ watcher = Idle
    /\ shared = [observed |-> Nothing, reload |-> FALSE, applied |-> Nothing]
    /\ left = [saves |-> MaxSaves, reloads |-> MaxReloads, crashes |-> MaxCrashes]

AuthorityStep == AskStatus \/ SendCommand \/ CommandRefused \/ FinishSave
ManagerStep(t) == ReadPolicy(t) \/ DeferPolicy(t) \/ Act(t)
MainStep == Start \/ MainReads \/ MainApplies \/ MainFails \/ LoopReloads \/ LoopStops
WatcherStep == WatcherReads \/ WatcherCompares \/ WatcherGivesUp

Next ==
    \/ \E d \in Documents : Save(d)
    \/ \E c \in Credentials : ChangeCredentials(c)
    \/ AuthorityStep
    \/ \E t \in Threads : Reconcile(t) \/ ManagerStep(t)
    \/ MainStep \/ WatcherStep \/ Crash

\* Every thread keeps running, and the reconciler's timer keeps firing.  The
\* authority's wait for the manager is bounded because the manager's is: both
\* are strongly fair against the reconciler that comes and goes between.
Fairness ==
    /\ SF_vars(AuthorityStep)
    /\ WF_vars(Reconcile("io"))
    /\ \A t \in Threads : SF_vars(ManagerStep(t))
    /\ WF_vars(MainStep)
    /\ SF_vars(WatcherReads) /\ SF_vars(WatcherCompares) /\ WF_vars(WatcherGivesUp)

Spec == Init /\ [][Next]_vars /\ Fairness

-----------------------------------------------------------------------------
(* Properties.                                                              *)

\* manager_daemon.cpp reconcile_settings_policy: however saves, reloads, stale
\* readings and crashes interleave, the publisher ends up running exactly when
\* the active settings enable it.
UnitFollowsSettings == <>[](Running = active.doc.enabled)

\* mqtt_publisher_service.cpp watch_settings and on_reload: a publisher that
\* stays enabled ends up with the active settings and credentials in force,
\* whichever of watcher, SIGHUP and start read which of them first.
PublisherFollowsSettings == <>[](active.doc.enabled => shared.applied = active)

\* settings_apply.cpp: the authority is never stuck behind the manager; every
\* save is answered.
SavesAreAnswered == []<>(authority.at = "idle")

\* A reload is only ever taken back by a process that ended: while the flag or
\* the signal is pending the publisher is up, and a publisher that applied an
\* older document than the one it observed has a reload pending or under way.
ObservedIsApplied ==
    main.at = "loop" /\ ~unit.term /\ ~unit.hup /\ ~shared.reload =>
        shared.applied = shared.observed
=============================================================================
