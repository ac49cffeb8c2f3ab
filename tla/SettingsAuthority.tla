-------------------------- MODULE SettingsAuthority --------------------------
(***************************************************************************)
(* msap1-settings: the one owner of active.json, the secrets and the        *)
(* credential assets.  A save applies the candidate to the running services *)
(* (spool, historian, acquisition), writes it, publishes it in memory and    *)
(* then lets the settings-controlled units follow (MQTT publisher, clock     *)
(* discipline, data sender).  Whatever throws is undone with the previous    *)
(* document, and what throws while undoing is swallowed.                     *)
(*                                                                          *)
(* One worker thread serves every request, so a request is a sequence of     *)
(* steps with nothing of another request between them; what comes between    *)
(* is a failed call, a crash, or a service that restarts.                   *)
(***************************************************************************)
EXTENDS Integers, Sequences, FiniteSets

CONSTANTS Documents,    \* [db, acq, mqtt, ptp, valid]: settings documents
          Factory,      \* the packaged document
          Rejected,     \* valid documents the acquisition pipeline refuses
          Secrets,      \* contents of the secrets document
          MaxRequests,  \* bound: requests
          MaxFaults,    \* bound: calls and writes that fail
          MaxCrashes    \* bound: crashes of the authority and of acquisition

\* The packaged document is one of them, and the pipeline accepts it.
ASSUME SettingsAssumption == Factory \in Documents /\ Factory \notin Rejected

None == "none"

VARIABLES
    disk,     \* active.json, secrets.json and assets/
    active,   \* active_: the document in memory
    world,    \* the services that hold a copy of the settings
    op,       \* the request the worker is executing
    left,     \* requests, faults and crashes still to come
    seen      \* what has been answered, and what may excuse a disagreement

vars == <<disk, active, world, op, left, seen>>

Idle == [at |-> "idle"]

-----------------------------------------------------------------------------
(* The copies of a document.                                                *)

\* What every service holds when it follows document d.
Follows(w, d) ==
    /\ w.spool = d.db /\ w.historian = d.db
    /\ w.conf = d.acq /\ w.hardware = d.acq
    /\ w.mqtt = d.mqtt
    /\ w.ntp = ~d.ptp /\ w.clock = d.ptp /\ w.system = d.ptp

Following(d) ==
    [spool |-> d.db, historian |-> d.db, conf |-> d.acq, hardware |-> d.acq,
     mqtt |-> d.mqtt, ntp |-> ~d.ptp, clock |-> d.ptp, system |-> d.ptp]

\* The calls that apply a document, and those that follow its write, in order:
\* the discipline that ends is stopped before the other one starts.
Appliers == <<"spool", "historian", "acquisition">>
Followers(d) ==
    <<"mqtt">> \o (IF d.ptp THEN <<"ntp", "clock", "system">>
                            ELSE <<"system", "clock", "ntp">>)
               \o <<"validate", "reload">>

\* The effect of one call that is answered.  A spool or historian policy that
\* is already in force is not sent; acquisition takes the document for applied
\* when the recorded generation is the one it asks for.
Effect(w, call, d) ==
    CASE call = "spool"       -> [w EXCEPT !.spool = d.db]
      [] call = "historian"   -> [w EXCEPT !.historian = d.db]
      [] call = "acquisition" -> IF w.conf = d.acq THEN w
                                 ELSE [w EXCEPT !.conf = d.acq, !.hardware = d.acq]
      [] call = "mqtt"        -> [w EXCEPT !.mqtt = d.mqtt]
      [] call = "ntp"         -> [w EXCEPT !.ntp = ~d.ptp]
      [] call = "clock"       -> [w EXCEPT !.clock = d.ptp]
      [] call = "system"      -> [w EXCEPT !.system = d.ptp]
      [] OTHER                -> w

\* apply_complete_configuration that fails and cannot restore either: recorded
\* as the previous configuration, staged in the hardware.
Staged(w, d) == [w EXCEPT !.hardware = d.acq]

-----------------------------------------------------------------------------
(* Requests.                                                                *)

Init ==
    /\ disk = [doc |-> Factory, secrets |-> None, assets |-> FALSE]
    /\ active = Factory
    /\ world = Following(Factory)
    /\ op = Idle
    /\ left = [requests |-> MaxRequests, faults |-> MaxFaults, crashes |-> MaxCrashes]
    /\ seen = [doc |-> Factory, secrets |-> None, assets |-> FALSE, excused |-> FALSE,
               failed |-> FALSE]

Ready == op.at = "idle" /\ left.requests > 0

Take == /\ Ready
        /\ left' = [left EXCEPT !.requests = @ - 1]

\* The steps of save_locked from its first call on.
Saving(d, reset) ==
    [at |-> IF d = active THEN "write" ELSE "spool", doc |-> d, previous |-> active,
     undo |-> FALSE, reset |-> reset, secrets |-> disk.secrets, assets |-> disk.assets]

BeginSave(d) == Saving(d, FALSE)

\* save: an invalid document is refused, the active one needs nothing.
Save(d) ==
    /\ Take
    /\ op' = IF ~d.valid \/ d = active THEN Idle ELSE BeginSave(d)
    /\ seen' = [seen EXCEPT !.failed = ~d.valid]
    /\ UNCHANGED <<disk, active, world>>

\* factory_reset: secrets and assets go first; the saved document may equal the
\* active one, in which case only the file is written.
FactoryReset ==
    /\ Take
    /\ op' = Saving(Factory, TRUE)
    /\ disk' = [disk EXCEPT !.secrets = None, !.assets = FALSE]
    /\ UNCHANGED <<active, world, seen>>

\* SecretStore::clear throws before anything else has changed.
FactoryResetFails ==
    /\ Ready /\ left.faults > 0
    /\ left' = [left EXCEPT !.requests = @ - 1, !.faults = @ - 1]
    /\ seen' = [seen EXCEPT !.failed = TRUE]
    /\ UNCHANGED <<disk, active, world, op>>

\* AtomicFileWriter::write: a new file in place of the old one, or an error
\* before the rename, or an error after it (the directory is not synced).
Written(old, new) ==
    {[value |-> new, ok |-> TRUE]} \cup
    IF left.faults > 0 THEN {[value |-> v, ok |-> FALSE] : v \in {old, new}} ELSE {}

\* Removing a file leaves it in place when it fails.
Removed(old, new) ==
    {[value |-> new, ok |-> TRUE]} \cup
    IF left.faults > 0 THEN {[value |-> old, ok |-> FALSE]} ELSE {}

Spend(ok) == IF ok THEN left.faults ELSE left.faults - 1

\* set_secret, set_secret_document, clear_secret.
ChangeSecrets(v) ==
    /\ Ready /\ disk.secrets # v
    /\ \E r \in IF v = None THEN Removed(disk.secrets, v) ELSE Written(disk.secrets, v) :
           /\ disk' = [disk EXCEPT !.secrets = r.value]
           /\ seen' = [seen EXCEPT !.secrets = r.value, !.failed = ~r.ok]
           /\ left' = [left EXCEPT !.requests = @ - 1, !.faults = Spend(r.ok)]
    /\ UNCHANGED <<active, world, op>>

\* put_asset and delete_asset.
ChangeAssets ==
    /\ Ready
    /\ \E r \in IF disk.assets THEN Removed(TRUE, FALSE) ELSE Written(FALSE, TRUE) :
           /\ disk' = [disk EXCEPT !.assets = r.value]
           /\ seen' = [seen EXCEPT !.assets = r.value, !.failed = ~r.ok]
           /\ left' = [left EXCEPT !.requests = @ - 1, !.faults = Spend(r.ok)]
    /\ UNCHANGED <<active, world, op>>

-----------------------------------------------------------------------------
(* The steps of a save.                                                     *)

Calls(o) == Appliers \o <<"write">> \o
            (IF o.doc = o.previous THEN <<>> ELSE Followers(o.doc))

Position(s, x) == CHOOSE i \in 1..Len(s) : s[i] = x

\* The step after a call that is answered.
StepAfter(o) ==
    LET s == Calls(o)
        i == Position(s, o.at)
    IN  IF i = Len(s) THEN "done" ELSE s[i + 1]

\* The order in which rollback calls: both lists with the previous document.
Undoing(o) == Appliers \o Followers(o.previous)

UndoAfter(o) ==
    LET s == Undoing(o)
        i == Position(s, o.at)
    IN  IF i = Len(s) THEN "restore" ELSE s[i + 1]

\* A call that throws: while applying, rollback; once the file is written, the
\* file first; while undoing, the first list gives way to the second, and the
\* second to the end.
After(o, ok) ==
    CASE ok /\ ~o.undo -> [o EXCEPT !.at = StepAfter(o)]
      [] ok /\ o.undo  -> [o EXCEPT !.at = UndoAfter(o)]
      [] ~ok /\ ~o.undo -> IF o.at \in {"spool", "historian", "acquisition"}
                           THEN [o EXCEPT !.undo = TRUE, !.at = "spool"]
                           ELSE [o EXCEPT !.undo = TRUE, !.at = "unwrite"]
      [] OTHER -> [o EXCEPT !.at = IF o.at \in {"spool", "historian", "acquisition"}
                                   THEN "mqtt" ELSE "restore"]

Pushed(o) == IF o.undo THEN o.previous ELSE o.doc

Calling == op.at \in {"spool", "historian", "acquisition", "mqtt", "ntp", "clock",
                      "system", "validate", "reload"}

\* A call to a service that is answered.
Call ==
    /\ Calling
    /\ op.at = "acquisition" => Pushed(op) \notin Rejected
    /\ world' = Effect(world, op.at, Pushed(op))
    /\ op' = After(op, TRUE)
    /\ UNCHANGED <<disk, active, left, seen>>

\* Acquisition refuses the document: it keeps or restores what it had.
Refuse ==
    /\ op.at = "acquisition" /\ Pushed(op) \in Rejected
    /\ op' = After(op, FALSE)
    /\ UNCHANGED <<disk, active, world, left, seen>>

\* A call that fails: it was not carried out, or its answer came too late, or
\* acquisition failed and could not restore its previous configuration.
CallFails ==
    /\ Calling /\ left.faults > 0
    /\ world' \in {world} \cup
           (IF op.at = "acquisition" /\ Pushed(op) \in Rejected THEN {}
            ELSE {Effect(world, op.at, Pushed(op))}) \cup
           (IF op.at = "acquisition" /\ world.conf # Pushed(op).acq
            THEN {Staged(world, Pushed(op))} ELSE {})
    /\ op' = After(op, FALSE)
    /\ left' = [left EXCEPT !.faults = @ - 1]
    /\ seen' = [seen EXCEPT !.excused = @ \/ op.undo
                                          \/ (world'.hardware # world'.conf)]
    /\ UNCHANGED <<disk, active>>

\* The new document is published in memory once its file is in place.
Write ==
    /\ op.at = "write"
    /\ \E r \in Written(disk.doc, op.doc) :
           /\ disk' = [disk EXCEPT !.doc = r.value]
           /\ active' = IF r.ok THEN op.doc ELSE active
           /\ left' = [left EXCEPT !.faults = Spend(r.ok)]
           /\ op' = After(op, r.ok)
    /\ UNCHANGED <<world, seen>>

\* A variant that forgets to write the previous document back.
UnwriteNot ==
    /\ op.at = "unwrite"
    /\ active' = op.previous
    /\ op' = [op EXCEPT !.at = "spool"]
    /\ UNCHANGED <<disk, world, left, seen>>

\* The handler of a failure after the first call: memory, file, then rollback.
Unwrite ==
    /\ op.at = "unwrite"
    /\ active' = op.previous
    /\ \E r \in Written(disk.doc, op.previous) :
           /\ disk' = [disk EXCEPT !.doc = r.value]
           /\ left' = [left EXCEPT !.faults = Spend(r.ok)]
           /\ seen' = [seen EXCEPT !.excused = @ \/ ~r.ok]
    /\ op' = [op EXCEPT !.at = "spool"]
    /\ UNCHANGED world

Done ==
    /\ op.at = "done"
    /\ op' = Idle
    /\ seen' = [seen EXCEPT !.doc = op.doc, !.failed = FALSE,
                            !.excused = @ /\ ~(Follows(world, active) /\ disk.doc = active),
                            !.secrets = IF op.reset THEN None ELSE @,
                            !.assets = IF op.reset THEN FALSE ELSE @]
    /\ UNCHANGED <<disk, active, world, left>>

\* The failure reaches the caller; a failed factory reset first gives back
\* secrets and then assets, and stops where a write fails.
Restore ==
    /\ op.at = "restore"
    /\ op' = Idle
    /\ \E r \in IF op.reset /\ op.secrets # None THEN Written(None, op.secrets)
                ELSE {[value |-> disk.secrets, ok |-> TRUE]} :
       \E q \in IF r.ok /\ op.reset /\ op.assets THEN Written(FALSE, TRUE)
                ELSE {[value |-> disk.assets, ok |-> TRUE]} :
           /\ disk' = [disk EXCEPT !.secrets = r.value, !.assets = q.value]
           /\ left' = [left EXCEPT !.faults = Spend(r.ok /\ q.ok)]
           /\ seen' = IF r.ok /\ q.ok THEN [seen EXCEPT !.failed = TRUE]
                      ELSE [seen EXCEPT !.failed = TRUE, !.secrets = disk'.secrets,
                                        !.assets = disk'.assets]
    /\ UNCHANGED <<active, world>>

-----------------------------------------------------------------------------
(* Restarts.                                                                *)

\* The authority crashes and initialize reads the file again.  Nothing is
\* applied: the services keep what they hold.
Crash ==
    /\ left.crashes > 0
    /\ left' = [left EXCEPT !.crashes = @ - 1]
    /\ active' = disk.doc
    /\ op' = Idle
    /\ seen' = IF op.at = "idle" THEN seen
               ELSE [seen EXCEPT !.excused = TRUE, !.doc = disk.doc, !.failed = FALSE,
                                 !.secrets = disk.secrets, !.assets = disk.assets]
    /\ UNCHANGED <<disk, world>>

\* The next start is one of an image that cannot decode the stored document or
\* whose validators refuse it: the factory document takes its place.
Bootstrap ==
    /\ op.at = "idle" /\ left.crashes > 0
    /\ left' = [left EXCEPT !.crashes = @ - 1]
    /\ disk' = [disk EXCEPT !.doc = Factory]
    /\ active' = Factory
    /\ seen' = [seen EXCEPT !.doc = Factory, !.failed = FALSE,
                            !.excused = @ \/ active # Factory]
    /\ UNCHANGED <<world, op>>

\* Acquisition restarts and takes the active document from the authority.
AcquisitionRestarts ==
    /\ op.at = "idle" /\ left.crashes > 0
    /\ left' = [left EXCEPT !.crashes = @ - 1]
    /\ world' = [world EXCEPT !.conf = active.acq, !.hardware = active.acq]
    /\ UNCHANGED <<disk, active, op, seen>>

Next ==
    \/ \E d \in Documents : Save(d)
    \/ FactoryReset \/ FactoryResetFails
    \/ \E v \in Secrets \cup {None} : ChangeSecrets(v)
    \/ ChangeAssets
    \/ Call \/ Refuse \/ CallFails \/ Write \/ Unwrite \/ Done \/ Restore
    \/ Crash \/ Bootstrap \/ AcquisitionRestarts

Spec == Init /\ [][Next]_vars

-----------------------------------------------------------------------------
(* Properties.                                                              *)

\* settings.cpp save_locked and rollback: whenever the worker is idle, file,
\* memory and every service hold the same document.  Only a second failure
\* while undoing, a hardware that could not be restored, a crash in the middle
\* of a save, or a start that falls back to the factory document may break
\* that, until a later save succeeds.
CopiesAgree ==
    op.at = "idle" /\ ~seen.excused =>
        /\ disk.doc = active
        /\ Follows(world, active)

\* settings_apply.hpp: a document the running pipeline refuses never becomes
\* the stored one, whatever fails or crashes meanwhile.
RejectedNeverStored == disk.doc \notin Rejected /\ active \notin Rejected

\* A save that was answered ok is what a restart reads, until another request
\* succeeds or a failed one could not be undone.
AnsweredSaveIsKept == op.at = "idle" /\ ~seen.excused => disk.doc = seen.doc

\* factory_reset: credentials disappear only with a reset that succeeded; one
\* that fails gives secrets and assets back.
CredentialsKept ==
    op.at = "idle" => disk.secrets = seen.secrets /\ disk.assets = seen.assets

\* settings.cpp, all of the above: a save that was answered ok survives, at rest
\* all copies of the document agree, a document the pipeline refuses is never
\* stored, and credentials are lost only to a reset that succeeded.
SavesAreSound ==
    AnsweredSaveIsKept /\ CopiesAgree /\ RejectedNeverStored /\ CredentialsKept
=============================================================================
