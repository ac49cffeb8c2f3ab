----------------------- MODULE SettingsAuthorityProofs -----------------------
(***************************************************************************)
(* Proofs about the settings authority: whatever calls and writes fail and  *)
(* whatever crashes, file, memory and services agree once a request has     *)
(* been answered, a refused document is never stored and credentials leave  *)
(* only with a reset.                                                       *)
(***************************************************************************)
EXTENDS SettingsAuthority, TLAPS

\* The copies of a document in the running services.
Copies == {"spool", "historian", "conf", "hardware", "mqtt", "ntp", "clock", "system"}

\* What a copy is when it follows document d.
Value(c, d) ==
  CASE c \in {"spool", "historian"} -> d.db
    [] c \in {"conf", "hardware"}   -> d.acq
    [] c = "mqtt"                   -> d.mqtt
    [] c = "ntp"                    -> ~d.ptp
    [] OTHER                        -> d.ptp

\* The copies a call sets.
Slots(call) == IF call = "acquisition" THEN {"conf", "hardware"} ELSE {call} \cap Copies

\* The copies that the calls from `at' on will set: the order of the clock
\* discipline depends on the document.
Discipline == {"ntp", "clock", "system"}
Pending(at, d) ==
  CASE at = "spool"             -> Copies
    [] at = "historian"         -> Copies \ {"spool"}
    [] at = "acquisition"       -> Copies \ {"spool", "historian"}
    [] at \in {"write", "mqtt"} -> {"mqtt"} \cup Discipline
    [] at = "ntp"               -> IF d.ptp THEN Discipline ELSE {"ntp"}
    [] at = "clock"             -> IF d.ptp THEN {"clock", "system"} ELSE {"clock", "ntp"}
    [] at = "system"            -> IF d.ptp THEN {"system"} ELSE Discipline
    [] OTHER                    -> {}

Holds(w, S, d) == \A c \in S : w[c] = Value(c, d)

Applying == {"spool", "historian", "acquisition"}
Trailing == {"mqtt", "ntp", "clock", "system", "validate", "reload"}
Steps == Applying \cup Trailing \cup {"write", "unwrite", "done", "restore"}

Requests ==
  [at : Steps, doc : Documents, previous : Documents, undo : BOOLEAN, reset : BOOLEAN,
   secrets : Secrets \cup {None}, assets : BOOLEAN]

-----------------------------------------------------------------------------
\* The inductive invariant.

TypeInv ==
  /\ disk \in [doc : Documents, secrets : Secrets \cup {None}, assets : BOOLEAN]
  /\ active \in Documents
  /\ DOMAIN world = Copies
  /\ op = Idle \/ op \in Requests
  /\ seen \in [doc : Documents, secrets : Secrets \cup {None}, assets : BOOLEAN,
               excused : BOOLEAN, failed : BOOLEAN]

\* A document gets past the acquisition service only if it accepts it.
AcceptedInv ==
  /\ disk.doc \notin Rejected /\ active \notin Rejected
  /\ op.at # "idle" =>
       /\ op.previous \notin Rejected
       /\ ~op.undo /\ op.at \notin Applying => op.doc \notin Rejected

\* Where a request is, and which document is in memory.
PhaseInv ==
  op.at # "idle" =>
    /\ op.at \in {"unwrite", "restore"} => op.undo
    /\ op.at \in {"write", "done"} => ~op.undo
    /\ op.at \in Applying \cup {"write"} => active = op.previous
    /\ op.undo /\ op.at # "unwrite" => active = op.previous
    /\ ~op.undo /\ op.at \notin Applying \cup {"write"} =>
         active = op.doc /\ disk.doc = op.doc
    /\ ~op.undo /\ op.doc = op.previous => op.at \in {"write", "done"}

\* A reset takes the credentials away and remembers them.
CredentialInv ==
  IF op.at = "idle" THEN disk.secrets = seen.secrets /\ disk.assets = seen.assets
  ELSE /\ op.secrets = seen.secrets /\ op.assets = seen.assets
       /\ disk.secrets = IF op.reset THEN None ELSE seen.secrets
       /\ disk.assets = IF op.reset THEN FALSE ELSE seen.assets

\* Without an excuse: between requests all copies are the answered document;
\* within one, those the calls so far have set are the one that is pushed.
CopyInv ==
  ~seen.excused =>
    /\ world["hardware"] = world["conf"]
    /\ op.at = "idle" => /\ disk.doc = active /\ seen.doc = active
                         /\ Holds(world, Copies, active)
    /\ op.at # "idle" =>
         /\ seen.doc = op.previous
         /\ op.at \in Applying \cup {"write"} => disk.doc = op.previous
         /\ op.undo /\ op.at # "unwrite" => disk.doc = op.previous
         /\ op.at # "unwrite" =>
              Holds(world, Copies \ Pending(op.at, Pushed(op)), Pushed(op))
         /\ ~op.undo /\ op.doc = op.previous => Holds(world, Copies, op.doc)

SettingsInv == TypeInv /\ AcceptedInv /\ PhaseInv /\ CredentialInv /\ CopyInv

-----------------------------------------------------------------------------
\* The order of the calls.

\* The step that follows `at' when d is applied, and when it is restored.
StepTable(at, d) ==
  CASE at = "spool"       -> "historian"
    [] at = "historian"   -> "acquisition"
    [] at = "acquisition" -> "write"
    [] at = "write"       -> "mqtt"
    [] at = "mqtt"        -> IF d.ptp THEN "ntp" ELSE "system"
    [] at = "ntp"         -> IF d.ptp THEN "clock" ELSE "validate"
    [] at = "clock"       -> IF d.ptp THEN "system" ELSE "ntp"
    [] at = "system"      -> IF d.ptp THEN "validate" ELSE "clock"
    [] at = "validate"    -> "reload"
    [] OTHER              -> "done"
UndoTable(at, d) ==
  CASE at = "acquisition" -> "mqtt"
    [] at = "reload"      -> "restore"
    [] OTHER              -> StepTable(at, d)

\* The place of an element in a sequence without repetitions.
LEMMA PositionIs ==
  ASSUME NEW s, NEW i \in 1..Len(s), \A j \in 1..Len(s) : s[j] = s[i] => j = i
  PROVE  Position(s, s[i]) = i
BY DEF Position

\* The calls of a save that turns the external clock on.
LEMMA SavingClock ==
  ASSUME NEW o, o.doc # o.previous, o.doc.ptp,
         o.at \in Applying \cup Trailing \cup {"write"}
  PROVE  StepAfter(o) = StepTable(o.at, o.doc)
<1> DEFINE s == Calls(o)
<1>1. /\ Len(s) = 10
      /\ s[1] = "spool" /\ s[2] = "historian" /\ s[3] = "acquisition"
      /\ s[4] = "write" /\ s[5] = "mqtt" /\ s[6] = "ntp"
      /\ s[7] = "clock" /\ s[8] = "system" /\ s[9] = "validate"
      /\ s[10] = "reload"
  BY DEF Calls, Appliers, Followers
<1> HIDE DEF s
<1>2. \A i \in 1..10 : Position(s, s[i]) = i
  <2> TAKE i \in 1..10
  <2>1. i \in 1..Len(s) /\ \A j \in 1..Len(s) : s[j] = s[i] => j = i
    BY <1>1
  <2> QED
    BY Zenon, <2>1, PositionIs
<1>3. PICK i \in 1..10 : o.at = s[i]
  BY <1>1 DEF Applying, Trailing
<1>4. StepAfter(o) = IF i = 10 THEN "done" ELSE s[i + 1]
  BY <1>1, <1>2, <1>3 DEF StepAfter, s
<1> QED
  BY <1>1, <1>3, <1>4 DEF StepTable

\* The calls of a save that turns it off.
LEMMA SavingNetwork ==
  ASSUME NEW o, o.doc # o.previous, ~o.doc.ptp,
         o.at \in Applying \cup Trailing \cup {"write"}
  PROVE  StepAfter(o) = StepTable(o.at, o.doc)
<1> DEFINE s == Calls(o)
<1>1. /\ Len(s) = 10
      /\ s[1] = "spool" /\ s[2] = "historian" /\ s[3] = "acquisition"
      /\ s[4] = "write" /\ s[5] = "mqtt" /\ s[6] = "system"
      /\ s[7] = "clock" /\ s[8] = "ntp" /\ s[9] = "validate"
      /\ s[10] = "reload"
  BY DEF Calls, Appliers, Followers
<1> HIDE DEF s
<1>2. \A i \in 1..10 : Position(s, s[i]) = i
  <2> TAKE i \in 1..10
  <2>1. i \in 1..Len(s) /\ \A j \in 1..Len(s) : s[j] = s[i] => j = i
    BY <1>1
  <2> QED
    BY Zenon, <2>1, PositionIs
<1>3. PICK i \in 1..10 : o.at = s[i]
  BY <1>1 DEF Applying, Trailing
<1>4. StepAfter(o) = IF i = 10 THEN "done" ELSE s[i + 1]
  BY <1>1, <1>2, <1>3 DEF StepAfter, s
<1> QED
  BY <1>1, <1>3, <1>4 DEF StepTable

\* The calls that restore a document with the external clock.
LEMMA UndoingClock ==
  ASSUME NEW o, o.previous.ptp,
         o.at \in Applying \cup Trailing
  PROVE  UndoAfter(o) = UndoTable(o.at, o.previous)
<1> DEFINE s == Undoing(o)
<1>1. /\ Len(s) = 9
      /\ s[1] = "spool" /\ s[2] = "historian" /\ s[3] = "acquisition"
      /\ s[4] = "mqtt" /\ s[5] = "ntp" /\ s[6] = "clock"
      /\ s[7] = "system" /\ s[8] = "validate" /\ s[9] = "reload"
  BY DEF Undoing, Appliers, Followers
<1> HIDE DEF s
<1>2. \A i \in 1..9 : Position(s, s[i]) = i
  <2> TAKE i \in 1..9
  <2>1. i \in 1..Len(s) /\ \A j \in 1..Len(s) : s[j] = s[i] => j = i
    BY <1>1
  <2> QED
    BY Zenon, <2>1, PositionIs
<1>3. PICK i \in 1..9 : o.at = s[i]
  BY <1>1 DEF Applying, Trailing
<1>4. UndoAfter(o) = IF i = 9 THEN "restore" ELSE s[i + 1]
  BY <1>1, <1>2, <1>3 DEF UndoAfter, s
<1> QED
  BY <1>1, <1>3, <1>4 DEF UndoTable, StepTable

\* The calls that restore one without.
LEMMA UndoingNetwork ==
  ASSUME NEW o, ~o.previous.ptp,
         o.at \in Applying \cup Trailing
  PROVE  UndoAfter(o) = UndoTable(o.at, o.previous)
<1> DEFINE s == Undoing(o)
<1>1. /\ Len(s) = 9
      /\ s[1] = "spool" /\ s[2] = "historian" /\ s[3] = "acquisition"
      /\ s[4] = "mqtt" /\ s[5] = "system" /\ s[6] = "clock"
      /\ s[7] = "ntp" /\ s[8] = "validate" /\ s[9] = "reload"
  BY DEF Undoing, Appliers, Followers
<1> HIDE DEF s
<1>2. \A i \in 1..9 : Position(s, s[i]) = i
  <2> TAKE i \in 1..9
  <2>1. i \in 1..Len(s) /\ \A j \in 1..Len(s) : s[j] = s[i] => j = i
    BY <1>1
  <2> QED
    BY Zenon, <2>1, PositionIs
<1>3. PICK i \in 1..9 : o.at = s[i]
  BY <1>1 DEF Applying, Trailing
<1>4. UndoAfter(o) = IF i = 9 THEN "restore" ELSE s[i + 1]
  BY <1>1, <1>2, <1>3 DEF UndoAfter, s
<1> QED
  BY <1>1, <1>3, <1>4 DEF UndoTable, StepTable

\* A reset to the active document only writes the file.
LEMMA SavingAgain ==
  ASSUME NEW o, o.doc = o.previous, o.at = "write"
  PROVE  StepAfter(o) = "done"
<1> DEFINE s == Calls(o)
<1>1. /\ Len(s) = 4
      /\ s[1] = "spool" /\ s[2] = "historian" /\ s[3] = "acquisition" /\ s[4] = "write"
  BY DEF Calls, Appliers
<1>2. StepAfter(o) = IF Position(s, o.at) = 4 THEN "done" ELSE s[Position(s, o.at) + 1]
  BY <1>1 DEF StepAfter
<1> HIDE DEF s
<1>3. Position(s, s[4]) = 4
  <2>1. \A j \in 1..4 : s[j] = s[4] => j = 4 BY <1>1
  <2> QED BY <1>1, <2>1, PositionIs
<1> QED BY <1>1, <1>2, <1>3

\* The effect of a call on the copies.
LEMMA EffectIs ==
  ASSUME NEW w, DOMAIN w = Copies, NEW d, NEW call \in Applying \cup Trailing
  PROVE  /\ DOMAIN Effect(w, call, d) = Copies
         /\ w["hardware"] = w["conf"] =>
              \A c \in Copies : Effect(w, call, d)[c] =
                                  IF c \in Slots(call) THEN Value(c, d) ELSE w[c]
<1>1. CASE call \in {"spool", "historian", "mqtt", "ntp", "clock", "system"}
  <2>1. Effect(w, call, d) = [w EXCEPT ![call] = Value(call, d)]
    BY Zenon, <1>1 DEF Effect, Value
  <2>2. Slots(call) = {call}
    BY Zenon, <1>1 DEF Slots, Copies
  <2> QED
    BY <2>1, <2>2
<1>2. CASE call = "acquisition"
  <2>1. Slots(call) = {"conf", "hardware"}
    BY <1>2 DEF Slots
  <2>2. Value("conf", d) = d.acq /\ Value("hardware", d) = d.acq
    BY DEF Value
  <2>3. CASE w.conf = d.acq
    <3>1. Effect(w, call, d) = w
      BY <1>2, <2>3 DEF Effect
    <3> QED
      BY <2>1, <2>2, <2>3, <3>1
  <2>4. CASE w.conf # d.acq
    <3>1. Effect(w, call, d) = [w EXCEPT !.conf = d.acq, !.hardware = d.acq]
      BY <1>2, <2>4 DEF Effect
    <3> QED
      BY <2>1, <2>2, <3>1 DEF Copies
  <2> QED
    BY <2>3, <2>4
<1>3. CASE call \in {"validate", "reload"}
  <2>1. Effect(w, call, d) = w /\ Slots(call) = {}
    BY <1>3 DEF Effect, Slots, Copies
  <2> QED
    BY <2>1
<1> QED
  BY <1>1, <1>2, <1>3 DEF Applying, Trailing

\* A call brings its copies to the document that is pushed.
LEMMA Called ==
  ASSUME NEW w, DOMAIN w = Copies, w["hardware"] = w["conf"], NEW d,
         NEW call \in Applying \cup Trailing, NEW P, Holds(w, Copies \ P, d)
  PROVE  /\ Holds(Effect(w, call, d), Copies \ (P \ Slots(call)), d)
         /\ Effect(w, call, d)["hardware"] = Effect(w, call, d)["conf"]
<1>1. \A c \in Copies : Effect(w, call, d)[c] =
                          IF c \in Slots(call) THEN Value(c, d) ELSE w[c]
  BY EffectIs
<1>2. Holds(Effect(w, call, d), Copies \ (P \ Slots(call)), d)
  BY <1>1 DEF Holds
<1>3. "hardware" \in Copies /\ "conf" \in Copies
  BY DEF Copies
<1>4. /\ "hardware" \in Slots(call) <=> "conf" \in Slots(call)
      /\ Value("hardware", d) = Value("conf", d)
  BY DEF Slots, Value, Applying, Trailing
<1> QED
  BY <1>1, <1>2, <1>3, <1>4

\* Following a document, copy by copy.
LEMMA FollowsIs ==
  ASSUME NEW w, NEW d
  PROVE  Follows(w, d) <=> Holds(w, Copies, d)
BY DEF Follows, Holds, Copies, Value

\* What is still to be called, after the next call.
LEMMA PendingStep ==
  ASSUME NEW d, NEW at \in Applying \cup Trailing
  PROVE  /\ Pending(StepTable(at, d), d) = Pending(at, d) \ Slots(at)
         /\ Pending(UndoTable(at, d), d) = Pending(at, d) \ Slots(at)
<1>1. CASE at \in Applying
  BY ZenonT(40), <1>1 DEF Applying, StepTable, UndoTable, Pending, Slots, Copies, Discipline
<1>2. CASE at \in Trailing /\ d.ptp
  BY ZenonT(40), <1>2 DEF Trailing, StepTable, UndoTable, Pending, Slots, Copies, Discipline
<1>3. CASE at \in Trailing /\ ~d.ptp
  BY ZenonT(40), <1>3 DEF Trailing, StepTable, UndoTable, Pending, Slots, Copies, Discipline
<1> QED
  BY <1>1, <1>2, <1>3

-----------------------------------------------------------------------------
\* The steps of a request.

\* A request that has begun has its fields.
LEMMA Begun ==
  ASSUME TypeInv, op.at # "idle"
  PROVE  op \in Requests
BY DEF TypeInv, Idle

\* A request that goes on.
LEMMA Moved ==
  ASSUME NEW o \in Requests, NEW x \in Steps, NEW n, n = [o EXCEPT !.at = x]
  PROVE  /\ n \in Requests /\ n.at = x /\ n.undo = o.undo
         /\ n.doc = o.doc /\ n.previous = o.previous
         /\ n.reset = o.reset /\ n.secrets = o.secrets /\ n.assets = o.assets
BY DEF Requests

\* A request that turns back.
LEMMA Turned ==
  ASSUME NEW o \in Requests, NEW x \in Steps, NEW n, n = [o EXCEPT !.undo = TRUE, !.at = x]
  PROVE  /\ n \in Requests /\ n.at = x /\ n.undo
         /\ n.doc = o.doc /\ n.previous = o.previous
         /\ n.reset = o.reset /\ n.secrets = o.secrets /\ n.assets = o.assets
BY Zenon DEF Requests

\* Where an answer leads.
LEMMA AfterAnswer ==
  ASSUME NEW o \in Requests, o.at \in Applying \cup Trailing,
         ~o.undo => o.doc # o.previous
  PROVE  After(o, TRUE) =
           [o EXCEPT !.at = IF o.undo THEN UndoTable(o.at, o.previous)
                            ELSE StepTable(o.at, o.doc)]
<1>1. CASE o.undo
  <2>1. UndoAfter(o) = UndoTable(o.at, o.previous)
    BY UndoingClock, UndoingNetwork
  <2> QED
    BY <1>1, <2>1 DEF After
<1>2. CASE ~o.undo
  <2>1. StepAfter(o) = StepTable(o.at, o.doc)
    BY <1>2, SavingClock, SavingNetwork
  <2> QED
    BY <1>2, <2>1 DEF After
<1> QED
  BY Zenon, <1>1, <1>2

\* Where a failure leads.
LEMMA AfterFailure ==
  ASSUME NEW o \in Requests
  PROVE  After(o, FALSE) =
           IF o.undo THEN [o EXCEPT !.at = IF o.at \in Applying THEN "mqtt" ELSE "restore"]
           ELSE [o EXCEPT !.undo = TRUE,
                          !.at = IF o.at \in Applying THEN "spool" ELSE "unwrite"]
BY Zenon DEF After, Applying

\* The steps that may follow a call.
LEMMA Tables ==
  ASSUME NEW at \in Applying \cup Trailing, NEW d
  PROVE  /\ StepTable(at, d) \in Steps \ {"unwrite", "restore"}
         /\ StepTable(at, d) \in Applying \cup {"write"} <=> at \in Applying
         /\ StepTable(at, d) \in Applying <=> at \in {"spool", "historian"}
         /\ UndoTable(at, d) \in Steps \ {"unwrite", "write", "done"}
BY DEF StepTable, UndoTable, Steps, Applying, Trailing

\* The start: every service follows the packaged document.
LEMMA SettingsInit == Init => SettingsInv
<1> SUFFICES ASSUME Init PROVE SettingsInv
  OBVIOUS
<1>1. TypeInv
  BY SettingsAssumption DEF Init, TypeInv, Following, Copies
<1>2. op.at = "idle"
  BY DEF Init, Idle
<1>3. AcceptedInv /\ PhaseInv /\ CredentialInv
  BY <1>2, SettingsAssumption DEF Init, AcceptedInv, PhaseInv, CredentialInv
<1>4. Follows(world, active) /\ world["hardware"] = world["conf"]
  BY DEF Init, Following, Follows
<1>5. CopyInv
  BY <1>2, <1>4, FollowsIs DEF Init, CopyInv
<1> QED
  BY <1>1, <1>3, <1>5 DEF SettingsInv

\* An answered call keeps the invariant.
LEMMA SettingsCall == ASSUME SettingsInv, Call PROVE SettingsInv'
<1> DEFINE d == Pushed(op)
           x == IF op.undo THEN UndoTable(op.at, op.previous) ELSE StepTable(op.at, op.doc)
<1>1. op \in Requests /\ op.at \in Applying \cup Trailing
  BY Begun DEF SettingsInv, Call, Calling, Applying, Trailing
<1>2. op.at \notin {"idle", "write", "unwrite", "done", "restore"}
  BY <1>1 DEF Applying, Trailing
<1>3. ~op.undo => op.doc # op.previous
  BY <1>2 DEF SettingsInv, PhaseInv
<1>4. op' = [op EXCEPT !.at = x]
  BY Zenon, <1>1, <1>3, AfterAnswer DEF Call
<1>5. /\ x \in Steps /\ x # "unwrite"
      /\ op.undo => x \notin {"write", "done"}
      /\ ~op.undo => /\ x # "restore"
                     /\ x \in Applying \cup {"write"} <=> op.at \in Applying
                     /\ x \in Applying <=> op.at \in {"spool", "historian"}
  BY <1>1, Tables
<1>6. /\ op' \in Requests /\ op'.at = x /\ op'.undo = op.undo
      /\ op'.doc = op.doc /\ op'.previous = op.previous
      /\ op'.reset = op.reset /\ op'.secrets = op.secrets /\ op'.assets = op.assets
  <2> HIDE DEF x
  <2> QED BY <1>1, <1>4, <1>5, Moved
<1>7. x # "idle"
  <2> HIDE DEF x
  <2> QED BY <1>5 DEF Steps, Applying, Trailing
<1>8. Pending(x, d) = Pending(op.at, d) \ Slots(op.at)
  BY <1>1, PendingStep DEF Pushed
<1>9. /\ world' = Effect(world, op.at, d)
      /\ disk' = disk /\ active' = active /\ left' = left /\ seen' = seen
      /\ op.at = "acquisition" => d \notin Rejected
  BY DEF Call
<1>10. ~op.undo => d = op.doc
  BY DEF Pushed
<1>11. Pushed(op') = d
  BY <1>6 DEF Pushed
<1> HIDE DEF x, d
<1>12. TypeInv'
  BY <1>1, <1>6, <1>9, EffectIs DEF SettingsInv, TypeInv
<1>13. AcceptedInv'
  BY <1>2, <1>5, <1>6, <1>7, <1>9, <1>10 DEF SettingsInv, AcceptedInv, Applying
<1>14. PhaseInv'
  <2>1. CASE op.undo
    BY <1>2, <1>5, <1>6, <1>7, <1>9, <2>1 DEF SettingsInv, PhaseInv
  <2>2. CASE ~op.undo
    BY <1>2, <1>3, <1>5, <1>6, <1>7, <1>9, <2>2 DEF SettingsInv, PhaseInv
  <2> QED BY <2>1, <2>2
<1>15. CredentialInv'
  BY Zenon, <1>2, <1>6, <1>7, <1>9 DEF SettingsInv, CredentialInv
<1>16. CopyInv'
  <2> SUFFICES ASSUME ~seen.excused PROVE CopyInv'
    BY <1>9 DEF CopyInv
  <2>1. world["hardware"] = world["conf"] /\ seen.doc = op.previous
        /\ Holds(world, Copies \ Pending(op.at, d), d)
    BY <1>2 DEF SettingsInv, CopyInv, d
  <2>2. Holds(world', Copies \ Pending(x, d), d) /\ world'["hardware"] = world'["conf"]
    BY ZenonT(40), <1>1, <1>8, <1>9, <2>1, Called DEF SettingsInv, TypeInv
  <2>3. x \in Applying \cup {"write"} => disk.doc = op.previous
    BY <1>2, <1>5 DEF SettingsInv, CopyInv
  <2>4. op.undo => disk.doc = op.previous
    BY <1>2 DEF SettingsInv, CopyInv
  <2> QED
    BY <1>3, <1>6, <1>7, <1>9, <1>11, <2>1, <2>2, <2>3, <2>4 DEF CopyInv
<1> QED
  BY <1>12, <1>13, <1>14, <1>15, <1>16 DEF SettingsInv

\* A step that fails on the way forward and leaves file and memory alone:
\* from the first calls straight to rollback, from the later ones to the file.
LEMMA TurnsBack ==
  ASSUME SettingsInv, op.at \in Applying \cup Trailing \cup {"write"}, ~op.undo,
         op' = After(op, FALSE), active' = active,
         disk'.secrets = disk.secrets /\ disk'.assets = disk.assets,
         disk' \in [doc : Documents, secrets : Secrets \cup {None}, assets : BOOLEAN],
         disk'.doc = disk.doc \/ (op.at = "write" /\ disk'.doc = op.doc),
         DOMAIN world' = Copies,
         seen' \in [doc : Documents, secrets : Secrets \cup {None}, assets : BOOLEAN,
                    excused : BOOLEAN, failed : BOOLEAN],
         seen'.doc = seen.doc, seen'.secrets = seen.secrets, seen'.assets = seen.assets,
         ~seen'.excused => ~seen.excused /\ world'["hardware"] = world'["conf"]
  PROVE  SettingsInv'
<1> DEFINE x == IF op.at \in Applying THEN "spool" ELSE "unwrite"
<1>1. op.at # "idle" /\ op \in Requests
  BY Begun DEF SettingsInv, Applying, Trailing
<1>2. op' = [op EXCEPT !.undo = TRUE, !.at = x]
  BY Zenon, <1>1, AfterFailure
<1>3. x \in Steps /\ x # "idle"
  BY DEF Steps, Applying
<1> HIDE DEF x
<1>4. /\ op' \in Requests /\ op'.at = x /\ op'.undo
      /\ op'.doc = op.doc /\ op'.previous = op.previous
      /\ op'.reset = op.reset /\ op'.secrets = op.secrets /\ op'.assets = op.assets
  BY Zenon, <1>1, <1>2, <1>3 DEF Requests
<1>5. TypeInv'
  BY Zenon, <1>4 DEF SettingsInv, TypeInv
<1>6. AcceptedInv'
  BY Zenon, <1>1, <1>4 DEF SettingsInv, AcceptedInv, Applying
<1>7. PhaseInv'
  BY Zenon, <1>1, <1>4 DEF SettingsInv, PhaseInv, x, Applying
<1>8. CredentialInv'
  BY Zenon, <1>1, <1>3, <1>4 DEF SettingsInv, CredentialInv
<1>9. CopyInv'
  <2> SUFFICES ASSUME ~seen'.excused PROVE CopyInv'
    BY Zenon DEF CopyInv
  <2>1. seen.doc = op.previous /\ (op.at \in Applying => disk.doc = op.previous)
    BY <1>1 DEF SettingsInv, CopyInv
  <2>2. CASE op.at \in Applying
    <3>1. x = "spool" /\ disk'.doc = op.previous
      BY <2>1, <2>2 DEF x, Applying
    <3>2. Holds(world', Copies \ Pending("spool", Pushed(op')), Pushed(op'))
      BY DEF Holds, Pending
    <3> QED
      BY Zenon, <1>4, <2>1, <3>1, <3>2 DEF CopyInv
  <2>3. CASE op.at \notin Applying
    BY Zenon, <1>4, <2>1, <2>3 DEF CopyInv, x, Applying
  <2> QED
    BY <2>2, <2>3
<1> QED
  BY <1>5, <1>6, <1>7, <1>8, <1>9 DEF SettingsInv

\* A refused document: the previous one is never refused.
LEMMA SettingsRefuse == ASSUME SettingsInv, Refuse PROVE SettingsInv'
<1>1. op.at = "acquisition" /\ Pushed(op) \in Rejected /\ op' = After(op, FALSE)
      /\ disk' = disk /\ active' = active /\ world' = world /\ seen' = seen
  BY DEF Refuse
<1>2. ~op.undo
  BY <1>1 DEF Pushed, SettingsInv, AcceptedInv
<1>3. op.at \in Applying
  BY <1>1 DEF Applying
<1>4. ~seen.excused => world["hardware"] = world["conf"]
  BY DEF SettingsInv, CopyInv
<1> QED
  BY Zenon, <1>1, <1>2, <1>3, <1>4, TurnsBack DEF SettingsInv, TypeInv

\* A failed call: forward it turns back; while undoing it is an excuse.
LEMMA SettingsCallFails == ASSUME SettingsInv, CallFails PROVE SettingsInv'
<1>1. op.at \in Applying \cup Trailing /\ op.at # "idle" /\ op \in Requests
  BY Begun DEF SettingsInv, CallFails, Calling, Applying, Trailing
<1>2. /\ op' = After(op, FALSE) /\ disk' = disk /\ active' = active
      /\ seen' = [seen EXCEPT !.excused = @ \/ op.undo \/ (world'.hardware # world'.conf)]
  BY DEF CallFails
<1>3. DOMAIN world' = Copies
  <2>1. DOMAIN world = Copies
    BY DEF SettingsInv, TypeInv
  <2>2. DOMAIN Effect(world, op.at, Pushed(op)) = Copies
    BY <1>1, <2>1, EffectIs
  <2>3. DOMAIN Staged(world, Pushed(op)) = Copies
    BY <2>1 DEF Staged
  <2>4. \/ world' = world \/ world' = Effect(world, op.at, Pushed(op))
        \/ world' = Staged(world, Pushed(op))
    BY DEF CallFails
  <2> QED
    BY <2>1, <2>2, <2>3, <2>4
<1>4. /\ seen' \in [doc : Documents, secrets : Secrets \cup {None}, assets : BOOLEAN,
                    excused : BOOLEAN, failed : BOOLEAN]
      /\ seen'.doc = seen.doc /\ seen'.secrets = seen.secrets /\ seen'.assets = seen.assets
      /\ seen'.excused <=> seen.excused \/ op.undo \/ (world'["hardware"] # world'["conf"])
  BY Zenon, <1>2 DEF SettingsInv, TypeInv
<1>5. CASE ~op.undo
  BY Zenon, <1>1, <1>2, <1>3, <1>4, <1>5, TurnsBack DEF SettingsInv, TypeInv
<1>6. CASE op.undo
  <2> DEFINE x == IF op.at \in Applying THEN "mqtt" ELSE "restore"
  <2>1. op' = [op EXCEPT !.at = x]
    BY Zenon, <1>1, <1>2, <1>6, AfterFailure
  <2>2. x \in Steps /\ x \in {"mqtt", "restore"}
    BY DEF Steps, Trailing
  <2> HIDE DEF x
  <2>3. /\ op' \in Requests /\ op'.at = x /\ op'.undo = op.undo
        /\ op'.doc = op.doc /\ op'.previous = op.previous
        /\ op'.reset = op.reset /\ op'.secrets = op.secrets /\ op'.assets = op.assets
    BY <1>1, <2>1, <2>2, Moved
  <2>4. TypeInv'
    BY Zenon, <1>2, <1>3, <1>4, <2>3 DEF SettingsInv, TypeInv
  <2>5. AcceptedInv'
    BY Zenon, <1>1, <1>2, <1>6, <2>3 DEF SettingsInv, AcceptedInv
  <2>6. PhaseInv'
    BY Zenon, <1>1, <1>2, <1>6, <2>2, <2>3 DEF SettingsInv, PhaseInv, Applying, Trailing
  <2>7. CredentialInv'
    BY Zenon, <1>1, <1>2, <1>4, <2>2, <2>3 DEF SettingsInv, CredentialInv
  <2>8. CopyInv'
    BY <1>4, <1>6 DEF CopyInv
  <2> QED
    BY <2>4, <2>5, <2>6, <2>7, <2>8 DEF SettingsInv
<1> QED
  BY <1>5, <1>6

\* The write of the new document, whether or not it fails.
LEMMA SettingsWrite == ASSUME SettingsInv, Write PROVE SettingsInv'
<1>1. op.at = "write" /\ op \in Requests /\ world' = world /\ seen' = seen
  BY Begun DEF SettingsInv, Write
<1>2. ~op.undo /\ active = op.previous /\ op.doc \notin Rejected
  BY <1>1 DEF SettingsInv, PhaseInv, AcceptedInv, Applying
<1>3. PICK r \in Written(disk.doc, op.doc) :
           /\ disk' = [disk EXCEPT !.doc = r.value]
           /\ active' = IF r.ok THEN op.doc ELSE active
           /\ op' = After(op, r.ok)
  BY DEF Write
<1>4. \/ r.ok = TRUE /\ r.value = op.doc
      \/ r.ok = FALSE /\ r.value \in {disk.doc, op.doc}
  BY <1>3 DEF Written
<1>5. op.doc \in Documents /\ disk.doc \in Documents
  BY <1>1 DEF SettingsInv, TypeInv, Requests
<1>6. /\ disk' \in [doc : Documents, secrets : Secrets \cup {None}, assets : BOOLEAN]
      /\ disk'.doc = r.value /\ disk'.secrets = disk.secrets /\ disk'.assets = disk.assets
  BY <1>3, <1>4, <1>5 DEF SettingsInv, TypeInv
<1>7. CASE r.ok = FALSE
  <2>1. ~seen.excused => world["hardware"] = world["conf"]
    BY DEF SettingsInv, CopyInv
  <2>2. op' = After(op, FALSE) /\ active' = active
    BY Zenon, <1>3, <1>7
  <2>3. disk'.doc = disk.doc \/ (op.at = "write" /\ disk'.doc = op.doc)
    BY <1>1, <1>4, <1>6, <1>7
  <2> QED
    BY Zenon, <1>1, <1>2, <1>6, <2>1, <2>2, <2>3, TurnsBack DEF SettingsInv, TypeInv
<1>8. CASE r.ok = TRUE
  <2> DEFINE x == IF op.doc = op.previous THEN "done" ELSE "mqtt"
  <2>1. StepAfter(op) = x
    <3>1. CASE op.doc = op.previous
      BY <1>1, <3>1, SavingAgain
    <3>2. CASE op.doc # op.previous
      <4>1. StepAfter(op) = StepTable("write", op.doc)
        BY <1>1, <3>2, SavingClock, SavingNetwork
      <4> QED
        BY <3>2, <4>1 DEF StepTable
    <3> QED
      BY <3>1, <3>2
  <2>2. op' = [op EXCEPT !.at = x]
    BY <1>2, <1>3, <1>8, <2>1 DEF After
  <2>3. x \in Steps /\ x \in {"done", "mqtt"} /\ (op.doc = op.previous => x = "done")
    BY DEF Steps, Trailing
  <2>4. Pending(x, op.doc) = IF op.doc = op.previous THEN {} ELSE Pending("write", op.doc)
    BY DEF Pending
  <2> HIDE DEF x
  <2>5. /\ op' \in Requests /\ op'.at = x /\ op'.undo = op.undo
        /\ op'.doc = op.doc /\ op'.previous = op.previous
        /\ op'.reset = op.reset /\ op'.secrets = op.secrets /\ op'.assets = op.assets
    BY <1>1, <2>2, <2>3, Moved
  <2>6. disk'.doc = op.doc /\ active' = op.doc
    BY <1>3, <1>4, <1>6, <1>8
  <2>7. TypeInv'
    BY <1>1, <1>5, <1>6, <2>5, <2>6 DEF SettingsInv, TypeInv
  <2>8. AcceptedInv'
    BY <1>1, <1>2, <2>5, <2>6 DEF SettingsInv, AcceptedInv
  <2>9. PhaseInv'
    BY <1>2, <2>3, <2>5, <2>6 DEF PhaseInv, Applying
  <2>10. CredentialInv'
    BY Zenon, <1>1, <1>6, <2>3, <2>5 DEF SettingsInv, CredentialInv
  <2>11. CopyInv'
    <3> SUFFICES ASSUME ~seen.excused PROVE CopyInv'
      BY <1>1 DEF CopyInv
    <3>1. /\ world["hardware"] = world["conf"] /\ seen.doc = op.previous
          /\ Holds(world, Copies \ Pending("write", op.doc), op.doc)
          /\ op.doc = op.previous => Holds(world, Copies, op.doc)
      BY <1>1, <1>2 DEF SettingsInv, CopyInv, Pushed
    <3>2. Holds(world, Copies \ Pending(x, op.doc), op.doc)
      BY <2>4, <3>1 DEF Holds
    <3>3. Pushed(op') = op.doc
      BY <1>2, <2>5 DEF Pushed
    <3> QED
      BY <1>1, <1>2, <2>3, <2>5, <2>6, <3>1, <3>2, <3>3 DEF CopyInv, Applying
  <2> QED
    BY <2>7, <2>8, <2>9, <2>10, <2>11 DEF SettingsInv
<1> QED
  BY Zenon, <1>4, <1>7, <1>8

\* The previous document goes back to memory and to the file.
LEMMA SettingsUnwrite == ASSUME SettingsInv, Unwrite PROVE SettingsInv'
<1>1. op.at = "unwrite" /\ op \in Requests /\ world' = world /\ active' = op.previous
      /\ op' = [op EXCEPT !.at = "spool"]
  BY Begun DEF SettingsInv, Unwrite
<1>2. op.undo /\ op.previous \notin Rejected /\ op.previous \in Documents
  BY <1>1 DEF SettingsInv, PhaseInv, AcceptedInv, Requests
<1>3. PICK r \in Written(disk.doc, op.previous) :
           /\ disk' = [disk EXCEPT !.doc = r.value]
           /\ seen' = [seen EXCEPT !.excused = @ \/ ~r.ok]
  BY Zenon DEF Unwrite
<1>4. \/ r.ok = TRUE /\ r.value = op.previous
      \/ r.ok = FALSE /\ r.value \in {disk.doc, op.previous}
  BY <1>3 DEF Written
<1>5. /\ disk' \in [doc : Documents, secrets : Secrets \cup {None}, assets : BOOLEAN]
      /\ disk'.doc = r.value /\ disk'.secrets = disk.secrets /\ disk'.assets = disk.assets
  BY <1>2, <1>3, <1>4 DEF SettingsInv, TypeInv
<1>6. /\ seen' \in [doc : Documents, secrets : Secrets \cup {None}, assets : BOOLEAN,
                    excused : BOOLEAN, failed : BOOLEAN]
      /\ seen'.doc = seen.doc /\ seen'.secrets = seen.secrets /\ seen'.assets = seen.assets
      /\ ~seen'.excused => ~seen.excused /\ r.ok = TRUE
  BY Zenon, <1>3, <1>4 DEF SettingsInv, TypeInv
<1>7. "spool" \in Steps
  BY DEF Steps, Applying
<1>8. /\ op' \in Requests /\ op'.at = "spool" /\ op'.undo = op.undo
      /\ op'.doc = op.doc /\ op'.previous = op.previous
      /\ op'.reset = op.reset /\ op'.secrets = op.secrets /\ op'.assets = op.assets
  BY <1>1, <1>7, Moved
<1>9. TypeInv'
  BY <1>1, <1>2, <1>5, <1>6, <1>8 DEF SettingsInv, TypeInv
<1>10. AcceptedInv'
  BY <1>1, <1>2, <1>4, <1>5, <1>8 DEF SettingsInv, AcceptedInv
<1>11. PhaseInv'
  BY <1>1, <1>2, <1>8 DEF PhaseInv, Applying
<1>12. CredentialInv'
  BY Zenon, <1>1, <1>5, <1>6, <1>8 DEF SettingsInv, CredentialInv
<1>13. CopyInv'
  <2> SUFFICES ASSUME ~seen'.excused PROVE CopyInv'
    BY DEF CopyInv
  <2>1. /\ world["hardware"] = world["conf"] /\ seen.doc = op.previous
        /\ disk'.doc = op.previous
    BY <1>1, <1>4, <1>5, <1>6 DEF SettingsInv, CopyInv
  <2>2. Holds(world', Copies \ Pending("spool", Pushed(op')), Pushed(op'))
    BY DEF Holds, Pending
  <2> QED
    BY <1>1, <1>2, <1>6, <1>8, <2>1, <2>2 DEF CopyInv
<1> QED
  BY <1>9, <1>10, <1>11, <1>12, <1>13 DEF SettingsInv

\* A request that has succeeded.
LEMMA SettingsDone == ASSUME SettingsInv, Done PROVE SettingsInv'
<1>1. /\ op.at = "done" /\ op \in Requests /\ op' = Idle
      /\ disk' = disk /\ active' = active /\ world' = world
  BY Begun DEF SettingsInv, Done
<1>2. seen' = [seen EXCEPT !.doc = op.doc, !.failed = FALSE,
                           !.excused = @ /\ ~(Follows(world, active) /\ disk.doc = active),
                           !.secrets = IF op.reset THEN None ELSE @,
                           !.assets = IF op.reset THEN FALSE ELSE @]
  BY DEF Done
<1>3. op.doc \in Documents /\ op'.at = "idle" /\ op.reset \in BOOLEAN
  BY <1>1 DEF Requests, Idle
<1>4. /\ seen' \in [doc : Documents, secrets : Secrets \cup {None}, assets : BOOLEAN,
                    excused : BOOLEAN, failed : BOOLEAN]
      /\ seen'.doc = op.doc
      /\ seen'.secrets = IF op.reset THEN None ELSE seen.secrets
      /\ seen'.assets = IF op.reset THEN FALSE ELSE seen.assets
      /\ ~seen'.excused => ~seen.excused \/ Follows(world, active)
  BY ZenonT(40), <1>2, <1>3 DEF SettingsInv, TypeInv
<1>5. ~op.undo /\ active = op.doc /\ disk.doc = op.doc
  BY <1>1 DEF SettingsInv, PhaseInv, Applying
<1>6. TypeInv'
  BY <1>1, <1>4 DEF SettingsInv, TypeInv
<1>7. AcceptedInv' /\ PhaseInv'
  BY <1>1, <1>3 DEF SettingsInv, AcceptedInv, PhaseInv
<1>8. CredentialInv'
  BY Zenon, <1>1, <1>3, <1>4 DEF SettingsInv, CredentialInv
<1>9. CopyInv'
  <2> SUFFICES ASSUME ~seen'.excused PROVE CopyInv'
    BY DEF CopyInv
  <2>1. Holds(world, Copies, active)
    <3>1. CASE Follows(world, active)
      BY <3>1, FollowsIs
    <3>2. CASE ~seen.excused
      <4>1. Holds(world, Copies \ Pending("done", op.doc), op.doc)
        BY <1>1, <1>5, <3>2 DEF SettingsInv, CopyInv, Pushed
      <4>2. Pending("done", op.doc) = {}
        BY DEF Pending
      <4> QED
        BY <1>5, <4>1, <4>2
    <3> QED
      BY <1>4, <3>1, <3>2
  <2>2. world["hardware"] = world["conf"]
    BY <2>1 DEF Holds, Copies, Value
  <2> QED
    BY <1>1, <1>3, <1>4, <1>5, <2>1, <2>2 DEF CopyInv
<1> QED
  BY <1>6, <1>7, <1>8, <1>9 DEF SettingsInv

\* A request that has failed: its credentials are given back.
LEMMA SettingsRestore == ASSUME SettingsInv, Restore PROVE SettingsInv'
<1>1. /\ op.at = "restore" /\ op \in Requests /\ op' = Idle /\ op'.at = "idle"
      /\ active' = active /\ world' = world
  BY Begun DEF SettingsInv, Restore, Idle
<1>2. PICK r \in (IF op.reset /\ op.secrets # None THEN Written(None, op.secrets)
                  ELSE {[value |-> disk.secrets, ok |-> TRUE]}) :
      \E q \in (IF r.ok /\ op.reset /\ op.assets THEN Written(FALSE, TRUE)
                ELSE {[value |-> disk.assets, ok |-> TRUE]}) :
           /\ disk' = [disk EXCEPT !.secrets = r.value, !.assets = q.value]
           /\ seen' = IF r.ok /\ q.ok THEN [seen EXCEPT !.failed = TRUE]
                      ELSE [seen EXCEPT !.failed = TRUE, !.secrets = disk'.secrets,
                                        !.assets = disk'.assets]
  BY Zenon DEF Restore
<1>3. PICK q \in (IF r.ok /\ op.reset /\ op.assets THEN Written(FALSE, TRUE)
                  ELSE {[value |-> disk.assets, ok |-> TRUE]}) :
           /\ disk' = [disk EXCEPT !.secrets = r.value, !.assets = q.value]
           /\ seen' = IF r.ok /\ q.ok THEN [seen EXCEPT !.failed = TRUE]
                      ELSE [seen EXCEPT !.failed = TRUE, !.secrets = disk'.secrets,
                                        !.assets = disk'.assets]
  BY Zenon, <1>2
<1>4. /\ op.reset \in BOOLEAN /\ op.assets \in BOOLEAN /\ op.secrets \in Secrets \cup {None}
      /\ disk.secrets \in Secrets \cup {None} /\ disk.assets \in BOOLEAN
  BY <1>1 DEF Requests, SettingsInv, TypeInv
<1>5. IF op.reset /\ op.secrets # None
      THEN r.value \in {None, op.secrets} /\ (r.ok => r.value = op.secrets)
      ELSE r.value = disk.secrets
  BY <1>2 DEF Written
<1>6. /\ r.ok /\ op.reset /\ op.assets => q.value \in BOOLEAN /\ (q.ok => q.value = TRUE)
      /\ ~(r.ok /\ op.reset /\ op.assets) => q.value = disk.assets
  <2>1. ASSUME r.ok /\ op.reset /\ op.assets
        PROVE  q.value \in BOOLEAN /\ (q.ok => q.value = TRUE)
    <3>1. q \in Written(FALSE, TRUE)
      BY Zenon, <1>3, <2>1
    <3>2. \A v \in {FALSE, TRUE} :
            /\ [value |-> v, ok |-> FALSE].value = v
            /\ [value |-> v, ok |-> FALSE].ok = FALSE
      OBVIOUS
    <3>3. /\ [value |-> TRUE, ok |-> TRUE].value = TRUE
          /\ [value |-> TRUE, ok |-> TRUE].ok = TRUE
      OBVIOUS
    <3>4. \/ q = [value |-> TRUE, ok |-> TRUE]
          \/ \E v \in {FALSE, TRUE} : q = [value |-> v, ok |-> FALSE]
      BY Zenon, <3>1 DEF Written
    <3> QED
      BY Zenon, <3>2, <3>3, <3>4
  <2>2. ASSUME ~(r.ok /\ op.reset /\ op.assets)
        PROVE  q.value = disk.assets
    <3>1. q = [value |-> disk.assets, ok |-> TRUE]
      BY Zenon, <1>3, <2>2
    <3> QED
      BY <3>1
  <2> QED
    BY Zenon, <2>1, <2>2
<1>7. r.value \in Secrets \cup {None} /\ q.value \in BOOLEAN
  BY <1>4, <1>5, <1>6
<1>8. /\ disk' \in [doc : Documents, secrets : Secrets \cup {None}, assets : BOOLEAN]
      /\ disk'.doc = disk.doc /\ disk'.secrets = r.value /\ disk'.assets = q.value
  BY Zenon, <1>3, <1>7 DEF SettingsInv, TypeInv
<1>9. /\ seen' \in [doc : Documents, secrets : Secrets \cup {None}, assets : BOOLEAN,
                    excused : BOOLEAN, failed : BOOLEAN]
      /\ seen'.doc = seen.doc /\ seen'.excused = seen.excused
      /\ IF r.ok /\ q.ok THEN seen'.secrets = seen.secrets /\ seen'.assets = seen.assets
         ELSE seen'.secrets = r.value /\ seen'.assets = q.value
  <2>1. CASE r.ok /\ q.ok
    BY Zenon, <1>3, <2>1 DEF SettingsInv, TypeInv
  <2>2. CASE ~(r.ok /\ q.ok)
    BY Zenon, <1>3, <1>7, <1>8, <2>2 DEF SettingsInv, TypeInv
  <2> QED
    BY <2>1, <2>2
<1>10. op.undo /\ active = op.previous
  BY <1>1 DEF SettingsInv, PhaseInv
<1>11. TypeInv'
  BY <1>1, <1>8, <1>9 DEF SettingsInv, TypeInv
<1>12. AcceptedInv' /\ PhaseInv'
  BY <1>1, <1>8 DEF SettingsInv, AcceptedInv, PhaseInv
<1>13. CredentialInv'
  <2>1. /\ op.secrets = seen.secrets /\ op.assets = seen.assets
        /\ disk.secrets = IF op.reset THEN None ELSE seen.secrets
        /\ disk.assets = IF op.reset THEN FALSE ELSE seen.assets
    BY Zenon, <1>1 DEF SettingsInv, CredentialInv
  <2>2. r.ok /\ q.ok => r.value = seen.secrets /\ q.value = seen.assets
    BY ZenonT(40), <1>4, <1>5, <1>6, <2>1
  <2>3. disk'.secrets = seen'.secrets /\ disk'.assets = seen'.assets
    BY <1>8, <1>9, <2>2
  <2> QED
    BY <1>1, <2>3 DEF CredentialInv
<1>14. CopyInv'
  <2> SUFFICES ASSUME ~seen.excused PROVE CopyInv'
    BY <1>9 DEF CopyInv
  <2>1. /\ world["hardware"] = world["conf"] /\ seen.doc = op.previous
        /\ disk.doc = op.previous
        /\ Holds(world, Copies \ Pending("restore", op.previous), op.previous)
    BY <1>1, <1>10 DEF SettingsInv, CopyInv, Pushed
  <2>2. Pending("restore", op.previous) = {}
    BY DEF Pending
  <2>3. Holds(world, Copies, active)
    BY <1>10, <2>1, <2>2
  <2> QED
    BY <1>1, <1>8, <1>9, <1>10, <2>1, <2>3 DEF CopyInv
<1> QED
  BY <1>11, <1>12, <1>13, <1>14 DEF SettingsInv

\* A request that is taken: at the first call, or at the write when the document
\* is the active one.
LEMMA Taken ==
  ASSUME SettingsInv, NEW d \in Documents, NEW reset \in BOOLEAN, op.at = "idle",
         d = active => reset, op' = Saving(d, reset), active' = active, world' = world,
         disk' = IF reset THEN [disk EXCEPT !.secrets = None, !.assets = FALSE] ELSE disk,
         seen' \in [doc : Documents, secrets : Secrets \cup {None}, assets : BOOLEAN,
                    excused : BOOLEAN, failed : BOOLEAN],
         seen'.doc = seen.doc, seen'.secrets = seen.secrets, seen'.assets = seen.assets,
         seen'.excused = seen.excused
  PROVE  SettingsInv'
<1> DEFINE x == IF d = active THEN "write" ELSE "spool"
<1>1. /\ active \in Documents /\ disk.doc \in Documents /\ disk.assets \in BOOLEAN
      /\ disk.secrets \in Secrets \cup {None}
  BY DEF SettingsInv, TypeInv
<1>2. x \in Steps /\ x \in {"write", "spool"} /\ (x = "write" <=> d = active)
  BY DEF Steps, Applying
<1>3. op' = [at |-> x, doc |-> d, previous |-> active, undo |-> FALSE, reset |-> reset,
             secrets |-> disk.secrets, assets |-> disk.assets]
  BY DEF Saving
<1> HIDE DEF x
<1>4. /\ op' \in Requests /\ op'.at = x /\ op'.undo = FALSE /\ op'.doc = d
      /\ op'.previous = active /\ op'.reset = reset
      /\ op'.secrets = disk.secrets /\ op'.assets = disk.assets
  BY <1>1, <1>2, <1>3 DEF Requests
<1>5. /\ disk' \in [doc : Documents, secrets : Secrets \cup {None}, assets : BOOLEAN]
      /\ disk'.doc = disk.doc
      /\ disk'.secrets = IF reset THEN None ELSE disk.secrets
      /\ disk'.assets = IF reset THEN FALSE ELSE disk.assets
  BY Zenon DEF SettingsInv, TypeInv
<1>6. TypeInv'
  BY <1>4, <1>5 DEF SettingsInv, TypeInv
<1>7. AcceptedInv'
  BY <1>2, <1>4, <1>5 DEF SettingsInv, AcceptedInv, Applying
<1>8. PhaseInv'
  BY <1>2, <1>4 DEF PhaseInv, Applying
<1>9. CredentialInv'
  BY Zenon, <1>2, <1>4, <1>5 DEF SettingsInv, CredentialInv
<1>10. CopyInv'
  <2> SUFFICES ASSUME ~seen.excused PROVE CopyInv'
    BY DEF CopyInv
  <2>1. /\ world["hardware"] = world["conf"] /\ disk.doc = active /\ seen.doc = active
        /\ Holds(world, Copies, active)
    BY DEF SettingsInv, CopyInv
  <2>2. Pushed(op') = d
    BY <1>4 DEF Pushed
  <2>3. Holds(world, Copies \ Pending(x, d), d)
    <3>1. CASE x = "spool"
      BY <3>1 DEF Holds, Pending
    <3>2. CASE x = "write"
      BY <1>2, <2>1, <3>2 DEF Holds
    <3> QED
      BY <1>2, <3>1, <3>2
  <2>4. d = active => Holds(world, Copies, d)
    BY <2>1
  <2> QED
    BY <1>2, <1>4, <1>5, <2>1, <2>2, <2>3, <2>4 DEF CopyInv
<1> QED
  BY <1>6, <1>7, <1>8, <1>9, <1>10 DEF SettingsInv

\* A save.
LEMMA SettingsSave ==
  ASSUME SettingsInv, NEW d \in Documents, Save(d) PROVE SettingsInv'
<1>1. /\ op.at = "idle" /\ op = Idle
      /\ op' = IF ~d.valid \/ d = active THEN Idle ELSE BeginSave(d)
      /\ seen' = [seen EXCEPT !.failed = ~d.valid]
      /\ disk' = disk /\ active' = active /\ world' = world
  <2>1. op.at = "idle"
    BY DEF Save, Take, Ready
  <2>2. "idle" \notin Steps
    BY DEF Steps, Applying, Trailing
  <2>3. op = Idle
    BY <2>1, <2>2 DEF SettingsInv, TypeInv, Requests
  <2> QED
    BY <2>1, <2>3 DEF Save
<1>2. /\ seen' \in [doc : Documents, secrets : Secrets \cup {None}, assets : BOOLEAN,
                    excused : BOOLEAN, failed : BOOLEAN]
      /\ seen'.doc = seen.doc /\ seen'.secrets = seen.secrets /\ seen'.assets = seen.assets
      /\ seen'.excused = seen.excused
  BY Zenon, <1>1 DEF SettingsInv, TypeInv
<1>3. CASE ~d.valid \/ d = active
  <2>1. op' = op
    BY <1>1, <1>3
  <2> QED
    BY Zenon, <1>1, <1>2, <2>1
    DEF SettingsInv, TypeInv, AcceptedInv, PhaseInv, CredentialInv, CopyInv
<1>4. CASE ~(~d.valid \/ d = active)
  <2>1. op' = Saving(d, FALSE) /\ d # active
    BY <1>1, <1>4 DEF BeginSave
  <2> QED
    BY Zenon, <1>1, <1>2, <2>1, Taken
<1> QED
  BY <1>3, <1>4

\* A factory reset.
LEMMA SettingsFactoryReset == ASSUME SettingsInv, FactoryReset PROVE SettingsInv'
<1>1. /\ op.at = "idle" /\ op' = Saving(Factory, TRUE)
      /\ disk' = [disk EXCEPT !.secrets = None, !.assets = FALSE]
      /\ active' = active /\ world' = world /\ seen' = seen
  BY DEF FactoryReset, Take, Ready
<1>2. seen \in [doc : Documents, secrets : Secrets \cup {None}, assets : BOOLEAN,
                excused : BOOLEAN, failed : BOOLEAN]
  BY DEF SettingsInv, TypeInv
<1> QED
  BY Zenon, <1>1, <1>2, Taken, SettingsAssumption

\* Requests that touch only the credentials, or fail at once.
LEMMA CredentialsChange ==
  ASSUME SettingsInv, op.at = "idle", op' = op, active' = active, world' = world,
         disk' \in [doc : Documents, secrets : Secrets \cup {None}, assets : BOOLEAN],
         seen' \in [doc : Documents, secrets : Secrets \cup {None}, assets : BOOLEAN,
                    excused : BOOLEAN, failed : BOOLEAN],
         disk'.doc = disk.doc, seen'.doc = seen.doc, seen'.excused = seen.excused,
         disk'.secrets = seen'.secrets, disk'.assets = seen'.assets
  PROVE  SettingsInv'
<1>1. TypeInv'
  BY DEF SettingsInv, TypeInv
<1>2. AcceptedInv' /\ PhaseInv' /\ CredentialInv'
  BY DEF SettingsInv, AcceptedInv, PhaseInv, CredentialInv
<1>3. CopyInv'
  BY DEF SettingsInv, CopyInv
<1> QED
  BY <1>1, <1>2, <1>3 DEF SettingsInv

\* A reset that fails before it has changed anything.
LEMMA SettingsResetFails == ASSUME SettingsInv, FactoryResetFails PROVE SettingsInv'
<1>1. /\ op.at = "idle" /\ op' = op /\ active' = active /\ world' = world /\ disk' = disk
      /\ seen' = [seen EXCEPT !.failed = TRUE]
  BY DEF FactoryResetFails, Ready
<1>2. disk.secrets = seen.secrets /\ disk.assets = seen.assets
  BY <1>1 DEF SettingsInv, CredentialInv
<1> QED
  BY Zenon, <1>1, <1>2, CredentialsChange DEF SettingsInv, TypeInv

\* A change of the secrets.
LEMMA SettingsSecrets ==
  ASSUME SettingsInv, NEW v \in Secrets \cup {None}, ChangeSecrets(v) PROVE SettingsInv'
<1>1. op.at = "idle" /\ op' = op /\ active' = active /\ world' = world
  BY DEF ChangeSecrets, Ready
<1>2. PICK r \in (IF v = None THEN Removed(disk.secrets, v) ELSE Written(disk.secrets, v)) :
           /\ disk' = [disk EXCEPT !.secrets = r.value]
           /\ seen' = [seen EXCEPT !.secrets = r.value, !.failed = ~r.ok]
  BY Zenon DEF ChangeSecrets
<1>3. r.value \in {v, disk.secrets}
  BY <1>2 DEF Removed, Written
<1>4. disk.assets = seen.assets
  BY <1>1 DEF SettingsInv, CredentialInv
<1>5. /\ disk' \in [doc : Documents, secrets : Secrets \cup {None}, assets : BOOLEAN]
      /\ disk'.doc = disk.doc /\ disk'.secrets = r.value /\ disk'.assets = disk.assets
  BY <1>2, <1>3 DEF SettingsInv, TypeInv
<1>6. /\ seen' \in [doc : Documents, secrets : Secrets \cup {None}, assets : BOOLEAN,
                    excused : BOOLEAN, failed : BOOLEAN]
      /\ seen'.doc = seen.doc /\ seen'.excused = seen.excused
      /\ seen'.secrets = r.value /\ seen'.assets = seen.assets
  BY Zenon, <1>2, <1>3 DEF SettingsInv, TypeInv
<1> QED
  BY <1>1, <1>4, <1>5, <1>6, CredentialsChange

\* An asset that is stored or deleted.
LEMMA SettingsAssets == ASSUME SettingsInv, ChangeAssets PROVE SettingsInv'
<1>1. op.at = "idle" /\ op' = op /\ active' = active /\ world' = world
  BY DEF ChangeAssets, Ready
<1>2. PICK r \in (IF disk.assets THEN Removed(TRUE, FALSE) ELSE Written(FALSE, TRUE)) :
           /\ disk' = [disk EXCEPT !.assets = r.value]
           /\ seen' = [seen EXCEPT !.assets = r.value, !.failed = ~r.ok]
  BY Zenon DEF ChangeAssets
<1>3. r.value \in BOOLEAN
  <2>1. \E b, k \in BOOLEAN : r = [value |-> b, ok |-> k]
    BY Zenon, <1>2 DEF Removed, Written
  <2> QED
    BY <2>1
<1>4. disk.secrets = seen.secrets
  BY <1>1 DEF SettingsInv, CredentialInv
<1>5. /\ disk' \in [doc : Documents, secrets : Secrets \cup {None}, assets : BOOLEAN]
      /\ disk'.doc = disk.doc /\ disk'.secrets = disk.secrets /\ disk'.assets = r.value
  BY <1>2, <1>3 DEF SettingsInv, TypeInv
<1>6. /\ seen' \in [doc : Documents, secrets : Secrets \cup {None}, assets : BOOLEAN,
                    excused : BOOLEAN, failed : BOOLEAN]
      /\ seen'.doc = seen.doc /\ seen'.excused = seen.excused
      /\ seen'.secrets = seen.secrets /\ seen'.assets = r.value
  BY Zenon, <1>2, <1>3 DEF SettingsInv, TypeInv
<1> QED
  BY <1>1, <1>4, <1>5, <1>6, CredentialsChange

\* A crash of the authority: at rest nothing is lost, in a request all is excused.
LEMMA SettingsCrash == ASSUME SettingsInv, Crash PROVE SettingsInv'
<1>1. /\ active' = disk.doc /\ op' = Idle /\ op'.at = "idle"
      /\ disk' = disk /\ world' = world
      /\ seen' = IF op.at = "idle" THEN seen
                 ELSE [seen EXCEPT !.excused = TRUE, !.doc = disk.doc, !.failed = FALSE,
                                   !.secrets = disk.secrets, !.assets = disk.assets]
  BY DEF Crash, Idle
<1>2. AcceptedInv' /\ PhaseInv'
  BY <1>1 DEF SettingsInv, AcceptedInv, PhaseInv
<1>3. CASE op.at = "idle"
  <2>1. TypeInv'
    BY <1>1, <1>3 DEF SettingsInv, TypeInv
  <2>2. CredentialInv'
    BY <1>1, <1>3 DEF SettingsInv, CredentialInv
  <2>3. CopyInv'
    BY <1>1, <1>3 DEF SettingsInv, CopyInv
  <2> QED
    BY <1>2, <2>1, <2>2, <2>3 DEF SettingsInv
<1>4. CASE op.at # "idle"
  <2>1. /\ seen' \in [doc : Documents, secrets : Secrets \cup {None}, assets : BOOLEAN,
                      excused : BOOLEAN, failed : BOOLEAN]
        /\ seen'.secrets = disk.secrets /\ seen'.assets = disk.assets /\ seen'.excused = TRUE
    BY Zenon, <1>1, <1>4 DEF SettingsInv, TypeInv
  <2>2. TypeInv'
    BY <1>1, <2>1 DEF SettingsInv, TypeInv
  <2>3. CredentialInv' /\ CopyInv'
    BY <1>1, <2>1 DEF CredentialInv, CopyInv
  <2> QED
    BY <1>2, <2>2, <2>3 DEF SettingsInv
<1> QED
  BY <1>3, <1>4

\* A start that cannot use the stored document.
LEMMA SettingsBootstrap == ASSUME SettingsInv, Bootstrap PROVE SettingsInv'
<1>1. /\ op.at = "idle" /\ op' = op /\ active' = Factory /\ world' = world
      /\ disk' = [disk EXCEPT !.doc = Factory]
      /\ seen' = [seen EXCEPT !.doc = Factory, !.failed = FALSE,
                              !.excused = @ \/ active # Factory]
  BY DEF Bootstrap
<1>2. /\ disk' \in [doc : Documents, secrets : Secrets \cup {None}, assets : BOOLEAN]
      /\ disk'.doc = Factory /\ disk'.secrets = disk.secrets /\ disk'.assets = disk.assets
  BY <1>1, SettingsAssumption DEF SettingsInv, TypeInv
<1>3. /\ seen' \in [doc : Documents, secrets : Secrets \cup {None}, assets : BOOLEAN,
                    excused : BOOLEAN, failed : BOOLEAN]
      /\ seen'.doc = Factory /\ seen'.secrets = seen.secrets /\ seen'.assets = seen.assets
      /\ ~seen'.excused => ~seen.excused /\ active = Factory
  BY Zenon, <1>1, SettingsAssumption DEF SettingsInv, TypeInv
<1>4. TypeInv'
  BY <1>1, <1>2, <1>3, SettingsAssumption DEF SettingsInv, TypeInv
<1>5. AcceptedInv' /\ PhaseInv' /\ CredentialInv'
  BY <1>1, <1>2, <1>3, SettingsAssumption
  DEF SettingsInv, AcceptedInv, PhaseInv, CredentialInv
<1>6. CopyInv'
  BY <1>1, <1>2, <1>3 DEF SettingsInv, CopyInv
<1> QED
  BY <1>4, <1>5, <1>6 DEF SettingsInv

\* Acquisition takes the active document.
LEMMA SettingsAcquisition == ASSUME SettingsInv, AcquisitionRestarts PROVE SettingsInv'
<1>1. /\ op.at = "idle" /\ op' = op /\ active' = active /\ disk' = disk /\ seen' = seen
      /\ world' = [world EXCEPT !.conf = active.acq, !.hardware = active.acq]
  BY DEF AcquisitionRestarts
<1>2. /\ DOMAIN world' = Copies
      /\ \A c \in Copies : world'[c] = IF c \in {"conf", "hardware"} THEN active.acq
                                       ELSE world[c]
  BY Zenon, <1>1 DEF SettingsInv, TypeInv
<1>3. TypeInv'
  BY <1>1, <1>2 DEF SettingsInv, TypeInv
<1>4. AcceptedInv' /\ PhaseInv' /\ CredentialInv'
  BY <1>1 DEF SettingsInv, AcceptedInv, PhaseInv, CredentialInv
<1>5. CopyInv'
  <2>1. Holds(world, Copies, active) => Holds(world', Copies, active)
    BY <1>2 DEF Holds, Value
  <2>2. world'["hardware"] = world'["conf"]
    BY <1>2 DEF Copies
  <2> QED
    BY <1>1, <2>1, <2>2 DEF SettingsInv, CopyInv
<1> QED
  BY <1>3, <1>4, <1>5 DEF SettingsInv

-----------------------------------------------------------------------------
\* The invariant and what it implies.

\* Every step keeps the invariant.
LEMMA SettingsNext == SettingsInv /\ [Next]_vars => SettingsInv'
<1> SUFFICES ASSUME SettingsInv, [Next]_vars PROVE SettingsInv'
  OBVIOUS
<1>1. CASE \E d \in Documents : Save(d)
  BY <1>1, SettingsSave
<1>2. CASE FactoryReset \/ FactoryResetFails
  BY <1>2, SettingsFactoryReset, SettingsResetFails
<1>3. CASE (\E v \in Secrets \cup {None} : ChangeSecrets(v)) \/ ChangeAssets
  BY <1>3, SettingsSecrets, SettingsAssets
<1>4. CASE Call \/ Refuse \/ CallFails
  BY <1>4, SettingsCall, SettingsRefuse, SettingsCallFails
<1>5. CASE Write \/ Unwrite \/ Done \/ Restore
  BY <1>5, SettingsWrite, SettingsUnwrite, SettingsDone, SettingsRestore
<1>6. CASE Crash \/ Bootstrap \/ AcquisitionRestarts
  BY <1>6, SettingsCrash, SettingsBootstrap, SettingsAcquisition
<1>7. CASE UNCHANGED vars
  <2>1. /\ disk' = disk /\ active' = active /\ world' = world /\ op' = op /\ seen' = seen
    BY <1>7 DEF vars
  <2>2. TypeInv' /\ AcceptedInv'
    BY <2>1 DEF SettingsInv, TypeInv, AcceptedInv
  <2>3. PhaseInv' /\ CredentialInv' /\ CopyInv'
    BY Zenon, <2>1 DEF SettingsInv, PhaseInv, CredentialInv, CopyInv
  <2> QED
    BY <2>2, <2>3 DEF SettingsInv
<1> QED
  BY <1>1, <1>2, <1>3, <1>4, <1>5, <1>6, <1>7 DEF Next

\* What the invariant says between requests.
LEMMA SettingsSound == SettingsInv => SavesAreSound
<1> SUFFICES ASSUME SettingsInv PROVE SavesAreSound
  OBVIOUS
<1>1. op.at = "idle" /\ ~seen.excused =>
        disk.doc = active /\ seen.doc = active /\ Follows(world, active)
  BY FollowsIs DEF SettingsInv, CopyInv
<1>2. AnsweredSaveIsKept /\ CopiesAgree
  BY <1>1 DEF AnsweredSaveIsKept, CopiesAgree
<1>3. RejectedNeverStored
  BY DEF SettingsInv, AcceptedInv, RejectedNeverStored
<1>4. CredentialsKept
  BY DEF SettingsInv, CredentialInv, CredentialsKept
<1> QED
  BY <1>2, <1>3, <1>4 DEF SavesAreSound

\* settings.cpp, for any documents, secrets and bounds on requests, failures and
\* crashes: a save that was answered survives, at rest file, memory and services
\* agree unless a failed undo or a crash excuses them, a document the pipeline
\* refuses is never stored, and credentials leave only with a reset that succeeds.
THEOREM SettingsCorrect == Spec => []SavesAreSound
<1>1. Init => SettingsInv
  BY SettingsInit
<1>2. SettingsInv /\ [Next]_vars => SettingsInv'
  BY SettingsNext
<1>3. SettingsInv => SavesAreSound
  BY SettingsSound
<1> QED
  BY <1>1, <1>2, <1>3, PTL DEF Spec
=============================================================================
