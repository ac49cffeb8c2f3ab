---------------------------- MODULE MeterStreamLog ----------------------------
(***************************************************************************)
(* What the meter stream promises its consumers: a log of records under    *)
(* ever-growing cursors.  A new record's cursor is above every cursor the  *)
(* stream has ever issued; rows may be retired, or be missing altogether   *)
(* after a reopening, but a reopened log shows only cursors it has issued; *)
(* while the stream is open a consumer's acknowledgement only moves        *)
(* forward and never past what has been issued.                            *)
(*                                                                         *)
(* Consumers rely on this: the historian keys its rows, its clear floors   *)
(* and its coverage test by the cursor.                                    *)
(***************************************************************************)
EXTENDS Naturals

CONSTANTS Keys, Consumers

VARIABLES open, log, ceiling, registered, ack

vars == <<open, log, ceiling, registered, ack>>

Record == [cursor : Nat, key : Keys]

Init ==
  /\ open = FALSE
  /\ log = {}
  /\ ceiling \in Nat
  /\ registered = {}
  /\ ack = [c \in Consumers |-> 0]

\* The stream opens with some of the rows and consumers it had, or none.
Open ==
  /\ ~open
  /\ open' = TRUE
  /\ log' \subseteq Record
  /\ \A r \in log' : r.cursor <= ceiling
  /\ registered' \subseteq Consumers
  /\ ack' \in [Consumers -> Nat]
  /\ \A c \in Consumers : ack'[c] <= ceiling
  /\ UNCHANGED ceiling

Close ==
  /\ open
  /\ open' = FALSE
  /\ log' = {}
  /\ registered' = {}
  /\ ack' = [c \in Consumers |-> 0]
  /\ UNCHANGED ceiling

\* New rows, all past the ceiling; older rows may be retired to make room.
Append ==
  /\ open
  /\ log' \subseteq Record
  /\ log' \ log # {}
  /\ \A r \in log' \ log : ceiling < r.cursor /\ r.cursor <= ceiling'
  /\ ceiling' \in Nat
  /\ ceiling <= ceiling'
  /\ UNCHANGED <<open, registered, ack>>

Register(c) ==
  /\ open
  /\ registered' = registered \cup {c}
  /\ ack' = IF c \in registered THEN ack ELSE [ack EXCEPT ![c] = 0]
  /\ UNCHANGED <<open, log, ceiling>>

Unregister(c) ==
  /\ open
  /\ registered' = registered \ {c}
  /\ ack' = [ack EXCEPT ![c] = 0]
  /\ UNCHANGED <<open, log, ceiling>>

\* An acknowledgement may retire rows every consumer is past.
Acknowledge(c) ==
  /\ open
  /\ c \in registered
  /\ \E n \in 0..ceiling :
       /\ ack[c] <= n
       /\ ack' = [ack EXCEPT ![c] = n]
  /\ log' \subseteq log
  /\ \A r \in log \ log' : \A k \in registered : r.cursor <= ack'[k]
  /\ UNCHANGED <<open, ceiling, registered>>

Next ==
  \/ Open
  \/ Close
  \/ Append
  \/ \E c \in Consumers : Register(c) \/ Unregister(c) \/ Acknowledge(c)

Spec == Init /\ [][Next]_vars
=============================================================================
