---------------------- MODULE MeterStreamServiceProofs ----------------------
(***************************************************************************)
(* The publication barrier of the meter-stream daemon, for any number of   *)
(* families, failures and subscribers.                                     *)
(*                                                                         *)
(* The barrier is not inductive: a request may outlive the process that    *)
(* sent it, and nothing in the property says that such a request is served *)
(* before those of the next process, or that it is older than what the     *)
(* ledger will hold then.  QueueInv says which requests can be in the      *)
(* sockets, TurnInv what the acquisition process may conclude from its     *)
(* answer.  LossExplained needs the requests nobody waits for any more to  *)
(* be counted as lost already (Missing).                                   *)
(***************************************************************************)
EXTENDS MeterStreamService, FiniteSetTheorems, TLAPS

Family == [id : Nat, boot : Nat, session : Nat, seq : Nat,
           discontinuity : BOOLEAN]
Request == [process : Nat, family : Family,
            kind : {"publish_records", "get_energy_snapshot"}]
Statuses == {"none", "ok", "conflict", "storage_error"}

\* The types without the bounds.
StateInv ==
  /\ measured \in Seq(Family) /\ spool \in Seq(Nat)
  /\ acquisition \in {"run", "publish", "snapshot", "down"}
  /\ daemon \in {"up", "down"}
  /\ process \in Nat /\ failures \in Nat /\ quarantined \in Nat /\ refused \in Nat
  /\ view \in Family /\ ledger \in Family
  /\ committing \subseteq Request /\ requests \subseteq Request
  /\ reply \in [status : Statuses, energy : Family]

InFlight == requests \cup committing
Waiting == {"publish", "snapshot"}
Publishes(q) == q.kind = "publish_records"

\* What can be in the sockets: a request per process, older processes with
\* older families, and none that the ledger has already.
QueueInv ==
  /\ daemon = "down" => InFlight = {}
  /\ \A q \in InFlight : q.process <= process
  /\ \A p, q \in InFlight : p.process = q.process => p = q
  /\ \A p, q \in requests : Publishes(p) /\ Publishes(q) /\ p.process < q.process
                              => p.family.id < q.family.id
  /\ \A q \in requests : Publishes(q) => ledger.id < q.family.id
  /\ \A q \in InFlight :
       IF Publishes(q) THEN q.family.id # 0 /\ q.family.id <= Len(measured)
                       ELSE q.family.id = 0
  /\ \A p, q \in committing : p = q /\ Publishes(q) /\ q.family = ledger
  /\ ledger.id <= Len(measured)

\* What the acquisition process may conclude from where it is.
TurnInv ==
  /\ acquisition = "run" => \A q \in InFlight : q.process # process
  /\ reply.status # "none" => /\ acquisition \in Waiting /\ daemon = "up"
                              /\ \A q \in InFlight : q.process # process
  /\ acquisition = "publish" => \A q \in InFlight : q.process = process => Publishes(q)
  /\ \A q \in committing : q.process = process => requests = {}
  /\ acquisition = "publish" /\ reply.status = "ok" => InFlight = {} /\ InSpool(ledger.id)
  /\ acquisition = "snapshot" =>
       /\ committing = {} /\ InSpool(ledger.id)
       /\ \A q \in requests : ~Publishes(q)
       /\ reply.status = "ok" => InSpool(reply.energy.id)

\* The stream is ordered, and behind the ledger while a commit is under way.
StreamInv ==
  /\ PublicationBarrier
  /\ \A q \in committing : \A i \in 1..Len(spool) : spool[i] < ledger.id

\* Families that are not in the stream and that nobody waits for.
Awaited(n) ==
  /\ acquisition = "publish"
  /\ \E q \in InFlight : q.process = process /\ q.family.id = n
Missing == {n \in 1..Len(measured) : ~InSpool(n) /\ ~Awaited(n)}
LossInv == Cardinality(Missing) <= failures + quarantined + refused

DurInv == StateInv /\ QueueInv /\ TurnInv /\ StreamInv /\ ViewIsDurable /\ LossInv

-----------------------------------------------------------------------------
\* The records that stand for nothing have their types.
LEMMA Nothings ==
  /\ NoFamily \in Family /\ NoFamily.id = 0
  /\ NoReply \in [status : Statuses, energy : Family] /\ NoReply.status = "none"
<1>1. NoFamily \in Family /\ NoFamily.id = 0
  BY Zenon DEF NoFamily, Family
<1>2. "none" \in Statuses
  BY Zenon DEF Statuses
<1> QED
  BY Zenon, <1>1, <1>2 DEF NoReply

\* Families that are missing are finitely many.
LEMMA MissingFinite ==
  ASSUME StateInv
  PROVE  IsFiniteSet(Missing) /\ Cardinality(Missing) \in Nat
<1>1. Len(measured) \in Nat
  BY DEF StateInv
<1>2. IsFiniteSet(1..Len(measured))
  BY <1>1, FS_Interval
<1>3. Missing \subseteq 1..Len(measured)
  BY Zenon DEF Missing
<1> QED
  BY Zenon, <1>2, <1>3, FS_Subset, FS_CardinalityType

\* A step after which no more families are missing needs no explanation.
LEMMA NothingLost ==
  ASSUME StateInv, StateInv', LossInv, Missing' \subseteq Missing,
         failures <= failures', quarantined <= quarantined', refused <= refused'
  PROVE  LossInv'
<1>1. IsFiniteSet(Missing) /\ Cardinality(Missing) \in Nat
  BY Zenon, MissingFinite
<1>2. Cardinality(Missing') <= Cardinality(Missing) /\ Cardinality(Missing') \in Nat
  BY Zenon, <1>1, FS_Subset, FS_CardinalityType
<1>3. /\ failures \in Nat /\ quarantined \in Nat /\ refused \in Nat
      /\ failures' \in Nat /\ quarantined' \in Nat /\ refused' \in Nat
  BY Zenon DEF StateInv
<1> HIDE DEF Missing
<1> QED
  BY <1>1, <1>2, <1>3 DEF LossInv

\* One family may go missing when one counter has counted it.
LEMMA OneLost ==
  ASSUME StateInv, StateInv', LossInv, NEW n, Missing' \subseteq Missing \cup {n},
         failures' + quarantined' + refused' = failures + quarantined + refused + 1
  PROVE  LossInv'
<1>1. IsFiniteSet(Missing) /\ Cardinality(Missing) \in Nat
  BY Zenon, MissingFinite
<1> HIDE DEF Missing
<1>2. /\ IsFiniteSet(Missing \cup {n})
      /\ Cardinality(Missing \cup {n}) \in Nat
      /\ Cardinality(Missing \cup {n}) <= Cardinality(Missing) + 1
  <2>1. CASE n \in Missing
    <3>1. Missing \cup {n} = Missing
      BY Zenon, <2>1
    <3> QED
      BY <1>1, <3>1
  <2>2. CASE n \notin Missing
    BY <1>1, <2>2, FS_AddElement
  <2> QED
    BY Zenon, <2>1, <2>2
<1>3. /\ Cardinality(Missing') <= Cardinality(Missing \cup {n})
      /\ Cardinality(Missing') \in Nat
  BY Zenon, <1>2, FS_Subset, FS_CardinalityType
<1>4. failures \in Nat /\ quarantined \in Nat /\ refused \in Nat
  BY Zenon DEF StateInv
<1> QED
  BY <1>1, <1>2, <1>3, <1>4 DEF LossInv

\* The invariant holds at the start.
LEMMA DurInit ==
  ASSUME Init
  PROVE  DurInv
<1> USE DEF Init
<1>1. NoFamily \in Family
  BY Zenon DEF NoFamily, Family
<1>2. StateInv
  BY <1>1 DEF StateInv, NoReply, Statuses
<1>3. QueueInv /\ TurnInv
  BY DEF QueueInv, TurnInv, InFlight, NoReply, NoFamily
<1>4. StreamInv /\ ViewIsDurable
  BY DEF StreamInv, PublicationBarrier, ViewIsDurable, NoFamily
<1>5. Missing = {}
  BY DEF Missing
<1>6. LossInv
  BY <1>5, FS_EmptySet DEF LossInv
<1> QED
  BY Zenon, <1>2, <1>3, <1>4, <1>6 DEF DurInv

-----------------------------------------------------------------------------
\* The acquisition process keeps the invariant.
LEMMA PublishKeeps ==
  ASSUME DurInv, Publish
  PROVE  DurInv'
<1> USE DEF DurInv
<1>0. acquisition = "run" /\ Len(measured) \in Nat /\ process \in Nat
  BY DEF Publish, StateInv
<1>1. PICK f \in Family :
        /\ f.id = Len(measured) + 1 /\ measured' = Append(measured, f)
        /\ \/ /\ daemon = "up"
              /\ Ask("publish_records", f) /\ acquisition' = "publish"
              /\ UNCHANGED <<view, refused>>
           \/ /\ daemon = "down"
              /\ acquisition' = "down" /\ view' = NoFamily
              /\ refused' = refused + 1
              /\ UNCHANGED requests
  <2>1. PICK d \in BOOLEAN, reboot \in BOOLEAN, nonce \in 0..1 :
          LET last == IF measured = <<>> THEN NoFamily
                                         ELSE measured[Len(measured)]
              f == [id |-> Len(measured) + 1, discontinuity |-> d,
                    boot |-> IF reboot THEN last.boot + 1 ELSE last.boot,
                    session |-> last.session + nonce,
                    seq |-> IF reboot THEN 1 ELSE last.seq + 1]
          IN  /\ measured' = Append(measured, f)
              /\ \/ /\ daemon = "up"
                    /\ Ask("publish_records", f) /\ acquisition' = "publish"
                    /\ UNCHANGED <<view, refused>>
                 \/ /\ daemon = "down"
                    /\ acquisition' = "down" /\ view' = NoFamily
                    /\ refused' = refused + 1
                    /\ UNCHANGED requests
    BY DEF Publish
  <2> DEFINE last == IF measured = <<>> THEN NoFamily ELSE measured[Len(measured)]
             f == [id |-> Len(measured) + 1, discontinuity |-> d,
                   boot |-> IF reboot THEN last.boot + 1 ELSE last.boot,
                   session |-> last.session + nonce,
                   seq |-> IF reboot THEN 1 ELSE last.seq + 1]
  <2>2. last \in Family
    <3>1. NoFamily \in Family
      BY Zenon DEF NoFamily, Family
    <3>2. measured # <<>> => measured[Len(measured)] \in Family
      <4>1. measured \in Seq(Family)
        BY Zenon DEF StateInv
      <4> QED
        BY <4>1
    <3> QED
      BY Zenon, <3>1, <3>2
  <2>3. last.boot \in Nat /\ last.session \in Nat /\ last.seq \in Nat
    BY Zenon, <2>2 DEF Family
  <2> HIDE DEF last
  <2>4. f \in Family /\ f.id = Len(measured) + 1
    <3>1. /\ Len(measured) + 1 \in Nat /\ last.session + nonce \in Nat
          /\ (IF reboot THEN last.boot + 1 ELSE last.boot) \in Nat
          /\ (IF reboot THEN 1 ELSE last.seq + 1) \in Nat
      BY <1>0, <2>3
    <3> QED
      BY Zenon, <3>1 DEF Family
  <2> QED
    BY Zenon, <2>1, <2>4 DEF last
<1>2. UNCHANGED <<process, daemon, committing, reply, ledger, spool, quarantined,
                  failures>>
  BY Zenon DEF Publish
<1>3. Len(measured') = Len(measured) + 1 /\ measured' \in Seq(Family)
  BY <1>1 DEF StateInv
<1>4. StreamInv'
  BY Zenon, <1>2 DEF StreamInv, PublicationBarrier
<1>5. \A n : InSpool(n)' <=> InSpool(n)
  BY Zenon, <1>2 DEF InSpool
<1>6. CASE daemon = "up"
  <2> DEFINE r == [process |-> process, family |-> f, kind |-> "publish_records"]
  <2>1. requests' = requests \cup {r} /\ acquisition' = "publish"
        /\ UNCHANGED <<view, refused>>
    BY Zenon, <1>1, <1>6 DEF Ask
  <2>2. r \in Request /\ r.process = process /\ Publishes(r)
        /\ r.family.id = Len(measured) + 1
    BY Zenon, <1>0, <1>1 DEF Request, Publishes
  <2> HIDE DEF r
  <2>3. /\ \A q \in InFlight : /\ q.process # process /\ q.process <= process
                               /\ q.process \in Nat /\ q.family.id \in Nat
                               /\ q.family.id <= Len(measured)
        /\ InFlight' = InFlight \cup {r}
        /\ ledger.id \in Nat /\ ledger.id <= Len(measured)
    <3>1. \A q \in InFlight : q \in Request
      BY Zenon DEF InFlight, StateInv
    <3>2. \A q \in InFlight : q.process \in Nat /\ q.family.id \in Nat
      BY Zenon, <3>1 DEF Request, Family
    <3>3. \A q \in InFlight : q.process # process /\ q.process <= process
      BY Zenon, <1>0 DEF TurnInv, QueueInv
    <3>4. \A q \in InFlight : q.family.id <= Len(measured)
      BY <1>0, <3>2 DEF QueueInv
    <3>5. InFlight' = InFlight \cup {r}
      BY Zenon, <1>2, <2>1 DEF InFlight
    <3>6. ledger.id \in Nat /\ ledger.id <= Len(measured)
      BY Zenon DEF StateInv, QueueInv, Family
    <3> QED
      BY Zenon, <3>2, <3>3, <3>4, <3>5, <3>6
  <2>4. StateInv'
    BY Zenon, <1>1, <1>2, <1>3, <2>1, <2>2 DEF StateInv
  <2>5. QueueInv'
    BY <1>0, <1>2, <1>3, <1>6, <2>1, <2>2, <2>3 DEF QueueInv, InFlight, Publishes
  <2>6. TurnInv'
    BY Zenon, <1>0, <1>2, <1>5, <2>1, <2>2, <2>3 DEF TurnInv, InFlight, Waiting
  <2>7. ViewIsDurable'
    BY Zenon, <1>5, <2>1 DEF ViewIsDurable
  <2>8. Missing' \subseteq Missing
    BY <1>0, <1>2, <1>3, <1>5, <2>1, <2>2, <2>3 DEF Missing, Awaited
  <2>9. LossInv'
    BY <1>2, <2>1, <2>4, <2>8, NothingLost DEF StateInv
  <2> QED
    BY Zenon, <1>4, <2>4, <2>5, <2>6, <2>7, <2>9
<1>7. CASE daemon # "up"
  <2>1. /\ daemon = "down" /\ acquisition' = "down" /\ view' = NoFamily
        /\ refused' = refused + 1 /\ requests' = requests
    BY Zenon, <1>1, <1>7
  <2>2. StateInv'
    BY <1>2, <1>3, <2>1, Nothings DEF StateInv
  <2>3. InFlight = {} /\ InFlight' = {} /\ requests' = {} /\ committing' = {}
    BY Zenon, <1>2, <2>1 DEF QueueInv, InFlight
  <2>4. QueueInv'
    <3>1. ledger.id \in Nat /\ ledger.id <= Len(measured)
      BY Zenon DEF StateInv, QueueInv, Family
    <3> QED
      BY <1>0, <1>2, <1>3, <2>1, <2>3, <3>1 DEF QueueInv
  <2>5. TurnInv'
    BY Zenon, <1>0, <1>2, <2>1, <2>3 DEF TurnInv, InFlight, Waiting
  <2>6. ViewIsDurable'
    BY Zenon, <2>1 DEF ViewIsDurable, NoFamily
  <2>7. Missing' \subseteq Missing \cup {Len(measured) + 1}
    BY <1>0, <1>3, <1>5 DEF Missing, Awaited
  <2>8. failures' + quarantined' + refused' = failures + quarantined + refused + 1
    BY <1>2, <2>1 DEF StateInv
  <2>9. LossInv'
    BY Zenon, <2>2, <2>7, <2>8, OneLost
  <2> QED
    BY Zenon, <1>4, <2>2, <2>4, <2>5, <2>6, <2>9
<1> QED
  BY Zenon, <1>6, <1>7

\* A step of the acquisition process that sends nothing: it takes its answer,
\* or starts again.
LEMMA TakeAnswerKeeps ==
  ASSUME DurInv, Quarantine \/ Apply \/ RestartAcquisition
  PROVE  DurInv'
<1> USE DEF DurInv
<1>1. /\ UNCHANGED <<measured, daemon, committing, requests, ledger, spool,
                     quarantined, refused, failures>>
      /\ acquisition # "publish" \/ reply.status = "conflict"
      /\ acquisition' = "run"
  BY Zenon DEF Quarantine, Apply, RestartAcquisition, storeVars
<1>2. /\ \/ process' = process /\ reply.status # "none" /\ reply' = NoReply
         \/ process' = process + 1 /\ reply' = reply /\ acquisition = "down"
      /\ \/ view' = view
         \/ acquisition = "snapshot" /\ reply.status = "ok" /\ view' = reply.energy
  BY Zenon DEF Quarantine, Apply, RestartAcquisition
<1>3. process \in Nat /\ \A q \in InFlight : q.process \in Nat /\ q.process <= process
  BY Zenon DEF StateInv, QueueInv, InFlight, Request
<1>4. /\ InFlight' = InFlight /\ \A n : InSpool(n)' <=> InSpool(n)
      /\ process' \in Nat
      /\ \A q \in InFlight : q.process < process'
  BY <1>1, <1>2, <1>3 DEF InFlight, InSpool, TurnInv
<1>5. StateInv'
  <2>1. reply' \in [status : Statuses, energy : Family] /\ view' \in Family
    BY Zenon, <1>2, Nothings DEF StateInv
  <2> QED
    BY Zenon, <1>1, <1>4, <2>1 DEF StateInv
<1>6. QueueInv'
  BY <1>1, <1>3, <1>4 DEF QueueInv
<1>7. reply'.status = "none"
  BY <1>2 DEF NoReply, TurnInv, Waiting
<1>8. TurnInv'
  BY <1>1, <1>3, <1>4, <1>7 DEF TurnInv, InFlight
<1>9. StreamInv' /\ ViewIsDurable'
  BY Zenon, <1>1, <1>2, <1>4 DEF StreamInv, PublicationBarrier, ViewIsDurable, TurnInv
<1>10. Missing' \subseteq Missing
  BY Zenon, <1>1, <1>4 DEF Missing, Awaited, TurnInv
<1>11. LossInv'
  BY <1>1, <1>5, <1>10, NothingLost DEF StateInv
<1> QED
  BY Zenon, <1>5, <1>6, <1>8, <1>9, <1>11

\* The answer to a publication keeps the invariant.
LEMMA PublishedKeeps ==
  ASSUME DurInv, Published
  PROVE  DurInv'
<1> USE DEF DurInv
<1> DEFINE r == [process |-> process, family |-> NoFamily, kind |-> "get_energy_snapshot"]
<1>1. /\ acquisition = "publish" /\ reply.status = "ok" /\ acquisition' = "snapshot"
      /\ requests' = requests \cup {r} /\ reply' = NoReply
      /\ UNCHANGED <<measured, process, view, daemon, committing, ledger, spool,
                     quarantined, refused, failures>>
  BY Zenon DEF Published, Ask, storeVars
<1>2. InFlight = {} /\ InSpool(ledger.id)
  BY Zenon, <1>1 DEF TurnInv
<1>3. /\ NoFamily \in Family /\ NoFamily.id = 0
      /\ r \in Request /\ r.process = process /\ ~Publishes(r) /\ r.family.id = 0
  BY Zenon DEF NoFamily, Family, Request, Publishes, StateInv
<1> HIDE DEF r
<1>4. /\ requests' = {r} /\ committing' = {} /\ InFlight' = {r}
      /\ \A n : InSpool(n)' <=> InSpool(n)
  BY Zenon, <1>1, <1>2 DEF InFlight, InSpool
<1>5. StateInv'
  BY Zenon, <1>1, <1>3, <1>4 DEF StateInv, NoReply, Statuses
<1>6. daemon = "up" /\ process \in Nat
  BY Zenon, <1>1 DEF TurnInv, StateInv
<1>7. QueueInv'
  BY <1>1, <1>3, <1>4, <1>6 DEF QueueInv
<1>8. TurnInv'
  BY Zenon, <1>1, <1>2, <1>3, <1>4 DEF TurnInv, NoReply
<1>9. StreamInv' /\ ViewIsDurable'
  BY Zenon, <1>1, <1>4 DEF StreamInv, PublicationBarrier, ViewIsDurable
<1>10. Missing' \subseteq Missing
  BY Zenon, <1>1, <1>2, <1>4 DEF Missing, Awaited
<1>11. LossInv'
  BY <1>1, <1>5, <1>10, NothingLost DEF StateInv
<1> QED
  BY Zenon, <1>5, <1>7, <1>8, <1>9, <1>11

\* The acquisition process waits for one family at most.
LEMMA OneAwaited ==
  ASSUME DurInv
  PROVE  \E n : \A m : Awaited(m) => m = n
<1>1. CASE \E q \in InFlight : q.process = process
  <2>1. PICK q \in InFlight : q.process = process
    BY Zenon, <1>1
  <2>2. \A r \in InFlight : r.process = process => r = q
    BY Zenon, <2>1 DEF DurInv, QueueInv
  <2>3. \A m : Awaited(m) => m = q.family.id
    BY Zenon, <2>2 DEF Awaited
  <2> QED
    BY Zenon, <2>3
<1>2. CASE ~\E q \in InFlight : q.process = process
  BY Zenon, <1>2 DEF Awaited
<1> QED
  BY Zenon, <1>1, <1>2

\* Abort: the answer never came, or was an error; the view is emptied.
LEMMA AbortKeeps ==
  ASSUME DurInv, Abort
  PROVE  DurInv'
<1> USE DEF DurInv
<1>1. /\ acquisition \in Waiting /\ acquisition' = "down"
      /\ view' = NoFamily /\ reply' = NoReply
      /\ UNCHANGED <<measured, process, daemon, committing, requests, ledger, spool,
                     quarantined, refused>>
  BY Zenon DEF Abort, storeVars, Waiting
<1>2. /\ InFlight' = InFlight /\ \A n : InSpool(n)' <=> InSpool(n)
  BY Zenon, <1>1 DEF InFlight, InSpool
<1>3. /\ failures \in Nat
      /\ \/ /\ reply.status # "none" \/ daemon = "down"
            /\ failures' = failures
         \/ failures' = failures + 1
  BY Zenon DEF Abort, StateInv
<1>4. StateInv'
  BY <1>1, <1>3, Nothings DEF StateInv
<1>5. QueueInv'
  BY Zenon, <1>1, <1>2 DEF QueueInv
<1>6. TurnInv'
  BY Zenon, <1>1, <1>2, Nothings DEF TurnInv
<1>7. StreamInv' /\ ViewIsDurable'
  BY Zenon, <1>1, <1>2, Nothings DEF StreamInv, PublicationBarrier, ViewIsDurable
<1>8. CASE failures' = failures
  <2>1. \A q \in InFlight : q.process # process
    BY <1>3, <1>8 DEF TurnInv, QueueInv
  <2>2. Missing' \subseteq Missing
    BY Zenon, <1>1, <1>2, <2>1 DEF Missing, Awaited
  <2>3. LossInv'
    BY <1>1, <1>4, <1>8, <2>2, NothingLost DEF StateInv
  <2> QED
    BY Zenon, <1>4, <1>5, <1>6, <1>7, <2>3
<1>9. CASE failures' # failures
  <2>0. PICK n : \A m : Awaited(m) => m = n
    BY Zenon, OneAwaited
  <2>1. Missing' \subseteq Missing \cup {n}
    BY Zenon, <1>1, <1>2, <2>0 DEF Missing
  <2>2. failures' + quarantined' + refused' = failures + quarantined + refused + 1
    BY <1>1, <1>3, <1>9 DEF StateInv
  <2>3. LossInv'
    BY Zenon, <1>4, <2>1, <2>2, OneLost
  <2> QED
    BY Zenon, <1>4, <1>5, <1>6, <1>7, <2>3
<1> QED
  BY Zenon, <1>8, <1>9

-----------------------------------------------------------------------------
\* The daemon keeps the invariant.  The request it takes is the oldest one:
\* every other belongs to a later process.
LEMMA FirstIsOldest ==
  ASSUME DurInv, NEW q \in requests, First(q), committing = {}
  PROVE  /\ q \in Request /\ q.process \in Nat /\ q.family \in Family
         /\ q.family.id \in Nat
         /\ \A r \in requests \ {q} : q.process < r.process
         /\ q.process = process => requests = {q}
<1> USE DEF DurInv
<1>1. \A r \in requests : r \in Request /\ r.process \in Nat /\ r.family.id \in Nat
  BY Zenon DEF StateInv, Request, Family
<1>2. q.family \in Family
  BY Zenon, <1>1 DEF Request
<1>3. \A r \in requests \ {q} : q.process < r.process
  BY <1>1 DEF First, QueueInv, InFlight
<1>4. \A r \in requests : r.process <= process
  BY Zenon DEF QueueInv, InFlight
<1>5. process \in Nat
  BY Zenon DEF StateInv
<1> QED
  BY <1>1, <1>2, <1>3, <1>4, <1>5

\* The ledger's commit keeps the invariant: the family is the newest.
LEMMA CommitLedgerKeeps ==
  ASSUME DurInv, CommitLedger
  PROVE  DurInv'
<1> USE DEF DurInv
<1>1. PICK q \in requests :
        /\ First(q) /\ Publishes(q)
        /\ requests' = requests \ {q}
        /\ \/ /\ ledger' = q.family /\ committing' = {q}
              /\ UNCHANGED <<reply, quarantined>>
           \/ /\ Answer(q, "conflict", NoFamily)
              /\ quarantined' = quarantined + 1
              /\ UNCHANGED <<ledger, committing>>
  BY Zenon DEF CommitLedger, Publishes, LedgerAfter
<1>2. /\ daemon = "up" /\ committing = {}
      /\ UNCHANGED <<measured, acquisition, process, view, daemon, spool, refused,
                     failures>>
  BY Zenon DEF CommitLedger, acqVars
<1>3. /\ q \in Request /\ q.process \in Nat /\ q.family \in Family
      /\ q.family.id \in Nat
      /\ \A r \in requests \ {q} : q.process < r.process
      /\ q.process = process => requests = {q}
  BY Zenon, <1>1, <1>2, FirstIsOldest
<1>4. /\ \A n : InSpool(n)' <=> InSpool(n)
      /\ InFlight = requests /\ InFlight' \subseteq InFlight
  BY Zenon, <1>1, <1>2 DEF InSpool, InFlight
<1>5. acquisition # "snapshot"
  BY Zenon, <1>1 DEF TurnInv
<1>6. /\ ledger.id \in Nat /\ ledger.id < q.family.id
      /\ Len(measured) \in Nat /\ q.family.id <= Len(measured)
      /\ process \in Nat
  <2>1. ledger.id \in Nat /\ Len(measured) \in Nat /\ process \in Nat
    BY DEF StateInv, Family
  <2>2. ledger.id < q.family.id /\ q.family.id <= Len(measured)
    BY Zenon, <1>1, <1>4 DEF QueueInv
  <2> QED
    BY Zenon, <2>1, <2>2
<1>7. ViewIsDurable'
  BY Zenon, <1>2, <1>4 DEF ViewIsDurable
<1>8. CASE ledger' = q.family /\ committing' = {q} /\ UNCHANGED <<reply, quarantined>>
  <2>1. InFlight' = InFlight
    BY Zenon, <1>1, <1>4, <1>8 DEF InFlight
  <2>2. StateInv'
    BY Zenon, <1>1, <1>2, <1>3, <1>8 DEF StateInv
  <2>3. QueueInv'
    BY Zenon, <1>1, <1>2, <1>3, <1>4, <1>6, <1>8, <2>1 DEF QueueInv
  <2>4. TurnInv'
    <3>1. ~(acquisition = "publish" /\ reply.status = "ok")
      BY Zenon, <1>1, <1>4 DEF TurnInv
    <3>2. q.process = process => requests' = {}
      BY Zenon, <1>1, <1>3
    <3> QED
      BY Zenon, <1>1, <1>2, <1>5, <1>8, <2>1, <3>1, <3>2 DEF TurnInv
  <2>5. StreamInv'
    <3>1. \A i \in 1..Len(spool) : spool[i] \in Nat /\ spool[i] <= ledger.id
      BY DEF StateInv, StreamInv, PublicationBarrier
    <3>2. \A i \in 1..Len(spool) : spool[i] < q.family.id /\ spool[i] <= q.family.id
      BY <1>3, <1>6, <3>1
    <3> QED
      BY Zenon, <1>2, <1>8, <3>2 DEF StreamInv, PublicationBarrier
  <2>6. Missing' \subseteq Missing
    BY Zenon, <1>2, <1>4, <2>1 DEF Missing, Awaited
  <2>7. LossInv'
    BY <1>2, <1>8, <2>2, <2>6, NothingLost DEF StateInv
  <2> QED
    BY Zenon, <1>7, <2>2, <2>3, <2>4, <2>5, <2>7
<1>9. CASE /\ Answer(q, "conflict", NoFamily) /\ quarantined' = quarantined + 1
           /\ UNCHANGED <<ledger, committing>>
  <2>1. /\ InFlight' = InFlight \ {q} /\ requests' \subseteq requests
        /\ committing' = {}
    BY Zenon, <1>1, <1>2, <1>4, <1>9 DEF InFlight
  <2>2. \/ reply' = reply
        \/ /\ q.process = process /\ acquisition = "publish"
           /\ reply' = [status |-> "conflict", energy |-> NoFamily]
    BY Zenon, <1>5, <1>9 DEF Answer
  <2>3. StateInv'
    <3>1. reply' \in [status : Statuses, energy : Family]
      BY SMTT(30), <2>2, Nothings DEF StateInv, Statuses
    <3> QED
      BY <1>1, <1>2, <1>9, <2>1, <3>1 DEF StateInv
  <2>4. QueueInv'
    BY Zenon, <1>2, <1>9, <2>1 DEF QueueInv
  <2>5. TurnInv'
    <3>1. reply'.status # "ok" \/ reply' = reply
      BY <2>2
    <3>2. reply' # reply => requests' = {} /\ acquisition = "publish"
      BY Zenon, <1>1, <1>3, <2>2
    <3>3. reply' # reply => InFlight' = {}
      BY Zenon, <1>1, <1>3, <1>4, <2>1, <2>2
    <3> QED
      BY Zenon, <1>2, <1>4, <1>5, <1>9, <2>1, <3>1, <3>2, <3>3 DEF TurnInv, Waiting
  <2>6. StreamInv'
    BY Zenon, <1>2, <1>9, <2>1 DEF StreamInv, PublicationBarrier
  <2>7. Missing' \subseteq Missing \cup {q.family.id}
    BY Zenon, <1>2, <1>4, <2>1 DEF Missing, Awaited
  <2>8. failures' + quarantined' + refused' = failures + quarantined + refused + 1
    BY <1>2, <1>9 DEF StateInv
  <2>9. LossInv'
    BY Zenon, <2>3, <2>7, <2>8, OneLost
  <2> QED
    BY Zenon, <1>7, <2>3, <2>4, <2>5, <2>6, <2>9
<1> QED
  BY Zenon, <1>1, <1>8, <1>9

\* Answering with the ledger keeps the invariant.
LEMMA GetEnergySnapshotKeeps ==
  ASSUME DurInv, GetEnergySnapshot
  PROVE  DurInv'
<1> USE DEF DurInv
<1>1. PICK q \in requests :
        /\ First(q) /\ q.kind = "get_energy_snapshot"
        /\ requests' = requests \ {q} /\ Answer(q, "ok", Encode(ledger))
  BY Zenon DEF GetEnergySnapshot
<1>2. /\ daemon = "up" /\ committing = {}
      /\ UNCHANGED <<measured, acquisition, process, view, daemon, committing, ledger,
                     spool, quarantined, refused, failures>>
  BY Zenon DEF GetEnergySnapshot, acqVars, storeVars
<1>3. /\ \A n : InSpool(n)' <=> InSpool(n)
      /\ InFlight' = InFlight \ {q} /\ requests' \subseteq requests
      /\ q \in InFlight
  BY Zenon, <1>1, <1>2 DEF InSpool, InFlight
<1>4. ~Publishes(q)
  BY Zenon, <1>1 DEF Publishes
<1>5. Encode(ledger) \in Family /\ Encode(ledger).id = ledger.id
  BY Zenon DEF Encode, StateInv, Family
<1>6. \/ reply' = reply
      \/ /\ q.process = process /\ acquisition = "snapshot"
         /\ reply' = [status |-> "ok", energy |-> Encode(ledger)]
  BY Zenon, <1>1, <1>3, <1>4 DEF Answer, TurnInv
<1> HIDE DEF Encode
<1>7. StateInv'
  <2>1. reply' \in [status : Statuses, energy : Family]
    BY <1>5, <1>6 DEF StateInv, Statuses
  <2> QED
    BY Zenon, <1>2, <1>3, <2>1 DEF StateInv
<1>8. QueueInv'
  BY Zenon, <1>2, <1>3 DEF QueueInv
<1>9. TurnInv'
  <2>1. CASE reply' = reply
    BY Zenon, <1>2, <1>3, <2>1 DEF TurnInv
  <2>2. CASE /\ q.process = process /\ acquisition = "snapshot"
             /\ reply' = [status |-> "ok", energy |-> Encode(ledger)]
    <3>1. \A r \in InFlight' : r.process # process
      BY Zenon, <1>3, <2>2 DEF QueueInv
    <3>2. reply'.energy.id = ledger.id /\ reply'.status = "ok"
      BY Zenon, <1>5, <2>2
    <3> QED
      BY Zenon, <1>2, <1>3, <2>2, <3>1, <3>2 DEF TurnInv, Waiting
  <2> QED
    BY Zenon, <1>6, <2>1, <2>2
<1>10. StreamInv' /\ ViewIsDurable'
  BY Zenon, <1>2, <1>3 DEF StreamInv, PublicationBarrier, ViewIsDurable
<1>11. Missing' \subseteq Missing
  <2>1. \A n : Awaited(n) => Awaited(n)'
    BY Zenon, <1>2, <1>3, <1>4 DEF Awaited, TurnInv
  <2> QED
    BY Zenon, <1>2, <1>3, <2>1 DEF Missing
<1>12. LossInv'
  BY <1>2, <1>7, <1>11, NothingLost DEF StateInv
<1> QED
  BY Zenon, <1>7, <1>8, <1>9, <1>10, <1>12

\* The spool's commit keeps the invariant: it appends the newest family.
LEMMA CommitSpoolKeeps ==
  ASSUME DurInv, CommitSpool
  PROVE  DurInv'
<1> USE DEF DurInv
<1>1. PICK q \in committing :
        /\ \/ /\ spool' = Append(spool, q.family.id)
              /\ Answer(q, "ok", NoFamily) /\ failures' = failures
           \/ /\ failures' = failures + 1 /\ spool' = spool
              /\ Answer(q, "storage_error", NoFamily)
        /\ committing' = {}
        /\ UNCHANGED <<measured, acquisition, process, view, daemon, requests, ledger,
                       quarantined, refused>>
  BY Zenon DEF CommitSpool, SpoolAfter, WriteFailed, acqVars
<1>2. /\ Publishes(q) /\ q.family = ledger /\ q \in InFlight
      /\ InFlight' = requests /\ requests \subseteq InFlight
      /\ q.process = process => requests = {}
      /\ acquisition # "snapshot" /\ daemon # "down"
  BY Zenon, <1>1 DEF QueueInv, TurnInv, InFlight
<1>3. /\ ledger.id \in Nat /\ spool \in Seq(Nat) /\ Len(spool) \in Nat
      /\ \A i \in 1..Len(spool) : spool[i] \in Nat /\ spool[i] < ledger.id
  <2>1. ledger.id \in Nat /\ spool \in Seq(Nat)
    BY Zenon DEF StateInv, Family
  <2>2. \A i \in 1..Len(spool) : spool[i] < ledger.id
    BY Zenon, <1>1 DEF StreamInv
  <2> QED
    BY <2>1, <2>2
<1>4. \A r \in InFlight : r # q => r \in requests
  BY Zenon, <1>1 DEF QueueInv, InFlight
<1>5. QueueInv'
  BY Zenon, <1>1, <1>2 DEF QueueInv
<1>6. CASE /\ spool' = Append(spool, q.family.id) /\ failures' = failures
           /\ Answer(q, "ok", NoFamily)
  <2>1. /\ spool' \in Seq(Nat) /\ Len(spool') = Len(spool) + 1
        /\ spool'[Len(spool) + 1] = ledger.id
        /\ \A i \in 1..Len(spool) : spool'[i] = spool[i]
    BY <1>2, <1>3, <1>6
  <2>2. \A n : InSpool(n)' <=> InSpool(n) \/ n = ledger.id
    <3> TAKE n
    <3>1. /\ 1..Len(spool) \subseteq 1..Len(spool')
          /\ Len(spool) + 1 \in 1..Len(spool')
          /\ \A i \in 1..Len(spool') : i \in 1..Len(spool) \/ i = Len(spool) + 1
      BY SMT, <1>3, <2>1
    <3> QED
      BY Zenon, <2>1, <3>1 DEF InSpool
  <2>3. \/ reply' = reply
        \/ /\ q.process = process /\ acquisition = "publish"
           /\ reply' = [status |-> "ok", energy |-> NoFamily]
    BY Zenon, <1>2, <1>6 DEF Answer
  <2>4. StateInv'
    <3>1. reply' \in [status : Statuses, energy : Family]
      BY <2>3, Nothings DEF StateInv, Statuses
    <3> QED
      BY Zenon, <1>1, <1>6, <2>1, <3>1 DEF StateInv
  <2>5. TurnInv'
    <3>1. CASE reply' = reply
      BY Zenon, <1>1, <1>2, <2>2, <3>1 DEF TurnInv
    <3>2. CASE q.process = process /\ acquisition = "publish"
      <4>1. InFlight' = {} /\ InSpool(ledger.id)'
        BY Zenon, <1>1, <1>2, <2>2, <3>2
      <4>2. daemon = "up"
        BY Zenon, <1>2 DEF StateInv
      <4> QED
        BY Zenon, <1>1, <3>2, <4>1, <4>2 DEF TurnInv, Waiting
    <3> QED
      BY Zenon, <2>3, <3>1, <3>2
  <2>6. StreamInv'
    <3>1. \A i, j \in 1..Len(spool) : i < j => spool[i] < spool[j]
      BY Zenon DEF StreamInv, PublicationBarrier
    <3>0. \A i \in 1..Len(spool') : i \in 1..Len(spool) \/ i = Len(spool) + 1
      BY <1>3, <2>1
    <3>2. ASSUME NEW i \in 1..Len(spool'), NEW j \in 1..Len(spool'), i < j
          PROVE  spool'[i] < spool'[j]
      <4>1. i \in 1..Len(spool)
        BY <1>3, <2>1, <3>2
      <4>2. CASE j \in 1..Len(spool)
        BY Zenon, <2>1, <3>1, <3>2, <4>1, <4>2
      <4>3. CASE j = Len(spool) + 1
        BY Zenon, <1>3, <2>1, <4>1, <4>3
      <4> QED
        BY Zenon, <3>0, <4>2, <4>3
    <3>3. ASSUME NEW i \in 1..Len(spool')
          PROVE  spool'[i] <= ledger.id
      <4>1. CASE i \in 1..Len(spool)
        BY <1>3, <2>1, <4>1
      <4>2. CASE i = Len(spool) + 1
        BY <1>3, <2>1, <4>2
      <4> QED
        BY Zenon, <3>0, <4>1, <4>2
    <3> QED
      BY Zenon, <1>1, <3>2, <3>3 DEF StreamInv, PublicationBarrier
  <2>7. ViewIsDurable'
    BY Zenon, <1>1, <2>2 DEF ViewIsDurable
  <2>8. Missing' \subseteq Missing
    BY Zenon, <1>1, <1>2, <1>4, <2>2 DEF Missing, Awaited
  <2>9. LossInv'
    BY <1>1, <1>6, <2>4, <2>8, NothingLost DEF StateInv
  <2> QED
    BY Zenon, <1>5, <2>4, <2>5, <2>6, <2>7, <2>9
<1>7. CASE /\ failures' = failures + 1 /\ spool' = spool
           /\ Answer(q, "storage_error", NoFamily)
  <2>2. \A n : InSpool(n)' <=> InSpool(n)
    BY Zenon, <1>7 DEF InSpool
  <2>3. \/ reply' = reply
        \/ /\ q.process = process /\ acquisition = "publish"
           /\ reply' = [status |-> "storage_error", energy |-> NoFamily]
    BY Zenon, <1>2, <1>7 DEF Answer
  <2>4. StateInv'
    <3>1. reply' \in [status : Statuses, energy : Family]
      BY <2>3, Nothings DEF StateInv, Statuses
    <3> QED
      BY <1>1, <1>7, <3>1 DEF StateInv
  <2>5. TurnInv'
    <3>1. CASE reply' = reply
      BY Zenon, <1>1, <1>2, <2>2, <3>1 DEF TurnInv
    <3>2. CASE /\ q.process = process /\ acquisition = "publish"
               /\ reply' = [status |-> "storage_error", energy |-> NoFamily]
      <4>1. InFlight' = {} /\ reply'.status = "storage_error"
        BY Zenon, <1>2, <3>2
      <4>2. daemon = "up"
        BY Zenon, <1>2 DEF StateInv
      <4> QED
        BY Zenon, <1>1, <3>2, <4>1, <4>2 DEF TurnInv, Waiting
    <3> QED
      BY Zenon, <2>3, <3>1, <3>2
  <2>6. StreamInv' /\ ViewIsDurable'
    BY Zenon, <1>1, <1>7, <2>2 DEF StreamInv, PublicationBarrier, ViewIsDurable
  <2>7. Missing' \subseteq Missing \cup {q.family.id}
    BY Zenon, <1>1, <1>2, <1>4, <2>2 DEF Missing, Awaited
  <2>8. failures' + quarantined' + refused' = failures + quarantined + refused + 1
    BY <1>1, <1>7 DEF StateInv
  <2>9. LossInv'
    BY Zenon, <2>4, <2>7, <2>8, OneLost
  <2> QED
    BY Zenon, <1>5, <2>4, <2>5, <2>6, <2>9
<1> QED
  BY Zenon, <1>1, <1>6, <1>7

\* A crash of the daemon keeps it: what was in the sockets counts as lost.
LEMMA CrashKeeps ==
  ASSUME DurInv, Crash
  PROVE  DurInv'
<1> USE DEF DurInv
<1>1. /\ failures' = failures + 1 /\ daemon' = "down" /\ requests' = {}
      /\ committing' = {} /\ reply' = NoReply
      /\ UNCHANGED <<measured, acquisition, process, view, ledger, spool, quarantined,
                     refused>>
  BY Zenon DEF Crash, acqVars, storeVars
<1>2. InFlight' = {} /\ \A n : InSpool(n)' <=> InSpool(n)
  BY Zenon, <1>1 DEF InFlight, InSpool
<1>3. StateInv'
  BY SMTT(30), <1>1, Nothings DEF StateInv
<1>4. QueueInv'
  BY Zenon, <1>1, <1>2 DEF QueueInv
<1>5. TurnInv'
  BY Zenon, <1>1, <1>2, Nothings DEF TurnInv
<1>6. StreamInv' /\ ViewIsDurable'
  BY Zenon, <1>1, <1>2 DEF StreamInv, PublicationBarrier, ViewIsDurable
<1>7. PICK n : \A m : Awaited(m) => m = n
  BY Zenon, OneAwaited
<1>8. Missing' \subseteq Missing \cup {n}
  BY Zenon, <1>1, <1>2, <1>7 DEF Missing
<1>9. failures' + quarantined' + refused' = failures + quarantined + refused + 1
  BY <1>1 DEF StateInv
<1>10. LossInv'
  BY Zenon, <1>3, <1>8, <1>9, OneLost
<1> QED
  BY Zenon, <1>3, <1>4, <1>5, <1>6, <1>10

\* Start, Subscribe, TakeEvent and stuttering touch none of this.
LEMMA ElsewhereKeeps ==
  ASSUME DurInv, daemon' = daemon \/ daemon' = "up",
         UNCHANGED <<measured, acquisition, process, view, committing, requests, reply,
                     ledger, spool, quarantined, refused, failures>>
  PROVE  DurInv'
<1> USE DEF DurInv
<1>1. InFlight' = InFlight /\ \A n : InSpool(n)' <=> InSpool(n)
  BY Zenon DEF InFlight, InSpool
<1>2. StateInv'
  BY Zenon DEF StateInv
<1>3. QueueInv' /\ TurnInv'
  BY Zenon, <1>1 DEF QueueInv, TurnInv
<1>4. StreamInv' /\ ViewIsDurable'
  BY Zenon, <1>1 DEF StreamInv, PublicationBarrier, ViewIsDurable
<1>5. Missing' \subseteq Missing
  BY Zenon, <1>1 DEF Missing, Awaited
<1>6. LossInv'
  BY <1>2, <1>5, NothingLost DEF StateInv
<1> QED
  BY Zenon, <1>2, <1>3, <1>4, <1>6

-----------------------------------------------------------------------------
\* Every step keeps the invariant.
LEMMA DurStep ==
  ASSUME DurInv, [Next]_vars
  PROVE  DurInv'
<1>1. CASE Publish
  BY Zenon, <1>1, PublishKeeps
<1>2. CASE Published
  BY Zenon, <1>2, PublishedKeeps
<1>3. CASE Quarantine \/ Apply \/ RestartAcquisition
  BY Zenon, <1>3, TakeAnswerKeeps
<1>4. CASE Abort
  BY Zenon, <1>4, AbortKeeps
<1>5. CASE CommitLedger
  BY Zenon, <1>5, CommitLedgerKeeps
<1>6. CASE CommitSpool
  BY Zenon, <1>6, CommitSpoolKeeps
<1>7. CASE GetEnergySnapshot
  BY Zenon, <1>7, GetEnergySnapshotKeeps
<1>8. CASE Crash
  BY Zenon, <1>8, CrashKeeps
<1>9. CASE Start \/ \E s \in Subscribers : Subscribe(s) \/ TakeEvent(s)
  BY Zenon, <1>9, ElsewhereKeeps DEF Start, Subscribe, TakeEvent, acqVars, storeVars
<1>10. CASE UNCHANGED vars
  BY Zenon, <1>10, ElsewhereKeeps DEF vars, acqVars, storeVars
<1> QED
  BY Zenon, <1>1, <1>2, <1>3, <1>4, <1>5, <1>6, <1>7, <1>8, <1>9, <1>10 DEF Next

\* A family that no request carries any more is missing in the sense above.
LEMMA LossesCounted ==
  ASSUME DurInv
  PROVE  LossExplained
<1> DEFINE Lost == {n \in 1..Len(measured) :
                     /\ ~InSpool(n)
                     /\ \A q \in requests \cup committing : q.family.id # n}
<1>1. Lost \subseteq Missing
  BY Zenon DEF Missing, Awaited, InFlight
<1>2. IsFiniteSet(Missing) /\ Cardinality(Missing) \in Nat
  BY Zenon, MissingFinite DEF DurInv
<1> HIDE DEF Lost
<1>3. Cardinality(Lost) <= Cardinality(Missing) /\ Cardinality(Lost) \in Nat
  BY Zenon, <1>1, <1>2, FS_Subset, FS_CardinalityType
<1>4. failures \in Nat /\ quarantined \in Nat /\ refused \in Nat
  BY Zenon DEF DurInv, StateInv
<1>5. Cardinality(Lost) <= failures + quarantined + refused
  BY <1>2, <1>3, <1>4 DEF DurInv, LossInv
<1> QED
  BY Zenon, <1>5 DEF Lost, LossExplained

\* Publishing through the daemon, whatever crashes, times out or arrives late:
\* families enter the stream once, in order and behind the ledger; acquisition
\* shows only what is in the stream; and a family is missing from it only for
\* a reason that was counted.
THEOREM StreamCorrect ==
  Spec => [](PublicationBarrier /\ ViewIsDurable /\ LossExplained)
<1>1. Init => DurInv
  BY Zenon, DurInit
<1>2. DurInv /\ [Next]_vars => DurInv'
  BY Zenon, DurStep
<1>3. DurInv => PublicationBarrier /\ ViewIsDurable /\ LossExplained
  BY Zenon, LossesCounted DEF DurInv, StreamInv
<1> QED
  BY <1>1, <1>2, <1>3, PTL DEF Spec
=============================================================================
