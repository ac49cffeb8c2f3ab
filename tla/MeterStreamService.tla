------------------------- MODULE MeterStreamService -------------------------
(***************************************************************************)
(* The meter-stream daemon around the energy ledger and the durable spool,  *)
(* with the acquisition process that publishes to it and the subscribers    *)
(* it notifies (meter_stream_service.cpp, meter_stream_ipc.cpp, and the     *)
(* ENERGY path of record_ingestor.cpp).                                     *)
(*                                                                          *)
(* One thread runs the handlers, so a handler is atomic unless the daemon   *)
(* dies inside it.  EnergyLedger and DurableMeterSpool model what the two   *)
(* stores do; here the ledger is the last family it committed and the spool *)
(* the sequence of committed families.                                      *)
(***************************************************************************)
EXTENDS Naturals, Sequences, FiniteSets

CONSTANTS MaxFamilies,   \* bound: ENERGY families measured
          MaxFailures,   \* bound: crashes, failed writes and timeouts
          Subscribers    \* connections that may subscribe to stream events

VARIABLES measured,      \* families measured so far, in order
          acquisition,   \* "run", "publish" or "snapshot" (awaiting), "down"
          process,       \* incarnation of the acquisition process
          view,          \* energy in the latest-value store, or NoFamily
          daemon,        \* "up" or "down"
          committing,    \* the request between ledger and spool commit: a set
          requests,      \* requests in the daemon's sockets
          reply,         \* answer on its way to the acquisition process
          ledger,        \* durable: last family committed, or NoFamily
          spool,         \* durable: ids of the committed families
          quarantined,   \* families rejected by the ledger
          refused,       \* families measured while the daemon was down
          subscribed,    \* connections in subscribers_
          events,        \* events queued to each connection
          failures       \* crashes, failed writes and timeouts so far

acqVars == <<measured, acquisition, process, view>>
storeVars == <<ledger, spool, quarantined, refused>>
subVars == <<subscribed, events>>
vars == <<acqVars, daemon, committing, requests, reply, storeVars, subVars,
          failures>>

NoFamily == [id |-> 0, boot |-> 0, session |-> 0, seq |-> 0,
             discontinuity |-> FALSE]

\* id numbers the families and boot the starts of the real-time processor;
\* session is the nonce of that boot and seq the sequence within it.
Families == [id : 0..MaxFamilies, boot : 0..MaxFamilies,
             session : 0..MaxFamilies, seq : 0..MaxFamilies,
             discontinuity : BOOLEAN]

Processes == 0..(MaxFailures + MaxFamilies)

Requests == [process : Processes, family : Families,
             kind : {"publish_records", "get_energy_snapshot"}]

NoReply == [status |-> "none", energy |-> NoFamily]

TypeOK ==
    /\ measured \in Seq(Families)
    /\ acquisition \in {"run", "publish", "snapshot", "down"}
    /\ process \in Processes
    /\ view \in Families /\ ledger \in Families
    /\ daemon \in {"up", "down"}
    /\ committing \subseteq Requests /\ requests \subseteq Requests
    /\ reply \in [status : {"none", "ok", "conflict", "storage_error"},
                  energy : Families]
    /\ spool \in Seq(1..MaxFamilies)
    /\ subscribed \subseteq Subscribers /\ events \in [Subscribers -> Nat]
    /\ failures \in 0..MaxFailures /\ refused \in 0..MaxFamilies

\* An answer reaches the process that asked, if it still waits.
Answer(q, status, energy) ==
    reply' = IF q.process = process /\ acquisition \in {"publish", "snapshot"}
             THEN [status |-> status, energy |-> energy] ELSE reply

-----------------------------------------------------------------------------
(* Acquisition: the ENERGY branch of accept, and the stream client.         *)

Ask(kind, family) ==
    requests' = requests \cup {[process |-> process, family |-> family,
                                kind |-> kind]}

\* A complete two-part family is published in one request.  The source may
\* have restarted, with a fresh boot nonce or the one it had before.  Without
\* a daemon the request cannot be sent and the exception ends the process.
Publish ==
    /\ acquisition = "run" /\ Len(measured) < MaxFamilies
    /\ \E d, reboot \in BOOLEAN, nonce \in 0..1 :
         LET last == IF measured = <<>> THEN NoFamily
                                        ELSE measured[Len(measured)]
             f == [id |-> Len(measured) + 1, discontinuity |-> d,
                   boot |-> IF reboot THEN last.boot + 1 ELSE last.boot,
                   session |-> last.session + nonce,
                   seq |-> IF reboot THEN 1 ELSE last.seq + 1]
         IN  /\ measured = <<>> => reboot /\ nonce = 1
             /\ nonce = 1 => reboot
             /\ measured' = Append(measured, f)
             /\ \/ /\ daemon = "up"
                   /\ Ask("publish_records", f) /\ acquisition' = "publish"
                   /\ UNCHANGED <<view, refused>>
                \/ /\ daemon = "down"
                   /\ acquisition' = "down" /\ view' = NoFamily
                   /\ refused' = refused + 1
                   /\ UNCHANGED requests
    /\ UNCHANGED <<process, daemon, committing, reply, ledger, spool,
                   quarantined, subVars, failures>>

\* The family is committed: ask the authority for the lifetime values.
Published ==
    /\ acquisition = "publish" /\ reply.status = "ok"
    /\ acquisition' = "snapshot" /\ Ask("get_energy_snapshot", NoFamily)
    /\ reply' = NoReply
    /\ UNCHANGED <<measured, process, view, daemon, committing, storeVars,
                   subVars, failures>>

\* A ledger conflict quarantines the family; acquisition goes on.
Quarantine ==
    /\ acquisition = "publish" /\ reply.status = "conflict"
    /\ acquisition' = "run" /\ reply' = NoReply
    /\ UNCHANGED <<measured, process, view, daemon, committing, requests,
                   storeVars, subVars, failures>>

\* The authority's answer replaces the energy of the latest-value store.
Apply ==
    /\ acquisition = "snapshot" /\ reply.status = "ok"
    /\ acquisition' = "run" /\ view' = reply.energy /\ reply' = NoReply
    /\ UNCHANGED <<measured, process, daemon, committing, requests, storeVars,
                   subVars, failures>>

\* Any other failure, a closed connection or a timeout leaves accept as an
\* exception that ends the process.  Nothing is published again, but the
\* daemon may still find the request in its socket.
Abort ==
    /\ acquisition \in {"publish", "snapshot"}
    /\ \/ reply.status = "storage_error" /\ UNCHANGED failures
       \/ reply.status = "none" /\ daemon = "down" /\ UNCHANGED failures
       \/ /\ reply.status = "none" /\ daemon = "up"
          /\ failures < MaxFailures /\ failures' = failures + 1
    /\ acquisition' = "down" /\ view' = NoFamily /\ reply' = NoReply
    /\ UNCHANGED <<measured, process, daemon, committing, requests, storeVars,
                   subVars>>

\* The service manager starts acquisition again.
RestartAcquisition ==
    /\ acquisition = "down"
    /\ acquisition' = "run" /\ process' = process + 1
    /\ UNCHANGED <<measured, view, daemon, committing, requests, reply,
                   storeVars, subVars, failures>>

-----------------------------------------------------------------------------
(* The daemon.                                                              *)

\* publish_event queues an event to every open subscriber.
Notify == events' = [s \in Subscribers |-> events[s] +
                                           (IF s \in subscribed THEN 1 ELSE 0)]

\* A variant that leaves the ledger commit to a later flush.
LedgerAfterDeferred(q) == ledger

\* The ledger row after ingest_energy has committed.
LedgerAfter(q) == q.family

\* The stream after the spool has committed the family.
SpoolAfter(q) == Append(spool, q.family.id)

\* The status of an answer when the spool write throws.
WriteFailed == "storage_error"

\* The sockets are served in the order in which their requests arrived.
First(q) == \A other \in requests : q.process <= other.process

\* ingest_energy accepts another session, and a newer family of the same one.
Accepts(f) == f.session # ledger.session \/ f.seq > ledger.seq

\* It rejects an older sequence, and a counter rollback, which a repeated boot
\* nonce may bring.
Rejects(f) == /\ f.session = ledger.session
              /\ f.seq <= ledger.seq \/ f.boot # ledger.boot

\* decode_energy_batch and ingest_energy: the ledger commits first.
CommitLedger ==
    /\ daemon = "up" /\ committing = {}
    /\ \E q \in requests :
         /\ First(q) /\ q.kind = "publish_records"
         /\ requests' = requests \ {q}
         /\ \/ /\ Accepts(q.family)
               /\ ledger' = LedgerAfter(q) /\ committing' = {q}
               /\ UNCHANGED <<reply, quarantined>>
            \/ /\ Rejects(q.family)
               /\ Answer(q, "conflict", NoFamily)
               /\ quarantined' = quarantined + 1
               /\ UNCHANGED <<ledger, committing>>
    /\ UNCHANGED <<acqVars, daemon, spool, refused, subVars, failures>>

\* The spool commit, the event and the answer; or a failed spool write.
CommitSpool ==
    \E q \in committing :
      /\ \/ /\ spool' = SpoolAfter(q)
            /\ Answer(q, "ok", NoFamily) /\ Notify /\ UNCHANGED failures
         \/ /\ failures < MaxFailures /\ failures' = failures + 1
            /\ Answer(q, WriteFailed, NoFamily)
            /\ UNCHANGED <<spool, events>>
      /\ committing' = {}
      /\ UNCHANGED <<acqVars, daemon, requests, ledger, quarantined,
                     refused, subscribed>>

\* encode_energy_values writes the saturation and incomplete-input flags.
Encode(energy) == [energy EXCEPT !.discontinuity = FALSE]

GetEnergySnapshot ==
    /\ daemon = "up" /\ committing = {}
    /\ \E q \in requests :
         /\ First(q) /\ q.kind = "get_energy_snapshot"
         /\ requests' = requests \ {q}
         /\ Answer(q, "ok", Encode(ledger))
    /\ UNCHANGED <<acqVars, daemon, committing, storeVars, subVars, failures>>

Subscribe(s) ==
    /\ daemon = "up" /\ committing = {} /\ s \notin subscribed
    /\ subscribed' = subscribed \cup {s}
    /\ UNCHANGED <<acqVars, daemon, committing, requests, reply, storeVars,
                   events, failures>>

\* A subscriber takes an event and reads the stream.
TakeEvent(s) ==
    /\ events[s] > 0
    /\ events' = [events EXCEPT ![s] = @ - 1]
    /\ UNCHANGED <<acqVars, daemon, committing, requests, reply, storeVars,
                   subscribed, failures>>

\* The daemon stops or crashes, also between its two commits: the sockets
\* close, queued requests, answers and events are gone.
Crash ==
    /\ daemon = "up" /\ failures < MaxFailures
    /\ failures' = failures + 1
    /\ daemon' = "down" /\ requests' = {} /\ committing' = {}
    /\ reply' = NoReply
    /\ subscribed' = {} /\ events' = [s \in Subscribers |-> 0]
    /\ UNCHANGED <<acqVars, storeVars>>

\* on_start opens the spool and the ledger again.  By then the clients of the
\* dead daemon have seen their connections close.
Start ==
    /\ daemon = "down" /\ acquisition \notin {"publish", "snapshot"}
    /\ daemon' = "up"
    /\ UNCHANGED <<acqVars, committing, requests, reply, storeVars, subVars,
                   failures>>

-----------------------------------------------------------------------------
Init ==
    /\ measured = <<>> /\ acquisition = "run" /\ process = 0
    /\ view = NoFamily /\ daemon = "up" /\ committing = {} /\ requests = {}
    /\ reply = NoReply /\ ledger = NoFamily /\ spool = <<>>
    /\ quarantined = 0 /\ refused = 0
    /\ subscribed = {} /\ events = [s \in Subscribers |-> 0] /\ failures = 0

Next ==
    \/ Publish \/ Published \/ Quarantine \/ Apply \/ Abort
    \/ RestartAcquisition
    \/ CommitLedger \/ CommitSpool \/ GetEnergySnapshot
    \/ \E s \in Subscribers : Subscribe(s) \/ TakeEvent(s)
    \/ Crash \/ Start

\* The handler thread runs while it has work, systemd restarts both services,
\* and a client sees its answer, its closed connection or its timeout.
Fairness ==
    /\ WF_vars(CommitLedger) /\ WF_vars(CommitSpool)
    /\ WF_vars(GetEnergySnapshot) /\ WF_vars(Start)
    /\ WF_vars(Published) /\ WF_vars(Quarantine) /\ WF_vars(Apply)
    /\ WF_vars(Abort) /\ WF_vars(RestartAcquisition)

Spec == Init /\ [][Next]_vars /\ Fairness

-----------------------------------------------------------------------------
(* Properties.                                                              *)

InSpool(n) == \E i \in 1..Len(spool) : spool[i] = n

\* The ledger is the publication barrier: families enter the stream once and
\* in the order measured, and none before the ledger has it, even when a
\* request outlives the process that sent it and is handled late.
PublicationBarrier ==
    /\ \A i, j \in 1..Len(spool) : i < j => spool[i] < spool[j]
    /\ \A i \in 1..Len(spool) : spool[i] <= ledger.id

\* Whatever the latest-value store shows has a committed place in the stream.
ViewIsDurable == view.id # 0 => InSpool(view.id)

\* A family misses from the stream only if it is still on its way, was
\* quarantined, was measured during an outage of the daemon, or a crash,
\* timeout or failed write took it: at most one each.
LossExplained ==
    Cardinality({n \in 1..Len(measured) :
        /\ ~InSpool(n)
        /\ \A q \in requests \cup committing : q.family.id # n})
    <= failures + quarantined + refused

\* Publishing never blocks acquisition for good: a request is answered or
\* ends in an exception, and after it acquisition runs again.
AcquisitionResumes == acquisition # "run" ~> acquisition = "run"
=============================================================================
