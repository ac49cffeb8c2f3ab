----------------------------- MODULE MCMeterStream -----------------------------
(***************************************************************************)
(* Instances of the meter stream: the durable spool, the stream daemon      *)
(* around it, and the IPC client its users reach it with.  The three share  *)
(* no variable here: a behaviour exercises the one that `part' names, and   *)
(* the other two stay as they began, so that the state spaces add up.       *)
(***************************************************************************)
EXTENDS DurableMeterSpool

CONSTANTS Parts,           \* the components this instance exercises
          k1, k2, k3,      \* producer identities
          MaxFamilies, MaxFailures, Subscribers,
          Callers, MaxRequests, MaxConnections, MaxCrashes

VARIABLES part,
          \* MeterStreamService
          measured, acquisition, process, view, daemon, committing, inbox,
          reply, ledger, spool, quarantined, refused, subscribed, events,
          failures,
          \* RequestClient
          pc, count, on, result, pending, strand, mutex, connection, open,
          sockets, alive, reading, requests, answers, hungUp

Service == INSTANCE MeterStreamService WITH requests <- inbox
Client == INSTANCE RequestClient WITH dropped <- hungUp

MCKeys == {k1, k2, k3}

\* One record, and a batch that repeats a record of its own.
MCBatches == {<<k1>>, <<k2, k3, k2>>}

\* A capped memory backend, and an uncapped persistent one with an age limit.
MCPolicies ==
  {[backend |-> "memory", bytes |-> 2, age |-> FALSE],
   [backend |-> "persistent", bytes |-> 0, age |-> TRUE]}

serviceVars == <<measured, acquisition, process, view, daemon, committing,
                 inbox, reply, ledger, spool, quarantined, refused,
                 subscribed, events, failures>>
clientVars == <<pc, count, on, result, pending, strand, mutex, connection,
                open, sockets, alive, reading, requests, answers, hungUp>>
streamVars == <<part, vars, serviceVars, clientVars>>

\* An idle spool begins empty, one at work empty or with a record that a batch
\* repeats.
StreamInit ==
  /\ part \in Parts /\ Init /\ Service!Init /\ Client!Init
  /\ part # "spool" => ceiling = 0 /\ policy.backend = "memory"
  /\ \A r \in db["persistent"].records : r.key = k2

StreamNext ==
  /\ UNCHANGED part
  /\ \/ part = "spool" /\ Next /\ UNCHANGED <<serviceVars, clientVars>>
     \/ part = "service" /\ Service!Next /\ UNCHANGED <<vars, clientVars>>
     \/ part = "client" /\ Client!Next /\ UNCHANGED <<vars, serviceVars>>

StreamSpec == StreamInit /\ [][StreamNext]_streamVars

\* The threads of the daemons are scheduled, and so are the callers of a client.
StreamFairSpec ==
  /\ StreamSpec
  /\ WF_serviceVars(part = "service" /\ Service!CommitLedger)
  /\ WF_serviceVars(part = "service" /\ Service!CommitSpool)
  /\ WF_serviceVars(part = "service" /\ Service!GetEnergySnapshot)
  /\ WF_serviceVars(part = "service" /\ Service!Start)
  /\ WF_serviceVars(part = "service" /\ Service!Published)
  /\ WF_serviceVars(part = "service" /\ Service!Quarantine)
  /\ WF_serviceVars(part = "service" /\ Service!Apply)
  /\ WF_serviceVars(part = "service" /\ Service!Abort)
  /\ WF_serviceVars(part = "service" /\ Service!RestartAcquisition)
  /\ \A c \in Callers : WF_clientVars(part = "client" /\ Client!CallerStep(c))

\* The daemon: nothing is published that the ledger has not stored, the latest
\* view shows what the spool holds, and a family that reached neither was
\* counted (MeterStreamService).
StreamIsDurable ==
  Service!PublicationBarrier /\ Service!ViewIsDurable /\ Service!LossExplained

\* The client: a caller whose answer arrived does not sleep on, an answer is
\* the one of its request, and a connection that ends fails only the requests
\* that were sent on it (RequestClient).
ClientIsSound ==
  /\ [](Client!NoLostWakeup /\ Client!AnswersItsRequest)
  /\ Client!EndFailsItsOwn

\* Publishing never blocks acquisition for good (MeterStreamService), and every
\* request of a client ends, with an answer or an error (RequestClient).
StreamProgresses ==
  /\ part = "service" => Service!AcquisitionResumes
  /\ part = "client" => Client!RequestsEnd
===============================================================================
