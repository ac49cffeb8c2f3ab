---------------------------- MODULE RequestClient ----------------------------
(***************************************************************************)
(* ipc.cpp, RequestClient under PersistentBlockingClient (and the same      *)
(* scheme in AcquisitionClient): threads share one connection.  A request   *)
(* connects if needed under a mutex, is correlated, sent, and waits for its *)
(* answer with a timeout; any failure closes the client and is never        *)
(* retried.  The strand runs what is posted to it in order; timers, writes  *)
(* and reads complete in any order.                                         *)
(***************************************************************************)
EXTENDS Naturals, Sequences, FiniteSets

CONSTANTS Callers,      \* threads
          MaxRequests,  \* bound: requests of one caller
          MaxConnections, \* bound: connections
          MaxCrashes    \* bound: connections the server drops

VARIABLES pc,         \* Callers -> position in request()
          count,      \* Callers -> requests begun
          on,         \* Callers -> connection of the current or last request
          result,     \* Callers -> result of the last request
          pending,    \* correlation -> [response, failure], the map pending_
          strand,     \* tasks posted to the strand
          mutex,      \* connect_mutex
          connection, \* connection_ (0: none)
          open,       \* open_
          sockets,    \* number of connections made so far
          alive,      \* sockets that are open on this side: is_open()
          reading,    \* sockets whose read_loop runs
          requests,   \* <<socket, correlation>> on their way to the server
          answers,    \* <<socket, correlation>> on their way back
          dropped     \* sockets the server dropped, whether noticed or not

client == <<pending, connection, open>>
network == <<sockets, alive, reading, requests, answers, dropped>>
vars == <<pc, count, on, result, pending, strand, mutex, connection, open,
          sockets, alive, reading, requests, answers, dropped>>

Nobody == "nobody"

\* A caller has one request at a time; next_correlation_id_ never repeats.
Correlation(c) == <<c, count[c]>>

Init ==
    /\ pc = [c \in Callers |-> "idle"] /\ count = [c \in Callers |-> 0]
    /\ on = [c \in Callers |-> 0] /\ result = [c \in Callers |-> "none"]
    /\ pending = <<>> /\ strand = <<>> /\ mutex = Nobody
    /\ connection = 0 /\ open = FALSE
    /\ sockets = 0 /\ alive = {} /\ reading = {} /\ requests = {} /\ answers = {}
    /\ dropped = {}

Goto(c, l) == pc' = [pc EXCEPT ![c] = l]

-----------------------------------------------------------------------------
(* PersistentBlockingClient::request, on the caller's thread.               *)

Begin(c) ==
    /\ pc[c] = "idle" /\ count[c] < MaxRequests
    /\ count' = [count EXCEPT ![c] = @ + 1]
    /\ result' = [result EXCEPT ![c] = "none"]
    /\ IF open THEN Goto(c, "issue") /\ strand' = Append(strand, <<"issue", c>>)
       ELSE Goto(c, "lock") /\ UNCHANGED strand
    /\ UNCHANGED <<on, mutex, client, network>>

\* The double check under connect_mutex.
Lock(c) ==
    /\ pc[c] = "lock" /\ mutex = Nobody
    /\ IF open THEN Goto(c, "issue") /\ strand' = Append(strand, <<"issue", c>>)
                    /\ UNCHANGED mutex
       ELSE Goto(c, "connect") /\ strand' = Append(strand, <<"connect", c>>)
            /\ mutex' = c
    /\ UNCHANGED <<count, on, result, client, network>>

\* connect() came back: release the mutex, issue the request.
Connected(c) ==
    /\ pc[c] = "connected" /\ mutex' = Nobody
    /\ Goto(c, "issue") /\ strand' = Append(strand, <<"issue", c>>)
    /\ UNCHANGED <<count, on, result, client, network>>

\* A variant that keeps the mutex after a failed connect.
CloseFlagLocked(c) ==
    /\ pc[c] = "failed" /\ Goto(c, "closing")
    /\ open' = FALSE
    /\ UNCHANGED <<count, on, result, pending, strand, mutex, connection, network>>

\* The catch block, first half: close() invalidates the public state.
CloseFlag(c) ==
    /\ pc[c] = "failed" /\ Goto(c, "closing")
    /\ open' = FALSE
    /\ mutex' = IF mutex = c THEN Nobody ELSE mutex
    /\ UNCHANGED <<count, on, result, pending, strand, connection, network>>

\* Second half: the socket is closed on the strand; the caller gets the error.
ClosePost(c) ==
    /\ pc[c] = "closing" /\ Goto(c, "idle")
    /\ strand' = Append(strand, <<"close", c>>)
    /\ UNCHANGED <<count, on, result, mutex, client, network>>

-----------------------------------------------------------------------------
(* RequestClient, on the strand.                                            *)

Task(kind, c) == strand # <<>> /\ Head(strand) = <<kind, c>> /\ strand' = Tail(strand)

Usable == connection # 0 /\ connection \in alive

\* connect(): nothing to do, or a new socket is being connected.
ConnectStart(c) ==
    /\ Task("connect", c)
    /\ Goto(c, IF Usable THEN "connected" ELSE "connecting")
    /\ UNCHANGED <<count, on, result, mutex, client, network>>

ConnectDone(c) ==
    /\ pc[c] = "connecting" /\ sockets < MaxConnections
    /\ Goto(c, "connected")
    /\ sockets' = sockets + 1 /\ alive' = alive \cup {sockets'}
    /\ reading' = reading \cup {sockets'}
    /\ connection' = sockets' /\ open' = TRUE
    /\ UNCHANGED <<count, on, result, pending, strand, mutex, requests, answers, dropped>>

ConnectFails(c) ==
    /\ pc[c] = "connecting" /\ Goto(c, "failed")
    /\ UNCHANGED <<count, on, result, strand, mutex, client, network>>

With(map, key, value) ==
    [k \in DOMAIN map \cup {key} |-> IF k = key THEN value ELSE map[k]]
Without(map, key) == [k \in DOMAIN map \ {key} |-> map[k]]

\* request(): correlate and hand the frame to the connection.
Issue(c) ==
    /\ Task("issue", c)
    /\ IF Usable
       THEN /\ pending' = With(pending, Correlation(c),
                               [response |-> FALSE, failure |-> FALSE])
            /\ on' = [on EXCEPT ![c] = connection] /\ Goto(c, "sending")
       ELSE Goto(c, "failed") /\ UNCHANGED <<pending, on>>
    /\ UNCHANGED <<count, result, mutex, connection, open, network>>

\* The frame reaches the server before the sender knows.
Written(c) ==
    /\ pc[c] = "sending" /\ on[c] \in alive \ dropped
    /\ requests' = requests \cup {<<on[c], Correlation(c)>>} /\ Goto(c, "written")
    /\ UNCHANGED <<count, on, result, strand, mutex, client, sockets, alive,
                   reading, answers, dropped>>

Settled(p) == p.response \/ p.failure

\* send() returns: an answer that is already there is taken at once.
Sent(c) ==
    /\ pc[c] = "written"
    /\ Goto(c, IF Settled(pending[Correlation(c)]) THEN "woken" ELSE "waiting")
    /\ UNCHANGED <<count, on, result, strand, mutex, client, network>>

SendFails(c) ==
    /\ pc[c] \in {"sending", "written"} /\ on[c] \notin alive \ dropped
    /\ pending' = Without(pending, Correlation(c)) /\ Goto(c, "failed")
    /\ UNCHANGED <<count, on, result, strand, mutex, connection, open, network>>

\* The timer expires; its completion is queued and can no longer be cancelled.
Expire(c) ==
    /\ pc[c] = "waiting" /\ Goto(c, "expired")
    /\ UNCHANGED <<count, on, result, strand, mutex, client, network>>

\* The waiter runs: timeout, failure or answer.
Resume(c) ==
    /\ pc[c] \in {"woken", "expired"}
    /\ pending' = Without(pending, Correlation(c))
    /\ IF pc[c] = "expired" \/ pending[Correlation(c)].failure
       THEN Goto(c, "failed") /\ UNCHANGED result
       ELSE Goto(c, "idle") /\ result' = [result EXCEPT ![c] = "ok"]
    /\ UNCHANGED <<count, on, strand, mutex, connection, open, network>>

\* Cancelling the timer wakes a waiter.
Wake(keys) ==
    pc' = [c \in Callers |-> IF pc[c] = "waiting" /\ Correlation(c) \in keys
                             THEN "woken" ELSE pc[c]]

FailPending ==
    /\ pending' = [k \in DOMAIN pending |-> [pending[k] EXCEPT !.failure = TRUE]]
    /\ Wake(DOMAIN pending)

\* The posted half of close().
StrandClose(c) ==
    /\ Task("close", c)
    /\ alive' = alive \ {connection}
    /\ FailPending
    /\ UNCHANGED <<count, on, result, mutex, connection, open, sockets, reading,
                   requests, answers, dropped>>

\* The entry of pending_ the answer belongs to.
Found(key) == DOMAIN pending \cap {key}

\* read_loop: an answer without a waiter is dropped.
Receive(k, key) ==
    /\ k \in reading /\ k \in alive /\ <<k, key>> \in answers
    /\ answers' = answers \ {<<k, key>>}
    /\ IF Found(key) = {} THEN UNCHANGED <<pending, pc>>
       ELSE \E f \in Found(key) :
              /\ pending' = [pending EXCEPT ![f].response = TRUE]
              /\ Wake({f})
    /\ UNCHANGED <<count, on, result, strand, mutex, connection, open, sockets,
                   alive, reading, requests, dropped>>

\* A variant in which every read loop fails the waiters and resets the client.
OwnerAny(k) == TRUE

Owner(k) == connection = k

\* read_loop ends because its socket was closed on either side; a superseded loop touches
\* nothing else.
ReadLoopEnds(k) ==
    /\ k \in reading /\ k \notin alive \ dropped
    /\ reading' = reading \ {k} /\ alive' = alive \ {k}
    /\ IF Owner(k)
       THEN FailPending /\ connection' = 0 /\ open' = FALSE
       ELSE UNCHANGED <<pending, pc, connection, open>>
    /\ UNCHANGED <<count, on, result, strand, mutex, sockets, requests,
                   answers, dropped>>

-----------------------------------------------------------------------------
(* The server (external).                                                   *)

Serve(k, key) ==
    /\ <<k, key>> \in requests /\ k \notin dropped
    /\ requests' = requests \ {<<k, key>>}
    /\ answers' = IF k \in alive THEN answers \cup {<<k, key>>} ELSE answers
    /\ UNCHANGED <<pc, count, on, result, strand, mutex, client, sockets, alive,
                   reading, dropped>>

\* The server drops the connection; is_open() stays true until the read loop
\* observes it.
Crash(k) ==
    /\ k \in alive \ dropped /\ Cardinality(dropped) < MaxCrashes
    /\ dropped' = dropped \cup {k}
    /\ UNCHANGED <<pc, count, on, result, strand, mutex, client, sockets, alive,
                   reading, requests, answers>>

CallerStep(c) ==
    \/ Lock(c) \/ Connected(c) \/ CloseFlag(c) \/ ClosePost(c)
    \/ ConnectStart(c) \/ ConnectDone(c) \/ ConnectFails(c) \/ Issue(c)
    \/ Written(c) \/ Sent(c) \/ SendFails(c) \/ Expire(c) \/ Resume(c)
    \/ StrandClose(c)

ServerStep == \E k \in 1..sockets :
    \/ ReadLoopEnds(k) \/ Crash(k)
    \/ \E c \in Callers, n \in 1..MaxRequests : Receive(k, <<c, n>>) \/ Serve(k, <<c, n>>)

Next == (\E c \in Callers : Begin(c) \/ CallerStep(c)) \/ ServerStep

\* Threads and io_context run; timers expire; nothing is asked of the server,
\* and nobody is obliged to send a first request.
Fairness == \A c \in Callers : WF_vars(CallerStep(c))
Spec == Init /\ [][Next]_vars /\ Fairness

-----------------------------------------------------------------------------
\* A caller that waits has neither an answer nor a failure: one that came
\* before the wait began, while the write completed, is not slept through.
NoLostWakeup ==
    \A c \in Callers : pc[c] = "waiting" =>
        ~pending[Correlation(c)].response /\ ~pending[Correlation(c)].failure

\* A caller that gets an answer gets that of its own request: its request was
\* taken by the server and its answer delivered, for every late answer of an
\* earlier request that timed out.
AnswersItsRequest ==
    \A c \in Callers : result[c] = "ok" =>
        \A k \in 1..sockets : /\ <<k, Correlation(c)>> \notin requests
                              /\ <<k, Correlation(c)>> \notin answers

\* A connection that ends fails only the requests that were sent on it: a read
\* loop that outlived a reconnection leaves the requests of the new one alone.
EndFailsItsOwn ==
    [][\A c \in Callers :
         (/\ Correlation(c) \in DOMAIN pending \cap DOMAIN pending'
          /\ ~pending[Correlation(c)].failure /\ pending'[Correlation(c)].failure
          /\ strand' = strand)
         => on[c] \notin alive \ dropped]_vars

\* Every request ends, with an answer or an error: nobody waits for ever for
\* the mutex, the strand or the timer.
RequestsEnd == \A c \in Callers : (pc[c] # "idle") ~> (pc[c] = "idle")
=============================================================================
