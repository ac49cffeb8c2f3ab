----------------------------- MODULE ModbusTcp -----------------------------
(***************************************************************************)
(* ModbusTcpServer (common/mnc/modbus/tcp_server.cpp): one listener, at    *)
(* most maximum_clients connections, and start()/stop() that may be called *)
(* again on the same object.                                               *)
(*                                                                         *)
(* Two threads meet here.  The lifecycle thread runs start() and stop();   *)
(* the I/O worker runs the coroutines: one accept loop per start and one   *)
(* session per admitted connection.  A coroutine belongs to the run (the   *)
(* value of `generation`) that created it and outlives that run: it        *)
(* notices at its next check, or when its pending operation is cancelled.  *)
(* Every step between two suspension points, and every critical section    *)
(* under sockets_mutex, is one action.                                     *)
(*                                                                         *)
(* A socket is a slot of memory that can be used again once nothing refers *)
(* to it; bytes and register contents are not told apart (ModbusRegisters  *)
(* models the handler).                                                    *)
(***************************************************************************)
EXTENDS Naturals, FiniteSets

CONSTANTS
    Sockets,        \* socket objects that can exist at a time
    NoSocket,       \* an empty SocketPtr
    MaxClients,     \* TcpServerConfig::maximum_clients
    MaxGeneration   \* bound on `generation`, and so on the number of starts

VARIABLES
    running, generation,  \* the two atomics
    listening,            \* the acceptor is open
    main,                 \* where the lifecycle thread is in start() or stop()
    loops,                \* run -> its accept loop
    sessions,             \* socket -> the session coroutine that serves it
    sockets,              \* the set guarded by sockets_mutex
    open,                 \* sockets whose connection is open on this side
    gone                  \* sockets whose peer has hung up

vars == <<running, generation, listening, main, loops, sessions, sockets,
          open, gone>>

Runs == 1..MaxGeneration
Idle == [pc |-> "none", run |-> 0]
NoLoop == [pc |-> "none", sock |-> NoSocket]

TypeOK ==
    /\ running \in BOOLEAN /\ listening \in BOOLEAN
    /\ generation \in 0..MaxGeneration
    /\ main \in {"idle", "bump", "listen", "stopping", "closing", "clearing"}
    /\ loops \in [Runs -> [pc : {"none", "check", "arm", "accept", "aborted",
                                 "reserve", "spawn", "refused"},
                           sock : Sockets \cup {NoSocket}]]
    /\ sessions \in [Sockets -> [pc : {"none", "check", "read", "write"},
                                 run : {0} \cup Runs]]
    /\ sockets \subseteq Sockets /\ open \subseteq Sockets
    /\ gone \subseteq Sockets

Init ==
    /\ running = FALSE /\ generation = 0 /\ listening = FALSE
    /\ main = "idle"
    /\ loops = [r \in Runs |-> NoLoop]
    /\ sessions = [s \in Sockets |-> Idle]
    /\ sockets = {} /\ open = {} /\ gone = {}

(* A coroutine's run is the live one. *)
current(run) == running /\ generation = run

-----------------------------------------------------------------------------
(* The lifecycle thread. *)

StartExchange ==
    /\ main = "idle" /\ ~running /\ generation < MaxGeneration
    /\ running' = TRUE /\ main' = "bump"
    /\ UNCHANGED <<generation, listening, loops, sessions, sockets, open, gone>>

StartBump ==
    /\ main = "bump"
    /\ generation' = generation + 1 /\ main' = "listen"
    /\ UNCHANGED <<running, listening, loops, sessions, sockets, open, gone>>

(* open, bind, listen and the launch of the accept loop. *)
StartListen ==
    /\ main = "listen"
    /\ listening' = TRUE
    /\ loops' = [loops EXCEPT ![generation].pc = "check"]
    /\ main' = "idle"
    /\ UNCHANGED <<running, generation, sessions, sockets, open, gone>>

(* A bad configuration, or an address that cannot be bound. *)
StartFails ==
    /\ main = "listen"
    /\ running' = FALSE /\ listening' = FALSE /\ main' = "idle"
    /\ UNCHANGED <<generation, loops, sessions, sockets, open, gone>>

StopExchange ==
    /\ main = "idle" /\ running /\ generation < MaxGeneration
    /\ running' = FALSE /\ main' = "stopping"
    /\ UNCHANGED <<generation, listening, loops, sessions, sockets, open, gone>>

StopBump ==
    /\ main = "stopping"
    /\ generation' = generation + 1 /\ main' = "closing"
    /\ UNCHANGED <<running, listening, loops, sessions, sockets, open, gone>>

(* Closing the acceptor cancels the accepts pending on it. *)
StopCloseAcceptor ==
    /\ main = "closing"
    /\ listening' = FALSE
    /\ loops' = [r \in Runs |-> IF loops[r].pc = "accept"
                                THEN [loops[r] EXCEPT !.pc = "aborted"]
                                ELSE loops[r]]
    /\ main' = "clearing"
    /\ UNCHANGED <<running, generation, sessions, sockets, open, gone>>

(* Under sockets_mutex: close every admitted socket and empty the set. *)
StopClear ==
    /\ main = "clearing"
    /\ open' = open \ sockets /\ sockets' = {} /\ main' = "idle"
    /\ UNCHANGED <<running, generation, listening, loops, sessions, gone>>

-----------------------------------------------------------------------------
(* accept_loop(run), on the I/O worker. *)

MoveLoop(r, pc, sock) == loops' = [loops EXCEPT ![r] = [pc |-> pc, sock |-> sock]]

LoopCheck(r) ==
    /\ loops[r].pc = "check"
    /\ IF current(r) THEN MoveLoop(r, "arm", NoSocket) ELSE MoveLoop(r, "none", NoSocket)
    /\ UNCHANGED <<running, generation, listening, main, sessions, sockets,
                   open, gone>>

(* async_accept on a closed acceptor fails at once. *)
LoopArm(r) ==
    /\ loops[r].pc = "arm"
    /\ MoveLoop(r, IF listening THEN "accept" ELSE "aborted", NoSocket)
    /\ UNCHANGED <<running, generation, listening, main, sessions, sockets,
                   open, gone>>

(* A socket object nothing refers to. *)
Unused(s) ==
    /\ s \notin open \cup sockets
    /\ sessions[s].pc = "none"
    /\ \A r \in Runs : loops[r].sock # s

LoopAccepts(r, s) ==
    /\ loops[r].pc = "accept" /\ listening /\ Unused(s)
    /\ MoveLoop(r, "reserve", s)
    /\ open' = open \cup {s} /\ gone' = gone \ {s}
    /\ UNCHANGED <<running, generation, listening, main, sessions, sockets>>

(* The kernel fails one accept; a cancelled one ends here too. *)
LoopAcceptFails(r) ==
    /\ loops[r].pc \in {"accept", "aborted"}
    /\ MoveLoop(r, "check", NoSocket)
    /\ UNCHANGED <<running, generation, listening, main, sessions, sockets,
                   open, gone>>

(* A variant that only looks at the limit. *)
reserveStale(s, run) == Cardinality(sockets) < MaxClients

(* The check and the insertion are one critical section. *)
reserve(s, run) ==
    /\ current(run)
    /\ Cardinality(sockets) < MaxClients

LoopReserve(r) ==
    LET s == loops[r].sock IN
    /\ loops[r].pc = "reserve"
    /\ IF reserve(s, r)
       THEN /\ sockets' = sockets \cup {s}
            /\ MoveLoop(r, "spawn", s)
            /\ UNCHANGED open
       ELSE /\ open' = open \ {s}
            /\ MoveLoop(r, "refused", NoSocket)
            /\ UNCHANGED sockets
    /\ UNCHANGED <<running, generation, listening, main, sessions, gone>>

(* After a refusal: leave if the run is over, otherwise accept again. *)
LoopRefused(r) ==
    /\ loops[r].pc = "refused"
    /\ MoveLoop(r, IF current(r) THEN "check" ELSE "none", NoSocket)
    /\ UNCHANGED <<running, generation, listening, main, sessions, sockets,
                   open, gone>>

LoopSpawn(r) ==
    LET s == loops[r].sock IN
    /\ loops[r].pc = "spawn"
    /\ sessions' = [sessions EXCEPT ![s] = [pc |-> "check", run |-> r]]
    /\ MoveLoop(r, "check", NoSocket)
    /\ UNCHANGED <<running, generation, listening, main, sockets, open, gone>>

(* Under sockets_mutex: give the slot back and close the connection. *)
release(s) ==
    /\ sockets' = sockets \ {s}
    /\ open' = open \ {s}

LoopSpawnFails(r) ==
    LET s == loops[r].sock IN
    /\ loops[r].pc = "spawn"
    /\ release(s)
    /\ MoveLoop(r, "check", NoSocket)
    /\ UNCHANGED <<running, generation, listening, main, sessions, gone>>

-----------------------------------------------------------------------------
(* session(socket, run), on the I/O worker. *)

MoveSession(s, pc) == sessions' = [sessions EXCEPT ![s].pc = pc]

(* The Guard releases the socket on every way out of the coroutine. *)
SessionEnds(s) ==
    /\ release(s)
    /\ sessions' = [sessions EXCEPT ![s] = Idle]
    /\ UNCHANGED <<running, generation, listening, main, loops, gone>>

SessionCheck(s) ==
    /\ sessions[s].pc = "check"
    /\ IF current(sessions[s].run)
       THEN /\ MoveSession(s, "read")
            /\ UNCHANGED <<running, generation, listening, main, loops,
                           sockets, open, gone>>
       ELSE SessionEnds(s)

(* A whole request arrives; the handler answers it or stays silent.  A     *)
(* peer counts as gone once the last request it sent has been read.        *)
SessionReads(s) ==
    /\ sessions[s].pc = "read" /\ s \in open \ gone
    /\ \E pc \in {"write", "check"} : MoveSession(s, pc)
    /\ UNCHANGED <<running, generation, listening, main, loops, sockets, open,
                   gone>>

(* An MBAP header that is not valid ends the session. *)
SessionRejects(s) ==
    /\ sessions[s].pc = "read" /\ s \in open
    /\ SessionEnds(s)

SessionWrites(s) ==
    /\ sessions[s].pc = "write" /\ s \in open /\ s \notin gone
    /\ MoveSession(s, "check")
    /\ UNCHANGED <<running, generation, listening, main, loops, sockets, open,
                   gone>>

(* The pending read or write fails: the peer hung up or stop() closed the  *)
(* socket.                                                                 *)
SessionFails(s) ==
    /\ sessions[s].pc \in {"read", "write"}
    /\ s \in gone \/ s \notin open
    /\ SessionEnds(s)

(* The peer closes its end (not code of the server). *)
HangUp(s) ==
    /\ s \in open \ gone
    /\ gone' = gone \cup {s}
    /\ UNCHANGED <<running, generation, listening, main, loops, sessions,
                   sockets, open>>

-----------------------------------------------------------------------------
Lifecycle ==
    \/ StartExchange \/ StartBump \/ StartListen \/ StartFails
    \/ StopExchange \/ StopBump \/ StopCloseAcceptor \/ StopClear

LoopStep(r) ==
    \/ LoopCheck(r) \/ LoopArm(r) \/ LoopAcceptFails(r)
    \/ LoopReserve(r) \/ LoopRefused(r) \/ LoopSpawn(r) \/ LoopSpawnFails(r)
    \/ \E s \in Sockets : LoopAccepts(r, s)

SessionStep(s) ==
    \/ SessionCheck(s) \/ SessionReads(s) \/ SessionRejects(s)
    \/ SessionWrites(s) \/ SessionFails(s)

Next ==
    \/ Lifecycle
    \/ \E r \in Runs : LoopStep(r)
    \/ \E s \in Sockets : SessionStep(s) \/ HangUp(s)

Spec == Init /\ [][Next]_vars

(* The I/O worker runs every handler that is ready, and a stop() that has  *)
(* begun goes on: io_context::run and a thread of its own.  Nothing makes  *)
(* a peer send, hang up or connect.                                        *)
WorkerRuns(s) == SessionCheck(s) \/ SessionWrites(s) \/ SessionFails(s)

Fairness ==
    /\ \A s \in Sockets : WF_vars(WorkerRuns(s))
    /\ \A r \in Runs : WF_vars(LoopCheck(r) \/ LoopReserve(r) \/ LoopRefused(r)
                                \/ LoopSpawn(r))
    /\ WF_vars(StopBump \/ StopCloseAcceptor \/ StopClear)

-----------------------------------------------------------------------------
(* No more connections are admitted than maximum_clients, whatever the     *)
(* order in which accepts, stops and restarts fall (reserve).              *)
SlotLimit == Cardinality(sockets) <= MaxClients

(* A connection that is open on this side is counted in the set, or is in  *)
(* the hands of an accept loop that is about to count or to close it: stop *)
(* and release leave no connection open that nobody counts.                *)
OpenIsCounted ==
    \A s \in open :
        s \in sockets \/ \E r \in Runs : loops[r].pc = "reserve" /\ loops[r].sock = s

(* Every slot has a coroutine that will give it back: the session that     *)
(* serves it, or the accept loop that is launching that session.           *)
SlotIsHeld ==
    \A s \in sockets :
        \/ sessions[s].pc # "none"
        \/ \E r \in Runs : loops[r].pc = "spawn" /\ loops[r].sock = s

(* Between two lifecycle calls the set holds connections of the live run   *)
(* only, and none when the server is stopped: a coroutine of an earlier    *)
(* run that wakes late never takes a slot of the new one.                  *)
RunOf(s) ==
    IF sessions[s].pc # "none" THEN sessions[s].run
    ELSE CHOOSE r \in Runs : loops[r].sock = s

StaleRunsHoldNoSlot ==
    main = "idle" =>
        IF running THEN \A s \in sockets : RunOf(s) = generation
                   ELSE sockets = {}

(* reserve, release and stop together keep the slots sound: no more than    *)
(* maximum_clients, every open connection counted, every slot with a       *)
(* coroutine that gives it back, and none with a stale run.                *)
SlotsAreSound == SlotLimit /\ OpenIsCounted /\ SlotIsHeld /\ StaleRunsHoldNoSlot

(* The session of a stopped run ends: its socket is closed, the pending    *)
(* read fails, and the coroutine leaves.                                   *)
StoppedSessionsEnd ==
    \A s \in Sockets :
        sessions[s].pc # "none" /\ ~current(sessions[s].run)
            ~> sessions[s].pc = "none"

(* A peer that hangs up gives its slot back.                               *)
HangUpFreesSlot ==
    \A s \in Sockets : s \in sockets /\ s \in gone ~> s \notin sockets
=============================================================================
