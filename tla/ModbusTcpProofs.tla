--------------------------- MODULE ModbusTcpProofs ---------------------------
(***************************************************************************)
(* The connection slots of ModbusTcp are sound for any number of sockets,  *)
(* clients and restarts.                                                   *)
(*                                                                         *)
(* SlotsAreSound is not inductive: it does not say which coroutine a       *)
(* socket belongs to, nor what a run that is over may still do.  TcpInv    *)
(* adds both.  A socket is in the hands of one accept loop or of one       *)
(* session (LoopInv); accept loops exist only for runs up to the current   *)
(* one, and the current value of `generation` has one only between the end *)
(* of start() and the bump in stop() (RunInv).                             *)
(***************************************************************************)
EXTENDS ModbusTcp, FiniteSetTheorems, TLAPS

\* The accept loop holds a socket.
Holding == {"reserve", "spawn"}

LoopInv ==
  \A r \in Runs :
    /\ loops[r].sock # NoSocket <=> loops[r].pc \in Holding
    /\ loops[r].pc \in Holding => /\ loops[r].sock \in Sockets
                                  /\ sessions[loops[r].sock].pc = "none"
    /\ loops[r].pc = "reserve" => loops[r].sock \notin sockets
    /\ \A q \in Runs :
         loops[r].pc \in Holding /\ loops[q].pc \in Holding
           /\ loops[r].sock = loops[q].sock => r = q

\* The server is stopped, or start() has not launched its loop yet.
Silent == main \in {"bump", "listen"} \/ (main = "idle" /\ ~running)

\* The run that `generation` names has been launched and is not over.
Live == main = "stopping" \/ (main = "idle" /\ running)

RunInv ==
  /\ main \in {"bump", "listen"} => running
  /\ main \in {"bump", "stopping"} => generation < MaxGeneration
  /\ main = "listen" => generation # 0
  /\ main \in {"stopping", "closing", "clearing"} => ~running
  /\ \A r \in Runs : r > generation => loops[r].pc = "none"
  /\ ~Live => \A r \in Runs : r = generation => loops[r].pc = "none"
  /\ Silent => sockets = {}
  /\ Live => /\ \A s \in sockets : sessions[s].pc # "none"
                                     => sessions[s].run = generation
             /\ \A r \in Runs : loops[r].pc = "spawn" /\ loops[r].sock \in sockets
                                  => r = generation

SlotInv == IsFiniteSet(sockets) /\ SlotLimit /\ OpenIsCounted /\ SlotIsHeld

TcpInv == TypeOK /\ LoopInv /\ RunInv /\ SlotInv

-----------------------------------------------------------------------------
\* Runs are numbered by naturals.
LEMMA RunsAreNaturals ==
  ASSUME MaxGeneration \in Nat
  PROVE  Runs \subseteq Nat /\ \A r \in Runs : r # 0 /\ r <= MaxGeneration
BY DEF Runs

\* The invariant holds before the first start().
LEMMA TcpInit ==
  ASSUME MaxClients \in Nat, MaxGeneration \in Nat, Init
  PROVE  TcpInv
<1>0. 0 \in 0..MaxGeneration
  OBVIOUS
<1>1. TypeOK
  BY Zenon, <1>0 DEF Init, TypeOK, NoLoop, Idle
<1>2. LoopInv
  BY Zenon DEF Init, LoopInv, NoLoop, Holding
<1>3. RunInv
  BY Zenon DEF Init, RunInv, NoLoop, Silent, Live
<1>4. SlotInv
  BY FS_EmptySet DEF Init, SlotInv, SlotLimit, OpenIsCounted, SlotIsHeld
<1> QED
  BY Zenon, <1>1, <1>2, <1>3, <1>4 DEF TcpInv

-----------------------------------------------------------------------------
\* start() and stop() keep the invariant: they touch no coroutine but the loop
\* they launch or cancel, and no slot but by emptying the set.
LEMMA LifecycleKeeps ==
  ASSUME MaxClients \in Nat, MaxGeneration \in Nat, TcpInv, Lifecycle
  PROVE  TcpInv'
<1> USE DEF TcpInv
<1>0. generation \in Nat /\ \A r \in Runs : r \in Nat
  BY RunsAreNaturals DEF TypeOK
<1>1. CASE StartExchange
  <2>1. TypeOK'
    BY Zenon, <1>1 DEF StartExchange, TypeOK
  <2>2. LoopInv' /\ SlotInv'
    BY <1>1 DEF StartExchange, LoopInv, SlotInv, SlotLimit, OpenIsCounted, SlotIsHeld
  <2>3. RunInv'
    BY Zenon, <1>1 DEF StartExchange, RunInv, Silent, Live
  <2> QED
    BY Zenon, <2>1, <2>2, <2>3
<1>2. CASE StartBump
  <2>1. /\ main = "bump" /\ main' = "listen" /\ generation' = generation + 1
        /\ UNCHANGED <<running, listening, loops, sessions, sockets, open, gone>>
    BY Zenon, <1>2 DEF StartBump
  <2>2. /\ generation < MaxGeneration /\ running /\ sockets = {}
        /\ \A r \in Runs : r > generation => loops[r].pc = "none"
    BY Zenon, <2>1 DEF RunInv, Silent
  <2>3. generation' \in 0..MaxGeneration /\ generation' # 0 /\ generation' > generation
    BY <1>0, <2>1, <2>2
  <2>4. \A r \in Runs : (r > generation' \/ r = generation') => loops[r].pc = "none"
    BY <1>0, <2>1, <2>2
  <2>5. TypeOK'
    BY Zenon, <2>1, <2>3 DEF TypeOK
  <2>6. LoopInv' /\ SlotInv'
    BY <2>1 DEF LoopInv, SlotInv, SlotLimit, OpenIsCounted, SlotIsHeld
  <2>7. RunInv'
    BY Zenon, <2>1, <2>2, <2>3, <2>4 DEF RunInv, Silent, Live
  <2> QED
    BY Zenon, <2>5, <2>6, <2>7
<1>3. CASE StartListen
  <2>1. /\ main = "listen" /\ main' = "idle" /\ listening' = TRUE
        /\ loops' = [loops EXCEPT ![generation].pc = "check"]
        /\ UNCHANGED <<running, generation, sessions, sockets, open, gone>>
    BY Zenon, <1>3 DEF StartListen
  <2>2. /\ generation \in Runs /\ running /\ sockets = {}
        /\ loops[generation].pc = "none"
    BY <1>0, <2>1 DEF RunInv, Silent, Live, TypeOK, Runs
  <2>3. loops[generation].sock = NoSocket
    BY Zenon, <2>2 DEF LoopInv, Holding
  <2>4. /\ \A r \in Runs \ {generation} : loops'[r] = loops[r]
        /\ loops'[generation].pc = "check" /\ loops'[generation].sock = NoSocket
    BY Zenon, <2>1, <2>2, <2>3 DEF TypeOK
  <2>5. TypeOK'
    BY ZenonT(40), <2>1 DEF TypeOK
  <2>6. LoopInv'
    BY <2>1, <2>4 DEF LoopInv, Holding
  <2>7. SlotInv'
    BY <2>1, <2>2, <2>4 DEF SlotInv, SlotLimit, OpenIsCounted, SlotIsHeld
  <2>8. RunInv'
    BY <1>0, <2>1, <2>2, <2>4 DEF RunInv, Silent, Live
  <2> QED
    BY Zenon, <2>5, <2>6, <2>7, <2>8
<1>4. CASE StartFails
  <2>1. TypeOK'
    BY Zenon, <1>4 DEF StartFails, TypeOK
  <2>2. LoopInv' /\ SlotInv'
    BY <1>4 DEF StartFails, LoopInv, SlotInv, SlotLimit, OpenIsCounted, SlotIsHeld
  <2>3. RunInv'
    BY Zenon, <1>4 DEF StartFails, RunInv, Silent, Live
  <2> QED
    BY Zenon, <2>1, <2>2, <2>3
<1>5. CASE StopExchange
  <2>1. TypeOK'
    BY Zenon, <1>5 DEF StopExchange, TypeOK
  <2>2. LoopInv' /\ SlotInv'
    BY <1>5 DEF StopExchange, LoopInv, SlotInv, SlotLimit, OpenIsCounted, SlotIsHeld
  <2>3. RunInv'
    BY Zenon, <1>5 DEF StopExchange, RunInv, Silent, Live
  <2> QED
    BY Zenon, <2>1, <2>2, <2>3
<1>6. CASE StopBump
  <2>1. /\ main = "stopping" /\ main' = "closing" /\ generation' = generation + 1
        /\ UNCHANGED <<running, listening, loops, sessions, sockets, open, gone>>
    BY Zenon, <1>6 DEF StopBump
  <2>2. /\ generation < MaxGeneration /\ ~running
        /\ \A r \in Runs : r > generation => loops[r].pc = "none"
    BY Zenon, <2>1 DEF RunInv
  <2>3. generation' \in 0..MaxGeneration /\ generation' # 0 /\ generation' > generation
    BY <1>0, <2>1, <2>2
  <2>4. \A r \in Runs : (r > generation' \/ r = generation') => loops[r].pc = "none"
    BY <1>0, <2>1, <2>2
  <2>5. TypeOK'
    BY Zenon, <2>1, <2>3 DEF TypeOK
  <2>6. LoopInv' /\ SlotInv'
    BY <2>1 DEF LoopInv, SlotInv, SlotLimit, OpenIsCounted, SlotIsHeld
  <2>7. RunInv'
    BY Zenon, <2>1, <2>2, <2>3, <2>4 DEF RunInv, Silent, Live
  <2> QED
    BY Zenon, <2>5, <2>6, <2>7
<1>7. CASE StopCloseAcceptor
  <2>1. /\ main = "closing" /\ main' = "clearing" /\ listening' = FALSE
        /\ UNCHANGED <<running, generation, sessions, sockets, open, gone>>
        /\ loops' = [r \in Runs |-> IF loops[r].pc = "accept"
                                    THEN [loops[r] EXCEPT !.pc = "aborted"]
                                    ELSE loops[r]]
    BY Zenon, <1>7 DEF StopCloseAcceptor
  <2>2. \A r \in Runs : /\ loops'[r].sock = loops[r].sock
                        /\ \/ loops'[r].pc = loops[r].pc
                           \/ loops[r].pc = "accept" /\ loops'[r].pc = "aborted"
    BY Zenon, <2>1 DEF TypeOK
  <2>3. TypeOK'
    BY ZenonT(40), <2>1 DEF TypeOK
  <2>4. LoopInv'
    BY <2>1, <2>2 DEF LoopInv, Holding
  <2>5. SlotInv'
    BY <2>1, <2>2 DEF SlotInv, SlotLimit, OpenIsCounted, SlotIsHeld
  <2>6. RunInv'
    BY Zenon, <2>1, <2>2 DEF RunInv, Silent, Live
  <2> QED
    BY Zenon, <2>3, <2>4, <2>5, <2>6
<1>8. CASE StopClear
  <2>1. /\ main = "clearing" /\ main' = "idle" /\ ~running
        /\ open' = open \ sockets /\ sockets' = {}
        /\ UNCHANGED <<running, generation, listening, loops, sessions, gone>>
    BY Zenon, <1>8 DEF StopClear, RunInv
  <2>2. TypeOK'
    BY Zenon, <2>1 DEF TypeOK
  <2>3. LoopInv'
    BY Zenon, <2>1 DEF LoopInv
  <2>4. SlotInv'
    BY <2>1, FS_EmptySet DEF SlotInv, SlotLimit, OpenIsCounted, SlotIsHeld
  <2>5. RunInv'
    BY Zenon, <2>1 DEF RunInv, Silent, Live
  <2> QED
    BY Zenon, <2>2, <2>3, <2>4, <2>5
<1> QED
  BY Zenon, <1>1, <1>2, <1>3, <1>4, <1>5, <1>6, <1>7, <1>8 DEF Lifecycle

-----------------------------------------------------------------------------
\* accept_loop(run) keeps the invariant: a socket passes from the accept to
\* the set and to its session, and only while the run is the live one.
LEMMA LoopKeeps ==
  ASSUME MaxClients \in Nat, MaxGeneration \in Nat, TcpInv,
         NEW r \in Runs, LoopStep(r)
  PROVE  TcpInv'
<1> USE DEF TcpInv
<1>0. /\ generation \in Nat /\ r \in Nat /\ \A q \in Runs : q \in Nat
      /\ loops \in [Runs -> [pc : {"none", "check", "arm", "accept", "aborted",
                                   "reserve", "spawn", "refused"},
                             sock : Sockets \cup {NoSocket}]]
  BY RunsAreNaturals DEF TypeOK
\* A loop with a place to be belongs to the live run or to an earlier one.
<1>1. ASSUME loops[r].pc # "none"
      PROVE  r <= generation /\ (r = generation => Live)
  BY <1>0, <1>1 DEF RunInv
\* The steps that hold no socket before or after.
<1>2. ASSUME NEW pc \in {"none", "check", "arm", "accept", "aborted", "refused"},
             loops[r].pc \notin Holding, loops[r].pc # "none",
             MoveLoop(r, pc, NoSocket),
             UNCHANGED <<running, generation, listening, main, sessions, sockets,
                         open, gone>>
      PROVE  TcpInv'
  <2>1. /\ \A q \in Runs \ {r} : loops'[q] = loops[q]
        /\ loops'[r].pc = pc /\ loops'[r].sock = NoSocket
    BY Zenon, <1>0, <1>2 DEF MoveLoop
  <2>2. TypeOK'
    BY Zenon, <1>0, <1>2 DEF TypeOK, MoveLoop
  <2>3. LoopInv'
    BY <1>2, <2>1 DEF LoopInv, Holding
  <2>4. SlotInv'
    BY <1>2, <2>1 DEF SlotInv, SlotLimit, OpenIsCounted, SlotIsHeld, Holding
  <2>5. RunInv'
    BY Zenon, <1>0, <1>1, <1>2, <2>1 DEF RunInv, Silent, Live
  <2> QED
    BY Zenon, <2>2, <2>3, <2>4, <2>5
<1>3. CASE LoopCheck(r) \/ LoopArm(r) \/ LoopAcceptFails(r) \/ LoopRefused(r)
  BY Zenon, <1>2, <1>3 DEF LoopCheck, LoopArm, LoopAcceptFails, LoopRefused, Holding
<1>4. ASSUME NEW s \in Sockets, LoopAccepts(r, s) PROVE TcpInv'
  <2>1. /\ loops[r].pc = "accept" /\ Unused(s)
        /\ MoveLoop(r, "reserve", s)
        /\ open' = open \cup {s} /\ gone' = gone \ {s}
        /\ UNCHANGED <<running, generation, listening, main, sessions, sockets>>
    BY Zenon, <1>4 DEF LoopAccepts
  <2>2. /\ \A q \in Runs \ {r} : loops'[q] = loops[q]
        /\ loops'[r].pc = "reserve" /\ loops'[r].sock = s
    BY Zenon, <1>0, <2>1 DEF MoveLoop
  <2>3. /\ s \notin open /\ s \notin sockets /\ sessions[s].pc = "none"
        /\ \A q \in Runs : loops[q].sock # s
    BY Zenon, <2>1 DEF Unused
  <2>4. s # NoSocket
    BY <1>0, <2>1, <2>3 DEF LoopInv, Holding
  <2>5. TypeOK'
    BY Zenon, <1>0, <2>1 DEF TypeOK, MoveLoop
  <2>6. LoopInv'
    BY <2>1, <2>2, <2>3, <2>4 DEF LoopInv, Holding
  <2>7. SlotInv'
    BY <2>1, <2>2 DEF SlotInv, SlotLimit, OpenIsCounted, SlotIsHeld
  <2>8. RunInv'
    BY Zenon, <1>0, <1>1, <2>1, <2>2 DEF RunInv, Silent, Live
  <2> QED
    BY Zenon, <2>5, <2>6, <2>7, <2>8
<1>5. CASE LoopReserve(r)
  <2> DEFINE s == loops[r].sock
  <2>0. /\ loops[r].pc = "reserve" /\ s \in Sockets /\ s \notin sockets
        /\ s # NoSocket /\ sessions[s].pc = "none"
        /\ \A q \in Runs \ {r} : loops[q].pc \in Holding => loops[q].sock # s
    BY Zenon, <1>5 DEF LoopReserve, LoopInv, Holding
  <2>1. CASE reserve(s, r)
    <3>1. /\ running /\ generation = r /\ Cardinality(sockets) < MaxClients
          /\ sockets' = sockets \cup {s} /\ MoveLoop(r, "spawn", s)
          /\ UNCHANGED <<running, generation, listening, main, sessions, open, gone>>
      BY Zenon, <1>5, <2>1 DEF LoopReserve, reserve, current
    <3>2. /\ \A q \in Runs \ {r} : loops'[q] = loops[q]
          /\ loops'[r].pc = "spawn" /\ loops'[r].sock = s
      BY Zenon, <1>0, <3>1 DEF MoveLoop
    <3>3. Live
      BY Zenon, <1>1, <2>0, <3>1
    <3>4. TypeOK'
      BY Zenon, <1>0, <2>0, <3>1 DEF TypeOK, MoveLoop
    <3> HIDE DEF s
    <3>5. LoopInv'
      BY <2>0, <3>1, <3>2 DEF LoopInv, Holding
    <3>6. IsFiniteSet(sockets') /\ SlotLimit'
      <4>1. IsFiniteSet(sockets) /\ Cardinality(sockets) \in Nat
        BY Zenon, FS_CardinalityType DEF SlotInv
      <4>2. /\ IsFiniteSet(sockets \cup {s})
            /\ Cardinality(sockets \cup {s}) = Cardinality(sockets) + 1
        BY Zenon, <2>0, <4>1, FS_AddElement
      <4> QED
        BY <3>1, <4>1, <4>2 DEF SlotLimit
    <3>7. OpenIsCounted' /\ SlotIsHeld'
      BY <2>0, <3>1, <3>2 DEF SlotInv, OpenIsCounted, SlotIsHeld, s
    <3>8. RunInv'
      BY <1>0, <1>1, <2>0, <3>1, <3>2, <3>3 DEF RunInv, Silent, Live, Holding
    <3> QED
      BY Zenon, <3>4, <3>5, <3>6, <3>7, <3>8 DEF SlotInv
  <2>2. CASE ~reserve(s, r)
    <3>1. /\ open' = open \ {s} /\ MoveLoop(r, "refused", NoSocket)
          /\ UNCHANGED <<running, generation, listening, main, sessions, sockets, gone>>
      BY Zenon, <1>5, <2>2 DEF LoopReserve
    <3>2. /\ \A q \in Runs \ {r} : loops'[q] = loops[q]
          /\ loops'[r].pc = "refused" /\ loops'[r].sock = NoSocket
      BY Zenon, <1>0, <3>1 DEF MoveLoop
    <3>3. TypeOK'
      BY Zenon, <1>0, <3>1 DEF TypeOK, MoveLoop
    <3>4. LoopInv'
      BY <3>1, <3>2 DEF LoopInv, Holding
    <3>5. SlotInv'
      BY <2>0, <3>1, <3>2 DEF SlotInv, SlotLimit, OpenIsCounted, SlotIsHeld
    <3>6. RunInv'
      BY <1>0, <1>1, <2>0, <3>1, <3>2 DEF RunInv, Silent, Live
    <3> QED
      BY Zenon, <3>3, <3>4, <3>5, <3>6
  <2> QED
    BY Zenon, <2>1, <2>2
<1>6. CASE LoopSpawn(r) \/ LoopSpawnFails(r)
  <2> DEFINE s == loops[r].sock
  <2>0. /\ loops[r].pc = "spawn" /\ s \in Sockets /\ sessions[s].pc = "none"
        /\ \A q \in Runs \ {r} : loops[q].pc \in Holding => loops[q].sock # s
        /\ MoveLoop(r, "check", NoSocket)
        /\ UNCHANGED <<running, generation, listening, main, gone>>
    BY Zenon, <1>6 DEF LoopSpawn, LoopSpawnFails, LoopInv, Holding
  <2>1. /\ \A q \in Runs \ {r} : loops'[q] = loops[q]
        /\ loops'[r].pc = "check" /\ loops'[r].sock = NoSocket
    BY Zenon, <1>0, <2>0 DEF MoveLoop
  <2>2. CASE LoopSpawn(r)
    <3>1. /\ sessions' = [sessions EXCEPT ![s] = [pc |-> "check", run |-> r]]
          /\ UNCHANGED <<sockets, open>>
      BY Zenon, <2>2 DEF LoopSpawn
    <3>2. /\ \A t \in Sockets \ {s} : sessions'[t] = sessions[t]
          /\ sessions'[s].pc = "check" /\ sessions'[s].run = r
      BY Zenon, <2>0, <3>1 DEF TypeOK
    <3>3. TypeOK'
      BY Zenon, <1>0, <2>0, <3>1 DEF TypeOK, MoveLoop
    <3>4. sockets \subseteq Sockets
      BY Zenon DEF TypeOK
    <3> HIDE DEF s
    <3>5. LoopInv'
      BY <2>0, <2>1, <3>1, <3>2 DEF LoopInv, Holding
    <3>6. SlotInv'
      BY <2>0, <2>1, <3>1, <3>2, <3>4
      DEF SlotInv, SlotLimit, OpenIsCounted, SlotIsHeld, s
    <3>7. RunInv'
      BY <1>0, <1>1, <2>0, <2>1, <3>1, <3>2, <3>4 DEF RunInv, Silent, Live, s
    <3> QED
      BY Zenon, <3>3, <3>5, <3>6, <3>7
  <2>3. CASE LoopSpawnFails(r)
    <3>1. sockets' = sockets \ {s} /\ open' = open \ {s} /\ sessions' = sessions
      BY Zenon, <2>3 DEF LoopSpawnFails, release
    <3>2. TypeOK'
      BY Zenon, <1>0, <2>0, <3>1 DEF TypeOK, MoveLoop
    <3>3. LoopInv'
      BY <2>0, <2>1, <3>1 DEF LoopInv, Holding
    <3>4. IsFiniteSet(sockets') /\ SlotLimit'
      <4>1. /\ IsFiniteSet(sockets)
            /\ Cardinality(sockets) \in Nat /\ Cardinality(sockets) <= MaxClients
        BY Zenon, FS_CardinalityType DEF SlotInv, SlotLimit
      <4>2. /\ IsFiniteSet(sockets \ {s})
            /\ Cardinality(sockets \ {s}) <= Cardinality(sockets)
            /\ Cardinality(sockets \ {s}) \in Nat
        BY Zenon, <4>1, FS_Subset, FS_CardinalityType
      <4> HIDE DEF s
      <4> QED
        BY <3>1, <4>1, <4>2 DEF SlotLimit
    <3>5. OpenIsCounted' /\ SlotIsHeld'
      BY <2>0, <2>1, <3>1 DEF SlotInv, OpenIsCounted, SlotIsHeld
    <3>6. RunInv'
      BY <1>0, <1>1, <2>0, <2>1, <3>1 DEF RunInv, Silent, Live
    <3> QED
      BY Zenon, <3>2, <3>3, <3>4, <3>5, <3>6 DEF SlotInv
  <2> QED
    BY Zenon, <1>6, <2>2, <2>3
<1> QED
  BY Zenon, <1>3, <1>4, <1>5, <1>6 DEF LoopStep

-----------------------------------------------------------------------------
\* session(socket, run) keeps the invariant: it moves on, or its Guard gives
\* back the slot and the connection together.
LEMMA SessionKeeps ==
  ASSUME MaxClients \in Nat, MaxGeneration \in Nat, TcpInv,
         NEW s \in Sockets, SessionStep(s) \/ HangUp(s)
  PROVE  TcpInv'
<1> USE DEF TcpInv
<1>0. /\ sockets \subseteq Sockets
      /\ sessions \in [Sockets -> [pc : {"none", "check", "read", "write"},
                                   run : {0} \cup Runs]]
  BY Zenon DEF TypeOK
<1>1. ASSUME NEW pc \in {"check", "read", "write"}, MoveSession(s, pc),
             sessions[s].pc # "none",
             UNCHANGED <<running, generation, listening, main, loops, sockets,
                         open, gone>>
      PROVE  TcpInv'
  <2>1. /\ \A t \in Sockets \ {s} : sessions'[t] = sessions[t]
        /\ sessions'[s].pc = pc /\ sessions'[s].run = sessions[s].run
    BY Zenon, <1>0, <1>1 DEF MoveSession
  <2>2. TypeOK'
    BY Zenon, <1>0, <1>1 DEF TypeOK, MoveSession
  <2>3. LoopInv'
    BY Zenon, <1>1, <2>1 DEF LoopInv
  <2>4. SlotInv'
    BY <1>0, <1>1, <2>1 DEF SlotInv, SlotLimit, OpenIsCounted, SlotIsHeld
  <2>5. RunInv'
    BY <1>0, <1>1, <2>1 DEF RunInv, Silent, Live
  <2> QED
    BY Zenon, <2>2, <2>3, <2>4, <2>5
<1>2. ASSUME SessionEnds(s), sessions[s].pc # "none" PROVE TcpInv'
  <2>1. /\ sockets' = sockets \ {s} /\ open' = open \ {s}
        /\ sessions' = [sessions EXCEPT ![s] = Idle]
        /\ UNCHANGED <<running, generation, listening, main, loops, gone>>
    BY Zenon, <1>2 DEF SessionEnds, release
  <2>2. /\ \A t \in Sockets \ {s} : sessions'[t] = sessions[t]
        /\ sessions'[s].pc = "none"
    BY Zenon, <1>0, <2>1 DEF Idle
  <2>3. TypeOK'
    BY Zenon, <1>0, <2>1 DEF TypeOK, Idle
  <2>4. LoopInv'
    BY <2>1, <2>2 DEF LoopInv
  <2>5. IsFiniteSet(sockets') /\ SlotLimit'
    <3>1. /\ IsFiniteSet(sockets)
          /\ Cardinality(sockets) \in Nat /\ Cardinality(sockets) <= MaxClients
      BY Zenon, FS_CardinalityType DEF SlotInv, SlotLimit
    <3>2. /\ IsFiniteSet(sockets \ {s})
          /\ Cardinality(sockets \ {s}) <= Cardinality(sockets)
          /\ Cardinality(sockets \ {s}) \in Nat
      BY Zenon, <3>1, FS_Subset, FS_CardinalityType
    <3> QED
      BY <2>1, <3>1, <3>2 DEF SlotLimit
  <2>6. OpenIsCounted' /\ SlotIsHeld'
    BY <1>0, <2>1, <2>2 DEF SlotInv, OpenIsCounted, SlotIsHeld
  <2>7. RunInv'
    BY Zenon, <1>0, <2>1, <2>2 DEF RunInv, Silent, Live
  <2> QED
    BY Zenon, <2>3, <2>4, <2>5, <2>6, <2>7 DEF SlotInv
<1>3. CASE SessionCheck(s)
  BY Zenon, <1>1, <1>2, <1>3 DEF SessionCheck
<1>4. CASE SessionReads(s) \/ SessionWrites(s)
  BY Zenon, <1>1, <1>4 DEF SessionReads, SessionWrites
<1>5. CASE SessionRejects(s) \/ SessionFails(s)
  BY Zenon, <1>2, <1>5 DEF SessionRejects, SessionFails
<1>6. CASE HangUp(s)
  <2>1. TypeOK'
    BY Zenon, <1>6 DEF HangUp, TypeOK
  <2>2. LoopInv' /\ RunInv' /\ SlotInv'
    BY <1>6 DEF HangUp, LoopInv, RunInv, Silent, Live, SlotInv, SlotLimit,
                OpenIsCounted, SlotIsHeld
  <2> QED
    BY Zenon, <2>1, <2>2
<1> QED
  BY Zenon, <1>3, <1>4, <1>5, <1>6 DEF SessionStep

-----------------------------------------------------------------------------
\* Every step keeps the invariant.
LEMMA TcpStep ==
  ASSUME MaxClients \in Nat, MaxGeneration \in Nat
  PROVE  TcpInv /\ [Next]_vars => TcpInv'
<1>1. ASSUME TcpInv, UNCHANGED vars PROVE TcpInv'
  BY <1>1 DEF vars, TcpInv, TypeOK, LoopInv, RunInv, Silent, Live, SlotInv,
              SlotLimit, OpenIsCounted, SlotIsHeld
<1> QED
  BY Zenon, <1>1, LifecycleKeeps, LoopKeeps, SessionKeeps DEF Next

\* The slots that the invariant describes belong to the live run.
LEMMA SlotsOfTheLiveRun ==
  ASSUME TcpInv
  PROVE  SlotsAreSound
<1> USE DEF TcpInv
<1>1. ASSUME main = "idle", running, NEW s \in sockets
      PROVE  RunOf(s) = generation
  <2>1. CASE sessions[s].pc # "none"
    BY Zenon, <1>1, <2>1 DEF RunInv, Live, RunOf
  <2>2. CASE sessions[s].pc = "none"
    <3>1. PICK r \in Runs : loops[r].pc = "spawn" /\ loops[r].sock = s
      BY Zenon, <2>2 DEF SlotInv, SlotIsHeld
    <3>2. r = generation
      BY Zenon, <1>1, <3>1 DEF RunInv, Live
    <3>3. \A q \in Runs : loops[q].sock = s => q = r
      <4> SUFFICES ASSUME NEW q \in Runs, loops[q].sock = s PROVE q = r
        BY Zenon
      <4>1. CASE s = NoSocket
        BY Zenon, <3>1, <4>1 DEF LoopInv, Holding
      <4>2. CASE s # NoSocket
        <5>1. loops[q].pc \in Holding
          BY Zenon, <4>2 DEF LoopInv
        <5> QED
          BY <3>1, <5>1 DEF LoopInv, Holding
      <4> QED
        BY Zenon, <4>1, <4>2
    <3>4. RunOf(s) = CHOOSE q \in Runs : loops[q].sock = s
      BY Zenon, <2>2 DEF RunOf
    <3> QED
      BY Zenon, <3>1, <3>2, <3>3, <3>4
  <2> QED
    BY Zenon, <2>1, <2>2
<1>2. StaleRunsHoldNoSlot
  BY Zenon, <1>1 DEF StaleRunsHoldNoSlot, RunInv, Silent
<1> QED
  BY Zenon, <1>2 DEF SlotsAreSound, SlotInv

\* Whatever the order in which accepts, hang-ups, stops and restarts fall: no
\* more than maximum_clients connections are admitted, every open connection
\* is counted, every slot has a coroutine that gives it back, and none is held
\* by a run that is over (tcp_server.cpp, reserve, release, start, stop,
\* accept_loop, session).
THEOREM SlotsCorrect ==
  ASSUME MaxClients \in Nat, MaxGeneration \in Nat
  PROVE  Spec => []SlotsAreSound
<1>1. Init => TcpInv
  BY Zenon, TcpInit
<1>2. TcpInv /\ [Next]_vars => TcpInv'
  BY Zenon, TcpStep
<1>3. TcpInv => SlotsAreSound
  BY Zenon, SlotsOfTheLiveRun
<1> QED
  BY <1>1, <1>2, <1>3, PTL DEF Spec
=============================================================================
