-------------------------- MODULE MqttPublications --------------------------
(***************************************************************************)
(* One publication of the MQTT publisher and the three threads that touch    *)
(* it: the I/O thread runs its timer and publishes, the settings watcher      *)
(* connects and replays what is pending, and the main thread replaces the     *)
(* configuration.  main and watcher exclude each other (runtime_mutex_); the   *)
(* I/O thread holds nothing while the broker answers.                        *)
(*                                                                          *)
(* A reconfiguration replaces the Publication object: objects are numbered,  *)
(* and a payload carries its object, whose topic it goes to.                 *)
(***************************************************************************)
EXTENDS Naturals, Sequences

CONSTANTS MaxConfigs,   \* bound: configurations after the first
          MaxSnapshots, \* bound: timer ticks that publish
          MaxLosses,    \* bound: broken connections, lost answers
          ReconnectMin, ReconnectMax

VARIABLES
    objects,   \* [current, running, timers]: publications_, running_, the timers
    pending,   \* pending_ of the publication: a payload or None
    client,    \* the Paho client: its generation, state and posted handlers, and
               \* the generation of the last client that connected
    link,      \* the TCP connection the broker sees
    io, watcher, main,   \* the threads
    delay,     \* reconnect_delay_
    newest,    \* the newest payload of each object
    delivered, \* payloads the broker has received, latest last, and all
    left       \* configurations, ticks and losses still to come

vars == <<objects, pending, client, link, io, watcher, main, delay, newest, delivered, left>>

None == [seq |-> 0, object |-> 0]
Idle == [at |-> "idle"]
Objects == 0..MaxConfigs

Init ==
    /\ objects = [current |-> 0, running |-> TRUE,
                  timers |-> [o \in Objects |-> IF o = 0 THEN "armed" ELSE "off"]]
    /\ pending = None
    /\ client = [generation |-> 1, state |-> "disconnected", posted |-> <<>>, made |-> 0]
    /\ link = 0
    /\ io = Idle /\ watcher = Idle /\ main = Idle
    /\ delay = ReconnectMin
    /\ newest = [o \in Objects |-> 0]
    /\ delivered = [last |-> None, all |-> {}]
    /\ left = [configs |-> MaxConfigs, ticks |-> MaxSnapshots, losses |-> MaxLosses]

Received(p) == [last |-> p, all |-> delivered.all \cup {p.seq}]
Erased(p) == IF pending = p THEN None ELSE pending

-----------------------------------------------------------------------------
(* The I/O thread.                                                          *)

\* A timer expires: its handler is queued and can no longer be cancelled.
Expire(o) ==
    /\ objects.timers[o] = "armed" /\ left.ticks > 0
    /\ objects' = [objects EXCEPT !.timers[o] = "queued"]
    /\ UNCHANGED <<pending, client, link, io, watcher, main, delay, newest, delivered, left>>

\* The handler takes a snapshot and makes it the pending payload.
Fire(o) ==
    /\ io.at = "idle" /\ objects.timers[o] = "queued" /\ objects.running /\ left.ticks > 0
    /\ LET p == [seq |-> MaxSnapshots - left.ticks + 1, object |-> o]
       IN  /\ pending' = p
           /\ newest' = [newest EXCEPT ![o] = p.seq]
           /\ io' = [at |-> "publish", payload |-> p]
    /\ objects' = [objects EXCEPT !.timers[o] = "off"]
    /\ left' = [left EXCEPT !.ticks = @ - 1]
    /\ UNCHANGED <<client, link, watcher, main, delay, delivered>>

\* There is no snapshot: nothing is published and the timer is armed again.
FireWithoutSnapshot(o) ==
    /\ io.at = "idle" /\ objects.timers[o] = "queued" /\ objects.running /\ left.losses > 0
    /\ objects' = [objects EXCEPT !.timers[o] = "armed"]
    /\ left' = [left EXCEPT !.losses = @ - 1]
    /\ UNCHANGED <<pending, client, link, io, watcher, main, delay, newest, delivered>>

\* The handler finds the scheduler stopped.
FireStopped(o) ==
    /\ io.at = "idle" /\ objects.timers[o] = "queued" /\ ~objects.running
    /\ objects' = [objects EXCEPT !.timers[o] = "off"]
    /\ UNCHANGED <<pending, client, link, io, watcher, main, delay, newest, delivered, left>>

Rearmed(ok) == [objects EXCEPT !.timers[io.payload.object] = "armed"]

\* Not connected: the payload stays pending and the timer is armed again.
PublishOffline ==
    /\ io.at = "publish" /\ client.state # "connected"
    /\ io' = Idle /\ objects' = Rearmed(FALSE)
    /\ UNCHANGED <<pending, client, link, watcher, main, delay, newest, delivered, left>>

\* The client is called; it answers later.
PublishBegins ==
    /\ io.at = "publish" /\ client.state = "connected"
    /\ io' = [io EXCEPT !.at = "answer"]
    /\ UNCHANGED <<objects, pending, client, link, watcher, main, delay, newest, delivered, left>>

PublishAnswered ==
    /\ io.at = "answer" /\ link # 0
    /\ delivered' = Received(io.payload)
    /\ pending' = Erased(io.payload)
    /\ io' = Idle /\ objects' = Rearmed(TRUE)
    /\ UNCHANGED <<client, link, watcher, main, delay, newest, left>>

\* The answer does not come in time, or the connection is gone.
PublishFails ==
    /\ io.at = "answer" /\ (link = 0 \/ left.losses > 0)
    /\ left' = [left EXCEPT !.losses = IF link = 0 THEN @ ELSE @ - 1]
    /\ delivered' \in {delivered} \cup IF link = 0 THEN {} ELSE {Received(io.payload)}
    /\ client' = [client EXCEPT !.state = "reconnecting"]
    /\ io' = Idle /\ objects' = Rearmed(FALSE)
    /\ UNCHANGED <<pending, link, watcher, main, delay, newest>>

\* A posted connection handler: that of a replaced client changes nothing.
Handled(h) ==
    [client EXCEPT !.posted = Tail(@),
                   !.state = IF h.generation # client.generation THEN @
                             ELSE IF h.up THEN "connected" ELSE "reconnecting"]

Handle ==
    /\ io.at = "idle" /\ client.posted # <<>>
    /\ client' = Handled(Head(client.posted))
    /\ UNCHANGED <<objects, pending, link, io, watcher, main, delay, newest, delivered, left>>

-----------------------------------------------------------------------------
(* The watcher: try_connect, every 200 ms.                                  *)

Unlocked == main.at = "idle" /\ watcher.at = "idle"

\* connect succeeds; Paho also posts its connected handler.
Connect ==
    /\ Unlocked /\ client.state # "connected" /\ link = 0
    /\ link' = client.generation
    /\ client' = [client EXCEPT !.state = "connected",
                                !.made = client.generation,
                                !.posted = Append(@, [generation |-> client.generation, up |-> TRUE])]
    /\ delay' = ReconnectMin
    /\ watcher' = [at |-> "copy"]
    /\ UNCHANGED <<objects, pending, io, main, newest, delivered, left>>

\* The broker is still there: Paho takes the connection as it is.
Reconnect ==
    /\ Unlocked /\ client.state # "connected" /\ link = client.generation
    /\ client' = [client EXCEPT !.state = "connected"]
    /\ delay' = ReconnectMin
    /\ watcher' = [at |-> "copy"]
    /\ UNCHANGED <<objects, pending, link, io, main, newest, delivered, left>>

Backoff == IF delay * 2 < ReconnectMax THEN delay * 2 ELSE ReconnectMax

\* The attempt fails: the next one waits twice as long, up to the maximum.
ConnectFails ==
    /\ Unlocked /\ client.state # "connected" /\ left.losses > 0
    /\ left' = [left EXCEPT !.losses = @ - 1]
    /\ client' = [client EXCEPT !.state = "reconnecting"]
    /\ delay' = Backoff
    /\ UNCHANGED <<objects, pending, link, io, watcher, main, newest, delivered>>

\* Connected already: what is pending is replayed.
Poll ==
    /\ Unlocked /\ client.state = "connected"
    /\ watcher' = [at |-> "copy"]
    /\ UNCHANGED <<objects, pending, client, link, io, main, delay, newest, delivered, left>>

\* flush_pending copies the map under the lock and publishes the copy.
FlushCopies ==
    /\ watcher.at = "copy"
    /\ watcher' = IF pending = None THEN Idle ELSE [at |-> "flush", payload |-> pending]
    /\ UNCHANGED <<objects, pending, client, link, io, main, delay, newest, delivered, left>>

\* A variant that clears the entry whatever it holds now.
ErasedAny(p) == None

Settled(p) == Erased(p)

FlushAnswered ==
    /\ watcher.at = "flush" /\ client.state = "connected" /\ link # 0
    /\ delivered' = Received(watcher.payload)
    /\ pending' = Settled(watcher.payload)
    /\ watcher' = Idle
    /\ UNCHANGED <<objects, client, link, io, main, delay, newest, left>>

FlushFails ==
    /\ watcher.at = "flush" /\ (client.state # "connected" \/ link = 0)
    /\ client' = IF client.state = "connected"
                 THEN [client EXCEPT !.state = "reconnecting"] ELSE client
    /\ watcher' = Idle
    /\ UNCHANGED <<objects, pending, link, io, main, delay, newest, delivered, left>>

\* The broker or the network drops the connection; Paho posts its handler.
Lose ==
    /\ link # 0 /\ left.losses > 0
    /\ left' = [left EXCEPT !.losses = @ - 1]
    /\ client' = [client EXCEPT !.posted = Append(@, [generation |-> link, up |-> FALSE])]
    /\ link' = 0
    /\ UNCHANGED <<objects, pending, io, watcher, main, delay, newest, delivered>>

-----------------------------------------------------------------------------
(* The main thread: apply.                                                  *)

Cancelled(t) == [o \in Objects |-> IF o = objects.current /\ t[o] = "armed" THEN "off" ELSE t[o]]

\* The scheduler stops and the client is disconnected.
Stop ==
    /\ Unlocked /\ left.configs > 0
    /\ left' = [left EXCEPT !.configs = @ - 1]
    /\ objects' = [objects EXCEPT !.running = FALSE, !.timers = Cancelled(@)]
    /\ client' = [client EXCEPT !.generation = @ + 1, !.state = "disconnected"]
    /\ link' = 0
    /\ main' = [at |-> "configure"]
    /\ UNCHANGED <<pending, io, watcher, delay, newest, delivered>>

\* The new client, then the new publications; pending_ is cleared.
Configure ==
    /\ main.at = "configure"
    /\ client' = [client EXCEPT !.generation = @ + 1, !.state = "disconnected"]
    /\ objects' = [objects EXCEPT !.current = @ + 1, !.timers = Cancelled(@)]
    /\ pending' = None
    /\ main' = [at |-> "start"]
    /\ UNCHANGED <<link, io, watcher, delay, newest, delivered, left>>

Start ==
    /\ main.at = "start"
    /\ objects' = [objects EXCEPT !.running = TRUE, !.timers[objects.current] = "armed"]
    /\ delay' = ReconnectMin
    /\ main' = Idle
    /\ UNCHANGED <<pending, client, link, io, watcher, newest, delivered, left>>

-----------------------------------------------------------------------------

IoStep == \/ \E o \in Objects : Fire(o) \/ FireWithoutSnapshot(o) \/ FireStopped(o)
          \/ PublishOffline \/ PublishBegins \/ PublishAnswered \/ PublishFails \/ Handle
WatcherStep == Connect \/ Reconnect \/ Poll \/ FlushCopies \/ FlushAnswered \/ FlushFails
MainStep == Configure \/ Start

Next ==
    \/ \E o \in Objects : Expire(o)
    \/ IoStep \/ WatcherStep \/ MainStep
    \/ Stop \/ ConnectFails \/ Lose

\* The threads run; timers expire.
Fairness ==
    /\ \A o \in Objects : WF_vars(Expire(o)) /\ WF_vars(Fire(o) \/ FireWithoutSnapshot(o) \/ FireStopped(o))
    /\ WF_vars(PublishOffline \/ PublishBegins \/ PublishAnswered \/ PublishFails)
    /\ SF_vars(Handle)
    /\ WF_vars(WatcherStep) /\ WF_vars(MainStep)

Spec == Init /\ [][Next]_vars /\ Fairness

-----------------------------------------------------------------------------
(* Properties.                                                              *)

\* meter_publication_scheduler.cpp publish_once and flush_pending: the newest
\* payload of the configured publication is kept until the broker has it, however
\* the replay of an older one interleaves with the timer.
NewestRetained ==
    LET n == newest[objects.current]
    IN  n # 0 => n \in delivered.all \/ pending = [seq |-> n, object |-> objects.current]

\* schedule: outside a reconfiguration the configured publication's timer is
\* armed, expired, or its payload is being published: it never stops ticking.
KeepsTicking ==
    main.at = "idle" =>
        \/ objects.timers[objects.current] \in {"armed", "queued"}
        \/ io.at # "idle" /\ io.payload.object = objects.current

\* paho_mqtt_client.cpp: a client that was never connected is not taken for
\* connected because of a handler its predecessor had posted.
ConnectedIsOwn == client.state = "connected" => client.made = client.generation

\* try_connect: the delay stays between the configured bounds.
DelayBounded == delay \in ReconnectMin..ReconnectMax
=============================================================================
