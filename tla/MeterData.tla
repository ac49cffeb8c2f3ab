----------------------------- MODULE MeterData -----------------------------
(***************************************************************************)
(* The in-process latest-value service of the acquisition daemon: the      *)
(* MeterLatestStore with one slot per measurement period, and MeterData,   *)
(* which hands every new view to the subscribers of its period             *)
(* (common/msap1/meter/meter_data.cpp).                                    *)
(*                                                                         *)
(* Three kinds of thread run against each other: the one ingestion thread  *)
(* that calls MeterData::apply, one worker thread per subscriber that runs *)
(* its callback, and the owners that destroy their Subscription tokens.    *)
(* Each critical section of the code is one action.  A Subscriber object   *)
(* is shared by the map, by the destructor of the token and by the vector  *)
(* apply copies; the thread that drops the last reference destroys it, and *)
(* its jthread member then joins the worker.                               *)
(***************************************************************************)
EXTENDS Naturals, FiniteSets

CONSTANTS Subs,           \* subscriptions; an identifier is never reused
          Periods,        \* measurement periods
          PeriodOf,       \* the period each subscription asks for
          Groups,         \* value groups a sparse update may carry
          MaxSequence,    \* bound on the record sequence of a period
          MaxLag,         \* a record is at most this far behind the next sequence
          MaxGeneration,  \* bound on configuration swaps
          SwapResets      \* whether a swap may restart the PL's sequences

VARIABLES
    source,     \* the PL: its configuration generation, each period's next
                \* sequence, and the first one of this generation
    views,      \* MeterLatestStore::views_; sequence 0 is the empty slot
    applier,    \* the ingestion thread inside MeterData::apply
    owner,      \* where each subscription's token is in its life
    accepting,  \* Subscriber::accepting
    pending,    \* Subscriber::pending; NoView when it is empty
    worker,     \* Subscriber::run
    delivered   \* the view the callback was last given

subscriber == <<owner, accepting, pending, worker, delivered>>
vars == <<source, views, applier, owner, accepting, pending, worker, delivered>>

----------------------------------------------------------------------------
Sequences == 0 .. MaxSequence
Generations == 1 .. MaxGeneration
View == [period : Periods, sequence : Sequences, generation : 0 .. MaxGeneration]
NoView == [sequence |-> 0]

TypeOK ==
    /\ source \in [generation : Generations,
                   next : [Periods -> 1 .. MaxSequence + 1],
                   since : [Periods -> 1 .. MaxSequence + 1]]
    /\ views \in [Periods -> [sequence : Sequences, generation : 0 .. MaxGeneration,
                              from : [Groups -> Sequences]]]
    /\ applier \in [pc : {"idle", "read", "publish", "release"},
                    view : View \cup {NoView},
                    held : SUBSET Subs, todo : SUBSET Subs]
    /\ owner \in [Subs -> {"none", "live", "erased", "stopped", "joining", "returned"}]
    /\ accepting \in [Subs -> BOOLEAN]
    /\ pending \in [Subs -> View \cup {NoView}]
    /\ worker \in [Subs -> {"off", "waiting", "took", "calling", "ended"}]
    /\ delivered \in [Subs -> View \cup {NoView}]

Idle == [pc |-> "idle", view |-> NoView, held |-> {}, todo |-> {}]

Init ==
    /\ source = [generation |-> 1, next |-> [p \in Periods |-> 1],
                 since |-> [p \in Periods |-> 1]]
    /\ views = [p \in Periods |-> [sequence |-> 0, generation |-> 0,
                                   from |-> [g \in Groups |-> 0]]]
    /\ applier = Idle
    /\ owner = [s \in Subs |-> "none"]
    /\ accepting = [s \in Subs |-> FALSE]
    /\ pending = [s \in Subs |-> NoView]
    /\ worker = [s \in Subs |-> "off"]
    /\ delivered = [s \in Subs |-> NoView]

----------------------------------------------------------------------------
(* The ingestion thread.                                                   *)

(* A configuration swap: the PL may restart its sequences.  The store is   *)
(* not told.                                                               *)
Reconfigure ==
    /\ applier.pc = "idle"
    /\ source.generation < MaxGeneration
    /\ \E next \in {source.next} \cup
                   (IF SwapResets THEN {[p \in Periods |-> 1]} ELSE {}) :
          source' = [generation |-> source.generation + 1, next |-> next, since |-> next]
    /\ UNCHANGED <<views, applier, subscriber>>

(* A variant of Stored that stores an update whatever its sequence.        *)
StoredAlways(slot, n, generation, group) ==
    [sequence |-> n, generation |-> generation,
     from |-> [slot.from EXCEPT ![group] = n]]

(* MeterLatestStore::apply: an update behind the slot's sequence is        *)
(* dropped, any other one replaces the groups it carries.                  *)
Stored(slot, n, generation, group) ==
    IF n < slot.sequence
    THEN slot
    ELSE [sequence |-> n, generation |-> generation,
          from |-> [slot.from EXCEPT ![group] = n]]

ViewOf(p) == [period |-> p, sequence |-> views[p].sequence,
              generation |-> views[p].generation]

(* apply stores an update: the first record of the next block, or a        *)
(* sibling record of an earlier one, up to MaxLag blocks late.  It reads   *)
(* the view back at once: ingestion is the only writer of the store.       *)
StoreApply ==
    /\ applier.pc = "idle"
    /\ \E p \in Periods, group \in Groups :
          \E n \in source.since[p] .. MaxSequence :
             /\ source.next[p] \in n .. n + MaxLag
             /\ views' = [views EXCEPT ![p] = Stored(@, n, source.generation, group)]
             /\ source' = [source EXCEPT !.next[p] = IF n = @ THEN n + 1 ELSE @]
             /\ applier' = [applier EXCEPT !.pc = "read", !.view = ViewOf(p)']
    /\ UNCHANGED subscriber

MatchingSubscribers(p) == {s \in Subs : owner[s] = "live" /\ PeriodOf[s] = p}

(* apply copies the subscribers of the period under the map's mutex.       *)
CopySubscribers ==
    /\ applier.pc = "read"
    /\ LET held == MatchingSubscribers(applier.view.period) IN
          applier' = IF held = {}
                     THEN Idle
                     ELSE [applier EXCEPT !.pc = "publish", !.held = held, !.todo = held]
    /\ UNCHANGED <<source, views, subscriber>>

(* Subscriber::publish: an unread view is replaced.                        *)
Publish(s) ==
    /\ applier.pc = "publish"
    /\ s \in applier.todo
    /\ pending' = IF accepting[s] THEN [pending EXCEPT ![s] = applier.view] ELSE pending
    /\ applier' = [applier EXCEPT !.todo = @ \ {s},
                                  !.pc = IF applier.todo = {s} THEN "release" ELSE @]
    /\ UNCHANGED <<source, views, owner, accepting, worker, delivered>>

(* The subscriber is held by nobody but the vector of apply: the token was *)
(* destroyed while apply ran.                                              *)
LastReference(s) == owner[s] = "returned"

(* apply returns and its vector lets go of the subscribers.  Where that is *)
(* the last reference, ~Subscriber joins the worker on this thread.        *)
Release(s) ==
    /\ applier.pc = "release"
    /\ s \in applier.held
    /\ LastReference(s) => worker[s] = "ended"
    /\ applier' = IF applier.held = {s} THEN Idle
                  ELSE [applier EXCEPT !.held = @ \ {s}]
    /\ UNCHANGED <<source, views, subscriber>>

----------------------------------------------------------------------------
(* The owner of a subscription.                                            *)

(* MeterData::subscribe: the constructor starts the worker.                *)
Subscribe(s) ==
    /\ owner[s] = "none"
    /\ owner' = [owner EXCEPT ![s] = "live"]
    /\ accepting' = [accepting EXCEPT ![s] = TRUE]
    /\ worker' = [worker EXCEPT ![s] = "waiting"]
    /\ UNCHANGED <<source, views, applier, pending, delivered>>

(* ~Subscription takes the subscriber out of the map.                      *)
Erase(s) ==
    /\ owner[s] = "live"
    /\ owner' = [owner EXCEPT ![s] = "erased"]
    /\ UNCHANGED <<source, views, applier, accepting, pending, worker, delivered>>

(* Subscriber::stop.                                                       *)
Stop(s) ==
    /\ owner[s] = "erased"
    /\ owner' = [owner EXCEPT ![s] = "stopped"]
    /\ accepting' = [accepting EXCEPT ![s] = FALSE]
    /\ pending' = [pending EXCEPT ![s] = NoView]
    /\ UNCHANGED <<source, views, applier, worker, delivered>>

(* ~Subscription drops its reference: it destroys the subscriber unless    *)
(* apply still holds it.                                                   *)
DropReference(s) ==
    /\ owner[s] = "stopped"
    /\ owner' = [owner EXCEPT ![s] = IF s \in applier.held THEN "returned" ELSE "joining"]
    /\ UNCHANGED <<source, views, applier, accepting, pending, worker, delivered>>

(* ~jthread on the owner's thread.                                         *)
Join(s) ==
    /\ owner[s] = "joining"
    /\ worker[s] = "ended"
    /\ owner' = [owner EXCEPT ![s] = "returned"]
    /\ UNCHANGED <<source, views, applier, accepting, pending, worker, delivered>>

----------------------------------------------------------------------------
(* The worker of a subscription, Subscriber::run.                          *)

(* Its wait ends: it leaves when the subscription was stopped, and takes   *)
(* the unread view otherwise.                                              *)
Take(s) ==
    /\ worker[s] = "waiting"
    /\ \/ /\ ~accepting[s]
          /\ worker' = [worker EXCEPT ![s] = "ended"]
          /\ UNCHANGED <<pending, delivered>>
       \/ /\ accepting[s]
          /\ pending[s] # NoView
          /\ worker' = [worker EXCEPT ![s] = "took"]
          /\ delivered' = [delivered EXCEPT ![s] = pending[s]]
          /\ pending' = [pending EXCEPT ![s] = NoView]
    /\ UNCHANGED <<source, views, applier, owner, accepting>>

(* The callback begins, outside the lock.                                  *)
Call(s) ==
    /\ worker[s] = "took"
    /\ worker' = [worker EXCEPT ![s] = "calling"]
    /\ UNCHANGED <<source, views, applier, owner, accepting, pending, delivered>>

(* The callback returns or throws, which is swallowed.                     *)
Return(s) ==
    /\ worker[s] = "calling"
    /\ worker' = [worker EXCEPT ![s] = "waiting"]
    /\ UNCHANGED <<source, views, applier, owner, accepting, pending, delivered>>

----------------------------------------------------------------------------
ApplyStep == CopySubscribers \/ \E s \in Subs : Publish(s) \/ Release(s)
OwnerStep(s) == Stop(s) \/ DropReference(s) \/ Join(s)
WorkerStep(s) == Take(s) \/ Call(s) \/ Return(s)

Next ==
    \/ Reconfigure \/ StoreApply \/ ApplyStep
    \/ \E s \in Subs : Subscribe(s) \/ Erase(s) \/ OwnerStep(s) \/ WorkerStep(s)

Spec == Init /\ [][Next]_vars

(* The three kinds of thread run, and every callback returns ("Keep this   *)
(* callback short and non-blocking").  Nothing forces records, or the      *)
(* creation or destruction of subscriptions, to happen.                    *)
Fairness ==
    /\ WF_vars(ApplyStep)
    /\ \A s \in Subs : WF_vars(OwnerStep(s)) /\ WF_vars(WorkerStep(s))

----------------------------------------------------------------------------
(* A worker never outlives the Subscriber object its loop runs in: once    *)
(* neither the token nor apply holds the object, its thread has ended.     *)
WorkerInsideSubscriber ==
    \A s \in Subs : owner[s] = "returned" /\ s \notin applier.held => worker[s] = "ended"

(* A subscriber is given views of the period it asked for and no other.    *)
OwnPeriodOnly ==
    \A s \in Subs : delivered[s] # NoView => delivered[s].period = PeriodOf[s]

(* What a callback sees never goes back in time, although late siblings    *)
(* reach apply and an unread view may be replaced.                         *)
NeverGoesBack ==
    [][\A s \in Subs : delivered'[s].sequence >= delivered[s].sequence]_vars

(* No value group of a view is newer than the view's own sequence, and the *)
(* view a subscriber holds is never ahead of the store.                    *)
NotAheadOfStore ==
    /\ \A p \in Periods, g \in Groups : views[p].from[g] <= views[p].sequence
    /\ \A s \in Subs : delivered[s] # NoView =>
          delivered[s].sequence <= views[delivered[s].period].sequence

(* A view handed to a subscriber reaches its callback, or a newer one      *)
(* does, unless the subscription ends.                                     *)
NewestArrives ==
    \A s \in Subs, n \in 1 .. MaxSequence :
       (accepting[s] /\ pending[s].sequence = n)
          ~> (delivered[s].sequence >= n \/ ~accepting[s])

(* apply always returns to the ingestion thread once callbacks return.     *)
ApplyReturns == (applier.pc # "idle") ~> (applier.pc = "idle")

(* Destroying a subscription token always returns.                         *)
UnsubscribeReturns == \A s \in Subs : (owner[s] = "erased") ~> (owner[s] = "returned")

----------------------------------------------------------------------------
\* The subscriptions: a subscriber never sees time go back nor another period,
\* no view is ahead of the store, and a worker ends with its subscription
\* (meter_data.cpp).
SubscriptionsAreSound ==
    /\ [](WorkerInsideSubscriber /\ OwnPeriodOnly /\ NotAheadOfStore)
    /\ NeverGoesBack
============================================================================
