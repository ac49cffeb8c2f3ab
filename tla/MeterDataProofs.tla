-------------------------- MODULE MeterDataProofs --------------------------
(***************************************************************************)
(* What subscribers of the latest-value service can rely on, for any set   *)
(* of subscriptions and periods and any bounds, configuration swaps that   *)
(* restart the sequences included.                                         *)
(*                                                                         *)
(* That a callback never sees time go back is an action property; it rests *)
(* on a chain of views, the one a callback was given, the unread one, and  *)
(* the one in the store, that is ordered at every moment (ChainInv), and   *)
(* on the ingestion thread publishing what the store holds (ApplierInv).   *)
(***************************************************************************)
EXTENDS MeterData, TLAPS

AView == [period : Periods, sequence : Nat, generation : Nat]
AnyView == AView \cup {NoView}
Slot == [sequence : Nat, generation : Nat, from : [Groups -> Nat]]

\* The types without the bounds.
TypeInv ==
    /\ source \in [generation : Nat, next : [Periods -> Nat], since : [Periods -> Nat]]
    /\ views \in [Periods -> Slot]
    /\ applier \in [pc : {"idle", "read", "publish", "release"}, view : AnyView,
                    held : SUBSET Subs, todo : SUBSET Subs]
    /\ owner \in [Subs -> {"none", "live", "erased", "stopped", "joining", "returned"}]
    /\ accepting \in [Subs -> BOOLEAN]
    /\ pending \in [Subs -> AnyView]
    /\ worker \in [Subs -> {"off", "waiting", "took", "calling", "ended"}]
    /\ delivered \in [Subs -> AnyView]

\* The ingestion thread holds what the store holds, and the subscribers of that
\* period.
ApplierInv ==
    /\ applier.pc # "idle" =>
          /\ applier.view \in AView
          /\ applier.view.sequence = views[applier.view.period].sequence
    /\ applier.pc \in {"idle", "read"} => applier.held = {} /\ applier.todo = {}
    /\ applier.pc = "release" => applier.todo = {}
    /\ applier.todo \subseteq applier.held
    /\ \A s \in applier.held : PeriodOf[s] = applier.view.period

\* Delivered, unread and stored views of a subscription are ordered.
ChainInv ==
    \A s \in Subs :
       /\ delivered[s].sequence <= views[PeriodOf[s]].sequence
       /\ delivered[s] # NoView => delivered[s].period = PeriodOf[s]
       /\ pending[s] # NoView =>
             /\ pending[s].period = PeriodOf[s]
             /\ delivered[s].sequence <= pending[s].sequence
             /\ pending[s].sequence <= views[PeriodOf[s]].sequence

\* No group of a slot is newer than the slot.
GroupsInv == \A p \in Periods, g \in Groups : views[p].from[g] <= views[p].sequence

MeterInv == TypeInv /\ ApplierInv /\ ChainInv /\ GroupsInv /\ WorkerInsideSubscriber

----------------------------------------------------------------------------
\* NoView is a view that is older than every other one.
LEMMA ViewTypes ==
  /\ NoView \in AnyView /\ NoView.sequence = 0
  /\ \A v \in AnyView : v.sequence \in Nat /\ (v # NoView => v \in AView)
BY DEF NoView, AnyView, AView

\* The invariant holds before anything was applied or subscribed.
LEMMA MeterInit ==
  ASSUME PeriodOf \in [Subs -> Periods], Init
  PROVE  MeterInv
<1> USE DEF Init
<1>1. TypeInv
  BY Zenon, ViewTypes DEF TypeInv, Slot, Idle
<1>2. ApplierInv /\ WorkerInsideSubscriber
  BY Zenon DEF ApplierInv, WorkerInsideSubscriber, Idle
<1>3. ChainInv
  BY ViewTypes DEF ChainInv
<1>4. GroupsInv
  BY DEF GroupsInv
<1> QED
  BY Zenon, <1>1, <1>2, <1>3, <1>4 DEF MeterInv

\* A step of the ingestion thread that leaves subscribers and store alone.
LEMMA ReconfigureKeeps ==
  ASSUME MeterInv, Reconfigure
  PROVE  MeterInv'
<1> USE DEF MeterInv
<1>1. UNCHANGED <<views, applier, owner, accepting, pending, worker, delivered>>
  BY Zenon DEF Reconfigure, subscriber
<1>2. source' \in [generation : Nat, next : [Periods -> Nat], since : [Periods -> Nat]]
  <2>1. source.generation \in Nat /\ source.next \in [Periods -> Nat]
    BY Zenon DEF TypeInv
  <2>2. PICK next \in {source.next} \cup
                     (IF SwapResets THEN {[p \in Periods |-> 1]} ELSE {}) :
          source' = [generation |-> source.generation + 1, next |-> next,
                     since |-> next]
    BY Zenon DEF Reconfigure
  <2>3. next \in [Periods -> Nat]
    BY <2>1, <2>2
  <2> QED
    BY <2>1, <2>2, <2>3
<1>3. TypeInv'
  BY Zenon, <1>1, <1>2 DEF TypeInv
<1> QED
  BY Zenon, <1>1, <1>3 DEF ApplierInv, ChainInv, GroupsInv, WorkerInsideSubscriber

\* The store takes an update: a slot's sequence never decreases.
LEMMA StoreApplyKeeps ==
  ASSUME PeriodOf \in [Subs -> Periods], MaxSequence \in Nat, MeterInv, StoreApply
  PROVE  MeterInv'
<1> USE DEF MeterInv
<1>1. PICK p \in Periods, group \in Groups :
        \E n \in source.since[p] .. MaxSequence :
           /\ views' = [views EXCEPT ![p] = Stored(@, n, source.generation, group)]
           /\ source' = [source EXCEPT !.next[p] = IF n = @ THEN n + 1 ELSE @]
           /\ applier' = [applier EXCEPT !.pc = "read", !.view = ViewOf(p)']
  BY Zenon DEF StoreApply
<1>2. PICK n \in source.since[p] .. MaxSequence :
           /\ views' = [views EXCEPT ![p] = Stored(@, n, source.generation, group)]
           /\ source' = [source EXCEPT !.next[p] = IF n = @ THEN n + 1 ELSE @]
           /\ applier' = [applier EXCEPT !.pc = "read", !.view = ViewOf(p)']
  BY Zenon, <1>1
<1>3. /\ applier.pc = "idle"
      /\ UNCHANGED <<owner, accepting, pending, worker, delivered>>
  BY Zenon DEF StoreApply, subscriber
<1>4. /\ source.since[p] \in Nat /\ source.next[p] \in Nat
      /\ source.generation \in Nat /\ views[p] \in Slot
  BY Zenon DEF TypeInv
<1>5. n \in Nat
  BY <1>4
<1> DEFINE slot == Stored(views[p], n, source.generation, group)
<1>6. /\ slot \in Slot /\ views[p].sequence \in Nat /\ slot.sequence \in Nat
      /\ slot.generation \in Nat
      /\ views[p].sequence <= slot.sequence
      /\ \A g \in Groups : slot.from[g] <= slot.sequence
  <2>1. /\ views[p].from \in [Groups -> Nat] /\ views[p].sequence \in Nat
        /\ views[p].generation \in Nat
        /\ \A g \in Groups : views[p].from[g] <= views[p].sequence
    BY Zenon, <1>4 DEF Slot, GroupsInv
  <2>2. CASE n < views[p].sequence
    BY <1>4, <2>1, <2>2 DEF Stored
  <2>3. CASE ~(n < views[p].sequence)
    <3> DEFINE from == [views[p].from EXCEPT ![group] = n]
    <3>1. slot = [sequence |-> n, generation |-> source.generation, from |-> from]
      BY Zenon, <2>3 DEF Stored
    <3>2. /\ from \in [Groups -> Nat]
          /\ \A g \in Groups : from[g] = n \/ from[g] = views[p].from[g]
      BY Zenon, <1>5, <2>1
    <3>3. \A g \in Groups : from[g] <= n
      BY <1>5, <2>1, <2>3, <3>2
    <3> HIDE DEF from, slot
    <3> QED
      BY <1>4, <1>5, <2>1, <2>3, <3>1, <3>2, <3>3 DEF Slot
  <2> QED
    BY Zenon, <2>2, <2>3
<1> HIDE DEF slot
<1>7. /\ views' \in [Periods -> Slot] /\ views'[p] = slot
      /\ \A q \in Periods : q # p => views'[q] = views[q]
  BY Zenon, <1>2, <1>6 DEF TypeInv, slot
<1>8. \A q \in Periods : /\ views[q].sequence \in Nat /\ views'[q].sequence \in Nat
                         /\ views[q].sequence <= views'[q].sequence
  <2>1. \A q \in Periods : views[q].sequence \in Nat /\ views'[q].sequence \in Nat
    BY Zenon, <1>7 DEF TypeInv, Slot
  <2>2. ASSUME NEW q \in Periods
        PROVE  views[q].sequence <= views'[q].sequence
    BY <1>6, <1>7, <2>1
  <2> QED
    BY Zenon, <2>1, <2>2
<1> DEFINE view == [period |-> p, sequence |-> slot.sequence,
                    generation |-> slot.generation]
<1>9. /\ applier' = [applier EXCEPT !.pc = "read", !.view = view]
      /\ view \in AView /\ view.period = p /\ view.sequence = slot.sequence
  BY Zenon, <1>2, <1>6, <1>7 DEF ViewOf, AView
<1> HIDE DEF view
<1>10. /\ applier'.pc = "read" /\ applier'.view = view
       /\ applier'.held = {} /\ applier'.todo = {}
       /\ applier' \in [pc : {"idle", "read", "publish", "release"}, view : AnyView,
                        held : SUBSET Subs, todo : SUBSET Subs]
  BY Zenon, <1>3, <1>9 DEF TypeInv, ApplierInv, AnyView
<1>11. source' \in [generation : Nat, next : [Periods -> Nat], since : [Periods -> Nat]]
  <2>1. (IF n = source.next[p] THEN n + 1 ELSE source.next[p]) \in Nat
    BY <1>4, <1>5
  <2> QED
    BY Zenon, <1>2, <2>1 DEF TypeInv
<1>12. TypeInv'
  BY Zenon, <1>3, <1>7, <1>10, <1>11 DEF TypeInv
<1>13. ApplierInv'
  BY Zenon, <1>7, <1>9, <1>10 DEF ApplierInv
<1>14. ChainInv'
  <2>1. \A s \in Subs : /\ delivered[s].sequence \in Nat /\ pending[s].sequence \in Nat
                        /\ PeriodOf[s] \in Periods
    BY Zenon, ViewTypes DEF TypeInv
  <2> QED
    BY <1>3, <1>8, <2>1 DEF ChainInv
<1>15. GroupsInv'
  BY Zenon, <1>6, <1>7 DEF GroupsInv
<1>16. WorkerInsideSubscriber'
  BY Zenon, <1>3, <1>10 DEF WorkerInsideSubscriber, ApplierInv
<1> QED
  BY Zenon, <1>12, <1>13, <1>14, <1>15, <1>16

\* The steps of apply keep the invariant.
LEMMA ApplyKeeps ==
  ASSUME PeriodOf \in [Subs -> Periods], MeterInv, ApplyStep
  PROVE  MeterInv'
<1> USE DEF MeterInv
<1> DEFINE Appliers == [pc : {"idle", "read", "publish", "release"}, view : AnyView,
                        held : SUBSET Subs, todo : SUBSET Subs]
<1>0. applier \in Appliers /\ Idle \in Appliers
  BY Zenon, ViewTypes DEF TypeInv, Idle
<1>1. CASE CopySubscribers
  <2> DEFINE held == MatchingSubscribers(applier.view.period)
  <2>1. /\ applier.pc = "read" /\ applier.held = {}
        /\ UNCHANGED <<source, views, owner, accepting, pending, worker, delivered>>
        /\ applier' = IF held = {} THEN Idle
                      ELSE [applier EXCEPT !.pc = "publish", !.held = held,
                                           !.todo = held]
    BY Zenon, <1>1 DEF CopySubscribers, subscriber, ApplierInv
  <2>2. /\ held \subseteq Subs
        /\ \A s \in held : owner[s] = "live" /\ PeriodOf[s] = applier.view.period
    BY Zenon DEF MatchingSubscribers
  <2> HIDE DEF held
  <2>3. applier' \in Appliers
    BY Zenon, <1>0, <2>1, <2>2
  <2>4. TypeInv'
    BY Zenon, <2>1, <2>3 DEF TypeInv
  <2>5. ApplierInv'
    BY Zenon, <1>0, <2>1, <2>2 DEF ApplierInv, Idle
  <2>6. ChainInv' /\ GroupsInv'
    BY Zenon, <2>1 DEF ChainInv, GroupsInv
  <2>7. WorkerInsideSubscriber'
    BY Zenon, <2>1 DEF WorkerInsideSubscriber
  <2> QED
    BY Zenon, <2>4, <2>5, <2>6, <2>7
<1>2. ASSUME NEW s \in Subs, Publish(s)
      PROVE  MeterInv'
  <2>1. /\ applier.pc = "publish" /\ s \in applier.todo
        /\ pending' = IF accepting[s] THEN [pending EXCEPT ![s] = applier.view]
                      ELSE pending
        /\ applier' = [applier EXCEPT !.todo = @ \ {s},
                                      !.pc = IF applier.todo = {s} THEN "release" ELSE @]
        /\ UNCHANGED <<source, views, owner, accepting, worker, delivered>>
    BY Zenon, <1>2 DEF Publish
  <2>2. /\ applier.view \in AView /\ applier.view \in AnyView
        /\ applier.view.sequence = views[PeriodOf[s]].sequence
        /\ applier.view.period = PeriodOf[s]
    BY Zenon, <2>1 DEF ApplierInv, AnyView
  <2>3. /\ applier' \in Appliers /\ applier'.pc \in {"publish", "release"}
        /\ applier'.pc = "release" => applier'.todo = {}
        /\ applier'.view = applier.view /\ applier'.held = applier.held
        /\ applier'.todo \subseteq applier.todo
    BY Zenon, <1>0, <2>1
  <2>4. TypeInv'
    BY Zenon, <2>1, <2>2, <2>3 DEF TypeInv
  <2>5. ApplierInv'
    BY Zenon, <2>1, <2>3 DEF ApplierInv
  <2>6. ChainInv'
    <3>1. /\ PeriodOf[s] \in Periods /\ views[PeriodOf[s]].sequence \in Nat
      BY Zenon DEF TypeInv, Slot
    <3>2. \A r \in Subs : pending'[r] = pending[r] \/ (r = s /\ pending'[r] = applier.view)
      BY Zenon, <2>1 DEF TypeInv
    <3> QED
      BY <2>1, <2>2, <3>1, <3>2 DEF ChainInv
  <2>7. GroupsInv' /\ WorkerInsideSubscriber'
    BY Zenon, <2>1, <2>3 DEF GroupsInv, WorkerInsideSubscriber
  <2> QED
    BY Zenon, <2>4, <2>5, <2>6, <2>7
<1>3. ASSUME NEW s \in Subs, Release(s)
      PROVE  MeterInv'
  <2>1. /\ applier.pc = "release" /\ s \in applier.held
        /\ owner[s] = "returned" => worker[s] = "ended"
        /\ applier' = IF applier.held = {s} THEN Idle
                      ELSE [applier EXCEPT !.held = @ \ {s}]
        /\ UNCHANGED <<source, views, owner, accepting, pending, worker, delivered>>
    BY Zenon, <1>3 DEF Release, LastReference, subscriber
  <2>2. /\ applier' \in Appliers /\ applier'.held = applier.held \ {s}
        /\ applier'.todo = {}
        /\ \/ applier'.pc = "idle" /\ applier'.held = {}
           \/ applier'.pc = "release" /\ applier'.view = applier.view
    BY Zenon, <1>0, <2>1 DEF ApplierInv, Idle
  <2>3. TypeInv'
    BY Zenon, <2>1, <2>2 DEF TypeInv
  <2>4. ApplierInv'
    BY Zenon, <2>1, <2>2 DEF ApplierInv
  <2>5. ChainInv' /\ GroupsInv'
    BY Zenon, <2>1 DEF ChainInv, GroupsInv
  <2>6. WorkerInsideSubscriber'
    BY Zenon, <2>1, <2>2 DEF WorkerInsideSubscriber
  <2> QED
    BY Zenon, <2>3, <2>4, <2>5, <2>6
<1> QED
  BY Zenon, <1>1, <1>2, <1>3 DEF ApplyStep

----------------------------------------------------------------------------
\* The owner of a subscription creates and destroys its token.
LEMMA OwnerKeeps ==
  ASSUME PeriodOf \in [Subs -> Periods], MeterInv, NEW s \in Subs,
         Subscribe(s) \/ Erase(s) \/ OwnerStep(s)
  PROVE  MeterInv'
<1> USE DEF MeterInv
<1>1. UNCHANGED <<source, views, applier, delivered>>
  BY Zenon DEF Subscribe, Erase, OwnerStep, Stop, DropReference, Join
<1>2. TypeInv'
  <2>1. CASE Subscribe(s)
    BY Zenon, <2>1 DEF Subscribe, TypeInv
  <2>2. CASE Erase(s) \/ DropReference(s) \/ Join(s)
    BY Zenon, <2>2 DEF Erase, DropReference, Join, TypeInv
  <2>3. CASE Stop(s)
    BY Zenon, <2>3, ViewTypes DEF Stop, TypeInv
  <2> QED
    BY Zenon, <2>1, <2>2, <2>3 DEF OwnerStep
<1>3. ApplierInv' /\ GroupsInv'
  BY Zenon, <1>1 DEF ApplierInv, GroupsInv
<1>4. ChainInv'
  <2>1. \A r \in Subs : pending'[r] = pending[r] \/ pending'[r] = NoView
    BY Zenon DEF Subscribe, Erase, OwnerStep, Stop, DropReference, Join, TypeInv
  <2> QED
    BY Zenon, <1>1, <2>1 DEF ChainInv
<1>5. WorkerInsideSubscriber'
  <2>1. \A r \in Subs :
          \/ owner'[r] = owner[r] /\ worker'[r] = worker[r]
          \/ owner'[r] # "returned"
          \/ owner'[r] = "returned" /\ r \in applier.held
          \/ owner'[r] = "returned" /\ worker'[r] = "ended"
    BY DEF Subscribe, Erase, OwnerStep, Stop, DropReference, Join, TypeInv
  <2> QED
    BY Zenon, <1>1, <2>1 DEF WorkerInsideSubscriber
<1> QED
  BY Zenon, <1>2, <1>3, <1>4, <1>5

\* The worker of a subscription; what its callback is given never goes back.
LEMMA WorkerKeeps ==
  ASSUME PeriodOf \in [Subs -> Periods], MeterInv, NEW s \in Subs, WorkerStep(s)
  PROVE  /\ MeterInv'
         /\ \A r \in Subs : delivered'[r].sequence >= delivered[r].sequence
<1> USE DEF MeterInv
<1>1. UNCHANGED <<source, views, applier, owner, accepting>>
  BY Zenon DEF WorkerStep, Take, Call, Return
<1>2. \/ UNCHANGED <<pending, delivered>>
      \/ /\ pending[s] # NoView
         /\ delivered' = [delivered EXCEPT ![s] = pending[s]]
         /\ pending' = [pending EXCEPT ![s] = NoView]
  BY Zenon DEF WorkerStep, Take, Call, Return
<1>3. /\ worker' \in [Subs -> {"off", "waiting", "took", "calling", "ended"}]
      /\ \A r \in Subs : worker[r] = "ended" => worker'[r] = "ended"
  BY DEF WorkerStep, Take, Call, Return, TypeInv
<1>4. TypeInv'
  <2>1. pending' \in [Subs -> AnyView] /\ delivered' \in [Subs -> AnyView]
    <3>1. /\ pending \in [Subs -> AnyView] /\ delivered \in [Subs -> AnyView]
          /\ pending[s] \in AnyView /\ NoView \in AnyView
      BY Zenon, ViewTypes DEF TypeInv
    <3> QED
      BY Zenon, <1>2, <3>1
  <2> QED
    BY Zenon, <1>1, <1>3, <2>1 DEF TypeInv
<1>5. ApplierInv' /\ GroupsInv' /\ WorkerInsideSubscriber'
  BY Zenon, <1>1, <1>3 DEF ApplierInv, GroupsInv, WorkerInsideSubscriber
<1>6. \A r \in Subs :
        \/ pending'[r] = pending[r] /\ delivered'[r] = delivered[r]
        \/ pending[r] # NoView /\ pending'[r] = NoView /\ delivered'[r] = pending[r]
  BY <1>2 DEF TypeInv
<1>7. \A r \in Subs : delivered[r].sequence \in Nat
  BY Zenon, ViewTypes DEF TypeInv
<1>8. ChainInv'
  BY Zenon, <1>1, <1>6 DEF ChainInv
<1>9. \A r \in Subs : delivered'[r].sequence >= delivered[r].sequence
  <2>1. \A r \in Subs : pending[r].sequence \in Nat
    BY Zenon, ViewTypes DEF TypeInv
  <2> QED
    BY <1>6, <1>7, <2>1 DEF ChainInv
<1> QED
  BY Zenon, <1>4, <1>5, <1>8, <1>9

\* So does a stuttering step.
LEMMA StutterKeeps ==
  ASSUME MeterInv, UNCHANGED vars
  PROVE  MeterInv'
BY Zenon DEF vars, MeterInv, TypeInv, ApplierInv, ChainInv, GroupsInv, WorkerInsideSubscriber

\* Every step keeps it.
LEMMA MeterStep ==
  ASSUME PeriodOf \in [Subs -> Periods], MaxSequence \in Nat, MeterInv, [Next]_vars
  PROVE  /\ MeterInv'
         /\ \A r \in Subs : delivered'[r].sequence >= delivered[r].sequence
<1>0. delivered' = delivered =>
        \A r \in Subs : delivered'[r].sequence >= delivered[r].sequence
  <2>1. \A r \in Subs : delivered[r].sequence \in Nat
    BY Zenon, ViewTypes DEF MeterInv, TypeInv
  <2> QED
    BY <2>1
<1>1. CASE Reconfigure
  BY Zenon, <1>0, <1>1, ReconfigureKeeps DEF Reconfigure, subscriber
<1>2. CASE StoreApply
  BY Zenon, <1>0, <1>2, StoreApplyKeeps DEF StoreApply, subscriber
<1>3. CASE ApplyStep
  <2>1. delivered' = delivered
    BY Zenon, <1>3 DEF ApplyStep, CopySubscribers, Publish, Release, subscriber
  <2> QED
    BY Zenon, <1>0, <1>3, <2>1, ApplyKeeps
<1>4. ASSUME NEW s \in Subs, Subscribe(s) \/ Erase(s) \/ OwnerStep(s)
      PROVE  /\ MeterInv'
             /\ \A r \in Subs : delivered'[r].sequence >= delivered[r].sequence
  <2>1. delivered' = delivered
    BY Zenon, <1>4 DEF Subscribe, Erase, OwnerStep, Stop, DropReference, Join
  <2> QED
    BY Zenon, <1>0, <1>4, <2>1, OwnerKeeps
<1>5. ASSUME NEW s \in Subs, WorkerStep(s)
      PROVE  /\ MeterInv'
             /\ \A r \in Subs : delivered'[r].sequence >= delivered[r].sequence
  BY Zenon, <1>5, WorkerKeeps
<1>6. CASE UNCHANGED vars
  BY Zenon, <1>0, <1>6, StutterKeeps DEF vars
<1> QED
  BY Zenon, <1>1, <1>2, <1>3, <1>4, <1>5, <1>6 DEF Next

\* The view a callback was given is not ahead of the store.
LEMMA ChainReachesStore ==
  ASSUME MeterInv
  PROVE  OwnPeriodOnly /\ NotAheadOfStore
BY Zenon DEF MeterInv, ChainInv, GroupsInv, OwnPeriodOnly, NotAheadOfStore

\* Whatever threads interleave and however late records arrive: a subscriber
\* sees only its own period and never an older view than before, no view is
\* ahead of the store, and no worker outlives its subscription
\* (MeterData::apply, Subscriber::run, ~Subscription).
THEOREM SubscriptionsCorrect ==
  ASSUME PeriodOf \in [Subs -> Periods], MaxSequence \in Nat
  PROVE  Spec => SubscriptionsAreSound
<1> DEFINE Forward == \A s \in Subs : delivered'[s].sequence >= delivered[s].sequence
<1>1. Init => MeterInv
  BY Zenon, MeterInit
<1>2. MeterInv /\ [Next]_vars => MeterInv'
  BY Zenon, MeterStep
<1>3. MeterInv /\ [Next]_vars => Forward
  BY Zenon, MeterStep
<1>4. MeterInv => WorkerInsideSubscriber /\ OwnPeriodOnly /\ NotAheadOfStore
  BY Zenon, ChainReachesStore DEF MeterInv
<1>5. Spec => [](WorkerInsideSubscriber /\ OwnPeriodOnly /\ NotAheadOfStore)
  BY <1>1, <1>2, <1>4, PTL DEF Spec
<1>6. Spec => [][Forward]_vars
  <2> HIDE DEF Forward
  <2> QED
    BY <1>1, <1>2, <1>3, PTL DEF Spec
<1> QED
  BY Zenon, <1>5, <1>6 DEF SubscriptionsAreSound, NeverGoesBack
=============================================================================
