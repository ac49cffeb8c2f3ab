------------------------ MODULE WaveformHistoryProofs ------------------------
(***************************************************************************)
(* Proofs about WaveformHistory: the ring holds what it is said to hold,   *)
(* a capture is an exact copy of its window, and a capture is given up     *)
(* only for a cause the design accepts.  The inductive invariant, IInv,    *)
(* adds to TypeOK, RingInvariant and CaptureInvariant what the code        *)
(* relies on without saying it: results and expirations concern sessions   *)
(* the writer was given, ids not handed out are free, windows are ordered, *)
(* and the event index names exactly the sessions that carry an event.     *)
(***************************************************************************)
EXTENDS WaveformHistory, WellFoundedInduction, FiniteSetTheorems, TLAPS

-----------------------------------------------------------------------------
\* Arithmetic of the ring.

\* The ring has room for a frame.
LEMMA CapacityPositive == Capacity \in Nat \ {0}
BY HistoryAssumption

\* Every sequence has a slot.
LEMMA SlotIsSlot ==
  ASSUME NEW k \in Nat
  PROVE  Slot(k) \in Slots
BY CapacityPositive DEF Slot, Slots

\* A number is a multiple of n and its remainder.
LEMMA Quotient ==
  ASSUME NEW n \in Nat \ {0}, NEW k \in Nat
  PROVE  \E q \in Int : k = n * q + (k % n)
<1>1. (k \div n) \in Int /\ k = n * (k \div n) + (k % n)
  BY Z3
<1> QED BY Zenon, <1>1

\* Different multiples of n are at least n apart.
LEMMA Multiple ==
  ASSUME NEW n \in Nat \ {0}, NEW p \in Int, NEW q \in Int, p < q
  PROVE  n * q - n * p >= n
<1>1. n * q - n * p = n * (q - p) BY SMT
<1>2. PICK d \in Nat : q - p = d + 1 BY SMT
<1>3. n * (d + 1) = n * d + n BY SMT
<1>4. n * d >= 0 BY SMT
<1> QED BY <1>1, <1>2, <1>3, <1>4, SMT

\* Sequences less than a ring apart are in different slots.
LEMMA SlotsDiffer ==
  ASSUME NEW j \in Nat, NEW k \in Nat, j < k, k - j < Capacity
  PROVE  Slot(j) # Slot(k)
<1> SUFFICES ASSUME j % Capacity = k % Capacity PROVE FALSE
  BY Zenon DEF Slot
<1>0. Capacity \in Nat \ {0} BY Zenon, CapacityPositive
<1>1. PICK p \in Int : j = Capacity * p + (j % Capacity) BY Zenon, <1>0, Quotient
<1>2. PICK q \in Int : k = Capacity * q + (k % Capacity) BY Zenon, <1>0, Quotient
<1>3. CASE p < q
  <2>1. Capacity * q - Capacity * p >= Capacity BY Zenon, <1>0, <1>3, Multiple
  <2> QED BY <2>1, <1>0, <1>1, <1>2, SMT
<1>4. CASE q < p
  <2>1. Capacity * p - Capacity * q >= Capacity BY Zenon, <1>0, <1>4, Multiple
  <2> QED BY <2>1, <1>0, <1>1, <1>2, SMT
<1>5. CASE p = q
  BY <1>0, <1>1, <1>2, <1>5, SMT
<1> QED BY <1>3, <1>4, <1>5

-----------------------------------------------------------------------------
\* What storing a block does to the ring.

\* A block stored in the ring keeps its type.
LEMMA StoredType ==
  ASSUME NEW first \in Nat, NEW e \in Nat,
         ring \in [Slots -> [epoch : Nat, sequence : Nat]]
  PROVE  Stored(first, e) \in [Slots -> [epoch : Nat, sequence : Nat]]
<1> DEFINE B == first..(first + Block - 1)
<1>1. B \subseteq Nat BY HistoryAssumption
<1>2. ASSUME NEW i \in Slots, \E k \in B : Slot(k) = i
      PROVE  (CHOOSE k \in B : Slot(k) = i) \in Nat
  BY Zenon, <1>1, <1>2
<1> QED BY Zenon, <1>2 DEF Stored, Frame

\* A frame of the block is in its slot.
LEMMA StoredNew ==
  ASSUME NEW first \in Nat, NEW e \in Nat, NEW k \in first..(first + Block - 1)
  PROVE  Stored(first, e)[Slot(k)] = Frame(e, k)
<1> DEFINE B == first..(first + Block - 1)
<1>1. B \subseteq Nat /\ Block \in Nat /\ Capacity \in Nat /\ Block <= Capacity
  BY HistoryAssumption
<1>2. Slot(k) \in Slots BY Zenon, <1>1, SlotIsSlot
<1>3. ASSUME NEW j \in B, Slot(j) = Slot(k) PROVE j = k
  <2>1. CASE j < k BY <2>1, <1>1, <1>3, SlotsDiffer
  <2>2. CASE k < j BY <2>2, <1>1, <1>3, SlotsDiffer
  <2> QED BY <2>1, <2>2, <1>1
<1>4. (CHOOSE j \in B : Slot(j) = Slot(k)) = k
  BY Zenon, <1>3
<1> QED BY Zenon, <1>2, <1>4 DEF Stored

-----------------------------------------------------------------------------
\* Session tables keep their type.

\* The free session has the type of a session.
LEMMA NoSessionType == NoSession \in Session
BY Zenon DEF NoSession, Session, States, Markers, NoMarkers

\* Collecting a result keeps the type of the sessions.
LEMMA CollectedFromType ==
  ASSUME TypeOK, NEW S \in [Ids -> Session]
  PROVE  CollectedFrom(S) \in [Ids -> Session]
<1>1. ASSUME NEW i \in Ids, NEW x \in {"complete", "incomplete"}
      PROVE  [S[i] EXCEPT !.state = x] \in Session
  BY Zenon, <1>1 DEF Session, States
<1> QED BY Zenon, <1>1, NoSessionType DEF CollectedFrom

\* Collecting all of them does, too.
LEMMA CollectedType ==
  ASSUME TypeOK
  PROVE  Collected \in [Ids -> Session]
BY Zenon, CollectedFromType DEF TypeOK, Collected

\* Giving sessions up keeps their type.
LEMMA AbandonedType ==
  ASSUME NEW S \in [Ids -> Session]
  PROVE  Abandoned(S) \in [Ids -> Session]
BY DEF Abandoned, Session, States

\* So does finishing them.
LEMMA FinishedType ==
  ASSUME NEW S \in [Ids -> Session]
  PROVE  Finished(S) \in [Ids -> Session]
BY DEF Finished, Session, States

\* The larger and the smaller of two sequences are one of them.
LEMMA MaximumType ==
  ASSUME NEW a \in Int, NEW b \in Int
  PROVE  /\ Larger(a, b) \in Int /\ Larger(a, b) >= a /\ Larger(a, b) >= b
         /\ Larger(a, b) \in {a, b}
         /\ Smaller(a, b) \in Int /\ Smaller(a, b) <= a /\ Smaller(a, b) <= b
         /\ Smaller(a, b) \in {a, b}
BY DEF Larger, Smaller

\* A window cut to the history and to the budget begins inside the history.
LEMMA WindowType ==
  ASSUME TypeOK, NEW anchor \in Nat, NEW w \in EventWindows, CanTrack(w),
         Retained(anchor, w)
  PROVE  /\ WindowFirst(anchor, w) \in Nat
         /\ WindowFirst(anchor, w) >= oldest
         /\ WindowLast(anchor, w) \in Nat
<1>1. w[1] \in Nat /\ w[2] \in Nat BY Zenon, HistoryAssumption
<1>2. oldest \in Nat BY Zenon DEF TypeOK
<1>3. Budget \in Nat BY HistoryAssumption DEF Budget
<1>4. WindowLast(anchor, w) \in Nat /\ WindowLast(anchor, w) >= oldest
  BY <1>1, <1>2 DEF WindowLast, Retained
<1>5. w[1] + w[2] + 1 <= Budget BY Zenon DEF CanTrack
<1> QED BY <1>1, <1>2, <1>3, <1>4, <1>5 DEF WindowFirst, Pretrigger, Larger

\* A session opened for an event has the type of a session.
LEMMA NewEventSessionType ==
  ASSUME TypeOK, NEW e \in Events, NEW lifecycle, NEW anchor \in Nat,
         NEW w \in EventWindows, CanTrack(w), Retained(anchor, w)
  PROVE  NewEventSession(e, lifecycle, anchor, w) \in Session
<1>1. WindowFirst(anchor, w) \in Nat /\ WindowLast(anchor, w) \in Nat
  BY Zenon, WindowType
<1>2. epoch \in Nat BY Zenon DEF TypeOK
<1>3. [NoMarkers EXCEPT ![e] = Marker(lifecycle)] \in Markers
  BY Zenon DEF NoMarkers, Markers, Marker
<1> QED BY Zenon, <1>1, <1>2, <1>3 DEF NewEventSession, Session, States

\* The first of a set of sessions is one of them.
LEMMA LowestIn ==
  ASSUME NEW I \in SUBSET Ids, I # {}
  PROVE  Lowest(I) \in I
<1> DEFINE Less == OpToRel(<, Nat)
<1>1. I \in SUBSET Nat BY HistoryAssumption DEF Ids
<1>2. IsWellFoundedOn(Less, Nat)
  BY Zenon, NatLessThanWellFounded
<1>3. \A x, y \in Nat : <<y, x>> \in Less <=> y < x
  BY Zenon DEF OpToRel
<1> HIDE DEF Less
<1>4. PICK x \in I : \A y \in I : ~ (<<y, x>> \in Less)
  BY <1>1, <1>2, WFMin, Zenon
<1>5. \A y \in I : ~ (y < x)
  BY <1>1, <1>3, <1>4, Zenon
<1>6. \A y \in I : x <= y
  BY <1>1, <1>5
<1> QED BY Zenon, <1>6 DEF Lowest

\* The rebuilt index has the type of an index.
LEMMA RebuiltType ==
  ASSUME NEW S \in [Ids -> Session]
  PROVE  Rebuilt(S) \in [Events -> Association]
<1> SUFFICES ASSUME NEW e \in Events PROVE Rebuilt(S)[e] \in Association
  BY Zenon DEF Rebuilt
<1> DEFINE all == Found(e, S)
           onset == IF all = {} THEN 0 ELSE Lowest(all)
           rest == all \ {onset}
           recovery == IF rest = {} THEN 0 ELSE Lowest(rest)
<1>1. all \in SUBSET Ids /\ Ids \subseteq Nat
  BY HistoryAssumption DEF Found, Marked, Ids
<1> HIDE DEF all
<1>2. onset \in Nat BY Zenon, <1>1, LowestIn
<1> HIDE DEF onset
<1>3. rest \in SUBSET Ids BY Zenon, <1>1
<1> HIDE DEF rest
<1>4. recovery \in Nat BY Zenon, <1>1, <1>3, LowestIn
<1> HIDE DEF recovery
<1>5. Rebuilt(S)[e] = [onset |-> onset, recovery |-> recovery,
                       terminal |-> \E i \in all : S[i].markers[e] = "terminal"]
  BY Zenon DEF Rebuilt, all, onset, rest, recovery
<1> QED BY <1>2, <1>4, <1>5 DEF Association

-----------------------------------------------------------------------------
\* Every step keeps the types.

\* No result is the empty collection.
LEMMA NoneCollected == [i \in Ids |-> "none"] \in [Ids -> {"none", "ok", "failed"}]
BY Zenon

\* An index built from sessions has the type of an index.
LEMMA IndexOfType ==
  ASSUME TypeOK, NEW S \in [Ids -> Session]
  PROVE  IndexOf(S) \in [Events -> Association]
BY Zenon, RebuiltType DEF IndexOf, TypeOK

\* A trigger keeps the types.
LEMMA TriggerType ==
  ASSUME TypeOK, NEW w \in ManualWindows, Trigger(w)
  PROVE  sessions' \in [Ids -> Session] /\ nextId' \in 1..(MaxSession + 1)
<1> DEFINE S == Collected
           first == Pretrigger(latest, w[1])
           last == latest + w[2]
           active == Capturing(S)
           a == Lowest(active)
<1>1. S \in [Ids -> Session] BY Zenon, CollectedType
<1>2. w[1] \in Nat /\ w[2] \in Nat BY Zenon, HistoryAssumption
<1>3. latest \in Nat /\ oldest \in Nat /\ epoch \in Nat
      /\ nextId \in 1..(MaxSession + 1)
  BY Zenon DEF TypeOK
<1>4. first \in Nat /\ last \in Nat
  BY <1>2, <1>3 DEF Pretrigger, Larger
<1>5. active \in SUBSET Ids BY Zenon DEF Capturing
<1>6. \/ /\ active # {}
         /\ sessions' =
              [S EXCEPT ![a] =
                [S[a] EXCEPT !.first = Smaller(S[a].first, first),
                             !.last = Larger(S[a].last, last),
                             !.covered = S[a].covered /\ first >= oldest]]
         /\ nextId' = nextId
      \/ /\ nextId <= MaxSession
         /\ sessions' =
              [S EXCEPT ![nextId] =
                [state |-> "capturing", first |-> first, last |-> last,
                 markers |-> NoMarkers, epoch |-> epoch,
                 covered |-> first >= oldest]]
         /\ nextId' = nextId + 1
  BY Zenon DEF Trigger
<1> HIDE DEF S, first, last, active
<1>7. CASE active # {}
  <2>1. a \in Ids BY Zenon, <1>5, <1>7, LowestIn
  <2> HIDE DEF a
  <2>2. S[a] \in Session BY Zenon, <1>1, <2>1
  <2>3. Smaller(S[a].first, first) \in Nat /\ Larger(S[a].last, last) \in Nat
    BY Zenon, <2>2, <1>4 DEF Session, Smaller, Larger
  <2>4. [S[a] EXCEPT !.first = Smaller(S[a].first, first),
                     !.last = Larger(S[a].last, last),
                     !.covered = S[a].covered /\ first >= oldest] \in Session
    BY Zenon, <2>2, <2>3 DEF Session
  <2>5. [state |-> "capturing", first |-> first, last |-> last,
         markers |-> NoMarkers, epoch |-> epoch,
         covered |-> first >= oldest] \in Session
    BY <1>3, <1>4 DEF Session, States, NoMarkers, Markers
  <2> QED BY <1>1, <1>3, <1>6, <2>4, <2>5, HistoryAssumption
<1>8. CASE active = {}
  <2>5. [state |-> "capturing", first |-> first, last |-> last,
         markers |-> NoMarkers, epoch |-> epoch,
         covered |-> first >= oldest] \in Session
    BY <1>3, <1>4 DEF Session, States, NoMarkers, Markers
  <2> QED BY <1>1, <1>3, <1>6, <1>8, <2>5, HistoryAssumption
<1> QED BY Zenon, <1>7, <1>8

\* Every step keeps the types.
LEMMA TypeStep == TypeOK /\ [Next]_vars => TypeOK'
<1> SUFFICES ASSUME TypeOK, [Next]_vars PROVE TypeOK'
  BY Zenon
<1> USE NoneCollected
<1>c. Collected \in [Ids -> Session] BY Zenon, CollectedType
<1>x. CollectedIndex \in [Events -> Association] BY Zenon, <1>c, IndexOfType DEF CollectedIndex
<1>1. CASE Start
  <2>1. sessions' \in [Ids -> Session]
    BY Zenon, <1>1, AbandonedType DEF Start, TypeOK
  <2>2. running' \in BOOLEAN /\ reading' \in BOOLEAN /\ haveHistory' \in BOOLEAN
    BY <1>1, Zenon DEF Start, TypeOK
  <2>3. /\ ring' \in [Slots -> [epoch : Nat, sequence : Nat]]
        /\ association' \in [Events -> Association]
        /\ results' \in [Ids -> {"none", "ok", "failed"}]
        /\ nextId' \in 1..(MaxSession + 1)
        /\ expired' \subseteq Ids
    BY <1>1, Zenon DEF Start, TypeOK
  <2>4. /\ oldest' \in Nat /\ latest' \in Nat /\ epoch' \in Nat
        /\ gaps' \subseteq Nat \X Nat /\ generation' \in Generations \cup {0}
    BY <1>1 DEF Start, TypeOK
  <2> QED BY <2>1, <2>2, <2>3, <2>4, Zenon DEF TypeOK
<1>2. CASE Stop
  <2>1. sessions' \in [Ids -> Session]
    BY Zenon, <1>2, <1>c, AbandonedType DEF Stop
  <2> QED BY Zenon, <1>2, <1>x, <2>1 DEF Stop, Collect, stream, TypeOK
<1>3. CASE BeginRead
  BY Zenon, <1>3, <1>c, <1>x DEF BeginRead, Collect, stream, TypeOK
<1>4. ASSUME NEW first \in Sequences, NEW g \in Generations, AcceptBlock(first, g)
      PROVE  TypeOK'
  <2>1. first \in Nat /\ first + Block - 1 \in Nat
    BY HistoryAssumption DEF Sequences
  <2>2. ring' \in [Slots -> [epoch : Nat, sequence : Nat]]
    BY Zenon, <1>4, <2>1, StoredType DEF AcceptBlock, TypeOK
  <2>3. oldest' \in Nat
    BY <1>4, <2>1, HistoryAssumption DEF AcceptBlock, TypeOK, Larger
  <2>4. gaps' \subseteq Nat \X Nat
    BY <1>4, <2>1 DEF AcceptBlock, TypeOK
  <2> QED BY Zenon, <1>4, <2>1, <2>2, <2>3, <2>4 DEF AcceptBlock, TypeOK
<1>5. ASSUME NEW first \in Sequences, NEW g \in Generations, RejectBlock(first, g)
      PROVE  TypeOK'
  BY Zenon, <1>5 DEF RejectBlock, TypeOK
<1>6. ASSUME NEW first \in Sequences, NEW g \in Generations,
             AcceptGeneration(first, g)
      PROVE  TypeOK'
  <2>1. first \in Nat /\ first + Block - 1 \in Nat /\ epoch + 1 \in Nat
    BY HistoryAssumption DEF Sequences, TypeOK
  <2>2. ring' \in [Slots -> [epoch : Nat, sequence : Nat]]
    BY Zenon, <1>6, <2>1, StoredType DEF AcceptGeneration, TypeOK
  <2>3. sessions' \in [Ids -> Session]
    BY Zenon, <1>6, AbandonedType DEF AcceptGeneration, TypeOK
  <2> QED BY Zenon, <1>6, <2>1, <2>2, <2>3 DEF AcceptGeneration, TypeOK
<1>7. CASE EndRead
  <2>1. Finished(sessions) \in [Ids -> Session] BY Zenon, FinishedType DEF TypeOK
  <2>2. sessions' \in [Ids -> Session]
    BY Zenon, <1>7, <2>1, CollectedFromType DEF EndRead
  <2>3. association' \in [Events -> Association]
    BY Zenon, <1>7, <2>2, IndexOfType DEF EndRead
  <2> QED BY Zenon, <1>7, <2>2, <2>3 DEF EndRead, Collect, stream, TypeOK
<1>8. CASE ReadFails
  BY Zenon, <1>8 DEF ReadFails, stream, TypeOK
<1>9. ASSUME NEW i \in Ids, WriteFinished(i) PROVE TypeOK'
  <2>1. OnDisk \subseteq Ids BY Zenon DEF OnDisk
  <2> QED BY <1>9, <2>1 DEF WriteFinished, stream, TypeOK
<1>10. ASSUME NEW i \in Ids, Erase(i) PROVE TypeOK'
  <2>1. NoSession \in Session BY Zenon, NoSessionType
  <2>2. sessions' \in [Ids -> Session] BY Zenon, <1>10, <1>c, <2>1 DEF Erase
  <2>3. association' \in [Events -> Association]
    BY Zenon, <1>10, <2>2, RebuiltType DEF Erase
  <2> QED BY Zenon, <1>10, <2>2, <2>3 DEF Erase, Collect, stream, TypeOK
<1>11. CASE Query
  BY Zenon, <1>11, <1>c, <1>x DEF Query, Collect, stream, TypeOK
<1>12. ASSUME NEW w \in ManualWindows, Trigger(w) PROVE TypeOK'
  <2>1. sessions' \in [Ids -> Session] /\ nextId' \in 1..(MaxSession + 1)
    BY Zenon, <1>12, TriggerType
  <2> QED BY Zenon, <1>12, <1>x, <2>1 DEF Trigger, Collect, stream, TypeOK
<1>13. ASSUME NEW e \in Events, NEW lifecycle \in {"start", "update", "end"},
              NEW anchor \in Sequences, NEW w \in EventWindows,
              Track(e, lifecycle, anchor, w)
       PROVE  TypeOK'
  <2>a. anchor \in Nat BY HistoryAssumption DEF Sequences
  <2>n. nextId \in 1..(MaxSession + 1) /\ nextId \in Nat
        /\ (nextId <= MaxSession => nextId + 1 \in 1..(MaxSession + 1))
    BY HistoryAssumption DEF TypeOK
  <2>1. CASE TrackFirst(e, lifecycle, anchor, w)
    <3>1. NewEventSession(e, lifecycle, anchor, w) \in Session
      BY Zenon, <2>1, <2>a, NewEventSessionType DEF TrackFirst
    <3>2. sessions' \in [Ids -> Session] BY Zenon, <2>1, <1>c, <3>1 DEF TrackFirst
    <3>3. association' \in [Events -> Association]
      BY Zenon, <2>1, <2>n, <1>x DEF TrackFirst, Association
    <3> QED BY Zenon, <2>1, <2>n, <3>2, <3>3 DEF TrackFirst, Collect, stream, TypeOK
  <2>2. CASE TrackMarks(e, lifecycle, w)
    <3> DEFINE i == LatestOf(CollectedIndex[e], Collected)
               m == [Collected[i].markers EXCEPT ![e] = Marker(lifecycle)]
    <3>1. i \in Ids BY Zenon, <2>2 DEF TrackMarks, Exists
    <3>2. sessions' = IF Collected[i].state # "capturing" THEN Collected
                      ELSE [Collected EXCEPT ![i] = [Collected[i] EXCEPT !.markers = m]]
      BY Zenon, <2>2 DEF TrackMarks
    <3> HIDE DEF i
    <3>3. Collected[i] \in Session BY Zenon, <1>c, <3>1
    <3>4. m \in Markers BY Zenon, <3>3 DEF Session, Markers, Marker
    <3> HIDE DEF m
    <3>5. [Collected[i] EXCEPT !.markers = m] \in Session
      BY Zenon, <3>3, <3>4 DEF Session
    <3>6. sessions' \in [Ids -> Session] BY Zenon, <1>c, <3>2, <3>5
    <3> QED BY Zenon, <2>2, <1>x, <3>6 DEF TrackMarks, Collect, stream, TypeOK
  <2>3. CASE TrackMerges(e, anchor, w)
    <3> DEFINE i == CollectedIndex[e].onset
               s == Collected[i]
               first == WindowFirst(anchor, w)
               last == WindowLast(anchor, w)
               m == [s.markers EXCEPT ![e] = "terminal"]
    <3>1. i \in Ids BY Zenon, <2>3 DEF TrackMerges, AtRecovery, Exists
    <3>2. first \in Nat /\ last \in Nat
      BY Zenon, <2>3, <2>a, WindowType DEF TrackMerges
    <3>3. sessions' = [Collected EXCEPT ![i] =
                        [s EXCEPT !.first = Smaller(s.first, first),
                                  !.last = Larger(s.last, last),
                                  !.markers = m]]
      BY Zenon, <2>3 DEF TrackMerges
    <3>4. association' \in [Events -> Association]
      BY Zenon, <2>3, <1>x DEF TrackMerges, Association
    <3> HIDE DEF i, first, last
    <3>5. s \in Session BY Zenon, <1>c, <3>1
    <3> HIDE DEF s
    <3>6. m \in Markers /\ Smaller(s.first, first) \in Nat /\ Larger(s.last, last) \in Nat
      BY Zenon, <3>2, <3>5 DEF Session, Markers, Smaller, Larger
    <3> HIDE DEF m
    <3>7. [s EXCEPT !.first = Smaller(s.first, first),
                    !.last = Larger(s.last, last), !.markers = m] \in Session
      BY Zenon, <3>5, <3>6 DEF Session
    <3>8. sessions' \in [Ids -> Session] BY Zenon, <1>c, <3>3, <3>7
    <3> QED BY Zenon, <2>3, <3>4, <3>8 DEF TrackMerges, Collect, stream, TypeOK
  <2>4. CASE TrackRecovers(e, anchor, w)
    <3>1. NewEventSession(e, "end", anchor, w) \in Session
      BY Zenon, <2>4, <2>a, NewEventSessionType DEF TrackRecovers
    <3>2. sessions' \in [Ids -> Session] BY Zenon, <2>4, <1>c, <3>1 DEF TrackRecovers
    <3>3. association' \in [Events -> Association]
      BY Zenon, <2>4, <2>n, <1>x DEF TrackRecovers, Association, Recovered
    <3> QED BY Zenon, <2>4, <2>n, <3>2, <3>3 DEF TrackRecovers, Collect, stream, TypeOK
  <2>5. CASE TrackThrows(e, lifecycle, anchor, w)
    <3>1. NoAssociation \in Association BY Zenon DEF NoAssociation, Association
    <3>2. association' \in [Events -> Association] BY Zenon, <2>5, <1>x, <3>1 DEF TrackThrows
    <3> QED BY Zenon, <2>5, <1>c, <3>2 DEF TrackThrows, Collect, stream, TypeOK
  <2> QED BY Zenon, <1>13, <2>1, <2>2, <2>3, <2>4, <2>5 DEF Track
<1>14. CASE RetentionFinished
  <2>1. OnDisk \subseteq Ids BY Zenon DEF OnDisk
  <2> QED BY Zenon, <1>14, <2>1 DEF RetentionFinished, stream, TypeOK
<1>15. CASE UNCHANGED vars
  BY Zenon, <1>15 DEF vars, stream, TypeOK
<1> QED
  BY Zenon, <1>1, <1>2, <1>3, <1>4, <1>5, <1>6, <1>7, <1>8, <1>9, <1>10, <1>11, <1>12,
     <1>13, <1>14, <1>15 DEF Next

-----------------------------------------------------------------------------
\* The ring.

\* Only these actions touch the history.
LEMMA StreamStep ==
  ASSUME [Next]_vars
  PROVE  \/ Start
         \/ \E first \in Sequences, g \in Generations :
              AcceptBlock(first, g) \/ RejectBlock(first, g) \/ AcceptGeneration(first, g)
         \/ UNCHANGED stream
<1>1. CASE Stop \/ BeginRead \/ EndRead \/ ReadFails \/ Query \/ RetentionFinished
  BY Zenon, <1>1 DEF Stop, BeginRead, EndRead, ReadFails, Query, RetentionFinished
<1>2. CASE \E i \in Ids : WriteFinished(i) \/ Erase(i)
  BY Zenon, <1>2 DEF WriteFinished, Erase
<1>3. CASE \E w \in ManualWindows : Trigger(w)
  BY Zenon, <1>3 DEF Trigger
<1>4. CASE \E e \in Events, lifecycle \in {"start", "update", "end"},
              anchor \in Sequences, w \in EventWindows : Track(e, lifecycle, anchor, w)
  BY <1>4 DEF Track, TrackFirst, TrackMarks, TrackMerges, TrackRecovers, TrackThrows
<1>5. CASE UNCHANGED vars
  BY Zenon, <1>5 DEF vars
<1> QED BY Zenon, <1>1, <1>2, <1>3, <1>4, <1>5 DEF Next

\* Every step keeps the ring's invariant.
LEMMA RingStep == TypeOK /\ RingInvariant /\ [Next]_vars => RingInvariant'
<1> SUFFICES ASSUME TypeOK, RingInvariant, [Next]_vars PROVE RingInvariant'
  BY Zenon
<1>1. CASE Start
  BY Zenon, <1>1 DEF Start, RingInvariant
<1>2. ASSUME NEW first \in Sequences, NEW g \in Generations, AcceptBlock(first, g)
      PROVE  RingInvariant'
  <2>1. first \in Nat /\ first + Block - 1 \in Nat /\ Block \in Nat \ {0}
        /\ Capacity \in Nat /\ Block <= Capacity
    BY HistoryAssumption DEF Sequences
  <2>2. oldest \in Nat /\ latest \in Nat /\ epoch \in Nat /\ gaps \subseteq Nat \X Nat
    BY Zenon DEF TypeOK
  <2>3. latest' = first + Block - 1 /\ epoch' = epoch /\ ring' = Stored(first, epoch)
    BY Zenon, <1>2 DEF AcceptBlock
  <2>4. CASE ~haveHistory
    <3>1. oldest' = first BY Zenon, <1>2, <2>4 DEF AcceptBlock
    <3>2. \A k \in oldest'..latest' : ring'[Slot(k)] = Frame(epoch', k)
      BY <2>1, <2>2, <2>3, <3>1, StoredNew
    <3> QED BY <2>1, <2>3, <3>1, <3>2 DEF RingInvariant
  <2>5. CASE haveHistory
    <3>1. /\ oldest' = Larger(oldest, first + Block - Capacity)
          /\ first > latest
          /\ gaps' = {gap \in gaps \cup (IF first > latest + 1
                                         THEN {<<latest + 1, first - 1>>} ELSE {}) :
                        gap[2] >= oldest'}
      BY Zenon, <1>2, <2>5 DEF AcceptBlock
    <3>2. oldest <= latest /\ latest - oldest < Capacity
      BY Zenon, <2>5 DEF RingInvariant
    <3>3. /\ oldest' \in Nat /\ oldest' >= oldest
          /\ oldest' <= latest' /\ latest' - oldest' < Capacity
      BY <2>1, <2>2, <2>3, <3>1, <3>2 DEF Larger
    <3>4. ASSUME NEW k \in oldest'..latest'
          PROVE  \/ ring'[Slot(k)] = Frame(epoch', k)
                 \/ \E gap \in gaps' : gap[1] <= k /\ k <= gap[2]
      <4>k. k \in Nat /\ k >= oldest' BY <2>1, <2>3, <3>3
      <4>1. CASE k >= first
        BY <4>1, <4>k, <2>1, <2>2, <2>3, StoredNew
      <4>2. CASE latest < k /\ k < first
        <5>1. first > latest + 1 BY <4>2, <4>k, <2>1, <2>2
        <5>2. <<latest + 1, first - 1>> \in gaps'
          BY <5>1, <4>2, <4>k, <3>1, <3>3, <2>1, <2>2
        <5> QED BY <5>2, <4>2, <4>k, <2>1, <2>2
      <4>3. CASE k <= latest
        <5>1. k \in oldest..latest BY <4>3, <4>k, <3>3, <2>2
        <5>2. \/ ring[Slot(k)] = Frame(epoch, k)
              \/ \E gap \in gaps : gap[1] <= k /\ k <= gap[2]
          BY Zenon, <5>1, <2>5 DEF RingInvariant
        <5>3. \A j \in first..(first + Block - 1) : Slot(j) # Slot(k)
          <6> SUFFICES ASSUME NEW j \in first..(first + Block - 1)
                       PROVE  Slot(j) # Slot(k)
            BY Zenon
          <6>1. j \in Nat /\ k < j /\ j - k < Capacity
            BY <4>3, <4>k, <3>1, <3>3, <2>1, <2>2, <2>3
          <6> QED BY Zenon, <6>1, <4>k, SlotsDiffer
        <5>4. ring'[Slot(k)] = ring[Slot(k)]
          <6>1. Slot(k) \in Slots BY Zenon, <4>k, SlotIsSlot
          <6> QED BY Zenon, <6>1, <5>3, <2>3 DEF Stored
        <5>5. ASSUME NEW gap \in gaps, gap[1] <= k, k <= gap[2] PROVE gap \in gaps'
          BY <5>5, <4>k, <3>1, <3>3, <2>2
        <5> QED BY Zenon, <5>2, <5>4, <5>5, <2>3
      <4> QED BY <4>1, <4>2, <4>3, <4>k, <2>1, <2>2
    <3> QED BY Zenon, <3>3, <3>4 DEF RingInvariant
  <2> QED BY Zenon, <2>4, <2>5
<1>3. ASSUME NEW first \in Sequences, NEW g \in Generations, RejectBlock(first, g)
      PROVE  RingInvariant'
  BY Zenon, <1>3 DEF RejectBlock, RingInvariant
<1>4. ASSUME NEW first \in Sequences, NEW g \in Generations,
             AcceptGeneration(first, g)
      PROVE  RingInvariant'
  <2>1. first \in Nat /\ first + Block - 1 \in Nat /\ epoch + 1 \in Nat
        /\ Block \in Nat \ {0} /\ Capacity \in Nat /\ Block <= Capacity
    BY HistoryAssumption DEF Sequences, TypeOK
  <2>2. /\ oldest' = first /\ latest' = first + Block - 1
        /\ epoch' = epoch + 1 /\ ring' = Stored(first, epoch + 1)
    BY Zenon, <1>4 DEF AcceptGeneration
  <2>3. \A k \in oldest'..latest' : ring'[Slot(k)] = Frame(epoch', k)
    BY <2>1, <2>2, StoredNew
  <2> QED BY <2>1, <2>2, <2>3 DEF RingInvariant
<1>5. CASE UNCHANGED stream
  BY Zenon, <1>5 DEF stream, RingInvariant
<1> QED BY Zenon, <1>1, <1>2, <1>3, <1>4, <1>5, StreamStep

-----------------------------------------------------------------------------
\* The inductive invariant.

\* The writer only answers for a session that is queued, and retention only
\* removes captures that have been written.
Pending ==
  /\ \A i \in Ids : results[i] # "none" => sessions[i].state = "queued"
  /\ \A i \in expired : sessions[i].state \in {"queued", "complete"}

\* Ids are handed out in order.
Fresh == \A i \in Ids : i >= nextId => sessions[i].state = "none"

\* The window of a session waiting for frames is not empty.
Ordered == \A i \in Ids : sessions[i].state = "capturing" => sessions[i].first <= sessions[i].last

\* The index A names only sessions of S that carry an event's marker, and
\* all of them when the event's descriptors say pq_event.
Matches(A, S) ==
  \A e \in Events :
    /\ {A[e].onset, A[e].recovery} \ {0} \subseteq Marked(e, S)
    /\ e \in Indexed => Marked(e, S) \subseteq {A[e].onset, A[e].recovery}

IInv ==
  /\ TypeOK
  /\ RingInvariant
  /\ CaptureInvariant
  /\ Pending
  /\ Fresh
  /\ Ordered
  /\ Matches(association, sessions)

\* Until its result is collected a session looks as it did.
LEMMA CollectedShape ==
  ASSUME TypeOK, Pending, NEW i \in Ids
  PROVE  /\ sessions[i] \in Session /\ Collected[i] \in Session
         /\ sessions[i].state = "capturing" => Collected[i] = sessions[i]
         /\ Collected[i].state = "capturing" => Collected[i] = sessions[i]
         /\ Collected[i].state = "queued" => sessions[i].state = "queued"
         /\ sessions[i].state = "none" => Collected[i].state = "none"
         /\ i \in expired => Collected[i].state = "none"
         /\ i \notin expired =>
              /\ Collected[i].state = "none" <=> sessions[i].state = "none"
              /\ Collected[i].markers = sessions[i].markers
<1>1. sessions[i] \in Session BY Zenon DEF TypeOK
<1>2. Collected[i] \in Session BY Zenon, CollectedType
<1>3. CASE i \in expired
  <2>1. Collected[i] = NoSession BY Zenon, <1>3 DEF Collected, CollectedFrom
  <2>2. Collected[i].state = "none" BY <2>1 DEF NoSession
  <2>3. sessions[i].state \in {"queued", "complete"} BY Zenon, <1>3 DEF Pending
  <2> QED BY Zenon, <1>1, <1>2, <1>3, <2>2, <2>3
<1>4. CASE i \notin expired /\ results[i] = "none"
  <2>1. Collected[i] = sessions[i] BY Zenon, <1>4 DEF Collected, CollectedFrom
  <2> QED BY Zenon, <1>1, <1>2, <1>4, <2>1
<1>5. CASE i \notin expired /\ results[i] # "none"
  <2>1. sessions[i].state = "queued" BY Zenon, <1>5 DEF Pending
  <2>2. Collected[i] = [sessions[i] EXCEPT
          !.state = IF results[i] = "ok" THEN "complete" ELSE "incomplete"]
    BY Zenon, <1>5 DEF Collected, CollectedFrom
  <2>3. Collected[i].state \in {"complete", "incomplete"}
        /\ Collected[i].markers = sessions[i].markers
    BY Zenon, <1>1, <2>2 DEF Session
  <2> QED BY Zenon, <1>1, <1>2, <1>5, <2>1, <2>3
<1> QED BY Zenon, <1>3, <1>4, <1>5

\* What the end of a read makes of a session.
LEMMA EndReadShape ==
  ASSUME TypeOK, Pending, EndRead, NEW i \in Ids
  PROVE  /\ sessions[i].state = "capturing" =>
              i \notin expired /\ sessions'[i] = Finished(sessions)[i]
         /\ sessions[i].state # "capturing" => sessions'[i] = Collected[i]
<1>1. sessions' = CollectedFrom(Finished(sessions)) BY Zenon DEF EndRead
<1>2. CASE sessions[i].state = "capturing"
  <2>1. results[i] = "none" /\ i \notin expired BY Zenon, <1>2 DEF Pending
  <2> QED BY Zenon, <1>1, <1>2, <2>1 DEF CollectedFrom
<1>3. CASE sessions[i].state # "capturing"
  <2>1. Finished(sessions)[i] = sessions[i] BY Zenon, <1>3 DEF Finished
  <2> QED BY Zenon, <1>1, <1>3, <2>1 DEF CollectedFrom, Collected
<1> QED BY Zenon, <1>2, <1>3

\* What finishing may change of a session.
LEMMA FinishedShape ==
  ASSUME TypeOK, NEW i \in Ids, sessions[i].state = "capturing"
  PROVE  LET s == sessions[i] t == Finished(sessions)[i]
         IN  /\ t.state = "capturing" => t = s
             /\ t.state \in {"capturing", "queued", "incomplete"}
             /\ t.markers = s.markers
             /\ t.state = "queued" =>
                  /\ latest >= s.last
                  /\ ~Evicted(s)
                  /\ ~IntersectsGap(s.first, s.last)
             /\ t.state = "incomplete" =>
                  \/ Evicted(s)
                  \/ IntersectsGap(s.first, s.last)
                  \/ s.last - s.first + 1 > Capacity
<1> DEFINE s == sessions[i]
           t == Finished(sessions)[i]
           gone == \/ Evicted(s)
                   \/ IntersectsGap(s.first, s.last)
                   \/ s.last - s.first + 1 > Capacity
<1>1. s \in Session /\ s.last \in Nat /\ latest \in Nat BY Zenon DEF TypeOK, Session
<1>2. t = IF latest < s.last THEN s
          ELSE IF gone THEN [s EXCEPT !.state = "incomplete"]
          ELSE [s EXCEPT !.state = "queued"]
  BY Zenon DEF Finished
<1> HIDE DEF t
<1>3. CASE latest < s.last
  <2>1. t = s BY Zenon, <1>2, <1>3
  <2> QED BY Zenon, <2>1 DEF t
<1>4. CASE ~(latest < s.last) /\ gone
  <2>1. t = [s EXCEPT !.state = "incomplete"] BY Zenon, <1>2, <1>4
  <2>2. t.state = "incomplete" /\ t.markers = s.markers BY Zenon, <1>1, <2>1 DEF Session
  <2> QED BY Zenon, <1>4, <2>2 DEF t
<1>5. CASE ~(latest < s.last) /\ ~gone
  <2>1. t = [s EXCEPT !.state = "queued"] BY Zenon, <1>2, <1>5
  <2>2. t.state = "queued" /\ t.markers = s.markers BY Zenon, <1>1, <2>1 DEF Session
  <2> QED BY <1>1, <1>5, <2>2 DEF t
<1> QED BY Zenon, <1>3, <1>4, <1>5 DEF t

\* What giving up may change of a session.
LEMMA AbandonedShape ==
  ASSUME NEW S \in [Ids -> Session], NEW i \in Ids
  PROVE  /\ Abandoned(S)[i].state # "capturing"
         /\ S[i].state # "capturing" => Abandoned(S)[i] = S[i]
         /\ Abandoned(S)[i].state = "none" => S[i].state = "none"
         /\ S[i].state = "none" => Abandoned(S)[i].state = "none"
         /\ S[i].state = "capturing" => Abandoned(S)[i].state = "incomplete"
         /\ Abandoned(S)[i].markers = S[i].markers
<1>1. S[i] \in Session BY Zenon
<1>2. CASE S[i].state = "capturing"
  <2>1. Abandoned(S)[i] = [S[i] EXCEPT !.state = "incomplete"] BY Zenon, <1>2 DEF Abandoned
  <2>2. Abandoned(S)[i].state = "incomplete" /\ Abandoned(S)[i].markers = S[i].markers
    BY Zenon, <1>1, <2>1 DEF Session
  <2> QED BY Zenon, <1>2, <2>2
<1>3. CASE S[i].state # "capturing"
  BY Zenon, <1>3 DEF Abandoned
<1> QED BY Zenon, <1>2, <1>3

-----------------------------------------------------------------------------
\* Sessions waiting for frames.

\* A trigger keeps the invariant of the captures.
LEMMA TriggerCapture ==
  ASSUME IInv, NEW w \in ManualWindows, Trigger(w)
  PROVE  CaptureInvariant' /\ Ordered'
<1> USE DEF IInv
<1> DEFINE S == Collected
           first == Pretrigger(latest, w[1])
           last == latest + w[2]
           active == Capturing(S)
           a == Lowest(active)
<1>1. S \in [Ids -> Session] BY Zenon, CollectedType
<1>2. w[1] \in Nat /\ w[2] \in Nat BY Zenon, HistoryAssumption
<1>3. latest \in Nat /\ oldest \in Nat /\ epoch \in Nat /\ Capacity \in Nat
  BY Zenon, HistoryAssumption DEF TypeOK
<1>4. first \in Nat /\ last \in Nat /\ first <= last
  BY <1>2, <1>3 DEF Pretrigger, Larger
<1>5. active \in SUBSET Ids /\ \A i \in active : S[i].state = "capturing"
  BY Zenon DEF Capturing
<1>6. UNCHANGED stream /\ haveHistory BY Zenon DEF Trigger
<1>7. \/ /\ active # {}
         /\ sessions' =
              [S EXCEPT ![a] =
                [S[a] EXCEPT !.first = Smaller(S[a].first, first),
                             !.last = Larger(S[a].last, last),
                             !.covered = S[a].covered /\ first >= oldest]]
      \/ sessions' =
           [S EXCEPT ![nextId] =
             [state |-> "capturing", first |-> first, last |-> last,
              markers |-> NoMarkers, epoch |-> epoch,
              covered |-> first >= oldest]]
  BY Zenon DEF Trigger
<1>8. \A i \in Ids : S[i].state = "capturing" => S[i] = sessions[i]
  BY Zenon, CollectedShape
<1>9. ASSUME NEW i \in Ids, S[i].state = "capturing"
      PROVE  /\ S[i].epoch = epoch /\ S[i].first <= S[i].last
             /\ S[i].covered => \/ S[i].first >= oldest
                                \/ latest - S[i].first >= Capacity
  BY Zenon, <1>8, <1>9 DEF CaptureInvariant, Ordered
<1> HIDE DEF S, first, last, active
<1> SUFFICES ASSUME NEW i \in Ids, sessions'[i].state = "capturing"
             PROVE  /\ sessions'[i].epoch = epoch
                    /\ sessions'[i].first <= sessions'[i].last
                    /\ sessions'[i].covered =>
                         \/ sessions'[i].first >= oldest
                         \/ latest - sessions'[i].first >= Capacity
  BY Zenon, <1>6 DEF CaptureInvariant, Ordered, stream
<1>10. CASE sessions'[i] = S[i]
  BY Zenon, <1>9, <1>10
<1>11. CASE sessions'[i] =
              [state |-> "capturing", first |-> first, last |-> last,
               markers |-> NoMarkers, epoch |-> epoch, covered |-> first >= oldest]
  <2>1. /\ sessions'[i].first = first /\ sessions'[i].last = last
        /\ sessions'[i].epoch = epoch
        /\ sessions'[i].covered = (first >= oldest)
    BY ONLY <1>11
  <2> QED BY ONLY Zenon, <2>1, <1>4
<1>12. CASE /\ active # {}
            /\ i = a
            /\ sessions'[i] = [S[a] EXCEPT !.first = Smaller(S[a].first, first),
                                !.last = Larger(S[a].last, last),
                                !.covered = S[a].covered /\ first >= oldest]
  <2>1. a \in Ids /\ S[a].state = "capturing" BY Zenon, <1>5, <1>12, LowestIn
  <2> HIDE DEF a
  <2>2. S[a] \in Session BY Zenon, <1>1, <2>1
  <2>3. /\ S[a].epoch = epoch /\ S[a].first <= S[a].last
        /\ S[a].covered => \/ S[a].first >= oldest
                           \/ latest - S[a].first >= Capacity
        /\ S[a].first \in Nat /\ S[a].last \in Nat
    BY Zenon, <1>9, <2>1, <2>2 DEF Session
  <2>4. /\ sessions'[i].epoch = epoch
        /\ sessions'[i].first = Smaller(S[a].first, first)
        /\ sessions'[i].last = Larger(S[a].last, last)
        /\ sessions'[i].covered => S[a].covered /\ first >= oldest
    BY Zenon, <1>12, <2>2, <2>3 DEF Session
  <2> QED BY <2>3, <2>4, <1>3, <1>4 DEF Smaller, Larger
<1> QED BY Zenon, <1>1, <1>7, <1>10, <1>11, <1>12

\* The window of a tracked event is not empty.
LEMMA WindowOrdered ==
  ASSUME TypeOK, NEW anchor \in Nat, NEW w \in EventWindows, CanTrack(w),
         Retained(anchor, w)
  PROVE  WindowFirst(anchor, w) <= WindowLast(anchor, w)
<1>1. w[1] \in Nat /\ w[2] \in Nat BY Zenon, HistoryAssumption
<1>2. oldest \in Nat BY Zenon DEF TypeOK
<1>3. Budget \in Nat BY HistoryAssumption DEF Budget
<1>4. w[1] + w[2] + 1 <= Budget BY Zenon DEF CanTrack
<1> QED BY <1>1, <1>2, <1>3, <1>4
        DEF WindowFirst, WindowLast, Retained, Pretrigger, Larger

\* A session opened for an event begins in the history.
LEMMA NewEventCapture ==
  ASSUME TypeOK, NEW e \in Events, NEW lifecycle, NEW anchor \in Nat,
         NEW w \in EventWindows, CanTrack(w), Retained(anchor, w)
  PROVE  LET s == NewEventSession(e, lifecycle, anchor, w)
         IN  s.epoch = epoch /\ s.first <= s.last /\ s.first >= oldest
BY Zenon, WindowOrdered, WindowType DEF NewEventSession

\* Tracking an event keeps the invariant of the captures.
LEMMA TrackCapture ==
  ASSUME IInv, NEW e \in Events, NEW lifecycle \in {"start", "update", "end"},
         NEW anchor \in Sequences, NEW w \in EventWindows,
         Track(e, lifecycle, anchor, w)
  PROVE  CaptureInvariant' /\ Ordered'
<1> USE DEF IInv
<1> DEFINE S == Collected
<1>1. S \in [Ids -> Session] BY Zenon, CollectedType
<1>2. anchor \in Nat BY HistoryAssumption DEF Sequences
<1>3. latest \in Nat /\ oldest \in Nat /\ epoch \in Nat /\ Capacity \in Nat
  BY Zenon, HistoryAssumption DEF TypeOK
<1>4. UNCHANGED stream /\ CanTrack(w)
  BY Zenon DEF Track, TrackFirst, TrackMarks, TrackMerges, TrackRecovers, TrackThrows
<1>5. haveHistory BY Zenon, <1>4 DEF CanTrack
<1>6. ASSUME NEW i \in Ids, S[i].state = "capturing"
      PROVE  /\ S[i].epoch = epoch /\ S[i].first <= S[i].last
             /\ S[i].covered => \/ S[i].first >= oldest
                                \/ latest - S[i].first >= Capacity
  <2>1. S[i] = sessions[i] BY Zenon, <1>6, CollectedShape
  <2> QED BY Zenon, <1>6, <2>1 DEF CaptureInvariant, Ordered
<1> SUFFICES ASSUME NEW i \in Ids, sessions'[i].state = "capturing"
             PROVE  /\ sessions'[i].epoch = epoch
                    /\ sessions'[i].first <= sessions'[i].last
                    /\ sessions'[i].covered =>
                         \/ sessions'[i].first >= oldest
                         \/ latest - sessions'[i].first >= Capacity
  BY Zenon, <1>4, <1>5 DEF CaptureInvariant, Ordered, stream
<1>7. CASE sessions'[i] = S[i]
  BY Zenon, <1>6, <1>7
<1>8. ASSUME NEW l, Retained(anchor, w),
             sessions'[i] = NewEventSession(e, l, anchor, w)
      PROVE  /\ sessions'[i].epoch = epoch
             /\ sessions'[i].first <= sessions'[i].last
             /\ sessions'[i].first >= oldest
  BY Zenon, <1>2, <1>4, <1>8, NewEventCapture
<1>9. CASE TrackFirst(e, lifecycle, anchor, w)
  <2>1. Retained(anchor, w) BY Zenon, <1>9 DEF TrackFirst
  <2>2. sessions' = [S EXCEPT ![nextId] = NewEventSession(e, lifecycle, anchor, w)]
    BY Zenon, <1>9 DEF TrackFirst
  <2> HIDE DEF S
  <2>3. sessions'[i] \in {S[i], NewEventSession(e, lifecycle, anchor, w)}
    BY Zenon, <1>1, <2>2
  <2> QED BY Zenon, <1>7, <1>8, <2>1, <2>3
<1>10. CASE TrackMarks(e, lifecycle, w)
  <2> DEFINE j == LatestOf(CollectedIndex[e], S)
             m == [S[j].markers EXCEPT ![e] = Marker(lifecycle)]
  <2>1. sessions' = IF S[j].state # "capturing" THEN S
                    ELSE [S EXCEPT ![j] = [S[j] EXCEPT !.markers = m]]
    BY Zenon, <1>10 DEF TrackMarks
  <2> HIDE DEF S, j, m
  <2>2. sessions'[i] = S[i] \/ sessions'[i] = [S[i] EXCEPT !.markers = m]
    BY Zenon, <1>1, <2>1
  <2>3. S[i] \in Session BY Zenon, <1>1
  <2>4. /\ sessions'[i].state = S[i].state /\ sessions'[i].epoch = S[i].epoch
        /\ sessions'[i].first = S[i].first /\ sessions'[i].last = S[i].last
        /\ sessions'[i].covered = S[i].covered
    BY Zenon, <2>2, <2>3 DEF Session
  <2> QED BY Zenon, <1>6, <2>4
<1>11. CASE TrackMerges(e, anchor, w)
  <2> DEFINE j == CollectedIndex[e].onset
             first == WindowFirst(anchor, w)
             last == WindowLast(anchor, w)
             m == [S[j].markers EXCEPT ![e] = "terminal"]
  <2>1. j \in Ids /\ S[j].state = "capturing"
    BY Zenon, <1>11 DEF TrackMerges, AtRecovery, Exists, Mergeable
  <2>2. first \in Nat /\ last \in Nat /\ first >= oldest
    BY Zenon, <1>2, <1>4, <1>11, WindowType DEF TrackMerges
  <2>3. sessions' = [S EXCEPT ![j] =
                      [S[j] EXCEPT !.first = Smaller(S[j].first, first),
                                   !.last = Larger(S[j].last, last),
                                   !.markers = m]]
    BY Zenon, <1>11 DEF TrackMerges
  <2> HIDE DEF S, j, first, last, m
  <2>4. CASE i # j
    BY Zenon, <1>1, <1>7, <2>3, <2>4
  <2>5. CASE i = j
    <3>1. S[j] \in Session BY Zenon, <1>1, <2>1
    <3>2. /\ S[j].epoch = epoch /\ S[j].first <= S[j].last
          /\ S[j].covered => \/ S[j].first >= oldest
                             \/ latest - S[j].first >= Capacity
          /\ S[j].first \in Nat /\ S[j].last \in Nat
      BY Zenon, <1>6, <2>1, <3>1 DEF Session
    <3>3. sessions'[i] = [S[j] EXCEPT !.first = Smaller(S[j].first, first),
                                      !.last = Larger(S[j].last, last),
                                      !.markers = m]
      BY Zenon, <1>1, <2>3, <2>5
    <3>4. /\ sessions'[i].epoch = epoch
          /\ sessions'[i].first = Smaller(S[j].first, first)
          /\ sessions'[i].last = Larger(S[j].last, last)
          /\ sessions'[i].covered = S[j].covered
      BY Zenon, <3>1, <3>2, <3>3 DEF Session
    <3> QED BY <1>3, <2>2, <3>2, <3>4 DEF Smaller, Larger
  <2> QED BY Zenon, <2>4, <2>5
<1>12. CASE TrackRecovers(e, anchor, w)
  <2>1. Retained(anchor, w) BY Zenon, <1>12 DEF TrackRecovers
  <2>2. sessions' = [S EXCEPT ![nextId] = NewEventSession(e, "end", anchor, w)]
    BY Zenon, <1>12 DEF TrackRecovers
  <2> HIDE DEF S
  <2>3. sessions'[i] \in {S[i], NewEventSession(e, "end", anchor, w)}
    BY Zenon, <1>1, <2>2
  <2> QED BY Zenon, <1>7, <1>8, <2>1, <2>3
<1>13. CASE TrackThrows(e, lifecycle, anchor, w)
  BY Zenon, <1>7, <1>13 DEF TrackThrows
<1> QED BY Zenon, <1>9, <1>10, <1>11, <1>12, <1>13 DEF Track

\* Every step keeps the invariant of the captures.
LEMMA CaptureStep == IInv /\ [Next]_vars => CaptureInvariant' /\ Ordered'
<1> SUFFICES ASSUME IInv, [Next]_vars PROVE CaptureInvariant' /\ Ordered'
  BY Zenon
<1> USE DEF IInv
<1>s. sessions \in [Ids -> Session] /\ Collected \in [Ids -> Session]
  BY Zenon, CollectedType DEF TypeOK
<1>k. ASSUME UNCHANGED stream,
             \A i \in Ids : sessions'[i].state = "capturing" => sessions'[i] = sessions[i]
      PROVE  CaptureInvariant' /\ Ordered'
  BY Zenon, <1>k DEF CaptureInvariant, Ordered, stream
<1>c. ASSUME UNCHANGED stream, sessions' = Collected
      PROVE  CaptureInvariant' /\ Ordered'
  BY Zenon, <1>c, <1>k, CollectedShape
<1>a. ASSUME NEW S \in [Ids -> Session], sessions' = Abandoned(S)
      PROVE  CaptureInvariant' /\ Ordered'
  BY Zenon, <1>a, AbandonedShape DEF CaptureInvariant, Ordered
<1>1. CASE Start
  BY Zenon, <1>1, <1>s, <1>a DEF Start
<1>2. CASE Stop
  BY Zenon, <1>2, <1>s, <1>a DEF Stop
<1>3. CASE BeginRead \/ Query
  BY Zenon, <1>3, <1>c DEF BeginRead, Query
<1>4. ASSUME NEW first \in Sequences, NEW g \in Generations, AcceptBlock(first, g)
      PROVE  CaptureInvariant' /\ Ordered'
  <2>1. first \in Nat /\ Block \in Nat \ {0} /\ Capacity \in Nat
        /\ oldest \in Nat /\ latest \in Nat
    BY HistoryAssumption DEF Sequences, TypeOK
  <2>2. sessions' = sessions /\ epoch' = epoch /\ haveHistory'
    BY Zenon, <1>4 DEF AcceptBlock
  <2>3. ASSUME NEW i \in Ids, sessions[i].state = "capturing", sessions[i].covered
        PROVE  sessions[i].first >= oldest' \/ latest' - sessions[i].first >= Capacity
    <3>1. haveHistory /\ (\/ sessions[i].first >= oldest
                          \/ latest - sessions[i].first >= Capacity)
      BY Zenon, <2>3 DEF CaptureInvariant
    <3>2. sessions[i].first \in Nat BY Zenon, <1>s DEF Session
    <3>3. /\ first > latest
          /\ latest' = first + Block - 1
          /\ oldest' = Larger(oldest, first + Block - Capacity)
      BY Zenon, <1>4, <3>1 DEF AcceptBlock
    <3> QED BY <2>1, <3>1, <3>2, <3>3 DEF Larger
  <2> QED BY Zenon, <2>2, <2>3 DEF CaptureInvariant, Ordered
<1>5. ASSUME NEW first \in Sequences, NEW g \in Generations, RejectBlock(first, g)
      PROVE  CaptureInvariant' /\ Ordered'
  BY Zenon, <1>5 DEF RejectBlock, CaptureInvariant, Ordered
<1>6. ASSUME NEW first \in Sequences, NEW g \in Generations,
             AcceptGeneration(first, g)
      PROVE  CaptureInvariant' /\ Ordered'
  BY Zenon, <1>6, <1>s, <1>a DEF AcceptGeneration
<1>7. CASE EndRead
  <2>1. ASSUME NEW i \in Ids, sessions'[i].state = "capturing"
        PROVE  sessions'[i] = sessions[i]
    <3>1. CASE sessions[i].state = "capturing"
      BY Zenon, <1>7, <2>1, <3>1, EndReadShape, FinishedShape
    <3>2. CASE sessions[i].state # "capturing"
      BY Zenon, <1>7, <2>1, <3>2, EndReadShape, CollectedShape
    <3> QED BY Zenon, <3>1, <3>2
  <2> QED BY Zenon, <1>7, <1>k, <2>1 DEF EndRead
<1>8. CASE ReadFails \/ RetentionFinished
  BY Zenon, <1>8, <1>k DEF ReadFails, RetentionFinished
<1>9. ASSUME NEW i \in Ids, WriteFinished(i) PROVE CaptureInvariant' /\ Ordered'
  BY Zenon, <1>9, <1>k DEF WriteFinished
<1>10. ASSUME NEW i \in Ids, Erase(i) PROVE CaptureInvariant' /\ Ordered'
  <2>1. \A j \in Ids : sessions'[j] = IF j = i THEN NoSession ELSE Collected[j]
    BY Zenon, <1>10, <1>s DEF Erase
  <2>2. \A j \in Ids : sessions'[j].state = "capturing" => sessions'[j] = sessions[j]
    BY <2>1, CollectedShape DEF NoSession
  <2> QED BY Zenon, <1>10, <1>k, <2>2 DEF Erase
<1>11. CASE \E w \in ManualWindows : Trigger(w)
  BY Zenon, <1>11, TriggerCapture
<1>12. CASE \E e \in Events, lifecycle \in {"start", "update", "end"},
              anchor \in Sequences, w \in EventWindows : Track(e, lifecycle, anchor, w)
  BY Zenon, <1>12, TrackCapture
<1>13. CASE UNCHANGED vars
  BY Zenon, <1>13, <1>k DEF vars
<1> QED
  BY Zenon, <1>1, <1>2, <1>3, <1>4, <1>5, <1>6, <1>7, <1>8, <1>9, <1>10, <1>11, <1>12,
     <1>13 DEF Next

-----------------------------------------------------------------------------
\* Results and ids.

\* Every step keeps the bookkeeping of results and ids.
LEMMA BookStep == IInv /\ [Next]_vars => Pending' /\ Fresh'
<1> SUFFICES ASSUME IInv, [Next]_vars PROVE Pending' /\ Fresh'
  BY Zenon
<1> USE DEF IInv
<1>s. sessions \in [Ids -> Session] /\ Collected \in [Ids -> Session]
  BY Zenon, CollectedType DEF TypeOK
<1>n. nextId \in Nat /\ Ids \subseteq Nat BY HistoryAssumption DEF TypeOK, Ids
<1>e. \A i \in Ids : i >= nextId => Collected[i].state = "none"
  BY Zenon, CollectedShape DEF Fresh
<1>p. ASSUME Collect PROVE Pending'
  BY Zenon, <1>p DEF Collect, Pending
<1>q. ASSUME UNCHANGED <<results, expired, nextId>>,
             \A i \in Ids : sessions[i].state \in {"queued", "complete", "none"} =>
                             sessions'[i].state = sessions[i].state
      PROVE  Pending' /\ Fresh'
  BY Zenon, <1>q DEF Pending, Fresh, TypeOK
<1>f. ASSUME nextId' = nextId,
             \A i \in Ids : sessions[i].state = "none" => sessions'[i].state = "none"
      PROVE  Fresh'
  BY Zenon, <1>f DEF Fresh
<1>c. ASSUME Collect, nextId' = nextId, sessions' = Collected PROVE Pending' /\ Fresh'
  BY Zenon, <1>c, <1>p, <1>e DEF Fresh
<1>w. ASSUME nextId' = nextId + 1, NEW s, sessions' = [Collected EXCEPT ![nextId] = s]
      PROVE  Fresh'
  BY <1>w, <1>e, <1>n, <1>s DEF Fresh
<1>o. ASSUME nextId' = nextId, NEW j \in Ids, NEW s, Collected[j].state # "none",
             sessions' = [Collected EXCEPT ![j] = s]
      PROVE  Fresh'
  BY Zenon, <1>o, <1>e, <1>n, <1>s DEF Fresh
<1>a. ASSUME UNCHANGED <<results, expired, nextId>>, sessions' = Abandoned(sessions)
      PROVE  Pending' /\ Fresh'
  BY Zenon, <1>a, <1>q, <1>s, AbandonedShape
<1>d. \A j \in OnDisk : sessions[j].state \in {"queued", "complete"}
  BY Zenon DEF OnDisk, Pending
<1>1. CASE Start
  BY Zenon, <1>1, <1>a DEF Start
<1>2. CASE Stop
  <2>1. Fresh'
    BY Zenon, <1>2, <1>s, <1>e, AbandonedShape DEF Stop, Fresh
  <2> QED BY Zenon, <1>2, <1>p, <2>1 DEF Stop
<1>3. CASE BeginRead \/ Query
  BY Zenon, <1>3, <1>c DEF BeginRead, Query
<1>4. ASSUME NEW first \in Sequences, NEW g \in Generations,
             AcceptBlock(first, g) \/ RejectBlock(first, g)
      PROVE  Pending' /\ Fresh'
  BY Zenon, <1>4, <1>q DEF AcceptBlock, RejectBlock
<1>5. ASSUME NEW first \in Sequences, NEW g \in Generations,
             AcceptGeneration(first, g)
      PROVE  Pending' /\ Fresh'
  BY Zenon, <1>5, <1>a DEF AcceptGeneration
<1>6. CASE EndRead
  <2>1. \A i \in Ids : sessions[i].state = "none" => sessions'[i].state = "none"
    BY Zenon, <1>6, EndReadShape, CollectedShape
  <2> QED BY ZenonT(40), <1>6, <1>p, <1>f, <2>1 DEF EndRead
<1>7. CASE ReadFails
  BY Zenon, <1>7, <1>q DEF ReadFails
<1>8. ASSUME NEW i \in Ids, WriteFinished(i) PROVE Pending' /\ Fresh'
  <2>1. sessions' = sessions /\ nextId' = nextId /\ sessions[i].state = "queued"
        /\ \A j \in Ids \ {i} : results'[j] = results[j]
    BY Zenon, <1>8 DEF WriteFinished, TypeOK
  <2>2. \A j \in expired' : j \in expired \/ j \in OnDisk
    BY Zenon, <1>8 DEF WriteFinished
  <2> QED BY Zenon, <1>d, <2>1, <2>2 DEF Pending, Fresh
<1>9. ASSUME NEW i \in Ids, Erase(i) PROVE Pending' /\ Fresh'
  BY Zenon, <1>9, <1>p, <1>o DEF Erase
<1>10. ASSUME NEW w \in ManualWindows, Trigger(w) PROVE Pending' /\ Fresh'
  <2> DEFINE active == Capturing(Collected)
             a == Lowest(active)
  <2>1. \/ /\ active # {} /\ nextId' = nextId
           /\ \E s : sessions' = [Collected EXCEPT ![a] = s]
        \/ /\ nextId' = nextId + 1
           /\ \E s : sessions' = [Collected EXCEPT ![nextId] = s]
    BY Zenon, <1>10 DEF Trigger
  <2>2. active # {} => a \in Ids /\ Collected[a].state = "capturing"
    <3>1. active \in SUBSET Ids /\ \A i \in active : Collected[i].state = "capturing"
      BY Zenon DEF Capturing
    <3> HIDE DEF active
    <3> QED BY Zenon, <3>1, LowestIn
  <2> HIDE DEF active, a
  <2>3. Fresh' BY Zenon, <1>o, <1>w, <2>1, <2>2
  <2> QED BY Zenon, <1>10, <1>p, <2>3 DEF Trigger
<1>11. ASSUME NEW e \in Events, NEW lifecycle \in {"start", "update", "end"},
              NEW anchor \in Sequences, NEW w \in EventWindows,
              Track(e, lifecycle, anchor, w)
       PROVE  Pending' /\ Fresh'
  <2>1. CASE TrackFirst(e, lifecycle, anchor, w)
    BY Zenon, <1>p, <1>w, <2>1 DEF TrackFirst
  <2>2. CASE TrackMarks(e, lifecycle, w)
    <3> DEFINE i == LatestOf(CollectedIndex[e], Collected)
    <3>1. i \in Ids /\ Collected[i].state # "none" /\ nextId' = nextId /\ Collect
      BY Zenon, <2>2 DEF TrackMarks, Exists
    <3>2. \/ sessions' = Collected
          \/ \E s : sessions' = [Collected EXCEPT ![i] = s]
      BY Zenon, <2>2 DEF TrackMarks
    <3> HIDE DEF i
    <3> QED BY Zenon, <1>p, <1>c, <1>o, <3>1, <3>2
  <2>3. CASE TrackMerges(e, anchor, w)
    <3> DEFINE i == CollectedIndex[e].onset
    <3>1. i \in Ids /\ Collected[i].state # "none" /\ nextId' = nextId /\ Collect
      BY Zenon, <2>3 DEF TrackMerges, AtRecovery, Exists
    <3>2. \E s : sessions' = [Collected EXCEPT ![i] = s]
      BY Zenon, <2>3 DEF TrackMerges
    <3> HIDE DEF i
    <3> QED BY Zenon, <1>p, <1>o, <3>1, <3>2
  <2>4. CASE TrackRecovers(e, anchor, w)
    BY Zenon, <1>p, <1>w, <2>4 DEF TrackRecovers
  <2>5. CASE TrackThrows(e, lifecycle, anchor, w)
    BY Zenon, <1>c, <2>5 DEF TrackThrows
  <2> QED BY Zenon, <1>11, <2>1, <2>2, <2>3, <2>4, <2>5 DEF Track
<1>12. CASE RetentionFinished
  <2>1. sessions' = sessions /\ nextId' = nextId /\ results' = results
        /\ \A j \in expired' : j \in expired \/ j \in OnDisk
    BY Zenon, <1>12 DEF RetentionFinished
  <2> QED BY Zenon, <1>d, <2>1 DEF Pending, Fresh
<1>13. CASE UNCHANGED vars
  BY Zenon, <1>13, <1>q DEF vars
<1> QED
  BY ZenonT(40), <1>1, <1>2, <1>3, <1>4, <1>5, <1>6, <1>7, <1>8, <1>9, <1>10, <1>11, <1>12,
     <1>13 DEF Next

-----------------------------------------------------------------------------
\* The event index.

\* Only the existence and the markers of sessions matter.
LEMMA MatchesSame ==
  ASSUME NEW A, NEW S, NEW R, Matches(A, S),
         \A i \in Ids : /\ R[i].state = "none" <=> S[i].state = "none"
                        /\ R[i].markers = S[i].markers
  PROVE  Matches(A, R)
<1>1. \A e \in Events : Marked(e, R) = Marked(e, S) BY Zenon DEF Marked
<1> QED BY Zenon, <1>1 DEF Matches

\* A new session n for event e, entered in the index.
LEMMA MatchesAdded ==
  ASSUME NEW A \in [Events -> Association], NEW S \in [Ids -> Session],
         NEW e \in Events, NEW s, NEW a, NEW n \in Ids,
         Matches(A, S),
         S[n].state = "none",
         s.state # "none",
         \A f \in Events : s.markers[f] # "absent" <=> f = e,
         {a.onset, a.recovery} \ {0, n} \subseteq Marked(e, S),
         n \in {a.onset, a.recovery},
         e \in Indexed => Marked(e, S) \subseteq {a.onset, a.recovery}
  PROVE  Matches([A EXCEPT ![e] = a], [S EXCEPT ![n] = s])
<1> DEFINE B == [A EXCEPT ![e] = a]
           R == [S EXCEPT ![n] = s]
<1>1. B[e] = a /\ \A f \in Events \ {e} : B[f] = A[f] BY Zenon
<1>2. R[n] = s /\ \A i \in Ids \ {n} : R[i] = S[i] BY Zenon
<1> HIDE DEF B, R
<1>3. Marked(e, R) = Marked(e, S) \cup {n}
  BY SMTT(30), <1>2 DEF Marked
<1>4. \A f \in Events \ {e} : Marked(f, R) = Marked(f, S)
  BY SMTT(30), <1>2 DEF Marked
<1>5. Matches(B, R) BY <1>1, <1>3, <1>4 DEF Matches
<1> QED BY Zenon, <1>5 DEF B, R

\* A new session without event markers.
LEMMA MatchesManual ==
  ASSUME NEW A, NEW S \in [Ids -> Session], NEW s, NEW n \in Ids,
         Matches(A, S), S[n].state = "none", s.markers = NoMarkers
  PROVE  Matches(A, [S EXCEPT ![n] = s])
<1>1. \A e \in Events : Marked(e, [S EXCEPT ![n] = s]) = Marked(e, S)
  BY Zenon DEF Marked, NoMarkers
<1> QED BY Zenon, <1>1 DEF Matches

\* The marker of e in one of its sessions is rewritten.
LEMMA MatchesMarked ==
  ASSUME NEW A, NEW S \in [Ids -> Session], NEW e \in Events, NEW i \in Ids, NEW s,
         Matches(A, S),
         i \in {A[e].onset, A[e].recovery},
         S[i].state # "none",
         s.state # "none",
         s.markers[e] # "absent",
         \A f \in Events \ {e} : s.markers[f] = S[i].markers[f]
  PROVE  Matches(A, [S EXCEPT ![i] = s])
<1> DEFINE R == [S EXCEPT ![i] = s]
<1>1. R[i] = s /\ \A j \in Ids \ {i} : R[j] = S[j] BY Zenon
<1> HIDE DEF R
<1>2. i # 0 BY DEF Ids
<1>3. i \in Marked(e, S) BY Zenon, <1>2 DEF Matches
<1>4. \A f \in Events : Marked(f, R) = Marked(f, S)
  BY <1>1, <1>3 DEF Marked
<1>5. Matches(A, R) BY Zenon, <1>4 DEF Matches
<1> QED BY Zenon, <1>5 DEF R

\* The rebuilt index names the sessions of an event, and all of them as long
\* as there are at most two.
LEMMA RebuiltIndex ==
  ASSUME NEW S, NEW e \in Events, NEW x, NEW y, Found(e, S) \subseteq {x, y}
  PROVE  /\ {Rebuilt(S)[e].onset, Rebuilt(S)[e].recovery} \ {0} \subseteq Found(e, S)
         /\ Found(e, S) \subseteq {Rebuilt(S)[e].onset, Rebuilt(S)[e].recovery}
<1> DEFINE all == Found(e, S)
           onset == IF all = {} THEN 0 ELSE Lowest(all)
           rest == all \ {onset}
           recovery == IF rest = {} THEN 0 ELSE Lowest(rest)
<1>1. all \in SUBSET Ids BY Zenon DEF Found, Marked
<1>2. Rebuilt(S)[e].onset = onset /\ Rebuilt(S)[e].recovery = recovery
  BY Zenon DEF Rebuilt
<1> HIDE DEF all
<1>3. IF all = {} THEN onset = 0 ELSE onset \in all BY Zenon, <1>1, LowestIn
<1> HIDE DEF onset
<1>4. rest \in SUBSET Ids /\ rest = all \ {onset} BY Zenon, <1>1
<1> HIDE DEF rest
<1>5. IF rest = {} THEN recovery = 0 ELSE recovery \in rest BY Zenon, <1>4, LowestIn
<1> HIDE DEF recovery
<1>6. all \subseteq {x, y} BY Zenon DEF all
<1>7. all \subseteq {onset, recovery} BY Zenon, <1>3, <1>4, <1>5, <1>6
<1>8. \A i \in {onset, recovery} \ {0} : i \in all BY Zenon, <1>3, <1>4, <1>5
<1> QED BY Zenon, <1>2, <1>7, <1>8 DEF all

\* The index rebuilt from the sessions matches them.
LEMMA RebuiltMatches ==
  ASSUME NEW A, NEW S, NEW R, Matches(A, S),
         \A e \in Events : Marked(e, R) \subseteq Marked(e, S)
  PROVE  Matches(Rebuilt(R), R)
<1> SUFFICES ASSUME NEW e \in Events
             PROVE  /\ {Rebuilt(R)[e].onset, Rebuilt(R)[e].recovery} \ {0}
                         \subseteq Marked(e, R)
                    /\ e \in Indexed =>
                         Marked(e, R) \subseteq {Rebuilt(R)[e].onset, Rebuilt(R)[e].recovery}
  BY Zenon DEF Matches
<1>1. Found(e, R) \subseteq {A[e].onset, A[e].recovery} BY Zenon DEF Matches, Found
<1>2. Found(e, R) \subseteq Marked(e, R) /\ (e \in Indexed => Marked(e, R) = Found(e, R))
  BY Zenon DEF Found
<1> QED BY ZenonT(40), <1>1, <1>2, RebuiltIndex

\* The index after a collection matches the sessions after it.
LEMMA CollectedMatches ==
  ASSUME IInv, NEW S,
         \A i \in Ids :
           IF i \in expired THEN S[i].state = "none"
           ELSE /\ S[i].state = "none" <=> sessions[i].state = "none"
                /\ S[i].markers = sessions[i].markers
  PROVE  Matches(IndexOf(S), S)
<1>0. Matches(association, sessions) BY Zenon DEF IInv
<1>1. CASE expired = {}
  <2>1. Matches(association, S) BY <1>0, <1>1, MatchesSame
  <2> QED BY Zenon, <1>1, <2>1 DEF IndexOf
<1>2. CASE expired # {}
  <2>1. \A e \in Events : Marked(e, S) \subseteq Marked(e, sessions) BY Zenon DEF Marked
  <2>2. Matches(Rebuilt(S), S) BY Zenon, <1>0, <2>1, RebuiltMatches
  <2> QED BY Zenon, <1>2, <2>2 DEF IndexOf
<1> QED BY Zenon, <1>1, <1>2

\* Every step keeps the index matching the sessions.
LEMMA IndexStep == IInv /\ [Next]_vars => Matches(association, sessions)'
<1> SUFFICES ASSUME IInv, [Next]_vars PROVE Matches(association', sessions')
  BY Zenon DEF Matches, Marked
<1>i. TypeOK /\ Pending /\ Fresh /\ Matches(association, sessions) BY Zenon DEF IInv
<1>s. sessions \in [Ids -> Session] /\ Collected \in [Ids -> Session]
  BY Zenon, <1>i, CollectedType DEF TypeOK
<1>x. CollectedIndex \in [Events -> Association]
  BY Zenon, <1>i, <1>s, IndexOfType DEF CollectedIndex
<1>m. Matches(CollectedIndex, Collected)
  <2>1. \A i \in Ids :
          IF i \in expired THEN Collected[i].state = "none"
          ELSE /\ Collected[i].state = "none" <=> sessions[i].state = "none"
               /\ Collected[i].markers = sessions[i].markers
    BY ZenonT(40), <1>i, CollectedShape
  <2> QED BY Zenon, <2>1, CollectedMatches DEF CollectedIndex
<1>n. nextId <= MaxSession => nextId \in Ids /\ Collected[nextId].state = "none"
  <2>1. nextId <= MaxSession => nextId \in Ids /\ sessions[nextId].state = "none"
    BY <1>i, HistoryAssumption DEF TypeOK, Ids, Fresh
  <2> QED BY Zenon, <1>i, <2>1, CollectedShape
<1>k. ASSUME association' = association, sessions' = sessions
      PROVE  Matches(association', sessions')
  BY Zenon, <1>i, <1>k
<1>c. ASSUME association' = CollectedIndex, sessions' = Collected
      PROVE  Matches(association', sessions')
  BY Zenon, <1>c, <1>m
<1>a. ASSUME association' = association, sessions' = Abandoned(sessions)
      PROVE  Matches(association', sessions')
  <2>1. \A i \in Ids : /\ sessions'[i].state = "none" <=> sessions[i].state = "none"
                       /\ sessions'[i].markers = sessions[i].markers
    BY Zenon, <1>a, <1>s, AbandonedShape
  <2> QED BY <1>a, <1>i, <2>1, MatchesSame
<1>1. CASE Start
  BY Zenon, <1>1, <1>a DEF Start
<1>2. CASE Stop
  <2>1. \A i \in Ids : /\ sessions'[i].state = "none" <=> Collected[i].state = "none"
                       /\ sessions'[i].markers = Collected[i].markers
    BY Zenon, <1>2, <1>s, AbandonedShape DEF Stop
  <2>2. association' = CollectedIndex BY Zenon, <1>2 DEF Stop
  <2> QED BY Zenon, <1>m, <2>1, <2>2, MatchesSame
<1>3. CASE BeginRead \/ Query
  BY Zenon, <1>3, <1>c DEF BeginRead, Query
<1>4. ASSUME NEW first \in Sequences, NEW g \in Generations,
             AcceptBlock(first, g) \/ RejectBlock(first, g)
      PROVE  Matches(association', sessions')
  BY Zenon, <1>4, <1>k DEF AcceptBlock, RejectBlock
<1>5. ASSUME NEW first \in Sequences, NEW g \in Generations,
             AcceptGeneration(first, g)
      PROVE  Matches(association', sessions')
  BY Zenon, <1>5, <1>a DEF AcceptGeneration
<1>6. CASE EndRead
  <2>1. ASSUME NEW i \in Ids
        PROVE  IF i \in expired THEN sessions'[i].state = "none"
               ELSE /\ sessions'[i].state = "none" <=> sessions[i].state = "none"
                    /\ sessions'[i].markers = sessions[i].markers
    <3>1. CASE sessions[i].state = "capturing"
      <4>1. i \notin expired /\ sessions'[i] = Finished(sessions)[i]
        BY Zenon, <1>6, <1>i, <3>1, EndReadShape
      <4>2. /\ Finished(sessions)[i].state # "none"
            /\ Finished(sessions)[i].markers = sessions[i].markers
        BY ZenonT(40), <1>i, <3>1, FinishedShape
      <4> QED BY Zenon, <3>1, <4>1, <4>2
    <3>2. CASE sessions[i].state # "capturing"
      <4>1. sessions'[i] = Collected[i] BY Zenon, <1>6, <1>i, <3>2, EndReadShape
      <4> QED BY Zenon, <1>i, <4>1, CollectedShape
    <3> QED BY Zenon, <3>1, <3>2
  <2>2. association' = IndexOf(sessions') BY Zenon, <1>6 DEF EndRead
  <2> QED BY Zenon, <2>1, <2>2, CollectedMatches
<1>7. CASE ReadFails \/ RetentionFinished
  BY Zenon, <1>7, <1>k DEF ReadFails, RetentionFinished
<1>8. ASSUME NEW i \in Ids, WriteFinished(i) PROVE Matches(association', sessions')
  BY Zenon, <1>8, <1>k DEF WriteFinished
<1>9. ASSUME NEW i \in Ids, Erase(i) PROVE Matches(association', sessions')
  <2>1. association' = Rebuilt(sessions') BY Zenon, <1>9 DEF Erase
  <2>2. \A j \in Ids : sessions'[j] = IF j = i THEN NoSession ELSE Collected[j]
    BY Zenon, <1>9, <1>s DEF Erase
  <2>3. \A e \in Events : Marked(e, sessions') \subseteq Marked(e, Collected)
    BY <2>2 DEF Marked, NoSession
  <2> QED BY Zenon, <1>m, <2>1, <2>3, RebuiltMatches
<1>10. ASSUME NEW w \in ManualWindows, Trigger(w) PROVE Matches(association', sessions')
  <2> DEFINE active == Capturing(Collected)
             a == Lowest(active)
             first == Pretrigger(latest, w[1])
             last == latest + w[2]
             x == Smaller(Collected[a].first, first)
             y == Larger(Collected[a].last, last)
             z == Collected[a].covered /\ first >= oldest
             longer == [Collected[a] EXCEPT !.first = x, !.last = y, !.covered = z]
             new == [state |-> "capturing", first |-> first, last |-> last,
                     markers |-> NoMarkers, epoch |-> epoch,
                     covered |-> first >= oldest]
  <2>0. association' = CollectedIndex BY Zenon, <1>10 DEF Trigger
  <2>1. new.markers = NoMarkers BY Zenon
  <2>2. \/ active # {} /\ sessions' = [Collected EXCEPT ![a] = longer]
        \/ nextId <= MaxSession /\ sessions' = [Collected EXCEPT ![nextId] = new]
    BY Zenon, <1>10 DEF Trigger
  <2>3. active \in SUBSET Ids BY Zenon DEF Capturing
  <2> HIDE DEF active, first, last, x, y, z, new
  <2>4. CASE active # {} /\ sessions' = [Collected EXCEPT ![a] = longer]
    <3>1. a \in Ids BY Zenon, <2>3, <2>4, LowestIn
    <3> HIDE DEF a
    <3>2. Collected[a] \in Session BY Zenon, <1>s, <3>1
    <3>3. longer.state = Collected[a].state /\ longer.markers = Collected[a].markers
      BY Zenon, <3>2 DEF Session
    <3> HIDE DEF longer
    <3>4. \A i \in Ids : /\ sessions'[i].state = "none" <=> Collected[i].state = "none"
                         /\ sessions'[i].markers = Collected[i].markers
      BY Zenon, <1>s, <2>4, <3>1, <3>3
    <3> QED BY Zenon, <1>m, <2>0, <3>4, MatchesSame
  <2>5. CASE nextId <= MaxSession /\ sessions' = [Collected EXCEPT ![nextId] = new]
    <3>1. Matches(CollectedIndex, [Collected EXCEPT ![nextId] = new])
      BY ZenonT(40), <1>m, <1>n, <1>s, <2>1, <2>5, MatchesManual
    <3> QED BY Zenon, <2>0, <2>5, <3>1
  <2> QED BY Zenon, <2>2, <2>4, <2>5
<1>11. ASSUME NEW e \in Events, NEW lifecycle \in {"start", "update", "end"},
              NEW anchor \in Sequences, NEW w \in EventWindows,
              Track(e, lifecycle, anchor, w)
       PROVE  Matches(association', sessions')
  <2> DEFINE A == CollectedIndex
             S == Collected
  <2>a. /\ A \in [Events -> Association] /\ A[e] \in Association
        /\ S \in [Ids -> Session] /\ Matches(A, S)
        /\ nextId <= MaxSession => nextId \in Ids /\ S[nextId].state = "none"
    BY Zenon, <1>m, <1>n, <1>s, <1>x
  <2>1. CASE TrackFirst(e, lifecycle, anchor, w)
    <3> DEFINE s == NewEventSession(e, lifecycle, anchor, w)
               b == [onset |-> IF lifecycle = "start" THEN nextId ELSE 0,
                     recovery |-> IF lifecycle = "start" THEN 0 ELSE nextId,
                     terminal |-> lifecycle = "end"]
    <3>1. s.state # "none" /\ \A f \in Events : s.markers[f] # "absent" <=> f = e
      BY Zenon DEF NewEventSession, Marker, NoMarkers
    <3>2. /\ nextId <= MaxSession
          /\ sessions' = [S EXCEPT ![nextId] = s]
          /\ association' = [A EXCEPT ![e] = b]
      BY Zenon, <2>1 DEF TrackFirst
    <3>3. ~Exists(A[e].recovery, S) /\ ~Exists(A[e].onset, S)
      BY Zenon, <2>1 DEF TrackFirst, LatestOf
    <3> HIDE DEF s, A, S
    <3>4. e \in Indexed => Marked(e, S) = {}
      <4>1. e \in Indexed => Marked(e, S) \subseteq {A[e].onset, A[e].recovery}
        BY Zenon, <2>a DEF Matches
      <4>2. A[e].onset \notin Marked(e, S) /\ A[e].recovery \notin Marked(e, S)
        BY Zenon, <3>3 DEF Marked, Exists
      <4> QED BY Zenon, <4>1, <4>2
    <3>5. {b.onset, b.recovery} \subseteq {0, nextId} /\ nextId \in {b.onset, b.recovery}
      BY Zenon
    <3> HIDE DEF b
    <3>6. Matches([A EXCEPT ![e] = b], [S EXCEPT ![nextId] = s])
      BY Zenon, <2>a, <3>1, <3>2, <3>4, <3>5, MatchesAdded
    <3> QED BY Zenon, <3>2, <3>6
  <2>2. CASE TrackMarks(e, lifecycle, w)
    <3> DEFINE i == LatestOf(A[e], S)
               m == [S[i].markers EXCEPT ![e] = Marker(lifecycle)]
               s == [S[i] EXCEPT !.markers = m]
    <3>1. i \in Ids /\ S[i].state # "none" /\ association' = A
      BY Zenon, <2>2 DEF TrackMarks, Exists
    <3>2. \/ sessions' = S
          \/ sessions' = [S EXCEPT ![i] = s]
      BY Zenon, <2>2 DEF TrackMarks
    <3>3. i \in {A[e].onset, A[e].recovery} BY Zenon DEF LatestOf
    <3> HIDE DEF i, A, S
    <3>4. S[i] \in Session BY Zenon, <2>a, <3>1
    <3>5. /\ m \in Markers /\ m[e] # "absent"
          /\ \A f \in Events \ {e} : m[f] = S[i].markers[f]
      BY Zenon, <3>4 DEF Session, Markers, Marker
    <3> HIDE DEF m
    <3>6. s.state # "none" /\ s.markers = m
      BY Zenon, <3>1, <3>4, <3>5 DEF Session
    <3> HIDE DEF s
    <3>7. s.markers[e] # "absent" /\ \A f \in Events \ {e} : s.markers[f] = S[i].markers[f]
      BY Zenon, <3>5, <3>6
    <3>8. Matches(A, [S EXCEPT ![i] = s])
      BY Zenon, <2>a, <3>1, <3>3, <3>6, <3>7, MatchesMarked
    <3> QED BY Zenon, <2>a, <3>1, <3>2, <3>8
  <2>3. CASE TrackMerges(e, anchor, w)
    <3> DEFINE i == A[e].onset
               x == Smaller(S[i].first, WindowFirst(anchor, w))
               y == Larger(S[i].last, WindowLast(anchor, w))
               m == [S[i].markers EXCEPT ![e] = "terminal"]
               s == [S[i] EXCEPT !.first = x, !.last = y, !.markers = m]
               b == [A[e] EXCEPT !.terminal = TRUE]
    <3>1. i \in Ids /\ S[i].state # "none"
      BY Zenon, <2>3 DEF TrackMerges, AtRecovery, Exists
    <3>2. sessions' = [S EXCEPT ![i] = s] /\ association' = [A EXCEPT ![e] = b]
      BY Zenon, <2>3 DEF TrackMerges
    <3>3. i \in {A[e].onset, A[e].recovery} BY Zenon
    <3> HIDE DEF A, S
    <3>4. b.onset = A[e].onset /\ b.recovery = A[e].recovery
      BY Zenon, <2>a DEF Association
    <3> HIDE DEF i, x, y, b
    <3>5. S[i] \in Session BY Zenon, <2>a, <3>1
    <3>6. /\ m \in Markers /\ m[e] # "absent"
          /\ \A f \in Events \ {e} : m[f] = S[i].markers[f]
      BY Zenon, <3>5 DEF Session, Markers
    <3> HIDE DEF m
    <3>7. s.state # "none" /\ s.markers = m
      BY Zenon, <3>1, <3>5, <3>6 DEF Session
    <3> HIDE DEF s
    <3>8. s.markers[e] # "absent" /\ \A f \in Events \ {e} : s.markers[f] = S[i].markers[f]
      BY Zenon, <3>6, <3>7
    <3>9. Matches(A, [S EXCEPT ![i] = s])
      BY Zenon, <2>a, <3>1, <3>3, <3>7, <3>8, MatchesMarked
    <3>10. Matches(A, sessions') BY Zenon, <3>2, <3>9
    <3>11. \A f \in Events : /\ association'[f].onset = A[f].onset
                             /\ association'[f].recovery = A[f].recovery
      BY <2>a, <3>2, <3>4
    <3> QED BY Zenon, <3>10, <3>11 DEF Matches
  <2>4. CASE TrackRecovers(e, anchor, w)
    <3> DEFINE s == NewEventSession(e, "end", anchor, w)
               b == Recovered(A[e], nextId)
    <3>1. s.state # "none" /\ \A f \in Events : s.markers[f] # "absent" <=> f = e
      BY Zenon DEF NewEventSession, Marker, NoMarkers
    <3>2. /\ nextId <= MaxSession
          /\ sessions' = [S EXCEPT ![nextId] = s]
          /\ association' = [A EXCEPT ![e] = b]
      BY Zenon, <2>4 DEF TrackRecovers
    <3>3. ~Exists(A[e].recovery, S)
      BY Zenon, <2>4 DEF TrackRecovers, AtRecovery
    <3> HIDE DEF s, A, S
    <3>4. b.onset = A[e].onset /\ b.recovery = nextId
      BY Zenon, <2>a DEF Association, Recovered
    <3> HIDE DEF b
    <3>5. e \in Indexed => Marked(e, S) \subseteq {A[e].onset}
      BY Zenon, <2>a, <3>3 DEF Matches, Marked, Exists
    <3>6. {A[e].onset} \ {0} \subseteq Marked(e, S) BY Zenon, <2>a DEF Matches
    <3>7. /\ {b.onset, b.recovery} \ {0, nextId} \subseteq Marked(e, S)
          /\ nextId \in {b.onset, b.recovery}
          /\ e \in Indexed => Marked(e, S) \subseteq {b.onset, b.recovery}
      BY Zenon, <3>4, <3>5, <3>6
    <3>8. Matches([A EXCEPT ![e] = b], [S EXCEPT ![nextId] = s])
      BY Zenon, <2>a, <3>1, <3>2, <3>7, MatchesAdded
    <3> QED BY Zenon, <3>2, <3>8
  <2>5. CASE TrackThrows(e, lifecycle, anchor, w)
    <3>1. sessions' = S BY Zenon, <2>5 DEF TrackThrows
    <3>2. CASE association' = A BY Zenon, <2>a, <3>1, <3>2
    <3>3. CASE association' # A
      <4>1. ~Exists(LatestOf(A[e], S), S) /\ association' = [A EXCEPT ![e] = NoAssociation]
        BY Zenon, <2>5, <3>3 DEF TrackThrows
      <4>2. ~Exists(A[e].recovery, S) /\ ~Exists(A[e].onset, S) BY Zenon, <4>1 DEF LatestOf
      <4> HIDE DEF A, S
      <4>3. e \in Indexed => Marked(e, S) = {}
        <5>1. e \in Indexed => Marked(e, S) \subseteq {A[e].onset, A[e].recovery}
          BY Zenon, <2>a DEF Matches
        <5>2. A[e].onset \notin Marked(e, S) /\ A[e].recovery \notin Marked(e, S)
          BY Zenon, <4>2 DEF Marked, Exists
        <5> QED BY Zenon, <5>1, <5>2
      <4>4. association'[e] = NoAssociation /\ \A f \in Events \ {e} : association'[f] = A[f]
        BY Zenon, <2>a, <4>1
      <4>5. Matches(association', S)
        <5>1. association'[e].onset = 0 /\ association'[e].recovery = 0
          BY <4>4 DEF NoAssociation
        <5>2. /\ {association'[e].onset, association'[e].recovery} \ {0} \subseteq Marked(e, S)
              /\ e \in Indexed =>
                   Marked(e, S) \subseteq {association'[e].onset, association'[e].recovery}
          BY Zenon, <4>3, <5>1
        <5>3. \A f \in Events \ {e} :
                /\ {association'[f].onset, association'[f].recovery} \ {0} \subseteq Marked(f, S)
                /\ f \in Indexed =>
                     Marked(f, S) \subseteq {association'[f].onset, association'[f].recovery}
          BY Zenon, <2>a, <4>4 DEF Matches
        <5> QED BY Zenon, <5>2, <5>3 DEF Matches
      <4> QED BY Zenon, <3>1, <4>5
    <3> QED BY Zenon, <3>2, <3>3
  <2> QED BY Zenon, <1>11, <2>1, <2>2, <2>3, <2>4, <2>5 DEF Track
<1>12. CASE UNCHANGED vars
  BY Zenon, <1>12, <1>k DEF vars
<1> QED
  BY Zenon, <1>1, <1>2, <1>3, <1>4, <1>5, <1>6, <1>7, <1>8, <1>9, <1>10, <1>11, <1>12
     DEF Next

-----------------------------------------------------------------------------
\* The theorems.

\* The invariant holds at the start.
LEMMA InitInvariant == Init => IInv
<1> SUFFICES ASSUME Init PROVE IInv
  BY Zenon
<1>1. \A i \in Ids : sessions[i] = NoSession /\ results[i] = "none" BY Zenon DEF Init
<1>2. \A i \in Ids : sessions[i].state = "none" BY SMTT(30), <1>1 DEF NoSession
<1>3. TypeOK
  <2>1. NoSession \in Session BY Zenon DEF NoSession, Session, States, Markers, NoMarkers
  <2>2. ring \in [Slots -> [epoch : Nat, sequence : Nat]] BY Zenon DEF Init, Frame
  <2>3. nextId \in 1..(MaxSession + 1) BY HistoryAssumption DEF Init
  <2>4. association \in [Events -> Association] BY Zenon DEF Init, NoAssociation, Association
  <2> QED BY Zenon, <2>1, <2>2, <2>3, <2>4 DEF Init, TypeOK
<1>4. RingInvariant BY Zenon DEF Init, RingInvariant
<1>5. CaptureInvariant /\ Pending /\ Fresh /\ Ordered
  BY Zenon, <1>1, <1>2 DEF Init, CaptureInvariant, Pending, Fresh, Ordered
<1>6. \A e \in Events : association[e] = NoAssociation BY Zenon DEF Init
<1>7. \A e \in Events : Marked(e, sessions) = {} BY Zenon, <1>2 DEF Marked
<1>8. Matches(association, sessions) BY <1>6, <1>7 DEF Matches, NoAssociation
<1> QED BY Zenon, <1>3, <1>4, <1>5, <1>8 DEF IInv

\* Every step keeps it.
LEMMA InvariantStep == IInv /\ [Next]_vars => IInv'
BY Zenon, TypeStep, RingStep, CaptureStep, BookStep, IndexStep DEF IInv

\* Hence it always holds.
LEMMA Invariance == Spec => []IInv
BY InitInvariant, InvariantStep, PTL DEF Spec

\* The state variables keep their types, for a ring, blocks and windows of
\* any size.
THEOREM HistoryTypeCorrect == Spec => []TypeOK
<1>1. IInv => TypeOK BY Zenon DEF IInv
<1> QED BY <1>1, Invariance, PTL

\* Whatever blocks arrive, are lost or come late, each sequence between
\* oldest_sequence_ and latest_sequence_ is in its slot of the ring or in a
\* recorded gap (accept_block).
THEOREM RingCorrect == Spec => []RingInvariant
<1>1. IInv => RingInvariant BY Zenon DEF IInv
<1> QED BY <1>1, Invariance, PTL

\* No session waits for frames of an epoch that is over, and one that began
\* inside the history only loses its first frame to a whole ring of later
\* ones (begin_stream_epoch, trigger, track_power_quality_event).
THEOREM CaptureCorrect == Spec => []CaptureInvariant
<1>1. IInv => CaptureInvariant BY Zenon DEF IInv
<1> QED BY <1>1, Invariance, PTL

\* The event index never names a deleted session (erase,
\* rebuild_event_capture_index).
THEOREM IndexCorrect == Spec => []AssociationsLive
<1>1. IInv => AssociationsLive BY Zenon DEF IInv, Matches, AssociationsLive
<1> QED BY <1>1, Invariance, PTL

\* No event whose descriptors say pq_event is ever in more than two sessions,
\* whatever order its records come in and whatever is deleted meanwhile
\* (track_power_quality_event, rebuild_event_capture_index).
THEOREM TwoCapturesAtMost == Spec => []AtMostTwice
<1>1. IInv => AtMostTwice
  <2> SUFFICES ASSUME IInv, NEW e \in Indexed
               PROVE  Cardinality(Marked(e, sessions)) <= 2
    BY Zenon DEF AtMostTwice
  <2> DEFINE M == Marked(e, sessions)
             a == association[e].onset
             b == association[e].recovery
  <2>1. M \subseteq {a, b} BY Zenon, HistoryAssumption DEF IInv, Matches
  <2> HIDE DEF M, a, b
  <2>2. IsFiniteSet({a}) /\ Cardinality({a}) = 1 BY Zenon, FS_Singleton
  <2>3. IsFiniteSet({a} \cup {b}) /\ Cardinality({a} \cup {b}) <= 2
    <3>1. /\ IsFiniteSet({a} \cup {b})
          /\ Cardinality({a} \cup {b}) =
               IF b \in {a} THEN Cardinality({a}) ELSE Cardinality({a}) + 1
      BY Zenon, <2>2, FS_AddElement
    <3> QED
      BY <2>2, <3>1
  <2>4. {a} \cup {b} = {a, b} BY Zenon
  <2>5. Cardinality(M) <= Cardinality({a, b}) BY Zenon, <2>1, <2>3, <2>4, FS_Subset
  <2>6. Cardinality({a, b}) \in Nat /\ Cardinality(M) \in Nat
    BY Zenon, <2>1, <2>3, <2>4, FS_Subset, FS_CardinalityType
  <2> QED BY <2>3, <2>4, <2>5, <2>6 DEF M
<1> QED BY <1>1, Invariance, PTL

\* A session leaves the capturing state for the writer's queue only at the
\* end of a read.
LEMMA QueuedAtEndRead ==
  ASSUME IInv, [Next]_vars, NEW i \in Ids,
         sessions[i].state = "capturing", sessions'[i].state = "queued"
  PROVE  EndRead
<1> USE DEF IInv
<1>s. sessions \in [Ids -> Session] /\ Collected \in [Ids -> Session]
  BY Zenon, CollectedType DEF TypeOK
<1>c. Collected[i] = sessions[i] BY Zenon, CollectedShape
<1>r. results[i] = "none" BY Zenon DEF Pending, TypeOK
<1>1. CASE Start
  BY Zenon, <1>1, <1>s, AbandonedShape DEF Start
<1>2. CASE Stop
  BY ZenonT(40), <1>2, <1>s, <1>c, AbandonedShape DEF Stop
<1>3. CASE BeginRead \/ Query
  BY Zenon, <1>3, <1>c DEF BeginRead, Query
<1>4. CASE \E first \in Sequences, g \in Generations :
             AcceptBlock(first, g) \/ RejectBlock(first, g) \/ AcceptGeneration(first, g)
  BY Zenon, <1>4, <1>s, AbandonedShape DEF AcceptBlock, RejectBlock, AcceptGeneration
<1>5. CASE ReadFails \/ RetentionFinished \/ \E j \in Ids : WriteFinished(j)
  BY Zenon, <1>5 DEF ReadFails, RetentionFinished, WriteFinished
<1>6. ASSUME NEW j \in Ids, Erase(j) PROVE FALSE
  <2>1. sessions'[i] \in {Collected[i], NoSession} BY Zenon, <1>6, <1>s DEF Erase
  <2>2. NoSession.state = "none" BY ZenonT(40) DEF NoSession
  <2>3. sessions'[i].state \in {"capturing", "none"} BY Zenon, <1>c, <2>1, <2>2
  <2> QED BY Zenon, <2>3
<1>7. ASSUME NEW w \in ManualWindows, Trigger(w) PROVE FALSE
  <2> DEFINE active == Capturing(Collected)
             a == Lowest(active)
             first == Pretrigger(latest, w[1])
             last == latest + w[2]
             x == Smaller(Collected[a].first, first)
             y == Larger(Collected[a].last, last)
             z == Collected[a].covered /\ first >= oldest
             longer == [Collected[a] EXCEPT !.first = x, !.last = y, !.covered = z]
             new == [state |-> "capturing", first |-> first, last |-> last,
                     markers |-> NoMarkers, epoch |-> epoch,
                     covered |-> first >= oldest]
  <2>1. new.state = "capturing" BY Zenon
  <2>2. \/ active # {} /\ sessions' = [Collected EXCEPT ![a] = longer]
        \/ sessions' = [Collected EXCEPT ![nextId] = new]
    BY Zenon, <1>7 DEF Trigger
  <2>3. active \in SUBSET Ids BY Zenon DEF Capturing
  <2> HIDE DEF active, first, last, x, y, z, new
  <2>4. active # {} => longer.state = Collected[a].state
    <3>1. active # {} => Collected[a] \in Session BY Zenon, <1>s, <2>3, LowestIn
    <3> HIDE DEF a
    <3> QED BY Zenon, <3>1 DEF Session
  <2> HIDE DEF a, longer
  <2> QED BY Zenon, <1>s, <1>c, <2>1, <2>2, <2>4
<1>8. ASSUME NEW e \in Events, NEW lifecycle \in {"start", "update", "end"},
             NEW anchor \in Sequences, NEW w \in EventWindows,
             Track(e, lifecycle, anchor, w)
      PROVE  FALSE
  <2>n. \A l : NewEventSession(e, l, anchor, w).state = "capturing"
    BY ZenonT(40) DEF NewEventSession
  <2>1. CASE TrackFirst(e, lifecycle, anchor, w)
    <3>1. sessions'[i] \in {Collected[i], NewEventSession(e, lifecycle, anchor, w)}
      BY Zenon, <1>s, <2>1 DEF TrackFirst
    <3> QED BY Zenon, <1>c, <2>n, <3>1
  <2>2. CASE TrackMarks(e, lifecycle, w)
    <3> DEFINE j == LatestOf(CollectedIndex[e], Collected)
               m == [Collected[j].markers EXCEPT ![e] = Marker(lifecycle)]
    <3>1. \/ sessions' = Collected
          \/ sessions' = [Collected EXCEPT ![j] = [Collected[j] EXCEPT !.markers = m]]
      BY Zenon, <2>2 DEF TrackMarks
    <3>2. j \in Ids BY Zenon, <2>2 DEF TrackMarks, Exists
    <3> HIDE DEF j, m
    <3>3. Collected[j] \in Session BY Zenon, <1>s, <3>2
    <3>4. [Collected[j] EXCEPT !.markers = m].state = Collected[j].state
      BY Zenon, <3>3 DEF Session
    <3> QED BY Zenon, <1>s, <1>c, <3>1, <3>4
  <2>3. CASE TrackMerges(e, anchor, w)
    <3> DEFINE j == CollectedIndex[e].onset
               x == Smaller(Collected[j].first, WindowFirst(anchor, w))
               y == Larger(Collected[j].last, WindowLast(anchor, w))
               m == [Collected[j].markers EXCEPT ![e] = "terminal"]
    <3>1. sessions' = [Collected EXCEPT ![j] =
                        [Collected[j] EXCEPT !.first = x, !.last = y, !.markers = m]]
      BY Zenon, <2>3 DEF TrackMerges
    <3>2. j \in Ids BY Zenon, <2>3 DEF TrackMerges, AtRecovery, Exists
    <3> HIDE DEF j, x, y, m
    <3>3. Collected[j] \in Session BY Zenon, <1>s, <3>2
    <3>4. [Collected[j] EXCEPT !.first = x, !.last = y, !.markers = m].state
            = Collected[j].state
      BY Zenon, <3>3 DEF Session
    <3> QED BY Zenon, <1>s, <1>c, <3>1, <3>4
  <2>4. CASE TrackRecovers(e, anchor, w)
    <3>1. sessions'[i] \in {Collected[i], NewEventSession(e, "end", anchor, w)}
      BY Zenon, <1>s, <2>4 DEF TrackRecovers
    <3> QED BY Zenon, <1>c, <2>n, <3>1
  <2>5. CASE TrackThrows(e, lifecycle, anchor, w)
    BY ZenonT(40), <1>c, <2>5 DEF TrackThrows
  <2> QED BY Zenon, <1>8, <2>1, <2>2, <2>3, <2>4, <2>5 DEF Track
<1>9. CASE UNCHANGED vars
  BY Zenon, <1>9 DEF vars
<1> QED
  BY Zenon, <1>1, <1>2, <1>3, <1>4, <1>5, <1>6, <1>7, <1>8, <1>9 DEF Next

\* A step that queues a capture copies its window exactly.
LEMMA SnapshotStep ==
  ASSUME IInv, [Next]_vars, NEW i \in Ids,
         sessions[i].state = "capturing", sessions'[i].state = "queued",
         NEW k \in sessions[i].first..sessions[i].last
  PROVE  ring[Slot(k)] = Frame(sessions[i].epoch, k)
<1> USE DEF IInv
<1> DEFINE s == sessions[i]
<1>1. EndRead BY ZenonT(40), QueuedAtEndRead
<1>2. s \in Session /\ s.first \in Nat /\ s.last \in Nat /\ k \in Nat
  BY SMTT(30) DEF TypeOK, Session
<1>3. sessions'[i] = Finished(sessions)[i] BY Zenon, <1>1, EndReadShape
<1>4. latest >= s.last /\ ~Evicted(s) /\ ~IntersectsGap(s.first, s.last)
  BY ZenonT(40), <1>3, FinishedShape
<1>5. haveHistory /\ s.epoch = epoch BY Zenon DEF CaptureInvariant
<1>6. oldest \in Nat /\ latest \in Nat /\ gaps \subseteq Nat \X Nat BY Zenon DEF TypeOK
<1>7. k \in oldest..latest BY SMTT(30), <1>2, <1>4, <1>6 DEF Evicted
<1>8. ~ \E gap \in gaps : gap[1] <= k /\ k <= gap[2]
  BY <1>2, <1>4, <1>6 DEF IntersectsGap
<1> QED BY Zenon, <1>5, <1>7, <1>8 DEF RingInvariant

\* A capture handed to the writer is an exact copy of its window, frame by
\* frame and from the epoch it was triggered in (finish_sessions,
\* enqueue_materialization).
THEOREM SnapshotsAreExact == Spec => SnapshotExact
<1>1. IInv /\ [Next]_vars =>
        [\A i \in Ids :
           sessions[i].state = "capturing" /\ sessions'[i].state = "queued" =>
             \A k \in sessions[i].first..sessions[i].last :
               ring[Slot(k)] = Frame(sessions[i].epoch, k)]_vars
  BY Zenon, SnapshotStep
<1> QED BY <1>1, Invariance, PTL DEF Spec, SnapshotExact

\* A step gives a capture up only for cause.
LEMMA MarginStep ==
  ASSUME IInv, [Next]_vars, NEW i \in Ids, reading, ~reading',
         sessions[i].state = "capturing", sessions'[i].state = "incomplete"
  PROVE  GivenUpForCause(sessions[i])
<1> USE DEF IInv
<1> DEFINE s == sessions[i]
<1>1. EndRead \/ ReadFails
  <2>1. CASE Start \/ Stop \/ BeginRead \/ Query \/ RetentionFinished
    BY Zenon, <2>1 DEF Start, Stop, BeginRead, Query, RetentionFinished
  <2>2. CASE \E first \in Sequences, g \in Generations :
               AcceptBlock(first, g) \/ RejectBlock(first, g) \/ AcceptGeneration(first, g)
    BY ZenonT(40), <2>2 DEF AcceptBlock, RejectBlock, AcceptGeneration
  <2>3. CASE \E j \in Ids : WriteFinished(j) \/ Erase(j)
    BY Zenon, <2>3 DEF WriteFinished, Erase
  <2>4. CASE \E w \in ManualWindows : Trigger(w)
    BY Zenon, <2>4 DEF Trigger
  <2>5. CASE \E e \in Events, lifecycle \in {"start", "update", "end"},
                anchor \in Sequences, w \in EventWindows : Track(e, lifecycle, anchor, w)
    <3>1. PICK e \in Events, lifecycle \in {"start", "update", "end"},
               anchor \in Sequences, w \in EventWindows : Track(e, lifecycle, anchor, w)
      BY Zenon, <2>5
    <3>2. \/ TrackFirst(e, lifecycle, anchor, w) \/ TrackMarks(e, lifecycle, w)
          \/ TrackMerges(e, anchor, w) \/ TrackRecovers(e, anchor, w)
          \/ TrackThrows(e, lifecycle, anchor, w)
      BY Zenon, <3>1 DEF Track
    <3>3. CASE TrackFirst(e, lifecycle, anchor, w) BY Zenon, <3>3 DEF TrackFirst, CanTrack
    <3>4. CASE TrackMarks(e, lifecycle, w) BY Zenon, <3>4 DEF TrackMarks, CanTrack
    <3>5. CASE TrackMerges(e, anchor, w) BY Zenon, <3>5 DEF TrackMerges, CanTrack
    <3>6. CASE TrackRecovers(e, anchor, w) BY ZenonT(40), <3>6 DEF TrackRecovers, CanTrack
    <3>7. CASE TrackThrows(e, lifecycle, anchor, w) BY Zenon, <3>7 DEF TrackThrows, CanTrack
    <3> QED BY Zenon, <3>2, <3>3, <3>4, <3>5, <3>6, <3>7
  <2> QED BY Zenon, <2>1, <2>2, <2>3, <2>4, <2>5 DEF Next, vars
<1>2. ~ReadFails BY Zenon DEF ReadFails
<1>3. sessions'[i] = Finished(sessions)[i] BY Zenon, <1>1, <1>2, EndReadShape
<1>4. \/ Evicted(s)
      \/ IntersectsGap(s.first, s.last)
      \/ s.last - s.first + 1 > Capacity
  BY ZenonT(40), <1>3, FinishedShape
<1>5. s \in Session /\ s.first \in Nat /\ s.last \in Nat /\ latest \in Nat /\ oldest \in Nat
  BY Zenon DEF TypeOK, Session
<1>6. Capacity \in Nat /\ Margin \in Nat BY ZenonT(40), HistoryAssumption
<1>7. s.first <= s.last BY ZenonT(40) DEF Ordered
<1>8. s.covered => s.first >= oldest \/ latest - s.first >= Capacity
  BY Zenon DEF CaptureInvariant
<1>9. CASE IntersectsGap(s.first, s.last)
  BY Zenon, <1>9 DEF GivenUpForCause
<1>10. CASE s.last - s.first + 1 > Capacity
  BY <1>5, <1>6, <1>10 DEF GivenUpForCause, Budget
<1>11. CASE Evicted(s)
  <2>1. CASE ~s.covered BY Zenon, <2>1 DEF GivenUpForCause
  <2>2. CASE s.covered
    <3>1. latest - s.first >= Capacity BY SMTT(30), <1>5, <1>8, <1>11, <2>2 DEF Evicted
    <3>2. s.last - s.first + 1 > Budget \/ latest - s.last > Margin
      BY <1>5, <1>6, <1>7, <3>1 DEF Budget
    <3> QED BY Zenon, <3>2 DEF GivenUpForCause
  <2> QED BY Zenon, <2>1, <2>2
<1> QED BY Zenon, <1>4, <1>9, <1>10, <1>11

\* The frames max_capture_frames holds back are enough: a capture whose
\* window was in the history and within the budget, and which crosses no gap,
\* is lost only if more than the two seconds of frames passed between its end
\* and the read that noticed it.
THEOREM GivenUpOnlyForCause == Spec => KeptWithinMargin
<1>1. IInv /\ [Next]_vars =>
        [\A i \in Ids :
           reading /\ ~reading' /\ sessions[i].state = "capturing"
                   /\ sessions'[i].state = "incomplete" =>
             GivenUpForCause(sessions[i])]_vars
  BY Zenon, MarginStep
<1> QED BY <1>1, Invariance, PTL DEF Spec, KeptWithinMargin

\* The captures as a whole, for every ring, block size, set of windows, events
\* and generations: what waits for frames belongs to the current epoch and has
\* lost none that the ring still holds, the event index names live captures
\* that carry the event, and no event is in more than two of them
\* (waveform_capture.cpp, trigger, track_power_quality_event, erase).
THEOREM CapturesCorrect == Spec => []CapturesAreSound
<1>1. CaptureInvariant /\ AssociationsLive /\ AtMostTwice => CapturesAreSound
  BY Zenon DEF CapturesAreSound
<1> QED BY <1>1, CaptureCorrect, IndexCorrect, TwoCapturesAtMost, PTL

\* The snapshots as a whole: a queued capture is an exact copy of its window,
\* and a capture is given up only for a gap, a new generation or a window
\* beyond the margin (waveform_capture.cpp, finish_sessions).
THEOREM SnapshotsCorrect == Spec => SnapshotsAreSound
BY Zenon, SnapshotsAreExact, GivenUpOnlyForCause DEF SnapshotsAreSound
=============================================================================
