------------------------- MODULE EnergyLedgerProofs -------------------------
(***************************************************************************)
(* Proofs about EnergyLedger.  The energy half: the ledger never counts    *)
(* energy that was not measured, and counts all of it unless a counter     *)
(* clipped, a boot nonce repeated or the tail of a session was lost.  The  *)
(* inductive invariant adds to these what the source's log looks like      *)
(* (LogInv), how the ledger's state matches the checkpoint it consumed     *)
(* last, and that the database row is the state itself (LedgerInv): that   *)
(* makes a restart invisible, because the calculation window survives its  *)
(* trip through a rounded sample rate (DurationSurvives).  The demand half *)
(* relates the session peaks of the source to the intervals they were      *)
(* measured in (DemandLogInv).                                             *)
(***************************************************************************)
EXTENDS EnergyLedger, FiniteSetTheorems, TLAPS

Checkpoint == [session : Sessions, window : Windows, stream : Nat, seq : Nat,
               counter : Nat, total : Nat]

EnergyState == [epoch : Nat, session : Sessions, seq : Nat, counter : Nat,
                life : Nat, saturated : BOOLEAN, count : Nat, duration : Nat]

\* How a later checkpoint of the log relates to an earlier one.
Follows(a, b) ==
  /\ a.stream <= b.stream
  /\ a.stream = b.stream => /\ a.session = b.session /\ a.window = b.window
                            /\ a.seq < b.seq /\ a.counter <= b.counter
                            /\ b.total - a.total = b.counter - a.counter
  /\ a.stream # b.stream => a.total + b.counter <= b.total

\* The log of checkpoints the real-time processor measured.
LogInv ==
  /\ elog \in Seq(Checkpoint)
  /\ \A i \in 1..Len(elog) : elog[i].counter <= elog[i].total
  /\ \A i, j \in 1..Len(elog) : i < j => Follows(elog[i], elog[j])
  /\ elog # <<>> => elog[1].total = elog[1].counter
  /\ \A i \in 1..(Len(elog) - 1) :
       elog[i].stream # elog[i + 1].stream =>
         elog[i + 1].total = elog[i].total + elog[i + 1].counter

\* The state is that of the checkpoint consumed last.
Matches(e, r) ==
  /\ e.session = r.session /\ e.seq = r.seq /\ e.counter = r.counter
  /\ e.count = r.window[1] /\ e.duration = Duration(r.window)

LedgerInv ==
  /\ consumed \in 0..Len(elog) /\ archived \in Nat
  /\ energy = None <=> consumed = 0
  /\ energy # None => /\ energy \in EnergyState /\ energy.life <= MaxInt
                      /\ Matches(energy, elog[consumed])
  /\ energyRow = IF energy = None THEN None ELSE PersistEnergy(energy)

-----------------------------------------------------------------------------
\* Arithmetic.

\* Quotient and remainder are unique.
LEMMA DivisionUnique ==
  ASSUME NEW n \in Nat, NEW d \in Nat \ {0}, NEW q \in Nat, NEW s \in Nat,
         n = d * q + s, s < d
  PROVE  n \div d = q
<1> DEFINE p == n \div d
<1>1. p \in Int /\ d * p <= n /\ n < d * p + d BY Z3
<1> HIDE DEF p
<1>2. CASE p < q
  <2>1. PICK k \in Nat : q = p + 1 + k BY <1>1, <1>2, SMT
  <2>2. d * q = d * p + d + d * k BY <1>1, <2>1, SMT
  <2>3. d * k >= 0 BY SMT
  <2>4. d * p \in Int /\ d * q \in Int /\ d * k \in Int BY <1>1, SMT
  <2> QED BY <1>1, <2>2, <2>3, <2>4, SMT
<1>3. CASE q < p
  <2>1. PICK k \in Nat : p = q + 1 + k BY <1>1, <1>3, SMT
  <2>2. d * p = d * q + d + d * k BY <1>1, <2>1, SMT
  <2>3. d * k >= 0 BY SMT
  <2>4. d * p \in Int /\ d * q \in Int /\ d * k \in Int BY <1>1, SMT
  <2> QED BY <1>1, <2>2, <2>3, <2>4, SMT
<1> QED BY <1>1, <1>2, <1>3, SMT DEF p

\* A number is its quotient times the divisor and its remainder.
LEMMA DivisionParts ==
  ASSUME NEW n \in Nat, NEW r \in Nat \ {0}
  PROVE  /\ n \div r \in Nat /\ n % r \in Nat
         /\ n % r < r /\ n = r * (n \div r) + (n % r)
BY Z3

\* The duration of a calculation window is read back as it was, although the
\* database keeps the sample count and the rounded sample rate instead.
THEOREM DurationSurvives ==
  ASSUME NEW w \in Windows
  PROVE  /\ Duration(w) \in Nat \ {0} /\ w[1] \in Nat \ {0}
         /\ LoadedDuration(w[1], SampleRate(w[1], Duration(w))) = Duration(w)
<1> DEFINE n == w[1] * Nanos
           r == w[2]
           d == n \div r
<1>1. w[1] \in Nat \ {0} /\ r \in Nat \ {0} /\ Nanos \in Nat \ {0} /\ r < d
  BY Zenon, LedgerAssumption
<1>2. n \in Nat BY <1>1, SMT
<1>3. Duration(w) = d BY Zenon DEF Duration
<1> HIDE DEF n, r
<1>4. /\ d \in Nat /\ n % r \in Nat /\ n % r < r /\ n = r * d + (n % r)
  BY Zenon, <1>1, <1>2, DivisionParts
<1>5. n \div d = r
  <2> HIDE DEF d
  <2>1. n = d * r + (n % r) BY <1>1, <1>2, <1>4, SMT
  <2>2. n % r < d /\ d \in Nat \ {0} BY <1>1, <1>4, SMT
  <2> DEFINE s == n % r
  <2>3. s \in Nat /\ n = d * r + s /\ s < d BY Zenon, <1>4, <2>1, <2>2
  <2> HIDE DEF s
  <2> QED BY Zenon, <1>1, <1>2, <2>2, <2>3, DivisionUnique
<1>6. SampleRate(w[1], d) = r
  <2> HIDE DEF d
  <2> QED BY <1>1, <1>4, <1>5, SMT DEF SampleRate, n
<1>7. LoadedDuration(w[1], r) = d
  BY <1>1, SMT DEF LoadedDuration, Larger, n
<1> QED BY <1>1, <1>3, <1>4, <1>6, <1>7

-----------------------------------------------------------------------------
\* The log of checkpoints.

\* The order of checkpoints is transitive.
LEMMA FollowsTransitive ==
  ASSUME NEW a \in Checkpoint, NEW b \in Checkpoint, NEW c \in Checkpoint,
         Follows(a, b), Follows(b, c)
  PROVE  Follows(a, c)
<1>1. CASE a.stream = b.stream BY <1>1, SMT DEF Follows, Checkpoint
<1>2. CASE a.stream # b.stream BY <1>2, SMT DEF Follows, Checkpoint
<1> QED BY Zenon, <1>1, <1>2

\* One more checkpoint keeps the log well-formed when it follows the last.
LEMMA LogExtended ==
  ASSUME LogInv, NEW c \in Checkpoint, c.counter <= c.total,
         elog = <<>> => c.total = c.counter,
         elog # <<>> => /\ Follows(elog[Len(elog)], c)
                        /\ elog[Len(elog)].stream # c.stream =>
                             c.total = elog[Len(elog)].total + c.counter,
         elog' = Append(elog, c)
  PROVE  LogInv'
<1> DEFINE n == Len(elog)
<1>1. elog \in Seq(Checkpoint) /\ n \in Nat BY DEF LogInv
<1>2. /\ elog' \in Seq(Checkpoint) /\ Len(elog') = n + 1
      /\ \A i \in 1..n : elog'[i] = elog[i]
      /\ elog'[n + 1] = c /\ elog' # <<>>
  BY <1>1, SMT
<1>3. \A i \in 1..n : elog[i] \in Checkpoint BY <1>1, SMT
<1>4. \A i \in 1..n : Follows(elog[i], c)
  <2> TAKE i \in 1..n
  <2>1. CASE i = n BY <1>1, <2>1, SMT
  <2>2. CASE i < n
    <3>1. Follows(elog[i], elog[n]) BY <1>1, <2>2, SMT DEF LogInv
    <3>2. Follows(elog[n], c) /\ n \in 1..n BY <1>1, <2>2, SMT
    <3> QED BY Zenon, <1>3, <3>1, <3>2, FollowsTransitive
  <2> QED BY <1>1, <2>1, <2>2, SMT
<1> HIDE DEF n
<1>5. \A i \in 1..(n + 1) : elog'[i].counter <= elog'[i].total
  BY <1>1, <1>2, SMT DEF LogInv, n
<1>6. \A i, j \in 1..(n + 1) : i < j => Follows(elog'[i], elog'[j])
  <2> SUFFICES ASSUME NEW i \in 1..(n + 1), NEW j \in 1..(n + 1), i < j
               PROVE  Follows(elog'[i], elog'[j])
    BY Zenon
  <2>1. CASE j = n + 1
    <3>1. i \in 1..n BY <1>1, <2>1, SMT
    <3> QED BY Zenon, <1>2, <1>4, <2>1, <3>1
  <2>2. CASE j # n + 1
    <3>1. i \in 1..n /\ j \in 1..n BY <1>1, <2>2, SMT
    <3>2. Follows(elog[i], elog[j]) BY Zenon, <3>1 DEF LogInv, n
    <3> QED BY Zenon, <1>2, <3>1, <3>2
  <2> QED BY Zenon, <2>1, <2>2
<1>7. elog'[1].total = elog'[1].counter
  <2>1. CASE elog = <<>> BY <1>2, <2>1 DEF n
  <2>2. CASE elog # <<>>
    <3>1. n > 0 BY <1>1, <2>2 DEF n
    <3>2. elog'[1] = elog[1] BY <1>1, <1>2, <3>1, SMT
    <3> QED BY Zenon, <2>2, <3>2 DEF LogInv
  <2> QED BY Zenon, <2>1, <2>2
<1>8. \A i \in 1..n : elog'[i].stream # elog'[i + 1].stream =>
        elog'[i + 1].total = elog'[i].total + elog'[i + 1].counter
  <2> SUFFICES ASSUME NEW i \in 1..n, elog'[i].stream # elog'[i + 1].stream
               PROVE  elog'[i + 1].total = elog'[i].total + elog'[i + 1].counter
    BY Zenon
  <2>1. CASE i = n
    <3>1. elog # <<>> BY <1>1, <2>1, SMT DEF n
    <3> QED BY Zenon, <1>2, <2>1, <3>1 DEF n
  <2>2. CASE i # n
    <3>1. i \in 1..(n - 1) /\ i + 1 \in 1..n BY <1>1, <2>2, SMT
    <3>2. elog'[i] = elog[i] /\ elog'[i + 1] = elog[i + 1] BY Zenon, <1>2, <3>1
    <3> QED BY Zenon, <3>1, <3>2 DEF LogInv, n
  <2> QED BY Zenon, <2>1, <2>2
<1> QED
  <2>1. Len(elog') - 1 = n /\ Len(elog') = n + 1 BY <1>1, <1>2, SMT
  <2> QED BY Zenon, <1>2, <1>5, <1>6, <1>7, <1>8, <2>1 DEF LogInv

\* A measurement only appends to the log.
LEMMA MeasureKeepsLog == LogInv /\ MeasureEnergy => LogInv'
<1> SUFFICES ASSUME LogInv, MeasureEnergy PROVE LogInv'
  BY Zenon
<1> DEFINE old == IF elog = <<>> THEN [stream |-> 0, total |-> 0]
                                 ELSE elog[Len(elog)]
           Made(s, w, stream, seq, counter, d) ==
             [session |-> s, window |-> w, stream |-> stream, seq |-> seq,
              counter |-> counter, total |-> old.total + d]
<1>1. elog # <<>> => /\ old = elog[Len(elog)] /\ old \in Checkpoint
                     /\ old.counter <= old.total
  BY SMT DEF LogInv
<1>2. elog = <<>> => old = [stream |-> 0, total |-> 0]
  BY Zenon
<1>3. old.stream \in Nat /\ old.total \in Nat
  BY Zenon, <1>1, <1>2 DEF Checkpoint
<1>4. PICK d \in Steps :
        \/ \E s \in Sessions, w \in Windows :
             elog' = Append(elog, Made(s, w, old.stream + 1, 1, d, d))
        \/ /\ elog # <<>>
           /\ elog' = Append(elog, Made(old.session, old.window, old.stream,
                                        old.seq + 1, old.counter + d, d))
  BY Zenon DEF MeasureEnergy
<1>5. d \in Nat BY Zenon, LedgerAssumption
<1> HIDE DEF old
<1>6. CASE \E s \in Sessions, w \in Windows :
             elog' = Append(elog, Made(s, w, old.stream + 1, 1, d, d))
  <2>1. PICK s \in Sessions, w \in Windows :
               elog' = Append(elog, Made(s, w, old.stream + 1, 1, d, d))
    BY Zenon, <1>6
  <2> DEFINE c == Made(s, w, old.stream + 1, 1, d, d)
  <2>2. /\ c \in Checkpoint /\ c.counter = d /\ c.total = old.total + d
        /\ c.stream = old.stream + 1
    BY <1>3, <1>5, SMT DEF Checkpoint
  <2>3. c.counter <= c.total BY <1>3, <1>5, <2>2, SMT
  <2>4. elog = <<>> => c.total = c.counter BY <1>2, <1>5, <2>2, SMT
  <2>5. elog # <<>> => /\ Follows(elog[Len(elog)], c)
                       /\ c.total = elog[Len(elog)].total + c.counter
    <3> SUFFICES ASSUME elog # <<>>
                 PROVE  Follows(old, c) /\ c.total = old.total + c.counter
      BY Zenon, <1>1
    <3> HIDE DEF c
    <3> QED BY <1>1, <1>3, <1>5, <2>2, SMT DEF Follows
  <2> HIDE DEF c
  <2>6. elog' = Append(elog, c) BY Zenon, <2>1 DEF c
  <2> QED BY Zenon, <2>2, <2>3, <2>4, <2>5, <2>6, LogExtended
<1>7. CASE /\ elog # <<>>
           /\ elog' = Append(elog, Made(old.session, old.window, old.stream,
                                        old.seq + 1, old.counter + d, d))
  <2> DEFINE c == Made(old.session, old.window, old.stream, old.seq + 1,
                       old.counter + d, d)
  <2>0. old \in Checkpoint /\ old.counter <= old.total BY Zenon, <1>1, <1>7
  <2>1. old.seq \in Nat /\ old.counter \in Nat /\ old.session \in Sessions
          /\ old.window \in Windows
    BY Zenon, <2>0 DEF Checkpoint
  <2>2. /\ c \in Checkpoint /\ c.counter = old.counter + d
        /\ c.total = old.total + d /\ c.stream = old.stream
        /\ c.seq = old.seq + 1 /\ c.session = old.session
        /\ c.window = old.window
    BY <1>3, <1>5, <2>1, SMT DEF Checkpoint
  <2> HIDE DEF c
  <2>3. c.counter <= c.total BY <1>3, <1>5, <2>0, <2>1, <2>2, SMT
  <2>4. Follows(old, c) /\ old.stream = c.stream
    BY <1>3, <1>5, <2>1, <2>2, SMT DEF Follows
  <2>5. elog' = Append(elog, c) /\ elog # <<>> BY Zenon, <1>7 DEF c
  <2> QED BY Zenon, <1>1, <2>2, <2>3, <2>4, <2>5, LogExtended
<1> QED BY Zenon, <1>4, <1>6, <1>7

-----------------------------------------------------------------------------
\* Crediting a checkpoint.

Collision(r) == /\ SameSession(r)
                /\ consumed # 0 => r.stream # elog[consumed].stream

TailLost(i) ==
  \E j \in 1..(i - 1) : j > consumed /\ elog[j].stream # elog[i].stream

\* Over a change of session the total grows by no less than the counter.
LEMMA NewStreamSum ==
  ASSUME NEW rt \in Nat, NEW rc \in Nat, NEW bt \in Nat, NEW bc \in Nat,
         bt + rc <= rt, rc >= bc
  PROVE  rc - bc \in Nat /\ bt + (rc - bc) <= rt
BY SMT

\* Elements of the log have their type.
LEMMA LogElement ==
  ASSUME LogInv, NEW i \in 1..Len(elog)
  PROVE  /\ Len(elog) \in Nat /\ i \in Nat /\ i >= 1 /\ i <= Len(elog)
         /\ elog[i] \in Checkpoint /\ elog[i].counter <= elog[i].total
         /\ elog[i].counter \in Nat /\ elog[i].total \in Nat
         /\ elog[i].stream \in Nat /\ elog[i].seq \in Nat
         /\ elog[i].window \in Windows /\ elog[i].session \in Sessions
<1>1. elog \in Seq(Checkpoint) BY Zenon DEF LogInv
<1>2. Len(elog) \in Nat /\ i \in Nat /\ i >= 1 /\ i <= Len(elog)
  BY <1>1, SMT
<1>3. elog[i] \in Checkpoint BY <1>1, SMT
<1>4. elog[i].counter <= elog[i].total BY Zenon DEF LogInv
<1> QED BY Zenon, <1>2, <1>3, <1>4 DEF Checkpoint

\* What an accepted checkpoint adds is at most what was measured since the
\* last one consumed, and all of it without a collision or a lost tail.
LEMMA DeltaBound ==
  ASSUME LogInv, LedgerInv, NEW i \in 1..Len(elog), Deliverable(i),
         EnergyVerdict(elog[i]) = "accept"
  PROVE  /\ EnergyDelta(elog[i]) \in Nat /\ Measured \in Nat
         /\ Measured + EnergyDelta(elog[i]) <= elog[i].total
         /\ ~Collision(elog[i]) /\ ~TailLost(i) =>
              Measured + EnergyDelta(elog[i]) = elog[i].total
<1> DEFINE r == elog[i]
           c == consumed
           b == elog[c]
           d == EnergyDelta(r)
           m == Measured
<1> SUFFICES /\ d \in Nat /\ m \in Nat /\ m + d <= r.total
             /\ ~Collision(r) /\ ~TailLost(i) => m + d = r.total
  BY Zenon
<1>1. /\ r \in Checkpoint /\ r.counter <= r.total
      /\ r.counter \in Nat /\ r.total \in Nat /\ r.stream \in Nat
      /\ r.seq \in Nat /\ i \in Nat /\ i >= 1 /\ i <= Len(elog)
      /\ Len(elog) \in Nat
  BY Zenon, LogElement
<1>2. CASE c = 0
  <2>1. energy = None BY Zenon, <1>2 DEF LedgerInv
  <2>2. d = r.counter /\ m = 0
    BY Zenon, <1>2, <2>1 DEF EnergyDelta, SameSession, Measured
  <2>3. ASSUME ~TailLost(i) PROVE r.counter = r.total
    <3>1. elog[1].total = elog[1].counter /\ elog[1] \in Checkpoint
            /\ 1 \in 1..Len(elog)
      BY <1>1, SMT DEF LogInv
    <3>2. CASE i = 1 BY Zenon, <3>1, <3>2
    <3>3. CASE i # 1
      <4>1. elog[1].stream = r.stream BY <1>1, <1>2, <2>3, <3>3, SMT DEF TailLost
      <4>2. Follows(elog[1], r) BY <1>1, <3>1, <3>3, SMT DEF LogInv
      <4>3. r.total - elog[1].total = r.counter - elog[1].counter
        BY Zenon, <4>1, <4>2 DEF Follows
      <4>4. elog[1].total \in Nat /\ elog[1].counter \in Nat
        BY Zenon, <3>1 DEF Checkpoint
      <4> HIDE DEF r
      <4> QED BY <1>1, <3>1, <4>3, <4>4, SMT
    <3> QED BY Zenon, <3>2, <3>3
  <2> HIDE DEF r, d, m
  <2> QED BY <1>1, <2>2, <2>3, SMT
<1>3. CASE c # 0
  <2>1. /\ c \in 1..Len(elog) /\ b \in Checkpoint
        /\ b.counter \in Nat /\ b.total \in Nat /\ b.stream \in Nat
        /\ b.seq \in Nat
    <3>1. c \in 1..Len(elog) BY <1>1, <1>3, SMT DEF LedgerInv
    <3> QED BY Zenon, <3>1, LogElement
  <2>2. /\ energy # None /\ energy.session = b.session
        /\ energy.seq = b.seq /\ energy.counter = b.counter
    BY Zenon, <1>3 DEF LedgerInv, Matches
  <2>3. m = b.total BY Zenon, <1>3 DEF Measured
  <2>4. r.stream >= b.stream BY Zenon, <1>3 DEF Deliverable
  <2>5. c < i => Follows(b, r) BY Zenon, <2>1 DEF LogInv
  <2>6. i < c => Follows(r, b) BY Zenon, <2>1 DEF LogInv
  <2>7. SameSession(r) <=> r.session = b.session
    BY Zenon, <2>2 DEF SameSession
  <2>8. SameSession(r) => /\ r.seq > b.seq /\ r.counter >= b.counter
                          /\ d = r.counter - b.counter
    <3> SUFFICES ASSUME SameSession(r)
                 PROVE  /\ r.seq > b.seq /\ r.counter >= b.counter
                        /\ d = r.counter - b.counter
      BY Zenon
    <3> HIDE DEF r, b
    <3>1. EnergyVerdict(r) = "accept" BY Zenon DEF r
    <3>2. ~(r.seq < energy.seq) BY Zenon, <3>1 DEF EnergyVerdict
    <3>3. r.seq # energy.seq BY Zenon, <3>1 DEF EnergyVerdict
    <3>4. ~(r.counter < energy.counter) BY Zenon, <3>1, <3>2, <3>3 DEF EnergyVerdict
    <3> QED BY <1>1, <2>1, <2>2, <3>2, <3>3, <3>4, SMT DEF EnergyDelta, d
  <2>9. ~SameSession(r) => d = r.counter
    BY Zenon DEF EnergyDelta
  <2>10. CASE r.stream = b.stream
    <3>1. r.session = b.session
      <4>1. CASE c = i BY Zenon, <4>1
      <4>2. CASE c < i BY Zenon, <2>5, <2>10, <4>2 DEF Follows
      <4>3. CASE i < c BY Zenon, <2>6, <2>10, <4>3 DEF Follows
      <4> QED BY <1>1, <2>1, <4>1, <4>2, <4>3, SMT
    <3>2. c < i
      <4>1. r.seq > b.seq BY Zenon, <2>7, <2>8, <3>1
      <4>2. CASE c = i BY <1>1, <4>1, <4>2, SMT
      <4>3. CASE i < c
        <5>1. r.seq < b.seq BY Zenon, <2>6, <2>10, <4>3 DEF Follows
        <5> QED BY <1>1, <2>1, <4>1, <5>1, SMT
      <4> QED BY <1>1, <2>1, <4>2, <4>3, SMT
    <3>3. r.total - b.total = r.counter - b.counter
      BY Zenon, <2>5, <2>10, <3>2 DEF Follows
    <3>4. d = r.counter - b.counter /\ r.counter >= b.counter
      BY Zenon, <2>7, <2>8, <3>1
    <3>5. d \in Nat /\ m + d = r.total
      <4> HIDE DEF r, b, d, m
      <4>1. /\ r.total \in Nat /\ r.counter \in Nat
            /\ b.total \in Nat /\ b.counter \in Nat
        BY Zenon, <1>1, <2>1
      <4>2. /\ r.counter - b.counter \in Nat
            /\ b.total + (r.counter - b.counter) = r.total
        <5>1. r.counter >= b.counter BY Zenon, <3>4
        <5> QED BY <3>3, <4>1, <5>1, SMT
      <4> QED BY Zenon, <2>3, <3>4, <4>2
    <3> HIDE DEF r, d, m
    <3> QED BY <1>1, <2>1, <2>3, <3>5, SMT
  <2>11. CASE r.stream # b.stream
    <3>1. c < i
      <4>1. CASE i < c BY <1>1, <2>1, <2>4, <2>6, <2>11, <4>1, SMT DEF Follows
      <4>2. CASE i = c BY Zenon, <2>11, <4>2
      <4> QED BY <1>1, <2>1, <4>1, <4>2, SMT
    <3>2. b.total + r.counter <= r.total
      BY Zenon, <2>5, <2>11, <3>1 DEF Follows
    <3>3. CASE SameSession(r)
      <4>1. Collision(r) BY Zenon, <2>11, <3>3 DEF Collision
      <4>2. d = r.counter - b.counter /\ r.counter >= b.counter
        BY Zenon, <2>8, <3>3
      <4> HIDE DEF r, b, d, m
      <4>3. d \in Nat /\ m + d <= r.total
        BY Zenon, <1>1, <2>1, <2>3, <3>2, <4>2, NewStreamSum
      <4> QED BY Zenon, <2>1, <2>3, <4>1, <4>3
    <3>4. CASE ~SameSession(r)
      <4>1. d = r.counter BY Zenon, <2>9, <3>4
      <4>2. ASSUME ~TailLost(i) PROVE b.total + r.counter = r.total
        <5> DEFINE a == elog[c + 1]
        <5>1. /\ c + 1 \in 1..Len(elog) /\ c \in 1..(Len(elog) - 1)
              /\ a.counter \in Nat /\ a.total \in Nat
          <6>1. c + 1 \in 1..Len(elog) /\ c \in 1..(Len(elog) - 1)
            BY <1>1, <2>1, <3>1, SMT
          <6> QED BY Zenon, <6>1, LogElement
        <5>2. a.stream = r.stream
          <6>1. CASE c + 1 = i BY Zenon, <6>1
          <6>2. CASE c + 1 # i
            <7>1. c + 1 \in 1..(i - 1) /\ c + 1 > consumed
              BY <1>1, <2>1, <3>1, <6>2, SMT
            <7> QED BY Zenon, <4>2, <7>1 DEF TailLost
          <6> QED BY Zenon, <6>1, <6>2
        <5>3. a.total = b.total + a.counter
          BY Zenon, <2>11, <5>1, <5>2 DEF LogInv
        <5>5. r.total - a.total = r.counter - a.counter
          <6>1. CASE c + 1 = i BY <1>1, <6>1, SMT
          <6>2. CASE c + 1 # i
            <7>1. Follows(a, r)
              BY <1>1, <2>1, <3>1, <5>1, <6>2, SMT DEF LogInv
            <7> QED BY Zenon, <5>2, <7>1 DEF Follows
          <6> QED BY Zenon, <6>1, <6>2
        <5> DEFINE at == a.total
                   ac == a.counter
                   rt == r.total
                   rc == r.counter
                   bt == b.total
        <5>6. /\ at \in Nat /\ ac \in Nat /\ rt \in Nat /\ rc \in Nat
              /\ bt \in Nat /\ at = bt + ac /\ rt - at = rc - ac
          BY Zenon, <1>1, <2>1, <5>1, <5>3, <5>5
        <5> HIDE DEF at, ac, rt, rc, bt
        <5>7. bt + rc = rt BY <5>6, SMT
        <5> QED BY Zenon, <5>7 DEF rt, rc, bt
      <4> HIDE DEF r, b, d, m
      <4> QED BY <1>1, <2>1, <2>3, <3>2, <4>1, <4>2, Zenon
    <3> QED BY Zenon, <3>3, <3>4
  <2> QED BY Zenon, <2>10, <2>11
<1> QED BY Zenon, <1>2, <1>3

\* The lifetime counters stay naturals.
LEMMA LifeTyped ==
  ASSUME LedgerInv
  PROVE  Life \in Nat /\ Life <= MaxInt /\ MaxInt \in Nat
<1>1. MaxInt \in Nat BY Zenon, LedgerAssumption
<1>2. CASE energy = None BY <1>1, <1>2, SMT DEF Life
<1>3. CASE energy # None
  <2>1. energy.life \in Nat /\ energy.life <= MaxInt
    BY Zenon, <1>3 DEF LedgerInv, EnergyState
  <2> QED BY Zenon, <1>1, <1>3, <2>1 DEF Life
<1> QED BY Zenon, <1>2, <1>3

\* A counter never passes its limit nor goes back.
LEMMA Saturating ==
  ASSUME NEW v \in Nat, NEW d \in Nat, v <= MaxInt
  PROVE  /\ SaturatingAdd(v, d) \in Nat /\ SaturatingAdd(v, d) <= MaxInt
         /\ SaturatingAdd(v, d) <= v + d /\ v <= SaturatingAdd(v, d)
         /\ ~(v > MaxInt - d) => SaturatingAdd(v, d) = v + d
<1>1. MaxInt \in Nat BY Zenon, LedgerAssumption
<1>2. CASE v > MaxInt - d BY <1>1, <1>2, SMT DEF SaturatingAdd
<1>3. CASE ~(v > MaxInt - d) BY <1>1, <1>3, SMT DEF SaturatingAdd
<1> QED BY Zenon, <1>2, <1>3

\* An accepted checkpoint credits what it adds, to the row it then matches.
LEMMA CreditTyped ==
  ASSUME LogInv, LedgerInv, NEW i \in 1..Len(elog), Deliverable(i),
         EnergyVerdict(elog[i]) = "accept"
  PROVE  /\ Credit(elog[i]) \in EnergyState /\ Credit(elog[i]) # None
         /\ Credit(elog[i]).life = SaturatingAdd(Life, EnergyDelta(elog[i]))
         /\ Credit(elog[i]).epoch = IF energy = None THEN 0 ELSE energy.epoch
         /\ Matches(Credit(elog[i]), elog[i])
<1> DEFINE r == elog[i]
           life == SaturatingAdd(Life, EnergyDelta(r))
           epoch == IF energy = None THEN 0 ELSE energy.epoch
           clip == Life > MaxInt - EnergyDelta(r)
<1>1. /\ r.session \in Sessions /\ r.seq \in Nat /\ r.counter \in Nat
      /\ r.window \in Windows
  BY Zenon, LogElement
<1>2. r.window[1] \in Nat /\ Duration(r.window) \in Nat
  BY Zenon, <1>1, DurationSurvives
<1>3. life \in Nat BY Zenon, LifeTyped, DeltaBound, Saturating
<1>4. epoch \in Nat BY Zenon DEF LedgerInv, EnergyState
<1>5. clip \in BOOLEAN OBVIOUS
<1>6. Credit(r) = [epoch |-> epoch, session |-> r.session, seq |-> r.seq,
                   counter |-> r.counter, life |-> life, saturated |-> clip,
                   count |-> r.window[1], duration |-> Duration(r.window)]
  BY Zenon DEF Credit
<1> HIDE DEF r, life, epoch, clip
<1>7. Credit(r) \in EnergyState
  <2> DEFINE count == r.window[1]
             duration == Duration(r.window)
  <2>1. count \in Nat /\ duration \in Nat BY Zenon, <1>2
  <2>2. Credit(r) = [epoch |-> epoch, session |-> r.session, seq |-> r.seq,
                     counter |-> r.counter, life |-> life, saturated |-> clip,
                     count |-> count, duration |-> duration]
    BY Zenon, <1>6
  <2> HIDE DEF count, duration
  <2> QED BY <1>1, <1>3, <1>4, <1>5, <2>1, <2>2 DEF EnergyState
<1>8. Credit(r).epoch = epoch /\ Credit(r).life = life
  BY <1>6
<1>9. Credit(r) # None
  BY <1>4, <1>8, SMT DEF None
<1>10. Matches(Credit(r), r) BY <1>6 DEF Matches
<1> QED BY Zenon, <1>7, <1>8, <1>9, <1>10 DEF r, life, epoch

EnergyInv == LogInv /\ LedgerInv /\ NeverOvercounted /\ EnergyExact

\* Ingesting a checkpoint keeps the energy invariant.
LEMMA IngestKeepsEnergy == EnergyInv /\ IngestEnergy => EnergyInv'
<1> SUFFICES ASSUME EnergyInv, IngestEnergy PROVE EnergyInv'
  BY Zenon
<1> USE DEF EnergyInv
<1>1. PICK i \in 1..Len(elog) :
        /\ Deliverable(i) /\ EnergyVerdict(elog[i]) = "accept"
        /\ energy' = Credit(elog[i])
        /\ energyRow' = PersistEnergy(Credit(elog[i]))
        /\ consumed' = i
        /\ flaws' = flaws \cup
             (IF Life > MaxInt - EnergyDelta(elog[i]) THEN {"clip"} ELSE {})
             \cup (IF Collision(elog[i]) THEN {"collision"} ELSE {})
             \cup (IF TailLost(i) THEN {"tail"} ELSE {})
        /\ UNCHANGED <<elog, archived>>
  BY Zenon DEF IngestEnergy, Collision, TailLost
<1> DEFINE r == elog[i]
           d == EnergyDelta(r)
           m == Measured
           life == SaturatingAdd(Life, d)
<1>2. /\ d \in Nat /\ m \in Nat /\ m + d <= r.total
      /\ ~Collision(r) /\ ~TailLost(i) => m + d = r.total
  BY Zenon, <1>1, DeltaBound
<1>3. /\ energy' \in EnergyState /\ energy' # None /\ energy'.life = life
      /\ Matches(energy', r)
  BY Zenon, <1>1, CreditTyped
<1>4. /\ Len(elog) \in Nat /\ i \in Nat /\ i >= 1 /\ i <= Len(elog)
      /\ r.total \in Nat
  BY Zenon, LogElement
<1>5. /\ life \in Nat /\ life <= MaxInt /\ life <= Life + d
      /\ Life \in Nat
      /\ ~(Life > MaxInt - d) => life = Life + d
  BY Zenon, <1>2, LifeTyped, Saturating
<1>6. LogInv' BY <1>1 DEF LogInv, Follows
<1>7. None' = None BY Zenon DEF None
<1>8. LedgerInv'
  <2>1. consumed' \in 0..Len(elog') BY <1>1, <1>4, SMTT(30)
  <2>2. consumed' # 0 BY <1>1, <1>4, SMT
  <2>3. energy'.life <= MaxInt BY Zenon, <1>3, <1>5
  <2>4. Matches(energy', elog'[consumed'])
    BY Zenon, <1>1, <1>3
  <2> QED BY Zenon, <1>1, <1>3, <1>7, <2>1, <2>2, <2>3, <2>4
       DEF LedgerInv, PersistEnergy, Matches, Duration, SampleRate, EnergyState
<1>9. Life' = life BY Zenon, <1>3 DEF Life
<1>10. Measured' = r.total BY <1>1, <1>4, SMT DEF Measured
<1>11. archived \in Nat /\ archived' = archived BY Zenon, <1>1 DEF LedgerInv
<1>12. NeverOvercounted'
  <2>1. Life + archived <= m BY Zenon DEF NeverOvercounted
  <2> DEFINE t == r.total
  <2>2. Measured' = t /\ m + d <= t /\ t \in Nat BY Zenon, <1>2, <1>4, <1>10
  <2> HIDE DEF life, d, m, r, t
  <2>3. life + archived <= t
    BY <1>2, <1>5, <1>11, <2>1, <2>2, SMT
  <2> QED BY Zenon, <1>9, <1>11, <2>2, <2>3 DEF NeverOvercounted
<1>13. EnergyExact'
  <2> SUFFICES ASSUME flaws' = {} PROVE Life' + archived' = Measured'
    BY Zenon DEF EnergyExact
  <2>1. /\ flaws = {} /\ ~(Life > MaxInt - d)
        /\ ~Collision(r) /\ ~TailLost(i)
    BY Zenon, <1>1
  <2>2. Life + archived = m BY Zenon, <2>1 DEF EnergyExact
  <2>3. life = Life + d /\ m + d = r.total BY Zenon, <1>2, <1>5, <2>1
  <2> DEFINE t == r.total
  <2>4. m + d = t BY Zenon, <2>3
  <2> HIDE DEF life, d, m, r, t
  <2>5. life + archived = t
    BY <1>2, <1>5, <1>11, <2>2, <2>3, <2>4, SMT
  <2> QED BY Zenon, <1>9, <1>10, <1>11, <2>5 DEF t
<1> QED BY Zenon, <1>6, <1>8, <1>12, <1>13

-----------------------------------------------------------------------------
\* The other steps of the energy half.

\* A restart is invisible: the row gives back the state it was written from.
LEMMA RowGivesStateBack ==
  ASSUME LogInv, LedgerInv
  PROVE  LoadEnergy(energyRow) = energy
<1>1. CASE energy = None BY Zenon, <1>1 DEF LedgerInv, LoadEnergy
<1>2. CASE energy # None
  <2> DEFINE w == elog[consumed].window
             row == PersistEnergy(energy)
  <2>1. consumed \in 1..Len(elog)
    BY <1>2, SMT DEF LedgerInv, LogInv
  <2>2. w \in Windows BY Zenon, <2>1, LogElement
  <2>3. /\ energyRow = row /\ energy \in EnergyState
        /\ energy.count = w[1] /\ energy.duration = Duration(w)
    BY Zenon, <1>2 DEF LedgerInv, Matches
  <2>4. LoadedDuration(energy.count, SampleRate(energy.count, energy.duration))
          = energy.duration
    BY Zenon, <2>2, <2>3, DurationSurvives
  <2>5. /\ row.epoch = energy.epoch /\ row.session = energy.session
        /\ row.seq = energy.seq /\ row.counter = energy.counter
        /\ row.life = energy.life /\ row.saturated = energy.saturated
        /\ row.count = energy.count
        /\ row.rate = SampleRate(energy.count, energy.duration)
    BY Zenon DEF PersistEnergy
  <2>6. row # None
    <3>1. row.epoch \in Nat BY Zenon, <2>3, <2>5 DEF EnergyState
    <3> HIDE DEF row
    <3> QED BY <3>1, SMT DEF None
  <2> HIDE DEF row, w
  <2>7. LoadEnergy(row) =
          [epoch |-> energy.epoch, session |-> energy.session,
           seq |-> energy.seq, counter |-> energy.counter,
           life |-> energy.life, saturated |-> energy.saturated,
           count |-> energy.count, duration |-> energy.duration]
    BY Zenon, <2>4, <2>5, <2>6 DEF LoadEnergy
  <2>8. energy = [epoch |-> energy.epoch, session |-> energy.session,
           seq |-> energy.seq, counter |-> energy.counter,
           life |-> energy.life, saturated |-> energy.saturated,
           count |-> energy.count, duration |-> energy.duration]
    BY Zenon, <2>3 DEF EnergyState
  <2> QED BY Zenon, <2>3, <2>7, <2>8
<1> QED BY Zenon, <1>1, <1>2

\* Steps elsewhere leave the energy invariant alone.
LEMMA EnergyUnchanged ==
  ASSUME EnergyInv,
         UNCHANGED <<elog, energy, energyRow, consumed, archived, flaws>>
  PROVE  EnergyInv'
<1>1. LogInv' BY SMTT(30) DEF EnergyInv, LogInv, Follows
<1>2. LedgerInv'
  BY Zenon DEF EnergyInv, LedgerInv, Matches, PersistEnergy, None, EnergyState,
         SampleRate, Duration
<1>3. NeverOvercounted' /\ EnergyExact'
  BY Zenon DEF EnergyInv, NeverOvercounted, EnergyExact, Life, Measured, None
<1> QED BY Zenon, <1>1, <1>2, <1>3 DEF EnergyInv

\* Measuring keeps it.
LEMMA MeasureKeepsEnergy == EnergyInv /\ MeasureEnergy => EnergyInv'
<1> SUFFICES ASSUME EnergyInv, MeasureEnergy PROVE EnergyInv'
  BY Zenon
<1>1. LogInv' BY Zenon, MeasureKeepsLog DEF EnergyInv
<1>2. UNCHANGED <<energy, energyRow, consumed, archived, flaws>>
  BY Zenon DEF MeasureEnergy
<1>3. /\ Len(elog) \in Nat /\ Len(elog') = Len(elog) + 1
      /\ \A i \in 1..Len(elog) : elog'[i] = elog[i]
  <2>1. \E c : elog' = Append(elog, c) BY Zenon DEF MeasureEnergy
  <2>2. elog \in Seq(Checkpoint) BY Zenon DEF EnergyInv, LogInv
  <2>3. \E S : elog' \in Seq(S) BY Zenon, <1>1 DEF LogInv
  <2>4. PICK c : elog' = Append(elog, c) BY Zenon, <2>1
  <2>5. elog \in Seq(Checkpoint \cup {c}) /\ c \in Checkpoint \cup {c}
    BY <2>2, SMT
  <2> QED BY <2>4, <2>5, SMT
<1>4. consumed # 0 => elog'[consumed] = elog[consumed]
  <2> SUFFICES ASSUME consumed # 0 PROVE consumed \in 1..Len(elog)
    BY Zenon, <1>3
  <2> QED BY <1>3, SMT DEF EnergyInv, LedgerInv
<1>5. energy # None => consumed # 0 BY Zenon DEF EnergyInv, LedgerInv
<1>6. consumed' \in 0..Len(elog')
  BY <1>2, <1>3, SMTT(30) DEF EnergyInv, LedgerInv
<1>7. LedgerInv'
  BY Zenon, <1>2, <1>4, <1>5, <1>6
  DEF EnergyInv, LedgerInv, Matches, PersistEnergy, None, EnergyState,
      SampleRate, Duration
<1>8. NeverOvercounted' /\ EnergyExact'
  BY Zenon, <1>2, <1>4
  DEF EnergyInv, NeverOvercounted, EnergyExact, Life, Measured, None
<1> QED BY Zenon, <1>1, <1>7, <1>8 DEF EnergyInv

\* A reset keeps it.
LEMMA ResetKeepsEnergy == EnergyInv /\ ResetEnergy => EnergyInv'
<1> SUFFICES ASSUME EnergyInv, ResetEnergy PROVE EnergyInv'
  BY Zenon
<1>1. /\ energy # None
      /\ energy' = [energy EXCEPT !.epoch = @ + 1, !.life = 0]
      /\ energyRow' = PersistEnergy(energy')
      /\ archived' = archived + energy.life
      /\ UNCHANGED <<elog, consumed, flaws>>
  BY Zenon DEF ResetEnergy
<1>2. /\ energy \in EnergyState /\ archived \in Nat
      /\ energy.epoch \in Nat /\ energy.life \in Nat
  BY Zenon, <1>1 DEF EnergyInv, LedgerInv, EnergyState
<1>3. energy.epoch + 1 \in Nat /\ energy.epoch + 1 # -1 BY <1>2, SMT
<1>4. /\ energy' \in EnergyState /\ energy'.epoch = energy.epoch + 1
      /\ energy'.life = 0 /\ energy'.session = energy.session
      /\ energy'.seq = energy.seq /\ energy'.counter = energy.counter
      /\ energy'.count = energy.count /\ energy'.duration = energy.duration
  BY Zenon, <1>1, <1>2, <1>3 DEF EnergyState
<1>5. energy' # None BY <1>3, <1>4 DEF None
<1>6. LogInv' BY <1>1 DEF EnergyInv, LogInv, Follows
<1>7. MaxInt \in Nat /\ 0 <= MaxInt BY LedgerAssumption, SMT
<1>8. archived' \in Nat BY <1>1, <1>2, SMT
<1>9. Matches(energy', elog'[consumed'])
  BY Zenon, <1>1, <1>4 DEF EnergyInv, LedgerInv, Matches
<1>10. LedgerInv'
  <2>1. consumed' \in 0..Len(elog') /\ consumed' # 0
    BY Zenon, <1>1 DEF EnergyInv, LedgerInv
  <2> QED BY Zenon, <1>1, <1>4, <1>5, <1>7, <1>8, <1>9, <2>1
       DEF LedgerInv, None, EnergyState, Matches, PersistEnergy, SampleRate,
           Duration
<1>11. Life' + archived' = Life + archived
  <2>1. Life' = 0 BY Zenon, <1>4, <1>5 DEF Life, None
  <2>2. Life = energy.life BY Zenon, <1>1 DEF Life
  <2> QED BY <1>1, <1>2, <2>1, <2>2, SMT
<1>12. Measured' = Measured BY Zenon, <1>1 DEF Measured
<1>13. NeverOvercounted' /\ EnergyExact'
  BY Zenon, <1>1, <1>11, <1>12 DEF EnergyInv, NeverOvercounted, EnergyExact
<1> QED BY Zenon, <1>6, <1>10, <1>13 DEF EnergyInv

\* So does a restart of the meter.
LEMMA RestartKeepsEnergy == EnergyInv /\ Restart => EnergyInv'
<1> SUFFICES ASSUME EnergyInv, Restart PROVE EnergyInv'
  BY Zenon
<1>1. energy' = energy BY Zenon, RowGivesStateBack DEF EnergyInv, Restart
<1>2. UNCHANGED <<elog, energyRow, consumed, archived, flaws>>
  BY Zenon DEF Restart
<1> QED BY Zenon, <1>1, <1>2, EnergyUnchanged

\* An empty ledger satisfies it.
LEMMA InitEnergy == Init => EnergyInv
<1> SUFFICES ASSUME Init PROVE EnergyInv
  BY Zenon
<1>1. elog = <<>> /\ consumed = 0 /\ archived = 0 /\ energy = None
        /\ energyRow = None
  BY Zenon DEF Init
<1>2. LogInv BY <1>1, SMT DEF LogInv
<1>3. LedgerInv BY <1>1, SMT DEF LedgerInv
<1>4. Life + archived = Measured /\ Life + archived <= Measured
  BY <1>1, SMT DEF Life, Measured
<1> QED BY Zenon, <1>2, <1>3, <1>4 DEF EnergyInv, NeverOvercounted, EnergyExact

\* Every step keeps it.
LEMMA NextEnergy == EnergyInv /\ [Next]_vars => EnergyInv'
<1> SUFFICES ASSUME EnergyInv, [Next]_vars PROVE EnergyInv'
  BY Zenon
<1>1. CASE MeasureEnergy BY Zenon, <1>1, MeasureKeepsEnergy
<1>2. CASE IngestEnergy BY Zenon, <1>2, IngestKeepsEnergy
<1>3. CASE ResetEnergy BY Zenon, <1>3, ResetKeepsEnergy
<1>4. CASE MeasureDemand \/ IngestDemand \/ ResetDemandPeaks
  <2>1. UNCHANGED <<elog, energy, energyRow, consumed, archived, flaws>>
    BY Zenon, <1>4 DEF MeasureDemand, IngestDemand, ResetDemandPeaks, eVars
  <2> QED BY Zenon, <2>1, EnergyUnchanged
<1>5. CASE Restart BY Zenon, <1>5, RestartKeepsEnergy
<1>6. CASE UNCHANGED vars
  <2>1. UNCHANGED <<elog, energy, energyRow, consumed, archived, flaws>>
    BY Zenon, <1>6 DEF vars, eVars
  <2> QED BY Zenon, <2>1, EnergyUnchanged
<1> QED BY Zenon, <1>1, <1>2, <1>3, <1>4, <1>5, <1>6 DEF Next

\* Hence it always holds.
LEMMA EnergyInvariant == Spec => []EnergyInv
BY InitEnergy, NextEnergy, PTL DEF Spec

\* The ledger never counts energy that was not measured, whatever is
\* delivered again, lost, reset or restarted (ingest_energy, reset_energy,
\* load_energy).
THEOREM LedgerNeverOvercounts == Spec => []NeverOvercounted
<1>1. EnergyInv => NeverOvercounted BY Zenon DEF EnergyInv
<1> QED BY <1>1, EnergyInvariant, PTL

\* The ledger counts all the energy that was measured up to the checkpoint it
\* consumed last, unless a counter clipped, a boot nonce was repeated at once
\* or the last checkpoints of a session were lost.
THEOREM LedgerIsExact == Spec => []EnergyExact
<1>1. EnergyInv => EnergyExact BY Zenon DEF EnergyInv
<1> QED BY <1>1, EnergyInvariant, PTL

-----------------------------------------------------------------------------
\* The demand half: the log of intervals.

Interval == [session : Sessions, profile : Profiles, gen : Nat, seq : Nat,
             current : (-MaxInt - 1)..MaxInt, valid : BOOLEAN,
             rawImport : Nat, rawExport : Nat, anchor : Nat]

DemandState == [epoch : Nat, session : Sessions, profile : Profiles,
                gen : Nat, seq : Nat, current : (-MaxInt - 1)..MaxInt,
                valid : BOOLEAN, anchor : Nat,
                rawImport : Nat, rawExport : Nat,
                baseImport : Nat, baseExport : Nat,
                peakImport : Nat, peakExport : Nat]

Sides == {"import", "export"}

\* The magnitude an interval contributes to a side, and the session peak it
\* carries.
Value(r, side) ==
  IF side = "import" THEN IF r.valid /\ r.current > 0 THEN r.current ELSE 0
  ELSE IF r.valid /\ r.current < 0 THEN Magnitude(r.current) ELSE 0

Raw(r, side) == IF side = "import" THEN r.rawImport ELSE r.rawExport

SameSource(r, s) ==
  r.session = s.session /\ r.profile = s.profile /\ r.gen = s.gen

\* The intervals i..j come from one instance of the source.
OneInstance(i, j) == \A k \in i..j : SameSource(dlog[k], dlog[i])

\* The session peak of interval j was measured after interval i, or is that
\* of interval i and the source has not changed since.
Since(i, j, side) ==
  \/ \E k \in (i + 1)..j : Value(dlog[k], side) = Raw(dlog[j], side)
  \/ /\ i # 0 /\ Raw(dlog[j], side) = Raw(dlog[i], side)
     /\ OneInstance(i, j)

DemandLogInv ==
  /\ dlog \in Seq(Interval)
  /\ \A side \in Sides, j \in 1..Len(dlog) : \A i \in 0..(j - 1) :
       Raw(dlog[j], side) # 0 => Since(i, j, side)

\* One more interval: of the running instance, or the first of a new one.
LEMMA DemandLogExtended ==
  ASSUME DemandLogInv, NEW c \in Interval, dlog' = Append(dlog, c),
         \/ \A side \in Sides : Raw(c, side) = Value(c, side)
         \/ /\ dlog # <<>> /\ SameSource(c, dlog[Len(dlog)])
            /\ \A side \in Sides :
                 \/ Raw(c, side) = Value(c, side)
                 \/ Raw(c, side) = Raw(dlog[Len(dlog)], side)
  PROVE  DemandLogInv'
<1> DEFINE n == Len(dlog)
<1>1. dlog \in Seq(Interval) /\ n \in Nat BY DEF DemandLogInv
<1>2. /\ dlog' \in Seq(Interval) /\ Len(dlog') = n + 1
      /\ \A i \in 1..n : dlog'[i] = dlog[i]
      /\ dlog'[n + 1] = c
  BY <1>1, SMT
<1> HIDE DEF n
<1>3. ASSUME NEW side \in Sides, NEW j \in 1..(n + 1), NEW i \in 0..(j - 1),
             Raw(dlog'[j], side) # 0
      PROVE  Since(i, j, side)'
  <2>1. i \in Nat /\ j \in Nat /\ i < j /\ j <= n + 1 /\ j >= 1
    BY <1>1, <1>3, SMTT(30)
  <2>2. CASE j <= n
    <3>1. j \in 1..n BY <1>1, <2>1, <2>2, SMT
    <3>2. Since(i, j, side)
      BY Zenon, <1>2, <1>3, <3>1 DEF DemandLogInv, n
    <3>3. \A k \in 1..j : dlog'[k] = dlog[k]
      <4> TAKE k \in 1..j
      <4>1. k \in 1..n BY <1>1, <3>1, SMT
      <4> QED BY Zenon, <1>2, <4>1
    <3>4. CASE \E k \in (i + 1)..j : Value(dlog[k], side) = Raw(dlog[j], side)
      <4>1. PICK k \in (i + 1)..j : Value(dlog[k], side) = Raw(dlog[j], side)
        BY Zenon, <3>4
      <4>2. k \in 1..j /\ j \in 1..j BY <2>1, <4>1, SMT
      <4>3. Value(dlog'[k], side) = Raw(dlog'[j], side)
        BY Zenon, <3>3, <4>1, <4>2
      <4> QED BY Zenon, <4>1, <4>3 DEF Since, Value, Raw, Magnitude
    <3>5. CASE /\ i # 0 /\ Raw(dlog[j], side) = Raw(dlog[i], side)
               /\ OneInstance(i, j)
      <4>1. i \in 1..j /\ j \in 1..j BY <2>1, <3>5, SMT
      <4>2. Raw(dlog'[j], side) = Raw(dlog'[i], side) BY Zenon, <3>3, <3>5, <4>1
      <4>3. \A k \in i..j : SameSource(dlog'[k], dlog'[i])
        <5> TAKE k \in i..j
        <5>1. k \in 1..j BY <2>1, <4>1, SMT
        <5> QED BY Zenon, <3>3, <3>5, <4>1, <5>1 DEF OneInstance
      <4> QED BY Zenon, <3>5, <4>2, <4>3 DEF Since, OneInstance, Raw, SameSource
    <3> QED BY Zenon, <3>2, <3>4, <3>5 DEF Since
  <2>3. CASE j = n + 1
    <3>1. CASE Raw(c, side) = Value(c, side)
      <4>1. j \in (i + 1)..j BY <2>1, SMT
      <4>2. Value(dlog'[j], side) = Raw(dlog'[j], side)
        BY Zenon, <1>2, <2>3, <3>1
      <4> QED BY Zenon, <4>1, <4>2 DEF Since, Value, Raw, Magnitude
    <3>2. CASE Raw(c, side) # Value(c, side)
      <4>1. /\ dlog # <<>> /\ SameSource(c, dlog[n])
            /\ Raw(c, side) = Raw(dlog[n], side)
        BY Zenon, <3>2 DEF n
      <4>2. n \in 1..n /\ n # 0 BY <1>1, <4>1, SMT DEF n
      <4>3. Raw(dlog[n], side) # 0 BY Zenon, <1>2, <1>3, <2>3, <4>1
      <4>4. CASE i = n
        <5>1. Raw(dlog'[j], side) = Raw(dlog'[i], side)
          BY Zenon, <1>2, <2>3, <4>1, <4>2, <4>4
        <5>2. \A k \in i..j : SameSource(dlog'[k], dlog'[i])
          <6> TAKE k \in i..j
          <6>1. k = n \/ k = n + 1 BY <1>1, <2>1, <2>3, <4>4, SMT
          <6>2. CASE k = n BY Zenon, <4>4, <6>2 DEF SameSource
          <6>3. CASE k = n + 1
            BY Zenon, <1>2, <4>1, <4>2, <4>4, <6>3
          <6> QED BY Zenon, <6>1, <6>2, <6>3
        <5> QED BY Zenon, <4>2, <4>4, <5>1, <5>2
             DEF Since, OneInstance, Raw, SameSource
      <4>5. CASE i # n
        <5>1. i \in 0..(n - 1) BY <1>1, <2>1, <2>3, <4>5, SMT
        <5>2. Since(i, n, side) BY Zenon, <4>2, <4>3, <5>1 DEF DemandLogInv, n
        <5>3. CASE \E k \in (i + 1)..n :
                     Value(dlog[k], side) = Raw(dlog[n], side)
          <6>1. PICK k \in (i + 1)..n :
                       Value(dlog[k], side) = Raw(dlog[n], side)
            BY Zenon, <5>3
          <6>2. k \in 1..n /\ k \in (i + 1)..j
            BY <1>1, <2>1, <2>3, <6>1, SMT
          <6>3. Value(dlog'[k], side) = Raw(dlog'[j], side)
            BY Zenon, <1>2, <2>3, <4>1, <6>1, <6>2
          <6> QED BY Zenon, <6>2, <6>3 DEF Since, Value, Raw, Magnitude
        <5>4. CASE /\ i # 0 /\ Raw(dlog[n], side) = Raw(dlog[i], side)
                   /\ OneInstance(i, n)
          <6>1. i \in 1..n BY <1>1, <2>1, <5>1, <5>4, SMT
          <6>2. Raw(dlog'[j], side) = Raw(dlog'[i], side)
            BY Zenon, <1>2, <2>3, <4>1, <5>4, <6>1
          <6>3. \A k \in i..j : SameSource(dlog'[k], dlog'[i])
            <7> TAKE k \in i..j
            <7>1. CASE k = n + 1
              <8>1. n \in i..n BY <1>1, <6>1, SMT
              <8>2. SameSource(dlog[n], dlog[i]) BY Zenon, <5>4, <8>1 DEF OneInstance
              <8> QED BY Zenon, <1>2, <4>1, <6>1, <7>1, <8>2 DEF SameSource
            <7>2. CASE k # n + 1
              <8>1. k \in i..n /\ k \in 1..n
                BY <1>1, <2>1, <2>3, <6>1, <7>2, SMT
              <8> QED BY Zenon, <1>2, <5>4, <6>1, <8>1 DEF OneInstance
            <7> QED BY Zenon, <7>1, <7>2
          <6> QED BY Zenon, <5>4, <6>2, <6>3 DEF Since, OneInstance, Raw, SameSource
        <5> QED BY Zenon, <5>2, <5>3, <5>4 DEF Since
      <4> QED BY Zenon, <4>4, <4>5
    <3> QED BY Zenon, <3>1, <3>2
  <2> QED BY <1>1, <2>1, <2>2, <2>3, SMT
<1>4. \A side \in Sides, j \in 1..Len(dlog') : \A i \in 0..(j - 1) :
        Raw(dlog'[j], side) # 0 => Since(i, j, side)'
  BY Zenon, <1>2, <1>3
<1> QED BY Zenon, <1>2, <1>4 DEF DemandLogInv, Interval, Raw, Since, Value,
                          OneInstance, SameSource, Sides, Magnitude

\* A demand measurement only appends to the demand log.
LEMMA MeasureKeepsDemandLog ==
  ASSUME DemandLogInv, MeasureDemand
  PROVE  DemandLogInv' /\ \E c \in Interval : dlog' = Append(dlog, c)
<1> DEFINE Imp(v, valid) == IF valid /\ v > 0 THEN v ELSE 0
           Exp(v, valid) == IF ~valid \/ v >= 0 THEN 0
                            ELSE IF v < -MaxInt THEN MaxInt ELSE -v
           Made(s, p, gen, seq, v, valid, i, x) ==
             [session |-> s, profile |-> p, gen |-> gen, seq |-> seq,
              current |-> v, valid |-> valid, rawImport |-> i,
              rawExport |-> x, anchor |-> Len(dlog) + 1]
           old == dlog[Len(dlog)]
<1>1. dlog \in Seq(Interval) /\ Len(dlog) \in Nat BY DEF DemandLogInv
<1>2. PICK v \in Demands, valid \in BOOLEAN :
        \/ /\ dlog = <<>>
           /\ \E s \in Sessions, p \in Profiles :
                dlog' = <<Made(s, p, 1, 1, v, valid, Imp(v, valid),
                               Exp(v, valid))>>
        \/ /\ dlog # <<>>
           /\ dlog' = Append(dlog, Made(old.session, old.profile, old.gen,
                old.seq + 1, v, valid, Larger(old.rawImport, Imp(v, valid)),
                Larger(old.rawExport, Exp(v, valid))))
        \/ /\ dlog # <<>>
           /\ \E s \in Sessions, p \in Profiles,
                 g \in {old.gen, old.gen + 1} :
                /\ s # old.session \/ g # old.gen
                /\ p # old.profile => g # old.gen \/ s # old.session
                /\ dlog' = Append(dlog, Made(s, p, g, 1, v, valid,
                                             Imp(v, valid), Exp(v, valid)))
  BY Zenon DEF MeasureDemand
<1>3. MaxInt \in Nat /\ v \in (-MaxInt - 1)..MaxInt
  BY Zenon, LedgerAssumption
<1>4. v \in Int /\ v >= -MaxInt - 1 /\ v <= MaxInt BY <1>3, SMT
<1>5. Imp(v, valid) \in Nat BY <1>3, <1>4, SMT
<1>6. Exp(v, valid) \in Nat BY <1>3, <1>4, SMT
<1>7. Exp(v, valid) = IF valid /\ v < 0 THEN Magnitude(v) ELSE 0
  <2>1. CASE ~valid \/ v >= 0
    <3>1. ~(valid /\ v < 0) BY <1>4, <2>1, SMT
    <3> QED BY Zenon, <2>1, <3>1
  <2>2. CASE valid /\ v < 0
    <3>1. ~(~valid \/ v >= 0) BY <1>4, <2>2, SMT
    <3>2. Exp(v, valid) = IF v < -MaxInt THEN MaxInt ELSE -v BY Zenon, <3>1
    <3>3. (IF v < -MaxInt THEN MaxInt ELSE -v) = Magnitude(v)
      BY <1>3, <1>4, <2>2, SMTT(30) DEF Magnitude
    <3> QED BY Zenon, <2>2, <3>2, <3>3
  <2> QED BY <1>4, <2>1, <2>2, SMT
<1> DEFINE imp == Imp(v, valid)
           exp == Exp(v, valid)
           Holds(c, i, x) ==
             /\ c \in Interval /\ Raw(c, "import") = i /\ Raw(c, "export") = x
             /\ Value(c, "import") = imp /\ Value(c, "export") = exp
<1> HIDE DEF Imp, Exp, Made, Holds
<1>8. ASSUME NEW s \in Sessions, NEW p \in Profiles, NEW g \in Nat,
             NEW q \in Nat, NEW i \in Nat, NEW x \in Nat
      PROVE  Holds(Made(s, p, g, q, v, valid, i, x), i, x)
  <2> DEFINE c == Made(s, p, g, q, v, valid, i, x)
             a == Len(dlog) + 1
  <2>1. a \in Nat BY <1>1, SMT
  <2>2. c = [session |-> s, profile |-> p, gen |-> g, seq |-> q,
             current |-> v, valid |-> valid, rawImport |-> i,
             rawExport |-> x, anchor |-> a]
    BY Zenon DEF Made
  <2> HIDE DEF c, a
  <2>3. c \in Interval BY Zenon, <1>3, <2>1, <2>2 DEF Interval
  <2>4. /\ c.rawImport = i /\ c.rawExport = x /\ c.current = v
        /\ c.valid = valid
    BY Zenon, <2>2
  <2>5. Raw(c, "import") = i /\ Raw(c, "export") = x
    BY Zenon, <2>4 DEF Raw
  <2>6. Value(c, "import") = imp BY Zenon, <2>4 DEF Value, Imp
  <2>7. Value(c, "export") = exp BY Zenon, <1>7, <2>4 DEF Value
  <2>8. Holds(c, i, x) BY Zenon, <2>3, <2>5, <2>6, <2>7 DEF Holds
  <2> QED BY Zenon, <2>8 DEF c
<1>9. imp \in Nat /\ exp \in Nat BY Zenon, <1>5, <1>6
<1>10. 1 \in Nat BY Zenon
<1>11. CASE dlog = <<>> /\ \E s \in Sessions, p \in Profiles :
                dlog' = <<Made(s, p, 1, 1, v, valid, imp, exp)>>
  <2>1. PICK s \in Sessions, p \in Profiles :
                dlog' = <<Made(s, p, 1, 1, v, valid, imp, exp)>>
    BY Zenon, <1>11
  <2> DEFINE c == Made(s, p, 1, 1, v, valid, imp, exp)
  <2>a. Holds(c, imp, exp)
    BY ZenonT(40), <1>8, <1>9, <1>10
  <2>2. /\ c \in Interval
        /\ Raw(c, "import") = imp /\ Raw(c, "export") = exp
        /\ Value(c, "import") = imp /\ Value(c, "export") = exp
    BY Zenon, <2>a DEF Holds
  <2>3. dlog' = <<c>> BY Zenon, <2>1
  <2> HIDE DEF c
  <2>4. dlog' = Append(dlog, c) BY <1>11, <2>3, SMT
  <2>5. \A side \in Sides : Raw(c, side) = Value(c, side)
    BY Zenon, <2>2 DEF Sides
  <2> QED BY Zenon, <2>2, <2>4, <2>5, DemandLogExtended
<1>12. CASE dlog # <<>> /\ \E s \in Sessions, p \in Profiles,
                 g \in {old.gen, old.gen + 1} :
                dlog' = Append(dlog, Made(s, p, g, 1, v, valid, imp, exp))
  <2>1. PICK s \in Sessions, p \in Profiles, g \in {old.gen, old.gen + 1} :
                dlog' = Append(dlog, Made(s, p, g, 1, v, valid, imp, exp))
    BY Zenon, <1>12
  <2>2. old \in Interval BY <1>1, <1>12, SMT
  <2>3. g \in Nat BY <2>2, SMTT(30) DEF Interval
  <2> DEFINE c == Made(s, p, g, 1, v, valid, imp, exp)
  <2>a. Holds(c, imp, exp)
    BY ZenonT(40), <1>8, <1>9, <1>10, <2>3
  <2>4. /\ c \in Interval
        /\ Raw(c, "import") = imp /\ Raw(c, "export") = exp
        /\ Value(c, "import") = imp /\ Value(c, "export") = exp
    BY Zenon, <2>a DEF Holds
  <2>5. dlog' = Append(dlog, c) BY Zenon, <2>1
  <2> HIDE DEF c
  <2>6. \A side \in Sides : Raw(c, side) = Value(c, side)
    BY Zenon, <2>4 DEF Sides
  <2> QED BY Zenon, <2>4, <2>5, <2>6, DemandLogExtended
<1>13. CASE dlog # <<>> /\ dlog' = Append(dlog, Made(old.session,
                old.profile, old.gen, old.seq + 1, v, valid,
                Larger(old.rawImport, imp), Larger(old.rawExport, exp)))
  <2>1. old \in Interval BY <1>1, <1>13, SMT
  <2>2. /\ old.session \in Sessions /\ old.profile \in Profiles
        /\ old.gen \in Nat /\ old.seq \in Nat
        /\ old.rawImport \in Nat /\ old.rawExport \in Nat
    BY Zenon, <2>1 DEF Interval
  <2> DEFINE i == Larger(old.rawImport, imp)
             x == Larger(old.rawExport, exp)
             q == old.seq + 1
             c == Made(old.session, old.profile, old.gen, q, v, valid, i, x)
  <2>3. /\ i \in Nat /\ (i = old.rawImport \/ i = imp)
        /\ x \in Nat /\ (x = old.rawExport \/ x = exp)
    BY Zenon, <1>9, <2>2 DEF Larger
  <2>4. q \in Nat BY <2>2, SMT
  <2> HIDE DEF i, x, q
  <2>a. Holds(c, i, x)
    BY ZenonT(40), <1>8, <2>2, <2>3, <2>4
  <2>5. /\ c \in Interval /\ Raw(c, "import") = i /\ Raw(c, "export") = x
        /\ Value(c, "import") = imp /\ Value(c, "export") = exp
    BY Zenon, <2>a DEF Holds
  <2>6. dlog' = Append(dlog, c) BY Zenon, <1>13 DEF i, x, q
  <2>7. SameSource(c, old) BY Zenon DEF SameSource, Made
  <2> HIDE DEF c
  <2>8. \A side \in Sides : \/ Raw(c, side) = Value(c, side)
                            \/ Raw(c, side) = Raw(old, side)
    <3> TAKE side \in Sides
    <3>1. CASE side = "import" BY Zenon, <2>3, <2>5, <3>1 DEF Raw
    <3>2. CASE side = "export" BY Zenon, <2>3, <2>5, <3>2 DEF Raw
    <3> QED BY Zenon, <3>1, <3>2 DEF Sides
  <2> QED BY Zenon, <1>13, <2>5, <2>6, <2>7, <2>8, DemandLogExtended
<1> QED BY Zenon, <1>2, <1>11, <1>12, <1>13

-----------------------------------------------------------------------------
\* The demand half: the ledger's state.

PeakOf(d, side) == IF side = "import" THEN d.peakImport ELSE d.peakExport

BaseOf(d, side) == IF side = "import" THEN d.baseImport ELSE d.baseExport

\* The state is that of the interval ingested last.
MatchesInterval(d, r) ==
  /\ d.session = r.session /\ d.profile = r.profile /\ d.gen = r.gen
  /\ d.seq = r.seq /\ d.current = r.current /\ d.valid = r.valid
  /\ d.anchor = r.anchor /\ d.rawImport = r.rawImport
  /\ d.rawExport = r.rawExport

\* A peak was measured in its epoch, and the reset watermark covers the
\* session peak of the interval at which the epoch began.
PeakSound(d, first, last, side) ==
  /\ PeakOf(d, side) # 0 =>
       \E i \in (first + 1)..last : Value(dlog[i], side) = PeakOf(d, side)
  /\ first # 0 /\ OneInstance(first, last) =>
       BaseOf(d, side) >= Raw(dlog[first], side)

DemandStateInv ==
  /\ covered \in 0..Len(dlog) /\ epochStart \in 0..covered
  /\ demand = None <=> covered = 0
  /\ demandRow = demand
  /\ demand # None =>
       /\ demand \in DemandState
       /\ MatchesInterval(demand, dlog[covered])
       /\ \A side \in Sides : PeakSound(demand, epochStart, covered, side)

DemandInv == DemandLogInv /\ DemandStateInv

\* Elements of the demand log have their type.
LEMMA DemandElement ==
  ASSUME DemandLogInv, NEW i \in 1..Len(dlog)
  PROVE  /\ Len(dlog) \in Nat /\ i \in Nat /\ i >= 1 /\ i <= Len(dlog)
         /\ dlog[i] \in Interval
BY SMT DEF DemandLogInv

\* The value of a demand is in range.
LEMMA ValueTyped ==
  ASSUME NEW r \in Interval, NEW side \in Sides
  PROVE  Value(r, side) \in Nat /\ Raw(r, side) \in Nat
<1>1. /\ r.current \in Int /\ r.current >= -MaxInt - 1 /\ r.current <= MaxInt
      /\ MaxInt \in Nat /\ r.rawImport \in Nat /\ r.rawExport \in Nat
  BY LedgerAssumption, SMT DEF Interval
<1>2. Raw(r, side) \in Nat BY Zenon, <1>1 DEF Raw
<1>3. CASE side = "import" BY <1>1, <1>2, <1>3, SMT DEF Value
<1>4. CASE side # "import"
  <2>1. r.current < 0 => Magnitude(r.current) \in Nat
    BY <1>1, SMT DEF Magnitude
  <2>2. 0 \in Nat BY Zenon
  <2> QED BY Zenon, <1>2, <1>4, <2>1, <2>2 DEF Value
<1> QED BY Zenon, <1>3, <1>4

\* The new peak is one of the values it was taken from.
LEMMA PeakTyped ==
  ASSUME NEW p \in Nat, NEW c \in Nat, NEW r \in Nat, NEW b \in Nat
  PROVE  /\ Peak(p, c, r, b) \in Nat
         /\ \/ Peak(p, c, r, b) = p \/ Peak(p, c, r, b) = c
            \/ Peak(p, c, r, b) = r /\ r > b
BY Zenon DEF Peak, Larger

\* The row before it has its type.
LEMMA BaseTyped ==
  ASSUME NEW r \in Interval, demand # None => demand \in DemandState
  PROVE  /\ DemandBase(r).epoch \in Nat
         /\ \A side \in Sides : /\ PeakOf(DemandBase(r), side) \in Nat
                                /\ BaseOf(DemandBase(r), side) \in Nat
<1>1. demand # None =>
        /\ demand.epoch \in Nat /\ demand.baseImport \in Nat
        /\ demand.baseExport \in Nat /\ demand.peakImport \in Nat
        /\ demand.peakExport \in Nat
  BY Zenon DEF DemandState
<1>2. 0 \in Nat /\ (demand # None => demand.epoch + 1 \in Nat)
  BY <1>1, SMT
<1>3. CASE demand = None
  BY Zenon, <1>2, <1>3 DEF DemandBase, PeakOf, BaseOf
<1>4. CASE demand # None /\ ProfileChanged(r)
  BY Zenon, <1>2, <1>4 DEF DemandBase, PeakOf, BaseOf
<1>5. CASE demand # None /\ ~ProfileChanged(r)
  BY Zenon, <1>1, <1>2, <1>5 DEF DemandBase, PeakOf, BaseOf
<1> QED BY Zenon, <1>3, <1>4, <1>5

\* The row a checkpoint is applied to matches it and keeps epoch and base.
LEMMA ApplyTyped ==
  ASSUME NEW r \in Interval, demand # None => demand \in DemandState
  PROVE  /\ ApplyDemand(r) \in DemandState /\ ApplyDemand(r) # None
         /\ MatchesInterval(ApplyDemand(r), r)
         /\ ApplyDemand(r).epoch = DemandBase(r).epoch
         /\ \A side \in Sides :
              /\ BaseOf(ApplyDemand(r), side) = BaseOf(DemandBase(r), side)
              /\ PeakOf(ApplyDemand(r), side) =
                   Peak(PeakOf(DemandBase(r), side), Value(r, side),
                        Raw(r, side), BaseOf(DemandBase(r), side))
<1> DEFINE b == DemandBase(r)
           pi == Peak(b.peakImport, Value(r, "import"), r.rawImport,
                      b.baseImport)
           px == Peak(b.peakExport, Value(r, "export"), r.rawExport,
                      b.baseExport)
<1>1. ApplyDemand(r) =
        [epoch |-> b.epoch, session |-> r.session, profile |-> r.profile,
         gen |-> r.gen, seq |-> r.seq, current |-> r.current,
         valid |-> r.valid, anchor |-> r.anchor, rawImport |-> r.rawImport,
         rawExport |-> r.rawExport, baseImport |-> b.baseImport,
         baseExport |-> b.baseExport, peakImport |-> pi, peakExport |-> px]
  BY Zenon DEF ApplyDemand, Value
<1>2. /\ b.epoch \in Nat /\ b.baseImport \in Nat /\ b.baseExport \in Nat
      /\ b.peakImport \in Nat /\ b.peakExport \in Nat
  <2>1. "import" \in Sides /\ "export" \in Sides BY Zenon DEF Sides
  <2>2. /\ PeakOf(b, "import") = b.peakImport
        /\ PeakOf(b, "export") = b.peakExport
        /\ BaseOf(b, "import") = b.baseImport
        /\ BaseOf(b, "export") = b.baseExport
    BY Zenon DEF PeakOf, BaseOf
  <2> HIDE DEF b
  <2>3. b.epoch \in Nat /\ \A side \in Sides : /\ PeakOf(b, side) \in Nat
                                              /\ BaseOf(b, side) \in Nat
    BY Zenon, BaseTyped DEF b
  <2> QED BY Zenon, <2>1, <2>2, <2>3
<1>3. /\ r.session \in Sessions /\ r.profile \in Profiles /\ r.gen \in Nat
      /\ r.seq \in Nat /\ r.current \in (-MaxInt - 1)..MaxInt
      /\ r.valid \in BOOLEAN /\ r.anchor \in Nat
      /\ r.rawImport \in Nat /\ r.rawExport \in Nat
  BY Zenon DEF Interval
<1>4. Value(r, "import") \in Nat /\ Value(r, "export") \in Nat
  BY Zenon, ValueTyped DEF Sides
<1> HIDE DEF b
<1>5. pi \in Nat /\ px \in Nat BY Zenon, <1>2, <1>3, <1>4, PeakTyped
<1> HIDE DEF pi, px
<1>6. ApplyDemand(r) \in DemandState
  <2> DEFINE Bounds == (-MaxInt - 1)..MaxInt
  <2>1. DemandState =
          [epoch : Nat, session : Sessions, profile : Profiles, gen : Nat, seq : Nat,
           current : Bounds, valid : BOOLEAN, anchor : Nat, rawImport : Nat,
           rawExport : Nat, baseImport : Nat, baseExport : Nat, peakImport : Nat,
           peakExport : Nat]
    BY Zenon DEF DemandState
  <2>2. r.current \in Bounds
    BY Zenon, <1>3
  <2> HIDE DEF Bounds
  <2> QED
    BY <1>1, <1>2, <1>3, <1>5, <2>1, <2>2
<1>7. ApplyDemand(r).epoch = b.epoch BY <1>1
<1>8. ApplyDemand(r) # None BY <1>2, <1>7, SMTT(30) DEF None
<1>9. MatchesInterval(ApplyDemand(r), r) BY <1>1 DEF MatchesInterval
<1>10. ASSUME NEW side \in Sides
       PROVE  /\ BaseOf(ApplyDemand(r), side) = BaseOf(b, side)
              /\ PeakOf(ApplyDemand(r), side) =
                   Peak(PeakOf(b, side), Value(r, side), Raw(r, side),
                        BaseOf(b, side))
  <2>1. /\ ApplyDemand(r).baseImport = b.baseImport
        /\ ApplyDemand(r).baseExport = b.baseExport
        /\ ApplyDemand(r).peakImport = pi
        /\ ApplyDemand(r).peakExport = px
    BY <1>1
  <2>2. CASE side = "import"
    BY Zenon, <2>1, <2>2 DEF BaseOf, PeakOf, Raw, pi
  <2>3. CASE side = "export"
    BY ZenonT(40), <2>1, <2>3 DEF BaseOf, PeakOf, Raw, px
  <2> QED BY Zenon, <2>2, <2>3 DEF Sides
<1> QED BY Zenon, <1>6, <1>7, <1>8, <1>9, <1>10 DEF b

\* Steps elsewhere leave the demand log alone.
LEMMA DemandLogUnchanged ==
  ASSUME DemandLogInv, UNCHANGED dlog
  PROVE  DemandLogInv'
<1>1. ASSUME NEW side, NEW i, NEW j, Since(i, j, side)
      PROVE  Since(i, j, side)'
  BY <1>1, Zenon DEF Since, Raw, Value, OneInstance, SameSource, Magnitude
<1>2. ASSUME NEW side \in Sides, NEW j \in 1..Len(dlog'), NEW i \in 0..(j - 1),
             Raw(dlog'[j], side) # 0
      PROVE  Since(i, j, side)'
  <2>1. Since(i, j, side) BY Zenon, <1>2 DEF DemandLogInv
  <2> QED BY Zenon, <1>1, <2>1
<1>3. dlog' \in Seq(Interval)' BY Zenon DEF DemandLogInv, Interval
<1> QED BY Zenon, <1>2, <1>3 DEF DemandLogInv, Raw, Sides

\* Ingesting a checkpoint keeps the demand invariant.
LEMMA IngestKeepsDemand == DemandInv /\ IngestDemand => DemandInv'
<1> SUFFICES ASSUME DemandInv, IngestDemand PROVE DemandInv'
  BY Zenon
<1>1. PICK j \in 1..Len(dlog) :
        /\ j >= covered /\ DemandVerdict(dlog[j]) = "accept"
        /\ demand' = ApplyDemand(dlog[j])
        /\ demandRow' = PersistDemand(ApplyDemand(dlog[j]))
        /\ covered' = j
        /\ epochStart' = IF ProfileChanged(dlog[j]) THEN covered
                         ELSE epochStart
        /\ UNCHANGED dlog
  BY Zenon DEF IngestDemand
<1> DEFINE r == dlog[j]
           first == epochStart'
<1>2. /\ Len(dlog) \in Nat /\ j \in Nat /\ j >= 1 /\ j <= Len(dlog)
      /\ r \in Interval
  BY Zenon, DemandElement DEF DemandInv
<1>3. /\ covered \in Nat /\ epochStart \in Nat /\ epochStart <= covered
      /\ covered <= Len(dlog)
  BY <1>2, SMT DEF DemandInv, DemandStateInv
<1>4. demand # None => demand \in DemandState
  BY Zenon DEF DemandInv, DemandStateInv
<1>5. /\ demand' \in DemandState /\ demand' # None
      /\ MatchesInterval(demand', r)
      /\ \A side \in Sides :
           /\ BaseOf(demand', side) = BaseOf(DemandBase(r), side)
           /\ PeakOf(demand', side) =
                Peak(PeakOf(DemandBase(r), side), Value(r, side),
                     Raw(r, side), BaseOf(DemandBase(r), side))
  BY Zenon, <1>1, <1>2, <1>4, ApplyTyped
<1>6. demand # None =>
        /\ covered # 0
        /\ demand.session = dlog[covered].session
        /\ demand.profile = dlog[covered].profile
        /\ demand.gen = dlog[covered].gen
        /\ MatchesInterval(demand, dlog[covered])
  BY Zenon DEF DemandInv, DemandStateInv, MatchesInterval
<1>7. covered < j
  <2>1. CASE covered = 0 BY <1>2, <2>1, SMT
  <2>2. CASE covered # 0
    <3>1. demand # None BY Zenon, <2>2 DEF DemandInv, DemandStateInv
    <3>2. covered # j
      <4> SUFFICES ASSUME covered = j PROVE FALSE
        BY Zenon
      <4>1. SameInstance(r)
        BY Zenon, <1>6, <3>1 DEF SameInstance, DemandSession, DemandSemantics
      <4>2. r.seq = demand.seq /\ r.seq \in Nat
        BY Zenon, <1>2, <1>6, <3>1 DEF MatchesInterval, Interval
      <4>3. ~(r.seq < demand.seq) BY <4>2, SMTT(30)
      <4>4. DemandVerdict(r) # "accept"
        BY Zenon, <4>1, <4>2, <4>3 DEF DemandVerdict
      <4> QED BY Zenon, <1>1, <4>4
    <3> QED BY <1>1, <1>2, <1>3, <3>2, SMT
  <2> QED BY Zenon, <2>1, <2>2
<1>8. first \in Nat /\ first <= covered /\ first \in 0..(j - 1)
  <2>1. first = covered \/ first = epochStart BY Zenon, <1>1
  <2> HIDE DEF first
  <2> QED BY <1>2, <1>3, <1>7, <2>1, SMT
\* While the source has not changed since the epoch began, neither does the
\* ledger see a change, and the watermark stays in force.
<1>9. ASSUME first # 0, OneInstance(first, j), NEW side \in Sides
      PROVE  BaseOf(DemandBase(r), side) >= Raw(dlog[first], side)
  <2>1. covered \in first..j /\ j \in first..j BY <1>2, <1>3, <1>7, <1>8, SMT
  <2>2. /\ SameSource(dlog[covered], dlog[first])
        /\ SameSource(r, dlog[first])
    BY Zenon, <1>9, <2>1 DEF OneInstance
  <2>3. covered # 0 BY <1>3, <1>8, <1>9, SMT
  <2>4. demand # None BY Zenon, <2>3 DEF DemandInv, DemandStateInv
  <2>5. SameInstance(r) /\ ~ProfileChanged(r)
    BY Zenon, <1>6, <2>2, <2>4
    DEF SameSource, SameInstance, DemandSession, DemandSemantics,
        ProfileChanged
  <2>6. first = epochStart BY Zenon, <1>1, <2>5
  <2>7. OneInstance(epochStart, covered)
    <3> SUFFICES ASSUME NEW k \in epochStart..covered
                 PROVE  SameSource(dlog[k], dlog[epochStart])
      BY Zenon DEF OneInstance
    <3>1. k \in first..j BY <1>2, <1>3, <1>7, <2>6, SMT
    <3> QED BY Zenon, <1>9, <2>6, <3>1 DEF OneInstance
  <2>8. BaseOf(demand, side) >= Raw(dlog[epochStart], side)
    BY Zenon, <1>9, <2>4, <2>6, <2>7 DEF DemandInv, DemandStateInv, PeakSound
  <2>9. BaseOf(DemandBase(r), side) = BaseOf(demand, side)
    BY Zenon, <2>4, <2>5 DEF DemandBase, BaseOf
  <2> QED BY Zenon, <2>6, <2>8, <2>9
<1>10. ASSUME NEW side \in Sides, PeakOf(demand', side) # 0
       PROVE  \E i \in (first + 1)..j :
                Value(dlog[i], side) = PeakOf(demand', side)
  <2> DEFINE p == PeakOf(DemandBase(r), side)
             b == BaseOf(DemandBase(r), side)
             v == Value(r, side)
             raw == Raw(r, side)
             peak == PeakOf(demand', side)
  <2>1. p \in Nat /\ b \in Nat BY Zenon, <1>2, <1>4, BaseTyped
  <2>2. v \in Nat /\ raw \in Nat BY Zenon, <1>2, ValueTyped
  <2>3. peak = Peak(p, v, raw, b) BY Zenon, <1>5
  <2>4. peak = p \/ peak = v \/ (peak = raw /\ raw > b)
    <3> HIDE DEF p, b, v, raw, peak
    <3> QED BY <2>1, <2>2, <2>3, PeakTyped
  <2>5. CASE peak = v
    <3>1. j \in (first + 1)..j
      <4> HIDE DEF first
      <4> QED BY <1>2, <1>8, SMT
    <3> QED BY Zenon, <2>5, <3>1
  <2>6. CASE peak = p
    <3>1. p # 0 BY Zenon, <1>10, <2>6
    <3>2. demand # None /\ ~ProfileChanged(r)
      BY Zenon, <3>1 DEF DemandBase, PeakOf
    <3>3. p = PeakOf(demand, side) BY Zenon, <3>2 DEF DemandBase, PeakOf
    <3>4. PICK i \in (epochStart + 1)..covered :
                 Value(dlog[i], side) = PeakOf(demand, side)
      BY Zenon, <3>1, <3>2, <3>3 DEF DemandInv, DemandStateInv, PeakSound
    <3>5. first = epochStart BY Zenon, <1>1, <3>2
    <3>6. i \in (first + 1)..j
      BY <1>2, <1>3, <1>7, <3>4, <3>5, SMTT(30)
    <3> QED BY Zenon, <2>6, <3>3, <3>4, <3>6
  <2>7. CASE peak = raw /\ raw > b
    <3>1. Since(first, j, side)
      BY Zenon, <1>2, <1>8, <1>10, <2>7 DEF DemandInv, DemandLogInv
    <3>2. CASE \E k \in (first + 1)..j : Value(dlog[k], side) = raw
      BY Zenon, <2>7, <3>2
    <3>3. CASE /\ first # 0 /\ raw = Raw(dlog[first], side)
               /\ OneInstance(first, j)
      <4>1. b >= raw BY Zenon, <1>9, <3>3
      <4> HIDE DEF b, raw
      <4> QED BY <2>1, <2>2, <2>7, <4>1, SMT
    <3> QED BY Zenon, <3>1, <3>2, <3>3 DEF Since
  <2> QED BY Zenon, <2>4, <2>5, <2>6, <2>7
<1>11. \A side \in Sides : PeakSound(demand', first, j, side)
  BY Zenon, <1>5, <1>9, <1>10 DEF PeakSound
<1>12. DemandLogInv' BY Zenon, <1>1, DemandLogUnchanged DEF DemandInv
<1>13. DemandStateInv'
  <2>1. covered' \in 0..Len(dlog') BY <1>1, <1>2, SMT
  <2>2. epochStart' \in 0..covered'
    <3> HIDE DEF first
    <3>1. first \in 0..j BY <1>2, <1>8, SMTT(30)
    <3> QED BY Zenon, <1>1, <3>1 DEF first
  <2>3. covered' # 0 /\ demand' # None' BY <1>1, <1>2, <1>5, SMT DEF None
  <2>4. demandRow' = demand' BY Zenon, <1>1 DEF PersistDemand
  <2>5. MatchesInterval(demand', dlog'[covered']) BY Zenon, <1>1, <1>5
  <2>6. demand' \in DemandState' BY Zenon, <1>5 DEF DemandState
  <2>7. \A side \in Sides : PeakSound(demand, epochStart, covered, side)'
    BY Zenon, <1>1, <1>11 DEF PeakSound, PeakOf, BaseOf, Value, Raw, OneInstance,
                       SameSource, Magnitude
  <2> QED BY Zenon, <2>1, <2>2, <2>3, <2>4, <2>5, <2>6, <2>7
       DEF DemandStateInv, Sides, MatchesInterval
<1> QED BY Zenon, <1>12, <1>13 DEF DemandInv

\* What the state says of the log stays true while the log only grows.
LEMMA DemandStateKept ==
  ASSUME DemandInv, UNCHANGED <<demand, demandRow, covered, epochStart>>,
         Len(dlog') \in Nat, Len(dlog) <= Len(dlog'),
         \A i \in 1..Len(dlog) : dlog'[i] = dlog[i]
  PROVE  DemandStateInv'
<1>1. Len(dlog) \in Nat BY SMTT(30) DEF DemandInv, DemandLogInv
<1>2. /\ covered \in Nat /\ covered <= Len(dlog)
      /\ epochStart \in Nat /\ epochStart <= covered
  BY <1>1, SMTT(30) DEF DemandInv, DemandStateInv
<1>3. \A i \in 1..covered : dlog'[i] = dlog[i]
  <2> TAKE i \in 1..covered
  <2>1. i \in 1..Len(dlog) BY <1>1, <1>2, SMT
  <2> QED BY Zenon, <2>1
<1>4. covered' \in 0..Len(dlog') /\ epochStart' \in 0..covered'
  BY <1>1, <1>2, SMTT(30)
<1>5. ASSUME demand # None PROVE MatchesInterval(demand', dlog'[covered'])
  <2>1. covered # 0 /\ MatchesInterval(demand, dlog[covered])
    BY Zenon, <1>5 DEF DemandInv, DemandStateInv
  <2>2. covered \in 1..covered BY <1>2, <2>1, SMTT(30)
  <2> QED BY Zenon, <1>3, <2>1, <2>2
<1>6. ASSUME demand # None, NEW side \in Sides
      PROVE  PeakSound(demand, epochStart, covered, side)'
  <2>1. PeakSound(demand, epochStart, covered, side)
    BY Zenon, <1>6 DEF DemandInv, DemandStateInv
  <2>2. PeakOf(demand, side) # 0 =>
          \E i \in (epochStart + 1)..covered :
            Value(dlog'[i], side) = PeakOf(demand, side)
    <3> SUFFICES ASSUME PeakOf(demand, side) # 0
                 PROVE  \E i \in (epochStart + 1)..covered :
                          Value(dlog'[i], side) = PeakOf(demand, side)
      BY Zenon
    <3>1. PICK i \in (epochStart + 1)..covered :
                 Value(dlog[i], side) = PeakOf(demand, side)
      BY Zenon, <2>1 DEF PeakSound
    <3>2. i \in 1..covered BY <1>2, <3>1, SMT
    <3>3. dlog'[i] = dlog[i] BY Zenon, <1>3, <3>2
    <3> QED BY Zenon, <3>1, <3>3
  <2>3. ASSUME epochStart # 0,
               \A k \in epochStart..covered :
                 SameSource(dlog'[k], dlog'[epochStart])
        PROVE  BaseOf(demand, side) >= Raw(dlog'[epochStart], side)
    <3>1. epochStart \in 1..covered BY <1>2, <2>3, SMT
    <3>2. \A k \in epochStart..covered : k \in 1..covered
      BY <1>2, <3>1, SMT
    <3>3. OneInstance(epochStart, covered)
      BY Zenon, <1>3, <2>3, <3>1, <3>2 DEF OneInstance
    <3> QED BY Zenon, <1>3, <2>1, <2>3, <3>1, <3>3 DEF PeakSound
  <2> QED BY Zenon, <2>2, <2>3 DEF PeakSound, PeakOf, BaseOf, Value, Raw,
                            OneInstance, SameSource, Magnitude
<1>7. demand' # None' <=> demand # None BY Zenon DEF None
<1> QED BY Zenon, <1>4, <1>5, <1>6, <1>7
     DEF DemandInv, DemandStateInv, DemandState, Sides, MatchesInterval

\* Measuring keeps it.
LEMMA MeasureKeepsDemand == DemandInv /\ MeasureDemand => DemandInv'
<1> SUFFICES ASSUME DemandInv, MeasureDemand PROVE DemandInv'
  BY Zenon
<1>1. DemandLogInv' /\ \E c \in Interval : dlog' = Append(dlog, c)
  BY Zenon, MeasureKeepsDemandLog DEF DemandInv
<1>2. PICK c \in Interval : dlog' = Append(dlog, c) BY Zenon, <1>1
<1>3. dlog \in Seq(Interval) BY Zenon DEF DemandInv, DemandLogInv
<1>4. /\ Len(dlog') \in Nat /\ Len(dlog) <= Len(dlog')
      /\ \A i \in 1..Len(dlog) : dlog'[i] = dlog[i]
  BY <1>2, <1>3, SMT
<1>5. UNCHANGED <<demand, demandRow, covered, epochStart>>
  BY Zenon DEF MeasureDemand
<1> QED BY Zenon, <1>1, <1>4, <1>5, DemandStateKept DEF DemandInv

\* Steps elsewhere leave it alone.
LEMMA DemandUnchanged ==
  ASSUME DemandInv, UNCHANGED <<dlog, demand, demandRow, covered, epochStart>>
  PROVE  DemandInv'
<1>1. Len(dlog') \in Nat /\ Len(dlog) <= Len(dlog')
  BY SMT DEF DemandInv, DemandLogInv
<1>2. \A i \in 1..Len(dlog) : dlog'[i] = dlog[i] BY Zenon
<1> QED BY Zenon, <1>1, <1>2, DemandStateKept, DemandLogUnchanged DEF DemandInv

\* After a reset no peak is left, and the watermark is the session peak of the
\* interval that becomes the start of the epoch.
LEMMA ResetKeepsDemand == DemandInv /\ ResetDemandPeaks => DemandInv'
<1> SUFFICES ASSUME DemandInv, ResetDemandPeaks PROVE DemandInv'
  BY Zenon
<1>1. /\ demand # None
      /\ demand' = [demand EXCEPT !.epoch = @ + 1,
                     !.peakImport = 0, !.peakExport = 0,
                     !.baseImport = demand.rawImport,
                     !.baseExport = demand.rawExport]
      /\ demandRow' = demand' /\ epochStart' = covered
      /\ UNCHANGED <<dlog, covered>>
  BY Zenon DEF ResetDemandPeaks, PersistDemand
<1>2. /\ demand \in DemandState /\ covered # 0
      /\ MatchesInterval(demand, dlog[covered])
  BY Zenon, <1>1 DEF DemandInv, DemandStateInv
<1>3. /\ demand.epoch \in Nat /\ demand.rawImport \in Nat
      /\ demand.rawExport \in Nat
  BY Zenon, <1>2 DEF DemandState
<1>4. demand.epoch + 1 \in Nat /\ demand.epoch + 1 # -1 /\ 0 \in Nat
  BY <1>3, SMTT(30)
<1>5. /\ demand' \in DemandState /\ demand'.epoch = demand.epoch + 1
      /\ demand'.peakImport = 0 /\ demand'.peakExport = 0
      /\ demand'.baseImport = demand.rawImport
      /\ demand'.baseExport = demand.rawExport
      /\ MatchesInterval(demand', dlog[covered])
  <2> DEFINE d == [demand EXCEPT !.epoch = @ + 1,
                     !.peakImport = 0, !.peakExport = 0,
                     !.baseImport = demand.rawImport,
                     !.baseExport = demand.rawExport]
  <2>1. d \in DemandState
    <3> DEFINE d1 == [demand EXCEPT !.epoch = @ + 1]
               d2 == [d1 EXCEPT !.peakImport = 0]
               d3 == [d2 EXCEPT !.peakExport = 0]
               d4 == [d3 EXCEPT !.baseImport = demand.rawImport]
               d5 == [d4 EXCEPT !.baseExport = demand.rawExport]
    <3>1. d1 \in DemandState BY Zenon, <1>2, <1>4 DEF DemandState
    <3>2. d = d5 BY Zenon
    <3> HIDE DEF d, d1
    <3>3. d2 \in DemandState BY Zenon, <1>4, <3>1 DEF DemandState
    <3> HIDE DEF d2
    <3>4. d3 \in DemandState BY Zenon, <1>4, <3>3 DEF DemandState
    <3> HIDE DEF d3
    <3>5. d4 \in DemandState BY Zenon, <1>3, <3>4 DEF DemandState
    <3> HIDE DEF d4
    <3>6. d5 \in DemandState BY Zenon, <1>3, <3>5 DEF DemandState
    <3> QED BY Zenon, <3>2, <3>6
  <2>2. /\ d.epoch = demand.epoch + 1 /\ d.peakImport = 0 /\ d.peakExport = 0
        /\ d.baseImport = demand.rawImport /\ d.baseExport = demand.rawExport
    BY Zenon, <1>2 DEF DemandState
  <2>3. /\ d.session = demand.session /\ d.profile = demand.profile
        /\ d.gen = demand.gen /\ d.seq = demand.seq
        /\ d.current = demand.current /\ d.valid = demand.valid
        /\ d.anchor = demand.anchor /\ d.rawImport = demand.rawImport
        /\ d.rawExport = demand.rawExport
    BY Zenon, <1>2 DEF DemandState
  <2>4. demand' = d BY Zenon, <1>1
  <2> HIDE DEF d
  <2>5. MatchesInterval(d, dlog[covered])
    BY Zenon, <1>2, <2>3 DEF MatchesInterval
  <2> QED BY Zenon, <2>1, <2>2, <2>4, <2>5
<1>6. demand' # None BY <1>4, <1>5 DEF None
<1>7. DemandLogInv' BY Zenon, <1>1, DemandLogUnchanged DEF DemandInv
<1>8. \A side \in Sides : /\ PeakOf(demand', side) = 0
                          /\ BaseOf(demand', side) = Raw(dlog[covered], side)
                          /\ BaseOf(demand', side) \in Nat
  BY Zenon, <1>2, <1>3, <1>5 DEF PeakOf, BaseOf, Raw, MatchesInterval
<1>9. \A side \in Sides : PeakSound(demand', covered, covered, side)
  <2> TAKE side \in Sides
  <2>1. BaseOf(demand', side) >= Raw(dlog[covered], side)
    <3> DEFINE x == BaseOf(demand', side)
               y == Raw(dlog[covered], side)
    <3>1. x = y /\ x \in Nat BY Zenon, <1>8
    <3> HIDE DEF x, y
    <3>2. x >= y BY <3>1, SMT
    <3> QED BY Zenon, <3>2 DEF x, y
  <2> QED BY Zenon, <1>8, <2>1 DEF PeakSound
<1>10. covered' \in 0..Len(dlog') /\ epochStart' \in 0..covered'
  <2>1. Len(dlog) \in Nat BY SMT DEF DemandInv, DemandLogInv
  <2> QED BY <1>1, <2>1, SMT DEF DemandInv, DemandStateInv
<1>11. DemandStateInv'
  <2>1. \A side \in Sides : PeakSound(demand, epochStart, covered, side)'
    BY Zenon, <1>1, <1>9 DEF PeakSound, PeakOf, BaseOf, Value, Raw, OneInstance,
                      SameSource, Magnitude
  <2>2. demand' \in DemandState' /\ demand' # None'
    BY Zenon, <1>5, <1>6 DEF DemandState, None
  <2> QED BY Zenon, <1>1, <1>2, <1>5, <1>10, <2>1, <2>2
       DEF DemandStateInv, Sides, MatchesInterval
<1> QED BY Zenon, <1>7, <1>11 DEF DemandInv

\* An empty ledger satisfies it.
LEMMA InitDemand == Init => DemandInv
<1> SUFFICES ASSUME Init PROVE DemandInv
  BY Zenon
<1>1. /\ dlog = <<>> /\ demand = None /\ demandRow = None /\ covered = 0
      /\ epochStart = 0
  BY Zenon DEF Init
<1>2. DemandLogInv
  <2>1. dlog \in Seq(Interval) /\ Len(dlog) = 0 BY <1>1, SMT
  <2>2. 1..Len(dlog) = {} BY <2>1, SMT
  <2> QED BY Zenon, <2>1, <2>2 DEF DemandLogInv
<1>3. DemandStateInv BY <1>1, SMT DEF DemandStateInv
<1> QED BY Zenon, <1>2, <1>3 DEF DemandInv

\* Every step keeps it.
LEMMA NextDemand == DemandInv /\ [Next]_vars => DemandInv'
<1> SUFFICES ASSUME DemandInv, [Next]_vars PROVE DemandInv'
  BY Zenon
<1>1. CASE MeasureDemand BY Zenon, <1>1, MeasureKeepsDemand
<1>2. CASE IngestDemand BY Zenon, <1>2, IngestKeepsDemand
<1>3. CASE ResetDemandPeaks BY Zenon, <1>3, ResetKeepsDemand
<1>4. CASE MeasureEnergy \/ IngestEnergy \/ ResetEnergy \/ UNCHANGED vars
  <2>1. UNCHANGED <<dlog, demand, demandRow, covered, epochStart>>
    BY Zenon, <1>4 DEF MeasureEnergy, IngestEnergy, ResetEnergy, vars, dVars
  <2> QED BY Zenon, <2>1, DemandUnchanged
<1>5. CASE Restart
  <2>1. demand' = demand
    BY Zenon, <1>5 DEF Restart, LoadDemand, DemandInv, DemandStateInv
  <2>2. UNCHANGED <<dlog, demandRow, covered, epochStart>>
    BY Zenon, <1>5 DEF Restart
  <2> QED BY Zenon, <2>1, <2>2, DemandUnchanged
<1> QED BY Zenon, <1>1, <1>2, <1>3, <1>4, <1>5 DEF Next

\* Hence it always holds.
LEMMA DemandInvariant == Spec => []DemandInv
BY InitDemand, NextDemand, PTL DEF Spec

-----------------------------------------------------------------------------
\* The rows of the history and the audited resets.

\* A step never takes the lifetime counter back within an epoch, nor the epoch.
LEMMA CounterMoves ==
  ASSUME EnergyInv, [Next]_vars, energy # None
  PROVE  /\ energy' # None /\ energy.epoch <= energy'.epoch
         /\ energy'.epoch = energy.epoch => energy.life <= energy'.life
<1>1. /\ energy \in EnergyState /\ energy.epoch \in Nat /\ energy.life \in Nat
  BY Zenon DEF EnergyInv, LedgerInv, EnergyState
<1>2. energy.epoch <= energy.epoch /\ energy.life <= energy.life
  BY <1>1, SMT
<1>3. CASE IngestEnergy
  <2>1. PICK i \in 1..Len(elog) :
          /\ Deliverable(i) /\ EnergyVerdict(elog[i]) = "accept"
          /\ energy' = Credit(elog[i])
    BY Zenon, <1>3 DEF IngestEnergy
  <2>2. /\ energy' # None /\ energy'.epoch = energy.epoch
        /\ energy'.life = SaturatingAdd(Life, EnergyDelta(elog[i]))
    BY Zenon, <2>1, CreditTyped DEF EnergyInv
  <2>3. EnergyDelta(elog[i]) \in Nat BY Zenon, <2>1, DeltaBound DEF EnergyInv
  <2>4. Life <= SaturatingAdd(Life, EnergyDelta(elog[i]))
    BY Zenon, <2>3, LifeTyped, Saturating DEF EnergyInv
  <2>5. Life = energy.life BY Zenon DEF Life
  <2> QED BY Zenon, <1>2, <2>2, <2>4, <2>5
<1>4. CASE ResetEnergy
  <2>1. energy' = [energy EXCEPT !.epoch = @ + 1, !.life = 0]
    BY Zenon, <1>4 DEF ResetEnergy
  <2>2. energy'.epoch = energy.epoch + 1 BY Zenon, <1>1, <2>1 DEF EnergyState
  <2>3. /\ energy.epoch <= energy.epoch + 1 /\ energy.epoch + 1 # -1
        /\ energy.epoch + 1 # energy.epoch
    BY <1>1, SMT
  <2>4. energy' # None BY <2>2, <2>3 DEF None
  <2> QED BY Zenon, <2>2, <2>3, <2>4
<1>5. CASE Restart
  <2>1. energy' = energy
    BY Zenon, <1>5, RowGivesStateBack DEF EnergyInv, Restart
  <2> QED BY Zenon, <1>2, <2>1
<1>6. CASE \/ MeasureEnergy \/ MeasureDemand \/ IngestDemand
           \/ ResetDemandPeaks \/ UNCHANGED vars
  <2>1. energy' = energy
    BY Zenon, <1>6 DEF MeasureEnergy, MeasureDemand, IngestDemand, ResetDemandPeaks,
                vars, eVars
  <2> QED BY Zenon, <1>2, <2>1
<1> QED BY Zenon, <1>3, <1>4, <1>5, <1>6 DEF Next

HistoryInv ==
  /\ HistoryNotAhead
  /\ \A h \in history : h.epoch \in Nat /\ h.life \in Nat

\* Every step keeps the history rows behind the counters.
LEMMA NextHistory == EnergyInv /\ HistoryInv /\ [Next]_vars => HistoryInv'
<1> SUFFICES ASSUME EnergyInv, HistoryInv, [Next]_vars PROVE HistoryInv'
  BY Zenon
<1>1. EnergyInv' BY Zenon, NextEnergy
<1>2. ASSUME NEW h \in history
      PROVE  /\ h.epoch \in Nat /\ h.life \in Nat
             /\ energy' # None /\ h.epoch <= energy'.epoch
             /\ h.epoch = energy'.epoch => h.life <= energy'.life
  <2>1. /\ h.epoch \in Nat /\ h.life \in Nat /\ energy # None
        /\ h.epoch <= energy.epoch
        /\ h.epoch = energy.epoch => h.life <= energy.life
    BY Zenon, <1>2 DEF HistoryInv, HistoryNotAhead
  <2>2. /\ energy' # None /\ energy.epoch <= energy'.epoch
        /\ energy'.epoch = energy.epoch => energy.life <= energy'.life
    BY Zenon, <2>1, CounterMoves
  <2>3. /\ energy.epoch \in Nat /\ energy.life \in Nat
    BY Zenon, <2>1 DEF EnergyInv, LedgerInv, EnergyState
  <2>4. energy'.epoch \in Nat /\ energy'.life \in Nat
    BY Zenon, <1>1, <2>2 DEF EnergyInv, LedgerInv, EnergyState, None
  <2> QED BY <2>1, <2>2, <2>3, <2>4, SMT
<1>3. ASSUME NEW h \in history'
      PROVE  /\ h.epoch \in Nat /\ h.life \in Nat
             /\ energy' # None /\ h.epoch <= energy'.epoch
             /\ h.epoch = energy'.epoch => h.life <= energy'.life
  <2>1. CASE h \in history BY Zenon, <1>2, <2>1
  <2>2. CASE h \notin history
    <3>1. IngestDemand
      <4>1. history' # history BY Zenon, <2>2
      <4>2. MeasureEnergy \/ IngestEnergy \/ ResetEnergy => history' = history
        BY Zenon DEF MeasureEnergy, IngestEnergy, ResetEnergy, dVars
      <4>3. MeasureDemand \/ ResetDemandPeaks \/ Restart => history' = history
        BY Zenon DEF MeasureDemand, ResetDemandPeaks, Restart
      <4>4. UNCHANGED vars => history' = history BY Zenon DEF vars, dVars
      <4> QED BY Zenon, <4>1, <4>2, <4>3, <4>4 DEF Next
    <3>2. PICK i \in 1..Len(dlog) : history' = HistoryAfter(dlog[i])
      BY Zenon, <3>1 DEF IngestDemand
    <3>3. /\ energy # None
          /\ h = [session |-> energy.session, anchor |-> dlog[i].anchor,
                  epoch |-> energy.epoch, life |-> energy.life]
      BY Zenon, <2>2, <3>2 DEF HistoryAfter
    <3>4. energy' = energy BY Zenon, <3>1 DEF IngestDemand, eVars
    <3>5. energy.epoch \in Nat /\ energy.life \in Nat
      BY Zenon, <3>3 DEF EnergyInv, LedgerInv, EnergyState
    <3>6. energy.epoch <= energy.epoch /\ energy.life <= energy.life
      BY <3>5, SMT
    <3>7. h.epoch = energy.epoch /\ h.life = energy.life BY Zenon, <3>3
    <3> QED BY Zenon, <3>3, <3>4, <3>5, <3>6, <3>7
  <2> QED BY Zenon, <2>1, <2>2
<1> QED BY Zenon, <1>3 DEF HistoryInv, HistoryNotAhead, None

\* Hence they always are.
LEMMA HistoryInvariant == Spec => []HistoryInv
<1>1. Init => HistoryInv BY Zenon DEF Init, HistoryInv, HistoryNotAhead
<1> QED BY <1>1, NextHistory, EnergyInvariant, PTL DEF Spec

\* The energy side of the ledger as a whole: the lifetime counters neither
\* invent nor lose energy, and no row of the history is ahead of them, for any
\* sessions, windows, losses, replays, resets and restarts (ingest_energy,
\* ingest_demand, reset_energy, load_energy).
THEOREM EnergyIsSound == Spec => []EnergySound
<1>1. EnergyInv /\ HistoryInv => EnergySound
  BY Zenon DEF EnergyInv, HistoryInv, EnergySound
<1> QED BY <1>1, EnergyInvariant, HistoryInvariant, PTL

\* An audit table: finite, with a key and an epoch of its own in every row, and
\* no epoch above the last.
AuditSound(audit, last) ==
  /\ IsFiniteSet(audit) /\ Cardinality(audit) \in Nat
  /\ \A a \in audit : a[2] \in Nat /\ a[2] <= last
  /\ \A a, b \in audit : a[1] = b[1] \/ a[2] = b[2] => a = b

AuditInv ==
  /\ profileChanges \in Nat
  /\ energy = None => energyAudit = {}
  /\ demand = None => demandAudit = {} /\ profileChanges = 0
  /\ energy # None => /\ AuditSound(energyAudit, energy.epoch)
                      /\ energy.epoch = Cardinality(energyAudit)
  /\ demand # None => /\ AuditSound(demandAudit, demand.epoch)
                      /\ demand.epoch = Cardinality(demandAudit) + profileChanges

\* No rows are a sound audit of no resets.
LEMMA EmptyAudit ==
  ASSUME NEW last PROVE AuditSound({}, last) /\ Cardinality({}) = 0
BY FS_EmptySet, SMT DEF AuditSound

\* A later epoch changes nothing of the audited ones.
LEMMA AuditKept ==
  ASSUME NEW audit, NEW last \in Nat, NEW next \in Nat, last <= next,
         AuditSound(audit, last)
  PROVE  AuditSound(audit, next)
<1>1. \A a \in audit : a[2] \in Nat /\ a[2] <= next BY SMTT(30) DEF AuditSound
<1> QED BY Zenon, <1>1 DEF AuditSound

\* A reset under a new key adds one row, for the epoch after the last.
LEMMA AuditExtended ==
  ASSUME NEW audit, NEW last \in Nat, NEW key, AuditSound(audit, last),
         ~Used(audit, key)
  PROVE  /\ AuditSound(audit \cup {<<key, last + 1>>}, last + 1)
         /\ Cardinality(audit \cup {<<key, last + 1>>}) = Cardinality(audit) + 1
<1> DEFINE x == <<key, last + 1>>
           next == last + 1
<1>1. x[1] = key /\ x[2] = next /\ next \in Nat /\ next <= next BY SMT
<1>2. \A a \in audit : a[1] # key BY Zenon DEF Used
<1>3. \A a \in audit : a[2] \in Nat /\ a[2] <= next /\ a[2] # next
  BY SMT DEF AuditSound
<1>4. x \notin audit BY Zenon, <1>1, <1>2
<1>5. /\ IsFiniteSet(audit \cup {x})
      /\ Cardinality(audit \cup {x}) = Cardinality(audit) + 1
      /\ Cardinality(audit \cup {x}) \in Nat
  <2>1. IsFiniteSet(audit) /\ Cardinality(audit) \in Nat BY Zenon DEF AuditSound
  <2> HIDE DEF x
  <2>2. /\ IsFiniteSet(audit \cup {x})
        /\ Cardinality(audit \cup {x}) = Cardinality(audit) + 1
    BY Zenon, <1>4, <2>1, FS_AddElement
  <2> QED BY <2>1, <2>2, SMT
<1> HIDE DEF x, next
<1>6. \A a \in audit \cup {x} : a[2] \in Nat /\ a[2] <= next
  BY Zenon, <1>1, <1>3
<1>7. \A a, b \in audit \cup {x} : a[1] = b[1] \/ a[2] = b[2] => a = b
  <2> SUFFICES ASSUME NEW a \in audit \cup {x}, NEW b \in audit \cup {x},
                      a[1] = b[1] \/ a[2] = b[2]
               PROVE  a = b
    BY Zenon
  <2>1. CASE a \in audit /\ b \in audit BY Zenon, <2>1 DEF AuditSound
  <2>2. CASE a = x /\ b = x BY Zenon, <2>2
  <2>3. CASE a = x /\ b \in audit BY Zenon, <1>1, <1>2, <1>3, <2>3
  <2>4. CASE a \in audit /\ b = x BY Zenon, <1>1, <1>2, <1>3, <2>4
  <2> QED BY Zenon, <2>1, <2>2, <2>3, <2>4
<1> QED BY Zenon, <1>5, <1>6, <1>7 DEF AuditSound, x, next

\* Every step keeps the audit invariant.
LEMMA NextAudit ==
  EnergyInv /\ DemandInv /\ AuditInv /\ [Next]_vars => AuditInv'
<1> SUFFICES ASSUME EnergyInv, DemandInv, AuditInv, [Next]_vars
             PROVE  AuditInv'
  BY Zenon
<1>1. /\ energy # None => energy.epoch \in Nat
      /\ demand # None => demand.epoch \in Nat
  <2>1. energy # None => energy \in EnergyState
    BY Zenon DEF EnergyInv, LedgerInv
  <2>2. demand # None => demand \in DemandState
    BY Zenon DEF DemandInv, DemandStateInv
  <2>3. energy \in EnergyState => energy.epoch \in Nat
    BY Zenon DEF EnergyState
  <2>4. demand \in DemandState => demand.epoch \in Nat
    BY Zenon DEF DemandState
  <2> QED
    BY Zenon, <2>1, <2>2, <2>3, <2>4
<1> DEFINE EnergyPart == /\ energy = None => energyAudit = {}
                         /\ energy # None =>
                              /\ AuditSound(energyAudit, energy.epoch)
                              /\ energy.epoch = Cardinality(energyAudit)
           DemandPart == /\ profileChanges \in Nat
                         /\ demand = None =>
                              demandAudit = {} /\ profileChanges = 0
                         /\ demand # None =>
                              /\ AuditSound(demandAudit, demand.epoch)
                              /\ demand.epoch =
                                   Cardinality(demandAudit) + profileChanges
<1>2. EnergyPart /\ DemandPart BY Zenon DEF AuditInv
<1>3. UNCHANGED <<energy, energyAudit>> => EnergyPart'
  BY Zenon, <1>2 DEF AuditSound, None
<1>4. UNCHANGED <<demand, demandAudit, profileChanges>> => DemandPart'
  BY Zenon, <1>2 DEF AuditSound, None
<1>5. CASE IngestEnergy
  <2>1. PICK i \in 1..Len(elog) :
          /\ Deliverable(i) /\ EnergyVerdict(elog[i]) = "accept"
          /\ energy' = Credit(elog[i])
    BY Zenon, <1>5 DEF IngestEnergy
  <2>2. /\ energy' # None
        /\ energy'.epoch = IF energy = None THEN 0 ELSE energy.epoch
    BY Zenon, <2>1, CreditTyped DEF EnergyInv
  <2>3. energyAudit' = energyAudit /\ UNCHANGED dVars
    BY Zenon, <1>5 DEF IngestEnergy
  <2>4. /\ AuditSound(energyAudit, energy'.epoch)
        /\ energy'.epoch = Cardinality(energyAudit)
    <3>1. CASE energy = None
      BY Zenon, <1>2, <2>2, <3>1, EmptyAudit
    <3>2. CASE energy # None BY Zenon, <1>2, <2>2, <3>2
    <3> QED BY Zenon, <3>1, <3>2
  <2>5. EnergyPart' BY Zenon, <2>2, <2>3, <2>4 DEF AuditSound, None
  <2> QED BY Zenon, <1>4, <2>3, <2>5 DEF AuditInv, dVars
<1>6. CASE ResetEnergy
  <2>1. PICK key \in Keys :
          /\ ~Used(energyAudit, key) /\ energy # None
          /\ energy' = [energy EXCEPT !.epoch = @ + 1, !.life = 0]
          /\ energyAudit' = energyAudit \cup {<<key, energy.epoch + 1>>}
          /\ UNCHANGED dVars
    BY Zenon, <1>6 DEF ResetEnergy
  <2>2. energy \in EnergyState BY Zenon, <2>1 DEF EnergyInv, LedgerInv
  <2>3. energy'.epoch = energy.epoch + 1 BY Zenon, <2>1, <2>2 DEF EnergyState
  <2>4. energy.epoch + 1 # -1 BY <1>1, <2>1, SMT
  <2>5. energy' # None BY <2>3, <2>4 DEF None
  <2>6. /\ AuditSound(energyAudit', energy'.epoch)
        /\ energy'.epoch = Cardinality(energyAudit')
    BY <1>1, <1>2, <2>1, <2>3, AuditExtended
  <2>7. EnergyPart' BY Zenon, <2>5, <2>6 DEF AuditSound, None
  <2> QED BY Zenon, <1>4, <2>1, <2>7 DEF AuditInv, dVars
<1>7. CASE ResetDemandPeaks
  <2>1. PICK key \in Keys :
          /\ ~Used(demandAudit, key) /\ demand # None
          /\ demand' = [demand EXCEPT !.epoch = @ + 1,
                     !.peakImport = 0, !.peakExport = 0,
                     !.baseImport = demand.rawImport,
                     !.baseExport = demand.rawExport]
          /\ demandAudit' = demandAudit \cup {<<key, demand.epoch + 1>>}
          /\ UNCHANGED <<profileChanges, eVars>>
    BY Zenon, <1>7 DEF ResetDemandPeaks
  <2>2. demand \in DemandState BY Zenon, <2>1 DEF DemandInv, DemandStateInv
  <2>3. demand'.epoch = demand.epoch + 1 BY Zenon, <2>1, <2>2 DEF DemandState
  <2>4. demand.epoch + 1 # -1 BY <1>1, <2>1, SMT
  <2>5. demand' # None BY <2>3, <2>4 DEF None
  <2>6. /\ AuditSound(demandAudit', demand'.epoch)
        /\ Cardinality(demandAudit') = Cardinality(demandAudit) + 1
    BY <1>1, <1>2, <2>1, <2>3, AuditExtended
  <2>7. demand'.epoch = Cardinality(demandAudit') + profileChanges'
    <3>1. /\ Cardinality(demandAudit) \in Nat /\ profileChanges \in Nat
          /\ demand.epoch = Cardinality(demandAudit) + profileChanges
      BY Zenon, <1>2, <2>1 DEF AuditSound
    <3> QED BY <2>1, <2>3, <2>6, <3>1, SMT
  <2>8. DemandPart' BY Zenon, <1>2, <2>1, <2>5, <2>6, <2>7 DEF AuditSound, None
  <2> QED BY Zenon, <1>3, <2>1, <2>8 DEF AuditInv, eVars
<1>8. CASE IngestDemand
  <2>1. PICK j \in 1..Len(dlog) :
          /\ demand' = ApplyDemand(dlog[j])
          /\ profileChanges' =
               profileChanges + (IF ProfileChanged(dlog[j]) THEN 1 ELSE 0)
          /\ UNCHANGED <<demandAudit, eVars>>
    BY Zenon, <1>8 DEF IngestDemand
  <2> SUFFICES DemandPart' BY Zenon, <1>3, <2>1 DEF AuditInv, eVars
  <2>2. dlog[j] \in Interval BY Zenon, DemandElement DEF DemandInv
  <2>3. /\ demand' # None /\ demand'.epoch = DemandBase(dlog[j]).epoch
    BY Zenon, <2>1, <2>2, ApplyTyped DEF DemandInv, DemandStateInv
  <2>4. CASE demand = None
    <3>1. demand'.epoch = 0 BY Zenon, <2>3, <2>4 DEF DemandBase
    <3>2. ~ProfileChanged(dlog[j]) BY Zenon, <2>4 DEF ProfileChanged
    <3>3. profileChanges' = 0 /\ demandAudit' = {}
      BY <1>2, <2>1, <2>4, <3>2, SMT
    <3>4. AuditSound(demandAudit', demand'.epoch)
          /\ demand'.epoch = Cardinality(demandAudit') + profileChanges'
      BY <3>1, <3>3, EmptyAudit, SMT
    <3> QED BY Zenon, <2>3, <3>3, <3>4 DEF AuditSound, None
  <2>5. CASE demand # None
    <3> DEFINE e == demand.epoch
               c == Cardinality(demandAudit)
    <3>1. /\ c \in Nat /\ profileChanges \in Nat /\ e = c + profileChanges
          /\ AuditSound(demandAudit, e) /\ e \in Nat
      BY Zenon, <1>1, <1>2, <2>5 DEF AuditSound
    <3>2. CASE ProfileChanged(dlog[j])
      <4>1. demand'.epoch = e + 1 BY Zenon, <2>3, <2>5, <3>2 DEF DemandBase
      <4>2. profileChanges' = profileChanges + 1 BY Zenon, <2>1, <3>2
      <4> HIDE DEF e, c
      <4>3. /\ e + 1 \in Nat /\ e <= e + 1 /\ profileChanges' \in Nat
            /\ e + 1 = c + profileChanges'
        BY <3>1, <4>2, SMT
      <4>4. AuditSound(demandAudit, e + 1) BY Zenon, <3>1, <4>3, AuditKept
      <4> QED BY Zenon, <2>1, <2>3, <4>1, <4>3, <4>4 DEF AuditSound, None, c
    <3>3. CASE ~ProfileChanged(dlog[j])
      <4>1. demand'.epoch = e BY Zenon, <2>3, <2>5, <3>3 DEF DemandBase
      <4>2. profileChanges' = profileChanges BY <2>1, <3>1, <3>3, SMTT(30)
      <4> HIDE DEF e
      <4> QED BY Zenon, <2>1, <2>3, <3>1, <4>1, <4>2 DEF AuditSound, None
    <3> QED BY Zenon, <3>2, <3>3
  <2> QED BY Zenon, <2>4, <2>5
<1>9. CASE Restart
  <2>1. energy' = energy BY Zenon, <1>9, RowGivesStateBack DEF EnergyInv, Restart
  <2>2. demand' = demand
    BY Zenon, <1>9 DEF Restart, LoadDemand, DemandInv, DemandStateInv
  <2>3. UNCHANGED <<energyAudit, demandAudit, profileChanges>>
    BY Zenon, <1>9 DEF Restart
  <2> QED BY Zenon, <1>3, <1>4, <2>1, <2>2, <2>3 DEF AuditInv
<1>10. CASE MeasureEnergy \/ MeasureDemand \/ UNCHANGED vars
  <2>1. UNCHANGED <<energy, demand, energyAudit, demandAudit, profileChanges>>
    BY Zenon, <1>10 DEF MeasureEnergy, MeasureDemand, vars, eVars, dVars
  <2> QED BY Zenon, <1>3, <1>4, <2>1 DEF AuditInv
<1> QED BY Zenon, <1>5, <1>6, <1>7, <1>8, <1>9, <1>10 DEF Next

\* Hence it always holds.
LEMMA AuditInvariant == Spec => []AuditInv
<1>1. Init => AuditInv BY SMTT(30) DEF Init, AuditInv
<1> QED BY <1>1, NextAudit, EnergyInvariant, DemandInvariant, PTL DEF Spec

\* The demand side: what the invariants say of peaks, retries and resets.
LEMMA PeaksOfTheEpoch == ASSUME DemandInv PROVE PeakWithinEpoch
<1> SUFFICES ASSUME demand # None
             PROVE  /\ demand.peakImport # 0 =>
                         \E i \in (epochStart + 1)..covered :
                           /\ dlog[i].valid
                           /\ dlog[i].current = demand.peakImport
                    /\ demand.peakExport # 0 =>
                         \E i \in (epochStart + 1)..covered :
                           /\ dlog[i].valid /\ dlog[i].current < 0
                           /\ Magnitude(dlog[i].current) = demand.peakExport
  BY Zenon DEF PeakWithinEpoch
<1>1. PeakSound(demand, epochStart, covered, "import")
  BY Zenon DEF DemandInv, DemandStateInv, Sides
<1>2. PeakSound(demand, epochStart, covered, "export")
  BY Zenon DEF DemandInv, DemandStateInv, Sides
<1>3. ASSUME demand.peakImport # 0
      PROVE  \E i \in (epochStart + 1)..covered :
               dlog[i].valid /\ dlog[i].current = demand.peakImport
  <2>1. PICK i \in (epochStart + 1)..covered :
               Value(dlog[i], "import") = demand.peakImport
    BY Zenon, <1>1, <1>3 DEF PeakSound, PeakOf
  <2> QED BY Zenon, <1>3, <2>1 DEF Value
<1>4. ASSUME demand.peakExport # 0
      PROVE  \E i \in (epochStart + 1)..covered :
               /\ dlog[i].valid /\ dlog[i].current < 0
               /\ Magnitude(dlog[i].current) = demand.peakExport
  <2>1. PICK i \in (epochStart + 1)..covered :
               Value(dlog[i], "export") = demand.peakExport
    BY Zenon, <1>2, <1>4 DEF PeakSound, PeakOf
  <2> QED BY Zenon, <1>4, <2>1 DEF Value
<1> QED BY Zenon, <1>3, <1>4

\* The checkpoint committed last is known when it comes again.
LEMMA RetriesRecognised == ASSUME EnergyInv, DemandInv PROVE RetryRecognised
<1>1. ASSUME consumed # 0 PROVE EnergyVerdict(elog[consumed]) = "replay"
  <2> DEFINE r == elog[consumed]
  <2>1. energy # None /\ Matches(energy, r) /\ energy.seq \in Nat
    BY Zenon, <1>1 DEF EnergyInv, LedgerInv, EnergyState
  <2>2. SameSession(r) /\ SameContent(r)
    BY Zenon, <2>1 DEF Matches, SameSession, SameContent
  <2>3. r.seq = energy.seq /\ ~(r.seq < energy.seq)
    BY <2>1, SMTT(30) DEF Matches
  <2> QED BY Zenon, <2>2, <2>3 DEF EnergyVerdict
<1>2. ASSUME covered # 0 PROVE DemandVerdict(dlog[covered]) = "replay"
  <2> DEFINE r == dlog[covered]
  <2>1. demand # None /\ MatchesInterval(demand, r) /\ demand.seq \in Nat
    BY Zenon, <1>2 DEF DemandInv, DemandStateInv, DemandState
  <2>2. SameInstance(r)
    BY Zenon, <2>1 DEF MatchesInterval, SameInstance, DemandSession, DemandSemantics
  <2>3. r.seq = demand.seq BY Zenon, <2>1 DEF MatchesInterval
  <2>4. ~(r.seq < demand.seq)
    <3> HIDE DEF r
    <3> QED BY <2>1, <2>3
  <2> QED BY Zenon, <2>1, <2>2, <2>3, <2>4 DEF DemandVerdict, MatchesInterval
<1> QED BY Zenon, <1>1, <1>2 DEF RetryRecognised

\* As many resets are audited as were applied.
LEMMA ResetsAreCounted == ASSUME AuditInv PROVE ResetsCounted
<1>1. ASSUME NEW audit \in {energyAudit, demandAudit}, NEW a \in audit,
             NEW b \in audit, a[1] = b[1] \/ a[2] = b[2]
      PROVE  a = b
  BY Zenon, <1>1 DEF AuditInv, AuditSound
<1> QED BY Zenon, <1>1 DEF AuditInv, ResetsCounted

\* The demand side of the ledger as a whole: a peak was measured in its epoch,
\* the checkpoint committed last is recognised when it is delivered again, and
\* every reset is applied once, for any sessions, profiles, losses, replays,
\* resets and restarts (ingest_demand, reset_demand_peaks, reset_energy,
\* load_demand).
THEOREM DemandIsSound == Spec => []DemandSound
<1>1. EnergyInv /\ DemandInv /\ AuditInv => DemandSound
  BY Zenon, PeaksOfTheEpoch, RetriesRecognised, ResetsAreCounted DEF DemandSound
<1> QED BY <1>1, EnergyInvariant, DemandInvariant, AuditInvariant, PTL
=============================================================================
