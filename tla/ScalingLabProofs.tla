-------------------------- MODULE ScalingLabProofs --------------------------
(***************************************************************************)
(* The load generator for every rate, length of a phase, concurrency and   *)
(* horizon, and for command lines of every length: requests are accounted  *)
(* for and on schedule, the percentiles are the nearest-rank percentiles,  *)
(* the verdict is justified and the command line is honoured.              *)
(*                                                                         *)
(* What a loop or a sort computes is proved by induction over the set of   *)
(* the numbers for which it is right (UpTo), or by counting indices.       *)
(***************************************************************************)
EXTENDS ScalingLab, FiniteSetTheorems, WellFoundedInduction, TLAPS

-----------------------------------------------------------------------------
(* The invariant *)

Requests == [number : Nat, started : 0 .. Horizon]
Samples == [ticks : 0 .. Horizon, outcome : Outcomes]

\* The state of a phase, its types included: every request in flight has a
\* number of its own and started on schedule.
Flow ==
  /\ stage \in Phases \cup {"start", "done"}
  /\ loop \in {"turn", "sleep", "drain"}
  /\ now \in 0 .. Horizon
  /\ scheduled \in Nat /\ clientBackpressureDrops \in Nat
  /\ active \subseteq Requests /\ IsFiniteSet(active) /\ Cardinality(active) <= Concurrency
  /\ samples \in Seq(Samples)
  /\ \A r \in active : /\ r.number < scheduled /\ r.started <= now
                       /\ r.started >= r.number * Interval - TimerSlack
  /\ scheduled = clientBackpressureDrops + Cardinality(active) + Len(samples)
  /\ scheduled <= OfferedSlots
  /\ stage = "start" => scheduled = 0

\* The report is the summary of the samples at hand.
Reported ==
  /\ exitCode \in 0 .. 2
  /\ stage = "start" => report = NULL
  /\ stage \in Phases => report = NULL
  /\ report # NULL =>
       /\ active = {} /\ report = Summarize
       /\ exitCode = 2 <=> ThresholdFailures # {}

IInv == Flow /\ Reported

-----------------------------------------------------------------------------
(* Induction *)

\* A nonempty set of naturals has a least element.
LEMMA Least ==
  ASSUME NEW S, S \subseteq Nat, S # {}
  PROVE  \E m \in S : \A x \in S : m <= x
<1>1. PICK m \in S : \A x \in S : ~(<<x, m>> \in OpToRel(<, Nat))
  BY NatLessThanWellFounded, WFMin
<1>2. ASSUME NEW x \in S PROVE m <= x
  <2>1. m \in Nat /\ x \in Nat
    OBVIOUS
  <2>2. x < m => <<x, m>> \in OpToRel(<, Nat)
    BY <2>1 DEF OpToRel
  <2>3. ~(x < m)
    BY <1>1, <2>2, Zenon
  <2> QED BY <2>1, <2>3
<1> QED BY <1>2

\* Induction up to N, with the set of the numbers that have the property.
LEMMA UpTo ==
  ASSUME NEW N \in Nat, NEW S, 0 \in S, \A n \in 1..N : n - 1 \in S => n \in S
  PROVE  \A n \in 0..N : n \in S
<1> DEFINE T == {n \in 0..N : n \notin S}
<1> SUFFICES ASSUME T # {} PROVE FALSE
  OBVIOUS
<1>1. T \subseteq Nat
  OBVIOUS
<1>2. PICK m \in T : \A x \in T : m <= x
  <2> HIDE DEF T
  <2> QED BY <1>1, Least
<1>3. m \in 1..N /\ m - 1 \in 0..N
  OBVIOUS
<1>4. m - 1 \notin T
  BY <1>2, <1>3
<1> QED BY <1>3, <1>4

-----------------------------------------------------------------------------
(* Arithmetic *)

\* Multiplication preserves the order.
LEMMA Times ==
  ASSUME NEW a \in Int, NEW b \in Int, NEW i \in Nat, a <= b
  PROVE  a * i <= b * i
<1>1. PICK d \in Nat : b = a + d
  <2>1. b - a \in Nat /\ b = a + (b - a)
    OBVIOUS
  <2> QED
    BY <2>1
<1>2. b * i = a * i + d * i /\ d * i \in Nat /\ a * i \in Int
  BY <1>1
<1> QED
  BY <1>2

\* What a quotient is.
LEMMA Quotient ==
  ASSUME NEW x \in Nat, NEW i \in Nat \ {0}
  PROVE  /\ x \div i \in Nat
         /\ (x \div i) * i <= x
         /\ x < (x \div i) * i + i
  OBVIOUS

\* A slot that begins before the end of the phase, up to the slack, is one of
\* the slots of the phase.
LEMMA SlotOffered ==
  ASSUME NEW n \in Nat, n * Interval < Deadline + TimerSlack
  PROVE  n + 1 <= OfferedSlots
<1>1. Interval \in Nat \ {0} /\ TimerSlack \in Nat /\ Deadline \in Nat
  BY LoadAssumption DEF Deadline
<1> DEFINE x == Deadline + TimerSlack
           q == (x + Interval - 1) \div Interval
<1>2. x \in Nat /\ x + Interval - 1 \in Nat
  BY <1>1
<1>3. q \in Nat /\ x + Interval - 1 < q * Interval + Interval
  <2> HIDE DEF x
  <2> QED
    BY <1>1, <1>2, Quotient
<1>4. OfferedSlots = q
  BY DEF OfferedSlots
<1> SUFFICES ASSUME q <= n PROVE FALSE
  <2> HIDE DEF q
  <2> QED
    BY <1>3, <1>4
<1>5. q * Interval <= n * Interval
  <2> HIDE DEF q
  <2> QED
    BY <1>1, <1>3, Times
<1>6. n * Interval < x /\ n * Interval \in Nat /\ q * Interval \in Nat
  <2> HIDE DEF q
  <2> QED
    BY <1>1, <1>3
<1> HIDE DEF x, q
<1> QED
  BY <1>1, <1>2, <1>3, <1>5, <1>6

\* A phase offers slots.
LEMMA OfferedType == OfferedSlots \in Nat
<1>1. Interval \in Nat \ {0} /\ TimerSlack \in Nat /\ Deadline \in Nat
  BY LoadAssumption DEF Deadline
<1>2. Deadline + TimerSlack + Interval - 1 \in Nat
  BY <1>1
<1> QED
  BY <1>1, <1>2, Quotient DEF OfferedSlots

-----------------------------------------------------------------------------
(* The flow of requests *)

\* Nothing is in flight at first.
LEMMA InitFlow == Init => Flow
<1> SUFFICES ASSUME Init PROVE Flow
  OBVIOUS
<1>1. IsFiniteSet(active) /\ Cardinality(active) = 0
  BY FS_EmptySet DEF Init
<1>2. Horizon \in Nat /\ Concurrency \in Nat
  BY LoadAssumption, BoundsAssumption
<1>3. scheduled <= OfferedSlots
  BY OfferedType DEF Init
<1>4. samples \in Seq(Samples) /\ Len(samples) = 0
  BY DEF Init
<1> QED
  BY <1>1, <1>2, <1>3, <1>4 DEF Init, Flow, Phases

\* runPhase: a slot that is due is within the slack of its time.
LEMMA DueInTime ==
  ASSUME Flow, Due
  PROVE  now >= scheduled * Interval - TimerSlack
<1>1. Interval \in Nat /\ TimerSlack \in Nat /\ now \in Nat /\ scheduled * Interval \in Nat
  BY LoadAssumption DEF Flow
<1> QED
  BY <1>1 DEF Due, ScheduledAt

\* runPhase: the slot that is used is one of the phase.
LEMMA DueOffered ==
  ASSUME Flow, Due, now < Deadline
  PROVE  scheduled + 1 <= OfferedSlots
<1>1. Interval \in Nat /\ TimerSlack \in Nat /\ now \in Nat /\ scheduled \in Nat
      /\ scheduled * Interval \in Nat /\ Deadline \in Nat
  BY LoadAssumption DEF Flow, Deadline
<1>2. scheduled * Interval < Deadline + TimerSlack
  BY <1>1, DueInTime
<1> QED
  BY <1>1, <1>2, SlotOffered

\* StartRequest: the request in flight is a new one, and on time.
LEMMA StartRequestFlow ==
  ASSUME Flow, StartRequest
  PROVE  Flow'
<1> DEFINE q == [number |-> scheduled, started |-> now]
<1>1. /\ q \in Requests /\ q.number = scheduled /\ q.started = now /\ q \notin active
      /\ active' = active \cup {q} /\ scheduled' = scheduled + 1 /\ scheduled \in Nat
  BY DEF Flow, StartRequest, Requests
<1>2. q.started >= q.number * Interval - TimerSlack
  BY <1>1, DueInTime DEF StartRequest
<1>3. scheduled' <= OfferedSlots'
  BY <1>1, DueOffered DEF StartRequest, OfferedSlots, Deadline
<1> HIDE DEF q
<1>4. IsFiniteSet(active') /\ Cardinality(active') = Cardinality(active) + 1
  BY <1>1, FS_AddElement DEF Flow
<1>5. Cardinality(active) \in Nat /\ Len(samples) \in Nat
  BY FS_CardinalityType DEF Flow
<1>6. Cardinality(active') <= Concurrency
  BY <1>4, <1>5, LoadAssumption DEF StartRequest, AtLimit
<1>7. scheduled' = clientBackpressureDrops' + Cardinality(active') + Len(samples')
  BY <1>1, <1>4, <1>5 DEF Flow, StartRequest
<1>8. ASSUME NEW r \in active'
      PROVE  /\ r.number < scheduled' /\ r.started <= now'
             /\ r.started >= r.number * Interval - TimerSlack
  <2>1. CASE r = q
    BY <1>1, <1>2, <2>1 DEF Flow, StartRequest
  <2>2. CASE r \in active
    BY <1>1, <2>2 DEF Flow, StartRequest, Requests
  <2> QED
    BY <1>1, <2>1, <2>2
<1>9. active' \subseteq Requests
  BY <1>1 DEF Flow
<1>10. stage' \in Phases /\ stage' = stage /\ loop' = "turn"
  BY DEF StartRequest
<1> QED
  BY <1>1, <1>3, <1>4, <1>6, <1>7, <1>8, <1>9, <1>10 DEF Flow, StartRequest, Phases

\* DropRequest: the slot is used up and counted.
LEMMA DropRequestFlow ==
  ASSUME Flow, DropRequest
  PROVE  Flow'
<1>1. scheduled' = scheduled + 1 /\ scheduled' <= OfferedSlots'
  BY DueOffered DEF DropRequest, OfferedSlots, Deadline
<1>2. Cardinality(active) \in Nat /\ Len(samples) \in Nat
  BY FS_CardinalityType DEF Flow
<1>3. scheduled' = clientBackpressureDrops' + Cardinality(active') + Len(samples')
  BY <1>1, <1>2 DEF Flow, DropRequest
<1>4. \A r \in active : r.number < scheduled'
  BY <1>1 DEF Flow, Requests
<1> QED
  BY <1>1, <1>3, <1>4 DEF Flow, DropRequest, Phases

\* executeRequest: a request that ends becomes a sample.
LEMMA CompleteFlow ==
  ASSUME Flow, NEW r \in active, NEW o \in Outcomes, Complete(r, o)
  PROVE  Flow'
<1> DEFINE x == [ticks |-> now - r.started, outcome |-> o]
<1>1. x \in Samples
  <2>1. now \in 0 .. Horizon /\ r.started \in 0 .. Horizon /\ r.started <= now /\ Horizon \in Nat
    BY BoundsAssumption DEF Flow, Requests
  <2>2. now - r.started \in 0 .. Horizon
    BY <2>1
  <2> QED
    BY <2>2 DEF Samples
<1>2. samples' \in Seq(Samples) /\ Len(samples') = Len(samples) + 1
  <2>1. samples' = Append(samples, x)
    BY DEF Complete
  <2> HIDE DEF x
  <2> QED
    BY <1>1, <2>1 DEF Flow
<1>3. /\ IsFiniteSet(active') /\ Cardinality(active') = Cardinality(active) - 1
      /\ active' \subseteq active
  BY FS_RemoveElement DEF Flow, Complete
<1>4. Cardinality(active) \in Nat /\ Cardinality(active') \in Nat /\ Len(samples) \in Nat
  BY <1>3, FS_CardinalityType DEF Flow
<1>5. scheduled' = clientBackpressureDrops' + Cardinality(active') + Len(samples')
  BY <1>2, <1>3, <1>4 DEF Flow, Complete
<1>6. Cardinality(active') <= Concurrency
  BY <1>3, <1>4, LoadAssumption DEF Flow
<1>7. scheduled' <= OfferedSlots'
  BY DEF Flow, Complete, OfferedSlots, Deadline
<1> QED
  BY <1>2, <1>3, <1>5, <1>6, <1>7 DEF Flow, Complete

\* StartMeasuring: the measured phase begins with nothing of the warm-up.
LEMMA StartMeasuringFlow ==
  ASSUME Flow, StartMeasuring
  PROVE  Flow'
<1>1. IsFiniteSet(active') /\ Cardinality(active') = 0
  BY FS_EmptySet DEF StartMeasuring
<1>2. Horizon \in Nat /\ Concurrency \in Nat
  BY LoadAssumption, BoundsAssumption
<1>3. (OfferedSlots \in Nat)'
  BY OfferedType, PTL
<1>4. samples' \in Seq(Samples) /\ Len(samples') = 0
  BY DEF StartMeasuring
<1> QED
  BY <1>1, <1>2, <1>3, <1>4 DEF StartMeasuring, Flow, Phases

\* Every step keeps the flow.
LEMMA FlowStep == Flow /\ [Next]_vars => Flow'
<1> SUFFICES ASSUME Flow, [Next]_vars PROVE Flow'
  OBVIOUS
<1>1. CASE Start
  <2>1. stage' \in Phases \cup {"done"} /\ UNCHANGED <<loop, phase>> /\ scheduled' = 0
    BY <1>1 DEF Start, Flow, Phases, phase
  <2>2. (OfferedSlots \in Nat)'
    BY OfferedType, PTL
  <2> QED
    BY <2>1, <2>2 DEF Flow, phase, Phases
<1>2. CASE Sleep
  BY <1>2 DEF Sleep, Flow, phase, OfferedSlots, Deadline
<1>3. CASE EndLoop
  BY <1>3 DEF EndLoop, Flow, phase, OfferedSlots, Deadline
<1>4. CASE Report
  <2>1. OfferedSlots' = OfferedSlots
    BY <1>4 DEF Report, OfferedSlots, Deadline
  <2> QED
    BY <1>4, <2>1 DEF Report, Flow, phase, Phases
<1>5. CASE Tick
  <2>1. OfferedSlots' = OfferedSlots
    BY <1>5 DEF Tick, OfferedSlots, Deadline
  <2>2. now' = now + 1 /\ now' \in 0 .. Horizon
    BY <1>5, BoundsAssumption DEF Tick, Flow
  <2>3. \A r \in active : r.started <= now'
    BY <2>2 DEF Flow, Requests
  <2> QED
    BY <1>5, <2>1, <2>2, <2>3 DEF Tick, Flow
<1>6. ASSUME NEW r \in active, NEW o \in Outcomes, Complete(r, o)
      PROVE  Flow'
  BY <1>6, CompleteFlow
<1>7. CASE UNCHANGED vars
  BY <1>7 DEF vars, Flow, phase, OfferedSlots, Deadline
<1> QED
  BY <1>1, <1>2, <1>3, <1>4, <1>5, <1>6, <1>7,
     StartRequestFlow, DropRequestFlow, StartMeasuringFlow DEF Next, Slot

-----------------------------------------------------------------------------
(* The report *)

\* The summary depends on the samples and the two counters only.
LEMMA SameSummary ==
  ASSUME samples' = samples, scheduled' = scheduled,
         clientBackpressureDrops' = clientBackpressureDrops
  PROVE  ThresholdFailures' = ThresholdFailures /\ Summarize' = Summarize
<1>1. Succeeded' = Succeeded
  BY DEF Succeeded
<1>2. Successful' = Successful
  BY <1>1 DEF Successful, Quantify
<1>3. \A o : CountOf(o)' = CountOf(o)
  BY DEF CountOf, Quantify
<1>4. Failures' = Failures
  BY <1>3 DEF Failures
<1>5. LatencySummary(Successful)' = LatencySummary(Successful)
  BY <1>2
<1>6. LatencySummary(samples)' = LatencySummary(samples)
  OBVIOUS
<1>7. ErrorRateExceeds(MaxErrorRate)' <=> ErrorRateExceeds(MaxErrorRate)
  <2>1. (samples = <<>>)' <=> samples = <<>>
    OBVIOUS
  <2>2. (100 * Failures > MaxErrorRate * Len(samples))' <=> 100 * Failures > MaxErrorRate * Len(samples)
    BY <1>4
  <2> QED
    BY <2>1, <2>2 DEF ErrorRateExceeds
<1>8. ThresholdFailures' = ThresholdFailures
  <2> DEFINE p == LatencySummary(Successful).at[99]
  <2>1. p' = p
    BY <1>5
  <2>2. ThresholdFailures =
          {t \in {"p99", "errors", "drops"} :
             \/ t = "p99" /\ SloP99 # NULL /\ (p = NULL \/ p > SloP99)
             \/ t = "errors" /\ MaxErrorRate # NULL /\ ErrorRateExceeds(MaxErrorRate)
             \/ t = "drops" /\ clientBackpressureDrops > 0}
    BY DEF ThresholdFailures
  <2>3. ThresholdFailures' =
          {t \in {"p99", "errors", "drops"} :
             \/ t = "p99" /\ SloP99 # NULL /\ (p' = NULL \/ p' > SloP99)
             \/ t = "errors" /\ MaxErrorRate # NULL /\ ErrorRateExceeds(MaxErrorRate)'
             \/ t = "drops" /\ clientBackpressureDrops' > 0}
    BY DEF ThresholdFailures
  <2> HIDE DEF p
  <2> QED
    BY <1>7, <2>1, <2>2, <2>3
<1> QED
  BY <1>3, <1>5, <1>6, <1>8 DEF Summarize

\* Nothing is reported before the end, and what was reported stays the summary.
LEMMA ReportedStep == Flow /\ Reported /\ [Next]_vars => Reported'
<1> SUFFICES ASSUME Flow, Reported, [Next]_vars PROVE Reported'
  OBVIOUS
<1>1. CASE Start
  <2>1. report' = NULL /\ stage' # "start"
    BY <1>1 DEF Start, Reported, Phases
  <2>2. exitCode' \in 0 .. 2
    BY <1>1 DEF Start, Reported
  <2> QED
    BY <2>1, <2>2 DEF Reported
<1>2. CASE Report
  <2>1. active' = {} /\ samples' = samples /\ scheduled' = scheduled
        /\ clientBackpressureDrops' = clientBackpressureDrops /\ report' = Summarize
        /\ stage' = "done" /\ exitCode' = IF ThresholdFailures = {} THEN 0 ELSE 2
    BY <1>2 DEF Report, phase
  <2>2. ThresholdFailures' = ThresholdFailures /\ Summarize' = Summarize
    BY <2>1, SameSummary
  <2> QED
    BY <2>1, <2>2 DEF Reported, Phases
<1>3. CASE \/ Sleep \/ StartRequest \/ DropRequest \/ EndLoop \/ Tick \/ StartMeasuring
           \/ \E r \in active, o \in Outcomes : Complete(r, o)
  <2>1. stage \in Phases /\ stage' \in Phases /\ UNCHANGED <<report, exitCode>>
    BY <1>3 DEF Sleep, StartRequest, DropRequest, EndLoop, Tick, StartMeasuring, Complete, result,
                Phases
  <2> QED
    BY <2>1 DEF Reported, Phases
<1>4. CASE UNCHANGED vars
  <2>1. ThresholdFailures' = ThresholdFailures /\ Summarize' = Summarize
    BY <1>4, SameSummary DEF vars, phase
  <2> QED
    BY <1>4, <2>1 DEF Reported, vars, phase, result
<1> QED
  BY <1>1, <1>2, <1>3, <1>4 DEF Next, Slot

\* The flow and the report hold in every state of every run.
LEMMA Invariance == Spec => []IInv
<1>1. Init => IInv
  BY InitFlow DEF Init, IInv, Reported, Phases
<1>2. IInv /\ [Next]_vars => IInv'
  BY FlowStep, ReportedStep DEF IInv
<1> QED
  BY <1>1, <1>2, PTL DEF Spec

\* Open loop: no request starts ahead of its slot and no phase offers more slots
\* than its rate allows.
THEOREM LoadOnSchedule == Spec => []OnSchedule
<1>1. IInv => OnSchedule
  BY DEF IInv, Flow, OnSchedule
<1> QED
  BY <1>1, Invariance, PTL

-----------------------------------------------------------------------------
(* Sorting *)

\* A set of indices is finite.
LEMMA SomeIndices ==
  ASSUME NEW n \in Nat, NEW S, S \subseteq 1 .. n
  PROVE  IsFiniteSet(S) /\ Cardinality(S) \in Nat /\ Cardinality(S) <= n
<1> DEFINE I == 1 .. n
<1>1. IsFiniteSet(I) /\ Cardinality(I) = n
  BY FS_Interval
<1>2. S \in SUBSET I
  OBVIOUS
<1> HIDE DEF I
<1>3. IsFiniteSet(S) /\ Cardinality(S) <= n
  BY <1>1, <1>2, FS_Subset
<1> QED
  BY <1>3, FS_CardinalityType

\* The indices whose values come no later than the one at i.
UpToIndex(v, n, i) == {j \in 1 .. n : v[j] < v[i] \/ (v[j] = v[i] /\ j <= i)}

\* The positions count what comes no later.
LEMMA PositionsCount ==
  ASSUME NEW n \in Nat, NEW v \in [1 .. n -> Nat]
  PROVE  /\ Positions(v) = [i \in 1 .. n |-> Cardinality(UpToIndex(v, n, i))]
         /\ \A i \in 1 .. n : Positions(v)[i] \in 1 .. n
<1>1. Positions(v) = [i \in 1 .. n |-> Cardinality(UpToIndex(v, n, i))]
  BY DEF Positions, Quantify, UpToIndex
<1>2. ASSUME NEW i \in 1 .. n
      PROVE  Cardinality(UpToIndex(v, n, i)) \in 1 .. n
  <2> DEFINE S == UpToIndex(v, n, i)
  <2>1. S \subseteq 1 .. n /\ i \in S
    BY DEF UpToIndex
  <2> HIDE DEF S
  <2>3. IsFiniteSet(S) /\ Cardinality(S) \in Nat /\ Cardinality(S) <= n
    BY <2>1, SomeIndices
  <2>4. Cardinality(S) # 0
    BY <2>1, <2>3, FS_EmptySet
  <2>5. Cardinality(S) \in 1 .. n
    BY <2>3, <2>4
  <2> QED
    BY <2>5 DEF S
<1> QED
  BY <1>1, <1>2

\* What comes earlier has the smaller position.
LEMMA PositionsOrder ==
  ASSUME NEW n \in Nat, NEW v \in [1 .. n -> Nat], NEW i \in 1 .. n, NEW j \in 1 .. n,
         v[i] < v[j] \/ (v[i] = v[j] /\ i < j)
  PROVE  Positions(v)[i] < Positions(v)[j]
<1> DEFINE S == UpToIndex(v, n, i)
           T == UpToIndex(v, n, j)
<1>1. S \in SUBSET T /\ j \in T /\ j \notin S
  BY DEF UpToIndex
<1>2. T \subseteq 1 .. n
  BY DEF UpToIndex
<1>3. Positions(v)[i] = Cardinality(S) /\ Positions(v)[j] = Cardinality(T)
  BY PositionsCount
<1> HIDE DEF S, T
<1>4. IsFiniteSet(T)
  BY <1>2, SomeIndices
<1>5. Cardinality(S) <= Cardinality(T) /\ Cardinality(S) # Cardinality(T) /\ IsFiniteSet(S)
  BY <1>1, <1>4, FS_Subset
<1>6. Cardinality(S) \in Nat /\ Cardinality(T) \in Nat
  BY <1>4, <1>5, FS_CardinalityType
<1> QED
  BY <1>3, <1>5, <1>6

\* Sorted is the stable rearrangement of the values in ascending order: each
\* value has one position, every position has one value.
LEMMA Sorting ==
  ASSUME NEW n \in Nat, NEW v \in [1 .. n -> Nat]
  PROVE  /\ Positions(v) \in [1 .. n -> 1 .. n]
         /\ \A i, j \in 1 .. n : Positions(v)[i] = Positions(v)[j] => i = j
         /\ \A k \in 1 .. n : \E i \in 1 .. n : Positions(v)[i] = k
         /\ \A i \in 1 .. n : Sorted(v)[Positions(v)[i]] = v[i]
         /\ \A i, j \in 1 .. n : Positions(v)[i] <= Positions(v)[j] => v[i] <= v[j]
<1> DEFINE P == Positions(v)
<1>1. P \in [1 .. n -> 1 .. n]
  BY PositionsCount
<1>2. \A i, j \in 1 .. n : v[i] < v[j] \/ (v[i] = v[j] /\ i < j) => P[i] < P[j]
  BY PositionsOrder
<1>3. Sorted(v) = [k \in 1 .. n |-> v[CHOOSE i \in 1 .. n : P[i] = k]]
  BY DEF Sorted
<1> HIDE DEF P
<1>4. \A i, j \in 1 .. n : P[i] = P[j] => i = j
  <2> SUFFICES ASSUME NEW i \in 1 .. n, NEW j \in 1 .. n, P[i] = P[j], i # j
               PROVE  FALSE
    OBVIOUS
  <2>1. v[i] \in Nat /\ v[j] \in Nat /\ P[i] \in Nat /\ P[j] \in Nat /\ i \in Nat /\ j \in Nat
    BY <1>1
  <2>2. CASE v[i] < v[j] \/ (v[i] = v[j] /\ i < j)
    BY <1>2, <2>1, <2>2
  <2>3. CASE v[j] < v[i] \/ (v[j] = v[i] /\ j < i)
    BY <1>2, <2>1, <2>3
  <2> QED
    BY <2>1, <2>2, <2>3
<1>5. P \in Injection(1 .. n, 1 .. n)
  BY <1>1, <1>4 DEF Injection, IsInjective
<1>6. \A k \in 1 .. n : \E i \in 1 .. n : P[i] = k
  <2>1. IsFiniteSet(1 .. n)
    BY FS_Interval
  <2>2. P \in Surjection(1 .. n, 1 .. n)
    BY <1>5, <2>1, FS_Injection
  <2> QED
    BY <2>2 DEF Surjection
<1>7. ASSUME NEW i \in 1 .. n PROVE Sorted(v)[P[i]] = v[i]
  <2>1. P[i] \in 1 .. n
    BY <1>1
  <2>2. (CHOOSE j \in 1 .. n : P[j] = P[i]) = i
    BY <1>4
  <2> QED
    BY <1>3, <2>1, <2>2
<1>8. ASSUME NEW i \in 1 .. n, NEW j \in 1 .. n, P[i] <= P[j] PROVE v[i] <= v[j]
  <2>1. v[i] \in Nat /\ v[j] \in Nat /\ P[i] \in Nat /\ P[j] \in Nat
    BY <1>1
  <2>2. ~(v[j] < v[i])
    BY <1>2, <1>8, <2>1
  <2> QED
    BY <2>1, <2>2
<1> QED
  BY <1>1, <1>4, <1>6, <1>7, <1>8 DEF P

\* A set of naturals that has, with each of its elements, all smaller ones.
DownSet(D) == D \subseteq Nat /\ \A x \in D, y \in Nat : y <= x => y \in D

\* How many values lie in a set that reaches down to 0: the value sorted to k is
\* one of them exactly when there are at least k.
LEMMA SortedCounts ==
  ASSUME NEW n \in Nat, NEW v \in [1 .. n -> Nat], NEW k \in 1 .. n,
         NEW D, DownSet(D)
  PROVE  /\ Sorted(v)[k] \in Nat
         /\ \E i \in 1 .. n : Sorted(v)[k] = v[i]
         /\ Cardinality({i \in 1 .. n : v[i] \in D}) \in Nat
         /\ Sorted(v)[k] \in D <=> Cardinality({i \in 1 .. n : v[i] \in D}) >= k
<1> DEFINE P == Positions(v)
           A == {i \in 1 .. n : v[i] \in D}
<1>1. /\ P \in [1 .. n -> 1 .. n]
      /\ \A i, j \in 1 .. n : P[i] = P[j] => i = j
      /\ \A l \in 1 .. n : \E i \in 1 .. n : P[i] = l
      /\ \A i \in 1 .. n : Sorted(v)[P[i]] = v[i]
      /\ \A i, j \in 1 .. n : P[i] <= P[j] => v[i] <= v[j]
  BY Sorting
<1> HIDE DEF P
<1>2. PICK m \in 1 .. n : P[m] = k
  BY <1>1
<1>3. Sorted(v)[k] = v[m] /\ v[m] \in Nat
  BY <1>1, <1>2
<1>4. A \subseteq 1 .. n /\ IsFiniteSet(A) /\ Cardinality(A) \in Nat
  <2>1. A \subseteq 1 .. n
    OBVIOUS
  <2> HIDE DEF A
  <2> QED
    BY <2>1, SomeIndices
<1>5. ASSUME v[m] \in D PROVE Cardinality(A) >= k
  <2> DEFINE q == [l \in 1 .. k |-> CHOOSE i \in 1 .. n : P[i] = l]
  <2>1. ASSUME NEW l \in 1 .. k PROVE q[l] \in 1 .. n /\ P[q[l]] = l
    <3>1. l \in 1 .. n
      OBVIOUS
    <3>2. \E i \in 1 .. n : P[i] = l
      BY <1>1, <3>1
    <3> QED
      BY <3>2
  <2>2. ASSUME NEW l \in 1 .. k PROVE q[l] \in A
    <3>1. P[q[l]] <= P[m]
      BY <1>2, <2>1
    <3>2. v[q[l]] <= v[m] /\ v[q[l]] \in Nat
      BY <1>1, <2>1, <3>1
    <3> QED
      BY <1>5, <2>1, <3>2 DEF DownSet
  <2>3. q \in [1 .. k -> A]
    <3> HIDE DEF A
    <3> QED
      BY <2>2
  <2> HIDE DEF q, A
  <2>4. q \in Injection(1 .. k, A)
    <3>1. \A a, b \in 1 .. k : q[a] = q[b] => a = b
      BY <2>1
    <3> QED
      BY <2>3, <3>1 DEF Injection, IsInjective
  <2>5. Cardinality(1 .. k) <= Cardinality(A)
    BY <1>4, <2>4, FS_Injection
  <2>6. Cardinality(1 .. k) = k
    BY FS_Interval
  <2> QED
    BY <1>4, <2>5, <2>6
<1>6. ASSUME v[m] \notin D PROVE Cardinality(A) < k
  <2> DEFINE q == [i \in A |-> P[i]]
  <2>1. ASSUME NEW i \in A PROVE P[i] \in 1 .. k - 1
    <3>1. i \in 1 .. n /\ v[i] \in D /\ P[i] \in 1 .. n
      BY <1>1
    <3>2. ~(v[m] <= v[i])
      BY <1>3, <1>6, <3>1 DEF DownSet
    <3>3. ~(k <= P[i])
      BY <1>1, <1>2, <3>1, <3>2
    <3> QED
      BY <3>1, <3>3
  <2> HIDE DEF A
  <2>2. q \in [A -> 1 .. k - 1] /\ \A a, b \in A : q[a] = q[b] => a = b
    BY <1>1, <1>4, <2>1
  <2>3. q \in Injection(A, 1 .. k - 1)
    <3> HIDE DEF q
    <3> QED
      BY <2>2 DEF Injection, IsInjective
  <2> HIDE DEF q
  <2>4. IsFiniteSet(1 .. k - 1) /\ Cardinality(1 .. k - 1) = k - 1
    BY FS_Interval
  <2>5. Cardinality(A) <= Cardinality(1 .. k - 1)
    BY <2>3, <2>4, FS_Injection
  <2> QED
    BY <1>4, <2>4, <2>5
<1> QED
  <2>1. v[m] \in D <=> Cardinality(A) >= k
    <3> HIDE DEF A
    <3> QED
      BY <1>4, <1>5, <1>6
  <2> QED
    BY <1>3, <1>4, <2>1

-----------------------------------------------------------------------------
(* Percentiles *)

\* The larger of two numbers.
LEMMA MaxOfTwo ==
  ASSUME NEW a \in Int, NEW b \in Int
  PROVE  Max({a, b}) = IF a >= b THEN a ELSE b
<1> DEFINE m == IF a >= b THEN a ELSE b
<1>1. m \in {a, b} /\ \A y \in {a, b} : m >= y
  OBVIOUS
<1>2. \A x \in {a, b} : (\A y \in {a, b} : x >= y) => x = m
  OBVIOUS
<1> QED
  BY <1>1, <1>2 DEF Max

\* The least element.
LEMMA MinIs ==
  ASSUME NEW S, S \subseteq Int, NEW m \in S, \A y \in S : m <= y
  PROVE  Min(S) = m
<1>1. \A x \in S : (\A y \in S : x <= y) => x = m
  OBVIOUS
<1> QED
  BY <1>1 DEF Min

\* The greatest element.
LEMMA MaxIs ==
  ASSUME NEW S, S \subseteq Int, NEW m \in S, \A y \in S : m >= y
  PROVE  Max(S) = m
<1>1. \A x \in S : (\A y \in S : x >= y) => x = m
  OBVIOUS
<1> QED
  BY <1>1 DEF Max

\* percentile: the index is the rank of the percentile, rounded up.
LEMMA Rank ==
  ASSUME NEW n \in Nat \ {0}, NEW f \in Fractions
  PROVE  /\ RankIndex(n, f) \in 1 .. n
         /\ 100 * RankIndex(n, f) >= f * n
         /\ 100 * (RankIndex(n, f) - 1) < f * n
<1> DEFINE q == (f * n + 99) \div 100
<1>1. f \in {50, 95, 99}
  BY DEF Fractions
<1>2. q \in Int /\ 1 <= q /\ q <= n /\ 100 * q >= f * n /\ 100 * (q - 1) < f * n
  BY <1>1
<1>3. RankIndex(n, f) = Max({0, q - 1}) + 1
  BY DEF RankIndex
<1> HIDE DEF q
<1>4. Max({0, q - 1}) = q - 1
  BY <1>2, MaxOfTwo
<1>5. RankIndex(n, f) = q
  BY <1>2, <1>3, <1>4
<1> QED
  BY <1>2, <1>5

\* percentile: what is at the index of the sorted values is the nearest rank.
LEMMA NearestRankFound ==
  ASSUME NEW n \in Nat \ {0}, NEW v \in Seq(Nat), Len(v) = n, NEW f \in Fractions
  PROVE  /\ Sorted(v)[RankIndex(n, f)] \in Values(v)
         /\ Percentile(v, f) = ToFixed2(Sorted(v)[RankIndex(n, f)])
         /\ Percentile(v, f) = NearestRank(v, f)
<1> DEFINE R == RankIndex(n, f)
           s == Sorted(v)[R]
           Count(w) == Cardinality({i \in 1 .. n : v[i] \in 0 .. w})
           S == {w \in Values(v) : 100 * Quantify(DOMAIN v, LAMBDA i : v[i] <= w) >= f * Len(v)}
<1>1. v \in [1 .. n -> Nat] /\ DOMAIN v = 1 .. n /\ v # <<>>
  OBVIOUS
<1>2. R \in 1 .. n /\ 100 * R >= f * n /\ 100 * (R - 1) < f * n
  BY Rank
<1>3. f * n \in Nat
  BY DEF Fractions
<1>4. ASSUME NEW w \in Nat
      PROVE  /\ s \in Nat /\ \E i \in 1 .. n : s = v[i]
             /\ Count(w) \in Nat
             /\ s \in 0 .. w <=> Count(w) >= R
  <2>1. DownSet(0 .. w) /\ n \in Nat
    BY DEF DownSet
  <2>2. /\ Sorted(v)[R] \in Nat /\ \E i \in 1 .. n : Sorted(v)[R] = v[i]
        /\ Cardinality({i \in 1 .. n : v[i] \in 0 .. w}) \in Nat
        /\ Sorted(v)[R] \in 0 .. w <=> Cardinality({i \in 1 .. n : v[i] \in 0 .. w}) >= R
    <3> DEFINE D == 0 .. w
    <3>1. DownSet(D)
      BY <2>1
    <3> HIDE DEF D, R
    <3>2. /\ Sorted(v)[R] \in Nat /\ \E i \in 1 .. n : Sorted(v)[R] = v[i]
          /\ Cardinality({i \in 1 .. n : v[i] \in D}) \in Nat
          /\ Sorted(v)[R] \in D <=> Cardinality({i \in 1 .. n : v[i] \in D}) >= R
      BY <1>1, <1>2, <2>1, <3>1, SortedCounts
    <3> QED
      BY <3>2 DEF D
  <2> QED
    BY <2>2
<1>5. \A w \in Nat : Quantify(DOMAIN v, LAMBDA i : v[i] <= w) = Count(w)
  <2> SUFFICES ASSUME NEW w \in Nat
               PROVE  {i \in DOMAIN v : v[i] <= w} = {i \in 1 .. n : v[i] \in 0 .. w}
    BY DEF Quantify
  <2> QED
    BY <1>1
<1>6. Values(v) \subseteq Nat /\ \A i \in 1 .. n : v[i] \in Values(v)
  BY <1>1 DEF Values
<1>7. S = {w \in Values(v) : 100 * Count(w) >= f * n}
  BY <1>5, <1>6
<1>8. s \in Nat /\ s \in Values(v)
  BY <1>4, <1>6
<1> HIDE DEF Count, s, R
<1>9. 100 * Count(s) >= f * n
  <2>1. Count(s) \in Nat /\ Count(s) >= R
    BY <1>4, <1>8
  <2> QED
    BY <1>2, <1>3, <2>1
<1>10. ASSUME NEW w \in Values(v), 100 * Count(w) >= f * n PROVE s <= w
  <2>1. w \in Nat /\ Count(w) \in Nat
    BY <1>4, <1>6
  <2>2. Count(w) >= R
    BY <1>2, <1>3, <1>10, <2>1
  <2>3. s \in 0 .. w
    BY <1>4, <2>1, <2>2
  <2> QED
    BY <2>1, <2>3
<1>11. NearestRank(v, f) = ToFixed2(Min(S))
  BY <1>1 DEF NearestRank
<1> HIDE DEF S
<1>12. Min(S) = s
  <2>1. s \in S /\ \A y \in S : s <= y
    BY <1>7, <1>8, <1>9, <1>10
  <2>2. S \subseteq Int
    BY <1>6, <1>7
  <2> QED
    BY <2>1, <2>2, MinIs
<1>13. Percentile(v, f) = ToFixed2(Sorted(v)[RankIndex(n, f)])
  BY <1>1 DEF Percentile
<1> QED
  BY <1>8, <1>12, <1>13, <1>11 DEF s, R

\* The two definitions agree on every sequence, the empty one included.
LEMMA PercentileIsNearestRank ==
  ASSUME NEW v \in Seq(Nat), NEW f \in Fractions
  PROVE  Percentile(v, f) = NearestRank(v, f)
<1>1. CASE v = <<>>
  BY <1>1 DEF Percentile, NearestRank
<1>2. CASE v # <<>>
  <2>1. Len(v) \in Nat \ {0}
    BY <1>2
  <2> QED
    BY <2>1, NearestRankFound
<1> QED
  BY <1>1, <1>2

-----------------------------------------------------------------------------
(* Summaries *)

\* latencySummary: the durations of samples.
LEMMA TicksOf ==
  ASSUME NEW s \in Seq(Samples)
  PROVE  /\ Ticks(s) \in Seq(Nat) /\ Len(Ticks(s)) = Len(s)
         /\ \A i \in 1 .. Len(s) : Ticks(s)[i] = s[i].ticks /\ Ticks(s)[i] \in 0 .. Horizon
         /\ LatencySummary(s).at = [f \in Fractions |-> Percentile(Ticks(s), f)]
<1>1. Ticks(s) = [i \in 1 .. Len(s) |-> s[i].ticks]
  BY DEF Ticks
<1>2. \A i \in 1 .. Len(s) : s[i] \in Samples /\ s[i].ticks \in 0 .. Horizon /\ s[i].ticks \in Nat
  <2>1. \A i \in 1 .. Len(s) : s[i] \in Samples
    OBVIOUS
  <2>2. \A x \in Samples : x.ticks \in 0 .. Horizon /\ x.ticks \in Nat
    BY BoundsAssumption DEF Samples
  <2> QED
    BY <2>1, <2>2
<1>3. Len(s) \in Nat
  OBVIOUS
<1>4. Ticks(s) \in Seq(Nat) /\ Len(Ticks(s)) = Len(s)
  BY <1>1, <1>2, <1>3
<1>5. LatencySummary(s).at = [f \in Fractions |-> Percentile(Ticks(s), f)]
  BY DEF LatencySummary, Ticks
<1> QED
  BY <1>1, <1>2, <1>4, <1>5

\* toFixed: a duration within the horizon is printed within its bound.
LEMMA ToFixed2Bounded ==
  ASSUME NEW t \in 0 .. Horizon
  PROVE  ToFixed2(t) \in Latency /\ ToFixed2(t) \in Nat
<1>1. TickMicros \in Nat /\ Horizon \in Nat /\ t \in Nat /\ t <= Horizon
  BY LoadAssumption, BoundsAssumption
<1> DEFINE a == t * TickMicros
           b == Horizon * TickMicros
<1>2. a \in Nat /\ b \in Nat /\ a <= b
  BY <1>1, Times
<1>3. ToFixed2(t) = (a + 5) \div 10 /\ ToFixed2(Horizon) = (b + 5) \div 10
  BY DEF ToFixed2
<1> HIDE DEF a, b
<1>4. (a + 5) \div 10 \in 0 .. (b + 5) \div 10 /\ (a + 5) \div 10 \in Nat
  BY <1>2
<1> QED
  BY <1>3, <1>4 DEF Latency

\* A nonempty set of numbers up to N has a least and a greatest one.
LEMMA Extremes ==
  ASSUME NEW N \in Nat, NEW S, S \subseteq 0 .. N, S # {}
  PROVE  Min(S) \in S /\ Max(S) \in S
<1>1. S \subseteq Nat /\ S \subseteq Int
  OBVIOUS
<1>2. PICK m \in S : \A x \in S : m <= x
  BY <1>1, Least
<1>3. Min(S) = m
  BY <1>1, <1>2, MinIs
<1> DEFINE T == {N - x : x \in S}
<1>4. T \subseteq Nat /\ T # {}
  <2>1. \A x \in S : x \in 0 .. N
    OBVIOUS
  <2>2. \A x \in 0 .. N : N - x \in Nat
    OBVIOUS
  <2>3. \A x \in S : N - x \in Nat
    BY <2>1, <2>2
  <2> QED
    BY <2>3
<1>5. PICK t \in T : \A y \in T : t <= y
  <2> HIDE DEF T
  <2> QED
    BY <1>4, Least
<1>6. PICK g \in S : t = N - g
  BY <1>5
<1>7. \A x \in S : g >= x
  <2> SUFFICES ASSUME NEW x \in S PROVE g >= x
    OBVIOUS
  <2>1. N - x \in T
    OBVIOUS
  <2>2. N - g <= N - x
    BY <1>5, <1>6, <2>1
  <2>3. x \in Nat /\ g \in Nat
    BY <1>1
  <2> QED
    BY <1>1, <2>2, <2>3
<1>8. Max(S) = g
  BY <1>1, <1>7, MaxIs
<1> QED
  BY <1>3, <1>8

\* A summary has the type of one.
LEMMA SummaryType ==
  ASSUME NEW s \in Seq(Samples)
  PROVE  LatencySummary(s) \in Summaries
<1> DEFINE v == Ticks(s)
<1>1. v \in Seq(Nat) /\ Len(v) = Len(s) /\ \A i \in 1 .. Len(s) : v[i] \in 0 .. Horizon
  BY TicksOf
<1>2. LatencySummary(s) =
        [min |-> IF v = <<>> THEN NULL ELSE ToFixed2(Min(Values(v))),
         max |-> IF v = <<>> THEN NULL ELSE ToFixed2(Max(Values(v))),
         at  |-> [f \in Fractions |-> Percentile(v, f)]]
  BY DEF LatencySummary, Ticks
<1> HIDE DEF v
<1>3. CASE v = <<>>
  <2>1. \A f \in Fractions : Percentile(v, f) = NULL
    BY <1>3 DEF Percentile
  <2>2. LatencySummary(s) = [min |-> NULL, max |-> NULL, at |-> [f \in Fractions |-> NULL]]
    BY <1>2, <1>3, <2>1
  <2>3. NULL \in Latency
    BY DEF Latency
  <2> QED
    BY <2>2, <2>3 DEF Summaries
<1>4. CASE v # <<>>
  <2>1. Len(v) \in Nat \ {0} /\ DOMAIN v = 1 .. Len(v)
    BY <1>1, <1>4
  <2>2. Values(v) \subseteq 0 .. Horizon /\ Values(v) # {}
    BY <1>1, <2>1 DEF Values
  <2>3. Min(Values(v)) \in 0 .. Horizon /\ Max(Values(v)) \in 0 .. Horizon
    BY <2>2, Extremes, BoundsAssumption
  <2>4. ToFixed2(Min(Values(v))) \in Latency /\ ToFixed2(Max(Values(v))) \in Latency
    BY <2>3, ToFixed2Bounded
  <2>5. ASSUME NEW f \in Fractions PROVE Percentile(v, f) \in Latency
    <3>1. /\ Sorted(v)[RankIndex(Len(v), f)] \in Values(v)
          /\ Percentile(v, f) = ToFixed2(Sorted(v)[RankIndex(Len(v), f)])
      BY <1>1, <2>1, NearestRankFound
    <3>2. Sorted(v)[RankIndex(Len(v), f)] \in 0 .. Horizon
      BY <2>2, <3>1
    <3> QED
      BY <3>1, <3>2, ToFixed2Bounded
  <2> QED
    BY <1>2, <1>4, <2>4, <2>5 DEF Summaries
<1> QED
  BY <1>3, <1>4

\* A set of indices has an n-th element for every n up to its size.
LEMMA NthIndex ==
  ASSUME NEW N \in Nat, NEW K, K \subseteq 1 .. N, NEW m \in 1 .. Cardinality(K)
  PROVE  \E i \in K : Cardinality({j \in K : j <= i}) = m
<1> DEFINE C(i) == {j \in K : j <= i}
           T == {i \in 1 .. N : Cardinality(C(i)) >= m}
<1>0. \A j \in K : j \in Nat /\ 1 <= j /\ j <= N
  OBVIOUS
<1>1. Cardinality(K) \in Nat /\ Cardinality(K) <= N
  BY SomeIndices
<1>2. ASSUME NEW i \in Nat
      PROVE  C(i) \subseteq 1 .. N /\ IsFiniteSet(C(i)) /\ Cardinality(C(i)) \in Nat
  <2>1. C(i) \subseteq 1 .. N
    OBVIOUS
  <2> HIDE DEF C
  <2> QED
    BY <2>1, SomeIndices
<1>3. T # {}
  <2>1. C(N) = K
    BY <1>0
  <2>2. N \in 1 .. N
    BY <1>1
  <2>3. Cardinality(C(N)) >= m
    BY <1>1, <2>1
  <2> QED
    BY <2>2, <2>3
<1>4. T \subseteq Nat
  OBVIOUS
<1>5. PICK i \in T : \A x \in T : i <= x
  <2> HIDE DEF T
  <2> QED
    BY <1>3, <1>4, Least
<1>6. i \in 1 .. N /\ Cardinality(C(i)) >= m
  BY <1>5
<1>7. Cardinality(C(i - 1)) < m
  <2>1. CASE i = 1
    <3>1. \A j \in K : ~(j <= i - 1)
      BY <1>0, <2>1
    <3>2. C(i - 1) = {}
      BY <3>1
    <3> QED
      BY <3>2, FS_EmptySet
  <2>2. CASE i # 1
    <3>1. i - 1 \in 1 .. N /\ i - 1 \in Nat /\ ~(i <= i - 1)
      BY <1>6, <2>2
    <3>2. i - 1 \notin T
      BY <1>5, <3>1
    <3>3. Cardinality(C(i - 1)) \in Nat
      BY <1>2, <3>1
    <3> QED
      BY <3>1, <3>2, <3>3
  <2> QED
    BY <2>1, <2>2
<1>8. C(i) = IF i \in K THEN C(i - 1) \cup {i} ELSE C(i - 1)
  <2>1. \A j \in K : j <= i <=> j <= i - 1 \/ j = i
    BY <1>0, <1>6
  <2> QED
    BY <1>6, <2>1
<1>9. i \notin C(i - 1)
  BY <1>6
<1>10. i - 1 \in Nat /\ i \in Nat
  BY <1>6
<1> HIDE DEF C, T
<1>11. i \in K
  BY <1>2, <1>6, <1>7, <1>8, <1>10
<1>12. Cardinality(C(i)) = Cardinality(C(i - 1)) + 1
  BY <1>2, <1>8, <1>9, <1>10, <1>11, FS_AddElement
<1>13. Cardinality(C(i)) = m
  BY <1>2, <1>6, <1>7, <1>10, <1>12
<1> QED
  BY <1>11, <1>13 DEF C

\* samples.filter keeps samples, as many as succeeded.
LEMMA SuccessfulType ==
  ASSUME samples \in Seq(Samples)
  PROVE  /\ Successful \in Seq(Samples)
         /\ Len(Successful) = CountOf("200")
<1> DEFINE m == Cardinality(Succeeded)
<1>1. Succeeded \subseteq 1 .. Len(samples) /\ Len(samples) \in Nat
  BY DEF Succeeded
<1>2. m \in Nat
  BY <1>1, SomeIndices
<1>3. \A n \in 1 .. m : \E i \in Succeeded : Cardinality({j \in Succeeded : j <= i}) = n
  BY <1>1, NthIndex
<1>4. Successful = [n \in 1 .. m |->
        samples[CHOOSE i \in Succeeded : Cardinality({j \in Succeeded : j <= i}) = n]]
  BY DEF Successful, Quantify
<1>5. m = CountOf("200")
  BY DEF Succeeded, CountOf, Quantify
<1> DEFINE At(n) == CHOOSE i \in Succeeded : Cardinality({j \in Succeeded : j <= i}) = n
<1>6. \A n \in 1 .. m : At(n) \in Succeeded
  BY <1>3
<1>7. Successful = [n \in 1 .. m |-> samples[At(n)]]
  BY <1>4
<1> HIDE DEF m, At
<1>8. \A i \in Succeeded : samples[i] \in Samples
  BY <1>1
<1>9. \A n \in 1 .. m : samples[At(n)] \in Samples
  BY <1>6, <1>8
<1> QED
  BY <1>2, <1>5, <1>9, <1>7

\* Four disjoint sets together.
LEMMA FourParts ==
  ASSUME NEW A, NEW B, NEW C, NEW D,
         IsFiniteSet(A), IsFiniteSet(B), IsFiniteSet(C), IsFiniteSet(D),
         A \cap B = {}, (A \cup B) \cap C = {}, (A \cup B \cup C) \cap D = {}
  PROVE  Cardinality(A \cup B \cup C \cup D)
           = Cardinality(A) + Cardinality(B) + Cardinality(C) + Cardinality(D)
<1>0. Cardinality({}) = 0
  BY FS_EmptySet
<1>1. IsFiniteSet(A \cup B) /\ Cardinality(A \cup B) = Cardinality(A) + Cardinality(B) - 0
  BY <1>0, FS_Union
<1> DEFINE E == A \cup B
<1>2. IsFiniteSet(E) /\ E \cap C = {}
  BY <1>1
<1> HIDE DEF E
<1>3. IsFiniteSet(E \cup C) /\ Cardinality(E \cup C) = Cardinality(E) + Cardinality(C) - 0
  BY <1>0, <1>2, FS_Union
<1> DEFINE F == E \cup C
<1>4. IsFiniteSet(F) /\ F \cap D = {}
  BY <1>3 DEF E
<1> HIDE DEF F
<1>5. Cardinality(F \cup D) = Cardinality(F) + Cardinality(D) - 0
  BY <1>0, <1>4, FS_Union
<1>6. /\ Cardinality(A) \in Nat /\ Cardinality(B) \in Nat /\ Cardinality(C) \in Nat
      /\ Cardinality(D) \in Nat
  BY FS_CardinalityType
<1>7. F \cup D = A \cup B \cup C \cup D
  BY DEF E, F
<1> QED
  BY <1>1, <1>3, <1>5, <1>6, <1>7 DEF E, F

\* Every sample has one outcome.
LEMMA OutcomesAddUp ==
  ASSUME samples \in Seq(Samples)
  PROVE  /\ \A o \in Outcomes : CountOf(o) \in Nat
         /\ Len(samples) = CountOf("200") + CountOf("503") + CountOf("network") + CountOf("timeout")
<1> DEFINE n == Len(samples)
           With(o) == {i \in 1 .. n : samples[i].outcome = o}
<1>1. n \in Nat /\ \A i \in 1 .. n : samples[i].outcome \in {"200", "503", "network", "timeout"}
  <2>1. \A i \in 1 .. n : samples[i] \in Samples
    OBVIOUS
  <2>2. \A x \in Samples : x.outcome \in {"200", "503", "network", "timeout"}
    BY DEF Samples, Outcomes, Statuses
  <2> QED
    BY <2>1, <2>2
<1>2. ASSUME NEW o PROVE CountOf(o) = Cardinality(With(o))
  <2>1. DOMAIN samples = 1 .. n
    OBVIOUS
  <2>2. {i \in DOMAIN samples : samples[i].outcome = o} = With(o)
    BY <2>1
  <2> QED
    BY <2>2 DEF CountOf, Quantify
<1>3. ASSUME NEW o PROVE IsFiniteSet(With(o)) /\ Cardinality(With(o)) \in Nat
  <2>1. With(o) \subseteq 1 .. n
    OBVIOUS
  <2> HIDE DEF With, n
  <2> QED
    BY <1>1, <2>1, SomeIndices
<1>4. With("200") \cup With("503") \cup With("network") \cup With("timeout") = 1 .. n
  <2> HIDE DEF n
  <2> QED
    BY <1>1
<1>5. /\ With("200") \cap With("503") = {}
      /\ (With("200") \cup With("503")) \cap With("network") = {}
      /\ (With("200") \cup With("503") \cup With("network")) \cap With("timeout") = {}
  OBVIOUS
<1>6. Cardinality(1 .. n) = n
  BY <1>1, FS_Interval
<1> HIDE DEF With
<1>7. Cardinality(With("200") \cup With("503") \cup With("network") \cup With("timeout"))
        = Cardinality(With("200")) + Cardinality(With("503")) + Cardinality(With("network"))
          + Cardinality(With("timeout"))
  BY <1>3, <1>5, FourParts
<1> QED
  BY <1>2, <1>3, <1>4, <1>6, <1>7

-----------------------------------------------------------------------------
(* What the report says *)

\* Every scheduled request is dropped, in flight or sampled, exactly once, and
\* the report accounts for all of the measured phase.
THEOREM RequestsAccounted == Spec => []Accounting
<1>1. ASSUME IInv PROVE Accounting
  <2>1. samples \in Seq(Samples) /\ Successful \in Seq(Samples)
    BY <1>1, SuccessfulType DEF IInv, Flow
  <2>2. ASSUME report # NULL
        PROVE  /\ report.latency \in Summaries /\ report.successfulLatency \in Summaries
               /\ report.scheduled = report.drops + report.completed
               /\ report.completed = report.outcomes["200"] + report.outcomes["503"]
                                     + report.outcomes["network"] + report.outcomes["timeout"]
    <3>1. report = Summarize /\ active = {}
      BY <1>1, <2>2 DEF IInv, Reported
    <3>2. /\ report.latency = LatencySummary(samples)
          /\ report.successfulLatency = LatencySummary(Successful)
          /\ report.scheduled = scheduled /\ report.drops = clientBackpressureDrops
          /\ report.completed = Len(samples)
          /\ report.outcomes = [o \in Outcomes |-> CountOf(o)]
      BY <3>1 DEF Summarize
    <3>3. Cardinality(active) = 0 /\ Len(samples) \in Nat
      BY <2>1, <3>1, FS_EmptySet
    <3>4. scheduled = clientBackpressureDrops + Len(samples)
      BY <1>1, <3>3 DEF IInv, Flow
    <3>5. \A o \in {"200", "503", "network", "timeout"} : report.outcomes[o] = CountOf(o)
      BY <3>2 DEF Outcomes, Statuses
    <3>6. report.latency \in Summaries /\ report.successfulLatency \in Summaries
      BY <2>1, <3>2, SummaryType
    <3> QED
      BY <2>1, <3>2, <3>4, <3>5, <3>6, OutcomesAddUp
  <2>3. TypeOK
    BY <1>1, <2>2 DEF IInv, Flow, Reported, TypeOK, Requests, Samples
  <2> QED
    BY <1>1, <2>2, <2>3 DEF Accounting, IInv, Flow
<1> QED
  BY <1>1, Invariance, PTL

\* The percentiles of every sequence of durations, reported or not, are the
\* nearest-rank percentiles.
THEOREM PercentilesCorrect == Spec => []PercentilesAreNearestRank
<1>1. LongRunsAgree
  <2>1. ASSUME NEW n \in 1 .. LongRun, NEW repeat \in {1, 7}
        PROVE  [i \in 1 .. n |-> (n - i) \div repeat] \in Seq(Nat)
    <3>1. n \in Nat
      BY BoundsAssumption
    <3>2. \A i \in 1 .. n : (n - i) \div repeat \in Nat
      BY <3>1
    <3> QED
      BY <3>1, <3>2
  <2>2. \A v \in LongRuns : v \in Seq(Nat)
    BY <2>1 DEF LongRuns
  <2> QED
    BY <2>2, PercentileIsNearestRank DEF LongRunsAgree
<1>2. ASSUME IInv PROVE PercentilesAreNearestRank
  <2>1. samples \in Seq(Samples) /\ Successful \in Seq(Samples)
    BY <1>2, SuccessfulType DEF IInv, Flow
  <2>2. ASSUME report # NULL, NEW f \in Fractions
        PROVE  /\ report.latency.at[f] = NearestRank(Ticks(samples), f)
               /\ report.successfulLatency.at[f] = NearestRank(Ticks(Successful), f)
    <3>1. /\ report.latency = LatencySummary(samples)
          /\ report.successfulLatency = LatencySummary(Successful)
      BY <1>2, <2>2 DEF IInv, Reported, Summarize
    <3>2. /\ report.latency.at[f] = Percentile(Ticks(samples), f)
          /\ report.successfulLatency.at[f] = Percentile(Ticks(Successful), f)
      <4>1. /\ LatencySummary(samples).at = [g \in Fractions |-> Percentile(Ticks(samples), g)]
            /\ LatencySummary(Successful).at = [g \in Fractions |-> Percentile(Ticks(Successful), g)]
        BY <2>1, TicksOf
      <4> QED
        BY <3>1, <4>1
    <3>3. Ticks(samples) \in Seq(Nat) /\ Ticks(Successful) \in Seq(Nat)
      BY <2>1, TicksOf
    <3> QED
      BY <3>2, <3>3, PercentileIsNearestRank
  <2> QED
    BY <1>1, <2>2 DEF PercentilesAreNearestRank
<1> QED
  BY <1>2, Invariance, PTL

\* The SLO is missed by the 99th percentile exactly when fewer than 99 percent
\* of the values meet it.
LEMMA SloMissed ==
  ASSUME NEW v \in Seq(Nat), v # <<>>, SloP99 \in Nat
  PROVE  /\ Percentile(v, 99) \in Nat
         /\ Percentile(v, 99) > SloP99 <=>
              100 * Cardinality({i \in 1 .. Len(v) : v[i] * TickMicros < 10 * SloP99 + 5})
                < 99 * Len(v)
<1> DEFINE n == Len(v)
           R == RankIndex(n, 99)
           s == Sorted(v)[R]
           D == {t \in Nat : t * TickMicros < 10 * SloP99 + 5}
           W == Cardinality({i \in 1 .. n : v[i] \in D})
<1>1. n \in Nat \ {0} /\ v \in [1 .. n -> Nat] /\ 99 \in Fractions /\ TickMicros \in Nat
  BY LoadAssumption DEF Fractions
<1>2. R \in 1 .. n /\ 100 * R >= 99 * n /\ 100 * (R - 1) < 99 * n
  <2> HIDE DEF n
  <2> QED
    BY <1>1, Rank
<1>3. DownSet(D)
  <2> SUFFICES ASSUME NEW x \in D, NEW y \in Nat, y <= x PROVE y * TickMicros < 10 * SloP99 + 5
    BY DEF DownSet
  <2>1. y * TickMicros <= x * TickMicros
    BY <1>1, Times
  <2>2. x * TickMicros \in Nat /\ y * TickMicros \in Nat /\ 10 * SloP99 + 5 \in Nat
    BY <1>1
  <2>3. x * TickMicros < 10 * SloP99 + 5
    OBVIOUS
  <2> QED
    BY <2>1, <2>2, <2>3
<1>4. s \in Nat /\ W \in Nat /\ (s \in D <=> W >= R)
  <2> HIDE DEF D, n, R
  <2> QED
    BY <1>1, <1>2, <1>3, SortedCounts
<1>5. Percentile(v, 99) = ToFixed2(s)
  BY <1>1, NearestRankFound
<1>6. s \in D <=> s * TickMicros < 10 * SloP99 + 5
  <2> HIDE DEF s
  <2> QED
    BY <1>4
<1>7. {i \in 1 .. n : v[i] * TickMicros < 10 * SloP99 + 5} = {i \in 1 .. n : v[i] \in D}
  <2> HIDE DEF n
  <2> QED
    BY <1>1
<1> HIDE DEF s, W, R, D, n
<1> DEFINE a == s * TickMicros
<1>8. a \in Nat
  BY <1>1, <1>4
<1>9. ToFixed2(s) = (a + 5) \div 10
  BY DEF ToFixed2
<1>10. s \in D <=> a < 10 * SloP99 + 5
  BY <1>6
<1> HIDE DEF a
<1>11. ToFixed2(s) \in Nat /\ (ToFixed2(s) > SloP99 <=> s \notin D)
  BY <1>8, <1>9, <1>10
<1>12. W < R <=> 100 * W < 99 * n
  BY <1>1, <1>2, <1>4
<1>13. Percentile(v, 99) > SloP99 <=> 100 * W < 99 * n
  BY <1>1, <1>2, <1>4, <1>5, <1>11, <1>12
<1> QED
  BY <1>5, <1>7, <1>11, <1>13 DEF W, n

\* summarize: each threshold fails for its own reason.
LEMMA ThresholdMembers ==
  /\ "p99" \in ThresholdFailures <=>
       /\ SloP99 # NULL
       /\ LatencySummary(Successful).at[99] = NULL \/ LatencySummary(Successful).at[99] > SloP99
  /\ "errors" \in ThresholdFailures <=> MaxErrorRate # NULL /\ ErrorRateExceeds(MaxErrorRate)
  /\ "drops" \in ThresholdFailures <=> clientBackpressureDrops > 0
  BY DEF ThresholdFailures

\* The verdict and the exit code say what happened in the measured phase.
THEOREM VerdictCorrect == Spec => []VerdictJustified
<1>1. ASSUME IInv, report # NULL
      PROVE  /\ SloP99 # NULL =>
                  ("p99" \in report.failures <=>
                     Successful = <<>> \/ 100 * WithinSlo < 99 * Len(Successful))
             /\ MaxErrorRate # NULL =>
                  ("errors" \in report.failures <=>
                     \/ samples = <<>> /\ MaxErrorRate < 100
                     \/ 100 * (Len(samples) - Len(Successful)) > MaxErrorRate * Len(samples))
             /\ "drops" \in report.failures <=> scheduled > Len(samples)
             /\ exitCode = 2 <=> report.failures # {}
  <2>1. report.failures = ThresholdFailures /\ active = {} /\ (exitCode = 2 <=> ThresholdFailures # {})
    BY <1>1 DEF IInv, Reported, Summarize
  <2>2. /\ samples \in Seq(Samples) /\ Successful \in Seq(Samples)
        /\ Len(Successful) = CountOf("200")
    BY <1>1, SuccessfulType DEF IInv, Flow
  <2>3. ASSUME SloP99 # NULL
        PROVE  "p99" \in ThresholdFailures <=>
                 Successful = <<>> \/ 100 * WithinSlo < 99 * Len(Successful)
    <3> DEFINE v == Ticks(Successful)
               p == LatencySummary(Successful).at[99]
    <3>1. /\ v \in Seq(Nat) /\ Len(v) = Len(Successful)
          /\ \A i \in 1 .. Len(Successful) : v[i] = Successful[i].ticks
          /\ p = Percentile(v, 99)
      <4>1. /\ Ticks(Successful) \in Seq(Nat) /\ Len(Ticks(Successful)) = Len(Successful)
            /\ \A i \in 1 .. Len(Successful) : Ticks(Successful)[i] = Successful[i].ticks
            /\ LatencySummary(Successful).at = [f \in Fractions |-> Percentile(Ticks(Successful), f)]
        BY <2>2, TicksOf
      <4> QED
        BY <4>1 DEF Fractions
    <3>2. "p99" \in ThresholdFailures <=> p = NULL \/ p > SloP99
      BY <2>3, ThresholdMembers
    <3> HIDE DEF v, p
    <3>3. v = <<>> <=> Successful = <<>>
      BY <2>2, <3>1
    <3>4. SloP99 \in Nat /\ NULL \notin Nat
      BY <2>3, ThresholdAssumption, NullAssumption
    <3>5. CASE v = <<>>
      <4>1. p = NULL
        BY <3>1, <3>5 DEF Percentile
      <4> QED
        BY <3>2, <3>3, <3>5, <4>1
    <3>6. CASE v # <<>>
      <4>1. WithinSlo = Cardinality({i \in 1 .. Len(v) : v[i] * TickMicros < 10 * SloP99 + 5})
        <5>1. DOMAIN Successful = 1 .. Len(v)
          BY <2>2, <3>1
        <5>2. {i \in DOMAIN Successful : Successful[i].ticks * TickMicros < 10 * SloP99 + 5}
                = {i \in 1 .. Len(v) : v[i] * TickMicros < 10 * SloP99 + 5}
          BY <3>1, <5>1
        <5> QED
          BY <5>2 DEF WithinSlo, Quantify
      <4>2. p \in Nat /\ (p > SloP99 <=> 100 * WithinSlo < 99 * Len(Successful))
        BY <3>1, <3>4, <3>6, <4>1, SloMissed
      <4> QED
        BY <3>2, <3>3, <3>4, <3>6, <4>2
    <3> QED
      BY <3>5, <3>6
  <2>4. ASSUME MaxErrorRate # NULL
        PROVE  "errors" \in ThresholdFailures <=>
                 \/ samples = <<>> /\ MaxErrorRate < 100
                 \/ 100 * (Len(samples) - Len(Successful)) > MaxErrorRate * Len(samples)
    <3>1. "errors" \in ThresholdFailures <=> ErrorRateExceeds(MaxErrorRate)
      BY <2>4, ThresholdMembers
    <3>2. /\ Len(samples) \in Nat /\ CountOf("200") \in Nat /\ CountOf("503") \in Nat
          /\ CountOf("network") \in Nat /\ CountOf("timeout") \in Nat
          /\ Len(samples) = CountOf("200") + CountOf("503") + CountOf("network") + CountOf("timeout")
      BY <2>2, OutcomesAddUp DEF Outcomes, Statuses
    <3>3. Failures = Len(samples) - Len(Successful) /\ Len(Successful) \in Nat
      BY <2>2, <3>2 DEF Failures
    <3>4. MaxErrorRate \in Nat
      BY <2>4, ThresholdAssumption
    <3>5. CASE samples = <<>>
      <4>1. Len(samples) = 0 /\ Len(Successful) = 0
        BY <2>2, <3>2, <3>5
      <4>2. ~(100 * (Len(samples) - Len(Successful)) > MaxErrorRate * Len(samples))
        BY <3>4, <4>1
      <4> QED
        BY <3>1, <3>5, <4>2 DEF ErrorRateExceeds
    <3>6. CASE samples # <<>>
      BY <3>1, <3>3, <3>6 DEF ErrorRateExceeds
    <3> QED
      BY <3>5, <3>6
  <2>5. "drops" \in ThresholdFailures <=> scheduled > Len(samples)
    <3>1. Cardinality(active) = 0 /\ Len(samples) \in Nat
      BY <2>1, <2>2, FS_EmptySet
    <3>2. scheduled = clientBackpressureDrops + Len(samples) /\ clientBackpressureDrops \in Nat
      BY <1>1, <3>1 DEF IInv, Flow
    <3> QED
      BY <3>1, <3>2, ThresholdMembers
  <2> QED
    BY <2>1, <2>3, <2>4, <2>5
<1>2. IInv => VerdictJustified
  BY <1>1 DEF VerdictJustified
<1> QED
  BY <1>2, Invariance, PTL

-----------------------------------------------------------------------------
(* The command line *)

\* The texts that are refused as a value.
Refused == {"empty", "dashes"}

\* What WellFormed asks of one argument.
Clean(argv, i) ==
  /\ argv[i].key = NULL <=> TakesNext(argv, i - 1)
  /\ argv[i].key # "unknown" /\ argv[i].text \notin Refused
  /\ argv[i].key \in Flags => argv[i].text = NULL

\* The arguments up to m that give a key.
Mentions(argv, key, m) == {i \in 1 .. m : argv[i].key = key}

\* What an argument that gives a key stores for it.
Stored(argv, i) == IF argv[i].key \in Flags THEN "true"
                   ELSE IF TakesNext(argv, i) THEN argv[i + 1].text ELSE argv[i].text

\* What the arguments up to m store for a key.
StoredUpTo(argv, key, m) ==
  IF Mentions(argv, key, m) = {} THEN NULL ELSE Stored(argv, Max(Mentions(argv, key, m)))

\* States of the loop of collectArguments.
LoopStates == [index : Nat, values : Maps \cup {NULL}]

\* The loop is right so far: it threw because the command line is malformed, or
\* what it has passed is well-formed and stored.
LoopOK(argv, n, s) ==
  /\ s \in LoopStates
  /\ s.values = NULL => ~WellFormed(argv)
  /\ s.values # NULL =>
       /\ s.index \in n + 1 .. Len(argv) + 1
       /\ ~TakesNext(argv, s.index - 1)
       /\ \A i \in 1 .. s.index - 1 : Clean(argv, i)
       /\ s.values = [k \in Keys |-> StoredUpTo(argv, k, s.index - 1)]

\* What an argument is made of.
LEMMA ArgumentParts ==
  ASSUME NEW a \in Argument
  PROVE  /\ a.key \in Keys \cup {"unknown", NULL} /\ a.text \in Texts \cup {NULL}
         /\ a.key = NULL => a.text \in Texts
<1>1. {"one", "http"} \subseteq Texts
  BY DEF Texts, Number
<1> QED
  BY <1>1, NullAssumption DEF Argument, Keys

\* The kinds of keys.
LEMMA KeyKinds ==
  /\ NULL \notin Keys /\ "unknown" \notin Keys /\ NULL # "unknown"
  /\ Keys = Flags \cup Options /\ Flags \cap Options = {}
  /\ NULL \notin Texts /\ NULL # "true" /\ NULL \notin Maps /\ NULL \notin Refused
  BY NullAssumption DEF Keys, Flags, Options, Texts, Refused

\* A command line is a sequence of arguments.
LEMMA ArgvParts ==
  ASSUME NEW argv \in Argvs
  PROVE  /\ Len(argv) \in Nat /\ DOMAIN argv = 1 .. Len(argv)
         /\ argv \in [1 .. Len(argv) -> Argument]
<1>1. PICK n \in 0 .. MaxArguments : argv \in [1 .. n -> Argument]
  BY DEF Argvs
<1>2. n \in Nat
  BY BoundsAssumption
<1>3. argv \in Seq(Argument) /\ Len(argv) = n
  BY <1>1, <1>2
<1> QED
  BY <1>1, <1>2, <1>3

\* WellFormed is about each argument and the end.
LEMMA WellFormedParts ==
  ASSUME NEW argv \in Argvs
  PROVE  WellFormed(argv) <=> /\ ~TakesNext(argv, Len(argv))
                              /\ \A i \in 1 .. Len(argv) : Clean(argv, i)
<1>1. DOMAIN argv = 1 .. Len(argv)
  BY ArgvParts
<1>2. WellFormed(argv) <=> /\ ~TakesNext(argv, Len(argv))
                           /\ \A i \in DOMAIN argv : Clean(argv, i)
  BY DEF WellFormed, Clean, Refused
<1> QED
  BY <1>1, <1>2

\* The loop throws only at a malformed command line.
LEMMA ThrowsRightly ==
  ASSUME NEW argv \in Argvs, NEW i \in 1 .. Len(argv), ~TakesNext(argv, i - 1), Throws(argv, i)
  PROVE  ~WellFormed(argv)
<1>1. /\ Len(argv) \in Nat /\ DOMAIN argv = 1 .. Len(argv)
      /\ \A j \in 1 .. Len(argv) : argv[j] \in Argument
  BY ArgvParts
<1> SUFFICES ASSUME WellFormed(argv) PROVE FALSE
  OBVIOUS
<1>2. ~TakesNext(argv, Len(argv)) /\ \A j \in 1 .. Len(argv) : Clean(argv, j)
  BY WellFormedParts
<1>3. argv[i].key \in Keys
  BY <1>1, <1>2, ArgumentParts DEF Clean
<1>4. argv[i].key \in Options /\ TextAt(argv, i) \in Refused
  BY <1>2, <1>3 DEF Throws, InlineValue, Clean, Refused
<1>5. argv[i].text = NULL
  BY <1>2, <1>4 DEF TextAt, InlineValue, Clean
<1>6. TakesNext(argv, i)
  BY <1>1, <1>4, <1>5 DEF TakesNext
<1>7. i # Len(argv)
  BY <1>2, <1>6, Zenon
<1>8. i + 1 \in 1 .. Len(argv)
  <2>1. \A L \in Nat : \A x \in 1 .. L : x # L => x + 1 \in 1 .. L
    OBVIOUS
  <2> QED
    BY <1>1, <1>7, <2>1
<1>9. argv[i + 1].key = NULL
  <2>1. Clean(argv, i + 1) /\ (i + 1) - 1 = i
    BY <1>2, <1>8
  <2> QED
    BY <1>6, <2>1 DEF Clean
<1>10. TextAt(argv, i) = argv[i + 1].text
  BY <1>5, <1>7, <1>9 DEF TextAt, InlineValue
<1> QED
  BY <1>2, <1>4, <1>8, <1>10 DEF Clean


\* What is stored for a key changes only with an argument that gives it.
LEMMA StoredNext ==
  ASSUME NEW argv, NEW m \in Nat, NEW key, argv[m + 1].key # key
  PROVE  StoredUpTo(argv, key, m + 1) = StoredUpTo(argv, key, m)
<1>1. Mentions(argv, key, m + 1) = Mentions(argv, key, m)
  BY DEF Mentions
<1> QED
  BY <1>1 DEF StoredUpTo

\* The last argument that gives a key counts.
LEMMA StoredHere ==
  ASSUME NEW argv, NEW m \in Nat \ {0}
  PROVE  StoredUpTo(argv, argv[m].key, m) = Stored(argv, m)
<1> DEFINE S == Mentions(argv, argv[m].key, m)
<1>1. S \subseteq Int /\ m \in S /\ \A y \in S : m >= y
  BY DEF Mentions
<1> HIDE DEF S
<1>2. Max(S) = m /\ S # {}
  BY <1>1, MaxIs
<1> QED
  BY <1>2 DEF StoredUpTo, S

\* An argument that does not throw is stored, with the next one if it takes it.
LEMMA CollectsRightly ==
  ASSUME NEW argv \in Argvs, NEW i \in 1 .. Len(argv), ~TakesNext(argv, i - 1), ~Throws(argv, i)
  PROVE  LET j == NextIndex(argv, i)
             value == IF argv[i].key \in Flags THEN "true" ELSE TextAt(argv, i)
         IN  /\ j \in i + 1 .. Len(argv) + 1
             /\ ~TakesNext(argv, j - 1)
             /\ \A h \in i .. j - 1 : Clean(argv, h)
             /\ argv[i].key \in Keys /\ value \in Texts \cup {"true"}
             /\ StoredUpTo(argv, argv[i].key, j - 1) = value
             /\ \A k \in Keys : k # argv[i].key =>
                  StoredUpTo(argv, k, j - 1) = StoredUpTo(argv, k, i - 1)
<1> DEFINE j == NextIndex(argv, i)
           key == argv[i].key
           value == IF key \in Flags THEN "true" ELSE TextAt(argv, i)
<1>1. /\ Len(argv) \in Nat /\ DOMAIN argv = 1 .. Len(argv)
      /\ \A h \in 1 .. Len(argv) : argv[h] \in Argument
  BY ArgvParts
<1>2. /\ key \in Keys /\ key # NULL /\ key # "unknown"
      /\ key \in Flags => argv[i].text = NULL /\ key \notin Options
      /\ key \in Options => TextAt(argv, i) \notin Refused /\ key \notin Flags
  BY KeyKinds DEF Throws, InlineValue, Refused
<1>3. i \in Nat /\ i - 1 \in Nat /\ (i - 1) + 1 = i
  BY <1>1
<1>4. \A k : k # key => StoredUpTo(argv, k, i) = StoredUpTo(argv, k, i - 1)
  BY <1>3, StoredNext
<1>5. StoredUpTo(argv, key, i) = Stored(argv, i)
  BY <1>3, StoredHere
<1>6. CASE key \in Options /\ argv[i].text = NULL
  <2>1. i # Len(argv) /\ argv[i + 1].key = NULL /\ TextAt(argv, i) = argv[i + 1].text
    BY <1>2, <1>6 DEF TextAt, InlineValue, Refused
  <2>2. i + 1 \in 1 .. Len(argv) /\ j = i + 2 /\ j - 1 = i + 1 /\ TakesNext(argv, i)
    BY <1>1, <1>6, <2>1 DEF NextIndex, InlineValue, TakesNext
  <2>3. value = argv[i + 1].text /\ value \in Texts /\ value \notin Refused
    BY <1>1, <1>2, <1>6, <2>1, <2>2, ArgumentParts
  <2>4. Clean(argv, i)
    BY <1>2, <1>6, KeyKinds DEF Clean
  <2>5. Clean(argv, i + 1)
    <3>1. (i + 1) - 1 = i
      BY <1>3
    <3> QED
      BY <2>1, <2>2, <2>3, <3>1, KeyKinds DEF Clean
  <2>6. ~TakesNext(argv, i + 1)
    BY <2>1, KeyKinds DEF TakesNext
  <2>7. \A k \in Keys : StoredUpTo(argv, k, i + 1) = StoredUpTo(argv, k, i)
    BY <1>3, <2>1, StoredNext, KeyKinds
  <2>8. Stored(argv, i) = value
    BY <1>2, <1>6, <2>2, <2>3 DEF Stored
  <2>9. \A h \in i .. i + 1 : h = i \/ h = i + 1
    BY <1>3
  <2>10. j \in i + 1 .. Len(argv) + 1
    BY <1>1, <1>3, <2>2
  <2>11. \A h \in i .. j - 1 : Clean(argv, h)
    BY <2>2, <2>4, <2>5, <2>9
  <2>12. StoredUpTo(argv, key, j - 1) = value
    BY <1>2, <1>5, <2>2, <2>7, <2>8
  <2>13. \A k \in Keys : k # key => StoredUpTo(argv, k, j - 1) = StoredUpTo(argv, k, i - 1)
    BY <1>4, <2>2, <2>7
  <2> QED
    BY <1>2, <2>2, <2>3, <2>6, <2>10, <2>11, <2>12, <2>13
<1>7. CASE ~(key \in Options /\ argv[i].text = NULL)
  <2>1. j = i + 1 /\ j - 1 = i /\ ~TakesNext(argv, i)
    BY <1>3, <1>7 DEF NextIndex, InlineValue, TakesNext
  <2>2. key \in Options => argv[i].text # NULL /\ TextAt(argv, i) = argv[i].text
    BY <1>7 DEF TextAt, InlineValue
  <2>3. argv[i].text \notin Refused
    BY <1>2, <2>2, KeyKinds
  <2>4. Clean(argv, i)
    BY <1>2, <2>3 DEF Clean
  <2>5. Stored(argv, i) = value /\ value \in Texts \cup {"true"}
    <3>1. CASE key \in Flags
      BY <3>1 DEF Stored
    <3>2. CASE key \in Options
      BY <1>1, <1>2, <2>1, <2>2, <3>2, ArgumentParts DEF Stored
    <3> QED
      BY <1>2, <3>1, <3>2, KeyKinds
  <2>6. j \in i + 1 .. Len(argv) + 1
    BY <1>1, <1>3, <2>1
  <2>7. \A h \in i .. i : h = i
    BY <1>3
  <2>8. \A h \in i .. j - 1 : Clean(argv, h)
    BY <2>1, <2>4, <2>7
  <2> QED
    BY <1>2, <1>4, <1>5, <2>1, <2>5, <2>6, <2>8
<1> QED
  BY <1>6, <1>7

\* One iteration.
LEMMA IterateOK ==
  ASSUME NEW argv \in Argvs, NEW n \in 1 .. Len(argv), NEW s, LoopOK(argv, n - 1, s)
  PROVE  LoopOK(argv, n, Iterate(argv, s))
<1>1. Len(argv) \in Nat /\ s \in LoopStates
  BY ArgvParts DEF LoopOK
<1>2. CASE s.values = NULL
  BY <1>2 DEF LoopOK, Iterate
<1> SUFFICES ASSUME s.values # NULL PROVE LoopOK(argv, n, Iterate(argv, s))
  BY <1>2
<1> DEFINE i == s.index
<1>3. /\ i \in n .. Len(argv) + 1 /\ ~TakesNext(argv, i - 1)
      /\ \A h \in 1 .. i - 1 : Clean(argv, h)
      /\ s.values = [k \in Keys |-> StoredUpTo(argv, k, i - 1)]
      /\ s.values \in Maps /\ n \in Nat /\ i \in Nat
  BY <1>1 DEF LoopOK, LoopStates
<1>4. CASE i > Len(argv)
  <2>1. Iterate(argv, s) = s
    BY <1>4 DEF Iterate
  <2>2. i \in n + 1 .. Len(argv) + 1
    BY <1>1, <1>3, <1>4
  <2> QED
    BY <1>1, <1>3, <2>1, <2>2 DEF LoopOK
<1>5. CASE ~(i > Len(argv)) /\ Throws(argv, i)
  <2>1. i \in 1 .. Len(argv)
    BY <1>1, <1>3, <1>5
  <2>2. Iterate(argv, s) = [s EXCEPT !.values = NULL]
    BY <1>5 DEF Iterate
  <2>3. [s EXCEPT !.values = NULL] \in LoopStates /\ [s EXCEPT !.values = NULL].values = NULL
    BY <1>1 DEF LoopStates
  <2>4. ~WellFormed(argv)
    BY <1>3, <1>5, <2>1, ThrowsRightly
  <2> QED
    BY <2>2, <2>3, <2>4 DEF LoopOK
<1>6. CASE ~(i > Len(argv)) /\ ~Throws(argv, i)
  <2> DEFINE j == NextIndex(argv, i)
             key == argv[i].key
             value == IF key \in Flags THEN "true" ELSE TextAt(argv, i)
             t == [index |-> j, values |-> [s.values EXCEPT ![key] = value]]
  <2>1. i \in 1 .. Len(argv)
    BY <1>1, <1>3, <1>6
  <2>2. Iterate(argv, s) = t
    BY <1>6 DEF Iterate
  <2>3. /\ j \in i + 1 .. Len(argv) + 1 /\ ~TakesNext(argv, j - 1)
        /\ \A h \in i .. j - 1 : Clean(argv, h)
        /\ key \in Keys /\ value \in Texts \cup {"true"}
        /\ StoredUpTo(argv, key, j - 1) = value
        /\ \A k \in Keys : k # key => StoredUpTo(argv, k, j - 1) = StoredUpTo(argv, k, i - 1)
    BY <1>3, <1>6, <2>1, CollectsRightly
  <2> HIDE DEF j, key, value, i
  <2>4. t.index = j /\ t.values = [s.values EXCEPT ![key] = value]
    OBVIOUS
  <2>5. t.values = [k \in Keys |-> StoredUpTo(argv, k, j - 1)]
    BY <1>3, <2>3, <2>4
  <2>6. t.values \in Maps
    BY <1>3, <2>3, <2>4 DEF Maps
  <2>7. j \in n + 1 .. Len(argv) + 1 /\ j \in Nat
    BY <1>1, <1>3, <2>1, <2>3
  <2>8. \A h \in 1 .. j - 1 : Clean(argv, h)
    <3> SUFFICES ASSUME NEW h \in 1 .. j - 1 PROVE Clean(argv, h)
      OBVIOUS
    <3>1. h \in 1 .. i - 1 \/ h \in i .. j - 1
      BY <1>3, <2>7
    <3> QED
      BY <1>3, <2>3, <3>1
  <2>9. t \in LoopStates
    BY <2>6, <2>7 DEF LoopStates
  <2>10. t.values # NULL
    BY <2>6, KeyKinds
  <2> HIDE DEF t
  <2> QED
    BY <2>2, <2>3, <2>4, <2>5, <2>7, <2>8, <2>9, <2>10 DEF LoopOK
<1> QED
  BY <1>4, <1>5, <1>6

\* Where the loop starts.
LoopStart == [index |-> 1, values |-> [k \in Keys |-> NULL]]

\* f is the loop of collectArguments for n iterations.
LoopFor(argv, n, f) ==
  f = [k \in 0 .. n |-> IF k = 0 THEN LoopStart ELSE Iterate(argv, f[k - 1])]

\* Nothing is passed and nothing is stored at first.
LEMMA LoopStartOK ==
  ASSUME NEW argv \in Argvs
  PROVE  LoopOK(argv, 0, LoopStart)
<1>1. Len(argv) \in Nat /\ DOMAIN argv = 1 .. Len(argv)
  BY ArgvParts
<1>2. LoopStart.index = 1 /\ LoopStart.values = [k \in Keys |-> NULL]
  BY DEF LoopStart
<1>3. [k \in Keys |-> NULL] \in Maps
  BY DEF Maps
<1>4. LoopStart \in LoopStates
  BY <1>3 DEF LoopStart, LoopStates
<1>5. \A k \in Keys : StoredUpTo(argv, k, 1 - 1) = NULL
  BY DEF StoredUpTo, Mentions
<1>6. ~TakesNext(argv, 1 - 1)
  BY <1>1 DEF TakesNext
<1>7. 1 \in 0 + 1 .. Len(argv) + 1 /\ \A i \in 1 .. 1 - 1 : Clean(argv, i)
  BY <1>1
<1>8. LoopStart.values = [k \in Keys |-> StoredUpTo(argv, k, 1 - 1)]
  BY <1>2, <1>5
<1>9. LoopStart.values # NULL
  BY <1>2, <1>3, KeyKinds
<1> QED
  BY <1>2, <1>4, <1>6, <1>7, <1>8, <1>9 DEF LoopOK

\* The loop is defined for every number of iterations.
LEMMA LoopExists ==
  ASSUME NEW argv, NEW N \in Nat
  PROVE  \E f : LoopFor(argv, N, f)
<1> DEFINE P(n) == \E f : LoopFor(argv, n, f)
           S == {n \in 0 .. N : P(n)}
<1>1. 0 \in S
  <2> DEFINE f == [k \in 0 .. 0 |-> LoopStart]
  <2>1. f = [k \in 0 .. 0 |-> IF k = 0 THEN LoopStart ELSE Iterate(argv, f[k - 1])]
    OBVIOUS
  <2>2. LoopFor(argv, 0, f)
    BY <2>1 DEF LoopFor
  <2>3. P(0)
    <3> HIDE DEF f
    <3> QED
      BY <2>2
  <2> QED
    BY <2>3
<1>2. ASSUME NEW n \in 1 .. N, n - 1 \in S PROVE n \in S
  <2>1. PICK f : LoopFor(argv, n - 1, f)
    BY <1>2
  <2> DEFINE h == [k \in 0 .. n |-> IF k = n THEN Iterate(argv, f[n - 1]) ELSE f[k]]
  <2>2. \A k \in 0 .. n - 1 : f[k] = IF k = 0 THEN LoopStart ELSE Iterate(argv, f[k - 1])
    BY <2>1 DEF LoopFor
  <2>3. ASSUME NEW k \in 0 .. n
        PROVE  h[k] = IF k = 0 THEN LoopStart ELSE Iterate(argv, h[k - 1])
    <3>1. CASE k = n
      <4>1. h[k] = Iterate(argv, f[n - 1]) /\ n - 1 \in 0 .. n /\ n - 1 # n /\ k # 0
        BY <3>1
      <4>2. h[n - 1] = f[n - 1]
        BY <4>1
      <4> QED
        BY <3>1, <4>1, <4>2
    <3>2. CASE k # n
      <4>1. k \in 0 .. n - 1 /\ h[k] = f[k]
        BY <3>2
      <4>2. k # 0 => k - 1 \in 0 .. n /\ k - 1 # n
        BY <3>2
      <4>3. k # 0 => h[k - 1] = f[k - 1]
        BY <4>2
      <4> QED
        BY <2>2, <4>1, <4>3
    <3> QED
      BY <3>1, <3>2
  <2>4. h = [k \in 0 .. n |-> h[k]]
    OBVIOUS
  <2> HIDE DEF h
  <2>5. LoopFor(argv, n, h)
    BY <2>3, <2>4 DEF LoopFor
  <2> QED
    BY <2>5
<1> HIDE DEF S
<1>3. N \in S
  <2>1. \A n \in 0 .. N : n \in S
    BY <1>1, <1>2, UpTo
  <2> QED
    BY <2>1
<1> QED
  BY <1>3 DEF S

\* collectArguments: the map of a well-formed command line, or a throw.
LEMMA Collected ==
  ASSUME NEW argv \in Argvs
  PROVE  /\ CollectArguments(argv) =
              IF WellFormed(argv) THEN [k \in Keys |-> StoredUpTo(argv, k, Len(argv))] ELSE NULL
         /\ WellFormed(argv) => CollectArguments(argv) \in Maps \ {NULL}
<1> DEFINE N == Len(argv)
           f == CHOOSE g : LoopFor(argv, N, g)
           S == {n \in 0 .. N : LoopOK(argv, n, f[n])}
<1>1. N \in Nat
  BY ArgvParts
<1>2. LoopFor(argv, N, f)
  <2> HIDE DEF N
  <2> QED
    BY <1>1, LoopExists
<1>3. CollectArguments(argv) = f[N].values
  BY DEF CollectArguments, LoopFor, LoopStart
<1> HIDE DEF f, N
<1>4. \A n \in 0 .. N : f[n] = IF n = 0 THEN LoopStart ELSE Iterate(argv, f[n - 1])
  BY <1>2 DEF LoopFor
<1>5. 0 \in S
  <2>1. f[0] = LoopStart /\ 0 \in 0 .. N
    BY <1>1, <1>4
  <2> QED
    BY <2>1, LoopStartOK
<1>6. ASSUME NEW n \in 1 .. N, n - 1 \in S PROVE n \in S
  <2>1. n \in 0 .. N /\ f[n] = Iterate(argv, f[n - 1])
    BY <1>1, <1>4
  <2>2. LoopOK(argv, n - 1, f[n - 1]) /\ n \in 1 .. Len(argv)
    BY <1>6 DEF N
  <2>3. LoopOK(argv, n, Iterate(argv, f[n - 1]))
    BY <2>2, IterateOK
  <2> QED
    BY <2>1, <2>3
<1>7. LoopOK(argv, N, f[N])
  <2> HIDE DEF S
  <2>1. \A n \in 0 .. N : n \in S
    BY <1>1, <1>5, <1>6, UpTo
  <2>2. N \in S
    BY <1>1, <2>1
  <2> QED
    BY <2>2 DEF S
<1>8. CASE f[N].values = NULL
  BY <1>3, <1>7, <1>8 DEF LoopOK
<1>9. CASE f[N].values # NULL
  <2>1. /\ f[N].index \in N + 1 .. Len(argv) + 1
        /\ ~TakesNext(argv, f[N].index - 1)
        /\ \A i \in 1 .. f[N].index - 1 : Clean(argv, i)
        /\ f[N].values = [k \in Keys |-> StoredUpTo(argv, k, f[N].index - 1)]
    BY <1>7, <1>9 DEF LoopOK
  <2>2. f[N].index - 1 = Len(argv)
    <3>1. Len(argv) \in Nat /\ f[N].index \in Len(argv) + 1 .. Len(argv) + 1
      BY <1>1, <2>1 DEF N
    <3> QED
      BY <3>1
  <2>3. WellFormed(argv)
    BY <2>1, <2>2, WellFormedParts
  <2>4. f[N].values \in Maps
    BY <1>7, <1>9 DEF LoopOK, LoopStates
  <2> QED
    BY <1>3, <1>9, <2>1, <2>2, <2>3, <2>4
<1> QED
  BY <1>8, <1>9

\* Given is what is stored for an option, and Has what is stored for a flag.
LEMMA GivenStored ==
  ASSUME NEW argv \in Argvs
  PROVE  /\ \A k \in Options : Given(argv, k) = StoredUpTo(argv, k, Len(argv))
         /\ \A k \in Flags : Has(argv, k) <=> StoredUpTo(argv, k, Len(argv)) # NULL
<1>1. Len(argv) \in Nat /\ DOMAIN argv = 1 .. Len(argv)
  BY ArgvParts
<1>2. \A k : {i \in DOMAIN argv : argv[i].key = k} = Mentions(argv, k, Len(argv))
  BY <1>1 DEF Mentions
<1>3. ASSUME NEW k, Mentions(argv, k, Len(argv)) # {}
      PROVE  argv[Max(Mentions(argv, k, Len(argv)))].key = k
  <2> DEFINE S == Mentions(argv, k, Len(argv))
  <2>1. S \subseteq 0 .. Len(argv) /\ S # {} /\ \A i \in S : argv[i].key = k
    BY <1>1, <1>3 DEF Mentions
  <2> HIDE DEF S
  <2>2. Max(S) \in S
    BY <1>1, <2>1, Extremes
  <2> QED
    BY <2>1, <2>2 DEF S
<1>4. ASSUME NEW k \in Options PROVE Given(argv, k) = StoredUpTo(argv, k, Len(argv))
  <2>1. k \notin Flags
    BY KeyKinds
  <2>2. CASE Mentions(argv, k, Len(argv)) = {}
    BY <1>2, <2>2 DEF Given, StoredUpTo
  <2>3. CASE Mentions(argv, k, Len(argv)) # {}
    <3> DEFINE m == Max(Mentions(argv, k, Len(argv)))
    <3>1. Given(argv, k) = IF TakesNext(argv, m) THEN argv[m + 1].text ELSE argv[m].text
      BY <1>2, <2>3 DEF Given
    <3>2. argv[m].key = k
      BY <1>3, <2>3
    <3>3. StoredUpTo(argv, k, Len(argv)) = Stored(argv, m)
      BY <2>3 DEF StoredUpTo
    <3> HIDE DEF m
    <3> QED
      BY <2>1, <3>1, <3>2, <3>3 DEF Stored
  <2> QED
    BY <2>2, <2>3
<1>5. ASSUME NEW k \in Flags
      PROVE  Has(argv, k) <=> StoredUpTo(argv, k, Len(argv)) # NULL
  <2>1. Has(argv, k) <=> Mentions(argv, k, Len(argv)) # {}
    BY <1>1 DEF Has, Mentions
  <2>2. CASE Mentions(argv, k, Len(argv)) = {}
    BY <2>1, <2>2 DEF StoredUpTo
  <2>3. CASE Mentions(argv, k, Len(argv)) # {}
    <3>1. StoredUpTo(argv, k, Len(argv)) = "true"
      BY <1>3, <2>3 DEF StoredUpTo, Stored
    <3> QED
      BY <2>1, <2>3, <3>1, KeyKinds
  <2> QED
    BY <2>2, <2>3
<1> QED
  BY <1>4, <1>5

\* The numbers that texts are.
LEMMA Numbers ==
  /\ DOMAIN Number = {"zero", "one", "onePointFive"}
  /\ Number["zero"] = 0 /\ Number["one"] = 10 /\ Number["onePointFive"] = 15
  /\ Most = 15
<1> DEFINE S == {Number[t] : t \in DOMAIN Number}
<1>1. /\ DOMAIN Number = {"zero", "one", "onePointFive"}
      /\ Number["zero"] = 0 /\ Number["one"] = 10 /\ Number["onePointFive"] = 15
  BY DEF Number
<1>2. S = {0, 10, 15}
  BY <1>1
<1> HIDE DEF S
<1>3. S \subseteq Int /\ 15 \in S /\ \A y \in S : 15 >= y
  BY <1>2
<1>4. Max(S) = 15
  BY <1>3, MaxIs
<1> QED
  BY <1>1, <1>4 DEF Most, S

\* parseArgs returns what the command line and the environment ask for.
LEMMA ParsedAsRequested ==
  ASSUME NEW argv \in Argvs, NEW environment \in Environments
  PROVE  ParseArgs(argv, environment) = Requested(argv, environment)
<1> DEFINE values == CollectArguments(argv)
<1>1. CASE ~WellFormed(argv)
  <2>1. values = NULL
    BY <1>1, Collected
  <2> QED
    BY <1>1, <2>1 DEF ParseArgs, Requested
<1>2. CASE WellFormed(argv)
  <2> DEFINE m == [k \in Keys |-> StoredUpTo(argv, k, Len(argv))]
             u == Given(argv, "url")
             c == Given(argv, "concurrency")
             e == Given(argv, "max-error-rate")
  <2>1. values = m
    BY <1>2, Collected
  <2>2. /\ m["url"] = u /\ m["concurrency"] = c /\ m["max-error-rate"] = e
        /\ m["help"] # NULL <=> Has(argv, "help")
        /\ m["json"] # NULL <=> Has(argv, "json")
    BY GivenStored DEF Keys, Flags, Options
  <2>3. values # NULL /\ values \in Maps
    BY <1>2, Collected
  <2>4. OutOfRange(values, "max-error-rate", 0 .. 10) <=> e \notin {NULL, "zero", "one"}
    BY <2>1, <2>2, Numbers, KeyKinds DEF OutOfRange, Texts
  <2>5. OutOfRange(values, "concurrency", 10 .. Most) <=> c \notin {NULL, "one", "onePointFive"}
    BY <2>1, <2>2, Numbers, KeyKinds DEF OutOfRange, Texts
  <2>6. c \in {NULL, "one", "onePointFive"} =>
          ReadNumber(values, "concurrency", 100) \div 10 = IF c = NULL THEN 10 ELSE 1
    BY <2>1, <2>2, Numbers DEF ReadNumber
  <2>7. e \in {NULL, "zero", "one"} =>
          ReadNumber(values, "max-error-rate", NULL) =
            IF e = NULL THEN NULL ELSE IF e = "zero" THEN 0 ELSE 10
    BY <2>1, <2>2, Numbers DEF ReadNumber
  <2>8. (values["help"] # NULL <=> Has(argv, "help")) /\ (values["json"] # NULL) = Has(argv, "json")
    BY <2>1, <2>2 DEF Has
  <2>9. u # "localhost"
    <3>1. "url" \in Keys /\ values["url"] = u
      BY <2>1, <2>2 DEF Keys, Options
    <3>2. u \in Texts \cup {"true", NULL}
      BY <2>3, <3>1 DEF Maps
    <3> QED
      BY <3>2, Numbers, NullAssumption DEF Texts, DefaultUrl
  <2>10. Url(values, environment) \notin HttpUrls <=>
           u \notin {NULL, "http"} \/ (u = NULL /\ environment = "empty")
    BY <2>1, <2>2, <2>9, KeyKinds DEF Url, HttpUrls, DefaultUrl, Environments, Texts, Number
  <2>11. Url(values, environment) \in HttpUrls =>
           Url(values, environment) = IF u = NULL /\ environment = NULL THEN "localhost" ELSE "http"
    BY <2>1, <2>2, <2>9, KeyKinds DEF Url, HttpUrls, DefaultUrl, Environments, Texts, Number
  <2> HIDE DEF values, u, c, e
  <2>12. ParseArgs(argv, environment) =
          IF values["help"] # NULL THEN [help |-> TRUE]
          ELSE IF \/ Url(values, environment) \notin HttpUrls
                  \/ OutOfRange(values, "max-error-rate", 0 .. 10)
                  \/ OutOfRange(values, "concurrency", 10 .. Most)
            THEN NULL
          ELSE [url          |-> Url(values, environment),
                concurrency  |-> ReadNumber(values, "concurrency", 100) \div 10,
                maxErrorRate |-> ReadNumber(values, "max-error-rate", NULL),
                json         |-> values["json"] # NULL]
    BY <2>3 DEF ParseArgs, values
  <2>13. Requested(argv, environment) =
           IF Has(argv, "help") THEN [help |-> TRUE]
           ELSE IF \/ u \notin {NULL, "http"} \/ (u = NULL /\ environment = "empty")
                   \/ c \notin {NULL, "one", "onePointFive"}
                   \/ e \notin {NULL, "zero", "one"}
             THEN NULL
           ELSE [url          |-> IF u = NULL /\ environment = NULL THEN "localhost" ELSE "http",
                 concurrency  |-> IF c = NULL THEN 10 ELSE 1,
                 maxErrorRate |-> IF e = NULL THEN NULL ELSE IF e = "zero" THEN 0 ELSE 10,
                 json         |-> Has(argv, "json")]
    BY <1>2 DEF Requested, u, c, e
  <2> QED
    BY <2>4, <2>5, <2>6, <2>7, <2>8, <2>10, <2>11, <2>12, <2>13
<1> QED
  BY <1>1, <1>2

\* Whatever the command line and the environment are, parseArgs takes exactly
\* the well-formed ones with an HTTP(S) URL and numbers in range, and runs what
\* they ask for; of an inline value only what comes before a second = counts.
THEOREM CommandLineParsed == Spec => []CommandLineHonoured
<1>1. CommandLineHonoured
  BY ParsedAsRequested DEF CommandLineHonoured
<1> QED
  BY <1>1, PTL

=============================================================================
