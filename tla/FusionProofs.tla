---------------------------- MODULE FusionProofs ----------------------------
(***************************************************************************)
(* Proofs about routing, the KV index, the rate windows and the fusion     *)
(* workflow, for every set of deployments, calls and loads, every panel,   *)
(* every number of buckets and every capacity of the index.                *)
(***************************************************************************)
EXTENDS Fusion, SumTheorems

-----------------------------------------------------------------------------
(* Remainders. *)

LEMMA ModDef ==
    ASSUME NEW N \in Nat \ {0}, NEW a \in Int
    PROVE  a = N * (a \div N) + (a % N) /\ a \div N \in Int /\ a % N \in 0 .. N - 1
BY SMT

LEMMA ModOf ==
    ASSUME NEW N \in Nat \ {0}, NEW k \in Int, NEW r \in 0 .. N - 1
    PROVE  (N * k + r) % N = r
BY SMT

LEMMA MulAtLeast ==
    ASSUME NEW N \in Nat \ {0}, NEW j \in Int, NEW k \in Int, j >= k + 1
    PROVE  N * j >= N * k + N /\ N * j \in Int /\ N * k \in Int
<1>1. N * (j - k) >= N /\ N * (j - k) = N * j - N * k /\ N * j \in Int /\ N * k \in Int
  BY SMT
<1> QED
  BY <1>1

\* One lap further is the same bucket ...
LEMMA ModShift ==
    ASSUME NEW N \in Nat \ {0}, NEW a \in Int
    PROVE  (a + N) % N = a % N
<1>1. PICK k \in Int, r \in 0 .. N - 1 : a = N * k + r
  BY ModDef
<1>2. a + N = N * (k + 1) + r
  BY <1>1
<1>3. (a + N) % N = r
  BY <1>2, ModOf, k + 1 \in Int
<1>4. a % N = r
  BY <1>1, ModOf
<1> QED
  BY <1>3, <1>4

\* ... and two minutes of one lap have different ones.
LEMMA ModUnique ==
    ASSUME NEW N \in Nat \ {0}, NEW a \in Int, NEW b \in Int, a <= b, b < a + N, a % N = b % N
    PROVE  a = b
<1>1. PICK k \in Int, r \in 0 .. N - 1 : a = N * k + r /\ a % N = r
  BY ModDef
<1>2. PICK j \in Int : b = N * j + r
  BY <1>1, ModDef
<1>3. CASE j >= k + 1
  BY <1>1, <1>2, <1>3, MulAtLeast
<1>4. CASE k >= j + 1
  BY <1>1, <1>2, <1>4, MulAtLeast
<1>5. CASE j = k
  BY <1>1, <1>2, <1>5
<1> QED
  BY <1>3, <1>4, <1>5

-----------------------------------------------------------------------------
(***************************************************************************)
(* The rate windows.  A ring is faithful to a history when its buckets     *)
(* hold what was recorded in the lap that begins at its start, and nothing *)
(* was recorded after that lap.                                            *)
(***************************************************************************)
Ring == [start : Nat, buckets : [Slots -> Nat]]

Faithful(ring, hist) ==
    /\ \A m \in ring.start .. ring.start + NumBuckets - 1 : ring.buckets[m % NumBuckets] = hist[m]
    /\ \A m \in ring.start + NumBuckets .. MaxMinute : hist[m] = 0

RateInv ==
    /\ minute \in NumBuckets .. MaxMinute
    /\ rings \in [Rings -> Ring]
    /\ served \in [Rings -> [0 .. MaxMinute -> Nat]]
    /\ \A r \in Rings : /\ rings[r].start + NumBuckets - 1 <= minute
                        /\ Faithful(rings[r], served[r])

LEMMA SlotOf ==
    ASSUME NEW m \in Nat
    PROVE  m % NumBuckets \in Slots
<1>1. m \in Int /\ NumBuckets \in Nat \ {0}
  BY RateAssumption
<1>2. m % NumBuckets \in 0 .. NumBuckets - 1
  BY <1>1, ModDef
<1> QED
  BY <1>2 DEF Slots

\* advance_to clears exactly the buckets of the minutes that left the window.
LEMMA AdvanceFaithful ==
    ASSUME NEW ring \in Ring, NEW hist \in [0 .. MaxMinute -> Nat], Faithful(ring, hist),
           NEW target \in NumBuckets .. MaxMinute, ring.start + NumBuckets - 1 <= target
    PROVE  /\ AdvanceTo(ring, target) \in Ring
           /\ AdvanceTo(ring, target).start = target - (NumBuckets - 1)
           /\ Faithful(AdvanceTo(ring, target), hist)
<1> DEFINE new == target - (NumBuckets - 1)
           now == AdvanceTo(ring, target)
           gap == new - ring.start
           Cleared(i) == gap >= NumBuckets \/ \E m \in ring.start .. new - 1 : m % NumBuckets = i
<1>0. /\ NumBuckets \in Nat \ {0} /\ MaxMinute \in Nat /\ new \in Nat /\ ring.start \in Nat
      /\ ring.start <= new /\ new + NumBuckets - 1 = target /\ target <= MaxMinute
      /\ ring.buckets \in [Slots -> Nat]
  BY RateAssumption DEF Ring
<1>1. CASE new <= ring.start
  <2>1. now = ring /\ ring.start = new
    BY <1>0, <1>1 DEF AdvanceTo
  <2> QED
    BY <2>1
<1>2. CASE ~(new <= ring.start)
  <2>1. now = [start |-> new, buckets |-> [i \in Slots |-> IF Cleared(i) THEN 0 ELSE ring.buckets[i]]]
    BY <1>2 DEF AdvanceTo
  <2>2. now \in Ring /\ now.start = new
    BY <1>0, <2>1 DEF Ring
  <2>4. ASSUME NEW m \in new .. new + NumBuckets - 1
        PROVE  now.buckets[m % NumBuckets] = hist[m]
    <3>a. m \in Nat /\ m \in 0 .. MaxMinute
      BY <1>0
    <3>0. m \in Nat /\ m \in 0 .. MaxMinute /\ m % NumBuckets \in Slots
      BY <3>a, SlotOf
    <3>1. now.buckets[m % NumBuckets] = IF Cleared(m % NumBuckets) THEN 0 ELSE ring.buckets[m % NumBuckets]
      BY <2>1, <3>0
    <3>2. CASE m <= ring.start + NumBuckets - 1
      <4>1. ring.buckets[m % NumBuckets] = hist[m]
        <5>1. m \in ring.start .. ring.start + NumBuckets - 1
          BY <1>0, <3>0, <3>2
        <5> QED
          BY <5>1 DEF Faithful
      <4>2. ~(gap >= NumBuckets)
        BY <1>0, <3>2
      <4>3. ASSUME NEW j \in ring.start .. new - 1, j % NumBuckets = m % NumBuckets PROVE FALSE
        <5>1. j \in Int /\ m \in Int /\ j <= m /\ m < j + NumBuckets /\ j # m
          BY <1>0, <3>0, <3>2
        <5> QED
          BY <1>0, <4>3, <5>1, ModUnique
      <4> QED
        BY <3>1, <4>1, <4>2, <4>3
    <3>3. CASE ~(m <= ring.start + NumBuckets - 1)
      <4>1. hist[m] = 0
        BY <1>0, <3>0, <3>3 DEF Faithful
      <4>2. m - NumBuckets \in ring.start .. new - 1
        BY <1>0, <3>0, <3>3
      <4>3. (m - NumBuckets) % NumBuckets = m % NumBuckets
        <5>1. m - NumBuckets \in Int /\ (m - NumBuckets) + NumBuckets = m
          BY <1>0, <3>0
        <5> QED
          BY <1>0, <5>1, ModShift
      <4>4. Cleared(m % NumBuckets)
        BY <4>2, <4>3
      <4> QED
        BY <3>1, <4>1, <4>4
    <3> QED
      BY <3>2, <3>3
  <2>5. \A m \in new + NumBuckets .. MaxMinute : hist[m] = 0
    BY <1>0, <1>2 DEF Faithful
  <2> HIDE DEF now
  <2>6. Faithful(now, hist)
    BY <2>2, <2>4, <2>5 DEF Faithful
  <2> QED
    BY <2>2, <2>6 DEF now
<1> QED
  BY <1>1, <1>2

\* The newest bucket is its own.
LEMMA RecordFaithful ==
    ASSUME RateInv, NEW r \in Rings
    PROVE  /\ Recorded(rings[r]) \in Ring
           /\ Recorded(rings[r]).start = minute - (NumBuckets - 1)
           /\ Faithful(Recorded(rings[r]), [served[r] EXCEPT ![minute] = @ + 1])
<1> DEFINE now == AdvanceTo(rings[r], minute)
           then == Recorded(rings[r])
           hist == served[r]
           told == [hist EXCEPT ![minute] = @ + 1]
           s == minute % NumBuckets
<1>0. /\ NumBuckets \in Nat \ {0} /\ MaxMinute \in Nat /\ minute \in NumBuckets .. MaxMinute
      /\ minute \in Nat /\ minute \in 0 .. MaxMinute
      /\ hist \in [0 .. MaxMinute -> Nat] /\ rings[r] \in Ring
      /\ rings[r].start + NumBuckets - 1 <= minute /\ Faithful(rings[r], hist)
  BY RateAssumption DEF RateInv
<1>1. now \in Ring /\ now.start = minute - (NumBuckets - 1) /\ Faithful(now, hist)
  BY <1>0, AdvanceFaithful
<1>2. s \in Slots
  BY <1>0, SlotOf
<1>3. then = [now EXCEPT !.buckets[s] = @ + 1]
  BY DEF Recorded
<1>4. now.start \in Nat /\ now.buckets \in [Slots -> Nat]
  BY <1>1 DEF Ring
<1> HIDE DEF now, then, s
<1>5. /\ then \in Ring /\ then.start = now.start
      /\ then.buckets[s] = now.buckets[s] + 1
      /\ \A i \in Slots : i # s => then.buckets[i] = now.buckets[i]
  BY <1>1, <1>2, <1>3 DEF Ring
<1>6. ASSUME NEW m \in then.start .. then.start + NumBuckets - 1
      PROVE  then.buckets[m % NumBuckets] = told[m]
  <2>1. m \in Nat /\ m \in 0 .. MaxMinute /\ m <= minute /\ minute < m + NumBuckets
    BY <1>0, <1>1, <1>4, <1>5
  <2>2. now.buckets[m % NumBuckets] = hist[m] /\ m % NumBuckets \in Slots
    BY <1>1, <1>5, <2>1, SlotOf DEF Faithful
  <2>3. CASE m = minute
    BY <1>0, <1>5, <2>2, <2>3 DEF s
  <2>4. CASE m # minute
    <3>1. m % NumBuckets # minute % NumBuckets
      <4>1. m \in Int /\ minute \in Int
        BY <1>0, <2>1
      <4> QED
        BY <1>0, <2>1, <2>4, <4>1, ModUnique
    <3>2. told[m] = hist[m]
      BY <1>0, <2>1, <2>4
    <3> QED
      BY <1>5, <2>2, <3>1, <3>2 DEF s
  <2> QED
    BY <2>3, <2>4
<1>7. ASSUME NEW m \in then.start + NumBuckets .. MaxMinute
      PROVE  told[m] = 0
  <2>1. m \in 0 .. MaxMinute /\ m # minute /\ m \in now.start + NumBuckets .. MaxMinute
    BY <1>0, <1>1, <1>4, <1>5
  <2>2. hist[m] = 0
    BY <1>1, <2>1 DEF Faithful
  <2> QED
    BY <1>0, <2>1, <2>2
<1>8. Faithful(then, told)
  BY <1>6, <1>7 DEF Faithful
<1> QED
  BY <1>1, <1>5, <1>8 DEF then

LEMMA RateStart == RateInit => RateInv
<1> SUFFICES ASSUME RateInit PROVE RateInv
  OBVIOUS
<1>0. /\ NumBuckets \in Nat \ {0} /\ MaxMinute \in Nat /\ minute = NumBuckets /\ MaxMinute >= NumBuckets
  BY RateAssumption DEF RateInit
<1>1. NewRing \in Ring /\ NewRing.start = 1 /\ \A i \in Slots : NewRing.buckets[i] = 0
  BY <1>0 DEF NewRing, Ring
<1>2. rings \in [Rings -> Ring] /\ \A r \in Rings : rings[r] = NewRing
  BY <1>1 DEF RateInit
<1>3. /\ served \in [Rings -> [0 .. MaxMinute -> Nat]]
      /\ \A r \in Rings : \A m \in 0 .. MaxMinute : served[r][m] = 0
  BY DEF RateInit
<1>4. ASSUME NEW r \in Rings PROVE Faithful(rings[r], served[r])
  <2>1. ASSUME NEW m \in 1 .. NumBuckets PROVE rings[r].buckets[m % NumBuckets] = served[r][m]
    <3>1. m \in Nat /\ m \in 0 .. MaxMinute
      BY <1>0
    <3> QED
      BY <1>1, <1>2, <1>3, <3>1, SlotOf
  <2>2. \A m \in 1 + NumBuckets .. MaxMinute : served[r][m] = 0
    BY <1>0, <1>3
  <2>3. rings[r].start = 1 /\ 1 + NumBuckets - 1 = NumBuckets
    BY <1>0, <1>1, <1>2
  <2> QED
    BY <2>1, <2>2, <2>3 DEF Faithful
<1>5. minute \in NumBuckets .. MaxMinute /\ \A r \in Rings : rings[r].start + NumBuckets - 1 <= minute
  BY <1>0, <1>1, <1>2
<1> QED
  BY <1>2, <1>3, <1>4, <1>5 DEF RateInv

\* Everything that touches the rings keeps them faithful.
LEMMA RateStep ==
    ASSUME RateInv,
           \/ \E S : RecordIn(S)
           \/ \E r \in Rings : TakeSnapshot(r)
           \/ \E n \in {1, NumBuckets + 1} : MinutesPass(n)
           \/ UNCHANGED rateVars
    PROVE  RateInv'
<1>0. /\ NumBuckets \in Nat \ {0} /\ MaxMinute \in Nat /\ minute \in NumBuckets .. MaxMinute
      /\ rings \in [Rings -> Ring] /\ served \in [Rings -> [0 .. MaxMinute -> Nat]]
  BY RateAssumption DEF RateInv
<1>1. ASSUME NEW S, RecordIn(S) PROVE RateInv'
  <2>1. /\ rings' = [r \in Rings |-> IF r \in S THEN Recorded(rings[r]) ELSE rings[r]]
        /\ served' = [r \in Rings |-> IF r \in S THEN [served[r] EXCEPT ![minute] = @ + 1] ELSE served[r]]
        /\ minute' = minute
    BY <1>1 DEF RecordIn
  <2>a. \A r \in Rings : /\ Recorded(rings[r]) \in Ring
                          /\ Recorded(rings[r]).start = minute - (NumBuckets - 1)
                          /\ Faithful(Recorded(rings[r]), [served[r] EXCEPT ![minute] = @ + 1])
    BY RecordFaithful
  <2>b. \A r \in Rings : /\ rings[r] \in Ring /\ rings[r].start + NumBuckets - 1 <= minute
                          /\ Faithful(rings[r], served[r])
    BY DEF RateInv
  <2>c. (minute - (NumBuckets - 1)) + NumBuckets - 1 <= minute
    BY <1>0
  <2>2. \A r \in Rings : rings'[r] \in Ring /\ rings'[r].start + NumBuckets - 1 <= minute
    BY <2>1, <2>a, <2>b, <2>c
  <2>3. \A r \in Rings : Faithful(rings'[r], served'[r])
    BY <2>1, <2>a, <2>b
  <2>4. rings' \in [Rings -> Ring]
    BY <2>1, <2>2
  <2>5. served' \in [Rings -> [0 .. MaxMinute -> Nat]]
    BY <1>0, <2>1
  <2> QED
    BY <1>0, <2>1, <2>2, <2>3, <2>4, <2>5 DEF RateInv
<1>2. ASSUME NEW q \in Rings, TakeSnapshot(q) PROVE RateInv'
  <2>1. rings' = [rings EXCEPT ![q] = AdvanceTo(@, minute)] /\ UNCHANGED <<minute, served>>
    BY <1>2 DEF TakeSnapshot
  <2>2. /\ AdvanceTo(rings[q], minute) \in Ring
        /\ AdvanceTo(rings[q], minute).start = minute - (NumBuckets - 1)
        /\ Faithful(AdvanceTo(rings[q], minute), served[q])
    BY <1>0, AdvanceFaithful DEF RateInv
  <2>3. AdvanceTo(rings[q], minute).start + NumBuckets - 1 <= minute
    BY <1>0, <2>2
  <2>4. rings' \in [Rings -> Ring]
    BY <1>0, <2>1, <2>2
  <2>5. \A r \in Rings : rings'[r] = IF r = q THEN AdvanceTo(rings[q], minute) ELSE rings[r]
    BY <1>0, <2>1
  <2> QED
    BY <2>1, <2>2, <2>3, <2>4, <2>5 DEF RateInv
<1>3. ASSUME NEW n \in {1, NumBuckets + 1}, MinutesPass(n) PROVE RateInv'
  <2>1. n \in Nat /\ minute' = minute + n /\ minute + n <= MaxMinute /\ UNCHANGED <<rings, served>>
    BY <1>0, <1>3 DEF MinutesPass
  <2>2. minute' \in NumBuckets .. MaxMinute /\ minute <= minute'
    BY <1>0, <2>1
  <2>3. \A r \in Rings : rings[r].start \in Nat
    BY <1>0 DEF Ring
  <2>4. \A r \in Rings : rings[r].start + NumBuckets - 1 <= minute'
    BY <1>0, <2>2, <2>3 DEF RateInv
  <2> QED
    BY <2>1, <2>2, <2>4 DEF RateInv
<1>4. CASE UNCHANGED rateVars
  BY <1>4 DEF rateVars, RateInv
<1> QED
  BY <1>1, <1>2, <1>3, <1>4

LEMMA RateExact == RateInv => RateWindowExact
<1> SUFFICES ASSUME RateInv, NEW r \in Rings
             PROVE  Snapshot(rings[r]) = [i \in 1 .. NumBuckets |-> served[r][minute - NumBuckets + i]]
  BY DEF RateWindowExact
<1> DEFINE now == AdvanceTo(rings[r], minute)
<1>0. NumBuckets \in Nat \ {0} /\ minute \in NumBuckets .. MaxMinute /\ minute \in Nat
  BY RateAssumption DEF RateInv
<1>1. now.start = minute - (NumBuckets - 1) /\ Faithful(now, served[r])
  BY <1>0, AdvanceFaithful DEF RateInv
<1>2. ASSUME NEW i \in 1 .. NumBuckets
      PROVE  now.buckets[(minute - NumBuckets + i) % NumBuckets] = served[r][minute - NumBuckets + i]
  <2>1. minute - NumBuckets + i \in now.start .. now.start + NumBuckets - 1
    BY <1>0, <1>1
  <2> QED
    BY <1>1, <2>1 DEF Faithful
<1> QED
  BY <1>2 DEF Snapshot

\* A step of the system touches the rings through these operations only.
LEMMA RingsOnlyBy ==
    ASSUME [Next]_vars
    PROVE  \/ \E S : RecordIn(S)
           \/ \E r \in Rings : TakeSnapshot(r)
           \/ \E n \in {1, NumBuckets + 1} : MinutesPass(n)
           \/ UNCHANGED rateVars
<1>1. ASSUME NEW c, NEW k, NEW p, StartCall(c, k, p) PROVE UNCHANGED rateVars
  BY <1>1 DEF StartCall
<1>2. ASSUME NEW c, CallFails(c) PROVE UNCHANGED rateVars
  BY <1>2 DEF CallFails
<1>3. ASSUME NEW c \in Calls, RequestStep(c) PROVE (\E S : RecordIn(S)) \/ UNCHANGED rateVars
  <2>1. CASE RequestAnswered(c)
    BY <2>1 DEF RequestAnswered
  <2>2. CASE Choose(c) \/ RecordDone(c) \/ AcquireSlot(c) \/ SlotGranted(c)
    BY <2>2 DEF Choose, Decide, Prefer, ReadOwnLoad, ReadLoad, DecideAffinity, DecideKvc, AllOverloaded,
                DecideLowest, ChooseKvc, RecordDone, AcquireSlot, SlotGranted
  <2> QED
    BY <1>1, <1>2, <1>3, <2>1, <2>2 DEF RequestStep
<1>4. ASSUME NEW c \in Children, PanelStep(c) PROVE (\E S : RecordIn(S)) \/ UNCHANGED rateVars
  <2>1. ASSUME NEW p, PanelStarts(c, p) PROVE UNCHANGED rateVars
    BY <1>1, <2>1 DEF PanelStarts
  <2>2. ASSUME NEW u, NEW o, PanelReplies(c, u, o) PROVE \E S : RecordIn(S)
    BY <2>2 DEF PanelReplies
  <2>3. CASE ChildFails(c)
    BY <1>2, <2>3 DEF ChildFails
  <2> QED
    BY <1>4, <2>1, <2>2, <2>3 DEF PanelStep
<1>5. CASE AggregatorStep
  <2>1. ASSUME NEW p, AggregatorStarts(p) PROVE UNCHANGED rateVars
    BY <1>1, <2>1 DEF AggregatorStarts
  <2>2. ASSUME NEW u, AggregatorReplies(u) PROVE \E S : RecordIn(S)
    BY <2>2 DEF AggregatorReplies
  <2>3. ASSUME NEW u, StreamUsage(u) PROVE UNCHANGED rateVars
    BY <2>3 DEF StreamUsage, IndexAndRates
  <2>4. CASE FallBack \/ StreamStarts
    BY <2>4 DEF FallBack, StreamStarts
  <2>5. CASE NoteUsage \/ ReplayFinishes \/ ForwardEnds \/ StreamStops \/ ReceiverDropped
    BY <2>5 DEF NoteUsage, ReplayFinishes, ForwardEnds, Forwarded, StreamStops, ReceiverDropped, IndexAndRates
  <2> QED
    BY <1>5, <2>1, <2>2, <2>3, <2>4, <2>5 DEF AggregatorStep
<1>6. CASE Background
  <2>1. CASE IndexStep
    BY <2>1 DEF IndexStep
  <2>2. ASSUME NEW p, SwapPolicy(p) PROVE UNCHANGED rateVars
    BY <2>2 DEF SwapPolicy
  <2> QED
    BY <1>6, <2>1, <2>2 DEF Background
<1>7. CASE FusionArrives \/ PanelDone \/ ClientLeaves
  BY <1>7 DEF FusionArrives, PanelDone, ClientLeaves, IndexAndRates
<1>8. CASE UNCHANGED vars
  BY <1>8 DEF vars
<1> QED
  BY <1>3, <1>4, <1>5, <1>6, <1>7, <1>8 DEF Next

\* A snapshot of a rate window always shows exactly what was recorded in the last
\* NumBuckets minutes (RebalanceCounter, RequestRateTracker, AgentStatsTracker:
\* record, snapshot, advance_to), whatever records, snapshots and silences came
\* before, for every number of buckets.
THEOREM RateWindowsStayExact == Spec => []RateWindowExact
<1>1. Init => RateInv
  BY RateStart DEF Init
<1>2. RateInv /\ [Next]_vars => RateInv'
  BY RateStep, RingsOnlyBy
<1>3. RateInv => RateWindowExact
  BY RateExact
<1> QED
  BY <1>1, <1>2, <1>3, PTL DEF Spec

-----------------------------------------------------------------------------
(***************************************************************************)
(* Choices.                                                                *)
(***************************************************************************)
LEMMA MinIn ==
    ASSUME NEW S, IsFiniteSet(S), S # {}, S \subseteq Int
    PROVE  Min(S) \in S
BY LeastNumber DEF Min

\* A finite set of numbers has one that has exactly k others below it.
LEMMA NthIn ==
    ASSUME NEW S, IsFiniteSet(S), S \subseteq Int, NEW k \in 0 .. Cardinality(S) - 1
    PROVE  Nth(S, k) \in S
<1> DEFINE Good(s) == \A n \in 0 .. Cardinality(s) - 1 : \E j \in s : Cardinality({i \in s : i < j}) = n
           T == {s \in SUBSET S : ~Good(s)}
<1>0. IsFiniteSet(S)
  OBVIOUS
<1>1. SUFFICES T = {}
  BY DEF Nth
<1>2. SUFFICES ASSUME T # {} PROVE FALSE
  OBVIOUS
<1>3. PICK s \in T : \A t \in T : t \subseteq s => t = s
  <2>1. T \in SUBSET (SUBSET S)
    OBVIOUS
  <2> HIDE DEF T
  <2> QED
    BY ONLY <1>0, <1>2, <2>1, SmallestSet
<1>4. IsFiniteSet(s) /\ Cardinality(s) \in Nat /\ s \subseteq Int
  BY FS_Subset, FS_CardinalityType
<1>5. PICK n \in 0 .. Cardinality(s) - 1 : ~ \E j \in s : Cardinality({i \in s : i < j}) = n
  OBVIOUS
<1>6. s # {}
  BY <1>4, <1>5, FS_EmptySet
<1>7. PICK m \in s : \A i \in s : i <= m
  <2> DEFINE f == [i \in s |-> 0 - i]
  <2>1. \A i \in s : f[i] = 0 - i /\ f[i] \in Int
    BY <1>4
  <2> HIDE DEF f
  <2>2. PICK m \in s : \A i \in s : f[m] <= f[i]
    BY <1>4, <1>6, <2>1, LeastAt
  <2> QED
    BY <1>4, <2>1, <2>2
<1> DEFINE r == s \ {m}
<1>8. IsFiniteSet(r) /\ Cardinality(r) = Cardinality(s) - 1 /\ Cardinality(r) \in Nat
  BY <1>4, <1>7, FS_RemoveElement, FS_CardinalityType
<1>9. Good(r)
  <2>1. r \in SUBSET S /\ r \notin T
    BY <1>3, <1>7
  <2> QED
    BY <2>1
<1>10. CASE n = Cardinality(s) - 1
  <2>1. {i \in s : i < m} = r
    <3>1. \A i \in s : i < m <=> i # m
      BY <1>4, <1>7
    <3> QED
      BY <3>1
  <2> QED
    BY <1>5, <1>7, <1>8, <1>10, <2>1
<1>11. CASE n # Cardinality(s) - 1
  <2>1. n \in 0 .. Cardinality(r) - 1
    BY <1>4, <1>8, <1>11
  <2>2. PICK j \in r : Cardinality({i \in r : i < j}) = n
    BY <1>9, <2>1
  <2>3. {i \in s : i < j} = {i \in r : i < j}
    BY <1>4, <1>7
  <2> QED
    BY <1>5, <2>2, <2>3
<1> QED
  BY <1>10, <1>11

LEMMA Constants ==
    /\ Deps \in Seq(Workers) /\ Workers = {Deps[i] : i \in DOMAIN Deps} /\ Workers # {}
    /\ IsFiniteSet(DOMAIN Deps) /\ DOMAIN Deps \subseteq Nat /\ DOMAIN Deps # {}
    /\ DOMAIN Deps = 1 .. Len(Deps) /\ Len(Deps) \in Nat
    /\ Cap \in [Workers -> Nat] /\ IsFiniteSet(Calls) /\ Calls \subseteq Readers
    /\ RebalanceThreshold \in Nat /\ OverloadPct \in Nat /\ CacheWeight \in Nat /\ LoadWeight \in Nat
    /\ TurnPeriod \in Nat \ {0} /\ Nil \notin Workers
    /\ Children \subseteq Calls /\ IsFiniteSet(Children) /\ Agg \in Children /\ ParentKey \in ApiKeys
<1>1. Deps \in Seq(Workers) /\ Deps # <<>> /\ Workers = {Deps[i] : i \in DOMAIN Deps}
  BY RoutingAssumption
<1>2. DOMAIN Deps = 1 .. Len(Deps) /\ Len(Deps) \in Nat /\ Len(Deps) # 0
  BY <1>1
<1>3. IsFiniteSet(DOMAIN Deps) /\ DOMAIN Deps \subseteq Nat
  BY <1>2, FS_Interval
<1>6. DOMAIN Deps # {}
  BY <1>2
<1>4. Workers # {}
  <2>1. 1 \in DOMAIN Deps
    BY <1>2
  <2> QED
    BY <1>1, <2>1
<1>5. Children \subseteq Calls /\ IsFiniteSet(Children)
  BY RoutingAssumption, FS_Subset DEF Calls
<1> QED
  BY <1>1, <1>2, <1>3, <1>4, <1>5, <1>6, RoutingAssumption, FusionAssumption

LEMMA InNat ==
    ASSUME NEW st, NEW d
    PROVE  In(st, d) \in Nat
<1>1. IsFiniteSet({c \in Calls : call[c].at \in st /\ call[c].dep = d})
  BY Constants, FS_Subset
<1> QED
  BY <1>1, FS_CardinalityType DEF In

LEMMA LoadInt ==
    ASSUME NEW d \in Workers
    PROVE  Load(d) \in Int
<1> DEFINE a == In(Holding, d)
           b == IF Cap[d] = 0 THEN 0 ELSE In(Holding \cup {"waiting"}, d)
           raw == Max({a, b})
<1>1. a \in Nat /\ b \in Nat
  BY InNat
<1>2. Cap[d] \in Nat
  BY Constants
<1>3. Load(d) = IF Cap[d] = 0 THEN raw ELSE (raw * 100) \div Cap[d]
  BY DEF Load
<1> HIDE DEF a, b
<1>4. raw \in Nat
  BY <1>1 DEF Max
<1> HIDE DEF raw
<1>5. ASSUME Cap[d] # 0 PROVE (raw * 100) \div Cap[d] \in Int
  <2>1. raw * 100 \in Int /\ Cap[d] \in Nat \ {0}
    BY <1>2, <1>4, <1>5
  <2> QED
    BY <2>1, ModDef
<1> QED
  BY <1>3, <1>4, <1>5

\* What was read of the candidates' loads, one after the other.
Readings == [DOMAIN Deps -> Int]

\* The first candidate of least load is one.
LEMMA LeastIs ==
    ASSUME NEW L \in Readings, NEW S \in SUBSET DOMAIN Deps, S # {}
    PROVE  Least(L, S) \in S /\ \A i \in S : L[Least(L, S)] <= L[i]
<1> DEFINE M == {j \in S : \A i \in S : L[j] <= L[i]}
           f == [j \in S |-> L[j]]
<1>1. IsFiniteSet(S) /\ S \subseteq Int
  BY Constants, FS_Subset
<1>2. \A j \in S : f[j] = L[j] /\ f[j] \in Int
  BY DEF Readings
<1> HIDE DEF f
<1>3. PICK x \in S : \A y \in S : f[x] <= f[y]
  BY <1>1, <1>2, LeastAt
<1>4. x \in M /\ IsFiniteSet(M) /\ M \subseteq Int
  BY <1>1, <1>2, <1>3, FS_Subset
<1>5. Least(L, S) = Min(M)
  BY DEF Least
<1> HIDE DEF M
<1>6. Min(M) \in M
  BY <1>4, MinIn
<1> QED
  BY <1>5, <1>6 DEF M

\* The winner of the scores is a candidate that was scored.
LEMMA WinnerIs ==
    ASSUME NEW q, q.p \in Seq(Blocks) \ {<<>>}, q.depth \in [Workers -> Nat],
           NEW L \in Readings, NEW turns \in Nat, Scored(L) # {}
    PROVE  KvcWinner(q, L, turns) \in Scored(L)
<1> DEFINE J == Scored(L)
           f == [j \in J |-> 0 - Score(j, q, L)]
           ties == TiesOf(q, L)
           n == Cardinality(ties)
           k == IF n > 1 THEN turns % n ELSE 0
<1>0. J \subseteq DOMAIN Deps /\ \A j \in DOMAIN Deps : Deps[j] \in Workers
  BY Constants DEF Scored
<1>1. ASSUME NEW j \in DOMAIN Deps PROVE Score(j, q, L) \in Int
  <2>1. L[j] \in Int /\ CacheWeight \in Nat /\ LoadWeight \in Nat
    BY Constants DEF Readings
  <2>2. Min({L[j], 100}) \in Int
    <3>1. ASSUME NEW x \in Int PROVE Min({x, 100}) \in Int
      <4>1. \E y \in {x, 100} : \A z \in {x, 100} : y <= z
        BY x <= 100 \/ 100 <= x
      <4>2. Min({x, 100}) \in {x, 100}
        BY <4>1, Zenon DEF Min
      <4> QED
        BY <4>2
    <3> QED
      BY <2>1, <3>1
  <2>3. Len(q.p) \in Nat \ {0} /\ 100 * q.depth[Deps[j]] \in Int
    BY <1>0
  <2>4. Hit(j, q) \in Int
    BY <2>3, ModDef DEF Hit
  <2> QED
    BY <2>1, <2>2, <2>4 DEF Score
<1>2. IsFiniteSet(J) /\ J # {}
  BY <1>0, Constants, FS_Subset
<1>3. \A j \in J : f[j] = 0 - Score(j, q, L) /\ f[j] \in Int /\ Score(j, q, L) \in Int
  BY <1>0, <1>1
<1> HIDE DEF f, J
<1>4. PICK x \in J : \A y \in J : f[x] <= f[y]
  BY <1>2, <1>3, LeastAt
<1>5. \A y \in J : Score(y, q, L) <= Score(x, q, L)
  BY <1>3, <1>4
<1>6. x \in ties
  BY <1>5 DEF J, TiesOf
<1>7. IsFiniteSet(ties) /\ ties \subseteq Int
  <2>1. ties \subseteq DOMAIN Deps
    BY <1>0 DEF TiesOf, J
  <2> QED
    BY <2>1, Constants, FS_Subset
<1>8. KvcWinner(q, L, turns) = Nth(ties, k)
  BY DEF KvcWinner
<1> HIDE DEF ties
<1>9. n \in Nat \ {0}
  BY <1>6, <1>7, FS_CardinalityType, FS_EmptySet
<1>10. k \in 0 .. n - 1
  <2>1. turns % n \in 0 .. n - 1
    <3>1. turns \in Int
      OBVIOUS
    <3> HIDE DEF n
    <3> QED
      BY <1>9, <3>1, ModDef
  <2> QED
    BY <1>9, <2>1
<1>11. Nth(ties, k) \in ties
  BY <1>7, <1>10, NthIn
<1> QED
  BY <1>8, <1>11 DEF ties, TiesOf

LEMMA LeastOfIs ==
    ASSUME NEW L \in Readings
    PROVE  /\ LeastOf(L) \in DOMAIN Deps /\ \A i \in DOMAIN Deps : L[LeastOf(L)] <= L[i]
           /\ Within(L[LeastOf(L)], L) /\ L[LeastOf(L)] \in Int
<1>1. DOMAIN Deps # {}
  BY Constants
<1>2. LeastOf(L) \in DOMAIN Deps /\ \A i \in DOMAIN Deps : L[LeastOf(L)] <= L[i]
  BY <1>1, LeastIs DEF LeastOf
<1>3. L[LeastOf(L)] \in Int /\ RebalanceThreshold \in Nat
  BY <1>2, Constants DEF Readings
<1>4. Within(L[LeastOf(L)], L)
  BY <1>3 DEF Within
<1> QED
  BY <1>2, <1>3, <1>4

\* Both load-aware policies choose within the threshold of the least load that they read.
LEMMA AffinityBalanced ==
    ASSUME NEW r, r.pref \in Workers \cup {Nil}, r.own \in Int, r.loads \in Readings
    PROVE  \/ KeyAffinityChoice(r) = r.pref /\ Within(r.own, r.loads)
           \/ \E j \in DOMAIN Deps : KeyAffinityChoice(r) = Deps[j] /\ Within(r.loads[j], r.loads)
<1> DEFINE L == r.loads
           low == L[LeastOf(L)]
<1>1. /\ LeastOf(L) \in DOMAIN Deps /\ Within(low, L) /\ low \in Int /\ RebalanceThreshold \in Nat
  BY LeastOfIs, Constants
<1>2. CASE Sticks(r)
  <2>1. ~(r.own > low + RebalanceThreshold)
    BY <1>2 DEF Sticks, ShouldRebalance
  <2> QED
    BY <1>1, <1>2, <2>1 DEF KeyAffinityChoice, Within
<1>3. CASE ~Sticks(r)
  BY <1>1, <1>3 DEF KeyAffinityChoice
<1> QED
  BY <1>2, <1>3

LEMMA KvcBalanced ==
    ASSUME NEW q, q.p \in Seq(Blocks) \ {<<>>}, q.depth \in [Workers -> Nat],
           NEW L \in Readings, NEW turns \in Nat, Scored(L) # {}, RebalanceThreshold < 100
    PROVE  KvcChoice(q, L, turns) \in DOMAIN Deps /\ Within(L[KvcChoice(q, L, turns)], L)
<1> DEFINE best == KvcWinner(q, L, turns)
           least == Least(L, Scored(L))
           low == LeastOf(L)
<1>1. /\ best \in Scored(L) /\ least \in Scored(L) /\ (\A j \in Scored(L) : L[least] <= L[j])
      /\ Scored(L) \subseteq DOMAIN Deps
  <2>1. Scored(L) \in SUBSET DOMAIN Deps
    BY DEF Scored
  <2> QED
    BY <2>1, WinnerIs, LeastIs
<1>2. low \in DOMAIN Deps
  BY LeastOfIs
<1>3. /\ L[best] \in Int /\ L[least] \in Int /\ L[low] \in Int
      /\ RebalanceThreshold \in Nat /\ OverloadPct \in Nat
  BY <1>1, <1>2, Constants DEF Readings
<1>4. L[least] <= L[low]
  <2>1. CASE low \in Scored(L)
    BY <1>1, <2>1
  <2>2. CASE low \notin Scored(L)
    <3>1. ~(OverloadPct >= 100) /\ ~(L[low] < OverloadPct)
      BY <1>2, <2>2 DEF Scored
    <3>2. L[least] < OverloadPct
      BY <1>1, <3>1 DEF Scored
    <3> QED
      BY <1>3, <3>1, <3>2
  <2> QED
    BY <2>1, <2>2
<1>5. CASE ShouldRebalance(L[best], L[least])
  <2>1. KvcChoice(q, L, turns) = least
    BY <1>5 DEF KvcChoice
  <2> HIDE DEF least
  <2> QED
    BY <1>1, <1>3, <1>4, <2>1 DEF Within
<1>6. CASE ~ShouldRebalance(L[best], L[least])
  <2>1. KvcChoice(q, L, turns) = best
    BY <1>6 DEF KvcChoice
  <2>2. ~(L[best] > L[least] + RebalanceThreshold)
    BY <1>6 DEF ShouldRebalance
  <2> HIDE DEF best, least
  <2> QED
    BY <1>1, <1>3, <1>4, <2>1, <2>2 DEF Within
<1> QED
  BY <1>5, <1>6

-----------------------------------------------------------------------------
(***************************************************************************)
(* The bill of a fusion workflow.                                          *)
(***************************************************************************)
CallFields == {"at", "key", "p", "dep", "pref", "own", "loads", "pol", "stale"}
FullPrefix == Seq(Blocks) \ {<<>>}
Choosing == {"query", "decide", "prefer", "own", "loads", "lowest"}

\* What a policy has read of the loads; whom the key prefers is known when its load is read.
Read(rec) ==
    /\ rec.pref \in Workers \cup {Nil} /\ (rec.at = "own" => rec.pref # Nil)
    /\ rec.own \in Int /\ rec.loads \in Seq(Int) /\ Len(rec.loads) <= Len(Deps)
CallRec(rec) ==
    /\ DOMAIN rec = CallFields /\ Read(rec)
    /\ rec.at \in Choosing => rec.p \in FullPrefix
CallShape ==
    /\ load \in Loads /\ turn \in Nat
    /\ DOMAIN call = Calls /\ \A c \in Calls : CallRec(call[c])
RoutesKept == load' = load /\ turn' \in Nat

\* Nothing takes a call out of its last state.
EndedStay == \A c \in Calls : call[c].at \in Ended => call'[c].at = call[c].at

\* A call waits for its choice until the policy makes it.
Resting == Ended \cup Choosing
ChoicesOnly ==
    \A c \in Calls : call[c].at \in Resting => call'[c].at = call[c].at \/ Choose(c)

SettleInv ==
    /\ usage \in [Children -> Nat] /\ bill = SumFunctionOnSet(usage, Children)
    /\ seen \in Nat /\ seen <= bill /\ late \in Nat
    /\ parent \notin {"ended", "closed"} => late = 0
    /\ parent \notin {"stream", "ended", "closed"} => fwd = "none" /\ seen = 0
    /\ parent \in {"idle", "panel", "aggregate"} => usage[Agg] = 0
    /\ parent \notin {"idle", "panel"} => \A c \in PanelCalls : call[c].at \in Ended
    /\ ChildrenSettled

\* One call goes on.
Moves(c) ==
    /\ \E rec : CallRec(rec) /\ ToCall(c, rec)
    /\ call[c].at \notin Resting \/ Choose(c)

LEMMA EndedStays == ASSUME ChoicesOnly PROVE EndedStay
BY DEF ChoicesOnly, EndedStay, Resting, Ended, Choose, Decide, Prefer, ReadOwnLoad, ReadLoad, DecideAffinity,
       DecideKvc, AllOverloaded, DecideLowest

LEMMA MovesKeep ==
    ASSUME CallShape, NEW c \in Calls, Moves(c), RoutesKept
    PROVE  CallShape' /\ ChoicesOnly
<1>1. PICK rec : CallRec(rec) /\ call' = [call EXCEPT ![c] = rec]
  BY DEF Moves, ToCall
<1>2. DOMAIN call' = Calls /\ \A d \in Calls : call'[d] = IF d = c THEN rec ELSE call[d]
  BY <1>1 DEF CallShape
<1>3. CallShape'
  <2>1. \A d \in Calls : CallRec(call'[d])
    BY <1>1, <1>2 DEF CallShape
  <2> QED
    BY <1>2, <2>1 DEF CallShape, RoutesKept
<1>4. ChoicesOnly
  BY <1>2 DEF ChoicesOnly, Moves
<1> QED
  BY <1>3, <1>4

LEMMA StartMoves ==
    ASSUME CallShape, NEW c, NEW k, NEW p \in FullPrefix, StartCall(c, k, p)
    PROVE  Moves(c) /\ turn' = turn
<1> DEFINE rec == [IdleCall EXCEPT !.key = k, !.p = p, !.pol = policy]
<1>1. /\ DOMAIN rec = CallFields /\ rec.p = p /\ rec.pref = Nil /\ rec.own = 0 /\ rec.loads = <<>>
      /\ call[c].at \notin Resting
  BY DEF IdleCall, CallFields, StartCall, Ended, Choosing, Resting
<1>2. \E a \in {"query", "decide", "prefer", "loads"} : ToCall(c, [rec EXCEPT !.at = a])
  BY DEF StartCall
<1> HIDE DEF rec
<1>3. ASSUME NEW a \in {"query", "decide", "prefer", "loads"} PROVE CallRec([rec EXCEPT !.at = a])
  <2> DEFINE new == [rec EXCEPT !.at = a]
  <2>1. /\ DOMAIN new = CallFields /\ new.p = p /\ new.pref = Nil /\ new.own = 0 /\ new.loads = <<>>
        /\ new.at = a
    BY <1>1 DEF CallFields
  <2> HIDE DEF new
  <2>2. <<>> \in Seq(Int) /\ Len(<<>>) = 0 /\ 0 <= Len(Deps)
    BY Constants
  <2>3. Read(new)
    BY <2>1, <2>2 DEF Read
  <2> QED
    BY <2>1, <2>3 DEF CallRec, new
<1> QED
  BY <1>1, <1>2, <1>3 DEF Moves, StartCall

LEMMA RecMoves ==
    ASSUME CallShape, NEW c \in Calls, NEW a, NEW d, a \notin Choosing
    PROVE  /\ CallRec([call[c] EXCEPT !.at = a]) /\ CallRec([call[c] EXCEPT !.at = a, !.dep = d])
           /\ CallRec(Chosen(c, d, a))
<1>1. DOMAIN call[c] = CallFields /\ Read(call[c])
  BY DEF CallShape, CallRec
<1>2. <<>> \in Seq(Int) /\ Len(<<>>) = 0 /\ 0 <= Len(Deps)
  BY Constants
<1>3. CallRec([call[c] EXCEPT !.at = a])
  BY <1>1 DEF CallRec, CallFields, Choosing, Read
<1>4. CallRec([call[c] EXCEPT !.at = a, !.dep = d])
  BY <1>1 DEF CallRec, CallFields, Choosing, Read
<1>5. CallRec(Chosen(c, d, a))
  <2> DEFINE new == Chosen(c, d, a)
  <2>1. /\ DOMAIN new = CallFields /\ new.pref = Nil /\ new.own = 0 /\ new.loads = <<>> /\ new.at = a
    BY <1>1 DEF Chosen, CallFields
  <2> HIDE DEF new
  <2>2. Read(new)
    BY <1>2, <2>1 DEF Read, Choosing
  <2> QED
    BY <2>1, <2>2 DEF CallRec, new
<1> QED
  BY <1>3, <1>4, <1>5

\* A policy that is still reading.
LEMMA ReadingMoves ==
    ASSUME CallShape, NEW c \in Calls, NEW pref \in Workers \cup {Nil}, NEW own \in Int,
           NEW L \in Seq(Int), Len(L) <= Len(Deps), call[c].at \in Choosing, Choose(c),
           NEW a, (a = "own" => pref # Nil),
           ToCall(c, [call[c] EXCEPT !.at = a, !.pref = pref, !.own = own, !.loads = L])
    PROVE  Moves(c)
<1> DEFINE new == [call[c] EXCEPT !.at = a, !.pref = pref, !.own = own, !.loads = L]
<1>1. DOMAIN call[c] = CallFields /\ call[c].p \in FullPrefix
  BY DEF CallShape, CallRec
<1>2. DOMAIN new = CallFields /\ new.p = call[c].p /\ new.pref = pref /\ new.own = own /\ new.loads = L /\ new.at = a
  BY <1>1 DEF CallFields
<1>3. ToCall(c, new)
  OBVIOUS
<1> HIDE DEF new
<1>4. CallRec(new)
  BY <1>1, <1>2 DEF CallRec, Read
<1> QED
  BY <1>3, <1>4 DEF Moves

LEMMA BumpedNat == ASSUME turn \in Nat PROVE Bumped \in Nat
<1>1. turn + 1 \in Int /\ TurnPeriod \in Nat \ {0}
  BY Constants
<1>2. (turn + 1) % TurnPeriod \in 0 .. TurnPeriod - 1
  BY <1>1, ModDef
<1> QED
  BY <1>1, <1>2 DEF Bumped

LEMMA ChoiceMoves ==
    ASSUME CallShape, NEW c \in Calls, Choose(c)
    PROVE  Moves(c) /\ turn' \in Nat
<1> DEFINE r == call[c]
<1>0. turn \in Nat /\ Bumped \in Nat /\ DOMAIN r = CallFields /\ Read(r)
  BY BumpedNat DEF CallShape, CallRec
<1>1. \A a, d : a \notin Choosing => CallRec([r EXCEPT !.at = a, !.dep = d]) /\ CallRec(Chosen(c, d, a))
  BY RecMoves
<1>2. ASSUME NEW a, NEW pref, NEW own, NEW L, pref = r.pref, own = r.own, L = r.loads
      PROVE  /\ [r EXCEPT !.at = a] = [r EXCEPT !.at = a, !.pref = pref, !.own = own, !.loads = L]
             /\ [r EXCEPT !.at = a, !.loads = <<>>]
                = [r EXCEPT !.at = a, !.pref = pref, !.own = own, !.loads = <<>>]
  BY <1>0, <1>2 DEF CallFields
<1>3. CASE Decide(c)
  <2>1. \E d : ToCall(c, [r EXCEPT !.at = "acquire", !.dep = d])
    BY <1>3 DEF Decide
  <2>2. turn' \in {turn, Bumped}
    BY <1>3 DEF Decide
  <2> QED
    BY <1>0, <1>1, <2>1, <2>2 DEF Moves, Choosing
<1>4. CASE Prefer(c)
  <2>1. r.at = "prefer" /\ turn' = turn
    BY <1>4 DEF Prefer
  <2>2. PICK d \in Workers \cup {Nil} : ToCall(c, [r EXCEPT !.at = IF d = Nil THEN "loads" ELSE "own", !.pref = d])
    BY <1>4 DEF Prefer
  <2> DEFINE a == IF d = Nil THEN "loads" ELSE "own"
  <2>3. [r EXCEPT !.at = a, !.pref = d] = [r EXCEPT !.at = a, !.pref = d, !.own = r.own, !.loads = r.loads]
    BY <1>0 DEF CallFields
  <2>4. r.own \in Int /\ r.loads \in Seq(Int) /\ Len(r.loads) <= Len(Deps) /\ (a = "own" => d # Nil) /\ r.at \in Choosing
    BY <1>0, <2>1 DEF Read, Choosing
  <2>5. ToCall(c, [r EXCEPT !.at = a, !.pref = d, !.own = r.own, !.loads = r.loads])
    BY <2>2, <2>3
  <2> HIDE DEF a
  <2> QED
    BY <1>0, <2>1, <2>4, <2>5, ReadingMoves
<1>5. CASE ReadOwnLoad(c)
  <2>1. r.at = "own" /\ turn' = turn /\ ToCall(c, [r EXCEPT !.at = "loads", !.own = Load(r.pref)])
    BY <1>5 DEF ReadOwnLoad
  <2>2. r.pref \in Workers /\ Load(r.pref) \in Int /\ r.loads \in Seq(Int) /\ Len(r.loads) <= Len(Deps)
        /\ r.at \in Choosing
    BY <1>0, <2>1, LoadInt DEF Read, Choosing
  <2> DEFINE v == Load(r.pref)
  <2>3. [r EXCEPT !.at = "loads", !.own = v] = [r EXCEPT !.at = "loads", !.pref = r.pref, !.own = v, !.loads = r.loads]
    BY <1>0 DEF CallFields
  <2>4. ToCall(c, [r EXCEPT !.at = "loads", !.pref = r.pref, !.own = v, !.loads = r.loads])
    BY <2>1, <2>3
  <2>5. v \in Int /\ r.pref \in Workers \cup {Nil} /\ ("loads" = "own" => r.pref # Nil)
    BY <2>2
  <2> HIDE DEF v
  <2> QED
    BY <1>0, <2>1, <2>2, <2>4, <2>5, ReadingMoves
<1>6. CASE ReadLoad(c)
  <2> DEFINE a == IF r.at = "query" THEN "loads" ELSE r.at
             v == Load(Deps[Len(r.loads) + 1])
             L == Append(r.loads, v)
  <2>1. /\ r.at \in {"loads", "lowest", "query"} /\ turn' = turn /\ Len(r.loads) # Len(Deps)
        /\ ToCall(c, [r EXCEPT !.at = a, !.loads = L])
    BY <1>6 DEF ReadLoad, AllRead
  <2>2. /\ r.pref \in Workers \cup {Nil} /\ r.own \in Int /\ r.loads \in Seq(Int) /\ Len(r.loads) <= Len(Deps)
        /\ r.at \in Choosing
    BY <1>0, <2>1 DEF Read, Choosing
  <2>3. Len(r.loads) + 1 \in DOMAIN Deps /\ Deps[Len(r.loads) + 1] \in Workers
    <3>1. Len(r.loads) \in Nat /\ Len(Deps) \in Nat /\ DOMAIN Deps = 1 .. Len(Deps)
      BY <2>2, Constants
    <3>2. Len(r.loads) + 1 \in DOMAIN Deps
      BY <2>1, <2>2, <3>1
    <3> QED
      BY <3>2, Constants
  <2>4. v \in Int
    BY <2>3, LoadInt
  <2>5. [r EXCEPT !.at = a, !.loads = L] = [r EXCEPT !.at = a, !.pref = r.pref, !.own = r.own, !.loads = L]
    BY <1>0 DEF CallFields
  <2>6. a # "own"
    BY <2>1
  <2> HIDE DEF a, v
  <2>7. L \in Seq(Int) /\ Len(L) <= Len(Deps)
    BY <2>2, <2>3, <2>4, Constants
  <2>8. ToCall(c, [r EXCEPT !.at = a, !.pref = r.pref, !.own = r.own, !.loads = L])
    BY <2>1, <2>5
  <2> HIDE DEF L
  <2> QED
    BY <1>0, <2>1, <2>2, <2>6, <2>7, <2>8, ReadingMoves
<1>7. CASE DecideAffinity(c)
  <2>1. (\E d : ToCall(c, Chosen(c, d, "acquire"))) /\ turn' = turn
    BY <1>7 DEF DecideAffinity
  <2> QED
    BY <1>0, <1>1, <2>1 DEF Moves, Choosing
<1>8. CASE DecideKvc(c) \/ DecideLowest(c)
  <2>1. turn' \in {turn, Bumped} /\ \E d : ChooseKvc(c, d)
    BY <1>8 DEF DecideKvc, DecideLowest
  <2>2. \E a \in {"record", "acquire"} : \E d : ToCall(c, Chosen(c, d, a))
    BY <2>1 DEF ChooseKvc
  <2> QED
    BY <1>0, <1>1, <2>1, <2>2 DEF Moves, Choosing
<1>9. CASE AllOverloaded(c)
  <2>1. r.at = "loads" /\ turn' = turn /\ ToCall(c, [r EXCEPT !.at = "lowest", !.loads = <<>>])
    BY <1>9 DEF AllOverloaded
  <2>2. r.pref \in Workers \cup {Nil} /\ r.own \in Int /\ r.at \in Choosing
    BY <1>0, <2>1 DEF Read, Choosing
  <2>3. <<>> \in Seq(Int) /\ Len(<<>>) <= Len(Deps) /\ ("lowest" = "own" => r.pref # Nil)
    BY Constants
  <2>4. ToCall(c, [r EXCEPT !.at = "lowest", !.pref = r.pref, !.own = r.own, !.loads = <<>>])
    BY <1>2, <2>1
  <2> QED
    BY <1>0, <2>1, <2>2, <2>3, <2>4, ReadingMoves
<1> QED
  BY <1>3, <1>4, <1>5, <1>6, <1>7, <1>8, <1>9 DEF Choose

LEMMA CallMoves ==
    ASSUME CallShape, NEW c \in Calls,
           \/ RequestAnswered(c) \/ CallFails(c) \/ Choose(c)
           \/ RecordDone(c) \/ AcquireSlot(c) \/ SlotGranted(c)
    PROVE  Moves(c) /\ turn' \in Nat
<1>0. turn \in Nat
  BY DEF CallShape
<1>1. \A a : a \notin Choosing => CallRec([call[c] EXCEPT !.at = a])
  BY RecMoves
<1>2. CASE RequestAnswered(c) \/ CallFails(c) \/ RecordDone(c) \/ SlotGranted(c)
  <2>1. /\ \E a \in {"ok", "failed", "acquire", "running"} : ToCall(c, [call[c] EXCEPT !.at = a])
        /\ call[c].at \in {"running", "waiting", "record"} /\ turn' = turn
    BY <1>2 DEF RequestAnswered, CallFails, RecordDone, SlotGranted
  <2> QED
    BY <1>0, <1>1, <2>1 DEF Moves, Resting, Ended, Choosing
<1>3. CASE AcquireSlot(c)
  <2>1. /\ \E a \in {"running", "waiting", "failed"} : ToCall(c, [call[c] EXCEPT !.at = a])
        /\ call[c].at = "acquire" /\ turn' = turn
    BY <1>3 DEF AcquireSlot
  <2> QED
    BY <1>0, <1>1, <2>1 DEF Moves, Resting, Ended, Choosing
<1> QED
  BY <1>2, <1>3, ChoiceMoves

\* A step that changes only where a call is, out of nothing that waits.
GoesOn(c) ==
    /\ DOMAIN call'[c] = DOMAIN call[c] /\ call'[c].p = call[c].p /\ call'[c].pref = call[c].pref
    /\ call'[c].own = call[c].own /\ call'[c].loads = call[c].loads
    /\ call'[c].at = call[c].at \/ (call[c].at \notin Resting /\ call'[c].at \notin Choosing)

LEMMA CallsGoOn ==
    ASSUME CallShape, RoutesKept, DOMAIN call' = Calls, \A c \in Calls : GoesOn(c)
    PROVE  CallShape' /\ ChoicesOnly
<1>1. ASSUME NEW c \in Calls PROVE CallRec(call'[c])
  <2>1. CallRec(call[c]) /\ GoesOn(c)
    BY DEF CallShape
  <2> QED
    BY <2>1 DEF CallRec, Read, Choosing, GoesOn
<1>2. CallShape'
  BY <1>1 DEF CallShape, RoutesKept
<1>3. ChoicesOnly
  BY DEF ChoicesOnly, GoesOn
<1> QED
  BY <1>2, <1>3

LEMMA CallsKept ==
    ASSUME CallShape, [Next]_vars
    PROVE  CallShape' /\ ChoicesOnly
<1>a. /\ Children \subseteq Calls /\ Agg \in Children
      /\ load.prefixes \subseteq FullPrefix
  BY Constants, LoadAssumption DEF CallShape, FullPrefix
<1>b. \A c \in Calls : \A a : a \notin Choosing => CallRec([call[c] EXCEPT !.at = a])
  BY RecMoves
<1>d. ASSUME UNCHANGED <<load, turn>> PROVE RoutesKept
  BY <1>d DEF RoutesKept, CallShape
<1>0. CASE UNCHANGED <<call, load, turn>>
  BY <1>0 DEF CallShape, ChoicesOnly
<1>1. ASSUME NEW c \in Calls, NEW k, NEW p \in load.prefixes, StartCall(c, k, p), load' = load
      PROVE  CallShape' /\ ChoicesOnly
  BY <1>a, <1>d, <1>1, StartMoves, MovesKeep
<1>2. ASSUME NEW c \in Calls, CallFails(c), load' = load PROVE CallShape' /\ ChoicesOnly
  BY <1>2, CallMoves, MovesKeep DEF RoutesKept
<1>3. ASSUME NEW c \in Calls, RequestStep(c) PROVE CallShape' /\ ChoicesOnly
  <2>0. load' = load
    BY <1>3 DEF RequestStep, fusionVars
  <2>1. CASE RequestAnswered(c) \/ Choose(c) \/ RecordDone(c) \/ AcquireSlot(c) \/ SlotGranted(c)
    BY <2>0, <2>1, CallMoves, MovesKeep DEF RoutesKept
  <2> QED
    BY <1>a, <1>1, <1>2, <1>3, <2>0, <2>1 DEF RequestStep
<1>4. ASSUME NEW c \in Children, PanelStep(c) PROVE CallShape' /\ ChoicesOnly
  <2>1. ASSUME NEW p \in load.prefixes, PanelStarts(c, p) PROVE CallShape' /\ ChoicesOnly
    BY <1>a, <1>1, <2>1 DEF PanelStarts, fusionVars
  <2>2. ASSUME NEW u, NEW o, PanelReplies(c, u, o) PROVE CallShape' /\ ChoicesOnly
    <3>1. Moves(c) /\ UNCHANGED <<load, turn>>
      BY <1>a, <1>b, <2>2 DEF PanelReplies, Moves, Resting, Ended, Choosing
    <3> QED
      BY <1>a, <1>d, <3>1, MovesKeep
  <2>3. CASE ChildFails(c)
    BY <1>a, <1>2, <2>3 DEF ChildFails, fusionVars
  <2> QED
    BY <1>4, <2>1, <2>2, <2>3 DEF PanelStep
<1>5. CASE AggregatorStep
  <2>1. ASSUME NEW p \in load.prefixes, AggregatorStarts(p) PROVE CallShape' /\ ChoicesOnly
    BY <1>a, <1>1, <2>1 DEF AggregatorStarts, fusionVars
  <2>2. ASSUME NEW u, AggregatorReplies(u) PROVE CallShape' /\ ChoicesOnly
    <3>1. Moves(Agg) /\ UNCHANGED <<load, turn>>
      BY <1>a, <1>b, <2>2 DEF AggregatorReplies, Moves, Resting, Ended, Choosing
    <3> QED
      BY <1>a, <1>d, <3>1, MovesKeep
  <2>3. CASE StreamStarts
    <3>1. Moves(Agg) /\ UNCHANGED <<load, turn>>
      BY <1>a, <1>b, <2>3 DEF StreamStarts, Moves, Resting, Ended, Choosing
    <3> QED
      BY <1>a, <1>d, <3>1, MovesKeep
  <2>4. ASSUME NEW u, StreamUsage(u) PROVE UNCHANGED <<call, load, turn>>
    BY <2>4 DEF StreamUsage, routeVars
  <2>5. CASE FallBack \/ StreamStops \/ ReceiverDropped
    BY <1>0, <2>5 DEF FallBack, StreamStops, ReceiverDropped, routeVars
  <2>6. ASSUME NEW more, Forwarded(more) PROVE CallShape' /\ ChoicesOnly
    <3>1. /\ call' = [call EXCEPT ![Agg].at = IF fwd' = "over" /\ @ = "streaming" THEN "ok" ELSE @]
          /\ UNCHANGED <<load, turn>>
      BY <2>6 DEF Forwarded
    <3>2. DOMAIN call = Calls /\ Agg \in Calls /\ \A c \in Calls : DOMAIN call[c] = CallFields
      BY <1>a DEF CallShape, CallRec
    <3>3. DOMAIN call' = Calls
      BY <3>1, <3>2
    <3>4. RoutesKept
      BY <1>d, <3>1
    <3>5. "streaming" \notin Resting /\ "ok" \notin Choosing
      BY DEF Resting, Ended, Choosing
    <3>6. \A c \in Calls : GoesOn(c)
      BY <3>1, <3>2, <3>5 DEF CallFields, GoesOn
    <3> QED
      BY <3>3, <3>4, <3>6, CallsGoOn
  <2>7. CASE NoteUsage \/ ReplayFinishes \/ ForwardEnds
    BY <2>6, <2>7 DEF NoteUsage, ReplayFinishes, ForwardEnds
  <2> QED
    BY <1>0, <1>5, <2>1, <2>2, <2>3, <2>4, <2>5, <2>7 DEF AggregatorStep
<1>6. CASE Background
  <2>0. load' = load
    BY <1>6 DEF Background, fusionVars
  <2>1. CASE IndexStep
    BY <1>0, <2>0, <2>1 DEF IndexStep, routeVars
  <2>2. ASSUME NEW p, SwapPolicy(p) PROVE CallShape' /\ ChoicesOnly
    <3>1. call' = [c \in Calls |-> [call[c] EXCEPT !.stale = TRUE]] /\ turn' = 0
      BY <2>2 DEF SwapPolicy
    <3>2. \A c \in Calls : DOMAIN call[c] = CallFields
      BY DEF CallShape, CallRec
    <3>3. DOMAIN call' = Calls /\ \A c \in Calls : GoesOn(c)
      BY <3>1, <3>2 DEF CallFields, GoesOn
    <3>4. RoutesKept
      BY <2>0, <3>1 DEF RoutesKept
    <3> QED
      BY <3>3, <3>4, CallsGoOn
  <2> QED
    BY <1>0, <1>6, <2>0, <2>1, <2>2 DEF Background, routeVars
<1>7. CASE FusionArrives \/ PanelDone
  BY <1>0, <1>7 DEF FusionArrives, PanelDone, routeVars
<1>8. CASE ClientLeaves
  <2>1. /\ UNCHANGED <<load, turn>> /\ ~Busy
        /\ call' = [c \in Calls |-> IF c \in Children /\ call[c].at \notin Ended
                                    THEN [call[c] EXCEPT !.at = "failed"] ELSE call[c]]
    BY <1>8 DEF ClientLeaves
  <2>2. \A c \in Calls : DOMAIN call[c] = CallFields
    BY DEF CallShape, CallRec
  <2>3. "failed" \notin Choosing /\ \A c \in Children : call[c].at \notin Choosing
    BY <2>1 DEF Busy, Choosing
  <2>4. RoutesKept
    BY <1>d, <2>1
  <2>5. DOMAIN call' = Calls
    BY <2>1
  <2>6. ASSUME NEW c \in Calls PROVE GoesOn(c)
    <3>1. CASE c \in Children /\ call[c].at \notin Ended
      <4>1. call'[c] = [call[c] EXCEPT !.at = "failed"]
        BY <2>1, <3>1
      <4> QED
        BY <2>2, <2>3, <3>1, <4>1 DEF CallFields, GoesOn, Resting
    <3>2. CASE ~(c \in Children /\ call[c].at \notin Ended)
      <4>1. call'[c] = call[c]
        BY <2>1, <3>2
      <4> QED
        BY <4>1 DEF GoesOn
    <3> QED
      BY <3>1, <3>2
  <2> QED
    BY <2>4, <2>5, <2>6, CallsGoOn
<1>9. CASE UNCHANGED vars
  BY <1>0, <1>9 DEF vars, routeVars, fusionVars
<1> QED
  BY <1>3, <1>4, <1>5, <1>6, <1>7, <1>8, <1>9 DEF Next

LEMMA ChildSums ==
    ASSUME usage \in [Children -> Nat]
    PROVE  /\ SumFunction(usage) = SumFunctionOnSet(usage, Children)
           /\ SumFunctionOnSet(usage, Children) = SumFunctionOnSet(usage, PanelCalls) + usage[Agg]
           /\ SumFunctionOnSet(usage, Children) \in Nat /\ SumFunctionOnSet(usage, PanelCalls) \in Nat
<1>1. Agg \in Children /\ IsFiniteSet(Children) /\ DOMAIN usage = Children
  BY Constants
<1>2. /\ SumFunctionOnSet(usage, Children) \in Nat
      /\ \A R \in SUBSET Children : SumFunctionOnSet(usage, R) \in Nat
  BY <1>1, SumNat
<1>3. SumFunctionOnSet(usage, Children) = usage[Agg] + SumFunctionOnSet(usage, PanelCalls)
  BY <1>1, SumRemove DEF PanelCalls
<1>4. SumFunctionOnSet(usage, PanelCalls) \in Nat /\ usage[Agg] \in Nat
  BY <1>1, <1>2 DEF PanelCalls
<1>5. SumFunction(usage) = SumFunctionOnSet(usage, Children)
  BY <1>1 DEF SumFunction, SumFunctionOnSet, FoldFunction
<1> QED
  BY <1>2, <1>3, <1>4, <1>5

\* What a child reports is added to the bill once.
LEMMA BilledSums ==
    ASSUME SettleInv, NEW c \in Children, NEW u \in Nat, Billed(c, u)
    PROVE  /\ usage' \in [Children -> Nat] /\ bill' = SumFunctionOnSet(usage', Children) /\ bill' \in Nat
           /\ usage'[c] = u /\ \A d \in Children : d # c => usage'[d] = usage[d]
<1>1. usage \in [Children -> Nat] /\ bill = SumFunctionOnSet(usage, Children) /\ IsFiniteSet(Children)
  BY Constants DEF SettleInv
<1>2. usage' = [usage EXCEPT ![c] = u] /\ bill' = bill + (u - usage[c])
  BY DEF Billed
<1>3. /\ usage' \in [Children -> Nat] /\ usage'[c] = u
      /\ \A d \in Children : d # c => usage'[d] = usage[d]
  BY <1>1, <1>2
<1>4. SumFunctionOnSet(usage', Children) = SumFunctionOnSet(usage, Children) + (usage'[c] - usage[c])
  BY <1>1, <1>3, SumChange
<1>5. SumFunctionOnSet(usage', Children) \in Nat
  BY <1>1, <1>3, SumNat
<1> QED
  BY <1>1, <1>2, <1>3, <1>4, <1>5

LEMMA SettleUnchanged ==
    ASSUME SettleInv, EndedStay, UNCHANGED <<parent, usage, bill, seen, fwd, settled, late>>
    PROVE  SettleInv'
<1>1. PanelCalls \subseteq Calls
  BY DEF PanelCalls, Calls
<1> QED
  BY <1>1 DEF SettleInv, EndedStay, ChildrenSettled

LEMMA SettlePanelReplies ==
    ASSUME SettleInv, EndedStay, NEW c \in Children, NEW u \in 1 .. MaxUsage, NEW o, PanelReplies(c, u, o)
    PROVE  SettleInv'
<1>1. /\ c \in PanelCalls /\ call[c].at = "running" /\ Billed(c, u) /\ UNCHANGED <<parent, seen, fwd, settled, late>>
      /\ c # Agg /\ Agg \in Children
  BY Constants DEF PanelReplies, PanelCalls
<1>2. parent \in {"idle", "panel"}
  BY <1>1 DEF SettleInv, Ended
<1>3. /\ usage' \in [Children -> Nat] /\ bill' = SumFunctionOnSet(usage', Children) /\ bill' \in Nat
      /\ usage'[Agg] = usage[Agg]
  BY <1>1, BilledSums
<1>4. seen <= bill'
  <2>1. bill \in Nat /\ bill' = bill + (u - usage[c]) /\ usage[c] \in Nat
    BY <1>1, ChildSums DEF Billed, SettleInv
  <2>2. seen = 0
    BY <1>2 DEF SettleInv
  <2> QED
    BY <1>3, <2>2
<1> QED
  BY <1>1, <1>2, <1>3, <1>4 DEF SettleInv, ChildrenSettled

LEMMA SettlePanelDone ==
    ASSUME SettleInv, PanelDone
    PROVE  SettleInv'
<1>1. /\ UNCHANGED <<usage, bill, seen, fwd, late, call>>
      /\ parent = "panel" /\ \A c \in PanelCalls : call[c].at \in Ended
  BY DEF PanelDone, routeVars
<1>2. \/ parent' = "aggregate"
      \/ parent' = "failed" /\ settled' = IF bill > 0 THEN bill ELSE NotSettled
  BY DEF PanelDone, SettlePartial
<1>3. bill \in Nat /\ SumFunction(usage) = bill /\ late = 0 /\ bill - 0 = bill
  BY <1>1, ChildSums DEF SettleInv
<1>4. ChildrenSettled'
  BY <1>1, <1>2, <1>3 DEF ChildrenSettled
<1> QED
  BY <1>1, <1>2, <1>4 DEF SettleInv

LEMMA SettleAggregatorReplies ==
    ASSUME SettleInv, EndedStay, NEW u \in 1 .. MaxUsage, AggregatorReplies(u)
    PROVE  SettleInv'
<1>1. /\ parent = "aggregate" /\ Billed(Agg, u) /\ parent' = "answered" /\ settled' = ResponseUsage(u)
      /\ UNCHANGED <<seen, fwd, late>> /\ late = 0 /\ Agg \in Children /\ u \in Nat
  BY Constants DEF AggregatorReplies, SettleInv
<1>2. /\ usage' \in [Children -> Nat] /\ bill' = SumFunctionOnSet(usage', Children) /\ bill' \in Nat
      /\ usage'[Agg] = u /\ \A d \in Children : d # Agg => usage'[d] = usage[d]
  BY <1>1, BilledSums
<1>3. SumFunctionOnSet(usage', PanelCalls) = SumFunctionOnSet(usage, PanelCalls)
  <2>1. IsFiniteSet(PanelCalls)
    BY Constants, FS_Subset DEF PanelCalls
  <2> QED
    BY <1>2, <2>1, SumAgree DEF PanelCalls
<1>4. /\ SumFunction(usage') = SumFunctionOnSet(usage', Children)
      /\ SumFunctionOnSet(usage', Children) = SumFunctionOnSet(usage', PanelCalls) + usage'[Agg]
  <2>1. (usage \in [Children -> Nat])' => (/\ SumFunction(usage) = SumFunctionOnSet(usage, Children)
           /\ SumFunctionOnSet(usage, Children) = SumFunctionOnSet(usage, PanelCalls) + usage[Agg])'
    BY ChildSums, PTL
  <2> QED
    BY <1>2, <2>1
<1>5. settled' = bill' /\ bill' - 0 = bill' /\ SumFunction(usage') = bill'
  BY <1>1, <1>2, <1>3, <1>4 DEF ResponseUsage
<1>6. ChildrenSettled'
  BY <1>1, <1>5 DEF ChildrenSettled
<1>7. \A c \in PanelCalls : call'[c].at \in Ended
  BY <1>1 DEF SettleInv, EndedStay, PanelCalls, Calls
<1>8. seen' \in Nat /\ seen' <= bill'
  BY <1>1, <1>2 DEF SettleInv
<1> QED
  BY <1>1, <1>2, <1>6, <1>7, <1>8 DEF SettleInv

LEMMA SettleFallBack ==
    ASSUME SettleInv, FallBack
    PROVE  SettleInv'
<1>1. /\ UNCHANGED <<usage, bill, seen, late, call>> /\ parent = "aggregate" /\ late = 0
      /\ parent' = "stream" \/ (parent' = "answered" /\ fwd' = fwd /\ settled' = ResponseUsage(0))
  BY DEF FallBack, routeVars, SettleInv
<1>2. /\ SumFunction(usage) = SumFunctionOnSet(usage, PanelCalls) + 0
      /\ SumFunction(usage) - 0 = SumFunction(usage)
  BY <1>1, ChildSums DEF SettleInv
<1>3. ChildrenSettled'
  BY <1>1, <1>2 DEF ChildrenSettled, ResponseUsage
<1> QED
  BY <1>1, <1>3 DEF SettleInv

\* What is billed after the settlement is late, all of it.
LEMMA SettleStreamUsage ==
    ASSUME SettleInv, NEW u \in 1 .. MaxUsage, StreamUsage(u)
    PROVE  SettleInv'
<1>1. /\ parent' = parent /\ Billed(Agg, u) /\ UNCHANGED <<call, seen, settled>> /\ fwd = "chunks"
      /\ u > usage[Agg] /\ Agg \in Children /\ u \in Nat
      /\ late' = IF parent = "stream" THEN late ELSE late + (u - usage[Agg])
  BY Constants DEF StreamUsage, routeVars
<1>2. parent \in {"stream", "ended", "closed"}
  BY <1>1 DEF SettleInv
<1>3. usage' \in [Children -> Nat] /\ bill' = SumFunctionOnSet(usage', Children) /\ bill' \in Nat
  BY <1>1, BilledSums
<1>4. bill' = bill + (u - usage[Agg]) /\ bill \in Nat /\ usage[Agg] \in Nat /\ SumFunction(usage) = bill
  BY <1>1, ChildSums DEF Billed, SettleInv
<1>5. SumFunction(usage') = bill'
  <2>1. (usage \in [Children -> Nat])' => (SumFunction(usage) = SumFunctionOnSet(usage, Children))'
    BY ChildSums, PTL
  <2> QED
    BY <1>3, <2>1
<1>6. late \in Nat /\ seen \in Nat /\ seen <= bill
  BY DEF SettleInv
<1>7. late' \in Nat /\ seen <= bill' /\ (parent = "stream" => late' = late)
  BY <1>1, <1>4, <1>6
<1>8. ASSUME parent # "stream" PROVE settled' = SumFunction(usage') - late'
  <2>1. settled = SumFunction(usage) - late
    BY <1>2, <1>8 DEF SettleInv, ChildrenSettled
  <2>2. (bill + (u - usage[Agg])) - (late + (u - usage[Agg])) = bill - late
    BY <1>4, <1>6
  <2> QED
    BY <1>1, <1>4, <1>5, <1>8, <2>1, <2>2
<1>9. ChildrenSettled'
  BY <1>1, <1>2, <1>8 DEF ChildrenSettled
<1>10. \A c \in PanelCalls : call'[c].at \in Ended
  BY <1>1, <1>2 DEF SettleInv
<1> QED
  BY <1>1, <1>2, <1>3, <1>6, <1>7, <1>9, <1>10 DEF SettleInv

\* The task that forwards only notes what is billed already.
LEMMA SettleForwarded ==
    ASSUME SettleInv, EndedStay, NEW more, Forwarded(more), fwd # "none", seen' \in Nat, seen' <= bill
    PROVE  SettleInv'
<1>1. UNCHANGED <<parent, usage, bill, settled, late>>
  BY DEF Forwarded
<1>2. parent \in {"stream", "ended", "closed"}
  BY DEF SettleInv
<1>3. \A c \in PanelCalls : call'[c].at \in Ended
  BY <1>2 DEF SettleInv, EndedStay, PanelCalls, Calls
<1> QED
  BY <1>1, <1>2, <1>3 DEF SettleInv, ChildrenSettled

LEMMA SettleForwarding ==
    ASSUME SettleInv, EndedStay, NoteUsage \/ ReplayFinishes \/ ForwardEnds
    PROVE  SettleInv'
<1>1. /\ bill = SumFunctionOnSet(usage, PanelCalls) + usage[Agg] /\ usage[Agg] \in Nat
      /\ SumFunctionOnSet(usage, PanelCalls) \in Nat /\ seen \in Nat /\ seen <= bill
  BY Constants, ChildSums DEF SettleInv
<1>2. CASE NoteUsage
  <2>1. fwd # "none" /\ seen' = bill /\ Forwarded("chunks")
    BY <1>1, <1>2 DEF NoteUsage
  <2>2. seen' \in Nat /\ seen' <= bill
    BY <1>1, <2>1
  <2> QED
    BY <2>1, <2>2, SettleForwarded
<1>3. CASE ReplayFinishes
  <2>1. fwd # "none" /\ seen' = SumFunctionOnSet(usage, PanelCalls) /\ Forwarded("replay")
    BY <1>3 DEF ReplayFinishes
  <2>2. seen' \in Nat /\ seen' <= bill
    BY <1>1, <2>1
  <2> QED
    BY <2>1, <2>2, SettleForwarded
<1>4. CASE ForwardEnds
  BY <1>1, <1>4, SettleForwarded DEF ForwardEnds
<1> QED
  BY <1>2, <1>3, <1>4

LEMMA SettleStreamStops ==
    ASSUME SettleInv, StreamStops
    PROVE  SettleInv'
<1>1. /\ parent = "stream" /\ parent' = "ended" /\ settled' = Preferred
      /\ UNCHANGED <<usage, bill, seen, fwd, late, call>>
  BY DEF StreamStops, routeVars
<1>2. bill \in Nat /\ SumFunction(usage) = bill /\ seen \in Nat /\ seen <= bill /\ late = 0 /\ bill - 0 = bill
  BY <1>1, ChildSums DEF SettleInv
<1>3. settled' = bill
  BY <1>1, <1>2 DEF Preferred
<1>4. ChildrenSettled'
  BY <1>1, <1>2, <1>3 DEF ChildrenSettled
<1> QED
  BY <1>1, <1>4 DEF SettleInv

LEMMA SettleLeaves ==
    ASSUME SettleInv, CallShape, ClientLeaves
    PROVE  SettleInv'
<1>1. /\ parent \in {"panel", "aggregate"} /\ parent' = "gone" /\ UNCHANGED <<usage, bill, seen, fwd, settled, late>>
      /\ call' = [c \in Calls |-> IF c \in Children /\ call[c].at \notin Ended
                                  THEN [call[c] EXCEPT !.at = "failed"] ELSE call[c]]
  BY DEF ClientLeaves
<1>2. \A c \in PanelCalls : call'[c].at \in Ended
  BY <1>1 DEF CallShape, CallRec, CallFields, PanelCalls, Calls, Ended
<1> QED
  BY <1>1, <1>2 DEF SettleInv, ChildrenSettled

LEMMA SettleStart == Init => CallShape /\ SettleInv
<1> SUFFICES ASSUME Init PROVE CallShape /\ SettleInv
  OBVIOUS
<1>1. CallShape
  <2>1. /\ load \in Loads /\ turn = 0
        /\ call = [c \in Calls |-> IF c \in DOMAIN load.held
                                   THEN [IdleCall EXCEPT !.at = "running", !.dep = load.held[c]] ELSE IdleCall]
    BY DEF Init, RoutingInit, FusionInit
  <2>2. <<>> \in Seq(Int) /\ Len(<<>>) = 0 /\ 0 <= Len(Deps)
    BY Constants
  <2>3. CallRec(IdleCall)
    BY <2>2 DEF IdleCall, CallRec, CallFields, Read, Choosing
  <2>4. ASSUME NEW d PROVE CallRec([IdleCall EXCEPT !.at = "running", !.dep = d])
    BY <2>2 DEF IdleCall, CallRec, CallFields, Read, Choosing
  <2> QED
    BY <2>1, <2>3, <2>4 DEF CallShape
<1>2. /\ usage = [c \in Children |-> 0] /\ bill = 0 /\ seen = 0 /\ parent = "idle" /\ fwd = "none" /\ late = 0
      /\ Agg \in Children /\ IsFiniteSet(Children)
  BY Constants DEF Init, FusionInit
<1>3. SumFunctionOnSet(usage, Children) = 0
  BY <1>2, SumZero
<1> QED
  BY <1>1, <1>2, <1>3 DEF SettleInv, ChildrenSettled

LEMMA SettleStep ==
    ASSUME CallShape, SettleInv, [Next]_vars
    PROVE  SettleInv'
<1>0. EndedStay
  BY CallsKept, EndedStays
<1>1. CASE UNCHANGED fusionVars
  BY <1>0, <1>1, SettleUnchanged DEF fusionVars
<1>2. ASSUME NEW c \in Calls, RequestStep(c) PROVE SettleInv'
  BY <1>1, <1>2 DEF RequestStep
<1>3. ASSUME NEW c \in Children, PanelStep(c) PROVE SettleInv'
  <2>1. ASSUME NEW p, PanelStarts(c, p) PROVE SettleInv'
    BY <1>1, <2>1 DEF PanelStarts
  <2>2. ASSUME NEW u \in 1 .. MaxUsage, NEW o, PanelReplies(c, u, o) PROVE SettleInv'
    BY <1>0, <2>2, SettlePanelReplies
  <2>3. CASE ChildFails(c)
    BY <1>1, <2>3 DEF ChildFails
  <2> QED
    BY <1>3, <2>1, <2>2, <2>3 DEF PanelStep
<1>4. CASE AggregatorStep
  <2>1. ASSUME NEW p, AggregatorStarts(p) PROVE SettleInv'
    BY <1>1, <2>1 DEF AggregatorStarts
  <2>2. ASSUME NEW u \in 1 .. MaxUsage, AggregatorReplies(u) PROVE SettleInv'
    BY <1>0, <2>2, SettleAggregatorReplies
  <2>3. ASSUME NEW u \in 1 .. MaxUsage, StreamUsage(u) PROVE SettleInv'
    BY <2>3, SettleStreamUsage
  <2>4. CASE StreamStarts
    <3>1. parent = "aggregate" /\ parent' = "stream" /\ UNCHANGED <<usage, bill, seen, settled, late>>
      BY <2>4 DEF StreamStarts
    <3>2. \A c \in PanelCalls : call'[c].at \in Ended
      BY <1>0, <3>1 DEF SettleInv, EndedStay, PanelCalls, Calls
    <3> QED
      BY <3>1, <3>2 DEF SettleInv, ChildrenSettled
  <2>5. CASE ReceiverDropped
    <3>1. parent = "ended" /\ parent' = "closed" /\ UNCHANGED <<usage, bill, seen, fwd, settled, late, call>>
      BY <2>5 DEF ReceiverDropped, routeVars
    <3> QED
      BY <3>1 DEF SettleInv, ChildrenSettled
  <2> QED
    BY <1>0, <1>4, <2>1, <2>2, <2>3, <2>4, <2>5, SettleFallBack, SettleForwarding, SettleStreamStops DEF AggregatorStep
<1>5. CASE Background
  BY <1>1, <1>5 DEF Background
<1>6. CASE FusionArrives
  <2>1. parent = "idle" /\ parent' = "panel" /\ UNCHANGED <<usage, bill, seen, fwd, settled, late, call>>
    BY <1>6 DEF FusionArrives, routeVars
  <2> QED
    BY <2>1 DEF SettleInv, ChildrenSettled
<1>7. CASE PanelDone
  BY <1>7, SettlePanelDone
<1>8. CASE ClientLeaves
  BY <1>8, SettleLeaves
<1>9. CASE UNCHANGED vars
  BY <1>1, <1>9 DEF vars
<1> QED
  BY <1>2, <1>3, <1>4, <1>5, <1>6, <1>7, <1>8, <1>9 DEF Next

\* A fusion workflow that answers, fails or whose stream stops is charged for exactly
\* what its children's providers had reported by then (settle_partial_provider_accounting,
\* preferred_stream_usage, GuardedFusionStream), for every panel and every usage, while
\* the task that forwards the chunks goes on: all that the charge misses is what that
\* task bills after the stream was dropped.
THEOREM FusionSettlesExactly == Spec => []ChildrenSettled
<1>1. Init => CallShape /\ SettleInv
  BY SettleStart
<1>2. CallShape /\ SettleInv /\ [Next]_vars => (CallShape /\ SettleInv)'
  BY CallsKept, SettleStep
<1>3. SettleInv => ChildrenSettled
  BY DEF SettleInv
<1> QED
  BY <1>1, <1>2, <1>3, PTL DEF Spec

-----------------------------------------------------------------------------
(***************************************************************************)
(* The KV index.  Every node that somebody can still reach has the path    *)
(* its edges spell, and a mark on it is a prefix its worker was sent; a    *)
(* recording task or a query stands on the node of the blocks it has       *)
(* walked.  Nodes that nobody reaches are reused, so nothing is said of    *)
(* them.                                                                   *)
(***************************************************************************)
WriterFields == {"at", "w", "p", "i", "cur", "evict"}
ReaderFields == {"at", "p", "i", "cur", "matched", "depth"}
SweepFields == {"at", "key", "cur", "todo", "done"}
Walking == {"enter", "mark", "register"}

IndexTypes ==
    /\ child \in [Nodes -> [Blocks -> Nodes \cup {Nil}]] /\ DOMAIN marks = Nodes /\ path \in [Nodes -> Seq(Blocks)]
    /\ lookup \in [BlockKeys -> Nodes \cup {Nil}] /\ DOMAIN learned = Workers
    /\ DOMAIN wr = Writers /\ \A t \in Writers : DOMAIN wr[t] = WriterFields /\ wr[t].cur \in Nodes
    /\ DOMAIN sweep = SweepFields /\ sweep.cur \in Nodes /\ DOMAIN rd = Readers
    /\ \A r \in Readers : DOMAIN rd[r] = ReaderFields /\ rd[r].cur \in Nodes /\ rd[r].depth \in [Workers -> Nat]

TrieTrue ==
    /\ path[Root] = <<>>
    /\ \A n \in Live, b \in Blocks : child[n][b] # Nil => path[child[n][b]] = Append(path[n], b)
    /\ \A n \in Live, w \in Workers : w \in marks[n] => path[n] \in learned[w]

WriterTrue(t) ==
    wr[t].at \in Walking =>
        /\ wr[t].p \in Seq(Blocks) /\ wr[t].i \in 1 .. Len(wr[t].p)
        /\ path[wr[t].cur] = SubSeq(wr[t].p, 1, IF wr[t].at = "enter" THEN wr[t].i - 1 ELSE wr[t].i)
        /\ wr[t].w \in Workers => Prefixes(wr[t].p) \subseteq learned[wr[t].w]

ReaderTrue(r) ==
    /\ rd[r].at # "idle" => rd[r].p \in FullPrefix
    /\ rd[r].at \in {"enter", "read"} =>
          /\ rd[r].p \in Seq(Blocks) /\ rd[r].i \in 1 .. Len(rd[r].p)
          /\ path[rd[r].cur] = SubSeq(rd[r].p, 1, IF rd[r].at = "enter" THEN rd[r].i - 1 ELSE rd[r].i)
    /\ \A w \in Workers : rd[r].depth[w] > 0 => SubSeq(rd[r].p, 1, rd[r].depth[w]) \in learned[w]

IndexInv ==
    /\ IndexTypes /\ TrieTrue
    /\ (\A t \in Writers : WriterTrue(t)) /\ (\A r \in Readers : ReaderTrue(r))

LEMMA PrefixGrows ==
    ASSUME NEW p \in Seq(Blocks), NEW i \in 1 .. Len(p)
    PROVE  /\ Append(SubSeq(p, 1, i - 1), p[i]) = SubSeq(p, 1, i) /\ p[i] \in Blocks
           /\ SubSeq(p, 1, i) \in Prefixes(p) /\ SubSeq(p, 1, 0) = <<>>
<1>1. p[i] \in Blocks /\ i \in Nat /\ Len(p) \in Nat /\ i <= Len(p) /\ 1 <= i
  OBVIOUS
<1>2. SubSeq(p, 1, i) \in Prefixes(p)
  BY <1>1 DEF Prefixes
<1>3. SubSeq(p, 1, 0) = <<>>
  OBVIOUS
<1>4. Append(SubSeq(p, 1, i - 1), p[i]) = SubSeq(p, 1, i)
  <2> DEFINE s == SubSeq(p, 1, i - 1)
             a == Append(s, p[i])
             z == SubSeq(p, 1, i)
  <2>1. s \in Seq(Blocks) /\ Len(s) = i - 1 /\ \A j \in 1 .. i - 1 : s[j] = p[j]
    BY <1>1
  <2>2. z \in Seq(Blocks) /\ Len(z) = i /\ \A j \in 1 .. i : z[j] = p[j]
    BY <1>1
  <2>3. a \in Seq(Blocks) /\ Len(a) = i /\ \A j \in 1 .. i : a[j] = p[j]
    BY <1>1, <2>1
  <2> QED
    BY <2>2, <2>3
<1> QED
  BY <1>1, <1>2, <1>3, <1>4

\* What is held is live, and so is what hangs below it.
LEMMA LiveFacts ==
    ASSUME IndexTypes
    PROVE  /\ Live \subseteq Nodes /\ Root \in Live
           /\ \A k \in BlockKeys : lookup[k] \in Live \cup {Nil}
           /\ \A t \in Writers : wr[t].cur \in Live
           /\ (\A r \in Readers : rd[r].cur \in Live) /\ sweep.cur \in Live
           /\ \A n \in Live, b \in Blocks : child[n][b] \in Live \cup {Nil}
<1>1. Held \subseteq Nodes
  BY IndexAssumption DEF Held, IndexTypes
<1>2. Held \subseteq Live
  BY <1>1 DEF Live, Closed
<1>3. ASSUME NEW n \in Live, NEW b \in Blocks PROVE child[n][b] \in Live \cup {Nil}
  <2>1. n \in Nodes /\ child[n][b] \in Nodes \cup {Nil}
    BY DEF Live, IndexTypes
  <2>2. ASSUME NEW S \in SUBSET Nodes, Closed(S) PROVE child[n][b] \in S \cup {Nil}
    BY <2>2 DEF Live, Closed
  <2> QED
    BY <2>1, <2>2 DEF Live
<1>4. /\ Root \in Held /\ sweep.cur \in Held /\ \A t \in Writers : wr[t].cur \in Held
      /\ \A r \in Readers : rd[r].cur \in Held
      /\ \A k \in BlockKeys : lookup[k] \in Held \cup {Nil}
  BY DEF Held
<1> QED
  BY <1>2, <1>3, <1>4 DEF Live

\* A closed set bounds what is live after a step.
LEMMA LiveAfter ==
    ASSUME NEW S \in SUBSET Nodes, Root \in S, sweep'.cur \in S,
           \A k \in BlockKeys : lookup'[k] \in S \cup {Nil},
           \A t \in Writers : wr'[t].cur \in S, \A r \in Readers : rd'[r].cur \in S,
           \A n \in S, b \in Blocks : child'[n][b] \in S \cup {Nil}
    PROVE  Live' \subseteq S
<1>1. Held' \subseteq S
  BY DEF Held
<1>2. Closed(S)'
  BY <1>1 DEF Closed
<1> QED
  BY <1>2 DEF Live

LearnedGrows == DOMAIN learned' = Workers /\ \A w \in Workers : learned[w] \subseteq learned'[w]

\* A step that creates no node: edges only go, holders stay on what was live, and
\* what is marked was learned.
LEMMA TrieKept ==
    ASSUME IndexTypes, TrieTrue, IndexTypes', LearnedGrows, path' = path, sweep'.cur \in Live,
           \A k \in BlockKeys : lookup'[k] \in Live \cup {Nil},
           \A t \in Writers : wr'[t].cur \in Live, \A r \in Readers : rd'[r].cur \in Live,
           \A n \in Nodes : child'[n] = child[n] \/ child'[n] = NoKids,
           \A n \in Live, w \in Workers : w \in marks'[n] => w \in marks[n] \/ path[n] \in learned[w]
    PROVE  TrieTrue'
<1>1. /\ Live \subseteq Nodes /\ Root \in Live
      /\ \A n \in Live, b \in Blocks : child[n][b] \in Live \cup {Nil}
  BY LiveFacts
<1>2. \A n \in Live, b \in Blocks : child'[n][b] = child[n][b] \/ child'[n][b] = Nil
  BY <1>1 DEF NoKids
<1>3. Live' \subseteq Live
  BY <1>1, <1>2, LiveAfter
<1>4. path'[Root] = <<>>
  BY DEF TrieTrue
<1>5. ASSUME NEW n \in Live', NEW b \in Blocks, child'[n][b] # Nil
      PROVE  path'[child'[n][b]] = Append(path'[n], b)
  BY <1>2, <1>3, <1>5 DEF TrieTrue
<1>6. ASSUME NEW n \in Live', NEW w \in Workers, w \in marks'[n]
      PROVE  path'[n] \in learned'[w]
  <2>1. path[n] \in learned[w]
    BY <1>3, <1>6 DEF TrieTrue
  <2> QED
    BY <2>1 DEF LearnedGrows
<1> QED
  BY <1>4, <1>5, <1>6 DEF TrieTrue

\* Who does not move keeps its place.
LEMMA WriterKept ==
    ASSUME NEW t \in Writers, WriterTrue(t), wr'[t] = wr[t], path'[wr[t].cur] = path[wr[t].cur], LearnedGrows
    PROVE  WriterTrue(t)'
BY DEF WriterTrue, LearnedGrows

LEMMA ReaderKept ==
    ASSUME NEW r \in Readers, ReaderTrue(r), rd'[r] = rd[r], path'[rd[r].cur] = path[rd[r].cur], LearnedGrows
    PROVE  ReaderTrue(r)'
BY DEF ReaderTrue, LearnedGrows

WriterGoes(t) ==
    \/ wr'[t] = wr[t]
    \/ DOMAIN wr'[t] = WriterFields /\ wr'[t].cur \in Live /\ WriterTrue(t)'
ReaderGoes(r) ==
    \/ rd'[r] = rd[r]
    \/ DOMAIN rd'[r] = ReaderFields /\ rd'[r].cur \in Live /\ rd'[r].depth \in [Workers -> Nat] /\ ReaderTrue(r)'
SweepGoes == DOMAIN sweep' = SweepFields /\ sweep'.cur \in Live
TrieShrinks ==
    /\ path' = path /\ child' \in [Nodes -> [Blocks -> Nodes \cup {Nil}]] /\ DOMAIN marks' = Nodes
    /\ \A n \in Nodes : child'[n] = child[n] \/ child'[n] = NoKids
    /\ \A n \in Live, w \in Workers : w \in marks'[n] => w \in marks[n] \/ path[n] \in learned[w]

LEMMA IndexKept ==
    ASSUME IndexInv, TrieShrinks, LearnedGrows, SweepGoes,
           lookup' \in [BlockKeys -> Nodes \cup {Nil}], \A k \in BlockKeys : lookup'[k] \in Live \cup {Nil},
           DOMAIN wr' = Writers, \A t \in Writers : WriterGoes(t),
           DOMAIN rd' = Readers, \A r \in Readers : ReaderGoes(r)
    PROVE  IndexInv'
<1>0. IndexTypes /\ TrieTrue /\ (\A t \in Writers : WriterTrue(t)) /\ (\A r \in Readers : ReaderTrue(r))
  BY DEF IndexInv
<1>1. Live \subseteq Nodes /\ (\A t \in Writers : wr[t].cur \in Live) /\ (\A r \in Readers : rd[r].cur \in Live)
  BY <1>0, LiveFacts
<1>2. \A t \in Writers : DOMAIN wr'[t] = WriterFields /\ wr'[t].cur \in Live
  BY <1>0, <1>1 DEF WriterGoes, IndexTypes
<1>3. \A r \in Readers : DOMAIN rd'[r] = ReaderFields /\ rd'[r].cur \in Live /\ rd'[r].depth \in [Workers -> Nat]
  BY <1>0, <1>1 DEF ReaderGoes, IndexTypes
<1>4. path' = path /\ path' \in [Nodes -> Seq(Blocks)] /\ DOMAIN learned' = Workers
  BY <1>0 DEF TrieShrinks, IndexTypes, LearnedGrows
<1>5. IndexTypes'
  BY <1>1, <1>2, <1>3, <1>4 DEF IndexTypes, TrieShrinks, SweepGoes
<1>6. TrieTrue'
  BY <1>0, <1>2, <1>3, <1>5, TrieKept DEF TrieShrinks, SweepGoes
<1>7. ASSUME NEW t \in Writers PROVE WriterTrue(t)'
  BY <1>0, <1>4, WriterKept DEF WriterGoes
<1>8. ASSUME NEW r \in Readers PROVE ReaderTrue(r)'
  BY <1>0, <1>4, ReaderKept DEF ReaderGoes
<1> QED
  BY <1>5, <1>6, <1>7, <1>8 DEF IndexInv

LEMMA SameTrie ==
    ASSUME IndexInv, UNCHANGED trieVars
    PROVE  TrieShrinks
BY DEF IndexInv, IndexTypes, TrieShrinks, trieVars

LEMMA SameLookup ==
    ASSUME IndexInv, UNCHANGED lookup
    PROVE  /\ lookup' \in [BlockKeys -> Nodes \cup {Nil}]
           /\ \A k \in BlockKeys : lookup'[k] \in Live \cup {Nil}
<1>1. IndexTypes
  BY DEF IndexInv
<1> QED
  BY <1>1, LiveFacts DEF IndexTypes

LEMMA SameLearned ==
    ASSUME IndexInv, UNCHANGED learned
    PROVE  LearnedGrows
BY DEF IndexInv, IndexTypes, LearnedGrows

LEMMA SameReaders ==
    ASSUME IndexInv, UNCHANGED rd
    PROVE  DOMAIN rd' = Readers /\ \A r \in Readers : ReaderGoes(r)
BY DEF IndexInv, IndexTypes, ReaderGoes

LEMMA SameWriters ==
    ASSUME IndexInv, UNCHANGED wr
    PROVE  DOMAIN wr' = Writers /\ \A t \in Writers : WriterGoes(t)
BY DEF IndexInv, IndexTypes, WriterGoes

LEMMA SameSweep ==
    ASSUME IndexInv, UNCHANGED sweep
    PROVE  SweepGoes
<1>1. IndexTypes
  BY DEF IndexInv
<1> QED
  BY <1>1, LiveFacts DEF IndexTypes, SweepGoes

\* evict_single_block takes marks and edges away.
LEMMA UnmarkShrinks ==
    ASSUME IndexInv, NEW m, NEW w, Unmark(m, w)
    PROVE  TrieShrinks
<1>0. IndexTypes
  BY DEF IndexInv
<1>1. NoKids \in [Blocks -> Nodes \cup {Nil}]
  BY DEF NoKids
<1>2. path' = path /\ DOMAIN marks' = Nodes /\ \A n \in Nodes : marks'[n] \subseteq marks[n]
  BY <1>0 DEF Unmark, IndexTypes
<1>3. child' = child \/ child' = [child EXCEPT ![m] = NoKids]
  BY DEF Unmark
<1>4. child' \in [Nodes -> [Blocks -> Nodes \cup {Nil}]]
  BY <1>0, <1>1, <1>3 DEF IndexTypes
<1>5. \A n \in Nodes : child'[n] = child[n] \/ child'[n] = NoKids
  BY <1>0, <1>3 DEF IndexTypes
<1>6. Live \subseteq Nodes
  BY <1>0, LiveFacts
<1> QED
  BY <1>2, <1>4, <1>5, <1>6 DEF TrieShrinks

\* A recording task that has done its walk.
LEMMA WriterParks ==
    ASSUME IndexInv, NEW t \in Writers, NEW rec, Writer(t, rec), DOMAIN rec = WriterFields,
           rec.at \notin Walking, rec.cur \in Live
    PROVE  DOMAIN wr' = Writers /\ \A u \in Writers : WriterGoes(u)
<1>1. wr' = [wr EXCEPT ![t] = rec] /\ DOMAIN wr = Writers
  BY DEF Writer, IndexInv, IndexTypes
<1>2. DOMAIN wr' = Writers /\ \A u \in Writers : wr'[u] = IF u = t THEN rec ELSE wr[u]
  BY <1>1
<1>3. WriterTrue(t)'
  BY <1>2 DEF WriterTrue
<1> QED
  BY <1>2, <1>3 DEF WriterGoes

\* A recording task steps to a node that was there ...
LEMMA EnterOld ==
    ASSUME IndexInv, NEW t \in Writers, EnterChild(t), child[wr[t].cur][Block(t)] # Nil
    PROVE  IndexInv'
<1>0. IndexTypes /\ TrieTrue /\ WriterTrue(t)
  BY DEF IndexInv
<1> DEFINE here == wr[t].cur
           next == child[here][Block(t)]
           rec == [wr[t] EXCEPT !.at = "mark", !.cur = next]
<1>1. wr[t].at = "enter" /\ Writer(t, rec) /\ UNCHANGED <<trieVars, lookup, rd, sweep, learned>>
  BY DEF EnterChild
<1>2. /\ wr[t].p \in Seq(Blocks) /\ wr[t].i \in 1 .. Len(wr[t].p)
      /\ path[here] = SubSeq(wr[t].p, 1, wr[t].i - 1)
      /\ wr[t].w \in Workers => Prefixes(wr[t].p) \subseteq learned[wr[t].w]
  BY <1>0, <1>1 DEF WriterTrue, Walking
<1>3. /\ Append(SubSeq(wr[t].p, 1, wr[t].i - 1), Block(t)) = SubSeq(wr[t].p, 1, wr[t].i)
      /\ Block(t) \in Blocks
  BY <1>2, PrefixGrows DEF Block
<1>4. here \in Live /\ next \in Live
  BY <1>0, <1>3, LiveFacts
<1>5. path[next] = SubSeq(wr[t].p, 1, wr[t].i)
  BY <1>0, <1>2, <1>3, <1>4 DEF TrieTrue
<1>6. DOMAIN wr = Writers /\ DOMAIN wr[t] = WriterFields
  BY <1>0 DEF IndexTypes
<1>7. /\ DOMAIN rec = WriterFields /\ rec.cur = next /\ rec.at = "mark" /\ rec.p = wr[t].p
      /\ rec.i = wr[t].i /\ rec.w = wr[t].w
  BY <1>6 DEF WriterFields
<1>8. wr' = [wr EXCEPT ![t] = rec]
  BY <1>1 DEF Writer
<1> HIDE DEF rec, next
<1>9. DOMAIN wr' = Writers /\ \A u \in Writers : wr'[u] = IF u = t THEN rec ELSE wr[u]
  BY <1>6, <1>8
<1>10. WriterTrue(t)'
  <2>1. wr'[t] = rec /\ path' = path /\ learned' = learned
    BY <1>1, <1>9 DEF trieVars
  <2> QED
    BY <1>2, <1>5, <1>7, <2>1 DEF WriterTrue
<1>11. \A u \in Writers : WriterGoes(u)
  BY <1>4, <1>7, <1>9, <1>10 DEF WriterGoes
<1> QED
  BY <1>1, <1>9, <1>11, SameTrie, SameLookup, SameLearned, SameReaders, SameSweep, IndexKept

\* ... or creates it, out of what nobody reaches.
LEMMA EnterNew ==
    ASSUME IndexInv, NEW t \in Writers, EnterChild(t), child[wr[t].cur][Block(t)] = Nil
    PROVE  IndexInv'
<1>0. IndexTypes /\ TrieTrue /\ (\A u \in Writers : WriterTrue(u)) /\ (\A r \in Readers : ReaderTrue(r))
  BY DEF IndexInv
<1> DEFINE here == wr[t].cur
           new == FreshNode
           B == Block(t)
           rec == [wr[t] EXCEPT !.at = "mark", !.cur = new]
           S == Live \cup {new}
<1>1. /\ wr[t].at = "enter" /\ Live # Nodes /\ Writer(t, rec) /\ UNCHANGED <<lookup, rd, sweep, learned>>
      /\ child' = [child EXCEPT ![here][B] = new, ![new] = NoKids]
      /\ marks' = [marks EXCEPT ![new] = {}]
      /\ path' = [path EXCEPT ![new] = Append(path[here], B)]
  BY DEF EnterChild
<1>2. /\ wr[t].p \in Seq(Blocks) /\ wr[t].i \in 1 .. Len(wr[t].p)
      /\ path[here] = SubSeq(wr[t].p, 1, wr[t].i - 1)
      /\ wr[t].w \in Workers => Prefixes(wr[t].p) \subseteq learned[wr[t].w]
  BY <1>0, <1>1 DEF WriterTrue, Walking
<1>3. Append(SubSeq(wr[t].p, 1, wr[t].i - 1), B) = SubSeq(wr[t].p, 1, wr[t].i) /\ B \in Blocks
  BY <1>2, PrefixGrows DEF Block
<1>4. /\ Live \subseteq Nodes /\ Root \in Live /\ here \in Live /\ sweep.cur \in Live
      /\ \A k \in BlockKeys : lookup[k] \in Live \cup {Nil}
      /\ \A u \in Writers : wr[u].cur \in Live
      /\ \A r \in Readers : rd[r].cur \in Live
      /\ \A n \in Live, b \in Blocks : child[n][b] \in Live \cup {Nil}
  BY <1>0, LiveFacts
<1>5. new \in Nodes /\ new \notin Live
  BY <1>1, <1>4 DEF FreshNode
<1>6. DOMAIN wr = Writers /\ DOMAIN wr[t] = WriterFields
  BY <1>0 DEF IndexTypes
<1>7. /\ DOMAIN rec = WriterFields /\ rec.cur = new /\ rec.at = "mark" /\ rec.p = wr[t].p
      /\ rec.i = wr[t].i /\ rec.w = wr[t].w
  BY <1>6 DEF WriterFields
<1>8. wr' = [wr EXCEPT ![t] = rec]
  BY <1>1 DEF Writer
<1> HIDE DEF rec, new, B
<1>9. DOMAIN wr' = Writers /\ \A u \in Writers : wr'[u] = IF u = t THEN rec ELSE wr[u]
  BY <1>6, <1>8
<1>10. /\ child' \in [Nodes -> [Blocks -> Nodes \cup {Nil}]] /\ child'[new] = NoKids
       /\ \A n \in Live, b \in Blocks : child'[n][b] = IF n = here /\ b = B THEN new ELSE child[n][b]
  <2>1. child \in [Nodes -> [Blocks -> Nodes \cup {Nil}]] /\ NoKids \in [Blocks -> Nodes \cup {Nil}]
    BY <1>0 DEF IndexTypes, NoKids
  <2>2. here \in Nodes /\ here # new
    BY <1>4, <1>5
  <2>3. child' = [n \in Nodes |-> IF n = new THEN NoKids
                                  ELSE IF n = here THEN [child[here] EXCEPT ![B] = new] ELSE child[n]]
    BY <1>1, <2>1, <2>2
  <2> QED
    BY <1>3, <1>4, <1>5, <2>1, <2>2, <2>3
<1>11. /\ path' \in [Nodes -> Seq(Blocks)] /\ path'[new] = SubSeq(wr[t].p, 1, wr[t].i)
       /\ path'[new] = Append(path[here], B)
       /\ \A n \in Live : path'[n] = path[n]
  <2>1. path \in [Nodes -> Seq(Blocks)] /\ path[here] \in Seq(Blocks)
    BY <1>0, <1>4 DEF IndexTypes
  <2>2. Append(path[here], B) \in Seq(Blocks)
    BY <1>3, <2>1
  <2> QED
    BY <1>1, <1>2, <1>3, <1>4, <1>5, <2>1, <2>2
<1>12. DOMAIN marks' = Nodes /\ marks'[new] = {} /\ \A n \in Live : marks'[n] = marks[n]
  BY <1>0, <1>1, <1>4, <1>5 DEF IndexTypes
<1>13. IndexTypes'
  BY <1>0, <1>1, <1>5, <1>7, <1>9, <1>10, <1>11, <1>12 DEF IndexTypes
<1>14. Live' \subseteq S
  <2>1. S \in SUBSET Nodes /\ Root \in S /\ sweep'.cur \in S
    BY <1>1, <1>4, <1>5
  <2>2. \A k \in BlockKeys : lookup'[k] \in S \cup {Nil}
    BY <1>1, <1>4
  <2>3. (\A u \in Writers : wr'[u].cur \in S) /\ (\A r \in Readers : rd'[r].cur \in S)
    BY <1>1, <1>4, <1>7, <1>9
  <2>4. \A n \in S, b \in Blocks : child'[n][b] \in S \cup {Nil}
    BY <1>4, <1>10 DEF NoKids
  <2> HIDE DEF S
  <2> QED
    BY <2>1, <2>2, <2>3, <2>4, LiveAfter
<1>15. TrieTrue'
  <2>1. path'[Root] = <<>>
    BY <1>0, <1>4, <1>11 DEF TrieTrue
  <2>2. ASSUME NEW n \in Live', NEW b \in Blocks, child'[n][b] # Nil
        PROVE  path'[child'[n][b]] = Append(path'[n], b)
    <3>1. n # new /\ n \in Live
      BY <1>10, <1>14, <2>2 DEF NoKids
    <3>2. CASE n = here /\ b = B
      BY <1>10, <1>11, <3>1, <3>2
    <3>3. CASE ~(n = here /\ b = B)
      <4>1. child'[n][b] = child[n][b] /\ child[n][b] \in Live
        BY <1>4, <1>10, <2>2, <3>1, <3>3
      <4> QED
        BY <1>0, <1>11, <2>2, <3>1, <4>1 DEF TrieTrue
    <3> QED
      BY <3>2, <3>3
  <2>3. ASSUME NEW n \in Live', NEW w \in Workers, w \in marks'[n]
        PROVE  path'[n] \in learned'[w]
    <3>1. n \in Live
      BY <1>12, <1>14, <2>3
    <3> QED
      BY <1>0, <1>1, <1>11, <1>12, <2>3, <3>1 DEF TrieTrue
  <2> QED
    BY <2>1, <2>2, <2>3 DEF TrieTrue
<1>16. LearnedGrows
  BY <1>1, SameLearned
<1>17. ASSUME NEW u \in Writers PROVE WriterTrue(u)'
  <2>1. CASE u = t
    <3>1. wr'[u] = rec /\ learned' = learned
      BY <1>1, <1>9, <2>1
    <3> QED
      BY <1>2, <1>7, <1>11, <3>1 DEF WriterTrue
  <2>2. CASE u # t
    <3>1. wr'[u] = wr[u] /\ path'[wr[u].cur] = path[wr[u].cur]
      BY <1>4, <1>9, <1>11, <2>2
    <3> QED
      BY <1>0, <1>16, <3>1, WriterKept
  <2> QED
    BY <2>1, <2>2
<1>18. ASSUME NEW r \in Readers PROVE ReaderTrue(r)'
  <2>1. rd'[r] = rd[r] /\ path'[rd[r].cur] = path[rd[r].cur]
    BY <1>1, <1>4, <1>11
  <2> QED
    BY <1>0, <1>16, <2>1, ReaderKept
<1> QED
  BY <1>13, <1>15, <1>17, <1>18 DEF IndexInv

\* The mark is a prefix the worker has been sent.
LEMMA MarkTrue ==
    ASSUME IndexInv, NEW t \in Writers, MarkChild(t)
    PROVE  IndexInv'
<1>0. IndexTypes /\ WriterTrue(t)
  BY DEF IndexInv
<1> DEFINE rec == [wr[t] EXCEPT !.at = "register"]
           here == wr[t].cur
<1>1. /\ wr[t].at = "mark" /\ Writer(t, rec) /\ marks' = [marks EXCEPT ![here] = @ \cup {wr[t].w}]
      /\ UNCHANGED <<child, path, lookup, rd, sweep, learned>>
  BY DEF MarkChild
<1>2. /\ wr[t].p \in Seq(Blocks) /\ wr[t].i \in 1 .. Len(wr[t].p)
      /\ path[here] = SubSeq(wr[t].p, 1, wr[t].i)
      /\ wr[t].w \in Workers => Prefixes(wr[t].p) \subseteq learned[wr[t].w]
  BY <1>0, <1>1 DEF WriterTrue, Walking
<1>3. wr[t].w \in Workers => path[here] \in learned[wr[t].w]
  BY <1>2, PrefixGrows
<1>4. here \in Live /\ Live \subseteq Nodes
  BY <1>0, LiveFacts
<1>5. TrieShrinks
  <2>1. DOMAIN marks' = Nodes /\ \A n \in Nodes : marks'[n] = IF n = here THEN marks[n] \cup {wr[t].w} ELSE marks[n]
    BY <1>0, <1>1, <1>4 DEF IndexTypes
  <2>2. \A n \in Live, w \in Workers : w \in marks'[n] => w \in marks[n] \/ path[n] \in learned[w]
    BY <1>3, <1>4, <2>1
  <2>3. path' = path /\ child' = child /\ child \in [Nodes -> [Blocks -> Nodes \cup {Nil}]]
    BY <1>0, <1>1 DEF IndexTypes
  <2> QED
    BY <2>1, <2>2, <2>3 DEF TrieShrinks
<1>6. DOMAIN wr = Writers /\ DOMAIN wr[t] = WriterFields
  BY <1>0 DEF IndexTypes
<1>7. /\ DOMAIN rec = WriterFields /\ rec.cur = here /\ rec.at = "register" /\ rec.p = wr[t].p
      /\ rec.i = wr[t].i /\ rec.w = wr[t].w
  BY <1>6 DEF WriterFields
<1>8. wr' = [wr EXCEPT ![t] = rec]
  BY <1>1 DEF Writer
<1> HIDE DEF rec
<1>9. DOMAIN wr' = Writers /\ \A u \in Writers : wr'[u] = IF u = t THEN rec ELSE wr[u]
  BY <1>6, <1>8
<1>10. WriterTrue(t)'
  <2>1. wr'[t] = rec
    BY <1>9
  <2> QED
    BY <1>1, <1>2, <1>7, <2>1 DEF WriterTrue
<1>11. \A u \in Writers : WriterGoes(u)
  BY <1>4, <1>7, <1>9, <1>10 DEF WriterGoes
<1> QED
  BY <1>1, <1>5, <1>9, <1>11, SameLookup, SameLearned, SameReaders, SameSweep, IndexKept

LEMMA RegisterTrue ==
    ASSUME IndexInv, NEW t \in Writers, Register(t)
    PROVE  IndexInv'
<1>0. IndexTypes /\ WriterTrue(t)
  BY DEF IndexInv
<1> DEFINE down == [wr[t] EXCEPT !.at = "enter", !.i = @ + 1]
           out == [wr[t] EXCEPT !.at = "queue"]
           here == wr[t].cur
<1>1. /\ wr[t].at = "register" /\ lookup' = [lookup EXCEPT ![<<wr[t].w, Block(t)>>] = here]
      /\ Writer(t, IF wr[t].i < Len(wr[t].p) THEN down ELSE out)
      /\ UNCHANGED <<trieVars, rd, sweep, learned>>
  BY DEF Register
<1>2. /\ wr[t].p \in Seq(Blocks) /\ wr[t].i \in 1 .. Len(wr[t].p)
      /\ path[here] = SubSeq(wr[t].p, 1, wr[t].i)
      /\ wr[t].w \in Workers => Prefixes(wr[t].p) \subseteq learned[wr[t].w]
  BY <1>0, <1>1 DEF WriterTrue, Walking
<1>3. here \in Live /\ Live \subseteq Nodes /\ \A k \in BlockKeys : lookup[k] \in Live \cup {Nil}
  BY <1>0, LiveFacts
<1>4. /\ lookup' \in [BlockKeys -> Nodes \cup {Nil}]
      /\ \A k \in BlockKeys : lookup'[k] \in Live \cup {Nil}
  <2>1. lookup \in [BlockKeys -> Nodes \cup {Nil}] /\ here \in Nodes
    BY <1>0 DEF IndexTypes
  <2> QED
    BY <1>1, <1>3, <2>1
<1>5. DOMAIN wr = Writers /\ DOMAIN wr[t] = WriterFields
  BY <1>0 DEF IndexTypes
<1>6. CASE wr[t].i < Len(wr[t].p)
  <2>1. /\ DOMAIN down = WriterFields /\ down.cur = here /\ down.at = "enter" /\ down.p = wr[t].p
        /\ down.i = wr[t].i + 1 /\ down.w = wr[t].w
    BY <1>5 DEF WriterFields
  <2>2. wr' = [wr EXCEPT ![t] = down]
    BY <1>1, <1>6 DEF Writer
  <2>3. down.i \in 1 .. Len(wr[t].p) /\ down.i - 1 = wr[t].i
    BY <1>2, <1>6, <2>1
  <2> HIDE DEF down
  <2>4. DOMAIN wr' = Writers /\ \A u \in Writers : wr'[u] = IF u = t THEN down ELSE wr[u]
    BY <1>5, <2>2
  <2>5. WriterTrue(t)'
    <3>1. wr'[t] = down /\ path' = path /\ learned' = learned
      BY <1>1, <2>4 DEF trieVars
    <3> QED
      BY <1>2, <2>1, <2>3, <3>1 DEF WriterTrue
  <2>6. \A u \in Writers : WriterGoes(u)
    BY <1>3, <2>1, <2>4, <2>5 DEF WriterGoes
  <2> QED
    BY <1>1, <1>4, <2>4, <2>6, SameTrie, SameLearned, SameReaders, SameSweep, IndexKept
<1>7. CASE ~(wr[t].i < Len(wr[t].p))
  <2>1. DOMAIN out = WriterFields /\ out.cur = here /\ out.at = "queue"
    BY <1>5 DEF WriterFields
  <2>2. Writer(t, out)
    BY <1>1, <1>7
  <2> HIDE DEF out
  <2>3. DOMAIN wr' = Writers /\ \A u \in Writers : WriterGoes(u)
    BY <1>3, <2>1, <2>2, WriterParks DEF Walking
  <2> QED
    BY <1>1, <1>4, <2>3, SameTrie, SameLearned, SameReaders, SameSweep, IndexKept
<1> QED
  BY <1>6, <1>7

\* Queue, timers, evictions and the lookup do not touch paths or walks.
LEMMA WriterRest ==
    ASSUME IndexInv, NEW t \in Writers,
           QueueBatch(t) \/ FindBlock(t) \/ EvictBlock(t) \/ Unlook(t) \/ Untime(t) \/ Unqueue(t)
    PROVE  IndexInv'
<1>0. IndexTypes
  BY DEF IndexInv
<1>1. wr[t].cur \in Live /\ Root \in Live /\ \A k \in BlockKeys : lookup[k] \in Live \cup {Nil}
  BY <1>0, LiveFacts
<1>2. DOMAIN wr[t] = WriterFields
  BY <1>0 DEF IndexTypes
<1>3. /\ DOMAIN IdleWriter = WriterFields /\ IdleWriter.at = "idle" /\ IdleWriter.cur = Root
  BY DEF IdleWriter, WriterFields
<1>4. ASSUME NEW rec, Writer(t, rec),
             \/ rec = IdleWriter
             \/ \E a \in {"evict", "unmark", "unlook", "untime", "unqueue"}, n \in Live : \E e :
                   \/ rec = [wr[t] EXCEPT !.at = a] \/ rec = [wr[t] EXCEPT !.at = a, !.evict = e]
                   \/ rec = [wr[t] EXCEPT !.at = a, !.evict = e, !.cur = n]
                   \/ rec = [wr[t] EXCEPT !.at = a, !.cur = n]
      PROVE  DOMAIN wr' = Writers /\ \A u \in Writers : WriterGoes(u)
  <2>1. DOMAIN rec = WriterFields /\ rec.at \notin Walking /\ rec.cur \in Live
    <3>1. CASE rec = IdleWriter
      BY <1>1, <1>3, <3>1 DEF Walking
    <3>2. ASSUME NEW a \in {"evict", "unmark", "unlook", "untime", "unqueue"}, NEW e, NEW n \in Live,
                 \/ rec = [wr[t] EXCEPT !.at = a] \/ rec = [wr[t] EXCEPT !.at = a, !.evict = e]
                 \/ rec = [wr[t] EXCEPT !.at = a, !.evict = e, !.cur = n]
                 \/ rec = [wr[t] EXCEPT !.at = a, !.cur = n]
          PROVE  DOMAIN rec = WriterFields /\ rec.at \notin Walking /\ rec.cur \in Live
      <4>1. DOMAIN rec = WriterFields /\ rec.at = a /\ rec.cur \in {wr[t].cur, n}
        BY <1>2, <3>2 DEF WriterFields
      <4> QED
        BY <1>1, <4>1 DEF Walking
    <3> QED
      BY <1>4, <3>1, <3>2
  <2> QED
    BY <1>4, <2>1, WriterParks
<1>5. CASE QueueBatch(t)
  <2>1. \E e : Writer(t, IF e = <<>> THEN IdleWriter ELSE [wr[t] EXCEPT !.at = "evict", !.evict = e, !.cur = Root])
    BY <1>5 DEF QueueBatch
  <2>2. DOMAIN wr' = Writers /\ \A u \in Writers : WriterGoes(u)
    BY <1>1, <1>4, <2>1
  <2> QED
    BY <1>5, <2>2, SameTrie, SameLookup, SameLearned, SameReaders, SameSweep, IndexKept DEF QueueBatch
<1>a. CASE FindBlock(t)
  <2>1. PICK k \in BlockKeys : Writer(t, IF lookup[k] = Nil THEN [wr[t] EXCEPT !.at = "untime"]
                                          ELSE [wr[t] EXCEPT !.at = "unmark", !.cur = lookup[k]])
    BY <1>a DEF FindBlock
  <2>2. lookup[k] \in Live \cup {Nil}
    BY <1>1
  <2>3. DOMAIN wr' = Writers /\ \A u \in Writers : WriterGoes(u)
    <3>1. CASE lookup[k] = Nil
      BY <1>1, <1>4, <2>1, <3>1
    <3>2. CASE lookup[k] # Nil
      BY <1>4, <2>1, <2>2, <3>2
    <3> QED
      BY <3>1, <3>2
  <2> QED
    BY <1>a, <2>3, SameTrie, SameLookup, SameLearned, SameReaders, SameSweep, IndexKept DEF FindBlock
<1>6. CASE EvictBlock(t)
  <2>1. Writer(t, [wr[t] EXCEPT !.at = "unlook", !.cur = Root])
    BY <1>6 DEF EvictBlock
  <2>2. DOMAIN wr' = Writers /\ \A u \in Writers : WriterGoes(u)
    BY <1>1, <1>4, <2>1
  <2>3. TrieShrinks
    BY <1>6, UnmarkShrinks DEF EvictBlock
  <2> QED
    BY <1>6, <2>2, <2>3, SameLookup, SameLearned, SameReaders, SameSweep, IndexKept DEF EvictBlock
<1>7. CASE Unlook(t)
  <2>1. DOMAIN wr' = Writers /\ \A u \in Writers : WriterGoes(u)
    BY <1>1, <1>4, <1>7 DEF Unlook
  <2>2. lookup \in [BlockKeys -> Nodes \cup {Nil}] /\ lookup' = [lookup EXCEPT ![Head(wr[t].evict)] = Nil]
    BY <1>0, <1>7 DEF IndexTypes, Unlook
  <2>3. lookup' \in [BlockKeys -> Nodes \cup {Nil}] /\ \A k \in BlockKeys : lookup'[k] \in Live \cup {Nil}
    BY <1>1, <2>2
  <2> QED
    BY <1>7, <2>1, <2>3, SameTrie, SameLearned, SameReaders, SameSweep, IndexKept DEF Unlook
<1>8. CASE Untime(t)
  <2>1. DOMAIN wr' = Writers /\ \A u \in Writers : WriterGoes(u)
    BY <1>1, <1>4, <1>8 DEF Untime
  <2> QED
    BY <1>8, <2>1, SameTrie, SameLookup, SameLearned, SameReaders, SameSweep, IndexKept DEF Untime
<1>9. CASE Unqueue(t)
  <2>1. Writer(t, IF Len(wr[t].evict) = 1 THEN IdleWriter ELSE [wr[t] EXCEPT !.at = "evict", !.evict = Tail(@)])
    BY <1>9 DEF Unqueue
  <2>2. DOMAIN wr' = Writers /\ \A u \in Writers : WriterGoes(u)
    BY <1>1, <1>4, <2>1
  <2> QED
    BY <1>9, <2>2, SameTrie, SameLookup, SameLearned, SameReaders, SameSweep, IndexKept DEF Unqueue
<1> QED
  BY <1>5, <1>6, <1>7, <1>8, <1>9, <1>a

LEMMA SweepTrue ==
    ASSUME IndexInv, SweepStep \/ TimersAge
    PROVE  IndexInv'
<1>0. IndexTypes
  BY DEF IndexInv
<1>1. Root \in Live /\ sweep.cur \in Live /\ \A k \in BlockKeys : lookup[k] \in Live \cup {Nil}
  BY <1>0, LiveFacts
<1>2. DOMAIN sweep = SweepFields /\ DOMAIN IdleSweep = SweepFields /\ IdleSweep.cur = Root
  BY <1>0 DEF IndexTypes, IdleSweep, SweepFields
<1>3. CASE TimersAge
  BY <1>3, SameTrie, SameLookup, SameLearned, SameReaders, SameWriters, SameSweep, IndexKept DEF TimersAge
<1>4. ASSUME NEW k, SweepDone(k) PROVE SweepGoes
  BY <1>1, <1>4 DEF SweepDone, SweepGoes, SweepFields
<1>5. CASE SweepStart \/ SweepUnqueue
  <2>1. \/ sweep' = IdleSweep \/ sweep' = [sweep EXCEPT !.at = "evict", !.done = {}]
        \/ \E T : sweep' = [IdleSweep EXCEPT !.at = "evict", !.todo = T]
    BY <1>5 DEF SweepStart, SweepUnqueue
  <2>2. SweepGoes
    BY <1>1, <1>2, <2>1 DEF SweepGoes, SweepFields
  <2> QED
    BY <1>5, <2>2, SameTrie, SameLookup, SameLearned, SameReaders, SameWriters, IndexKept DEF SweepStart, SweepUnqueue
<1>6. ASSUME NEW k \in BlockKeys, SweepFind(k) PROVE IndexInv'
  <2>1. SweepGoes
    <3>1. CASE lookup[k] = Nil
      BY <1>4, <1>6, <3>1 DEF SweepFind
    <3>2. CASE lookup[k] # Nil
      <4>1. sweep' = [sweep EXCEPT !.at = "unmark", !.key = k, !.cur = lookup[k]] /\ lookup[k] \in Live
        BY <1>1, <1>6, <3>2 DEF SweepFind
      <4> QED
        BY <1>2, <4>1 DEF SweepGoes, SweepFields
    <3> QED
      BY <3>1, <3>2
  <2> QED
    BY <1>6, <2>1, SameTrie, SameLookup, SameLearned, SameReaders, SameWriters, IndexKept DEF SweepFind
<1>7. CASE SweepEvict
  <2>1. TrieShrinks
    BY <1>7, UnmarkShrinks DEF SweepEvict
  <2>2. SweepGoes
    BY <1>1, <1>2, <1>7 DEF SweepEvict, SweepGoes, SweepFields
  <2> QED
    BY <1>7, <2>1, <2>2, SameLookup, SameLearned, SameReaders, SameWriters, IndexKept DEF SweepEvict
<1>8. CASE SweepUnlook
  <2>1. lookup \in [BlockKeys -> Nodes \cup {Nil}] /\ lookup' = [lookup EXCEPT ![sweep.key] = Nil]
    BY <1>0, <1>8 DEF IndexTypes, SweepUnlook
  <2>2. lookup' \in [BlockKeys -> Nodes \cup {Nil}] /\ \A k \in BlockKeys : lookup'[k] \in Live \cup {Nil}
    BY <1>1, <2>1
  <2>3. SweepGoes
    BY <1>4, <1>8 DEF SweepUnlook
  <2> QED
    BY <1>8, <2>2, <2>3, SameTrie, SameLearned, SameReaders, SameWriters, IndexKept DEF SweepUnlook
<1> QED
  BY <1>3, <1>5, <1>6, <1>7, <1>8 DEF SweepStep

\* A query that moves.
LEMMA ReaderMoves ==
    ASSUME IndexInv, NEW c, NEW rec, Reader(c, rec), UNCHANGED <<trieVars, lookup, wr, sweep, learned>>,
           c \in Readers => /\ DOMAIN rec = ReaderFields /\ rec.cur \in Live /\ rec.depth \in [Workers -> Nat]
                            /\ rd'[c] = rec => ReaderTrue(c)'
    PROVE  IndexInv'
<1>1. rd' = [rd EXCEPT ![c] = rec] /\ DOMAIN rd = Readers
  BY DEF Reader, IndexInv, IndexTypes
<1>2. DOMAIN rd' = Readers /\ \A r \in Readers : rd'[r] = IF r = c THEN rec ELSE rd[r]
  BY <1>1
<1>3. \A r \in Readers : ReaderGoes(r)
  BY <1>2 DEF ReaderGoes
<1> QED
  BY <1>2, <1>3, SameTrie, SameLookup, SameLearned, SameWriters, SameSweep, IndexKept

LEMMA QueryStartTrue ==
    ASSUME IndexInv, NEW c, NEW p \in FullPrefix, QueryStart(c, p, Workers)
    PROVE  IndexInv'
<1> DEFINE rec == [IdleReader EXCEPT !.at = "enter", !.p = p, !.i = 1, !.matched = Workers]
<1>0. IndexTypes /\ TrieTrue
  BY DEF IndexInv
<1>1. Reader(c, rec) /\ UNCHANGED <<trieVars, lookup, wr, sweep, learned>>
  BY DEF QueryStart
<1>2. /\ DOMAIN rec = ReaderFields /\ rec.cur = Root /\ rec.at = "enter" /\ rec.p = p /\ rec.i = 1
      /\ rec.depth = [w \in Workers |-> 0]
  BY DEF IdleReader, ReaderFields
<1>3. Root \in Live
  BY <1>0, LiveFacts
<1>4. p \in Seq(Blocks) /\ 1 \in 1 .. Len(p)
  BY DEF FullPrefix
<1>5. SubSeq(p, 1, 1 - 1) = <<>>
  BY <1>4
<1>6. path' = path /\ path[Root] = <<>>
  BY <1>0, <1>1 DEF TrieTrue, trieVars
<1> HIDE DEF rec
<1>7. rec.depth \in [Workers -> Nat] /\ \A w \in Workers : rec.depth[w] = 0
  BY <1>2
<1>8. ASSUME rd'[c] = rec PROVE ReaderTrue(c)'
  <2>1. path'[Root] = SubSeq(p, 1, 1 - 1)
    BY <1>5, <1>6
  <2>2. \A w \in Workers : ~(rec.depth[w] > 0)
    BY <1>7
  <2> QED
    BY <1>2, <1>4, <1>8, <2>1, <2>2 DEF ReaderTrue
<1> QED
  BY <1>1, <1>2, <1>3, <1>7, <1>8, ReaderMoves

LEMMA QueryEnterTrue ==
    ASSUME IndexInv, NEW c, QueryEnter(c)
    PROVE  IndexInv'
<1> DEFINE here == rd[c].cur
           b == rd[c].p[rd[c].i]
           next == child[here][b]
           out == [rd[c] EXCEPT !.at = "done", !.cur = Root]
           down == [rd[c] EXCEPT !.at = "read", !.cur = next]
<1>0. IndexTypes /\ TrieTrue /\ (\A r \in Readers : ReaderTrue(r))
  BY DEF IndexInv
<1>1. /\ rd[c].at = "enter" /\ Reader(c, IF next = Nil THEN out ELSE down)
      /\ UNCHANGED <<trieVars, lookup, wr, sweep, learned>>
  BY DEF QueryEnter
<1>2. path' = path /\ learned' = learned /\ Root \in Live
  BY <1>0, <1>1, LiveFacts DEF trieVars
<1>3. ASSUME c \in Readers
      PROVE  /\ rd[c].p \in Seq(Blocks) /\ rd[c].i \in 1 .. Len(rd[c].p)
             /\ path[here] = SubSeq(rd[c].p, 1, rd[c].i - 1)
             /\ \A w \in Workers : rd[c].depth[w] > 0 => SubSeq(rd[c].p, 1, rd[c].depth[w]) \in learned[w]
             /\ DOMAIN rd[c] = ReaderFields /\ rd[c].depth \in [Workers -> Nat] /\ rd[c].p \in FullPrefix
  BY <1>0, <1>1, <1>3 DEF ReaderTrue, IndexTypes
<1>4. CASE next = Nil
  <2>1. Reader(c, out)
    BY <1>1, <1>4
  <2>2. ASSUME c \in Readers
        PROVE  /\ DOMAIN out = ReaderFields /\ out.cur = Root /\ out.at = "done" /\ out.p = rd[c].p
               /\ out.depth = rd[c].depth
    BY <1>3, <2>2 DEF ReaderFields
  <2> HIDE DEF out
  <2>3. ASSUME c \in Readers, rd'[c] = out PROVE ReaderTrue(c)'
    BY <1>2, <1>3, <2>2, <2>3 DEF ReaderTrue
  <2> QED
    BY <1>1, <1>2, <1>3, <2>1, <2>2, <2>3, ReaderMoves
<1>5. CASE next # Nil
  <2>1. Reader(c, down)
    BY <1>1, <1>5
  <2>2. ASSUME c \in Readers
        PROVE  /\ DOMAIN down = ReaderFields /\ down.cur = next /\ down.at = "read" /\ down.p = rd[c].p
               /\ down.i = rd[c].i /\ down.depth = rd[c].depth
    BY <1>3, <2>2 DEF ReaderFields
  <2>3. ASSUME c \in Readers
        PROVE  next \in Live /\ path[next] = SubSeq(rd[c].p, 1, rd[c].i)
    <3>1. Append(SubSeq(rd[c].p, 1, rd[c].i - 1), b) = SubSeq(rd[c].p, 1, rd[c].i) /\ b \in Blocks
      BY <1>3, <2>3, PrefixGrows
    <3>2. here \in Live
      BY <1>0, <2>3, LiveFacts
    <3>3. next \in Live
      BY <1>0, <1>5, <3>1, <3>2, LiveFacts
    <3> QED
      BY <1>0, <1>3, <1>5, <2>3, <3>1, <3>2, <3>3 DEF TrieTrue
  <2> HIDE DEF down, next
  <2>4. ASSUME c \in Readers, rd'[c] = down PROVE ReaderTrue(c)'
    BY <1>2, <1>3, <2>2, <2>3, <2>4 DEF ReaderTrue
  <2> QED
    BY <1>1, <1>2, <1>3, <2>1, <2>2, <2>3, <2>4, ReaderMoves
<1> QED
  BY <1>4, <1>5

LEMMA QueryReadTrue ==
    ASSUME IndexInv, NEW c, QueryRead(c)
    PROVE  IndexInv'
<1> DEFINE here == rd[c].cur
           still == marks[here] \cap rd[c].matched
           last == still = {} \/ rd[c].i = Len(rd[c].p)
           deep == [w \in Workers |-> IF w \in still THEN rd[c].i ELSE rd[c].depth[w]]
           rec == [rd[c] EXCEPT !.at = IF last THEN "done" ELSE "enter", !.matched = still,
                        !.depth = deep,
                        !.cur = IF last THEN Root ELSE @, !.i = IF last THEN @ ELSE @ + 1]
<1>0. IndexTypes /\ TrieTrue /\ (\A r \in Readers : ReaderTrue(r))
  BY DEF IndexInv
<1>1. rd[c].at = "read" /\ UNCHANGED <<trieVars, lookup, wr, sweep, learned>>
  BY DEF QueryRead
<1>1a. Reader(c, rec)
  BY DEF QueryRead
<1>2. path' = path /\ learned' = learned /\ Root \in Live
  BY <1>0, <1>1, LiveFacts DEF trieVars
<1>3. ASSUME c \in Readers
      PROVE  /\ rd[c].p \in Seq(Blocks) /\ rd[c].i \in 1 .. Len(rd[c].p)
             /\ path[here] = SubSeq(rd[c].p, 1, rd[c].i)
             /\ \A w \in Workers : rd[c].depth[w] > 0 => SubSeq(rd[c].p, 1, rd[c].depth[w]) \in learned[w]
             /\ DOMAIN rd[c] = ReaderFields /\ rd[c].depth \in [Workers -> Nat] /\ here \in Live
             /\ rd[c].p \in FullPrefix
  BY <1>0, <1>1, <1>3, LiveFacts DEF ReaderTrue, IndexTypes
<1> HIDE DEF last
<1>4. ASSUME c \in Readers
      PROVE  /\ deep \in [Workers -> Nat]
             /\ \A w \in Workers : deep[w] > 0 => SubSeq(rd[c].p, 1, deep[w]) \in learned[w]
  <2>1. ASSUME NEW w \in Workers, w \in still PROVE SubSeq(rd[c].p, 1, rd[c].i) \in learned[w]
    BY <1>0, <1>3, <1>4, <2>1 DEF TrieTrue
  <2>2. rd[c].i \in Nat /\ \A w \in Workers : rd[c].depth[w] \in Nat
    BY <1>3, <1>4
  <2> HIDE DEF still
  <2>3. \A w \in Workers : deep[w] = IF w \in still THEN rd[c].i ELSE rd[c].depth[w]
    OBVIOUS
  <2>4. deep \in [Workers -> Nat]
    BY <2>2
  <2> HIDE DEF deep
  <2>5. ASSUME NEW w \in Workers, deep[w] > 0 PROVE SubSeq(rd[c].p, 1, deep[w]) \in learned[w]
    <3>1. CASE w \in still
      BY <2>1, <2>3, <3>1
    <3>2. CASE w \notin still
      BY <1>3, <1>4, <2>3, <2>5, <3>2
    <3> QED
      BY <3>1, <3>2
  <2> QED
    BY <2>4, <2>5
<1> HIDE DEF deep, still
<1>5. ASSUME c \in Readers
      PROVE  /\ DOMAIN rec = ReaderFields /\ rec.cur = (IF last THEN Root ELSE here)
             /\ rec.at = (IF last THEN "done" ELSE "enter") /\ rec.p = rd[c].p
             /\ rec.i = (IF last THEN rd[c].i ELSE rd[c].i + 1) /\ rec.depth = deep
  BY <1>3, <1>5 DEF ReaderFields
<1> HIDE DEF rec
<1>6. ASSUME c \in Readers, ~last
      PROVE  rd[c].i + 1 \in 1 .. Len(rd[c].p) /\ (rd[c].i + 1) - 1 = rd[c].i
  BY <1>3, <1>6 DEF last
<1>7. ASSUME c \in Readers, rd'[c] = rec PROVE ReaderTrue(c)'
  <2>1. CASE last
    BY <1>2, <1>3, <1>4, <1>5, <1>7, <2>1 DEF ReaderTrue
  <2>2. CASE ~last
    BY <1>2, <1>3, <1>4, <1>5, <1>6, <1>7, <2>2 DEF ReaderTrue
  <2> QED
    BY <2>1, <2>2
<1>8. ASSUME c \in Readers
      PROVE DOMAIN rec = ReaderFields /\ rec.cur \in Live /\ rec.depth \in [Workers -> Nat]
  BY <1>2, <1>3, <1>4, <1>5, <1>8
<1> QED
  BY <1>1, <1>1a, <1>7, <1>8, ReaderMoves

\* A choice ends its query and starts a recording, at most.
LEMMA DecideTrue ==
    ASSUME IndexInv, CallShape, NEW c \in Calls, call[c].at \in Choosing, NEW d, ChooseKvc(c, d)
    PROVE  IndexInv'
<1> DEFINE p == call[c].p
<1>0. IndexTypes /\ TrieTrue
  BY DEF IndexInv
<1>1. /\ rd' = [rd EXCEPT ![c] = IdleReader] /\ UNCHANGED <<trieVars, lookup, sweep>>
      /\ UNCHANGED <<wr, learned>> \/ \E t : RecordStart(t, d, p)
  BY DEF ChooseKvc
<1>2. p \in Seq(Blocks) /\ 1 \in 1 .. Len(p)
  BY <1>1 DEF CallShape, CallRec, FullPrefix
<1>3. Root \in Live /\ path' = path /\ path[Root] = <<>>
  BY <1>0, <1>1, LiveFacts DEF TrieTrue, trieVars
<1>4. DOMAIN rd' = Readers /\ \A r \in Readers : ReaderGoes(r)
  <2>1. DOMAIN rd' = Readers /\ \A r \in Readers : rd'[r] = IF r = c THEN IdleReader ELSE rd[r]
    BY <1>0, <1>1 DEF IndexTypes
  <2>2. /\ DOMAIN IdleReader = ReaderFields /\ IdleReader.cur = Root /\ IdleReader.at = "idle"
        /\ IdleReader.depth \in [Workers -> Nat] /\ \A w \in Workers : IdleReader.depth[w] = 0
    BY DEF IdleReader, ReaderFields
  <2>3. ASSUME rd'[c] = IdleReader PROVE ReaderTrue(c)'
    <3>1. \A w \in Workers : ~(IdleReader.depth[w] > 0)
      BY <2>2
    <3> QED
      BY <2>2, <2>3, <3>1 DEF ReaderTrue
  <2> QED
    BY <1>3, <2>1, <2>2, <2>3 DEF ReaderGoes
<1>5. CASE UNCHANGED <<wr, learned>>
  BY <1>1, <1>4, <1>5, SameTrie, SameLookup, SameLearned, SameWriters, SameSweep, IndexKept
<1>6. ASSUME NEW t, RecordStart(t, d, p) PROVE IndexInv'
  <2> DEFINE rec == [IdleWriter EXCEPT !.at = "enter", !.w = d, !.p = p, !.i = 1]
  <2>1. Writer(t, rec) /\ learned' = [learned EXCEPT ![d] = @ \cup Prefixes(p)]
    BY <1>6 DEF RecordStart
  <2>2. /\ DOMAIN rec = WriterFields /\ rec.cur = Root /\ rec.at = "enter" /\ rec.w = d /\ rec.p = p /\ rec.i = 1
    BY DEF IdleWriter, WriterFields
  <2>3. LearnedGrows /\ (d \in Workers => Prefixes(p) \subseteq learned'[d])
    BY <1>0, <2>1 DEF LearnedGrows, IndexTypes
  <2> HIDE DEF rec
  <2>4. DOMAIN wr' = Writers /\ \A u \in Writers : wr'[u] = IF u = t THEN rec ELSE wr[u]
    BY <1>0, <2>1 DEF Writer, IndexTypes
  <2>5. ASSUME wr'[t] = rec PROVE WriterTrue(t)'
    <3>1. SubSeq(p, 1, 1 - 1) = <<>>
      BY <1>2
    <3>2. path'[Root] = SubSeq(p, 1, 1 - 1)
      BY <1>3, <3>1
    <3> QED
      BY <1>2, <2>2, <2>3, <2>5, <3>2 DEF WriterTrue
  <2>6. \A u \in Writers : WriterGoes(u)
    BY <1>3, <2>2, <2>4, <2>5 DEF WriterGoes
  <2> QED
    BY <1>1, <1>4, <2>3, <2>4, <2>6, SameTrie, SameLookup, SameSweep, IndexKept
<1> QED
  BY <1>1, <1>5, <1>6

LEMMA IndexStart == IndexInit => IndexInv
<1> SUFFICES ASSUME IndexInit PROVE IndexInv
  OBVIOUS
<1>1. /\ child = [n \in Nodes |-> NoKids] /\ marks = [n \in Nodes |-> {}] /\ path = [n \in Nodes |-> <<>>]
      /\ lookup = [k \in BlockKeys |-> Nil] /\ learned = [w \in Workers |-> {}]
      /\ wr = [t \in Writers |-> IdleWriter] /\ rd = [r \in Readers |-> IdleReader] /\ sweep = IdleSweep
  BY DEF IndexInit
<1>2. DOMAIN IdleWriter = WriterFields /\ IdleWriter.cur = Root /\ IdleWriter.at = "idle"
  BY DEF IdleWriter, WriterFields
<1>3. /\ DOMAIN IdleReader = ReaderFields /\ IdleReader.cur = Root /\ IdleReader.at = "idle"
      /\ IdleReader.depth \in [Workers -> Nat] /\ \A w \in Workers : ~(IdleReader.depth[w] > 0)
  BY DEF IdleReader, ReaderFields
<1>4. NoKids \in [Blocks -> Nodes \cup {Nil}] /\ \A b \in Blocks : NoKids[b] = Nil
  BY DEF NoKids
<1>5. path \in [Nodes -> Seq(Blocks)]
  BY <1>1
<1>a. DOMAIN IdleSweep = SweepFields /\ IdleSweep.cur = Root
  BY DEF IdleSweep, SweepFields
<1>6. IndexTypes
  BY <1>1, <1>2, <1>3, <1>4, <1>5, <1>a, IndexAssumption DEF IndexTypes
<1>7. Live \subseteq Nodes
  BY <1>6, LiveFacts
<1>8. TrieTrue
  BY <1>1, <1>4, <1>7, IndexAssumption DEF TrieTrue
<1>9. \A t \in Writers : WriterTrue(t)
  BY <1>1, <1>2 DEF WriterTrue, Walking
<1>10. \A r \in Readers : ReaderTrue(r)
  BY <1>1, <1>3 DEF ReaderTrue
<1> QED
  BY <1>6, <1>8, <1>9, <1>10 DEF IndexInv

LEMMA IndexSame ==
    ASSUME IndexInv, UNCHANGED indexVars
    PROVE  IndexInv'
BY SameTrie, SameLookup, SameLearned, SameReaders, SameWriters, SameSweep, IndexKept DEF indexVars

LEMMA IndexNext ==
    ASSUME IndexInv, CallShape, [Next]_vars
    PROVE  IndexInv'
<1>a. load.prefixes \subseteq FullPrefix /\ Children \subseteq Calls
  BY LoadAssumption, Constants DEF CallShape, FullPrefix
<1>1. ASSUME NEW c, NEW k, NEW p \in load.prefixes, StartCall(c, k, p) PROVE IndexInv'
  <2>1. QueryStart(c, p, Workers) \/ UNCHANGED indexVars
    BY <1>1 DEF StartCall
  <2> QED
    BY <1>a, <2>1, QueryStartTrue, IndexSame
<1>2. ASSUME NEW c, CallFails(c) PROVE IndexInv'
  BY <1>2, IndexSame DEF CallFails
<1>3. ASSUME NEW c \in Calls, RequestStep(c) PROVE IndexInv'
  <2>1. CASE DecideKvc(c) \/ DecideLowest(c)
    <3>1. call[c].at \in Choosing /\ \E d : ChooseKvc(c, d)
      BY <2>1 DEF DecideKvc, DecideLowest, Choosing
    <3> QED
      BY <3>1, DecideTrue
  <2>2. CASE Decide(c) \/ Prefer(c) \/ ReadOwnLoad(c) \/ ReadLoad(c) \/ DecideAffinity(c) \/ AllOverloaded(c)
    BY <2>2, IndexSame DEF Decide, Prefer, ReadOwnLoad, ReadLoad, DecideAffinity, AllOverloaded
  <2>3. CASE RequestAnswered(c) \/ RecordDone(c) \/ AcquireSlot(c) \/ SlotGranted(c)
    BY <2>3, IndexSame DEF RequestAnswered, RecordDone, AcquireSlot, SlotGranted
  <2> QED
    BY <1>1, <1>2, <1>3, <2>1, <2>2, <2>3 DEF RequestStep, Choose
<1>4. ASSUME NEW c \in Children, PanelStep(c) PROVE IndexInv'
  <2>1. ASSUME NEW p \in load.prefixes, PanelStarts(c, p) PROVE IndexInv'
    BY <1>1, <2>1 DEF PanelStarts
  <2>2. ASSUME NEW u, NEW o, PanelReplies(c, u, o) PROVE IndexInv'
    BY <2>2, IndexSame DEF PanelReplies
  <2>3. CASE ChildFails(c)
    BY <1>2, <2>3 DEF ChildFails
  <2> QED
    BY <1>4, <2>1, <2>2, <2>3 DEF PanelStep
<1>5. CASE AggregatorStep
  <2>1. ASSUME NEW p \in load.prefixes, AggregatorStarts(p) PROVE IndexInv'
    BY <1>1, <2>1 DEF AggregatorStarts
  <2>2. ASSUME NEW u, AggregatorReplies(u) \/ StreamUsage(u) PROVE IndexInv'
    BY <2>2, IndexSame DEF AggregatorReplies, StreamUsage, IndexAndRates
  <2>3. CASE FallBack \/ StreamStarts \/ StreamStops \/ ReceiverDropped
    BY <2>3, IndexSame DEF FallBack, StreamStarts, StreamStops, ReceiverDropped, IndexAndRates
  <2>4. CASE NoteUsage \/ ReplayFinishes \/ ForwardEnds
    BY <2>4, IndexSame DEF NoteUsage, ReplayFinishes, ForwardEnds, Forwarded, IndexAndRates
  <2> QED
    BY <1>5, <2>1, <2>2, <2>3, <2>4 DEF AggregatorStep
<1>6. CASE Background
  <2>1. CASE IndexStep
    <3>1. ASSUME NEW t \in Writers, WriterStep(t) PROVE IndexInv'
      BY <3>1, EnterOld, EnterNew, MarkTrue, RegisterTrue, WriterRest DEF WriterStep
    <3>2. ASSUME NEW c \in Calls, ReaderStep(c) PROVE IndexInv'
      BY <3>2, QueryEnterTrue, QueryReadTrue DEF ReaderStep
    <3> QED
      BY <2>1, <3>1, <3>2, SweepTrue DEF IndexStep
  <2>2. CASE TimersAge
    BY <2>2, SweepTrue
  <2>3. ASSUME NEW p, SwapPolicy(p) PROVE IndexInv'
    BY <2>3, IndexSame DEF SwapPolicy
  <2> QED
    BY <1>6, <2>1, <2>2, <2>3, IndexSame DEF Background
<1>7. CASE FusionArrives \/ PanelDone \/ ClientLeaves
  BY <1>7, IndexSame DEF FusionArrives, PanelDone, ClientLeaves, IndexAndRates
<1>8. CASE UNCHANGED vars
  BY <1>8, IndexSame DEF vars
<1> QED
  BY <1>3, <1>4, <1>5, <1>6, <1>7, <1>8 DEF Next

\* A worker that a query of the KV index credits with a depth has been sent a
\* request that begins with exactly these blocks (find_matches), whatever recording
\* tasks, evictions, sweeps and queries interleave between the locks of the trie,
\* for every number of them, every capacity and every length of prefix.
THEOREM MatchesStayReal == Spec => []MatchesAreReal
<1>1. Init => CallShape /\ IndexInv
  BY SettleStart, IndexStart DEF Init
<1>2. (CallShape /\ IndexInv) /\ [Next]_vars => (CallShape /\ IndexInv)'
  BY CallsKept, IndexNext
<1>3. IndexInv => MatchesAreReal
  BY DEF IndexInv, ReaderTrue, MatchesAreReal
<1> QED
  BY <1>1, <1>2, <1>3, PTL DEF Spec
-----------------------------------------------------------------------------
\* A load-aware policy never sends a call to a deployment whose load, as it was read, is
\* more than the rebalance threshold above the least load that was read (should_rebalance
\* in key_affinity.rs and kvc_aware.rs), however the loads move while they are read one
\* after the other, for every set of deployments and slots, every weight, threshold and
\* overload gate, and whatever the index answered.
THEOREM ChoicesStayBalanced == Spec => ChoiceIsBalanced
<1> DEFINE Moved(c) == /\ call[c].at \in {"loads", "lowest"} /\ call'[c].at \notin {"loads", "lowest"}
                       /\ RebalanceThreshold < 100
           Fair(c) == LET L == call[c].loads
                          d == call'[c].dep
                      IN  \/ d = call[c].pref /\ Within(call[c].own, L)
                          \/ \E j \in DOMAIN Deps : d = Deps[j] /\ Within(L[j], L)
           Step == \A c \in Calls : Moved(c) => Fair(c)
<1>1. Init => CallShape /\ IndexInv
  BY SettleStart, IndexStart DEF Init
<1>2. (CallShape /\ IndexInv) /\ [Next]_vars => (CallShape /\ IndexInv)'
  BY CallsKept, IndexNext
<1>3. ASSUME CallShape, IndexInv, [Next]_vars PROVE Step
  <2> SUFFICES ASSUME NEW c \in Calls, Moved(c) PROVE Fair(c)
    OBVIOUS
  <2> DEFINE r == call[c]
             L == r.loads
  <2>0. /\ DOMAIN call = Calls /\ DOMAIN r = CallFields /\ turn \in Nat /\ RebalanceThreshold < 100
        /\ r.pref \in Workers \cup {Nil} /\ r.own \in Int /\ L \in Seq(Int)
    BY <1>3 DEF CallShape, CallRec, Read
  <2>1. DecideAffinity(c) \/ DecideKvc(c) \/ DecideLowest(c)
    <3>1. Choose(c)
      BY <1>3, CallsKept DEF ChoicesOnly, Resting, Choosing
    <3>2. CASE ReadLoad(c) \/ AllOverloaded(c)
      <4>1. \E a \in {"loads", "lowest"} : \E M : call' = [call EXCEPT ![c] = [r EXCEPT !.at = a, !.loads = M]]
        BY <3>2 DEF ReadLoad, AllOverloaded, ToCall
      <4>2. call'[c].at \in {"loads", "lowest"}
        BY <2>0, <4>1 DEF CallFields
      <4> QED
        BY <4>2
    <3> QED
      BY <3>1, <3>2 DEF Choose, Decide, Prefer, ReadOwnLoad
  <2>2. AllRead(c)
    BY <2>1 DEF DecideAffinity, DecideKvc, DecideLowest
  <2>3. L \in Readings
    BY <2>0, <2>2, Constants DEF AllRead, Readings
  <2>4. ASSUME NEW d, NEW a, ToCall(c, Chosen(c, d, a)) PROVE call'[c].dep = d
    <3>1. call' = [call EXCEPT ![c] = Chosen(c, d, a)] /\ Chosen(c, d, a).dep = d
      BY <2>0, <2>4 DEF ToCall, Chosen, CallFields
    <3> QED
      BY <2>0, <3>1
  <2>5. CASE DecideAffinity(c)
    <3>1. ToCall(c, Chosen(c, KeyAffinityChoice(r), "acquire"))
      BY <2>5 DEF DecideAffinity
    <3>2. call'[c].dep = KeyAffinityChoice(r)
      BY <2>4, <3>1
    <3>3. \/ KeyAffinityChoice(r) = r.pref /\ Within(r.own, L)
          \/ \E j \in DOMAIN Deps : KeyAffinityChoice(r) = Deps[j] /\ Within(L[j], L)
      BY <2>0, <2>3, AffinityBalanced
    <3> QED
      BY <3>2, <3>3
  <2>6. CASE DecideKvc(c)
    <3>1. PICK k \in Nat : ChooseKvc(c, Deps[KvcChoice(rd[c], L, k)])
      <4>1. \E k \in IF r.stale THEN 0 .. TurnPeriod - 1 ELSE {turn} : ChooseKvc(c, Deps[KvcChoice(rd[c], L, k)])
        BY <2>6 DEF DecideKvc
      <4>2. (0 .. TurnPeriod - 1) \cup {turn} \subseteq Nat
        BY <2>0, Constants
      <4> QED
        BY <4>1, <4>2
    <3>2. call'[c].dep = Deps[KvcChoice(rd[c], L, k)]
      BY <2>4, <3>1 DEF ChooseKvc
    <3>3. c \in Readers /\ rd[c].at = "done" /\ Scored(L) # {}
      BY <2>6, Constants DEF DecideKvc
    <3>4. rd[c].p \in Seq(Blocks) \ {<<>>} /\ rd[c].depth \in [Workers -> Nat]
      BY <1>3, <3>3 DEF IndexInv, IndexTypes, ReaderTrue, FullPrefix
    <3>5. KvcChoice(rd[c], L, k) \in DOMAIN Deps /\ Within(L[KvcChoice(rd[c], L, k)], L)
      BY <2>0, <2>3, <3>3, <3>4, KvcBalanced
    <3> QED
      BY <3>2, <3>5
  <2>7. CASE DecideLowest(c)
    <3>1. call'[c].dep = Deps[LeastOf(L)]
      BY <2>4, <2>7 DEF DecideLowest, ChooseKvc
    <3>2. LeastOf(L) \in DOMAIN Deps /\ Within(L[LeastOf(L)], L)
      BY <2>3, LeastOfIs
    <3> QED
      BY <3>1, <3>2
  <2> QED
    BY <2>1, <2>5, <2>6, <2>7
<1>4. (CallShape /\ IndexInv) /\ [Next]_vars => [Step]_call
  BY <1>3
<1>5. ChoiceIsBalanced <=> [][Step]_call
  BY DEF ChoiceIsBalanced
<1> HIDE DEF Step
<1> QED
  BY <1>1, <1>2, <1>4, <1>5, PTL DEF Spec
=============================================================================
