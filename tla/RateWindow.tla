------------------------------ MODULE RateWindow ------------------------------
(***************************************************************************)
(* The 60-minute ring buffers: RebalanceCounter (rebalance.rs), one per    *)
(* deployment and one in total in RequestRateTracker (request_rate.rs),    *)
(* and AgentStatsTracker (ctxaware/stats.rs).  A bucket is minute mod the  *)
(* number of buckets, and what has expired is cleared when the ring is     *)
(* next used, by record or by snapshot.  The clock never goes back here    *)
(* (the code reads SystemTime).                                            *)
(***************************************************************************)
EXTENDS Naturals

CONSTANTS
    Rings,
    NumBuckets,   \* NUM_BUCKETS
    MaxMinute     \* bound: the last minute of the run

ASSUME RateAssumption == NumBuckets \in Nat \ {0} /\ MaxMinute \in Nat /\ MaxMinute >= NumBuckets

VARIABLES
    minute,   \* the clock
    rings,    \* per ring: start_minute and the buckets
    served    \* history: per ring and minute, what was recorded

rateVars == <<minute, rings, served>>
Slots == 0 .. NumBuckets - 1

NewRing == [start |-> minute - (NumBuckets - 1), buckets |-> [i \in Slots |-> 0]]

RateInit ==
    /\ minute = NumBuckets
    /\ rings = [r \in Rings |-> NewRing]
    /\ served = [r \in Rings |-> [m \in 0 .. MaxMinute |-> 0]]

AdvanceToOneShort(ring, target) ==   \* mutant: the oldest expired bucket survives
    LET new == target - (NumBuckets - 1)
    IN  IF new <= ring.start THEN ring
        ELSE [start |-> new,
              buckets |-> [i \in Slots |->
                  IF new - ring.start >= NumBuckets \/ \E m \in ring.start + 1 .. new - 1 : m % NumBuckets = i
                  THEN 0 ELSE ring.buckets[i]]]

AdvanceTo(ring, target) ==
    LET new == target - (NumBuckets - 1)
    IN  IF new <= ring.start THEN ring
        ELSE [start |-> new,
              buckets |-> [i \in Slots |->
                  IF new - ring.start >= NumBuckets \/ \E m \in ring.start .. new - 1 : m % NumBuckets = i
                  THEN 0 ELSE ring.buckets[i]]]

Recorded(ring) ==
    LET now == AdvanceTo(ring, minute) IN [now EXCEPT !.buckets[minute % NumBuckets] = @ + 1]

\* record: each ring has a lock of its own, and nothing reads two of them.
RecordIn(S) ==
    /\ rings' = [r \in Rings |-> IF r \in S THEN Recorded(rings[r]) ELSE rings[r]]
    /\ served' = [r \in Rings |-> IF r \in S THEN [served[r] EXCEPT ![minute] = @ + 1] ELSE served[r]]
    /\ UNCHANGED minute

\* snapshot: it advances the ring too, which loses nothing a later snapshot shows.
Snapshot(ring) ==
    LET now == AdvanceTo(ring, minute)
    IN  [i \in 1 .. NumBuckets |-> now.buckets[(minute - NumBuckets + i) % NumBuckets]]
TakeSnapshot(r) ==
    /\ rings' = [rings EXCEPT ![r] = AdvanceTo(@, minute)]
    /\ UNCHANGED <<minute, served>>

\* Minutes pass, one or so many that the whole ring is stale.
MinutesPass(n) ==
    /\ n > 0 /\ minute + n <= MaxMinute
    /\ minute' = minute + n /\ UNCHANGED <<rings, served>>
-----------------------------------------------------------------------------
\* Whenever a snapshot is taken it shows, minute by minute, exactly what was
\* recorded in the last NumBuckets minutes: nothing of an earlier lap of the
\* ring survives in a bucket and nothing recent is cleared (advance_to), whatever
\* the gaps between records and snapshots.
RateWindowExact ==
    \A r \in Rings : Snapshot(rings[r]) = [i \in 1 .. NumBuckets |-> served[r][minute - NumBuckets + i]]
=============================================================================
