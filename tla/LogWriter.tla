------------------------------ MODULE LogWriter ------------------------------
(***************************************************************************)
(* The request log writer (request_log.rs): a bounded channel filled by    *)
(* try_send, one task that gathers a buffer and flushes it when it is full *)
(* or the timer ticks, and flush_batch with its timeout and one retry.     *)
(* Records are told apart only by their identity; the channel is a set     *)
(* because nothing depends on the order of records.                        *)
(***************************************************************************)
EXTENDS Naturals, FiniteSets

CONSTANTS
    Records,      \* the records that may be written
    Capacity,     \* LOG_CHANNEL_CAPACITY
    BatchSize,    \* LOG_BATCH_SIZE
    MaxRestarts   \* bound: restarts of the gateway

ASSUME WriterConstants ==
    Capacity \in Nat /\ BatchSize \in Nat \ {0} /\ MaxRestarts \in Nat

VARIABLES
    sent,      \* history: records handed to try_enqueue
    chan,      \* in the channel
    buffer,    \* received, not yet flushed
    batch,     \* owned by flush_batch
    attempt,   \* 0: not flushing; 1, 2: the attempt under way
    late,      \* INSERTs that were given up and may still commit: <<records, attempt>>
    copies,    \* rows in boom_request_log per record
    counted,   \* history: records counted in dropped since the start
    dropped,   \* the counter
    gone,      \* history: records forgotten by a restart
    restarts

writerVars == <<sent, chan, buffer, batch, attempt, late, copies, counted, dropped, gone, restarts>>

WriterInit ==
    /\ sent = {} /\ chan = {} /\ buffer = {} /\ batch = {} /\ attempt = 0
    /\ late = {} /\ copies = [r \in Records |-> 0]
    /\ counted = {} /\ dropped = 0 /\ gone = {} /\ restarts = 0

WriterTypeOK ==
    /\ sent \subseteq Records /\ chan \subseteq Records /\ buffer \subseteq Records
    /\ batch \subseteq Records /\ attempt \in 0 .. 2
    /\ late \subseteq (SUBSET Records) \X {1, 2}
    /\ copies \in [Records -> Nat]
    /\ counted \subseteq Records /\ dropped \in Nat /\ gone \subseteq Records
    /\ restarts \in 0 .. MaxRestarts

Full == Cardinality(chan) >= Capacity

TryEnqueueUncounted(r) ==   \* mutant: a full channel drops the record silently
    /\ sent' = sent \cup {r}
    /\ chan' = IF Full THEN chan ELSE chan \cup {r}
    /\ UNCHANGED <<buffer, batch, attempt, late, copies, counted, dropped, gone, restarts>>

\* try_enqueue: never waits; a full (or closed) channel counts the record.
TryEnqueue(r) ==
    /\ sent' = sent \cup {r}
    /\ \/ ~Full /\ chan' = chan \cup {r} /\ UNCHANGED <<counted, dropped>>
       \/ Full /\ counted' = counted \cup {r} /\ dropped' = dropped + 1 /\ UNCHANGED chan
    /\ UNCHANGED <<buffer, batch, attempt, late, copies, gone, restarts>>

\* std::mem::take(buffer) and the first attempt.
FlushBatch(B) == batch' = B /\ buffer' = {} /\ attempt' = 1

Recv(r) ==
    /\ attempt = 0 /\ r \in chan
    /\ chan' = chan \ {r}
    /\ LET b == buffer \cup {r}
       IN  IF Cardinality(b) >= BatchSize THEN FlushBatch(b)
           ELSE buffer' = b /\ UNCHANGED <<batch, attempt>>
    /\ UNCHANGED <<sent, late, copies, counted, dropped, gone, restarts>>

FlushTick ==
    /\ attempt = 0 /\ buffer # {}
    /\ FlushBatch(buffer)
    /\ UNCHANGED <<sent, chan, late, copies, counted, dropped, gone, restarts>>

Rows(S) == [r \in Records |-> copies[r] + IF r \in S THEN 1 ELSE 0]
CountOnce(D) ==   \* mutant: one for the batch, not one for each of its rows
    counted' = counted \cup D /\ dropped' = IF D = {} THEN dropped ELSE dropped + 1
Count(D) == counted' = counted \cup D /\ dropped' = dropped + Cardinality(D)
BatchDone == batch' = {} /\ attempt' = 0

\* The statement returns; rows it did not insert are counted.
InsertReturns ==
    /\ attempt > 0
    /\ \E S \in SUBSET batch : copies' = Rows(S) /\ Count(batch \ S)
    /\ BatchDone
    /\ UNCHANGED <<sent, chan, buffer, late, gone, restarts>>

\* An error, or LOG_INSERT_TIMEOUT.  The server may be left with a statement it
\* can still commit.  The first failure is retried, the second one counts the batch.
InsertFails ==
    /\ attempt > 0
    /\ \E undecided \in BOOLEAN : late' = IF undecided THEN late \cup {<<batch, attempt>>} ELSE late
    /\ \/ attempt = 1 /\ attempt' = 2 /\ UNCHANGED <<batch, counted, dropped>>
       \/ attempt = 2 /\ Count(batch) /\ BatchDone
    /\ UNCHANGED <<sent, chan, buffer, copies, gone, restarts>>

\* The database decides about a statement that was given up.
LateCommit(x) ==
    /\ x \in late /\ late' = late \ {x}
    /\ copies' = Rows(x[1])
    /\ UNCHANGED <<sent, chan, buffer, batch, attempt, counted, dropped, gone, restarts>>

LateAbort(x) ==
    /\ x \in late /\ late' = late \ {x}
    /\ UNCHANGED <<sent, chan, buffer, batch, attempt, copies, counted, dropped, gone, restarts>>

\* The process ends: nothing drains the channel or the buffer, the counter
\* starts again at zero, and a statement under way is left to the server.
RestartWriter ==
    /\ restarts < MaxRestarts /\ restarts' = restarts + 1
    /\ gone' = gone \cup chan \cup buffer \cup batch \cup counted
    /\ chan' = {} /\ buffer' = {} /\ BatchDone /\ counted' = {} /\ dropped' = 0
    /\ late' = IF attempt > 0 THEN late \cup {<<batch, attempt>>} ELSE late
    /\ UNCHANGED <<sent, copies>>

Log(r) == r \notin sent /\ TryEnqueue(r)

WriterStep ==
    \/ \E r \in chan : Recv(r)
    \/ FlushTick \/ InsertReturns \/ InsertFails
    \/ \E x \in late : LateCommit(x) \/ LateAbort(x)

WriterNext == (\E r \in Records : Log(r)) \/ WriterStep \/ RestartWriter
WriterSpec == WriterInit /\ [][WriterNext]_writerVars

\* The writer task is scheduled, its timer ticks, and a statement ends or times out.
WriterFairness ==
    /\ WF_writerVars(\E r \in chan : Recv(r))
    /\ WF_writerVars(FlushTick)
    /\ WF_writerVars(InsertReturns \/ InsertFails)

Audit == INSTANCE AuditLog WITH
    pending <- chan \cup buffer \cup batch,
    stored <- {r \in Records : copies[r] > 0}

\* The writer keeps the promise of AuditLog: no record disappears without being
\* stored or counted, short of a restart, and none waits for ever.
KeepsAuditPromise == Audit!AuditSpec

\* The counter the dashboard shows is the number of records that were counted,
\* and the retry stores no record more than twice.
CounterExact ==
    /\ dropped = Cardinality(counted)
    /\ \A r \in Records : copies[r] + Cardinality({x \in late : r \in x[1]}) <= 2
=============================================================================
