----------------------- MODULE RequestPipelineProofs -----------------------
(***************************************************************************)
(* The request log and the request pipeline.                               *)
(*                                                                         *)
(* The log writer implements AuditLog (safety), for every number of        *)
(* records, every capacity and every batch size; its drop counter is exact *)
(* and no record is stored more than twice.                                *)
(*                                                                         *)
(* The request pipeline, for every set of requests and dedup keys, every   *)
(* channel size and every length of a stream: each request leaves one      *)
(* record, the record of a finished stream carries its usage, the          *)
(* in-flight counter is exact, and the pipeline uses the log writer the    *)
(* way LogWriter expects, so that what is shown of the writer holds of the *)
(* whole.                                                                  *)
(***************************************************************************)
EXTENDS RequestPipeline, FiniteSetTheorems, TLAPS

-----------------------------------------------------------------------------
(***************************************************************************)
(* The log writer.                                                         *)
(***************************************************************************)
Stored == {r \in Records : copies[r] > 0}
Tries(r) == {x \in late : r \in x[1]}
Uses(r) == copies[r] + Cardinality(Tries(r))

\* Where a record is says how often it can have been inserted so far.
Places ==
    /\ chan \cap buffer = {} /\ chan \cap batch = {} /\ buffer \cap batch = {}
    /\ (chan \cup buffer \cup batch) \cap (counted \cup gone) = {}
    /\ counted \cap gone = {}
    /\ sent = chan \cup buffer \cup batch \cup Stored \cup counted \cup gone
    /\ attempt = 0 <=> batch = {}
    /\ \A x \in late : x[1] \subseteq sent

Finite ==
    /\ IsFiniteSet(chan) /\ IsFiniteSet(buffer) /\ IsFiniteSet(batch)
    /\ IsFiniteSet(counted) /\ IsFiniteSet(late)

Tried ==
    \A r \in Records :
        /\ r \notin sent \/ r \in chan \cup buffer => Uses(r) = 0
        /\ r \in batch => Uses(r) < attempt
        /\ Uses(r) <= 2

Inv == WriterTypeOK /\ Places /\ Finite /\ dropped = Cardinality(counted) /\ Tried

-----------------------------------------------------------------------------
\* Adding one statement to late adds at most one try of a record.
LEMMA TriesAdd ==
    ASSUME Finite, NEW y, NEW r, late' = late \cup {y}, IsFiniteSet(late)
    PROVE  /\ Cardinality(Tries(r)) \in Nat /\ Cardinality(Tries(r)') \in Nat
           /\ Cardinality(Tries(r)') <= Cardinality(Tries(r)) + 1
           /\ r \notin y[1] => Cardinality(Tries(r)') = Cardinality(Tries(r))
<1>1. IsFiniteSet(Tries(r))
  BY FS_Subset DEF Tries
<1>2. Tries(r)' = IF r \in y[1] THEN Tries(r) \cup {y} ELSE Tries(r)
  BY DEF Tries
<1>3. Cardinality(Tries(r)) \in Nat
  BY <1>1, FS_CardinalityType
<1>4. Cardinality(Tries(r) \cup {y}) = IF y \in Tries(r) THEN Cardinality(Tries(r))
                                       ELSE Cardinality(Tries(r)) + 1
  BY <1>1, FS_AddElement
<1>5. QED
  BY <1>2, <1>3, <1>4

\* Taking one away removes one try of each of its records.
LEMMA TriesRemove ==
    ASSUME Finite, NEW x \in late, NEW r, late' = late \ {x}
    PROVE  /\ Cardinality(Tries(r)) \in Nat /\ Cardinality(Tries(r)') \in Nat
           /\ r \in x[1] => Cardinality(Tries(r)') + 1 = Cardinality(Tries(r))
           /\ r \notin x[1] => Cardinality(Tries(r)') = Cardinality(Tries(r))
<1>1. IsFiniteSet(Tries(r))
  BY FS_Subset DEF Tries, Finite
<1>2. Tries(r)' = IF r \in x[1] THEN Tries(r) \ {x} ELSE Tries(r)
  BY DEF Tries
<1>3. Cardinality(Tries(r)) \in Nat
  BY <1>1, FS_CardinalityType
<1>4. CASE r \in x[1]
  <2>1. x \in Tries(r)
    BY <1>4 DEF Tries
  <2>2. Cardinality(Tries(r) \ {x}) = Cardinality(Tries(r)) - 1
    BY <1>1, <2>1, FS_RemoveElement
  <2>3. IsFiniteSet(Tries(r) \ {x})
    BY <1>1, FS_RemoveElement
  <2>4. Cardinality(Tries(r) \ {x}) \in Nat
    BY <2>3, FS_CardinalityType
  <2>5. QED
    BY <1>2, <1>3, <1>4, <2>2, <2>4
<1>5. CASE r \notin x[1]
  BY <1>2, <1>3, <1>5
<1>6. QED
  BY <1>4, <1>5

LEMMA TriesNat ==
    ASSUME Finite, NEW r
    PROVE  Cardinality(Tries(r)) \in Nat
<1>1. IsFiniteSet(Tries(r))
  BY FS_Subset DEF Tries, Finite
<1>2. QED
  BY <1>1, FS_CardinalityType

\* Counting a finite set that was not counted adds its size.
LEMMA CountAdds ==
    ASSUME IsFiniteSet(counted), NEW D, IsFiniteSet(D), counted \cap D = {},
           dropped = Cardinality(counted), Count(D)
    PROVE  IsFiniteSet(counted') /\ dropped' = Cardinality(counted') /\ dropped' \in Nat
<1>1. /\ IsFiniteSet(counted \cup D)
      /\ Cardinality(counted \cup D) = Cardinality(counted) + Cardinality(D) - Cardinality(counted \cap D)
  BY FS_Union
<1>2. Cardinality(counted \cap D) = 0
  BY FS_EmptySet
<1>3. Cardinality(counted) \in Nat /\ Cardinality(D) \in Nat
  BY FS_CardinalityType
<1>4. QED
  BY <1>1, <1>2, <1>3 DEF Count

-----------------------------------------------------------------------------
LEMMA InitInv == WriterInit => Inv
<1> SUFFICES ASSUME WriterInit PROVE Inv
  OBVIOUS
<1> USE DEF WriterInit
<1>1. WriterTypeOK
  BY WriterConstants DEF WriterTypeOK
<1>2. Places
  BY DEF Places, Stored
<1>3. Finite /\ dropped = Cardinality(counted)
  BY FS_EmptySet DEF Finite
<1>4. Tried
  <2>1. \A r : Tries(r) = {}
    BY DEF Tries
  <2>2. QED
    BY <2>1, FS_EmptySet DEF Tried, Uses
<1>5. QED
  BY <1>1, <1>2, <1>3, <1>4 DEF Inv

\* A record is handed over: it enters the channel or is counted.
LEMMA LogKeeps == ASSUME Inv, NEW q \in Records, Log(q) PROVE Inv'
<1> USE DEF Inv
<1>0. q \notin chan \cup buffer \cup batch \cup counted \cup gone /\ q \notin Stored
  BY DEF Log, Places
<1>1. WriterTypeOK'
  BY DEF WriterTypeOK, Log, TryEnqueue
<1>2. Places'
  BY <1>0 DEF Places, Log, TryEnqueue, Stored
<1>3. Finite'
  BY FS_AddElement DEF Finite, Log, TryEnqueue
<1>4. (dropped = Cardinality(counted))'
  <2>1. CASE ~Full
    BY <2>1 DEF Log, TryEnqueue
  <2>2. CASE Full
    <3>1. Cardinality(counted \cup {q}) = Cardinality(counted) + 1
      BY <1>0, FS_AddElement DEF Finite
    <3>2. QED
      BY <2>2, <3>1 DEF Log, TryEnqueue
  <2>3. QED
    BY <2>1, <2>2
<1>5. Tried'
  <2>1. \A r : Tries(r)' = Tries(r)
    BY DEF Tries, Log, TryEnqueue
  <2>2. QED
    BY <2>1 DEF Tried, Uses, Log, TryEnqueue
<1>6. QED
  BY <1>1, <1>2, <1>3, <1>4, <1>5

\* The channel is read, or the buffer becomes the batch.
LEMMA GatherKeeps == ASSUME Inv, (\E q \in chan : Recv(q)) \/ FlushTick PROVE Inv'
<1> USE DEF Inv
<1>0. UNCHANGED <<sent, late, copies, counted, dropped, gone, restarts>>
  BY DEF Recv, FlushTick
<1>1. /\ chan' \cup buffer' \cup batch' = chan \cup buffer \cup batch
      /\ chan' \subseteq chan /\ attempt = 0 /\ attempt' \in {0, 1}
      /\ buffer' = {} \/ batch' = batch
      /\ attempt' = 0 <=> batch' = {}
      /\ chan' \cap buffer' = {} /\ chan' \cap batch' = {} /\ buffer' \cap batch' = {}
  <2>1. CASE FlushTick
    BY <2>1 DEF FlushTick, FlushBatch, Places
  <2>2. ASSUME NEW q \in chan, Recv(q)
        PROVE  <1>1!1 /\ <1>1!2 /\ <1>1!3 /\ <1>1!4 /\ <1>1!5
    BY <2>2 DEF Recv, FlushBatch, Places
  <2>3. QED
    BY <2>1, <2>2
<1>2. WriterTypeOK'
  BY <1>0, <1>1 DEF WriterTypeOK
<1>3. Places'
  BY <1>0, <1>1 DEF Places, Stored
<1>4. Finite'
  <2>1. IsFiniteSet(chan \cup buffer \cup batch)
    BY FS_Union DEF Finite
  <2>2. IsFiniteSet(chan') /\ IsFiniteSet(buffer') /\ IsFiniteSet(batch')
    BY <1>1, <2>1, FS_Subset
  <2>3. QED
    BY <1>0, <2>2 DEF Finite
<1>5. Tried'
  <2>1. \A r : Tries(r)' = Tries(r)
    BY <1>0 DEF Tries
  <2>2. \A r \in Records : Uses(r)' = Uses(r)
    BY <1>0, <2>1 DEF Uses
  <2>3. batch = {}
    BY <1>1 DEF Places
  <2>4. QED
    BY <1>0, <1>1, <2>2, <2>3 DEF Tried, WriterTypeOK
<1>6. QED
  BY <1>0, <1>2, <1>3, <1>4, <1>5

\* The statement returns: what it inserted is stored, the rest is counted.
LEMMA InsertReturnsKeeps == ASSUME Inv, InsertReturns PROVE Inv'
<1> USE DEF Inv
<1>0. PICK S \in SUBSET batch : copies' = Rows(S) /\ Count(batch \ S)
  BY DEF InsertReturns
<1>1. /\ batch' = {} /\ attempt' = 0 /\ attempt \in {1, 2}
      /\ UNCHANGED <<sent, chan, buffer, late, gone, restarts>>
  BY DEF InsertReturns, BatchDone, WriterTypeOK
<1>2. S \subseteq Records /\ batch \subseteq Records
  BY DEF WriterTypeOK
<1>3. \A r \in Records : copies'[r] = copies[r] + IF r \in S THEN 1 ELSE 0
  BY <1>0 DEF Rows
<1>4. copies' \in [Records -> Nat]
  BY <1>0 DEF Rows, WriterTypeOK
<1>5. Stored' = Stored \cup S
  BY <1>2, <1>3, <1>4 DEF Stored, WriterTypeOK
<1>6. counted' = counted \cup (batch \ S)
  BY <1>0 DEF Count
<1>7. IsFiniteSet(counted') /\ dropped' = Cardinality(counted') /\ dropped' \in Nat
  <2>1. IsFiniteSet(batch \ S)
    BY FS_Subset DEF Finite
  <2>2. counted \cap (batch \ S) = {}
    BY DEF Places
  <2>3. QED
    BY <1>0, <2>1, <2>2, CountAdds DEF Finite
<1>8. WriterTypeOK'
  BY <1>1, <1>2, <1>4, <1>6, <1>7 DEF WriterTypeOK
<1>9. Places'
  BY <1>1, <1>5, <1>6 DEF Places
<1>10. Finite'
  BY <1>1, <1>7, FS_EmptySet DEF Finite
<1>11. Tried'
  <2> SUFFICES ASSUME NEW r \in Records
               PROVE  /\ r \notin sent' \/ r \in chan' \cup buffer' => Uses(r)' = 0
                      /\ r \in batch' => Uses(r)' < attempt'
                      /\ Uses(r)' <= 2
    BY DEF Tried
  <2>1. Cardinality(Tries(r)) \in Nat /\ Tries(r)' = Tries(r)
    BY <1>1, TriesNat DEF Tries
  <2>2. Uses(r)' = Uses(r) + (IF r \in S THEN 1 ELSE 0) /\ Uses(r) \in Nat
    BY <1>3, <2>1 DEF Uses, WriterTypeOK
  <2>3. r \in S => Uses(r) < attempt /\ r \in sent /\ r \notin chan \cup buffer
    BY DEF Tried, Places
  <2>4. QED
    BY <1>1, <2>2, <2>3 DEF Tried
<1>12. QED
  BY <1>7, <1>8, <1>9, <1>10, <1>11

\* The statement fails or times out: one more try, or the batch is counted.
LEMMA InsertFailsKeeps == ASSUME Inv, InsertFails PROVE Inv'
<1> USE DEF Inv
<1>1. /\ attempt \in {1, 2} /\ late' \in {late, late \cup {<<batch, attempt>>}}
      /\ UNCHANGED <<sent, chan, buffer, copies, gone, restarts>>
  BY DEF InsertFails, WriterTypeOK
<1>2. batch \subseteq Records /\ batch \subseteq sent
  BY DEF WriterTypeOK, Places
<1>3. late' \subseteq (SUBSET Records) \X {1, 2} /\ \A x \in late' : x[1] \subseteq sent
  BY <1>1, <1>2 DEF WriterTypeOK, Places
<1>4. IsFiniteSet(late')
  BY <1>1, FS_AddElement DEF Finite
<1>5. Stored' = Stored
  BY <1>1 DEF Stored
<1>6. ASSUME NEW r \in Records
      PROVE  /\ Uses(r) \in Nat /\ Uses(r)' \in Nat /\ Uses(r)' <= Uses(r) + 1
             /\ r \notin batch => Uses(r)' = Uses(r)
  <2>1. Cardinality(Tries(r)) \in Nat
    BY TriesNat
  <2>2. CASE late' = late
    <3>1. Tries(r)' = Tries(r)
      BY <2>2 DEF Tries
    <3>2. QED
      BY <1>1, <2>1, <3>1 DEF Uses, WriterTypeOK
  <2>3. CASE late' = late \cup {<<batch, attempt>>}
    <3>1. /\ Cardinality(Tries(r)') \in Nat
          /\ Cardinality(Tries(r)') <= Cardinality(Tries(r)) + 1
          /\ r \notin <<batch, attempt>>[1] => Cardinality(Tries(r)') = Cardinality(Tries(r))
      BY <2>3, TriesAdd DEF Finite
    <3>2. QED
      BY <1>1, <2>1, <3>1 DEF Uses, WriterTypeOK
  <2>4. QED
    BY <1>1, <2>2, <2>3
<1>7. CASE attempt = 1
  <2>1. attempt' = 2 /\ UNCHANGED <<batch, counted, dropped>>
    BY <1>7 DEF InsertFails
  <2>2. WriterTypeOK'
    BY <1>1, <1>3, <2>1 DEF WriterTypeOK
  <2>3. Places'
    BY <1>1, <1>3, <1>5, <1>7, <2>1 DEF Places
  <2>4. Finite'
    BY <1>1, <1>4, <2>1 DEF Finite
  <2>5. Tried'
    <3> SUFFICES ASSUME NEW r \in Records
                 PROVE  /\ r \notin sent' \/ r \in chan' \cup buffer' => Uses(r)' = 0
                        /\ r \in batch' => Uses(r)' < attempt'
                        /\ Uses(r)' <= 2
      BY DEF Tried
    <3>1. CASE r \in batch
      BY <1>1, <1>2, <1>6, <1>7, <2>1, <3>1 DEF Tried, Places
    <3>2. CASE r \notin batch
      BY <1>1, <1>6, <2>1, <3>2 DEF Tried
    <3>3. QED
      BY <3>1, <3>2
  <2>6. QED
    BY <2>1, <2>2, <2>3, <2>4, <2>5
<1>8. CASE attempt = 2
  <2>1. Count(batch) /\ batch' = {} /\ attempt' = 0
    BY <1>8 DEF InsertFails, BatchDone
  <2>2. counted' = counted \cup batch
    BY <2>1 DEF Count
  <2>3. IsFiniteSet(counted') /\ dropped' = Cardinality(counted') /\ dropped' \in Nat
    <3>1. counted \cap batch = {}
      BY DEF Places
    <3>2. QED
      BY <2>1, <3>1, CountAdds DEF Finite
  <2>4. WriterTypeOK'
    BY <1>1, <1>2, <1>3, <2>1, <2>2, <2>3 DEF WriterTypeOK
  <2>5. Places'
    BY <1>1, <1>3, <1>5, <2>1, <2>2 DEF Places
  <2>6. Finite'
    BY <1>1, <1>4, <2>1, <2>3, FS_EmptySet DEF Finite
  <2>7. Tried'
    <3> SUFFICES ASSUME NEW r \in Records
                 PROVE  /\ r \notin sent' \/ r \in chan' \cup buffer' => Uses(r)' = 0
                        /\ r \in batch' => Uses(r)' < attempt'
                        /\ Uses(r)' <= 2
      BY DEF Tried
    <3>1. CASE r \in batch
      BY <1>1, <1>2, <1>6, <1>8, <2>1, <3>1 DEF Tried, Places
    <3>2. CASE r \notin batch
      BY <1>1, <1>6, <2>1, <3>2 DEF Tried
    <3>3. QED
      BY <3>1, <3>2
  <2>8. QED
    BY <2>3, <2>4, <2>5, <2>6, <2>7
<1>9. QED
  BY <1>1, <1>7, <1>8

\* The database decides about a statement that was given up.
LEMMA LateKeeps == ASSUME Inv, NEW x \in late, LateCommit(x) \/ LateAbort(x) PROVE Inv'
<1> USE DEF Inv
<1>1. /\ late' = late \ {x}
      /\ UNCHANGED <<sent, chan, buffer, batch, attempt, counted, dropped, gone, restarts>>
      /\ copies' = copies \/ copies' = Rows(x[1])
  BY DEF LateCommit, LateAbort
<1>2. x[1] \subseteq Records /\ x[1] \subseteq sent
  BY DEF WriterTypeOK, Places
<1>3. copies' \in [Records -> Nat]
  BY <1>1 DEF Rows, WriterTypeOK
<1>4. Stored \subseteq Stored' /\ Stored' \subseteq Stored \cup x[1]
  BY <1>1, <1>2 DEF Stored, Rows, WriterTypeOK
<1>5. WriterTypeOK'
  BY <1>1, <1>3 DEF WriterTypeOK
<1>6. Places'
  BY <1>1, <1>2, <1>4 DEF Places
<1>7. Finite'
  BY <1>1, FS_RemoveElement DEF Finite
<1>8. Tried'
  <2> SUFFICES ASSUME NEW r \in Records PROVE Uses(r)' <= Uses(r) /\ Uses(r)' \in Nat /\ Uses(r) \in Nat
    BY <1>1 DEF Tried, WriterTypeOK
  <2>1. /\ Cardinality(Tries(r)) \in Nat /\ Cardinality(Tries(r)') \in Nat
        /\ r \in x[1] => Cardinality(Tries(r)') + 1 = Cardinality(Tries(r))
        /\ r \notin x[1] => Cardinality(Tries(r)') = Cardinality(Tries(r))
    BY <1>1, TriesRemove
  <2>2. copies'[r] = copies[r] \/ copies'[r] = copies[r] + IF r \in x[1] THEN 1 ELSE 0
    BY <1>1 DEF Rows
  <2>3. copies[r] \in Nat /\ copies'[r] \in Nat
    BY <1>3 DEF WriterTypeOK
  <2>4. QED
    BY <2>1, <2>2, <2>3 DEF Uses
<1>9. QED
  BY <1>1, <1>5, <1>6, <1>7, <1>8

\* The process restarts: nothing is pending or counted any more.
LEMMA RestartKeeps == ASSUME Inv, RestartWriter PROVE Inv'
<1> USE DEF Inv
<1>1. /\ gone' = gone \cup chan \cup buffer \cup batch \cup counted
      /\ chan' = {} /\ buffer' = {} /\ batch' = {} /\ attempt' = 0 /\ counted' = {} /\ dropped' = 0
      /\ late' = IF attempt > 0 THEN late \cup {<<batch, attempt>>} ELSE late
      /\ UNCHANGED <<sent, copies>> /\ restarts' \in 0 .. MaxRestarts
  BY WriterConstants DEF RestartWriter, BatchDone, WriterTypeOK
<1>2. late' \subseteq (SUBSET Records) \X {1, 2} /\ \A x \in late' : x[1] \subseteq sent
  BY <1>1 DEF WriterTypeOK, Places
<1>3. WriterTypeOK'
  BY <1>1, <1>2 DEF WriterTypeOK
<1>4. Stored' = Stored
  BY <1>1 DEF Stored
<1>5. Places'
  BY <1>1, <1>2, <1>4 DEF Places
<1>6. Finite' /\ (dropped = Cardinality(counted))'
  BY <1>1, FS_EmptySet, FS_AddElement DEF Finite
<1>7. Tried'
  <2> SUFFICES ASSUME NEW r \in Records PROVE (r \notin sent => Uses(r)' = 0) /\ Uses(r)' <= 2
    BY <1>1 DEF Tried
  <2>1. Cardinality(Tries(r)) \in Nat
    BY TriesNat
  <2>2. CASE attempt = 0
    <3>1. Tries(r)' = Tries(r)
      BY <1>1, <2>2 DEF Tries
    <3>2. QED
      BY <1>1, <3>1 DEF Uses, Tried
  <2>3. CASE attempt # 0
    <3>1. late' = late \cup {<<batch, attempt>>}
      BY <1>1, <2>3 DEF WriterTypeOK
    <3>2. /\ Cardinality(Tries(r)') \in Nat
          /\ Cardinality(Tries(r)') <= Cardinality(Tries(r)) + 1
          /\ r \notin <<batch, attempt>>[1] => Cardinality(Tries(r)') = Cardinality(Tries(r))
      BY <3>1, TriesAdd DEF Finite
    <3>4. copies[r] \in Nat /\ copies'[r] = copies[r] /\ Uses(r) \in Nat
      BY <1>1, <2>1 DEF WriterTypeOK, Uses
    <3>3. r \in batch => Uses(r) < 2 /\ r \in sent
      <4>1. r \in batch => Uses(r) < attempt
        BY DEF Tried
      <4>2. attempt \in 0 .. 2
        BY DEF WriterTypeOK
      <4>3. QED
        BY <3>4, <4>1, <4>2 DEF Places
    <3>5. QED
      BY <2>1, <3>2, <3>3, <3>4 DEF Uses, Tried
  <2>4. QED
    BY <2>2, <2>3
<1>8. QED
  BY <1>3, <1>5, <1>6, <1>7

LEMMA StepKeeps == Inv /\ [WriterNext]_writerVars => Inv'
<1> SUFFICES ASSUME Inv, [WriterNext]_writerVars PROVE Inv'
  OBVIOUS
<1>1. ASSUME NEW r \in Records, Log(r) PROVE Inv'
  BY <1>1, LogKeeps
<1>2. CASE WriterStep
  BY <1>2, GatherKeeps, InsertReturnsKeeps, InsertFailsKeeps, LateKeeps DEF WriterStep
<1>3. CASE RestartWriter
  BY <1>3, RestartKeeps
<1>4. CASE UNCHANGED writerVars
  BY <1>4 DEF writerVars, Inv, WriterTypeOK, Places, Stored, Finite, Tried, Uses, Tries
<1>5. QED
  BY <1>1, <1>2, <1>3, <1>4 DEF WriterNext

\* The drop counter is exact and the retry stores no record more than twice
\* (flush_batch, try_enqueue), for any number of records and any capacity.
THEOREM CounterIsExact == WriterSpec => []CounterExact
<1>1. Inv => CounterExact
  BY DEF Inv, Tried, Uses, Tries, CounterExact
<1>2. QED
  BY <1>1, InitInv, StepKeeps, PTL DEF WriterSpec

-----------------------------------------------------------------------------
(* The refinement: every step of the writer is a step of AuditLog or leaves *)
(* its variables alone.                                                     *)

LEMMA BatchStep ==
    ASSUME NEW B \in SUBSET Records, Audit!Resolve(B) \/ Audit!StoreLate(B)
    PROVE  Audit!AuditNext
  BY DEF Audit!AuditNext

LEMMA SubmitSimulated ==
    ASSUME Inv, NEW r \in Records, Log(r)
    PROVE  Audit!Submit(r)
<1>1. Stored' = Stored
  BY DEF Log, TryEnqueue, Stored
<1>2. QED
  BY <1>1 DEF Log, TryEnqueue, Audit!Submit, Stored

LEMMA ReturnSimulated ==
    ASSUME Inv, InsertReturns, NEW B \in SUBSET Records, B = batch
    PROVE  Audit!Resolve(B)
<1>0. PICK S \in SUBSET B : copies' = Rows(S) /\ Count(B \ S)
  BY DEF InsertReturns
<1>1. B # {} /\ (chan \cup buffer) \cap B = {}
  BY DEF Inv, Places, InsertReturns, WriterTypeOK
<1>2. batch' = {} /\ UNCHANGED <<sent, chan, buffer, gone>>
  BY DEF InsertReturns, BatchDone
<1>3. Stored' = Stored \cup S
  BY <1>0, <1>1 DEF Stored, Rows, Inv, WriterTypeOK
<1>4. counted' = counted \cup (B \ S)
  BY <1>0 DEF Count
<1>5. B \subseteq Stored' \cup (B \ S)
  BY <1>3
<1>6. (chan \cup buffer \cup batch)' = (chan \cup buffer \cup batch) \ B
  BY <1>1, <1>2
<1>7. \E A \in SUBSET B, D \in SUBSET B :
         /\ Stored' = Stored \cup A /\ counted' = counted \cup D
         /\ B \subseteq Stored' \cup D
  <2>1. S \in SUBSET B /\ B \ S \in SUBSET B
    BY <1>0
  <2>2. QED
    BY <1>3, <1>4, <1>5, <2>1, Zenon
<1>8. QED
  BY <1>1, <1>2, <1>6, <1>7 DEF Audit!Resolve, Stored

LEMMA FailureSimulated ==
    ASSUME Inv, InsertFails, NEW B \in SUBSET Records, B = batch
    PROVE  Audit!Resolve(B) \/ UNCHANGED Audit!auditVars
<1>1. Stored' = Stored
  BY DEF InsertFails, Stored
<1>2. CASE attempt = 1
  BY <1>1, <1>2 DEF InsertFails, Audit!auditVars, Stored
<1>3. CASE attempt = 2
  <2>1. B # {} /\ (chan \cup buffer) \cap B = {}
    BY <1>3 DEF Inv, Places
  <2>2. batch' = {} /\ counted' = counted \cup B /\ UNCHANGED <<sent, chan, buffer, gone>>
    BY <1>3 DEF InsertFails, BatchDone, Count
  <2>3. Audit!Resolve(B)
    BY <1>1, <2>1, <2>2 DEF Audit!Resolve, Stored
  <2>4. QED
    BY <2>3
<1>4. QED
  BY <1>2, <1>3 DEF InsertFails, Inv, WriterTypeOK

LEMMA LateSimulated ==
    ASSUME Inv, NEW x \in late, LateCommit(x) \/ LateAbort(x)
    PROVE  (x[1] \subseteq Records /\ Audit!StoreLate(x[1])) \/ UNCHANGED Audit!auditVars
<1>1. x[1] \subseteq Records /\ x[1] \subseteq sent
  BY DEF Inv, Places, WriterTypeOK
<1>2. CASE LateCommit(x)
  <2>1. Stored' = Stored \cup x[1]
    BY <1>1, <1>2 DEF LateCommit, Stored, Rows, Inv, WriterTypeOK
  <2>2. QED
    BY <1>1, <1>2, <2>1 DEF LateCommit, Audit!StoreLate, Stored
<1>3. CASE LateAbort(x)
  BY <1>3 DEF LateAbort, Audit!auditVars
<1>4. QED
  BY <1>2, <1>3

LEMMA GatherSimulated ==
    ASSUME Inv, (\E q \in chan : Recv(q)) \/ FlushTick
    PROVE  UNCHANGED Audit!auditVars
<1>1. (chan \cup buffer \cup batch)' = chan \cup buffer \cup batch
  BY DEF Recv, FlushTick, FlushBatch, Inv, Places
<1>2. UNCHANGED <<sent, copies, counted, gone>>
  BY DEF Recv, FlushTick
<1>3. QED
  BY <1>1, <1>2 DEF Audit!auditVars

LEMMA RestartSimulated == ASSUME Inv, RestartWriter PROVE Audit!Forget
  BY DEF RestartWriter, BatchDone, Audit!Forget

\* The request log writer implements AuditLog: whatever fails and however it is
\* scheduled, a record leaves the writer only stored or counted.
THEOREM WriterImplementsAudit == WriterSpec => Audit!AuditSafety
<1>1. WriterInit => Audit!AuditInit
  BY DEF WriterInit, Audit!AuditInit
<1>2. Inv /\ [WriterNext]_writerVars => [Audit!AuditNext]_(Audit!auditVars)
  <2> SUFFICES ASSUME Inv, [WriterNext]_writerVars
               PROVE  Audit!AuditNext \/ UNCHANGED Audit!auditVars
    OBVIOUS
  <2>1. ASSUME NEW r \in Records, Log(r) PROVE Audit!AuditNext
    BY <2>1, SubmitSimulated DEF Audit!AuditNext
  <2>2. CASE WriterStep
    <3>1. PICK B \in SUBSET Records : B = batch
      BY DEF Inv, WriterTypeOK
    <3>2. CASE (\E q \in chan : Recv(q)) \/ FlushTick
      BY <3>2, GatherSimulated
    <3>3. CASE InsertReturns
      <4>1. Audit!Resolve(B)
        BY <3>1, <3>3, ReturnSimulated
      <4>2. QED
        BY <4>1, BatchStep
    <3>4. CASE InsertFails
      <4>1. Audit!Resolve(B) \/ UNCHANGED Audit!auditVars
        BY <3>1, <3>4, FailureSimulated
      <4>2. QED
        BY <4>1, BatchStep
    <3>5. ASSUME NEW x \in late, LateCommit(x) \/ LateAbort(x)
          PROVE  Audit!AuditNext \/ UNCHANGED Audit!auditVars
      <4>1. (x[1] \in SUBSET Records /\ Audit!StoreLate(x[1])) \/ UNCHANGED Audit!auditVars
        BY <3>5, LateSimulated
      <4>2. QED
        BY <4>1, BatchStep
    <3>6. QED
      BY <2>2, <3>2, <3>3, <3>4, <3>5 DEF WriterStep
  <2>3. CASE RestartWriter
    BY <2>3, RestartSimulated DEF Audit!AuditNext
  <2>4. CASE UNCHANGED writerVars
    BY <2>4 DEF writerVars, Audit!auditVars
  <2>5. QED
    BY <2>1, <2>2, <2>3, <2>4 DEF WriterNext
<1>3. QED
  BY <1>1, <1>2, InitInv, StepKeeps, PTL DEF WriterSpec, Audit!AuditSafety

-----------------------------------------------------------------------------
(***************************************************************************)
(* The pipeline.                                                           *)
(***************************************************************************)
\* The handler has not called the provider's stream yet.
Early == {"new", "checks", "reject", "route", "queue", "call", "reply", "failed"}
Over == {"answered", "gone"}

\* A request leaves its traces when it ends, and only then.
TracesAtEnd ==
    \A r \in Reqs :
        /\ records[r] <= 1 /\ prompts[r] <= 1
        /\ r \in sent <=> records[r] = 1
        /\ pc[r] \notin Over => records[r] = 0 /\ prompts[r] = 0
        /\ pc[r] = "answered" => (records[r] = 1) # (r \in silent)
        /\ pc[r] # "answered" => r \notin silent

\* The forwarding task belongs to a stream; an answered request has none.
TaskOfStream ==
    \A r \in Reqs :
        /\ pc[r] \in Early => fwd[r] = "none" /\ produced[r] = 0
        /\ pc[r] = "answered" => fwd[r] # "run"
        /\ pc[r] \in Over /\ fwd[r] # "none" => records[r] = 1 /\ (r \in Captured => prompts[r] = 1)

\* The last chunk's usage is noted before the chunk is sent.
UsageNoted ==
    \A r \in Reqs : produced[r] = Chunks => usage[r] = 1 /\ (pc[r] = "answered" => logged[r] = 1)

\* Whatever the dedup cache names is on record.
DedupRecorded ==
    /\ \A k \in dedup : \E q \in Reqs : KeyOf[q] = k /\ records[q] = 1
    /\ \A r \in silent : \E q \in Reqs \ {r} : KeyOf[q] = KeyOf[r] /\ records[q] = 1

Counted == {q \in Reqs : "inflight" \in held[q]}

\* The tracker counts the requests that hold its guard; one that has ended
\* holds none.
InflightExact ==
    /\ IsFiniteSet(Counted) /\ inflight = Cardinality(Counted)
    /\ \A r \in Reqs : pc[r] \in Over \cup {"new", "checks"} => held[r] = {}
    /\ \A r \in Reqs : (pc[r] \in {"route", "queue"} \/ (pc[r] = "call" /\ stream[r]))
                          => "inflight" \notin held[r]

PipeInv ==
    TypeOK /\ TracesAtEnd /\ TaskOfStream /\ UsageNoted /\ DedupRecorded /\ InflightExact

-----------------------------------------------------------------------------
(* The pipeline uses the writer as LogWriter says. *)

\* A request that has not ended has handed over nothing yet: its record is new
\* to the writer.
LEMMA RecordIsNew ==
    ASSUME PipeInv, NEW r \in Reqs, pc[r] \notin Over, NEW u, LogRequest(r, u)
    PROVE  Log(r) /\ records[r] = 0
BY DEF PipeInv, TracesAtEnd, LogRequest, Log

\* Every step of the pipeline is a step of the writer or leaves it alone.
LEMMA StepOfWriter ==
    ASSUME PipeInv, [Next]_vars
    PROVE  [WriterNext]_writerVars
<1>1. ASSUME NEW r \in Reqs, NEW s \in BOOLEAN, Arrive(r, s) PROVE UNCHANGED writerVars
  BY <1>1 DEF Arrive
<1>2. ASSUME NEW r \in Reqs, NEW u, LogRequest(r, u), pc[r] \notin Over PROVE WriterNext
  BY <1>2, RecordIsNew DEF WriterNext, Reqs
<1>3. ASSUME NEW r \in Reqs, Handle(r) PROVE WriterNext \/ UNCHANGED writerVars
  <2>1. CASE LogRefusal(r)
    BY <1>2, <2>1 DEF LogRefusal, Over
  <2>2. CASE ProviderFails(r)
    BY <1>2, <2>2 DEF ProviderFails, Over
  <2>3. CASE ProviderReplies(r)
    BY <1>2, <2>3 DEF ProviderReplies, Over
  <2>4. CASE PassChecks(r) \/ Refuse(r) \/ Route(r) \/ AcquireFlow(r) \/ StreamBegins(r)
    BY <2>4 DEF PassChecks, Refuse, Route, AcquireFlow, StreamBegins
  <2> QED
    BY <1>3, <2>1, <2>2, <2>3, <2>4 DEF Handle
<1>4. ASSUME NEW r \in Reqs, NEW l, DropStream(r, l) PROVE WriterNext
  BY <1>2, <1>4 DEF DropStream, Over
<1>5. ASSUME NEW r \in Reqs, Forward(r) \/ Respond(r) \/ StreamAborted(r) \/ Disconnect(r)
      PROVE  WriterNext \/ UNCHANGED writerVars
  <2>1. CASE StreamEnds(r) \/ StreamAborted(r)
    BY <1>4, <2>1 DEF StreamEnds, StreamAborted
  <2>2. CASE ForwardChunk(r) \/ ForwardEnds(r) \/ DeliverChunk(r) \/ Disconnect(r)
    BY <2>2 DEF ForwardChunk, ForwardEnds, DeliverChunk, Disconnect
  <2> QED
    BY <1>5, <2>1, <2>2 DEF Forward, Respond
<1>6. ASSUME NEW k \in dedup, DedupExpires(k) PROVE UNCHANGED writerVars
  BY <1>6 DEF DedupExpires
<1>7. CASE WriterStep
  BY <1>7 DEF WriterNext
<1>8. CASE Restart
  BY <1>8 DEF Restart, WriterNext
<1>9. CASE UNCHANGED vars
  BY <1>9 DEF vars
<1> QED
  BY <1>1, <1>3, <1>5, <1>6, <1>7, <1>8, <1>9 DEF Next

-----------------------------------------------------------------------------
(* The in-flight counter. *)

\* A step that gives no request the tracker's guard and takes it from none.
LEMMA SameCounted ==
    ASSUME PipeInv, inflight' = inflight,
           \A q \in Reqs : "inflight" \in held'[q] <=> "inflight" \in held[q]
    PROVE  IsFiniteSet(Counted') /\ inflight' = Cardinality(Counted') /\ inflight' \in Nat
<1>1. Counted' = Counted
  BY DEF Counted
<1> QED
  BY <1>1 DEF PipeInv, InflightExact, TypeOK

\* Dropping everything that r owns takes r out of the count.
LEMMA DropCounted ==
    ASSUME PipeInv, NEW r \in Reqs, DropGuards(r)
    PROVE  /\ IsFiniteSet(Counted') /\ inflight' = Cardinality(Counted') /\ inflight' \in Nat
           /\ held' \in [Reqs -> SUBSET Guards]
           /\ held'[r] = {} /\ \A q \in Reqs \ {r} : held'[q] = held[q]
<1>1. held \in [Reqs -> SUBSET Guards] /\ inflight \in Nat
  BY DEF PipeInv, TypeOK
<1>2. /\ held' \in [Reqs -> SUBSET Guards]
      /\ held'[r] = {} /\ \A q \in Reqs \ {r} : held'[q] = held[q]
  BY <1>1 DEF DropGuards
<1>3. Counted' = Counted \ {r}
  BY <1>2 DEF Counted
<1>4. IsFiniteSet(Counted) /\ inflight = Cardinality(Counted)
  BY DEF PipeInv, InflightExact
<1>5. CASE r \in Counted
  <2>1. /\ IsFiniteSet(Counted \ {r})
        /\ Cardinality(Counted \ {r}) = Cardinality(Counted) - 1
    BY <1>4, <1>5, FS_RemoveElement
  <2>2. Cardinality(Counted \ {r}) \in Nat
    BY <2>1, FS_CardinalityType
  <2>3. inflight' = inflight - 1
    BY <1>5 DEF DropGuards, InflightAfterDrop, Counted
  <2> QED
    BY <1>2, <1>3, <1>4, <2>1, <2>2, <2>3
<1>6. CASE r \notin Counted
  <2>1. inflight' = inflight
    BY <1>6 DEF DropGuards, InflightAfterDrop, Counted
  <2>2. Counted' = Counted
    BY <1>3, <1>6
  <2> QED
    BY <1>1, <1>2, <1>4, <2>1, <2>2
<1> QED
  BY <1>5, <1>6

\* Taking the tracker's guard puts r in.
LEMMA TakeCounted ==
    ASSUME PipeInv, NEW r \in Reqs, "inflight" \notin held[r], inflight' = inflight + 1,
           "inflight" \in held'[r], \A q \in Reqs \ {r} : held'[q] = held[q]
    PROVE  IsFiniteSet(Counted') /\ inflight' = Cardinality(Counted') /\ inflight' \in Nat
<1>1. Counted' = Counted \cup {r} /\ r \notin Counted
  BY DEF Counted
<1>2. IsFiniteSet(Counted) /\ inflight = Cardinality(Counted) /\ inflight \in Nat
  BY DEF PipeInv, InflightExact, TypeOK
<1>3. IsFiniteSet(Counted \cup {r}) /\ Cardinality(Counted \cup {r}) = Cardinality(Counted) + 1
  BY <1>1, <1>2, FS_AddElement
<1> QED
  BY <1>1, <1>2, <1>3

-----------------------------------------------------------------------------
(* One lemma for each kind of step. *)

\* A request ends with a record of usage u.
LEMMA EndKeeps ==
    ASSUME PipeInv, WriterTypeOK', NEW r \in Reqs, pc[r] \notin Over, NEW l \in Over, NEW u \in 0 .. 1,
           LogRequest(r, u), Goto(r, l), DropGuards(r),
           UNCHANGED <<stream, fwd, produced, usage, silent>>,
           queued' \in [Reqs -> 0 .. Buffer],
           dedup' = dedup \/ dedup' = dedup \cup {KeyOf[r]},
           prompts' = prompts \/ prompts' = [prompts EXCEPT ![r] = @ + 1],
           l = "answered" => fwd[r] # "run",
           l = "answered" /\ produced[r] = Chunks => u = 1,
           fwd[r] # "none" /\ r \in Captured => prompts' = [prompts EXCEPT ![r] = @ + 1]
    PROVE  PipeInv'
<1>0. TypeOK /\ TracesAtEnd /\ TaskOfStream /\ UsageNoted /\ DedupRecorded /\ InflightExact
  BY DEF PipeInv
<1>1. records[r] = 0 /\ prompts[r] = 0 /\ r \notin silent
  BY <1>0 DEF TracesAtEnd, Over
<1>2. /\ pc' \in [Reqs -> PCs] /\ records' \in [Reqs -> Nat] /\ logged' \in [Reqs -> 0 .. 1]
      /\ pc'[r] = l /\ records'[r] = 1 /\ logged'[r] = u
      /\ \A q \in Reqs \ {r} : pc'[q] = pc[q] /\ records'[q] = records[q] /\ logged'[q] = logged[q]
  BY <1>0, <1>1 DEF TypeOK, Goto, LogRequest, PCs, Over
<1>3. /\ prompts' \in [Reqs -> Nat] /\ prompts'[r] \in {0, 1}
      /\ fwd[r] # "none" /\ r \in Captured => prompts'[r] = 1
      /\ \A q \in Reqs \ {r} : prompts'[q] = prompts[q]
  BY <1>0, <1>1 DEF TypeOK
<1>4. /\ IsFiniteSet(Counted') /\ inflight' = Cardinality(Counted') /\ inflight' \in Nat
      /\ held' \in [Reqs -> SUBSET Guards]
      /\ held'[r] = {} /\ \A q \in Reqs \ {r} : held'[q] = held[q]
  BY DropCounted
<1>5. sent' = sent \cup {r}
  BY DEF LogRequest, TryEnqueue
<1>6. TypeOK'
  BY <1>0, <1>2, <1>3, <1>4 DEF TypeOK
<1>7. TracesAtEnd'
  BY <1>0, <1>1, <1>2, <1>3, <1>5 DEF TracesAtEnd, Over
<1>8. TaskOfStream'
  BY <1>0, <1>2, <1>3 DEF TaskOfStream, Over, Early
<1>9. UsageNoted'
  BY <1>0, <1>2 DEF UsageNoted
<1>10. DedupRecorded'
  <2>1. \A q \in Reqs : records[q] = 1 => records'[q] = 1
    BY <1>1, <1>2
  <2>2. \A k \in dedup' : \E q \in Reqs : KeyOf[q] = k /\ records'[q] = 1
    BY <1>0, <1>2, <2>1 DEF DedupRecorded
  <2>3. \A s \in silent' : \E q \in Reqs \ {s} : KeyOf[q] = KeyOf[s] /\ records'[q] = 1
    BY <1>0, <2>1 DEF DedupRecorded
  <2> QED
    BY <2>2, <2>3 DEF DedupRecorded
<1>11. InflightExact'
  BY <1>0, <1>2, <1>4 DEF InflightExact, Over
<1> QED
  BY <1>6, <1>7, <1>8, <1>9, <1>10, <1>11 DEF PipeInv

\* A request moves on, or is given up, without a record.
LEMMA MoveKeeps ==
    ASSUME PipeInv, WriterTypeOK', NEW r \in Reqs, pc[r] \in Early, NEW l \in PCs \ {"answered"},
           Goto(r, l), UNCHANGED <<sent, produced, queued, usage, dedup, silent, records, logged, prompts>>,
           stream' \in [Reqs -> BOOLEAN], \A q \in Reqs \ {r} : stream'[q] = stream[q],
           fwd' \in [Reqs -> {"none", "run", "done"}], \A q \in Reqs \ {r} : fwd'[q] = fwd[q],
           l # "stream" => fwd'[r] = fwd[r],
           held' \in [Reqs -> SUBSET Guards], \A q \in Reqs \ {r} : held'[q] = held[q],
           IsFiniteSet(Counted'), inflight' = Cardinality(Counted'), inflight' \in Nat,
           l \in {"gone", "new", "checks"} => held'[r] = {},
           l \in {"route", "queue"} \/ (l = "call" /\ stream'[r]) => "inflight" \notin held'[r]
    PROVE  PipeInv'
<1>0. TypeOK /\ TracesAtEnd /\ TaskOfStream /\ UsageNoted /\ DedupRecorded /\ InflightExact
  BY DEF PipeInv
<1>1. records[r] = 0 /\ prompts[r] = 0 /\ r \notin silent /\ fwd[r] = "none" /\ produced[r] = 0
  BY <1>0 DEF TracesAtEnd, TaskOfStream, Over, Early
<1>2. pc' \in [Reqs -> PCs] /\ pc'[r] = l /\ \A q \in Reqs \ {r} : pc'[q] = pc[q]
  BY <1>0 DEF TypeOK, Goto
<1>3. TypeOK'
  BY <1>0, <1>2 DEF TypeOK
<1>4. TracesAtEnd'
  BY <1>0, <1>1, <1>2 DEF TracesAtEnd, Over
<1>5. TaskOfStream'
  BY <1>0, <1>1, <1>2 DEF TaskOfStream, Over, Early
<1>6. UsageNoted'
  BY <1>0, <1>2 DEF UsageNoted
<1>7. DedupRecorded'
  BY <1>0 DEF DedupRecorded
<1>8. InflightExact'
  BY <1>0, <1>2 DEF InflightExact, Over
<1> QED
  BY <1>3, <1>4, <1>5, <1>6, <1>7, <1>8 DEF PipeInv

\* The writer alone moves, or a dedup entry expires.
LEMMA QuietKeeps ==
    ASSUME PipeInv, WriterTypeOK', sent' = sent, dedup' \subseteq dedup,
           UNCHANGED <<pc, stream, held, inflight, fwd, produced, queued, usage, silent, records, logged,
                       prompts>>
    PROVE  PipeInv'
<1>0. TypeOK /\ TracesAtEnd /\ TaskOfStream /\ UsageNoted /\ DedupRecorded /\ InflightExact
  BY DEF PipeInv
<1>1. Counted' = Counted
  BY DEF Counted
<1>2. TypeOK' /\ TracesAtEnd' /\ TaskOfStream' /\ UsageNoted'
  BY <1>0 DEF TypeOK, TracesAtEnd, TaskOfStream, UsageNoted
<1>3. DedupRecorded'
  BY <1>0 DEF DedupRecorded
<1>4. InflightExact'
  BY <1>0, <1>1 DEF InflightExact
<1> QED
  BY <1>2, <1>3, <1>4 DEF PipeInv

\* The forwarding task or the response moves a chunk, or the task ends.
LEMMA ChunkKeeps ==
    ASSUME PipeInv, NEW r \in Reqs, Forward(r) \/ DeliverChunk(r)
    PROVE  PipeInv'
<1>0. TypeOK /\ TracesAtEnd /\ TaskOfStream /\ UsageNoted /\ DedupRecorded /\ InflightExact
  BY DEF PipeInv
<1>1. UNCHANGED <<writerVars, pc, stream, held, inflight, dedup, silent, records, logged, prompts>>
  BY DEF Forward, ForwardChunk, ForwardEnds, DeliverChunk
<1>2. UNCHANGED <<sent, pc, stream, held, inflight, dedup, silent, records, logged, prompts>>
  BY <1>1 DEF writerVars
<1>3. /\ fwd' \in [Reqs -> {"none", "run", "done"}]
      /\ \A q \in Reqs : (fwd'[q] = "none" <=> fwd[q] = "none") /\ (fwd[q] # "run" => fwd'[q] = fwd[q])
  BY <1>0 DEF TypeOK, Forward, ForwardChunk, ForwardEnds, DeliverChunk
<1>4. /\ produced' \in [Reqs -> 0 .. Chunks]
      /\ \A q \in Reqs : produced'[q] # produced[q] => fwd[q] = "run"
      /\ usage' \in [Reqs -> 0 .. 1]
      /\ \A q \in Reqs : (produced[q] = Chunks => usage[q] = 1) => (produced'[q] = Chunks => usage'[q] = 1)
  <2>1. CASE ForwardEnds(r) \/ DeliverChunk(r)
    BY <1>0, <2>1 DEF TypeOK, ForwardEnds, DeliverChunk
  <2>2. CASE ForwardChunk(r)
    <3>1. /\ produced' = [produced EXCEPT ![r] = @ + 1] /\ fwd[r] = "run" /\ produced[r] < Chunks
          /\ usage' = [usage EXCEPT ![r] = IF produced[r] + 1 = Chunks THEN 1 ELSE @]
      BY <2>2 DEF ForwardChunk
    <3>2. produced \in [Reqs -> 0 .. Chunks] /\ usage \in [Reqs -> 0 .. 1]
      BY <1>0 DEF TypeOK
    <3> QED
      BY <3>1, <3>2, PipelineConstants
  <2> QED
    BY <2>1, <2>2 DEF Forward
<1>5. queued' \in [Reqs -> 0 .. Buffer]
  BY <1>0, PipelineConstants DEF TypeOK, Forward, ForwardChunk, ForwardEnds, DeliverChunk
<1>6. WriterTypeOK'
  BY <1>0, <1>1 DEF TypeOK, WriterTypeOK, writerVars
<1>7. TypeOK'
  BY <1>0, <1>2, <1>3, <1>4, <1>5, <1>6 DEF TypeOK
<1>8. TracesAtEnd'
  BY <1>0, <1>2 DEF TracesAtEnd
<1>9. TaskOfStream'
  BY <1>0, <1>2, <1>3, <1>4 DEF TaskOfStream
<1>10. UsageNoted'
  BY <1>0, <1>2, <1>4 DEF UsageNoted, TaskOfStream
<1>11. DedupRecorded'
  BY <1>0, <1>2 DEF DedupRecorded
<1>12. InflightExact'
  <2>1. Counted' = Counted
    BY <1>2 DEF Counted
  <2> QED
    BY <1>0, <1>2, <2>1 DEF InflightExact
<1> QED
  BY <1>7, <1>8, <1>9, <1>10, <1>11, <1>12 DEF PipeInv

\* A suppressed refusal: another request's record of the same kind exists.
LEMMA SuppressKeeps ==
    ASSUME PipeInv, NEW r \in Reqs, pc[r] \in Early, KeyOf[r] \in dedup,
           silent' = silent \cup {r}, Goto(r, "answered"), DropGuards(r),
           UNCHANGED <<writerVars, stream, fwd, produced, queued, usage, dedup, records, logged, prompts>>
    PROVE  PipeInv'
<1>0. TypeOK /\ TracesAtEnd /\ TaskOfStream /\ UsageNoted /\ DedupRecorded /\ InflightExact
  BY DEF PipeInv
<1>1. records[r] = 0 /\ prompts[r] = 0 /\ r \notin silent /\ fwd[r] = "none" /\ produced[r] = 0
  BY <1>0 DEF TracesAtEnd, TaskOfStream, Over, Early
<1>2. pc' \in [Reqs -> PCs] /\ pc'[r] = "answered" /\ \A q \in Reqs \ {r} : pc'[q] = pc[q]
  BY <1>0 DEF TypeOK, Goto, PCs
<1>3. /\ IsFiniteSet(Counted') /\ inflight' = Cardinality(Counted') /\ inflight' \in Nat
      /\ held' \in [Reqs -> SUBSET Guards]
      /\ held'[r] = {} /\ \A q \in Reqs \ {r} : held'[q] = held[q]
  BY DropCounted
<1>4. WriterTypeOK' /\ sent' = sent
  BY <1>0 DEF TypeOK, WriterTypeOK, writerVars
<1>5. TypeOK'
  BY <1>0, <1>2, <1>3, <1>4 DEF TypeOK
<1>6. TracesAtEnd'
  BY <1>0, <1>1, <1>2, <1>4 DEF TracesAtEnd, Over
<1>7. TaskOfStream'
  BY <1>0, <1>1, <1>2 DEF TaskOfStream, Over, Early
<1>8. UsageNoted'
  BY <1>0, <1>1, <1>2, PipelineConstants DEF UsageNoted
<1>9. DedupRecorded'
  <2>1. PICK q \in Reqs : KeyOf[q] = KeyOf[r] /\ records[q] = 1
    BY <1>0 DEF DedupRecorded
  <2>2. q # r
    BY <1>1, <2>1
  <2> QED
    BY <1>0, <2>1, <2>2 DEF DedupRecorded
<1>10. InflightExact'
  BY <1>0, <1>2, <1>3 DEF InflightExact, Over
<1> QED
  BY <1>5, <1>6, <1>7, <1>8, <1>9, <1>10 DEF PipeInv

\* The process ends: what was under way is gone with its guards.
LEMMA ProcessEndKeeps ==
    ASSUME PipeInv, WriterTypeOK', Restart
    PROVE  PipeInv'
<1>0. TypeOK /\ TracesAtEnd /\ TaskOfStream /\ UsageNoted /\ DedupRecorded /\ InflightExact
  BY DEF PipeInv
<1>1. /\ \A q \in Reqs : /\ pc'[q] = IF pc[q] \in {"new", "answered"} THEN pc[q] ELSE "gone"
                         /\ held'[q] = {} /\ fwd'[q] = "none" /\ queued'[q] = 0
      /\ inflight' = 0 /\ dedup' = {} /\ sent' = sent
      /\ UNCHANGED <<stream, produced, usage, silent, records, logged, prompts>>
  BY DEF Restart, Each, RestartWriter
<1>2. /\ pc' \in [Reqs -> PCs] /\ held' \in [Reqs -> SUBSET Guards]
      /\ fwd' \in [Reqs -> {"none", "run", "done"}] /\ queued' \in [Reqs -> 0 .. Buffer]
  BY <1>0, PipelineConstants DEF Restart, Each, TypeOK, PCs
<1>3. TypeOK'
  BY <1>0, <1>1, <1>2 DEF TypeOK
<1>4. TracesAtEnd'
  BY <1>0, <1>1 DEF TracesAtEnd, Over
<1>5. TaskOfStream'
  BY <1>0, <1>1 DEF TaskOfStream, Over, Early
<1>6. UsageNoted'
  BY <1>0, <1>1 DEF UsageNoted
<1>7. DedupRecorded'
  BY <1>0, <1>1 DEF DedupRecorded
<1>8. InflightExact'
  <2>1. Counted' = {}
    BY <1>1 DEF Counted
  <2> QED
    BY <1>1, <2>1, FS_EmptySet DEF InflightExact
<1> QED
  BY <1>3, <1>4, <1>5, <1>6, <1>7, <1>8 DEF PipeInv

-----------------------------------------------------------------------------
\* Every step of the pipeline keeps its invariant and the writer's.
LEMMA PipeStep == Inv /\ PipeInv /\ [Next]_vars => Inv' /\ PipeInv'
<1> SUFFICES ASSUME Inv, PipeInv, [Next]_vars PROVE Inv' /\ PipeInv'
  OBVIOUS
<1>a. Inv'
  BY StepOfWriter, StepKeeps
<1>b. WriterTypeOK'
  BY <1>a DEF Inv
<1>c. TypeOK /\ InflightExact
  BY DEF PipeInv
<1>d. ASSUME UNCHANGED writerVars PROVE sent' = sent
  BY <1>d DEF writerVars
<1>e. \A q \in Reqs : held[q] \in SUBSET Guards /\ stream[q] \in BOOLEAN
  BY <1>c DEF TypeOK
<1>1. ASSUME NEW r \in Reqs, NEW s \in BOOLEAN, Arrive(r, s) PROVE PipeInv'
  <2>1. /\ pc[r] = "new" /\ stream' = [stream EXCEPT ![r] = s] /\ Goto(r, "checks")
        /\ UNCHANGED <<sent, held, inflight, fwd, produced, queued, usage, dedup, silent, records,
                       logged, prompts>>
    BY <1>1, <1>d DEF Arrive
  <2>2. /\ stream' \in [Reqs -> BOOLEAN] /\ \A q \in Reqs \ {r} : stream'[q] = stream[q]
        /\ held \in [Reqs -> SUBSET Guards] /\ fwd \in [Reqs -> {"none", "run", "done"}]
    BY <1>c, <2>1 DEF TypeOK
  <2>3. IsFiniteSet(Counted') /\ inflight' = Cardinality(Counted') /\ inflight' \in Nat
    BY <2>1, SameCounted
  <2>4. held[r] = {}
    BY <1>c, <2>1 DEF InflightExact
  <2>5. pc[r] \in Early /\ "checks" \in PCs \ {"answered"}
    BY <2>1 DEF Early, PCs
  <2> QED
    BY <1>b, <2>1, <2>2, <2>3, <2>4, <2>5, MoveKeeps
<1>2. ASSUME NEW r \in Reqs, PassChecks(r) PROVE PipeInv'
  <2>1. /\ pc[r] = "checks" /\ held' = [held EXCEPT ![r] = {"plan"}] /\ Goto(r, "route")
        /\ UNCHANGED <<sent, stream, inflight, fwd, produced, queued, usage, dedup, silent, records,
                       logged, prompts>>
    BY <1>2, <1>d DEF PassChecks
  <2>2. /\ stream \in [Reqs -> BOOLEAN] /\ fwd \in [Reqs -> {"none", "run", "done"}]
        /\ held' \in [Reqs -> SUBSET Guards] /\ held'[r] = {"plan"}
        /\ \A q \in Reqs \ {r} : held'[q] = held[q]
    BY <1>c, <2>1 DEF TypeOK, Guards
  <2>3. "inflight" \notin held[r]
    BY <1>c, <2>1 DEF InflightExact
  <2>4. IsFiniteSet(Counted') /\ inflight' = Cardinality(Counted') /\ inflight' \in Nat
    BY <2>1, <2>2, <2>3, SameCounted
  <2>5. pc[r] \in Early /\ "route" \in PCs \ {"answered"}
    BY <2>1 DEF Early, PCs
  <2> QED
    BY <1>b, <2>1, <2>2, <2>4, <2>5, MoveKeeps
<1>3. ASSUME NEW r \in Reqs, Refuse(r) PROVE PipeInv'
  <2>1. /\ pc[r] \in {"checks", "route", "queue"}
        /\ UNCHANGED <<writerVars, sent, stream, fwd, produced, queued, usage, dedup, records, logged,
                       prompts>>
    BY <1>3, <1>d DEF Refuse
  <2>2. pc[r] \in Early /\ "reject" \in PCs \ {"answered"}
    BY <2>1 DEF Early, PCs
  <2>3. CASE KeyOf[r] \in dedup /\ silent' = silent \cup {r} /\ Goto(r, "answered") /\ DropGuards(r)
    BY <2>1, <2>2, <2>3, SuppressKeeps
  <2>4. CASE Goto(r, "reject") /\ UNCHANGED <<silent, held, inflight>>
    <3>1. /\ stream \in [Reqs -> BOOLEAN] /\ fwd \in [Reqs -> {"none", "run", "done"}]
          /\ held \in [Reqs -> SUBSET Guards]
      BY <1>c DEF TypeOK
    <3>2. IsFiniteSet(Counted') /\ inflight' = Cardinality(Counted') /\ inflight' \in Nat
      BY <2>4, SameCounted
    <3> QED
      BY <1>b, <2>1, <2>2, <2>4, <3>1, <3>2, MoveKeeps
  <2> QED
    BY <1>3, <2>3, <2>4 DEF Refuse
<1>4. ASSUME NEW r \in Reqs, Route(r) PROVE PipeInv'
  <2>1. /\ pc[r] = "route" /\ Goto(r, "queue")
        /\ UNCHANGED <<sent, stream, held, inflight, fwd, produced, queued, usage, dedup, silent, records,
                       logged, prompts>>
    BY <1>4, <1>d DEF Route
  <2>2. /\ stream \in [Reqs -> BOOLEAN] /\ fwd \in [Reqs -> {"none", "run", "done"}]
        /\ held \in [Reqs -> SUBSET Guards]
    BY <1>c DEF TypeOK
  <2>3. "inflight" \notin held[r]
    BY <1>c, <2>1 DEF InflightExact
  <2>4. IsFiniteSet(Counted') /\ inflight' = Cardinality(Counted') /\ inflight' \in Nat
    BY <2>1, SameCounted
  <2>5. pc[r] \in Early /\ "queue" \in PCs \ {"answered"}
    BY <2>1 DEF Early, PCs
  <2> QED
    BY <1>b, <2>1, <2>2, <2>3, <2>4, <2>5, MoveKeeps
<1>5. ASSUME NEW r \in Reqs, AcquireFlow(r) PROVE PipeInv'
  <2>1. /\ pc[r] = "queue" /\ Goto(r, "call")
        /\ UNCHANGED <<sent, stream, fwd, produced, queued, usage, dedup, silent, records, logged, prompts>>
        /\ inflight' = IF stream[r] THEN inflight ELSE inflight + 1
    BY <1>5, <1>d DEF AcquireFlow
  <2>2. PICK slot \in BOOLEAN :
          held' = [held EXCEPT ![r] = @ \cup (IF slot THEN {"flow"} ELSE {})
                                        \cup (IF stream[r] THEN {} ELSE {"inflight"})]
    BY <1>5 DEF AcquireFlow
  <2>3. /\ stream \in [Reqs -> BOOLEAN] /\ fwd \in [Reqs -> {"none", "run", "done"}]
        /\ held \in [Reqs -> SUBSET Guards]
    BY <1>c DEF TypeOK
  <2>4. /\ held' \in [Reqs -> SUBSET Guards] /\ \A q \in Reqs \ {r} : held'[q] = held[q]
        /\ held'[r] = held[r] \cup (IF slot THEN {"flow"} ELSE {})
                              \cup (IF stream[r] THEN {} ELSE {"inflight"})
    BY <2>2, <2>3 DEF Guards
  <2>5. "inflight" \notin held[r]
    BY <1>c, <2>1 DEF InflightExact
  <2>6. IsFiniteSet(Counted') /\ inflight' = Cardinality(Counted') /\ inflight' \in Nat
    <3>1. CASE stream[r]
      <4>1. "inflight" \notin held'[r]
        BY <2>4, <2>5, <3>1
      <4> QED
        BY <2>1, <2>4, <2>5, <3>1, <4>1, SameCounted
    <3>2. CASE ~stream[r]
      <4>1. "inflight" \in held'[r] /\ inflight' = inflight + 1
        BY <2>1, <2>4, <3>2
      <4> QED
        BY <2>4, <2>5, <4>1, TakeCounted
    <3> QED
      BY <3>1, <3>2
  <2>7. pc[r] \in Early /\ "call" \in PCs \ {"answered"}
    BY <2>1 DEF Early, PCs
  <2>8. stream'[r] => "inflight" \notin held'[r]
    BY <2>1, <2>4, <2>5
  <2> QED
    BY <1>b, <2>1, <2>3, <2>4, <2>6, <2>7, <2>8, MoveKeeps
<1>6. ASSUME NEW r \in Reqs, StreamBegins(r) PROVE PipeInv'
  <2>1. /\ pc[r] = "call" /\ stream[r] /\ Goto(r, "stream")
        /\ held' = [held EXCEPT ![r] = @ \cup {"inflight"}] /\ inflight' = inflight + 1
        /\ fwd' = [fwd EXCEPT ![r] = "run"]
        /\ UNCHANGED <<sent, stream, produced, queued, usage, dedup, silent, records, logged, prompts>>
    BY <1>6, <1>d DEF StreamBegins
  <2>2. /\ stream \in [Reqs -> BOOLEAN] /\ fwd' \in [Reqs -> {"none", "run", "done"}]
        /\ \A q \in Reqs \ {r} : fwd'[q] = fwd[q] /\ held'[q] = held[q]
        /\ held' \in [Reqs -> SUBSET Guards] /\ "inflight" \in held'[r]
    BY <1>c, <2>1 DEF TypeOK, Guards
  <2>3. "inflight" \notin held[r]
    BY <1>c, <2>1 DEF InflightExact
  <2>4. IsFiniteSet(Counted') /\ inflight' = Cardinality(Counted') /\ inflight' \in Nat
    BY <2>1, <2>2, <2>3, TakeCounted
  <2>5. pc[r] \in Early /\ "stream" \in PCs \ {"answered"}
    BY <2>1 DEF Early, PCs
  <2> QED
    BY <1>b, <2>1, <2>2, <2>4, <2>5, MoveKeeps
<1>7. ASSUME NEW r \in Reqs, Disconnect(r) PROVE PipeInv'
  <2>1. /\ pc[r] \in {"checks", "route", "queue", "call"} /\ Goto(r, "gone") /\ DropGuards(r)
        /\ UNCHANGED <<sent, stream, fwd, produced, queued, usage, dedup, silent, records, logged, prompts>>
    BY <1>7, <1>d DEF Disconnect
  <2>2. stream \in [Reqs -> BOOLEAN] /\ fwd \in [Reqs -> {"none", "run", "done"}]
    BY <1>c DEF TypeOK
  <2>3. /\ IsFiniteSet(Counted') /\ inflight' = Cardinality(Counted') /\ inflight' \in Nat
        /\ held' \in [Reqs -> SUBSET Guards]
        /\ held'[r] = {} /\ \A q \in Reqs \ {r} : held'[q] = held[q]
    BY <2>1, DropCounted
  <2>4. pc[r] \in Early /\ "gone" \in PCs \ {"answered"}
    BY <2>1 DEF Early, PCs
  <2> QED
    BY <1>b, <2>1, <2>2, <2>3, <2>4, MoveKeeps
<1>8. ASSUME NEW r \in Reqs, NEW u \in 0 .. 1, pc[r] \in Early, LogRequest(r, u), Goto(r, "answered"),
             DropGuards(r), UNCHANGED <<stream, fwd, produced, queued, usage, silent>>,
             dedup' = dedup \/ dedup' = dedup \cup {KeyOf[r]},
             prompts' = prompts \/ prompts' = [prompts EXCEPT ![r] = @ + 1]
      PROVE  PipeInv'
  <2>1. pc[r] \notin Over /\ "answered" \in Over
    BY <1>8 DEF Early, Over
  <2>2. fwd[r] = "none" /\ produced[r] # Chunks
    BY <1>8, PipelineConstants DEF PipeInv, TaskOfStream
  <2>3. queued' \in [Reqs -> 0 .. Buffer]
    BY <1>8, <1>c DEF TypeOK
  <2> QED
    BY <1>8, <1>b, <2>1, <2>2, <2>3, EndKeeps
<1>9. ASSUME NEW r \in Reqs, LogRefusal(r) \/ ProviderFails(r) \/ ProviderReplies(r) PROVE PipeInv'
  <2>1. pc[r] \in Early
    BY <1>9 DEF LogRefusal, ProviderFails, ProviderReplies, Early
  <2>2. Goto(r, "answered") /\ DropGuards(r) /\ UNCHANGED <<stream, fwd, produced, queued, usage, silent>>
    BY <1>9 DEF LogRefusal, ProviderFails, ProviderReplies
  <2>3. dedup' = dedup \/ dedup' = dedup \cup {KeyOf[r]}
    BY <1>9 DEF LogRefusal, ProviderFails, ProviderReplies
  <2>4. prompts' = prompts \/ prompts' = [prompts EXCEPT ![r] = @ + 1]
    <3>1. prompts = [prompts EXCEPT ![r] = prompts[r]]
      BY <1>c DEF TypeOK
    <3> QED
      BY <1>9, <3>1 DEF LogRefusal, ProviderFails, ProviderReplies
  <2>5. \E u \in 0 .. 1 : LogRequest(r, u)
    BY <1>9 DEF LogRefusal, ProviderFails, ProviderReplies
  <2> QED
    BY <1>8, <2>1, <2>2, <2>3, <2>4, <2>5
<1>10. ASSUME NEW r \in Reqs, NEW l \in Over, DropStream(r, l), l = "answered" => fwd[r] = "done"
       PROVE  PipeInv'
  <2>1. /\ pc[r] = "stream" /\ LogRequest(r, usage[r]) /\ Goto(r, l) /\ DropGuards(r)
        /\ UNCHANGED <<stream, fwd, produced, usage, dedup, silent>>
    BY <1>10 DEF DropStream
  <2>2. queued' \in [Reqs -> 0 .. Buffer] /\ usage[r] \in 0 .. 1
    BY <1>10, <1>c, PipelineConstants DEF DropStream, TypeOK
  <2>3. /\ prompts' = prompts \/ prompts' = [prompts EXCEPT ![r] = @ + 1]
        /\ r \in Captured => prompts' = [prompts EXCEPT ![r] = @ + 1]
    <3>1. prompts = [prompts EXCEPT ![r] = prompts[r]]
      BY <1>c DEF TypeOK
    <3> QED
      BY <1>10, <3>1 DEF DropStream
  <2>4. produced[r] = Chunks => usage[r] = 1
    BY DEF PipeInv, UsageNoted
  <2>5. pc[r] \notin Over
    BY <2>1 DEF Over
  <2> QED
    BY <1>b, <1>10, <2>1, <2>2, <2>3, <2>4, <2>5, EndKeeps
<1>11. ASSUME NEW r \in Reqs, Respond(r) \/ StreamAborted(r) \/ Forward(r) PROVE PipeInv'
  BY <1>10, <1>11, ChunkKeeps DEF Respond, StreamEnds, StreamAborted, Over
<1>12. ASSUME NEW k \in dedup, DedupExpires(k) PROVE PipeInv'
  BY <1>12, <1>b, <1>d, QuietKeeps DEF DedupExpires
<1>13. ASSUME WriterStep, UNCHANGED pipeVars PROVE PipeInv'
  <2>1. sent' = sent
    BY <1>13 DEF WriterStep, Recv, FlushTick, InsertReturns, InsertFails, LateCommit, LateAbort
  <2> QED
    BY <1>13, <1>b, <2>1, QuietKeeps DEF pipeVars
<1>14. ASSUME Restart PROVE PipeInv'
  BY <1>14, <1>b, ProcessEndKeeps
<1>15. ASSUME UNCHANGED vars PROVE PipeInv'
  BY <1>15, <1>b, <1>d, QuietKeeps DEF vars, pipeVars
<1>16. PipeInv'
  BY <1>1, <1>2, <1>3, <1>4, <1>5, <1>6, <1>7, <1>9, <1>11, <1>12, <1>13, <1>14, <1>15 DEF Next, Handle
<1> QED
  BY <1>a, <1>16

LEMMA PipeStart == Init => Inv /\ PipeInv
<1> SUFFICES ASSUME Init PROVE Inv /\ PipeInv
  OBVIOUS
<1>1. Inv /\ WriterTypeOK
  BY InitInv DEF Init, Inv
<1>2. PipeInit /\ sent = {}
  BY DEF Init, WriterInit
<1>3. TypeOK
  BY <1>1, <1>2, PipelineConstants DEF TypeOK, PipeInit, Each, PCs, Guards
<1>4. TracesAtEnd /\ TaskOfStream /\ UsageNoted /\ DedupRecorded
  BY <1>2, PipelineConstants DEF TracesAtEnd, TaskOfStream, UsageNoted, DedupRecorded, PipeInit, Each, Over,
                                 Early
<1>5. Counted = {}
  BY <1>2 DEF Counted, PipeInit, Each
<1>6. InflightExact
  BY <1>2, <1>5, FS_EmptySet DEF InflightExact, PipeInit, Each
<1> QED
  BY <1>1, <1>3, <1>4, <1>6 DEF PipeInv

LEMMA PipeInvariant == Spec => [](Inv /\ PipeInv)
BY PipeStart, PipeStep, PTL DEF Spec

\* Every request that was answered has exactly one audit record, or shares that
\* of another request's refusal; a stream has its record and its prompt entry
\* however it ended.  For any number of concurrent requests and restarts.
THEOREM EachRequestRecorded == Spec => []OneRecordEach
<1>1. PipeInv => OneRecordEach
  BY DEF PipeInv, TypeOK, TracesAtEnd, TaskOfStream, DedupRecorded, OneRecordEach, Over
<1> QED
  BY <1>1, PipeInvariant, PTL

\* The record of a stream that reached its end carries the provider's final
\* usage (UsageTracker is written before the chunk is forwarded).
THEOREM UsageIsComplete == Spec => []UsageComplete
<1>1. PipeInv => UsageComplete
  BY DEF PipeInv, UsageNoted, UsageComplete
<1> QED
  BY <1>1, PipeInvariant, PTL

\* InFlightTracker is exact in every state: it counts the requests whose guard
\* is alive, on every path of the handlers, and a request that ended holds none.
THEOREM InflightIsExact == Spec => []InflightExact
<1>1. PipeInv => InflightExact
  BY DEF PipeInv
<1> QED
  BY <1>1, PipeInvariant, PTL

\* The pipeline drives the writer within its specification: it hands over each
\* record at most once, so the writer's theorems hold inside the gateway.
THEOREM PipelineImplementsWriter == Spec => WriterSpec
<1>1. Init => WriterInit
  BY DEF Init
<1>2. PipeInv /\ [Next]_vars => [WriterNext]_writerVars
  BY StepOfWriter
<1> QED
  BY <1>1, <1>2, PipeInvariant, PTL DEF Spec, WriterSpec

\* The drop counter of the gateway is exact.
THEOREM PipelineCounterExact == Spec => []CounterExact
BY PipelineImplementsWriter, CounterIsExact, PTL

\* The gateway keeps the promise of AuditLog (safety): a record leaves it only
\* stored or counted.
THEOREM PipelineKeepsAudit == Spec => Audit!AuditSafety
BY PipelineImplementsWriter, WriterImplementsAudit, PTL
=============================================================================
