------------------------- MODULE FlowControlProofs -------------------------
(***************************************************************************)
(* Proofs about FlowControl, for every set of requests, deployments, keys, *)
(* contexts and configurations.                                            *)
(***************************************************************************)
EXTENDS FlowControl, SumTheorems

\* dispatch() keeps the types of the state it writes.
LEMMA DispatchType ==
    ASSUME NEW d \in Deployments, NEW id,
           NEW Q \in SUBSET Requests, NEW I \in SUBSET Requests,
           NEW ch \in [Requests -> Channel],
           TypeOK, Dispatch(d, id, Q, I, ch)
    PROVE  /\ waiting' \in [Deployments -> SUBSET Requests]
           /\ inflight' \in [Deployments -> SUBSET Requests]
           /\ chan' \in [Requests -> Channel]
<1>1. PICK S \in SUBSET Q :
         /\ waiting' = [waiting EXCEPT ![d] = Q \ S]
         /\ inflight' = [inflight EXCEPT ![d] = I \cup Open(ch, S)]
         /\ chan' = [r \in Requests |-> IF r \in Open(ch, S) THEN "sent" ELSE ch[r]]
  BY DEF Dispatch
<1>2. Open(ch, S) \in SUBSET Requests
  BY DEF Open
<1>3. waiting \in [Deployments -> SUBSET Requests] /\ inflight \in [Deployments -> SUBSET Requests]
  BY DEF TypeOK
<1>4. waiting' \in [Deployments -> SUBSET Requests] /\ inflight' \in [Deployments -> SUBSET Requests]
  BY <1>1, <1>2, <1>3
<1>5. chan' \in [Requests -> Channel]
  BY <1>1 DEF Channel
<1> QED
  BY <1>4, <1>5

\* Dropping senders or a receiver leaves a channel state.
LEMMA ChannelOps ==
    ASSUME TypeOK
    PROVE  /\ \A S \in SUBSET Requests : DropSenders(S) \in [Requests -> Channel]
           /\ \A r \in Requests : CloseReceiver(r) \in [Requests -> Channel]
BY DEF TypeOK, DropSenders, CloseReceiver, Channel

\* A lookup finds entries of the deployment's slot.
LEMMA FoundType ==
    ASSUME TypeOK, NEW r \in Requests
    PROVE  /\ ask[r].dep \in Deployments
           /\ Found(r) \in SUBSET Requests
           /\ waiting[ask[r].dep] \in SUBSET Requests
           /\ inflight[ask[r].dep] \in SUBSET Requests
BY DEF TypeOK, Found, Entries, Ask

\* RemoveAndDispatch keeps the types.
LEMMA RemoveAndDispatchType ==
    ASSUME TypeOK, NEW r \in Requests, RemoveAndDispatch(r)
    PROVE  /\ waiting' \in [Deployments -> SUBSET Requests]
           /\ inflight' \in [Deployments -> SUBSET Requests]
           /\ chan' \in [Requests -> Channel]
<1>1. CASE Found(r) = {}
  BY <1>1 DEF RemoveAndDispatch, TypeOK
<1>2. CASE Found(r) # {}
  <2> DEFINE d == ask[r].dep
             E == Found(r)
  <2>1. Dispatch(d, rid, waiting[d] \ E, inflight[d] \ E, DropSenders(E \cap waiting[d]))
    BY <1>2 DEF RemoveAndDispatch
  <2>2. /\ d \in Deployments
        /\ waiting[d] \ E \in SUBSET Requests
        /\ inflight[d] \ E \in SUBSET Requests
        /\ E \cap waiting[d] \in SUBSET Requests
    BY FoundType
  <2>3. DropSenders(E \cap waiting[d]) \in [Requests -> Channel]
    BY <2>2, ChannelOps
  <2> QED
    BY <2>1, <2>2, <2>3, DispatchType
<1> QED
  BY <1>1, <1>2

\* Type correctness, one step per operation.
LEMMA TypeStep == TypeOK /\ [Next]_vars => TypeOK'
<1> SUFFICES ASSUME TypeOK, [Next]_vars PROVE TypeOK'
  OBVIOUS
<1> USE DEF slotVars, indexVars
<1>1. ASSUME NEW r \in Requests, AcquireNoSlot(r) PROVE TypeOK'
  BY <1>1 DEF AcquireNoSlot, TypeOK, PC
<1>2. ASSUME NEW r \in Requests, AcquireReject(r) PROVE TypeOK'
  BY <1>2 DEF AcquireReject, TypeOK, PC
<1>3. ASSUME NEW r \in Requests, AcquireEnqueue(r) PROVE TypeOK'
  <2> DEFINE d == ask[r].dep
  <2>1. d \in Deployments /\ next_id[d] \in Nat
    BY FoundType DEF TypeOK
  <2>2. /\ waiting[d] \cup {r} \in SUBSET Requests
        /\ inflight[d] \in SUBSET Requests
        /\ [chan EXCEPT ![r] = "empty"] \in [Requests -> Channel]
    BY FoundType DEF TypeOK, Channel
  <2>3. Dispatch(d, rid', waiting[d] \cup {r}, inflight[d], [chan EXCEPT ![r] = "empty"])
    BY <1>3 DEF AcquireEnqueue
  <2>4. /\ waiting' \in [Deployments -> SUBSET Requests]
        /\ inflight' \in [Deployments -> SUBSET Requests]
        /\ chan' \in [Requests -> Channel]
    BY <2>1, <2>2, <2>3, DispatchType
  <2>5. rid' \in [Requests -> Nat] /\ next_id' \in [Deployments -> Nat] /\ pc' \in [Requests -> PC]
    BY <1>3, <2>1 DEF AcquireEnqueue, TypeOK, PC
  <2> QED
    BY <1>3, <2>4, <2>5 DEF AcquireEnqueue, TypeOK
<1>4. ASSUME NEW r \in Requests, IndexPush(r) PROVE TypeOK'
  <2>1. ask[r].dep \in Deployments /\ ask[r].key \in Keys \cup {NoKey} /\ rid[r] \in Nat
    BY DEF TypeOK, Ask
  <2>2. <<ask[r].dep, rid[r]>> \in Ref
    BY <2>1 DEF Ref
  <2>3. indexed' \in SUBSET Keys /\ refs' \in [Keys -> SUBSET Ref]
    <3>1. CASE ask[r].key = NoKey
      BY <1>4, <3>1 DEF IndexPush, TypeOK
    <3>2. CASE ask[r].key # NoKey
      <4>1. /\ indexed' = indexed \cup {ask[r].key}
            /\ refs' = [refs EXCEPT ![ask[r].key] = @ \cup {<<ask[r].dep, rid[r]>>}]
        BY <1>4, <3>2 DEF IndexPush
      <4> QED
        BY <2>1, <2>2, <3>2, <4>1 DEF TypeOK
    <3> QED
      BY <3>1, <3>2
  <2> QED
    BY <1>4, <2>3 DEF IndexPush, TypeOK, PC
<1>5. ASSUME NEW r \in Requests, Granted(r) PROVE TypeOK'
  BY <1>5 DEF Granted, TypeOK, PC
<1>6. ASSUME NEW r \in Requests, SenderGone(r) PROVE TypeOK'
  BY <1>6 DEF SenderGone, TypeOK, PC
<1>7. ASSUME NEW r \in Requests, TimerFires(r) PROVE TypeOK'
  BY <1>7, ChannelOps DEF TimerFires, TypeOK, PC
<1>8. ASSUME NEW r \in Requests, TimeoutLookup(r) PROVE TypeOK'
  <2>1. Found(r) \cap waiting[ask[r].dep] \in SUBSET Requests
    BY FoundType
  <2>2. chan' \in [Requests -> Channel]
    BY <1>8, <2>1, ChannelOps DEF TimeoutLookup
  <2>3. waiting' \in [Deployments -> SUBSET Requests] /\ pc' \in [Requests -> PC]
    BY <1>8 DEF TimeoutLookup, TypeOK, PC
  <2> QED
    BY <1>8, <2>2, <2>3 DEF TimeoutLookup, TypeOK
<1>9. ASSUME NEW r \in Requests, Cancel(r) PROVE TypeOK'
  BY <1>9, ChannelOps DEF Cancel, TypeOK, PC
<1>10. ASSUME NEW r \in Requests, CancelCleanup(r) PROVE TypeOK'
  <2>1. pc' \in [Requests -> PC]
    BY <1>10 DEF CancelCleanup, TypeOK, PC
  <2> QED
    BY <1>10, <2>1, RemoveAndDispatchType DEF CancelCleanup, TypeOK
<1>11. ASSUME NEW r \in Requests, Release(r) PROVE TypeOK'
  <2>1. pc' \in [Requests -> PC]
    BY <1>11 DEF Release, TypeOK, PC
  <2> QED
    BY <1>11, <2>1, RemoveAndDispatchType DEF Release, TypeOK
<1>12. ASSUME NEW r \in Requests, FinishPassthrough(r) PROVE TypeOK'
  BY <1>12 DEF FinishPassthrough, TypeOK, PC
<1>13. ASSUME NEW r \in Requests, Unref(r) PROVE TypeOK'
  <2>1. ask[r].key \in Keys \cup {NoKey}
    BY DEF TypeOK, Ask
  <2>2. refs' \in [Keys -> SUBSET Ref] /\ pc' \in [Requests -> PC]
    BY <1>13, <2>1 DEF Unref, TypeOK, PC
  <2> QED
    BY <1>13, <2>2 DEF Unref, TypeOK
<1>14. ASSUME NEW r \in Requests, Reap(r) PROVE TypeOK'
  <2>1. refs' \in [Keys -> SUBSET Ref] /\ indexed' \in SUBSET Keys
    BY <1>14 DEF Reap, DropKey, TypeOK
  <2> QED
    BY <1>14, <2>1 DEF Reap, TypeOK, PC
<1>15. ASSUME NEW k \in Keys, StatusBegin(k) PROVE TypeOK'
  BY <1>15 DEF StatusBegin, TypeOK
<1>16. ASSUME NEW k \in Keys, StatusLookup(k) PROVE TypeOK'
  <2>1. PICK ref \in scan[k].todo :
          LET live == \E e \in Entries(ref[1]) : rid[e] = ref[2]
          IN  scan' = [scan EXCEPT ![k].todo = @ \ {ref},
                                   ![k].stale = IF live THEN @ ELSE @ \cup {ref}]
    BY <1>16 DEF StatusLookup
  <2>2. ref \in Ref
    BY DEF TypeOK
  <2>3. scan' \in [Keys -> [pc : {"idle", "looking", "reaping"},
                            todo : SUBSET Ref, stale : SUBSET Ref]]
    BY <2>1, <2>2 DEF TypeOK
  <2> QED
    BY <1>16, <2>3 DEF StatusLookup, TypeOK
<1>17. ASSUME NEW k \in Keys, StatusClean(k) PROVE TypeOK'
  <2>1. IdleScan \in [pc : {"idle", "looking", "reaping"}, todo : SUBSET Ref, stale : SUBSET Ref]
    BY DEF IdleScan
  <2>2. [IdleScan EXCEPT !.pc = "reaping"]
           \in [pc : {"idle", "looking", "reaping"}, todo : SUBSET Ref, stale : SUBSET Ref]
    BY DEF IdleScan
  <2>3. refs' \in [Keys -> SUBSET Ref]
    BY <1>17 DEF StatusClean, TypeOK
  <2>4. scan' \in [Keys -> [pc : {"idle", "looking", "reaping"},
                            todo : SUBSET Ref, stale : SUBSET Ref]]
    BY <1>17, <2>1, <2>2 DEF StatusClean, TypeOK
  <2> QED
    BY <1>17, <2>3, <2>4 DEF StatusClean, TypeOK
<1>18. ASSUME NEW k \in Keys, StatusReap(k) PROVE TypeOK'
  BY <1>18 DEF StatusReap, DropKey, TypeOK, IdleScan
<1>19. ASSUME NEW d \in Deployments, DropSlot(d)
       PROVE  /\ limits' \in [Deployments -> Limit]
              /\ next_id' \in [Deployments -> Nat]
              /\ waiting' \in [Deployments -> SUBSET Requests]
              /\ inflight' \in [Deployments -> SUBSET Requests]
              /\ chan' \in [Requests -> Channel]
  <2>1. waiting[d] \in SUBSET Requests /\ NoSlot \in Limit
    BY DEF TypeOK, NoSlot, Limit
  <2>2. chan' \in [Requests -> Channel]
    BY <1>19, <2>1, ChannelOps DEF DropSlot
  <2> QED
    BY <1>19, <2>1, <2>2 DEF DropSlot, TypeOK
<1>20. ASSUME NEW d \in Deployments, NEW c \in Configs, EnsureSlot(d, c) PROVE TypeOK'
  <2>1. CASE c = NoSlot
    BY <1>19, <1>20, <2>1 DEF EnsureSlot, TypeOK
  <2>2. CASE c # NoSlot
    BY <1>20, <2>2, ConstantsAssumption DEF EnsureSlot, TypeOK
  <2> QED
    BY <2>1, <2>2
<1>21. ASSUME NEW d \in Removable, RetainSlots(d) PROVE TypeOK'
  <2>1. d \in Deployments
    BY ConstantsAssumption
  <2> QED
    BY <1>19, <1>21, <2>1 DEF RetainSlots, TypeOK
<1>22. ASSUME NEW d \in Deployments, PeriodicDispatch(d) PROVE TypeOK'
  <2>1. /\ waiting' \in [Deployments -> SUBSET Requests]
        /\ inflight' \in [Deployments -> SUBSET Requests]
        /\ chan' \in [Requests -> Channel]
    <3>1. /\ waiting[d] \in SUBSET Requests /\ inflight[d] \in SUBSET Requests
          /\ chan \in [Requests -> Channel]
      BY DEF TypeOK
    <3>2. Dispatch(d, rid, waiting[d], inflight[d], chan)
      BY <1>22 DEF PeriodicDispatch
    <3> QED
      BY <3>1, <3>2, DispatchType
  <2> QED
    BY <1>22, <2>1 DEF PeriodicDispatch, TypeOK
<1>23. CASE UNCHANGED vars
  BY <1>23 DEF vars, TypeOK
<1> QED
  BY <1>1, <1>2, <1>3, <1>4, <1>5, <1>6, <1>7, <1>8, <1>9, <1>10, <1>11, <1>12, <1>13, <1>14,
     <1>15, <1>16, <1>17, <1>18, <1>20, <1>21, <1>22, <1>23 DEF Next, Task, Status

\* The types of every component of the flow controller's state are kept by
\* every operation.
THEOREM TypeCorrect == Spec => []TypeOK
<1>1. Init => TypeOK
  BY DEF Init, TypeOK, NoSlot, Limit, Channel, PC, IdleScan
<1> QED
  BY <1>1, TypeStep, PTL DEF Spec

-----------------------------------------------------------------------------

\* dispatch() on one slot: other slots are untouched, no entry appears, the
\* two queues stay apart and no sender is dropped.
LEMMA DispatchEntries ==
    ASSUME NEW d \in Deployments, NEW id,
           NEW Q \in SUBSET Requests, NEW I \in SUBSET Requests,
           NEW ch \in [Requests -> Channel],
           TypeOK, Dispatch(d, id, Q, I, ch), Q \cap I = {}
    PROVE  /\ \A x \in Deployments : x # d => waiting'[x] = waiting[x] /\ inflight'[x] = inflight[x]
           /\ waiting'[d] \cup inflight'[d] \subseteq Q \cup I
           /\ waiting'[d] \cap inflight'[d] = {}
           /\ \A r \in Requests : chan'[r] = "dropped" => ch[r] = "dropped"
<1>1. PICK S \in SUBSET Q :
         /\ waiting' = [waiting EXCEPT ![d] = Q \ S]
         /\ inflight' = [inflight EXCEPT ![d] = I \cup Open(ch, S)]
         /\ chan' = [r \in Requests |-> IF r \in Open(ch, S) THEN "sent" ELSE ch[r]]
  BY DEF Dispatch
<1>2. Open(ch, S) \subseteq S
  BY DEF Open
<1>3. \A x \in Deployments : x # d => waiting'[x] = waiting[x] /\ inflight'[x] = inflight[x]
  BY <1>1 DEF TypeOK
<1>4. waiting'[d] = Q \ S /\ inflight'[d] = I \cup Open(ch, S)
  BY <1>1 DEF TypeOK
<1>5. \A r \in Requests : chan'[r] = "dropped" => ch[r] = "dropped"
  BY <1>1
<1>6. waiting'[d] \cup inflight'[d] \subseteq Q \cup I /\ waiting'[d] \cap inflight'[d] = {}
  BY <1>2, <1>4
<1> QED
  BY <1>3, <1>5, <1>6

\* The entry of a request is in the slot of its own deployment, and a lookup
\* by id finds that entry and no other.
LEMMA OwnEntry ==
    ASSUME EntryInv, NEW r \in Requests, NEW x \in Deployments, r \in Entries(x)
    PROVE  x = ask[r].dep /\ Found(r) = {r}
<1>1. x = ask[r].dep
  BY DEF EntryInv, NoLeakedEntry
<1>2. r \in Found(r)
  BY <1>1 DEF Found
<1>3. \A e \in Found(r) : e = r
  BY <1>1 DEF Found, EntryInv, IdsDistinct
<1> QED
  BY <1>1, <1>2, <1>3

\* A step that adds no entry keeps the invariant when the entries it leaves
\* belong to live tasks and keep their senders.
LEMMA ShrinkKeepsInv ==
    ASSUME EntryInv, TypeOK',
           UNCHANGED <<ask, limits, next_id, rid>>,
           \A x \in Deployments :
              /\ Entries(x)' \subseteq Entries(x)
              /\ waiting'[x] \cap inflight'[x] = {}
              /\ \A e \in Entries(x)' : pc'[e] \in Live /\ chan'[e] # "dropped"
    PROVE  EntryInv'
<1>1. NoLeakedEntry'
  BY DEF EntryInv, NoLeakedEntry
<1>2. IdsDistinct'
  BY DEF EntryInv, IdsDistinct
<1>3. IdsDrawn'
  BY DEF EntryInv, IdsDrawn
<1>4. Disjoint'
  BY DEF Disjoint
<1>5. NoSlotNoEntries'
  BY DEF EntryInv, NoSlotNoEntries
<1>6. SendersHeld'
  BY DEF SendersHeld
<1> QED
  BY <1>1, <1>2, <1>3, <1>4, <1>5, <1>6 DEF EntryInv

\* A step that leaves the queues alone and moves one task keeps the invariant
\* when that task stays live or has no entry, and no held sender is dropped.
LEMMA MoveKeepsInv ==
    ASSUME EntryInv, TypeOK',
           UNCHANGED <<ask, slotVars, rid>>,
           NEW r \in Requests,
           \A q \in Requests : q # r => pc'[q] = pc[q],
           \A q \in Requests : chan[q] # "dropped" => chan'[q] # "dropped",
           pc'[r] \in Live \/ \A x \in Deployments : r \notin Entries(x)
    PROVE  EntryInv'
<1>1. \A x \in Deployments : Entries(x)' = Entries(x) /\ Entries(x) \subseteq Requests
  BY DEF Entries, slotVars, EntryInv, TypeOK
<1>2. \A x \in Deployments : \A e \in Entries(x) : pc'[e] \in Live /\ chan'[e] # "dropped"
  BY <1>1 DEF EntryInv, NoLeakedEntry, SendersHeld
<1>3. \A x \in Deployments : waiting'[x] \cap inflight'[x] = {}
  BY DEF EntryInv, Disjoint, slotVars
<1> QED
  BY <1>1, <1>2, <1>3, ShrinkKeepsInv DEF slotVars

\* Removing the entry found by r's id, with the dispatch that follows, leaves
\* no entry of r and nothing new.
LEMMA RemoveAndDispatchEntries ==
    ASSUME EntryInv, NEW r \in Requests, RemoveAndDispatch(r), UNCHANGED <<ask, rid>>
    PROVE  \A x \in Deployments :
              /\ Entries(x)' \subseteq Entries(x) \ {r}
              /\ waiting'[x] \cap inflight'[x] = {}
              /\ \A e \in Entries(x)' : chan'[e] # "dropped"
<1> DEFINE d == ask[r].dep
           E == Found(r)
           Q == waiting[d] \ E
           I == inflight[d] \ E
           ch == DropSenders(E \cap waiting[d])
<1>1. TypeOK /\ d \in Deployments /\ E \in SUBSET Requests
      /\ Q \in SUBSET Requests /\ I \in SUBSET Requests /\ ch \in [Requests -> Channel]
  <2>1. TypeOK
    BY DEF EntryInv
  <2> QED
    BY <2>1, FoundType, ChannelOps
<1>2. \A x \in Deployments : r \in Entries(x) => x = d /\ E = {r}
  BY OwnEntry
<1>3. \A x \in Deployments : waiting[x] \cap inflight[x] = {}
  BY DEF EntryInv, Disjoint
<1>4. \A x \in Deployments : \A e \in Entries(x) : chan[e] # "dropped" /\ e \in Requests /\ ask[e].dep = x
  BY <1>1 DEF EntryInv, SendersHeld, NoLeakedEntry, TypeOK, Entries
<1>5. CASE E = {}
  <2>1. \A x \in Deployments : Entries(x)' = Entries(x) /\ waiting'[x] = waiting[x]
                                 /\ inflight'[x] = inflight[x]
    BY <1>5 DEF RemoveAndDispatch, Entries
  <2>2. \A x \in Deployments : r \notin Entries(x)
    BY <1>2, <1>5
  <2>3. chan' = chan
    BY <1>5 DEF RemoveAndDispatch
  <2> QED
    BY <1>3, <1>4, <2>1, <2>2, <2>3
<1>6. CASE E # {}
  <2>1. Dispatch(d, rid, Q, I, ch)
    BY <1>6 DEF RemoveAndDispatch
  <2>2. Q \cap I = {}
    BY <1>1, <1>3
  <2>3. /\ \A x \in Deployments : x # d => waiting'[x] = waiting[x] /\ inflight'[x] = inflight[x]
        /\ waiting'[d] \cup inflight'[d] \subseteq Q \cup I
        /\ waiting'[d] \cap inflight'[d] = {}
        /\ \A q \in Requests : chan'[q] = "dropped" => ch[q] = "dropped"
    <3> HIDE DEF d, E, Q, I, ch
    <3> QED
      BY <1>1, <2>1, <2>2, DispatchEntries
  <2>4. Q \cup I = Entries(d) \ E
    BY DEF Entries
  <2>5. \A q \in Requests : chan'[q] = "dropped" => q \in E \/ chan[q] = "dropped"
    BY <2>3 DEF DropSenders
  <2>6. ASSUME NEW x \in Deployments
        PROVE  /\ Entries(x)' \subseteq Entries(x) \ ({r} \cup E)
               /\ waiting'[x] \cap inflight'[x] = {}
    <3>1. CASE x = d
      <4>1. waiting'[x] \cup inflight'[x] \subseteq Entries(x) \ E
        BY <2>3, <2>4, <3>1
      <4>2. r \in Entries(x) => r \in E
        BY <1>2
      <4> QED
        BY <2>3, <3>1, <4>1, <4>2 DEF Entries
    <3>2. CASE x # d
      <4>1. waiting'[x] = waiting[x] /\ inflight'[x] = inflight[x]
        BY <2>3, <3>2
      <4>2. E \cap Entries(x) = {}
        BY <1>1, <1>4, <3>2 DEF Found
      <4>3. r \notin Entries(x)
        BY <1>2, <3>2
      <4> QED
        BY <1>3, <4>1, <4>2, <4>3 DEF Entries
    <3> QED
      BY <3>1, <3>2
  <2> QED
    BY <1>4, <2>5, <2>6
<1> QED
  BY <1>5, <1>6

\* Every operation keeps the inductive invariant.
LEMMA EntryStep == EntryInv /\ [Next]_vars => EntryInv'
<1> SUFFICES ASSUME EntryInv, [Next]_vars PROVE EntryInv'
  OBVIOUS
<1>a. TypeOK /\ TypeOK'
  BY TypeStep DEF EntryInv
<1>b. ASSUME UNCHANGED <<ask, slotVars, rid, chan, pc>> PROVE EntryInv'
  <2>1. \A x \in Deployments : Entries(x)' = Entries(x)
    BY <1>b DEF Entries, slotVars
  <2>2. UNCHANGED <<ask, limits, next_id, waiting, inflight, rid, chan, pc>>
    BY <1>b DEF slotVars
  <2>3. \A x \in Deployments :
           /\ waiting'[x] \cap inflight'[x] = {}
           /\ \A e \in Entries(x)' : pc'[e] \in Live /\ chan'[e] # "dropped"
    BY <2>1, <2>2 DEF EntryInv, Disjoint, NoLeakedEntry, SendersHeld
  <2> QED
    BY <1>a, <2>1, <2>2, <2>3, ShrinkKeepsInv
<1>1. ASSUME NEW r \in Requests, AcquireNoSlot(r) PROVE EntryInv'
  <2>1. \A q \in Requests : q # r => pc'[q] = pc[q]
    BY <1>1, <1>a DEF AcquireNoSlot, TypeOK
  <2>2. \A x \in Deployments : r \notin Entries(x)
    BY <1>1 DEF AcquireNoSlot, EntryInv, NoLeakedEntry, Live
  <2> QED
    BY <1>1, <1>a, <2>1, <2>2, MoveKeepsInv DEF AcquireNoSlot
<1>2. ASSUME NEW r \in Requests, AcquireReject(r) PROVE EntryInv'
  <2>1. \A q \in Requests : q # r => pc'[q] = pc[q]
    BY <1>2, <1>a DEF AcquireReject, TypeOK
  <2>2. \A x \in Deployments : r \notin Entries(x)
    BY <1>2 DEF AcquireReject, EntryInv, NoLeakedEntry, Live
  <2> QED
    BY <1>2, <1>a, <2>1, <2>2, MoveKeepsInv DEF AcquireReject
<1>3. ASSUME NEW r \in Requests, AcquireEnqueue(r) PROVE EntryInv'
  <2> DEFINE d == ask[r].dep
             Q == waiting[d] \cup {r}
             ch == [chan EXCEPT ![r] = "empty"]
  <2>1. /\ d \in Deployments /\ next_id[d] \in Nat
        /\ Q \in SUBSET Requests /\ inflight[d] \in SUBSET Requests
        /\ ch \in [Requests -> Channel]
    BY <1>a, FoundType DEF TypeOK, Channel
  <2>2. Dispatch(d, rid', Q, inflight[d], ch)
    BY <1>3 DEF AcquireEnqueue
  <2>3. \A x \in Deployments : r \notin Entries(x)
    BY <1>3 DEF AcquireEnqueue, EntryInv, NoLeakedEntry, Live
  <2>4. Q \cap inflight[d] = {}
    BY <2>1, <2>3 DEF EntryInv, Disjoint, Entries
  <2>5. /\ \A x \in Deployments : x # d => waiting'[x] = waiting[x] /\ inflight'[x] = inflight[x]
        /\ waiting'[d] \cup inflight'[d] \subseteq Q \cup inflight[d]
        /\ waiting'[d] \cap inflight'[d] = {}
        /\ \A q \in Requests : chan'[q] = "dropped" => ch[q] = "dropped"
    <3> HIDE DEF d, Q, ch
    <3> QED
      BY <1>a, <2>1, <2>2, <2>4, DispatchEntries
  <2>6. /\ ask' = ask /\ limits' = limits
        /\ rid' = [rid EXCEPT ![r] = next_id[d]]
        /\ next_id' = [next_id EXCEPT ![d] = @ + 1]
        /\ pc' = [pc EXCEPT ![r] = "enqueued"]
        /\ limits[d] # NoSlot
    BY <1>3 DEF AcquireEnqueue
  <2>7. \A x \in Deployments :
           /\ Entries(x)' \subseteq IF x = d THEN Entries(x) \cup {r} ELSE Entries(x)
           /\ Entries(x) \subseteq Requests
    BY <1>a, <2>5 DEF Entries, TypeOK
  <2>8. NoLeakedEntry'
    BY <1>a, <2>6, <2>7 DEF EntryInv, NoLeakedEntry, Live, TypeOK
  <2>9. \A x \in Deployments : \A e \in Entries(x) : rid'[e] = rid[e] /\ rid[e] < next_id[x]
    BY <1>a, <2>3, <2>6, <2>7 DEF EntryInv, IdsDrawn, TypeOK
  <2>10. rid'[r] = next_id[d] /\ next_id'[d] = next_id[d] + 1
         /\ \A x \in Deployments : x # d => next_id'[x] = next_id[x]
    BY <1>a, <2>1, <2>6 DEF TypeOK
  <2>11. \A e \in Requests : rid[e] \in Nat
    BY <1>a DEF TypeOK
  <2>12. IdsDistinct'
    <3> SUFFICES ASSUME NEW x \in Deployments, NEW e \in Entries(x)', NEW f \in Entries(x)',
                        rid'[e] = rid'[f]
                 PROVE  e = f
      BY DEF IdsDistinct
    <3>1. CASE e \in Entries(x) /\ f \in Entries(x)
      BY <2>9, <3>1 DEF EntryInv, IdsDistinct
    <3>2. CASE e = r \/ f = r
      <4>1. \A g \in Entries(d) : rid'[g] # rid'[r]
        BY <2>1, <2>7, <2>9, <2>10, <2>11
      <4> QED
        BY <2>3, <2>7, <3>2, <4>1
    <3> QED
      BY <2>7, <3>1, <3>2
  <2>13. IdsDrawn'
    <3> SUFFICES ASSUME NEW x \in Deployments, NEW e \in Entries(x)'
                 PROVE  rid'[e] < next_id'[x]
      BY DEF IdsDrawn
    <3>1. CASE e \in Entries(x)
      BY <2>1, <2>7, <2>9, <2>10, <2>11, <3>1
    <3>2. CASE e = r /\ x = d
      BY <2>1, <2>10, <3>2
    <3> QED
      BY <2>7, <3>1, <3>2
  <2>14. Disjoint'
    BY <2>1, <2>5 DEF EntryInv, Disjoint
  <2>15. NoSlotNoEntries'
    BY <2>6, <2>7 DEF EntryInv, NoSlotNoEntries
  <2>16. SendersHeld'
    <3>1. \A x \in Deployments : \A e \in Entries(x) : ch[e] # "dropped"
      BY <1>a, <2>7 DEF EntryInv, SendersHeld, TypeOK
    <3>2. ch[r] # "dropped"
      BY <1>a DEF TypeOK
    <3> QED
      BY <2>5, <2>7, <3>1, <3>2 DEF SendersHeld
  <2> QED
    BY <1>a, <2>8, <2>12, <2>13, <2>14, <2>15, <2>16 DEF EntryInv
<1>4. ASSUME NEW r \in Requests, IndexPush(r) PROVE EntryInv'
  <2>1. \A q \in Requests : q # r => pc'[q] = pc[q]
    BY <1>4, <1>a DEF IndexPush, TypeOK
  <2>2. pc'[r] \in Live
    BY <1>4, <1>a DEF IndexPush, TypeOK, Live
  <2> QED
    BY <1>4, <1>a, <2>1, <2>2, MoveKeepsInv DEF IndexPush
<1>5. ASSUME NEW r \in Requests, Granted(r) PROVE EntryInv'
  <2>1. \A q \in Requests : q # r => pc'[q] = pc[q]
    BY <1>5, <1>a DEF Granted, TypeOK
  <2>2. pc'[r] \in Live
    BY <1>5, <1>a DEF Granted, TypeOK, Live
  <2> QED
    BY <1>5, <1>a, <2>1, <2>2, MoveKeepsInv DEF Granted
<1>6. ASSUME NEW r \in Requests, SenderGone(r) PROVE EntryInv'
  <2>1. \A q \in Requests : q # r => pc'[q] = pc[q]
    BY <1>6, <1>a DEF SenderGone, TypeOK
  <2>2. \A x \in Deployments : r \notin Entries(x)
    BY <1>6 DEF SenderGone, EntryInv, SendersHeld
  <2> QED
    BY <1>6, <1>a, <2>1, <2>2, MoveKeepsInv DEF SenderGone
<1>7. ASSUME NEW r \in Requests, TimerFires(r) PROVE EntryInv'
  <2>1. \A q \in Requests : q # r => pc'[q] = pc[q]
    BY <1>7, <1>a DEF TimerFires, TypeOK
  <2>2. pc'[r] \in Live
    BY <1>7, <1>a DEF TimerFires, TypeOK, Live
  <2>3. \A q \in Requests : chan[q] # "dropped" => chan'[q] # "dropped"
    BY <1>7, <1>a DEF TimerFires, TypeOK, CloseReceiver
  <2>4. UNCHANGED <<ask, slotVars, rid>>
    BY <1>7 DEF TimerFires
  <2> QED
    BY <1>a, <2>1, <2>2, <2>3, <2>4, MoveKeepsInv
<1>8. ASSUME NEW r \in Requests, TimeoutLookup(r) PROVE EntryInv'
  <2> DEFINE d == ask[r].dep
             gone == Found(r) \cap waiting[d]
  <2>1. \A q \in Requests : q # r => pc'[q] = pc[q]
    BY <1>8, <1>a DEF TimeoutLookup, TypeOK
  <2>2. /\ waiting' = [waiting EXCEPT ![d] = @ \ gone]
        /\ chan' = DropSenders(gone)
        /\ pc' = [pc EXCEPT ![r] =
                     IF limits[d] = NoSlot \/ gone # {} THEN "unref" ELSE "holding"]
        /\ UNCHANGED <<ask, limits, next_id, inflight, rid>>
    BY <1>8 DEF TimeoutLookup
  <2>3. d \in Deployments /\ gone \in SUBSET Requests
    BY <1>a, FoundType
  <2>4. \A x \in Deployments : waiting'[x] = (IF x = d THEN waiting[x] \ gone ELSE waiting[x])
                                 /\ inflight'[x] = inflight[x]
    BY <1>a, <2>2, <2>3 DEF TypeOK
  <2>5. \A x \in Deployments : /\ Entries(x)' \subseteq Entries(x) \ gone
                                 /\ waiting'[x] \cap inflight'[x] = {}
                                 /\ Entries(x) \subseteq Requests
    <3> SUFFICES ASSUME NEW x \in Deployments
                 PROVE  /\ Entries(x)' \subseteq Entries(x) \ gone
                        /\ waiting'[x] \cap inflight'[x] = {}
                        /\ Entries(x) \subseteq Requests
      OBVIOUS
    <3>1. waiting[x] \cap inflight[x] = {} /\ Entries(x) \subseteq Requests
      BY <1>a DEF EntryInv, Disjoint, TypeOK, Entries
    <3>2. CASE x = d
      BY <2>4, <3>1, <3>2 DEF Entries
    <3>3. CASE x # d
      <4>1. gone \cap Entries(x) = {}
        BY <2>3, <3>3 DEF EntryInv, NoLeakedEntry, Entries
      <4> QED
        BY <2>4, <3>1, <3>3, <4>1 DEF Entries
    <3> QED
      BY <3>2, <3>3
  <2>6. \A x \in Deployments : \A e \in Entries(x)' : chan'[e] # "dropped"
    <3>1. \A q \in Requests : q \notin gone => chan'[q] = chan[q]
      BY <2>2 DEF DropSenders
    <3> QED
      BY <2>5, <3>1 DEF EntryInv, SendersHeld
  <2>7. \A x \in Deployments : r \in Entries(x)' => pc'[r] \in Live
    <3> SUFFICES ASSUME NEW x \in Deployments, r \in Entries(x)' PROVE pc'[r] \in Live
      OBVIOUS
    <3>1. r \in Entries(x) /\ r \notin gone
      BY <2>5
    <3>2. x = d /\ Found(r) = {r}
      BY <3>1, OwnEntry
    <3>3. gone = {}
      BY <3>1, <3>2
    <3>4. limits[d] # NoSlot
      BY <3>1, <3>2 DEF EntryInv, NoSlotNoEntries
    <3> QED
      BY <1>a, <2>2, <3>3, <3>4 DEF Live, TypeOK
  <2>8. \A x \in Deployments : \A e \in Entries(x)' : pc'[e] \in Live
    BY <2>1, <2>5, <2>7 DEF EntryInv, NoLeakedEntry
  <2>9. UNCHANGED <<ask, limits, next_id, rid>>
    BY <2>2
  <2>10. \A x \in Deployments : Entries(x)' \subseteq Entries(x)
    BY <2>5
  <2> QED
    BY <1>a, <2>5, <2>6, <2>8, <2>9, <2>10, ShrinkKeepsInv
<1>9. ASSUME NEW r \in Requests, Cancel(r) PROVE EntryInv'
  <2>1. \A q \in Requests : q # r => pc'[q] = pc[q]
    BY <1>9, <1>a DEF Cancel, TypeOK
  <2>2. pc'[r] \in Live
    BY <1>9, <1>a DEF Cancel, TypeOK, Live
  <2>3. \A q \in Requests : chan[q] # "dropped" => chan'[q] # "dropped"
    BY <1>9, <1>a DEF Cancel, TypeOK, CloseReceiver
  <2>4. UNCHANGED <<ask, slotVars, rid>>
    BY <1>9 DEF Cancel
  <2> QED
    BY <1>a, <2>1, <2>2, <2>3, <2>4, MoveKeepsInv
<1>10. ASSUME NEW r \in Requests, CancelCleanup(r) PROVE EntryInv'
  <2>1. \A q \in Requests : q # r => pc'[q] = pc[q]
    BY <1>10, <1>a DEF CancelCleanup, TypeOK
  <2>2. RemoveAndDispatch(r) /\ UNCHANGED <<ask, limits, next_id, rid>>
    BY <1>10 DEF CancelCleanup
  <2>3. \A x \in Deployments :
           /\ Entries(x)' \subseteq Entries(x) \ {r}
           /\ waiting'[x] \cap inflight'[x] = {}
           /\ \A e \in Entries(x)' : chan'[e] # "dropped"
    BY <2>2, RemoveAndDispatchEntries
  <2>4. \A x \in Deployments : \A e \in Entries(x)' : pc'[e] \in Live
    BY <1>a, <2>1, <2>3 DEF EntryInv, NoLeakedEntry, Entries, TypeOK
  <2> QED
    BY <1>a, <2>2, <2>3, <2>4, ShrinkKeepsInv
<1>11. ASSUME NEW r \in Requests, Release(r) PROVE EntryInv'
  <2>1. \A q \in Requests : q # r => pc'[q] = pc[q]
    BY <1>11, <1>a DEF Release, TypeOK
  <2>2. RemoveAndDispatch(r) /\ UNCHANGED <<ask, limits, next_id, rid>>
    BY <1>11 DEF Release
  <2>3. \A x \in Deployments :
           /\ Entries(x)' \subseteq Entries(x) \ {r}
           /\ waiting'[x] \cap inflight'[x] = {}
           /\ \A e \in Entries(x)' : chan'[e] # "dropped"
    BY <2>2, RemoveAndDispatchEntries
  <2>4. \A x \in Deployments : \A e \in Entries(x)' : pc'[e] \in Live
    BY <1>a, <2>1, <2>3 DEF EntryInv, NoLeakedEntry, Entries, TypeOK
  <2> QED
    BY <1>a, <2>2, <2>3, <2>4, ShrinkKeepsInv
<1>12. ASSUME NEW r \in Requests, FinishPassthrough(r) PROVE EntryInv'
  <2>1. \A q \in Requests : q # r => pc'[q] = pc[q]
    BY <1>12, <1>a DEF FinishPassthrough, TypeOK
  <2>2. \A x \in Deployments : r \notin Entries(x)
    BY <1>12 DEF FinishPassthrough, EntryInv, NoLeakedEntry, Live
  <2> QED
    BY <1>12, <1>a, <2>1, <2>2, MoveKeepsInv DEF FinishPassthrough
<1>13. ASSUME NEW r \in Requests, Unref(r) PROVE EntryInv'
  <2>1. \A q \in Requests : q # r => pc'[q] = pc[q]
    BY <1>13, <1>a DEF Unref, TypeOK
  <2>2. \A x \in Deployments : r \notin Entries(x)
    BY <1>13 DEF Unref, EntryInv, NoLeakedEntry, Live
  <2> QED
    BY <1>13, <1>a, <2>1, <2>2, MoveKeepsInv DEF Unref
<1>14. ASSUME NEW r \in Requests, Reap(r) PROVE EntryInv'
  <2>1. \A q \in Requests : q # r => pc'[q] = pc[q]
    BY <1>14, <1>a DEF Reap, TypeOK
  <2>2. \A x \in Deployments : r \notin Entries(x)
    BY <1>14 DEF Reap, EntryInv, NoLeakedEntry, Live
  <2> QED
    BY <1>14, <1>a, <2>1, <2>2, MoveKeepsInv DEF Reap
<1>15. ASSUME NEW k \in Keys, StatusBegin(k) PROVE EntryInv'
  BY <1>15, <1>a, <1>b DEF StatusBegin
<1>16. ASSUME NEW k \in Keys, StatusLookup(k) PROVE EntryInv'
  BY <1>16, <1>a, <1>b DEF StatusLookup
<1>17. ASSUME NEW k \in Keys, StatusClean(k) PROVE EntryInv'
  BY <1>17, <1>a, <1>b DEF StatusClean
<1>18. ASSUME NEW k \in Keys, StatusReap(k) PROVE EntryInv'
  BY <1>18, <1>a, <1>b DEF StatusReap
<1>19. ASSUME NEW d \in Deployments, DropSlot(d), UNCHANGED <<ask, rid, pc>> PROVE EntryInv'
  <2>1. /\ \A x \in Deployments : Entries(x)' = (IF x = d THEN {} ELSE Entries(x))
        /\ \A x \in Deployments : x # d => /\ next_id'[x] = next_id[x]
                                             /\ waiting'[x] = waiting[x] /\ inflight'[x] = inflight[x]
                                             /\ limits'[x] = limits[x]
        /\ waiting'[d] = {}
    BY <1>19, <1>a DEF DropSlot, Entries, TypeOK
  <2>2. NoLeakedEntry'
    BY <1>19, <2>1 DEF EntryInv, NoLeakedEntry
  <2>3. IdsDistinct' /\ IdsDrawn'
    BY <1>19, <2>1 DEF EntryInv, IdsDistinct, IdsDrawn
  <2>4. Disjoint' /\ NoSlotNoEntries'
    BY <2>1 DEF EntryInv, Disjoint, NoSlotNoEntries
  <2>5. SendersHeld'
    <3>1. \A q \in Requests : q \notin waiting[d] => chan'[q] = chan[q]
      BY <1>19 DEF DropSlot, DropSenders
    <3>2. \A x \in Deployments : x # d => /\ Entries(x) \cap waiting[d] = {}
                                           /\ Entries(x) \subseteq Requests
      BY <1>a DEF EntryInv, NoLeakedEntry, Entries, TypeOK
    <3> QED
      BY <2>1, <3>1, <3>2 DEF EntryInv, SendersHeld
  <2> QED
    BY <1>a, <2>2, <2>3, <2>4, <2>5 DEF EntryInv
<1>20. ASSUME NEW d \in Deployments, NEW c \in Configs, EnsureSlot(d, c) PROVE EntryInv'
  <2>1. CASE c = NoSlot
    BY <1>19, <1>20, <2>1 DEF EnsureSlot
  <2>2. CASE c # NoSlot
    <3>1. /\ UNCHANGED <<ask, next_id, waiting, inflight, rid, chan, pc>>
          /\ limits' = [limits EXCEPT ![d] = c]
      BY <1>20, <2>2 DEF EnsureSlot
    <3>2. \A x \in Deployments : Entries(x)' = Entries(x)
      BY <3>1 DEF Entries
    <3>3. NoSlotNoEntries'
      BY <1>a, <2>2, <3>1, <3>2 DEF EntryInv, NoSlotNoEntries, TypeOK
    <3>4. NoLeakedEntry' /\ IdsDistinct' /\ IdsDrawn' /\ Disjoint' /\ SendersHeld'
      BY <3>1, <3>2 DEF EntryInv, NoLeakedEntry, IdsDistinct, IdsDrawn, Disjoint, SendersHeld
    <3> QED
      BY <1>a, <3>3, <3>4 DEF EntryInv
  <2> QED
    BY <2>1, <2>2
<1>21. ASSUME NEW d \in Removable, RetainSlots(d) PROVE EntryInv'
  <2>1. d \in Deployments
    BY ConstantsAssumption
  <2> QED
    BY <1>19, <1>21, <2>1 DEF RetainSlots
<1>22. ASSUME NEW d \in Deployments, PeriodicDispatch(d) PROVE EntryInv'
  <2>1. /\ waiting[d] \in SUBSET Requests /\ inflight[d] \in SUBSET Requests
        /\ chan \in [Requests -> Channel]
        /\ waiting[d] \cap inflight[d] = {}
    BY <1>a DEF TypeOK, EntryInv, Disjoint
  <2>2. Dispatch(d, rid, waiting[d], inflight[d], chan) /\ UNCHANGED <<ask, limits, next_id, rid, pc>>
    BY <1>22 DEF PeriodicDispatch
  <2>3. /\ \A x \in Deployments : x # d => waiting'[x] = waiting[x] /\ inflight'[x] = inflight[x]
        /\ waiting'[d] \cup inflight'[d] \subseteq waiting[d] \cup inflight[d]
        /\ waiting'[d] \cap inflight'[d] = {}
        /\ \A q \in Requests : chan'[q] = "dropped" => chan[q] = "dropped"
    BY <1>a, <2>1, <2>2, DispatchEntries
  <2>4. \A x \in Deployments : /\ Entries(x)' \subseteq Entries(x) /\ Entries(x) \subseteq Requests
                                 /\ waiting'[x] \cap inflight'[x] = {}
    <3> SUFFICES ASSUME NEW x \in Deployments
                 PROVE  /\ Entries(x)' \subseteq Entries(x) /\ Entries(x) \subseteq Requests
                        /\ waiting'[x] \cap inflight'[x] = {}
      OBVIOUS
    <3>1. waiting[x] \cap inflight[x] = {} /\ Entries(x) \subseteq Requests
      BY <1>a DEF EntryInv, Disjoint, TypeOK, Entries
    <3> QED
      BY <2>3, <3>1 DEF Entries
  <2>5. \A x \in Deployments : \A e \in Entries(x)' : pc'[e] \in Live /\ chan'[e] # "dropped"
    BY <2>2, <2>3, <2>4 DEF EntryInv, NoLeakedEntry, SendersHeld
  <2> QED
    BY <1>a, <2>2, <2>4, <2>5, ShrinkKeepsInv
<1>23. CASE UNCHANGED vars
  BY <1>23, <1>b DEF vars
<1> QED
  BY <1>1, <1>2, <1>3, <1>4, <1>5, <1>6, <1>7, <1>8, <1>9, <1>10, <1>11, <1>12, <1>13, <1>14,
     <1>15, <1>16, <1>17, <1>18, <1>20, <1>21, <1>22, <1>23 DEF Next, Task, Status

\* The system starts without slots and entries.
LEMMA EntryInit == Init => EntryInv
<1> SUFFICES ASSUME Init PROVE EntryInv
  OBVIOUS
<1>1. TypeOK
  BY DEF Init, TypeOK, NoSlot, Limit, Channel, PC, IdleScan
<1>2. \A d \in Deployments : Entries(d) = {} /\ waiting[d] = {}
  BY DEF Init, Entries
<1> QED
  BY <1>1, <1>2 DEF EntryInv, NoLeakedEntry, IdsDistinct, IdsDrawn, Disjoint,
                    NoSlotNoEntries, SendersHeld

\* The invariant holds throughout.
LEMMA EntryInvariant == Spec => []EntryInv
BY EntryInit, EntryStep, PTL DEF Spec

\* No capacity is lost: in every execution, through timeouts, disconnects and
\* slot re-creations, an entry of a slot belongs to a request that will still
\* remove it ("counter leaks structurally impossible").
THEOREM NoEntryLeaks == Spec => []NoLeakedEntry
<1>1. EntryInv => NoLeakedEntry
  BY DEF EntryInv
<1> QED
  BY <1>1, EntryInvariant, PTL

-----------------------------------------------------------------------------
(***************************************************************************)
(* What dispatch() grants: CapacityRespected, WorkConserving and           *)
(* PriorityRespected.                                                      *)
(***************************************************************************)

\* A request that fits beside a set of requests fits beside a part of it.
LEMMA FitsBesideLess ==
    ASSUME TypeOK, NEW lim \in Limit, NEW B \in SUBSET Requests, NEW A \in SUBSET B,
           NEW r \in Requests, Fits(lim, B, r)
    PROVE  Fits(lim, A, r)
<1> DEFINE ctx == [q \in Requests |-> ask[q].ctx]
<1>1. IsFiniteSet(B) /\ IsFiniteSet(A)
  BY ConstantsAssumption, FS_Subset
<1>2. Cardinality(A) <= Cardinality(B) /\ Cardinality(A) \in Nat /\ Cardinality(B) \in Nat
  BY <1>1, FS_Subset, FS_CardinalityType
<1>3. \A q \in B : ctx[q] \in Nat
  BY ConstantsAssumption DEF TypeOK, Ask
<1>4. UsedContext(A) <= UsedContext(B) /\ UsedContext(A) \in Nat /\ UsedContext(B) \in Nat
  <2> HIDE DEF ctx
  <2>1. /\ SumFunctionOnSet(ctx, A) <= SumFunctionOnSet(ctx, B)
        /\ SumFunctionOnSet(ctx, A) \in Nat /\ SumFunctionOnSet(ctx, B) \in Nat
    BY <1>1, <1>3, SumNat
  <2>2. QED
    BY <2>1 DEF UsedContext, ctx
<1>5. ask[r].ctx \in Nat /\ lim.max_inflight \in Nat /\ lim.max_context \in Nat
  BY ConstantsAssumption DEF TypeOK, Ask, Limit
<1>6. QED
  BY <1>2, <1>4, <1>5 DEF Fits

\* The sum of contexts with one request more.
LEMMA ContextAdds ==
    ASSUME TypeOK, NEW A \in SUBSET Requests, NEW r \in Requests \ A
    PROVE  /\ UsedContext(A \cup {r}) = UsedContext(A) + ask[r].ctx
           /\ Cardinality(A \cup {r}) = Cardinality(A) + 1
           /\ UsedContext(A) \in Nat /\ Cardinality(A) \in Nat /\ ask[r].ctx \in Nat
<1> DEFINE ctx == [q \in Requests |-> ask[q].ctx]
<1>1. IsFiniteSet(A)
  BY ConstantsAssumption, FS_Subset
<1>2. /\ Cardinality(A \cup {r}) = Cardinality(A) + 1
      /\ Cardinality(A) \in Nat
  BY <1>1, FS_AddElement, FS_CardinalityType
<1>3. ctx[r] = ask[r].ctx /\ \A q \in Requests : ctx[q] \in Nat
  BY ConstantsAssumption DEF TypeOK, Ask
<1>4. /\ UsedContext(A \cup {r}) = ctx[r] + UsedContext(A)
      /\ UsedContext(A) \in Nat
  <2> HIDE DEF ctx
  <2>1. \A q \in A \cup {r} : ctx[q] \in Int /\ ctx[q] \in Nat
    BY <1>3
  <2>2. SumFunctionOnSet(ctx, A \cup {r}) = ctx[r] + SumFunctionOnSet(ctx, A)
    BY <1>1, <2>1, SumAdd
  <2>3. SumFunctionOnSet(ctx, A) \in Nat
    BY <1>1, <2>1, SumNat
  <2>4. QED
    BY <2>2, <2>3 DEF UsedContext, ctx
<1>5. QED
  BY <1>2, <1>3, <1>4

\* Dispatch order is a strict order, total where ids are distinct.
LEMMA BeforeOrders ==
    ASSUME TypeOK, NEW id \in [Requests -> Nat],
           NEW e \in Requests, NEW f \in Requests, NEW g \in Requests
    PROVE  /\ ~Before(id, e, e)
           /\ Before(id, e, f) => ~Before(id, f, e)
           /\ Before(id, e, f) /\ Before(id, f, g) => Before(id, e, g)
           /\ id[e] # id[f] => Before(id, e, f) \/ Before(id, f, e)
<1>1. id[e] \in Nat /\ id[f] \in Nat /\ id[g] \in Nat
  OBVIOUS
<1>2. ask[e].vip \in BOOLEAN /\ ask[f].vip \in BOOLEAN /\ ask[g].vip \in BOOLEAN
  BY DEF TypeOK, Ask
<1>3. QED
  BY <1>1, <1>2 DEF Before

\* Among several requests one comes last.
LEMMA LastOne ==
    ASSUME TypeOK, NEW id \in [Requests -> Nat], NEW O \in SUBSET Requests, O # {},
           \A e, f \in O : id[e] = id[f] => e = f
    PROVE  \E n \in O : \A e \in O : e # n => Before(id, e, n)
<1> DEFINE Ends(A) == A # {} /\ \A e \in A, f \in O : Before(id, e, f) => f \in A
           T == {A \in SUBSET O : Ends(A)}
<1>1. O \in T
  OBVIOUS
<1>2. PICK A \in T : \A B \in T : B \subseteq A => B = A
  <2>1. T \in SUBSET (SUBSET O) /\ IsFiniteSet(O)
    BY ConstantsAssumption, FS_Subset
  <2> HIDE DEF T
  <2>2. QED
    BY <1>1, <2>1, SmallestSet
<1>3. PICK n \in A : TRUE
  BY <1>2
<1>4. ASSUME NEW f \in O, Before(id, n, f) PROVE FALSE
  <2> DEFINE B == {g \in A : Before(id, n, g)}
  <2>1. f \in A /\ f \in B
    BY <1>2, <1>3, <1>4
  <2>2. \A e \in B, g \in O : Before(id, e, g) => g \in B
    BY <1>2, <1>3, BeforeOrders
  <2>3. B \in T
    BY <2>1, <2>2
  <2>4. n \notin B
    BY BeforeOrders
  <2>5. QED
    BY <1>2, <1>3, <2>3, <2>4
<1>5. QED
  BY <1>3, <1>4, BeforeOrders

\* Among several requests one comes first.
LEMMA FirstOne ==
    ASSUME TypeOK, NEW id \in [Requests -> Nat], NEW O \in SUBSET Requests, O # {}
    PROVE  \E n \in O : \A e \in O : ~Before(id, e, n)
<1> DEFINE Begins(A) == A # {} /\ \A e \in A, f \in O : Before(id, f, e) => f \in A
           T == {A \in SUBSET O : Begins(A)}
<1>1. O \in T
  OBVIOUS
<1>2. PICK A \in T : \A B \in T : B \subseteq A => B = A
  <2>1. T \in SUBSET (SUBSET O) /\ IsFiniteSet(O)
    BY ConstantsAssumption, FS_Subset
  <2> HIDE DEF T
  <2>2. QED
    BY <1>1, <2>1, SmallestSet
<1>3. PICK n \in A : TRUE
  BY <1>2
<1>4. ASSUME NEW f \in O, Before(id, f, n) PROVE FALSE
  <2> DEFINE B == {g \in A : Before(id, g, n)}
  <2>1. f \in A /\ f \in B
    BY <1>2, <1>3, <1>4
  <2>2. \A e \in B, g \in O : Before(id, g, e) => g \in B
    BY <1>2, <1>3, BeforeOrders
  <2>3. B \in T
    BY <2>1, <2>2
  <2>4. n \notin B
    BY BeforeOrders
  <2>5. QED
    BY <1>2, <1>3, <2>3, <2>4
<1>5. QED
  BY <1>3, <1>4

\* dispatch() cannot end two ways: the first entry on which two outcomes differ
\* would be beside the same grants in both.
LEMMA SentSetUnique ==
    ASSUME TypeOK, NEW id \in [Requests -> Nat], NEW lim, NEW ch, NEW I,
           NEW Q \in SUBSET Requests, NEW S \in SUBSET Q, NEW T \in SUBSET Q,
           SentSet(lim, id, Q, I, ch, S), SentSet(lim, id, Q, I, ch, T)
    PROVE  S = T
<1> DEFINE D == (S \ T) \cup (T \ S)
<1>1. SUFFICES ASSUME D # {} PROVE FALSE
  OBVIOUS
<1>2. PICK n \in D : \A e \in D : ~Before(id, e, n)
  <2>1. D \in SUBSET Requests
    OBVIOUS
  <2> HIDE DEF D
  <2>2. QED
    BY <1>1, <2>1, FirstOne
<1>3. {e \in Open(ch, S) : Before(id, e, n)} = {e \in Open(ch, T) : Before(id, e, n)}
  BY <1>2 DEF Open
<1>4. n \in Q
  OBVIOUS
<1>5. n \in S <=> n \in T
  BY <1>3, <1>4 DEF SentSet
<1>6. QED
  BY <1>5

\* dispatch() always ends: the outcome for all entries but the last is extended by
\* the last one if it fits.
LEMMA SentSetExists ==
    ASSUME TypeOK, NEW id \in [Requests -> Nat], NEW lim, NEW ch, NEW I,
           NEW Q \in SUBSET Requests, \A e, f \in Q : id[e] = id[f] => e = f
    PROVE  \E S \in SUBSET Q : SentSet(lim, id, Q, I, ch, S)
<1> DEFINE Stuck(W) == \A S \in SUBSET W : ~SentSet(lim, id, W, I, ch, S)
           T == {W \in SUBSET Q : Stuck(W)}
<1>1. SUFFICES ASSUME T # {} PROVE FALSE
  OBVIOUS
<1>2. PICK W \in T : \A B \in T : B \subseteq W => B = W
  <2>1. T \in SUBSET (SUBSET Q) /\ IsFiniteSet(Q)
    BY ConstantsAssumption, FS_Subset
  <2> HIDE DEF T
  <2>2. QED
    BY <1>1, <2>1, SmallestSet
<1>3. W # {}
  <2>1. SUFFICES ASSUME W = {} PROVE FALSE
    OBVIOUS
  <2>2. SentSet(lim, id, W, I, ch, {})
    BY <2>1 DEF SentSet
  <2>3. QED
    BY <2>2
<1>4. PICK n \in W : \A e \in W : e # n => Before(id, e, n)
  <2>1. W \in SUBSET Requests /\ \A e, f \in W : id[e] = id[f] => e = f
    BY <1>2
  <2> HIDE DEF T
  <2>2. QED
    BY <1>3, <2>1, LastOne
<1>5. PICK S \in SUBSET (W \ {n}) : SentSet(lim, id, W \ {n}, I, ch, S)
  <2>1. W \ {n} \notin T
    BY <1>2
  <2>2. QED
    BY <2>1
<1> DEFINE More == {e \in {n} : Fits(lim, I \cup {x \in Open(ch, S) : Before(id, x, n)}, n)}
           All == S \cup More
<1>6. n \in Requests /\ ~Before(id, n, n) /\ \A e \in W \ {n} : e \in Requests /\ ~Before(id, n, e)
  BY <1>4, BeforeOrders
<1>7. \A r \in W : {e \in Open(ch, All) : Before(id, e, r)} = {e \in Open(ch, S) : Before(id, e, r)}
  BY <1>6 DEF Open
<1>8. \A r \in W : r \in All <=> Fits(lim, I \cup {e \in Open(ch, All) : Before(id, e, r)}, r)
  <2>1. TAKE r \in W
  <2>2. {e \in Open(ch, All) : Before(id, e, r)} = {e \in Open(ch, S) : Before(id, e, r)}
    BY <1>7
  <2>3. CASE r = n
    <3>1. r \in All <=> Fits(lim, I \cup {x \in Open(ch, S) : Before(id, x, n)}, n)
      BY <2>3
    <3>2. QED
      BY <2>2, <2>3, <3>1
  <2>4. CASE r # n
    <3>1. r \in W \ {n} /\ (r \in All <=> r \in S)
      BY <2>4
    <3>2. r \in S <=> Fits(lim, I \cup {e \in Open(ch, S) : Before(id, e, r)}, r)
      BY <1>5, <3>1 DEF SentSet
    <3>3. QED
      BY <2>2, <3>1, <3>2
  <2>5. QED
    BY <2>3, <2>4
<1>9. All \in SUBSET W /\ SentSet(lim, id, W, I, ch, All)
  BY <1>4, <1>5, <1>8 DEF SentSet
<1>10. QED
  BY <1>2, <1>9

\* What dispatch() would grant from the queue of any slot is settled by the slot:
\* some set of its waiting entries is an outcome, and no other set is.
OutcomeSettled ==
    \A d \in Deployments : \E S \in SUBSET waiting[d] :
        \A T \in SUBSET waiting[d] :
            SentSet(limits[d], rid, waiting[d], inflight[d], chan, T) <=> T = S

\* The queue scan of dispatch() has exactly one outcome in every reachable slot: the
\* relation SentSet that stands for the loop never blocks a step and never leaves it
\* a choice.
THEOREM DispatchIsAFunction == Spec => []OutcomeSettled
<1>1. EntryInv => OutcomeSettled
  <2>1. SUFFICES ASSUME EntryInv, NEW d \in Deployments
                 PROVE  \E S \in SUBSET waiting[d] : \A T \in SUBSET waiting[d] :
                            SentSet(limits[d], rid, waiting[d], inflight[d], chan, T) <=> T = S
    BY DEF OutcomeSettled
  <2>2. /\ TypeOK /\ rid \in [Requests -> Nat] /\ waiting[d] \in SUBSET Requests
        /\ \A e, f \in waiting[d] : rid[e] = rid[f] => e = f
    BY <2>1 DEF EntryInv, TypeOK, IdsDistinct, Entries
  <2>3. PICK S \in SUBSET waiting[d] : SentSet(limits[d], rid, waiting[d], inflight[d], chan, S)
    BY <2>2, SentSetExists
  <2>4. \A T \in SUBSET waiting[d] :
            SentSet(limits[d], rid, waiting[d], inflight[d], chan, T) => T = S
    BY <2>2, <2>3, SentSetUnique
  <2>5. QED
    BY <2>3, <2>4
<1>2. QED
  BY <1>1, EntryInvariant, PTL

\* The slot of d after a step that dispatches: Q and I are the entries dispatch()
\* found, S those it took from the queue.
Dispatched(d, Q, I, ch, S) ==
    /\ Q \subseteq Requests /\ I \subseteq Requests /\ Q \cap I = {} /\ S \subseteq Q
    /\ I \subseteq inflight[d]
    /\ \A e, f \in Q : rid'[e] = rid'[f] => e = f
    /\ SentSet(limits[d], rid', Q, I, ch, S)
    /\ waiting'[d] = Q \ S /\ inflight'[d] = I \cup Open(ch, S)

\* A step leaves the slot of d alone but for waiters that go, or removes it, or
\* dispatches.
SlotStep(d) ==
    \/ waiting'[d] \subseteq waiting[d] /\ inflight'[d] = inflight[d]
    \/ waiting'[d] = {} /\ inflight'[d] = {}
    \/ \E Q, I, ch, S : Dispatched(d, Q, I, ch, S)

LEMMA DispatchIsSlotStep ==
    ASSUME TypeOK, NEW d \in Deployments, NEW Q \in SUBSET Requests, NEW I \in SUBSET Requests,
           NEW ch, Q \cap I = {}, I \subseteq inflight[d],
           \A e, f \in Q : rid'[e] = rid'[f] => e = f,
           Dispatch(d, rid', Q, I, ch)
    PROVE  \A x \in Deployments : SlotStep(x)
<1>1. PICK S \in SUBSET Q :
        /\ SentSet(limits[d], rid', Q, I, ch, S)
        /\ waiting' = [waiting EXCEPT ![d] = Q \ S]
        /\ inflight' = [inflight EXCEPT ![d] = I \cup Open(ch, S)]
  BY DEF Dispatch
<1>2. waiting'[d] = Q \ S /\ inflight'[d] = I \cup Open(ch, S)
  BY <1>1 DEF TypeOK
<1>3. Dispatched(d, Q, I, ch, S)
  BY <1>1, <1>2 DEF Dispatched
<1>4. \A x \in Deployments : x # d => waiting'[x] = waiting[x] /\ inflight'[x] = inflight[x]
  BY <1>1 DEF TypeOK
<1>5. QED
  BY <1>3, <1>4 DEF SlotStep

LEMMA EveryStepIsSlotStep ==
    ASSUME EntryInv, [Next]_vars
    PROVE  ask' = ask /\ \A d \in Deployments : SlotStep(d)
<1>0. TypeOK
  BY DEF EntryInv
<1>1. ask' = ask
  BY DEF Next, Task, Status, vars, AcquireNoSlot, AcquireReject, AcquireEnqueue, IndexPush, Granted,
         SenderGone, TimerFires, TimeoutLookup, Cancel, CancelCleanup, Release, FinishPassthrough,
         Unref, Reap, StatusBegin, StatusLookup, StatusClean, StatusReap, EnsureSlot, RetainSlots,
         PeriodicDispatch
<1>2. ASSUME UNCHANGED <<waiting, inflight>> PROVE \A d \in Deployments : SlotStep(d)
  BY <1>2 DEF SlotStep
<1>3. ASSUME NEW r \in Requests, AcquireEnqueue(r) PROVE \A d \in Deployments : SlotStep(d)
  <2> DEFINE x == ask[r].dep
             Q == waiting[x] \cup {r}
  <2>1. x \in Deployments /\ Q \in SUBSET Requests /\ inflight[x] \in SUBSET Requests
        /\ next_id[x] \in Nat
    BY <1>0, FoundType DEF TypeOK
  <2>2. /\ Dispatch(x, rid', Q, inflight[x], [chan EXCEPT ![r] = "empty"])
        /\ rid' = [rid EXCEPT ![r] = next_id[x]]
    BY <1>3 DEF AcquireEnqueue
  <2>3. \A y \in Deployments : r \notin Entries(y)
    BY <1>3 DEF AcquireEnqueue, EntryInv, NoLeakedEntry, Live
  <2>4. Q \cap inflight[x] = {}
    BY <2>1, <2>3 DEF EntryInv, Disjoint, Entries
  <2>5. \A e, f \in Q : rid'[e] = rid'[f] => e = f
    <3>1. rid'[r] = next_id[x] /\ \A e \in waiting[x] : rid'[e] = rid[e]
      BY <1>0, <2>1, <2>2, <2>3 DEF TypeOK, Entries
    <3>2. \A e \in waiting[x] : rid[e] < next_id[x] /\ rid[e] \in Nat
      BY <1>0, <2>1 DEF EntryInv, IdsDrawn, Entries, TypeOK
    <3>3. \A e, f \in waiting[x] : rid[e] = rid[f] => e = f
      BY <2>1 DEF EntryInv, IdsDistinct, Entries
    <3>4. QED
      BY <2>1, <3>1, <3>2, <3>3
  <2> HIDE DEF x, Q
  <2>6. QED
    BY <1>0, <2>1, <2>2, <2>4, <2>5, DispatchIsSlotStep
<1>4. ASSUME NEW r \in Requests, RemoveAndDispatch(r), rid' = rid
      PROVE  \A d \in Deployments : SlotStep(d)
  <2> DEFINE x == ask[r].dep
             Q == waiting[x] \ Found(r)
             I == inflight[x] \ Found(r)
             ch == DropSenders(Found(r) \cap waiting[x])
  <2>1. CASE Found(r) = {}
    BY <1>2, <1>4, <2>1 DEF RemoveAndDispatch
  <2>2. CASE Found(r) # {}
    <3>1. x \in Deployments /\ Q \in SUBSET Requests /\ I \in SUBSET Requests /\ I \subseteq inflight[x]
      BY <1>0, FoundType
    <3>2. Q \cap I = {}
      BY <3>1 DEF EntryInv, Disjoint
    <3>3. \A e, f \in Q : rid'[e] = rid'[f] => e = f
      BY <1>4, <3>1 DEF EntryInv, IdsDistinct, Entries
    <3>4. Dispatch(x, rid', Q, I, ch)
      BY <1>4, <2>2 DEF RemoveAndDispatch
    <3> HIDE DEF x, Q, I, ch
    <3>5. QED
      BY <1>0, <3>1, <3>2, <3>3, <3>4, DispatchIsSlotStep
  <2>3. QED
    BY <2>1, <2>2
<1>5. ASSUME NEW r \in Requests, TimeoutLookup(r) PROVE \A d \in Deployments : SlotStep(d)
  <2>1. inflight' = inflight /\ \A d \in Deployments : waiting'[d] \subseteq waiting[d]
    BY <1>0, <1>5 DEF TimeoutLookup, TypeOK
  <2>2. QED
    BY <2>1 DEF SlotStep
<1>6. ASSUME NEW x \in Deployments, DropSlot(x) PROVE \A d \in Deployments : SlotStep(d)
  <2>1. /\ waiting'[x] = {} /\ inflight'[x] = {}
        /\ \A d \in Deployments : d # x => waiting'[d] = waiting[d] /\ inflight'[d] = inflight[d]
    BY <1>0, <1>6 DEF DropSlot, TypeOK
  <2>2. QED
    BY <2>1 DEF SlotStep
<1>7. ASSUME NEW x \in Deployments, PeriodicDispatch(x) PROVE \A d \in Deployments : SlotStep(d)
  <2>1. /\ waiting[x] \in SUBSET Requests /\ inflight[x] \in SUBSET Requests
        /\ waiting[x] \cap inflight[x] = {}
    BY <1>0 DEF TypeOK, EntryInv, Disjoint
  <2>2. Dispatch(x, rid', waiting[x], inflight[x], chan)
    BY <1>7 DEF PeriodicDispatch
  <2>3. \A e, f \in waiting[x] : rid'[e] = rid'[f] => e = f
    BY <1>7 DEF PeriodicDispatch, EntryInv, IdsDistinct, Entries
  <2>4. QED
    BY <1>0, <2>1, <2>2, <2>3, DispatchIsSlotStep
<1>8. ASSUME NEW r \in Requests, Task(r) PROVE \A d \in Deployments : SlotStep(d)
  <2>1. CASE \/ AcquireNoSlot(r) \/ AcquireReject(r) \/ IndexPush(r) \/ Granted(r) \/ SenderGone(r)
             \/ TimerFires(r) \/ Cancel(r) \/ FinishPassthrough(r) \/ Unref(r) \/ Reap(r)
    <3>1. UNCHANGED <<waiting, inflight>>
      BY <2>1 DEF AcquireNoSlot, AcquireReject, IndexPush, Granted, SenderGone, TimerFires, Cancel,
                  FinishPassthrough, Unref, Reap, slotVars
    <3>2. QED
      BY <1>2, <3>1
  <2>2. CASE CancelCleanup(r) \/ Release(r)
    BY <1>4, <2>2 DEF CancelCleanup, Release
  <2>3. QED
    BY <1>3, <1>5, <1>8, <2>1, <2>2 DEF Task
<1>9. ASSUME NEW k \in Keys, Status(k) PROVE \A d \in Deployments : SlotStep(d)
  <2>1. UNCHANGED <<waiting, inflight>>
    BY <1>9 DEF Status, StatusBegin, StatusLookup, StatusClean, StatusReap, slotVars
  <2>2. QED
    BY <1>2, <2>1
<1>10. ASSUME NEW d \in Deployments, NEW c \in Configs, EnsureSlot(d, c)
       PROVE  \A x \in Deployments : SlotStep(x)
  BY <1>2, <1>6, <1>10 DEF EnsureSlot
<1>11. ASSUME NEW d \in Removable, RetainSlots(d) PROVE \A x \in Deployments : SlotStep(x)
  BY <1>6, <1>11, ConstantsAssumption DEF RetainSlots
<1>12. CASE UNCHANGED vars
  BY <1>2, <1>12 DEF vars, slotVars
<1>13. QED
  BY <1>1, <1>7, <1>8, <1>9, <1>10, <1>11, <1>12 DEF Next

\* What is in flight after a dispatch that granted something is within the limits.
LEMMA DispatchedWithinLimits ==
    ASSUME TypeOK, rid' \in [Requests -> Nat], NEW d \in Deployments, NEW Q, NEW I, NEW ch, NEW S,
           Dispatched(d, Q, I, ch, S), Open(ch, S) # {}, ask' = ask
    PROVE  /\ limits[d].max_inflight > 0 => Cardinality(inflight'[d]) <= limits[d].max_inflight
           /\ limits[d].max_context > 0 => UsedContext(inflight'[d]) <= limits[d].max_context
<1> DEFINE O == Open(ch, S)
<1>1. O \subseteq S /\ S \subseteq Q /\ Q \subseteq Requests /\ I \subseteq Requests /\ Q \cap I = {}
  BY DEF Open, Dispatched
<1>2. PICK n \in O : \A e \in O : e # n => Before(rid', e, n)
  <2>1. \A e, f \in O : rid'[e] = rid'[f] => e = f
    BY <1>1 DEF Dispatched
  <2> HIDE DEF O
  <2>2. QED
    BY <1>1, <2>1, LastOne DEF O
<1> DEFINE A == I \cup {e \in O : Before(rid', e, n)}
<1>3. Fits(limits[d], A, n)
  BY <1>1, <1>2 DEF Dispatched, SentSet
<1>4. n \in Requests \ A /\ A \in SUBSET Requests /\ inflight'[d] = A \cup {n}
  BY <1>1, <1>2, BeforeOrders DEF Dispatched
<1> HIDE DEF A
<1>5. /\ UsedContext(A \cup {n}) = UsedContext(A) + ask[n].ctx
      /\ Cardinality(A \cup {n}) = Cardinality(A) + 1
      /\ UsedContext(A) \in Nat /\ Cardinality(A) \in Nat /\ ask[n].ctx \in Nat
  BY <1>4, ContextAdds
<1>6. limits[d].max_inflight \in Nat /\ limits[d].max_context \in Nat
  BY DEF TypeOK, Limit
<1>7. QED
  BY <1>3, <1>4, <1>5, <1>6 DEF Fits

\* No request that a dispatch leaves waiting fits.
LEMMA DispatchedLeavesNoneThatFits ==
    ASSUME TypeOK, NEW d \in Deployments, NEW Q, NEW I, NEW ch, NEW S,
           Dispatched(d, Q, I, ch, S), NEW r \in waiting'[d]
    PROVE  ~Fits(limits[d], inflight'[d], r)
<1>1. r \in Q /\ r \notin S /\ r \in Requests
  BY DEF Dispatched
<1> DEFINE A == I \cup {e \in Open(ch, S) : Before(rid', e, r)}
<1>2. ~Fits(limits[d], A, r)
  BY <1>1 DEF Dispatched, SentSet
<1>3. A \subseteq inflight'[d] /\ inflight'[d] \subseteq Requests
  BY DEF Dispatched, Open
<1>4. limits[d] \in Limit
  BY DEF TypeOK
<1> HIDE DEF A
<1>5. QED
  BY <1>1, <1>2, <1>3, <1>4, FitsBesideLess

\* Limits are respected, whoever dispatches and however often the limits
\* change: whenever dispatch() makes a request in-flight, those in flight
\* afterwards are within max_inflight and max_context.
THEOREM GrantsWithinCapacity == Spec => CapacityRespected
<1>1. EntryInv /\ EntryInv' /\ [Next]_vars =>
        [\A d \in Deployments : Started(d) # {} =>
            /\ limits[d].max_inflight > 0 => Cardinality(inflight'[d]) <= limits[d].max_inflight
            /\ limits[d].max_context > 0 => UsedContext(inflight'[d]) <= limits[d].max_context]_vars
  <2> SUFFICES ASSUME EntryInv, EntryInv', [Next]_vars, NEW d \in Deployments, Started(d) # {}
               PROVE  /\ limits[d].max_inflight > 0 => Cardinality(inflight'[d]) <= limits[d].max_inflight
                      /\ limits[d].max_context > 0 => UsedContext(inflight'[d]) <= limits[d].max_context
    OBVIOUS
  <2>1. TypeOK /\ rid' \in [Requests -> Nat]
    BY DEF EntryInv, TypeOK
  <2>2. ask' = ask /\ SlotStep(d)
    BY EveryStepIsSlotStep
  <2>3. PICK Q, I, ch, S : Dispatched(d, Q, I, ch, S)
    BY <2>2 DEF SlotStep, Started
  <2>4. Open(ch, S) # {}
    BY <2>3 DEF Dispatched, Started
  <2>5. QED
    BY <2>1, <2>2, <2>3, <2>4, DispatchedWithinLimits
<1>2. QED
  BY <1>1, EntryInvariant, PTL DEF Spec, CapacityRespected

\* No lost wake-up: a step leaves a request waiting that fits, where there was
\* none, only by changing the limits; every release, timeout, disconnect and
\* grant that nobody received passes the freed capacity on.
THEOREM NoLostWakeup == Spec => WorkConserving
<1>1. EntryInv /\ [Next]_vars =>
        [\A d \in Deployments : Starved(d)' /\ ~Starved(d) => limits'[d] # limits[d]]_vars
  <2> SUFFICES ASSUME EntryInv, [Next]_vars, NEW d \in Deployments, Starved(d)', limits'[d] = limits[d]
               PROVE  Starved(d)
    OBVIOUS
  <2>1. TypeOK
    BY DEF EntryInv
  <2>2. ask' = ask /\ SlotStep(d)
    BY EveryStepIsSlotStep
  <2>3. PICK r \in waiting'[d] : Fits(limits[d], inflight'[d], r)
    BY <2>2 DEF Starved, Fits, UsedContext
  <2>4. ASSUME NEW Q, NEW I, NEW ch, NEW S, Dispatched(d, Q, I, ch, S) PROVE FALSE
    BY <2>1, <2>3, <2>4, DispatchedLeavesNoneThatFits
  <2>5. waiting'[d] \subseteq waiting[d] /\ inflight'[d] = inflight[d]
    BY <2>2, <2>3, <2>4 DEF SlotStep
  <2>6. QED
    BY <2>3, <2>5 DEF Starved
<1>2. QED
  BY <1>1, EntryInvariant, PTL DEF Spec, WorkConserving

\* Priority: a request that is granted never takes a place in which a waiting
\* request with precedence would have fitted.
THEOREM PriorityIsRespected == Spec => PriorityRespected
<1>1. EntryInv /\ EntryInv' /\ [Next]_vars =>
        [\A d \in Deployments : \A n \in Started(d), v \in waiting'[d] :
          \/ ask[v].vip /\ ~ask[n].vip
          \/ ask[v].vip = ask[n].vip /\ rid'[v] < rid'[n]
          => ~Fits(limits[d], inflight'[d] \ {n}, v)]_vars
  <2> SUFFICES ASSUME EntryInv, EntryInv', [Next]_vars, NEW d \in Deployments,
                      NEW n \in Started(d), NEW v \in waiting'[d], Before(rid', v, n)
               PROVE  ~Fits(limits[d], inflight'[d] \ {n}, v)
    BY DEF Before
  <2>1. TypeOK /\ rid' \in [Requests -> Nat]
    BY DEF EntryInv, TypeOK
  <2>2. SlotStep(d)
    BY EveryStepIsSlotStep
  <2>3. PICK Q, I, ch, S : Dispatched(d, Q, I, ch, S)
    BY <2>2 DEF SlotStep, Started
  <2>4. /\ v \in Q /\ v \notin S /\ v \in Requests /\ n \in Open(ch, S) /\ n \in Q /\ n \in Requests
        /\ n \notin I
    BY <2>3 DEF Dispatched, Started, Open
  <2> DEFINE A == I \cup {e \in Open(ch, S) : Before(rid', e, v)}
  <2>5. ~Fits(limits[d], A, v)
    BY <2>3, <2>4 DEF Dispatched, SentSet
  <2>6. ~Before(rid', n, v)
    BY <2>1, <2>4, BeforeOrders
  <2>7. A \subseteq inflight'[d] \ {n} /\ inflight'[d] \ {n} \subseteq Requests
    BY <2>3, <2>4, <2>6 DEF Dispatched, Open
  <2>8. limits[d] \in Limit
    BY <2>1 DEF TypeOK
  <2> HIDE DEF A
  <2>9. QED
    BY <2>1, <2>4, <2>5, <2>7, <2>8, FitsBesideLess
<1>2. QED
  BY <1>1, EntryInvariant, PTL DEF Spec, PriorityRespected
-----------------------------------------------------------------------------
(***************************************************************************)
(* The queue and the reverse index while slots are only resized.           *)
(***************************************************************************)

\* The channel of q agrees with the queue that holds its entry.
InPlace(q) ==
    \/ chan[q] = "closed"
    \/ chan[q] = "empty" /\ q \in waiting[ask[q].dep]
    \/ chan[q] = "sent" /\ q \in inflight[ask[q].dep]

\* A step that is not q's own leaves q where it was.
Undisturbed(q) ==
    /\ pc'[q] = pc[q]
    /\ rid'[q] = rid[q]
    /\ Ticketed(q)' = Ticketed(q)
    /\ InPlace(q) => InPlace(q)'

\* dispatch() keeps an entry that is in place in place: a grant moves the entry
\* and fills the channel in one critical section.
LEMMA DispatchInPlace ==
    ASSUME TypeOK, ask' = ask, NEW d \in Deployments, NEW id,
           NEW Q \in SUBSET Requests, NEW I \in SUBSET Requests,
           NEW ch \in [Requests -> Channel], Dispatch(d, id, Q, I, ch), NEW q \in Requests
    PROVE  /\ Ticketed(q)' <=> ch[q] # "none"
           /\ ask[q].dep # d /\ q \notin Q /\ ch[q] = chan[q] /\ InPlace(q) => InPlace(q)'
           /\ /\ ask[q].dep = d
              /\ \/ ch[q] = "closed"
                 \/ ch[q] = "empty" /\ q \in Q
                 \/ ch[q] = "sent" /\ q \in I
              => InPlace(q)'
<1>1. PICK S \in SUBSET Q :
         /\ waiting' = [waiting EXCEPT ![d] = Q \ S]
         /\ inflight' = [inflight EXCEPT ![d] = I \cup Open(ch, S)]
         /\ chan' = [r \in Requests |-> IF r \in Open(ch, S) THEN "sent" ELSE ch[r]]
  BY DEF Dispatch
<1>2. waiting'[d] = Q \ S /\ inflight'[d] = I \cup Open(ch, S)
  BY <1>1 DEF TypeOK
<1>3. ask[q].dep \in Deployments
  BY DEF TypeOK, Ask
<1>4. ask[q].dep # d => /\ waiting'[ask[q].dep] = waiting[ask[q].dep]
                        /\ inflight'[ask[q].dep] = inflight[ask[q].dep]
  BY <1>1, <1>3 DEF TypeOK
<1>5. chan'[q] = IF q \in Open(ch, S) THEN "sent" ELSE ch[q]
  BY <1>1
<1>6. Ticketed(q)' <=> ch[q] # "none"
  BY <1>5 DEF Ticketed, Open
<1>7. ASSUME ask[q].dep # d, q \notin Q, ch[q] = chan[q], InPlace(q) PROVE InPlace(q)'
  <2>1. chan'[q] = chan[q]
    BY <1>5, <1>7 DEF Open
  <2> QED
    BY <1>4, <1>7, <2>1 DEF InPlace
<1>8. ASSUME ask[q].dep = d,
             \/ ch[q] = "closed"
             \/ ch[q] = "empty" /\ q \in Q
             \/ ch[q] = "sent" /\ q \in I
      PROVE  InPlace(q)'
  BY <1>2, <1>5, <1>8 DEF InPlace, Open
<1> QED
  BY <1>6, <1>7, <1>8
\* An entry is that of a live request, which has drawn its id.
LEMMA EntriesAreTicketed ==
    ASSUME TicketInv, NEW d \in Deployments, NEW e \in Entries(d)
    PROVE  e \in Requests /\ ask[e].dep = d /\ Ticketed(e)
BY DEF TicketInv, EntryInv, TypeOK, Entries, NoLeakedEntry, TicketsHeld

\* A lookup by the id of a request that drew one finds its own entry or none.
LEMMA FoundOwn ==
    ASSUME TicketInv, NEW r \in Requests, Ticketed(r)
    PROVE  Found(r) \subseteq {r}
<1>1. ask[r].dep \in Deployments
  BY DEF TicketInv, EntryInv, TypeOK, Ask
<1>2. ASSUME NEW e \in Found(r) PROVE e = r
  <2>1. e \in Entries(ask[r].dep) /\ rid[e] = rid[r]
    BY <1>2 DEF Found
  <2>2. e \in Requests /\ ask[e].dep = ask[r].dep /\ Ticketed(e)
    BY <1>1, <2>1, EntriesAreTicketed
  <2> QED
    BY <2>1, <2>2 DEF TicketInv, TicketsUnique
<1> QED
  BY <1>2

\* A step of r that leaves the other requests where they were keeps the tickets
\* and the queue, if r is in place as long as it is live.
LEMMA OthersUndisturbed ==
    ASSUME TicketInv, UNCHANGED <<ask, limits, next_id, rid>>, NEW r \in Requests,
           \A q \in Requests \ {r} : Undisturbed(q),
           Ticketed(r)' = Ticketed(r),
           pc'[r] = "idle" => ~Ticketed(r),
           pc'[r] \in Live \cup {"unref"} => Ticketed(r),
           pc'[r] \in Live => InPlace(r)'
    PROVE  TicketsHeld' /\ TicketsDrawn' /\ TicketsUnique' /\ QueueIsTruth'
<1>1. \A q \in Requests : Ticketed(q)' = Ticketed(q)
  BY DEF Undisturbed
<1>2. TicketsHeld'
  BY <1>1 DEF TicketInv, TicketsHeld, Undisturbed
<1>3. TicketsDrawn'
  BY <1>1 DEF TicketInv, TicketsDrawn
<1>4. TicketsUnique'
  BY <1>1 DEF TicketInv, TicketsUnique
<1>5. ASSUME NEW q \in Requests, pc'[q] \in Live PROVE InPlace(q)'
  <2>1. CASE q # r
    <3>1. pc[q] \in Live
      BY <1>5, <2>1 DEF Undisturbed
    <3>2. InPlace(q)
      BY <3>1 DEF TicketInv, QueueIsTruth, InPlace
    <3> QED
      BY <2>1, <3>2 DEF Undisturbed
  <2> QED
    BY <1>5, <2>1
<1>6. QueueIsTruth'
  BY <1>5 DEF QueueIsTruth, InPlace
<1> QED
  BY <1>2, <1>3, <1>4, <1>6

\* The task of r is the owner of a ref in these states.
Referring == (Live \ {"enqueued"}) \cup {"unref"}

\* A step that adds no ref keeps the index live if the request that moves stays
\* an owner or takes its ref along.
LEMMA RefsUndisturbed ==
    ASSUME TicketInv, ask' = ask, NEW r \in Requests,
           \A q \in Requests \ {r} : pc'[q] = pc[q] /\ rid'[q] = rid[q],
           \A k \in Keys : refs'[k] \subseteq refs[k],
           pc[r] \in Referring => /\ rid'[r] = rid[r]
                                  /\ \/ pc'[r] \in Referring
                                     \/ /\ ask[r].key \in Keys
                                        => <<ask[r].dep, rid[r]>> \notin refs'[ask[r].key]
    PROVE  RefsAreLive'
<1> SUFFICES ASSUME NEW k \in Keys, NEW ref \in refs'[k]
             PROVE  \E q \in Requests : /\ ask[q].key = k
                                        /\ ref = <<ask[q].dep, rid'[q]>>
                                        /\ pc'[q] \in Referring
  BY DEF RefsAreLive, Referring
<1>1. PICK q \in Requests : /\ ask[q].key = k
                            /\ ref = <<ask[q].dep, rid[q]>>
                            /\ pc[q] \in Referring
  BY DEF TicketInv, RefsAreLive, Referring
<1>2. CASE q # r
  BY <1>1, <1>2
<1>3. CASE q = r
  BY <1>1, <1>3
<1> QED
  BY <1>2, <1>3
\* A step that touches neither the queues nor q leaves q undisturbed.
LEMMA UntouchedIsUndisturbed ==
    ASSUME UNCHANGED <<ask, waiting, inflight, rid>>, NEW q, pc'[q] = pc[q], chan'[q] = chan[q]
    PROVE  Undisturbed(q)
BY DEF Undisturbed, Ticketed, InPlace

\* The entries that r's removal and the dispatch after it leave are in place.
LEMMA RemovalUndisturbed ==
    ASSUME TicketInv, NEW r \in Requests, Ticketed(r), RemoveAndDispatch(r),
           UNCHANGED <<ask, rid>>, NEW q \in Requests
    PROVE  /\ Ticketed(q)' = Ticketed(q)
           /\ q # r /\ pc'[q] = pc[q] => Undisturbed(q)
<1> DEFINE d == ask[r].dep
           E == Found(r)
           Q == waiting[d] \ E
           I == inflight[d] \ E
           ch == DropSenders(E \cap waiting[d])
<1>1. TypeOK
  BY DEF TicketInv, EntryInv
<1>2. d \in Deployments /\ Q \in SUBSET Requests /\ I \in SUBSET Requests /\ ch \in [Requests -> Channel]
  BY <1>1, FoundType, ChannelOps
<1>3. E \subseteq {r}
  BY FoundOwn
<1>4. CASE E = {}
  BY <1>4 DEF RemoveAndDispatch, Undisturbed, InPlace, Ticketed
<1>5. CASE E # {}
  <2>1. Dispatch(d, rid, Q, I, ch)
    BY <1>5 DEF RemoveAndDispatch
  <2>2. /\ q # r => ch[q] = chan[q]
        /\ ch[q] # "none" <=> chan[q] # "none"
    BY <1>3 DEF DropSenders
  <2>3. q \in Q => ask[q].dep = d
    BY <1>2, EntriesAreTicketed DEF Entries
  <2>4. q # r => (q \in waiting[d] => q \in Q) /\ (q \in inflight[d] => q \in I)
    BY <1>3
  <2> HIDE DEF d, E, Q, I, ch
  <2>5. /\ Ticketed(q)' <=> ch[q] # "none"
        /\ ask[q].dep # d /\ q \notin Q /\ ch[q] = chan[q] /\ InPlace(q) => InPlace(q)'
        /\ /\ ask[q].dep = d
           /\ \/ ch[q] = "closed"
              \/ ch[q] = "empty" /\ q \in Q
              \/ ch[q] = "sent" /\ q \in I
           => InPlace(q)'
    BY <1>1, <1>2, <2>1, DispatchInPlace
  <2>6. Ticketed(q)' = Ticketed(q)
    BY <2>2, <2>5 DEF Ticketed
  <2>7. ASSUME q # r, InPlace(q) PROVE InPlace(q)'
    BY <2>2, <2>3, <2>4, <2>5, <2>7 DEF InPlace
  <2> QED
    BY <2>6, <2>7 DEF Undisturbed
<1> QED
  BY <1>4, <1>5

\* Every operation keeps the strengthened invariant while slots are only resized.
LEMMA TicketStep ==
    ASSUME OnlyResized, TicketInv, [Next]_vars
    PROVE  TicketInv'
<1>a. TypeOK /\ TypeOK' /\ EntryInv'
  BY TypeStep, EntryStep DEF TicketInv, EntryInv
<1>b. ASSUME NEW q \in Requests PROVE pc[q] \in Live => InPlace(q)
  BY DEF TicketInv, QueueIsTruth, InPlace
<1>c. \A q \in Requests : /\ pc[q] = "idle" => ~Ticketed(q)
                          /\ pc[q] \in Live \cup {"unref"} => Ticketed(q)
  BY DEF TicketInv, TicketsHeld
<1>d. ASSUME UNCHANGED <<ask, slotVars, rid>>, NEW r \in Requests, NEW p, NEW v,
             pc' = [pc EXCEPT ![r] = p], chan' = [chan EXCEPT ![r] = v],
             v # "none" <=> Ticketed(r),
             p # "idle", p \in Live \cup {"unref"} => Ticketed(r), p \in Live => InPlace(r)'
      PROVE  TicketsHeld' /\ TicketsDrawn' /\ TicketsUnique' /\ QueueIsTruth'
  <2>1. \A q \in Requests \ {r} : pc'[q] = pc[q] /\ chan'[q] = chan[q]
    BY <1>a, <1>d DEF TypeOK
  <2>2. pc'[r] = p /\ chan'[r] = v
    BY <1>a, <1>d DEF TypeOK
  <2>3. \A q \in Requests \ {r} : Undisturbed(q)
    BY <1>d, <2>1, UntouchedIsUndisturbed DEF slotVars
  <2>4. Ticketed(r)' = Ticketed(r)
    BY <1>d, <2>2 DEF Ticketed
  <2> QED
    BY <1>d, <2>2, <2>3, <2>4, OthersUndisturbed DEF slotVars
<1>e. ASSUME ask' = ask, NEW r \in Requests, NEW p, pc' = [pc EXCEPT ![r] = p],
             \A q \in Requests : rid'[q] = rid[q], refs' = refs,
             pc[r] \in Referring => p \in Referring
      PROVE  RefsAreLive'
  <2>1. \A q \in Requests \ {r} : pc'[q] = pc[q] /\ rid'[q] = rid[q]
    BY <1>a, <1>e DEF TypeOK
  <2>2. pc'[r] = p
    BY <1>a, <1>e DEF TypeOK
  <2> QED
    BY <1>e, <2>1, <2>2, RefsUndisturbed
<1>f. ASSUME NEW r \in Requests PROVE chan = [chan EXCEPT ![r] = chan[r]]
  BY <1>a DEF TypeOK
<1>g. ASSUME TicketsHeld', TicketsDrawn', TicketsUnique', QueueIsTruth', RefsAreLive' PROVE TicketInv'
  BY <1>a, <1>g DEF TicketInv
<1>1. ASSUME NEW r \in Requests, AcquireNoSlot(r) PROVE TicketInv'
  <2>1. /\ UNCHANGED <<ask, slotVars, rid, refs>> /\ chan' = [chan EXCEPT ![r] = chan[r]]
        /\ pc' = [pc EXCEPT ![r] = "passthrough"] /\ pc[r] = "idle"
    BY <1>1, <1>f DEF AcquireNoSlot, indexVars
  <2>2. TicketsHeld' /\ TicketsDrawn' /\ TicketsUnique' /\ QueueIsTruth'
    BY <1>d, <2>1 DEF Live, Ticketed
  <2> QED
    BY <1>e, <1>g, <2>1, <2>2 DEF Referring, Live
<1>2. ASSUME NEW r \in Requests, AcquireReject(r) PROVE TicketInv'
  <2>1. /\ UNCHANGED <<ask, slotVars, rid, refs>> /\ chan' = [chan EXCEPT ![r] = chan[r]]
        /\ pc' = [pc EXCEPT ![r] = "rejected"] /\ pc[r] = "idle"
    BY <1>2, <1>f DEF AcquireReject, indexVars
  <2>2. TicketsHeld' /\ TicketsDrawn' /\ TicketsUnique' /\ QueueIsTruth'
    BY <1>d, <2>1 DEF Live, Ticketed
  <2> QED
    BY <1>e, <1>g, <2>1, <2>2 DEF Referring, Live
<1>4. ASSUME NEW r \in Requests, IndexPush(r) PROVE TicketInv'
  <2>1. /\ UNCHANGED <<ask, slotVars, rid, chan>> /\ chan' = [chan EXCEPT ![r] = chan[r]]
        /\ pc' = [pc EXCEPT ![r] = "waiting"] /\ pc[r] = "enqueued"
    BY <1>4, <1>f DEF IndexPush
  <2>2. Ticketed(r) /\ InPlace(r)
    BY <1>b, <1>c, <2>1 DEF Live
  <2>3. InPlace(r)'
    BY <2>1, <2>2 DEF InPlace, slotVars
  <2>4. TicketsHeld' /\ TicketsDrawn' /\ TicketsUnique' /\ QueueIsTruth'
    BY <1>d, <2>1, <2>2, <2>3 DEF Live, Ticketed
  <2>5. RefsAreLive'
    <3> SUFFICES ASSUME NEW k \in Keys, NEW ref \in refs'[k]
                 PROVE  \E q \in Requests : /\ ask[q].key = k
                                            /\ ref = <<ask[q].dep, rid[q]>>
                                            /\ pc'[q] \in Referring
      BY <2>1 DEF RefsAreLive, Referring
    <3>1. CASE ref \in refs[k]
      <4>1. PICK q \in Requests : /\ ask[q].key = k
                                  /\ ref = <<ask[q].dep, rid[q]>>
                                  /\ pc[q] \in Referring
        BY <3>1 DEF TicketInv, RefsAreLive, Referring
      <4>2. pc'[q] \in Referring
        BY <1>a, <2>1, <4>1 DEF TypeOK, Referring, Live
      <4> QED
        BY <4>1, <4>2
    <3>2. CASE ref \notin refs[k]
      <4>1. ask[r].key = k /\ ref = <<ask[r].dep, rid[r]>>
        BY <1>4, <1>a, <3>2 DEF IndexPush, TypeOK, indexVars
      <4>2. pc'[r] \in Referring
        BY <1>a, <2>1 DEF TypeOK, Referring, Live
      <4> QED
        BY <4>1, <4>2
    <3> QED
      BY <3>1, <3>2
  <2> QED
    BY <1>g, <2>4, <2>5
<1>5. ASSUME NEW r \in Requests, Granted(r) PROVE TicketInv'
  <2>1. /\ UNCHANGED <<ask, slotVars, rid, refs, chan>> /\ chan' = [chan EXCEPT ![r] = chan[r]]
        /\ pc' = [pc EXCEPT ![r] = "holding"] /\ pc[r] = "waiting"
    BY <1>5, <1>f DEF Granted, indexVars
  <2>2. Ticketed(r) /\ InPlace(r)
    BY <1>b, <1>c, <2>1 DEF Live
  <2>3. InPlace(r)'
    BY <2>1, <2>2 DEF InPlace, slotVars
  <2>4. TicketsHeld' /\ TicketsDrawn' /\ TicketsUnique' /\ QueueIsTruth'
    BY <1>d, <2>1, <2>2, <2>3 DEF Live, Ticketed
  <2> QED
    BY <1>e, <1>g, <2>1, <2>4 DEF Referring, Live
<1>6. ASSUME NEW r \in Requests, SenderGone(r) PROVE TicketInv'
  <2>1. pc[r] = "waiting" /\ chan[r] = "dropped"
    BY <1>6 DEF SenderGone
  <2>2. InPlace(r)
    BY <1>b, <2>1 DEF Live
  <2> QED
    BY <2>1, <2>2 DEF InPlace
<1>7. ASSUME NEW r \in Requests, NEW p \in {"expired", "cancelled"}, pc[r] = "waiting",
             pc' = [pc EXCEPT ![r] = p], chan' = CloseReceiver(r),
             UNCHANGED <<ask, slotVars, rid, refs>>
      PROVE  TicketInv'
  <2> DEFINE v == IF chan[r] = "empty" THEN "closed" ELSE chan[r]
  <2>1. chan' = [chan EXCEPT ![r] = v] /\ chan'[r] = v
    BY <1>7, <1>a DEF CloseReceiver, TypeOK
  <2>2. Ticketed(r) /\ InPlace(r)
    BY <1>b, <1>c, <1>7 DEF Live
  <2>3. InPlace(r)'
    BY <1>7, <2>1, <2>2 DEF InPlace, slotVars
  <2>4. v # "none" <=> Ticketed(r)
    BY DEF Ticketed
  <2> HIDE DEF v
  <2>5. TicketsHeld' /\ TicketsDrawn' /\ TicketsUnique' /\ QueueIsTruth'
    BY <1>d, <1>7, <2>1, <2>2, <2>3, <2>4 DEF Live
  <2> QED
    BY <1>e, <1>g, <1>7, <2>5 DEF Referring, Live
<1>8. ASSUME NEW r \in Requests, TimeoutLookup(r) PROVE TicketInv'
  <2> DEFINE d == ask[r].dep
             gone == Found(r) \cap waiting[d]
             p == IF limits[d] = NoSlot \/ gone # {} THEN "unref" ELSE "holding"
  <2>1. /\ UNCHANGED <<ask, limits, next_id, inflight, rid, refs>>
        /\ waiting' = [waiting EXCEPT ![d] = @ \ gone]
        /\ chan' = DropSenders(gone)
        /\ pc' = [pc EXCEPT ![r] = p] /\ pc[r] = "expired"
    BY <1>8 DEF TimeoutLookup, indexVars
  <2>2. Ticketed(r) /\ InPlace(r) /\ gone \subseteq {r}
    BY <1>b, <1>c, <2>1, FoundOwn DEF Live
  <2>3. d \in Deployments
    BY <1>a, FoundType
  <2>4. p \in {"unref", "holding"}
    OBVIOUS
  <2>5. \A q \in Requests : /\ chan'[q] = "none" <=> chan[q] = "none"
                            /\ q \notin gone => chan'[q] = chan[q]
    BY <2>1 DEF DropSenders
  <2>6. \A q \in Requests : q \notin gone =>
           (q \in waiting[ask[q].dep] => q \in waiting'[ask[q].dep])
    <3>1. \A q \in Requests : ask[q].dep \in Deployments
      BY <1>a, FoundType
    <3> QED
      BY <1>a, <2>1, <2>3, <3>1 DEF TypeOK
  <2>7. gone # {} => p = "unref"
    OBVIOUS
  <2> HIDE DEF gone, p, d
  <2>8. pc'[r] = p /\ \A q \in Requests \ {r} : pc'[q] = pc[q]
    BY <1>a, <2>1 DEF TypeOK
  <2>9. \A q \in Requests : q \notin gone /\ InPlace(q) => InPlace(q)'
    BY <2>1, <2>5, <2>6 DEF InPlace
  <2>10. \A q \in Requests \ {r} : Undisturbed(q)
    BY <2>1, <2>2, <2>5, <2>8, <2>9 DEF Undisturbed, Ticketed
  <2>11. p \in Live => InPlace(r)'
    BY <2>2, <2>7, <2>9 DEF Live
  <2>12. TicketsHeld' /\ TicketsDrawn' /\ TicketsUnique' /\ QueueIsTruth'
    <3>1. Ticketed(r)' = Ticketed(r)
      BY <2>5 DEF Ticketed
    <3> QED
      BY <2>1, <2>2, <2>4, <2>8, <2>10, <2>11, <3>1, OthersUndisturbed DEF Live
  <2> QED
    BY <1>e, <1>g, <2>1, <2>4, <2>12 DEF Referring, Live
<1>10. ASSUME NEW r \in Requests, pc[r] \in {"cancelled", "holding"}, RemoveAndDispatch(r),
              pc' = [pc EXCEPT ![r] = "unref"], UNCHANGED <<ask, limits, next_id, rid, refs>>
       PROVE  TicketInv'
  <2>1. Ticketed(r)
    BY <1>c, <1>10 DEF Live
  <2>2. pc'[r] = "unref" /\ \A q \in Requests \ {r} : pc'[q] = pc[q]
    BY <1>a, <1>10 DEF TypeOK
  <2>3. Ticketed(r)' = Ticketed(r) /\ \A q \in Requests \ {r} : Undisturbed(q)
    BY <1>10, <2>1, <2>2, RemovalUndisturbed
  <2>4. TicketsHeld' /\ TicketsDrawn' /\ TicketsUnique' /\ QueueIsTruth'
    BY <1>10, <2>1, <2>2, <2>3, OthersUndisturbed DEF Live
  <2> QED
    BY <1>e, <1>g, <1>10, <2>4 DEF Referring
<1>11. ASSUME NEW r \in Requests, CancelCleanup(r) \/ Release(r) PROVE TicketInv'
  <2>1. pc[r] \in {"cancelled", "holding"} /\ RemoveAndDispatch(r)
        /\ UNCHANGED <<ask, limits, next_id, rid, refs>>
    BY <1>11 DEF CancelCleanup, Release, indexVars
  <2>2. limits[ask[r].dep] # NoSlot
    BY <1>c, <2>1 DEF TicketInv, TicketsDrawn, Live
  <2>3. pc' = [pc EXCEPT ![r] = "unref"]
    BY <1>11, <2>2 DEF CancelCleanup, Release
  <2> QED
    BY <1>10, <2>1, <2>3
<1>12. ASSUME NEW r \in Requests, FinishPassthrough(r) PROVE TicketInv'
  <2>1. /\ UNCHANGED <<ask, slotVars, rid, refs>> /\ chan' = [chan EXCEPT ![r] = chan[r]]
        /\ pc' = [pc EXCEPT ![r] = "done"] /\ pc[r] = "passthrough"
    BY <1>12, <1>f DEF FinishPassthrough, indexVars
  <2>2. TicketsHeld' /\ TicketsDrawn' /\ TicketsUnique' /\ QueueIsTruth'
    BY <1>d, <2>1 DEF Live, Ticketed
  <2> QED
    BY <1>e, <1>g, <2>1, <2>2 DEF Referring, Live
<1>13. ASSUME NEW r \in Requests, Unref(r) PROVE TicketInv'
  <2>1. /\ UNCHANGED <<ask, slotVars, rid>> /\ chan' = [chan EXCEPT ![r] = chan[r]]
        /\ \E p \in {"done", "reaping"} : pc' = [pc EXCEPT ![r] = p]
    BY <1>13, <1>f DEF Unref
  <2>2. TicketsHeld' /\ TicketsDrawn' /\ TicketsUnique' /\ QueueIsTruth'
    BY <1>d, <2>1 DEF Live, Ticketed
  <2>3. \A q \in Requests \ {r} : pc'[q] = pc[q]
    BY <1>a, <2>1 DEF TypeOK
  <2>4. \A k \in Keys : refs'[k] \subseteq refs[k]
    <3>1. \/ refs' = refs
          \/ refs' = [refs EXCEPT ![ask[r].key] = @ \ {<<ask[r].dep, rid[r]>>}]
      BY <1>13 DEF Unref
    <3>2. refs \in [Keys -> SUBSET Ref]
      BY <1>a DEF TypeOK
    <3> QED
      BY <3>1, <3>2
  <2>5. ask[r].key \in Keys => <<ask[r].dep, rid[r]>> \notin refs'[ask[r].key]
    BY <1>a, <1>13, ConstantsAssumption DEF Unref, TypeOK
  <2>6. RefsAreLive'
    BY <2>1, <2>3, <2>4, <2>5, RefsUndisturbed
  <2> QED
    BY <1>g, <2>2, <2>6
<1>14. ASSUME NEW r \in Requests, Reap(r) PROVE TicketInv'
  <2>1. /\ UNCHANGED <<ask, slotVars, rid>> /\ chan' = [chan EXCEPT ![r] = chan[r]]
        /\ pc' = [pc EXCEPT ![r] = "done"] /\ pc[r] = "reaping"
    BY <1>14, <1>f DEF Reap
  <2>2. TicketsHeld' /\ TicketsDrawn' /\ TicketsUnique' /\ QueueIsTruth'
    BY <1>d, <2>1 DEF Live, Ticketed
  <2>3. \A q \in Requests \ {r} : pc'[q] = pc[q]
    BY <1>a, <2>1 DEF TypeOK
  <2>4. \A k \in Keys : refs'[k] \subseteq refs[k]
    BY <1>a, <1>14 DEF Reap, DropKey, TypeOK
  <2>5. RefsAreLive'
    BY <2>1, <2>3, <2>4, RefsUndisturbed DEF Referring, Live
  <2> QED
    BY <1>g, <2>2, <2>5
<1>15. ASSUME UNCHANGED <<ask, next_id, waiting, inflight, rid, chan, pc>>,
              \A d \in Deployments : limits[d] # NoSlot => limits'[d] # NoSlot,
              \A k \in Keys : refs'[k] \subseteq refs[k]
       PROVE  TicketInv'
  <2>1. \A q \in Requests : Ticketed(q)' = Ticketed(q) /\ ask[q].dep \in Deployments
    BY <1>15, <1>a, FoundType DEF Ticketed
  <2>2. TicketsHeld' /\ TicketsDrawn' /\ TicketsUnique' /\ QueueIsTruth'
    BY <1>15, <2>1 DEF TicketInv, TicketsHeld, TicketsDrawn, TicketsUnique, QueueIsTruth
  <2>3. RefsAreLive'
    BY <1>15 DEF TicketInv, RefsAreLive
  <2> QED
    BY <1>g, <2>2, <2>3
<1>16. ASSUME NEW k \in Keys, Status(k) PROVE TicketInv'
  <2>1. \A x \in Keys : refs'[x] \subseteq refs[x]
    BY <1>16, <1>a DEF Status, StatusBegin, StatusLookup, StatusClean, StatusReap, DropKey, TypeOK,
                       indexVars
  <2>2. UNCHANGED <<ask, limits, next_id, waiting, inflight, rid, chan, pc>>
    BY <1>16 DEF Status, StatusBegin, StatusLookup, StatusClean, StatusReap, slotVars
  <2> QED
    BY <1>15, <2>1, <2>2
<1>17. ASSUME NEW d \in Deployments, NEW c \in Configs, EnsureSlot(d, c) PROVE TicketInv'
  <2>1. c # NoSlot
    BY DEF OnlyResized
  <2>2. limits' = [limits EXCEPT ![d] = c]
        /\ UNCHANGED <<ask, next_id, waiting, inflight, rid, chan, pc, refs>>
    BY <1>17, <2>1 DEF EnsureSlot, indexVars
  <2>3. \A x \in Deployments : limits[x] # NoSlot => limits'[x] # NoSlot
    BY <1>a, <2>1, <2>2 DEF TypeOK
  <2> QED
    BY <1>15, <2>2, <2>3
<1>18. ASSUME NEW d \in Deployments, PeriodicDispatch(d) PROVE TicketInv'
  <2>1. /\ Dispatch(d, rid, waiting[d], inflight[d], chan)
        /\ UNCHANGED <<ask, limits, next_id, rid, pc, refs>>
    BY <1>18 DEF PeriodicDispatch, indexVars
  <2>2. waiting[d] \in SUBSET Requests /\ inflight[d] \in SUBSET Requests /\ chan \in [Requests -> Channel]
    BY <1>a DEF TypeOK
  <2>3. \A q \in waiting[d] : ask[q].dep = d
    BY EntriesAreTicketed DEF Entries
  <2>4. ASSUME NEW q \in Requests PROVE Ticketed(q)' = Ticketed(q) /\ (InPlace(q) => InPlace(q)')
    <3>1. /\ Ticketed(q)' <=> chan[q] # "none"
          /\ ask[q].dep # d /\ q \notin waiting[d] /\ InPlace(q) => InPlace(q)'
          /\ /\ ask[q].dep = d
             /\ \/ chan[q] = "closed"
                \/ chan[q] = "empty" /\ q \in waiting[d]
                \/ chan[q] = "sent" /\ q \in inflight[d]
             => InPlace(q)'
      BY <1>a, <2>1, <2>2, DispatchInPlace
    <3>2. InPlace(q) => InPlace(q)'
      BY <2>3, <3>1 DEF InPlace
    <3> QED
      BY <3>1, <3>2 DEF Ticketed
  <2>5. TicketsHeld' /\ TicketsDrawn' /\ TicketsUnique'
    BY <2>1, <2>4 DEF TicketInv, TicketsHeld, TicketsDrawn, TicketsUnique
  <2>6. QueueIsTruth'
    <3>1. \A q \in Requests : pc'[q] \in Live => InPlace(q)'
      BY <1>b, <2>1, <2>4
    <3> QED
      BY <3>1 DEF QueueIsTruth, InPlace
  <2>7. RefsAreLive'
    BY <2>1 DEF TicketInv, RefsAreLive
  <2> QED
    BY <1>g, <2>5, <2>6, <2>7
<1>3. ASSUME NEW r \in Requests, AcquireEnqueue(r) PROVE TicketInv'
  <2> DEFINE d == ask[r].dep
             Q == waiting[d] \cup {r}
             ch == [chan EXCEPT ![r] = "empty"]
  <2>1. /\ rid' = [rid EXCEPT ![r] = next_id[d]] /\ next_id' = [next_id EXCEPT ![d] = @ + 1]
        /\ Dispatch(d, rid', Q, inflight[d], ch)
        /\ pc' = [pc EXCEPT ![r] = "enqueued"] /\ pc[r] = "idle"
        /\ UNCHANGED <<ask, limits, refs>>
        /\ limits[d] # NoSlot
    BY <1>3 DEF AcquireEnqueue, indexVars
  <2>2. /\ d \in Deployments /\ Q \in SUBSET Requests /\ inflight[d] \in SUBSET Requests
        /\ ch \in [Requests -> Channel]
    BY <1>a, FoundType DEF TypeOK, Channel
  <2>3. /\ ch[r] = "empty" /\ rid'[r] = next_id[d] /\ pc'[r] = "enqueued"
        /\ \A q \in Requests \ {r} : ch[q] = chan[q] /\ rid'[q] = rid[q] /\ pc'[q] = pc[q]
        /\ next_id'[d] = next_id[d] + 1
        /\ \A x \in Deployments : x # d => next_id'[x] = next_id[x]
    BY <1>a, <2>1, <2>2 DEF TypeOK
  <2>4. \A q \in waiting[d] : ask[q].dep = d
    BY <2>2, EntriesAreTicketed DEF Entries
  <2>5. \A q \in Q : ask[q].dep = d
    BY <2>4
  <2>6. waiting[d] \subseteq Q /\ r \in Q
    OBVIOUS
  <2>7. d = ask[r].dep
    OBVIOUS
  <2> HIDE DEF Q, ch, d
  <2>8. ASSUME NEW q \in Requests
        PROVE  /\ Ticketed(q)' <=> ch[q] # "none"
               /\ q # r /\ InPlace(q) => InPlace(q)'
               /\ InPlace(r)'
    <3>1. ASSUME NEW s \in Requests
          PROVE  /\ Ticketed(s)' <=> ch[s] # "none"
                 /\ ask[s].dep # d /\ s \notin Q /\ ch[s] = chan[s] /\ InPlace(s) => InPlace(s)'
                 /\ /\ ask[s].dep = d
                    /\ \/ ch[s] = "closed"
                       \/ ch[s] = "empty" /\ s \in Q
                       \/ ch[s] = "sent" /\ s \in inflight[d]
                    => InPlace(s)'
      BY <1>a, <2>1, <2>2, DispatchInPlace
    <3>2. InPlace(r)'
      BY <2>3, <2>6, <2>7, <3>1
    <3>3. q # r /\ InPlace(q) => InPlace(q)'
      BY <2>3, <2>5, <2>6, <3>1 DEF InPlace
    <3> QED
      BY <3>1, <3>2, <3>3
  <2>9. Ticketed(r)' /\ \A q \in Requests \ {r} : Ticketed(q)' = Ticketed(q)
    BY <2>3, <2>8 DEF Ticketed
  <2>10. TicketsHeld'
    BY <2>3, <2>9 DEF TicketInv, TicketsHeld
  <2>11. TicketsDrawn'
    <3>1. \A x \in Deployments : next_id[x] \in Nat
      BY <1>a DEF TypeOK
    <3>2. \A q \in Requests : ask[q].dep \in Deployments /\ rid[q] \in Nat
      BY <1>a, FoundType DEF TypeOK
    <3>3. ASSUME NEW q \in Requests \ {r}, Ticketed(q)'
          PROVE  limits'[ask[q].dep] # NoSlot /\ rid'[q] < next_id'[ask[q].dep]
      <4>1. limits[ask[q].dep] # NoSlot /\ rid[q] < next_id[ask[q].dep]
        BY <2>9, <3>3 DEF TicketInv, TicketsDrawn
      <4> QED
        BY <2>1, <2>2, <2>3, <3>1, <3>2, <4>1
    <3>4. limits'[ask[r].dep] # NoSlot /\ rid'[r] < next_id'[ask[r].dep]
      BY <2>1, <2>2, <2>3, <2>7, <3>1
    <3> QED
      BY <2>1, <3>3, <3>4 DEF TicketsDrawn
  <2>12. TicketsUnique'
    <3>1. \A q \in Requests \ {r} : Ticketed(q)' /\ ask[q].dep = d => rid'[q] < next_id[d] /\ rid'[q] \in Nat
      BY <1>a, <2>3, <2>9 DEF TicketInv, TicketsDrawn, TypeOK
    <3>2. \A q, s \in Requests \ {r} :
            Ticketed(q)' /\ Ticketed(s)' /\ ask[q].dep = ask[s].dep /\ rid'[q] = rid'[s] => q = s
      BY <2>3, <2>9 DEF TicketInv, TicketsUnique
    <3>3. next_id[d] \in Nat
      BY <1>a, <2>2 DEF TypeOK
    <3>4. \A q \in Requests \ {r} : Ticketed(q)' /\ ask[q].dep = ask[r].dep => rid'[q] # rid'[r]
      BY <2>3, <2>7, <3>1, <3>3
    <3> QED
      BY <2>1, <3>2, <3>4 DEF TicketsUnique
  <2>13. QueueIsTruth'
    <3>1. \A q \in Requests : pc'[q] \in Live => InPlace(q)'
      BY <1>b, <2>3, <2>8
    <3> QED
      BY <3>1 DEF QueueIsTruth, InPlace
  <2>14. RefsAreLive'
    BY <2>1, <2>3, RefsUndisturbed DEF Referring, Live
  <2> QED
    BY <1>g, <2>10, <2>11, <2>12, <2>13, <2>14
<1>19. ASSUME NEW r \in Requests, Task(r) PROVE TicketInv'
  <2>1. TimerFires(r) \/ Cancel(r) => TicketInv'
    BY <1>7 DEF TimerFires, Cancel, indexVars
  <2> QED
    BY <1>1, <1>2, <1>3, <1>4, <1>5, <1>6, <1>8, <1>11, <1>12, <1>13, <1>14, <1>19, <2>1 DEF Task
<1>20. CASE UNCHANGED vars
  BY <1>15, <1>20 DEF vars, slotVars, indexVars
<1> QED
  BY <1>16, <1>17, <1>18, <1>19, <1>20 DEF Next, OnlyResized

\* The strengthened invariant holds throughout while slots are only resized.
LEMMA TicketInvariant ==
    ASSUME OnlyResized
    PROVE  Spec => []TicketInv
<1>1. Init => TicketInv
  BY EntryInit DEF Init, TicketInv, TicketsHeld, TicketsDrawn, TicketsUnique, Ticketed, QueueIsTruth,
                   RefsAreLive, Live
<1>2. TicketInv /\ [Next]_vars => TicketInv'
  BY TicketStep
<1> QED
  BY <1>1, <1>2, PTL DEF Spec

\* The queue is the source of truth: in every execution in which slots are only
\* resized, the channel of a request that has not removed itself says whether
\* its entry waits or is in flight, so a grant is neither lost nor made twice.
THEOREM QueueStaysTrue ==
    ASSUME OnlyResized
    PROVE  Spec => []QueueIsTruth
<1>1. TicketInv => QueueIsTruth
  BY DEF TicketInv
<1> QED
  BY <1>1, TicketInvariant, PTL

\* Under the same condition the reverse index of get_key_request_status never
\* names a finished request, with its two critical sections in any order
\* against pushes, removals and the sweep of stale refs.
THEOREM RefsStayLive ==
    ASSUME OnlyResized
    PROVE  Spec => []RefsAreLive
<1>1. TicketInv => RefsAreLive
  BY DEF TicketInv
<1> QED
  BY <1>1, TicketInvariant, PTL

=============================================================================
