---------------------------- MODULE FlowDispatch ----------------------------
(***************************************************************************)
(* The dispatch loop of boom-flowcontrol as it is written: two VecDeques,  *)
(* a scan that restarts after every grant, and removal of the entries      *)
(* whose receiver is gone.  FlowControl describes the outcome of a call as *)
(* one set of granted entries; here every reachable slot is dispatched     *)
(* both ways.                                                              *)
(***************************************************************************)
EXTENDS FlowControl, Sequences

LOCAL INSTANCE SequencesExt

\* A QueuedRequest: its request and its dispatched flag.
QueueOf(d, vip) ==
    LET own == {r \in Entries(d) : ask[r].vip = vip}
        ordered == SetToSortSeq(own, LAMBDA a, b : rid[a] < rid[b])
    IN  [i \in 1..Len(ordered) |->
            [req |-> ordered[i], dispatched |-> ordered[i] \in inflight[d]]]

InflightOf(slot) == {e.req : e \in {x \in Range(slot.vip \o slot.normal) : x.dispatched}}

RECURSIVE TryWithoutContext(_, _, _, _)
\* Mutant: the context budget is not looked at.
TryWithoutContext(queue, idx, used, lim) ==
    IF idx > Len(queue) THEN [queue |-> queue, granted |-> FALSE]
    ELSE LET req == queue[idx] IN
         IF req.dispatched THEN TryWithoutContext(queue, idx + 1, used, lim)
         ELSE IF chan[req.req] # "empty"
           THEN TryWithoutContext(RemoveAt(queue, idx), idx, used, lim)
         ELSE [queue |-> [queue EXCEPT ![idx].dispatched = TRUE], granted |-> TRUE]

RECURSIVE TryDispatchFitting(_, _, _, _)
\* try_dispatch_fitting from index idx on: skip what is dispatched or does not
\* fit, remove what cannot be notified, stop at the first grant.
TryDispatchFitting(queue, idx, used, lim) ==
    IF idx > Len(queue) THEN [queue |-> queue, granted |-> FALSE]
    ELSE LET req == queue[idx] IN
         IF req.dispatched \/ (lim.max_context > 0 /\ used + ask[req.req].ctx > lim.max_context)
           THEN TryDispatchFitting(queue, idx + 1, used, lim)
         ELSE IF chan[req.req] # "empty"
           THEN TryDispatchFitting(RemoveAt(queue, idx), idx, used, lim)
         ELSE [queue |-> [queue EXCEPT ![idx].dispatched = TRUE], granted |-> TRUE]

RECURSIVE DispatchLoop(_, _)
\* dispatch: the VIP queue first, the normal queue when it grants nothing.
DispatchLoop(slot, lim) ==
    LET used == UsedContext(InflightOf(slot))
        full == lim.max_inflight > 0 /\ Cardinality(InflightOf(slot)) >= lim.max_inflight
        vip == TryDispatchFitting(slot.vip, 1, used, lim)
        normal == TryDispatchFitting(slot.normal, 1, used, lim)
        next == [vip |-> vip.queue,
                 normal |-> IF vip.granted THEN slot.normal ELSE normal.queue]
    IN  IF full THEN slot
        ELSE IF vip.granted \/ normal.granted THEN DispatchLoop(next, lim) ELSE next

\* The loop of dispatch() and the set SentSet describes agree on every slot:
\* exactly one set satisfies SentSet, and the loop grants its open entries,
\* removes its closed ones and leaves both queues in the order of the ids.
LoopGrantsSentSet ==
    \A d \in Deployments :
        LET slot == [vip |-> QueueOf(d, TRUE), normal |-> QueueOf(d, FALSE)]
            after == DispatchLoop(slot, limits[d])
            left == {e.req : e \in Range(after.vip \o after.normal)}
            sent == (waiting[d] \ left) \cup (InflightOf(after) \ inflight[d])
        IN  /\ \A S \in SUBSET waiting[d] :
                 SentSet(limits[d], rid, waiting[d], inflight[d], chan, S) <=> S = sent
            /\ left \cup {r \in sent : chan[r] = "closed"} = Entries(d)
            /\ left \cap {r \in sent : chan[r] = "closed"} = {}
            /\ \A q \in {after.vip, after.normal} :
                 \A i, j \in 1..Len(q) : i < j => rid[q[i].req] < rid[q[j].req]
=============================================================================
