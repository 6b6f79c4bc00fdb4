-------------------------------- MODULE Fusion --------------------------------
(***************************************************************************)
(* A fusion model (fusion.rs, direct_synthesis.rs): one request of a       *)
(* client becomes a panel of child calls and an aggregator, each routed    *)
(* and queued like any other call, and all of them are paid by the plan    *)
(* charge of the parent.  The workflow is one task: its children run       *)
(* their synchronous parts one at a time, and a client that leaves drops   *)
(* it only while it awaits something.                                      *)
(***************************************************************************)
EXTENDS Routing, Functions

CONSTANTS
    Panel,       \* the panel, in order
    Agg,         \* the aggregator's call
    ParentKey,
    MaxUsage,    \* bound: tokens of a call
    Loads        \* the scenarios of a run: which parts of the system are busy

ASSUME FusionAssumption ==
    /\ Len(Panel) >= 2 /\ Children = {Panel[i] : i \in DOMAIN Panel} \cup {Agg} /\ ParentKey \in ApiKeys
\* A call carries one full block at least.
ASSUME LoadAssumption ==
    \A l \in Loads : /\ l.prefixes \subseteq Seq(Blocks) \ {<<>>} /\ l.keys \subseteq ApiKeys
                     /\ DOMAIN l.held \subseteq Requests /\ \A c \in DOMAIN l.held : l.held[c] \in Workers

NotSettled == "none"

VARIABLES
    load,      \* the scenario
    parent,    \* where the workflow is
    usage,     \* what the upstream reported, per child
    bill,      \* ProviderBilling.actual_usage
    seen,      \* the usage of the stream's chunks so far (UsageTracker)
    fwd,       \* the task that forwards the stream's chunks and owns the stream
    settled,   \* what plan_charge.settle was given
    late       \* history: usage that was billed after the settlement

fusionVars == <<load, parent, usage, bill, seen, fwd, settled, late>>
vars == <<indexVars, rateVars, routeVars, fusionVars>>

PanelCalls == Children \ {Agg}
Ended == {"ok", "empty", "failed"}

FusionInit ==
    /\ load \in Loads /\ policy = load.policy /\ parent = "idle"
    /\ usage = [c \in Children |-> 0] /\ bill = 0 /\ seen = 0 /\ settled = NotSettled
    /\ fwd = "none" /\ late = 0

Billed(c, u) ==
    /\ usage' = [usage EXCEPT ![c] = u] /\ bill' = bill + (u - usage[c])
-----------------------------------------------------------------------------
(* Panel. *)

Busy == \E c \in Children : call[c].at \in {"query", "decide", "prefer", "own", "loads", "lowest", "record"}
IndexAndRates == <<indexVars, rateVars>>

FusionArrives ==
    /\ load.fusion /\ parent = "idle" /\ parent' = "panel"
    /\ UNCHANGED <<IndexAndRates, routeVars, load, usage, bill, seen, fwd, settled, late>>

\* join_all polls the calls in order.
PanelStarts(c, p) ==
    /\ parent = "panel" /\ c \in PanelCalls /\ ~Busy
    /\ \A i, j \in DOMAIN Panel : (i < j /\ Panel[j] = c) => call[Panel[i]].at # "idle"
    /\ StartCall(c, ParentKey, p) /\ UNCHANGED fusionVars

\* invoke: the answer is billed to the parent at once.
PanelReplies(c, u, outcome) ==
    /\ c \in PanelCalls /\ call[c].at = "running" /\ ~Busy /\ outcome \in {"ok", "empty"}
    /\ ToCall(c, [call[c] EXCEPT !.at = outcome]) /\ RecordIn({call[c].dep, Total}) /\ Billed(c, u)
    /\ UNCHANGED <<indexVars, policy, affinity, turn, load, parent, seen, fwd, settled, late>>

\* An error, a timeout of the queue, or of the panel (panel_timeout drops the call).
ChildFails(c) ==
    /\ c \in Children /\ ~Busy /\ ~(c = Agg /\ load.stream /\ call[c].at = "streaming")
    /\ CallFails(c) /\ UNCHANGED fusionVars

\* settle_partial_provider_accounting: a failed workflow pays for what was answered.
SettlePartial == settled' = IF bill > 0 THEN bill ELSE NotSettled

\* The usage of the response: every panel answer, valid or not, and the aggregator's.
ResponseUsage(aggregated) == SumFunctionOnSet(usage, PanelCalls) + aggregated

PanelDone ==
    /\ parent = "panel" /\ \A c \in PanelCalls : call[c].at \in Ended
    /\ IF \E c \in PanelCalls : call[c].at = "ok" THEN parent' = "aggregate" /\ UNCHANGED settled
       ELSE parent' = "failed" /\ SettlePartial
    /\ UNCHANGED <<IndexAndRates, routeVars, load, usage, bill, seen, fwd, late>>
-----------------------------------------------------------------------------
(* Aggregator. *)

AggregatorStarts(p) ==
    /\ parent = "aggregate" /\ StartCall(Agg, ParentKey, p) /\ UNCHANGED fusionVars

AggregatorReplies(u) ==
    /\ parent = "aggregate" /\ ~load.stream /\ call[Agg].at = "running"
    /\ ToCall(Agg, [call[Agg] EXCEPT !.at = "ok"]) /\ RecordIn({call[Agg].dep, Total, Agents}) /\ Billed(Agg, u)
    /\ parent' = "answered" /\ settled' = ResponseUsage(u)
    /\ UNCHANGED <<indexVars, policy, affinity, turn, load, seen, fwd, late>>

\* Without an aggregator the first valid panel answers, whole or as a stream.
FallBack ==
    /\ parent = "aggregate" /\ call[Agg].at = "failed"
    /\ IF load.stream THEN parent' = "stream" /\ fwd' = "replay" /\ UNCHANGED settled
       ELSE parent' = "answered" /\ settled' = ResponseUsage(0) /\ UNCHANGED fwd
    /\ RecordIn({Agents})
    /\ UNCHANGED <<indexVars, routeVars, load, usage, bill, seen, late>>

StreamStarts ==
    /\ parent = "aggregate" /\ load.stream /\ call[Agg].at = "running"
    /\ parent' = "stream" /\ fwd' = "chunks" /\ ToCall(Agg, [call[Agg] EXCEPT !.at = "streaming"])
    /\ RecordIn({call[Agg].dep, Total, Agents})
    /\ UNCHANGED <<indexVars, policy, affinity, turn, load, usage, bill, seen, settled, late>>
-----------------------------------------------------------------------------
(* The stream.  A task of its own polls the chunks and sends them into a   *)
(* channel; what the client holds is the other end, and its drop settles.  *)

\* A chunk with usage, a running total: GuardedFusionStream bills what is new ...
StreamUsage(u) ==
    /\ fwd = "chunks" /\ fwd' = "billed" /\ u > usage[Agg] /\ Billed(Agg, u)
    /\ late' = IF parent = "stream" THEN late ELSE late + (u - usage[Agg])
    /\ UNCHANGED <<IndexAndRates, routeVars, load, parent, seen, settled>>

\* ... and the task notes it, with the panel's (AggregateUsageStream), before it sends the chunk.
\* It ends when there is nobody to send to, and the guards of the call go with the stream.
Forwarded(more) ==
    /\ fwd' = IF parent = "closed" THEN "over" ELSE more
    /\ call' = [call EXCEPT ![Agg].at = IF fwd' = "over" /\ @ = "streaming" THEN "ok" ELSE @]
    /\ UNCHANGED <<IndexAndRates, policy, affinity, turn, load, parent, usage, bill, settled, late>>

NoteUsage ==
    /\ fwd = "billed" /\ seen' = SumFunctionOnSet(usage, PanelCalls) + usage[Agg]
    /\ Forwarded("chunks")

\* The last chunk of response_stream.
ReplayFinishes ==
    /\ fwd = "replay" /\ seen = 0 /\ bill > 0 /\ seen' = SumFunctionOnSet(usage, PanelCalls)
    /\ Forwarded("replay")

\* The stream ends, or another chunk cannot be sent.
ForwardEnds ==
    /\ fwd \in {"chunks", "replay"} /\ Forwarded("over") /\ UNCHANGED seen

PreferredObserved == seen   \* mutant: the provider's usage is not asked for
\* preferred_stream_usage
Preferred == IF bill > seen THEN bill ELSE seen

\* LoggedStream::drop settles, at the end of the stream or when the client leaves, whatever
\* the task is doing; the receiver is dropped after it.
StreamStops ==
    /\ parent = "stream" /\ parent' = "ended" /\ settled' = Preferred
    /\ UNCHANGED <<IndexAndRates, routeVars, load, usage, bill, seen, fwd, late>>

ReceiverDropped ==
    /\ parent = "ended" /\ parent' = "closed"
    /\ UNCHANGED <<IndexAndRates, routeVars, load, usage, bill, seen, fwd, settled, late>>

\* A client that leaves before the answer: the task is dropped where it waits, its
\* calls with it, and nothing is settled.
ClientLeaves ==
    /\ parent \in {"panel", "aggregate"} /\ ~Busy /\ parent' = "gone"
    /\ call' = [c \in Calls |-> IF c \in Children /\ call[c].at \notin Ended
                                THEN [call[c] EXCEPT !.at = "failed"] ELSE call[c]]
    /\ UNCHANGED <<IndexAndRates, policy, affinity, turn, load, usage, bill, seen, fwd, settled, late>>
-----------------------------------------------------------------------------
Init == FusionInit /\ IndexInit /\ RateInit /\ RoutingInit(load.held)

Choose(c) ==
    \/ Decide(c) \/ Prefer(c) \/ ReadOwnLoad(c) \/ ReadLoad(c) \/ DecideAffinity(c)
    \/ DecideKvc(c) \/ AllOverloaded(c) \/ DecideLowest(c)

RequestStep(c) ==
    /\ UNCHANGED fusionVars
    /\ \/ c \in load.requests /\ \E k \in load.keys, p \in load.prefixes : StartCall(c, k, p)
       \/ RequestAnswered(c) \/ (c \in Requests /\ CallFails(c))
       \/ Choose(c) \/ RecordDone(c) \/ AcquireSlot(c) \/ SlotGranted(c)

PanelStep(c) ==
    \/ \E p \in load.prefixes : PanelStarts(c, p)
    \/ \E u \in 1 .. MaxUsage, o \in {"ok", "empty"} : PanelReplies(c, u, o)
    \/ ChildFails(c)

AggregatorStep ==
    \/ \E p \in load.prefixes : AggregatorStarts(p)
    \/ \E u \in 1 .. MaxUsage : AggregatorReplies(u) \/ StreamUsage(u)
    \/ FallBack \/ StreamStarts \/ NoteUsage \/ ReplayFinishes \/ ForwardEnds \/ StreamStops \/ ReceiverDropped

Background ==
    /\ UNCHANGED fusionVars
    /\ \/ IndexStep
       \/ load.ages /\ TimersAge /\ UNCHANGED <<routeVars, rateVars>>
       \/ load.reloads /\ (\E p \in Policies : SwapPolicy(p))
       \/ /\ load.ticks /\ UNCHANGED <<indexVars, routeVars>>
          /\ (\E n \in {1, NumBuckets + 1} : MinutesPass(n)) \/ (\E r \in Rings : TakeSnapshot(r))

Next ==
    \/ \E c \in Calls : RequestStep(c)
    \/ FusionArrives \/ PanelDone \/ ClientLeaves
    \/ \E c \in Children : PanelStep(c)
    \/ AggregatorStep \/ Background

Spec == Init /\ [][Next]_vars
-----------------------------------------------------------------------------
\* A workflow that answers, fails, or whose stream stops for any reason is charged
\* for exactly what its children's providers had reported: the answers it could not
\* use, the aggregator's usage up to the last chunk, and nothing twice, although
\* three records of it exist (the billing channel, the response and the chunks).
\* What is billed after the drop of the stream stays unpaid.
ChildrenSettled ==
    parent \in {"answered", "failed", "ended", "closed"} =>
        LET due == SumFunction(usage) - late
        IN  settled = IF parent = "failed" /\ due = 0 THEN NotSettled ELSE due
=============================================================================
