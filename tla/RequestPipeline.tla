-------------------------- MODULE RequestPipeline --------------------------
(***************************************************************************)
(* A request from the handler's first line to its last trace               *)
(* (chat_completions_inner and messages in routes.rs): the checks that can *)
(* refuse it, the guards it holds, the provider call, the task that        *)
(* forwards a stream, and the audit and prompt records it leaves, written  *)
(* through LogWriter.  The outcomes of check_plan_limits and of the flow   *)
(* controller are choices here: PlanAdmission and FlowControl model them.  *)
(*                                                                         *)
(* An answer's usage is 0 (none known) or 1 (the provider's final usage).  *)
(***************************************************************************)
EXTENDS LogWriter

CONSTANTS
    KeyOf,     \* the dedup key of each request: error type, key and model
    Captured,  \* the requests should_capture wants in the prompt log
    Buffer,    \* places in the channel between forwarding task and response
    Chunks     \* bound: chunks of a stream, the last of which carries the usage

Reqs == Records

ASSUME PipelineConstants == Captured \subseteq Reqs /\ Buffer \in Nat \ {0} /\ Chunks \in Nat \ {0}

VARIABLES
    pc,        \* where each request is
    stream,    \* req.stream
    held,      \* the guards it holds
    inflight,  \* InFlightTracker: the model's request_count
    fwd,       \* its forwarding task: "none", "run", "done"
    produced,  \* chunks the task took from the provider
    queued,    \* chunks in the channel
    usage,     \* UsageTracker
    dedup,     \* REJECTION_DEDUP
    silent,    \* history: requests refused without a record
    records,   \* history: times a record was handed over, per request
    logged,    \* history: the usage in that record
    prompts    \* history: prompt log entries sent

pipeVars == <<pc, stream, held, inflight, fwd, produced, queued, usage, dedup, silent,
              records, logged, prompts>>
vars == <<writerVars, pipeVars>>

PCs == {"new", "checks", "reject", "route", "queue", "call", "reply", "stream", "failed",
        "answered", "gone"}
Guards == {"plan", "flow", "inflight"}
Each(v) == [r \in Reqs |-> v]

PipeInit ==
    /\ pc = Each("new") /\ stream = Each(FALSE)
    /\ held = Each({}) /\ inflight = 0
    /\ fwd = Each("none") /\ produced = Each(0) /\ queued = Each(0) /\ usage = Each(0)
    /\ dedup = {} /\ silent = {} /\ records = Each(0) /\ logged = Each(0) /\ prompts = Each(0)

Init == WriterInit /\ PipeInit

TypeOK ==
    /\ WriterTypeOK
    /\ pc \in [Reqs -> PCs] /\ stream \in [Reqs -> BOOLEAN]
    /\ held \in [Reqs -> SUBSET Guards] /\ inflight \in Nat
    /\ fwd \in [Reqs -> {"none", "run", "done"}] /\ produced \in [Reqs -> 0 .. Chunks]
    /\ queued \in [Reqs -> 0 .. Buffer] /\ usage \in [Reqs -> 0 .. 1]
    /\ silent \subseteq Reqs /\ records \in [Reqs -> Nat] /\ logged \in [Reqs -> 0 .. 1]
    /\ prompts \in [Reqs -> Nat]

Goto(r, l) == pc' = [pc EXCEPT ![r] = l]
InflightAfterDrop(r) == IF "inflight" \in held[r] THEN inflight - 1 ELSE inflight

DropGuardsButFlow(r) ==   \* mutant: the flow control slot is leaked
    held' = [held EXCEPT ![r] = @ \cap {"flow"}] /\ inflight' = InflightAfterDrop(r)

\* Everything the request owns goes out of scope.
DropGuards(r) == held' = [held EXCEPT ![r] = {}] /\ inflight' = InflightAfterDrop(r)

\* log_request: the record carries the usage u.
LogRequest(r, u) ==
    /\ records' = [records EXCEPT ![r] = @ + 1]
    /\ logged' = [logged EXCEPT ![r] = u]
    /\ TryEnqueue(r)
-----------------------------------------------------------------------------
Arrive(r, s) ==
    /\ pc[r] = "new"
    /\ stream' = [stream EXCEPT ![r] = s]
    /\ Goto(r, "checks")
    /\ UNCHANGED <<writerVars, held, inflight, fwd, produced, queued, usage, dedup, silent, records,
                   logged, prompts>>

\* check_model_access and check_plan_limits let it pass; the plan's guard is held.
PassChecks(r) ==
    /\ pc[r] = "checks"
    /\ held' = [held EXCEPT ![r] = {"plan"}]
    /\ Goto(r, "route")
    /\ UNCHANGED <<writerVars, stream, inflight, fwd, produced, queued, usage, dedup, silent,
                   records, logged, prompts>>

\* log_error for a refusal (model not allowed or not found, limits, a flow
\* control timeout): the dedup cache is asked first ...
Refuse(r) ==
    /\ pc[r] \in {"checks", "route", "queue"}
    /\ \/ KeyOf[r] \in dedup /\ silent' = silent \cup {r} /\ Goto(r, "answered") /\ DropGuards(r)
       \/ KeyOf[r] \notin dedup /\ Goto(r, "reject") /\ UNCHANGED <<silent, held, inflight>>
    /\ UNCHANGED <<writerVars, stream, fwd, produced, queued, usage, dedup, records, logged,
                   prompts>>

\* ... and, by then perhaps too late, told.
LogRefusal(r) ==
    /\ pc[r] = "reject"
    /\ dedup' = dedup \cup {KeyOf[r]}
    /\ LogRequest(r, 0)
    /\ Goto(r, "answered") /\ DropGuards(r)
    /\ UNCHANGED <<stream, fwd, produced, queued, usage, silent, prompts>>

\* time_to_live of the cache.
DedupExpires(k) ==
    /\ k \in dedup /\ dedup' = dedup \ {k}
    /\ UNCHANGED <<writerVars, pc, stream, held, inflight, fwd, produced, queued, usage, silent,
                   records, logged, prompts>>

\* A provider was selected.
Route(r) ==
    /\ pc[r] = "route"
    /\ Goto(r, "queue")
    /\ UNCHANGED <<writerVars, stream, held, inflight, fwd, produced, queued, usage, dedup,
                   silent, records, logged, prompts>>

\* acquire_fc_guard returns; a plain call is counted in flight before it is
\* made, a stream only once the provider has accepted it.
AcquireFlow(r) ==
    /\ pc[r] = "queue"
    /\ \E slot \in BOOLEAN :
          held' = [held EXCEPT ![r] = @ \cup (IF slot THEN {"flow"} ELSE {})
                                        \cup (IF stream[r] THEN {} ELSE {"inflight"})]
    /\ inflight' = IF stream[r] THEN inflight ELSE inflight + 1
    /\ Goto(r, "call")
    /\ UNCHANGED <<writerVars, stream, fwd, produced, queued, usage, dedup, silent, records,
                   logged, prompts>>

\* The provider refuses: log_error_with_usage, not deduplicated.
ProviderFails(r) ==
    /\ pc[r] = "call"
    /\ LogRequest(r, 0)
    /\ Goto(r, "answered") /\ DropGuards(r)
    /\ UNCHANGED <<stream, fwd, produced, queued, usage, dedup, silent, prompts>>

\* A complete answer: the plan's guard goes first, the rest when the handler returns.
ProviderReplies(r) ==
    /\ pc[r] = "call" /\ ~stream[r]
    /\ LogRequest(r, 1)
    /\ prompts' = [prompts EXCEPT ![r] = IF r \in Captured THEN @ + 1 ELSE @]
    /\ Goto(r, "answered") /\ DropGuards(r)
    /\ UNCHANGED <<stream, fwd, produced, queued, usage, dedup, silent>>

\* The provider accepts a stream: commit, spawn the forwarding task, wrap the
\* response in its guards and in LoggedStream and PromptLogStream.
StreamBegins(r) ==
    /\ pc[r] = "call" /\ stream[r]
    /\ held' = [held EXCEPT ![r] = @ \cup {"inflight"}] /\ inflight' = inflight + 1
    /\ fwd' = [fwd EXCEPT ![r] = "run"]
    /\ Goto(r, "stream")
    /\ UNCHANGED <<writerVars, stream, produced, queued, usage, dedup, silent, records, logged,
                   prompts>>
-----------------------------------------------------------------------------
(* The forwarding task and the response stream. *)

\* Mutant: a chunk notes the usage of the chunk before it, once that one has been
\* sent; nothing follows the last chunk, and its usage is lost.
ForwardNotesPrevious(r) ==
    /\ fwd[r] = "run" /\ produced[r] < Chunks
    /\ pc[r] = "stream" => queued[r] < Buffer
    /\ produced' = [produced EXCEPT ![r] = @ + 1]
    /\ usage' = [usage EXCEPT ![r] = IF produced[r] = Chunks THEN 1 ELSE @]
    /\ queued' = [queued EXCEPT ![r] = IF pc[r] = "stream" THEN @ + 1 ELSE 0]
    /\ fwd' = [fwd EXCEPT ![r] = IF pc[r] = "stream" THEN "run" ELSE "done"]
    /\ UNCHANGED <<writerVars, pc, stream, held, inflight, dedup, silent, records, logged,
                   prompts>>

\* One chunk: its usage is noted, then it is sent; send fails when the response
\* is gone, and the task returns.
ForwardChunk(r) ==
    /\ fwd[r] = "run" /\ produced[r] < Chunks
    /\ pc[r] = "stream" => queued[r] < Buffer
    /\ produced' = [produced EXCEPT ![r] = @ + 1]
    /\ usage' = [usage EXCEPT ![r] = IF produced[r] + 1 = Chunks THEN 1 ELSE @]
    /\ queued' = [queued EXCEPT ![r] = IF pc[r] = "stream" THEN @ + 1 ELSE 0]
    /\ fwd' = [fwd EXCEPT ![r] = IF pc[r] = "stream" THEN "run" ELSE "done"]
    /\ UNCHANGED <<writerVars, pc, stream, held, inflight, dedup, silent, records, logged,
                   prompts>>

\* The provider's stream ends, complete or not, and with it the task.
ForwardEnds(r) ==
    /\ fwd[r] = "run"
    /\ fwd' = [fwd EXCEPT ![r] = "done"]
    /\ UNCHANGED <<writerVars, pc, stream, held, inflight, produced, queued, usage, dedup,
                   silent, records, logged, prompts>>

DeliverChunk(r) ==
    /\ pc[r] = "stream" /\ queued[r] > 0
    /\ queued' = [queued EXCEPT ![r] = @ - 1]
    /\ UNCHANGED <<writerVars, pc, stream, held, inflight, fwd, produced, usage, dedup, silent,
                   records, logged, prompts>>

DropStreamAtEndOnly(r, l) ==   \* mutant: a record only for streams that ran to their end
    /\ pc[r] = "stream"
    /\ IF l = "answered" THEN LogRequest(r, usage[r])
                         ELSE UNCHANGED <<writerVars, records, logged>>
    /\ prompts' = [prompts EXCEPT ![r] = IF r \in Captured THEN @ + 1 ELSE @]
    /\ queued' = [queued EXCEPT ![r] = 0]
    /\ Goto(r, l) /\ DropGuards(r)
    /\ UNCHANGED <<stream, fwd, produced, usage, dedup, silent>>

\* Drop of PromptLogStream and LoggedStream, with whatever usage is known by
\* now: after the last chunk, or because the client went away.
DropStream(r, l) ==
    /\ pc[r] = "stream"
    /\ LogRequest(r, usage[r])
    /\ prompts' = [prompts EXCEPT ![r] = IF r \in Captured THEN @ + 1 ELSE @]
    /\ queued' = [queued EXCEPT ![r] = 0]
    /\ Goto(r, l) /\ DropGuards(r)
    /\ UNCHANGED <<stream, fwd, produced, usage, dedup, silent>>

StreamEnds(r) == fwd[r] = "done" /\ queued[r] = 0 /\ DropStream(r, "answered")
StreamAborted(r) == DropStream(r, "gone")

\* The client goes away while the handler waits: its future is dropped, guards
\* and all, and no record is written.
Disconnect(r) ==
    /\ pc[r] \in {"checks", "route", "queue", "call"}
    /\ Goto(r, "gone") /\ DropGuards(r)
    /\ UNCHANGED <<writerVars, stream, fwd, produced, queued, usage, dedup, silent, records,
                   logged, prompts>>

\* The process ends and starts again.
Restart ==
    /\ RestartWriter
    /\ pc' = [r \in Reqs |-> IF pc[r] \in {"new", "answered"} THEN pc[r] ELSE "gone"]
    /\ held' = Each({}) /\ inflight' = 0
    /\ fwd' = Each("none") /\ queued' = Each(0) /\ dedup' = {}
    /\ UNCHANGED <<stream, produced, usage, silent, records, logged, prompts>>

Handle(r) ==
    \/ PassChecks(r) \/ Refuse(r) \/ LogRefusal(r) \/ Route(r) \/ AcquireFlow(r)
    \/ ProviderFails(r) \/ ProviderReplies(r) \/ StreamBegins(r)
Forward(r) == ForwardChunk(r) \/ ForwardEnds(r)
Respond(r) == DeliverChunk(r) \/ StreamEnds(r)

Next ==
    \/ \E r \in Reqs, s \in BOOLEAN : Arrive(r, s)
    \/ \E r \in Reqs : Handle(r) \/ Forward(r) \/ Respond(r) \/ StreamAborted(r) \/ Disconnect(r)
    \/ \E k \in dedup : DedupExpires(k)
    \/ WriterStep /\ UNCHANGED pipeVars
    \/ Restart

Spec == Init /\ [][Next]_vars

\* Handlers, forwarding tasks and responses are polled; upstream calls and
\* streams end; the writer runs.
FairSpec ==
    /\ Spec
    /\ \A r \in Reqs : WF_vars(Handle(r)) /\ WF_vars(ForwardEnds(r)) /\ WF_vars(Respond(r))
    /\ WF_vars((\E r \in chan : Recv(r)) /\ UNCHANGED pipeVars)
    /\ WF_vars(FlushTick /\ UNCHANGED pipeVars)
    /\ WF_vars((InsertReturns \/ InsertFails) /\ UNCHANGED pipeVars)
-----------------------------------------------------------------------------
\* A request that was answered has exactly one audit record, whichever way it
\* ended, unless its refusal was suppressed because another request's refusal
\* of the same kind is on record; a stream has one, and its prompt entry if it
\* is captured, even if the client left.
OneRecordEach ==
    /\ \A r \in Reqs : records[r] <= 1 /\ prompts[r] <= 1
    /\ \A r \in Reqs : pc[r] = "answered" => (records[r] = 1) # (r \in silent)
    /\ \A r \in Reqs : pc[r] \in {"answered", "gone"} /\ fwd[r] # "none" =>
                          records[r] = 1 /\ (r \in Captured => prompts[r] = 1)
    /\ \A r \in silent : \E q \in Reqs \ {r} : KeyOf[q] = KeyOf[r] /\ records[q] = 1

\* The record of a stream the client got to the end carries the usage of its
\* last chunk: what is logged and billed was not read too early.
UsageComplete ==
    \A r \in Reqs : (pc[r] = "answered" /\ produced[r] = Chunks) => logged[r] = 1

\* Every request ends, holding nothing and no longer counted in flight, and its
\* forwarding task ends too, on every path of the handlers.
EverythingEnds ==
    \A r \in Reqs : (pc[r] # "new") ~>
        (/\ pc[r] \in {"answered", "gone"} /\ held[r] = {} /\ fwd[r] # "run"
         /\ inflight = Cardinality({q \in Reqs : "inflight" \in held[q]}))
=============================================================================
