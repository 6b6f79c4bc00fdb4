---------------------------- MODULE FlowControl ----------------------------
(***************************************************************************)
(* The per-deployment admission queue of boom-flowcontrol.                 *)
(*                                                                         *)
(* Every request that is routed to a deployment calls acquire() once.  A   *)
(* deployment with limits has a slot with two FIFO queues (VIP, normal);   *)
(* an entry is waiting or dispatched, and a dispatched entry IS the unit   *)
(* of capacity: there are no counters.  dispatch() runs under the slot's   *)
(* mutex after every enqueue, every removal and once a second, and wakes a *)
(* waiter through a oneshot channel whose receiver the waiter may already  *)
(* have dropped (timeout, client disconnect).  Slots come and go with      *)
(* configuration reloads while guards of their requests are still held.    *)
(*                                                                         *)
(* Abstractions.  A request is its own oneshot channel and, while it is    *)
(* queued, its own queue entry, so the two VecDeques of a slot become two  *)
(* sets: waiting and dispatched entries.  The order of a VecDeque is the   *)
(* order of the ids, because an id is taken and the entry pushed under one *)
(* lock.  A slot is absent exactly when its limits are 0/0, the            *)
(* configuration for which ensure_slot removes it.                         *)
(***************************************************************************)
EXTENDS Naturals, FiniteSets, Functions

CONSTANTS
    Requests,       \* calls of acquire()
    Deployments,    \* deployment ids
    Keys,           \* key hashes
    NoKey,          \* the absent key hash
    Contexts,       \* values of context_chars
    Configs,        \* FlowControlConfigs that ensure_slot is called with
    Removable       \* deployments whose slot retain_slots may drop

Limit == [max_inflight : Nat, max_context : Nat]

NoSlot == [max_inflight |-> 0, max_context |-> 0]

Ask == [dep : Deployments, vip : BOOLEAN, ctx : Contexts, key : Keys \cup {NoKey}]

ASSUME ConstantsAssumption ==
    /\ IsFiniteSet(Requests)
    /\ Contexts \subseteq Nat
    /\ Configs \subseteq Limit
    /\ Removable \subseteq Deployments
    /\ NoKey \notin Keys

VARIABLES
    ask,        \* the arguments of each request's acquire()
    limits,     \* SlotInner.max_inflight / max_context, NoSlot if absent
    next_id,    \* SlotInner.next_id
    waiting,    \* entries with dispatched = false, per deployment
    inflight,   \* entries with dispatched = true, per deployment
    rid,        \* request_id that acquire() drew
    chan,       \* the oneshot channel of each request
    pc,         \* where each request's task is
    indexed,    \* keys with a Vec in key_index
    refs,       \* key_index: the <<deployment, id>> refs of each key
    scan        \* get_key_request_status calls under way, one per key

slotVars == <<limits, next_id, waiting, inflight>>
indexVars == <<indexed, refs>>
vars == <<ask, slotVars, rid, chan, pc, indexVars, scan>>

Ref == Deployments \X Nat

\* "sent" and "dropped" stay: the receiver finds them when it is polled.
Channel == {"none", "empty", "sent", "dropped", "closed"}

PC == {"idle", "enqueued", "waiting", "expired", "cancelled", "holding",
       "passthrough", "unref", "reaping", "rejected", "done"}

\* A task in one of these states still has its own removal ahead of it.
Live == {"enqueued", "waiting", "expired", "cancelled", "holding"}

IdleScan == [pc |-> "idle", todo |-> {}, stale |-> {}]

Entries(d) == waiting[d] \cup inflight[d]

TypeOK ==
    /\ ask \in [Requests -> Ask]
    /\ limits \in [Deployments -> Limit]
    /\ next_id \in [Deployments -> Nat]
    /\ waiting \in [Deployments -> SUBSET Requests]
    /\ inflight \in [Deployments -> SUBSET Requests]
    /\ rid \in [Requests -> Nat]
    /\ chan \in [Requests -> Channel]
    /\ pc \in [Requests -> PC]
    /\ indexed \in SUBSET Keys
    /\ refs \in [Keys -> SUBSET Ref]
    /\ scan \in [Keys -> [pc : {"idle", "looking", "reaping"},
                          todo : SUBSET Ref, stale : SUBSET Ref]]

Init ==
    /\ ask \in [Requests -> Ask]
    /\ limits = [d \in Deployments |-> NoSlot]
    /\ next_id = [d \in Deployments |-> 0]
    /\ waiting = [d \in Deployments |-> {}]
    /\ inflight = [d \in Deployments |-> {}]
    /\ rid = [r \in Requests |-> 0]
    /\ chan = [r \in Requests |-> "none"]
    /\ pc = [r \in Requests |-> "idle"]
    /\ indexed = {}
    /\ refs = [k \in Keys |-> {}]
    /\ scan = [k \in Keys |-> IdleScan]

-----------------------------------------------------------------------------
(***************************************************************************)
(* Dispatch.  The code loops: take the first VIP entry that fits, else the *)
(* first normal one, until none fits or max_inflight is reached; an entry  *)
(* whose receiver is gone is removed when its turn comes and takes no      *)
(* room.  Room only shrinks inside one call, so an entry that was skipped  *)
(* stays skipped and the loop is one pass in dispatch order: the set S of  *)
(* entries whose grant is sent is the one in which every waiting entry is  *)
(* in S exactly when it fits beside what was granted before its turn.      *)
(***************************************************************************)

UsedContext(S) == SumFunctionOnSet([r \in Requests |-> ask[r].ctx], S)

\* Mutant: one request more than max_inflight fits.
FitsOffByOne(lim, used, r) ==
    /\ lim.max_inflight > 0 => Cardinality(used) <= lim.max_inflight
    /\ lim.max_context > 0 => UsedContext(used) + ask[r].ctx <= lim.max_context

Fits(lim, used, r) ==
    /\ lim.max_inflight > 0 => Cardinality(used) < lim.max_inflight
    /\ lim.max_context > 0 => UsedContext(used) + ask[r].ctx <= lim.max_context

\* Mutant: one queue for all, in the order of arrival.
BeforeIgnoringVip(id, e, r) == id[e] < id[r]

\* Dispatch order: the VIP queue first, then by id.
Before(id, e, r) ==
    \/ ask[e].vip /\ ~ask[r].vip
    \/ ask[e].vip = ask[r].vip /\ id[e] < id[r]

\* Open(ch, S): the entries of S whose receiver still exists.
Open(ch, S) == {r \in S : ch[r] = "empty"}

\* Mutant: the normal queue is never tried.
SentSetVipOnly(lim, id, Q, I, ch, S) ==
    \A r \in Q : r \in S <=> /\ ask[r].vip
                            /\ Fits(lim, I \cup {e \in Open(ch, S) : Before(id, e, r)}, r)

SentSet(lim, id, Q, I, ch, S) ==
    \A r \in Q : r \in S <=> Fits(lim, I \cup {e \in Open(ch, S) : Before(id, e, r)}, r)

\* The slot of d after dispatch() on waiting Q and dispatched I, ordered by id.
Dispatch(d, id, Q, I, ch) ==
    \E S \in SUBSET Q :
        /\ SentSet(limits[d], id, Q, I, ch, S)
        /\ waiting' = [waiting EXCEPT ![d] = Q \ S]
        /\ inflight' = [inflight EXCEPT ![d] = I \cup Open(ch, S)]
        /\ chan' = [r \in Requests |-> IF r \in Open(ch, S) THEN "sent" ELSE ch[r]]

\* Dropping a queue entry drops its sender unless the grant was sent.
DropSenders(S) ==
    [r \in Requests |-> IF r \in S /\ chan[r] = "empty" THEN "dropped" ELSE chan[r]]

\* Dropping the receiver of r: a value already sent stays received.
CloseReceiver(r) == [chan EXCEPT ![r] = IF @ = "empty" THEN "closed" ELSE @]

-----------------------------------------------------------------------------
(***************************************************************************)
(* acquire()                                                               *)
(***************************************************************************)

\* No slot: the caller forwards the request without flow control.
AcquireNoSlot(r) ==
    /\ pc[r] = "idle"
    /\ limits[ask[r].dep] = NoSlot
    /\ pc' = [pc EXCEPT ![r] = "passthrough"]
    /\ UNCHANGED <<ask, slotVars, rid, chan, indexVars, scan>>

\* The context alone exceeds the budget: rejected at once.
TooLarge(lim, r) == lim.max_context > 0 /\ ask[r].ctx > lim.max_context

AcquireReject(r) ==
    LET d == ask[r].dep IN
    /\ pc[r] = "idle"
    /\ limits[d] # NoSlot
    /\ TooLarge(limits[d], r)
    /\ pc' = [pc EXCEPT ![r] = "rejected"]
    /\ UNCHANGED <<ask, slotVars, rid, chan, indexVars, scan>>

\* Draw an id, push the entry, dispatch: one critical section of the slot.
AcquireEnqueue(r) ==
    LET d == ask[r].dep IN
    /\ pc[r] = "idle"
    /\ limits[d] # NoSlot
    /\ ~TooLarge(limits[d], r)
    /\ rid' = [rid EXCEPT ![r] = next_id[d]]
    /\ next_id' = [next_id EXCEPT ![d] = @ + 1]
    /\ Dispatch(d, rid', waiting[d] \cup {r}, inflight[d], [chan EXCEPT ![r] = "empty"])
    /\ pc' = [pc EXCEPT ![r] = "enqueued"]
    /\ UNCHANGED <<ask, limits, indexVars, scan>>

\* Mutant: the absent key hash is indexed like any other.
IndexPushAnyKey(r) ==
    LET k == ask[r].key IN
    /\ pc[r] = "enqueued"
    /\ indexed' = indexed \cup {k}
    /\ refs' = [refs EXCEPT ![k] = @ \cup {<<ask[r].dep, rid[r]>>}]
    /\ pc' = [pc EXCEPT ![r] = "waiting"]
    /\ UNCHANGED <<ask, slotVars, rid, chan, scan>>

\* The slot is released before the reverse index is filled.
IndexPush(r) ==
    LET k == ask[r].key IN
    /\ pc[r] = "enqueued"
    /\ IF k = NoKey
         THEN UNCHANGED indexVars
         ELSE /\ indexed' = indexed \cup {k}
              /\ refs' = [refs EXCEPT ![k] = @ \cup {<<ask[r].dep, rid[r]>>}]
    /\ pc' = [pc EXCEPT ![r] = "waiting"]
    /\ UNCHANGED <<ask, slotVars, rid, chan, scan>>

\* The awaited grant arrives: the request owns a FlowControlGuard.
Granted(r) ==
    /\ pc[r] = "waiting"
    /\ chan[r] = "sent"
    /\ pc' = [pc EXCEPT ![r] = "holding"]
    /\ UNCHANGED <<ask, slotVars, rid, chan, indexVars, scan>>

\* The sender was dropped with its entry: Err(NoSlot), key ref left behind.
SenderGone(r) ==
    /\ pc[r] = "waiting"
    /\ chan[r] = "dropped"
    /\ pc' = [pc EXCEPT ![r] = "passthrough"]
    /\ UNCHANGED <<ask, slotVars, rid, chan, indexVars, scan>>

\* The timer wins the poll; the receiver is dropped before the slot is locked.
TimerFires(r) ==
    /\ pc[r] = "waiting"
    /\ pc' = [pc EXCEPT ![r] = "expired"]
    /\ chan' = CloseReceiver(r)
    /\ UNCHANGED <<ask, slotVars, rid, indexVars, scan>>

\* Mutant: only waiting entries are searched.
FoundWaiting(r) ==
    {e \in waiting[ask[r].dep] : rid[e] = rid[r] /\ ask[e].vip = ask[r].vip}

\* Mutant: the front of the queue is taken instead of the entry with r's id.
FoundFront(r) ==
    {e \in Entries(ask[r].dep) :
        /\ ask[e].vip = ask[r].vip
        /\ \A f \in Entries(ask[r].dep) : ask[f].vip = ask[r].vip => rid[e] <= rid[f]}

\* The entry that a lookup by r's id in r's queue finds: r's own, unless the
\* slot was re-created and its ids started again.
Found(r) ==
    {e \in Entries(ask[r].dep) : rid[e] = rid[r] /\ ask[e].vip = ask[r].vip}

\* Mutant: the timed-out request leaves its key ref behind.
TimeoutLookupKeepsRef(r) ==
    LET d == ask[r].dep
        gone == Found(r) \cap waiting[d]
    IN  /\ pc[r] = "expired"
        /\ waiting' = [waiting EXCEPT ![d] = @ \ gone]
        /\ chan' = DropSenders(gone)
        /\ pc' = [pc EXCEPT ![r] =
                     IF limits[d] = NoSlot \/ gone # {} THEN "done" ELSE "holding"]
        /\ UNCHANGED <<ask, limits, next_id, inflight, rid, indexVars, scan>>

\* After the timeout: a waiting entry is removed and the request fails; a
\* dispatched entry, or none in an existing slot, counts as dispatched.
TimeoutLookup(r) ==
    LET d == ask[r].dep
        gone == Found(r) \cap waiting[d]
    IN  /\ pc[r] = "expired"
        /\ waiting' = [waiting EXCEPT ![d] = @ \ gone]
        /\ chan' = DropSenders(gone)
        /\ pc' = [pc EXCEPT ![r] =
                     IF limits[d] = NoSlot \/ gone # {} THEN "unref" ELSE "holding"]
        /\ UNCHANGED <<ask, limits, next_id, inflight, rid, indexVars, scan>>

\* The client disconnects: the future is dropped, its receiver first.
Cancel(r) ==
    /\ pc[r] = "waiting"
    /\ pc' = [pc EXCEPT ![r] = "cancelled"]
    /\ chan' = CloseReceiver(r)
    /\ UNCHANGED <<ask, slotVars, rid, indexVars, scan>>

\* Mutant: the freed capacity is not handed on.
RemoveOnly(r) ==
    LET d == ask[r].dep
        E == Found(r)
    IN  /\ waiting' = [waiting EXCEPT ![d] = @ \ E]
        /\ inflight' = [inflight EXCEPT ![d] = @ \ E]
        /\ chan' = DropSenders(E \cap waiting[d])

\* Remove the entry found by id and dispatch; nothing without one.
RemoveAndDispatch(r) ==
    LET d == ask[r].dep
        E == Found(r)
    IN  IF E = {}
          THEN UNCHANGED <<waiting, inflight, chan>>
          ELSE Dispatch(d, rid, waiting[d] \ E, inflight[d] \ E, DropSenders(E \cap waiting[d]))

\* AcquireCleanup::drop.  Without a slot it returns before the key ref.
CancelCleanup(r) ==
    /\ pc[r] = "cancelled"
    /\ RemoveAndDispatch(r)
    /\ pc' = [pc EXCEPT ![r] = IF limits[ask[r].dep] = NoSlot THEN "done" ELSE "unref"]
    /\ UNCHANGED <<ask, limits, next_id, rid, indexVars, scan>>

\* FlowControlGuard::drop: the response or the stream is over.
Release(r) ==
    /\ pc[r] = "holding"
    /\ RemoveAndDispatch(r)
    /\ pc' = [pc EXCEPT ![r] = "unref"]
    /\ UNCHANGED <<ask, limits, next_id, rid, indexVars, scan>>

\* A request that was let through without a guard completes.
FinishPassthrough(r) ==
    /\ pc[r] = "passthrough"
    /\ pc' = [pc EXCEPT ![r] = "done"]
    /\ UNCHANGED <<ask, slotVars, rid, chan, indexVars, scan>>

-----------------------------------------------------------------------------
(***************************************************************************)
(* The reverse index.  Emptying a key's Vec and removing the key are two   *)
(* critical sections: a ref pushed between them goes with the key.         *)
(***************************************************************************)

\* remove_key_ref, first section: retain the other refs.
Unref(r) ==
    LET k == ask[r].key
        mine == <<ask[r].dep, rid[r]>>
    IN  /\ pc[r] = "unref"
        /\ IF k = NoKey \/ mine \notin refs[k]
             THEN /\ pc' = [pc EXCEPT ![r] = "done"]
                  /\ UNCHANGED refs
             ELSE /\ refs' = [refs EXCEPT ![k] = @ \ {mine}]
                  /\ pc' = [pc EXCEPT ![r] = IF refs'[k] = {} THEN "reaping" ELSE "done"]
        /\ UNCHANGED <<ask, slotVars, rid, chan, indexed, scan>>

\* The key leaves the index with whatever its Vec holds by now.
DropKey(k) ==
    /\ indexed' = indexed \ {k}
    /\ refs' = [refs EXCEPT ![k] = {}]

\* remove_key_ref, second section.
Reap(r) ==
    /\ pc[r] = "reaping"
    /\ DropKey(ask[r].key)
    /\ pc' = [pc EXCEPT ![r] = "done"]
    /\ UNCHANGED <<ask, slotVars, rid, chan, scan>>

\* get_key_request_status: clone the refs of a key ...
StatusBegin(k) ==
    /\ scan[k].pc = "idle"
    /\ k \in indexed
    /\ scan' = [scan EXCEPT ![k] = [pc |-> "looking", todo |-> refs[k], stale |-> {}]]
    /\ UNCHANGED <<ask, slotVars, rid, chan, pc, indexVars>>

\* ... look each one up under its slot's lock (an absent slot has no entry) ...
StatusLookup(k) ==
    /\ scan[k].pc = "looking"
    /\ \E ref \in scan[k].todo :
         LET live == \E e \in Entries(ref[1]) : rid[e] = ref[2]
         IN  scan' = [scan EXCEPT ![k].todo = @ \ {ref},
                                  ![k].stale = IF live THEN @ ELSE @ \cup {ref}]
    /\ UNCHANGED <<ask, slotVars, rid, chan, pc, indexVars>>

\* ... and drop the stale ones, the key too when none is left.
StatusClean(k) ==
    LET clean == k \in indexed /\ scan[k].stale # {} IN
    /\ scan[k].pc = "looking"
    /\ scan[k].todo = {}
    /\ refs' = [refs EXCEPT ![k] = IF clean THEN @ \ scan[k].stale ELSE @]
    /\ scan' = [scan EXCEPT ![k] = IF clean /\ refs'[k] = {}
                                     THEN [IdleScan EXCEPT !.pc = "reaping"] ELSE IdleScan]
    /\ UNCHANGED <<ask, slotVars, rid, chan, pc, indexed>>

StatusReap(k) ==
    /\ scan[k].pc = "reaping"
    /\ DropKey(k)
    /\ scan' = [scan EXCEPT ![k] = IdleScan]
    /\ UNCHANGED <<ask, slotVars, rid, chan, pc>>

-----------------------------------------------------------------------------
(***************************************************************************)
(* Reconfiguration and the one-second dispatcher.                          *)
(***************************************************************************)

\* The slot goes with its queues; the senders of the waiters are dropped.
DropSlot(d) ==
    /\ limits' = [limits EXCEPT ![d] = NoSlot]
    /\ next_id' = [next_id EXCEPT ![d] = 0]
    /\ waiting' = [waiting EXCEPT ![d] = {}]
    /\ inflight' = [inflight EXCEPT ![d] = {}]
    /\ chan' = DropSenders(waiting[d])

\* ensure_slot: 0/0 removes; otherwise create, or change the limits without
\* dispatching.
EnsureSlot(d, c) ==
    /\ IF c = NoSlot
         THEN DropSlot(d)
         ELSE /\ limits' = [limits EXCEPT ![d] = c]
              /\ UNCHANGED <<next_id, waiting, inflight, chan>>
    /\ UNCHANGED <<ask, rid, pc, indexVars, scan>>

\* retain_slots on a reload whose YAML does not list d.
RetainSlots(d) ==
    /\ limits[d] # NoSlot
    /\ DropSlot(d)
    /\ UNCHANGED <<ask, rid, pc, indexVars, scan>>

PeriodicDispatch(d) ==
    /\ limits[d] # NoSlot
    /\ Dispatch(d, rid, waiting[d], inflight[d], chan)
    /\ UNCHANGED <<ask, limits, next_id, rid, pc, indexVars, scan>>

-----------------------------------------------------------------------------
Task(r) ==
    \/ AcquireNoSlot(r) \/ AcquireReject(r) \/ AcquireEnqueue(r) \/ IndexPush(r)
    \/ Granted(r) \/ SenderGone(r) \/ TimerFires(r) \/ TimeoutLookup(r)
    \/ Cancel(r) \/ CancelCleanup(r) \/ Release(r) \/ FinishPassthrough(r)
    \/ Unref(r) \/ Reap(r)

Status(k) == StatusBegin(k) \/ StatusLookup(k) \/ StatusClean(k) \/ StatusReap(k)

Next ==
    \/ \E r \in Requests : Task(r)
    \/ \E k \in Keys : Status(k)
    \/ \E d \in Deployments, c \in Configs : EnsureSlot(d, c)
    \/ \E d \in Removable : RetainSlots(d)
    \/ \E d \in Deployments : PeriodicDispatch(d)

Spec == Init /\ [][Next]_vars

(***************************************************************************)
(* Tasks are polled by the runtime, upstream calls are bounded by the      *)
(* provider's timeout and the dispatcher runs every second.  Nothing       *)
(* forces a client to connect or disconnect, a timer to fire, a dashboard  *)
(* query or a reload.                                                      *)
(***************************************************************************)
Fairness ==
    /\ \A r \in Requests :
         WF_vars(\/ IndexPush(r) \/ Granted(r) \/ SenderGone(r) \/ TimeoutLookup(r)
                 \/ CancelCleanup(r) \/ Release(r) \/ FinishPassthrough(r)
                 \/ Unref(r) \/ Reap(r))
    /\ \A d \in Deployments : WF_vars(PeriodicDispatch(d))

FairSpec == Spec /\ Fairness

-----------------------------------------------------------------------------
(***************************************************************************)
(* Properties that hold of every execution.                                *)
(***************************************************************************)

\* No entry outlives its request: whatever interleaving of grants, timeouts,
\* disconnects and slot re-creations (with ids starting again at 0), an entry
\* of a slot belongs to a request whose own removal is still to come, so no
\* unit of capacity is ever lost ("counter leaks structurally impossible").
NoLeakedEntry ==
    \A d \in Deployments : \A e \in Entries(d) : ask[e].dep = d /\ pc[e] \in Live

Started(d) == inflight'[d] \ inflight[d]

\* dispatch() grants only within the limits in force: whenever a request of a
\* slot becomes in-flight, those in flight afterwards respect max_inflight and
\* max_context, also when the limits were lowered below the load before.
CapacityRespected ==
    [][\A d \in Deployments : Started(d) # {} =>
          /\ limits[d].max_inflight > 0 => Cardinality(inflight'[d]) <= limits[d].max_inflight
          /\ limits[d].max_context > 0 => UsedContext(inflight'[d]) <= limits[d].max_context]_vars

Starved(d) == \E r \in waiting[d] : Fits(limits[d], inflight[d], r)

\* No lost wake-up: a request that fits is never left waiting by a release,
\* a disconnect, a timeout or a grant that nobody received; only a change of
\* the limits (ensure_slot does not dispatch) leaves one to the next tick.
WorkConserving ==
    [][\A d \in Deployments :
          Starved(d)' /\ ~Starved(d) => limits'[d] # limits[d]]_vars

\* Priority: a request is granted while one with precedence (VIP over normal,
\* earlier over later) stays waiting only if that one would not have fitted
\* in its place.
PriorityRespected ==
    [][\A d \in Deployments : \A n \in Started(d), v \in waiting'[d] :
          \/ ask[v].vip /\ ~ask[n].vip
          \/ ask[v].vip = ask[n].vip /\ rid'[v] < rid'[n]
          => ~Fits(limits[d], inflight'[d] \ {n}, v)]_vars

\* The queue is the source of truth while slots are only resized: a request
\* whose receiver is alive waits if and only if its entry does, and one that
\* was granted is in flight until it removes itself.
QueueIsTruth ==
    \A r \in Requests : pc[r] \in Live /\ chan[r] # "closed" =>
        \/ chan[r] = "empty" /\ r \in waiting[ask[r].dep]
        \/ chan[r] = "sent" /\ r \in inflight[ask[r].dep]

\* The reverse index names no finished request while slots are only resized:
\* every path out of acquire and the guard removes the ref it pushed.
RefsAreLive ==
    \A k \in Keys : \A ref \in refs[k] : \E r \in Requests :
        /\ ask[r].key = k
        /\ ref = <<ask[r].dep, rid[r]>>
        /\ pc[r] \in (Live \ {"enqueued"}) \cup {"unref"}

\* A queued request is eventually granted, or leaves on its own account, with
\* no help from its timeout, as long as its context fits every configuration.
WaitersAreServed ==
    \A r \in Requests : pc[r] = "waiting" ~> pc[r] # "waiting"

-----------------------------------------------------------------------------
(***************************************************************************)
(* What the documentation says and the code does not do.                   *)
(***************************************************************************)

\* "Max concurrent in-flight requests": as many guards are held for a
\* deployment as its slot allows.
AdmittedWithinLimit ==
    \A d \in Deployments : limits[d].max_inflight > 0 =>
        Cardinality({r \in Requests : pc[r] = "holding" /\ ask[r].dep = d})
            <= limits[d].max_inflight

-----------------------------------------------------------------------------
(***************************************************************************)
(* The inductive invariant behind NoLeakedEntry.  A request is gone from   *)
(* its slot when its task ends because the lookup by id finds the          *)
(* request's own entry if there is one: ids are distinct within a slot.    *)
(***************************************************************************)
IdsDistinct == \A d \in Deployments : \A e, f \in Entries(d) : rid[e] = rid[f] => e = f

IdsDrawn == \A d \in Deployments : \A e \in Entries(d) : rid[e] < next_id[d]

Disjoint == \A d \in Deployments : waiting[d] \cap inflight[d] = {}

NoSlotNoEntries == \A d \in Deployments : limits[d] = NoSlot => Entries(d) = {}

SendersHeld == \A d \in Deployments : \A e \in Entries(d) : chan[e] # "dropped"

EntryInv ==
    /\ TypeOK
    /\ NoLeakedEntry
    /\ IdsDistinct
    /\ IdsDrawn
    /\ Disjoint
    /\ NoSlotNoEntries
    /\ SendersHeld

(***************************************************************************)
(* The strengthening behind QueueIsTruth and RefsAreLive.  While slots are *)
(* only resized an id is never drawn twice, so a lookup finds the          *)
(* request's own entry or nothing, a grant is never lost with a slot, and  *)
(* the ref a request removes is the one that it pushed.                    *)
(***************************************************************************)
OnlyResized == Removable = {} /\ NoSlot \notin Configs

\* The request drew an id and made its channel.
Ticketed(r) == chan[r] # "none"

TicketsHeld ==
    \A r \in Requests :
        /\ pc[r] = "idle" => ~Ticketed(r)
        /\ pc[r] \in Live \cup {"unref"} => Ticketed(r)

TicketsDrawn ==
    \A r \in Requests : Ticketed(r) =>
        limits[ask[r].dep] # NoSlot /\ rid[r] < next_id[ask[r].dep]

TicketsUnique ==
    \A r, s \in Requests :
        Ticketed(r) /\ Ticketed(s) /\ ask[r].dep = ask[s].dep /\ rid[r] = rid[s] => r = s

TicketInv ==
    /\ EntryInv
    /\ TicketsHeld
    /\ TicketsDrawn
    /\ TicketsUnique
    /\ QueueIsTruth
    /\ RefsAreLive

=============================================================================
