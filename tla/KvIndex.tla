------------------------------- MODULE KvIndex -------------------------------
(***************************************************************************)
(* TokenPrefixIndex (token_prefix.rs): which worker has seen which request *)
(* prefix.  A trie with a lock per node, a reverse lookup by (worker,      *)
(* block), an LRU queue that bounds it and timers that expire it, each     *)
(* under a lock of its own; recording tasks, queries and the TTL sweep     *)
(* interleave between the locks.  A block is known by its hash; there is   *)
(* one model.  Nodes have an identity because a node can be cut off while  *)
(* a task or the lookup still holds it.                                    *)
(***************************************************************************)
EXTENDS Naturals, Sequences, SequencesExt, FiniteSets

CONSTANTS
    Workers, Blocks,
    Nodes,       \* bound: the heap; node 1 is the root
    Nil,
    MaxBlocks,   \* capacity of the LRU queue
    Writers,     \* recording tasks at a time (the permits of record_semaphore)
    Readers      \* queries at a time

Root == 1
ASSUME IndexAssumption == Root \in Nodes /\ Nil \notin Nodes
BlockKeys == Workers \X Blocks

VARIABLES
    child,    \* per node and block: the next node
    marks,    \* per node: Block.workers
    path,     \* history: per node, the blocks that lead to it
    lookup,   \* block_lookup
    lru,      \* lru_queue, least recently used first
    timer,    \* prune_timers: "none", "fresh", "old" (past the TTL)
    wr,       \* recording tasks
    rd,       \* queries
    sweep,    \* prune_expired
    learned   \* history: per worker, the prefixes recorded for it

trieVars == <<child, marks, path>>
indexVars == <<trieVars, lookup, lru, timer, wr, rd, sweep, learned>>

NoKids == [b \in Blocks |-> Nil]
IdleWriter == [at |-> "idle", w |-> Nil, p |-> <<>>, i |-> 0, cur |-> Root, evict |-> <<>>]
IdleReader == [at |-> "idle", p |-> <<>>, i |-> 0, cur |-> Root, matched |-> {}, depth |-> [w \in Workers |-> 0]]
IdleSweep == [at |-> "idle", key |-> Nil, cur |-> Root, todo |-> {}, done |-> {}]

IndexInit ==
    /\ child = [n \in Nodes |-> NoKids] /\ marks = [n \in Nodes |-> {}] /\ path = [n \in Nodes |-> <<>>]
    /\ lookup = [k \in BlockKeys |-> Nil] /\ lru = <<>> /\ timer = [k \in BlockKeys |-> "none"]
    /\ wr = [t \in Writers |-> IdleWriter] /\ rd = [r \in Readers |-> IdleReader] /\ sweep = IdleSweep
    /\ learned = [w \in Workers |-> {}]

\* What anybody still holds (Arc), and what can be reached from it.
Held ==
    {Root, sweep.cur} \cup ({lookup[k] : k \in BlockKeys} \ {Nil})
    \cup {wr[t].cur : t \in Writers} \cup {rd[r].cur : r \in Readers}
Closed(S) == Held \subseteq S /\ \A n \in S, b \in Blocks : child[n][b] \in S \cup {Nil}
Live == {n \in Nodes : \A S \in SUBSET Nodes : Closed(S) => n \in S}
FreshNode == CHOOSE n \in Nodes : n \notin Live
-----------------------------------------------------------------------------
(* record_request_prefix and apply_store_batch. *)

Writer(t, rec) == wr' = [wr EXCEPT ![t] = rec]
Block(t) == wr[t].p[wr[t].i]

\* The start of a recording, a part of the step of the call that asks for it.
RecordStart(t, w, p) ==
    /\ wr[t].at = "idle"
    /\ Writer(t, [IdleWriter EXCEPT !.at = "enter", !.w = w, !.p = p, !.i = 1])
    /\ learned' = [learned EXCEPT ![w] = @ \cup Prefixes(p)]

\* Find or create the child under the write lock of the node.
EnterChild(t) ==
    /\ wr[t].at = "enter"
    /\ LET here == wr[t].cur
           next == child[here][Block(t)]
       IN  IF next # Nil
           THEN Writer(t, [wr[t] EXCEPT !.at = "mark", !.cur = next]) /\ UNCHANGED trieVars
           ELSE LET new == FreshNode
                IN  /\ Live # Nodes
                    /\ Writer(t, [wr[t] EXCEPT !.at = "mark", !.cur = new])
                    /\ child' = [child EXCEPT ![here][Block(t)] = new, ![new] = NoKids]
                    /\ marks' = [marks EXCEPT ![new] = {}]
                    /\ path' = [path EXCEPT ![new] = Append(path[here], Block(t))]
    /\ UNCHANGED <<lookup, lru, timer, rd, sweep, learned>>

MarkChild(t) ==
    /\ wr[t].at = "mark" /\ Writer(t, [wr[t] EXCEPT !.at = "register"])
    /\ marks' = [marks EXCEPT ![wr[t].cur] = @ \cup {wr[t].w}]
    /\ UNCHANGED <<child, path, lookup, lru, timer, rd, sweep, learned>>

RegisterFromRoot(t) ==   \* mutant: the walk does not descend
    /\ wr[t].at = "register"
    /\ lookup' = [lookup EXCEPT ![<<wr[t].w, Block(t)>>] = wr[t].cur]
    /\ Writer(t, IF wr[t].i < Len(wr[t].p) THEN [wr[t] EXCEPT !.at = "enter", !.i = @ + 1, !.cur = Root]
                 ELSE [wr[t] EXCEPT !.at = "queue"])
    /\ UNCHANGED <<trieVars, lru, timer, rd, sweep, learned>>

Register(t) ==
    /\ wr[t].at = "register"
    /\ lookup' = [lookup EXCEPT ![<<wr[t].w, Block(t)>>] = wr[t].cur]
    /\ Writer(t, IF wr[t].i < Len(wr[t].p) THEN [wr[t] EXCEPT !.at = "enter", !.i = @ + 1]
                 ELSE [wr[t] EXCEPT !.at = "queue"])
    /\ UNCHANGED <<trieVars, lru, timer, rd, sweep, learned>>

\* LruCache::get and push: what is known moves to the end, what is new may
\* push the least recently used key out.  s is <<queue, evicted>>.
Push(s, k) ==
    IF Contains(s[1], k) THEN <<Append(Remove(s[1], k), k), s[2]>>
    ELSE IF Len(s[1]) < MaxBlocks THEN <<Append(s[1], k), s[2]>>
    ELSE <<Append(Tail(s[1]), k), Append(s[2], Head(s[1]))>>

\* Timers and queue for the whole batch, both locks held.
QueueBatch(t) ==
    /\ wr[t].at = "queue"
    /\ LET batch == [i \in 1 .. Len(wr[t].p) |-> <<wr[t].w, wr[t].p[i]>>]
           s == FoldLeft(Push, <<lru, <<>>>>, batch)
       IN  /\ lru' = s[1]
           /\ timer' = [k \in BlockKeys |-> IF Contains(batch, k) THEN "fresh" ELSE timer[k]]
           /\ Writer(t, IF s[2] = <<>> THEN IdleWriter
                        ELSE [wr[t] EXCEPT !.at = "evict", !.evict = s[2], !.cur = Root])
    /\ UNCHANGED <<trieVars, lookup, rd, sweep, learned>>

\* evict_single_block: the node is taken from the lookup ...
FindBlock(t) ==
    /\ wr[t].at = "evict"
    /\ \E k \in BlockKeys :
          /\ k = Head(wr[t].evict)
          /\ Writer(t, IF lookup[k] = Nil THEN [wr[t] EXCEPT !.at = "untime"]
                       ELSE [wr[t] EXCEPT !.at = "unmark", !.cur = lookup[k]])
    /\ UNCHANGED <<trieVars, lookup, lru, timer, rd, sweep, learned>>

\* ... the worker leaves it, under its lock, and a node without workers drops its children ...
Unmark(n, w) ==
    /\ marks' = [marks EXCEPT ![n] = @ \ {w}]
    /\ child' = IF marks[n] \ {w} = {} THEN [child EXCEPT ![n] = NoKids] ELSE child
    /\ path' = path

EvictBlock(t) ==
    /\ wr[t].at = "unmark" /\ Unmark(wr[t].cur, Head(wr[t].evict)[1])
    /\ Writer(t, [wr[t] EXCEPT !.at = "unlook", !.cur = Root])
    /\ UNCHANGED <<lookup, lru, timer, rd, sweep, learned>>

\* ... then the lookup entry goes, whatever it names by now ...
Unlook(t) ==
    /\ wr[t].at = "unlook" /\ Writer(t, [wr[t] EXCEPT !.at = "untime"])
    /\ lookup' = [lookup EXCEPT ![Head(wr[t].evict)] = Nil]
    /\ UNCHANGED <<trieVars, lru, timer, rd, sweep, learned>>

\* ... the timer ...
Untime(t) ==
    /\ wr[t].at = "untime" /\ Writer(t, [wr[t] EXCEPT !.at = "unqueue"])
    /\ timer' = [timer EXCEPT ![Head(wr[t].evict)] = "none"]
    /\ UNCHANGED <<trieVars, lookup, lru, rd, sweep, learned>>

\* ... and the queue entry, unless somebody holds the lock of the queue.
Unqueue(t) ==
    /\ wr[t].at = "unqueue"
    /\ \/ lru' = SelectSeq(lru, LAMBDA k : k # Head(wr[t].evict))
       \/ ((\E u \in Writers \ {t} : wr[u].at = "queue") \/ sweep.at = "unqueue") /\ UNCHANGED lru
    /\ Writer(t, IF Len(wr[t].evict) = 1 THEN IdleWriter
                 ELSE [wr[t] EXCEPT !.at = "evict", !.evict = Tail(@)])
    /\ UNCHANGED <<trieVars, lookup, timer, rd, sweep, learned>>
-----------------------------------------------------------------------------
(* prune_expired. *)

\* The TTL passes for everything stored so far.
TimersAge ==
    /\ \E k \in BlockKeys : timer[k] = "fresh"
    /\ timer' = [k \in BlockKeys |-> IF timer[k] = "fresh" THEN "old" ELSE timer[k]]
    /\ UNCHANGED <<trieVars, lookup, lru, wr, rd, sweep, learned>>

SweepStart ==
    /\ sweep.at = "idle" /\ \E k \in BlockKeys : timer[k] = "old"
    /\ sweep' = [IdleSweep EXCEPT !.at = "evict", !.todo = {k \in BlockKeys : timer[k] = "old"}]
    /\ timer' = [k \in BlockKeys |-> IF timer[k] = "old" THEN "none" ELSE timer[k]]
    /\ UNCHANGED <<trieVars, lookup, lru, wr, rd, learned>>

\* Worker by worker, as above.
SweepDone(k) ==
    LET rest == sweep.todo \ {k}
    IN  sweep' = [at |-> IF \E x \in rest : x[1] = k[1] THEN "evict" ELSE "unqueue",
                  key |-> Nil, cur |-> Root, todo |-> rest, done |-> sweep.done \cup {k}]

SweepFind(k) ==
    /\ sweep.at = "evict" /\ k \in sweep.todo /\ \A d \in sweep.done : d[1] = k[1]
    /\ IF lookup[k] = Nil THEN SweepDone(k)
       ELSE sweep' = [sweep EXCEPT !.at = "unmark", !.key = k, !.cur = lookup[k]]
    /\ UNCHANGED <<trieVars, lookup, lru, timer, wr, rd, learned>>

SweepEvict ==
    /\ sweep.at = "unmark" /\ Unmark(sweep.cur, sweep.key[1])
    /\ sweep' = [sweep EXCEPT !.at = "unlook", !.cur = Root]
    /\ UNCHANGED <<lookup, lru, timer, wr, rd, learned>>

SweepUnlook ==
    /\ sweep.at = "unlook" /\ SweepDone(sweep.key)
    /\ lookup' = [lookup EXCEPT ![sweep.key] = Nil]
    /\ UNCHANGED <<trieVars, lru, timer, wr, rd, learned>>

SweepUnqueue ==
    /\ sweep.at = "unqueue"
    /\ lru' = SelectSeq(lru, LAMBDA k : k \notin sweep.done)
    /\ sweep' = IF sweep.todo = {} THEN IdleSweep ELSE [sweep EXCEPT !.at = "evict", !.done = {}]
    /\ UNCHANGED <<trieVars, lookup, timer, wr, rd, learned>>
-----------------------------------------------------------------------------
(* find_matches, hand over hand. *)

Reader(r, rec) == rd' = [rd EXCEPT ![r] = rec]

QueryStart(r, p, candidates) ==
    /\ rd[r].at = "idle"
    /\ Reader(r, [IdleReader EXCEPT !.at = "enter", !.p = p, !.i = 1, !.matched = candidates])
    /\ UNCHANGED <<trieVars, lookup, lru, timer, wr, sweep, learned>>

QueryEnter(r) ==
    /\ rd[r].at = "enter"
    /\ LET next == child[rd[r].cur][rd[r].p[rd[r].i]]
       IN  Reader(r, IF next = Nil THEN [rd[r] EXCEPT !.at = "done", !.cur = Root]
                     ELSE [rd[r] EXCEPT !.at = "read", !.cur = next])
    /\ UNCHANGED <<trieVars, lookup, lru, timer, wr, sweep, learned>>

QueryRead(r) ==
    /\ rd[r].at = "read"
    /\ LET still == marks[rd[r].cur] \cap rd[r].matched
           last == still = {} \/ rd[r].i = Len(rd[r].p)
       IN  Reader(r, [rd[r] EXCEPT !.at = IF last THEN "done" ELSE "enter", !.matched = still,
                        !.depth = [w \in Workers |-> IF w \in still THEN rd[r].i ELSE @[w]],
                        !.cur = IF last THEN Root ELSE @, !.i = IF last THEN @ ELSE @ + 1])
    /\ UNCHANGED <<trieVars, lookup, lru, timer, wr, sweep, learned>>

WriterStep(t) ==
    \/ EnterChild(t) \/ MarkChild(t) \/ Register(t) \/ QueueBatch(t)
    \/ FindBlock(t) \/ EvictBlock(t) \/ Unlook(t) \/ Untime(t) \/ Unqueue(t)
SweepStep ==
    SweepStart \/ (\E k \in BlockKeys : SweepFind(k)) \/ SweepEvict \/ SweepUnlook \/ SweepUnqueue
ReaderStep(r) == QueryEnter(r) \/ QueryRead(r)
-----------------------------------------------------------------------------
\* A worker that a query reports with a depth has been sent a request that
\* began with exactly these blocks: evictions, cut-off nodes and concurrent
\* recordings never credit a worker with a prefix it has not seen (find_matches).
MatchesAreReal ==
    \A r \in Readers, w \in Workers :
        rd[r].depth[w] > 0 => SubSeq(rd[r].p, 1, rd[r].depth[w]) \in learned[w]
=============================================================================
