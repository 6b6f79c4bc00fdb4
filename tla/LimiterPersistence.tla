------------------------ MODULE LimiterPersistence ------------------------
(***************************************************************************)
(* Lifetime totals of boom-limiter between memory and database: the        *)
(* settlement of requests, the sync task, the administrator's resets,      *)
(* restarts and failing statements.                                        *)
(*                                                                         *)
(* A total is changed in memory first and its key is entered in the dirty  *)
(* set afterwards, under another lock.  The sync task takes the dirty set  *)
(* away, then reads each total and writes its row; resets change memory    *)
(* and rows on their own, in orders of their own.  All of them interleave. *)
(*                                                                         *)
(* Abstractions.  The six lifetime counters of a scope have keys of their  *)
(* own and never meet: there is one total per scope, and a missing entry   *)
(* or row is 0, which is how both are read.  A window is only live or not, *)
(* which is what decides whether the sync task does anything.              *)
(***************************************************************************)
EXTENDS Integers, Sequences, FiniteSets, Functions

CONSTANTS
    Keys,           \* API keys
    Team,           \* a team
    Members,        \* the keys that belong to it
    Requests,       \* requests whose usage is settled
    KeyOf,          \* the key of each request
    Charged,        \* requests checked against a plan of the team as well
    Windowed,       \* scopes whose plan has windows
    Usages,         \* usage that a provider reports
    Admins,         \* administrators' connections
    Resets,         \* the resets that they use
    MaxTroubles,    \* bound on restarts, failing statements, clear_all()s and
                    \* resets beside another
    None            \* no scope

Scopes == Keys \cup {Team}

Kinds == {"all", "totals", "windows"}

ASSUME PersistenceConstants ==
    /\ IsFiniteSet(Members) /\ IsFiniteSet(Requests) /\ IsFiniteSet(Admins)
    /\ Team \notin Keys
    /\ None \notin Scopes
    /\ Members \subseteq Keys
    /\ KeyOf \in [Requests -> Keys]
    /\ Charged \subseteq {r \in Requests : KeyOf[r] \in Members}
    /\ Windowed \subseteq Scopes
    /\ Usages \subseteq Nat \ {0}
    /\ Resets \subseteq Admins \X Kinds \X Scopes
    /\ MaxTroubles \in Nat

VARIABLES
    mem,        \* cumulative: the totals in memory
    row,        \* boom_rate_limit_cumulative: the totals in the database
    dirty,      \* dirty_cumulative
    win,        \* scopes with a live window in memory
    wrow,       \* scopes with a live row in boom_rate_limit_state
    task,       \* where the accounting of each request is
    sync,       \* the sync task
    admin,      \* the administrators' handlers
    wipe,       \* scopes that a running clear_all() has yet to clear
    lost,       \* history: scopes whose row the code has given up
    short,      \* history: what the team's total may lack of its members' usage
    troubles,   \* history: restarts, failing statements and clear_all()s so far
    crossings   \* history: resets begun beside another one so far

limiter == <<mem, dirty, win>>
database == <<row, wrow>>
counts == <<troubles, crossings>>
history == <<lost, short, counts>>
vars == <<limiter, database, task, sync, admin, wipe, history>>

(***************************************************************************)
(* The states of the parties.                                              *)
(***************************************************************************)
Tasks == [pc : {"idle", "committed", "markKey", "addTeam", "markTeam", "done"},
          usage : Nat]

NewTask == [pc |-> "idle", usage |-> 0]

\* sync_counters_to_db: the windows still to be written, the taken dirty set
\* and the total that has been read and not been written.
Syncs == [pc : {"idle", "windows", "totals"}, snap : SUBSET Scopes,
          todo : SUBSET Scopes, cur : Scopes \cup {None}, value : Int]

IdleSync == [pc |-> "idle", snap |-> {}, todo |-> {}, cur |-> None, value |-> 0]

Statements == {"zero", "mark", "clear", "delRow", "delWin", "sub"}

\* A reset: its statements on one scope, and the member keys still to come.
Handlers == [kind : Kinds, scope : Scopes \cup {None}, todo : Seq(Statements),
             rest : SUBSET Keys, cascade : BOOLEAN, prev : Nat]

IdleHandler == [kind |-> "all", scope |-> None, todo |-> << >>, rest |-> {},
                cascade |-> FALSE, prev |-> 0]

Idle(a) == admin[a].todo = << >> /\ admin[a].rest = {}

\* Mutant: the team is corrected in a cascade too.
KeyStepsCorrecting(kind, k, cascade) ==
    CASE kind = "all" -> <<"zero", "mark", "clear", "delRow", "delWin">>
      [] kind = "totals" -> <<"zero", "mark", "delRow", "sub">>
      [] kind = "windows" -> <<"clear", "delWin">>

\* The statements of a reset on a key: clear_key_all(), clear_key_cumulative_db()
\* (which corrects the team unless it is part of a cascade) and
\* clear_key_windows_db().
KeySteps(kind, k, cascade) ==
    CASE kind = "all" -> <<"zero", "mark", "clear", "delRow", "delWin">>
      [] kind = "totals" -> IF ~cascade /\ k \in Members
                            THEN <<"zero", "mark", "delRow", "sub">>
                            ELSE <<"zero", "mark", "delRow">>
      [] kind = "windows" -> <<"clear", "delWin">>

\* The same for the team, before the cascade to its members: reset_team_all(),
\* clear_team_cumulative_db() and clear_team_windows_db().
TeamSteps(kind) ==
    CASE kind = "all" -> <<"delRow", "delWin", "zero", "mark", "clear">>
      [] kind = "totals" -> <<"delRow", "zero", "mark">>
      [] kind = "windows" -> <<"delWin", "clear">>

Init ==
    /\ mem = [s \in Scopes |-> 0]
    /\ row = [s \in Scopes |-> 0]
    /\ dirty = {}
    /\ win = {}
    /\ wrow = {}
    /\ task = [r \in Requests |-> NewTask]
    /\ sync = IdleSync
    /\ admin = [a \in Admins |-> IdleHandler]
    /\ wipe = {}
    /\ lost = {}
    /\ short = 0
    /\ troubles = 0
    /\ crossings = 0

(***************************************************************************)
(* Requests: PlanCharge::commit and PlanCharge::settle.                    *)
(***************************************************************************)
\* A failure, a restart or a clear_all() happens.
Trouble ==
    /\ troubles + crossings < MaxTroubles
    /\ troubles' = troubles + 1

ScopesOf(r) == {KeyOf[r]} \cup (IF r \in Charged THEN {Team} ELSE {})

\* mark_dirty_cumulative: the next sync will write the row.
MarkDirty(s) ==
    /\ dirty' = dirty \cup {s}
    /\ lost' = lost \ {s}

\* commit_counts() creates or rolls the windows of the key and the team.
Commit(r) ==
    /\ task[r].pc = "idle"
    /\ task' = [task EXCEPT ![r].pc = "committed"]
    /\ win' = win \cup (ScopesOf(r) \cap Windowed)
    /\ UNCHANGED <<mem, dirty, database, sync, admin, wipe, history>>

\* settle_usage() on the key: the windows, then add_cumulative() up to the
\* end of its block.
AddKey(r) ==
    /\ task[r].pc = "committed"
    /\ \E u \in Usages :
        /\ mem' = [mem EXCEPT ![KeyOf[r]] = @ + u]
        /\ task' = [task EXCEPT ![r] = [pc |-> "markKey", usage |-> u]]
        /\ short' = IF KeyOf[r] \in Members /\ r \notin Charged THEN short + u ELSE short
    /\ win' = win \cup ({KeyOf[r]} \cap Windowed)
    /\ UNCHANGED <<dirty, database, sync, admin, wipe, lost, counts>>

MarkKey(r) ==
    /\ task[r].pc = "markKey"
    /\ MarkDirty(KeyOf[r])
    /\ task' = [task EXCEPT ![r].pc = IF r \in Charged THEN "addTeam" ELSE "done"]
    /\ UNCHANGED <<mem, win, database, sync, admin, wipe, short, counts>>

\* settle_usage() on the team.
AddTeam(r) ==
    /\ task[r].pc = "addTeam"
    /\ mem' = [mem EXCEPT ![Team] = @ + task[r].usage]
    /\ win' = win \cup ({Team} \cap Windowed)
    /\ task' = [task EXCEPT ![r].pc = "markTeam"]
    /\ UNCHANGED <<dirty, database, sync, admin, wipe, history>>

MarkTeam(r) ==
    /\ task[r].pc = "markTeam"
    /\ MarkDirty(Team)
    /\ task' = [task EXCEPT ![r].pc = "done"]
    /\ UNCHANGED <<mem, win, database, sync, admin, wipe, short, counts>>

\* A window elapses, and with it the row and a snapshot of it, which are not
\* younger; a row that outlived its window (a reset) elapses on its own.
Expire(s) ==
    /\ \/ s \in win /\ win' = win \ {s}
       \/ s \in wrow \cup sync.snap /\ UNCHANGED win
    /\ wrow' = wrow \ {s}
    /\ sync' = [sync EXCEPT !.snap = @ \ {s}]
    /\ UNCHANGED <<mem, dirty, row, task, admin, wipe, history>>

(***************************************************************************)
(* The sync task: every ten minutes, sync_counters_to_db() within 30 s.    *)
(***************************************************************************)
\* The whole sync, totals included, depends on a live window.
SyncNeeded == win # {}

SyncBegin ==
    /\ sync.pc = "idle"
    /\ SyncNeeded
    /\ sync' = [sync EXCEPT !.pc = "windows", !.snap = win]
    /\ UNCHANGED <<limiter, database, task, admin, wipe, history>>

\* Otherwise the task goes back to sleep (after the removal of elapsed windows).
SyncSkip ==
    /\ sync.pc = "idle"
    /\ ~SyncNeeded
    /\ UNCHANGED vars

WriteWindow(s) ==
    /\ sync.pc = "windows"
    /\ s \in sync.snap
    /\ wrow' = wrow \cup {s}
    /\ sync' = [sync EXCEPT !.snap = @ \ {s}]
    /\ UNCHANGED <<limiter, row, task, admin, wipe, history>>

\* take_dirty_cumulative
TakeDirty ==
    /\ sync.pc = "windows"
    /\ sync.snap = {}
    /\ sync' = [sync EXCEPT !.pc = "totals", !.todo = dirty]
    /\ dirty' = {}
    /\ UNCHANGED <<mem, win, database, task, admin, wipe, history>>

\* The total is read before the statement is sent.
ReadTotal(s) ==
    /\ sync.pc = "totals"
    /\ sync.cur = None
    /\ s \in sync.todo
    /\ sync' = [sync EXCEPT !.todo = @ \ {s}, !.cur = s, !.value = mem[s]]
    /\ UNCHANGED <<limiter, database, task, admin, wipe, history>>

\* upsert_cumulative_db
WriteTotal ==
    /\ sync.cur # None
    /\ row' = [row EXCEPT ![sync.cur] = sync.value]
    /\ sync' = [sync EXCEPT !.cur = None, !.value = 0]
    /\ UNCHANGED <<limiter, wrow, task, admin, wipe, history>>

\* Mutant: the dirty set is emptied once more after the rows are written.
SyncEndClearing ==
    /\ sync.pc = "totals"
    /\ sync.cur = None
    /\ sync.todo = {}
    /\ sync' = IdleSync
    /\ dirty' = {}
    /\ UNCHANGED <<mem, win, database, task, admin, wipe, history>>

SyncEnd ==
    /\ sync.pc = "totals"
    /\ sync.cur = None
    /\ sync.todo = {}
    /\ sync' = IdleSync
    /\ UNCHANGED <<limiter, database, task, admin, wipe, history>>

\* A failing statement ends the sync by `?', the timeout drops its future: the
\* keys that were taken and not written are not entered again.
SyncFails ==
    /\ Trouble
    /\ sync.pc # "idle"
    /\ lost' = lost \cup sync.todo \cup ({sync.cur} \ {None})
    /\ sync' = IdleSync
    /\ UNCHANGED <<limiter, database, task, admin, wipe, short, crossings>>

(***************************************************************************)
(* Resets, one lock section or statement at a time.                        *)
(***************************************************************************)
\* A reset is begun while another one is under way, or not.
Crossing(a) ==
    IF \A b \in Admins \ {a} : Idle(b) THEN UNCHANGED crossings
    ELSE /\ troubles + crossings < MaxTroubles
         /\ crossings' = crossings + 1

\* The handlers look the members up, and clear the windows once more in
\* memory before the reset proper, unless only totals are asked for.
BeginReset(a, kind, s) ==
    /\ Idle(a)
    /\ <<a, kind, s>> \in Resets
    /\ admin' = [admin EXCEPT ![a] =
           [kind |-> kind, scope |-> s, prev |-> 0, cascade |-> s = Team,
            rest |-> IF s = Team THEN Members ELSE {},
            todo |-> IF s = Team THEN TeamSteps(kind) ELSE KeySteps(kind, s, FALSE)]]
    /\ win' = IF kind = "totals" THEN win
              ELSE win \ (IF s = Team THEN Members ELSE {s})
    /\ Crossing(a)
    /\ UNCHANGED <<mem, dirty, database, task, sync, wipe, lost, short, troubles>>

NextMember(a) ==
    /\ admin[a].todo = << >>
    /\ \E k \in admin[a].rest :
        admin' = [admin EXCEPT ![a].scope = k, ![a].rest = @ \ {k}, ![a].prev = 0,
                               ![a].todo = KeySteps(admin[a].kind, k, TRUE)]
    /\ UNCHANGED <<limiter, database, task, sync, wipe, history>>

\* The next statement of handler a, on scope s.
At(a, statement, s) ==
    /\ admin[a].todo # << >>
    /\ Head(admin[a].todo) = statement
    /\ admin[a].scope = s

\* What is left of a reset after its next statement.
After(h) == IF Len(h.todo) = 1 /\ h.rest = {} THEN IdleHandler
            ELSE [h EXCEPT !.todo = Tail(@)]

Advance(a) == admin' = [admin EXCEPT ![a] = After(@)]

Has(q, st) == \E i \in 1..Len(q) : q[i] = st

\* A cascade that clears totals.
Clears(h) == h.cascade /\ h.kind # "windows"

\* The members whose totals a cascade is going to clear.
Doomed ==
    {k \in Members : \E a \in Admins :
        /\ Clears(admin[a])
        /\ k \in admin[a].rest \/ (admin[a].scope = k /\ Has(admin[a].todo, "zero"))}

\* The reset of one key will correct its team.
Corrects(h) == Has(h.todo, "sub") /\ ~h.cascade

\* What the resets of single keys have taken and have still to subtract.
Subs == [a \in Admins |-> IF Corrects(admin[a]) THEN admin[a].prev ELSE 0]

(***************************************************************************)
(* Two resets that cross take usage from the team twice.  The reset of a   *)
(* key subtracts what it took from a total that a reset of the team has    *)
(* set to 0 since (which starts the account anew), or it takes what the    *)
(* cascade would have cleared along with the team.                         *)
(***************************************************************************)
ShortAfter(a, s) ==
    IF s = Team THEN SumFunctionOnSet(Subs, Admins)
    ELSE IF Corrects(admin[a]) /\ s \in Doomed THEN short + mem[s] ELSE short

\* Mutant: the previous total is not clamped at 0.
ZeroTotalUnclamped(a, s) ==
    /\ At(a, "zero", s)
    /\ mem' = [mem EXCEPT ![s] = 0]
    /\ admin' = [admin EXCEPT ![a].todo = Tail(@), ![a].prev = mem[s]]
    /\ UNCHANGED <<dirty, win, database, task, sync, wipe, history>>

\* reset_one_local, up to the end of its block
ZeroTotal(a, s) ==
    /\ At(a, "zero", s)
    /\ mem' = [mem EXCEPT ![s] = 0]
    /\ admin' = [admin EXCEPT ![a].todo = Tail(@),
                              ![a].prev = IF mem[s] > 0 THEN mem[s] ELSE 0]
    /\ short' = ShortAfter(a, s)
    /\ UNCHANGED <<dirty, win, database, task, sync, wipe, lost, counts>>

MarkReset(a, s) ==
    /\ At(a, "mark", s)
    /\ MarkDirty(s)
    /\ Advance(a)
    /\ UNCHANGED <<mem, win, database, task, sync, wipe, short, counts>>

\* clear_for_key
ClearWindows(a, s) ==
    /\ At(a, "clear", s)
    /\ win' = win \ {s}
    /\ Advance(a)
    /\ UNCHANGED <<mem, dirty, database, task, sync, wipe, history>>

\* The row goes whatever the total in memory is by now.
DeleteRow(a, s) ==
    /\ At(a, "delRow", s)
    /\ row' = [row EXCEPT ![s] = 0]
    /\ lost' = IF mem[s] = 0 THEN lost ELSE lost \cup {s}
    /\ Advance(a)
    /\ UNCHANGED <<limiter, wrow, task, sync, wipe, short, counts>>

DeleteWindow(a, s) ==
    /\ At(a, "delWin", s)
    /\ wrow' = wrow \ {s}
    /\ Advance(a)
    /\ UNCHANGED <<limiter, row, task, sync, wipe, history>>

\* add_cumulative_signed on the team: nothing to do when the key had nothing.
Subtract(a, s) ==
    /\ At(a, "sub", s)
    /\ IF admin[a].prev = 0
       THEN Advance(a) /\ UNCHANGED mem
       ELSE /\ mem' = [mem EXCEPT ![Team] = @ - admin[a].prev]
            /\ admin' = [admin EXCEPT ![a].scope = Team, ![a].prev = 0,
                                      ![a].todo = <<"mark">>]
    /\ UNCHANGED <<dirty, win, database, task, sync, wipe, history>>

\* A failing DELETE ends the reset, and the cascade, by `?'.
ResetFails(a) ==
    /\ Trouble
    /\ \E s \in Scopes : At(a, "delRow", s) \/ At(a, "delWin", s)
    /\ admin' = [admin EXCEPT ![a] = IdleHandler]
    /\ UNCHANGED <<limiter, database, task, sync, wipe, lost, short, crossings>>

\* clear_all() empties the windows, the totals shard by shard, and at last the
\* dirty set (None stands for it).  It leaves the rows alone.
WipeBegin ==
    /\ Trouble
    /\ wipe = {}
    /\ win' = {}
    /\ wipe' = Scopes \cup {None}
    /\ UNCHANGED <<mem, dirty, database, task, sync, admin, lost, short, crossings>>

WipeTotal(s) ==
    /\ s \in wipe
    /\ mem' = [mem EXCEPT ![s] = 0]
    /\ lost' = lost \cup {s}
    /\ wipe' = wipe \ {s}
    /\ UNCHANGED <<dirty, win, database, task, sync, admin, short, counts>>

WipeDirty ==
    /\ wipe = {None}
    /\ lost' = lost \cup dirty
    /\ dirty' = {}
    /\ wipe' = {}
    /\ UNCHANGED <<mem, win, database, task, sync, admin, short, counts>>

\* reset_limits_for_key() clears the windows of a key in memory only.
ResetLimits(k) ==
    /\ Admins # {}
    /\ k \in Keys \cap win
    /\ win' = win \ {k}
    /\ UNCHANGED <<mem, dirty, database, task, sync, admin, wipe, history>>

(***************************************************************************)
(* A restart: nothing is saved on the way down; restore_counters_from_db() *)
(* runs before the first request, and its failures are only logged.        *)
(***************************************************************************)
Restored(loaded) == [s \in Scopes |-> IF loaded THEN row[s] ELSE 0]

Restart ==
    /\ Trouble
    /\ \E loaded \in BOOLEAN :
        /\ mem' = Restored(loaded)
        /\ lost' = IF loaded THEN {} ELSE {s \in Scopes : row[s] # 0}
    /\ \E loaded \in BOOLEAN :
        win' = IF loaded THEN wrow ELSE {}
    /\ dirty' = {}
    /\ task' = [r \in Requests |->
                   IF task[r].pc = "idle" THEN task[r] ELSE [task[r] EXCEPT !.pc = "done"]]
    /\ sync' = IdleSync
    /\ admin' = [a \in Admins |-> IdleHandler]
    /\ wipe' = {}
    /\ UNCHANGED <<database, short, crossings>>

(***************************************************************************)
(* Specification.                                                          *)
(***************************************************************************)
RequestStep(r) == Commit(r) \/ AddKey(r) \/ MarkKey(r) \/ AddTeam(r) \/ MarkTeam(r)

SyncStep == \/ SyncBegin \/ SyncSkip
            \/ \E s \in Scopes : WriteWindow(s) \/ ReadTotal(s)
            \/ TakeDirty \/ WriteTotal \/ SyncEnd

ResetStep(a, s) == \/ ZeroTotal(a, s) \/ MarkReset(a, s) \/ ClearWindows(a, s)
                   \/ DeleteRow(a, s) \/ DeleteWindow(a, s) \/ Subtract(a, s)

AdminStep(a) == \/ \E s \in Scopes : ResetStep(a, s)
                \/ \E kind \in Kinds, s \in Scopes : BeginReset(a, kind, s)
                \/ NextMember(a) \/ ResetFails(a)

WipeStep == WipeBegin \/ (\E s \in Scopes : WipeTotal(s)) \/ WipeDirty

Next == \/ \E r \in Requests : RequestStep(r)
        \/ \E s \in Scopes : Expire(s)
        \/ \E k \in Keys : ResetLimits(k)
        \/ SyncStep
        \/ SyncFails
        \/ \E a \in Admins : AdminStep(a)
        \/ WipeStep
        \/ Restart

Spec == Init /\ [][Next]_vars

(***************************************************************************)
(* Properties.                                                             *)
(***************************************************************************)
\* Every variable has its type.
TypeOK ==
    /\ mem \in [Scopes -> Int]
    /\ row \in [Scopes -> Int]
    /\ dirty \subseteq Scopes
    /\ win \subseteq Scopes
    /\ wrow \subseteq Scopes
    /\ task \in [Requests -> Tasks]
    /\ sync \in Syncs
    /\ admin \in [Admins -> Handlers]
    /\ wipe \subseteq Scopes \cup {None}
    /\ lost \subseteq Scopes
    /\ short \in Int
    /\ troubles \in 0..MaxTroubles
    /\ crossings \in 0..MaxTroubles

\* Somebody is about to enter s in the dirty set.
AboutToMark(s) ==
    \/ \E r \in Requests : \/ task[r].pc = "markKey" /\ KeyOf[r] = s
                           \/ task[r].pc = "markTeam" /\ s = Team
    \/ \E a \in Admins : At(a, "mark", s)

\* Somebody still remembers that the row of s has to be written.
Remembered(s) == s \in dirty \/ AboutToMark(s) \/ s \in sync.todo \/ sync.cur = s

\* NothingForgotten: a total that differs from its row is remembered by the
\* dirty set, by the sync under way or by the task that has just changed it,
\* through every interleaving of settlements, sync and resets; the only ways to
\* forget it are those collected in lost: a sync that breaks off, a DELETE or
\* clear_all() that meets newer usage, a restore that fails.
NothingForgotten == \A s \in Scopes : mem[s] = row[s] \/ Remembered(s) \/ s \in lost

\* Nobody is between two steps of a settlement or a reset.
Quiet == /\ \A r \in Requests : task[r].pc \in {"idle", "committed", "done"}
         /\ \A a \in Admins : Idle(a)

\* ShortfallExplained: as long as no restart, failed statement or clear_all()
\* has interfered, a team's total, on which its limit is enforced, lacks no more
\* of its members' usage than the team was never charged for and than resets
\* that crossed took twice.  Settlement goes from key to team and a reset of a
\* team from team to keys, so that a request that crosses a reset counts too
\* much rather than too little.
ShortfallExplained ==
    troubles = 0 /\ Quiet => SumFunctionOnSet(mem, Members) <= mem[Team] + short

(***************************************************************************)
(* The inductive invariant behind ShortfallExplained.  What a settlement   *)
(* still owes the team is on the team's side already, what a reset has     *)
(* still to subtract is on the members' side, and a member that a cascade  *)
(* is going to clear does not count.                                       *)
(***************************************************************************)
HandlerShape(h) ==
    /\ \A i, j \in 1..Len(h.todo) : h.todo[i] = "zero" /\ h.todo[j] = "zero" => i = j
    /\ Has(h.todo, "zero") => h.prev = 0
    /\ Has(h.todo, "sub") => ~h.cascade /\ h.scope \in Members
    /\ h.scope = Team /\ Has(h.todo, "zero") => Clears(h) /\ h.rest = Members

Counted == [k \in Members |-> IF k \in Doomed THEN 0 ELSE mem[k]]

Owes == [r \in Requests |->
            IF r \in Charged /\ task[r].pc \in {"markKey", "addTeam"} THEN task[r].usage ELSE 0]

CoverInv ==
    troubles = 0 =>
        /\ wipe = {}
        /\ \A a \in Admins : HandlerShape(admin[a])
        /\ \A k \in Keys : mem[k] >= 0
        /\ short >= 0
        /\ SumFunctionOnSet(Counted, Members) + SumFunctionOnSet(Subs, Admins)
             <= mem[Team] + SumFunctionOnSet(Owes, Requests) + short
=============================================================================
