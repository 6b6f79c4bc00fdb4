--------------------- MODULE LimiterPersistenceProofs ---------------------
(***************************************************************************)
(* Proofs about LimiterPersistence: type correctness, that no total that   *)
(* differs from its row is forgotten, and that the team's total covers its *)
(* members' totals, for every number of keys, requests, administrators and *)
(* troubles.                                                               *)
(***************************************************************************)
EXTENDS LimiterPersistence, SumTheorems

(***************************************************************************)
(* The inductive invariant.                                                *)
(***************************************************************************)
\* In what is left of a reset, a total that is zeroed is marked next.
ZeroThenMark(q) ==
    \A i \in 1..Len(q) : q[i] = "zero" => i + 1 \in 1..Len(q) /\ q[i + 1] = "mark"

ScriptsMark == \A a \in Admins : ZeroThenMark(admin[a].todo)

\* The sync holds totals only while it writes them.
SyncShape == sync.pc # "totals" => sync.todo = {} /\ sync.cur = None

\* The value that the sync has read is still right, or will be read again.
ValueCurrent ==
    sync.cur # None => \/ sync.value = mem[sync.cur]
                       \/ sync.cur \in dirty
                       \/ AboutToMark(sync.cur)
                       \/ sync.cur \in lost

ForgetInv == TypeOK /\ ScriptsMark /\ SyncShape /\ ValueCurrent /\ NothingForgotten

(***************************************************************************)
(* The scripts of the resets.                                              *)
(***************************************************************************)
\* The statements of a reset on a key are statements, and mark what they zero.
LEMMA KeyScripts ==
    ASSUME NEW kind \in Kinds, NEW k, NEW c \in BOOLEAN
    PROVE  /\ KeySteps(kind, k, c) \in Seq(Statements)
           /\ ZeroThenMark(KeySteps(kind, k, c))
  <1>1. CASE kind = "all"
    BY <1>1 DEF KeySteps, Statements, ZeroThenMark
  <1>2. CASE kind = "totals"
    <2>1. CASE ~c /\ k \in Members
      <3>1. KeySteps(kind, k, c) = <<"zero", "mark", "delRow", "sub">>
        BY <1>2, <2>1 DEF KeySteps
      <3> QED BY <3>1 DEF Statements, ZeroThenMark
    <2>2. CASE ~(~c /\ k \in Members)
      <3>1. KeySteps(kind, k, c) = <<"zero", "mark", "delRow">>
        BY <1>2, <2>2 DEF KeySteps
      <3> QED BY <3>1 DEF Statements, ZeroThenMark
    <2> QED BY <2>1, <2>2
  <1>3. CASE kind = "windows"
    BY <1>3 DEF KeySteps, Statements, ZeroThenMark
  <1> QED BY <1>1, <1>2, <1>3 DEF Kinds

\* The same for the statements of a reset on the team.
LEMMA TeamScripts ==
    ASSUME NEW kind \in Kinds
    PROVE  /\ TeamSteps(kind) \in Seq(Statements)
           /\ ZeroThenMark(TeamSteps(kind))
  <1>1. CASE kind = "all"
    BY <1>1 DEF TeamSteps, Statements, ZeroThenMark
  <1>2. CASE kind = "totals"
    BY <1>2 DEF TeamSteps, Statements, ZeroThenMark
  <1>3. CASE kind = "windows"
    BY <1>3 DEF TeamSteps, Statements, ZeroThenMark
  <1> QED BY <1>1, <1>2, <1>3 DEF Kinds

\* What is left of a script after its first statement.
LEMMA TailScript ==
    ASSUME NEW q \in Seq(Statements), q # << >>, ZeroThenMark(q)
    PROVE  /\ Tail(q) \in Seq(Statements)
           /\ ZeroThenMark(Tail(q))
           /\ Head(q) = "zero" => Tail(q) # << >> /\ Head(Tail(q)) = "mark"
  <1>1. /\ Tail(q) \in Seq(Statements)
        /\ Len(Tail(q)) = Len(q) - 1
        /\ \A i \in 1..Len(Tail(q)) : Tail(q)[i] = q[i + 1]
        /\ Len(q) \in Nat /\ Len(q) > 0
    OBVIOUS
  <1>2. ZeroThenMark(Tail(q))
    BY <1>1 DEF ZeroThenMark
  <1>3. ASSUME Head(q) = "zero" PROVE Tail(q) # << >> /\ Head(Tail(q)) = "mark"
    <2>1. Len(q) > 1 /\ q[2] = "mark"
      BY <1>1, <1>3 DEF ZeroThenMark
    <2>2. Len(Tail(q)) > 0 /\ Tail(q)[1] = "mark"
      BY <1>1, <2>1
    <2>3. Head(Tail(q)) = Tail(q)[1]
      BY <1>1, <2>2
    <2>4. Tail(q) # << >>
      <3>1. Len(<< >>) = 0
        OBVIOUS
      <3>2. Len(Tail(q)) # 0
        BY <1>1, <2>2
      <3> QED BY <3>1, <3>2, Zenon
    <2> QED BY <2>2, <2>3, <2>4
  <1> QED BY <1>1, <1>2, <1>3

\* An idle handler is a handler, and a handler stays one after a statement.
LEMMA AfterStatement ==
    ASSUME NEW h \in Handlers, h.todo # << >>, ZeroThenMark(h.todo)
    PROVE  /\ After(h) \in Handlers
           /\ ZeroThenMark(After(h).todo)
  <1>1. IdleHandler \in Handlers /\ ZeroThenMark(IdleHandler.todo)
    BY DEF IdleHandler, Handlers, Kinds, Statements, ZeroThenMark
  <1>2. h.todo \in Seq(Statements)
    BY DEF Handlers
  <1>3. Tail(h.todo) \in Seq(Statements) /\ ZeroThenMark(Tail(h.todo))
    BY <1>2, TailScript
  <1>4. [h EXCEPT !.todo = Tail(@)] \in Handlers
    BY <1>3 DEF Handlers
  <1>5. ([h EXCEPT !.todo = Tail(@)]).todo = Tail(h.todo)
    BY DEF Handlers
  <1> QED BY <1>1, <1>3, <1>4, <1>5 DEF After

(***************************************************************************)
(* Type correctness.                                                       *)
(***************************************************************************)
\* A statement of a reset leaves a handler and a well-formed rest.
LEMMA AdvanceType ==
    ASSUME TypeOK, ScriptsMark, NEW a \in Admins, NEW s \in Scopes,
           NEW st \in Statements, At(a, st, s), Advance(a)
    PROVE  /\ admin' \in [Admins -> Handlers]
           /\ ScriptsMark'
  <1>1. admin[a] \in Handlers /\ ZeroThenMark(admin[a].todo) /\ admin[a].todo # << >>
    BY DEF TypeOK, ScriptsMark, At
  <1>2. After(admin[a]) \in Handlers /\ ZeroThenMark(After(admin[a]).todo)
    BY <1>1, AfterStatement
  <1> QED BY <1>2 DEF Advance, TypeOK, ScriptsMark

\* The steps of a request keep the types.
LEMMA RequestTypes ==
    ASSUME TypeOK, NEW r \in Requests, RequestStep(r)
    PROVE  TypeOK'
  <1> USE PersistenceConstants DEF TypeOK, limiter, database, history, counts
  <1>0. KeyOf[r] \in Scopes /\ Team \in Scopes /\ task[r] \in Tasks /\ task[r].usage \in Nat
    BY DEF Scopes, Tasks
  <1>1. CASE Commit(r)
    BY <1>0, <1>1 DEF Commit, Tasks
  <1>2. CASE AddKey(r)
    BY <1>0, <1>2 DEF AddKey, Tasks
  <1>3. CASE MarkKey(r)
    BY <1>0, <1>3 DEF MarkKey, MarkDirty, Tasks
  <1>4. CASE AddTeam(r)
    BY <1>0, <1>4 DEF AddTeam, Tasks
  <1>5. CASE MarkTeam(r)
    BY <1>0, <1>5 DEF MarkTeam, MarkDirty, Tasks
  <1> QED BY <1>1, <1>2, <1>3, <1>4, <1>5 DEF RequestStep

\* So do the steps of the sync task.
LEMMA SyncTypes ==
    ASSUME TypeOK, SyncStep \/ SyncFails \/ \E s \in Scopes : Expire(s)
    PROVE  TypeOK'
  <1> USE PersistenceConstants DEF TypeOK, Syncs, limiter, database, history, counts
  <1>1. CASE SyncBegin
    BY <1>1 DEF SyncBegin
  <1>2. CASE SyncSkip
    BY <1>2 DEF SyncSkip, vars
  <1>3. ASSUME NEW s \in Scopes, WriteWindow(s) PROVE TypeOK'
    BY <1>3 DEF WriteWindow
  <1>4. ASSUME NEW s \in Scopes, ReadTotal(s) PROVE TypeOK'
    BY <1>4 DEF ReadTotal
  <1>5. CASE TakeDirty
    BY <1>5 DEF TakeDirty
  <1>6. CASE WriteTotal
    <2>1. row' \in [Scopes -> Int]
      BY <1>6 DEF WriteTotal
    <2>2. sync' \in Syncs
      <3>1. sync' = [sync EXCEPT !.cur = None, !.value = 0] /\ 0 \in Int
        BY <1>6 DEF WriteTotal
      <3> QED BY <3>1, Zenon
    <2> QED BY <1>6, <2>1, <2>2 DEF WriteTotal
  <1>7. CASE SyncEnd
    BY <1>7 DEF SyncEnd, IdleSync
  <1>8. CASE SyncFails
    <2>1. lost' \subseteq Scopes
      BY <1>8 DEF SyncFails
    <2>2. troubles' \in 0..MaxTroubles
      BY <1>8 DEF SyncFails, Trouble
    <2>3. sync' \in Syncs
      BY <1>8 DEF SyncFails, IdleSync
    <2> QED BY <1>8, <2>1, <2>2, <2>3 DEF SyncFails
  <1>9. ASSUME NEW s \in Scopes, Expire(s) PROVE TypeOK'
    BY <1>9 DEF Expire
  <1> QED BY <1>1, <1>2, <1>3, <1>4, <1>5, <1>6, <1>7, <1>8, <1>9 DEF SyncStep

\* So do the steps of the resets, and what is left of them stays well formed.
LEMMA ResetTypes ==
    ASSUME TypeOK, ScriptsMark, NEW a \in Admins, AdminStep(a)
    PROVE  TypeOK' /\ ScriptsMark'
  <1> USE PersistenceConstants DEF TypeOK, limiter, database, history, counts
  <1>0. /\ admin[a] \in Handlers /\ admin[a].todo \in Seq(Statements)
        /\ admin[a].prev \in Nat /\ admin[a].kind \in Kinds /\ admin[a].rest \subseteq Keys
        /\ ZeroThenMark(admin[a].todo)
        /\ Team \in Scopes
    BY DEF Handlers, ScriptsMark, Scopes
  <1>1. ASSUME NEW s \in Scopes, ZeroTotal(a, s) PROVE TypeOK' /\ ScriptsMark'
    <2>1. Tail(admin[a].todo) \in Seq(Statements) /\ ZeroThenMark(Tail(admin[a].todo))
      BY <1>0, <1>1, TailScript DEF ZeroTotal, At
    <2>2. (IF mem[s] > 0 THEN mem[s] ELSE 0) \in Nat
      OBVIOUS
    <2>3. admin' \in [Admins -> Handlers]
      BY <1>0, <1>1, <2>1, <2>2 DEF ZeroTotal, Handlers
    <2>4. ScriptsMark'
      BY <1>1, <2>1 DEF ZeroTotal, Handlers, ScriptsMark
    <2>5. Subs \in [Admins -> Int]
      BY DEF Subs, Handlers
    <2>6. SumFunctionOnSet(Subs, Admins) \in Int
      BY <2>5, SumInt
    <2>7. short' \in Int
      BY <1>1, <2>6 DEF ZeroTotal, ShortAfter
    <2> QED BY <1>1, <2>3, <2>4, <2>7 DEF ZeroTotal
  <1>2. ASSUME NEW s \in Scopes, MarkReset(a, s) PROVE TypeOK' /\ ScriptsMark'
    <2>1. admin' \in [Admins -> Handlers] /\ ScriptsMark'
      BY <1>2, AdvanceType DEF MarkReset, Statements
    <2> QED BY <1>2, <2>1 DEF MarkReset, MarkDirty
  <1>3. ASSUME NEW s \in Scopes, ClearWindows(a, s) PROVE TypeOK' /\ ScriptsMark'
    <2>1. admin' \in [Admins -> Handlers] /\ ScriptsMark'
      BY <1>3, AdvanceType DEF ClearWindows, Statements
    <2> QED BY <1>3, <2>1 DEF ClearWindows
  <1>4. ASSUME NEW s \in Scopes, DeleteRow(a, s) PROVE TypeOK' /\ ScriptsMark'
    <2>1. admin' \in [Admins -> Handlers] /\ ScriptsMark'
      BY <1>4, AdvanceType DEF DeleteRow, Statements
    <2> QED BY <1>4, <2>1 DEF DeleteRow
  <1>5. ASSUME NEW s \in Scopes, DeleteWindow(a, s) PROVE TypeOK' /\ ScriptsMark'
    <2>1. admin' \in [Admins -> Handlers] /\ ScriptsMark'
      BY <1>5, AdvanceType DEF DeleteWindow, Statements
    <2> QED BY <1>5, <2>1 DEF DeleteWindow
  <1>6. ASSUME NEW s \in Scopes, Subtract(a, s) PROVE TypeOK' /\ ScriptsMark'
    <2>1. CASE admin[a].prev = 0
      <3>1. admin' \in [Admins -> Handlers] /\ ScriptsMark'
        BY <1>6, <2>1, AdvanceType DEF Subtract, Statements
      <3> QED BY <1>6, <2>1, <3>1 DEF Subtract
    <2>2. CASE admin[a].prev # 0
      <3>1. <<"mark">> \in Seq(Statements) /\ ZeroThenMark(<<"mark">>)
        BY DEF Statements, ZeroThenMark
      <3>2. admin' \in [Admins -> Handlers]
        BY <1>0, <1>6, <2>2, <3>1 DEF Subtract, Handlers
      <3>3. ScriptsMark'
        BY <1>6, <2>2, <3>1 DEF Subtract, ScriptsMark, Handlers
      <3>4. mem' \in [Scopes -> Int]
        BY <1>0, <1>6, <2>2 DEF Subtract
      <3> QED BY <1>6, <2>2, <3>2, <3>3, <3>4 DEF Subtract
    <2> QED BY <2>1, <2>2
  <1>7. ASSUME NEW kind \in Kinds, NEW s \in Scopes, BeginReset(a, kind, s)
        PROVE TypeOK' /\ ScriptsMark'
    <2> DEFINE todo == IF s = Team THEN TeamSteps(kind) ELSE KeySteps(kind, s, FALSE)
    <2>1. todo \in Seq(Statements) /\ ZeroThenMark(todo)
      BY TeamScripts, KeyScripts
    <2> HIDE DEF todo
    <2>2. admin' = [admin EXCEPT ![a] =
              [kind |-> kind, scope |-> s, prev |-> 0, cascade |-> s = Team,
               rest |-> IF s = Team THEN Members ELSE {}, todo |-> todo]]
      BY <1>7 DEF BeginReset, todo
    <2>3. admin' \in [Admins -> Handlers]
      BY <2>1, <2>2 DEF Handlers
    <2>4. ScriptsMark'
      BY <2>1, <2>2 DEF ScriptsMark
    <2>5. crossings' \in 0..MaxTroubles
      <3>1. Crossing(a)
        BY <1>7 DEF BeginReset
      <3> QED BY <3>1 DEF Crossing
    <2> QED BY <1>7, <2>3, <2>4, <2>5 DEF BeginReset
  <1>8. CASE NextMember(a)
    <2>1. PICK k \in admin[a].rest :
            admin' = [admin EXCEPT ![a].scope = k, ![a].rest = @ \ {k}, ![a].prev = 0,
                                   ![a].todo = KeySteps(admin[a].kind, k, TRUE)]
      BY <1>8 DEF NextMember
    <2>2. /\ KeySteps(admin[a].kind, k, TRUE) \in Seq(Statements)
          /\ ZeroThenMark(KeySteps(admin[a].kind, k, TRUE))
      BY <1>0, KeyScripts
    <2>3. admin' \in [Admins -> Handlers]
      BY <1>0, <2>1, <2>2 DEF Handlers, Scopes
    <2>4. ScriptsMark'
      BY <2>1, <2>2 DEF ScriptsMark, Handlers
    <2> QED BY <1>8, <2>3, <2>4 DEF NextMember
  <1>9. CASE ResetFails(a)
    <2>1. IdleHandler \in Handlers /\ ZeroThenMark(IdleHandler.todo)
      BY DEF IdleHandler, Handlers, Kinds, Statements, ZeroThenMark
    <2>2. troubles' \in 0..MaxTroubles
      BY <1>9 DEF ResetFails, Trouble
    <2> QED BY <1>9, <2>1, <2>2 DEF ResetFails, ScriptsMark
  <1> QED BY <1>1, <1>2, <1>3, <1>4, <1>5, <1>6, <1>7, <1>8, <1>9 DEF AdminStep, ResetStep

\* So do clear_all(), reset_limits_for_key() and a restart.
LEMMA TroubleTypes ==
    ASSUME TypeOK, ScriptsMark, WipeStep \/ Restart \/ \E k \in Keys : ResetLimits(k)
    PROVE  TypeOK' /\ ScriptsMark'
  <1> USE PersistenceConstants DEF TypeOK, limiter, database, history, counts
  <1>1. CASE WipeBegin
    BY <1>1 DEF WipeBegin, Trouble, ScriptsMark
  <1>2. ASSUME NEW s \in Scopes, WipeTotal(s) PROVE TypeOK' /\ ScriptsMark'
    BY <1>2 DEF WipeTotal, ScriptsMark
  <1>3. CASE WipeDirty
    BY <1>3 DEF WipeDirty, ScriptsMark
  <1>4. CASE Restart
    <2>1. mem' \in [Scopes -> Int] /\ lost' \subseteq Scopes
      BY <1>4 DEF Restart, Restored
    <2>2. task' \in [Requests -> Tasks]
      BY <1>4 DEF Restart, Tasks
    <2>3. sync' \in Syncs
      BY <1>4 DEF Restart, Syncs, IdleSync
    <2>4. IdleHandler \in Handlers /\ ZeroThenMark(IdleHandler.todo)
      BY DEF IdleHandler, Handlers, Kinds, Statements, ZeroThenMark
    <2>5. admin' \in [Admins -> Handlers] /\ ScriptsMark'
      BY <1>4, <2>4 DEF Restart, ScriptsMark
    <2>6. troubles' \in 0..MaxTroubles
      BY <1>4 DEF Restart, Trouble
    <2>7. win' \subseteq Scopes
      BY <1>4 DEF Restart
    <2> QED BY <1>4, <2>1, <2>2, <2>3, <2>5, <2>6, <2>7 DEF Restart
  <1>5. ASSUME NEW k \in Keys, ResetLimits(k) PROVE TypeOK' /\ ScriptsMark'
    BY <1>5 DEF ResetLimits, ScriptsMark
  <1> QED BY <1>1, <1>2, <1>3, <1>4, <1>5 DEF WipeStep

(***************************************************************************)
(* Nothing is forgotten.                                                   *)
(***************************************************************************)
\* The row of s will be written by a later sync, or has been given up.
Wanted(s) == s \in dirty \/ AboutToMark(s) \/ s \in lost

\* A step that leaves rows and sync alone, forgets nothing that was wanted and
\* makes every total that it changes wanted, keeps the invariant.
LEMMA KeepWanted ==
    ASSUME ForgetInv, row' = row, sync' = sync,
           \A s \in Scopes : Wanted(s) => Wanted(s)',
           \A s \in Scopes : mem'[s] = mem[s] \/ Wanted(s)'
    PROVE  SyncShape' /\ ValueCurrent' /\ NothingForgotten'
  <1>1. SyncShape'
    BY DEF ForgetInv, SyncShape
  <1>2. sync.cur \in Scopes \cup {None}
    BY DEF ForgetInv, TypeOK, Syncs
  <1>3. ValueCurrent'
    BY <1>2 DEF ForgetInv, ValueCurrent, Wanted
  <1>4. NothingForgotten'
    BY DEF ForgetInv, NothingForgotten, Remembered, Wanted
  <1> QED BY <1>1, <1>3, <1>4

\* Settlements forget nothing.
LEMMA RequestsRemember ==
    ASSUME ForgetInv, NEW r \in Requests, RequestStep(r)
    PROVE  SyncShape' /\ ValueCurrent' /\ NothingForgotten'
  <1> USE PersistenceConstants DEF limiter, database, history, counts
  <1>0. TypeOK /\ KeyOf[r] \in Scopes /\ Team \in Scopes
    BY DEF ForgetInv, Scopes
  <1>1. CASE Commit(r)
    BY <1>0, <1>1, KeepWanted DEF Commit, Wanted, AboutToMark, At, TypeOK, Tasks
  <1>2. CASE AddKey(r)
    <2>1. \A s \in Scopes : Wanted(s) => Wanted(s)'
      BY <1>0, <1>2 DEF AddKey, Wanted, AboutToMark, At, TypeOK, Tasks
    <2>2. \A s \in Scopes : mem'[s] = mem[s] \/ Wanted(s)'
      BY <1>0, <1>2 DEF AddKey, Wanted, AboutToMark, TypeOK, Tasks
    <2> QED BY <1>2, <2>1, <2>2, KeepWanted DEF AddKey
  <1>3. CASE MarkKey(r)
    <2>1. \A s \in Scopes : Wanted(s) => Wanted(s)'
      BY <1>0, <1>3 DEF MarkKey, MarkDirty, Wanted, AboutToMark, At, TypeOK, Tasks
    <2> QED BY <1>3, <2>1, KeepWanted DEF MarkKey
  <1>4. CASE AddTeam(r)
    <2>1. \A s \in Scopes : Wanted(s) => Wanted(s)'
      BY <1>0, <1>4 DEF AddTeam, Wanted, AboutToMark, At, TypeOK, Tasks
    <2>2. \A s \in Scopes : mem'[s] = mem[s] \/ Wanted(s)'
      BY <1>0, <1>4 DEF AddTeam, Wanted, AboutToMark, TypeOK, Tasks
    <2> QED BY <1>4, <2>1, <2>2, KeepWanted DEF AddTeam
  <1>5. CASE MarkTeam(r)
    <2>1. \A s \in Scopes : Wanted(s) => Wanted(s)'
      BY <1>0, <1>5 DEF MarkTeam, MarkDirty, Wanted, AboutToMark, At, TypeOK, Tasks
    <2> QED BY <1>5, <2>1, KeepWanted DEF MarkTeam
  <1> QED BY <1>1, <1>2, <1>3, <1>4, <1>5 DEF RequestStep

\* The sync task forgets nothing: what it takes from the dirty set it has in
\* hand until the row is written, and what changes meanwhile is marked anew.
LEMMA SyncRemembers ==
    ASSUME ForgetInv, SyncStep \/ SyncFails \/ \E s \in Scopes : Expire(s)
    PROVE  SyncShape' /\ ValueCurrent' /\ NothingForgotten'
  <1> USE PersistenceConstants DEF limiter, database, history, counts
  <1>0. TypeOK /\ SyncShape /\ ValueCurrent /\ NothingForgotten
    BY DEF ForgetInv
  <1>1. CASE SyncBegin
    BY <1>0, <1>1 DEF SyncBegin, SyncShape, ValueCurrent, NothingForgotten, Remembered,
                      AboutToMark, At, TypeOK, Syncs
  <1>2. CASE SyncSkip
    BY <1>0, <1>2 DEF SyncSkip, vars, SyncShape, ValueCurrent, NothingForgotten, Remembered,
                      AboutToMark, At
  <1>3. ASSUME NEW s \in Scopes, WriteWindow(s)
        PROVE  SyncShape' /\ ValueCurrent' /\ NothingForgotten'
    BY <1>0, <1>3 DEF WriteWindow, SyncShape, ValueCurrent, NothingForgotten, Remembered,
                      AboutToMark, At, TypeOK, Syncs
  <1>4. ASSUME NEW s \in Scopes, ReadTotal(s)
        PROVE  SyncShape' /\ ValueCurrent' /\ NothingForgotten'
    BY <1>0, <1>4 DEF ReadTotal, SyncShape, ValueCurrent, NothingForgotten, Remembered,
                      AboutToMark, At, TypeOK, Syncs
  <1>5. CASE TakeDirty
    BY <1>0, <1>5 DEF TakeDirty, SyncShape, ValueCurrent, NothingForgotten, Remembered,
                      AboutToMark, At, TypeOK, Syncs
  <1>6. CASE WriteTotal
    <2>1. /\ sync'.todo = sync.todo /\ sync'.cur = None /\ sync'.pc = sync.pc
          /\ sync.cur \in Scopes /\ sync.cur # None
      BY <1>0, <1>6 DEF WriteTotal, TypeOK, Syncs
    <2>2. SyncShape' /\ ValueCurrent'
      BY <1>0, <2>1 DEF SyncShape, ValueCurrent
    <2>3. \A s \in Scopes : Wanted(s) <=> Wanted(s)'
      BY <1>6 DEF WriteTotal, Wanted, AboutToMark, At
    <2>4. row' = [row EXCEPT ![sync.cur] = sync.value] /\ mem' = mem
      BY <1>6 DEF WriteTotal
    <2>5. \A s \in Scopes : mem[s] = row[s] \/ Wanted(s) \/ s \in sync.todo \/ sync.cur = s
      BY <1>0 DEF NothingForgotten, Remembered, Wanted
    <2>6. sync.value = mem[sync.cur] \/ Wanted(sync.cur)
      BY <1>0, <2>1 DEF ValueCurrent, Wanted
    <2>7. \A s \in Scopes : mem'[s] = row'[s] \/ Wanted(s)' \/ s \in sync'.todo
      BY <1>0, <2>1, <2>3, <2>4, <2>5, <2>6 DEF TypeOK
    <2>8. NothingForgotten'
      BY <2>7 DEF NothingForgotten, Remembered, Wanted
    <2> QED BY <2>2, <2>8
  <1>7. CASE SyncEnd
    BY <1>0, <1>7 DEF SyncEnd, IdleSync, SyncShape, ValueCurrent, NothingForgotten, Remembered,
                      AboutToMark, At, TypeOK, Syncs
  <1>8. CASE SyncFails
    BY <1>0, <1>8 DEF SyncFails, IdleSync, SyncShape, ValueCurrent, NothingForgotten, Remembered,
                      AboutToMark, At, TypeOK, Syncs
  <1>9. ASSUME NEW s \in Scopes, Expire(s)
        PROVE  SyncShape' /\ ValueCurrent' /\ NothingForgotten'
    BY <1>0, <1>9 DEF Expire, SyncShape, ValueCurrent, NothingForgotten, Remembered,
                      AboutToMark, At, TypeOK, Syncs
  <1> QED BY <1>1, <1>2, <1>3, <1>4, <1>5, <1>6, <1>7, <1>8, <1>9 DEF SyncStep

\* A statement other than a mark does not make anybody's mark disappear.
LEMMA AdvanceKeepsMarks ==
    ASSUME TypeOK, NEW a \in Admins, NEW s \in Scopes, NEW st \in Statements \ {"mark"},
           At(a, st, s), task' = task, \A b \in Admins \ {a} : admin'[b] = admin[b]
    PROVE  \A x \in Scopes : AboutToMark(x) => AboutToMark(x)'
  BY DEF AboutToMark, At

\* Resets forget nothing but what a DELETE gives up.
LEMMA ResetsRemember ==
    ASSUME ForgetInv, NEW a \in Admins, AdminStep(a)
    PROVE  SyncShape' /\ ValueCurrent' /\ NothingForgotten'
  <1> USE PersistenceConstants DEF limiter, database, history, counts
  <1>0. /\ TypeOK /\ ScriptsMark /\ SyncShape /\ ValueCurrent /\ NothingForgotten
        /\ Team \in Scopes /\ admin[a] \in Handlers
    BY DEF ForgetInv, TypeOK, Scopes
  <1>1. ASSUME NEW s \in Scopes, ZeroTotal(a, s)
        PROVE  SyncShape' /\ ValueCurrent' /\ NothingForgotten'
    <2>1. Tail(admin[a].todo) # << >> /\ Head(Tail(admin[a].todo)) = "mark"
      BY <1>0, <1>1, TailScript DEF ZeroTotal, At, ScriptsMark, Handlers
    <2>2. admin'[a].todo = Tail(admin[a].todo) /\ admin'[a].scope = s
      BY <1>0, <1>1 DEF ZeroTotal, At, TypeOK, Handlers
    <2>3. AboutToMark(s)'
      BY <2>1, <2>2 DEF AboutToMark, At
    <2>4. \A x \in Scopes : AboutToMark(x) => AboutToMark(x)'
      BY <1>0, <1>1, AdvanceKeepsMarks DEF ZeroTotal, TypeOK, Statements
    <2>5. \A x \in Scopes : Wanted(x) => Wanted(x)'
      BY <1>1, <2>4 DEF ZeroTotal, Wanted
    <2>6. \A x \in Scopes : mem'[x] = mem[x] \/ Wanted(x)'
      BY <1>0, <1>1, <2>3 DEF ZeroTotal, Wanted, TypeOK
    <2> QED BY <1>1, <2>5, <2>6, KeepWanted DEF ZeroTotal
  <1>2. ASSUME NEW s \in Scopes, MarkReset(a, s)
        PROVE  SyncShape' /\ ValueCurrent' /\ NothingForgotten'
    <2>1. \A x \in Scopes \ {s} : AboutToMark(x) => AboutToMark(x)'
      BY <1>0, <1>2 DEF MarkReset, Advance, AboutToMark, At, TypeOK
    <2>2. \A x \in Scopes : Wanted(x) => Wanted(x)'
      BY <1>2, <2>1 DEF MarkReset, MarkDirty, Wanted
    <2> QED BY <1>2, <2>2, KeepWanted DEF MarkReset
  <1>3. ASSUME NEW s \in Scopes, ClearWindows(a, s)
        PROVE  SyncShape' /\ ValueCurrent' /\ NothingForgotten'
    <2>1. \A x \in Scopes : AboutToMark(x) => AboutToMark(x)'
      BY <1>0, <1>3, AdvanceKeepsMarks DEF ClearWindows, Advance, TypeOK, Statements
    <2>2. \A x \in Scopes : Wanted(x) => Wanted(x)'
      BY <1>3, <2>1 DEF ClearWindows, Wanted
    <2> QED BY <1>3, <2>2, KeepWanted DEF ClearWindows
  <1>4. ASSUME NEW s \in Scopes, DeleteRow(a, s)
        PROVE  SyncShape' /\ ValueCurrent' /\ NothingForgotten'
    <2>1. \A x \in Scopes : AboutToMark(x) => AboutToMark(x)'
      BY <1>0, <1>4, AdvanceKeepsMarks DEF DeleteRow, Advance, TypeOK, Statements
    <2>2. \A x \in Scopes : Wanted(x) => Wanted(x)'
      BY <1>4, <2>1 DEF DeleteRow, Wanted
    <2>3. mem[s] = row'[s] \/ Wanted(s)'
      BY <1>0, <1>4 DEF DeleteRow, Wanted, TypeOK
    <2>4. sync' = sync /\ mem' = mem /\ \A x \in Scopes \ {s} : row'[x] = row[x]
      BY <1>0, <1>4 DEF DeleteRow, TypeOK
    <2>5. sync.cur \in Scopes \cup {None}
      BY <1>0 DEF TypeOK, Syncs
    <2>6. SyncShape' /\ ValueCurrent'
      BY <1>0, <2>2, <2>4, <2>5 DEF SyncShape, ValueCurrent, Wanted
    <2>7. NothingForgotten'
      BY <1>0, <2>2, <2>3, <2>4 DEF NothingForgotten, Remembered, Wanted
    <2> QED BY <2>6, <2>7
  <1>5. ASSUME NEW s \in Scopes, DeleteWindow(a, s)
        PROVE  SyncShape' /\ ValueCurrent' /\ NothingForgotten'
    <2>1. \A x \in Scopes : AboutToMark(x) => AboutToMark(x)'
      BY <1>0, <1>5, AdvanceKeepsMarks DEF DeleteWindow, Advance, TypeOK, Statements
    <2>2. \A x \in Scopes : Wanted(x) => Wanted(x)'
      BY <1>5, <2>1 DEF DeleteWindow, Wanted
    <2> QED BY <1>5, <2>2, KeepWanted DEF DeleteWindow
  <1>6. ASSUME NEW s \in Scopes, Subtract(a, s)
        PROVE  SyncShape' /\ ValueCurrent' /\ NothingForgotten'
    <2>1. \A x \in Scopes : AboutToMark(x) => AboutToMark(x)'
      BY <1>0, <1>6, AdvanceKeepsMarks DEF Subtract, Advance, TypeOK, Statements
    <2>2. \A x \in Scopes : Wanted(x) => Wanted(x)'
      BY <1>6, <2>1 DEF Subtract, Wanted
    <2>3. CASE admin[a].prev = 0
      BY <1>6, <2>2, <2>3, KeepWanted DEF Subtract
    <2>4. CASE admin[a].prev # 0
      <3>1. admin'[a].scope = Team /\ admin'[a].todo = <<"mark">>
        BY <1>0, <1>6, <2>4 DEF Subtract, TypeOK, Handlers
      <3>2. AboutToMark(Team)'
        BY <3>1 DEF AboutToMark, At
      <3>3. \A x \in Scopes : mem'[x] = mem[x] \/ Wanted(x)'
        BY <1>0, <1>6, <2>4, <3>2 DEF Subtract, Wanted, TypeOK
      <3> QED BY <1>6, <2>2, <3>3, KeepWanted DEF Subtract
    <2> QED BY <2>3, <2>4
  <1>7. ASSUME NEW kind \in Kinds, NEW s \in Scopes, BeginReset(a, kind, s)
        PROVE  SyncShape' /\ ValueCurrent' /\ NothingForgotten'
    <2>1. \A x \in Scopes : AboutToMark(x) => AboutToMark(x)'
      BY <1>0, <1>7 DEF BeginReset, Idle, AboutToMark, At, TypeOK
    <2>2. \A x \in Scopes : Wanted(x) => Wanted(x)'
      BY <1>7, <2>1 DEF BeginReset, Wanted
    <2> QED BY <1>7, <2>2, KeepWanted DEF BeginReset
  <1>8. CASE NextMember(a)
    <2>1. \A x \in Scopes : AboutToMark(x) => AboutToMark(x)'
      BY <1>0, <1>8 DEF NextMember, AboutToMark, At, TypeOK
    <2>2. \A x \in Scopes : Wanted(x) => Wanted(x)'
      BY <1>8, <2>1 DEF NextMember, Wanted
    <2> QED BY <1>8, <2>2, KeepWanted DEF NextMember
  <1>9. CASE ResetFails(a)
    <2>1. \A x \in Scopes : AboutToMark(x) => AboutToMark(x)'
      BY <1>0, <1>9 DEF ResetFails, AboutToMark, At, TypeOK
    <2>2. \A x \in Scopes : Wanted(x) => Wanted(x)'
      BY <1>9, <2>1 DEF ResetFails, Wanted
    <2> QED BY <1>9, <2>2, KeepWanted DEF ResetFails
  <1> QED BY <1>1, <1>2, <1>3, <1>4, <1>5, <1>6, <1>7, <1>8, <1>9 DEF AdminStep, ResetStep

\* clear_all(), reset_limits_for_key() and a restart forget only what they give up.
LEMMA TroublesRemember ==
    ASSUME ForgetInv, WipeStep \/ Restart \/ \E k \in Keys : ResetLimits(k)
    PROVE  SyncShape' /\ ValueCurrent' /\ NothingForgotten'
  <1> USE PersistenceConstants DEF limiter, database, history, counts
  <1>0. TypeOK
    BY DEF ForgetInv
  <1>1. CASE WipeBegin
    BY <1>1, KeepWanted DEF WipeBegin, Wanted, AboutToMark, At
  <1>2. ASSUME NEW s \in Scopes, WipeTotal(s)
        PROVE  SyncShape' /\ ValueCurrent' /\ NothingForgotten'
    <2>1. \A x \in Scopes : Wanted(x) => Wanted(x)'
      BY <1>2 DEF WipeTotal, Wanted, AboutToMark, At
    <2>2. \A x \in Scopes : mem'[x] = mem[x] \/ Wanted(x)'
      BY <1>0, <1>2 DEF WipeTotal, Wanted, TypeOK
    <2> QED BY <1>2, <2>1, <2>2, KeepWanted DEF WipeTotal
  <1>3. CASE WipeDirty
    <2>1. \A x \in Scopes : Wanted(x) => Wanted(x)'
      BY <1>3 DEF WipeDirty, Wanted, AboutToMark, At
    <2> QED BY <1>3, <2>1, KeepWanted DEF WipeDirty
  <1>4. CASE Restart
    <2>1. sync' = IdleSync
      BY <1>4 DEF Restart
    <2>2. SyncShape' /\ ValueCurrent'
      BY <2>1 DEF IdleSync, SyncShape, ValueCurrent
    <2>3. \A s \in Scopes : mem'[s] = row'[s] \/ s \in lost'
      BY <1>0, <1>4 DEF Restart, Restored
    <2> QED BY <2>2, <2>3 DEF NothingForgotten
  <1>5. ASSUME NEW k \in Keys, ResetLimits(k)
        PROVE  SyncShape' /\ ValueCurrent' /\ NothingForgotten'
    BY <1>5, KeepWanted DEF ResetLimits, Wanted, AboutToMark, At
  <1> QED BY <1>1, <1>2, <1>3, <1>4, <1>5 DEF WipeStep

(***************************************************************************)
(* The theorems.                                                           *)
(***************************************************************************)
\* ForgetInv holds at the start.
LEMMA ForgetInit == Init => ForgetInv
  <1> SUFFICES ASSUME Init PROVE ForgetInv
    OBVIOUS
  <1> USE PersistenceConstants
  <1>1. NewTask \in Tasks
    BY DEF NewTask, Tasks
  <1>2. IdleSync \in Syncs
    BY DEF IdleSync, Syncs
  <1>3. IdleHandler \in Handlers /\ ZeroThenMark(IdleHandler.todo)
    BY DEF IdleHandler, Handlers, Kinds, Statements, ZeroThenMark
  <1>4. TypeOK
    BY <1>1, <1>2, <1>3 DEF Init, TypeOK
  <1>5. ScriptsMark
    BY <1>3 DEF Init, ScriptsMark
  <1>6. SyncShape /\ ValueCurrent
    BY DEF Init, SyncShape, ValueCurrent, IdleSync
  <1>7. NothingForgotten
    BY DEF Init, NothingForgotten
  <1> QED BY <1>4, <1>5, <1>6, <1>7 DEF ForgetInv

\* Every step keeps ForgetInv.
LEMMA ForgetStep == ForgetInv /\ [Next]_vars => ForgetInv'
  <1> SUFFICES ASSUME ForgetInv, [Next]_vars PROVE ForgetInv'
    OBVIOUS
  <1>0. TypeOK /\ ScriptsMark
    BY DEF ForgetInv
  <1>1. ASSUME NEW r \in Requests, RequestStep(r) PROVE ForgetInv'
    <2>1. admin' = admin
      BY <1>1 DEF RequestStep, Commit, AddKey, MarkKey, AddTeam, MarkTeam
    <2>2. ScriptsMark'
      BY <1>0, <2>1 DEF ScriptsMark
    <2> QED BY <1>0, <1>1, <2>2, RequestTypes, RequestsRemember DEF ForgetInv
  <1>2. CASE SyncStep \/ SyncFails \/ \E s \in Scopes : Expire(s)
    <2>1. admin' = admin
      BY <1>2 DEF SyncStep, SyncBegin, SyncSkip, WriteWindow, ReadTotal, TakeDirty, WriteTotal,
                  SyncEnd, SyncFails, Expire, vars
    <2>2. ScriptsMark'
      BY <1>0, <2>1 DEF ScriptsMark
    <2> QED BY <1>0, <1>2, <2>2, SyncTypes, SyncRemembers DEF ForgetInv
  <1>3. ASSUME NEW a \in Admins, AdminStep(a) PROVE ForgetInv'
    BY <1>0, <1>3, ResetTypes, ResetsRemember DEF ForgetInv
  <1>4. CASE WipeStep \/ Restart \/ \E k \in Keys : ResetLimits(k)
    BY <1>0, <1>4, TroubleTypes, TroublesRemember DEF ForgetInv
  <1>5. CASE UNCHANGED vars
    BY <1>5 DEF vars, limiter, database, history, counts, ForgetInv, TypeOK, ScriptsMark, SyncShape,
                ValueCurrent, NothingForgotten, Remembered, AboutToMark, At
  <1> QED BY <1>1, <1>2, <1>3, <1>4, <1>5 DEF Next

\* PersistenceTypeCorrect: every variable of the limiter's persistence keeps its type.
THEOREM PersistenceTypeCorrect == Spec => []TypeOK
  <1>1. ForgetInv => TypeOK
    BY DEF ForgetInv
  <1> QED BY <1>1, ForgetInit, ForgetStep, PTL DEF Spec

\* NoTotalForgotten: a total that differs from its row is remembered by the dirty
\* set, the sync or the task that changed it, or was given up in one of the ways
\* that lost collects (add_cumulative, reset_one_local, sync_counters_to_db).
THEOREM NoTotalForgotten == Spec => []NothingForgotten
  <1>1. ForgetInv => NothingForgotten
    BY DEF ForgetInv
  <1> QED BY <1>1, ForgetInit, ForgetStep, PTL DEF Spec

-----------------------------------------------------------------------------
(***************************************************************************)
(* The team covers its members.  First, what is left of a reset.           *)
(***************************************************************************)
\* What is left of a script after its first statement.
LEMMA TailHas ==
    ASSUME NEW q \in Seq(Statements), q # << >>, NEW st
    PROVE  /\ Tail(q) \in Seq(Statements)
           /\ Has(Tail(q), st) => Has(q, st)
           /\ Has(q, st) => Head(q) = st \/ Has(Tail(q), st)
           /\ Head(q) = st => Has(q, st)
           /\ Len(q) = 1 /\ Head(q) # st => ~Has(q, st)
<1>1. /\ Tail(q) \in Seq(Statements) /\ Len(q) \in Nat /\ Len(q) > 0
      /\ Len(Tail(q)) = Len(q) - 1 /\ Head(q) = q[1]
      /\ \A i \in 1..Len(Tail(q)) : Tail(q)[i] = q[i + 1]
  OBVIOUS
<1>2. Has(Tail(q), st) => Has(q, st)
  <2> SUFFICES ASSUME NEW i \in 1..Len(Tail(q)), Tail(q)[i] = st PROVE Has(q, st)
    BY DEF Has
  <2>1. i + 1 \in 1..Len(q) /\ q[i + 1] = st
    BY <1>1
  <2> QED
    BY <2>1 DEF Has
<1>3. ASSUME Has(q, st), Head(q) # st PROVE Has(Tail(q), st)
  <2>1. PICK i \in 1..Len(q) : q[i] = st
    BY <1>3 DEF Has
  <2>2. i - 1 \in 1..Len(Tail(q)) /\ (i - 1) + 1 = i
    BY <1>1, <1>3, <2>1
  <2>3. Tail(q)[i - 1] = st
    BY <1>1, <2>1, <2>2
  <2> QED
    BY <2>2, <2>3 DEF Has
<1>4. Head(q) = st => Has(q, st)
  <2>1. 1 \in 1..Len(q)
    BY <1>1
  <2> QED
    BY <1>1, <2>1 DEF Has
<1>5. Len(q) = 1 /\ Head(q) # st => ~Has(q, st)
  <2>1. Len(q) = 1 => \A i \in 1..Len(q) : i = 1
    OBVIOUS
  <2> QED
    BY <1>1, <2>1 DEF Has
<1> QED
  BY <1>1, <1>2, <1>3, <1>4, <1>5

ZeroOnce(q) == \A i, j \in 1..Len(q) : q[i] = "zero" /\ q[j] = "zero" => i = j

LEMMA TailZeroOnce ==
    ASSUME NEW q \in Seq(Statements), q # << >>, ZeroOnce(q)
    PROVE  ZeroOnce(Tail(q)) /\ (Head(q) = "zero" => ~Has(Tail(q), "zero"))
<1>1. /\ Len(q) \in Nat /\ Len(q) > 0
      /\ Len(Tail(q)) = Len(q) - 1 /\ Head(q) = q[1]
      /\ \A i \in 1..Len(Tail(q)) : Tail(q)[i] = q[i + 1]
  OBVIOUS
<1>2. \A i \in 1..Len(Tail(q)) : i + 1 \in 1..Len(q) /\ i + 1 # 1
  BY <1>1
<1>3. ZeroOnce(Tail(q))
  <2> SUFFICES ASSUME NEW i \in 1..Len(Tail(q)), NEW j \in 1..Len(Tail(q)),
                      Tail(q)[i] = "zero", Tail(q)[j] = "zero"
               PROVE  i = j
    BY DEF ZeroOnce
  <2>1. i + 1 = j + 1
    BY <1>1, <1>2 DEF ZeroOnce
  <2> QED
    BY <2>1
<1>4. ASSUME Head(q) = "zero", NEW i \in 1..Len(Tail(q)), Tail(q)[i] = "zero" PROVE FALSE
  BY <1>1, <1>2, <1>4 DEF ZeroOnce
<1> QED
  BY <1>3, <1>4 DEF Has

LEMMA EmptyScript == ~Has(<< >>, "zero") /\ ~Has(<< >>, "sub") /\ ZeroOnce(<< >>)
BY DEF Has, ZeroOnce

LEMMA MarkScript == ~Has(<<"mark">>, "zero") /\ ~Has(<<"mark">>, "sub") /\ ZeroOnce(<<"mark">>)
BY DEF Has, ZeroOnce

\* The totals are zeroed once, unless only windows are cleared; the team is
\* corrected only for a member whose own totals are reset.
LEMMA KeyScriptShape ==
    ASSUME NEW kind \in Kinds, NEW k, NEW c \in BOOLEAN, NEW q, q = KeySteps(kind, k, c)
    PROVE  /\ ZeroOnce(q)
           /\ Has(q, "zero") <=> kind # "windows"
           /\ Has(q, "sub") => kind = "totals" /\ k \in Members /\ ~c
<1>1. CASE kind = "all"
  BY <1>1 DEF KeySteps, ZeroOnce, Has
<1>2. CASE kind = "totals"
  <2>1. CASE ~c /\ k \in Members
    <3>1. q = <<"zero", "mark", "delRow", "sub">>
      BY <1>2, <2>1 DEF KeySteps
    <3> QED
      BY <1>2, <2>1, <3>1 DEF ZeroOnce, Has
  <2>2. CASE ~(~c /\ k \in Members)
    <3>1. q = <<"zero", "mark", "delRow">>
      BY <1>2, <2>2 DEF KeySteps
    <3> QED
      BY <1>2, <3>1 DEF ZeroOnce, Has
  <2> QED
    BY <2>1, <2>2
<1>3. CASE kind = "windows"
  <2>1. q = <<"clear", "delWin">>
    BY <1>3 DEF KeySteps
  <2> QED
    BY <1>3, <2>1 DEF ZeroOnce, Has
<1> QED
  BY <1>1, <1>2, <1>3 DEF Kinds

LEMMA TeamScriptShape ==
    ASSUME NEW kind \in Kinds, NEW q, q = TeamSteps(kind)
    PROVE  ZeroOnce(q) /\ (Has(q, "zero") => kind # "windows") /\ ~Has(q, "sub")
<1>1. CASE kind = "all"
  BY <1>1 DEF TeamSteps, ZeroOnce, Has
<1>2. CASE kind = "totals"
  BY <1>2 DEF TeamSteps, ZeroOnce, Has
<1>3. CASE kind = "windows"
  BY <1>3 DEF TeamSteps, ZeroOnce, Has
<1> QED
  BY <1>1, <1>2, <1>3 DEF Kinds

-----------------------------------------------------------------------------
(* What a handler contributes, and what a statement changes about it. *)

\* The members that a handler is going to clear.
Dooms(h) ==
    {k \in Members : Clears(h) /\ (k \in h.rest \/ (h.scope = k /\ Has(h.todo, "zero")))}

\* What a handler has still to subtract from the team.
SubOf(h) == IF Corrects(h) THEN h.prev ELSE 0

LEMMA DoomedBy == Doomed = {k \in Members : \E a \in Admins : k \in Dooms(admin[a])}
BY DEF Doomed, Dooms

LEMMA IdleShape ==
    /\ HandlerShape(IdleHandler) /\ Dooms(IdleHandler) = {} /\ SubOf(IdleHandler) = 0
    /\ IdleHandler \in Handlers
<1>1. IdleHandler.todo = << >> /\ IdleHandler.cascade = FALSE /\ IdleHandler.kind = "all"
  BY DEF IdleHandler
<1>2. IdleHandler \in Handlers
  BY DEF IdleHandler, Handlers, Kinds, Statements
<1> QED
  BY <1>1, <1>2, EmptyScript DEF HandlerShape, Dooms, SubOf, Corrects, Clears, ZeroOnce

\* A statement other than zero and sub changes nothing of it.
LEMMA AfterShape ==
    ASSUME NEW h \in Handlers, h.todo # << >>, HandlerShape(h)
    PROVE  /\ HandlerShape(After(h))
           /\ Head(h.todo) \notin {"zero", "sub"} => Dooms(After(h)) = Dooms(h) /\ SubOf(After(h)) = SubOf(h)
           /\ h.prev = 0 => SubOf(After(h)) = 0
           /\ Head(h.todo) = "sub" => Dooms(After(h)) = {} /\ Dooms(h) = {}
<1>1. /\ h.todo \in Seq(Statements) /\ h.rest \subseteq Keys /\ h.cascade \in BOOLEAN
      /\ Len(h.todo) \in Nat
  BY DEF Handlers
<1>2. \A st : /\ Has(Tail(h.todo), st) => Has(h.todo, st)
              /\ Has(h.todo, st) => Head(h.todo) = st \/ Has(Tail(h.todo), st)
              /\ Head(h.todo) = st => Has(h.todo, st)
              /\ Len(h.todo) = 1 /\ Head(h.todo) # st => ~Has(h.todo, st)
  BY <1>1, TailHas
<1>3. ZeroOnce(h.todo)
  BY DEF HandlerShape, ZeroOnce
<1>4. ZeroOnce(Tail(h.todo))
  BY <1>1, <1>3, TailZeroOnce
<1>5. Head(h.todo) = "sub" => ~h.cascade
  BY <1>2 DEF HandlerShape
<1>6. CASE Len(h.todo) = 1 /\ h.rest = {}
  <2>1. After(h) = IdleHandler
    BY <1>6 DEF After
  <2>2. Head(h.todo) \notin {"zero", "sub"} => Dooms(h) = {} /\ SubOf(h) = 0
    BY <1>2, <1>6 DEF Dooms, SubOf, Corrects
  <2>3. Head(h.todo) = "sub" => Dooms(h) = {}
    BY <1>5 DEF Dooms, Clears
  <2> QED
    BY <2>1, <2>2, <2>3, IdleShape
<1>7. CASE ~(Len(h.todo) = 1 /\ h.rest = {})
  <2> DEFINE g == After(h)
  <2>1. /\ g.todo = Tail(h.todo) /\ g.scope = h.scope /\ g.cascade = h.cascade
        /\ g.kind = h.kind /\ g.rest = h.rest /\ g.prev = h.prev
    BY <1>7 DEF After, Handlers
  <2> HIDE DEF g
  <2>2. HandlerShape(g)
    BY <1>2, <1>4, <2>1 DEF HandlerShape, Clears, ZeroOnce
  <2>3. Head(h.todo) \notin {"zero", "sub"} => Dooms(g) = Dooms(h) /\ SubOf(g) = SubOf(h)
    BY <1>2, <2>1 DEF Dooms, SubOf, Corrects, Clears
  <2>4. h.prev = 0 => SubOf(g) = 0
    BY <2>1 DEF SubOf
  <2>5. Head(h.todo) = "sub" => Dooms(g) = {} /\ Dooms(h) = {}
    BY <1>5, <2>1 DEF Dooms, Clears
  <2> QED
    BY <2>2, <2>3, <2>4, <2>5 DEF g
<1> QED
  BY <1>6, <1>7

\* A script that zeroes a total has its mark next, so it does not end there.
LEMMA ZeroShape ==
    ASSUME NEW h \in Handlers, h.todo # << >>, HandlerShape(h), Head(h.todo) = "zero", NEW p \in Nat,
           NEW g, g = [h EXCEPT !.todo = Tail(@), !.prev = p]
    PROVE  /\ HandlerShape(g)
           /\ SubOf(h) = 0
           /\ SubOf(g) = 0 \/ (SubOf(g) = p /\ Corrects(h))
           /\ Dooms(h) \ {h.scope} = Dooms(g) \ {h.scope}
           /\ h.scope = Team => SubOf(g) = 0 /\ Dooms(g) = Members
<1>1. h.todo \in Seq(Statements)
  BY DEF Handlers
<1>2. \A st : /\ Has(Tail(h.todo), st) => Has(h.todo, st)
              /\ Head(h.todo) = st => Has(h.todo, st)
  BY <1>1, TailHas
<1>3. ZeroOnce(Tail(h.todo)) /\ ~Has(Tail(h.todo), "zero")
  BY <1>1, TailZeroOnce DEF HandlerShape, ZeroOnce
<1>4. /\ g.todo = Tail(h.todo) /\ g.scope = h.scope /\ g.cascade = h.cascade
      /\ g.kind = h.kind /\ g.rest = h.rest /\ g.prev = p
  BY DEF Handlers
<1>5. HandlerShape(g)
  BY <1>2, <1>3, <1>4 DEF HandlerShape, Clears, ZeroOnce
<1>6. SubOf(h) = 0
  BY <1>2 DEF SubOf, HandlerShape
<1>7. SubOf(g) = 0 \/ (SubOf(g) = p /\ Corrects(h))
  BY <1>2, <1>4 DEF SubOf, Corrects
<1>8. Dooms(h) \ {h.scope} = Dooms(g) \ {h.scope}
  BY <1>4 DEF Dooms, Clears
<1>9. h.scope = Team => SubOf(g) = 0 /\ Dooms(g) = Members
  BY <1>2, <1>4 DEF HandlerShape, Dooms, Clears, SubOf, Corrects
<1> QED
  BY <1>5, <1>6, <1>7, <1>8, <1>9

-----------------------------------------------------------------------------
(* The three sums. *)

SumsTyped ==
    /\ Counted \in [Members -> Int] /\ Subs \in [Admins -> Int] /\ Owes \in [Requests -> Int]
    /\ SumFunctionOnSet(Counted, Members) \in Int /\ SumFunctionOnSet(Subs, Admins) \in Int
    /\ SumFunctionOnSet(Owes, Requests) \in Nat
    /\ mem[Team] \in Int /\ short \in Int

LEMMA SumTypes == TypeOK => SumsTyped
<1> SUFFICES ASSUME TypeOK PROVE SumsTyped
  OBVIOUS
<1> USE PersistenceConstants
<1>1. Counted \in [Members -> Int] /\ mem[Team] \in Int /\ short \in Int
  BY DEF TypeOK, Counted, Scopes
<1>2. Subs \in [Admins -> Int]
  BY DEF TypeOK, Subs, Handlers
<1>3. Owes \in [Requests -> Nat]
  BY DEF TypeOK, Owes, Tasks
<1>4. SumFunctionOnSet(Counted, Members) \in Int /\ SumFunctionOnSet(Subs, Admins) \in Int
  BY <1>1, <1>2, SumInt
<1>5. SumFunctionOnSet(Owes, Requests) \in Nat
  BY <1>3, SumNat
<1>6. Owes \in [Requests -> Int]
  BY <1>3
<1> QED
  BY <1>1, <1>2, <1>4, <1>5, <1>6 DEF SumsTyped

LEMMA SumTypesAfter == TypeOK' => SumsTyped'
BY SumTypes, PTL

\* Team, debts and the explained shortfall cover members and corrections.
Covered ==
    SumFunctionOnSet(Counted, Members) + SumFunctionOnSet(Subs, Admins)
        <= mem[Team] + SumFunctionOnSet(Owes, Requests) + short

\* A step of handler a that leaves the settlements alone: members count no
\* more than c more than before, a has e more to subtract, and w more of the
\* shortfall is explained.
LEMMA CoverHandler ==
    ASSUME TypeOK, TypeOK', Covered, task' = task, NEW a \in Admins,
           \A b \in Admins \ {a} : admin'[b] = admin[b],
           NEW c \in Int, NEW e \in Int, NEW t \in Int, NEW w \in Int, short' = short + w,
           SumFunctionOnSet(Counted', Members) <= SumFunctionOnSet(Counted, Members) + c,
           SubOf(admin'[a]) = SubOf(admin[a]) + e,
           mem'[Team] = mem[Team] + t, c + e <= t + w
    PROVE  Covered'
<1>1. SumsTyped /\ SumsTyped'
  BY SumTypes, SumTypesAfter
<1>2. Owes' = Owes
  BY DEF Owes
<1>3. /\ \A b \in Admins : Subs[b] \in Int /\ Subs'[b] \in Int
      /\ \A b \in Admins : b # a => Subs'[b] = Subs[b]
      /\ Subs'[a] = Subs[a] + e
  BY <1>1 DEF SumsTyped, Subs, SubOf, Corrects
<1>4. SumFunctionOnSet(Subs', Admins) = SumFunctionOnSet(Subs, Admins) + (Subs'[a] - Subs[a])
  BY <1>3, PersistenceConstants, SumChange
<1>5. SumFunctionOnSet(Subs', Admins) = SumFunctionOnSet(Subs, Admins) + e
  BY <1>1, <1>3, <1>4 DEF SumsTyped
<1>6. /\ SumFunctionOnSet(Counted', Members) \in Int /\ SumFunctionOnSet(Counted, Members) \in Int
      /\ SumFunctionOnSet(Subs, Admins) \in Int /\ SumFunctionOnSet(Owes, Requests) \in Int
      /\ mem[Team] \in Int /\ short \in Int
      /\ SumFunctionOnSet(Counted, Members) + SumFunctionOnSet(Subs, Admins)
           <= mem[Team] + SumFunctionOnSet(Owes, Requests) + short
  BY <1>1 DEF SumsTyped, Covered
<1>7. SumFunctionOnSet(Counted', Members) + SumFunctionOnSet(Subs', Admins)
        <= mem'[Team] + SumFunctionOnSet(Owes', Requests) + short'
  <2>1. SumFunctionOnSet(Counted', Members) + (SumFunctionOnSet(Subs, Admins) + e)
          <= (mem[Team] + t) + SumFunctionOnSet(Owes, Requests) + (short + w)
    BY <1>6
  <2> QED
    BY <1>2, <1>5, <2>1
<1> QED
  BY <1>7 DEF Covered

\* The same for a step of a request.
LEMMA CoverRequest ==
    ASSUME TypeOK, TypeOK', Covered, admin' = admin, NEW r \in Requests,
           \A q \in Requests \ {r} : task'[q] = task[q],
           NEW c \in Int, NEW e \in Int, NEW t \in Int, NEW w \in Int, short' = short + w,
           SumFunctionOnSet(Counted', Members) <= SumFunctionOnSet(Counted, Members) + c,
           Owes'[r] = Owes[r] + e,
           mem'[Team] = mem[Team] + t, c <= t + e + w
    PROVE  Covered'
<1>1. SumsTyped /\ SumsTyped'
  BY SumTypes, SumTypesAfter
<1>2. Subs' = Subs
  BY DEF Subs
<1>3. /\ \A b \in Requests : Owes[b] \in Int /\ Owes'[b] \in Int
      /\ \A b \in Requests : b # r => Owes'[b] = Owes[b]
  BY <1>1 DEF SumsTyped, Owes
<1>4. SumFunctionOnSet(Owes', Requests) = SumFunctionOnSet(Owes, Requests) + (Owes'[r] - Owes[r])
  BY <1>3, PersistenceConstants, SumChange
<1>5. SumFunctionOnSet(Owes', Requests) = SumFunctionOnSet(Owes, Requests) + e
  BY <1>1, <1>3, <1>4 DEF SumsTyped
<1>6. /\ SumFunctionOnSet(Counted', Members) \in Int /\ SumFunctionOnSet(Counted, Members) \in Int
      /\ SumFunctionOnSet(Subs, Admins) \in Int /\ SumFunctionOnSet(Owes, Requests) \in Int
      /\ mem[Team] \in Int /\ short \in Int
      /\ SumFunctionOnSet(Counted, Members) + SumFunctionOnSet(Subs, Admins)
           <= mem[Team] + SumFunctionOnSet(Owes, Requests) + short
  BY <1>1 DEF SumsTyped, Covered
<1>7. SumFunctionOnSet(Counted', Members) + SumFunctionOnSet(Subs', Admins)
        <= mem'[Team] + SumFunctionOnSet(Owes', Requests) + short'
  <2>1. SumFunctionOnSet(Counted', Members) + SumFunctionOnSet(Subs, Admins)
          <= (mem[Team] + t) + (SumFunctionOnSet(Owes, Requests) + e) + (short + w)
    BY <1>6
  <2> QED
    BY <1>2, <1>5, <2>1
<1> QED
  BY <1>7 DEF Covered

\* Members that are doomed, or not.
LEMMA CountedShrinks ==
    ASSUME TypeOK, TypeOK', \A k \in Members : Counted'[k] <= Counted[k]
    PROVE  SumFunctionOnSet(Counted', Members) <= SumFunctionOnSet(Counted, Members) + 0
<1>1. SumsTyped /\ SumsTyped'
  BY SumTypes, SumTypesAfter
<1>2. \A k \in Members : Counted[k] \in Int /\ Counted'[k] \in Int
  BY <1>1 DEF SumsTyped
<1>3. SumFunctionOnSet(Counted', Members) <= SumFunctionOnSet(Counted, Members)
  BY <1>2, PersistenceConstants, SumLeq
<1> QED
  BY <1>1, <1>3 DEF SumsTyped

-----------------------------------------------------------------------------
(* Settlements. *)

LEMMA RequestsCover ==
    ASSUME TypeOK, TypeOK', Covered, short >= 0, \A k \in Keys : mem[k] >= 0,
           NEW r \in Requests, RequestStep(r)
    PROVE  Covered' /\ short' >= 0 /\ \A k \in Keys : mem'[k] >= 0
<1> USE PersistenceConstants
<1>1. /\ admin' = admin /\ \A q \in Requests \ {r} : task'[q] = task[q]
      /\ mem \in [Scopes -> Int] /\ task[r] \in Tasks /\ task[r].usage \in Nat
      /\ KeyOf[r] \in Keys /\ KeyOf[r] \in Scopes /\ Team \in Scopes /\ KeyOf[r] # Team
      /\ SumsTyped
  <2>1. admin' = admin
    BY DEF RequestStep, Commit, AddKey, MarkKey, AddTeam, MarkTeam
  <2>2. \A q \in Requests \ {r} : task'[q] = task[q]
    BY DEF RequestStep, Commit, AddKey, MarkKey, AddTeam, MarkTeam, TypeOK
  <2> QED
    BY <2>1, <2>2, SumTypes DEF TypeOK, Tasks, Scopes
<1>2. Doomed' = Doomed
  BY <1>1 DEF Doomed
<1>3. ASSUME \A k \in Members : mem'[k] = mem[k]
      PROVE  SumFunctionOnSet(Counted', Members) <= SumFunctionOnSet(Counted, Members) + 0
  <2>1. Counted' = Counted
    BY <1>2, <1>3 DEF Counted
  <2> QED
    BY <1>1, <2>1 DEF SumsTyped
<1>4. CASE Commit(r) \/ MarkKey(r) \/ MarkTeam(r)
  <2>1. mem' = mem /\ short' = short
    BY <1>4 DEF Commit, MarkKey, MarkTeam, history
  <2>2. mem'[Team] = mem[Team] + 0
    BY <1>1, <2>1
  <2>3. Owes'[r] = Owes[r] /\ Owes[r] \in Int
    <3>1. Owes'[r] = Owes[r]
      <4>1. CASE Commit(r)
        BY <1>1, <4>1 DEF Commit, Owes, Tasks, TypeOK
      <4>2. CASE MarkKey(r)
        BY <1>1, <4>2 DEF MarkKey, Owes, Tasks, TypeOK
      <4>3. CASE MarkTeam(r)
        BY <1>1, <4>3 DEF MarkTeam, Owes, Tasks, TypeOK
      <4> QED
        BY <1>4, <4>1, <4>2, <4>3
    <3> QED
      BY <1>1, <3>1 DEF SumsTyped
  <2>4. Owes'[r] = Owes[r] + 0
    BY <2>3
  <2>5. SumFunctionOnSet(Counted', Members) <= SumFunctionOnSet(Counted, Members) + 0
    BY <1>3, <2>1
  <2>6. 0 \in Int /\ 0 <= 0 + 0 + 0 /\ short' = short + 0
    BY <1>1, <2>1 DEF SumsTyped
  <2>7. Covered'
    BY <1>1, <2>2, <2>4, <2>5, <2>6, CoverRequest
  <2> QED
    BY <2>1, <2>7
<1>5. CASE AddTeam(r)
  <2>1. /\ mem' = [mem EXCEPT ![Team] = @ + task[r].usage] /\ task[r].pc = "addTeam"
        /\ task'[r].pc = "markTeam" /\ task'[r].usage = task[r].usage
    BY <1>1, <1>5 DEF AddTeam, TypeOK, Tasks
  <2>2. mem'[Team] = mem[Team] + task[r].usage /\ \A k \in Keys : mem'[k] = mem[k]
    BY <1>1, <2>1 DEF Scopes
  <2>3. PICK u \in Nat : u <= task[r].usage /\ Owes'[r] = Owes[r] + (0 - u)
    <3>1. Owes'[r] = 0
      BY <2>1 DEF Owes
    <3>2. Owes[r] \in Nat /\ Owes[r] <= task[r].usage
      BY <1>1 DEF Owes
    <3> QED
      BY <3>1, <3>2
  <2>4. SumFunctionOnSet(Counted', Members) <= SumFunctionOnSet(Counted, Members) + 0
    BY <1>3, <2>2
  <2>5. 0 <= task[r].usage + (0 - u) + 0 /\ 0 \in Int /\ 0 - u \in Int /\ task[r].usage \in Int
    BY <1>1, <2>3
  <2>7. short' = short /\ short' = short + 0
    BY <1>1, <1>5 DEF AddTeam, history, SumsTyped
  <2>6. Covered'
    BY <1>1, <2>2, <2>3, <2>4, <2>5, <2>7, CoverRequest
  <2> QED
    BY <2>2, <2>6, <2>7
<1>6. CASE AddKey(r)
  <2>1. PICK u \in Usages : /\ mem' = [mem EXCEPT ![KeyOf[r]] = @ + u]
                            /\ task' = [task EXCEPT ![r] = [pc |-> "markKey", usage |-> u]]
                            /\ short' = IF KeyOf[r] \in Members /\ r \notin Charged THEN short + u ELSE short
    BY <1>6 DEF AddKey
  <2>2. u \in Nat /\ task[r].pc = "committed" /\ task'[r].pc = "markKey" /\ task'[r].usage = u
    BY <1>6, <2>1 DEF AddKey, TypeOK
  <2>3. /\ mem'[Team] = mem[Team] + 0
        /\ mem'[KeyOf[r]] = mem[KeyOf[r]] + u
        /\ \A k \in Keys : k # KeyOf[r] => mem'[k] = mem[k]
    BY <1>1, <2>1, <2>2 DEF Scopes
  <2>4. \A k \in Keys : mem'[k] >= 0
    BY <1>1, <2>2, <2>3 DEF Scopes
  <2>5. 0 \in Int /\ u \in Int /\ u <= 0 + u + 0 /\ u <= 0 + 0 + u /\ 0 <= 0 + 0 + 0 /\ short \in Int
    BY <1>1, <2>2 DEF SumsTyped
  <2>6. Owes[r] = 0
    BY <2>2 DEF Owes
  <2>7. short' >= 0
    BY <2>1, <2>2, <2>5
  <2>8. CASE KeyOf[r] \in Members
    <3>1. SumFunctionOnSet(Counted', Members) <= SumFunctionOnSet(Counted, Members) + u
      <4>1. \A k \in Members : k # KeyOf[r] => Counted'[k] <= Counted[k]
        BY <1>1, <1>2, <2>3 DEF Counted, SumsTyped, Scopes
      <4>2. Counted'[KeyOf[r]] <= Counted[KeyOf[r]] + u
        BY <1>1, <1>2, <2>2, <2>3, <2>8 DEF Counted
      <4>3. Counted \in [Members -> Int] /\ Counted' \in [Members -> Int]
        BY SumTypes, SumTypesAfter DEF SumsTyped
      <4> QED
        BY <2>5, <2>8, <4>1, <4>2, <4>3, SumLeqChange
    <3>2. CASE r \in Charged
      <4>1. Owes'[r] = Owes[r] + u /\ short' = short + 0
        BY <2>1, <2>2, <2>5, <2>6, <3>2 DEF Owes
      <4>2. Covered'
        BY <1>1, <2>3, <2>5, <3>1, <4>1, CoverRequest
      <4> QED
        BY <2>4, <2>7, <4>2
    <3>3. CASE r \notin Charged
      <4>1. Owes'[r] = Owes[r] + 0 /\ short' = short + u
        BY <2>1, <2>6, <2>8, <3>3 DEF Owes
      <4>2. Covered'
        BY <1>1, <2>3, <2>5, <3>1, <4>1, CoverRequest
      <4> QED
        BY <2>4, <2>7, <4>2
    <3> QED
      BY <3>2, <3>3
  <2>9. CASE KeyOf[r] \notin Members
    <3>1. Owes'[r] = Owes[r] + 0 /\ short' = short + 0
      BY <2>1, <2>5, <2>6, <2>9 DEF Owes
    <3>2. SumFunctionOnSet(Counted', Members) <= SumFunctionOnSet(Counted, Members) + 0
      BY <1>3, <2>3, <2>9
    <3>3. Covered'
      BY <1>1, <2>3, <2>5, <3>1, <3>2, CoverRequest
    <3> QED
      BY <2>4, <2>7, <3>3
  <2> QED
    BY <2>8, <2>9
<1> QED
  BY <1>4, <1>5, <1>6 DEF RequestStep

-----------------------------------------------------------------------------
(* Resets. *)

Shapes == \A b \in Admins : HandlerShape(admin[b])

\* A handler that dooms no fewer members, while the members keep their totals.
LEMMA DoomGrows ==
    ASSUME TypeOK, \A k \in Keys : mem[k] >= 0, NEW a \in Admins,
           \A b \in Admins \ {a} : admin'[b] = admin[b],
           Dooms(admin[a]) \subseteq Dooms(admin'[a]), \A k \in Members : mem'[k] = mem[k]
    PROVE  \A k \in Members : Counted'[k] <= Counted[k]
<1> USE PersistenceConstants
<1>1. Doomed \subseteq Doomed'
  <2> SUFFICES ASSUME NEW k \in Doomed PROVE k \in Doomed'
    OBVIOUS
  <2>1. PICK b \in Admins : k \in Dooms(admin[b]) /\ k \in Members
    BY DoomedBy
  <2>2. k \in Dooms(admin'[b])
    BY <2>1
  <2> QED
    BY <2>1, <2>2 DEF Doomed, Dooms
<1>2. \A k \in Members : mem[k] \in Int /\ mem[k] >= 0
  BY DEF TypeOK, Scopes
<1> QED
  BY <1>1, <1>2 DEF Counted

\* A statement that leaves the totals alone.
LEMMA QuietStatement ==
    ASSUME TypeOK, TypeOK', Covered, \A k \in Keys : mem[k] >= 0, task' = task, mem' = mem,
           short' = short, NEW a \in Admins, \A b \in Admins \ {a} : admin'[b] = admin[b],
           Dooms(admin[a]) \subseteq Dooms(admin'[a]), SubOf(admin'[a]) = SubOf(admin[a])
    PROVE  Covered'
<1>1. \A k \in Members : Counted'[k] <= Counted[k]
  BY DoomGrows
<1>2. SumFunctionOnSet(Counted', Members) <= SumFunctionOnSet(Counted, Members) + 0
  BY <1>1, CountedShrinks
<1>3. SubOf(admin[a]) \in Int /\ mem[Team] \in Int
  BY SumTypes DEF SumsTyped, TypeOK, Handlers, SubOf
<1>4. /\ SubOf(admin'[a]) = SubOf(admin[a]) + 0 /\ mem'[Team] = mem[Team] + 0
      /\ short' = short + 0 /\ 0 + 0 <= 0 + 0 /\ 0 \in Int
  BY <1>3, SumTypes DEF SumsTyped
<1> QED
  BY <1>2, <1>4, CoverHandler

\* Mark, clear and the two DELETEs.
LEMMA AdvanceCovers ==
    ASSUME TypeOK, TypeOK', Covered, Shapes, \A k \in Keys : mem[k] >= 0, task' = task, mem' = mem,
           short' = short, NEW a \in Admins, admin[a].todo # << >>, Head(admin[a].todo) \notin {"zero", "sub"}, Advance(a)
    PROVE  Covered' /\ Shapes'
<1>1. admin[a] \in Handlers /\ HandlerShape(admin[a])
  BY DEF TypeOK, Shapes
<1>2. admin'[a] = After(admin[a]) /\ \A b \in Admins \ {a} : admin'[b] = admin[b]
  BY DEF Advance, TypeOK
<1>3. /\ HandlerShape(After(admin[a]))
      /\ Dooms(After(admin[a])) = Dooms(admin[a]) /\ SubOf(After(admin[a])) = SubOf(admin[a])
  BY <1>1, AfterShape
<1>4. Covered'
  BY <1>2, <1>3, QuietStatement
<1>5. Shapes'
  BY <1>2, <1>3 DEF Shapes
<1> QED
  BY <1>4, <1>5

\* The total of the team goes first in a cascade: all members are doomed then.
LEMMA ZeroTeamCovers ==
    ASSUME TypeOK, TypeOK', NEW a \in Admins, task' = task,
           \A b \in Admins \ {a} : admin'[b] = admin[b], SubOf(admin[a]) = 0,
           SubOf(admin'[a]) = 0, Dooms(admin'[a]) = Members, mem'[Team] = 0,
           short' = SumFunctionOnSet(Subs, Admins)
    PROVE  Covered'
<1> USE PersistenceConstants
<1>1. SumsTyped /\ SumsTyped'
  BY SumTypes, SumTypesAfter
<1>2. \A k \in Members : Counted'[k] = 0
  <2>1. Doomed' = Members
    BY DEF Doomed, Dooms
  <2> QED
    BY <2>1 DEF Counted
<1>3. SumFunctionOnSet(Counted', Members) = 0
  BY <1>2, SumZero
<1>4. \A b \in Admins : Subs'[b] = Subs[b]
  <2>1. \A b \in Admins : SubOf(admin'[b]) = SubOf(admin[b])
    OBVIOUS
  <2> QED
    BY <2>1 DEF Subs, SubOf
<1>5. SumFunctionOnSet(Subs', Admins) = SumFunctionOnSet(Subs, Admins)
  BY <1>4, SumAgree
<1>6. SumFunctionOnSet(Owes', Requests) \in Nat /\ SumFunctionOnSet(Subs, Admins) \in Int
  BY <1>1 DEF SumsTyped
<1>7. SumFunctionOnSet(Counted', Members) + SumFunctionOnSet(Subs', Admins)
        <= mem'[Team] + SumFunctionOnSet(Owes', Requests) + short'
  BY <1>3, <1>5, <1>6
<1> QED
  BY <1>7 DEF Covered

\* No correction is negative.
LEMMA SubsPositive == TypeOK => SumFunctionOnSet(Subs, Admins) >= 0
<1> SUFFICES ASSUME TypeOK PROVE SumFunctionOnSet(Subs, Admins) >= 0
  OBVIOUS
<1>1. Subs \in [Admins -> Nat]
  BY DEF TypeOK, Subs, Handlers
<1>2. SumFunctionOnSet(Subs, Admins) \in Nat
  BY <1>1, PersistenceConstants, SumNat
<1> QED
  BY <1>2

LEMMA ZeroCovers ==
    ASSUME TypeOK, TypeOK', Covered, Shapes, short >= 0, \A k \in Keys : mem[k] >= 0,
           NEW a \in Admins, NEW s \in Scopes, ZeroTotal(a, s)
    PROVE  Covered' /\ Shapes' /\ short' >= 0 /\ \A k \in Keys : mem'[k] >= 0
<1> USE PersistenceConstants
<1> DEFINE h == admin[a]
           g == admin'[a]
           p == IF mem[s] > 0 THEN mem[s] ELSE 0
<1>1. /\ h \in Handlers /\ HandlerShape(h) /\ h.todo # << >> /\ Head(h.todo) = "zero" /\ h.scope = s
      /\ mem \in [Scopes -> Int] /\ Team \in Scopes
  BY DEF TypeOK, Shapes, ZeroTotal, At, Scopes
<1>2. /\ g = [h EXCEPT !.todo = Tail(@), !.prev = p] /\ p \in Nat
      /\ \A b \in Admins \ {a} : admin'[b] = admin[b]
      /\ task' = task /\ mem' = [mem EXCEPT ![s] = 0] /\ short' = ShortAfter(a, s)
  BY <1>1 DEF ZeroTotal, TypeOK, Handlers
<1> HIDE DEF p
<1>3. /\ HandlerShape(g)
      /\ SubOf(h) = 0
      /\ SubOf(g) = 0 \/ (SubOf(g) = p /\ Corrects(h))
      /\ Dooms(h) \ {h.scope} = Dooms(g) \ {h.scope}
      /\ h.scope = Team => SubOf(g) = 0 /\ Dooms(g) = Members
  <2>1. g = [h EXCEPT !.todo = Tail(@), !.prev = p] /\ p \in Nat
    BY <1>2
  <2> HIDE DEF h, g
  <2> QED
    BY <1>1, <2>1, ZeroShape
<1>4. Shapes'
  BY <1>2, <1>3 DEF Shapes
<1>5. mem'[s] = 0 /\ \A x \in Scopes : x # s => mem'[x] = mem[x]
  BY <1>1, <1>2
<1>6. \A k \in Keys : mem'[k] >= 0
  BY <1>5 DEF Scopes
<1>7. CASE s = Team
  <2>1. SubOf(g) = 0 /\ Dooms(g) = Members
    BY <1>1, <1>3, <1>7
  <2>2. short' = SumFunctionOnSet(Subs, Admins)
    BY <1>2, <1>7 DEF ShortAfter
  <2>3. Covered'
    BY <1>2, <1>3, <1>5, <1>7, <2>1, <2>2, ZeroTeamCovers
  <2>4. short' >= 0
    BY <2>2, SubsPositive
  <2> QED
    BY <1>4, <1>6, <2>3, <2>4
<1>8. CASE s # Team
  <2>1. mem'[Team] = mem[Team] + 0 /\ s \in Keys /\ mem[s] \in Int /\ mem[s] >= 0
    BY <1>1, <1>5, <1>8 DEF Scopes
  <2>2. \A k \in Members : k # s => (k \in Doomed' <=> k \in Doomed)
    <3>1. \A k \in Members, b \in Admins : k # s => (k \in Dooms(admin'[b]) <=> k \in Dooms(admin[b]))
      BY <1>1, <1>2, <1>3
    <3> QED
      BY <3>1 DEF Doomed, Dooms
  <2>3. \A k \in Members : k # s => Counted'[k] = Counted[k]
    BY <1>5, <2>2 DEF Counted, Scopes
  <2>4. s \in Members => Counted'[s] = 0
    BY <1>5 DEF Counted
  <2>5. \A k \in Members : Counted[k] \in Int /\ Counted'[k] \in Int
    BY SumTypes, SumTypesAfter DEF SumsTyped
  <2>6. short \in Int /\ short' = IF Corrects(h) /\ s \in Doomed THEN short + mem[s] ELSE short
    BY <1>2, <1>8, SumTypes DEF ShortAfter, SumsTyped
  <2>7. short' >= 0
    BY <2>1, <2>6
  <2>8. CASE SubOf(g) = 0
    <3>1. \A k \in Members : Counted'[k] <= Counted[k]
      <4>1. s \in Members => Counted[s] >= 0
        BY <2>1 DEF Counted
      <4> QED
        BY <2>3, <2>4, <2>5, <4>1
    <3>2. SumFunctionOnSet(Counted', Members) <= SumFunctionOnSet(Counted, Members) + 0
      BY <3>1, CountedShrinks
    <3>3. PICK w \in Int : w >= 0 /\ short' = short + w
      BY <2>1, <2>6
    <3>4. SubOf(g) = SubOf(h) + 0 /\ 0 + 0 <= 0 + w /\ 0 \in Int
      BY <1>3, <2>8, <3>3
    <3>5. Covered'
      BY <1>2, <2>1, <3>2, <3>3, <3>4, CoverHandler
    <3> QED
      BY <1>4, <1>6, <2>7, <3>5
  <2>9. CASE SubOf(g) = p /\ Corrects(h)
    <3>1. s \in Members
      BY <1>1, <2>9 DEF HandlerShape, Corrects
    <3>2. p = mem[s] /\ p \in Int /\ 0 - p \in Int /\ 0 \in Int /\ SubOf(g) = SubOf(h) + p
      BY <1>2, <1>3, <2>1, <2>9 DEF p
    <3>3. Counted \in [Members -> Int] /\ Counted' \in [Members -> Int]
      BY SumTypes, SumTypesAfter DEF SumsTyped
    <3>4. CASE s \in Doomed
      <4>1. short' = short + p /\ 0 + p <= 0 + p
        BY <2>6, <2>9, <3>2, <3>4
      <4>2. \A k \in Members : Counted'[k] <= Counted[k]
        <5>1. s \in Members => Counted[s] = 0
          BY <3>4 DEF Counted
        <5> QED
          BY <2>3, <2>4, <2>5, <5>1
      <4>3. SumFunctionOnSet(Counted', Members) <= SumFunctionOnSet(Counted, Members) + 0
        BY <4>2, CountedShrinks
      <4>4. Covered'
        BY <1>2, <2>1, <3>2, <4>1, <4>3, CoverHandler
      <4> QED
        BY <1>4, <1>6, <2>7, <4>4
    <3>5. CASE s \notin Doomed
      <4>1. short' = short + 0 /\ (0 - p) + p <= 0 + 0
        BY <2>6, <3>2, <3>5
      <4>2. Counted'[s] <= Counted[s] + (0 - p)
        <5>1. Counted[s] = mem[s]
          BY <3>1, <3>5 DEF Counted
        <5> QED
          BY <2>1, <2>4, <3>1, <3>2, <5>1
      <4>3. SumFunctionOnSet(Counted', Members) <= SumFunctionOnSet(Counted, Members) + (0 - p)
        <5>1. \A k \in Members : k # s => Counted'[k] <= Counted[k]
          BY <2>3, <2>5
        <5> QED
          BY <3>1, <3>2, <3>3, <4>2, <5>1, SumLeqChange
      <4>4. Covered'
        BY <1>2, <2>1, <3>2, <4>1, <4>3, CoverHandler
      <4> QED
        BY <1>4, <1>6, <2>7, <4>4
    <3> QED
      BY <3>4, <3>5
  <2> QED
    BY <1>3, <2>8, <2>9
<1> QED
  BY <1>7, <1>8

LEMMA SubtractCovers ==
    ASSUME TypeOK, TypeOK', Covered, Shapes, \A k \in Keys : mem[k] >= 0,
           NEW a \in Admins, NEW s \in Scopes, Subtract(a, s)
    PROVE  Covered' /\ Shapes' /\ \A k \in Keys : mem'[k] >= 0
<1> USE PersistenceConstants
<1> DEFINE h == admin[a]
           g == admin'[a]
<1>1. /\ h \in Handlers /\ HandlerShape(h) /\ h.todo # << >> /\ Head(h.todo) = "sub"
      /\ h.prev \in Nat /\ h.todo \in Seq(Statements)
      /\ mem \in [Scopes -> Int] /\ Team \in Scopes /\ task' = task
      /\ short \in Int /\ short' = short
  BY DEF TypeOK, Shapes, Subtract, At, Scopes, Handlers, history
<1>2. Has(h.todo, "sub") /\ SubOf(h) = h.prev /\ ~h.cascade
  <2>1. Has(h.todo, "sub")
    BY <1>1, TailHas
  <2> QED
    BY <1>1, <2>1 DEF SubOf, Corrects, HandlerShape
<1>3. Dooms(h) = {}
  BY <1>2 DEF Dooms, Clears
<1>4. CASE h.prev = 0
  <2>1. Advance(a) /\ mem' = mem
    BY <1>4 DEF Subtract
  <2>2. g = After(h) /\ \A b \in Admins \ {a} : admin'[b] = admin[b]
    BY <2>1 DEF Advance, TypeOK
  <2>3. HandlerShape(g) /\ SubOf(g) = 0
    <3>1. HandlerShape(After(h)) /\ SubOf(After(h)) = 0
      BY <1>1, <1>4, AfterShape
    <3> QED
      BY <2>2, <3>1
  <2>4. Shapes'
    BY <2>2, <2>3 DEF Shapes
  <2>5. Covered'
    BY <1>1, <1>2, <1>3, <1>4, <2>1, <2>2, <2>3, QuietStatement
  <2> QED
    BY <2>1, <2>4, <2>5
<1>5. CASE h.prev # 0
  <2>1. /\ mem' = [mem EXCEPT ![Team] = @ - h.prev]
        /\ admin' = [admin EXCEPT ![a].scope = Team, ![a].prev = 0, ![a].todo = <<"mark">>]
    BY <1>5 DEF Subtract
  <2>2. \A b \in Admins \ {a} : admin'[b] = admin[b]
    BY <2>1 DEF TypeOK
  <2>3. g.todo = <<"mark">> /\ g.prev = 0 /\ g.cascade = h.cascade
    BY <1>1, <2>1 DEF TypeOK, Handlers
  <2>4. HandlerShape(g) /\ SubOf(g) = 0
    <3> HIDE DEF h, g
    <3> QED
      BY <1>2, <2>3, MarkScript DEF HandlerShape, SubOf, Corrects, ZeroOnce, Clears
  <2>5. Shapes'
    BY <2>2, <2>4 DEF Shapes
  <2>6. mem'[Team] = mem[Team] + (0 - h.prev) /\ \A k \in Keys : mem'[k] = mem[k]
    BY <1>1, <2>1 DEF Scopes
  <2>7. \A k \in Members : Counted'[k] <= Counted[k]
    BY <1>3, <2>2, <2>6, DoomGrows
  <2>8. SumFunctionOnSet(Counted', Members) <= SumFunctionOnSet(Counted, Members) + 0
    BY <2>7, CountedShrinks
  <2>9. /\ SubOf(g) = SubOf(h) + (0 - h.prev) /\ 0 + (0 - h.prev) <= (0 - h.prev) + 0
        /\ 0 \in Int /\ 0 - h.prev \in Int /\ short' = short + 0
    BY <1>1, <1>2, <2>4
  <2>10. Covered'
    BY <1>1, <2>2, <2>6, <2>8, <2>9, CoverHandler
  <2> QED
    BY <2>5, <2>6, <2>10
<1> QED
  BY <1>4, <1>5

LEMMA BeginCovers ==
    ASSUME TypeOK, TypeOK', Covered, Shapes, \A k \in Keys : mem[k] >= 0,
           NEW a \in Admins, NEW kind \in Kinds, NEW s \in Scopes, BeginReset(a, kind, s)
    PROVE  Covered' /\ Shapes' /\ \A k \in Keys : mem'[k] >= 0
<1> USE PersistenceConstants
<1> DEFINE h == admin[a]
           g == admin'[a]
<1>1. /\ h \in Handlers /\ h.todo = << >> /\ h.rest = {}
      /\ task' = task /\ mem' = mem /\ short' = short
  BY DEF TypeOK, BeginReset, Idle
<1>2. PICK q : q = IF s = Team THEN TeamSteps(kind) ELSE KeySteps(kind, s, FALSE)
  OBVIOUS
<1>3. admin' = [admin EXCEPT ![a] =
           [kind |-> kind, scope |-> s, prev |-> 0, cascade |-> s = Team,
            rest |-> IF s = Team THEN Members ELSE {}, todo |-> q]]
  BY <1>2 DEF BeginReset
<1>4. /\ g.kind = kind /\ g.scope = s /\ g.prev = 0 /\ g.cascade = (s = Team) /\ g.todo = q
      /\ g.rest = IF s = Team THEN Members ELSE {}
      /\ \A b \in Admins \ {a} : admin'[b] = admin[b]
  BY <1>3 DEF TypeOK
<1>5. ZeroOnce(q)
  BY <1>2, KeyScriptShape, TeamScriptShape
<1>6. s = Team /\ Has(q, "zero") => kind # "windows"
  BY <1>2, TeamScriptShape
<1>7. Has(q, "sub") => s # Team /\ kind = "totals" /\ s \in Members
  BY <1>2, KeyScriptShape, TeamScriptShape
<1>8. HandlerShape(g)
  BY <1>1, <1>4, <1>5, <1>6, <1>7 DEF HandlerShape, Clears, ZeroOnce
<1>9. Dooms(h) = {} /\ SubOf(h) = 0 /\ SubOf(g) = 0
  BY <1>1, <1>4, EmptyScript DEF Dooms, SubOf, Corrects
<1>10. Shapes'
  BY <1>4, <1>8 DEF Shapes
<1>11. Covered'
  BY <1>1, <1>4, <1>9, QuietStatement
<1> QED
  BY <1>1, <1>10, <1>11

LEMMA NextMemberCovers ==
    ASSUME TypeOK, TypeOK', Covered, Shapes, \A k \in Keys : mem[k] >= 0,
           NEW a \in Admins, NextMember(a)
    PROVE  Covered' /\ Shapes' /\ \A k \in Keys : mem'[k] >= 0
<1> USE PersistenceConstants
<1> DEFINE h == admin[a]
           g == admin'[a]
<1>1. /\ h \in Handlers /\ HandlerShape(h) /\ h.todo = << >> /\ task' = task /\ mem' = mem
      /\ h.kind \in Kinds /\ h.rest \subseteq Keys /\ short' = short
  BY DEF TypeOK, NextMember, limiter, history, Shapes, Handlers
<1>2. PICK k \in h.rest :
        admin' = [admin EXCEPT ![a].scope = k, ![a].rest = @ \ {k}, ![a].prev = 0,
                               ![a].todo = KeySteps(h.kind, k, TRUE)]
  BY DEF NextMember
<1>3. PICK q : q = KeySteps(h.kind, k, TRUE)
  OBVIOUS
<1>4. /\ g.kind = h.kind /\ g.scope = k /\ g.prev = 0 /\ g.cascade = h.cascade /\ g.todo = q
      /\ g.rest = h.rest \ {k}
      /\ \A b \in Admins \ {a} : admin'[b] = admin[b]
  BY <1>1, <1>2, <1>3 DEF TypeOK, Handlers
<1>5. ZeroOnce(q) /\ (Has(q, "zero") <=> h.kind # "windows") /\ ~Has(q, "sub") /\ k # Team
  BY <1>1, <1>3, KeyScriptShape
<1>6. HandlerShape(g)
  <2> HIDE DEF h, g
  <2> QED
    BY <1>1, <1>4, <1>5 DEF HandlerShape, Clears, ZeroOnce
<1>7. Dooms(h) \subseteq Dooms(g) /\ SubOf(h) = 0 /\ SubOf(g) = 0
  <2> HIDE DEF h, g
  <2> QED
    BY <1>1, <1>4, <1>5, EmptyScript DEF Dooms, SubOf, Corrects, Clears
<1>8. Shapes'
  BY <1>4, <1>6 DEF Shapes
<1>9. Covered'
  BY <1>1, <1>4, <1>7, QuietStatement
<1> QED
  BY <1>1, <1>8, <1>9

\* Resets keep the team above its members.
LEMMA ResetsCover ==
    ASSUME TypeOK, TypeOK', Covered, Shapes, short >= 0, \A k \in Keys : mem[k] >= 0,
           NEW a \in Admins, AdminStep(a), ~ResetFails(a)
    PROVE  Covered' /\ Shapes' /\ short' >= 0 /\ \A k \in Keys : mem'[k] >= 0
<1>1. ASSUME NEW s \in Scopes, MarkReset(a, s) \/ ClearWindows(a, s) \/ DeleteRow(a, s) \/ DeleteWindow(a, s)
      PROVE  Covered' /\ Shapes' /\ short' >= 0 /\ \A k \in Keys : mem'[k] >= 0
  <2>1. /\ task' = task /\ mem' = mem /\ short' = short /\ admin[a].todo # << >> /\ Advance(a)
        /\ Head(admin[a].todo) \notin {"zero", "sub"}
    BY <1>1 DEF MarkReset, ClearWindows, DeleteRow, DeleteWindow, At, limiter, history
  <2> QED
    BY <2>1, AdvanceCovers
<1>2. ASSUME NEW s \in Scopes, Subtract(a, s) PROVE short' = short
  BY <1>2 DEF Subtract, history
<1>3. ASSUME NEW kind \in Kinds, NEW s \in Scopes, BeginReset(a, kind, s) PROVE short' = short
  BY <1>3 DEF BeginReset
<1>4. ASSUME NextMember(a) PROVE short' = short
  BY <1>4 DEF NextMember, history
<1> QED
  BY <1>1, <1>2, <1>3, <1>4, ZeroCovers, SubtractCovers, BeginCovers, NextMemberCovers
     DEF AdminStep, ResetStep

-----------------------------------------------------------------------------
\* CoverInv holds at the start.
LEMMA CoverInit == Init => CoverInv
<1> SUFFICES ASSUME Init PROVE CoverInv
  OBVIOUS
<1> USE PersistenceConstants
<1>1. \A a \in Admins : admin[a] = IdleHandler
  BY DEF Init
<1>2. \A a \in Admins : HandlerShape(admin[a]) /\ SubOf(admin[a]) = 0
  BY <1>1, IdleShape
<1>3. /\ \A k \in Members : Counted[k] = 0
      /\ \A a \in Admins : Subs[a] = 0
      /\ \A r \in Requests : Owes[r] = 0
      /\ mem[Team] = 0 /\ short = 0 /\ wipe = {} /\ \A k \in Keys : mem[k] >= 0
  BY <1>2 DEF Init, Counted, Subs, SubOf, Corrects, Owes, NewTask, Scopes
<1>4. /\ SumFunctionOnSet(Counted, Members) = 0 /\ SumFunctionOnSet(Subs, Admins) = 0
      /\ SumFunctionOnSet(Owes, Requests) = 0
  BY <1>3, SumZero
<1> QED
  BY <1>2, <1>3, <1>4 DEF CoverInv

\* Every step keeps it.
LEMMA CoverStep ==
    ForgetInv /\ ForgetInv' /\ CoverInv /\ [Next]_vars => CoverInv'
<1> SUFFICES ASSUME ForgetInv, ForgetInv', CoverInv, [Next]_vars, troubles' = 0
             PROVE  wipe' = {} /\ Shapes' /\ short' >= 0 /\ (\A k \in Keys : mem'[k] >= 0) /\ Covered'
  BY DEF CoverInv, Shapes, Covered
<1> USE DEF limiter, database, history, counts
<1>1. TypeOK /\ TypeOK' /\ troubles \in Nat
  BY PersistenceConstants DEF ForgetInv, TypeOK
<1>2. ~Trouble
  BY <1>1 DEF Trouble
<1>3. ASSUME troubles = 0
      PROVE  wipe = {} /\ Shapes /\ short >= 0 /\ (\A k \in Keys : mem[k] >= 0) /\ Covered
  BY <1>3 DEF CoverInv, Covered, Shapes
<1>4. ASSUME UNCHANGED <<mem, task, admin, wipe, short, troubles>>
      PROVE  wipe' = {} /\ Shapes' /\ short' >= 0 /\ (\A k \in Keys : mem'[k] >= 0) /\ Covered'
  <2>1. wipe = {} /\ Shapes /\ short >= 0 /\ (\A k \in Keys : mem[k] >= 0) /\ Covered
    BY <1>3, <1>4
  <2>2. Shapes'
    BY <1>4, <2>1 DEF Shapes
  <2>3. Doomed' = Doomed
    BY <1>4 DEF Doomed
  <2>4. Counted' = Counted /\ Subs' = Subs /\ Owes' = Owes
    BY <1>4, <2>3 DEF Counted, Subs, Owes
  <2> QED
    BY <1>4, <2>1, <2>2, <2>4 DEF Covered
<1>5. ASSUME NEW r \in Requests, RequestStep(r)
      PROVE  wipe' = {} /\ Shapes' /\ short' >= 0 /\ (\A k \in Keys : mem'[k] >= 0) /\ Covered'
  <2>1. UNCHANGED <<admin, wipe, troubles>>
    BY <1>5 DEF RequestStep, Commit, AddKey, MarkKey, AddTeam, MarkTeam
  <2>2. wipe = {} /\ Shapes /\ short >= 0 /\ (\A k \in Keys : mem[k] >= 0) /\ Covered
    BY <1>3, <2>1
  <2>3. Shapes'
    BY <2>1, <2>2 DEF Shapes
  <2> QED
    BY <1>1, <1>5, <2>1, <2>2, <2>3, RequestsCover
<1>6. CASE SyncStep \/ (\E s \in Scopes : Expire(s)) \/ (\E k \in Keys : ResetLimits(k)) \/ UNCHANGED vars
  BY <1>4, <1>6 DEF SyncStep, SyncBegin, SyncSkip, WriteWindow, ReadTotal, TakeDirty, WriteTotal, SyncEnd,
         Expire, ResetLimits, vars
<1>7. ASSUME NEW a \in Admins, AdminStep(a)
      PROVE  wipe' = {} /\ Shapes' /\ short' >= 0 /\ (\A k \in Keys : mem'[k] >= 0) /\ Covered'
  <2>1. ~ResetFails(a)
    BY <1>2 DEF ResetFails
  <2>2. UNCHANGED <<wipe, troubles>>
    BY <1>7, <2>1 DEF AdminStep, ResetStep, ZeroTotal, MarkReset, ClearWindows, DeleteRow, DeleteWindow,
           Subtract, BeginReset, NextMember
  <2>3. wipe = {} /\ Shapes /\ short >= 0 /\ (\A k \in Keys : mem[k] >= 0) /\ Covered
    BY <1>3, <2>2
  <2> QED
    BY <1>1, <1>7, <2>1, <2>2, <2>3, ResetsCover
<1>8. ~WipeStep
  <2>1. \A s \in Scopes : ~WipeTotal(s)
    BY <1>3 DEF WipeTotal
  <2>2. ~WipeDirty
    BY <1>3 DEF WipeDirty
  <2> QED
    BY <1>2, <2>1, <2>2 DEF WipeStep, WipeBegin
<1>9. ~SyncFails /\ ~Restart
  BY <1>2 DEF SyncFails, Restart
<1> QED
  BY <1>5, <1>6, <1>7, <1>8, <1>9 DEF Next

\* Between settlements and resets nobody owes anything.
LEMMA QuietCovers == TypeOK /\ CoverInv => ShortfallExplained
<1> SUFFICES ASSUME TypeOK, CoverInv, troubles = 0, Quiet
             PROVE  SumFunctionOnSet(mem, Members) <= mem[Team] + short
  BY DEF ShortfallExplained
<1> USE PersistenceConstants
<1>1. Covered /\ SumsTyped
  BY SumTypes DEF CoverInv, Covered
<1>2. \A a \in Admins : admin[a].todo = << >> /\ admin[a].rest = {}
  BY DEF Quiet, Idle
<1>3. \A a \in Admins : Subs[a] = 0
  BY <1>2, EmptyScript DEF Subs, Corrects
<1>4. \A r \in Requests : Owes[r] = 0
  BY DEF Owes, Quiet
<1>5. SumFunctionOnSet(Subs, Admins) = 0 /\ SumFunctionOnSet(Owes, Requests) = 0
  BY <1>3, <1>4, SumZero
<1>6. Doomed = {}
  BY <1>2, EmptyScript DEF Doomed
<1>7. \A k \in Members : Counted[k] = mem[k]
  BY <1>6 DEF Counted
<1>8. SumFunctionOnSet(mem, Members) = SumFunctionOnSet(Counted, Members)
  BY <1>7, SumAgree
<1> QED
  BY <1>1, <1>5, <1>8 DEF Covered, SumsTyped

\* ShortfallExplained: a team's total, on which its limit is enforced, lacks no
\* more of its members' usage than the team was never charged for and than
\* resets that crossed took twice, through every interleaving of settlements
\* (PlanCharge::settle), resets (reset_one_local and its callers, of any number of
\* administrators at a time) and the sync task, for every number of keys,
\* requests and administrators.
THEOREM TeamCovers == Spec => []ShortfallExplained
<1>1. ForgetInv => TypeOK
  BY DEF ForgetInv
<1>2. Init => ForgetInv /\ CoverInv
  BY ForgetInit, CoverInit
<1>3. ForgetInv /\ CoverInv /\ [Next]_vars => (ForgetInv /\ CoverInv)'
  BY ForgetStep, CoverStep
<1>4. ForgetInv /\ CoverInv => ShortfallExplained
  BY <1>1, QuietCovers
<1> QED
  BY <1>2, <1>3, <1>4, PTL DEF Spec
=============================================================================
