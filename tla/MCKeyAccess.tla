------------------------------ MODULE MCKeyAccess ------------------------------
(* Small instances of KeyAccess: one scenario per kind of disturbance. *)
EXTENDS KeyAccess, TLC

CONSTANTS k1, k2, t1, gold, base, a1, a2, r1, m1, m2, alias

MCYaml == base :> "key" @@ gold :> None

Dir == [alias |-> alias :> m1, deployed |-> {m1, m2, Wildcard}, public |-> {}, hybrid |-> {}, hidden |-> {}]
Open == [Dir EXCEPT !.public = {m2}, !.hidden = {alias}]
Plain == [blocked |-> FALSE, expires |-> FALSE, models |-> {AllTeam}, team |-> t1]

E(kind, p, o, tell) == [kind |-> kind, plan |-> p, type |-> "key", owner |-> o, tell |-> tell]

Calm == [edits |-> 0, reloads |-> 0, troubles |-> 0, keyEdits |-> 0, dates |-> 0, menu |-> {}, clients |-> {},
         lists |-> {}, keys |-> Plain, teamList |-> {m1}, dir |-> Dir]

Assigns == [Calm EXCEPT !.edits = 3,
              !.menu = {E("upsert", gold, k1, TRUE), E("assign", gold, k1, TRUE), E("optout", gold, k1, TRUE),
                        E("unassign", gold, k1, TRUE), E("delete", gold, k1, TRUE)}]
Reloads == [Calm EXCEPT !.edits = 2, !.reloads = 1,
              !.menu = {E("upsert", gold, k1, TRUE), E("assign", base, k1, TRUE), E("optout", gold, k1, TRUE),
                        E("delete", base, k1, TRUE)}]
Fails == [Calm EXCEPT !.edits = 1, !.reloads = 1, !.troubles = 1,
              !.menu = {E("upsert", gold, k1, TRUE), E("assign", base, k1, TRUE)}]
KeyOps == [Calm EXCEPT !.keyEdits = 2, !.clients = Reqs, !.dates = 1,
              !.lists = {{}, {m1}, {alias, AllProxy}, {Wildcard, m2}}]
Revoking == [Calm EXCEPT !.keyEdits = 2, !.reloads = 1, !.troubles = 1, !.clients = Reqs]
NewKeys == [Calm EXCEPT !.keyEdits = 2, !.edits = 1, !.keys = NoKey, !.lists = {{AllTeam, m1}, {alias}},
              !.menu = {E("assign", base, k1, TRUE)}, !.dir = Open]

Recreates == [Calm EXCEPT !.edits = 3, !.reloads = 1,
              !.menu = {E("upsert", gold, k1, FALSE), E("assign", gold, k1, FALSE)}]

MCScenarios == {Assigns, Reloads, Recreates, Fails, KeyOps, Revoking, NewKeys}
=============================================================================
