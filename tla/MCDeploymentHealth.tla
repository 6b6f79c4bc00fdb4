------------------------- MODULE MCDeploymentHealth -------------------------
(* Instances of DeploymentHealth for TLC. *)
EXTENDS DeploymentHealth

CONSTANTS m1, m2, d1, d2, a1, admin, hup

E(m, d, w) == [model |-> m, id |-> d, on |-> TRUE, wild |-> w]
NoAlias == [a \in {} |-> [target |-> m1, hidden |-> FALSE]]
OneAlias == [a \in {a1} |-> [target |-> m1, hidden |-> FALSE]]
Base == [file |-> [models |-> {E(m1, d1, FALSE)}, aliases |-> OneAlias], off |-> {}, flaky |-> {},
         checks |-> {}, probed |-> {d1, d2}, forms |-> Entry, edits |-> 0, reloads |-> 0, faults |-> 0, flips |-> 0]
Two == [models |-> {E(m1, d1, FALSE), E(m2, d2, FALSE)}, aliases |-> NoAlias]

Twins == [models |-> {E(m1, d1, FALSE), E(m1, d2, FALSE)}, aliases |-> NoAlias]

Edits == [Base EXCEPT !.edits = 2]
Breaks == [Base EXCEPT !.file = Twins, !.flaky = {d1, d2}, !.flips = 2, !.checks = {"offline", "recovery"}]
Requests == [Base EXCEPT !.flaky = {d1}, !.flips = 2, !.checks = Checks]
Recovers == [Base EXCEPT !.file = Two, !.off = {d1}, !.flaky = {d1}, !.flips = 2, !.checks = {"offline", "recovery"}]
Off(e) == [e EXCEPT !.on = FALSE]
Forms == {E(m1, d1, FALSE), Off(E(m1, d1, FALSE)), Off(E(m2, d2, FALSE)), E(m2, d1, TRUE)}
EditsWhileBroken == [Base EXCEPT !.flaky = {d1}, !.flips = 1, !.checks = {"offline", "recovery"},
                                 !.edits = 1, !.forms = Forms]
EditsWhileOff == [EditsWhileBroken EXCEPT !.off = {d1}, !.forms = {Off(E(m1, d1, FALSE)), E(m2, d2, FALSE)}]
NoUrl == [Requests EXCEPT !.probed = {}]
Fails == [Base EXCEPT !.edits = 1, !.forms = Forms, !.reloads = 1, !.faults = 1]
QueryFails == [Recovers EXCEPT !.off = {}, !.flips = 1, !.checks = Checks, !.faults = 1]

PassScenarios == {Edits, Breaks, Requests, Recovers, EditsWhileBroken, EditsWhileOff, NoUrl, Fails, QueryFails}
=============================================================================
