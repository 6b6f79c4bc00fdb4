--------------------------- MODULE MCFlowControl ---------------------------
(***************************************************************************)
(* Instances of FlowControl for TLC.                                       *)
(***************************************************************************)
EXTENDS FlowDispatch, TLC

Sym == Permutations(Requests)

Limits(n, c) == [max_inflight |-> n, max_context |-> c]

\* Contexts 1 and 2: with a budget of 2 a large request excludes all others.
Sizes == {1, 2}

\* One slot that stays: one request at a time.
FixedConfigs == {Limits(1, 2)}

\* The slot is resized under load; every context fits every configuration.
ResizedConfigs == {Limits(1, 2), Limits(2, 3)}

\* The slot is resized to a context budget alone that excludes the larger
\* requests, removed by a 0/0 configuration and created again.
AllConfigs == {Limits(2, 3), Limits(0, 1), NoSlot}
=============================================================================
