-------------------------- MODULE MCLoadBalancer --------------------------
(***************************************************************************)
(* An instance of LoadBalancer for TLC.  The second configuration drops a  *)
(* route, reorders the default list, marks after one failed probe and      *)
(* moves the blacklist to another directory.                               *)
(***************************************************************************)
EXTENDS LoadBalancer, TLC

CONSTANTS b1, b2, b3, c1, c2, r1

Route(kinds, clients, mode, list) ==
    [kinds |-> kinds, clients |-> clients, mode |-> mode, list |-> list]

Pair == Route({"pair"}, {}, "active", <<b1, b2>>)
Moved == Route({"moved"}, {}, "redirect", <<b1>>)
Alone == Route({"alone"}, {}, "single", <<b3>>)
Spare == Route({"spare"}, {c1}, "standby", <<b2, b3>>)

Before == [routes |-> <<Pair, Moved, Alone, Spare>>, default |-> <<b1, b2>>, blacklist |-> "p1",
           trusted |-> {}, limited |-> TRUE, retry5xx |-> 1, threshold |-> 2]

\* One route less, another default list and another blacklist.
After == [Before EXCEPT !.routes = <<Pair, Moved, Alone>>, !.default = <<b2, b1>>,
                        !.blacklist = "p2", !.trusted = {c1}, !.retry5xx = 0,
                        !.threshold = 1]

TwoConfigs == {Before, After}

PeerOf == r1 :> c1
HopOf == r1 :> c2
WalkOf == ("a" :> <<b1, b2, b3>>) @@ ("b" :> <<b3, b2, b1>>)
Apart == ("p1" :> "old") @@ ("p2" :> "new")
=============================================================================
