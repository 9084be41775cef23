------------------------------ MODULE MCMetrics ------------------------------
(***************************************************************************)
(* What frps keeps in memory about its proxies, for TLC: ServerMetrics with   *)
(* two clients, which compete for one of the names, and ProxyTraffic with      *)
(* counters of three days over four days, so that values move by one and two   *)
(* slots and fall off the end.                                               *)
(*                                                                          *)
(* The two parts share no variable and every property is about one of them,    *)
(* so each moves while the other is where it begins.                          *)
(***************************************************************************)
EXTENDS ServerMetrics, ProxyTraffic

Owners == [n \in Name |-> IF n = "n1" THEN {"c1"} ELSE Client]
AllChanges == -1 .. 1
TwoSkews == 0 .. 1

Init == ServerInit /\ TrafficInit

Next ==
    \/ TrafficInit /\ ServerNext /\ UNCHANGED trafficVars
    \/ ServerInit /\ TrafficNext /\ UNCHANGED serverVars

Spec == Init /\ [][Next]_<<serverVars, trafficVars>>
=============================================================================
