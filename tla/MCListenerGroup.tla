-------------------------- MODULE MCListenerGroup --------------------------
(***************************************************************************)
(* ListenerGroup for TLC: two proxies that fit each other, one of the same   *)
(* group with another key and other credentials, and one of another group.   *)
(***************************************************************************)
EXTENDS ListenerGroup

MCPxy     == {"a", "b", "c", "d"}
MCGroupOf == [p \in MCPxy |-> IF p = "d" THEN "api" ELSE "web"]
MCKeyOf   == [p \in MCPxy |-> IF p = "c" THEN "k2" ELSE "k1"]

\* Both groups want one port, or they are of different kinds.
SamePort  == [p \in MCPxy |-> "x"]
TwoRoutes == [p \in MCPxy |-> IF p = "d" THEN "y" ELSE "x"]
BothTCP   == [n \in {"web", "api"} |-> "tcp"]
Muxed     == [n \in {"web", "api"} |-> IF n = "web" THEN "tcpmux" ELSE "https"]

\* All proxies belong to one client, or each to a client of its own.
AllOfOne   == [p \in MCPxy |-> "ctl"]
EachItsOwn == [p \in MCPxy |-> p]

Setting(kind, route, ctl, others) ==
    [kindOf |-> kind, routeOf |-> route, ctlOf |-> ctl, othersBind |-> others]

MCSetups  == {Setting(BothTCP, SamePort, EachItsOwn, FALSE),
              Setting(BothTCP, SamePort, AllOfOne, TRUE),
              Setting(Muxed, TwoRoutes, AllOfOne, FALSE)}
=============================================================================
