---------------------------- MODULE MCHTTPGroup ----------------------------
(***************************************************************************)
(* HTTPGroup for TLC: two proxies of one group on one route, one of the same *)
(* group with another key and a second route, and one without a group that   *)
(* wants both routes.                                                        *)
(***************************************************************************)
EXTENDS HTTPGroup

MCPxy      == {"a", "b", "c", "d"}
MCRoute    == {"x", "y"}
MCRoutesOf == [p \in MCPxy |-> CASE p = "c" -> <<"x", "y">>
                                 [] p = "d" -> <<"y", "x">>
                                 [] OTHER -> <<"x">>]
MCGroupOf  == [p \in MCPxy |-> IF p = "d" THEN "none" ELSE "web"]
MCKeyOf    == [p \in MCPxy |-> IF p = "c" THEN "k2" ELSE "k1"]

\* All proxies belong to one client, or each to a client of its own, or all of
\* the group to one.
OneControl   == [p \in MCPxy |-> "ctl"]
ManyControls == [p \in MCPxy |-> p]
GroupOfOne   == [p \in MCPxy |-> IF p = "d" THEN "d" ELSE "ctl"]
MCOwners     == {OneControl, ManyControls, GroupOfOne}
=============================================================================
