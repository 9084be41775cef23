--------------------------- MODULE MCAdminConfig ---------------------------
(***************************************************************************)
(* AdminConfig for TLC: two texts that load, one of which has two proxies    *)
(* of one type, and which share one of their visitors.  One tab, which may    *)
(* upload again before it has an answer.                                     *)
(***************************************************************************)
EXTENDS AdminConfig

ProxiesOfText(text) ==
    CASE text = "v1" -> {[name |-> "a", type |-> "tcp"], [name |-> "b", type |-> "tcp"]}
      [] text = "v2" -> {[name |-> "a", type |-> "http"], [name |-> "b", type |-> "tcp"]}
      [] OTHER -> {}

VisitorsOfText(text) ==
    CASE text = "v1" -> {"s"} [] text = "v2" -> {"s", "t"} [] OTHER -> {}
=============================================================================
