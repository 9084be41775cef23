---------------------------- MODULE MCDashboard ----------------------------
(***************************************************************************)
(* Dashboard for TLC: one client that registers two names.                   *)
(***************************************************************************)
EXTENDS Dashboard, TLC

Owners == [n \in Name |-> Client]
NameSymmetry == Permutations(Name)

\* By default nothing is set, and allowPortsStr is absent.
Infos ==
    [default |-> [f \in OptionalPort |-> 0]
                 @@ [subdomainHost |-> << >>, maxPortsPerClient |-> 0],
     custom  |-> [f \in OptionalPort |-> IF f = "kcpBindPort" THEN 0 ELSE 80]
                 @@ [subdomainHost |-> <<"frps">>, maxPortsPerClient |-> 5,
                     allowPortsStr |-> [i \in 1 .. 31 |-> "1"], tlsForce |-> TRUE]]

Domains == [customDomains |-> <<"a.com">>, subdomain |-> <<"s">>]
ConfOfType ==
    [t \in PageType |->
        CASE t \in {"tcp", "udp"} -> [remotePort |-> 6000, useEncryption |-> TRUE]
          [] t = "http" -> Domains @@ [locations |-> <<"/">>]
          [] t = "https" -> [customDomains |-> <<"a.com">>, annotations |-> {<<"k", "v">>}]
          [] t = "tcpmux" -> Domains @@ [multiplexer |-> <<"httpconnect">>]
          [] OTHER -> [useCompression |-> TRUE]]

\* The row of every type shows how its proxy is reached, with a port and a subdomain
\* host that are set and with none.
ASSUME \A t \in PageType, port \in {0, 80}, host \in {<< >>, <<"frps">>} :
           LET info == [port |-> port, subdomainHost |-> host]
               ps == [name |-> "n", conf |-> OutConf(t, ConfOfType[t]), status |-> "online"]
           IN  Shows(RowOf(t, ps, info), ConfOfType[t], info)
=============================================================================
