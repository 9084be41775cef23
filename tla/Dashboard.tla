----------------------------- MODULE Dashboard -----------------------------
(***************************************************************************)
(* The dashboard of frps in a browser (web/frps), its api                    *)
(* (server/dashboard_api.go) and the statistics behind it (ServerMetrics).   *)
(*                                                                          *)
(* Pages ask without waiting for earlier answers, and answers come in any     *)
(* order or not at all; a page that has been left still gets its own, and      *)
(* draws by element id, into whatever page is there.  Frps may be restarted    *)
(* with another configuration while a page is open.                           *)
(***************************************************************************)
EXTENDS ServerMetrics, DashboardViews

CONSTANTS
    Config,       \* configurations of frps
    FirstConfig,  \* the one it runs with when the browser is opened
    InfoOf,       \* their fields in /api/serverinfo
    ConfOf,       \* the configuration of a proxy, by its type
    MaxReqs,      \* bound: requests of the browser
    MaxRestarts   \* bound

ASSUME DashboardAssumption ==
    /\ Type \subseteq ProxyType /\ FirstConfig \in Config
    /\ MaxReqs \in Nat \ {0} /\ MaxRestarts \in Nat
    /\ NoPxy \notin Name

\* A configuration has no empty subdomain (omitempty), and null is no value.
ASSUME ConfAssumption ==
    \A t \in Type : /\ \A f \in DOMAIN ConfOf[t] : ConfOf[t][f] # Undefined
                    /\ "subdomain" \in DOMAIN ConfOf[t] => ConfOf[t].subdomain # << >>
                    /\ OutConf(t, ConfOf[t]) # Undefined

\* serverInfoResp leaves out allowPortsStr and tlsForce when they are not set (omitempty),
\* and nothing else.  The counts are not of the configuration.
ASSUME InfoAssumption ==
    /\ Undefined \notin Int \cup BOOLEAN
    /\ \A c \in Config :
          LET set == InfoOf[c]
          IN  /\ OptionalPort \cup {"subdomainHost", "maxPortsPerClient"} \subseteq DOMAIN set
              /\ "proxyTypeCount" \notin DOMAIN set
              /\ \A f \in DOMAIN set : set[f] # Undefined
              /\ \A f \in OptionalPort : set[f] \in Nat
              /\ \A f \in {"subdomainHost", "allowPortsStr"} \cap DOMAIN set : Len(set[f]) \in Nat
              /\ "tlsForce" \in DOMAIN set => set["tlsForce"] \in BOOLEAN

VARIABLES
    config,     \* of the running frps
    restarts,
    page,       \* "/" or the type of the table that is shown
    visit,      \* number of requests before the page was mounted
    rows,       \* proxies of the table
    overview,   \* data of the overview
    pie,        \* the chart of proxies on it
    dialog,     \* name of the proxy in the dialog, or NoPxy
    chart,      \* the chart in the dialog
    reqs        \* requests, in the order in which they were made

server == <<serverVars, config, restarts>>
table == <<page, visit, rows>>
home == <<overview, pie>>
window == <<dialog, chart>>
vars == <<server, table, home, window, reqs>>

Nothing == [from |-> 0]
Pages == {"/"} \cup (PageType \cap Type)

---------------------------------------------------------------------------
(* Requests *)

Req(kind, p, at, v) ==
    [kind |-> kind, page |-> p, at |-> at, visit |-> v, name |-> NoPxy,
     names |-> {}, info |-> Nothing, body |-> Nothing]

\* A fetch that is over is kept only as a number.
Over(i, rs) == [rs EXCEPT ![i] = Req("over", "/", "over", 0)]

\* fetchData of the page p: the overview and the tables of http, https and tcpmux begin
\* with /api/serverinfo, the other tables ask for their proxies.
FetchData(p, v) ==
    Req(IF p = "/" THEN "serverinfo" ELSE "proxies", p,
        IF p \in DOMAIN PortField THEN "asksPort" ELSE "sent", v)

Mounted(i) == reqs[i].visit = visit

\* Any page may be the first.
Init ==
    /\ ServerInit /\ config = FirstConfig /\ restarts = 0
    /\ page \in Pages /\ visit = 0 /\ rows = {}
    /\ overview = Nothing /\ pie = Nothing
    /\ dialog = NoPxy /\ chart = Nothing
    /\ reqs = <<FetchData(page, 0)>>

---------------------------------------------------------------------------
(* The user *)

\* The menu and the router: a page is mounted with nothing on it, and fetches.
Navigate(p) ==
    /\ page # p /\ Len(reqs) < MaxReqs
    /\ page' = p /\ visit' = Len(reqs) /\ rows' = {}
    /\ overview' = Nothing /\ pie' = Nothing
    /\ dialog' = NoPxy /\ chart' = Nothing
    /\ reqs' = Append(reqs, FetchData(p, Len(reqs)))
    /\ UNCHANGED server

OnTable == page # "/" /\ dialog = NoPxy /\ Len(reqs) < MaxReqs

Refresh ==
    /\ OnTable
    /\ reqs' = Append(reqs, FetchData(page, visit))
    /\ UNCHANGED <<server, table, home, window>>

ClearOfflineProxies ==
    /\ OnTable
    /\ reqs' = Append(reqs, Req("clear", page, "sent", visit))
    /\ UNCHANGED <<server, table, home, window>>

\* The button Traffic of a row: the dialog mounts Traffic.vue, which fetches.
OpenTraffic(row) ==
    /\ OnTable
    /\ dialog' = row.name /\ chart' = Nothing
    /\ reqs' = Append(reqs, [Req("traffic", page, "sent", visit) EXCEPT !.name = row.name])
    /\ UNCHANGED <<server, table, home>>

\* destroy-on-close
CloseTraffic ==
    /\ dialog # NoPxy
    /\ dialog' = NoPxy /\ chart' = Nothing
    /\ UNCHANGED <<server, table, home, reqs>>

---------------------------------------------------------------------------
(* The api *)

Is(i, kind, at) == reqs[i].kind = kind /\ reqs[i].at = at

Counts == [t \in counted |-> typeCounts[t]]
Quiet == \A c \in Client : report[c] = NoCall
InSum == Cardinality({n \in Name : pxys[n] # NoPxy /\ pxys[n].type # "tcpmux"})

\* apiServerInfo.  Ghosts: online is the number of proxies, quiet that all are reported.
ServerInfo(i) ==
    /\ Is(i, "serverinfo", "sent")
    /\ reqs' = [reqs EXCEPT ![i].at = "answered",
                            ![i].body = [config |-> config, proxyTypeCount |-> Counts,
                                         online |-> InSum, quiet |-> Quiet]]
    /\ UNCHANGED <<server, table, home, window>>

ServerInfoPort(i) ==
    /\ Is(i, "proxies", "asksPort")
    /\ reqs' = [reqs EXCEPT ![i].at = "hasPort",
                            ![i].info = [port |-> InfoOf[config][PortField[reqs[i].page]],
                                         subdomainHost |-> InfoOf[config].subdomainHost]]
    /\ UNCHANGED <<server, table, home, window>>

\* getProxyStatsByType: GetProxiesByType under the lock of the metrics ...
CollectStats(i) ==
    /\ Is(i, "proxies", "sent")
    /\ reqs' = [reqs EXCEPT ![i].at = "collected",
                            ![i].names = {n \in Name : stats[n] # NoStats
                                                       /\ stats[n].type = reqs[i].page}]
    /\ UNCHANGED <<server, table, home, window>>

\* ... then the manager, for the configuration of the proxies that are online.
ProxyStatsInfo(type, n) ==
    IF pxys[n] = NoPxy THEN [name |-> n, conf |-> Undefined, status |-> "offline"]
    ELSE [name |-> n, conf |-> OutConf(type, ConfOf[pxys[n].type]), status |-> "online"]

\* The ghost of is the proxy that has the name.
GetProxyStats(i) ==
    /\ Is(i, "proxies", "collected")
    /\ reqs' = [reqs EXCEPT ![i].at = "answered", ![i].names = {},
                            ![i].body = [proxies |-> {[ps |-> ProxyStatsInfo(reqs[i].page, n),
                                                       of |-> pxys[n]] : n \in reqs[i].names}]]
    /\ UNCHANGED <<server, table, home, window>>

\* deleteProxies, for which the page always asks with status=offline.
DeleteProxies(i) ==
    /\ Is(i, "clear", "sent")
    /\ ClearUselessInfo(Name)
    /\ reqs' = [reqs EXCEPT ![i].at = "answered"]
    /\ UNCHANGED <<config, restarts, table, home, window>>

\* apiProxyTraffic: the traffic of the name (module ProxyTraffic), or 404.
ProxyTraffic(i) ==
    /\ Is(i, "traffic", "sent")
    /\ reqs' = [reqs EXCEPT ![i].at = IF stats[reqs[i].name] = NoStats THEN "refused"
                                                                       ELSE "answered"]
    /\ UNCHANGED <<server, table, home, window>>

\* frps is restarted, and the requests it was serving fail.
Restart ==
    /\ restarts < MaxRestarts
    /\ restarts' = restarts + 1 /\ config' \in Config
    /\ ServerRestart
    /\ reqs' = [i \in DOMAIN reqs |-> IF reqs[i].at \in {"sent", "asksPort", "collected"}
                                      THEN Req("over", "/", "over", 0) ELSE reqs[i]]
    /\ UNCHANGED <<table, home, window>>

---------------------------------------------------------------------------
(* Answers *)

\* A fetch fails.  The tables have no handler for that and the others show a warning.
Fails(i) ==
    /\ reqs[i].at # "over"
    /\ reqs' = Over(i, reqs)
    /\ UNCHANGED <<server, table, home, window>>

\* fetchData of ServerOverview: its own data, then the charts by id.  Without the
\* elements the drawing throws, which ends in the warning.
ServerInfoArrives(i) ==
    /\ Is(i, "serverinfo", "answered")
    /\ overview' = IF Mounted(i) THEN reqs[i].body ELSE overview
    /\ pie' = IF page = "/" THEN [from |-> i, slices |-> ProxySlices(reqs[i].body.proxyTypeCount)]
                            ELSE pie
    /\ reqs' = Over(i, reqs)
    /\ UNCHANGED <<server, table, window>>

\* The tables of http and https stop here when frps does not serve the type.
PortArrives(i) ==
    /\ Is(i, "proxies", "hasPort")
    /\ reqs' = IF reqs[i].page \in {"http", "https"} /\ reqs[i].info.port = 0
               THEN Over(i, reqs)
               ELSE [reqs EXCEPT ![i].at = "sent"]
    /\ UNCHANGED <<server, table, home, window>>

\* The row for a proxy of an answer.  Ghosts: the proxy, and what RowOf had from serverinfo.
Row(req, p) == Merge([of |-> p.of, info |-> req.info], RowOf(req.page, p.ps, req.info))

\* mutant: the rows go to whatever table is shown.
ProxiesArriveAnywhere(i) ==
    /\ Is(i, "proxies", "answered")
    /\ rows' = {Row(reqs[i], p) : p \in reqs[i].body.proxies}
    /\ reqs' = Over(i, reqs)
    /\ UNCHANGED <<server, page, visit, home, window>>

\* The rows belong to the component that asked.
ProxiesArrive(i) ==
    /\ Is(i, "proxies", "answered")
    /\ rows' = IF Mounted(i) THEN {Row(reqs[i], p) : p \in reqs[i].body.proxies} ELSE rows
    /\ reqs' = Over(i, reqs)
    /\ UNCHANGED <<server, page, visit, home, window>>

\* clearOfflineProxies emits refresh, which does nothing once the table is left.
ClearArrives(i) ==
    /\ Is(i, "clear", "answered")
    /\ IF Mounted(i)
       THEN /\ Len(reqs) < MaxReqs
            /\ reqs' = Append(Over(i, reqs), FetchData(page, visit))
       ELSE reqs' = Over(i, reqs)
    /\ UNCHANGED <<server, table, home, window>>

\* mutant: the chart is drawn in the open dialog.
TrafficArrivesAnywhere(i) ==
    /\ Is(i, "traffic", "answered")
    /\ chart' = IF dialog # NoPxy THEN [from |-> i, name |-> reqs[i].name] ELSE chart
    /\ reqs' = Over(i, reqs)
    /\ UNCHANGED <<server, table, home, dialog>>

\* fetchData of Traffic: the chart goes to the element whose id is the name.
TrafficArrives(i) ==
    /\ Is(i, "traffic", "answered")
    /\ chart' = IF dialog = reqs[i].name THEN [from |-> i, name |-> reqs[i].name] ELSE chart
    /\ reqs' = Over(i, reqs)
    /\ UNCHANGED <<server, table, home, dialog>>

---------------------------------------------------------------------------
User ==
    \/ \E p \in Pages : Navigate(p)
    \/ Refresh \/ ClearOfflineProxies \/ CloseTraffic
    \/ \E row \in rows : OpenTraffic(row)

Api(i) ==
    \/ ServerInfo(i) \/ ServerInfoPort(i) \/ CollectStats(i) \/ GetProxyStats(i)
    \/ DeleteProxies(i) \/ ProxyTraffic(i)

Answer(i) ==
    \/ Fails(i) \/ ServerInfoArrives(i) \/ PortArrives(i) \/ ProxiesArrive(i)
    \/ ClearArrives(i) \/ TrafficArrives(i)

Next ==
    \/ User \/ Restart
    \/ \E i \in DOMAIN reqs : Api(i) \/ Answer(i)
    \/ Controls /\ UNCHANGED <<config, restarts, table, home, window, reqs>>

Spec == Init /\ [][Next]_vars

---------------------------------------------------------------------------
(* Properties *)

\* Types, and: a table, an overview and a dialog are not there together.
TypeOK ==
    /\ ServerTypeOK
    /\ config \in Config /\ restarts \in 0 .. MaxRestarts
    /\ page \in Pages /\ visit \in 0 .. MaxReqs /\ Len(reqs) <= MaxReqs
    /\ rows # {} => page # "/"
    /\ overview # Nothing \/ pie # Nothing => page = "/"
    /\ dialog \in Name \cup {NoPxy} /\ (dialog # NoPxy => page # "/")
    /\ chart # Nothing => dialog # NoPxy

\* What the table and the expanded form must show of a proxy that is online, so that a
\* user knows how it is reached.
Published(type, conf, info) ==
    CASE type \in {"tcp", "udp"} ->
             LET port == Or(Field(conf, "remotePort"), 0) IN [port |-> port, addr |-> Addr(port)]
      [] type \in {"http", "https", "tcpmux"} ->
             [port |-> info.port, customDomains |-> Or(Field(conf, "customDomains"), << >>),
              subdomain |-> IF Field(conf, "subdomain") = Undefined THEN << >>
                            ELSE FullDomain(conf.subdomain, info.subdomainHost)]
      [] OTHER -> [port |-> 0]

\* A row shows that in its columns or in its expanded form.
Shows(row, conf, info) ==
    LET wanted == Published(row.type, conf, info)
    IN  \A f \in DOMAIN wanted : f \in DOMAIN Visible(row) /\ Visible(row)[f] = wanted[f]

\* A table has rows of its own type only, however late an answer comes, and the row of
\* a proxy that is online shows what getConfByType, the class of the row and the expanded
\* form have to hand on; statistics of an older proxy of another type aside.
RowsFaithful ==
    \A row \in rows :
        /\ row.type = page
        /\ row.of # NoPxy /\ row.of.type = page => Shows(row, ConfOf[page], row.info)

\* What the overview shows is derived from the answer that it keeps.
Data == OverviewData(Merge(InfoOf[overview.config], [proxyTypeCount |-> overview.proxyTypeCount]))

\* All slices of the chart together, whichever types they are for.
SliceSum(slices) ==
    LET n(t) == IF t \in DOMAIN slices THEN slices[t] ELSE 0
    IN  n("tcp") + n("udp") + n("http") + n("https") + n("tcpmux") + n("stcp") + n("sudp") + n("xtcp")

\* The slices of the chart add up to the number beside it, which is that of the proxies
\* that were online when frps answered, except the tcpmux ones, unless an answer to an
\* earlier visit of the overview has been drawn over the chart.
AddsUp ==
    overview # Nothing =>
        /\ pie.from > visit => SliceSum(pie.slices) = Data.proxyCounts
        /\ overview.quiet => Data.proxyCounts = overview.online

\* The overview has an item for each setting that is on and for no other, and a text is
\* there in exactly one of the two forms of LongSpan.  Left out are a text of 30
\* characters, and allowPortsStr when it is absent from the answer.
Legible ==
    overview # Nothing =>
        LET set == InfoOf[overview.config]
            on == {f \in OptionalPort : set[f] > 0}
                  \cup {f \in {"subdomainHost", "allowPortsStr"} \cap DOMAIN set : set[f] # << >>}
                  \cup {f \in {"tlsForce"} \cap DOMAIN set : set[f]}
        IN  /\ Items(Data) \ {"allowPortsStr"} = on \ {"allowPortsStr"}
            /\ \A f \in Items(Data) \cap on \cap {"subdomainHost", "allowPortsStr"} :
                   Len(set[f]) # 30 => Cardinality(LongSpan(Data[f], 30)) = 1

\* The overview adds up and is legible.
OverviewFaithful == AddsUp /\ Legible

\* The dialog never has the chart of another proxy, whichever dialogs were opened before it
\* and whenever their answers come.
DialogShowsItsProxy == chart # Nothing => chart.name = dialog

\* What is on the page belongs together: a table, an overview and a dialog never share it,
\* and the chart is that of the dialog.
PageSound == TypeOK /\ DialogShowsItsProxy
=============================================================================
