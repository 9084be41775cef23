--------------------------- MODULE DashboardViews ---------------------------
(***************************************************************************)
(* What the pages of the frps dashboard make of the answers of its api: the  *)
(* rows of a table of proxies (web/frps/src/utils/proxy.ts), their expanded  *)
(* form (ProxyViewExpand.vue), and the items and charts of the overview      *)
(* (ServerOverview.vue, LongSpan.vue, chart.ts).                             *)
(*                                                                          *)
(* An object of JSON is a function on the fields it has, a string a sequence. *)
(* Counters and times of a proxy, which are copied, are left out.            *)
(***************************************************************************)
EXTENDS Naturals, Sequences, FiniteSets

CONSTANTS Undefined    \* of a field that an object does not have, and null

Field(obj, f) == IF f \in DOMAIN obj THEN obj[f] ELSE Undefined
Or(x, default) == IF x = Undefined THEN default ELSE x
Only(obj, fields) == [f \in DOMAIN obj \cap fields |-> obj[f]]

\* The fields of two objects; of those that both have, the first one's.
Merge(obj, other) ==
    [f \in DOMAIN obj \cup DOMAIN other |-> IF f \in DOMAIN obj THEN obj[f] ELSE other[f]]

ProxyType == {"tcp", "udp", "http", "https", "tcpmux", "stcp", "sudp", "xtcp"}

\* Routes of the dashboard.  There is none for xtcp.
PageType == ProxyType \ {"xtcp"}

---------------------------------------------------------------------------
(* The configuration of a proxy, as /api/proxy/:type has it *)

BaseOutConf == {"annotations", "useEncryption", "useCompression"}
DomainConfig == {"customDomains", "subdomain"}

\* getConfByType: the fields that the answer keeps.  It has no structure for sudp, for
\* which the configuration is decoded as it is.  Without omitempty a field is always there.
OutConf(type, conf) ==
    CASE type \in {"tcp", "udp"} ->
              Merge(Only(conf, BaseOutConf), [remotePort |-> Or(Field(conf, "remotePort"), 0)])
      [] type = "tcpmux" ->
              Merge(Only(conf, BaseOutConf \cup DomainConfig),
                    [f \in {"multiplexer", "routeByHTTPUser"} |-> Or(Field(conf, f), << >>)])
      [] type = "http" ->
              Merge(Only(conf, BaseOutConf \cup DomainConfig),
                    [f \in {"locations", "hostHeaderRewrite"} |-> Or(Field(conf, f), << >>)])
      [] type = "https"  -> Only(conf, BaseOutConf \cup DomainConfig)
      [] type \in {"stcp", "xtcp"} -> Only(conf, BaseOutConf)
      [] type = "sudp"   -> conf

---------------------------------------------------------------------------
(* Rows: the classes of proxy.ts.  ps.conf is null for a proxy that is offline. *)

Conf(ps) == IF ps.conf = Undefined THEN << >> ELSE ps.conf

BaseProxy(ps) ==
    [name |-> ps.name, type |-> << >>, status |-> ps.status,
     annotations |-> Or(Field(Conf(ps), "annotations"), {}),
     encryption  |-> Or(Field(Conf(ps), "useEncryption"), FALSE),
     compression |-> Or(Field(Conf(ps), "useCompression"), FALSE),
     addr |-> << >>, port |-> 0, customDomains |-> << >>, hostHeaderRewrite |-> << >>,
     locations |-> << >>, subdomain |-> << >>]

\* ':' + port and subdomain + '.' + host
Addr(port) == <<":", port>>
FullDomain(sub, host) == sub \o <<".">> \o host

TCPProxy(ps) ==
    [BaseProxy(ps) EXCEPT
        !.type = "tcp",
        !.addr = IF ps.conf = Undefined THEN << >> ELSE Addr(Field(ps.conf, "remotePort")),
        !.port = IF ps.conf = Undefined THEN 0 ELSE Field(ps.conf, "remotePort")]

UDPProxy(ps) == [TCPProxy(ps) EXCEPT !.type = "udp"]

\* What HTTPProxy, HTTPSProxy and TCPMuxProxy do alike.
WithDomains(row, ps, port, subdomainHost) ==
    LET sub == Or(Field(Conf(ps), "subdomain"), << >>)
    IN  [row EXCEPT
            !.port = port,
            !.customDomains = Or(Field(Conf(ps), "customDomains"), @),
            !.subdomain = IF sub = << >> THEN @ ELSE FullDomain(sub, subdomainHost)]

HTTPProxy(ps, port, subdomainHost) ==
    LET row == WithDomains(BaseProxy(ps), ps, port, subdomainHost)
    IN  IF ps.conf = Undefined THEN [row EXCEPT !.type = "http"]
        ELSE [row EXCEPT !.type = "http",
                         !.hostHeaderRewrite = Field(ps.conf, "hostHeaderRewrite"),
                         !.locations = Field(ps.conf, "locations")]

HTTPSProxy(ps, port, subdomainHost) ==
    [WithDomains(BaseProxy(ps), ps, port, subdomainHost) EXCEPT !.type = "https"]

TCPMuxProxy(ps, port, subdomainHost) ==
    LET conf(f) == IF ps.conf = Undefined THEN << >> ELSE Field(ps.conf, f)
    IN  Merge([WithDomains(BaseProxy(ps), ps, port, subdomainHost) EXCEPT !.type = "tcpmux"],
              [multiplexer |-> conf("multiplexer"), routeByHTTPUser |-> conf("routeByHTTPUser")])

STCPProxy(ps) == [BaseProxy(ps) EXCEPT !.type = "stcp"]
SUDPProxy(ps) == [BaseProxy(ps) EXCEPT !.type = "sudp"]

\* The port that a page takes from /api/serverinfo before it asks for its proxies.
PortField == [http |-> "vhostHTTPPort", https |-> "vhostHTTPSPort",
              tcpmux |-> "tcpmuxHTTPConnectPort"]

\* The row that the page of a type makes; info is what it has from /api/serverinfo.
RowOf(type, ps, info) ==
    CASE type = "tcp"    -> TCPProxy(ps)
      [] type = "udp"    -> UDPProxy(ps)
      [] type = "http"   -> HTTPProxy(ps, info.port, info.subdomainHost)
      [] type = "https"  -> HTTPSProxy(ps, info.port, info.subdomainHost)
      [] type = "tcpmux" -> TCPMuxProxy(ps, info.port, info.subdomainHost)
      [] type = "stcp"   -> STCPProxy(ps)
      [] type = "sudp"   -> SUDPProxy(ps)

\* ProxyViewExpand: the fields that the expanded row shows.
ExpandedFields(proxyType) ==
    {"name", "type", "encryption", "compression", "annotations"}
    \cup CASE proxyType \in {"http", "https"} ->
                  {"customDomains", "subdomain", "locations", "hostHeaderRewrite"}
           [] proxyType = "tcpmux" ->
                  {"multiplexer", "routeByHTTPUser", "customDomains", "subdomain"}
           [] OTHER -> {"addr"}

\* ProxyView: the columns of the table.
Columns == {"name", "port", "status"}

Visible(row) == Only(row, Columns \cup ExpandedFields(row.type))

---------------------------------------------------------------------------
(* The overview *)

OptionalPort == {"kcpBindPort", "quicBindPort", "vhostHTTPPort", "vhostHTTPSPort",
                 "tcpmuxHTTPConnectPort"}

\* mutant: a type is forgotten in the sum.
ProxyCountsFewer(counts) ==
    LET n(t) == Or(Field(counts, t), 0)
    IN  n("tcp") + n("udp") + n("https") + n("stcp") + n("sudp") + n("xtcp")

\* fetchData adds up the types one after the other.  There is no tcpmux.
ProxyCounts(counts) ==
    LET n(t) == Or(Field(counts, t), 0)
    IN  n("tcp") + n("udp") + n("http") + n("https") + n("stcp") + n("sudp") + n("xtcp")

\* fetchData of ServerOverview: fields are copied, with a word for an unlimited number.
OverviewData(json) ==
    Merge([f \in OptionalPort \cup {"subdomainHost", "allowPortsStr", "tlsForce"} |-> Field(json, f)],
          [maxPortsPerClient |-> IF json.maxPortsPerClient = 0 THEN "no limit"
                                                              ELSE json.maxPortsPerClient,
           proxyCounts |-> ProxyCounts(json.proxyTypeCount)])

\* The items under v-if.  An absent allowPortsStr is not '', so its item is there.
Items(data) ==
    {f \in OptionalPort : data[f] # 0}
    \cup {f \in {"subdomainHost", "allowPortsStr"} : data[f] # << >>}
    \cup {f \in {"tlsForce"} : data[f] = TRUE}

\* LongSpan: the spans that are visible.  The second compares with 30, whatever length
\* is; without content the component cannot be rendered and shows nothing.
LongSpan(content, length) ==
    IF content = Undefined THEN {}
    ELSE {SubSeq(content, 1, length) \o <<"...">> : c \in {c \in {content} : Len(c) > length}}
         \cup {c \in {content} : Len(c) < 30}

\* DrawProxyChart: a slice for each of its types that has proxies.
SliceTypes == {"tcp", "udp", "http", "https", "stcp", "sudp", "xtcp"}

ProxySlices(counts) ==
    [t \in {t \in SliceTypes : Or(Field(counts, t), 0) # 0} |-> counts[t]]
=============================================================================
