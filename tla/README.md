# A TLA+ verification project for frp

frp is a reverse proxy. A client (frpc) behind a NAT keeps a control connection to a
server (frps) with a public address and registers *proxies* there; frps opens ports,
virtual hosts or named secret services for them and hands every user connection to
frpc over a *work connection*. This directory holds TLA+ modules for the parts of
frp that decide who owns what and when, and of the two web pages that show and change
it; TLC configurations that check them on small instances; and TLAPS proofs, for
instances of any size, of every safety property that those configurations check. Paths
below are relative to the repository.

## 1. Inventory

| part | state | operations | what is hard about it |
|---|---|---|---|
| controls, `server/control.go`, `server/service.go` | `ctlsByRunID`; per control: connection, `lastPing`, `proxies`, `portsUsedNum`, `doneCh` | login, replacement by run id, start, ping, heartbeat, cleanup by the worker, `Del`, `Service.Close` | one goroutine per control and handler; a client logs in again before its old control has been cleaned up |
| proxy names, `server/proxy/proxy.go`; secret tables, `server/visitor/visitor.go`, `pkg/nathole/controller.go` | `pxys`, `listeners`, `clientCfgs` | `Exist`, `Run`, `Add`, `Del`, `CloseListener`, `CloseClient` | separate locks; deletion by name without an owner |
| ports, `server/ports/ports.go`, `server/proxy/tcp.go`, `udp.go` | `freePorts`, `usedPorts`, `reservedPorts` | `Acquire`, `Release`, hourly cleaner | a port is probed under the lock and opened after it; a udp proxy releases twice |
| work connections, `server/control.go`, `server/proxy/proxy.go` | `workConnCh`, the dispatcher's `sendCh` | register, get, refill, drain | channels closed under their users, timeouts, a client that does not read |
| http groups and routes, `server/group/http.go`, `pkg/util/vhost/router.go` | groups by name, members, routes | register, unregister | group found under one lock and joined under another; partial failure of `Run` |
| listener groups, `server/group/tcp.go`, `https.go`, `tcpmux.go` | groups, members, `acceptCh`, the real listener, its port | listen, accept, close | the same gap, with a channel that may be closed twice |
| client proxies, `client/proxy/proxy_wrapper.go`, `client/health/health.go` | phase, health, counters | check, start, close, reload, responses | answers that belong to an earlier request; retries after a timeout |
| client service and control, `client/service.go`, `client/control.go`, `pkg/util/wait/backoff.go` | control, run id, the managers of proxies and visitors | login loop with backoff, `Run`, reload, the worker's cleanup | a control that ends while `Run` or a reload still fills its managers; two goroutines that close it |
| dispatcher and transporter, `pkg/msg/handler.go`, `pkg/transport/message.go` | `sendCh`, handlers, lanes | send, dispatch, do | bounded queues on both sides, lanes registered twice |
| nat hole, `pkg/nathole` | sessions, client table, scores | visitor, client and report messages, analysis | rendezvous with timeouts, scores without a lower bound |
| vhost, `pkg/util/vhost` | routes by host and location | lookup with wildcards | a recursive search order |
| statistics, `pkg/metrics/mem`, `pkg/util/metric` | per name: type, counters by day, start and close times; proxies by type | new, close, add, read, clear | reported after the table of proxies has changed, under another lock; counters move when they are used, measured in hours |
| dashboard of frps, `web/frps/src`, `server/dashboard_api.go` | page, rows, overview, dialog, charts | navigate, refresh, clear offline proxies, show traffic | fetches that overtake each other and outlive their page; a restart with another configuration; fields that the api leaves out |
| admin page of frpc, `web/frpc/src`, `client/admin_api.go`, `client/service.go` | text area, rows; configuration file, `proxyCfgs`, `visitorCfgs`, the control's managers | show, upload, reload, status | two requests for one operation, each of which may fail or get lost; a reload while a login copies the configuration, or on a control whose connection has just ended |
| visitors, udp forwarding, plugins, auth, configuration, ssh gateway, vnet, command line | | | mostly bytes, files and data conversion |

How the parts meet: `Service.handleConnection` turns the first message of a
connection into a login, a work connection or a visitor connection. A control's
dispatcher reads messages in one loop and calls its handlers one at a time, so the
handlers of *one* control never overlap, while handlers of different controls,
workers, user connections and cleaners do. `RegisterProxy` calls `Run` of the proxy,
which calls the port manager, a group controller, the vhost router or a secret table.
A user connection takes a work connection from the control's pool; the pool is refilled
by messages to the client. A control reports every proxy it adds or deletes to the metrics,
which the dashboard reads by itself and joins with the table of proxies. The admin page of
frpc writes the configuration file and lets the service load it; the service hands the
result to its control and keeps it for the controls of later logins.

What makes each part correct is stated as the properties of section 4; what is hard
to test is listed with source lines under `hazards` in `PROJECT.json`.

## 2. Modules and the code

| module | models |
|---|---|
| `SessionRegistry` | the promise of the control plane: which client has a session, which session owns a name |
| `PortLease` | the promise of the port manager to proxies that ask for a given port |
| `ConnHandout` | the promise of the pool of work connections to user connections |
| `LoadBalancer` | the promise of a load balancing group to its members and users |
| `ServerControl` | controls, `ControlManager`, `proxy.Manager`, the tables of secret proxies, the port quota |
| `PortManager` | `ports.Manager` and the tcp and udp proxies that use it |
| `WorkConnPool` | the work connections of one control, from the client's answer to the user connection |
| `HTTPGroup` | http proxies, http groups, routes |
| `ListenerGroup` | `TCPGroup`, `HTTPSGroup`, `TCPMuxGroup`, which have one shape |
| `ClientProxy` | one proxy of frpc, its monitor and manager, the control connection and the counterpart in frps |
| `ServerMetrics` | `proxy.Manager` and the statistics of `pkg/metrics/mem`, with the reports between them |
| `DashboardViews` | what the pages of `web/frps` make of an answer: rows, expanded rows, items, slices (operators only) |
| `Dashboard` | `ServerMetrics` composed with the api of frps and a browser on its pages |
| `ProxyTraffic` | the counters of one proxy by day, `/api/traffic/:name`, the traffic dialog and its chart |
| `AdminConfig` | the pages of `web/frpc`, the admin api, and the service and control that run the configuration |
| `ServerControl_proofs`, `PortManager_proofs`, `WorkConnPool_proofs`, `HTTPGroup_proofs`, `ListenerGroup_proofs`, `ClientProxy_proofs`, `AdminConfig_proofs` | the theorems about the module they are named after |
| `Dashboard_proofs` | the theorems about `ServerMetrics`, `Dashboard` with `DashboardViews`, and `ProxyTraffic` |

Every `MC...` module extends the module it is named after with the constants of its
runs; `MCMetrics` extends `ServerMetrics` and `ProxyTraffic`, which share no state, and moves one of
them while the other is where it begins. `PROJECT.json` maps each definition to the lines it stands for.

**ServerControl.** A control is a number, in the order in which `ControlManager.Add` saw
it. `phase[c]` is its life: waiting for the control it replaced, running, in the
worker's cleanup, `doneCh` closed, gone from the registry. `task[c]` is the handler
the read loop is in, with one value per critical section: `RegisterProxy` is
`HandleNewProxy` (quota), `CheckExist`, `RunProxy` or `RunProxyFails`, `AddProxy`,
`InsertProxy`, and on failure `UndoRun` and `ReturnQuota`. `running` is a ghost: the proxy objects
whose `Run` succeeded and whose `Close` was not called. Of the proxy types, tcp stands for
those that are charged to the quota and stcp and xtcp for those that claim an entry of a
table keyed by name; what `Run` does beyond that is in the other modules, and `RunProxyFails`
is always possible for tcp. Logins that auth or a plugin refuses change nothing.

**PortManager.** A proxy object acquires at most once, so the object stands for its
`PortCtx` as well. `bound` is the operating system. `Acquire` and `Release` are atomic
(they hold the lock), and everything between them is a step of its own. The two
protocols have a manager each; `proto` says which one a behaviour is about. `PortLease` is what remains for tcp
proxies with given ports when tables, probes and locks are taken away: the lease of a port is its entry in
`usedPorts`, and the open socket is that of `bound`, unless another program has it.

**WorkConnPool.** `sendCh` counts the `ReqWorkConn` messages in the dispatcher's queue and on
the wire. The worker that closes the pool does it in the code's order: `close`, drain,
then leave the registry. `RegisterWorkConnPanics` is the send on the closed
channel, whose panic `recover` swallows. `ConnHandout` has of a user connection only which work connection it has and how
many it has given up, and of a work connection only whether it can still be given out; channel, requests and
timeouts are gone.

**HTTPGroup, ListenerGroup.** Group objects are numbered as they are created, because the race in
these modules is about an object that has been removed from the controller while
somebody holds it. Which proxies belong to one control (whose handlers exclude each other)
is chosen in `Init`. Of an http group, `createFuncs` has the members; the order of `pxyNames` matters only
for the round robin, which is not modelled. `LoadBalancer` knows groups by their names only: a member joins or leaves in one
step, the first one opens the target and the last one closes it, and an accepted connection waits in its group until a
member has it. The select of `Accept` may choose `acceptCh` although `closeCh` is closed too: `leaving` has the proxies that have left a group
which goes on, and whose `Accept` may still take connections until `AcceptEnds`.

**ClientProxy.** Both directions of the control connection are queues that deliver in order.
`seen` is the health that `checkWorker` loads before it takes the lock. In a behaviour
that is not `delayed` every message is answered before the wrapper acts again, which is
what happens when frps answers within `waitResponseTimeout`; otherwise the timeouts may
run out at any time.

**ServerMetrics.** `pxys` is the table of proxies and `report[c]` the call of `serverMetrics` that the
control of client `c` makes next: the change of the table and the report are two steps, in the
order of `RegisterProxy`, `CloseProxy` and the control's worker. One client is one process,
since its controls follow one another (`OneControlPerClient` of `ServerControl`). `open` says
that a proxy was started after it was last closed, which is what `clearUselessInfo` finds out
from the two times. `Owner` says whose configuration has a name. `ServerSpec` is frps
by itself; in `Dashboard` the clearing is a request and the restart brings a configuration.

**DashboardViews, Dashboard.** A request is an entry of `reqs` and `at` is where it is: sent, served in
part, answered, over. `/api/proxy/:type` is two steps (`CollectStats`, then `GetProxyStats`), because the
statistics and the table have a lock each. The tables of http, https and tcpmux first ask for
`/api/serverinfo` and then for their proxies; the stage `asksPort` is that. `visit` numbers the
mounted component: rows and overview belong to the component that asked (its refs), while the charts
go to an element id, so that an answer to a page that has been left can still draw. `RowOf` is the class
of `utils/proxy.ts` for a type, applied to what `OutConf` lets through; `Visible` is what
the columns and `ProxyViewExpand` show of it. JSON objects are functions on the fields they have and
strings are sequences, as far as their length or their parts matter. Counters, times and layout
are left out. The ghosts `of`, `online` and `quiet` keep, for the properties, what was true when
frps answered.

**ProxyTraffic.** `Midnight` is the hour at which a day begins; one day of a behaviour may have 23 or 25 hours. The
counter divides hours by 24, as `rotate` does. `hist` is the traffic as it really was.
The two counters of an answer are read under one lock but ask for the time one after the other, so `RotateAll` may cross midnight between
them. The browser has a date of its own, `skew` days ahead of that of frps.

**AdminConfig.** A configuration is the text it was loaded from. An upload is an entry of `ops`
that goes through `put`, `truncated` (inside `os.WriteFile`), `putAnswered`, `reload`, `loaded`, `set`, `visitors`,
`reloadAnswered`; the last four are the steps of `apiReload` and `UpdateAllConfigurer` between
which a login or the end of the control connection may come. `msg` is what the user is told, which may be before frpc is done, since
a fetch can fail while its request is served. Requests of a page and of several uploads
overlap freely; the ghost `alone` is true of an upload that no other upload and no login overlaps, `put` and `load` say what
frpc answered, and `on` is the control that its reload updates.

Every login appends a control to `ctls`. `pxy` is the configuration whose proxies are in `pm.proxies`, `vis` the one in `vm.cfgs`, `open` the
visitors that run. When the connection ends, `Control.worker` closes the proxies (`LoseControl`, which empties `pm.proxies`) and the
visitors (`CloseVisitors`, which leaves `vm.cfgs` as it is, so that a later `UpdateAll` starts only visitors that were not there before), and
then closes `doneCh`, for which `keepControllerWorking` waits. A control that is lost is still `svr.ctl`: a
status request finds its empty manager, and a reload fills it again. The worker runs beside `Control.Run`, so a control can be lost
before `Run` has filled its managers. A login makes a new control, runs it, and under `ctlMu` closes the old one once more and replaces it.
A visitor that fails to start counts as running, because `keepVisitorsRunning` tries it again every ten seconds. `Login` is
a login that succeeds; one that fails changes nothing.

## 3. Bounds

| bound | value | why it is enough |
|---|---|---|
| `MaxLogins` | 3 for one client, 2 for two clients | a control that replaces one that still waits; two controls that fight for a name |
| names, kinds | 2 names, tcp, stcp, xtcp | a conflict in `pxys` only, in a secret table only, and in both |
| `MaxProxies` (ports) | 3 | the old user of a port, its new user and a contender |
| `MaxTryTimes` | 1 | `Acquire` gives up while another port is free |
| `Contested` | one port | another program takes a port between probe and listen |
| `PoolCount`, `Spare`, `SendCap`, `MaxConns` | 1, 0, 1, 2 | a pool that overflows, a full send queue, a user that fails with every connection |
| `MaxGroups` | 3 | a removed group, its successor and a group of another name |
| `MaxInFlight`, `MaxFailed`, `MaxReloads` (`MCClientProxy`) | 4, 2, 1 | two requests and two answers at once |
| `MaxReqs`, `MaxRegs`, `MaxRestarts` (`MCDashboard`) | 3, 2, 1, with types tcp and http, two names, one client | two answers that overtake each other on a third page; a name that comes back with another type; a restart between the two requests of one table. The other types differ in the operators of `DashboardViews`, which an `ASSUME` of `MCDashboard` checks for every type of page; several clients are in `MCMetrics` and in the proof |
| `Client`, `MaxRegs` (`MCMetrics`) | two clients, 5, a name of one client and a name of both | reports of both clients about one name that overtake each other, twice over, with clearings in between |
| `Config` | all defaults, and everything set with a text of more than 30 characters | items that are hidden and shown, both forms of `LongSpan` |
| `ReserveDays`, `MaxDay`, `MaxBytes` | 3, 3, 1 | values that move by one and by two slots and fall off; the proof is for every value |
| `MaxOps`, `MaxInFlight`, `MaxLosses`, `Tab` (`MCAdminConfig`) | 3, 2, 1, one tab | two overlapping uploads and a page that asks before or after them; a loss and a login between any two steps of a reload and of each other. An upload does not block the page, so one tab overlaps with itself as two tabs would. `Load` may fail for every text, so texts that do not load are needed in `admin_success` only. The proof has no bound |

The bounds on logins, proxy objects, connections, groups, reloads, requests and days end behaviours that the program
would continue, and a closed control has nothing more to do; therefore the configurations
do not report deadlock.

## 4. Runs

| run | checks |
|---|---|
| `sessions` | A control starts only when every earlier control of its run id has finished (`OneControlPerClient`), so a client never meets a name of its own (`NoSelfConflict`). Every login starts (`LoginStarts`), a closed connection is cleaned up (`ClosedControlLeaves`), a silent client is thrown out (`SilentClientEvicted`). |
| `names` | `proxy.Manager` and the controls agree at every point between the locks (`NamesAgree`), no proxy is left running unowned (`NoStrandedProxy`), deletion by name hits the right entry (`SecretTablesExact`, `NameHandover`), the quota does not drift (`QuotaExact`), and every step is one of `SessionRegistry` (`ImplementsRegistry`). |
| `ports` | No port is lost or in two tables; among tcp proxies that ask for given ports an acquired port is booked to its holder (`PortsSound`), and a reservation outlives nobody who uses it (`GivenReservationKept`); for them every step is one of `PortLease` (`ImplementsLease`): a socket is opened by the proxy that has the port, and a port is booked anew only after its socket was closed. |
| `workconns` | Pooled and requested connections never fall below `poolCount` (`PoolNeverStarves`), nothing is left pooled once the control is gone and no work connection serves two users (`PoolSound`, `PoolIsEmptied`), every step is one of `ConnHandout`, so that a user gets at most `poolCount + 1` connections and none twice (`ImplementsHandout`), every user connection is served or refused (`UserIsAnswered`). |
| `http_group` | A refused `Run` removes exactly its own routes; a group has its route exactly while it has members, who agree on the key (`RoutesExact`); with groups of one control a route leads to a proxy and none is left behind (`RoutesKept`). |
| `listener_group` | Members agree, and the real listener and the port are held exactly while there are members (`ListenersExact`); an accepted connection reaches a member (`OfferedIsServed`); with the proxies of one control, every group is managed and nothing is closed twice (`GroupsOfOne`), and every step is one of `LoadBalancer` (`ImplementsBalancer`): one group per target, and a connection is served once, by a member of the group that accepted it or one just leaving it. |
| `client_proxy` | A stopped proxy ends up removed from frps whatever was under way (`ProxySound`); with prompt messages both sides agree (`PromptAgreement`), a healthy proxy ends up running and an unhealthy one removed (`HealthIsFollowed`). |
| `metrics` | With two clients that register and close the same name, the counts by type do not drift, in whichever order they report (`CountsAgree`), and the statistics of a name that one client has agree with the table of proxies, whatever is cleared (`StatsAgree`). The counters keep each day in its slot over any pattern of use (`CountsExact`, with the types in `CountersSound`), and the chart puts every value above its date, for each direction (`BarsAreDated`). |
| `dashboard` | A table never has rows of another page, and the row of an online proxy shows how it is reached (`RowsFaithful`). The overview adds up and shows each setting that is on (`OverviewFaithful`). A table, an overview and a dialog are never on the page together, and the dialog never has the chart of another proxy (`PageSound`). |
| `admin` | A control that has not been lost runs what the service would give to its successor (`ControlRunsConfig`); a control that was replaced runs nothing, although reloads and `Run` may have filled its managers after its worker emptied them (`ReplacedStops`); frpc runs only what somebody uploaded, never a half-written file (`RunsOnlyUploaded`, with the types in `ConfigSound`); an upload that reports success has changed the file and the service, and the control runs it unless its connection has ended (`UploadTakesEffect`). |

The properties of `admin` are stated for uploads that no other upload and no login overlaps, and the
comment of each says which. Two runs show a disagreement between the code and what the repository
says of it; the quotations are under `findings` in `PROJECT.json`.

| run | what happens |
|---|---|
| `client_proxy_health` | `failedTimes` is never set back, so failures need not be in a row. |
| `admin_success` | `uploadConfig` does not look at the status of the answers: a PUT or a reload that frpc refuses with code 400 ends in the message that the upload succeeded. |

Where a property has a condition, the code does something else beyond it. These cases were met
while the models were written, and the conditions say exactly where they begin:

- `PortsSound`, `GivenReservationKept`, `ImplementsLease`: `UDPProxy.Close` calls `Release` outside its `isClosed` test and is
  called a second time by the forwarding goroutine; the late `Release` can free the port
  of the next proxy and mark its reservation closed. With port 0 a port is chosen that another
  program may take before it is opened.
- `RoutesKept`, `GroupsOfOne`, `ImplementsBalancer`: a proxy of another control can join a group between the close of its last
  member and its removal; nobody manages that group, and closing it closes a channel twice.
- `PromptAgreement`: with delayed messages the answer to an earlier `NewProxy` is taken for that to a
  later one.
- `ControlRunsConfig`: a login that has copied the configuration before a reload sets it, and makes its
  control after, starts with the old one until the next reload.
- `ReplacedStops`: a reload that has the old control in its hands when a login closes and replaces it fills its managers after that;
  nobody closes them again.
- `UploadTakesEffect`: when the control connection ends during an upload the worker empties the managers, and the page reports
  success all the same; the next login starts with the uploaded configuration, which the property says of the service.
- `CountsExact` (of `CountersSound`): over a day of 23 hours `rotate` sees one day less, and values of two days fall together.
- `AddsUp` (of `OverviewFaithful`): the overview leaves tcpmux proxies out of its sum and of its chart, and
  an answer to an earlier visit may be drawn into the chart after the later one.
- `Legible` (of `OverviewFaithful`): a text of exactly 30 characters is in neither span of `LongSpan`, and an absent
  `allowPortsStr` is not `''`, so its item is there.
- `RowsFaithful`: when a name comes back with another type before it is reported, the old table can show
  it as online with fields of the new type.
- `GetWorkConnFromPool` shadows `err` in its loop, so that when every write of `StartWorkConn` fails it returns a
  closed connection and no error; for `UserIsAnswered` that user is joined.

## 5. Fairness

Weak fairness is assumed of goroutines that can run (handlers, workers, the accept loops, the
drain of the pool), because Go's scheduler runs them, and of time (`Tick`, timeouts that are
modelled as steps of the waiting goroutine). Nothing is assumed of clients in `ServerControl`: a
client may stay silent, close or log in for ever. `WorkConnPool` assumes that a client that
hangs is thrown out in the end, which `SilentClientEvicted` shows of `ServerControl`, and that one
that does not hang answers each request or fails to. `ClientProxy` assumes that both read loops
read and that `checkWorker` wakes up, and nothing of the checked service. The models of the web pages
state no fairness: a user may do nothing for ever and a request may never be answered, and nothing in the
pages retries. Strong fairness is not used.

## 6. Proofs

A theorem holds for every value of the constants that the named assumptions of its module allow. These
say that bounds are naturals, that tables are functions between the right sets, and that markers such as
`NoPxy` or `NoCtl` are no members of the sets they mark. Where an assumption says more it is named below.

Each proof has the same shape. An inductive invariant `Inv` strengthens the property; `InitInv` shows it of the
initial states, one lemma per action (`...Inv`) shows that the action keeps it, with a step for each conjunct the
action can disturb, and the temporal step combines them. The tables say what each theorem states, the text why
the property alone is not inductive and what was added.

**`ServerControl_proofs`**

| theorem | states |
|---|---|
| `TypeCorrect` | `Spec => []TypeOK` |
| `SessionsExclusive` | `Spec => []OneControlPerClient` |
| `NamesCorrect` | `Spec => []NamesAgree` |
| `NothingStranded` | `Spec => []NoStrandedProxy` |
| `SecretTablesCorrect` | `Spec => []SecretTablesExact` |
| `QuotaCorrect` | `Spec => []QuotaExact` |
| `NoSelfConflictCorrect` | `Spec => []NoSelfConflict` |
| `NameHandoverCorrect` | `Spec => NameHandover` |
| `RegistryImplemented` | `Spec => ImplementsRegistry` |

The inductive invariant is `Inv == TypeOK /\ SessionInv /\ ProxyInv /\ QuotaInv`.

- `SessionInv` is about controls. `OneControlPerClient` alone is not inductive: a control
  starts when *one* predecessor, the one it replaced, has finished, and the property speaks of
  all of them. The strengthening says that controls are numbered as they came
  (`LoginsNumbered`), that the registry has the newest control of a run id (`RegistryNewest`),
  that a run id whose controls are not all finished is in the registry
  (`UnfinishedRegistered`, which needs `Del` to compare controls), and that a waiting control
  waits for the newest of its predecessors (`WaitsForNewest`). Then the finished
  predecessor was the last one to start, and by induction all before it had finished.
- `ProxyInv` is about names. A control that has not started or has finished owns nothing
  (`UnstartedEmpty`); in the cleanup its task only deletes (`CleanupOnlyDeletes`); each value of
  `task` says which of `running`, `pxys` and `proxies` the handler has already filled
  (`HandlerState`). With these the three properties on the tables are inductive.
- `QuotaInv` counts: the set of charged names is finite and a step adds or takes one element, which
  the cardinality theorems turn into one more or one less. It needs `ProxyInv` to know that the name
  was not charged before.
- The refinement maps a session to a control between `Start` and `close(doneCh)` and an owner to
  `pxys`; each action is a step of `SessionRegistry` or leaves the mapped variables
  unchanged, and `End` needs `Inv` to know that nothing is owned any more.

**`PortManager_proofs`**

| theorem | states |
|---|---|
| `PortsCorrect` | `Spec => []PortsSound` |
| `ReservationsCorrect` | `Spec => GivenReservationKept` |
| `LeaseImplemented` | `Spec => ImplementsLease` |

`PortsSound` says that an acquired port is booked to its holder, and a late `Release` could free it. `UserIsHolder` is the
converse that makes this inductive: the object a port is booked to has that port and has not released it, so when it
releases it the port is its own. `GivenInv` adds, for tcp proxies that ask for given ports, that a `PortCtx` is closed by
its own proxy only and that a reservation of a name on the port its proxy holds is that proxy's; the
cleaner, which drops closed reservations, then never meets one in use.

`PortLease` has an asked port where the code has a port that was probed, taken and opened in three places. `LeaseInv` says
that these are one: a proxy that has a port has the one it asked for (`AskedPorts`), and the sockets of
frps are exactly those of the proxies that have passed `Listen` and not `Close`, each on its port (`SocketsOwned`). With
`GivenInv` the proxy is then the one the port is booked to, so that `Acquire` is `Lease`, a successful `Listen` is `Open`, the closing of
the listener is `Shut` and `Release` is `GiveBack`; everything else stutters.

**`WorkConnPool_proofs`**

| theorem | states |
|---|---|
| `PoolCorrect` | `Spec => []PoolSound` |
| `PoolSupplied` | `Spec => []PoolNeverStarves` |
| `HandoutImplemented` | `Spec => ImplementsHandout` |

`QueueInv` ties the channel to the connections: what is in it is pooled and there once, and what is pooled is in it.
`EndInv` is the order of the end: the channel is closed after `done`, and the control leaves the registry after the
drain. `PoolNeverStarves` adds up connections in the channel, on their way, requested, and still to be
asked for by users that took one; it is kept by each action because one term falls as another rises, which uses the
cardinalities of two sets, of connections on their way and of users that refill.

`HandoutImplemented` needs no more than that: a connection at the head of the channel is pooled, so it was never given
to anybody, and the channel is empty when the control has left the registry. The refinement pays at once. That no
connection serves two users (`NoSharedConn`, a part of `PoolSound`) is proved on `ConnHandout`, where it needs one fact, that
what a user has is spent (`SharedInv`), and five short steps, and holds of the pool because every step of the pool is one of those.

**`HTTPGroup_proofs`, `ListenerGroup_proofs`**

| theorem | states |
|---|---|
| `RoutesCorrect` | `Spec => []RoutesExact` |
| `RoutesKeptCorrect` | `Spec => []RoutesKept` |
| `ListenersCorrect` | `Spec => []ListenersExact` |
| `GroupsOfOneCorrect` | `Spec => []GroupsOfOne` |
| `BalancerImplemented` | `Spec => ImplementsBalancer` |

`UnRegister` deletes the route of a group that it finds empty without asking whose route it is. `GroupsKnown` is why that is
harmless: a group that is still under its name and has no members never had any, so it has no route that could since
have become somebody else's. `Progress` says how far `Run` and `Close` have got, and that the routes a proxy has and has
not undone are all different, without which undoing one would undo two. In the listener groups `Placed` has the same
part: a proxy that joins has found an object that exists, and a member is in the group it found. In both, `OneControlInv`
adds what holds when one control has all members: its handlers exclude each other, so the group that was found is
still the controller's when it is joined.

`BalancerImplemented` maps group objects to names. `PeersAreMembers` is its core: for one control the members of a name are
those in the object the controller has under that name, so that the first and the last of them are the first and the last of the group
and their target and key are those the object was opened with. `OfferedInv` says that a connection is with one worker, is not yet served, and
is never with an object that is still to be created; the connection that a closing group drops is then the one that
`LeaveLast` forgets. `LeavingInv` says that a proxy whose `Accept` has not noticed that it left has left the controller's group of
that name, so that what it takes was waiting in its own group.

**`ClientProxy_proofs`**

| theorem | states |
|---|---|
| `StoppedCorrect` | `Spec => []ProxySound` |
| `AgreementCorrect` | `Spec => []PromptAgreement` |

Both properties speak of moments when nothing is under way, so the invariant has to say what can be. `ClosedInv`: the last
message a stopped wrapper sent is `CloseProxy`, or frps does not have the proxy. Queues keep their order, so this
survives any number of older messages. `PromptInv`: while messages are prompt, for each phase the only
message that can be on its way, and which of the two sides has the proxy meanwhile.

**`AdminConfig_proofs`**

| theorem | states |
|---|---|
| `ControlCorrect` | `Spec => []ControlRunsConfig` |
| `UploadedCorrect` | `Spec => []ConfigSound` |
| `UploadCorrect` | `Spec => UploadTakesEffect` |
| `ReplacedCorrect` | `Spec => []ReplacedStops` |

`Solo` carries them: an upload that is under way and was never disturbed is the only one, and no login is between its
steps. So what it has done (`SoloEffect`, by the place it has reached) is still so when it goes on, whatever was
answered with an error or not at all, as far as its control has not been lost; a lost control is never up again, so nothing has
to be said about the managers that its worker empties. `RunsInv` says that what a login copied is what the service has, `LoginInv` that the
previous control is done while a login is under way and that the new one has got what was copied, as far as `Run` has come, unless it
is lost already. `StoppedInv` follows the second close: the managers of the old control are empty from then on, because an
undisturbed reload is over before a login begins (`Solo`), and only a reload that was disturbed can still have the old control (`Late`).
`KnownInv` says that the file is somebody's text except between truncation and writing, when no reload can come. `OpenOK`
is why configurations suffice: the visitors of a control that has not been lost all run.

**`Dashboard_proofs`**

| theorem | states |
|---|---|
| `ServerTypeCorrect` | `ServerSpec => []ServerTypeOK` |
| `StatsCorrect` | `ServerSpec => []StatsAgree` |
| `CountsCorrect` | `ServerSpec => []CountsAgree` |
| `DashboardServes` | `Spec => ServerSpec` |
| `RowsCorrect` | `Spec => []RowsFaithful` |
| `OverviewCorrect` | `Spec => []OverviewFaithful` |
| `DialogCorrect` | `Spec => []PageSound` |
| `CountersCorrect` | `TrafficSpec => []CountersSound` |
| `BarsCorrect` | `TrafficSpec => []BarsAreDated` |

- `ServerMetrics`, for finite sets of clients and names (`FiniteAssumption`). Neither property is inductive: while a
  report is on its way one must know what it will meet. `ReportInv` says that a control that is to report a new proxy
  still has it (`NewIsHeld`), that one that is to report the end of a proxy does not (`ClosedIsFree`), and that the type
  of a reported proxy is among the counted ones (`HeldIsCounted`), without which `CloseProxy` would skip the decrement.
  `CountsAgree` then follows with the cardinality theorems, per action and type.
- `Dashboard`. `DashboardServes` is the composition: every step of the dashboard is a step of `ServerMetrics` or none, so the
  three theorems above hold in `Dashboard` too. For the browser, `ReqsOK` says that a request which belongs to the
  mounted component was made for the page that is shown. This holds because a page is numbered by the requests
  before it, so that no earlier request has its number. An answer with proxies has, for a proxy of the type asked for,
  that proxy's configuration as `OutConf` lets it through (`Answered`). `RowShows` follows it through the class of the row
  and the expanded form, for every type and every configuration: `MCDashboard` has one configuration for
  each type, the theorem any in which no field is null and no subdomain empty (`ConfAssumption`, from `omitempty` in
  `pkg/config/v1/proxy.go`).
- The overview. Chart and number come from one answer but are kept apart, and the chart may be that of another
  visit. `ChartInv` says that a chart drawn by a request of this visit has the slices of the answer the overview keeps; it needs
  `LaterBelong`, that requests made after the component was mounted are its own or over. What frps counted when it
  answered is related to the proxies that are there by `CountsAgree`, once no report is on its way (`QuietCounts`). The sum is
  written out over the types, as `ServerOverview.vue` does, so that no induction is needed. `InfoAssumption` says which fields of
  `serverInfoResp` may be absent, from its `omitempty` tags (`server/dashboard_api.go`, lines 69 to 89).
- `ProxyTraffic`, for every `ReserveDays` equal to `ChartDays`, as both are 7 in the code. The invariant adds that a counter
  has no traffic after its last use (`SilentSince`), which is what `rotate` fills with zeros, and that an answer on its way
  is exact, in each direction, as of the date its counter was read on (`ReplyExact`). The lemma that hours divided by 24 are the days since the last use, if no
  day is short, carries the rest.

Only model-checked:

- all liveness properties (`LoginStarts`, `ClosedControlLeaves`, `SilentClientEvicted`, `UserIsAnswered`, `PoolIsEmptied`,
  `OfferedIsServed`, `HealthIsFollowed`): fairness and `ENABLED` are outside the prover's reach;
- the two runs that show a violation, which TLC refutes by a counterexample.

## 7. Not modelled

Left for later: the dispatcher and transporter as modules of their own, nat hole control and
analysis, the search order of the vhost router, the transfer of connections between visitors, the work connection of udp
proxies, a tcp group that asks for any port, round robin inside an http group, the backoff and
heartbeat of the client service.

Left out: copying and encoding of bytes, plugins, authentication, parsing of configurations, the ssh
gateway, the virtual network and the command line, as `components` in `PROJECT.json` explains; of
the statistics, the counts of clients and connections, the totals and prometheus; of the web pages,
layout, the dark mode, sorting, the words for sizes, `/api/proxy/:type/:name` and
`/api/stop`, which no page uses, and the chart of the total traffic, which shows two
numbers as they come. Their outcome appears where a modelled operation may fail because of them.

Known to be hard and outside the models: a send on the control connection with the wrapper's lock held, two
requests with one lane key in the transporter, the client table of the nat hole controller that is read
without its lock, the score of a nat hole behaviour that has no lower bound, and a work connection that is
not closed when `RegisterWorkConn` panics on a closed channel.

## 8. Plan

1. *Core* (done): the control plane with its refinement and proofs, ports, work
   connections, groups, client proxies.
2. *Web pages* (done): statistics, dashboard of frps, traffic charts, admin page of frpc, with the
   proofs of the statistics and the counters.
3. *Proofs* (done): every safety property of the runs, and that the control plane, the ports, the pool of
   work connections and the listener groups implement `SessionRegistry`, `PortLease`, `ConnHandout` and
   `LoadBalancer`. Left: the same for http groups, whose routes have the shape of `LoadBalancer` without the waiting
   connections.
4. *Messages*: `Dispatcher` and `MessageTransporter` with bounded queues in both
   directions and lanes by key; the abstract promise is that a request gets its own answer or an error.
5. *Nat hole*: `Controller` (sessions, `sidCh`, `notifyCh`, the timeouts on both sides) and `Analyzer`.
6. *Routing*: `Routers.Get` and `getVhost` as functions against a reference definition
   (the longest location of the most specific host), and the round robin of `HTTPGroup.createConn`.
