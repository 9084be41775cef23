---------------------------- MODULE PortManager ----------------------------
(***************************************************************************)
(* The port manager of frps (server/ports/ports.go) and the proxies that    *)
(* take ports from it: TCPProxy without a load balancer group, or UDPProxy  *)
(* (server/proxy/tcp.go, udp.go).                                           *)
(*                                                                          *)
(* Acquire only probes a port: the socket is opened by the proxy later,     *)
(* after the manager's lock is dropped.  Release names a port, not an       *)
(* owner.  Between the two, proxies of other controls run.                  *)
(*                                                                          *)
(* A proxy object acquires at most one port in its life, so the object      *)
(* stands for the PortCtx that its Acquire creates as well.                 *)
(***************************************************************************)
EXTENDS Integers, FiniteSets

CONSTANTS
    Port,         \* the ports of allowPorts, positive numbers
    Name,         \* proxy names
    Requests,     \* remotePort values clients ask for; 0 means any port
    MaxProxies,   \* bound: how many proxy objects a behaviour has
    MaxTryTimes,  \* Acquire's maxTryTimes, 5
    Contested,    \* bound: the ports that other programs open as well
    Protos        \* the protocols whose manager is looked at, of "tcp" and "udp"

NoPxy  == 0
NoName == "noname"
Pxy    == 1 .. MaxProxies
Other  == MaxProxies + 1   \* a program other than frps

ASSUME PortAssumption ==
    /\ Port \subseteq Nat \ {0}
    /\ Requests \subseteq Nat
    /\ Contested \subseteq Port
    /\ MaxProxies \in Nat
    /\ MaxTryTimes \in Nat \ {0}
    /\ Protos \subseteq {"tcp", "udp"}
    /\ NoName \notin Name

VARIABLES
    proto,         \* the netType of the manager and the kind of its proxies
    freePorts,     \* Manager.freePorts
    usedPorts,     \* Manager.usedPorts: the object whose PortCtx it holds
    reservedPorts, \* Manager.reservedPorts: likewise, by name
    closed,        \* PortCtx.Closed
    stale,         \* PortCtx.UpdateTime is more than 24 hours ago
    bound,         \* the operating system: whose socket has the port
    pxys,          \* proxy.Manager.pxys: the object registered under a name
    pc,            \* where the goroutine that runs or closes the object is
    name,          \* the object's name
    req,           \* cfg.RemotePort as the client sent it
    port,          \* the object's realBindPort, 0 before Acquire
    forwarding     \* udp: the goroutine that runs ForwardUserConn is alive

managerVars == <<freePorts, usedPorts, reservedPorts, closed, stale>>
objectVars  == <<name, req, proto>>
vars == <<managerVars, bound, pxys, pc, objectVars, port, forwarding>>

PCs == {"none", "acquire", "listen", "add", "up", "release", "del", "end"}

TypeOK ==
    /\ proto \in Protos
    /\ freePorts \subseteq Port
    /\ usedPorts \in [Port -> Pxy \cup {NoPxy}]
    /\ reservedPorts \in [Name -> Pxy \cup {NoPxy}]
    /\ closed \in [Pxy -> BOOLEAN]
    /\ stale \in [Pxy -> BOOLEAN]
    /\ bound \in [Port -> Pxy \cup {NoPxy, Other}]
    /\ pxys \in [Name -> Pxy \cup {NoPxy}]
    /\ pc \in [Pxy -> PCs]
    /\ name \in [Pxy -> Name \cup {NoName}]
    /\ req \in [Pxy -> Requests \cup {0}]
    /\ port \in [Pxy -> Port \cup {0}]
    /\ forwarding \in [Pxy -> BOOLEAN]

\* NewManager with allowPorts = Port.
Init ==
    /\ proto \in Protos
    /\ freePorts = Port
    /\ usedPorts = [p \in Port |-> NoPxy]
    /\ reservedPorts = [n \in Name |-> NoPxy]
    /\ closed = [x \in Pxy |-> FALSE]
    /\ stale = [x \in Pxy |-> FALSE]
    /\ bound = [p \in Port |-> NoPxy]
    /\ pxys = [n \in Name |-> NoPxy]
    /\ pc = [x \in Pxy |-> "none"]
    /\ name = [x \in Pxy |-> NoName]
    /\ req = [x \in Pxy |-> 0]
    /\ port = [x \in Pxy |-> 0]
    /\ forwarding = [x \in Pxy |-> FALSE]

Goto(x, l) == pc' = [pc EXCEPT ![x] = l]

-----------------------------------------------------------------------------
(* ports.Manager *)

\* isPortAvailable: a probe socket can be opened (and is closed again).
IsPortAvailable(p) == bound[p] = NoPxy

\* The part of Acquire that takes a port for the object x.
Take(x, p) ==
    /\ usedPorts' = [usedPorts EXCEPT ![p] = x]
    /\ reservedPorts' = [reservedPorts EXCEPT ![name[x]] = x]
    /\ freePorts' = freePorts \ {p}

\* The port reserved for x's name can be had again.
HasReserved(x) ==
    /\ reservedPorts[name[x]] # NoPxy
    /\ IsPortAvailable(port[reservedPorts[name[x]]])

\* The ports Acquire may return to x: the reserved one, any free one that
\* answers the probe, or the one asked for.
Candidates(x) ==
    IF req[x] = 0
    THEN IF HasReserved(x) THEN {port[reservedPorts[name[x]]]}
         ELSE {p \in freePorts : IsPortAvailable(p)}
    ELSE {p \in freePorts : p = req[x] /\ IsPortAvailable(p)}

\* Acquire may give up: none of the free ports it tries, at most MaxTryTimes in
\* the random order of the map, answers; or the port asked for is not to be had.
MayGiveUp(x) ==
    IF req[x] = 0
    THEN /\ ~HasReserved(x)
         /\ LET busy == {p \in freePorts : ~IsPortAvailable(p)}
            IN  \/ busy = freePorts
                \/ Cardinality(busy) >= MaxTryTimes
    ELSE Candidates(x) = {}

\* Run of a proxy: Acquire succeeds.
Acquire(x) ==
    /\ pc[x] = "acquire"
    /\ \E p \in Candidates(x) :
          /\ Take(x, p)
          /\ port' = [port EXCEPT ![x] = p]
    /\ Goto(x, "listen")
    /\ UNCHANGED <<closed, stale, bound, pxys, objectVars, forwarding>>

\* Run of a proxy: Acquire fails, and Run with it.
AcquireFails(x) ==
    /\ pc[x] = "acquire"
    /\ MayGiveUp(x)
    /\ Goto(x, "end")
    /\ UNCHANGED <<managerVars, bound, pxys, objectVars, port, forwarding>>

\* Mutant: Release forgets to put the port back.
ReleaseLost(p) ==
    LET x == usedPorts[p]
    IN  IF x = NoPxy THEN UNCHANGED managerVars
        ELSE /\ usedPorts' = [usedPorts EXCEPT ![p] = NoPxy]
             /\ closed' = [closed EXCEPT ![x] = TRUE]
             /\ stale' = [stale EXCEPT ![x] = FALSE]
             /\ UNCHANGED <<freePorts, reservedPorts>>

\* Release: a port nobody uses is left alone.
Release(p) ==
    LET x == usedPorts[p]
    IN  IF x = NoPxy THEN UNCHANGED managerVars
        ELSE /\ freePorts' = freePorts \cup {p}
             /\ usedPorts' = [usedPorts EXCEPT ![p] = NoPxy]
             /\ closed' = [closed EXCEPT ![x] = TRUE]
             /\ stale' = [stale EXCEPT ![x] = FALSE]
             /\ UNCHANGED reservedPorts

\* Twenty-four hours pass after the last update of a closed PortCtx.
DayPasses(x) ==
    /\ closed[x]
    /\ ~stale[x]
    /\ stale' = [stale EXCEPT ![x] = TRUE]
    /\ UNCHANGED <<freePorts, usedPorts, reservedPorts, closed, bound, pxys, pc,
                   objectVars, port, forwarding>>

Expired(n) ==
    LET x == reservedPorts[n] IN x # NoPxy /\ closed[x] /\ stale[x]

\* Mutant: only the age is looked at, not Closed.
CleanReservedPortsAlways ==
    /\ \E n \in Name : reservedPorts[n] # NoPxy
    /\ reservedPorts' = [n \in Name |-> NoPxy]
    /\ UNCHANGED <<freePorts, usedPorts, closed, stale, bound, pxys, pc,
                   objectVars, port, forwarding>>

\* cleanReservedPortsWorker: one round, under the lock.
CleanReservedPorts ==
    /\ \E n \in Name : Expired(n)
    /\ reservedPorts' = [n \in Name |-> IF Expired(n) THEN NoPxy
                                        ELSE reservedPorts[n]]
    /\ UNCHANGED <<freePorts, usedPorts, closed, stale, bound, pxys, pc,
                   objectVars, port, forwarding>>

-----------------------------------------------------------------------------
(* A proxy object's life *)

\* RegisterProxy of a new object: Exist finds the name free.
NewProxy(x, n, r) ==
    /\ pc[x] = "none"
    /\ x > 1 => pc[x - 1] # "none"
    /\ pxys[n] = NoPxy
    /\ name' = [name EXCEPT ![x] = n]
    /\ req' = [req EXCEPT ![x] = r]
    /\ Goto(x, "acquire")
    /\ UNCHANGED <<managerVars, bound, pxys, proto, port, forwarding>>

\* Run: net.Listen or net.ListenUDP on realBindPort.
Listen(x) ==
    /\ pc[x] = "listen"
    /\ bound[port[x]] = NoPxy
    /\ bound' = [bound EXCEPT ![port[x]] = x]
    /\ forwarding' = [forwarding EXCEPT ![x] = (proto = "udp")]
    /\ Goto(x, "add")
    /\ UNCHANGED <<managerVars, pxys, objectVars, port>>

\* Run: somebody else has the port; the deferred function releases it.
ListenFails(x) ==
    /\ pc[x] = "listen"
    /\ bound[port[x]] # NoPxy
    /\ Goto(x, "release")
    /\ UNCHANGED <<managerVars, bound, pxys, objectVars, port, forwarding>>

\* RegisterProxy: pxyManager.Add.
Add(x) ==
    /\ pc[x] = "add"
    /\ pxys[name[x]] = NoPxy
    /\ pxys' = [pxys EXCEPT ![name[x]] = x]
    /\ Goto(x, "up")
    /\ UNCHANGED <<managerVars, bound, objectVars, port, forwarding>>

CloseSocket(x) ==
    bound' = [p \in Port |-> IF bound[p] = x THEN NoPxy ELSE bound[p]]

\* Mutant: the listener is not closed.
CloseNoListener(x) ==
    /\ \/ pc[x] = "up"
       \/ pc[x] = "add" /\ pxys[name[x]] # NoPxy
    /\ Goto(x, "release")
    /\ UNCHANGED <<managerVars, bound, pxys, objectVars, port, forwarding>>

\* Close, by CloseProxy, by the worker, or because Add failed: the listener is
\* closed first.
Close(x) ==
    /\ \/ pc[x] = "up"
       \/ pc[x] = "add" /\ pxys[name[x]] # NoPxy
    /\ CloseSocket(x)
    /\ Goto(x, "release")
    /\ UNCHANGED <<managerVars, pxys, objectVars, port, forwarding>>

\* Close, and the failure path of Run: Release(realBindPort).
ReleasePort(x) ==
    /\ pc[x] = "release"
    /\ Release(port[x])
    /\ Goto(x, "del")
    /\ UNCHANGED <<bound, pxys, objectVars, port, forwarding>>

\* CloseProxy and worker: pxyManager.Del, of a registered object only.
Del(x) ==
    /\ pc[x] = "del"
    /\ pxys' = [n \in Name |-> IF pxys[n] = x THEN NoPxy ELSE pxys[n]]
    /\ Goto(x, "end")
    /\ UNCHANGED <<managerVars, bound, objectVars, port, forwarding>>

\* udp: ReadFromUDP of the closed socket fails, ForwardUserConn returns and the
\* goroutine calls Close again.  isClosed is set, so all that is left of it is
\* Release, which is outside the isClosed test.
ForwardEnds(x) ==
    /\ forwarding[x]
    /\ pc[x] \in {"del", "end"}
    /\ Release(port[x])
    /\ forwarding' = [forwarding EXCEPT ![x] = FALSE]
    /\ UNCHANGED <<bound, pxys, pc, objectVars, port>>

\* Another program opens or closes a socket on a port.
OtherProgram(p) ==
    /\ bound[p] \in {NoPxy, Other}
    /\ bound' = [bound EXCEPT ![p] = IF bound[p] = Other THEN NoPxy ELSE Other]
    /\ UNCHANGED <<managerVars, pxys, pc, objectVars, port, forwarding>>

-----------------------------------------------------------------------------
Running(x) ==
    \/ Acquire(x) \/ AcquireFails(x) \/ Listen(x) \/ ListenFails(x) \/ Add(x)
    \/ ReleasePort(x) \/ Del(x) \/ ForwardEnds(x)
    \/ pc[x] = "add" /\ Close(x)

Next ==
    \/ \E x \in Pxy : \/ \E n \in Name, r \in Requests : NewProxy(x, n, r)
                      \/ Running(x)
                      \/ pc[x] = "up" /\ Close(x)
                      \/ DayPasses(x)
    \/ CleanReservedPorts
    \/ \E p \in Contested : OtherProgram(p)

Spec == Init /\ [][Next]_vars

-----------------------------------------------------------------------------
(* Correctness *)

\* Every allowed port is free or used and never both, whichever order the
\* acquisitions and releases of racing proxies come in.
PortPartition == \A p \in Port : p \in freePorts <=> usedPorts[p] = NoPxy

Holds(x) == pc[x] \in {"listen", "add", "up"}

\* All proxies so far are tcp proxies that ask for given ports.
GivenPorts == proto = "tcp" /\ \A x \in Pxy : pc[x] # "none" => req[x] # 0

\* Among tcp proxies that ask for given ports, a port that one has acquired and
\* not released is booked to that very proxy: nobody else can be given it, and
\* no Release of another proxy frees it.
PortExclusive ==
    GivenPorts => \A x \in Pxy : Holds(x) => usedPorts[port[x]] = x

\* No race of Acquire, a failing Listen and repeated Releases loses a port:
\* when no proxy is left, every allowed port can be acquired again.
NoPortLost ==
    (\A x \in Pxy : pc[x] \in {"none", "end"} /\ ~forwarding[x])
        => freePorts = Port

\* The manager's tables: they are well typed, every port is free or used and
\* never both, a proxy that asked for a given port is booked on it alone, and no
\* order of Acquire, failing Listen and (doubled) Release loses a port.
PortsSound == TypeOK /\ PortPartition /\ PortExclusive /\ NoPortLost

\* A step in which a reservation goes although the proxy of its name is up on
\* the port.
DropsUsedReservation ==
    \E n \in Name, x, y \in Pxy :
        /\ reservedPorts[n] = x /\ reservedPorts'[n] = NoPxy
        /\ pxys[n] = y /\ pc[y] = "up" /\ port[y] = port[x]

\* cleanReservedPortsWorker, "Release reserved port if it isn't used in last 24
\* hours": among tcp proxies that ask for given ports, a reservation is not
\* dropped while the proxy of its name is up on the port.  (A udp proxy releases
\* its port a second time, at any later moment, and may so mark the PortCtx of
\* the port's next user closed: for udp this does not hold.)
GivenReservationKept == [][GivenPorts => ~DropsUsedReservation]_vars

-----------------------------------------------------------------------------
(* Refinement *)

\* The sockets of frps.
Sockets == [p \in Port |-> IF bound[p] = Other THEN NoPxy ELSE bound[p]]

Leases == INSTANCE PortLease
    WITH Asked <- Requests, asked <- req, had <- {x \in Pxy : port[x] # 0},
         leased <- usedPorts, open <- Sockets

\* Among tcp proxies that ask for given ports, Acquire, Listen, Close and Release are those
\* of PortLease, whichever proxies race for a port, whatever other programs open and
\* whichever step of Run fails: a port is opened by the proxy it is booked to and nobody
\* else, and is booked anew only after its socket was closed.
ImplementsLease ==
    Leases!Init /\ [][GivenPorts' => [Leases!Next]_Leases!vars]_vars
=============================================================================
