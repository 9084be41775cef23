--------------------------- MODULE ListenerGroup ---------------------------
(***************************************************************************)
(* The load balancing groups of listeners: TCPGroup, HTTPSGroup and         *)
(* TCPMuxGroup with their controllers (server/group/tcp.go, https.go,       *)
(* tcpmux.go), which have one shape.  The first member of a group opens the  *)
(* real listener, whose worker hands each connection to some member; the     *)
(* last member that leaves closes it.                                        *)
(*                                                                          *)
(* The controller's Listen finds the group under the controller's lock,      *)
(* drops that lock, and then joins the group under the group's lock; the     *)
(* last member closes the group and removes it in between.                   *)
(***************************************************************************)
EXTENDS Integers, FiniteSets

CONSTANTS
    Pxy,       \* the proxies that want to be members
    GroupName, \* names of groups
    Route,     \* what a real listener listens on: a port, a domain
    User,      \* user connections
    Control,   \* the controls the proxies belong to
    MaxGroups, \* bound: how many group objects are created
    GroupOf,   \* the group a proxy is configured with
    CredOf,    \* its user name and password (tcpmux)
    KeyOf,     \* its groupKey
    Setups     \* the settings that are looked at, see Setup

NoRoute == "noroute"
NoObj   == 0
NoUser  == "nouser"
Obj     == 1 .. MaxGroups

\* The controller that has a group's name, what a proxy wants to listen on, the
\* control it belongs to, and whether other programs may take a port between
\* its probe and net.Listen.
Setup == [kindOf : [GroupName -> {"tcp", "https", "tcpmux"}],
          routeOf : [Pxy -> Route],
          ctlOf : [Pxy -> Control],
          othersBind : BOOLEAN]

ASSUME GroupAssumption ==
    /\ Setups \subseteq Setup
    /\ MaxGroups \in Nat
    /\ NoRoute \notin Route
    /\ NoUser \notin User
    /\ GroupOf \in [Pxy -> GroupName]
    /\ \A s \in Setups, p, q \in Pxy :
          s.routeOf[p] = s.routeOf[q] => s.kindOf[GroupOf[p]] = s.kindOf[GroupOf[q]]

VARIABLES
    setup,    \* the setting of this behaviour
    groups,   \* the controller's groups, by name
    created,  \* how many group objects exist
    lns,      \* the members that listen in a group object
    params,   \* route, credentials and key the first member brought
    chClosed, \* acceptCh is closed
    real,     \* whose real listener is open on a route
    booked,   \* tcp: the ports the port manager has given to groups
    worker,   \* the group's worker is running
    offered,  \* the user connection the worker is sending to acceptCh
    got,      \* where a user connection is
    leaving,  \* former members of a group whose Accept has not yet seen that they are closed
    pc,       \* where Listen or Close of a proxy is
    found,    \* the group object Listen has found
    crashed   \* frps has panicked

groupVars == <<groups, created, lns, params, chClosed, real, booked>>
connVars  == <<offered, got, leaving>>
vars == <<setup, groupVars, worker, connVars, pc, found, crashed>>

RouteOf(p) == setup.routeOf[p]
PxyKind(p) == setup.kindOf[GroupOf[p]]
NoParams == [route |-> NoRoute, cred |-> NoRoute, key |-> NoRoute]

TypeOK ==
    /\ setup \in Setups
    /\ groups \in [GroupName -> Obj \cup {NoObj}]
    /\ created \in 0 .. MaxGroups
    /\ lns \in [Obj -> SUBSET Pxy]
    /\ DOMAIN params = Obj
    /\ chClosed \in [Obj -> BOOLEAN]
    /\ real \in [Route -> Obj \cup {NoObj}]
    /\ booked \subseteq Route
    /\ worker \in [Obj -> BOOLEAN]
    /\ offered \in [Obj -> User \cup {NoUser}]
    /\ got \in [User -> {"none", "offered", "served", "dropped"}]
    /\ leaving \in [Obj -> SUBSET Pxy]
    /\ pc \in [Pxy -> {"idle", "join", "up"}]
    /\ found \in [Pxy -> Obj \cup {NoObj}]
    /\ crashed \in BOOLEAN

Init ==
    /\ setup \in Setups
    /\ groups = [n \in GroupName |-> NoObj]
    /\ created = 0
    /\ lns = [g \in Obj |-> {}]
    /\ params = [g \in Obj |-> NoParams]
    /\ chClosed = [g \in Obj |-> FALSE]
    /\ real = [r \in Route |-> NoObj]
    /\ booked = {}
    /\ worker = [g \in Obj |-> FALSE]
    /\ offered = [g \in Obj |-> NoUser]
    /\ got = [u \in User |-> "none"]
    /\ leaving = [g \in Obj |-> {}]
    /\ pc = [p \in Pxy |-> "idle"]
    /\ found = [p \in Pxy |-> NoObj]
    /\ crashed = FALSE

Goto(p, l) == pc' = [pc EXCEPT ![p] = l]

\* The read loop of a control is in one handler at a time.
ControlFree(p) ==
    \A q \in Pxy : setup.ctlOf[q] = setup.ctlOf[p] => pc[q] # "join"

-----------------------------------------------------------------------------
(* Listen *)

\* Mutant: a new group is created for every member.
FindGroupNew(p) ==
    /\ ~crashed
    /\ pc[p] = "idle"
    /\ ControlFree(p)
    /\ created < MaxGroups
    /\ created' = created + 1
    /\ groups' = [groups EXCEPT ![GroupOf[p]] = created + 1]
    /\ found' = [found EXCEPT ![p] = created + 1]
    /\ Goto(p, "join")
    /\ UNCHANGED <<lns, params, chClosed, real, booked, worker, connVars, crashed>>

\* Listen of a controller, under its lock: find the group or create it.
FindGroup(p) ==
    /\ ~crashed
    /\ pc[p] = "idle"
    /\ ControlFree(p)
    /\ IF groups[GroupOf[p]] # NoObj
       THEN /\ found' = [found EXCEPT ![p] = groups[GroupOf[p]]]
            /\ UNCHANGED <<groups, created>>
       ELSE /\ created < MaxGroups
            /\ created' = created + 1
            /\ groups' = [groups EXCEPT ![GroupOf[p]] = created + 1]
            /\ found' = [found EXCEPT ![p] = created + 1]
    /\ Goto(p, "join")
    /\ UNCHANGED <<lns, params, chClosed, real, booked, worker, connVars, crashed>>

\* TCPGroup.Listen of a later member: same address and port, same key.
FitsTCP(g, p) == params[g].route = RouteOf(p) /\ params[g].key = KeyOf[p]

\* HTTPSGroup.Listen of a later member: same domain, same key.
FitsHTTPS(g, p) == params[g].route = RouteOf(p) /\ params[g].key = KeyOf[p]

\* TCPMuxGroup.HTTPConnectListen of a later member: same domain and user to
\* route by, same user name and password, same key.
FitsTCPMux(g, p) ==
    /\ params[g].route = RouteOf(p) /\ params[g].cred = CredOf[p]
    /\ params[g].key = KeyOf[p]

Fits(g, p) == CASE PxyKind(p) = "tcp"    -> FitsTCP(g, p)
                [] PxyKind(p) = "https"  -> FitsHTTPS(g, p)
                [] PxyKind(p) = "tcpmux" -> FitsTCPMux(g, p)

\* The real listener can be opened: Acquire of the port manager, or Listen of
\* the muxer, which refuses a route it has.
CanOpen(r) == real[r] = NoObj /\ r \notin booked

\* Listen of a group without members: open the real listener, start the worker.
ListenFirst(p) ==
    LET g == found[p]
        r == RouteOf(p)
    IN  /\ ~crashed
        /\ pc[p] = "join"
        /\ lns[g] = {}
        /\ CanOpen(r)
        /\ real' = [real EXCEPT ![r] = g]
        /\ booked' = IF PxyKind(p) = "tcp" THEN booked \cup {r} ELSE booked
        /\ params' = [params EXCEPT ![g] = [route |-> r, cred |-> CredOf[p],
                                            key |-> KeyOf[p]]]
        /\ lns' = [lns EXCEPT ![g] = {p}]
        /\ worker' = [worker EXCEPT ![g] = TRUE]
        /\ Goto(p, "up")
        /\ UNCHANGED <<groups, created, chClosed, connVars, found, crashed>>

\* TCPGroup.Listen of a group without members: the port was acquired, but
\* another program has it when net.Listen comes; nobody releases it.
ListenFirstFails(p) ==
    /\ ~crashed
    /\ setup.othersBind
    /\ pc[p] = "join"
    /\ lns[found[p]] = {}
    /\ PxyKind(p) = "tcp"
    /\ CanOpen(RouteOf(p))
    /\ booked' = booked \cup {RouteOf(p)}
    /\ Goto(p, "idle")
    /\ UNCHANGED <<groups, created, lns, params, chClosed, real, worker, connVars,
                   found, crashed>>

\* Listen of a group with members.
ListenNext(p) ==
    LET g == found[p]
    IN  /\ ~crashed
        /\ pc[p] = "join"
        /\ lns[g] # {}
        /\ Fits(g, p)
        /\ lns' = [lns EXCEPT ![g] = @ \cup {p}]
        /\ Goto(p, "up")
        /\ UNCHANGED <<groups, created, params, chClosed, real, booked, worker,
                       connVars, found, crashed>>

\* Listen returns an error: the parameters differ, or there is no listener to
\* be had.
ListenRefused(p) ==
    LET g == found[p]
    IN  /\ ~crashed
        /\ pc[p] = "join"
        /\ IF lns[g] = {} THEN ~CanOpen(RouteOf(p)) ELSE ~Fits(g, p)
        /\ Goto(p, "idle")
        /\ UNCHANGED <<groupVars, worker, connVars, found, crashed>>

-----------------------------------------------------------------------------
(* Close *)

\* The Accept of a member that leaves may still take connections, until its select sees
\* closeCh.  Once acceptCh is closed there are none to take.
Leaves(g, p) ==
    leaving' = [leaving EXCEPT ![g] = IF lns[g] = {p} THEN {} ELSE @ \cup {p}]

\* Mutant: every member that leaves closes acceptCh.
CloseListenerEach(p) ==
    LET g == found[p]
    IN  /\ ~crashed
        /\ pc[p] = "up" /\ ControlFree(p)
        /\ lns' = [lns EXCEPT ![g] = @ \ {p}]
        /\ Leaves(g, p)
        /\ chClosed' = [chClosed EXCEPT ![g] = TRUE]
        /\ IF lns[g] = {p}
           THEN /\ groups' = [groups EXCEPT ![GroupOf[p]] = NoObj]
                /\ real' = [real EXCEPT ![params[g].route] = NoObj]
                /\ booked' = booked \ {params[g].route}
           ELSE UNCHANGED <<groups, real, booked>>
        /\ Goto(p, "idle")
        /\ UNCHANGED <<created, params, worker, offered, got, found, crashed>>

\* Mutant: the real listener stays open.
CloseListenerKeepReal(p) ==
    LET g == found[p]
    IN  /\ ~crashed
        /\ pc[p] = "up" /\ ControlFree(p)
        /\ lns' = [lns EXCEPT ![g] = @ \ {p}]
        /\ Leaves(g, p)
        /\ IF lns[g] = {p}
           THEN /\ chClosed' = [chClosed EXCEPT ![g] = TRUE]
                /\ groups' = [groups EXCEPT ![GroupOf[p]] = NoObj]
                /\ booked' = booked \ {params[g].route}
           ELSE UNCHANGED <<chClosed, groups, booked>>
        /\ Goto(p, "idle")
        /\ UNCHANGED <<created, params, real, worker, offered, got, found, crashed>>

\* Close of a listener and CloseListener of its group: the last member closes
\* acceptCh (which panics when it is closed already, and nothing recovers),
\* closes the real listener, releases the port and removes the group by name.
CloseListener(p) ==
    LET g == found[p]
    IN  /\ ~crashed
        /\ pc[p] = "up" /\ ControlFree(p)
        /\ lns' = [lns EXCEPT ![g] = @ \ {p}]
        /\ Leaves(g, p)
        /\ IF lns[g] # {p}
           THEN UNCHANGED <<chClosed, groups, real, booked, crashed>>
           ELSE IF chClosed[g]
           THEN /\ crashed' = TRUE
                /\ UNCHANGED <<chClosed, groups, real, booked>>
           ELSE /\ chClosed' = [chClosed EXCEPT ![g] = TRUE]
                /\ groups' = [groups EXCEPT ![GroupOf[p]] = NoObj]
                /\ real' = [real EXCEPT ![params[g].route] = NoObj]
                /\ booked' = booked \ {params[g].route}
                /\ UNCHANGED crashed
        /\ Goto(p, "idle")
        /\ UNCHANGED <<created, params, worker, offered, got, found>>

-----------------------------------------------------------------------------
(* Connections *)

Listening(g) == \E r \in Route : real[r] = g

\* worker: Accept of the real listener returns a user connection.
WorkerAccepts(g, u) ==
    /\ ~crashed
    /\ worker[g] /\ offered[g] = NoUser
    /\ Listening(g)
    /\ got[u] = "none"
    /\ offered' = [offered EXCEPT ![g] = u]
    /\ got' = [got EXCEPT ![u] = "offered"]
    /\ UNCHANGED <<groupVars, leaving, worker, pc, found, crashed>>

\* The Accept of a member, or of one that has just left, receives from acceptCh.
Accept(g, p) ==
    /\ ~crashed
    /\ offered[g] # NoUser
    /\ p \in lns[g] \cup leaving[g]
    /\ ~chClosed[g]
    /\ got' = [got EXCEPT ![offered[g]] = "served"]
    /\ offered' = [offered EXCEPT ![g] = NoUser]
    /\ UNCHANGED <<groupVars, leaving, worker, pc, found, crashed>>

\* The Accept of a closed listener returns ErrListenerClosed.
AcceptEnds(g, p) ==
    /\ ~crashed
    /\ p \in leaving[g]
    /\ leaving' = [leaving EXCEPT ![g] = @ \ {p}]
    /\ UNCHANGED <<groupVars, worker, offered, got, pc, found, crashed>>

\* Mutant: the worker does not wait for a member to receive.
WorkerEndsAtOnce(g) ==
    /\ ~crashed
    /\ worker[g]
    /\ offered[g] = NoUser => ~Listening(g)
    /\ worker' = [worker EXCEPT ![g] = FALSE]
    /\ offered' = [offered EXCEPT ![g] = NoUser]
    /\ got' = IF offered[g] = NoUser THEN got
              ELSE [got EXCEPT ![offered[g]] = "dropped"]
    /\ UNCHANGED <<groupVars, leaving, pc, found, crashed>>

\* worker: Accept fails on the closed listener, or the send on the closed
\* acceptCh panics; the worker returns, and nobody closes the connection it was
\* sending.
WorkerEnds(g) ==
    /\ ~crashed
    /\ worker[g]
    /\ IF offered[g] = NoUser THEN ~Listening(g) ELSE chClosed[g]
    /\ worker' = [worker EXCEPT ![g] = FALSE]
    /\ offered' = [offered EXCEPT ![g] = NoUser]
    /\ got' = IF offered[g] = NoUser THEN got
              ELSE [got EXCEPT ![offered[g]] = "dropped"]
    /\ UNCHANGED <<groupVars, leaving, pc, found, crashed>>

-----------------------------------------------------------------------------
Step ==
    \/ \E p \in Pxy : \/ FindGroup(p) \/ ListenFirst(p) \/ ListenFirstFails(p)
                      \/ ListenNext(p) \/ ListenRefused(p) \/ CloseListener(p)
    \/ \E g \in Obj : \/ \E u \in User : WorkerAccepts(g, u)
                      \/ \E p \in Pxy : Accept(g, p) \/ AcceptEnds(g, p)
                      \/ WorkerEnds(g)

Next == Step /\ UNCHANGED setup

Spec == Init /\ [][Next]_vars

\* A member's accept loop and the worker keep running.
Fairness ==
    \A g \in Obj : /\ WF_vars((\E p \in Pxy : Accept(g, p)) /\ UNCHANGED setup)
                   /\ WF_vars(WorkerEnds(g) /\ UNCHANGED setup)

FairSpec == Spec /\ Fairness

-----------------------------------------------------------------------------
(* Correctness *)

\* The members of a group agree on what they listen on and on the key, however
\* the group was emptied, revived or replaced meanwhile.
MembersFit ==
    \A g \in Obj : \A p \in lns[g] : Fits(g, p)

\* The first member opens the real listener and the last one closes it: a group
\* has a real listener exactly when it has members, and only on its own route.
RealListenerExact ==
    ~crashed => \A g \in Obj, r \in Route :
        real[r] = g <=> lns[g] # {} /\ params[g].route = r

\* The ports of the port manager that groups have acquired are those of the
\* tcp groups that have members: the last Close gives the port back, once, as
\* long as no other program takes a port between Acquire and net.Listen.
PortsExact ==
    ~setup.othersBind /\ ~crashed =>
        booked = {r \in Route : \E g \in Obj : \E p \in lns[g] :
                     PxyKind(p) = "tcp" /\ params[g].route = r}

\* A group object and what it holds agree, whichever controls its members belong
\* to: members that fit, a real listener and a port exactly while there are any.
ListenersExact == TypeOK /\ MembersFit /\ RealListenerExact /\ PortsExact

\* "TCPGroupCtl manage all TCPGroups": a group that has members is the one the
\* controller has under its name.
ManagesAllGroups ==
    \A g \in Obj, p \in Pxy : p \in lns[g] => groups[GroupOf[p]] = g

OneControl == \A p, q \in Pxy : setup.ctlOf[p] = setup.ctlOf[q]

\* The same for the proxies of one control, where it holds: nobody joins a group
\* while its last member is closing it.
ManagesGroupsOfOne == OneControl => ManagesAllGroups

\* Closing a listener of a group never closes acceptCh a second time, which
\* would take frps down, as long as one control has all members.
NoDoubleClose == OneControl => ~crashed

\* What the lock dropped between finding and joining a group cannot break while
\* one control has all members, because its handlers run one at a time.  (With
\* several controls both parts fail: a proxy joins a group that is just closed.)
GroupsOfOne == ManagesGroupsOfOne /\ NoDoubleClose

\* A connection that the worker of a managed group has accepted reaches a member,
\* whichever members come and go, unless the whole group is closed or frps goes
\* down.
OfferedIsServed ==
    \A u \in User, g \in Obj, n \in GroupName :
        (offered[g] = u /\ groups[n] = g /\ lns[g] # {})
            ~> (got[u] = "served" \/ groups[n] # g \/ crashed)

-----------------------------------------------------------------------------
(* Refinement *)

\* The groups the controllers have, their real listeners and what their workers send.
Members == {p \in Pxy : pc[p] = "up"}
Serving == {x \in Route \X GroupName : groups[x[2]] # NoObj /\ real[x[1]] = groups[x[2]]}
Waiting == {x \in User \X GroupName : groups[x[2]] # NoObj /\ offered[groups[x[2]]] = x[1]}
Came    == {u \in User : got[u] # "none"}
Served  == {u \in User : got[u] = "served"}
Leaving == {p \in Pxy : \E g \in Obj : p \in leaving[g]}

Balancer == INSTANCE LoadBalancer
    WITH Member <- Pxy, Group <- GroupName, Target <- Route, wants <- setup.routeOf,
         members <- Members, leaving <- Leaving, serving <- Serving, waiting <- Waiting, came <- Came,
         served <- Served

\* While one control has all members, the groups of listeners balance as LoadBalancer says,
\* whichever members find, join, fail to open and leave a group while its worker accepts:
\* one group per target, open from its first member to its last, and every connection it
\* accepts is served once by a member of that group, or by one that is just leaving it,
\* unless the last member leaves.
ImplementsBalancer ==
    Balancer!Init /\ [][OneControl => [Balancer!Next]_Balancer!vars]_vars
=============================================================================
