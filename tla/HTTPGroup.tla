----------------------------- MODULE HTTPGroup -----------------------------
(***************************************************************************)
(* The http proxies of frps: HTTPProxy.Run and Close (server/proxy/http.go), *)
(* the load balancing groups they may join (server/group/http.go) and the    *)
(* routes of the vhost router that lead to a proxy or to a group             *)
(* (pkg/util/vhost/router.go).                                               *)
(*                                                                          *)
(* Run registers one route after the other and undoes what it has done when  *)
(* one is refused.  A group is found under the controller's lock and joined  *)
(* under its own, after the controller's lock has been dropped.  The         *)
(* handlers of one control run one at a time, those of different controls    *)
(* interleave.                                                               *)
(***************************************************************************)
EXTENDS Integers, Sequences

CONSTANTS
    Pxy,       \* http proxies, by name
    Route,     \* a domain, a location and a user to route by
    GroupName, \* names of load balancing groups
    Control,   \* the controls the proxies belong to
    MaxGroups, \* bound: how many group objects are created
    RoutesOf,  \* the routes of a proxy, in the order Run registers them
    GroupOf,   \* the group a proxy is configured with, or NoGroup
    KeyOf,     \* its groupKey
    Owners,    \* the ways the proxies may be spread over controls
    NoGroup

NoRoute  == "noroute"
NoObj    == 0
Obj      == 1 .. MaxGroups
Nobody   == [kind |-> "none", id |-> NoObj]
Direct(p) == [kind |-> "proxy", id |-> p]
ByGroup(g) == [kind |-> "group", id |-> g]

ASSUME HTTPAssumption ==
    /\ MaxGroups \in Nat
    /\ NoGroup \notin GroupName
    /\ NoRoute \notin Route
    /\ RoutesOf \in [Pxy -> Seq(Route)]
    /\ GroupOf \in [Pxy -> GroupName \cup {NoGroup}]
    /\ Owners \subseteq [Pxy -> Control]

VARIABLES
    ctlOf,       \* the control a proxy belongs to
    groups,      \* HTTPGroupController.groups
    created,     \* how many HTTPGroup objects exist
    route,       \* the domain, location and user of a group object
    groupKey,    \* its key
    createFuncs, \* its members; pxyNames has the same names, in order
    router,      \* what a route of the vhost router leads to
    pc,          \* where Run or Close of a proxy is
    found,       \* the group object Register has found for the proxy
    done,        \* the length of closeFuncs: how many routes were registered
    undone       \* how many closeFuncs Close has called

groupVars == <<groups, created, route, groupKey, createFuncs>>
vars == <<ctlOf, groupVars, router, pc, found, done, undone>>

PCs == {"idle", "run", "join", "up", "close"}

TypeOK ==
    /\ ctlOf \in Owners
    /\ groups \in [GroupName -> Obj \cup {NoObj}]
    /\ created \in 0 .. MaxGroups
    /\ route \in [Obj -> Route \cup {NoRoute}]
    /\ DOMAIN groupKey = Obj
    /\ createFuncs \in [Obj -> SUBSET Pxy]
    /\ DOMAIN router = Route
    /\ \A r \in Route : router[r] \in {Nobody} \cup {Direct(p) : p \in Pxy}
                                     \cup {ByGroup(g) : g \in Obj}
    /\ pc \in [Pxy -> PCs]
    /\ found \in [Pxy -> Obj \cup {NoObj}]
    /\ done \in [Pxy -> Nat] /\ undone \in [Pxy -> Nat]
    /\ \A p \in Pxy : undone[p] <= done[p] /\ done[p] <= Len(RoutesOf[p])

Init ==
    /\ ctlOf \in Owners
    /\ groups = [n \in GroupName |-> NoObj]
    /\ created = 0
    /\ route = [g \in Obj |-> NoRoute]
    /\ groupKey = [g \in Obj |-> NoRoute]
    /\ createFuncs = [g \in Obj |-> {}]
    /\ router = [r \in Route |-> Nobody]
    /\ pc = [p \in Pxy |-> "idle"]
    /\ found = [p \in Pxy |-> NoObj]
    /\ done = [p \in Pxy |-> 0]
    /\ undone = [p \in Pxy |-> 0]

Goto(p, l) == pc' = [pc EXCEPT ![p] = l]

\* The read loop of a control is in one handler at a time.
ControlFree(p) ==
    \A q \in Pxy : ctlOf[q] = ctlOf[p] => pc[q] \in {"idle", "up"}

NextRoute(p) == RoutesOf[p][done[p] + 1]

-----------------------------------------------------------------------------
(* Routers *)

\* Routers.Add of a route: a conflict leaves the router as it is.
AddRoute(r, to) ==
    IF router[r] = Nobody THEN [router EXCEPT ![r] = to] ELSE router

\* Routers.Del of a route, whatever it leads to.
DelRoute(r) == [router EXCEPT ![r] = Nobody]

-----------------------------------------------------------------------------
(* HTTPProxy *)

\* RegisterProxy calls Run.
StartRun(p) ==
    /\ pc[p] = "idle"
    /\ ControlFree(p)
    /\ Goto(p, "run")
    /\ UNCHANGED <<groupVars, router, found, done, undone>>

\* Run of a proxy without a group: HTTPReverseProxy.Register of the next route.
RegisterDirect(p) ==
    /\ pc[p] = "run"
    /\ GroupOf[p] = NoGroup
    /\ done[p] < Len(RoutesOf[p])
    /\ IF router[NextRoute(p)] = Nobody
       THEN done' = [done EXCEPT ![p] = @ + 1] /\ UNCHANGED pc
       ELSE UNCHANGED done /\ Goto(p, "close")
    /\ router' = AddRoute(NextRoute(p), Direct(p))
    /\ UNCHANGED <<groupVars, found, undone>>

\* Run: every route is registered.
RunEnds(p) ==
    /\ pc[p] = "run"
    /\ done[p] = Len(RoutesOf[p])
    /\ Goto(p, "up")
    /\ UNCHANGED <<groupVars, router, found, done, undone>>

\* CloseProxy or the worker calls Close.
StartClose(p) ==
    /\ pc[p] = "up"
    /\ ControlFree(p)
    /\ Goto(p, "close")
    /\ UNCHANGED <<groupVars, router, found, done, undone>>

\* Mutant: a failed Run returns without closing.
CloseDirectLeak(p) ==
    /\ pc[p] = "close"
    /\ GroupOf[p] = NoGroup
    /\ undone[p] < done[p]
    /\ undone' = [undone EXCEPT ![p] = done[p]]
    /\ UNCHANGED <<groupVars, router, pc, found, done>>

\* Close: the closeFuncs of a proxy without a group.
CloseDirect(p) ==
    /\ pc[p] = "close"
    /\ GroupOf[p] = NoGroup
    /\ undone[p] < done[p]
    /\ router' = DelRoute(RoutesOf[p][undone[p] + 1])
    /\ undone' = [undone EXCEPT ![p] = @ + 1]
    /\ UNCHANGED <<groupVars, pc, found, done>>

\* Close: no closeFunc is left.
CloseEnds(p) ==
    /\ pc[p] = "close"
    /\ undone[p] = done[p]
    /\ done' = [done EXCEPT ![p] = 0]
    /\ undone' = [undone EXCEPT ![p] = 0]
    /\ Goto(p, "idle")
    /\ UNCHANGED <<groupVars, router, found>>

-----------------------------------------------------------------------------
(* HTTPGroupController and HTTPGroup *)

\* HTTPGroupController.Register, under its lock: find or create the group.
FindGroup(p) ==
    /\ pc[p] = "run"
    /\ GroupOf[p] # NoGroup
    /\ done[p] < Len(RoutesOf[p])
    /\ IF groups[GroupOf[p]] # NoObj
       THEN /\ found' = [found EXCEPT ![p] = groups[GroupOf[p]]]
            /\ UNCHANGED <<groups, created>>
       ELSE /\ created < MaxGroups
            /\ created' = created + 1
            /\ groups' = [groups EXCEPT ![GroupOf[p]] = created + 1]
            /\ found' = [found EXCEPT ![p] = created + 1]
    /\ Goto(p, "join")
    /\ UNCHANGED <<route, groupKey, createFuncs, router, done, undone>>

\* HTTPGroup.Register of a group that has members: same route, same key.
MayJoin(g, p) == route[g] = NextRoute(p) /\ groupKey[g] = KeyOf[p]

JoinAs(p, g) ==
    /\ createFuncs' = [createFuncs EXCEPT ![g] = @ \cup {p}]
    /\ done' = [done EXCEPT ![p] = @ + 1]
    /\ Goto(p, "run")

RefuseJoin(p) ==
    /\ Goto(p, "close")
    /\ UNCHANGED <<route, groupKey, createFuncs, router, done>>

\* HTTPGroup.Register, under the group's lock: the first member brings the
\* route, the others must fit it.
Register(p) ==
    LET g == found[p]
        r == NextRoute(p)
    IN  /\ pc[p] = "join"
        /\ \/ /\ createFuncs[g] = {}
              /\ router[r] = Nobody
              /\ router' = AddRoute(r, ByGroup(g))
              /\ route' = [route EXCEPT ![g] = r]
              /\ groupKey' = [groupKey EXCEPT ![g] = KeyOf[p]]
              /\ JoinAs(p, g)
           \/ /\ createFuncs[g] = {}
              /\ router[r] # Nobody
              /\ RefuseJoin(p)
           \/ /\ createFuncs[g] # {}
              /\ MayJoin(g, p) /\ p \notin createFuncs[g]
              /\ JoinAs(p, g)
              /\ UNCHANGED <<route, groupKey, router>>
           \/ /\ createFuncs[g] # {}
              /\ ~MayJoin(g, p) \/ p \in createFuncs[g]
              /\ RefuseJoin(p)
        /\ UNCHANGED <<groups, created, found, undone>>

\* Mutant: a group that becomes empty stays in the router.
UnRegisterKeepRoute(p) ==
    LET g == groups[GroupOf[p]]
        left == createFuncs[g] \ {p}
    IN  /\ pc[p] = "close"
        /\ GroupOf[p] # NoGroup
        /\ undone[p] < done[p]
        /\ IF g = NoObj THEN UNCHANGED <<groups, createFuncs>>
           ELSE /\ createFuncs' = [createFuncs EXCEPT ![g] = left]
                /\ groups' = IF left = {} THEN [groups EXCEPT ![GroupOf[p]] = NoObj]
                                            ELSE groups
        /\ undone' = [undone EXCEPT ![p] = @ + 1]
        /\ UNCHANGED <<created, route, groupKey, router, pc, found, done>>

\* Close of a member: HTTPGroupController.UnRegister, under both locks, of the
\* group the controller has under the name now.
UnRegister(p) ==
    LET g == groups[GroupOf[p]]
        left == createFuncs[g] \ {p}
    IN  /\ pc[p] = "close"
        /\ GroupOf[p] # NoGroup
        /\ undone[p] < done[p]
        /\ IF g = NoObj THEN UNCHANGED <<groups, createFuncs, router>>
           ELSE /\ createFuncs' = [createFuncs EXCEPT ![g] = left]
                /\ IF left = {}
                   THEN /\ groups' = [groups EXCEPT ![GroupOf[p]] = NoObj]
                        /\ router' = IF route[g] = NoRoute THEN router
                                     ELSE DelRoute(route[g])
                   ELSE UNCHANGED <<groups, router>>
        /\ undone' = [undone EXCEPT ![p] = @ + 1]
        /\ UNCHANGED <<created, route, groupKey, pc, found, done>>

-----------------------------------------------------------------------------
Next ==
    /\ \E p \in Pxy :
          \/ StartRun(p) \/ RegisterDirect(p) \/ RunEnds(p)
          \/ StartClose(p) \/ CloseDirect(p) \/ CloseEnds(p)
          \/ FindGroup(p) \/ Register(p) \/ UnRegister(p)
    /\ UNCHANGED ctlOf

Spec == Init /\ [][Next]_vars

-----------------------------------------------------------------------------
(* Correctness *)

\* The routes a proxy has registered, in part while Run or Close is under way,
\* are exactly the direct routes the router has for it: a refused Run leaves
\* nothing behind, and Del, which does not ask whose route it is, never takes
\* away another proxy's route.
DirectRoutesExact ==
    \A p \in Pxy, r \in Route :
        GroupOf[p] = NoGroup =>
            (router[r] = Direct(p) <=> \E i \in undone[p] + 1 .. done[p] : RoutesOf[p][i] = r)

\* A group's route is in the router as long as, and only as long as, the group
\* has members; its members agree on the route and on the key.
GroupRouteExact ==
    \A g \in Obj :
        /\ createFuncs[g] # {} <=> \E r \in Route : router[r] = ByGroup(g)
        /\ \A r \in Route : router[r] = ByGroup(g) => route[g] = r
        /\ \A p \in createFuncs[g] : KeyOf[p] = groupKey[g]

\* Whatever Run, Close and the groups of racing proxies do, the router holds
\* exactly the routes that proxies and groups have registered and not undone.
RoutesExact == TypeOK /\ DirectRoutesExact /\ GroupRouteExact

\* The proxies of a group belong to one control, so nobody joins a group while
\* its last member is removing it.
GroupsOfOneControl ==
    \A p, q \in Pxy : GroupOf[p] # NoGroup /\ GroupOf[q] = GroupOf[p] => ctlOf[p] = ctlOf[q]

\* "createConn will get a connection from one proxy of the group": a route that
\* leads to a group leads to a proxy that is running, registering or closing, as
\* long as one control has all members.  (Members of different controls can
\* break it: Register drops the controller's lock before it joins.)
RouteServes ==
    GroupsOfOneControl => \A r \in Route : router[r].kind = "group" =>
        \E p \in createFuncs[router[r].id] : pc[p] # "idle"

\* A route is not kept from the proxies that want it: when no proxy is running
\* the router is empty, again as long as no group is shared by controls.
NoRouteLost ==
    GroupsOfOneControl /\ (\A p \in Pxy : pc[p] = "idle") => \A r \in Route : router[r] = Nobody

\* A group's route leads to a live member as long as it is there, and is given up
\* with the last member.
RoutesKept == RouteServes /\ NoRouteLost
=============================================================================
