-------------------------- MODULE HTTPGroup_proofs --------------------------
(***************************************************************************)
(* Proofs about HTTPGroup, for every set of proxies, routes, groups and       *)
(* controls, every list of routes and every number of group objects.         *)
(*                                                                          *)
(* UnRegister deletes the route of a group it finds empty without asking      *)
(* whose route it is.  GroupsKnown is why that is harmless: a group that is    *)
(* still under its name and has no members never had any, so it has no route. *)
(***************************************************************************)
EXTENDS HTTPGroup, TLAPS

Busy(p) == pc[p] \notin {"idle", "up"}

\* How far Run and Close of a proxy have got; the handlers of a control run one at a
\* time, and the routes a proxy has registered are all different.
Progress ==
    /\ \A p \in Pxy : pc[p] = "idle" => done[p] = 0 /\ undone[p] = 0
    /\ \A p \in Pxy : pc[p] = "join" =>
          /\ GroupOf[p] # NoGroup /\ done[p] < Len(RoutesOf[p])
          /\ found[p] \in Obj /\ found[p] <= created
    /\ \A p, q \in Pxy : ctlOf[p] = ctlOf[q] /\ Busy(p) /\ Busy(q) => p = q
    /\ \A p \in Pxy : GroupOf[p] = NoGroup =>
          \A i, j \in undone[p] + 1 .. done[p] : RoutesOf[p][i] = RoutesOf[p][j] => i = j
    /\ \A r \in Route, p \in Pxy : router[r] = Direct(p) => GroupOf[p] = NoGroup

\* A group object is under one name, and as long as it is there without members it has
\* no route; objects that are not created have neither.
GroupsKnown ==
    /\ \A n \in GroupName : groups[n] # NoObj =>
          /\ groups[n] <= created
          /\ createFuncs[groups[n]] = {} => route[groups[n]] = NoRoute
    /\ \A m, n \in GroupName : groups[m] # NoObj /\ groups[m] = groups[n] => m = n
    /\ \A g \in Obj : g > created => createFuncs[g] = {} /\ route[g] = NoRoute

\* With groups of one control, the group a proxy has found or joined is the one the
\* controller has, and a member still has the closeFunc that will take it out.
OneControlInv ==
    GroupsOfOneControl => \A p \in Pxy :
        /\ pc[p] = "join" => groups[GroupOf[p]] = found[p]
        /\ \A g \in Obj : p \in createFuncs[g] =>
              /\ GroupOf[p] # NoGroup /\ groups[GroupOf[p]] = g
              /\ undone[p] < done[p]

Inv == RoutesExact /\ Progress /\ GroupsKnown /\ OneControlInv

---------------------------------------------------------------------------
(* What the router's entries are *)

LEMMA Markers == NoObj \notin Obj /\ (\A g \in Obj : g \in Int) /\ NoRoute \notin Route
BY HTTPAssumption DEF NoObj, Obj

LEMMA Entries ==
    /\ \A p : Direct(p) # Nobody /\ Direct(p).kind = "proxy"
    /\ \A g : ByGroup(g) # Nobody /\ ByGroup(g).kind = "group" /\ ByGroup(g).id = g
    /\ \A p, g : Direct(p) # ByGroup(g)
    /\ \A p, q : Direct(p) = Direct(q) => p = q
    /\ \A g, h : ByGroup(g) = ByGroup(h) => g = h
    /\ Nobody.kind = "none"
<1>1. /\ \A p : Direct(p).kind = "proxy" /\ Direct(p).id = p
      /\ \A g : ByGroup(g).kind = "group" /\ ByGroup(g).id = g
      /\ Nobody.kind = "none"
  BY DEF Direct, ByGroup, Nobody
<1> QED BY <1>1

LEMMA RoutesTyped ==
    \A p \in Pxy : /\ Len(RoutesOf[p]) \in Nat
                   /\ \A i \in 1 .. Len(RoutesOf[p]) : RoutesOf[p][i] \in Route
                   /\ GroupOf[p] # NoGroup => GroupOf[p] \in GroupName
<1>1. \A p \in Pxy : RoutesOf[p] \in Seq(Route)
  BY HTTPAssumption
<1>2. \A s \in Seq(Route) : Len(s) \in Nat /\ \A i \in 1 .. Len(s) : s[i] \in Route
  OBVIOUS
<1>3. \A p \in Pxy : GroupOf[p] # NoGroup => GroupOf[p] \in GroupName
  BY HTTPAssumption
<1> QED BY <1>1, <1>2, <1>3

\* The entry of a route is one of three kinds.
LEMMA EntryKinds ==
    ASSUME TypeOK, NEW r \in Route
    PROVE  \/ router[r] = Nobody
           \/ \E p \in Pxy : router[r] = Direct(p)
           \/ \E g \in Obj : router[r] = ByGroup(g)
BY DEF TypeOK

LEMMA InitInv == Init => Inv
<1> SUFFICES ASSUME Init PROVE Inv OBVIOUS
<1> USE Markers, RoutesTyped DEF Init
<1>1. TypeOK
  <2>1. /\ ctlOf \in Owners /\ created \in 0 .. MaxGroups /\ DOMAIN groupKey = Obj
        /\ DOMAIN router = Route
    BY HTTPAssumption
  <2>2. \A r \in Route : router[r] = Nobody
    OBVIOUS
  <2>3. /\ done \in [Pxy -> Nat] /\ undone \in [Pxy -> Nat]
        /\ \A p \in Pxy : undone[p] <= done[p] /\ done[p] <= Len(RoutesOf[p])
    OBVIOUS
  <2>4. /\ groups \in [GroupName -> Obj \cup {NoObj}] /\ route \in [Obj -> Route \cup {NoRoute}]
        /\ createFuncs \in [Obj -> SUBSET Pxy] /\ pc \in [Pxy -> PCs]
        /\ found \in [Pxy -> Obj \cup {NoObj}]
    BY DEF PCs
  <2> QED BY <2>1, <2>2, <2>3, <2>4 DEF TypeOK
<1>2. \A r \in Route : router[r] = Nobody
  OBVIOUS
<1>3. DirectRoutesExact
  BY <1>2, Entries DEF DirectRoutesExact
<1>4. GroupRouteExact
  BY <1>2, Entries DEF GroupRouteExact
<1>5. Progress
  BY <1>2, Entries DEF Progress, Busy
<1>6. GroupsKnown /\ OneControlInv
  BY DEF GroupsKnown, OneControlInv
<1> QED BY <1>1, <1>3, <1>4, <1>5, <1>6 DEF Inv, RoutesExact

\* The invariant gives what the runs check.
LEMMA InvServes == Inv => RoutesKept
<1> SUFFICES ASSUME Inv PROVE RoutesKept OBVIOUS
<1>0. TypeOK /\ DirectRoutesExact /\ GroupRouteExact /\ Progress /\ OneControlInv
  BY DEF Inv, RoutesExact
<1>1. ASSUME GroupsOfOneControl, NEW g \in Obj, NEW r \in Route, router[r] = ByGroup(g)
      PROVE  \E p \in createFuncs[g] : p \in Pxy /\ pc[p] # "idle"
  <2>1. PICK p \in createFuncs[g] : p \in Pxy
    BY <1>0, <1>1 DEF GroupRouteExact, TypeOK
  <2>2. undone[p] < done[p]
    BY <1>0, <1>1, <2>1 DEF OneControlInv
  <2> QED BY <1>0, <2>1, <2>2 DEF Progress
<1>2. RouteServes
  <2> SUFFICES ASSUME GroupsOfOneControl, NEW r \in Route, router[r].kind = "group"
               PROVE  \E p \in createFuncs[router[r].id] : pc[p] # "idle"
    BY DEF RouteServes
  <2>1. PICK g \in Obj : router[r] = ByGroup(g)
    BY <1>0, EntryKinds, Entries
  <2> QED BY <1>1, <2>1, Entries
<1>3. NoRouteLost
  <2> SUFFICES ASSUME GroupsOfOneControl, \A p \in Pxy : pc[p] = "idle", NEW r \in Route
               PROVE  router[r] = Nobody
    BY DEF NoRouteLost
  <2>1. ASSUME NEW p \in Pxy, router[r] = Direct(p) PROVE FALSE
    <3>1. PICK i \in undone[p] + 1 .. done[p] : RoutesOf[p][i] = r
      BY <1>0, <2>1 DEF Progress, DirectRoutesExact
    <3>2. undone[p] = 0 /\ done[p] = 0
      BY <1>0 DEF Progress
    <3> QED BY <3>1, <3>2
  <2>2. ASSUME NEW g \in Obj, router[r] = ByGroup(g) PROVE FALSE
    BY <1>1, <2>2
  <2> QED BY <1>0, <2>1, <2>2, EntryKinds
<1> QED BY <1>2, <1>3 DEF RoutesKept

---------------------------------------------------------------------------
(* HTTPProxy *)

\* The handlers of a control stay one at a time.
LEMMA SerialStep ==
    ASSUME TypeOK, Progress, NEW p \in Pxy, NEW l, pc' = [pc EXCEPT ![p] = l], ctlOf' = ctlOf,
           Busy(p) \/ ControlFree(p)
    PROVE  \A x, y \in Pxy : ctlOf'[x] = ctlOf'[y] /\ Busy(x)' /\ Busy(y)' => x = y
<1> SUFFICES ASSUME NEW x \in Pxy, NEW y \in Pxy, ctlOf[x] = ctlOf[y], Busy(x)', Busy(y)'
             PROVE  x = y
  OBVIOUS
<1>1. \A q \in Pxy : q # p => pc'[q] = pc[q]
  BY DEF TypeOK
<1>2. CASE Busy(p)
  BY <1>1, <1>2 DEF Progress, Busy
<1>3. CASE ControlFree(p)
  BY <1>1, <1>3 DEF Progress, Busy, ControlFree
<1> QED BY <1>2, <1>3

\* A step of Run or Close that touches no table.
LEMMA PcInv ==
    ASSUME Inv, NEW p \in Pxy, NEW l \in {"run", "up", "close"}, pc' = [pc EXCEPT ![p] = l],
           Busy(p) \/ ControlFree(p),
           UNCHANGED <<ctlOf, groupVars, router, found, done, undone>>
    PROVE  Inv'
<1> USE DEF groupVars
<1>0. TypeOK /\ DirectRoutesExact /\ GroupRouteExact /\ Progress /\ GroupsKnown /\ OneControlInv
  BY DEF Inv, RoutesExact
<1>1. TypeOK'
  BY <1>0 DEF TypeOK, PCs
<1>2. DirectRoutesExact' /\ GroupRouteExact' /\ GroupsKnown'
  BY <1>0 DEF DirectRoutesExact, GroupRouteExact, GroupsKnown
<1>3. \A q \in Pxy : pc'[q] \in {"idle", "join"} => pc'[q] = pc[q]
  BY <1>0 DEF TypeOK
<1>4. Progress'
  <2>1. \A x, y \in Pxy : ctlOf'[x] = ctlOf'[y] /\ Busy(x)' /\ Busy(y)' => x = y
    BY <1>0, SerialStep
  <2>2. \A q \in Pxy : pc'[q] = "idle" => done'[q] = 0 /\ undone'[q] = 0
    BY <1>0, <1>3 DEF Progress
  <2>3. \A q \in Pxy : pc'[q] = "join" =>
          /\ GroupOf[q] # NoGroup /\ done'[q] < Len(RoutesOf[q])
          /\ found'[q] \in Obj /\ found'[q] <= created'
    BY <1>0, <1>3 DEF Progress
  <2>4. \A q \in Pxy : GroupOf[q] = NoGroup =>
          \A i, j \in undone'[q] + 1 .. done'[q] : RoutesOf[q][i] = RoutesOf[q][j] => i = j
    BY <1>0 DEF Progress
  <2>5. \A r \in Route, q \in Pxy : router'[r] = Direct(q) => GroupOf[q] = NoGroup
    BY <1>0 DEF Progress
  <2> QED BY <2>1, <2>2, <2>3, <2>4, <2>5 DEF Progress
<1>5. OneControlInv'
  BY <1>0, <1>3 DEF OneControlInv, GroupsOfOneControl
<1> QED BY <1>1, <1>2, <1>4, <1>5 DEF Inv, RoutesExact

\* Register of a free route.
LEMMA RegisterDirectInv ==
    ASSUME Inv, NEW p \in Pxy, RegisterDirect(p), UNCHANGED ctlOf, router[NextRoute(p)] = Nobody
    PROVE  Inv'
<1> DEFINE r == NextRoute(p)
<1> USE Markers
<1>0. TypeOK /\ DirectRoutesExact /\ GroupRouteExact /\ Progress /\ GroupsKnown /\ OneControlInv
  BY DEF Inv, RoutesExact
<1>1. /\ pc[p] = "run" /\ GroupOf[p] = NoGroup /\ done[p] < Len(RoutesOf[p])
      /\ done' = [done EXCEPT ![p] = done[p] + 1]
      /\ router' = [router EXCEPT ![r] = Direct(p)]
      /\ UNCHANGED <<ctlOf, groups, created, route, groupKey, createFuncs, pc, found, undone>>
  BY DEF RegisterDirect, groupVars, AddRoute
<1>2. r \in Route /\ r = RoutesOf[p][done[p] + 1] /\ done[p] \in Nat /\ undone[p] \in Nat
      /\ undone[p] <= done[p]
  <2>1. done[p] \in Nat /\ undone[p] \in Nat /\ undone[p] <= done[p]
    BY <1>0 DEF TypeOK
  <2>2. done[p] + 1 \in 1 .. Len(RoutesOf[p])
    BY <1>1, <2>1, RoutesTyped
  <2> QED BY <2>1, <2>2, RoutesTyped DEF NextRoute
<1>3. router[r] = Nobody
  OBVIOUS
<1> HIDE DEF r
<1>4. router'[r] = Direct(p) /\ \A q \in Route : q # r => router'[q] = router[q]
  BY <1>0, <1>1, <1>2 DEF TypeOK
<1>5. done'[p] = done[p] + 1 /\ \A q \in Pxy : q # p => done'[q] = done[q]
  BY <1>0, <1>1 DEF TypeOK
<1>6. TypeOK'
  <2>1. done' \in [Pxy -> Nat]
    BY <1>0, <1>1, <1>2 DEF TypeOK
  <2>2. \A q \in Pxy : undone'[q] <= done'[q] /\ done'[q] <= Len(RoutesOf[q])
    BY <1>0, <1>1, <1>2, <1>5, RoutesTyped DEF TypeOK
  <2>3. DOMAIN router' = Route
    BY <1>0, <1>1 DEF TypeOK
  <2>4. \A q \in Route : router'[q] \in {Nobody} \cup {Direct(x) : x \in Pxy} \cup {ByGroup(g) : g \in Obj}
    BY <1>0, <1>4 DEF TypeOK
  <2> QED BY <1>0, <1>1, <2>1, <2>2, <2>3, <2>4 DEF TypeOK
<1>7. \A i \in undone[p] + 1 .. done[p] : RoutesOf[p][i] # r
  BY <1>0, <1>1, <1>2, <1>3, Entries DEF DirectRoutesExact
<1>8. DirectRoutesExact'
  <2> SUFFICES ASSUME NEW x \in Pxy, NEW q \in Route, GroupOf[x] = NoGroup
               PROVE  router'[q] = Direct(x) <=>
                         \E i \in undone[x] + 1 .. done'[x] : RoutesOf[x][i] = q
    BY <1>1 DEF DirectRoutesExact
  <2>0. router[q] = Direct(x) <=> \E i \in undone[x] + 1 .. done[x] : RoutesOf[x][i] = q
    BY <1>0 DEF DirectRoutesExact
  <2>1. CASE x = p
    BY <1>2, <1>3, <1>4, <1>5, <2>0, <2>1, Entries
  <2>2. CASE x # p
    BY <1>3, <1>4, <1>5, <2>0, <2>2, Entries
  <2> QED BY <2>1, <2>2
<1>9. GroupRouteExact'
  BY <1>0, <1>1, <1>2, <1>3, <1>4, Entries DEF GroupRouteExact
<1>10. Progress'
  <2>1. \A x, y \in Pxy : ctlOf'[x] = ctlOf'[y] /\ Busy(x)' /\ Busy(y)' => x = y
    BY <1>0, <1>1 DEF Progress, Busy
  <2>2. \A q \in Pxy : pc'[q] = "idle" => done'[q] = 0 /\ undone'[q] = 0
    BY <1>0, <1>1, <1>5 DEF Progress
  <2>3. \A q \in Pxy : pc'[q] = "join" =>
          /\ GroupOf[q] # NoGroup /\ done'[q] < Len(RoutesOf[q])
          /\ found'[q] \in Obj /\ found'[q] <= created'
    BY <1>0, <1>1, <1>5 DEF Progress
  <2>4. \A q \in Pxy : GroupOf[q] = NoGroup =>
          \A i, j \in undone'[q] + 1 .. done'[q] : RoutesOf[q][i] = RoutesOf[q][j] => i = j
    <3> SUFFICES ASSUME NEW q \in Pxy, GroupOf[q] = NoGroup,
                        NEW i \in undone[q] + 1 .. done'[q], NEW j \in undone[q] + 1 .. done'[q],
                        RoutesOf[q][i] = RoutesOf[q][j]
                 PROVE  i = j
      BY <1>1
    <3>1. CASE q = p
      <4>1. /\ i \in undone[p] + 1 .. done[p] \/ i = done[p] + 1
            /\ j \in undone[p] + 1 .. done[p] \/ j = done[p] + 1
        BY <1>2, <1>5, <3>1
      <4> QED BY <1>0, <1>1, <1>2, <1>7, <3>1, <4>1 DEF Progress
    <3>2. CASE q # p
      BY <1>0, <1>5, <3>2 DEF Progress
    <3> QED BY <3>1, <3>2
  <2>5. \A q \in Route, x \in Pxy : router'[q] = Direct(x) => GroupOf[x] = NoGroup
    BY <1>0, <1>1, <1>4, Entries DEF Progress
  <2> QED BY <2>1, <2>2, <2>3, <2>4, <2>5 DEF Progress
<1>11. GroupsKnown'
  BY <1>0, <1>1 DEF GroupsKnown
<1>12. OneControlInv'
  <2>1. \A q \in Pxy : undone[q] < done[q] => undone'[q] < done'[q]
    BY <1>1, <1>2, <1>5
  <2> QED BY <1>0, <1>1, <2>1 DEF OneControlInv, GroupsOfOneControl
<1> QED BY <1>6, <1>8, <1>9, <1>10, <1>11, <1>12 DEF Inv, RoutesExact

\* Del of the oldest route the proxy has, which is its own.
LEMMA CloseDirectInv ==
    ASSUME Inv, NEW p \in Pxy, CloseDirect(p), UNCHANGED ctlOf
    PROVE  Inv'
<1> DEFINE r == RoutesOf[p][undone[p] + 1]
<1> USE Markers
<1>0. TypeOK /\ DirectRoutesExact /\ GroupRouteExact /\ Progress /\ GroupsKnown /\ OneControlInv
  BY DEF Inv, RoutesExact
<1>1. /\ pc[p] = "close" /\ GroupOf[p] = NoGroup /\ undone[p] < done[p]
      /\ undone' = [undone EXCEPT ![p] = undone[p] + 1]
      /\ router' = [router EXCEPT ![r] = Nobody]
      /\ UNCHANGED <<ctlOf, groups, created, route, groupKey, createFuncs, pc, found, done>>
  BY DEF CloseDirect, groupVars, DelRoute
<1>2. /\ done[p] \in Nat /\ undone[p] \in Nat /\ undone[p] + 1 \in 1 .. Len(RoutesOf[p])
      /\ undone[p] + 1 \in undone[p] + 1 .. done[p]
  BY <1>0, <1>1, RoutesTyped DEF TypeOK
<1>3. r \in Route
  BY <1>2, RoutesTyped
<1>r. r = RoutesOf[p][undone[p] + 1]
  OBVIOUS
<1> HIDE DEF r
<1>m. router[r] = Direct(p)
  BY <1>0, <1>1, <1>2, <1>3, <1>r DEF DirectRoutesExact
<1>4. router'[r] = Nobody /\ \A q \in Route : q # r => router'[q] = router[q]
  BY <1>0, <1>1, <1>3 DEF TypeOK
<1>5. undone'[p] = undone[p] + 1 /\ \A q \in Pxy : q # p => undone'[q] = undone[q]
  BY <1>0, <1>1 DEF TypeOK
<1>6. TypeOK'
  <2>1. undone' \in [Pxy -> Nat]
    BY <1>0, <1>1, <1>2 DEF TypeOK
  <2>2. \A q \in Pxy : undone'[q] <= done'[q] /\ done'[q] <= Len(RoutesOf[q])
    BY <1>0, <1>1, <1>2, <1>5, RoutesTyped DEF TypeOK
  <2>3. DOMAIN router' = Route
    BY <1>0, <1>1 DEF TypeOK
  <2>4. \A q \in Route : router'[q] \in {Nobody} \cup {Direct(x) : x \in Pxy} \cup {ByGroup(g) : g \in Obj}
    BY <1>0, <1>4 DEF TypeOK
  <2> QED BY <1>0, <1>1, <2>1, <2>2, <2>3, <2>4 DEF TypeOK
<1>7. \A i \in undone[p] + 2 .. done[p] : RoutesOf[p][i] # r
  <2> SUFFICES ASSUME NEW i \in undone[p] + 2 .. done[p], RoutesOf[p][i] = r PROVE FALSE
    OBVIOUS
  <2>1. i \in undone[p] + 1 .. done[p] /\ i # undone[p] + 1
    BY <1>2
  <2> QED BY <1>0, <1>1, <1>2, <1>r, <2>1 DEF Progress
<1>8. DirectRoutesExact'
  <2> SUFFICES ASSUME NEW x \in Pxy, NEW q \in Route, GroupOf[x] = NoGroup
               PROVE  router'[q] = Direct(x) <=>
                         \E i \in undone'[x] + 1 .. done[x] : RoutesOf[x][i] = q
    BY <1>1 DEF DirectRoutesExact
  <2>0. router[q] = Direct(x) <=> \E i \in undone[x] + 1 .. done[x] : RoutesOf[x][i] = q
    BY <1>0 DEF DirectRoutesExact
  <2>1. CASE x = p
    <3>1. CASE q = r
      BY <1>2, <1>4, <1>5, <1>7, <2>1, <3>1, Entries
    <3>2. CASE q # r
      BY <1>2, <1>r, <1>4, <1>5, <2>0, <2>1, <3>2
    <3> QED BY <3>1, <3>2
  <2>2. CASE x # p
    BY <1>m, <1>4, <1>5, <2>0, <2>2, Entries
  <2> QED BY <2>1, <2>2
<1>9. GroupRouteExact'
  BY <1>0, <1>1, <1>m, <1>4, Entries DEF GroupRouteExact
<1>10. Progress'
  <2>1. \A x, y \in Pxy : ctlOf'[x] = ctlOf'[y] /\ Busy(x)' /\ Busy(y)' => x = y
    BY <1>0, <1>1 DEF Progress, Busy
  <2>2. \A q \in Pxy : pc'[q] = "idle" => done'[q] = 0 /\ undone'[q] = 0
    BY <1>0, <1>1, <1>5 DEF Progress
  <2>3. \A q \in Pxy : pc'[q] = "join" =>
          /\ GroupOf[q] # NoGroup /\ done'[q] < Len(RoutesOf[q])
          /\ found'[q] \in Obj /\ found'[q] <= created'
    BY <1>0, <1>1 DEF Progress
  <2>4. \A q \in Pxy : GroupOf[q] = NoGroup =>
          \A i, j \in undone'[q] + 1 .. done'[q] : RoutesOf[q][i] = RoutesOf[q][j] => i = j
    <3>1. \A q \in Pxy : undone'[q] + 1 .. done'[q] \subseteq undone[q] + 1 .. done[q]
      BY <1>1, <1>2, <1>5
    <3> QED BY <1>0, <3>1 DEF Progress
  <2>5. \A q \in Route, x \in Pxy : router'[q] = Direct(x) => GroupOf[x] = NoGroup
    BY <1>0, <1>4, Entries DEF Progress
  <2> QED BY <2>1, <2>2, <2>3, <2>4, <2>5 DEF Progress
<1>11. GroupsKnown'
  BY <1>0, <1>1 DEF GroupsKnown
<1>12. OneControlInv'
  <2>1. \A q \in Pxy : GroupOf[q] # NoGroup => undone'[q] = undone[q]
    BY <1>1, <1>5
  <2> QED BY <1>0, <1>1, <2>1 DEF OneControlInv, GroupsOfOneControl
<1> QED BY <1>6, <1>8, <1>9, <1>10, <1>11, <1>12 DEF Inv, RoutesExact

LEMMA CloseEndsInv ==
    ASSUME Inv, NEW p \in Pxy, CloseEnds(p), UNCHANGED ctlOf
    PROVE  Inv'
<1>0. TypeOK /\ DirectRoutesExact /\ GroupRouteExact /\ Progress /\ GroupsKnown /\ OneControlInv
  BY DEF Inv, RoutesExact
<1>1. /\ pc[p] = "close" /\ undone[p] = done[p] /\ pc' = [pc EXCEPT ![p] = "idle"]
      /\ undone' = [undone EXCEPT ![p] = 0] /\ done' = [done EXCEPT ![p] = 0]
      /\ UNCHANGED <<ctlOf, groups, created, route, groupKey, createFuncs, router, found>>
  BY DEF CloseEnds, groupVars, Goto
<1>2. done[p] \in Nat /\ undone[p] \in Nat
  BY <1>0 DEF TypeOK
<1>3. /\ done'[p] = 0 /\ undone'[p] = 0
      /\ \A q \in Pxy : q # p => done'[q] = done[q] /\ undone'[q] = undone[q] /\ pc'[q] = pc[q]
  BY <1>0, <1>1 DEF TypeOK
<1>4. TypeOK'
  <2>1. done' \in [Pxy -> Nat] /\ undone' \in [Pxy -> Nat] /\ pc' \in [Pxy -> PCs]
    BY <1>0, <1>1 DEF TypeOK, PCs
  <2>2. \A q \in Pxy : undone'[q] <= done'[q] /\ done'[q] <= Len(RoutesOf[q])
    BY <1>0, <1>3, RoutesTyped DEF TypeOK
  <2> QED BY <1>0, <1>1, <2>1, <2>2 DEF TypeOK
<1>5. DirectRoutesExact'
  <2>1. \A q \in Pxy : \A i : i \in undone'[q] + 1 .. done'[q] <=> i \in undone[q] + 1 .. done[q]
    BY <1>1, <1>2, <1>3
  <2> QED BY <1>0, <1>1, <2>1 DEF DirectRoutesExact
<1>6. GroupRouteExact' /\ GroupsKnown'
  BY <1>0, <1>1 DEF GroupRouteExact, GroupsKnown
<1>7. Progress'
  <2>1. \A x, y \in Pxy : ctlOf'[x] = ctlOf'[y] /\ Busy(x)' /\ Busy(y)' => x = y
    BY <1>0, <1>1, SerialStep DEF Busy
  <2>2. \A q \in Pxy : pc'[q] = "idle" => done'[q] = 0 /\ undone'[q] = 0
    BY <1>0, <1>3 DEF Progress
  <2>3. \A q \in Pxy : pc'[q] = "join" =>
          /\ GroupOf[q] # NoGroup /\ done'[q] < Len(RoutesOf[q])
          /\ found'[q] \in Obj /\ found'[q] <= created'
    BY <1>0, <1>1, <1>3 DEF Progress, TypeOK
  <2>4. \A q \in Pxy : GroupOf[q] = NoGroup =>
          \A i, j \in undone'[q] + 1 .. done'[q] : RoutesOf[q][i] = RoutesOf[q][j] => i = j
    <3>1. \A q \in Pxy : undone'[q] + 1 .. done'[q] \subseteq undone[q] + 1 .. done[q]
      BY <1>1, <1>2, <1>3
    <3> QED BY <1>0, <3>1 DEF Progress
  <2>5. \A q \in Route, x \in Pxy : router'[q] = Direct(x) => GroupOf[x] = NoGroup
    BY <1>0, <1>1 DEF Progress
  <2> QED BY <2>1, <2>2, <2>3, <2>4, <2>5 DEF Progress
<1>8. OneControlInv'
  <2>1. \A q \in Pxy : undone[q] < done[q] => undone'[q] < done'[q]
    BY <1>1, <1>2, <1>3
  <2>2. \A q \in Pxy : pc'[q] = "join" => pc[q] = "join"
    BY <1>0, <1>1 DEF TypeOK
  <2> QED BY <1>0, <1>1, <2>1, <2>2 DEF OneControlInv, GroupsOfOneControl
<1> QED BY <1>4, <1>5, <1>6, <1>7, <1>8 DEF Inv, RoutesExact

---------------------------------------------------------------------------
(* HTTPGroupController and HTTPGroup *)

LEMMA FindGroupInv ==
    ASSUME Inv, NEW p \in Pxy, FindGroup(p), UNCHANGED ctlOf
    PROVE  Inv'
<1> USE Markers
<1>0. TypeOK /\ DirectRoutesExact /\ GroupRouteExact /\ Progress /\ GroupsKnown /\ OneControlInv
  BY DEF Inv, RoutesExact
<1>1. /\ pc[p] = "run" /\ GroupOf[p] # NoGroup /\ GroupOf[p] \in GroupName
      /\ done[p] < Len(RoutesOf[p]) /\ pc' = [pc EXCEPT ![p] = "join"]
      /\ UNCHANGED <<ctlOf, route, groupKey, createFuncs, router, done, undone>>
  BY RoutesTyped DEF FindGroup, Goto
<1>2. PICK g \in Obj : /\ found' = [found EXCEPT ![p] = g]
                       /\ \/ /\ g = groups[GroupOf[p]] /\ groups' = groups /\ created' = created
                          \/ /\ groups[GroupOf[p]] = NoObj
                             /\ g = created + 1 /\ created' = g /\ created < MaxGroups
                             /\ groups' = [groups EXCEPT ![GroupOf[p]] = g]
  <2>1. CASE groups[GroupOf[p]] # NoObj
    BY <1>0, <1>1, <2>1 DEF FindGroup, TypeOK
  <2>2. CASE groups[GroupOf[p]] = NoObj
    BY <1>0, <1>1, <2>2, HTTPAssumption DEF FindGroup, TypeOK, Obj
  <2> QED BY <2>1, <2>2
<1>c. created \in Int /\ created' \in Int /\ created <= created' /\ g <= created'
  BY <1>0, <1>1, <1>2 DEF TypeOK, GroupsKnown
<1>3. TypeOK'
  <2>1. created' \in 0 .. MaxGroups
    BY <1>0, <1>2, HTTPAssumption DEF TypeOK
  <2>2. groups' \in [GroupName -> Obj \cup {NoObj}] /\ found' \in [Pxy -> Obj \cup {NoObj}]
    BY <1>0, <1>1, <1>2 DEF TypeOK
  <2>3. pc' \in [Pxy -> PCs]
    BY <1>0, <1>1 DEF TypeOK, PCs
  <2> QED BY <1>0, <1>1, <2>1, <2>2, <2>3 DEF TypeOK
<1>4. DirectRoutesExact' /\ GroupRouteExact'
  BY <1>0, <1>1 DEF DirectRoutesExact, GroupRouteExact
<1>5. /\ pc'[p] = "join" /\ found'[p] = g
      /\ \A q \in Pxy : q # p => pc'[q] = pc[q] /\ found'[q] = found[q]
  BY <1>0, <1>1, <1>2 DEF TypeOK
<1>6. Progress'
  <2>1. \A x, y \in Pxy : ctlOf'[x] = ctlOf'[y] /\ Busy(x)' /\ Busy(y)' => x = y
    BY <1>0, <1>1, SerialStep DEF Busy
  <2>2. \A q \in Pxy : pc'[q] = "idle" => done'[q] = 0 /\ undone'[q] = 0
    BY <1>0, <1>1, <1>5 DEF Progress
  <2>3. \A q \in Pxy : pc'[q] = "join" =>
          /\ GroupOf[q] # NoGroup /\ done'[q] < Len(RoutesOf[q])
          /\ found'[q] \in Obj /\ found'[q] <= created'
    BY <1>0, <1>1, <1>2, <1>c, <1>5 DEF Progress
  <2>4. \A q \in Pxy : GroupOf[q] = NoGroup =>
          \A i, j \in undone'[q] + 1 .. done'[q] : RoutesOf[q][i] = RoutesOf[q][j] => i = j
    BY <1>0, <1>1 DEF Progress
  <2>5. \A q \in Route, x \in Pxy : router'[q] = Direct(x) => GroupOf[x] = NoGroup
    BY <1>0, <1>1 DEF Progress
  <2> QED BY <2>1, <2>2, <2>3, <2>4, <2>5 DEF Progress
<1>7. GroupsKnown'
  <2>1. CASE groups' = groups /\ created' = created
    BY <1>0, <1>1, <2>1 DEF GroupsKnown
  <2>2. CASE /\ g = created + 1 /\ created' = g
             /\ groups' = [groups EXCEPT ![GroupOf[p]] = g]
    <3>1. createFuncs[g] = {} /\ route[g] = NoRoute
      BY <1>0, <1>c, <2>2 DEF GroupsKnown
    <3>2. groups'[GroupOf[p]] = g /\ \A n \in GroupName : n # GroupOf[p] => groups'[n] = groups[n]
      BY <1>0, <1>1, <2>2 DEF TypeOK
    <3>3. \A n \in GroupName : groups[n] # NoObj => groups[n] # g /\ groups[n] \in Obj
      BY <1>0, <1>c, <2>2 DEF GroupsKnown, TypeOK
    <3>4. \A n \in GroupName : groups'[n] # NoObj =>
             /\ groups'[n] <= created'
             /\ createFuncs[groups'[n]] = {} => route[groups'[n]] = NoRoute
      BY <1>0, <1>c, <3>1, <3>2, <3>3 DEF GroupsKnown
    <3>5. \A m, n \in GroupName : groups'[m] # NoObj /\ groups'[m] = groups'[n] => m = n
      BY <1>0, <3>2, <3>3 DEF GroupsKnown
    <3>6. \A h \in Obj : h > created' => createFuncs[h] = {} /\ route[h] = NoRoute
      BY <1>0, <1>c DEF GroupsKnown
    <3> QED BY <1>1, <3>4, <3>5, <3>6 DEF GroupsKnown
  <2> QED BY <1>2, <2>1, <2>2
<1>8. OneControlInv'
  <2> SUFFICES ASSUME GroupsOfOneControl, NEW x \in Pxy
               PROVE  /\ pc'[x] = "join" => groups'[GroupOf[x]] = found'[x]
                      /\ \A h \in Obj : x \in createFuncs[h] =>
                            /\ GroupOf[x] # NoGroup /\ groups'[GroupOf[x]] = h
                            /\ undone[x] < done[x]
    BY <1>1 DEF OneControlInv, GroupsOfOneControl
  <2>1. pc'[x] = "join" => groups'[GroupOf[x]] = found'[x]
    <3>1. CASE x = p
      BY <1>0, <1>1, <1>2, <1>5, <3>1 DEF TypeOK
    <3>2. CASE x # p /\ GroupOf[x] = GroupOf[p]
      <4>1. ctlOf[x] = ctlOf[p]
        BY <1>1, <3>2 DEF GroupsOfOneControl
      <4> QED BY <1>0, <1>1, <1>5, <3>2, <4>1 DEF Progress, Busy
    <3>3. CASE x # p /\ GroupOf[x] # GroupOf[p]
      BY <1>0, <1>1, <1>2, <1>5, <3>3, RoutesTyped DEF OneControlInv, Progress, TypeOK
    <3> QED BY <3>1, <3>2, <3>3
  <2>2. ASSUME NEW h \in Obj, x \in createFuncs[h]
        PROVE  /\ GroupOf[x] # NoGroup /\ groups'[GroupOf[x]] = h
               /\ undone[x] < done[x]
    <3>1. GroupOf[x] # NoGroup /\ groups[GroupOf[x]] = h /\ undone[x] < done[x]
      BY <1>0, <2>2 DEF OneControlInv
    <3> QED BY <1>0, <1>1, <1>2, <3>1, RoutesTyped DEF TypeOK
  <2> QED BY <2>1, <2>2
<1> QED BY <1>3, <1>4, <1>6, <1>7, <1>8 DEF Inv, RoutesExact

\* What joining a group does to the proxy, whether it is the first member or not.
LEMMA JoinProgress ==
    ASSUME Inv, NEW p \in Pxy, pc[p] = "join", UNCHANGED <<ctlOf, found, created, undone>>,
           JoinAs(p, found[p]),
           \A r \in Route, q \in Pxy : router'[r] = Direct(q) => router[r] = Direct(q)
    PROVE  /\ Progress'
           /\ done' \in [Pxy -> Nat] /\ pc' \in [Pxy -> PCs]
           /\ \A q \in Pxy : undone'[q] <= done'[q] /\ done'[q] <= Len(RoutesOf[q])
           /\ \A q \in Pxy : GroupOf[q] = NoGroup => done'[q] = done[q]
           /\ undone[p] < done'[p]
           /\ \A q \in Pxy : undone[q] < done[q] => undone'[q] < done'[q]
<1>0. TypeOK /\ Progress
  BY DEF Inv, RoutesExact
<1>1. /\ pc' = [pc EXCEPT ![p] = "run"] /\ done' = [done EXCEPT ![p] = done[p] + 1]
  BY DEF JoinAs, Goto
<1>2. /\ done'[p] = done[p] + 1 /\ done[p] \in Nat /\ undone[p] \in Nat /\ undone[p] <= done[p]
      /\ \A q \in Pxy : q # p => done'[q] = done[q] /\ pc'[q] = pc[q]
      /\ pc'[p] = "run"
  BY <1>0, <1>1 DEF TypeOK
<1>3. GroupOf[p] # NoGroup /\ done[p] < Len(RoutesOf[p]) /\ Len(RoutesOf[p]) \in Nat
  BY <1>0, RoutesTyped DEF Progress
<1>4. done' \in [Pxy -> Nat] /\ pc' \in [Pxy -> PCs]
  BY <1>0, <1>1, <1>2 DEF TypeOK, PCs
<1>5. \A q \in Pxy : undone'[q] <= done'[q] /\ done'[q] <= Len(RoutesOf[q])
  <2> SUFFICES ASSUME NEW q \in Pxy PROVE undone[q] <= done'[q] /\ done'[q] <= Len(RoutesOf[q])
    OBVIOUS
  <2>1. CASE q = p
    BY <1>2, <1>3, <2>1
  <2>2. CASE q # p
    BY <1>0, <1>2, <2>2 DEF TypeOK
  <2> QED BY <2>1, <2>2
<1>6. Progress'
  <2>1. \A x, y \in Pxy : ctlOf'[x] = ctlOf'[y] /\ Busy(x)' /\ Busy(y)' => x = y
    BY <1>0, <1>1, SerialStep DEF Busy
  <2>2. \A q \in Pxy : pc'[q] = "idle" => done'[q] = 0 /\ undone'[q] = 0
    BY <1>0, <1>2 DEF Progress
  <2>3. \A q \in Pxy : pc'[q] = "join" =>
          /\ GroupOf[q] # NoGroup /\ done'[q] < Len(RoutesOf[q])
          /\ found'[q] \in Obj /\ found'[q] <= created'
    BY <1>0, <1>2 DEF Progress
  <2>4. \A q \in Pxy : GroupOf[q] = NoGroup =>
          \A i, j \in undone'[q] + 1 .. done'[q] : RoutesOf[q][i] = RoutesOf[q][j] => i = j
    BY <1>0, <1>2, <1>3 DEF Progress
  <2>5. \A q \in Route, x \in Pxy : router'[q] = Direct(x) => GroupOf[x] = NoGroup
    BY <1>0 DEF Progress
  <2> QED BY <2>1, <2>2, <2>3, <2>4, <2>5 DEF Progress
<1>7. undone[p] < done'[p] /\ \A q \in Pxy : undone[q] < done[q] => undone'[q] < done'[q]
  BY <1>2
<1>8. \A q \in Pxy : GroupOf[q] = NoGroup => done'[q] = done[q]
  BY <1>2, <1>3
<1> QED BY <1>4, <1>5, <1>6, <1>7, <1>8

\* The first member brings a free route.
LEMMA RegisterFirstInv ==
    ASSUME Inv, NEW p \in Pxy, UNCHANGED <<ctlOf, groups, created, found, undone>>, pc[p] = "join",
           createFuncs[found[p]] = {}, router[NextRoute(p)] = Nobody,
           router' = AddRoute(NextRoute(p), ByGroup(found[p])),
           route' = [route EXCEPT ![found[p]] = NextRoute(p)],
           groupKey' = [groupKey EXCEPT ![found[p]] = KeyOf[p]],
           JoinAs(p, found[p])
    PROVE  Inv'
<1> DEFINE g == found[p]
           r == NextRoute(p)
<1> USE Markers
<1>0. TypeOK /\ DirectRoutesExact /\ GroupRouteExact /\ Progress /\ GroupsKnown /\ OneControlInv
  BY DEF Inv, RoutesExact
<1>1. g \in Obj /\ g <= created /\ GroupOf[p] # NoGroup /\ done[p] < Len(RoutesOf[p])
  BY <1>0 DEF Progress
<1>2. r \in Route
  <2>1. done[p] \in Nat /\ done[p] + 1 \in 1 .. Len(RoutesOf[p])
    BY <1>0, <1>1, RoutesTyped DEF TypeOK
  <2> QED BY <2>1, RoutesTyped DEF NextRoute
<1>3. /\ router' = [router EXCEPT ![r] = ByGroup(g)] /\ createFuncs[g] = {} /\ router[r] = Nobody
      /\ createFuncs' = [createFuncs EXCEPT ![g] = createFuncs[g] \cup {p}]
  BY DEF AddRoute, JoinAs
<1>4. /\ router'[r] = ByGroup(g) /\ \A q \in Route : q # r => router'[q] = router[q]
      /\ route'[g] = r /\ groupKey'[g] = KeyOf[p] /\ createFuncs'[g] = {p}
      /\ \A h \in Obj : h # g => /\ route'[h] = route[h] /\ groupKey'[h] = groupKey[h]
                                 /\ createFuncs'[h] = createFuncs[h]
  BY <1>0, <1>1, <1>2, <1>3 DEF TypeOK
<1>5. \A q \in Route, x \in Pxy : router'[q] = Direct(x) => router[q] = Direct(x)
  BY <1>4, Entries
<1>6. /\ Progress'
      /\ done' \in [Pxy -> Nat] /\ pc' \in [Pxy -> PCs]
      /\ \A q \in Pxy : undone'[q] <= done'[q] /\ done'[q] <= Len(RoutesOf[q])
      /\ \A q \in Pxy : GroupOf[q] = NoGroup => done'[q] = done[q]
      /\ undone[p] < done'[p]
      /\ \A q \in Pxy : undone[q] < done[q] => undone'[q] < done'[q]
  BY <1>5, JoinProgress
<1>7. pc'[p] = "run" /\ \A q \in Pxy : q # p => pc'[q] = pc[q]
  BY <1>0 DEF JoinAs, Goto, TypeOK
<1>8. TypeOK'
  <2>1. route' \in [Obj -> Route \cup {NoRoute}] /\ DOMAIN groupKey' = Obj /\ DOMAIN router' = Route
    BY <1>0, <1>2, <1>3 DEF TypeOK
  <2>2. createFuncs' \in [Obj -> SUBSET Pxy]
    BY <1>0, <1>1, <1>3 DEF TypeOK
  <2>3. \A q \in Route : router'[q] \in {Nobody} \cup {Direct(x) : x \in Pxy} \cup {ByGroup(h) : h \in Obj}
    <3>1. \A q \in Route : q # r => router'[q] \in {Nobody} \cup {Direct(x) : x \in Pxy} \cup {ByGroup(h) : h \in Obj}
      BY <1>0, <1>4 DEF TypeOK
    <3> QED BY <1>1, <1>4, <3>1
  <2> QED BY <1>0, <1>6, <2>1, <2>2, <2>3 DEF TypeOK
<1> HIDE DEF g, r
<1>9. DirectRoutesExact'
  BY <1>0, <1>3, <1>4, <1>6, Entries DEF DirectRoutesExact
<1>10. GroupRouteExact'
  BY <1>0, <1>1, <1>2, <1>3, <1>4, Entries DEF GroupRouteExact
<1>11. GroupsKnown'
  <2>1. \A h \in Obj : createFuncs'[h] = {} => h # g /\ createFuncs[h] = {}
    BY <1>4
  <2>2. \A n \in GroupName : groups[n] # NoObj =>
          /\ groups[n] <= created
          /\ createFuncs'[groups[n]] = {} => route'[groups[n]] = NoRoute
    <3> SUFFICES ASSUME NEW n \in GroupName, groups[n] # NoObj
                 PROVE  /\ groups[n] <= created
                        /\ createFuncs'[groups[n]] = {} => route'[groups[n]] = NoRoute
      OBVIOUS
    <3>1. groups[n] \in Obj
      BY <1>0 DEF TypeOK
    <3>2. groups[n] <= created /\ (createFuncs[groups[n]] = {} => route[groups[n]] = NoRoute)
      BY <1>0 DEF GroupsKnown
    <3> QED BY <1>4, <2>1, <3>1, <3>2
  <2>3. \A m, n \in GroupName : groups[m] # NoObj /\ groups[m] = groups[n] => m = n
    BY <1>0 DEF GroupsKnown
  <2>4. \A h \in Obj : h > created => createFuncs'[h] = {} /\ route'[h] = NoRoute
    <3>1. \A h \in Obj : h > created => h # g
      BY <1>0, <1>1 DEF TypeOK
    <3> QED BY <1>0, <1>4, <3>1 DEF GroupsKnown
  <2> QED BY <2>2, <2>3, <2>4 DEF GroupsKnown
<1>12. OneControlInv'
  <2> SUFFICES ASSUME GroupsOfOneControl, NEW x \in Pxy
               PROVE  /\ pc'[x] = "join" => groups[GroupOf[x]] = found[x]
                      /\ \A h \in Obj : x \in createFuncs'[h] =>
                            /\ GroupOf[x] # NoGroup /\ groups[GroupOf[x]] = h
                            /\ undone[x] < done'[x]
    BY DEF OneControlInv, GroupsOfOneControl
  <2>1. groups[GroupOf[p]] = g
    BY <1>0 DEF OneControlInv, g
  <2>2. pc'[x] = "join" => groups[GroupOf[x]] = found[x]
    BY <1>0, <1>7 DEF OneControlInv
  <2>3. ASSUME NEW h \in Obj, x \in createFuncs'[h]
        PROVE  GroupOf[x] # NoGroup /\ groups[GroupOf[x]] = h /\ undone[x] < done'[x]
    <3>1. CASE x = p /\ h = g
      BY <1>1, <1>6, <2>1, <3>1
    <3>2. CASE ~(x = p /\ h = g)
      <4>1. x \in createFuncs[h]
        BY <1>1, <1>4, <2>3, <3>2
      <4> QED BY <1>0, <1>6, <4>1 DEF OneControlInv
    <3> QED BY <3>1, <3>2
  <2> QED BY <2>2, <2>3
<1> QED BY <1>6, <1>8, <1>9, <1>10, <1>11, <1>12 DEF Inv, RoutesExact

\* A later member fits the route and the key.
LEMMA RegisterNextInv ==
    ASSUME Inv, NEW p \in Pxy, UNCHANGED <<ctlOf, groups, created, found, undone, route, groupKey, router>>,
           pc[p] = "join", createFuncs[found[p]] # {}, MayJoin(found[p], p), JoinAs(p, found[p])
    PROVE  Inv'
<1> DEFINE g == found[p]
<1> USE Markers
<1>0. TypeOK /\ DirectRoutesExact /\ GroupRouteExact /\ Progress /\ GroupsKnown /\ OneControlInv
  BY DEF Inv, RoutesExact
<1>1. g \in Obj /\ g <= created /\ GroupOf[p] # NoGroup
  BY <1>0 DEF Progress
<1>3. /\ createFuncs[g] # {} /\ groupKey[g] = KeyOf[p]
      /\ createFuncs' = [createFuncs EXCEPT ![g] = createFuncs[g] \cup {p}]
  BY DEF MayJoin, JoinAs
<1>4. /\ createFuncs'[g] = createFuncs[g] \cup {p}
      /\ \A h \in Obj : h # g => createFuncs'[h] = createFuncs[h]
  BY <1>0, <1>1, <1>3 DEF TypeOK
<1>6. /\ Progress'
      /\ done' \in [Pxy -> Nat] /\ pc' \in [Pxy -> PCs]
      /\ \A q \in Pxy : undone'[q] <= done'[q] /\ done'[q] <= Len(RoutesOf[q])
      /\ \A q \in Pxy : GroupOf[q] = NoGroup => done'[q] = done[q]
      /\ undone[p] < done'[p]
      /\ \A q \in Pxy : undone[q] < done[q] => undone'[q] < done'[q]
  BY JoinProgress
<1>7. pc'[p] = "run" /\ \A q \in Pxy : q # p => pc'[q] = pc[q]
  BY <1>0 DEF JoinAs, Goto, TypeOK
<1>8. TypeOK'
  <2>2. createFuncs' \in [Obj -> SUBSET Pxy]
    BY <1>0, <1>1, <1>3 DEF TypeOK
  <2> QED BY <1>0, <1>6, <2>2 DEF TypeOK
<1> HIDE DEF g
<1>9. DirectRoutesExact'
  BY <1>0, <1>6 DEF DirectRoutesExact
<1>10. GroupRouteExact'
  BY <1>0, <1>1, <1>3, <1>4 DEF GroupRouteExact
<1>11. GroupsKnown'
  <2>1. \A h \in Obj : createFuncs'[h] = {} => h # g /\ createFuncs[h] = {}
    BY <1>4
  <2>2. \A n \in GroupName : groups[n] # NoObj =>
          /\ groups[n] <= created
          /\ createFuncs'[groups[n]] = {} => route'[groups[n]] = NoRoute
    <3> SUFFICES ASSUME NEW n \in GroupName, groups[n] # NoObj
                 PROVE  /\ groups[n] <= created
                        /\ createFuncs'[groups[n]] = {} => route'[groups[n]] = NoRoute
      OBVIOUS
    <3>1. groups[n] \in Obj
      BY <1>0 DEF TypeOK
    <3>2. groups[n] <= created /\ (createFuncs[groups[n]] = {} => route[groups[n]] = NoRoute)
      BY <1>0 DEF GroupsKnown
    <3> QED BY <1>4, <2>1, <3>1, <3>2
  <2>3. \A m, n \in GroupName : groups[m] # NoObj /\ groups[m] = groups[n] => m = n
    BY <1>0 DEF GroupsKnown
  <2>4. \A h \in Obj : h > created => createFuncs'[h] = {} /\ route'[h] = NoRoute
    <3>1. \A h \in Obj : h > created => h # g
      BY <1>0, <1>1 DEF TypeOK
    <3> QED BY <1>0, <1>4, <3>1 DEF GroupsKnown
  <2> QED BY <2>2, <2>3, <2>4 DEF GroupsKnown
<1>12. OneControlInv'
  <2> SUFFICES ASSUME GroupsOfOneControl, NEW x \in Pxy
               PROVE  /\ pc'[x] = "join" => groups[GroupOf[x]] = found[x]
                      /\ \A h \in Obj : x \in createFuncs'[h] =>
                            /\ GroupOf[x] # NoGroup /\ groups[GroupOf[x]] = h
                            /\ undone[x] < done'[x]
    BY DEF OneControlInv, GroupsOfOneControl
  <2>1. groups[GroupOf[p]] = g
    BY <1>0 DEF OneControlInv, g
  <2>2. pc'[x] = "join" => groups[GroupOf[x]] = found[x]
    BY <1>0, <1>7 DEF OneControlInv
  <2>3. ASSUME NEW h \in Obj, x \in createFuncs'[h]
        PROVE  GroupOf[x] # NoGroup /\ groups[GroupOf[x]] = h /\ undone[x] < done'[x]
    <3>1. CASE x = p /\ h = g
      BY <1>1, <1>6, <2>1, <3>1
    <3>2. CASE ~(x = p /\ h = g)
      <4>1. x \in createFuncs[h]
        BY <1>1, <1>4, <2>3, <3>2
      <4> QED BY <1>0, <1>6, <4>1 DEF OneControlInv
    <3> QED BY <3>1, <3>2
  <2> QED BY <2>2, <2>3
<1> QED BY <1>6, <1>8, <1>9, <1>10, <1>11, <1>12 DEF Inv, RoutesExact

LEMMA RegisterInv ==
    ASSUME Inv, NEW p \in Pxy, Register(p), UNCHANGED ctlOf
    PROVE  Inv'
<1>1. CASE RefuseJoin(p)
  <2>1. pc' = [pc EXCEPT ![p] = "close"] /\ Busy(p)
    BY <1>1 DEF RefuseJoin, Goto, Register, Busy
  <2>2. UNCHANGED <<ctlOf, groupVars, router, found, done, undone>>
    BY <1>1 DEF RefuseJoin, Register, groupVars
  <2> QED BY <2>1, <2>2, PcInv
<1>2. CASE ~RefuseJoin(p)
  BY <1>2, RegisterFirstInv, RegisterNextInv DEF Register
<1> QED BY <1>1, <1>2

\* The steps of UnRegister that matter to the proxy itself.
LEMMA UndoProgress ==
    ASSUME Inv, NEW p \in Pxy, pc[p] = "close", GroupOf[p] # NoGroup, undone[p] < done[p],
           undone' = [undone EXCEPT ![p] = undone[p] + 1],
           UNCHANGED <<ctlOf, pc, found, done, created>>,
           \A r \in Route, q \in Pxy : router'[r] = Direct(q) => router[r] = Direct(q)
    PROVE  /\ Progress' /\ undone' \in [Pxy -> Nat]
           /\ \A q \in Pxy : undone'[q] <= done'[q]
           /\ \A q \in Pxy : q # p => undone'[q] = undone[q]
<1>0. TypeOK /\ Progress
  BY DEF Inv, RoutesExact
<1>1. /\ undone'[p] = undone[p] + 1 /\ done[p] \in Nat /\ undone[p] \in Nat
      /\ \A q \in Pxy : q # p => undone'[q] = undone[q]
  BY <1>0 DEF TypeOK
<1>2. undone' \in [Pxy -> Nat]
  BY <1>0, <1>1 DEF TypeOK
<1>3. \A q \in Pxy : undone'[q] <= done'[q]
  BY <1>0, <1>1 DEF TypeOK
<1>4. Progress'
  <2>1. \A x, y \in Pxy : ctlOf'[x] = ctlOf'[y] /\ Busy(x)' /\ Busy(y)' => x = y
    BY <1>0 DEF Progress, Busy
  <2>2. \A q \in Pxy : pc'[q] = "idle" => done'[q] = 0 /\ undone'[q] = 0
    BY <1>0, <1>1 DEF Progress
  <2>3. \A q \in Pxy : pc'[q] = "join" =>
          /\ GroupOf[q] # NoGroup /\ done'[q] < Len(RoutesOf[q])
          /\ found'[q] \in Obj /\ found'[q] <= created'
    BY <1>0 DEF Progress
  <2>4. \A q \in Pxy : GroupOf[q] = NoGroup =>
          \A i, j \in undone'[q] + 1 .. done'[q] : RoutesOf[q][i] = RoutesOf[q][j] => i = j
    BY <1>0, <1>1 DEF Progress
  <2>5. \A q \in Route, x \in Pxy : router'[q] = Direct(x) => GroupOf[x] = NoGroup
    BY <1>0 DEF Progress
  <2> QED BY <2>1, <2>2, <2>3, <2>4, <2>5 DEF Progress
<1> QED BY <1>1, <1>2, <1>3, <1>4

\* UnRegister of a proxy whose group has other members, or is gone.
LEMMA UnRegisterSomeInv ==
    ASSUME Inv, NEW p \in Pxy, UnRegister(p), UNCHANGED ctlOf,
           groups[GroupOf[p]] # NoObj => createFuncs[groups[GroupOf[p]]] \ {p} # {}
    PROVE  Inv'
<1> DEFINE g == groups[GroupOf[p]]
<1> USE Markers
<1>0. TypeOK /\ DirectRoutesExact /\ GroupRouteExact /\ Progress /\ GroupsKnown /\ OneControlInv
  BY DEF Inv, RoutesExact
<1>1. /\ pc[p] = "close" /\ GroupOf[p] # NoGroup /\ undone[p] < done[p]
      /\ undone' = [undone EXCEPT ![p] = undone[p] + 1]
      /\ UNCHANGED <<ctlOf, groups, created, route, groupKey, router, pc, found, done>>
      /\ IF g = NoObj THEN createFuncs' = createFuncs
         ELSE createFuncs' = [createFuncs EXCEPT ![g] = createFuncs[g] \ {p}]
  BY DEF UnRegister
<1>2. g \in Obj \cup {NoObj} /\ GroupOf[p] \in GroupName
  BY <1>0, <1>1, RoutesTyped DEF TypeOK
<1>3. /\ g \in Obj => createFuncs'[g] = createFuncs[g] \ {p} /\ createFuncs'[g] # {}
      /\ \A h \in Obj : h # g => createFuncs'[h] = createFuncs[h]
      /\ \A h \in Obj : createFuncs'[h] \subseteq createFuncs[h]
  BY <1>0, <1>1, <1>2 DEF TypeOK
<1>n. \A h \in Obj : createFuncs'[h] = {} <=> createFuncs[h] = {}
  BY <1>3
<1>4. /\ Progress' /\ undone' \in [Pxy -> Nat]
      /\ \A q \in Pxy : undone'[q] <= done'[q]
      /\ \A q \in Pxy : q # p => undone'[q] = undone[q]
  BY <1>1, UndoProgress
<1>5. TypeOK'
  <2>1. createFuncs' \in [Obj -> SUBSET Pxy]
    <3>1. CASE g = NoObj
      BY <1>0, <1>1, <3>1 DEF TypeOK
    <3>2. CASE g # NoObj
      <4>1. createFuncs' = [createFuncs EXCEPT ![g] = createFuncs[g] \ {p}] /\ g \in Obj
        BY <1>1, <1>2, <3>2
      <4> HIDE DEF g
      <4> QED BY <1>0, <4>1 DEF TypeOK
    <3> QED BY <3>1, <3>2
  <2> QED BY <1>0, <1>1, <1>4, <2>1 DEF TypeOK
<1> HIDE DEF g
<1>6. DirectRoutesExact'
  <2>1. \A q \in Pxy : GroupOf[q] = NoGroup => undone'[q] = undone[q] /\ done'[q] = done[q]
    BY <1>1, <1>4
  <2> QED BY <1>0, <1>1, <2>1 DEF DirectRoutesExact
<1>7. GroupRouteExact'
  BY <1>0, <1>1, <1>3, <1>n DEF GroupRouteExact
<1>8. GroupsKnown'
  <2>1. \A n \in GroupName : groups[n] # NoObj => groups[n] \in Obj
    BY <1>0 DEF TypeOK
  <2>2. \A n \in GroupName : groups[n] # NoObj =>
          /\ groups[n] <= created
          /\ createFuncs'[groups[n]] = {} => route[groups[n]] = NoRoute
    BY <1>0, <1>n, <2>1 DEF GroupsKnown
  <2> QED BY <1>0, <1>1, <1>n, <2>2 DEF GroupsKnown
<1>9. OneControlInv'
  <2> SUFFICES ASSUME GroupsOfOneControl, NEW x \in Pxy
               PROVE  /\ pc[x] = "join" => groups[GroupOf[x]] = found[x]
                      /\ \A h \in Obj : x \in createFuncs'[h] =>
                            /\ GroupOf[x] # NoGroup /\ groups[GroupOf[x]] = h
                            /\ undone'[x] < done[x]
    BY <1>1 DEF OneControlInv, GroupsOfOneControl
  <2>1. pc[x] = "join" => groups[GroupOf[x]] = found[x]
    BY <1>0 DEF OneControlInv
  <2>2. ASSUME NEW h \in Obj, x \in createFuncs'[h]
        PROVE  GroupOf[x] # NoGroup /\ groups[GroupOf[x]] = h /\ undone'[x] < done[x]
    <3>1. GroupOf[x] # NoGroup /\ groups[GroupOf[x]] = h /\ undone[x] < done[x]
      BY <1>0, <1>3, <2>2 DEF OneControlInv
    <3>2. x # p
      BY <1>3, <2>2, <3>1 DEF g
    <3> QED BY <1>4, <3>1, <3>2
  <2> QED BY <2>1, <2>2
<1> QED BY <1>4, <1>5, <1>6, <1>7, <1>8, <1>9 DEF Inv, RoutesExact

\* UnRegister that leaves the group without members: its route goes, and it is the
\* group's own; a group that never had members has none.
LEMMA UnRegisterLastInv ==
    ASSUME Inv, NEW p \in Pxy, UnRegister(p), UNCHANGED ctlOf,
           groups[GroupOf[p]] # NoObj, createFuncs[groups[GroupOf[p]]] \ {p} = {}
    PROVE  Inv'
<1> DEFINE g == groups[GroupOf[p]]
<1> USE Markers
<1>0. TypeOK /\ DirectRoutesExact /\ GroupRouteExact /\ Progress /\ GroupsKnown /\ OneControlInv
  BY DEF Inv, RoutesExact
<1>1. /\ pc[p] = "close" /\ GroupOf[p] # NoGroup /\ undone[p] < done[p]
      /\ undone' = [undone EXCEPT ![p] = undone[p] + 1]
      /\ UNCHANGED <<ctlOf, created, route, groupKey, pc, found, done>>
      /\ createFuncs' = [createFuncs EXCEPT ![g] = createFuncs[g] \ {p}]
      /\ groups' = [groups EXCEPT ![GroupOf[p]] = NoObj]
      /\ router' = IF route[g] = NoRoute THEN router ELSE [router EXCEPT ![route[g]] = Nobody]
  BY DEF UnRegister, DelRoute
<1>2. g \in Obj /\ GroupOf[p] \in GroupName
  BY <1>0, <1>1, RoutesTyped DEF TypeOK
<1>3. /\ createFuncs'[g] = {} /\ createFuncs[g] \subseteq {p}
      /\ \A h \in Obj : h # g => createFuncs'[h] = createFuncs[h]
      /\ groups'[GroupOf[p]] = NoObj
      /\ \A n \in GroupName : n # GroupOf[p] => groups'[n] = groups[n]
  BY <1>0, <1>1, <1>2 DEF TypeOK
<1>g. groups[GroupOf[p]] = g
  OBVIOUS
<1> HIDE DEF g
<1>r. \/ route[g] = NoRoute /\ router' = router /\ \A q \in Route : router[q] # ByGroup(g)
      \/ /\ route[g] \in Route /\ router[route[g]] = ByGroup(g)
         /\ router'[route[g]] = Nobody /\ DOMAIN router' = DOMAIN router
         /\ \A q \in Route : q # route[g] => router'[q] = router[q]
  <2>1. CASE createFuncs[g] = {}
    <3>1. route[g] = NoRoute
      BY <1>0, <1>2, <1>g, <2>1 DEF GroupsKnown
    <3> QED BY <1>0, <1>1, <1>2, <2>1, <3>1 DEF GroupRouteExact
  <2>2. CASE createFuncs[g] # {}
    <3>1. PICK q \in Route : router[q] = ByGroup(g)
      BY <1>0, <1>2, <2>2 DEF GroupRouteExact
    <3>2. route[g] = q
      BY <1>0, <1>2, <3>1 DEF GroupRouteExact
    <3> QED BY <1>0, <1>1, <3>1, <3>2 DEF TypeOK
  <2> QED BY <2>1, <2>2
<1>d. \A q \in Route, x \in Pxy : router'[q] = Direct(x) <=> router[q] = Direct(x)
  BY <1>r, Entries
<1>h. \A q \in Route, h \in Obj : router'[q] = ByGroup(h) <=> h # g /\ router[q] = ByGroup(h)
  <2> SUFFICES ASSUME NEW q \in Route, NEW h \in Obj
               PROVE  router'[q] = ByGroup(h) <=> h # g /\ router[q] = ByGroup(h)
    OBVIOUS
  <2>1. router[q] = ByGroup(g) => route[g] = q
    BY <1>0, <1>2 DEF GroupRouteExact
  <2> QED BY <1>r, <2>1, Entries
<1>4. /\ Progress' /\ undone' \in [Pxy -> Nat]
      /\ \A q \in Pxy : undone'[q] <= done'[q]
      /\ \A q \in Pxy : q # p => undone'[q] = undone[q]
  BY <1>1, <1>d, UndoProgress
<1>5. TypeOK'
  <2>1. createFuncs' \in [Obj -> SUBSET Pxy] /\ groups' \in [GroupName -> Obj \cup {NoObj}]
    BY <1>0, <1>1 DEF TypeOK
  <2>2. DOMAIN router' = Route
    BY <1>0, <1>r DEF TypeOK
  <2>3. \A q \in Route : router'[q] \in {Nobody} \cup {Direct(x) : x \in Pxy} \cup {ByGroup(h) : h \in Obj}
    <3>1. \A q \in Route : router'[q] = Nobody \/ router'[q] = router[q]
      BY <1>r
    <3> QED BY <1>0, <3>1 DEF TypeOK
  <2> QED BY <1>0, <1>1, <1>4, <2>1, <2>2, <2>3 DEF TypeOK
<1>6. DirectRoutesExact'
  <2>1. \A q \in Pxy : GroupOf[q] = NoGroup => undone'[q] = undone[q] /\ done'[q] = done[q]
    BY <1>1, <1>4
  <2> QED BY <1>0, <1>d, <2>1 DEF DirectRoutesExact
<1>7. GroupRouteExact'
  BY <1>0, <1>1, <1>3, <1>h DEF GroupRouteExact
<1>8. GroupsKnown'
  <2>1. \A n \in GroupName : groups'[n] # NoObj => groups'[n] = groups[n] /\ groups[n] # g /\ groups[n] \in Obj
    BY <1>0, <1>2, <1>3, <1>g DEF GroupsKnown, TypeOK
  <2>2. \A n \in GroupName : groups'[n] # NoObj =>
          /\ groups'[n] <= created
          /\ createFuncs'[groups'[n]] = {} => route[groups'[n]] = NoRoute
    BY <1>0, <1>3, <2>1 DEF GroupsKnown
  <2>3. \A m, n \in GroupName : groups'[m] # NoObj /\ groups'[m] = groups'[n] => m = n
    BY <1>0, <2>1 DEF GroupsKnown
  <2>4. \A h \in Obj : h > created => createFuncs'[h] = {} /\ route[h] = NoRoute
    BY <1>0, <1>3 DEF GroupsKnown
  <2> QED BY <1>1, <2>2, <2>3, <2>4 DEF GroupsKnown
<1>9. OneControlInv'
  <2> SUFFICES ASSUME GroupsOfOneControl, NEW x \in Pxy
               PROVE  /\ pc[x] = "join" => groups'[GroupOf[x]] = found[x]
                      /\ \A h \in Obj : x \in createFuncs'[h] =>
                            /\ GroupOf[x] # NoGroup /\ groups'[GroupOf[x]] = h
                            /\ undone'[x] < done[x]
    BY <1>1 DEF OneControlInv, GroupsOfOneControl
  <2>1. pc[x] = "join" => groups'[GroupOf[x]] = found[x]
    <3> SUFFICES ASSUME pc[x] = "join" PROVE groups'[GroupOf[x]] = found[x] OBVIOUS
    <3>1. groups[GroupOf[x]] = found[x] /\ GroupOf[x] # NoGroup /\ GroupOf[x] \in GroupName
      BY <1>0, RoutesTyped DEF OneControlInv, Progress
    <3>2. GroupOf[x] # GroupOf[p]
      <4> SUFFICES ASSUME GroupOf[x] = GroupOf[p] PROVE FALSE OBVIOUS
      <4>1. ctlOf[x] = ctlOf[p] /\ x # p
        BY <1>1 DEF GroupsOfOneControl
      <4> QED BY <1>0, <1>1, <4>1 DEF Progress, Busy
    <3> QED BY <1>3, <3>1, <3>2
  <2>2. ASSUME NEW h \in Obj, x \in createFuncs'[h]
        PROVE  GroupOf[x] # NoGroup /\ groups'[GroupOf[x]] = h /\ undone'[x] < done[x]
    <3>1. h # g /\ x \in createFuncs[h]
      BY <1>3, <2>2
    <3>2. /\ GroupOf[x] # NoGroup /\ groups[GroupOf[x]] = h /\ undone[x] < done[x]
          /\ GroupOf[x] \in GroupName
      BY <1>0, <3>1, RoutesTyped DEF OneControlInv
    <3>3. GroupOf[x] # GroupOf[p] /\ x # p
      BY <1>g, <3>1, <3>2
    <3> QED BY <1>3, <1>4, <3>2, <3>3
  <2> QED BY <2>1, <2>2
<1> QED BY <1>4, <1>5, <1>6, <1>7, <1>8, <1>9 DEF Inv, RoutesExact

---------------------------------------------------------------------------
(* The theorems *)

LEMMA StepInv == Inv /\ [Next]_vars => Inv'
<1> SUFFICES ASSUME Inv, [Next]_vars PROVE Inv' OBVIOUS
<1>1. CASE UNCHANGED vars
  <2>0. TypeOK /\ DirectRoutesExact /\ GroupRouteExact /\ Progress /\ GroupsKnown /\ OneControlInv
    BY DEF Inv, RoutesExact
  <2> USE <1>1 DEF vars, groupVars
  <2>1. TypeOK'
    BY <2>0 DEF TypeOK
  <2>2. DirectRoutesExact' /\ GroupRouteExact'
    BY <2>0 DEF DirectRoutesExact, GroupRouteExact
  <2>3. Progress' /\ GroupsKnown'
    BY <2>0 DEF Progress, Busy, GroupsKnown
  <2>4. OneControlInv'
    BY <2>0 DEF OneControlInv, GroupsOfOneControl
  <2> QED BY <2>1, <2>2, <2>3, <2>4 DEF Inv, RoutesExact
<1>2. ASSUME NEW p \in Pxy, StartRun(p) \/ RunEnds(p) \/ StartClose(p), UNCHANGED ctlOf
      PROVE  Inv'
  <2>1. PICK l \in {"run", "up", "close"} : pc' = [pc EXCEPT ![p] = l]
    BY <1>2 DEF StartRun, RunEnds, StartClose, Goto
  <2>2. /\ Busy(p) \/ ControlFree(p)
        /\ UNCHANGED <<ctlOf, groupVars, router, found, done, undone>>
    BY <1>2 DEF StartRun, RunEnds, StartClose, Busy
  <2> QED BY <2>1, <2>2, PcInv
<1>3. ASSUME NEW p \in Pxy, RegisterDirect(p), UNCHANGED ctlOf PROVE Inv'
  <2>1. CASE router[NextRoute(p)] = Nobody
    BY <1>3, <2>1, RegisterDirectInv
  <2>2. CASE router[NextRoute(p)] # Nobody
    <3>1. pc' = [pc EXCEPT ![p] = "close"] /\ Busy(p)
      BY <1>3, <2>2 DEF RegisterDirect, Goto, Busy
    <3>2. UNCHANGED <<ctlOf, groupVars, router, found, done, undone>>
      BY <1>3, <2>2 DEF RegisterDirect, AddRoute
    <3> QED BY <3>1, <3>2, PcInv
  <2> QED BY <2>1, <2>2
<1>4. CASE Next
  BY <1>2, <1>3, <1>4, CloseDirectInv, CloseEndsInv, FindGroupInv, RegisterInv, UnRegisterSomeInv,
     UnRegisterLastInv DEF Next
<1> QED BY <1>1, <1>4

LEMMA InvAlways == Spec => []Inv
BY InitInv, StepInv, PTL DEF Spec

\* Routers.Del takes a route away without asking whose it is, yet whatever Run, Close,
\* Register and UnRegister of racing proxies do, the router holds exactly the routes
\* that proxies and groups have registered and not undone.
THEOREM RoutesCorrect == Spec => []RoutesExact
<1>1. Inv => RoutesExact
  BY DEF Inv
<1> QED BY <1>1, InvAlways, PTL

\* With groups of one control, the route of a group leads to a proxy that is not idle,
\* and no route is left behind when all proxies are.
THEOREM RoutesKeptCorrect == Spec => []RoutesKept
BY InvServes, InvAlways, PTL
=============================================================================
