------------------------ MODULE ListenerGroup_proofs ------------------------
(***************************************************************************)
(* Proofs about ListenerGroup, for every set of proxies, groups, routes and   *)
(* controls and every number of group objects.                               *)
(*                                                                          *)
(* Placed says where a proxy stands with the group object it has found: it    *)
(* is what Listen and CloseListener rely on after the controller's lock is    *)
(* dropped.  OneControlInv adds what holds when one control has all members.  *)
(***************************************************************************)
EXTENDS ListenerGroup, TLAPS

\* A proxy that joins or listens has found a group object that exists, and listens
\* in that one and no other.
Placed ==
    /\ \A p \in Pxy : pc[p] # "idle" => found[p] \in Obj /\ found[p] <= created
    /\ \A n \in GroupName : groups[n] # NoObj => groups[n] <= created
    /\ \A p \in Pxy : pc[p] = "up" => p \in lns[found[p]]
    /\ \A g \in Obj, p \in Pxy : p \in lns[g] => pc[p] = "up" /\ found[p] = g

\* The handlers of one control run one at a time, so the group that Listen found is
\* still the controller's, is open, and belongs to one name.
OneControlInv ==
    OneControl =>
        /\ ~crashed
        /\ \A p, q \in Pxy : pc[p] = "join" /\ pc[q] = "join" => p = q
        /\ \A p \in Pxy : pc[p] # "idle" => groups[GroupOf[p]] = found[p]
        /\ \A n \in GroupName : groups[n] # NoObj => ~chClosed[groups[n]]
        /\ \A m, n \in GroupName : groups[m] # NoObj /\ groups[m] = groups[n] => m = n
        /\ \A g \in Obj : g > created => ~chClosed[g]

Inv == ListenersExact /\ Placed /\ OneControlInv

---------------------------------------------------------------------------
\* Markers are no group objects, and a proxy's route and kind are well defined.
LEMMA Markers == NoObj \notin Obj /\ \A g \in Obj : g \in Int
BY GroupAssumption DEF NoObj, Obj

LEMMA SetupKnown ==
    ASSUME setup \in Setups
    PROVE  \A p \in Pxy : RouteOf(p) \in Route /\ PxyKind(p) \in {"tcp", "https", "tcpmux"}
<1>1. setup \in Setup /\ \A p \in Pxy : GroupOf[p] \in GroupName
  BY GroupAssumption
<1>2. setup.routeOf \in [Pxy -> Route] /\ setup.kindOf \in [GroupName -> {"tcp", "https", "tcpmux"}]
  BY <1>1 DEF Setup
<1> QED BY <1>1, <1>2 DEF RouteOf, PxyKind

\* Whatever the kind, a member that fits wants the route of the group.
LEMMA FitsRoute ==
    ASSUME setup \in Setups, NEW g \in Obj, NEW p \in Pxy, Fits(g, p)
    PROVE  params[g].route = RouteOf(p)
BY SetupKnown DEF Fits, FitsTCP, FitsHTTPS, FitsTCPMux

\* A port or a domain belongs to one kind of group.
LEMMA RouteKind ==
    ASSUME setup \in Setups, NEW p \in Pxy, NEW q \in Pxy, RouteOf(p) = RouteOf(q)
    PROVE  PxyKind(p) = PxyKind(q)
BY GroupAssumption DEF RouteOf, PxyKind

\* Whether a member fits depends on the parameters of its group only.
LEMMA FitsFrame ==
    ASSUME NEW g \in Obj, NEW p \in Pxy, setup' = setup, params'[g] = params[g], Fits(g, p)
    PROVE  Fits(g, p)'
BY DEF RouteOf, PxyKind, Fits, FitsTCP, FitsHTTPS, FitsTCPMux

LEMMA InitInv == Init => Inv
<1> SUFFICES ASSUME Init PROVE Inv OBVIOUS
<1> USE Markers DEF Init
<1>1. TypeOK
  <2>1. setup \in Setups /\ created \in 0 .. MaxGroups /\ DOMAIN params = Obj
    BY GroupAssumption
  <2>2. /\ chClosed \in [Obj -> BOOLEAN] /\ worker \in [Obj -> BOOLEAN] /\ crashed \in BOOLEAN
        /\ lns \in [Obj -> SUBSET Pxy]
    OBVIOUS
  <2> QED BY <2>1, <2>2 DEF TypeOK
<1>2. MembersFit /\ RealListenerExact /\ PortsExact
  BY DEF MembersFit, RealListenerExact, PortsExact
<1>3. Placed
  BY DEF Placed
<1>4. OneControlInv
  BY DEF OneControlInv
<1> QED BY <1>1, <1>2, <1>3, <1>4 DEF Inv, ListenersExact

---------------------------------------------------------------------------
(* Listen *)

\* A step that leaves members, parameters, listeners and ports alone.
LEMMA ListenersFrame ==
    ASSUME MembersFit, RealListenerExact, PortsExact,
           UNCHANGED <<setup, lns, params, real, booked, crashed>>
    PROVE  MembersFit' /\ RealListenerExact' /\ PortsExact'
<1>2. MembersFit'
  BY DEF MembersFit, RouteOf, PxyKind, Fits, FitsTCP, FitsHTTPS, FitsTCPMux
<1>3. RealListenerExact'
  BY DEF RealListenerExact
<1>4. PortsExact'
  BY DEF PortsExact, PxyKind
<1> QED BY <1>2, <1>3, <1>4

LEMMA FindGroupInv ==
    ASSUME Inv, NEW p \in Pxy, FindGroup(p), UNCHANGED setup
    PROVE  Inv'
<1> USE GroupAssumption, Markers
<1>0. TypeOK /\ MembersFit /\ RealListenerExact /\ PortsExact /\ Placed /\ OneControlInv
  BY DEF Inv, ListenersExact
<1>1. /\ GroupOf[p] \in GroupName /\ pc[p] = "idle" /\ pc' = [pc EXCEPT ![p] = "join"]
      /\ UNCHANGED <<setup, lns, params, chClosed, real, booked, worker, offered, got, leaving,
                     crashed>>
      /\ ~crashed /\ ControlFree(p)
  BY DEF FindGroup, connVars, Goto
<1>2. PICK g \in Obj : /\ found' = [found EXCEPT ![p] = g]
                       /\ \/ /\ g = groups[GroupOf[p]] /\ groups' = groups /\ created' = created
                          \/ /\ groups[GroupOf[p]] = NoObj
                             /\ g = created + 1 /\ created' = g /\ created < MaxGroups
                             /\ groups' = [groups EXCEPT ![GroupOf[p]] = g]
  <2>1. CASE groups[GroupOf[p]] # NoObj
    BY <1>0, <1>1, <2>1 DEF FindGroup, TypeOK
  <2>2. CASE groups[GroupOf[p]] = NoObj
    BY <1>0, <1>1, <2>2 DEF FindGroup, TypeOK, Obj
  <2> QED BY <2>1, <2>2
<1>3. TypeOK'
  <2>1. created' \in 0 .. MaxGroups
    BY <1>0, <1>2 DEF TypeOK
  <2>2. groups' \in [GroupName -> Obj \cup {NoObj}] /\ found' \in [Pxy -> Obj \cup {NoObj}]
    BY <1>0, <1>1, <1>2 DEF TypeOK
  <2>3. pc' \in [Pxy -> {"idle", "join", "up"}]
    BY <1>0, <1>1 DEF TypeOK
  <2> QED BY <1>0, <1>1, <2>1, <2>2, <2>3 DEF TypeOK
<1>4. MembersFit' /\ RealListenerExact' /\ PortsExact'
  BY <1>0, <1>1, ListenersFrame
<1>5. Placed'
  <2>1. \A n \in GroupName : groups'[n] # NoObj => groups'[n] <= created'
    BY <1>0, <1>1, <1>2 DEF Placed, TypeOK, Obj
  <2>2. \A q \in Pxy : pc'[q] # "idle" => found'[q] \in Obj /\ found'[q] <= created'
    BY <1>0, <1>1, <1>2 DEF Placed, TypeOK, Obj
  <2>3. \A q \in Pxy : pc'[q] = "up" => q \in lns'[found'[q]]
    BY <1>0, <1>1, <1>2 DEF Placed, TypeOK
  <2>4. \A h \in Obj, q \in Pxy : q \in lns'[h] => pc'[q] = "up" /\ found'[q] = h
    BY <1>0, <1>1, <1>2 DEF Placed, TypeOK
  <2> QED BY <2>1, <2>2, <2>3, <2>4 DEF Placed
<1>6. OneControlInv'
  <2> SUFFICES ASSUME OneControl
               PROVE  /\ ~crashed'
                      /\ \A q, r \in Pxy : pc'[q] = "join" /\ pc'[r] = "join" => q = r
                      /\ \A q \in Pxy : pc'[q] # "idle" => groups'[GroupOf[q]] = found'[q]
                      /\ \A n \in GroupName : groups'[n] # NoObj => ~chClosed[groups'[n]]
                      /\ \A m, n \in GroupName : groups'[m] # NoObj /\ groups'[m] = groups'[n] => m = n
                      /\ \A h \in Obj : h > created' => ~chClosed[h]
    BY <1>1 DEF OneControlInv, OneControl
  <2>0. \A q \in Pxy : pc[q] # "join"
    BY <1>1 DEF ControlFree, OneControl
  <2>1. \A q, r \in Pxy : pc'[q] = "join" /\ pc'[r] = "join" => q = r
    BY <1>0, <1>1, <2>0 DEF TypeOK
  <2>2. \A q \in Pxy : pc'[q] # "idle" => groups'[GroupOf[q]] = found'[q]
    <3> SUFFICES ASSUME NEW q \in Pxy, pc'[q] # "idle" PROVE groups'[GroupOf[q]] = found'[q] OBVIOUS
    <3>1. CASE q = p
      BY <1>0, <1>1, <1>2, <3>1 DEF TypeOK
    <3>2. CASE q # p
      <4>1. groups[GroupOf[q]] = found[q] /\ found[q] \in Obj /\ found'[q] = found[q]
        BY <1>0, <1>1, <1>2, <3>2 DEF TypeOK, OneControlInv, Placed
      <4> QED BY <1>0, <1>1, <1>2, <4>1 DEF TypeOK
    <3> QED BY <3>1, <3>2
  <2>3. \A n \in GroupName : groups'[n] # NoObj => ~chClosed[groups'[n]]
    BY <1>0, <1>1, <1>2 DEF TypeOK, OneControlInv
  <2>4. \A m, n \in GroupName : groups'[m] # NoObj /\ groups'[m] = groups'[n] => m = n
    BY <1>0, <1>1, <1>2 DEF TypeOK, OneControlInv, Placed
  <2>5. \A h \in Obj : h > created' => ~chClosed[h]
    BY <1>0, <1>1, <1>2 DEF TypeOK, OneControlInv
  <2> QED BY <1>1, <2>1, <2>2, <2>3, <2>4, <2>5
<1> QED BY <1>3, <1>4, <1>5, <1>6 DEF Inv, ListenersExact

\* The first member: it brings the route, which no other group has.
LEMMA ListenFirstInv ==
    ASSUME Inv, NEW p \in Pxy, ListenFirst(p), UNCHANGED setup
    PROVE  Inv'
<1> DEFINE g == found[p]
           r == RouteOf(p)
<1> USE Markers
<1>0. TypeOK /\ MembersFit /\ RealListenerExact /\ PortsExact /\ Placed /\ OneControlInv
  BY DEF Inv, ListenersExact
<1>1. /\ pc[p] = "join" /\ pc' = [pc EXCEPT ![p] = "up"] /\ ~crashed
      /\ UNCHANGED <<setup, groups, created, chClosed, offered, got, leaving, found, crashed>>
      /\ lns[g] = {} /\ real[r] = NoObj /\ r \notin booked
      /\ real' = [real EXCEPT ![r] = g]
      /\ booked' = IF PxyKind(p) = "tcp" THEN booked \cup {r} ELSE booked
      /\ params' = [params EXCEPT ![g] = [route |-> r, cred |-> CredOf[p], key |-> KeyOf[p]]]
      /\ lns' = [lns EXCEPT ![g] = {p}]
      /\ worker' = [worker EXCEPT ![g] = TRUE]
  BY DEF ListenFirst, connVars, Goto, CanOpen
<1>2. g \in Obj /\ r \in Route
  BY <1>0, <1>1, SetupKnown DEF Placed, TypeOK
<1>a. \A q \in Pxy : RouteOf(q)' = RouteOf(q) /\ PxyKind(q)' = PxyKind(q)
  BY <1>1 DEF RouteOf, PxyKind
<1>b. params'[g].route = r /\ params'[g].cred = CredOf[p] /\ params'[g].key = KeyOf[p]
      /\ \A h \in Obj : h # g => params'[h] = params[h]
  BY <1>0, <1>1, <1>2 DEF TypeOK
<1>c. lns'[g] = {p} /\ \A h \in Obj : h # g => lns'[h] = lns[h]
  BY <1>0, <1>1, <1>2 DEF TypeOK
<1>d. real'[r] = g /\ \A q \in Route : q # r => real'[q] = real[q]
  BY <1>0, <1>1, <1>2 DEF TypeOK
<1> HIDE DEF r
<1>3. TypeOK'
  BY <1>0, <1>1, <1>2 DEF TypeOK
<1> HIDE DEF g
<1>4. MembersFit'
  <2> SUFFICES ASSUME NEW h \in Obj, NEW q \in lns'[h] PROVE Fits(h, q)'
    BY DEF MembersFit
  <2>0. q \in Pxy
    BY <1>3 DEF TypeOK
  <2>1. CASE h = g
    BY <1>0, <1>a, <1>b, <1>c, <2>1, SetupKnown DEF Fits, FitsTCP, FitsHTTPS, FitsTCPMux, TypeOK, r
  <2>2. CASE h # g
    <3>1. Fits(h, q)
      BY <1>0, <1>c, <2>2 DEF MembersFit
    <3> QED BY <1>1, <1>b, <2>0, <2>2, <3>1, FitsFrame
  <2> QED BY <2>1, <2>2
<1>5. RealListenerExact'
  BY <1>0, <1>1, <1>2, <1>b, <1>c, <1>d DEF RealListenerExact
<1>6. PortsExact'
  <2> SUFFICES ASSUME ~setup.othersBind
               PROVE  booked' = {q \in Route : \E h \in Obj : \E x \in lns'[h] :
                                    PxyKind(x) = "tcp" /\ params'[h].route = q}
    BY <1>1 DEF PortsExact, PxyKind
  <2>1. booked = {q \in Route : \E h \in Obj : \E x \in lns[h] :
                    PxyKind(x) = "tcp" /\ params[h].route = q}
    BY <1>0, <1>1 DEF PortsExact
  <2> QED BY <1>1, <1>2, <1>b, <1>c, <2>1
<1>7. Placed'
  BY <1>0, <1>1, <1>2, <1>c DEF Placed, TypeOK, g
<1>8. OneControlInv'
  BY <1>0, <1>1 DEF OneControlInv, OneControl, TypeOK
<1> QED BY <1>3, <1>4, <1>5, <1>6, <1>7, <1>8 DEF Inv, ListenersExact

LEMMA ListenNextInv ==
    ASSUME Inv, NEW p \in Pxy, ListenNext(p), UNCHANGED setup
    PROVE  Inv'
<1> DEFINE g == found[p]
<1> USE Markers
<1>0. TypeOK /\ MembersFit /\ RealListenerExact /\ PortsExact /\ Placed /\ OneControlInv
  BY DEF Inv, ListenersExact
<1>1. /\ pc[p] = "join" /\ pc' = [pc EXCEPT ![p] = "up"] /\ ~crashed
      /\ UNCHANGED <<setup, groups, created, chClosed, params, real, booked, worker, offered, got, leaving,
                     found, crashed>>
      /\ lns[g] # {} /\ Fits(g, p)
      /\ lns' = [lns EXCEPT ![g] = lns[g] \cup {p}]
  BY DEF ListenNext, connVars, Goto
<1>2. g \in Obj
  BY <1>0, <1>1, SetupKnown DEF Placed, TypeOK
<1>c. lns'[g] = lns[g] \cup {p} /\ \A h \in Obj : h # g => lns'[h] = lns[h]
  BY <1>0, <1>1, <1>2 DEF TypeOK
<1>3. TypeOK'
  BY <1>0, <1>1, <1>2 DEF TypeOK
<1> HIDE DEF g
<1>4. MembersFit'
  <2> SUFFICES ASSUME NEW h \in Obj, NEW q \in lns'[h] PROVE Fits(h, q)'
    BY DEF MembersFit
  <2>1. Fits(h, q)
    BY <1>0, <1>1, <1>c DEF MembersFit
  <2> QED BY <1>1, <2>1 DEF Fits, FitsTCP, FitsHTTPS, FitsTCPMux, RouteOf, PxyKind
<1>5. RealListenerExact'
  BY <1>0, <1>1, <1>2, <1>c DEF RealListenerExact
<1>6. PortsExact'
  <2> SUFFICES ASSUME ~setup.othersBind
               PROVE  booked = {q \in Route : \E h \in Obj : \E x \in lns'[h] :
                                    PxyKind(x) = "tcp" /\ params[h].route = q}
    BY <1>1 DEF PortsExact, PxyKind
  <2>1. booked = {q \in Route : \E h \in Obj : \E x \in lns[h] :
                    PxyKind(x) = "tcp" /\ params[h].route = q}
    BY <1>0, <1>1 DEF PortsExact
  <2>2. PICK x \in lns[g] : x \in Pxy
    BY <1>0, <1>1, <1>2 DEF TypeOK
  <2>3. params[g].route = RouteOf(p) /\ params[g].route = RouteOf(x)
    BY <1>0, <1>1, <1>2, <2>2, FitsRoute DEF TypeOK, MembersFit
  <2>4. PxyKind(x) = PxyKind(p)
    BY <1>0, <2>2, <2>3, RouteKind DEF TypeOK
  <2>5. \A q \in Route, h \in Obj : (\E y \in lns'[h] : PxyKind(y) = "tcp" /\ params[h].route = q)
                       <=> (\E y \in lns[h] : PxyKind(y) = "tcp" /\ params[h].route = q)
    BY <1>c, <2>2, <2>4
  <2> QED BY <2>1, <2>5
<1>7. Placed'
  BY <1>0, <1>1, <1>2, <1>c DEF Placed, TypeOK, g
<1>8. OneControlInv'
  BY <1>0, <1>1 DEF OneControlInv, OneControl, TypeOK
<1> QED BY <1>3, <1>4, <1>5, <1>6, <1>7, <1>8 DEF Inv, ListenersExact

\* A refused Listen; when it is net.Listen that failed, the port stays booked, which
\* only settings with other programs have.
LEMMA ListenRefusedInv ==
    ASSUME Inv, NEW p \in Pxy, ListenRefused(p) \/ ListenFirstFails(p), UNCHANGED setup
    PROVE  Inv'
<1> USE Markers
<1>0. TypeOK /\ MembersFit /\ RealListenerExact /\ PortsExact /\ Placed /\ OneControlInv
  BY DEF Inv, ListenersExact
<1>1. /\ pc[p] = "join" /\ pc' = [pc EXCEPT ![p] = "idle"]
      /\ UNCHANGED <<setup, groups, created, lns, params, chClosed, real, worker, offered, got, leaving,
                     found, crashed>>
      /\ booked' = booked \/ (setup.othersBind /\ booked' = booked \cup {RouteOf(p)})
  BY DEF ListenRefused, ListenFirstFails, groupVars, connVars, Goto
<1>2. TypeOK'
  BY <1>0, <1>1, SetupKnown DEF TypeOK
<1>3. MembersFit'
  <2>1. \A g \in Obj : lns'[g] = lns[g] /\ lns[g] \subseteq Pxy /\ params'[g] = params[g]
    BY <1>0, <1>1 DEF TypeOK
  <2> QED BY <1>0, <1>1, <2>1, FitsFrame DEF MembersFit
<1>4. RealListenerExact'
  BY <1>0, <1>1 DEF RealListenerExact
<1>5. PortsExact'
  BY <1>0, <1>1 DEF PortsExact, PxyKind
<1>6. Placed'
  BY <1>0, <1>1 DEF Placed, TypeOK
<1>7. OneControlInv'
  BY <1>0, <1>1 DEF OneControlInv, OneControl, TypeOK
<1> QED BY <1>2, <1>3, <1>4, <1>5, <1>6, <1>7 DEF Inv, ListenersExact

---------------------------------------------------------------------------
(* Close *)

\* A member leaves and others stay.
LEMMA LeaveInv ==
    ASSUME Inv, NEW p \in Pxy, CloseListener(p), UNCHANGED setup, lns[found[p]] # {p}
    PROVE  Inv'
<1> DEFINE g == found[p]
<1> USE Markers
<1>0. TypeOK /\ MembersFit /\ RealListenerExact /\ PortsExact /\ Placed /\ OneControlInv
  BY DEF Inv, ListenersExact
<1>1. /\ pc[p] = "up" /\ pc' = [pc EXCEPT ![p] = "idle"] /\ ~crashed
      /\ UNCHANGED <<setup, groups, created, chClosed, params, real, booked, worker, offered, got,
                     found, crashed>>
      /\ lns' = [lns EXCEPT ![g] = lns[g] \ {p}]
      /\ leaving' = [leaving EXCEPT ![g] = leaving[g] \cup {p}]
  BY DEF CloseListener, Leaves, Goto
<1>2. g \in Obj /\ p \in lns[g]
  BY <1>0, <1>1 DEF Placed
<1>c. lns'[g] = lns[g] \ {p} /\ \A h \in Obj : h # g => lns'[h] = lns[h]
  BY <1>0, <1>1, <1>2 DEF TypeOK
<1>3. TypeOK'
  BY <1>0, <1>1, <1>2 DEF TypeOK
<1>d. PICK x \in lns[g] : x # p /\ x \in Pxy
  BY <1>0, <1>2 DEF TypeOK
<1> HIDE DEF g
<1>4. MembersFit'
  <2> SUFFICES ASSUME NEW h \in Obj, NEW q \in lns'[h] PROVE Fits(h, q)'
    BY DEF MembersFit
  <2>1. q \in Pxy /\ Fits(h, q)
    BY <1>0, <1>c, <1>3 DEF MembersFit, TypeOK
  <2> QED BY <1>1, <2>1, FitsFrame
<1>5. RealListenerExact'
  BY <1>0, <1>1, <1>2, <1>c, <1>d DEF RealListenerExact
<1>6. PortsExact'
  <2> SUFFICES ASSUME ~setup.othersBind
               PROVE  booked = {q \in Route : \E h \in Obj : \E y \in lns'[h] :
                                    PxyKind(y) = "tcp" /\ params[h].route = q}
    BY <1>1 DEF PortsExact, PxyKind
  <2>1. booked = {q \in Route : \E h \in Obj : \E y \in lns[h] :
                    PxyKind(y) = "tcp" /\ params[h].route = q}
    BY <1>0, <1>1 DEF PortsExact
  <2>3. params[g].route = RouteOf(p) /\ params[g].route = RouteOf(x)
    BY <1>0, <1>2, <1>d, FitsRoute DEF TypeOK, MembersFit
  <2>4. PxyKind(x) = PxyKind(p)
    BY <1>0, <1>d, <2>3, RouteKind DEF TypeOK
  <2>5. \A q \in Route, h \in Obj : (\E y \in lns'[h] : PxyKind(y) = "tcp" /\ params[h].route = q)
                       <=> (\E y \in lns[h] : PxyKind(y) = "tcp" /\ params[h].route = q)
    BY <1>c, <1>d, <2>4
  <2> QED BY <2>1, <2>5
<1>7. Placed'
  BY <1>0, <1>1, <1>2, <1>c DEF Placed, TypeOK, g
<1>8. OneControlInv'
  BY <1>0, <1>1 DEF OneControlInv, OneControl, TypeOK
<1> QED BY <1>3, <1>4, <1>5, <1>6, <1>7, <1>8 DEF Inv, ListenersExact

\* The last member closes what the first one opened, or finds acceptCh closed already.
LEMMA LastLeavesInv ==
    ASSUME Inv, NEW p \in Pxy, CloseListener(p), UNCHANGED setup, lns[found[p]] = {p}
    PROVE  Inv'
<1> DEFINE g == found[p]
           r == params[g].route
<1> USE Markers
<1>0. TypeOK /\ MembersFit /\ RealListenerExact /\ PortsExact /\ Placed /\ OneControlInv
  BY DEF Inv, ListenersExact
<1>1. /\ pc[p] = "up" /\ pc' = [pc EXCEPT ![p] = "idle"] /\ ~crashed /\ ControlFree(p)
      /\ UNCHANGED <<setup, created, params, worker, offered, got, found>>
      /\ lns' = [lns EXCEPT ![g] = lns[g] \ {p}]
      /\ leaving' = [leaving EXCEPT ![g] = {}]
  BY DEF CloseListener, Leaves, Goto
<1>2. g \in Obj /\ p \in lns[g]
  BY <1>0, <1>1 DEF Placed
<1>c. lns'[g] = {} /\ \A h \in Obj : h # g => lns'[h] = lns[h]
  BY <1>0, <1>1, <1>2 DEF TypeOK
<1>r. r \in Route /\ real[r] = g
  <2>1. r = RouteOf(p)
    BY <1>0, <1>2, FitsRoute DEF TypeOK, MembersFit
  <2>2. r \in Route
    BY <1>0, <2>1, SetupKnown DEF TypeOK
  <2>3. lns[g] # {} /\ params[g].route = r
    BY <1>2
  <2>4. real[r] = g
    <3> HIDE DEF g, r
    <3> QED BY <1>0, <1>1, <1>2, <2>2, <2>3 DEF RealListenerExact
  <2> QED BY <2>2, <2>4
<1>d. \/ /\ chClosed[g] /\ crashed' = TRUE /\ UNCHANGED <<chClosed, groups, real, booked>>
      \/ /\ ~chClosed[g] /\ chClosed' = [chClosed EXCEPT ![g] = TRUE]
         /\ groups' = [groups EXCEPT ![GroupOf[p]] = NoObj]
         /\ real' = [real EXCEPT ![r] = NoObj]
         /\ booked' = booked \ {r} /\ crashed' = crashed
  BY DEF CloseListener
<1>3. TypeOK'
  <2>1. /\ lns' \in [Obj -> SUBSET Pxy] /\ leaving' \in [Obj -> SUBSET Pxy]
        /\ pc' \in [Pxy -> {"idle", "join", "up"}]
    BY <1>0, <1>1, <1>2 DEF TypeOK
  <2>2. /\ groups' \in [GroupName -> Obj \cup {NoObj}] /\ real' \in [Route -> Obj \cup {NoObj}]
        /\ booked' \subseteq Route
    BY <1>0, <1>d DEF TypeOK
  <2>3. chClosed' \in [Obj -> BOOLEAN] /\ crashed' \in BOOLEAN
    BY <1>0, <1>d DEF TypeOK
  <2> QED BY <1>0, <1>1, <2>1, <2>2, <2>3 DEF TypeOK
<1> HIDE DEF g, r
<1>4. MembersFit'
  <2> SUFFICES ASSUME NEW h \in Obj, NEW q \in lns'[h] PROVE Fits(h, q)'
    BY DEF MembersFit
  <2>1. q \in Pxy /\ Fits(h, q)
    BY <1>0, <1>c, <1>3 DEF MembersFit, TypeOK
  <2> QED BY <1>1, <2>1, FitsFrame
<1>5. RealListenerExact'
  <2> SUFFICES ASSUME ~crashed', NEW h \in Obj, NEW q \in Route
               PROVE  real'[q] = h <=> lns'[h] # {} /\ params[h].route = q
    BY <1>1 DEF RealListenerExact
  <2>1. real'[r] = NoObj /\ \A t \in Route : t # r => real'[t] = real[t]
    BY <1>0, <1>d, <1>r DEF TypeOK
  <2>2. \A k \in Obj, t \in Route : real[t] = k <=> lns[k] # {} /\ params[k].route = t
    BY <1>0, <1>1 DEF RealListenerExact
  <2>3. CASE h = g
    BY <1>2, <1>c, <1>r, <2>1, <2>2, <2>3 DEF r
  <2>4. CASE h # g
    BY <1>2, <1>c, <1>r, <2>1, <2>2, <2>4
  <2> QED BY <2>3, <2>4
<1>6. PortsExact'
  <2> SUFFICES ASSUME ~setup.othersBind, ~crashed'
               PROVE  booked' = {q \in Route : \E h \in Obj : \E y \in lns'[h] :
                                    PxyKind(y) = "tcp" /\ params[h].route = q}
    BY <1>1 DEF PortsExact, PxyKind
  <2>1. booked = {q \in Route : \E h \in Obj : \E y \in lns[h] :
                    PxyKind(y) = "tcp" /\ params[h].route = q}
    BY <1>0, <1>1 DEF PortsExact
  <2>2. \A h \in Obj : h # g /\ lns[h] # {} => params[h].route # r
    BY <1>0, <1>1, <1>2, <1>r DEF RealListenerExact
  <2>3. booked' = booked \ {r}
    BY <1>d
  <2>4. params[g].route = r
    BY DEF r
  <2>5. \A q \in Route, h \in Obj :
          (\E y \in lns'[h] : PxyKind(y) = "tcp" /\ params[h].route = q)
            <=> q # r /\ (\E y \in lns[h] : PxyKind(y) = "tcp" /\ params[h].route = q)
    BY <1>c, <2>2, <2>4
  <2> QED BY <2>1, <2>3, <2>5
<1>7. Placed'
  <2>1. \A n \in GroupName : groups'[n] # NoObj => groups'[n] <= created'
    BY <1>0, <1>1, <1>d DEF Placed, TypeOK
  <2>2. \A q \in Pxy : pc'[q] # "idle" => q # p /\ pc'[q] = pc[q]
    BY <1>0, <1>1 DEF TypeOK
  <2>3. \A q \in Pxy : pc'[q] = "up" => q \in lns'[found'[q]]
    BY <1>0, <1>1, <1>2, <1>c, <2>2 DEF Placed, TypeOK, g
  <2>4. \A h \in Obj, q \in Pxy : q \in lns'[h] => pc'[q] = "up" /\ found'[q] = h
    BY <1>0, <1>1, <1>2, <1>c DEF Placed, TypeOK, g
  <2>5. \A q \in Pxy : pc'[q] # "idle" => found'[q] \in Obj /\ found'[q] <= created'
    BY <1>0, <1>1, <2>2 DEF Placed
  <2> QED BY <2>1, <2>3, <2>4, <2>5 DEF Placed
<1>8. OneControlInv'
  <2> SUFFICES ASSUME OneControl
               PROVE  /\ ~crashed'
                      /\ \A x, y \in Pxy : pc'[x] = "join" /\ pc'[y] = "join" => x = y
                      /\ \A x \in Pxy : pc'[x] # "idle" => groups'[GroupOf[x]] = found[x]
                      /\ \A n \in GroupName : groups'[n] # NoObj => ~chClosed'[groups'[n]]
                      /\ \A m, n \in GroupName : groups'[m] # NoObj /\ groups'[m] = groups'[n] => m = n
                      /\ \A h \in Obj : h > created => ~chClosed'[h]
    BY <1>1 DEF OneControlInv, OneControl
  <2>0. \A q \in Pxy : pc[q] # "join"
    BY <1>1 DEF ControlFree, OneControl
  <2>1. groups[GroupOf[p]] = g /\ GroupOf[p] \in GroupName /\ ~chClosed[g] /\ g <= created
    <3>1. GroupOf[p] \in GroupName
      BY GroupAssumption
    <3>2. groups[GroupOf[p]] = g /\ g <= created
      BY <1>0, <1>1 DEF OneControlInv, Placed, g
    <3>3. ~chClosed[groups[GroupOf[p]]]
      BY <1>0, <1>2, <3>1, <3>2 DEF OneControlInv
    <3> QED BY <3>1, <3>2, <3>3
  <2>2. /\ crashed' = crashed /\ groups' = [groups EXCEPT ![GroupOf[p]] = NoObj]
        /\ chClosed' = [chClosed EXCEPT ![g] = TRUE]
    BY <1>d, <2>1
  <2>3. \A x, y \in Pxy : pc'[x] = "join" /\ pc'[y] = "join" => x = y
    BY <1>0, <1>1, <2>0 DEF TypeOK
  <2>4. \A x \in Pxy : pc'[x] # "idle" => groups'[GroupOf[x]] = found[x]
    <3> SUFFICES ASSUME NEW x \in Pxy, pc'[x] # "idle" PROVE groups'[GroupOf[x]] = found[x] OBVIOUS
    <3>1. x # p /\ pc[x] = "up" /\ GroupOf[x] \in GroupName
      BY <1>0, <1>1, <2>0, GroupAssumption DEF TypeOK
    <3>2. x \in lns[found[x]] /\ groups[GroupOf[x]] = found[x]
      BY <1>0, <3>1 DEF Placed, OneControlInv
    <3>3. found[x] # g
      BY <3>1, <3>2 DEF g
    <3> QED BY <1>0, <2>1, <2>2, <3>1, <3>2, <3>3 DEF TypeOK
  <2>5. \A n \in GroupName : groups'[n] # NoObj => ~chClosed'[groups'[n]]
    <3> SUFFICES ASSUME NEW n \in GroupName, groups'[n] # NoObj PROVE ~chClosed'[groups'[n]] OBVIOUS
    <3>1. n # GroupOf[p] /\ groups'[n] = groups[n] /\ groups[n] \in Obj
      BY <1>0, <2>1, <2>2 DEF TypeOK
    <3>2. groups[n] # g /\ ~chClosed[groups[n]]
      BY <1>0, <1>2, <2>1, <3>1 DEF OneControlInv
    <3> QED BY <1>0, <2>2, <3>1, <3>2 DEF TypeOK
  <2>6. \A m, n \in GroupName : groups'[m] # NoObj /\ groups'[m] = groups'[n] => m = n
    BY <1>0, <2>2 DEF TypeOK, OneControlInv
  <2>7. \A h \in Obj : h > created => ~chClosed'[h]
    BY <1>0, <1>2, <2>1, <2>2 DEF TypeOK, OneControlInv
  <2> QED BY <1>1, <2>2, <2>3, <2>4, <2>5, <2>6, <2>7
<1> QED BY <1>3, <1>4, <1>5, <1>6, <1>7, <1>8 DEF Inv, ListenersExact

---------------------------------------------------------------------------
(* Connections, and the theorems *)

LEMMA ConnectionInv ==
    ASSUME Inv, NEW g \in Obj, UNCHANGED setup,
           \/ \E u \in User : WorkerAccepts(g, u)
           \/ \E p \in Pxy : Accept(g, p) \/ AcceptEnds(g, p)
           \/ WorkerEnds(g)
    PROVE  Inv'
<1>0. TypeOK /\ MembersFit /\ RealListenerExact /\ PortsExact /\ Placed /\ OneControlInv
  BY DEF Inv, ListenersExact
<1>1. UNCHANGED <<setup, groups, created, lns, params, chClosed, real, booked, pc, found, crashed>>
  BY DEF WorkerAccepts, Accept, AcceptEnds, WorkerEnds, groupVars
<1>2. /\ offered' \in [Obj -> User \cup {NoUser}]
      /\ got' \in [User -> {"none", "offered", "served", "dropped"}]
      /\ worker' \in [Obj -> BOOLEAN] /\ leaving' \in [Obj -> SUBSET Pxy]
  <2>1. ASSUME NEW u \in User, WorkerAccepts(g, u)
        PROVE  /\ offered' \in [Obj -> User \cup {NoUser}] /\ UNCHANGED <<worker, leaving>>
               /\ got' \in [User -> {"none", "offered", "served", "dropped"}]
    BY <1>0, <2>1 DEF WorkerAccepts, TypeOK
  <2>2. ASSUME NEW p \in Pxy, Accept(g, p)
        PROVE  /\ offered' \in [Obj -> User \cup {NoUser}] /\ UNCHANGED <<worker, leaving>>
               /\ got' \in [User -> {"none", "offered", "served", "dropped"}]
    BY <1>0, <2>2 DEF Accept, TypeOK
  <2>3. ASSUME WorkerEnds(g)
        PROVE  /\ offered' \in [Obj -> User \cup {NoUser}]
               /\ got' \in [User -> {"none", "offered", "served", "dropped"}]
               /\ worker' \in [Obj -> BOOLEAN] /\ leaving' = leaving
    BY <1>0, <2>3 DEF WorkerEnds, TypeOK
  <2>4. ASSUME NEW p \in Pxy, AcceptEnds(g, p)
        PROVE  leaving' \in [Obj -> SUBSET Pxy] /\ UNCHANGED <<offered, got, worker>>
    BY <1>0, <2>4 DEF AcceptEnds, TypeOK
  <2> QED BY <1>0, <2>1, <2>2, <2>3, <2>4 DEF TypeOK
<1>3. TypeOK'
  BY <1>0, <1>1, <1>2 DEF TypeOK
<1>4. MembersFit' /\ RealListenerExact' /\ PortsExact'
  BY <1>0, <1>1, ListenersFrame
<1>5. Placed' /\ OneControlInv'
  BY <1>0, <1>1 DEF Placed, OneControlInv, OneControl
<1> QED BY <1>3, <1>4, <1>5 DEF Inv, ListenersExact

LEMMA StepInv == Inv /\ [Next]_vars => Inv'
<1> SUFFICES ASSUME Inv, [Next]_vars PROVE Inv' OBVIOUS
<1>1. CASE UNCHANGED vars
  <2>0. TypeOK /\ MembersFit /\ RealListenerExact /\ PortsExact /\ Placed /\ OneControlInv
    BY DEF Inv, ListenersExact
  <2> USE <1>1 DEF vars, groupVars, connVars
  <2>1. TypeOK'
    BY <2>0 DEF TypeOK
  <2>2. MembersFit' /\ RealListenerExact' /\ PortsExact'
    BY <2>0, ListenersFrame
  <2>3. Placed' /\ OneControlInv'
    BY <2>0 DEF Placed, OneControlInv, OneControl
  <2> QED BY <2>1, <2>2, <2>3 DEF Inv, ListenersExact
<1>2. CASE Next
  BY <1>2, FindGroupInv, ListenFirstInv, ListenNextInv, ListenRefusedInv, LeaveInv, LastLeavesInv,
     ConnectionInv DEF Next, Step
<1> QED BY <1>1, <1>2

LEMMA InvAlways == Spec => []Inv
BY InitInv, StepInv, PTL DEF Spec

\* Whichever proxies of whichever controls find, join, revive and leave groups in
\* whatever order: members agree with their group, and a group has its real listener
\* and its port exactly while it has members.
THEOREM ListenersCorrect == Spec => []ListenersExact
<1>1. Inv => ListenersExact
  BY DEF Inv
<1> QED BY <1>1, InvAlways, PTL

\* While one control has all members, no proxy joins a group that is being removed, and
\* CloseListener never closes acceptCh twice.
THEOREM GroupsOfOneCorrect == Spec => []GroupsOfOne
<1>1. Inv => GroupsOfOne
  BY DEF Inv, Placed, OneControlInv, GroupsOfOne, ManagesGroupsOfOne, ManagesAllGroups, NoDoubleClose
<1> QED BY <1>1, InvAlways, PTL

---------------------------------------------------------------------------
(* Refinement of LoadBalancer *)

\* A connection is offered by one worker at a time, and no group object that is still to
\* be created has one.
OfferedInv ==
    /\ \A g \in Obj : offered[g] # NoUser => got[offered[g]] = "offered"
    /\ \A g, h \in Obj : offered[g] # NoUser /\ offered[g] = offered[h] => g = h
    /\ \A g \in Obj : g > created => offered[g] = NoUser

LEMMA InitOffered == Init => OfferedInv
BY DEF Init, OfferedInv

\* The real listener that a worker accepts from belongs to a group with members.
LEMMA ListeningMembers ==
    ASSUME Inv, ~crashed, NEW g \in Obj, Listening(g)
    PROVE  g <= created /\ \E p \in Pxy : p \in lns[g] /\ pc[p] = "up" /\ found[p] = g
<1>0. TypeOK /\ RealListenerExact /\ Placed
  BY DEF Inv, ListenersExact
<1>1. PICK p \in Pxy : p \in lns[g]
  BY <1>0 DEF Listening, RealListenerExact, TypeOK
<1> QED BY <1>0, <1>1 DEF Placed

LEMMA StepOffered == Inv /\ OfferedInv /\ [Next]_vars => OfferedInv'
<1> SUFFICES ASSUME Inv, OfferedInv, [Next]_vars PROVE OfferedInv' OBVIOUS
<1> USE GroupAssumption
<1>0. TypeOK
  BY DEF Inv, ListenersExact
<1>1. CASE UNCHANGED <<offered, got, created>>
  BY <1>1 DEF OfferedInv
<1>2. ASSUME NEW p \in Pxy, FindGroup(p) PROVE OfferedInv'
  <2>1. UNCHANGED <<offered, got>> /\ created' \in {created, created + 1} /\ created \in Int
    BY <1>0, <1>2 DEF FindGroup, connVars, TypeOK
  <2> QED BY <2>1, Markers DEF OfferedInv
<1>3. ASSUME NEW g \in Obj, NEW u \in User, WorkerAccepts(g, u) PROVE OfferedInv'
  <2>1. /\ offered' = [offered EXCEPT ![g] = u] /\ got' = [got EXCEPT ![u] = "offered"]
        /\ created' = created /\ got[u] = "none" /\ g <= created
    BY <1>3, ListeningMembers DEF WorkerAccepts, groupVars
  <2>2. \A h \in Obj : offered[h] # u
    BY <2>1 DEF OfferedInv
  <2>3. created \in Int /\ g \in Int
    BY <1>0, Markers DEF TypeOK
  <2> QED BY <1>0, <2>1, <2>2, <2>3, Markers DEF TypeOK, OfferedInv
<1>4. ASSUME NEW g \in Obj, NEW s \in {"served", "dropped"}, created' = created,
             offered[g] # NoUser, offered' = [offered EXCEPT ![g] = NoUser],
             got' = [got EXCEPT ![offered[g]] = s]
      PROVE  OfferedInv'
  <2>1. offered[g] \in User /\ \A h \in Obj : h # g => offered[h] # offered[g]
    BY <1>0, <1>4 DEF TypeOK, OfferedInv
  <2> QED BY <1>0, <1>4, <2>1 DEF TypeOK, OfferedInv
<1>5. ASSUME NEW g \in Obj, NEW p \in Pxy, Accept(g, p) PROVE OfferedInv'
  BY <1>4, <1>5 DEF Accept, groupVars
<1>6. ASSUME NEW g \in Obj, WorkerEnds(g) PROVE OfferedInv'
  <2>1. CASE offered[g] # NoUser
    BY <1>4, <1>6, <2>1 DEF WorkerEnds, groupVars
  <2>2. CASE offered[g] = NoUser
    <3>1. offered' = offered /\ got' = got /\ created' = created
      BY <1>0, <1>6, <2>2 DEF WorkerEnds, groupVars, TypeOK
    <3> QED BY <1>1, <3>1
  <2> QED BY <2>1, <2>2
<1>7. ASSUME NEW p \in Pxy, \/ ListenFirst(p) \/ ListenFirstFails(p) \/ ListenNext(p)
                            \/ ListenRefused(p) \/ CloseListener(p)
      PROVE  UNCHANGED <<offered, got, created>>
  BY <1>7 DEF ListenFirst, ListenFirstFails, ListenNext, ListenRefused, CloseListener, connVars,
     groupVars
<1>8. UNCHANGED vars => UNCHANGED <<offered, got, created>>
  BY DEF vars, connVars, groupVars
<1>9. ASSUME NEW g \in Obj, NEW p \in Pxy, AcceptEnds(g, p) PROVE UNCHANGED <<offered, got, created>>
  BY <1>9 DEF AcceptEnds, groupVars
<1> QED BY <1>1, <1>2, <1>3, <1>5, <1>6, <1>7, <1>8, <1>9 DEF Next, Step

\* Who has left a group and has not noticed has left the controller's group of that name.
LeavingInv == OneControl => \A g \in Obj, p \in Pxy : p \in leaving[g] => groups[GroupOf[p]] = g

LEMMA InitLeaving == Init => LeavingInv
BY DEF Init, LeavingInv

LEMMA StepLeaving == Inv /\ LeavingInv /\ [Next]_vars => LeavingInv'
<1> SUFFICES ASSUME Inv, LeavingInv, [Next]_vars, OneControl,
                    NEW g \in Obj, NEW q \in Pxy, q \in leaving'[g]
             PROVE  groups'[GroupOf[q]] = g
  BY DEF LeavingInv, OneControl, Next, vars
<1>0. TypeOK /\ Placed /\ OneControlInv /\ GroupOf[q] \in GroupName
  BY GroupAssumption DEF Inv, ListenersExact
<1>1. q \in leaving[g] => groups[GroupOf[q]] = g
  BY DEF LeavingInv
<1>2. CASE UNCHANGED <<groups, leaving>>
  BY <1>1, <1>2
<1>3. ASSUME NEW p \in Pxy, FindGroup(p) PROVE groups'[GroupOf[q]] = g
  <2>1. leaving' = leaving
    BY <1>3 DEF FindGroup, connVars
  <2>2. groups' = groups \/ (groups[GroupOf[p]] = NoObj /\ groups' = [groups EXCEPT ![GroupOf[p]] = created + 1])
    BY <1>3 DEF FindGroup
  <2> QED BY <1>0, <1>1, <2>1, <2>2, Markers DEF TypeOK
<1>4. ASSUME NEW p \in Pxy, CloseListener(p) PROVE groups'[GroupOf[q]] = g
  <2> DEFINE h == found[p]
  <2>1. /\ h \in Obj /\ groups[GroupOf[p]] = h /\ GroupOf[p] \in GroupName
        /\ \A n \in GroupName : groups[n] = h => n = GroupOf[p]
    BY <1>0, <1>4, Markers, GroupAssumption DEF CloseListener, Placed, OneControlInv
  <2> HIDE DEF h
  <2>2. CASE lns[h] # {p}
    <3>1. groups' = groups /\ leaving' = [leaving EXCEPT ![h] = leaving[h] \cup {p}]
      BY <1>4, <2>2 DEF CloseListener, Leaves, h
    <3> QED BY <1>0, <1>1, <2>1, <3>1 DEF TypeOK
  <2>3. CASE lns[h] = {p}
    <3>1. /\ groups' = groups \/ groups' = [groups EXCEPT ![GroupOf[p]] = NoObj]
          /\ leaving' = [leaving EXCEPT ![h] = {}]
      BY <1>4, <2>3 DEF CloseListener, Leaves, h
    <3>2. g # h /\ q \in leaving[g]
      BY <1>0, <2>1, <3>1 DEF TypeOK
    <3>3. GroupOf[q] # GroupOf[p]
      BY <1>1, <2>1, <3>2
    <3> QED BY <1>0, <1>1, <3>1, <3>2, <3>3 DEF TypeOK
  <2> QED BY <2>2, <2>3
<1>5. ASSUME NEW k \in Obj, NEW p \in Pxy, AcceptEnds(k, p) PROVE groups'[GroupOf[q]] = g
  <2>1. groups' = groups /\ leaving' = [leaving EXCEPT ![k] = leaving[k] \ {p}]
    BY <1>5 DEF AcceptEnds, groupVars
  <2> QED BY <1>0, <1>1, <2>1 DEF TypeOK
<1>6. ASSUME NEW p \in Pxy, \/ ListenFirst(p) \/ ListenFirstFails(p) \/ ListenNext(p) \/ ListenRefused(p)
      PROVE  UNCHANGED <<groups, leaving>>
  BY <1>6 DEF ListenFirst, ListenFirstFails, ListenNext, ListenRefused, connVars, groupVars
<1>7. ASSUME NEW k \in Obj, \/ \E u \in User : WorkerAccepts(k, u)
                           \/ \E p \in Pxy : Accept(k, p)
                           \/ WorkerEnds(k)
      PROVE  UNCHANGED <<groups, leaving>>
  BY <1>7 DEF WorkerAccepts, Accept, WorkerEnds, groupVars
<1>8. UNCHANGED vars => UNCHANGED <<groups, leaving>>
  BY DEF vars, connVars, groupVars
<1> QED BY <1>2, <1>3, <1>4, <1>5, <1>6, <1>7, <1>8 DEF Next, Step

LEMMA BalanceAlways == Spec => [](Inv /\ OfferedInv /\ LeavingInv)
BY InitInv, InitOffered, InitLeaving, StepInv, StepOffered, StepLeaving, PTL DEF Spec

\* A member of a group is a member of the controller's group of that name.
LEMMA PeersAreMembers ==
    ASSUME Inv, OneControl, NEW p \in Pxy, pc[p] # "idle"
    PROVE  /\ GroupOf[p] \in GroupName /\ found[p] \in Obj /\ groups[GroupOf[p]] = found[p]
           /\ \A n \in GroupName : groups[n] = found[p] => n = GroupOf[p]
           /\ Balancer!Peers(p) = lns[found[p]]
<1>0. TypeOK /\ Placed /\ OneControlInv
  BY DEF Inv, ListenersExact
<1>1. GroupOf[p] \in GroupName /\ found[p] \in Obj /\ groups[GroupOf[p]] = found[p]
  BY <1>0, GroupAssumption DEF Placed, OneControlInv
<1>2. \A n \in GroupName : groups[n] = found[p] => n = GroupOf[p]
  BY <1>0, <1>1, Markers DEF OneControlInv
<1>3. ASSUME NEW q \in Pxy, pc[q] = "up", GroupOf[q] = GroupOf[p] PROVE q \in lns[found[p]]
  BY <1>0, <1>1, <1>3 DEF Placed, OneControlInv
<1>4. ASSUME NEW q \in lns[found[p]] PROVE q \in Pxy /\ pc[q] = "up" /\ GroupOf[q] = GroupOf[p]
  <2>1. q \in Pxy /\ pc[q] = "up" /\ found[q] = found[p]
    BY <1>0, <1>1 DEF Placed, TypeOK
  <2>2. groups[GroupOf[q]] = found[p] /\ GroupOf[q] \in GroupName
    BY <1>0, <2>1, GroupAssumption DEF OneControlInv
  <2> QED BY <1>2, <2>1, <2>2
<1>5. Balancer!Peers(p) = lns[found[p]]
  BY <1>3, <1>4 DEF Balancer!Peers, Members
<1> QED BY <1>1, <1>2, <1>5

\* What a step that touches neither groups, listeners nor connections leaves alone.
LEMMA ServingFrame == UNCHANGED <<groups, real>> => Serving' = Serving
BY DEF Serving

LEMMA WaitingFrame == UNCHANGED <<groups, offered>> => Waiting' = Waiting
BY DEF Waiting

LEMMA LeavingFrame == leaving' = leaving => Leaving' = Leaving
BY DEF Leaving

LEMMA ConnsFrame == got' = got => UNCHANGED <<Came, Served>>
BY DEF Came, Served

LEMMA FirstIsJoinFirst ==
    ASSUME Inv, OneControl, NEW p \in Pxy, ListenFirst(p), UNCHANGED setup
    PROVE  Balancer!JoinFirst(p)
<1> DEFINE g == found[p]
           r == RouteOf(p)
<1>0. TypeOK
  BY DEF Inv, ListenersExact
<1>1. /\ pc[p] = "join" /\ lns[g] = {} /\ real[r] = NoObj /\ real' = [real EXCEPT ![r] = g]
      /\ pc' = [pc EXCEPT ![p] = "up"] /\ UNCHANGED <<groups, offered, got, leaving>>
  BY DEF ListenFirst, CanOpen, Goto, connVars
<1>2. /\ GroupOf[p] \in GroupName /\ g \in Obj /\ groups[GroupOf[p]] = g
      /\ \A n \in GroupName : groups[n] = g => n = GroupOf[p]
      /\ Balancer!Peers(p) = {}
  BY <1>1, PeersAreMembers
<1>3. r \in Route /\ r = setup.routeOf[p]
  BY <1>0, SetupKnown DEF TypeOK, RouteOf
<1>4. p \notin Members /\ Members' = Members \cup {p}
  BY <1>0, <1>1 DEF Members, TypeOK
<1> HIDE DEF g, r
<1>5. \A n \in GroupName : <<r, n>> \notin Serving
  BY <1>1 DEF Serving
<1>6. Serving' = Serving \cup {<<r, GroupOf[p]>>}
  <2>1. real'[r] = g /\ \A q \in Route : q # r => real'[q] = real[q]
    BY <1>0, <1>1, <1>3 DEF TypeOK
  <2>2. ASSUME NEW q \in Route, NEW n \in GroupName
        PROVE  <<q, n>> \in Serving' <=> <<q, n>> \in Serving \/ (q = r /\ n = GroupOf[p])
    BY <1>1, <1>2, <2>1, Markers DEF Serving
  <2> QED BY <1>2, <1>3, <2>2 DEF Serving
<1>7. Waiting' = Waiting /\ Came' = Came /\ Served' = Served /\ Leaving' = Leaving
  BY <1>1, WaitingFrame, ConnsFrame, LeavingFrame
<1> QED BY <1>2, <1>3, <1>4, <1>5, <1>6, <1>7 DEF Balancer!JoinFirst

LEMMA NextIsJoinNext ==
    ASSUME Inv, OneControl, NEW p \in Pxy, ListenNext(p), UNCHANGED setup
    PROVE  Balancer!JoinNext(p)
<1> DEFINE g == found[p]
<1>0. TypeOK /\ MembersFit
  BY DEF Inv, ListenersExact
<1>1. /\ pc[p] = "join" /\ lns[g] # {} /\ Fits(g, p)
      /\ pc' = [pc EXCEPT ![p] = "up"] /\ UNCHANGED <<groups, real, offered, got, leaving>>
  BY DEF ListenNext, Goto, connVars
<1>2. g \in Obj /\ Balancer!Peers(p) = lns[g]
  BY <1>1, PeersAreMembers
<1>3. p \notin Members /\ Members' = Members \cup {p}
  BY <1>0, <1>1 DEF Members, TypeOK
<1> HIDE DEF g
<1>4. ASSUME NEW q \in lns[g] PROVE setup.routeOf[q] = setup.routeOf[p] /\ KeyOf[q] = KeyOf[p]
  <2>1. q \in Pxy /\ Fits(g, q)
    BY <1>0, <1>2 DEF TypeOK, MembersFit
  <2>2. params[g].route = RouteOf(p) /\ params[g].route = RouteOf(q)
    BY <1>0, <1>1, <1>2, <2>1, FitsRoute DEF TypeOK
  <2>3. ASSUME NEW x \in Pxy, Fits(g, x) PROVE params[g].key = KeyOf[x]
    BY <1>0, <2>3, SetupKnown DEF TypeOK, Fits, FitsTCP, FitsHTTPS, FitsTCPMux
  <2> QED BY <1>1, <2>1, <2>2, <2>3 DEF RouteOf
<1>5. /\ Serving' = Serving /\ Waiting' = Waiting /\ Came' = Came /\ Served' = Served
      /\ Leaving' = Leaving
  BY <1>1, ServingFrame, WaitingFrame, ConnsFrame, LeavingFrame
<1> QED BY <1>1, <1>2, <1>3, <1>4, <1>5 DEF Balancer!JoinNext

LEMMA CloseIsLeave ==
    ASSUME Inv, OneControl, NEW p \in Pxy, CloseListener(p), UNCHANGED setup, lns[found[p]] # {p}
    PROVE  Balancer!Leave(p)
<1>0. TypeOK
  BY DEF Inv, ListenersExact
<1>1. /\ pc[p] = "up" /\ pc' = [pc EXCEPT ![p] = "idle"] /\ UNCHANGED <<groups, real, offered, got>>
      /\ leaving' = [leaving EXCEPT ![found[p]] = leaving[found[p]] \cup {p}]
  BY DEF CloseListener, Goto, Leaves
<1>2. Balancer!Peers(p) # {p} /\ found[p] \in Obj
  BY <1>1, PeersAreMembers
<1>5. Leaving' = Leaving \cup {p}
  <2>1. /\ leaving'[found[p]] = leaving[found[p]] \cup {p}
        /\ \A h \in Obj : h # found[p] => leaving'[h] = leaving[h]
    BY <1>0, <1>1, <1>2 DEF TypeOK
  <2> QED BY <1>2, <2>1 DEF Leaving
<1>3. p \in Members /\ Members' = Members \ {p}
  BY <1>0, <1>1 DEF Members, TypeOK
<1>4. Serving' = Serving /\ Waiting' = Waiting /\ Came' = Came /\ Served' = Served
  BY <1>1, ServingFrame, WaitingFrame, ConnsFrame
<1> QED BY <1>2, <1>3, <1>4, <1>5 DEF Balancer!Leave

LEMMA CloseIsLeaveLast ==
    ASSUME Inv, LeavingInv, OneControl, NEW p \in Pxy, CloseListener(p), UNCHANGED setup,
           lns[found[p]] = {p}
    PROVE  Balancer!LeaveLast(p)
<1> DEFINE g == found[p]
           r == setup.routeOf[p]
<1>0. TypeOK /\ MembersFit /\ RealListenerExact /\ OneControlInv /\ Placed
  BY DEF Inv, ListenersExact
<1>1. /\ pc[p] = "up" /\ pc' = [pc EXCEPT ![p] = "idle"] /\ UNCHANGED <<offered, got>> /\ ~crashed
      /\ leaving' = [leaving EXCEPT ![g] = {}]
  BY DEF CloseListener, Goto, Leaves
<1>2. /\ GroupOf[p] \in GroupName /\ g \in Obj /\ groups[GroupOf[p]] = g
      /\ \A n \in GroupName : groups[n] = g => n = GroupOf[p]
      /\ Balancer!Peers(p) = {p}
  BY <1>1, PeersAreMembers
<1>3. ~chClosed[g]
  BY <1>0, <1>2, Markers DEF OneControlInv
<1>4. params[g].route = r /\ r \in Route
  BY <1>0, <1>2, FitsRoute, SetupKnown DEF TypeOK, MembersFit, RouteOf
<1>5. real[r] = g
  BY <1>0, <1>1, <1>2, <1>4 DEF RealListenerExact
<1>6. groups' = [groups EXCEPT ![GroupOf[p]] = NoObj] /\ real' = [real EXCEPT ![r] = NoObj]
  BY <1>3, <1>4 DEF CloseListener
<1>7. p \in Members /\ Members' = Members \ {p}
  BY <1>0, <1>1 DEF Members, TypeOK
<1> HIDE DEF g, r
<1>8. /\ groups'[GroupOf[p]] = NoObj
      /\ \A n \in GroupName : n # GroupOf[p] => groups'[n] = groups[n] /\ groups[n] # g
  BY <1>0, <1>2, <1>6 DEF TypeOK
<1>9. Serving' = Serving \ {<<r, GroupOf[p]>>}
  <2>1. real'[r] = NoObj /\ \A q \in Route : q # r => real'[q] = real[q]
    BY <1>0, <1>4, <1>6 DEF TypeOK
  <2>2. \A q \in Route : real[q] = g => q = r
    BY <1>0, <1>1, <1>2, <1>4 DEF RealListenerExact
  <2>3. ASSUME NEW q \in Route, NEW n \in GroupName
        PROVE  <<q, n>> \in Serving' <=> <<q, n>> \in Serving /\ ~(q = r /\ n = GroupOf[p])
    <3>1. CASE n = GroupOf[p]
      BY <1>2, <1>8, <2>2, <3>1 DEF Serving
    <3>2. CASE n # GroupOf[p]
      BY <1>5, <1>8, <2>1, <3>2 DEF Serving
    <3> QED BY <3>1, <3>2
  <2> QED BY <2>3 DEF Serving
<1>10. Waiting' = {x \in Waiting : x[2] # GroupOf[p]}
  <2>1. ASSUME NEW u \in User, NEW n \in GroupName
        PROVE  <<u, n>> \in Waiting' <=> <<u, n>> \in Waiting /\ n # GroupOf[p]
    BY <1>1, <1>8 DEF Waiting
  <2> QED BY <2>1 DEF Waiting
<1>11. Leaving' = {q \in Leaving : GroupOf[q] # GroupOf[p]}
  <2>1. leaving'[g] = {} /\ \A h \in Obj : h # g => leaving'[h] = leaving[h]
    BY <1>0, <1>1, <1>2 DEF TypeOK
  <2>2. ASSUME NEW q \in Pxy, NEW h \in Obj, q \in leaving[h]
        PROVE  h # g <=> GroupOf[q] # GroupOf[p]
    <3>1. groups[GroupOf[q]] = h /\ GroupOf[q] \in GroupName
      BY <2>2, GroupAssumption DEF LeavingInv
    <3> QED BY <1>2, <3>1
  <2> QED BY <2>1, <2>2 DEF Leaving
<1> QED BY <1>1, <1>2, <1>7, <1>9, <1>10, <1>11, ConnsFrame DEF Balancer!LeaveLast, r

LEMMA AcceptsIsOffer ==
    ASSUME Inv, OfferedInv, OneControl, NEW g \in Obj, NEW u \in User, WorkerAccepts(g, u), UNCHANGED setup
    PROVE  Balancer!Next
<1>0. TypeOK /\ RealListenerExact /\ Placed
  BY DEF Inv, ListenersExact
<1>1. /\ ~crashed /\ Listening(g) /\ offered[g] = NoUser /\ offered' = [offered EXCEPT ![g] = u]
      /\ got[u] = "none" /\ got' = [got EXCEPT ![u] = "offered"]
      /\ UNCHANGED <<groups, real, pc, leaving>>
  BY DEF WorkerAccepts, groupVars
<1>2. PICK p \in Pxy : pc[p] = "up" /\ found[p] = g
  BY <1>1, ListeningMembers
<1> DEFINE n == GroupOf[p]
<1>3. n \in GroupName /\ groups[n] = g /\ \A m \in GroupName : groups[m] = g => m = n
  BY <1>2, PeersAreMembers
<1>4. PICK r \in Route : real[r] = g
  BY <1>1 DEF Listening
<1> HIDE DEF n
<1>5. <<r, n>> \in Serving
  BY <1>3, <1>4, Markers DEF Serving
<1>6. \A v \in User : <<v, n>> \notin Waiting
  BY <1>1, <1>3, GroupAssumption DEF Waiting
<1>7. Waiting' = Waiting \cup {<<u, n>>}
  <2>1. ASSUME NEW v \in User, NEW m \in GroupName
        PROVE  <<v, m>> \in Waiting' <=> <<v, m>> \in Waiting \/ (v = u /\ m = n)
    <3>1. CASE m = n
      BY <1>0, <1>1, <1>3, <1>6, <3>1, Markers DEF Waiting, TypeOK
    <3>2. CASE m # n
      BY <1>0, <1>1, <1>3, <3>2 DEF Waiting, TypeOK
    <3> QED BY <3>1, <3>2
  <2> QED BY <1>3, <2>1 DEF Waiting
<1>8. u \notin Came /\ Came' = Came \cup {u} /\ Served' = Served
  BY <1>0, <1>1 DEF Came, Served, TypeOK
<1>9. Serving' = Serving /\ Members' = Members /\ Leaving' = Leaving
  BY <1>1, ServingFrame, LeavingFrame DEF Members
<1>10. Balancer!Offer(u, n)
  BY <1>5, <1>6, <1>7, <1>8, <1>9 DEF Balancer!Offer
<1> QED BY <1>3, <1>10 DEF Balancer!Next

LEMMA AcceptIsServe ==
    ASSUME Inv, OfferedInv, LeavingInv, OneControl, NEW g \in Obj, NEW p \in Pxy, Accept(g, p),
           UNCHANGED setup
    PROVE  Balancer!Next
<1> DEFINE u == offered[g]
           n == GroupOf[p]
<1>0. TypeOK /\ Placed /\ OneControlInv
  BY DEF Inv, ListenersExact
<1>1. /\ u # NoUser /\ p \in lns[g] \cup leaving[g] /\ offered' = [offered EXCEPT ![g] = NoUser]
      /\ got' = [got EXCEPT ![u] = "served"] /\ UNCHANGED <<groups, real, pc, leaving>>
  BY DEF Accept, groupVars
<1>2. u \in User /\ got[u] = "offered"
  BY <1>0, <1>1 DEF TypeOK, OfferedInv
<1>3. /\ n \in GroupName /\ groups[n] = g /\ \A m \in GroupName : groups[m] = g => m = n
      /\ p \in Members \cup Leaving
  <2>1. CASE p \in lns[g]
    <3>1. pc[p] = "up" /\ found[p] = g
      BY <1>0, <2>1 DEF Placed
    <3> QED BY <3>1, PeersAreMembers DEF Members
  <2>2. CASE p \in leaving[g]
    <3>1. n \in GroupName /\ groups[n] = g
      BY <2>2, GroupAssumption DEF LeavingInv
    <3> QED BY <1>0, <2>2, <3>1, Markers DEF OneControlInv, Leaving
  <2> QED BY <1>1, <2>1, <2>2
<1>4. <<u, n>> \in Waiting
  BY <1>2, <1>3, Markers DEF Waiting
<1> HIDE DEF n
<1>5. Waiting' = Waiting \ {<<u, n>>}
  <2>1. ASSUME NEW v \in User, NEW m \in GroupName
        PROVE  <<v, m>> \in Waiting' <=> <<v, m>> \in Waiting /\ ~(v = u /\ m = n)
    <3>1. CASE m = n
      BY <1>0, <1>1, <1>3, <3>1, GroupAssumption DEF Waiting, TypeOK
    <3>2. CASE m # n
      BY <1>0, <1>1, <1>3, <3>2 DEF Waiting, TypeOK
    <3> QED BY <3>1, <3>2
  <2> QED BY <2>1 DEF Waiting
<1> HIDE DEF u
<1>6. Came' = Came /\ Served' = Served \cup {u}
  BY <1>0, <1>1, <1>2 DEF Came, Served, TypeOK
<1>7. Serving' = Serving /\ Members' = Members /\ Leaving' = Leaving
  BY <1>1, ServingFrame, LeavingFrame DEF Members
<1>8. Balancer!Serve(u, p)
  BY <1>3, <1>4, <1>5, <1>6, <1>7 DEF Balancer!Serve, n
<1> QED BY <1>2, <1>8 DEF Balancer!Next

LEMMA EndsIsNotice ==
    ASSUME Inv, LeavingInv, OneControl, NEW g \in Obj, NEW p \in Pxy, AcceptEnds(g, p), UNCHANGED setup
    PROVE  Balancer!Notice(p)
<1>0. TypeOK
  BY DEF Inv, ListenersExact
<1>1. /\ p \in leaving[g] /\ leaving' = [leaving EXCEPT ![g] = leaving[g] \ {p}]
      /\ UNCHANGED <<groups, real, pc, offered, got>>
  BY DEF AcceptEnds, groupVars
<1>2. \A h \in Obj : p \in leaving[h] => h = g
  BY <1>1 DEF LeavingInv
<1>3. p \in Leaving /\ Leaving' = Leaving \ {p}
  <2>1. leaving'[g] = leaving[g] \ {p} /\ \A h \in Obj : h # g => leaving'[h] = leaving[h]
    BY <1>0, <1>1 DEF TypeOK
  <2> QED BY <1>1, <1>2, <2>1 DEF Leaving
<1>4. /\ Serving' = Serving /\ Waiting' = Waiting /\ Came' = Came /\ Served' = Served
      /\ Members' = Members
  BY <1>1, ServingFrame, WaitingFrame, ConnsFrame DEF Members
<1> QED BY <1>3, <1>4 DEF Balancer!Notice

\* The connection that a returning worker was sending was lost when the group closed.
LEMMA EndsStutters ==
    ASSUME Inv, OfferedInv, OneControl, NEW g \in Obj, WorkerEnds(g), UNCHANGED setup
    PROVE  UNCHANGED Balancer!vars
<1>0. TypeOK /\ OneControlInv
  BY DEF Inv, ListenersExact
<1>1. /\ offered' = [offered EXCEPT ![g] = NoUser] /\ UNCHANGED <<groups, real, pc, leaving>>
      /\ offered[g] # NoUser => chClosed[g]
  BY DEF WorkerEnds, groupVars
<1>2. Waiting' = Waiting
  <2>1. offered[g] # NoUser => \A n \in GroupName : groups[n] # g
    BY <1>0, <1>1, Markers DEF OneControlInv
  <2>2. ASSUME NEW v \in User, NEW m \in GroupName
        PROVE  <<v, m>> \in Waiting' <=> <<v, m>> \in Waiting
    BY <1>0, <1>1, <2>1 DEF Waiting, TypeOK
  <2> QED BY <2>2 DEF Waiting
<1>3. Came' = Came /\ Served' = Served
  <2>1. CASE offered[g] = NoUser
    BY <2>1, ConnsFrame DEF WorkerEnds
  <2>2. CASE offered[g] # NoUser
    <3>1. got' = [got EXCEPT ![offered[g]] = "dropped"] /\ offered[g] \in User
          /\ got[offered[g]] = "offered"
      BY <1>0, <2>2 DEF WorkerEnds, TypeOK, OfferedInv
    <3> QED BY <1>0, <3>1 DEF Came, Served, TypeOK
  <2> QED BY <2>1, <2>2
<1>4. Serving' = Serving /\ Members' = Members /\ Leaving' = Leaving
  BY <1>1, ServingFrame, LeavingFrame DEF Members
<1> QED BY <1>2, <1>3, <1>4 DEF Balancer!vars

\* A group that is found or created has no listener and no connection of its own yet.
LEMMA FindStutters ==
    ASSUME Inv, OfferedInv, OneControl, NEW p \in Pxy, FindGroup(p), UNCHANGED setup
    PROVE  UNCHANGED Balancer!vars
<1>0. TypeOK /\ RealListenerExact /\ Placed
  BY DEF Inv, ListenersExact
<1>1. /\ ~crashed /\ pc[p] = "idle" /\ pc' = [pc EXCEPT ![p] = "join"]
      /\ UNCHANGED <<real, offered, got, leaving>> /\ GroupOf[p] \in GroupName
  BY GroupAssumption DEF FindGroup, Goto, connVars
<1>2. Members' = Members /\ Leaving' = Leaving
  BY <1>0, <1>1, LeavingFrame DEF Members, TypeOK
<1>3. CASE groups[GroupOf[p]] # NoObj
  BY <1>1, <1>2, <1>3, ServingFrame, WaitingFrame, ConnsFrame DEF FindGroup, Balancer!vars
<1>4. CASE groups[GroupOf[p]] = NoObj
  <2>1. groups' = [groups EXCEPT ![GroupOf[p]] = created + 1] /\ created + 1 \in Obj /\ created \in Int
    BY <1>0, <1>4, GroupAssumption DEF FindGroup, TypeOK, Obj
  <2>2. offered[created + 1] = NoUser
    BY <2>1 DEF OfferedInv
  <2>3. \A r \in Route : real[r] # created + 1
    BY <1>1, <2>1, ListeningMembers DEF Listening
  <2>4. ASSUME NEW r \in Route, NEW n \in GroupName PROVE <<r, n>> \in Serving' <=> <<r, n>> \in Serving
    BY <1>0, <1>1, <1>4, <2>1, <2>3 DEF Serving, TypeOK
  <2>5. ASSUME NEW u \in User, NEW n \in GroupName PROVE <<u, n>> \in Waiting' <=> <<u, n>> \in Waiting
    BY <1>0, <1>1, <1>4, <2>1, <2>2, GroupAssumption DEF Waiting, TypeOK
  <2>6. Serving' = Serving
    BY <2>4 DEF Serving
  <2>7. Waiting' = Waiting
    BY <2>5 DEF Waiting
  <2> QED BY <1>1, <1>2, <2>6, <2>7, ConnsFrame DEF Balancer!vars
<1> QED BY <1>3, <1>4

LEMMA RefusedStutters ==
    ASSUME Inv, NEW p \in Pxy, ListenRefused(p) \/ ListenFirstFails(p), UNCHANGED setup
    PROVE  UNCHANGED Balancer!vars
<1>0. TypeOK
  BY DEF Inv, ListenersExact
<1>1. /\ pc[p] = "join" /\ pc' = [pc EXCEPT ![p] = "idle"]
      /\ UNCHANGED <<groups, real, offered, got, leaving>>
  BY DEF ListenRefused, ListenFirstFails, Goto, connVars, groupVars
<1>2. Members' = Members /\ Leaving' = Leaving
  BY <1>0, <1>1, LeavingFrame DEF Members, TypeOK
<1> QED BY <1>1, <1>2, ServingFrame, WaitingFrame, ConnsFrame DEF Balancer!vars

LEMMA BalancerStep ==
    Inv /\ OfferedInv /\ LeavingInv /\ [Next]_vars /\ OneControl => [Balancer!Next]_Balancer!vars
<1> SUFFICES ASSUME Inv, OfferedInv, LeavingInv, [Next]_vars, OneControl
             PROVE  [Balancer!Next]_Balancer!vars
  OBVIOUS
<1>1. CASE UNCHANGED vars
  BY <1>1, ServingFrame, WaitingFrame, ConnsFrame, LeavingFrame
     DEF vars, groupVars, connVars, Members, Balancer!vars
<1>2. ASSUME UNCHANGED setup, NEW p \in Pxy,
             ListenFirst(p) \/ ListenNext(p) \/ CloseListener(p)
      PROVE  Balancer!Next
  BY <1>2, FirstIsJoinFirst, NextIsJoinNext, CloseIsLeave, CloseIsLeaveLast DEF Balancer!Next
<1>3. ASSUME UNCHANGED setup, NEW g \in Obj, NEW p \in Pxy, AcceptEnds(g, p) PROVE Balancer!Next
  BY <1>3, EndsIsNotice DEF Balancer!Next
<1> QED BY <1>1, <1>2, <1>3, FindStutters, RefusedStutters, AcceptsIsOffer, AcceptIsServe, EndsStutters
     DEF Next, Step

LEMMA InitBalancer == Init => Balancer!Init
<1> SUFFICES ASSUME Init PROVE Balancer!Init OBVIOUS
<1>1. Serving = {}
  BY DEF Init, Serving
<1>2. Waiting = {}
  BY DEF Init, Waiting
<1> QED BY <1>1, <1>2 DEF Init, Balancer!Init, Members, Leaving, Came, Served

\* TCPGroup, HTTPSGroup and TCPMuxGroup with their controllers implement LoadBalancer while
\* one control has all members, for any number of groups, members and connections.
THEOREM BalancerImplemented == Spec => ImplementsBalancer
<1>1. Inv /\ OfferedInv /\ LeavingInv /\ [Next]_vars => [OneControl => [Balancer!Next]_Balancer!vars]_vars
  BY BalancerStep
<1> QED BY <1>1, InitBalancer, BalanceAlways, PTL DEF Spec, ImplementsBalancer
=============================================================================
