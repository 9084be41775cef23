------------------------- MODULE PortManager_proofs -------------------------
(***************************************************************************)
(* Proofs about PortManager, for every set of ports and names, every number  *)
(* of proxies and every number of tries of Acquire.                          *)
(*                                                                          *)
(* UserIsHolder carries the tables: the object a port is booked to is one    *)
(* that will still release it.  GivenInv adds what holds among tcp proxies    *)
(* that ask for given ports.                                                  *)
(***************************************************************************)
EXTENDS PortManager, TLAPS

Holding == {"listen", "add", "up", "release"}

\* An object has a port from Acquire on, and so has what refers to it.
PortsKnown ==
    /\ \A x \in Pxy : pc[x] \in Holding \cup {"del"} => port[x] \in Port
    /\ \A x \in Pxy : forwarding[x] => port[x] \in Port /\ proto = "udp"
    /\ \A n \in Name : reservedPorts[n] # NoPxy =>
          /\ port[reservedPorts[n]] \in Port
          /\ pc[reservedPorts[n]] \notin {"none", "acquire"}

\* An object that has begun has a name.
NamesKnown == \A x \in Pxy : pc[x] # "none" => name[x] \in Name

\* A port is booked to an object that has not released it yet.
UserIsHolder ==
    \A p \in Port : usedPorts[p] # NoPxy =>
        port[usedPorts[p]] = p /\ pc[usedPorts[p]] \in Holding

\* proxy.Manager has an object under its own name.
PxysNamed == \A n \in Name : pxys[n] # NoPxy => name[pxys[n]] = n /\ pc[pxys[n]] # "none"

TablesInv ==
    TypeOK /\ PortsKnown /\ NamesKnown /\ UserIsHolder /\ PxysNamed /\ PortPartition

\* What holds among tcp proxies that ask for given ports: whoever holds a port is its
\* booked user, its PortCtx is not closed, and a reservation of its name on its port
\* is its own.
GivenInv ==
    GivenPorts => \A x \in Pxy :
        /\ pc[x] \in Holding => usedPorts[port[x]] = x
        /\ closed[x] => pc[x] \in {"del", "end"}
        /\ pc[x] \in Holding /\ reservedPorts[name[x]] # NoPxy
              /\ port[reservedPorts[name[x]]] = port[x] => reservedPorts[name[x]] = x

Inv == TablesInv /\ GivenInv

---------------------------------------------------------------------------
\* Markers are no objects.
LEMMA Markers == NoPxy \notin Pxy /\ Other \notin Pxy /\ 0 \notin Port
BY PortAssumption DEF NoPxy, Pxy, Other

\* The parts together imply what the runs check.
LEMMA InvSound == Inv => PortsSound
<1> SUFFICES ASSUME Inv PROVE PortsSound OBVIOUS
<1>1. TypeOK /\ PortPartition
  BY DEF Inv, TablesInv
<1>2. PortExclusive
  BY DEF Inv, GivenInv, PortExclusive, Holds, Holding
<1>3. NoPortLost
  <2> SUFFICES ASSUME \A x \in Pxy : pc[x] \in {"none", "end"}, NEW p \in Port
               PROVE  p \in freePorts
    BY <1>1 DEF NoPortLost, TypeOK
  <2>1. usedPorts[p] = NoPxy
    BY <1>1 DEF Inv, TablesInv, UserIsHolder, Holding, TypeOK
  <2> QED BY <1>1, <2>1 DEF PortPartition
<1> QED BY <1>1, <1>2, <1>3 DEF PortsSound

LEMMA InitInv == Init => Inv
<1> SUFFICES ASSUME Init PROVE Inv OBVIOUS
<1> USE PortAssumption DEF Init
<1>1. TypeOK
  BY DEF TypeOK, PCs
<1>2. PortsKnown /\ NamesKnown /\ UserIsHolder /\ PxysNamed /\ PortPartition
  BY DEF PortsKnown, NamesKnown, UserIsHolder, PxysNamed, PortPartition, Holding
<1>3. GivenInv
  BY DEF GivenInv, Holding
<1> QED BY <1>1, <1>2, <1>3 DEF Inv, TablesInv

---------------------------------------------------------------------------
(* ports.Manager *)

\* What Acquire returns: a port, and a free one when a given port was asked for.
LEMMA CandidatePort ==
    ASSUME Inv, NEW x \in Pxy, pc[x] = "acquire", NEW p \in Candidates(x)
    PROVE  p \in Port /\ (req[x] # 0 => p \in freePorts)
<1>1. name[x] \in Name /\ freePorts \subseteq Port
  BY DEF Inv, TablesInv, NamesKnown, TypeOK
<1>2. HasReserved(x) => port[reservedPorts[name[x]]] \in Port
  BY <1>1 DEF HasReserved, Inv, TablesInv, PortsKnown
<1> QED BY <1>1, <1>2 DEF Candidates

LEMMA AcquireInv ==
    ASSUME Inv, NEW x \in Pxy, Acquire(x)
    PROVE  Inv'
<1> USE DEF Acquire, Take, Goto, objectVars
<1>0. /\ TypeOK /\ PortsKnown /\ NamesKnown /\ UserIsHolder /\ PxysNamed
      /\ PortPartition /\ GivenInv
  BY DEF Inv, TablesInv
<1>1. PICK p \in Candidates(x) : Take(x, p) /\ port' = [port EXCEPT ![x] = p]
  OBVIOUS
<1>2. p \in Port /\ (req[x] # 0 => p \in freePorts)
  BY <1>1, CandidatePort
<1>3. name[x] \in Name /\ pc[x] = "acquire" /\ x # NoPxy
  BY <1>0, Markers DEF NamesKnown
<1>4. TypeOK'
  BY <1>0, <1>1, <1>2, <1>3 DEF TypeOK, PCs
<1>5. PortsKnown'
  BY <1>0, <1>1, <1>2, <1>3 DEF TypeOK, PortsKnown, Holding
<1>6. NamesKnown' /\ PxysNamed'
  BY <1>0, <1>1, <1>3 DEF TypeOK, NamesKnown, PxysNamed
<1>7. UserIsHolder'
  BY <1>0, <1>1, <1>2, <1>3 DEF TypeOK, UserIsHolder, Holding
<1>8. PortPartition'
  BY <1>0, <1>1, <1>2, <1>3 DEF TypeOK, PortPartition
<1>9. GivenInv'
  <2> SUFFICES ASSUME GivenPorts', NEW y \in Pxy
               PROVE  /\ pc'[y] \in Holding => usedPorts'[port'[y]] = y
                      /\ closed'[y] => pc'[y] \in {"del", "end"}
                      /\ (pc'[y] \in Holding /\ reservedPorts'[name'[y]] # NoPxy
                           /\ port'[reservedPorts'[name'[y]]] = port'[y])
                         => reservedPorts'[name'[y]] = y
    BY DEF GivenInv
  <2>1. GivenPorts
    BY <1>0, <1>3 DEF GivenPorts, TypeOK
  <2>2. p \in freePorts /\ usedPorts[p] = NoPxy
    BY <1>0, <1>2, <1>3, <2>1 DEF GivenPorts, PortPartition
  <2>3. CASE y = x
    BY <1>0, <1>1, <1>2, <1>3, <2>1, <2>3 DEF TypeOK, GivenInv, Holding
  <2>4. CASE y # x
    <3>1. pc'[y] = pc[y] /\ port'[y] = port[y] /\ closed' = closed /\ name' = name
      BY <1>0, <1>1, <2>4 DEF TypeOK
    <3>2. pc[y] \in Holding => port[y] # p /\ port[y] \in Port
      BY <1>0, <2>1, <2>2, Markers DEF GivenInv, PortsKnown
    <3>3. pc[y] \in Holding => usedPorts'[port[y]] = y
      BY <1>0, <1>1, <2>1, <3>2 DEF GivenInv, TypeOK
    <3>4. closed[y] => pc[y] \in {"del", "end"}
      BY <1>0, <2>1 DEF GivenInv
    <3>5. ASSUME pc[y] \in Holding, reservedPorts'[name[y]] # NoPxy,
                 port'[reservedPorts'[name[y]]] = port[y]
          PROVE  reservedPorts'[name[y]] = y
      <4>1. name[y] \in Name
        BY <1>0, <3>5 DEF NamesKnown, Holding
      <4>2. reservedPorts'[name[y]] # x
        BY <1>0, <1>1, <3>2, <3>5 DEF TypeOK
      <4>3. reservedPorts'[name[y]] = reservedPorts[name[y]]
        BY <1>0, <1>1, <1>3, <4>1, <4>2 DEF TypeOK
      <4>4. port'[reservedPorts[name[y]]] = port[reservedPorts[name[y]]]
        BY <1>0, <1>1, <4>1, <4>2, <4>3, <3>5 DEF TypeOK
      <4> QED BY <1>0, <2>1, <3>5, <4>3, <4>4 DEF GivenInv
    <3> QED BY <3>1, <3>3, <3>4, <3>5
  <2> QED BY <2>3, <2>4
<1> QED BY <1>4, <1>5, <1>6, <1>7, <1>8, <1>9 DEF Inv, TablesInv

\* Release of the port of an object that has one, and what it leaves alone.
LEMMA ReleaseTables ==
    ASSUME TypeOK, PortPartition, NEW p \in Port, Release(p)
    PROVE  /\ usedPorts' = [usedPorts EXCEPT ![p] = NoPxy]
           /\ freePorts' \subseteq Port /\ PortPartition'
           /\ closed' \in [Pxy -> BOOLEAN] /\ stale' \in [Pxy -> BOOLEAN]
           /\ reservedPorts' = reservedPorts
           /\ \A y \in Pxy : closed'[y] => closed[y] \/ usedPorts[p] = y
<1> USE Markers DEF Release, managerVars, TypeOK
<1>1. CASE usedPorts[p] = NoPxy
  BY <1>1 DEF PortPartition
<1>2. CASE usedPorts[p] # NoPxy
  <2>1. usedPorts[p] \in Pxy
    BY <1>2
  <2>2. /\ usedPorts' = [usedPorts EXCEPT ![p] = NoPxy] /\ freePorts' = freePorts \cup {p}
        /\ closed' = [closed EXCEPT ![usedPorts[p]] = TRUE]
        /\ stale' = [stale EXCEPT ![usedPorts[p]] = FALSE]
        /\ reservedPorts' = reservedPorts
    BY <1>2
  <2>3. freePorts' \subseteq Port /\ PortPartition'
    BY <2>2 DEF PortPartition
  <2>4. closed' \in [Pxy -> BOOLEAN] /\ stale' \in [Pxy -> BOOLEAN]
    BY <2>1, <2>2
  <2>5. \A y \in Pxy : closed'[y] => closed[y] \/ usedPorts[p] = y
    BY <2>1, <2>2
  <2> QED BY <2>2, <2>3, <2>4, <2>5
<1> QED BY <1>1, <1>2

LEMMA ReleasePortInv ==
    ASSUME Inv, NEW x \in Pxy, ReleasePort(x)
    PROVE  Inv'
<1> USE DEF ReleasePort, Goto, objectVars
<1>0. /\ TypeOK /\ PortsKnown /\ NamesKnown /\ UserIsHolder /\ PxysNamed
      /\ PortPartition /\ GivenInv
  BY DEF Inv, TablesInv
<1>1. port[x] \in Port
  BY <1>0 DEF PortsKnown, Holding
<1>2. /\ usedPorts' = [usedPorts EXCEPT ![port[x]] = NoPxy]
      /\ freePorts' \subseteq Port /\ PortPartition'
      /\ closed' \in [Pxy -> BOOLEAN] /\ stale' \in [Pxy -> BOOLEAN]
      /\ reservedPorts' = reservedPorts
      /\ \A y \in Pxy : closed'[y] => closed[y] \/ usedPorts[port[x]] = y
  BY <1>0, <1>1, ReleaseTables
<1>3. TypeOK'
  BY <1>0, <1>2 DEF TypeOK, PCs
<1>4. PortsKnown' /\ NamesKnown' /\ PxysNamed'
  BY <1>0, <1>2 DEF TypeOK, PortsKnown, NamesKnown, PxysNamed, Holding
<1>5. UserIsHolder'
  <2> SUFFICES ASSUME NEW p \in Port, usedPorts'[p] # NoPxy
               PROVE  port'[usedPorts'[p]] = p /\ pc'[usedPorts'[p]] \in Holding
    BY DEF UserIsHolder
  <2>1. p # port[x] /\ usedPorts'[p] = usedPorts[p]
    BY <1>0, <1>1, <1>2 DEF TypeOK
  <2>2. port[usedPorts[p]] = p /\ pc[usedPorts[p]] \in Holding
    BY <1>0, <2>1 DEF UserIsHolder
  <2> QED BY <1>0, <2>1, <2>2 DEF TypeOK
<1>6. GivenInv'
  <2> SUFFICES ASSUME GivenPorts', NEW y \in Pxy
               PROVE  /\ pc'[y] \in Holding => usedPorts'[port'[y]] = y
                      /\ closed'[y] => pc'[y] \in {"del", "end"}
                      /\ (pc'[y] \in Holding /\ reservedPorts'[name'[y]] # NoPxy
                           /\ port'[reservedPorts'[name'[y]]] = port'[y])
                         => reservedPorts'[name'[y]] = y
    BY DEF GivenInv
  <2>1. GivenPorts
    BY <1>0 DEF GivenPorts, TypeOK
  <2>2. usedPorts[port[x]] = x
    BY <1>0, <2>1 DEF GivenInv, Holding
  <2>3. CASE y = x
    BY <1>0, <2>3 DEF TypeOK, Holding
  <2>4. CASE y # x
    BY <1>0, <1>1, <1>2, <2>1, <2>2, <2>4 DEF TypeOK, GivenInv, Holding, PortsKnown
  <2> QED BY <2>3, <2>4
<1> QED BY <1>2, <1>3, <1>4, <1>5, <1>6 DEF Inv, TablesInv

\* The second Release of a udp proxy may free the port of another one, which tcp
\* proxies never meet.
LEMMA ForwardEndsInv ==
    ASSUME Inv, NEW x \in Pxy, ForwardEnds(x)
    PROVE  Inv'
<1> USE DEF ForwardEnds, objectVars
<1>0. /\ TypeOK /\ PortsKnown /\ NamesKnown /\ UserIsHolder /\ PxysNamed
      /\ PortPartition /\ GivenInv
  BY DEF Inv, TablesInv
<1>1. port[x] \in Port /\ proto = "udp"
  BY <1>0 DEF PortsKnown
<1>2. /\ usedPorts' = [usedPorts EXCEPT ![port[x]] = NoPxy]
      /\ freePorts' \subseteq Port /\ PortPartition'
      /\ closed' \in [Pxy -> BOOLEAN] /\ stale' \in [Pxy -> BOOLEAN]
      /\ reservedPorts' = reservedPorts
  BY <1>0, <1>1, ReleaseTables
<1>3. TypeOK'
  BY <1>0, <1>2 DEF TypeOK
<1>4. PortsKnown' /\ NamesKnown' /\ PxysNamed'
  BY <1>0, <1>2 DEF TypeOK, PortsKnown, NamesKnown, PxysNamed, Holding
<1>5. UserIsHolder'
  BY <1>0, <1>1, <1>2 DEF TypeOK, UserIsHolder
<1>6. GivenInv'
  BY <1>1 DEF GivenInv, GivenPorts
<1> QED BY <1>2, <1>3, <1>4, <1>5, <1>6 DEF Inv, TablesInv

LEMMA CleanReservedPortsInv == Inv /\ CleanReservedPorts => Inv'
<1> SUFFICES ASSUME Inv, CleanReservedPorts PROVE Inv' OBVIOUS
<1> USE DEF CleanReservedPorts, objectVars
<1>1. TypeOK'
  BY DEF Inv, TablesInv, TypeOK
<1>2. PortsKnown' /\ NamesKnown' /\ PxysNamed' /\ UserIsHolder' /\ PortPartition'
  BY DEF Inv, TablesInv, TypeOK, PortsKnown, NamesKnown, PxysNamed, UserIsHolder, PortPartition
<1>3. GivenInv'
  BY DEF Inv, TablesInv, TypeOK, GivenInv, GivenPorts, NamesKnown, Holding
<1> QED BY <1>1, <1>2, <1>3 DEF Inv, TablesInv

---------------------------------------------------------------------------
(* The other steps leave the tables of the manager alone *)

LEMMA NewProxyInv ==
    ASSUME Inv, NEW x \in Pxy, NEW n \in Name, NEW r \in Requests, NewProxy(x, n, r)
    PROVE  Inv'
<1> USE DEF NewProxy, Goto, objectVars, managerVars
<1>1. TypeOK'
  BY DEF Inv, TablesInv, TypeOK, PCs
<1>2. PortsKnown' /\ UserIsHolder' /\ PortPartition'
  BY DEF Inv, TablesInv, TypeOK, PortsKnown, UserIsHolder, PortPartition, Holding
<1>3. NamesKnown' /\ PxysNamed'
  BY DEF Inv, TablesInv, TypeOK, NamesKnown, PxysNamed
<1>4. GivenInv'
  <2>1. GivenPorts' => GivenPorts
    BY DEF Inv, TablesInv, TypeOK, GivenPorts
  <2> QED BY <2>1 DEF Inv, TablesInv, TypeOK, GivenInv, Holding
<1> QED BY <1>1, <1>2, <1>3, <1>4 DEF Inv, TablesInv

\* An object moves on, keeping its port until it has released it.
Moves(x) ==
    \/ AcquireFails(x) \/ Listen(x) \/ ListenFails(x) \/ Add(x) \/ Close(x) \/ Del(x)

LEMMA MovesInv ==
    ASSUME Inv, NEW x \in Pxy, Moves(x)
    PROVE  Inv'
<1>0. /\ TypeOK /\ PortsKnown /\ NamesKnown /\ UserIsHolder /\ PxysNamed
      /\ PortPartition /\ GivenInv
  BY DEF Inv, TablesInv
<1>1. PICK l \in {"listen", "add", "up", "release", "end"} :
          /\ pc' = [pc EXCEPT ![x] = l]
          /\ l # "end" => pc[x] \in Holding
          /\ l = "end" => pc[x] \in {"acquire", "del"}
          /\ UNCHANGED <<freePorts, usedPorts, reservedPorts, closed, stale, name, req, proto, port>>
  BY DEF Moves, AcquireFails, Listen, ListenFails, Add, Close, Del, Goto, managerVars, objectVars, Holding
<1>2. bound' \in [Port -> Pxy \cup {NoPxy, Other}]
  BY <1>0 DEF Moves, AcquireFails, Listen, ListenFails, Add, Close, CloseSocket, Del, TypeOK
<1>3. /\ forwarding' \in [Pxy -> BOOLEAN]
      /\ \A y \in Pxy : forwarding'[y] => forwarding[y] \/ (y = x /\ proto = "udp" /\ pc[x] = "listen")
  <2>1. CASE Listen(x)
    BY <1>0, <2>1 DEF Listen, TypeOK
  <2>2. CASE ~Listen(x)
    BY <1>0, <2>2 DEF Moves, AcquireFails, ListenFails, Add, Close, Del, TypeOK
  <2> QED BY <2>1, <2>2
<1>4. /\ pxys' \in [Name -> Pxy \cup {NoPxy}]
      /\ \A n \in Name : pxys'[n] # NoPxy => pxys'[n] = pxys[n] \/ (pxys'[n] = x /\ name[x] = n)
  <2>1. CASE Add(x)
    BY <1>0, <2>1 DEF Add, TypeOK, NamesKnown
  <2>2. CASE Del(x)
    BY <1>0, <2>2 DEF Del, TypeOK
  <2>3. CASE ~Add(x) /\ ~Del(x)
    BY <1>0, <2>3 DEF Moves, AcquireFails, Listen, ListenFails, Close, TypeOK
  <2> QED BY <2>1, <2>2, <2>3
<1>5. TypeOK'
  BY <1>0, <1>1, <1>2, <1>3, <1>4 DEF TypeOK, PCs
<1>6. PortsKnown' /\ NamesKnown'
  BY <1>0, <1>1, <1>3 DEF TypeOK, PortsKnown, NamesKnown, Holding
<1>7. PxysNamed'
  BY <1>0, <1>1, <1>4, Markers DEF TypeOK, PxysNamed
<1>8. UserIsHolder' /\ PortPartition'
  BY <1>0, <1>1 DEF TypeOK, UserIsHolder, PortPartition, Holding
<1>9. GivenInv'
  <2>1. GivenPorts' => GivenPorts
    BY <1>0, <1>1 DEF TypeOK, GivenPorts, Holding
  <2> QED BY <1>0, <1>1, <2>1 DEF TypeOK, GivenInv, Holding
<1> QED BY <1>5, <1>6, <1>7, <1>8, <1>9 DEF Inv, TablesInv

LEMMA EnvironmentInv ==
    Inv /\ ((\E x \in Pxy : DayPasses(x)) \/ (\E p \in Contested : OtherProgram(p))) => Inv'
<1> SUFFICES ASSUME Inv, (\E x \in Pxy : DayPasses(x)) \/ (\E p \in Contested : OtherProgram(p))
             PROVE  Inv'
  OBVIOUS
<1> USE PortAssumption DEF DayPasses, OtherProgram, managerVars, objectVars
<1>1. TypeOK'
  BY DEF Inv, TablesInv, TypeOK
<1>2. PortsKnown' /\ NamesKnown' /\ PxysNamed' /\ UserIsHolder' /\ PortPartition'
  BY DEF Inv, TablesInv, PortsKnown, NamesKnown, PxysNamed, UserIsHolder, PortPartition
<1>3. GivenInv'
  BY DEF Inv, GivenInv, GivenPorts
<1> QED BY <1>1, <1>2, <1>3 DEF Inv, TablesInv

LEMMA StepInv == Inv /\ [Next]_vars => Inv'
<1> SUFFICES ASSUME Inv, [Next]_vars PROVE Inv' OBVIOUS
<1>1. CASE UNCHANGED vars
  <2> USE <1>1 DEF vars, managerVars, objectVars
  <2>1. TypeOK' /\ PortsKnown' /\ NamesKnown' /\ UserIsHolder' /\ PxysNamed' /\ PortPartition'
    BY DEF Inv, TablesInv, TypeOK, PortsKnown, NamesKnown, PxysNamed, UserIsHolder, PortPartition
  <2>2. GivenInv'
    BY DEF Inv, GivenInv, GivenPorts
  <2> QED BY <2>1, <2>2 DEF Inv, TablesInv
<1>2. CASE Next
  BY <1>2, AcquireInv, ReleasePortInv, ForwardEndsInv, CleanReservedPortsInv, NewProxyInv,
     MovesInv, EnvironmentInv DEF Next, Running, Moves
<1> QED BY <1>1, <1>2

LEMMA InvAlways == Spec => []Inv
BY InitInv, StepInv, PTL DEF Spec

\* Acquire, a failing net.Listen and Release, also the second one of a udp proxy, in any
\* order and of any number of racing proxies: every port is free or used and never both,
\* a tcp proxy that asked for a given port is its only booked user, and when no proxy is
\* left every port is free again.
THEOREM PortsCorrect == Spec => []PortsSound
BY InvAlways, InvSound, PTL

\* The step of cleanReservedPortsWorker, or any other, that drops a reservation.
LEMMA DropStep == Inv /\ [Next]_vars /\ GivenPorts => ~DropsUsedReservation
<1> SUFFICES ASSUME Inv, [Next]_vars, GivenPorts, DropsUsedReservation PROVE FALSE OBVIOUS
<1>0. TypeOK /\ PxysNamed /\ NamesKnown /\ GivenInv
  BY DEF Inv, TablesInv
<1>1. PICK n \in Name, x \in Pxy, y \in Pxy :
          /\ reservedPorts[n] = x /\ reservedPorts'[n] = NoPxy
          /\ pxys[n] = y /\ pc[y] = "up" /\ port[y] = port[x]
  BY DEF DropsUsedReservation
<1>2. name[y] = n /\ x # NoPxy /\ y # NoPxy
  BY <1>0, <1>1, Markers DEF PxysNamed
<1>3. x = y
  BY <1>0, <1>1, <1>2 DEF GivenInv, Holding
<1>4. ~closed[x]
  BY <1>0, <1>1, <1>3 DEF GivenInv
<1>5. CASE CleanReservedPorts
  BY <1>1, <1>2, <1>4, <1>5 DEF CleanReservedPorts, Expired
<1>6. CASE reservedPorts' = reservedPorts
  BY <1>1, <1>2, <1>6
<1>7. CASE \E z \in Pxy : Acquire(z)
  <2>1. PICK z \in Pxy : reservedPorts' = [reservedPorts EXCEPT ![name[z]] = z]
    BY <1>7 DEF Acquire, Take
  <2> QED BY <1>0, <1>1, <1>2, <2>1, Markers DEF TypeOK
<1>8. ASSUME NEW z \in Pxy, ReleasePort(z) \/ ForwardEnds(z) PROVE reservedPorts' = reservedPorts
  BY <1>8 DEF ReleasePort, ForwardEnds, Release, managerVars
<1>9. ASSUME NEW z \in Pxy, Moves(z) PROVE reservedPorts' = reservedPorts
  BY <1>9 DEF Moves, AcquireFails, Listen, ListenFails, Add, Close, Del, managerVars
<1>10. ASSUME NEW z \in Pxy, NEW m \in Name, NEW r \in Requests, NewProxy(z, m, r)
       PROVE  reservedPorts' = reservedPorts
  BY <1>10 DEF NewProxy, managerVars
<1>11. ((\E z \in Pxy : DayPasses(z)) \/ (\E p \in Contested : OtherProgram(p)) \/ UNCHANGED vars)
          => reservedPorts' = reservedPorts
  BY DEF DayPasses, OtherProgram, vars, managerVars
<1>12. Next => \/ CleanReservedPorts \/ reservedPorts' = reservedPorts
               \/ \E z \in Pxy : Acquire(z)
  BY <1>8, <1>9, <1>10, <1>11 DEF Next, Running, Moves
<1> QED BY <1>5, <1>6, <1>7, <1>11, <1>12

\* cleanReservedPortsWorker never drops the reservation of a proxy that is up on the
\* port, for tcp proxies that ask for given ports: Closed of its PortCtx is set by the
\* proxy's own Release only.
THEOREM ReservationsCorrect == Spec => GivenReservationKept
<1>1. Inv /\ [Next]_vars => [GivenPorts => ~DropsUsedReservation]_vars
  BY DropStep
<1> QED BY <1>1, InvAlways, PTL DEF Spec, GivenReservationKept

---------------------------------------------------------------------------
(* Refinement of PortLease *)

\* An object has no port before Acquire, and afterwards the one it asked for if it asked.
AskedPorts ==
    \A x \in Pxy : /\ pc[x] \in {"none", "acquire"} => port[x] = 0
                   /\ pc[x] = "none" => req[x] = 0
                   /\ port[x] # 0 /\ req[x] # 0 => port[x] = req[x]

\* The sockets of frps are those of the objects that have passed Listen and not Close.
SocketsOwned ==
    /\ \A p \in Port : bound[p] \in Pxy => port[bound[p]] = p /\ pc[bound[p]] \in {"add", "up"}
    /\ \A x \in Pxy : pc[x] \in {"add", "up"} => bound[port[x]] = x

LeaseInv == AskedPorts /\ SocketsOwned

LEMMA InitLease == Init => LeaseInv
BY PortAssumption, Markers DEF Init, LeaseInv, AskedPorts, SocketsOwned

\* The steps after which an object's goroutine is elsewhere but no socket, port or request is.
LEMMA QuietLease ==
    ASSUME Inv, LeaseInv, NEW x \in Pxy, NEW l \in PCs \ {"none", "acquire", "add", "up"},
           pc' = [pc EXCEPT ![x] = l], pc[x] \notin {"none", "add", "up"},
           UNCHANGED <<bound, port, req>>
    PROVE  LeaseInv'
<1> USE DEF Inv, TablesInv, TypeOK, LeaseInv
<1>1. AskedPorts'
  BY DEF AskedPorts
<1>2. SocketsOwned'
  BY DEF SocketsOwned
<1> QED BY <1>1, <1>2

LEMMA AcquireLease ==
    ASSUME Inv, LeaseInv, NEW x \in Pxy, Acquire(x)
    PROVE  LeaseInv'
<1> USE DEF Acquire, Goto, objectVars, LeaseInv
<1>0. TypeOK
  BY DEF Inv, TablesInv
<1>1. PICK p \in Candidates(x) : port' = [port EXCEPT ![x] = p]
  OBVIOUS
<1>2. p \in Port /\ (req[x] # 0 => p = req[x])
  BY CandidatePort DEF Candidates
<1>3. AskedPorts'
  BY <1>0, <1>1, <1>2 DEF TypeOK, AskedPorts
<1>4. SocketsOwned'
  BY <1>0, <1>1, Markers DEF TypeOK, SocketsOwned
<1> QED BY <1>3, <1>4

LEMMA ListenLease ==
    ASSUME Inv, LeaseInv, NEW x \in Pxy, Listen(x)
    PROVE  LeaseInv'
<1> USE DEF Listen, Goto, objectVars, LeaseInv
<1>0. TypeOK /\ port[x] \in Port
  BY DEF Inv, TablesInv, PortsKnown, Holding
<1>1. AskedPorts'
  BY <1>0 DEF TypeOK, AskedPorts
<1>2. SocketsOwned'
  <2>1. ASSUME NEW y \in Pxy, y # x, pc[y] \in {"add", "up"} PROVE port[y] # port[x]
    BY <1>0, <2>1, Markers DEF TypeOK, SocketsOwned
  <2> QED BY <1>0, <2>1, Markers DEF TypeOK, SocketsOwned
<1> QED BY <1>1, <1>2

LEMMA CloseLease ==
    ASSUME Inv, LeaseInv, NEW x \in Pxy, Close(x)
    PROVE  LeaseInv'
<1> USE DEF Close, CloseSocket, Goto, objectVars, LeaseInv
<1>0. TypeOK /\ port[x] \in Port /\ \A y \in Pxy : pc[y] \in {"add", "up"} => port[y] \in Port
  BY DEF Inv, TablesInv, PortsKnown, Holding
<1>1. AskedPorts'
  BY <1>0 DEF TypeOK, AskedPorts
<1>2. SocketsOwned'
  BY <1>0, Markers DEF TypeOK, SocketsOwned
<1> QED BY <1>1, <1>2

LEMMA StepLease == Inv /\ LeaseInv /\ [Next]_vars => LeaseInv'
<1> SUFFICES ASSUME Inv, LeaseInv, [Next]_vars PROVE LeaseInv' OBVIOUS
<1>0. TypeOK /\ AskedPorts /\ SocketsOwned
  BY DEF Inv, TablesInv, LeaseInv
<1>1. CASE UNCHANGED <<bound, port, req, pc>>
  BY <1>0, <1>1 DEF LeaseInv, AskedPorts, SocketsOwned
<1>2. ASSUME NEW x \in Pxy, NEW n \in Name, NEW r \in Requests, NewProxy(x, n, r)
      PROVE  LeaseInv'
  <2>1. AskedPorts'
    BY <1>0, <1>2 DEF NewProxy, Goto, TypeOK, AskedPorts
  <2>2. SocketsOwned'
    BY <1>0, <1>2 DEF NewProxy, Goto, TypeOK, SocketsOwned
  <2> QED BY <2>1, <2>2 DEF LeaseInv
<1>3. ASSUME NEW x \in Pxy, AcquireFails(x) \/ ListenFails(x) \/ Del(x) \/ ReleasePort(x)
      PROVE  LeaseInv'
  BY <1>3, QuietLease DEF AcquireFails, ListenFails, Del, ReleasePort, Goto, objectVars, PCs
<1>4. ASSUME NEW x \in Pxy, Add(x) PROVE LeaseInv'
  BY <1>0, <1>4 DEF Add, Goto, objectVars, TypeOK, LeaseInv, AskedPorts, SocketsOwned
<1>5. ASSUME NEW p \in Contested, OtherProgram(p) PROVE LeaseInv'
  <2>1. p \in Port /\ bound' = [bound EXCEPT ![p] = bound'[p]] /\ bound'[p] \notin Pxy
        /\ bound[p] \notin Pxy
    BY <1>0, <1>5, PortAssumption, Markers DEF OtherProgram, TypeOK
  <2> QED BY <1>0, <1>5, <2>1 DEF OtherProgram, objectVars, TypeOK, LeaseInv, AskedPorts, SocketsOwned
<1>6. ((\E x \in Pxy : DayPasses(x) \/ ForwardEnds(x)) \/ CleanReservedPorts \/ UNCHANGED vars)
          => UNCHANGED <<bound, port, req, pc>>
  BY DEF DayPasses, ForwardEnds, CleanReservedPorts, vars, objectVars
<1> QED BY <1>1, <1>2, <1>3, <1>4, <1>5, <1>6, AcquireLease, ListenLease, CloseLease
     DEF Next, Running

LEMMA LeaseAlways == Spec => [](Inv /\ LeaseInv)
BY InitInv, InitLease, StepInv, StepLease, PTL DEF Spec

\* Acquire of a given port leases it.
LEMMA AcquireIsLease ==
    ASSUME Inv, LeaseInv, NEW x \in Pxy, Acquire(x), GivenPorts
    PROVE  Leases!Lease(x)
<1> USE DEF Acquire, Take, Goto, objectVars
<1>0. TypeOK /\ PortPartition
  BY DEF Inv, TablesInv
<1>1. PICK p \in Candidates(x) : Take(x, p) /\ port' = [port EXCEPT ![x] = p]
  OBVIOUS
<1>2. req[x] # 0 /\ p = req[x] /\ p \in Port /\ usedPorts[p] = NoPxy
  BY <1>0, <1>1, CandidatePort DEF GivenPorts, Candidates, PortPartition
<1>3. port[x] = 0
  BY DEF LeaseInv, AskedPorts
<1>4. {y \in Pxy : port'[y] # 0} = {y \in Pxy : port[y] # 0} \cup {x}
  BY <1>0, <1>1, <1>2, Markers DEF TypeOK
<1>5. Sockets' = Sockets
  BY DEF Sockets
<1> QED BY <1>1, <1>2, <1>3, <1>4, <1>5 DEF Leases!Lease

\* Listen opens a leased port.
LEMMA ListenIsOpen ==
    ASSUME Inv, LeaseInv, NEW x \in Pxy, Listen(x), GivenPorts
    PROVE  Leases!Open(x)
<1> USE DEF Listen, objectVars, managerVars
<1>0. TypeOK /\ port[x] \in Port /\ usedPorts[port[x]] = x
  BY DEF Inv, TablesInv, PortsKnown, GivenInv, Holding
<1>1. req[x] = port[x]
  BY <1>0, Markers DEF GivenPorts, LeaseInv, AskedPorts
<1>2. Sockets[req[x]] = NoPxy
  BY <1>0, <1>1 DEF Sockets
<1>3. Sockets' = [Sockets EXCEPT ![req[x]] = x]
  BY <1>0, <1>1, Markers DEF Sockets, TypeOK
<1> QED BY <1>0, <1>1, <1>2, <1>3 DEF Leases!Open, Leases!Has

\* Close shuts the socket and keeps the lease.
LEMMA CloseIsShut ==
    ASSUME Inv, LeaseInv, NEW x \in Pxy, Close(x), GivenPorts
    PROVE  Leases!Shut(x)
<1> USE DEF Close, CloseSocket, objectVars, managerVars
<1>0. TypeOK /\ port[x] \in Port /\ usedPorts[port[x]] = x
  BY DEF Inv, TablesInv, PortsKnown, GivenInv, Holding
<1>1. req[x] = port[x] /\ bound[port[x]] = x
  BY <1>0, Markers DEF GivenPorts, LeaseInv, AskedPorts, SocketsOwned
<1>2. Sockets[req[x]] = x
  BY <1>0, <1>1, Markers DEF Sockets
<1>3. \A p \in Port : bound[p] = x => p = port[x]
  BY DEF LeaseInv, SocketsOwned
<1>4. Sockets' = [Sockets EXCEPT ![req[x]] = NoPxy]
  BY <1>0, <1>1, <1>3, Markers DEF Sockets, TypeOK
<1> QED BY <1>0, <1>1, <1>2, <1>4 DEF Leases!Shut, Leases!Has

\* Release gives the lease back, of the object that calls it, whose socket is closed.
LEMMA ReleaseIsGiveBack ==
    ASSUME Inv, LeaseInv, NEW x \in Pxy, ReleasePort(x), GivenPorts
    PROVE  Leases!GiveBack(x)
<1> USE DEF ReleasePort, objectVars
<1>0. TypeOK /\ PortPartition /\ port[x] \in Port /\ usedPorts[port[x]] = x
  BY DEF Inv, TablesInv, PortsKnown, GivenInv, Holding
<1>1. req[x] = port[x] /\ bound[port[x]] # x
  BY <1>0, Markers DEF GivenPorts, LeaseInv, AskedPorts, SocketsOwned
<1>2. usedPorts' = [usedPorts EXCEPT ![port[x]] = NoPxy]
  BY <1>0, ReleaseTables
<1>3. Sockets[req[x]] # x /\ Sockets' = Sockets
  BY <1>0, <1>1, Markers DEF Sockets
<1> QED BY <1>0, <1>1, <1>2, <1>3 DEF Leases!GiveBack, Leases!Has

\* A request for a given port.
LEMMA NewProxyIsAsk ==
    ASSUME Inv, LeaseInv, NEW x \in Pxy, NEW n \in Name, NEW r \in Requests, NewProxy(x, n, r)
    PROVE  Leases!Ask(x, r)
<1>1. req[x] = 0 /\ port[x] = 0
  BY DEF NewProxy, LeaseInv, AskedPorts
<1> QED BY <1>1 DEF NewProxy, managerVars, Sockets, Leases!Ask

\* Steps that touch neither requests, ports, bookings nor sockets of frps.
LEMMA StutterIsStutter ==
    ASSUME TypeOK, UNCHANGED <<req, port, usedPorts>>, Sockets' = Sockets
    PROVE  UNCHANGED Leases!vars
BY DEF Leases!vars

LEMMA OtherStutters ==
    ASSUME Inv, NEW p \in Contested, OtherProgram(p)
    PROVE  UNCHANGED Leases!vars
<1>1. TypeOK /\ p \in Port
  BY PortAssumption DEF Inv, TablesInv
<1>2. Sockets' = Sockets
  BY <1>1, Markers DEF OtherProgram, Sockets, TypeOK
<1> QED BY <1>1, <1>2, StutterIsStutter DEF OtherProgram, managerVars, objectVars

\* Only Acquire, Listen, Close, Release and the request itself show.
LEMMA LeaseStep == Inv /\ LeaseInv /\ [Next]_vars /\ GivenPorts' => [Leases!Next]_Leases!vars
<1> SUFFICES ASSUME Inv, LeaseInv, [Next]_vars, GivenPorts' PROVE [Leases!Next]_Leases!vars
  OBVIOUS
<1>0. TypeOK /\ PortsKnown
  BY DEF Inv, TablesInv
<1>1. ASSUME NEW x \in Pxy, NEW n \in Name, NEW r \in Requests, NewProxy(x, n, r)
      PROVE  Leases!Next
  BY <1>1, NewProxyIsAsk DEF Leases!Next
<1>2. CASE UNCHANGED <<req, port, usedPorts, bound>>
  BY <1>0, <1>2, StutterIsStutter DEF Sockets
<1>3. CASE UNCHANGED <<proto, req>> /\ \A y \in Pxy : pc[y] # "none" => pc'[y] # "none"
  <2>1. GivenPorts
    BY <1>3 DEF GivenPorts
  <2>2. ASSUME NEW x \in Pxy, Acquire(x) \/ Listen(x) \/ Close(x) \/ ReleasePort(x)
        PROVE  Leases!Next
    BY <2>1, <2>2, AcquireIsLease, ListenIsOpen, CloseIsShut, ReleaseIsGiveBack DEF Leases!Next
  <2>3. ASSUME NEW x \in Pxy, AcquireFails(x) \/ ListenFails(x) \/ Add(x) \/ Del(x) \/ DayPasses(x)
        PROVE  UNCHANGED <<req, port, usedPorts, bound>>
    BY <2>3 DEF AcquireFails, ListenFails, Add, Del, DayPasses, managerVars, objectVars
  <2>4. ASSUME NEW x \in Pxy, ForwardEnds(x) PROVE FALSE
    BY <1>0, <2>1, <2>4 DEF ForwardEnds, PortsKnown, GivenPorts
  <2>5. CleanReservedPorts \/ UNCHANGED vars => UNCHANGED <<req, port, usedPorts, bound>>
    BY DEF CleanReservedPorts, vars, managerVars, objectVars
  <2> QED BY <1>1, <1>2, <2>2, <2>3, <2>4, <2>5, OtherStutters DEF Next, Running
<1>4. Next => \/ \E x \in Pxy, n \in Name, r \in Requests : NewProxy(x, n, r)
              \/ UNCHANGED <<proto, req>> /\ \A y \in Pxy : pc[y] # "none" => pc'[y] # "none"
  <2>1. ASSUME NEW x \in Pxy, Running(x) \/ Close(x)
        PROVE  UNCHANGED <<proto, req>> /\ \A y \in Pxy : pc[y] # "none" => pc'[y] # "none"
    BY <1>0, <2>1 DEF Running, Acquire, AcquireFails, Listen, ListenFails, Add, Close, ReleasePort,
       Del, ForwardEnds, Goto, objectVars, TypeOK
  <2>2. (\E x \in Pxy : DayPasses(x)) \/ CleanReservedPorts \/ (\E p \in Contested : OtherProgram(p))
          => UNCHANGED <<proto, req, pc>>
    BY DEF DayPasses, CleanReservedPorts, OtherProgram, objectVars
  <2> QED BY <2>1, <2>2 DEF Next
<1>5. UNCHANGED vars => UNCHANGED <<req, port, usedPorts, bound>>
  BY DEF vars, managerVars, objectVars
<1> QED BY <1>1, <1>2, <1>3, <1>4, <1>5

LEMMA InitLeases == Init => Leases!Init
<1> SUFFICES ASSUME Init PROVE Leases!Init OBVIOUS
<1>1. {x \in Pxy : port[x] # 0} = {}
  BY DEF Init
<1>2. Sockets = [p \in Port |-> NoPxy]
  BY DEF Init, Sockets
<1> QED BY <1>1, <1>2 DEF Init, Leases!Init

\* The port manager and the proxies that use it implement PortLease, as long as all
\* proxies so far are tcp proxies that ask for given ports: however their Acquire,
\* net.Listen, Close and Release interleave, whatever other programs open, and whichever
\* step of Run fails.
THEOREM LeaseImplemented == Spec => ImplementsLease
<1>1. Inv /\ LeaseInv /\ [Next]_vars => [GivenPorts' => [Leases!Next]_Leases!vars]_vars
  BY LeaseStep
<1> QED BY <1>1, InitLeases, LeaseAlways, PTL DEF Spec, ImplementsLease
=============================================================================
