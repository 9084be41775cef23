-------------------------- MODULE Dashboard_proofs -------------------------
(***************************************************************************)
(* Proofs about the statistics of frps and its dashboard.                     *)
(*                                                                          *)
(* ServerMetrics: for any number of clients that compete for any number of    *)
(* names, and for any number of registrations.  The reports that are due       *)
(* carry them: ReportInv says what the table of proxies and the statistics     *)
(* are like while a report is on its way.                                     *)
(*                                                                          *)
(* Dashboard: for every type of page, any configurations of frps and of the    *)
(* proxies and any number of requests.  ReqsOK carries them: a request that    *)
(* belongs to the mounted component was made for the page that is shown.      *)
(*                                                                          *)
(* ProxyTraffic: for every number of days that a counter keeps, any number of  *)
(* days that it is used or left alone, and any traffic.                       *)
(***************************************************************************)
EXTENDS Dashboard, ProxyTraffic, FiniteSetTheorems, TLAPS

\* The control that is to report a new proxy still has it.
NewIsHeld ==
    \A c \in Client : report[c] # NoCall /\ report[c].call = "NewProxy" =>
        pxys[report[c].name] = [client |-> c, type |-> report[c].type]

\* The control that is to report the end of a proxy does not have it, and it owned it.
ClosedIsFree ==
    \A c \in Client : report[c] # NoCall /\ report[c].call = "CloseProxy" =>
        /\ pxys[report[c].name] # NoPxy => pxys[report[c].name].client # c
        /\ c \in Owner[report[c].name]
        /\ report[c].type \in counted

\* ProxyTypeCounts has the type of a proxy as soon as the proxy is reported.
HeldIsCounted ==
    \A n \in Name : pxys[n] # NoPxy =>
        /\ pxys[n].client \in Owner[n]
        /\ \/ pxys[n].type \in counted
           \/ report[pxys[n].client] = Call("NewProxy", n, pxys[n].type)

ReportInv == NewIsHeld /\ ClosedIsFree /\ HeldIsCounted

Inv == ServerTypeOK /\ ReportInv

---------------------------------------------------------------------------
LEMMA InitInv == ServerInit => Inv
BY OwnerAssumption DEF ServerInit, Inv, ServerTypeOK, ReportInv, NewIsHeld, ClosedIsFree,
                       HeldIsCounted

LEMMA RegisterInv ==
    ASSUME Inv, NEW c \in Client, NEW n \in Name, NEW t \in Type, RegisterProxy(c, n, t)
    PROVE  Inv'
<1> USE OwnerAssumption, NonesAssumption DEF Inv, RegisterProxy, metrics, Call
<1>1. ServerTypeOK'
  BY DEF ServerTypeOK
<1>2. NewIsHeld'
  BY DEF ServerTypeOK, ReportInv, NewIsHeld
<1>3. ClosedIsFree'
  BY DEF ServerTypeOK, ReportInv, ClosedIsFree
<1>4. HeldIsCounted'
  BY DEF ServerTypeOK, ReportInv, HeldIsCounted
<1> QED BY <1>1, <1>2, <1>3, <1>4 DEF ReportInv

LEMMA DelInv ==
    ASSUME Inv, NEW c \in Client, NEW n \in Name, DelProxy(c, n)
    PROVE  Inv'
<1> USE OwnerAssumption, NonesAssumption DEF Inv, DelProxy, metrics, Call
<1>1. ServerTypeOK'
  BY DEF ServerTypeOK
<1>2. NewIsHeld'
  BY DEF ServerTypeOK, ReportInv, NewIsHeld
<1>3. ClosedIsFree'
  <2>1. pxys[n].client = c /\ pxys[n].type \in Type /\ c \in Owner[n]
    BY DEF ServerTypeOK, ReportInv, HeldIsCounted
  <2>2. Call("NewProxy", n, pxys[n].type) # NoCall
    BY <2>1
  <2>3. pxys[n].type \in counted
    BY <2>1, <2>2 DEF ReportInv, HeldIsCounted
  <2>4. SUFFICES ASSUME NEW d \in Client, report'[d] # NoCall, report'[d].call = "CloseProxy"
                 PROVE  /\ pxys'[report'[d].name] # NoPxy => pxys'[report'[d].name].client # d
                        /\ d \in Owner[report'[d].name]
                        /\ report'[d].type \in counted'
    BY DEF ClosedIsFree
  <2>5. CASE d = c
    BY <2>1, <2>3, <2>5 DEF ServerTypeOK
  <2>6. CASE d # c
    BY <2>4, <2>6 DEF ServerTypeOK, ReportInv, ClosedIsFree
  <2> QED BY <2>5, <2>6
<1>4. HeldIsCounted'
  BY DEF ServerTypeOK, ReportInv, HeldIsCounted
<1> QED BY <1>1, <1>2, <1>3, <1>4 DEF ReportInv

LEMMA NewProxyInv ==
    ASSUME Inv, NEW c \in Client, NewProxy(c)
    PROVE  Inv'
<1> USE OwnerAssumption, NonesAssumption DEF Inv, NewProxy, Call
<1>1. ServerTypeOK'
  BY DEF ServerTypeOK
<1>2. NewIsHeld'
  BY DEF ServerTypeOK, ReportInv, NewIsHeld
<1>3. ClosedIsFree'
  BY DEF ServerTypeOK, ReportInv, ClosedIsFree
<1>4. HeldIsCounted'
  BY DEF ServerTypeOK, ReportInv, HeldIsCounted
<1> QED BY <1>1, <1>2, <1>3, <1>4 DEF ReportInv

LEMMA CloseProxyInv ==
    ASSUME Inv, NEW c \in Client, CloseProxy(c)
    PROVE  Inv'
<1> USE OwnerAssumption, NonesAssumption DEF Inv, CloseProxy, Call
<1>1. ServerTypeOK'
  <2>1. report[c].type \in Type /\ report[c].name \in Name
    BY DEF ServerTypeOK
  <2>2. typeCounts' \in [Type -> Int]
    BY <2>1 DEF ServerTypeOK
  <2>3. stats' \in [Name -> [type : Type, open : BOOLEAN] \cup {NoStats}]
    <3>1. \A s \in [type : Type, open : BOOLEAN] :
              [s EXCEPT !.open = FALSE] \in [type : Type, open : BOOLEAN]
      OBVIOUS
    <3> QED BY <2>1, <3>1 DEF ServerTypeOK
  <2>4. UNCHANGED <<pxys, counted, regs>> /\ report' = [report EXCEPT ![c] = NoCall]
    OBVIOUS
  <2> QED BY <2>2, <2>3, <2>4 DEF ServerTypeOK
<1>2. NewIsHeld'
  BY DEF ServerTypeOK, ReportInv, NewIsHeld
<1>3. ClosedIsFree'
  BY DEF ServerTypeOK, ReportInv, ClosedIsFree
<1>4. HeldIsCounted'
  BY DEF ServerTypeOK, ReportInv, HeldIsCounted
<1> QED BY <1>1, <1>2, <1>3, <1>4 DEF ReportInv

LEMMA ClearInv ==
    ASSUME Inv, NEW names \in SUBSET Name, ClearUselessInfo(names)
    PROVE  Inv'
<1> USE DEF Inv, ClearUselessInfo
<1>1. ServerTypeOK'
  BY DEF ServerTypeOK
<1>2. ReportInv'
  BY DEF ReportInv, NewIsHeld, ClosedIsFree, HeldIsCounted
<1> QED BY <1>1, <1>2

LEMMA RestartInv == Inv /\ ServerRestart => Inv'
BY OwnerAssumption DEF Inv, ServerRestart, ServerTypeOK, ReportInv, NewIsHeld, ClosedIsFree,
                       HeldIsCounted

\* A step of frps by itself, or none.
LEMMA StepInv == Inv /\ [ServerNext]_serverVars => Inv'
<1> SUFFICES ASSUME Inv, [ServerNext]_serverVars PROVE Inv' OBVIOUS
<1>1. CASE UNCHANGED serverVars
  BY <1>1 DEF serverVars, metrics, Inv, ServerTypeOK, ReportInv, NewIsHeld, ClosedIsFree, HeldIsCounted
<1>2. CASE Controls
  BY <1>2, RegisterInv, DelInv, NewProxyInv, CloseProxyInv, ClearInv DEF Controls, ClearOld
<1>3. CASE ClearUselessInfo(Name)
  BY <1>3, ClearInv
<1>4. CASE ServerRestart
  BY <1>4, RestartInv
<1> QED BY <1>1, <1>2, <1>3, <1>4 DEF ServerNext

LEMMA InvAlways == ServerSpec => []Inv
BY InitInv, StepInv, PTL DEF ServerSpec

\* Types of the tables of frps: a proxy and its statistics have one of the known types,
\* whatever is cleared, restarted or reported late.
THEOREM ServerTypeCorrect == ServerSpec => []ServerTypeOK
<1>1. Inv => ServerTypeOK BY DEF Inv
<1> QED BY <1>1, InvAlways, PTL

---------------------------------------------------------------------------
(* Statistics *)

\* Clients that own one name are one client, when it has at most one owner.
LEMMA OneOwner ==
    ASSUME NEW n \in Name, Cardinality(Owner[n]) <= 1, NEW c \in Owner[n], NEW d \in Owner[n]
    PROVE  c = d
<1>1. IsFiniteSet(Owner[n])
  BY OwnerAssumption, FiniteAssumption, FS_Subset
<1>2. Cardinality(Owner[n]) \in Nat /\ Cardinality(Owner[n]) # 0
  BY <1>1, FS_CardinalityType, FS_EmptySet
<1>3. Cardinality(Owner[n]) = 1
  BY <1>2
<1>4. PICK x : Owner[n] = {x}
  BY <1>1, <1>3, FS_Singleton
<1> QED BY <1>4

\* A control that takes up a report concerns no other name.
LEMMA ReportsElsewhere ==
    ASSUME Inv, NEW c \in Client, NEW r, report' = [report EXCEPT ![c] = r],
           NEW m \in Name, report[c] = NoCall \/ report[c].name # m, ~Reports(m)'
    PROVE  ~Reports(m)
BY DEF Inv, ServerTypeOK, Reports

LEMMA StatsStep == Inv /\ StatsAgree /\ [ServerNext]_serverVars => StatsAgree'
<1> SUFFICES ASSUME Inv, StatsAgree, [ServerNext]_serverVars,
                    NEW m \in Name, Cardinality(Owner[m]) <= 1, ~Reports(m)'
             PROVE  IF pxys'[m] = NoPxy THEN stats'[m] = NoStats \/ Closed(m)'
                    ELSE stats'[m] = [type |-> pxys'[m].type, open |-> TRUE]
  BY DEF StatsAgree
<1> DEFINE Agrees == IF pxys[m] = NoPxy THEN stats[m] = NoStats \/ Closed(m)
                     ELSE stats[m] = [type |-> pxys[m].type, open |-> TRUE]
<1>0. ~Reports(m) => Agrees
  BY DEF StatsAgree
<1>1. CASE UNCHANGED serverVars
  BY <1>0, <1>1 DEF serverVars, metrics, Reports, Closed
<1>2. ASSUME NEW c \in Client, NEW n \in Name, NEW t \in Type, RegisterProxy(c, n, t)
      PROVE  Agrees'
  <2>1. ~Reports(m)
    BY <1>2, ReportsElsewhere DEF RegisterProxy
  <2>2. m # n
    BY <1>2, NonesAssumption DEF RegisterProxy, Reports, Call, Inv, ServerTypeOK
  <2> QED BY <1>0, <1>2, <2>1, <2>2 DEF RegisterProxy, metrics, Closed, Inv, ServerTypeOK
<1>3. ASSUME NEW c \in Client, NEW n \in Name, DelProxy(c, n)
      PROVE  Agrees'
  <2>1. ~Reports(m)
    BY <1>3, ReportsElsewhere DEF DelProxy
  <2>2. m # n
    <3>1. Call("CloseProxy", n, pxys[n].type) # NoCall
      BY <1>3, NonesAssumption DEF DelProxy, Call, Inv, ServerTypeOK
    <3>2. report'[c] = Call("CloseProxy", n, pxys[n].type)
      BY <1>3 DEF DelProxy, Inv, ServerTypeOK
    <3> QED BY <3>1, <3>2 DEF Reports, Call
  <2> QED BY <1>0, <1>3, <2>1, <2>2 DEF DelProxy, metrics, Closed, Inv, ServerTypeOK
<1>4. ASSUME NEW c \in Client, NewProxy(c)
      PROVE  Agrees'
  <2>1. CASE report[c].name = m
    <3>1. pxys[m] = [client |-> c, type |-> report[c].type]
      BY <1>4, <2>1 DEF NewProxy, Inv, ReportInv, NewIsHeld
    <3>2. pxys[m] # NoPxy
      BY <1>4, <3>1, NonesAssumption DEF NewProxy, Inv, ServerTypeOK
    <3>3. stats'[m] = [type |-> report[c].type, open |-> TRUE] /\ pxys' = pxys
      BY <1>4, <2>1 DEF NewProxy, Inv, ServerTypeOK
    <3>4. pxys'[m] # NoPxy /\ pxys'[m].type = report[c].type
      BY <3>1, <3>2, <3>3
    <3> QED BY <3>3, <3>4
  <2>2. CASE report[c].name # m
    <3>1. ~Reports(m)
      BY <1>4, <2>2, ReportsElsewhere DEF NewProxy
    <3> QED BY <1>0, <1>4, <2>2, <3>1 DEF NewProxy, Closed, Inv, ServerTypeOK
  <2> QED BY <2>1, <2>2
<1>5. ASSUME NEW c \in Client, CloseProxy(c)
      PROVE  Agrees'
  <2>1. CASE report[c].name = m
    <3>1. pxys[m] = NoPxy
      <4>1. c \in Owner[m] /\ (pxys[m] # NoPxy => pxys[m].client # c)
        BY <1>5, <2>1 DEF CloseProxy, Inv, ReportInv, ClosedIsFree
      <4>2. pxys[m] # NoPxy => pxys[m].client \in Owner[m]
        BY DEF Inv, ReportInv, HeldIsCounted
      <4> QED BY <4>1, <4>2, OneOwner
    <3>2. stats'[m] = NoStats \/ Closed(m)'
      <4>1. stats'[m] = IF stats[m] = NoStats THEN NoStats ELSE [stats[m] EXCEPT !.open = FALSE]
        BY <1>5, <2>1 DEF CloseProxy, Inv, ServerTypeOK
      <4>2. CASE stats[m] = NoStats
        BY <4>1, <4>2
      <4>3. CASE stats[m] # NoStats
        <5>1. stats[m] \in [type : Type, open : BOOLEAN]
          BY <4>3 DEF Inv, ServerTypeOK
        <5>2. /\ [stats[m] EXCEPT !.open = FALSE] \in [type : Type, open : BOOLEAN]
              /\ [stats[m] EXCEPT !.open = FALSE].open = FALSE
          BY <5>1
        <5>3. stats'[m] # NoStats /\ stats'[m].open = FALSE
          BY <4>1, <4>3, <5>2, NonesAssumption
        <5> QED BY <5>3 DEF Closed
      <4> QED BY <4>2, <4>3
    <3> QED BY <1>5, <3>1, <3>2 DEF CloseProxy
  <2>2. CASE report[c].name # m
    <3>1. ~Reports(m)
      BY <1>5, <2>2, ReportsElsewhere DEF CloseProxy
    <3> QED BY <1>0, <1>5, <2>2, <3>1 DEF CloseProxy, Closed, Inv, ServerTypeOK
  <2> QED BY <2>1, <2>2
<1>6. ASSUME NEW names \in SUBSET Name, ClearUselessInfo(names)
      PROVE  Agrees'
  <2>1. Agrees /\ pxys' = pxys
    BY <1>0, <1>6 DEF ClearUselessInfo, Reports
  <2>2. CASE m \in names /\ Closed(m)
    <3>1. stats'[m] = NoStats
      BY <1>6, <2>2 DEF ClearUselessInfo
    <3>2. pxys[m] = NoPxy
      BY <2>1, <2>2 DEF Closed
    <3> QED BY <2>1, <3>1, <3>2
  <2>3. CASE ~(m \in names /\ Closed(m))
    <3>1. stats'[m] = stats[m]
      BY <1>6, <2>3 DEF ClearUselessInfo
    <3> QED BY <2>1, <3>1 DEF Closed
  <2> QED BY <2>2, <2>3
<1>7. CASE ServerRestart
  BY <1>7 DEF ServerRestart, Closed
<1> QED
  BY <1>1, <1>2, <1>3, <1>4, <1>5, <1>6, <1>7 DEF ServerNext, Controls, ClearOld

\* The statistics of a name say online, with the right type, exactly of a proxy that is
\* there and reported: whichever client is served first, and whatever is cleared by the
\* weekly cleaner, by the dashboard or by a restart in between.
THEOREM StatsCorrect == ServerSpec => []StatsAgree
<1>1. ServerInit => StatsAgree
  BY DEF ServerInit, StatsAgree, Closed
<1> QED BY <1>1, InvAlways, StatsStep, PTL DEF ServerSpec

---------------------------------------------------------------------------
(* Counts *)

LEMMA SetsFinite ==
    ASSUME NEW t \in Type, NEW call
    PROVE  /\ IsFiniteSet(Registered(t)) /\ Cardinality(Registered(t)) \in Nat
           /\ IsFiniteSet(Reporting(call, t)) /\ Cardinality(Reporting(call, t)) \in Nat
<1>1. Registered(t) \subseteq Name /\ Reporting(call, t) \subseteq Client
  BY DEF Registered, Reporting
<1> QED BY <1>1, FiniteAssumption, FS_Subset, FS_CardinalityType

\* A member more or less.
LEMMA OneMore ==
    ASSUME NEW S, NEW x, IsFiniteSet(S), x \notin S
    PROVE  Cardinality(S \cup {x}) = Cardinality(S) + 1
BY FS_AddElement

LEMMA OneLess ==
    ASSUME NEW S, NEW x, IsFiniteSet(S), x \in S
    PROVE  Cardinality(S \ {x}) = Cardinality(S) - 1
BY FS_RemoveElement

\* What CountsAgree says of one type.
CountAgrees(t) ==
    typeCounts[t] = Cardinality(Registered(t)) - Cardinality(Reporting("NewProxy", t))
                    + Cardinality(Reporting("CloseProxy", t))

LEMMA CountsStep == Inv /\ CountsAgree /\ [ServerNext]_serverVars => CountsAgree'
<1> SUFFICES ASSUME Inv, CountsAgree, [ServerNext]_serverVars, NEW t \in Type
             PROVE  CountAgrees(t)'
  BY DEF CountsAgree, CountAgrees
<1>0. CountAgrees(t) /\ typeCounts \in [Type -> Int]
  BY DEF CountsAgree, CountAgrees, Inv, ServerTypeOK
<1>f. /\ IsFiniteSet(Registered(t)) /\ Cardinality(Registered(t)) \in Nat
      /\ IsFiniteSet(Reporting("NewProxy", t)) /\ Cardinality(Reporting("NewProxy", t)) \in Nat
      /\ IsFiniteSet(Reporting("CloseProxy", t)) /\ Cardinality(Reporting("CloseProxy", t)) \in Nat
  BY SetsFinite
<1>1. CASE UNCHANGED serverVars
  BY <1>0, <1>1 DEF serverVars, metrics, CountAgrees, Registered, Reporting
<1>2. ASSUME NEW c \in Client, NEW n \in Name, NEW u \in Type, RegisterProxy(c, n, u)
      PROVE  CountAgrees(t)'
  <2> USE <1>2, NonesAssumption DEF RegisterProxy, metrics, Call, Inv, ServerTypeOK
  <2>1. Reporting("CloseProxy", t)' = Reporting("CloseProxy", t)
    BY DEF Reporting
  <2>2. CASE u = t
    <3>1. Registered(t)' = Registered(t) \cup {n} /\ n \notin Registered(t)
      BY <2>2 DEF Registered
    <3>2. Reporting("NewProxy", t)' = Reporting("NewProxy", t) \cup {c}
          /\ c \notin Reporting("NewProxy", t)
      BY <2>2 DEF Reporting
    <3> QED BY <1>0, <1>f, <2>1, <3>1, <3>2, OneMore DEF CountAgrees
  <2>3. CASE u # t
    <3>1. Registered(t)' = Registered(t)
      BY <2>3 DEF Registered
    <3>2. Reporting("NewProxy", t)' = Reporting("NewProxy", t)
      BY <2>3 DEF Reporting
    <3> QED BY <1>0, <2>1, <3>1, <3>2 DEF CountAgrees
  <2> QED BY <2>2, <2>3
<1>3. ASSUME NEW c \in Client, NEW n \in Name, DelProxy(c, n)
      PROVE  CountAgrees(t)'
  <2> USE <1>3, NonesAssumption DEF DelProxy, metrics, Call, Inv, ServerTypeOK
  <2>1. Reporting("NewProxy", t)' = Reporting("NewProxy", t)
    BY DEF Reporting
  <2>2. CASE pxys[n].type = t
    <3>1. Registered(t)' = Registered(t) \ {n} /\ n \in Registered(t)
      BY <2>2 DEF Registered
    <3>2. Reporting("CloseProxy", t)' = Reporting("CloseProxy", t) \cup {c}
          /\ c \notin Reporting("CloseProxy", t)
      BY <2>2 DEF Reporting
    <3>3. Cardinality(Registered(t)') = Cardinality(Registered(t)) - 1
      BY <1>f, <3>1, OneLess
    <3>4. Cardinality(Reporting("CloseProxy", t)') = Cardinality(Reporting("CloseProxy", t)) + 1
      BY <1>f, <3>2, OneMore
    <3>5. typeCounts' = typeCounts
      OBVIOUS
    <3> QED BY <1>0, <1>f, <2>1, <3>3, <3>4, <3>5 DEF CountAgrees
  <2>3. CASE pxys[n].type # t
    <3>1. Registered(t)' = Registered(t)
      BY <2>3 DEF Registered
    <3>2. Reporting("CloseProxy", t)' = Reporting("CloseProxy", t)
      BY <2>3 DEF Reporting
    <3> QED BY <1>0, <2>1, <3>1, <3>2 DEF CountAgrees
  <2> QED BY <2>2, <2>3
<1>4. ASSUME NEW c \in Client, NewProxy(c)
      PROVE  CountAgrees(t)'
  <2> USE <1>4, NonesAssumption DEF NewProxy, Inv, ServerTypeOK
  <2>1. Registered(t)' = Registered(t) /\ Reporting("CloseProxy", t)' = Reporting("CloseProxy", t)
    BY DEF Registered, Reporting
  <2>2. CASE report[c].type = t
    <3>1. Reporting("NewProxy", t)' = Reporting("NewProxy", t) \ {c}
          /\ c \in Reporting("NewProxy", t)
      BY <2>2 DEF Reporting
    <3>2. typeCounts'[t] = typeCounts[t] + 1
      BY <2>2
    <3> QED BY <1>0, <1>f, <2>1, <3>1, <3>2, OneLess DEF CountAgrees
  <2>3. CASE report[c].type # t
    <3>1. Reporting("NewProxy", t)' = Reporting("NewProxy", t)
      BY <2>3 DEF Reporting
    <3>2. typeCounts'[t] = typeCounts[t]
      BY <2>3
    <3> QED BY <1>0, <2>1, <3>1, <3>2 DEF CountAgrees
  <2> QED BY <2>2, <2>3
<1>5. ASSUME NEW c \in Client, CloseProxy(c)
      PROVE  CountAgrees(t)'
  <2> USE <1>5, NonesAssumption DEF CloseProxy, Inv, ServerTypeOK
  <2>1. Registered(t)' = Registered(t) /\ Reporting("NewProxy", t)' = Reporting("NewProxy", t)
    BY DEF Registered, Reporting
  <2>2. report[c].type \in counted
    BY DEF ReportInv, ClosedIsFree
  <2>3. CASE report[c].type = t
    <3>1. Reporting("CloseProxy", t)' = Reporting("CloseProxy", t) \ {c}
          /\ c \in Reporting("CloseProxy", t)
      BY <2>3 DEF Reporting
    <3>2. typeCounts'[t] = typeCounts[t] - 1
      BY <2>2, <2>3
    <3> QED BY <1>0, <1>f, <2>1, <3>1, <3>2, OneLess DEF CountAgrees
  <2>4. CASE report[c].type # t
    <3>1. Reporting("CloseProxy", t)' = Reporting("CloseProxy", t)
      BY <2>4 DEF Reporting
    <3>2. typeCounts'[t] = typeCounts[t]
      BY <2>2, <2>4
    <3> QED BY <1>0, <2>1, <3>1, <3>2 DEF CountAgrees
  <2> QED BY <2>3, <2>4
<1>6. ASSUME NEW names, ClearUselessInfo(names)
      PROVE  CountAgrees(t)'
  BY <1>0, <1>6 DEF ClearUselessInfo, CountAgrees, Registered, Reporting
<1>7. CASE ServerRestart
  <2>1. Registered(t)' = {} /\ Reporting("NewProxy", t)' = {} /\ Reporting("CloseProxy", t)' = {}
    BY <1>7 DEF ServerRestart, Registered, Reporting
  <2>2. typeCounts'[t] = 0
    BY <1>7 DEF ServerRestart
  <2> QED BY <2>1, <2>2, FS_EmptySet DEF CountAgrees
<1> QED
  BY <1>1, <1>2, <1>3, <1>4, <1>5, <1>6, <1>7 DEF ServerNext, Controls, ClearOld

\* ProxyTypeCounts does not drift: it is the number of proxies of each type, up to what
\* the controls are about to report, for any number of clients that register and close
\* proxies at the same time, and whatever is cleared.
THEOREM CountsCorrect == ServerSpec => []CountsAgree
<1>1. ServerInit => CountsAgree
  <2> SUFFICES ASSUME ServerInit, NEW t \in Type PROVE CountAgrees(t)
    BY DEF CountsAgree, CountAgrees
  <2>1. Registered(t) = {} /\ Reporting("NewProxy", t) = {} /\ Reporting("CloseProxy", t) = {}
    BY DEF ServerInit, Registered, Reporting
  <2>2. typeCounts[t] = 0
    BY DEF ServerInit
  <2> QED BY <2>1, <2>2, FS_EmptySet DEF CountAgrees
<1> QED BY <1>1, InvAlways, CountsStep, PTL DEF ServerSpec

---------------------------------------------------------------------------
(* Rows *)

\* Of two objects that are merged, the first has precedence.
LEMMA MergeFirst ==
    ASSUME NEW f, NEW g, NEW x \in DOMAIN f
    PROVE  x \in DOMAIN Merge(f, g) /\ Merge(f, g)[x] = f[x]
BY DEF Merge
LEMMA MergeSecond ==
    ASSUME NEW f, NEW g, NEW x \in DOMAIN g, x \notin DOMAIN f
    PROVE  x \in DOMAIN Merge(f, g) /\ Merge(f, g)[x] = g[x]
BY DEF Merge

RowFields == {"name", "type", "status", "annotations", "encryption", "compression", "addr", "port",
              "customDomains", "hostHeaderRewrite", "locations", "subdomain"}

\* The conf of an answer is there, and a field of it that the page reads is that of
\* the configuration, or what the class of the row takes instead.
LEMMA Domains ==
    ASSUME NEW type \in {"http", "https", "tcpmux"}, NEW conf, NEW f \in DomainConfig,
           \A x \in DOMAIN conf : conf[x] # Undefined
    PROVE  Field(OutConf(type, conf), f) = Field(conf, f)
<1> DEFINE only == Only(conf, BaseOutConf \cup DomainConfig)
<1>1. f \in DOMAIN only <=> f \in DOMAIN conf
  BY DEF Only
<1>2. f \in DOMAIN conf => only[f] = conf[f]
  BY DEF Only
<1>3. f \notin {"multiplexer", "routeByHTTPUser", "locations", "hostHeaderRewrite"}
  BY DEF DomainConfig
<1>4. Field(only, f) = Field(conf, f)
  BY <1>1, <1>2 DEF Field
<1>5. ASSUME NEW rest, f \notin DOMAIN rest PROVE Field(Merge(only, rest), f) = Field(conf, f)
  <2>1. f \in DOMAIN Merge(only, rest) <=> f \in DOMAIN conf
    BY <1>1, <1>5 DEF Merge
  <2>2. f \in DOMAIN conf => Merge(only, rest)[f] = conf[f]
    BY <1>1, <1>2, MergeFirst
  <2> QED BY <2>1, <2>2 DEF Field
<1> HIDE DEF only
<1>6. CASE type = "https"
  BY <1>4, <1>6 DEF OutConf, only
<1>7. CASE type = "http"
  <2>1. OutConf(type, conf) = Merge(only, [x \in {"locations", "hostHeaderRewrite"} |-> Or(Field(conf, x), << >>)])
    BY <1>7 DEF OutConf, only
  <2> QED BY <1>3, <1>5, <2>1
<1>8. CASE type = "tcpmux"
  <2>1. OutConf(type, conf) = Merge(only, [x \in {"multiplexer", "routeByHTTPUser"} |-> Or(Field(conf, x), << >>)])
    BY <1>8 DEF OutConf, only
  <2> QED BY <1>3, <1>5, <2>1
<1> QED BY <1>6, <1>7, <1>8

LEMMA RemotePort ==
    ASSUME NEW type \in {"tcp", "udp"}, NEW conf
    PROVE  Field(OutConf(type, conf), "remotePort") = Or(Field(conf, "remotePort"), 0)
<1> DEFINE only == Only(conf, BaseOutConf)
           port == [remotePort |-> Or(Field(conf, "remotePort"), 0)]
<1>1. OutConf(type, conf) = Merge(only, port)
  BY DEF OutConf
<1>2. "remotePort" \notin DOMAIN only
  BY DEF Only, BaseOutConf
<1>3. "remotePort" \in DOMAIN port /\ port["remotePort"] = Or(Field(conf, "remotePort"), 0)
  OBVIOUS
<1> HIDE DEF only, port
<1>4. "remotePort" \in DOMAIN Merge(only, port) /\ Merge(only, port)["remotePort"] = port["remotePort"]
  BY <1>2, <1>3, MergeSecond
<1> QED BY <1>1, <1>3, <1>4 DEF Field

\* What the classes of utils/proxy.ts make of a proxy.
LEMMA TCPRow ==
    ASSUME NEW ps
    PROVE  LET r == TCPProxy(ps)
               port == IF ps.conf = Undefined THEN 0 ELSE Field(ps.conf, "remotePort")
           IN  /\ DOMAIN r = RowFields /\ r["type"] = "tcp" /\ r["name"] = ps.name
               /\ r["port"] = port
               /\ ps.conf # Undefined => r["addr"] = Addr(port)
BY DEF TCPProxy, BaseProxy, RowFields

LEMMA UDPRow ==
    ASSUME NEW ps
    PROVE  LET r == UDPProxy(ps)
               t == TCPProxy(ps)
           IN  /\ DOMAIN r = RowFields /\ r["type"] = "udp" /\ r["name"] = ps.name
               /\ r["port"] = t["port"] /\ r["addr"] = t["addr"]
BY TCPRow DEF UDPProxy, RowFields

LEMMA DomainsRow ==
    ASSUME NEW ps, NEW port, NEW host
    PROVE  LET r == WithDomains(BaseProxy(ps), ps, port, host)
               sub == Or(Field(Conf(ps), "subdomain"), << >>)
           IN  /\ DOMAIN r = RowFields /\ r["name"] = ps.name /\ r["port"] = port
               /\ r["customDomains"] = Or(Field(Conf(ps), "customDomains"), << >>)
               /\ r["subdomain"] = IF sub = << >> THEN << >> ELSE FullDomain(sub, host)
BY DEF WithDomains, BaseProxy, RowFields

\* The fields that WithDomains sets, with the type that the class adds.
HasDomains(r, type, ps, port, host) ==
    /\ RowFields \subseteq DOMAIN r /\ r["type"] = type /\ r["name"] = ps.name /\ r["port"] = port
    /\ r["customDomains"] = Or(Field(Conf(ps), "customDomains"), << >>)
    /\ r["subdomain"] = LET sub == Or(Field(Conf(ps), "subdomain"), << >>)
                        IN  IF sub = << >> THEN << >> ELSE FullDomain(sub, host)

LEMMA HTTPRows ==
    ASSUME NEW ps, NEW port, NEW host
    PROVE  /\ HasDomains(HTTPProxy(ps, port, host), "http", ps, port, host)
           /\ HasDomains(HTTPSProxy(ps, port, host), "https", ps, port, host)
           /\ HasDomains(TCPMuxProxy(ps, port, host), "tcpmux", ps, port, host)
<1> DEFINE w == WithDomains(BaseProxy(ps), ps, port, host)
<1>1. /\ DOMAIN w = RowFields /\ w["name"] = ps.name /\ w["port"] = port
      /\ w["customDomains"] = Or(Field(Conf(ps), "customDomains"), << >>)
      /\ w["subdomain"] = LET sub == Or(Field(Conf(ps), "subdomain"), << >>)
                          IN  IF sub = << >> THEN << >> ELSE FullDomain(sub, host)
  BY DomainsRow
<1>2. ASSUME NEW type PROVE HasDomains([w EXCEPT !.type = type], type, ps, port, host)
  <2> HIDE DEF w
  <2> QED BY <1>1 DEF HasDomains, RowFields
<1>3. HasDomains(HTTPSProxy(ps, port, host), "https", ps, port, host)
  BY <1>2 DEF HTTPSProxy
<1>4. HasDomains(HTTPProxy(ps, port, host), "http", ps, port, host)
  <2>1. CASE ps.conf = Undefined
    BY <1>2, <2>1 DEF HTTPProxy
  <2>2. CASE ps.conf # Undefined
    <3>1. PICK x, y : HTTPProxy(ps, port, host) =
                          [w EXCEPT !.type = "http", !.hostHeaderRewrite = x, !.locations = y]
      BY <2>2 DEF HTTPProxy
    <3> HIDE DEF w
    <3> QED BY <1>1, <3>1 DEF HasDomains, RowFields
  <2> QED BY <2>1, <2>2
<1>5. HasDomains(TCPMuxProxy(ps, port, host), "tcpmux", ps, port, host)
  <2> DEFINE t == [w EXCEPT !.type = "tcpmux"]
  <2>1. PICK rest : TCPMuxProxy(ps, port, host) = Merge(t, rest)
    BY DEF TCPMuxProxy
  <2>2. HasDomains(t, "tcpmux", ps, port, host)
    BY <1>2
  <2> HIDE DEF t
  <2>3. \A x \in RowFields : x \in DOMAIN Merge(t, rest) /\ Merge(t, rest)[x] = t[x]
    BY <2>2, MergeFirst DEF HasDomains
  <2> QED BY <2>1, <2>2, <2>3 DEF HasDomains, RowFields
<1> QED BY <1>3, <1>4, <1>5

\* Every class keeps the name and sets the type of its page.
LEMMA RowOfType ==
    ASSUME NEW type \in PageType, NEW ps, NEW info
    PROVE  LET r == RowOf(type, ps, info)
           IN  RowFields \subseteq DOMAIN r /\ r["type"] = type /\ r["name"] = ps.name
<1>1. CASE type = "tcp"
  BY <1>1, TCPRow DEF RowOf
<1>2. CASE type = "udp"
  BY <1>2, UDPRow DEF RowOf
<1>3. CASE type \in {"http", "https", "tcpmux"}
  BY <1>3, HTTPRows DEF RowOf, HasDomains
<1>4. CASE type \in {"stcp", "sudp"}
  BY <1>4 DEF RowOf, STCPProxy, SUDPProxy, BaseProxy, RowFields
<1> QED BY <1>1, <1>2, <1>3, <1>4 DEF PageType, ProxyType

\* A row that is made of the configuration of a proxy shows what it publishes.
LEMMA RowShows ==
    ASSUME NEW type \in PageType \cap Type, NEW ps, NEW info, ps.conf = OutConf(type, ConfOf[type])
    PROVE  LET r == RowOf(type, ps, info)
               wanted == Published(type, ConfOf[type], info)
           IN  \A f \in DOMAIN wanted :
                   /\ f \in RowFields \cap (Columns \cup ExpandedFields(type))
                   /\ r[f] = wanted[f]
<1> DEFINE conf == ConfOf[type]
<1>1. /\ \A f \in DOMAIN conf : conf[f] # Undefined
      /\ "subdomain" \in DOMAIN conf => conf.subdomain # << >>
      /\ ps.conf # Undefined
  BY ConfAssumption
<1> DEFINE port == Or(Field(conf, "remotePort"), 0)
<1>2. CASE type \in {"tcp", "udp"}
  <2>1. Field(ps.conf, "remotePort") = port
    BY <1>2, RemotePort
  <2>2. RowOf(type, ps, info)["port"] = port /\ RowOf(type, ps, info)["addr"] = Addr(port)
    BY <1>1, <1>2, <2>1, TCPRow, UDPRow DEF RowOf
  <2>3. Published(type, conf, info) = [port |-> port, addr |-> Addr(port)]
    BY <1>2 DEF Published
  <2>4. {"port", "addr"} \subseteq RowFields \cap (Columns \cup ExpandedFields(type))
    BY <1>2 DEF RowFields, Columns, ExpandedFields
  <2> HIDE DEF port, conf
  <2> QED BY <2>2, <2>3, <2>4 DEF conf
<1>3. CASE type \in {"http", "https", "tcpmux"}
  <2> DEFINE r == RowOf(type, ps, info)
             sub == Field(conf, "subdomain")
  <2>1. HasDomains(r, type, ps, info.port, info.subdomainHost)
    BY <1>3, HTTPRows DEF RowOf
  <2>2. Conf(ps) = ps.conf
    BY <1>1 DEF Conf
  <2>3. Field(ps.conf, "customDomains") = Field(conf, "customDomains") /\ Field(ps.conf, "subdomain") = sub
    BY <1>1, <1>3, Domains DEF DomainConfig
  <2>4. r["port"] = info.port /\ r["customDomains"] = Or(Field(conf, "customDomains"), << >>)
    BY <2>1, <2>2, <2>3 DEF HasDomains
  <2>5. r["subdomain"] = IF Or(sub, << >>) = << >> THEN << >> ELSE FullDomain(Or(sub, << >>), info.subdomainHost)
    BY <2>1, <2>2, <2>3 DEF HasDomains
  <2>6. CASE sub = Undefined
    <3>1. r["subdomain"] = << >>
      BY <2>5, <2>6 DEF Or
    <3>2. Published(type, conf, info) = [port |-> info.port, customDomains |-> Or(Field(conf, "customDomains"), << >>),
                                         subdomain |-> << >>]
      BY <1>3, <2>6 DEF Published
    <3>3. {"port", "customDomains", "subdomain"} \subseteq RowFields \cap (Columns \cup ExpandedFields(type))
      BY <1>3 DEF RowFields, Columns, ExpandedFields
    <3> HIDE DEF r, sub, conf
    <3> QED BY <2>4, <3>1, <3>2, <3>3 DEF r, conf
  <2>7. CASE sub # Undefined
    <3>1. sub = conf.subdomain /\ sub # << >>
      BY <1>1, <2>7 DEF Field
    <3>2. r["subdomain"] = FullDomain(sub, info.subdomainHost)
      BY <2>5, <2>7, <3>1 DEF Or
    <3>3. Published(type, conf, info) = [port |-> info.port, customDomains |-> Or(Field(conf, "customDomains"), << >>),
                                         subdomain |-> FullDomain(conf.subdomain, info.subdomainHost)]
      BY <1>3, <2>7 DEF Published
    <3>4. {"port", "customDomains", "subdomain"} \subseteq RowFields \cap (Columns \cup ExpandedFields(type))
      BY <1>3 DEF RowFields, Columns, ExpandedFields
    <3> HIDE DEF r, sub, conf
    <3> QED BY <2>4, <3>1, <3>2, <3>3, <3>4 DEF r, conf
  <2> QED BY <2>6, <2>7
<1>4. CASE type \in {"stcp", "sudp"}
  <2>1. RowOf(type, ps, info)["port"] = 0
    BY <1>4 DEF RowOf, STCPProxy, SUDPProxy, BaseProxy
  <2>2. Published(type, conf, info) = [port |-> 0]
    BY <1>4 DEF Published
  <2>3. "port" \in RowFields \cap (Columns \cup ExpandedFields(type))
    BY DEF RowFields, Columns
  <2> QED BY <2>1, <2>2, <2>3
<1> QED BY <1>2, <1>3, <1>4 DEF PageType, ProxyType

---------------------------------------------------------------------------
(* Requests *)

ReqFields == {"kind", "page", "at", "visit", "name", "names", "info", "body"}

\* The proxies of an answer: one whose proxy has the type that was asked for comes with
\* its configuration.
Answered(r) ==
    \A p \in r.body.proxies :
        /\ p.ps.name \in Name
        /\ p.of # NoPxy /\ p.of.type = r.page => p.ps.conf = OutConf(r.page, ConfOf[r.page])

\* A request while the page p is shown, which was mounted after v requests.
ReqOK(r, p, v) ==
    /\ DOMAIN r = ReqFields
    /\ r.visit \in 0 .. v
    /\ r.visit = v /\ r.kind # "over" => r.page = p
    /\ r.kind = "serverinfo" => r.page = "/"
    /\ r.kind \in {"proxies", "clear", "traffic"} => r.page \in PageType \cap Type
    /\ r.kind = "proxies" => r.names \subseteq Name
    /\ r.kind = "traffic" => r.name \in Name
    /\ r.kind = "proxies" /\ r.at = "answered" => Answered(r)

ReqsOK(s, p, v) ==
    /\ \E S : s \in Seq(S)
    /\ v \in Nat /\ v < Len(s) /\ Len(s) <= MaxReqs
    /\ \A i \in DOMAIN s : ReqOK(s[i], p, v)

LEMMA EditReq ==
    ASSUME NEW s, NEW p, NEW v, ReqsOK(s, p, v), NEW i \in DOMAIN s, NEW r, ReqOK(r, p, v)
    PROVE  ReqsOK([s EXCEPT ![i] = r], p, v)
<1>1. PICK S : s \in Seq(S)
  BY DEF ReqsOK
<1> DEFINE e == [s EXCEPT ![i] = r]
<1>2. e \in Seq(S \cup {r}) /\ Len(e) = Len(s) /\ DOMAIN e = DOMAIN s
  BY <1>1
<1>3. \A j \in DOMAIN s : e[j] = IF j = i THEN r ELSE s[j]
  BY <1>1
<1> HIDE DEF e
<1>4. \E T : e \in Seq(T)
  BY <1>2
<1>5. \A j \in DOMAIN e : ReqOK(e[j], p, v)
  BY <1>2, <1>3 DEF ReqsOK
<1>6. ReqsOK(e, p, v)
  BY <1>2, <1>4, <1>5 DEF ReqsOK
<1> QED BY <1>6 DEF e

LEMMA AddReq ==
    ASSUME NEW s, NEW p, NEW v, ReqsOK(s, p, v), Len(s) < MaxReqs, NEW r, ReqOK(r, p, v)
    PROVE  ReqsOK(Append(s, r), p, v)
<1>1. PICK S : s \in Seq(S)
  BY DEF ReqsOK
<1> DEFINE e == Append(s, r)
<1>2. e \in Seq(S \cup {r}) /\ Len(e) = Len(s) + 1 /\ Len(s) \in Nat
  BY <1>1
<1>3. \A j \in DOMAIN e : (j \in DOMAIN s /\ e[j] = s[j]) \/ e[j] = r
  BY <1>1
<1> HIDE DEF e
<1>4. \E T : e \in Seq(T)
  BY <1>2
<1>5. \A j \in DOMAIN e : ReqOK(e[j], p, v)
  BY <1>3 DEF ReqsOK
<1>6. ReqsOK(e, p, v)
  BY <1>2, <1>4, <1>5, DashboardAssumption DEF ReqsOK
<1> QED BY <1>6 DEF e

\* The requests of earlier pages do not belong to the new one.
LEMMA NewPage ==
    ASSUME NEW s, NEW p, NEW v, ReqsOK(s, p, v), Len(s) < MaxReqs,
           NEW q, NEW r, ReqOK(r, q, Len(s))
    PROVE  ReqsOK(Append(s, r), q, Len(s))
<1>1. PICK S : s \in Seq(S)
  BY DEF ReqsOK
<1> DEFINE e == Append(s, r)
<1>2. e \in Seq(S \cup {r}) /\ Len(e) = Len(s) + 1 /\ Len(s) \in Nat
  BY <1>1
<1>3. \A j \in DOMAIN e : (j \in DOMAIN s /\ e[j] = s[j]) \/ e[j] = r
  BY <1>1
<1>4. \A j \in DOMAIN s : ReqOK(s[j], q, Len(s))
  <2> SUFFICES ASSUME NEW j \in DOMAIN s PROVE ReqOK(s[j], q, Len(s)) OBVIOUS
  <2>1. ReqOK(s[j], p, v) /\ v \in Nat /\ v < Len(s)
    BY DEF ReqsOK
  <2> QED BY <1>2, <2>1 DEF ReqOK
<1> HIDE DEF e
<1>5. \E T : e \in Seq(T)
  BY <1>2
<1>6. \A j \in DOMAIN e : ReqOK(e[j], q, Len(s))
  BY <1>3, <1>4
<1>7. ReqsOK(e, q, Len(s))
  BY <1>2, <1>5, <1>6, DashboardAssumption DEF ReqsOK
<1> QED BY <1>7 DEF e

LEMMA OverReq ==
    ASSUME NEW p, NEW v \in Nat
    PROVE  ReqOK(Req("over", "/", "over", 0), p, v)
BY DEF ReqOK, Req, ReqFields

LEMMA FetchReq ==
    ASSUME NEW p \in Pages, NEW v \in Nat
    PROVE  ReqOK(FetchData(p, v), p, v)
<1> DEFINE r == FetchData(p, v)
<1>1. /\ DOMAIN r = ReqFields /\ r.visit = v /\ r.page = p /\ r.names = {}
      /\ r.kind = (IF p = "/" THEN "serverinfo" ELSE "proxies")
      /\ r.at \in {"asksPort", "sent"}
  BY DEF FetchData, Req, ReqFields
<1>2. p # "/" => p \in PageType \cap Type
  BY DEF Pages
<1> HIDE DEF r
<1>3. ReqOK(r, p, v)
  BY <1>1, <1>2 DEF ReqOK
<1> QED BY <1>3 DEF r

\* A table asks for its own page.
LEMMA ClearReq ==
    ASSUME NEW p \in PageType \cap Type, NEW v \in Nat
    PROVE  ReqOK(Req("clear", p, "sent", v), p, v)
BY DEF ReqOK, Req, ReqFields

LEMMA TrafficReq ==
    ASSUME NEW p \in PageType \cap Type, NEW v \in Nat, NEW n \in Name
    PROVE  ReqOK([Req("traffic", p, "sent", v) EXCEPT !.name = n], p, v)
BY DEF ReqOK, Req, ReqFields

---------------------------------------------------------------------------
(* The browser *)

ReqsInv == ReqsOK(reqs, page, visit)

FrpsInv == config \in Config /\ restarts \in 0 .. MaxRestarts

TableInv == page \in Pages /\ (rows # {} => page # "/") /\ \A row \in rows : row.name \in Name

HomeInv == overview # Nothing \/ pie # Nothing => page = "/"

WindowInv ==
    /\ dialog \in Name \cup {NoPxy} /\ (dialog # NoPxy => page # "/")
    /\ chart # Nothing => dialog # NoPxy /\ chart.name = dialog

BrowserInv == ReqsInv /\ FrpsInv /\ TableInv /\ RowsFaithful /\ HomeInv /\ WindowInv

\* What is shown stays as it is.
LEMMA Stays ==
    ASSUME BrowserInv, UNCHANGED <<table, home, window>>, ReqsOK(reqs', page, visit), FrpsInv'
    PROVE  BrowserInv'
<1> USE DEF table, home, window, BrowserInv
<1>1. ReqsInv'
  BY DEF ReqsInv
<1>2. TableInv' /\ HomeInv' /\ WindowInv'
  BY DEF TableInv, HomeInv, WindowInv
<1>3. RowsFaithful'
  BY DEF RowsFaithful
<1> QED BY <1>1, <1>2, <1>3

LEMMA FrpsStays ==
    ASSUME BrowserInv, UNCHANGED <<config, restarts>>
    PROVE  FrpsInv'
BY DEF BrowserInv, FrpsInv

LEMMA BrowserInit == Init => BrowserInv
<1> SUFFICES ASSUME Init PROVE BrowserInv OBVIOUS
<1> USE DEF Init
<1>1. ReqsInv
  <2>1. ReqOK(FetchData(page, 0), page, 0)
    BY FetchReq
  <2>2. reqs \in Seq({FetchData(page, 0)}) /\ Len(reqs) = 1 /\ DOMAIN reqs = {1} /\ reqs[1] = FetchData(page, 0)
    OBVIOUS
  <2>3. \E S : reqs \in Seq(S)
    BY <2>2
  <2>4. \A i \in DOMAIN reqs : ReqOK(reqs[i], page, 0)
    BY <2>1, <2>2
  <2> QED BY <2>2, <2>3, <2>4, DashboardAssumption DEF ReqsInv, ReqsOK
<1>2. FrpsInv
  BY DashboardAssumption DEF FrpsInv
<1>3. TableInv /\ RowsFaithful
  BY DEF TableInv, RowsFaithful
<1>4. HomeInv /\ WindowInv
  BY DEF HomeInv, WindowInv
<1> QED BY <1>1, <1>2, <1>3, <1>4 DEF BrowserInv

LEMMA NavigateInv ==
    ASSUME BrowserInv, NEW p \in Pages, Navigate(p)
    PROVE  BrowserInv'
<1> USE DEF Navigate
<1>1. ReqsOK(reqs, page, visit) /\ Len(reqs) < MaxReqs
  BY DEF BrowserInv, ReqsInv
<1>2. Len(reqs) \in Nat
  BY <1>1 DEF ReqsOK
<1>3. ReqsInv'
  BY <1>1, <1>2, FetchReq, NewPage DEF ReqsInv
<1>4. FrpsInv'
  BY FrpsStays DEF server
<1>5. TableInv' /\ RowsFaithful'
  BY DEF TableInv, RowsFaithful
<1>6. HomeInv' /\ WindowInv'
  BY DEF HomeInv, WindowInv
<1> QED BY <1>3, <1>4, <1>5, <1>6 DEF BrowserInv

\* A table that asks.
LEMMA TableAsks ==
    ASSUME BrowserInv, OnTable
    PROVE  /\ page \in PageType \cap Type /\ visit \in Nat /\ Len(reqs) < MaxReqs
           /\ ReqsOK(reqs, page, visit)
BY DEF BrowserInv, OnTable, TableInv, Pages, ReqsInv, ReqsOK

LEMMA AskInv ==
    ASSUME BrowserInv, Refresh \/ ClearOfflineProxies
    PROVE  BrowserInv'
<1>1. OnTable /\ UNCHANGED <<server, table, home, window>>
  BY DEF Refresh, ClearOfflineProxies
<1>2. page \in PageType \cap Type /\ page \in Pages /\ visit \in Nat
  BY <1>1, TableAsks DEF Pages
<1>3. ReqOK(FetchData(page, visit), page, visit) /\ ReqOK(Req("clear", page, "sent", visit), page, visit)
  BY <1>2, FetchReq, ClearReq
<1>4. ReqsOK(reqs', page, visit)
  BY <1>1, <1>3, TableAsks, AddReq DEF Refresh, ClearOfflineProxies
<1>5. FrpsInv'
  BY <1>1, FrpsStays DEF server
<1> QED BY <1>1, <1>4, <1>5, Stays

LEMMA OpenTrafficInv ==
    ASSUME BrowserInv, NEW row \in rows, OpenTraffic(row)
    PROVE  BrowserInv'
<1> USE DEF OpenTraffic
<1>1. page \in PageType \cap Type /\ visit \in Nat /\ Len(reqs) < MaxReqs
      /\ ReqsOK(reqs, page, visit)
  BY TableAsks
<1>2. row.name \in Name /\ page # "/"
  BY DEF BrowserInv, TableInv
<1>3. ReqsOK(reqs', page, visit)
  BY <1>1, <1>2, TrafficReq, AddReq
<1>4. ReqsInv'
  BY <1>3 DEF ReqsInv, table
<1>5. FrpsInv'
  BY FrpsStays DEF server
<1>6. TableInv' /\ HomeInv'
  BY DEF BrowserInv, TableInv, HomeInv, table, home
<1>7. RowsFaithful'
  BY DEF BrowserInv, RowsFaithful, table
<1>8. WindowInv'
  BY <1>2 DEF WindowInv, table
<1> QED BY <1>4, <1>5, <1>6, <1>7, <1>8 DEF BrowserInv

LEMMA CloseTrafficInv ==
    ASSUME BrowserInv, CloseTraffic
    PROVE  BrowserInv'
<1> USE DEF CloseTraffic
<1>1. ReqsInv' /\ TableInv' /\ HomeInv'
  BY DEF BrowserInv, ReqsInv, TableInv, HomeInv, table, home
<1>2. FrpsInv'
  BY FrpsStays DEF server
<1>3. RowsFaithful'
  BY DEF BrowserInv, RowsFaithful, table
<1>4. WindowInv'
  BY DEF WindowInv
<1> QED BY <1>1, <1>2, <1>3, <1>4 DEF BrowserInv

---------------------------------------------------------------------------
(* The api and its answers *)

LEMMA KnownReq ==
    ASSUME BrowserInv, NEW i \in DOMAIN reqs
    PROVE  ReqsOK(reqs, page, visit) /\ ReqOK(reqs[i], page, visit) /\ visit \in Nat
BY DEF BrowserInv, ReqsInv, ReqsOK

\* A request goes on and changes nothing that is shown.
LEMMA GoesOn ==
    ASSUME BrowserInv, NEW i \in DOMAIN reqs, NEW r, reqs' = [reqs EXCEPT ![i] = r],
           ReqOK(r, page, visit), UNCHANGED <<config, restarts, table, home, window>>
    PROVE  BrowserInv'
<1>1. ReqsOK(reqs', page, visit)
  BY KnownReq, EditReq
<1>2. FrpsInv'
  BY FrpsStays
<1> QED BY <1>1, <1>2, Stays

LEMMA ApiInv ==
    ASSUME BrowserInv, NEW i \in DOMAIN reqs, Api(i)
    PROVE  BrowserInv'
<1>1. ReqOK(reqs[i], page, visit)
  BY KnownReq
<1>2. CASE ServerInfo(i)
  <2>1. PICK b : reqs' = [reqs EXCEPT ![i] = [reqs[i] EXCEPT !.at = "answered", !.body = b]]
    BY <1>2 DEF ServerInfo
  <2>2. ReqOK([reqs[i] EXCEPT !.at = "answered", !.body = b], page, visit)
    BY <1>1, <1>2 DEF ServerInfo, Is, ReqOK, ReqFields
  <2> QED BY <1>2, <2>1, <2>2, GoesOn DEF ServerInfo, server
<1>3. CASE ServerInfoPort(i)
  <2>1. PICK b : reqs' = [reqs EXCEPT ![i] = [reqs[i] EXCEPT !.at = "hasPort", !.info = b]]
    BY <1>3 DEF ServerInfoPort
  <2>2. ReqOK([reqs[i] EXCEPT !.at = "hasPort", !.info = b], page, visit)
    BY <1>1, <1>3 DEF ServerInfoPort, Is, ReqOK, ReqFields
  <2> QED BY <1>3, <2>1, <2>2, GoesOn DEF ServerInfoPort, server
<1>4. CASE CollectStats(i)
  <2>1. PICK b \in SUBSET Name : reqs' = [reqs EXCEPT ![i] = [reqs[i] EXCEPT !.at = "collected", !.names = b]]
    BY <1>4 DEF CollectStats
  <2>2. ReqOK([reqs[i] EXCEPT !.at = "collected", !.names = b], page, visit)
    BY <1>1, <1>4 DEF CollectStats, Is, ReqOK, ReqFields
  <2> QED BY <1>4, <2>1, <2>2, GoesOn DEF CollectStats, server
<1>5. CASE GetProxyStats(i)
  <2> DEFINE b == [proxies |-> {[ps |-> ProxyStatsInfo(reqs[i].page, n), of |-> pxys[n]] : n \in reqs[i].names}]
             r == [reqs[i] EXCEPT !.at = "answered", !.names = {}, !.body = b]
  <2>1. reqs' = [reqs EXCEPT ![i] = r]
    BY <1>5 DEF GetProxyStats
  <2>2. reqs[i].kind = "proxies" /\ reqs[i].names \subseteq Name /\ reqs[i].page \in PageType \cap Type
    BY <1>1, <1>5 DEF GetProxyStats, Is, ReqOK
  <2>3. /\ DOMAIN r = ReqFields /\ r.visit = reqs[i].visit /\ r.kind = "proxies" /\ r.page = reqs[i].page
        /\ r.names = {} /\ r.body = b
    BY <1>1, <2>2 DEF ReqOK, ReqFields
  <2>4. \A p \in b.proxies : /\ p.ps.name \in Name
                             /\ p.of # NoPxy /\ p.of.type = reqs[i].page =>
                                   p.ps.conf = OutConf(reqs[i].page, ConfOf[reqs[i].page])
    <3> SUFFICES ASSUME NEW n \in reqs[i].names
                 PROVE  LET p == [ps |-> ProxyStatsInfo(reqs[i].page, n), of |-> pxys[n]]
                        IN  /\ p.ps.name \in Name
                            /\ p.of # NoPxy /\ p.of.type = reqs[i].page =>
                                   p.ps.conf = OutConf(reqs[i].page, ConfOf[reqs[i].page])
      OBVIOUS
    <3>1. ProxyStatsInfo(reqs[i].page, n).name = n
      BY DEF ProxyStatsInfo
    <3>2. pxys[n] # NoPxy => ProxyStatsInfo(reqs[i].page, n).conf = OutConf(reqs[i].page, ConfOf[pxys[n].type])
      BY DEF ProxyStatsInfo
    <3> QED BY <2>2, <3>1, <3>2
  <2> HIDE DEF b, r
  <2>5. Answered(r)
    BY <2>3, <2>4 DEF Answered
  <2>6. ReqOK(r, page, visit)
    BY <1>1, <2>2, <2>3, <2>5 DEF ReqOK
  <2> QED BY <1>5, <2>1, <2>6, GoesOn DEF GetProxyStats, server
<1>6. CASE DeleteProxies(i)
  <2>1. reqs' = [reqs EXCEPT ![i] = [reqs[i] EXCEPT !.at = "answered"]]
    BY <1>6 DEF DeleteProxies
  <2>2. ReqOK([reqs[i] EXCEPT !.at = "answered"], page, visit)
    BY <1>1, <1>6 DEF DeleteProxies, Is, ReqOK, ReqFields
  <2> QED BY <1>6, <2>1, <2>2, GoesOn DEF DeleteProxies
<1>7. CASE ProxyTraffic(i)
  <2>1. PICK at : reqs' = [reqs EXCEPT ![i] = [reqs[i] EXCEPT !.at = at]]
    BY <1>7 DEF ProxyTraffic
  <2>2. ReqOK([reqs[i] EXCEPT !.at = at], page, visit)
    BY <1>1, <1>7 DEF ProxyTraffic, Is, ReqOK, ReqFields
  <2> QED BY <1>7, <2>1, <2>2, GoesOn DEF ProxyTraffic, server
<1> QED BY <1>2, <1>3, <1>4, <1>5, <1>6, <1>7 DEF Api

LEMMA RestartsInv ==
    ASSUME BrowserInv, Restart
    PROVE  BrowserInv'
<1> USE DEF Restart
<1>1. FrpsInv'
  BY DashboardAssumption DEF BrowserInv, FrpsInv
<1>2. ReqsOK(reqs, page, visit)
  BY DEF BrowserInv, ReqsInv
<1>3. PICK S : reqs \in Seq(S)
  BY <1>2 DEF ReqsOK
<1> DEFINE over == Req("over", "/", "over", 0)
<1>4. \A i \in DOMAIN reqs : reqs'[i] = over \/ reqs'[i] = reqs[i]
  OBVIOUS
<1>5. DOMAIN reqs' = DOMAIN reqs
  OBVIOUS
<1>6. ReqOK(over, page, visit)
  BY <1>2, OverReq DEF ReqsOK
<1>7. \A i \in DOMAIN reqs' : ReqOK(reqs'[i], page, visit)
  BY <1>2, <1>4, <1>5, <1>6 DEF ReqsOK
<1> HIDE DEF over
<1>8. reqs' \in Seq(S \cup {over}) /\ Len(reqs') = Len(reqs)
  <2>1. Len(reqs) \in Nat /\ DOMAIN reqs = 1 .. Len(reqs)
    BY <1>3
  <2>2. reqs' \in [1 .. Len(reqs) -> S \cup {over}]
    BY <1>3, <2>1 DEF over
  <2> QED BY <2>1, <2>2
<1>9. ReqsOK(reqs', page, visit)
  <2>1. \E T : reqs' \in Seq(T)
    BY <1>8
  <2> QED BY <1>2, <1>7, <1>8, <2>1 DEF ReqsOK
<1> QED BY <1>1, <1>9, Stays

\* A row has the name of its proxy and the type of its page, and shows how a proxy of that
\* type is reached.
LEMMA RowFaithful ==
    ASSUME NEW r, NEW p, r.page \in PageType \cap Type,
           p.of # NoPxy /\ p.of.type = r.page => p.ps.conf = OutConf(r.page, ConfOf[r.page])
    PROVE  LET row == Row(r, p)
           IN  /\ row.type = r.page /\ row.name = p.ps.name
               /\ row.of # NoPxy /\ row.of.type = r.page => Shows(row, ConfOf[r.page], row.info)
<1> DEFINE ghost == [of |-> p.of, info |-> r.info]
           made == RowOf(r.page, p.ps, r.info)
           row == Merge(ghost, made)
<1>1. DOMAIN ghost = {"of", "info"} /\ ghost["of"] = p.of /\ ghost["info"] = r.info
  OBVIOUS
<1>2. RowFields \subseteq DOMAIN made /\ made["type"] = r.page /\ made["name"] = p.ps.name
  BY RowOfType
<1> HIDE DEF ghost, made
<1>3. row["of"] = p.of /\ row["info"] = r.info
  BY <1>1, MergeFirst
<1>4. \A f \in RowFields : f \in DOMAIN row /\ row[f] = made[f]
  <2>1. \A f \in RowFields : f \in DOMAIN made /\ f \notin DOMAIN ghost
    BY <1>1, <1>2 DEF RowFields
  <2> QED BY <2>1, MergeSecond
<1> HIDE DEF row
<1>5. row["type"] = r.page /\ row["name"] = p.ps.name
  BY <1>2, <1>4 DEF RowFields
<1>6. ASSUME row.of # NoPxy, row.of.type = r.page PROVE Shows(row, ConfOf[r.page], row.info)
  <2> DEFINE wanted == Published(r.page, ConfOf[r.page], r.info)
  <2>1. p.ps.conf = OutConf(r.page, ConfOf[r.page])
    BY <1>3, <1>6
  <2>2. \A f \in DOMAIN wanted : /\ f \in RowFields /\ f \in Columns \cup ExpandedFields(r.page)
                                 /\ made[f] = wanted[f]
    BY <2>1, RowShows DEF made
  <2>3. row.type = r.page /\ row.info = r.info
    BY <1>3, <1>5
  <2> HIDE DEF wanted
  <2>4. \A f \in DOMAIN wanted : f \in DOMAIN Visible(row) /\ Visible(row)[f] = wanted[f]
    BY <1>4, <2>2, <2>3 DEF Visible, Only
  <2> QED BY <2>3, <2>4 DEF Shows, wanted
<1>7. Row(r, p) = row
  BY DEF Row, row, ghost, made
<1> QED BY <1>5, <1>6, <1>7

LEMMA ProxiesArriveInv ==
    ASSUME BrowserInv, NEW i \in DOMAIN reqs, ProxiesArrive(i)
    PROVE  BrowserInv'
<1> USE DEF ProxiesArrive
<1>1. ReqOK(reqs[i], page, visit) /\ visit \in Nat /\ ReqsOK(reqs, page, visit)
  BY KnownReq
<1>2. ReqsInv'
  BY <1>1, OverReq, EditReq DEF Over, ReqsInv
<1>3. FrpsInv'
  BY FrpsStays DEF server
<1>4. HomeInv' /\ WindowInv'
  BY DEF BrowserInv, HomeInv, WindowInv, home, window
<1>5. CASE Mounted(i)
  <2>1. reqs[i].page = page /\ page \in PageType \cap Type /\ Answered(reqs[i])
    BY <1>1, <1>5 DEF ReqOK, Is, Mounted
  <2>2. \A row \in rows' : /\ row.type = page /\ row.name \in Name
                           /\ row.of # NoPxy /\ row.of.type = page => Shows(row, ConfOf[page], row.info)
    <3> SUFFICES ASSUME NEW p \in reqs[i].body.proxies
                 PROVE  LET row == Row(reqs[i], p)
                        IN  /\ row.type = page /\ row.name \in Name
                            /\ row.of # NoPxy /\ row.of.type = page => Shows(row, ConfOf[page], row.info)
      BY <1>5
    <3>1. /\ p.ps.name \in Name
          /\ p.of # NoPxy /\ p.of.type = reqs[i].page =>
                p.ps.conf = OutConf(reqs[i].page, ConfOf[reqs[i].page])
      BY <2>1 DEF Answered
    <3> QED BY <2>1, <3>1, RowFaithful
  <2>3. page # "/"
    BY <2>1 DEF PageType, ProxyType
  <2>4. TableInv'
    BY <2>2, <2>3 DEF BrowserInv, TableInv
  <2>5. RowsFaithful'
    BY <2>2 DEF RowsFaithful
  <2> QED BY <1>2, <1>3, <1>4, <2>4, <2>5 DEF BrowserInv
<1>6. CASE ~Mounted(i)
  <2>1. TableInv'
    BY <1>6 DEF BrowserInv, TableInv
  <2>2. RowsFaithful'
    BY <1>6 DEF BrowserInv, RowsFaithful
  <2> QED BY <1>2, <1>3, <1>4, <2>1, <2>2 DEF BrowserInv
<1> QED BY <1>5, <1>6

LEMMA ServerInfoArrivesInv ==
    ASSUME BrowserInv, NEW i \in DOMAIN reqs, ServerInfoArrives(i)
    PROVE  BrowserInv'
<1> USE DEF ServerInfoArrives
<1>1. ReqOK(reqs[i], page, visit) /\ visit \in Nat /\ ReqsOK(reqs, page, visit)
  BY KnownReq
<1>2. ReqsInv'
  BY <1>1, OverReq, EditReq DEF Over, ReqsInv, table
<1>3. FrpsInv'
  BY FrpsStays DEF server
<1>4. TableInv' /\ WindowInv'
  BY DEF BrowserInv, TableInv, WindowInv, table, window
<1>5. RowsFaithful'
  BY DEF BrowserInv, RowsFaithful, table
<1>6. Mounted(i) => page = "/"
  BY <1>1 DEF ReqOK, Is, Mounted
<1>7. HomeInv'
  BY <1>6 DEF BrowserInv, HomeInv, table
<1> QED BY <1>2, <1>3, <1>4, <1>5, <1>7 DEF BrowserInv

LEMMA TrafficArrivesInv ==
    ASSUME BrowserInv, NEW i \in DOMAIN reqs, TrafficArrives(i)
    PROVE  BrowserInv'
<1> USE DEF TrafficArrives
<1>1. ReqOK(reqs[i], page, visit) /\ visit \in Nat /\ ReqsOK(reqs, page, visit)
  BY KnownReq
<1>2. ReqsInv'
  BY <1>1, OverReq, EditReq DEF Over, ReqsInv, table
<1>3. FrpsInv'
  BY FrpsStays DEF server
<1>4. TableInv' /\ HomeInv'
  BY DEF BrowserInv, TableInv, HomeInv, table, home
<1>5. RowsFaithful'
  BY DEF BrowserInv, RowsFaithful, table
<1>6. reqs[i].name # NoPxy
  BY <1>1, DashboardAssumption DEF ReqOK, Is
<1>7. WindowInv'
  BY <1>6 DEF BrowserInv, WindowInv, table
<1> QED BY <1>2, <1>3, <1>4, <1>5, <1>7 DEF BrowserInv

LEMMA AnswerInv ==
    ASSUME BrowserInv, NEW i \in DOMAIN reqs, Answer(i)
    PROVE  BrowserInv'
<1> DEFINE over == Req("over", "/", "over", 0)
<1>1. ReqOK(reqs[i], page, visit) /\ visit \in Nat /\ ReqsOK(reqs, page, visit) /\ ReqOK(over, page, visit)
  BY KnownReq, OverReq
<1>2. Over(i, reqs) = [reqs EXCEPT ![i] = over]
  BY DEF Over
<1> HIDE DEF over
<1>3. CASE Fails(i)
  BY <1>1, <1>2, <1>3, GoesOn DEF Fails, server
<1>4. CASE PortArrives(i)
  <2>1. CASE reqs' = Over(i, reqs)
    BY <1>1, <1>2, <1>4, <2>1, GoesOn DEF PortArrives, server
  <2>2. CASE reqs' = [reqs EXCEPT ![i].at = "sent"]
    <3>1. reqs' = [reqs EXCEPT ![i] = [reqs[i] EXCEPT !.at = "sent"]]
      BY <2>2
    <3>2. ReqOK([reqs[i] EXCEPT !.at = "sent"], page, visit)
      BY <1>1, <1>4 DEF PortArrives, Is, ReqOK, ReqFields
    <3> QED BY <1>4, <3>1, <3>2, GoesOn DEF PortArrives, server
  <2> QED BY <1>4, <2>1, <2>2 DEF PortArrives
<1>5. CASE ClearArrives(i)
  <2>1. CASE Mounted(i)
    <3>1. ReqsOK(Over(i, reqs), page, visit)
      <4>1. ReqsOK([reqs EXCEPT ![i] = over], page, visit)
        BY <1>1, EditReq
      <4> QED BY <1>2, <4>1
    <3>2. Len(Over(i, reqs)) = Len(reqs)
      BY <1>1, <1>2 DEF ReqsOK
    <3>3. Len(Over(i, reqs)) < MaxReqs /\ reqs' = Append(Over(i, reqs), FetchData(page, visit))
      BY <1>5, <2>1, <3>2 DEF ClearArrives
    <3>4. ReqOK(FetchData(page, visit), page, visit)
      BY <1>1, FetchReq DEF BrowserInv, TableInv
    <3>5. ReqsOK(reqs', page, visit)
      BY <3>1, <3>3, <3>4, AddReq
    <3>6. FrpsInv'
      BY <1>5, FrpsStays DEF ClearArrives, server
    <3> QED BY <1>5, <3>5, <3>6, Stays DEF ClearArrives
  <2>2. CASE ~Mounted(i)
    BY <1>1, <1>2, <1>5, <2>2, GoesOn DEF ClearArrives, server
  <2> QED BY <2>1, <2>2
<1> QED BY <1>3, <1>4, <1>5, ServerInfoArrivesInv, ProxiesArriveInv, TrafficArrivesInv DEF Answer

LEMMA BrowserStep == BrowserInv /\ [Next]_vars => BrowserInv'
<1> SUFFICES ASSUME BrowserInv, [Next]_vars PROVE BrowserInv' OBVIOUS
<1>1. CASE User
  BY <1>1, NavigateInv, AskInv, CloseTrafficInv, OpenTrafficInv DEF User
<1>2. CASE Restart
  BY <1>2, RestartsInv
<1>3. CASE \E i \in DOMAIN reqs : Api(i) \/ Answer(i)
  BY <1>3, ApiInv, AnswerInv
<1>4. CASE UNCHANGED <<config, restarts, table, home, window, reqs>>
  <2>1. ReqsOK(reqs', page, visit)
    BY <1>4 DEF BrowserInv, ReqsInv
  <2> QED BY <1>4, <2>1, FrpsStays, Stays
<1>5. CASE UNCHANGED vars
  BY <1>4, <1>5 DEF vars, server
<1> QED BY <1>1, <1>2, <1>3, <1>4, <1>5 DEF Next

LEMMA BrowserInvAlways == Spec => []BrowserInv
BY BrowserInit, BrowserStep, PTL DEF Spec

---------------------------------------------------------------------------
(* What the dashboard shows *)

LEMMA ServerStep == [Next]_vars => [ServerNext]_serverVars
<1> SUFFICES ASSUME [Next]_vars PROVE [ServerNext]_serverVars OBVIOUS
<1>1. CASE UNCHANGED serverVars
  BY <1>1
<1>2. CASE User
  BY <1>1, <1>2 DEF User, Navigate, Refresh, ClearOfflineProxies, CloseTraffic, OpenTraffic, server
<1>3. CASE Restart
  BY <1>3 DEF Restart, ServerNext
<1>4. ASSUME NEW i \in DOMAIN reqs, Api(i) PROVE [ServerNext]_serverVars
  <2>1. CASE DeleteProxies(i)
    BY <2>1 DEF DeleteProxies, ServerNext
  <2>2. CASE ServerInfo(i) \/ ServerInfoPort(i) \/ CollectStats(i) \/ GetProxyStats(i) \/ ProxyTraffic(i)
    BY <1>1, <2>2 DEF ServerInfo, ServerInfoPort, CollectStats, GetProxyStats, ProxyTraffic, server
  <2> QED BY <1>4, <2>1, <2>2 DEF Api
<1>5. ASSUME NEW i \in DOMAIN reqs, Answer(i) PROVE [ServerNext]_serverVars
  BY <1>1, <1>5 DEF Answer, Fails, ServerInfoArrives, PortArrives, ProxiesArrive, ClearArrives,
                    TrafficArrives, server
<1>6. CASE Controls
  BY <1>6 DEF ServerNext
<1>7. CASE UNCHANGED vars
  BY <1>1, <1>7 DEF vars, server
<1> QED BY <1>2, <1>3, <1>4, <1>5, <1>6, <1>7 DEF Next

\* With a browser on it, its api and restarts with another configuration, frps is still the
\* one of ServerMetrics: of all requests, only the clearing of offline proxies changes its tables.
THEOREM DashboardServes == Spec => ServerSpec
<1>1. Init => ServerInit
  BY DEF Init
<1> QED BY <1>1, ServerStep, PTL DEF Spec, ServerSpec

\* Whichever pages are opened and left, however late their answers come and whenever frps is
\* restarted: a table, an overview and a dialog are never on the page together, and what is shown
\* belongs to the page.
LEMMA DashboardTypeAlways == Spec => []TypeOK
<1>1. Inv /\ BrowserInv => TypeOK
  <2> SUFFICES ASSUME Inv, BrowserInv PROVE TypeOK OBVIOUS
  <2>1. visit \in 0 .. MaxReqs /\ Len(reqs) <= MaxReqs
    BY DashboardAssumption DEF BrowserInv, ReqsInv, ReqsOK
  <2> QED BY <2>1 DEF Inv, BrowserInv, FrpsInv, TableInv, HomeInv, WindowInv, TypeOK
<1> QED BY <1>1, DashboardServes, InvAlways, BrowserInvAlways, PTL

\* A table has rows of its own type only, however many tables were left before their answers came,
\* and the row of an online proxy shows how it is reached, for every type of page and every
\* configuration of its proxy.
THEOREM RowsCorrect == Spec => []RowsFaithful
<1>1. BrowserInv => RowsFaithful
  BY DEF BrowserInv
<1> QED BY <1>1, BrowserInvAlways, PTL

\* The dialog never has the chart of another proxy, whichever dialogs were opened before it and
\* whenever their answers come.
THEOREM DialogCorrect == Spec => []PageSound
<1>1. BrowserInv => DialogShowsItsProxy
  BY DEF BrowserInv, WindowInv, DialogShowsItsProxy
<1>2. TypeOK /\ DialogShowsItsProxy => PageSound
  BY DEF PageSound
<1> QED BY <1>1, <1>2, BrowserInvAlways, DashboardTypeAlways, PTL

---------------------------------------------------------------------------
(* The overview *)

\* The number of proxies of a type in an answer.
CountOf(byType, t) == Or(Field(byType, t), 0)

\* What frps answers to /api/serverinfo: counts of types, which add up to the proxies that are
\* online if all of them are reported.
InfoOK(b) ==
    /\ b # Nothing /\ b.config \in Config
    /\ \A t \in ProxyType : CountOf(b.proxyTypeCount, t) \in Int
    /\ b.quiet => ProxyCounts(b.proxyTypeCount) = b.online

\* Requests after the page was mounted belong to it, an answer with the server's data is as
\* frps made it, and so is the overview, from which the chart is drawn if its answer
\* is one to the mounted page.
LaterBelong(s, v) == \A i \in DOMAIN s : i > v => s[i].kind = "over" \/ s[i].visit = v
InfosOK(s) == \A i \in DOMAIN s : s[i].kind = "serverinfo" /\ s[i].at = "answered" => InfoOK(s[i].body)
ChartInv ==
    overview # Nothing =>
        /\ InfoOK(overview)
        /\ pie.from > visit => pie.slices = ProxySlices(overview.proxyTypeCount)

OverviewInv == LaterBelong(reqs, visit) /\ InfosOK(reqs) /\ ChartInv

\* A type is counted when its first proxy is reported, so without reports on their way the counts
\* are those of the proxies.
LEMMA QuietCounts ==
    ASSUME Inv, CountsAgree, Quiet, NEW t \in ProxyType
    PROVE  CountOf(Counts, t) = Cardinality(Registered(t))
<1>1. \A call : Reporting(call, t) = {}
  BY DEF Quiet, Reporting
<1>2. CASE t \in counted
  <2>1. t \in Type /\ Field(Counts, t) = typeCounts[t] /\ typeCounts[t] \in Int
    BY <1>2 DEF Field, Counts, Inv, ServerTypeOK
  <2>2. CountOf(Counts, t) = typeCounts[t]
    BY <2>1, InfoAssumption DEF CountOf, Or
  <2>3. IsFiniteSet(Registered(t))
    BY FiniteAssumption, FS_Subset DEF Registered
  <2>4. Cardinality(Registered(t)) \in Nat
    BY <2>3, FS_CardinalityType
  <2>5. typeCounts[t] = Cardinality(Registered(t)) - 0 + 0
    BY <1>1, <2>1, FS_EmptySet DEF CountsAgree
  <2> QED BY <2>2, <2>4, <2>5
<1>3. CASE t \notin counted
  <2>1. Field(Counts, t) = Undefined
    BY <1>3 DEF Field, Counts
  <2>2. Registered(t) = {}
    <3> SUFFICES ASSUME NEW n \in Name, pxys[n] # NoPxy, pxys[n].type = t PROVE FALSE
      BY DEF Registered
    <3>1. pxys[n].client \in Client
      BY DEF Inv, ServerTypeOK
    <3>2. report[pxys[n].client] = Call("NewProxy", n, t)
      BY <1>3 DEF Inv, ReportInv, HeldIsCounted
    <3>3. Call("NewProxy", n, t) # NoCall
      BY NonesAssumption DEF Call, Inv, ServerTypeOK
    <3> QED BY <3>1, <3>2, <3>3 DEF Quiet
  <2> QED BY <2>1, <2>2, FS_EmptySet DEF CountOf, Or
<1> QED BY <1>2, <1>3

\* Sets without a common element.
LEMMA Disjoint ==
    ASSUME NEW S, NEW T, IsFiniteSet(S), IsFiniteSet(T), S \cap T = {}
    PROVE  /\ IsFiniteSet(S \cup T)
           /\ Cardinality(S \cup T) = Cardinality(S) + Cardinality(T)
<1>1. Cardinality(S) \in Nat /\ Cardinality(T) \in Nat /\ Cardinality(S \cap T) = 0
  BY FS_CardinalityType, FS_EmptySet
<1>2. IsFiniteSet(S \cup T) /\ Cardinality(S \cup T) = Cardinality(S) + Cardinality(T) - Cardinality(S \cap T)
  BY FS_Union, Zenon
<1> QED BY <1>1, <1>2

\* The proxies that are online, type by type.
LEMMA InSumAdds ==
    ASSUME Inv
    PROVE  InSum = Cardinality(Registered("tcp")) + Cardinality(Registered("udp"))
                   + Cardinality(Registered("http")) + Cardinality(Registered("https"))
                   + Cardinality(Registered("stcp")) + Cardinality(Registered("sudp"))
                   + Cardinality(Registered("xtcp"))
<1> DEFINE R(t) == Registered(t)
           S2 == R("tcp") \cup R("udp")
           S3 == S2 \cup R("http")
           S4 == S3 \cup R("https")
           S5 == S4 \cup R("stcp")
           S6 == S5 \cup R("sudp")
           S7 == S6 \cup R("xtcp")
<1>1. \A t : IsFiniteSet(R(t))
  BY FiniteAssumption, FS_Subset DEF Registered
<1>2. \A t, u : t # u => R(t) \cap R(u) = {}
  BY DEF Registered
<1>3. {n \in Name : pxys[n] # NoPxy /\ pxys[n].type # "tcpmux"} = S7
  <2>1. \A n \in Name : pxys[n] # NoPxy => pxys[n].type \in ProxyType
    BY DashboardAssumption DEF Inv, ServerTypeOK
  <2> QED BY <2>1 DEF Registered, ProxyType
<1> HIDE DEF R
<1>4. IsFiniteSet(S2) /\ Cardinality(S2) = Cardinality(R("tcp")) + Cardinality(R("udp"))
  BY <1>1, <1>2, Disjoint
<1>5. IsFiniteSet(S3) /\ Cardinality(S3) = Cardinality(S2) + Cardinality(R("http"))
  <2>1. S2 \cap R("http") = {}
    BY <1>2
  <2> QED BY <1>1, <1>4, <2>1, Disjoint
<1>6. IsFiniteSet(S4) /\ Cardinality(S4) = Cardinality(S3) + Cardinality(R("https"))
  <2>1. S3 \cap R("https") = {}
    BY <1>2
  <2> QED BY <1>1, <1>5, <2>1, Disjoint
<1>7. IsFiniteSet(S5) /\ Cardinality(S5) = Cardinality(S4) + Cardinality(R("stcp"))
  <2>1. S4 \cap R("stcp") = {}
    BY <1>2
  <2> QED BY <1>1, <1>6, <2>1, Disjoint
<1>8. IsFiniteSet(S6) /\ Cardinality(S6) = Cardinality(S5) + Cardinality(R("sudp"))
  <2>1. S5 \cap R("sudp") = {}
    BY <1>2
  <2> QED BY <1>1, <1>7, <2>1, Disjoint
<1>9. Cardinality(S7) = Cardinality(S6) + Cardinality(R("xtcp"))
  <2>1. S6 \cap R("xtcp") = {}
    BY <1>2
  <2> QED BY <1>1, <1>8, <2>1, Disjoint
<1> HIDE DEF S2, S3, S4, S5, S6, S7
<1>10. InSum = Cardinality(S7)
  BY <1>3 DEF InSum
<1> QED BY <1>4, <1>5, <1>6, <1>7, <1>8, <1>9, <1>10 DEF R

\* What frps answers.
LEMMA AnsweredInfo ==
    ASSUME Inv, CountsAgree, config \in Config
    PROVE  InfoOK([config |-> config, proxyTypeCount |-> Counts, online |-> InSum, quiet |-> Quiet])
<1>1. \A t \in ProxyType : CountOf(Counts, t) \in Int
  <2> SUFFICES ASSUME NEW t \in ProxyType PROVE CountOf(Counts, t) \in Int OBVIOUS
  <2>1. t \in counted => Field(Counts, t) \in Int
    BY DEF Field, Counts, Inv, ServerTypeOK
  <2>2. t \notin counted => Field(Counts, t) = Undefined
    BY DEF Field, Counts
  <2> QED BY <2>1, <2>2 DEF CountOf, Or
<1>2. ASSUME Quiet PROVE ProxyCounts(Counts) = InSum
  <2>1. \A t \in ProxyType : CountOf(Counts, t) = Cardinality(Registered(t))
    BY <1>2, QuietCounts
  <2>2. ProxyCounts(Counts) = CountOf(Counts, "tcp") + CountOf(Counts, "udp") + CountOf(Counts, "http")
            + CountOf(Counts, "https") + CountOf(Counts, "stcp") + CountOf(Counts, "sudp")
            + CountOf(Counts, "xtcp")
    BY DEF ProxyCounts, CountOf
  <2> QED BY <2>1, <2>2, InSumAdds DEF ProxyType
<1> DEFINE b == [config |-> config, proxyTypeCount |-> Counts, online |-> InSum, quiet |-> Quiet]
<1>3. b.config = config /\ b.proxyTypeCount = Counts /\ b.online = InSum /\ b.quiet = Quiet
  OBVIOUS
<1>4. b # Nothing
  <2>1. "config" \in DOMAIN b /\ "config" \notin DOMAIN Nothing
    BY DEF Nothing
  <2> QED BY <2>1
<1> HIDE DEF b
<1>5. InfoOK(b)
  BY <1>1, <1>2, <1>3, <1>4 DEF InfoOK
<1> QED BY <1>5 DEF b

\* A request goes on, or is over.
LEMMA InfoEdit ==
    ASSUME NEW s, NEW v, LaterBelong(s, v), InfosOK(s), NEW i \in DOMAIN s, NEW r,
           r.kind = "over" \/ r.visit = s[i].visit,
           r.kind = "serverinfo" /\ r.at = "answered" => InfoOK(r.body),
           s[i].kind = "over" => r.kind = "over"
    PROVE  LaterBelong([s EXCEPT ![i] = r], v) /\ InfosOK([s EXCEPT ![i] = r])
<1> DEFINE e == [s EXCEPT ![i] = r]
<1>1. DOMAIN e = DOMAIN s /\ \A j \in DOMAIN s : e[j] = IF j = i THEN r ELSE s[j]
  OBVIOUS
<1> HIDE DEF e
<1>2. LaterBelong(e, v) /\ InfosOK(e)
  BY <1>1 DEF LaterBelong, InfosOK
<1> QED BY <1>2 DEF e

\* A new request of the mounted page.
LEMMA InfoAdd ==
    ASSUME NEW s, \E S : s \in Seq(S), NEW v, LaterBelong(s, v), InfosOK(s), NEW r, r.visit = v,
           r.at # "answered"
    PROVE  LaterBelong(Append(s, r), v) /\ InfosOK(Append(s, r))
<1>1. PICK S : s \in Seq(S)
  OBVIOUS
<1> DEFINE e == Append(s, r)
<1>2. \A j \in DOMAIN e : (j \in DOMAIN s /\ e[j] = s[j]) \/ e[j] = r
  BY <1>1
<1> HIDE DEF e
<1>3. LaterBelong(e, v) /\ InfosOK(e)
  BY <1>2 DEF LaterBelong, InfosOK
<1> QED BY <1>3 DEF e

LEMMA ChartStays == ChartInv /\ UNCHANGED <<visit, home>> => ChartInv'
BY DEF ChartInv, home

LEMMA FetchFields ==
    ASSUME NEW p, NEW v
    PROVE  LET r == FetchData(p, v) IN r.visit = v /\ r.at # "answered"
BY DEF FetchData, Req

LEMMA OverviewInit == Init => OverviewInv
<1> SUFFICES ASSUME Init PROVE OverviewInv OBVIOUS
<1>1. DOMAIN reqs = {1} /\ reqs[1] = FetchData(page, 0) /\ visit = 0 /\ overview = Nothing
  BY DEF Init
<1>2. reqs[1].visit = 0 /\ reqs[1].at # "answered"
  BY <1>1, FetchFields
<1> QED BY <1>1, <1>2 DEF OverviewInv, LaterBelong, InfosOK, ChartInv

LEMMA OverviewUser == BrowserInv /\ OverviewInv /\ User => OverviewInv'
<1> SUFFICES ASSUME BrowserInv, OverviewInv, User PROVE OverviewInv' OBVIOUS
<1>1. \E S : reqs \in Seq(S)
  BY DEF BrowserInv, ReqsInv, ReqsOK
<1>2. ASSUME NEW r, reqs' = Append(reqs, r), r.visit = visit, r.at # "answered", UNCHANGED <<visit, home>>
      PROVE  OverviewInv'
  BY <1>1, <1>2, InfoAdd, ChartStays DEF OverviewInv
<1>3. ASSUME NEW p \in Pages, Navigate(p) PROVE OverviewInv'
  <2> DEFINE r == FetchData(p, Len(reqs))
  <2>1. r.visit = Len(reqs) /\ r.at # "answered"
    BY FetchFields
  <2> HIDE DEF r
  <2>2. reqs' = Append(reqs, r) /\ visit' = Len(reqs) /\ overview' = Nothing
    BY <1>3 DEF Navigate, r
  <2>3. PICK S : reqs \in Seq(S)
    BY <1>1
  <2>4. \A j \in DOMAIN reqs' : (j \in DOMAIN reqs /\ j <= Len(reqs) /\ reqs'[j] = reqs[j]) \/ reqs'[j] = r
    BY <2>2, <2>3
  <2>5. \A j \in DOMAIN reqs : j <= Len(reqs) => ~(j > Len(reqs))
    BY <2>3
  <2>6. LaterBelong(reqs', visit') /\ InfosOK(reqs')
    BY <2>1, <2>2, <2>4, <2>5 DEF LaterBelong, OverviewInv, InfosOK
  <2> QED BY <2>2, <2>6 DEF OverviewInv, ChartInv
<1>4. CASE Refresh
  BY <1>2, <1>4, FetchFields DEF Refresh, table
<1>5. CASE ClearOfflineProxies
  <2>1. Req("clear", page, "sent", visit).visit = visit /\ Req("clear", page, "sent", visit).at # "answered"
    BY DEF Req
  <2> QED BY <1>2, <1>5, <2>1 DEF ClearOfflineProxies, table
<1>6. ASSUME NEW row \in rows, OpenTraffic(row) PROVE OverviewInv'
  <2> DEFINE r == [Req("traffic", page, "sent", visit) EXCEPT !.name = row.name]
  <2>1. r.visit = visit /\ r.at # "answered"
    BY DEF Req
  <2>2. reqs' = Append(reqs, r) /\ UNCHANGED <<visit, home>>
    BY <1>6 DEF OpenTraffic, table
  <2> HIDE DEF r
  <2> QED BY <1>2, <2>1, <2>2
<1>7. CASE CloseTraffic
  BY <1>7, ChartStays DEF CloseTraffic, OverviewInv, table
<1> QED BY <1>3, <1>4, <1>5, <1>6, <1>7 DEF User

LEMMA OverviewApi ==
    ASSUME Inv, CountsAgree, BrowserInv, OverviewInv, NEW i \in DOMAIN reqs, Api(i)
    PROVE  OverviewInv'
<1>1. DOMAIN reqs[i] = ReqFields
  BY KnownReq DEF ReqOK
<1>2. ASSUME NEW r, reqs' = [reqs EXCEPT ![i] = r], r.visit = reqs[i].visit, r.kind = reqs[i].kind,
             r.kind = "serverinfo" /\ r.at = "answered" => InfoOK(r.body), UNCHANGED <<visit, home>>
      PROVE  OverviewInv'
  BY <1>2, InfoEdit, ChartStays DEF OverviewInv
<1>3. CASE ServerInfo(i)
  <2> DEFINE b == [config |-> config, proxyTypeCount |-> Counts, online |-> InSum, quiet |-> Quiet]
             r == [reqs[i] EXCEPT !.at = "answered", !.body = b]
  <2>1. reqs' = [reqs EXCEPT ![i] = r]
    BY <1>3 DEF ServerInfo
  <2>2. InfoOK(b)
    BY AnsweredInfo DEF BrowserInv, FrpsInv
  <2> HIDE DEF b
  <2>3. r.visit = reqs[i].visit /\ r.kind = reqs[i].kind /\ r.body = b
    BY <1>1 DEF ReqFields
  <2> HIDE DEF r
  <2> QED BY <1>2, <1>3, <2>1, <2>2, <2>3 DEF ServerInfo, table
<1>4. ASSUME NEW r, reqs' = [reqs EXCEPT ![i] = r], r.visit = reqs[i].visit, r.kind = reqs[i].kind,
             r.kind # "serverinfo", UNCHANGED <<visit, home>>
      PROVE  OverviewInv'
  BY <1>2, <1>4
<1>5. CASE ServerInfoPort(i)
  <2>1. PICK b : reqs' = [reqs EXCEPT ![i] = [reqs[i] EXCEPT !.at = "hasPort", !.info = b]]
    BY <1>5 DEF ServerInfoPort
  <2>2. LET r == [reqs[i] EXCEPT !.at = "hasPort", !.info = b]
        IN  r.visit = reqs[i].visit /\ r.kind = reqs[i].kind /\ r.kind = "proxies"
    BY <1>1, <1>5 DEF ServerInfoPort, Is, ReqFields
  <2> QED BY <1>4, <1>5, <2>1, <2>2 DEF ServerInfoPort, table
<1>6. CASE CollectStats(i)
  <2>1. PICK b : reqs' = [reqs EXCEPT ![i] = [reqs[i] EXCEPT !.at = "collected", !.names = b]]
    BY <1>6 DEF CollectStats
  <2>2. LET r == [reqs[i] EXCEPT !.at = "collected", !.names = b]
        IN  r.visit = reqs[i].visit /\ r.kind = reqs[i].kind /\ r.kind = "proxies"
    BY <1>1, <1>6 DEF CollectStats, Is, ReqFields
  <2> QED BY <1>4, <1>6, <2>1, <2>2 DEF CollectStats, table
<1>7. CASE GetProxyStats(i)
  <2>1. PICK b : reqs' = [reqs EXCEPT ![i] = [reqs[i] EXCEPT !.at = "answered", !.names = {}, !.body = b]]
    BY <1>7 DEF GetProxyStats
  <2>2. LET r == [reqs[i] EXCEPT !.at = "answered", !.names = {}, !.body = b]
        IN  r.visit = reqs[i].visit /\ r.kind = reqs[i].kind /\ r.kind = "proxies"
    BY <1>1, <1>7 DEF GetProxyStats, Is, ReqFields
  <2> QED BY <1>4, <1>7, <2>1, <2>2 DEF GetProxyStats, table
<1>8. CASE DeleteProxies(i) \/ ProxyTraffic(i)
  <2>1. PICK at : reqs' = [reqs EXCEPT ![i] = [reqs[i] EXCEPT !.at = at]]
    BY <1>8 DEF DeleteProxies, ProxyTraffic
  <2>2. LET r == [reqs[i] EXCEPT !.at = at]
        IN  r.visit = reqs[i].visit /\ r.kind = reqs[i].kind /\ r.kind # "serverinfo"
    BY <1>1, <1>8 DEF DeleteProxies, ProxyTraffic, Is, ReqFields
  <2> QED BY <1>4, <1>8, <2>1, <2>2 DEF DeleteProxies, ProxyTraffic, table
<1> QED BY <1>3, <1>5, <1>6, <1>7, <1>8 DEF Api

LEMMA OverviewAnswer ==
    ASSUME BrowserInv, OverviewInv, NEW i \in DOMAIN reqs, Answer(i)
    PROVE  OverviewInv'
<1> DEFINE over == Req("over", "/", "over", 0)
<1>1. over.kind = "over" /\ over.at = "over"
  BY DEF Req
<1>2. Over(i, reqs) = [reqs EXCEPT ![i] = over]
  BY DEF Over
<1> HIDE DEF over
<1>3. LaterBelong(Over(i, reqs), visit) /\ InfosOK(Over(i, reqs))
  <2>1. LaterBelong([reqs EXCEPT ![i] = over], visit) /\ InfosOK([reqs EXCEPT ![i] = over])
    BY <1>1, InfoEdit DEF OverviewInv
  <2> QED BY <1>2, <2>1
<1>4. CASE reqs' = Over(i, reqs) /\ UNCHANGED <<visit, home>>
  BY <1>3, <1>4, ChartStays DEF OverviewInv
<1>5. CASE ServerInfoArrives(i)
  <2> USE <1>5 DEF ServerInfoArrives
  <2>1. InfoOK(reqs[i].body) /\ reqs[i].kind = "serverinfo"
    BY DEF OverviewInv, InfosOK, Is
  <2>2. ChartInv'
    <3>1. CASE Mounted(i)
      <4>1. page = "/"
        BY <2>1, <3>1, KnownReq DEF ReqOK, Mounted
      <4>2. overview' = reqs[i].body /\ pie'.slices = ProxySlices(reqs[i].body.proxyTypeCount)
        BY <3>1, <4>1
      <4> QED BY <2>1, <4>2 DEF ChartInv
    <3>2. CASE ~Mounted(i)
      <4>1. ~(i > visit)
        BY <2>1, <3>2 DEF OverviewInv, LaterBelong, Mounted
      <4>2. overview' = overview /\ visit' = visit
        BY <3>2 DEF table
      <4>3. pie' = pie \/ pie'.from = i
        OBVIOUS
      <4> QED BY <4>1, <4>2, <4>3 DEF OverviewInv, ChartInv
    <3> QED BY <3>1, <3>2
  <2> QED BY <1>3, <2>2 DEF OverviewInv, table
<1>6. CASE PortArrives(i)
  <2>1. CASE reqs' = [reqs EXCEPT ![i].at = "sent"]
    <3> DEFINE r == [reqs[i] EXCEPT !.at = "sent"]
    <3>1. DOMAIN reqs[i] = ReqFields
      BY KnownReq DEF ReqOK
    <3>2. r.visit = reqs[i].visit /\ r.kind = "proxies" /\ reqs[i].kind = "proxies"
      BY <1>6, <3>1 DEF PortArrives, Is, ReqFields
    <3>3. reqs' = [reqs EXCEPT ![i] = r]
      BY <2>1
    <3> HIDE DEF r
    <3>4. LaterBelong(reqs', visit) /\ InfosOK(reqs')
      BY <3>2, <3>3, InfoEdit DEF OverviewInv
    <3> QED BY <1>6, <3>4, ChartStays DEF PortArrives, OverviewInv, table
  <2> QED BY <1>4, <1>6, <2>1 DEF PortArrives, table
<1>7. CASE ClearArrives(i)
  <2>1. CASE Mounted(i)
    <3>1. \E S : Over(i, reqs) \in Seq(S)
      <4>1. PICK S : reqs \in Seq(S)
        BY DEF BrowserInv, ReqsInv, ReqsOK
      <4>2. Over(i, reqs) \in Seq(S \cup {over})
        BY <1>2, <4>1
      <4> QED BY <4>2
    <3>2. LaterBelong(reqs', visit) /\ InfosOK(reqs')
      BY <1>3, <1>7, <2>1, <3>1, FetchFields, InfoAdd DEF ClearArrives
    <3> QED BY <1>7, <3>2, ChartStays DEF ClearArrives, OverviewInv, table
  <2> QED BY <1>4, <1>7, <2>1 DEF ClearArrives, table
<1>8. CASE Fails(i) \/ ProxiesArrive(i) \/ TrafficArrives(i)
  BY <1>4, <1>8 DEF Fails, ProxiesArrive, TrafficArrives, table
<1> QED BY <1>5, <1>6, <1>7, <1>8 DEF Answer

LEMMA OverviewStep == Inv /\ CountsAgree /\ BrowserInv /\ OverviewInv /\ [Next]_vars => OverviewInv'
<1> SUFFICES ASSUME Inv, CountsAgree, BrowserInv, OverviewInv, [Next]_vars PROVE OverviewInv' OBVIOUS
<1>1. CASE User
  BY <1>1, OverviewUser
<1>2. CASE Restart
  <2> DEFINE over == Req("over", "/", "over", 0)
  <2>1. over.kind = "over"
    BY DEF Req
  <2>2. DOMAIN reqs' = DOMAIN reqs /\ \A i \in DOMAIN reqs : reqs'[i] = over \/ reqs'[i] = reqs[i]
    BY <1>2 DEF Restart
  <2> HIDE DEF over
  <2>3. LaterBelong(reqs', visit) /\ InfosOK(reqs')
    BY <2>1, <2>2 DEF OverviewInv, LaterBelong, InfosOK
  <2> QED BY <1>2, <2>3, ChartStays DEF Restart, OverviewInv, table
<1>3. CASE \E i \in DOMAIN reqs : Api(i) \/ Answer(i)
  BY <1>3, OverviewApi, OverviewAnswer
<1>4. CASE UNCHANGED <<config, restarts, table, home, window, reqs>>
  BY <1>4, ChartStays DEF OverviewInv, table
<1>5. CASE UNCHANGED vars
  BY <1>4, <1>5 DEF vars, server
<1> QED BY <1>1, <1>2, <1>3, <1>4, <1>5 DEF Next

\* The slices are those of the types that are added up.
LEMMA SlicesAddUp ==
    ASSUME NEW byType, \A t \in ProxyType : CountOf(byType, t) \in Int
    PROVE  SliceSum(ProxySlices(byType)) = ProxyCounts(byType)
<1> DEFINE s == ProxySlices(byType)
           n(t) == IF t \in DOMAIN s THEN s[t] ELSE 0
<1>1. \A t \in SliceTypes : n(t) = CountOf(byType, t)
  <2> SUFFICES ASSUME NEW t \in SliceTypes PROVE n(t) = CountOf(byType, t) OBVIOUS
  <2>1. t \in DOMAIN s <=> CountOf(byType, t) # 0
    BY DEF ProxySlices, CountOf
  <2>2. t \in DOMAIN s => s[t] = byType[t]
    BY DEF ProxySlices
  <2>3. CountOf(byType, t) # 0 => CountOf(byType, t) = byType[t]
    BY DEF CountOf, Or, Field
  <2> HIDE DEF s
  <2> QED BY <2>1, <2>2, <2>3
<1>2. n("tcpmux") = 0
  BY DEF ProxySlices, SliceTypes
<1>3. SliceSum(s) = n("tcp") + n("udp") + n("http") + n("https") + n("tcpmux") + n("stcp") + n("sudp") + n("xtcp")
  BY DEF SliceSum
<1>4. ProxyCounts(byType) = CountOf(byType, "tcp") + CountOf(byType, "udp") + CountOf(byType, "http")
          + CountOf(byType, "https") + CountOf(byType, "stcp") + CountOf(byType, "sudp")
          + CountOf(byType, "xtcp")
  BY DEF ProxyCounts, CountOf
<1> HIDE DEF n, s
<1>5. SliceSum(s) = ProxyCounts(byType)
  BY <1>1, <1>2, <1>3, <1>4 DEF SliceTypes, ProxyType
<1> QED BY <1>5 DEF s

\* The data of the overview are the fields of its answer.
LEMMA DataFields ==
    ASSUME overview.config \in Config
    PROVE  /\ \A f \in OptionalPort \cup {"subdomainHost", "allowPortsStr", "tlsForce"} :
                 Data[f] = Field(InfoOf[overview.config], f)
           /\ Data.proxyCounts = ProxyCounts(overview.proxyTypeCount)
<1> DEFINE set == InfoOf[overview.config]
           byType == [proxyTypeCount |-> overview.proxyTypeCount]
           json == Merge(set, byType)
           F == OptionalPort \cup {"subdomainHost", "allowPortsStr", "tlsForce"}
           copied == [f \in F |-> Field(json, f)]
<1>1. "proxyTypeCount" \notin DOMAIN set
  BY InfoAssumption
<1>2. DOMAIN byType = {"proxyTypeCount"} /\ byType["proxyTypeCount"] = overview.proxyTypeCount
  OBVIOUS
<1> HIDE DEF set, byType
<1>3. json["proxyTypeCount"] = overview.proxyTypeCount
  BY <1>1, <1>2, MergeSecond
<1>4. DOMAIN json = DOMAIN set \cup {"proxyTypeCount"}
  BY <1>2 DEF Merge
<1>5. \A f \in F : Field(json, f) = Field(set, f)
  <2> SUFFICES ASSUME NEW f \in F PROVE Field(json, f) = Field(set, f) OBVIOUS
  <2>1. f # "proxyTypeCount"
    BY DEF OptionalPort
  <2>2. f \in DOMAIN set => json[f] = set[f]
    BY MergeFirst
  <2> HIDE DEF json
  <2> QED BY <1>4, <2>1, <2>2 DEF Field
<1> HIDE DEF json
<1>6. PICK max : Data = Merge(copied, [maxPortsPerClient |-> max, proxyCounts |-> ProxyCounts(overview.proxyTypeCount)])
  BY <1>3 DEF Data, OverviewData, set, byType, json
<1>7. \A f \in F : Data[f] = Field(json, f)
  <2>1. \A f \in F : f \in DOMAIN copied /\ copied[f] = Field(json, f)
    OBVIOUS
  <2> HIDE DEF copied
  <2> QED BY <1>6, <2>1, MergeFirst
<1>8. Data["proxyCounts"] = ProxyCounts(overview.proxyTypeCount)
  <2> DEFINE two == [maxPortsPerClient |-> max, proxyCounts |-> ProxyCounts(overview.proxyTypeCount)]
  <2>1. "proxyCounts" \in DOMAIN two /\ two["proxyCounts"] = ProxyCounts(overview.proxyTypeCount)
    OBVIOUS
  <2>2. "proxyCounts" \notin DOMAIN copied
    BY DEF OptionalPort
  <2> HIDE DEF two, copied
  <2> QED BY <1>6, <2>1, <2>2, MergeSecond DEF two
<1> QED BY <1>5, <1>7, <1>8 DEF set

\* A text that has not 30 characters is in one span.
LEMMA OneSpan ==
    ASSUME NEW c, c # Undefined, Len(c) \in Nat, Len(c) # 30
    PROVE  Cardinality(LongSpan(c, 30)) = 1
<1> DEFINE short == SubSeq(c, 1, 30) \o <<"...">>
<1>1. \A x : Cardinality({x}) = 1
  BY FS_Singleton
<1>2. LongSpan(c, 30) = {short : d \in {d \in {c} : Len(d) > 30}} \cup {d \in {c} : Len(d) < 30}
  BY DEF LongSpan
<1> HIDE DEF short
<1>3. CASE Len(c) > 30
  <2>1. LongSpan(c, 30) = {short}
    BY <1>2, <1>3
  <2> QED BY <1>1, <2>1
<1>4. CASE Len(c) < 30
  <2>1. LongSpan(c, 30) = {c}
    BY <1>2, <1>4
  <2> QED BY <1>1, <2>1
<1>5. Len(c) > 30 \/ Len(c) < 30
  <2>1. \A k \in Nat : k # 30 => k > 30 \/ k < 30
    OBVIOUS
  <2> QED BY <2>1, Zenon
<1> QED BY <1>3, <1>4, <1>5

\* The overview adds up: its number is that of the slices beside it and of the proxies that were
\* online, through all counts of types that are reported late, and it has an item for each setting that
\* is on, for every configuration of frps.
THEOREM OverviewCorrect == Spec => []OverviewFaithful
<1>1. OverviewInv => AddsUp
  <2> SUFFICES ASSUME OverviewInv, overview # Nothing
               PROVE  /\ pie.from > visit => SliceSum(pie.slices) = Data.proxyCounts
                      /\ overview.quiet => Data.proxyCounts = overview.online
    BY DEF AddsUp
  <2>1. InfoOK(overview) /\ (pie.from > visit => pie.slices = ProxySlices(overview.proxyTypeCount))
    BY DEF OverviewInv, ChartInv
  <2>2. Data.proxyCounts = ProxyCounts(overview.proxyTypeCount)
    BY <2>1, DataFields DEF InfoOK
  <2> QED BY <2>1, <2>2, SlicesAddUp DEF InfoOK
<1>2. OverviewInv => Legible
  <2> SUFFICES ASSUME OverviewInv, overview # Nothing PROVE Legible BY DEF Legible
  <2> DEFINE set == InfoOf[overview.config]
             text == {"subdomainHost", "allowPortsStr"}
             on == {f \in OptionalPort : set[f] > 0} \cup {f \in text \cap DOMAIN set : set[f] # << >>}
                   \cup {f \in {"tlsForce"} \cap DOMAIN set : set[f]}
  <2>1. overview.config \in Config
    BY DEF OverviewInv, ChartInv, InfoOK
  <2>2. /\ OptionalPort \cup {"subdomainHost"} \subseteq DOMAIN set
        /\ \A f \in DOMAIN set : set[f] # Undefined
        /\ \A f \in OptionalPort : set[f] \in Nat
        /\ \A f \in text \cap DOMAIN set : Len(set[f]) \in Nat
        /\ "tlsForce" \in DOMAIN set => set["tlsForce"] \in BOOLEAN
        /\ Undefined # TRUE
    BY <2>1, InfoAssumption
  <2>3. \A f \in OptionalPort \cup text \cup {"tlsForce"} : Data[f] = IF f \in DOMAIN set THEN set[f] ELSE Undefined
    BY <2>1, DataFields DEF Field
  <2> HIDE DEF set
  <2>4. \A f : f \in Items(Data) \ {"allowPortsStr"} <=> f \in on \ {"allowPortsStr"}
    <3> SUFFICES ASSUME NEW f, f # "allowPortsStr" PROVE f \in Items(Data) <=> f \in on OBVIOUS
    <3>1. CASE f \in OptionalPort
      <4>1. f \in Items(Data) <=> Data[f] # 0
        BY <3>1 DEF Items, OptionalPort
      <4>2. f \in on <=> set[f] > 0
        BY <3>1 DEF OptionalPort
      <4>3. Data[f] = set[f] /\ set[f] \in Nat
        BY <2>2, <2>3, <3>1
      <4> QED BY <4>1, <4>2, <4>3
    <3>2. CASE f = "subdomainHost"
      <4>1. f \in Items(Data) <=> Data[f] # << >>
        BY <3>2 DEF Items, OptionalPort
      <4>2. f \in on <=> f \in DOMAIN set /\ set[f] # << >>
        BY <3>2 DEF OptionalPort
      <4>3. Data[f] = set[f] /\ f \in DOMAIN set
        BY <2>2, <2>3, <3>2
      <4> QED BY <4>1, <4>2, <4>3
    <3>3. CASE f = "tlsForce"
      <4>1. f \in Items(Data) <=> Data[f] = TRUE
        BY <3>3 DEF Items, OptionalPort
      <4>2. f \in on <=> f \in DOMAIN set /\ set[f]
        BY <3>3 DEF OptionalPort
      <4>3. f \in DOMAIN set => Data[f] = set[f] /\ set[f] \in BOOLEAN
        BY <2>2, <2>3, <3>3
      <4>4. f \notin DOMAIN set => Data[f] # TRUE
        BY <2>2, <2>3, <3>3
      <4> QED BY <4>1, <4>2, <4>3, <4>4
    <3>4. CASE f \notin OptionalPort \cup {"subdomainHost", "tlsForce"}
      BY <3>4 DEF Items
    <3> QED BY <3>1, <3>2, <3>3, <3>4
  <2>5. ASSUME NEW f \in Items(Data) \cap on \cap text, Len(set[f]) # 30
        PROVE  Cardinality(LongSpan(Data[f], 30)) = 1
    <3>1. f \in DOMAIN set
      BY <2>5 DEF OptionalPort
    <3>2. Data[f] = set[f] /\ set[f] # Undefined /\ Len(set[f]) \in Nat
      BY <2>2, <2>3, <3>1
    <3> QED BY <2>5, <3>2, OneSpan
  <2>6. Items(Data) \ {"allowPortsStr"} = on \ {"allowPortsStr"}
    BY <2>4
  <2> QED BY <2>5, <2>6 DEF Legible, set
<1>3. OverviewInv => OverviewFaithful
  BY <1>1, <1>2 DEF OverviewFaithful
<1> QED BY <1>3, OverviewInit, OverviewStep, DashboardServes, InvAlways, CountsCorrect, BrowserInvAlways, PTL
        DEF Spec

---------------------------------------------------------------------------
(* ProxyTraffic *)

\* A counter that has not been used since a day has no traffic on later ones.
SilentSince ==
    \A d \in Dir, day \in Day : day > lastUpdate[d] => hist[d][day] = 0

\* What a counter has, if no day is shorter than 24 hours.
Exact(c, h, d, asOf) == \A i \in Slot : c[d][i] = TrafficOn(h, d, asOf - i)

\* An answer on its way.
ReplyExact ==
    /\ trafficDialog = "answered" =>
           reply \in [asOf : [Dir -> Day], counts : [Dir -> [Slot -> Nat]], truth : [Dir -> [Day -> Nat]]]
    /\ change >= 0 /\ trafficDialog = "answered" =>
           \A d \in Dir : Exact(reply.counts, reply.truth, d, reply.asOf[d])

TrafficInv == TrafficTypeOK /\ SilentSince /\ CountsExact /\ ReplyExact /\ BarsAreDated

---------------------------------------------------------------------------
(* rotate *)

\* The hours since the midnight of the last use are whole days, and perhaps one hour.
LEMMA DaysSinceType ==
    ASSUME TrafficTypeOK, NEW d \in Dir, NEW now \in Day, today <= now
    PROVE  /\ DaysSince(d, now) \in Nat
           /\ change >= 0 => DaysSince(d, now) = now - lastUpdate[d]
<1>1. /\ now \in Nat /\ lastUpdate[d] \in Nat /\ changeDay \in Nat
      /\ change \in -1 .. 1 /\ lastUpdate[d] <= now
  BY DaysAssumption DEF TrafficTypeOK, Day
<1>2. PICK h \in -1 .. 1 :
          /\ Midnight(now) - Midnight(lastUpdate[d]) = 24 * (now - lastUpdate[d]) + h
          /\ now = lastUpdate[d] => h = 0
          /\ change >= 0 => h >= 0
  BY <1>1 DEF Midnight
<1> DEFINE k == now - lastUpdate[d]
<1>3. k \in Nat /\ (k = 0 => h = 0)
  <2>1. now = lastUpdate[d] => h = 0
    BY <1>2, Zenon
  <2>2. k \in Nat /\ (k = 0 => now = lastUpdate[d])
    BY <1>1
  <2> QED BY <2>1, <2>2
<1>4. DaysSince(d, now) = (24 * k + h) \div 24
  BY <1>2, Zenon DEF DaysSince
<1> HIDE DEF k
<1>5. (24 * k + h) \div 24 \in Nat /\ (h >= 0 => (24 * k + h) \div 24 = k)
  <2>1. CASE h = 0
    BY <1>3, <2>1
  <2>2. CASE h = 1
    BY <1>3, <2>2
  <2>3. CASE h = -1
    BY <1>3, <2>3
  <2> QED BY <2>1, <2>2, <2>3
<1> QED BY <1>1, <1>2, <1>4, <1>5 DEF k

LEMMA RotatedType ==
    ASSUME TrafficTypeOK, NEW d \in Dir, NEW now \in Day, today <= now
    PROVE  Rotated(d, now) \in [Slot -> Nat]
<1>1. DaysSince(d, now) \in Nat
  BY DaysSinceType
<1>2. counts[d] \in [Slot -> Nat]
  BY DEF TrafficTypeOK
<1> QED BY <1>1, <1>2, DaysAssumption DEF Rotated, Slot

\* A rotated counter is exact as of the date that it was rotated to.
LEMMA RotatedExact ==
    ASSUME TrafficTypeOK, SilentSince, CountsExact, change >= 0, known,
           NEW d \in Dir, NEW i \in Slot, NEW now \in Day, today <= now
    PROVE  Rotated(d, now)[i] = TrafficOn(hist, d, now - i)
<1> DEFINE days == DaysSince(d, now)
<1>1. days = now - lastUpdate[d] /\ days \in Nat
  BY DaysSinceType
<1>2. now \in Nat /\ now <= MaxDay /\ MaxDay \in Nat /\ lastUpdate[d] \in Nat /\ i \in Nat
  BY DaysAssumption DEF TrafficTypeOK, Day, Slot
<1>3. Rotated(d, now)[i] = IF i < days THEN 0 ELSE counts[d][i - days]
  BY DEF Rotated
<1>4. CASE i < days
  <2>1. now - i > lastUpdate[d] /\ now - i \in Day
    BY <1>1, <1>2, <1>4 DEF Day
  <2> QED BY <1>3, <1>4, <2>1 DEF SilentSince, TrafficOn
<1>5. CASE ~(i < days)
  <2>1. i - days \in Slot /\ lastUpdate[d] - (i - days) = now - i
    BY <1>1, <1>2, <1>5, DaysAssumption DEF Slot
  <2> QED BY <1>3, <1>5, <2>1 DEF CountsExact
<1> QED BY <1>4, <1>5

---------------------------------------------------------------------------
LEMMA TrafficInitInv == TrafficInit => TrafficInv
<1> SUFFICES ASSUME TrafficInit PROVE TrafficInv OBVIOUS
<1> USE DaysAssumption DEF TrafficInit
<1>1. TrafficTypeOK
  BY DEF TrafficTypeOK, Day, Slot, Zeros, Silence
<1>2. SilentSince /\ CountsExact
  BY DEF SilentSince, CountsExact, Zeros, Silence, TrafficOn, Day, Slot
<1>3. ReplyExact /\ BarsAreDated
  BY DEF ReplyExact, BarsAreDated
<1> QED BY <1>1, <1>2, <1>3 DEF TrafficInv

LEMMA AddTrafficInv ==
    ASSUME TrafficInv, NEW e \in Dir, AddTraffic(e)
    PROVE  TrafficInv'
<1> USE DEF AddTraffic, clocks, browser
<1>1. TrafficTypeOK /\ SilentSince /\ CountsExact /\ ReplyExact /\ BarsAreDated
  BY DEF TrafficInv
<1>2. Rotated(e, today) \in [Slot -> Nat] /\ 0 \in Slot /\ today \in Day /\ today \in Nat
  <2>1. 0 \in Slot /\ today \in Day /\ today \in Nat /\ today <= today
    BY <1>1, DaysAssumption DEF Slot, TrafficTypeOK, Day
  <2>2. Rotated(e, today) \in [Slot -> Nat]
    BY <1>1, <2>1, RotatedType
  <2> QED BY <2>1, <2>2
<1>3. TrafficTypeOK'
  <2>1. counts' \in [Dir -> [Slot -> Nat]]
    <3>1. [Rotated(e, today) EXCEPT ![0] = @ + 1] \in [Slot -> Nat]
      BY <1>2
    <3> QED BY <1>1, <3>1 DEF TrafficTypeOK
  <2>2. lastUpdate' \in [Dir -> Day] /\ \A d \in Dir : lastUpdate'[d] <= today'
    BY <1>1, <1>2 DEF TrafficTypeOK
  <2>3. hist' \in [Dir -> [Day -> Nat]]
    BY <1>1, <1>2 DEF TrafficTypeOK
  <2> QED BY <1>1, <2>1, <2>2, <2>3 DEF TrafficTypeOK
<1>4. SilentSince'
  <2> SUFFICES ASSUME NEW d \in Dir, NEW day \in Day, day > lastUpdate'[d]
               PROVE  hist'[d][day] = 0
    BY DEF SilentSince
  <2>1. CASE d = e
    <3>1. day > today /\ day # today /\ today >= lastUpdate[e]
      BY <1>1, <1>2, <2>1 DEF TrafficTypeOK, Day
    <3>2. hist'[e][day] = hist[e][day]
      BY <1>1, <3>1 DEF TrafficTypeOK
    <3>3. day > lastUpdate[e]
      BY <1>1, <1>2, <3>1 DEF TrafficTypeOK, Day
    <3> QED BY <1>1, <2>1, <3>2, <3>3 DEF SilentSince
  <2>2. CASE d # e
    BY <1>1, <2>2 DEF SilentSince, TrafficTypeOK
  <2> QED BY <2>1, <2>2
<1>5. CountsExact'
  <2> SUFFICES ASSUME change >= 0, known,
           NEW d \in Dir, NEW i \in Slot
               PROVE  counts'[d][i] = TrafficOn(hist', d, lastUpdate'[d] - i)
    BY DEF CountsExact, TrafficOn
  <2>1. CASE d # e
    BY <1>1, <2>1 DEF CountsExact, TrafficOn, TrafficTypeOK
  <2>2. CASE d = e /\ i = 0
    <3>1. Rotated(e, today)[0] = hist[e][today]
      <4>1. today <= today /\ today - 0 = today
        BY <1>2
      <4>2. Rotated(e, today)[0] = TrafficOn(hist, e, today - 0)
        BY <1>1, <1>2, <4>1, RotatedExact
      <4> QED BY <1>2, <4>1, <4>2 DEF TrafficOn
    <3>2. counts'[e][0] = Rotated(e, today)[0] + 1
      BY <1>1, <1>2 DEF TrafficTypeOK
    <3>3. TrafficOn(hist', e, today - 0) = hist[e][today] + 1
      BY <1>1, <1>2 DEF TrafficOn, TrafficTypeOK
    <3> QED BY <1>1, <2>2, <3>1, <3>2, <3>3 DEF TrafficTypeOK
  <2>3. CASE d = e /\ i # 0
    <3>1. Rotated(e, today)[i] = TrafficOn(hist, e, today - i)
      <4>1. today <= today
        BY <1>2
      <4> QED BY <1>1, <1>2, <4>1, RotatedExact
    <3>2. counts'[e][i] = Rotated(e, today)[i]
      BY <1>1, <1>2, <2>3 DEF TrafficTypeOK
    <3>3. today - i # today
      BY <1>2, <2>3 DEF Slot
    <3>4. TrafficOn(hist', e, today - i) = TrafficOn(hist, e, today - i)
      BY <1>1, <3>3 DEF TrafficOn, TrafficTypeOK
    <3> QED BY <1>1, <2>3, <3>1, <3>2, <3>4 DEF TrafficTypeOK
  <2> QED BY <2>1, <2>2, <2>3
<1>6. ReplyExact' /\ BarsAreDated'
  BY <1>1 DEF ReplyExact, BarsAreDated, Exact, TrafficOn
<1> QED BY <1>3, <1>4, <1>5, <1>6 DEF TrafficInv

\* Reading both counters.
LEMMA RotateAllInv ==
    ASSUME TrafficTypeOK, SilentSince, CountsExact, NEW asOf \in [Dir -> Day], RotateAll(asOf),
           UNCHANGED <<change, known, hist>>
    PROVE  /\ today' \in Day /\ counts' \in [Dir -> [Slot -> Nat]]
           /\ lastUpdate' \in [Dir -> Day] /\ \A d \in Dir : lastUpdate'[d] <= today'
           /\ SilentSince' /\ CountsExact'
           /\ change >= 0 /\ known => \A d \in Dir : Exact(counts', hist, d, asOf[d])
<1> USE DEF RotateAll
<1>1. today \in Day /\ today \in Nat /\ \A day \in Day : day \in Nat
  BY DaysAssumption DEF TrafficTypeOK, Day
<1>2. \A d \in Dir : asOf[d] \in Day /\ today <= asOf[d] /\ asOf[d] <= today'
  BY <1>1 DEF Dir
<1>3. counts' \in [Dir -> [Slot -> Nat]]
  BY <1>2, RotatedType
<1>4. lastUpdate' \in [Dir -> Day] /\ \A d \in Dir : lastUpdate'[d] <= today'
  BY <1>2
<1>5. SilentSince'
  <2> SUFFICES ASSUME NEW d \in Dir, NEW day \in Day, day > lastUpdate'[d]
               PROVE  hist[d][day] = 0
    BY DEF SilentSince
  <2>1. /\ day > asOf[d] /\ asOf[d] \in Nat /\ day \in Nat
        /\ lastUpdate[d] <= today /\ lastUpdate[d] \in Nat
    BY <1>1, <1>2 DEF TrafficTypeOK
  <2>2. day > lastUpdate[d]
    BY <1>1, <1>2, <2>1
  <2> QED BY <2>2 DEF SilentSince
<1>6. ASSUME change >= 0, known, NEW d \in Dir PROVE Exact(counts', hist, d, asOf[d])
  BY <1>2, <1>6, RotatedExact DEF Exact
<1>7. CountsExact'
  BY <1>6 DEF CountsExact, Exact, TrafficOn
<1> QED BY <1>2, <1>3, <1>4, <1>5, <1>6, <1>7 DEF Dir

LEMMA ReadTodayInv == TrafficInv /\ ReadToday => TrafficInv'
<1> SUFFICES ASSUME TrafficInv, ReadToday PROVE TrafficInv' OBVIOUS
<1> USE DEF ReadToday, clocks, browser
<1>1. /\ today' \in Day /\ counts' \in [Dir -> [Slot -> Nat]]
      /\ lastUpdate' \in [Dir -> Day] /\ \A d \in Dir : lastUpdate'[d] <= today'
      /\ SilentSince' /\ CountsExact'
  BY RotateAllInv DEF TrafficInv
<1>2. TrafficTypeOK'
  BY <1>1 DEF TrafficInv, TrafficTypeOK
<1>3. ReplyExact' /\ BarsAreDated'
  BY DEF TrafficInv, ReplyExact, BarsAreDated, Exact, TrafficOn
<1> QED BY <1>1, <1>2, <1>3 DEF TrafficInv

LEMMA DayPassesInv == TrafficInv /\ DayPasses => TrafficInv'
<1> SUFFICES ASSUME TrafficInv, DayPasses PROVE TrafficInv' OBVIOUS
<1> USE DEF DayPasses, clocks, browser
<1>1. TrafficTypeOK'
  BY DaysAssumption DEF TrafficInv, TrafficTypeOK, Day
<1>2. SilentSince' /\ CountsExact'
  BY DEF TrafficInv, SilentSince, CountsExact, TrafficOn
<1>3. ReplyExact' /\ BarsAreDated'
  BY DEF TrafficInv, ReplyExact, BarsAreDated, Exact, TrafficOn
<1> QED BY <1>1, <1>2, <1>3 DEF TrafficInv

LEMMA ForgetInv == TrafficInv /\ Forget => TrafficInv'
<1> SUFFICES ASSUME TrafficInv, Forget PROVE TrafficInv' OBVIOUS
<1> USE DEF Forget, clocks, browser
<1>1. TrafficTypeOK'
  BY DEF TrafficInv, TrafficTypeOK
<1>2. SilentSince' /\ CountsExact'
  BY DEF TrafficInv, SilentSince, CountsExact, TrafficOn
<1>3. ReplyExact' /\ BarsAreDated'
  BY DEF TrafficInv, ReplyExact, BarsAreDated, Exact, TrafficOn
<1> QED BY <1>1, <1>2, <1>3 DEF TrafficInv

LEMMA NewCountersInv == TrafficInv /\ NewCounters => TrafficInv'
<1> SUFFICES ASSUME TrafficInv, NewCounters PROVE TrafficInv' OBVIOUS
<1> USE DEF NewCounters, clocks, browser
<1>1. TrafficTypeOK'
  BY DaysAssumption DEF TrafficInv, TrafficTypeOK, Zeros, Silence, Day, Slot
<1>2. SilentSince' /\ CountsExact'
  BY DEF SilentSince, CountsExact, TrafficOn, Zeros, Silence
<1>3. ReplyExact' /\ BarsAreDated'
  BY DEF TrafficInv, ReplyExact, BarsAreDated, Exact, TrafficOn
<1> QED BY <1>1, <1>2, <1>3 DEF TrafficInv

LEMMA AnswerTrafficInv == TrafficInv /\ AnswerTraffic => TrafficInv'
<1> SUFFICES ASSUME TrafficInv, AnswerTraffic PROVE TrafficInv' OBVIOUS
<1> USE DEF AnswerTraffic, clocks
<1> PICK asOf \in [Dir -> Day] :
       RotateAll(asOf) /\ reply' = [asOf |-> asOf, counts |-> counts', truth |-> hist]
  OBVIOUS
<1>1. /\ today' \in Day /\ counts' \in [Dir -> [Slot -> Nat]]
      /\ lastUpdate' \in [Dir -> Day] /\ \A d \in Dir : lastUpdate'[d] <= today'
      /\ SilentSince' /\ CountsExact'
      /\ change >= 0 => \A d \in Dir : Exact(counts', hist, d, asOf[d])
  BY RotateAllInv DEF TrafficInv
<1>2. TrafficTypeOK'
  <2>1. trafficChart' = NoChart
    BY DEF TrafficInv, TrafficTypeOK
  <2> QED BY <1>1, <2>1 DEF TrafficInv, TrafficTypeOK
<1>3. ReplyExact'
  <2>1. reply' \in [asOf : [Dir -> Day], counts : [Dir -> [Slot -> Nat]], truth : [Dir -> [Day -> Nat]]]
    BY <1>1 DEF TrafficInv, TrafficTypeOK
  <2>2. reply'.counts = counts' /\ reply'.truth = hist /\ reply'.asOf = asOf
    OBVIOUS
  <2>3. change' >= 0 => \A d \in Dir : Exact(reply'.counts, reply'.truth, d, reply'.asOf[d])
    BY <1>1, <2>2
  <2> QED BY <2>1, <2>3 DEF ReplyExact, Exact, TrafficOn
<1>4. BarsAreDated'
  BY DEF TrafficInv, BarsAreDated, TrafficOn
<1> QED BY <1>1, <1>2, <1>3, <1>4 DEF TrafficInv

---------------------------------------------------------------------------
(* The browser *)

LEMMA DialogInv == TrafficInv /\ (OpenDialog \/ AskFails \/ CloseDialog) => TrafficInv'
<1> SUFFICES ASSUME TrafficInv, OpenDialog \/ AskFails \/ CloseDialog PROVE TrafficInv' OBVIOUS
<1> USE DEF OpenDialog, AskFails, CloseDialog, clocks
<1>1. TrafficTypeOK'
  BY DEF TrafficInv, TrafficTypeOK
<1>2. SilentSince' /\ CountsExact'
  BY DEF TrafficInv, SilentSince, CountsExact, TrafficOn
<1>3. ReplyExact' /\ BarsAreDated'
  BY DEF TrafficInv, ReplyExact, BarsAreDated, Exact, TrafficOn
<1> QED BY <1>1, <1>2, <1>3 DEF TrafficInv

\* The reversed values stand above the dates, which run up to the present one.
LEMMA DrawInv == TrafficInv /\ DrawProxyTrafficChart => TrafficInv'
<1> SUFFICES ASSUME TrafficInv, DrawProxyTrafficChart PROVE TrafficInv' OBVIOUS
<1> USE DEF DrawProxyTrafficChart, clocks
<1>1. TrafficTypeOK'
  BY DEF TrafficInv, TrafficTypeOK
<1>2. SilentSince' /\ CountsExact'
  BY DEF TrafficInv, SilentSince, CountsExact, TrafficOn
<1>3. ReplyExact'
  BY DEF TrafficInv, ReplyExact, Exact, TrafficOn
<1>4. BarsAreDated'
  <2> SUFFICES ASSUME change >= 0, NEW d \in Dir, trafficChart'.now = trafficChart'.asOf[d],
                      NEW i \in 0 .. (ChartDays - 1)
               PROVE  trafficChart'.bars[d][i]
                      = TrafficOn(trafficChart'.truth, d, trafficChart'.dates[i])
    BY DEF BarsAreDated, TrafficOn
  <2>1. /\ trafficChart'.bars[d] = Series(d) /\ trafficChart'.truth = reply.truth
        /\ trafficChart'.dates = Dates(today + skew) /\ today + skew = reply.asOf[d]
    OBVIOUS
  <2>2. i \in Slot /\ ReserveDays - 1 - i \in Slot /\ i \in Int /\ ReserveDays \in Int
    BY DaysAssumption DEF Slot
  <2>3. Series(d)[i] = reply.counts[d][ReserveDays - 1 - i]
    BY <2>2 DEF Series
  <2>4. reply.counts[d][ReserveDays - 1 - i]
        = TrafficOn(reply.truth, d, reply.asOf[d] - (ReserveDays - 1 - i))
    BY <2>2 DEF TrafficInv, ReplyExact, Exact
  <2>5. Dates(today + skew)[i] = reply.asOf[d] - (ReserveDays - 1 - i)
    <3>1. reply.asOf[d] \in Int
      BY DaysAssumption DEF TrafficInv, ReplyExact, Day
    <3>2. Dates(today + skew)[i] = reply.asOf[d] - (ChartDays - 1) + i
      BY <2>1 DEF Dates
    <3> QED BY <2>2, <3>1, <3>2, DaysAssumption
  <2> QED BY <2>1, <2>3, <2>4, <2>5
<1> QED BY <1>1, <1>2, <1>3, <1>4 DEF TrafficInv

---------------------------------------------------------------------------
LEMMA TrafficStepInv == TrafficInv /\ [TrafficNext]_trafficVars => TrafficInv'
<1> SUFFICES ASSUME TrafficInv, [TrafficNext]_trafficVars PROVE TrafficInv' OBVIOUS
<1>1. CASE UNCHANGED trafficVars
  <2> USE <1>1 DEF trafficVars, clocks, browser
  <2>1. TrafficTypeOK' BY DEF TrafficInv, TrafficTypeOK
  <2>2. SilentSince' /\ CountsExact' BY DEF TrafficInv, SilentSince, CountsExact, TrafficOn
  <2>3. ReplyExact' /\ BarsAreDated' BY DEF TrafficInv, ReplyExact, BarsAreDated, Exact, TrafficOn
  <2> QED BY <2>1, <2>2, <2>3 DEF TrafficInv
<1>2. CASE TrafficNext
  BY <1>2, AddTrafficInv, ReadTodayInv, DayPassesInv, ForgetInv, NewCountersInv, AnswerTrafficInv,
     DialogInv, DrawInv DEF TrafficNext
<1> QED BY <1>1, <1>2

LEMMA TrafficInvAlways == TrafficSpec => []TrafficInv
BY TrafficInitInv, TrafficStepInv, PTL DEF TrafficSpec

\* rotate of StandardDateCounter keeps the traffic of each day in the slot of that day,
\* for every ReserveDays and however long a counter was left alone, as long as no day is
\* shorter than 24 hours.
THEOREM CountersCorrect == TrafficSpec => []CountersSound
<1>1. TrafficInv => CountersSound BY DEF TrafficInv, CountersSound
<1> QED BY <1>1, TrafficInvAlways, PTL

\* DrawProxyTrafficChart, which reverses the values of the answer and counts the dates up
\* to the present one, puts every value above its date.
THEOREM BarsCorrect == TrafficSpec => []BarsAreDated
<1>1. TrafficInv => BarsAreDated BY DEF TrafficInv
<1> QED BY <1>1, TrafficInvAlways, PTL
=============================================================================
