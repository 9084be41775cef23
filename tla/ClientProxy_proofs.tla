------------------------- MODULE ClientProxy_proofs -------------------------
(***************************************************************************)
(* Proofs about ClientProxy, with and without a health check, for every       *)
(* maxFailed and for any number of messages under way and of reloads.         *)
(*                                                                          *)
(* ClosedInv holds however late messages are: what a stopped wrapper sent     *)
(* last is CloseProxy.  PromptInv says for each phase what can be under way   *)
(* while messages are prompt.                                                *)
(***************************************************************************)
EXTENDS ClientProxy, SequenceTheorems, TLAPS

\* frps does not have the proxy, or the last message to it takes it away.
Leaving ==
    IF toServer = <<>> THEN ~registered ELSE toServer[Len(toServer)] = "close"

ClosedInv == phase = "closed" => Leaving

\* One message is under way in a direction.
OnlyIs(q, m) == Len(q) = 1 /\ q[1] = m

\* Nothing is under way but, perhaps, the CloseProxy that ends the registration.
Gone ==
    /\ toClient = <<>>
    /\ (toServer = <<>> /\ ~registered) \/ OnlyIs(toServer, "close")

\* NewProxy is on its way to a control that does not have the proxy, or the answer is on its
\* way back.
Asked ==
    \/ toClient = <<>> /\ OnlyIs(toServer, "new") /\ ~registered
    \/ toServer = <<>> /\ OnlyIs(toClient, "ok") /\ registered
    \/ toServer = <<>> /\ OnlyIs(toClient, "error") /\ ~registered

PromptInv ==
    ~delayed =>
        /\ phase \in {"new", "check failed", "start error"} => Gone
        /\ phase = "wait start" => Asked
        /\ phase = "running" => Quiet /\ registered

Inv == TypeOK /\ ClosedInv /\ PromptInv

---------------------------------------------------------------------------
LEMMA InitInv == Init => Inv
<1> SUFFICES ASSUME Init PROVE Inv OBVIOUS
<1> USE ClientAssumption
<1>1. TypeOK
  <2>1. failedTimes \in 0 .. MaxFailed /\ streak \in 0 .. MaxFailed /\ reloads \in 0 .. MaxReloads
    BY DEF Init
  <2>2. toServer \in Seq({"new", "close"}) /\ toClient \in Seq({"ok", "error"})
    BY DEF Init
  <2> QED BY <2>1, <2>2 DEF Init, TypeOK, Phases, Unseen
<1>2. ClosedInv /\ PromptInv
  BY DEF Init, ClosedInv, PromptInv, Gone
<1> QED BY <1>1, <1>2 DEF Inv

\* What a queue is like after a message was added or taken.
LEMMA Appended ==
    ASSUME NEW S, NEW q \in Seq(S), NEW m \in S
    PROVE  /\ Append(q, m) \in Seq(S) /\ Append(q, m) # <<>>
           /\ Append(q, m)[Len(Append(q, m))] = m
           /\ q = <<>> => OnlyIs(Append(q, m), m)
BY DEF OnlyIs

LEMMA Taken ==
    ASSUME NEW S, NEW q \in Seq(S), q # <<>>
    PROVE  /\ Tail(q) \in Seq(S) /\ Head(q) = q[1] /\ Head(q) \in S
           /\ Tail(q) # <<>> => Tail(q)[Len(Tail(q))] = q[Len(q)]
           /\ Tail(q) = <<>> => q[Len(q)] = Head(q)
           /\ \A m : OnlyIs(q, m) => Tail(q) = <<>> /\ Head(q) = m
<1>1. Tail(q) \in Seq(S) /\ Head(q) = q[1] /\ Head(q) \in S /\ Len(q) \in Nat /\ Len(q) >= 1
  OBVIOUS
<1>2. Len(Tail(q)) = Len(q) - 1 /\ \A i \in 1 .. Len(q) - 1 : Tail(q)[i] = q[i + 1]
  OBVIOUS
<1>3. Tail(q) # <<>> => Tail(q)[Len(Tail(q))] = q[Len(q)]
  <2> SUFFICES ASSUME Tail(q) # <<>> PROVE Tail(q)[Len(Tail(q))] = q[Len(q)]
    OBVIOUS
  <2>1. Len(q) - 1 >= 1
    BY <1>1, <1>2
  <2> QED BY <1>1, <1>2, <2>1
<1>4. Tail(q) = <<>> => q[Len(q)] = Head(q)
  BY <1>1, <1>2
<1>5. \A m : OnlyIs(q, m) => Tail(q) = <<>> /\ Head(q) = m
  <2> SUFFICES ASSUME NEW m, OnlyIs(q, m) PROVE Tail(q) = <<>> /\ Head(q) = m
    OBVIOUS
  <2>1. Len(q) = 1 /\ q[1] = m
    BY DEF OnlyIs
  <2>2. Len(Tail(q)) = 0
    BY <1>2, <2>1
  <2>3. Tail(q) = <<>>
    BY <1>1, <2>2, EmptySeq
  <2> QED BY <1>1, <2>1, <2>3
<1> QED BY <1>1, <1>3, <1>4, <1>5

LEMMA NoneUnderWay == \A m : ~OnlyIs(<<>>, m)
BY DEF OnlyIs

---------------------------------------------------------------------------
\* The monitor touches neither the phase nor what is under way.
LEMMA MonitorInv == Inv /\ Monitor => Inv'
<1> SUFFICES ASSUME Inv, Monitor PROVE Inv' OBVIOUS
<1> USE ClientAssumption
<1>1. UNCHANGED <<delayed, refusing, phase, seen, reloads, toServer, toClient, registered>>
  BY DEF Monitor, CheckSucceeds, CheckFails, setting, wrapperVars, wireVars
<1>2. failedTimes' \in 0 .. MaxFailed /\ streak' \in 0 .. MaxFailed
  BY DEF Inv, TypeOK, Monitor, CheckSucceeds, CheckFails, Least
<1>3. health' \in {0, 1} /\ statusOK' \in BOOLEAN
  BY DEF Inv, TypeOK, Monitor, CheckSucceeds, CheckFails
<1>4. TypeOK'
  BY <1>1, <1>2, <1>3 DEF Inv, TypeOK
<1> QED BY <1>1, <1>4 DEF Inv, ClosedInv, Leaving, PromptInv, Gone, Asked, Quiet

\* The type of a step that leaves the monitor alone.
LEMMA StepType ==
    ASSUME TypeOK, UNCHANGED <<setting, reloads, monitorVars>>, phase' \in Phases,
           seen' \in {0, 1, Unseen},
           toServer' \in Seq({"new", "close"}), toClient' \in Seq({"ok", "error"}),
           registered' \in BOOLEAN
    PROVE  TypeOK'
BY DEF TypeOK, setting, monitorVars

LEMMA CheckWorkerInv == Inv /\ CheckWorker => Inv'
<1> SUFFICES ASSUME Inv, CheckWorker PROVE Inv' OBVIOUS
<1> USE ClientAssumption
<1>1. TypeOK /\ toServer \in Seq({"new", "close"})
  BY DEF Inv, TypeOK
<1>2. CASE LoadHealth \/ NothingToDo
  <2>1. /\ UNCHANGED <<phase, reloads, monitorVars, toServer, toClient, registered, setting>>
        /\ seen' \in {0, 1, Unseen}
    BY <1>1, <1>2 DEF CheckWorker, LoadHealth, NothingToDo, wireVars, TypeOK
  <2>2. TypeOK'
    BY <1>1, <2>1, StepType DEF TypeOK
  <2> QED BY <2>1, <2>2 DEF Inv, setting, ClosedInv, Leaving, PromptInv, Gone, Asked, Quiet
<1>3. CASE StartIfHealthy
  <2>1. /\ phase' = "wait start" /\ toServer' = Append(toServer, "new") /\ seen' = Unseen
        /\ (Quiet \/ delayed) /\ MustStart
        /\ UNCHANGED <<reloads, monitorVars, toClient, registered, setting>>
    BY <1>3 DEF CheckWorker, StartIfHealthy, SendToServer
  <2>2. toServer' \in Seq({"new", "close"}) /\ (toServer = <<>> => OnlyIs(toServer', "new"))
    BY <1>1, <2>1, Appended
  <2>3. TypeOK'
    BY <1>1, <2>1, <2>2, StepType DEF TypeOK, Phases
  <2>4. PromptInv'
    <3> SUFFICES ASSUME ~delayed' PROVE Asked'
      BY <2>1 DEF PromptInv
    <3>1. ~delayed /\ Quiet /\ phase \in {"new", "check failed", "start error"}
      BY <2>1 DEF setting, MustStart
    <3>2. ~registered /\ toClient = <<>>
      BY <3>1, NoneUnderWay DEF Inv, PromptInv, Gone, Quiet
    <3> QED BY <2>1, <2>2, <3>1, <3>2 DEF Asked, Quiet
  <2> QED BY <2>1, <2>3, <2>4 DEF Inv, ClosedInv
<1>4. CASE CloseIfFailed
  <2>1. /\ phase' = "check failed" /\ toServer' = Append(toServer, "close") /\ seen' = Unseen
        /\ (Quiet \/ delayed) /\ phase \in {"running", "wait start"}
        /\ UNCHANGED <<reloads, monitorVars, toClient, registered, setting>>
    BY <1>4 DEF CheckWorker, CloseIfFailed, SendToServer
  <2>2. toServer' \in Seq({"new", "close"}) /\ (toServer = <<>> => OnlyIs(toServer', "close"))
    BY <1>1, <2>1, Appended
  <2>3. TypeOK'
    BY <1>1, <2>1, <2>2, StepType DEF TypeOK, Phases
  <2>4. PromptInv'
    <3> SUFFICES ASSUME ~delayed' PROVE Gone'
      BY <2>1 DEF PromptInv
    <3> QED BY <2>1, <2>2 DEF setting, Quiet, Gone
  <2> QED BY <2>1, <2>3, <2>4 DEF Inv, ClosedInv
<1> QED BY <1>2, <1>3, <1>4 DEF CheckWorker

LEMMA ResponsesInv == Inv /\ Responses => Inv'
<1> SUFFICES ASSUME Inv, Responses PROVE Inv' OBVIOUS
<1> USE ClientAssumption
<1>1. TypeOK /\ toServer \in Seq({"new", "close"}) /\ toClient \in Seq({"ok", "error"})
  BY DEF Inv, TypeOK
<1>2. toClient # <<>> /\ toClient' = Tail(toClient) /\ UNCHANGED <<registered, seen, reloads, monitorVars, setting>>
  BY DEF Responses, HandleResp, HandleRespRunFails
<1>3. /\ toClient' \in Seq({"ok", "error"}) /\ Head(toClient) \in {"ok", "error"}
      /\ \A m : OnlyIs(toClient, m) => toClient' = <<>> /\ Head(toClient) = m
  BY <1>1, <1>2, Taken
<1>4. CASE HandleResp
  <2>1. /\ UNCHANGED toServer
        /\ phase' = IF phase # "wait start" THEN phase
                    ELSE IF Head(toClient) = "ok" THEN "running" ELSE "start error"
    BY <1>4 DEF HandleResp
  <2>2. TypeOK'
    BY <1>1, <1>2, <1>3, <2>1, StepType DEF TypeOK, Phases
  <2>3. ClosedInv'
    BY <1>2, <2>1 DEF Inv, ClosedInv, Leaving
  <2>4. PromptInv'
    <3> SUFFICES ASSUME ~delayed' PROVE PromptInv'
      BY DEF PromptInv
    <3>1. ~delayed
      BY <1>2 DEF setting
    <3>2. CASE phase = "wait start"
      <4>1. \/ toServer = <<>> /\ OnlyIs(toClient, "ok") /\ registered
            \/ toServer = <<>> /\ OnlyIs(toClient, "error") /\ ~registered
        BY <1>2, <3>1, <3>2 DEF Inv, PromptInv, Asked
      <4>2. toServer' = <<>> /\ toClient' = <<>>
        BY <1>3, <2>1, <4>1
      <4>3. CASE OnlyIs(toClient, "ok") /\ registered
        <5>1. Head(toClient) = "ok"
          BY <1>3, <4>3
        <5>2. phase' = "running"
          BY <2>1, <3>2, <5>1
        <5>3. registered'
          BY <1>2, <4>3
        <5> QED BY <4>2, <5>2, <5>3 DEF PromptInv, Quiet
      <4>4. CASE OnlyIs(toClient, "error") /\ ~registered
        <5>1. Head(toClient) = "error"
          BY <1>3, <4>4
        <5>2. phase' = "start error"
          BY <2>1, <3>2, <5>1
        <5>3. ~registered'
          BY <1>2, <4>4
        <5> QED BY <4>2, <5>2, <5>3 DEF PromptInv, Gone
      <4> QED BY <4>1, <4>3, <4>4
    <3>3. CASE phase # "wait start"
      <4>1. phase = "closed"
        BY <1>1, <1>2, <3>1, <3>3 DEF Inv, PromptInv, Gone, Quiet, TypeOK, Phases
      <4> QED BY <2>1, <4>1 DEF PromptInv
    <3> QED BY <3>2, <3>3
  <2> QED BY <2>2, <2>3, <2>4 DEF Inv
<1>5. CASE HandleRespRunFails
  <2>1. phase = "wait start" /\ phase' = "start error" /\ toServer' = Append(toServer, "close")
    BY <1>5 DEF HandleRespRunFails
  <2>2. toServer' \in Seq({"new", "close"}) /\ (toServer = <<>> => OnlyIs(toServer', "close"))
    BY <1>1, <2>1, Appended
  <2>3. TypeOK'
    BY <1>1, <1>2, <1>3, <2>1, <2>2, StepType DEF TypeOK, Phases
  <2>4. PromptInv'
    <3> SUFFICES ASSUME ~delayed' PROVE Gone'
      BY <2>1 DEF PromptInv
    <3>1. \/ toServer = <<>> /\ OnlyIs(toClient, "ok")
          \/ toServer = <<>> /\ OnlyIs(toClient, "error")
      BY <1>2, <2>1 DEF Inv, PromptInv, Asked, setting
    <3> QED BY <1>3, <2>2, <3>1 DEF Gone
  <2> QED BY <2>1, <2>3, <2>4 DEF Inv, ClosedInv
<1> QED BY <1>4, <1>5 DEF Responses

LEMMA ManagerInv == Inv /\ Manager => Inv'
<1> SUFFICES ASSUME Inv, Manager PROVE Inv' OBVIOUS
<1> USE ClientAssumption
<1>1. TypeOK /\ toServer \in Seq({"new", "close"})
  BY DEF Inv, TypeOK
<1>2. CASE Stop
  <2>1. /\ phase' = "closed" /\ toServer' = Append(toServer, "close") /\ seen' = Unseen
        /\ UNCHANGED <<reloads, monitorVars, toClient, registered, setting>>
    BY <1>2 DEF Manager, Stop, SendToServer
  <2>2. toServer' \in Seq({"new", "close"}) /\ toServer' # <<>> /\ toServer'[Len(toServer')] = "close"
    BY <1>1, <2>1, Appended
  <2>3. TypeOK'
    BY <1>1, <2>1, <2>2, StepType DEF TypeOK, Phases
  <2>4. ClosedInv'
    BY <2>2 DEF ClosedInv, Leaving
  <2> QED BY <2>1, <2>3, <2>4 DEF Inv, PromptInv
<1>3. CASE Reload
  <2>1. /\ phase' = "new" /\ seen' = Unseen /\ (Quiet \/ delayed)
        /\ UNCHANGED <<toClient, registered, delayed, refusing>>
        /\ reloads' \in 0 .. MaxReloads
        /\ failedTimes' = 0 /\ streak' = 0 /\ statusOK' = FALSE /\ health' \in {0, 1}
    BY <1>1, <1>3 DEF Manager, Reload, setting, TypeOK
  <2>2. IF phase = "closed" THEN UNCHANGED toServer ELSE toServer' = Append(toServer, "close")
    BY <1>3 DEF Reload, SendToServer
  <2>3. /\ toServer' \in Seq({"new", "close"})
        /\ toServer = <<>> /\ phase # "closed" => OnlyIs(toServer', "close")
    <3>1. CASE phase = "closed"
      BY <1>1, <2>2, <3>1
    <3>2. CASE phase # "closed"
      <4>1. toServer' = Append(toServer, "close")
        BY <2>2, <3>2
      <4> QED BY <1>1, <4>1, Appended
    <3> QED BY <3>1, <3>2
  <2>4. failedTimes' \in 0 .. MaxFailed /\ streak' \in 0 .. MaxFailed
    BY <2>1
  <2>5. TypeOK'
    BY <1>1, <2>1, <2>3, <2>4 DEF TypeOK, Phases
  <2>6. PromptInv'
    <3> SUFFICES ASSUME ~delayed' PROVE Gone'
      BY <2>1 DEF PromptInv
    <3>1. toServer = <<>> /\ toClient' = <<>>
      BY <2>1 DEF Quiet
    <3>2. CASE phase = "closed"
      BY <2>1, <2>2, <3>1, <3>2 DEF Gone, Inv, ClosedInv, Leaving
    <3>3. CASE phase # "closed"
      BY <2>3, <3>1, <3>3 DEF Gone
    <3> QED BY <3>2, <3>3
  <2> QED BY <2>1, <2>5, <2>6 DEF Inv, ClosedInv
<1> QED BY <1>2, <1>3 DEF Manager

LEMMA ServerInv == Inv /\ Server => Inv'
<1> SUFFICES ASSUME Inv, Server PROVE Inv' OBVIOUS
<1> USE ClientAssumption
<1>1. /\ TypeOK /\ toServer \in Seq({"new", "close"}) /\ toClient \in Seq({"ok", "error"})
      /\ seen \in {0, 1, Unseen} /\ phase \in Phases
  BY DEF Inv, TypeOK
<1>2. /\ toServer # <<>> /\ toServer' = Tail(toServer)
      /\ UNCHANGED <<phase, seen, reloads, monitorVars, setting>>
  BY DEF Server, ServerNewProxy, ServerCloseProxy, wrapperVars
<1>3. /\ toServer' \in Seq({"new", "close"})
      /\ toServer' # <<>> => toServer'[Len(toServer')] = toServer[Len(toServer)]
      /\ toServer' = <<>> => toServer[Len(toServer)] = Head(toServer)
      /\ \A m : OnlyIs(toServer, m) => toServer' = <<>> /\ Head(toServer) = m
  BY <1>1, <1>2, Taken
<1>4. CASE ServerNewProxy
  <2>1. /\ Head(toServer) = "new"
        /\ \/ ~registered /\ registered' = TRUE /\ toClient' = Append(toClient, "ok")
           \/ registered' = registered /\ toClient' = Append(toClient, "error")
    BY <1>4 DEF ServerNewProxy
  <2>2. /\ toClient' \in Seq({"ok", "error"})
        /\ toClient = <<>> /\ ~registered =>
              \/ OnlyIs(toClient', "ok") /\ registered'
              \/ OnlyIs(toClient', "error") /\ ~registered'
    <3>1. CASE ~registered /\ registered' = TRUE /\ toClient' = Append(toClient, "ok")
      BY <1>1, <3>1, Appended
    <3>2. CASE registered' = registered /\ toClient' = Append(toClient, "error")
      BY <1>1, <3>2, Appended
    <3> QED BY <2>1, <3>1, <3>2
  <2>3. registered' \in BOOLEAN
    BY <2>1 DEF Inv, TypeOK
  <2>4. TypeOK'
    BY <1>1, <1>2, <1>3, <2>2, <2>3, StepType
  <2>5. ClosedInv'
    BY <1>2, <1>3, <2>1 DEF Inv, ClosedInv, Leaving
  <2>6. PromptInv'
    <3> SUFFICES ASSUME ~delayed' PROVE PromptInv'
      BY DEF PromptInv
    <3>1. ~delayed
      BY <1>2 DEF setting
    <3>2. ~(phase \in {"new", "check failed", "start error"}) /\ phase # "running"
      <4>1. ~OnlyIs(toServer, "close")
        BY <1>3, <2>1
      <4> QED BY <1>2, <3>1, <4>1 DEF Inv, PromptInv, Gone, Quiet
    <3>3. CASE phase = "wait start"
      <4>1. toClient = <<>> /\ OnlyIs(toServer, "new") /\ ~registered
        BY <1>2, <3>1, <3>3 DEF Inv, PromptInv, Asked
      <4>2. Asked'
        BY <1>3, <2>2, <4>1 DEF Asked
      <4> QED BY <1>2, <3>2, <3>3, <4>2 DEF PromptInv
    <3> QED BY <1>2, <3>2, <3>3 DEF PromptInv
  <2> QED BY <2>4, <2>5, <2>6 DEF Inv
<1>5. CASE ServerCloseProxy
  <2>1. Head(toServer) = "close" /\ registered' = FALSE /\ UNCHANGED toClient
    BY <1>5 DEF ServerCloseProxy
  <2>2. TypeOK'
    BY <1>1, <1>2, <1>3, <2>1, StepType
  <2>3. ClosedInv'
    BY <1>2, <1>3, <2>1 DEF Inv, ClosedInv, Leaving
  <2>4. PromptInv'
    <3> SUFFICES ASSUME ~delayed' PROVE PromptInv'
      BY DEF PromptInv
    <3>1. ~delayed
      BY <1>2 DEF setting
    <3>2. phase # "wait start" /\ phase # "running"
      <4>1. ~OnlyIs(toServer, "new")
        BY <1>3, <2>1
      <4> QED BY <1>2, <3>1, <4>1 DEF Inv, PromptInv, Asked, Quiet
    <3>3. CASE phase \in {"new", "check failed", "start error"}
      <4>1. toClient = <<>> /\ OnlyIs(toServer, "close")
        BY <1>2, <3>1, <3>3 DEF Inv, PromptInv, Gone
      <4> QED BY <1>2, <1>3, <2>1, <3>2, <4>1 DEF PromptInv, Gone
    <3> QED BY <1>2, <3>2, <3>3 DEF PromptInv
  <2> QED BY <2>2, <2>3, <2>4 DEF Inv
<1> QED BY <1>4, <1>5 DEF Server

LEMMA StepInv == Inv /\ [Next]_vars => Inv'
<1> SUFFICES ASSUME Inv, [Next]_vars PROVE Inv' OBVIOUS
<1>1. CASE UNCHANGED vars
  <2>1. UNCHANGED <<delayed, refusing, phase, seen, reloads, health, statusOK, failedTimes, streak,
                    toServer, toClient, registered>>
    BY <1>1 DEF vars, setting, wrapperVars, monitorVars, wireVars
  <2> QED BY <2>1 DEF Inv, TypeOK, ClosedInv, Leaving, PromptInv, Gone, Asked, Quiet
<1> QED BY <1>1, MonitorInv, CheckWorkerInv, ResponsesInv, ManagerInv, ServerInv DEF Next

LEMMA InvHolds == Spec => []Inv
BY InitInv, StepInv, PTL DEF Spec

---------------------------------------------------------------------------
\* A proxy that the manager stopped is gone from frps once nothing is under way, although
\* NewProxy, CloseProxy and their answers may still be on their way when it is stopped.
THEOREM StoppedCorrect == Spec => []ProxySound
<1>1. Inv => ProxySound
  BY DEF Inv, ClosedInv, Leaving, ProxySound, StoppedIsRemoved, Quiet
<1> QED BY <1>1, InvHolds, PTL

\* With prompt messages, wrapper and frps agree whenever nothing is under way: a running proxy is
\* registered and a failed one is not, after any checks, refusals, stops and reloads.
THEOREM AgreementCorrect == Spec => []PromptAgreement
<1>1. Inv => PromptAgreement
  <2> SUFFICES ASSUME Inv, ~delayed, Quiet
               PROVE  /\ phase = "running" => registered
                      /\ phase \notin {"running", "wait start"} => ~registered
    BY DEF PromptAgreement, RunningIsRegistered, FailedIsRemoved
  <2>1. phase = "closed" => ~registered
    BY DEF Inv, ClosedInv, Leaving, Quiet
  <2>2. phase \in {"new", "check failed", "start error"} => ~registered
    BY NoneUnderWay DEF Inv, PromptInv, Gone, Quiet
  <2>3. phase = "running" => registered
    BY DEF Inv, PromptInv
  <2> QED BY <2>1, <2>2, <2>3 DEF Inv, TypeOK, Phases
<1> QED BY <1>1, InvHolds, PTL
=============================================================================
