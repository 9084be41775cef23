---------------------------- MODULE ClientProxy ----------------------------
(***************************************************************************)
(* A proxy of frpc and its counterpart in frps: the Wrapper that keeps the   *)
(* proxy registered (client/proxy/proxy_wrapper.go), the health monitor that *)
(* takes it down and up again (client/health/health.go), the manager that    *)
(* replaces or stops it (client/proxy/proxy_manager.go), and the two         *)
(* directions of the control connection, which deliver in order.             *)
(*                                                                          *)
(* NewProxyResp carries a proxy name and nothing else that tells which       *)
(* NewProxy it answers.  The server answers in its own time, while the       *)
(* wrapper may have closed and reopened the proxy in between.                *)
(***************************************************************************)
EXTENDS Integers, Sequences

CONSTANTS
    MaxFailed,   \* healthCheck.maxFailed
    HasMonitor,  \* whether the proxy has a health check
    Delays,      \* whether messages may take longer than the wrapper's timeouts
    Refusals,    \* whether frps may refuse the proxy, and the proxy fail to run
    MaxInFlight, \* bound: messages under way in both directions
    MaxReloads   \* bound: how many times the configuration changes

ASSUME ClientAssumption ==
    /\ MaxFailed \in Nat \ {0}
    /\ HasMonitor \in BOOLEAN
    /\ Delays \subseteq BOOLEAN /\ Refusals \subseteq BOOLEAN
    /\ MaxInFlight \in Nat \ {0}
    /\ MaxReloads \in Nat

VARIABLES
    delayed,     \* messages may take long in this behaviour
    refusing,    \* frps may refuse the proxy in this behaviour
    phase,       \* WorkingStatus.Phase of the wrapper under the proxy's name
    health,      \* Wrapper.health: 0 is healthy, 1 is failed
    seen,        \* the health checkWorker has loaded, or Unseen between rounds
    statusOK,    \* Monitor.statusOK
    failedTimes, \* Monitor.failedTimes, counted up to maxFailedTimes
    streak,      \* checks that failed in a row, counted up to maxFailedTimes
    toServer,    \* NewProxy and CloseProxy messages under way
    toClient,    \* NewProxyResp messages under way: accepted or refused
    registered,  \* the control of frps has the proxy
    reloads      \* configuration changes so far

wrapperVars == <<phase, seen, reloads>>
monitorVars == <<health, statusOK, failedTimes, streak>>
wireVars    == <<toServer, toClient, registered>>
setting     == <<delayed, refusing>>
vars == <<setting, wrapperVars, monitorVars, wireVars>>

Unseen == 2
Phases == {"new", "wait start", "start error", "running", "check failed", "closed"}
Least(a, b) == IF a < b THEN a ELSE b

TypeOK ==
    /\ delayed \in Delays /\ refusing \in Refusals
    /\ phase \in Phases
    /\ health \in {0, 1}
    /\ seen \in {0, 1, Unseen}
    /\ statusOK \in BOOLEAN
    /\ failedTimes \in 0 .. MaxFailed
    /\ streak \in 0 .. MaxFailed
    /\ toServer \in Seq({"new", "close"})
    /\ toClient \in Seq({"ok", "error"})
    /\ registered \in BOOLEAN
    /\ reloads \in 0 .. MaxReloads

\* NewWrapper: a proxy with a health check starts as failed.
Init ==
    /\ delayed \in Delays /\ refusing \in Refusals
    /\ phase = "new"
    /\ health = IF HasMonitor THEN 1 ELSE 0
    /\ seen = Unseen
    /\ statusOK = FALSE /\ failedTimes = 0 /\ streak = 0
    /\ toServer = <<>> /\ toClient = <<>>
    /\ registered = FALSE
    /\ reloads = 0

Quiet   == toServer = <<>> /\ toClient = <<>>
HasRoom == Len(toServer) + Len(toClient) < MaxInFlight

\* HandleEvent: the message goes to the dispatcher's sendCh.
SendToServer(m) == HasRoom /\ toServer' = Append(toServer, m)

-----------------------------------------------------------------------------
(* health.Monitor *)

\* checkWorker: a check that succeeds; statusNormalCallback on a change.
CheckSucceeds ==
    /\ HasMonitor /\ phase # "closed"
    /\ streak' = 0
    /\ statusOK' = TRUE
    /\ health' = IF statusOK THEN health ELSE 0
    /\ UNCHANGED <<failedTimes, wrapperVars, wireVars>>

\* checkWorker: a check that fails.  failedTimes is never set back.
CheckFails ==
    LET failed == Least(failedTimes + 1, MaxFailed)
    IN  /\ HasMonitor /\ phase # "closed"
        /\ failedTimes' = failed
        /\ streak' = Least(streak + 1, MaxFailed)
        /\ IF statusOK /\ failed >= MaxFailed
           THEN statusOK' = FALSE /\ health' = 1   \* statusFailedCallback
           ELSE UNCHANGED <<statusOK, health>>
        /\ UNCHANGED <<wrapperVars, wireVars>>

-----------------------------------------------------------------------------
(* Wrapper *)

\* checkWorker: the health is loaded before the lock is taken.
LoadHealth ==
    /\ phase # "closed"
    /\ seen = Unseen
    /\ seen' = health
    /\ UNCHANGED <<phase, reloads, monitorVars, wireVars>>

\* Mutant: a proxy whose check failed before is not started again.
MustStartNotFailed ==
    \/ phase \in {"new", "start error"}
    \/ phase = "wait start" /\ delayed

\* checkWorker: when a proxy found healthy is to be (re)started.  The timeouts
\* may be over whenever the server takes long to answer.
MustStart ==
    \/ phase \in {"new", "check failed", "start error"}
    \/ phase = "wait start" /\ delayed

\* checkWorker, under the lock: NewProxy.
StartIfHealthy ==
    /\ seen = 0
    /\ MustStart
    /\ Quiet \/ delayed
    /\ phase' = "wait start"
    /\ SendToServer("new")
    /\ seen' = Unseen
    /\ UNCHANGED <<reloads, monitorVars, toClient, registered>>

\* Mutant: the proxy is marked but the server is not told.
CloseIfFailedSilent ==
    /\ seen = 1
    /\ phase \in {"running", "wait start"}
    /\ Quiet \/ delayed
    /\ phase' = "check failed"
    /\ seen' = Unseen
    /\ UNCHANGED <<reloads, monitorVars, wireVars>>

\* checkWorker, under the lock: CloseProxy.
CloseIfFailed ==
    /\ seen = 1
    /\ phase \in {"running", "wait start"}
    /\ Quiet \/ delayed
    /\ phase' = "check failed"
    /\ SendToServer("close")
    /\ seen' = Unseen
    /\ UNCHANGED <<reloads, monitorVars, toClient, registered>>

\* checkWorker: nothing to do in this round.
NothingToDo ==
    /\ \/ seen = 0 /\ phase = "running"
       \/ seen = 0 /\ phase = "wait start"
       \/ seen = 1 /\ phase \notin {"running", "wait start"}
    /\ seen' = Unseen
    /\ UNCHANGED <<phase, reloads, monitorVars, wireVars>>

\* handleNewProxyResp, StartProxy, SetRunningStatus: the response counts in
\* phase "wait start" only; an accepted proxy is run.
HandleResp ==
    /\ toClient # <<>>
    /\ toClient' = Tail(toClient)
    /\ phase' = IF phase # "wait start" THEN phase
                ELSE IF Head(toClient) = "ok" THEN "running" ELSE "start error"
    /\ UNCHANGED <<seen, reloads, monitorVars, toServer, registered>>

\* SetRunningStatus: pxy.Run fails, the server is told to close the proxy.
HandleRespRunFails ==
    /\ refusing
    /\ toClient # <<>>
    /\ phase = "wait start"
    /\ Head(toClient) = "ok"
    /\ toClient' = Tail(toClient)
    /\ toServer' = Append(toServer, "close")
    /\ phase' = "start error"
    /\ UNCHANGED <<seen, reloads, monitorVars, registered>>

\* Mutant: Stop forgets the server.
StopSilent ==
    /\ phase # "closed"
    /\ phase' = "closed"
    /\ seen' = Unseen
    /\ UNCHANGED <<reloads, monitorVars, wireVars>>

\* Stop, by UpdateAll without the proxy or by Close of the manager.
Stop ==
    /\ phase # "closed"
    /\ phase' = "closed"
    /\ SendToServer("close")
    /\ seen' = Unseen
    /\ UNCHANGED <<reloads, monitorVars, toClient, registered>>

\* UpdateAll with a changed configuration: Stop, NewWrapper, Start.  A wrapper
\* that was stopped before is simply created again.
Reload ==
    /\ reloads < MaxReloads
    /\ Quiet \/ delayed
    /\ reloads' = reloads + 1
    /\ IF phase = "closed" THEN UNCHANGED toServer ELSE SendToServer("close")
    /\ phase' = "new"
    /\ seen' = Unseen
    /\ health' = IF HasMonitor THEN 1 ELSE 0
    /\ statusOK' = FALSE /\ failedTimes' = 0 /\ streak' = 0
    /\ UNCHANGED <<toClient, registered>>

-----------------------------------------------------------------------------
(* frps *)

\* handleNewProxy: a name that exists is refused, and RegisterProxy may fail.
ServerNewProxy ==
    /\ toServer # <<>> /\ Head(toServer) = "new"
    /\ toServer' = Tail(toServer)
    /\ \/ /\ ~registered
          /\ registered' = TRUE
          /\ toClient' = Append(toClient, "ok")
       \/ /\ registered \/ refusing
          /\ toClient' = Append(toClient, "error")
          /\ UNCHANGED registered
    /\ UNCHANGED <<wrapperVars, monitorVars>>

\* handleCloseProxy.
ServerCloseProxy ==
    /\ toServer # <<>> /\ Head(toServer) = "close"
    /\ toServer' = Tail(toServer)
    /\ registered' = FALSE
    /\ UNCHANGED <<toClient, wrapperVars, monitorVars>>

-----------------------------------------------------------------------------
Monitor     == (CheckSucceeds \/ CheckFails) /\ UNCHANGED setting
CheckWorker == /\ LoadHealth \/ StartIfHealthy \/ CloseIfFailed \/ NothingToDo
               /\ UNCHANGED setting
Server      == (ServerNewProxy \/ ServerCloseProxy) /\ UNCHANGED setting
Responses   == (HandleResp \/ HandleRespRunFails) /\ UNCHANGED setting
Manager     == (Stop \/ Reload) /\ UNCHANGED setting

Next == Monitor \/ CheckWorker \/ Responses \/ Manager \/ Server

Spec == Init /\ [][Next]_vars

\* checkWorker wakes every three seconds and both read loops keep reading.
\* Nothing is assumed of the checked service or of the manager.
Fairness == WF_vars(CheckWorker) /\ WF_vars(Server) /\ WF_vars(Responses)

FairSpec == Spec /\ Fairness

-----------------------------------------------------------------------------
(* Correctness *)

\* "Server will return NewProxyResp message to each NewProxy message.  Start a
\* new proxy handler if no error got": when nothing is under way, a proxy that
\* runs in frpc is registered in frps.
RunningIsRegistered == Quiet /\ phase = "running" => registered

\* "If continuous failed in 3 times, the proxy will be removed from frps": when
\* nothing is under way and checkWorker has dealt with the failure, frps does
\* not have the proxy.
FailedIsRemoved ==
    Quiet /\ health = 1 /\ phase \notin {"running", "wait start"} => ~registered

\* While every message is answered before the wrapper acts again, both sides agree
\* whenever nothing is under way: a running proxy is registered, a failed one is
\* removed, whatever checks, refusals and reloads came before.
PromptAgreement == ~delayed => RunningIsRegistered /\ FailedIsRemoved

\* A proxy that was stopped is removed from frps, whatever was under way when it
\* was stopped, stale responses included.
StoppedIsRemoved == Quiet /\ phase = "closed" => ~registered

\* The wrapper's and the monitor's state is well formed, and a stopped proxy is
\* gone from frps once the messages have arrived.
ProxySound == TypeOK /\ StoppedIsRemoved

\* The monitor reports a failure only after "continuous failed" checks: maxFailed
\* of them in a row.
FailureIsContinuous ==
    [][statusOK /\ ~statusOK' /\ reloads' = reloads => streak' >= MaxFailed]_vars

\* A proxy that stays healthy and is not refused ends up running, after any
\* history of failed checks, closes and reloads, when messages are prompt.
HealthyRuns ==
    ~delayed /\ ~refusing /\ <>[](health = 0 /\ phase # "closed") => <>[](phase = "running" /\ registered)

\* A proxy whose check keeps failing ends up removed from frps, when messages are
\* prompt.
UnhealthyLeaves ==
    ~delayed /\ <>[](health = 1) => <>[](~registered)

\* The registration follows the health of the checked service.
HealthIsFollowed == HealthyRuns /\ UnhealthyLeaves
=============================================================================
