--------------------------- MODULE ServerControl ---------------------------
(***************************************************************************)
(* The control plane of frps: the controls that logged-in clients own      *)
(* (server/control.go), the registry of controls by run id                 *)
(* (ControlManager), the registry of proxies by name (proxy.Manager), and   *)
(* the tables of secret proxies by name (visitor.Manager and the client     *)
(* table of nathole.Controller).                                            *)
(*                                                                          *)
(* One control has two goroutines that matter here: the read loop of its    *)
(* dispatcher, which runs the handlers of NewProxy, CloseProxy and Ping one  *)
(* at a time (task[c] is the handler it is in), and its worker, which waits  *)
(* for the read loop to end and then cleans up.  The goroutines of different *)
(* controls interleave at every lock they drop.                              *)
(***************************************************************************)
EXTENDS Integers, FiniteSets

CONSTANTS
    RunID,             \* the run ids clients log in with
    Name,              \* proxy names
    Kinds,             \* the proxy types clients ask for, a subset of AllKinds
    MaxLogins,         \* bound: how many logins a behaviour has
    MaxPortsPerClient, \* serverCfg.MaxPortsPerClient, 0 means unlimited
    HeartbeatTimeout,  \* serverCfg.Transport.HeartbeatTimeout, 0 means disabled
    CanShutDown        \* whether the behaviours include Service.Close

NamedKind == {"stcp", "xtcp"}   \* Run claims an entry of a table keyed by name
AllKinds  == NamedKind \cup {"tcp"}
NoKind    == "none"
NoName    == "noname"
NoRun     == "norun"
NoCtl     == 0

ASSUME ConstantsAssumption ==
    /\ MaxLogins \in Nat
    /\ MaxPortsPerClient \in Nat
    /\ HeartbeatTimeout \in Nat
    /\ CanShutDown \in BOOLEAN
    /\ Kinds \subseteq AllKinds
    /\ NoName \notin Name
    /\ NoRun \notin RunID

\* Controls are numbered in the order in which ControlManager.Add saw them.
Ctl == 1 .. MaxLogins

VARIABLES
    logins,       \* number of controls added so far
    ctlsByRunID,  \* ControlManager.ctlsByRunID
    runID,        \* loginMsg.RunID of a control
    phase,        \* where the control's life has got to
    waitFor,      \* the old control whose doneCh RegisterControl waits for
    conn,         \* TRUE while the control connection is open
    age,          \* seconds since lastPing, counted up to HeartbeatTimeout + 1
    task,         \* the handler the read loop is in
    proxies,      \* Control.proxies: the kind registered under a name
    portsUsedNum, \* Control.portsUsedNum
    running,      \* proxy objects whose Run succeeded and Close was not called
    pxys,         \* proxy.Manager.pxys: the control whose proxy has the name
    byName,       \* visitor.Manager.listeners, nathole.Controller.clientCfgs
    shut          \* Service.Close has been called

sessionVars == <<logins, ctlsByRunID, runID, phase, waitFor, shut>>
proxyVars   == <<proxies, portsUsedNum, running, pxys, byName>>
vars == <<sessionVars, conn, age, task, proxyVars>>

Ops     == {"exist", "run", "add", "insert", "undo", "fail", "del"}
Phases  == {"none", "waiting", "running", "cleanup", "closed", "gone"}
Idle    == [op |-> "idle", name |-> NoName, kind |-> NoKind]
Tasks   == [op : Ops, name : Name, kind : AllKinds] \cup {Idle}
Started == {"running", "cleanup"}          \* owns resources
Finished == {"closed", "gone"}             \* doneCh is closed

TypeOK ==
    /\ logins \in 0 .. MaxLogins
    /\ ctlsByRunID \in [RunID -> Ctl \cup {NoCtl}]
    /\ runID \in [Ctl -> RunID \cup {NoRun}]
    /\ phase \in [Ctl -> Phases]
    /\ waitFor \in [Ctl -> Ctl \cup {NoCtl}]
    /\ conn \in [Ctl -> BOOLEAN]
    /\ age \in [Ctl -> 0 .. HeartbeatTimeout + 1]
    /\ task \in [Ctl -> Tasks]
    /\ proxies \in [Ctl -> [Name -> AllKinds \cup {NoKind}]]
    /\ portsUsedNum \in [Ctl -> Int]
    /\ running \in [Ctl -> [Name -> AllKinds \cup {NoKind}]]
    /\ pxys \in [Name -> Ctl \cup {NoCtl}]
    /\ byName \in [NamedKind -> [Name -> Ctl \cup {NoCtl}]]
    /\ shut \in BOOLEAN

Init ==
    /\ logins = 0
    /\ ctlsByRunID = [r \in RunID |-> NoCtl]
    /\ runID = [c \in Ctl |-> NoRun]
    /\ phase = [c \in Ctl |-> "none"]
    /\ waitFor = [c \in Ctl |-> NoCtl]
    /\ conn = [c \in Ctl |-> FALSE]
    /\ age = [c \in Ctl |-> 0]
    /\ task = [c \in Ctl |-> Idle]
    /\ proxies = [c \in Ctl |-> [n \in Name |-> NoKind]]
    /\ portsUsedNum = [c \in Ctl |-> 0]
    /\ running = [c \in Ctl |-> [n \in Name |-> NoKind]]
    /\ pxys = [n \in Name |-> NoCtl]
    /\ byName = [k \in NamedKind |-> [n \in Name |-> NoCtl]]
    /\ shut = FALSE

-----------------------------------------------------------------------------
(* Sessions *)

\* Mutant: the control that had the run id keeps its connection.
LoginNoReplace(r) ==
    /\ logins < MaxLogins
    /\ logins' = logins + 1
    /\ runID' = [runID EXCEPT ![logins + 1] = r]
    /\ phase' = [phase EXCEPT ![logins + 1] = "waiting"]
    /\ waitFor' = [waitFor EXCEPT ![logins + 1] = ctlsByRunID[r]]
    /\ conn' = [conn EXCEPT ![logins + 1] = TRUE]
    /\ ctlsByRunID' = [ctlsByRunID EXCEPT ![r] = logins + 1]
    /\ UNCHANGED <<shut, age, task, proxyVars>>

\* NewControl and ControlManager.Add: the new control takes the run id over;
\* Replaced closes the connection of the control that had it.
Login(r) ==
    /\ logins < MaxLogins
    /\ LET c == logins + 1
           old == ctlsByRunID[r]
       IN  /\ logins' = c
           /\ runID' = [runID EXCEPT ![c] = r]
           /\ phase' = [phase EXCEPT ![c] = "waiting"]
           /\ waitFor' = [waitFor EXCEPT ![c] = old]
           /\ conn' = [d \in Ctl |-> IF d = c THEN TRUE
                                     ELSE conn[d] /\ d # old]
           /\ ctlsByRunID' = [ctlsByRunID EXCEPT ![r] = c]
    /\ UNCHANGED <<shut, age, task, proxyVars>>

\* Mutant: Start without waiting for the replaced control.
StartControlNoWait(c) ==
    /\ phase[c] = "waiting"
    /\ phase' = [phase EXCEPT ![c] = "running"]
    /\ UNCHANGED <<logins, ctlsByRunID, runID, waitFor, shut, conn, age, task,
                   proxyVars>>

\* Mutant: a control whose connection is already closed is never started.
StartControlIfOpen(c) ==
    /\ conn[c]
    /\ phase[c] = "waiting"
    /\ waitFor[c] # NoCtl => phase[waitFor[c]] \in Finished
    /\ phase' = [phase EXCEPT ![c] = "running"]
    /\ UNCHANGED <<logins, ctlsByRunID, runID, waitFor, shut, conn, age, task,
                   proxyVars>>

\* RegisterControl once oldCtl.WaitClosed has returned: ctl.Start.
StartControl(c) ==
    /\ phase[c] = "waiting"
    /\ waitFor[c] # NoCtl => phase[waitFor[c]] \in Finished
    /\ phase' = [phase EXCEPT ![c] = "running"]
    /\ UNCHANGED <<logins, ctlsByRunID, runID, waitFor, shut, conn, age, task,
                   proxyVars>>

\* The client or the network closes the control connection.
PeerClose(c) ==
    /\ phase[c] \in {"waiting", "running"}
    /\ conn[c]
    /\ conn' = [conn EXCEPT ![c] = FALSE]
    /\ UNCHANGED <<sessionVars, age, task, proxyVars>>

\* One second passes for a control.
Tick(c) ==
    /\ phase[c] \in {"waiting", "running"}
    /\ HeartbeatTimeout > 0
    /\ age[c] <= HeartbeatTimeout
    /\ age' = [age EXCEPT ![c] = @ + 1]
    /\ UNCHANGED <<sessionVars, conn, task, proxyVars>>

\* handlePing: a valid Ping stores lastPing (an invalid one changes nothing).
HandlePing(c) ==
    /\ phase[c] = "running"
    /\ conn[c]
    /\ task[c] = Idle
    /\ age' = [age EXCEPT ![c] = 0]
    /\ UNCHANGED <<sessionVars, conn, task, proxyVars>>

\* Mutant: the heartbeat worker is started after the dispatcher is done.
HeartbeatExpireLate(c) ==
    /\ phase[c] = "cleanup"
    /\ age[c] > HeartbeatTimeout
    /\ conn[c]
    /\ conn' = [conn EXCEPT ![c] = FALSE]
    /\ UNCHANGED <<sessionVars, age, task, proxyVars>>

\* heartbeatWorker: the check it makes every second until doneCh is closed.
HeartbeatExpire(c) ==
    /\ phase[c] \in Started
    /\ HeartbeatTimeout > 0
    /\ age[c] > HeartbeatTimeout
    /\ conn[c]
    /\ conn' = [conn EXCEPT ![c] = FALSE]
    /\ UNCHANGED <<sessionVars, age, task, proxyVars>>

\* Service.Close, as far as the controls go: ControlManager.Close.
ShutDown ==
    /\ CanShutDown
    /\ ~shut
    /\ shut' = TRUE
    /\ conn' = [c \in Ctl |-> conn[c] /\ \A r \in RunID : ctlsByRunID[r] # c]
    /\ ctlsByRunID' = [r \in RunID |-> NoCtl]
    /\ UNCHANGED <<logins, runID, phase, waitFor, age, task, proxyVars>>

-----------------------------------------------------------------------------
(* Proxies *)

UsedPorts(k) == IF k = "tcp" /\ MaxPortsPerClient > 0 THEN 1 ELSE 0

\* What Proxy.Close gives back: the listeners of the object and, for a kind
\* registered by name, the table's entry for the name (whoever put it there).
ClosePxy(c, n, k) ==
    /\ running' = [running EXCEPT ![c][n] = NoKind]
    /\ byName' = [j \in NamedKind |->
                    IF j = k THEN [byName[j] EXCEPT ![n] = NoCtl] ELSE byName[j]]

Goto(c, op) == task' = [task EXCEPT ![c].op = op]

\* handleNewProxy up to the port quota of RegisterProxy.
HandleNewProxy(c, n, k) ==
    /\ phase[c] = "running"
    /\ conn[c]
    /\ task[c] = Idle
    /\ UsedPorts(k) = 0 \/ portsUsedNum[c] + UsedPorts(k) <= MaxPortsPerClient
    /\ portsUsedNum' = [portsUsedNum EXCEPT ![c] = @ + UsedPorts(k)]
    /\ task' = [task EXCEPT ![c] = [op |-> "exist", name |-> n, kind |-> k]]
    /\ UNCHANGED <<sessionVars, conn, age, proxies, running, pxys, byName>>

\* RegisterProxy: pxyManager.Exist.
CheckExist(c) ==
    /\ task[c].op = "exist"
    /\ Goto(c, IF pxys[task[c].name] = NoCtl THEN "run" ELSE "fail")
    /\ UNCHANGED <<sessionVars, conn, age, proxyVars>>

\* RegisterProxy: pxy.Run succeeds.  A named kind takes the free entry of its
\* table.
RunProxy(c) ==
    LET n == task[c].name
        k == task[c].kind
    IN  /\ task[c].op = "run"
        /\ k \in NamedKind => byName[k][n] = NoCtl
        /\ running' = [running EXCEPT ![c][n] = k]
        /\ byName' = [j \in NamedKind |->
                        IF j = k THEN [byName[j] EXCEPT ![n] = c] ELSE byName[j]]
        /\ Goto(c, "add")
        /\ UNCHANGED <<sessionVars, conn, age, proxies, portsUsedNum, pxys>>

\* Mutant: the deferred Close is registered before Run.
RunProxyFailsClose(c) ==
    /\ task[c].op = "run"
    /\ task[c].kind \in NamedKind => byName[task[c].kind][task[c].name] # NoCtl
    /\ Goto(c, "undo")
    /\ UNCHANGED <<sessionVars, conn, age, proxyVars>>

\* RegisterProxy: pxy.Run fails, because the name is taken in the table of its
\* kind or because no port could be had.
RunProxyFails(c) ==
    /\ task[c].op = "run"
    /\ task[c].kind \in NamedKind => byName[task[c].kind][task[c].name] # NoCtl
    /\ Goto(c, "fail")
    /\ UNCHANGED <<sessionVars, conn, age, proxyVars>>

\* Mutant: Add overwrites the entry, trusting the earlier Exist.
AddProxyNoRecheck(c) ==
    /\ task[c].op = "add"
    /\ pxys' = [pxys EXCEPT ![task[c].name] = c]
    /\ Goto(c, "insert")
    /\ UNCHANGED <<sessionVars, conn, age, proxies, portsUsedNum, running, byName>>

\* Mutant: a failed Add returns without closing the proxy.
AddProxyNoUndo(c) ==
    LET n == task[c].name
    IN  /\ task[c].op = "add"
        /\ pxys' = IF pxys[n] = NoCtl THEN [pxys EXCEPT ![n] = c] ELSE pxys
        /\ Goto(c, IF pxys[n] = NoCtl THEN "insert" ELSE "fail")
        /\ UNCHANGED <<sessionVars, conn, age, proxies, portsUsedNum, running,
                       byName>>

\* RegisterProxy: pxyManager.Add, which checks the name again.
AddProxy(c) ==
    LET n == task[c].name
    IN  /\ task[c].op = "add"
        /\ pxys' = IF pxys[n] = NoCtl THEN [pxys EXCEPT ![n] = c] ELSE pxys
        /\ Goto(c, IF pxys[n] = NoCtl THEN "insert" ELSE "undo")
        /\ UNCHANGED <<sessionVars, conn, age, proxies, portsUsedNum, running,
                       byName>>

\* RegisterProxy: ctl.proxies[name] = pxy; the read loop is free again.
InsertProxy(c) ==
    /\ task[c].op = "insert"
    /\ proxies' = [proxies EXCEPT ![c][task[c].name] = task[c].kind]
    /\ task' = [task EXCEPT ![c] = Idle]
    /\ UNCHANGED <<sessionVars, conn, age, portsUsedNum, running, pxys, byName>>

\* Mutant: undoing a failed registration also deletes the name.
UndoRunDel(c) ==
    /\ task[c].op = "undo"
    /\ ClosePxy(c, task[c].name, task[c].kind)
    /\ pxys' = [pxys EXCEPT ![task[c].name] = NoCtl]
    /\ Goto(c, "fail")
    /\ UNCHANGED <<sessionVars, conn, age, proxies, portsUsedNum>>

\* RegisterProxy: the deferred pxy.Close after a failed Add.
UndoRun(c) ==
    /\ task[c].op = "undo"
    /\ ClosePxy(c, task[c].name, task[c].kind)
    /\ Goto(c, "fail")
    /\ UNCHANGED <<sessionVars, conn, age, proxies, portsUsedNum, pxys>>

\* Mutant: a failed registration keeps its charge.
ReturnQuotaKeep(c) ==
    /\ task[c].op = "fail"
    /\ task' = [task EXCEPT ![c] = Idle]
    /\ UNCHANGED <<sessionVars, conn, age, proxyVars>>

\* RegisterProxy: the deferred return of the port quota after any failure.
ReturnQuota(c) ==
    /\ task[c].op = "fail"
    /\ portsUsedNum' = [portsUsedNum EXCEPT ![c] = @ - UsedPorts(task[c].kind)]
    /\ task' = [task EXCEPT ![c] = Idle]
    /\ UNCHANGED <<sessionVars, conn, age, proxies, running, pxys, byName>>

\* Mutant: the lookup in ctl.proxies is dropped.
HandleCloseProxyBlind(c, n) ==
    /\ phase[c] = "running"
    /\ conn[c]
    /\ task[c] = Idle
    /\ portsUsedNum' = [portsUsedNum EXCEPT ![c] = @ - UsedPorts(proxies[c][n])]
    /\ ClosePxy(c, n, proxies[c][n])
    /\ task' = [task EXCEPT ![c] = [op |-> "del", name |-> n,
                                    kind |-> proxies[c][n]]]
    /\ UNCHANGED <<sessionVars, conn, age, proxies, pxys>>

\* CloseProxy of a name the control has: quota and pxy.Close.
HandleCloseProxy(c, n) ==
    /\ phase[c] = "running"
    /\ conn[c]
    /\ task[c] = Idle
    /\ proxies[c][n] # NoKind
    /\ portsUsedNum' = [portsUsedNum EXCEPT ![c] = @ - UsedPorts(proxies[c][n])]
    /\ ClosePxy(c, n, proxies[c][n])
    /\ task' = [task EXCEPT ![c] = [op |-> "del", name |-> n,
                                    kind |-> proxies[c][n]]]
    /\ UNCHANGED <<sessionVars, conn, age, proxies, pxys>>

\* CloseProxy, still under ctl.mu: pxyManager.Del and delete(ctl.proxies).
\* worker: pxyManager.Del of the proxy it has just closed; the worker's range
\* never comes back to a name, so the entry it has visited is dropped.
DelProxy(c) ==
    LET n == task[c].name
    IN  /\ task[c].op = "del"
        /\ pxys' = [pxys EXCEPT ![n] = NoCtl]
        /\ proxies' = [proxies EXCEPT ![c][n] = NoKind]
        /\ task' = [task EXCEPT ![c] = Idle]
        /\ UNCHANGED <<sessionVars, conn, age, portsUsedNum, running, byName>>

-----------------------------------------------------------------------------
(* The worker's cleanup *)

\* ReadMsg fails, readLoop closes the dispatcher's doneCh, the worker closes
\* the connection and takes ctl.mu.
DispatcherDone(c) ==
    /\ phase[c] = "running"
    /\ ~conn[c]
    /\ task[c] = Idle
    /\ phase' = [phase EXCEPT ![c] = "cleanup"]
    /\ UNCHANGED <<logins, ctlsByRunID, runID, waitFor, shut, conn, age, task,
                   proxyVars>>

\* worker: pxy.Close of the next proxy in ctl.proxies.
CleanupProxy(c, n) ==
    /\ phase[c] = "cleanup"
    /\ task[c] = Idle
    /\ proxies[c][n] # NoKind
    /\ ClosePxy(c, n, proxies[c][n])
    /\ task' = [task EXCEPT ![c] = [op |-> "del", name |-> n,
                                    kind |-> proxies[c][n]]]
    /\ UNCHANGED <<sessionVars, conn, age, proxies, portsUsedNum, pxys>>

\* Mutant: doneCh is closed before the proxies are.
CloseDoneEarly(c) ==
    /\ phase[c] = "cleanup"
    /\ task[c] = Idle
    /\ phase' = [phase EXCEPT ![c] = "closed"]
    /\ UNCHANGED <<logins, ctlsByRunID, runID, waitFor, shut, conn, age, task,
                   proxyVars>>

\* worker: every proxy is closed, close(ctl.doneCh).
CloseDone(c) ==
    /\ phase[c] = "cleanup"
    /\ task[c] = Idle
    /\ \A n \in Name : proxies[c][n] = NoKind
    /\ phase' = [phase EXCEPT ![c] = "closed"]
    /\ UNCHANGED <<logins, ctlsByRunID, runID, waitFor, shut, conn, age, task,
                   proxyVars>>

\* Mutant: Del without the comparison of controls.
DelControlAny(c) ==
    /\ phase[c] = "closed"
    /\ phase' = [phase EXCEPT ![c] = "gone"]
    /\ ctlsByRunID' = [ctlsByRunID EXCEPT ![runID[c]] = NoCtl]
    /\ UNCHANGED <<logins, runID, waitFor, shut, conn, age, task, proxyVars>>

\* The goroutine of RegisterControl: ControlManager.Del, which leaves the run
\* id alone when a newer control has it.
DelControl(c) ==
    /\ phase[c] = "closed"
    /\ phase' = [phase EXCEPT ![c] = "gone"]
    /\ ctlsByRunID' = [r \in RunID |-> IF r = runID[c] /\ ctlsByRunID[r] = c
                                       THEN NoCtl ELSE ctlsByRunID[r]]
    /\ UNCHANGED <<logins, runID, waitFor, shut, conn, age, task, proxyVars>>

-----------------------------------------------------------------------------
\* The steps a control's goroutines take on their own.
Handler(c) ==
    \/ CheckExist(c) \/ RunProxy(c) \/ RunProxyFails(c) \/ AddProxy(c)
    \/ InsertProxy(c) \/ UndoRun(c) \/ ReturnQuota(c) \/ DelProxy(c)

Worker(c) ==
    \/ StartControl(c) \/ DispatcherDone(c) \/ CloseDone(c) \/ DelControl(c)
    \/ \E n \in Name : CleanupProxy(c, n)

\* What the client and its connection do.
Peer(c) ==
    \/ PeerClose(c) \/ HandlePing(c)
    \/ \E n \in Name, k \in Kinds : HandleNewProxy(c, n, k)
    \/ \E n \in Name : HandleCloseProxy(c, n)

Next ==
    \/ \E r \in RunID : Login(r)
    \/ ShutDown
    \/ \E c \in Ctl : \/ Peer(c) \/ Handler(c) \/ Worker(c)
                      \/ Tick(c) \/ HeartbeatExpire(c)

Spec == Init /\ [][Next]_vars

\* Goroutines that can run do run, and time passes.  Nothing is assumed of the
\* clients: a client may stay silent, log in again or never close.
Fairness ==
    \A c \in Ctl : /\ WF_vars(Handler(c))
                   /\ WF_vars(Worker(c))
                   /\ WF_vars(Tick(c))
                   /\ WF_vars(HeartbeatExpire(c))

FairSpec == Spec /\ Fairness

-----------------------------------------------------------------------------
(* Correctness *)

Live(c) == phase[c] \in Started

\* RegisterControl waits for the control it replaced before it starts its own,
\* and Del never removes a newer control: as long as the service is not being
\* shut down, a control has started only when every earlier control of the same
\* run id has finished its cleanup.
OneControlPerClient ==
    ~shut => \A c, d \in Ctl :
        /\ c < d
        /\ runID[c] = runID[d]
        /\ phase[d] \in Started \cup Finished
        => phase[c] \in Finished

\* Exist, Run, Add, Del and Close are separate critical sections of several
\* tables, yet the name registry and the controls agree: a name in ctl.proxies
\* is registered to that control, and a registered name belongs to a started
\* control that has it in ctl.proxies or is about to put it there.
NamesAgree ==
    /\ \A c \in Ctl, n \in Name : proxies[c][n] # NoKind => pxys[n] = c
    /\ \A n \in Name : pxys[n] # NoCtl =>
          LET c == pxys[n]
          IN  /\ Live(c)
              /\ \/ proxies[c][n] # NoKind
                 \/ task[c].op = "insert" /\ task[c].name = n

\* Run and Close of racing registrations never strand a proxy: whatever is
\* running is registered or is in the hands of the handler that is registering
\* it, and a registered proxy is running unless the step that closes it is in
\* progress.
NoStrandedProxy ==
    \A c \in Ctl, n \in Name :
        /\ running[c][n] # NoKind =>
              /\ Live(c)
              /\ \/ proxies[c][n] = running[c][n]
                 \/ /\ task[c].op \in {"add", "undo", "insert"}
                    /\ task[c].name = n /\ task[c].kind = running[c][n]
        /\ proxies[c][n] # NoKind =>
              \/ running[c][n] = proxies[c][n]
              \/ task[c].op = "del" /\ task[c].name = n

\* CloseListener and CloseClient delete by name, without asking whose entry it
\* is: the table of a named kind still holds exactly the running proxies of it.
SecretTablesExact ==
    \A k \in NamedKind, n \in Name, c \in Ctl :
        byName[k][n] = c <=> running[c][n] = k

\* The ports a control has charged for: its tcp proxies and the registration in
\* progress (charged before Exist, returned by the deferred function), less
\* the proxy that CloseProxy has uncharged and not yet removed.
ChargedNames(c) ==
    {n \in Name :
        \/ proxies[c][n] = "tcp" /\ ~(task[c].op = "del" /\ task[c].name = n
                                     /\ phase[c] = "running")
        \/ /\ task[c].op \in Ops \ {"del"}
           /\ task[c].name = n /\ task[c].kind = "tcp"
           /\ proxies[c][n] # "tcp"}

\* A registration of a name the control already has is charged twice until the
\* Exist check fails and the charge is returned.
DoubleCharge(c) ==
    IF /\ task[c].op \in {"exist", "fail"} /\ task[c].kind = "tcp"
       /\ proxies[c][task[c].name] = "tcp"
    THEN 1 ELSE 0

\* The quota counter never drifts: while the control handles messages it is
\* the number of ports in use, whatever registrations failed and proxies were
\* closed on the way, and it never exceeds the limit.
QuotaExact ==
    MaxPortsPerClient > 0 => \A c \in Ctl : phase[c] = "running" =>
        /\ portsUsedNum[c] = Cardinality(ChargedNames(c)) + DoubleCharge(c)
        /\ portsUsedNum[c] <= MaxPortsPerClient

\* A client that logs in again is never refused a name because its own earlier
\* control still holds it, in the registry or in a table of secret proxies.
NoSelfConflict ==
    ~shut => \A c, d \in Ctl, n \in Name :
        /\ phase[d] = "running"
        /\ c # d
        /\ runID[c] = runID[d]
        => pxys[n] # c /\ \A k \in NamedKind : byName[k][n] # c

\* A name passes from one control to another only through the free state, and
\* only the control that holds it gives it up: Del, which deletes by name, is
\* never applied to another control's entry.
NameHandover ==
    [][\A n \in Name : pxys'[n] # pxys[n] =>
          \/ pxys[n] = NoCtl
          \/ pxys'[n] = NoCtl /\ task[pxys[n]].op = "del"
                             /\ task[pxys[n]].name = n]_vars

\* However long the chain of controls that replace each other, every login is
\* started: nobody waits for a control that never closes.
LoginStarts ==
    \A c \in Ctl : phase[c] = "waiting" ~> phase[c] # "waiting"

\* A control whose connection is closed, by the client, by a newer login or by
\* the heartbeat, gives everything back and leaves the registry.
ClosedControlLeaves ==
    \A c \in Ctl : (phase[c] \in {"waiting", "running"} /\ ~conn[c])
                      ~> phase[c] = "gone"

\* A client that goes silent without closing its connection is thrown out by
\* the heartbeat: either its pings keep coming or its control ends.
SilentClientEvicted ==
    HeartbeatTimeout > 0 => \A c \in Ctl :
        \/ []<><<HandlePing(c)>>_vars
        \/ phase[c] = "running" ~> phase[c] = "gone"

\* ServerControl implements the promise SessionRegistry makes: a session is a
\* control between Start and close(doneCh), a name's owner is the control
\* proxy.Manager has for it.
Registry == INSTANCE SessionRegistry WITH
    Client  <- RunID,
    Session <- Ctl,
    client  <- runID,
    live    <- {c \in Ctl : phase[c] \in Started},
    ended   <- {c \in Ctl : phase[c] \in Finished},
    owner   <- pxys

\* Every step of the controls is a step of the registry of sessions or none.
ImplementsRegistry == Registry!Spec

=============================================================================
