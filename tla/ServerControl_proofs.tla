----------------------- MODULE ServerControl_proofs -----------------------
(***************************************************************************)
(* Proofs about ServerControl, for every set of run ids and names, every    *)
(* number of logins and every quota.  Two inductive invariants carry them:   *)
(* SessionInv, about which control has a run id and which one a login waits  *)
(* for, and ProxyInv, about where a registration stands and what the tables  *)
(* hold at that point.                                                       *)
(***************************************************************************)
EXTENDS ServerControl, FiniteSetTheorems, TLAPS

\* Controls are numbered in the order of ControlManager.Add.
LoginsNumbered ==
    \A c \in Ctl : IF c <= logins THEN phase[c] # "none" /\ runID[c] \in RunID
                                  ELSE /\ phase[c] = "none" /\ runID[c] = NoRun
                                       /\ waitFor[c] = NoCtl

\* ctlsByRunID has the newest control of a run id, if it has any.
RegistryNewest ==
    \A r \in RunID : ctlsByRunID[r] # NoCtl =>
        /\ runID[ctlsByRunID[r]] = r
        /\ \A c \in Ctl : runID[c] = r => c <= ctlsByRunID[r]

\* A control that has not finished is covered by the entry of its run id.
UnfinishedRegistered ==
    ~shut => \A c \in Ctl : runID[c] # NoRun =>
        \/ phase[c] \in Finished
        \/ ctlsByRunID[runID[c]] # NoCtl

\* The control a login waits for is of the same client, and every earlier
\* control of that client is finished or not newer than it.
WaitsForNewest ==
    \A d \in Ctl :
        /\ waitFor[d] # NoCtl => waitFor[d] < d /\ runID[waitFor[d]] = runID[d]
        /\ ~shut => \A c \in Ctl :
              c < d /\ runID[c] = runID[d] /\ runID[d] # NoRun =>
                  \/ phase[c] \in Finished
                  \/ waitFor[d] # NoCtl /\ c <= waitFor[d]

SessionInv ==
    /\ LoginsNumbered
    /\ RegistryNewest
    /\ UnfinishedRegistered
    /\ WaitsForNewest
    /\ OneControlPerClient

\* Only a started control is in a handler, has proxies or runs any.
UnstartedEmpty ==
    \A c \in Ctl : ~Live(c) =>
        /\ task[c] = Idle
        /\ \A n \in Name : proxies[c][n] = NoKind /\ running[c][n] = NoKind

\* The cleanup starts when no handler is running.
CleanupOnlyDeletes ==
    \A c \in Ctl : phase[c] = "cleanup" => task[c].op \in {"idle", "del"}

\* What RegisterProxy and CloseProxy may rely on between their locks.
HandlerState ==
    \A c \in Ctl : LET t == task[c] IN
        /\ t.op = "run" => proxies[c][t.name] = NoKind /\ running[c][t.name] = NoKind
        /\ t.op \in {"add", "undo", "insert"} =>
              proxies[c][t.name] = NoKind /\ running[c][t.name] = t.kind
        /\ t.op = "insert" => pxys[t.name] = c
        /\ t.op = "del" => /\ proxies[c][t.name] # NoKind
                           /\ running[c][t.name] = NoKind

ProxyInv ==
    /\ UnstartedEmpty
    /\ CleanupOnlyDeletes
    /\ HandlerState
    /\ NamesAgree
    /\ NoStrandedProxy
    /\ SecretTablesExact

-----------------------------------------------------------------------------
(* Types *)

\* A handler that is busy has a name and a kind; going to another step of it
\* keeps them.
LEMMA BusyTask ==
    ASSUME TypeOK, NEW c \in Ctl, task[c].op # "idle"
    PROVE  /\ task[c] \in [op : Ops, name : Name, kind : AllKinds]
           /\ task[c].name \in Name
           /\ task[c].kind \in AllKinds
  BY DEF TypeOK, Tasks, Idle

\* Goto changes the step of one control's handler and nothing else of it.
LEMMA GotoTask ==
    ASSUME TypeOK, NEW c \in Ctl, task[c].op # "idle", NEW op \in Ops, Goto(c, op)
    PROVE  /\ task' \in [Ctl -> Tasks]
           /\ task'[c].op = op
           /\ task'[c].name = task[c].name
           /\ task'[c].kind = task[c].kind
           /\ \A d \in Ctl : d # c => task'[d] = task[d]
  <1>1. task[c] \in [op : Ops, name : Name, kind : AllKinds]
    BY BusyTask
  <1>2. [task[c] EXCEPT !.op = op] \in [op : Ops, name : Name, kind : AllKinds]
    BY <1>1
  <1>3. task' = [task EXCEPT ![c] = [task[c] EXCEPT !.op = op]]
    BY DEF Goto
  <1>4. task \in [Ctl -> Tasks]
    BY DEF TypeOK
  <1>5. [task[c] EXCEPT !.op = op] \in Tasks
    BY <1>2 DEF Tasks
  <1> QED
    BY <1>1, <1>3, <1>4, <1>5

\* ClosePxy keeps the tables' types.
LEMMA ClosePxyType ==
    ASSUME TypeOK, NEW c \in Ctl, NEW n \in Name, NEW k, ClosePxy(c, n, k)
    PROVE  /\ running' \in [Ctl -> [Name -> AllKinds \cup {NoKind}]]
           /\ byName' \in [NamedKind -> [Name -> Ctl \cup {NoCtl}]]
  BY DEF TypeOK, ClosePxy

LEMMA TypeInit == Init => TypeOK
  <1> SUFFICES ASSUME Init PROVE TypeOK
    OBVIOUS
  <1>1. /\ logins \in 0 .. MaxLogins
        /\ age \in [Ctl -> 0 .. HeartbeatTimeout + 1]
    BY ConstantsAssumption DEF Init
  <1>2. /\ portsUsedNum \in [Ctl -> Int]
        /\ phase \in [Ctl -> Phases]
        /\ task \in [Ctl -> Tasks]
    BY DEF Init, Phases, Tasks
  <1>3. /\ proxies \in [Ctl -> [Name -> AllKinds \cup {NoKind}]]
        /\ running \in [Ctl -> [Name -> AllKinds \cup {NoKind}]]
        /\ byName \in [NamedKind -> [Name -> Ctl \cup {NoCtl}]]
    BY DEF Init
  <1> QED
    BY <1>1, <1>2, <1>3 DEF Init, TypeOK

\* Every step of every goroutine keeps the type invariant.
LEMMA TypeNext == TypeOK /\ [Next]_vars => TypeOK'
  <1> SUFFICES ASSUME TypeOK, [Next]_vars PROVE TypeOK'
    OBVIOUS
  <1> USE ConstantsAssumption
  <1>1. ASSUME NEW r \in RunID, Login(r) PROVE TypeOK'
    <2>1. logins + 1 \in Ctl
      BY <1>1 DEF Login, TypeOK, Ctl
    <2>2. logins' \in 0 .. MaxLogins
      BY <1>1 DEF Login, TypeOK
    <2>3. conn' \in [Ctl -> BOOLEAN]
      BY <1>1 DEF Login, TypeOK
    <2> QED
      BY <1>1, <2>1, <2>2, <2>3 DEF Login, TypeOK, Phases, proxyVars
  <1>2. CASE ShutDown
    BY <1>2 DEF ShutDown, TypeOK, proxyVars
  <1>3. ASSUME NEW c \in Ctl, PeerClose(c) PROVE TypeOK'
    BY <1>3 DEF PeerClose, TypeOK, sessionVars, proxyVars
  <1>4. ASSUME NEW c \in Ctl, HandlePing(c) PROVE TypeOK'
    BY <1>4 DEF HandlePing, TypeOK, sessionVars, proxyVars
  <1>5. ASSUME NEW c \in Ctl, NEW n \in Name, NEW k \in Kinds,
               HandleNewProxy(c, n, k)
        PROVE  TypeOK'
    <2>1. [op |-> "exist", name |-> n, kind |-> k] \in Tasks
      BY DEF Tasks, Ops
    <2>2. task' \in [Ctl -> Tasks]
      BY <1>5, <2>1 DEF HandleNewProxy, TypeOK
    <2>3. portsUsedNum' \in [Ctl -> Int]
      BY <1>5 DEF HandleNewProxy, TypeOK, UsedPorts
    <2> QED
      BY <1>5, <2>2, <2>3 DEF HandleNewProxy, TypeOK, sessionVars
  <1>6. ASSUME NEW c \in Ctl, NEW n \in Name, HandleCloseProxy(c, n) PROVE TypeOK'
    <2>1. [op |-> "del", name |-> n, kind |-> proxies[c][n]] \in Tasks
      BY <1>6 DEF Tasks, Ops, TypeOK, HandleCloseProxy
    <2>2. task' \in [Ctl -> Tasks]
      BY <1>6, <2>1 DEF HandleCloseProxy, TypeOK
    <2>3. portsUsedNum' \in [Ctl -> Int]
      BY <1>6 DEF HandleCloseProxy, TypeOK, UsedPorts
    <2>4. ClosePxy(c, n, proxies[c][n])
      BY <1>6 DEF HandleCloseProxy
    <2> QED
      BY <1>6, <2>2, <2>3, <2>4, ClosePxyType
         DEF HandleCloseProxy, TypeOK, sessionVars
  <1>7. ASSUME NEW c \in Ctl, CheckExist(c) PROVE TypeOK'
    <2>1. task' \in [Ctl -> Tasks]
      BY <1>7, GotoTask DEF CheckExist, Ops
    <2> QED
      BY <1>7, <2>1 DEF CheckExist, TypeOK, sessionVars, proxyVars
  <1>8. ASSUME NEW c \in Ctl, RunProxy(c) PROVE TypeOK'
    <2>1. task[c].name \in Name /\ task[c].kind \in AllKinds
      BY <1>8, BusyTask DEF RunProxy
    <2>2. task' \in [Ctl -> Tasks]
      BY <1>8, GotoTask DEF RunProxy, Ops
    <2>3. running' \in [Ctl -> [Name -> AllKinds \cup {NoKind}]]
      BY <1>8, <2>1 DEF RunProxy, TypeOK
    <2>4. byName' \in [NamedKind -> [Name -> Ctl \cup {NoCtl}]]
      BY <1>8, <2>1 DEF RunProxy, TypeOK
    <2> QED
      BY <1>8, <2>2, <2>3, <2>4 DEF RunProxy, TypeOK, sessionVars
  <1>9. ASSUME NEW c \in Ctl, RunProxyFails(c) PROVE TypeOK'
    <2>1. task' \in [Ctl -> Tasks]
      BY <1>9, GotoTask DEF RunProxyFails, Ops
    <2> QED
      BY <1>9, <2>1 DEF RunProxyFails, TypeOK, sessionVars, proxyVars
  <1>10. ASSUME NEW c \in Ctl, AddProxy(c) PROVE TypeOK'
    <2>1. task[c].name \in Name
      BY <1>10, BusyTask DEF AddProxy
    <2>2. task' \in [Ctl -> Tasks]
      BY <1>10, GotoTask DEF AddProxy, Ops
    <2> QED
      BY <1>10, <2>1, <2>2 DEF AddProxy, TypeOK, sessionVars
  <1>11. ASSUME NEW c \in Ctl, InsertProxy(c) PROVE TypeOK'
    <2>1. task[c].name \in Name /\ task[c].kind \in AllKinds
      BY <1>11, BusyTask DEF InsertProxy
    <2> QED
      BY <1>11, <2>1 DEF InsertProxy, TypeOK, sessionVars, Tasks
  <1>12. ASSUME NEW c \in Ctl, UndoRun(c) PROVE TypeOK'
    <2>1. task[c].name \in Name
      BY <1>12, BusyTask DEF UndoRun
    <2>2. task' \in [Ctl -> Tasks]
      BY <1>12, GotoTask DEF UndoRun, Ops
    <2> QED
      BY <1>12, <2>1, <2>2, ClosePxyType DEF UndoRun, TypeOK, sessionVars
  <1>13. ASSUME NEW c \in Ctl, ReturnQuota(c) PROVE TypeOK'
    BY <1>13 DEF ReturnQuota, UsedPorts, TypeOK, sessionVars, Tasks
  <1>14. ASSUME NEW c \in Ctl, DelProxy(c) PROVE TypeOK'
    <2>1. task[c].name \in Name
      BY <1>14, BusyTask DEF DelProxy
    <2> QED
      BY <1>14, <2>1 DEF DelProxy, TypeOK, sessionVars, Tasks
  <1>15. ASSUME NEW c \in Ctl, StartControl(c) PROVE TypeOK'
    BY <1>15 DEF StartControl, TypeOK, Phases, proxyVars
  <1>16. ASSUME NEW c \in Ctl, DispatcherDone(c) PROVE TypeOK'
    BY <1>16 DEF DispatcherDone, TypeOK, Phases, proxyVars
  <1>17. ASSUME NEW c \in Ctl, CloseDone(c) PROVE TypeOK'
    BY <1>17 DEF CloseDone, TypeOK, Phases, proxyVars
  <1>18. ASSUME NEW c \in Ctl, DelControl(c) PROVE TypeOK'
    BY <1>18 DEF DelControl, TypeOK, Phases, proxyVars
  <1>19. ASSUME NEW c \in Ctl, NEW n \in Name, CleanupProxy(c, n) PROVE TypeOK'
    <2>1. [op |-> "del", name |-> n, kind |-> proxies[c][n]] \in Tasks
      BY <1>19 DEF Tasks, Ops, TypeOK, CleanupProxy
    <2>2. task' \in [Ctl -> Tasks]
      BY <1>19, <2>1 DEF CleanupProxy, TypeOK
    <2>3. ClosePxy(c, n, proxies[c][n])
      BY <1>19 DEF CleanupProxy
    <2> QED
      BY <1>19, <2>2, <2>3, ClosePxyType DEF CleanupProxy, TypeOK, sessionVars
  <1>20. ASSUME NEW c \in Ctl, Tick(c) PROVE TypeOK'
    BY <1>20 DEF Tick, TypeOK, sessionVars, proxyVars
  <1>21. ASSUME NEW c \in Ctl, HeartbeatExpire(c) PROVE TypeOK'
    BY <1>21 DEF HeartbeatExpire, TypeOK, sessionVars, proxyVars
  <1>22. CASE UNCHANGED vars
    BY <1>22 DEF vars, sessionVars, proxyVars, TypeOK
  <1> QED
    BY <1>1, <1>2, <1>3, <1>4, <1>5, <1>6, <1>7, <1>8, <1>9, <1>10, <1>11,
       <1>12, <1>13, <1>14, <1>15, <1>16, <1>17, <1>18, <1>19, <1>20, <1>21,
       <1>22
       DEF Next, Peer, Handler, Worker

\* The state of the control plane is well typed: in particular a handler never
\* leaves its steps, and the kind and the owner in every table exist.
THEOREM TypeCorrect == Spec => []TypeOK
  BY TypeInit, TypeNext, PTL DEF Spec

-----------------------------------------------------------------------------
(* Sessions *)

LEMMA SessionInit == Init => SessionInv
  <1> SUFFICES ASSUME Init PROVE SessionInv
    OBVIOUS
  <1>1. LoginsNumbered
    BY DEF Init, LoginsNumbered, Ctl
  <1>2. RegistryNewest
    BY DEF Init, RegistryNewest
  <1>3. UnfinishedRegistered /\ WaitsForNewest
    BY DEF Init, UnfinishedRegistered, WaitsForNewest
  <1>4. OneControlPerClient
    BY DEF Init, OneControlPerClient, Started, Finished
  <1> QED
    BY <1>1, <1>2, <1>3, <1>4 DEF SessionInv

\* Login: the newcomer is the newest of its run id, and what it waits for is
\* the entry it took over.
LEMMA SessionLogin ==
    ASSUME TypeOK, SessionInv, NEW r \in RunID, Login(r)
    PROVE  SessionInv'
  <1> DEFINE new == logins + 1
  <1>1. /\ new \in Ctl
        /\ new \in Int
        /\ \A c \in Ctl : c \in Int
        /\ logins' = new
        /\ runID' = [runID EXCEPT ![new] = r]
        /\ phase' = [phase EXCEPT ![new] = "waiting"]
        /\ waitFor' = [waitFor EXCEPT ![new] = ctlsByRunID[r]]
        /\ ctlsByRunID' = [ctlsByRunID EXCEPT ![r] = new]
        /\ shut' = shut
    BY ConstantsAssumption DEF Login, TypeOK, Ctl
  <1>2. \A c \in Ctl : /\ runID[c] # NoRun => c <= logins
                       /\ c > logins => /\ phase[c] = "none" /\ runID[c] = NoRun
                                        /\ waitFor[c] = NoCtl
    BY <1>1, ConstantsAssumption DEF SessionInv, LoginsNumbered, TypeOK, Ctl
  <1> HIDE DEF new
  <1>a. /\ NoCtl \notin Ctl /\ r # NoRun /\ logins \in Int
        /\ new = logins + 1
    BY ConstantsAssumption DEF NoCtl, Ctl, TypeOK, new
  <1>b. /\ runID \in [Ctl -> RunID \cup {NoRun}] /\ waitFor \in [Ctl -> Ctl \cup {NoCtl}]
        /\ phase \in [Ctl -> Phases] /\ ctlsByRunID \in [RunID -> Ctl \cup {NoCtl}]
    BY DEF TypeOK
  <1>3. LoginsNumbered'
    BY <1>1, <1>2, <1>a, <1>b DEF SessionInv, LoginsNumbered
  <1>4. RegistryNewest'
    <2> SUFFICES ASSUME NEW q \in RunID, ctlsByRunID'[q] # NoCtl
                 PROVE  /\ runID'[ctlsByRunID'[q]] = q
                        /\ \A c \in Ctl : runID'[c] = q => c <= ctlsByRunID'[q]
      BY DEF RegistryNewest
    <2>1. CASE q = r
      BY <2>1, <1>1, <1>2, <1>a, <1>b
    <2>2. CASE q # r
      <3>1. ctlsByRunID'[q] = ctlsByRunID[q] /\ ctlsByRunID[q] \in Ctl
        BY <2>2, <1>1, <1>b
      <3>2. \A c \in Ctl : c # new => runID'[c] = runID[c]
        BY <1>1, <1>b
      <3>3. runID'[new] = r /\ runID[new] = NoRun
        BY <1>1, <1>2, <1>a, <1>b
      <3> QED
        BY <3>1, <3>2, <3>3, <2>2, <1>a, ConstantsAssumption
           DEF SessionInv, RegistryNewest
    <2> QED
      BY <2>1, <2>2
  <1>5. UnfinishedRegistered'
    BY <1>1, <1>2, <1>a, <1>b DEF SessionInv, UnfinishedRegistered
  <1>6. WaitsForNewest'
    <2> SUFFICES ASSUME NEW d \in Ctl
                 PROVE  /\ waitFor'[d] # NoCtl =>
                             waitFor'[d] < d /\ runID'[waitFor'[d]] = runID'[d]
                        /\ ~shut => \A c \in Ctl :
                             c < d /\ runID'[c] = runID'[d] /\ runID'[d] # NoRun =>
                               \/ phase'[c] \in Finished
                               \/ waitFor'[d] # NoCtl /\ c <= waitFor'[d]
      BY <1>1 DEF WaitsForNewest
    <2>1. CASE d = new
      <3>1. waitFor'[d] = ctlsByRunID[r] /\ runID'[d] = r
        BY <2>1, <1>1, <1>b
      <3>2. ctlsByRunID[r] # NoCtl =>
              /\ ctlsByRunID[r] \in Ctl /\ runID[ctlsByRunID[r]] = r
              /\ ctlsByRunID[r] <= logins
        BY <1>2, <1>a, <1>b DEF SessionInv, RegistryNewest
      <3>3. ASSUME NEW c \in Ctl, c < d PROVE phase'[c] = phase[c] /\ runID'[c] = runID[c]
        BY <3>3, <2>1, <1>1, <1>b
      <3>4. ASSUME ~shut, NEW c \in Ctl, c < d, runID[c] = r
            PROVE  \/ phase[c] \in Finished
                   \/ ctlsByRunID[r] # NoCtl /\ c <= ctlsByRunID[r]
        <4>1. phase[c] \in Finished \/ ctlsByRunID[r] # NoCtl
          BY <3>4, <1>a DEF SessionInv, UnfinishedRegistered
        <4>2. ctlsByRunID[r] # NoCtl => c <= ctlsByRunID[r]
          BY <3>4 DEF SessionInv, RegistryNewest
        <4> QED
          BY <4>1, <4>2
      <3>5. ASSUME waitFor'[d] # NoCtl
            PROVE  waitFor'[d] < d /\ runID'[waitFor'[d]] = runID'[d]
        <4>1. ctlsByRunID[r] \in Ctl /\ ctlsByRunID[r] < d
          BY <3>5, <3>1, <3>2, <2>1, <1>a, <1>1
        <4> QED
          BY <4>1, <3>1, <3>2, <3>3, <3>5
      <3>6. ASSUME ~shut, NEW c \in Ctl, c < d, runID'[c] = runID'[d]
            PROVE  \/ phase'[c] \in Finished
                   \/ waitFor'[d] # NoCtl /\ c <= waitFor'[d]
        <4>1. runID[c] = r /\ phase'[c] = phase[c]
          BY <3>6, <3>1, <3>3
        <4> QED
          BY <4>1, <3>6, <3>4, <3>1
      <3> QED
        BY <3>5, <3>6
    <2>2. CASE d # new
      <3>1. waitFor'[d] = waitFor[d] /\ runID'[d] = runID[d]
        BY <2>2, <1>1, <1>b
      <3>2. \A c \in Ctl : c # new => phase'[c] = phase[c] /\ runID'[c] = runID[c]
        BY <1>1, <1>b
      <3>3. ASSUME waitFor[d] # NoCtl PROVE waitFor[d] < d /\ runID'[waitFor[d]] = runID[d]
        <4>1. waitFor[d] \in Ctl /\ waitFor[d] < d /\ runID[waitFor[d]] = runID[d]
          BY <3>3, <1>b DEF SessionInv, WaitsForNewest
        <4>2. waitFor[d] # new
          BY <4>1, <1>1, <1>a, <1>2, <2>2, <3>3 DEF SessionInv, WaitsForNewest
        <4> QED
          BY <4>1, <4>2, <3>2
      <3>4. ASSUME NEW c \in Ctl, c < d, runID[d] # NoRun PROVE c # new
        BY <3>4, <1>1, <1>2, <1>a
      <3> QED
        BY <3>1, <3>2, <3>3, <3>4 DEF SessionInv, WaitsForNewest
    <2> QED
      BY <2>1, <2>2
  <1>7. OneControlPerClient'
    <2> SUFFICES ASSUME ~shut, NEW c \in Ctl, NEW d \in Ctl,
                        c < d, runID'[c] = runID'[d],
                        phase'[d] \in Started \cup Finished
                 PROVE  phase'[c] \in Finished
      BY <1>1 DEF OneControlPerClient
    <2>1. d # new
      BY <1>1, <1>b DEF Started, Finished
    <2>2. phase[d] \in Started \cup Finished /\ d <= logins
      BY <2>1, <1>1, <1>2, <1>a, <1>b DEF Started, Finished
    <2>3. c # new
      BY <2>2, <1>1, <1>a
    <2> QED
      BY <2>1, <2>2, <2>3, <1>1, <1>b DEF SessionInv, OneControlPerClient
  <1> QED
    BY <1>3, <1>4, <1>5, <1>6, <1>7 DEF SessionInv

\* StartControl: the control it waited for is the newest of the earlier ones,
\* and it finished; the older ones had to finish before that one started.
LEMMA SessionStart ==
    ASSUME TypeOK, SessionInv, NEW e \in Ctl, StartControl(e)
    PROVE  SessionInv'
  <1> USE DEF SessionInv
  <1>1. /\ phase[e] = "waiting"
        /\ waitFor[e] # NoCtl => phase[waitFor[e]] \in Finished
        /\ phase' = [phase EXCEPT ![e] = "running"]
        /\ UNCHANGED <<logins, ctlsByRunID, runID, waitFor, shut>>
    BY DEF StartControl
  <1>2. \A c \in Ctl : c # e => phase'[c] = phase[c]
    BY <1>1 DEF TypeOK
  <1>3. phase'[e] = "running" /\ phase[e] \notin Finished /\ "running" \notin Finished
    BY <1>1 DEF TypeOK, Finished
  <1>4. LoginsNumbered' /\ RegistryNewest' /\ UnfinishedRegistered' /\ WaitsForNewest'
    BY <1>1, <1>2, <1>3
       DEF LoginsNumbered, RegistryNewest, UnfinishedRegistered, WaitsForNewest
  <1>5. OneControlPerClient'
    <2> SUFFICES ASSUME ~shut, NEW c \in Ctl, NEW d \in Ctl,
                        c < d, runID[c] = runID[d],
                        phase'[d] \in Started \cup Finished
                 PROVE  phase'[c] \in Finished
      BY <1>1 DEF OneControlPerClient
    <2>1. c # e
      BY <1>1, <1>3, <1>2, ConstantsAssumption
         DEF OneControlPerClient, Ctl, TypeOK, Started
    <2>2. CASE d # e
      BY <2>1, <2>2, <1>2 DEF OneControlPerClient
    <2>3. CASE d = e
      <3>1. runID[e] # NoRun
        BY <1>1, ConstantsAssumption DEF LoginsNumbered, TypeOK, Ctl
      <3>2. CASE phase[c] \in Finished
        BY <3>2, <2>1, <1>2
      <3>3. CASE waitFor[e] # NoCtl /\ c <= waitFor[e]
        <4>1. /\ waitFor[e] \in Ctl /\ runID[waitFor[e]] = runID[e]
              /\ phase[waitFor[e]] \in Finished
          BY <3>3, <1>1 DEF TypeOK, WaitsForNewest
        <4>2. phase[c] \in Finished
          BY <4>1, <3>3, <2>3 DEF OneControlPerClient, Ctl
        <4> QED
          BY <4>2, <2>1, <1>2
      <3> QED
        BY <3>1, <3>2, <3>3, <2>3 DEF WaitsForNewest
    <2> QED
      BY <2>2, <2>3
  <1> QED
    BY <1>4, <1>5

\* A step that only moves one control on, to cleanup or to finished, and
\* leaves the registry alone.
LEMMA SessionAdvance ==
    ASSUME TypeOK, SessionInv, NEW e \in Ctl, NEW p \in {"cleanup", "closed"},
           phase[e] \in Started, p = "cleanup" \/ p \in Finished,
           phase' = [phase EXCEPT ![e] = p],
           UNCHANGED <<logins, ctlsByRunID, runID, waitFor, shut>>
    PROVE  SessionInv'
  <1>1. \A c \in Ctl : c # e => phase'[c] = phase[c]
    BY DEF TypeOK
  <1>2. phase'[e] = p /\ phase[e] # "none" /\ phase[e] \notin Finished /\ p # "none"
    BY DEF TypeOK, Started, Finished
  <1>3. \A c \in Ctl : phase[c] \in Finished => phase'[c] \in Finished
    BY <1>1, <1>2
  <1>4. \A c \in Ctl : phase'[c] \in Started \cup Finished
                         => phase[c] \in Started \cup Finished
    BY <1>1, <1>2
  <1>5. LoginsNumbered' /\ RegistryNewest'
    BY <1>1, <1>2 DEF SessionInv, LoginsNumbered, RegistryNewest
  <1>6. UnfinishedRegistered' /\ WaitsForNewest'
    BY <1>3 DEF SessionInv, UnfinishedRegistered, WaitsForNewest
  <1>7. OneControlPerClient'
    BY <1>3, <1>4 DEF SessionInv, OneControlPerClient
  <1> QED
    BY <1>5, <1>6, <1>7 DEF SessionInv

\* DelControl: the entry goes only if it is the finished control's own; every
\* older control of the run id has finished before.
LEMMA SessionDel ==
    ASSUME TypeOK, SessionInv, NEW e \in Ctl, DelControl(e)
    PROVE  SessionInv'
  <1>1. /\ phase[e] = "closed"
        /\ phase' = [phase EXCEPT ![e] = "gone"]
        /\ ctlsByRunID' = [r \in RunID |-> IF r = runID[e] /\ ctlsByRunID[r] = e
                                           THEN NoCtl ELSE ctlsByRunID[r]]
        /\ UNCHANGED <<logins, runID, waitFor, shut>>
    BY DEF DelControl
  <1>2. \A c \in Ctl : c # e => phase'[c] = phase[c]
    BY <1>1 DEF TypeOK
  <1>3. /\ phase'[e] = "gone" /\ phase'[e] \in Finished /\ phase[e] \in Finished
        /\ phase[e] # "none"
    BY <1>1 DEF TypeOK, Finished
  <1>4. LoginsNumbered' /\ WaitsForNewest' /\ OneControlPerClient'
    BY <1>1, <1>2, <1>3
       DEF SessionInv, LoginsNumbered, WaitsForNewest, OneControlPerClient
  <1>5. RegistryNewest'
    BY <1>1 DEF SessionInv, RegistryNewest, TypeOK
  <1>6. UnfinishedRegistered'
    <2> SUFFICES ASSUME ~shut, NEW c \in Ctl, runID[c] # NoRun,
                        phase'[c] \notin Finished
                 PROVE  ctlsByRunID'[runID[c]] # NoCtl
      BY <1>1 DEF UnfinishedRegistered
    <2>1. c # e /\ phase[c] \notin Finished /\ runID[c] \in RunID
      BY <1>2, <1>3 DEF TypeOK
    <2>2. ctlsByRunID[runID[c]] # NoCtl
      BY <2>1 DEF SessionInv, UnfinishedRegistered
    <2>3. ~(runID[c] = runID[e] /\ ctlsByRunID[runID[c]] = e)
      <3> SUFFICES ASSUME runID[c] = runID[e], ctlsByRunID[runID[c]] = e
                   PROVE  FALSE
        OBVIOUS
      <3>1. c <= e
        BY <2>1, <2>2 DEF SessionInv, RegistryNewest
      <3>2. c < e
        BY <3>1, <2>1 DEF Ctl
      <3> QED
        BY <3>2, <2>1, <1>3 DEF SessionInv, OneControlPerClient
    <2> QED
      BY <2>1, <2>2, <2>3, <1>1
  <1> QED
    BY <1>4, <1>5, <1>6 DEF SessionInv

\* ShutDown empties the registry and gives up what holds while it is kept.
LEMMA SessionShutDown ==
    ASSUME TypeOK, SessionInv, ShutDown
    PROVE  SessionInv'
  BY DEF ShutDown, SessionInv, LoginsNumbered, RegistryNewest,
         UnfinishedRegistered, WaitsForNewest, OneControlPerClient

LEMMA SessionUnchanged ==
    ASSUME SessionInv, UNCHANGED sessionVars
    PROVE  SessionInv'
  BY DEF sessionVars, SessionInv, LoginsNumbered, RegistryNewest,
         UnfinishedRegistered, WaitsForNewest, OneControlPerClient

LEMMA SessionNext == TypeOK /\ SessionInv /\ [Next]_vars => SessionInv'
  <1> SUFFICES ASSUME TypeOK, SessionInv, [Next]_vars PROVE SessionInv'
    OBVIOUS
  <1>1. ASSUME NEW r \in RunID, Login(r) PROVE SessionInv'
    BY <1>1, SessionLogin
  <1>2. CASE ShutDown
    BY <1>2, SessionShutDown
  <1>3. ASSUME NEW c \in Ctl, Peer(c) \/ Handler(c) \/ Tick(c) \/ HeartbeatExpire(c)
        PROVE  SessionInv'
    <2>1. UNCHANGED sessionVars
      BY <1>3 DEF Peer, Handler, Tick, HeartbeatExpire, PeerClose, HandlePing,
         HandleNewProxy, HandleCloseProxy, CheckExist, RunProxy, RunProxyFails,
         AddProxy, InsertProxy, UndoRun, ReturnQuota, DelProxy
    <2> QED
      BY <2>1, SessionUnchanged
  <1>4. ASSUME NEW c \in Ctl, StartControl(c) PROVE SessionInv'
    BY <1>4, SessionStart
  <1>5. ASSUME NEW c \in Ctl, DispatcherDone(c) PROVE SessionInv'
    BY <1>5, SessionAdvance DEF DispatcherDone, Started
  <1>6. ASSUME NEW c \in Ctl, CloseDone(c) PROVE SessionInv'
    BY <1>6, SessionAdvance DEF CloseDone, Started, Finished
  <1>7. ASSUME NEW c \in Ctl, DelControl(c) PROVE SessionInv'
    BY <1>7, SessionDel
  <1>8. ASSUME NEW c \in Ctl, NEW n \in Name, CleanupProxy(c, n) PROVE SessionInv'
    BY <1>8, SessionUnchanged DEF CleanupProxy
  <1>9. CASE UNCHANGED vars
    BY <1>9, SessionUnchanged DEF vars
  <1> QED
    BY <1>1, <1>2, <1>3, <1>4, <1>5, <1>6, <1>7, <1>8, <1>9 DEF Next, Worker

\* A client never has two started controls: however logins, replacements,
\* cleanups and Del interleave, a control starts only after every earlier one
\* of its run id has given everything back.
THEOREM SessionsExclusive == Spec => []OneControlPerClient
  <1>1. TypeOK /\ SessionInv /\ [Next]_vars => (TypeOK /\ SessionInv)'
    BY TypeNext, SessionNext
  <1>2. Init => TypeOK /\ SessionInv
    BY TypeInit, SessionInit
  <1>3. SessionInv => OneControlPerClient
    BY DEF SessionInv
  <1> QED
    BY <1>1, <1>2, <1>3, PTL DEF Spec

-----------------------------------------------------------------------------
(* Proxies *)

LEMMA ProxyInit == Init => ProxyInv
  <1> SUFFICES ASSUME Init PROVE ProxyInv
    OBVIOUS
  <1>1. NoCtl \notin Ctl /\ NoKind \notin NamedKind
    BY DEF NoCtl, Ctl, NoKind, NamedKind
  <1>2. UnstartedEmpty /\ CleanupOnlyDeletes
    BY DEF Init, UnstartedEmpty, CleanupOnlyDeletes, Idle
  <1>3. HandlerState
    BY DEF Init, HandlerState, Idle
  <1>4. NamesAgree /\ NoStrandedProxy
    BY DEF Init, NamesAgree, NoStrandedProxy
  <1>5. SecretTablesExact
    BY <1>1 DEF Init, SecretTablesExact
  <1> QED
    BY <1>2, <1>3, <1>4, <1>5 DEF ProxyInv

\* Steps that touch no handler and no table: no control stops being live, and
\* a control enters its cleanup only from an idle read loop.
LEMMA ProxyQuiet ==
    ASSUME TypeOK, ProxyInv, UNCHANGED <<task, proxies, running, pxys, byName>>,
           \A c \in Ctl : Live(c) => Live(c)',
           \A c \in Ctl : phase'[c] = "cleanup" => phase[c] = "cleanup" \/ task[c] = Idle
    PROVE  ProxyInv'
  <1> USE DEF ProxyInv
  <1>1. UnstartedEmpty'
    BY DEF UnstartedEmpty
  <1>2. CleanupOnlyDeletes'
    BY DEF CleanupOnlyDeletes, Idle
  <1>3. HandlerState'
    BY DEF HandlerState
  <1>4. NamesAgree'
    <2>1. \A n \in Name : pxys[n] # NoCtl => phase'[pxys[n]] \in Started
      BY DEF NamesAgree, Live, TypeOK
    <2> QED
      BY <2>1 DEF NamesAgree, Live
  <1>5. NoStrandedProxy'
    BY DEF NoStrandedProxy
  <1>6. SecretTablesExact'
    BY DEF SecretTablesExact
  <1> QED
    BY <1>1, <1>2, <1>3, <1>4, <1>5, <1>6

\* A control in a handler is live, and one past the first step of a
\* registration is not in its cleanup.
LEMMA BusyLive ==
    ASSUME TypeOK, ProxyInv, NEW c \in Ctl, task[c].op # "idle"
    PROVE  /\ Live(c)
           /\ task[c].op # "del" => phase[c] = "running"
  BY DEF ProxyInv, UnstartedEmpty, CleanupOnlyDeletes, Live, Started, Idle

\* The handler of c moves to another step and no table changes.
LEMMA ProxyGoto ==
    ASSUME TypeOK, ProxyInv, NEW c \in Ctl,
           NEW op \in {"run", "fail"}, Goto(c, op),
           task[c].op \in {"exist", "run"},
           op = "run" => pxys[task[c].name] = NoCtl,
           UNCHANGED <<phase, proxies, running, pxys, byName>>
    PROVE  ProxyInv'
  <1> USE DEF ProxyInv
  <1>1. /\ \A d \in Ctl : d # c => task'[d] = task[d]
        /\ task'[c].op = op /\ task'[c].name = task[c].name
        /\ task'[c].kind = task[c].kind
    BY GotoTask DEF Ops
  <1>2. Live(c) /\ phase[c] = "running" /\ task[c].name \in Name
    BY BusyLive, BusyTask
  <1>3. UnstartedEmpty'
    BY <1>1, <1>2 DEF UnstartedEmpty, Live
  <1>4. CleanupOnlyDeletes'
    BY <1>1, <1>2 DEF CleanupOnlyDeletes
  <1>5. HandlerState'
    <2>1. op = "run" => /\ proxies[c][task[c].name] = NoKind
                        /\ running[c][task[c].name] = NoKind
      BY <1>2 DEF NamesAgree, NoStrandedProxy, NoCtl, Ctl
    <2> QED
      BY <1>1, <2>1 DEF HandlerState
  <1>6. NamesAgree'
    <2>1. ASSUME NEW n \in Name, pxys[n] # NoCtl
          PROVE  LET d == pxys[n]
                 IN  /\ phase[d] \in Started
                     /\ \/ proxies[d][n] # NoKind
                        \/ task'[d].op = "insert" /\ task'[d].name = n
      <3>1. pxys[n] \in Ctl
        BY <2>1 DEF TypeOK
      <3> QED
        BY <3>1, <2>1, <1>1 DEF NamesAgree, Live
    <2> QED
      BY <2>1 DEF NamesAgree, Live
  <1>7. NoStrandedProxy'
    BY <1>1 DEF NoStrandedProxy, Live
  <1>8. SecretTablesExact'
    BY DEF SecretTablesExact
  <1> QED
    BY <1>3, <1>4, <1>5, <1>6, <1>7, <1>8

\* RunProxy: the free entry of the table becomes the new proxy's.
LEMMA ProxyRun ==
    ASSUME TypeOK, ProxyInv, NEW c \in Ctl, RunProxy(c)
    PROVE  ProxyInv'
  <1> USE DEF ProxyInv
  <1> DEFINE m == task[c].name
             k == task[c].kind
  <1>1. /\ \A d \in Ctl : d # c => task'[d] = task[d]
        /\ task'[c].op = "add" /\ task'[c].name = m /\ task'[c].kind = k
    BY GotoTask DEF RunProxy, Ops
  <1>2. /\ Live(c) /\ phase[c] = "running" /\ m \in Name /\ k \in AllKinds
        /\ k # NoKind
    BY BusyLive, BusyTask DEF RunProxy, AllKinds, NamedKind, NoKind
  <1>3. /\ proxies[c][m] = NoKind /\ running[c][m] = NoKind
        /\ UNCHANGED <<phase, proxies, pxys>>
        /\ running' = [running EXCEPT ![c][m] = k]
        /\ k \in NamedKind => byName[k][m] = NoCtl
        /\ byName' = [j \in NamedKind |->
                        IF j = k THEN [byName[j] EXCEPT ![m] = c] ELSE byName[j]]
    BY DEF RunProxy, HandlerState, sessionVars
  <1> HIDE DEF m, k
  <1>4. /\ running'[c][m] = k
        /\ \A d \in Ctl, n \in Name : d # c \/ n # m => running'[d][n] = running[d][n]
    BY <1>2, <1>3 DEF TypeOK
  <1>5. /\ k \in NamedKind => byName'[k][m] = c
        /\ \A j \in NamedKind, n \in Name : j # k \/ n # m => byName'[j][n] = byName[j][n]
    BY <1>2, <1>3 DEF TypeOK
  <1>6. UnstartedEmpty'
    BY <1>1, <1>2, <1>3, <1>4 DEF UnstartedEmpty, Live
  <1>7. CleanupOnlyDeletes'
    BY <1>1, <1>2, <1>3 DEF CleanupOnlyDeletes
  <1>8. HandlerState'
    <2>1. \A d \in Ctl : d # c => running'[d] = running[d]
      BY <1>3 DEF TypeOK
    <2> QED
      BY <1>1, <1>3, <1>4, <2>1 DEF HandlerState
  <1>9. NamesAgree'
    <2>1. task[c].op # "insert"
      BY DEF RunProxy
    <2> QED
      BY <1>1, <1>3, <2>1 DEF NamesAgree, Live, TypeOK
  <1>10. NoStrandedProxy'
    <2>1. task[c].op = "run"
      BY DEF RunProxy
    <2> QED
      BY <1>1, <1>2, <1>3, <1>4, <2>1 DEF NoStrandedProxy, Live
  <1>11. SecretTablesExact'
    <2> SUFFICES ASSUME NEW j \in NamedKind, NEW n \in Name, NEW d \in Ctl
                 PROVE  byName'[j][n] = d <=> running'[d][n] = j
      BY DEF SecretTablesExact
    <2>1. byName[j][n] = d <=> running[d][n] = j
      BY DEF SecretTablesExact
    <2>2. NoKind # j /\ NoCtl # d
      BY DEF NoKind, NamedKind, NoCtl, Ctl
    <2>3. CASE n # m
      BY <2>1, <2>3, <1>4, <1>5
    <2>4. CASE n = m /\ d = c
      BY <2>1, <2>2, <2>4, <1>3, <1>4, <1>5, <1>2
    <2>5. CASE n = m /\ d # c
      BY <2>1, <2>2, <2>5, <1>3, <1>4, <1>5
    <2> QED
      BY <2>3, <2>4, <2>5
  <1> QED
    BY <1>6, <1>7, <1>8, <1>9, <1>10, <1>11

\* AddProxy: the second look at the name decides between insert and undo.
LEMMA ProxyAdd ==
    ASSUME TypeOK, ProxyInv, NEW c \in Ctl, AddProxy(c)
    PROVE  ProxyInv'
  <1> USE DEF ProxyInv
  <1> DEFINE m == task[c].name
  <1>1. /\ \A d \in Ctl : d # c => task'[d] = task[d]
        /\ task'[c].op = IF pxys[m] = NoCtl THEN "insert" ELSE "undo"
        /\ task'[c].name = m /\ task'[c].kind = task[c].kind
    BY GotoTask DEF AddProxy, Ops
  <1>2. Live(c) /\ phase[c] = "running" /\ m \in Name /\ task[c].op = "add"
    BY BusyLive, BusyTask DEF AddProxy
  <1>3. /\ proxies[c][m] = NoKind /\ running[c][m] = task[c].kind
        /\ UNCHANGED <<phase, proxies, running, byName>>
        /\ pxys' = IF pxys[m] = NoCtl THEN [pxys EXCEPT ![m] = c] ELSE pxys
    BY DEF AddProxy, HandlerState, sessionVars
  <1> HIDE DEF m
  <1>4. /\ \A n \in Name : n # m => pxys'[n] = pxys[n]
        /\ pxys[m] = NoCtl => pxys'[m] = c
        /\ pxys[m] # NoCtl => pxys'[m] = pxys[m]
        /\ \A n \in Name : pxys'[n] # NoCtl => pxys'[n] \in Ctl
    BY <1>2, <1>3 DEF TypeOK
  <1>5. UnstartedEmpty'
    BY <1>1, <1>2, <1>3 DEF UnstartedEmpty, Live
  <1>6. CleanupOnlyDeletes'
    BY <1>1, <1>2, <1>3 DEF CleanupOnlyDeletes
  <1>7. HandlerState'
    <2> SUFFICES ASSUME NEW d \in Ctl
                 PROVE  LET t == task'[d] IN
                   /\ t.op = "run" => /\ proxies[d][t.name] = NoKind
                                      /\ running[d][t.name] = NoKind
                   /\ t.op \in {"add", "undo", "insert"} =>
                         proxies[d][t.name] = NoKind /\ running[d][t.name] = t.kind
                   /\ t.op = "insert" => pxys'[t.name] = d
                   /\ t.op = "del" => /\ proxies[d][t.name] # NoKind
                                      /\ running[d][t.name] = NoKind
      BY <1>3 DEF HandlerState
    <2>1. CASE d = c
      BY <2>1, <1>1, <1>3, <1>4
    <2>2. CASE d # c
      <3>1. task[d].op = "insert" => /\ task[d].name \in Name /\ pxys[task[d].name] = d
                                     /\ d # NoCtl
        BY BusyTask DEF HandlerState, NoCtl, Ctl
      <3>2. task[d].op = "insert" => pxys'[task[d].name] = d
        BY <3>1, <1>4
      <3> QED
        BY <2>2, <3>2, <1>1 DEF HandlerState
    <2> QED
      BY <2>1, <2>2
  <1>8. NamesAgree'
    <2>1. ASSUME NEW d \in Ctl, NEW n \in Name, proxies[d][n] # NoKind
          PROVE  pxys'[n] = d
      BY <2>1, <1>4 DEF NamesAgree, NoCtl, Ctl
    <2>2. ASSUME NEW n \in Name, pxys'[n] # NoCtl
          PROVE  LET d == pxys'[n]
                 IN  /\ phase[d] \in Started
                     /\ \/ proxies[d][n] # NoKind
                        \/ task'[d].op = "insert" /\ task'[d].name = n
      <3>1. CASE n = m /\ pxys[m] = NoCtl
        BY <3>1, <1>1, <1>2, <1>4 DEF Live
      <3>2. CASE n # m \/ pxys[m] # NoCtl
        <4>1. pxys'[n] = pxys[n] /\ pxys[n] \in Ctl
          BY <3>2, <2>2, <1>4
        <4> QED
          BY <4>1, <2>2, <1>1, <1>2 DEF NamesAgree, Live
      <3> QED
        BY <3>1, <3>2
    <2> QED
      BY <2>1, <2>2, <1>3 DEF NamesAgree, Live
  <1>9. NoStrandedProxy'
    BY <1>1, <1>2, <1>3 DEF NoStrandedProxy, Live
  <1>10. SecretTablesExact'
    BY <1>3 DEF SecretTablesExact
  <1> QED
    BY <1>5, <1>6, <1>7, <1>8, <1>9, <1>10

\* InsertProxy: the name that pxyManager.Add gave the control enters its table.
LEMMA ProxyInsert ==
    ASSUME TypeOK, ProxyInv, NEW c \in Ctl, InsertProxy(c)
    PROVE  ProxyInv'
  <1> USE DEF ProxyInv
  <1> DEFINE m == task[c].name
             k == task[c].kind
  <1>1. /\ task' = [task EXCEPT ![c] = Idle]
        /\ proxies' = [proxies EXCEPT ![c][m] = k]
        /\ running[c][m] = k /\ pxys[m] = c
        /\ UNCHANGED <<phase, running, pxys, byName>>
    BY DEF InsertProxy, HandlerState, sessionVars
  <1>2. /\ Live(c) /\ phase[c] = "running" /\ m \in Name /\ task[c].op = "insert"
        /\ k # NoKind
    BY BusyLive, BusyTask DEF InsertProxy, AllKinds, NamedKind, NoKind
  <1> HIDE DEF m, k
  <1>3. /\ task'[c] = Idle
        /\ \A d \in Ctl : d # c => task'[d] = task[d] /\ proxies'[d] = proxies[d]
        /\ proxies'[c][m] = k
        /\ \A n \in Name : n # m => proxies'[c][n] = proxies[c][n]
    BY <1>1, <1>2 DEF TypeOK
  <1>4. UnstartedEmpty'
    BY <1>1, <1>2, <1>3 DEF UnstartedEmpty, Live
  <1>5. CleanupOnlyDeletes'
    BY <1>1, <1>2, <1>3 DEF CleanupOnlyDeletes
  <1>6. HandlerState'
    BY <1>1, <1>3 DEF HandlerState, Idle
  <1>7. NamesAgree'
    <2>1. task[c].op = "insert" /\ task[c].name = m
      BY <1>2 DEF m
    <2> QED
      BY <2>1, <1>1, <1>2, <1>3 DEF NamesAgree, Live, TypeOK
  <1>8. NoStrandedProxy'
    <2>1. task[c].op = "insert" /\ task[c].name = m /\ task[c].kind = k
      BY <1>2 DEF m, k
    <2> QED
      BY <2>1, <1>1, <1>2, <1>3 DEF NoStrandedProxy, Live
  <1>9. SecretTablesExact'
    BY <1>1 DEF SecretTablesExact
  <1> QED
    BY <1>4, <1>5, <1>6, <1>7, <1>8, <1>9

\* Giving back what proxy n of c holds: the entry of the table deleted by name
\* is the proxy's own, because the tables hold exactly what is running.
LEMMA ClosePxyExact ==
    ASSUME TypeOK, SecretTablesExact, NEW c \in Ctl, NEW m \in Name,
           NEW k \in AllKinds, running[c][m] = k, ClosePxy(c, m, k)
    PROVE  /\ running'[c][m] = NoKind
           /\ \A d \in Ctl, n \in Name : d # c \/ n # m => running'[d][n] = running[d][n]
           /\ \A d \in Ctl : d # c => running'[d] = running[d]
           /\ SecretTablesExact'
  <1>1. /\ running' = [running EXCEPT ![c][m] = NoKind]
        /\ byName' = [j \in NamedKind |->
                        IF j = k THEN [byName[j] EXCEPT ![m] = NoCtl] ELSE byName[j]]
    BY DEF ClosePxy
  <1>2. /\ running'[c][m] = NoKind
        /\ \A d \in Ctl, n \in Name : d # c \/ n # m => running'[d][n] = running[d][n]
        /\ \A d \in Ctl : d # c => running'[d] = running[d]
    BY <1>1 DEF TypeOK
  <1>3. /\ k \in NamedKind => byName'[k][m] = NoCtl
        /\ \A j \in NamedKind, n \in Name : j # k \/ n # m => byName'[j][n] = byName[j][n]
    BY <1>1 DEF TypeOK
  <1>4. SecretTablesExact'
    <2> SUFFICES ASSUME NEW j \in NamedKind, NEW n \in Name, NEW d \in Ctl
                 PROVE  byName'[j][n] = d <=> running'[d][n] = j
      BY DEF SecretTablesExact
    <2>1. byName[j][n] = d <=> running[d][n] = j
      BY DEF SecretTablesExact
    <2>2. NoKind # j /\ NoCtl # d
      BY DEF NoKind, NamedKind, NoCtl, Ctl
    <2>3. byName[j][m] = c <=> running[c][m] = j
      BY DEF SecretTablesExact
    <2>4. CASE n # m
      BY <2>1, <2>4, <1>2, <1>3
    <2>5. CASE n = m /\ d = c
      BY <2>1, <2>2, <2>5, <1>2, <1>3
    <2>6. CASE n = m /\ d # c
      BY <2>1, <2>2, <2>3, <2>6, <1>2, <1>3
    <2> QED
      BY <2>4, <2>5, <2>6
  <1> QED
    BY <1>2, <1>4

\* UndoRun: the loser of a race for the name closes what it had opened.
LEMMA ProxyUndo ==
    ASSUME TypeOK, ProxyInv, NEW c \in Ctl, UndoRun(c)
    PROVE  ProxyInv'
  <1> USE DEF ProxyInv
  <1> DEFINE m == task[c].name
             k == task[c].kind
  <1>1. /\ \A d \in Ctl : d # c => task'[d] = task[d]
        /\ task'[c].op = "fail" /\ task'[c].name = m
    BY GotoTask DEF UndoRun, Ops
  <1>2. /\ Live(c) /\ phase[c] = "running" /\ m \in Name /\ k \in AllKinds
        /\ task[c].op = "undo"
    BY BusyLive, BusyTask DEF UndoRun
  <1>3. /\ proxies[c][m] = NoKind /\ running[c][m] = k
        /\ ClosePxy(c, m, k)
        /\ UNCHANGED <<phase, proxies, pxys>>
    BY DEF UndoRun, HandlerState, sessionVars
  <1>4. /\ running'[c][m] = NoKind
        /\ \A d \in Ctl, n \in Name : d # c \/ n # m => running'[d][n] = running[d][n]
        /\ \A d \in Ctl : d # c => running'[d] = running[d]
        /\ SecretTablesExact'
    BY <1>2, <1>3, ClosePxyExact
  <1>5. task[c].name = m
    OBVIOUS
  <1> HIDE DEF m, k
  <1>6. UnstartedEmpty'
    BY <1>1, <1>2, <1>3, <1>4 DEF UnstartedEmpty, Live
  <1>7. CleanupOnlyDeletes'
    BY <1>1, <1>2, <1>3 DEF CleanupOnlyDeletes
  <1>8. HandlerState'
    BY <1>1, <1>3, <1>4 DEF HandlerState
  <1>9. NamesAgree'
    BY <1>1, <1>2, <1>3 DEF NamesAgree, Live, TypeOK
  <1>10. NoStrandedProxy'
    BY <1>1, <1>2, <1>3, <1>4, <1>5 DEF NoStrandedProxy, Live
  <1> QED
    BY <1>4, <1>6, <1>7, <1>8, <1>9, <1>10

\* HandleCloseProxy and CleanupProxy: a registered proxy is closed and waits
\* for its name to be deleted.
LEMMA ProxyClosing ==
    ASSUME TypeOK, ProxyInv, NEW c \in Ctl, NEW m \in Name,
           Live(c), task[c] = Idle, proxies[c][m] # NoKind,
           ClosePxy(c, m, proxies[c][m]),
           task' = [task EXCEPT ![c] = [op |-> "del", name |-> m,
                                        kind |-> proxies[c][m]]],
           UNCHANGED <<phase, proxies, pxys>>
    PROVE  ProxyInv'
  <1> USE DEF ProxyInv
  <1>1. /\ \A d \in Ctl : d # c => task'[d] = task[d]
        /\ task'[c].op = "del" /\ task'[c].name = m
        /\ task[c].op = "idle"
    BY DEF TypeOK, Idle
  <1>2. proxies[c][m] \in AllKinds /\ running[c][m] = proxies[c][m]
    BY <1>1 DEF NoStrandedProxy, TypeOK
  <1>3. /\ running'[c][m] = NoKind
        /\ \A d \in Ctl, n \in Name : d # c \/ n # m => running'[d][n] = running[d][n]
        /\ \A d \in Ctl : d # c => running'[d] = running[d]
        /\ SecretTablesExact'
    BY <1>2, ClosePxyExact
  <1>4. UnstartedEmpty'
    BY <1>1, <1>3 DEF UnstartedEmpty, Live
  <1>5. CleanupOnlyDeletes'
    BY <1>1 DEF CleanupOnlyDeletes
  <1>6. HandlerState'
    BY <1>1, <1>3 DEF HandlerState
  <1>7. NamesAgree'
    BY <1>1 DEF NamesAgree, Live, TypeOK
  <1>8. NoStrandedProxy'
    BY <1>1, <1>3 DEF NoStrandedProxy, Live
  <1> QED
    BY <1>3, <1>4, <1>5, <1>6, <1>7, <1>8

\* DelProxy: the name that is deleted is the control's own.
LEMMA ProxyDel ==
    ASSUME TypeOK, ProxyInv, NEW c \in Ctl, DelProxy(c)
    PROVE  ProxyInv'
  <1> USE DEF ProxyInv
  <1> DEFINE m == task[c].name
  <1>1. /\ task' = [task EXCEPT ![c] = Idle]
        /\ proxies' = [proxies EXCEPT ![c][m] = NoKind]
        /\ pxys' = [pxys EXCEPT ![m] = NoCtl]
        /\ proxies[c][m] # NoKind /\ running[c][m] = NoKind
        /\ UNCHANGED <<phase, running, byName>>
    BY DEF DelProxy, HandlerState, sessionVars
  <1>2. Live(c) /\ m \in Name /\ task[c].op = "del" /\ task[c].name = m
    BY BusyLive, BusyTask DEF DelProxy
  <1> HIDE DEF m
  <1>3. /\ task'[c] = Idle
        /\ \A d \in Ctl : d # c => task'[d] = task[d] /\ proxies'[d] = proxies[d]
        /\ proxies'[c][m] = NoKind /\ pxys'[m] = NoCtl
        /\ \A n \in Name : n # m => /\ proxies'[c][n] = proxies[c][n]
                                    /\ pxys'[n] = pxys[n]
    BY <1>1, <1>2 DEF TypeOK
  <1>4. pxys[m] = c
    BY <1>1, <1>2 DEF NamesAgree
  <1>5. UnstartedEmpty'
    BY <1>1, <1>2, <1>3 DEF UnstartedEmpty, Live
  <1>6. CleanupOnlyDeletes'
    BY <1>1, <1>3 DEF CleanupOnlyDeletes, Idle
  <1>7. HandlerState'
    <2>1. ASSUME NEW d \in Ctl, d # c, task[d].op = "insert"
          PROVE  pxys'[task[d].name] = d
      <3>1. pxys[task[d].name] = d /\ task[d].name \in Name
        BY <2>1, BusyTask DEF HandlerState
      <3> QED
        BY <3>1, <2>1, <1>3, <1>4
    <2> QED
      BY <2>1, <1>1, <1>3 DEF HandlerState, Idle
  <1>8. NamesAgree'
    <2>1. ASSUME NEW d \in Ctl, NEW n \in Name, proxies'[d][n] # NoKind
          PROVE  pxys'[n] = d
      BY <2>1, <1>1, <1>3, <1>4 DEF NamesAgree
    <2>2. ASSUME NEW n \in Name, pxys'[n] # NoCtl
          PROVE  LET d == pxys'[n]
                 IN  /\ phase[d] \in Started
                     /\ \/ proxies'[d][n] # NoKind
                        \/ task'[d].op = "insert" /\ task'[d].name = n
      <3>1. n # m /\ pxys'[n] = pxys[n] /\ pxys[n] \in Ctl
        BY <2>2, <1>3 DEF TypeOK
      <3> QED
        BY <3>1, <2>2, <1>2, <1>3 DEF NamesAgree, Live
    <2> QED
      BY <2>1, <2>2, <1>1 DEF NamesAgree, Live
  <1>9. NoStrandedProxy'
    BY <1>1, <1>2, <1>3 DEF NoStrandedProxy, Live
  <1>10. SecretTablesExact'
    BY <1>1 DEF SecretTablesExact
  <1> QED
    BY <1>5, <1>6, <1>7, <1>8, <1>9, <1>10

\* HandleNewProxy and ReturnQuota: a handler begins or ends and no table
\* changes.
LEMMA ProxyBeginEnd ==
    ASSUME TypeOK, ProxyInv, NEW c \in Ctl, phase[c] = "running",
           task[c].op \in {"idle", "fail"}, NEW t, t = Idle \/ t.op = "exist",
           task' = [task EXCEPT ![c] = t],
           UNCHANGED <<phase, proxies, running, pxys, byName>>
    PROVE  ProxyInv'
  <1> USE DEF ProxyInv
  <1>1. /\ \A d \in Ctl : d # c => task'[d] = task[d]
        /\ task'[c].op \in {"idle", "exist"}
        /\ task[c].op \notin {"add", "undo", "insert", "del"}
    BY DEF TypeOK, Idle
  <1>2. UnstartedEmpty'
    BY <1>1 DEF UnstartedEmpty, Live, Started
  <1>3. CleanupOnlyDeletes'
    BY <1>1 DEF CleanupOnlyDeletes
  <1>4. HandlerState'
    BY <1>1 DEF HandlerState
  <1>5. NamesAgree'
    <2>1. ASSUME NEW n \in Name, pxys[n] # NoCtl
          PROVE  LET d == pxys[n]
                 IN  /\ phase[d] \in Started
                     /\ \/ proxies[d][n] # NoKind
                        \/ task'[d].op = "insert" /\ task'[d].name = n
      <3>1. pxys[n] \in Ctl
        BY <2>1 DEF TypeOK
      <3> QED
        BY <3>1, <2>1, <1>1 DEF NamesAgree, Live
    <2> QED
      BY <2>1 DEF NamesAgree, Live
  <1>6. NoStrandedProxy'
    BY <1>1 DEF NoStrandedProxy, Live
  <1>7. SecretTablesExact'
    BY DEF SecretTablesExact
  <1> QED
    BY <1>2, <1>3, <1>4, <1>5, <1>6, <1>7

\* CloseDone: when the last proxy is gone the control has nothing left, not
\* even in the tables it does not look at.
LEMMA ProxyCloseDone ==
    ASSUME TypeOK, ProxyInv, NEW c \in Ctl, CloseDone(c)
    PROVE  ProxyInv'
  <1> USE DEF ProxyInv
  <1>1. /\ task[c] = Idle /\ task[c].op = "idle"
        /\ \A n \in Name : proxies[c][n] = NoKind
        /\ phase' = [phase EXCEPT ![c] = "closed"]
        /\ UNCHANGED <<task, proxies, running, pxys, byName>>
    BY DEF CloseDone, proxyVars, Idle
  <1>2. phase'[c] = "closed" /\ \A d \in Ctl : d # c => phase'[d] = phase[d]
    BY <1>1 DEF TypeOK
  <1>3. \A n \in Name : running[c][n] = NoKind /\ pxys[n] # c
    BY <1>1 DEF NoStrandedProxy, NamesAgree, NoCtl, Ctl
  <1>4. UnstartedEmpty'
    BY <1>1, <1>2, <1>3 DEF UnstartedEmpty, Live
  <1>5. CleanupOnlyDeletes'
    BY <1>1, <1>2 DEF CleanupOnlyDeletes
  <1>6. HandlerState'
    BY <1>1 DEF HandlerState
  <1>7. NamesAgree'
    <2>1. ASSUME NEW n \in Name, pxys[n] # NoCtl PROVE phase'[pxys[n]] \in Started
      BY <2>1, <1>2, <1>3 DEF NamesAgree, Live, TypeOK
    <2> QED
      BY <2>1, <1>1 DEF NamesAgree, Live
  <1>8. NoStrandedProxy'
    BY <1>1, <1>2, <1>3 DEF NoStrandedProxy, Live
  <1>9. SecretTablesExact'
    BY <1>1 DEF SecretTablesExact
  <1> QED
    BY <1>4, <1>5, <1>6, <1>7, <1>8, <1>9

LEMMA ProxyNext == TypeOK /\ SessionInv /\ ProxyInv /\ [Next]_vars => ProxyInv'
  <1> SUFFICES ASSUME TypeOK, SessionInv, ProxyInv, [Next]_vars PROVE ProxyInv'
    OBVIOUS
  <1>1. ASSUME NEW r \in RunID, Login(r) PROVE ProxyInv'
    <2>1. logins + 1 \in Ctl /\ phase[logins + 1] = "none"
      BY <1>1, ConstantsAssumption DEF Login, TypeOK, Ctl, SessionInv, LoginsNumbered
    <2>2. \A c \in Ctl : phase'[c] = IF c = logins + 1 THEN "waiting" ELSE phase[c]
      BY <1>1 DEF Login, TypeOK
    <2> QED
      BY <2>1, <2>2, <1>1, ProxyQuiet DEF Login, proxyVars, Live, Started
  <1>2. CASE ShutDown
    BY <1>2, ProxyQuiet DEF ShutDown, proxyVars, Live
  <1>3. ASSUME NEW c \in Ctl,
               PeerClose(c) \/ HandlePing(c) \/ Tick(c) \/ HeartbeatExpire(c)
        PROVE  ProxyInv'
    BY <1>3, ProxyQuiet
       DEF PeerClose, HandlePing, Tick, HeartbeatExpire, sessionVars, proxyVars, Live
  <1>4. ASSUME NEW c \in Ctl, NEW n \in Name, NEW k \in Kinds, HandleNewProxy(c, n, k)
        PROVE  ProxyInv'
    <2> DEFINE t == [op |-> "exist", name |-> n, kind |-> k]
    <2>1. t.op = "exist"
      OBVIOUS
    <2>2. /\ task' = [task EXCEPT ![c] = t] /\ phase[c] = "running"
          /\ task[c].op = "idle"
          /\ UNCHANGED <<phase, proxies, running, pxys, byName>>
      BY <1>4 DEF HandleNewProxy, sessionVars, Idle
    <2> HIDE DEF t
    <2> QED
      BY <2>1, <2>2, ProxyBeginEnd
  <1>5. ASSUME NEW c \in Ctl, NEW n \in Name, HandleCloseProxy(c, n) PROVE ProxyInv'
    BY <1>5, ProxyClosing DEF HandleCloseProxy, sessionVars, Live, Started
  <1>6. ASSUME NEW c \in Ctl, CheckExist(c) PROVE ProxyInv'
    BY <1>6, ProxyGoto DEF CheckExist, sessionVars, proxyVars
  <1>7. ASSUME NEW c \in Ctl, RunProxy(c) PROVE ProxyInv'
    BY <1>7, ProxyRun
  <1>8. ASSUME NEW c \in Ctl, RunProxyFails(c) PROVE ProxyInv'
    BY <1>8, ProxyGoto DEF RunProxyFails, sessionVars, proxyVars
  <1>9. ASSUME NEW c \in Ctl, AddProxy(c) PROVE ProxyInv'
    BY <1>9, ProxyAdd
  <1>10. ASSUME NEW c \in Ctl, InsertProxy(c) PROVE ProxyInv'
    BY <1>10, ProxyInsert
  <1>11. ASSUME NEW c \in Ctl, UndoRun(c) PROVE ProxyInv'
    BY <1>11, ProxyUndo
  <1>12. ASSUME NEW c \in Ctl, ReturnQuota(c) PROVE ProxyInv'
    BY <1>12, ProxyBeginEnd, BusyLive DEF ReturnQuota, sessionVars
  <1>13. ASSUME NEW c \in Ctl, DelProxy(c) PROVE ProxyInv'
    BY <1>13, ProxyDel
  <1>14. ASSUME NEW c \in Ctl, StartControl(c) \/ DispatcherDone(c) \/ DelControl(c)
         PROVE  ProxyInv'
    BY <1>14, ProxyQuiet
       DEF StartControl, DispatcherDone, DelControl, proxyVars, Live, Started, TypeOK
  <1>15. ASSUME NEW c \in Ctl, CloseDone(c) PROVE ProxyInv'
    BY <1>15, ProxyCloseDone
  <1>16. ASSUME NEW c \in Ctl, NEW n \in Name, CleanupProxy(c, n) PROVE ProxyInv'
    BY <1>16, ProxyClosing DEF CleanupProxy, sessionVars, Live, Started
  <1>17. CASE UNCHANGED vars
    BY <1>17, ProxyQuiet DEF vars, sessionVars, proxyVars, Live
  <1> QED
    BY <1>1, <1>2, <1>3, <1>4, <1>5, <1>6, <1>7, <1>8, <1>9, <1>10, <1>11,
       <1>12, <1>13, <1>14, <1>15, <1>16, <1>17
       DEF Next, Peer, Handler, Worker

-----------------------------------------------------------------------------
(* The port quota *)

\* Before a control runs it has charged nothing; while it handles messages its
\* counter is the number of charges, and within the limit.
QuotaOf(c) ==
    /\ phase[c] \in {"none", "waiting"} => portsUsedNum[c] = 0
    /\ phase[c] = "running" =>
          /\ IsFiniteSet(ChargedNames(c))
          /\ portsUsedNum[c] = Cardinality(ChargedNames(c)) + DoubleCharge(c)
          /\ portsUsedNum[c] <= MaxPortsPerClient

QuotaInv == MaxPortsPerClient > 0 => \A c \in Ctl : QuotaOf(c)

\* A charge more or less.
LEMMA OneMore ==
    ASSUME NEW S, NEW x, IsFiniteSet(S), x \notin S
    PROVE  /\ IsFiniteSet(S \cup {x}) /\ Cardinality(S) \in Nat
           /\ Cardinality(S \cup {x}) = Cardinality(S) + 1
  BY FS_AddElement, FS_CardinalityType

LEMMA OneLess ==
    ASSUME NEW S, NEW x, IsFiniteSet(S), x \in S
    PROVE  /\ IsFiniteSet(S \ {x}) /\ Cardinality(S) \in Nat
           /\ Cardinality(S \ {x}) = Cardinality(S) - 1
  BY FS_RemoveElement, FS_CardinalityType

\* A step that leaves a control alone keeps its quota.
LEMMA QuotaSame ==
    ASSUME NEW c \in Ctl, QuotaOf(c), task'[c] = task[c], proxies'[c] = proxies[c],
           portsUsedNum'[c] = portsUsedNum[c],
           \/ phase'[c] = phase[c]
           \/ phase'[c] \in {"cleanup", "closed", "gone"}
           \/ phase[c] = "none" /\ phase'[c] = "waiting"
    PROVE  QuotaOf(c)'
  <1>1. CASE phase'[c] = "running"
    <2>1. phase[c] = "running"
      BY <1>1
    <2>2. ChargedNames(c)' = ChargedNames(c) /\ DoubleCharge(c)' = DoubleCharge(c)
      BY <1>1, <2>1 DEF ChargedNames, DoubleCharge
    <2> QED
      BY <1>1, <2>1, <2>2 DEF QuotaOf
  <1>2. CASE phase'[c] # "running"
    BY <1>2 DEF QuotaOf
  <1> QED
    BY <1>1, <1>2

\* A step that keeps the charges and the counter, while the control runs.
LEMMA QuotaKept ==
    ASSUME NEW c \in Ctl, QuotaOf(c), phase'[c] = phase[c], phase[c] = "running",
           portsUsedNum'[c] = portsUsedNum[c],
           ChargedNames(c)' = ChargedNames(c), DoubleCharge(c)' = DoubleCharge(c)
    PROVE  QuotaOf(c)'
  BY DEF QuotaOf

\* The handler goes on with a registration that is charged once, or whose
\* second charge is about to be returned.
LEMMA QuotaGoto ==
    ASSUME TypeOK, NEW c \in Ctl, QuotaOf(c), phase'[c] = phase[c], phase[c] = "running",
           portsUsedNum'[c] = portsUsedNum[c], proxies'[c] = proxies[c],
           task[c].op \in Ops \ {"del"}, NEW op \in Ops \ {"del"}, Goto(c, op),
           \/ proxies[c][task[c].name] = NoKind
           \/ task[c].op \in {"exist", "fail"} /\ op \in {"exist", "fail"}
    PROVE  QuotaOf(c)'
  <1>1. task'[c].op = op /\ task'[c].name = task[c].name /\ task'[c].kind = task[c].kind
    BY GotoTask DEF Ops
  <1>2. ChargedNames(c)' = ChargedNames(c)
    BY <1>1 DEF ChargedNames
  <1>3. DoubleCharge(c)' = DoubleCharge(c)
    BY <1>1 DEF DoubleCharge, NoKind
  <1> QED
    BY <1>2, <1>3, QuotaKept

\* handleNewProxy charges before Exist is asked.
LEMMA QuotaNew ==
    ASSUME TypeOK, NEW c \in Ctl, NEW n \in Name, NEW k \in Kinds, HandleNewProxy(c, n, k),
           MaxPortsPerClient > 0, QuotaOf(c)
    PROVE  QuotaOf(c)'
  <1>1. /\ phase[c] = "running" /\ phase' = phase /\ proxies' = proxies /\ task[c] = Idle
        /\ task'[c] = [op |-> "exist", name |-> n, kind |-> k]
        /\ portsUsedNum'[c] = portsUsedNum[c] + UsedPorts(k)
        /\ portsUsedNum[c] \in Int
        /\ UsedPorts(k) = 0 \/ portsUsedNum[c] + UsedPorts(k) <= MaxPortsPerClient
    BY DEF HandleNewProxy, sessionVars, TypeOK
  <1>2. /\ IsFiniteSet(ChargedNames(c)) /\ DoubleCharge(c) = 0
        /\ portsUsedNum[c] = Cardinality(ChargedNames(c)) + DoubleCharge(c)
        /\ portsUsedNum[c] <= MaxPortsPerClient
    BY <1>1 DEF QuotaOf, DoubleCharge, Idle
  <1>3. ChargedNames(c) = {m \in Name : proxies[c][m] = "tcp"}
    BY <1>1 DEF ChargedNames, Idle, Ops
  <1>4. ChargedNames(c)' = {m \in Name : \/ proxies[c][m] = "tcp"
                                         \/ m = n /\ k = "tcp" /\ proxies[c][m] # "tcp"}
    BY <1>1 DEF ChargedNames, Ops
  <1>5. DoubleCharge(c)' = IF k = "tcp" /\ proxies[c][n] = "tcp" THEN 1 ELSE 0
    BY <1>1 DEF DoubleCharge
  <1>6. UsedPorts(k) = IF k = "tcp" THEN 1 ELSE 0
    BY DEF UsedPorts
  <1>7. CASE k = "tcp" /\ proxies[c][n] # "tcp"
    <2>1. ChargedNames(c)' = ChargedNames(c) \cup {n} /\ n \notin ChargedNames(c)
      BY <1>3, <1>4, <1>7
    <2>2. IsFiniteSet(ChargedNames(c)') /\ Cardinality(ChargedNames(c)) \in Nat
          /\ Cardinality(ChargedNames(c)') = Cardinality(ChargedNames(c)) + 1
      BY <1>2, <2>1, OneMore
    <2> QED
      BY <1>1, <1>2, <1>5, <1>6, <1>7, <2>2 DEF QuotaOf
  <1>8. CASE k # "tcp" \/ proxies[c][n] = "tcp"
    <2>1. ChargedNames(c)' = ChargedNames(c)
      BY <1>3, <1>4, <1>8
    <2>2. Cardinality(ChargedNames(c)) \in Nat
      BY <1>2, FS_CardinalityType
    <2> QED
      BY <1>1, <1>2, <1>5, <1>6, <1>8, <2>1, <2>2 DEF QuotaOf
  <1> QED
    BY <1>7, <1>8

\* The deferred function returns the charge of the registration that failed.
LEMMA QuotaReturn ==
    ASSUME TypeOK, NEW c \in Ctl, ReturnQuota(c), phase[c] = "running",
           MaxPortsPerClient > 0, QuotaOf(c)
    PROVE  QuotaOf(c)'
  <1> DEFINE n == task[c].name
             k == task[c].kind
  <1>1. /\ phase' = phase /\ proxies' = proxies /\ task[c].op = "fail" /\ task'[c] = Idle
        /\ portsUsedNum'[c] = portsUsedNum[c] - UsedPorts(k)
        /\ portsUsedNum[c] \in Int /\ n \in Name
    BY BusyTask DEF ReturnQuota, sessionVars, TypeOK
  <1>2. /\ IsFiniteSet(ChargedNames(c))
        /\ portsUsedNum[c] = Cardinality(ChargedNames(c)) + DoubleCharge(c)
        /\ portsUsedNum[c] <= MaxPortsPerClient
        /\ DoubleCharge(c) = IF k = "tcp" /\ proxies[c][n] = "tcp" THEN 1 ELSE 0
    BY <1>1 DEF QuotaOf, DoubleCharge
  <1>3. ChargedNames(c) = {m \in Name : \/ proxies[c][m] = "tcp"
                                        \/ n = m /\ k = "tcp" /\ proxies[c][m] # "tcp"}
    BY <1>1 DEF ChargedNames, Ops
  <1>4. ChargedNames(c)' = {m \in Name : proxies[c][m] = "tcp"}
    BY <1>1 DEF ChargedNames, Ops, Idle
  <1>5. DoubleCharge(c)' = 0
    BY <1>1 DEF DoubleCharge, Idle
  <1>6. UsedPorts(k) = IF k = "tcp" THEN 1 ELSE 0
    BY DEF UsedPorts
  <1> HIDE DEF n, k
  <1>7. CASE k = "tcp" /\ proxies[c][n] # "tcp"
    <2>1. ChargedNames(c)' = ChargedNames(c) \ {n} /\ n \in ChargedNames(c)
      BY <1>1, <1>3, <1>4, <1>7
    <2>2. IsFiniteSet(ChargedNames(c)') /\ Cardinality(ChargedNames(c)) \in Nat
          /\ Cardinality(ChargedNames(c)') = Cardinality(ChargedNames(c)) - 1
      BY <1>2, <2>1, OneLess
    <2> QED
      BY <1>1, <1>2, <1>5, <1>6, <1>7, <2>2, ConstantsAssumption DEF QuotaOf
  <1>8. CASE k # "tcp" \/ proxies[c][n] = "tcp"
    <2>1. ChargedNames(c)' = ChargedNames(c)
      BY <1>3, <1>4, <1>8
    <2>2. Cardinality(ChargedNames(c)) \in Nat
      BY <1>2, FS_CardinalityType
    <2> QED
      BY <1>1, <1>2, <1>5, <1>6, <1>8, <2>1, <2>2, ConstantsAssumption DEF QuotaOf
  <1> QED
    BY <1>7, <1>8

\* CloseProxy returns the charge before the proxy leaves the tables.
LEMMA QuotaClose ==
    ASSUME TypeOK, NEW c \in Ctl, NEW n \in Name, HandleCloseProxy(c, n),
           MaxPortsPerClient > 0, QuotaOf(c)
    PROVE  QuotaOf(c)'
  <1>1. /\ phase[c] = "running" /\ phase' = phase /\ proxies' = proxies /\ task[c] = Idle
        /\ task'[c] = [op |-> "del", name |-> n, kind |-> proxies[c][n]]
        /\ portsUsedNum'[c] = portsUsedNum[c] - UsedPorts(proxies[c][n])
        /\ portsUsedNum[c] \in Int
    BY DEF HandleCloseProxy, sessionVars, TypeOK
  <1>2. /\ IsFiniteSet(ChargedNames(c)) /\ DoubleCharge(c) = 0
        /\ portsUsedNum[c] = Cardinality(ChargedNames(c)) + DoubleCharge(c)
        /\ portsUsedNum[c] <= MaxPortsPerClient
    BY <1>1 DEF QuotaOf, DoubleCharge, Idle
  <1>3. ChargedNames(c) = {m \in Name : proxies[c][m] = "tcp"}
    BY <1>1 DEF ChargedNames, Idle, Ops
  <1>4. ChargedNames(c)' = {m \in Name : proxies[c][m] = "tcp" /\ n # m}
    BY <1>1 DEF ChargedNames, Ops
  <1>5. DoubleCharge(c)' = 0
    BY <1>1 DEF DoubleCharge
  <1>6. UsedPorts(proxies[c][n]) = IF proxies[c][n] = "tcp" THEN 1 ELSE 0
    BY DEF UsedPorts
  <1>7. CASE proxies[c][n] = "tcp"
    <2>1. ChargedNames(c)' = ChargedNames(c) \ {n} /\ n \in ChargedNames(c)
      BY <1>3, <1>4, <1>7
    <2>2. IsFiniteSet(ChargedNames(c)') /\ Cardinality(ChargedNames(c)) \in Nat
          /\ Cardinality(ChargedNames(c)') = Cardinality(ChargedNames(c)) - 1
      BY <1>2, <2>1, OneLess
    <2> QED
      BY <1>1, <1>2, <1>5, <1>6, <1>7, <2>2, ConstantsAssumption DEF QuotaOf
  <1>8. CASE proxies[c][n] # "tcp"
    <2>1. ChargedNames(c)' = ChargedNames(c)
      BY <1>3, <1>4, <1>8
    <2>2. Cardinality(ChargedNames(c)) \in Nat
      BY <1>2, FS_CardinalityType
    <2> QED
      BY <1>1, <1>2, <1>5, <1>6, <1>8, <2>1, <2>2, ConstantsAssumption DEF QuotaOf
  <1> QED
    BY <1>7, <1>8

\* The steps that put a charged proxy into ctl.proxies or take one out.
LEMMA QuotaInsertDel ==
    ASSUME TypeOK, ProxyInv, NEW c \in Ctl, InsertProxy(c) \/ DelProxy(c),
           phase[c] = "running", QuotaOf(c)
    PROVE  QuotaOf(c)'
  <1>1. /\ task[c].name \in Name /\ task[c].kind \in AllKinds /\ task'[c] = Idle
        /\ phase' = phase /\ portsUsedNum' = portsUsedNum
        /\ task[c].op \in {"insert", "del"}
    BY BusyTask DEF InsertProxy, DelProxy, sessionVars, TypeOK
  <1>2. \A m \in Name : m # task[c].name => proxies'[c][m] = proxies[c][m]
    BY <1>1 DEF InsertProxy, DelProxy, TypeOK
  <1>3. DoubleCharge(c)' = 0 /\ DoubleCharge(c) = 0
    BY <1>1 DEF DoubleCharge, Idle
  <1>4. ChargedNames(c)' = {m \in Name : proxies'[c][m] = "tcp"}
    BY <1>1 DEF ChargedNames, Idle, Ops
  <1>5. CASE task[c].op = "insert"
    <2>1. proxies[c][task[c].name] = NoKind /\ proxies'[c][task[c].name] = task[c].kind
      BY <1>1, <1>5 DEF ProxyInv, HandlerState, InsertProxy, DelProxy, TypeOK
    <2>2. ChargedNames(c)' = ChargedNames(c)
      BY <1>1, <1>2, <1>4, <1>5, <2>1 DEF ChargedNames, NoKind, Ops
    <2> QED
      BY <1>1, <1>3, <2>2, QuotaKept
  <1>6. CASE task[c].op = "del"
    <2>1. proxies'[c][task[c].name] = NoKind
      BY <1>1, <1>6 DEF InsertProxy, DelProxy, TypeOK
    <2>2. ChargedNames(c)' = ChargedNames(c)
      BY <1>1, <1>2, <1>4, <1>6, <2>1 DEF ChargedNames, NoKind, Ops
    <2> QED
      BY <1>1, <1>3, <2>2, QuotaKept
  <1> QED
    BY <1>1, <1>5, <1>6

\* Start: a control that has not run yet has charged nothing.
LEMMA QuotaStart ==
    ASSUME TypeOK, ProxyInv, NEW c \in Ctl, StartControl(c), QuotaOf(c)
    PROVE  QuotaOf(c)'
  <1>1. /\ phase'[c] = "running" /\ task' = task /\ proxies' = proxies
        /\ portsUsedNum'[c] = 0
    BY DEF StartControl, proxyVars, QuotaOf, TypeOK
  <1>2. task[c] = Idle /\ \A n \in Name : proxies[c][n] = NoKind
    BY DEF StartControl, ProxyInv, UnstartedEmpty, Live, Started
  <1>3. ChargedNames(c)' = {} /\ DoubleCharge(c)' = 0
    BY <1>1, <1>2 DEF ChargedNames, DoubleCharge, Idle, Ops, NoKind
  <1> QED
    BY <1>1, <1>3, FS_EmptySet, ConstantsAssumption DEF QuotaOf

LEMMA QuotaInit == Init => QuotaInv
  BY DEF Init, QuotaInv, QuotaOf

LEMMA QuotaNext == TypeOK /\ SessionInv /\ ProxyInv /\ QuotaInv /\ [Next]_vars => QuotaInv'
  <1> SUFFICES ASSUME TypeOK, SessionInv, ProxyInv, [Next]_vars, MaxPortsPerClient > 0,
                      \A c \in Ctl : QuotaOf(c), NEW c \in Ctl
               PROVE  QuotaOf(c)'
    BY DEF QuotaInv
  <1>0. QuotaOf(c)
    OBVIOUS
  <1>1. ASSUME NEW r \in RunID, Login(r) PROVE QuotaOf(c)'
    <2>1. /\ task' = task /\ proxies' = proxies /\ portsUsedNum' = portsUsedNum
          /\ phase' = [phase EXCEPT ![logins + 1] = "waiting"]
      BY <1>1 DEF Login, proxyVars
    <2>2. c = logins + 1 => phase[c] = "none"
      BY ConstantsAssumption DEF SessionInv, LoginsNumbered, TypeOK, Ctl
    <2>3. phase'[c] = phase[c] \/ (phase[c] = "none" /\ phase'[c] = "waiting")
      BY <2>1, <2>2 DEF TypeOK
    <2> QED
      BY <1>0, <2>1, <2>3, QuotaSame
  <1>2. CASE UNCHANGED <<task, proxies, portsUsedNum, phase>>
    BY <1>0, <1>2, QuotaSame
  <1>3. ASSUME NEW d \in Ctl,
               \/ StartControl(d) /\ d # c
               \/ DispatcherDone(d) \/ CloseDone(d) \/ DelControl(d)
        PROVE  QuotaOf(c)'
    <2>1. /\ task' = task /\ proxies' = proxies /\ portsUsedNum' = portsUsedNum
          /\ \/ phase'[c] = phase[c]
             \/ phase'[c] \in {"cleanup", "closed", "gone"}
      BY <1>3 DEF StartControl, DispatcherDone, CloseDone, DelControl, proxyVars, TypeOK
    <2> QED
      BY <1>0, <2>1, QuotaSame
  <1>4. ASSUME NEW d \in Ctl, d # c,
               \/ \E n \in Name, k \in Kinds : HandleNewProxy(d, n, k)
               \/ \E n \in Name : HandleCloseProxy(d, n) \/ CleanupProxy(d, n)
               \/ Handler(d)
        PROVE  QuotaOf(c)'
    <2>1. /\ phase' = phase /\ task'[c] = task[c] /\ proxies'[c] = proxies[c]
          /\ portsUsedNum'[c] = portsUsedNum[c]
      BY <1>4 DEF HandleNewProxy, HandleCloseProxy, CleanupProxy, Handler, CheckExist, RunProxy,
                  RunProxyFails, AddProxy, InsertProxy, UndoRun, ReturnQuota, DelProxy, Goto,
                  sessionVars, proxyVars, TypeOK
    <2> QED
      BY <1>0, <2>1, QuotaSame
  <1>5. ASSUME NEW n \in Name, CleanupProxy(c, n) PROVE QuotaOf(c)'
    BY <1>5 DEF CleanupProxy, QuotaOf, sessionVars
  <1>6. CASE Handler(c)
    <2>1. CASE phase[c] = "running"
      <3>1. CASE InsertProxy(c) \/ DelProxy(c)
        BY <1>0, <2>1, <3>1, QuotaInsertDel
      <3>2. CASE ReturnQuota(c)
        BY <1>0, <2>1, <3>2, QuotaReturn
      <3>3. CASE CheckExist(c) \/ RunProxy(c) \/ RunProxyFails(c) \/ AddProxy(c) \/ UndoRun(c)
        <4>1. PICK op \in Ops \ {"del"} :
                 /\ Goto(c, op)
                 /\ \/ proxies[c][task[c].name] = NoKind
                    \/ task[c].op \in {"exist", "fail"} /\ op \in {"exist", "fail"}
          <5>1. CASE CheckExist(c)
            <6>1. task[c].name \in Name
              BY <5>1, BusyTask DEF CheckExist
            <6>2. pxys[task[c].name] = NoCtl => proxies[c][task[c].name] = NoKind
              BY <6>1 DEF ProxyInv, NamesAgree, NoCtl, Ctl
            <6> QED
              BY <5>1, <6>2 DEF CheckExist, Ops
          <5>2. CASE RunProxy(c) \/ RunProxyFails(c) \/ AddProxy(c) \/ UndoRun(c)
            <6>1. proxies[c][task[c].name] = NoKind
              BY <5>2 DEF RunProxy, RunProxyFails, AddProxy, UndoRun, ProxyInv, HandlerState
            <6> QED
              BY <5>2, <6>1 DEF RunProxy, RunProxyFails, AddProxy, UndoRun, Ops
          <5> QED
            BY <3>3, <5>1, <5>2
        <4>2. /\ phase' = phase /\ proxies' = proxies /\ portsUsedNum' = portsUsedNum
              /\ task[c].op \in Ops \ {"del"}
          BY <3>3 DEF CheckExist, RunProxy, RunProxyFails, AddProxy, UndoRun, sessionVars,
                      proxyVars, Ops
        <4> QED
          BY <1>0, <2>1, <4>1, <4>2, QuotaGoto
      <3> QED
        BY <1>6, <3>1, <3>2, <3>3 DEF Handler
    <2>2. CASE phase[c] # "running"
      <3>1. Live(c) /\ phase' = phase
        BY <1>6, BusyLive DEF Handler, CheckExist, RunProxy, RunProxyFails, AddProxy, InsertProxy,
              UndoRun, ReturnQuota, DelProxy, sessionVars, proxyVars
      <3> QED
        BY <2>2, <3>1 DEF QuotaOf, Live, Started
    <2> QED
      BY <2>1, <2>2
  <1>7. ASSUME NEW d \in Ctl, PeerClose(d) \/ HandlePing(d) \/ Tick(d) \/ HeartbeatExpire(d)
        PROVE  UNCHANGED <<task, proxies, portsUsedNum, phase>>
    BY <1>7 DEF PeerClose, HandlePing, Tick, HeartbeatExpire, sessionVars, proxyVars
  <1>8. ShutDown \/ UNCHANGED vars => UNCHANGED <<task, proxies, portsUsedNum, phase>>
    BY DEF ShutDown, vars, sessionVars, proxyVars
  <1>9. ASSUME NEW d \in Ctl, Peer(d) PROVE QuotaOf(c)'
    BY <1>0, <1>2, <1>4, <1>7, <1>9, QuotaNew, QuotaClose DEF Peer
  <1>10. ASSUME NEW d \in Ctl, Worker(d) PROVE QuotaOf(c)'
    BY <1>0, <1>3, <1>4, <1>5, <1>10, QuotaStart DEF Worker
  <1>11. ASSUME NEW d \in Ctl, Handler(d) PROVE QuotaOf(c)'
    BY <1>4, <1>6, <1>11
  <1> QED
    BY <1>1, <1>2, <1>7, <1>8, <1>9, <1>10, <1>11 DEF Next

-----------------------------------------------------------------------------
(* The theorems *)

Inv == TypeOK /\ SessionInv /\ ProxyInv /\ QuotaInv

LEMMA Invariance == Spec => []Inv
  <1>1. Init => Inv
    BY TypeInit, SessionInit, ProxyInit, QuotaInit DEF Inv
  <1>2. Inv /\ [Next]_vars => Inv'
    BY TypeNext, SessionNext, ProxyNext, QuotaNext DEF Inv
  <1> QED
    BY <1>1, <1>2, PTL DEF Spec

\* The registry of names and the controls agree in every state between the
\* locks of RegisterProxy, CloseProxy and the cleanup.
THEOREM NamesCorrect == Spec => []NamesAgree
  <1>1. Inv => NamesAgree
    BY DEF Inv, ProxyInv
  <1> QED
    BY <1>1, Invariance, PTL

\* No interleaving of registrations, closings and cleanups leaves a proxy
\* running that nobody will close.
THEOREM NothingStranded == Spec => []NoStrandedProxy
  <1>1. Inv => NoStrandedProxy
    BY DEF Inv, ProxyInv
  <1> QED
    BY <1>1, Invariance, PTL

\* Deleting by name never removes another control's entry from the tables of
\* secret proxies, and never leaves one behind.
THEOREM SecretTablesCorrect == Spec => []SecretTablesExact
  <1>1. Inv => SecretTablesExact
    BY DEF Inv, ProxyInv
  <1> QED
    BY <1>1, Invariance, PTL

\* portsUsedNum never drifts from the ports a control has charged for, whatever
\* registrations fail between their locks, and stays within MaxPortsPerClient.
THEOREM QuotaCorrect == Spec => []QuotaExact
  <1>1. Inv => QuotaExact
    BY DEF Inv, QuotaInv, QuotaOf, QuotaExact
  <1> QED
    BY <1>1, Invariance, PTL

\* A client that logs in again finds none of its names held by its earlier
\* control: this joins the two halves of the invariant.
THEOREM NoSelfConflictCorrect == Spec => []NoSelfConflict
  <1>1. Inv => NoSelfConflict
    <2> SUFFICES ASSUME Inv, ~shut, NEW c \in Ctl, NEW d \in Ctl, NEW n \in Name,
                        phase[d] = "running", c # d, runID[c] = runID[d]
                 PROVE  pxys[n] # c /\ \A k \in NamedKind : byName[k][n] # c
      BY DEF NoSelfConflict
    <2>1. ~Live(c)
      <3>1. CASE c < d
        BY <3>1 DEF Inv, SessionInv, OneControlPerClient, Live, Started, Finished
      <3>2. CASE d < c
        BY <3>2 DEF Inv, SessionInv, OneControlPerClient, Live, Started, Finished
      <3> QED
        BY <3>1, <3>2 DEF Ctl
    <2>2. pxys[n] # c
      BY <2>1 DEF Inv, ProxyInv, NamesAgree, NoCtl, Ctl
    <2>3. ASSUME NEW k \in NamedKind PROVE byName[k][n] # c
      <3>1. running[c][n] # k
        BY <2>1 DEF Inv, ProxyInv, UnstartedEmpty, NoKind, NamedKind
      <3> QED
        BY <3>1 DEF Inv, ProxyInv, SecretTablesExact
    <2> QED
      BY <2>2, <2>3
  <1> QED
    BY <1>1, Invariance, PTL

\* A name changes hands only through the free state, and Del by name is applied
\* only to the entry of the control that is closing the proxy.
THEOREM NameHandoverCorrect == Spec => NameHandover
  <1> DEFINE Handover == \A n \in Name : pxys'[n] # pxys[n] =>
                 \/ pxys[n] = NoCtl
                 \/ pxys'[n] = NoCtl /\ task[pxys[n]].op = "del"
                                    /\ task[pxys[n]].name = n
  <1>1. Inv /\ [Next]_vars => Handover \/ UNCHANGED vars
    <2> SUFFICES ASSUME Inv, Next, NEW n \in Name, pxys'[n] # pxys[n]
                 PROVE  \/ pxys[n] = NoCtl
                        \/ pxys'[n] = NoCtl /\ task[pxys[n]].op = "del"
                                           /\ task[pxys[n]].name = n
      OBVIOUS
    <2>1. \E c \in Ctl : AddProxy(c) \/ DelProxy(c)
      BY DEF Next, Peer, Handler, Worker, Login, ShutDown, PeerClose, HandlePing,
         Tick, HeartbeatExpire, HandleNewProxy, HandleCloseProxy, CheckExist,
         RunProxy, RunProxyFails, InsertProxy, UndoRun, ReturnQuota, StartControl,
         DispatcherDone, CloseDone, DelControl, CleanupProxy, proxyVars
    <2>2. PICK c \in Ctl : AddProxy(c) \/ DelProxy(c)
      BY <2>1
    <2>3. CASE AddProxy(c)
      BY <2>3 DEF AddProxy, Inv, TypeOK
    <2>4. CASE DelProxy(c)
      <3>1. /\ task[c].op = "del" /\ task[c].name \in Name
            /\ pxys[task[c].name] = c
        BY <2>4, BusyTask DEF DelProxy, Inv, ProxyInv, HandlerState, NamesAgree
      <3>2. n = task[c].name /\ pxys'[n] = NoCtl
        BY <2>4, <3>1 DEF DelProxy, Inv, TypeOK
      <3> QED
        BY <3>1, <3>2
    <2> QED
      BY <2>2, <2>3, <2>4
  <1> QED
    BY <1>1, Invariance, PTL DEF Spec, NameHandover

-----------------------------------------------------------------------------
(* Refinement *)

\* The sessions of the registry in a state of the controls.
LiveCtls  == {c \in Ctl : phase[c] \in Started}
EndedCtls == {c \in Ctl : phase[c] \in Finished}

LEMMA RegistryInit == Init => Registry!Init
  BY DEF Init, Registry!Init, Started, Finished

\* Every step of the controls is a step of SessionRegistry or leaves it alone.
LEMMA RegistryStep ==
    ASSUME Inv, [Next]_vars
    PROVE  [Registry!Next]_(Registry!vars)
  <1> USE DEF Registry!vars
  <1>1. ASSUME NEW r \in RunID, Login(r) PROVE Registry!Next
    <2>1. logins + 1 \in Ctl /\ phase[logins + 1] = "none" /\ runID[logins + 1] = NoRun
      BY <1>1, ConstantsAssumption
         DEF Login, Inv, TypeOK, Ctl, SessionInv, LoginsNumbered
    <2>2. \A c \in Ctl : phase'[c] = IF c = logins + 1 THEN "waiting" ELSE phase[c]
      BY <1>1 DEF Login, Inv, TypeOK
    <2>3. LiveCtls' = LiveCtls /\ EndedCtls' = EndedCtls
      BY <2>1, <2>2 DEF LiveCtls, EndedCtls, Started, Finished
    <2>4. Registry!Assign(logins + 1, r)
      BY <2>1, <2>3, <1>1 DEF Registry!Assign, LiveCtls, EndedCtls, Login, proxyVars
    <2> QED
      BY <2>1, <2>4 DEF Registry!Next
  <1>2. ASSUME ShutDown PROVE Registry!Next
    BY <1>2 DEF ShutDown, proxyVars, Registry!Next, Registry!ShutDown
  <1>3. ASSUME NEW c \in Ctl, StartControl(c) PROVE Registry!Next
    <2>1. /\ phase[c] = "waiting" /\ phase' = [phase EXCEPT ![c] = "running"]
          /\ UNCHANGED <<logins, ctlsByRunID, runID, waitFor, shut, pxys>>
      BY <1>3 DEF StartControl, proxyVars
    <2>2. LiveCtls' = LiveCtls \cup {c} /\ EndedCtls' = EndedCtls
          /\ c \notin LiveCtls \cup EndedCtls
      BY <2>1 DEF LiveCtls, EndedCtls, Started, Finished, Inv, TypeOK
    <2>3. runID[c] # NoRun
      BY <2>1, ConstantsAssumption DEF Inv, SessionInv, LoginsNumbered, TypeOK, Ctl
    <2>4. SessionInv'
      BY <1>3, SessionStart DEF Inv
    <2>5. ASSUME ~shut, NEW d \in Ctl, phase[d] \in Started PROVE runID[d] # runID[c]
      <3>1. c # d /\ phase'[d] = phase[d] /\ phase'[c] = "running"
        BY <2>5, <2>1 DEF Started, Inv, TypeOK
      <3>2. phase'[d] \notin Finished /\ phase'[c] \notin Finished
        BY <2>5, <3>1 DEF Started, Finished
      <3>3. OneControlPerClient'
        BY <2>4 DEF SessionInv
      <3>4. c < d \/ d < c
        BY <3>1 DEF Ctl
      <3> QED
        BY <3>1, <3>2, <3>3, <3>4, <2>1, <2>5 DEF OneControlPerClient, Started
    <2>6. Registry!Open(c)
      BY <2>1, <2>2, <2>3, <2>5 DEF Registry!Open, LiveCtls, EndedCtls
    <2> QED
      BY <2>6 DEF Registry!Next
  <1>4. ASSUME NEW c \in Ctl, CloseDone(c) PROVE Registry!Next
    <2>1. /\ phase[c] = "cleanup" /\ phase' = [phase EXCEPT ![c] = "closed"]
          /\ UNCHANGED <<runID, shut, pxys>>
      BY <1>4 DEF CloseDone, proxyVars
    <2>2. /\ LiveCtls' = LiveCtls \ {c} /\ EndedCtls' = EndedCtls \cup {c}
          /\ c \in LiveCtls
      BY <2>1 DEF LiveCtls, EndedCtls, Started, Finished, Inv, TypeOK
    <2>3. \A n \in Name : pxys[n] # c
      BY <1>4 DEF CloseDone, Inv, ProxyInv, NamesAgree, NoCtl, Ctl, Idle
    <2>4. Registry!End(c)
      BY <2>1, <2>2, <2>3 DEF Registry!End, LiveCtls, EndedCtls
    <2> QED
      BY <2>4 DEF Registry!Next
  <1>5. ASSUME NEW c \in Ctl, AddProxy(c)
        PROVE  Registry!Next \/ UNCHANGED Registry!vars
    <2> DEFINE m == task[c].name
    <2>1. m \in Name /\ phase[c] \in Started
      BY <1>5, BusyTask, BusyLive DEF AddProxy, Inv, Live
    <2>2. UNCHANGED <<runID, phase, shut>>
      BY <1>5 DEF AddProxy, sessionVars
    <2>3. CASE pxys[m] = NoCtl
      <3>1. Registry!Claim(c, m)
        BY <2>1, <2>2, <2>3, <1>5 DEF AddProxy, Registry!Claim
      <3> QED
        BY <2>1, <3>1 DEF Registry!Next
    <2>4. CASE pxys[m] # NoCtl
      BY <2>2, <2>4, <1>5 DEF AddProxy
    <2> QED
      BY <2>3, <2>4
  <1>6. ASSUME NEW c \in Ctl, DelProxy(c) PROVE Registry!Next
    <2> DEFINE m == task[c].name
    <2>1. m \in Name /\ phase[c] \in Started /\ pxys[m] = c
      BY <1>6, BusyTask, BusyLive
         DEF DelProxy, Inv, Live, ProxyInv, HandlerState, NamesAgree
    <2>2. Registry!Release(c, m)
      BY <2>1, <1>6 DEF DelProxy, sessionVars, Registry!Release
    <2> QED
      BY <2>1, <2>2 DEF Registry!Next
  <1>7. ASSUME NEW c \in Ctl, DispatcherDone(c) \/ DelControl(c)
        PROVE  UNCHANGED Registry!vars
    <2>1. LiveCtls' = LiveCtls /\ EndedCtls' = EndedCtls
      BY <1>7 DEF DispatcherDone, DelControl, LiveCtls, EndedCtls, Started, Finished,
                  Inv, TypeOK
    <2> QED
      BY <1>7, <2>1 DEF DispatcherDone, DelControl, proxyVars, LiveCtls, EndedCtls
  <1>8. ASSUME UNCHANGED <<runID, phase, pxys, shut>>
        PROVE  UNCHANGED Registry!vars
    BY <1>8
  <1>9. ASSUME NEW c \in Ctl,
               \/ Peer(c) \/ Tick(c) \/ HeartbeatExpire(c)
               \/ CheckExist(c) \/ RunProxy(c) \/ RunProxyFails(c) \/ InsertProxy(c)
               \/ UndoRun(c) \/ ReturnQuota(c)
               \/ \E n \in Name : CleanupProxy(c, n)
        PROVE  UNCHANGED <<runID, phase, pxys, shut>>
    BY <1>9 DEF Peer, Tick, HeartbeatExpire, CheckExist, RunProxy, RunProxyFails,
       InsertProxy, UndoRun, ReturnQuota, CleanupProxy, PeerClose, HandlePing,
       HandleNewProxy, HandleCloseProxy, sessionVars, proxyVars
  <1>10. CASE UNCHANGED vars
    BY <1>10, <1>8 DEF vars, sessionVars, proxyVars
  <1> QED
    BY <1>1, <1>2, <1>3, <1>4, <1>5, <1>6, <1>7, <1>8, <1>9, <1>10
       DEF Next, Handler, Worker

\* The control plane implements SessionRegistry: one live session per client,
\* one owner per name, a session ends with no name left.
THEOREM RegistryImplemented == Spec => ImplementsRegistry
  <1>1. Inv /\ [Next]_vars => [Registry!Next]_(Registry!vars)
    BY RegistryStep
  <1> QED
    BY <1>1, RegistryInit, Invariance, PTL
       DEF Spec, ImplementsRegistry, Registry!Spec

=============================================================================
