---------------------------- MODULE WorkConnPool ----------------------------
(***************************************************************************)
(* The work connections of one control: the pool workConnCh that            *)
(* Control.RegisterWorkConn fills and Control.GetWorkConn empties           *)
(* (server/control.go), the ReqWorkConn messages that ask the client for    *)
(* more, and the user connections that BaseProxy.GetWorkConnFromPool serves  *)
(* (server/proxy/proxy.go).                                                  *)
(*                                                                          *)
(* The actors are the goroutine of every user connection, the goroutine of   *)
(* every arriving work connection, the goroutine of Start that asks for the  *)
(* first connections, the worker that closes the pool, and the client.       *)
(***************************************************************************)
EXTENDS Integers, Sequences, FiniteSets

CONSTANTS
    User,       \* user connections
    PoolCount,  \* Control.poolCount
    Spare,      \* what the pool holds beyond poolCount, 10 in NewControl
    SendCap,    \* capacity of Dispatcher.sendCh, 100 in NewDispatcher
    MaxConns,   \* bound: how many work connections the client opens
    ClientFails \* whether the client may stall, fail to dial or lose connections

ASSUME PoolAssumption ==
    /\ PoolCount \in Nat
    /\ Spare \in Nat
    /\ SendCap \in Nat \ {0}
    /\ MaxConns \in Nat
    /\ ClientFails \in BOOLEAN

Conn   == 1 .. MaxConns
NoConn == 0

VARIABLES
    workConnCh, \* the connections in the pool, oldest first
    chClosed,   \* close(workConnCh) has happened
    done,       \* the dispatcher's doneCh is closed
    registered, \* the control is in ControlManager.ctlsByRunID
    sendCh,     \* number of ReqWorkConn messages sent and not yet answered
    toStart,    \* ReqWorkConn messages Start has still to send
    opened,     \* how many work connections the client has opened
    conn,       \* where a work connection is
    broken,     \* the client's end of the connection is gone
    stalled,    \* the client has stopped reading its control connection
    lost,       \* some ReqWorkConn was not answered by a connection that arrived
    pc,         \* where the goroutine of a user connection is
    tries,      \* the loop counter of GetWorkConnFromPool
    held        \* the work connection the goroutine has

poolVars == <<workConnCh, chClosed, done, registered>>
envVars  == <<opened, stalled, lost>>
userVars == <<pc, tries, held>>
vars == <<poolVars, sendCh, toStart, envVars, conn, broken, userVars>>

ConnStates == {"none", "arrived", "found", "pooled", "taken", "closed", "leaked"}
PCs == {"idle", "get", "ask", "wait", "refill", "write", "joined", "refused"}

TypeOK ==
    /\ workConnCh \in Seq(Conn) /\ Len(workConnCh) <= PoolCount + Spare
    /\ chClosed \in BOOLEAN /\ done \in BOOLEAN /\ registered \in BOOLEAN
    /\ sendCh \in 0 .. SendCap
    /\ toStart \in 0 .. PoolCount
    /\ opened \in 0 .. MaxConns
    /\ conn \in [Conn -> ConnStates]
    /\ broken \in [Conn -> BOOLEAN]
    /\ stalled \in BOOLEAN /\ lost \in BOOLEAN
    /\ pc \in [User -> PCs]
    /\ tries \in [User -> 0 .. PoolCount]
    /\ held \in [User -> Conn \cup {NoConn}]

Init ==
    /\ workConnCh = <<>>
    /\ chClosed = FALSE /\ done = FALSE /\ registered = TRUE
    /\ sendCh = 0
    /\ toStart = PoolCount
    /\ opened = 0
    /\ conn = [w \in Conn |-> "none"]
    /\ broken = [w \in Conn |-> FALSE]
    /\ stalled = FALSE /\ lost = FALSE
    /\ pc = [u \in User |-> "idle"]
    /\ tries = [u \in User |-> 0]
    /\ held = [u \in User |-> NoConn]

SetConn(w, s) == conn' = [conn EXCEPT ![w] = s]
Goto(u, l)    == pc' = [pc EXCEPT ![u] = l]

\* Dispatcher.Send of a ReqWorkConn, with its result: it waits for room in
\* sendCh or for doneCh, and takes either when both are there.
SendReq(ok) ==
    IF ok THEN sendCh < SendCap /\ sendCh' = sendCh + 1
          ELSE done /\ sendCh' = sendCh

-----------------------------------------------------------------------------
(* The control *)

\* Start: the goroutine that asks for the first poolCount connections.
StartReq ==
    /\ toStart > 0
    /\ \E ok \in BOOLEAN : SendReq(ok)
    /\ toStart' = toStart - 1
    /\ UNCHANGED <<poolVars, envVars, conn, broken, userVars>>

\* The control connection ends, by the client or by the heartbeat; readLoop
\* closes doneCh.
DispatcherDone ==
    /\ ~done
    /\ done' = TRUE
    /\ UNCHANGED <<workConnCh, chClosed, registered, sendCh, toStart, envVars,
                   conn, broken, userVars>>

\* worker: close(workConnCh).
CloseCh ==
    /\ done
    /\ ~chClosed
    /\ chClosed' = TRUE
    /\ UNCHANGED <<workConnCh, done, registered, sendCh, toStart, envVars, conn,
                   broken, userVars>>

\* Mutant: the worker closes the pool but not what is in it.
DrainNone ==
    /\ chClosed
    /\ workConnCh # <<>>
    /\ workConnCh' = Tail(workConnCh)
    /\ UNCHANGED <<chClosed, done, registered, sendCh, toStart, envVars, conn,
                   broken, userVars>>

\* worker: the loop that closes what is left in the pool.
Drain ==
    /\ chClosed
    /\ workConnCh # <<>>
    /\ SetConn(Head(workConnCh), "closed")
    /\ workConnCh' = Tail(workConnCh)
    /\ UNCHANGED <<chClosed, done, registered, sendCh, toStart, envVars, broken,
                   userVars>>

\* The worker is done and RegisterControl's goroutine removes the control.
Unregister ==
    /\ chClosed
    /\ workConnCh = <<>>
    /\ registered
    /\ registered' = FALSE
    /\ UNCHANGED <<workConnCh, chClosed, done, sendCh, toStart, envVars, conn,
                   broken, userVars>>

-----------------------------------------------------------------------------
(* The client *)

\* sendLoop writes the ReqWorkConn and handleReqWorkConn of the client opens a
\* connection that arrives with a NewWorkConn message.
ClientDials ==
    /\ sendCh > 0 /\ ~done /\ ~stalled
    /\ opened < MaxConns
    /\ sendCh' = sendCh - 1
    /\ opened' = opened + 1
    /\ SetConn(opened + 1, "arrived")
    /\ UNCHANGED <<poolVars, toStart, stalled, lost, broken, userVars>>

\* The client does not get a connection through.
ClientDialFails ==
    /\ ClientFails
    /\ sendCh > 0 /\ ~done /\ ~stalled
    /\ sendCh' = sendCh - 1
    /\ lost' = TRUE
    /\ UNCHANGED <<poolVars, toStart, opened, stalled, conn, broken, userVars>>

\* The client hangs: its control connection stays open until the heartbeat.
ClientStalls ==
    /\ ClientFails
    /\ ~stalled /\ ~done
    /\ stalled' = TRUE
    /\ UNCHANGED <<poolVars, sendCh, toStart, opened, lost, conn, broken, userVars>>

\* A waiting work connection breaks; the server does not notice.
ConnBreaks(w) ==
    /\ ClientFails
    /\ conn[w] \in {"arrived", "found", "pooled", "taken"}
    /\ ~broken[w]
    /\ broken' = [broken EXCEPT ![w] = TRUE]
    /\ UNCHANGED <<poolVars, sendCh, toStart, envVars, conn, userVars>>

-----------------------------------------------------------------------------
(* An arriving work connection *)

\* Service.RegisterWorkConn: GetByID, the plugin and the verifier.
LookUpControl(w) ==
    /\ conn[w] = "arrived"
    /\ SetConn(w, IF registered THEN "found" ELSE "closed")
    /\ UNCHANGED <<poolVars, sendCh, toStart, envVars, broken, userVars>>

\* Control.RegisterWorkConn: the send that never blocks.  A full pool is an
\* error and the caller closes the connection.
RegisterWorkConn(w) ==
    /\ conn[w] = "found"
    /\ ~chClosed
    /\ IF Len(workConnCh) < PoolCount + Spare
       THEN workConnCh' = Append(workConnCh, w) /\ SetConn(w, "pooled")
       ELSE UNCHANGED workConnCh /\ SetConn(w, "closed")
    /\ UNCHANGED <<chClosed, done, registered, sendCh, toStart, envVars, broken,
                   userVars>>

\* Control.RegisterWorkConn after close(workConnCh): the send panics, recover
\* swallows it and the caller sees no error, so nobody closes the connection.
RegisterWorkConnPanics(w) ==
    /\ conn[w] = "found"
    /\ chClosed
    /\ SetConn(w, "leaked")
    /\ UNCHANGED <<poolVars, sendCh, toStart, envVars, broken, userVars>>

-----------------------------------------------------------------------------
(* A user connection *)

\* The proxy's listener accepts a user connection.
Accept(u) ==
    /\ pc[u] = "idle"
    /\ Goto(u, "get")
    /\ UNCHANGED <<poolVars, sendCh, toStart, envVars, conn, broken, tries, held>>

TakeFromPool(u) ==
    /\ workConnCh # <<>>
    /\ held' = [held EXCEPT ![u] = Head(workConnCh)]
    /\ SetConn(Head(workConnCh), "taken")
    /\ workConnCh' = Tail(workConnCh)
    /\ Goto(u, "refill")
    /\ UNCHANGED <<chClosed, done, registered, sendCh, toStart, envVars, broken,
                   tries>>

Refuse(u) ==
    /\ Goto(u, "refused")
    /\ UNCHANGED <<poolVars, sendCh, toStart, envVars, conn, broken, tries, held>>

\* GetWorkConn: the first select, a connection, a closed channel or neither.
GetWorkConn(u) ==
    /\ pc[u] = "get"
    /\ \/ TakeFromPool(u)
       \/ workConnCh = <<>> /\ chClosed /\ Refuse(u)
       \/ /\ workConnCh = <<>> /\ ~chClosed
          /\ Goto(u, "ask")
          /\ UNCHANGED <<poolVars, sendCh, toStart, envVars, conn, broken, tries,
                         held>>

\* GetWorkConn: the pool was empty, ask the client; "control is already closed"
\* when Send fails.
AskClient(u) ==
    /\ pc[u] = "ask"
    /\ \E ok \in BOOLEAN : SendReq(ok) /\ Goto(u, IF ok THEN "wait" ELSE "refused")
    /\ UNCHANGED <<poolVars, toStart, envVars, conn, broken, tries, held>>

\* Mutant: no timeout while waiting for a connection.
WaitWorkConnForever(u) ==
    /\ pc[u] = "wait"
    /\ \/ TakeFromPool(u)
       \/ workConnCh = <<>> /\ chClosed /\ Refuse(u)

\* GetWorkConn: the second select, a connection, or an error from the closed
\* channel or from the timeout of UserConnTimeout seconds.
WaitWorkConn(u) ==
    /\ pc[u] = "wait"
    /\ TakeFromPool(u) \/ Refuse(u)

\* Mutant: the connection taken is not replaced.
RefillNot(u) ==
    /\ pc[u] = "refill"
    /\ Goto(u, "write")
    /\ UNCHANGED <<poolVars, sendCh, toStart, envVars, conn, broken, tries, held>>

\* GetWorkConn: "When we get a work connection from pool, replace it with a new
\* one."  The result of Send is ignored.
Refill(u) ==
    /\ pc[u] = "refill"
    /\ \E ok \in BOOLEAN : SendReq(ok)
    /\ Goto(u, "write")
    /\ UNCHANGED <<poolVars, toStart, envVars, conn, broken, tries, held>>

\* GetWorkConnFromPool: StartWorkConn is written (a broken connection may take
\* the bytes or refuse them).
WriteStart(u) ==
    /\ pc[u] = "write"
    /\ Goto(u, "joined")
    /\ UNCHANGED <<poolVars, sendCh, toStart, envVars, conn, broken, tries, held>>

\* Mutant: a failed connection does not count as a try.
WriteStartFailsUncounted(u) ==
    /\ pc[u] = "write"
    /\ broken[held[u]]
    /\ SetConn(held[u], "closed")
    /\ Goto(u, "get")
    /\ UNCHANGED <<poolVars, sendCh, toStart, envVars, broken, tries, held>>

\* GetWorkConnFromPool: the write fails, the connection is closed and the next
\* one is tried.  The error lives in the loop's own err, so when poolCount + 1
\* connections have failed the last one is returned without an error.
WriteStartFails(u) ==
    /\ pc[u] = "write"
    /\ broken[held[u]]
    /\ SetConn(held[u], "closed")
    /\ IF tries[u] < PoolCount
       THEN tries' = [tries EXCEPT ![u] = @ + 1] /\ Goto(u, "get")
       ELSE UNCHANGED tries /\ Goto(u, "joined")
    /\ UNCHANGED <<poolVars, sendCh, toStart, envVars, broken, held>>

-----------------------------------------------------------------------------
UserStep(u) == \/ GetWorkConn(u) \/ AskClient(u) \/ WaitWorkConn(u) \/ Refill(u)
               \/ WriteStart(u) \/ WriteStartFails(u)

ConnStep(w) == LookUpControl(w) \/ RegisterWorkConn(w) \/ RegisterWorkConnPanics(w)

CloseStep == CloseCh \/ Drain \/ Unregister

Next ==
    \/ StartReq \/ DispatcherDone \/ CloseStep
    \/ ClientDials \/ ClientDialFails \/ ClientStalls
    \/ \E w \in Conn : ConnBreaks(w) \/ ConnStep(w)
    \/ \E u \in User : Accept(u) \/ UserStep(u)

Spec == Init /\ [][Next]_vars

\* The server's goroutines run; a client that hangs is thrown out by the
\* heartbeat (ServerControl: SilentClientEvicted); a client that does not hang
\* answers what it is asked, by a connection or by failing to make one.
Fairness ==
    /\ WF_vars(StartReq) /\ WF_vars(CloseStep)
    /\ \A w \in Conn : WF_vars(ConnStep(w))
    /\ \A u \in User : WF_vars(UserStep(u))
    /\ WF_vars(ClientDials \/ ClientDialFails)
    /\ WF_vars(stalled /\ DispatcherDone)

FairSpec == Spec /\ Fairness

-----------------------------------------------------------------------------
(* Correctness *)

Arriving  == {w \in Conn : conn[w] \in {"arrived", "found"}}
Refilling == {u \in User : pc[u] = "refill"}

\* The pool is kept at poolCount: every connection that users take, lose or are
\* refused by a timeout has been asked for again, so, as long as the control is
\* open and the client answers, what is pooled, on its way or still to be asked
\* for never falls below poolCount.
PoolNeverStarves ==
    ~done /\ ~lost =>
        Len(workConnCh) + sendCh + toStart + Cardinality(Arriving)
            + Cardinality(Refilling) >= PoolCount

\* worker closes what is in the pool although user connections take from it
\* meanwhile: when the control has left the registry, no connection is pooled,
\* and none gets there afterwards.
NothingLeftPooled ==
    ~registered => workConnCh = <<>> /\ \A w \in Conn : conn[w] # "pooled"

\* A goroutine has its connection from GetWorkConn on until StartWorkConn fails.
HasConn ==
    [u \in User |-> IF pc[u] \in {"refill", "write", "joined"} THEN held[u] ELSE NoConn]

\* No work connection serves two users, whichever of them take from the pool, time out
\* or retry at the same time.
NoSharedConn ==
    \A u, v \in User : u # v /\ HasConn[u] = HasConn[v] => HasConn[u] = NoConn

\* The pool never holds more than poolCount + 10 connections, the counters of
\* queued and retried requests stay in their bounds, nothing is left pooled by a
\* control that is gone, and no connection is handed out twice.
PoolSound == TypeOK /\ NothingLeftPooled /\ NoSharedConn

\* Every user connection gets a work connection or is refused, even when the
\* client hangs with a full sendCh or the control closes meanwhile.
UserIsAnswered ==
    \A u \in User : pc[u] = "get" ~> pc[u] \in {"joined", "refused"}

\* When the control is over, every connection that was waiting in the pool is
\* closed or was taken by a user before.
PoolIsEmptied ==
    \A w \in Conn : (conn[w] = "pooled" /\ done) ~> conn[w] \in {"closed", "taken"}

-----------------------------------------------------------------------------
(* Refinement *)

\* The connections that are not handed out any more, and the users that are settled.
Spent    == {w \in Conn : conn[w] \in {"taken", "closed", "leaked"}}
Answered == {u \in User : pc[u] \in {"joined", "refused"}}

Handout == INSTANCE ConnHandout
    WITH Most <- PoolCount + 1, has <- HasConn, failed <- tries, spent <- Spent,
         answered <- Answered, gone <- ~registered

\* Whichever users empty the pool, wait, time out and retry while connections arrive, break
\* and are drained by the closing control, the pool hands out as ConnHandout says: no work
\* connection serves two users, or one after it was drained, refused by a full pool or
\* failed, no user gets more than poolCount + 1, and none gets one from a control that has
\* left the registry.
ImplementsHandout == Handout!Spec
=============================================================================
