------------------------ MODULE WorkConnPool_proofs ------------------------
(***************************************************************************)
(* Proofs about WorkConnPool, for every set of user connections, every pool   *)
(* size, every capacity of sendCh and every number of work connections.       *)
(*                                                                          *)
(* QueueInv ties the channel to the state of the connections: what is in the   *)
(* channel is pooled, once, and what is pooled is in the channel.  Starvation  *)
(* counts with it.                                                            *)
(***************************************************************************)
EXTENDS WorkConnPool, FiniteSetTheorems, TLAPS

\* The order in which a control ends.
EndInv == (chClosed => done) /\ (~registered => chClosed /\ workConnCh = <<>>)

\* The channel holds the pooled connections, each of them once.
QueueInv ==
    /\ \A w \in Conn : conn[w] = "pooled" => \E i \in 1 .. Len(workConnCh) : workConnCh[i] = w
    /\ \A i \in 1 .. Len(workConnCh) : conn[workConnCh[i]] = "pooled"
    /\ \A i, j \in 1 .. Len(workConnCh) : workConnCh[i] = workConnCh[j] => i = j

\* Connections appear in the order in which the client opens them, and one that a user
\* connection holds is not on its way any more.
ConnInv ==
    /\ \A w \in Conn : w > opened => conn[w] = "none"
    /\ \A u \in User : pc[u] \in {"refill", "write"} =>
          held[u] \in Conn /\ conn[held[u]] \in {"taken", "closed"}

TablesInv == TypeOK /\ EndInv /\ QueueInv /\ ConnInv

\* Only finitely many user connections have a connection to replace.
SupplyInv == IsFiniteSet(Refilling) /\ PoolNeverStarves

Inv == TablesInv /\ SupplyInv

---------------------------------------------------------------------------
LEMMA InitInv == Init => Inv
<1> SUFFICES ASSUME Init PROVE Inv OBVIOUS
<1> USE PoolAssumption DEF Init
<1>1. TypeOK
  <2>1. workConnCh \in Seq(Conn) /\ Len(workConnCh) <= PoolCount + Spare
    OBVIOUS
  <2>2. sendCh \in 0 .. SendCap /\ toStart \in 0 .. PoolCount /\ opened \in 0 .. MaxConns
    OBVIOUS
  <2>3. conn \in [Conn -> ConnStates] /\ broken \in [Conn -> BOOLEAN]
    BY DEF ConnStates
  <2>4. pc \in [User -> PCs] /\ held \in [User -> Conn \cup {NoConn}]
    BY DEF PCs
  <2>5. tries \in [User -> 0 .. PoolCount]
    <3>1. 0 \in 0 .. PoolCount
      OBVIOUS
    <3> QED BY <3>1
  <2> QED BY <2>1, <2>2, <2>3, <2>4, <2>5 DEF TypeOK
<1>2. EndInv /\ QueueInv /\ ConnInv
  BY DEF EndInv, QueueInv, ConnInv
<1>3. Refilling = {} /\ Arriving = {}
  BY DEF Refilling, Arriving
<1>4. IsFiniteSet(Refilling) /\ PoolNeverStarves
  BY <1>3, FS_EmptySet DEF PoolNeverStarves
<1> QED BY <1>1, <1>2, <1>4 DEF Inv, TablesInv, SupplyInv

\* A connection leaves the channel at its head.
LEMMA HeadFacts ==
    ASSUME TypeOK, workConnCh # <<>>
    PROVE  /\ Head(workConnCh) \in Conn /\ Head(workConnCh) = workConnCh[1]
           /\ Tail(workConnCh) \in Seq(Conn) /\ Len(Tail(workConnCh)) = Len(workConnCh) - 1
           /\ Len(workConnCh) \in Nat /\ Len(workConnCh) >= 1
           /\ \A i \in 1 .. Len(workConnCh) - 1 : Tail(workConnCh)[i] = workConnCh[i + 1]
BY DEF TypeOK

LEMMA TakeHead ==
    ASSUME TypeOK, QueueInv, workConnCh # <<>>, NEW s \in {"taken", "closed"},
           workConnCh' = Tail(workConnCh), conn' = [conn EXCEPT ![Head(workConnCh)] = s]
    PROVE  QueueInv'
<1> DEFINE h == Head(workConnCh)
<1>1. /\ h \in Conn /\ h = workConnCh[1]
      /\ Len(workConnCh') = Len(workConnCh) - 1 /\ Len(workConnCh) \in Nat /\ Len(workConnCh) >= 1
      /\ \A i \in 1 .. Len(workConnCh) - 1 : workConnCh'[i] = workConnCh[i + 1]
  BY HeadFacts
<1>2. conn'[h] = s /\ \A w \in Conn : w # h => conn'[w] = conn[w]
  BY <1>1 DEF TypeOK
<1>3. \A i \in 1 .. Len(workConnCh) : workConnCh[i] \in Conn
  BY DEF TypeOK
<1> HIDE DEF h
<1>4. \A w \in Conn : conn'[w] = "pooled" => \E i \in 1 .. Len(workConnCh') : workConnCh'[i] = w
  <2> SUFFICES ASSUME NEW w \in Conn, conn'[w] = "pooled"
               PROVE  \E i \in 1 .. Len(workConnCh') : workConnCh'[i] = w
    OBVIOUS
  <2>1. w # h /\ conn[w] = "pooled"
    BY <1>2
  <2>2. PICK i \in 1 .. Len(workConnCh) : workConnCh[i] = w
    BY <2>1 DEF QueueInv
  <2>3. i - 1 \in 1 .. Len(workConnCh') /\ workConnCh'[i - 1] = w
    BY <1>1, <2>1, <2>2
  <2> QED BY <2>3
<1>5. \A i, j \in 1 .. Len(workConnCh') : workConnCh'[i] = workConnCh'[j] => i = j
  BY <1>1 DEF QueueInv
<1>6. \A i \in 1 .. Len(workConnCh') : conn'[workConnCh'[i]] = "pooled"
  <2> SUFFICES ASSUME NEW i \in 1 .. Len(workConnCh') PROVE conn'[workConnCh'[i]] = "pooled"
    OBVIOUS
  <2>1. i + 1 \in 1 .. Len(workConnCh) /\ workConnCh'[i] = workConnCh[i + 1] /\ i + 1 # 1
        /\ 1 \in 1 .. Len(workConnCh)
    BY <1>1
  <2>2. workConnCh[i + 1] # h
    BY <1>1, <2>1 DEF QueueInv
  <2> QED BY <1>2, <1>3, <2>1, <2>2 DEF QueueInv
<1> QED BY <1>4, <1>5, <1>6 DEF QueueInv

\* A step that moves connections among states other than pooled.
LEMMA QueueFrame ==
    ASSUME TypeOK, QueueInv, workConnCh' = workConnCh,
           \A w \in Conn : conn'[w] = "pooled" <=> conn[w] = "pooled"
    PROVE  QueueInv'
<1>1. \A i \in 1 .. Len(workConnCh) : workConnCh[i] \in Conn
  BY DEF TypeOK
<1> QED BY <1>1 DEF QueueInv

LEMMA RegisterQueue ==
    ASSUME TypeOK, QueueInv, NEW w \in Conn, conn[w] = "found",
           workConnCh' = Append(workConnCh, w), conn' = [conn EXCEPT ![w] = "pooled"]
    PROVE  QueueInv'
<1>1. /\ Len(workConnCh) \in Nat /\ Len(workConnCh') = Len(workConnCh) + 1
      /\ workConnCh'[Len(workConnCh) + 1] = w
      /\ \A i \in 1 .. Len(workConnCh) : workConnCh'[i] = workConnCh[i] /\ workConnCh[i] \in Conn
  BY DEF TypeOK
<1>2. conn'[w] = "pooled" /\ \A v \in Conn : v # w => conn'[v] = conn[v]
  BY DEF TypeOK
<1>3. \A i \in 1 .. Len(workConnCh) : workConnCh[i] # w
  BY DEF QueueInv
<1>4. \A i \in 1 .. Len(workConnCh') : i \in 1 .. Len(workConnCh) \/ i = Len(workConnCh) + 1
  BY <1>1
<1>5. \A v \in Conn : conn'[v] = "pooled" => \E i \in 1 .. Len(workConnCh') : workConnCh'[i] = v
  <2> SUFFICES ASSUME NEW v \in Conn, conn'[v] = "pooled"
               PROVE  \E i \in 1 .. Len(workConnCh') : workConnCh'[i] = v
    OBVIOUS
  <2>1. CASE v = w
    <3>1. Len(workConnCh) + 1 \in 1 .. Len(workConnCh')
      BY <1>1
    <3> QED BY <1>1, <2>1, <3>1
  <2>2. CASE v # w
    <3>1. PICK i \in 1 .. Len(workConnCh) : workConnCh[i] = v
      BY <1>2, <2>2 DEF QueueInv
    <3>2. i \in 1 .. Len(workConnCh') /\ workConnCh'[i] = v
      BY <1>1, <3>1
    <3> QED BY <3>2
  <2> QED BY <2>1, <2>2
<1>6. \A i \in 1 .. Len(workConnCh') : conn'[workConnCh'[i]] = "pooled"
  BY <1>1, <1>2, <1>3, <1>4 DEF QueueInv
<1>7. \A i, j \in 1 .. Len(workConnCh') : workConnCh'[i] = workConnCh'[j] => i = j
  BY <1>1, <1>3, <1>4 DEF QueueInv
<1> QED BY <1>5, <1>6, <1>7 DEF QueueInv

---------------------------------------------------------------------------
(* The tables *)

LEMMA StartReqTables == TablesInv /\ StartReq => TablesInv'
<1> SUFFICES ASSUME TablesInv, StartReq PROVE TablesInv' OBVIOUS
<1> USE PoolAssumption
<1>1. UNCHANGED <<workConnCh, chClosed, done, registered, opened, stalled, lost, conn, broken, pc, tries, held>>
  BY DEF StartReq, poolVars, envVars, userVars
<1>2. sendCh' \in 0 .. SendCap /\ toStart' \in 0 .. PoolCount
  BY DEF TablesInv, TypeOK, StartReq, SendReq
<1>3. TypeOK'
  BY <1>1, <1>2 DEF TablesInv, TypeOK
<1> QED BY <1>1, <1>3 DEF TablesInv, EndInv, QueueInv, ConnInv

LEMMA DispatcherDoneTables == TablesInv /\ DispatcherDone => TablesInv'
<1> SUFFICES ASSUME TablesInv, DispatcherDone PROVE TablesInv' OBVIOUS
<1>1. /\ done' = TRUE
      /\ UNCHANGED <<workConnCh, chClosed, registered, sendCh, toStart, opened, stalled, lost, conn, broken, pc, tries, held>>
  BY DEF DispatcherDone, envVars, userVars
<1>2. TypeOK'
  BY <1>1 DEF TablesInv, TypeOK
<1> QED BY <1>1, <1>2 DEF TablesInv, EndInv, QueueInv, ConnInv

LEMMA CloseChTables == TablesInv /\ CloseCh => TablesInv'
<1> SUFFICES ASSUME TablesInv, CloseCh PROVE TablesInv' OBVIOUS
<1>1. /\ chClosed' = TRUE /\ done
      /\ UNCHANGED <<workConnCh, done, registered, sendCh, toStart, opened, stalled, lost, conn, broken, pc, tries, held>>
  BY DEF CloseCh, envVars, userVars
<1>2. TypeOK'
  BY <1>1 DEF TablesInv, TypeOK
<1> QED BY <1>1, <1>2 DEF TablesInv, EndInv, QueueInv, ConnInv

LEMMA UnregisterTables == TablesInv /\ Unregister => TablesInv'
<1> SUFFICES ASSUME TablesInv, Unregister PROVE TablesInv' OBVIOUS
<1>1. /\ registered' = FALSE /\ chClosed /\ workConnCh = <<>>
      /\ UNCHANGED <<workConnCh, chClosed, done, sendCh, toStart, opened, stalled, lost, conn, broken, pc, tries, held>>
  BY DEF Unregister, envVars, userVars
<1>2. TypeOK'
  BY <1>1 DEF TablesInv, TypeOK
<1> QED BY <1>1, <1>2 DEF TablesInv, EndInv, QueueInv, ConnInv

\* A step that sets one connection to a state other than pooled, of a connection that is not pooled
\* either, keeps the channel as it is.
LEMMA SetConnTables ==
    ASSUME TablesInv, NEW w \in Conn, NEW s \in ConnStates, SetConn(w, s),
           conn[w] # "pooled", s # "pooled", UNCHANGED workConnCh
    PROVE  /\ conn' \in [Conn -> ConnStates] /\ QueueInv'
           /\ conn'[w] = s /\ \A v \in Conn : v # w => conn'[v] = conn[v]
<1>1. conn' \in [Conn -> ConnStates] /\ conn'[w] = s /\ \A v \in Conn : v # w => conn'[v] = conn[v]
  BY DEF TablesInv, TypeOK, SetConn
<1>2. \A v \in Conn : conn'[v] = "pooled" <=> conn[v] = "pooled"
  BY <1>1
<1> QED BY <1>1, <1>2, QueueFrame DEF TablesInv

LEMMA ClientDialsTables == TablesInv /\ ClientDials => TablesInv'
<1> SUFFICES ASSUME TablesInv, ClientDials PROVE TablesInv' OBVIOUS
<1> USE PoolAssumption
<1>1. /\ SetConn(opened + 1, "arrived") /\ opened < MaxConns /\ opened' = opened + 1 /\ sendCh' = sendCh - 1 /\ sendCh > 0
      /\ UNCHANGED <<workConnCh, chClosed, done, registered, toStart, stalled, lost, broken, pc, tries, held>>
  BY DEF ClientDials, poolVars, userVars
<1>2. /\ opened \in 0 .. MaxConns /\ sendCh' \in 0 .. SendCap /\ opened' \in 0 .. MaxConns
      /\ opened + 1 \in Conn /\ opened + 1 > opened
  BY <1>1 DEF TablesInv, TypeOK, Conn
<1>3. conn[opened + 1] = "none"
  BY <1>2 DEF TablesInv, ConnInv
<1>4. /\ conn' \in [Conn -> ConnStates] /\ QueueInv'
      /\ conn'[opened + 1] = "arrived" /\ \A v \in Conn : v # opened + 1 => conn'[v] = conn[v]
  BY <1>1, <1>2, <1>3, SetConnTables DEF ConnStates
<1>5. TypeOK'
  BY <1>1, <1>2, <1>4 DEF TablesInv, TypeOK
<1>6. EndInv'
  BY <1>1 DEF TablesInv, EndInv
<1>7. \A w \in Conn : w > opened' => conn'[w] = "none"
  BY <1>1, <1>2, <1>4 DEF TablesInv, ConnInv, Conn
<1>8. \A u \in User : pc'[u] \in {"refill", "write"} => held'[u] \in Conn /\ conn'[held'[u]] \in {"taken", "closed"}
  BY <1>1, <1>3, <1>4 DEF TablesInv, ConnInv
<1> QED BY <1>4, <1>5, <1>6, <1>7, <1>8 DEF TablesInv, ConnInv

LEMMA ClientDialFailsTables == TablesInv /\ ClientDialFails => TablesInv'
<1> SUFFICES ASSUME TablesInv, ClientDialFails PROVE TablesInv' OBVIOUS
<1> USE PoolAssumption
<1>1. /\ sendCh > 0 /\ sendCh' = sendCh - 1 /\ lost' = TRUE
      /\ UNCHANGED <<workConnCh, chClosed, done, registered, toStart, opened, stalled, conn, broken, pc, tries, held>>
  BY DEF ClientDialFails, poolVars, userVars
<1>2. sendCh' \in 0 .. SendCap
  BY <1>1 DEF TablesInv, TypeOK
<1>3. TypeOK'
  BY <1>1, <1>2 DEF TablesInv, TypeOK
<1> QED BY <1>1, <1>3 DEF TablesInv, EndInv, QueueInv, ConnInv

LEMMA ClientStallsTables == TablesInv /\ ClientStalls => TablesInv'
<1> SUFFICES ASSUME TablesInv, ClientStalls PROVE TablesInv' OBVIOUS
<1>1. /\ stalled' = TRUE
      /\ UNCHANGED <<workConnCh, chClosed, done, registered, sendCh, toStart, opened, lost, conn, broken, pc, tries, held>>
  BY DEF ClientStalls, poolVars, userVars
<1>2. TypeOK'
  BY <1>1 DEF TablesInv, TypeOK
<1> QED BY <1>1, <1>2 DEF TablesInv, EndInv, QueueInv, ConnInv

LEMMA ConnBreaksTables == \A w \in Conn : TablesInv /\ ConnBreaks(w) => TablesInv'
<1> SUFFICES ASSUME NEW w \in Conn, TablesInv, ConnBreaks(w) PROVE TablesInv' OBVIOUS
<1>1. /\ broken' = [broken EXCEPT ![w] = TRUE]
      /\ UNCHANGED <<workConnCh, chClosed, done, registered, sendCh, toStart, opened, stalled, lost, conn, pc, tries, held>>
  BY DEF ConnBreaks, poolVars, envVars, userVars
<1>2. broken' \in [Conn -> BOOLEAN]
  BY <1>1 DEF TablesInv, TypeOK
<1>3. TypeOK'
  BY <1>1, <1>2 DEF TablesInv, TypeOK
<1> QED BY <1>1, <1>3 DEF TablesInv, EndInv, QueueInv, ConnInv

LEMMA LookUpControlTables == \A w \in Conn : TablesInv /\ LookUpControl(w) => TablesInv'
<1> SUFFICES ASSUME NEW w \in Conn, TablesInv, LookUpControl(w) PROVE TablesInv' OBVIOUS
<1> DEFINE s == IF registered THEN "found" ELSE "closed"
<1>1. /\ conn[w] = "arrived" /\ SetConn(w, s)
      /\ UNCHANGED <<workConnCh, chClosed, done, registered, sendCh, toStart, opened, stalled, lost, broken, pc, tries, held>>
  BY DEF LookUpControl, poolVars, envVars, userVars
<1>2. s \in ConnStates /\ s # "pooled"
  BY DEF ConnStates
<1> HIDE DEF s
<1>3. /\ conn' \in [Conn -> ConnStates] /\ QueueInv'
      /\ conn'[w] = s /\ \A v \in Conn : v # w => conn'[v] = conn[v]
  BY <1>1, <1>2, SetConnTables
<1>4. TypeOK'
  BY <1>1, <1>3 DEF TablesInv, TypeOK
<1>5. ConnInv'
  BY <1>1, <1>3 DEF TablesInv, ConnInv
<1> QED BY <1>1, <1>3, <1>4, <1>5 DEF TablesInv, EndInv

LEMMA RegisterWorkConnTables == \A w \in Conn : TablesInv /\ RegisterWorkConn(w) => TablesInv'
<1> SUFFICES ASSUME NEW w \in Conn, TablesInv, RegisterWorkConn(w) PROVE TablesInv' OBVIOUS
<1> USE PoolAssumption
<1>1. /\ conn[w] = "found" /\ ~chClosed
      /\ UNCHANGED <<chClosed, done, registered, sendCh, toStart, opened, stalled, lost, broken, pc, tries, held>>
  BY DEF RegisterWorkConn, envVars, userVars
<1>2. EndInv'
  BY <1>1 DEF TablesInv, EndInv
<1>3. CASE Len(workConnCh) < PoolCount + Spare
  <2>1. workConnCh' = Append(workConnCh, w) /\ conn' = [conn EXCEPT ![w] = "pooled"]
    BY <1>3 DEF RegisterWorkConn, SetConn
  <2>2. QueueInv'
    BY <1>1, <2>1, RegisterQueue DEF TablesInv
  <2>3. workConnCh' \in Seq(Conn) /\ Len(workConnCh') <= PoolCount + Spare
    BY <1>3, <2>1 DEF TablesInv, TypeOK
  <2>4. /\ conn' \in [Conn -> ConnStates] /\ conn'[w] = "pooled"
        /\ \A v \in Conn : v # w => conn'[v] = conn[v]
    BY <2>1 DEF TablesInv, TypeOK, ConnStates
  <2>5. TypeOK'
    BY <1>1, <2>3, <2>4 DEF TablesInv, TypeOK
  <2>6. ConnInv'
    BY <1>1, <2>4 DEF TablesInv, ConnInv
  <2> QED BY <1>2, <2>2, <2>5, <2>6 DEF TablesInv
<1>4. CASE ~(Len(workConnCh) < PoolCount + Spare)
  <2>1. UNCHANGED workConnCh /\ SetConn(w, "closed")
    BY <1>4 DEF RegisterWorkConn
  <2>2. /\ conn' \in [Conn -> ConnStates] /\ QueueInv'
        /\ conn'[w] = "closed" /\ \A v \in Conn : v # w => conn'[v] = conn[v]
    BY <1>1, <2>1, SetConnTables DEF ConnStates
  <2>3. TypeOK'
    BY <1>1, <2>1, <2>2 DEF TablesInv, TypeOK
  <2>4. ConnInv'
    BY <1>1, <2>2 DEF TablesInv, ConnInv
  <2> QED BY <1>2, <2>2, <2>3, <2>4 DEF TablesInv
<1> QED BY <1>3, <1>4

LEMMA RegisterWorkConnPanicsTables == \A w \in Conn : TablesInv /\ RegisterWorkConnPanics(w) => TablesInv'
<1> SUFFICES ASSUME NEW w \in Conn, TablesInv, RegisterWorkConnPanics(w) PROVE TablesInv' OBVIOUS
<1>1. /\ conn[w] = "found" /\ SetConn(w, "leaked")
      /\ UNCHANGED <<workConnCh, chClosed, done, registered, sendCh, toStart, opened, stalled, lost, broken, pc, tries, held>>
  BY DEF RegisterWorkConnPanics, poolVars, envVars, userVars
<1>2. /\ conn' \in [Conn -> ConnStates] /\ QueueInv'
      /\ conn'[w] = "leaked" /\ \A v \in Conn : v # w => conn'[v] = conn[v]
  BY <1>1, SetConnTables DEF ConnStates
<1>3. TypeOK'
  BY <1>1, <1>2 DEF TablesInv, TypeOK
<1>4. ConnInv'
  BY <1>1, <1>2 DEF TablesInv, ConnInv
<1> QED BY <1>1, <1>2, <1>3, <1>4 DEF TablesInv, EndInv

\* What Drain and TakeFromPool do to the channel.
LEMMA HeadLeaves ==
    ASSUME TablesInv, workConnCh # <<>>, NEW s \in {"taken", "closed"},
           workConnCh' = Tail(workConnCh), SetConn(Head(workConnCh), s)
    PROVE  /\ Head(workConnCh) \in Conn /\ conn[Head(workConnCh)] = "pooled"
           /\ workConnCh' \in Seq(Conn) /\ Len(workConnCh') <= PoolCount + Spare
           /\ Len(workConnCh') = Len(workConnCh) - 1 /\ Len(workConnCh) \in Nat
           /\ conn' \in [Conn -> ConnStates] /\ QueueInv'
           /\ conn'[Head(workConnCh)] = s
           /\ \A w \in Conn : w # Head(workConnCh) => conn'[w] = conn[w]
           /\ registered
<1> USE PoolAssumption
<1>1. /\ Head(workConnCh) \in Conn /\ Head(workConnCh) = workConnCh[1]
      /\ Tail(workConnCh) \in Seq(Conn) /\ Len(Tail(workConnCh)) = Len(workConnCh) - 1
      /\ Len(workConnCh) \in Nat /\ Len(workConnCh) >= 1
  BY HeadFacts DEF TablesInv
<1>2. conn[Head(workConnCh)] = "pooled"
  BY <1>1 DEF TablesInv, QueueInv
<1>3. Len(workConnCh') <= PoolCount + Spare
  BY <1>1 DEF TablesInv, TypeOK
<1>4. QueueInv'
  BY TakeHead DEF TablesInv, SetConn
<1>5. /\ conn' \in [Conn -> ConnStates] /\ conn'[Head(workConnCh)] = s
      /\ \A w \in Conn : w # Head(workConnCh) => conn'[w] = conn[w]
  BY <1>1 DEF TablesInv, TypeOK, SetConn, ConnStates
<1>6. registered
  BY DEF TablesInv, EndInv
<1> QED BY <1>1, <1>2, <1>3, <1>4, <1>5, <1>6

LEMMA DrainTables == TablesInv /\ Drain => TablesInv'
<1> SUFFICES ASSUME TablesInv, Drain PROVE TablesInv' OBVIOUS
<1> DEFINE h == Head(workConnCh)
<1>1. /\ workConnCh # <<>> /\ workConnCh' = Tail(workConnCh) /\ SetConn(h, "closed")
      /\ UNCHANGED <<chClosed, done, registered, sendCh, toStart, opened, stalled, lost, broken, pc, tries, held>>
  BY DEF Drain, envVars, userVars
<1>2. /\ h \in Conn /\ conn[h] = "pooled"
      /\ workConnCh' \in Seq(Conn) /\ Len(workConnCh') <= PoolCount + Spare
      /\ conn' \in [Conn -> ConnStates] /\ QueueInv'
      /\ conn'[h] = "closed" /\ (\A w \in Conn : w # h => conn'[w] = conn[w]) /\ registered
  BY <1>1, HeadLeaves
<1> HIDE DEF h
<1>3. TypeOK'
  BY <1>1, <1>2 DEF TablesInv, TypeOK
<1>4. ConnInv'
  BY <1>1, <1>2 DEF TablesInv, ConnInv
<1>5. EndInv'
  BY <1>1, <1>2 DEF TablesInv, EndInv
<1> QED BY <1>2, <1>3, <1>4, <1>5 DEF TablesInv

LEMMA TakeFromPoolTables == \A u \in User : TablesInv /\ TakeFromPool(u) => TablesInv'
<1> SUFFICES ASSUME NEW u \in User, TablesInv, TakeFromPool(u) PROVE TablesInv' OBVIOUS
<1> DEFINE h == Head(workConnCh)
<1>1. /\ workConnCh # <<>> /\ workConnCh' = Tail(workConnCh) /\ SetConn(h, "taken")
      /\ held' = [held EXCEPT ![u] = h] /\ Goto(u, "refill")
      /\ UNCHANGED <<chClosed, done, registered, sendCh, toStart, opened, stalled, lost, broken, tries>>
  BY DEF TakeFromPool, envVars
<1>2. /\ h \in Conn /\ conn[h] = "pooled"
      /\ workConnCh' \in Seq(Conn) /\ Len(workConnCh') <= PoolCount + Spare
      /\ conn' \in [Conn -> ConnStates] /\ QueueInv'
      /\ conn'[h] = "taken" /\ (\A w \in Conn : w # h => conn'[w] = conn[w]) /\ registered
  BY <1>1, HeadLeaves
<1> HIDE DEF h
<1>3. /\ pc' \in [User -> PCs] /\ held' \in [User -> Conn \cup {NoConn}]
      /\ held'[u] = h /\ \A v \in User : v # u => pc'[v] = pc[v] /\ held'[v] = held[v]
  BY <1>1, <1>2 DEF TablesInv, TypeOK, Goto, PCs
<1>4. TypeOK'
  BY <1>1, <1>2, <1>3 DEF TablesInv, TypeOK
<1>5. \A v \in User : pc'[v] \in {"refill", "write"} => held'[v] \in Conn /\ conn'[held'[v]] \in {"taken", "closed"}
  <2> SUFFICES ASSUME NEW v \in User, pc'[v] \in {"refill", "write"}
               PROVE  held'[v] \in Conn /\ conn'[held'[v]] \in {"taken", "closed"}
    OBVIOUS
  <2>1. CASE v = u
    BY <1>2, <1>3, <2>1
  <2>2. CASE v # u
    <3>1. held[v] \in Conn /\ conn[held[v]] \in {"taken", "closed"} /\ held'[v] = held[v]
      BY <1>3, <2>2 DEF TablesInv, ConnInv
    <3> QED BY <1>2, <3>1
  <2> QED BY <2>1, <2>2
<1>6. \A w \in Conn : w > opened' => conn'[w] = "none"
  BY <1>1, <1>2 DEF TablesInv, ConnInv
<1>7. EndInv'
  BY <1>1, <1>2 DEF TablesInv, EndInv
<1> QED BY <1>2, <1>4, <1>5, <1>6, <1>7 DEF TablesInv, ConnInv

\* A step of a user connection that only moves on, perhaps sending a request or counting a try.
LEMMA GotoTables ==
    ASSUME TablesInv, NEW u \in User, NEW l \in PCs, Goto(u, l),
           l \in {"refill", "write"} => pc[u] \in {"refill", "write"},
           sendCh' \in 0 .. SendCap,
           UNCHANGED <<poolVars, toStart, envVars, conn, broken, tries, held>>
    PROVE  TablesInv'
<1>1. UNCHANGED <<workConnCh, chClosed, done, registered, toStart, opened, stalled, lost, conn, broken, tries, held>>
  BY DEF poolVars, envVars
<1>2. pc' \in [User -> PCs] /\ pc'[u] = l /\ \A v \in User : v # u => pc'[v] = pc[v]
  BY DEF TablesInv, TypeOK, Goto
<1>3. TypeOK'
  BY <1>1, <1>2 DEF TablesInv, TypeOK
<1>4. ConnInv'
  BY <1>1, <1>2 DEF TablesInv, ConnInv
<1> QED BY <1>1, <1>3, <1>4 DEF TablesInv, EndInv, QueueInv

LEMMA WriteStartFailsTables == \A u \in User : TablesInv /\ WriteStartFails(u) => TablesInv'
<1> SUFFICES ASSUME NEW u \in User, TablesInv, WriteStartFails(u) PROVE TablesInv' OBVIOUS
<1> USE PoolAssumption
<1>1. /\ pc[u] = "write" /\ SetConn(held[u], "closed")
      /\ UNCHANGED <<workConnCh, chClosed, done, registered, sendCh, toStart, opened, stalled, lost, broken, held>>
  BY DEF WriteStartFails, poolVars, envVars
<1>2. held[u] \in Conn /\ conn[held[u]] \in {"taken", "closed"}
  BY <1>1 DEF TablesInv, ConnInv
<1>3. /\ conn' \in [Conn -> ConnStates] /\ QueueInv'
      /\ conn'[held[u]] = "closed" /\ \A v \in Conn : v # held[u] => conn'[v] = conn[v]
  BY <1>1, <1>2, SetConnTables DEF ConnStates
<1>4. tries' \in [User -> 0 .. PoolCount]
  <2>1. tries \in [User -> 0 .. PoolCount] /\ tries[u] \in 0 .. PoolCount
    BY DEF TablesInv, TypeOK
  <2>2. CASE tries[u] < PoolCount
    <3>1. tries' = [tries EXCEPT ![u] = tries[u] + 1] /\ tries[u] + 1 \in 0 .. PoolCount
      BY <2>1, <2>2 DEF WriteStartFails
    <3> QED BY <2>1, <3>1
  <2>3. CASE ~(tries[u] < PoolCount)
    BY <2>1, <2>3 DEF WriteStartFails
  <2> QED BY <2>2, <2>3
<1>5. pc' \in [User -> PCs] /\ pc'[u] \in {"get", "joined"} /\ \A v \in User : v # u => pc'[v] = pc[v]
  BY DEF WriteStartFails, TablesInv, TypeOK, Goto, PCs
<1>6. TypeOK'
  BY <1>1, <1>3, <1>4, <1>5 DEF TablesInv, TypeOK
<1>7. \A w \in Conn : w > opened' => conn'[w] = "none"
  BY <1>1, <1>2, <1>3 DEF TablesInv, ConnInv
<1>8. \A v \in User : pc'[v] \in {"refill", "write"} => held'[v] \in Conn /\ conn'[held'[v]] \in {"taken", "closed"}
  <2> SUFFICES ASSUME NEW v \in User, pc'[v] \in {"refill", "write"}
               PROVE  held'[v] \in Conn /\ conn'[held'[v]] \in {"taken", "closed"}
    OBVIOUS
  <2>1. held[v] \in Conn /\ conn[held[v]] \in {"taken", "closed"} /\ held'[v] = held[v]
    BY <1>1, <1>5 DEF TablesInv, ConnInv
  <2> QED BY <1>3, <2>1
<1>9. EndInv'
  BY <1>1 DEF TablesInv, EndInv
<1> QED BY <1>3, <1>6, <1>7, <1>8, <1>9 DEF TablesInv, ConnInv

---------------------------------------------------------------------------
(* The supply of connections *)

\* What is counted is finite, so that one more is one more.
LEMMA Counts ==
    ASSUME TablesInv, IsFiniteSet(Refilling)
    PROVE  /\ IsFiniteSet(Arriving) /\ Cardinality(Arriving) \in Nat
           /\ Cardinality(Refilling) \in Nat /\ Len(workConnCh) \in Nat
           /\ sendCh \in Nat /\ toStart \in Nat
<1> USE PoolAssumption
<1>1. IsFiniteSet(1 .. MaxConns)
  BY FS_Interval
<1>2. IsFiniteSet(Arriving)
  BY <1>1, FS_Subset DEF Arriving, Conn
<1>3. Cardinality(Arriving) \in Nat /\ Cardinality(Refilling) \in Nat
  BY <1>2, FS_CardinalityType
<1>4. Len(workConnCh) \in Nat /\ sendCh \in Nat /\ toStart \in Nat
  BY DEF TablesInv, TypeOK
<1> QED BY <1>2, <1>3, <1>4

LEMMA OneMore ==
    ASSUME NEW S, IsFiniteSet(S), NEW T, NEW x, x \notin S, T = S \cup {x}
    PROVE  IsFiniteSet(T) /\ Cardinality(T) = Cardinality(S) + 1
BY FS_AddElement

LEMMA OneLess ==
    ASSUME NEW S, IsFiniteSet(S), NEW T, NEW x, x \in S, T = S \ {x}
    PROVE  IsFiniteSet(T) /\ Cardinality(T) = Cardinality(S) - 1
BY FS_RemoveElement

\* Nothing is promised once the dispatcher is done or a request was lost.
LEMMA SupplyOver ==
    ASSUME SupplyInv, IsFiniteSet(Refilling'), done' \/ lost'
    PROVE  SupplyInv'
BY DEF SupplyInv, PoolNeverStarves

\* Nothing changes for a user connection that moves on between places other than refill.
LEMMA GotoRefilling ==
    ASSUME TablesInv, NEW u \in User, NEW l \in PCs, Goto(u, l), l # "refill"
    PROVE  Refilling' = Refilling \ {u}
<1>1. pc'[u] = l /\ \A v \in User : v # u => pc'[v] = pc[v]
  BY DEF TablesInv, TypeOK, Goto
<1> QED BY <1>1 DEF Refilling

\* Nothing that is counted changes.
LEMMA SupplyFrame ==
    ASSUME SupplyInv, Refilling' = Refilling, Arriving' = Arriving,
           UNCHANGED <<workConnCh, done, sendCh, toStart, lost>>
    PROVE  SupplyInv'
BY DEF SupplyInv, PoolNeverStarves

LEMMA StartReqSupply == Inv /\ StartReq => SupplyInv'
<1> SUFFICES ASSUME Inv, StartReq PROVE SupplyInv' OBVIOUS
<1>1. /\ UNCHANGED <<workConnCh, done, lost, conn, pc>> /\ toStart' = toStart - 1
      /\ (sendCh' = sendCh + 1 \/ done)
  BY DEF StartReq, SendReq, poolVars, envVars, userVars
<1>2. Arriving' = Arriving /\ Refilling' = Refilling
  BY <1>1 DEF Arriving, Refilling
<1>3. IsFiniteSet(Refilling) /\ PoolNeverStarves
  BY DEF Inv, SupplyInv
<1>4. /\ Cardinality(Arriving) \in Nat /\ Cardinality(Refilling) \in Nat
      /\ Len(workConnCh) \in Nat /\ sendCh \in Nat /\ toStart \in Nat
  BY <1>3, Counts DEF Inv
<1> QED BY <1>1, <1>2, <1>3, <1>4, PoolAssumption DEF SupplyInv, PoolNeverStarves

LEMMA ClientDialsSupply == Inv /\ ClientDials => SupplyInv'
<1> SUFFICES ASSUME Inv, ClientDials PROVE SupplyInv' OBVIOUS
<1> USE PoolAssumption
<1>1. /\ UNCHANGED <<workConnCh, done, lost, toStart, pc>> /\ sendCh' = sendCh - 1
      /\ opened < MaxConns /\ conn' = [conn EXCEPT ![opened + 1] = "arrived"]
  BY DEF ClientDials, poolVars, userVars, SetConn
<1>2. opened + 1 \in Conn /\ opened + 1 > opened
  BY <1>1 DEF Inv, TablesInv, TypeOK, Conn
<1>3. conn[opened + 1] = "none"
  BY <1>2 DEF Inv, TablesInv, ConnInv
<1>4. conn'[opened + 1] = "arrived" /\ \A v \in Conn : v # opened + 1 => conn'[v] = conn[v]
  BY <1>1, <1>2 DEF Inv, TablesInv, TypeOK
<1>5. Arriving' = Arriving \cup {opened + 1} /\ opened + 1 \notin Arriving
  BY <1>2, <1>3, <1>4 DEF Arriving
<1>6. Refilling' = Refilling
  BY <1>1 DEF Refilling
<1>7. IsFiniteSet(Refilling) /\ PoolNeverStarves
  BY DEF Inv, SupplyInv
<1>8. /\ IsFiniteSet(Arriving) /\ Cardinality(Arriving) \in Nat /\ Cardinality(Refilling) \in Nat
      /\ Len(workConnCh) \in Nat /\ sendCh \in Nat /\ toStart \in Nat
  BY <1>7, Counts DEF Inv
<1>9. Cardinality(Arriving') = Cardinality(Arriving) + 1
  BY <1>5, <1>8, OneMore
<1> QED BY <1>1, <1>6, <1>7, <1>8, <1>9 DEF SupplyInv, PoolNeverStarves

\* A connection that is on its way is looked up by a control that is open, joins the pool, or
\* finds it full.
LEMMA ConnStepSupply == \A w \in Conn : Inv /\ ConnStep(w) => SupplyInv'
<1> SUFFICES ASSUME NEW w \in Conn, Inv, ConnStep(w) PROVE SupplyInv' OBVIOUS
<1> USE PoolAssumption
<1>1. UNCHANGED <<done, lost, toStart, sendCh, pc>>
  BY DEF ConnStep, LookUpControl, RegisterWorkConn, RegisterWorkConnPanics, poolVars, envVars, userVars
<1>2. Refilling' = Refilling
  BY <1>1 DEF Refilling
<1>3. IsFiniteSet(Refilling) /\ PoolNeverStarves
  BY DEF Inv, SupplyInv
<1>4. /\ IsFiniteSet(Arriving) /\ Cardinality(Arriving) \in Nat /\ Cardinality(Refilling) \in Nat
      /\ Len(workConnCh) \in Nat /\ sendCh \in Nat /\ toStart \in Nat
  BY <1>3, Counts DEF Inv
<1>5. CASE done
  BY <1>1, <1>2, <1>3, <1>5, SupplyOver DEF Inv
<1>6. CASE ~done /\ LookUpControl(w)
  <2>1. registered
    BY <1>6 DEF Inv, TablesInv, EndInv
  <2>2. conn[w] = "arrived" /\ conn' = [conn EXCEPT ![w] = "found"] /\ UNCHANGED workConnCh
    BY <1>6, <2>1 DEF LookUpControl, SetConn, poolVars
  <2>3. conn'[w] = "found" /\ \A v \in Conn : v # w => conn'[v] = conn[v]
    BY <2>2 DEF Inv, TablesInv, TypeOK
  <2>4. Arriving' = Arriving
    BY <2>2, <2>3 DEF Arriving
  <2> QED BY <1>1, <1>2, <2>2, <2>4, SupplyFrame DEF Inv
<1>7. CASE ~done /\ RegisterWorkConn(w)
  <2>1. PICK s \in {"pooled", "closed"} :
           /\ conn' = [conn EXCEPT ![w] = s]
           /\ \/ workConnCh' = Append(workConnCh, w)
              \/ UNCHANGED workConnCh /\ ~(Len(workConnCh) < PoolCount + Spare)
    BY <1>7 DEF RegisterWorkConn, SetConn
  <2>2. conn'[w] = s /\ \A v \in Conn : v # w => conn'[v] = conn[v]
    BY <2>1 DEF Inv, TablesInv, TypeOK
  <2>3. w \in Arriving /\ Arriving' = Arriving \ {w}
    BY <1>7, <2>2 DEF Arriving, RegisterWorkConn
  <2>4. IsFiniteSet(Arriving') /\ Cardinality(Arriving') = Cardinality(Arriving) - 1
    BY <1>4, <2>3, OneLess
  <2>5. CASE workConnCh' = Append(workConnCh, w)
    <3>1. Len(workConnCh') = Len(workConnCh) + 1
      BY <2>5 DEF Inv, TablesInv, TypeOK
    <3> QED BY <1>1, <1>2, <1>3, <1>4, <2>4, <3>1 DEF SupplyInv, PoolNeverStarves
  <2>6. CASE UNCHANGED workConnCh /\ ~(Len(workConnCh) < PoolCount + Spare)
    <3>1. Cardinality(Arriving') \in Nat
      BY <2>4, FS_CardinalityType
    <3>2. Len(workConnCh') >= PoolCount
      BY <1>4, <2>6
    <3> QED BY <1>1, <1>2, <1>3, <1>4, <2>6, <3>1, <3>2 DEF SupplyInv, PoolNeverStarves
  <2> QED BY <2>1, <2>5, <2>6
<1>8. CASE RegisterWorkConnPanics(w)
  <2>1. done
    BY <1>8 DEF RegisterWorkConnPanics, Inv, TablesInv, EndInv
  <2> QED BY <1>5, <2>1
<1> QED BY <1>5, <1>6, <1>7, <1>8 DEF ConnStep

LEMMA TakeFromPoolSupply ==
    ASSUME Inv, NEW u \in User, TakeFromPool(u), pc[u] # "refill"
    PROVE  SupplyInv'
<1> DEFINE h == Head(workConnCh)
<1>1. /\ workConnCh # <<>> /\ workConnCh' = Tail(workConnCh) /\ SetConn(h, "taken")
      /\ Goto(u, "refill") /\ UNCHANGED <<done, sendCh, toStart, lost>>
  BY DEF TakeFromPool, envVars
<1>2. /\ h \in Conn /\ conn[h] = "pooled" /\ Len(workConnCh') = Len(workConnCh) - 1
      /\ conn'[h] = "taken" /\ \A w \in Conn : w # h => conn'[w] = conn[w]
  BY <1>1, HeadLeaves DEF Inv
<1> HIDE DEF h
<1>3. Arriving' = Arriving
  BY <1>2 DEF Arriving
<1>4. pc'[u] = "refill" /\ \A v \in User : v # u => pc'[v] = pc[v]
  BY <1>1 DEF Inv, TablesInv, TypeOK, Goto
<1>5. u \notin Refilling /\ Refilling' = Refilling \cup {u}
  BY <1>4 DEF Refilling
<1>6. IsFiniteSet(Refilling) /\ PoolNeverStarves
  BY DEF Inv, SupplyInv
<1>7. IsFiniteSet(Refilling') /\ Cardinality(Refilling') = Cardinality(Refilling) + 1
  BY <1>5, <1>6, OneMore
<1>8. /\ Cardinality(Arriving) \in Nat /\ Cardinality(Refilling) \in Nat
      /\ Len(workConnCh) \in Nat /\ sendCh \in Nat /\ toStart \in Nat
  BY <1>6, Counts DEF Inv
<1> QED BY <1>1, <1>2, <1>3, <1>6, <1>7, <1>8, PoolAssumption DEF SupplyInv, PoolNeverStarves

LEMMA RefillSupply == \A u \in User : Inv /\ Refill(u) => SupplyInv'
<1> SUFFICES ASSUME NEW u \in User, Inv, Refill(u) PROVE SupplyInv' OBVIOUS
<1>1. /\ UNCHANGED <<workConnCh, done, lost, toStart, conn>> /\ Goto(u, "write") /\ pc[u] = "refill"
      /\ (sendCh' = sendCh + 1 \/ done)
  BY DEF Refill, SendReq, poolVars, envVars
<1>2. Arriving' = Arriving /\ u \in Refilling /\ Refilling' = Refilling \ {u}
  <2>1. "write" \in PCs
    BY DEF PCs
  <2>2. Refilling' = Refilling \ {u}
    BY <1>1, <2>1, GotoRefilling DEF Inv
  <2> QED BY <1>1, <2>2 DEF Arriving, Refilling
<1>3. IsFiniteSet(Refilling) /\ PoolNeverStarves
  BY DEF Inv, SupplyInv
<1>4. IsFiniteSet(Refilling') /\ Cardinality(Refilling') = Cardinality(Refilling) - 1
  BY <1>2, <1>3, OneLess
<1>5. /\ Cardinality(Arriving) \in Nat /\ Cardinality(Refilling) \in Nat
      /\ Len(workConnCh) \in Nat /\ sendCh \in Nat /\ toStart \in Nat
  BY <1>3, Counts DEF Inv
<1>6. CASE done
  BY <1>1, <1>4, <1>6, SupplyOver DEF Inv
<1>7. CASE sendCh' = sendCh + 1
  BY <1>1, <1>2, <1>3, <1>4, <1>5, <1>7, PoolAssumption DEF SupplyInv, PoolNeverStarves
<1> QED BY <1>1, <1>6, <1>7

\* A user connection that moves on elsewhere, perhaps sending a request.
LEMMA GotoSupply ==
    ASSUME Inv, NEW u \in User, NEW l \in PCs, Goto(u, l), l # "refill", pc[u] # "refill",
           sendCh' = sendCh \/ sendCh' = sendCh + 1, Arriving' = Arriving,
           UNCHANGED <<workConnCh, done, toStart, lost>>
    PROVE  SupplyInv'
<1>1. Refilling' = Refilling
  BY GotoRefilling DEF Inv, Refilling
<1>2. IsFiniteSet(Refilling) /\ PoolNeverStarves
  BY DEF Inv, SupplyInv
<1>3. /\ Cardinality(Arriving) \in Nat /\ Cardinality(Refilling) \in Nat
      /\ Len(workConnCh) \in Nat /\ sendCh \in Nat /\ toStart \in Nat
  BY <1>2, Counts DEF Inv
<1> QED BY <1>1, <1>2, <1>3, PoolAssumption DEF SupplyInv, PoolNeverStarves

LEMMA WriteStartFailsSupply == \A u \in User : Inv /\ WriteStartFails(u) => SupplyInv'
<1> SUFFICES ASSUME NEW u \in User, Inv, WriteStartFails(u) PROVE SupplyInv' OBVIOUS
<1>1. /\ pc[u] = "write" /\ conn' = [conn EXCEPT ![held[u]] = "closed"]
      /\ UNCHANGED <<workConnCh, done, sendCh, toStart, lost>>
  BY DEF WriteStartFails, poolVars, envVars, SetConn
<1>2. held[u] \in Conn /\ conn[held[u]] \in {"taken", "closed"}
  BY <1>1 DEF Inv, TablesInv, ConnInv
<1>3. conn'[held[u]] = "closed" /\ \A v \in Conn : v # held[u] => conn'[v] = conn[v]
  BY <1>1, <1>2 DEF Inv, TablesInv, TypeOK
<1>4. Arriving' = Arriving
  BY <1>2, <1>3 DEF Arriving
<1>5. PICK l \in {"get", "joined"} : Goto(u, l)
  BY DEF WriteStartFails
<1>6. l \in PCs /\ l # "refill" /\ pc[u] # "refill"
  BY <1>1 DEF PCs
<1> QED BY <1>1, <1>4, <1>5, <1>6, GotoSupply

---------------------------------------------------------------------------
(* Every step *)

LEMMA ControlStep ==
    Inv /\ (StartReq \/ DispatcherDone \/ CloseCh \/ Drain \/ Unregister) => Inv'
<1> SUFFICES ASSUME Inv PROVE StartReq \/ DispatcherDone \/ CloseCh \/ Drain \/ Unregister => Inv'
  OBVIOUS
<1>1. StartReq => Inv'
  BY StartReqTables, StartReqSupply DEF Inv
<1>2. DispatcherDone \/ CloseCh \/ Drain => SupplyInv'
  <2> SUFFICES ASSUME DispatcherDone \/ CloseCh \/ Drain PROVE SupplyInv' OBVIOUS
  <2>1. done' /\ UNCHANGED pc
    BY DEF DispatcherDone, CloseCh, Drain, userVars, Inv, TablesInv, EndInv
  <2>2. IsFiniteSet(Refilling')
    BY <2>1 DEF Refilling, Inv, SupplyInv
  <2> QED BY <2>1, <2>2, SupplyOver DEF Inv
<1>3. Unregister => SupplyInv'
  <2> SUFFICES ASSUME Unregister PROVE SupplyInv' OBVIOUS
  <2>1. UNCHANGED <<workConnCh, done, sendCh, toStart, lost, conn, pc>>
    BY DEF Unregister, envVars, userVars
  <2>2. Refilling' = Refilling /\ Arriving' = Arriving
    BY <2>1 DEF Refilling, Arriving
  <2> QED BY <2>1, <2>2, SupplyFrame DEF Inv
<1> QED BY <1>1, <1>2, <1>3, DispatcherDoneTables, CloseChTables, DrainTables, UnregisterTables DEF Inv

LEMMA ClientStep ==
    Inv /\ (ClientDials \/ ClientDialFails \/ ClientStalls \/ \E w \in Conn : ConnBreaks(w)) => Inv'
<1> SUFFICES ASSUME Inv
             PROVE ClientDials \/ ClientDialFails \/ ClientStalls \/ (\E w \in Conn : ConnBreaks(w)) => Inv'
  OBVIOUS
<1>1. ClientDials => Inv'
  BY ClientDialsTables, ClientDialsSupply DEF Inv
<1>2. ClientDialFails => SupplyInv'
  <2> SUFFICES ASSUME ClientDialFails PROVE SupplyInv' OBVIOUS
  <2>1. lost' /\ UNCHANGED pc
    BY DEF ClientDialFails, userVars
  <2>2. IsFiniteSet(Refilling')
    BY <2>1 DEF Refilling, Inv, SupplyInv
  <2> QED BY <2>1, <2>2, SupplyOver DEF Inv
<1>3. ClientStalls \/ (\E w \in Conn : ConnBreaks(w)) => SupplyInv'
  <2> SUFFICES ASSUME ClientStalls \/ \E w \in Conn : ConnBreaks(w) PROVE SupplyInv' OBVIOUS
  <2>1. UNCHANGED <<workConnCh, done, sendCh, toStart, lost, conn, pc>>
    BY DEF ClientStalls, ConnBreaks, poolVars, envVars, userVars
  <2>2. Refilling' = Refilling /\ Arriving' = Arriving
    BY <2>1 DEF Refilling, Arriving
  <2> QED BY <2>1, <2>2, SupplyFrame DEF Inv
<1> QED BY <1>1, <1>2, <1>3, ClientDialFailsTables, ClientStallsTables, ConnBreaksTables DEF Inv

LEMMA UserStepInv == \A u \in User : Inv /\ (Accept(u) \/ UserStep(u)) => Inv'
<1> SUFFICES ASSUME NEW u \in User, Inv, Accept(u) \/ UserStep(u) PROVE Inv' OBVIOUS
<1>1. ASSUME NEW l \in PCs \ {"refill"}, Goto(u, l), pc[u] # "refill",
             l = "write" => pc[u] = "write",
             sendCh' = sendCh \/ (sendCh < SendCap /\ sendCh' = sendCh + 1),
             UNCHANGED <<poolVars, toStart, envVars, conn, broken, tries, held>>
      PROVE  Inv'
  <2>1. sendCh' \in 0 .. SendCap
    BY <1>1, PoolAssumption DEF Inv, TablesInv, TypeOK
  <2>2. TablesInv'
    BY <1>1, <2>1, GotoTables DEF Inv
  <2>3. Arriving' = Arriving /\ UNCHANGED <<workConnCh, done, toStart, lost>>
    BY <1>1 DEF Arriving, poolVars, envVars
  <2>4. SupplyInv'
    BY <1>1, <2>3, GotoSupply
  <2> QED BY <2>2, <2>4 DEF Inv
<1>2. CASE Accept(u)
  BY <1>1, <1>2 DEF Accept, PCs
<1>3. ASSUME TakeFromPool(u), pc[u] # "refill" PROVE Inv'
  BY <1>3, TakeFromPoolTables, TakeFromPoolSupply DEF Inv
<1>4. ASSUME Refuse(u), pc[u] # "refill" PROVE Inv'
  BY <1>1, <1>4 DEF Refuse, PCs
<1>5. CASE GetWorkConn(u)
  <2>1. pc[u] # "refill"
    BY <1>5 DEF GetWorkConn
  <2>2. CASE /\ Goto(u, "ask")
             /\ UNCHANGED <<poolVars, sendCh, toStart, envVars, conn, broken, tries, held>>
    BY <1>1, <2>1, <2>2 DEF PCs
  <2> QED BY <1>3, <1>4, <1>5, <2>1, <2>2 DEF GetWorkConn
<1>6. CASE AskClient(u)
  <2>1. PICK l \in {"wait", "refused"} : Goto(u, l)
    BY <1>6 DEF AskClient
  <2>2. sendCh' = sendCh \/ (sendCh < SendCap /\ sendCh' = sendCh + 1)
    BY <1>6 DEF AskClient, SendReq
  <2>3. UNCHANGED <<poolVars, toStart, envVars, conn, broken, tries, held>> /\ pc[u] # "refill"
    BY <1>6 DEF AskClient
  <2>4. l \in PCs \ {"refill"} /\ l # "write"
    BY DEF PCs
  <2> QED BY <1>1, <2>1, <2>2, <2>3, <2>4
<1>7. CASE WaitWorkConn(u)
  BY <1>3, <1>4, <1>7 DEF WaitWorkConn
<1>8. CASE Refill(u)
  <2>1. sendCh' \in 0 .. SendCap
    BY <1>8, PoolAssumption DEF Refill, SendReq, Inv, TablesInv, TypeOK
  <2>2. TablesInv'
    BY <1>8, <2>1, GotoTables DEF Refill, Inv, PCs
  <2> QED BY <1>8, <2>2, RefillSupply DEF Inv
<1>9. CASE WriteStart(u)
  BY <1>1, <1>9 DEF WriteStart, PCs
<1>10. CASE WriteStartFails(u)
  BY <1>10, WriteStartFailsTables, WriteStartFailsSupply DEF Inv
<1> QED BY <1>2, <1>5, <1>6, <1>7, <1>8, <1>9, <1>10 DEF UserStep

LEMMA StepInv == Inv /\ [Next]_vars => Inv'
<1> SUFFICES ASSUME Inv, [Next]_vars PROVE Inv' OBVIOUS
<1>1. CASE UNCHANGED vars
  <2>1. UNCHANGED <<workConnCh, chClosed, done, registered, sendCh, toStart, opened, stalled, lost, conn, broken, pc, tries, held>>
    BY <1>1 DEF vars, poolVars, envVars, userVars
  <2>2. TypeOK'
    BY <2>1 DEF Inv, TablesInv, TypeOK
  <2>3. Refilling' = Refilling /\ Arriving' = Arriving
    BY <2>1 DEF Refilling, Arriving
  <2>4. SupplyInv'
    BY <2>1, <2>3, SupplyFrame DEF Inv
  <2> QED BY <2>1, <2>2, <2>4 DEF Inv, TablesInv, EndInv, QueueInv, ConnInv
<1>2. CASE StartReq \/ DispatcherDone \/ CloseStep
  BY <1>2, ControlStep DEF CloseStep
<1>3. CASE ClientDials \/ ClientDialFails \/ ClientStalls \/ \E w \in Conn : ConnBreaks(w)
  BY <1>3, ClientStep
<1>4. ASSUME NEW w \in Conn, ConnStep(w) PROVE Inv'
  BY <1>4, ConnStepSupply, LookUpControlTables, RegisterWorkConnTables, RegisterWorkConnPanicsTables
     DEF ConnStep, Inv
<1>5. ASSUME NEW u \in User, Accept(u) \/ UserStep(u) PROVE Inv'
  BY <1>5, UserStepInv
<1> QED BY <1>1, <1>2, <1>3, <1>4, <1>5 DEF Next

LEMMA InvHolds == Spec => []Inv
BY InitInv, StepInv, PTL DEF Spec

\* GetWorkConn replaces what it takes: while the control is open and no request was lost, what is
\* pooled, on its way, queued or still to be asked for is at least poolCount, for every number of
\* user connections.
THEOREM PoolSupplied == Spec => []PoolNeverStarves
<1>1. Inv => PoolNeverStarves
  BY DEF Inv, SupplyInv
<1> QED BY <1>1, InvHolds, PTL

---------------------------------------------------------------------------
(* Refinement of ConnHandout, and what follows from it *)

\* Steps of no user connection.
LEMMA UsersFrame ==
    ASSUME UNCHANGED <<pc, held>> PROVE UNCHANGED <<HasConn, Answered>>
BY DEF HasConn, Answered

\* What a connection is spent by, and what not.
LEMMA SpentFrame ==
    ASSUME TypeOK, NEW w \in Conn, NEW s \in ConnStates, conn' = [conn EXCEPT ![w] = s],
           s \in {"taken", "closed", "leaked"} => conn[w] \in {"taken", "closed", "leaked"},
           conn[w] \in {"taken", "closed", "leaked"} => s \in {"taken", "closed", "leaked"}
    PROVE  Spent' = Spent
BY DEF TypeOK, Spent

LEMMA SpentMore ==
    ASSUME TypeOK, NEW w \in Conn, NEW s \in {"taken", "closed", "leaked"},
           conn' = [conn EXCEPT ![w] = s], conn[w] \notin {"taken", "closed", "leaked"}
    PROVE  w \notin Spent /\ Spent' = Spent \cup {w}
BY DEF TypeOK, Spent

\* A goroutine goes on with the connection it has, or with none.
LEMMA UserMoves ==
    ASSUME TypeOK, NEW u \in User, NEW l \in PCs, pc' = [pc EXCEPT ![u] = l], held' = held,
           pc[u] \notin {"joined", "refused"}
    PROVE  /\ u \notin Answered
           /\ Answered' = IF l \in {"joined", "refused"} THEN Answered \cup {u} ELSE Answered
           /\ pc[u] \in {"refill", "write"} => HasConn[u] = held[u]
           /\ pc[u] \notin {"refill", "write"} => HasConn[u] = NoConn
           /\ (pc[u] \in {"refill", "write"} <=> l \in {"refill", "write", "joined"}) =>
                HasConn' = HasConn
           /\ l \notin {"refill", "write", "joined"} => HasConn' = [HasConn EXCEPT ![u] = NoConn]
<1> USE DEF TypeOK, HasConn, Answered
<1>1. u \notin Answered /\ Answered' = IF l \in {"joined", "refused"} THEN Answered \cup {u} ELSE Answered
  OBVIOUS
<1>2. /\ pc[u] \in {"refill", "write"} => HasConn[u] = held[u]
      /\ pc[u] \notin {"refill", "write"} => HasConn[u] = NoConn
  OBVIOUS
<1>3. ASSUME pc[u] \in {"refill", "write"} <=> l \in {"refill", "write", "joined"}
      PROVE  HasConn' = HasConn
  BY <1>3
<1>4. ASSUME l \notin {"refill", "write", "joined"} PROVE HasConn' = [HasConn EXCEPT ![u] = NoConn]
  BY <1>4
<1> QED BY <1>1, <1>2, <1>3, <1>4

LEMMA TakeIsGive ==
    ASSUME Inv, NEW u \in User, pc[u] \in {"get", "wait"}, TakeFromPool(u)
    PROVE  Handout!Next
<1> DEFINE h == Head(workConnCh)
<1>0. TypeOK /\ QueueInv /\ EndInv
  BY DEF Inv, TablesInv
<1>1. /\ workConnCh # <<>> /\ held' = [held EXCEPT ![u] = h] /\ conn' = [conn EXCEPT ![h] = "taken"]
      /\ pc' = [pc EXCEPT ![u] = "refill"] /\ UNCHANGED <<registered, tries>>
  BY DEF TakeFromPool, SetConn, Goto
<1>2. h \in Conn /\ h = workConnCh[1] /\ Len(workConnCh) \in Nat /\ Len(workConnCh) >= 1
  BY <1>0, <1>1, HeadFacts
<1>3. conn[h] = "pooled"
  BY <1>0, <1>2 DEF QueueInv
<1> HIDE DEF h
<1>4. h \notin Spent /\ Spent' = Spent \cup {h}
  BY <1>0, <1>1, <1>2, <1>3, SpentMore
<1>5. u \notin Answered /\ Answered' = Answered
  BY <1>0, <1>1 DEF Answered, TypeOK
<1>6. HasConn[u] = NoConn /\ HasConn' = [HasConn EXCEPT ![u] = h]
  BY <1>0, <1>1 DEF HasConn, TypeOK
<1>7. registered
  BY <1>0, <1>1 DEF EndInv
<1>8. tries[u] < PoolCount + 1
  BY <1>0, PoolAssumption DEF TypeOK
<1>9. Handout!Give(u, h)
  BY <1>1, <1>4, <1>5, <1>6, <1>7, <1>8 DEF Handout!Give
<1> QED BY <1>2, <1>9 DEF Handout!Next

LEMMA RefuseIsRefuse ==
    ASSUME Inv, NEW u \in User, pc[u] \in {"get", "ask", "wait"}, pc' = [pc EXCEPT ![u] = "refused"],
           UNCHANGED <<held, tries, conn, registered>>
    PROVE  Handout!Next
<1>1. TypeOK
  BY DEF Inv, TablesInv
<1>2. /\ u \notin Answered /\ HasConn[u] = NoConn /\ HasConn' = HasConn
      /\ Answered' = Answered \cup {u}
  BY <1>1, UserMoves DEF PCs
<1>3. Spent' = Spent
  BY DEF Spent
<1>4. Handout!Refuse(u)
  BY <1>2, <1>3 DEF Handout!Refuse
<1> QED BY <1>4 DEF Handout!Next

\* A goroutine that asks, waits or refills.
LEMMA MoveStutters ==
    ASSUME Inv, NEW u \in User, NEW l \in {"get", "ask", "wait", "refill", "write"},
           pc' = [pc EXCEPT ![u] = l], UNCHANGED <<held, tries, conn, registered>>,
           pc[u] \notin {"joined", "refused"},
           pc[u] \in {"refill", "write"} <=> l \in {"refill", "write"}
    PROVE  UNCHANGED Handout!vars
<1>1. TypeOK
  BY DEF Inv, TablesInv
<1>2. HasConn' = HasConn /\ Answered' = Answered
  BY <1>1, UserMoves DEF PCs
<1>3. Spent' = Spent
  BY DEF Spent
<1> QED BY <1>2, <1>3 DEF Handout!vars

LEMMA WriteStartIsJoin ==
    ASSUME Inv, NEW u \in User, WriteStart(u) PROVE Handout!Next
<1>1. TypeOK /\ held[u] \in Conn /\ pc[u] = "write" /\ pc' = [pc EXCEPT ![u] = "joined"]
      /\ UNCHANGED <<held, tries, conn, registered>>
  BY DEF Inv, TablesInv, ConnInv, WriteStart, Goto, poolVars
<1>2. /\ u \notin Answered /\ HasConn[u] = held[u] /\ HasConn' = HasConn
      /\ Answered' = Answered \cup {u}
  BY <1>1, UserMoves DEF PCs
<1>3. Spent' = Spent
  BY <1>1 DEF Spent
<1>4. held[u] # NoConn
  BY <1>1, PoolAssumption DEF Conn, NoConn
<1>5. Handout!Join(u)
  BY <1>1, <1>2, <1>3, <1>4 DEF Handout!Join
<1> QED BY <1>5 DEF Handout!Next

\* A failed connection was spent when it was taken: the next one is tried, or, after the
\* last try, the user is joined to it all the same.
LEMMA WriteStartFailsStep ==
    ASSUME Inv, NEW u \in User, WriteStartFails(u) PROVE Handout!Next
<1>1. /\ TypeOK /\ held[u] \in Conn /\ conn[held[u]] \in {"taken", "closed"} /\ pc[u] = "write"
      /\ conn' = [conn EXCEPT ![held[u]] = "closed"] /\ UNCHANGED <<held, registered>>
  BY DEF Inv, TablesInv, ConnInv, WriteStartFails, SetConn, poolVars
<1>2. Spent' = Spent
  BY <1>1, SpentFrame DEF ConnStates
<1>3. held[u] # NoConn
  BY <1>1, PoolAssumption DEF Conn, NoConn
<1>4. CASE tries[u] < PoolCount
  <2>1. tries' = [tries EXCEPT ![u] = tries[u] + 1] /\ pc' = [pc EXCEPT ![u] = "get"]
    BY <1>4 DEF WriteStartFails, Goto
  <2>2. /\ u \notin Answered /\ HasConn[u] = held[u] /\ HasConn' = [HasConn EXCEPT ![u] = NoConn]
        /\ Answered' = Answered
    BY <1>1, <2>1, UserMoves DEF PCs
  <2>3. Handout!GiveUp(u)
    BY <1>1, <1>2, <1>3, <2>1, <2>2 DEF Handout!GiveUp
  <2> QED BY <2>3 DEF Handout!Next
<1>5. CASE ~(tries[u] < PoolCount)
  <2>1. tries' = tries /\ pc' = [pc EXCEPT ![u] = "joined"]
    BY <1>5 DEF WriteStartFails, Goto
  <2>2. /\ u \notin Answered /\ HasConn[u] = held[u] /\ HasConn' = HasConn
        /\ Answered' = Answered \cup {u}
    BY <1>1, <2>1, UserMoves DEF PCs
  <2>3. Handout!Join(u)
    BY <1>1, <1>2, <1>3, <2>1, <2>2 DEF Handout!Join
  <2> QED BY <2>3 DEF Handout!Next
<1> QED BY <1>4, <1>5

LEMMA UserStepHandout ==
    ASSUME Inv, NEW u \in User, Accept(u) \/ UserStep(u)
    PROVE  [Handout!Next]_Handout!vars
<1>1. CASE Accept(u)
  BY <1>1, MoveStutters DEF Accept, Goto, poolVars
<1>2. CASE GetWorkConn(u)
  BY <1>2, TakeIsGive, RefuseIsRefuse, MoveStutters DEF GetWorkConn, Refuse, Goto, poolVars
<1>3. CASE AskClient(u)
  BY <1>3, RefuseIsRefuse, MoveStutters DEF AskClient, Goto, poolVars
<1>4. CASE WaitWorkConn(u)
  BY <1>4, TakeIsGive, RefuseIsRefuse DEF WaitWorkConn, Refuse, Goto, poolVars
<1>5. CASE Refill(u)
  BY <1>5, MoveStutters DEF Refill, Goto, poolVars
<1> QED BY <1>1, <1>2, <1>3, <1>4, <1>5, WriteStartIsJoin, WriteStartFailsStep DEF UserStep

LEMMA ConnWasted ==
    ASSUME Inv, NEW w \in Conn, NEW s \in {"closed", "leaked"}, conn' = [conn EXCEPT ![w] = s],
           conn[w] \in {"arrived", "found", "pooled"}, UNCHANGED <<pc, held, tries, registered>>
    PROVE  Handout!Next
<1>1. TypeOK
  BY DEF Inv, TablesInv
<1>2. w \notin Spent /\ Spent' = Spent \cup {w}
  BY <1>1, SpentMore
<1>3. Handout!Waste(w)
  BY <1>2, UsersFrame DEF Handout!Waste
<1> QED BY <1>3 DEF Handout!Next

\* A connection that comes nearer to the pool.
LEMMA ConnComes ==
    ASSUME Inv, NEW w \in Conn, NEW s \in {"arrived", "found", "pooled"},
           conn' = [conn EXCEPT ![w] = s], conn[w] \in {"none", "arrived", "found"},
           UNCHANGED <<pc, held, tries, registered>>
    PROVE  UNCHANGED Handout!vars
<1>1. TypeOK
  BY DEF Inv, TablesInv
<1>2. Spent' = Spent
  BY <1>1, SpentFrame DEF ConnStates
<1> QED BY <1>2, UsersFrame DEF Handout!vars

LEMMA ConnStepHandout ==
    ASSUME Inv, NEW w \in Conn, ConnStep(w)
    PROVE  [Handout!Next]_Handout!vars
<1>1. CASE LookUpControl(w)
  <2>1. CASE registered
    BY <1>1, <2>1, ConnComes DEF LookUpControl, SetConn, poolVars, userVars
  <2>2. CASE ~registered
    BY <1>1, <2>2, ConnWasted DEF LookUpControl, SetConn, poolVars, userVars
  <2> QED BY <2>1, <2>2
<1>2. CASE RegisterWorkConn(w)
  <2>1. CASE Len(workConnCh) < PoolCount + Spare
    BY <1>2, <2>1, ConnComes DEF RegisterWorkConn, SetConn, userVars
  <2>2. CASE ~(Len(workConnCh) < PoolCount + Spare)
    BY <1>2, <2>2, ConnWasted DEF RegisterWorkConn, SetConn, userVars
  <2> QED BY <2>1, <2>2
<1>3. CASE RegisterWorkConnPanics(w)
  BY <1>3, ConnWasted DEF RegisterWorkConnPanics, SetConn, poolVars, userVars
<1> QED BY <1>1, <1>2, <1>3 DEF ConnStep

LEMMA ControlHandout ==
    ASSUME Inv, Drain \/ Unregister \/ ClientDials
    PROVE  [Handout!Next]_Handout!vars
<1>0. TypeOK /\ QueueInv /\ ConnInv
  BY DEF Inv, TablesInv
<1>1. CASE Drain
  <2> DEFINE h == Head(workConnCh)
  <2>1. workConnCh # <<>> /\ conn' = [conn EXCEPT ![h] = "closed"]
        /\ UNCHANGED <<pc, held, tries, registered>>
    BY <1>1 DEF Drain, SetConn, userVars
  <2>2. h \in Conn /\ h = workConnCh[1] /\ Len(workConnCh) \in Nat /\ Len(workConnCh) >= 1
    BY <1>0, <2>1, HeadFacts
  <2>3. conn[h] = "pooled"
    BY <1>0, <2>2 DEF QueueInv
  <2> HIDE DEF h
  <2> QED BY <2>1, <2>2, <2>3, ConnWasted
<1>2. CASE Unregister
  <2>1. registered /\ registered' = FALSE /\ UNCHANGED <<pc, held, tries, conn>>
    BY <1>2 DEF Unregister, userVars
  <2>2. Spent' = Spent
    BY <2>1 DEF Spent
  <2>3. Handout!Leave
    BY <2>1, <2>2, UsersFrame DEF Handout!Leave
  <2> QED BY <2>3 DEF Handout!Next
<1>3. CASE ClientDials
  <2>1. opened + 1 \in Conn /\ conn[opened + 1] = "none"
    BY <1>0, <1>3, PoolAssumption DEF ClientDials, TypeOK, ConnInv, Conn
  <2> QED BY <1>3, <2>1, ConnComes DEF ClientDials, SetConn, poolVars, userVars
<1> QED BY <1>1, <1>2, <1>3

LEMMA HandoutStep == Inv /\ [Next]_vars => [Handout!Next]_Handout!vars
<1> SUFFICES ASSUME Inv, [Next]_vars PROVE [Handout!Next]_Handout!vars OBVIOUS
<1>1. CASE UNCHANGED <<pc, held, tries, conn, registered>>
  <2>1. Spent' = Spent
    BY <1>1 DEF Spent
  <2> QED BY <1>1, <2>1, UsersFrame DEF Handout!vars
<1>2. ASSUME \/ StartReq \/ DispatcherDone \/ CloseCh \/ ClientDialFails \/ ClientStalls
             \/ (\E w \in Conn : ConnBreaks(w)) \/ UNCHANGED vars
      PROVE  UNCHANGED <<pc, held, tries, conn, registered>>
  BY <1>2 DEF StartReq, DispatcherDone, CloseCh, ClientDialFails, ClientStalls, ConnBreaks, vars,
     poolVars, userVars
<1> QED BY <1>1, <1>2, ControlHandout, ConnStepHandout, UserStepHandout DEF Next, CloseStep

LEMMA InitHandout == Init => Handout!Init
BY DEF Init, Handout!Init, HasConn, Spent, Answered

\* RegisterWorkConn, GetWorkConn and GetWorkConnFromPool, with the worker that closes the
\* pool meanwhile, implement ConnHandout for any number of users and connections: a work
\* connection serves at most one user, and none after the control left the registry.
THEOREM HandoutImplemented == Spec => ImplementsHandout
<1>1. Inv /\ [Next]_vars => [Handout!Next]_Handout!vars
  BY HandoutStep
<1> QED BY <1>1, InitHandout, InvHolds, PTL DEF Spec, ImplementsHandout, Handout!Spec

\* A user has a connection that is spent, and no other user has it: what ConnHandout keeps.
SharedInv == NoSharedConn /\ \A u \in User : HasConn[u] # NoConn => HasConn[u] \in Spent

LEMMA InitShared == Init => SharedInv
BY DEF Init, SharedInv, NoSharedConn, HasConn

LEMMA StepShared == SharedInv /\ [Handout!Next]_Handout!vars => SharedInv'
<1> SUFFICES ASSUME SharedInv, [Handout!Next]_Handout!vars PROVE SharedInv' OBVIOUS
<1>0. HasConn = [u \in User |-> HasConn[u]]
  BY DEF HasConn
<1> USE DEF SharedInv, NoSharedConn
<1>1. CASE HasConn' = HasConn /\ \A w \in Spent : w \in Spent'
  BY <1>1
<1>2. ASSUME NEW u \in User, NEW w \in Conn, Handout!Give(u, w) PROVE SharedInv'
  <2>1. w \notin Spent /\ Spent' = Spent \cup {w} /\ HasConn' = [HasConn EXCEPT ![u] = w]
    BY <1>2 DEF Handout!Give
  <2> HIDE DEF SharedInv, NoSharedConn
  <2>2. \A v \in User : HasConn'[v] = IF v = u THEN w ELSE HasConn[v]
    BY <1>0, <2>1
  <2> QED BY <2>1, <2>2 DEF SharedInv, NoSharedConn
<1>3. ASSUME NEW u \in User, Handout!GiveUp(u) PROVE SharedInv'
  <2>1. Spent' = Spent /\ HasConn' = [HasConn EXCEPT ![u] = NoConn]
    BY <1>3 DEF Handout!GiveUp
  <2>2. \A v \in User : HasConn'[v] = IF v = u THEN NoConn ELSE HasConn[v]
    BY <1>0, <2>1
  <2> QED BY <2>1, <2>2
<1>4. ASSUME NEW u \in User, Handout!Join(u) \/ Handout!Refuse(u)
      PROVE  HasConn' = HasConn /\ Spent' = Spent
  BY <1>4 DEF Handout!Join, Handout!Refuse
<1>5. ASSUME \/ Handout!Leave \/ (\E w \in Conn : Handout!Waste(w)) \/ UNCHANGED Handout!vars
      PROVE  HasConn' = HasConn /\ \A w \in Spent : w \in Spent'
  BY <1>5 DEF Handout!Leave, Handout!Waste, Handout!vars
<1> QED BY <1>1, <1>2, <1>3, <1>4, <1>5 DEF Handout!Next

\* The pool holds at most poolCount + Spare connections, every counter is in its bounds, and a
\* control that has left the registry has left nothing pooled, and no work connection serves two
\* users, however the worker that empties the channel and the user connections that take from it
\* interleave.
THEOREM PoolCorrect == Spec => []PoolSound
<1>1. Inv /\ SharedInv => PoolSound
  <2> SUFFICES ASSUME Inv, SharedInv PROVE PoolSound OBVIOUS
  <2>1. TypeOK
    BY DEF Inv, TablesInv
  <2>2. NothingLeftPooled
    <3> SUFFICES ASSUME ~registered PROVE workConnCh = <<>> /\ \A w \in Conn : conn[w] # "pooled"
      BY DEF NothingLeftPooled
    <3>1. workConnCh = <<>> /\ Len(workConnCh) = 0
      BY DEF Inv, TablesInv, EndInv
    <3>2. \A i \in 1 .. Len(workConnCh) : FALSE
      BY <3>1
    <3> QED BY <3>1, <3>2 DEF Inv, TablesInv, QueueInv
  <2> QED BY <2>1, <2>2 DEF PoolSound, SharedInv
<1>2. Inv /\ SharedInv /\ [Next]_vars => SharedInv'
  BY HandoutStep, StepShared
<1> QED BY <1>1, <1>2, InvHolds, InitShared, PTL DEF Spec
=============================================================================
