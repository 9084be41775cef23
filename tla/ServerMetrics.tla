--------------------------- MODULE ServerMetrics ---------------------------
(***************************************************************************)
(* The statistics that frps keeps of its proxies (pkg/metrics/mem) and the   *)
(* calls by which the controls of the clients keep them up to date           *)
(* (server/control.go).                                                      *)
(*                                                                          *)
(* A control first changes the table of proxies, server/proxy.Manager, and    *)
(* then reports the change, under another lock.  The controls of one client   *)
(* follow one another (module ServerControl), so a client is one process      *)
(* here; the reports of several clients come in any order.                    *)
(***************************************************************************)
EXTENDS Integers, FiniteSets

CONSTANTS
    Name,       \* names of proxies
    Type,       \* their types
    Client,
    Owner,      \* clients whose configuration has a proxy of a name, [Name -> SUBSET Client]
    NoPxy,      \* the name is not in use
    NoStats,    \* there are no statistics for the name
    NoCall,     \* the client's control has nothing to report
    MaxRegs     \* bound: registrations

ASSUME OwnerAssumption == Owner \in [Name -> SUBSET Client] /\ MaxRegs \in Nat
ASSUME FiniteAssumption == IsFiniteSet(Name) /\ IsFiniteSet(Client)
ASSUME NonesAssumption ==
    /\ NoPxy \notin [client : Client, type : Type]
    /\ NoStats \notin [type : Type, open : BOOLEAN]
    /\ NoCall \notin [call : {"NewProxy", "CloseProxy"}, name : Name, type : Type]

VARIABLES
    pxys,         \* proxy.Manager: who has the name, and with which type
    report,       \* the call of serverMetrics that a control makes next
    typeCounts,   \* ProxyTypeCounts
    counted,      \* the types that ProxyTypeCounts has
    stats,        \* ProxyStatistics; open: not closed since it was last started
    regs          \* number of registrations

metrics == <<typeCounts, counted, stats>>
serverVars == <<pxys, report, metrics, regs>>

ServerInit ==
    /\ pxys = [n \in Name |-> NoPxy]
    /\ report = [c \in Client |-> NoCall]
    /\ typeCounts = [t \in Type |-> 0] /\ counted = {}
    /\ stats = [n \in Name |-> NoStats]
    /\ regs = 0

---------------------------------------------------------------------------
Call(call, n, t) == [call |-> call, name |-> n, type |-> t]

\* RegisterProxy: Add to the manager.
RegisterProxy(c, n, t) ==
    /\ c \in Owner[n] /\ report[c] = NoCall
    /\ pxys[n] = NoPxy /\ regs < MaxRegs
    /\ pxys' = [pxys EXCEPT ![n] = [client |-> c, type |-> t]]
    /\ report' = [report EXCEPT ![c] = Call("NewProxy", n, t)]
    /\ regs' = regs + 1
    /\ UNCHANGED metrics

\* CloseProxy of the control, or one turn of the loop in which its worker ends it: Del.
DelProxy(c, n) ==
    /\ report[c] = NoCall
    /\ pxys[n] # NoPxy /\ pxys[n].client = c
    /\ pxys' = [pxys EXCEPT ![n] = NoPxy]
    /\ report' = [report EXCEPT ![c] = Call("CloseProxy", n, pxys[n].type)]
    /\ UNCHANGED <<metrics, regs>>

\* mutant: statistics of another type are kept.
NewProxyKeep(c) ==
    LET r == report[c]
    IN  /\ r # NoCall /\ r.call = "NewProxy"
        /\ typeCounts' = [typeCounts EXCEPT ![r.type] = @ + 1]
        /\ counted' = counted \cup {r.type}
        /\ stats' = [stats EXCEPT ![r.name] = IF @ = NoStats THEN [type |-> r.type, open |-> TRUE]
                                                            ELSE [@ EXCEPT !.open = TRUE]]
        /\ report' = [report EXCEPT ![c] = NoCall]
        /\ UNCHANGED <<pxys, regs>>

\* mutant: a proxy whose statistics are open is taken for one that has been counted.
NewProxyOpen(c) ==
    LET r == report[c]
    IN  /\ r # NoCall /\ r.call = "NewProxy"
        /\ typeCounts' = IF stats[r.name] = [type |-> r.type, open |-> TRUE] THEN typeCounts
                         ELSE [typeCounts EXCEPT ![r.type] = @ + 1]
        /\ counted' = counted \cup {r.type}
        /\ stats' = [stats EXCEPT ![r.name] = [type |-> r.type, open |-> TRUE]]
        /\ report' = [report EXCEPT ![c] = NoCall]
        /\ UNCHANGED <<pxys, regs>>

\* NewProxy: statistics of another type are replaced.
NewProxy(c) ==
    LET r == report[c]
    IN  /\ r # NoCall /\ r.call = "NewProxy"
        /\ typeCounts' = [typeCounts EXCEPT ![r.type] = @ + 1]
        /\ counted' = counted \cup {r.type}
        /\ stats' = [stats EXCEPT ![r.name] = [type |-> r.type, open |-> TRUE]]
        /\ report' = [report EXCEPT ![c] = NoCall]
        /\ UNCHANGED <<pxys, regs>>

\* CloseProxy
CloseProxy(c) ==
    LET r == report[c]
    IN  /\ r # NoCall /\ r.call = "CloseProxy"
        /\ typeCounts' = IF r.type \in counted THEN [typeCounts EXCEPT ![r.type] = @ - 1]
                                               ELSE typeCounts
        /\ stats' = [stats EXCEPT ![r.name] = IF @ = NoStats THEN @ ELSE [@ EXCEPT !.open = FALSE]]
        /\ report' = [report EXCEPT ![c] = NoCall]
        /\ UNCHANGED <<pxys, counted, regs>>

\* clearUselessInfo: statistics of proxies that were closed and not started again.
Closed(n) == stats[n] # NoStats /\ ~stats[n].open

ClearUselessInfo(names) ==
    /\ stats' = [n \in Name |-> IF n \in names /\ Closed(n) THEN NoStats ELSE stats[n]]
    /\ UNCHANGED <<pxys, report, typeCounts, counted, regs>>

\* The goroutine of run() clears what has been closed for a week.
ClearOld(n) == Closed(n) /\ ClearUselessInfo({n})

\* frps starts again, with nothing in memory.
ServerRestart ==
    /\ pxys' = [n \in Name |-> NoPxy] /\ report' = [c \in Client |-> NoCall]
    /\ typeCounts' = [t \in Type |-> 0] /\ counted' = {}
    /\ stats' = [n \in Name |-> NoStats]
    /\ UNCHANGED regs

Controls ==
    \/ \E c \in Client, n \in Name : DelProxy(c, n) \/ (\E t \in Type : RegisterProxy(c, n, t))
    \/ \E c \in Client : NewProxy(c) \/ CloseProxy(c)
    \/ \E n \in Name : ClearOld(n)

\* Frps by itself; module Dashboard has the requests that clear and the restart.
ServerNext == Controls \/ ClearUselessInfo(Name) \/ ServerRestart
ServerSpec == ServerInit /\ [][ServerNext]_serverVars

---------------------------------------------------------------------------
(* Properties *)

ServerTypeOK ==
    /\ pxys \in [Name -> [client : Client, type : Type] \cup {NoPxy}]
    /\ report \in [Client -> [call : {"NewProxy", "CloseProxy"}, name : Name, type : Type]
                             \cup {NoCall}]
    /\ typeCounts \in [Type -> Int] /\ counted \subseteq Type
    /\ stats \in [Name -> [type : Type, open : BOOLEAN] \cup {NoStats}]
    /\ regs \in 0 .. MaxRegs

Registered(t) == {n \in Name : pxys[n] # NoPxy /\ pxys[n].type = t}
Reporting(call, t) == {c \in Client : report[c] # NoCall /\ report[c].call = call
                                      /\ report[c].type = t}

\* The count of a type is the number of its proxies but for those that a control is
\* about to report, whoever reports first and whatever is cleared in between.
CountsAgree ==
    \A t \in Type :
        typeCounts[t] = Cardinality(Registered(t)) - Cardinality(Reporting("NewProxy", t))
                        + Cardinality(Reporting("CloseProxy", t))

Reports(n) == \E c \in Client : report[c] # NoCall /\ report[c].name = n

\* A proxy that is online has statistics of its type, which are not cleared as those of
\* an offline one, and only such a proxy has: as far as no two clients compete for its name.
StatsAgree ==
    \A n \in Name :
        Cardinality(Owner[n]) <= 1 /\ ~Reports(n) =>
            IF pxys[n] = NoPxy THEN stats[n] = NoStats \/ Closed(n)
                               ELSE stats[n] = [type |-> pxys[n].type, open |-> TRUE]
=============================================================================
