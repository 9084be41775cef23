----------------------------- MODULE PortLease -----------------------------
(***************************************************************************)
(* What the port manager promises to proxies that ask for a given port,     *)
(* without tables, probes or locks: a proxy gets the port it asked for or    *)
(* none, a port is leased to one proxy at a time, a socket is opened on it    *)
(* only by the proxy that has the lease and is closed before the lease is     *)
(* given back, and a proxy has at most one lease in its life.                *)
(***************************************************************************)
CONSTANTS Port, Pxy, NoPxy, Asked

VARIABLES
    asked,   \* the port a proxy asks for, 0 before it does
    had,     \* proxies that have or had a lease
    leased,  \* the proxy that has the lease of a port, or NoPxy
    open     \* the proxy whose socket is open on a port, or NoPxy

vars == <<asked, had, leased, open>>

Init ==
    /\ asked = [x \in Pxy |-> 0]
    /\ had = {}
    /\ leased = [p \in Port |-> NoPxy]
    /\ open = [p \in Port |-> NoPxy]

Ask(x, p) ==
    /\ asked[x] = 0 /\ x \notin had
    /\ asked' = [asked EXCEPT ![x] = p]
    /\ UNCHANGED <<had, leased, open>>

Lease(x) ==
    /\ x \notin had
    /\ asked[x] \in Port /\ leased[asked[x]] = NoPxy
    /\ had' = had \cup {x}
    /\ leased' = [leased EXCEPT ![asked[x]] = x]
    /\ UNCHANGED <<asked, open>>

Has(x) == asked[x] \in Port /\ leased[asked[x]] = x

Open(x) ==
    /\ Has(x) /\ open[asked[x]] = NoPxy
    /\ open' = [open EXCEPT ![asked[x]] = x]
    /\ UNCHANGED <<asked, had, leased>>

Shut(x) ==
    /\ Has(x) /\ open[asked[x]] = x
    /\ open' = [open EXCEPT ![asked[x]] = NoPxy]
    /\ UNCHANGED <<asked, had, leased>>

GiveBack(x) ==
    /\ Has(x) /\ open[asked[x]] # x
    /\ leased' = [leased EXCEPT ![asked[x]] = NoPxy]
    /\ UNCHANGED <<asked, had, open>>

Next ==
    \E x \in Pxy : \/ \E p \in Asked : Ask(x, p)
                   \/ Lease(x) \/ Open(x) \/ Shut(x) \/ GiveBack(x)

Spec == Init /\ [][Next]_vars
=============================================================================
