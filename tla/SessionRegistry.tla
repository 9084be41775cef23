-------------------------- MODULE SessionRegistry --------------------------
(***************************************************************************)
(* What the control plane of frps promises, without locks, handlers or      *)
(* cleanup: a client has at most one live session, a proxy name has at most  *)
(* one owner, the owner is a live session, and a session ends only after it  *)
(* has given up every name.  Once the service shuts down (shut) the first    *)
(* promise is dropped.                                                       *)
(***************************************************************************)
EXTENDS Integers

CONSTANTS Client, Session, Name, NoRun, NoCtl

VARIABLES
    client,  \* the client a session belongs to, NoRun before it is assigned
    live,    \* sessions that may own names
    ended,   \* sessions that are over
    owner,   \* the session that owns a name, or NoCtl
    shut     \* the service is shutting down

vars == <<client, live, ended, owner, shut>>

Init ==
    /\ client = [s \in Session |-> NoRun]
    /\ live = {}
    /\ ended = {}
    /\ owner = [n \in Name |-> NoCtl]
    /\ shut = FALSE

Assign(s, r) ==
    /\ client[s] = NoRun
    /\ client' = [client EXCEPT ![s] = r]
    /\ UNCHANGED <<live, ended, owner, shut>>

Open(s) ==
    /\ client[s] # NoRun
    /\ s \notin live \cup ended
    /\ shut \/ \A t \in live : client[t] # client[s]
    /\ live' = live \cup {s}
    /\ UNCHANGED <<client, ended, owner, shut>>

Claim(s, n) ==
    /\ s \in live
    /\ owner[n] = NoCtl
    /\ owner' = [owner EXCEPT ![n] = s]
    /\ UNCHANGED <<client, live, ended, shut>>

Release(s, n) ==
    /\ s \in live
    /\ owner[n] = s
    /\ owner' = [owner EXCEPT ![n] = NoCtl]
    /\ UNCHANGED <<client, live, ended, shut>>

End(s) ==
    /\ s \in live
    /\ \A n \in Name : owner[n] # s
    /\ live' = live \ {s}
    /\ ended' = ended \cup {s}
    /\ UNCHANGED <<client, owner, shut>>

ShutDown ==
    /\ ~shut
    /\ shut' = TRUE
    /\ UNCHANGED <<client, live, ended, owner>>

Next ==
    \/ ShutDown
    \/ \E s \in Session :
          \/ \E r \in Client : Assign(s, r)
          \/ Open(s)
          \/ End(s)
          \/ \E n \in Name : Claim(s, n) \/ Release(s, n)

Spec == Init /\ [][Next]_vars

=============================================================================
