---------------------------- MODULE ConnHandout ----------------------------
(***************************************************************************)
(* What a control's pool of work connections promises to user connections,   *)
(* without channels, requests or timeouts: a work connection is given to one  *)
(* user in its life, or to none; a user that has one waits for no other; a    *)
(* user is refused only with empty hands, is given at most Most connections,  *)
(* one after the other, and none once the control is gone.                   *)
(***************************************************************************)
EXTENDS Integers

CONSTANTS User, Conn, NoConn, Most

VARIABLES
    has,      \* the work connection a user has, or NoConn
    failed,   \* how many connections a user has given up
    spent,    \* connections that will not be given out any more
    answered, \* users that were joined to their connection or refused
    gone      \* the control has left the registry

vars == <<has, failed, spent, answered, gone>>

Init ==
    /\ has = [u \in User |-> NoConn]
    /\ failed = [u \in User |-> 0]
    /\ spent = {}
    /\ answered = {}
    /\ gone = FALSE

Give(u, w) ==
    /\ ~gone
    /\ u \notin answered /\ has[u] = NoConn /\ failed[u] < Most
    /\ w \notin spent
    /\ has' = [has EXCEPT ![u] = w]
    /\ spent' = spent \cup {w}
    /\ UNCHANGED <<failed, answered, gone>>

GiveUp(u) ==
    /\ u \notin answered /\ has[u] # NoConn
    /\ has' = [has EXCEPT ![u] = NoConn]
    /\ failed' = [failed EXCEPT ![u] = @ + 1]
    /\ UNCHANGED <<spent, answered, gone>>

Join(u) ==
    /\ u \notin answered /\ has[u] # NoConn
    /\ answered' = answered \cup {u}
    /\ UNCHANGED <<has, failed, spent, gone>>

Refuse(u) ==
    /\ u \notin answered /\ has[u] = NoConn
    /\ answered' = answered \cup {u}
    /\ UNCHANGED <<has, failed, spent, gone>>

Waste(w) ==
    /\ w \notin spent
    /\ spent' = spent \cup {w}
    /\ UNCHANGED <<has, failed, answered, gone>>

Leave ==
    /\ ~gone
    /\ gone' = TRUE
    /\ UNCHANGED <<has, failed, spent, answered>>

Next ==
    \/ Leave
    \/ \E w \in Conn : Waste(w)
    \/ \E u \in User : \/ \E w \in Conn : Give(u, w)
                       \/ GiveUp(u) \/ Join(u) \/ Refuse(u)

Spec == Init /\ [][Next]_vars
=============================================================================
