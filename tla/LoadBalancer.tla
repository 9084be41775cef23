---------------------------- MODULE LoadBalancer ----------------------------
(***************************************************************************)
(* What a load balancing group promises, without controllers, locks,         *)
(* channels or workers: a group listens on its target from its first member   *)
(* to its last, no two groups listen on one target, the members of a group    *)
(* agree on target and key, and a connection that the group has accepted is    *)
(* served, once, by a member of that group unless the group ends before.  Who  *)
(* leaves may still get connections until it notices.                        *)
(***************************************************************************)
CONSTANTS Member, Group, Target, User, GroupOf, KeyOf

VARIABLES
    wants,    \* the target a member wants to be reached on
    members,  \* who is in its group
    leaving,  \* who has left a group that goes on, and has not noticed
    serving,  \* the pairs of a target and the group that listens on it
    waiting,  \* the pairs of an accepted connection and the group it waits in
    came,     \* connections that were accepted
    served    \* connections that a member has got

vars == <<wants, members, leaving, serving, waiting, came, served>>

Init ==
    /\ members = {} /\ leaving = {} /\ serving = {}
    /\ waiting = {} /\ came = {} /\ served = {}

Peers(p) == {q \in members : GroupOf[q] = GroupOf[p]}

JoinFirst(p) ==
    /\ p \notin members /\ Peers(p) = {}
    /\ \A n \in Group : <<wants[p], n>> \notin serving
    /\ members' = members \cup {p}
    /\ serving' = serving \cup {<<wants[p], GroupOf[p]>>}
    /\ UNCHANGED <<wants, leaving, waiting, came, served>>

JoinNext(p) ==
    /\ p \notin members /\ Peers(p) # {}
    /\ \A q \in Peers(p) : wants[q] = wants[p] /\ KeyOf[q] = KeyOf[p]
    /\ members' = members \cup {p}
    /\ UNCHANGED <<wants, leaving, serving, waiting, came, served>>

Leave(p) ==
    /\ p \in members /\ Peers(p) # {p}
    /\ members' = members \ {p} /\ leaving' = leaving \cup {p}
    /\ UNCHANGED <<wants, serving, waiting, came, served>>

LeaveLast(p) ==
    /\ p \in members /\ Peers(p) = {p}
    /\ members' = members \ {p}
    /\ leaving' = {q \in leaving : GroupOf[q] # GroupOf[p]}
    /\ serving' = serving \ {<<wants[p], GroupOf[p]>>}
    /\ waiting' = {x \in waiting : x[2] # GroupOf[p]}
    /\ UNCHANGED <<wants, came, served>>

Notice(p) ==
    /\ p \in leaving
    /\ leaving' = leaving \ {p}
    /\ UNCHANGED <<wants, members, serving, waiting, came, served>>

Offer(u, n) ==
    /\ u \notin came
    /\ \E r \in Target : <<r, n>> \in serving
    /\ \A v \in User : <<v, n>> \notin waiting
    /\ waiting' = waiting \cup {<<u, n>>}
    /\ came' = came \cup {u}
    /\ UNCHANGED <<wants, members, leaving, serving, served>>

Serve(u, p) ==
    /\ p \in members \cup leaving /\ <<u, GroupOf[p]>> \in waiting
    /\ waiting' = waiting \ {<<u, GroupOf[p]>>}
    /\ served' = served \cup {u}
    /\ UNCHANGED <<wants, members, leaving, serving, came>>

Next ==
    \/ \E p \in Member : \/ JoinFirst(p) \/ JoinNext(p) \/ Leave(p) \/ LeaveLast(p) \/ Notice(p)
                         \/ \E u \in User : Serve(u, p)
    \/ \E u \in User, n \in Group : Offer(u, n)

Spec == Init /\ [][Next]_vars
=============================================================================
