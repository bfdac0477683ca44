------------------------ MODULE RouteTableAbstract ------------------------
(***************************************************************************)
(* What the daemon's route manager promises the platform, with no table,  *)
(* lock, threads or file: the kernel holds the daemon's routes only       *)
(* toward peers that service discovery has announced and not withdrawn,  *)
(* and only while the platform is started; a withdrawn peer loses its     *)
(* routes; STOP removes every route; while started, every announced peer  *)
(* is eventually routed in every family.                                  *)
(*                                                                         *)
(* OpenSandRoutes implements this with one spot, a kernel that accepts    *)
(* every change and no daemon crash (property Implements there).          *)
(***************************************************************************)
CONSTANTS
    HOSTS,      \* host names discovery may announce
    LocalName,  \* the daemon's own host, never routed
    FAMS,       \* address families
    IsWs        \* workstation role: started from the beginning

VARIABLES
    routes,     \* routes[f]: peers routed in family f
    announced,  \* peers announced and not withdrawn
    started     \* the platform is started

vars == <<routes, announced, started>>

NoRoutes == [f \in FAMS |-> {}]
Peers == announced \ {LocalName}

Init ==
    /\ routes = NoRoutes
    /\ announced = {}
    /\ started = IsWs

Announce(h) ==
    /\ announced' = announced \cup {h}
    /\ UNCHANGED <<routes, started>>

\* A withdrawn peer is unrouted in every family.
Withdraw(h) ==
    /\ announced' = announced \ {h}
    /\ routes' = [f \in FAMS |-> routes[f] \ {h}]
    /\ UNCHANGED started

\* While started, a peer gains routes in some families.
RouteTo(h) ==
    /\ started /\ h \in Peers
    /\ \E fs \in SUBSET FAMS \ {{}} :
         /\ \A f \in fs : h \notin routes[f]
         /\ routes' = [f \in FAMS |-> IF f \in fs THEN routes[f] \cup {h} ELSE routes[f]]
    /\ UNCHANGED <<announced, started>>

\* START: the platform is started, and some peers are routed at once.
Start ==
    /\ started' = TRUE
    /\ \E new \in [FAMS -> SUBSET Peers] :
         routes' = [f \in FAMS |-> routes[f] \cup new[f]]
    /\ UNCHANGED announced

\* STOP: the platform is stopped and no route is left.
Stop ==
    /\ started' = FALSE
    /\ routes' = NoRoutes
    /\ UNCHANGED announced

Next ==
    \/ \E h \in HOSTS : Announce(h) \/ Withdraw(h) \/ RouteTo(h)
    \/ Start \/ Stop

\* No announced peer is left unrouted while the platform stays started.
Spec == Init /\ [][Next]_vars /\ \A h \in HOSTS : WF_vars(RouteTo(h))

=============================================================================
