--------------------------- MODULE OpenSandRoutes ---------------------------
(***************************************************************************)
(* The route manager of the OpenSAND daemon (class OpenSandRoutes in      *)
(* src/opensand-daemon/opensand_daemon/routes.py).                        *)
(*                                                                         *)
(* Its state is class-level, shared between the thread that runs the      *)
(* service-discovery callbacks (add_distant_host, remove_distant_host)    *)
(* and the command thread (setup_routes on START, remove_routes on STOP). *)
(* Every method body runs under _routes_lock, so a body is one atomic     *)
(* step here; what is NOT atomic is modelled as separate steps: the       *)
(* topology file is read before the lock is taken, and a body that       *)
(* raises an exception the method does not catch leaves the lock held.    *)
(*                                                                         *)
(* Data abstraction: each host has one fixed prefix per address family,   *)
(* so a table entry is NoEntry (key absent), NoneEntry (key mapped to     *)
(* Python None, as load() can produce) or Route (a prefix).  The kernel   *)
(* routing table is, per family, the set of hosts whose prefix is routed. *)
(* Gateways addresses of a route change no control flow and are dropped.  *)
(* The daemon process can crash and restart: the kernel table and the     *)
(* snapshot file survive, the in-memory table, flags and lock do not.     *)
(* A process starts with the class attributes' values (_unused is True)   *)
(* and becomes usable only when load() has run; until then every method  *)
(* returns at its "if _unused" test, before it takes the lock.            *)
(***************************************************************************)
EXTENDS Naturals, FiniteSets

CONSTANTS
    HOSTS,            \* peer host names discovery may announce
    LocalName,        \* OpenSandRoutes._name, the daemon's own host name
    HostId,           \* terminal id extracted from a host name (regex)
    Instance,         \* OpenSandRoutes._instance
    TOPOLOGIES,       \* the parsed topology files DEPLOY may install,
                      \* NoGwIds among them where a run allows it
    IsWs,             \* OpenSandRoutes._is_ws
    KernelAddMayFail, \* the kernel may reject a route add (NlError)
    KernelDelMayFail, \* the kernel may reject a route delete (NlError)
    MaxRestarts,      \* bound on daemon crashes/restarts
    EarlyCalls        \* discovery and commands may call before load()

ASSUME LocalName \in HOSTS
ASSUME IsWs \in BOOLEAN /\ KernelAddMayFail \in BOOLEAN
ASSUME KernelDelMayFail \in BOOLEAN /\ MaxRestarts \in Nat
ASSUME EarlyCalls \in BOOLEAN

FAMS == {"v4", "v6"}
NoEntry == "no_entry"
NoneEntry == "none_entry"
Route == "route"
Entries == {NoEntry, NoneEntry, Route}

\* A topology.conf from which get_all_gw_by_tal gets no gateway ids: it has
\* no gw_table (the method returns [], lines 422-426), or there is no file
\* (etree.parse raises, line 417).  Either way the caller raises before it
\* takes the lock.  It has the shape of a parsed topology, with no terminal
\* and no default gateway.
NoGwIds == [tal |-> [id \in {} |-> "none"], dflt |-> "none"]

\* The two threads that call into the route manager.
DISCO == "disco"
CMD == "cmd"
THREADS == {DISCO, CMD}
Free == "free"
NoCall == [op |-> "none"]

VARIABLES
    table,     \* [f |-> _routes_v4 / _routes_v6]
    started,   \* OpenSandRoutes._started
    lock,      \* holder of _routes_lock, or Free
    kernel,    \* routes installed in the kernel, per family
    snapshot,  \* content of <cache_dir>/routes, or NoFile
    topo,      \* the topology file on disk
    known,     \* hosts currently announced by service discovery
    call,      \* the call each thread is executing
    restarts,  \* number of daemon restarts so far
    unused,    \* OpenSandRoutes._unused
    stopAcked  \* history: a STOP's remove_routes returned, no START since

vars == <<table, started, lock, kernel, snapshot, topo, known, call, restarts,
          unused, stopAcked>>

EmptyTable == [f \in FAMS |-> [h \in HOSTS |-> NoEntry]]
\* The route file: whether it exists, and the table it holds.
NoFile == [exists |-> FALSE, routes |-> EmptyTable]

TypeOK ==
    /\ table \in [FAMS -> [HOSTS -> Entries]]
    /\ started \in BOOLEAN
    /\ lock \in THREADS \cup {Free}
    /\ kernel \in [FAMS -> SUBSET HOSTS]
    /\ snapshot \in [exists : BOOLEAN, routes : [FAMS -> [HOSTS -> Entries]]]
    /\ topo \in TOPOLOGIES
    /\ known \subseteq HOSTS
    /\ call \in [THREADS -> {NoCall}
                   \cup [op : {"add", "remove"}, host : HOSTS]
                   \cup [op : {"setup", "remove_routes"}, topo : TOPOLOGIES]]
    /\ restarts \in 0..MaxRestarts
    /\ unused \in BOOLEAN
    /\ stopAcked \in BOOLEAN

-----------------------------------------------------------------------------
(* Helpers *)

\* Hosts that are keys of _routes_v4 or _routes_v6.
Keys(tbl) == {h \in HOSTS : \E f \in FAMS : tbl[f][h] # NoEntry}

\* The gateway id of a terminal id: tal_gw_ids[id], else tal_gw_ids["*"].
\* Never used on NoGwIds: the callers raise first (RaiseNoGwIds).
GwOf(t, id) == IF id \in DOMAIN t.tal THEN t.tal[id] ELSE t.dflt

\* Is host h in the same spot as this gateway instance, under topology t?
SameSpot(t, h) == GwOf(t, HostId[h]) = GwOf(t, Instance)

\* "v4 = _routes_v4[host][0]" in a try/except: the argument passed on is
\* the prefix, or None when the key is absent (KeyError is caught).
Args(tbl, h) == [f \in FAMS |-> tbl[f][h] = Route]

\* "except KeyError, TypeError:" is Python 2 for "except KeyError as
\* TypeError", so indexing a None entry raises an uncaught TypeError.
Unreadable(tbl, h) == \E f \in FAMS : tbl[f][h] = NoneEntry

\* serialize(): the dict written to the route file.  Both families of a
\* key are written, a missing one as None; nothing is written for an
\* empty table, nor for a workstation.
Serialize(tbl) ==
    IF IsWs \/ Keys(tbl) = {}
    THEN snapshot
    ELSE [exists |-> TRUE,
          routes |-> [f \in FAMS |-> [h \in HOSTS |->
                        IF h \notin Keys(tbl) THEN NoEntry
                        ELSE IF tbl[f][h] = NoEntry THEN NoneEntry
                        ELSE tbl[f][h]]]]

\* One outcome of a method body: table, kernel and pending exception.
Outcome(tbl, krn) == [tbl |-> tbl, krn |-> krn, exc |-> "none"]

\* Mutant: a failed family rolls back the entries of both families.
AddFamRollbackAll(o, f, h, arg) ==
    IF o.exc # "none" \/ ~arg \/ h \in o.krn[f] THEN {o}
    ELSE {[o EXCEPT !.krn[f] = @ \cup {h}]}
         \cup (IF KernelAddMayFail
               THEN {[o EXCEPT !.tbl = [g \in FAMS |-> [@[g] EXCEPT ![h] = NoEntry]],
                               !.exc = "NlError"]}
               ELSE {})

\* add_route, one family: NlExists (already routed) is a success; NlError
\* deletes the family's table entry and raises.
AddFam(o, f, h, arg) ==
    IF o.exc # "none" \/ ~arg \/ h \in o.krn[f] THEN {o}
    ELSE {[o EXCEPT !.krn[f] = @ \cup {h}]}
         \cup (IF KernelAddMayFail
               THEN {[o EXCEPT !.tbl[f][h] = NoEntry, !.exc = "NlError"]}
               ELSE {})

\* add_route: the local host's entries are purged ("del" raises KeyError
\* when one is absent), any other host is routed v4 first, then v6.
AddRoute(tbl, krn, h, args) ==
    IF h = LocalName
    THEN IF \A f \in FAMS : tbl[f][h] # NoEntry
         THEN {Outcome([f \in FAMS |-> [tbl[f] EXCEPT ![h] = NoEntry]], krn)}
         ELSE {[Outcome([tbl EXCEPT !["v4"][h] = NoEntry], krn)
                    EXCEPT !.exc = "KeyError"]}
    ELSE UNION {AddFam(o, "v6", h, args["v6"]) :
                    o \in AddFam(Outcome(tbl, krn), "v4", h, args["v4"])}

\* Mutant: remove_route only deletes the IPv4 route.
RemoveRouteV4Only(krn, h, args) ==
    {[krn |-> [krn EXCEPT !["v4"] = IF args["v4"] THEN @ \ {h} ELSE @],
      exc |-> "none"]}

\* remove_route: NlMissing (not routed) is a success; an NlError on v4
\* is raised only after the v6 delete ran (finally clause).
RemoveRoute(krn, h, args) ==
    LET present == {f \in FAMS : args[f] /\ h \in krn[f]}
    IN  {[krn |-> [f \in FAMS |-> IF f \in deleted THEN krn[f] \ {h}
                                  ELSE krn[f]],
          exc |-> IF deleted = present THEN "none" ELSE "NlError"] :
            deleted \in IF KernelDelMayFail THEN SUBSET present
                        ELSE {present}}

\* The hosts announced to the route manager: a host discovery dropped
\* still counts until its remove_distant_host body has run.
Announced ==
    known \cup (IF call[DISCO].op = "remove" THEN {call[DISCO].host} ELSE {})

-----------------------------------------------------------------------------
(* State machine *)

\* A fresh install, before the daemon main calls load(): the class
\* attributes' initial values, no route file, nothing routed.
Init ==
    /\ table = EmptyTable
    /\ started = FALSE
    /\ lock = Free
    /\ kernel = [f \in FAMS |-> {}]
    /\ snapshot = NoFile
    /\ topo \in TOPOLOGIES
    /\ known = {}
    /\ call = [t \in THREADS |-> NoCall]
    /\ restarts = 0
    /\ unused = TRUE
    /\ stopAcked = FALSE

\* The command thread's remove_routes call returned without an exception,
\* so handle_stop goes on to answer the manager's STOP with OK.  A
\* history variable: no action reads it.
AckStop(ok) == stopAcked' = (ok \/ stopAcked)

\* A body that ends with the lock released, or raising while holding it.
Return(t, escaped) ==
    /\ call' = [call EXCEPT ![t] = NoCall]
    /\ lock' = IF escaped THEN t ELSE Free

\* The threads of the daemon call the route manager only after load(),
\* unless EarlyCalls lets them run before it.
MayCall == EarlyCalls \/ ~unused

\* Avahi reports a daemon (ItemNew) and the callback calls
\* add_distant_host; the local daemon is announced too.
HostAppears(h) ==
    /\ call[DISCO] = NoCall
    /\ MayCall
    /\ known' = known \cup {h}
    /\ call' = [call EXCEPT ![DISCO] = [op |-> "add", host |-> h]]
    /\ UNCHANGED <<table, started, lock, kernel, snapshot, topo, restarts, unused, stopAcked>>

\* Avahi reports a daemon gone (ItemRemove): remove_distant_host.
HostDisappears(h) ==
    /\ call[DISCO] = NoCall
    /\ MayCall
    /\ h \in known
    /\ known' = known \ {h}
    /\ call' = [call EXCEPT ![DISCO] = [op |-> "remove", host |-> h]]
    /\ UNCHANGED <<table, started, lock, kernel, snapshot, topo, restarts, unused, stopAcked>>

\* Mutant: the bare prefix string is stored instead of (prefix, gw).
add_distant_host_bare ==
    LET h == call[DISCO].host
        tbl1 == [f \in FAMS |-> [table[f] EXCEPT ![h] = "bare_prefix"]]
    IN
    /\ call[DISCO].op = "add"
    /\ ~unused /\ lock = Free
    /\ IF started
       THEN \E o \in AddRoute(tbl1, kernel, h, [f \in FAMS |-> TRUE]) :
              /\ table' = o.tbl
              /\ kernel' = o.krn
              /\ snapshot' = IF o.exc = "none" THEN Serialize(o.tbl)
                             ELSE snapshot
              /\ Return(DISCO, o.exc \notin {"none", "NlError"})
       ELSE /\ table' = tbl1
            /\ Return(DISCO, FALSE)
            /\ UNCHANGED <<kernel, snapshot, stopAcked>>
    /\ UNCHANGED <<started, topo, known, restarts, unused, stopAcked>>

\* Mutant: the route file is not rewritten after routing a new host.
add_distant_host_nosave ==
    LET h == call[DISCO].host
        tbl1 == [f \in FAMS |-> [table[f] EXCEPT ![h] = Route]]
    IN
    /\ call[DISCO].op = "add"
    /\ ~unused /\ lock = Free
    /\ IF started
       THEN \E o \in AddRoute(tbl1, kernel, h, [f \in FAMS |-> TRUE]) :
              /\ table' = o.tbl
              /\ kernel' = o.krn
              /\ Return(DISCO, o.exc \notin {"none", "NlError"})
       ELSE /\ table' = tbl1
            /\ Return(DISCO, FALSE)
            /\ UNCHANGED kernel
    /\ UNCHANGED <<snapshot, started, topo, known, restarts, unused, stopAcked>>

\* Mutant: the NlError path re-raises without releasing the lock.
add_distant_host_keeplock ==
    LET h == call[DISCO].host
        tbl1 == [f \in FAMS |-> [table[f] EXCEPT ![h] = Route]]
    IN
    /\ call[DISCO].op = "add"
    /\ ~unused /\ lock = Free
    /\ IF started
       THEN \E o \in AddRoute(tbl1, kernel, h, [f \in FAMS |-> TRUE]) :
              /\ table' = o.tbl
              /\ kernel' = o.krn
              /\ snapshot' = IF o.exc = "none" THEN Serialize(o.tbl)
                             ELSE snapshot
              /\ Return(DISCO, o.exc # "none")
       ELSE /\ table' = tbl1
            /\ Return(DISCO, FALSE)
            /\ UNCHANGED <<kernel, snapshot, stopAcked>>
    /\ UNCHANGED <<started, topo, known, restarts, unused, stopAcked>>

\* Mutant: the host is routed whether or not the platform is started.
add_distant_host_unstarted ==
    LET h == call[DISCO].host
        tbl1 == [f \in FAMS |-> [table[f] EXCEPT ![h] = Route]]
    IN
    /\ call[DISCO].op = "add"
    /\ ~unused /\ lock = Free
    /\ \E o \in AddRoute(tbl1, kernel, h, [f \in FAMS |-> TRUE]) :
         /\ table' = o.tbl
         /\ kernel' = o.krn
         /\ snapshot' = IF o.exc = "none" THEN Serialize(o.tbl) ELSE snapshot
         /\ Return(DISCO, o.exc \notin {"none", "NlError"})
    /\ UNCHANGED <<started, topo, known, restarts, unused, stopAcked>>

\* add_distant_host: store both prefixes; when started, route the host,
\* then persist.  An NlError releases the lock and skips serialize.
add_distant_host ==
    LET h == call[DISCO].host
        tbl1 == [f \in FAMS |-> [table[f] EXCEPT ![h] = Route]]
    IN
    /\ call[DISCO].op = "add"
    /\ ~unused /\ lock = Free
    /\ IF started
       THEN \E o \in AddRoute(tbl1, kernel, h, [f \in FAMS |-> TRUE]) :
              /\ table' = o.tbl
              /\ kernel' = o.krn
              /\ snapshot' = IF o.exc = "none" THEN Serialize(o.tbl)
                             ELSE snapshot
              /\ Return(DISCO, o.exc \notin {"none", "NlError"})
       ELSE /\ table' = tbl1
            /\ Return(DISCO, FALSE)
            /\ UNCHANGED <<kernel, snapshot, stopAcked>>
    /\ UNCHANGED <<started, topo, known, restarts, unused, stopAcked>>

\* Mutant: when stopped, "del" is not wrapped in try, so an unknown
\* host raises KeyError with the lock held.
remove_distant_host_untried ==
    LET h == call[DISCO].host
        args == Args(table, h)
    IN
    /\ call[DISCO].op = "remove"
    /\ ~unused /\ lock = Free
    /\ IF started
       THEN IF Unreadable(table, h)
            THEN /\ Return(DISCO, TRUE)
                 /\ UNCHANGED <<table, kernel, snapshot, stopAcked>>
            ELSE \E o \in RemoveRoute(kernel, h, args) :
                   LET tbl2 == [f \in FAMS |->
                                  IF args[f] THEN [table[f] EXCEPT ![h] = NoEntry]
                                  ELSE table[f]]
                   IN /\ table' = tbl2
                      /\ kernel' = o.krn
                      /\ snapshot' = Serialize(tbl2)
                      /\ Return(DISCO, FALSE)
       ELSE /\ table' = [f \in FAMS |-> [table[f] EXCEPT ![h] = NoEntry]]
            /\ Return(DISCO, \E f \in FAMS : table[f][h] = NoEntry)
            /\ UNCHANGED <<kernel, snapshot, stopAcked>>
    /\ UNCHANGED <<started, topo, known, restarts, unused, stopAcked>>

\* remove_distant_host.  When started: unroute (NlError swallowed), drop
\* the routed families' entries, persist.  When stopped: "del v4; del v6"
\* in one try, so an absent v4 key leaves the v6 entry in place.
remove_distant_host ==
    LET h == call[DISCO].host
        args == Args(table, h)
    IN
    /\ call[DISCO].op = "remove"
    /\ ~unused /\ lock = Free
    /\ IF started
       THEN IF Unreadable(table, h)
            THEN /\ Return(DISCO, TRUE)
                 /\ UNCHANGED <<table, kernel, snapshot, stopAcked>>
            ELSE \E o \in RemoveRoute(kernel, h, args) :
                   LET tbl2 == [f \in FAMS |->
                                  IF args[f] THEN [table[f] EXCEPT ![h] = NoEntry]
                                  ELSE table[f]]
                   IN /\ table' = tbl2
                      /\ kernel' = o.krn
                      /\ snapshot' = Serialize(tbl2)
                      /\ Return(DISCO, FALSE)
       ELSE /\ table' = IF table["v4"][h] = NoEntry THEN table
                        ELSE [f \in FAMS |-> [table[f] EXCEPT ![h] = NoEntry]]
            /\ Return(DISCO, FALSE)
            /\ UNCHANGED <<kernel, snapshot, stopAcked>>
    /\ UNCHANGED <<started, topo, known, restarts, unused, stopAcked>>

\* The command thread is asked to START or STOP: the method reads the
\* topology file (get_all_gw_by_tal) before it takes the lock.
CallRoutes(op) ==
    /\ call[CMD] = NoCall
    /\ MayCall
    /\ call' = [call EXCEPT ![CMD] = [op |-> op, topo |-> topo]]
    /\ stopAcked' = (stopAcked /\ op # "setup")
    /\ UNCHANGED <<table, started, lock, kernel, snapshot, topo, known, restarts, unused>>

\* One iteration of the setup_routes loop: route host h if it is in this
\* spot (an uncaught TypeError when an entry is None).
SetupHost(o, h, t) ==
    IF ~SameSpot(t, h) THEN {o}
    ELSE IF Unreadable(o.tbl, h) THEN {[o EXCEPT !.exc = "TypeError"]}
    ELSE AddRoute(o.tbl, o.krn, h, Args(o.tbl, h))

\* The loop of setup_routes over set(keys), in any order; it stops at the
\* first exception.
RECURSIVE SetupLoop(_, _, _)
SetupLoop(o, todo, t) ==
    IF todo = {} \/ o.exc # "none" THEN {o}
    ELSE UNION {UNION {SetupLoop(o2, todo \ {h}, t) : o2 \in SetupHost(o, h, t)} :
                  h \in todo}

\* setup_routes: mark started, persist, then route every host of the spot.
setup_routes ==
    /\ call[CMD].op = "setup" /\ call[CMD].topo # NoGwIds
    /\ ~unused /\ lock = Free
    /\ started' = TRUE
    /\ \E o \in SetupLoop(Outcome(table, kernel), Keys(table), call[CMD].topo) :
         /\ table' = o.tbl
         /\ kernel' = o.krn
         /\ Return(CMD, o.exc \notin {"none", "NlError"})
    /\ snapshot' = Serialize(table)
    /\ UNCHANGED <<topo, known, restarts, unused, stopAcked>>

\* The loop of remove_routes: unroute each host of the spot; only
\* NlMissing is caught, and remove_route already absorbs it.
RECURSIVE RemoveLoop(_, _, _, _)
RemoveLoop(krn, exc, todo, t) ==
    IF todo = {} \/ exc # "none" THEN {[krn |-> krn, exc |-> exc]}
    ELSE UNION {IF ~SameSpot(t, h) THEN RemoveLoop(krn, exc, todo \ {h}, t)
                ELSE IF Unreadable(table, h)
                THEN {[krn |-> krn, exc |-> "TypeError"]}
                ELSE UNION {RemoveLoop(r.krn, r.exc, todo \ {h}, t) :
                              r \in RemoveRoute(krn, h, Args(table, h))} :
                  h \in todo}

\* Mutant: remove_routes iterates over _routes_v6.keys() only.
remove_routes_v6keys ==
    /\ call[CMD].op = "remove_routes" /\ call[CMD].topo # NoGwIds
    /\ ~unused /\ lock = Free
    /\ started' = FALSE
    /\ \E r \in RemoveLoop(kernel, "none", {h \in HOSTS : table["v6"][h] # NoEntry},
                          call[CMD].topo) :
         /\ kernel' = r.krn
         /\ snapshot' = IF r.exc = "none" THEN NoFile ELSE snapshot
         /\ Return(CMD, r.exc # "none")
         /\ AckStop(r.exc = "none")
    /\ UNCHANGED <<table, topo, known, restarts, unused>>

\* Mutant: remove_routes also forgets the table.
remove_routes_clear ==
    /\ call[CMD].op = "remove_routes" /\ call[CMD].topo # NoGwIds
    /\ ~unused /\ lock = Free
    /\ started' = FALSE
    /\ \E r \in RemoveLoop(kernel, "none", Keys(table), call[CMD].topo) :
         /\ kernel' = r.krn
         /\ snapshot' = IF r.exc = "none" THEN NoFile ELSE snapshot
         /\ Return(CMD, r.exc # "none")
         /\ AckStop(r.exc = "none")
    /\ table' = EmptyTable
    /\ UNCHANGED <<topo, known, restarts, unused>>

\* Mutant: the route file is not deleted.
remove_routes_keepfile ==
    /\ call[CMD].op = "remove_routes" /\ call[CMD].topo # NoGwIds
    /\ ~unused /\ lock = Free
    /\ started' = FALSE
    /\ \E r \in RemoveLoop(kernel, "none", Keys(table), call[CMD].topo) :
         /\ kernel' = r.krn
         /\ Return(CMD, r.exc # "none")
         /\ AckStop(r.exc = "none")
    /\ UNCHANGED <<table, snapshot, topo, known, restarts, unused>>

\* remove_routes: mark stopped, unroute the spot's hosts, delete the
\* route file.  The table is kept.  An exception skips the file delete.
remove_routes ==
    /\ call[CMD].op = "remove_routes" /\ call[CMD].topo # NoGwIds
    /\ ~unused /\ lock = Free
    /\ started' = FALSE
    /\ \E r \in RemoveLoop(kernel, "none", Keys(table), call[CMD].topo) :
         /\ kernel' = r.krn
         /\ snapshot' = IF r.exc = "none" THEN NoFile ELSE snapshot
         /\ Return(CMD, r.exc # "none")
         /\ AckStop(r.exc = "none")
    /\ UNCHANGED <<table, topo, known, restarts, unused>>

\* DEPLOY/CONFIGURE installs another topology file.
Reconfigure ==
    /\ \E t \in TOPOLOGIES \ {topo} : topo' = t
    /\ UNCHANGED <<table, started, lock, kernel, snapshot, known, call, restarts, unused, stopAcked>>

\* "if OpenSandRoutes._unused: return", the first test of
\* add_distant_host, remove_distant_host, setup_routes and remove_routes:
\* before load() the call does nothing.  The test is read outside the
\* lock, but only load() clears _unused, so reading it first is the same
\* as this one step.
ReturnUnused(t) ==
    /\ call[t] # NoCall
    /\ unused
    /\ call' = [call EXCEPT ![t] = NoCall]
    /\ AckStop(call[t].op = "remove_routes")
    /\ UNCHANGED <<table, started, lock, kernel, snapshot, topo, known,
                   restarts, unused>>

\* setup_routes or remove_routes on a topology with no gateway ids:
\* "tal_gw_ids[_instance]" indexes a list, the TypeError is not the
\* KeyError the try catches, and the method raises before it acquires the
\* lock.  Nothing is changed, the route file is not deleted.
RaiseNoGwIds ==
    /\ call[CMD].op \in {"setup", "remove_routes"} /\ call[CMD].topo = NoGwIds
    /\ ~unused
    /\ call' = [call EXCEPT ![CMD] = NoCall]
    /\ UNCHANGED <<table, started, lock, kernel, snapshot, topo, known,
                   restarts, unused, stopAcked>>

\* load(), called once by the daemon main: under the lock, the route file
\* fills the (empty) class dicts and makes the platform presumed started;
\* a workstation is always started; _unused is cleared.
load ==
    /\ unused /\ lock = Free
    /\ table' = IF snapshot.exists THEN snapshot.routes ELSE table
    /\ started' = (snapshot.exists \/ started \/ IsWs)
    /\ unused' = FALSE
    /\ UNCHANGED <<lock, kernel, snapshot, topo, known, call, restarts, stopAcked>>

\* The daemon dies and a new process starts with the class attributes'
\* initial values.  The kernel routes and the route file survive; the
\* calls in progress are lost.
Restart ==
    /\ restarts < MaxRestarts
    /\ restarts' = restarts + 1
    /\ table' = EmptyTable
    /\ started' = FALSE
    /\ unused' = TRUE
    /\ lock' = Free
    /\ call' = [t \in THREADS |-> NoCall]
    /\ UNCHANGED <<kernel, snapshot, topo, known, stopAcked>>

Next ==
    \/ \E h \in HOSTS : HostAppears(h) \/ HostDisappears(h)
    \/ add_distant_host
    \/ remove_distant_host
    \/ CallRoutes("setup") \/ CallRoutes("remove_routes")
    \/ setup_routes
    \/ remove_routes
    \/ \E t \in THREADS : ReturnUnused(t)
    \/ RaiseNoGwIds
    \/ load
    \/ Reconfigure
    \/ Restart

\* The daemon main calls load() once it runs; the two threads run whenever
\* the scheduler lets them, so each body is weakly fair (the lock is free
\* in every state where no body leaked it, so a pending body stays
\* enabled).
Fairness ==
    /\ WF_vars(load)
    /\ \A t \in THREADS : WF_vars(ReturnUnused(t))
    /\ WF_vars(add_distant_host)
    /\ WF_vars(remove_distant_host)
    /\ WF_vars(setup_routes)
    /\ WF_vars(remove_routes)
    /\ WF_vars(RaiseNoGwIds)

Spec == Init /\ [][Next]_vars /\ Fairness

-----------------------------------------------------------------------------
(* Properties *)

\* Every route the daemon installed in the kernel belongs to a peer host
\* the table still records with that family: after add failures, removals,
\* STOP and a restart, no kernel route is left that the daemon has
\* forgotten (and so could never remove again).
KernelBackedByTable ==
    (~unused /\ lock = Free) =>
        \A f \in FAMS :
            kernel[f] \subseteq {h \in HOSTS \ {LocalName} : table[f][h] = Route}

\* Once the platform is stopped (remove_routes ran, or load() found no
\* route file), no route the daemon installed remains in the kernel.  Both
\* this and KernelBackedByTable are about a loaded process: between a
\* crash and load() the new process has not read the route file yet.
StoppedMeansNoRoutes ==
    (~unused /\ ~started /\ lock = Free) => \A f \in FAMS : kernel[f] = {}

\* The table only holds hosts discovery currently announces (or that a
\* pending remove_distant_host is about to drop), also after load()
\* rebuilt it from the route file and after a failed add_route.
TableOnlyKnown == lock = Free => Keys(table) \subseteq Announced

\* The route manager, seen from the platform: the kernel's routes, the
\* started flag, and the hosts announced to it.
Abs == INSTANCE RouteTableAbstract WITH routes <- kernel, announced <- Announced

\* add_distant_host, remove_distant_host, setup_routes and remove_routes,
\* with their threads, lock and table, implement the abstract route
\* manager: routes go only to announced peers while started, a removed
\* host and STOP take theirs away, and every announced peer is routed
\* while the platform stays started.
Implements == Abs!Spec

\* Once a STOP's remove_routes returned normally (so the manager got OK)
\* and no START came since, the route manager stays stopped with no
\* route in the kernel: not after discovery adds hosts, not after a crash
\* and load(), not when the STOP reached a process that had not run
\* load() yet (the _unused return of remove_routes).
StopHolds ==
    (stopAcked /\ lock = Free) => ~started /\ \A f \in FAMS : kernel[f] = {}

\* No method of the route manager returns while still holding
\* _routes_lock (every exception path releases it).
LockReleased == \A t \in THREADS : call[t] = NoCall => lock # t

\* Every call into the route manager eventually returns: no body leaves
\* _routes_lock held, so no thread blocks on it forever.
CallsReturn ==
    \A t \in THREADS : (call[t] # NoCall) ~> (call[t] = NoCall)

=============================================================================
