--------------------------- MODULE ServiceHandler ---------------------------
(***************************************************************************)
(* The collector's Avahi service handler (ServiceHandler in               *)
(* src/opensand-collector/opensand_collector/service_handler.py).        *)
(*                                                                         *)
(* avahi-daemon publishes services per (name, interface) and sends the    *)
(* browser's ItemNew / ItemRemove signals and the replies to              *)
(* ResolveService calls to the collector over one D-Bus connection, so    *)
(* they arrive in the order it sent them: the sequence bus.  The          *)
(* collector's resolve requests travel to avahi in order: the sequence    *)
(* req.  The collector's GLib main loop handles one message at a time.    *)
(* The host manager (not under src/) is the set of hosts it was told of.  *)
(* A service's TXT record either carries the daemon's ext_port or not.    *)
(***************************************************************************)
EXTENDS Naturals, Sequences, FiniteSets

CONSTANTS
    NAMES,      \* service names: the daemons' host names and Collector
    Collector,  \* "collector", the collector's own service
    IFACES,     \* interfaces the browser sees
    MaxFlaps    \* bound on service publications

VARIABLES
    pub,        \* <<name, iface, has ext_port>> services avahi publishes
    bus,        \* avahi -> collector: signals and resolve replies, in order
    req,        \* collector -> avahi: pending ResolveService calls, in order
    known,      \* self._known_hosts
    hm,         \* the hosts the host manager was given (add_host/remove_host)
    flaps,      \* publications so far
    loop        \* the collector's GLib main loop: "running" or "stopped"

vars == <<pub, bus, req, known, hm, flaps, loop>>

\* A D-Bus message; port: the resolved TXT record has an ext_port.
Msg(k, n, i, p) == [kind |-> k, name |-> n, iface |-> i, port |-> p]
Kinds == {"new", "remove", "reply", "error"}

\* A service avahi publishes on an interface, whatever its TXT record.
Published(n, i) == \E p \in BOOLEAN : <<n, i, p>> \in pub

\* The daemons avahi publishes, with an ext_port, on at least one
\* interface.
Live == {n \in NAMES \ {Collector} : \E i \in IFACES : <<n, i, TRUE>> \in pub}

TypeOK ==
    /\ pub \subseteq NAMES \X IFACES \X BOOLEAN
    /\ bus \in Seq([kind : Kinds, name : NAMES, iface : IFACES, port : BOOLEAN])
    /\ req \in Seq([name : NAMES, iface : IFACES])
    /\ known \subseteq NAMES \ {Collector}
    /\ hm \subseteq NAMES \ {Collector}
    /\ flaps \in 0..MaxFlaps
    /\ loop \in {"running", "stopped"}

-----------------------------------------------------------------------------

\* __enter__ has created the browser; nothing is published yet (the
\* collector's own service is announced like any other).
Init ==
    /\ pub = {}
    /\ bus = <<>>
    /\ req = <<>>
    /\ known = {}
    /\ hm = {}
    /\ flaps = 0
    /\ loop = "running"

\* A service appears on an interface: avahi signals ItemNew.  The
\* collector's own record (__enter__) carries transfer_port, never ext_port.
Publish(n, i, p) ==
    /\ ~Published(n, i)
    /\ n = Collector => ~p
    /\ flaps < MaxFlaps
    /\ pub' = pub \cup {<<n, i, p>>}
    /\ bus' = Append(bus, Msg("new", n, i, FALSE))
    /\ flaps' = flaps + 1
    /\ UNCHANGED <<req, known, hm, loop>>

\* A daemon's service disappears from an interface: ItemRemove.
Unpublish(n, i) ==
    /\ n # Collector /\ Published(n, i)
    /\ pub' = {s \in pub : <<s[1], s[2]>> # <<n, i>>}
    /\ bus' = Append(bus, Msg("remove", n, i, FALSE))
    /\ UNCHANGED <<req, known, hm, flaps, loop>>

\* avahi answers the oldest ResolveService call: the record if the service
\* is still published on that interface, an error otherwise.
AvahiResolve ==
    /\ req # <<>>
    /\ LET r == Head(req)
           p == <<r.name, r.iface, TRUE>> \in pub
       IN bus' = Append(bus, Msg(IF Published(r.name, r.iface) THEN "reply" ELSE "error",
                                 r.name, r.iface, p))
    /\ req' = Tail(req)
    /\ UNCHANGED <<pub, known, hm, flaps, loop>>

\* The running main loop takes the next message, of a kind.
Next_(k) == loop = "running" /\ bus # <<>> /\ Head(bus).kind = k
Name == Head(bus).name

\* _handle_new: the collector's own service is ignored; for another one an
\* asynchronous ResolveService is sent.
handle_new ==
    /\ Next_("new")
    /\ req' = IF Name = Collector THEN req
              ELSE Append(req, [name |-> Name, iface |-> Head(bus).iface])
    /\ bus' = Tail(bus)
    /\ UNCHANGED <<pub, known, hm, flaps, loop>>

\* Mutant: the known-host test is inverted.
handle_resolve_inverted ==
    /\ Next_("reply")
    /\ IF ~Head(bus).port \/ Name \notin known THEN UNCHANGED <<known, hm>>
       ELSE /\ known' = known \cup {Name}
            /\ hm' = hm \cup {Name}
    /\ bus' = Tail(bus)
    /\ UNCHANGED <<pub, req, flaps, loop>>

\* _handle_resolve: a TXT record without ext_port is logged and ignored
\* (ValueError); a known host only gets another address (add_host_addr);
\* a new one is recorded and given to the host manager.
handle_resolve ==
    /\ Next_("reply")
    /\ IF ~Head(bus).port \/ Name \in known THEN UNCHANGED <<known, hm>>
       ELSE /\ known' = known \cup {Name}
            /\ hm' = hm \cup {Name}
    /\ bus' = Tail(bus)
    /\ UNCHANGED <<pub, req, flaps, loop>>

\* error_handler: the failed resolution is logged and ignored.
error_handler ==
    /\ Next_("error")
    /\ bus' = Tail(bus)
    /\ UNCHANGED <<pub, req, known, hm, flaps, loop>>

\* Mutant: the host manager is told, but the name stays in _known_hosts.
handle_remove_keepknown ==
    /\ Next_("remove")
    /\ hm' = hm \ {Name, Collector}
    /\ bus' = Tail(bus)
    /\ UNCHANGED <<pub, req, known, flaps, loop>>

\* _handle_remove: the collector's own service is ignored; otherwise,
\* whatever the interface, the host is removed from the host manager and
\* from _known_hosts.
handle_remove ==
    /\ Next_("remove")
    /\ hm' = hm \ {Name, Collector}
    /\ known' = known \ {Name, Collector}
    /\ bus' = Tail(bus)
    /\ UNCHANGED <<pub, req, flaps, loop>>

\* stop(): the main loop quits; messages still queued are never handled.
stop ==
    /\ loop = "running"
    /\ loop' = "stopped"
    /\ UNCHANGED <<pub, bus, req, known, hm, flaps>>

\* __exit__, once run() returned: the entry group is reset, which
\* withdraws the collector's own service.  (The ItemRemove avahi sends
\* for it reaches no running loop and is left out.)
exit ==
    /\ loop = "stopped"
    /\ \E i \in IFACES : Published(Collector, i)
    /\ pub' = {s \in pub : s[1] # Collector}
    /\ UNCHANGED <<bus, req, known, hm, flaps, loop>>

Next ==
    \/ \E n \in NAMES, i \in IFACES, p \in BOOLEAN : Publish(n, i, p)
    \/ \E n \in NAMES, i \in IFACES : Unpublish(n, i)
    \/ AvahiResolve
    \/ handle_new \/ handle_resolve \/ error_handler \/ handle_remove
    \/ stop \/ exit

\* The GLib main loop keeps dispatching until stopped, and avahi answers
\* every resolve (with an error at worst); services come and go, and the
\* collector is stopped, with no fairness.
Fairness ==
    /\ WF_vars(AvahiResolve)
    /\ WF_vars(handle_new) /\ WF_vars(handle_resolve)
    /\ WF_vars(error_handler) /\ WF_vars(handle_remove)

Spec == Init /\ [][Next]_vars /\ Fairness

-----------------------------------------------------------------------------
(* Properties *)

\* Whenever every signal and resolve reply has been handled, the host
\* manager holds exactly the daemons avahi publishes: _handle_resolve and
\* _handle_remove keep _known_hosts and the host manager in step.
HostsMatchWhenQuiet ==
    (bus = <<>> /\ req = <<>>) => hm = Live

\* Unless the collector is stopped, once services stop coming and going
\* the host manager ends up holding exactly the published daemons that
\* give an ext_port, and keeps holding them.
EventuallyConsistent == <>[](hm = Live \/ loop = "stopped")

=============================================================================
