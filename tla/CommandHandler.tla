--------------------------- MODULE CommandHandler ---------------------------
(***************************************************************************)
(* The daemon's command server (class CommandHandler in                   *)
(* src/opensand-daemon/opensand_daemon/command_handler.py, on top of       *)
(* MyTcpHandler.read_data of tcp_server.py), composed with the route       *)
(* manager of OpenSandRoutes, whose state it shares.                      *)
(*                                                                         *)
(* The manager opens one connection per command; the connection is        *)
(* served by setup() then handle() and closed by finish().  A reply is an *)
(* abstract token: "OK", "ERROR" or "CODE" (a test's exit status).         *)
(* ProcessList (not under src/) is a pair of flags: initialized and       *)
(* running.  The test child process is "none", "running", "exited" or     *)
(* "killed"; stopEv is the class-wide MyTcpHandler._stop event.            *)
(***************************************************************************)
EXTENDS Naturals, Sequences

CONSTANTS
    HOSTS, LocalName, HostId, Instance, TOPOLOGIES, IsWs,
    KernelAddMayFail, KernelDelMayFail, MaxRestarts, EarlyCalls,
    LINES,      \* command lines the manager may send
    MaxUnits    \* bound on the content units of one DEPLOY stream

VARIABLES
    table, started, lock, kernel, snapshot, topo, known, call, restarts, unused,
    stopAcked,
    procInit,   \* ProcessList.is_initialized()
    running,    \* ProcessList.is_running()
    phase,      \* where the connection's handler is
    polls,      \* nbr, the setup() wait counter
    cmd,        \* self._data, the command line read
    replies,    \* lines written on this connection
    units,      \* content units received by handle_data_request
    child,      \* the TEST child process
    stopEv      \* MyTcpHandler._stop

R == INSTANCE OpenSandRoutes

routeVars == <<table, started, lock, kernel, snapshot, topo, known, call, restarts,
              unused, stopAcked>>
connVars == <<phase, polls, cmd, replies, units, child>>
vars == <<routeVars, procInit, running, connVars, stopEv>>

Phases == {"closed", "setup", "handle", "stream", "stop_routes",
           "test_read", "test_poll", "test_reap"}
Replies == {"OK", "ERROR", "CODE"}
NoCmd == "none"

TypeOK ==
    /\ R!TypeOK
    /\ procInit \in BOOLEAN /\ running \in BOOLEAN /\ stopEv \in BOOLEAN
    /\ phase \in Phases
    /\ polls \in 0..5
    /\ cmd \in LINES \cup {NoCmd}
    /\ replies \in Seq(Replies)
    /\ units \in 0..MaxUnits
    /\ child \in {"none", "running", "exited", "killed"}

-----------------------------------------------------------------------------

\* The daemon has just started: no connection, process list not loaded.
Init ==
    /\ R!Init
    /\ procInit = FALSE
    /\ running = FALSE
    /\ phase = "closed"
    /\ polls = 0
    /\ cmd = NoCmd
    /\ replies = <<>>
    /\ units = 0
    /\ child = "none"
    /\ stopEv = FALSE

\* finish(): the handler returned and the connection is closed.
Close == phase' = "closed"

\* The daemon's main loads the binary list (ProcessList initialization).
LoadProcessList ==
    /\ ~procInit
    /\ procInit' = TRUE
    /\ UNCHANGED <<routeVars, running, connVars, stopEv>>

\* The daemon's main loads the route manager: OpenSandRoutes.load().
LoadRoutes ==
    /\ R!load
    /\ UNCHANGED <<procInit, running, connVars, stopEv>>

\* The daemon is asked to stop: MyTcpHandler._stop.set().
Shutdown ==
    /\ ~stopEv
    /\ stopEv' = TRUE
    /\ UNCHANGED <<routeVars, procInit, running, connVars>>

\* A manager connects; a new handler runs setup().
Accept ==
    /\ phase = "closed"
    /\ phase' = "setup"
    /\ polls' = 0
    /\ cmd' = NoCmd
    /\ replies' = <<>>
    /\ units' = 0
    /\ child' = "none"
    /\ UNCHANGED <<routeVars, procInit, running, stopEv>>

\* Mutant: the wait loop bound is off by one (nbr <= 5).
SetupWait_overcount ==
    /\ phase = "setup"
    /\ ~procInit /\ polls <= 5
    /\ polls' = polls + 1
    /\ UNCHANGED <<routeVars, procInit, running, phase, cmd, replies, units, child, stopEv>>

\* setup(): sleep one second while the process list is not initialized,
\* at most 5 times.
SetupWait ==
    /\ phase = "setup"
    /\ ~procInit /\ polls < 5
    /\ polls' = polls + 1
    /\ UNCHANGED <<routeVars, procInit, running, phase, cmd, replies, units, child, stopEv>>

SetupDone ==
    /\ phase = "setup"
    /\ procInit \/ polls = 5
    /\ phase' = "handle"
    /\ UNCHANGED <<routeVars, procInit, running, polls, cmd, replies, units, child, stopEv>>

\* handle(): an uninitialized process list is answered with ERROR.
NotInitialized ==
    /\ phase = "handle"
    /\ ~procInit
    /\ replies' = Append(replies, "ERROR")
    /\ Close
    /\ UNCHANGED <<routeVars, procInit, running, polls, cmd, units, child, stopEv>>

\* handle_data_request: OK, then the stream loop (StreamUnit).
handle_data_request ==
    /\ replies' = Append(replies, "OK")
    /\ phase' = "stream"
    /\ UNCHANGED <<routeVars, running>>

\* handle_start: setup_routes() is called without its iface argument.  The
\* TypeError matches none of its except clauses and reaches handle's
\* catch-all: nothing is started and nothing is written.
handle_start ==
    /\ Close
    /\ UNCHANGED <<routeVars, running, replies>>

\* handle_stop: ProcessList.stop(), then remove_routes(), which reads the
\* topology and waits for the route lock (RemoveRoutesBody, StopReply).
handle_stop ==
    /\ running' = FALSE
    /\ R!CallRoutes("remove_routes")
    /\ phase' = "stop_routes"
    /\ UNCHANGED replies

\* handle_test: OK, then the COMMAND line is read (TestRead).
handle_test ==
    /\ replies' = Append(replies, "OK")
    /\ phase' = "test_read"
    /\ UNCHANGED <<routeVars, running>>

\* An unknown command: wfile.write gets two arguments, TypeError, caught by
\* the catch-all: no reply.
UnknownCommand ==
    /\ Close
    /\ UNCHANGED <<routeVars, running, replies>>

\* handle() reads the command (read_data: Timeout or EOFError end the
\* session silently) and dispatches it.
ReadCommand ==
    /\ phase = "handle"
    /\ procInit
    /\ \/ /\ Close
          /\ UNCHANGED <<routeVars, running, cmd, replies>>
       \/ \E l \in LINES :
            /\ cmd' = l
            /\ CASE l \in {"DEPLOY", "CONFIGURE"} -> handle_data_request
                 [] l = "START" -> handle_start
                 [] l = "STOP" -> handle_stop
                 [] l = "TEST" -> handle_test
                 [] OTHER -> UnknownCommand
    /\ UNCHANGED <<procInit, polls, units, child, stopEv>>

\* handle_stop, after remove_routes returned: OK, unless remove_routes
\* raised (it then returned with the route lock held by this thread).
StopReply ==
    /\ phase = "stop_routes"
    /\ call[R!CMD] = R!NoCall
    /\ replies' = IF lock = R!CMD THEN replies ELSE Append(replies, "OK")
    /\ Close
    /\ UNCHANGED <<routeVars, procInit, running, polls, cmd, units, child, stopEv>>

\* handle_stop, when remove_routes raised before taking the lock (a
\* topology with no gateway ids): handle's catch-all logs the TypeError
\* and the connection closes with no reply.
StopRaised ==
    /\ phase = "stop_routes"
    /\ R!RaiseNoGwIds
    /\ Close
    /\ UNCHANGED <<procInit, running, polls, cmd, replies, units, child, stopEv>>

\* Mutant: the unit that ends the stream (False) is not acknowledged.
StreamUnit_lastnoack ==
    /\ phase = "stream"
    /\ \/ /\ units < MaxUnits
          /\ units' = units + 1
          /\ replies' = Append(replies, "OK")
          /\ \E t \in TOPOLOGIES : topo' = t
          /\ UNCHANGED phase
       \/ /\ units < MaxUnits
          /\ units' = units + 1
          /\ Close
          /\ UNCHANGED <<topo, replies>>
       \/ /\ replies' = Append(replies, "ERROR")
          /\ Close
          /\ UNCHANGED <<units, topo>>
       \/ /\ Close
          /\ UNCHANGED <<units, topo, replies>>
    /\ UNCHANGED <<table, started, lock, kernel, snapshot, known, call, restarts, unused, stopAcked>>
    /\ UNCHANGED <<procInit, running, polls, cmd, child, stopEv>>

\* handle_data_request: one receive_content() per step.  A unit (True)
\* may be topology.conf; the last one (False) ends the loop; both are
\* acknowledged.  Timeout, InstructionError and XmlError write ERROR and
\* re-raise; any other exception (I/O) ends the session without reply.
StreamUnit ==
    /\ phase = "stream"
    /\ \/ /\ units < MaxUnits
          /\ units' = units + 1
          /\ replies' = Append(replies, "OK")
          /\ \E t \in TOPOLOGIES : topo' = t
          /\ UNCHANGED phase
       \/ /\ units < MaxUnits
          /\ units' = units + 1
          /\ replies' = Append(replies, "OK")
          /\ Close
          /\ UNCHANGED topo
       \/ /\ replies' = Append(replies, "ERROR")
          /\ Close
          /\ UNCHANGED <<units, topo>>
       \/ /\ Close
          /\ UNCHANGED <<units, topo, replies>>
    /\ UNCHANGED <<table, started, lock, kernel, snapshot, known, call, restarts, unused, stopAcked>>
    /\ UNCHANGED <<procInit, running, polls, cmd, child, stopEv>>

\* handle_test, reading "COMMAND <path>": Timeout/EOF and a line without
\* a space raise; another instruction is answered ERROR; chmod or Popen
\* may raise (OSError); otherwise the child is started.
TestRead ==
    /\ phase = "test_read"
    /\ \/ /\ Close
          /\ UNCHANGED <<replies, child>>
       \/ /\ replies' = Append(replies, "ERROR")
          /\ Close
          /\ UNCHANGED child
       \/ /\ child' = "running"
          /\ phase' = "test_poll"
          /\ UNCHANGED replies
    /\ UNCHANGED <<routeVars, procInit, running, polls, cmd, units, stopEv>>

\* The test program ends by itself.
ChildExits ==
    /\ child = "running"
    /\ child' = "exited"
    /\ UNCHANGED <<routeVars, procInit, running, phase, polls, cmd, replies, units, stopEv>>

\* Mutant: the child is waited for but never killed.
TestKill_nokill ==
    /\ phase = "test_poll"
    /\ stopEv \/ child # "running"
    /\ phase' = "test_reap"
    /\ UNCHANGED <<routeVars, procInit, running, polls, cmd, replies, units, child, stopEv>>

\* Mutant: the poll loop does not look at the stop event.
TestKill_nostop ==
    /\ phase = "test_poll"
    /\ child # "running"
    /\ phase' = "test_reap"
    /\ UNCHANGED <<routeVars, procInit, running, polls, cmd, replies, units, child, stopEv>>

\* The poll loop ends when the stop event is set or the child exited; a
\* child still running is killed, then waited for.
TestKill ==
    /\ phase = "test_poll"
    /\ stopEv \/ child # "running"
    /\ child' = IF child = "running" THEN "killed" ELSE child
    /\ phase' = "test_reap"
    /\ UNCHANGED <<routeVars, procInit, running, polls, cmd, replies, units, stopEv>>

\* Mutant: the exit code is written whether or not a stop was requested.
TestReply_always ==
    /\ phase = "test_reap"
    /\ replies' = Append(replies, "CODE")
    /\ Close
    /\ UNCHANGED <<routeVars, procInit, running, polls, cmd, units, child, stopEv>>

\* The stop event is read again: the exit code is replied only if no stop
\* was requested.
TestReply ==
    /\ phase = "test_reap"
    /\ replies' = IF stopEv THEN replies ELSE Append(replies, "CODE")
    /\ Close
    /\ UNCHANGED <<routeVars, procInit, running, polls, cmd, units, child, stopEv>>

\* The route manager's other caller, the discovery thread.
Discovery ==
    /\ \/ \E h \in HOSTS : R!HostAppears(h) \/ R!HostDisappears(h)
       \/ R!add_distant_host
       \/ R!remove_distant_host
       \/ R!ReturnUnused(R!DISCO)
    /\ UNCHANGED <<procInit, running, connVars, stopEv>>

\* The command thread's route call: the body run under the route lock,
\* or the return at "if _unused" before load().
RemoveRoutesBody ==
    /\ R!remove_routes \/ R!ReturnUnused(R!CMD)
    /\ UNCHANGED <<procInit, running, connVars, stopEv>>

Next ==
    \/ LoadProcessList \/ LoadRoutes \/ Shutdown \/ Accept
    \/ SetupWait \/ SetupDone \/ NotInitialized \/ ReadCommand
    \/ StopReply \/ StopRaised \/ StreamUnit
    \/ TestRead \/ ChildExits \/ TestKill \/ TestReply
    \/ Discovery \/ RemoveRoutesBody

\* A handler runs in its own thread, and every read it makes has a
\* timeout, so each of its steps happens once enabled; the route bodies
\* and the main's load() are weakly fair as in OpenSandRoutes.  The
\* manager (Accept), the test program (ChildExits), discovery events and
\* the daemon's stop are not.
Fairness ==
    /\ WF_vars(SetupWait) /\ WF_vars(SetupDone) /\ WF_vars(NotInitialized)
    /\ WF_vars(ReadCommand) /\ WF_vars(StopReply) /\ WF_vars(StopRaised)
    /\ WF_vars(StreamUnit)
    /\ WF_vars(TestRead) /\ WF_vars(TestKill) /\ WF_vars(TestReply)
    /\ WF_vars(RemoveRoutesBody) /\ WF_vars(LoadRoutes)
    /\ WF_vars(R!ReturnUnused(R!DISCO) /\ UNCHANGED <<procInit, running, connVars, stopEv>>)
    /\ WF_vars(R!add_distant_host /\ UNCHANGED <<procInit, running, connVars, stopEv>>)
    /\ WF_vars(R!remove_distant_host /\ UNCHANGED <<procInit, running, connVars, stopEv>>)

Spec == Init /\ [][Next]_vars /\ Fairness


-----------------------------------------------------------------------------
(* Properties *)

\* handle(): a START, a STOP or an unknown command is answered by exactly
\* one line before its connection closes (the manager's read_data waits
\* for it).
OneReplyPerCommand ==
    [][(/\ phase # "closed" /\ phase' = "closed"
        /\ cmd' \in LINES \ {"DEPLOY", "CONFIGURE", "TEST"})
       => Len(replies') = 1]_vars

\* handle_test: once the handler has returned, the test child is not left
\* running, whether it exited, was killed on shutdown, or never started.
ChildReaped == phase = "closed" => child # "running"

\* handle_test: an exit code is sent only for a child that ended by itself;
\* a child killed because of a shutdown (the loop exit at line 217 and the
\* second look at the stop event at line 229) is never reported.
CodeOnlyAfterExit ==
    \A i \in DOMAIN replies : replies[i] = "CODE" => child = "exited"

\* handle_data_request: a DEPLOY or CONFIGURE stream is not rolled back when
\* it fails half-way (a Timeout, a bad instruction, an XmlError, or an I/O
\* error that ends the session), so the manager must learn from the replies
\* how far it got: the lines written are the first OK and exactly one OK
\* per unit receive_content() took, the last one included, then at most
\* one ERROR and nothing after it.
StreamAcked ==
    (/\ cmd \in {"DEPLOY", "CONFIGURE"} /\ phase \in {"stream", "closed"}
     /\ replies # <<>> /\ Head(replies) = "OK")
    => \E e \in {<<>>, <<"ERROR">>} : replies = [i \in 1..units + 1 |-> "OK"] \o e

\* A daemon shutdown ends the connection in progress: the test poll loop
\* watches the stop event, and every other wait of the handler is bounded.
ShutdownEndsHandler == stopEv ~> phase = "closed"

=============================================================================
